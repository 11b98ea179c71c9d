------------------------------- MODULE Items -------------------------------
(***************************************************************************)
(* The wardrobe: item rows in MongoDB, their images in the object store    *)
(* and the log of laundry transitions, as routes/items.ts writes them.     *)
(*                                                                         *)
(* An upload writes two stores and a laundry change two collections, with  *)
(* no transaction over either pair; the handlers choose an order of writes *)
(* and undo the earlier one when the later one fails.  Each call to a      *)
(* store is one action.  A call may reject, a clean-up may itself fail,    *)
(* and the process may die between any two calls.                          *)
(***************************************************************************)
EXTENDS Integers, FiniteSets

CONSTANTS
  Users,        \* accounts holding a valid token
  Items,        \* one per upload: the row's id and the stem of its object keys
  Requests,     \* slots for requests in flight
  Categories,   \* ITEM_CATEGORIES
  Handlers,     \* the handlers clients call in this instance
  Ambiguous,    \* may a write be applied and still reject (a lost reply)?
  MaxPresses,   \* bound: laundry changes asked for
  MaxRejects,   \* bound: calls of a handler's main path that reject
  MaxLosses,    \* bound: clean-up calls that fail, and process deaths
  None

ASSUME NoneAssumption == None \notin Users \cup Items \cup Categories
ASSUME RequestsAssumption == IsFiniteSet(Requests)
ASSUME AmbiguousAssumption == Ambiguous \in BOOLEAN
ASSUME BoundsAssumption == MaxPresses \in Nat /\ MaxRejects \in Nat /\ MaxLosses \in Nat
ASSUME HandlersAssumption ==
  Handlers \subseteq {"upload", "laundry", "retire", "category", "delete"}

Statuses == {"available", "in_laundry"}
Parts == {"image", "thumbnail"}

VARIABLES
  rows,      \* the ClothingItem collection, by id
  used,      \* ids and keys already generated, never generated again
  objects,   \* <<item, part>> in the bucket
  log,       \* the LaundryStatus collection; n is both the row's id and changedAt
  presses,   \* laundry changes stamped so far
  request,   \* the handler activations in flight
  rejects,   \* main-path calls that rejected
  losses,    \* clean-ups lost, by their own failure or with the process
  applied    \* history: transitions the item's row was saved for

vars == <<rows, used, objects, log, presses, request, rejects, losses, applied>>

Absent == [present |-> FALSE, userId |-> None, thumb |-> FALSE, category |-> None,
           aiCategory |-> None, laundryStatus |-> "available", retired |-> FALSE]

Row == [present : BOOLEAN, userId : Users \cup {None}, thumb : BOOLEAN,
        category : Categories \cup {None}, aiCategory : Categories \cup {None},
        laundryStatus : Statuses, retired : BOOLEAN]

Transition == [n : 1..MaxPresses, item : Items, status : Statuses]

Calls == {"putImage", "putThumbnail", "insertItem", "cleanUp",
          "load", "logTransition", "save", "undoTransition",
          "deleteRow", "deleteObjects"}

\* handler and at say where a request is; value is the patch it carries, doc
\* the document it loaded, keys the objects it has stored or must delete, n
\* the transition it stamped.
Idle == [handler |-> None, at |-> "idle", user |-> None, item |-> None,
         value |-> None, doc |-> Absent, keys |-> {}, n |-> 0]

TypeOK ==
  /\ rows \in [Items -> Row]
  /\ used \subseteq Items
  /\ objects \subseteq Items \X Parts
  /\ log \subseteq Transition
  /\ presses \in 0..MaxPresses
  /\ rejects \in 0..MaxRejects
  /\ losses \in 0..MaxLosses
  /\ applied \subseteq 1..MaxPresses
  /\ \A i \in Items : rows[i].present => rows[i].userId # None /\ rows[i].category # None
  /\ \A r \in Requests : request[r] # Idle =>
       /\ request[r].handler \in Handlers /\ request[r].at \in Calls
       /\ request[r].user \in Users /\ request[r].item \in Items
       /\ request[r].doc \in Row /\ request[r].keys \subseteq Parts
       /\ request[r].n \in 0..MaxPresses

Init ==
  /\ rows = [i \in Items |-> Absent]
  /\ used = {}
  /\ objects = {}
  /\ log = {}
  /\ presses = 0
  /\ request = [r \in Requests |-> Idle]
  /\ rejects = 0
  /\ losses = 0
  /\ applied = {}

Answer(r) == request' = [request EXCEPT ![r] = Idle]
Continue(r, c) == request' = [request EXCEPT ![r].at = c]

\* The keys of parts ks of the item request r is about.
Keys(r, ks) == {request[r].item} \X ks

\* findOwnedItem: the caller's row, or a 404.
Owned(r) ==
  /\ rows[request[r].item].present
  /\ rows[request[r].item].userId = request[r].user

\* A call of the main path rejects.
Reject == rejects < MaxRejects /\ rejects' = rejects + 1

\* A clean-up call rejects; the handler logs it and carries on.
Lose == losses < MaxLosses /\ losses' = losses + 1

----------------------------------------------------------------------------
(***************************************************************************)
(* Requests arriving.                                                      *)
(***************************************************************************)

\* The document is what will be inserted, but for what the tagger says.
Posted(u, i, thumb, c) ==
  [Idle EXCEPT !.handler = "upload", !.at = "putImage", !.user = u, !.item = i,
               !.doc = [Absent EXCEPT !.userId = u, !.thumb = thumb, !.category = c]]

\* POST /items, past its validation: both parts are images of legal size.
ArriveUpload(r) ==
  /\ "upload" \in Handlers /\ request[r] = Idle
  /\ \E u \in Users, i \in Items \ used, thumb \in BOOLEAN, c \in Categories :
       /\ used' = used \cup {i}
       /\ request' = [request EXCEPT ![r] = Posted(u, i, thumb, c)]
  /\ UNCHANGED <<rows, objects, log, presses, rejects, losses, applied>>

\* Laundry changes asked for, stamped or not yet.
Unstamped == {r \in Requests : request[r].handler = "laundry" /\ request[r].at = "load"}

\* What a patch of each handler may carry.  An id not inserted yet is answered
\* like one deleted.
Carries(h) ==
  CASE h = "laundry"  -> IF presses + Cardinality(Unstamped) < MaxPresses
                           THEN Statuses ELSE {}
    [] h = "retire"   -> BOOLEAN
    [] h = "category" -> Categories
    [] h = "delete"   -> {None}

ArriveEdit(r) ==
  /\ request[r] = Idle
  /\ \E h \in Handlers \ {"upload"}, u \in Users, i \in used : \E v \in Carries(h) :
       request' = [request EXCEPT ![r] =
         [Idle EXCEPT !.handler = h, !.at = "load", !.user = u, !.item = i, !.value = v]]
  /\ UNCHANGED <<rows, used, objects, log, presses, rejects, losses, applied>>

----------------------------------------------------------------------------
(***************************************************************************)
(* POST /items: image, then thumbnail, then row; on a failure delete what  *)
(* is known to have been stored.                                           *)
(***************************************************************************)

\* What a rejected write may leave of its target.
Leaves(written, unwritten) == IF Ambiguous THEN {written, unwritten} ELSE {unwritten}

PutImage(r) ==
  /\ request[r].at = "putImage"
  /\ \/ /\ objects' = objects \cup Keys(r, {"image"})
        /\ request' = [request EXCEPT
             ![r] = [request[r] EXCEPT
                       !.keys = {"image"},
                       !.at = IF request[r].doc.thumb THEN "putThumbnail" ELSE "insertItem"]]
        /\ UNCHANGED rejects
     \/ /\ Reject
        /\ objects' \in Leaves(objects \cup Keys(r, {"image"}), objects)
        /\ Answer(r)
  /\ UNCHANGED <<rows, used, log, presses, losses, applied>>

\* Mutant: the image stored before the thumbnail failed is forgotten.
PutThumbnailNoCleanUp(r) ==
  /\ request[r].at = "putThumbnail"
  /\ \/ /\ objects' = objects \cup Keys(r, {"thumbnail"})
        /\ request' = [request EXCEPT
             ![r] = [request[r] EXCEPT !.keys = request[r].keys \cup {"thumbnail"},
                                       !.at = "insertItem"]]
        /\ UNCHANGED rejects
     \/ Reject /\ Answer(r) /\ UNCHANGED objects
  /\ UNCHANGED <<rows, used, log, presses, losses, applied>>

PutThumbnail(r) ==
  /\ request[r].at = "putThumbnail"
  /\ \/ /\ objects' = objects \cup Keys(r, {"thumbnail"})
        /\ request' = [request EXCEPT
             ![r] = [request[r] EXCEPT !.keys = request[r].keys \cup {"thumbnail"},
                                       !.at = "insertItem"]]
        /\ UNCHANGED rejects
     \/ /\ Reject
        /\ objects' \in Leaves(objects \cup Keys(r, {"thumbnail"}), objects)
        /\ Continue(r, "cleanUp")
  /\ UNCHANGED <<rows, used, log, presses, losses, applied>>

\* tagImage never throws: it names a category or there are no tags.
Inserted(r, tag) ==
  [rows EXCEPT ![request[r].item] =
     [request[r].doc EXCEPT !.present = TRUE,
                            !.category = IF tag = None THEN request[r].doc.category ELSE tag,
                            !.aiCategory = tag]]

InsertItem(r) ==
  /\ request[r].at = "insertItem"
  /\ \E tag \in Categories \cup {None} :
       \/ rows' = Inserted(r, tag) /\ Answer(r) /\ UNCHANGED rejects
       \/ /\ Reject
          /\ rows' \in Leaves(Inserted(r, tag), rows)
          /\ Continue(r, "cleanUp")
  /\ UNCHANGED <<used, objects, log, presses, losses, applied>>

\* One of the parallel storage.delete calls; its failure is swallowed.
DeleteStored(r) ==
  /\ \E k \in request[r].keys :
       /\ \/ objects' = objects \ Keys(r, {k}) /\ UNCHANGED losses
          \/ Lose /\ UNCHANGED objects
       /\ IF request[r].keys = {k}
            THEN Answer(r)
            ELSE request' = [request EXCEPT ![r].keys = @ \ {k}]
  /\ UNCHANGED <<rows, used, log, presses, rejects, applied>>

CleanUp(r) == request[r].at = "cleanUp" /\ DeleteStored(r)

----------------------------------------------------------------------------
(***************************************************************************)
(* The handlers that load the row first: PATCH laundry, retire, category   *)
(* and DELETE.                                                             *)
(***************************************************************************)
Loaded(r, c) ==
  request' = [request EXCEPT ![r] = [request[r] EXCEPT !.doc = rows[request[r].item], !.at = c]]

Load(r) ==
  /\ request[r].at = "load"
  /\ \/ ~Owned(r) /\ Answer(r) /\ UNCHANGED presses
     \/ /\ Owned(r) /\ request[r].handler = "laundry"
        /\ presses' = presses + 1
        /\ request' = [request EXCEPT
             ![r] = [request[r] EXCEPT !.doc = rows[request[r].item],
                                       !.n = presses + 1,
                                       !.at = "logTransition"]]
     \/ /\ Owned(r) /\ request[r].handler \in {"retire", "category"}
        /\ Loaded(r, "save") /\ UNCHANGED presses
     \/ /\ Owned(r) /\ request[r].handler = "delete"
        /\ Loaded(r, "deleteRow") /\ UNCHANGED presses
  /\ UNCHANGED <<rows, used, objects, log, rejects, losses, applied>>

\* LaundryStatus.create, before the item is touched.
Logged(r) ==
  log \cup {[n |-> request[r].n, item |-> request[r].item, status |-> request[r].value]}

LogTransition(r) ==
  /\ request[r].at = "logTransition"
  /\ \/ log' = Logged(r) /\ Continue(r, "save") /\ UNCHANGED rejects
     \/ Reject /\ log' \in Leaves(Logged(r), log) /\ Answer(r)
  /\ UNCHANGED <<rows, used, objects, presses, losses, applied>>

\* doc.save() after doc[f] = value: only a path that differs from the loaded
\* document is written, and a document gone in the meantime is an error.
Present(r) == rows[request[r].item].present

\* Mutant: the whole loaded document is written back.
SavedWhole(r, f) ==
  [rows EXCEPT ![request[r].item] = [request[r].doc EXCEPT ![f] = request[r].value]]

Saved(r, f) ==
  IF request[r].value = request[r].doc[f]
    THEN rows
    ELSE [rows EXCEPT ![request[r].item][f] = request[r].value]

\* The laundry save compensates the log when it fails, for whatever reason.
SaveLaundry(r) ==
  /\ request[r].at = "save" /\ request[r].handler = "laundry"
  /\ \/ /\ Present(r)
        /\ rows' = Saved(r, "laundryStatus")
        /\ applied' = applied \cup {request[r].n}
        /\ Answer(r)
        /\ UNCHANGED rejects
     \/ /\ ~Present(r)
        /\ Continue(r, "undoTransition")
        /\ UNCHANGED <<rows, rejects, applied>>
     \/ /\ Present(r) /\ Reject
        /\ rows' \in Leaves(Saved(r, "laundryStatus"), rows)
        /\ Continue(r, "undoTransition")
        /\ UNCHANGED applied
  /\ UNCHANGED <<used, objects, log, presses, losses>>

\* Mutant: the compensation deletes by item rather than by row.
UndoTransitionOfItem(r) ==
  /\ request[r].at = "undoTransition"
  /\ log' = {t \in log : t.item # request[r].item}
  /\ Answer(r)
  /\ UNCHANGED <<rows, used, objects, presses, rejects, losses, applied>>

UndoTransition(r) ==
  /\ request[r].at = "undoTransition"
  /\ \/ log' = {t \in log : t.n # request[r].n} /\ UNCHANGED losses
     \/ Lose /\ UNCHANGED log
  /\ Answer(r)
  /\ UNCHANGED <<rows, used, objects, presses, rejects, applied>>

\* PATCH retire and PATCH category have one write and nothing to undo.
SaveField(r, h, f) ==
  /\ request[r].at = "save" /\ request[r].handler = h
  /\ \/ /\ rows' = IF Present(r) THEN Saved(r, f) ELSE rows
        /\ UNCHANGED rejects
     \/ /\ Present(r) /\ Reject
        /\ rows' \in Leaves(Saved(r, f), rows)
  /\ Answer(r)
  /\ UNCHANGED <<used, objects, log, presses, losses, applied>>

SaveRetired(r) == SaveField(r, "retire", "retired")
SaveCategory(r) == SaveField(r, "category", "category")

\* Mutant: the row's deletion is best-effort too.
DeleteRowSwallowed(r) ==
  /\ request[r].at = "deleteRow"
  /\ \/ rows' = [rows EXCEPT ![request[r].item] = Absent] /\ UNCHANGED rejects
     \/ Reject /\ UNCHANGED rows
  /\ request' = [request EXCEPT
       ![r] = [request[r] EXCEPT !.keys = {"image"}, !.at = "deleteObjects"]]
  /\ UNCHANGED <<used, objects, log, presses, losses, applied>>

\* DELETE /items/:id: the row first, whatever it still matches, then the
\* objects of the loaded document, best-effort.
DeleteRow(r) ==
  /\ request[r].at = "deleteRow"
  /\ LET gone == [rows EXCEPT ![request[r].item] = Absent] IN
     \/ /\ rows' = gone
        /\ request' = [request EXCEPT
             ![r] = [request[r] EXCEPT
                       !.keys = {"image"} \cup {k \in {"thumbnail"} : request[r].doc.thumb},
                       !.at = "deleteObjects"]]
        /\ UNCHANGED rejects
     \/ Reject /\ rows' \in Leaves(gone, rows) /\ Answer(r)
  /\ UNCHANGED <<used, objects, log, presses, losses, applied>>

DeleteObjects(r) == request[r].at = "deleteObjects" /\ DeleteStored(r)

\* The API process dies: nothing in flight continues, the stores keep what
\* they have.
Crash ==
  /\ \E r \in Requests : request[r] # Idle
  /\ Lose
  /\ request' = [r \in Requests |-> Idle]
  /\ UNCHANGED <<rows, used, objects, log, presses, rejects, applied>>

----------------------------------------------------------------------------
\* A handler already running makes its next call.
Step(r) ==
  \/ PutImage(r) \/ PutThumbnail(r) \/ InsertItem(r) \/ CleanUp(r)
  \/ Load(r) \/ LogTransition(r) \/ SaveLaundry(r) \/ UndoTransition(r)
  \/ SaveRetired(r) \/ SaveCategory(r)
  \/ DeleteRow(r) \/ DeleteObjects(r)

Next ==
  \/ \E r \in Requests : ArriveUpload(r) \/ ArriveEdit(r) \/ Step(r)
  \/ Crash

Spec == Init /\ [][Next]_vars

\* Every call to a store is answered or rejected, and the event loop then
\* runs the handler on.
FairSpec == Spec /\ \A r \in Requests : WF_vars(Step(r))

----------------------------------------------------------------------------
(***************************************************************************)
(* Safety                                                                  *)
(***************************************************************************)

\* A row never outlives its objects: the upload writes the bytes before the
\* row, the delete removes the row before the bytes, so no wardrobe shows a
\* tile with a dead image, whatever fails or crashes in between.
RowHasObjects ==
  \A i \in Items : rows[i].present =>
    /\ <<i, "image">> \in objects
    /\ rows[i].thumb => <<i, "thumbnail">> \in objects

\* The request r still answers for the object of item i in part k.
Tends(r, i, k) ==
  /\ request[r].item = i /\ k \in request[r].keys
  /\ request[r].at \in {"putThumbnail", "insertItem", "cleanUp", "deleteObjects"}

\* An object without a row is never silently leaked: some request is about to
\* give it a row or delete it, unless a clean-up failed or the process died.
NoLeak ==
  losses = 0 =>
    \A i \in Items, k \in Parts :
      <<i, k>> \in objects /\ ~rows[i].present => \E r \in Requests : Tends(r, i, k)

\* "Rather than a current status that no row explains, which nothing can
\* reconstruct": an item in the laundry has a transition that put it there,
\* whatever was compensated or lost since.
StatusExplained ==
  \A i \in Items : rows[i].present /\ rows[i].laundryStatus = "in_laundry" =>
    \E t \in log : t.item = i /\ t.status = "in_laundry"

\* The compensation "closes every failure short of process death": a logged
\* transition was saved on its item, or its request is still at work on it.
TransitionsTookEffect ==
  losses = 0 =>
    \A t \in log : t.n \in applied \/ \E r \in Requests : request[r].n = t.n

\* Two devices editing one item do not undo each other: a field of a row
\* changes only by a save of the handler for that field, to the value asked
\* for, and what the model said of it (aiCategory) never changes.
Moves(i, h, v) ==
  \E r \in Requests : /\ request[r].at = "save" /\ request[r].handler = h
                      /\ request[r].item = i /\ request[r].value = v

FieldsIndependent ==
  [][\A i \in Items : rows[i].present /\ rows[i]'.present =>
       /\ rows[i]'.laundryStatus # rows[i].laundryStatus =>
            Moves(i, "laundry", rows[i]'.laundryStatus)
       /\ rows[i]'.retired # rows[i].retired => Moves(i, "retire", rows[i]'.retired)
       /\ rows[i]'.category # rows[i].category => Moves(i, "category", rows[i]'.category)
       /\ rows[i]'.aiCategory = rows[i].aiCategory
       /\ rows[i]'.userId = rows[i].userId /\ rows[i]'.thumb = rows[i].thumb]_vars

(***************************************************************************)
(* Liveness                                                                *)
(***************************************************************************)

\* An object without a row gets one or is deleted, unless a clean-up is lost.
LoneObjectsResolve ==
  \A i \in Items, k \in Parts :
    (<<i, k>> \in objects /\ ~rows[i].present)
      ~> (<<i, k>> \notin objects \/ rows[i].present \/ losses > 0)

(***************************************************************************)
(* As the runs check them                                                  *)
(***************************************************************************)

\* The two stores agree, up to what a request still answers for: no row
\* without its objects, no object without a row or a request.
StoresAgree == TypeOK /\ RowHasObjects /\ NoLeak

\* The transition log and the rows tell one story.
LogIsTrue == StatusExplained /\ TransitionsTookEffect
=============================================================================
