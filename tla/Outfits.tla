------------------------------ MODULE Outfits ------------------------------
(***************************************************************************)
(* Outfits and what is taken from them: wear events, calendar plans and    *)
(* community posts each copy an outfit's composition at the moment they    *)
(* are made (routes/outfits.ts, wearHistory.ts, outfitPlans.ts and the     *)
(* share handler of community.ts).  Logging a wear also fans out to the    *)
(* wear counters of the items, a second write with no transaction: an      *)
(* updateMany, which mongod applies document by document.                  *)
(*                                                                         *)
(* Items are retired, restored and deleted underneath by routes/items.ts,  *)
(* of which only the writes to the item rows matter here.                  *)
(***************************************************************************)
EXTENDS Integers, FiniteSets, FiniteSetsExt

CONSTANTS
  Users,      \* accounts holding a valid token
  Items,      \* the garments uploaded
  Owner,      \* whose each garment is
  OutfitIds,  \* ids outfits are created with, never reused
  RecordIds,  \* ids wear events, plans and posts are created with
  Names,      \* outfit names
  Requests,   \* slots for requests in flight
  Handlers,   \* the handlers clients call in this instance
  MaxLosses,  \* bound: requests that fail part-way
  None

ASSUME OwnerAssumption == Owner \in [Items -> Users]
ASSUME NoneAssumption == None \notin Users \cup OutfitIds \cup Names
ASSUME RequestsAssumption == IsFiniteSet(Requests)
ASSUME LossesAssumption == MaxLosses \in Nat
ASSUME HandlersAssumption ==
  Handlers \subseteq {"create", "patch", "delete", "wear", "plan", "post", "unplan", "unpost",
                      "retireItem", "deleteItem"}

(***************************************************************************)
(* Days stand for instants; every request is received on Today.            *)
(***************************************************************************)
Today == 1
Days == 0..2
NoDay == -1

VARIABLES
  items,    \* the item rows, as far as outfits care
  outfits,  \* the Outfit collection, by id
  taken,    \* rows of WearHistory, OutfitPlan and CommunityPost
  spent,    \* ids already taken, of outfits and of those rows
  request,  \* the handler activations in flight
  losses,   \* requests that failed part-way so far
  held,     \* history: every composition an outfit has been stored with
  counted   \* history: <<event, item>> pairs the fan-out has reached

vars == <<items, outfits, taken, spent, request, losses, held, counted>>

Item == [live : BOOLEAN, retired : BOOLEAN, wearCount : Nat, lastWornAt : Days \cup {NoDay}]

Composition == (SUBSET Items) \ {{}}
NoOutfit == [live |-> FALSE, userId |-> None, itemIds |-> {}, name |-> None]
Outfit == {NoOutfit} \cup
  [live : {TRUE}, userId : Users, itemIds : Composition, name : Names \cup {None}]

Kinds == {"wear", "plan", "post"}
Record == [id : RecordIds, kind : Kinds, userId : Users, outfitId : OutfitIds,
           itemIds : Composition, day : Days]

\* at is the call a request makes next.  asked and name are what its body
\* carries ({} and "keep" when it does not), doc the outfit it loaded, stale
\* whether that outfit's composition has been saved over since, left the
\* items an updateMany has yet to visit.
Idle == [handler |-> None, at |-> "idle", user |-> None, outfit |-> None, asked |-> {},
         name |-> "keep", doc |-> NoOutfit, stale |-> FALSE, day |-> 0,
         record |-> None, left |-> {}]

Calls == {"resolve", "insert", "load", "save", "remove", "record", "fanOut"}

TypeOK ==
  /\ items \in [Items -> Item]
  /\ outfits \in [OutfitIds -> Outfit]
  /\ taken \subseteq Record
  /\ spent \subseteq OutfitIds \cup RecordIds
  /\ losses \in 0..MaxLosses
  /\ held \subseteq OutfitIds \X Composition
  /\ counted \subseteq RecordIds \X Items
  /\ \A r \in Requests : request[r] # Idle =>
       /\ request[r].handler \in Handlers /\ request[r].at \in Calls
       /\ request[r].user \in Users /\ request[r].doc \in Outfit
       /\ request[r].asked \subseteq Items /\ request[r].left \subseteq Items
       /\ request[r].name \in Names \cup {None, "keep"} /\ request[r].day \in Days

Fresh == [live |-> TRUE, retired |-> FALSE, wearCount |-> 0, lastWornAt |-> NoDay]

Init ==
  /\ items = [i \in Items |-> Fresh]
  /\ outfits = [o \in OutfitIds |-> NoOutfit]
  /\ taken = {}
  /\ spent = {}
  /\ request = [r \in Requests |-> Idle]
  /\ losses = 0
  /\ held = {}
  /\ counted = {}

Answer(r) == request' = [request EXCEPT ![r] = Idle]
Continue(r, c) == request' = [request EXCEPT ![r].at = c]
data == <<items, outfits, taken, spent, losses, held, counted>>

\* The caller's outfit: ownership is part of every query.
Owned(r) ==
  /\ outfits[request[r].outfit].live
  /\ outfits[request[r].outfit].userId = request[r].user

----------------------------------------------------------------------------
(***************************************************************************)
(* Requests arriving.                                                      *)
(***************************************************************************)
Arrive(r, first) ==
  /\ request[r] = Idle /\ first.handler \in Handlers
  /\ request' = [request EXCEPT ![r] = first]
  /\ UNCHANGED data

Created == OutfitIds \cap spent

\* Ids bound the inserts: each insert in flight has one left to take.
Room(handlers, ids) ==
  Cardinality({r \in Requests : request[r].handler \in handlers /\ request[r].at # "fanOut"})
    < Cardinality(ids \ spent)

ArriveCreate(r) ==
  /\ Room({"create"}, OutfitIds)
  /\ \E u \in Users, is \in Composition, n \in Names \cup {None} :
       Arrive(r, [Idle EXCEPT !.handler = "create", !.at = "resolve", !.user = u,
                              !.asked = is, !.name = n])

\* An empty patch is rejected after the load and writes nothing.
ArrivePatch(r) ==
  \E u \in Users, o \in Created, is \in Composition \cup {{}}, n \in Names \cup {None, "keep"} :
    /\ is # {} \/ n # "keep"
    /\ Arrive(r, [Idle EXCEPT !.handler = "patch", !.at = "load", !.user = u,
                              !.outfit = o, !.asked = is, !.name = n])

ArriveDelete(r) ==
  \E u \in Users, o \in Created :
    Arrive(r, [Idle EXCEPT !.handler = "delete", !.at = "remove", !.user = u, !.outfit = o])

\* resolveWornAt accepts now and the past, resolvePlannedFor now and the future.
DayOf(kind, d) ==
  CASE kind = "wear" -> d <= Today
    [] kind = "plan" -> d >= Today
    [] kind = "post" -> d = Today

ArriveTake(r) ==
  /\ Room(Kinds, RecordIds)
  /\ \E u \in Users, o \in Created, k \in Kinds, d \in Days :
       /\ DayOf(k, d)
       /\ Arrive(r, [Idle EXCEPT !.handler = k, !.at = "load", !.user = u,
                                 !.outfit = o, !.day = d])

\* DELETE of a plan, and of a post as far as the copy it holds is concerned.
ArriveRetract(r) ==
  \E u \in Users, id \in RecordIds \cap spent, h \in {"unplan", "unpost"} :
    Arrive(r, [Idle EXCEPT !.handler = h, !.at = "remove", !.user = u, !.record = id])

----------------------------------------------------------------------------
(***************************************************************************)
(* POST and PATCH /outfits.                                                *)
(***************************************************************************)

\* Mutant: the items are looked up by id alone.
ResolvableOfAnyone(r) ==
  \A i \in request[r].asked : items[i].live /\ ~items[i].retired

\* resolveOwnedItems: every id asked for is the caller's, present and active.
Resolvable(r) ==
  \A i \in request[r].asked : Owner[i] = request[r].user /\ items[i].live /\ ~items[i].retired

Resolve(r) ==
  /\ request[r].at = "resolve"
  /\ IF ~Resolvable(r) THEN Answer(r)
       ELSE Continue(r, IF request[r].handler = "create" THEN "insert" ELSE "save")
  /\ UNCHANGED data

InsertOutfit(r) ==
  /\ request[r].at = "insert"
  /\ \E o \in OutfitIds \ spent :
       /\ outfits' = [outfits EXCEPT ![o] =
            [live |-> TRUE, userId |-> request[r].user, itemIds |-> request[r].asked,
             name |-> request[r].name]]
       /\ spent' = spent \cup {o}
       /\ held' = held \cup {<<o, request[r].asked>>}
  /\ Answer(r)
  /\ UNCHANGED <<items, taken, losses, counted>>

\* The patch's own read; only a new composition needs its items resolved.
LoadForPatch(r) ==
  /\ request[r].at = "load" /\ request[r].handler = "patch"
  /\ IF Owned(r)
       THEN request' = [request EXCEPT
              ![r] = [request[r] EXCEPT !.doc = outfits[request[r].outfit],
                                        !.at = IF request[r].asked = {} THEN "save" ELSE "resolve"]]
       ELSE Answer(r)
  /\ UNCHANGED data

\* doc.save() writes the paths that differ from what was loaded.
Recomposes(r) == request[r].asked # {} /\ request[r].asked # request[r].doc.itemIds
Renames(r) == request[r].name # "keep" /\ request[r].name # request[r].doc.name

\* Mutant: the loaded document is written back whole.
PatchedWhole(r) ==
  [request[r].doc EXCEPT
     !.itemIds = IF request[r].asked # {} THEN request[r].asked ELSE @,
     !.name = IF request[r].name # "keep" THEN request[r].name ELSE @]

Patched(r) ==
  [outfits[request[r].outfit] EXCEPT
     !.itemIds = IF Recomposes(r) THEN request[r].asked ELSE @,
     !.name = IF Renames(r) THEN request[r].name ELSE @]

\* The requests holding outfit o as loaded before its composition moved.
Outdated(r) ==
  [q \in Requests |->
     IF q = r THEN Idle
     ELSE IF Recomposes(r) /\ request[q].handler = "patch"
             /\ request[q].at \in {"resolve", "save"} /\ request[q].outfit = request[r].outfit
       THEN [request[q] EXCEPT !.stale = TRUE]
       ELSE request[q]]

\* A deleted outfit answers 404.  Mongoose versions whole-array writes: one
\* that is stale is rejected or, were it not versioned, overwrites.
SaveOutfit(r) ==
  /\ request[r].at = "save"
  /\ \/ /\ outfits[request[r].outfit].live
        /\ outfits' = [outfits EXCEPT ![request[r].outfit] = Patched(r)]
        /\ held' = held \cup {<<request[r].outfit, Patched(r).itemIds>>}
        /\ request' = Outdated(r)
     \/ /\ ~outfits[request[r].outfit].live \/ (Recomposes(r) /\ request[r].stale)
        /\ Answer(r)
        /\ UNCHANGED <<outfits, held>>
  /\ UNCHANGED <<items, taken, spent, losses, counted>>

\* DELETE /outfits/:id: one owner-scoped deleteOne, no cascade.
DeleteOutfit(r) ==
  /\ request[r].at = "remove" /\ request[r].handler = "delete"
  /\ outfits' = IF Owned(r) THEN [outfits EXCEPT ![request[r].outfit] = NoOutfit] ELSE outfits
  /\ Answer(r)
  /\ UNCHANGED <<items, taken, spent, losses, held, counted>>

----------------------------------------------------------------------------
(***************************************************************************)
(* POST /wear-history, /outfit-plans and /community/posts.                 *)
(***************************************************************************)
LoadToTake(r) ==
  /\ request[r].at = "load" /\ request[r].handler \in Kinds
  /\ IF Owned(r)
       THEN request' = [request EXCEPT
              ![r] = [request[r] EXCEPT !.doc = outfits[request[r].outfit], !.at = "record"]]
       ELSE Answer(r)
  /\ UNCHANGED data

Copied(r, id, is) ==
  /\ taken' = taken \cup
       {[id |-> id, kind |-> request[r].handler, userId |-> request[r].user,
         outfitId |-> request[r].outfit, itemIds |-> is, day |-> request[r].day]}
  /\ spent' = spent \cup {id}

\* Mutant: only the garments still active are copied.
TakeRecordOfActive(r) ==
  /\ request[r].at = "record"
  /\ \E id \in RecordIds \ spent :
       Copied(r, id, {i \in request[r].doc.itemIds : ~items[i].retired})
  /\ Answer(r)
  /\ UNCHANGED <<items, outfits, losses, held, counted>>

\* The copy is made of the outfit as loaded.  Only a wear has more to do.
TakeRecord(r) ==
  /\ request[r].at = "record"
  /\ \E id \in RecordIds \ spent :
       /\ Copied(r, id, request[r].doc.itemIds)
       /\ IF request[r].handler = "wear"
            THEN request' = [request EXCEPT
                   ![r] = [request[r] EXCEPT !.at = "fanOut", !.record = id,
                                             !.left = request[r].doc.itemIds]]
            ELSE Answer(r)
  /\ UNCHANGED <<items, outfits, losses, held, counted>>

\* Mutant: $set instead of $max.
CountWearSetDay(r) ==
  /\ request[r].at = "fanOut"
  /\ \E i \in request[r].left :
       /\ items' = [items EXCEPT
            ![i] = [items[i] EXCEPT !.wearCount = items[i].wearCount + 1,
                                    !.lastWornAt = request[r].day]]
       /\ counted' = counted \cup {<<request[r].record, i>>}
       /\ IF request[r].left = {i} THEN Answer(r)
            ELSE request' = [request EXCEPT ![r].left = @ \ {i}]
  /\ UNCHANGED <<outfits, taken, spent, losses, held>>

\* Mutant: the fan-out gives up at the first garment it does not match.
CountWearGivesUp(r) ==
  /\ request[r].at = "fanOut"
  /\ \E i \in request[r].left :
       IF items[i].live
         THEN /\ items' = [items EXCEPT ![i].wearCount = @ + 1]
              /\ counted' = counted \cup {<<request[r].record, i>>}
              /\ IF request[r].left = {i} THEN Answer(r)
                   ELSE request' = [request EXCEPT ![r].left = @ \ {i}]
         ELSE Answer(r) /\ UNCHANGED <<items, counted>>
  /\ UNCHANGED <<outfits, taken, spent, losses, held>>

\* One document of the updateMany: $inc wearCount, $max lastWornAt, for an
\* item of the caller's that still exists.
CountWear(r) ==
  /\ request[r].at = "fanOut"
  /\ \E i \in request[r].left :
       /\ IF items[i].live /\ Owner[i] = request[r].user
            THEN /\ items' = [items EXCEPT
                      ![i] = [items[i] EXCEPT
                        !.wearCount = items[i].wearCount + 1,
                        !.lastWornAt = IF request[r].day > items[i].lastWornAt
                                         THEN request[r].day ELSE items[i].lastWornAt]]
                 /\ counted' = counted \cup {<<request[r].record, i>>}
            ELSE UNCHANGED <<items, counted>>
       /\ IF request[r].left = {i}
            THEN Answer(r)
            ELSE request' = [request EXCEPT ![r].left = @ \ {i}]
  /\ UNCHANGED <<outfits, taken, spent, losses, held>>

Retract(r) ==
  /\ request[r].at = "remove" /\ request[r].handler \in {"unplan", "unpost"}
  /\ LET kind == IF request[r].handler = "unplan" THEN "plan" ELSE "post" IN
     taken' = {t \in taken : ~(/\ t.id = request[r].record /\ t.kind = kind
                               /\ t.userId = request[r].user)}
  /\ Answer(r)
  /\ UNCHANGED <<items, outfits, spent, losses, held, counted>>

----------------------------------------------------------------------------
\* The writes of routes/items.ts these handlers can meet.
RetireItem(i) ==
  /\ "retireItem" \in Handlers /\ items[i].live
  /\ \E b \in BOOLEAN : items' = [items EXCEPT ![i].retired = b]
  /\ UNCHANGED <<outfits, taken, spent, request, losses, held, counted>>

DeleteItem(i) ==
  /\ "deleteItem" \in Handlers /\ items[i].live
  /\ items' = [items EXCEPT ![i] = [Fresh EXCEPT !.live = FALSE]]
  /\ UNCHANGED <<outfits, taken, spent, request, losses, held, counted>>

\* A request dies with its work unfinished: a call rejects, or the process.
Fail(r) ==
  /\ request[r] # Idle
  /\ losses < MaxLosses /\ losses' = losses + 1
  /\ Answer(r)
  /\ UNCHANGED <<items, outfits, taken, spent, held, counted>>

Arrival(r) ==
  \/ ArriveCreate(r) \/ ArrivePatch(r) \/ ArriveDelete(r)
  \/ ArriveTake(r) \/ ArriveRetract(r)

Step(r) ==
  \/ Resolve(r) \/ InsertOutfit(r) \/ LoadForPatch(r) \/ SaveOutfit(r) \/ DeleteOutfit(r)
  \/ LoadToTake(r) \/ TakeRecord(r) \/ CountWear(r) \/ Retract(r)

Next ==
  \/ \E r \in Requests : Arrival(r) \/ Step(r) \/ Fail(r)
  \/ \E i \in Items : RetireItem(i) \/ DeleteItem(i)

Spec == Init /\ [][Next]_vars

\* Handlers run on once their call is answered; nobody owes an arrival.
FairSpec == Spec /\ \A r \in Requests : WF_vars(Step(r))

----------------------------------------------------------------------------
(***************************************************************************)
(* Safety                                                                  *)
(***************************************************************************)
Wears(i) == {t \in taken : t.kind = "wear" /\ i \in t.itemIds}

\* The fan-outs that have yet to reach item i.
Owed(i) == {r \in Requests : request[r].at = "fanOut" /\ i \in request[r].left}

\* wearCount denormalises the log: an item's counter is its logged wears
\* less those whose fan-out is still on its way, and at most the requests
\* lost are missing for good; it never counts a wear no row explains.
WearCountTracksLog ==
  \A i \in Items : items[i].live =>
    LET uncounted == Cardinality(Wears(i)) - Cardinality(Owed(i)) - items[i].wearCount
    IN  0 <= uncounted /\ uncounted <= losses

\* lastWornAt is the latest day among the wears counted, in whatever order
\* back-dated wears were logged and counted.
LastWornIsLatest ==
  \A i \in Items : items[i].live =>
    items[i].lastWornAt =
      Max({NoDay} \cup {t.day : t \in {w \in Wears(i) : <<w.id, i>> \in counted}})

\* What is copied is a composition the outfit really had, whole, and it stays
\* as it was copied through every later edit or delete of outfit and items.
CopiesAreCompositions == \A t \in taken : <<t.outfitId, t.itemIds>> \in held

CopiesNeverChange ==
  [][\A t \in taken, t2 \in taken' : t.id = t2.id => t = t2]_vars

\* Nobody's outfit, event, plan or post ever names a garment of another
\* user, so no handler signs or counts one on its way through them.
OwnGarmentsOnly ==
  /\ \A o \in OutfitIds : \A i \in outfits[o].itemIds : Owner[i] = outfits[o].userId
  /\ \A t \in taken : \A i \in t.itemIds : Owner[i] = t.userId

\* A rename and a recomposition of one outfit from two devices both survive:
\* each field moves only by a patch that carries it.
PatchesKeepApart ==
  [][\A o \in OutfitIds : outfits[o].live /\ outfits[o]'.live =>
       /\ outfits[o]'.itemIds # outfits[o].itemIds =>
            \E r \in Requests : /\ request[r].at = "save" /\ request[r].outfit = o
                                /\ request[r].asked = outfits[o]'.itemIds
       /\ outfits[o]'.name # outfits[o].name =>
            \E r \in Requests : /\ request[r].at = "save" /\ request[r].outfit = o
                                /\ request[r].name = outfits[o]'.name
       /\ outfits[o]'.userId = outfits[o].userId]_vars

(***************************************************************************)
(* Liveness                                                                *)
(***************************************************************************)

\* A logged wear is eventually counted on every garment of it that still
\* exists, unless its request dies part-way.
WearsGetCounted ==
  \A id \in RecordIds, i \in Items :
    (\E t \in Wears(i) : t.id = id)
      ~> (<<id, i>> \in counted \/ ~items[i].live \/ losses > 0)

(***************************************************************************)
(* As the runs check them                                                  *)
(***************************************************************************)

\* An item's two counters say what the log says.
CountersTrackLog == WearCountTracksLog /\ LastWornIsLatest

\* A snapshot is of something that was, and remains of it.
CopiesAreTrue == [](TypeOK /\ CopiesAreCompositions) /\ CopiesNeverChange
=============================================================================
