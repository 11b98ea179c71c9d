---------------------------- MODULE ItemsProofs ----------------------------
(***************************************************************************)
(* What holds of Items for any accounts, uploads, categories and requests: *)
(* its types, the agreement of the rows with the bytes, the agreement of   *)
(* the laundry log with the rows, and that no edit undoes another.         *)
(***************************************************************************)
EXTENDS Items, FiniteSetTheorems, TLAPS

(***************************************************************************)
(* The activations a slot can hold, handler by handler.                    *)
(***************************************************************************)
Storing == {"putImage", "putThumbnail", "insertItem"}
Uploads == Storing \cup {"cleanUp"}
Washes == {"load", "logTransition", "save", "undoTransition"}
Deletes == {"load", "deleteRow", "deleteObjects"}

\* The document an upload carries: all of a row but what says it is there.
NewRow == {d \in Row : /\ ~d.present /\ d.userId # None /\ d.category # None
                       /\ d.laundryStatus = "available"}

Uploading == [handler : {"upload"}, at : Uploads, user : Users, item : Items,
              value : {None}, doc : NewRow, keys : SUBSET Parts, n : {0}]
Washing == {a \in [handler : {"laundry"}, at : Washes, user : Users, item : Items,
                   value : Statuses, doc : Row, keys : {{}}, n : 0..MaxPresses] :
              a.n = 0 <=> a.at = "load"}
Retiring == [handler : {"retire"}, at : {"load", "save"}, user : Users, item : Items,
             value : BOOLEAN, doc : Row, keys : {{}}, n : {0}]
Sorting == [handler : {"category"}, at : {"load", "save"}, user : Users, item : Items,
            value : Categories, doc : Row, keys : {{}}, n : {0}]
Deleting == [handler : {"delete"}, at : Deletes, user : Users, item : Items,
             value : {None}, doc : Row, keys : SUBSET Parts, n : {0}]

Busy == Uploading \cup Washing \cup Retiring \cup Sorting \cup Deleting
Activation == {Idle} \cup Busy

Slots ==
  /\ request \in [Requests -> Activation]
  /\ \A r \in Requests : request[r] # Idle => request[r].handler \in Handlers
  /\ presses + Cardinality(Unstamped) <= MaxPresses

Typed == TypeOK /\ Slots

\* Which calls a handler makes.
LEMMA CallsOfHandlers ==
  ASSUME Typed, NEW r \in Requests
  PROVE  /\ request[r].at \in Uploads => request[r] \in Uploading
         /\ request[r].at \in {"logTransition", "undoTransition"} => request[r] \in Washing
         /\ request[r].at = "save" => request[r] \in Washing \cup Retiring \cup Sorting
         /\ request[r].at \in {"deleteRow", "deleteObjects"} => request[r] \in Deleting
         /\ request[r].at = "load" => request[r] \in Washing \cup Retiring \cup Sorting \cup Deleting
         /\ request[r].at \in Calls => request[r] \in Busy
BY DEF Typed, Slots, Activation, Busy, Idle, Uploading, Washing, Retiring, Sorting, Deleting,
       Storing, Uploads, Washes, Deletes, Calls

\* A handler answers or goes on, and nobody else's request moves.
LEMMA RunsOn ==
  ASSUME Typed, NEW r \in Requests, ArriveUpload(r) \/ ArriveEdit(r) \/ Step(r)
  PROVE  \A q \in Requests \ {r} : request'[q] = request[q]
<1>. USE DEF Typed, Slots, Answer, Continue
<1>1. CASE ArriveUpload(r) \/ ArriveEdit(r)
  BY <1>1 DEF ArriveUpload, ArriveEdit
<1>2. CASE PutImage(r) \/ PutThumbnail(r) \/ InsertItem(r)
  BY <1>2 DEF PutImage, PutThumbnail, InsertItem
<1>3. CASE CleanUp(r) \/ DeleteObjects(r) \/ DeleteRow(r)
  BY <1>3 DEF CleanUp, DeleteObjects, DeleteStored, DeleteRow
<1>4. CASE Load(r)
  BY <1>4 DEF Load, Loaded
<1>5. CASE LogTransition(r) \/ UndoTransition(r)
  BY <1>5 DEF LogTransition, UndoTransition
<1>6. CASE SaveLaundry(r) \/ SaveRetired(r) \/ SaveCategory(r)
  BY <1>6 DEF SaveLaundry, SaveRetired, SaveCategory, SaveField
<1>. QED  BY <1>1, <1>2, <1>3, <1>4, <1>5, <1>6 DEF Step

\* What arrives is legal, and at its handler's first call.
LEMMA ArrivalTypes ==
  ASSUME Typed, NEW r \in Requests
  PROVE  /\ ArriveUpload(r) =>
              /\ request'[r] \in Uploading /\ request'[r].at = "putImage"
              /\ request'[r].keys = {} /\ request'[r].item \in Items \ used
              /\ request'[r].handler \in Handlers
         /\ ArriveEdit(r) =>
              /\ request'[r] \in Washing \cup Retiring \cup Sorting \cup Deleting
              /\ request'[r].at = "load" /\ request'[r].keys = {} /\ request'[r].n = 0
              /\ request'[r].item \in used /\ request'[r].handler \in Handlers
<1>0. request \in [Requests -> Activation] /\ used \subseteq Items
  BY DEF Typed, Slots, TypeOK
<1>1. ASSUME ArriveUpload(r)
      PROVE  /\ request'[r] \in Uploading /\ request'[r].at = "putImage"
             /\ request'[r].keys = {} /\ request'[r].item \in Items \ used
             /\ request'[r].handler \in Handlers
  <2>1. PICK u \in Users, i \in Items \ used, thumb \in BOOLEAN, c \in Categories :
          request' = [request EXCEPT ![r] = Posted(u, i, thumb, c)]
    BY <1>1, Zenon DEF ArriveUpload
  <2>2. [Absent EXCEPT !.userId = u, !.thumb = thumb, !.category = c] \in NewRow
    BY NoneAssumption DEF Absent, NewRow, Row, Statuses
  <2>3. "upload" \in Handlers
    BY <1>1, SMTT(30) DEF ArriveUpload
  <2>. QED  BY <1>0, <2>1, <2>2, <2>3 DEF Posted, Idle, Uploading, Uploads, Storing
<1>2. ASSUME ArriveEdit(r)
      PROVE  /\ request'[r] \in Washing \cup Retiring \cup Sorting \cup Deleting
             /\ request'[r].at = "load" /\ request'[r].keys = {} /\ request'[r].n = 0
             /\ request'[r].item \in used /\ request'[r].handler \in Handlers
  <2>1. PICK h \in Handlers \ {"upload"}, u \in Users, i \in used : \E v \in Carries(h) :
          request' = [request EXCEPT ![r] =
            [Idle EXCEPT !.handler = h, !.at = "load", !.user = u, !.item = i, !.value = v]]
    BY <1>2 DEF ArriveEdit
  <2>2. PICK v \in Carries(h) :
          request'[r] =
            [Idle EXCEPT !.handler = h, !.at = "load", !.user = u, !.item = i, !.value = v]
    BY <1>0, <2>1
  <2>3. h \in {"laundry", "retire", "category", "delete"}
    BY <2>1, HandlersAssumption
  <2>4. Absent \in Row
    BY DEF Absent, Row, Statuses
  <2>5. CASE h = "laundry"
    <3>1. v \in Statuses
      BY <2>2, <2>5 DEF Carries
    <3>2. 0 \in 0..MaxPresses
      BY BoundsAssumption
    <3>. QED  BY ZenonT(40), <1>0, <2>1, <2>2, <2>4, <2>5, <3>1, <3>2 DEF Idle, Washing, Washes
  <2>6. CASE h = "retire"
    BY <1>0, <2>1, <2>2, <2>4, <2>6 DEF Carries, Idle, Retiring
  <2>7. CASE h = "category"
    BY <1>0, <2>1, <2>2, <2>4, <2>7 DEF Carries, Idle, Sorting
  <2>8. CASE h = "delete"
    BY <1>0, <2>1, <2>2, <2>4, <2>8 DEF Carries, Idle, Deleting, Deletes
  <2>. QED  BY <2>3, <2>5, <2>6, <2>7, <2>8
<1>. QED  BY <1>1, <1>2

\* The changes not yet stamped can be counted.
LEMMA UnstampedCount ==
  IsFiniteSet(Unstamped) /\ Cardinality(Unstamped) \in Nat
BY RequestsAssumption, FS_Subset, FS_CardinalityType DEF Unstamped

\* There is a stamp left for every laundry change that has none.
LEMMA StampLeft ==
  ASSUME Typed, NEW r \in Requests, r \in Unstamped
  PROVE  presses + 1 \in 1..MaxPresses
<1>1. Cardinality(Unstamped) >= 1
  <2>1. Cardinality(Unstamped) # 0
    BY UnstampedCount, FS_EmptySet
  <2>. QED  BY <2>1, UnstampedCount
<1>. QED  BY <1>1, UnstampedCount, BoundsAssumption DEF Typed, TypeOK, Slots

\* An activation with other keys, at another call.
Holding(a, ks, c) == [a EXCEPT !.keys = ks, !.at = c]

\* What a change of keys and call leaves of an activation.
LEMMA KeysHeld ==
  ASSUME NEW a \in Uploading \cup Deleting, NEW ks \in SUBSET Parts, NEW c, NEW b, b = Holding(a, ks, c)
  PROVE  /\ a \in Uploading /\ c \in Uploads => b \in Uploading
         /\ a \in Deleting /\ c \in Deletes => b \in Deleting
         /\ b.keys = ks /\ b.at = c /\ b.handler = a.handler /\ b.user = a.user /\ b.item = a.item
         /\ b.value = a.value /\ b.doc = a.doc /\ b.n = a.n
<1>1. DOMAIN a = {"handler", "at", "user", "item", "value", "doc", "keys", "n"}
  BY DEF Uploading, Deleting
<1>2. /\ b.keys = ks /\ b.at = c /\ b.handler = a.handler /\ b.user = a.user /\ b.item = a.item
      /\ b.value = a.value /\ b.doc = a.doc /\ b.n = a.n
  BY <1>1 DEF Holding
<1>3. a \in Uploading /\ c \in Uploads => b \in Uploading
  BY DEF Uploading, Holding
<1>4. a \in Deleting /\ c \in Deletes => b \in Deleting
  BY DEF Deleting, Holding
<1>. QED  BY <1>2, <1>3, <1>4

\* The three calls that change both, or answer, or turn to the clean-up.
LEMMA KeysMove ==
  ASSUME Typed, NEW r \in Requests
  PROVE  /\ PutImage(r) =>
              \/ Answer(r) /\ objects' \in Leaves(objects \cup Keys(r, {"image"}), objects)
              \/ /\ objects' = objects \cup Keys(r, {"image"})
                 /\ request' = [request EXCEPT ![r] = Holding(request[r], {"image"},
                                     IF request[r].doc.thumb THEN "putThumbnail" ELSE "insertItem")]
         /\ PutThumbnail(r) =>
              \/ /\ Continue(r, "cleanUp")
                 /\ objects' \in Leaves(objects \cup Keys(r, {"thumbnail"}), objects)
              \/ /\ objects' = objects \cup Keys(r, {"thumbnail"})
                 /\ request' = [request EXCEPT ![r] =
                                  Holding(request[r], request[r].keys \cup {"thumbnail"}, "insertItem")]
         /\ DeleteRow(r) =>
              \/ Answer(r)
              \/ /\ rows' = [rows EXCEPT ![request[r].item] = Absent]
                 /\ request' = [request EXCEPT ![r] = Holding(request[r],
                      {"image"} \cup {k \in {"thumbnail"} : request[r].doc.thumb}, "deleteObjects")]
<1>1. PutImage(r) =>
        \/ Answer(r) /\ objects' \in Leaves(objects \cup Keys(r, {"image"}), objects)
        \/ /\ objects' = objects \cup Keys(r, {"image"})
           /\ request' = [request EXCEPT ![r] = Holding(request[r], {"image"},
                            IF request[r].doc.thumb THEN "putThumbnail" ELSE "insertItem")]
  BY DEF PutImage, Holding
<1>2. PutThumbnail(r) =>
        \/ Continue(r, "cleanUp") /\ objects' \in Leaves(objects \cup Keys(r, {"thumbnail"}), objects)
        \/ /\ objects' = objects \cup Keys(r, {"thumbnail"})
           /\ request' = [request EXCEPT ![r] =
                            Holding(request[r], request[r].keys \cup {"thumbnail"}, "insertItem")]
  BY DEF PutThumbnail, Holding
<1>3. DeleteRow(r) =>
        \/ Answer(r)
        \/ /\ rows' = [rows EXCEPT ![request[r].item] = Absent]
           /\ request' = [request EXCEPT ![r] = Holding(request[r],
                {"image"} \cup {k \in {"thumbnail"} : request[r].doc.thumb}, "deleteObjects")]
  BY DEF DeleteRow, Holding
<1>. QED  BY <1>1, <1>2, <1>3, Zenon

\* A handler under way answers, or goes on to a call of its own.
LEMMA StepTypes ==
  ASSUME Typed, NEW r \in Requests, Step(r)
  PROVE  /\ request' = [request EXCEPT ![r] = request'[r]]
         /\ request'[r].at # "load"
         /\ request'[r] # Idle => /\ request'[r] \in Busy
                                  /\ request'[r].handler = request[r].handler
<1>0. request \in [Requests -> Activation] /\ Idle.at # "load"
  BY DEF Typed, Slots, Idle
<1>. USE CallsOfHandlers
<1>1. CASE PutImage(r)
  <2>1. request[r] \in Uploading
    BY <1>1 DEF PutImage, Uploads, Storing
  <2>2. CASE Answer(r)
    BY <1>0, <2>2 DEF Answer
  <2>3. CASE ~Answer(r)
    <3>1. request' = [request EXCEPT ![r] = Holding(request[r], {"image"},
                        IF request[r].doc.thumb THEN "putThumbnail" ELSE "insertItem")]
      BY <1>1, <2>3, KeysMove
    <3>2. /\ {"image"} \in SUBSET Parts
          /\ (IF request[r].doc.thumb THEN "putThumbnail" ELSE "insertItem") \in Uploads
      BY DEF Parts, Uploads, Storing
    <3>3. request'[r] \in Uploading
      BY <1>0, <2>1, <3>1, <3>2, KeysHeld
    <3>. QED  BY <1>0, <2>1, <3>1, <3>3 DEF Busy, Uploading, Uploads, Storing
  <2>. QED  BY <2>2, <2>3
<1>2. CASE PutThumbnail(r)
  <2>1. request[r] \in Uploading
    BY <1>2 DEF PutThumbnail, Uploads, Storing
  <2>2. CASE Continue(r, "cleanUp")
    BY <1>0, <2>1, <2>2 DEF Continue, Busy, Uploading, Uploads, Storing
  <2>3. CASE ~Continue(r, "cleanUp")
    <3>1. request' = [request EXCEPT ![r] =
                        Holding(request[r], request[r].keys \cup {"thumbnail"}, "insertItem")]
      BY <1>2, <2>3, KeysMove
    <3>2. request[r].keys \cup {"thumbnail"} \in SUBSET Parts /\ "insertItem" \in Uploads
      BY <2>1 DEF Uploading, Parts, Uploads, Storing
    <3>3. request'[r] \in Uploading
      BY <1>0, <2>1, <3>1, <3>2, KeysHeld
    <3>. QED  BY <1>0, <2>1, <3>1, <3>3 DEF Busy, Uploading, Uploads, Storing
  <2>. QED  BY <2>2, <2>3
<1>3. CASE InsertItem(r)
  <2>1. request[r] \in Uploading
    BY <1>3 DEF InsertItem, Uploads, Storing
  <2>. QED  BY <1>0, <1>3, <2>1 DEF InsertItem, Answer, Continue, Busy, Uploading, Uploads, Storing
<1>4. CASE CleanUp(r) \/ DeleteObjects(r)
  <2>1. request[r] \in Uploading \cup Deleting /\ DeleteStored(r) /\ request[r].at # "load"
    BY <1>4 DEF CleanUp, DeleteObjects, Uploads, Storing
  <2>. QED  BY <1>0, <2>1 DEF DeleteStored, Answer, Busy, Uploading, Deleting
<1>5. CASE Load(r)
  <2>1. request[r] \in Washing \cup Retiring \cup Sorting \cup Deleting
    BY <1>5 DEF Load
  <2>2. rows[request[r].item] \in Row
    BY <2>1 DEF Typed, TypeOK, Washing, Retiring, Sorting, Deleting
  <2>3. CASE Answer(r)
    BY <1>0, <2>3 DEF Answer
  <2>4. CASE Loaded(r, "save") /\ request[r].handler \in {"retire", "category"}
    <3>1. request'[r] = [request[r] EXCEPT !.doc = rows[request[r].item], !.at = "save"]
      BY <1>0, <2>4 DEF Loaded
    <3>. QED  BY ZenonT(40), <1>0, <2>1, <2>2, <2>4, <3>1
         DEF Loaded, Busy, Washing, Retiring, Sorting, Deleting
  <2>5. CASE Loaded(r, "deleteRow") /\ request[r].handler = "delete"
    BY <1>0, <2>1, <2>2, <2>5 DEF Loaded, Busy, Washing, Retiring, Sorting, Deleting, Deletes
  <2>6. CASE /\ request[r].handler = "laundry"
             /\ request' = [request EXCEPT ![r] = [request[r] EXCEPT !.doc = rows[request[r].item],
                                                                     !.n = presses + 1, !.at = "logTransition"]]
    <3>1. presses + 1 \in 0..MaxPresses /\ presses + 1 # 0
      BY <1>5, <2>6, StampLeft DEF Load, Unstamped
    <3>2. request[r] \in Washing
      BY <2>1, <2>6 DEF Retiring, Sorting, Deleting
    <3>3. [request[r] EXCEPT !.doc = rows[request[r].item], !.n = presses + 1,
                             !.at = "logTransition"] \in Washing
      BY <2>2, <3>1, <3>2 DEF Washing, Washes
    <3>. QED  BY <1>0, <2>6, <3>2, <3>3 DEF Busy, Washing
  <2>. QED  BY <1>5, <2>3, <2>4, <2>5, <2>6 DEF Load
<1>6. CASE LogTransition(r) \/ UndoTransition(r)
  <2>1. request[r] \in Washing
    BY <1>6 DEF LogTransition, UndoTransition
  <2>. QED  BY <1>0, <1>6, <2>1 DEF LogTransition, UndoTransition, Answer, Continue, Busy, Washing, Washes
<1>7. CASE SaveLaundry(r)
  <2>1. request[r] \in Washing
    BY <1>7 DEF SaveLaundry, Retiring, Sorting
  <2>. QED  BY <1>0, <1>7, <2>1 DEF SaveLaundry, Answer, Continue, Busy, Washing, Washes
<1>8. CASE SaveRetired(r) \/ SaveCategory(r)
  BY <1>0, <1>8 DEF SaveRetired, SaveCategory, SaveField, Answer
<1>9. CASE DeleteRow(r)
  <2>1. request[r] \in Deleting
    BY <1>9 DEF DeleteRow
  <2>2. {"image"} \cup {k \in {"thumbnail"} : request[r].doc.thumb} \subseteq Parts
    BY DEF Parts
  <2>3. CASE Answer(r)
    BY <1>0, <2>3 DEF Answer
  <2>4. CASE ~Answer(r)
    <3>1. request' = [request EXCEPT ![r] = Holding(request[r],
                        {"image"} \cup {k \in {"thumbnail"} : request[r].doc.thumb}, "deleteObjects")]
      BY <1>9, <2>4, KeysMove
    <3>2. request'[r] \in Deleting /\ request'[r].at = "deleteObjects"
      BY <1>0, <2>1, <2>2, <3>1, KeysHeld DEF Deletes
    <3>. QED  BY <1>0, <2>1, <3>1, <3>2 DEF Busy, Deleting
  <2>. QED  BY <2>3, <2>4
<1>. QED  BY <1>1, <1>2, <1>3, <1>4, <1>5, <1>6, <1>7, <1>8, <1>9 DEF Step

\* Only a request under way takes a step of its handler.
LEMMA StepStarts ==
  ASSUME NEW r \in Requests, Step(r)
  PROVE  request[r] # Idle
BY DEF Idle, Step, PutImage, PutThumbnail, InsertItem, CleanUp, DeleteObjects, DeleteRow, Load,
   LogTransition, UndoTransition, SaveLaundry, SaveRetired, SaveCategory, SaveField

\* Every step leaves a legal activation in every slot.
LEMMA ActivationsKept ==
  ASSUME Typed, [Next]_vars
  PROVE  /\ request' \in [Requests -> Activation]
         /\ \A r \in Requests : request'[r] # Idle => request'[r].handler \in Handlers
<1>0. /\ request \in [Requests -> Activation]
      /\ \A r \in Requests : request[r] # Idle => request[r].handler \in Handlers
  BY DEF Typed, Slots
<1>1. CASE UNCHANGED vars
  BY <1>0, <1>1 DEF vars
<1>2. CASE Crash
  BY <1>2 DEF Crash, Activation
<1>3. ASSUME NEW r \in Requests, ArriveUpload(r) \/ ArriveEdit(r)
      PROVE  /\ request' \in [Requests -> Activation]
             /\ \A q \in Requests : request'[q] # Idle => request'[q].handler \in Handlers
  <2>1. request' = [request EXCEPT ![r] = request'[r]]
    BY <1>0, <1>3 DEF ArriveUpload, ArriveEdit
  <2>2. request'[r] \in Activation /\ request'[r].handler \in Handlers
    BY <1>3, ArrivalTypes DEF Activation, Busy
  <2>. QED  BY <1>0, <2>1, <2>2
<1>4. ASSUME NEW r \in Requests, Step(r)
      PROVE  /\ request' \in [Requests -> Activation]
             /\ \A q \in Requests : request'[q] # Idle => request'[q].handler \in Handlers
  <2>1. request[r] # Idle
    BY <1>4, StepStarts
  <2>. QED  BY <1>0, <1>4, <2>1, StepTypes DEF Activation
<1>. QED  BY <1>1, <1>2, <1>3, <1>4 DEF Next

\* Who writes what.
LEMMA Writers ==
  ASSUME NEW r \in Requests, Step(r)
  PROVE  /\ rows' = rows \/ InsertItem(r) \/ SaveLaundry(r) \/ SaveRetired(r) \/ SaveCategory(r)
              \/ DeleteRow(r)
         /\ objects' = objects \/ PutImage(r) \/ PutThumbnail(r) \/ CleanUp(r) \/ DeleteObjects(r)
         /\ log' = log \/ LogTransition(r) \/ UndoTransition(r)
         /\ presses' = presses \/ Load(r)
         /\ applied' = applied \/ SaveLaundry(r)
         /\ used' = used
         /\ rejects' = rejects \/ Reject
         /\ losses' = losses \/ Lose
<1>1. CASE PutImage(r) \/ PutThumbnail(r) \/ InsertItem(r)
  BY <1>1 DEF PutImage, PutThumbnail, InsertItem
<1>2. CASE CleanUp(r) \/ DeleteObjects(r) \/ DeleteRow(r)
  BY <1>2 DEF CleanUp, DeleteObjects, DeleteStored, DeleteRow
<1>3. CASE Load(r) \/ LogTransition(r) \/ UndoTransition(r)
  BY <1>3 DEF Load, LogTransition, UndoTransition
<1>4. CASE SaveLaundry(r) \/ SaveRetired(r) \/ SaveCategory(r)
  BY <1>4 DEF SaveLaundry, SaveRetired, SaveCategory, SaveField
<1>. QED  BY <1>1, <1>2, <1>3, <1>4 DEF Step

\* What an arrival leaves alone.
LEMMA ArrivalWrites ==
  ASSUME NEW r \in Requests, ArriveUpload(r) \/ ArriveEdit(r)
  PROVE  /\ UNCHANGED <<rows, objects, log, presses, rejects, losses, applied>>
         /\ used \subseteq used' /\ (ArriveEdit(r) => used' = used)
BY DEF ArriveUpload, ArriveEdit

\* A save writes the one field of its handler, of its own row, or nothing.
LEMMA SaveWrites ==
  ASSUME Typed, NEW r \in Requests
  PROVE  /\ SaveLaundry(r) =>
              /\ request[r] \in Washing /\ request[r].at = "save"
              /\ \/ rows' = rows
                 \/ rows[request[r].item].present
                    /\ rows' = [rows EXCEPT ![request[r].item] =
                                  [@ EXCEPT !.laundryStatus = request[r].value]]
         /\ SaveRetired(r) =>
              /\ request[r] \in Retiring /\ request[r].at = "save"
              /\ \/ rows' = rows
                 \/ rows[request[r].item].present
                    /\ rows' = [rows EXCEPT ![request[r].item] = [@ EXCEPT !.retired = request[r].value]]
         /\ SaveCategory(r) =>
              /\ request[r] \in Sorting /\ request[r].at = "save"
              /\ \/ rows' = rows
                 \/ rows[request[r].item].present
                    /\ rows' = [rows EXCEPT ![request[r].item] = [@ EXCEPT !.category = request[r].value]]
<1>1. ASSUME SaveLaundry(r)
      PROVE  /\ request[r] \in Washing /\ request[r].at = "save"
             /\ \/ rows' = rows
                \/ rows[request[r].item].present
                   /\ rows' = [rows EXCEPT ![request[r].item] =
                                 [@ EXCEPT !.laundryStatus = request[r].value]]
  BY <1>1, CallsOfHandlers DEF SaveLaundry, Leaves, Saved, Present, Retiring, Sorting
<1>2. ASSUME SaveRetired(r)
      PROVE  /\ request[r] \in Retiring /\ request[r].at = "save"
             /\ \/ rows' = rows
                \/ rows[request[r].item].present
                   /\ rows' = [rows EXCEPT ![request[r].item] = [@ EXCEPT !.retired = request[r].value]]
  <2>1. request[r] \in Retiring /\ request[r].at = "save"
    BY <1>2, CallsOfHandlers DEF SaveRetired, SaveField, Washing, Sorting
  <2>. QED  BY <1>2, <2>1 DEF SaveRetired, SaveField, Leaves, Saved, Present
<1>3. ASSUME SaveCategory(r)
      PROVE  /\ request[r] \in Sorting /\ request[r].at = "save"
             /\ \/ rows' = rows
                \/ rows[request[r].item].present
                   /\ rows' = [rows EXCEPT ![request[r].item] = [@ EXCEPT !.category = request[r].value]]
  BY <1>3, CallsOfHandlers DEF SaveCategory, SaveField, Leaves, Saved, Present, Washing, Retiring
<1>. QED  BY <1>1, <1>2, <1>3

\* An upload inserts a row that is there, of its caller and of some category.
LEMMA InsertWrites ==
  ASSUME Typed, NEW r \in Requests, InsertItem(r)
  PROVE  /\ request[r] \in Uploading /\ request[r].at = "insertItem"
         /\ \E row \in Row :
              /\ row.present /\ row.userId # None /\ row.category # None
              /\ row.laundryStatus = "available" /\ row.thumb = request[r].doc.thumb
              /\ \/ rows' = [rows EXCEPT ![request[r].item] = row] /\ Answer(r)
                 \/ rows' = [rows EXCEPT ![request[r].item] = row] /\ Ambiguous /\ Continue(r, "cleanUp")
                 \/ rows' = rows /\ Continue(r, "cleanUp") /\ Reject
<1>1. request[r] \in Uploading /\ request[r].at = "insertItem"
  BY CallsOfHandlers DEF InsertItem, Uploads, Storing
<1>2. PICK tag \in Categories \cup {None} :
        \/ rows' = Inserted(r, tag) /\ Answer(r) /\ UNCHANGED rejects
        \/ Reject /\ rows' \in Leaves(Inserted(r, tag), rows) /\ Continue(r, "cleanUp")
  BY DEF InsertItem
<1> DEFINE row == [request[r].doc EXCEPT !.present = TRUE,
                                          !.category = IF tag = None THEN @ ELSE tag,
                                          !.aiCategory = tag]
<1>3. /\ row \in Row /\ row.present /\ row.userId # None /\ row.category # None
      /\ row.laundryStatus = "available" /\ row.thumb = request[r].doc.thumb
  <2>1. request[r].doc \in NewRow
    BY <1>1 DEF Uploading
  <2>. QED  BY <2>1 DEF NewRow, Row
<1>4. Inserted(r, tag) = [rows EXCEPT ![request[r].item] = row]
  BY DEF Inserted
<1>. QED  BY <1>1, <1>2, <1>3, <1>4 DEF Leaves

\* Every row stays a row.
LEMMA RowsKept ==
  ASSUME Typed, [Next]_vars
  PROVE  /\ rows' \in [Items -> Row]
         /\ \A i \in Items : rows'[i].present => rows'[i].userId # None /\ rows'[i].category # None
<1>0. /\ rows \in [Items -> Row]
      /\ \A i \in Items : rows[i].present => rows[i].userId # None /\ rows[i].category # None
  BY DEF Typed, TypeOK
<1>1. CASE rows' = rows
  BY <1>0, <1>1
<1>2. ASSUME NEW r \in Requests, InsertItem(r)
      PROVE  /\ rows' \in [Items -> Row]
             /\ \A i \in Items : rows'[i].present => rows'[i].userId # None /\ rows'[i].category # None
  <2>1. PICK row \in Row :
           /\ row.present /\ row.userId # None /\ row.category # None
           /\ rows' = rows \/ rows' = [rows EXCEPT ![request[r].item] = row]
    BY <1>2, InsertWrites
  <2>. QED  BY <1>0, <2>1
<1>3. ASSUME NEW r \in Requests, SaveLaundry(r) \/ SaveRetired(r) \/ SaveCategory(r)
      PROVE  /\ rows' \in [Items -> Row]
             /\ \A i \in Items : rows'[i].present => rows'[i].userId # None /\ rows'[i].category # None
  <2>0. ASSUME NEW i \in Items, NEW row \in Row, rows[i].present,
               row.userId = rows[i].userId, row.category # None, rows' = [rows EXCEPT ![i] = row]
        PROVE  /\ rows' \in [Items -> Row]
               /\ \A k \in Items : rows'[k].present => rows'[k].userId # None /\ rows'[k].category # None
    BY <1>0, <2>0
  <2>1. CASE SaveLaundry(r)
    <3>1. /\ request[r].item \in Items /\ request[r].value \in Statuses
          /\ \/ rows' = rows
             \/ rows[request[r].item].present
                /\ rows' = [rows EXCEPT ![request[r].item] =
                              [rows[request[r].item] EXCEPT !.laundryStatus = request[r].value]]
      BY <2>1, SaveWrites DEF Washing
    <3>. QED  BY <1>0, <1>1, <2>0, <3>1 DEF Row
  <2>2. CASE SaveRetired(r)
    <3>1. /\ request[r].item \in Items /\ request[r].value \in BOOLEAN
          /\ \/ rows' = rows
             \/ rows[request[r].item].present
                /\ rows' = [rows EXCEPT ![request[r].item] =
                              [rows[request[r].item] EXCEPT !.retired = request[r].value]]
      BY <2>2, SaveWrites DEF Retiring
    <3>. QED  BY <1>0, <1>1, <2>0, <3>1 DEF Row
  <2>3. CASE SaveCategory(r)
    <3>1. /\ request[r].item \in Items /\ request[r].value \in Categories
          /\ \/ rows' = rows
             \/ rows[request[r].item].present
                /\ rows' = [rows EXCEPT ![request[r].item] =
                              [rows[request[r].item] EXCEPT !.category = request[r].value]]
      BY <2>3, SaveWrites DEF Sorting
    <3>. QED  BY <1>0, <1>1, <2>0, <3>1, NoneAssumption DEF Row
  <2>. QED  BY <1>3, <2>1, <2>2, <2>3
<1>4. ASSUME NEW r \in Requests, DeleteRow(r)
      PROVE  /\ rows' \in [Items -> Row]
             /\ \A i \in Items : rows'[i].present => rows'[i].userId # None /\ rows'[i].category # None
  <2>1. Absent \in Row /\ ~Absent.present
    BY DEF Absent, Row, Statuses
  <2>. QED  BY <1>0, <1>4, <2>1 DEF DeleteRow, Leaves
<1>5. ASSUME ~(UNCHANGED rows)
      PROVE  \E r \in Requests : InsertItem(r) \/ SaveLaundry(r) \/ SaveRetired(r)
                                   \/ SaveCategory(r) \/ DeleteRow(r)
  BY <1>5, Writers, ArrivalWrites DEF Next, Crash, vars
<1>. QED  BY <1>1, <1>2, <1>3, <1>4, <1>5

\* The stamps left still cover the changes not yet stamped.
LEMMA StampsKept ==
  ASSUME Typed, [Next]_vars
  PROVE  presses' \in 0..MaxPresses /\ presses' + Cardinality(Unstamped') <= MaxPresses
<1>0. /\ request \in [Requests -> Activation] /\ presses \in 0..MaxPresses
      /\ presses + Cardinality(Unstamped) <= MaxPresses
  BY DEF Typed, Slots, TypeOK
<1>1. ASSUME Unstamped' \subseteq Unstamped, presses' = presses
      PROVE  presses' \in 0..MaxPresses /\ presses' + Cardinality(Unstamped') <= MaxPresses
  <2>1. Cardinality(Unstamped') <= Cardinality(Unstamped) /\ Cardinality(Unstamped') \in Nat
    BY <1>1, UnstampedCount, FS_Subset, FS_CardinalityType
  <2>. QED  BY <1>0, <1>1, <2>1, UnstampedCount, BoundsAssumption
<1>2. CASE UNCHANGED vars
  BY <1>1, <1>2 DEF vars, Unstamped
<1>3. CASE Crash
  BY <1>1, <1>3 DEF Crash, Unstamped, Idle
<1>4. ASSUME NEW r \in Requests, ArriveUpload(r)
      PROVE  presses' \in 0..MaxPresses /\ presses' + Cardinality(Unstamped') <= MaxPresses
  <2>1. r \notin Unstamped'
    BY <1>4, ArrivalTypes DEF Unstamped
  <2>2. Unstamped' \subseteq Unstamped
    BY <1>4, <2>1, RunsOn DEF Unstamped
  <2>. QED  BY <1>1, <1>4, <2>2 DEF ArriveUpload
<1>5. ASSUME NEW r \in Requests, ArriveEdit(r)
      PROVE  presses' \in 0..MaxPresses /\ presses' + Cardinality(Unstamped') <= MaxPresses
  <2>1. PICK h \in Handlers \ {"upload"}, u \in Users, i \in used : \E v \in Carries(h) :
          request' = [request EXCEPT ![r] =
            [Idle EXCEPT !.handler = h, !.at = "load", !.user = u, !.item = i, !.value = v]]
    BY <1>5 DEF ArriveEdit
  <2>2. presses' = presses /\ request'[r].handler = h
    BY ZenonT(40), <1>0, <1>5, <2>1 DEF ArriveEdit, Idle
  <2>3. CASE h = "laundry"
    <3>1. presses + Cardinality(Unstamped) < MaxPresses
      BY <2>1, <2>3, Zenon DEF Carries
    <3>2. Unstamped' \subseteq Unstamped \cup {r}
      BY <1>5, RunsOn DEF Unstamped
    <3>3. /\ IsFiniteSet(Unstamped \cup {r})
          /\ \/ Cardinality(Unstamped \cup {r}) = Cardinality(Unstamped)
             \/ Cardinality(Unstamped \cup {r}) = Cardinality(Unstamped) + 1
      BY UnstampedCount, FS_AddElement, Zenon
    <3>4. Cardinality(Unstamped') <= Cardinality(Unstamped \cup {r}) /\ Cardinality(Unstamped') \in Nat
          /\ Cardinality(Unstamped \cup {r}) \in Nat
      BY <3>2, <3>3, FS_Subset, FS_CardinalityType
    <3>. QED  BY <1>0, <2>2, <3>1, <3>3, <3>4, UnstampedCount, BoundsAssumption
  <2>4. CASE h # "laundry"
    BY <1>1, <1>5, <2>2, <2>4, RunsOn DEF Unstamped
  <2>. QED  BY <2>3, <2>4
<1>6. ASSUME NEW r \in Requests, Step(r)
      PROVE  presses' \in 0..MaxPresses /\ presses' + Cardinality(Unstamped') <= MaxPresses
  <2>1. request'[r].at # "load"
    BY <1>6, StepTypes
  <2>2. Unstamped' \subseteq Unstamped \ {r}
    BY <1>6, <2>1, RunsOn DEF Unstamped
  <2>3. CASE presses' = presses
    BY <1>1, <2>2, <2>3
  <2>4. CASE presses' # presses
    <3>1. presses' = presses + 1 /\ r \in Unstamped
      BY <1>6, <2>4, Writers DEF Load, Unstamped
    <3>2. Cardinality(Unstamped \ {r}) = Cardinality(Unstamped) - 1 /\ IsFiniteSet(Unstamped \ {r})
      BY <3>1, UnstampedCount, FS_RemoveElement
    <3>3. Cardinality(Unstamped') <= Cardinality(Unstamped \ {r}) /\ Cardinality(Unstamped') \in Nat
      BY <2>2, <3>2, FS_Subset, FS_CardinalityType
    <3>. QED  BY <1>0, <3>1, <3>2, <3>3, UnstampedCount, BoundsAssumption
  <2>. QED  BY <2>3, <2>4
<1>. QED  BY <1>2, <1>3, <1>4, <1>5, <1>6 DEF Next

\* The collections keep their types.
LEMMA StoresKept ==
  ASSUME Typed, [Next]_vars
  PROVE  /\ used' \subseteq Items /\ objects' \subseteq Items \X Parts
         /\ log' \subseteq Transition /\ applied' \subseteq 1..MaxPresses
         /\ rejects' \in 0..MaxRejects /\ losses' \in 0..MaxLosses
<1>0. /\ used \subseteq Items /\ objects \subseteq Items \X Parts
      /\ log \subseteq Transition /\ applied \subseteq 1..MaxPresses
      /\ rejects \in 0..MaxRejects /\ losses \in 0..MaxLosses
  BY DEF Typed, TypeOK
<1>1. CASE UNCHANGED vars
  BY <1>0, <1>1 DEF vars
<1>2. CASE Crash
  BY <1>0, <1>2, BoundsAssumption DEF Crash, Lose
<1>3. ASSUME NEW r \in Requests, ArriveUpload(r) \/ ArriveEdit(r)
      PROVE  /\ used' \subseteq Items /\ objects' \subseteq Items \X Parts
             /\ log' \subseteq Transition /\ applied' \subseteq 1..MaxPresses
             /\ rejects' \in 0..MaxRejects /\ losses' \in 0..MaxLosses
  BY <1>0, <1>3 DEF ArriveUpload, ArriveEdit
<1>4. ASSUME NEW r \in Requests, Step(r)
      PROVE  /\ used' \subseteq Items /\ objects' \subseteq Items \X Parts
             /\ log' \subseteq Transition /\ applied' \subseteq 1..MaxPresses
             /\ rejects' \in 0..MaxRejects /\ losses' \in 0..MaxLosses
  <2>1. used' \subseteq Items /\ rejects' \in 0..MaxRejects /\ losses' \in 0..MaxLosses
    BY <1>0, <1>4, Writers, BoundsAssumption DEF Reject, Lose
  <2>2. objects' \subseteq Items \X Parts
    <3>1. CASE PutImage(r) \/ PutThumbnail(r)
      <4>1. request[r].item \in Items
        BY <3>1, CallsOfHandlers DEF PutImage, PutThumbnail, Uploads, Storing, Uploading
      <4>. QED  BY <1>0, <3>1, <4>1 DEF PutImage, PutThumbnail, Leaves, Keys, Parts
    <3>2. CASE CleanUp(r) \/ DeleteObjects(r)
      BY <1>0, <3>2 DEF CleanUp, DeleteObjects, DeleteStored
    <3>. QED  BY <1>0, <1>4, <3>1, <3>2, Writers
  <2>3. log' \subseteq Transition
    <3>1. CASE LogTransition(r)
      <4>1. request[r] \in Washing /\ request[r].at = "logTransition"
        BY <3>1, CallsOfHandlers DEF LogTransition
      <4>. QED  BY <1>0, <3>1, <4>1 DEF LogTransition, Leaves, Logged, Transition, Washing
    <3>2. CASE UndoTransition(r)
      BY <1>0, <3>2 DEF UndoTransition
    <3>. QED  BY <1>0, <1>4, <3>1, <3>2, Writers
  <2>4. applied' \subseteq 1..MaxPresses
    <3>1. CASE SaveLaundry(r)
      <4>1. request[r] \in Washing /\ request[r].at = "save"
        BY <3>1, SaveWrites
      <4>2. request[r].n \in 1..MaxPresses
        BY <4>1, BoundsAssumption DEF Washing
      <4>3. applied' = applied \/ applied' = applied \cup {request[r].n}
        BY <3>1, Zenon DEF SaveLaundry
      <4>. QED  BY <1>0, <4>2, <4>3
    <3>. QED  BY <1>0, <1>4, <3>1, Writers
  <2>. QED  BY <2>1, <2>2, <2>3, <2>4
<1>. QED  BY <1>1, <1>2, <1>3, <1>4 DEF Next

\* Every step keeps the types.
LEMMA TypedKept == Typed /\ [Next]_vars => Typed'
<1> SUFFICES ASSUME Typed, [Next]_vars PROVE Typed'
  OBVIOUS
<1>1. Slots'
  BY ActivationsKept, StampsKept DEF Slots
<1>2. ASSUME NEW r \in Requests, request'[r] # Idle
      PROVE  /\ request'[r].handler \in Handlers /\ request'[r].at \in Calls
             /\ request'[r].user \in Users /\ request'[r].item \in Items
             /\ request'[r].doc \in Row /\ request'[r].keys \subseteq Parts
             /\ request'[r].n \in 0..MaxPresses
  <2>1. request'[r] \in Busy
    BY <1>2, ActivationsKept DEF Activation
  <2>2. request'[r].handler \in Handlers
    BY <1>2, ActivationsKept
  <2>. QED
    BY <2>1, <2>2, BoundsAssumption
    DEF Busy, Uploading, Washing, Retiring, Sorting, Deleting, Storing, Uploads, Washes, Deletes,
        Calls, NewRow
<1>. QED  BY <1>1, <1>2, RowsKept, StampsKept, StoresKept DEF Typed, TypeOK

\* The stores start empty.
LEMMA TypedAtStart == Init => Typed
<1> SUFFICES ASSUME Init PROVE Typed
  OBVIOUS
<1>1. Absent \in Row /\ ~Absent.present
  BY DEF Absent, Row, Statuses
<1>2. Unstamped = {}
  BY DEF Init, Unstamped, Idle
<1>3. presses + Cardinality(Unstamped) <= MaxPresses
  BY <1>2, FS_EmptySet, BoundsAssumption DEF Init
<1>. QED  BY <1>1, <1>3, BoundsAssumption DEF Init, Typed, TypeOK, Slots, Activation

\* The types hold for ever, with the activations spelt out.
LEMMA AlwaysTyped == Spec => []Typed
BY TypedAtStart, TypedKept, PTL DEF Spec

\* The rows, the bucket, the log and every handler under way keep their types:
\* a row that is there has an owner and a category, and no handler goes on to
\* a call without the operands it needs.
THEOREM TypeCorrect == Spec => []TypeOK
<1>1. Typed => TypeOK
  BY DEF Typed
<1>. QED  BY <1>1, AlwaysTyped, PTL

(***************************************************************************)
(* Ids.  An upload has its id to itself until its row is inserted: whoever *)
(* else names the id has not loaded a row by it, and finds none.           *)
(***************************************************************************)
UsedFirst ==
  /\ \A r \in Requests : request[r] # Idle => request[r].item \in used
  /\ \A i \in Items \ used : ~rows[i].present /\ \A k \in Parts : <<i, k>> \notin objects

Alone(calls) ==
  \A r \in Requests : request[r].at \in calls =>
    /\ ~rows[request[r].item].present
    /\ \A q \in Requests \ {r} : request[q].item = request[r].item => request[q].at = "load"

IdInv == Typed /\ UsedFirst /\ Alone(Storing)

\* A handler under way stays on its item and its patch.
LEMMA StaysOnItem ==
  ASSUME Typed, NEW r \in Requests, Step(r), request'[r] # Idle
  PROVE  /\ request'[r].item = request[r].item /\ request'[r].value = request[r].value
         /\ request'[r].user = request[r].user
<1>0. request \in [Requests -> Activation]
  BY DEF Typed, Slots
<1>1. CASE Answer(r)
  BY <1>0, <1>1 DEF Answer
<1>2. CASE ~Answer(r)
  <2>0. request[r] # Idle
    BY <1>0, StepTypes, StepStarts
  <2>1. DOMAIN request[r] = {"handler", "at", "user", "item", "value", "doc", "keys", "n"}
    BY <1>0, <2>0 DEF Activation, Busy, Uploading, Washing, Retiring, Sorting, Deleting
  <2>2. CASE Continue(r, "cleanUp") \/ InsertItem(r)
    BY <1>0, <1>2, <2>1, <2>2 DEF InsertItem, Continue
  <2>8. ASSUME NEW ks \in SUBSET Parts, NEW c,
               request[r] \in Uploading \cup Deleting,
               request' = [request EXCEPT ![r] = Holding(request[r], ks, c)]
        PROVE  /\ request'[r].item = request[r].item /\ request'[r].value = request[r].value
               /\ request'[r].user = request[r].user
    <3>1. request'[r] = Holding(request[r], ks, c)
      BY <1>0, <2>8
    <3>. QED  BY <2>8, <3>1, KeysHeld
  <2>9. CASE (PutImage(r) \/ PutThumbnail(r)) /\ ~Continue(r, "cleanUp")
    <3>1. request[r] \in Uploading
      BY <2>9, CallsOfHandlers DEF PutImage, PutThumbnail, Uploads, Storing
    <3>2. {"image"} \in SUBSET Parts /\ request[r].keys \cup {"thumbnail"} \in SUBSET Parts
      BY <3>1 DEF Uploading, Parts
    <3>. QED  BY <1>2, <2>8, <2>9, <3>1, <3>2, KeysMove
  <2>3. CASE CleanUp(r) \/ DeleteObjects(r)
    <3>1. PICK k \in request[r].keys : request' = [request EXCEPT ![r].keys = @ \ {k}]
      BY <1>2, <2>3 DEF CleanUp, DeleteObjects, DeleteStored
    <3>. QED  BY <1>0, <2>1, <3>1
  <2>7. CASE DeleteRow(r)
    <3>1. request[r] \in Deleting
      BY <2>7, CallsOfHandlers DEF DeleteRow
    <3>2. {"image"} \cup {k \in {"thumbnail"} : request[r].doc.thumb} \in SUBSET Parts
      BY DEF Parts
    <3>. QED  BY <1>2, <2>7, <2>8, <3>1, <3>2, KeysMove
  <2>4. CASE Load(r)
    BY ZenonT(40), <1>0, <1>2, <2>1, <2>4 DEF Load, Loaded
  <2>5. CASE LogTransition(r) \/ UndoTransition(r)
    BY <1>0, <1>2, <2>1, <2>5 DEF LogTransition, UndoTransition, Continue
  <2>6. CASE SaveLaundry(r) \/ SaveRetired(r) \/ SaveCategory(r)
    BY <1>0, <1>2, <2>1, <2>6 DEF SaveLaundry, SaveRetired, SaveCategory, SaveField, Continue
  <2>. QED  BY <2>2, <2>3, <2>4, <2>5, <2>6, <2>7, <2>9 DEF Step
<1>. QED  BY <1>1, <1>2

\* A handler touches the row and the objects of its own item only.
LEMMA OwnItemOnly ==
  ASSUME Typed, NEW r \in Requests, Step(r), NEW i \in Items, i # request[r].item
  PROVE  /\ rows'[i] = rows[i]
         /\ \A k \in Parts : <<i, k>> \in objects' <=> <<i, k>> \in objects
<1>0. rows \in [Items -> Row]
  BY DEF Typed, TypeOK
<1>1. rows'[i] = rows[i]
  <2>1. CASE InsertItem(r)
    BY <1>0, <2>1, InsertWrites
  <2>2. CASE SaveLaundry(r) \/ SaveRetired(r) \/ SaveCategory(r)
    BY <1>0, <2>2, SaveWrites
  <2>3. CASE DeleteRow(r)
    BY <1>0, <2>3 DEF DeleteRow, Leaves
  <2>. QED  BY <2>1, <2>2, <2>3, Writers
<1>2. \A k \in Parts : <<i, k>> \in objects' <=> <<i, k>> \in objects
  <2>1. CASE PutImage(r) \/ PutThumbnail(r)
    BY <2>1 DEF PutImage, PutThumbnail, Leaves, Keys
  <2>2. CASE CleanUp(r) \/ DeleteObjects(r)
    BY <2>2 DEF CleanUp, DeleteObjects, DeleteStored, Keys
  <2>. QED  BY <2>1, <2>2, Writers
<1>. QED  BY <1>1, <1>2

\* Which call follows which.
LEMMA CallOrder ==
  ASSUME Typed, NEW r \in Requests, Step(r)
  PROVE  /\ request'[r].at # "putImage"
         /\ request'[r].at = "putThumbnail" => PutImage(r)
         /\ request'[r].at = "insertItem" => PutImage(r) \/ PutThumbnail(r)
         /\ request'[r].at = "cleanUp" => PutThumbnail(r) \/ InsertItem(r) \/ CleanUp(r)
         /\ request'[r].at = "logTransition" => Load(r)
         /\ request'[r].at = "save" => Load(r) \/ LogTransition(r)
         /\ request'[r].at = "undoTransition" => SaveLaundry(r)
         /\ request'[r].at = "deleteRow" => Load(r)
         /\ request'[r].at = "deleteObjects" => DeleteRow(r) \/ DeleteObjects(r)
<1>0. request \in [Requests -> Activation] /\ Idle.at = "idle"
  BY DEF Typed, Slots, Idle
<1>1. "at" \in DOMAIN request[r]
  BY <1>0, StepStarts DEF Activation, Busy, Uploading, Washing, Retiring, Sorting, Deleting
<1>2. CASE PutImage(r)
  BY ZenonT(40), <1>0, <1>1, <1>2 DEF PutImage, Answer
<1>3. CASE PutThumbnail(r)
  BY <1>0, <1>1, <1>3 DEF PutThumbnail, Continue
<1>4. CASE InsertItem(r)
  BY <1>0, <1>1, <1>4 DEF InsertItem, Answer, Continue
<1>5. CASE CleanUp(r) \/ DeleteObjects(r)
  <2>1. request'[r].at \in {"idle", request[r].at}
    BY <1>0, <1>1, <1>5 DEF CleanUp, DeleteObjects, DeleteStored, Answer
  <2>. QED  BY <1>5, <2>1 DEF CleanUp, DeleteObjects
<1>6. CASE Load(r)
  BY <1>0, <1>1, <1>6 DEF Load, Loaded, Answer
<1>7. CASE LogTransition(r) \/ UndoTransition(r)
  BY <1>0, <1>1, <1>7 DEF LogTransition, UndoTransition, Answer, Continue
<1>8. CASE SaveLaundry(r) \/ SaveRetired(r) \/ SaveCategory(r)
  BY <1>0, <1>1, <1>8 DEF SaveLaundry, SaveRetired, SaveCategory, SaveField, Answer, Continue
<1>9. CASE DeleteRow(r)
  BY <1>0, <1>1, <1>9 DEF DeleteRow, Answer
<1>. QED  BY <1>2, <1>3, <1>4, <1>5, <1>6, <1>7, <1>8, <1>9 DEF Step

\* Every id in flight was used before.
LEMMA UsedFirstKept ==
  ASSUME Typed, UsedFirst, [Next]_vars
  PROVE  UsedFirst'
<1>0. request \in [Requests -> Activation]
  BY DEF Typed, Slots
<1>1. CASE UNCHANGED vars
  BY <1>1 DEF vars, UsedFirst
<1>2. CASE Crash
  BY <1>2 DEF Crash, UsedFirst
<1>3. ASSUME NEW r \in Requests, ArriveUpload(r) \/ ArriveEdit(r) PROVE UsedFirst'
  <2>1. request'[r].item \in used'
    <3>1. CASE ArriveEdit(r)
      BY <3>1, ArrivalTypes DEF ArriveEdit
    <3>2. CASE ArriveUpload(r)
      <4>1. PICK u \in Users, i \in Items \ used, thumb \in BOOLEAN, c \in Categories :
              used' = used \cup {i} /\ request' = [request EXCEPT ![r] = Posted(u, i, thumb, c)]
        BY <3>2, Zenon DEF ArriveUpload
      <4>. QED  BY <1>0, <4>1 DEF Posted, Idle
    <3>. QED  BY <1>3, <3>1, <3>2
  <2>. QED  BY <1>3, <2>1, RunsOn, ArrivalWrites DEF UsedFirst
<1>4. ASSUME NEW r \in Requests, Step(r) PROVE UsedFirst'
  <2>1. request[r] # Idle /\ used' = used
    BY <1>4, StepStarts, Writers
  <2>2. \A q \in Requests : request'[q] # Idle => request'[q].item \in used'
    BY <1>4, <2>1, StaysOnItem, RunsOn DEF UsedFirst
  <2>3. ASSUME NEW i \in Items \ used'
        PROVE  ~rows'[i].present /\ \A k \in Parts : <<i, k>> \notin objects'
    <3>1. i # request[r].item
      BY <2>1, <2>3 DEF UsedFirst
    <3>. QED  BY <1>4, <2>1, <2>3, <3>1, OwnItemOnly DEF UsedFirst
  <2>. QED  BY <2>2, <2>3 DEF UsedFirst
<1>. QED  BY <1>1, <1>2, <1>3, <1>4 DEF Next

\* An upload stays alone with its id: until it inserts, and through its
\* clean-up unless a rejected insert may have been applied.
LEMMA AloneKept ==
  ASSUME Typed, UsedFirst, [Next]_vars, NEW calls, Alone(calls),
         calls = Storing \/ (calls = Uploads /\ ~Ambiguous)
  PROVE  Alone(calls)'
<1>0. request \in [Requests -> Activation] /\ rows \in [Items -> Row] /\ Idle.at = "idle"
  BY DEF Typed, TypeOK, Slots, Idle
<1>1. CASE UNCHANGED vars
  BY <1>1 DEF vars, Alone
<1>2. CASE Crash
  BY <1>2 DEF Crash, Alone, Idle, Storing, Uploads
<1>3. ASSUME NEW r \in Requests, ArriveUpload(r) PROVE Alone(calls)'
  <2>1. request'[r].item \in Items \ used
    BY <1>3, ArrivalTypes
  <2>2. ~rows'[request'[r].item].present
    BY <1>3, <2>1, ArrivalWrites DEF UsedFirst
  <2>3. \A q \in Requests \ {r} : request'[q] = request[q]
    BY <1>3, RunsOn
  <2>4. \A q \in Requests \ {r} : request'[q].item # request'[r].item
    BY <2>1, <2>3, NoneAssumption DEF UsedFirst, Idle
  <2>5. rows' = rows
    BY <1>3 DEF ArriveUpload
  <2>6. ASSUME NEW q \in Requests \ {r}, request'[q].at \in calls
        PROVE  /\ ~rows'[request'[q].item].present
               /\ \A p \in Requests \ {q} : request'[p].item = request'[q].item => request'[p].at = "load"
    BY <2>3, <2>4, <2>5, <2>6 DEF Alone
  <2>. QED  BY <2>2, <2>4, <2>6 DEF Alone
<1>4. ASSUME NEW r \in Requests, ArriveEdit(r) PROVE Alone(calls)'
  <2>1. request'[r].at = "load" /\ rows' = rows
    BY <1>4, ArrivalTypes DEF ArriveEdit
  <2>2. \A q \in Requests \ {r} : request'[q] = request[q]
    BY <1>4, RunsOn
  <2>. QED  BY <2>1, <2>2 DEF Alone, Storing, Uploads
<1>5. ASSUME NEW r \in Requests, Step(r) PROVE Alone(calls)'
  <2>1. \A q \in Requests \ {r} : request'[q] = request[q]
    BY <1>5, RunsOn
  <2>2. ASSUME request'[r].at \in calls
        PROVE  request[r].at \in calls /\ rows' = rows /\ request'[r].item = request[r].item
    <3>1. \/ PutImage(r) \/ PutThumbnail(r)
          \/ calls = Uploads /\ ~Ambiguous /\ (InsertItem(r) \/ CleanUp(r))
      BY <1>5, <2>2, CallOrder DEF Storing, Uploads
    <3>2. request'[r] # Idle
      BY <1>0, <2>2 DEF Storing, Uploads
    <3>3. CASE PutImage(r) \/ PutThumbnail(r) \/ CleanUp(r)
      BY <1>5, <3>1, <3>2, <3>3, StaysOnItem
      DEF PutImage, PutThumbnail, CleanUp, DeleteStored, Storing, Uploads
    <3>4. CASE InsertItem(r) /\ calls = Uploads /\ ~Ambiguous
      <4>1. ~Answer(r)
        BY <1>0, <3>2 DEF Answer
      <4>2. rows' = rows /\ request[r].at = "insertItem"
        BY <3>4, <4>1, InsertWrites
      <4>. QED  BY <1>5, <3>2, <3>4, <4>2, StaysOnItem DEF Storing, Uploads
    <3>. QED  BY <3>1, <3>3, <3>4
  <2>3. ASSUME request'[r].at \in calls
        PROVE  /\ ~rows'[request'[r].item].present
               /\ \A p \in Requests \ {r} : request'[p].item = request'[r].item => request'[p].at = "load"
    BY <2>1, <2>2, <2>3 DEF Alone
  <2>4. ASSUME NEW q \in Requests \ {r}, request[q].at \in calls
        PROVE  /\ ~rows'[request[q].item].present
               /\ request'[r].item # request[q].item
    <3>1. request[q].item \in Items
      BY <2>4, CallsOfHandlers DEF Storing, Uploads, Uploading
    <3>2. CASE request[r].item = request[q].item
      <4>1. request[r].at = "load" /\ ~rows[request[r].item].present
        BY <2>4, <3>2 DEF Alone
      <4>2. Load(r) /\ Answer(r)
        BY <1>5, <4>1 DEF Step, PutImage, PutThumbnail, InsertItem, CleanUp, DeleteObjects, DeleteRow,
           Load, LogTransition, UndoTransition, SaveLaundry, SaveRetired, SaveCategory, SaveField, Owned
      <4>. QED  BY <1>0, <3>1, <3>2, <4>1, <4>2, NoneAssumption DEF Load, Answer, Idle
    <3>3. CASE request[r].item # request[q].item
      <4>1. ~rows'[request[q].item].present
        BY <1>5, <2>4, <3>1, <3>3, OwnItemOnly DEF Alone
      <4>. QED  BY <1>5, <3>1, <3>3, <4>1, StaysOnItem, NoneAssumption DEF Idle
    <3>. QED  BY <3>2, <3>3
  <2>5. ASSUME NEW q \in Requests \ {r}, request'[q].at \in calls
        PROVE  /\ ~rows'[request'[q].item].present
               /\ \A p \in Requests \ {q} : request'[p].item = request'[q].item => request'[p].at = "load"
    BY <2>1, <2>4, <2>5 DEF Alone
  <2>. QED  BY <2>3, <2>5 DEF Alone
<1>. QED  BY <1>1, <1>2, <1>3, <1>4, <1>5 DEF Next

\* The ids stay apart.
LEMMA IdsKeptApart == Spec => []IdInv
<1>1. Init => IdInv
  BY TypedAtStart DEF Init, IdInv, UsedFirst, Alone, Storing, Idle, Absent
<1>2. IdInv /\ [Next]_vars => IdInv'
  <2> SUFFICES ASSUME IdInv, [Next]_vars PROVE IdInv'
    OBVIOUS
  <2>. QED  BY TypedKept, UsedFirstKept, AloneKept DEF IdInv
<1>. QED  BY <1>1, <1>2, PTL DEF Spec

(***************************************************************************)
(* Edits.                                                                  *)
(***************************************************************************)

\* One step moves a field of a row that stays only by the save for that field.
EditsAreAsked ==
  \A i \in Items : rows[i].present /\ rows[i]'.present =>
    /\ rows[i]'.laundryStatus # rows[i].laundryStatus =>
         Moves(i, "laundry", rows[i]'.laundryStatus)
    /\ rows[i]'.retired # rows[i].retired => Moves(i, "retire", rows[i]'.retired)
    /\ rows[i]'.category # rows[i].category => Moves(i, "category", rows[i]'.category)
    /\ rows[i]'.aiCategory = rows[i].aiCategory
    /\ rows[i]'.userId = rows[i].userId /\ rows[i]'.thumb = rows[i].thumb

\* Every step keeps the edits of one item apart.
LEMMA EditsKeptApart ==
  ASSUME IdInv, [Next]_vars
  PROVE  EditsAreAsked
<1>0. rows \in [Items -> Row]
  BY DEF IdInv, Typed, TypeOK
<1>1. CASE rows' = rows
  BY <1>1 DEF EditsAreAsked
<1>2. ASSUME NEW r \in Requests, InsertItem(r) PROVE EditsAreAsked
  <2>1. ~rows[request[r].item].present
    BY <1>2 DEF InsertItem, IdInv, Alone, Storing
  <2>2. Step(r)
    BY <1>2 DEF Step
  <2>. QED  BY <2>1, <2>2, OwnItemOnly DEF IdInv, EditsAreAsked
<1>3. ASSUME NEW r \in Requests, DeleteRow(r) PROVE EditsAreAsked
  <2>1. Step(r)
    BY <1>3 DEF Step
  <2>2. request[r].item \in Items
    BY <1>3, CallsOfHandlers DEF DeleteRow, IdInv, Deleting
  <2>3. rows'[request[r].item] \in {rows[request[r].item], Absent}
    BY <1>0, <1>3, <2>2 DEF DeleteRow, Leaves
  <2>. QED  BY <2>1, <2>3, OwnItemOnly DEF IdInv, EditsAreAsked, Absent
<1>4. ASSUME NEW r \in Requests, SaveLaundry(r) PROVE EditsAreAsked
  <2>1. /\ request[r] \in Washing /\ request[r].at = "save"
        /\ \/ rows' = rows
           \/ rows' = [rows EXCEPT ![request[r].item] = [rows[request[r].item] EXCEPT !.laundryStatus = request[r].value]]
    BY <1>4, SaveWrites DEF IdInv
  <2>2. request[r].handler = "laundry" /\ request[r].item \in Items
    BY <2>1 DEF Washing
  <2>3. ASSUME rows' = [rows EXCEPT ![request[r].item] = [rows[request[r].item] EXCEPT !.laundryStatus = request[r].value]]
        PROVE  EditsAreAsked
    BY <1>0, <2>1, <2>2, <2>3 DEF EditsAreAsked, Moves, Row
  <2>. QED  BY <1>1, <2>1, <2>3
<1>5. ASSUME NEW r \in Requests, SaveRetired(r) PROVE EditsAreAsked
  <2>1. /\ request[r] \in Retiring /\ request[r].at = "save"
        /\ \/ rows' = rows
           \/ rows' = [rows EXCEPT ![request[r].item] = [rows[request[r].item] EXCEPT !.retired = request[r].value]]
    BY <1>5, SaveWrites DEF IdInv
  <2>2. request[r].handler = "retire" /\ request[r].item \in Items
    BY <2>1 DEF Retiring
  <2>3. ASSUME rows' = [rows EXCEPT ![request[r].item] = [rows[request[r].item] EXCEPT !.retired = request[r].value]]
        PROVE  EditsAreAsked
    BY <1>0, <2>1, <2>2, <2>3 DEF EditsAreAsked, Moves, Row
  <2>. QED  BY <1>1, <2>1, <2>3
<1>6. ASSUME NEW r \in Requests, SaveCategory(r) PROVE EditsAreAsked
  <2>1. /\ request[r] \in Sorting /\ request[r].at = "save"
        /\ \/ rows' = rows
           \/ rows' = [rows EXCEPT ![request[r].item] = [rows[request[r].item] EXCEPT !.category = request[r].value]]
    BY <1>6, SaveWrites DEF IdInv
  <2>2. request[r].handler = "category" /\ request[r].item \in Items
    BY <2>1 DEF Sorting
  <2>3. ASSUME rows' = [rows EXCEPT ![request[r].item] = [rows[request[r].item] EXCEPT !.category = request[r].value]]
        PROVE  EditsAreAsked
    BY <1>0, <2>1, <2>2, <2>3 DEF EditsAreAsked, Moves, Row
  <2>. QED  BY <1>1, <2>1, <2>3
<1>. QED  BY <1>1, <1>2, <1>3, <1>4, <1>5, <1>6, Writers, ArrivalWrites DEF Next, Crash, vars

\* Two devices editing one item do not undo each other, even when a rejected
\* write may have been applied: a field of a row moves only by a save of the
\* handler for that field (routes/items.ts, PATCH laundry, retire, category).
THEOREM EditsStayApart == Spec => FieldsIndependent
<1>1. IdInv /\ [Next]_vars => [EditsAreAsked]_vars
  BY EditsKeptApart
<1>. QED  BY <1>1, IdsKeptApart, PTL DEF Spec, FieldsIndependent, EditsAreAsked

(***************************************************************************)
(* The rows and the bytes, when a rejected write was not applied.  A row   *)
(* has its objects because an upload has stored what its keys say, and     *)
(* nothing is leaked because a delete knows all the objects of the row it  *)
(* removes: its document's thumbnail is the row's, which never changes.    *)
(***************************************************************************)
Stored(i) == {k \in Parts : <<i, k>> \in objects}
PartsOf(thumb) == IF thumb THEN Parts ELSE {"image"}

\* An upload half-way has stored exactly its keys.
Halfway ==
  \A r \in Requests : request[r].at \in Storing =>
    /\ Stored(request[r].item) = request[r].keys
    /\ request[r].at = "putImage" => request[r].keys = {}
    /\ request[r].at = "putThumbnail" => request[r].keys = {"image"} /\ request[r].doc.thumb
    /\ request[r].at = "insertItem" => request[r].keys = PartsOf(request[r].doc.thumb)

\* A row has the objects it says, and no others.
RowsTellObjects ==
  \A i \in Items : rows[i].present => Stored(i) = PartsOf(rows[i].thumb)

\* A delete knows whether the row it is about to remove has a thumbnail.
DeletesKnow ==
  \A r \in Requests : request[r].at = "deleteRow" /\ rows[request[r].item].present =>
    (request[r].doc.thumb <=> rows[request[r].item].thumb)

\* Objects are deleted once their row is gone.
RowsGoFirst ==
  \A r \in Requests : request[r].at = "deleteObjects" => ~rows[request[r].item].present

StoreInv == /\ IdInv /\ Alone(Uploads) /\ Halfway
            /\ RowsTellObjects /\ DeletesKnow /\ RowsGoFirst /\ NoLeak

(***************************************************************************)
(* The log and the rows, when a rejected write was not applied.  A status  *)
(* is explained by a transition whose save succeeded, and such a           *)
(* transition is no longer anybody's to undo: stamps are not shared.       *)
(***************************************************************************)
StampsApart ==
  /\ \A t \in log : t.n <= presses
  /\ \A n \in applied : n <= presses
  /\ \A r \in Requests : /\ request[r].n <= presses /\ request[r].n \notin applied
                         /\ \A q \in Requests \ {r} : request[q].n = request[r].n => request[r].n = 0

\* A handler logs its transition before it saves it.
LogGoesFirst ==
  \A r \in Requests :
    /\ request[r].at = "logTransition" => \A t \in log : t.n # request[r].n
    /\ request[r].at = "save" /\ request[r].handler = "laundry" =>
         [n |-> request[r].n, item |-> request[r].item, status |-> request[r].value] \in log

\* The transition that explains a status has been applied.
ExplainedForGood ==
  \A i \in Items : rows[i].present /\ rows[i].laundryStatus = "in_laundry" =>
    \E t \in log : t.item = i /\ t.status = "in_laundry" /\ t.n \in applied

LogInv == IdInv /\ StampsApart /\ LogGoesFirst /\ ExplainedForGood /\ TransitionsTookEffect

----------------------------------------------------------------------------
\* A row appears only where an upload inserts it.
LEMMA RowsAppear ==
  ASSUME Typed, NEW r \in Requests, Step(r), NEW i \in Items, rows'[i].present
  PROVE  rows[i].present \/ (InsertItem(r) /\ request[r].item = i)
<1>0. rows \in [Items -> Row] /\ ~Absent.present
  BY DEF Typed, TypeOK, Absent
<1>1. CASE SaveLaundry(r) \/ SaveRetired(r) \/ SaveCategory(r)
  BY <1>0, <1>1, SaveWrites
<1>2. CASE DeleteRow(r)
  BY <1>0, <1>2 DEF DeleteRow, Leaves
<1>3. CASE InsertItem(r)
  BY <1>3, OwnItemOnly
<1>. QED  BY <1>1, <1>2, <1>3, Writers

\* A handler past its load has the id of no upload.
LEMMA LoadedApart ==
  ASSUME IdInv, NEW r \in Requests, NEW q \in Requests \ {r}, InsertItem(r),
         request[q].item = request[r].item
  PROVE  request[q].at = "load"
BY DEF IdInv, Alone, InsertItem, Storing

\* The objects of other items stay as they are.
LEMMA StoredOthers ==
  ASSUME Typed, NEW r \in Requests, Step(r), NEW i \in Items, i # request[r].item
  PROVE  Stored(i)' = Stored(i)
BY OwnItemOnly DEF Stored

\* What an upload's two writes leave behind.
LEMMA UploadWrites ==
  ASSUME Typed, ~Ambiguous, NEW r \in Requests
  PROVE  /\ PutImage(r) =>
              /\ request[r] \in Uploading /\ request[r].at = "putImage" /\ rows' = rows
              /\ \/ /\ objects' = objects \cup {<<request[r].item, "image">>}
                    /\ request'[r].keys = {"image"} /\ request'[r].doc = request[r].doc
                    /\ request'[r].at = IF request[r].doc.thumb THEN "putThumbnail" ELSE "insertItem"
                 \/ objects' = objects /\ request'[r] = Idle
         /\ PutThumbnail(r) =>
              /\ request[r] \in Uploading /\ request[r].at = "putThumbnail" /\ rows' = rows
              /\ \/ /\ objects' = objects \cup {<<request[r].item, "thumbnail">>}
                    /\ request'[r].keys = request[r].keys \cup {"thumbnail"}
                    /\ request'[r].doc = request[r].doc /\ request'[r].at = "insertItem"
                 \/ /\ objects' = objects /\ request'[r].at = "cleanUp"
                    /\ request'[r].keys = request[r].keys
<1>0. request \in [Requests -> Activation]
  BY DEF Typed, Slots
<1>1. ASSUME PutImage(r)
      PROVE  /\ request[r] \in Uploading /\ request[r].at = "putImage" /\ rows' = rows
             /\ \/ /\ objects' = objects \cup {<<request[r].item, "image">>}
                   /\ request'[r].keys = {"image"} /\ request'[r].doc = request[r].doc
                   /\ request'[r].at = IF request[r].doc.thumb THEN "putThumbnail" ELSE "insertItem"
                \/ objects' = objects /\ request'[r] = Idle
  <2>1. request[r] \in Uploading /\ request[r].at = "putImage"
    BY <1>1, CallsOfHandlers DEF PutImage, Uploads, Storing
  <2>2. Keys(r, {"image"}) = {<<request[r].item, "image">>}
    BY DEF Keys
  <2>3. rows' = rows
    BY <1>1 DEF PutImage
  <2>4. CASE Answer(r) /\ objects' \in Leaves(objects \cup Keys(r, {"image"}), objects)
    BY <1>0, <2>1, <2>3, <2>4 DEF Leaves, Answer
  <2>5. CASE /\ objects' = objects \cup Keys(r, {"image"})
             /\ request' = [request EXCEPT ![r] = Holding(request[r], {"image"},
                              IF request[r].doc.thumb THEN "putThumbnail" ELSE "insertItem")]
    <3>1. request'[r] = Holding(request[r], {"image"},
                          IF request[r].doc.thumb THEN "putThumbnail" ELSE "insertItem")
      BY <1>0, <2>5
    <3>2. {"image"} \in SUBSET Parts
      BY DEF Parts
    <3>. QED  BY <2>1, <2>2, <2>3, <2>5, <3>1, <3>2, KeysHeld
  <2>. QED  BY <1>1, <2>4, <2>5, KeysMove
<1>2. ASSUME PutThumbnail(r)
      PROVE  /\ request[r] \in Uploading /\ request[r].at = "putThumbnail" /\ rows' = rows
             /\ \/ /\ objects' = objects \cup {<<request[r].item, "thumbnail">>}
                   /\ request'[r].keys = request[r].keys \cup {"thumbnail"}
                   /\ request'[r].doc = request[r].doc /\ request'[r].at = "insertItem"
                \/ /\ objects' = objects /\ request'[r].at = "cleanUp"
                   /\ request'[r].keys = request[r].keys
  <2>1. request[r] \in Uploading /\ request[r].at = "putThumbnail"
    BY <1>2, CallsOfHandlers DEF PutThumbnail, Uploads, Storing
  <2>2. Keys(r, {"thumbnail"}) = {<<request[r].item, "thumbnail">>}
    BY DEF Keys
  <2>3. rows' = rows
    BY <1>2 DEF PutThumbnail
  <2>4. CASE Continue(r, "cleanUp") /\ objects' \in Leaves(objects \cup Keys(r, {"thumbnail"}), objects)
    BY <1>0, <2>1, <2>3, <2>4 DEF Leaves, Continue, Uploading
  <2>5. CASE /\ objects' = objects \cup Keys(r, {"thumbnail"})
             /\ request' = [request EXCEPT ![r] =
                              Holding(request[r], request[r].keys \cup {"thumbnail"}, "insertItem")]
    <3>1. request'[r] = Holding(request[r], request[r].keys \cup {"thumbnail"}, "insertItem")
      BY <1>0, <2>5
    <3>2. request[r].keys \cup {"thumbnail"} \in SUBSET Parts
      BY <2>1 DEF Uploading, Parts
    <3>. QED  BY <2>1, <2>2, <2>3, <2>5, <3>1, <3>2, KeysHeld
  <2>. QED  BY <1>2, <2>4, <2>5, KeysMove
<1>. QED  BY <1>1, <1>2

\* An upload half-way stays exact about its keys.
LEMMA HalfwayKept ==
  ASSUME StoreInv, ~Ambiguous, [Next]_vars
  PROVE  Halfway'
<1>0. request \in [Requests -> Activation] /\ Typed /\ Idle.at = "idle"
  BY DEF StoreInv, IdInv, Typed, Slots, Idle
<1>1. CASE UNCHANGED vars
  BY <1>1 DEF vars, StoreInv, Halfway, Stored
<1>2. CASE Crash
  BY <1>0, <1>2 DEF Crash, Halfway, Storing
<1>3. ASSUME NEW r \in Requests, ArriveUpload(r) \/ ArriveEdit(r) PROVE Halfway'
  <2>1. \A q \in Requests \ {r} : request'[q] = request[q]
    BY <1>0, <1>3, RunsOn
  <2>2. objects' = objects
    BY <1>3, ArrivalWrites
  <2>3. \/ request'[r].at = "load"
        \/ request'[r].at = "putImage" /\ request'[r].keys = {} /\ request'[r].item \in Items \ used
    BY <1>0, <1>3, ArrivalTypes
  <2>4. \A i \in Items \ used : Stored(i) = {}
    BY DEF StoreInv, IdInv, UsedFirst, Stored
  <2>. QED  BY <2>1, <2>2, <2>3, <2>4 DEF StoreInv, Halfway, Stored, Storing
<1>4. ASSUME NEW r \in Requests, Step(r) PROVE Halfway'
  <2>1. \A q \in Requests \ {r} : request'[q] = request[q]
    BY <1>0, <1>4, RunsOn
  <2>2. ASSUME NEW q \in Requests \ {r}, request[q].at \in Storing, NEW i, i = request[q].item
        PROVE  Stored(i)' = Stored(i)
    <3>1. i \in Items
      BY <1>0, <2>2, CallsOfHandlers DEF Uploads, Uploading
    <3>2. CASE request[r].item = i
      <4>1. request[r].at = "load"
        BY <2>2, <3>2 DEF StoreInv, IdInv, Alone
      <4>2. objects' = objects
        BY <1>4, <4>1, Writers DEF PutImage, PutThumbnail, CleanUp, DeleteObjects
      <4>. QED  BY <4>2 DEF Stored
    <3>. QED  BY <1>0, <1>4, <3>1, <3>2, StoredOthers
  <2>3. ASSUME request'[r].at \in Storing, NEW i, i = request'[r].item
        PROVE  /\ Stored(i)' = request'[r].keys
               /\ request'[r].at # "putImage"
               /\ request'[r].at = "putThumbnail" => request'[r].keys = {"image"} /\ request'[r].doc.thumb
               /\ request'[r].at = "insertItem" => request'[r].keys = PartsOf(request'[r].doc.thumb)
    <3>1. PutImage(r) \/ PutThumbnail(r)
      BY <1>0, <1>4, <2>3, CallOrder DEF Storing
    <3>2. i = request[r].item
      BY <1>0, <1>4, <2>3, StaysOnItem DEF Storing
    <3>3. CASE PutImage(r)
      <4>1. /\ objects' = objects \cup {<<request[r].item, "image">>}
            /\ request'[r].keys = {"image"} /\ request'[r].doc = request[r].doc
            /\ request'[r].at = IF request[r].doc.thumb THEN "putThumbnail" ELSE "insertItem"
        BY <1>0, <2>3, <3>3, UploadWrites DEF Storing
      <4>2. Stored(request[r].item) = {}
        BY <3>3 DEF PutImage, StoreInv, Halfway, Storing
      <4>. QED  BY <3>2, <4>1, <4>2 DEF Stored, PartsOf, Parts
    <3>4. CASE PutThumbnail(r)
      <4>1. /\ objects' = objects \cup {<<request[r].item, "thumbnail">>}
            /\ request'[r].keys = request[r].keys \cup {"thumbnail"}
            /\ request'[r].doc = request[r].doc /\ request'[r].at = "insertItem"
        BY <1>0, <2>3, <3>4, UploadWrites DEF Storing
      <4>2. /\ Stored(request[r].item) = {"image"} /\ request[r].keys = {"image"}
            /\ request[r].doc.thumb
        BY <3>4 DEF PutThumbnail, StoreInv, Halfway, Storing
      <4>. QED  BY <3>2, <4>1, <4>2 DEF Stored, PartsOf, Parts
    <3>. QED  BY <3>1, <3>3, <3>4
  <2>. QED  BY <2>1, <2>2, <2>3 DEF StoreInv, Halfway
<1>. QED  BY <1>1, <1>2, <1>3, <1>4 DEF Next

\* Saves keep the thumbnail of the row.
LEMMA ThumbsStay ==
  ASSUME IdInv, [Next]_vars, NEW i \in Items, rows[i].present, rows'[i].present
  PROVE  rows'[i].thumb = rows[i].thumb
BY EditsKeptApart DEF EditsAreAsked

\* Rows go on telling which objects they have.
LEMMA RowsTellKept ==
  ASSUME StoreInv, ~Ambiguous, [Next]_vars
  PROVE  RowsTellObjects'
<1>0. IdInv /\ Typed /\ rows \in [Items -> Row]
  BY DEF StoreInv, IdInv, Typed, TypeOK
<1>1. CASE UNCHANGED <<rows, objects>>
  BY <1>1 DEF StoreInv, RowsTellObjects, Stored
<1>2. ASSUME NEW r \in Requests, Step(r), NEW i \in Items, rows'[i].present
      PROVE  Stored(i)' = PartsOf(rows'[i].thumb)
  <2>1. CASE i # request[r].item
    BY <1>0, <1>2, <2>1, StoredOthers, OwnItemOnly DEF StoreInv, RowsTellObjects
  <2>2. CASE i = request[r].item /\ InsertItem(r)
    <3>1. ~rows[i].present
      BY <1>0, <2>2 DEF InsertItem, IdInv, Alone, Storing
    <3>2. PICK row \in Row : row.thumb = request[r].doc.thumb /\ rows' = [rows EXCEPT ![i] = row]
      BY <1>0, <1>2, <2>2, <3>1, InsertWrites
    <3>3. Stored(i) = PartsOf(request[r].doc.thumb) /\ objects' = objects
      BY <2>2 DEF InsertItem, StoreInv, Halfway, Storing
    <3>. QED  BY <1>0, <3>2, <3>3 DEF Stored
  <2>3. CASE i = request[r].item /\ ~InsertItem(r)
    <3>1. rows[i].present
      BY <1>0, <1>2, <2>3, RowsAppear
    <3>2. ~PutImage(r) /\ ~PutThumbnail(r) /\ ~CleanUp(r)
      BY <2>3, <3>1 DEF PutImage, PutThumbnail, CleanUp, StoreInv, Alone, Uploads, Storing
    <3>3. ~DeleteObjects(r)
      BY <2>3, <3>1 DEF DeleteObjects, StoreInv, RowsGoFirst
    <3>4. objects' = objects
      BY <1>2, <3>2, <3>3, Writers
    <3>5. rows'[i].thumb = rows[i].thumb
      BY <1>0, <1>2, <3>1, ThumbsStay
    <3>. QED  BY <3>1, <3>4, <3>5 DEF StoreInv, RowsTellObjects, Stored
  <2>. QED  BY <2>1, <2>2, <2>3
<1>. QED  BY <1>1, <1>2, ArrivalWrites DEF Next, Crash, vars, RowsTellObjects

\* Deletes go on knowing the row they are about to remove.
LEMMA DeletesKnowKept ==
  ASSUME StoreInv, [Next]_vars
  PROVE  DeletesKnow'
<1>0. IdInv /\ Typed /\ rows \in [Items -> Row] /\ request \in [Requests -> Activation] /\ Idle.at = "idle"
  BY DEF StoreInv, IdInv, Typed, TypeOK, Slots, Idle
<1>1. CASE UNCHANGED vars
  BY <1>1 DEF vars, StoreInv, DeletesKnow
<1>2. CASE Crash
  BY <1>0, <1>2 DEF Crash, DeletesKnow
<1>3. ASSUME NEW r \in Requests, ArriveUpload(r) \/ ArriveEdit(r) PROVE DeletesKnow'
  <2>1. request'[r].at # "deleteRow" /\ rows' = rows
    BY <1>0, <1>3, ArrivalTypes, ArrivalWrites
  <2>. QED  BY <1>0, <1>3, <2>1, RunsOn DEF StoreInv, DeletesKnow
<1>4. ASSUME NEW r \in Requests, Step(r) PROVE DeletesKnow'
  <2>1. \A q \in Requests \ {r} : request'[q] = request[q]
    BY <1>0, <1>4, RunsOn
  <2>2. ASSUME request'[r].at = "deleteRow"
        PROVE  request'[r].doc.thumb <=> rows'[request'[r].item].thumb
    <3>1. Load(r)
      BY <1>0, <1>4, <2>2, CallOrder
    <3>2. request[r].item = request'[r].item
      BY <1>0, <1>4, <2>2, StaysOnItem
    <3>3. request'[r].doc = rows[request[r].item] /\ rows' = rows
      <4>1. DOMAIN request[r] = {"handler", "at", "user", "item", "value", "doc", "keys", "n"}
        BY <1>0, <3>1, CallsOfHandlers DEF Load, Washing, Retiring, Sorting, Deleting
      <4>2. ~Answer(r)
        BY <1>0, <2>2 DEF Answer
      <4>. QED  BY <1>0, <3>1, <4>1, <4>2 DEF Load, Loaded
    <3>. QED  BY <3>2, <3>3
  <2>3. ASSUME NEW q \in Requests \ {r}, request[q].at = "deleteRow", rows'[request[q].item].present
        PROVE  request[q].doc.thumb <=> rows'[request[q].item].thumb
    <3>1. request[q].item \in Items
      BY <1>0, <2>3, CallsOfHandlers DEF Deleting
    <3>2. rows[request[q].item].present
      BY <1>0, <1>4, <2>3, <3>1, RowsAppear, LoadedApart
    <3>. QED  BY <1>0, <1>4, <2>3, <3>1, <3>2, ThumbsStay DEF StoreInv, DeletesKnow
  <2>. QED  BY <2>1, <2>2, <2>3 DEF DeletesKnow
<1>. QED  BY <1>1, <1>2, <1>3, <1>4 DEF Next

\* Objects go on being deleted after their row.
LEMMA RowsGoFirstKept ==
  ASSUME StoreInv, ~Ambiguous, [Next]_vars
  PROVE  RowsGoFirst'
<1>0. IdInv /\ Typed /\ rows \in [Items -> Row] /\ request \in [Requests -> Activation] /\ Idle.at = "idle"
  BY DEF StoreInv, IdInv, Typed, TypeOK, Slots, Idle
<1>1. CASE UNCHANGED vars
  BY <1>1 DEF vars, StoreInv, RowsGoFirst
<1>2. CASE Crash
  BY <1>0, <1>2 DEF Crash, RowsGoFirst
<1>3. ASSUME NEW r \in Requests, ArriveUpload(r) \/ ArriveEdit(r) PROVE RowsGoFirst'
  <2>1. request'[r].at # "deleteObjects" /\ rows' = rows
    BY <1>0, <1>3, ArrivalTypes, ArrivalWrites
  <2>. QED  BY <1>0, <1>3, <2>1, RunsOn DEF StoreInv, RowsGoFirst
<1>4. ASSUME NEW r \in Requests, Step(r) PROVE RowsGoFirst'
  <2>1. \A q \in Requests \ {r} : request'[q] = request[q]
    BY <1>0, <1>4, RunsOn
  <2>2. ASSUME request'[r].at = "deleteObjects" PROVE ~rows'[request'[r].item].present
    <3>1. request[r].item = request'[r].item /\ request[r].item \in Items
      BY <1>0, <1>4, <2>2, StaysOnItem, CallOrder, CallsOfHandlers DEF DeleteRow, DeleteObjects, Deleting
    <3>2. CASE DeleteRow(r)
      <4>1. ~Answer(r)
        BY <1>0, <2>2 DEF Answer
      <4>. QED  BY <1>0, <3>1, <3>2, <4>1 DEF DeleteRow, Absent
    <3>3. CASE DeleteObjects(r)
      BY <3>1, <3>3 DEF DeleteObjects, DeleteStored, StoreInv, RowsGoFirst
    <3>. QED  BY <1>0, <1>4, <2>2, <3>2, <3>3, CallOrder
  <2>3. ASSUME NEW q \in Requests \ {r}, request[q].at = "deleteObjects"
        PROVE  ~rows'[request[q].item].present
    <3>1. request[q].item \in Items
      BY <1>0, <2>3, CallsOfHandlers DEF Deleting
    <3>. QED  BY <1>0, <1>4, <2>3, <3>1, RowsAppear, LoadedApart DEF StoreInv, RowsGoFirst
  <2>. QED  BY <2>1, <2>2, <2>3 DEF RowsGoFirst
<1>. QED  BY <1>1, <1>2, <1>3, <1>4 DEF Next

\* A save neither inserts nor deletes.
LEMMA SavesKeepRows ==
  ASSUME Typed, NEW r \in Requests, SaveLaundry(r) \/ SaveRetired(r) \/ SaveCategory(r),
         NEW i \in Items
  PROVE  rows'[i].present <=> rows[i].present
<1>0. rows \in [Items -> Row]
  BY DEF Typed, TypeOK
<1>1. \/ rows' = rows
      \/ rows' = [rows EXCEPT ![request[r].item] =
                    [rows[request[r].item] EXCEPT !.laundryStatus = request[r].value]]
      \/ rows' = [rows EXCEPT ![request[r].item] =
                    [rows[request[r].item] EXCEPT !.retired = request[r].value]]
      \/ rows' = [rows EXCEPT ![request[r].item] =
                    [rows[request[r].item] EXCEPT !.category = request[r].value]]
  BY SaveWrites
<1>. QED  BY <1>0, <1>1 DEF Row

\* A clean-up or a delete that loses nothing goes on tending what is left.
LEMMA TendingGoesOn ==
  ASSUME Typed, NEW r \in Requests, CleanUp(r) \/ DeleteObjects(r), losses' = losses,
         NEW k \in request[r].keys, <<request[r].item, k>> \in objects'
  PROVE  Tends(r, request[r].item, k)'
<1>0. request \in [Requests -> Activation] /\ losses \in Int
  BY BoundsAssumption DEF Typed, TypeOK, Slots
<1>1. request[r] \in Uploading \cup Deleting
  BY CallsOfHandlers DEF CleanUp, DeleteObjects, Uploads
<1>2. PICK d \in request[r].keys :
        /\ objects' = objects \ Keys(r, {d}) \/ Lose
        /\ IF request[r].keys = {d} THEN Answer(r) ELSE request' = [request EXCEPT ![r].keys = @ \ {d}]
  BY DEF CleanUp, DeleteObjects, DeleteStored
<1>3. objects' = objects \ Keys(r, {d})
  <2>1. ~Lose
    BY <1>0 DEF Lose
  <2>. QED  BY <1>2, <2>1
<1>4. k # d
  BY <1>3 DEF Keys
<1>5. request' = [request EXCEPT ![r].keys = @ \ {d}]
  BY <1>2, <1>4
<1>6. /\ request'[r].item = request[r].item /\ request'[r].keys = request[r].keys \ {d}
      /\ request'[r].at = request[r].at
  BY <1>0, <1>1, <1>5 DEF Uploading, Deleting
<1>. QED  BY <1>4, <1>6 DEF Tends, CleanUp, DeleteObjects

\* Nothing is leaked by a step that loses nothing.
LEMMA NoLeakKept ==
  ASSUME StoreInv, ~Ambiguous, [Next]_vars, Halfway'
  PROVE  NoLeak'
<1>0. /\ IdInv /\ Typed /\ rows \in [Items -> Row] /\ request \in [Requests -> Activation]
      /\ Idle.at = "idle" /\ losses \in Nat
  BY BoundsAssumption DEF StoreInv, IdInv, Typed, TypeOK, Slots, Idle
<1>1. CASE UNCHANGED vars
  BY <1>1 DEF vars, StoreInv, NoLeak, Tends
<1>2. CASE Crash
  BY <1>0, <1>2 DEF Crash, Lose, NoLeak
<1>3. ASSUME NEW r \in Requests, ArriveUpload(r) \/ ArriveEdit(r) PROVE NoLeak'
  <2>1. request[r] = Idle /\ UNCHANGED <<rows, objects, losses>>
    BY <1>3 DEF ArriveUpload, ArriveEdit
  <2>2. ASSUME NEW q \in Requests, NEW i \in Items, NEW k \in Parts, Tends(q, i, k)
        PROVE  Tends(q, i, k)'
    <3>1. q # r
      BY <1>0, <2>1, <2>2 DEF Tends
    <3>. QED  BY <1>0, <1>3, <2>2, <3>1, RunsOn DEF Tends
  <2>. QED  BY <2>1, <2>2 DEF StoreInv, NoLeak
<1>4. ASSUME NEW r \in Requests, Step(r), losses' = 0, NEW i \in Items, NEW k \in Parts,
             <<i, k>> \in objects', ~rows'[i].present
      PROVE  \E q \in Requests : Tends(q, i, k)'
  <2>1. losses = 0 /\ losses' = losses
    BY <1>0, <1>4, Writers DEF Lose
  <2>2. ASSUME NEW q \in Requests \ {r}, Tends(q, i, k) PROVE Tends(q, i, k)'
    BY <1>0, <1>4, <2>2, RunsOn DEF Tends
  <2>3. ASSUME <<i, k>> \in objects, ~rows[i].present
        PROVE  \E q \in Requests : Tends(q, i, k)
    BY <2>1, <2>3 DEF StoreInv, NoLeak
  <2>4. CASE i # request[r].item
    BY <1>0, <1>4, <2>2, <2>3, <2>4, OwnItemOnly DEF Tends
  <2>5. CASE i = request[r].item /\ (PutImage(r) \/ PutThumbnail(r))
    <3>1. <<i, k>> \in objects => k \in request[r].keys
      BY <1>0, <2>5 DEF StoreInv, Halfway, Stored, PutImage, PutThumbnail, Storing
    <3>2. request'[r] # Idle
      BY <1>0, <1>4, <2>5, <3>1, UploadWrites DEF StoreInv, Halfway, Storing, PutImage
    <3>3. request'[r].item = i
      BY <1>0, <1>4, <2>5, <3>2, StaysOnItem
    <3>4. CASE request'[r].at = "cleanUp"
      <4>1. objects' = objects /\ request'[r].keys = request[r].keys
        BY <1>0, <2>5, <3>2, <3>4, UploadWrites
      <4>. QED  BY <1>4, <3>1, <3>3, <3>4, <4>1 DEF Tends
    <3>5. CASE request'[r].at \in {"putThumbnail", "insertItem"}
      <4>1. k \in request'[r].keys
        BY <1>4, <3>3, <3>5 DEF Halfway, Stored, Storing
      <4>. QED  BY <3>3, <3>5, <4>1 DEF Tends
    <3>. QED  BY <1>0, <2>5, <3>2, <3>4, <3>5, UploadWrites
  <2>6. CASE i = request[r].item /\ InsertItem(r)
    <3>0. PICK row \in Row :
             /\ row.present
             /\ \/ rows' = [rows EXCEPT ![request[r].item] = row]
                \/ rows' = rows /\ Continue(r, "cleanUp")
      BY <1>0, <2>6, InsertWrites
    <3>1. request[r] \in Uploading /\ rows' = rows /\ ~Answer(r)
      <4>1. request[r] \in Uploading
        BY <1>0, <2>6, InsertWrites
      <4>2. rows' = rows /\ Continue(r, "cleanUp")
        BY <1>0, <1>4, <2>6, <3>0
      <4>. QED  BY <1>0, <4>1, <4>2 DEF Answer, Continue, Uploading
    <3>2. Continue(r, "cleanUp") /\ objects' = objects
      BY <1>0, <2>6, <3>1, InsertWrites DEF InsertItem
    <3>3. k \in request[r].keys
      BY <1>4, <2>6, <3>2 DEF InsertItem, StoreInv, Halfway, Stored, Storing
    <3>. QED  BY <1>0, <2>6, <3>1, <3>2, <3>3 DEF Continue, Tends, Uploading
  <2>7. CASE i = request[r].item /\ (CleanUp(r) \/ DeleteObjects(r))
    <3>1. rows' = rows /\ <<i, k>> \in objects
      BY <1>4, <2>7 DEF CleanUp, DeleteObjects, DeleteStored
    <3>2. PICK q \in Requests : Tends(q, i, k)
      BY <1>4, <2>3, <3>1
    <3>3. CASE q = r
      <4>1. k \in request[r].keys
        BY <3>2, <3>3 DEF Tends
      <4>2. Tends(r, request[r].item, k)'
        BY <1>0, <1>4, <2>1, <2>7, <4>1, TendingGoesOn
      <4>3. request'[r].item = i
        BY <2>7, <3>2, <3>3, <4>2, <1>0, <1>4, StaysOnItem DEF Tends
      <4>. QED  BY <4>2, <4>3 DEF Tends
    <3>. QED  BY <2>2, <3>2, <3>3
  <2>8. CASE i = request[r].item /\ DeleteRow(r)
    <3>1. objects' = objects
      BY <2>8 DEF DeleteRow
    <3>2. CASE ~rows[i].present
      <4>1. PICK q \in Requests : Tends(q, i, k)
        BY <1>4, <2>3, <3>1, <3>2
      <4>. QED  BY <2>2, <2>8, <4>1 DEF DeleteRow, Tends
    <3>3. CASE rows[i].present
      <4>1. request[r] \in Deleting
        BY <1>0, <2>8, CallsOfHandlers DEF DeleteRow
      <4>2. request'[r] = Holding(request[r],
              {"image"} \cup {p \in {"thumbnail"} : request[r].doc.thumb}, "deleteObjects")
        <5>1. rows' # rows
          BY <1>4, <3>3
        <5>2. request' = [request EXCEPT ![r] = Holding(request[r],
                {"image"} \cup {p \in {"thumbnail"} : request[r].doc.thumb}, "deleteObjects")]
          BY <1>4, <2>8, <5>1 DEF DeleteRow, Leaves, Holding
        <5>. QED  BY <1>0, <5>2
      <4>3. request'[r].at = "deleteObjects" /\ request'[r].item = i
            /\ request'[r].keys = {"image"} \cup {p \in {"thumbnail"} : request[r].doc.thumb}
        <5>1. {"image"} \cup {p \in {"thumbnail"} : request[r].doc.thumb} \in SUBSET Parts
          BY DEF Parts
        <5>. QED  BY <2>8, <4>1, <4>2, <5>1, KeysHeld
      <4>4. k \in PartsOf(rows[i].thumb)
        BY <1>4, <3>1, <3>3 DEF StoreInv, RowsTellObjects, Stored
      <4>5. request[r].doc.thumb <=> rows[i].thumb
        BY <2>8, <3>3 DEF DeleteRow, StoreInv, DeletesKnow
      <4>. QED  BY <4>3, <4>4, <4>5 DEF Tends, PartsOf, Parts
    <3>. QED  BY <3>2, <3>3
  <2>9. CASE i = request[r].item /\ (Load(r) \/ LogTransition(r) \/ UndoTransition(r)
                                       \/ SaveLaundry(r) \/ SaveRetired(r) \/ SaveCategory(r))
    <3>1. objects' = objects /\ ~Tends(r, i, k)
      BY <2>9 DEF Load, LogTransition, UndoTransition, SaveLaundry, SaveRetired, SaveCategory,
         SaveField, Tends
    <3>2. ~rows[i].present
      <4>1. CASE rows' = rows
        BY <1>4, <4>1
      <4>2. CASE SaveLaundry(r) \/ SaveRetired(r) \/ SaveCategory(r)
        BY <1>0, <1>4, <4>2, SavesKeepRows
      <4>. QED  BY <2>9, <4>1, <4>2 DEF Load, LogTransition, UndoTransition
    <3>. QED  BY <1>4, <2>2, <2>3, <3>1, <3>2
  <2>. QED  BY <1>4, <2>4, <2>5, <2>6, <2>7, <2>8, <2>9 DEF Step
<1>. QED  BY <1>1, <1>2, <1>3, <1>4 DEF Next, NoLeak

\* Every step keeps the rows and the bytes in step.
LEMMA StoreInvKept == ~Ambiguous /\ StoreInv /\ [Next]_vars => StoreInv'
<1> SUFFICES ASSUME ~Ambiguous, StoreInv, [Next]_vars PROVE StoreInv'
  OBVIOUS
<1>1. IdInv'
  BY TypedKept, UsedFirstKept, AloneKept DEF StoreInv, IdInv
<1>2. Alone(Uploads)'
  BY AloneKept DEF StoreInv, IdInv
<1>. QED
  BY <1>1, <1>2, HalfwayKept, RowsTellKept, DeletesKnowKept, RowsGoFirstKept, NoLeakKept DEF StoreInv

\* A row never outlives its objects, and no object is left without a row or a
\* request that answers for it, for any number of uploads, edits and deletes in
\* flight, any call failing and the process dying anywhere (routes/items.ts,
\* POST and DELETE), if a write that rejects was not applied.
THEOREM StoresStayInStep == ~Ambiguous /\ Spec => []StoresAgree
<1>1. Init => StoreInv
  BY TypedAtStart
  DEF Init, StoreInv, IdInv, UsedFirst, Alone, Storing, Uploads, Idle, Absent, Halfway,
      RowsTellObjects, DeletesKnow, RowsGoFirst, NoLeak
<1>2. StoreInv => StoresAgree
  BY DEF StoreInv, IdInv, Typed, StoresAgree, RowHasObjects, RowsTellObjects, Stored, PartsOf, Parts
<1>3. ~Ambiguous => [](~Ambiguous)
  OBVIOUS
<1>. QED  BY <1>1, <1>2, <1>3, StoreInvKept, PTL DEF Spec

----------------------------------------------------------------------------
\* What one step of a handler can do to the log: a laundry change is stamped,
\* logged or rejected, saved or rejected, undone or lost, and no other handler
\* carries a stamp.
LEMMA LaundryCourse ==
  ASSUME Typed, ~Ambiguous, NEW r \in Requests, Step(r)
  PROVE  \/ /\ request[r].n = 0 /\ request'[r].n = 0 /\ UNCHANGED <<log, applied, presses>>
            /\ request'[r].at # "logTransition"
            /\ ~(request'[r].at = "save" /\ request'[r].handler = "laundry")
         \/ /\ request[r].n = 0 /\ request'[r].n = presses + 1 /\ presses' = presses + 1
            /\ request'[r].at = "logTransition" /\ UNCHANGED <<log, applied>>
         \/ /\ request[r] \in Washing /\ request[r].n \in 1..MaxPresses /\ presses' = presses
            /\ \/ LogTransition(r) /\ log' = Logged(r) /\ Continue(r, "save") /\ applied' = applied
               \/ LogTransition(r) /\ log' = log /\ Answer(r) /\ applied' = applied
               \/ SaveLaundry(r) /\ Answer(r) /\ applied' = applied \cup {request[r].n} /\ log' = log
               \/ /\ SaveLaundry(r) /\ Continue(r, "undoTransition")
                  /\ UNCHANGED <<rows, applied, log>>
               \/ /\ UndoTransition(r) /\ Answer(r) /\ applied' = applied
                  /\ \/ log' = {t \in log : t.n # request[r].n}
                     \/ log' = log /\ Lose
<1>0. request \in [Requests -> Activation] /\ Idle.at = "idle" /\ Idle.n = 0
  BY DEF Typed, Slots, Idle
<1>1. CASE LogTransition(r)
  <2>1. request[r] \in Washing /\ request[r].at = "logTransition"
    BY <1>1, CallsOfHandlers DEF LogTransition
  <2>2. request[r].n \in 1..MaxPresses
    BY <2>1, BoundsAssumption DEF Washing
  <2>. QED  BY <1>1, <2>1, <2>2 DEF LogTransition, Leaves
<1>2. CASE SaveLaundry(r)
  <2>1. request[r] \in Washing /\ request[r].at = "save"
    BY <1>2, SaveWrites
  <2>2. request[r].n \in 1..MaxPresses
    BY <2>1, BoundsAssumption DEF Washing
  <2>. QED  BY <1>2, <2>1, <2>2 DEF SaveLaundry, Leaves
<1>3. CASE UndoTransition(r)
  <2>1. request[r] \in Washing /\ request[r].at = "undoTransition"
    BY <1>3, CallsOfHandlers DEF UndoTransition
  <2>2. request[r].n \in 1..MaxPresses
    BY <2>1, BoundsAssumption DEF Washing
  <2>. QED  BY <1>3, <2>1, <2>2 DEF UndoTransition
<1>4. CASE Load(r)
  <2>1. request[r] \in Washing \cup Retiring \cup Sorting \cup Deleting /\ request[r].at = "load"
    BY <1>4, CallsOfHandlers DEF Load
  <2>2. request[r].n = 0
    BY <2>1 DEF Washing, Retiring, Sorting, Deleting
  <2>3. DOMAIN request[r] = {"handler", "at", "user", "item", "value", "doc", "keys", "n"}
    BY <2>1 DEF Washing, Retiring, Sorting, Deleting
  <2>. QED  BY <1>0, <1>4, <2>2, <2>3 DEF Load, Loaded, Answer
<1>5. CASE PutImage(r) \/ PutThumbnail(r) \/ InsertItem(r) \/ CleanUp(r) \/ DeleteRow(r)
           \/ DeleteObjects(r) \/ SaveRetired(r) \/ SaveCategory(r)
  <2>1. request[r] \in Uploading \cup Deleting \cup Retiring \cup Sorting
    BY <1>5, CallsOfHandlers, SaveWrites
    DEF PutImage, PutThumbnail, InsertItem, CleanUp, DeleteRow, DeleteObjects, Uploads, Storing
  <2>2. request[r].n = 0 /\ request[r].handler # "laundry"
    BY <2>1 DEF Uploading, Deleting, Retiring, Sorting
  <2>3. request'[r].n = 0
    <3>1. request'[r] = Idle \/ request'[r] \in Uploading \cup Deleting \cup Retiring \cup Sorting
      BY <1>0, <2>2, StepTypes DEF Busy, Washing
    <3>. QED  BY <1>0, <3>1 DEF Uploading, Deleting, Retiring, Sorting
  <2>4. UNCHANGED <<log, applied, presses>>
    BY <1>5 DEF PutImage, PutThumbnail, InsertItem, CleanUp, DeleteStored, DeleteRow, DeleteObjects,
       SaveRetired, SaveCategory, SaveField
  <2>5. request'[r].at # "logTransition" /\ ~(request'[r].at = "save" /\ request'[r].handler = "laundry")
    <3>1. request'[r] = Idle \/ request'[r].handler # "laundry"
      BY <2>2, StepTypes
    <3>2. request'[r] = Idle \/ request'[r].at # "logTransition"
      BY <3>1, StepTypes DEF Busy, Uploading, Deleting, Retiring, Sorting, Washing, Uploads, Storing, Deletes
    <3>. QED  BY <1>0, <3>1, <3>2
  <2>. QED  BY <2>2, <2>3, <2>4, <2>5
<1>. QED  BY <1>1, <1>2, <1>3, <1>4, <1>5 DEF Step

\* Two laundry changes never share a stamp, and an applied one is nobody's.
LEMMA StampsApartKept ==
  ASSUME IdInv, StampsApart, ~Ambiguous, [Next]_vars
  PROVE  StampsApart'
<1>0. /\ Typed /\ request \in [Requests -> Activation] /\ Idle.n = 0 /\ presses \in Nat
      /\ \A t \in log : t.n \in Nat /\ t.n # 0
      /\ \A n \in applied : n \in Nat /\ n # 0
      /\ \A q \in Requests : request[q].n \in Nat
  <2>1. \A q \in Requests : request[q].n \in Nat
    BY BoundsAssumption DEF IdInv, Typed, Slots, Activation, Busy, Idle, Uploading, Washing, Retiring,
       Sorting, Deleting
  <2>. QED  BY <2>1, BoundsAssumption DEF IdInv, Typed, TypeOK, Slots, Transition, Idle
<1>1. CASE UNCHANGED vars
  BY <1>1 DEF vars, StampsApart
<1>2. CASE Crash
  BY <1>0, <1>2 DEF Crash, StampsApart
<1>3. ASSUME NEW r \in Requests, ArriveUpload(r) \/ ArriveEdit(r) PROVE StampsApart'
  <2>1. request'[r].n = 0
    BY <1>0, <1>3, ArrivalTypes DEF Uploading
  <2>. QED  BY <1>0, <1>3, <2>1, RunsOn, ArrivalWrites DEF StampsApart
<1>4. ASSUME NEW r \in Requests, Step(r) PROVE StampsApart'
  <2>1. \A q \in Requests \ {r} : request'[q] = request[q]
    BY <1>0, <1>4, RunsOn
  <2>2. /\ \/ presses' = presses /\ request'[r].n \in {0, request[r].n}
           \/ presses' = presses + 1 /\ request'[r].n = presses + 1
        /\ \A t \in log' : t \in log \/ t.n = request[r].n
        /\ \/ applied' = applied
           \/ applied' = applied \cup {request[r].n} /\ request[r].n # 0 /\ request'[r].n = 0
    <3>1. Continue(r, "save") \/ Continue(r, "undoTransition") => request'[r].n \in {0, request[r].n}
      BY <1>0 DEF Continue, Activation, Busy, Uploading, Washing, Retiring, Sorting, Deleting, Idle
    <3>2. Answer(r) => request'[r].n = 0
      BY <1>0 DEF Answer
    <3>. QED  BY <1>0, <1>4, <3>1, <3>2, LaundryCourse DEF Logged
  <2>3. /\ \A t \in log' : t.n <= presses'
        /\ \A n \in applied' : n <= presses'
        /\ \A q \in Requests : request'[q].n <= presses'
    BY <1>0, <2>1, <2>2 DEF StampsApart
  <2>4. \A q \in Requests : request'[q].n \notin applied'
    BY <1>0, <2>1, <2>2 DEF StampsApart
  <2>5. \A p \in Requests : \A q \in Requests \ {p} : request'[q].n = request'[p].n => request'[p].n = 0
    BY <1>0, <2>1, <2>2 DEF StampsApart
  <2>. QED  BY <2>3, <2>4, <2>5 DEF StampsApart
<1>. QED  BY <1>1, <1>2, <1>3, <1>4 DEF Next

\* A change is logged before it is saved, and its log row stays until then.
LEMMA LogGoesFirstKept ==
  ASSUME IdInv, StampsApart, LogGoesFirst, ~Ambiguous, [Next]_vars
  PROVE  LogGoesFirst'
<1>0. /\ Typed /\ request \in [Requests -> Activation] /\ Idle.at = "idle" /\ presses \in Nat
      /\ \A t \in log : t.n \in Nat
  BY BoundsAssumption DEF IdInv, Typed, TypeOK, Slots, Transition, Idle
<1>1. CASE UNCHANGED vars
  BY <1>1 DEF vars, LogGoesFirst
<1>2. CASE Crash
  BY <1>0, <1>2 DEF Crash, LogGoesFirst
<1>3. ASSUME NEW r \in Requests, ArriveUpload(r) \/ ArriveEdit(r) PROVE LogGoesFirst'
  <2>1. request'[r].at \in {"putImage", "load"} /\ log' = log
    BY <1>0, <1>3, ArrivalTypes, ArrivalWrites
  <2>. QED  BY <1>0, <1>3, <2>1, RunsOn DEF LogGoesFirst
<1>4. ASSUME NEW r \in Requests, Step(r) PROVE LogGoesFirst'
  <2>1. \A q \in Requests \ {r} : request'[q] = request[q]
    BY <1>0, <1>4, RunsOn
  <2>2. ASSUME request'[r].at = "logTransition" PROVE \A t \in log' : t.n # request'[r].n
    <3>1. request'[r].n = presses + 1 /\ log' = log
      BY <1>0, <1>4, <2>2, LaundryCourse, CallOrder DEF Load, LogTransition, SaveLaundry, UndoTransition
    <3>. QED  BY <1>0, <3>1 DEF StampsApart
  <2>3. ASSUME request'[r].at = "save", request'[r].handler = "laundry"
        PROVE  [n |-> request'[r].n, item |-> request'[r].item, status |-> request'[r].value] \in log'
    <3>1. LogTransition(r) /\ log' = Logged(r) /\ Continue(r, "save") /\ request[r] \in Washing
      BY <1>0, <1>4, <2>3, LaundryCourse DEF Continue, Answer, Washing
    <3>. QED  BY <1>0, <3>1 DEF Logged, Continue, Washing
  <2>4. ASSUME NEW q \in Requests \ {r}, request[q].at = "logTransition"
        PROVE  \A t \in log' : t.n # request[q].n
    <3>1. request[q].n # 0
      BY <1>0, <2>4, CallsOfHandlers DEF Washing
    <3>2. request[q].n # request[r].n
      BY <3>1 DEF StampsApart
    <3>3. \A t \in log' : t \in log \/ t.n = request[r].n
      BY <1>0, <1>4, LaundryCourse DEF Logged
    <3>. QED  BY <2>4, <3>2, <3>3 DEF LogGoesFirst
  <2>5. ASSUME NEW q \in Requests \ {r}, request[q].at = "save", request[q].handler = "laundry"
        PROVE  [n |-> request[q].n, item |-> request[q].item, status |-> request[q].value] \in log'
    <3>1. request[q].n # 0
      BY <1>0, <2>5, CallsOfHandlers DEF Washing, Retiring, Sorting
    <3>2. request[q].n # request[r].n
      BY <3>1 DEF StampsApart
    <3>3. \A t \in log : t.n # request[r].n => t \in log'
      BY <1>0, <1>4, LaundryCourse DEF Logged
    <3>4. [n |-> request[q].n, item |-> request[q].item, status |-> request[q].value] \in log
      BY <2>5 DEF LogGoesFirst
    <3>. QED  BY <3>2, <3>3, <3>4
  <2>. QED  BY <2>1, <2>2, <2>3, <2>4, <2>5 DEF LogGoesFirst
<1>. QED  BY <1>1, <1>2, <1>3, <1>4 DEF Next

\* What explains a status goes on explaining it.
LEMMA ExplainedKept ==
  ASSUME IdInv, StampsApart, LogGoesFirst, ExplainedForGood, ~Ambiguous, [Next]_vars
  PROVE  ExplainedForGood'
<1>0. Typed /\ rows \in [Items -> Row]
  BY DEF IdInv, Typed, TypeOK
<1>1. CASE UNCHANGED <<rows, log, applied>>
  BY <1>1 DEF ExplainedForGood
<1>2. ASSUME NEW r \in Requests, Step(r), NEW i \in Items,
             rows'[i].present, rows'[i].laundryStatus = "in_laundry"
      PROVE  \E t \in log' : t.item = i /\ t.status = "in_laundry" /\ t.n \in applied'
  <2>1. \A t \in log : t.n \in applied => t \in log' /\ t.n \in applied'
    BY <1>0, <1>2, LaundryCourse DEF Logged, StampsApart
  <2>2. CASE rows[i].present /\ rows[i].laundryStatus = "in_laundry"
    BY <2>1, <2>2 DEF ExplainedForGood
  <2>3. CASE ~rows[i].present
    <3>1. InsertItem(r) /\ request[r].item = i
      BY <1>0, <1>2, <2>3, RowsAppear
    <3>2. PICK row \in Row : /\ row.laundryStatus = "available"
                             /\ rows' = rows \/ rows' = [rows EXCEPT ![i] = row]
      BY <1>0, <3>1, InsertWrites
    <3>. QED  BY <1>0, <1>2, <2>3, <3>2
  <2>4. CASE rows[i].present /\ rows[i].laundryStatus # "in_laundry"
    <3>1. i = request[r].item /\ rows' # rows
      BY <1>0, <1>2, <2>4, OwnItemOnly
    <3>2. SaveLaundry(r)
      <4>1. ~InsertItem(r)
        BY <2>4, <3>1 DEF InsertItem, IdInv, Alone, Storing
      <4>2. ~DeleteRow(r)
        BY <1>0, <1>2, <3>1 DEF DeleteRow, Leaves, Absent
      <4>3. ~SaveRetired(r) /\ ~SaveCategory(r)
        <5>1. ASSUME \/ rows' = [rows EXCEPT ![i] = [rows[i] EXCEPT !.retired = request[r].value]]
                     \/ rows' = [rows EXCEPT ![i] = [rows[i] EXCEPT !.category = request[r].value]]
              PROVE  FALSE
          BY <1>0, <1>2, <2>4, <5>1 DEF Row
        <5>. QED  BY <1>0, <3>1, <5>1, SaveWrites
      <4>. QED  BY <1>2, <3>1, <4>1, <4>2, <4>3, Writers
    <3>3. request[r] \in Washing /\ request[r].at = "save"
          /\ rows' = [rows EXCEPT ![i] = [rows[i] EXCEPT !.laundryStatus = request[r].value]]
      BY <1>0, <3>1, <3>2, SaveWrites
    <3>4. request[r].value = "in_laundry"
      BY <1>0, <1>2, <3>3 DEF Row
    <3>5. applied' = applied \cup {request[r].n} /\ log' = log
      BY <1>0, <1>2, <3>1, <3>2, <3>3, LaundryCourse
      DEF LogTransition, UndoTransition, Washing
    <3>6. [n |-> request[r].n, item |-> i, status |-> "in_laundry"] \in log
      BY <3>1, <3>3, <3>4 DEF LogGoesFirst, Washing
    <3>. QED  BY <3>5, <3>6
  <2>. QED  BY <2>2, <2>3, <2>4
<1>. QED  BY <1>1, <1>2, ArrivalWrites DEF Next, Crash, vars, ExplainedForGood

\* A transition that is not saved stays its request's to undo.
LEMMA TookEffectKept ==
  ASSUME IdInv, StampsApart, LogGoesFirst, TransitionsTookEffect, ~Ambiguous, [Next]_vars
  PROVE  TransitionsTookEffect'
<1>0. /\ Typed /\ request \in [Requests -> Activation] /\ losses \in Nat
      /\ \A t \in log : t.n # 0
  BY BoundsAssumption DEF IdInv, Typed, TypeOK, Slots, Transition
<1>1. CASE UNCHANGED vars
  BY <1>1 DEF vars, TransitionsTookEffect
<1>2. CASE Crash
  BY <1>0, <1>2 DEF Crash, Lose, TransitionsTookEffect
<1>3. ASSUME NEW r \in Requests, ArriveUpload(r) \/ ArriveEdit(r) PROVE TransitionsTookEffect'
  <2>1. request[r].n = 0 /\ UNCHANGED <<log, applied, losses>>
    <3>1. request[r] = Idle
      BY <1>3 DEF ArriveUpload, ArriveEdit
    <3>. QED  BY <1>3, <3>1, ArrivalWrites DEF Idle
  <2>. QED  BY <1>0, <1>3, <2>1, RunsOn DEF TransitionsTookEffect
<1>4. ASSUME NEW r \in Requests, Step(r), losses' = 0, NEW t \in log'
      PROVE  t.n \in applied' \/ \E q \in Requests : request'[q].n = t.n
  <2>1. losses = 0 /\ ~Lose
    BY <1>0, <1>4, Writers DEF Lose
  <2>2. \A q \in Requests \ {r} : request'[q] = request[q]
    BY <1>0, <1>4, RunsOn
  <2>3. Continue(r, "save") \/ Continue(r, "undoTransition") => request'[r].n = request[r].n
    <3>1. request[r] # Idle
      BY <1>4, StepStarts
    <3>. QED
      BY <1>0, <3>1 DEF Continue, Activation, Busy, Uploading, Washing, Retiring, Sorting, Deleting
  <2>4. CASE t \notin log
    <3>1. Continue(r, "save") /\ log' = Logged(r)
      BY <1>0, <1>4, <2>4, LaundryCourse
    <3>. QED  BY <2>3, <2>4, <3>1, <1>4 DEF Logged
  <2>5. CASE t \in log
    <3>1. t.n \in applied \/ \E q \in Requests : request[q].n = t.n
      BY <2>1, <2>5 DEF TransitionsTookEffect
    <3>2. CASE t.n \in applied
      BY <1>0, <1>4, <3>2, LaundryCourse
    <3>3. CASE \E q \in Requests \ {r} : request[q].n = t.n
      BY <2>2, <3>3
    <3>4. CASE request[r].n = t.n
      <4>1. request[r].n # 0
        BY <1>0, <2>5, <3>4
      <4>2. LogTransition(r) => \A s \in log : s.n # request[r].n
        BY DEF LogTransition, LogGoesFirst
      <4>. QED  BY <1>0, <1>4, <2>1, <2>3, <2>5, <3>4, <4>1, <4>2, LaundryCourse
    <3>. QED  BY <3>1, <3>2, <3>3, <3>4
  <2>. QED  BY <2>4, <2>5
<1>. QED  BY <1>1, <1>2, <1>3, <1>4 DEF Next, TransitionsTookEffect

\* Every step keeps the log and the rows telling one story.
LEMMA LogInvKept == ~Ambiguous /\ LogInv /\ [Next]_vars => LogInv'
<1> SUFFICES ASSUME ~Ambiguous, LogInv, [Next]_vars PROVE LogInv'
  OBVIOUS
<1>1. IdInv'
  BY TypedKept, UsedFirstKept, AloneKept DEF LogInv, IdInv
<1>. QED
  BY <1>1, StampsApartKept, LogGoesFirstKept, ExplainedKept, TookEffectKept DEF LogInv

\* The laundry log and the rows tell one story, however many changes of one
\* item are in flight, whichever calls fail and wherever the process dies: an
\* item in the laundry has a transition that put it there, and a transition is
\* saved or still its request's to undo (routes/items.ts, PATCH laundry), if a
\* write that rejects was not applied.
THEOREM LogStaysTrue == ~Ambiguous /\ Spec => []LogIsTrue
<1>1. Init => LogInv
  BY TypedAtStart
  DEF Init, LogInv, IdInv, UsedFirst, Alone, Storing, Idle, Absent, StampsApart, LogGoesFirst,
      ExplainedForGood, TransitionsTookEffect
<1>2. LogInv => LogIsTrue
  BY DEF LogInv, LogIsTrue, StatusExplained, ExplainedForGood
<1>3. ~Ambiguous => [](~Ambiguous)
  OBVIOUS
<1>. QED  BY <1>1, <1>2, <1>3, LogInvKept, PTL DEF Spec
=============================================================================
