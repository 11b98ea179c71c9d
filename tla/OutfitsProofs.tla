--------------------------- MODULE OutfitsProofs ----------------------------
(***************************************************************************)
(* What holds of Outfits for any users, garments, outfits and requests:    *)
(* its types, whose garments an outfit and what is taken from it name,     *)
(* that copies are true and stay so, that patches keep apart, and that the *)
(* wear counters say what the log says.                                    *)
(***************************************************************************)
EXTENDS Outfits, FiniteSetTheorems, TLAPS

(***************************************************************************)
(* Typing.                                                                 *)
(***************************************************************************)
Fields == [handler : Handlers, at : Calls, user : Users, outfit : OutfitIds \cup {None},
           asked : SUBSET Items, name : Names \cup {None, "keep"}, doc : Outfit, stale : BOOLEAN,
           day : Days, record : RecordIds \cup {None}, left : SUBSET Items]

\* Which calls a handler makes, and with which operands.
CallsFit(a) ==
  \/ /\ a.handler = "create" /\ a.at \in {"resolve", "insert"}
     /\ a.asked # {} /\ a.name \in Names \cup {None}
  \/ /\ a.handler = "patch" /\ a.at \in {"load", "resolve", "save"} /\ a.outfit \in OutfitIds
     /\ a.at = "resolve" => a.asked # {}
  \/ a.handler = "delete" /\ a.at = "remove" /\ a.outfit \in OutfitIds
  \/ /\ a.handler \in Kinds /\ a.at \in {"load", "record"} /\ a.outfit \in OutfitIds
     /\ a.at = "record" => a.doc.live
  \/ a.handler = "wear" /\ a.at = "fanOut" /\ a.outfit \in OutfitIds /\ a.record \in RecordIds
  \/ a.handler \in {"unplan", "unpost"} /\ a.at = "remove"

Busy == {a \in Fields : CallsFit(a)}
Activation == {Idle} \cup Busy

Typed == TypeOK /\ request \in [Requests -> Activation]

StepOf(r) == Arrival(r) \/ Step(r) \/ Fail(r)

\* The documents the collection holds, and what tells one from a gap.
Document == [live : {TRUE}, userId : Users, itemIds : Composition, name : Names \cup {None}]

\* A live outfit is a document of the collection, and every document is live.
LEMMA LiveOutfits ==
  /\ \A d \in Outfit : d.live => d \in Document
  /\ \A d \in Outfit : d.itemIds \subseteq Items
  /\ \A d \in Document : d \in Outfit /\ d.live
  /\ NoOutfit \in Outfit /\ ~NoOutfit.live
<1>1. ~NoOutfit.live /\ NoOutfit.itemIds = {} /\ Outfit = {NoOutfit} \cup Document
  BY DEF NoOutfit, Outfit, Document
<1>2. \A d \in Document : d.live /\ d.itemIds \subseteq Items
  BY DEF Document, Composition
<1>3. NoOutfit \in Outfit /\ \A d \in Document : d \in Outfit
  BY <1>1, Zenon
<1>4. ASSUME NEW d \in Outfit, d # NoOutfit PROVE d \in Document
  BY <1>1, <1>4, Zenon
<1>5. ASSUME NEW d \in Outfit, d.live PROVE d # NoOutfit
  BY <1>1, <1>5, Zenon
<1>6. ASSUME NEW d \in Outfit PROVE d.itemIds \subseteq Items
  BY <1>1, <1>2, <1>4
<1>. QED  BY <1>1, <1>2, <1>3, <1>4, <1>5, <1>6, Zenon

\* Which handler makes a call.
LEMMA CallsOfHandlers ==
  ASSUME Typed, NEW r \in Requests
  PROVE  /\ request[r].at \in Calls => request[r] \in Busy
         /\ request[r].at = "insert" =>
              request[r].handler = "create" /\ request[r].asked # {} /\ request[r].name \in Names \cup {None}
         /\ request[r].at = "resolve" => request[r].handler \in {"create", "patch"} /\ request[r].asked # {}
         /\ request[r].at = "save" => request[r].handler = "patch" /\ request[r].outfit \in OutfitIds
         /\ request[r].at = "load" => request[r].outfit \in OutfitIds
         /\ request[r].at = "record" =>
              request[r].handler \in Kinds /\ request[r].doc.live /\ request[r].outfit \in OutfitIds
         /\ request[r].at = "fanOut" => request[r].handler = "wear" /\ request[r].record \in RecordIds
<1>1. request[r] \in Activation /\ Idle.at = "idle"
  BY DEF Typed, Idle
<1>2. CASE request[r] = Idle
  BY <1>1, <1>2 DEF Calls
<1>3. CASE request[r] \in Busy
  BY <1>3 DEF Busy, CallsFit, Kinds
<1>. QED  BY <1>1, <1>2, <1>3 DEF Activation

\* An activation that loads a document, one that starts to count, and an item
\* row that is counted.
Loading(a, d, c) == [a EXCEPT !.doc = d, !.at = c]

\* What loading a document leaves of an activation.
LEMMA DocLoaded ==
  ASSUME NEW a \in Fields, NEW d \in Outfit, NEW c \in Calls, NEW b, b = Loading(a, d, c)
  PROVE  /\ b \in Fields /\ b.doc = d /\ b.at = c
         /\ b.handler = a.handler /\ b.user = a.user /\ b.outfit = a.outfit /\ b.asked = a.asked
         /\ b.name = a.name /\ b.day = a.day /\ b.record = a.record /\ b.left = a.left
<1>1. DOMAIN a = {"handler", "at", "user", "outfit", "asked", "name", "doc", "stale", "day", "record", "left"}
  BY DEF Fields
<1>2. b \in Fields
  BY DEF Fields, Loading
<1>3. /\ b.doc = d /\ b.at = c /\ b.handler = a.handler /\ b.user = a.user /\ b.outfit = a.outfit
      /\ b.asked = a.asked /\ b.name = a.name /\ b.day = a.day /\ b.record = a.record /\ b.left = a.left
  BY <1>1 DEF Loading
<1>. QED  BY <1>2, <1>3

FanningOut(a, k, is) == [a EXCEPT !.at = "fanOut", !.record = k, !.left = is]

\* What starting a fan-out leaves of an activation.
LEMMA FanOutBegun ==
  ASSUME NEW a \in Fields, NEW k \in RecordIds, NEW is \in SUBSET Items, NEW b, b = FanningOut(a, k, is)
  PROVE  /\ b \in Fields /\ b.at = "fanOut" /\ b.record = k /\ b.left = is
         /\ b.handler = a.handler /\ b.user = a.user /\ b.outfit = a.outfit /\ b.asked = a.asked
         /\ b.name = a.name /\ b.day = a.day /\ b.doc = a.doc
<1>1. DOMAIN a = {"handler", "at", "user", "outfit", "asked", "name", "doc", "stale", "day", "record", "left"}
  BY DEF Fields
<1>2. "fanOut" \in Calls /\ k \in RecordIds \cup {None}
  BY DEF Calls
<1>3. b \in Fields
  BY <1>2 DEF Fields, FanningOut
<1>4. /\ b.at = "fanOut" /\ b.record = k /\ b.left = is /\ b.handler = a.handler /\ b.user = a.user
      /\ b.outfit = a.outfit /\ b.asked = a.asked /\ b.name = a.name /\ b.day = a.day /\ b.doc = a.doc
  BY <1>1 DEF FanningOut
<1>. QED  BY <1>3, <1>4

Counting(a, d) == [a EXCEPT !.wearCount = a.wearCount + 1,
                            !.lastWornAt = IF d > a.lastWornAt THEN d ELSE a.lastWornAt]

\* What counting a wear leaves of an item row.
LEMMA ItemCounted ==
  ASSUME NEW a \in Item, NEW d \in Days, NEW b, b = Counting(a, d)
  PROVE  /\ b \in Item /\ b.live = a.live /\ b.wearCount = a.wearCount + 1
         /\ b.lastWornAt = IF d > a.lastWornAt THEN d ELSE a.lastWornAt
<1>1. DOMAIN a = {"live", "retired", "wearCount", "lastWornAt"}
  BY DEF Item
<1>2. /\ b.live = a.live /\ b.wearCount = a.wearCount + 1
      /\ b.lastWornAt = IF d > a.lastWornAt THEN d ELSE a.lastWornAt
  BY <1>1 DEF Counting
<1>3. a.wearCount + 1 \in Nat /\ (IF d > a.lastWornAt THEN d ELSE a.lastWornAt) \in Days \cup {NoDay}
  BY DEF Item
<1>4. b \in Item
  BY <1>3 DEF Item, Counting
<1>. QED  BY <1>2, <1>4

\* A handler under way answers, or goes on with its own user and outfit.
LEMMA RunsOn ==
  ASSUME Typed, NEW r \in Requests, Step(r) \/ Fail(r)
  PROVE  \/ request'[r] = Idle
         \/ /\ request[r] \in Busy
            /\ request'[r].handler = request[r].handler /\ request'[r].user = request[r].user
            /\ request'[r].outfit = request[r].outfit /\ request'[r].day = request[r].day
            /\ request'[r].asked = request[r].asked /\ request'[r].name = request[r].name
            /\ \/ /\ Resolve(r) /\ Resolvable(r) /\ request'[r].doc = request[r].doc
                  /\ request'[r].at = IF request[r].handler = "create" THEN "insert" ELSE "save"
               \/ /\ LoadForPatch(r) /\ Owned(r) /\ request'[r].doc = outfits[request[r].outfit]
                  /\ request'[r].at = IF request[r].asked = {} THEN "save" ELSE "resolve"
               \/ /\ LoadToTake(r) /\ Owned(r) /\ request'[r].doc = outfits[request[r].outfit]
                  /\ request'[r].at = "record"
               \/ /\ TakeRecord(r) /\ request[r].handler = "wear" /\ request'[r].at = "fanOut"
                  /\ request'[r].doc = request[r].doc /\ request'[r].left = request[r].doc.itemIds
                  /\ request'[r].record \in RecordIds \ spent
                  /\ Copied(r, request'[r].record, request[r].doc.itemIds)
               \/ /\ CountWear(r) /\ request'[r].at = "fanOut" /\ request'[r].doc = request[r].doc
                  /\ request'[r].record = request[r].record
                  /\ request'[r].left \subseteq request[r].left
<1>0. request \in [Requests -> Activation] /\ Idle.at = "idle"
  BY DEF Typed, Idle
<1>1. CASE Answer(r)
  BY <1>0, <1>1 DEF Answer
<1>2. CASE ~Answer(r)
  <2>1. CASE Resolve(r)
    BY <1>0, <1>2, <2>1, CallsOfHandlers DEF Resolve, Continue, Busy, Fields, Calls
  <2>2. CASE LoadForPatch(r)
    <3>1. /\ Owned(r) /\ request[r] \in Busy
          /\ request' = [request EXCEPT
               ![r] = [request[r] EXCEPT !.doc = outfits[request[r].outfit],
                                         !.at = IF request[r].asked = {} THEN "save" ELSE "resolve"]]
      BY <1>2, <2>2, CallsOfHandlers DEF LoadForPatch, Calls
    <3>2. /\ request[r] \in Fields /\ outfits[request[r].outfit] \in Outfit
          /\ (IF request[r].asked = {} THEN "save" ELSE "resolve") \in Calls
      BY <2>2, <3>1, CallsOfHandlers DEF LoadForPatch, Busy, Typed, TypeOK, Calls
    <3>3. request'[r] = Loading(request[r], outfits[request[r].outfit],
                                IF request[r].asked = {} THEN "save" ELSE "resolve")
      BY <1>0, <3>1 DEF Loading
    <3>. QED  BY <2>2, <3>1, <3>2, <3>3, DocLoaded
  <2>3. CASE LoadToTake(r)
    <3>1. /\ Owned(r) /\ request[r] \in Busy
          /\ request' = [request EXCEPT
               ![r] = [request[r] EXCEPT !.doc = outfits[request[r].outfit], !.at = "record"]]
      BY <1>2, <2>3, CallsOfHandlers DEF LoadToTake, Calls
    <3>2. request[r] \in Fields /\ outfits[request[r].outfit] \in Outfit /\ "record" \in Calls
      BY <2>3, <3>1, CallsOfHandlers DEF LoadToTake, Busy, Typed, TypeOK, Calls
    <3>3. request'[r] = Loading(request[r], outfits[request[r].outfit], "record")
      BY <1>0, <3>1 DEF Loading
    <3>. QED  BY <2>3, <3>1, <3>2, <3>3, DocLoaded
  <2>4. CASE TakeRecord(r)
    <3>1. PICK id \in RecordIds \ spent :
             /\ Copied(r, id, request[r].doc.itemIds) /\ request[r].handler = "wear"
             /\ request' = [request EXCEPT ![r] = [request[r] EXCEPT !.at = "fanOut", !.record = id,
                                                                     !.left = request[r].doc.itemIds]]
      BY <1>2, <2>4 DEF TakeRecord
    <3>2. request[r] \in Busy /\ request[r] \in Fields /\ request[r].doc.itemIds \subseteq Items
      BY <2>4, CallsOfHandlers, LiveOutfits DEF TakeRecord, Calls, Busy, Fields
    <3>3. request'[r] = FanningOut(request[r], id, request[r].doc.itemIds)
      BY <1>0, <3>1 DEF FanningOut
    <3>. QED  BY <2>4, <3>1, <3>2, <3>3, FanOutBegun
  <2>5. CASE CountWear(r)
    <3>1. PICK i \in request[r].left : request' = [request EXCEPT ![r].left = request[r].left \ {i}]
      BY <1>2, <2>5 DEF CountWear
    <3>2. request[r] \in Busy /\ request[r].at = "fanOut"
      BY <2>5, CallsOfHandlers DEF CountWear, Calls
    <3>. QED  BY <1>0, <2>5, <3>1, <3>2 DEF Busy, Fields
  <2>6. CASE SaveOutfit(r)
    BY <1>0, <1>2, <2>6 DEF SaveOutfit, Outdated
  <2>7. ~InsertOutfit(r) /\ ~DeleteOutfit(r) /\ ~Retract(r) /\ ~Fail(r)
    BY <1>2 DEF InsertOutfit, DeleteOutfit, Retract, Fail
  <2>. QED  BY <2>1, <2>2, <2>3, <2>4, <2>5, <2>6, <2>7 DEF Step
<1>. QED  BY <1>1, <1>2

\* The other requests in flight stay where they are; one that holds an
\* outfit saved over is told its document is stale.
LEMMA OthersWait ==
  ASSUME Typed, NEW r \in Requests, StepOf(r), NEW q \in Requests \ {r}
  PROVE  \/ request'[q] = request[q]
         \/ /\ request[q] \in Busy /\ request'[q] \in Busy
            /\ request'[q].handler = request[q].handler /\ request'[q].at = request[q].at
            /\ request'[q].user = request[q].user /\ request'[q].outfit = request[q].outfit
            /\ request'[q].asked = request[q].asked /\ request'[q].doc = request[q].doc
            /\ request'[q].day = request[q].day /\ request'[q].record = request[q].record
            /\ request'[q].left = request[q].left
<1>0. request \in [Requests -> Activation]
  BY DEF Typed
<1>1. CASE SaveOutfit(r) /\ ~Answer(r)
  <2>1. request' = Outdated(r)
    BY <1>1 DEF SaveOutfit
  <2>2. CASE request'[q] = request[q]
    BY <2>2
  <2>3. CASE request'[q] # request[q]
    <3>1. request'[q] = [request[q] EXCEPT !.stale = TRUE] /\ request[q].at \in {"resolve", "save"}
      BY <2>1, <2>3 DEF Outdated
    <3>2. request[q] \in Busy
      BY <1>0, <3>1 DEF Activation, Idle
    <3>3. request'[q] \in Fields /\ CallsFit(request'[q])
      BY <3>1, <3>2 DEF Busy, Fields, CallsFit
    <3>. QED  BY <3>1, <3>2, <3>3 DEF Busy, Fields
  <2>. QED  BY <2>2, <2>3
<1>2. CASE Arrival(r)
  BY <1>0, <1>2 DEF Arrival, Arrive, ArriveCreate, ArrivePatch, ArriveDelete, ArriveTake, ArriveRetract
<1>3. CASE Resolve(r) \/ InsertOutfit(r) \/ LoadForPatch(r) \/ DeleteOutfit(r) \/ LoadToTake(r)
  BY <1>0, <1>3 DEF Resolve, InsertOutfit, LoadForPatch, DeleteOutfit, LoadToTake, Answer, Continue
<1>4. CASE TakeRecord(r) \/ CountWear(r) \/ Retract(r) \/ Fail(r)
  BY <1>0, <1>4 DEF TakeRecord, CountWear, Retract, Fail, Answer
<1>5. CASE Answer(r)
  BY <1>0, <1>5 DEF Answer
<1>. QED  BY <1>1, <1>2, <1>3, <1>4, <1>5 DEF StepOf, Step

\* What arrives is legal and at its handler's first call, about an outfit that
\* was once created.
LEMMA ArrivalTypes ==
  ASSUME Typed, NEW r \in Requests, Arrival(r)
  PROVE  /\ request[r] = Idle /\ UNCHANGED data
         /\ request'[r] \in Busy /\ request'[r].at \in {"resolve", "load", "remove"}
         /\ request'[r].outfit \in spent \/ request'[r].outfit = None
         /\ request'[r].at = "resolve" => request'[r].handler = "create"
<1>0. request \in [Requests -> Activation] /\ NoOutfit \in Outfit /\ 0 \in Days
  BY DEF Typed, Outfit, Days
<1>1. ASSUME NEW a, Arrive(r, a)
      PROVE  request[r] = Idle /\ UNCHANGED data /\ request'[r] = a /\ a.handler \in Handlers
  BY <1>0, <1>1 DEF Arrive
<1>2. CASE ArriveCreate(r)
  <2>1. PICK u \in Users, is \in Composition, n \in Names \cup {None} :
          Arrive(r, [Idle EXCEPT !.handler = "create", !.at = "resolve", !.user = u,
                                 !.asked = is, !.name = n])
    BY <1>2, Zenon DEF ArriveCreate
  <2> DEFINE a == [Idle EXCEPT !.handler = "create", !.at = "resolve", !.user = u,
                               !.asked = is, !.name = n]
  <2>2. a.handler \in Handlers
    BY <1>1, <2>1
  <2>3. a \in Busy /\ a.at = "resolve" /\ a.outfit = None /\ a.handler = "create"
    BY <1>0, <2>1, <2>2 DEF Idle, Busy, Fields, CallsFit, Calls, Composition
  <2>. QED  BY <1>1, <2>1, <2>3
<1>3. CASE ArrivePatch(r)
  <2>1. PICK u \in Users, o \in Created, is \in Composition \cup {{}}, n \in Names \cup {None, "keep"} :
          Arrive(r, [Idle EXCEPT !.handler = "patch", !.at = "load", !.user = u,
                                 !.outfit = o, !.asked = is, !.name = n])
    BY <1>3, Zenon DEF ArrivePatch
  <2> DEFINE a == [Idle EXCEPT !.handler = "patch", !.at = "load", !.user = u,
                               !.outfit = o, !.asked = is, !.name = n]
  <2>2. a.handler \in Handlers
    BY <1>1, <2>1
  <2>3. a \in Busy /\ a.at = "load" /\ a.outfit \in spent
    BY <1>0, <2>1, <2>2 DEF Idle, Busy, Fields, CallsFit, Calls, Composition, Created
  <2>. QED  BY <1>1, <2>1, <2>3
<1>4. CASE ArriveDelete(r)
  <2>1. PICK u \in Users, o \in Created :
          Arrive(r, [Idle EXCEPT !.handler = "delete", !.at = "remove", !.user = u, !.outfit = o])
    BY <1>4, Zenon DEF ArriveDelete
  <2> DEFINE a == [Idle EXCEPT !.handler = "delete", !.at = "remove", !.user = u, !.outfit = o]
  <2>2. a.handler \in Handlers
    BY <1>1, <2>1
  <2>3. a \in Busy /\ a.at = "remove" /\ a.outfit \in spent
    BY <1>0, <2>1, <2>2 DEF Idle, Busy, Fields, CallsFit, Calls, Created
  <2>. QED  BY <1>1, <2>1, <2>3
<1>5. CASE ArriveTake(r)
  <2>1. PICK u \in Users, o \in Created, k \in Kinds, d \in Days :
          Arrive(r, [Idle EXCEPT !.handler = k, !.at = "load", !.user = u, !.outfit = o, !.day = d])
    BY <1>5, Zenon DEF ArriveTake
  <2> DEFINE a == [Idle EXCEPT !.handler = k, !.at = "load", !.user = u, !.outfit = o, !.day = d]
  <2>2. a.handler \in Handlers
    BY <1>1, <2>1
  <2>3. a \in Busy /\ a.at = "load" /\ a.outfit \in spent
    BY <1>0, <2>1, <2>2 DEF Idle, Busy, Fields, CallsFit, Calls, Created
  <2>. QED  BY <1>1, <2>1, <2>3
<1>6. CASE ArriveRetract(r)
  <2>1. PICK u \in Users, id \in RecordIds \cap spent, h \in {"unplan", "unpost"} :
          Arrive(r, [Idle EXCEPT !.handler = h, !.at = "remove", !.user = u, !.record = id])
    BY <1>6, Zenon DEF ArriveRetract
  <2> DEFINE a == [Idle EXCEPT !.handler = h, !.at = "remove", !.user = u, !.record = id]
  <2>2. a.handler \in Handlers
    BY <1>1, <2>1
  <2>3. a \in Busy /\ a.at = "remove" /\ a.outfit = None
    BY <1>0, <2>1, <2>2 DEF Idle, Busy, Fields, CallsFit, Calls
  <2>. QED  BY <1>1, <2>1, <2>3
<1>. QED  BY <1>2, <1>3, <1>4, <1>5, <1>6 DEF Arrival

\* Who writes what.
LEMMA Writers ==
  ASSUME NEW r \in Requests, Step(r) \/ Fail(r)
  PROVE  /\ outfits' = outfits \/ InsertOutfit(r) \/ SaveOutfit(r) \/ DeleteOutfit(r)
         /\ taken' = taken \/ TakeRecord(r) \/ Retract(r)
         /\ <<items, counted>>' = <<items, counted>> \/ CountWear(r)
         /\ spent' = spent \/ InsertOutfit(r) \/ TakeRecord(r)
         /\ held' = held \/ InsertOutfit(r) \/ SaveOutfit(r)
         /\ losses' = losses \/ Fail(r)
<1>1. CASE Resolve(r) \/ LoadForPatch(r) \/ LoadToTake(r) \/ DeleteOutfit(r)
  BY <1>1 DEF Resolve, LoadForPatch, LoadToTake, DeleteOutfit, data
<1>2. CASE InsertOutfit(r) \/ SaveOutfit(r) \/ Fail(r)
  BY <1>2 DEF InsertOutfit, SaveOutfit, Fail
<1>3. CASE TakeRecord(r) \/ CountWear(r) \/ Retract(r)
  BY <1>3 DEF TakeRecord, CountWear, Retract
<1>. QED  BY <1>1, <1>2, <1>3 DEF Step

\* An outfit is inserted under a new id, with what was resolved.
LEMMA InsertWrites ==
  ASSUME Typed, NEW r \in Requests, InsertOutfit(r)
  PROVE  \E o \in OutfitIds \ spent, new \in Outfit :
           /\ new.live /\ new.userId = request[r].user /\ new.itemIds = request[r].asked
           /\ new.itemIds \in Composition
           /\ outfits' = [outfits EXCEPT ![o] = new]
           /\ held' = held \cup {<<o, new.itemIds>>} /\ spent' = spent \cup {o}
<1>1. PICK o \in OutfitIds \ spent :
        /\ outfits' = [outfits EXCEPT ![o] =
             [live |-> TRUE, userId |-> request[r].user, itemIds |-> request[r].asked,
              name |-> request[r].name]]
        /\ spent' = spent \cup {o} /\ held' = held \cup {<<o, request[r].asked>>}
  BY DEF InsertOutfit
<1>2. /\ request[r].user \in Users /\ request[r].asked \in Composition
      /\ request[r].name \in Names \cup {None}
  BY CallsOfHandlers DEF InsertOutfit, Calls, Busy, Fields, Composition
<1> DEFINE new == [live |-> TRUE, userId |-> request[r].user, itemIds |-> request[r].asked,
                   name |-> request[r].name]
<1>3. new \in Document
  BY <1>2 DEF Document
<1>4. new.userId = request[r].user /\ new.itemIds = request[r].asked
  OBVIOUS
<1>5. new \in Outfit /\ new.live
  BY <1>3, LiveOutfits, Zenon
<1>6. outfits' = [outfits EXCEPT ![o] = new]
  BY <1>1
<1> HIDE DEF new
<1>. QED  BY <1>1, <1>2, <1>4, <1>5, <1>6

\* A patch keeps the owner, and writes the fields that it carries and changes.
LEMMA SaveWrites ==
  ASSUME Typed, NEW r \in Requests, SaveOutfit(r)
  PROVE  \/ outfits' = outfits /\ held' = held
         \/ \E new \in Outfit :
              LET o == request[r].outfit IN
              /\ o \in OutfitIds /\ outfits[o].live
              /\ new.live /\ new.userId = outfits[o].userId /\ new.itemIds \in Composition
              /\ new.itemIds = outfits[o].itemIds \/ (new.itemIds = request[r].asked /\ Recomposes(r))
              /\ new.name = outfits[o].name \/ new.name = request[r].name
              /\ outfits' = [outfits EXCEPT ![o] = new]
              /\ held' = held \cup {<<o, new.itemIds>>}
<1>1. request[r].outfit \in OutfitIds /\ request[r] \in Fields
  BY CallsOfHandlers DEF SaveOutfit, Calls, Busy
<1>2. CASE outfits' = outfits /\ held' = held
  BY <1>2
<1>3. CASE /\ outfits[request[r].outfit].live
           /\ outfits' = [outfits EXCEPT ![request[r].outfit] = Patched(r)]
           /\ held' = held \cup {<<request[r].outfit, Patched(r).itemIds>>}
  <2>1. outfits[request[r].outfit] \in Document
    <3>1. outfits[request[r].outfit] \in Outfit
      BY <1>1 DEF Typed, TypeOK
    <3>. QED  BY <1>3, <3>1, LiveOutfits, Zenon
  <2>2. Recomposes(r) => request[r].asked \in Composition
    BY <1>1 DEF Recomposes, Fields, Composition
  <2>3. Renames(r) => request[r].name \in Names \cup {None}
    BY <1>1 DEF Renames, Fields
  <2>4. /\ Patched(r) \in Document
        /\ Patched(r).userId = outfits[request[r].outfit].userId
        /\ \/ Patched(r).itemIds = outfits[request[r].outfit].itemIds
           \/ Patched(r).itemIds = request[r].asked /\ Recomposes(r)
        /\ \/ Patched(r).name = outfits[request[r].outfit].name
           \/ Patched(r).name = request[r].name
    BY <2>1, <2>2, <2>3 DEF Patched, Document
  <2>5. Patched(r) \in Outfit /\ Patched(r).live /\ Patched(r).itemIds \in Composition
    BY <2>4, LiveOutfits DEF Document
  <2>. QED  BY <1>1, <1>3, <2>4, <2>5
<1>. QED  BY <1>2, <1>3 DEF SaveOutfit

\* Every step keeps the types.
LEMMA TypedKept == Typed /\ [Next]_vars => Typed'
<1> SUFFICES ASSUME Typed, [Next]_vars PROVE Typed'
  OBVIOUS
<1>0. /\ items \in [Items -> Item] /\ outfits \in [OutfitIds -> Outfit] /\ taken \subseteq Record
      /\ spent \subseteq OutfitIds \cup RecordIds /\ losses \in 0..MaxLosses
      /\ held \subseteq OutfitIds \X Composition /\ counted \subseteq RecordIds \X Items
      /\ request \in [Requests -> Activation]
  BY DEF Typed, TypeOK
<1>1. ASSUME /\ items' \in [Items -> Item] /\ outfits' \in [OutfitIds -> Outfit] /\ taken' \subseteq Record
             /\ spent' \subseteq OutfitIds \cup RecordIds /\ losses' \in 0..MaxLosses
             /\ held' \subseteq OutfitIds \X Composition /\ counted' \subseteq RecordIds \X Items,
             request' \in [Requests -> Activation]
      PROVE  Typed'
  <2>1. \A r \in Requests : request'[r] # Idle => request'[r] \in Fields /\ request'[r].at \in Calls
    BY <1>1 DEF Activation, Busy, Fields
  <2>. QED  BY <1>1, <2>1 DEF Typed, TypeOK, Fields
<1>2. ASSUME NEW r \in Requests, StepOf(r) PROVE request' \in [Requests -> Activation]
  <2>1. DOMAIN request' = Requests /\ request' = [q \in Requests |-> request'[q]]
    <3>1. CASE Arrival(r)
      BY <1>0, <3>1 DEF Arrival, Arrive, ArriveCreate, ArrivePatch, ArriveDelete, ArriveTake, ArriveRetract
    <3>2. CASE Resolve(r) \/ InsertOutfit(r) \/ LoadForPatch(r) \/ DeleteOutfit(r) \/ LoadToTake(r)
      BY <1>0, <3>2 DEF Resolve, InsertOutfit, LoadForPatch, DeleteOutfit, LoadToTake, Answer, Continue
    <3>3. CASE TakeRecord(r) \/ CountWear(r) \/ Retract(r) \/ Fail(r)
      BY <1>0, <3>3 DEF TakeRecord, CountWear, Retract, Fail, Answer
    <3>4. CASE SaveOutfit(r)
      BY <1>0, <3>4 DEF SaveOutfit, Outdated, Answer
    <3>. QED  BY <1>2, <3>1, <3>2, <3>3, <3>4 DEF StepOf, Step
  <2>2. request'[r] \in Activation
    <3>1. CASE Arrival(r)
      BY <3>1, ArrivalTypes DEF Activation
    <3>2. CASE (Step(r) \/ Fail(r)) /\ request'[r] # Idle
      <4>1. CASE Resolve(r)
        BY <1>0, <3>2, <4>1, CallsOfHandlers
        DEF Resolve, Answer, Continue, Activation, Busy, Fields, CallsFit, Calls, Kinds
      <4>2. CASE LoadForPatch(r)
        <5>1. /\ request[r] \in Fields /\ request[r].handler = "patch" /\ request[r].outfit \in OutfitIds
              /\ outfits[request[r].outfit] \in Outfit
              /\ (IF request[r].asked = {} THEN "save" ELSE "resolve") \in Calls
          BY <1>0, <4>2, CallsOfHandlers DEF LoadForPatch, Busy, Calls
        <5>2. request'[r] = Loading(request[r], outfits[request[r].outfit],
                                    IF request[r].asked = {} THEN "save" ELSE "resolve")
          BY <1>0, <3>2, <4>2 DEF LoadForPatch, Answer, Loading
        <5>3. /\ request'[r] \in Fields /\ request'[r].handler = "patch" /\ request'[r].outfit \in OutfitIds
              /\ request'[r].at = IF request'[r].asked = {} THEN "save" ELSE "resolve"
          BY <5>1, <5>2, DocLoaded
        <5>. QED  BY <5>3 DEF Activation, Busy, CallsFit
      <4>3. CASE LoadToTake(r)
        <5>1. /\ request[r] \in Fields /\ request[r].handler \in Kinds /\ request[r].outfit \in OutfitIds
              /\ outfits[request[r].outfit] \in Outfit /\ "record" \in Calls
          BY <1>0, <4>3, CallsOfHandlers DEF LoadToTake, Busy, Calls
        <5>2. /\ request'[r] = Loading(request[r], outfits[request[r].outfit], "record")
              /\ outfits[request[r].outfit].live
          BY <1>0, <3>2, <4>3 DEF LoadToTake, Answer, Owned, Loading
        <5>3. /\ request'[r] \in Fields /\ request'[r].handler \in Kinds /\ request'[r].outfit \in OutfitIds
              /\ request'[r].at = "record" /\ request'[r].doc.live
          BY <5>1, <5>2, DocLoaded
        <5>. QED  BY <5>3 DEF Activation, Busy, CallsFit
      <4>4. CASE TakeRecord(r)
        <5>1. PICK id \in RecordIds \ spent :
                /\ request[r].handler = "wear"
                /\ request' = [request EXCEPT ![r] = [request[r] EXCEPT !.at = "fanOut", !.record = id,
                                                                        !.left = request[r].doc.itemIds]]
          BY <1>0, <3>2, <4>4 DEF TakeRecord, Answer
        <5>2. request[r] \in Fields /\ request[r].outfit \in OutfitIds /\ request[r].doc.live
          BY <4>4, CallsOfHandlers DEF TakeRecord, Calls, Busy
        <5>3. request[r].doc.itemIds \subseteq Items
          BY <5>2, LiveOutfits DEF Fields
        <5>4. request'[r] = FanningOut(request[r], id, request[r].doc.itemIds)
          BY <1>0, <5>1 DEF FanningOut
        <5>5. /\ request'[r] \in Fields /\ request'[r].handler = "wear" /\ request'[r].at = "fanOut"
              /\ request'[r].outfit \in OutfitIds /\ request'[r].record \in RecordIds
          BY <5>1, <5>2, <5>3, <5>4, FanOutBegun
        <5>. QED  BY <5>5 DEF Activation, Busy, CallsFit
      <4>5. CASE CountWear(r)
        BY <1>0, <3>2, <4>5, CallsOfHandlers
        DEF CountWear, Answer, Activation, Busy, Fields, CallsFit, Calls, Kinds
      <4>. QED  BY <3>2, <4>1, <4>2, <4>3, <4>4, <4>5, RunsOn
    <3>. QED  BY <1>2, <3>1, <3>2 DEF StepOf, Activation
  <2>3. ASSUME NEW q \in Requests \ {r} PROVE request'[q] \in Activation
    BY <1>0, <1>2, <2>3, OthersWait DEF Activation
  <2>. QED  BY <2>1, <2>2, <2>3
<1>3. CASE UNCHANGED vars
  BY <1>3 DEF vars, Typed, TypeOK
<1>4. ASSUME NEW r \in Requests, Arrival(r) PROVE Typed'
  <2>1. UNCHANGED data /\ request' \in [Requests -> Activation]
    BY <1>2, <1>4, ArrivalTypes DEF StepOf
  <2>. QED  BY <1>0, <1>1, <2>1 DEF data
<1>5. ASSUME NEW r \in Requests, Step(r) \/ Fail(r) PROVE Typed'
  <2>1. request' \in [Requests -> Activation]
    BY <1>2, <1>5 DEF StepOf
  <2>2. outfits' \in [OutfitIds -> Outfit] /\ held' \subseteq OutfitIds \X Composition
    <3>1. CASE InsertOutfit(r)
      BY <1>0, <3>1, InsertWrites
    <3>2. CASE SaveOutfit(r)
      BY <1>0, <3>2, SaveWrites
    <3>3. CASE DeleteOutfit(r)
      <4>1. NoOutfit \in Outfit
        BY DEF Outfit
      <4>. QED  BY <1>0, <3>3, <4>1 DEF DeleteOutfit
    <3>. QED  BY <1>0, <1>5, <3>1, <3>2, <3>3, Writers
  <2>3. taken' \subseteq Record /\ spent' \subseteq OutfitIds \cup RecordIds
    <3>1. CASE TakeRecord(r)
      <4>1. request[r] \in Fields /\ request[r].outfit \in OutfitIds /\ request[r].doc.live
            /\ request[r].handler \in Kinds
        BY <3>1, CallsOfHandlers DEF TakeRecord, Calls, Busy
      <4>2. request[r].doc.itemIds \in Composition
        BY <4>1, LiveOutfits DEF Fields, Document
      <4>. QED  BY <1>0, <3>1, <4>1, <4>2 DEF TakeRecord, Copied, Record, Fields
    <3>2. CASE Retract(r)
      BY <1>0, <3>2 DEF Retract
    <3>3. CASE InsertOutfit(r)
      BY <1>0, <3>3 DEF InsertOutfit
    <3>. QED  BY <1>0, <1>5, <3>1, <3>2, <3>3, Writers
  <2>4. items' \in [Items -> Item] /\ counted' \subseteq RecordIds \X Items
    <3>1. CASE CountWear(r)
      <4>1. request[r] \in Fields /\ request[r].record \in RecordIds
        BY <3>1, CallsOfHandlers DEF CountWear, Calls, Busy
      <4>2. request[r].day \in Days /\ request[r].left \subseteq Items
        BY <4>1 DEF Fields
      <4>3. PICK i \in request[r].left :
              \/ UNCHANGED <<items, counted>>
              \/ /\ items' = [items EXCEPT
                      ![i] = [items[i] EXCEPT
                                !.wearCount = items[i].wearCount + 1,
                                !.lastWornAt = IF request[r].day > items[i].lastWornAt
                                                 THEN request[r].day ELSE items[i].lastWornAt]]
                 /\ counted' = counted \cup {<<request[r].record, i>>}
        BY <3>1 DEF CountWear
      <4>4. i \in Items /\ items[i] \in Item
        BY <1>0, <4>2
      <4>5. Counting(items[i], request[r].day) \in Item
        BY <4>2, <4>4, ItemCounted
      <4>. QED  BY <1>0, <4>1, <4>3, <4>4, <4>5 DEF Counting
    <3>. QED  BY <1>0, <1>5, <3>1, Writers
  <2>5. losses' \in 0..MaxLosses
    BY <1>0, <1>5, Writers, LossesAssumption DEF Fail
  <2>. QED  BY <1>1, <2>1, <2>2, <2>3, <2>4, <2>5
<1>6. ASSUME NEW i \in Items, RetireItem(i) \/ DeleteItem(i) PROVE Typed'
  <2>1. CASE DeleteItem(i)
    <3>1. [Fresh EXCEPT !.live = FALSE] \in Item
      BY DEF Fresh, Item, NoDay
    <3>2. items' \in [Items -> Item]
      BY <1>0, <2>1, <3>1 DEF DeleteItem
    <3>. QED  BY <1>0, <1>1, <2>1, <3>2 DEF DeleteItem
  <2>2. CASE RetireItem(i)
    <3>1. PICK b \in BOOLEAN : items' = [items EXCEPT ![i].retired = b]
      BY <2>2, Zenon DEF RetireItem
    <3>2. [items[i] EXCEPT !.retired = b] \in Item
      BY <1>0 DEF Item
    <3>3. items' \in [Items -> Item]
      BY <1>0, <3>1, <3>2
    <3>. QED  BY <1>0, <1>1, <2>2, <3>3 DEF RetireItem
  <2>. QED  BY <1>6, <2>1, <2>2
<1>. QED  BY <1>3, <1>4, <1>5, <1>6 DEF Next

\* The collections start empty.
LEMMA TypedAtStart == Init => Typed
BY LossesAssumption DEF Init, Typed, TypeOK, Activation, Item, Fresh, Outfit, NoDay

\* Every value any step, at any time, gives a variable has its type.
THEOREM TypeCorrect == Spec => []TypeOK
<1>1. Spec => []Typed
  BY TypedAtStart, TypedKept, PTL DEF Spec
<1>2. Typed => TypeOK
  BY DEF Typed
<1>. QED  BY <1>1, <1>2, PTL

----------------------------------------------------------------------------
(***************************************************************************)
(* Ids are spent before anything is known by them, so what is inserted     *)
(* meets nothing.                                                          *)
(***************************************************************************)
SpentFirst ==
  /\ \A o \in OutfitIds : outfits[o].live => o \in spent
  /\ \A r \in Requests : request[r].outfit \in spent \cup {None}
  /\ \A t \in taken : t.id \in spent
  /\ \A c \in counted : c[1] \in spent
  /\ \A r \in Requests : request[r].at = "fanOut" => request[r].record \in spent

\* No two rows share an id.
IdsApart == \A t \in taken : \A t2 \in taken : t.id = t2.id => t = t2

IdsInv == Typed /\ SpentFirst /\ IdsApart

\* What a step may do to an outfit.
Kept(o) == outfits'[o] = outfits[o]
Dropped(o) == outfits'[o] = NoOutfit
Inserted(r, o) ==
  /\ InsertOutfit(r) /\ o \in OutfitIds \ spent /\ o \in spent' /\ <<o, outfits'[o].itemIds>> \in held'
  /\ outfits'[o].live /\ outfits'[o].userId = request[r].user /\ outfits'[o].itemIds = request[r].asked
Edited(r, o) ==
  /\ SaveOutfit(r) /\ request[r].outfit = o /\ request[r].at = "save"
  /\ <<o, outfits'[o].itemIds>> \in held'
  /\ outfits[o].live /\ outfits'[o].live /\ outfits'[o].userId = outfits[o].userId
  /\ outfits'[o].itemIds = outfits[o].itemIds \/ outfits'[o].itemIds = request[r].asked
  /\ outfits'[o].name = outfits[o].name \/ outfits'[o].name = request[r].name

\* Every outfit is kept, dropped, inserted or edited by a handler's step.
LEMMA OutfitMoves ==
  ASSUME Typed, NEW r \in Requests, Step(r) \/ Fail(r), NEW o \in OutfitIds
  PROVE  Kept(o) \/ Dropped(o) \/ Inserted(r, o) \/ Edited(r, o)
<1>0. outfits \in [OutfitIds -> Outfit]
  BY DEF Typed, TypeOK
<1>1. CASE InsertOutfit(r)
  BY <1>0, <1>1, InsertWrites DEF Kept, Inserted
<1>2. CASE SaveOutfit(r)
  <2>1. CASE outfits' = outfits
    BY <2>1 DEF Kept
  <2>2. CASE outfits' # outfits
    <3>1. PICK new \in Outfit :
            /\ request[r].outfit \in OutfitIds /\ outfits[request[r].outfit].live
            /\ new.live /\ new.userId = outfits[request[r].outfit].userId
            /\ new.itemIds = outfits[request[r].outfit].itemIds \/ new.itemIds = request[r].asked
            /\ new.name = outfits[request[r].outfit].name \/ new.name = request[r].name
            /\ outfits' = [outfits EXCEPT ![request[r].outfit] = new]
            /\ held' = held \cup {<<request[r].outfit, new.itemIds>>}
      BY <1>2, <2>2, SaveWrites
    <3>2. CASE o = request[r].outfit
      BY <1>0, <1>2, <3>1, <3>2 DEF Edited, SaveOutfit
    <3>3. CASE o # request[r].outfit
      BY <1>0, <3>1, <3>3 DEF Kept
    <3>. QED  BY <3>2, <3>3
  <2>. QED  BY <2>1, <2>2
<1>3. CASE DeleteOutfit(r)
  BY <1>0, <1>3 DEF DeleteOutfit, Kept, Dropped
<1>4. CASE outfits' = outfits
  BY <1>4 DEF Kept
<1>. QED  BY <1>1, <1>2, <1>3, <1>4, Writers

\* Rows are added under new ids and taken away, nothing else.
LEMMA RowsMove ==
  ASSUME Typed, NEW r \in Requests, Step(r) \/ Fail(r)
  PROVE  \/ taken' \subseteq taken /\ \A t \in taken : t.kind = "wear" => t \in taken'
         \/ /\ TakeRecord(r) /\ request[r].at = "record"
            /\ \E t \in Record :
                 /\ taken' = taken \cup {t} /\ t.id \notin spent /\ spent' = spent \cup {t.id}
                 /\ t.kind = request[r].handler /\ t.userId = request[r].user
                 /\ t.outfitId = request[r].outfit /\ t.itemIds = request[r].doc.itemIds
                 /\ t.day = request[r].day
<1>1. CASE TakeRecord(r)
  <2>1. PICK id \in RecordIds \ spent : Copied(r, id, request[r].doc.itemIds)
    BY <1>1 DEF TakeRecord
  <2> DEFINE t == [id |-> id, kind |-> request[r].handler, userId |-> request[r].user,
                   outfitId |-> request[r].outfit, itemIds |-> request[r].doc.itemIds,
                   day |-> request[r].day]
  <2>2. /\ request[r].handler \in Kinds /\ request[r].user \in Users /\ request[r].outfit \in OutfitIds
        /\ request[r].day \in Days /\ request[r].doc.itemIds \in Composition
    BY <1>1, CallsOfHandlers, LiveOutfits DEF TakeRecord, Calls, Busy, Fields, Document
  <2>3. t \in Record
    BY <2>2 DEF Record
  <2>4. taken' = taken \cup {t} /\ spent' = spent \cup {id} /\ t.id = id
    BY <2>1 DEF Copied
  <2>. QED  BY <1>1, <2>3, <2>4 DEF TakeRecord
<1>2. CASE Retract(r)
  BY <1>2 DEF Retract
<1>3. CASE taken' = taken
  BY <1>3
<1>. QED  BY <1>1, <1>2, <1>3, Writers

\* Ids are never handed back.
LEMMA SpentGrows ==
  ASSUME Typed, NEW r \in Requests, Step(r) \/ Fail(r)
  PROVE  spent \subseteq spent' /\ held \subseteq held'
<1>1. CASE TakeRecord(r)
  BY <1>1 DEF TakeRecord, Copied
<1>2. CASE InsertOutfit(r)
  BY <1>2, InsertWrites
<1>3. CASE SaveOutfit(r)
  BY <1>3, SaveWrites DEF SaveOutfit
<1>. QED  BY <1>1, <1>2, <1>3, Writers

\* Every step keeps the ids spent and apart.
LEMMA IdsKept == IdsInv /\ Typed' /\ [Next]_vars => IdsInv'
<1> SUFFICES ASSUME IdsInv, Typed', [Next]_vars PROVE IdsInv'
  OBVIOUS
<1>0. Typed /\ SpentFirst /\ IdsApart /\ request \in [Requests -> Activation]
  BY DEF IdsInv, Typed
<1>1. CASE UNCHANGED vars
  BY <1>0, <1>1 DEF vars, IdsInv, SpentFirst, IdsApart
<1>2. ASSUME NEW i \in Items, RetireItem(i) \/ DeleteItem(i) PROVE IdsInv'
  BY <1>0, <1>2 DEF RetireItem, DeleteItem, IdsInv, SpentFirst, IdsApart
<1>3. ASSUME NEW r \in Requests, Arrival(r) PROVE IdsInv'
  <2>1. /\ request'[r].outfit \in spent \cup {None} /\ request'[r].at # "fanOut" /\ UNCHANGED data
    BY <1>0, <1>3, ArrivalTypes
  <2>2. ASSUME NEW q \in Requests \ {r}
        PROVE  /\ request'[q].outfit = request[q].outfit /\ request'[q].at = request[q].at
               /\ request'[q].record = request[q].record
    BY <1>0, <1>3, OthersWait DEF StepOf
  <2>. QED  BY <1>0, <2>1, <2>2 DEF data, IdsInv, SpentFirst, IdsApart
<1>4. ASSUME NEW r \in Requests, Step(r) \/ Fail(r) PROVE IdsInv'
  <2>0. spent \subseteq spent'
    BY <1>0, <1>4, SpentGrows
  <2>1. ASSUME NEW o \in OutfitIds, outfits'[o].live PROVE o \in spent'
    BY <1>0, <1>4, <2>0, <2>1, OutfitMoves, LiveOutfits
    DEF Kept, Dropped, Inserted, Edited, SpentFirst
  <2>2. ASSUME NEW q \in Requests
        PROVE  /\ request'[q].outfit \in spent' \cup {None}
               /\ request'[q].at = "fanOut" => request'[q].record \in spent'
    <3>1. CASE q # r
      <4>1. /\ request'[q].outfit = request[q].outfit /\ request'[q].at = request[q].at
            /\ request'[q].record = request[q].record
        BY <1>0, <1>4, <3>1, OthersWait DEF StepOf
      <4>. QED  BY <1>0, <2>0, <4>1 DEF SpentFirst
    <3>2. CASE q = r
      <4>1. CASE request'[r] = Idle
        BY <3>2, <4>1 DEF Idle
      <4>2. CASE request'[r] # Idle
        <5>1. request'[r].outfit = request[r].outfit
          BY <1>0, <1>4, <4>2, RunsOn
        <5>2. request'[r].at = "fanOut" => request'[r].record \in spent'
          <6>1. SUFFICES ASSUME request'[r].at = "fanOut" PROVE request'[r].record \in spent'
            OBVIOUS
          <6>2. CASE TakeRecord(r) /\ Copied(r, request'[r].record, request[r].doc.itemIds)
            BY <6>2 DEF Copied
          <6>3. CASE CountWear(r) /\ request'[r].record = request[r].record
            BY <1>0, <2>0, <6>3 DEF CountWear, SpentFirst
          <6>. QED  BY <1>0, <1>4, <4>2, <6>1, <6>2, <6>3, RunsOn
        <5>. QED  BY <1>0, <2>0, <3>2, <5>1, <5>2 DEF SpentFirst
      <4>. QED  BY <4>1, <4>2
    <3>. QED  BY <3>1, <3>2
  <2>3. (\A t \in taken' : t.id \in spent') /\ IdsApart'
    BY <1>0, <1>4, <2>0, RowsMove DEF SpentFirst, IdsApart
  <2>4. \A c \in counted' : c[1] \in spent'
    <3>1. CASE CountWear(r)
      <4>1. request[r].record \in spent
        BY <1>0, <3>1 DEF CountWear, SpentFirst
      <4>2. counted' = counted \/ \E i \in request[r].left : counted' = counted \cup {<<request[r].record, i>>}
        BY <3>1 DEF CountWear
      <4>. QED  BY <1>0, <2>0, <4>1, <4>2 DEF SpentFirst
    <3>2. CASE counted' = counted
      BY <1>0, <2>0, <3>2 DEF SpentFirst
    <3>. QED  BY <1>4, <3>1, <3>2, Writers
  <2>. QED  BY <2>1, <2>2, <2>3, <2>4 DEF IdsInv, SpentFirst
<1>. QED  BY <1>1, <1>2, <1>3, <1>4 DEF Next

\* Nothing has an id at the start.
LEMMA IdsAtStart == Init => IdsInv
BY TypedAtStart, LiveOutfits DEF Init, IdsInv, SpentFirst, IdsApart, Idle

----------------------------------------------------------------------------
(***************************************************************************)
(* Whose garments: a handler carries its caller's from the check that      *)
(* resolved them, or the outfit that held them, to the write.              *)
(***************************************************************************)
Own(u, is) == \A i \in is : Owner[i] = u

RequestOwns(r) ==
  /\ request[r].at \in {"insert", "save"} => Own(request[r].user, request[r].asked)
  /\ (request[r].handler = "patch" /\ request[r].at \in {"resolve", "save"}
        /\ outfits[request[r].outfit].live)
       => outfits[request[r].outfit].userId = request[r].user
  /\ request[r].at = "record" => Own(request[r].user, request[r].doc.itemIds)
  /\ request[r].at = "fanOut" => Own(request[r].user, request[r].left)

OwnInv == IdsInv /\ OwnGarmentsOnly /\ \A r \in Requests : RequestOwns(r)

\* A step leaves every outfit with its owner, or gone, or newly inserted.
LEMMA OwnerKept ==
  ASSUME IdsInv, NEW r \in Requests, Step(r) \/ Fail(r), NEW o \in OutfitIds \cap spent, outfits'[o].live
  PROVE  outfits[o].live /\ outfits'[o].userId = outfits[o].userId
BY OutfitMoves, LiveOutfits DEF IdsInv, Kept, Dropped, Inserted, Edited

\* Every step keeps garments with their owner.
LEMMA OwnKept == OwnInv /\ IdsInv' /\ [Next]_vars => OwnInv'
<1> SUFFICES ASSUME OwnInv, IdsInv', [Next]_vars PROVE OwnInv'
  OBVIOUS
<1>0. /\ Typed /\ IdsInv /\ OwnGarmentsOnly /\ \A r \in Requests : RequestOwns(r)
      /\ request \in [Requests -> Activation] /\ Typed'
  BY DEF OwnInv, IdsInv, Typed
<1>1. CASE UNCHANGED vars
  BY <1>0, <1>1 DEF vars, OwnInv, RequestOwns, OwnGarmentsOnly, Own
<1>2. ASSUME NEW i \in Items, RetireItem(i) \/ DeleteItem(i) PROVE OwnInv'
  BY <1>0, <1>2 DEF RetireItem, DeleteItem, OwnInv, RequestOwns, OwnGarmentsOnly, Own
<1>3. ASSUME NEW r \in Requests, Arrival(r) PROVE OwnInv'
  <2>1. UNCHANGED data /\ RequestOwns(r)'
    BY <1>0, <1>3, ArrivalTypes DEF RequestOwns
  <2>2. ASSUME NEW q \in Requests \ {r} PROVE RequestOwns(q)'
    BY <1>0, <1>3, <2>1, OthersWait DEF StepOf, RequestOwns, data, Own
  <2>. QED  BY <1>0, <2>1, <2>2 DEF data, OwnInv, OwnGarmentsOnly
<1>4. ASSUME NEW r \in Requests, Step(r) \/ Fail(r) PROVE OwnInv'
  <2>1. ASSUME NEW o \in OutfitIds PROVE Own(outfits'[o].userId, outfits'[o].itemIds)
    <3>1. CASE Kept(o)
      BY <1>0, <3>1 DEF Kept, OwnGarmentsOnly, Own
    <3>2. CASE Dropped(o)
      BY <3>2 DEF Dropped, NoOutfit, Own
    <3>3. CASE Inserted(r, o)
      <4>1. request[r].at = "insert"
        BY <3>3 DEF Inserted, InsertOutfit
      <4>. QED  BY <1>0, <3>3, <4>1 DEF Inserted, RequestOwns, Own
    <3>4. CASE Edited(r, o)
      <4>1. request[r].handler = "patch"
        BY <1>0, <3>4, CallsOfHandlers DEF Edited
      <4>. QED  BY <1>0, <3>4, <4>1 DEF Edited, RequestOwns, OwnGarmentsOnly, Own
    <3>. QED  BY <1>0, <1>4, <3>1, <3>2, <3>3, <3>4, OutfitMoves
  <2>2. ASSUME NEW t \in taken' PROVE Own(t.userId, t.itemIds)
    BY <1>0, <1>4, <2>2, RowsMove DEF OwnGarmentsOnly, RequestOwns, Own
  <2>3. ASSUME NEW q \in Requests \ {r} PROVE RequestOwns(q)'
    <3>1. /\ request'[q].handler = request[q].handler /\ request'[q].at = request[q].at
          /\ request'[q].user = request[q].user /\ request'[q].outfit = request[q].outfit
          /\ request'[q].asked = request[q].asked /\ request'[q].doc = request[q].doc
          /\ request'[q].left = request[q].left
      BY <1>0, <1>4, OthersWait DEF StepOf
    <3>2. request[q].handler = "patch" /\ request[q].at \in {"resolve", "save"}
            => request[q].outfit \in OutfitIds \cap spent
      BY <1>0, NoneAssumption, CallsOfHandlers DEF IdsInv, SpentFirst, Busy, CallsFit, Kinds, Calls
    <3>. QED  BY <1>0, <1>4, <3>1, <3>2, OwnerKept DEF RequestOwns, Own
  <2>4. RequestOwns(r)'
    <3>1. CASE request'[r] = Idle
      BY <3>1 DEF Idle, RequestOwns
    <3>2. CASE request'[r] # Idle
      <4>1. /\ request'[r].handler = request[r].handler /\ request'[r].user = request[r].user
            /\ request'[r].outfit = request[r].outfit /\ request'[r].asked = request[r].asked
        BY <1>0, <1>4, <3>2, RunsOn
      <4>2. CASE /\ Resolve(r) /\ Resolvable(r)
                 /\ request'[r].at = IF request[r].handler = "create" THEN "insert" ELSE "save"
        <5>1. outfits' = outfits /\ request[r].at = "resolve" /\ Own(request[r].user, request[r].asked)
          BY <4>2 DEF Resolve, Resolvable, Own, data
        <5>2. request[r].handler \in {"create", "patch"}
          BY <1>0, <5>1, CallsOfHandlers
        <5>. QED  BY <1>0, <4>1, <4>2, <5>1, <5>2 DEF RequestOwns, Own
      <4>3. CASE /\ LoadForPatch(r) /\ Owned(r)
                 /\ request'[r].at = IF request[r].asked = {} THEN "save" ELSE "resolve"
        <5>1. outfits' = outfits /\ outfits[request[r].outfit].userId = request[r].user
          BY <4>3 DEF LoadForPatch, Owned, data
        <5>. QED  BY <4>1, <4>3, <5>1 DEF RequestOwns, Own
      <4>4. CASE /\ LoadToTake(r) /\ Owned(r) /\ request'[r].doc = outfits[request[r].outfit]
                 /\ request'[r].at = "record"
        <5>1. Own(request[r].user, outfits[request[r].outfit].itemIds)
          <6>1. request[r].outfit \in OutfitIds
            BY <1>0, <4>4, CallsOfHandlers DEF LoadToTake
          <6>. QED  BY <1>0, <4>4, <6>1 DEF Owned, OwnGarmentsOnly, Own
        <5>. QED  BY <4>1, <4>4, <5>1 DEF RequestOwns, Own
      <4>5. CASE /\ TakeRecord(r) /\ request'[r].at = "fanOut" /\ request'[r].left = request[r].doc.itemIds
        BY <1>0, <4>1, <4>5 DEF TakeRecord, RequestOwns, Own
      <4>6. CASE /\ CountWear(r) /\ request'[r].at = "fanOut" /\ request'[r].left \subseteq request[r].left
        BY <1>0, <4>1, <4>6 DEF CountWear, RequestOwns, Own
      <4>. QED  BY <1>0, <1>4, <3>2, <4>2, <4>3, <4>4, <4>5, <4>6, RunsOn
    <3>. QED  BY <3>1, <3>2
  <2>. QED  BY <1>0, <2>1, <2>2, <2>3, <2>4 DEF OwnInv, OwnGarmentsOnly, Own
<1>. QED  BY <1>1, <1>2, <1>3, <1>4 DEF Next

\* At the start nobody has an outfit, a row or a request.
LEMMA OwnAtStart == Init => OwnInv
BY IdsAtStart DEF Init, OwnInv, RequestOwns, OwnGarmentsOnly, NoOutfit, Idle, Own

\* No outfit, wear, plan or post ever names a garment that is not its
\* owner's, whatever two devices of two users do in between.
THEOREM GarmentsStayOwn == Spec => []OwnGarmentsOnly
<1>1. OwnInv /\ [Next]_vars => OwnInv'
  BY OwnKept, IdsKept, TypedKept DEF OwnInv, IdsInv
<1>2. OwnInv => OwnGarmentsOnly
  BY DEF OwnInv
<1>. QED  BY <1>1, <1>2, OwnAtStart, PTL DEF Spec

----------------------------------------------------------------------------
(***************************************************************************)
(* Copies: what a handler has loaded was a composition of the outfit.      *)
(***************************************************************************)
HeldInv ==
  /\ IdsInv
  /\ CopiesAreCompositions
  /\ \A o \in OutfitIds : outfits[o].live => <<o, outfits[o].itemIds>> \in held
  /\ \A r \in Requests : request[r].at = "record" => <<request[r].outfit, request[r].doc.itemIds>> \in held

\* Every step copies, or stores, what was held.
LEMMA HeldKept == HeldInv /\ IdsInv' /\ [Next]_vars => HeldInv'
<1> SUFFICES ASSUME HeldInv, IdsInv', [Next]_vars PROVE HeldInv'
  OBVIOUS
<1>0. /\ Typed /\ IdsInv /\ CopiesAreCompositions /\ request \in [Requests -> Activation]
      /\ \A o \in OutfitIds : outfits[o].live => <<o, outfits[o].itemIds>> \in held
      /\ \A r \in Requests : request[r].at = "record" => <<request[r].outfit, request[r].doc.itemIds>> \in held
  BY DEF HeldInv, IdsInv, Typed
<1>1. CASE UNCHANGED vars
  BY <1>0, <1>1 DEF vars, HeldInv, CopiesAreCompositions
<1>2. ASSUME NEW i \in Items, RetireItem(i) \/ DeleteItem(i) PROVE HeldInv'
  BY <1>0, <1>2 DEF RetireItem, DeleteItem, HeldInv, CopiesAreCompositions
<1>3. ASSUME NEW r \in Requests, Arrival(r) PROVE HeldInv'
  <2>1. UNCHANGED data /\ request'[r].at # "record"
    BY <1>0, <1>3, ArrivalTypes
  <2>2. ASSUME NEW q \in Requests \ {r}
        PROVE  /\ request'[q].outfit = request[q].outfit /\ request'[q].at = request[q].at
               /\ request'[q].doc = request[q].doc
    BY <1>0, <1>3, OthersWait DEF StepOf
  <2>. QED  BY <1>0, <2>1, <2>2 DEF data, HeldInv, CopiesAreCompositions
<1>4. ASSUME NEW r \in Requests, Step(r) \/ Fail(r) PROVE HeldInv'
  <2>0. held \subseteq held'
    BY <1>0, <1>4, SpentGrows
  <2>1. ASSUME NEW o \in OutfitIds, outfits'[o].live PROVE <<o, outfits'[o].itemIds>> \in held'
    BY <1>0, <1>4, <2>0, <2>1, OutfitMoves, LiveOutfits DEF Kept, Dropped, Inserted, Edited
  <2>2. CopiesAreCompositions'
    <3>1. CASE taken' \subseteq taken
      BY <1>0, <2>0, <3>1 DEF CopiesAreCompositions
    <3>2. CASE ~(taken' \subseteq taken)
      <4>1. PICK t \in Record :
              /\ request[r].at = "record" /\ taken' = taken \cup {t}
              /\ t.outfitId = request[r].outfit /\ t.itemIds = request[r].doc.itemIds
        BY <1>0, <1>4, <3>2, RowsMove
      <4>2. <<t.outfitId, t.itemIds>> \in held'
        BY <1>0, <2>0, <4>1
      <4>. QED  BY <1>0, <2>0, <4>1, <4>2 DEF CopiesAreCompositions
    <3>. QED  BY <3>1, <3>2
  <2>3. ASSUME NEW q \in Requests, request'[q].at = "record"
        PROVE  <<request'[q].outfit, request'[q].doc.itemIds>> \in held'
    <3>1. CASE q # r
      <4>1. /\ request'[q].outfit = request[q].outfit /\ request'[q].at = request[q].at
            /\ request'[q].doc = request[q].doc
        BY <1>0, <1>4, <3>1, OthersWait DEF StepOf
      <4>. QED  BY <1>0, <2>0, <2>3, <4>1
    <3>2. CASE q = r
      <4>1. LoadToTake(r) /\ Owned(r) /\ request'[r].doc = outfits[request[r].outfit]
            /\ request'[r].outfit = request[r].outfit
        BY <1>0, <1>4, <2>3, <3>2, RunsOn DEF Idle
      <4>2. request[r].outfit \in OutfitIds
        BY <1>0, <4>1, CallsOfHandlers DEF LoadToTake
      <4>. QED  BY <1>0, <2>0, <3>2, <4>1, <4>2 DEF Owned
    <3>. QED  BY <3>1, <3>2
  <2>. QED  BY <2>1, <2>2, <2>3 DEF HeldInv
<1>. QED  BY <1>1, <1>2, <1>3, <1>4 DEF Next

\* At the start there is nothing to copy.
LEMMA HeldAtStart == Init => HeldInv
BY IdsAtStart, LiveOutfits DEF Init, HeldInv, CopiesAreCompositions, Idle

\* No step rewrites a row: ids are apart, and a new row has a new id.
LEMMA RowsStay ==
  ASSUME IdsInv, [Next]_vars, NEW t \in taken, NEW t2 \in taken', t.id = t2.id
  PROVE  t = t2
<1>1. IdsApart /\ Typed /\ t.id \in spent
  BY DEF IdsInv, SpentFirst
<1>2. CASE taken' = taken
  BY <1>1, <1>2 DEF IdsApart
<1>3. ASSUME NEW r \in Requests, Step(r) \/ Fail(r) PROVE t = t2
  BY <1>1, <1>3, RowsMove DEF IdsApart
<1>4. CASE \E r \in Requests : Arrival(r)
  BY <1>1, <1>2, <1>4, ArrivalTypes DEF data
<1>5. CASE \E i \in Items : RetireItem(i) \/ DeleteItem(i)
  BY <1>2, <1>5 DEF RetireItem, DeleteItem
<1>. QED  BY <1>2, <1>3, <1>4, <1>5 DEF Next, vars

\* What was copied into a wear, a plan or a post is a composition the outfit
\* was stored with, whole, and stays as it was copied through every later
\* edit or delete of the outfit and its garments.
THEOREM CopiesStayTrue == Spec => CopiesAreTrue
<1>1. HeldInv /\ [Next]_vars => HeldInv'
  BY HeldKept, IdsKept, TypedKept DEF HeldInv, IdsInv
<1>2. HeldInv => TypeOK /\ CopiesAreCompositions
  BY DEF HeldInv, IdsInv, Typed
<1>3. HeldInv /\ [Next]_vars => [\A t \in taken, t2 \in taken' : t.id = t2.id => t = t2]_vars
  BY RowsStay DEF HeldInv
<1>. QED  BY <1>1, <1>2, <1>3, HeldAtStart, PTL DEF Spec, CopiesAreTrue, CopiesNeverChange

\* Two patches of one outfit do not undo each other: a field moves only by a
\* save whose request carries the value, and the owner never does.
THEOREM PatchesStayApart == Spec => PatchesKeepApart
<1> DEFINE A == \A o \in OutfitIds : outfits[o].live /\ outfits[o]'.live =>
       /\ outfits[o]'.itemIds # outfits[o].itemIds =>
            \E r \in Requests : /\ request[r].at = "save" /\ request[r].outfit = o
                                /\ request[r].asked = outfits[o]'.itemIds
       /\ outfits[o]'.name # outfits[o].name =>
            \E r \in Requests : /\ request[r].at = "save" /\ request[r].outfit = o
                                /\ request[r].name = outfits[o]'.name
       /\ outfits[o]'.userId = outfits[o].userId
<1>1. IdsInv /\ [Next]_vars => IdsInv'
  BY IdsKept, TypedKept DEF IdsInv
<1>2. IdsInv /\ [Next]_vars => [A]_vars
  <2> SUFFICES ASSUME IdsInv, Next PROVE A
    OBVIOUS
  <2>0. Typed /\ SpentFirst
    BY DEF IdsInv
  <2>1. CASE outfits' = outfits
    BY <2>1
  <2>2. ASSUME NEW r \in Requests, Step(r) \/ Fail(r) PROVE A
    <3>1. SUFFICES ASSUME NEW o \in OutfitIds, outfits[o].live, outfits[o]'.live
                   PROVE  /\ outfits[o]'.itemIds # outfits[o].itemIds =>
                               \E q \in Requests : /\ request[q].at = "save" /\ request[q].outfit = o
                                                   /\ request[q].asked = outfits[o]'.itemIds
                          /\ outfits[o]'.name # outfits[o].name =>
                               \E q \in Requests : /\ request[q].at = "save" /\ request[q].outfit = o
                                                   /\ request[q].name = outfits[o]'.name
                          /\ outfits[o]'.userId = outfits[o].userId
      BY DEF A
    <3>2. ~Dropped(o) /\ ~Inserted(r, o)
      BY <2>0, <3>1, LiveOutfits DEF Dropped, Inserted, SpentFirst
    <3>3. CASE Kept(o)
      BY <3>3 DEF Kept
    <3>4. CASE Edited(r, o)
      BY <3>4 DEF Edited
    <3>. QED  BY <2>0, <2>2, <3>2, <3>3, <3>4, OutfitMoves
  <2>3. CASE \E r \in Requests : Arrival(r)
    BY <2>0, <2>1, <2>3, ArrivalTypes DEF data
  <2>4. CASE \E i \in Items : RetireItem(i) \/ DeleteItem(i)
    BY <2>1, <2>4 DEF RetireItem, DeleteItem
  <2>. QED  BY <2>2, <2>3, <2>4 DEF Next
<1>. QED  BY <1>1, <1>2, IdsAtStart, PTL DEF Spec, PatchesKeepApart

----------------------------------------------------------------------------
(***************************************************************************)
(* Counters: a fan-out still has the row it counts, and each garment's     *)
(* counter and latest day are those of the rows it has been reached from.  *)
(***************************************************************************)
Uncounted(i) == Cardinality(Wears(i)) - Cardinality(Owed(i)) - items[i].wearCount

\* The days on which garment i was worn, as far as its fan-outs have reached it.
DaysCounted(i) == {NoDay} \cup {t.day : t \in {w \in Wears(i) : <<w.id, i>> \in counted}}

\* The latest day is one of those counted, and none counted is later.
LastWornBounds(i) ==
  items[i].lastWornAt \in DaysCounted(i) /\ \A d \in DaysCounted(i) : d <= items[i].lastWornAt

FanOutsRecorded ==
  \A r \in Requests : request[r].at = "fanOut" =>
    \E t \in taken : /\ t.kind = "wear" /\ t.id = request[r].record /\ t.day = request[r].day
                     /\ request[r].left \subseteq t.itemIds

CountInv ==
  /\ OwnInv
  /\ IsFiniteSet(taken)
  /\ FanOutsRecorded
  /\ WearCountTracksLog
  /\ \A i \in Items : items[i].live => LastWornBounds(i)

\* Wear rows are kept, with their days, and finitely many.
LEMMA FanOutsKept ==
  ASSUME IdsInv, FanOutsRecorded, IsFiniteSet(taken), [Next]_vars
  PROVE  FanOutsRecorded' /\ IsFiniteSet(taken')
<1>0. Typed /\ request \in [Requests -> Activation]
  BY DEF IdsInv, Typed
<1>1. CASE UNCHANGED <<request, taken>>
  BY <1>1 DEF FanOutsRecorded
<1>2. ASSUME NEW r \in Requests, Arrival(r) PROVE FanOutsRecorded' /\ IsFiniteSet(taken')
  <2>1. taken' = taken /\ request'[r].at # "fanOut"
    BY <1>0, <1>2, ArrivalTypes DEF data
  <2>2. ASSUME NEW q \in Requests \ {r}
        PROVE  /\ request'[q].at = request[q].at /\ request'[q].record = request[q].record
               /\ request'[q].day = request[q].day /\ request'[q].left = request[q].left
    BY <1>0, <1>2, OthersWait DEF StepOf
  <2>. QED  BY <2>1, <2>2 DEF FanOutsRecorded
<1>3. ASSUME NEW r \in Requests, Step(r) \/ Fail(r) PROVE FanOutsRecorded' /\ IsFiniteSet(taken')
  <2>1. IsFiniteSet(taken')
    BY <1>0, <1>3, RowsMove, FS_Subset, FS_AddElement
  <2>2. \A t \in taken : t.kind = "wear" => t \in taken'
    BY <1>0, <1>3, RowsMove
  <2>3. ASSUME NEW q \in Requests \ {r}
        PROVE  /\ request'[q].at = request[q].at /\ request'[q].record = request[q].record
               /\ request'[q].day = request[q].day /\ request'[q].left = request[q].left
    BY <1>0, <1>3, OthersWait DEF StepOf
  <2>4. ASSUME request'[r].at = "fanOut"
        PROVE  \E t \in taken' : /\ t.kind = "wear" /\ t.id = request'[r].record /\ t.day = request'[r].day
                                 /\ request'[r].left \subseteq t.itemIds
    <3>1. request'[r] # Idle
      BY <2>4 DEF Idle
    <3>2. request'[r].day = request[r].day
      BY <1>0, <1>3, <3>1, RunsOn
    <3>3. CASE /\ TakeRecord(r) /\ request[r].handler = "wear" /\ request'[r].left = request[r].doc.itemIds
               /\ Copied(r, request'[r].record, request[r].doc.itemIds)
      <4> DEFINE t == [id |-> request'[r].record, kind |-> request[r].handler, userId |-> request[r].user,
                       outfitId |-> request[r].outfit, itemIds |-> request[r].doc.itemIds,
                       day |-> request[r].day]
      <4>1. t \in taken'
        BY <3>3 DEF Copied
      <4>2. /\ t.kind = "wear" /\ t.id = request'[r].record /\ t.day = request'[r].day
            /\ request'[r].left \subseteq t.itemIds
        BY <3>2, <3>3
      <4> HIDE DEF t
      <4>. QED  BY <4>1, <4>2
    <3>4. CASE /\ CountWear(r) /\ request'[r].record = request[r].record
               /\ request'[r].left \subseteq request[r].left
      <4>1. request[r].at = "fanOut"
        BY <3>4 DEF CountWear
      <4>2. PICK t \in taken : /\ t.kind = "wear" /\ t.id = request[r].record /\ t.day = request[r].day
                               /\ request[r].left \subseteq t.itemIds
        BY <4>1 DEF FanOutsRecorded
      <4>. QED  BY <2>2, <3>2, <3>4, <4>2
    <3>. QED  BY <1>0, <1>3, <2>4, <3>1, <3>3, <3>4, RunsOn
  <2>. QED  BY <2>1, <2>2, <2>3, <2>4 DEF FanOutsRecorded
<1>. QED  BY <1>1, <1>2, <1>3 DEF Next, vars, RetireItem, DeleteItem

\* The fan-outs owed to garment i, of a step's own request and of the others.
LEMMA OwedMoves ==
  ASSUME Typed, NEW r \in Requests, StepOf(r), NEW i \in Items
  PROVE  /\ Owed(i)' \ {r} = Owed(i) \ {r}
         /\ r \in Owed(i)' <=> request'[r].at = "fanOut" /\ i \in request'[r].left
<1>1. ASSUME NEW q \in Requests \ {r}
      PROVE  request'[q].at = request[q].at /\ request'[q].left = request[q].left
  BY <1>1, OthersWait
<1>. QED  BY <1>1 DEF Owed

\* The wears of garment i gain a row, with the fan-out that owes it a count.
LEMMA WearTaken ==
  ASSUME IdsInv, NEW r \in Requests, TakeRecord(r), NEW i \in Items
  PROVE  \/ Wears(i)' = Wears(i) /\ Owed(i)' = Owed(i)
         \/ \E t : /\ t \notin Wears(i) /\ Wears(i)' = Wears(i) \cup {t} /\ t.id \notin spent
                   /\ r \notin Owed(i) /\ Owed(i)' = Owed(i) \cup {r}
<1>0. /\ Typed /\ SpentFirst /\ Step(r) /\ StepOf(r) /\ request[r].at = "record"
      /\ request \in [Requests -> Activation]
  BY DEF IdsInv, Step, StepOf, TakeRecord, Typed
<1>1. r \notin Owed(i)
  BY <1>0 DEF Owed
<1>2. PICK t \in Record :
        /\ taken' = taken \cup {t} /\ t.id \notin spent
        /\ t.kind = request[r].handler /\ t.itemIds = request[r].doc.itemIds
  <2>1. PICK id \in RecordIds \ spent : Copied(r, id, request[r].doc.itemIds)
    BY DEF TakeRecord
  <2>2. request[r].doc.itemIds # {} /\ request[r].handler \in Kinds
    BY <1>0, CallsOfHandlers, LiveOutfits DEF Calls, Busy, Fields, Document, Composition
  <2>3. ~(taken' \subseteq taken)
    <3> DEFINE new == [id |-> id, kind |-> request[r].handler, userId |-> request[r].user,
                       outfitId |-> request[r].outfit, itemIds |-> request[r].doc.itemIds,
                       day |-> request[r].day]
    <3>1. new \in taken' /\ new.id = id
      BY <2>1 DEF Copied
    <3>2. \A x \in taken : x.id # id
      BY <1>0, <2>1 DEF SpentFirst
    <3> HIDE DEF new
    <3>. QED  BY <3>1, <3>2
  <2>. QED  BY <1>0, <2>3, RowsMove
<1>3. t \notin taken
  BY <1>0, <1>2 DEF SpentFirst
<1>4. CASE request[r].handler = "wear" /\ i \in request[r].doc.itemIds
  <2>1. Wears(i)' = Wears(i) \cup {t} /\ t \notin Wears(i)
    BY <1>2, <1>3, <1>4 DEF Wears
  <2>2. request'[r].at = "fanOut" /\ i \in request'[r].left
    <3>1. PICK id \in RecordIds :
            request' = [request EXCEPT ![r] = [request[r] EXCEPT !.at = "fanOut", !.record = id,
                                                                 !.left = request[r].doc.itemIds]]
      BY <1>4 DEF TakeRecord
    <3>2. request[r] \in Fields
      BY <1>0, CallsOfHandlers DEF Calls, Busy
    <3>3. DOMAIN request[r] = {"handler", "at", "user", "outfit", "asked", "name", "doc", "stale",
                               "day", "record", "left"}
      BY <3>2 DEF Fields
    <3>4. request'[r] = [request[r] EXCEPT !.at = "fanOut", !.record = id, !.left = request[r].doc.itemIds]
      BY <1>0, <3>1
    <3>5. request'[r].at = "fanOut" /\ request'[r].left = request[r].doc.itemIds
      BY <3>3, <3>4
    <3>. QED  BY <1>4, <3>5
  <2>3. Owed(i)' = Owed(i) \cup {r}
    BY <1>0, <1>1, <2>2, OwedMoves
  <2>. QED  BY <1>1, <1>2, <2>1, <2>3
<1>5. CASE ~(request[r].handler = "wear" /\ i \in request[r].doc.itemIds)
  <2>1. Wears(i)' = Wears(i)
    BY <1>2, <1>5 DEF Wears
  <2>2. ~(request'[r].at = "fanOut" /\ i \in request'[r].left)
    <3>1. CASE request'[r] = Idle
      BY <3>1 DEF Idle
    <3>2. CASE request'[r] # Idle
      <4>1. request[r].handler = "wear"
        BY <1>0, <3>2 DEF TakeRecord, Answer
      <4>2. PICK id \in RecordIds :
              request' = [request EXCEPT ![r] = [request[r] EXCEPT !.at = "fanOut", !.record = id,
                                                                   !.left = request[r].doc.itemIds]]
        BY <4>1 DEF TakeRecord
      <4>3. request'[r] = [request[r] EXCEPT !.at = "fanOut", !.record = id, !.left = request[r].doc.itemIds]
        BY <1>0, <4>2
      <4>4. request[r] \in Fields
        BY <1>0, CallsOfHandlers DEF Calls, Busy
      <4>5. DOMAIN request[r] = {"handler", "at", "user", "outfit", "asked", "name", "doc", "stale",
                                 "day", "record", "left"}
        BY <4>4 DEF Fields
      <4>6. request'[r].left = request[r].doc.itemIds
        BY <4>3, <4>5
      <4>. QED  BY <1>5, <4>1, <4>6
    <3>. QED  BY <3>1, <3>2
  <2>3. Owed(i)' = Owed(i)
    BY <1>0, <1>1, <2>2, OwedMoves
  <2>. QED  BY <2>1, <2>3
<1>. QED  BY <1>4, <1>5

\* A fan-out reaches one garment: a live one is counted and no longer owed.
LEMMA WearCounted ==
  ASSUME OwnInv, NEW r \in Requests, CountWear(r), NEW i \in Items, items[i].live
  PROVE  \/ /\ items'[i] = items[i] /\ Owed(i)' = Owed(i)
            /\ \A id : <<id, i>> \in counted' <=> <<id, i>> \in counted
         \/ /\ i \in request[r].left /\ r \in Owed(i) /\ Owed(i)' = Owed(i) \ {r}
            /\ items'[i].wearCount = items[i].wearCount + 1
            /\ items'[i].lastWornAt = IF request[r].day > items[i].lastWornAt THEN request[r].day
                                      ELSE items[i].lastWornAt
            /\ counted' = counted \cup {<<request[r].record, i>>}
<1>0. /\ Typed /\ RequestOwns(r) /\ StepOf(r) /\ request[r].at = "fanOut"
      /\ request \in [Requests -> Activation] /\ items \in [Items -> Item]
  BY DEF OwnInv, IdsInv, Typed, TypeOK, Step, StepOf, CountWear
<1>1. PICK j \in request[r].left :
        /\ IF items[j].live /\ Owner[j] = request[r].user
             THEN /\ items' = [items EXCEPT
                       ![j] = [items[j] EXCEPT
                                 !.wearCount = items[j].wearCount + 1,
                                 !.lastWornAt = IF request[r].day > items[j].lastWornAt
                                                  THEN request[r].day ELSE items[j].lastWornAt]]
                  /\ counted' = counted \cup {<<request[r].record, j>>}
             ELSE UNCHANGED <<items, counted>>
        /\ IF request[r].left = {j} THEN Answer(r)
             ELSE request' = [request EXCEPT ![r].left = @ \ {j}]
  BY DEF CountWear
<1>2. request[r] \in Fields /\ j \in Items
  BY <1>0, CallsOfHandlers DEF Calls, Busy, Fields
<1>3. \/ request[r].left = {j} /\ request'[r] = Idle
      \/ request'[r].at = "fanOut" /\ request'[r].left = request[r].left \ {j}
  BY <1>0, <1>1, <1>2 DEF Answer, Fields
<1>4. \/ i \in request[r].left \ {j} /\ r \in Owed(i) /\ r \in Owed(i)'
      \/ i = j /\ r \in Owed(i) /\ r \notin Owed(i)'
      \/ i \notin request[r].left /\ r \notin Owed(i) /\ r \notin Owed(i)'
  BY <1>0, <1>3, OwedMoves DEF Owed, Idle
<1>5. CASE i = j
  <2>1. Owner[i] = request[r].user
    BY <1>0, <1>5 DEF RequestOwns, Own
  <2>2. Owed(i)' = Owed(i) \ {r} /\ r \in Owed(i)
    BY <1>0, <1>4, <1>5, OwedMoves
  <2>3. /\ items'[i] = Counting(items[i], request[r].day)
        /\ counted' = counted \cup {<<request[r].record, i>>}
    BY <1>0, <1>1, <1>5, <2>1 DEF Counting
  <2>4. items[i] \in Item /\ request[r].day \in Days
    BY <1>0, <1>2 DEF Fields
  <2>. QED  BY <1>1, <1>5, <2>2, <2>3, <2>4, ItemCounted
<1>6. CASE i # j
  <2>1. Owed(i)' = Owed(i)
    <3>1. r \in Owed(i) <=> r \in Owed(i)'
      BY <1>4, <1>6
    <3>2. Owed(i)' \ {r} = Owed(i) \ {r}
      BY <1>0, OwedMoves
    <3>. QED  BY <3>1, <3>2
  <2>. QED  BY <1>0, <1>1, <1>2, <1>6, <2>1
<1>. QED  BY <1>5, <1>6

\* A step that neither takes a row nor counts one leaves a garment's counts as
\* they were; one that fails owes at most one count the less, for good.
LEMMA CountsStay ==
  ASSUME IdsInv, NEW r \in Requests, StepOf(r), ~TakeRecord(r), ~CountWear(r), NEW i \in Items
  PROVE  /\ Wears(i)' = Wears(i) /\ items' = items /\ counted' = counted
         /\ \/ Owed(i)' = Owed(i) /\ losses' = losses
            \/ Owed(i)' = Owed(i) /\ losses' = losses + 1
            \/ r \in Owed(i) /\ Owed(i)' = Owed(i) \ {r} /\ losses' = losses + 1
<1>0. Typed /\ request \in [Requests -> Activation]
  BY DEF IdsInv, Typed
<1>1. CASE Arrival(r)
  <2>1. UNCHANGED data /\ request[r] = Idle /\ request'[r].at # "fanOut"
    BY <1>0, <1>1, ArrivalTypes
  <2>2. r \notin Owed(i) /\ r \notin Owed(i)'
    BY <1>0, <2>1, OwedMoves DEF Owed, Idle
  <2>3. Owed(i)' = Owed(i)
    BY <1>0, <2>2, OwedMoves
  <2>. QED  BY <2>1, <2>3 DEF data, Wears
<1>2. CASE Step(r) \/ Fail(r)
  <2>1. items' = items /\ counted' = counted
    BY <1>2, Writers
  <2>2. Wears(i)' = Wears(i)
    <3>1. taken' \subseteq taken /\ \A t \in taken : t.kind = "wear" => t \in taken'
      BY <1>0, <1>2, RowsMove
    <3>. QED  BY <3>1 DEF Wears
  <2>3. r \notin Owed(i)'
    <3>1. request'[r].at # "fanOut"
      BY <1>0, <1>2, RunsOn DEF Idle
    <3>. QED  BY <1>0, <3>1, OwedMoves
  <2>4. r \in Owed(i) => Fail(r)
    BY <1>2 DEF Owed, Step, Resolve, InsertOutfit, LoadForPatch, SaveOutfit, DeleteOutfit, LoadToTake, Retract
  <2>5. losses' = losses \/ Fail(r)
    BY <1>2, Writers
  <2>6. Owed(i)' = Owed(i) \ {r}
    BY <1>0, <2>3, OwedMoves
  <2>7. Fail(r) => losses' = losses + 1
    BY DEF Fail
  <2>8. r \notin Owed(i) => Owed(i)' = Owed(i)
    BY <2>6
  <2>. QED  BY <2>1, <2>2, <2>4, <2>5, <2>6, <2>7, <2>8
<1>. QED  BY <1>1, <1>2 DEF StepOf

\* What is counted is finite, and made of numbers.
LEMMA CountsAreNumbers ==
  ASSUME Typed, IsFiniteSet(taken), NEW i \in Items
  PROVE  /\ IsFiniteSet(Wears(i)) /\ Cardinality(Wears(i)) \in Nat
         /\ IsFiniteSet(Owed(i)) /\ Cardinality(Owed(i)) \in Nat
         /\ items[i].wearCount \in Nat /\ losses \in Nat
<1>1. Wears(i) \subseteq taken /\ Owed(i) \subseteq Requests
  BY DEF Wears, Owed
<1>2. IsFiniteSet(Wears(i)) /\ IsFiniteSet(Owed(i))
  BY <1>1, FS_Subset, RequestsAssumption
<1>3. Cardinality(Wears(i)) \in Nat /\ Cardinality(Owed(i)) \in Nat
  BY <1>2, FS_CardinalityType
<1>4. items[i].wearCount \in Nat /\ losses \in Nat
  BY LossesAssumption DEF Typed, TypeOK, Item
<1>. QED  BY <1>2, <1>3, <1>4

\* A step moves a garment's log, what it is owed and its counter together.
LEMMA TracksKept == CountInv /\ Typed' /\ [Next]_vars => WearCountTracksLog'
<1> SUFFICES ASSUME CountInv, Typed', [Next]_vars, NEW i \in Items, items'[i].live
             PROVE  0 <= Uncounted(i)' /\ Uncounted(i)' <= losses'
  BY DEF WearCountTracksLog, Uncounted
<1>0. /\ OwnInv /\ IdsInv /\ Typed /\ IsFiniteSet(taken) /\ items \in [Items -> Item]
      /\ items[i].live => 0 <= Uncounted(i) /\ Uncounted(i) <= losses
  BY DEF CountInv, OwnInv, IdsInv, WearCountTracksLog, Uncounted, Typed, TypeOK
<1>1. /\ IsFiniteSet(Wears(i)) /\ Cardinality(Wears(i)) \in Nat
      /\ IsFiniteSet(Owed(i)) /\ Cardinality(Owed(i)) \in Nat
      /\ items[i].wearCount \in Nat /\ losses \in Nat
  BY <1>0, CountsAreNumbers
<1>2. CASE UNCHANGED <<request, taken, losses, items>>
  <2>1. Wears(i)' = Wears(i) /\ Owed(i)' = Owed(i)
    BY <1>2 DEF Wears, Owed
  <2>. QED  BY <1>0, <1>2, <2>1 DEF Uncounted
<1>3. ASSUME NEW j \in Items, RetireItem(j) \/ DeleteItem(j)
      PROVE  0 <= Uncounted(i)' /\ Uncounted(i)' <= losses'
  <2>1. Wears(i)' = Wears(i) /\ Owed(i)' = Owed(i) /\ losses' = losses
    BY <1>3 DEF Wears, Owed, RetireItem, DeleteItem
  <2>2. items[i].live /\ items'[i].wearCount = items[i].wearCount
    <3>1. CASE i # j
      BY <1>0, <1>3, <3>1 DEF RetireItem, DeleteItem
    <3>2. CASE i = j /\ RetireItem(j)
      <4>1. PICK b \in BOOLEAN : items' = [items EXCEPT ![j].retired = b]
        BY <3>2, Zenon DEF RetireItem
      <4>2. [items[j] EXCEPT !.retired = b].wearCount = items[j].wearCount
        BY <1>0 DEF Item
      <4>. QED  BY <1>0, <3>2, <4>1, <4>2 DEF RetireItem
    <3>3. ~(i = j /\ DeleteItem(j))
      BY <1>0 DEF DeleteItem, Fresh
    <3>. QED  BY <1>3, <3>1, <3>2, <3>3
  <2>. QED  BY <1>0, <2>1, <2>2 DEF Uncounted
<1>4. ASSUME NEW r \in Requests, TakeRecord(r) PROVE 0 <= Uncounted(i)' /\ Uncounted(i)' <= losses'
  <2>0. items' = items /\ losses' = losses
    BY <1>4 DEF TakeRecord
  <2>1. CASE Wears(i)' = Wears(i) /\ Owed(i)' = Owed(i)
    BY <1>0, <2>0, <2>1 DEF Uncounted
  <2>2. CASE \E t : /\ t \notin Wears(i) /\ Wears(i)' = Wears(i) \cup {t}
                    /\ r \notin Owed(i) /\ Owed(i)' = Owed(i) \cup {r}
    <3>1. PICK t : /\ t \notin Wears(i) /\ Wears(i)' = Wears(i) \cup {t}
                   /\ r \notin Owed(i) /\ Owed(i)' = Owed(i) \cup {r}
      BY <2>2
    <3>2. Cardinality(Wears(i)') = Cardinality(Wears(i)) + 1
      BY <1>1, <3>1, FS_AddElement
    <3>3. Cardinality(Owed(i)') = Cardinality(Owed(i)) + 1
      BY <1>1, <3>1, FS_AddElement
    <3>4. Uncounted(i)' = Uncounted(i)
      BY <1>1, <2>0, <3>2, <3>3 DEF Uncounted
    <3>. QED  BY <1>0, <2>0, <3>4
  <2>. QED  BY <1>0, <1>4, <2>1, <2>2, WearTaken
<1>5. ASSUME NEW r \in Requests, CountWear(r) PROVE 0 <= Uncounted(i)' /\ Uncounted(i)' <= losses'
  <2>0. /\ Typed /\ request[r].at = "fanOut" /\ losses' = losses /\ Wears(i)' = Wears(i)
    BY <1>0, <1>5 DEF CountWear, Wears
  <2>1. items[i].live
    <3>1. \A j \in Items : [items[j] EXCEPT !.wearCount = items[j].wearCount + 1,
                              !.lastWornAt = IF request[r].day > items[j].lastWornAt THEN request[r].day
                                             ELSE items[j].lastWornAt].live = items[j].live
      BY <1>0 DEF Item
    <3>2. request[r].left \subseteq Items
      BY <2>0, CallsOfHandlers DEF Calls, Busy, Fields
    <3>. QED  BY <1>0, <1>5, <3>1, <3>2 DEF CountWear
  <2>2. CASE items'[i] = items[i] /\ Owed(i)' = Owed(i)
    BY <1>0, <2>0, <2>1, <2>2 DEF Uncounted
  <2>3. CASE /\ r \in Owed(i) /\ Owed(i)' = Owed(i) \ {r}
             /\ items'[i].wearCount = items[i].wearCount + 1
    <3>1. Cardinality(Owed(i)') = Cardinality(Owed(i)) - 1
      BY ZenonT(40), <1>1, <2>3, FS_RemoveElement
    <3>2. Uncounted(i)' = Uncounted(i)
      BY <1>1, <2>0, <2>3, <3>1 DEF Uncounted
    <3>. QED  BY <1>0, <2>0, <2>1, <3>2
  <2>. QED  BY <1>0, <1>5, <2>1, <2>2, <2>3, WearCounted
<1>6. ASSUME NEW r \in Requests, StepOf(r), ~TakeRecord(r), ~CountWear(r)
      PROVE  0 <= Uncounted(i)' /\ Uncounted(i)' <= losses'
  <2>1. Wears(i)' = Wears(i) /\ items' = items
    BY <1>0, <1>6, CountsStay
  <2>2. CASE Owed(i)' = Owed(i) /\ losses' \in {losses, losses + 1}
    <3>1. Uncounted(i)' = Uncounted(i)
      BY <2>1, <2>2 DEF Uncounted
    <3>. QED  BY <1>0, <1>1, <2>1, <2>2, <3>1 DEF Uncounted
  <2>3. CASE r \in Owed(i) /\ Owed(i)' = Owed(i) \ {r} /\ losses' = losses + 1
    <3>1. Cardinality(Owed(i)') = Cardinality(Owed(i)) - 1
      BY <1>1, <2>3, FS_RemoveElement
    <3>2. Uncounted(i)' = Uncounted(i) + 1 /\ Uncounted(i) \in Int
      BY <1>1, <2>1, <3>1 DEF Uncounted
    <3>. QED  BY <1>0, <1>1, <2>1, <2>3, <3>2
  <2>. QED  BY <1>0, <1>6, <2>2, <2>3, CountsStay
<1>. QED  BY <1>2, <1>3, <1>4, <1>5, <1>6 DEF Next, StepOf, vars

\* A step moves a garment's latest day with the wears it has been counted for.
LEMMA LatestKept ==
  ASSUME CountInv, Typed', [Next]_vars, NEW i \in Items, items'[i].live
  PROVE  LastWornBounds(i)'
<1>0. /\ OwnInv /\ IdsInv /\ Typed /\ FanOutsRecorded /\ SpentFirst /\ IdsApart
      /\ items \in [Items -> Item] /\ taken \subseteq Record
      /\ items[i].live => LastWornBounds(i)
  BY DEF CountInv, OwnInv, IdsInv, Typed, TypeOK, LastWornBounds
<1>1. ASSUME items'[i].lastWornAt = items[i].lastWornAt, DaysCounted(i)' = DaysCounted(i), items[i].live
      PROVE  LastWornBounds(i)'
  BY <1>0, <1>1 DEF LastWornBounds
<1>2. CASE UNCHANGED <<taken, items, counted>>
  <2>1. DaysCounted(i)' = DaysCounted(i)
    BY <1>2 DEF DaysCounted, Wears
  <2>. QED  BY <1>1, <1>2, <2>1
<1>3. ASSUME NEW j \in Items, RetireItem(j) \/ DeleteItem(j) PROVE LastWornBounds(i)'
  <2>1. DaysCounted(i)' = DaysCounted(i)
    BY <1>3 DEF RetireItem, DeleteItem, DaysCounted, Wears
  <2>2. items[i].live /\ items'[i].lastWornAt = items[i].lastWornAt
    <3>1. CASE i # j
      BY <1>0, <1>3, <3>1 DEF RetireItem, DeleteItem
    <3>2. CASE i = j /\ RetireItem(j)
      <4>1. PICK b \in BOOLEAN : items' = [items EXCEPT ![j].retired = b]
        BY <3>2, Zenon DEF RetireItem
      <4>2. [items[j] EXCEPT !.retired = b].lastWornAt = items[j].lastWornAt
        BY <1>0 DEF Item
      <4>. QED  BY <1>0, <3>2, <4>1, <4>2 DEF RetireItem
    <3>3. ~(i = j /\ DeleteItem(j))
      BY <1>0 DEF DeleteItem, Fresh
    <3>. QED  BY <1>3, <3>1, <3>2, <3>3
  <2>. QED  BY <1>1, <2>1, <2>2
<1>4. ASSUME NEW r \in Requests, TakeRecord(r) PROVE LastWornBounds(i)'
  <2>0. items' = items /\ counted' = counted
    BY <1>4 DEF TakeRecord
  <2>1. \/ Wears(i)' = Wears(i)
        \/ \E t : t \notin Wears(i) /\ Wears(i)' = Wears(i) \cup {t} /\ t.id \notin spent
    BY <1>0, <1>4, WearTaken
  <2>2. \A t : t.id \notin spent => <<t.id, i>> \notin counted
    BY <1>0 DEF SpentFirst
  <2>3. {w \in Wears(i) : <<w.id, i>> \in counted}' = {w \in Wears(i) : <<w.id, i>> \in counted}
    BY <2>0, <2>1, <2>2
  <2>4. DaysCounted(i)' = DaysCounted(i)
    BY <2>3 DEF DaysCounted
  <2>. QED  BY <1>1, <2>0, <2>4
<1>5. ASSUME NEW r \in Requests, CountWear(r) PROVE LastWornBounds(i)'
  <2>0. /\ Typed /\ request[r].at = "fanOut" /\ Wears(i)' = Wears(i)
    BY <1>0, <1>5 DEF CountWear, Wears
  <2>1. items[i].live
    <3>1. \A j \in Items : [items[j] EXCEPT !.wearCount = items[j].wearCount + 1,
                              !.lastWornAt = IF request[r].day > items[j].lastWornAt THEN request[r].day
                                             ELSE items[j].lastWornAt].live = items[j].live
      BY <1>0 DEF Item
    <3>2. request[r].left \subseteq Items
      BY <2>0, CallsOfHandlers DEF Calls, Busy, Fields
    <3>. QED  BY <1>0, <1>5, <3>1, <3>2 DEF CountWear
  <2>2. CASE items'[i] = items[i] /\ \A id : <<id, i>> \in counted' <=> <<id, i>> \in counted
    <3>1. DaysCounted(i)' = DaysCounted(i)
      BY <2>0, <2>2 DEF DaysCounted
    <3>. QED  BY <1>1, <2>1, <2>2, <3>1
  <2>3. CASE /\ i \in request[r].left
             /\ items'[i].lastWornAt = IF request[r].day > items[i].lastWornAt THEN request[r].day
                                       ELSE items[i].lastWornAt
             /\ counted' = counted \cup {<<request[r].record, i>>}
    <3>1. PICK t \in taken : /\ t.kind = "wear" /\ t.id = request[r].record /\ t.day = request[r].day
                             /\ request[r].left \subseteq t.itemIds
      BY <1>0, <2>0 DEF FanOutsRecorded
    <3>2. t \in Wears(i)
      BY <2>3, <3>1 DEF Wears
    <3>3. \A w \in Wears(i) : w.id = request[r].record => w = t
      BY <1>0, <3>1 DEF IdsApart, Wears
    <3>4. {w \in Wears(i) : <<w.id, i>> \in counted}' = {w \in Wears(i) : <<w.id, i>> \in counted} \cup {t}
      BY <2>0, <2>3, <3>1, <3>2, <3>3
    <3>5. DaysCounted(i)' = DaysCounted(i) \cup {request[r].day}
      BY <3>1, <3>4 DEF DaysCounted
    <3>6. request[r].day \in Int /\ items[i].lastWornAt \in Int /\ \A d \in DaysCounted(i) : d \in Int
      BY <1>0, <3>1 DEF Record, Days, Item, NoDay, DaysCounted, Wears
    <3>. QED  BY <1>0, <2>1, <2>3, <3>5, <3>6 DEF LastWornBounds
  <2>. QED  BY <1>0, <1>5, <2>1, <2>2, <2>3, WearCounted
<1>6. ASSUME NEW r \in Requests, StepOf(r), ~TakeRecord(r), ~CountWear(r) PROVE LastWornBounds(i)'
  <2>1. Wears(i)' = Wears(i) /\ items' = items /\ counted' = counted
    BY <1>0, <1>6, CountsStay
  <2>2. DaysCounted(i)' = DaysCounted(i)
    BY <2>1 DEF DaysCounted
  <2>. QED  BY <1>1, <2>1, <2>2
<1>. QED  BY <1>2, <1>3, <1>4, <1>5, <1>6 DEF Next, StepOf, vars

\* At the start nothing was worn and nothing is counted.
LEMMA CountAtStart == Init => CountInv
<1> SUFFICES ASSUME Init PROVE CountInv
  OBVIOUS
<1>1. OwnInv /\ FanOutsRecorded
  BY OwnAtStart DEF Init, FanOutsRecorded, Idle
<1>2. IsFiniteSet(taken)
  BY FS_EmptySet DEF Init
<1>3. ASSUME NEW i \in Items
      PROVE  /\ Uncounted(i) = 0 /\ losses = 0 /\ DaysCounted(i) = {NoDay} /\ items[i].lastWornAt = NoDay
  <2>1. Wears(i) = {} /\ Owed(i) = {}
    BY DEF Init, Wears, Owed, Idle
  <2>2. Cardinality({}) = 0
    BY FS_EmptySet
  <2>3. items[i].wearCount = 0 /\ losses = 0 /\ items[i].lastWornAt = NoDay
    BY DEF Init, Fresh
  <2>. QED  BY <2>1, <2>2, <2>3 DEF Uncounted, DaysCounted
<1>4. WearCountTracksLog
  BY <1>3 DEF WearCountTracksLog, Uncounted
<1>5. ASSUME NEW i \in Items PROVE LastWornBounds(i)
  <2>1. NoDay \in Int
    BY DEF NoDay
  <2>. QED  BY <1>3, <2>1 DEF LastWornBounds
<1>. QED  BY <1>1, <1>2, <1>4, <1>5 DEF CountInv

\* The largest of some days is the one that no other exceeds.
LEMMA LatestIsMax ==
  ASSUME NEW S \in SUBSET Int, NEW m \in S, \A d \in S : d <= m
  PROVE  m = Max(S)
<1>1. \A y \in S : m >= y
  OBVIOUS
<1>2. Max(S) \in S /\ \A y \in S : Max(S) >= y
  <2>1. \E x \in S : \A y \in S : x >= y
    BY <1>1
  <2>. QED  BY <2>1, Zenon DEF Max
<1>3. m >= Max(S) /\ Max(S) >= m /\ m \in Int /\ Max(S) \in Int
  BY <1>1, <1>2
<1>. QED  BY <1>3

\* An item's counter is its wears logged, less those still on their way and
\* at most one per request that failed; its latest day is the latest of the
\* wears it was counted for.
THEOREM CountersStayTrue == Spec => []CountersTrackLog
<1>1. CountInv /\ [Next]_vars => CountInv'
  <2> SUFFICES ASSUME CountInv, [Next]_vars PROVE CountInv'
    OBVIOUS
  <2>1. Typed' /\ OwnInv'
    BY TypedKept, IdsKept, OwnKept DEF CountInv, OwnInv, IdsInv
  <2>2. FanOutsRecorded' /\ IsFiniteSet(taken')
    BY FanOutsKept DEF CountInv, OwnInv
  <2>3. WearCountTracksLog'
    BY <2>1, TracksKept
  <2>4. \A i \in Items : items'[i].live => LastWornBounds(i)'
    BY <2>1, LatestKept
  <2>. QED  BY <2>1, <2>2, <2>3, <2>4 DEF CountInv, LastWornBounds
<1>2. CountInv => CountersTrackLog
  <2> SUFFICES ASSUME CountInv, NEW i \in Items, items[i].live
               PROVE  items[i].lastWornAt = Max(DaysCounted(i))
    BY DEF CountInv, CountersTrackLog, LastWornIsLatest, DaysCounted
  <2>1. DaysCounted(i) \subseteq Int
    <3>1. taken \subseteq Record
      BY DEF CountInv, OwnInv, IdsInv, Typed, TypeOK
    <3>2. \A t \in Record : t.day \in Int
      BY DEF Record, Days
    <3>3. NoDay \in Int
      BY DEF NoDay
    <3>4. \A t \in Wears(i) : t.day \in Int
      BY <3>1, <3>2 DEF Wears
    <3>. QED  BY <3>3, <3>4 DEF DaysCounted
  <2>2. LastWornBounds(i)
    BY DEF CountInv
  <2>. QED  BY <2>1, <2>2, LatestIsMax DEF LastWornBounds
<1>. QED  BY <1>1, <1>2, CountAtStart, PTL DEF Spec
=============================================================================
