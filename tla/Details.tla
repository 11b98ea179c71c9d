------------------------------ MODULE Details -------------------------------
(***************************************************************************)
(* The detail screens of a garment and of an outfit (items/[id].tsx,       *)
(* outfits/[id].tsx, ShareOutfitSheet.tsx), the screen that logs a wear    *)
(* for a day (calendar/[date].tsx), and the lists that stay mounted under  *)
(* them and learn of their writes from marks alone (trackingDirty.ts,      *)
(* outfitsDirty.ts, communityDirty.ts).                                    *)
(*                                                                         *)
(* A press runs the closure of the last commit, shown; a guard ref changes *)
(* at once.  A request takes longer than a commit.                         *)
(***************************************************************************)
EXTENDS Integers, FiniteSets, Sequences

CONSTANTS
  Kinds,       \* the screens that may be opened
  MaxVisits,   \* bound: screens opened, and readers that come into focus marked
  MaxWrites,   \* bound: writes begun
  MaxTypes,    \* bound: fields typed in
  MaxTroubles  \* bound: requests that fail, and deletions on another device

ASSUME DetailsBoundsAssumption ==
  /\ {MaxVisits, MaxWrites, MaxTypes, MaxTroubles} \subseteq Nat
  /\ Kinds \subseteq {"item", "outfit", "log"}

VARIABLES
  route,    \* the kind of screen that is opened, one of Kinds
  api,      \* the garment, the outfit, its wears and its shares
  page,     \* the screen on top of the tabs
  seen,     \* the page as last committed
  calls,    \* writes of a screen on their way
  opening,  \* loads of a detail screen on their way
  marks,    \* readers marked dirty
  lists,    \* what each reader last loaded
  reads,    \* loads of the readers on their way
  used,     \* how much of each bound is used up
  excused,  \* history: readers whose list may be wrong for a reason they were told of or could not be
  tainted   \* history: the page may be wrong for such a reason

detailsVars == <<route, api, page, seen, calls, opening, marks, lists, reads, used, excused, tainted>>

TrackingReaders == {"wardrobe", "profile", "calendar"}
Readers == TrackingReaders \cup {"outfits", "feed"}

\* What a reader draws of what the screens write.  outfitNames resolves the
\* names of past wears when they are read, and an outfit draws its garments.
View(r) ==
  CASE r = "wardrobe" -> <<api.item, api.laundry, api.retired>>
    [] r = "profile"  -> <<api.item, api.laundry, api.retired, api.wears, api.outfit, api.name>>
    [] r = "calendar" -> <<api.wears, api.outfit, api.name>>
    [] r = "outfits"  -> <<api.outfit, api.name, api.item>>
    [] r = "feed"     -> <<api.shares>>

Names == {"Monday", "Friday"}
NoDraft == "as it is"
NoOccasion == ""
Occasions == {NoOccasion, "brunch", " brunch"}

\* The occasion as it is sent.
Trimmed(o) == IF o = " brunch" THEN "brunch" ELSE o
NoPage == [mount |-> 0]
Open(n, kind) ==
  [mount |-> n, kind |-> kind, status |-> "loading", laundry |-> FALSE, retired |-> FALSE,
   name |-> "Monday", draft |-> NoDraft, occasion |-> NoOccasion, sheet |-> 0, refs |-> {}]

DetailsTypeOK ==
  /\ api.wears <= MaxWrites /\ api.shares <= MaxWrites /\ api.name \in Names
  /\ page # NoPage => page.kind = route /\ page.status \in {"loading", "ready", "notFound", "error"}
                      /\ page.name \in Names /\ page.draft \in Names \cup {NoDraft}
                      /\ page.occasion \in Occasions
  /\ marks \subseteq Readers /\ excused \subseteq Readers
  /\ \A c \in calls : c.at \in {"sent", "done", "gone", "failed"} /\ c.joined \in 1..2
                      /\ (c.control = "log" => c.sent \in {NoOccasion, "brunch"})

DetailsInit ==
  /\ route \in Kinds
  /\ api = [item |-> TRUE, laundry |-> FALSE, retired |-> FALSE,
            outfit |-> TRUE, name |-> "Monday", wears |-> 0, shares |-> 0]
  /\ page = NoPage /\ seen = NoPage /\ calls = {} /\ opening = {} /\ marks = {} /\ reads = {}
  /\ lists = [r \in Readers |-> View(r)]
  /\ used = [visits |-> 0, writes |-> 0, types |-> 0, troubles |-> 0]
  /\ excused = {} /\ tainted = FALSE

Use(what, max) == used[what] < max /\ used' = [used EXCEPT ![what] = @ + 1]

\* React commits the page; a sheet that is gone takes its guard with it.
CommitPage ==
  /\ seen # page
  /\ page' = IF seen.mount > 0 /\ page.mount > 0 /\ seen.sheet # page.sheet
               THEN [page EXCEPT !.refs = @ \ {"share"}] ELSE page
  /\ seen' = page'
  /\ UNCHANGED <<route, api, calls, opening, marks, lists, reads, used, excused, tainted>>

\* What is answered and not yet delivered is out of date when the server changes.
Overtaken(requests) == {[q EXCEPT !.clean = @ /\ q.at = "sent"] : q \in requests}

\* Another device deletes the garment or the outfit.
Elsewhere ==
  /\ Use("troubles", MaxTroubles)
  /\ \/ api.item /\ api' = [api EXCEPT !.item = FALSE]
     \/ api.outfit /\ api' = [api EXCEPT !.outfit = FALSE]
  /\ calls' = Overtaken(calls) /\ opening' = Overtaken(opening)
  /\ excused' = Readers /\ tainted' = TRUE
  /\ UNCHANGED <<route, page, seen, marks, lists, reads>>

----------------------------------------------------------------------------
(***************************************************************************)
(* The lists under the screens.                                            *)
(***************************************************************************)
Reading(r) == \E q \in reads : q.reader = r

\* The tab of a reader comes into focus: a mark is consumed, and reloads the
\* list unless it is loading.
Focus(r) ==
  /\ page = NoPage /\ r \in marks /\ marks' = marks \ {r} /\ Use("visits", MaxVisits)
  /\ excused' = IF Reading(r) THEN excused \cup {r} ELSE excused
  /\ reads' = IF Reading(r) THEN reads ELSE reads \cup {[reader |-> r, at |-> "sent", view |-> lists[r]]}
  /\ UNCHANGED <<route, api, page, seen, calls, opening, lists, tainted>>

ServeRead(q) ==
  /\ q.at = "sent" /\ reads' = (reads \ {q}) \cup {[q EXCEPT !.at = "done", !.view = View(q.reader)]}
  /\ excused' = excused \ {q.reader}
  /\ UNCHANGED <<route, api, page, seen, calls, opening, marks, lists, used, tainted>>

LoseRead(q) ==
  /\ q.at # "failed" /\ Use("troubles", MaxTroubles)
  /\ reads' = (reads \ {q}) \cup {[q EXCEPT !.at = "failed"]}
  /\ UNCHANGED <<route, api, page, seen, calls, opening, marks, lists, excused, tainted>>

\* A failure leaves the list and says so.
DeliverRead(q) ==
  /\ q.at # "sent" /\ reads' = reads \ {q}
  /\ lists' = IF q.at = "done" THEN [lists EXCEPT ![q.reader] = q.view] ELSE lists
  /\ excused' = IF q.at = "done" THEN excused ELSE excused \cup {q.reader}
  /\ UNCHANGED <<route, api, page, seen, calls, opening, marks, used, tainted>>

----------------------------------------------------------------------------
(***************************************************************************)
(* A screen is opened, loads, and is left.                                 *)
(***************************************************************************)
Load(n, kind) == opening' = opening \cup {[mount |-> n, kind |-> kind, at |-> "sent",
                                           clean |-> TRUE, answer |-> api]}

OpenPage ==
  /\ page = NoPage /\ seen = page /\ Use("visits", MaxVisits)
  /\ page' = IF route = "log" THEN [Open(used'.visits, route) EXCEPT !.status = "ready"]
             ELSE Open(used'.visits, route)
  /\ IF route = "log" THEN UNCHANGED opening ELSE Load(used'.visits, route)
  /\ UNCHANGED <<route, api, seen, calls, marks, lists, reads, excused, tainted>>

\* The back button; what the screen began goes on without it.
LeavePage ==
  /\ page # NoPage /\ seen = page /\ page' = NoPage
  /\ UNCHANGED <<route, api, seen, calls, opening, marks, lists, reads, used, excused, tainted>>

\* The retry of a load that failed.
RetryPage ==
  /\ seen.mount > 0 /\ seen = page /\ page.status = "error" /\ Use("visits", MaxVisits)
  /\ page' = [page EXCEPT !.status = "loading"] /\ Load(page.mount, page.kind)
  /\ UNCHANGED <<route, api, seen, calls, marks, lists, reads, excused, tainted>>

There(kind) == IF kind = "item" THEN api.item ELSE api.outfit

ServePage(q) ==
  /\ q.at = "sent"
  /\ opening' = (opening \ {q}) \cup
       {[q EXCEPT !.at = IF There(q.kind) THEN "done" ELSE "gone", !.answer = api]}
  /\ UNCHANGED <<route, api, page, seen, calls, marks, lists, reads, used, excused, tainted>>

LosePage(q) ==
  /\ q.at # "failed" /\ Use("troubles", MaxTroubles)
  /\ opening' = (opening \ {q}) \cup {[q EXCEPT !.at = "failed"]}
  /\ UNCHANGED <<route, api, page, seen, calls, marks, lists, reads, excused, tainted>>

Drawn(p, answer) ==
  [p EXCEPT !.status = "ready", !.laundry = answer.laundry, !.retired = answer.retired,
            !.name = answer.name]

\* The answer to a screen that was left is dropped.
DeliverPage(q) ==
  /\ q.at # "sent" /\ opening' = opening \ {q}
  /\ IF page.mount # q.mount THEN UNCHANGED <<page, tainted>>
     ELSE /\ page' = CASE q.at = "done" -> Drawn(page, q.answer)
                       [] q.at = "gone" -> [page EXCEPT !.status = "notFound"]
                       [] OTHER -> [page EXCEPT !.status = "error"]
          /\ tainted' = ~q.clean
  /\ UNCHANGED <<route, api, seen, calls, marks, lists, reads, used, excused>>

----------------------------------------------------------------------------
(***************************************************************************)
(* The fields.                                                             *)
(***************************************************************************)
Ready(kind) == seen.mount > 0 /\ seen.mount = page.mount /\ seen.kind = kind /\ seen.status = "ready"

\* The field is not editable while its request is out.
TypeDraft(n) ==
  /\ Ready("outfit") /\ "rename" \notin seen.refs /\ page.status = "ready" /\ n # page.draft
  /\ Use("types", MaxTypes) /\ page' = [page EXCEPT !.draft = n]
  /\ UNCHANGED <<route, api, seen, calls, opening, marks, lists, reads, excused, tainted>>

TypeOccasion(o) ==
  /\ Ready("outfit") /\ "log" \notin seen.refs /\ o # page.occasion
  /\ Use("types", MaxTypes) /\ page' = [page EXCEPT !.occasion = o]
  /\ UNCHANGED <<route, api, seen, calls, opening, marks, lists, reads, excused, tainted>>

\* The sheet is opened with a caption, or cancelled; its button is off while it shares.
ToggleSheet ==
  /\ Ready("outfit") /\ "share" \notin seen.refs /\ Use("types", MaxTypes)
  /\ page' = [page EXCEPT !.sheet = IF seen.sheet = 0 THEN used'.types ELSE 0]
  /\ UNCHANGED <<route, api, seen, calls, opening, marks, lists, reads, excused, tainted>>

----------------------------------------------------------------------------
(***************************************************************************)
(* The writes.                                                             *)
(***************************************************************************)
Controls == [item |-> {"laundry", "retire", "delete"},
             outfit |-> {"rename", "log", "share", "delete"}, log |-> {"log"}]

\* What the closure of the last commit sends.
Sent(control) ==
  CASE control = "laundry" -> ~seen.laundry
    [] control = "retire"  -> ~seen.retired
    [] control = "rename"  -> seen.draft
    [] control = "log"     -> Trimmed(seen.occasion)
    [] control = "share"   -> seen.sheet
    [] OTHER -> seen.kind

Enabled(control) ==
  CASE control = "rename" -> seen.draft \notin {NoDraft, seen.name}
    [] control = "share"  -> seen.sheet > 0
    [] OTHER -> TRUE

\* Mutant: the guard is the button of the last commit alone.
GuardedByState(control) == control \notin seen.refs

\* A press finds the button of the last commit on and the ref free.
Guarded(control) == control \notin seen.refs /\ control \notin page.refs

Running(control) == {c \in calls : c.mount = page.mount /\ c.control = control}

\* onToggleLaundry, onToggleRetired, onRename, onLogWear, onShare and both
\* onConfirmDelete begin alike.
Press(control) ==
  /\ seen.mount > 0 /\ Ready(seen.kind) /\ control \in Controls[seen.kind] /\ seen.kind # "log"
  /\ Enabled(control) /\ Guarded(control) /\ Use("writes", MaxWrites)
  /\ page' = [page EXCEPT !.refs = @ \cup {control}]
  /\ calls' = calls \cup {[n |-> Cardinality(Running(control)), mount |-> page.mount, kind |-> seen.kind,
                           control |-> control, sent |-> Sent(control), at |-> "sent",
                           clean |-> TRUE, answer |-> api, joined |-> 1]}
  /\ UNCHANGED <<route, api, seen, opening, marks, lists, reads, excused, tainted>>

\* onLog of the day: it has no ref, and useGuardedMutation's run hands a second
\* press of the frame the call of the first.
PressLog ==
  /\ seen.mount > 0 /\ Ready("log") /\ "log" \notin seen.refs /\ Use("writes", MaxWrites)
  /\ page' = [page EXCEPT !.refs = @ \cup {"log"}]
  /\ calls' = IF Running("log") # {}
                THEN (calls \ Running("log")) \cup {[c EXCEPT !.joined = 2] : c \in Running("log")}
                ELSE calls \cup {[n |-> 0, mount |-> page.mount, kind |-> "log",
                                  control |-> "log", sent |-> NoOccasion, at |-> "sent",
                                  clean |-> TRUE, answer |-> api, joined |-> 1]}
  /\ UNCHANGED <<route, api, seen, opening, marks, lists, reads, excused, tainted>>

\* What the endpoint makes of the call.
Written(c) ==
  CASE c.control = "laundry" -> [api EXCEPT !.laundry = c.sent]
    [] c.control = "retire"  -> [api EXCEPT !.retired = c.sent]
    [] c.control = "rename"  -> [api EXCEPT !.name = c.sent]
    [] c.control = "log"     -> [api EXCEPT !.wears = @ + 1]
    [] c.control = "share"   -> [api EXCEPT !.shares = @ + 1]
    [] c.control = "delete"  -> IF c.kind = "item" THEN [api EXCEPT !.item = FALSE]
                                ELSE [api EXCEPT !.outfit = FALSE]

\* Of what is not there: a 404, or a 400 for a wear.
ServeCall(c) ==
  /\ c.at = "sent" /\ seen = page
  /\ IF ~There(c.kind)
       THEN /\ calls' = (calls \ {c}) \cup {[c EXCEPT !.at = IF c.control = "log" THEN "failed" ELSE "gone"]}
            /\ UNCHANGED <<route, api, opening>>
       ELSE /\ api' = Written(c)
            /\ calls' = Overtaken(calls \ {c}) \cup {[c EXCEPT !.at = "done", !.answer = api']}
            /\ opening' = Overtaken(opening)
  /\ UNCHANGED <<route, page, seen, marks, lists, reads, used, excused, tainted>>

\* The request is lost, or its answer: then nobody is told what it wrote.
LoseCall(c) ==
  /\ c.at \in {"sent", "done"} /\ seen = page /\ Use("troubles", MaxTroubles)
  /\ calls' = (calls \ {c}) \cup {[c EXCEPT !.at = "failed"]}
  /\ IF c.at = "done" THEN excused' = Readers /\ tainted' = TRUE ELSE UNCHANGED <<excused, tainted>>
  /\ UNCHANGED <<route, api, page, seen, opening, marks, lists, reads>>

\* Mutant: a rename and the deletion of an outfit tell the outfits alone.
TellsOutfitsOnly(c) ==
  IF c.at = "failed" \/ (c.at = "gone" /\ c.control \notin {"rename", "delete"}) THEN {}
  ELSE CASE c.control \in {"laundry", "retire", "log"} -> TrackingReaders
         [] c.control = "share" -> {"feed"}
         [] c.control = "rename" \/ (c.control = "delete" /\ c.kind = "outfit") -> {"outfits"}
         [] OTHER -> TrackingReaders \cup {"outfits"}

\* The readers a settled write marks.
Tells(c) ==
  IF c.at = "failed" \/ (c.at = "gone" /\ c.control \notin {"rename", "delete"}) THEN {}
  ELSE CASE c.control \in {"laundry", "retire", "log"} -> TrackingReaders
         [] c.control = "share" -> {"feed"}
         [] c.control = "rename" \/ (c.control = "delete" /\ c.kind = "outfit") -> {"outfits", "profile", "calendar"}
         [] OTHER -> TrackingReaders \cup {"outfits"}

\* Mutant: what was asked for is drawn whatever the answer.
SettledPageAnyway(c) ==
  LET freed == [page EXCEPT !.refs = @ \ {c.control}]
  IN CASE c.control = "laundry" -> [freed EXCEPT !.laundry = c.sent]
       [] c.control = "retire"  -> [freed EXCEPT !.retired = c.sent]
       [] c.control = "rename"  -> [freed EXCEPT !.name = c.sent, !.draft = NoDraft]
       [] OTHER -> freed

\* What the end of a write does to the screen that began it.
SettledPage(c) ==
  LET freed == [page EXCEPT !.refs = @ \ {c.control}]
  IN CASE c.at = "done" /\ c.control \in {"laundry", "retire"} -> Drawn(freed, c.answer)
       [] c.at = "done" /\ c.control = "rename" -> [Drawn(freed, c.answer) EXCEPT !.draft = NoDraft]
       [] c.at = "gone" /\ c.control = "rename" -> [freed EXCEPT !.status = "notFound"]
       [] c.at = "done" /\ c.control = "log" ->
            [freed EXCEPT !.occasion = IF @ = c.sent THEN NoOccasion ELSE @]
       [] c.at = "done" /\ c.control = "share" ->
            [freed EXCEPT !.sheet = 0]
       [] OTHER -> freed

\* goBack and router.back leave whatever screen is on top by now.
GoesBack(c) == (c.control = "delete" /\ c.at \in {"done", "gone"}) \/ (c.kind = "log" /\ c.at = "done")

Replaces(c) == c.at = "done" /\ c.control \in {"laundry", "retire", "rename"}

SettleCall(c) ==
  /\ c.at # "sent" /\ seen = page /\ calls' = calls \ {c}
  /\ marks' = marks \cup Tells(c)
  /\ page' = IF GoesBack(c) THEN NoPage
             ELSE IF page.mount = c.mount /\ (c.control = "share" => page.sheet = c.sent)
                    THEN SettledPage(c)
             ELSE IF page.mount = c.mount /\ c.at = "done"
                    THEN [page EXCEPT !.sheet = 0, !.refs = @ \ {"share"}]
             ELSE page
  /\ seen' = page'
  /\ tainted' = IF page.mount # c.mount THEN tainted \/ Replaces(c)
                ELSE IF Replaces(c) THEN ~c.clean ELSE tainted
  /\ UNCHANGED <<route, api, opening, lists, reads, used, excused>>

----------------------------------------------------------------------------
DetailsNext ==
  \/ CommitPage \/ Elsewhere \/ OpenPage \/ LeavePage \/ RetryPage \/ ToggleSheet \/ PressLog
  \/ \E n \in Names : TypeDraft(n)
  \/ \E o \in Occasions : TypeOccasion(o)
  \/ \E r \in Readers : Focus(r)
  \/ \E q \in reads : ServeRead(q) \/ LoseRead(q) \/ DeliverRead(q)
  \/ \E q \in opening : ServePage(q) \/ LosePage(q) \/ DeliverPage(q)
  \/ \E control \in Controls[route] : Press(control)
  \/ \E c \in calls : ServeCall(c) \/ LoseCall(c) \/ SettleCall(c)

DetailsSpec == DetailsInit /\ [][DetailsNext]_detailsVars

----------------------------------------------------------------------------
(***************************************************************************)
(* Properties                                                              *)
(***************************************************************************)

\* trackingDirty.ts:113-155, outfitsDirty.ts: once a write has settled, each
\* list that draws what it changed shows the change, is marked, or is loading;
\* but for a list whose load failed, whose mark was consumed while it loaded,
\* a write whose answer was lost, or one of another device.
ReadersHear ==
  \A r \in Readers \ (excused \cup marks) :
    ~Reading(r) /\ (\A c \in calls : c.at = "sent") => lists[r] = View(r)

\* items/[id].tsx:178-184: the screen draws facts and not guesses: with no
\* write under way it shows what the server holds, unless two answers crossed,
\* an answer was lost or went to a screen that is gone, or another device wrote.
DetailIsTrue ==
  page.mount > 0 /\ page.kind # "log" /\ page.status = "ready" /\ calls = {} /\ ~tainted =>
    IF page.kind = "item" THEN page.laundry = api.laundry /\ page.retired = api.retired
    ELSE page.name = api.name

\* items/[id].tsx:187-208, outfits/[id].tsx:276-289, useGuardedMutation.ts: a
\* double tap is one request, which for a wear nothing could undo, and a
\* control whose request has ended can be pressed again.
OneRequestEach ==
  page.mount > 0 /\ seen = page => \A control \in Controls[page.kind] :
    Cardinality({c \in calls : c.mount = page.mount /\ c.control = control
                               /\ (control = "share" => c.sent = page.sheet)})
      = IF control \in page.refs THEN 1 ELSE 0

\* "Not found" is never an error the user could retry.
NotFoundIsTrue == page.mount > 0 /\ page.status = "notFound" => ~There(page.kind)

\* What the open screen says of its subject is so.
PageIsTrue == DetailsTypeOK /\ DetailIsTrue /\ NotFoundIsTrue
=============================================================================
