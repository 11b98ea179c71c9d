------------------------------ MODULE Calendar ------------------------------
(***************************************************************************)
(* The calendar tab: the wears of the month on screen, paged backwards     *)
(* until the month is complete (calendar.tsx, useWearHistory.ts), and the  *)
(* plans of that month (usePlannedOutfits.ts, plansDirty.ts), with the     *)
(* screens that log a wear or plan an outfit pushed over it.               *)
(*                                                                         *)
(* An answer takes longer than React's commit, so what a handler sets is   *)
(* committed, and its effects have run, before the next answer or press.   *)
(***************************************************************************)
EXTENDS Integers, FiniteSets, Sequences

CONSTANTS
  PageSize,     \* wears on a page
  FirstMonth,   \* the oldest month the arrows reach; this month is 0
  LastMonth,
  Past,         \* the months of the wears logged so far
  MaxLogs,      \* bound: wears logged and outfits planned
  MaxTurns,     \* bound: months turned
  MaxLoads,     \* bound: refreshes, focuses of the tab and cancelled plans
  MaxSlips      \* bound: requests that fail

Months == FirstMonth..LastMonth

ASSUME CalendarBoundsAssumption ==
  /\ PageSize \in Nat \ {0} /\ FirstMonth \in Int /\ LastMonth \in Nat /\ FirstMonth <= 0
  /\ Past \in Seq(FirstMonth..0)
  /\ {MaxLogs, MaxTurns, MaxLoads, MaxSlips} \subseteq Nat

VARIABLES
  wears,    \* the wear events at the API
  plans,    \* the outfit plans at the API
  focused,  \* no screen is pushed over the tab
  month,    \* the month on screen
  hist,     \* useWearHistory
  planned,  \* usePlannedOutfits
  asks,     \* GET /wear-history on their way
  planAsks, \* GET /outfit-plans on their way
  cancels,  \* DELETE /outfit-plans on their way
  marked,   \* the calendar's tracking and plans marks
  runs,     \* how much of each bound is used up
  restarted,\* history: while the month was not complete, its paging failed or met a refresh
  misread   \* history: the plans may be wrong for a reason below

calendarVars == <<wears, plans, focused, month, hist, planned, asks, planAsks, cancels, marked,
                  runs, restarted, misread>>

NoWear == [month |-> 0, n |-> 0]
NoPlan == NoWear
Newer(w, v) == w.month > v.month \/ (w.month = v.month /\ w.n > v.n)
Oldest(s) == CHOOSE w \in s : \A v \in s \ {w} : Newer(v, w)
Of(s, m) == {x \in s : x.month = m}

\* A page of the history, newest first, and the cursor of the next.
PageAfter(all, cursor) ==
  LET rest == IF cursor = NoWear THEN all ELSE {w \in all : Newer(cursor, w)}
      page == {w \in rest : Cardinality({v \in rest : Newer(v, w)}) < PageSize}
  IN [rows |-> page, next |-> IF page = rest THEN NoWear ELSE Oldest(page)]

\* monthIsCovered: no page is left, or a wear before the month is shown.
Covered(h, m) == h.next = NoWear \/ (h.rows # {} /\ Oldest(h.rows).month < m)

CalendarTypeOK ==
  /\ month \in Months /\ marked \subseteq {"tracking", "plans"}
  /\ hist.rows \subseteq wears /\ hist.next \in hist.rows \cup {NoWear}
  /\ hist.doing \in {"idle", "loading", "refreshing", "loadingMore"}
  /\ \A q \in asks \cup planAsks \cup cancels : q.at \in {"sent", "done", "failed"}

HistoryAsk(h) == [id |-> h.id, append |-> h.doing = "loadingMore",
                  cursor |-> IF h.doing = "loadingMore" THEN h.next ELSE NoWear, at |-> "sent",
                  page |-> [rows |-> {}, next |-> NoWear], base |-> h.base]
PlansAsk(id, range) == [id |-> id, range |-> range, at |-> "sent", rows |-> {}]

CalendarInit ==
  /\ wears = {[month |-> Past[i], n |-> i] : i \in DOMAIN Past}
  /\ plans = {} /\ focused = TRUE /\ month = 0
  /\ hist = [rows |-> {}, next |-> NoWear, doing |-> "loading", id |-> 1, failed |-> FALSE, base |-> 0]
  /\ planned = [rows |-> {}, doing |-> TRUE, id |-> 1, failed |-> FALSE]
  /\ asks = {HistoryAsk(hist)} /\ planAsks = {PlansAsk(1, 0)} /\ cancels = {}
  /\ marked = {} /\ runs = [logs |-> Len(Past), turns |-> 0, loads |-> 0, slips |-> 0]
  /\ restarted = FALSE /\ misread = FALSE

Run(what, max) == runs[what] < max /\ runs' = [runs EXCEPT ![what] = @ + 1]

----------------------------------------------------------------------------
(***************************************************************************)
(* The hooks.                                                              *)
(***************************************************************************)
\* run of useWearHistory: it supersedes what is on its way.
Begun(h, doing) == [h EXCEPT !.doing = doing, !.id = @ + 1, !.failed = FALSE]

\* loadMore: not while anything loads, and not past the last page.
More(h) == IF h.doing = "idle" /\ h.next # NoWear THEN Begun(h, "loadingMore") ELSE h

\* The effect that pages backwards: keyed on the coverage and on loadMore, so
\* on the cursor.
Paged(h, m) ==
  IF ~Covered(h, m) /\ (Covered(hist, month) \/ h.next # hist.next) THEN More(h) ELSE h

\* refresh: not while the first page is loading.
Refreshed(h) == IF h.doing \in {"loading", "refreshing"} THEN h ELSE Begun(h, "refreshing")

\* The history as it is now, and the request of a run it began.
History(h) ==
  /\ hist' = h
  /\ asks' = IF h.id # hist.id THEN asks \cup {HistoryAsk(h)} ELSE asks

Restarts(now) == restarted' = ((restarted \/ now) /\ ~Covered(hist', month'))

\* run and refresh of usePlannedOutfits, for the month of their closure.
ReadPlans(range) ==
  /\ planned' = [planned EXCEPT !.doing = TRUE, !.id = @ + 1, !.failed = FALSE]
  /\ planAsks' = planAsks \cup {PlansAsk(planned'.id, range)}
RefreshPlans(range) == IF planned.doing THEN UNCHANGED <<planned, planAsks>> ELSE ReadPlans(range)

ServeHistory(q) ==
  /\ q.at = "sent"
  /\ asks' = (asks \ {q}) \cup {[q EXCEPT !.at = "done", !.page = PageAfter(wears, q.cursor),
                                          !.base = IF q.append THEN @ ELSE runs.logs]}
  /\ UNCHANGED <<wears, plans, focused, month, hist, planned, planAsks, cancels, marked, runs, restarted, misread>>

LoseHistory(q) ==
  /\ q.at # "failed" /\ Run("slips", MaxSlips) /\ asks' = (asks \ {q}) \cup {[q EXCEPT !.at = "failed"]}
  /\ UNCHANGED <<wears, plans, focused, month, hist, planned, planAsks, cancels, marked, restarted, misread>>

Applied(q) ==
  IF q.at = "failed" THEN [hist EXCEPT !.doing = "idle", !.failed = TRUE]
  ELSE [hist EXCEPT !.doing = "idle", !.base = q.base, !.next = q.page.next,
                    !.rows = IF q.append THEN @ \cup q.page.rows ELSE q.page.rows]

\* Mutant: what was superseded is applied.
DeliverHistoryAny(q) ==
  /\ UNCHANGED month
  /\ q.at # "sent"
  /\ LET h == Paged(Applied(q), month) IN
       hist' = h /\ asks' = (asks \ {q}) \cup (IF h.id # hist.id THEN {HistoryAsk(h)} ELSE {})
  /\ Restarts(q.at = "failed")
  /\ UNCHANGED <<wears, plans, focused, planned, planAsks, cancels, marked, runs, misread>>

\* Only the answer to the newest request is used; the effects follow.
DeliverHistory(q) ==
  /\ UNCHANGED month
  /\ q.at # "sent"
  /\ IF q.id # hist.id THEN asks' = asks \ {q} /\ UNCHANGED <<hist, restarted>>
     ELSE LET h == Paged(Applied(q), month) IN
       /\ hist' = h /\ asks' = (asks \ {q}) \cup (IF h.id # hist.id THEN {HistoryAsk(h)} ELSE {})
       /\ Restarts(q.at = "failed")
  /\ UNCHANGED <<wears, plans, focused, planned, planAsks, cancels, marked, runs, misread>>

ServePlans(q) ==
  /\ q.at = "sent"
  /\ planAsks' = (planAsks \ {q}) \cup {[q EXCEPT !.at = "done", !.rows = Of(plans, q.range)]}
  /\ misread' = (misread /\ ~(q.id = planned.id /\ q.range = month))
  /\ UNCHANGED <<wears, plans, focused, month, hist, planned, asks, cancels, marked, runs, restarted>>

LosePlans(q) ==
  /\ q.at # "failed" /\ Run("slips", MaxSlips)
  /\ planAsks' = (planAsks \ {q}) \cup {[q EXCEPT !.at = "failed"]}
  /\ misread' = (misread \/ q.id = planned.id)
  /\ UNCHANGED <<wears, plans, focused, month, hist, planned, asks, cancels, marked, restarted>>

\* Mutant: the request is not looked at.
DeliverPlansAny(q) ==
  /\ q.at # "sent" /\ planAsks' = planAsks \ {q}
  /\ planned' = IF q.at = "done" THEN [planned EXCEPT !.doing = FALSE, !.rows = q.rows]
                ELSE [planned EXCEPT !.doing = FALSE, !.failed = TRUE]
  /\ UNCHANGED <<wears, plans, focused, month, hist, asks, cancels, marked, runs, restarted, misread>>

DeliverPlans(q) ==
  /\ q.at # "sent" /\ planAsks' = planAsks \ {q}
  /\ planned' = IF q.id # planned.id THEN planned
                ELSE IF q.at = "done" THEN [planned EXCEPT !.doing = FALSE, !.rows = q.rows]
                ELSE [planned EXCEPT !.doing = FALSE, !.failed = TRUE]
  /\ UNCHANGED <<wears, plans, focused, month, hist, asks, cancels, marked, runs, restarted, misread>>

----------------------------------------------------------------------------
(***************************************************************************)
(* The screen.                                                             *)
(***************************************************************************)
Reload(h) == IF "tracking" \in marked THEN Refreshed(h) ELSE h

\* goToMonth: the plans of the month are loaded, the paging effect runs, and
\* then the focus effect, whose callbacks changed with the month: its refresh
\* of the plans finds them loading.
TurnMonth(m) ==
  /\ focused /\ m \in {month - 1, month + 1} \cap Months /\ Run("turns", MaxTurns)
  /\ month' = m /\ ReadPlans(m)
  /\ History(Reload(Paged(hist, m)))
  /\ Restarts(hist'.doing = "refreshing") /\ marked' = {} /\ misread' = FALSE
  /\ UNCHANGED <<wears, plans, focused, cancels>>

\* A screen is pushed over the tab.
Blur ==
  /\ focused /\ focused' = FALSE
  /\ UNCHANGED <<wears, plans, month, hist, planned, asks, planAsks, cancels, marked, runs, restarted, misread>>

\* It is popped: both marks are consumed, each for its own list.
FocusCalendar ==
  /\ UNCHANGED month
  /\ ~focused /\ focused' = TRUE /\ Run("loads", MaxLoads) /\ marked' = {}
  /\ History(Reload(hist))
  /\ Restarts(hist' # hist)
  /\ IF "plans" \in marked THEN RefreshPlans(month) /\ misread' = (misread \/ planned.doing)
     ELSE UNCHANGED <<planned, planAsks, misread>>
  /\ UNCHANGED <<wears, plans, cancels>>

\* The retry of the history's error plate, and of the plans'.
RetryHistory ==
  /\ UNCHANGED month
  /\ focused /\ hist.failed /\ Run("loads", MaxLoads) /\ History(Refreshed(hist)) /\ Restarts(TRUE)
  /\ UNCHANGED <<wears, plans, focused, planned, planAsks, cancels, marked, misread>>

RetryPlans ==
  /\ focused /\ planned.failed /\ Run("loads", MaxLoads) /\ RefreshPlans(month)
  /\ UNCHANGED <<wears, plans, focused, month, hist, asks, cancels, marked, restarted, misread>>

\* onLog of the day, or of an outfit's screen: the wear, then the mark.
LogWear(m) ==
  /\ ~focused /\ m <= 0 /\ Run("logs", MaxLogs)
  /\ wears' = wears \cup {[month |-> m, n |-> runs'.logs]} /\ marked' = marked \cup {"tracking"}
  /\ UNCHANGED <<plans, focused, month, hist, planned, asks, planAsks, cancels, restarted, misread>>

\* onPlan, of a day that has not passed.
PlanOutfit(m) ==
  /\ ~focused /\ m >= 0 /\ Run("logs", MaxLogs)
  /\ plans' = plans \cup {[month |-> m, n |-> runs'.logs]} /\ marked' = marked \cup {"plans"}
  /\ UNCHANGED <<wears, focused, month, hist, planned, asks, planAsks, cancels, restarted, misread>>

\* onCancelPlan of a plan of the month; cancellingRef.
PressCancel(p) ==
  /\ focused /\ p \in Of(planned.rows, month) /\ cancels = {} /\ Run("loads", MaxLoads)
  /\ cancels' = {[plan |-> p, range |-> month, at |-> "sent"]}
  /\ UNCHANGED <<wears, plans, focused, month, hist, planned, asks, planAsks, marked, restarted, misread>>

ServeCancel(c) ==
  /\ c.at = "sent" /\ cancels' = {[c EXCEPT !.at = "done"]} /\ plans' = plans \ {c.plan}
  /\ UNCHANGED <<wears, focused, month, hist, planned, asks, planAsks, marked, runs, restarted, misread>>

LoseCancel(c) ==
  /\ c.at # "failed" /\ Run("slips", MaxSlips) /\ cancels' = {[c EXCEPT !.at = "failed"]}
  /\ UNCHANGED <<wears, plans, focused, month, hist, planned, asks, planAsks, marked, restarted, misread>>

\* Its end, whatever it was: the mark, and the plans of the month in which it
\* was pressed, which is not always the month on screen.
SettleCancel(c) ==
  /\ c.at # "sent" /\ cancels' = {}
  /\ marked' = marked \cup {"plans"} /\ RefreshPlans(c.range)
  /\ misread' = (misread \/ (~planned.doing /\ c.range # month))
  /\ UNCHANGED <<wears, plans, focused, month, hist, asks, runs, restarted>>

----------------------------------------------------------------------------
CalendarNext ==
  \/ Blur \/ FocusCalendar \/ RetryHistory \/ RetryPlans
  \/ \E m \in Months : TurnMonth(m) \/ LogWear(m) \/ PlanOutfit(m)
  \/ \E p \in planned.rows : PressCancel(p)
  \/ \E q \in asks : ServeHistory(q) \/ LoseHistory(q) \/ DeliverHistory(q)
  \/ \E q \in planAsks : ServePlans(q) \/ LosePlans(q) \/ DeliverPlans(q)
  \/ \E c \in cancels : ServeCancel(c) \/ LoseCancel(c) \/ SettleCancel(c)

CalendarSpec == CalendarInit /\ [][CalendarNext]_calendarVars

----------------------------------------------------------------------------
(***************************************************************************)
(* Properties                                                              *)
(***************************************************************************)

\* useWearHistory.ts: however pages, refreshes and failures interleave, the
\* wears shown have no gap but for wears logged since the list was last begun.
HistoryIsGapless ==
  hist.rows # {} => \A w \in wears \ hist.rows :
    w.n > hist.base \/ (hist.next # NoWear /\ Newer(Oldest(hist.rows), w))

\* A spinner is that of a request on its way.
SpinnersEnd ==
  /\ hist.doing # "idle" => \E q \in asks : q.id = hist.id
  /\ planned.doing => \E q \in planAsks : q.id = planned.id

\* usePlannedOutfits.ts:41-47, calendar.tsx:171-175: with nothing under way and
\* no mark left, the month shows exactly its plans, a cancelled one gone and one
\* whose cancellation failed back; unless a load of them failed, the mark was
\* consumed while they loaded, or the cancellation ended in another month.
PlansAreTrue ==
  ~planned.doing /\ cancels = {} /\ "plans" \notin marked /\ ~misread =>
    planned.rows = Of(plans, month)

\* calendar.tsx:95-104: the paging does not stop before the month is complete,
\* but where a failure or a refresh came between.
PagingCompletes ==
  focused /\ hist.doing = "idle" /\ ~restarted => Covered(hist, month)

\* calendar.tsx:96-101: a month is never shown as a grid of empty days that
\* looks like an honest answer: it is complete, loading, or says that it failed.
MonthIsWhole ==
  hist.doing = "idle" /\ ~hist.failed => Covered(hist, month)

\* The history is paged without a gap, and to the end.
HistoryIsTold == CalendarTypeOK /\ HistoryIsGapless /\ PagingCompletes

\* The month's plans are shown, and a spinner only while they are asked for.
PlansAreShown == PlansAreTrue /\ SpinnersEnd
=============================================================================
