------------------------------- MODULE Diary --------------------------------
(***************************************************************************)
(* The days of the calendar (month.ts, MonthGrid.tsx, WeekStrip.tsx) and   *)
(* the two screens that write on one (calendar/[date].tsx,                 *)
(* calendar/plan/[date].tsx), against the API's rules for instants.        *)
(*                                                                         *)
(* An instant is a number of quarters of a day in UTC, and `YYYY-MM-DD',   *)
(* which orders as its day does, is that day's number; the device's zone   *)
(* is a number of quarters and has no daylight saving.  What is written is *)
(* reloaded at once: Calendar is about when it is.                         *)
(***************************************************************************)
EXTENDS Integers, FiniteSets, Sequences, SequencesExt

CONSTANTS
  Zones,      \* the offsets from UTC a device may have
  Mornings,   \* the instants at which the calendar may first be opened
  Bygone,     \* quarters before that at which something may have been worn
  GarmentsOf, \* the snapshot of garments of each note
  MaxTicks,   \* bound: quarters of a day that pass
  MaxNotes,   \* bound: wears and plans
  MaxLooks    \* bound: months turned and days selected

AllGarments == UNION {Range(GarmentsOf[n]) : n \in 1..MaxNotes}

ASSUME DiaryAssumption ==
  /\ Zones \subseteq -2..2 /\ Mornings \subseteq Nat /\ Bygone \subseteq Nat \ {0}
  /\ {MaxTicks, MaxNotes, MaxLooks} \subseteq Nat
  /\ 1..MaxNotes \subseteq DOMAIN GarmentsOf

VARIABLES
  zone,         \* the offset of the device
  clock,        \* now
  todayKey,     \* the day on which the tab was mounted
  cursor,       \* the month on screen
  selectedKey,  \* the day of the panel
  worn,         \* wears, newest first, as GET /wear-history tells them
  intended,     \* plans
  resolved,     \* garments the index holds
  form,         \* the screen over the calendar
  verdict,      \* the last answer to a form
  quota         \* how much of each bound is used up

diaryVars == <<zone, clock, todayKey, cursor, selectedKey, worn, intended, resolved, form,
               verdict, quota>>

----------------------------------------------------------------------------
(***************************************************************************)
(* Days.                                                                   *)
(***************************************************************************)
\* new Date(y, m, d): the number of a day; months count from 0 and carry.
DayOf(y, m, d) ==
  LET year  == y + (m + 10) \div 12 - 1
      march == (m + 10) % 12
  IN 365 * year + year \div 4 - year \div 100 + year \div 400 + (153 * march + 2) \div 5 + d - 1

\* getDay, counted from Monday.
Weekday(key) == (key + 2) % 7

\* Mutant: the day in UTC.
UtcDayKey(at) == at \div 4

\* localDayKey: the day of an instant in the device's own zone.
LocalDayKey(at) == (at + zone) \div 4

\* dateFromDayKey, startOfMonth: local midnight.
DateFromDayKey(key) == 4 * key - zone

\* monthCells: blanks before the 1st, and the days; a blank is 0.
MonthCells(c) ==
  [i \in 1..Weekday(DayOf(c.year, c.month, 1)) |-> 0] \o
  [d \in 1..(DayOf(c.year, c.month + 1, 1) - DayOf(c.year, c.month, 1)) |->
     DayOf(c.year, c.month, d)]

\* shiftMonth: it carries across the year.
ShiftMonth(c, by) ==
  [year |-> c.year + (c.month + by) \div 12, month |-> (c.month + by) % 12]

\* weekOf: the seven days of the week a day is in.
WeekOf(key) == [i \in 1..7 |-> key - Weekday(key) + i - 1]

\* indexWearsByDay: the latest of each day, and how many there are.
IndexWearsByDay(events) ==
  FoldLeft(LAMBDA byDay, e :
             LET k == LocalDayKey(e.at) IN
             IF k \notin DOMAIN byDay THEN (k :> [shown |-> e, count |-> 1]) @@ byDay
             ELSE [byDay EXCEPT ![k] = [shown |-> IF e.at > @.shown.at THEN e ELSE @.shown,
                                        count |-> @.count + 1]],
           <<>>, events)

\* indexPlansByDay: the first that was made for each day, and how many there are.
IndexPlansByDay(plans) ==
  FoldLeft(LAMBDA byDay, p :
             LET k == LocalDayKey(p.at) IN
             IF k \notin DOMAIN byDay THEN (k :> [shown |-> p, count |-> 1]) @@ byDay
             ELSE [byDay EXCEPT ![k] = [shown |-> IF p.n < @.shown.n THEN p ELSE @.shown,
                                        count |-> @.count + 1]],
           <<>>, plans)

\* monthIsCovered, of what is loaded: no more is left, or the oldest is of before the month.
MonthIsCovered(events, hasMore, c) ==
  \/ ~hasMore
  \/ \E i \in DOMAIN events : events[i].at < DateFromDayKey(DayOf(c.year, c.month, 1))

\* calendar.tsx planRange: the month's instants, first and last.
PlanRange(c) ==
  DateFromDayKey(DayOf(c.year, c.month, 1))..(DateFromDayKey(DayOf(c.year, c.month + 1, 1)) - 1)

\* GET /outfit-plans of a range: soonest first.
PlansIn(c) ==
  SetToSortSeq({p \in intended : p.at \in PlanRange(c)}, LAMBDA p, q : p.at < q.at \/ (p.at = q.at /\ p.n < q.n))

----------------------------------------------------------------------------
(***************************************************************************)
(* The screen.                                                             *)
(***************************************************************************)
NoForm == [kind |-> "none", day |-> 0, today |-> 0]
Nothing == 0

DiaryTypeOK ==
  /\ zone \in Zones /\ cursor.month \in 0..11
  /\ form.kind \in {"none", "log", "plan"}
  /\ verdict \in {"none", "accepted", "wear refused", "plan refused"}
  /\ \A i \in DOMAIN worn : worn[i].n \in 1..MaxNotes
  /\ \A p \in intended : p.n \in 1..MaxNotes

\* photoFor: the first garment of the snapshot that resolves.
PhotoFor(n) ==
  LET there == SelectSeq(GarmentsOf[n], LAMBDA g : g \in resolved) IN
  IF there = <<>> THEN Nothing ELSE Head(there)

\* The notes of the month on screen, by day.
WearsByDay == IndexWearsByDay(worn)
PlansByDay == IndexPlansByDay(PlansIn(cursor))

\* DayCell: what was worn, or else what is planned.
DayCell(key, wears, plans) ==
  LET cell(mark, day) == [mark |-> mark, note |-> day.shown.n, count |-> day.count,
                          photo |-> PhotoFor(day.shown.n)]
  IN CASE key \in DOMAIN wears -> cell("worn", wears[key])
       [] key \in DOMAIN plans \ DOMAIN wears -> cell("planned", plans[key])
       [] OTHER -> [mark |-> "blank", note |-> Nothing, count |-> 0, photo |-> Nothing]

\* The panel under the grid: what it offers to do with the day.
Offers(key) ==
  CASE key \in DOMAIN WearsByDay -> {"log"}
    [] key \in DOMAIN PlansByDay \ DOMAIN WearsByDay -> {"cancel", "plan"}
    [] OTHER -> IF key > todayKey THEN {"plan"} ELSE {"log"}

\* wornAtFor: nothing for today, and then the API takes its own now; noon of another day.
WornAt == IF form.day = form.today THEN clock ELSE DateFromDayKey(form.day) + 2

\* plannedForOn: noon.
PlannedFor == DateFromDayKey(form.day) + 2

NewestFirstBy(events) == SetToSortSeq(events, LAMBDA e, f : e.at > f.at \/ (e.at = f.at /\ e.n > f.n))

\* A note keeps, for the properties, which day it was meant for, and whether it
\* was written on a form that was opened on another day.
Note(n, at, meant, late) == [n |-> n, at |-> at, meant |-> meant, late |-> late]
Late == LocalDayKey(clock) # form.today

MonthOf(key) ==
  CHOOSE c \in [year : 2023..2026, month : 0..11] :
    key \in DayOf(c.year, c.month, 1)..(DayOf(c.year, c.month + 1, 1) - 1)

DiaryInit ==
  /\ zone \in Zones /\ clock \in Mornings
  /\ todayKey = LocalDayKey(clock) /\ cursor = MonthOf(todayKey) /\ selectedKey = todayKey
  /\ \E ago \in SUBSET Bygone :
       LET at(n) == CHOOSE b \in ago : Cardinality({a \in ago : a > b}) = n - 1 IN
       /\ worn = NewestFirstBy({Note(n, clock - at(n), LocalDayKey(clock - at(n)), FALSE) : n \in 1..Cardinality(ago)})
       /\ quota = [ticks |-> 0, notes |-> Cardinality(ago), looks |-> 0]
  /\ intended = {} /\ resolved \in {AllGarments} \cup {{g} : g \in AllGarments}
  /\ form = NoForm /\ verdict = "none"

Spend(what, max) == quota[what] < max /\ quota' = [quota EXCEPT ![what] = @ + 1]

\* Time passes; the tab's today does not.
Tick ==
  /\ Spend("ticks", MaxTicks) /\ clock' = clock + 1
  /\ UNCHANGED <<zone, todayKey, cursor, selectedKey, worn, intended, resolved, form, verdict>>

\* The application is started anew: the tab reads the clock as it mounts.
MountAnew ==
  /\ todayKey # LocalDayKey(clock) /\ Spend("looks", MaxLooks)
  /\ todayKey' = LocalDayKey(clock) /\ cursor' = MonthOf(todayKey') /\ selectedKey' = todayKey'
  /\ form' = NoForm /\ verdict' = "none"
  /\ UNCHANGED <<zone, clock, worn, intended, resolved>>

\* goToMonth: the selection follows to the 1st.
GoToMonth(by) ==
  /\ form = NoForm /\ Spend("looks", MaxLooks)
  /\ cursor' = ShiftMonth(cursor, by) /\ selectedKey' = DayOf(cursor'.year, cursor'.month, 1)
  /\ UNCHANGED <<zone, clock, todayKey, worn, intended, resolved, form, verdict>>

SelectDay(key) ==
  /\ form = NoForm /\ key # selectedKey /\ Spend("looks", MaxLooks) /\ selectedKey' = key
  /\ UNCHANGED <<zone, clock, todayKey, cursor, worn, intended, resolved, form, verdict>>

\* The panel's button pushes a screen, which reads the clock as it mounts.
OpenForm(kind) ==
  /\ form = NoForm /\ kind \in Offers(selectedKey) \cap {"log", "plan"}
  /\ form' = [kind |-> kind, day |-> selectedKey, today |-> LocalDayKey(clock)]
  /\ verdict' = "none"
  /\ UNCHANGED <<zone, clock, todayKey, cursor, selectedKey, worn, intended, resolved, quota>>

CloseForm ==
  /\ form # NoForm /\ form' = NoForm
  /\ UNCHANGED <<zone, clock, todayKey, cursor, selectedKey, worn, intended, resolved, verdict, quota>>

\* onLog, then POST /wear-history: not later than its now.
LogForDay ==
  /\ form.kind = "log" /\ Spend("notes", MaxNotes)
  /\ IF WornAt <= clock
       THEN /\ worn' = NewestFirstBy(Range(worn) \cup {Note(quota'.notes, WornAt, form.day, Late)})
            /\ verdict' = "accepted" /\ form' = NoForm
       ELSE verdict' = "wear refused" /\ UNCHANGED <<worn, form>>
  /\ UNCHANGED <<zone, clock, todayKey, cursor, selectedKey, intended, resolved>>

\* The plan screen has buttons unless its day is of before its today.
PlanForDay ==
  /\ form.kind = "plan" /\ form.day >= form.today /\ Spend("notes", MaxNotes)
  /\ IF PlannedFor >= clock
       THEN /\ intended' = intended \cup {Note(quota'.notes, PlannedFor, form.day, Late)}
            /\ verdict' = "accepted" /\ form' = NoForm
       ELSE verdict' = "plan refused" /\ UNCHANGED <<intended, form>>
  /\ UNCHANGED <<zone, clock, todayKey, cursor, selectedKey, worn, resolved>>

\* onCancelPlan: the plan that is shown.
CancelShown ==
  /\ form = NoForm /\ "cancel" \in Offers(selectedKey)
  /\ intended' = {p \in intended : p.n # PlansByDay[selectedKey].shown.n}
  /\ UNCHANGED <<zone, clock, todayKey, cursor, selectedKey, worn, resolved, form, verdict, quota>>

DiaryNext ==
  \/ Tick \/ MountAnew \/ CloseForm \/ LogForDay \/ PlanForDay \/ CancelShown
  \/ \E by \in {-1, 1} : GoToMonth(by)
  \/ \E key \in (todayKey - 1)..(todayKey + 1) :
       key \in Range(MonthCells(cursor)) /\ SelectDay(key)
  \/ \E kind \in {"log", "plan"} : OpenForm(kind)

DiarySpec == DiaryInit /\ [][DiaryNext]_diaryVars

----------------------------------------------------------------------------
(***************************************************************************)
(* Properties                                                              *)
(***************************************************************************)
\* The day a person who is there calls it.
Lived(at) == (at + zone) \div 4

\* month.ts:50-69, 93-98: a month's grid has each of its days once, in the
\* column of its weekday; turning back and forth ends where it began; and a
\* week is that of Monday to Sunday that today is in.
GridIsTrue ==
  LET cells == MonthCells(cursor)
      days  == {i \in DOMAIN cells : cells[i] # 0}
  IN /\ \A i \in days : (i - 1) % 7 = Weekday(cells[i])
     /\ \A i \in days : i + 1 \in DOMAIN cells => cells[i + 1] = cells[i] + 1
     /\ \A by \in -1..1 : LET other == ShiftMonth(cursor, by) IN
          /\ ShiftMonth(other, -by) = cursor
          /\ by = 1 => Last(cells) + 1 = DayOf(other.year, other.month, 1)
     /\ todayKey \in Range(WeekOf(todayKey)) /\ Weekday(WeekOf(todayKey)[1]) = 0

\* month.ts:5-17, 93-98, 137-141: each wear and each plan of the month is in
\* the cell of the day on which it was lived, which tells the latest wear, or
\* else the first plan, of however many, by a garment that is still there.
CellsAreTrue ==
  LET wearsByDay == WearsByDay
      plansByDay == PlansByDay
  IN \A key \in Range(MonthCells(cursor)) \ {0} :
    LET cell  == DayCell(key, wearsByDay, plansByDay)
        wears == {e \in Range(worn) : Lived(e.at) = key}
        plans == {p \in intended : Lived(p.at) = key}
    IN /\ cell.mark = IF wears # {} THEN "worn" ELSE IF plans # {} THEN "planned" ELSE "blank"
       /\ wears # {} => /\ cell.count = Cardinality(wears)
                        /\ \E e \in wears : e.n = cell.note /\ \A f \in wears : f.at <= e.at
       /\ cell.mark = "planned" => /\ cell.count = Cardinality(plans)
                                   /\ \A p \in plans : cell.note <= p.n
       /\ cell.mark # "blank" =>
            (cell.photo = Nothing <=> resolved \cap Range(GarmentsOf[cell.note]) = {})

\* month.ts:220-230: a month taken for complete has all its wears, wherever the
\* pages were cut.
CoveredIsComplete ==
  \A k \in 0..Len(worn) : MonthIsCovered(SubSeq(worn, 1, k), k < Len(worn), cursor) =>
    \A i \in (k + 1)..Len(worn) : Lived(worn[i].at) \notin Range(MonthCells(cursor))

\* calendar/[date].tsx:223-238, calendar/api.ts:31-42: what is written for a day
\* is on that day, in every zone and across midnights; and a wear that is
\* offered is never refused.  A form left open over midnight writes today's
\* wear on the next day: its `today' is that of its mount.
NotesAreWhereMeant ==
  /\ \A p \in intended : Lived(p.at) = p.meant
  /\ \A e \in Range(worn) : Lived(e.at) = e.meant \/ e.late
  /\ verdict # "wear refused"

\* The calendar's days, as the run checks them.
DiaryIsTrue == DiaryTypeOK /\ GridIsTrue /\ CellsAreTrue /\ CoveredIsComplete /\ NotesAreWhereMeant

\* calendar/plan/[date].tsx:146, calendar.tsx:372-376: of a day that has passed the
\* plan screen says that what was worn can be logged from the calendar; so the
\* calendar, when it knows what day it is, offers to.
PassedDaysCanBeLogged ==
  form.kind = "plan" /\ form.day < form.today /\ todayKey = form.today =>
    "log" \in Offers(form.day)
=============================================================================
