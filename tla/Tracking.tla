------------------------------ MODULE Tracking ------------------------------
(***************************************************************************)
(* The screens that keep track of a wardrobe: those of a garment, an       *)
(* outfit and a day, and the calendar, its loads and its days.  A screen   *)
(* tells the lists under it of a write by marks alone, which Details sends *)
(* and Calendar receives at any moment; so a behaviour follows one of the  *)
(* three.                                                                  *)
(***************************************************************************)
EXTENDS Details, Calendar, Diary

VARIABLE side   \* the part that is followed

trackingVars == <<detailsVars, calendarVars, diaryVars, side>>

\* Each part starts as it is when nobody has come to it.
TrackingInit ==
  /\ DetailsInit /\ CalendarInit /\ DiaryInit
  /\ side \in {"details", "calendar", "diary"}
  /\ side # "details" => route = CHOOSE k \in Kinds : TRUE
  /\ side # "diary" =>
       /\ zone = CHOOSE z \in Zones : TRUE
       /\ clock = CHOOSE at \in Mornings : TRUE
       /\ worn = <<>> /\ resolved = AllGarments

TrackingNext ==
  \/ side = "details" /\ DetailsNext /\ UNCHANGED <<calendarVars, diaryVars, side>>
  \/ side = "calendar" /\ CalendarNext /\ UNCHANGED <<detailsVars, diaryVars, side>>
  \/ side = "diary" /\ DiaryNext /\ UNCHANGED <<detailsVars, calendarVars, side>>

TrackingSpec == TrackingInit /\ [][TrackingNext]_trackingVars

\* month.ts, calendar/[date].tsx: the days are as they were lived and meant.  In
\* the other parts they stand still.
DaysAreTrue == side = "diary" => DiaryIsTrue
=============================================================================
