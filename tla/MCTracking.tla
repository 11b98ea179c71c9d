----------------------------- MODULE MCTracking -----------------------------
EXTENDS Tracking

\* Three pages: this month needs two, the month before all of them.
OldestMonth == -1
PastWears == <<-1, -1, 0>>

\* A leap day's evening in UTC, and New Year's Eve at noon.
Openings == {4 * DayOf(2024, 1, 29) + 3, 4 * DayOf(2024, 11, 31) + 2}
Offsets == {-1, 1}
Snapshots == <<<<1, 2>>, <<2, 1>>, <<1>>>>
=============================================================================
