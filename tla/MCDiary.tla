------------------------------ MODULE MCDiary -------------------------------
EXTENDS Diary

\* New Year's Eve at noon.
Openings == {4 * DayOf(2024, 11, 31) + 2}
Offsets == {-1, 1}
Snapshots == <<<<1>>, <<1>>>>
=============================================================================
