----------------------------- MODULE MCCalendar -----------------------------
EXTENDS Calendar

\* Three pages: this month needs two, the month before all of them.
OldestMonth == -1
PastWears == <<-1, -1, 0>>
=============================================================================
