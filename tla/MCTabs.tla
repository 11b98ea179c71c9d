------------------------------- MODULE MCTabs -------------------------------
EXTENDS Tabs

TwoSorts == [i \in Pieces |-> IF i % 2 = 0 THEN "top" ELSE "shoes"]

\* Four posts of two authors, of one to three garments, all of them saved.
Worn == <<<<1, 2, 3>>, <<3, 1>>, <<4>>, <<2>>>>
Authors == <<"ann", "ann", "bea", "ann">>
Owners == <<"ann", "ann", "ann", "bea">>
Lengths == <<20, 60, 34, 5>>
Order == <<3, 1, 2, 4>>
=============================================================================
