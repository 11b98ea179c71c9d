------------------------------- MODULE Listing -------------------------------
(***************************************************************************)
(* The two list operations the client and the API share: a page ordered    *)
(* newest first, and rows filtered out of a list.  Both are written by     *)
(* rank, so that they can be reasoned about.                               *)
(***************************************************************************)
EXTENDS Integers, FiniteSets, Sequences

\* orderBy createdAt desc: row k has k - 1 newer ones above it.
NewestFirst(S) ==
  [k \in 1..Cardinality(S) |-> CHOOSE p \in S : Cardinality({q \in S : q > p}) = k - 1]

\* The places of s whose rows stay.
Kept(s, gone) == {i \in DOMAIN s : s[i] \notin gone}

\* filter: the rows that stay, in their order.
Without(s, gone) ==
  [k \in 1..Cardinality(Kept(s, gone)) |->
     s[CHOOSE i \in Kept(s, gone) : Cardinality({j \in Kept(s, gone) : j < i}) = k - 1]]
=============================================================================
