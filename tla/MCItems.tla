------------------------------ MODULE MCItems ------------------------------
(***************************************************************************)
(* Model-checking instances of Items.  Accounts, uploads, requests and     *)
(* categories are interchangeable.                                         *)
(***************************************************************************)
EXTENDS Items, TLC

Symmetry == Permutations(Users) \cup Permutations(Items)
              \cup Permutations(Requests) \cup Permutations(Categories)
=============================================================================
