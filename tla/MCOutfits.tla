----------------------------- MODULE MCOutfits -----------------------------
(***************************************************************************)
(* Model-checking instances of Outfits: one user owns both garments, any   *)
(* other user owns none.                                                   *)
(***************************************************************************)
EXTENDS Outfits, TLC

CONSTANTS u1, u2, i1, i2

OneOwner == i1 :> u1 @@ i2 :> u1

Symmetry == Permutations(Requests) \cup Permutations(OutfitIds) \cup Permutations(RecordIds)
\* With one owner the garments are interchangeable too.
SymmetryOneOwner == Symmetry \cup Permutations(Items)
=============================================================================
