---------------------------- MODULE MCFeedClient ----------------------------
(***************************************************************************)
(* Model-checking instances of FeedClient: one search term beside the      *)
(* blank one, matching every other post.                                   *)
(***************************************************************************)
EXTENDS FeedClient

CONSTANTS all, blue

Captions == [t \in {all, blue} |-> IF t = all THEN Posts ELSE {p \in Posts : p % 2 = 0}]
=============================================================================
