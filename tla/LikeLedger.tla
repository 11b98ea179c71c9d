----------------------------- MODULE LikeLedger ----------------------------
(***************************************************************************)
(* What the community's like and save endpoints promise, with no handler,  *)
(* no interleaving and no counter to keep in step: each like, unlike,      *)
(* save, unsave, share and delete happens at once, and a post's tally is   *)
(* moved by exactly the likes and unlikes that changed who likes it; but   *)
(* each request that fails may put one tally off by one, for good.         *)
(***************************************************************************)
EXTENDS Integers, FiniteSets

CONSTANTS Users, Posts

VARIABLES
  shown,   \* posts anybody can see
  ever,    \* posts that have ever been shared
  likers,  \* who likes each post
  savers,  \* who saved each post
  tally,   \* the public number of likes
  slips    \* requests that have failed

ledger == <<shown, ever, likers, savers, tally, slips>>

Init ==
  /\ shown = {}
  /\ ever = {}
  /\ likers = [p \in Posts |-> {}]
  /\ savers = [p \in Posts |-> {}]
  /\ tally = [p \in Posts |-> 0]
  /\ slips = 0

Share(p) ==
  /\ p \notin ever
  /\ shown' = shown \cup {p}
  /\ ever' = ever \cup {p}
  /\ UNCHANGED <<likers, savers, tally, slips>>

Like(p, u) ==
  /\ p \in shown /\ u \notin likers[p]
  /\ likers' = [likers EXCEPT ![p] = @ \cup {u}]
  /\ tally' = [tally EXCEPT ![p] = @ + 1]
  /\ UNCHANGED <<shown, ever, savers, slips>>

Unlike(p, u) ==
  /\ p \in shown /\ u \in likers[p]
  /\ likers' = [likers EXCEPT ![p] = @ \ {u}]
  /\ tally' = [tally EXCEPT ![p] = @ - 1]
  /\ UNCHANGED <<shown, ever, savers, slips>>

Save(p, u) ==
  /\ p \in shown
  /\ savers' = [savers EXCEPT ![p] = @ \cup {u}]
  /\ UNCHANGED <<shown, ever, likers, tally, slips>>

Unsave(p, u) ==
  /\ p \in shown
  /\ savers' = [savers EXCEPT ![p] = @ \ {u}]
  /\ UNCHANGED <<shown, ever, likers, tally, slips>>

Retract(p) ==
  /\ p \in shown
  /\ shown' = shown \ {p}
  /\ likers' = [likers EXCEPT ![p] = {}]
  /\ savers' = [savers EXCEPT ![p] = {}]
  /\ tally' = [tally EXCEPT ![p] = 0]
  /\ UNCHANGED <<ever, slips>>

Slip(p) ==
  /\ slips' = slips + 1
  /\ \E d \in {-1, 0, 1} : tally' = [tally EXCEPT ![p] = @ + d]
  /\ UNCHANGED <<shown, ever, likers, savers>>

Next ==
  \E p \in Posts :
    \/ Share(p) \/ Retract(p) \/ Slip(p)
    \/ \E u \in Users : Like(p, u) \/ Unlike(p, u) \/ Save(p, u) \/ Unsave(p, u)

Spec == Init /\ [][Next]_ledger
=============================================================================
