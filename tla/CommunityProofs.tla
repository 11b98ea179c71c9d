-------------------------- MODULE CommunityProofs --------------------------
(***************************************************************************)
(* What holds of Community for any users, posts, requests and number of    *)
(* failures: its types, the stored like count against the like rows, whose *)
(* rows a request can remove, and that the handlers implement LikeLedger.  *)
(***************************************************************************)
EXTENDS Community, FiniteSetTheorems, TLAPS

(***************************************************************************)
(* Typing.                                                                 *)
(***************************************************************************)

\* Answering leaves a legal activation in every slot.
LEMMA AnswerType ==
  ASSUME TypeOK, NEW r \in Requests, Answer(r)
  PROVE  request' \in [Requests -> Activation]
BY DEF TypeOK, Answer, Activation

\* A handler on a post that goes on to another call on it stays legal.
LEMMA ContinueType ==
  ASSUME TypeOK, NEW r \in Requests, request[r].at \in OnPost,
         NEW c \in OnPost, Continue(r, c)
  PROVE  request' \in [Requests -> Activation]
<1>1. request[r] \in [at : OnPost, user : Users, post : Posts]
  BY DEF TypeOK, Activation, Idle, Sharing, OnPost
<1>2. [request[r] EXCEPT !.at = c] \in [at : OnPost, user : Users, post : Posts]
  BY <1>1
<1>. QED  BY <1>2 DEF TypeOK, Continue, Activation

\* What a request on a post is about.
LEMMA OnPostType ==
  ASSUME TypeOK, NEW r \in Requests, request[r].at \in OnPost
  PROVE  request[r].user \in Users /\ request[r].post \in Posts /\ Row(r) \in Posts \X Users
BY DEF TypeOK, Activation, Idle, Sharing, OnPost, Row

\* Every step keeps the types.
LEMMA TypePreserved == TypeOK /\ [Next]_vars => TypeOK'
<1> SUFFICES ASSUME TypeOK, [Next]_vars PROVE TypeOK'
  OBVIOUS
<1>1. ASSUME NEW r \in Requests, Arrive(r) PROVE TypeOK'
  <2>1. PICK u \in Users, p \in Posts, c \in FirstCall :
          request' = [request EXCEPT ![r] = [at |-> c, user |-> u, post |-> p]]
    BY <1>1 DEF Arrive, Created
  <2>2. [at |-> c, user |-> u, post |-> p] \in Activation
    BY <2>1 DEF Activation, FirstCall, OnPost
  <2>. QED  BY <1>1, <2>1, <2>2 DEF TypeOK, Arrive, store
<1>2. ASSUME NEW r \in Requests, ArriveShare(r) PROVE TypeOK'
  <2>1. PICK u \in Users :
          request' = [request EXCEPT ![r] = [at |-> "shareCheck", user |-> u, post |-> None]]
    BY <1>2 DEF ArriveShare
  <2>2. [at |-> "shareCheck", user |-> u, post |-> None] \in Activation
    BY <2>1 DEF Activation, Sharing
  <2>. QED  BY <1>2, <2>1, <2>2 DEF TypeOK, ArriveShare, store
<1>3. ASSUME NEW r \in Requests, ShareCheck(r) PROVE TypeOK'
  <2>1. CASE Answer(r)
    BY <1>3, <2>1, AnswerType DEF TypeOK, ShareCheck, store
  <2>2. CASE Continue(r, "shareCreate")
    <3>1. request[r] \in [at : Sharing, user : Users, post : {None}]
      BY <1>3 DEF TypeOK, ShareCheck, Activation, Idle, Sharing, OnPost
    <3>2. [request[r] EXCEPT !.at = "shareCreate"] \in Activation
      BY <3>1 DEF Activation, Sharing
    <3>. QED  BY <1>3, <2>2, <3>2 DEF TypeOK, ShareCheck, Continue, store
  <2>. QED  BY <1>3, <2>1, <2>2 DEF ShareCheck
<1>4. ASSUME NEW r \in Requests, ShareCreate(r) PROVE TypeOK'
  <2>1. request[r].user \in Users
    BY <1>4 DEF TypeOK, ShareCreate, Activation, Idle, Sharing, OnPost
  <2>. QED  BY <1>4, <2>1, AnswerType DEF TypeOK, ShareCreate
<1>5. ASSUME NEW r \in Requests, NEW c \in OnPost, request[r].at \in OnPost, FindPost(r, c)
      PROVE  TypeOK'
  <2>1. request' \in [Requests -> Activation]
    BY <1>5, AnswerType, ContinueType DEF FindPost
  <2>. QED  BY <1>5, <2>1 DEF TypeOK, FindPost, store
<1>6. ASSUME NEW r \in Requests, LikeFind(r) \/ UnlikeFind(r) \/ SaveFind(r) \/ UnsaveFind(r)
      PROVE  TypeOK'
  BY <1>5, <1>6 DEF LikeFind, UnlikeFind, SaveFind, UnsaveFind, OnPost
<1>7. ASSUME NEW r \in Requests, LikeInsert(r) PROVE TypeOK'
  <2>1. request[r].at \in OnPost /\ "likeInc" \in OnPost
    BY <1>7 DEF LikeInsert, OnPost
  <2>2. request' \in [Requests -> Activation]
    BY <1>7, <2>1, AnswerType, ContinueType DEF LikeInsert
  <2>. QED  BY <1>7, <2>1, <2>2, OnPostType DEF TypeOK, LikeInsert
<1>8. ASSUME NEW r \in Requests, LikeInc(r) PROVE TypeOK'
  <2>1. request[r].at \in OnPost /\ "likeUndo" \in OnPost
    BY <1>8 DEF LikeInc, OnPost
  <2>2. request' \in [Requests -> Activation]
    BY <1>8, <2>1, AnswerType, ContinueType DEF LikeInc
  <2>. QED  BY <1>8, <2>1, <2>2, OnPostType DEF TypeOK, LikeInc
<1>9. ASSUME NEW r \in Requests, LikeUndo(r) PROVE TypeOK'
  BY <1>9, AnswerType DEF TypeOK, LikeUndo
<1>10. ASSUME NEW r \in Requests, UnlikeRemove(r) PROVE TypeOK'
  <2>1. request[r].at \in OnPost /\ "unlikeDec" \in OnPost
    BY <1>10 DEF UnlikeRemove, OnPost
  <2>2. request' \in [Requests -> Activation]
    BY <1>10, <2>1, AnswerType, ContinueType DEF UnlikeRemove
  <2>. QED  BY <1>10, <2>2 DEF TypeOK, UnlikeRemove
<1>11. ASSUME NEW r \in Requests, UnlikeDec(r) PROVE TypeOK'
  BY <1>11, AnswerType DEF TypeOK, UnlikeDec
<1>12. ASSUME NEW r \in Requests, SaveInsert(r) PROVE TypeOK'
  <2>1. request[r].at \in OnPost
    BY <1>12 DEF SaveInsert, OnPost
  <2>. QED  BY <1>12, <2>1, AnswerType, OnPostType DEF TypeOK, SaveInsert
<1>13. ASSUME NEW r \in Requests, UnsaveRemove(r) PROVE TypeOK'
  BY <1>13, AnswerType DEF TypeOK, UnsaveRemove
<1>14. ASSUME NEW r \in Requests, DeletePost(r) PROVE TypeOK'
  <2>1. request[r].at \in OnPost /\ "cascadeBoth" \in OnPost
    BY <1>14 DEF DeletePost, OnPost
  <2>2. request' \in [Requests -> Activation]
    BY <1>14, <2>1, AnswerType, ContinueType DEF DeletePost
  <2>. QED  BY <1>14, <2>2 DEF TypeOK, DeletePost
<1>15. ASSUME NEW r \in Requests, CascadeLikes(r) PROVE TypeOK'
  <2>1. request[r].at \in OnPost /\ "cascadeSaves" \in OnPost
    BY <1>15 DEF CascadeLikes, OnPost
  <2>2. request' \in [Requests -> Activation]
    BY <1>15, <2>1, AnswerType, ContinueType DEF CascadeLikes
  <2>. QED  BY <1>15, <2>2 DEF TypeOK, CascadeLikes
<1>16. ASSUME NEW r \in Requests, CascadeSaves(r) PROVE TypeOK'
  <2>1. request[r].at \in OnPost /\ "cascadeLikes" \in OnPost
    BY <1>16 DEF CascadeSaves, OnPost
  <2>2. request' \in [Requests -> Activation]
    BY <1>16, <2>1, AnswerType, ContinueType DEF CascadeSaves
  <2>. QED  BY <1>16, <2>2 DEF TypeOK, CascadeSaves
<1>17. ASSUME NEW r \in Requests, Fail(r) PROVE TypeOK'
  BY <1>17, AnswerType, FailuresAssumption DEF TypeOK, Fail, store
<1>18. CASE UNCHANGED vars
  BY <1>18 DEF TypeOK, vars
<1>. QED
  BY <1>1, <1>2, <1>3, <1>4, <1>6, <1>7, <1>8, <1>9, <1>10, <1>11, <1>12, <1>13, <1>14,
     <1>15, <1>16, <1>17, <1>18 DEF Next, Step

\* The database starts empty.
LEMMA TypeCorrectAtStart == Init => TypeOK
BY FailuresAssumption DEF Init, TypeOK, Activation

\* Every variable of the community's routes keeps its type: rows name posts
\* and users, and a handler never runs on to a call without its operands.
THEOREM TypeCorrect == Spec => []TypeOK
BY TypeCorrectAtStart, TypePreserved, PTL DEF Spec

(***************************************************************************)
(* The inductive invariant.  CountTracksLikes alone is not inductive: a    *)
(* share brings a post to life, so an unused id must have no rows and no   *)
(* requests; and clean-ups remove rows without touching a counter, so they *)
(* must only ever run on posts that are gone.                              *)
(***************************************************************************)
FreshUntouched ==
  \A p \in Posts : author[p] = None =>
    /\ p \notin live /\ likeCount[p] = 0 /\ Likers(p) = {}
    /\ \A r \in Requests : request[r].post # p

CleanUps == {"likeUndo", "cascadeBoth", "cascadeLikes", "cascadeSaves"}

GoneStaysGone ==
  \A r \in Requests : request[r].at \in CleanUps => request[r].post \notin live

CountInv == TypeOK /\ FreshUntouched /\ GoneStaysGone /\ CountTracksLikes

(***************************************************************************)
(* Frames: what a step of request r leaves alone.                          *)
(***************************************************************************)
StepOf(r) == Arrive(r) \/ ArriveShare(r) \/ Step(r) \/ Fail(r)

\* A handler that has started only answers or goes on to its next call.
LEMMA RunsOn ==
  ASSUME NEW r \in Requests, Step(r) \/ Fail(r)
  PROVE  Answer(r) \/ \E c \in OnPost \cup {"shareCreate"} : Continue(r, c)
<1>1. CASE LikeFind(r) \/ UnlikeFind(r) \/ SaveFind(r) \/ UnsaveFind(r)
  BY <1>1 DEF LikeFind, UnlikeFind, SaveFind, UnsaveFind, FindPost, OnPost
<1>2. CASE LikeInsert(r) \/ LikeInc(r) \/ LikeUndo(r) \/ UnlikeRemove(r) \/ UnlikeDec(r)
  BY <1>2 DEF LikeInsert, LikeInc, LikeUndo, UnlikeRemove, UnlikeDec, OnPost
<1>3. CASE SaveInsert(r) \/ UnsaveRemove(r) \/ DeletePost(r) \/ CascadeLikes(r) \/ CascadeSaves(r)
  BY <1>3 DEF SaveInsert, UnsaveRemove, DeletePost, CascadeLikes, CascadeSaves, OnPost
<1>4. CASE ShareCheck(r) \/ ShareCreate(r) \/ Fail(r)
  BY <1>4 DEF ShareCheck, ShareCreate, Fail
<1>. QED  BY <1>1, <1>2, <1>3, <1>4 DEF Step

\* Going on to another call keeps the user and the post.
LEMMA Continued ==
  ASSUME TypeOK, NEW r \in Requests, NEW c, Continue(r, c)
  PROVE  request'[r].at = c /\ request'[r].user = request[r].user
         /\ request'[r].post = request[r].post
<1>1. request'[r] = [request[r] EXCEPT !.at = c]
  BY DEF TypeOK, Continue
<1>2. request[r] \in [at : OnPost \cup Sharing \cup {"idle"}, user : Users \cup {None},
                     post : Posts \cup {None}]
  BY DEF TypeOK, Activation, Idle
<1>. QED  BY <1>1, <1>2

\* An answered request is idle.
LEMMA Answered ==
  ASSUME TypeOK, NEW r \in Requests, Answer(r)
  PROVE  request'[r] = Idle
BY DEF TypeOK, Answer

\* The other requests in flight stay where they are.
LEMMA OthersWait ==
  ASSUME TypeOK, NEW r \in Requests, StepOf(r), NEW q \in Requests \ {r}
  PROVE  request'[q] = request[q]
<1>1. CASE Arrive(r) \/ ArriveShare(r)
  BY <1>1 DEF TypeOK, Arrive, ArriveShare
<1>2. CASE Step(r) \/ Fail(r)
  BY <1>2, RunsOn DEF TypeOK, Answer, Continue
<1>. QED  BY <1>1, <1>2 DEF StepOf

\* A step other than a share authors nothing and brings nothing to life.
LEMMA OnlySharesCreate ==
  ASSUME NEW r \in Requests, StepOf(r), ~ShareCreate(r)
  PROVE  author' = author /\ live' \subseteq live
<1>1. CASE Arrive(r) \/ ArriveShare(r) \/ ShareCheck(r) \/ Fail(r)
  BY <1>1 DEF Arrive, ArriveShare, ShareCheck, Fail, store
<1>2. CASE LikeFind(r) \/ UnlikeFind(r) \/ SaveFind(r) \/ UnsaveFind(r)
  BY <1>2 DEF LikeFind, UnlikeFind, SaveFind, UnsaveFind, FindPost, store
<1>3. CASE LikeInsert(r) \/ LikeInc(r) \/ LikeUndo(r) \/ UnlikeRemove(r) \/ UnlikeDec(r)
  BY <1>3 DEF LikeInsert, LikeInc, LikeUndo, UnlikeRemove, UnlikeDec
<1>4. CASE SaveInsert(r) \/ UnsaveRemove(r) \/ DeletePost(r) \/ CascadeLikes(r) \/ CascadeSaves(r)
  BY <1>4 DEF SaveInsert, UnsaveRemove, DeletePost, CascadeLikes, CascadeSaves
<1>. QED  BY <1>1, <1>2, <1>3, <1>4 DEF StepOf, Step

\* Only a failure counts as one.
LEMMA FailuresKept ==
  ASSUME NEW r \in Requests, StepOf(r), ~Fail(r)
  PROVE  failures' = failures
<1>1. CASE Arrive(r) \/ ArriveShare(r) \/ ShareCheck(r) \/ ShareCreate(r)
  BY <1>1 DEF Arrive, ArriveShare, ShareCheck, ShareCreate
<1>2. CASE LikeFind(r) \/ UnlikeFind(r) \/ SaveFind(r) \/ UnsaveFind(r)
  BY <1>2 DEF LikeFind, UnlikeFind, SaveFind, UnsaveFind, FindPost
<1>3. CASE LikeInsert(r) \/ LikeInc(r) \/ LikeUndo(r) \/ UnlikeRemove(r) \/ UnlikeDec(r)
  BY <1>3 DEF LikeInsert, LikeInc, LikeUndo, UnlikeRemove, UnlikeDec
<1>4. CASE SaveInsert(r) \/ UnsaveRemove(r) \/ DeletePost(r) \/ CascadeLikes(r) \/ CascadeSaves(r)
  BY <1>4 DEF SaveInsert, UnsaveRemove, DeletePost, CascadeLikes, CascadeSaves
<1>. QED  BY <1>1, <1>2, <1>3, <1>4 DEF StepOf, Step

\* A step leaves the count and the like rows of every post but its own alone.
LEMMA OtherPosts ==
  ASSUME TypeOK, NEW r \in Requests, StepOf(r), NEW p \in Posts, request[r].post # p
  PROVE  likeCount'[p] = likeCount[p] /\ Likers(p)' = Likers(p)
<1>1. CASE Arrive(r) \/ ArriveShare(r) \/ ShareCheck(r) \/ ShareCreate(r) \/ Fail(r)
  BY <1>1 DEF Arrive, ArriveShare, ShareCheck, ShareCreate, Fail, store, Likers
<1>2. CASE LikeFind(r) \/ UnlikeFind(r) \/ SaveFind(r) \/ UnsaveFind(r)
  BY <1>2 DEF LikeFind, UnlikeFind, SaveFind, UnsaveFind, FindPost, store, Likers
<1>3. CASE LikeInc(r) \/ UnlikeDec(r) \/ DeletePost(r)
  BY <1>3 DEF TypeOK, LikeInc, UnlikeDec, DeletePost, Likers
<1>4. CASE LikeInsert(r)
  BY <1>4 DEF LikeInsert, Row, Likers
<1>5. CASE LikeUndo(r) \/ UnlikeRemove(r)
  BY <1>5 DEF LikeUndo, UnlikeRemove, Row, Likers
<1>6. CASE SaveInsert(r) \/ UnsaveRemove(r) \/ CascadeSaves(r)
  BY <1>6 DEF SaveInsert, UnsaveRemove, CascadeSaves, Likers
<1>7. CASE CascadeLikes(r)
  BY <1>7 DEF CascadeLikes, Likers
<1>. QED  BY <1>1, <1>2, <1>3, <1>4, <1>5, <1>6, <1>7 DEF StepOf, Step

\* An unused id stays untouched until the share that takes it.
LEMMA FreshPreserved == TypeOK /\ FreshUntouched /\ [Next]_vars => FreshUntouched'
<1> SUFFICES ASSUME TypeOK, FreshUntouched, [Next]_vars, NEW p \in Posts, author'[p] = None
             PROVE  /\ p \notin live' /\ likeCount'[p] = 0 /\ Likers(p)' = {}
                    /\ \A q \in Requests : request'[q].post # p
  BY DEF FreshUntouched
<1>1. CASE UNCHANGED vars
  BY <1>1 DEF FreshUntouched, vars, Likers
<1>2. ASSUME NEW r \in Requests, StepOf(r)
      PROVE  /\ p \notin live' /\ likeCount'[p] = 0 /\ Likers(p)' = {}
             /\ \A q \in Requests : request'[q].post # p
  <2>1. author[p] = None /\ p \notin live'
    <3>1. CASE ShareCreate(r)
      <4>1. request[r].user \in Users
        BY <3>1 DEF TypeOK, ShareCreate, Activation, Idle, Sharing, OnPost
      <4>2. PICK s \in Posts : live' = live \cup {s} /\ author' = [author EXCEPT ![s] = request[r].user]
        BY <3>1 DEF ShareCreate
      <4>3. p # s
        BY <4>1, <4>2, NoneAssumption DEF TypeOK
      <4>. QED  BY <4>2, <4>3 DEF TypeOK, FreshUntouched
    <3>2. CASE ~ShareCreate(r)
      BY <1>2, <3>2, OnlySharesCreate DEF FreshUntouched
    <3>. QED  BY <3>1, <3>2
  <2>2. likeCount'[p] = 0 /\ Likers(p)' = {}
    BY <1>2, <2>1, OtherPosts DEF FreshUntouched
  <2>3. request'[r].post # p
    <3>1. CASE Arrive(r)
      <4>1. PICK u \in Users, d \in Created, c \in FirstCall :
              request' = [request EXCEPT ![r] = [at |-> c, user |-> u, post |-> d]]
        BY <3>1 DEF Arrive
      <4>. QED  BY <2>1, <4>1 DEF TypeOK, Created
    <3>2. CASE ArriveShare(r)
      BY <3>2, NoneAssumption DEF TypeOK, ArriveShare
    <3>3. CASE Answer(r)
      BY <3>3, Answered, NoneAssumption DEF Idle
    <3>4. ASSUME NEW c, Continue(r, c) PROVE request'[r].post # p
      BY <2>1, <3>4, Continued DEF FreshUntouched
    <3>. QED  BY <1>2, <3>1, <3>2, <3>3, <3>4, RunsOn DEF StepOf
  <2>. QED  BY <1>2, <2>1, <2>2, <2>3, OthersWait DEF FreshUntouched
<1>. QED  BY <1>1, <1>2 DEF Next, StepOf

\* A clean-up on a post stays a clean-up on a post that is gone.
LEMMA GonePreserved ==
  TypeOK /\ FreshUntouched /\ GoneStaysGone /\ [Next]_vars => GoneStaysGone'
<1> SUFFICES ASSUME TypeOK, FreshUntouched, GoneStaysGone, [Next]_vars,
                    NEW q \in Requests, request'[q].at \in CleanUps
             PROVE  request'[q].post \notin live'
  BY DEF GoneStaysGone
<1>1. CASE UNCHANGED vars
  BY <1>1 DEF GoneStaysGone, vars
<1>2. ASSUME NEW r \in Requests, StepOf(r) PROVE request'[q].post \notin live'
  <2>1. ASSUME request'[q].post = request[q].post, request[q].at \in CleanUps
        PROVE  request'[q].post \notin live'
    <3>1. CASE ShareCreate(r)
      <4>1. PICK s \in Posts \ Created : live' = live \cup {s}
        BY <3>1 DEF ShareCreate
      <4>. QED  BY <2>1, <4>1 DEF FreshUntouched, Created, GoneStaysGone
    <3>. QED  BY <1>2, <2>1, <3>1, OnlySharesCreate DEF GoneStaysGone
  <2>2. CASE q # r
    BY <1>2, <2>1, <2>2, OthersWait
  <2>3. CASE q = r /\ Answer(r)
    BY <2>3, Answered DEF Idle, CleanUps
  <2>4. CASE q = r /\ (Arrive(r) \/ ArriveShare(r))
    BY <2>4 DEF TypeOK, Arrive, ArriveShare, FirstCall, CleanUps
  <2>5. CASE q = r /\ ~Answer(r) /\ (ShareCheck(r) \/ ShareCreate(r) \/ Fail(r))
    BY <2>5, Continued DEF ShareCheck, ShareCreate, Fail, CleanUps
  <2>6. CASE q = r /\ ~Answer(r) /\ (LikeFind(r) \/ UnlikeFind(r) \/ SaveFind(r) \/ UnsaveFind(r))
    BY <2>6, Continued DEF LikeFind, UnlikeFind, SaveFind, UnsaveFind, FindPost, CleanUps
  <2>7. CASE q = r /\ ~Answer(r) /\ (LikeInsert(r) \/ UnlikeRemove(r))
    BY <2>7, Continued DEF LikeInsert, UnlikeRemove, CleanUps
  <2>8. CASE q = r /\ LikeInc(r)
    BY <2>3, <2>8, Continued DEF LikeInc
  <2>9. CASE q = r /\ ~Answer(r)
             /\ (LikeUndo(r) \/ UnlikeDec(r) \/ SaveInsert(r) \/ UnsaveRemove(r))
    BY <2>9 DEF LikeUndo, UnlikeDec, SaveInsert, UnsaveRemove
  <2>10. CASE q = r /\ DeletePost(r)
    BY <2>3, <2>10, Continued DEF DeletePost
  <2>11. CASE q = r /\ (CascadeLikes(r) \/ CascadeSaves(r))
    BY <2>3, <2>11, Continued DEF CascadeLikes, CascadeSaves, CleanUps, GoneStaysGone
  <2>. QED
    BY <1>2, <2>2, <2>3, <2>4, <2>5, <2>6, <2>7, <2>8, <2>9, <2>10, <2>11 DEF StepOf, Step
<1>. QED  BY <1>1, <1>2 DEF Next, StepOf

----------------------------------------------------------------------------
(***************************************************************************)
(* The count.                                                              *)
(***************************************************************************)

\* Where a request that goes on is, and is no longer, waiting.
LEMMA AtContinued ==
  ASSUME TypeOK, NEW r \in Requests, NEW d, Continue(r, d), NEW c, NEW p
  PROVE  At(c, p)' = IF d = c /\ request[r].post = p THEN At(c, p) \cup {r} ELSE At(c, p) \ {r}
<1>1. \A q \in Requests \ {r} : request'[q] = request[q]
  BY DEF TypeOK, Continue
<1>. QED  BY <1>1, Continued DEF At

\* A request that answers is no longer waiting.
LEMMA AtAnswered ==
  ASSUME TypeOK, NEW r \in Requests, Answer(r), NEW c, c # "idle", NEW p
  PROVE  At(c, p)' = At(c, p) \ {r}
<1>1. \A q \in Requests \ {r} : request'[q] = request[q]
  BY DEF TypeOK, Answer
<1>. QED  BY <1>1, Answered DEF At, Idle

\* Owed writes and likers can be counted.
LEMMA Countable ==
  ASSUME NEW p, NEW c
  PROVE  /\ IsFiniteSet(At(c, p)) /\ Cardinality(At(c, p)) \in Nat
         /\ IsFiniteSet(Likers(p)) /\ Cardinality(Likers(p)) \in Nat
<1>1. At(c, p) \in SUBSET Requests /\ Likers(p) \in SUBSET Users
  BY DEF At, Likers
<1>. QED  BY <1>1, FS_Subset, FS_CardinalityType, RequestsAssumption, UsersAssumption

Owed == {"likeInc", "unlikeDec"}

\* How many writes of a kind a step leaves owed to p.
LEMMA OwedAfter ==
  ASSUME TypeOK, NEW r \in Requests, NEW p, NEW c \in Owed
  PROVE  /\ Answer(r) =>
              Cardinality(At(c, p))' = Cardinality(At(c, p)) - (IF r \in At(c, p) THEN 1 ELSE 0)
         /\ \A d : Continue(r, d) /\ request[r].post = p /\ r \notin At(c, p) =>
              Cardinality(At(c, p))' = Cardinality(At(c, p)) + (IF d = c THEN 1 ELSE 0)
         /\ \A d : Continue(r, d) /\ request[r].post # p =>
              Cardinality(At(c, p))' = Cardinality(At(c, p))
<1>1. IsFiniteSet(At(c, p)) /\ Cardinality(At(c, p)) \in Nat
  BY Countable
<1>2. ASSUME Answer(r)
      PROVE  Cardinality(At(c, p))' = Cardinality(At(c, p)) - (IF r \in At(c, p) THEN 1 ELSE 0)
  <2>1. At(c, p)' = At(c, p) \ {r}
    BY <1>2, AtAnswered DEF Owed
  <2>2. Cardinality(At(c, p) \ {r})
          = IF r \in At(c, p) THEN Cardinality(At(c, p)) - 1 ELSE Cardinality(At(c, p))
    BY <1>1, FS_RemoveElement
  <2>. QED  BY <1>1, <2>1, <2>2
<1>3. ASSUME NEW d, Continue(r, d), request[r].post = p, r \notin At(c, p)
      PROVE  Cardinality(At(c, p))' = Cardinality(At(c, p)) + (IF d = c THEN 1 ELSE 0)
  <2>1. At(c, p)' = IF d = c THEN At(c, p) \cup {r} ELSE At(c, p)
    BY <1>3, AtContinued
  <2>2. Cardinality(At(c, p) \cup {r}) = Cardinality(At(c, p)) + 1
    BY <1>1, <1>3, FS_AddElement
  <2>. QED  BY <1>1, <2>1, <2>2
<1>4. ASSUME NEW d, Continue(r, d), request[r].post # p
      PROVE  Cardinality(At(c, p))' = Cardinality(At(c, p))
  <2>1. r \notin At(c, p)
    BY <1>4 DEF At
  <2>. QED  BY <1>4, <2>1, AtContinued
<1>. QED  BY <1>2, <1>3, <1>4

\* The share of p: nothing was ever liked, counted or asked of it before.
LEMMA DriftOfNewPost ==
  ASSUME TypeOK, FreshUntouched, NEW r \in Requests, ShareCreate(r),
         NEW p \in live', p \notin live
  PROVE  Drift(p)' = 0
<1>1. p \in Posts \ Created
  BY DEF ShareCreate
<1>2. likeCount[p] = 0 /\ Likers(p) = {} /\ \A c \in Owed : At(c, p) = {}
  BY <1>1 DEF FreshUntouched, Created, At
<1>3. likeCount'[p] = 0 /\ Likers(p)' = {}
  BY <1>2 DEF ShareCreate, Likers
<1>4. \A c \in Owed : At(c, p)' = {}
  BY <1>2, AtAnswered DEF ShareCreate, Owed
<1>. QED  BY <1>3, <1>4, FS_EmptySet DEF Drift, Owed

\* A step about another post than p leaves p's drift alone.
LEMMA DriftOfOtherPost ==
  ASSUME TypeOK, NEW r \in Requests, StepOf(r), NEW p \in Posts, request[r].post # p
  PROVE  Drift(p)' = Drift(p)
<1>1. likeCount'[p] = likeCount[p] /\ Likers(p)' = Likers(p)
  BY OtherPosts
<1>2. ASSUME NEW c \in Owed PROVE Cardinality(At(c, p))' = Cardinality(At(c, p))
  <2>1. r \notin At(c, p)
    BY DEF At
  <2>2. CASE Arrive(r) \/ ArriveShare(r)
    <3>1. request'[r].at # c
      BY <2>2 DEF TypeOK, Arrive, ArriveShare, FirstCall, Owed
    <3>2. At(c, p)' = At(c, p)
      BY <2>1, <3>1, OthersWait DEF At
    <3>. QED  BY <3>2
  <2>3. CASE Step(r) \/ Fail(r)
    <3>1. Cardinality(At(c, p)) \in Nat
      BY Countable
    <3>. QED  BY <2>1, <2>3, <3>1, RunsOn, OwedAfter
  <2>. QED  BY <2>2, <2>3 DEF StepOf
<1>. QED  BY <1>1, <1>2 DEF Drift, Owed

\* A handler's step about a post that stays up leaves its drift alone: a row
\* and the write owed for it come together, and so do the write and the end of
\* the debt.
LEMMA DriftOfOwnPost ==
  ASSUME TypeOK, GoneStaysGone, NEW r \in Requests, Step(r),
         NEW p \in live, p \in live', request[r].post = p
  PROVE  Drift(p)' = Drift(p)
<1>0. /\ p \in Posts /\ p # None /\ likeCount[p] \in Int
      /\ IsFiniteSet(Likers(p)) /\ Cardinality(Likers(p)) \in Nat
      /\ \A c \in Owed : Cardinality(At(c, p)) \in Nat
      /\ r \in At("likeInc", p) <=> request[r].at = "likeInc"
      /\ r \in At("unlikeDec", p) <=> request[r].at = "unlikeDec"
  <2>1. p \in Posts /\ p # None /\ likeCount[p] \in Int
    BY NoneAssumption DEF TypeOK
  <2>2. /\ r \in At("likeInc", p) <=> request[r].at = "likeInc"
        /\ r \in At("unlikeDec", p) <=> request[r].at = "unlikeDec"
    BY DEF At
  <2>. QED  BY <2>1, <2>2, Countable
<1>1. ASSUME likeCount'[p] = likeCount[p], Likers(p)' = Likers(p),
             request[r].at \notin Owed,
             Answer(r) \/ \E d : d \notin Owed /\ Continue(r, d)
      PROVE  Drift(p)' = Drift(p)
  <2>1. \A c \in Owed : Cardinality(At(c, p))' = Cardinality(At(c, p))
    BY <1>0, <1>1, OwedAfter DEF Owed
  <2>. QED  BY <1>1, <2>1 DEF Drift, Owed
<1>2. ~ShareCheck(r) /\ ~ShareCreate(r)
  BY <1>0 DEF TypeOK, Activation, Idle, OnPost, Sharing, ShareCheck, ShareCreate
<1>3. ~LikeUndo(r) /\ ~CascadeLikes(r) /\ ~CascadeSaves(r)
  BY DEF GoneStaysGone, CleanUps, LikeUndo, CascadeLikes, CascadeSaves
<1>4. CASE LikeFind(r) \/ UnlikeFind(r) \/ SaveFind(r) \/ UnsaveFind(r)
  BY <1>1, <1>4 DEF LikeFind, UnlikeFind, SaveFind, UnsaveFind, FindPost, store, Likers, Owed
<1>5. CASE SaveInsert(r) \/ UnsaveRemove(r)
  BY <1>1, <1>5 DEF SaveInsert, UnsaveRemove, Likers, Owed
<1>6. CASE DeletePost(r)
  BY <1>1, <1>6 DEF DeletePost, Likers, Owed
<1>7. CASE LikeInsert(r)
  <2>1. CASE Row(r) \in likes
    BY <1>1, <1>7, <2>1 DEF LikeInsert, Likers, Owed
  <2>2. CASE Row(r) \notin likes
    <3>1. request[r].user \in Users
      BY <1>7, OnPostType DEF LikeInsert, OnPost
    <3>2. Likers(p)' = Likers(p) \cup {request[r].user} /\ request[r].user \notin Likers(p)
      BY <1>7, <2>2, <3>1 DEF LikeInsert, Likers, Row
    <3>3. Cardinality(Likers(p) \cup {request[r].user}) = Cardinality(Likers(p)) + 1
      BY <1>0, <3>2, FS_AddElement
    <3>4. /\ Cardinality(At("likeInc", p))' = Cardinality(At("likeInc", p)) + 1
          /\ Cardinality(At("unlikeDec", p))' = Cardinality(At("unlikeDec", p))
      BY <1>0, <1>7, <2>2, OwedAfter DEF LikeInsert, Owed
    <3>. QED  BY <1>0, <1>7, <3>2, <3>3, <3>4 DEF Drift, LikeInsert, Owed
  <2>. QED  BY <2>1, <2>2
<1>8. CASE LikeInc(r)
  <2>1. /\ Cardinality(At("likeInc", p))' = Cardinality(At("likeInc", p)) - 1
        /\ Cardinality(At("unlikeDec", p))' = Cardinality(At("unlikeDec", p))
    BY <1>0, <1>8, OwedAfter DEF LikeInc, Owed
  <2>2. likeCount'[p] = likeCount[p] + 1 /\ Likers(p)' = Likers(p)
    BY <1>0, <1>8 DEF TypeOK, LikeInc, Likers
  <2>. QED  BY <1>0, <2>1, <2>2 DEF Drift, Owed
<1>9. CASE UnlikeRemove(r)
  <2>1. CASE Row(r) \notin likes
    BY <1>1, <1>9, <2>1 DEF UnlikeRemove, Likers, Owed
  <2>2. CASE Row(r) \in likes
    <3>1. Likers(p)' = Likers(p) \ {request[r].user} /\ request[r].user \in Likers(p)
      BY <1>9, <2>2 DEF TypeOK, UnlikeRemove, Likers, Row
    <3>2. Cardinality(Likers(p) \ {request[r].user}) = Cardinality(Likers(p)) - 1
      BY <1>0, <3>1, FS_RemoveElement
    <3>3. /\ Cardinality(At("likeInc", p))' = Cardinality(At("likeInc", p))
          /\ Cardinality(At("unlikeDec", p))' = Cardinality(At("unlikeDec", p)) + 1
      BY <1>0, <1>9, <2>2, OwedAfter DEF UnlikeRemove, Owed
    <3>. QED  BY <1>0, <1>9, <3>1, <3>2, <3>3 DEF Drift, UnlikeRemove, Owed
  <2>. QED  BY <2>1, <2>2
<1>10. CASE UnlikeDec(r)
  <2>1. /\ Cardinality(At("likeInc", p))' = Cardinality(At("likeInc", p))
        /\ Cardinality(At("unlikeDec", p))' = Cardinality(At("unlikeDec", p)) - 1
    BY <1>0, <1>10, OwedAfter DEF UnlikeDec, Owed
  <2>2. likeCount'[p] = likeCount[p] - 1 /\ Likers(p)' = Likers(p)
    BY <1>0, <1>10 DEF TypeOK, UnlikeDec, Likers
  <2>. QED  BY <1>0, <2>1, <2>2 DEF Drift, Owed
<1>. QED
  BY <1>2, <1>3, <1>4, <1>5, <1>6, <1>7, <1>8, <1>9, <1>10 DEF Step

\* A failure can cost one owed write, and is counted.
LEMMA DriftOfFailure ==
  ASSUME TypeOK, NEW r \in Requests, Fail(r), NEW p \in Posts
  PROVE  /\ Drift(p)' \in {Drift(p) - 1, Drift(p), Drift(p) + 1}
         /\ failures' = failures + 1
<1>1. /\ likeCount[p] \in Int /\ Cardinality(Likers(p)) \in Nat
      /\ \A c \in Owed : Cardinality(At(c, p)) \in Nat
  BY Countable DEF TypeOK
<1>2. ~(r \in At("likeInc", p) /\ r \in At("unlikeDec", p))
  BY DEF At
<1>3. \A c \in Owed : Cardinality(At(c, p))'
                        = Cardinality(At(c, p)) - (IF r \in At(c, p) THEN 1 ELSE 0)
  BY OwedAfter DEF Fail
<1>4. likeCount'[p] = likeCount[p] /\ Likers(p)' = Likers(p)
  BY DEF Fail, store, Likers
<1>. QED  BY <1>1, <1>2, <1>3, <1>4 DEF Drift, Owed, Fail

\* The drift of every post that is up stays within the failures.
LEMMA CountPreserved == CountInv /\ [Next]_vars => CountTracksLikes'
<1> SUFFICES ASSUME CountInv, [Next]_vars, NEW p \in live'
             PROVE  Drift(p)' <= failures' /\ -(Drift(p)') <= failures'
  BY DEF CountTracksLikes
<1>1. failures \in Nat /\ p \in Posts
  BY TypePreserved, FailuresAssumption DEF CountInv, TypeOK
<1>2. /\ Cardinality(Likers(p)) \in Nat
      /\ \A c \in Owed : Cardinality(At(c, p)) \in Nat
  BY Countable
<1>3. Drift(p) \in Int
  BY <1>1, <1>2 DEF CountInv, TypeOK, Drift, Owed
<1>4. ASSUME p \in live PROVE Drift(p) <= failures /\ -Drift(p) <= failures
  BY <1>4 DEF CountInv, CountTracksLikes
<1>5. CASE UNCHANGED vars
  <2>1. Drift(p)' = Drift(p) /\ p \in live /\ failures' = failures
    BY <1>5 DEF vars, Drift, Likers, At
  <2>. QED  BY <1>3, <1>4, <2>1
<1>6. ASSUME NEW r \in Requests, StepOf(r)
      PROVE  Drift(p)' <= failures' /\ -(Drift(p)') <= failures'
  <2>1. CASE p \notin live
    <3>1. ShareCreate(r)
      BY <1>6, <2>1, OnlySharesCreate
    <3>2. Drift(p)' = 0 /\ failures' = failures
      BY <2>1, <3>1, DriftOfNewPost DEF CountInv, ShareCreate
    <3>. QED  BY <1>1, <3>2
  <2>2. CASE p \in live /\ Fail(r)
    <3>1. Drift(p)' \in {Drift(p) - 1, Drift(p), Drift(p) + 1} /\ failures' = failures + 1
      BY <1>1, <2>2, DriftOfFailure DEF CountInv
    <3>. QED  BY <1>1, <1>3, <1>4, <2>2, <3>1
  <2>3. CASE p \in live /\ ~Fail(r)
    <3>1. failures' = failures
      BY <1>6, <2>3, FailuresKept
    <3>2. CASE request[r].post # p
      <4>1. Drift(p)' = Drift(p)
        BY <1>1, <1>6, <3>2, DriftOfOtherPost DEF CountInv
      <4>. QED  BY <1>3, <1>4, <2>3, <3>1, <4>1
    <3>3. CASE request[r].post = p
      <4>1. Step(r)
        BY <1>1, <1>6, <2>3, <3>3, NoneAssumption DEF StepOf, Arrive, ArriveShare, Idle
      <4>2. Drift(p)' = Drift(p)
        BY <2>3, <3>3, <4>1, DriftOfOwnPost DEF CountInv
      <4>. QED  BY <1>3, <1>4, <2>3, <3>1, <4>2
    <3>. QED  BY <3>2, <3>3
  <2>. QED  BY <2>1, <2>2, <2>3
<1>. QED  BY <1>5, <1>6 DEF Next, StepOf

\* The invariant holds at the start and is kept by every step.
LEMMA CountInvariant == Spec => []CountInv
<1>1. Init => CountInv
  BY TypeCorrectAtStart, NoneAssumption DEF Init, CountInv, FreshUntouched, GoneStaysGone,
     CleanUps, Idle, CountTracksLikes, Likers
<1>2. CountInv /\ [Next]_vars => CountInv'
  BY TypePreserved, FreshPreserved, GonePreserved, CountPreserved DEF CountInv
<1>. QED  BY <1>1, <1>2, PTL DEF Spec

\* However likes, unlikes, shares and deletes interleave, the stored count of
\* every post that is up is its number of like rows once the owed writes are
\* in, give or take one for each request that failed part-way.
THEOREM CountsTrackLikes == Spec => []CountTracksLikes
<1>1. CountInv => CountTracksLikes
  BY DEF CountInv
<1>. QED  BY <1>1, CountInvariant, PTL

----------------------------------------------------------------------------
(***************************************************************************)
(* Who removes what.                                                       *)
(***************************************************************************)

\* A step that removes a row of a post still up is an unlike or an unsave.
LEMMA RemovalIsAsked ==
  ASSUME TypeOK, GoneStaysGone, [Next]_vars, NEW p \in live', NEW u \in Users
  PROVE  /\ <<p, u>> \in likes \ likes' =>
              \E r \in Requests : Row(r) = <<p, u>> /\ request[r].at = "unlikeRemove"
         /\ <<p, u>> \in saves \ saves' =>
              \E r \in Requests : Row(r) = <<p, u>> /\ request[r].at = "unsaveRemove"
<1>1. CASE UNCHANGED vars
  BY <1>1 DEF vars
<1>2. ASSUME NEW r \in Requests, StepOf(r)
      PROVE  /\ <<p, u>> \in likes \ likes' =>
                  Row(r) = <<p, u>> /\ request[r].at = "unlikeRemove"
             /\ <<p, u>> \in saves \ saves' =>
                  Row(r) = <<p, u>> /\ request[r].at = "unsaveRemove"
  <2>1. CASE UNCHANGED <<likes, saves>>
    BY <2>1
  <2>2. CASE LikeInsert(r) \/ SaveInsert(r)
    BY <2>2 DEF LikeInsert, SaveInsert
  <2>3. CASE UnlikeRemove(r)
    BY <2>3 DEF UnlikeRemove
  <2>4. CASE UnsaveRemove(r)
    BY <2>4 DEF UnsaveRemove
  <2>5. CASE LikeUndo(r)
    <3>1. request[r].post \notin live'
      BY <2>5 DEF LikeUndo, GoneStaysGone, CleanUps
    <3>. QED  BY <2>5, <3>1 DEF LikeUndo, Row
  <2>6. CASE CascadeLikes(r) \/ CascadeSaves(r)
    <3>1. request[r].post \notin live'
      BY <2>6 DEF CascadeLikes, CascadeSaves, GoneStaysGone, CleanUps
    <3>. QED  BY <2>6, <3>1 DEF CascadeLikes, CascadeSaves
  <2>7. CASE LikeInc(r) \/ UnlikeDec(r) \/ DeletePost(r) \/ Fail(r)
    BY <2>1, <2>7 DEF LikeInc, UnlikeDec, DeletePost, Fail, store
  <2>8. CASE LikeFind(r) \/ UnlikeFind(r) \/ SaveFind(r) \/ UnsaveFind(r)
    BY <2>1, <2>8 DEF LikeFind, UnlikeFind, SaveFind, UnsaveFind, FindPost, store
  <2>9. CASE Arrive(r) \/ ArriveShare(r) \/ ShareCheck(r) \/ ShareCreate(r)
    BY <2>1, <2>9 DEF Arrive, ArriveShare, ShareCheck, ShareCreate, store
  <2>. QED
    BY <1>2, <2>2, <2>3, <2>4, <2>5, <2>6, <2>7, <2>8, <2>9 DEF StepOf, Step
<1>. QED  BY <1>1, <1>2 DEF Next, StepOf

\* A like or save of a post that is up disappears only by its user's request.
THEOREM OnlyTheirUserRemovesRows == Spec => RowsRemovedByTheirUser
<1>1. CountInv /\ [Next]_vars =>
        [\A p \in live', u \in Users :
           /\ <<p, u>> \in likes \ likes' =>
                \E r \in Requests : Row(r) = <<p, u>> /\ request[r].at = "unlikeRemove"
           /\ <<p, u>> \in saves \ saves' =>
                \E r \in Requests : Row(r) = <<p, u>> /\ request[r].at = "unsaveRemove"]_vars
  BY RemovalIsAsked DEF CountInv
<1>. QED  BY <1>1, CountInvariant, PTL DEF Spec, RowsRemovedByTheirUser

\* A step that takes a post down is its author's delete; one that puts a post
\* up takes a new id.
LEMMA RetractionIsAsked ==
  ASSUME TypeOK, [Next]_vars
  PROVE  /\ \A p \in live \ live' :
              \E r \in Requests : request[r].at = "deletePost" /\ Row(r) = <<p, author[p]>>
         /\ \A p \in live' \ live : author[p] = None
<1>1. CASE UNCHANGED vars
  BY <1>1 DEF vars
<1>2. ASSUME NEW r \in Requests, StepOf(r)
      PROVE  /\ \A p \in live \ live' : request[r].at = "deletePost" /\ Row(r) = <<p, author[p]>>
             /\ \A p \in live' \ live : author[p] = None
  <2>1. CASE ShareCreate(r)
    BY <2>1 DEF ShareCreate, Created
  <2>2. CASE DeletePost(r)
    BY <2>2 DEF DeletePost, Row
  <2>3. CASE LikeInsert(r) \/ LikeInc(r) \/ LikeUndo(r) \/ UnlikeRemove(r) \/ UnlikeDec(r)
    BY <2>3 DEF LikeInsert, LikeInc, LikeUndo, UnlikeRemove, UnlikeDec
  <2>4. CASE SaveInsert(r) \/ UnsaveRemove(r) \/ CascadeLikes(r) \/ CascadeSaves(r) \/ Fail(r)
    BY <2>4 DEF SaveInsert, UnsaveRemove, CascadeLikes, CascadeSaves, Fail, store
  <2>5. CASE LikeFind(r) \/ UnlikeFind(r) \/ SaveFind(r) \/ UnsaveFind(r)
    BY <2>5 DEF LikeFind, UnlikeFind, SaveFind, UnsaveFind, FindPost, store
  <2>6. CASE Arrive(r) \/ ArriveShare(r) \/ ShareCheck(r)
    BY <2>6 DEF Arrive, ArriveShare, ShareCheck, store
  <2>. QED  BY <1>2, <2>1, <2>2, <2>3, <2>4, <2>5, <2>6 DEF StepOf, Step
<1>. QED  BY <1>1, <1>2 DEF Next, StepOf

\* Posts come down only at their author's request, and ids are never reused.
THEOREM OnlyAuthorsRetract == Spec => PostsRetractedByAuthor
<1>1. TypeOK /\ [Next]_vars =>
        [/\ \A p \in live \ live' :
              \E r \in Requests : request[r].at = "deletePost" /\ Row(r) = <<p, author[p]>>
         /\ \A p \in live' \ live : author[p] = None]_vars
  BY RetractionIsAsked
<1>. QED  BY <1>1, TypeCorrect, PTL DEF Spec, PostsRetractedByAuthor

\* Nobody's row or post is removed by a request of anybody else.
THEOREM OnlyOwners == Spec => OnlyOwnersRemove
BY OnlyTheirUserRemovesRows, OnlyAuthorsRetract DEF OnlyOwnersRemove

----------------------------------------------------------------------------
(***************************************************************************)
(* Rows left on a deleted post.                                            *)
(***************************************************************************)

\* Request r is going to remove the like row of a post that is gone.
Removes(r, row) ==
  \/ request[r].post = row[1] /\ request[r].at \in {"cascadeBoth", "cascadeLikes"}
  \/ Row(r) = row /\ request[r].at \in {"likeInc", "likeUndo"}

\* A request that is going to remove a row either removes it in its next step,
\* stays bound to, or fails.
LEMMA RemoverStays ==
  ASSUME TypeOK, NEW q \in Requests, NEW row \in likes', row[1] \notin live,
         Removes(q, row), NEW r \in Requests, StepOf(r), ~Fail(r)
  PROVE  Removes(q, row)'
<1>1. CASE q # r
  BY <1>1, OthersWait DEF Removes, Row
<1>2. CASE q = r
  <2>1. ~Arrive(r) /\ ~ArriveShare(r)
    BY <1>2 DEF Removes, Arrive, ArriveShare, Idle
  <2>2. CASE LikeInc(r)
    <3>1. Row(r) = row /\ request[r].post \notin live
      BY <1>2, <2>2 DEF Removes, LikeInc, Row
    <3>2. Continue(r, "likeUndo")
      BY <2>2, <3>1 DEF LikeInc
    <3>. QED  BY <1>2, <3>1, <3>2, Continued DEF Removes, Row
  <2>3. CASE LikeUndo(r)
    BY <1>2, <2>3 DEF Removes, LikeUndo
  <2>4. CASE CascadeLikes(r)
    BY <1>2, <2>4 DEF Removes, CascadeLikes
  <2>5. CASE CascadeSaves(r)
    <3>1. request[r].at = "cascadeBoth" /\ request[r].post = row[1]
      BY <1>2, <2>5 DEF Removes, CascadeSaves
    <3>2. Continue(r, "cascadeLikes")
      BY <2>5, <3>1 DEF CascadeSaves
    <3>. QED  BY <1>2, <3>1, <3>2, Continued DEF Removes
  <2>6. ~ShareCheck(r) /\ ~ShareCreate(r) /\ ~LikeFind(r) /\ ~LikeInsert(r) /\ ~UnlikeFind(r)
        /\ ~UnlikeRemove(r) /\ ~UnlikeDec(r) /\ ~SaveFind(r) /\ ~SaveInsert(r) /\ ~UnsaveFind(r)
        /\ ~UnsaveRemove(r) /\ ~DeletePost(r)
    BY <1>2 DEF Removes, ShareCheck, ShareCreate, LikeFind, LikeInsert, UnlikeFind, UnlikeRemove,
       UnlikeDec, SaveFind, SaveInsert, UnsaveFind, UnsaveRemove, DeletePost
  <2>. QED  BY <2>1, <2>2, <2>3, <2>4, <2>5, <2>6 DEF StepOf, Step
<1>. QED  BY <1>1, <1>2

\* A step that likes a post that is gone, or takes down a post with likes,
\* leaves its own request bound to remove the row.
LEMMA RemoverArises ==
  ASSUME TypeOK, NEW row \in likes', row[1] \notin live',
         row \notin likes \/ row[1] \in live, NEW r \in Requests, StepOf(r)
  PROVE  Removes(r, row)'
<1>1. CASE LikeInsert(r)
  <2>1. row = Row(r) /\ Row(r) \notin likes
    BY <1>1 DEF LikeInsert
  <2>2. Continue(r, "likeInc")
    BY <1>1, <2>1 DEF LikeInsert
  <2>. QED  BY <2>1, <2>2, Continued DEF Removes, Row
<1>2. CASE DeletePost(r)
  <2>1. row[1] = request[r].post /\ Continue(r, "cascadeBoth")
    BY <1>2 DEF DeletePost
  <2>. QED  BY <2>1, Continued DEF Removes
<1>3. CASE ~LikeInsert(r) /\ ~DeletePost(r)
  <2>1. CASE Arrive(r) \/ ArriveShare(r) \/ ShareCheck(r) \/ ShareCreate(r) \/ Fail(r)
    BY <2>1 DEF Arrive, ArriveShare, ShareCheck, ShareCreate, Fail, store
  <2>2. CASE LikeFind(r) \/ UnlikeFind(r) \/ SaveFind(r) \/ UnsaveFind(r)
    BY <2>2 DEF LikeFind, UnlikeFind, SaveFind, UnsaveFind, FindPost, store
  <2>3. CASE LikeInc(r) \/ LikeUndo(r) \/ UnlikeRemove(r) \/ UnlikeDec(r)
    BY <2>3 DEF LikeInc, LikeUndo, UnlikeRemove, UnlikeDec
  <2>4. CASE SaveInsert(r) \/ UnsaveRemove(r) \/ CascadeLikes(r) \/ CascadeSaves(r)
    BY <2>4 DEF SaveInsert, UnsaveRemove, CascadeLikes, CascadeSaves
  <2>. QED  BY <1>3, <2>1, <2>2, <2>3, <2>4 DEF StepOf, Step
<1>. QED  BY <1>1, <1>2, <1>3

\* While nothing has failed, every like row on a deleted post has a request in
\* flight that is going to remove it.
THEOREM NoLikeStranded == Spec => []NoStrandedLike
<1>1. Init => NoStrandedLike
  BY DEF Init, NoStrandedLike
<1>2. ASSUME TypeOK, TypeOK', NoStrandedLike, [Next]_vars, failures' = 0,
             NEW row \in likes', row[1] \notin live'
      PROVE  \E q \in Requests : Removes(q, row)'
  <2>1. CASE UNCHANGED vars
    BY <1>2, <2>1 DEF vars, NoStrandedLike, Removes, Row
  <2>2. ASSUME NEW r \in Requests, StepOf(r) PROVE \E q \in Requests : Removes(q, row)'
    <3>1. ~Fail(r)
      BY <1>2 DEF TypeOK, Fail
    <3>2. failures = 0
      BY <1>2, <2>2, <3>1, FailuresKept
    <3>3. CASE row \in likes /\ row[1] \notin live
      <4>1. PICK q \in Requests : Removes(q, row)
        BY <1>2, <3>2, <3>3 DEF NoStrandedLike, Removes
      <4>. QED  BY <1>2, <2>2, <3>1, <3>3, <4>1, RemoverStays
    <3>4. CASE row \notin likes \/ row[1] \in live
      BY <1>2, <2>2, <3>4, RemoverArises
    <3>. QED  BY <3>3, <3>4
  <2>. QED  BY <1>2, <2>1, <2>2 DEF Next, StepOf
<1>3. TypeOK /\ TypeOK' /\ NoStrandedLike /\ [Next]_vars => NoStrandedLike'
  BY <1>2 DEF NoStrandedLike, Removes, Row
<1>. QED  BY <1>1, <1>3, TypeCorrect, PTL DEF Spec

----------------------------------------------------------------------------
(***************************************************************************)
(* The handlers of Community, each several database calls long and         *)
(* interleaved with all the others, implement LikeLedger, in which every   *)
(* like, unlike, save, share and delete is one step.                       *)
(***************************************************************************)

(***************************************************************************)
(* What the ledger shows of a post, as the refinement mapping has it.      *)
(***************************************************************************)
Savers(p) == {u \in Users : <<p, u>> \in saves}
Counted(p) == likeCount[p] + Cardinality(At("likeInc", p)) - Cardinality(At("unlikeDec", p))

LikersShown(p) == IF p \in live THEN Likers(p) ELSE {}
SaversShown(p) == IF p \in live THEN Savers(p) ELSE {}
Tally(p) == IF p \in live THEN Counted(p) ELSE 0

\* The ledger shows the same of post p after the step.
Still(p) == /\ LikersShown(p)' = LikersShown(p)
            /\ SaversShown(p)' = SaversShown(p)
            /\ Tally(p)' = Tally(p)

\* No post is put up or taken down, and no request fails.
Quiet == live' = live /\ Created' = Created /\ failures' = failures

\* A step that moves nothing the ledger shows is none of its steps.
LEMMA LedgerStutters ==
  ASSUME Quiet, \A p \in Posts : Still(p)
  PROVE  UNCHANGED Ledger!ledger
BY DEF Quiet, Still, Ledger!ledger, LikersShown, SaversShown, Tally, Savers, Counted

\* A step that moves one post, the way the ledger does, is its step.
LEMMA LedgerMoves ==
  ASSUME NEW p \in Posts, NEW u \in Users, p \in live, Quiet,
         \A q \in Posts \ {p} : Still(q)
  PROVE  /\ /\ u \notin Likers(p) /\ LikersShown(p)' = LikersShown(p) \cup {u}
            /\ Tally(p)' = Tally(p) + 1 /\ SaversShown(p)' = SaversShown(p)
            => Ledger!Like(p, u)
         /\ /\ u \in Likers(p) /\ LikersShown(p)' = LikersShown(p) \ {u}
            /\ Tally(p)' = Tally(p) - 1 /\ SaversShown(p)' = SaversShown(p)
            => Ledger!Unlike(p, u)
         /\ /\ SaversShown(p)' = SaversShown(p) \cup {u}
            /\ Tally(p)' = Tally(p) /\ LikersShown(p)' = LikersShown(p)
            => Ledger!Save(p, u)
         /\ /\ SaversShown(p)' = SaversShown(p) \ {u}
            /\ Tally(p)' = Tally(p) /\ LikersShown(p)' = LikersShown(p)
            => Ledger!Unsave(p, u)
<1>. USE DEF Quiet, Still, LikersShown, SaversShown, Tally, Savers, Counted
<1>1. ASSUME u \notin Likers(p), LikersShown(p)' = LikersShown(p) \cup {u},
             Tally(p)' = Tally(p) + 1, SaversShown(p)' = SaversShown(p)
      PROVE  Ledger!Like(p, u)
  BY <1>1 DEF Ledger!Like
<1>2. ASSUME u \in Likers(p), LikersShown(p)' = LikersShown(p) \ {u},
             Tally(p)' = Tally(p) - 1, SaversShown(p)' = SaversShown(p)
      PROVE  Ledger!Unlike(p, u)
  BY <1>2 DEF Ledger!Unlike
<1>3. ASSUME SaversShown(p)' = SaversShown(p) \cup {u},
             Tally(p)' = Tally(p), LikersShown(p)' = LikersShown(p)
      PROVE  Ledger!Save(p, u)
  BY <1>3 DEF Ledger!Save
<1>4. ASSUME SaversShown(p)' = SaversShown(p) \ {u},
             Tally(p)' = Tally(p), LikersShown(p)' = LikersShown(p)
      PROVE  Ledger!Unsave(p, u)
  BY <1>4 DEF Ledger!Unsave
<1>. QED  BY <1>1, <1>2, <1>3, <1>4

\* Putting a post up, taking it down, and failing.
LEMMA LedgerTurns ==
  ASSUME NEW p \in Posts, \A q \in Posts \ {p} : Still(q)
  PROVE  /\ /\ p \notin Created /\ live' = live \cup {p} /\ Created' = Created \cup {p}
            /\ failures' = failures /\ Still(p)
            => Ledger!Share(p)
         /\ /\ p \in live /\ live' = live \ {p} /\ Created' = Created /\ failures' = failures
            => Ledger!Retract(p)
         /\ /\ live' = live /\ Created' = Created /\ failures' = failures + 1
            /\ LikersShown(p)' = LikersShown(p) /\ SaversShown(p)' = SaversShown(p)
            /\ Tally(p)' \in {Tally(p) - 1, Tally(p), Tally(p) + 1} /\ Tally(p) \in Int
            => Ledger!Slip(p)
<1>. USE DEF Still, LikersShown, SaversShown, Tally, Savers, Counted
<1>1. ASSUME p \notin Created, live' = live \cup {p}, Created' = Created \cup {p},
             failures' = failures, Still(p)
      PROVE  Ledger!Share(p)
  BY <1>1 DEF Ledger!Share
<1>2. ASSUME p \in live, live' = live \ {p}, Created' = Created, failures' = failures
      PROVE  Ledger!Retract(p)
  BY <1>2 DEF Ledger!Retract
<1>3. ASSUME live' = live, Created' = Created, failures' = failures + 1,
             LikersShown(p)' = LikersShown(p), SaversShown(p)' = SaversShown(p),
             Tally(p)' \in {Tally(p) - 1, Tally(p), Tally(p) + 1}, Tally(p) \in Int
      PROVE  Ledger!Slip(p)
  <2>1. PICK d \in {-1, 0, 1} : Tally(p)' = Tally(p) + d
    BY <1>3
  <2>. QED  BY ZenonT(40), <1>3, <2>1 DEF Ledger!Slip
<1>. QED  BY <1>1, <1>2, <1>3

(***************************************************************************)
(* What the mapping needs beside CountInv: an unused id has no saves, so a *)
(* share starts from nothing; and where something is in flight there are   *)
(* posts, so a failure has a tally to slip.                                *)
(***************************************************************************)
FreshUnsaved == \A p \in Posts : author[p] = None => Savers(p) = {}
PostsToMiss == \A r \in Requests : request[r] # Idle => Posts # {}

LedgerInv == CountInv /\ FreshUnsaved /\ PostsToMiss

\* A step saves and unsaves nothing but its own post.
LEMMA OtherSavers ==
  ASSUME TypeOK, NEW r \in Requests, StepOf(r), NEW p \in Posts, request[r].post # p
  PROVE  Savers(p)' = Savers(p)
<1>1. CASE SaveInsert(r) \/ UnsaveRemove(r)
  BY <1>1 DEF SaveInsert, UnsaveRemove, Row, Savers
<1>2. CASE CascadeSaves(r)
  BY <1>2 DEF CascadeSaves, Savers
<1>3. CASE Arrive(r) \/ ArriveShare(r) \/ ShareCheck(r) \/ ShareCreate(r) \/ Fail(r)
  BY <1>3 DEF Arrive, ArriveShare, ShareCheck, ShareCreate, Fail, store, Savers
<1>4. CASE LikeFind(r) \/ UnlikeFind(r) \/ SaveFind(r) \/ UnsaveFind(r)
  BY <1>4 DEF LikeFind, UnlikeFind, SaveFind, UnsaveFind, FindPost, store, Savers
<1>5. CASE LikeInsert(r) \/ LikeInc(r) \/ LikeUndo(r) \/ UnlikeRemove(r) \/ UnlikeDec(r)
           \/ DeletePost(r) \/ CascadeLikes(r)
  BY <1>5 DEF LikeInsert, LikeInc, LikeUndo, UnlikeRemove, UnlikeDec, DeletePost, CascadeLikes, Savers
<1>. QED  BY <1>1, <1>2, <1>3, <1>4, <1>5 DEF StepOf, Step

\* What has been authored stays so, and a request's post is authored.
LEMMA FreshBefore ==
  ASSUME TypeOK, NEW r \in Requests, StepOf(r), NEW p \in Posts, author'[p] = None
  PROVE  author[p] = None
<1>1. CASE ShareCreate(r)
  <2>1. request[r].user \in Users
    BY <1>1 DEF TypeOK, ShareCreate, Activation, Idle, Sharing, OnPost
  <2>2. PICK s \in Posts : author' = [author EXCEPT ![s] = request[r].user]
    BY <1>1 DEF ShareCreate
  <2>. QED  BY <2>1, <2>2, NoneAssumption DEF TypeOK
<1>. QED  BY <1>1, OnlySharesCreate

\* Every step keeps what the mapping needs.
LEMMA LedgerInvKept == LedgerInv /\ [Next]_vars => LedgerInv'
<1> SUFFICES ASSUME LedgerInv, [Next]_vars PROVE LedgerInv'
  OBVIOUS
<1>1. CountInv'
  BY TypePreserved, FreshPreserved, GonePreserved, CountPreserved DEF LedgerInv, CountInv
<1>2. CASE UNCHANGED vars
  BY <1>1, <1>2 DEF vars, LedgerInv, FreshUnsaved, PostsToMiss, Savers
<1>3. ASSUME NEW r \in Requests, StepOf(r) PROVE FreshUnsaved' /\ PostsToMiss'
  <2>0. TypeOK
    BY DEF LedgerInv, CountInv
  <2>1. ASSUME NEW p \in Posts, author'[p] = None PROVE Savers(p)' = {}
    <3>1. author[p] = None
      BY <1>3, <2>0, <2>1, FreshBefore
    <3>2. request[r].post # p /\ Savers(p) = {}
      BY <3>1 DEF LedgerInv, FreshUnsaved, CountInv, FreshUntouched
    <3>. QED  BY <1>3, <2>0, <3>2, OtherSavers
  <2>2. ASSUME Posts = {} PROVE \A q \in Requests : request'[q] = Idle
    <3>1. \A q \in Requests : request[q] = Idle
      BY <2>2 DEF LedgerInv, PostsToMiss
    <3>2. ~Arrive(r)
      BY <2>2 DEF Arrive, Created
    <3>3. ~ArriveShare(r)
      <4>1. Cardinality(Posts \ Created) = 0
        BY <2>2, FS_EmptySet
      <4>2. Cardinality({q \in Requests : request[q].at \in Sharing}) \in Nat
        BY RequestsAssumption, FS_Subset, FS_CardinalityType
      <4>. QED  BY <4>1, <4>2 DEF ArriveShare
    <3>4. ~Step(r) /\ ~Fail(r)
      BY <3>1 DEF Idle, Step, Fail, ShareCheck, ShareCreate, LikeFind, LikeInsert, LikeInc, LikeUndo,
         UnlikeFind, UnlikeRemove, UnlikeDec, SaveFind, SaveInsert, UnsaveFind, UnsaveRemove,
         DeletePost, CascadeLikes, CascadeSaves
    <3>. QED  BY <1>3, <3>2, <3>3, <3>4 DEF StepOf
  <2>. QED  BY <2>1, <2>2 DEF FreshUnsaved, PostsToMiss
<1>. QED  BY <1>1, <1>2, <1>3 DEF LedgerInv, Next, StepOf

----------------------------------------------------------------------------
(***************************************************************************)
(* The steps.                                                              *)
(***************************************************************************)

\* A step shows nothing new of any post but its own.
LEMMA OthersStill ==
  ASSUME TypeOK, NEW r \in Requests, StepOf(r), NEW p \in Posts, request[r].post # p,
         p \in live' <=> p \in live
  PROVE  Still(p)
<1>1. likeCount'[p] = likeCount[p] /\ Likers(p)' = Likers(p) /\ Savers(p)' = Savers(p)
  BY OtherPosts, OtherSavers
<1>2. ASSUME NEW c \in Owed PROVE Cardinality(At(c, p))' = Cardinality(At(c, p))
  <2>1. r \notin At(c, p)
    BY DEF At
  <2>2. CASE Arrive(r) \/ ArriveShare(r)
    <3>1. request'[r].at # c
      BY <2>2 DEF TypeOK, Arrive, ArriveShare, FirstCall, Owed
    <3>2. At(c, p)' = At(c, p)
      BY <2>1, <3>1, OthersWait DEF At
    <3>. QED  BY <3>2
  <2>3. CASE Step(r) \/ Fail(r)
    <3>1. Cardinality(At(c, p)) \in Nat
      BY Countable
    <3>. QED  BY <2>1, <2>3, <3>1, RunsOn, OwedAfter
  <2>. QED  BY <2>2, <2>3 DEF StepOf
<1>. QED  BY <1>1, <1>2 DEF Still, LikersShown, SaversShown, Tally, Counted, Owed

\* A handler's step moves the tally of its post by what it moves its likers.
LEMMA TallyFollows ==
  ASSUME CountInv, NEW r \in Requests, Step(r), NEW p \in live, p \in live', request[r].post = p
  PROVE  /\ Tally(p)' = Tally(p) + Cardinality(Likers(p))' - Cardinality(Likers(p))
         /\ Tally(p) \in Int
<1>1. Drift(p)' = Drift(p)
  BY DriftOfOwnPost DEF CountInv
<1>2. TypeOK /\ TypeOK'
  BY TypePreserved DEF CountInv, Next, StepOf
<1>3. /\ likeCount[p] \in Int
      /\ \A c \in Owed : Cardinality(At(c, p)) \in Nat
      /\ Cardinality(Likers(p)) \in Nat
  BY <1>2, Countable DEF TypeOK
<1>4. /\ likeCount'[p] \in Int
      /\ \A c \in Owed : Cardinality(At(c, p))' \in Nat
      /\ Cardinality(Likers(p))' \in Nat
  <2>1. Likers(p)' \subseteq Users /\ \A c : At(c, p)' \subseteq Requests
    BY DEF Likers, At
  <2>. QED
    BY <1>2, <2>1, RequestsAssumption, UsersAssumption, FS_Subset, FS_CardinalityType DEF TypeOK
<1>5. Drift(p) = Counted(p) - Cardinality(Likers(p)) /\ Counted(p) \in Int
  BY <1>3 DEF Drift, Counted, Owed
<1>6. Drift(p)' = Counted(p)' - Cardinality(Likers(p))' /\ Counted(p)' \in Int
  BY <1>4 DEF Drift, Counted, Owed
<1>. QED  BY <1>1, <1>3, <1>4, <1>5, <1>6 DEF Tally

\* Only shares, deletes and failures are not quiet.
LEMMA QuietSteps ==
  ASSUME NEW r \in Requests, StepOf(r), ~ShareCreate(r), ~Fail(r), ~DeletePost(r) \/ live' = live
  PROVE  Quiet
<1>1. author' = author /\ failures' = failures
  BY OnlySharesCreate, FailuresKept
<1>2. live' = live
  <2>1. CASE Arrive(r) \/ ArriveShare(r) \/ ShareCheck(r)
    BY <2>1 DEF Arrive, ArriveShare, ShareCheck, store
  <2>2. CASE LikeFind(r) \/ UnlikeFind(r) \/ SaveFind(r) \/ UnsaveFind(r)
    BY <2>2 DEF LikeFind, UnlikeFind, SaveFind, UnsaveFind, FindPost, store
  <2>3. CASE LikeInsert(r) \/ LikeInc(r) \/ LikeUndo(r) \/ UnlikeRemove(r) \/ UnlikeDec(r)
    BY <2>3 DEF LikeInsert, LikeInc, LikeUndo, UnlikeRemove, UnlikeDec
  <2>4. CASE SaveInsert(r) \/ UnsaveRemove(r) \/ CascadeLikes(r) \/ CascadeSaves(r)
    BY <2>4 DEF SaveInsert, UnsaveRemove, CascadeLikes, CascadeSaves
  <2>. QED  BY <2>1, <2>2, <2>3, <2>4 DEF StepOf, Step
<1>. QED  BY <1>1, <1>2 DEF Quiet, Created

\* A share is the ledger's: the new post has no likes, no saves and no debts.
LEMMA ShareMaps ==
  ASSUME LedgerInv, NEW r \in Requests, ShareCreate(r)
  PROVE  Ledger!Next
<1>0. TypeOK /\ FreshUntouched /\ StepOf(r)
  BY DEF LedgerInv, CountInv, StepOf, Step
<1>1. request[r].user \in Users /\ request[r].post \notin Posts
  BY <1>0, NoneAssumption DEF TypeOK, ShareCreate, Activation, Idle, Sharing, OnPost
<1>2. PICK p \in Posts \ Created :
        live' = live \cup {p} /\ author' = [author EXCEPT ![p] = request[r].user]
  BY DEF ShareCreate
<1>3. Created' = Created \cup {p}
  BY <1>0, <1>1, <1>2, NoneAssumption DEF Created, TypeOK
<1>4. p \notin live /\ author[p] = None
  BY <1>0, <1>2 DEF FreshUntouched, Created
<1>5. Still(p)
  <2>1. likeCount'[p] = 0 /\ Likers(p)' = {} /\ Savers(p)' = {}
    BY <1>0, <1>4 DEF ShareCreate, FreshUntouched, LedgerInv, FreshUnsaved, Likers, Savers
  <2>2. \A c \in Owed : At(c, p)' = {}
    BY <1>0, <1>4, AtAnswered DEF ShareCreate, FreshUntouched, Owed, At
  <2>3. Counted(p)' = 0
    BY <2>1, <2>2, FS_EmptySet DEF Counted, Owed
  <2>. QED  BY <1>2, <1>4, <2>1, <2>3 DEF Still, LikersShown, SaversShown, Tally
<1>6. ASSUME NEW q \in Posts \ {p} PROVE Still(q)
  BY <1>0, <1>1, <1>2, <1>6, OthersStill
<1>7. failures' = failures
  BY DEF ShareCreate
<1>. QED  BY <1>2, <1>3, <1>5, <1>6, <1>7, LedgerTurns DEF Ledger!Next

\* The owner's delete is the ledger's, whatever its cascade has left to do.
LEMMA DeleteMaps ==
  ASSUME LedgerInv, NEW r \in Requests, DeletePost(r), live' # live
  PROVE  Ledger!Next
<1>0. TypeOK /\ StepOf(r)
  BY DEF LedgerInv, CountInv, StepOf, Step
<1>1. request[r].post \in live /\ live' = live \ {request[r].post} /\ author' = author
      /\ failures' = failures
  BY DEF DeletePost
<1>2. request[r].post \in Posts /\ Created' = Created
  BY <1>0, <1>1 DEF TypeOK, Created
<1>3. ASSUME NEW q \in Posts \ {request[r].post} PROVE Still(q)
  BY <1>0, <1>1, <1>3, OthersStill
<1>. QED  BY <1>1, <1>2, <1>3, LedgerTurns DEF Ledger!Next

\* A failure is a slip of the post its request was about.
LEMMA FailureMaps ==
  ASSUME LedgerInv, NEW r \in Requests, Fail(r)
  PROVE  Ledger!Next
<1>0. TypeOK /\ StepOf(r) /\ Posts # {}
  BY DEF LedgerInv, CountInv, StepOf, PostsToMiss, Fail
<1>1. PICK p \in Posts : \A q \in Posts \ {p} : request[r].post # q
  BY <1>0
<1>2. live' = live /\ Created' = Created /\ failures' = failures + 1
  BY DEF Fail, store, Created
<1>3. ASSUME NEW q \in Posts \ {p} PROVE Still(q)
  BY <1>0, <1>1, <1>2, <1>3, OthersStill
<1>4. LikersShown(p)' = LikersShown(p) /\ SaversShown(p)' = SaversShown(p)
  BY DEF Fail, store, LikersShown, SaversShown, Likers, Savers
<1>5. Tally(p)' \in {Tally(p) - 1, Tally(p), Tally(p) + 1} /\ Tally(p) \in Int
  <2>1. /\ likeCount[p] \in Int /\ likeCount' = likeCount
        /\ \A c \in Owed : Cardinality(At(c, p)) \in Nat
    BY <1>0, Countable DEF TypeOK, Fail, store
  <2>2. ~(r \in At("likeInc", p) /\ r \in At("unlikeDec", p))
    BY DEF At
  <2>3. \A c \in Owed : Cardinality(At(c, p))'
                          = Cardinality(At(c, p)) - (IF r \in At(c, p) THEN 1 ELSE 0)
    BY <1>0, OwedAfter DEF Fail
  <2>4. Counted(p)' \in {Counted(p) - 1, Counted(p), Counted(p) + 1} /\ Counted(p) \in Int
    BY <2>1, <2>2, <2>3 DEF Counted, Owed
  <2>. QED  BY <1>2, <2>4 DEF Tally
<1>. QED  BY <1>2, <1>3, <1>4, <1>5, LedgerTurns DEF Ledger!Next

\* On a post that is up, the insertion of a like row is the like, its removal
\* the unlike, and every other call but a save's shows nothing.
LEMMA CallMaps ==
  ASSUME LedgerInv, NEW r \in Requests, Step(r), Quiet,
         NEW p \in live, p = request[r].post, NEW u, u = request[r].user
  PROVE  Ledger!Next \/ UNCHANGED Ledger!ledger
<1>0. TypeOK /\ CountInv /\ GoneStaysGone /\ StepOf(r) /\ p \in Posts /\ p \in live' /\ live' = live
  BY DEF LedgerInv, CountInv, StepOf, TypeOK, Quiet
<1>1. ASSUME NEW q \in Posts \ {p} PROVE Still(q)
  BY <1>0, <1>1, OthersStill
<1>2. Tally(p)' = Tally(p) + Cardinality(Likers(p))' - Cardinality(Likers(p)) /\ Tally(p) \in Int
  BY <1>0, TallyFollows
<1>3. IsFiniteSet(Likers(p)) /\ Cardinality(Likers(p)) \in Nat
  BY Countable
<1>4. ASSUME Likers(p)' = Likers(p), Savers(p)' = Savers(p)
      PROVE  UNCHANGED Ledger!ledger
  <2>1. Tally(p)' = Tally(p)
    BY <1>2, <1>3, <1>4
  <2>2. Still(p)
    BY <1>0, <1>4, <2>1 DEF Still, LikersShown, SaversShown
  <2>. QED  BY <1>1, <2>2, LedgerStutters
<1>5. p # None /\ ~ShareCheck(r) /\ ~ShareCreate(r)
  <2>1. p # None
    BY <1>0, NoneAssumption
  <2>. QED  BY <1>0, <2>1 DEF TypeOK, Activation, Idle, OnPost, Sharing, ShareCheck, ShareCreate
<1>6. ~LikeUndo(r) /\ ~CascadeLikes(r) /\ ~CascadeSaves(r)
  BY <1>0 DEF GoneStaysGone, CleanUps, LikeUndo, CascadeLikes, CascadeSaves
<1>7. CASE LikeFind(r) \/ UnlikeFind(r) \/ SaveFind(r) \/ UnsaveFind(r)
  BY <1>4, <1>7 DEF LikeFind, UnlikeFind, SaveFind, UnsaveFind, FindPost, store, Likers, Savers
<1>8. CASE LikeInc(r) \/ UnlikeDec(r) \/ DeletePost(r)
  BY <1>4, <1>8 DEF LikeInc, UnlikeDec, DeletePost, Likers, Savers
<1>9. CASE LikeInsert(r)
  <2>1. u \in Users /\ Savers(p)' = Savers(p)
    BY <1>0, <1>9, OnPostType DEF LikeInsert, OnPost, Savers
  <2>2. CASE Row(r) \in likes
    BY <1>4, <1>9, <2>1, <2>2 DEF LikeInsert, Likers
  <2>3. CASE Row(r) \notin likes
    <3>1. Likers(p)' = Likers(p) \cup {u} /\ u \notin Likers(p)
      BY <1>9, <2>1, <2>3 DEF LikeInsert, Likers, Row
    <3>2. Tally(p)' = Tally(p) + 1
      <4>1. Cardinality(Likers(p) \cup {u}) = Cardinality(Likers(p)) + 1
        BY <1>3, <3>1, FS_AddElement
      <4>. QED  BY <1>2, <1>3, <3>1, <4>1
    <3>3. Ledger!Like(p, u)
      BY <1>0, <1>1, <2>1, <3>1, <3>2, LedgerMoves DEF LikersShown, SaversShown
    <3>. QED  BY <1>0, <2>1, <3>3 DEF Ledger!Next
  <2>. QED  BY <2>2, <2>3
<1>10. CASE UnlikeRemove(r)
  <2>1. u \in Users /\ Savers(p)' = Savers(p)
    BY <1>0, <1>10, OnPostType DEF UnlikeRemove, OnPost, Savers
  <2>2. CASE Row(r) \notin likes
    BY <1>4, <1>10, <2>1, <2>2 DEF UnlikeRemove, Likers
  <2>3. CASE Row(r) \in likes
    <3>1. Likers(p)' = Likers(p) \ {u} /\ u \in Likers(p)
      BY <1>10, <2>1, <2>3 DEF UnlikeRemove, Likers, Row
    <3>2. Tally(p)' = Tally(p) - 1
      <4>1. Cardinality(Likers(p) \ {u}) = Cardinality(Likers(p)) - 1
        BY <1>3, <3>1, FS_RemoveElement
      <4>. QED  BY <1>2, <1>3, <3>1, <4>1
    <3>3. Ledger!Unlike(p, u)
      BY <1>0, <1>1, <2>1, <3>1, <3>2, LedgerMoves DEF LikersShown, SaversShown
    <3>. QED  BY <1>0, <2>1, <3>3 DEF Ledger!Next
  <2>. QED  BY <2>2, <2>3
<1>11. CASE SaveInsert(r) \/ UnsaveRemove(r)
  <2>1. u \in Users /\ Likers(p)' = Likers(p)
    BY <1>0, <1>11, OnPostType DEF SaveInsert, UnsaveRemove, OnPost, Likers
  <2>2. Tally(p)' = Tally(p)
    BY <1>2, <1>3, <2>1
  <2>3. Savers(p)' = Savers(p) \cup {u} \/ Savers(p)' = Savers(p) \ {u}
    BY <1>11, <2>1 DEF SaveInsert, UnsaveRemove, Savers, Row
  <2>4. Ledger!Save(p, u) \/ Ledger!Unsave(p, u)
    BY <1>0, <1>1, <2>1, <2>2, <2>3, LedgerMoves DEF LikersShown, SaversShown
  <2>. QED  BY <1>0, <2>1, <2>4 DEF Ledger!Next
<1>. QED  BY <1>5, <1>6, <1>7, <1>8, <1>9, <1>10, <1>11 DEF Step

\* Every step of the handlers is a step of the ledger, or shows nothing.
LEMMA StepMaps == LedgerInv /\ [Next]_vars => [Ledger!Next]_(Ledger!ledger)
<1> SUFFICES ASSUME LedgerInv, [Next]_vars PROVE Ledger!Next \/ UNCHANGED Ledger!ledger
  OBVIOUS
<1>0. TypeOK
  BY DEF LedgerInv, CountInv
<1>1. CASE UNCHANGED vars
  <2>1. Quiet /\ \A p \in Posts : Still(p)
    BY <1>1 DEF vars, Quiet, Still, Created, LikersShown, SaversShown, Tally, Counted, Likers,
       Savers, At
  <2>. QED  BY <2>1, LedgerStutters
<1>2. ASSUME NEW r \in Requests, StepOf(r) PROVE Ledger!Next \/ UNCHANGED Ledger!ledger
  <2>1. CASE ShareCreate(r)
    BY <2>1, ShareMaps
  <2>2. CASE DeletePost(r) /\ live' # live
    BY <2>2, DeleteMaps
  <2>3. CASE Fail(r)
    BY <2>3, FailureMaps
  <2>4. CASE ~ShareCreate(r) /\ ~Fail(r) /\ (~DeletePost(r) \/ live' = live)
    <3>1. Quiet
      BY <1>2, <2>4, QuietSteps
    <3>2. CASE request[r].post \notin live
      <4>1. ASSUME NEW p \in Posts PROVE Still(p)
        <5>1. CASE request[r].post = p
          BY <3>1, <3>2, <5>1 DEF Quiet, Still, LikersShown, SaversShown, Tally
        <5>2. CASE request[r].post # p
          BY <1>0, <1>2, <3>1, <4>1, <5>2, OthersStill DEF Quiet
        <5>. QED  BY <5>1, <5>2
      <4>. QED  BY <3>1, <4>1, LedgerStutters
    <3>3. CASE request[r].post \in live
      <4>1. Step(r)
        BY <1>0, <1>2, <2>4, <3>3, NoneAssumption DEF TypeOK, StepOf, Arrive, ArriveShare, Idle
      <4>. QED  BY <3>1, <3>3, <4>1, CallMaps
    <3>. QED  BY <3>2, <3>3
  <2>. QED  BY <2>1, <2>2, <2>3, <2>4
<1>. QED  BY <1>1, <1>2 DEF Next, StepOf

\* The empty database is the empty ledger.
LEMMA StartMaps == Init => LedgerInv /\ Ledger!Init
<1> SUFFICES ASSUME Init PROVE LedgerInv /\ Ledger!Init
  OBVIOUS
<1>1. CountInv
  BY TypeCorrectAtStart, NoneAssumption DEF Init, CountInv, FreshUntouched, GoneStaysGone,
     CleanUps, Idle, CountTracksLikes, Likers
<1>2. FreshUnsaved /\ PostsToMiss
  BY DEF Init, FreshUnsaved, PostsToMiss, Savers
<1>3. Ledger!Init
  BY DEF Init, Ledger!Init, Created
<1>. QED  BY <1>1, <1>2, <1>3 DEF LedgerInv

\* Each handler of routes/community.ts is several database calls, interleaved
\* with everybody else's; yet a client sees a ledger in which liking, unliking,
\* saving, unsaving, sharing and deleting are each one step, and in which each
\* failed request puts one tally off by at most one.
THEOREM HandlersKeepTheLedger == Spec => ImplementsLedger
BY StartMaps, StepMaps, LedgerInvKept, PTL DEF Spec, ImplementsLedger, Ledger!Spec
============================================================================
