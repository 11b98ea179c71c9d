----------------------------- MODULE Community -----------------------------
(***************************************************************************)
(* Posts of the community feed, with their likes and saves, as the API's   *)
(* routes/community.ts keeps them in MongoDB.                              *)
(*                                                                         *)
(* mongod runs standalone, so there are no transactions: every database    *)
(* call of a handler is one atomic action, and the calls of requests in    *)
(* flight interleave freely.  request[r].at names the call request r is    *)
(* about to make.  A request may also fail at any call (the call rejects   *)
(* and the error handler answers 500, or the process dies); what the       *)
(* earlier calls wrote stays written.                                      *)
(***************************************************************************)
EXTENDS Integers, FiniteSets

CONSTANTS
  Users,        \* accounts holding a valid token
  Posts,        \* the ObjectIds posts are created with; never reused
  Requests,     \* slots for requests in flight
  MaxFailures,  \* bound: how many requests may fail part-way
  None          \* no user, no post

ASSUME NoneAssumption == None \notin Users /\ None \notin Posts
ASSUME RequestsAssumption == IsFiniteSet(Requests)
ASSUME UsersAssumption == IsFiniteSet(Users)
ASSUME FailuresAssumption == MaxFailures \in Nat

VARIABLES
  live,       \* posts in the CommunityPost collection
  author,     \* CommunityPost.userId, kept after deletion as history
  likeCount,  \* CommunityPost.likeCount, the denormalised counter; 0 when no post
  likes,      \* rows <<post, user>> of PostLike; the unique index makes it a set
  saves,      \* rows <<post, user>> of PostSave
  request,    \* the handler activations in flight
  failures    \* requests that failed part-way so far

vars == <<live, author, likeCount, likes, saves, request, failures>>

(***************************************************************************)
(* Where a handler can be waiting: the next database call it makes.        *)
(***************************************************************************)
OnPost == {"likeFind", "likeInsert", "likeInc", "likeUndo",
           "unlikeFind", "unlikeRemove", "unlikeDec",
           "saveFind", "saveInsert", "unsaveFind", "unsaveRemove",
           "deletePost", "cascadeBoth", "cascadeLikes", "cascadeSaves"}
Sharing == {"shareCheck", "shareCreate"}

\* The calls with which a handler addressed to a post begins.
FirstCall == {"likeFind", "unlikeFind", "saveFind", "unsaveFind", "deletePost"}

Idle == [at |-> "idle", user |-> None, post |-> None]

Activation == {Idle}
  \cup [at : OnPost, user : Users, post : Posts]
  \cup [at : Sharing, user : Users, post : {None}]

TypeOK ==
  /\ live \subseteq Posts
  /\ author \in [Posts -> Users \cup {None}]
  /\ likeCount \in [Posts -> Int]
  /\ likes \subseteq Posts \X Users
  /\ saves \subseteq Posts \X Users
  /\ request \in [Requests -> Activation]
  /\ failures \in 0..MaxFailures

\* Ids that have named a post: the ones a client can have been told.
Created == {p \in Posts : author[p] # None}

Likers(p) == {u \in Users : <<p, u>> \in likes}

\* The row a request's like or save is about.
Row(r) == <<request[r].post, request[r].user>>

\* The requests waiting at call c on post p.
At(c, p) == {r \in Requests : request[r].at = c /\ request[r].post = p}

Init ==
  /\ live = {}
  /\ author = [p \in Posts |-> None]
  /\ likeCount = [p \in Posts |-> 0]
  /\ likes = {}
  /\ saves = {}
  /\ request = [r \in Requests |-> Idle]
  /\ failures = 0

\* Request r has answered its client.
Answer(r) == request' = [request EXCEPT ![r] = Idle]

\* Request r goes on to call c.
Continue(r, c) == request' = [request EXCEPT ![r].at = c]

store == <<live, author, likeCount, likes, saves>>

----------------------------------------------------------------------------
(***************************************************************************)
(* Requests arriving.  Retries, double taps and a second device are just   *)
(* further requests.                                                       *)
(***************************************************************************)
Arrive(r) ==
  /\ request[r] = Idle
  /\ \E u \in Users, p \in Created, c \in FirstCall :
       request' = [request EXCEPT ![r] = [at |-> c, user |-> u, post |-> p]]
  /\ UNCHANGED <<store, failures>>

\* Posts bounds the shares: each one in flight has an id left to take.
ArriveShare(r) ==
  /\ request[r] = Idle
  /\ Cardinality({q \in Requests : request[q].at \in Sharing})
       < Cardinality(Posts \ Created)
  /\ \E u \in Users :
       request' = [request EXCEPT
                     ![r] = [at |-> "shareCheck", user |-> u, post |-> None]]
  /\ UNCHANGED <<store, failures>>

----------------------------------------------------------------------------
(***************************************************************************)
(* POST /community/posts.  Everything that can reject a share is checked   *)
(* before the one write: the outfit is the caller's and has items, the     *)
(* author's account exists.                                                *)
(***************************************************************************)
ShareCheck(r) ==
  /\ request[r].at = "shareCheck"
  /\ Answer(r) \/ Continue(r, "shareCreate")
  /\ UNCHANGED <<store, failures>>

ShareCreate(r) ==
  /\ request[r].at = "shareCreate"
  /\ \E p \in Posts \ Created :
       /\ live' = live \cup {p}
       /\ author' = [author EXCEPT ![p] = request[r].user]
  /\ Answer(r)
  /\ UNCHANGED <<likeCount, likes, saves, failures>>

\* findPost, the first call of the four interaction handlers: 404 when the
\* post is gone, otherwise on to the write.
FindPost(r, found) ==
  /\ IF request[r].post \in live THEN Continue(r, found) ELSE Answer(r)
  /\ UNCHANGED <<store, failures>>

----------------------------------------------------------------------------
(***************************************************************************)
(* POST /community/posts/:id/like                                          *)
(***************************************************************************)
LikeFind(r) ==
  /\ request[r].at = "likeFind"
  /\ FindPost(r, "likeInsert")

\* Mutant: count on modifiedCount, which every upsert reports.
LikeInsertUngated(r) ==
  /\ request[r].at = "likeInsert"
  /\ likes' = likes \cup {Row(r)}
  /\ Continue(r, "likeInc")
  /\ UNCHANGED <<live, author, likeCount, saves, failures>>

\* recordInteraction(PostLike): an upsert; only the call that inserted the
\* row goes on to the counter.
LikeInsert(r) ==
  /\ request[r].at = "likeInsert"
  /\ likes' = likes \cup {Row(r)}
  /\ IF Row(r) \in likes THEN Answer(r) ELSE Continue(r, "likeInc")
  /\ UNCHANGED <<live, author, likeCount, saves, failures>>

\* Mutant: 404 at once when the post is gone, leaving the row.
LikeIncNoUndo(r) ==
  /\ request[r].at = "likeInc"
  /\ likeCount' = IF request[r].post \in live
                    THEN [likeCount EXCEPT ![request[r].post] = @ + 1]
                    ELSE likeCount
  /\ Answer(r)
  /\ UNCHANGED <<live, author, likes, saves, failures>>

LikeInc(r) ==
  /\ request[r].at = "likeInc"
  /\ IF request[r].post \in live
       THEN /\ likeCount' = [likeCount EXCEPT ![request[r].post] = @ + 1]
            /\ Answer(r)
       ELSE /\ Continue(r, "likeUndo")
            /\ UNCHANGED likeCount
  /\ UNCHANGED <<live, author, likes, saves, failures>>

\* The post was deleted under the like: take the row back and answer 404.
LikeUndo(r) ==
  /\ request[r].at = "likeUndo"
  /\ likes' = likes \ {Row(r)}
  /\ Answer(r)
  /\ UNCHANGED <<live, author, likeCount, saves, failures>>

(***************************************************************************)
(* DELETE /community/posts/:id/like                                        *)
(***************************************************************************)
UnlikeFind(r) ==
  /\ request[r].at = "unlikeFind"
  /\ FindPost(r, "unlikeRemove")

\* Mutant: decrement whether or not a row was removed.
UnlikeRemoveUngated(r) ==
  /\ request[r].at = "unlikeRemove"
  /\ likes' = likes \ {Row(r)}
  /\ Continue(r, "unlikeDec")
  /\ UNCHANGED <<live, author, likeCount, saves, failures>>

\* The decrement is gated on deletedCount = 1.
UnlikeRemove(r) ==
  /\ request[r].at = "unlikeRemove"
  /\ likes' = likes \ {Row(r)}
  /\ IF Row(r) \in likes THEN Continue(r, "unlikeDec") ELSE Answer(r)
  /\ UNCHANGED <<live, author, likeCount, saves, failures>>

UnlikeDec(r) ==
  /\ request[r].at = "unlikeDec"
  /\ likeCount' = IF request[r].post \in live
                    THEN [likeCount EXCEPT ![request[r].post] = @ - 1]
                    ELSE likeCount
  /\ Answer(r)
  /\ UNCHANGED <<live, author, likes, saves, failures>>

(***************************************************************************)
(* POST and DELETE /community/posts/:id/save                               *)
(***************************************************************************)
SaveFind(r) ==
  /\ request[r].at = "saveFind"
  /\ FindPost(r, "saveInsert")

\* Mutant: the key's fields swapped.
SaveInsertSwapped(r) ==
  /\ request[r].at = "saveInsert"
  /\ saves' = saves \cup {<<request[r].user, request[r].post>>}
  /\ Answer(r)
  /\ UNCHANGED <<live, author, likeCount, likes, failures>>

SaveInsert(r) ==
  /\ request[r].at = "saveInsert"
  /\ saves' = saves \cup {Row(r)}
  /\ Answer(r)
  /\ UNCHANGED <<live, author, likeCount, likes, failures>>

UnsaveFind(r) ==
  /\ request[r].at = "unsaveFind"
  /\ FindPost(r, "unsaveRemove")

UnsaveRemove(r) ==
  /\ request[r].at = "unsaveRemove"
  /\ saves' = saves \ {Row(r)}
  /\ Answer(r)
  /\ UNCHANGED <<live, author, likeCount, likes, failures>>

(***************************************************************************)
(* DELETE /community/posts/:id: the caller's own post, then its likes and  *)
(* saves, by two deleteMany calls running in parallel.                     *)
(***************************************************************************)
\* Mutant: the cascade runs before it is known whose post it is.
DeletePostCascadesAnyway(r) ==
  /\ request[r].at = "deletePost"
  /\ IF request[r].post \in live /\ author[request[r].post] = request[r].user
       THEN /\ live' = live \ {request[r].post}
            /\ likeCount' = [likeCount EXCEPT ![request[r].post] = 0]
       ELSE UNCHANGED <<live, likeCount>>
  /\ Continue(r, "cascadeBoth")
  /\ UNCHANGED <<author, likes, saves, failures>>

DeletePost(r) ==
  /\ request[r].at = "deletePost"
  /\ IF request[r].post \in live /\ author[request[r].post] = request[r].user
       THEN /\ live' = live \ {request[r].post}
            /\ likeCount' = [likeCount EXCEPT ![request[r].post] = 0]
            /\ Continue(r, "cascadeBoth")
       ELSE /\ Answer(r)
            /\ UNCHANGED <<live, likeCount>>
  /\ UNCHANGED <<author, likes, saves, failures>>

CascadeLikes(r) ==
  /\ request[r].at \in {"cascadeBoth", "cascadeLikes"}
  /\ likes' = {row \in likes : row[1] # request[r].post}
  /\ IF request[r].at = "cascadeBoth" THEN Continue(r, "cascadeSaves") ELSE Answer(r)
  /\ UNCHANGED <<live, author, likeCount, saves, failures>>

CascadeSaves(r) ==
  /\ request[r].at \in {"cascadeBoth", "cascadeSaves"}
  /\ saves' = {row \in saves : row[1] # request[r].post}
  /\ IF request[r].at = "cascadeBoth" THEN Continue(r, "cascadeLikes") ELSE Answer(r)
  /\ UNCHANGED <<live, author, likeCount, likes, failures>>

\* A database call rejects, or the process dies, with r unfinished.
Fail(r) ==
  /\ request[r] # Idle
  /\ failures < MaxFailures
  /\ failures' = failures + 1
  /\ Answer(r)
  /\ UNCHANGED store

----------------------------------------------------------------------------
\* A handler already running makes its next call.
Step(r) ==
  \/ ShareCheck(r)  \/ ShareCreate(r)
  \/ LikeFind(r)    \/ LikeInsert(r)   \/ LikeInc(r)  \/ LikeUndo(r)
  \/ UnlikeFind(r)  \/ UnlikeRemove(r) \/ UnlikeDec(r)
  \/ SaveFind(r)    \/ SaveInsert(r)
  \/ UnsaveFind(r)  \/ UnsaveRemove(r)
  \/ DeletePost(r)  \/ CascadeLikes(r) \/ CascadeSaves(r)

Next == \E r \in Requests : Arrive(r) \/ ArriveShare(r) \/ Step(r) \/ Fail(r)

Spec == Init /\ [][Next]_vars

\* Node's event loop runs every handler whose call was answered, and mongod
\* answers (or the driver rejects) every call; clients owe nothing.
Fairness == \A r \in Requests : WF_vars(Step(r))

FairSpec == Spec /\ Fairness

----------------------------------------------------------------------------
(***************************************************************************)
(* Safety                                                                  *)
(***************************************************************************)

\* How far the stored count of p is from its like rows, once the increments
\* and decrements still owed by requests in flight are counted in.
Drift(p) == likeCount[p] + Cardinality(At("likeInc", p))
            - Cardinality(At("unlikeDec", p)) - Cardinality(Likers(p))

\* "What must be exactly right is the STORED count, and it is": each stored
\* likeCount is its number of like rows, corrected by the writes still owed,
\* and only a request that failed part-way can put it off, by at most one.
CountTracksLikes ==
  \A p \in live : Drift(p) <= failures /\ -Drift(p) <= failures

\* A like row whose post is gone still has somebody about to remove it: the
\* delete whose cascade is pending, or the like that will find no post to
\* count on.  So likes racing a delete leave no orphan behind.
NoStrandedLike ==
  failures = 0 =>
    \A row \in likes : row[1] \notin live =>
      \E r \in Requests :
        \/ request[r].post = row[1] /\ request[r].at \in {"cascadeBoth", "cascadeLikes"}
        \/ Row(r) = row /\ request[r].at \in {"likeInc", "likeUndo"}

\* While its post exists, a like or a save disappears only because a request
\* of the very user it belongs to removed it: no cascade, no clean-up of a
\* failed like and no other user's request reaches it.
RowsRemovedByTheirUser ==
  [][\A p \in live', u \in Users :
       /\ <<p, u>> \in likes \ likes' =>
            \E r \in Requests : Row(r) = <<p, u>> /\ request[r].at = "unlikeRemove"
       /\ <<p, u>> \in saves \ saves' =>
            \E r \in Requests : Row(r) = <<p, u>> /\ request[r].at = "unsaveRemove"]_vars

\* A post leaves the feed only by a delete request of its author, and an id
\* once used never names a post again.
PostsRetractedByAuthor ==
  [][/\ \A p \in live \ live' :
          \E r \in Requests : request[r].at = "deletePost" /\ Row(r) = <<p, author[p]>>
     /\ \A p \in live' \ live : author[p] = None]_vars

\* Nothing of anybody is taken from the feed by anybody else.
OnlyOwnersRemove == RowsRemovedByTheirUser /\ PostsRetractedByAuthor

(***************************************************************************)
(* What a client may believe: a ledger in which liking is one step.  The   *)
(* tally of a post is its stored count with the writes still owed; rows    *)
(* left on a deleted post do not show.  Every call of every handler is a   *)
(* step of the ledger or none, and every failure is one of its slips.      *)
(***************************************************************************)
Ledger == INSTANCE LikeLedger WITH
  shown  <- live,
  ever   <- Created,
  likers <- [p \in Posts |-> IF p \in live THEN Likers(p) ELSE {}],
  savers <- [p \in Posts |-> IF p \in live THEN {u \in Users : <<p, u>> \in saves} ELSE {}],
  tally  <- [p \in Posts |->
               IF p \in live
                 THEN likeCount[p] + Cardinality(At("likeInc", p))
                                   - Cardinality(At("unlikeDec", p))
                 ELSE 0],
  slips  <- failures

\* The handlers, each several database calls long, implement the ledger.
ImplementsLedger == Ledger!Spec

(***************************************************************************)
(* Liveness                                                                *)
(***************************************************************************)

\* A like row left on a deleted post is eventually removed, whatever else is
\* in flight, as long as no request fails.
OrphanLikesVanish ==
  \A p \in Posts, u \in Users :
    (<<p, u>> \in likes /\ p \in Created \ live)
      ~> (<<p, u>> \notin likes \/ failures > 0)
=============================================================================
