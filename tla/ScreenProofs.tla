----------------------------- MODULE ScreenProofs ----------------------------
(***************************************************************************)
(* The Search tab and the Add tab: the client's community list is sound,   *)
(* for any number of posts, terms, pages and requests in flight; and the   *)
(* item form, the rule engine and the outfit ideas keep what they promise, *)
(* for any wardrobe, number of saves and order of taps and commits.        *)
(***************************************************************************)
EXTENDS FeedClient, AddScreen, ListingProofs

----------------------------------------------------------------------------
(***************************************************************************)
(* The community list of the Search tab.                                   *)
(***************************************************************************)
\* Request ids are taken once, and the newest request is the one the flag
\* speaks of: a next page exactly when it says so.
IdsInv ==
  /\ \A l, m \in loads : l.id = m.id => l = m
  /\ FlagFollowsNewest
  /\ \A l \in loads : l.id = requestId => (l.mode = "append" <=> inFlight = "loadingMore")

\* Whatever the client knows of has been shared; a page was read after the start.
KnownInv ==
  /\ Start <= made /\ head <= made
  /\ ToSet(list) \subseteq 1..made /\ deleted \subseteq 1..made
  /\ \A p \in Mine : deletes[p] # "none" => p <= made
  /\ \A l \in loads : /\ l.page \subseteq 1..made /\ l.head <= made
                      /\ l.status = "page" => Start <= l.head

\* A delete that was answered took the post off the server.
GoneInv ==
  /\ DeletedStaysGone
  /\ \A p \in Mine : deletes[p] = "gone" => p \notin feed

\* Until a new term's load effect runs, the rows and the newest request are of
\* the term last committed; a page is of its request's.
TermInv ==
  /\ \A l \in loads : l.page \subseteq Matching[l.term]
  /\ ~effectDue => /\ ToSet(list) \subseteq Matching[view.term]
                   /\ \A l \in loads : l.id = requestId => l.term = view.term

\* A page served holds all that is still there between its next cursor and the
\* one it was asked behind, of what was shared when it was read.
PageInv ==
  \A l \in loads :
    /\ l.mode = "replace" => l.cursor = Top
    /\ l.status = "page" =>
         /\ l.next < l.cursor
         /\ \A p \in l.page : l.next <= p /\ p < l.cursor
         /\ \A p \in feed \cap Matching[l.term] :
              l.next <= p /\ p < l.cursor /\ p <= l.head => p \in l.page
         /\ l.id = requestId /\ l.mode = "append" => head <= l.head

\* The list is gapless down to and with the cursor's own row, which ends it, and
\* the next page asked for starts behind that row.
ListInv ==
  ~overtaken =>
    /\ IsInjective(list)
    /\ nextCursor # NoCursor => \A p \in ToSet(list) : nextCursor <= p
    /\ \A l \in loads : l.id = requestId /\ l.mode = "append" => l.cursor = nextCursor
    /\ ~effectDue => \A p \in feed \cap Matching[view.term] :
                       nextCursor <= p /\ p <= head => p \in ToSet(list)

\* Before a first page has been read there are no rows and no cursor, and a full
\* load is out, or failed and says so.
StartInv ==
  ~effectDue /\ head < Start =>
    /\ list = <<>> /\ nextCursor = NoCursor
    /\ \/ inFlight \in {"loading", "refreshing"}
       \/ inFlight = "idle" /\ error # "none" /\ view.cursor = NoCursor

Inv == TypeOK /\ IdsInv /\ KnownInv /\ GoneInv /\ TermInv /\ PageInv /\ ListInv /\ StartInv

----------------------------------------------------------------------------
(***************************************************************************)
(* Pages and rows.                                                         *)
(***************************************************************************)

\* A page is the top of what stands behind the cursor, and its next cursor the
\* row it ends with: everything down to and with that row is in it.
LEMMA PageFacts ==
  ASSUME TypeOK, NEW t \in Terms, NEW c \in 1..Top
  PROVE  /\ Page(t, c) \subseteq feed \cap Matching[t] /\ \A p \in Page(t, c) : p < c
         /\ NextCursor(t, c) \in 0..MaxPosts /\ NextCursor(t, c) < c
         /\ \A p \in Page(t, c) : NextCursor(t, c) <= p
         /\ \A p \in feed \cap Matching[t] : NextCursor(t, c) <= p /\ p < c => p \in Page(t, c)
<1> DEFINE B == Behind(t, c)
           P == Page(t, c)
           above(p) == {q \in B : q > p}
<1>1. /\ P = {p \in B : Cardinality(above(p)) < PageSize}
      /\ B = {p \in feed \cap Matching[t] : p < c}
      /\ NextCursor(t, c) = IF P = B THEN 0 ELSE Min(P)
  BY DEF Page, Behind, NextCursor, NoCursor
<1>2. feed \subseteq Posts /\ Posts \subseteq Nat /\ MaxPosts \in Nat /\ c \in Nat /\ c > 0
  BY PostsAssumption DEF TypeOK, Posts, Top
<1> HIDE DEF B, P
<1>3. IsFiniteSet(B) /\ B \subseteq Posts /\ B \in SUBSET Nat
  <2>1. IsFiniteSet(Posts)
    BY PostsAssumption, FS_Interval DEF Posts
  <2> QED  BY <1>1, <1>2, <2>1, FS_Subset
<1>4. P \subseteq B /\ P \in SUBSET Nat /\ IsFiniteSet(P)
  BY <1>1, <1>3, FS_Subset
<1>5. CASE P = B
  BY <1>1, <1>2, <1>3, <1>5 DEF P
<1>6. CASE P # B
  <2>1. \A p \in B : p \in Int
    BY <1>3
  <2>2. P # {}
    <3>1. B # {}
      BY <1>4, <1>6
    <3>2. PICK p \in B : \A q \in B : q <= p
      BY <3>1, <1>3, GreatestOfFinite
    <3>3. above(p) = {}
      BY <3>2, <2>1
    <3>4. Cardinality(above(p)) < PageSize
      BY <3>3, FS_EmptySet, PageAssumption
    <3> QED  BY <1>1, <3>2, <3>4
  <2>3. Min(P) \in P /\ \A p \in P : Min(P) <= p
    BY <2>2, <1>4, LeastOfFinite
  <2>4. ASSUME NEW p \in B, Min(P) <= p  PROVE p \in P
    <3>0. Min(P) \in B
      BY <1>4, <2>3
    <3>1. IsFiniteSet(above(Min(P))) /\ above(p) \subseteq above(Min(P))
      <4>1. above(Min(P)) \subseteq B
        OBVIOUS
      <4>2. ASSUME NEW q \in above(p)  PROVE q > Min(P)
        <5>1. q \in Int /\ p \in Int /\ Min(P) \in Int /\ q > p
          BY <2>1, <3>0
        <5> QED  BY <5>1, <2>4
      <4> QED  BY <4>1, <4>2, <1>3, FS_Subset
    <3>2. /\ Cardinality(above(p)) <= Cardinality(above(Min(P)))
          /\ Cardinality(above(p)) \in Int /\ Cardinality(above(Min(P))) \in Int
      BY <3>1, FS_Subset, FS_CardinalityType
    <3>3. Cardinality(above(Min(P))) < PageSize
      BY <1>1, <2>3
    <3> QED  BY <1>1, <3>2, <3>3, PageAssumption
  <2>5. NextCursor(t, c) = Min(P)
    BY <1>1, <1>6
  <2>6. Min(P) \in 1..MaxPosts /\ Min(P) < c
    BY <2>3, <1>1, <1>3, <1>4 DEF Posts
  <2>7. /\ P \subseteq feed \cap Matching[t] /\ \A p \in P : p < c
        /\ \A p \in feed \cap Matching[t] : Min(P) <= p /\ p < c => p \in P
    BY <1>1, <1>4, <2>4
  <2> QED  BY <2>3, <2>5, <2>6, <2>7 DEF P
<1> QED  BY <1>5, <1>6

\* What a reply makes of the list: the rows it keeps and those of the page, but
\* for the rows deleted; each once if the page stands behind what is kept.
LEMMA RowsFacts ==
  ASSUME TypeOK, NEW l \in loads
  PROVE  /\ Rows(l) \in Seq(Posts)
         /\ ToSet(Rows(l)) =
              ((IF l.mode = "append" THEN ToSet(list) ELSE {}) \cup l.page) \ deleted
         /\ (l.mode = "append" => IsInjective(list) /\ ToSet(list) \cap l.page = {})
              => IsInjective(Rows(l))
<1> DEFINE old == IF l.mode = "append" THEN list ELSE <<>>
           page == NewestFirst(l.page)
<1>1. l.page \subseteq Posts /\ list \in Seq(Posts)
  BY DEF TypeOK, Load
<1>2. Posts \subseteq Nat /\ IsFiniteSet(Posts)
  BY PostsAssumption, FS_Interval DEF Posts
<1>3. l.page \in SUBSET Nat /\ IsFiniteSet(l.page)
  BY <1>1, <1>2, FS_Subset
<1>4. page \in Seq(l.page) /\ ToSet(page) = l.page /\ IsInjective(page)
  BY <1>3, NewestFirstRows
<1>5. page \in Seq(Posts)
  BY <1>1, <1>4
<1>6. old \in Seq(Posts) /\ ToSet(old) = IF l.mode = "append" THEN ToSet(list) ELSE {}
  BY <1>1 DEF ToSet
<1>7. Rows(l) = Without(old \o page, deleted)
  BY DEF Rows
<1>8. (l.mode = "append" => IsInjective(list)) => IsInjective(old)
  BY DEF IsInjective
<1> HIDE DEF old, page
<1>9. /\ old \o page \in Seq(Posts)
      /\ ToSet(old \o page) = ToSet(old) \cup l.page
      /\ IsInjective(old) /\ ToSet(old) \cap l.page = {} => IsInjective(old \o page)
  BY <1>4, <1>5, <1>6, ConcatRows
<1>10. /\ Rows(l) \in Seq(Posts)
       /\ ToSet(Rows(l)) = ToSet(old \o page) \ deleted
       /\ IsInjective(old \o page) => IsInjective(Rows(l))
  <2> DEFINE s == old \o page
  <2>1. s \in Seq(Posts)
    BY <1>9
  <2> HIDE DEF s
  <2>2. /\ Without(s, deleted) \in Seq(Posts)
        /\ ToSet(Without(s, deleted)) = ToSet(s) \ deleted
        /\ IsInjective(s) => IsInjective(Without(s, deleted))
    BY <2>1, WithoutRows
  <2> QED  BY <1>7, <2>2 DEF s
<1> QED  BY <1>6, <1>8, <1>9, <1>10

----------------------------------------------------------------------------
(***************************************************************************)
(* What a request sent and a request served change.                        *)
(***************************************************************************)

\* The load a request sent adds.
Sent(how, t, c) ==
  [id |-> requestId + 1, mode |-> how, term |-> t, cursor |-> c,
   status |-> "sent", page |-> {}, next |-> NoCursor, head |-> 0]

\* A load is sent under an id of its own, the newest, with no answer yet.
LEMMA RunFacts ==
  ASSUME TypeOK, NEW kind \in {"loading", "refreshing", "loadingMore"},
         NEW how \in {"replace", "append"}, NEW t \in Terms, NEW c \in 1..Top,
         Run(kind, how, t, c)
  PROVE  /\ requestId' = requestId + 1 /\ requestId \in Nat /\ inFlight' = kind
         /\ error' = Cleared("list") /\ error' \in {"none", "list", "action"}
         /\ loads' \subseteq Load /\ \A l \in loads' : l.id \in 1..requestId'
         /\ \A l \in loads : l.id # requestId'
         /\ loads' = loads \cup {Sent(how, t, c)} /\ Sent(how, t, c) \in Load
         /\ Sent(how, t, c).id = requestId'
<1> DEFINE n == Sent(how, t, c)
<1>1. requestId' = requestId + 1 /\ requestId \in Nat /\ inFlight' = kind /\ loads' = loads \cup {n}
  BY DEF TypeOK, Run, Sent
<1>2. error' = Cleared("list") /\ error' \in {"none", "list", "action"}
  BY DEF TypeOK, Run, Cleared
<1>3. n \in Load
  BY <1>1, PostsAssumption DEF Load, NoCursor, Sent
<1>4. n.id = requestId'
  BY <1>1 DEF Sent
<1>5. loads \subseteq Load /\ \A l \in loads : l.id \in 1..requestId
  BY DEF TypeOK
<1> HIDE DEF n
<1>6. loads' \subseteq Load /\ \A l \in loads' : l.id \in 1..requestId'
  BY <1>1, <1>3, <1>4, <1>5
<1>7. \A l \in loads : l.id # requestId'
  BY <1>1, <1>5
<1> QED  BY <1>1, <1>2, <1>3, <1>4, <1>6, <1>7 DEF n

\* A load served stays the request it was, and holds the page, or failed.
LEMMA ServeFacts ==
  ASSUME TypeOK, NEW l \in loads, Serve(l)
  PROVE  \E m \in Load :
           /\ loads' = (loads \ {l}) \cup {m}
           /\ m.id = l.id /\ m.mode = l.mode /\ m.term = l.term /\ m.cursor = l.cursor
           /\ \/ /\ m.status = "page" /\ m.page = Page(l.term, l.cursor)
                 /\ m.next = NextCursor(l.term, l.cursor) /\ m.head = made
              \/ m.status = "failed" /\ m.page = l.page /\ m.head = l.head
<1>1. l \in Load /\ l.term \in Terms /\ l.cursor \in 1..Top
  BY DEF TypeOK, Load
<1>2. CASE loads' = (loads \ {l}) \cup
                     {[l EXCEPT !.status = "page", !.page = Page(l.term, l.cursor),
                                !.next = NextCursor(l.term, l.cursor), !.head = made]}
  <2> DEFINE m == [l EXCEPT !.status = "page", !.page = Page(l.term, l.cursor),
                            !.next = NextCursor(l.term, l.cursor), !.head = made]
  <2>1. Page(l.term, l.cursor) \subseteq Posts /\ NextCursor(l.term, l.cursor) \in 0..MaxPosts
    <3>1. /\ Page(l.term, l.cursor) \subseteq feed
          /\ NextCursor(l.term, l.cursor) \in 0..MaxPosts
      BY <1>1, PageFacts
    <3>2. feed \subseteq Posts
      BY PostsAssumption DEF TypeOK, Posts
    <3> QED  BY <3>1, <3>2
  <2>2. made \in 0..MaxPosts
    BY DEF TypeOK
  <2>3. m \in Load
    BY <1>1, <2>1, <2>2 DEF Load
  <2>4. /\ m.id = l.id /\ m.mode = l.mode /\ m.term = l.term /\ m.cursor = l.cursor
        /\ m.status = "page" /\ m.page = Page(l.term, l.cursor)
        /\ m.next = NextCursor(l.term, l.cursor) /\ m.head = made
    BY <1>1 DEF Load
  <2> HIDE DEF m
  <2>5. loads' = (loads \ {l}) \cup {m}
    BY <1>2 DEF m
  <2> QED  BY <2>3, <2>4, <2>5
<1>3. CASE loads' = (loads \ {l}) \cup {[l EXCEPT !.status = "failed"]}
  <2> DEFINE m == [l EXCEPT !.status = "failed"]
  <2>1. m \in Load
    BY <1>1 DEF Load
  <2>2. /\ m.id = l.id /\ m.mode = l.mode /\ m.term = l.term /\ m.cursor = l.cursor
        /\ m.status = "failed" /\ m.page = l.page /\ m.head = l.head
    BY <1>1 DEF Load
  <2> HIDE DEF m
  <2>3. loads' = (loads \ {l}) \cup {m}
    BY <1>3 DEF m
  <2> QED  BY <2>1, <2>2, <2>3
<1> QED  BY <1>2, <1>3 DEF Serve

----------------------------------------------------------------------------
(***************************************************************************)
(* Types.                                                                  *)
(***************************************************************************)

\* The initial state is of the types.
LEMMA TypeInit == Init => TypeOK
<1> SUFFICES ASSUME Init  PROVE TypeOK
  OBVIOUS
<1>1. made \in 0..MaxPosts /\ feed \subseteq 1..made
  BY PostsAssumption DEF Init
<1>2. list \in Seq(Posts)
  BY DEF Init
<1>3. loads \subseteq Load /\ \A l \in loads : l.id \in 1..requestId
  BY DEF Init
<1>4. view \in [term : Terms, cursor : 0..MaxPosts] /\ nextCursor \in 0..MaxPosts
  BY PostsAssumption, TermsAssumption DEF Init, NoCursor
<1>5. deletes \in [Mine -> {"none", "sent", "gone", "failed"}] /\ deleted \subseteq Mine
  BY DEF Init
<1>6. requestId \in Nat /\ listId \in 0..requestId /\ keys \in 0..MaxKeys /\ head \in 0..MaxPosts
  BY PostsAssumption, BoundsAssumption DEF Init
<1> QED  BY <1>1, <1>2, <1>3, <1>4, <1>5, <1>6, TermsAssumption DEF Init, TypeOK

\* Every step keeps the types.
LEMMA TypeStep == TypeOK /\ [Next]_vars => TypeOK'
<1> SUFFICES ASSUME TypeOK, [Next]_vars  PROVE TypeOK'
  OBVIOUS
<1> USE PostsAssumption, TermsAssumption, BoundsAssumption
<1>1. view.term \in Terms /\ view.cursor \in 0..MaxPosts /\ Top \in 1..Top
  BY DEF TypeOK, Top
<1>2. ASSUME UNCHANGED <<server, list, nextCursor, query, term, view, effectDue, deleted,
                         deletes, keys, history>>,
             dirty' \in BOOLEAN, focused' \in BOOLEAN, Reload
      PROVE  TypeOK'
  <2>1. CASE UNCHANGED <<requestId, inFlight, error, loads>>
    BY <1>2, <2>1 DEF TypeOK, server, history
  <2>2. CASE Run("refreshing", "replace", view.term, Top)
    BY <1>1, <1>2, <2>2, RunFacts DEF TypeOK, server, history
  <2> QED  BY <1>2, <2>1, <2>2 DEF Reload
<1>3. CASE LoadMore
  <2>1. CASE inFlight = "idle" /\ view.cursor # NoCursor
    <3>1. view.cursor \in 1..Top
      BY <1>1, <2>1 DEF NoCursor, Top
    <3> QED  BY <1>1, <1>3, <2>1, <3>1, RunFacts DEF LoadMore, TypeOK, server
  <2>2. CASE ~(inFlight = "idle" /\ view.cursor # NoCursor)
    BY <1>3, <2>2 DEF LoadMore, TypeOK, server
  <2> QED  BY <2>1, <2>2
<1>4. CASE Refresh
  BY <1>2, <1>4 DEF Refresh, TypeOK
<1>5. CASE Focus
  <2>1. CASE dirty
    BY <1>2, <1>5, <2>1 DEF Focus, TypeOK
  <2>2. CASE ~dirty
    BY <1>5, <2>2 DEF Focus, TypeOK, server, history
  <2> QED  BY <2>1, <2>2
<1>6. CASE SetQuery
  BY <1>6 DEF SetQuery, TypeOK, server, history
<1>7. CASE Blur
  BY <1>7 DEF Blur, TypeOK, server, history
<1>8. ASSUME NEW p \in Mine, RemovePost(p)  PROVE TypeOK'
  BY <1>8 DEF RemovePost, TypeOK, server, history, Cleared
<1>9. CASE LoadEffect
  <2>1. /\ requestId' = requestId + 1 /\ requestId \in Nat /\ inFlight' = "loading"
        /\ error' \in {"none", "list", "action"}
        /\ loads' \subseteq Load /\ \A l \in loads' : l.id \in 1..requestId'
    BY <1>1, <1>9, RunFacts DEF LoadEffect
  <2>2. list' \in Seq(Posts) /\ nextCursor' \in 0..MaxPosts
    BY <1>9 DEF LoadEffect, NoCursor
  <2>3. listId' \in 0..requestId' /\ head' \in 0..MaxPosts /\ overtaken' \in BOOLEAN
    <3>1. listId' = requestId' /\ head' = 0 /\ overtaken' = FALSE
      BY <1>9 DEF LoadEffect
    <3>2. listId' \in 0..requestId' /\ head' \in 0..MaxPosts
      BY <2>1, <3>1
    <3>3. overtaken' \in BOOLEAN
      BY <3>1
    <3> QED  BY <3>2, <3>3
  <2>4. dirty' \in BOOLEAN /\ effectDue' \in BOOLEAN
    BY <1>9 DEF LoadEffect
  <2> QED  BY <1>9, <2>1, <2>2, <2>3, <2>4 DEF LoadEffect, TypeOK, server
<1>10. CASE Render
  BY <1>10 DEF Render, TypeOK, server, history
<1>11. CASE Debounced
  BY <1>11 DEF Debounced, TypeOK, server, history
<1>12. ASSUME NEW l \in loads, Serve(l)  PROVE TypeOK'
  <2>1. loads' \subseteq Load /\ \A m \in loads' : m.id \in 1..requestId
    BY <1>12, ServeFacts DEF TypeOK
  <2> QED  BY <1>12, <2>1 DEF Serve, TypeOK, server, history
<1>13. ASSUME NEW l \in loads, Deliver(l)  PROVE TypeOK'
  <2>1. Rows(l) \in Seq(Posts)
    BY RowsFacts
  <2>2. l \in Load /\ l.id \in 1..requestId
    BY DEF TypeOK
  <2>3. inFlight' \in {"idle", "loading", "refreshing", "loadingMore"}
    BY <1>13 DEF Deliver, FlagAfter, TypeOK
  <2>4. error' \in {"none", "list", "action"}
    BY <1>13 DEF Deliver, TypeOK
  <2>5. /\ list' \in Seq(Posts) /\ nextCursor' \in 0..MaxPosts /\ listId' \in 0..requestId
        /\ head' \in 0..MaxPosts /\ overtaken' \in BOOLEAN
    <3>1. l.next \in 0..MaxPosts /\ l.head \in 0..MaxPosts /\ l.id \in 0..requestId
      BY <2>2 DEF Load
    <3>2. CASE Newest(l) /\ l.status = "page"
      BY <1>13, <2>1, <3>1, <3>2 DEF Deliver, TypeOK
    <3>3. CASE ~(Newest(l) /\ l.status = "page")
      BY <1>13, <3>3 DEF Deliver, TypeOK
    <3> QED  BY <3>2, <3>3
  <2> QED  BY <1>13, <2>3, <2>4, <2>5, SMTT(30) DEF Deliver, TypeOK, server
<1>14. ASSUME NEW p \in Mine, ServeDelete(p)  PROVE TypeOK'
  BY <1>14 DEF ServeDelete, TypeOK, history
<1>15. ASSUME NEW p \in Mine, SettleDelete(p)  PROVE TypeOK'
  <2>1. list \in Seq(Posts)
    BY DEF TypeOK
  <2>2. Without(list, {p}) \in Seq(Posts)
    BY <2>1, WithoutRows
  <2> QED  BY <1>15, <2>2 DEF SettleDelete, TypeOK, server, history
<1>16. CASE Share
  BY <1>16 DEF Share, TypeOK
<1>17. ASSUME NEW p \in feed, DeletedElsewhere(p)  PROVE TypeOK'
  BY <1>17 DEF DeletedElsewhere, TypeOK, history
<1>18. CASE UNCHANGED vars
  BY <1>18 DEF vars, TypeOK, server, history
<1> QED  BY <1>3, <1>4, <1>5, <1>6, <1>7, <1>8, <1>9, <1>10, <1>11, <1>12, <1>13, <1>14, <1>15,
            <1>16, <1>17, <1>18 DEF Next, Gesture

----------------------------------------------------------------------------
(***************************************************************************)
(* Request ids and the flag.                                               *)
(***************************************************************************)

\* What a step does to the requests: it sends one, serves or delivers one, or
\* leaves requests, ids and flag alone.
LEMMA RequestSteps ==
  ASSUME TypeOK, [Next]_vars
  PROVE  \/ Run("loading", "replace", view.term, Top) /\ LoadEffect
         \/ Run("refreshing", "replace", view.term, Top) /\ (Refresh \/ Focus)
         \/ /\ LoadMore /\ inFlight = "idle" /\ view.cursor \in 1..Top
            /\ Run("loadingMore", "append", view.term, view.cursor)
         \/ \E l \in loads : Serve(l) \/ Deliver(l)
         \/ UNCHANGED <<loads, requestId, inFlight>> /\ ~LoadEffect
<1>1. view.cursor \in 0..MaxPosts /\ MaxPosts \in Nat
  BY PostsAssumption DEF TypeOK
<1>2. ASSUME Reload
      PROVE  \/ Run("refreshing", "replace", view.term, Top)
             \/ UNCHANGED <<loads, requestId, inFlight>>
  BY <1>2 DEF Reload
<1>3. CASE LoadMore
  <2>1. CASE inFlight = "idle" /\ view.cursor # NoCursor
    BY <1>1, <1>3, <2>1 DEF LoadMore, NoCursor, Top
  <2>2. CASE ~(inFlight = "idle" /\ view.cursor # NoCursor)
    BY <1>3, <2>2 DEF LoadMore, LoadEffect
  <2> QED  BY <2>1, <2>2
<1>4. CASE Refresh
  BY <1>2, <1>4 DEF Refresh, LoadEffect
<1>5. CASE Focus
  BY <1>2, <1>5 DEF Focus, LoadEffect
<1>6. CASE LoadEffect
  BY <1>6 DEF LoadEffect
<1>7. CASE SetQuery \/ Blur \/ Render \/ Debounced \/ Share \/ UNCHANGED vars
  BY <1>7 DEF SetQuery, Blur, Render, Debounced, Share, vars, LoadEffect
<1>8. ASSUME NEW p \in Mine, RemovePost(p) \/ ServeDelete(p) \/ SettleDelete(p)
      PROVE  UNCHANGED <<loads, requestId, inFlight>> /\ ~LoadEffect
  BY <1>8 DEF RemovePost, ServeDelete, SettleDelete, LoadEffect
<1>9. ASSUME NEW p \in feed, DeletedElsewhere(p)
      PROVE  UNCHANGED <<loads, requestId, inFlight>> /\ ~LoadEffect
  BY <1>9 DEF DeletedElsewhere, LoadEffect
<1> QED  BY <1>3, <1>4, <1>5, <1>6, <1>7, <1>8, <1>9 DEF Next, Gesture

\* Every step keeps the ids apart and the flag with the newest request.
LEMMA IdsStep == Inv /\ [Next]_vars => IdsInv'
<1> SUFFICES ASSUME Inv, [Next]_vars  PROVE IdsInv'
  OBVIOUS
<1>1. TypeOK /\ IdsInv
  BY DEF Inv
<1>2. view.term \in Terms /\ Top \in 1..Top
  BY <1>1, PostsAssumption DEF TypeOK, Top
<1>3. ASSUME NEW kind \in {"loading", "refreshing", "loadingMore"},
             NEW how \in {"replace", "append"}, NEW c \in 1..Top,
             Run(kind, how, view.term, c), how = "append" <=> kind = "loadingMore"
      PROVE  IdsInv'
  <2> DEFINE n == Sent(how, view.term, c)
  <2>1. /\ loads' = loads \cup {n} /\ inFlight' = kind /\ n.id = requestId'
        /\ \A l \in loads : l.id # requestId'
    BY <1>1, <1>2, <1>3, RunFacts
  <2>2. n.mode = how
    BY DEF Sent
  <2> HIDE DEF n
  <2> QED  BY <1>1, <1>3, <2>1, <2>2 DEF IdsInv, FlagFollowsNewest
<1>4. CASE Run("loading", "replace", view.term, Top)
  BY <1>2, <1>3, <1>4
<1>5. CASE Run("refreshing", "replace", view.term, Top)
  BY <1>2, <1>3, <1>5
<1>6. CASE view.cursor \in 1..Top /\ Run("loadingMore", "append", view.term, view.cursor)
  BY <1>3, <1>6
<1>7. ASSUME NEW l \in loads, Serve(l)  PROVE IdsInv'
  <2>1. PICK m \in Load : loads' = (loads \ {l}) \cup {m} /\ m.id = l.id /\ m.mode = l.mode
    BY <1>1, <1>7, ServeFacts
  <2>2. UNCHANGED <<requestId, inFlight>>
    BY <1>7 DEF Serve
  <2> QED  BY <1>1, <2>1, <2>2 DEF IdsInv, FlagFollowsNewest
<1>8. ASSUME NEW l \in loads, Deliver(l)  PROVE IdsInv'
  <2>1. /\ loads' = loads \ {l} /\ requestId' = requestId
        /\ inFlight' = IF l.id = requestId THEN "idle" ELSE inFlight
    BY <1>8 DEF Deliver, FlagAfter, Newest
  <2> QED  BY <1>1, <2>1 DEF IdsInv, FlagFollowsNewest
<1>9. CASE UNCHANGED <<loads, requestId, inFlight>>
  BY <1>1, <1>9 DEF IdsInv, FlagFollowsNewest
<1> QED  BY <1>1, <1>4, <1>5, <1>6, <1>7, <1>8, <1>9, RequestSteps

----------------------------------------------------------------------------
(***************************************************************************)
(* What the client knows of.                                               *)
(***************************************************************************)

\* A delete settled takes its own row off the list, and no other.
LEMMA SettledRows ==
  ASSUME TypeOK, NEW p
  PROVE  /\ ToSet(Without(list, {p})) = ToSet(list) \ {p}
         /\ IsInjective(list) => IsInjective(Without(list, {p}))
<1>1. list \in Seq(Posts)
  BY DEF TypeOK
<1> QED  BY <1>1, WithoutRows

\* Every step keeps what the client knows of within what was shared.
LEMMA KnownStep == Inv /\ [Next]_vars => KnownInv'
<1> SUFFICES ASSUME Inv, [Next]_vars  PROVE KnownInv'
  OBVIOUS
<1>1. TypeOK /\ KnownInv /\ TypeOK'
  BY TypeStep DEF Inv
<1>2. view.term \in Terms /\ Top \in 1..Top /\ MaxPosts \in Nat /\ Start \in Nat
  BY <1>1, PostsAssumption DEF TypeOK, Top
<1>3. made \in Nat /\ made' \in Nat /\ head \in Nat
  BY <1>1, <1>2 DEF TypeOK
<1> DEFINE Loads == \A l \in loads : /\ l.page \subseteq 1..made /\ l.head <= made
                                     /\ l.status = "page" => Start <= l.head
<1>4. Start <= made' /\ made <= made'
  <2>1. CASE Share
    BY <1>1, <1>2, <1>3, <2>1 DEF Share, KnownInv
  <2>2. CASE UNCHANGED made
    BY <1>1, <1>3, <2>2 DEF KnownInv
  <2> QED  BY <2>1, <2>2 DEF Next, Gesture, LoadMore, Refresh, SetQuery, Blur, Focus, RemovePost,
              LoadEffect, Render, Debounced, Serve, Deliver, ServeDelete, SettleDelete,
              DeletedElsewhere, vars, server
<1>5. Loads'
  <2>1. ASSUME NEW kind \in {"loading", "refreshing", "loadingMore"},
               NEW how \in {"replace", "append"}, NEW c \in 1..Top,
               Run(kind, how, view.term, c), made' = made
        PROVE  Loads'
    <3> DEFINE n == Sent(how, view.term, c)
    <3>1. loads' = loads \cup {n}
      BY <1>1, <1>2, <2>1, RunFacts
    <3>2. n.status = "sent" /\ n.page = {} /\ n.head = 0
      BY DEF Sent
    <3> HIDE DEF n
    <3> QED  BY <1>1, <1>3, <2>1, <3>1, <3>2 DEF KnownInv
  <2>2. CASE Run("loading", "replace", view.term, Top) /\ LoadEffect
    BY <1>2, <2>1, <2>2 DEF LoadEffect, server
  <2>3. CASE Run("refreshing", "replace", view.term, Top) /\ (Refresh \/ Focus)
    BY <1>2, <2>1, <2>3 DEF Refresh, Focus, server
  <2>4. CASE /\ LoadMore /\ view.cursor \in 1..Top
             /\ Run("loadingMore", "append", view.term, view.cursor)
    BY <2>1, <2>4 DEF LoadMore, server
  <2>5. ASSUME NEW l \in loads, Serve(l)  PROVE Loads'
    <3>1. l.term \in Terms /\ l.cursor \in 1..Top /\ made' = made
      BY <1>1, <2>5 DEF TypeOK, Load, Serve, server
    <3>2. Page(l.term, l.cursor) \subseteq 1..made
      BY <1>1, <3>1, PageFacts DEF TypeOK
    <3>3. PICK m \in Load :
            /\ loads' = (loads \ {l}) \cup {m}
            /\ \/ m.status = "page" /\ m.page = Page(l.term, l.cursor) /\ m.head = made
               \/ m.status = "failed" /\ m.page = l.page /\ m.head = l.head
      BY <1>1, <2>5, ServeFacts
    <3> QED  BY <1>1, <1>3, <3>1, <3>2, <3>3 DEF KnownInv
  <2>6. ASSUME NEW l \in loads, Deliver(l)  PROVE Loads'
    BY <1>1, <2>6 DEF Deliver, KnownInv, server
  <2>7. CASE UNCHANGED <<loads, requestId, inFlight>>
    <3>1. \A l \in loads : l.head \in Int
      BY <1>1, <1>2 DEF TypeOK, Load
    <3> QED  BY <1>1, <1>3, <1>4, <2>7, <3>1 DEF KnownInv
  <2> QED  BY <1>1, <2>2, <2>3, <2>4, <2>5, <2>6, <2>7, RequestSteps
<1>6. head' <= made' /\ ToSet(list') \subseteq 1..made'
  <2>1. CASE LoadEffect
    BY <1>3, <2>1 DEF LoadEffect, ToSet
  <2>2. ASSUME NEW l \in loads, Deliver(l)
        PROVE  head' <= made' /\ ToSet(list') \subseteq 1..made'
    <3>1. l.page \subseteq 1..made /\ l.head <= made /\ made' = made
      BY <1>1, <2>2 DEF KnownInv, Deliver, server
    <3>2. ToSet(Rows(l)) \subseteq 1..made
      BY <1>1, <3>1, RowsFacts DEF KnownInv
    <3> QED  BY <1>1, <2>2, <3>1, <3>2 DEF Deliver, KnownInv
  <2>3. ASSUME NEW p \in Mine, SettleDelete(p)
        PROVE  head' <= made' /\ ToSet(list') \subseteq 1..made'
    BY <1>1, <2>3, SettledRows DEF SettleDelete, KnownInv, server, history
  <2>4. CASE UNCHANGED <<head, list>>
    BY <1>1, <1>3, <1>4, <2>4 DEF KnownInv
  <2> QED  BY <2>1, <2>2, <2>3, <2>4 DEF Next, Gesture, LoadMore, Refresh, SetQuery, Blur, Focus,
              RemovePost, Render, Debounced, Serve, ServeDelete, Share, DeletedElsewhere, vars, history
<1>7. deleted' \subseteq 1..made' /\ \A p \in Mine : deletes'[p] # "none" => p <= made'
  <2>1. ASSUME NEW p \in Mine, RemovePost(p) \/ ServeDelete(p) \/ SettleDelete(p)
        PROVE  /\ deletes' = [deletes EXCEPT ![p] = deletes'[p]]
               /\ deletes'[p] # "none" => p <= made
               /\ deleted' \subseteq 1..made /\ made' = made
    <3>1. p \in Nat /\ p > 0
      BY PostsAssumption DEF Posts
    <3>2. DOMAIN deletes = Mine
      BY <1>1 DEF TypeOK
    <3>3. CASE RemovePost(p)
      <4>1. p <= made
        BY <1>1, <1>3, <3>3 DEF RemovePost, KnownInv
      <4> QED  BY <1>1, <3>2, <3>3, <4>1 DEF RemovePost, KnownInv, server
    <3>4. CASE ServeDelete(p)
      <4>1. p <= made
        BY <1>1, <3>4 DEF ServeDelete, KnownInv
      <4> QED  BY <1>1, <3>2, <3>4, <4>1 DEF ServeDelete, KnownInv
    <3>5. CASE SettleDelete(p)
      <4>1. p <= made
        BY <1>1, <3>5 DEF SettleDelete, KnownInv
      <4> QED  BY <1>1, <1>3, <3>1, <3>2, <3>5, <4>1 DEF SettleDelete, KnownInv, server
    <3> QED  BY <2>1, <3>3, <3>4, <3>5
  <2>2. ASSUME NEW p \in Mine, RemovePost(p) \/ ServeDelete(p) \/ SettleDelete(p)
        PROVE  deleted' \subseteq 1..made' /\ \A q \in Mine : deletes'[q] # "none" => q <= made'
    <3>1. DOMAIN deletes = Mine
      BY <1>1 DEF TypeOK
    <3> QED  BY <1>1, <2>1, <2>2, <3>1 DEF KnownInv
  <2>3. CASE UNCHANGED <<deleted, deletes>>
    <3>1. \A p \in Mine : p \in Int
      BY PostsAssumption DEF Posts
    <3> QED  BY <1>1, <1>3, <1>4, <2>3, <3>1 DEF KnownInv
  <2> QED  BY <2>2, <2>3 DEF Next, Gesture, LoadMore, Refresh, SetQuery, Blur, Focus,
              LoadEffect, Render, Debounced, Serve, Deliver, Share, DeletedElsewhere, vars
<1> QED  BY <1>4, <1>5, <1>6, <1>7 DEF KnownInv

----------------------------------------------------------------------------
(***************************************************************************)
(* Deleted rows, terms and pages.                                          *)
(***************************************************************************)

\* No step brings a deleted row back, or takes a delete for settled that was not
\* applied.
LEMMA GoneStep == Inv /\ [Next]_vars => GoneInv'
<1> SUFFICES ASSUME Inv, [Next]_vars  PROVE GoneInv'
  OBVIOUS
<1>1. TypeOK /\ KnownInv /\ GoneInv
  BY DEF Inv
<1>2. /\ deletes \in [Mine -> {"none", "sent", "gone", "failed"}] /\ made \in Nat
      /\ Mine \subseteq Posts /\ Posts \subseteq Nat
  BY <1>1, PostsAssumption DEF TypeOK, Posts
<1>3. CASE UNCHANGED <<feed, list, deleted, deletes>>
  BY <1>1, <1>3 DEF GoneInv, DeletedStaysGone
<1>4. CASE LoadEffect
  BY <1>1, <1>4 DEF LoadEffect, GoneInv, DeletedStaysGone, server, ToSet
<1>5. ASSUME NEW p \in Mine, RemovePost(p)  PROVE GoneInv'
  BY <1>1, <1>2, <1>5 DEF RemovePost, GoneInv, DeletedStaysGone, server
<1>6. ASSUME NEW l \in loads, Deliver(l)  PROVE GoneInv'
  <2>1. list' = Rows(l) \/ list' = list
    BY <1>6 DEF Deliver
  <2>2. ToSet(Rows(l)) \cap deleted = {}
    BY <1>1, RowsFacts
  <2>3. UNCHANGED <<feed, deleted, deletes>>
    BY <1>6 DEF Deliver, server
  <2> QED  BY <1>1, <2>1, <2>2, <2>3 DEF GoneInv, DeletedStaysGone
<1>7. ASSUME NEW p \in Mine, ServeDelete(p)  PROVE GoneInv'
  <2>1. /\ feed' \subseteq feed
        /\ \A q \in Mine : deletes'[q] = "gone" => q \notin feed'
    BY <1>1, <1>2, <1>7 DEF ServeDelete, GoneInv
  <2> QED  BY <1>1, <1>7, <2>1 DEF ServeDelete, GoneInv, DeletedStaysGone
<1>8. ASSUME NEW p \in Mine, SettleDelete(p)  PROVE GoneInv'
  <2>1. \A q \in Mine : deletes'[q] = "gone" => deletes[q] = "gone"
    BY <1>2, <1>8 DEF SettleDelete
  <2>2. CASE deletes[p] = "gone"
    <3>1. deleted' = deleted \cup {p} /\ ToSet(list') = ToSet(list) \ {p} /\ p \notin feed /\ feed' = feed
      BY <1>1, <1>8, <2>2, SettledRows DEF SettleDelete, GoneInv, server
    <3> QED  BY <1>1, <2>1, <3>1 DEF GoneInv, DeletedStaysGone
  <2>3. CASE deletes[p] # "gone"
    BY <1>1, <1>8, <2>1, <2>3 DEF SettleDelete, GoneInv, DeletedStaysGone, server
  <2> QED  BY <2>2, <2>3
<1>9. CASE Share
  <2>1. made + 1 \notin deleted /\ \A p \in Mine : deletes[p] = "gone" => p # made + 1
    BY <1>1, <1>2 DEF KnownInv
  <2> QED  BY <1>1, <1>9, <2>1 DEF Share, GoneInv, DeletedStaysGone
<1>10. ASSUME NEW p \in feed, DeletedElsewhere(p)  PROVE GoneInv'
  BY <1>1, <1>10 DEF DeletedElsewhere, GoneInv, DeletedStaysGone
<1> QED  BY <1>3, <1>4, <1>5, <1>6, <1>7, <1>8, <1>9, <1>10
         DEF Next, Gesture, LoadMore, Refresh, SetQuery, Blur, Focus, Render, Debounced, Serve, vars, server

\* Every step keeps rows, pages and the newest request to their terms.
LEMMA TermStep == Inv /\ [Next]_vars => TermInv'
<1> SUFFICES ASSUME Inv, [Next]_vars  PROVE TermInv'
  OBVIOUS
<1>1. TypeOK /\ IdsInv /\ TermInv
  BY DEF Inv
<1>2. view.term \in Terms /\ Top \in 1..Top
  BY <1>1, PostsAssumption DEF TypeOK, Top
<1> DEFINE LoadsIn == \A l \in loads : l.page \subseteq Matching[l.term]
           NewestIn == \A l \in loads : l.id = requestId => l.term = view.term
           RowsIn == ToSet(list) \subseteq Matching[view.term]
<1>3. ASSUME NEW kind \in {"loading", "refreshing", "loadingMore"},
             NEW how \in {"replace", "append"}, NEW c \in 1..Top,
             Run(kind, how, view.term, c), view' = view
      PROVE  LoadsIn' /\ NewestIn'
  <2> DEFINE n == Sent(how, view.term, c)
  <2>1. loads' = loads \cup {n} /\ \A l \in loads : l.id # requestId'
    BY <1>1, <1>2, <1>3, RunFacts
  <2>2. n.page = {} /\ n.term = view.term
    BY DEF Sent
  <2> HIDE DEF n
  <2> QED  BY <1>1, <1>3, <2>1, <2>2 DEF TermInv
<1>4. CASE Run("loading", "replace", view.term, Top) /\ LoadEffect
  <2>1. LoadsIn' /\ NewestIn'
    BY <1>2, <1>3, <1>4 DEF LoadEffect
  <2>2. RowsIn'
    BY <1>4 DEF LoadEffect, ToSet
  <2> QED  BY <2>1, <2>2 DEF TermInv
<1>5. CASE Run("refreshing", "replace", view.term, Top) /\ (Refresh \/ Focus)
  <2>1. UNCHANGED <<view, list, effectDue>>
    BY <1>5 DEF Refresh, Focus
  <2>2. LoadsIn' /\ NewestIn'
    BY <1>2, <1>3, <1>5, <2>1
  <2> QED  BY <1>1, <2>1, <2>2 DEF TermInv
<1>6. CASE /\ LoadMore /\ view.cursor \in 1..Top
           /\ Run("loadingMore", "append", view.term, view.cursor)
  <2>1. UNCHANGED <<view, list, effectDue>>
    BY <1>6 DEF LoadMore
  <2>2. LoadsIn' /\ NewestIn'
    BY <1>3, <1>6, <2>1
  <2> QED  BY <1>1, <2>1, <2>2 DEF TermInv
<1>7. ASSUME NEW l \in loads, Serve(l)  PROVE TermInv'
  <2>1. UNCHANGED <<view, list, effectDue, requestId>>
    BY <1>7 DEF Serve
  <2>2. l.term \in Terms /\ l.cursor \in 1..Top
    BY <1>1 DEF TypeOK, Load
  <2>3. Page(l.term, l.cursor) \subseteq Matching[l.term]
    BY <1>1, <2>2, PageFacts
  <2>4. PICK m \in Load :
          /\ loads' = (loads \ {l}) \cup {m}
          /\ m.id = l.id /\ m.term = l.term
          /\ m.page = Page(l.term, l.cursor) \/ m.page = l.page
    BY <1>1, <1>7, ServeFacts
  <2> QED  BY <1>1, <2>1, <2>3, <2>4 DEF TermInv
<1>8. ASSUME NEW l \in loads, Deliver(l)  PROVE TermInv'
  <2>1. loads' = loads \ {l} /\ UNCHANGED <<view, effectDue, requestId>> /\ ~effectDue
    BY <1>8 DEF Deliver, Committed
  <2>2. LoadsIn' /\ NewestIn'
    BY <1>1, <2>1 DEF TermInv
  <2>3. CASE l.id = requestId /\ list' = Rows(l)
    <3>1. l.page \subseteq Matching[view.term]
      BY <1>1, <2>1, <2>3 DEF TermInv
    <3>2. ToSet(Rows(l)) \subseteq ToSet(list) \cup l.page
      BY <1>1, RowsFacts
    <3> QED  BY <1>1, <2>1, <2>2, <2>3, <3>1, <3>2 DEF TermInv
  <2>4. CASE list' = list
    BY <1>1, <2>1, <2>2, <2>4 DEF TermInv
  <2> QED  BY <1>8, <2>3, <2>4 DEF Deliver, Newest
<1>9. CASE UNCHANGED <<loads, requestId, inFlight>> /\ ~LoadEffect
  <2>1. CASE UNCHANGED <<list, view, effectDue>>
    BY <1>1, <1>9, <2>1 DEF TermInv
  <2>2. CASE Render
    <3>1. effectDue' = (view.term # term) /\ view'.term = term /\ list' = list /\ ~effectDue
      BY <2>2 DEF Render
    <3> QED  BY <1>1, <1>9, <3>1 DEF TermInv
  <2>3. ASSUME NEW p \in Mine, SettleDelete(p)  PROVE TermInv'
    <3>1. ToSet(list') \subseteq ToSet(list) /\ UNCHANGED <<view, effectDue>>
      BY <1>1, <2>3, SettledRows DEF SettleDelete
    <3> QED  BY <1>1, <1>9, <3>1 DEF TermInv
  <2>4. ASSUME NEW l \in loads, Deliver(l)  PROVE TermInv'
    BY <1>8, <2>4
  <2> QED  BY <1>9, <2>1, <2>2, <2>3, <2>4
           DEF Next, Gesture, LoadMore, Refresh, SetQuery, Blur, Focus, RemovePost, Debounced, Serve,
               ServeDelete, Share, DeletedElsewhere, vars
<1> QED  BY <1>1, <1>4, <1>5, <1>6, <1>7, <1>8, <1>9, RequestSteps

\* Every step keeps pages whole: what leaves the database leaves no gap, and
\* what is shared stands above what was read.
LEMMA PageStep == Inv /\ [Next]_vars => PageInv'
<1> SUFFICES ASSUME Inv, [Next]_vars  PROVE PageInv'
  OBVIOUS
<1>1. TypeOK /\ IdsInv /\ KnownInv /\ PageInv
  BY DEF Inv
<1>2. view.term \in Terms /\ Top \in 1..Top /\ made \in Nat
  BY <1>1, PostsAssumption DEF TypeOK, Top
<1> DEFINE Whole(l) ==
             /\ l.next < l.cursor
             /\ \A p \in l.page : l.next <= p /\ p < l.cursor
             /\ \A p \in feed \cap Matching[l.term] :
                  l.next <= p /\ p < l.cursor /\ p <= l.head => p \in l.page
<1>3. ASSUME NEW kind \in {"loading", "refreshing", "loadingMore"},
             NEW how \in {"replace", "append"}, NEW c \in 1..Top,
             Run(kind, how, view.term, c), how = "replace" => c = Top, feed' = feed
      PROVE  PageInv'
  <2> DEFINE n == Sent(how, view.term, c)
  <2>1. loads' = loads \cup {n} /\ \A l \in loads : l.id # requestId'
    BY <1>1, <1>2, <1>3, RunFacts
  <2>2. n.mode = how /\ n.cursor = c /\ n.status = "sent"
    BY DEF Sent
  <2> HIDE DEF n
  <2> QED  BY <1>1, <1>3, <2>1, <2>2 DEF PageInv
<1>4. CASE Run("loading", "replace", view.term, Top) /\ LoadEffect
  BY <1>2, <1>3, <1>4 DEF LoadEffect, server
<1>5. CASE Run("refreshing", "replace", view.term, Top) /\ (Refresh \/ Focus)
  BY <1>2, <1>3, <1>5 DEF Refresh, Focus, server
<1>6. CASE /\ LoadMore /\ view.cursor \in 1..Top
           /\ Run("loadingMore", "append", view.term, view.cursor)
  BY <1>3, <1>6 DEF LoadMore, server
<1>7. ASSUME NEW l \in loads, Serve(l)  PROVE PageInv'
  <2>1. UNCHANGED <<feed, requestId, head>>
    BY <1>7 DEF Serve, server, history
  <2>2. l.term \in Terms /\ l.cursor \in 1..Top
    BY <1>1 DEF TypeOK, Load
  <2>3. PICK m \in Load :
          /\ loads' = (loads \ {l}) \cup {m}
          /\ m.id = l.id /\ m.mode = l.mode /\ m.term = l.term /\ m.cursor = l.cursor
          /\ \/ /\ m.status = "page" /\ m.page = Page(l.term, l.cursor)
                /\ m.next = NextCursor(l.term, l.cursor) /\ m.head = made
             \/ m.status = "failed"
    BY <1>1, <1>7, ServeFacts
  <2>4. m.status = "page" => Whole(m) /\ head <= m.head
    <3> SUFFICES ASSUME m.status = "page"  PROVE Whole(m) /\ head <= m.head
      OBVIOUS
    <3>1. m.page = Page(l.term, l.cursor) /\ m.next = NextCursor(l.term, l.cursor) /\ m.head = made
      BY <2>3
    <3>2. /\ \A p \in Page(l.term, l.cursor) : p < l.cursor
          /\ NextCursor(l.term, l.cursor) < l.cursor
          /\ \A p \in Page(l.term, l.cursor) : NextCursor(l.term, l.cursor) <= p
          /\ \A p \in feed \cap Matching[l.term] :
               NextCursor(l.term, l.cursor) <= p /\ p < l.cursor => p \in Page(l.term, l.cursor)
      BY <1>1, <2>2, PageFacts
    <3> QED  BY <1>1, <2>3, <3>1, <3>2 DEF KnownInv
  <2>5. m.mode = "replace" => m.cursor = Top
    BY <1>1, <2>3 DEF PageInv
  <2> QED  BY <1>1, <2>1, <2>3, <2>4, <2>5 DEF PageInv
<1>8. ASSUME NEW l \in loads, Deliver(l)  PROVE PageInv'
  <2>1. loads' = loads \ {l} /\ UNCHANGED <<feed, requestId>>
    BY <1>8 DEF Deliver, server
  <2>2. head' = head \/ l.id = requestId
    BY <1>8 DEF Deliver, Newest
  <2>3. \A m \in loads' : m.id = requestId => head' = head
    BY <1>1, <2>1, <2>2 DEF IdsInv
  <2> QED  BY <1>1, <2>1, <2>3 DEF PageInv
<1>9. CASE UNCHANGED <<loads, requestId, inFlight>> /\ ~LoadEffect
  <2>1. CASE feed' \subseteq feed /\ head' = head
    BY <1>1, <1>9, <2>1 DEF PageInv
  <2>2. CASE Share
    <3>1. feed' = feed \cup {made + 1} /\ head' = head
      BY <2>2 DEF Share
    <3>2. \A l \in loads : ~(made + 1 <= l.head)
      <4> TAKE l \in loads
      <4>1. l.head \in Nat /\ l.head <= made
        BY <1>1, PostsAssumption DEF TypeOK, Load, KnownInv
      <4> QED  BY <1>2, <4>1
    <3> QED  BY <1>1, <1>9, <3>1, <3>2 DEF PageInv
  <2>3. ASSUME NEW p \in Mine, ServeDelete(p)  PROVE feed' \subseteq feed /\ head' = head
    BY <2>3 DEF ServeDelete, history
  <2>4. ASSUME NEW l \in loads, Deliver(l)  PROVE PageInv'
    BY <1>8, <2>4
  <2> QED  BY <1>9, <2>1, <2>2, <2>3, <2>4
           DEF Next, Gesture, LoadMore, Refresh, SetQuery, Blur, Focus, RemovePost, Render, Debounced,
               Serve, SettleDelete, DeletedElsewhere, vars, server, history
<1> QED  BY <1>1, <1>4, <1>5, <1>6, <1>7, <1>8, <1>9, RequestSteps

----------------------------------------------------------------------------
(***************************************************************************)
(* The list.                                                               *)
(***************************************************************************)

\* A reply to the newest request leaves a gapless list, of which no row is there
\* twice: what it adds stands below what was there, down to its own cursor.
LEMMA DeliveredList ==
  ASSUME Inv, NEW l \in loads, Deliver(l), l.id = requestId, l.status = "page", ~overtaken'
  PROVE  ListInv'
<1>1. TypeOK /\ IdsInv /\ KnownInv /\ GoneInv /\ TermInv /\ PageInv /\ ListInv
  BY DEF Inv
<1>2. /\ list' = Rows(l) /\ nextCursor' = l.next /\ loads' = loads \ {l}
      /\ head' = (IF l.mode = "replace" THEN l.head ELSE head)
      /\ overtaken' = (overtaken /\ l.mode = "append")
      /\ UNCHANGED <<feed, view, effectDue, requestId, deleted>> /\ ~effectDue
  BY DEF Deliver, Newest, Committed, server
<1>3. l \in Load /\ l.term = view.term
  BY <1>1, <1>2 DEF TypeOK, TermInv
<1>4. /\ l.page \subseteq Posts /\ l.next \in Nat /\ l.cursor \in Nat /\ l.head \in Nat /\ head \in Nat
      /\ nextCursor \in Nat /\ Posts \subseteq Nat /\ ToSet(list) \subseteq Posts /\ feed \subseteq Posts
  <2>1. ToSet(list) \subseteq Posts /\ feed \subseteq Posts
    BY <1>1, PostsAssumption DEF TypeOK, ToSet, Posts
  <2> QED  BY <1>1, <1>3, <2>1, PostsAssumption DEF Load, TypeOK, Posts, Top
<1>5. /\ l.next < l.cursor
      /\ \A p \in l.page : l.next <= p /\ p < l.cursor
      /\ \A p \in feed \cap Matching[view.term] :
           l.next <= p /\ p < l.cursor /\ p <= l.head => p \in l.page
      /\ l.mode = "replace" => l.cursor = Top
      /\ l.mode = "append" => head <= l.head
  BY <1>1, <1>3 DEF PageInv
<1>6. /\ ToSet(Rows(l)) = ((IF l.mode = "append" THEN ToSet(list) ELSE {}) \cup l.page) \ deleted
      /\ (l.mode = "append" => IsInjective(list) /\ ToSet(list) \cap l.page = {}) => IsInjective(Rows(l))
  BY <1>1, RowsFacts
<1>7. \A m \in loads' : m.id # requestId'
  BY <1>1, <1>2 DEF IdsInv
<1>8. deleted \cap feed = {}
  BY <1>1 DEF GoneInv, DeletedStaysGone
<1>9. CASE l.mode = "append"
  <2>1. ~overtaken /\ l.cursor = nextCursor
    BY <1>1, <1>2, <1>9 DEF ListInv
  <2>2. nextCursor # 0
    BY <1>3, <2>1 DEF Load
  <2>3. /\ IsInjective(list)
        /\ \A p \in ToSet(list) : nextCursor <= p
        /\ \A p \in feed \cap Matching[view.term] :
             nextCursor <= p /\ p <= head => p \in ToSet(list)
    BY <1>1, <1>2, <2>1, <2>2 DEF ListInv, NoCursor
  <2>4. ToSet(list) \cap l.page = {}
    <3> SUFFICES ASSUME NEW p \in ToSet(list), p \in l.page  PROVE FALSE
      OBVIOUS
    <3>1. p \in Nat /\ p < l.cursor /\ nextCursor <= p
      BY <1>4, <1>5, <2>3
    <3> QED  BY <1>4, <2>1, <3>1
  <2>5. IsInjective(list') /\ ToSet(list') = (ToSet(list) \cup l.page) \ deleted
    BY <1>2, <1>6, <1>9, <2>3, <2>4
  <2>6. \A p \in ToSet(list') : nextCursor' <= p
    <3> TAKE p \in ToSet(list')
    <3>1. CASE p \in l.page
      BY <1>2, <1>5, <3>1
    <3>2. CASE p \in ToSet(list)
      <4>1. p \in Nat /\ nextCursor <= p
        BY <1>4, <2>3, <3>2
      <4> QED  BY <1>2, <1>4, <1>5, <2>1, <4>1
    <3> QED  BY <2>5, <3>1, <3>2
  <2>7. \A p \in feed \cap Matching[view.term] : nextCursor' <= p /\ p <= head' => p \in ToSet(list')
    <3> SUFFICES ASSUME NEW p \in feed \cap Matching[view.term], l.next <= p, p <= head
                 PROVE  p \in ToSet(list')
      BY <1>2, <1>9
    <3>1. p \in Nat /\ p \notin deleted /\ p <= l.head
      <4>1. p \in Nat /\ p \notin deleted
        BY <1>4, <1>8
      <4> QED  BY <1>4, <1>5, <1>9, <4>1
    <3>2. nextCursor <= p \/ p < l.cursor
      BY <1>4, <2>1, <3>1
    <3> QED  BY <1>5, <2>3, <2>5, <3>1, <3>2
  <2> QED  BY <1>2, <1>7, <2>5, <2>6, <2>7 DEF ListInv
<1>10. CASE l.mode = "replace"
  <2>1. IsInjective(list') /\ ToSet(list') = l.page \ deleted
    BY <1>2, <1>6, <1>10
  <2>2. \A p \in ToSet(list') : nextCursor' <= p
    BY <1>2, <1>5, <2>1
  <2>3. \A p \in feed \cap Matching[view.term] : nextCursor' <= p /\ p <= head' => p \in ToSet(list')
    <3> SUFFICES ASSUME NEW p \in feed \cap Matching[view.term], l.next <= p, p <= l.head
                 PROVE  p \in ToSet(list')
      BY <1>2, <1>10
    <3>1. p < l.cursor
      BY <1>4, <1>5, <1>10, PostsAssumption DEF Top, Posts
    <3> QED  BY <1>5, <1>8, <2>1, <3>1
  <2> QED  BY <1>2, <1>7, <2>1, <2>2, <2>3 DEF ListInv
<1> QED  BY <1>3, <1>9, <1>10 DEF Load

\* Every step keeps the list gapless, unless it asks for a page behind a cursor
\* that is not the list's.
LEMMA ListStep == Inv /\ [Next]_vars => ListInv'
<1> SUFFICES ASSUME Inv, [Next]_vars, ~overtaken'  PROVE ListInv'
  BY DEF ListInv
<1>1. TypeOK /\ IdsInv /\ KnownInv /\ GoneInv /\ ListInv
  BY DEF Inv
<1>2. view.term \in Terms /\ Top \in 1..Top /\ made \in Nat /\ head \in Nat
  BY <1>1, PostsAssumption DEF TypeOK, Top
<1> DEFINE Behindhand == \A l \in loads : l.id = requestId /\ l.mode = "append" => l.cursor = nextCursor
           Gapless == \A p \in feed \cap Matching[view.term] :
                        nextCursor <= p /\ p <= head => p \in ToSet(list)
           Once == IsInjective(list) /\ (nextCursor # NoCursor => \A p \in ToSet(list) : nextCursor <= p)
<1>3. ASSUME NEW kind \in {"loading", "refreshing", "loadingMore"},
             NEW how \in {"replace", "append"}, NEW c \in 1..Top,
             Run(kind, how, view.term, c), how = "append" => c = nextCursor'
      PROVE  Behindhand'
  <2> DEFINE n == Sent(how, view.term, c)
  <2>1. loads' = loads \cup {n} /\ \A l \in loads : l.id # requestId'
    BY <1>1, <1>2, <1>3, RunFacts
  <2>2. n.mode = how /\ n.cursor = c
    BY DEF Sent
  <2> HIDE DEF n
  <2> QED  BY <1>1, <1>3, <2>1, <2>2
<1>4. CASE Run("loading", "replace", view.term, Top) /\ LoadEffect
  <2>1. Behindhand'
    BY <1>2, <1>3, <1>4
  <2>2. list' = <<>> /\ nextCursor' = 0 /\ head' = 0 /\ view' = view /\ feed' = feed
    BY <1>4 DEF LoadEffect, NoCursor, server
  <2>3. Once'
    BY <2>2 DEF NoCursor, IsInjective
  <2>4. Gapless'
    <3>1. \A p \in feed : p \in Int /\ p > 0
      BY <1>1, <1>2 DEF TypeOK
    <3> QED  BY <2>2, <3>1
  <2> QED  BY <2>1, <2>3, <2>4 DEF ListInv
<1>5. CASE Run("refreshing", "replace", view.term, Top) /\ (Refresh \/ Focus)
  <2>1. UNCHANGED <<feed, list, nextCursor, head, view, effectDue, overtaken>>
    BY <1>5 DEF Refresh, Focus, server, history
  <2>2. Behindhand'
    BY <1>2, <1>3, <1>5
  <2> QED  BY <1>1, <2>1, <2>2 DEF ListInv
<1>6. CASE /\ LoadMore /\ inFlight = "idle" /\ view.cursor \in 1..Top
           /\ Run("loadingMore", "append", view.term, view.cursor)
  <2>1. view.cursor # NoCursor
    BY <1>6 DEF NoCursor
  <2>2. UNCHANGED <<feed, list, nextCursor, head, view, effectDue>> /\ ~overtaken /\ view.cursor = nextCursor
    BY <1>6, <2>1 DEF LoadMore, server
  <2>3. Behindhand'
    BY <1>3, <1>6, <2>2
  <2> QED  BY <1>1, <2>2, <2>3 DEF ListInv
<1>7. ASSUME NEW l \in loads, Serve(l)  PROVE ListInv'
  <2>1. UNCHANGED <<feed, list, nextCursor, head, view, effectDue, overtaken, requestId>>
    BY <1>7 DEF Serve, server, history
  <2>2. PICK m \in Load :
          /\ loads' = (loads \ {l}) \cup {m}
          /\ m.id = l.id /\ m.mode = l.mode /\ m.cursor = l.cursor
    BY <1>1, <1>7, ServeFacts
  <2> QED  BY <1>1, <2>1, <2>2 DEF ListInv
<1>8. ASSUME NEW l \in loads, Deliver(l)  PROVE ListInv'
  <2>1. CASE l.id = requestId /\ l.status = "page"
    BY <1>8, <2>1, DeliveredList
  <2>2. CASE ~(l.id = requestId /\ l.status = "page")
    <3>1. UNCHANGED <<feed, list, nextCursor, head, view, effectDue, overtaken, requestId>>
      BY <1>8, <2>2 DEF Deliver, Newest, server
    <3>2. loads' = loads \ {l}
      BY <1>8 DEF Deliver
    <3> QED  BY <1>1, <3>1, <3>2 DEF ListInv
  <2> QED  BY <2>1, <2>2
<1>9. CASE UNCHANGED <<loads, requestId, inFlight>> /\ ~LoadEffect
  <2>1. CASE feed' \subseteq feed /\ UNCHANGED <<list, nextCursor, head, view, effectDue, overtaken>>
    BY <1>1, <1>9, <2>1 DEF ListInv
  <2>2. CASE Render
    <3>1. /\ effectDue' = (view.term # term) /\ view'.term = term /\ ~effectDue
          /\ UNCHANGED <<feed, list, nextCursor, head, overtaken>>
      BY <2>2 DEF Render, server, history
    <3> QED  BY <1>1, <1>9, <3>1 DEF ListInv
  <2>3. ASSUME NEW p \in Mine, SettleDelete(p)  PROVE ListInv'
    <3>1. UNCHANGED <<feed, nextCursor, head, view, effectDue, overtaken>>
      BY <2>3 DEF SettleDelete, server, history
    <3>2. CASE deletes[p] = "gone"
      <4>1. p \notin feed
        BY <1>1, <3>2 DEF GoneInv
      <4>2. list' = Without(list, {p})
        BY <2>3, <3>2 DEF SettleDelete
      <4>3. ToSet(list') = ToSet(list) \ {p} /\ (IsInjective(list) => IsInjective(list'))
        BY <1>1, <4>2, SettledRows
      <4> QED  BY <1>1, <1>9, <3>1, <4>1, <4>3 DEF ListInv
    <3>3. CASE deletes[p] # "gone"
      <4>1. list' = list
        BY <2>3, <3>3 DEF SettleDelete
      <4> QED  BY <1>1, <1>9, <3>1, <4>1 DEF ListInv
    <3> QED  BY <3>2, <3>3
  <2>4. CASE Share
    <3>1. feed' = feed \cup {made + 1} /\ UNCHANGED <<list, nextCursor, head, view, effectDue, overtaken>>
      BY <2>4 DEF Share
    <3>2. ~(made + 1 <= head)
      BY <1>1, <1>2 DEF KnownInv
    <3> QED  BY <1>1, <1>9, <3>1, <3>2 DEF ListInv
  <2>5. ASSUME NEW l \in loads, Deliver(l)  PROVE ListInv'
    BY <1>8, <2>5
  <2>6. CASE LoadMore
    <3>1. UNCHANGED <<feed, list, nextCursor, head, view, effectDue>> /\ overtaken' = overtaken
      <4>1. requestId' # requestId + 1
        BY <1>1, <1>9 DEF TypeOK
      <4> QED  BY <2>6, <4>1 DEF LoadMore, Run, server
    <3> QED  BY <1>1, <1>9, <3>1 DEF ListInv
  <2>7. ASSUME NEW p \in Mine, ServeDelete(p)
        PROVE  feed' \subseteq feed /\ UNCHANGED <<list, nextCursor, head, view, effectDue, overtaken>>
    BY <2>7 DEF ServeDelete, history
  <2> QED  BY <1>9, <2>1, <2>2, <2>3, <2>4, <2>5, <2>6, <2>7
           DEF Next, Gesture, Refresh, SetQuery, Blur, Focus, RemovePost, Debounced,
               Serve, DeletedElsewhere, vars, server, history
<1> QED  BY <1>1, <1>4, <1>5, <1>6, <1>7, <1>8, <1>9, RequestSteps

\* Every step keeps an unread feed from being shown as an empty one.
LEMMA StartStep == Inv /\ [Next]_vars => StartInv'
<1> SUFFICES ASSUME Inv, [Next]_vars, ~effectDue', head' < Start  PROVE StartInv'
  BY DEF StartInv
<1>1. TypeOK /\ IdsInv /\ KnownInv /\ StartInv
  BY DEF Inv
<1>2. list = <<>> => ToSet(list) = {}
  BY DEF ToSet
<1>3. CASE LoadEffect
  BY <1>3 DEF LoadEffect, Run, StartInv
<1>4. CASE Render
  <2>1. head < Start /\ ~effectDue
    BY <1>4 DEF Render, history
  <2>2. view'.cursor = nextCursor /\ UNCHANGED <<list, nextCursor, inFlight, error>>
    BY <1>4 DEF Render
  <2> QED  BY <1>1, <2>1, <2>2 DEF StartInv
<1>5. ASSUME NEW l \in loads, Deliver(l)  PROVE StartInv'
  <2>1. ~effectDue /\ view.cursor = nextCursor /\ view' = view
    BY <1>5 DEF Deliver, Committed
  <2>2. CASE l.id = requestId /\ l.status = "page"
    <3>1. Start <= l.head /\ l.head \in Int
      BY <1>1, <2>2, PostsAssumption DEF KnownInv, TypeOK, Load
    <3>2. l.mode = "append"
      <4>1. CASE l.mode = "replace"
        <5>1. head' = l.head
          BY <1>5, <2>2, <4>1 DEF Deliver, Newest
        <5> QED  BY <3>1, <5>1, PostsAssumption
      <4> QED  BY <1>1, <4>1 DEF TypeOK, Load
    <3>3. head' = head
      BY <1>5, <2>2, <3>2 DEF Deliver, Newest
    <3>4. inFlight \in {"loading", "refreshing"} \/ inFlight = "idle"
      BY <1>1, <2>1, <3>3 DEF StartInv
    <3>5. inFlight = "loadingMore"
      BY <1>1, <2>2, <3>2 DEF IdsInv
    <3> QED  BY <3>4, <3>5
  <2>3. CASE l.id = requestId /\ l.status # "page"
    <3>1. l.status = "failed"
      BY <1>1, <1>5, <2>3 DEF TypeOK, Load, Deliver
    <3>2. /\ error' = "list" /\ inFlight' = "idle"
          /\ UNCHANGED <<list, nextCursor, head>>
      BY <1>5, <2>3, <3>1 DEF Deliver, Newest, FlagAfter
    <3> QED  BY <1>1, <2>1, <3>2 DEF StartInv
  <2>4. CASE l.id # requestId
    <3>1. UNCHANGED <<list, nextCursor, head, error, inFlight>>
      BY <1>5, <2>4 DEF Deliver, Newest, FlagAfter
    <3> QED  BY <1>1, <2>1, <3>1 DEF StartInv
  <2> QED  BY <2>2, <2>3, <2>4
<1>6. ASSUME NEW p \in Mine, SettleDelete(p)  PROVE StartInv'
  <2>1. UNCHANGED <<head, effectDue, nextCursor, view, inFlight>>
    BY <1>6 DEF SettleDelete, history
  <2>2. list = <<>> /\ nextCursor = NoCursor
    BY <1>1, <2>1 DEF StartInv
  <2>3. list' = <<>>
    <3>1. ToSet(Without(list, {p})) = {}
      BY <1>1, <1>2, <2>2, SettledRows
    <3>2. Without(list, {p}) \in Seq(Posts)
      BY <1>1, WithoutRows DEF TypeOK
    <3>3. Without(list, {p}) = <<>>
      <4> DEFINE s == Without(list, {p})
      <4>1. s \in Seq(Posts) /\ ToSet(s) = {}
        BY <3>1, <3>2
      <4> HIDE DEF s
      <4>2. DOMAIN s = {}
        BY <4>1 DEF ToSet
      <4>3. Len(s) = 0
        BY <4>1, <4>2
      <4> QED  BY <4>1, <4>3 DEF s
    <3> QED  BY <1>6, <2>2, <3>3 DEF SettleDelete
  <2>4. error' = error \/ error' = "action"
    BY <1>6 DEF SettleDelete
  <2> QED  BY <1>1, <2>1, <2>2, <2>3, <2>4 DEF StartInv
<1>7. ASSUME NEW p \in Mine, RemovePost(p)  PROVE StartInv'
  <2>1. head' = head /\ effectDue' = effectDue /\ p \in ToSet(list)
    BY <1>7 DEF RemovePost, history
  <2> QED  BY <1>1, <1>2, <2>1 DEF StartInv
<1>8. CASE LoadMore
  <2>1. UNCHANGED <<head, effectDue, list, nextCursor, view>>
    BY <1>8 DEF LoadMore
  <2>2. UNCHANGED <<inFlight, error>>
    BY <1>1, <1>8, <2>1 DEF LoadMore, StartInv
  <2> QED  BY <1>1, <2>1, <2>2 DEF StartInv
<1>9. CASE Refresh \/ Focus
  <2>1. UNCHANGED <<head, effectDue, list, nextCursor, view>>
    BY <1>9 DEF Refresh, Focus, history
  <2>2. inFlight' = "refreshing" \/ UNCHANGED <<inFlight, error>>
    BY <1>9 DEF Refresh, Focus, Reload, Run
  <2> QED  BY <1>1, <2>1, <2>2 DEF StartInv
<1>10. CASE UNCHANGED <<head, effectDue, list, nextCursor, view, inFlight, error>>
  BY <1>1, <1>10 DEF StartInv
<1> QED  BY <1>3, <1>4, <1>5, <1>6, <1>7, <1>8, <1>9, <1>10
         DEF Next, Gesture, SetQuery, Blur, Debounced, Serve, ServeDelete, Share, DeletedElsewhere,
             vars, history

----------------------------------------------------------------------------
(***************************************************************************)
(* The theorems.                                                           *)
(***************************************************************************)

\* The invariant holds of a screen that has just been mounted.
LEMMA InitInv == Init => Inv
<1> SUFFICES ASSUME Init  PROVE Inv
  OBVIOUS
<1>1. TypeOK
  BY TypeInit
<1>2. IdsInv /\ PageInv /\ TermInv /\ StartInv
  BY DEF Init, IdsInv, FlagFollowsNewest, PageInv, TermInv, StartInv
<1>3. ToSet(list) = {} /\ IsInjective(list)
  BY DEF Init, ToSet, IsInjective
<1>4. KnownInv
  BY <1>3, PostsAssumption DEF Init, KnownInv
<1>5. GoneInv
  BY <1>3 DEF Init, GoneInv, DeletedStaysGone
<1>6. ListInv
  BY <1>3 DEF Init, ListInv
<1> QED  BY <1>1, <1>2, <1>4, <1>5, <1>6 DEF Inv

\* Every step keeps the invariant.
LEMMA InvStep == Inv /\ [Next]_vars => Inv'
BY TypeStep, IdsStep, KnownStep, GoneStep, TermStep, PageStep, ListStep, StartStep DEF Inv

\* What the invariant says of a committed screen.
LEMMA InvSound == Inv => ListIsSound
<1> SUFFICES ASSUME Inv  PROVE ListIsSound
  OBVIOUS
<1>1. TypeOK /\ IdsInv /\ GoneInv /\ TermInv /\ ListInv /\ StartInv
  BY DEF Inv
<1>2. Committed => view.term = term /\ ~effectDue
  BY DEF Committed
<1>3. RowsMatchTerm
  BY <1>1, <1>2 DEF RowsMatchTerm, TermInv
<1>4. nextCursor \in Int /\ head \in Int /\ Start \in Int /\ \A p \in feed : p \in Int
  BY <1>1, PostsAssumption DEF TypeOK
<1>5. ListIsGapless
  BY <1>1, <1>2, <1>4 DEF ListIsGapless, ListInv
<1>6. EmptyIsLicensed
  <2> SUFFICES ASSUME Committed, ~overtaken, FeedShown.empty, ~FeedShown.spinner,
                      inFlight # "refreshing"
               PROVE  /\ head >= Start
                      /\ \A p \in feed \cap Matching[term] : p > head \/ p <= nextCursor
    BY DEF EmptyIsLicensed
  <2>1. list = <<>> /\ error = "none" /\ inFlight # "loading"
    BY DEF FeedShown
  <2>2. head >= Start
    BY <1>1, <1>2, <1>4, <2>1 DEF StartInv
  <2>3. ToSet(list) = {}
    BY <2>1 DEF ToSet
  <2> QED  BY <1>2, <1>4, <1>5, <2>2, <2>3 DEF ListIsGapless
<1> QED  BY <1>1, <1>3, <1>5, <1>6 DEF ListIsSound, IdsInv, GoneInv

\* useCommunityFeed.ts, MasonryFeed.tsx: whatever order requests are served and
\* answered in, while posts come, go and are deleted under the hook's hands,
\* the list is the feed of the term searched for, nothing missing or twice down
\* to its cursor, no deleted row comes back, the flag speaks of the newest
\* request, and an empty feed is announced only of one that was read.
THEOREM ListAlwaysSound == Spec => []ListIsSound
<1>1. Init => Inv
  BY InitInv
<1>2. Inv /\ [Next]_vars => Inv'
  BY InvStep
<1>3. Inv => ListIsSound
  BY InvSound
<1> QED  BY <1>1, <1>2, <1>3, PTL DEF Spec

\* A step neither takes the list back to an earlier request's answer nor clears
\* an error of another kind.
LEMMA TakenBackStep ==
  ASSUME Inv, [Next]_vars
  PROVE  /\ [listId' >= listId]_vars
         /\ [error # "none" /\ error' = "none" =>
               IF error = "list" THEN requestId' > requestId
                 ELSE \E p \in Mine : deletes[p] = "none" /\ deletes'[p] = "sent"]_vars
<1>1. TypeOK
  BY DEF Inv
<1>2. requestId \in Nat /\ listId \in 0..requestId /\ error \in {"none", "list", "action"}
  BY <1>1 DEF TypeOK
<1> DEFINE Told == error # "none" /\ error' = "none" =>
                        IF error = "list" THEN requestId' > requestId
                          ELSE \E p \in Mine : deletes[p] = "none" /\ deletes'[p] = "sent"
           Ahead == listId' >= listId
<1> SUFFICES Ahead /\ Told
  OBVIOUS
<1>3. ASSUME NEW kind, NEW how, NEW t, NEW c, Run(kind, how, t, c)
      PROVE  Told
  BY <1>2, <1>3 DEF Run, Cleared
<1>4. CASE LoadEffect
  <2>1. listId' = requestId' /\ requestId' = requestId + 1
    BY <1>4 DEF LoadEffect, Run
  <2>2. Told
    BY <1>3, <1>4 DEF LoadEffect
  <2> QED  BY <1>2, <2>1, <2>2
<1>5. CASE LoadMore
  <2>1. listId' = listId /\ (error' = error \/ Run("loadingMore", "append", view.term, view.cursor))
    BY <1>5 DEF LoadMore
  <2> QED  BY <1>2, <1>3, <2>1
<1>6. CASE Refresh \/ Focus
  <2>1. listId' = listId /\ (error' = error \/ Run("refreshing", "replace", view.term, Top))
    BY <1>6 DEF Refresh, Focus, Reload, history
  <2> QED  BY <1>2, <1>3, <2>1
<1>7. ASSUME NEW p \in Mine, RemovePost(p)  PROVE listId' = listId /\ Told
  <2>1. listId' = listId /\ p \in DOMAIN deletes
    BY <1>1, <1>7 DEF RemovePost, history, TypeOK
  <2>2. CASE deletes[p] = "none"
    <3>1. deletes'[p] = "sent"
      BY <1>7, <2>1, <2>2 DEF RemovePost
    <3> QED  BY <1>2, <1>7, <2>1, <2>2, <3>1 DEF RemovePost, Cleared
  <2>3. CASE deletes[p] # "none"
    BY <1>7, <2>1, <2>3 DEF RemovePost
  <2> QED  BY <2>2, <2>3
<1>8. ASSUME NEW l \in loads, Deliver(l)  PROVE listId' >= listId /\ Told
  <2>1. error' = "list" \/ error' = error
    BY <1>8 DEF Deliver
  <2>2. listId' = requestId \/ listId' = listId
    BY <1>8 DEF Deliver, Newest
  <2> QED  BY <1>2, <2>1, <2>2
<1>9. ASSUME NEW p \in Mine, SettleDelete(p)  PROVE listId' = listId /\ Told
  BY <1>9 DEF SettleDelete, history
<1>10. CASE UNCHANGED <<listId, error>>
  BY <1>2, <1>10
<1>11. CASE SetQuery \/ Blur \/ Render \/ Debounced \/ Share \/ UNCHANGED vars
  BY <1>10, <1>11 DEF SetQuery, Blur, Render, Debounced, Share, vars, history
<1>12. ASSUME NEW p, ServeDelete(p) \/ DeletedElsewhere(p) \/ Serve(p)
       PROVE  UNCHANGED <<listId, error>>
  BY <1>12 DEF ServeDelete, DeletedElsewhere, Serve, history
<1>13. listId' = listId => Ahead
  BY <1>2
<1> HIDE DEF Told, Ahead
<1>14. Ahead /\ Told
  <2>1. \A l \in loads : Deliver(l) => Ahead /\ Told
    BY <1>8 DEF Ahead
  <2> QED  BY <1>4, <1>5, <1>6, <1>7, <1>9, <1>10, <1>11, <1>12, <1>13, <2>1 DEF Next, Gesture
<1> QED  BY <1>14

\* useCommunityFeed.ts:228, 300-345: the list is never taken back to the answer of
\* an earlier request, and a failure stays said until an operation of its kind.
THEOREM NothingTakenBack == Spec => NothingIsTakenBack
<1>1. Init => Inv
  BY InitInv
<1>2. Inv /\ [Next]_vars => Inv'
  BY InvStep
<1>3. Inv /\ [Next]_vars => [listId' >= listId]_vars
  BY TakenBackStep
<1>4. Inv /\ [Next]_vars =>
        [error # "none" /\ error' = "none" =>
           IF error = "list" THEN requestId' > requestId
             ELSE \E p \in Mine : deletes[p] = "none" /\ deletes'[p] = "sent"]_vars
  BY TakenBackStep
<1> QED  BY <1>1, <1>2, <1>3, <1>4, PTL DEF Spec, NothingIsTakenBack, NeverOlder, ErrorsClearedByKind

----------------------------------------------------------------------------
(***************************************************************************)
(* The item form.                                                          *)
(***************************************************************************)
Items == [item : 0..MaxItems, category : Categories, tagged : BOOLEAN, overridden : BOOLEAN]

Jobs == [image : Photos \cup {None}, category : Categories, part : {"photo", "thumbnail"},
         at : {"open", "render", "write", "post", "stored", "failed"}, reply : Items]

Corrections == [id : Nat, item : Nat \ {0}, category : Categories, at : {"sent", "written", "failed"}]

FormShape ==
  /\ image \in Photos \cup {None} /\ category \in Categories /\ saved \in Items
  /\ busyRef \in BOOLEAN
  /\ seen \in [image : Photos \cup {None}, category : Categories, saved : Items, busy : BOOLEAN]
  /\ taken \in 0..MaxPhotos /\ captures \subseteq 1..taken
  /\ jobs \subseteq Jobs /\ held \subseteq {"context", "bitmap"}
  /\ overrides \subseteq Corrections /\ sent \in 0..MaxOverrides /\ slips \in 0..MaxSlips

\* The rows and what each has been called, from its first name on.
Records ==
  /\ stored \in Seq([image : Photos \cup {None}, category : Categories])
  /\ said \in Seq(Seq(Categories)) /\ Len(said) = Len(stored) /\ Len(stored) <= MaxItems
  /\ \A i \in 1..Len(said) : said[i] # <<>>

\* The guard is held by the one save under way, which is all that holds anything native.
Guarded ==
  /\ jobs # {} => busyRef
  /\ \A j, k \in jobs : j = k
  /\ (\A j \in jobs : j.at \notin {"render", "write"}) => held = {}

\* What is shown of an item, or will be, was said of it.
SaidOf(words, item, name) ==
  item \in 1..Len(words) /\ \E n \in 1..Len(words[item]) : words[item][n] = name
Told(words, s) ==
  s # NotSaved =>
    SaidOf(words, s.item, s.category) /\ (~s.overridden => words[s.item][1] = s.category)

JobTold(words, j) == j.at = "stored" => j.reply # NotSaved /\ Told(words, j.reply)
CorrectionTold(words, o) ==
  o.item \in 1..Len(words) /\ (o.at = "written" => SaidOf(words, o.item, o.category))

Spoken ==
  /\ Told(said, saved) /\ Told(said, seen.saved)
  /\ \A j \in jobs : JobTold(said, j)
  /\ \A o \in overrides : CorrectionTold(said, o)

FormInv == FormShape /\ Records /\ Guarded /\ Spoken

\* The form starts as the invariant says.
LEMMA FormInvInit ==
  ASSUME FormInit  PROVE FormInv
<1> USE CategoriesAssumption, FormBoundsAssumption
<1>1. NotSaved \in Items
  BY DEF NotSaved, Items, None
<1>2. FormShape
  <2>1. /\ image = None /\ category = First /\ saved = NotSaved /\ busyRef = FALSE
        /\ seen = [image |-> None, category |-> First, saved |-> NotSaved, busy |-> FALSE]
        /\ taken = 0 /\ captures = {} /\ jobs = {} /\ held = {} /\ overrides = {} /\ sent = 0 /\ slips = 0
    BY DEF FormInit, Fields
  <2>2. seen \in [image : Photos \cup {None}, category : Categories, saved : Items, busy : BOOLEAN]
    BY <1>1, <2>1
  <2>3. sent \in 0..MaxOverrides /\ slips \in 0..MaxSlips /\ taken \in 0..MaxPhotos
    BY <2>1
  <2> QED  BY <1>1, <2>1, <2>2, <2>3 DEF FormShape
<1>3. Records
  BY DEF FormInit, Records
<1>4. Guarded
  BY DEF FormInit, Guarded
<1>5. Spoken
  BY DEF FormInit, Spoken, Told, Fields
<1> QED  BY <1>2, <1>3, <1>4, <1>5 DEF FormInv

\* The types the run checks, of what the invariant says.
LEMMA FormTypes ==
  ASSUME FormInv  PROVE FormTypeOK
<1>1. DOMAIN stored = 1..Cardinality(DOMAIN stored)
  <2>1. DOMAIN stored = 1..Len(stored) /\ Len(stored) \in Nat
    BY DEF FormInv, Records
  <2>2. Cardinality(1..Len(stored)) = Len(stored)
    <3>1. 1 \in Int /\ Len(stored) \in Int /\ (1 > Len(stored) => Len(stored) = 0)
      BY <2>1
    <3>2. Cardinality(1..Len(stored)) = IF 1 > Len(stored) THEN 0 ELSE Len(stored) - 1 + 1
      BY ONLY <3>1, FS_Interval
    <3> QED  BY ONLY <3>1, <3>2
  <2> QED  BY <2>1, <2>2
<1>2. saved \in [item : 0..MaxItems, category : Categories, tagged : BOOLEAN, overridden : BOOLEAN]
  BY DEF FormInv, FormShape, Items
<1>3. \A j \in jobs : j.at \in {"open", "render", "write", "post", "stored", "failed"}
  BY DEF FormInv, FormShape, Jobs
<1> QED  BY <1>1, <1>2, <1>3 DEF FormInv, FormShape, FormTypeOK

\* Words only come: what was said of an item stays said.
Grown(words, after) ==
  /\ Len(words) <= Len(after)
  /\ \A i \in 1..Len(words) :
       /\ Len(words[i]) <= Len(after[i]) /\ words[i] # <<>>
       /\ \A n \in 1..Len(words[i]) : after[i][n] = words[i][n]

Words == Seq(Seq(Categories))

\* ... so what was told of it stays told.
LEMMA GrownTells ==
  ASSUME NEW words \in Words, NEW after \in Words, Grown(words, after)
  PROVE  /\ \A item, name : SaidOf(words, item, name) => SaidOf(after, item, name)
         /\ \A s : Told(words, s) => Told(after, s)
         /\ \A j : JobTold(words, j) => JobTold(after, j)
         /\ \A o : CorrectionTold(words, o) => CorrectionTold(after, o)
<1>0. Len(words) \in Nat /\ Len(after) \in Nat /\ Len(words) <= Len(after)
  BY DEF Words, Grown
<1>1. ASSUME NEW i \in 1..Len(words)
      PROVE  /\ i \in 1..Len(after) /\ Len(words[i]) \in Nat /\ Len(after[i]) \in Nat
             /\ Len(words[i]) <= Len(after[i]) /\ 1 \in 1..Len(words[i])
             /\ \A n \in 1..Len(words[i]) : n \in 1..Len(after[i]) /\ after[i][n] = words[i][n]
  <2>1. i \in 1..Len(after) /\ words[i] \in Seq(Categories) /\ after[i] \in Seq(Categories)
    BY <1>0 DEF Words
  <2>2. Len(words[i]) \in Nat /\ Len(after[i]) \in Nat /\ Len(words[i]) # 0
    BY <2>1, <1>1 DEF Grown
  <2>3. Len(words[i]) <= Len(after[i]) /\ \A n \in 1..Len(words[i]) : after[i][n] = words[i][n]
    BY <1>1 DEF Grown
  <2> QED  BY <2>1, <2>2, <2>3
<1>2. ASSUME NEW item, NEW name, SaidOf(words, item, name)  PROVE SaidOf(after, item, name)
  BY <1>1, <1>2 DEF SaidOf
<1>3. ASSUME NEW s, Told(words, s)  PROVE Told(after, s)
  <2> SUFFICES ASSUME s # NotSaved
               PROVE  SaidOf(after, s.item, s.category)
                      /\ (~s.overridden => after[s.item][1] = s.category)
    BY DEF Told
  <2>1. SaidOf(words, s.item, s.category) /\ (~s.overridden => words[s.item][1] = s.category)
    BY <1>3 DEF Told
  <2>2. s.item \in 1..Len(words)
    BY <2>1 DEF SaidOf
  <2> QED  BY <2>1, <2>2, <1>1, <1>2
<1>4. ASSUME NEW j, JobTold(words, j)  PROVE JobTold(after, j)
  BY <1>3, <1>4 DEF JobTold
<1>5. ASSUME NEW o, CorrectionTold(words, o)  PROVE CorrectionTold(after, o)
  BY <1>1, <1>2, <1>5 DEF CorrectionTold
<1> QED  BY <1>2, <1>3, <1>4, <1>5

\* Another item with its first word, or another word on an item.
LEMMA WordsGrow ==
  ASSUME NEW words \in Words, \A i \in 1..Len(words) : words[i] # <<>>, NEW c \in Categories
  PROVE  /\ Append(words, <<c>>) \in Words /\ Len(Append(words, <<c>>)) = Len(words) + 1
         /\ \A i \in 1..(Len(words) + 1) : Append(words, <<c>>)[i] # <<>>
         /\ Grown(words, Append(words, <<c>>))
         /\ Append(words, <<c>>)[Len(words) + 1] = <<c>>
         /\ \A k \in 1..Len(words) :
              LET more == [words EXCEPT ![k] = Append(@, c)] IN
              /\ more \in Words /\ Len(more) = Len(words)
              /\ \A i \in 1..Len(words) : more[i] # <<>>
              /\ Grown(words, more) /\ SaidOf(more, k, c)
<1>1. Len(words) \in Nat /\ \A i \in 1..Len(words) : words[i] \in Seq(Categories)
  BY DEF Words
<1>2. \A i \in 1..Len(words) : Len(words[i]) \in Nat
  BY <1>1
<1> DEFINE a == Append(words, <<c>>)
<1>3. a \in Words /\ Len(a) = Len(words) + 1 /\ a[Len(words) + 1] = <<c>>
      /\ \A i \in 1..Len(words) : a[i] = words[i]
  BY DEF Words
<1> HIDE DEF a
<1>4. \A i \in 1..(Len(words) + 1) : a[i] # <<>>
  BY <1>1, <1>3
<1>5. Grown(words, a)
  BY <1>1, <1>2, <1>3 DEF Grown
<1>6. ASSUME NEW k \in 1..Len(words)
      PROVE  LET more == [words EXCEPT ![k] = Append(@, c)] IN
             /\ more \in Words /\ Len(more) = Len(words)
             /\ \A i \in 1..Len(words) : more[i] # <<>>
             /\ Grown(words, more) /\ SaidOf(more, k, c)
  <2> DEFINE more == [words EXCEPT ![k] = Append(@, c)]
             b == Append(words[k], c)
  <2>1. b \in Seq(Categories) /\ Len(b) = Len(words[k]) + 1 /\ b[Len(words[k]) + 1] = c
        /\ \A n \in 1..Len(words[k]) : b[n] = words[k][n]
    BY <1>1
  <2>2. more = [i \in 1..Len(words) |-> IF i = k THEN b ELSE words[i]]
    <3>1. DOMAIN words = 1..Len(words)
      BY DEF Words
    <3>2. more = [i \in DOMAIN words |-> IF i = k THEN b ELSE words[i]]
      BY Zenon
    <3> QED  BY ONLY <3>1, <3>2
  <2> HIDE DEF b, more
  <2>3. more \in Words /\ Len(more) = Len(words)
    <3>1. \A i \in 1..Len(words) : (IF i = k THEN b ELSE words[i]) \in Seq(Categories)
      BY <1>1, <2>1
    <3>2. more \in [1..Len(words) -> Seq(Categories)]
      BY ONLY <3>1, <2>2
    <3>3. Len(words) \in Nat
      BY <1>1
    <3>4. more \in Seq(Seq(Categories))
      BY ONLY <3>2, <3>3
    <3>5. DOMAIN more = 1..Len(words)
      BY ONLY <3>2
    <3> QED  BY ONLY <3>3, <3>4, <3>5, SMTT(30) DEF Words
  <2>4. \A i \in 1..Len(words) : more[i] = IF i = k THEN b ELSE words[i]
    BY <2>2
  <2>5. \A i \in 1..Len(words) : more[i] # <<>>
    BY <1>2, <2>1, <2>4
  <2>6. Grown(words, more)
    BY <1>1, <1>2, <2>1, <2>3, <2>4 DEF Grown
  <2>7. Len(words[k]) + 1 \in 1..Len(more[k]) /\ more[k][Len(words[k]) + 1] = c
    BY <1>2, <2>1, <2>4
  <2>8. SaidOf(more, k, c)
    BY <2>3, <2>7 DEF SaidOf
  <2> QED  BY <2>3, <2>5, <2>6, <2>8 DEF more
<1> QED  BY <1>3, <1>4, <1>5, <1>6 DEF a

\* What a step leaves alone stays as it is.
LEMMA FormFrame ==
  /\ UNCHANGED <<stored, said>> /\ Records => Records'
  /\ UNCHANGED <<jobs, busyRef, held>> /\ Guarded => Guarded'
  /\ UNCHANGED <<said, saved, seen, jobs, overrides>> /\ Spoken => Spoken'
<1>1. ASSUME UNCHANGED <<stored, said>>, Records  PROVE Records'
  BY <1>1 DEF Records
<1>2. ASSUME UNCHANGED <<jobs, busyRef, held>>, Guarded  PROVE Guarded'
  BY <1>2 DEF Guarded
<1>3. ASSUME UNCHANGED <<said, saved, seen, jobs, overrides>>, Spoken  PROVE Spoken'
  BY <1>3 DEF Spoken
<1> QED  BY <1>1, <1>2, <1>3

\* The steps of the form itself: a commit, a photo, a category, a press.
LEMMA FormHandSteps ==
  ASSUME FormInv,
         \/ Commit \/ Capture \/ Save
         \/ \E c \in captures : CaptureLands(c)
         \/ \E c \in Categories : Pick(c) \/ Override(c)
  PROVE  FormInv'
<1> USE CategoriesAssumption, FormBoundsAssumption
<1>0. FormShape /\ Records /\ Guarded /\ Spoken
  BY DEF FormInit, FormInv
<1>1. NotSaved \in Items
  BY DEF NotSaved, Items, None
<1>2. CASE Commit
  <2>1. seen' = [image |-> image, category |-> category, saved |-> saved, busy |-> busyRef]
        /\ UNCHANGED <<image, category, saved, busyRef, taken, captures, jobs, held, overrides,
                       sent, stored, slips, said>>
    BY <1>2 DEF Commit, Fields
  <2>2. seen' \in [image : Photos \cup {None}, category : Categories, saved : Items, busy : BOOLEAN]
    BY <1>0, <2>1 DEF FormShape
  <2>3. FormShape'
    BY <1>0, <2>1, <2>2 DEF FormShape
  <2>4. seen'.saved = saved
    BY <2>1
  <2>5. Spoken'
    BY <1>0, <2>1, <2>4 DEF Spoken
  <2> QED  BY <1>0, <2>1, <2>3, <2>5, FormFrame DEF FormInv
<1>3. CASE Capture
  <2>1. taken < MaxPhotos /\ taken' = taken + 1 /\ captures' = captures \cup {taken + 1}
        /\ UNCHANGED <<image, category, saved, busyRef, seen, jobs, held, overrides, sent, stored,
                       slips, said>>
    BY <1>3 DEF Capture
  <2>2. taken' \in 0..MaxPhotos /\ captures' \subseteq 1..taken'
    BY <1>0, <2>1 DEF FormShape
  <2>3. FormShape'
    BY <1>0, <2>1, <2>2 DEF FormShape
  <2> QED  BY <1>0, <2>1, <2>3, FormFrame DEF FormInv
<1>4. CASE Save
  <2> DEFINE new == [image |-> seen.image, category |-> seen.category, part |-> "photo",
                     at |-> "open", reply |-> NotSaved]
  <2>1. ~busyRef /\ busyRef' = TRUE /\ jobs' = jobs \cup {new}
        /\ UNCHANGED <<image, category, saved, seen, taken, captures, held, overrides, sent, stored,
                       slips, said>>
    BY <1>4 DEF Save
  <2>2. new \in Jobs /\ new.at = "open"
    <3>1. seen.image \in Photos \cup {None} /\ seen.category \in Categories
      BY <1>0 DEF FormShape
    <3> QED  BY <1>1, <3>1 DEF Jobs
  <2> HIDE DEF new
  <2>3. jobs = {} /\ jobs' = {new}
    BY <1>0, <2>1 DEF Guarded
  <2>4. FormShape'
    BY <1>0, <2>1, <2>2, <2>3 DEF FormShape
  <2>5. Guarded'
    BY <1>0, <2>1, <2>2, <2>3 DEF Guarded
  <2>6. Spoken'
    BY <1>0, <2>1, <2>2, <2>3 DEF Spoken, JobTold
  <2> QED  BY <1>0, <2>1, <2>4, <2>5, <2>6, FormFrame DEF FormInv
<1>5. ASSUME NEW c \in captures, CaptureLands(c)  PROVE FormInv'
  <2>1. captures' = captures \ {c} /\ ((image' = c /\ saved' = NotSaved) \/ UNCHANGED <<image, saved>>)
        /\ UNCHANGED <<category, busyRef, seen, taken, jobs, held, overrides, sent, stored, slips, said>>
    BY <1>5 DEF CaptureLands
  <2>2. c \in Photos
    BY <1>0 DEF FormShape, Photos
  <2>3. FormShape'
    BY <1>0, <1>1, <2>1, <2>2 DEF FormShape
  <2>4. Spoken'
    BY <1>0, <2>1 DEF Spoken, Told
  <2> QED  BY <1>0, <2>1, <2>3, <2>4, FormFrame DEF FormInv
<1>6. ASSUME NEW c \in Categories, Pick(c)  PROVE FormInv'
  <2>1. category' = c /\ UNCHANGED <<image, saved, busyRef, seen, taken, captures, jobs, held,
                                     overrides, sent, stored, slips, said>>
    BY <1>6 DEF Pick
  <2>2. FormShape'
    BY <1>0, <2>1 DEF FormShape
  <2> QED  BY <1>0, <2>1, <2>2, FormFrame DEF FormInv
<1>7. ASSUME NEW c \in Categories, Override(c)  PROVE FormInv'
  <2> DEFINE new == [id |-> sent + 1, item |-> seen.saved.item, category |-> c, at |-> "sent"]
  <2>1. seen.saved.tagged /\ sent < MaxOverrides /\ sent' = sent + 1
        /\ overrides' = overrides \cup {new}
        /\ UNCHANGED <<image, category, saved, busyRef, seen, taken, captures, jobs, held, stored,
                       slips, said>>
    BY <1>7 DEF Override
  <2>2. seen.saved # NotSaved
    BY <2>1 DEF NotSaved
  <2>3. seen.saved.item \in 1..Len(said)
    BY <1>0, <2>2 DEF Spoken, Told, SaidOf
  <2>4. seen.saved.item \in Nat \ {0} /\ sent + 1 \in Nat /\ sent' \in 0..MaxOverrides
    BY <1>0, <2>1, <2>3 DEF FormShape, Records
  <2>5. new \in Corrections
    BY <2>4 DEF Corrections
  <2>6. CorrectionTold(said, new)
    BY <2>3 DEF CorrectionTold
  <2> HIDE DEF new
  <2>7. FormShape'
    BY <1>0, <2>1, <2>4, <2>5 DEF FormShape
  <2>8. Spoken'
    BY <1>0, <2>1, <2>6 DEF Spoken
  <2> QED  BY <1>0, <2>1, <2>7, <2>8, FormFrame DEF FormInv
<1> QED  BY <1>2, <1>3, <1>4, <1>5, <1>6, <1>7

\* The one save under way becomes another one, or none.
LEMMA OneJob ==
  ASSUME Guarded, NEW j \in jobs
  PROVE  /\ jobs = {j} /\ busyRef
         /\ j.at \notin {"render", "write"} => held = {}
         /\ \A k : (jobs \ {j}) \cup {k} = {k}
         /\ jobs \ {j} = {}
<1>1. jobs = {j} /\ busyRef
  BY DEF Guarded
<1>2. j.at \notin {"render", "write"} => held = {}
  BY <1>1 DEF Guarded
<1> QED  BY <1>1, <1>2

\* A save goes on: its photo, its thumbnail, what is native of both.
LEMMA FormImageSteps ==
  ASSUME FormInv, NEW j \in jobs,
         OpenContext(j) \/ RenderBitmap(j) \/ WriteJpeg(j) \/ ImageFails(j)
  PROVE  FormInv'
<1>0. FormShape /\ Records /\ Guarded /\ Spoken
  BY DEF FormInv
<1>1. /\ jobs = {j} /\ busyRef /\ j \in Jobs /\ JobTold(said, j)
      /\ \A k : (jobs \ {j}) \cup {k} = {k}
  BY <1>0, OneJob DEF FormShape, Spoken
<1> DEFINE Moves(k) == /\ jobs' = {k} /\ k \in Jobs /\ k.at # "stored"
                       /\ k.at \notin {"render", "write"} => held' = {}
<1>2. /\ held' \subseteq {"context", "bitmap"} /\ slips' \in 0..MaxSlips
      /\ UNCHANGED <<image, category, saved, busyRef, seen, taken, captures, overrides, sent,
                     stored, said>>
      /\ \E k : Moves(k)
  <2>0. held \subseteq {"context", "bitmap"} /\ slips \in 0..MaxSlips
    BY <1>0 DEF FormShape
  <2>1. CASE OpenContext(j)
    <3> DEFINE k == [j EXCEPT !.at = "render"]
    <3>1. held' = held \cup {"context"} /\ jobs' = (jobs \ {j}) \cup {k}
          /\ UNCHANGED <<image, category, saved, busyRef, seen, taken, captures, overrides, sent,
                         stored, slips, said>>
      BY Zenon, <2>1 DEF OpenContext, Becomes
    <3>2. k \in Jobs /\ k.at = "render"
      BY <1>1 DEF Jobs
    <3> HIDE DEF k
    <3>3. Moves(k)
      BY <1>1, <3>1, <3>2
    <3> QED  BY <2>0, <3>1, <3>3
  <2>2. CASE RenderBitmap(j)
    <3> DEFINE k == [j EXCEPT !.at = "write"]
    <3>1. held' = held \cup {"bitmap"} /\ jobs' = (jobs \ {j}) \cup {k}
          /\ UNCHANGED <<image, category, saved, busyRef, seen, taken, captures, overrides, sent,
                         stored, slips, said>>
      BY Zenon, <2>2 DEF RenderBitmap, Becomes
    <3>2. k \in Jobs /\ k.at = "write"
      BY <1>1 DEF Jobs
    <3> HIDE DEF k
    <3>3. Moves(k)
      BY <1>1, <3>1, <3>2
    <3> QED  BY <2>0, <3>1, <3>3
  <2>3. Continued(j) \in Jobs /\ Continued(j).at \in {"open", "post"}
    BY <1>1 DEF Continued, Jobs
  <2>4. CASE WriteJpeg(j)
    <3>1. held' = {} /\ jobs' = (jobs \ {j}) \cup {Continued(j)}
          /\ UNCHANGED <<image, category, saved, busyRef, seen, taken, captures, overrides, sent,
                         stored, slips, said>>
      BY Zenon, <2>4 DEF WriteJpeg, Becomes
    <3>2. Moves(Continued(j))
      BY <1>1, <2>3, <3>1
    <3> QED  BY <2>0, <3>1, <3>2
  <2>5. CASE ImageFails(j)
    <3> DEFINE k == [j EXCEPT !.at = "failed"]
    <3>1. held' = {} /\ jobs' = (jobs \ {j}) \cup {IF j.part = "photo" THEN k ELSE Continued(j)}
          /\ slips < MaxSlips /\ slips' = slips + 1
          /\ UNCHANGED <<image, category, saved, busyRef, seen, taken, captures, overrides, sent,
                         stored, said>>
      BY Zenon, <2>5 DEF ImageFails, Becomes, Slip
    <3>2. k \in Jobs /\ k.at = "failed"
      BY <1>1 DEF Jobs
    <3> HIDE DEF k
    <3>3. Moves(IF j.part = "photo" THEN k ELSE Continued(j))
      BY <1>1, <2>3, <3>1, <3>2
    <3>4. slips' \in 0..MaxSlips
      BY <2>0, <3>1, FormBoundsAssumption
    <3> QED  BY <3>1, <3>3, <3>4
  <2> HIDE DEF Moves
  <2> QED  BY <2>1, <2>2, <2>4, <2>5
<1>3. PICK k : Moves(k)
  BY <1>2
<1>4. FormShape'
  BY <1>0, <1>2, <1>3 DEF FormShape
<1>5. Guarded'
  BY <1>1, <1>2, <1>3 DEF Guarded
<1>6. Spoken'
  BY <1>0, <1>2, <1>3 DEF Spoken, JobTold
<1> QED  BY <1>0, <1>2, <1>4, <1>5, <1>6, FormFrame DEF FormInv

\* The request, which stores an item and says its first word of it, or fails
\* before that or after it; and the end of a save.
LEMMA FormSaveSteps ==
  ASSUME FormInv, NEW j \in jobs, Upload(j) \/ FinishSave(j)
  PROVE  FormInv'
<1> USE CategoriesAssumption, FormBoundsAssumption
<1>0. FormShape /\ Records /\ Guarded /\ Spoken
  BY DEF FormInv
<1>1. /\ jobs = {j} /\ busyRef /\ j \in Jobs /\ JobTold(said, j)
      /\ \A k : (jobs \ {j}) \cup {k} = {k}
      /\ jobs \ {j} = {} /\ (j.at \notin {"render", "write"} => held = {})
  BY <1>0, OneJob DEF FormShape, Spoken
<1>2. CASE FinishSave(j)
  <2>1. jobs' = {} /\ busyRef' = FALSE
        /\ (IF j.at = "stored" THEN image' = None /\ category' = First /\ saved' = j.reply
              ELSE UNCHANGED <<image, category, saved>>)
        /\ UNCHANGED <<seen, taken, captures, held, overrides, sent, stored, slips, said>>
        /\ j.at \in {"stored", "failed"}
    BY <1>1, <1>2 DEF FinishSave
  <2>2. j.reply \in Items /\ None \in Photos \cup {None}
    BY <1>1 DEF Jobs
  <2>3. FormShape'
    BY <1>0, <2>1, <2>2 DEF FormShape
  <2>4. Guarded'
    BY <1>1, <2>1 DEF Guarded
  <2>5. Told(said, saved')
    BY <1>0, <1>1, <2>1 DEF Spoken, JobTold
  <2>6. Spoken'
    BY <1>0, <2>1, <2>5 DEF Spoken
  <2> QED  BY <1>0, <2>1, <2>3, <2>4, <2>6, FormFrame DEF FormInv
<1>3. CASE Upload(j)
  <2>1. PICK tag \in Categories \cup {NoTag} :
          LET row == [item |-> Len(stored) + 1, category |-> IF tag = NoTag THEN j.category ELSE tag,
                      tagged |-> tag # NoTag, overridden |-> FALSE]
              Insert == /\ stored' = Append(stored, [image |-> j.image, category |-> row.category])
                        /\ said' = Append(said, <<row.category>>)
          IN \/ Insert /\ Becomes(j, [j EXCEPT !.at = "stored", !.reply = row]) /\ UNCHANGED slips
             \/ /\ Slip /\ Becomes(j, [j EXCEPT !.at = "failed"])
                /\ Insert \/ UNCHANGED <<stored, said>>
    BY Zenon, <1>3 DEF Upload
  <2>2. j.at = "post" /\ Len(stored) < MaxItems
        /\ UNCHANGED <<image, category, saved, busyRef, seen, taken, captures, held, overrides, sent>>
    BY <1>3 DEF Upload
  <2> DEFINE name == IF tag = NoTag THEN j.category ELSE tag
             row == [item |-> Len(stored) + 1, category |-> name,
                     tagged |-> tag # NoTag, overridden |-> FALSE]
             kept == [j EXCEPT !.at = "stored", !.reply = row]
             lost == [j EXCEPT !.at = "failed"]
             more == Append(said, <<name>>)
  <2>3. name \in Categories /\ Len(stored) \in Nat /\ Len(said) = Len(stored)
    <3>1. j.category \in Categories /\ Len(stored) \in Nat /\ Len(said) = Len(stored)
      BY <1>0, <1>1 DEF Jobs, Records
    <3> QED  BY <3>1, <2>1
  <2>4. row \in Items /\ row # NotSaved
    <3>1. row.item \in 0..MaxItems /\ row.item # None
      BY <2>2, <2>3 DEF None
    <3> QED  BY <2>3, <3>1 DEF Items, NotSaved
  <2>5. kept \in Jobs /\ kept.at = "stored" /\ kept.reply = row
    <3> HIDE DEF row
    <3> QED  BY <1>1, <2>4 DEF Jobs
  <2>6. lost \in Jobs /\ lost.at = "failed"
    BY <1>1 DEF Jobs
  <2>7. /\ row.item = Len(said) + 1 /\ row.category = name /\ row.overridden = FALSE
    BY <2>3
  <2>8. /\ \/ stored' = Append(stored, [image |-> j.image, category |-> name]) /\ said' = more
           \/ UNCHANGED <<stored, said>>
        /\ \/ jobs' = {kept} /\ said' = more /\ slips' = slips
           \/ jobs' = {lost} /\ slips < MaxSlips /\ slips' = slips + 1
    <3>1. row.category = name
      OBVIOUS
    <3> HIDE DEF name
    <3> QED  BY <1>1, <2>1, <3>1 DEF Becomes, Slip, name
  <2> HIDE DEF name, row, kept, lost
  <2>9. said \in Words /\ \A i \in 1..Len(said) : said[i] # <<>>
    BY <1>0 DEF Records, Words
  <2>10. /\ more \in Words /\ Len(more) = Len(said) + 1 /\ more[Len(said) + 1] = <<name>>
         /\ \A i \in 1..(Len(said) + 1) : more[i] # <<>>
         /\ Grown(said, more)
    BY <2>3, <2>9, WordsGrow
  <2> HIDE DEF more
  <2>11. Told(more, row)
    <3>1. Len(said) \in Nat /\ Len(more[Len(said) + 1]) = 1 /\ more[Len(said) + 1][1] = name
      BY <2>3, <2>10
    <3> QED  BY <2>7, <2>10, <3>1 DEF Told, SaidOf
  <2>12. Records'
    <3>1. CASE UNCHANGED <<stored, said>>
      BY <1>0, <3>1, FormFrame
    <3>2. CASE stored' = Append(stored, [image |-> j.image, category |-> name]) /\ said' = more
      <4> DEFINE e == [image |-> j.image, category |-> name]
                 T == [image : Photos \cup {None}, category : Categories]
      <4>1. e \in T
        BY <1>1, <2>3 DEF Jobs
      <4>2. stored \in Seq(T)
        BY <1>0 DEF Records
      <4> HIDE DEF e, T
      <4>3. Append(stored, e) \in Seq(T) /\ Len(Append(stored, e)) = Len(stored) + 1
        BY <4>1, <4>2
      <4>4. stored' \in Seq(T) /\ Len(stored') = Len(stored) + 1
        BY <3>2, <4>3 DEF e
      <4>5. Len(stored') <= MaxItems /\ Len(said') = Len(stored')
        BY <2>2, <2>3, <2>10, <3>2, <4>4
      <4>6. \A i \in 1..Len(said') : said'[i] # <<>>
        BY <2>10, <3>2
      <4> QED  BY <2>10, <3>2, <4>4, <4>5, <4>6 DEF Records, T, Words
    <3> QED  BY <2>8, <3>1, <3>2
  <2>13. FormShape'
    <3>1. jobs' \subseteq Jobs /\ slips' \in 0..MaxSlips
      BY <1>0, <2>5, <2>6, <2>8 DEF FormShape
    <3> QED  BY <1>0, <2>2, <3>1 DEF FormShape
  <2>14. Guarded'
    BY <1>1, <2>2, <2>8 DEF Guarded
  <2>15. Spoken'
    <3>1. /\ \A s : Told(said, s) => Told(said', s)
          /\ \A o : CorrectionTold(said, o) => CorrectionTold(said', o)
      <4>1. CASE said' = more
        BY <2>9, <2>10, <4>1, GrownTells
      <4> QED  BY <2>8, <4>1
    <3>2. Told(said', saved') /\ Told(said', seen.saved)
      BY <1>0, <2>2, <3>1 DEF Spoken
    <3>3. \A o \in overrides' : CorrectionTold(said', o)
      BY <1>0, <2>2, <3>1 DEF Spoken
    <3>4. \A k \in jobs' : JobTold(said', k)
      BY <2>4, <2>5, <2>6, <2>8, <2>11 DEF JobTold
    <3> QED  BY <2>2, <3>2, <3>3, <3>4 DEF Spoken
  <2> QED  BY <2>12, <2>13, <2>14, <2>15 DEF FormInv
<1> QED  BY <1>2, <1>3

\* A correction is written or not, and is told or not.
LEMMA FormCorrectionSteps ==
  ASSUME FormInv, NEW o \in overrides, ServeOverride(o) \/ OverrideLands(o)
  PROVE  FormInv'
<1> USE FormBoundsAssumption
<1>0. FormShape /\ Records /\ Guarded /\ Spoken
  BY DEF FormInv
<1>1. o \in Corrections /\ CorrectionTold(said, o) /\ o.item \in 1..Len(said)
  BY <1>0 DEF FormShape, Spoken, CorrectionTold
<1>2. CASE OverrideLands(o)
  <2> DEFINE row == [item |-> o.item, category |-> o.category, tagged |-> TRUE, overridden |-> TRUE]
  <2>1. overrides' = overrides \ {o} /\ saved' = (IF o.at = "written" THEN row ELSE saved)
        /\ UNCHANGED <<image, category, busyRef, seen, taken, captures, jobs, held, sent, stored,
                       slips, said>>
    BY <1>2 DEF OverrideLands
  <2>2. row \in Items
    <3>1. o.item \in 0..MaxItems /\ o.category \in Categories
      BY <1>0, <1>1 DEF Records, Corrections
    <3> QED  BY <3>1 DEF Items
  <2>3. o.at = "written" => Told(said, row)
    <3>1. row.item = o.item /\ row.category = o.category /\ row.overridden = TRUE
      OBVIOUS
    <3> HIDE DEF row
    <3> QED  BY <1>1, <3>1 DEF Told, CorrectionTold
  <2> HIDE DEF row
  <2>4. FormShape'
    BY <1>0, <2>1, <2>2 DEF FormShape
  <2>5. Spoken'
    <3>1. Told(said, saved')
      BY <1>0, <2>1, <2>3 DEF Spoken
    <3> QED  BY <1>0, <2>1, <3>1 DEF Spoken
  <2> QED  BY <1>0, <2>1, <2>4, <2>5, FormFrame DEF FormInv
<1>3. CASE ServeOverride(o)
  <2> DEFINE row == [stored[o.item] EXCEPT !.category = o.category]
             rows == [stored EXCEPT ![o.item] = row]
             more == [said EXCEPT ![o.item] = Append(@, o.category)]
             done == [o EXCEPT !.at = "written"]
             lost == [o EXCEPT !.at = "failed"]
  <2>1. /\ \/ /\ stored' = [stored EXCEPT ![o.item].category = o.category]
              /\ said' = more /\ UNCHANGED slips
              /\ overrides' = (overrides \ {o}) \cup {done}
           \/ /\ Slip
              /\ \/ stored' = [stored EXCEPT ![o.item].category = o.category] /\ said' = more
                 \/ UNCHANGED <<stored, said>>
              /\ overrides' = (overrides \ {o}) \cup {lost}
        /\ UNCHANGED <<image, category, saved, busyRef, seen, taken, captures, jobs, held, sent>>
    BY Zenon, <1>3 DEF ServeOverride
  <2>2. [stored EXCEPT ![o.item].category = o.category] = rows
    BY Zenon
  <2>3. done \in Corrections /\ done.at = "written" /\ done.item = o.item /\ done.category = o.category
    BY <1>1 DEF Corrections
  <2>4. lost \in Corrections /\ lost.at = "failed" /\ lost.item = o.item
    BY <1>1 DEF Corrections
  <2>5. said \in Words /\ (\A i \in 1..Len(said) : said[i] # <<>>) /\ o.category \in Categories
    BY <1>0, <1>1 DEF Records, Words, Corrections
  <2>6. /\ more \in Words /\ Len(more) = Len(said)
        /\ \A i \in 1..Len(said) : more[i] # <<>>
        /\ Grown(said, more) /\ SaidOf(more, o.item, o.category)
    BY <1>1, <2>5, WordsGrow
  <2>7. rows \in Seq([image : Photos \cup {None}, category : Categories]) /\ Len(rows) = Len(stored)
    <3> DEFINE T == [image : Photos \cup {None}, category : Categories]
    <3>1. stored \in Seq(T) /\ o.item \in 1..Len(stored)
      BY <1>0, <1>1 DEF Records
    <3> HIDE DEF T, row
    <3>2. stored[o.item] \in T
      BY ONLY <3>1
    <3>3. row \in T
      BY <3>2, <2>5 DEF T, row
    <3> QED  BY <3>1, <3>3 DEF T
  <2> HIDE DEF row, rows, more, done, lost
  <2>8. \/ stored' = rows /\ said' = more
        \/ UNCHANGED <<stored, said>>
    BY <2>1, <2>2
  <2>9. \/ said' = more /\ overrides' = (overrides \ {o}) \cup {done} /\ UNCHANGED slips
        \/ slips < MaxSlips /\ slips' = slips + 1 /\ overrides' = (overrides \ {o}) \cup {lost}
    BY <2>1 DEF Slip
  <2>10. Records'
    <3>1. CASE UNCHANGED <<stored, said>>
      BY <1>0, <3>1, FormFrame
    <3>2. CASE stored' = rows /\ said' = more
      BY <1>0, <2>6, <2>7, <3>2 DEF Records, Words
    <3> QED  BY <2>8, <3>1, <3>2
  <2>11. FormShape'
    <3>1. slips' \in 0..MaxSlips
      BY <1>0, <2>9 DEF FormShape
    <3>2. overrides' \subseteq Corrections
      BY <1>0, <2>3, <2>4, <2>9 DEF FormShape
    <3> QED  BY <1>0, <2>1, <3>1, <3>2 DEF FormShape
  <2>12. /\ Len(said') = Len(said)
         /\ \A s : Told(said, s) => Told(said', s)
         /\ \A k : JobTold(said, k) => JobTold(said', k)
         /\ \A p : CorrectionTold(said, p) => CorrectionTold(said', p)
    <3>1. CASE said' = more
      BY <2>5, <2>6, <3>1, GrownTells
    <3> QED  BY <2>8, <3>1
  <2>13. Spoken'
    <3>1. Told(said', saved') /\ Told(said', seen.saved) /\ \A k \in jobs' : JobTold(said', k)
      BY <1>0, <2>1, <2>12 DEF Spoken
    <3>2. CorrectionTold(said', lost)
      BY <1>1, <2>4, <2>12 DEF CorrectionTold
    <3>3. said' = more => CorrectionTold(said', done)
      BY <1>1, <2>3, <2>6 DEF CorrectionTold
    <3>4. \A p \in overrides' : CorrectionTold(said', p)
      BY <1>0, <2>9, <2>12, <3>2, <3>3 DEF Spoken
    <3> QED  BY <2>1, <3>1, <3>4 DEF Spoken
  <2> QED  BY <1>0, <2>1, <2>10, <2>11, <2>13, FormFrame DEF FormInv
<1> QED  BY <1>2, <1>3

\* Every step of the tab keeps the form's invariant.
LEMMA FormInvStep ==
  ASSUME FormInv, FormNext \/ UNCHANGED formVars  PROVE FormInv'
<1>1. CASE FormNext
  BY <1>1, FormHandSteps, FormImageSteps, FormSaveSteps, FormCorrectionSteps DEF FormNext
<1>2. CASE UNCHANGED formVars
  BY <1>2 DEF FormInv, FormShape, Records, Guarded, Spoken, formVars
<1> QED  BY <1>1, <1>2

\* One upload at a time, nothing native left behind, and claims that hold.
LEMMA FormHolds ==
  ASSUME FormInv  PROVE FormTypeOK /\ OneUploadAtATime /\ NothingHeld /\ ClaimsAreStored
<1>1. OneUploadAtATime
  <2>1. CASE jobs = {}
    BY <2>1, FS_EmptySet DEF OneUploadAtATime
  <2>2. CASE jobs # {}
    <3>1. PICK j \in jobs : TRUE
      BY <2>2
    <3>2. jobs = {j}
      BY <3>1 DEF FormInv, Guarded
    <3>3. Cardinality({j}) = 1
      BY FS_Singleton
    <3> QED  BY <3>2, <3>3 DEF OneUploadAtATime
  <2> QED  BY <2>1, <2>2
<1>2. NothingHeld
  BY DEF FormInv, Guarded, NothingHeld
<1>3. ClaimsAreStored
  <2> SUFFICES ASSUME saved # NotSaved
               PROVE  /\ \E n \in DOMAIN said[saved.item] : said[saved.item][n] = saved.category
                      /\ ~saved.overridden => said[saved.item][1] = saved.category
    BY DEF ClaimsAreStored
  <2>1. SaidOf(said, saved.item, saved.category)
        /\ (~saved.overridden => said[saved.item][1] = saved.category)
    BY DEF FormInv, Spoken, Told
  <2>2. said[saved.item] \in Seq(Categories)
    BY <2>1 DEF FormInv, Records, SaidOf
  <2>3. DOMAIN said[saved.item] = 1..Len(said[saved.item])
    BY <2>2
  <2> QED  BY <2>1, <2>3 DEF SaidOf
<1> QED  BY <1>1, <1>2, <1>3, FormTypes

\* A photo leaves the form by an upload that succeeded.
LEMMA PhotoStays ==
  ASSUME FormInv, FormNext \/ UNCHANGED formVars, image # None, image' = None
  PROVE  \E j \in jobs \ jobs' : j.at = "stored"
<1>1. PICK j \in jobs : FinishSave(j)
  <2>1. ASSUME NEW c \in captures, CaptureLands(c)  PROVE FALSE
    <3>1. image' = c \/ image' = image
      BY <2>1 DEF CaptureLands
    <3>2. c # 0
      BY DEF FormInv, FormShape
    <3> QED  BY <3>1, <3>2 DEF None
  <2>2. ASSUME UNCHANGED image  PROVE FALSE
    BY <2>2
  <2>3. ASSUME Commit \/ Capture \/ Save  PROVE FALSE
    BY <2>3 DEF Commit, Capture, Save
  <2>4. ASSUME NEW c \in Categories, Pick(c) \/ Override(c)  PROVE FALSE
    BY <2>4 DEF Pick, Override
  <2>5. ASSUME NEW j \in jobs, OpenContext(j) \/ RenderBitmap(j) \/ WriteJpeg(j) \/ ImageFails(j)
               \/ Upload(j)
        PROVE  FALSE
    BY Zenon, <2>5 DEF OpenContext, RenderBitmap, WriteJpeg, ImageFails, Upload
  <2>6. ASSUME NEW o \in overrides, ServeOverride(o) \/ OverrideLands(o)  PROVE FALSE
    BY Zenon, <2>6 DEF ServeOverride, OverrideLands
  <2>7. ASSUME UNCHANGED formVars  PROVE FALSE
    BY <2>7 DEF formVars
  <2> QED  BY <2>1, <2>3, <2>4, <2>5, <2>6, <2>7 DEF FormNext
<1>2. jobs' = jobs \ {j} /\ j.at = "stored"
  BY <1>1 DEF FinishSave
<1> QED  BY <1>2

----------------------------------------------------------------------------
(***************************************************************************)
(* The rule engine.                                                        *)
(***************************************************************************)
Optional == {"shoes", "outerwear", "extra"}

\* A category is in one slot; and the slots that are gated are two.
LEMMA Slots ==
  ASSUME NEW w, IsShelf(w), NEW g \in DOMAIN w.category
  PROVE  /\ Slot(w, g) = "top" <=> w.category[g] \in {"tshirt", "shirt"}
         /\ Slot(w, g) = "bottom" <=> w.category[g] \in {"trousers", "shorts", "skirt"}
         /\ Slot(w, g) = "dress" <=> w.category[g] = "dress"
         /\ Slot(w, g) \in {"outerwear", "extra"}
              <=> w.category[g] \in {"jacket", "accessory", "other"}
<1> DEFINE D == {"top", "bottom", "dress", "shoes", "outerwear", "extra"}
           c == w.category[g]
<1>1. /\ DOMAIN SlotCategories = D
      /\ SlotCategories["top"] = {"tshirt", "shirt"}
      /\ SlotCategories["bottom"] = {"trousers", "shorts", "skirt"}
      /\ SlotCategories["dress"] = {"dress"} /\ SlotCategories["shoes"] = {"shoes"}
      /\ SlotCategories["outerwear"] = {"jacket"}
      /\ SlotCategories["extra"] = {"accessory", "other"}
  BY DEF SlotCategories
<1>2. \E s \in D : c \in SlotCategories[s]
  BY <1>1 DEF IsShelf, KnownCategories
<1>3. Slot(w, g) = CHOOSE s \in D : c \in SlotCategories[s]
  BY <1>1 DEF Slot
<1>4. Slot(w, g) \in D /\ c \in SlotCategories[Slot(w, g)]
  BY <1>2, <1>3
<1> HIDE DEF c
<1>5. Slot(w, g) \in {"top", "bottom", "dress", "shoes", "outerwear", "extra"}
  BY <1>4
<1>6. CASE Slot(w, g) = "top"
  BY <1>1, <1>4, <1>6 DEF c
<1>7. CASE Slot(w, g) = "bottom"
  BY <1>1, <1>4, <1>7 DEF c
<1>8. CASE Slot(w, g) = "dress"
  BY <1>1, <1>4, <1>8 DEF c
<1>9. CASE Slot(w, g) = "shoes"
  BY <1>1, <1>4, <1>9 DEF c
<1>10. CASE Slot(w, g) = "outerwear"
  BY <1>1, <1>4, <1>10 DEF c
<1>11. CASE Slot(w, g) = "extra"
  BY <1>1, <1>4, <1>11 DEF c
<1> QED  BY <1>5, <1>6, <1>7, <1>8, <1>9, <1>10, <1>11

\* What the two templates say.
LEMMA Templates ==
  /\ ToSet(OutfitTemplates) = {OutfitTemplates[1], OutfitTemplates[2]}
  /\ OutfitTemplates[1].required = <<"top", "bottom">> /\ OutfitTemplates[2].required = <<"dress">>
  /\ \A t \in ToSet(OutfitTemplates) : t.optional = <<"shoes", "outerwear", "extra">>
  /\ GatedOptionalSlots = {"outerwear", "extra"}
  /\ \A t \in ToSet(OutfitTemplates) :
       DOMAIN t.required = 1..Len(t.required) /\ Len(t.required) \in 1..2
  /\ OutfitTemplates[1].required[1] = "top" /\ OutfitTemplates[1].required[2] = "bottom"
  /\ OutfitTemplates[2].required[1] = "dress"
  /\ Len(OutfitTemplates[1].required) = 2 /\ Len(OutfitTemplates[2].required) = 1
<1>1. DOMAIN OutfitTemplates = 1..2
  BY DEF OutfitTemplates
<1>2. ToSet(OutfitTemplates) = {OutfitTemplates[1], OutfitTemplates[2]}
  <2>1. 1..2 = {1, 2}
    OBVIOUS
  <2> QED  BY <1>1, <2>1 DEF ToSet
<1>3. OutfitTemplates[1].required = <<"top", "bottom">> /\ OutfitTemplates[2].required = <<"dress">>
  BY DEF OutfitTemplates
<1>4. \A t \in ToSet(OutfitTemplates) : t.optional = <<"shoes", "outerwear", "extra">>
  BY <1>2 DEF OutfitTemplates
<1>5. GatedOptionalSlots = {"outerwear", "extra"}
  <2>1. ToSet(<<"shoes", "outerwear", "extra">>) = Optional
    <3>1. DOMAIN <<"shoes", "outerwear", "extra">> = {1, 2, 3}
      BY DOMAIN <<"shoes", "outerwear", "extra">> = 1..3
    <3> QED  BY <3>1 DEF ToSet, Optional
  <2>2. UNION {ToSet(t.optional) : t \in ToSet(OutfitTemplates)} = Optional
    BY <1>2, <1>4, <2>1
  <2>3. GatedOptionalSlots = Optional \ {"shoes"}
    BY Zenon, <2>2 DEF GatedOptionalSlots, AlwaysFilledSlots
  <2> QED  BY <2>3 DEF Optional
<1> DEFINE two == <<"top", "bottom">>
           one == <<"dress">>
<1>6. /\ DOMAIN two = 1..2 /\ Len(two) = 2 /\ two[1] = "top" /\ two[2] = "bottom"
      /\ DOMAIN one = 1..1 /\ Len(one) = 1 /\ one[1] = "dress"
  OBVIOUS
<1>7. OutfitTemplates[1].required = two /\ OutfitTemplates[2].required = one
  BY <1>3
<1> HIDE DEF one, two
<1>8. 1 \in 1..2 /\ 2 \in 1..2
  OBVIOUS
<1>9. ASSUME NEW t \in ToSet(OutfitTemplates)
      PROVE  DOMAIN t.required = 1..Len(t.required) /\ Len(t.required) \in 1..2
  <2>1. t.required = two \/ t.required = one
    BY <1>2, <1>7
  <2> QED  BY ONLY <2>1, <1>6, <1>8
<1> QED  BY <1>2, <1>3, <1>4, <1>5, <1>6, <1>7, <1>9

\* A pool is of eligible garments, and empty only if there are none.
LEMMA Pools ==
  ASSUME NEW w, IsShelf(w), NEW S \in SUBSET DOMAIN w.category, NEW slot, NEW z
  PROVE  /\ Pool(w, S, slot, z) \subseteq S
         /\ \A g \in Pool(w, S, slot, z) : Eligible(w, g, slot, z)
         /\ \A g \in S : Eligible(w, g, slot, z) => Pool(w, S, slot, z) # {}
<1> DEFINE E == {g \in S : Eligible(w, g, slot, z)}
<1>1. Pool(w, S, slot, z) = {g \in E : Cardinality({h \in E : h < g}) < MaxItemsPerSlot}
  BY DEF Pool
<1>2. ASSUME NEW g \in E  PROVE Pool(w, S, slot, z) # {}
  <2>1. E \in SUBSET Nat /\ IsFiniteSet(E) /\ E # {}
    <3>1. E \subseteq DOMAIN w.category
      OBVIOUS
    <3> HIDE DEF E
    <3> QED  BY <1>2, <3>1, FS_Subset DEF IsShelf
  <2> HIDE DEF E
  <2>2. Min(E) \in E /\ \A p \in E : Min(E) <= p
    BY <2>1, LeastOfFinite
  <2>3. {h \in E : h < Min(E)} = {}
    <3>1. \A p \in E : p \in Int
      BY <2>1
    <3> QED  BY <2>2, <3>1
  <2>4. Cardinality({h \in E : h < Min(E)}) < MaxItemsPerSlot
    BY <2>3, FS_EmptySet, SlotAssumption
  <2> QED  BY <1>1, <2>2, <2>4
<1> QED  BY <1>1, <1>2

\* A garment that earns a place does by some relation with what is chosen.
LEMMA Earned ==
  ASSUME NEW w, NEW slot, slot \notin AlwaysFilledSlots, NEW T, NEW c \in Seq(T), NEW g,
         Earns(w, slot, g, c)
  PROVE  \E j \in 1..Len(c) : Relation(w, g, c[j]) # "none"
<1> SUFFICES ASSUME \A j \in 1..Len(c) : Relation(w, g, c[j]) = "none"  PROVE FALSE
  OBVIOUS
<1> DEFINE s == ScoresAgainst(w, g, c)
           Times(n) == {i \in DOMAIN s : s[i] = n}
<1>1. Len(c) \in Nat /\ DOMAIN c = 1..Len(c)
  OBVIOUS
<1>2. DOMAIN s = 1..Len(c) /\ \A i \in 1..Len(c) : s[i] = 7
  <2>1. Twentieths["none"] = 7
    BY DEF Twentieths
  <2>2. \A i \in 1..Len(c) : Score(w, g, c[i]) = 7
    BY <2>1 DEF Score
  <2> QED  BY <1>1, <2>2 DEF ScoresAgainst
<1>3. Total(s) = 20 * Cardinality(Times(20)) + 14 * Cardinality(Times(14)) + 7 * Cardinality(Times(7))
  BY DEF Total
<1>4. Total(s) > 7 * Len(c)
  BY DEF Earns, Twentieths
<1> HIDE DEF s
<1>5. Times(20) = {} /\ Times(14) = {} /\ Times(7) = 1..Len(c)
  BY <1>2
<1>6. Cardinality({}) = 0
  BY FS_EmptySet
<1>7. Cardinality(1..Len(c)) = Len(c)
  <2>1. 1 \in Int /\ Len(c) \in Int /\ (1 > Len(c) => Len(c) = 0)
    BY <1>1
  <2>2. Cardinality(1..Len(c)) = IF 1 > Len(c) THEN 0 ELSE Len(c) - 1 + 1
    BY ONLY <2>1, FS_Interval
  <2> QED  BY ONLY <2>1, <2>2
<1>8. Cardinality(Times(20)) = 0 /\ Cardinality(Times(14)) = 0 /\ Cardinality(Times(7)) = Len(c)
  BY Zenon, <1>5, <1>6, <1>7
<1> HIDE DEF Times
<1>9. Total(s) = 7 * Len(c)
  BY <1>1, <1>3, <1>8
<1> QED  BY <1>1, <1>4, <1>9

\* The place a garment has in an outfit: it was required, or it was added for
\* an optional slot, to which it belongs, for what is before it.
Belongs(w, S, slot, z, g) == g \in S /\ Eligible(w, g, slot, z)
AddedAt(w, S, z, ids, k) ==
  \E slot \in Optional :
    /\ Belongs(w, S, slot, z, ids[k])
    /\ slot \in AlwaysFilledSlots \/ \E j \in 1..(k - 1) : Relation(w, ids[k], ids[j]) # "none"

\* What is put on a base of n garments.
Grows(w, S, z, n, ids) ==
  /\ ids \in Seq(S) /\ Len(ids) >= n
  /\ \A k \in (n + 1)..Len(ids) : AddedAt(w, S, z, ids, k)

\* A slot that is filled adds a garment that belongs there.
LEMMA FilledGrows ==
  ASSUME NEW w, IsShelf(w), NEW S \in SUBSET DOMAIN w.category, NEW z, NEW slot \in Optional,
         NEW n \in Nat, NEW ids, Grows(w, S, z, n, ids)
  PROVE  /\ Grows(w, S, z, n, Filled(w, ids, slot, Pool(w, S, slot, z)))
         /\ \A k \in 1..n : Filled(w, ids, slot, Pool(w, S, slot, z))[k] = ids[k]
<1> DEFINE pool == Pool(w, S, slot, z)
           earners == {g \in BestCandidates(w, pool, ids) : Earns(w, slot, g, ids)}
           g == CHOOSE x \in earners : TRUE
           more == Append(ids, g)
<1>1. Filled(w, ids, slot, pool) = IF earners = {} THEN ids ELSE more
  BY DEF Filled
<1>2. CASE earners = {}
  BY <1>1, <1>2
<1>3. CASE earners # {}
  <2>1. g \in earners
    BY <1>3
  <2>2. g \in pool /\ Earns(w, slot, g, ids)
    BY <2>1 DEF BestCandidates
  <2>3. Belongs(w, S, slot, z, g)
    BY <2>2, Pools DEF Belongs
  <2> HIDE DEF g, earners, pool
  <2>4. ids \in Seq(S) /\ Len(ids) \in Nat /\ Len(ids) >= n /\ g \in S
    BY <2>3 DEF Grows, Belongs
  <2>5. more \in Seq(S) /\ Len(more) = Len(ids) + 1 /\ more[Len(ids) + 1] = g
        /\ \A k \in 1..Len(ids) : more[k] = ids[k]
    BY <2>4
  <2> HIDE DEF more
  <2>6. slot \in AlwaysFilledSlots \/ \E j \in 1..Len(ids) : Relation(w, g, ids[j]) # "none"
    BY <2>2, <2>4, Earned
  <2>7. AddedAt(w, S, z, more, Len(ids) + 1)
    <3>1. Len(ids) + 1 - 1 = Len(ids)
      BY <2>4
    <3> QED  BY <2>3, <2>5, <2>6, <3>1 DEF AddedAt
  <2>8. \A k \in (n + 1)..Len(ids) : AddedAt(w, S, z, more, k)
    <3> TAKE k \in (n + 1)..Len(ids)
    <3>1. AddedAt(w, S, z, ids, k)
      BY DEF Grows
    <3>2. k \in 1..Len(ids) /\ \A j \in 1..(k - 1) : j \in 1..Len(ids)
      BY <2>4
    <3>3. more[k] = ids[k] /\ \A j \in 1..(k - 1) : more[j] = ids[j]
      BY <2>5, <3>2
    <3> QED  BY <3>1, <3>3 DEF AddedAt
  <2>9. \A k \in (n + 1)..Len(more) : k \in (n + 1)..Len(ids) \/ k = Len(ids) + 1
    BY <2>4, <2>5
  <2>10. Grows(w, S, z, n, more)
    BY <2>4, <2>5, <2>7, <2>8, <2>9 DEF Grows
  <2>11. \A k \in 1..n : more[k] = ids[k]
    BY <2>4, <2>5
  <2> QED  BY <1>1, <1>3, <2>10, <2>11 DEF earners, pool
<1> QED  BY <1>2, <1>3

\* A composed outfit is its base and what was added to it.
LEMMA ComposedGrows ==
  ASSUME NEW w, IsShelf(w), NEW S \in SUBSET DOMAIN w.category, NEW z,
         NEW t \in ToSet(OutfitTemplates), NEW b \in Seq(S)
  PROVE  LET ids == Composed(w, t, b, S, z) IN
         /\ Grows(w, S, z, Len(b), ids)
         /\ \A k \in 1..Len(b) : ids[k] = b[k]
<1> DEFINE Put(c, slot) == Filled(w, c, slot, Pool(w, S, slot, z))
           c1 == Put(b, t.optional[1])
           c2 == Put(c1, t.optional[2])
           c3 == Put(c2, t.optional[3])
<1>1. Composed(w, t, b, S, z) = c3
  BY DEF Composed
<1>2. t.optional[1] \in Optional /\ t.optional[2] \in Optional /\ t.optional[3] \in Optional
  BY Templates DEF Optional
<1>3. Len(b) \in Nat
  OBVIOUS
<1>4. Grows(w, S, z, Len(b), b)
  BY <1>3 DEF Grows
<1>5. ASSUME NEW c, Grows(w, S, z, Len(b), c), NEW slot \in Optional
      PROVE  Grows(w, S, z, Len(b), Put(c, slot)) /\ \A k \in 1..Len(b) : Put(c, slot)[k] = c[k]
  BY <1>3, <1>5, FilledGrows
<1> HIDE DEF Put
<1>6. Grows(w, S, z, Len(b), c1) /\ \A k \in 1..Len(b) : c1[k] = b[k]
  BY <1>2, <1>4, <1>5
<1> HIDE DEF c1
<1>7. Grows(w, S, z, Len(b), c2) /\ \A k \in 1..Len(b) : c2[k] = c1[k]
  BY <1>2, <1>5, <1>6
<1> HIDE DEF c2
<1>8. Grows(w, S, z, Len(b), c3) /\ \A k \in 1..Len(b) : c3[k] = c2[k]
  BY <1>2, <1>5, <1>7
<1> HIDE DEF c3
<1> QED  BY <1>1, <1>6, <1>7, <1>8

\* Tuples of ids are in a strict total order.
LEMMA LowerIsStrict ==
  ASSUME NEW a \in Seq(Nat)  PROVE ~Lower(a, a)
<1> SUFFICES ASSUME Lower(a, a)  PROVE FALSE
  OBVIOUS
<1>1. PICK i \in 1..(Len(a) + 1) : i \in DOMAIN a /\ (i > Len(a) \/ a[i] < a[i])
  BY DEF Lower
<1>2. i \in 1..Len(a) /\ Len(a) \in Nat
  BY <1>1
<1>3. a[i] \in Nat
  BY <1>2
<1> QED  BY <1>1, <1>2, <1>3

\* ... any two that differ are ordered
LEMMA LowerIsTotal ==
  ASSUME NEW a \in Seq(Nat), NEW b \in Seq(Nat), a # b  PROVE Lower(a, b) \/ Lower(b, a)
<1> DEFINE Agree(i) == i \in DOMAIN a /\ i \in DOMAIN b /\ a[i] = b[i]
           D == {i \in 1..(Len(a) + 1) : ~Agree(i)}
           m == Min(D)
<1>1. /\ Len(a) \in Nat /\ Len(b) \in Nat /\ DOMAIN a = 1..Len(a) /\ DOMAIN b = 1..Len(b)
  OBVIOUS
<1>2. D \in SUBSET Nat /\ IsFiniteSet(D) /\ D # {}
  <2>1. IsFiniteSet(1..(Len(a) + 1))
    <3>1. 1 \in Int /\ Len(a) + 1 \in Int
      BY <1>1
    <3> QED  BY ONLY <3>1, FS_Interval
  <2>2. Len(a) + 1 \in D
    BY <1>1
  <2> QED  BY <1>1, <2>1, <2>2, FS_Subset
<1> HIDE DEF D
<1>3. m \in D /\ \A p \in D : m <= p
  BY <1>2, LeastOfFinite
<1> HIDE DEF m
<1>4. m \in 1..(Len(a) + 1) /\ ~Agree(m)
  BY <1>3 DEF D
<1>5. \A j \in 1..(m - 1) : Agree(j)
  BY <1>1, <1>3, <1>4 DEF D
<1>6. \A j \in 1..(m - 1) : j \in 1..Len(a) /\ j \in 1..Len(b) /\ a[j] = b[j]
  BY <1>1, <1>5
<1>7. m - 1 <= Len(b)
  <2>1. m - 1 = 0 \/ m - 1 \in 1..(m - 1)
    BY <1>4, <1>1
  <2> QED  BY <1>1, <1>4, <1>6, <2>1
<1>8. CASE m \in 1..Len(a) /\ m \in 1..Len(b)
  <2>1. a[m] \in Int /\ b[m] \in Int
    BY <1>8
  <2>2. a[m] # b[m]
    BY <1>1, <1>4, <1>8
  <2>3. a[m] < b[m] \/ b[m] < a[m]
    BY <2>1, <2>2
  <2>4. m \in 1..(Len(b) + 1)
    BY <1>1, <1>8
  <2> QED  BY <1>1, <1>4, <1>6, <1>8, <2>3, <2>4 DEF Lower
<1>9. CASE m \in 1..Len(a) /\ m \notin 1..Len(b)
  <2>1. m > Len(b) /\ m \in 1..(Len(b) + 1)
    BY <1>1, <1>4, <1>7, <1>9
  <2> QED  BY <1>1, <1>6, <1>9, <2>1, SMTT(30) DEF Lower
<1>10. CASE m \notin 1..Len(a)
  <2>1. m = Len(a) + 1
    BY <1>1, <1>4, <1>10
  <2>2. CASE m \in 1..Len(b)
    BY <1>1, <1>4, <1>6, <2>1, <2>2, SMTT(30) DEF Lower
  <2>3. CASE m \notin 1..Len(b)
    <3>1. Len(b) = Len(a)
      <4>1. m \in Int /\ Len(a) \in Int /\ Len(b) \in Int /\ m = Len(a) + 1 /\ m - 1 <= Len(b) /\ 1 <= m
        BY <1>1, <1>4, <1>7, <2>1
      <4> QED  BY ONLY <4>1, <2>3
    <3>2. \A j \in 1..Len(a) : a[j] = b[j]
      BY <1>1, <1>6, <2>1
    <3> QED  BY <1>1, <3>1, <3>2
  <2> QED  BY <2>2, <2>3
<1> QED  BY <1>8, <1>9, <1>10

\* ... and what is lower than a lower one is lower.
LEMMA LowerIsTransitive ==
  ASSUME NEW a \in Seq(Nat), NEW b \in Seq(Nat), NEW c \in Seq(Nat), Lower(a, b), Lower(b, c)
  PROVE  Lower(a, c)
<1>1. /\ Len(a) \in Nat /\ Len(b) \in Nat /\ Len(c) \in Nat
      /\ DOMAIN a = 1..Len(a) /\ DOMAIN b = 1..Len(b) /\ DOMAIN c = 1..Len(c)
      /\ \A i \in 1..Len(a) : a[i] \in Int
      /\ \A i \in 1..Len(b) : b[i] \in Int
      /\ \A i \in 1..Len(c) : c[i] \in Int
  OBVIOUS
<1>2. PICK i \in 1..(Len(a) + 1) :
        /\ \A j \in 1..(i - 1) : j \in DOMAIN b /\ a[j] = b[j]
        /\ i \in DOMAIN b
        /\ i > Len(a) \/ a[i] < b[i]
  BY DEF Lower
<1>3. PICK k \in 1..(Len(b) + 1) :
        /\ \A j \in 1..(k - 1) : j \in DOMAIN c /\ b[j] = c[j]
        /\ k \in DOMAIN c
        /\ k > Len(b) \/ b[k] < c[k]
  BY DEF Lower
<1>4. CASE i < k
  <2>1. i \in 1..(k - 1) /\ i \in DOMAIN c /\ b[i] = c[i]
    BY <1>3, <1>4
  <2>2. \A j \in 1..(i - 1) : j \in 1..(k - 1)
    BY <1>4
  <2>3. \A j \in 1..(i - 1) : j \in DOMAIN c /\ a[j] = c[j]
    BY <1>2, <1>3, <2>2
  <2>4. i > Len(a) \/ a[i] < c[i]
    BY <1>2, <2>1
  <2> QED  BY ONLY <2>1, <2>3, <2>4, ZenonT(40) DEF Lower
<1>5. CASE k < i
  <2>1. k \in 1..(i - 1) /\ k \in 1..Len(b) /\ a[k] = b[k]
    BY <1>1, <1>2, <1>5
  <2>2. \A j \in 1..(k - 1) : j \in 1..(i - 1)
    BY <1>5
  <2>3. \A j \in 1..(k - 1) : j \in DOMAIN c /\ a[j] = c[j]
    BY <1>2, <1>3, <2>2
  <2>4. a[k] < c[k] /\ k \in 1..(Len(a) + 1)
    BY <1>1, <1>3, <1>5, <2>1
  <2>5. k \in DOMAIN c
    BY <1>3
  <2> QED  BY ONLY <2>3, <2>4, <2>5, ZenonT(40) DEF Lower
<1>6. CASE k = i
  <2>1. \A j \in 1..(i - 1) : j \in DOMAIN c /\ a[j] = c[j]
    BY <1>2, <1>3, <1>6
  <2>2. i \in DOMAIN c /\ i \in 1..Len(b) /\ i \in 1..Len(c)
    BY <1>1, <1>2, <1>3, <1>6
  <2>3. i > Len(a) \/ a[i] < c[i]
    <3>1. b[i] < c[i] /\ b[i] \in Int /\ c[i] \in Int
      BY <1>1, <1>3, <1>6, <2>2
    <3>2. ASSUME ~(i > Len(a))  PROVE a[i] < c[i]
      <4>1. i \in 1..Len(a) /\ a[i] < b[i]
        BY <1>1, <1>2, <3>2
      <4>2. a[i] \in Int
        BY <1>1, <4>1
      <4> QED  BY <3>1, <4>1, <4>2
    <3> QED  BY <3>2
  <2> QED  BY <2>1, <2>2, <2>3 DEF Lower
<1> QED  BY <1>1, <1>4, <1>5, <1>6

\* A combination of required garments is a sequence of as many, one of the
\* pool of each slot.
LEMMA BasesAre ==
  ASSUME NEW w, IsShelf(w), NEW S \in SUBSET DOMAIN w.category, NEW z,
         NEW t \in ToSet(OutfitTemplates), NEW b \in Bases(w, t, S, z)
  PROVE  /\ b \in Seq(S) /\ Len(b) = Len(t.required) /\ Len(t.required) \in 1..2
         /\ \A k \in 1..Len(b) : Belongs(w, S, t.required[k], z, b[k])
<1>1. DOMAIN t.required = 1..Len(t.required) /\ Len(t.required) \in 1..2
  BY Templates
<1>2. b \in [1..Len(t.required) -> S]
      /\ \A k \in 1..Len(t.required) : b[k] \in Pool(w, S, t.required[k], z)
  <2>1. b \in [DOMAIN t.required -> S] /\ \A k \in DOMAIN b : b[k] \in Pool(w, S, t.required[k], z)
    BY DEF Bases
  <2> QED  BY <1>1, <2>1
<1>3. b \in Seq(S) /\ Len(b) = Len(t.required)
  BY <1>1, <1>2
<1>4. ASSUME NEW k \in 1..Len(b)  PROVE Belongs(w, S, t.required[k], z, b[k])
  <2>1. b[k] \in Pool(w, S, t.required[k], z)
    BY <1>2, <1>3
  <2> QED  BY <2>1, Pools DEF Belongs
<1> QED  BY <1>1, <1>3, <1>4

\* What an outfit is: the garments its template requires, of the pools, and
\* those that were added.
IsOutfit(w, S, z, t, ids) ==
  /\ Grows(w, S, z, Len(t.required), ids)
  /\ \A k \in 1..Len(t.required) : Belongs(w, S, t.required[k], z, ids[k])

\* Every candidate is an outfit of one of the templates, with its score and why.
LEMMA CandidatesAre ==
  ASSUME NEW w, IsShelf(w), NEW S \in SUBSET DOMAIN w.category, NEW z,
         NEW o \in Candidates(w, S, z)
  PROVE  \E t \in ToSet(OutfitTemplates) :
           IsOutfit(w, S, z, t, o.ids) /\ o = OutfitOf(w, t, o.ids, z)
<1>0. PICK t \in ToSet(OutfitTemplates) :
        o \in {OutfitOf(w, t, Composed(w, t, base, S, z), z) : base \in Bases(w, t, S, z)}
  BY DEF Candidates
<1>1. PICK b \in Bases(w, t, S, z) : o = OutfitOf(w, t, Composed(w, t, b, S, z), z)
  BY <1>0
<1> DEFINE ids == Composed(w, t, b, S, z)
<1>2. /\ b \in Seq(S) /\ Len(b) = Len(t.required) /\ Len(t.required) \in 1..2
      /\ \A k \in 1..Len(b) : Belongs(w, S, t.required[k], z, b[k])
  BY BasesAre
<1>3. Grows(w, S, z, Len(b), ids) /\ \A k \in 1..Len(b) : ids[k] = b[k]
  BY <1>2, ComposedGrows
<1> HIDE DEF ids
<1>4. IsOutfit(w, S, z, t, ids)
  BY <1>2, <1>3 DEF IsOutfit
<1>5. o = OutfitOf(w, t, ids, z)
  BY <1>1 DEF ids
<1>6. o.ids = ids
  BY <1>5 DEF OutfitOf
<1> QED  BY <1>4, <1>5, <1>6

\* The first garment tells the template, so that no two have the same garments.
LEMMA CandidatesDiffer ==
  ASSUME NEW w, IsShelf(w), NEW S \in SUBSET DOMAIN w.category, NEW z,
         NEW o \in Candidates(w, S, z), NEW p \in Candidates(w, S, z), o.ids = p.ids
  PROVE  o = p
<1>1. PICK t \in ToSet(OutfitTemplates) :
        IsOutfit(w, S, z, t, o.ids) /\ o = OutfitOf(w, t, o.ids, z)
  BY CandidatesAre
<1>2. PICK u \in ToSet(OutfitTemplates) :
        IsOutfit(w, S, z, u, p.ids) /\ p = OutfitOf(w, u, p.ids, z)
  BY CandidatesAre
<1>3. Slot(w, o.ids[1]) = t.required[1] /\ Slot(w, p.ids[1]) = u.required[1]
  <2>1. 1 \in 1..Len(t.required) /\ 1 \in 1..Len(u.required)
    <3>1. Len(t.required) \in 1..2 /\ Len(u.required) \in 1..2
      BY Templates
    <3>2. \A n \in 1..2 : 1 \in 1..n
      OBVIOUS
    <3> QED  BY ONLY <3>1, <3>2
  <2> QED  BY <1>1, <1>2, <2>1 DEF IsOutfit, Belongs, Eligible
<1>4. t.required[1] = u.required[1] => t = u
  BY Templates
<1>5. t = u
  BY <1>3, <1>4
<1> QED  BY <1>1, <1>2, <1>5

\* There is an outfit exactly when some template's slots can be filled.
Wearable(w, S, slot, z) == \E g \in S : Belongs(w, S, slot, z, g)

\* Something is proposed exactly when something pairs.
LEMMA CandidatesExist ==
  ASSUME NEW w, IsShelf(w), NEW S \in SUBSET DOMAIN w.category, NEW z
  PROVE  Candidates(w, S, z) # {} <=>
           \/ Wearable(w, S, "dress", z)
           \/ Wearable(w, S, "top", z) /\ Wearable(w, S, "bottom", z)
<1>1. /\ OutfitTemplates[1] \in ToSet(OutfitTemplates) /\ OutfitTemplates[2] \in ToSet(OutfitTemplates)
      /\ OutfitTemplates[1].required = <<"top", "bottom">>
      /\ OutfitTemplates[2].required = <<"dress">>
  BY Templates
<1>2. ASSUME NEW t \in ToSet(OutfitTemplates), NEW b, b \in Bases(w, t, S, z)
      PROVE  Candidates(w, S, z) # {}
  <2>1. OutfitOf(w, t, Composed(w, t, b, S, z), z)
          \in {OutfitOf(w, t, Composed(w, t, base, S, z), z) : base \in Bases(w, t, S, z)}
    BY <1>2
  <2>2. OutfitOf(w, t, Composed(w, t, b, S, z), z) \in Candidates(w, S, z)
    BY <2>1 DEF Candidates
  <2> QED  BY <2>2
<1>3. ASSUME NEW slot, Wearable(w, S, slot, z)
      PROVE  \E g \in S : g \in Pool(w, S, slot, z)
  BY <1>3, Pools DEF Wearable, Belongs
<1>4. ASSUME Wearable(w, S, "dress", z)  PROVE Candidates(w, S, z) # {}
  <2>1. PICK g \in S : g \in Pool(w, S, "dress", z)
    BY <1>3, <1>4
  <2> DEFINE b == <<g>>
  <2>2. b \in [DOMAIN <<"dress">> -> S] /\ \A k \in DOMAIN b : b[k] \in Pool(w, S, <<"dress">>[k], z)
    BY <2>1
  <2>3. b \in Bases(w, OutfitTemplates[2], S, z)
    BY <1>1, <2>2 DEF Bases
  <2> QED  BY <1>1, <1>2, <2>3
<1>5. ASSUME Wearable(w, S, "top", z), Wearable(w, S, "bottom", z)  PROVE Candidates(w, S, z) # {}
  <2>1. PICK g \in S : g \in Pool(w, S, "top", z)
    BY <1>3, <1>5
  <2>2. PICK h \in S : h \in Pool(w, S, "bottom", z)
    BY <1>3, <1>5
  <2> DEFINE b == <<g, h>>
             r == <<"top", "bottom">>
  <2>3. DOMAIN b = {1, 2} /\ DOMAIN r = {1, 2} /\ b[1] = g /\ b[2] = h /\ r[1] = "top" /\ r[2] = "bottom"
    BY DOMAIN b = 1..2, DOMAIN r = 1..2
  <2>4. b \in [DOMAIN r -> S]
    <3>1. b \in [1..2 -> S]
      OBVIOUS
    <3>2. DOMAIN r = 1..2
      OBVIOUS
    <3> QED  BY ONLY <3>1, <3>2
  <2> HIDE DEF b, r
  <2>5. \A k \in DOMAIN b : b[k] \in Pool(w, S, r[k], z)
    BY <2>1, <2>2, <2>3
  <2>6. b \in Bases(w, OutfitTemplates[1], S, z)
    BY <1>1, <2>4, <2>5 DEF Bases, r
  <2> QED  BY <1>1, <1>2, <2>6
<1>6. ASSUME NEW o \in Candidates(w, S, z)
      PROVE  \/ Wearable(w, S, "dress", z)
             \/ Wearable(w, S, "top", z) /\ Wearable(w, S, "bottom", z)
  <2>1. PICK t \in ToSet(OutfitTemplates) : IsOutfit(w, S, z, t, o.ids)
    BY CandidatesAre
  <2>2. \A k \in 1..Len(t.required) : Wearable(w, S, t.required[k], z)
    BY <2>1 DEF IsOutfit, Belongs, Wearable
  <2>3. CASE t = OutfitTemplates[1]
    <3>1. 1 \in 1..Len(t.required) /\ 2 \in 1..Len(t.required)
          /\ t.required[1] = "top" /\ t.required[2] = "bottom"
      BY <2>3, Templates
    <3> QED  BY <1>1, <2>2, <2>3, <3>1
  <2>4. CASE t = OutfitTemplates[2]
    <3>1. 1 \in 1..Len(t.required) /\ t.required[1] = "dress"
      BY <2>4, Templates
    <3> QED  BY <1>1, <2>2, <2>4, <3>1
  <2> QED  BY <2>3, <2>4, Templates
<1> QED  BY <1>4, <1>5, <1>6

\* A score is a number.
LEMMA ScoresAreNumbers ==
  ASSUME NEW w, NEW S, NEW ids \in Seq(S)
  PROVE  OutfitScore(w, ids) \in Int
<1> DEFINE P == Pairs(ids)
           n == Cardinality(P)
           scores == [p \in P |-> Score(w, ids[p[1]], ids[p[2]])]
           Times(m) == Cardinality({i \in DOMAIN scores : scores[i] = m})
<1>1. IsFiniteSet(P)
  <2>1. Len(ids) \in Nat /\ DOMAIN ids = 1..Len(ids)
    OBVIOUS
  <2>2. IsFiniteSet(1..Len(ids))
    <3>1. 1 \in Int /\ Len(ids) \in Int
      BY <2>1
    <3> QED  BY ONLY <3>1, FS_Interval
  <2>3. IsFiniteSet((1..Len(ids)) \X (1..Len(ids)))
    BY <2>2, FS_Product
  <2>4. P \subseteq (1..Len(ids)) \X (1..Len(ids))
    BY <2>1 DEF Pairs
  <2> QED  BY <2>3, <2>4, FS_Subset
<1>2. n \in Nat
  BY <1>1, FS_CardinalityType
<1>3. \A m : Times(m) \in Nat
  <2> TAKE m
  <2>1. {i \in DOMAIN scores : scores[i] = m} \subseteq P
    OBVIOUS
  <2> QED  BY <1>1, <2>1, FS_Subset, FS_CardinalityType
<1>4. Total(scores) = 20 * Times(20) + 14 * Times(14) + 7 * Times(7)
  BY DEF Total
<1>5. OutfitScore(w, ids)
        = IF n = 0 THEN 50 * SingleItemScore ELSE (100 * Total(scores) + n) \div (2 * n)
  BY DEF OutfitScore
<1> HIDE DEF Times, n, scores, P
<1>6. Total(scores) \in Nat
  BY <1>3, <1>4
<1>7. CASE n = 0
  BY <1>5, <1>7 DEF SingleItemScore
<1>8. CASE n # 0
  <2>1. 2 * n \in Nat /\ 2 * n > 0 /\ 100 * Total(scores) + n \in Int
    BY <1>2, <1>6, <1>8
  <2>2. \A a \in Int, b \in Nat : b > 0 => a \div b \in Int
    OBVIOUS
  <2> QED  BY <1>5, <1>8, <2>1, <2>2
<1> QED  BY <1>7, <1>8

\* The candidates of a shelf are finitely many.
LEMMA CandidatesAreFinite ==
  ASSUME NEW w, IsShelf(w), NEW S \in SUBSET DOMAIN w.category, NEW z
  PROVE  IsFiniteSet(Candidates(w, S, z))
<1>0. IsFiniteSet(S)
  BY FS_Subset DEF IsShelf
<1>1. ASSUME NEW t \in ToSet(OutfitTemplates)
      PROVE  IsFiniteSet(Bases(w, t, S, z))
  <2> DEFINE Q == S \X S
             R == [1..2 -> S]
             f == [q \in Q |-> <<q[1], q[2]>>]
             U == [1..1 -> S]
             h == [g \in S |-> <<g>>]
  <2>1. IsFiniteSet(R)
    <3>1. f \in Surjection(Q, R)
      <4>1. \A q \in Q : f[q] \in R
        OBVIOUS
      <4>2. ASSUME NEW r \in R  PROVE \E q \in Q : f[q] = r
        <5>1. <<r[1], r[2]>> \in Q /\ <<r[1], r[2]>> = r
          OBVIOUS
        <5> QED  BY <5>1
      <4> QED  BY <4>1, <4>2 DEF Surjection
    <3>2. IsFiniteSet(Q)
      BY <1>0, FS_Product
    <3> HIDE DEF Q, R, f
    <3> QED  BY <3>1, <3>2, FS_Surjection
  <2>2. IsFiniteSet(U)
    <3>1. h \in Surjection(S, U)
      <4>1. \A g \in S : h[g] \in U
        OBVIOUS
      <4>2. ASSUME NEW u \in U  PROVE \E g \in S : h[g] = u
        <5>1. u[1] \in S /\ <<u[1]>> = u
          OBVIOUS
        <5> QED  BY <5>1
      <4> QED  BY <4>1, <4>2 DEF Surjection
    <3> HIDE DEF U, h
    <3> QED  BY <1>0, <3>1, FS_Surjection
  <2>3. Bases(w, t, S, z) \subseteq R \/ Bases(w, t, S, z) \subseteq U
    <3>1. DOMAIN t.required = 1..2 \/ DOMAIN t.required = 1..1
      BY Templates
    <3> QED  BY <3>1 DEF Bases
  <2> HIDE DEF R, U
  <2> QED  BY <2>1, <2>2, <2>3, FS_Subset
<1>2. ASSUME NEW t \in ToSet(OutfitTemplates)
      PROVE  IsFiniteSet({OutfitOf(w, t, Composed(w, t, base, S, z), z) : base \in Bases(w, t, S, z)})
  <2> DEFINE B == Bases(w, t, S, z)
             C == {OutfitOf(w, t, Composed(w, t, base, S, z), z) : base \in B}
             f == [base \in B |-> OutfitOf(w, t, Composed(w, t, base, S, z), z)]
  <2>1. IsFiniteSet(B)
    BY <1>1
  <2> HIDE DEF B
  <2>2. f \in Surjection(B, C)
    BY DEF Surjection
  <2> HIDE DEF C, f
  <2>3. IsFiniteSet(C)
    BY <2>1, <2>2, FS_Surjection
  <2> QED  BY <2>3 DEF B, C
<1> DEFINE Made(t) == {OutfitOf(w, t, Composed(w, t, base, S, z), z) : base \in Bases(w, t, S, z)}
<1>3. Candidates(w, S, z) = Made(OutfitTemplates[1]) \cup Made(OutfitTemplates[2])
  <2>1. Candidates(w, S, z) = UNION {Made(t) : t \in ToSet(OutfitTemplates)}
    BY DEF Candidates
  <2> HIDE DEF Made
  <2> QED  BY <2>1, Templates
<1>4. IsFiniteSet(Made(OutfitTemplates[1])) /\ IsFiniteSet(Made(OutfitTemplates[2]))
  BY <1>2, Templates
<1> HIDE DEF Made
<1> QED  BY <1>3, <1>4, FS_Union

\* What is ranked: outfits told apart by their garments, scored by numbers.
Rankable(C) ==
  /\ IsFiniteSet(C)
  /\ \A o \in C : o.ids \in Seq(Nat) /\ o.score \in Int
  /\ \A o, p \in C : o.ids = p.ids => o = p

\* The candidates of any wardrobe can be ranked.
LEMMA CandidatesAreRankable ==
  ASSUME NEW w, IsShelf(w), NEW S \in SUBSET DOMAIN w.category, NEW z
  PROVE  Rankable(Candidates(w, S, z))
<1>1. ASSUME NEW o \in Candidates(w, S, z)  PROVE o.ids \in Seq(Nat) /\ o.score \in Int
  <2>1. PICK t \in ToSet(OutfitTemplates) :
          IsOutfit(w, S, z, t, o.ids) /\ o = OutfitOf(w, t, o.ids, z)
    BY CandidatesAre
  <2>2. o.ids \in Seq(S) /\ S \subseteq Nat
    BY <2>1 DEF IsOutfit, Grows, IsShelf
  <2>3. o.score = OutfitScore(w, o.ids)
    BY <2>1 DEF OutfitOf
  <2>4. o.score \in Int
    BY <2>2, <2>3, ScoresAreNumbers
  <2>5. o.ids \in Seq(Nat)
    BY <2>2
  <2> QED  BY <2>4, <2>5
<1> QED  BY <1>1, CandidatesAreFinite, CandidatesDiffer DEF Rankable

\* The outfits are in the order, one place each.
LEMMA RankedOrders ==
  ASSUME NEW C, Rankable(C)
  PROVE  /\ Ranked(C) \in Seq(C) /\ Len(Ranked(C)) = Cardinality(C) /\ Cardinality(C) \in Nat
         /\ \A j, k \in 1..Cardinality(C) : j < k => Before(Ranked(C)[j], Ranked(C)[k])
<1> DEFINE n == Cardinality(C)
           above == [o \in C |-> {p \in C : Before(p, o)}]
           row(k) == CHOOSE o \in C : Cardinality({p \in C : Before(p, o)}) = k - 1
<1>0. \A o \in C : o.ids \in Seq(Nat) /\ o.score \in Int
  BY DEF Rankable
<1>1. \A o, p \in C : p \in above[o] <=> Before(p, o)
  OBVIOUS
<1>2. \A o \in C : ~Before(o, o)
  BY <1>0, LowerIsStrict DEF Before
<1>3. ASSUME NEW o \in C, NEW p \in C, o # p  PROVE Before(o, p) \/ Before(p, o)
  <2>1. o.ids # p.ids
    BY <1>3 DEF Rankable
  <2>2. Lower(o.ids, p.ids) \/ Lower(p.ids, o.ids)
    BY <1>0, <2>1, LowerIsTotal
  <2> QED  BY <1>0, <2>2 DEF Before
<1>4. ASSUME NEW o \in C, NEW p \in C, NEW q \in C, Before(o, p), Before(p, q)  PROVE Before(o, q)
  <2>1. Lower(o.ids, p.ids) /\ Lower(p.ids, q.ids) => Lower(o.ids, q.ids)
    BY <1>0, LowerIsTransitive
  <2>2. o.score \in Int /\ p.score \in Int /\ q.score \in Int
    BY <1>0
  <2>3. o.score > p.score \/ (o.score = p.score /\ Lower(o.ids, p.ids))
    BY <1>4 DEF Before
  <2>4. p.score > q.score \/ (p.score = q.score /\ Lower(p.ids, q.ids))
    BY <1>4 DEF Before
  <2>5. o.score > q.score \/ (o.score = q.score /\ Lower(o.ids, q.ids))
    BY ONLY <2>1, <2>2, <2>3, <2>4
  <2> QED  BY <2>5 DEF Before
<1>5. /\ n \in Nat
      /\ \A p \in C : Cardinality(above[p]) \in 0..(n - 1)
      /\ \A p, q \in C : p \in above[q] => Cardinality(above[p]) < Cardinality(above[q])
      /\ \A k \in 1..n : \E p \in C : Cardinality(above[p]) = k - 1
  <2>1. above \in [C -> SUBSET C]
    OBVIOUS
  <2>2. \A p \in C : p \notin above[p]
    BY <1>1, <1>2
  <2>3. \A p, q \in C : p # q => p \in above[q] \/ q \in above[p]
    BY <1>1, <1>3
  <2>4. \A p, q \in C : p \in above[q] => above[p] \subseteq above[q]
    <3> TAKE p, q \in C
    <3> HAVE p \in above[q]
    <3> SUFFICES ASSUME NEW o \in above[p]  PROVE o \in above[q]
      OBVIOUS
    <3>1. o \in C
      OBVIOUS
    <3> QED  BY <1>1, <1>4, <3>1
  <2>5. IsFiniteSet(C)
    BY DEF Rankable
  <2> HIDE DEF above
  <2> QED  BY <2>1, <2>2, <2>3, <2>4, <2>5, Ranks
<1>6. \A o \in C : above[o] = {p \in C : Before(p, o)}
  OBVIOUS
<1>7. \A k \in 1..n : row(k) \in C /\ Cardinality(above[row(k)]) = k - 1
  BY <1>5, <1>6
<1>8. Ranked(C) = [k \in 1..n |-> row(k)]
  BY DEF Ranked
<1> HIDE DEF row, above, n
<1>9. Ranked(C) \in Seq(C) /\ Len(Ranked(C)) = n /\ \A k \in 1..n : Ranked(C)[k] = row(k)
  BY <1>5, <1>7, <1>8
<1>10. ASSUME NEW j \in 1..n, NEW k \in 1..n, j < k  PROVE Before(row(j), row(k))
  <2>1. row(j) \in C /\ row(k) \in C
    BY <1>7
  <2>2. Cardinality(above[row(j)]) = j - 1 /\ Cardinality(above[row(k)]) = k - 1
    BY <1>7
  <2>3. j \in Int /\ k \in Int /\ j - 1 # k - 1 /\ ~(k - 1 < j - 1)
    BY <1>5, <1>10
  <2>4. row(j) # row(k)
    BY <2>2, <2>3
  <2>5. row(k) \notin above[row(j)]
    BY <1>5, <2>1, <2>2, <2>3
  <2> QED  BY <1>1, <1>3, <2>1, <2>4, <2>5
<1> QED  BY <1>5, <1>9, <1>10 DEF n

\* A request is answered by the best of the candidates, in order, and by none
\* only if there is none.
LEMMA SuggestionsAre ==
  ASSUME NEW w, IsShelf(w), NEW S \in SUBSET DOMAIN w.category, NEW z, NEW limit \in Nat \ {0}
  PROVE  /\ Suggestions(w, S, z, limit) \in Seq(Candidates(w, S, z))
         /\ \A j, k \in 1..Len(Suggestions(w, S, z, limit)) :
              j < k => Before(Suggestions(w, S, z, limit)[j], Suggestions(w, S, z, limit)[k])
         /\ Suggestions(w, S, z, limit) = <<>> <=> Candidates(w, S, z) = {}
<1> DEFINE C == Candidates(w, S, z)
           r == Ranked(C)
           m == IF Cardinality(C) < limit THEN Cardinality(C) ELSE limit
           s == SubSeq(r, 1, m)
<1>1. Suggestions(w, S, z, limit) = s
  BY DEF Suggestions, Limited
<1>2. Rankable(C)
  BY CandidatesAreRankable
<1> HIDE DEF C
<1>3. /\ r \in Seq(C) /\ Len(r) = Cardinality(C) /\ Cardinality(C) \in Nat
      /\ \A j, k \in 1..Cardinality(C) : j < k => Before(r[j], r[k])
  BY <1>2, RankedOrders
<1>4. Cardinality(C) = 0 <=> C = {}
  BY <1>2, FS_EmptySet DEF Rankable
<1> HIDE DEF r
<1>5. m \in 0..Len(r) /\ (m = 0 <=> Len(r) = 0)
  BY <1>3
<1> HIDE DEF m
<1>6. s \in Seq(C) /\ Len(s) = m /\ \A k \in 1..m : s[k] = r[k]
  BY <1>3, <1>5
<1> HIDE DEF s
<1>7. \A j, k \in 1..Len(s) : j < k => Before(s[j], s[k])
  BY <1>3, <1>5, <1>6
<1>8. s = <<>> <=> C = {}
  BY <1>3, <1>4, <1>5, <1>6
<1> QED  BY <1>1, <1>6, <1>7, <1>8 DEF C

----------------------------------------------------------------------------
\* The engine has been asked about a shelf, and has answered that.
EngineInv ==
  /\ hand = "engine" => shape \in Shapes
  /\ \/ answer = NoAnswer
     \/ /\ shape \in Shapes
        /\ answer = [given |-> TRUE,
                     ideas |-> Suggestions(shape, DOMAIN shape.category, season, AskedLimit)]

\* An answer is what the engine makes of the wardrobe it was sent, and stays so.
LEMMA EngineInvStep ==
  /\ AddInit => EngineInv
  /\ EngineInv /\ [AddNext]_<<formVars, ideasVars, engineVars, hand>> => EngineInv'
<1>1. ASSUME AddInit  PROVE EngineInv
  BY <1>1 DEF AddInit, EngineInit, EngineInv
<1>2. ASSUME EngineInv, UNCHANGED <<shape, season, answer, hand>>  PROVE EngineInv'
  BY <1>2 DEF EngineInv
<1>3. ASSUME EngineInv, hand = "engine", Ask, hand' = hand  PROVE EngineInv'
  <2>1. shape \in Shapes /\ shape' = shape /\ season' = season
        /\ answer' = [given |-> TRUE,
                      ideas |-> Suggestions(shape, DOMAIN shape.category, season, AskedLimit)]
    BY <1>3 DEF EngineInv, Ask
  <2> QED  BY <1>3, <2>1 DEF EngineInv
<1> QED  BY <1>1, <1>2, <1>3 DEF AddNext, engineVars

\* Each garment of an outfit belongs to a slot.
LEMMA EachBelongs ==
  ASSUME NEW w, NEW S, NEW z, NEW t, Len(t.required) \in Nat, NEW ids, IsOutfit(w, S, z, t, ids),
         NEW k \in 1..Len(ids)
  PROVE  \E slot : Belongs(w, S, slot, z, ids[k])
<1>0. Len(ids) \in Nat
  BY DEF IsOutfit, Grows
<1>1. CASE k \in 1..Len(t.required)
  BY <1>1 DEF IsOutfit
<1>2. CASE k \notin 1..Len(t.required)
  <2>1. k \in (Len(t.required) + 1)..Len(ids)
    BY <1>0, <1>2
  <2> QED  BY <2>1 DEF IsOutfit, Grows, AddedAt
<1> QED  BY <1>1, <1>2

\* The rules of the engine, of what it has answered.
LEMMA EngineHolds ==
  ASSUME EngineInv  PROVE EngineMeetsItsRules
<1> SUFFICES ASSUME answer.given  PROVE EngineMeetsItsRules
  BY DEF EngineMeetsItsRules, SeasonHonoured, EmptyMeansNone, NothingUnearned, BestFirst
<1> DEFINE D == DOMAIN shape.category
           C == Candidates(shape, D, season)
           s == answer.ideas
<1>1. /\ shape \in Shapes
      /\ s = Suggestions(shape, D, season, AskedLimit)
  BY DEF EngineInv, NoAnswer
<1>2. IsShelf(shape)
  BY <1>1, ShapesAssumption
<1>3. /\ s \in Seq(C)
      /\ \A j, k \in 1..Len(s) : j < k => Before(s[j], s[k])
      /\ s = <<>> <=> C = {}
  <2>1. D \in SUBSET DOMAIN shape.category
    OBVIOUS
  <2> HIDE DEF s, D
  <2> QED  BY <1>1, <1>2, <2>1, AskedAssumption, SuggestionsAre
<1>4. DOMAIN s = 1..Len(s) /\ Len(s) \in Nat /\ \A i \in DOMAIN s : s[i] \in C
  BY <1>3
<1>5. ASSUME NEW o \in C
      PROVE  \E t \in ToSet(OutfitTemplates) : IsOutfit(shape, D, season, t, o.ids)
  BY <1>2, <1>5, CandidatesAre
<1>6. \A t \in ToSet(OutfitTemplates) : Len(t.required) \in Nat
  <2>1. \A n \in 1..2 : n \in Nat
    OBVIOUS
  <2> QED  BY <2>1, Templates
<1> HIDE DEF s
<1>7. SeasonHonoured
  <2> SUFFICES ASSUME NEW i \in DOMAIN s, NEW g \in Worn(s[i])
               PROVE  Fits(g) \/ (Claims(g) = {} /\ shape.category[g] \notin {"jacket", "accessory", "other"})
    BY DEF SeasonHonoured, s
  <2>1. PICK t \in ToSet(OutfitTemplates) : IsOutfit(shape, D, season, t, s[i].ids)
    BY <1>4, <1>5
  <2>2. PICK k \in DOMAIN s[i].ids : g = s[i].ids[k]
    BY DEF Worn
  <2>3. k \in 1..Len(s[i].ids)
    BY <2>1, <2>2 DEF IsOutfit, Grows
  <2>4. PICK slot : Belongs(shape, D, slot, season, g)
    BY <1>6, <2>1, <2>2, <2>3, EachBelongs
  <2>5. g \in D /\ Slot(shape, g) = slot /\ InSeason(shape, g, season, slot \notin GatedOptionalSlots)
    BY <2>4 DEF Belongs, Eligible
  <2>6. slot \notin GatedOptionalSlots => shape.category[g] \notin {"jacket", "accessory", "other"}
    BY <1>2, <2>5, Slots, Templates
  <2> QED  BY <2>5, <2>6 DEF InSeason, Fits, Claims, AnySeason
<1>8. EmptyMeansNone
  <2> DEFINE worth == {g \in D : Fits(g) \/ Claims(g) = {}}
             wearable == {shape.category[g] : g \in worth}
  <2>1. ASSUME NEW slot, slot \notin GatedOptionalSlots, NEW g \in D
        PROVE  Belongs(shape, D, slot, season, g) <=> g \in worth /\ Slot(shape, g) = slot
    BY <2>1 DEF Belongs, Eligible, InSeason, Fits, Claims, AnySeason
  <2>2. {"top", "bottom", "dress"} \cap GatedOptionalSlots = {}
    BY Templates
  <2>3. ASSUME NEW slot \in {"top", "bottom", "dress"}
        PROVE  Wearable(shape, D, slot, season) <=> \E g \in worth : Slot(shape, g) = slot
    BY <2>1, <2>2 DEF Wearable
  <2>4. Wearable(shape, D, "dress", season) <=> "dress" \in wearable
    BY <1>2, <2>3, Slots
  <2>5. Wearable(shape, D, "top", season) <=> wearable \cap {"tshirt", "shirt"} # {}
    BY <1>2, <2>3, Slots
  <2>6. Wearable(shape, D, "bottom", season) <=> wearable \cap {"trousers", "shorts", "skirt"} # {}
    BY <1>2, <2>3, Slots
  <2>7. C # {} <=> \/ Wearable(shape, D, "dress", season)
                   \/ Wearable(shape, D, "top", season) /\ Wearable(shape, D, "bottom", season)
    BY <1>2, CandidatesExist
  <2> HIDE DEF wearable, C
  <2>8. (s = <<>>) <=>
          /\ "dress" \notin wearable
          /\ wearable \cap {"tshirt", "shirt"} = {} \/ wearable \cap {"trousers", "shorts", "skirt"} = {}
    BY <1>3, <2>4, <2>5, <2>6, <2>7
  <2> QED  BY <2>8 DEF EmptyMeansNone, wearable, s
<1>9. NothingUnearned
  <2> SUFFICES ASSUME NEW i \in DOMAIN s, NEW k \in DOMAIN s[i].ids,
                      shape.category[s[i].ids[k]] \in {"jacket", "accessory", "other"}
               PROVE  \E j \in 1..(k - 1) : Relation(shape, s[i].ids[k], s[i].ids[j]) # "none"
    BY DEF NothingUnearned, s
  <2>1. PICK t \in ToSet(OutfitTemplates) : IsOutfit(shape, D, season, t, s[i].ids)
    BY <1>4, <1>5
  <2> DEFINE ids == s[i].ids
  <2>2. k \in 1..Len(ids) /\ ids \in Seq(D) /\ Len(ids) \in Nat
    BY <2>1 DEF IsOutfit, Grows
  <2>3. ids[k] \in D
    BY <2>2
  <2>4. Slot(shape, ids[k]) \in {"outerwear", "extra"}
    BY <1>2, <2>3, Slots
  <2>5. k \notin 1..Len(t.required)
    <3>1. \A n \in 1..Len(t.required) : t.required[n] \in {"top", "bottom", "dress"}
      <4>1. t = OutfitTemplates[1] \/ t = OutfitTemplates[2]
        BY Templates
      <4>2. \A n \in 1..2 : n = 1 \/ n = 2
        OBVIOUS
      <4>3. \A n \in 1..1 : n = 1
        OBVIOUS
      <4> QED  BY <4>1, <4>2, <4>3, Templates
    <3>2. k \in 1..Len(t.required) => Slot(shape, ids[k]) = t.required[k]
      BY <2>1 DEF IsOutfit, Belongs, Eligible
    <3> QED  BY <2>4, <3>1, <3>2
  <2>6. k \in (Len(t.required) + 1)..Len(ids)
    BY <1>6, <2>2, <2>5
  <2>7. AddedAt(shape, D, season, ids, k)
    BY <2>1, <2>6 DEF IsOutfit, Grows
  <2>8. PICK slot \in Optional :
          /\ Belongs(shape, D, slot, season, ids[k])
          /\ slot \in AlwaysFilledSlots \/ \E j \in 1..(k - 1) : Relation(shape, ids[k], ids[j]) # "none"
    BY <2>7 DEF AddedAt
  <2>9. Slot(shape, ids[k]) = slot /\ slot \notin AlwaysFilledSlots
    BY <2>4, <2>8 DEF Belongs, Eligible, AlwaysFilledSlots
  <2> QED  BY <2>8, <2>9
<1>10. BestFirst
  <2> SUFFICES ASSUME NEW i \in DOMAIN s, NEW k \in DOMAIN s, i < k
               PROVE  /\ s[i].score >= s[k].score
                      /\ s[i].score = s[k].score => s[i].ids # s[k].ids /\ Lower(s[i].ids, s[k].ids)
    BY DEF BestFirst, s
  <2>1. Before(s[i], s[k])
    BY <1>3, <1>4
  <2>2. \A o \in C : o.ids \in Seq(Nat) /\ o.score \in Int
    BY <1>2, CandidatesAreRankable DEF Rankable
  <2>3. s[i].ids \in Seq(Nat) /\ s[k].ids \in Seq(Nat) /\ s[i].score \in Int /\ s[k].score \in Int
    BY <1>4, <2>2
  <2>4. ~Lower(s[i].ids, s[i].ids)
    BY <2>3, LowerIsStrict
  <2> QED  BY <2>1, <2>3, <2>4 DEF Before
<1> QED  BY <1>7, <1>8, <1>9, <1>10 DEF EngineMeetsItsRules

----------------------------------------------------------------------------
(***************************************************************************)
(* The ideas.                                                              *)
(***************************************************************************)
Statuses == {"active", "laundry", "retired", "both", "gone"}
Reads == [Garments -> Statuses]
Lists == Seq(Seq(Garments))
Shortlists == {Shortlist(read) : read \in Reads}
Panes == [mount : Nat \ {0}, snapshot : {NotLoaded} \cup Shortlists,
          failed : {"no", "unavailable", "other"}, inFlight : BOOLEAN]
CardSet == [key : Seq(Garments), born : Nat, ref : BOOLEAN, saving : BOOLEAN, saved : BOOLEAN]
Composers == [mount : Nat \ {0}, selected : Seq(Garments), name : Names, ref : BOOLEAN,
              saving : BOOLEAN, applied : Seq(Garments)]
GetSet == [pane : Nat \ {0}, at : {"sent", "read", "answered", "unavailable", "other"}, read : Reads]
PostSet == [n : Nat, from : {"card", "composer"}, who : Nat \cup (Seq(Garments) \X Nat),
            ids : Seq(Garments), name : Names, at : {"sent", "stored", "failed"}]
Spendings == [gets : 0..MaxGets, posts : 0..MaxOutfitPosts, taps : 0..MaxTaps, troubles : 0..MaxTroubles]

\* A shortlist lists outfits of what is active, none twice, and none only if
\* nothing pairs.
LEMMA ShortlistIs ==
  ASSUME NEW read \in Reads
  PROVE  /\ Shortlist(read).loaded = TRUE /\ Shortlist(read).read = read
         /\ Shortlist(read).inLaundry = Count(read, {"laundry"})
         /\ Shortlist(read).retired = Count(read, {"retired", "both"})
         /\ Shortlist(read).ideas \in Lists
         /\ IsInjective(Shortlist(read).ideas)
         /\ \A i \in DOMAIN Shortlist(read).ideas :
              \A g \in ToSet(Shortlist(read).ideas[i]) : read[g] = "active"
         /\ Shortlist(read).ideas = <<>> =>
              LET Has(slot) == \E g \in Garments : read[g] = "active" /\ Slot(Shelf, g) = slot
              IN ~Has("dress") /\ ~(Has("top") /\ Has("bottom"))
<1> DEFINE S == {g \in Garments : read[g] = "active"}
           C == Candidates(Shelf, S, AnySeason)
           r == Suggestions(Shelf, S, AnySeason, Limit)
           ideas == [i \in DOMAIN r |-> r[i].ids]
<1>1. /\ Shortlist(read).loaded = TRUE /\ Shortlist(read).read = read
      /\ Shortlist(read).inLaundry = Count(read, {"laundry"})
      /\ Shortlist(read).retired = Count(read, {"retired", "both"})
      /\ Shortlist(read).ideas = ideas
  BY DEF Shortlist, SaveItemIds
<1>2. IsShelf(Shelf) /\ S \in SUBSET DOMAIN Shelf.category /\ S \subseteq Garments
  BY ShelfAssumption DEF Garments
<1>3. /\ r \in Seq(C)
      /\ \A j, k \in 1..Len(r) : j < k => Before(r[j], r[k])
      /\ r = <<>> <=> C = {}
  <2> HIDE DEF S
  <2> QED  BY <1>2, LimitAssumption, SuggestionsAre
<1>4. Rankable(C)
  <2> HIDE DEF S
  <2> QED  BY <1>2, CandidatesAreRankable
<1>5. ASSUME NEW o \in C  PROVE o.ids \in Seq(S)
  <2> HIDE DEF S
  <2>1. PICK t \in ToSet(OutfitTemplates) : IsOutfit(Shelf, S, AnySeason, t, o.ids)
    BY <1>2, CandidatesAre
  <2> QED  BY <2>1 DEF IsOutfit, Grows
<1>6. ASSUME NEW slot  PROVE Wearable(Shelf, S, slot, AnySeason) <=>
                              \E g \in Garments : read[g] = "active" /\ Slot(Shelf, g) = slot
  BY DEF Wearable, Belongs, Eligible, InSeason
<1>7. C # {} <=> \/ Wearable(Shelf, S, "dress", AnySeason)
                 \/ Wearable(Shelf, S, "top", AnySeason) /\ Wearable(Shelf, S, "bottom", AnySeason)
  <2> HIDE DEF S
  <2> QED  BY <1>2, CandidatesExist
<1> HIDE DEF r, C
<1>8. DOMAIN r = 1..Len(r) /\ Len(r) \in Nat /\ \A i \in DOMAIN r : r[i] \in C
  BY <1>3
<1>9. \A i \in DOMAIN r : r[i].ids \in Seq(S) /\ r[i].ids \in Seq(Garments)
  <2> TAKE i \in DOMAIN r
  <2>1. r[i].ids \in Seq(S)
    BY <1>5, <1>8
  <2> HIDE DEF S
  <2> QED  BY <1>2, <2>1
<1>10. ideas \in Lists /\ DOMAIN ideas = 1..Len(r) /\ \A i \in 1..Len(r) : ideas[i] = r[i].ids
  <2>1. ideas \in [1..Len(r) -> Seq(Garments)]
    BY <1>8, <1>9
  <2>2. Len(r) \in Nat /\ DOMAIN r = 1..Len(r)
    BY <1>8
  <2> HIDE DEF S
  <2>3. DOMAIN ideas = 1..Len(r) /\ \A i \in 1..Len(r) : ideas[i] = r[i].ids
    BY <2>2
  <2> HIDE DEF ideas
  <2>4. ideas \in Seq(Seq(Garments))
    BY ONLY <2>1, <2>2
  <2> QED  BY <2>3, <2>4 DEF Lists
<1>11. IsInjective(ideas)
  <2> SUFFICES ASSUME NEW j \in 1..Len(r), NEW k \in 1..Len(r), ideas[j] = ideas[k]  PROVE j = k
    BY <1>10 DEF IsInjective
  <2>1. r[j].ids = r[k].ids /\ r[j] \in C /\ r[k] \in C
    BY <1>8, <1>10
  <2>2. r[j] = r[k]
    BY <1>4, <2>1 DEF Rankable
  <2>3. r[j].ids \in Seq(Nat) /\ r[j].score \in Int
    BY <1>4, <2>1 DEF Rankable
  <2>4. ~Before(r[j], r[j])
    BY <2>3, LowerIsStrict DEF Before
  <2>5. ~(j < k) /\ ~(k < j)
    BY <1>3, <2>2, <2>4
  <2>6. j \in Int /\ k \in Int
    BY <1>8
  <2> QED  BY <2>5, <2>6
<1>12. ASSUME NEW i \in DOMAIN ideas, NEW g \in ToSet(ideas[i])  PROVE read[g] = "active"
  <2>1. ideas[i] \in Seq(S)
    BY <1>9, <1>10, <1>8
  <2>2. g \in S
    <3> HIDE DEF S, ideas
    <3> QED  BY <2>1 DEF ToSet
  <2> QED  BY <2>2
<1>13. ideas = <<>> => C = {}
  <2>1. ideas = <<>> => DOMAIN r = {}
    BY <1>10
  <2>2. DOMAIN r = {} => r = <<>>
    BY <1>3, <1>8
  <2> QED  BY <1>3, <2>1, <2>2
<1> HIDE DEF ideas, S
<1> QED  BY <1>1, <1>6, <1>7, <1>10, <1>11, <1>12, <1>13

\* The types of the part, and what the last commit left of them.
IdeasShape ==
  /\ wardrobe \in Reads /\ mode \in {"item", "outfit", "suggestion"}
  /\ composerSaving \in BOOLEAN /\ savingSuggestions \in Nat
  /\ typed \in Names /\ chosen \subseteq Garments /\ preselected \in Seq(Garments)
  /\ cards \in Seq(CardSet) /\ pane \in {NotMounted} \cup Panes
  /\ composer \in {NotMounted} \cup Composers
  /\ gets \subseteq GetSet /\ posts \subseteq PostSet /\ spent \in Spendings
  /\ mode # "item" => spent.taps > 0
  /\ shown.composer \in {NotMounted} \cup Composers
  /\ shown.mode = "outfit" => shown.composer # NotMounted

\* A mount is numbered by the taps before it, and no two share a number: each
\* has at most one shortlist on its way, and waits while it has.
OneFetch ==
  /\ \A r, q \in gets : r.pane = q.pane => r = q
  /\ \A r \in gets : r.pane = pane.mount \/ r.pane < spent.taps
  /\ pane.mount <= spent.taps
  /\ pane.mount > 0 /\ mode # "suggestion" => pane.mount < spent.taps
  /\ pane.mount > 0 => (pane.inFlight <=> \E r \in gets : r.pane = pane.mount)

\* The cards on the screen: one for a key, none without a shortlist; while a
\* shortlist is on its way, those born since it was asked for are of the one drawn.
CardsDealt ==
  /\ \A i, j \in DOMAIN cards : cards[i].key = cards[j].key => i = j
  /\ cards # <<>> => pane.mount > 0 /\ pane.snapshot.loaded
  /\ \A i \in DOMAIN cards :
       /\ cards[i].born <= spent.gets
       /\ cards[i].born = spent.gets /\ pane.inFlight =>
            \E k \in DOMAIN pane.snapshot.ideas : pane.snapshot.ideas[k] = cards[i].key

\* A card's save is its own, and no card to come can be taken for it; the
\* chips come on in no frame in which a card that saves has left the screen.
OfCard(p) == p.from = "card"
OnScreen(p) == \E i \in DOMAIN cards : Owner(cards[i]) = p.who
Superseded(p) ==
  /\ pane.mount > 0 /\ ~pane.inFlight /\ pane.snapshot.loaded
  /\ \A k \in DOMAIN pane.snapshot.ideas : pane.snapshot.ideas[k] # p.ids
CardPost(p) ==
  /\ p.who \in Seq(Garments) \X Nat /\ p.who[1] = p.ids /\ p.who[2] <= spent.gets
  /\ p.who[2] = spent.gets => OnScreen(p) \/ pane.mount = 0 \/ Superseded(p)
  /\ shown.savingSuggestions = 0 => OnScreen(p)
Keeps(p) == p.at = "stored" => \E o \in outfits : o.ids = p.ids /\ o.name = p.name

PostsKnown ==
  /\ \A p \in posts : p.n < spent.posts /\ Keeps(p) /\ (OfCard(p) => CardPost(p))
  /\ \A p, q \in posts : p.n = q.n => p = q
  /\ \A p, q \in posts : OfCard(p) /\ OfCard(q) /\ p.who = q.who => p = q
  /\ \A i \in DOMAIN cards :
       cards[i].ref <=> \E p \in posts : OfCard(p) /\ p.who = Owner(cards[i])

\* The composer's save is its own: no mount to come can be taken for it.
OfComposer(p) == p.from = "composer"
ComposerKnown ==
  /\ composer.mount <= spent.taps
  /\ composer.mount > 0 /\ mode # "outfit" => composer.mount < spent.taps
  /\ \A p \in posts : OfComposer(p) =>
       p.who \in Nat /\ (p.who = composer.mount \/ p.who < spent.taps) /\ p.who > 0
  /\ \A p, q \in posts : OfComposer(p) /\ OfComposer(q) /\ p.who = q.who => p = q
  /\ composer # NotMounted =>
       (composer.ref <=> \E p \in posts : OfComposer(p) /\ p.who = composer.mount)

\* The count and the bit behind the chips.
CardPosts == {p \in posts : p.from = "card"}
SavesCounted ==
  /\ IsFiniteSet(posts) /\ savingSuggestions = Cardinality(CardPosts)
  /\ savingSuggestions <= spent.posts
  /\ composerSaving => \E p \in posts : OfComposer(p)

IdeasInv ==
  /\ IdeasShape /\ OneFetch /\ CardsDealt /\ PostsKnown /\ ComposerKnown /\ SavesCounted
  /\ SavedIsStored /\ NothingChosenIsLost /\ NothingTypedIsLost

\* The part starts as the invariant says.
LEMMA IdeasInvInit ==
  ASSUME IdeasInit  PROVE IdeasInv
<1> USE IdeasBoundsAssumption DEF IdeasInit
<1>1. IdeasShape
  <2>1. wardrobe \in Reads
    BY DEF Reads, Statuses
  <2>2. spent \in Spendings /\ spent.taps = 0
    BY DEF Spendings
  <2>3. shown.composer = NotMounted /\ shown.mode = "item"
    BY DEF Shown
  <2>4. cards \in Seq(CardSet) /\ preselected \in Seq(Garments) /\ typed \in Names
    BY DEF NotChosen, NoName, Names
  <2>5. mode = "item" /\ composerSaving = FALSE /\ savingSuggestions = 0 /\ chosen = {} /\ gets = {}
        /\ posts = {} /\ pane = NotMounted /\ composer = NotMounted
    OBVIOUS
  <2> QED  BY ONLY <2>1, <2>2, <2>3, <2>4, <2>5 DEF IdeasShape
<1>2. OneFetch
  BY DEF OneFetch, NotMounted
<1>3. CardsDealt
  BY DEF CardsDealt
<1>4. PostsKnown
  BY DEF PostsKnown
<1>5. ComposerKnown
  BY DEF ComposerKnown, NotMounted
<1>6. SavesCounted
  <2>1. CardPosts = {}
    BY DEF CardPosts
  <2> QED  BY <2>1, FS_EmptySet DEF SavesCounted
<1>7. SavedIsStored /\ NothingChosenIsLost /\ NothingTypedIsLost
  BY DEF SavedIsStored, NothingChosenIsLost, NothingTypedIsLost, ToSet
<1> QED  BY <1>1, <1>2, <1>3, <1>4, <1>5, <1>6, <1>7 DEF IdeasInv

\* What is spent is spent.
LEMMA SpentIs ==
  ASSUME spent \in Spendings
  PROVE  /\ spent.gets \in Nat /\ spent.posts \in Nat /\ spent.taps \in Nat
         /\ Spend("gets", MaxGets) =>
              /\ spent' \in Spendings /\ spent'.gets = spent.gets + 1
              /\ spent'.posts = spent.posts /\ spent'.taps = spent.taps
         /\ Spend("posts", MaxOutfitPosts) =>
              /\ spent' \in Spendings /\ spent'.posts = spent.posts + 1
              /\ spent'.gets = spent.gets /\ spent'.taps = spent.taps
         /\ Spend("taps", MaxTaps) =>
              /\ spent' \in Spendings /\ spent'.taps = spent.taps + 1
              /\ spent'.gets = spent.gets /\ spent'.posts = spent.posts
         /\ Spend("troubles", MaxTroubles) =>
              /\ spent' \in Spendings /\ spent'.taps = spent.taps
              /\ spent'.gets = spent.gets /\ spent'.posts = spent.posts
<1> USE IdeasBoundsAssumption DEF Spendings
<1>1. spent.gets \in Nat /\ spent.posts \in Nat /\ spent.taps \in Nat /\ spent.troubles \in Nat
  OBVIOUS
<1>2. ASSUME Spend("gets", MaxGets)
      PROVE  /\ spent' \in Spendings /\ spent'.gets = spent.gets + 1
             /\ spent'.posts = spent.posts /\ spent'.taps = spent.taps
  BY <1>1, <1>2 DEF Spend
<1>3. ASSUME Spend("posts", MaxOutfitPosts)
      PROVE  /\ spent' \in Spendings /\ spent'.posts = spent.posts + 1
             /\ spent'.gets = spent.gets /\ spent'.taps = spent.taps
  BY <1>1, <1>3 DEF Spend
<1>4. ASSUME Spend("taps", MaxTaps)
      PROVE  /\ spent' \in Spendings /\ spent'.taps = spent.taps + 1
             /\ spent'.gets = spent.gets /\ spent'.posts = spent.posts
  BY <1>1, <1>4 DEF Spend
<1>5. ASSUME Spend("troubles", MaxTroubles)
      PROVE  /\ spent' \in Spendings /\ spent'.taps = spent.taps
             /\ spent'.gets = spent.gets /\ spent'.posts = spent.posts
  BY <1>1, <1>5 DEF Spend
<1> QED  BY <1>1, <1>2, <1>3, <1>4, <1>5

\* What leaves alone the state a part of the invariant is about keeps it.
LEMMA FetchFrame ==
  ASSUME OneFetch, UNCHANGED <<gets, pane, mode>>, spent.taps \in Nat, spent'.taps \in Nat,
         spent.taps <= spent'.taps, pane \in {NotMounted} \cup Panes, gets \subseteq GetSet
  PROVE  OneFetch'
<1>1. pane.mount \in Nat /\ \A r \in gets : r.pane \in Nat
  BY DEF NotMounted, Panes, GetSet
<1> QED  BY <1>1 DEF OneFetch

\* So do cards that are not dealt anew.
LEMMA CardsFrame ==
  ASSUME CardsDealt, UNCHANGED <<cards, pane>>, spent'.gets = spent.gets
  PROVE  CardsDealt'
BY DEF CardsDealt

\* So do posts that stay as they are.
LEMMA PostsFrame ==
  ASSUME PostsKnown, UNCHANGED <<posts, cards, pane, shown>>, outfits \subseteq outfits',
         posts \subseteq PostSet, spent.posts \in Nat, spent'.posts \in Nat,
         spent'.gets = spent.gets, spent.posts <= spent'.posts
  PROVE  PostsKnown'
<1>1. \A p \in posts : p.n \in Nat
  BY DEF PostSet
<1>2. ASSUME NEW p \in posts  PROVE p.n < spent'.posts /\ Keeps(p)' /\ (OfCard(p) => CardPost(p)')
  BY <1>1 DEF PostsKnown, CardPost, OnScreen, Superseded, Owner, Keeps
<1> QED  BY <1>2 DEF PostsKnown, OfCard, Owner

\* So do a composer and its saves.
LEMMA ComposerFrame ==
  ASSUME ComposerKnown, UNCHANGED <<composer, posts, mode>>, spent.taps \in Nat, spent'.taps \in Nat,
         spent.taps <= spent'.taps, composer \in {NotMounted} \cup Composers
  PROVE  ComposerKnown'
<1>1. composer.mount \in Nat
  BY DEF NotMounted, Composers
<1> QED  BY <1>1 DEF ComposerKnown, OfComposer

\* So do the count and the bit.
LEMMA CountFrame ==
  ASSUME SavesCounted, UNCHANGED <<posts, savingSuggestions, composerSaving>>,
         savingSuggestions \in Nat, spent.posts \in Nat, spent'.posts \in Nat,
         spent.posts <= spent'.posts
  PROVE  SavesCounted'
BY DEF SavesCounted, CardPosts, OfComposer

\* So do what is claimed and what is chosen, while nothing stored is lost.
LEMMA WordsFrame ==
  ASSUME outfits \subseteq outfits'
  PROVE  /\ UNCHANGED cards /\ SavedIsStored => SavedIsStored'
         /\ UNCHANGED <<composer, chosen>> /\ NothingChosenIsLost => NothingChosenIsLost'
         /\ UNCHANGED <<composer, typed>> /\ NothingTypedIsLost => NothingTypedIsLost'
<1>1. ASSUME UNCHANGED cards, SavedIsStored  PROVE SavedIsStored'
  BY <1>1 DEF SavedIsStored
<1>2. ASSUME UNCHANGED <<composer, chosen>>, NothingChosenIsLost  PROVE NothingChosenIsLost'
  BY <1>2 DEF NothingChosenIsLost
<1>3. ASSUME UNCHANGED <<composer, typed>>, NothingTypedIsLost  PROVE NothingTypedIsLost'
  BY <1>3 DEF NothingTypedIsLost
<1> QED  BY <1>1, <1>2, <1>3
\* A request that gets on stays the request of its mount.
LEMMA FetchGetsOn ==
  ASSUME OneFetch, NEW r \in gets, NEW s, s.pane = r.pane, Turns(r, s),
         UNCHANGED <<pane, mode>>, spent'.taps = spent.taps
  PROVE  OneFetch'
<1>1. \A q \in gets' : q = s \/ (q \in gets /\ q # r)
  BY DEF Turns
<1>2. s \in gets' /\ \A q \in gets : q = r \/ q \in gets'
  BY DEF Turns
<1>3. \A q, k \in gets : q.pane = k.pane => q = k
  BY DEF OneFetch
<1>4. \A q, k \in gets' : q.pane = k.pane => q = k
  BY <1>1, <1>3
<1>5. (\E q \in gets : q.pane = pane.mount) <=> \E q \in gets' : q.pane = pane.mount
  BY <1>1, <1>2
<1> QED  BY <1>1, <1>4, <1>5 DEF OneFetch

\* A change made elsewhere, and what happens to a shortlist on its way.
LEMMA IdeasElsewhereSteps ==
  ASSUME IdeasInv,
         \/ \E g \in Garments : ChangeElsewhere(g)
         \/ \E r \in gets : ReadWardrobe(r) \/ Engine(r) \/ LoseGet(r)
  PROVE  IdeasInv'
<1>0. /\ IdeasShape /\ OneFetch /\ CardsDealt /\ PostsKnown /\ ComposerKnown /\ SavesCounted
      /\ SavedIsStored /\ NothingChosenIsLost /\ NothingTypedIsLost
  BY DEF IdeasInv
<1>1. spent \in Spendings /\ gets \subseteq GetSet /\ posts \subseteq PostSet /\ wardrobe \in Reads
      /\ savingSuggestions \in Nat
      /\ pane \in {NotMounted} \cup Panes /\ composer \in {NotMounted} \cup Composers
  BY <1>0 DEF IdeasShape
<1> DEFINE Rest == /\ spent' \in Spendings /\ spent'.gets = spent.gets /\ spent'.posts = spent.posts
                   /\ spent'.taps = spent.taps /\ wardrobe' \in Reads /\ gets' \subseteq GetSet
                   /\ UNCHANGED <<outfits, mode, preselected, composerSaving, savingSuggestions, pane,
                                  cards, composer, shown, posts, chosen, typed>>
<1>2. ASSUME Rest, OneFetch'  PROVE IdeasInv'
  <2>1. spent.gets \in Nat /\ spent.posts \in Nat /\ spent.taps \in Nat
    BY <1>1, SpentIs
  <2>2. IdeasShape'
    BY <1>0, <1>2 DEF IdeasShape
  <2>3. CardsDealt' /\ PostsKnown' /\ ComposerKnown' /\ SavesCounted'
    BY <1>0, <1>1, <1>2, <2>1, CardsFrame, PostsFrame, ComposerFrame, CountFrame
  <2>4. SavedIsStored' /\ NothingChosenIsLost' /\ NothingTypedIsLost'
    BY <1>0, <1>2, WordsFrame
  <2> QED  BY <1>2, <2>2, <2>3, <2>4 DEF IdeasInv
<1>3. ASSUME NEW g \in Garments, ChangeElsewhere(g)  PROVE Rest /\ OneFetch'
  <2>1. Spend("troubles", MaxTroubles) /\ (\E s \in Statuses : wardrobe' = [wardrobe EXCEPT ![g] = s])
        /\ UNCHANGED <<outfits, screen, shown, gets, posts, chosen, typed>>
    BY <1>3 DEF ChangeElsewhere, Statuses
  <2>2. wardrobe' \in Reads
    BY <1>1, <2>1 DEF Reads
  <2>3. Rest
    BY <1>1, <2>1, <2>2, SpentIs DEF screen
  <2> QED  BY <1>0, <1>1, <2>1, <2>3, FetchFrame, SpentIs
<1>4. ASSUME NEW r \in gets, ReadWardrobe(r)  PROVE Rest /\ OneFetch'
  <2> DEFINE s == [r EXCEPT !.at = "read", !.read = wardrobe]
  <2>1. Turns(r, s) /\ UNCHANGED <<wardrobe, outfits, screen, shown, posts, spent, chosen, typed>>
    BY Zenon, <1>4 DEF ReadWardrobe
  <2>2. s \in GetSet /\ s.pane = r.pane
    BY <1>1 DEF GetSet
  <2> HIDE DEF s
  <2>3. gets' \subseteq GetSet
    BY <1>1, <2>1, <2>2 DEF Turns
  <2> QED  BY <1>0, <1>1, <2>1, <2>2, <2>3, FetchGetsOn DEF screen
<1>5. ASSUME NEW r \in gets, Engine(r)  PROVE Rest /\ OneFetch'
  <2> DEFINE s == [r EXCEPT !.at = "answered"]
  <2>1. Turns(r, s) /\ UNCHANGED <<wardrobe, outfits, screen, shown, posts, spent, chosen, typed>>
    BY Zenon, <1>5 DEF Engine
  <2>2. s \in GetSet /\ s.pane = r.pane
    BY <1>1 DEF GetSet
  <2> HIDE DEF s
  <2>3. gets' \subseteq GetSet
    BY <1>1, <2>1, <2>2 DEF Turns
  <2> QED  BY <1>0, <1>1, <2>1, <2>2, <2>3, FetchGetsOn DEF screen
<1>6. ASSUME NEW r \in gets, LoseGet(r)  PROVE Rest /\ OneFetch'
  <2> DEFINE s == [r EXCEPT !.at = IF r.at = "read" THEN "unavailable" ELSE "other"]
  <2>1. Turns(r, s) /\ Spend("troubles", MaxTroubles)
        /\ UNCHANGED <<wardrobe, outfits, screen, shown, posts, chosen, typed>>
    BY Zenon, <1>6 DEF LoseGet
  <2>2. s \in GetSet /\ s.pane = r.pane
    BY <1>1 DEF GetSet
  <2> HIDE DEF s
  <2>3. gets' \subseteq GetSet
    BY <1>1, <2>1, <2>2 DEF Turns
  <2> QED  BY <1>0, <1>1, <2>1, <2>2, <2>3, FetchGetsOn, SpentIs DEF screen
<1> HIDE DEF Rest
<1> QED  BY <1>2, <1>3, <1>4, <1>5, <1>6

\* A shortlist that lands, on its pane or on none.
LEMMA IdeasDeliverStep ==
  ASSUME IdeasInv, NEW r \in gets, DeliverGet(r)
  PROVE  IdeasInv'
<1>0. /\ IdeasShape /\ OneFetch /\ CardsDealt /\ PostsKnown /\ ComposerKnown /\ SavesCounted
      /\ SavedIsStored /\ NothingChosenIsLost /\ NothingTypedIsLost
  BY DEF IdeasInv
<1>1. spent \in Spendings /\ gets \subseteq GetSet /\ posts \subseteq PostSet
      /\ savingSuggestions \in Nat /\ spent.taps \in Nat /\ spent.gets \in Nat /\ spent.posts \in Nat
      /\ pane \in {NotMounted} \cup Panes /\ composer \in {NotMounted} \cup Composers
  BY <1>0, SpentIs DEF IdeasShape
<1>2. /\ r.at \in {"answered", "unavailable", "other"} /\ gets' = gets \ {r}
      /\ pane' = (IF pane.mount = r.pane THEN Reply(r) ELSE pane)
      /\ UNCHANGED <<wardrobe, outfits, mode, preselected, composerSaving, savingSuggestions, cards,
                     composer, shown, posts, spent, chosen, typed>>
  BY DEF DeliverGet
<1>3. r.pane \in Nat \ {0} /\ r.read \in Reads
  BY <1>1 DEF GetSet
<1>4. ASSUME pane.mount = r.pane
      PROVE  /\ Reply(r) \in Panes /\ Reply(r).mount = pane.mount /\ Reply(r).inFlight = FALSE
             /\ pane.snapshot.loaded => Reply(r).snapshot.loaded
             /\ pane \in Panes /\ pane.inFlight
  <2>1. pane \in Panes
    BY <1>1, <1>3, <1>4 DEF NotMounted
  <2>2. /\ Reply(r).mount = pane.mount /\ Reply(r).inFlight = FALSE
        /\ Reply(r).snapshot = (IF r.at = "answered" THEN Shortlist(r.read) ELSE pane.snapshot)
        /\ Reply(r).failed = (IF r.at = "answered" THEN "no" ELSE r.at)
        /\ Reply(r) \in [mount : {pane.mount}, snapshot : {Reply(r).snapshot},
                         failed : {Reply(r).failed}, inFlight : {FALSE}]
    BY <2>1 DEF Reply, Panes
  <2>3. Shortlist(r.read) \in Shortlists /\ Shortlist(r.read).loaded
    BY <1>3 DEF Shortlists, Shortlist
  <2>4. pane.mount \in Nat \ {0} /\ pane.snapshot \in {NotLoaded} \cup Shortlists
    BY <2>1 DEF Panes
  <2>5. Reply(r) \in Panes
    BY <1>2, <2>2, <2>3, <2>4 DEF Panes
  <2> QED  BY <1>0, <1>3, <1>4, <2>1, <2>2, <2>3, <2>5 DEF OneFetch
<1>5. /\ pane' \in {NotMounted} \cup Panes /\ pane'.mount = pane.mount
      /\ pane.snapshot.loaded /\ pane.mount > 0 => pane'.snapshot.loaded
      /\ pane' = pane \/ (pane.mount = r.pane /\ pane.inFlight /\ ~pane'.inFlight)
  BY <1>1, <1>2, <1>4
<1>6. IdeasShape'
  BY <1>0, <1>2, <1>5 DEF IdeasShape
<1>7. OneFetch'
  <2>1. CASE pane.mount = r.pane
    <3>1. ~pane'.inFlight
      BY <1>2, <1>4, <2>1
    <3> QED  BY <1>0, <1>2, <1>5, <2>1, <3>1 DEF OneFetch
  <2>2. CASE pane.mount # r.pane
    <3>1. pane' = pane
      BY <1>2, <2>2
    <3> QED  BY <1>0, <1>2, <2>2, <3>1 DEF OneFetch
  <2> QED  BY <2>1, <2>2
<1>8. CardsDealt'
  BY <1>0, <1>2, <1>5 DEF CardsDealt
<1>9. PostsKnown'
  <2>1. ASSUME NEW p \in posts  PROVE Keeps(p)' /\ (OfCard(p) => CardPost(p)')
    <3>1. Keeps(p) /\ (OfCard(p) => CardPost(p))
      BY <1>0 DEF PostsKnown
    <3>2. OnScreen(p) => OnScreen(p)'
      BY <1>2 DEF OnScreen, Owner
    <3>3. Superseded(p) => Superseded(p)'
      BY <1>5 DEF Superseded
    <3> QED  BY <1>2, <1>5, <3>1, <3>2, <3>3 DEF Keeps, CardPost
  <2> QED  BY <1>0, <1>2, <2>1 DEF PostsKnown, OfCard, Owner
<1>10. ComposerKnown' /\ SavesCounted' /\ SavedIsStored' /\ NothingChosenIsLost' /\ NothingTypedIsLost'
  BY <1>0, <1>1, <1>2, ComposerFrame, CountFrame, WordsFrame
<1> QED  BY <1>6, <1>7, <1>8, <1>9, <1>10 DEF IdeasInv
\* A shortlist asked for again: what is on the screen was born before it.
LEMMA IdeasRefreshStep ==
  ASSUME IdeasInv, RefreshIdeas
  PROVE  IdeasInv'
<1>0. /\ IdeasShape /\ OneFetch /\ CardsDealt /\ PostsKnown /\ ComposerKnown /\ SavesCounted
      /\ SavedIsStored /\ NothingChosenIsLost /\ NothingTypedIsLost
  BY DEF IdeasInv
<1>1. spent \in Spendings /\ gets \subseteq GetSet /\ posts \subseteq PostSet /\ wardrobe \in Reads
      /\ savingSuggestions \in Nat /\ spent.taps \in Nat /\ spent.gets \in Nat /\ spent.posts \in Nat
      /\ pane \in {NotMounted} \cup Panes /\ composer \in {NotMounted} \cup Composers
      /\ cards \in Seq(CardSet)
  BY <1>0, SpentIs DEF IdeasShape
<1> DEFINE waits == [pane EXCEPT !.inFlight = TRUE, !.failed = "no"]
           asked == Request(pane.mount)
<1>2. /\ pane.mount > 0 /\ ~pane.inFlight /\ Spend("gets", MaxGets)
      /\ pane' = waits /\ gets' = gets \cup {asked}
      /\ UNCHANGED <<wardrobe, outfits, mode, preselected, composerSaving, savingSuggestions, cards,
                     composer, shown, posts, chosen, typed>>
  BY DEF RefreshIdeas
<1>3. pane \in Panes /\ pane.mount \in Nat \ {0}
  BY <1>1, <1>2 DEF NotMounted, Panes
<1>4. waits \in Panes /\ waits.mount = pane.mount /\ waits.snapshot = pane.snapshot /\ waits.inFlight
  BY <1>3 DEF Panes
<1>5. asked \in GetSet /\ asked.pane = pane.mount
  BY <1>1, <1>3 DEF Request, GetSet
<1> HIDE DEF waits, asked
<1>6. /\ spent' \in Spendings /\ spent'.gets = spent.gets + 1
      /\ spent'.posts = spent.posts /\ spent'.taps = spent.taps
  BY <1>1, <1>2, SpentIs
<1>7. IdeasShape'
  BY <1>0, <1>1, <1>2, <1>4, <1>5, <1>6 DEF IdeasShape
<1>8. OneFetch'
  BY <1>0, <1>2, <1>4, <1>5, <1>6 DEF OneFetch
<1>9. CardsDealt'
  <2>1. \A i \in DOMAIN cards : cards[i].born \in Nat /\ cards[i].born <= spent.gets
    <3>1. \A i \in DOMAIN cards : cards[i] \in CardSet
      BY <1>1
    <3> QED  BY <1>0, <3>1 DEF CardsDealt, CardSet
  <2> QED  BY <1>0, <1>1, <1>2, <1>4, <1>6, <2>1 DEF CardsDealt
<1>10. PostsKnown'
  <2>1. ASSUME NEW p \in posts  PROVE Keeps(p)' /\ (OfCard(p) => CardPost(p)')
    <3>1. Keeps(p) /\ (OfCard(p) => CardPost(p))
      BY <1>0 DEF PostsKnown
    <3>2. OnScreen(p) => OnScreen(p)'
      BY <1>2 DEF OnScreen, Owner
    <3>3. OfCard(p) => p.who[2] \in Nat /\ p.who[2] <= spent.gets
      BY <3>1 DEF CardPost
    <3> QED  BY <1>1, <1>2, <1>6, <3>1, <3>2, <3>3 DEF Keeps, CardPost
  <2> QED  BY <1>0, <1>2, <1>6, <2>1 DEF PostsKnown, OfCard, Owner
<1>11. ComposerKnown' /\ SavesCounted' /\ SavedIsStored' /\ NothingChosenIsLost' /\ NothingTypedIsLost'
  BY <1>0, <1>1, <1>2, <1>6, ComposerFrame, CountFrame, WordsFrame
<1> QED  BY <1>7, <1>8, <1>9, <1>10, <1>11 DEF IdeasInv

\* A tap on a chip, or on Modify: another mode, numbered by a tap of its own.
LEMMA IdeasModeSteps ==
  ASSUME IdeasInv,
         \/ \E m \in {"item", "outfit", "suggestion"} : SelectMode(m)
         \/ \E i \in DOMAIN cards : Modify(i)
  PROVE  IdeasInv'
<1>0. /\ IdeasShape /\ OneFetch /\ CardsDealt /\ PostsKnown /\ ComposerKnown /\ SavesCounted
      /\ SavedIsStored /\ NothingChosenIsLost /\ NothingTypedIsLost
  BY DEF IdeasInv
<1>1. spent \in Spendings /\ gets \subseteq GetSet /\ posts \subseteq PostSet
      /\ savingSuggestions \in Nat /\ spent.taps \in Nat /\ spent.gets \in Nat /\ spent.posts \in Nat
      /\ pane \in {NotMounted} \cup Panes /\ composer \in {NotMounted} \cup Composers
      /\ cards \in Seq(CardSet)
  BY <1>0, SpentIs DEF IdeasShape
<1>2. /\ mode' \in {"item", "outfit", "suggestion"} /\ preselected' \in Seq(Garments)
      /\ Spend("taps", MaxTaps)
      /\ UNCHANGED <<wardrobe, outfits, composerSaving, savingSuggestions, pane, cards, composer,
                     shown, gets, posts, chosen, typed>>
  <2>1. CASE \E m \in {"item", "outfit", "suggestion"} : SelectMode(m)
    BY <2>1 DEF SelectMode, Goes, NotChosen
  <2>2. CASE \E i \in DOMAIN cards : Modify(i)
    <3>1. PICK i \in DOMAIN cards : Modify(i)
      BY <2>2
    <3>2. cards[i] \in CardSet
      BY <1>1
    <3>3. cards[i].key \in Seq(Garments)
      BY <3>2 DEF CardSet
    <3> QED  BY <3>1, <3>3 DEF Modify, Goes
  <2> QED  BY <2>1, <2>2
<1>3. /\ spent' \in Spendings /\ spent'.taps = spent.taps + 1
      /\ spent'.gets = spent.gets /\ spent'.posts = spent.posts
  BY <1>1, <1>2, SpentIs
<1>4. pane.mount \in Nat /\ composer.mount \in Nat /\ \A r \in gets : r.pane \in Nat
  BY <1>1 DEF NotMounted, Panes, Composers, GetSet
<1>5. IdeasShape'
  BY <1>0, <1>1, <1>2, <1>3 DEF IdeasShape
<1>6. OneFetch'
  BY <1>0, <1>1, <1>2, <1>3, <1>4 DEF OneFetch
<1>7. ComposerKnown'
  BY <1>0, <1>1, <1>2, <1>3, <1>4 DEF ComposerKnown, OfComposer
<1>8. CardsDealt' /\ PostsKnown' /\ SavesCounted'
  BY <1>0, <1>1, <1>2, <1>3, CardsFrame, PostsFrame, CountFrame
<1>9. SavedIsStored' /\ NothingChosenIsLost' /\ NothingTypedIsLost'
  BY <1>0, <1>2, WordsFrame
<1> QED  BY <1>5, <1>6, <1>7, <1>8, <1>9 DEF IdeasInv

\* A tap on a garment, and a name typed.
LEMMA IdeasHandSteps ==
  ASSUME IdeasInv, (\E g \in Garments : Toggle(g)) \/ (\E n \in Names : TypeName(n))
  PROVE  IdeasInv'
<1>0. /\ IdeasShape /\ OneFetch /\ CardsDealt /\ PostsKnown /\ ComposerKnown /\ SavesCounted
      /\ SavedIsStored /\ NothingChosenIsLost /\ NothingTypedIsLost
  BY DEF IdeasInv
<1>1. spent \in Spendings /\ gets \subseteq GetSet /\ posts \subseteq PostSet
      /\ savingSuggestions \in Nat /\ spent.taps \in Nat /\ spent.gets \in Nat /\ spent.posts \in Nat
      /\ pane \in {NotMounted} \cup Panes /\ composer \in {NotMounted} \cup Composers
      /\ chosen \subseteq Garments
  BY <1>0, SpentIs DEF IdeasShape
<1> DEFINE Rest == /\ Spend("taps", MaxTaps) /\ chosen' \subseteq Garments /\ typed' \in Names
                   /\ composer \in Composers /\ composer' \in Composers
                   /\ composer'.mount = composer.mount /\ composer'.ref = composer.ref
                   /\ UNCHANGED <<wardrobe, outfits, mode, preselected, composerSaving,
                                  savingSuggestions, pane, cards, shown, gets, posts>>
<1>2. ASSUME Rest, NothingChosenIsLost', NothingTypedIsLost'  PROVE IdeasInv'
  <2>1. /\ spent' \in Spendings /\ spent'.taps = spent.taps + 1
        /\ spent'.gets = spent.gets /\ spent'.posts = spent.posts
    BY <1>1, <1>2, SpentIs
  <2>2. IdeasShape'
    BY <1>0, <1>1, <1>2, <2>1 DEF IdeasShape
  <2>3. OneFetch' /\ CardsDealt' /\ PostsKnown' /\ SavesCounted' /\ SavedIsStored'
    BY <1>0, <1>1, <1>2, <2>1, FetchFrame, CardsFrame, PostsFrame, CountFrame, WordsFrame
  <2>4. composer # NotMounted /\ composer' # NotMounted /\ composer.mount \in Nat
    BY <1>2 DEF Composers, NotMounted
  <2>5. ComposerKnown'
    BY <1>0, <1>1, <1>2, <2>1, <2>4 DEF ComposerKnown, OfComposer
  <2> QED  BY <1>2, <2>2, <2>3, <2>5 DEF IdeasInv
<1>3. ASSUME NEW g \in Garments, Toggle(g)  PROVE Rest /\ NothingChosenIsLost' /\ NothingTypedIsLost'
  <2> DEFINE c == [composer EXCEPT !.selected = Toggled(@, g)]
  <2>1. /\ Composing /\ Spend("taps", MaxTaps) /\ composer' = c
        /\ chosen' = (IF g \in ToSet(composer.selected) THEN chosen \ {g}
                      ELSE chosen \cup (ToSet(composer'.selected) \ ToSet(composer.selected)))
        /\ UNCHANGED <<wardrobe, outfits, mode, preselected, composerSaving, savingSuggestions, pane,
                       cards, shown, gets, posts, typed>>
    BY <1>3 DEF Toggle
  <2>2. composer \in Composers /\ composer.selected \in Seq(Garments)
    BY <1>1, <2>1 DEF Composing, Composers
  <2>3. /\ Toggled(composer.selected, g) \in Seq(Garments)
        /\ ToSet(composer.selected) \ {g} \subseteq ToSet(Toggled(composer.selected, g))
        /\ ToSet(Toggled(composer.selected, g)) \subseteq Garments
        /\ g \notin ToSet(composer.selected) =>
             ToSet(composer.selected) \subseteq ToSet(Toggled(composer.selected, g))
    <3> DEFINE ids == composer.selected
    <3> HIDE DEF ids
    <3>1. ids \in Seq(Garments)
      BY <2>2 DEF ids
    <3>2. CASE g \in ToSet(ids)
      <4>1. Toggled(ids, g) = Without(ids, {g})
        BY <3>2 DEF Toggled
      <4>2. Without(ids, {g}) \in Seq(Garments) /\ ToSet(Without(ids, {g})) = ToSet(ids) \ {g}
        BY <3>1, WithoutRows
      <4>3. ToSet(Without(ids, {g})) \subseteq Garments
        BY <4>2 DEF ToSet
      <4> QED  BY <3>2, <4>1, <4>2, <4>3 DEF ids
    <3>3. CASE g \notin ToSet(ids)
      <4>1. Toggled(ids, g) \in {Append(ids, g), ids}
        BY <3>3 DEF Toggled
      <4>2. ASSUME NEW s \in {Append(ids, g), ids}
            PROVE  s \in Seq(Garments) /\ ToSet(ids) \subseteq ToSet(s) /\ ToSet(s) \subseteq Garments
        BY <3>1, <4>2 DEF ToSet
      <4> QED  BY <3>3, <4>1, <4>2 DEF ids
    <3> QED  BY <3>2, <3>3
  <2>4. /\ c \in Composers /\ c.mount = composer.mount /\ c.ref = composer.ref /\ c.name = composer.name
        /\ c.selected = Toggled(composer.selected, g)
    BY <2>2, <2>3 DEF Composers
  <2> HIDE DEF c
  <2>5. chosen' \subseteq Garments
    BY <1>1, <2>1, <2>3, <2>4
  <2>6. typed' \in Names
    BY <1>0, <2>1 DEF IdeasShape
  <2>7. Rest
    BY <2>1, <2>2, <2>4, <2>5, <2>6
  <2>8. composer # NotMounted
    BY <2>1 DEF Composing
  <2>9. NothingChosenIsLost'
    <3> SUFFICES ASSUME NEW h \in chosen'
                 PROVE  h \in ToSet(c.selected) \/ \E o \in outfits : h \in ToSet(o.ids)
      BY <2>1 DEF NothingChosenIsLost
    <3>1. h \in chosen => h \in ToSet(composer.selected) \/ \E o \in outfits : h \in ToSet(o.ids)
      BY <1>0, <2>8 DEF NothingChosenIsLost
    <3> QED  BY <2>1, <2>3, <2>4, <3>1
  <2>10. NothingTypedIsLost'
    BY <1>0, <2>1, <2>4, <2>8 DEF NothingTypedIsLost
  <2> QED  BY <2>7, <2>9, <2>10
<1>4. ASSUME NEW n \in Names, TypeName(n)  PROVE Rest /\ NothingChosenIsLost' /\ NothingTypedIsLost'
  <2> DEFINE c == [composer EXCEPT !.name = n]
  <2>1. /\ Composing /\ Spend("taps", MaxTaps) /\ composer' = c /\ typed' = n
        /\ UNCHANGED <<wardrobe, outfits, mode, preselected, composerSaving, savingSuggestions, pane,
                       cards, shown, gets, posts, chosen>>
    BY <1>4 DEF TypeName
  <2>2. composer \in Composers /\ composer # NotMounted
    BY <1>1, <2>1 DEF Composing
  <2>3. /\ c \in Composers /\ c.mount = composer.mount /\ c.ref = composer.ref /\ c.name = n
        /\ c.selected = composer.selected
    BY <2>2 DEF Composers
  <2> HIDE DEF c
  <2>4. Rest
    BY <1>1, <2>1, <2>2, <2>3
  <2> QED  BY <1>0, <2>1, <2>2, <2>3, <2>4 DEF NothingChosenIsLost, NothingTypedIsLost
<1> HIDE DEF Rest
<1> QED  BY <1>2, <1>3, <1>4
\* A save that gets on: the same save, in the place of what it was.
GetsOn(p, s) ==
  /\ posts' = (posts \ {p}) \cup {s}
  /\ s \in PostSet /\ s.n = p.n /\ s.from = p.from /\ s.who = p.who /\ s.ids = p.ids

\* The posts after it: one for one with those before, its own place taken by itself.
LEMMA GotOn ==
  ASSUME PostsKnown, NEW p \in posts, NEW s, GetsOn(p, s)
  PROVE  /\ \A q \in posts' : q = s \/ (q \in posts /\ q # p)
         /\ s \in posts' /\ \A q \in posts : q = p \/ q \in posts'
         /\ s \notin posts \ {p}
BY DEF GetsOn, PostsKnown

\* It stays the save of its card or of its composer, and is counted as before.
LEMMA PostGetsOn ==
  ASSUME PostsKnown, ComposerKnown, SavesCounted, NEW p \in posts, NEW s, GetsOn(p, s), Keeps(s)',
         outfits \subseteq outfits', spent'.gets = spent.gets, spent'.posts = spent.posts,
         spent'.taps = spent.taps,
         UNCHANGED <<cards, pane, shown, composer, mode, savingSuggestions, composerSaving>>
  PROVE  PostsKnown' /\ ComposerKnown' /\ SavesCounted'
<1>1. /\ \A q \in posts' : q = s \/ (q \in posts /\ q # p)
      /\ s \in posts' /\ \A q \in posts : q = p \/ q \in posts'
      /\ s \notin posts \ {p}
  BY GotOn
<1>2. s.n = p.n /\ s.from = p.from /\ s.who = p.who /\ s.ids = p.ids
  BY DEF GetsOn
<1>3. PostsKnown'
  <2>1. ASSUME NEW q \in posts  PROVE OfCard(q) => CardPost(q)'
    <3>1. OfCard(q) => CardPost(q)
      BY DEF PostsKnown
    <3>2. OnScreen(q) => OnScreen(q)'
      BY DEF OnScreen, Owner
    <3>3. Superseded(q) => Superseded(q)'
      BY DEF Superseded
    <3> QED  BY <3>1, <3>2, <3>3 DEF CardPost
  <2>2. CardPost(p)' => CardPost(s)'
    BY <1>2 DEF CardPost, OnScreen, Superseded
  <2>3. ASSUME NEW q \in posts'  PROVE q.n < spent'.posts /\ Keeps(q)' /\ (OfCard(q) => CardPost(q)')
    <3>1. CASE q = s
      BY <1>2, <2>1, <2>2, <3>1 DEF PostsKnown, OfCard
    <3>2. CASE q \in posts
      <4>1. q.n < spent'.posts /\ Keeps(q)
        BY <3>2 DEF PostsKnown
      <4>2. Keeps(q)'
        BY <4>1 DEF Keeps
      <4> QED  BY <2>1, <3>2, <4>1, <4>2
    <3> QED  BY <1>1, <3>1, <3>2
  <2>4. \A q, k \in posts' : q.n = k.n => q = k
    BY <1>1, <1>2 DEF PostsKnown
  <2>5. \A q, k \in posts' : OfCard(q) /\ OfCard(k) /\ q.who = k.who => q = k
    BY <1>1, <1>2 DEF PostsKnown, OfCard
  <2>6. ASSUME NEW i \in DOMAIN cards
        PROVE  cards[i].ref <=> \E q \in posts' : OfCard(q) /\ q.who = Owner(cards[i])
    <3>1. cards[i].ref <=> \E q \in posts : OfCard(q) /\ q.who = Owner(cards[i])
      BY DEF PostsKnown
    <3>2. (\E q \in posts : OfCard(q) /\ q.who = Owner(cards[i]))
            <=> \E q \in posts' : OfCard(q) /\ q.who = Owner(cards[i])
      BY <1>1, <1>2 DEF OfCard
    <3> QED  BY <3>1, <3>2
  <2> QED  BY <2>3, <2>4, <2>5, <2>6 DEF PostsKnown, OfCard, Owner
<1>4. ComposerKnown'
  <2>1. (\E q \in posts : OfComposer(q) /\ q.who = composer.mount)
          <=> \E q \in posts' : OfComposer(q) /\ q.who = composer.mount
    BY <1>1, <1>2 DEF OfComposer
  <2>2. \A q, k \in posts' : OfComposer(q) /\ OfComposer(k) /\ q.who = k.who => q = k
    BY <1>1, <1>2 DEF ComposerKnown, OfComposer
  <2>3. \A q \in posts' : OfComposer(q) =>
          q.who \in Nat /\ (q.who = composer.mount \/ q.who < spent'.taps) /\ q.who > 0
    BY <1>1, <1>2 DEF ComposerKnown, OfComposer
  <2> QED  BY <2>1, <2>2, <2>3 DEF ComposerKnown, OfComposer
<1>5. SavesCounted'
  <2>1. IsFiniteSet(posts) /\ IsFiniteSet(posts \ {p}) /\ IsFiniteSet(posts')
    BY FS_AddElement, FS_RemoveElement DEF SavesCounted, GetsOn
  <2>2. Cardinality(CardPosts') = Cardinality(CardPosts)
    <3>1. CASE OfCard(p)
      <4>1. CardPosts' = (CardPosts \ {p}) \cup {s} /\ p \in CardPosts /\ s \notin CardPosts \ {p}
        BY <1>1, <1>2, <3>1 DEF CardPosts, OfCard
      <4>2. IsFiniteSet(CardPosts)
        BY <2>1, FS_Subset DEF CardPosts
      <4>3. IsFiniteSet(CardPosts \ {p}) /\ Cardinality(CardPosts \ {p}) = Cardinality(CardPosts) - 1
        BY <4>1, <4>2, FS_RemoveElement
      <4>4. Cardinality(CardPosts) \in Nat
        BY <4>2, FS_CardinalityType
      <4>5. Cardinality((CardPosts \ {p}) \cup {s}) = Cardinality(CardPosts \ {p}) + 1
        BY <4>1, <4>3, FS_AddElement
      <4> QED  BY <4>1, <4>3, <4>4, <4>5
    <3>2. CASE ~OfCard(p)
      <4>1. CardPosts' = CardPosts
        BY <1>1, <1>2, <3>2 DEF CardPosts, OfCard
      <4> QED  BY <4>1
    <3> QED  BY <3>1, <3>2
  <2>3. (\E q \in posts : OfComposer(q)) => \E q \in posts' : OfComposer(q)
    BY <1>1, <1>2 DEF OfComposer
  <2> QED  BY <2>1, <2>2, <2>3 DEF SavesCounted
<1> QED  BY <1>3, <1>4, <1>5

\* A save answered, or lost.
LEMMA IdeasPostSteps ==
  ASSUME IdeasInv, NEW p \in posts, ServePost(p) \/ LosePost(p)
  PROVE  IdeasInv'
<1>0. /\ IdeasShape /\ OneFetch /\ CardsDealt /\ PostsKnown /\ ComposerKnown /\ SavesCounted
      /\ SavedIsStored /\ NothingChosenIsLost /\ NothingTypedIsLost
  BY DEF IdeasInv
<1>1. spent \in Spendings /\ gets \subseteq GetSet /\ posts \subseteq PostSet
      /\ pane \in {NotMounted} \cup Panes /\ spent.taps \in Nat
  BY <1>0, SpentIs DEF IdeasShape
<1> DEFINE s == [p EXCEPT !.at = "stored"]
           f == [p EXCEPT !.at = "failed"]
<1>2. /\ s \in PostSet /\ s.n = p.n /\ s.from = p.from /\ s.who = p.who /\ s.ids = p.ids /\ s.name = p.name
      /\ f \in PostSet /\ f.n = p.n /\ f.from = p.from /\ f.who = p.who /\ f.ids = p.ids /\ f.at = "failed"
  <2>1. p \in PostSet
    BY <1>1
  <2> QED  BY <2>1 DEF PostSet
<1> DEFINE Rest == /\ spent' \in Spendings /\ spent'.gets = spent.gets /\ spent'.posts = spent.posts
                   /\ spent'.taps = spent.taps /\ outfits \subseteq outfits'
                   /\ UNCHANGED <<wardrobe, mode, preselected, composerSaving, savingSuggestions, pane,
                                  cards, composer, shown, gets, chosen, typed>>
<1>3. ASSUME NEW q \in {s, f}, GetsOn(p, q), Keeps(q)', Rest  PROVE IdeasInv'
  <2>1. posts' \subseteq PostSet
    BY <1>1, <1>3 DEF GetsOn
  <2>2. IdeasShape'
    BY <1>0, <1>3, <2>1 DEF IdeasShape
  <2>3. PostsKnown' /\ ComposerKnown' /\ SavesCounted'
    BY <1>0, <1>3, PostGetsOn
  <2>4. OneFetch' /\ CardsDealt' /\ SavedIsStored' /\ NothingChosenIsLost' /\ NothingTypedIsLost'
    BY <1>0, <1>1, <1>3, FetchFrame, CardsFrame, WordsFrame
  <2> QED  BY <2>2, <2>3, <2>4 DEF IdeasInv
<1>4. CASE ServePost(p)
  <2>1. /\ \/ outfits' = outfits \cup {[ids |-> p.ids, name |-> p.name]} /\ posts' = (posts \ {p}) \cup {s}
           \/ posts' = (posts \ {p}) \cup {f} /\ outfits' = outfits
        /\ UNCHANGED <<wardrobe, screen, shown, gets, spent, chosen, typed>>
    BY Zenon, <1>4 DEF ServePost, Turned
  <2>2. Rest
    BY <1>1, <2>1 DEF screen
  <2>3. CASE outfits' = outfits \cup {[ids |-> p.ids, name |-> p.name]} /\ posts' = (posts \ {p}) \cup {s}
    <3> HIDE DEF s, f, Rest
    <3>1. [ids |-> p.ids, name |-> p.name] \in outfits'
      BY <2>3
    <3>2. Keeps(s)'
      BY <1>2, <3>1 DEF Keeps
    <3>3. GetsOn(p, s)
      BY <1>2, <2>3 DEF GetsOn
    <3> QED  BY <1>3, <2>2, <3>2, <3>3
  <2>4. CASE posts' = (posts \ {p}) \cup {f}
    <3> HIDE DEF s, f, Rest
    <3> QED  BY <1>2, <1>3, <2>2, <2>4 DEF GetsOn, Keeps
  <2> QED  BY <2>1, <2>3, <2>4
<1>5. CASE LosePost(p)
  <2>1. Spend("troubles", MaxTroubles) /\ posts' = (posts \ {p}) \cup {f}
        /\ UNCHANGED <<wardrobe, outfits, screen, shown, gets, chosen, typed>>
    BY Zenon, <1>5 DEF LosePost, Turned
  <2>2. Rest
    BY <1>1, <2>1, SpentIs DEF screen
  <2> HIDE DEF s, f, Rest
  <2> QED  BY <1>2, <1>3, <2>1, <2>2 DEF GetsOn, Keeps
<1> QED  BY <1>4, <1>5
\* A save that is sent: one more post, numbered as no other, and counted if it
\* is a card's.
LEMMA PostSent ==
  ASSUME IdeasShape, PostsKnown, SavesCounted, NEW s \in PostSet, s.n = spent.posts,
         posts' = posts \cup {s}, Spend("posts", MaxOutfitPosts)
  PROVE  /\ s \notin posts /\ posts' \subseteq PostSet /\ IsFiniteSet(posts')
         /\ \A q \in posts' : q.n < spent'.posts
         /\ \A q, k \in posts' : q.n = k.n => q = k
         /\ OfCard(s) => Cardinality(CardPosts') = Cardinality(CardPosts) + 1
         /\ ~OfCard(s) => CardPosts' = CardPosts
         /\ spent' \in Spendings /\ spent'.posts = spent.posts + 1
         /\ spent'.gets = spent.gets /\ spent'.taps = spent.taps
<1>1. spent \in Spendings /\ posts \subseteq PostSet
  BY DEF IdeasShape
<1>2. /\ spent.posts \in Nat /\ spent' \in Spendings /\ spent'.posts = spent.posts + 1
      /\ spent'.gets = spent.gets /\ spent'.taps = spent.taps
  BY <1>1, SpentIs
<1>3. \A q \in posts : q.n \in Nat /\ q.n < spent.posts
  <2>1. \A q \in posts : q.n \in Nat
    BY <1>1 DEF PostSet
  <2> QED  BY <2>1 DEF PostsKnown
<1>4. s \notin posts
  BY <1>2, <1>3
<1>5. IsFiniteSet(posts) /\ IsFiniteSet(posts')
  BY FS_AddElement DEF SavesCounted
<1>6. \A q \in posts' : q.n < spent'.posts
  BY <1>2, <1>3
<1>7. \A q, k \in posts' : q.n = k.n => q = k
  <2>1. \A q, k \in posts : q.n = k.n => q = k
    BY DEF PostsKnown
  <2> QED  BY <1>2, <1>3, <2>1
<1>8. ASSUME OfCard(s)  PROVE Cardinality(CardPosts') = Cardinality(CardPosts) + 1
  <2>1. CardPosts' = CardPosts \cup {s} /\ s \notin CardPosts
    BY <1>4, <1>8 DEF CardPosts, OfCard
  <2>2. IsFiniteSet(CardPosts)
    BY <1>5, FS_Subset DEF CardPosts
  <2> QED  BY <2>1, <2>2, FS_AddElement
<1>9. ASSUME ~OfCard(s)  PROVE CardPosts' = CardPosts
  BY <1>9 DEF CardPosts, OfCard
<1> QED  BY <1>1, <1>2, <1>4, <1>5, <1>6, <1>7, <1>8, <1>9

\* A save that has ended: one post fewer.
LEMMA PostGone ==
  ASSUME SavesCounted, NEW p \in posts, posts' = posts \ {p}
  PROVE  /\ IsFiniteSet(posts')
         /\ OfCard(p) => Cardinality(CardPosts') = Cardinality(CardPosts) - 1
         /\ ~OfCard(p) => CardPosts' = CardPosts
<1>1. IsFiniteSet(posts) /\ IsFiniteSet(posts')
  BY FS_RemoveElement DEF SavesCounted
<1>2. ASSUME OfCard(p)  PROVE Cardinality(CardPosts') = Cardinality(CardPosts) - 1
  <2>1. CardPosts' = CardPosts \ {p} /\ p \in CardPosts
    BY <1>2 DEF CardPosts, OfCard
  <2>2. IsFiniteSet(CardPosts)
    BY <1>1, FS_Subset DEF CardPosts
  <2> QED  BY <2>1, <2>2, FS_RemoveElement
<1>3. ASSUME ~OfCard(p)  PROVE CardPosts' = CardPosts
  BY <1>3 DEF CardPosts, OfCard
<1> QED  BY <1>1, <1>2, <1>3

\* The Save of a card.
LEMMA IdeasSaveCardStep ==
  ASSUME IdeasInv, NEW i \in DOMAIN cards, SaveCard(i)
  PROVE  IdeasInv'
<1>0. /\ IdeasShape /\ OneFetch /\ CardsDealt /\ PostsKnown /\ ComposerKnown /\ SavesCounted
      /\ SavedIsStored /\ NothingChosenIsLost /\ NothingTypedIsLost
  BY DEF IdeasInv
<1>1. spent \in Spendings /\ gets \subseteq GetSet /\ posts \subseteq PostSet /\ savingSuggestions \in Nat
      /\ pane \in {NotMounted} \cup Panes /\ spent.taps \in Nat /\ cards \in Seq(CardSet)
      /\ spent.posts \in Nat /\ spent.gets \in Nat
  BY <1>0, SpentIs DEF IdeasShape
<1> DEFINE new == [n |-> spent.posts, from |-> "card", who |-> Owner(cards[i]), ids |-> cards[i].key,
                   name |-> NoName, at |-> "sent"]
           d == [cards[i] EXCEPT !.ref = TRUE, !.saving = TRUE]
<1>2. /\ ~cards[i].ref /\ Spend("posts", MaxOutfitPosts) /\ cards' = [cards EXCEPT ![i] = d]
      /\ savingSuggestions' = savingSuggestions + 1 /\ posts' = posts \cup {new}
      /\ UNCHANGED <<wardrobe, outfits, mode, preselected, composerSaving, pane, composer, shown,
                     gets, chosen, typed>>
  BY DEF SaveCard, Sends
<1>3. cards[i] \in CardSet
  BY <1>1
<1>4. cards[i].key \in Seq(Garments) /\ cards[i].born \in Nat /\ cards[i].born <= spent.gets
  BY <1>0, <1>3 DEF CardSet, CardsDealt
<1>5. d \in CardSet /\ d.key = cards[i].key /\ d.born = cards[i].born /\ d.saved = cards[i].saved /\ d.ref
  BY <1>3 DEF CardSet
<1>6. Owner(cards[i]) \in Seq(Garments) \X Nat /\ Owner(cards[i])[1] = cards[i].key
      /\ Owner(cards[i])[2] = cards[i].born
  BY <1>4 DEF Owner
<1>7. PICK s \in PostSet : /\ posts' = posts \cup {s} /\ s.n = spent.posts /\ s.from = "card"
                           /\ s.who = Owner(cards[i]) /\ s.ids = cards[i].key /\ s.at = "sent"
  <2>1. /\ new \in PostSet /\ new.n = spent.posts /\ new.from = "card" /\ new.who = Owner(cards[i])
        /\ new.ids = cards[i].key /\ new.at = "sent"
    BY <1>1, <1>4, <1>6 DEF PostSet, NoName, Names
  <2> HIDE DEF new
  <2> QED  BY <1>2, <2>1
<1> HIDE DEF new, d
<1>8. /\ cards' \in Seq(CardSet) /\ DOMAIN cards' = DOMAIN cards /\ cards'[i] = d
      /\ \A j \in DOMAIN cards : j # i => cards'[j] = cards[j]
  BY <1>1, <1>2, <1>5
<1>9. \A j \in DOMAIN cards : cards'[j].key = cards[j].key /\ cards'[j].born = cards[j].born
                              /\ cards'[j].saved = cards[j].saved /\ Owner(cards'[j]) = Owner(cards[j])
  BY <1>5, <1>8 DEF Owner
<1>10. /\ s \notin posts /\ posts' \subseteq PostSet /\ IsFiniteSet(posts')
       /\ \A q \in posts' : q.n < spent'.posts
       /\ \A q, k \in posts' : q.n = k.n => q = k
       /\ Cardinality(CardPosts') = Cardinality(CardPosts) + 1
       /\ spent' \in Spendings /\ spent'.posts = spent.posts + 1
       /\ spent'.gets = spent.gets /\ spent'.taps = spent.taps
  BY <1>0, <1>2, <1>7, PostSent DEF OfCard
<1>11. IdeasShape'
  BY <1>0, <1>1, <1>2, <1>8, <1>10 DEF IdeasShape
<1>12. OneFetch'
  BY <1>0, <1>1, <1>2, <1>10, FetchFrame
<1>13. CardsDealt'
  <2>1. cards' # <<>> => cards # <<>>
    BY <1>8
  <2> QED  BY <1>0, <1>2, <1>8, <1>9, <1>10, <2>1 DEF CardsDealt
<1>14. PostsKnown'
  <2>1. \A q \in posts : OnScreen(q) => OnScreen(q)'
    BY <1>8, <1>9 DEF OnScreen, Owner
  <2>2. OnScreen(s)'
    BY <1>7, <1>8, <1>9 DEF OnScreen, Owner
  <2>3. ASSUME NEW q \in posts  PROVE Keeps(q)' /\ (OfCard(q) => CardPost(q)')
    <3>1. Keeps(q) /\ (OfCard(q) => CardPost(q))
      BY <1>0 DEF PostsKnown
    <3>2. Superseded(q) => Superseded(q)'
      BY <1>2 DEF Superseded
    <3> QED  BY <1>2, <1>10, <2>1, <3>1, <3>2 DEF Keeps, CardPost
  <2>4. Keeps(s)' /\ CardPost(s)'
    BY <1>4, <1>6, <1>7, <1>10, <2>2 DEF Keeps, CardPost
  <2>5. \A q \in posts' : q.n < spent'.posts /\ Keeps(q)' /\ (OfCard(q) => CardPost(q)')
    BY <1>7, <1>10, <2>3, <2>4
  <2>6. \A q \in posts : ~(OfCard(q) /\ q.who = Owner(cards[i]))
    BY <1>0, <1>2 DEF PostsKnown
  <2>7. \A q, k \in posts : OfCard(q) /\ OfCard(k) /\ q.who = k.who => q = k
    BY <1>0 DEF PostsKnown
  <2>8. \A q, k \in posts' : OfCard(q) /\ OfCard(k) /\ q.who = k.who => q = k
    BY <1>2, <1>7, <2>6, <2>7
  <2>9. ASSUME NEW j \in DOMAIN cards
        PROVE  cards'[j].ref <=> \E q \in posts' : OfCard(q) /\ q.who = Owner(cards'[j])
    <3>1. CASE j = i
      BY <1>2, <1>5, <1>7, <1>8, <1>9, <3>1 DEF OfCard
    <3>2. CASE j # i
      <4>1. cards[j].key # cards[i].key
        BY <1>0, <3>2 DEF CardsDealt
      <4>2. Owner(cards[j]) # Owner(cards[i])
        BY <4>1 DEF Owner
      <4>3. cards[j].ref <=> \E q \in posts : OfCard(q) /\ q.who = Owner(cards[j])
        BY <1>0 DEF PostsKnown
      <4>4. cards'[j].ref = cards[j].ref
        BY <1>8, <3>2
      <4> QED  BY <1>2, <1>7, <1>9, <4>2, <4>3, <4>4
    <3> QED  BY <3>1, <3>2
  <2>10. \A j \in DOMAIN cards' : cards'[j].ref <=> \E q \in posts' : OfCard(q) /\ q.who = Owner(cards'[j])
    BY <1>8, <2>9
  <2> QED  BY <1>10, <2>5, <2>8, <2>10 DEF PostsKnown, OfCard, Owner
<1>15. ComposerKnown'
  <2>1. \A q : OfComposer(q) => (q \in posts' <=> q \in posts)
    BY <1>2, <1>7 DEF OfComposer
  <2> QED  BY <1>0, <1>2, <1>10, <2>1 DEF ComposerKnown, OfComposer
<1>16. SavesCounted'
  <2>1. savingSuggestions = Cardinality(CardPosts) /\ savingSuggestions <= spent.posts
        /\ (composerSaving => \E q \in posts : OfComposer(q))
    BY <1>0 DEF SavesCounted
  <2> QED  BY <1>1, <1>2, <1>10, <2>1 DEF SavesCounted, OfComposer
<1>17. SavedIsStored'
  <2>1. \A j \in DOMAIN cards : cards[j].saved => \E o \in outfits : o.ids = cards[j].key
    BY <1>0 DEF SavedIsStored, ToSet
  <2> QED  BY <1>2, <1>8, <1>9, <2>1 DEF SavedIsStored, ToSet
<1>18. NothingChosenIsLost' /\ NothingTypedIsLost'
  BY <1>0, <1>2, WordsFrame
<1> QED  BY <1>11, <1>12, <1>13, <1>14, <1>15, <1>16, <1>17, <1>18 DEF IdeasInv
\* The end of a card's save, on the card if it is still there.
LEMMA IdeasSettleCardStep ==
  ASSUME IdeasInv, NEW p \in posts, SettleCard(p)
  PROVE  IdeasInv'
<1>0. /\ IdeasShape /\ OneFetch /\ CardsDealt /\ PostsKnown /\ ComposerKnown /\ SavesCounted
      /\ SavedIsStored /\ NothingChosenIsLost /\ NothingTypedIsLost
  BY DEF IdeasInv
<1>1. spent \in Spendings /\ gets \subseteq GetSet /\ posts \subseteq PostSet /\ savingSuggestions \in Nat
      /\ pane \in {NotMounted} \cup Panes /\ spent.taps \in Nat /\ cards \in Seq(CardSet)
      /\ spent.posts \in Nat /\ spent.gets \in Nat
  BY <1>0, SpentIs DEF IdeasShape
<1>2. /\ p.from = "card" /\ posts' = posts \ {p}
      /\ cards' = [i \in DOMAIN cards |-> Settled(cards[i], p)]
      /\ savingSuggestions' = savingSuggestions - 1
      /\ UNCHANGED <<wardrobe, outfits, mode, preselected, composerSaving, pane, composer, shown,
                     gets, spent, chosen, typed>>
  BY DEF SettleCard
<1>3. OfCard(p) /\ CardPost(p) /\ Keeps(p)
  BY <1>0, <1>2 DEF PostsKnown, OfCard
<1>4. ASSUME NEW c \in CardSet
      PROVE  /\ Settled(c, p) \in CardSet /\ Settled(c, p).key = c.key /\ Settled(c, p).born = c.born
             /\ Owner(c) = p.who => ~Settled(c, p).ref /\ (Settled(c, p).saved => c.saved \/ p.at = "stored")
             /\ Owner(c) # p.who => Settled(c, p) = c
  <2>1. CASE Owner(c) = p.who
    <3> DEFINE b == c.saved \/ p.at = "stored"
               e == [c EXCEPT !.ref = FALSE, !.saving = FALSE, !.saved = b]
    <3>1. b \in BOOLEAN /\ c.saved \in BOOLEAN
      BY DEF CardSet
    <3>2. Settled(c, p) = e
      BY Zenon, <2>1 DEF Settled
    <3>3. e \in CardSet /\ e.key = c.key /\ e.born = c.born /\ e.ref = FALSE /\ e.saved = b
      <4> HIDE DEF b
      <4> QED  BY <3>1 DEF CardSet
    <3> HIDE DEF e
    <3>4. e.saved => c.saved \/ p.at = "stored"
      BY Zenon, <3>3
    <3>5. ~e.ref
      BY Zenon, <3>3
    <3> HIDE DEF b
    <3> QED  BY Zenon, <2>1, <3>2, <3>3, <3>4, <3>5
  <2>2. CASE Owner(c) # p.who
    BY <2>2 DEF Settled
  <2> QED  BY Zenon, <2>1, <2>2
<1>5. \A i \in DOMAIN cards : cards[i] \in CardSet /\ cards'[i] = Settled(cards[i], p)
  BY <1>1, <1>2
<1>6. /\ \A i \in DOMAIN cards :
           /\ cards'[i] \in CardSet /\ cards'[i].key = cards[i].key /\ cards'[i].born = cards[i].born
           /\ Owner(cards'[i]) = Owner(cards[i])
           /\ Owner(cards[i]) = p.who => ~cards'[i].ref
           /\ Owner(cards[i]) # p.who => cards'[i] = cards[i]
      /\ \A i \in DOMAIN cards :
           Owner(cards[i]) = p.who => (cards'[i].saved => cards[i].saved \/ p.at = "stored")
  BY <1>4, <1>5 DEF Owner
<1>7. /\ DOMAIN cards' = DOMAIN cards /\ cards' \in Seq(CardSet) /\ (cards = <<>> => cards' = <<>>)
  <2>1. DOMAIN cards = 1..Len(cards) /\ Len(cards) \in Nat
    BY <1>1
  <2>2. DOMAIN cards' = DOMAIN cards /\ cards' = [i \in DOMAIN cards |-> cards'[i]]
    BY <1>2
  <2>3. cards' \in [1..Len(cards) -> CardSet]
    BY <1>6, <2>1, <2>2
  <2>4. cards' \in Seq(CardSet)
    BY ONLY <2>1, <2>3
  <2> QED  BY <2>1, <2>2, <2>4
<1>8. /\ IsFiniteSet(posts') /\ Cardinality(CardPosts') = Cardinality(CardPosts) - 1
      /\ savingSuggestions = Cardinality(CardPosts) /\ savingSuggestions <= spent.posts
      /\ composerSaving => \E q \in posts : OfComposer(q)
  BY <1>0, <1>2, <1>3, PostGone DEF SavesCounted
<1>9. IsFiniteSet(CardPosts') /\ Cardinality(CardPosts') \in Nat
  BY <1>8, FS_Subset, FS_CardinalityType DEF CardPosts
<1>10. IdeasShape'
  BY <1>0, <1>1, <1>2, <1>7, <1>8, <1>9 DEF IdeasShape
<1>11. SavesCounted'
  BY <1>1, <1>2, <1>8 DEF SavesCounted, OfComposer
<1>12. OneFetch'
  BY <1>0, <1>1, <1>2, FetchFrame
<1>13. CardsDealt'
  BY <1>0, <1>2, <1>6, <1>7 DEF CardsDealt
<1>14. PostsKnown'
  <2>1. \A q \in posts : OnScreen(q) => OnScreen(q)'
    BY <1>6, <1>7 DEF OnScreen, Owner
  <2>2. ASSUME NEW q \in posts'  PROVE Keeps(q)' /\ (OfCard(q) => CardPost(q)') /\ q.n < spent'.posts
    <3>1. Keeps(q) /\ (OfCard(q) => CardPost(q)) /\ q.n < spent.posts
      BY <1>0, <1>2 DEF PostsKnown
    <3>2. Superseded(q) => Superseded(q)'
      BY <1>2 DEF Superseded
    <3> QED  BY <1>2, <2>1, <3>1, <3>2 DEF Keeps, CardPost
  <2>3. ASSUME NEW i \in DOMAIN cards
        PROVE  cards'[i].ref <=> \E q \in posts' : OfCard(q) /\ q.who = Owner(cards'[i])
    <3>1. cards[i].ref <=> \E q \in posts : OfCard(q) /\ q.who = Owner(cards[i])
      BY <1>0 DEF PostsKnown
    <3>2. CASE Owner(cards[i]) = p.who
      BY <1>0, <1>2, <1>3, <1>6, <3>2 DEF PostsKnown
    <3>3. CASE Owner(cards[i]) # p.who
      BY <1>2, <1>6, <3>1, <3>3
    <3> QED  BY <3>2, <3>3
  <2>4. \A i \in DOMAIN cards' : cards'[i].ref <=> \E q \in posts' : OfCard(q) /\ q.who = Owner(cards'[i])
    BY <1>7, <2>3
  <2>5. /\ \A q, k \in posts' : q.n = k.n => q = k
        /\ \A q, k \in posts' : OfCard(q) /\ OfCard(k) /\ q.who = k.who => q = k
    BY <1>0, <1>2 DEF PostsKnown
  <2> QED  BY <2>2, <2>4, <2>5 DEF PostsKnown, OfCard, Owner
<1>15. ComposerKnown'
  <2>1. \A q : OfComposer(q) => (q \in posts' <=> q \in posts)
    BY <1>2 DEF OfComposer
  <2> QED  BY <1>0, <1>2, <2>1 DEF ComposerKnown, OfComposer
<1>16. SavedIsStored'
  <2>1. \A i \in DOMAIN cards : cards[i].saved => \E o \in outfits : o.ids = cards[i].key
    BY <1>0 DEF SavedIsStored, ToSet
  <2>2. ASSUME NEW i \in DOMAIN cards, cards'[i].saved  PROVE \E o \in outfits' : o.ids = cards'[i].key
    <3>1. CASE Owner(cards[i]) = p.who /\ p.at = "stored"
      <4>1. cards[i].key = p.ids
        BY <1>3, <3>1 DEF CardPost, Owner
      <4> QED  BY <1>2, <1>3, <1>6, <3>1, <4>1 DEF Keeps
    <3>2. CASE Owner(cards[i]) # p.who \/ p.at # "stored"
      <4>1. cards[i].saved
        BY <1>6, <2>2, <3>2
      <4> QED  BY <1>2, <1>6, <2>1, <4>1
    <3> QED  BY <3>1, <3>2
  <2> QED  BY <1>7, <2>2 DEF SavedIsStored, ToSet
<1>17. NothingChosenIsLost' /\ NothingTypedIsLost'
  BY <1>0, <1>2, WordsFrame
<1> QED  BY <1>10, <1>11, <1>12, <1>13, <1>14, <1>15, <1>16, <1>17 DEF IdeasInv
\* The Save of the composer.
LEMMA IdeasSaveComposedStep ==
  ASSUME IdeasInv, SaveComposed
  PROVE  IdeasInv'
<1>0. /\ IdeasShape /\ OneFetch /\ CardsDealt /\ PostsKnown /\ ComposerKnown /\ SavesCounted
      /\ SavedIsStored /\ NothingChosenIsLost /\ NothingTypedIsLost
  BY DEF IdeasInv
<1>1. spent \in Spendings /\ gets \subseteq GetSet /\ posts \subseteq PostSet
      /\ pane \in {NotMounted} \cup Panes /\ spent.taps \in Nat
      /\ spent.posts \in Nat /\ spent.gets \in Nat /\ composer \in {NotMounted} \cup Composers
      /\ shown.composer \in {NotMounted} \cup Composers
      /\ (shown.mode = "outfit" => shown.composer # NotMounted)
  BY <1>0, SpentIs DEF IdeasShape
<1> DEFINE new == [n |-> spent.posts, from |-> "composer", who |-> composer.mount,
                   ids |-> shown.composer.selected, name |-> shown.composer.name, at |-> "sent"]
           d == [composer EXCEPT !.ref = TRUE, !.saving = TRUE]
<1>2. /\ Composing /\ ~composer.ref /\ Spend("posts", MaxOutfitPosts)
      /\ composer' = d /\ composerSaving' = TRUE /\ posts' = posts \cup {new}
      /\ UNCHANGED <<wardrobe, outfits, mode, preselected, savingSuggestions, pane, cards, shown,
                     gets, chosen, typed>>
  BY DEF SaveComposed, Sends
<1>3. /\ composer \in Composers /\ composer # NotMounted /\ shown.composer \in Composers
      /\ composer.mount \in Nat \ {0}
  BY <1>1, <1>2 DEF Composing, Composers
<1>4. /\ d \in Composers /\ d # NotMounted /\ d.mount = composer.mount /\ d.ref
      /\ d.selected = composer.selected /\ d.name = composer.name
  BY <1>3 DEF Composers, NotMounted
<1>5. PICK s \in PostSet : /\ posts' = posts \cup {s} /\ s.n = spent.posts /\ s.from = "composer"
                           /\ s.who = composer.mount /\ s.at = "sent"
  <2>1. shown.composer.selected \in Seq(Garments) /\ shown.composer.name \in Names
    BY <1>3 DEF Composers
  <2>2. /\ new \in PostSet /\ new.n = spent.posts /\ new.from = "composer" /\ new.who = composer.mount
        /\ new.at = "sent"
    BY <1>1, <1>3, <2>1 DEF PostSet
  <2> HIDE DEF new
  <2> QED  BY <1>2, <2>2
<1> HIDE DEF new, d
<1>6. /\ s \notin posts /\ posts' \subseteq PostSet /\ IsFiniteSet(posts')
      /\ \A q \in posts' : q.n < spent'.posts
      /\ \A q, k \in posts' : q.n = k.n => q = k
      /\ CardPosts' = CardPosts
      /\ spent' \in Spendings /\ spent'.posts = spent.posts + 1
      /\ spent'.gets = spent.gets /\ spent'.taps = spent.taps
  BY <1>0, <1>2, <1>5, PostSent DEF OfCard
<1>7. IdeasShape'
  BY <1>0, <1>1, <1>2, <1>4, <1>6 DEF IdeasShape
<1>8. OneFetch' /\ CardsDealt' /\ SavedIsStored'
  BY <1>0, <1>1, <1>2, <1>6, FetchFrame, CardsFrame, WordsFrame
<1>9. PostsKnown'
  <2>1. ASSUME NEW q \in posts  PROVE Keeps(q)' /\ (OfCard(q) => CardPost(q)')
    <3>1. Keeps(q) /\ (OfCard(q) => CardPost(q))
      BY <1>0 DEF PostsKnown
    <3>2. OnScreen(q) => OnScreen(q)'
      BY <1>2 DEF OnScreen, Owner
    <3>3. Superseded(q) => Superseded(q)'
      BY <1>2 DEF Superseded
    <3> QED  BY <1>2, <1>6, <3>1, <3>2, <3>3 DEF Keeps, CardPost
  <2>2. Keeps(s)' /\ ~OfCard(s)
    BY <1>5 DEF Keeps, OfCard
  <2>3. \A q \in posts' : q.n < spent'.posts /\ Keeps(q)' /\ (OfCard(q) => CardPost(q)')
    BY <1>5, <1>6, <2>1, <2>2
  <2>4. \A q \in posts' : OfCard(q) => q \in posts
    BY <1>5, <2>2
  <2>5. \A q, k \in posts' : OfCard(q) /\ OfCard(k) /\ q.who = k.who => q = k
    BY <1>0, <2>4 DEF PostsKnown
  <2>6. ASSUME NEW i \in DOMAIN cards
        PROVE  cards[i].ref <=> \E q \in posts' : OfCard(q) /\ q.who = Owner(cards[i])
    <3>1. cards[i].ref <=> \E q \in posts : OfCard(q) /\ q.who = Owner(cards[i])
      BY <1>0 DEF PostsKnown
    <3> QED  BY <1>5, <2>4, <3>1
  <2> QED  BY <1>2, <1>6, <2>3, <2>5, <2>6 DEF PostsKnown, OfCard, Owner
<1>10. ComposerKnown'
  <2>1. \A q \in posts : ~(OfComposer(q) /\ q.who = composer.mount)
    BY <1>0, <1>2, <1>3 DEF ComposerKnown
  <2>2. OfComposer(s)
    BY <1>5 DEF OfComposer
  <2>3. \A q, k \in posts' : OfComposer(q) /\ OfComposer(k) /\ q.who = k.who => q = k
    <3>1. \A q, k \in posts : OfComposer(q) /\ OfComposer(k) /\ q.who = k.who => q = k
      BY <1>0 DEF ComposerKnown
    <3> QED  BY <1>5, <2>1, <2>2, <3>1
  <2>4. \A q \in posts' : OfComposer(q) =>
          q.who \in Nat /\ (q.who = composer.mount \/ q.who < spent.taps) /\ q.who > 0
    <3>1. \A q \in posts : OfComposer(q) =>
            q.who \in Nat /\ (q.who = composer.mount \/ q.who < spent.taps) /\ q.who > 0
      BY <1>0 DEF ComposerKnown
    <3> QED  BY <1>3, <1>5, <3>1
  <2>5. \E q \in posts' : OfComposer(q) /\ q.who = composer.mount
    BY <1>5, <2>2
  <2> QED  BY <1>0, <1>2, <1>4, <1>6, <2>3, <2>4, <2>5 DEF ComposerKnown, OfComposer
<1>11. SavesCounted'
  <2>1. OfComposer(s) /\ s \in posts'
    BY <1>5 DEF OfComposer
  <2>2. savingSuggestions = Cardinality(CardPosts) /\ savingSuggestions <= spent.posts
        /\ savingSuggestions \in Nat
    BY <1>0 DEF SavesCounted, IdeasShape
  <2> QED  BY <1>1, <1>2, <1>6, <2>1, <2>2 DEF SavesCounted, OfComposer
<1>12. NothingChosenIsLost' /\ NothingTypedIsLost'
  BY <1>0, <1>2, <1>3, <1>4 DEF NothingChosenIsLost, NothingTypedIsLost
<1> QED  BY <1>7, <1>8, <1>9, <1>10, <1>11, <1>12 DEF IdeasInv

\* The end of a composer's save: what was stored is let go, and nothing else.
LEMMA IdeasSettleComposedStep ==
  ASSUME IdeasInv, NEW p \in posts, SettleComposed(p)
  PROVE  IdeasInv'
<1>0. /\ IdeasShape /\ OneFetch /\ CardsDealt /\ PostsKnown /\ ComposerKnown /\ SavesCounted
      /\ SavedIsStored /\ NothingChosenIsLost /\ NothingTypedIsLost
  BY DEF IdeasInv
<1>1. spent \in Spendings /\ gets \subseteq GetSet /\ posts \subseteq PostSet
      /\ pane \in {NotMounted} \cup Panes /\ spent.taps \in Nat
      /\ spent.posts \in Nat /\ spent.gets \in Nat /\ composer \in {NotMounted} \cup Composers
  BY <1>0, SpentIs DEF IdeasShape
<1>2. /\ p.from = "composer" /\ posts' = posts \ {p}
      /\ composer' = (IF composer.mount = p.who THEN WithoutPosted(p) ELSE composer)
      /\ composerSaving' = FALSE
      /\ UNCHANGED <<wardrobe, outfits, mode, preselected, savingSuggestions, pane, cards, shown,
                     gets, spent, chosen, typed>>
  BY DEF SettleComposed
<1>3. OfComposer(p) /\ p.who \in Nat /\ p.who > 0 /\ Keeps(p)
  BY <1>0, <1>2 DEF PostsKnown, ComposerKnown, OfComposer
<1>4. ASSUME composer.mount = p.who
      PROVE  /\ composer \in Composers /\ composer # NotMounted
             /\ composer' \in Composers /\ composer' # NotMounted
             /\ composer'.mount = composer.mount /\ composer'.ref = FALSE
             /\ ToSet(composer.selected) \subseteq
                  ToSet(composer'.selected) \cup (IF p.at = "stored" THEN ToSet(p.ids) ELSE {})
             /\ composer'.name = composer.name \/ (p.at = "stored" /\ composer.name = p.name)
  <2>1. composer \in Composers /\ composer # NotMounted
    BY <1>1, <1>3, <1>4 DEF NotMounted
  <2> DEFINE ids == IF p.at = "stored" THEN Without(composer.selected, ToSet(p.ids))
                    ELSE composer.selected
             called == IF p.at = "stored" /\ composer.name = p.name THEN NoName ELSE composer.name
             e == [composer EXCEPT !.ref = FALSE, !.saving = FALSE, !.selected = ids, !.name = called]
  <2>2. composer' = e
    BY Zenon, <1>2, <1>4 DEF WithoutPosted
  <2>3. composer.selected \in Seq(Garments) /\ composer.name \in Names
    BY <2>1 DEF Composers
  <2>4. /\ ids \in Seq(Garments)
        /\ ToSet(composer.selected) \subseteq
             ToSet(ids) \cup (IF p.at = "stored" THEN ToSet(p.ids) ELSE {})
    BY <2>3, WithoutRows
  <2>5. called \in Names /\ (called = composer.name \/ (p.at = "stored" /\ composer.name = p.name))
    BY <2>3 DEF NoName, Names
  <2> HIDE DEF ids, called
  <2>6. e \in Composers /\ e.mount = composer.mount /\ e.ref = FALSE /\ e.selected = ids /\ e.name = called
    BY <2>1, <2>4, <2>5 DEF Composers
  <2> HIDE DEF e
  <2>7. e # NotMounted
    BY <2>6 DEF Composers, NotMounted
  <2> QED  BY <2>1, <2>2, <2>4, <2>5, <2>6, <2>7
<1>5. composer.mount # p.who => composer' = composer
  BY <1>2
<1>6. composer' \in {NotMounted} \cup Composers /\ composer'.mount = composer.mount
      /\ (composer' # NotMounted <=> composer # NotMounted)
  BY <1>1, <1>4, <1>5
<1>7. IdeasShape'
  BY <1>0, <1>1, <1>2, <1>6 DEF IdeasShape
<1>8. OneFetch' /\ CardsDealt' /\ SavedIsStored'
  BY <1>0, <1>1, <1>2, FetchFrame, CardsFrame, WordsFrame
<1>9. PostsKnown'
  <2>1. ASSUME NEW q \in posts  PROVE Keeps(q)' /\ (OfCard(q) => CardPost(q)')
    <3>1. Keeps(q) /\ (OfCard(q) => CardPost(q))
      BY <1>0 DEF PostsKnown
    <3>2. OnScreen(q) => OnScreen(q)'
      BY <1>2 DEF OnScreen, Owner
    <3>3. Superseded(q) => Superseded(q)'
      BY <1>2 DEF Superseded
    <3> QED  BY <1>2, <3>1, <3>2, <3>3 DEF Keeps, CardPost
  <2>2. \A q : OfCard(q) => (q \in posts' <=> q \in posts)
    BY <1>2 DEF OfCard
  <2>3. \A i \in DOMAIN cards :
          cards[i].ref <=> \E q \in posts' : OfCard(q) /\ q.who = Owner(cards[i])
    <3>1. \A i \in DOMAIN cards :
            cards[i].ref <=> \E q \in posts : OfCard(q) /\ q.who = Owner(cards[i])
      BY <1>0 DEF PostsKnown
    <3> QED  BY <2>2, <3>1
  <2> QED  BY <1>0, <1>2, <2>1, <2>3 DEF PostsKnown, OfCard, Owner
<1>10. ComposerKnown'
  <2>1. \A q, k \in posts : OfComposer(q) /\ OfComposer(k) /\ q.who = k.who => q = k
    BY <1>0 DEF ComposerKnown
  <2>2. composer # NotMounted =>
          (composer'.ref <=> \E q \in posts' : OfComposer(q) /\ q.who = composer.mount)
    <3>1. CASE composer.mount = p.who
      <4>1. ~composer'.ref
        BY <1>4, <3>1
      <4> QED  BY <1>2, <1>3, <2>1, <3>1, <4>1
    <3>2. CASE composer.mount # p.who
      <4>1. composer # NotMounted =>
              (composer.ref <=> \E q \in posts : OfComposer(q) /\ q.who = composer.mount)
        BY <1>0 DEF ComposerKnown
      <4> QED  BY <1>2, <1>5, <3>2, <4>1
    <3> QED  BY <3>1, <3>2
  <2>3. /\ composer.mount <= spent.taps
        /\ composer.mount > 0 /\ mode # "outfit" => composer.mount < spent.taps
        /\ \A q \in posts' : OfComposer(q) =>
             q.who \in Nat /\ (q.who = composer.mount \/ q.who < spent.taps) /\ q.who > 0
    BY <1>0, <1>2 DEF ComposerKnown
  <2>4. \A q, k \in posts' : OfComposer(q) /\ OfComposer(k) /\ q.who = k.who => q = k
    BY <1>2, <2>1
  <2> QED  BY <1>2, <1>6, <2>2, <2>3, <2>4 DEF ComposerKnown, OfComposer
<1>11. SavesCounted'
  <2>1. IsFiniteSet(posts') /\ CardPosts' = CardPosts
    BY <1>0, <1>2, <1>3, PostGone DEF OfCard
  <2> QED  BY <1>0, <1>2, <2>1 DEF SavesCounted
<1>12. NothingChosenIsLost'
  <2> SUFFICES ASSUME composer # NotMounted, NEW g \in chosen
               PROVE  g \in ToSet(composer'.selected) \/ \E o \in outfits : g \in ToSet(o.ids)
    BY <1>2, <1>6 DEF NothingChosenIsLost
  <2>1. g \in ToSet(composer.selected) \/ \E o \in outfits : g \in ToSet(o.ids)
    BY <1>0 DEF NothingChosenIsLost
  <2>2. p.at = "stored" => \E o \in outfits : o.ids = p.ids
    BY <1>3 DEF Keeps
  <2> QED  BY <1>4, <1>5, <2>1, <2>2
<1>13. NothingTypedIsLost'
  <2>1. p.at = "stored" => \E o \in outfits : o.name = p.name
    BY <1>3 DEF Keeps
  <2> QED  BY <1>0, <1>2, <1>4, <1>5, <1>6, <2>1 DEF NothingTypedIsLost
<1> QED  BY <1>7, <1>8, <1>9, <1>10, <1>11, <1>12, <1>13 DEF IdeasInv
\* The composer of the next commit: none off the outfit mode; a new one,
\* numbered by the last tap; or the one there is, that keeps its guard and name.
LEMMA RecomposedIs ==
  ASSUME IdeasShape
  PROVE  /\ Recomposed \in {NotMounted} \cup Composers
         /\ mode # "outfit" => Recomposed = NotMounted
         /\ mode = "outfit" => Recomposed \in Composers /\ Recomposed # NotMounted
         /\ mode = "outfit" /\ composer = NotMounted => Recomposed.mount = spent.taps /\ ~Recomposed.ref
         /\ mode = "outfit" /\ composer # NotMounted =>
              Recomposed.mount = composer.mount /\ Recomposed.ref = composer.ref
<1>1. /\ preselected \in Seq(Garments) /\ composer \in {NotMounted} \cup Composers /\ spent \in Spendings
      /\ (mode # "item" => spent.taps > 0)
  BY DEF IdeasShape
<1>2. spent.taps \in Nat
  BY <1>1, SpentIs
<1>3. \A c \in Composers : c # NotMounted
  BY DEF Composers, NotMounted
<1>4. Normalised(preselected) \in Seq(Garments)
  <2>1. MaxOutfitItems \in Nat
    BY IdeasBoundsAssumption
  <2>2. (IF Len(preselected) < MaxOutfitItems THEN Len(preselected) ELSE MaxOutfitItems)
          \in 0..Len(preselected)
    BY <1>1, <2>1
  <2>3. \A n \in 0..Len(preselected) : SubSeq(preselected, 1, n) \in Seq(Garments)
    BY <1>1
  <2> QED  BY <2>2, <2>3 DEF Normalised
<1>5. CASE mode # "outfit"
  BY <1>5 DEF Recomposed
<1>6. CASE mode = "outfit" /\ composer = NotMounted
  <2> DEFINE e == [mount |-> spent.taps, selected |-> Normalised(preselected), name |-> NoName,
                   ref |-> FALSE, saving |-> FALSE, applied |-> preselected]
  <2>1. Recomposed = e
    BY <1>6 DEF Recomposed
  <2>2. e \in Composers /\ e.mount = spent.taps /\ ~e.ref
    BY <1>1, <1>2, <1>4, <1>6 DEF Composers, NoName, Names
  <2> HIDE DEF e
  <2> QED  BY <1>3, <1>6, <2>1, <2>2
<1>7. CASE mode = "outfit" /\ composer # NotMounted
  <2> DEFINE e == [composer EXCEPT !.selected = Normalised(preselected), !.applied = preselected]
  <2>1. Recomposed \in {e, composer}
    BY <1>7 DEF Recomposed
  <2>2. composer \in Composers
    BY <1>1, <1>7
  <2>3. e \in Composers /\ e.mount = composer.mount /\ e.ref = composer.ref
    BY <1>1, <1>4, <2>2 DEF Composers
  <2> HIDE DEF e
  <2> QED  BY <1>3, <1>7, <2>1, <2>2, <2>3
<1> QED  BY <1>5, <1>6, <1>7

\* The cards of the next commit: one for each idea drawn, in its place; the card
\* of its key if there is one, and otherwise a new one.
LEMMA MountedIs ==
  ASSUME IdeasShape
  PROVE  /\ Mounted \in Seq(CardSet)
         /\ Mounted # <<>> => mode = "suggestion" /\ pane.mount > 0 /\ pane.snapshot.loaded
         /\ mode = "suggestion" /\ pane.mount > 0 /\ pane.snapshot.loaded =>
              /\ DOMAIN Mounted = DOMAIN pane.snapshot.ideas
              /\ IsInjective(pane.snapshot.ideas)
              /\ \A i \in DOMAIN Mounted :
                   /\ Mounted[i].key = pane.snapshot.ideas[i]
                   /\ \/ \E j \in DOMAIN cards : Mounted[i] = cards[j]
                      \/ /\ Mounted[i] = Card(pane.snapshot.ideas[i])
                         /\ \A j \in DOMAIN cards : cards[j].key # pane.snapshot.ideas[i]
<1>1. cards \in Seq(CardSet) /\ pane \in {NotMounted} \cup Panes /\ spent \in Spendings
  BY DEF IdeasShape
<1>2. spent.gets \in Nat
  BY <1>1, SpentIs
<1>3. CASE mode # "suggestion" \/ pane.mount = 0 \/ ~pane.snapshot.loaded
  <2>1. Mounted = <<>>
    BY <1>3 DEF Mounted
  <2>2. pane.mount \in Nat
    BY <1>1 DEF NotMounted, Panes
  <2> QED  BY <1>3, <2>1, <2>2
<1>4. CASE ~(mode # "suggestion" \/ pane.mount = 0 \/ ~pane.snapshot.loaded)
  <2> DEFINE ideas == pane.snapshot.ideas
             Standing(key) == {c \in ToSet(cards) : c.key = key}
             Place(i) == IF Standing(ideas[i]) = {} THEN Card(ideas[i])
                         ELSE CHOOSE c \in Standing(ideas[i]) : TRUE
  <2>1. Mounted = [i \in DOMAIN ideas |-> Place(i)]
    BY <1>4 DEF Mounted
  <2>2. ideas \in Lists /\ IsInjective(ideas)
    <3>1. pane \in Panes
      BY <1>1, <1>4 DEF NotMounted
    <3>2. pane.snapshot \in Shortlists
      BY <1>4, <3>1 DEF Panes, NotLoaded
    <3>3. PICK read \in Reads : pane.snapshot = Shortlist(read)
      BY <3>2 DEF Shortlists
    <3> QED  BY <3>3, ShortlistIs
  <2> HIDE DEF ideas
  <2>3. ASSUME NEW i \in DOMAIN ideas
        PROVE  /\ Place(i) \in CardSet /\ Place(i).key = ideas[i]
               /\ \/ \E j \in DOMAIN cards : Place(i) = cards[j]
                  \/ Place(i) = Card(ideas[i]) /\ \A j \in DOMAIN cards : cards[j].key # ideas[i]
    <3>1. ideas[i] \in Seq(Garments)
      BY <2>2 DEF Lists
    <3>2. CASE Standing(ideas[i]) = {}
      <4>1. Place(i) = Card(ideas[i])
        BY <3>2
      <4>2. Card(ideas[i]) \in CardSet /\ Card(ideas[i]).key = ideas[i]
        BY <1>2, <3>1 DEF Card, CardSet
      <4>3. \A j \in DOMAIN cards : cards[j].key # ideas[i]
        BY <3>2 DEF ToSet
      <4> HIDE DEF Place, Standing
      <4> QED  BY <4>1, <4>2, <4>3
    <3>3. CASE Standing(ideas[i]) # {}
      <4>1. Place(i) \in Standing(ideas[i])
        BY <3>3
      <4>2. Place(i) \in ToSet(cards) /\ Place(i).key = ideas[i]
        <5> HIDE DEF Place
        <5> QED  BY <4>1
      <4> HIDE DEF Place, Standing
      <4>3. PICK j \in DOMAIN cards : Place(i) = cards[j]
        BY <4>2 DEF ToSet
      <4>4. cards[j] \in CardSet
        BY <1>1
      <4> QED  BY <4>2, <4>3, <4>4
    <3> QED  BY <3>2, <3>3
  <2> HIDE DEF Place, Standing
  <2>4. DOMAIN Mounted = DOMAIN ideas /\ \A i \in DOMAIN ideas : Mounted[i] = Place(i)
    BY <2>1
  <2>5. Mounted \in Seq(CardSet)
    <3>1. DOMAIN ideas = 1..Len(ideas) /\ Len(ideas) \in Nat
      BY <2>2 DEF Lists
    <3>2. Mounted \in [1..Len(ideas) -> CardSet]
      BY <2>1, <2>3, <3>1
    <3> QED  BY ONLY <3>1, <3>2
  <2>6. pane.mount > 0
    BY <1>1, <1>4 DEF NotMounted, Panes
  <2>7. pane.snapshot.ideas = ideas
    BY DEF ideas
  <2>8. \A i \in DOMAIN Mounted :
          /\ Mounted[i].key = ideas[i]
          /\ \/ \E j \in DOMAIN cards : Mounted[i] = cards[j]
             \/ Mounted[i] = Card(ideas[i]) /\ \A j \in DOMAIN cards : cards[j].key # ideas[i]
    BY <2>3, <2>4
  <2> QED  BY <1>4, <2>2, <2>4, <2>5, <2>6, <2>7, <2>8
<1> QED  BY <1>3, <1>4
\* The screen rendered anew: the pane it mounts or drops.
LEMMA CommitPane ==
  ASSUME IdeasShape, OneFetch, CardsDealt, CommitScreen
  PROVE  /\ \/ /\ mode = "suggestion" /\ pane.mount = 0 /\ Mounted = <<>>
               /\ pane' \in Panes /\ pane'.mount = spent.taps /\ spent'.gets = spent.gets + 1
            \/ mode = "suggestion" /\ pane.mount > 0 /\ pane' = pane /\ spent'.gets = spent.gets
            \/ /\ mode # "suggestion" /\ Mounted = <<>> /\ pane' = NotMounted
               /\ spent'.gets = spent.gets
         /\ spent' \in Spendings /\ spent'.posts = spent.posts /\ spent'.taps = spent.taps
         /\ gets' \subseteq GetSet /\ pane' \in {NotMounted} \cup Panes /\ OneFetch'
<1>1. /\ spent \in Spendings /\ gets \subseteq GetSet /\ pane \in {NotMounted} \cup Panes
      /\ wardrobe \in Reads /\ (mode # "item" => spent.taps > 0)
  BY DEF IdeasShape
<1>2. /\ spent.gets \in Nat /\ spent.taps \in Nat /\ pane.mount \in Nat /\ NotMounted.mount = 0
      /\ \A r \in gets : r.pane \in Nat \ {0}
  BY <1>1, SpentIs DEF NotMounted, Panes, GetSet
<1>3. mode' = mode
  BY DEF CommitScreen
<1>4. CASE mode = "suggestion" /\ pane.mount = 0
  <2> DEFINE waits == [mount |-> spent.taps, snapshot |-> NotLoaded, failed |-> "no", inFlight |-> TRUE]
             asked == Request(spent.taps)
  <2>1. Spend("gets", MaxGets) /\ pane' = waits /\ gets' = gets \cup {asked}
    BY <1>4 DEF CommitScreen
  <2>2. waits \in Panes /\ waits.mount = spent.taps /\ waits.inFlight
    BY <1>1, <1>2, <1>4 DEF Panes
  <2>3. asked \in GetSet /\ asked.pane = spent.taps
    BY <1>1, <1>2, <1>4 DEF Request, GetSet
  <2> HIDE DEF waits, asked
  <2>4. /\ spent' \in Spendings /\ spent'.gets = spent.gets + 1
        /\ spent'.posts = spent.posts /\ spent'.taps = spent.taps
    BY <1>1, <2>1, SpentIs
  <2>5. Mounted = <<>>
    BY <1>4 DEF Mounted
  <2>6. \A r \in gets : r.pane < spent.taps
    BY <1>2, <1>4 DEF OneFetch
  <2>7. OneFetch'
    <3>1. \A r, q \in gets' : r.pane = q.pane => r = q
      <4>1. \A r, q \in gets : r.pane = q.pane => r = q
        BY DEF OneFetch
      <4> QED  BY <1>2, <2>1, <2>3, <2>6, <4>1
    <3>2. \A r \in gets' : r.pane = pane'.mount \/ r.pane < spent'.taps
      BY <2>1, <2>2, <2>3, <2>4, <2>6
    <3>3. pane'.mount <= spent'.taps /\ pane'.inFlight /\ \E r \in gets' : r.pane = pane'.mount
      BY <1>2, <2>1, <2>2, <2>3, <2>4
    <3> QED  BY <1>3, <1>4, <3>1, <3>2, <3>3 DEF OneFetch
  <2>8. gets' \subseteq GetSet
    BY <1>1, <2>1, <2>3
  <2> QED  BY <1>4, <2>1, <2>2, <2>4, <2>5, <2>7, <2>8
<1>5. CASE mode = "suggestion" /\ pane.mount # 0
  <2>1. pane' = pane /\ gets' = gets /\ spent' = spent
    BY <1>5 DEF CommitScreen
  <2>2. OneFetch'
    BY <1>1, <1>2, <1>3, <2>1, FetchFrame
  <2> QED  BY <1>1, <1>2, <1>5, <2>1, <2>2
<1>6. CASE mode # "suggestion"
  <2>1. pane' = NotMounted /\ gets' = gets /\ spent' = spent
    BY <1>6 DEF CommitScreen
  <2>2. Mounted = <<>>
    BY <1>6 DEF Mounted
  <2>3. \A r \in gets : r.pane < spent.taps
    BY <1>2, <1>6 DEF OneFetch
  <2>4. OneFetch'
    BY <1>2, <1>3, <2>1, <2>3 DEF OneFetch
  <2> QED  BY <1>1, <1>6, <2>1, <2>2, <2>4
<1> QED  BY <1>4, <1>5, <1>6

\* The cards it mounts: a card that saves is still there or can be taken for
\* none of them, so that each is guarded by a save of its own.
LEMMA CommitCards ==
  ASSUME IdeasInv, CommitScreen
  PROVE  CardsDealt' /\ PostsKnown' /\ SavedIsStored' /\ cards' \in Seq(CardSet)
<1>0. /\ IdeasShape /\ OneFetch /\ CardsDealt /\ PostsKnown /\ SavesCounted /\ SavedIsStored
  BY DEF IdeasInv
<1>1. spent \in Spendings /\ posts \subseteq PostSet /\ cards \in Seq(CardSet) /\ spent.gets \in Nat
      /\ savingSuggestions \in Nat
  BY <1>0, SpentIs DEF IdeasShape
<1>2. /\ cards' = Mounted /\ shown'.savingSuggestions = savingSuggestions
      /\ UNCHANGED <<outfits, mode, savingSuggestions, posts>>
  BY DEF CommitScreen
<1> DEFINE Stays == mode = "suggestion" /\ pane.mount > 0 /\ pane' = pane /\ spent'.gets = spent.gets
<1>3. /\ \/ mode = "suggestion" /\ pane.mount = 0 /\ Mounted = <<>> /\ spent'.gets = spent.gets + 1
         \/ Stays
         \/ Mounted = <<>> /\ pane'.mount = 0 /\ spent'.gets = spent.gets
      /\ spent'.posts = spent.posts /\ spent'.taps = spent.taps
  BY <1>0, CommitPane DEF NotMounted
<1>4. /\ cards' \in Seq(CardSet)
      /\ cards' # <<>> => mode = "suggestion" /\ pane.mount > 0 /\ pane.snapshot.loaded
  BY <1>0, <1>2, MountedIs
<1>5. ASSUME mode = "suggestion", pane.mount > 0, pane.snapshot.loaded
      PROVE  /\ DOMAIN cards' = DOMAIN pane.snapshot.ideas
             /\ IsInjective(pane.snapshot.ideas)
             /\ \A i \in DOMAIN cards' :
                  /\ cards'[i].key = pane.snapshot.ideas[i]
                  /\ \/ \E j \in DOMAIN cards : cards'[i] = cards[j]
                     \/ /\ cards'[i] = Card(pane.snapshot.ideas[i])
                        /\ \A j \in DOMAIN cards : cards[j].key # pane.snapshot.ideas[i]
  BY <1>0, <1>2, <1>5, MountedIs
<1>6. ASSUME NEW i \in DOMAIN cards'
      PROVE  /\ Stays /\ pane.snapshot.loaded /\ cards'[i].key = pane.snapshot.ideas[i]
             /\ i \in DOMAIN pane.snapshot.ideas
             /\ \/ \E j \in DOMAIN cards : cards'[i] = cards[j]
                \/ /\ cards'[i] = Card(pane.snapshot.ideas[i])
                   /\ \A j \in DOMAIN cards : cards[j].key # pane.snapshot.ideas[i]
  <2>1. cards' # <<>>
    BY <1>4
  <2>2. mode = "suggestion" /\ pane.mount > 0 /\ pane.snapshot.loaded
    BY <1>4, <2>1
  <2>3. Stays
    BY <1>2, <1>3, <2>1, <2>2
  <2> QED  BY <1>5, <2>2, <2>3
<1>7. \A key : Card(key).key = key /\ Card(key).born = spent.gets /\ ~Card(key).ref /\ ~Card(key).saved
  BY DEF Card
<1>8. CardsDealt'
  <2>1. ASSUME NEW i \in DOMAIN cards', NEW k \in DOMAIN cards', cards'[i].key = cards'[k].key
        PROVE  i = k
    <3>1. IsInjective(pane.snapshot.ideas)
      BY <1>5, <1>6
    <3> QED  BY <1>6, <2>1, <3>1 DEF IsInjective
  <2>2. cards' # <<>> => pane'.mount > 0 /\ pane'.snapshot.loaded
    <3>1. cards' # <<>> => 1 \in DOMAIN cards'
      BY <1>4
    <3> QED  BY <1>6, <3>1
  <2>3. ASSUME NEW i \in DOMAIN cards'
        PROVE  /\ cards'[i].born <= spent'.gets
               /\ \E k \in DOMAIN pane'.snapshot.ideas : pane'.snapshot.ideas[k] = cards'[i].key
    <3>1. \A j \in DOMAIN cards : cards[j].born <= spent.gets
      BY <1>0 DEF CardsDealt
    <3>2. cards'[i].born <= spent.gets
      BY <1>1, <1>6, <1>7, <3>1
    <3> QED  BY <1>6, <3>2
  <2> QED  BY <2>1, <2>2, <2>3 DEF CardsDealt
<1>9. ASSUME NEW p \in posts, OfCard(p)
      PROVE  CardPost(p)
  BY <1>0, <1>9 DEF PostsKnown
<1>10. ASSUME NEW p \in posts, OfCard(p)  PROVE CardPost(p)'
  <2>1. /\ p.who \in Seq(Garments) \X Nat /\ p.who[1] = p.ids /\ p.who[2] \in Nat /\ p.who[2] <= spent.gets
        /\ p.who[2] = spent.gets => OnScreen(p) \/ pane.mount = 0 \/ Superseded(p)
    BY <1>9, <1>10 DEF CardPost
  <2>2. savingSuggestions # 0
    <3>1. p \in CardPosts /\ IsFiniteSet(CardPosts)
      BY <1>0, <1>10, FS_Subset DEF CardPosts, OfCard, SavesCounted
    <3>2. Cardinality(CardPosts) # 0
      BY <3>1, FS_EmptySet
    <3> QED  BY <1>0, <3>2 DEF SavesCounted
  <2>3. ASSUME Stays, p.who[2] = spent.gets  PROVE OnScreen(p)' \/ Superseded(p)'
    <3>1. CASE Superseded(p)
      BY <2>3, <3>1 DEF Superseded
    <3>2. CASE OnScreen(p)
      <4>1. PICK j \in DOMAIN cards : Owner(cards[j]) = p.who
        BY <3>2 DEF OnScreen
      <4>2. cards[j].key = p.ids /\ cards[j].born = spent.gets
        BY <2>1, <2>3, <4>1 DEF Owner
      <4>3. pane.snapshot.loaded
        BY <1>0, <1>1, <4>1 DEF CardsDealt
      <4>4. CASE \E k \in DOMAIN pane.snapshot.ideas : pane.snapshot.ideas[k] = p.ids
        <5>1. PICK k \in DOMAIN pane.snapshot.ideas : pane.snapshot.ideas[k] = p.ids
          BY <4>4
        <5>2. k \in DOMAIN cards' /\ \E i \in DOMAIN cards : cards'[k] = cards[i]
          BY <1>5, <2>3, <4>2, <4>3, <5>1
        <5>3. PICK i \in DOMAIN cards : cards'[k] = cards[i]
          BY <5>2
        <5>4. cards[i].key = p.ids
          BY <1>6, <5>1, <5>2, <5>3
        <5>5. i = j
          BY <1>0, <4>2, <5>4 DEF CardsDealt
        <5>6. Owner(cards'[k]) = p.who
          BY <4>1, <5>3, <5>5
        <5> QED  BY <5>2, <5>6 DEF OnScreen, Owner
      <4>5. CASE \A k \in DOMAIN pane.snapshot.ideas : pane.snapshot.ideas[k] # p.ids
        <5>1. ~pane.inFlight
          BY <1>0, <4>2, <4>5 DEF CardsDealt
        <5> QED  BY <2>3, <4>3, <4>5, <5>1 DEF Superseded
      <4> QED  BY <4>4, <4>5
    <3> QED  BY <2>1, <2>3, <3>1, <3>2
  <2> QED  BY <1>1, <1>2, <1>3, <2>1, <2>2, <2>3 DEF CardPost
<1>11. PostsKnown'
  <2>1. ASSUME NEW p \in posts  PROVE Keeps(p)' /\ p.n < spent'.posts
    BY <1>0, <1>2, <1>3 DEF PostsKnown, Keeps
  <2>2. ASSUME NEW i \in DOMAIN cards'
        PROVE  cards'[i].ref <=> \E q \in posts : OfCard(q) /\ q.who = Owner(cards'[i])
    <3>1. CASE \E j \in DOMAIN cards : cards'[i] = cards[j]
      BY <1>0, <3>1 DEF PostsKnown
    <3>2. CASE /\ cards'[i] = Card(pane.snapshot.ideas[i])
               /\ \A j \in DOMAIN cards : cards[j].key # pane.snapshot.ideas[i]
      <4> DEFINE key == pane.snapshot.ideas[i]
      <4>1. ~cards'[i].ref /\ Owner(cards'[i]) = <<key, spent.gets>>
        BY <1>7, <3>2 DEF Owner
      <4>2. ASSUME NEW q \in posts, OfCard(q), q.who = <<key, spent.gets>>  PROVE FALSE
        <5>1. q.ids = key /\ (OnScreen(q) \/ pane.mount = 0 \/ Superseded(q))
          BY <1>9, <4>2 DEF CardPost
        <5>2. ~OnScreen(q)
          BY <3>2, <4>2 DEF OnScreen, Owner
        <5>3. pane.mount # 0
          BY <1>6
        <5>4. ~Superseded(q)
          BY <1>6, <5>1 DEF Superseded
        <5> QED  BY <5>1, <5>2, <5>3, <5>4
      <4> QED  BY <4>1, <4>2
    <3> QED  BY <1>6, <3>1, <3>2
  <2>3. /\ \A p, q \in posts : p.n = q.n => p = q
        /\ \A p, q \in posts : OfCard(p) /\ OfCard(q) /\ p.who = q.who => p = q
    BY <1>0 DEF PostsKnown
  <2> QED  BY <1>2, <1>10, <2>1, <2>2, <2>3 DEF PostsKnown, OfCard, Owner
<1>12. SavedIsStored'
  <2>1. \A j \in DOMAIN cards : cards[j].saved => \E o \in outfits : o.ids = cards[j].key
    BY <1>0 DEF SavedIsStored, ToSet
  <2>2. ASSUME NEW i \in DOMAIN cards', cards'[i].saved  PROVE \E o \in outfits : o.ids = cards'[i].key
    BY <1>6, <1>7, <2>1, <2>2
  <2> QED  BY <1>2, <2>2 DEF SavedIsStored, ToSet
<1> QED  BY <1>4, <1>8, <1>11, <1>12

\* The screen rendered anew keeps the whole invariant.
LEMMA IdeasCommitStep ==
  ASSUME IdeasInv, CommitScreen
  PROVE  IdeasInv'
<1>0. /\ IdeasShape /\ OneFetch /\ CardsDealt /\ PostsKnown /\ ComposerKnown /\ SavesCounted
      /\ SavedIsStored /\ NothingChosenIsLost /\ NothingTypedIsLost
  BY DEF IdeasInv
<1>1. spent \in Spendings /\ spent.taps \in Nat /\ spent.posts \in Nat /\ savingSuggestions \in Nat
      /\ composer \in {NotMounted} \cup Composers
  BY <1>0, SpentIs DEF IdeasShape
<1>2. /\ composer' = Recomposed
      /\ IF Recomposed # composer
           THEN /\ chosen' = IF mode = "outfit" THEN ToSet(Recomposed.selected) ELSE {}
                /\ typed' = IF mode = "outfit" THEN Recomposed.name ELSE NoName
           ELSE UNCHANGED <<chosen, typed>>
      /\ shown'.mode = mode /\ shown'.composer = composer'
      /\ UNCHANGED <<wardrobe, outfits, mode, preselected, composerSaving, savingSuggestions, posts>>
  BY DEF CommitScreen
<1>3. /\ spent' \in Spendings /\ spent'.posts = spent.posts /\ spent'.taps = spent.taps
      /\ gets' \subseteq GetSet /\ pane' \in {NotMounted} \cup Panes /\ OneFetch'
  BY <1>0, CommitPane
<1>4. CardsDealt' /\ PostsKnown' /\ SavedIsStored' /\ cards' \in Seq(CardSet)
  BY CommitCards
<1>5. /\ composer' \in {NotMounted} \cup Composers
      /\ mode # "outfit" => composer' = NotMounted
      /\ mode = "outfit" => composer' \in Composers /\ composer' # NotMounted
      /\ mode = "outfit" /\ composer = NotMounted => composer'.mount = spent.taps /\ ~composer'.ref
      /\ mode = "outfit" /\ composer # NotMounted =>
           composer'.mount = composer.mount /\ composer'.ref = composer.ref
  BY <1>0, <1>2, RecomposedIs
<1>6. chosen' \subseteq Garments /\ typed' \in Names
  <2>1. mode = "outfit" => composer'.selected \in Seq(Garments) /\ composer'.name \in Names
    BY <1>5 DEF Composers
  <2>2. mode = "outfit" => ToSet(composer'.selected) \subseteq Garments
    BY <2>1 DEF ToSet
  <2>3. chosen \subseteq Garments /\ typed \in Names
    BY <1>0 DEF IdeasShape
  <2> QED  BY <1>2, <2>1, <2>2, <2>3 DEF NoName, Names
<1>7. IdeasShape'
  <2>1. /\ wardrobe \in Reads /\ mode \in {"item", "outfit", "suggestion"} /\ composerSaving \in BOOLEAN
        /\ savingSuggestions \in Nat /\ preselected \in Seq(Garments) /\ posts \subseteq PostSet
        /\ (mode # "item" => spent.taps > 0)
    BY <1>0 DEF IdeasShape
  <2> QED  BY <1>2, <1>3, <1>4, <1>5, <1>6, <2>1 DEF IdeasShape
<1>8. ComposerKnown'
  <2>1. composer.mount \in Nat /\ NotMounted.mount = 0 /\ (composer # NotMounted => composer.mount > 0)
    BY <1>1 DEF NotMounted, Composers
  <2>2. \A q \in posts : OfComposer(q) =>
          q.who \in Nat /\ (q.who = composer.mount \/ q.who < spent.taps) /\ q.who > 0
    BY <1>0 DEF ComposerKnown
  <2>3. composer.mount <= spent.taps /\ (composer.mount > 0 /\ mode # "outfit" => composer.mount < spent.taps)
    BY <1>0 DEF ComposerKnown
  <2>4. \A q, k \in posts : OfComposer(q) /\ OfComposer(k) /\ q.who = k.who => q = k
    BY <1>0 DEF ComposerKnown
  <2>5. CASE mode # "outfit"
    <3>1. composer' = NotMounted
      BY <1>5, <2>5
    <3>2. \A q \in posts : OfComposer(q) => q.who < spent.taps
      BY <1>1, <2>1, <2>2, <2>3, <2>5
    <3> QED  BY <1>1, <1>2, <1>3, <2>1, <2>2, <2>4, <3>1, <3>2 DEF ComposerKnown, OfComposer
  <2>6. CASE mode = "outfit" /\ composer = NotMounted
    <3>1. composer'.mount = spent.taps /\ ~composer'.ref
      BY <1>5, <2>6
    <3>2. \A q \in posts : OfComposer(q) => q.who < spent.taps
      BY <1>1, <2>1, <2>2, <2>6
    <3> QED  BY <1>1, <1>2, <1>3, <2>2, <2>4, <2>6, <3>1, <3>2 DEF ComposerKnown, OfComposer
  <2>7. CASE mode = "outfit" /\ composer # NotMounted
    <3>1. composer'.mount = composer.mount /\ composer'.ref = composer.ref
      BY <1>5, <2>7
    <3>2. composer.ref <=> \E q \in posts : OfComposer(q) /\ q.who = composer.mount
      BY <1>0, <2>7 DEF ComposerKnown
    <3> QED  BY <1>2, <1>3, <2>2, <2>3, <2>4, <2>7, <3>1, <3>2 DEF ComposerKnown, OfComposer
  <2> QED  BY <2>5, <2>6, <2>7
<1>9. SavesCounted'
  BY <1>0, <1>1, <1>2, <1>3, CountFrame
<1>10. NothingChosenIsLost' /\ NothingTypedIsLost'
  <2>1. CASE composer' = composer
    <3>1. outfits' = outfits /\ UNCHANGED <<composer, chosen, typed>>
      BY <1>2, <2>1
    <3> QED  BY <1>0, <3>1, WordsFrame
  <2>2. CASE composer' # composer
    <3>1. composer' # NotMounted => chosen' = ToSet(composer'.selected) /\ typed' = composer'.name
      BY <1>2, <1>5, <2>2
    <3> QED  BY <3>1 DEF NothingChosenIsLost, NothingTypedIsLost
  <2> QED  BY <2>1, <2>2
<1> QED  BY <1>3, <1>4, <1>7, <1>8, <1>9, <1>10 DEF IdeasInv
\* Every step of the part keeps the invariant.
LEMMA IdeasInvStep ==
  ASSUME IdeasInv, IdeasNext \/ UNCHANGED ideasVars  PROVE IdeasInv'
<1>1. CASE CommitScreen
  BY <1>1, IdeasCommitStep
<1>2. CASE RefreshIdeas
  BY <1>2, IdeasRefreshStep
<1>3. CASE SaveComposed
  BY <1>3, IdeasSaveComposedStep
<1>4. ASSUME NEW m \in {"item", "outfit", "suggestion"}, SelectMode(m)  PROVE IdeasInv'
  BY <1>4, IdeasModeSteps
<1>5. ASSUME NEW g \in Garments, ChangeElsewhere(g) \/ Toggle(g)  PROVE IdeasInv'
  BY <1>5, IdeasElsewhereSteps, IdeasHandSteps
<1>6. ASSUME NEW n \in Names, TypeName(n)  PROVE IdeasInv'
  BY <1>6, IdeasHandSteps
<1>7. ASSUME NEW r \in gets, ReadWardrobe(r) \/ Engine(r) \/ LoseGet(r) \/ DeliverGet(r)
      PROVE  IdeasInv'
  BY <1>7, IdeasElsewhereSteps, IdeasDeliverStep
<1>8. ASSUME NEW p \in posts, ServePost(p) \/ LosePost(p) \/ SettleCard(p) \/ SettleComposed(p)
      PROVE  IdeasInv'
  BY <1>8, IdeasPostSteps, IdeasSettleCardStep, IdeasSettleComposedStep
<1>9. ASSUME NEW i \in DOMAIN cards, SaveCard(i) \/ Modify(i)  PROVE IdeasInv'
  BY <1>9, IdeasSaveCardStep, IdeasModeSteps
<1>10. CASE UNCHANGED ideasVars
  <2>1. UNCHANGED <<wardrobe, outfits, mode, preselected, composerSaving, savingSuggestions, pane, cards,
                    composer, shown, gets, posts, spent, chosen, typed>>
    BY <1>10 DEF ideasVars, screen
  <2>2. IdeasShape' /\ OneFetch' /\ CardsDealt'
    BY <2>1 DEF IdeasInv, IdeasShape, OneFetch, CardsDealt
  <2>3. ASSUME NEW q \in posts  PROVE Keeps(q)' /\ (OfCard(q) => CardPost(q)')
    <3>1. Keeps(q) /\ (OfCard(q) => CardPost(q))
      BY DEF IdeasInv, PostsKnown
    <3> QED  BY <2>1, <3>1 DEF Keeps, CardPost, OnScreen, Superseded, Owner
  <2>4. PostsKnown'
    BY <2>1, <2>3 DEF IdeasInv, PostsKnown, OfCard, Owner
  <2>5. ComposerKnown' /\ SavesCounted'
    BY <2>1 DEF IdeasInv, ComposerKnown, SavesCounted, OfComposer, CardPosts
  <2>6. SavedIsStored' /\ NothingChosenIsLost' /\ NothingTypedIsLost'
    BY <2>1, WordsFrame DEF IdeasInv
  <2> QED  BY <2>2, <2>4, <2>5, <2>6 DEF IdeasInv
<1> QED  BY <1>1, <1>2, <1>3, <1>4, <1>5, <1>6, <1>7, <1>8, <1>9, <1>10 DEF IdeasNext

\* A set of records none of whose two share an owner has one of an owner, or none.
LEMMA OneOrNone ==
  ASSUME NEW S, \A p, q \in S : p = q
  PROVE  Cardinality(S) = IF S = {} THEN 0 ELSE 1
<1>1. CASE S = {}
  BY <1>1, FS_EmptySet
<1>2. CASE S # {}
  <2>1. PICK p \in S : TRUE
    BY <1>2
  <2>2. S = {p}
    BY <2>1
  <2> QED  BY <1>2, <2>2, FS_Singleton
<1> QED  BY <1>1, <1>2

\* The statuses part the garments: each is in one notice, in reach, or gone.
LEMMA CountsAddUp ==
  ASSUME NEW read \in Reads
  PROVE  Count(read, {"laundry"}) + Count(read, {"retired", "both"}) + Count(read, {"active"})
           = Cardinality(Garments) - Count(read, {"gone"})
<1> DEFINE Of(statuses) == {g \in Garments : read[g] \in statuses}
<1>1. IsFiniteSet(Garments)
  BY ShelfAssumption DEF Garments, IsShelf
<1>2. \A statuses : /\ Of(statuses) \subseteq Garments /\ IsFiniteSet(Of(statuses))
                    /\ Cardinality(Of(statuses)) \in Nat
                    /\ Count(read, statuses) = Cardinality(Of(statuses))
  <2> TAKE statuses
  <2>1. Of(statuses) \subseteq Garments
    OBVIOUS
  <2>2. IsFiniteSet(Of(statuses))
    BY <1>1, <2>1, FS_Subset
  <2>3. Cardinality(Of(statuses)) \in Nat
    BY <2>2, FS_CardinalityType
  <2> QED  BY <2>1, <2>2, <2>3 DEF Count
<1>3. ASSUME NEW a, NEW b, a \cap b = {}
      PROVE  Cardinality(Of(a \cup b)) = Cardinality(Of(a)) + Cardinality(Of(b))
  <2>1. Of(a \cup b) = Of(a) \cup Of(b) /\ Of(a) \cap Of(b) = {}
    BY <1>3
  <2> HIDE DEF Of
  <2>2. Cardinality(Of(a) \cup Of(b)) = Cardinality(Of(a)) + Cardinality(Of(b)) - Cardinality({})
    BY <1>2, <2>1, FS_Union
  <2>3. Cardinality({}) = 0
    BY FS_EmptySet
  <2>4. Cardinality(Of(a)) \in Nat /\ Cardinality(Of(b)) \in Nat
    BY <1>2
  <2>5. Cardinality(Of(a \cup b)) = Cardinality(Of(a)) + Cardinality(Of(b)) - 0
    BY <2>1, <2>2, <2>3
  <2> QED  BY <2>4, <2>5
<1> DEFINE L == {"laundry"}
           R == {"retired", "both"}
           A == {"active"}
           D == {"gone"}
<1>4. L \cap R = {} /\ (L \cup R) \cap A = {} /\ ((L \cup R) \cup A) \cap D = {}
  OBVIOUS
<1>5. Of(((L \cup R) \cup A) \cup D) = Garments
  BY DEF Reads, Statuses
<1> HIDE DEF L, R, A, D, Of
<1>6. /\ Cardinality(Of(L \cup R)) = Cardinality(Of(L)) + Cardinality(Of(R))
      /\ Cardinality(Of((L \cup R) \cup A)) = Cardinality(Of(L \cup R)) + Cardinality(Of(A))
      /\ Cardinality(Of(((L \cup R) \cup A) \cup D)) = Cardinality(Of((L \cup R) \cup A)) + Cardinality(Of(D))
  BY <1>3, <1>4
<1>7. /\ Cardinality(Of(L)) \in Nat /\ Cardinality(Of(R)) \in Nat /\ Cardinality(Of(A)) \in Nat
      /\ Cardinality(Of(D)) \in Nat
  BY <1>2
<1>8. Cardinality(Garments) = Cardinality(Of(L)) + Cardinality(Of(R)) + Cardinality(Of(A)) + Cardinality(Of(D))
  BY <1>5, <1>6, <1>7
<1>9. /\ Count(read, L) = Cardinality(Of(L)) /\ Count(read, R) = Cardinality(Of(R))
      /\ Count(read, A) = Cardinality(Of(A)) /\ Count(read, D) = Cardinality(Of(D))
  BY <1>2
<1>10. Count(read, L) + Count(read, R) + Count(read, A) = Cardinality(Garments) - Count(read, D)
  BY <1>7, <1>8, <1>9
<1> QED  BY <1>10 DEF L, R, A, D

\* What the invariant gives of the properties of the part.
LEMMA IdeasHold ==
  ASSUME IdeasInv
  PROVE  IdeasTypeOK /\ GuardsMatchPosts /\ ChipsMatchSaves /\ SavedIsStored
         /\ EmptyIsTrue /\ NoticesAddUp /\ NothingChosenIsLost /\ NothingTypedIsLost
<1>0. /\ IdeasShape /\ OneFetch /\ CardsDealt /\ PostsKnown /\ ComposerKnown /\ SavesCounted
      /\ SavedIsStored /\ NothingChosenIsLost /\ NothingTypedIsLost
  BY DEF IdeasInv
<1>1. IdeasTypeOK
  <2>1. spent.posts \in 0..MaxOutfitPosts /\ savingSuggestions \in Nat /\ savingSuggestions <= spent.posts
        /\ MaxOutfitPosts \in Nat
    BY <1>0, IdeasBoundsAssumption DEF IdeasShape, Spendings, SavesCounted
  <2>2. savingSuggestions \in 0..MaxOutfitPosts
    BY <2>1
  <2>3. \A p \in posts : p.from \in {"card", "composer"} /\ p.at \in {"sent", "stored", "failed"}
    BY <1>0 DEF IdeasShape, PostSet
  <2>4. \A r \in gets : r.at \in {"sent", "read", "answered", "unavailable", "other"}
    BY <1>0 DEF IdeasShape, GetSet
  <2> QED  BY <1>0, <2>2, <2>3, <2>4 DEF IdeasTypeOK, IdeasShape, Reads, Statuses
<1>2. ASSUME NEW c \in ToSet(cards)
      PROVE  Cardinality({p \in posts : p.from = "card" /\ p.who = Owner(c)}) = IF c.ref THEN 1 ELSE 0
  <2> DEFINE S == {p \in posts : p.from = "card" /\ p.who = Owner(c)}
  <2>1. \A p, q \in S : p = q
    BY <1>0 DEF PostsKnown, OfCard
  <2>2. c.ref <=> S # {}
    <3>1. PICK i \in DOMAIN cards : c = cards[i]
      BY DEF ToSet
    <3>2. cards[i].ref <=> \E p \in posts : OfCard(p) /\ p.who = Owner(cards[i])
      BY <1>0 DEF PostsKnown
    <3> QED  BY <3>1, <3>2 DEF OfCard
  <2> HIDE DEF S
  <2>3. Cardinality(S) = IF c.ref THEN 1 ELSE 0
    BY <2>1, <2>2, OneOrNone
  <2> QED  BY <2>3 DEF S
<1>3. ASSUME composer # NotMounted
      PROVE  Cardinality({p \in posts : p.from = "composer" /\ p.who = composer.mount})
               = IF composer.ref THEN 1 ELSE 0
  <2> DEFINE S == {p \in posts : p.from = "composer" /\ p.who = composer.mount}
  <2>1. \A p, q \in S : p = q
    BY <1>0 DEF ComposerKnown, OfComposer
  <2>2. composer.ref <=> S # {}
    BY <1>0, <1>3 DEF ComposerKnown, OfComposer
  <2> HIDE DEF S
  <2>3. Cardinality(S) = IF composer.ref THEN 1 ELSE 0
    BY <2>1, <2>2, OneOrNone
  <2> QED  BY <2>3 DEF S
<1>4. GuardsMatchPosts
  BY <1>2, <1>3 DEF GuardsMatchPosts
<1>5. ChipsMatchSaves
  BY <1>0 DEF ChipsMatchSaves, SavesCounted, CardPosts, OfComposer
<1>6. ASSUME pane.mount > 0, pane.snapshot.loaded
      PROVE  \E read \in Reads : pane.snapshot = Shortlist(read)
  <2>1. pane \in Panes
    BY <1>0, <1>6 DEF IdeasShape, NotMounted
  <2>2. pane.snapshot \in Shortlists
    BY <1>6, <2>1 DEF Panes, NotLoaded
  <2> QED  BY <2>2 DEF Shortlists
<1>7. EmptyIsTrue
  <2> SUFFICES ASSUME pane.mount > 0, pane.snapshot.loaded, pane.snapshot.ideas = <<>>
               PROVE  LET Has(slot) == \E g \in Garments :
                                         pane.snapshot.read[g] = "active" /\ Slot(Shelf, g) = slot
                      IN ~Has("dress") /\ ~(Has("top") /\ Has("bottom"))
    BY DEF EmptyIsTrue, Drawn
  <2>1. PICK read \in Reads : pane.snapshot = Shortlist(read)
    BY <1>6
  <2>2. /\ Shortlist(read).read = read
        /\ Shortlist(read).ideas = <<>> =>
             LET Has(slot) == \E g \in Garments : read[g] = "active" /\ Slot(Shelf, g) = slot
             IN ~Has("dress") /\ ~(Has("top") /\ Has("bottom"))
    BY ShortlistIs
  <2> QED  BY <2>1, <2>2
<1>8. NoticesAddUp
  <2> SUFFICES ASSUME pane.mount > 0, pane.snapshot.loaded
               PROVE  /\ pane.snapshot.inLaundry + pane.snapshot.retired
                             + Count(pane.snapshot.read, {"active"})
                           = Cardinality(Garments) - Count(pane.snapshot.read, {"gone"})
                      /\ \A i \in DOMAIN pane.snapshot.ideas :
                           \A g \in ToSet(pane.snapshot.ideas[i]) : pane.snapshot.read[g] = "active"
    BY DEF NoticesAddUp, Drawn
  <2>1. PICK read \in Reads : pane.snapshot = Shortlist(read)
    BY <1>6
  <2>2. /\ Shortlist(read).read = read
        /\ Shortlist(read).inLaundry = Count(read, {"laundry"})
        /\ Shortlist(read).retired = Count(read, {"retired", "both"})
        /\ \A i \in DOMAIN Shortlist(read).ideas :
             \A g \in ToSet(Shortlist(read).ideas[i]) : read[g] = "active"
    BY ShortlistIs
  <2>3. Count(read, {"laundry"}) + Count(read, {"retired", "both"}) + Count(read, {"active"})
          = Cardinality(Garments) - Count(read, {"gone"})
    BY CountsAddUp
  <2> QED  BY <2>1, <2>2, <2>3
<1> QED  BY <1>0, <1>1, <1>4, <1>5, <1>7, <1>8

\* A card that saves is not what Modify takes: while the chips are on it is on
\* the screen, and its own guard is held.
LEMMA SavingCardStays ==
  ASSUME IdeasInv, IdeasNext \/ UNCHANGED ideasVars,
         mode = "suggestion", mode' = "outfit", preselected' # NotChosen, NEW p \in posts, p.from = "card"
  PROVE  p.ids # preselected'
<1>0. IdeasShape /\ CardsDealt /\ PostsKnown
  BY DEF IdeasInv
<1>1. PICK i \in DOMAIN cards : Modify(i)
  <2>1. mode' # mode
    OBVIOUS
  <2>2. \A m : ~SelectMode(m)
    BY DEF SelectMode, Goes
  <2>3. ~CommitScreen /\ ~RefreshIdeas /\ ~SaveComposed /\ ~UNCHANGED ideasVars
    BY <2>1 DEF CommitScreen, RefreshIdeas, SaveComposed, ideasVars, screen
  <2>4. \A g : ~ChangeElsewhere(g) /\ ~Toggle(g)
    BY <2>1 DEF ChangeElsewhere, Toggle, screen
  <2>5. \A n : ~TypeName(n)
    BY <2>1 DEF TypeName
  <2>6. \A r : ~ReadWardrobe(r) /\ ~Engine(r) /\ ~LoseGet(r) /\ ~DeliverGet(r)
    BY <2>1 DEF ReadWardrobe, Engine, LoseGet, DeliverGet, screen
  <2>7. \A q : ~ServePost(q) /\ ~LosePost(q) /\ ~SettleCard(q) /\ ~SettleComposed(q)
    BY <2>1 DEF ServePost, LosePost, SettleCard, SettleComposed, screen
  <2>8. \A k : ~SaveCard(k)
    BY <2>1 DEF SaveCard
  <2> QED  BY <2>2, <2>3, <2>4, <2>5, <2>6, <2>7, <2>8 DEF IdeasNext
<1>2. shown.savingSuggestions = 0 /\ ~cards[i].ref /\ preselected' = cards[i].key
  BY <1>1 DEF Modify, Goes
<1>3. CardPost(p) /\ OfCard(p)
  BY <1>0 DEF PostsKnown, OfCard
<1>4. PICK j \in DOMAIN cards : Owner(cards[j]) = p.who
  BY <1>2, <1>3 DEF CardPost, OnScreen
<1>5. cards[j].key = p.ids
  BY <1>3, <1>4 DEF CardPost, Owner
<1>6. cards[j].ref
  BY <1>0, <1>3, <1>4 DEF PostsKnown
<1>7. ASSUME p.ids = preselected'  PROVE FALSE
  <2>1. i = j
    BY <1>0, <1>2, <1>5, <1>7 DEF CardsDealt
  <2> QED  BY <1>2, <1>6, <2>1
<1> QED  BY <1>7

----------------------------------------------------------------------------
(***************************************************************************)
(* The Add tab.                                                            *)
(***************************************************************************)
AddInv == FormInv /\ IdeasInv /\ EngineInv

\* Each part is followed alone, and leaves the others as they are.
LEMMA AddInvStep ==
  /\ AddInit => AddInv
  /\ AddInv /\ [AddNext]_<<formVars, ideasVars, engineVars, hand>> => AddInv'
<1>1. ASSUME AddInit  PROVE AddInv
  BY <1>1, FormInvInit, IdeasInvInit, EngineInvStep DEF AddInit, AddInv
<1>2. ASSUME AddInv, [AddNext]_<<formVars, ideasVars, engineVars, hand>>  PROVE AddInv'
  <2>1. FormNext \/ UNCHANGED formVars
    BY <1>2 DEF AddNext
  <2>2. IdeasNext \/ UNCHANGED ideasVars
    BY <1>2 DEF AddNext
  <2>3. FormInv' /\ IdeasInv'
    BY <1>2, <2>1, <2>2, FormInvStep, IdeasInvStep DEF AddInv
  <2> QED  BY <1>2, <2>3, EngineInvStep DEF AddInv
<1> QED  BY <1>1, <1>2

\* Every part starts and stays as its invariant says.
LEMMA AddAlways == AddSpec => []AddInv
<1>1. AddInit => AddInv
  BY AddInvStep
<1>2. AddInv /\ [AddNext]_<<formVars, ideasVars, engineVars, hand>> => AddInv'
  BY AddInvStep
<1> QED  BY <1>1, <1>2, PTL DEF AddSpec

\* ItemUploadForm.tsx:322-395, SuggestionCard.tsx:190-215, OutfitComposer.tsx:330-375,
\* add.tsx:358-373: however many presses land in one frame, a form, a card and a
\* composer has one save of its own under way exactly while its guard is held, and
\* the chips come back when the last of them has ended.
THEOREM GuardsAlwaysHeld == AddSpec => []OneRequestEach
<1>1. AddInv => OneRequestEach
  BY FormHolds, IdeasHold DEF AddInv, OneRequestEach, AddTypeOK
<1> QED  BY <1>1, AddAlways, PTL

\* What the form calls uploaded or corrected and what a card calls saved is stored.
THEOREM ClaimsAlwaysTrue == AddSpec => []NothingIsMadeUp
<1>1. AddInv => NothingIsMadeUp
  BY FormHolds, IdeasHold DEF AddInv, NothingIsMadeUp
<1> QED  BY <1>1, AddAlways, PTL

\* useSuggestions.ts:188-211, add.tsx:169-183: the shortlist drawn tells of the wardrobe
\* it was made from: it is empty only if nothing pairs, and its notices leave nothing out.
THEOREM ShortlistAlwaysTrue == AddSpec => []ShortlistIsTrue
<1>1. AddInv => ShortlistIsTrue
  BY IdeasHold DEF AddInv, ShortlistIsTrue
<1> QED  BY <1>1, AddAlways, PTL

\* suggest.py:149-576: of every wardrobe and season, what the engine proposes is in
\* season, speaks for each garment it adds, is none only if nothing pairs, and comes
\* best first.
THEOREM EngineAlwaysRight == AddSpec => []EngineMeetsItsRules
<1>1. AddInv => EngineMeetsItsRules
  BY EngineHolds DEF AddInv
<1> QED  BY <1>1, AddAlways, PTL

\* ItemUploadForm.tsx, OutfitComposer.tsx:349-359, SuggestionCard.tsx:271-275: a photo
\* gives way only to another or to its upload; a garment chosen stays until an outfit
\* with it is stored or the user gives it up, a name typed until it is stored, and a
\* card stays in the frame in which its Save was pressed.
THEOREM NothingEverLost == AddSpec => NothingIsLost
<1>1. AddInv => NothingChosenIsLost /\ NothingTypedIsLost
  BY IdeasHold DEF AddInv
<1>2. AddInv /\ [AddNext]_<<formVars, ideasVars, engineVars, hand>> =>
        [image # None /\ image' = None => \E j \in jobs \ jobs' : j.at = "stored"]_formVars
  <2> SUFFICES ASSUME AddInv, [AddNext]_<<formVars, ideasVars, engineVars, hand>>, image # None, image' = None
               PROVE  \E j \in jobs \ jobs' : j.at = "stored"
    OBVIOUS
  <2>1. FormNext \/ UNCHANGED formVars
    BY DEF AddNext
  <2> QED  BY <2>1, PhotoStays DEF AddInv
<1>3. AddInv /\ [AddNext]_<<formVars, ideasVars, engineVars, hand>> =>
        [mode = "suggestion" /\ mode' = "outfit" /\ preselected' # NotChosen =>
           \A p \in posts : p.from = "card" => p.ids # preselected']_ideasVars
  <2> SUFFICES ASSUME AddInv, [AddNext]_<<formVars, ideasVars, engineVars, hand>>,
                      mode = "suggestion", mode' = "outfit", preselected' # NotChosen,
                      NEW p \in posts, p.from = "card"
               PROVE  p.ids # preselected'
    OBVIOUS
  <2>1. IdeasNext \/ UNCHANGED ideasVars
    BY DEF AddNext
  <2> QED  BY <2>1, SavingCardStays DEF AddInv
<1> QED
  BY <1>1, <1>2, <1>3, AddAlways, PTL
  DEF AddSpec, NothingIsLost, PhotoSurvivesFailure, ModifyKeepsSaving
=============================================================================
