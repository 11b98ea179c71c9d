----------------------------- MODULE FeedClient -----------------------------
(***************************************************************************)
(* The mobile client's community feed, useCommunityFeed.ts, on the Search  *)
(* tab, against GET and DELETE /community/posts.                           *)
(*                                                                         *)
(* Requests are served and answered in any order while posts come and go.  *)
(* The hook keeps request ids, a cursor and a record of its own deletes;   *)
(* refs (requestId, inFlight, deleted) change at once, while gestures run  *)
(* closures over the state React last committed (view).  React runs a      *)
(* render, then its effects, before any timer or reply queued behind it;   *)
(* a scroll or a tap is dispatched ahead of them.                          *)
(***************************************************************************)
EXTENDS Integers, FiniteSets, SequencesExt, Listing

CONSTANTS
  MaxPosts,     \* bound: posts ever shared; a post is its place in that order
  Start,        \* the posts shared before the screen mounts
  Mine,         \* the posts the viewer shares
  Terms,        \* search terms, as trimmed
  Blank,        \* the empty term, matching every post
  Matching,     \* the posts whose caption matches each term
  PageSize,     \* DEFAULT_LIMIT
  MaxKeys,      \* bound: changes of the search box
  MaxRequests,  \* bound: gestures load while fewer loads than this were sent
  Failing       \* may requests fail?

Posts == 1..MaxPosts

ASSUME PostsAssumption == MaxPosts \in Nat /\ Start \in 0..MaxPosts /\ Mine \subseteq Posts
ASSUME TermsAssumption ==
  Blank \in Terms /\ Matching \in [Terms -> SUBSET Posts] /\ Matching[Blank] = Posts
ASSUME PageAssumption == PageSize \in Nat \ {0} /\ Failing \in BOOLEAN
ASSUME BoundsAssumption == MaxKeys \in Nat /\ MaxRequests \in Nat

VARIABLES
  feed,        \* the posts in the database
  made,        \* how many have been shared
  list,        \* posts: the rows, newest first
  nextCursor,  \* the post the next page starts behind; NoCursor past the last page
  query,       \* the search box
  term,        \* the term searched for
  view,        \* term and cursor as of the last commit
  effectDue,   \* the load effect of that commit is yet to run
  requestId,   \* requestIdRef
  inFlight,    \* inFlightRef, which activity follows
  error,       \* errorState, by source
  deleted,     \* deletedIdsRef
  deletes,     \* the requests of pendingDeletesRef
  loads,       \* list requests on the wire, with their answers
  dirty,       \* the 'feed' bit of communityDirty
  focused,     \* the Search tab is in front
  keys,        \* changes of the search box so far
  head,        \* history: posts that existed when the list's first page was read
  listId,      \* history: the request the list was last written by
  overtaken    \* history: the list was paged by a closure with an older cursor

server == <<feed, made>>
history == <<head, listId, overtaken>>
vars == <<server, list, nextCursor, query, term, view, effectDue, requestId, inFlight,
          error, deleted, deletes, loads, dirty, focused, keys, history>>

NoCursor == 0
Top == MaxPosts + 1  \* before the newest: no cursor sent

Load == [id : Nat, mode : {"replace", "append"}, term : Terms, cursor : 1..Top,
         status : {"sent", "page", "failed"},
         page : SUBSET Posts, next : 0..MaxPosts, head : 0..MaxPosts]

TypeOK ==
  /\ made \in 0..MaxPosts /\ feed \subseteq 1..made
  /\ list \in Seq(Posts) /\ nextCursor \in 0..MaxPosts
  /\ query \in Terms /\ term \in Terms
  /\ view \in [term : Terms, cursor : 0..MaxPosts]
  /\ effectDue \in BOOLEAN /\ dirty \in BOOLEAN /\ focused \in BOOLEAN
  /\ requestId \in Nat /\ listId \in 0..requestId
  /\ inFlight \in {"idle", "loading", "refreshing", "loadingMore"}
  /\ error \in {"none", "list", "action"}
  /\ deleted \subseteq Mine
  /\ deletes \in [Mine -> {"none", "sent", "gone", "failed"}]
  /\ loads \subseteq Load /\ \A l \in loads : l.id \in 1..requestId
  /\ keys \in 0..MaxKeys /\ head \in 0..MaxPosts
  /\ overtaken \in BOOLEAN

Init ==
  /\ feed = 1..Start /\ made = Start
  /\ list = <<>> /\ nextCursor = NoCursor
  /\ query = Blank /\ term = Blank
  /\ view = [term |-> Blank, cursor |-> NoCursor] /\ effectDue = TRUE
  /\ requestId = 0 /\ inFlight = "idle" /\ error = "none"
  /\ deleted = {} /\ deletes = [p \in Mine |-> "none"]
  /\ loads = {} /\ dirty = FALSE /\ focused = TRUE /\ keys = 0
  /\ head = 0 /\ listId = 0 /\ overtaken = FALSE

\* What is on screen is what the state says, and no effect is outstanding.
Committed == view = [term |-> term, cursor |-> nextCursor] /\ ~effectDue

\* clearError: only an operation of the same kind clears an error.
Cleared(source) == IF error = source THEN "none" ELSE error

\* MasonryFeed: what the screen makes of the hook's state; the spinner takes the
\* place of everything but the banner.
FeedShown ==
  [spinner |-> inFlight = "loading" /\ list = <<>>,
   banner  |-> error # "none",
   empty   |-> list = <<>> /\ error = "none"]

----------------------------------------------------------------------------
(***************************************************************************)
(* The list loads.                                                         *)
(***************************************************************************)

\* run: take the next request id, and the in-flight flag with it.
Run(kind, mode, t, cursor) ==
  /\ requestId' = requestId + 1
  /\ inFlight' = kind
  /\ error' = Cleared("list")
  /\ loads' = loads \cup
       {[id |-> requestId + 1, mode |-> mode, term |-> t, cursor |-> cursor,
         status |-> "sent", page |-> {}, next |-> NoCursor, head |-> 0]}

\* The load effect, on mount and for a new term; when focused, the screen's
\* focus effect runs after it, consumes the mark and finds the load started.
LoadEffect ==
  /\ effectDue /\ effectDue' = FALSE
  /\ list' = <<>> /\ nextCursor' = NoCursor
  /\ Run("loading", "replace", view.term, Top)
  /\ dirty' = (dirty /\ ~focused)
  /\ head' = 0 /\ listId' = requestId' /\ overtaken' = FALSE
  /\ UNCHANGED <<server, query, term, view, deleted, deletes, focused, keys>>

\* React commits what changed; a new term makes the load effect due.
Render ==
  /\ ~effectDue /\ ~Committed
  /\ view' = [term |-> term, cursor |-> nextCursor]
  /\ effectDue' = (view.term # term)
  /\ UNCHANGED <<server, list, nextCursor, query, term, requestId, inFlight, error,
                 deleted, deletes, loads, dirty, focused, keys, history>>

\* A list is there to be scrolled, or pulled.
Scrollable == focused /\ ~FeedShown.spinner

\* loadMore, a no-op while anything is in flight and past the last page.
LoadMore ==
  /\ Scrollable
  /\ IF inFlight = "idle" /\ view.cursor # NoCursor
       THEN /\ requestId < MaxRequests
            /\ Run("loadingMore", "append", view.term, view.cursor)
            /\ overtaken' = (overtaken \/ view.cursor # nextCursor)
       ELSE UNCHANGED <<requestId, inFlight, error, loads, overtaken>>
  /\ UNCHANGED <<server, list, nextCursor, query, term, view, effectDue, deleted, deletes,
                 dirty, focused, keys, head, listId>>

\* refresh, a no-op while another full load is in flight.
Reload ==
  IF inFlight \in {"loading", "refreshing"}
    THEN UNCHANGED <<requestId, inFlight, error, loads>>
    ELSE Run("refreshing", "replace", view.term, Top)

\* Pulled, or asked for by the banner.
Refresh ==
  /\ Scrollable \/ (focused /\ FeedShown.banner)
  /\ requestId < MaxRequests
  /\ Reload
  /\ UNCHANGED <<server, list, nextCursor, query, term, view, effectDue, deleted, deletes,
                 dirty, focused, keys, history>>

\* Mutant: the keyset includes the cursor's own row.
BehindOrAt(t, cursor) == {p \in feed \cap Matching[t] : p <= cursor}

\* GET /community/posts: the newest posts behind the cursor that match; a
\* next cursor, the last of them, only when there are more.
Behind(t, cursor) == {p \in feed \cap Matching[t] : p < cursor}

Page(t, cursor) ==
  {p \in Behind(t, cursor) : Cardinality({q \in Behind(t, cursor) : q > p}) < PageSize}

NextCursor(t, cursor) ==
  IF Page(t, cursor) = Behind(t, cursor) THEN NoCursor ELSE Min(Page(t, cursor))

Serve(l) ==
  /\ l.status = "sent"
  /\ \/ loads' = (loads \ {l}) \cup
          {[l EXCEPT !.status = "page", !.page = Page(l.term, l.cursor),
                     !.next = NextCursor(l.term, l.cursor), !.head = made]}
     \/ Failing /\ loads' = (loads \ {l}) \cup {[l EXCEPT !.status = "failed"]}
  /\ UNCHANGED <<server, list, nextCursor, query, term, view, effectDue, requestId, inFlight,
                 error, deleted, deletes, dirty, focused, keys, history>>

\* The rows a page leaves, without those deleted this session.
Rows(l) ==
  Without((IF l.mode = "append" THEN list ELSE <<>>) \o NewestFirst(l.page), deleted)

\* Mutant: the reply is matched by its term.
NewestByTerm(l) == l.term = term

\* Superseded while waiting: every list write asks this first.
Newest(l) == l.id = requestId

\* Only the newest request owns the flag.
FlagAfter(l) == IF Newest(l) THEN "idle" ELSE inFlight

\* The reply reaches the hook.  A failure keeps the rows and the cursor.
Deliver(l) ==
  /\ Committed /\ l.status # "sent"
  /\ loads' = loads \ {l}
  /\ inFlight' = FlagAfter(l)
  /\ error' = IF Newest(l) /\ l.status = "failed" THEN "list" ELSE error
  /\ IF Newest(l) /\ l.status = "page"
       THEN /\ list' = Rows(l) /\ nextCursor' = l.next /\ listId' = l.id
            /\ head' = IF l.mode = "replace" THEN l.head ELSE head
            /\ overtaken' = (overtaken /\ l.mode = "append")
       ELSE UNCHANGED <<list, nextCursor, listId, head, overtaken>>
  /\ UNCHANGED <<server, query, term, view, effectDue, requestId, deleted, deletes, dirty,
                 focused, keys>>

----------------------------------------------------------------------------
(***************************************************************************)
(* The search box and its debounce.                                        *)
(***************************************************************************)
SetQuery ==
  /\ focused /\ keys < MaxKeys /\ keys' = keys + 1
  /\ query' \in Terms \ {query}
  /\ UNCHANGED <<server, list, nextCursor, term, view, effectDue, requestId, inFlight, error,
                 deleted, deletes, loads, dirty, focused, history>>

\* SEARCH_DEBOUNCE_MS after the last change that left query and term apart.
Debounced ==
  /\ Committed /\ query # term
  /\ term' = query
  /\ UNCHANGED <<server, list, nextCursor, query, view, effectDue, requestId, inFlight, error,
                 deleted, deletes, loads, dirty, focused, keys, history>>

----------------------------------------------------------------------------
(***************************************************************************)
(* Deleting one's own posts.                                               *)
(***************************************************************************)

\* remove, on a row shown; a second tap is handed the first one's promise.
RemovePost(p) ==
  /\ focused /\ p \in ToSet(list)
  /\ deletes' = [deletes EXCEPT ![p] = IF @ = "none" THEN "sent" ELSE @]
  /\ error' = IF deletes[p] = "none" THEN Cleared("action") ELSE error
  /\ UNCHANGED <<server, list, nextCursor, query, term, view, effectDue, requestId, inFlight,
                 deleted, loads, dirty, focused, keys, history>>

\* DELETE answers 204, or 404 for a post already gone; a failed call may
\* have been applied.
ServeDelete(p) ==
  /\ deletes[p] = "sent"
  /\ \/ feed' = feed \ {p} /\ deletes' = [deletes EXCEPT ![p] = "gone"]
     \/ /\ Failing
        /\ feed' \in {feed, feed \ {p}} /\ deletes' = [deletes EXCEPT ![p] = "failed"]
  /\ UNCHANGED <<made, list, nextCursor, query, term, view, effectDue, requestId, inFlight,
                 error, deleted, loads, dirty, focused, keys, history>>

\* Mutant: the delete supersedes the list request in flight.
SettleDeleteSupersedes(p) ==
  /\ Committed /\ deletes[p] \in {"gone", "failed"}
  /\ deletes' = [deletes EXCEPT ![p] = "none"]
  /\ IF deletes[p] = "gone"
       THEN /\ deleted' = deleted \cup {p}
            /\ list' = Without(list, {p})
            /\ requestId' = requestId + 1
            /\ UNCHANGED error
       ELSE error' = "action" /\ UNCHANGED <<deleted, list, requestId>>
  /\ UNCHANGED <<server, nextCursor, query, term, view, effectDue, inFlight, loads,
                 dirty, focused, keys, history>>

\* The answer reaches the hook: forget the row, whatever list is on its way.
SettleDelete(p) ==
  /\ Committed /\ deletes[p] \in {"gone", "failed"}
  /\ deletes' = [deletes EXCEPT ![p] = "none"]
  /\ IF deletes[p] = "gone"
       THEN /\ deleted' = deleted \cup {p}
            /\ list' = Without(list, {p})
            /\ UNCHANGED error
       ELSE error' = "action" /\ UNCHANGED <<deleted, list>>
  /\ UNCHANGED <<server, nextCursor, query, term, view, effectDue, requestId, inFlight, loads,
                 dirty, focused, keys, history>>

----------------------------------------------------------------------------
(***************************************************************************)
(* The rest of the application.                                            *)
(***************************************************************************)

\* A post is shared: another user's, or the viewer's own from the share
\* sheet, which marks the feed dirty when its request is answered.
Share ==
  /\ made < MaxPosts
  /\ made' = made + 1 /\ feed' = feed \cup {made + 1}
  /\ dirty' = (dirty \/ made + 1 \in Mine)
  /\ UNCHANGED <<list, nextCursor, query, term, view, effectDue, requestId, inFlight, error,
                 deleted, deletes, loads, focused, keys, head, listId, overtaken>>

\* A post is deleted by its author, or by the viewer on another device.
DeletedElsewhere(p) ==
  /\ feed' = feed \ {p}
  /\ UNCHANGED <<made, list, nextCursor, query, term, view, effectDue, requestId, inFlight,
                 error, deleted, deletes, loads, dirty, focused, keys, history>>

Blur ==
  /\ focused /\ focused' = FALSE
  /\ UNCHANGED <<server, list, nextCursor, query, term, view, effectDue, requestId, inFlight,
                 error, deleted, deletes, loads, dirty, keys, history>>

\* The tab comes back: consumeCommunityDirty('feed'), then refresh.
Focus ==
  /\ ~focused /\ focused' = TRUE
  /\ dirty' = FALSE
  /\ IF dirty THEN Reload ELSE UNCHANGED <<requestId, inFlight, error, loads>>
  /\ UNCHANGED <<server, list, nextCursor, query, term, view, effectDue, deleted, deletes,
                 keys, history>>

----------------------------------------------------------------------------
Gesture == LoadMore \/ Refresh \/ SetQuery \/ Blur \/ Focus \/ \E p \in Mine : RemovePost(p)

Next ==
  \/ Gesture
  \/ LoadEffect \/ Render \/ Debounced
  \/ \E l \in loads : Serve(l) \/ Deliver(l)
  \/ \E p \in Mine : ServeDelete(p) \/ SettleDelete(p)
  \/ Share
  \/ \E p \in feed : DeletedElsewhere(p)

Spec == Init /\ [][Next]_vars

\* React, the timer and the network get there; users owe nothing.
FairSpec ==
  /\ Spec
  /\ WF_vars(LoadEffect) /\ WF_vars(Render) /\ WF_vars(Debounced)
  /\ WF_vars(\E l \in loads : Serve(l)) /\ WF_vars(\E l \in loads : Deliver(l))

----------------------------------------------------------------------------
(***************************************************************************)
(* Safety                                                                  *)
(***************************************************************************)

\* The in-flight flag is up exactly while the newest request is out: it is
\* neither dropped by a superseded one, which would let pages overlap, nor
\* latched, which would close loadMore for the rest of the session.
FlagFollowsNewest ==
  (inFlight # "idle") <=> \E l \in loads : l.id = requestId

\* The rows shown match the term searched for, whichever replies arrived.
RowsMatchTerm == Committed => ToSet(list) \subseteq Matching[term]

\* The list is the feed: between the newest post it knows of and its cursor
\* nothing that is still there is missing and nothing is there twice, however
\* posts came and went between the pages, as long as no page was asked for by
\* a closure that React had yet to replace.
ListIsGapless ==
  Committed /\ ~overtaken =>
    /\ \A p \in feed \cap Matching[term] : nextCursor < p /\ p <= head => p \in ToSet(list)
    /\ IsInjective(list)

\* The list never goes back to the answer of an earlier request: typing
\* "blue", "red" and "blue" again cannot end on the first "blue".
NeverOlder == [][listId' >= listId]_vars

\* A row deleted in this session does not come back, and it is gone from the
\* server: no row is dropped for a delete that failed.
DeletedStaysGone == deleted \cap (feed \cup ToSet(list)) = {}

\* MasonryFeed.tsx:154-158: "Nothing shared yet" is said of a feed that was read,
\* and of which nothing is left but what came later or stands behind the cursor;
\* or by a retry, which says so until its answer comes.
EmptyIsLicensed ==
  Committed /\ ~overtaken /\ FeedShown.empty /\ ~FeedShown.spinner /\ inFlight # "refreshing" =>
    /\ head >= Start
    /\ \A p \in feed \cap Matching[term] : p > head \/ p <= nextCursor

\* An error is cleared only by an operation of the kind that failed; the
\* failure of another may take its place.
ErrorsClearedByKind ==
  [][error # "none" /\ error' = "none" =>
       IF error = "list" THEN requestId' > requestId
         ELSE \E p \in Mine : deletes[p] = "none" /\ deletes'[p] = "sent"]_vars

(***************************************************************************)
(* Liveness                                                                *)
(***************************************************************************)

\* Whatever is typed last is searched for, and its load comes to an end.
TermSettles ==
  \A t \in Terms :
    (query = t) ~> (query # t \/ (Committed /\ term = t /\ inFlight = "idle"))

\* The list is the feed of what is searched for, whatever arrived, was deleted or
\* was superseded, and what it says of being loaded is so.
ListIsSound ==
  /\ TypeOK /\ RowsMatchTerm /\ ListIsGapless /\ DeletedStaysGone /\ FlagFollowsNewest
  /\ EmptyIsLicensed

\* useCommunityFeed.ts:228, 300-345: neither an answer that comes late nor the
\* success of something else takes the list back or hides a failure.
NothingIsTakenBack == NeverOlder /\ ErrorsClearedByKind
=============================================================================
