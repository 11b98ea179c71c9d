----------------------------- MODULE PostLists ------------------------------
(***************************************************************************)
(* Likes and saves on the two lists of posts that may be mounted at once,  *)
(* the feed and the saved posts of the Favorites tab                       *)
(* (postInteractions.ts, useSavedPosts.ts, favorites.tsx, PostCard.tsx).   *)
(* A toggle is optimistic, published to every mounted list, guarded by the *)
(* list it was tapped on, and settled by what the server answers.          *)
(* The presses of one frame all run before React commits the first; a      *)
(* request takes longer than a commit, and what an answer sets is          *)
(* committed before the next press.                                        *)
(***************************************************************************)
EXTENDS Integers, FiniteSets

CONSTANTS
  Posts,
  MaxPresses,  \* bound: taps on hearts and bookmarks, other people's likes among them
  MaxLoads,    \* bound: lists loaded
  MaxLosses    \* bound: requests that fail

ASSUME ListBoundsAssumption == {MaxPresses, MaxLoads, MaxLosses} \subseteq Nat

Lists == {"feed", "saved"}
Kinds == {"like", "save"}

VARIABLES
  server,     \* what the API holds of each post; as history, the likes of others that
              \* were counted, and whether the count was below zero or lost an $inc
  rows,       \* posts of each hook instance
  ref,        \* postsRef: the rows last committed, which the cards show
  mode,       \* the pane of the Favorites tab
  postWrites, \* writes its chips wait for
  chips,      \* postWrites as last committed
  writes,     \* toggles on their way
  loads,      \* list loads on their way
  dirty,      \* the mark of the saved list
  spent,      \* how much of each bound is used up
  trusted,    \* history: rows that nothing below excuses from being true
  stale       \* history: the saved list failed to load, or its mark was consumed in vain

postVars == <<server, rows, ref, mode, postWrites, chips, writes, loads, dirty, spent,
              trusted, stale>>

NotListed == [listed |-> FALSE]
Nowhere == [p \in Posts |-> NotListed]
Row(liked, count, saved) == [listed |-> TRUE, liked |-> liked, count |-> count, saved |-> saved]

PostsTypeOK ==
  /\ server \in [Posts -> [liked : BOOLEAN, saved : BOOLEAN, count : Int,
                           others : 0..MaxPresses, low : BOOLEAN, slipped : BOOLEAN]]
  /\ mode \in {"outfits", "saved"} /\ dirty \in BOOLEAN
  /\ postWrites \in 0..MaxPresses
  /\ \A l \in Lists, p \in Posts : rows[l][p].listed => rows[l][p].count \in Int
  /\ \A w \in writes : /\ w.list \in Lists \cup {"gone"} /\ w.kind \in Kinds
                      /\ w.at \in {"sent", "found", "owing", "done", "failed"}

PostsInit ==
  /\ server = [p \in Posts |-> [liked |-> FALSE, saved |-> FALSE, count |-> 0, others |-> 0,
                               low |-> FALSE, slipped |-> FALSE]]
  /\ rows = [l \in Lists |-> IF l = "feed" THEN [p \in Posts |-> Row(FALSE, 0, FALSE)] ELSE Nowhere]
  /\ ref = rows
  /\ mode = "outfits" /\ postWrites = 0 /\ chips = 0 /\ writes = {} /\ loads = {} /\ dirty = FALSE
  /\ spent = [presses |-> 0, loads |-> 0, losses |-> 0]
  /\ trusted = [l \in Lists |-> Posts] /\ stale = FALSE

Spend(what, max) == spent[what] < max /\ spent' = [spent EXCEPT ![what] = @ + 1]

Mounted(l) == l = "feed" \/ mode = "saved"

\* The post s after the $inc of a like of somebody else's, and after one that
\* makes its count n.
LikedByOther(s) == [s EXCEPT !.others = s.others + 1, !.count = s.count + 1]
Recounted(s, n) == [s EXCEPT !.count = n, !.low = (s.low \/ n < 0)]

OtherLikes(p) ==
  /\ Spend("presses", MaxPresses)
  /\ server' = [server EXCEPT ![p] = LikedByOther(@)]
  /\ UNCHANGED <<rows, ref, mode, postWrites, chips, writes, loads, dirty, trusted, stale>>

Committed == ref = rows /\ chips = postWrites

\* React commits what presses set, and the effects run: postsRef follows.
CommitLists ==
  /\ ~Committed /\ ref' = rows /\ chips' = postWrites
  /\ UNCHANGED <<server, rows, mode, postWrites, writes, loads, dirty, spent, trusted, stale>>

----------------------------------------------------------------------------
(***************************************************************************)
(* Loads.                                                                  *)
(***************************************************************************)
Loading(l) == \E r \in loads : r.list = l
NewLoad(l) ==
  [list |-> l, at |-> "sent", page |-> Nowhere,
   clean |-> {p \in Posts : \A w \in writes : w.post # p}]

\* refresh: pulled, or the retry pressed.
RefreshList(l) ==
  /\ Mounted(l) /\ ~Loading(l) /\ Spend("loads", MaxLoads)
  /\ loads' = loads \cup {NewLoad(l)}
  /\ stale' = (stale /\ l # "saved")
  /\ UNCHANGED <<server, rows, ref, mode, postWrites, chips, writes, dirty, trusted>>

\* The posts with their counts, or the posts saved.
ReadPosts(r) ==
  /\ r.at = "sent"
  /\ loads' = (loads \ {r}) \cup {[r EXCEPT !.at = "read", !.page =
       [p \in Posts |-> IF r.list = "feed" \/ server[p].saved
                          THEN Row(FALSE, server[p].count, FALSE) ELSE NotListed]]}
  /\ UNCHANGED <<server, rows, ref, mode, postWrites, chips, writes, dirty, spent, trusted, stale>>

\* hydratePosts: the viewer's own likes and saves of them, read after.
ReadFlags(r) ==
  /\ r.at = "read"
  /\ loads' = (loads \ {r}) \cup {[r EXCEPT !.at = "done", !.page =
       [p \in Posts |-> IF @[p].listed THEN Row(server[p].liked, @[p].count, server[p].saved)
                        ELSE NotListed]]}
  /\ UNCHANGED <<server, rows, ref, mode, postWrites, chips, writes, dirty, spent, trusted, stale>>

LoseLoad(r) ==
  /\ r.at # "failed" /\ Spend("losses", MaxLosses)
  /\ loads' = (loads \ {r}) \cup {[r EXCEPT !.at = "failed"]}
  /\ UNCHANGED <<server, rows, ref, mode, postWrites, chips, writes, dirty, trusted, stale>>

\* An answer replaces the rows; a failure leaves them.
DeliverLoad(r) ==
  /\ r.at \in {"done", "failed"} /\ loads' = loads \ {r}
  /\ stale' = (stale \/ (r.list = "saved" /\ r.at = "failed"))
  /\ IF r.at = "done"
       THEN /\ rows' = [rows EXCEPT ![r.list] = r.page] /\ ref' = rows'
            /\ trusted' = [trusted EXCEPT ![r.list] = r.clean]
       ELSE UNCHANGED <<rows, ref, trusted>>
  /\ UNCHANGED <<server, mode, postWrites, chips, writes, dirty, spent>>

----------------------------------------------------------------------------
(***************************************************************************)
(* The Favorites tab.                                                      *)
(***************************************************************************)

\* The chips; the pane of saved posts loads when it mounts, and its focus
\* effect consumes the mark, whose refresh that load makes a no-op.
ShowSaved ==
  /\ mode = "outfits" /\ chips = 0 /\ Spend("loads", MaxLoads)
  /\ mode' = "saved" /\ loads' = loads \cup {NewLoad("saved")} /\ dirty' = FALSE
  /\ stale' = FALSE
  /\ UNCHANGED <<server, rows, ref, postWrites, chips, writes, trusted>>

\* A pane that is unmounted takes its rows, its loads and its guards with it;
\* its writes go on.
ShowOutfits ==
  /\ mode = "saved" /\ chips = 0
  /\ mode' = "outfits"
  /\ rows' = [rows EXCEPT !["saved"] = Nowhere] /\ ref' = [ref EXCEPT !["saved"] = Nowhere]
  /\ trusted' = [trusted EXCEPT !["saved"] = Posts]
  /\ loads' = {r \in loads : r.list = "feed"} /\ stale' = FALSE
  /\ writes' = {IF w.list = "saved" THEN [w EXCEPT !.list = "gone"] ELSE w : w \in writes}
  /\ UNCHANGED <<server, postWrites, chips, dirty, spent>>

\* The tab comes into focus with its mark set.
FocusSaved ==
  /\ mode = "saved" /\ dirty /\ dirty' = FALSE
  /\ IF Loading("saved") THEN stale' = TRUE /\ UNCHANGED <<loads, spent>>
     ELSE Spend("loads", MaxLoads) /\ loads' = loads \cup {NewLoad("saved")} /\ stale' = FALSE
  /\ UNCHANGED <<server, rows, ref, mode, postWrites, chips, writes, trusted>>

----------------------------------------------------------------------------
(***************************************************************************)
(* Toggles.                                                                *)
(***************************************************************************)

\* publish: an absolute patch to the post, on every list that is mounted.
Publish(p, Patch(_)) ==
  rows' = [l \in Lists |-> IF Mounted(l) /\ rows[l][p].listed
                             THEN [rows[l] EXCEPT ![p] = Patch(@)] ELSE rows[l]]

\* The row as the tap leaves it, from the snapshot; a count it takes one from
\* is clamped at zero.
Optimistic(row, kind) ==
  IF kind = "save" THEN [row EXCEPT !.saved = ~row.saved]
  ELSE [row EXCEPT !.liked = ~row.liked,
                   !.count = IF ~row.liked THEN row.count + 1
                             ELSE IF row.count <= 1 THEN 0 ELSE row.count - 1]

\* A patch names the fields of its kind and no other.
Patched(row, from, kind) ==
  IF kind = "save" THEN [row EXCEPT !.saved = from.saved]
  ELSE [row EXCEPT !.liked = from.liked, !.count = from.count]

Same(l, p, k) == {w \in writes : w.list = l /\ w.post = p /\ w.kind = k}
Tracked(l, n) == IF l # "feed" THEN postWrites + n ELSE postWrites

\* A write begins: it and one of the other list under way excuse each other,
\* and no load under way is clean for its post.
Begins(l, p, k) ==
  LET rivals == {w \in writes : w.post = p /\ w.kind = k /\ w.list # l}
  IN /\ writes' = {IF w \in rivals THEN [w EXCEPT !.alone = FALSE] ELSE w : w \in writes}
                  \cup {[n |-> spent.presses, list |-> l, post |-> p, kind |-> k,
                         was |-> ref[l][p], alone |-> rivals = {},
                         sound |-> p \in trusted[l], applied |-> FALSE, at |-> "sent",
                         answer |-> ref[l][p], presses |-> 1]}
     /\ loads' = {[r EXCEPT !.clean = @ \ {p}] : r \in loads}

\* A heart or a bookmark is pressed: toggleLike, toggleSave.  The snapshot is
\* that of the last commit; a press while the control's write is under way
\* waits for that one.  The pane of saved posts shows the rows still saved.
Press(l, p, k) ==
  /\ Mounted(l) /\ ref[l][p].listed /\ (l = "saved" => ref[l][p].saved)
  /\ Spend("presses", MaxPresses)
  /\ IF Same(l, p, k) = {}
       THEN /\ Begins(l, p, k)
            /\ Publish(p, LAMBDA row : Patched(row, Optimistic(ref[l][p], k), k))
       ELSE /\ writes' = {IF w \in Same(l, p, k) THEN [w EXCEPT !.presses = @ + 1] ELSE w : w \in writes}
            /\ UNCHANGED <<rows, loads>>
  /\ postWrites' = Tracked(l, 1)
  /\ UNCHANGED <<server, ref, chips, mode, dirty, trusted, stale>>

Turned(w, v) == writes' = (writes \ {w}) \cup {v}

\* The like endpoints find the post first; the count they find is answered if
\* the row was as asked already.
FindLiked(w) ==
  /\ w.kind = "like" /\ w.at = "sent" /\ Committed
  /\ Turned(w, [w EXCEPT !.at = "found",
                         !.answer = Row(~w.was.liked, server[w.post].count, w.was.saved)])
  /\ UNCHANGED <<server, rows, ref, mode, postWrites, chips, loads, dirty, spent, trusted, stale>>

\* Mutant: the $inc is not gated by what became of the row.
OwesAlways(w) == TRUE

\* A like or an unlike that changes the viewer's row owes the count an $inc.
Owes(w) == server[w.post].liked = w.was.liked

\* The row of the like is inserted or removed, unless it was as asked already.
WriteLike(w) ==
  /\ w.at = "found" /\ Committed
  /\ server' = [server EXCEPT ![w.post].liked = ~w.was.liked]
  /\ Turned(w, [w EXCEPT !.at = IF Owes(w) THEN "owing" ELSE "done", !.applied = TRUE])
  /\ UNCHANGED <<rows, ref, mode, postWrites, chips, loads, dirty, spent, trusted, stale>>

\* The $inc that is owed, a write of its own, and the count after it answered.
CountLike(w) ==
  LET count == server[w.post].count + (IF w.was.liked THEN -1 ELSE 1)
  IN /\ w.at = "owing" /\ Committed
     /\ server' = [server EXCEPT ![w.post] = Recounted(@, count)]
     /\ Turned(w, [w EXCEPT !.at = "done", !.answer = [@ EXCEPT !.count = count]])
     /\ UNCHANGED <<rows, ref, mode, postWrites, chips, loads, dirty, spent, trusted, stale>>

\* The row of a save is inserted or removed, and nothing is counted.
WriteSave(w) ==
  /\ w.kind = "save" /\ w.at = "sent" /\ Committed
  /\ server' = [server EXCEPT ![w.post].saved = ~w.was.saved]
  /\ Turned(w, [w EXCEPT !.at = "done", !.applied = TRUE, !.answer = [@ EXCEPT !.saved = ~w.was.saved]])
  /\ UNCHANGED <<rows, ref, mode, postWrites, chips, loads, dirty, spent, trusted, stale>>

\* The request is lost, or its answer, or the API dies before an $inc.
LoseWrite(w) ==
  /\ w.at # "failed" /\ Committed /\ Spend("losses", MaxLosses) /\ Turned(w, [w EXCEPT !.at = "failed"])
  /\ server' = [server EXCEPT ![w.post].slipped = @ \/ w.at = "owing"]
  /\ UNCHANGED <<rows, ref, mode, postWrites, chips, loads, dirty, trusted, stale>>

\* The answer, or the snapshot: what is published last.
SettledRow(w, row) == Patched(row, IF w.at = "done" THEN w.answer ELSE w.was, w.kind)

\* Mutant: the saved list is not told.
SettleUnmarked(w) ==
  /\ w.at \in {"done", "failed"} /\ writes' = writes \ {w}
  /\ Publish(w.post, LAMBDA row : SettledRow(w, row)) /\ ref' = rows'
  /\ postWrites' = Tracked(w.list, -w.presses) /\ chips' = postWrites'
  /\ trusted' = IF w.alone /\ (w.at = "done" \/ (w.sound /\ ~w.applied)) THEN trusted
                ELSE [l \in Lists |-> trusted[l] \ {w.post}]
  /\ UNCHANGED <<server, mode, loads, dirty, spent, stale>>

\* The end of a toggle; a save that succeeded marks the saved list.  What was
\* applied and reported as failed, raced a write of the other list, or put an
\* excused row back, is excused from being true until the next load.
SettleWrite(w) ==
  /\ w.at \in {"done", "failed"} /\ writes' = writes \ {w}
  /\ Publish(w.post, LAMBDA row : SettledRow(w, row)) /\ ref' = rows'
  /\ dirty' = (dirty \/ (w.kind = "save" /\ w.at = "done"))
  /\ postWrites' = Tracked(w.list, -w.presses) /\ chips' = postWrites'
  /\ trusted' = IF w.alone /\ (w.at = "done" \/ (w.sound /\ ~w.applied)) THEN trusted
                ELSE [l \in Lists |-> trusted[l] \ {w.post}]
  /\ UNCHANGED <<server, mode, loads, spent, stale>>

----------------------------------------------------------------------------
PostsNext ==
  \/ CommitLists \/ ShowSaved \/ ShowOutfits \/ FocusSaved
  \/ \E l \in Lists : RefreshList(l) \/ \E p \in Posts, k \in Kinds : Press(l, p, k)
  \/ \E p \in Posts : OtherLikes(p)
  \/ \E r \in loads : ReadPosts(r) \/ ReadFlags(r) \/ LoseLoad(r) \/ DeliverLoad(r)
  \/ \E w \in writes :
       \/ FindLiked(w) \/ WriteLike(w) \/ CountLike(w) \/ WriteSave(w)
       \/ LoseWrite(w) \/ SettleWrite(w)

PostsSpec == PostsInit /\ [][PostsNext]_postVars

----------------------------------------------------------------------------
(***************************************************************************)
(* Properties                                                              *)
(***************************************************************************)

\* Once no write of a post is under way, its heart and its bookmark say what
\* the server holds, on both lists, through failures, swallowed presses and a
\* like and a save at once; but for a write that failed after it was applied,
\* two writes that raced from the two lists, or a load that overlapped a write.
FlagsAreTrue ==
  \A l \in Lists : \A p \in trusted[l] :
    rows[l][p].listed /\ (\A w \in writes : w.post # p) =>
      /\ rows[l][p].liked = server[p].liked
      /\ rows[l][p].saved = server[p].saved

Own(p) == IF server[p].liked THEN 1 ELSE 0

\* postInteractions.ts:309-312: no card reads "-1 likes" of the client's own
\* making, not even one that was loaded liked with a count of 0: a count below
\* zero was stored before, for as long as an unlike was ahead of its like.
\* community.ts:645-656: once no write of a post is under way, the number next
\* to a true heart counts it, and no more likes than are stored, by which time
\* the stored count is the number of likes; unless an $inc was lost for good.
CountsAreCounts ==
  /\ \A l \in Lists, p \in Posts :
       rows[l][p].listed /\ rows[l][p].count < 0 => server[p].low
  /\ \A p \in Posts :
       ~server[p].slipped /\ (\A w \in writes : w.post # p) =>
         /\ server[p].count = server[p].others + Own(p)
         /\ \A l \in Lists : p \in trusted[l] /\ rows[l][p].listed =>
              Own(p) <= rows[l][p].count /\ rows[l][p].count <= server[p].count

\* The presses of W that the chips wait for, by write and place.
Presses(W) == UNION {{w.n} \X (1..w.presses) : w \in {v \in W : v.list # "feed"}}

\* favorites.tsx:328-340: the chips wait for the presses of the pane's writes
\* under way, those that waited for another's and those of a pane that is gone
\* included, and for nothing else; so they come back.
ChipsMatchWrites ==
  postWrites = Cardinality(Presses(writes))

\* A post saved on the Search tab is on the saved list, or the list is marked
\* for its next focus, or is loading; unless that failed and said so, or the
\* mark was consumed in vain.
SavesAreListed ==
  mode = "saved" /\ ~Loading("saved") /\ ~stale /\ ~dirty =>
    \A p \in trusted["saved"] :
      server[p].saved /\ (\A w \in writes : w.post # p) => rows["saved"][p].listed

\* A row is what its server said of it: heart, bookmark and count.
RowsAreTrue == PostsTypeOK /\ FlagsAreTrue /\ CountsAreCounts

\* A save comes to an end for the chips that wait for it and for the list
\* that is to show it.
SavesSettle == ChipsMatchWrites /\ SavesAreListed
=============================================================================
