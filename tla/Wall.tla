-------------------------------- MODULE Wall --------------------------------
(***************************************************************************)
(* The saved posts as they are read and laid out: GET /community/saved     *)
(* (community.ts) answers page by page, each page in several queries, while *)
(* the viewer saves and unsaves from another device, authors delete posts  *)
(* and garments, and the screen appends what comes (useSavedPosts.ts,      *)
(* posts.ts) and lays it out (masonry.ts, MasonryFeed.tsx).                *)
(*                                                                         *)
(* The rows of a viewer's saves are numbered in the order of their sort    *)
(* key, the moment and then the id.  What a refresh or a toggle does to a  *)
(* list is the subject of PostLists.                                       *)
(***************************************************************************)
EXTENDS Integers, FiniteSets, Sequences, SequencesExt

CONSTANTS
  Shared,          \* the garments of each post, in the order of the outfit
  AuthorOf,        \* the author of each post
  OwnerOf,         \* the owner of each garment
  CaptionOf,       \* the length of each caption
  SavedOrder,      \* the posts the viewer has saved, oldest save first
  SavedPage,       \* saves on a page
  Widths,          \* how wide a card's content may be, in points
  MaxSaves,        \* bound: rows of saves ever made
  MaxRemovals,     \* bound: posts, garments and saves that go
  MaxFailures      \* bound: reads that fail

Shown == DOMAIN Shared
Wardrobe == DOMAIN OwnerOf

ASSUME WallAssumption ==
  /\ \A p \in Shown : Range(Shared[p]) \subseteq {g \in Wardrobe : OwnerOf[g] = AuthorOf[p]}
  /\ \A p \in Shown : IsInjective(Shared[p]) /\ CaptionOf[p] \in Nat \ {0}
  /\ IsInjective(SavedOrder) /\ Range(SavedOrder) \subseteq Shown
  /\ SavedPage \in Nat \ {0} /\ Widths \subseteq Nat
  /\ {MaxSaves, MaxRemovals, MaxFailures} \subseteq Nat /\ MaxSaves >= Len(SavedOrder)

VARIABLES
  up,        \* the posts that are there
  owned,     \* the garments that are there
  saveRows,  \* the viewer's saves: each row's post, by number
  lastRow,   \* the number of the newest row there ever was
  read,      \* the request on its way
  wall,      \* useSavedPosts: rows, cursor, whether page one is loaded
  tally,     \* how much of each bound is used up
  kept       \* history: rows of saves that were there since the walk began

wallVars == <<up, owned, saveRows, lastRow, read, wall, tally, kept>>

NoRead == [at |-> "none"]
Gone == 0     \* no further page, or a row's post that was not found

WallTypeOK ==
  /\ up \subseteq Shown /\ owned \subseteq Wardrobe
  /\ DOMAIN saveRows \subseteq 1..lastRow /\ Range(saveRows) \subseteq Shown
  /\ lastRow <= MaxSaves /\ kept \subseteq 1..lastRow
  /\ read.at \in {"none", "sent", "saves", "posts", "flags", "lost"}
  /\ wall.next \in 0..lastRow /\ wall.loaded \in BOOLEAN
  /\ \A i \in DOMAIN wall.rows : wall.rows[i].post \in Shown

WallInit ==
  /\ up \in {Shown, Shown \ {SavedOrder[1]}} /\ owned = Wardrobe
  /\ saveRows = SavedOrder /\ lastRow = Len(SavedOrder)
  /\ read = [at |-> "sent", from |-> Gone]
  /\ wall = [rows |-> <<>>, next |-> Gone, loaded |-> FALSE]
  /\ tally = [removals |-> 0, failures |-> 0] /\ kept = DOMAIN saveRows

Tally(what, max) == tally[what] < max /\ tally' = [tally EXCEPT ![what] = @ + 1]

----------------------------------------------------------------------------
(***************************************************************************)
(* GET /community/saved.                                                   *)
(***************************************************************************)

\* applyKeysetCursor: strictly older than the cursor.
OlderRows(from) == {s \in DOMAIN saveRows : from = Gone \/ s < from}

\* PostSave.find: newest first, one more than a page.
FindSaves ==
  /\ read.at = "sent"
  /\ LET rest == OlderRows(read.from)
         page == {s \in rest : Cardinality({t \in rest : t > s}) < SavedPage}
     IN read' = [at |-> "saves", page |-> SetToSortSeq(page, >), hasMore |-> page # rest,
                 postOf |-> [s \in page |-> saveRows[s]]]
  /\ UNCHANGED <<up, owned, saveRows, lastRow, wall, tally, kept>>

\* CommunityPost.find: in the order of the saves, without those that are gone.
FindPosts ==
  /\ read.at = "saves"
  /\ read' = [at |-> "posts", page |-> read.page, hasMore |-> read.hasMore,
              docs |-> SelectSeq([i \in DOMAIN read.page |-> read.postOf[read.page[i]]],
                                 LAMBDA p : p \in up)]
  /\ UNCHANGED <<up, owned, saveRows, lastRow, wall, tally, kept>>

\* hydratePosts: the viewer's own flags, of the whole page.
FindFlags ==
  /\ read.at = "posts"
  /\ read' = [at |-> "flags", page |-> read.page, hasMore |-> read.hasMore, docs |-> read.docs,
              saved |-> Range(read.docs) \cap Range(saveRows), items |-> <<>>]
  /\ UNCHANGED <<up, owned, saveRows, lastRow, wall, tally, kept>>

\* signSnapshotItems: what is left in the author's wardrobe, in the outfit's order.
SnapshotItems(p) == SelectSeq(Shared[p], LAMBDA g : g \in owned /\ OwnerOf[g] = AuthorOf[p])

\* A lookup for each post, side by side.
FindItems(p) ==
  /\ read.at = "flags" /\ p \in Range(read.docs) \ DOMAIN read.items
  /\ read' = [read EXCEPT !.items = (p :> SnapshotItems(p)) @@ @]
  /\ UNCHANGED <<up, owned, saveRows, lastRow, wall, tally, kept>>

LoseRead ==
  /\ read.at \in {"sent", "saves", "posts", "flags"} /\ Tally("failures", MaxFailures)
  /\ read' = [at |-> "lost"]
  /\ UNCHANGED <<up, owned, saveRows, lastRow, wall, kept>>

\* Mutant: from the last post that was found.
NextCursorOfFound(r) == IF r.hasMore /\ r.docs # <<>> THEN r.page[Len(r.docs)] ELSE Gone

\* From the last save row, whether or not its post was found.
NextCursor(r) == IF r.hasMore THEN Last(r.page) ELSE Gone

\* missingItemsNoticeFor: the garments shared that no longer resolve.
Missing(p, items) == Cardinality(Range(Shared[p])) - Len(items)

\* toDisplayPost.
Card(r, p) == [post |-> p, items |-> r.items[p], saved |-> p \in r.saved,
               missing |-> Missing(p, r.items[p])]

\* useSavedPosts run: the answer is appended, or is the first; a failure leaves
\* rows and cursor as they are.
DeliverRead ==
  /\ \/ /\ read.at = "flags" /\ DOMAIN read.items = Range(read.docs)
        /\ wall' = [rows |-> wall.rows \o [i \in DOMAIN read.docs |-> Card(read, read.docs[i])],
                    next |-> NextCursor(read), loaded |-> TRUE]
     \/ read.at = "lost" /\ UNCHANGED wall
  /\ read' = NoRead
  /\ UNCHANGED <<up, owned, saveRows, lastRow, tally, kept>>

\* onEndReached and loadMore, or "Try again" when there is nothing yet; what
\* was kept is counted from the beginning of the walk.
AskPage ==
  /\ read.at = "none" /\ (~wall.loaded \/ wall.next # Gone)
  /\ read' = [at |-> "sent", from |-> wall.next]
  /\ kept' = IF wall.loaded THEN kept ELSE DOMAIN saveRows
  /\ UNCHANGED <<up, owned, saveRows, lastRow, wall, tally>>

----------------------------------------------------------------------------
(***************************************************************************)
(* What others, and the viewer's other device, do meanwhile.               *)
(***************************************************************************)

\* POST /posts/:id/save of a post that is there; a second save changes nothing.
SavePost(p) ==
  /\ p \in up \ Range(saveRows) /\ lastRow < MaxSaves
  /\ lastRow' = lastRow + 1 /\ saveRows' = (lastRow' :> p) @@ saveRows
  /\ UNCHANGED <<up, owned, read, wall, tally, kept>>

\* DELETE /posts/:id/save, or the cascade of a deleted post, which comes later
\* than the post's end or not at all.
DropSave(s) ==
  /\ s \in DOMAIN saveRows /\ Tally("removals", MaxRemovals)
  /\ saveRows' = [t \in DOMAIN saveRows \ {s} |-> saveRows[t]] /\ kept' = kept \ {s}
  /\ UNCHANGED <<up, owned, lastRow, read, wall>>

DropPost(p) ==
  /\ p \in up /\ Tally("removals", MaxRemovals) /\ up' = up \ {p}
  /\ UNCHANGED <<owned, saveRows, lastRow, read, wall, kept>>

DropGarment(g) ==
  /\ g \in owned /\ Tally("removals", MaxRemovals) /\ owned' = owned \ {g}
  /\ UNCHANGED <<up, saveRows, lastRow, read, wall, kept>>

WallNext ==
  \/ FindSaves \/ FindPosts \/ FindFlags \/ \E p \in Shown : FindItems(p)
  \/ LoseRead \/ DeliverRead \/ AskPage
  \/ \E p \in Shown : SavePost(p) \/ DropPost(p)
  \/ \E s \in 1..MaxSaves : DropSave(s)
  \/ \E g \in Wardrobe : DropGarment(g)

WallSpec == WallInit /\ [][WallNext]_wallVars

----------------------------------------------------------------------------
(***************************************************************************)
(* The layout, in points.                                                  *)
(***************************************************************************)
Metrics == [padding |-> 10, gap |-> 8, marginBottom |-> 10, header |-> 32, thumbnail |-> 96,
            thumbnailGap |-> 6, perRow |-> 2, captionLine |-> 19, captionChars |-> 34,
            notice |-> 17, actions |-> 28]
Columns == {1, 2}

CeilDiv(n, by) == (n + by - 1) \div by
Sum(s) == FoldLeft(+, 0, s)

\* favorites.tsx: what has been unsaved is filtered out as it is shown.
Displayed == SelectSeq(wall.rows, LAMBDA card : card.saved)

\* So many garments in rows of so many; none, no block.
Collage(n, perRow) ==
  IF n = 0 THEN <<>>
  ELSE LET lines == CeilDiv(n, perRow) IN
       <<lines * Metrics.thumbnail + (lines - 1) * Metrics.thumbnailGap>>

\* postMediaHeight.
MediaHeight(card) == Collage(Len(card.items), Metrics.perRow)

\* postCaptionLines: one or two.
CaptionLines(card) == IF CaptionOf[card.post] > Metrics.captionChars THEN 2 ELSE 1

NoticeOf(card) == IF card.missing > 0 THEN <<Metrics.notice>> ELSE <<>>

\* Blocks, one above the other, in a card.
Stacked(blocks) == Sum(blocks) + Metrics.gap * (Len(blocks) - 1) + 2 * Metrics.padding

\* postCardHeight: with the margin below.
CardHeight(card) ==
  Stacked(<<Metrics.header>> \o MediaHeight(card)
          \o <<CaptionLines(card) * Metrics.captionLine>> \o NoticeOf(card) \o <<Metrics.actions>>)
  + Metrics.marginBottom

\* PostCard.tsx: thumbnails are 48% wide and wrap.
RenderedHeight(card, width) ==
  LET perRow == IF 2 * 48 * width + 100 * Metrics.thumbnailGap <= 100 * width THEN 2 ELSE 1 IN
  Stacked(<<Metrics.header>> \o Collage(Len(card.items), perRow)
          \o <<CaptionLines(card) * Metrics.captionLine>> \o NoticeOf(card) \o <<Metrics.actions>>)
  + Metrics.marginBottom

\* assignColumns: each card to the column that is shortest so far, the left one
\* of two that are level.
AssignColumns(heights) ==
  LET total(column) == Sum([k \in DOMAIN column |-> heights[column[k]]])
      put(columns, i) ==
        LET c == IF total(columns[2]) < total(columns[1]) THEN 2 ELSE 1
        IN [columns EXCEPT ![c] = Append(@, i)]
  IN FoldLeft(put, [c \in Columns |-> <<>>], [i \in DOMAIN heights |-> i])

----------------------------------------------------------------------------
(***************************************************************************)
(* Properties                                                              *)
(***************************************************************************)

\* community.ts:828-834: the walk down the saved list passes no save over and
\* tells none twice, newest first, whatever rows and posts go or come between
\* the pages or between the queries of one page, orphans and whole pages of
\* them included.
NoSaveIsPassedOver ==
  /\ IsInjective([i \in DOMAIN wall.rows |-> wall.rows[i].post])
  /\ \A s \in kept : wall.loaded /\ s >= wall.next /\ saveRows[s] \in up =>
       \E i \in DOMAIN Displayed : Displayed[i].post = saveRows[s]
  /\ \A s, t \in kept : \A i, j \in DOMAIN wall.rows :
       wall.rows[i].post = saveRows[s] /\ wall.rows[j].post = saveRows[t] /\ i < j => s > t

\* community.ts:349-374, posts.ts:81-114: a card shows, of the garments its post
\* was shared with, all that are left, in the order they were worn in, as many
\* as it does not say are missing; and none that it calls missing is there.
CardsAreTheAuthors ==
  \A i \in DOMAIN wall.rows :
    LET card == wall.rows[i]
        place(g) == CHOOSE k \in DOMAIN Shared[card.post] : Shared[card.post][k] = g
        lost == Range(Shared[card.post]) \ Range(card.items)
    IN /\ Range(card.items) \subseteq Range(Shared[card.post])
       /\ \A j, k \in DOMAIN card.items : j < k => place(card.items[j]) < place(card.items[k])
       /\ lost \cap owned = {} /\ card.missing = Cardinality(lost)

\* masonry.ts:166-196: the columns share out the cards, each in the order of the
\* list; neither is longer than the other by more than a card; and a page that
\* is appended moves no card that is on screen.
ColumnsAreBalanced ==
  LET heights == [i \in DOMAIN Displayed |-> CardHeight(Displayed[i])]
      columns == AssignColumns(heights)
      total(c) == Sum([k \in DOMAIN columns[c] |-> heights[columns[c][k]]])
  IN /\ Range(columns[1]) \cup Range(columns[2]) = DOMAIN heights
     /\ Len(columns[1]) + Len(columns[2]) = Len(heights)
     /\ \A c \in Columns : \A j, k \in DOMAIN columns[c] : j < k => columns[c][j] < columns[c][k]
     /\ heights # <<>> => \E i \in DOMAIN heights :
          total(1) - total(2) <= heights[i] /\ total(2) - total(1) <= heights[i]
     /\ \A n \in 0..Len(heights) : LET before == AssignColumns(SubSeq(heights, 1, n)) IN
          \A c \in Columns : IsPrefix(before[c], columns[c])

\* masonry.ts:41-46: the height that is predicted is the one that is rendered,
\* where two thumbnails fit side by side as they are meant to.
HeightsArePredicted ==
  \A width \in Widths, i \in DOMAIN Displayed : width >= 150 =>
    CardHeight(Displayed[i]) = RenderedHeight(Displayed[i], width)

\* The saved posts, as the run checks them.
WallIsTrue ==
  WallTypeOK /\ NoSaveIsPassedOver /\ CardsAreTheAuthors /\ ColumnsAreBalanced /\ HeightsArePredicted
=============================================================================
