----------------------------- MODULE Galleries ------------------------------
(***************************************************************************)
(* The lists that page through what a user owns: the wardrobe (index.tsx   *)
(* over useWardrobe.ts), the outfit gallery (favorites.tsx over            *)
(* useOutfits.ts), the profile's laundry and analytics (profile.tsx,       *)
(* LaundryList.tsx, useUsageAnalytics.ts), and the index of every garment  *)
(* behind a week's photographs (useItemIndex.ts).                          *)
(*                                                                         *)
(* One of the screens is followed.  An answer takes longer than a commit,  *)
(* so what a press sets is committed, and its effects have run, before the *)
(* next answer.                                                            *)
(***************************************************************************)
EXTENDS Listing, FiniteSetsExt

CONSTANTS
  Sorts,         \* the categories of garments
  SortOf,        \* the category of a piece; outfits have none
  GridPage,      \* pieces on a page
  MaxWalkPages,  \* useItemIndex's own cap on its walk
  Stock,         \* pieces there at the start
  MaxPieces,     \* bound: pieces ever made
  MaxChanges,    \* bound: pieces washed or deleted
  MaxFetches,    \* bound: lists asked for
  MaxDrops       \* bound: requests that fail

Pieces == 1..MaxPieces

ASSUME GalleriesAssumption ==
  /\ SortOf \in [Pieces -> Sorts]
  /\ {GridPage, MaxWalkPages} \subseteq Nat \ {0}
  /\ Stock \in 0..MaxPieces /\ {MaxPieces, MaxChanges, MaxFetches, MaxDrops} \subseteq Nat

VARIABLES
  screen,   \* the one that is followed
  shelf,    \* the pieces at the API; those in the wash; how many changes there were
  grid,     \* useWardrobe or useOutfits: rows, cursor, activity, error, filter
  fetches,  \* GET /items, GET /outfits on their way
  stats,    \* useUsageAnalytics
  walk,     \* useItemIndex
  tab,      \* whether the tab is in front, and marked dirty
  budget    \* how much of each bound is used up

galleryVars == <<screen, shelf, grid, fetches, stats, walk, tab, budget>>

Paging == {"wardrobe", "gallery"}
AnySort == "any"
Unknown == -1
Matches(i, sort) == sort = AnySort \/ SortOf[i] = sort
Budget(what, max) == budget[what] < max /\ budget' = [budget EXCEPT ![what] = @ + 1]

\* GET /items, GET /outfits: newest first, strictly older than the cursor; a
\* next cursor, the last row's, only if one row more was found.
Piece(sort, from) ==
  LET rest == {i \in shelf.there : Matches(i, sort) /\ (from = 0 \/ i < from)}
      page == {i \in rest : Cardinality({k \in rest : k > i}) < GridPage}
  IN [rows |-> page, next |-> IF page = rest THEN 0 ELSE Min(page)]

NotYet == [loaded |-> FALSE]

\* What stands behind the rows on screen: the shelf as the first page's answer saw it.
Snapshot == [loaded |-> TRUE, made |-> shelf.made, wet |-> shelf.wet, asOf |-> shelf.changes]

Fetch(n, kind, sort, from) ==
  [n |-> n, kind |-> kind, sort |-> sort, from |-> from, at |-> "sent"]

GalleryTypeOK ==
  /\ shelf.there \subseteq 1..shelf.made /\ shelf.wet \subseteq shelf.there
  /\ grid.doing \in {"idle", "loading", "loadingMore", "refreshing"}
  /\ grid.sort \in Sorts \cup {AnySort} /\ grid.next \in 0..MaxPieces /\ grid.failed \in BOOLEAN
  /\ \A f \in fetches : f.n <= grid.n /\ f.at \in {"sent", "served", "lost"}
  /\ stats.total \in Unknown..MaxPieces /\ stats.doing \in {"idle", "loading", "refreshing"}
  /\ walk.at \in {"off", "sent", "served", "lost", "ready"} /\ walk.pages \in 0..MaxWalkPages

\* The mount effects have run: page one is asked for, and what else the screen reads.
GalleryInit ==
  /\ screen \in {"wardrobe", "gallery", "profile", "week"}
  /\ shelf = [made |-> Stock, there |-> 1..Stock, wet |-> {}, changes |-> 0]
  /\ grid = [rows |-> <<>>, wet |-> {}, next |-> 0, sort |-> AnySort, doing |-> "loading",
             failed |-> FALSE, n |-> 1, base |-> NotYet]
  /\ fetches = IF screen = "week" THEN {} ELSE {Fetch(1, "loading", AnySort, 0)}
  /\ stats = [total |-> Unknown, doing |-> IF screen = "profile" THEN "loading" ELSE "idle",
              failed |-> FALSE, answer |-> Unknown, asOf |-> 0, servedAt |-> 0]
  /\ walk = [at |-> IF screen = "week" THEN "sent" ELSE "off", from |-> 0, pages |-> 0,
             found |-> {}, page |-> {}, next |-> 0, whole |-> TRUE, stayed |-> shelf.there]
  /\ tab = [front |-> TRUE, dirty |-> FALSE]
  /\ budget = [changes |-> 0, fetches |-> 0, drops |-> 0]

----------------------------------------------------------------------------
(***************************************************************************)
(* The hooks.                                                              *)
(***************************************************************************)

\* run: a request supersedes those under way and makes the last error history.
RunWith(cleared, kind, sort, from) ==
  /\ Budget("fetches", MaxFetches)
  /\ grid' = [cleared EXCEPT !.n = @ + 1, !.doing = kind, !.failed = FALSE, !.sort = sort]
  /\ fetches' = fetches \cup {Fetch(grid.n + 1, kind, sort, from)}

\* A chip of the category filter: the effect clears the list and loads it anew.
SelectSort(c) ==
  /\ screen = "wardrobe" /\ tab.front /\ c # grid.sort
  /\ RunWith([grid EXCEPT !.rows = <<>>, !.wet = {}, !.next = 0, !.base = NotYet], "loading", c, 0)
  /\ UNCHANGED <<screen, shelf, stats, walk, tab>>

\* loadMore: nothing while anything is under way, or past the last page.
GridMore ==
  /\ screen \in Paging /\ tab.front
  /\ grid.doing = "idle" /\ grid.next # 0
  /\ RunWith(grid, "loadingMore", grid.sort, grid.next)
  /\ UNCHANGED <<screen, shelf, stats, walk, tab>>

\* refresh: nothing while a full load is under way; it supersedes an append.
RefreshGrid ==
  IF grid.doing \in {"loading", "refreshing"} THEN UNCHANGED <<grid, fetches, budget>>
  ELSE RunWith(grid, "refreshing", grid.sort, 0)

\* refresh of the analytics: nothing while anything is under way.
RefreshStats ==
  stats' = IF stats.doing # "idle" THEN stats
           ELSE [stats EXCEPT !.doing = "refreshing", !.failed = FALSE, !.answer = Unknown]

\* profile.tsx's refreshAll, or the one hook of another screen.
RefreshAll ==
  /\ RefreshGrid
  /\ IF screen = "profile" THEN RefreshStats ELSE UNCHANGED stats

Pull ==
  /\ screen # "week" /\ tab.front
  /\ RefreshAll /\ UNCHANGED <<screen, shelf, walk, tab>>

\* A banner's "Try again": of the list alone, or of the analytics alone.
Retry ==
  /\ tab.front
  /\ \/ grid.failed /\ RefreshGrid /\ UNCHANGED stats
     \/ stats.failed /\ Budget("fetches", MaxFetches) /\ RefreshStats /\ UNCHANGED <<grid, fetches>>
  /\ UNCHANGED <<screen, shelf, walk, tab>>

\* Another screen is pushed over the tab.
Cover == screen # "week" /\ tab.front /\ tab' = [tab EXCEPT !.front = FALSE]
         /\ UNCHANGED <<screen, shelf, grid, fetches, stats, walk, budget>>

\* useFocusEffect: the mark is consumed, and what it says is refreshed.
Return ==
  /\ ~tab.front /\ tab' = [front |-> TRUE, dirty |-> FALSE]
  /\ IF tab.dirty THEN RefreshAll ELSE UNCHANGED <<grid, fetches, stats, budget>>
  /\ UNCHANGED <<screen, shelf, walk>>

----------------------------------------------------------------------------
(***************************************************************************)
(* Requests.                                                               *)
(***************************************************************************)
ServeFetch(f) ==
  /\ f.at = "sent"
  /\ \/ LET page == Piece(f.sort, f.from) IN
        /\ fetches' = (fetches \ {f}) \cup
             {[n |-> f.n, kind |-> f.kind, sort |-> f.sort, at |-> "served", rows |-> page.rows,
               next |-> page.next, wet |-> page.rows \cap shelf.wet, base |-> Snapshot]}
        /\ UNCHANGED budget
     \/ Budget("drops", MaxDrops)
        /\ fetches' = (fetches \ {f}) \cup {[n |-> f.n, kind |-> f.kind, at |-> "lost"]}
  /\ UNCHANGED <<screen, shelf, grid, stats, walk, tab>>

\* Mutant: any answer for the filter on screen is taken.
CurrentBySort(f) == f.at = "lost" \/ f.sort = grid.sort

\* An answer counts only if it is the newest request's.
Current(f) == f.n = grid.n

\* An answer that counts replaces the list or is appended to it, with its
\* cursor; a failure leaves rows and cursor as they were.
DeliverFetch(f) ==
  /\ f.at # "sent" /\ fetches' = fetches \ {f}
  /\ grid' = IF ~Current(f) THEN grid
             ELSE IF f.at = "lost" THEN [grid EXCEPT !.doing = "idle", !.failed = TRUE]
             ELSE LET kept == f.kind = "loadingMore" IN
                  [grid EXCEPT !.doing = "idle", !.next = f.next,
                     !.rows = (IF kept THEN @ ELSE <<>>) \o NewestFirst(f.rows),
                     !.wet = (IF kept THEN @ ELSE {}) \cup f.wet,
                     !.base = IF kept THEN @ ELSE f.base]
  /\ UNCHANGED <<screen, shelf, stats, walk, tab, budget>>

\* GET /analytics/usage counts over the whole wardrobe.
ServeStats ==
  /\ stats.doing # "idle" /\ stats.answer = Unknown
  /\ stats' = [stats EXCEPT !.answer = Cardinality(shelf.wet), !.servedAt = shelf.changes]
  /\ UNCHANGED <<screen, shelf, grid, fetches, walk, tab, budget>>

\* The answer, or a failure, which keeps the last good snapshot.
DeliverStats ==
  /\ stats.doing # "idle"
  /\ \/ /\ stats.answer # Unknown
        /\ stats' = [stats EXCEPT !.doing = "idle", !.total = stats.answer, !.asOf = stats.servedAt]
        /\ UNCHANGED budget
     \/ /\ Budget("drops", MaxDrops)
        /\ stats' = [stats EXCEPT !.doing = "idle", !.failed = TRUE]
  /\ UNCHANGED <<screen, shelf, grid, fetches, walk, tab>>

ServeWalk ==
  /\ walk.at = "sent"
  /\ \/ LET page == Piece(AnySort, walk.from) IN
        walk' = [walk EXCEPT !.at = "served", !.page = page.rows, !.next = page.next]
        /\ UNCHANGED budget
     \/ Budget("drops", MaxDrops) /\ walk' = [walk EXCEPT !.at = "lost"]
  /\ UNCHANGED <<screen, shelf, grid, fetches, stats, tab>>

\* walk: collect the page and ask for the next, up to the cap; a failure ends
\* it with what was collected.
StepWalk ==
  /\ walk.at \in {"served", "lost"}
  /\ walk' = IF walk.at = "lost" THEN [walk EXCEPT !.at = "ready", !.page = {}, !.whole = FALSE]
             ELSE LET last == walk.next = 0 \/ walk.pages + 1 = MaxWalkPages IN
                  [walk EXCEPT !.at = IF last THEN "ready" ELSE "sent", !.found = @ \cup walk.page,
                               !.page = {}, !.pages = @ + 1, !.from = walk.next,
                               !.whole = walk.next = 0 \/ ~last]
  /\ UNCHANGED <<screen, shelf, grid, fetches, stats, tab, budget>>

----------------------------------------------------------------------------
(***************************************************************************)
(* The rest of the application, and other devices: pieces come, go and are *)
(* washed; a write of this device may mark the tab.                        *)
(***************************************************************************)
Changed(s) ==
  /\ shelf' = [s EXCEPT !.changes = @ + 1]
  /\ walk' = [walk EXCEPT !.stayed = @ \cap s.there]
  /\ tab' \in {tab, [tab EXCEPT !.dirty = TRUE]}
  /\ UNCHANGED <<screen, grid, fetches, stats>>

AddPiece ==
  /\ shelf.made < MaxPieces
  /\ Changed([shelf EXCEPT !.made = @ + 1, !.there = @ \cup {shelf.made + 1}])
  /\ UNCHANGED budget

RemovePiece(i) ==
  /\ i \in shelf.there /\ Budget("changes", MaxChanges)
  /\ Changed([shelf EXCEPT !.there = @ \ {i}, !.wet = @ \ {i}])

WashPiece(i) ==
  /\ screen = "profile" /\ i \in shelf.there /\ Budget("changes", MaxChanges)
  /\ Changed([shelf EXCEPT !.wet = IF i \in @ THEN @ \ {i} ELSE @ \cup {i}])

GalleryNext ==
  \/ \E c \in Sorts \cup {AnySort} : SelectSort(c)
  \/ GridMore \/ Pull \/ Retry \/ Cover \/ Return
  \/ \E f \in fetches : ServeFetch(f) \/ DeliverFetch(f)
  \/ ServeStats \/ DeliverStats \/ ServeWalk \/ StepWalk
  \/ AddPiece \/ \E i \in Pieces : RemovePiece(i) \/ WashPiece(i)

GallerySpec == GalleryInit /\ [][GalleryNext]_galleryVars

----------------------------------------------------------------------------
(***************************************************************************)
(* What the screens say.                                                   *)
(***************************************************************************)
Dirty == {i \in Range(grid.rows) : i \in grid.wet}

\* The section can speak for the whole wardrobe.
Sees == stats.total # Unknown \/ grid.next = 0

\* LaundryList.tsx: the sentence under the rows of "In the wash".
WashSentence ==
  LET hidden == IF stats.total = Unknown THEN 0 ELSE stats.total - Cardinality(Dirty) IN
  CASE grid.failed                           -> "error"
    [] ~grid.failed /\ grid.doing = "loading" /\ Dirty = {} -> "loading"
    [] OTHER -> IF hidden > 0 THEN (IF Dirty = {} THEN "elsewhere" ELSE "showing some")
                ELSE IF ~Sees THEN "first page only"
                ELSE IF Dirty = {} THEN "nothing" ELSE "these"

\* index.tsx: "Your wardrobe is empty", or "No ... items yet" under a filter.
WardrobeEmpty == screen = "wardrobe" /\ grid.doing = "idle" /\ grid.rows = <<>> /\ ~grid.failed

\* favorites.tsx: "No outfits yet"; a reload over nothing does not hide it.
GalleryEmpty == screen = "gallery" /\ grid.doing # "loading" /\ grid.rows = <<>> /\ ~grid.failed

\* profile.tsx: "Nothing in the wash."
WashEmpty == screen = "profile" /\ WashSentence = "nothing"

----------------------------------------------------------------------------
(***************************************************************************)
(* Properties                                                              *)
(***************************************************************************)

\* useWardrobe.ts:56-82: however filters, appends, refreshes and failures
\* interleave, what is listed is of the filter on screen, newest first, each
\* piece once, and between the newest it knows of and its cursor no piece that
\* is there is missing.
GridIsGapless ==
  grid.base.loaded =>
    /\ \A j, k \in DOMAIN grid.rows : j < k => grid.rows[j] > grid.rows[k]
    /\ \A i \in Range(grid.rows) : Matches(i, grid.sort)
    /\ \A i \in shelf.there : Matches(i, grid.sort) /\ i <= grid.base.made /\ i >= grid.next
         => i \in Range(grid.rows)

\* index.tsx:168-171, favorites.tsx:438-468: a wardrobe or a gallery is called
\* empty because an answer said so, not because one failed, was for another
\* filter, or has not come; but for the gallery while the retry of a failed
\* first load is under way.
EmptyIsHonest ==
  WardrobeEmpty \/ (GalleryEmpty /\ (grid.base.loaded \/ grid.doing # "refreshing")) =>
    grid.base.loaded /\ \A i \in shelf.there : Matches(i, grid.sort) => i > grid.base.made

\* LaundryList.tsx:63-82: "Nothing in the wash." needs a licence: a count, or a
\* page that is the whole wardrobe, in which nothing was in the wash; but while
\* the retry of a failed first load is under way, with no page and perhaps no
\* count, the section says it without one (LaundryList.tsx:129-138, 184-187).
\* When a page and the count are of one moment, the section says exactly what
\* was so then.
WashIsTrue ==
  screen = "profile" =>
    /\ WashEmpty /\ (grid.base.loaded \/ grid.doing # "refreshing") =>
         stats.total = 0 \/ (grid.base.loaded /\ grid.base.wet = {})
    /\ (grid.base.loaded /\ stats.total # Unknown /\ stats.asOf = grid.base.asOf /\ ~grid.failed) =>
         (WashSentence \in {"nothing", "these"} <=> Dirty = grid.base.wet)

\* useItemIndex.ts:16-19: once the walk is done the index holds every garment
\* that was there throughout, but where a request failed or the cap was met.
IndexIsWhole ==
  walk.at = "ready" /\ walk.whole => walk.stayed \subseteq walk.found

\* The lists of the wardrobe, the profile and the index, as the run checks them.
ListsAreTrue == GalleryTypeOK /\ GridIsGapless /\ EmptyIsHonest /\ WashIsTrue /\ IndexIsWhole

=============================================================================
