------------------------------ MODULE TabsProofs -----------------------------
(***************************************************************************)
(* The lists of the tabs are true, for any number of posts, pieces,        *)
(* presses and requests in flight.                                         *)
(***************************************************************************)
EXTENDS Tabs, ListingProofs

----------------------------------------------------------------------------
(***************************************************************************)
(* The lists of what a user owns.                                          *)
(***************************************************************************)
Snapshots == [loaded : {TRUE}, made : Nat, wet : SUBSET Pieces, asOf : Nat]
Doings == {"loading", "loadingMore", "refreshing"}
Filters == Sorts \cup {AnySort}
Counts == {Unknown} \cup (0..MaxPieces)

Grids == [rows : Seq(Pieces), wet : SUBSET Pieces, next : 0..MaxPieces, sort : Filters,
          doing : {"idle"} \cup Doings, failed : BOOLEAN, n : Nat, base : {NotYet} \cup Snapshots]
SentFetches == [n : Nat, kind : Doings, sort : Filters, from : 0..MaxPieces, at : {"sent"}]
ServedFetches == [n : Nat, kind : Doings, sort : Filters, at : {"served"}, rows : SUBSET Pieces,
                  next : 0..MaxPieces, wet : SUBSET Pieces, base : Snapshots]
LostFetches == [n : Nat, kind : Doings, at : {"lost"}]

GalleryTypes ==
  /\ screen \in {"wardrobe", "gallery", "profile", "week"}
  /\ shelf \in [made : 0..MaxPieces, there : SUBSET Pieces, wet : SUBSET Pieces, changes : Nat]
  /\ shelf.there \subseteq 1..shelf.made /\ shelf.wet \subseteq shelf.there
  /\ grid \in Grids
  /\ fetches \subseteq SentFetches \cup ServedFetches \cup LostFetches
  /\ stats \in [total : Counts, doing : {"idle", "loading", "refreshing"}, failed : BOOLEAN,
                answer : Counts, asOf : Nat, servedAt : Nat]
  /\ walk \in [at : {"off", "sent", "served", "lost", "ready"}, from : 0..MaxPieces,
               pages : 0..MaxWalkPages, found : SUBSET Pieces, page : SUBSET Pieces,
               next : 0..MaxPieces, whole : BOOLEAN, stayed : SUBSET Pieces]

\* Each request has a number of its own, and the newest is the one the grid
\* waits for, of the filter on screen.
FetchInv ==
  /\ \A f, g \in fetches : f.n = g.n => f = g
  /\ \A f \in fetches :
       /\ f.n <= grid.n
       /\ f.n = grid.n => f.kind = grid.doing /\ (f.at # "lost" => f.sort = grid.sort)
       /\ f.at = "sent" /\ f.kind # "loadingMore" => f.from = 0

\* A page served ends with its cursor's row; a first page holds all that was
\* there when it was read, down to that row.
PageServed(f) ==
  /\ \A i \in f.rows : i <= shelf.made /\ Matches(i, f.sort) /\ f.next <= i
  /\ f.next # 0 => f.next \in f.rows
  /\ f.base.made <= shelf.made
  /\ f.kind # "loadingMore" =>
       \A i \in shelf.there : Matches(i, f.sort) /\ i <= f.base.made /\ i >= f.next => i \in f.rows

ServedInv == \A f \in fetches : f.at = "served" => PageServed(f)

\* A next page is asked for behind the last row, and holds what stands there.
NextPage(f) ==
  /\ grid.base.loaded /\ grid.next # 0
  /\ f.at = "sent" => f.from = grid.next
  /\ f.at = "served" =>
       /\ \A i \in f.rows : i < grid.next
       /\ \A i \in shelf.there : Matches(i, f.sort) /\ i < grid.next /\ i >= f.next => i \in f.rows

NextInv == \A f \in fetches : f.n = grid.n /\ f.kind = "loadingMore" => NextPage(f)

\* The rows end with the cursor's, and nothing that is there is missing above it.
GridInv ==
  IF grid.base.loaded
    THEN /\ GridIsGapless
         /\ \A i \in Range(grid.rows) : i <= shelf.made /\ grid.next <= i
         /\ grid.next # 0 => grid.next \in Range(grid.rows)
         /\ grid.base.made <= shelf.made
    ELSE grid.next = 0

\* A grid at rest that has not failed has had an answer, and so has one that appends.
RestInv ==
  /\ grid.doing = "idle" /\ ~grid.failed => grid.base.loaded
  /\ grid.doing = "loadingMore" => grid.base.loaded

\* What the marks of a page say of the wash when it was read.
Marks(listed, wet, next, base) ==
  wet \subseteq base.wet /\ (next = 0 => base.wet \subseteq listed \cap wet)

ProfileInv ==
  screen = "profile" =>
    /\ grid.sort = AnySort /\ grid.doing # "loadingMore"
    /\ grid.doing = "loading" => ~grid.base.loaded
    /\ grid.base.loaded => Marks(Range(grid.rows), grid.wet, grid.next, grid.base)
    /\ \A f \in fetches : /\ f.kind # "loadingMore"
                          /\ f.at # "lost" => f.sort = AnySort
                          /\ f.at = "served" => Marks(f.rows, f.wet, f.next, f.base)

\* What the grid shows or is about to be answered was read of the shelf at one
\* moment; two reads with no change between them saw the same wash.
Bases ==
  {f.base : f \in {f \in fetches : f.at = "served"}}
    \cup (IF grid.base.loaded THEN {grid.base} ELSE {})

Seen(base) == base.asOf <= shelf.changes /\ (base.asOf = shelf.changes => base.wet = shelf.wet)

Counted(count, at) ==
  count # Unknown =>
    /\ at <= shelf.changes
    /\ at = shelf.changes => count = Cardinality(shelf.wet)
    /\ \A b \in Bases : b.asOf = at => count = Cardinality(b.wet)

ReadInv ==
  /\ \A b \in Bases : Seen(b)
  /\ Counted(stats.total, stats.asOf) /\ Counted(stats.answer, stats.servedAt)

\* The walk has collected what stayed, down to the cursor it is at.
WalkInv ==
  /\ walk.stayed \subseteq shelf.there
  /\ walk.at \in {"sent", "served", "lost"} => walk.pages < MaxWalkPages
  /\ walk.at = "sent" => walk.from = 0 \/ \A i \in walk.stayed : i \in walk.found \/ i < walk.from
  /\ walk.at = "served" =>
       \A i \in walk.stayed : i \in walk.found \/ i \in walk.page \/ (walk.next # 0 /\ i < walk.next)
  /\ IndexIsWhole

GalleryInv ==
  GalleryTypes /\ FetchInv /\ ServedInv /\ NextInv /\ GridInv /\ RestInv /\ ProfileInv /\ ReadInv /\ WalkInv

\* A page is the top of what stands behind the cursor, and ends with the next
\* cursor's row: everything down to and with that row is in it.
LEMMA PieceFacts ==
  ASSUME GalleryTypes, NEW sort \in Filters, NEW from \in 0..MaxPieces
  PROVE  /\ Piece(sort, from).rows \in SUBSET Pieces
         /\ Piece(sort, from).next \in 0..MaxPieces
         /\ \A i \in Piece(sort, from).rows :
              /\ i \in shelf.there /\ Matches(i, sort) /\ Piece(sort, from).next <= i
              /\ from # 0 => i < from
         /\ Piece(sort, from).next # 0 => Piece(sort, from).next \in Piece(sort, from).rows
         /\ \A i \in shelf.there :
              Matches(i, sort) /\ (from = 0 \/ i < from) /\ Piece(sort, from).next <= i
                => i \in Piece(sort, from).rows
<1> DEFINE B == {i \in shelf.there : Matches(i, sort) /\ (from = 0 \/ i < from)}
           above(p) == {q \in B : q > p}
           P == {i \in B : Cardinality(above(i)) < GridPage}
           next == IF P = B THEN 0 ELSE Min(P)
<1>1. Piece(sort, from) = [rows |-> P, next |-> next]
  BY DEF Piece
<1>2. Piece(sort, from).rows = P /\ Piece(sort, from).next = next
  BY <1>1
<1>3. MaxPieces \in Nat /\ GridPage \in Nat \ {0} /\ shelf.there \subseteq Pieces
      /\ Pieces \subseteq Nat /\ from \in Nat
  BY SMTT(30), GalleriesAssumption DEF GalleryTypes, Pieces
<1>4. IsFiniteSet(B) /\ B \subseteq Pieces /\ B \in SUBSET Nat
  <2>0. 1 \in Int /\ MaxPieces \in Int
    BY <1>3
  <2>1. IsFiniteSet(Pieces)
    <3>1. IsFiniteSet(1..MaxPieces)
      BY <2>0, FS_Interval, Zenon
    <3>. QED  BY <3>1, Zenon DEF Pieces
  <2> QED  BY <1>3, <2>1, FS_Subset
<1>5. P \subseteq B /\ P \in SUBSET Nat /\ IsFiniteSet(P)
  BY <1>4, FS_Subset
<1>6. \A i \in B : i \in shelf.there /\ Matches(i, sort) /\ (from # 0 => i < from) /\ i \in Int
  BY <1>4
<1>7. \A i \in shelf.there : Matches(i, sort) /\ (from = 0 \/ i < from) => i \in B
  OBVIOUS
<1>8. \A i \in B : i \in P <=> Cardinality(above(i)) < GridPage
  OBVIOUS
<1>9. (P = B => next = 0) /\ (P # B => next = Min(P))
  OBVIOUS
<1> HIDE DEF B, P, next
<1>10. CASE P = B
  BY <1>2, <1>3, <1>4, <1>6, <1>7, <1>9, <1>10
<1>11. CASE P # B
  <2>1. P # {}
    <3>1. B # {}
      BY <1>5, <1>11
    <3>2. PICK p \in B : \A q \in B : q <= p
      BY <3>1, <1>4, GreatestOfFinite
    <3>3. above(p) = {}
      BY <3>2, <1>6
    <3>4. Cardinality(above(p)) < GridPage
      BY <3>3, FS_EmptySet, <1>3
    <3> QED  BY <1>8, <3>2, <3>4
  <2>2. Min(P) \in P /\ \A p \in P : Min(P) <= p
    BY <2>1, <1>5, LeastOfFinite
  <2>3. Min(P) \in B /\ Min(P) \in Pieces /\ Min(P) \in 0..MaxPieces
    <3>1. Min(P) \in B /\ Min(P) \in Pieces
      BY <2>2, <1>4, <1>5
    <3> QED  BY <3>1, <1>3 DEF Pieces
  <2>4. ASSUME NEW p \in B, Min(P) <= p  PROVE p \in P
    <3>1. IsFiniteSet(above(Min(P))) /\ above(p) \subseteq above(Min(P))
      <4>1. above(Min(P)) \subseteq B
        OBVIOUS
      <4>2. ASSUME NEW q \in above(p)  PROVE q > Min(P)
        <5>1. q \in Int /\ p \in Int /\ Min(P) \in Int /\ q > p
          BY <1>6, <2>3
        <5> QED  BY <5>1, <2>4
      <4> QED  BY <4>1, <4>2, <1>4, FS_Subset
    <3>2. /\ Cardinality(above(p)) <= Cardinality(above(Min(P)))
          /\ Cardinality(above(p)) \in Int /\ Cardinality(above(Min(P))) \in Int
      BY <3>1, FS_Subset, FS_CardinalityType
    <3>3. Cardinality(above(Min(P))) < GridPage
      BY <1>8, <2>2, <2>3
    <3>4. Cardinality(above(p)) < GridPage
      BY <3>2, <3>3, <1>3
    <3> QED  BY <1>8, <3>4
  <2>5. next = Min(P) /\ P \in SUBSET Pieces
    BY <1>4, <1>5, <1>9, <1>11
  <2>6. \A i \in P : i \in shelf.there /\ Matches(i, sort) /\ next <= i /\ (from # 0 => i < from)
    BY <1>5, <1>6, <2>2, <2>5
  <2>7. \A i \in shelf.there : Matches(i, sort) /\ (from = 0 \/ i < from) /\ next <= i => i \in P
    BY <1>7, <2>4, <2>5
  <2> QED  BY <1>2, <2>2, <2>3, <2>5, <2>6, <2>7
<1> QED  BY <1>10, <1>11

----------------------------------------------------------------------------
(***************************************************************************)
(* What a step makes of the grid and its requests.                         *)
(***************************************************************************)

\* The grid cleared for another filter, asked for, failed and answered.
Emptied(g) == [g EXCEPT !.rows = <<>>, !.wet = {}, !.next = 0, !.base = NotYet]
Asked(g, kind, sort) == [g EXCEPT !.n = @ + 1, !.doing = kind, !.failed = FALSE, !.sort = sort]
Failed(g) == [g EXCEPT !.doing = "idle", !.failed = TRUE]
Filled(g, f) ==
  [g EXCEPT !.doing = "idle", !.next = f.next,
            !.rows = (IF f.kind = "loadingMore" THEN @ ELSE <<>>) \o NewestFirst(f.rows),
            !.wet = (IF f.kind = "loadingMore" THEN @ ELSE {}) \cup f.wet,
            !.base = IF f.kind = "loadingMore" THEN @ ELSE f.base]
Served(f) ==
  [n |-> f.n, kind |-> f.kind, sort |-> f.sort, at |-> "served", rows |-> Piece(f.sort, f.from).rows,
   next |-> Piece(f.sort, f.from).next, wet |-> Piece(f.sort, f.from).rows \cap shelf.wet,
   base |-> Snapshot]
Lost(f) == [n |-> f.n, kind |-> f.kind, at |-> "lost"]

\* A cleared grid has no rows, no cursor and nothing behind it.
LEMMA EmptiedFacts ==
  ASSUME NEW g \in Grids
  PROVE  /\ Emptied(g) \in Grids
         /\ Emptied(g).rows = <<>> /\ Emptied(g).wet = {} /\ Emptied(g).next = 0
         /\ Emptied(g).base = NotYet /\ Emptied(g).n = g.n
<1> DEFINE a == [g EXCEPT !.rows = <<>>]
           b == [a EXCEPT !.wet = {}]
           c == [b EXCEPT !.next = 0]
           d == [c EXCEPT !.base = NotYet]
<1>0. MaxPieces \in Nat
  BY GalleriesAssumption
<1>1. a \in Grids /\ a.rows = <<>> /\ a.n = g.n
  <2> DEFINE none == <<>>
             a0 == [g EXCEPT !.rows = none]
  <2>1. none \in Seq(Pieces)
    OBVIOUS
  <2> HIDE DEF none
  <2>2. a0 \in Grids /\ a0.rows = none /\ a0.n = g.n
    BY <2>1 DEF Grids
  <2> QED  BY <2>2 DEF none
<1> HIDE DEF a
<1>2. b \in Grids /\ b.rows = <<>> /\ b.wet = {} /\ b.n = g.n
  BY <1>1 DEF Grids
<1> HIDE DEF b
<1>3. c \in Grids /\ c.rows = <<>> /\ c.wet = {} /\ c.next = 0 /\ c.n = g.n
  BY SMTT(30), <1>0, <1>2 DEF Grids
<1> HIDE DEF c
<1>4. d \in Grids /\ d.rows = <<>> /\ d.wet = {} /\ d.next = 0 /\ d.base = NotYet /\ d.n = g.n
  BY <1>3 DEF Grids
<1> HIDE DEF d
<1>5. Emptied(g) = d
  BY Zenon DEF Emptied, a, b, c, d
<1> QED  BY <1>4, <1>5

\* A grid that is asked for keeps its rows and what is behind them.
LEMMA AskedFacts ==
  ASSUME NEW g \in Grids, NEW kind \in Doings, NEW sort \in Filters
  PROVE  /\ Asked(g, kind, sort) \in Grids
         /\ Asked(g, kind, sort).n = g.n + 1 /\ Asked(g, kind, sort).doing = kind
         /\ Asked(g, kind, sort).sort = sort /\ Asked(g, kind, sort).failed = FALSE
         /\ Asked(g, kind, sort).rows = g.rows /\ Asked(g, kind, sort).wet = g.wet
         /\ Asked(g, kind, sort).next = g.next /\ Asked(g, kind, sort).base = g.base
<1> DEFINE a == [g EXCEPT !.n = @ + 1]
           b == [a EXCEPT !.doing = kind]
           c == [b EXCEPT !.failed = FALSE]
           d == [c EXCEPT !.sort = sort]
           Keeps(h) == h.rows = g.rows /\ h.wet = g.wet /\ h.next = g.next /\ h.base = g.base
<1>1. a \in Grids /\ a.n = g.n + 1 /\ Keeps(a)
  BY DEF Grids
<1> HIDE DEF a
<1>2. b \in Grids /\ b.n = g.n + 1 /\ b.doing = kind /\ Keeps(b)
  BY <1>1 DEF Grids
<1> HIDE DEF b
<1>3. c \in Grids /\ c.n = g.n + 1 /\ c.doing = kind /\ Keeps(c)
  BY <1>2 DEF Grids
<1>4. c.failed = FALSE
  BY <1>2 DEF Grids
<1> HIDE DEF c
<1>5. d \in Grids /\ d.n = g.n + 1 /\ d.doing = kind /\ d.sort = sort /\ Keeps(d)
  BY <1>3 DEF Grids
<1>6. d.failed = FALSE
  <2>1. d.failed = c.failed
    BY <1>3 DEF Grids
  <2> QED  BY <2>1, <1>4
<1> HIDE DEF d
<1>7. Asked(g, kind, sort) = d
  BY Zenon DEF Asked, a, b, c, d
<1> QED  BY <1>5, <1>6, <1>7

\* A request that failed leaves all but the spinner and the banner.
LEMMA FailedFacts ==
  ASSUME NEW g \in Grids
  PROVE  /\ Failed(g) \in Grids /\ Failed(g).failed = TRUE
         /\ Failed(g).n = g.n /\ Failed(g).doing = "idle" /\ Failed(g).sort = g.sort
         /\ Failed(g).rows = g.rows /\ Failed(g).wet = g.wet
         /\ Failed(g).next = g.next /\ Failed(g).base = g.base
<1> DEFINE a == [g EXCEPT !.doing = "idle"]
           b == [a EXCEPT !.failed = TRUE]
           Keeps(h) == /\ h.rows = g.rows /\ h.wet = g.wet /\ h.next = g.next /\ h.base = g.base
                       /\ h.n = g.n /\ h.sort = g.sort
<1>1. a \in Grids /\ a.doing = "idle" /\ Keeps(a)
  BY DEF Grids
<1> HIDE DEF a
<1>2. b \in Grids /\ b.doing = "idle" /\ Keeps(b)
  BY <1>1 DEF Grids
<1>3. b.failed = TRUE
  BY <1>1 DEF Grids
<1> HIDE DEF b
<1>4. Failed(g) = b
  BY Zenon DEF Failed, a, b
<1> QED  BY <1>2, <1>3, <1>4

\* An answer replaces the rows or is appended to them.
LEMMA FilledFacts ==
  ASSUME NEW g \in Grids, NEW f \in ServedFetches
  PROVE  /\ Filled(g, f) \in Grids
         /\ Filled(g, f).n = g.n /\ Filled(g, f).doing = "idle" /\ Filled(g, f).sort = g.sort
         /\ Filled(g, f).next = f.next
         /\ Filled(g, f).rows = (IF f.kind = "loadingMore" THEN g.rows ELSE <<>>) \o NewestFirst(f.rows)
         /\ Filled(g, f).wet = (IF f.kind = "loadingMore" THEN g.wet ELSE {}) \cup f.wet
         /\ Filled(g, f).base = IF f.kind = "loadingMore" THEN g.base ELSE f.base
<1> DEFINE more == f.kind = "loadingMore"
           listed == (IF more THEN g.rows ELSE <<>>) \o NewestFirst(f.rows)
           washed == (IF more THEN g.wet ELSE {}) \cup f.wet
           behind == IF more THEN g.base ELSE f.base
           a == [g EXCEPT !.doing = "idle"]
           b == [a EXCEPT !.next = f.next]
           c == [b EXCEPT !.rows = listed]
           d == [c EXCEPT !.wet = washed]
           e == [d EXCEPT !.base = behind]
<1>0. MaxPieces \in Nat /\ Pieces \subseteq Nat /\ IsFiniteSet(Pieces)
  BY GalleriesAssumption, FS_Interval DEF Pieces
<1>1. g.rows \in Seq(Pieces) /\ g.wet \subseteq Pieces /\ g.base \in {NotYet} \cup Snapshots
  BY DEF Grids
<1>2. f.rows \subseteq Pieces /\ f.wet \subseteq Pieces /\ f.next \in 0..MaxPieces /\ f.base \in Snapshots
  BY DEF ServedFetches
<1>3. NewestFirst(f.rows) \in Seq(Pieces)
  <2>1. f.rows \in SUBSET Nat /\ IsFiniteSet(f.rows)
    BY <1>0, <1>2, FS_Subset
  <2>2. NewestFirst(f.rows) \in Seq(f.rows)
    BY <2>1, NewestFirstOrders
  <2> QED  BY <1>2, <2>2
<1>4. listed \in Seq(Pieces)
  <2>1. (IF more THEN g.rows ELSE <<>>) \in Seq(Pieces)
    BY <1>1
  <2> QED  BY <1>3, <2>1
<1>5. washed \subseteq Pieces /\ behind \in {NotYet} \cup Snapshots
  BY <1>1, <1>2
<1>6. a \in Grids /\ a.doing = "idle" /\ a.n = g.n /\ a.sort = g.sort
      /\ a.rows = g.rows /\ a.wet = g.wet /\ a.base = g.base
  BY DEF Grids
<1>7. Filled(g, f) = e
  BY <1>6, Zenon DEF Filled, a, b, c, d, e, listed, washed, behind, more
<1> HIDE DEF listed, washed, behind, a
<1>8. b \in Grids /\ b.doing = "idle" /\ b.n = g.n /\ b.sort = g.sort /\ b.next = f.next
  BY <1>2, <1>6 DEF Grids
<1> HIDE DEF b
<1>9. c \in Grids /\ c.doing = "idle" /\ c.n = g.n /\ c.sort = g.sort /\ c.next = f.next
      /\ c.rows = listed
  BY <1>4, <1>8 DEF Grids
<1> HIDE DEF c
<1>10. d \in Grids /\ d.doing = "idle" /\ d.n = g.n /\ d.sort = g.sort /\ d.next = f.next
       /\ d.rows = listed /\ d.wet = washed
  BY <1>5, <1>9 DEF Grids
<1> HIDE DEF d
<1>11. e \in Grids /\ e.doing = "idle" /\ e.n = g.n /\ e.sort = g.sort /\ e.next = f.next
       /\ e.rows = listed /\ e.wet = washed /\ e.base = behind
  BY <1>5, <1>10 DEF Grids
<1> HIDE DEF e
<1> QED  BY <1>7, <1>11 DEF listed, washed, behind

\* The request a press sends for the grid: a filter, a next page, or a reload.
Asks(g, kind, sort, from) ==
  grid' = Asked(g, kind, sort) /\ fetches' = fetches \cup {Fetch(grid.n + 1, kind, sort, from)}
GridAsks ==
  \/ screen = "wardrobe" /\ \E c \in Filters : Asks(Emptied(grid), "loading", c, 0)
  \/ /\ screen \in Paging /\ grid.doing = "idle" /\ grid.next # 0
     /\ Asks(grid, "loadingMore", grid.sort, grid.next)
  \/ grid.doing \notin {"loading", "refreshing"} /\ Asks(grid, "refreshing", grid.sort, 0)

\* The shelf after one more change: pieces go, or the next one is there.
Ages ==
  /\ shelf' \in [made : 0..MaxPieces, there : SUBSET Pieces, wet : SUBSET Pieces, changes : Nat]
  /\ shelf'.there \subseteq 1..shelf'.made /\ shelf'.wet \subseteq shelf'.there
  /\ shelf'.changes = shelf.changes + 1 /\ shelf.made <= shelf'.made
  /\ \A i \in shelf'.there : i \in shelf.there \/ shelf.made < i
  /\ \E there : walk' = [walk EXCEPT !.stayed = @ \cap there] /\ shelf'.there = there

\* One change of the shelf, whatever it is.
LEMMA AgesFacts ==
  ASSUME GalleryTypes,
         \/ AddPiece \/ \E i \in Pieces : RemovePiece(i) \/ WashPiece(i)
  PROVE  Ages /\ UNCHANGED <<screen, grid, fetches, stats>>
<1> DEFINE Shelves == [made : 0..MaxPieces, there : SUBSET Pieces, wet : SUBSET Pieces, changes : Nat]
<1>0. MaxPieces \in Nat /\ Pieces = 1..MaxPieces
  BY GalleriesAssumption DEF Pieces
<1>1. /\ shelf \in Shelves /\ shelf.made \in 0..MaxPieces /\ shelf.changes \in Nat
      /\ shelf.there \subseteq Pieces /\ shelf.wet \subseteq Pieces
      /\ shelf.there \subseteq 1..shelf.made /\ shelf.wet \subseteq shelf.there
  BY DEF GalleryTypes
<1>2. ASSUME NEW s \in Shelves, Changed(s), s.changes = shelf.changes, shelf.made <= s.made,
             s.there \subseteq 1..s.made, s.wet \subseteq s.there,
             \A i \in s.there : i \in shelf.there \/ shelf.made < i
      PROVE  Ages /\ UNCHANGED <<screen, grid, fetches, stats>>
  <2> DEFINE t == [s EXCEPT !.changes = @ + 1]
  <2>1. t \in Shelves /\ t.made = s.made /\ t.there = s.there /\ t.wet = s.wet /\ t.changes = s.changes + 1
    OBVIOUS
  <2>2. shelf' = t /\ walk' = [walk EXCEPT !.stayed = @ \cap s.there]
        /\ UNCHANGED <<screen, grid, fetches, stats>>
    BY <1>2 DEF Changed
  <2> HIDE DEF t, Shelves
  <2>3. /\ shelf' \in Shelves /\ shelf'.made = s.made /\ shelf'.there = s.there /\ shelf'.wet = s.wet
        /\ shelf'.changes = s.changes + 1
    BY <2>1, <2>2
  <2> QED  BY <1>2, <2>2, <2>3 DEF Ages, Shelves
<1>3. CASE AddPiece
  <2> DEFINE a == [shelf EXCEPT !.made = @ + 1]
             b == [a EXCEPT !.there = @ \cup {shelf.made + 1}]
  <2>1. shelf.made < MaxPieces /\ shelf.made \in Nat /\ shelf.made + 1 \in Pieces
        /\ shelf.made + 1 \in 0..MaxPieces
    BY <1>0, <1>1, <1>3 DEF AddPiece
  <2>2. a \in Shelves /\ a.made = shelf.made + 1 /\ a.there = shelf.there /\ a.wet = shelf.wet
        /\ a.changes = shelf.changes
    BY <1>1, <2>1
  <2>3. a.there \cup {shelf.made + 1} \subseteq Pieces
    BY <1>1, <2>1, <2>2
  <2> HIDE DEF a
  <2>4. b \in Shelves /\ b.made = shelf.made + 1 /\ b.there = shelf.there \cup {shelf.made + 1}
        /\ b.wet = shelf.wet /\ b.changes = shelf.changes
    BY <2>2, <2>3
  <2>5. Changed(b)
    BY <1>3, Zenon DEF AddPiece, a, b
  <2> HIDE DEF b, Shelves
  <2>6. shelf.made <= b.made /\ b.there \subseteq 1..b.made /\ b.wet \subseteq b.there
    BY <1>1, <2>1, <2>4
  <2>7. \A i \in b.there : i \in shelf.there \/ shelf.made < i
    BY <2>1, <2>4
  <2> QED  BY <1>2, <2>4, <2>5, <2>6, <2>7
<1>4. ASSUME NEW i \in Pieces, RemovePiece(i)
      PROVE  Ages /\ UNCHANGED <<screen, grid, fetches, stats>>
  <2> DEFINE a == [shelf EXCEPT !.there = @ \ {i}]
             b == [a EXCEPT !.wet = @ \ {i}]
  <2>1. shelf.there \ {i} \subseteq Pieces /\ shelf.wet \ {i} \subseteq Pieces
    BY <1>1
  <2>2. a \in Shelves /\ a.made = shelf.made /\ a.there = shelf.there \ {i} /\ a.wet = shelf.wet
        /\ a.changes = shelf.changes
    BY <1>1, <2>1
  <2> HIDE DEF a
  <2>3. b \in Shelves /\ b.made = shelf.made /\ b.there = shelf.there \ {i} /\ b.wet = shelf.wet \ {i}
        /\ b.changes = shelf.changes
    BY <2>1, <2>2
  <2>4. Changed(b)
    BY <1>4, Zenon DEF RemovePiece, a, b
  <2> HIDE DEF b, Shelves
  <2>5. shelf.made <= b.made /\ b.there \subseteq 1..b.made /\ b.wet \subseteq b.there
    BY <1>1, <2>3
  <2> QED  BY <1>2, <2>3, <2>4, <2>5
<1>5. ASSUME NEW i \in Pieces, WashPiece(i)
      PROVE  Ages /\ UNCHANGED <<screen, grid, fetches, stats>>
  <2> DEFINE wet == IF i \in shelf.wet THEN shelf.wet \ {i} ELSE shelf.wet \cup {i}
             b == [shelf EXCEPT !.wet = wet]
  <2>1. i \in shelf.there
    BY <1>5 DEF WashPiece
  <2>2. wet \subseteq Pieces /\ wet \subseteq shelf.there
    BY <1>1, <2>1
  <2>3. Changed(b)
    BY <1>5 DEF WashPiece
  <2> HIDE DEF wet
  <2>4. b \in Shelves /\ b.made = shelf.made /\ b.there = shelf.there /\ b.wet = wet
        /\ b.changes = shelf.changes
    BY <1>1, <2>2
  <2> HIDE DEF b, Shelves
  <2>5. shelf.made <= b.made /\ b.there \subseteq 1..b.made /\ b.wet \subseteq b.there
    BY <1>1, <2>2, <2>4
  <2> QED  BY <1>2, <2>3, <2>4, <2>5
<1> QED  BY <1>3, <1>4, <1>5

\* A step asks for a list, serves or delivers one, changes the shelf, or is no
\* matter to the grid.
LEMMA GridSteps ==
  ASSUME GalleryTypes, [GalleryNext]_galleryVars
  PROVE  /\ screen' = screen
         /\ \/ UNCHANGED <<shelf, grid, fetches>>
            \/ shelf' = shelf /\ GridAsks
            \/ shelf' = shelf /\ \E f \in fetches : ServeFetch(f) \/ DeliverFetch(f)
            \/ Ages /\ UNCHANGED <<grid, fetches>>
<1>1. ASSUME NEW g, NEW kind, NEW sort, NEW from, RunWith(g, kind, sort, from)
      PROVE  Asks(g, kind, sort, from)
  BY <1>1, Zenon DEF RunWith, Asks, Asked
<1>2. ASSUME RefreshGrid
      PROVE  UNCHANGED <<grid, fetches>> \/ GridAsks
  <2>1. CASE grid.doing \in {"loading", "refreshing"}
    BY <1>2, <2>1 DEF RefreshGrid
  <2>2. CASE grid.doing \notin {"loading", "refreshing"}
    BY <1>1, <1>2, <2>2 DEF RefreshGrid, GridAsks
  <2> QED  BY <2>1, <2>2
<1>3. ASSUME NEW c \in Sorts \cup {AnySort}, SelectSort(c)
      PROVE  screen' = screen /\ shelf' = shelf /\ GridAsks
  <2>1. RunWith(Emptied(grid), "loading", c, 0) /\ screen = "wardrobe" /\ UNCHANGED <<screen, shelf>>
    BY <1>3, Zenon DEF SelectSort, Emptied
  <2>2. Asks(Emptied(grid), "loading", c, 0)
    BY <1>1, <2>1
  <2> QED  BY <2>1, <2>2 DEF GridAsks, Filters
<1>4. CASE GridMore
  BY <1>1, <1>4 DEF GridMore, GridAsks
<1>5. CASE Pull
  BY <1>2, <1>5 DEF Pull, RefreshAll
<1>6. CASE Retry
  BY <1>2, <1>6 DEF Retry
<1>7. CASE Cover
  BY <1>7 DEF Cover
<1>8. CASE Return
  BY <1>2, <1>8 DEF Return, RefreshAll
<1>9. ASSUME NEW f \in fetches, ServeFetch(f)  PROVE screen' = screen /\ shelf' = shelf
  BY <1>9 DEF ServeFetch
<1>10. ASSUME NEW f \in fetches, DeliverFetch(f)  PROVE screen' = screen /\ shelf' = shelf
  BY <1>10 DEF DeliverFetch
<1>11. CASE ServeStats \/ DeliverStats
  BY <1>11 DEF ServeStats, DeliverStats
<1>12. CASE ServeWalk \/ StepWalk
  BY <1>12 DEF ServeWalk, StepWalk
<1>13. CASE AddPiece \/ \E i \in Pieces : RemovePiece(i) \/ WashPiece(i)
  BY <1>13, AgesFacts
<1>14. CASE UNCHANGED galleryVars
  BY <1>14 DEF galleryVars
<1> QED  BY <1>3, <1>4, <1>5, <1>6, <1>7, <1>8, <1>9, <1>10, <1>11, <1>12, <1>13, <1>14
         DEF GalleryNext

\* A request is sent with no answer yet.
LEMMA FetchFacts ==
  ASSUME NEW n \in Nat, NEW kind \in Doings, NEW sort \in Filters, NEW from \in 0..MaxPieces
  PROVE  /\ Fetch(n, kind, sort, from) \in SentFetches
         /\ Fetch(n, kind, sort, from).n = n /\ Fetch(n, kind, sort, from).kind = kind
         /\ Fetch(n, kind, sort, from).sort = sort /\ Fetch(n, kind, sort, from).from = from
         /\ Fetch(n, kind, sort, from).at = "sent"
BY DEF Fetch, SentFetches

\* What may follow when the grid asks: it waits for the one request it sent,
\* over an empty list, or over the rows it has.
LEMMA GridAskFacts ==
  ASSUME GalleryTypes, GridAsks
  PROVE  \E f \in SentFetches :
           /\ fetches' = fetches \cup {f} /\ f.at = "sent" /\ f.n = grid.n + 1
           /\ grid' \in Grids /\ grid'.n = f.n /\ grid'.doing = f.kind /\ grid'.sort = f.sort
           /\ grid'.failed = FALSE
           /\ \/ /\ screen = "wardrobe" /\ f.kind = "loading" /\ f.from = 0
                 /\ grid'.rows = <<>> /\ grid'.next = 0 /\ grid'.base = NotYet
              \/ /\ grid'.rows = grid.rows /\ grid'.wet = grid.wet /\ grid'.next = grid.next
                 /\ grid'.base = grid.base /\ f.sort = grid.sort
                 /\ \/ /\ screen \in Paging /\ grid.doing = "idle" /\ f.kind = "loadingMore"
                       /\ f.from = grid.next /\ grid.next # 0
                    \/ f.kind = "refreshing" /\ f.from = 0
<1>0. MaxPieces \in Nat
  BY GalleriesAssumption
<1>1. grid \in Grids /\ grid.n \in Nat /\ grid.sort \in Filters /\ grid.next \in 0..MaxPieces
  BY DEF GalleryTypes, Grids
<1>2. ASSUME NEW c \in Filters, Asks(Emptied(grid), "loading", c, 0), screen = "wardrobe"
      PROVE  \E f \in SentFetches :
           /\ fetches' = fetches \cup {f} /\ f.at = "sent" /\ f.n = grid.n + 1
           /\ grid' \in Grids /\ grid'.n = f.n /\ grid'.doing = f.kind /\ grid'.sort = f.sort
           /\ grid'.failed = FALSE
           /\ screen = "wardrobe" /\ f.kind = "loading" /\ f.from = 0
           /\ grid'.rows = <<>> /\ grid'.next = 0 /\ grid'.base = NotYet
  <2> DEFINE g == Emptied(grid)
             h == Asked(g, "loading", c)
             f == Fetch(grid.n + 1, "loading", c, 0)
  <2>1. /\ g \in Grids /\ g.rows = <<>> /\ g.next = 0 /\ g.base = NotYet /\ g.n = grid.n
    BY <1>1, EmptiedFacts
  <2>2. grid' = h /\ fetches' = fetches \cup {f}
    BY <1>2 DEF Asks
  <2> HIDE DEF g
  <2>3. /\ h \in Grids /\ h.n = g.n + 1 /\ h.doing = "loading" /\ h.sort = c /\ h.failed = FALSE
        /\ h.rows = g.rows /\ h.next = g.next /\ h.base = g.base
    <3>1. "loading" \in Doings
      BY DEF Doings
    <3> QED  BY ONLY ZenonT(40), <1>2, <2>1, <3>1, AskedFacts
  <2>4. f \in SentFetches /\ f.n = grid.n + 1 /\ f.kind = "loading" /\ f.sort = c /\ f.from = 0 /\ f.at = "sent"
    BY <1>0, <1>1, FetchFacts DEF Doings
  <2> HIDE DEF h, f
  <2> QED  BY <1>2, <2>1, <2>2, <2>3, <2>4
<1>3. ASSUME NEW kind \in Doings, NEW from \in 0..MaxPieces, Asks(grid, kind, grid.sort, from)
      PROVE  \E f \in SentFetches :
           /\ fetches' = fetches \cup {f} /\ f.at = "sent" /\ f.n = grid.n + 1
           /\ grid' \in Grids /\ grid'.n = f.n /\ grid'.doing = f.kind /\ grid'.sort = f.sort
           /\ grid'.failed = FALSE
           /\ grid'.rows = grid.rows /\ grid'.wet = grid.wet /\ grid'.next = grid.next
           /\ grid'.base = grid.base /\ f.sort = grid.sort /\ f.kind = kind /\ f.from = from
  <2> DEFINE h == Asked(grid, kind, grid.sort)
             f == Fetch(grid.n + 1, kind, grid.sort, from)
  <2>2. grid' = h /\ fetches' = fetches \cup {f}
    BY <1>3 DEF Asks
  <2>3. /\ h \in Grids /\ h.n = grid.n + 1 /\ h.doing = kind /\ h.sort = grid.sort /\ h.failed = FALSE
        /\ h.rows = grid.rows /\ h.wet = grid.wet /\ h.next = grid.next /\ h.base = grid.base
    BY ONLY ZenonT(40), <1>1, <1>3, AskedFacts
  <2>4. /\ f \in SentFetches /\ f.n = grid.n + 1 /\ f.kind = kind /\ f.sort = grid.sort /\ f.from = from
        /\ f.at = "sent"
    BY <1>1, FetchFacts
  <2> HIDE DEF h, f
  <2> QED  BY <2>2, <2>3, <2>4
<1>4. "loadingMore" \in Doings /\ "refreshing" \in Doings /\ 0 \in 0..MaxPieces
  BY <1>0 DEF Doings
<1>5. CASE screen = "wardrobe" /\ \E c \in Filters : Asks(Emptied(grid), "loading", c, 0)
  BY <1>2, <1>5
<1>6. CASE /\ screen \in Paging /\ grid.doing = "idle" /\ grid.next # 0
           /\ Asks(grid, "loadingMore", grid.sort, grid.next)
  <2>1. PICK f \in SentFetches :
           /\ fetches' = fetches \cup {f} /\ f.at = "sent" /\ f.n = grid.n + 1
           /\ grid' \in Grids /\ grid'.n = f.n /\ grid'.doing = f.kind /\ grid'.sort = f.sort
           /\ grid'.failed = FALSE
           /\ grid'.rows = grid.rows /\ grid'.wet = grid.wet /\ grid'.next = grid.next
           /\ grid'.base = grid.base /\ f.sort = grid.sort /\ f.kind = "loadingMore"
           /\ f.from = grid.next
    <3>1. "loadingMore" \in Doings /\ grid.next \in 0..MaxPieces
      BY <1>1, <1>4
    <3>2. Asks(grid, "loadingMore", grid.sort, grid.next)
      BY <1>6
    <3> QED  BY ONLY <3>1, <3>2, <1>3
  <2> QED  BY <1>6, <2>1
<1>7. CASE Asks(grid, "refreshing", grid.sort, 0)
  <2>1. PICK f \in SentFetches :
           /\ fetches' = fetches \cup {f} /\ f.at = "sent" /\ f.n = grid.n + 1
           /\ grid' \in Grids /\ grid'.n = f.n /\ grid'.doing = f.kind /\ grid'.sort = f.sort
           /\ grid'.failed = FALSE
           /\ grid'.rows = grid.rows /\ grid'.wet = grid.wet /\ grid'.next = grid.next
           /\ grid'.base = grid.base /\ f.sort = grid.sort /\ f.kind = "refreshing"
           /\ f.from = 0
    BY ONLY <1>3, <1>4, <1>7
  <2> QED  BY <2>1
<1> QED  BY <1>5, <1>6, <1>7 DEF GridAsks

\* A request that is served holds the page, of the shelf as it is, or is lost.
LEMMA ServeFacts ==
  ASSUME GalleryTypes, NEW f \in fetches, ServeFetch(f)
  PROVE  /\ f \in SentFetches /\ f.at = "sent" /\ grid' = grid
         /\ \/ /\ fetches' = (fetches \ {f}) \cup {Served(f)} /\ Served(f) \in ServedFetches
               /\ Served(f).n = f.n /\ Served(f).kind = f.kind /\ Served(f).sort = f.sort
               /\ Served(f).at = "served"
               /\ Served(f).rows = Piece(f.sort, f.from).rows
               /\ Served(f).next = Piece(f.sort, f.from).next
               /\ Served(f).wet = Piece(f.sort, f.from).rows \cap shelf.wet
               /\ Served(f).base.made = shelf.made /\ Served(f).base.wet = shelf.wet
               /\ Served(f).base.asOf = shelf.changes /\ Served(f).base.loaded = TRUE
            \/ /\ fetches' = (fetches \ {f}) \cup {Lost(f)} /\ Lost(f) \in LostFetches
               /\ Lost(f).n = f.n /\ Lost(f).kind = f.kind /\ Lost(f).at = "lost"
<1>1. f.at = "sent" /\ grid' = grid
  BY DEF ServeFetch
<1>2. f \in SentFetches
  BY <1>1 DEF GalleryTypes, ServedFetches, LostFetches
<1>3. f.n \in Nat /\ f.kind \in Doings /\ f.sort \in Filters /\ f.from \in 0..MaxPieces
  BY <1>2 DEF SentFetches
<1>4. Piece(f.sort, f.from).rows \in SUBSET Pieces /\ Piece(f.sort, f.from).next \in 0..MaxPieces
  BY <1>3, PieceFacts
<1>5. /\ Snapshot \in Snapshots /\ Snapshot.made = shelf.made /\ Snapshot.wet = shelf.wet
      /\ Snapshot.asOf = shelf.changes /\ Snapshot.loaded = TRUE
  <2>1. shelf.made \in Nat /\ shelf.wet \subseteq Pieces /\ shelf.changes \in Nat
    BY GalleriesAssumption DEF GalleryTypes
  <2> QED  BY <2>1 DEF Snapshot, Snapshots
<1>6. /\ Served(f).n = f.n /\ Served(f).kind = f.kind /\ Served(f).sort = f.sort
      /\ Served(f).at = "served" /\ Served(f).rows = Piece(f.sort, f.from).rows
      /\ Served(f).next = Piece(f.sort, f.from).next
      /\ Served(f).wet = Piece(f.sort, f.from).rows \cap shelf.wet
      /\ Served(f).base = Snapshot
  BY DEF Served
<1>7. Served(f) \in ServedFetches
  <2>1. Piece(f.sort, f.from).rows \cap shelf.wet \in SUBSET Pieces
    BY <1>4
  <2> QED  BY <1>3, <1>4, <1>5, <2>1 DEF Served, ServedFetches
<1>8. Lost(f) \in LostFetches /\ Lost(f).n = f.n /\ Lost(f).kind = f.kind /\ Lost(f).at = "lost"
  BY <1>3 DEF Lost, LostFetches
<1>9. \/ fetches' = (fetches \ {f}) \cup {Served(f)}
      \/ fetches' = (fetches \ {f}) \cup {Lost(f)}
  BY DEF ServeFetch, Served, Lost
<1> QED  BY <1>1, <1>2, <1>5, <1>6, <1>7, <1>8, <1>9

\* A delivery takes the request away; only the newest one's touches the grid.
LEMMA DeliverFacts ==
  ASSUME GalleryTypes, NEW f \in fetches, DeliverFetch(f)
  PROVE  /\ fetches' = fetches \ {f}
         /\ \/ f.n # grid.n /\ grid' = grid
            \/ f.n = grid.n /\ f \in LostFetches /\ f.at = "lost" /\ grid' = Failed(grid)
            \/ f.n = grid.n /\ f \in ServedFetches /\ f.at = "served" /\ grid' = Filled(grid, f)
<1>1. f.at # "sent" /\ fetches' = fetches \ {f}
  BY DEF DeliverFetch
<1>2. f \in ServedFetches \/ f \in LostFetches
  BY <1>1 DEF GalleryTypes, SentFetches
<1>3. (f \in ServedFetches => f.at = "served") /\ (f \in LostFetches => f.at = "lost")
  BY DEF ServedFetches, LostFetches
<1>4. \/ f.n # grid.n /\ grid' = grid
      \/ f.n = grid.n /\ f.at = "lost" /\ grid' = Failed(grid)
      \/ f.n = grid.n /\ f.at # "lost" /\ grid' = Filled(grid, f)
  <2>1. CASE f.n # grid.n
    BY <2>1 DEF DeliverFetch, Current
  <2>2. CASE f.n = grid.n /\ f.at = "lost"
    BY <2>2 DEF DeliverFetch, Current, Failed
  <2>3. CASE f.n = grid.n /\ f.at # "lost"
    BY <2>3 DEF DeliverFetch, Current, Filled
  <2> QED  BY <2>1, <2>2, <2>3
<1> QED  BY <1>1, <1>2, <1>3, <1>4

\* What may be known of the wash.
Analytics == [total : Counts, doing : {"idle", "loading", "refreshing"}, failed : BOOLEAN,
              answer : Counts, asOf : Nat, servedAt : Nat]

\* The analytics keep their last count and their answer; forget the answer; are
\* answered with the wash as it is; or show the answer.
LEMMA StatsSteps ==
  ASSUME GalleryTypes, [GalleryNext]_galleryVars
  PROVE  /\ stats' \in Analytics
         /\ \/ /\ stats'.total = stats.total /\ stats'.asOf = stats.asOf
               /\ \/ stats'.answer = stats.answer /\ stats'.servedAt = stats.servedAt
                  \/ stats'.answer = Unknown
            \/ /\ stats'.total = stats.total /\ stats'.asOf = stats.asOf
               /\ stats'.answer = Cardinality(shelf.wet) /\ stats'.servedAt = shelf.changes
               /\ UNCHANGED <<shelf, grid, fetches>>
            \/ /\ stats'.total = stats.answer /\ stats'.asOf = stats.servedAt
               /\ stats'.answer = stats.answer /\ stats'.servedAt = stats.servedAt
<1>0. stats \in Analytics /\ Unknown \in Counts
  BY DEF GalleryTypes, Analytics, Counts
<1>1. ASSUME RefreshStats
      PROVE  /\ stats' \in Analytics
             /\ stats'.total = stats.total /\ stats'.asOf = stats.asOf
             /\ \/ stats'.answer = stats.answer /\ stats'.servedAt = stats.servedAt
                \/ stats'.answer = Unknown
  <2> DEFINE a == [stats EXCEPT !.doing = "refreshing"]
             b == [a EXCEPT !.failed = FALSE]
             c == [b EXCEPT !.answer = Unknown]
  <2>1. a \in Analytics /\ a.total = stats.total /\ a.asOf = stats.asOf
    BY <1>0 DEF Analytics
  <2> HIDE DEF a
  <2>2. b \in Analytics /\ b.total = stats.total /\ b.asOf = stats.asOf
    BY <2>1 DEF Analytics
  <2> HIDE DEF b
  <2>3. c \in Analytics /\ c.total = stats.total /\ c.asOf = stats.asOf /\ c.answer = Unknown
    BY <1>0, <2>2 DEF Analytics
  <2> HIDE DEF c
  <2>4. stats' = stats \/ stats' = c
    BY <1>1, Zenon DEF RefreshStats, a, b, c
  <2> QED  BY <1>0, <2>3, <2>4
<1>2. CASE ServeStats
  <2> DEFINE n == Cardinality(shelf.wet)
             a == [stats EXCEPT !.answer = n]
             b == [a EXCEPT !.servedAt = shelf.changes]
  <2>1. n \in Counts /\ shelf.changes \in Nat
    <3>1. MaxPieces \in Nat /\ shelf.wet \subseteq 1..MaxPieces
      BY GalleriesAssumption DEF GalleryTypes, Pieces
    <3>2. IsFiniteSet(1..MaxPieces) /\ Cardinality(1..MaxPieces) = MaxPieces
      BY <3>1, FS_Interval
    <3>3. n <= MaxPieces /\ n \in Nat
      BY <3>1, <3>2, FS_Subset, FS_CardinalityType
    <3>4. shelf.changes \in Nat
      BY DEF GalleryTypes
    <3> QED  BY <3>1, <3>3, <3>4 DEF Counts
  <2> HIDE DEF n
  <2>2. a \in Analytics /\ a.total = stats.total /\ a.asOf = stats.asOf /\ a.answer = n
    BY <1>0, <2>1 DEF Analytics
  <2> HIDE DEF a
  <2>3. /\ b \in Analytics /\ b.total = stats.total /\ b.asOf = stats.asOf /\ b.answer = n
        /\ b.servedAt = shelf.changes
    BY <2>1, <2>2 DEF Analytics
  <2> HIDE DEF b
  <2>4. stats' = b /\ UNCHANGED <<shelf, grid, fetches>>
    BY <1>2, Zenon DEF ServeStats, a, b, n
  <2> QED  BY <2>3, <2>4 DEF n
<1>3. CASE DeliverStats
  <2> DEFINE a == [stats EXCEPT !.doing = "idle"]
             b == [a EXCEPT !.total = stats.answer]
             c == [b EXCEPT !.asOf = stats.servedAt]
             d == [a EXCEPT !.failed = TRUE]
  <2>0. stats.answer \in Counts /\ stats.servedAt \in Nat
    BY <1>0 DEF Analytics
  <2>1. /\ a \in Analytics /\ a.total = stats.total /\ a.asOf = stats.asOf /\ a.answer = stats.answer
        /\ a.servedAt = stats.servedAt
    BY <1>0 DEF Analytics
  <2> HIDE DEF a
  <2>2. /\ b \in Analytics /\ b.total = stats.answer /\ b.answer = stats.answer
        /\ b.servedAt = stats.servedAt
    BY <2>0, <2>1 DEF Analytics
  <2> HIDE DEF b
  <2>3. /\ c \in Analytics /\ c.total = stats.answer /\ c.answer = stats.answer
        /\ c.servedAt = stats.servedAt /\ c.asOf = stats.servedAt
    BY <2>0, <2>2 DEF Analytics
  <2>4. /\ d \in Analytics /\ d.total = stats.total /\ d.asOf = stats.asOf /\ d.answer = stats.answer
        /\ d.servedAt = stats.servedAt
    BY <2>1 DEF Analytics
  <2> HIDE DEF c, d
  <2>5. stats' = c \/ stats' = d
    BY <1>3, Zenon DEF DeliverStats, a, b, c, d
  <2> QED  BY <2>3, <2>4, <2>5
<1>4. CASE stats' = stats
  BY <1>0, <1>4
<1>5. CASE Pull
  BY <1>1, <1>4, <1>5 DEF Pull, RefreshAll
<1>6. CASE Retry
  BY <1>1, <1>4, <1>6 DEF Retry
<1>7. CASE Return
  BY <1>1, <1>4, <1>7 DEF Return, RefreshAll
<1>8. CASE AddPiece \/ \E i \in Pieces : RemovePiece(i) \/ WashPiece(i)
  BY <1>4, <1>8, AgesFacts
<1>9. CASE \E c \in Sorts \cup {AnySort} : SelectSort(c)
  BY <1>4, <1>9 DEF SelectSort
<1>10. CASE GridMore \/ Cover
  BY <1>4, <1>10 DEF GridMore, Cover
<1>11. CASE \E f \in fetches : ServeFetch(f) \/ DeliverFetch(f)
  BY <1>4, <1>11 DEF ServeFetch, DeliverFetch
<1>12. CASE ServeWalk \/ StepWalk
  BY <1>4, <1>12 DEF ServeWalk, StepWalk
<1>13. CASE UNCHANGED galleryVars
  BY <1>4, <1>13 DEF galleryVars
<1> QED  BY <1>2, <1>3, <1>5, <1>6, <1>7, <1>8, <1>9, <1>10, <1>11, <1>12, <1>13 DEF GalleryNext

----------------------------------------------------------------------------
\* Where the walk may be.
Walks == [at : {"off", "sent", "served", "lost", "ready"}, from : 0..MaxPieces,
          pages : 0..MaxWalkPages, found : SUBSET Pieces, page : SUBSET Pieces,
          next : 0..MaxPieces, whole : BOOLEAN, stayed : SUBSET Pieces]

\* The walk rests, loses what goes, is served a page or fails, or collects.
LEMMA WalkSteps ==
  ASSUME GalleryTypes, [GalleryNext]_galleryVars
  PROVE  \/ walk' = walk /\ shelf' = shelf
         \/ Ages
         \/ ServeWalk \/ StepWalk
<1>1. CASE AddPiece \/ \E i \in Pieces : RemovePiece(i) \/ WashPiece(i)
  BY <1>1, AgesFacts
<1>2. CASE \/ \E c \in Sorts \cup {AnySort} : SelectSort(c)
           \/ GridMore \/ Pull \/ Retry \/ Cover \/ Return
  BY <1>2 DEF SelectSort, GridMore, Pull, Retry, Cover, Return
<1>3. CASE \E f \in fetches : ServeFetch(f) \/ DeliverFetch(f)
  BY <1>3 DEF ServeFetch, DeliverFetch
<1>4. CASE ServeStats \/ DeliverStats
  BY <1>4 DEF ServeStats, DeliverStats
<1>5. CASE UNCHANGED galleryVars
  BY <1>5 DEF galleryVars
<1> QED  BY <1>1, <1>2, <1>3, <1>4, <1>5 DEF GalleryNext

\* The walk keeps to its types, and knows of what stayed: it is in what was
\* found, or ahead.
LEMMA WalkStep ==
  ASSUME GalleryTypes, WalkInv, [GalleryNext]_galleryVars
  PROVE  walk' \in Walks /\ WalkInv'
<1> DEFINE Open(w) == w.at \in {"sent", "served", "lost"} => w.pages < MaxWalkPages
           SentOk(w) == w.at = "sent" => w.from = 0 \/ \A i \in w.stayed : i \in w.found \/ i < w.from
           ServedOk(w) == w.at = "served" =>
             \A i \in w.stayed : i \in w.found \/ i \in w.page \/ (w.next # 0 /\ i < w.next)
           ReadyOk(w) == w.at = "ready" /\ w.whole => w.stayed \subseteq w.found
<1>0. MaxWalkPages \in Nat /\ MaxPieces \in Nat /\ Pieces \subseteq Nat
  BY GalleriesAssumption DEF Pieces
<1>1. /\ walk \in Walks /\ walk.stayed \subseteq shelf.there /\ shelf.there \subseteq Pieces
      /\ Open(walk) /\ SentOk(walk) /\ ServedOk(walk) /\ ReadyOk(walk)
  BY DEF GalleryTypes, Walks, WalkInv, IndexIsWhole
<1>2. ASSUME walk' \in Walks, walk'.stayed \subseteq shelf'.there,
             Open(walk'), SentOk(walk'), ServedOk(walk'), ReadyOk(walk')
      PROVE  walk' \in Walks /\ WalkInv'
  BY <1>2 DEF WalkInv, IndexIsWhole
<1>3. CASE walk' = walk /\ shelf' = shelf
  <2> HIDE DEF Open, SentOk, ServedOk, ReadyOk
  <2> QED  BY <1>1, <1>2, <1>3
<1>4. CASE Ages
  <2>1. PICK there : walk' = [walk EXCEPT !.stayed = @ \cap there] /\ shelf'.there = there
    BY <1>4 DEF Ages
  <2> DEFINE a == [walk EXCEPT !.stayed = @ \cap there]
  <2>2. walk.stayed \subseteq Pieces
    BY <1>1
  <2>3. a \in Walks /\ a.stayed = walk.stayed \cap there
    BY <1>1, <2>2 DEF Walks
  <2>4. a.at = walk.at /\ a.from = walk.from /\ a.pages = walk.pages /\ a.found = walk.found
        /\ a.page = walk.page /\ a.next = walk.next
    BY <1>1 DEF Walks
  <2>5. a.whole = walk.whole
    BY <1>1 DEF Walks
  <2> HIDE DEF a
  <2>6. Open(a) /\ SentOk(a) /\ ServedOk(a) /\ ReadyOk(a)
    BY <1>1, <2>3, <2>4, <2>5
  <2>7. walk' = a /\ a.stayed \subseteq shelf'.there
    BY <2>1, <2>3 DEF a
  <2> HIDE DEF Open, SentOk, ServedOk, ReadyOk
  <2> QED  BY <1>2, <2>3, <2>6, <2>7
<1>5. CASE ServeWalk
  <2> DEFINE P == Piece(AnySort, walk.from).rows
             N == Piece(AnySort, walk.from).next
             a == [walk EXCEPT !.at = "served"]
             b == [a EXCEPT !.page = P]
             c == [b EXCEPT !.next = N]
             d == [walk EXCEPT !.at = "lost"]
  <2>1. walk.at = "sent" /\ shelf' = shelf /\ (walk' = c \/ walk' = d)
    BY <1>5, Zenon DEF ServeWalk, a, b, c, d, P, N
  <2>2. walk.from \in 0..MaxPieces /\ AnySort \in Filters /\ \A i : Matches(i, AnySort)
    BY <1>1 DEF Walks, Filters, Matches
  <2>3. /\ P \in SUBSET Pieces /\ N \in 0..MaxPieces
        /\ \A i \in shelf.there : (walk.from = 0 \/ i < walk.from) /\ N <= i => i \in P
    BY <2>2, PieceFacts
  <2> HIDE DEF P, N
  <2>4. /\ a \in Walks /\ a.at = "served" /\ a.pages = walk.pages /\ a.found = walk.found
        /\ a.stayed = walk.stayed
    BY <1>1 DEF Walks
  <2> HIDE DEF a
  <2>5. /\ b \in Walks /\ b.at = "served" /\ b.pages = walk.pages /\ b.found = walk.found
        /\ b.stayed = walk.stayed /\ b.page = P
    BY <2>3, <2>4 DEF Walks
  <2> HIDE DEF b
  <2>6. /\ c \in Walks /\ c.at = "served" /\ c.pages = walk.pages /\ c.found = walk.found
        /\ c.stayed = walk.stayed /\ c.page = P /\ c.next = N
    BY <2>3, <2>5 DEF Walks
  <2> HIDE DEF c
  <2>7. d \in Walks /\ d.at = "lost" /\ d.pages = walk.pages /\ d.stayed = walk.stayed
    BY <1>1 DEF Walks
  <2> HIDE DEF d
  <2>8. Open(c) /\ SentOk(c) /\ ReadyOk(c)
    BY <1>1, <2>1, <2>6
  <2>9. ServedOk(c)
    <3>1. SUFFICES ASSUME NEW i \in walk.stayed, i \notin walk.found, i \notin P
                   PROVE  N # 0 /\ i < N
      BY <2>6
    <3>2. i \in shelf.there /\ i \in Nat /\ i # 0 /\ N \in Nat /\ walk.from \in Nat
      BY <1>0, <1>1, <2>2, <2>3 DEF Pieces
    <3>3. walk.from = 0 \/ i < walk.from
      BY <1>1, <2>1, <3>1
    <3>4. ~(N <= i)
      BY <2>3, <3>1, <3>2, <3>3
    <3> QED  BY <3>2, <3>4
  <2>10. Open(d) /\ SentOk(d) /\ ServedOk(d) /\ ReadyOk(d)
    BY <1>1, <2>1, <2>7
  <2>11. walk.stayed \subseteq shelf'.there
    BY <1>1, <2>1
  <2> HIDE DEF Open, SentOk, ServedOk, ReadyOk
  <2> QED  BY <1>2, <2>1, <2>6, <2>7, <2>8, <2>9, <2>10, <2>11
<1>6. CASE StepWalk
  <2> DEFINE last == walk.next = 0 \/ walk.pages + 1 = MaxWalkPages
             at2 == IF last THEN "ready" ELSE "sent"
             whole2 == walk.next = 0 \/ ~last
             a == [walk EXCEPT !.at = "ready"]
             b == [a EXCEPT !.page = {}]
             c == [b EXCEPT !.whole = FALSE]
             d == [walk EXCEPT !.at = at2]
             e == [d EXCEPT !.found = @ \cup walk.page]
             f == [e EXCEPT !.page = {}]
             g == [f EXCEPT !.pages = @ + 1]
             h == [g EXCEPT !.from = walk.next]
             k == [h EXCEPT !.whole = whole2]
  <2>1. walk.at \in {"served", "lost"} /\ shelf' = shelf
    BY <1>6 DEF StepWalk
  <2>2. /\ walk.pages \in Nat /\ walk.pages < MaxWalkPages /\ walk.pages + 1 \in 0..MaxWalkPages
        /\ walk.found \cup walk.page \in SUBSET Pieces /\ walk.next \in 0..MaxPieces
        /\ walk.pages + 1 # MaxWalkPages => walk.pages + 1 < MaxWalkPages
    <3>1. walk.pages \in 0..MaxWalkPages /\ walk.found \subseteq Pieces /\ walk.page \subseteq Pieces
          /\ walk.next \in 0..MaxPieces
      BY <1>1 DEF Walks
    <3>2. walk.pages < MaxWalkPages
      BY <1>1, <2>1
    <3> QED  BY <1>0, <3>1, <3>2
  <2>3. CASE walk.at = "lost"
    <3>1. a \in Walks /\ a.at = "ready" /\ a.stayed = walk.stayed
      BY <1>1 DEF Walks
    <3>2. walk' = c
      BY <1>6, <2>3, Zenon DEF StepWalk, a, b, c
    <3> HIDE DEF a
    <3>3. b \in Walks /\ b.at = "ready" /\ b.stayed = walk.stayed
      BY <3>1 DEF Walks
    <3> HIDE DEF b
    <3>4. c \in Walks /\ c.at = "ready" /\ c.stayed = walk.stayed
      BY <3>3 DEF Walks
    <3>5. c.whole = FALSE
      BY <3>3 DEF Walks
    <3> HIDE DEF c
    <3>6. Open(c) /\ SentOk(c) /\ ServedOk(c) /\ ReadyOk(c)
      BY <3>4, <3>5
    <3>7. walk.stayed \subseteq shelf'.there
      BY <1>1, <2>1
    <3> HIDE DEF Open, SentOk, ServedOk, ReadyOk
    <3> QED  BY <1>2, <3>2, <3>4, <3>6, <3>7
  <2>4. CASE walk.at = "served"
    <3>1. walk' = k
      BY <1>6, <2>4, Zenon DEF StepWalk, d, e, f, g, h, k, at2, whole2, last
    <3>2. at2 \in {"ready", "sent"} /\ whole2 \in BOOLEAN
      OBVIOUS
    <3>3. (at2 = "ready" /\ whole2 => walk.next = 0) /\ (at2 = "sent" => walk.next # 0 /\ walk.pages + 1 < MaxWalkPages)
      BY <2>2
    <3> HIDE DEF at2, whole2
    <3>4. d \in Walks /\ d.at = at2 /\ d.stayed = walk.stayed /\ d.found = walk.found /\ d.pages = walk.pages
      BY <1>1, <3>2 DEF Walks
    <3> HIDE DEF d
    <3>5. e \in Walks /\ e.at = at2 /\ e.stayed = walk.stayed /\ e.found = walk.found \cup walk.page
          /\ e.pages = walk.pages
      BY <2>2, <3>4 DEF Walks
    <3> HIDE DEF e
    <3>6. f \in Walks /\ f.at = at2 /\ f.stayed = walk.stayed /\ f.found = walk.found \cup walk.page
          /\ f.pages = walk.pages
      BY <3>5 DEF Walks
    <3> HIDE DEF f
    <3>7. g \in Walks /\ g.at = at2 /\ g.stayed = walk.stayed /\ g.found = walk.found \cup walk.page
          /\ g.pages = walk.pages + 1
      BY <2>2, <3>6 DEF Walks
    <3> HIDE DEF g
    <3>8. h \in Walks /\ h.at = at2 /\ h.stayed = walk.stayed /\ h.found = walk.found \cup walk.page
          /\ h.pages = walk.pages + 1 /\ h.from = walk.next
      BY <2>2, <3>7 DEF Walks
    <3> HIDE DEF h
    <3>9. k \in Walks /\ k.at = at2 /\ k.stayed = walk.stayed /\ k.found = walk.found \cup walk.page
          /\ k.pages = walk.pages + 1 /\ k.from = walk.next
      BY <3>2, <3>8 DEF Walks
    <3>10. k.whole = whole2
      BY <3>8 DEF Walks
    <3> HIDE DEF k
    <3>11. Open(k) /\ ServedOk(k)
      BY <3>2, <3>3, <3>9
    <3>12. \A i \in walk.stayed : i \in walk.found \/ i \in walk.page \/ (walk.next # 0 /\ i < walk.next)
      BY <1>1, <2>4
    <3>13. SentOk(k)
      BY <3>9, <3>12
    <3>14. ReadyOk(k)
      BY <3>3, <3>9, <3>10, <3>12
    <3>15. walk.stayed \subseteq shelf'.there
      BY <1>1, <2>1
    <3> HIDE DEF Open, SentOk, ServedOk, ReadyOk
    <3> QED  BY <1>2, <3>1, <3>9, <3>11, <3>13, <3>14, <3>15
  <2> QED  BY <2>1, <2>3, <2>4
<1> QED  BY <1>3, <1>4, <1>5, <1>6, WalkSteps

----------------------------------------------------------------------------
(***************************************************************************)
(* The invariant, part by part.                                            *)
(***************************************************************************)

\* The lists start of the types.
LEMMA GalleryTypesInit == GalleryInit => GalleryTypes
<1> SUFFICES ASSUME GalleryInit  PROVE GalleryTypes
  OBVIOUS
<1>0. MaxPieces \in Nat /\ Stock \in 0..MaxPieces /\ MaxWalkPages \in Nat /\ Pieces = 1..MaxPieces
  BY GalleriesAssumption DEF Pieces
<1>1. /\ 1..Stock \in SUBSET Pieces /\ {} \in SUBSET Pieces /\ 0 \in 0..MaxPieces
      /\ Unknown \in Counts /\ AnySort \in Filters
  BY <1>0 DEF Counts, Filters
<1>2. screen \in {"wardrobe", "gallery", "profile", "week"}
  BY DEF GalleryInit
<1>3. /\ shelf \in [made : 0..MaxPieces, there : SUBSET Pieces, wet : SUBSET Pieces, changes : Nat]
      /\ shelf.there = 1..Stock /\ shelf.made = Stock /\ shelf.wet = {}
  <2>1. shelf = [made |-> Stock, there |-> 1..Stock, wet |-> {}, changes |-> 0]
    BY DEF GalleryInit
  <2> QED  BY <1>0, <1>1, <2>1
<1>4. grid \in Grids
  <2>1. grid = [rows |-> <<>>, wet |-> {}, next |-> 0, sort |-> AnySort, doing |-> "loading",
                failed |-> FALSE, n |-> 1, base |-> NotYet]
    BY DEF GalleryInit
  <2> DEFINE none == <<>>
  <2>2. none \in Seq(Pieces)
    OBVIOUS
  <2>3. grid = [rows |-> none, wet |-> {}, next |-> 0, sort |-> AnySort, doing |-> "loading",
                failed |-> FALSE, n |-> 1, base |-> NotYet]
    BY <2>1
  <2> HIDE DEF none
  <2> QED  BY <1>1, <2>2, <2>3 DEF Grids, Doings
<1>5. fetches \subseteq SentFetches \cup ServedFetches \cup LostFetches
  <2>1. Fetch(1, "loading", AnySort, 0) \in SentFetches
    <3>1. "loading" \in Doings /\ 1 \in Nat
      BY DEF Doings
    <3> QED  BY <1>1, <3>1, FetchFacts
  <2>2. fetches \in {{}, {Fetch(1, "loading", AnySort, 0)}}
    BY DEF GalleryInit
  <2> QED  BY <2>1, <2>2
<1>6. stats \in Analytics
  <2>1. \E d \in {"idle", "loading"} :
          stats = [total |-> Unknown, doing |-> d, failed |-> FALSE, answer |-> Unknown,
                   asOf |-> 0, servedAt |-> 0]
    BY DEF GalleryInit
  <2> QED  BY <1>1, <2>1 DEF Analytics
<1>7. walk \in Walks
  <2>1. \E a \in {"sent", "off"} :
          walk = [at |-> a, from |-> 0, pages |-> 0, found |-> {}, page |-> {}, next |-> 0,
                  whole |-> TRUE, stayed |-> shelf.there]
    BY DEF GalleryInit
  <2> QED  BY <1>0, <1>1, <1>3, <2>1 DEF Walks
<1> QED  BY <1>2, <1>3, <1>4, <1>5, <1>6, <1>7 DEF GalleryTypes, Analytics, Walks

\* Every step of the lists keeps their types.
LEMMA GalleryTypesStep ==
  ASSUME GalleryTypes, WalkInv, [GalleryNext]_galleryVars
  PROVE  GalleryTypes'
<1>1. screen' = screen
  BY GridSteps
<1>2. screen' \in {"wardrobe", "gallery", "profile", "week"}
  BY <1>1 DEF GalleryTypes
<1>3. /\ shelf' \in [made : 0..MaxPieces, there : SUBSET Pieces, wet : SUBSET Pieces, changes : Nat]
      /\ shelf'.there \subseteq 1..shelf'.made /\ shelf'.wet \subseteq shelf'.there
  <2>1. CASE shelf' = shelf
    BY <2>1 DEF GalleryTypes
  <2>2. CASE Ages
    BY <2>2 DEF Ages
  <2> QED  BY <2>1, <2>2, GridSteps
<1>4. grid' \in Grids /\ fetches' \subseteq SentFetches \cup ServedFetches \cup LostFetches
  <2>0. grid \in Grids /\ fetches \subseteq SentFetches \cup ServedFetches \cup LostFetches
    BY DEF GalleryTypes
  <2>1. CASE UNCHANGED <<grid, fetches>>
    BY <2>0, <2>1
  <2>2. CASE GridAsks
    BY <2>0, <2>2, GridAskFacts
  <2>3. ASSUME NEW f \in fetches, ServeFetch(f)
        PROVE  grid' \in Grids /\ fetches' \subseteq SentFetches \cup ServedFetches \cup LostFetches
    BY <2>0, <2>3, ServeFacts
  <2>4. ASSUME NEW f \in fetches, DeliverFetch(f)
        PROVE  grid' \in Grids /\ fetches' \subseteq SentFetches \cup ServedFetches \cup LostFetches
    <3>1. Failed(grid) \in Grids /\ (f \in ServedFetches => Filled(grid, f) \in Grids)
      BY <2>0, FailedFacts, FilledFacts
    <3> QED  BY <2>0, <2>4, <3>1, DeliverFacts
  <2> QED  BY <2>1, <2>2, <2>3, <2>4, GridSteps
<1>5. stats' \in Analytics /\ walk' \in Walks
  BY StatsSteps, WalkStep
<1> QED  BY <1>2, <1>3, <1>4, <1>5 DEF GalleryTypes, Analytics, Walks

\* Requests keep to their numbers.
LEMMA FetchStep ==
  ASSUME GalleryTypes, FetchInv, [GalleryNext]_galleryVars
  PROVE  FetchInv'
<1>0. grid \in Grids /\ grid.n \in Nat /\ \A f \in fetches : f.n \in Nat
  BY DEF GalleryTypes, Grids, SentFetches, ServedFetches, LostFetches
<1>1. CASE UNCHANGED <<grid, fetches>>
  BY <1>1 DEF FetchInv
<1>2. CASE GridAsks
  <2>1. PICK f \in SentFetches :
           /\ fetches' = fetches \cup {f} /\ f.at = "sent" /\ f.n = grid.n + 1
           /\ grid'.n = f.n /\ grid'.doing = f.kind /\ grid'.sort = f.sort
           /\ f.kind # "loadingMore" => f.from = 0
    BY <1>2, GridAskFacts
  <2>2. \A g \in fetches : g.n < grid'.n
    BY <1>0, <2>1 DEF FetchInv
  <2>3. \A g, h \in fetches' : g.n = h.n => g = h
    BY <1>0, <2>1, <2>2 DEF FetchInv
  <2>4. ASSUME NEW g \in fetches'
        PROVE  /\ g.n <= grid'.n
               /\ g.n = grid'.n => g.kind = grid'.doing /\ (g.at # "lost" => g.sort = grid'.sort)
               /\ g.at = "sent" /\ g.kind # "loadingMore" => g.from = 0
    <3>1. CASE g = f
      BY <1>0, <2>1, <3>1
    <3>2. CASE g \in fetches
      <4>1. g.n < grid'.n /\ g.n \in Nat /\ grid'.n \in Nat
        BY <1>0, <2>1, <2>2, <3>2
      <4> QED  BY <3>2, <4>1 DEF FetchInv
    <3> QED  BY <2>1, <3>1, <3>2
  <2> QED  BY <2>3, <2>4 DEF FetchInv
<1>3. ASSUME NEW f \in fetches, ServeFetch(f)  PROVE FetchInv'
  <2>1. grid' = grid /\ \E g : /\ fetches' = (fetches \ {f}) \cup {g} /\ g.n = f.n /\ g.kind = f.kind
                               /\ g.at \in {"served", "lost"} /\ (g.at # "lost" => g.sort = f.sort)
                               /\ f.at = "sent"
    BY <1>3, ServeFacts
  <2>2. PICK g : /\ fetches' = (fetches \ {f}) \cup {g} /\ g.n = f.n /\ g.kind = f.kind
                 /\ g.at \in {"served", "lost"} /\ (g.at # "lost" => g.sort = f.sort)
    BY <2>1
  <2>3. f.at # "lost" /\ \A h \in fetches : h # f => h.n # f.n
    BY <2>1 DEF FetchInv
  <2>4. \A h, k \in fetches' : h.n = k.n => h = k
    BY <2>2, <2>3 DEF FetchInv
  <2>5. ASSUME NEW h \in fetches'
        PROVE  /\ h.n <= grid.n
               /\ h.n = grid.n => h.kind = grid.doing /\ (h.at # "lost" => h.sort = grid.sort)
               /\ h.at = "sent" /\ h.kind # "loadingMore" => h.from = 0
    <3>1. CASE h = g
      BY <2>2, <2>3, <3>1 DEF FetchInv
    <3>2. CASE h \in fetches
      BY <3>2 DEF FetchInv
    <3> QED  BY <2>2, <3>1, <3>2
  <2> QED  BY <2>1, <2>4, <2>5 DEF FetchInv
<1>4. ASSUME NEW f \in fetches, DeliverFetch(f)  PROVE FetchInv'
  <2>1. fetches' = fetches \ {f} /\ \A g \in fetches' : g.n # f.n
    BY <1>4, DeliverFacts DEF FetchInv
  <2>2. grid'.n = grid.n /\ grid'.sort = grid.sort /\ (f.n # grid.n => grid'.doing = grid.doing)
    <3>1. /\ Failed(grid).n = grid.n /\ Failed(grid).sort = grid.sort
          /\ f \in ServedFetches => Filled(grid, f).n = grid.n /\ Filled(grid, f).sort = grid.sort
      BY <1>0, FailedFacts, FilledFacts
    <3> QED  BY <1>4, <3>1, DeliverFacts
  <2>3. ASSUME NEW g \in fetches'
        PROVE  /\ g.n <= grid'.n
               /\ g.n = grid'.n => g.kind = grid'.doing /\ (g.at # "lost" => g.sort = grid'.sort)
               /\ g.at = "sent" /\ g.kind # "loadingMore" => g.from = 0
    BY <2>1, <2>2 DEF FetchInv
  <2>4. \A g, h \in fetches' : g.n = h.n => g = h
    BY <2>1 DEF FetchInv
  <2> QED  BY <2>3, <2>4 DEF FetchInv
<1> QED  BY <1>1, <1>2, <1>3, <1>4, GridSteps

\* A page stays what it was as the shelf changes.
LEMMA PageAges ==
  ASSUME GalleryTypes, Ages, NEW f \in ServedFetches, PageServed(f)
  PROVE  PageServed(f)'
<1>1. /\ shelf.made \in Nat /\ shelf'.made \in Nat /\ shelf.made <= shelf'.made
      /\ \A i \in shelf'.there : i \in Nat /\ (i \in shelf.there \/ shelf.made < i)
  BY SMTT(30), GalleriesAssumption DEF GalleryTypes, Ages, Pieces
<1>2. f.base.made \in Nat /\ f.rows \subseteq Pieces /\ Pieces \subseteq Nat
  BY GalleriesAssumption DEF ServedFetches, Snapshots, Pieces
<1>3. \A i \in f.rows : i <= shelf'.made /\ Matches(i, f.sort) /\ f.next <= i
  <2> SUFFICES ASSUME NEW i \in f.rows
               PROVE  i <= shelf'.made /\ Matches(i, f.sort) /\ f.next <= i
    OBVIOUS
  <2>1. i \in Nat /\ i <= shelf.made /\ Matches(i, f.sort) /\ f.next <= i
    BY <1>2 DEF PageServed
  <2> QED  BY <1>1, <2>1
<1>4. f.base.made <= shelf.made /\ f.base.made <= shelf'.made
  BY <1>1, <1>2 DEF PageServed
<1>5. \A i \in shelf'.there : i <= f.base.made => i \in shelf.there
  BY <1>1, <1>2, <1>4
<1>6. f.kind # "loadingMore" =>
        \A i \in shelf'.there : Matches(i, f.sort) /\ i <= f.base.made /\ i >= f.next => i \in f.rows
  BY <1>5 DEF PageServed
<1>7. f.next # 0 => f.next \in f.rows
  BY DEF PageServed
<1> QED  BY <1>3, <1>4, <1>6, <1>7 DEF PageServed, Matches

\* What a request is served is such a page.
LEMMA PageOfServed ==
  ASSUME GalleryTypes, FetchInv, NEW f \in fetches, ServeFetch(f), NEW g, g = Served(f)
  PROVE  PageServed(g)'
<1> DEFINE P == Piece(f.sort, f.from).rows
           N == Piece(f.sort, f.from).next
<1>1. /\ f \in SentFetches /\ f.at = "sent" /\ g.kind = f.kind /\ g.sort = f.sort
      /\ g.rows = P /\ g.next = N /\ g.base.made = shelf.made /\ shelf' = shelf
  <2>1. shelf' = shelf
    BY DEF ServeFetch
  <2>2. Served(f).kind = f.kind /\ Served(f).sort = f.sort /\ Served(f).rows = P
        /\ Served(f).next = N /\ Served(f).base = Snapshot
    BY DEF Served
  <2>3. Snapshot.made = shelf.made
    BY DEF Snapshot
  <2>4. f \in SentFetches /\ f.at = "sent"
    BY ServeFacts
  <2> QED  BY <2>1, <2>2, <2>3, <2>4
<1>2. f.sort \in Filters /\ f.from \in 0..MaxPieces
  BY <1>1 DEF SentFetches
<1>3. /\ \A i \in P : i \in shelf.there /\ Matches(i, f.sort) /\ N <= i
      /\ N # 0 => N \in P
      /\ \A i \in shelf.there : Matches(i, f.sort) /\ (f.from = 0 \/ i < f.from) /\ N <= i => i \in P
  BY <1>2, PieceFacts
<1>4. f.kind # "loadingMore" => f.from = 0
  BY <1>1 DEF FetchInv
<1>5. N \in Nat /\ shelf.made \in Nat /\ \A i \in shelf.there : i \in Nat /\ i <= shelf.made
  <2>1. N \in 0..MaxPieces /\ MaxPieces \in Nat
    BY <1>2, PieceFacts, GalleriesAssumption
  <2>2. shelf.made \in 0..MaxPieces /\ shelf.there \subseteq 1..shelf.made
    BY DEF GalleryTypes
  <2> QED  BY <2>1, <2>2
<1> HIDE DEF P, N
<1>6. \A i \in g.rows : i <= shelf'.made /\ Matches(i, g.sort) /\ g.next <= i
  BY <1>1, <1>3, <1>5
<1>7. g.base.made <= shelf'.made
  BY <1>1, <1>5
<1>8. g.kind # "loadingMore" =>
        \A i \in shelf'.there : Matches(i, g.sort) /\ i <= g.base.made /\ i >= g.next => i \in g.rows
  BY <1>1, <1>3, <1>4, <1>5
<1>9. g.next # 0 => g.next \in g.rows
  BY <1>1, <1>3
<1> QED  BY <1>6, <1>7, <1>8, <1>9 DEF PageServed, Matches

\* Pages served stay pages.
LEMMA ServedStep ==
  ASSUME GalleryTypes, FetchInv, ServedInv, [GalleryNext]_galleryVars
  PROVE  ServedInv'
<1>0. \A f \in fetches : f.at = "served" => f \in ServedFetches
  BY DEF GalleryTypes, SentFetches, ServedFetches, LostFetches
<1>1. ASSUME NEW f \in ServedFetches, PageServed(f), shelf' = shelf  PROVE PageServed(f)'
  BY <1>1 DEF PageServed, Matches
<1>2. CASE UNCHANGED <<shelf, grid, fetches>>
  <2> SUFFICES ASSUME NEW f \in fetches', f.at = "served"  PROVE PageServed(f)'
    BY DEF ServedInv
  <2> QED  BY <1>0, <1>1, <1>2 DEF ServedInv
<1>3. CASE Ages /\ UNCHANGED <<grid, fetches>>
  <2> SUFFICES ASSUME NEW f \in fetches', f.at = "served"  PROVE PageServed(f)'
    BY DEF ServedInv
  <2>1. f \in ServedFetches /\ PageServed(f)
    BY <1>0, <1>3 DEF ServedInv
  <2> QED  BY <1>3, <2>1, PageAges
<1>4. CASE shelf' = shelf /\ GridAsks
  <2> SUFFICES ASSUME NEW f \in fetches', f.at = "served"  PROVE PageServed(f)'
    BY DEF ServedInv
  <2>1. f \in fetches
    BY <1>4, GridAskFacts
  <2> QED  BY <1>0, <1>1, <1>4, <2>1 DEF ServedInv
<1>5. ASSUME shelf' = shelf, NEW f \in fetches, ServeFetch(f)  PROVE ServedInv'
  <2> SUFFICES ASSUME NEW g \in fetches', g.at = "served"  PROVE PageServed(g)'
    BY DEF ServedInv
  <2>1. g \in fetches \/ g = Served(f)
    BY <1>5, ServeFacts
  <2>2. CASE g \in fetches
    BY <1>0, <1>1, <1>5, <2>2 DEF ServedInv
  <2>3. CASE g = Served(f)
    BY <1>5, <2>3, PageOfServed
  <2> QED  BY <2>1, <2>2, <2>3
<1>6. ASSUME shelf' = shelf, NEW f \in fetches, DeliverFetch(f)  PROVE ServedInv'
  <2> SUFFICES ASSUME NEW g \in fetches', g.at = "served"  PROVE PageServed(g)'
    BY DEF ServedInv
  <2>1. g \in fetches
    BY <1>6, DeliverFacts
  <2> QED  BY <1>0, <1>1, <1>6, <2>1 DEF ServedInv
<1> QED  BY <1>2, <1>3, <1>4, <1>5, <1>6, GridSteps

\* The newest next page stays the next page.
LEMMA NextStep ==
  ASSUME GalleryTypes, FetchInv, NextInv, GridInv, [GalleryNext]_galleryVars
  PROVE  NextInv'
<1>0. /\ grid \in Grids /\ grid.n \in Nat /\ grid.next \in 0..MaxPieces /\ MaxPieces \in Nat
      /\ \A f \in fetches : f.n \in Nat /\ f.n <= grid.n
  BY GalleriesAssumption
     DEF GalleryTypes, Grids, SentFetches, ServedFetches, LostFetches, FetchInv
<1>1. CASE UNCHANGED <<shelf, grid, fetches>>
  BY <1>1 DEF NextInv, NextPage, Matches
<1>2. CASE Ages /\ UNCHANGED <<grid, fetches>>
  <2> SUFFICES ASSUME NEW f \in fetches', f.n = grid.n, f.kind = "loadingMore"  PROVE NextPage(f)'
    BY <1>2 DEF NextInv
  <2>1. NextPage(f) /\ f \in fetches
    BY <1>2 DEF NextInv
  <2>2. grid.next \in Nat /\ grid.next <= shelf.made /\ shelf.made \in Nat
    <3>1. grid.next \in Range(grid.rows) /\ grid.next \in Nat
      BY <1>0, <2>1 DEF GridInv, NextPage
    <3> QED  BY <2>1, <3>1, GalleriesAssumption DEF GridInv, NextPage, GalleryTypes
  <2>3. \A i \in shelf'.there : i \in Nat /\ (i \in shelf.there \/ shelf.made < i)
    BY <1>2, GalleriesAssumption DEF Ages, Pieces
  <2>4. \A i \in shelf'.there : i < grid.next => i \in shelf.there
    BY <2>2, <2>3
  <2> QED  BY <1>2, <2>1, <2>4 DEF NextPage, Matches
<1>3. CASE shelf' = shelf /\ GridAsks
  <2>1. PICK f \in SentFetches :
           /\ fetches' = fetches \cup {f} /\ f.at = "sent" /\ f.n = grid.n + 1
           /\ grid'.n = f.n
           /\ f.kind = "loadingMore" => /\ grid'.next = grid.next /\ grid'.base = grid.base
                                        /\ f.from = grid.next /\ grid.next # 0
    BY <1>3, GridAskFacts
  <2>2. \A g \in fetches : g.n # grid'.n
    BY <1>0, <2>1
  <2> SUFFICES ASSUME f.kind = "loadingMore"  PROVE NextPage(f)'
    BY <2>1, <2>2 DEF NextInv
  <2>3. grid.base.loaded
    BY <2>1 DEF GridInv
  <2>4. grid'.base.loaded /\ grid'.next # 0 /\ f.from = grid'.next /\ f.at # "served"
    BY <2>1, <2>3
  <2> QED  BY <2>4 DEF NextPage
<1>4. ASSUME shelf' = shelf, NEW f \in fetches, ServeFetch(f)  PROVE NextInv'
  <2> SUFFICES ASSUME NEW g \in fetches', g.n = grid.n, g.kind = "loadingMore"  PROVE NextPage(g)'
    BY <1>4, ServeFacts DEF NextInv
  <2>1. grid' = grid /\ f \in SentFetches /\ f.at = "sent"
    BY <1>4, ServeFacts
  <2>2. CASE g \in fetches
    BY <1>4, <2>1, <2>2 DEF NextInv, NextPage, Matches
  <2>3. CASE g \notin fetches
    <3>1. /\ g.n = f.n /\ g.kind = f.kind /\ g.at \in {"served", "lost"}
          /\ g.at = "served" => /\ g.sort = f.sort /\ g.rows = Piece(f.sort, f.from).rows
                                /\ g.next = Piece(f.sort, f.from).next
      BY <1>4, <2>3, ServeFacts, ZenonT(40)
    <3>2. NextPage(f)
      BY <3>1 DEF NextInv
    <3>3. f.sort \in Filters /\ f.from \in 0..MaxPieces
      BY <2>1 DEF SentFetches
    <3>4. f.from = grid.next /\ grid.base.loaded /\ grid.next # 0
      BY <2>1, <3>2 DEF NextPage
    <3>5. /\ \A i \in Piece(f.sort, f.from).rows : f.from # 0 => i < f.from
          /\ \A i \in shelf.there :
               Matches(i, f.sort) /\ (f.from = 0 \/ i < f.from) /\ Piece(f.sort, f.from).next <= i
                 => i \in Piece(f.sort, f.from).rows
      BY <3>3, PieceFacts
    <3>6. Piece(f.sort, f.from).next \in Nat /\ \A i \in shelf.there : i \in Nat
      BY <1>0, <3>3, PieceFacts DEF GalleryTypes, Pieces
    <3>7. g.at = "served" =>
            /\ \A i \in g.rows : i < grid.next
            /\ \A i \in shelf.there : Matches(i, g.sort) /\ i < grid.next /\ i >= g.next => i \in g.rows
      BY <3>1, <3>4, <3>5, <3>6
    <3> QED  BY <1>4, <2>1, <3>1, <3>4, <3>7 DEF NextPage, Matches
  <2> QED  BY <2>2, <2>3
<1>5. ASSUME shelf' = shelf, NEW f \in fetches, DeliverFetch(f)  PROVE NextInv'
  <2>1. /\ fetches' = fetches \ {f}
        /\ f.n # grid.n => grid' = grid
        /\ f.n = grid.n => grid'.n = grid.n
    <3>1. Failed(grid).n = grid.n /\ (f \in ServedFetches => Filled(grid, f).n = grid.n)
      BY <1>0, FailedFacts, FilledFacts
    <3> QED  BY <1>5, <3>1, DeliverFacts
  <2>2. CASE f.n = grid.n
    <3>1. \A g \in fetches' : g.n # grid'.n
      BY <2>1, <2>2 DEF FetchInv
    <3> QED  BY <3>1 DEF NextInv
  <2>3. CASE f.n # grid.n
    BY <1>5, <2>1, <2>3 DEF NextInv, NextPage, Matches
  <2> QED  BY <2>2, <2>3
<1> QED  BY <1>1, <1>2, <1>3, <1>4, <1>5, GridSteps

\* Rows that all stand above a page, with the page behind them: newest first
\* again, and no row more or less.
LEMMA RowsAppended ==
  ASSUME NEW s \in Seq(Pieces), NEW R \in SUBSET Pieces,
         \A j, k \in DOMAIN s : j < k => s[j] > s[k],
         \A i \in Range(s), r \in R : i > r
  PROVE  /\ \A j, k \in DOMAIN (s \o NewestFirst(R)) :
              j < k => (s \o NewestFirst(R))[j] > (s \o NewestFirst(R))[k]
         /\ Range(s \o NewestFirst(R)) = Range(s) \cup R
<1> DEFINE t == NewestFirst(R)
           c == s \o t
<1>0. Pieces \subseteq Nat /\ IsFiniteSet(R) /\ R \in SUBSET Nat /\ R \in SUBSET Int
  <2>1. MaxPieces \in Nat /\ Pieces = 1..MaxPieces /\ Pieces \subseteq Nat
    BY GalleriesAssumption DEF Pieces
  <2>2. IsFiniteSet(Pieces)
    BY <2>1, FS_Interval
  <2>3. IsFiniteSet(R)
    BY <2>2, FS_Subset
  <2>4. R \subseteq Nat /\ R \subseteq Int
    BY <2>1
  <2> QED  BY <2>1, <2>3, <2>4
<1>1. /\ t \in Seq(R) /\ Len(t) \in Nat /\ DOMAIN t = 1..Len(t)
      /\ \A p \in R : \E k \in 1..Len(t) : t[k] = p
      /\ \A j, k \in 1..Len(t) : j < k => t[k] < t[j]
  BY <1>0, NewestFirstOrders
<1> HIDE DEF t
<1>2. \A k \in 1..Len(t) : t[k] \in R
  BY <1>1
<1>3. /\ Len(s) \in Nat /\ DOMAIN s = 1..Len(s) /\ \A k \in 1..Len(s) : s[k] \in Pieces
  OBVIOUS
<1>4. t \in Seq(Pieces)
  BY <1>1
<1>5. /\ DOMAIN c = 1..(Len(s) + Len(t))
      /\ \A i \in 1..Len(s) : c[i] = s[i]
      /\ \A i \in (Len(s) + 1)..(Len(s) + Len(t)) : c[i] = t[i - Len(s)]
  BY <1>1, <1>3, <1>4
<1> HIDE DEF c
<1>6. ASSUME NEW i \in DOMAIN c
      PROVE  \/ i \in 1..Len(s) /\ c[i] = s[i] /\ c[i] \in Range(s)
             \/ i - Len(s) \in 1..Len(t) /\ c[i] = t[i - Len(s)] /\ c[i] \in R /\ i > Len(s)
  <2>1. i \in Nat /\ (i \in 1..Len(s) \/ i \in (Len(s) + 1)..(Len(s) + Len(t)))
    BY <1>1, <1>3, <1>5
  <2>2. CASE i \in 1..Len(s)
    BY <1>3, <1>5, <2>2 DEF Range
  <2>3. CASE i \in (Len(s) + 1)..(Len(s) + Len(t))
    <3>1. i - Len(s) \in 1..Len(t) /\ i > Len(s)
      BY <1>1, <1>3, <2>3
    <3>2. c[i] = t[i - Len(s)]
      BY <1>5, <2>3
    <3> QED  BY <1>2, <3>1, <3>2
  <2> QED  BY <2>1, <2>2, <2>3
<1>7. ASSUME NEW j \in DOMAIN c, NEW k \in DOMAIN c, j < k  PROVE c[j] > c[k]
  <2>0. j \in Int /\ k \in Int
    BY <1>1, <1>3, <1>5
  <2>1. CASE j \in 1..Len(s) /\ c[j] = s[j] /\ c[j] \in Range(s)
    <3>1. CASE k \in 1..Len(s) /\ c[k] = s[k]
      BY <1>3, <1>7, <2>1, <3>1
    <3>2. CASE c[k] \in R
      BY <2>1, <3>2
    <3> QED  BY <1>6, <3>1, <3>2
  <2>2. CASE j - Len(s) \in 1..Len(t) /\ c[j] = t[j - Len(s)] /\ j > Len(s)
    <3>1. k - Len(s) \in 1..Len(t) /\ c[k] = t[k - Len(s)]
      <4>1. ~(k \in 1..Len(s))
        BY <1>3, <1>7, <2>0, <2>2
      <4> QED  BY <1>6, <4>1
    <3> DEFINE a == j - Len(s)
               b == k - Len(s)
    <3>2. a \in 1..Len(t) /\ b \in 1..Len(t) /\ a < b
      BY <1>3, <1>7, <2>0, <2>2, <3>1
    <3> HIDE DEF a, b
    <3>3. t[b] < t[a] /\ t[a] \in Int /\ t[b] \in Int
      BY <1>0, <1>1, <1>2, <3>2
    <3>4. c[j] = t[a] /\ c[k] = t[b]
      BY <2>2, <3>1 DEF a, b
    <3> QED  BY <3>3, <3>4
  <2> QED  BY <1>6, <2>1, <2>2
<1>8. Range(c) = Range(s) \cup R
  <2>1. \A x \in Range(c) : x \in Range(s) \cup R
    BY <1>6 DEF Range
  <2>2. ASSUME NEW x \in Range(s)  PROVE x \in Range(c)
    <3>1. PICK i \in 1..Len(s) : x = s[i]
      BY <1>3 DEF Range
    <3>2. i \in DOMAIN c /\ c[i] = x
      BY <1>1, <1>3, <1>5, <3>1
    <3> QED  BY <3>2 DEF Range
  <2>3. ASSUME NEW x \in R  PROVE x \in Range(c)
    <3>1. PICK k \in 1..Len(t) : t[k] = x
      BY <1>1
    <3> DEFINE i == k + Len(s)
    <3>2. i \in (Len(s) + 1)..(Len(s) + Len(t)) /\ i - Len(s) = k /\ i \in DOMAIN c
      BY <1>1, <1>3, <1>5
    <3>3. c[i] = t[i - Len(s)]
      BY <1>5, <3>2
    <3> HIDE DEF i
    <3> QED  BY <3>1, <3>2, <3>3 DEF Range
  <2> QED  BY <2>1, <2>2, <2>3
<1> QED  BY <1>7, <1>8 DEF c, t

\* The list stays gapless.
LEMMA GridStep ==
  ASSUME GalleryTypes, FetchInv, ServedInv, NextInv, GridInv, [GalleryNext]_galleryVars
  PROVE  GridInv'
<1>0. /\ grid \in Grids /\ grid.rows \in Seq(Pieces) /\ grid.next \in Nat
      /\ MaxPieces \in Nat /\ Pieces \subseteq Nat /\ shelf.made \in Nat
      /\ shelf.there \subseteq Nat /\ Range(grid.rows) \subseteq Nat
  <2>1. grid \in Grids /\ shelf.made \in 0..MaxPieces /\ shelf.there \subseteq Pieces
    BY DEF GalleryTypes
  <2>2. MaxPieces \in Nat /\ Pieces \subseteq Nat
    BY GalleriesAssumption DEF Pieces
  <2>3. grid.rows \in Seq(Pieces) /\ grid.next \in 0..MaxPieces
    BY <2>1 DEF Grids
  <2>4. Range(grid.rows) \subseteq Pieces
    BY <2>3 DEF Range
  <2>5. Range(grid.rows) \subseteq Nat /\ shelf.there \subseteq Nat
    BY <2>1, <2>2, <2>4
  <2>6. shelf.made \in Nat /\ grid.next \in Nat
    BY <2>1, <2>2, <2>3
  <2> QED  BY <2>1, <2>2, <2>3, <2>5, <2>6
<1>1. CASE UNCHANGED <<shelf, grid, fetches>>
  BY <1>1 DEF GridInv, GridIsGapless, Matches
<1>2. CASE Ages /\ UNCHANGED <<grid, fetches>>
  <2>1. CASE grid.base.loaded
    <3>1. grid.base.made \in Nat
      <4>1. grid.base \in {NotYet} \cup Snapshots
        BY <1>0 DEF Grids
      <4>2. grid.base # NotYet
        BY <2>1 DEF NotYet
      <4>3. grid.base \in Snapshots
        BY <4>1, <4>2
      <4> QED  BY <4>3 DEF Snapshots
    <3>2. /\ shelf'.made \in Nat /\ shelf.made <= shelf'.made
          /\ \A i \in shelf'.there : i \in Nat /\ (i \in shelf.there \/ shelf.made < i)
      BY <1>0, <1>2 DEF Ages
    <3>3. grid.base.made <= shelf.made
      BY <2>1 DEF GridInv
    <3>4. \A i \in shelf'.there : i <= grid.base.made => i \in shelf.there
      BY <1>0, <3>1, <3>2, <3>3
    <3>5. GridIsGapless'
      BY <1>2, <2>1, <3>4 DEF GridInv, GridIsGapless, Matches
    <3>6. \A i \in Range(grid.rows) : i <= shelf'.made /\ grid.next <= i
      <4> SUFFICES ASSUME NEW i \in Range(grid.rows)  PROVE i <= shelf'.made /\ grid.next <= i
        OBVIOUS
      <4>1. i \in Nat /\ i <= shelf.made /\ grid.next <= i
        BY <1>0, <2>1 DEF GridInv
      <4> QED  BY <1>0, <3>2, <4>1
    <3>7. grid.base.made <= shelf'.made
      BY <1>0, <3>1, <3>2, <3>3
    <3> QED  BY <1>2, <2>1, <3>5, <3>6, <3>7 DEF GridInv
  <2>2. CASE ~grid.base.loaded
    BY <1>2, <2>2 DEF GridInv
  <2> QED  BY <2>1, <2>2
<1>3. CASE shelf' = shelf /\ GridAsks
  <2>1. PICK f \in SentFetches :
           /\ grid'.sort = f.sort
           /\ \/ grid'.next = 0 /\ grid'.base = NotYet
              \/ /\ grid'.rows = grid.rows /\ grid'.next = grid.next
                 /\ grid'.base = grid.base /\ f.sort = grid.sort
    BY <1>3, GridAskFacts
  <2>2. CASE grid'.next = 0 /\ grid'.base = NotYet
    BY <2>2 DEF GridInv, NotYet
  <2>3. CASE /\ grid'.rows = grid.rows /\ grid'.next = grid.next
             /\ grid'.base = grid.base /\ grid'.sort = grid.sort
    BY <1>3, <2>3 DEF GridInv, GridIsGapless, Matches
  <2> QED  BY <2>1, <2>2, <2>3
<1>4. ASSUME shelf' = shelf, NEW f \in fetches, ServeFetch(f)  PROVE GridInv'
  <2>1. grid' = grid
    BY <1>4, ServeFacts
  <2> QED  BY <1>4, <2>1 DEF GridInv, GridIsGapless, Matches
<1>5. ASSUME shelf' = shelf, NEW f \in fetches, DeliverFetch(f)  PROVE GridInv'
  <2>1. CASE grid' = grid
    BY <1>5, <2>1 DEF GridInv, GridIsGapless, Matches
  <2>2. CASE grid' = Failed(grid)
    <3>1. /\ grid'.rows = grid.rows /\ grid'.next = grid.next
          /\ grid'.base = grid.base /\ grid'.sort = grid.sort
      BY <1>0, <2>2, FailedFacts
    <3> QED  BY <1>5, <3>1 DEF GridInv, GridIsGapless, Matches
  <2>3. CASE f.n = grid.n /\ f \in ServedFetches /\ f.at = "served" /\ grid' = Filled(grid, f)
    <3> DEFINE more == f.kind = "loadingMore"
               s == IF more THEN grid.rows ELSE <<>>
    <3>1. /\ grid'.sort = grid.sort /\ grid'.next = f.next
          /\ grid'.rows = s \o NewestFirst(f.rows)
          /\ grid'.base = IF more THEN grid.base ELSE f.base
      BY <1>0, <2>3, FilledFacts
    <3>2. f.sort = grid.sort /\ PageServed(f) /\ (more => NextPage(f))
      BY <2>3 DEF FetchInv, ServedInv, NextInv
    <3>3. /\ f.rows \subseteq Pieces /\ f.next \in Nat /\ f.rows \subseteq Nat
          /\ f.base.loaded /\ f.base.made \in Nat
      <4>1. f.rows \subseteq Pieces /\ f.next \in 0..MaxPieces /\ f.base \in Snapshots
        BY <2>3 DEF ServedFetches
      <4>2. f.base.loaded
        BY <4>1 DEF Snapshots
      <4>3. f.base.made \in Nat
        BY <4>1 DEF Snapshots
      <4>4. f.next \in Nat
        BY <1>0, <4>1
      <4>5. f.rows \subseteq Nat
        BY <1>0, <4>1
      <4> QED  BY <4>1, <4>2, <4>3, <4>4, <4>5
    <3>4. CASE ~more
      <4>1. /\ \A j, k \in DOMAIN grid'.rows : j < k => grid'.rows[j] > grid'.rows[k]
            /\ Range(grid'.rows) = f.rows
        <5> DEFINE none == <<>>
        <5>1. none \in Seq(Pieces) /\ DOMAIN none = {} /\ Range(none) = {}
          BY DEF Range
        <5>2. grid'.rows = none \o NewestFirst(f.rows)
          BY <3>1, <3>4
        <5> HIDE DEF none
        <5>3. /\ \A j, k \in DOMAIN none : j < k => none[j] > none[k]
              /\ \A i \in Range(none), r \in f.rows : i > r
          BY <5>1
        <5>4. /\ \A j, k \in DOMAIN (none \o NewestFirst(f.rows)) :
                   j < k => (none \o NewestFirst(f.rows))[j] > (none \o NewestFirst(f.rows))[k]
              /\ Range(none \o NewestFirst(f.rows)) = Range(none) \cup f.rows
          BY <3>3, <5>1, <5>3, RowsAppended
        <5> QED  BY <5>1, <5>2, <5>4
      <4>2. grid'.base = f.base /\ grid'.base.loaded
        BY <3>1, <3>3, <3>4
      <4>3. GridIsGapless'
        BY <1>5, <3>1, <3>2, <3>4, <4>1, <4>2 DEF GridIsGapless, PageServed, Matches
      <4>4. /\ \A i \in Range(grid'.rows) : i <= shelf'.made /\ grid'.next <= i
            /\ grid'.next # 0 => grid'.next \in Range(grid'.rows)
            /\ grid'.base.made <= shelf'.made
        BY <1>5, <3>1, <3>2, <4>1, <4>2 DEF PageServed
      <4> QED  BY <4>2, <4>3, <4>4 DEF GridInv
    <3>5. CASE more
      <4>0. /\ grid.base.loaded /\ grid.next # 0
            /\ \A i \in f.rows : i < grid.next
            /\ \A i \in shelf.there : Matches(i, f.sort) /\ i < grid.next /\ i >= f.next => i \in f.rows
        BY <2>3, <3>2, <3>5 DEF NextPage
      <4>1. /\ \A j, k \in DOMAIN grid.rows : j < k => grid.rows[j] > grid.rows[k]
            /\ \A i \in Range(grid.rows) : i <= shelf.made /\ grid.next <= i
            /\ grid.next \in Range(grid.rows) /\ grid.base.made <= shelf.made
            /\ \A i \in Range(grid.rows) : Matches(i, grid.sort)
            /\ \A i \in shelf.there : Matches(i, grid.sort) /\ i <= grid.base.made /\ i >= grid.next
                 => i \in Range(grid.rows)
        BY <4>0 DEF GridInv, GridIsGapless
      <4>2. \A i \in Range(grid.rows), r \in f.rows : i > r
        <5> SUFFICES ASSUME NEW i \in Range(grid.rows), NEW r \in f.rows  PROVE i > r
          OBVIOUS
        <5>1. i \in Nat /\ r \in Nat /\ grid.next \in Nat /\ r < grid.next /\ grid.next <= i
          BY <1>0, <3>3, <4>0, <4>1
        <5> QED  BY <5>1
      <4>3. /\ \A j, k \in DOMAIN grid'.rows : j < k => grid'.rows[j] > grid'.rows[k]
            /\ Range(grid'.rows) = Range(grid.rows) \cup f.rows
        <5>1. grid'.rows = grid.rows \o NewestFirst(f.rows)
          BY <3>1, <3>5
        <5>2. /\ \A j, k \in DOMAIN (grid.rows \o NewestFirst(f.rows)) : j < k =>
                   (grid.rows \o NewestFirst(f.rows))[j] > (grid.rows \o NewestFirst(f.rows))[k]
              /\ Range(grid.rows \o NewestFirst(f.rows)) = Range(grid.rows) \cup f.rows
          BY <1>0, <3>3, <4>1, <4>2, RowsAppended
        <5> QED  BY <5>1, <5>2
      <4>4. grid'.base = grid.base
        BY <3>1, <3>5
      <4>5. f.next <= grid.next
        <5>1. CASE f.next = 0
          BY <1>0, <5>1
        <5>2. CASE f.next # 0
          <6>1. f.next \in f.rows
            BY <3>2, <5>2 DEF PageServed
          <6> QED  BY <1>0, <3>3, <4>0, <6>1
        <5> QED  BY <5>1, <5>2
      <4>6. \A i \in shelf.there : Matches(i, grid.sort) /\ i <= grid.base.made /\ i >= f.next
              => i \in Range(grid.rows) \cup f.rows
        <5> SUFFICES ASSUME NEW i \in shelf.there, Matches(i, grid.sort), i <= grid.base.made, i >= f.next
                     PROVE  i \in Range(grid.rows) \cup f.rows
          OBVIOUS
        <5>1. i \in Nat
          BY <1>0
        <5>2. CASE i >= grid.next
          BY <4>1, <5>2
        <5>3. CASE i < grid.next
          BY <3>2, <4>0, <5>3
        <5> QED  BY <1>0, <5>1, <5>2, <5>3
      <4>7. GridIsGapless'
        <5>1. \A i \in Range(grid'.rows) : Matches(i, grid.sort)
          BY <3>2, <4>1, <4>3 DEF PageServed
        <5> QED  BY <1>5, <3>1, <4>3, <4>4, <4>6, <5>1 DEF GridIsGapless, Matches
      <4>8. \A i \in Range(grid'.rows) : i <= shelf.made /\ f.next <= i
        <5>1. \A i \in f.rows : i <= shelf.made /\ f.next <= i
          BY <3>2 DEF PageServed
        <5>2. ASSUME NEW i \in Range(grid.rows)  PROVE i <= shelf.made /\ f.next <= i
          <6>1. i \in Nat /\ i <= shelf.made /\ grid.next <= i
            BY <1>0, <4>1
          <6> QED  BY <1>0, <3>3, <4>5, <6>1
        <5> QED  BY <4>3, <5>1, <5>2
      <4>9. f.next # 0 => f.next \in Range(grid'.rows)
        BY <3>2, <4>3 DEF PageServed
      <4> QED  BY <1>5, <3>1, <4>0, <4>1, <4>4, <4>7, <4>8, <4>9 DEF GridInv
    <3> QED  BY <3>4, <3>5
  <2> QED  BY <1>5, <2>1, <2>2, <2>3, DeliverFacts
<1> QED  BY <1>1, <1>2, <1>3, <1>4, <1>5, GridSteps

\* A grid at rest has had its answer, or says that it failed.
LEMMA RestStep ==
  ASSUME GalleryTypes, FetchInv, NextInv, GridInv, RestInv, [GalleryNext]_galleryVars
  PROVE  RestInv'
<1>0. grid \in Grids
  BY DEF GalleryTypes
<1>1. CASE UNCHANGED <<grid, fetches>>
  BY <1>1 DEF RestInv
<1>2. CASE GridAsks
  <2>1. PICK f \in SentFetches :
           /\ grid'.doing = f.kind
           /\ \/ f.kind = "loading" \/ f.kind = "refreshing"
              \/ f.kind = "loadingMore" /\ grid.next # 0 /\ grid'.base = grid.base
    BY <1>2, GridAskFacts
  <2>2. grid.next # 0 => grid.base.loaded
    BY DEF GridInv
  <2> QED  BY <2>1, <2>2 DEF RestInv
<1>3. ASSUME NEW f \in fetches, ServeFetch(f)  PROVE RestInv'
  BY <1>3, ServeFacts DEF RestInv
<1>4. ASSUME NEW f \in fetches, DeliverFetch(f)  PROVE RestInv'
  <2>1. CASE grid' = grid
    BY <2>1 DEF RestInv
  <2>2. CASE grid' = Failed(grid)
    <3>1. grid'.doing = "idle"
      BY <1>0, <2>2, FailedFacts
    <3>2. grid'.failed
      BY <1>0, <2>2, FailedFacts
    <3> QED  BY <3>1, <3>2 DEF RestInv
  <2>3. CASE f.n = grid.n /\ f \in ServedFetches /\ f.at = "served" /\ grid' = Filled(grid, f)
    <3>1. grid'.doing = "idle" /\ grid'.base = IF f.kind = "loadingMore" THEN grid.base ELSE f.base
      BY <1>0, <2>3, FilledFacts
    <3>2. f.kind = "loadingMore" => grid.base.loaded
      BY <2>3 DEF NextInv, NextPage
    <3>3. f.base.loaded
      BY <2>3 DEF ServedFetches, Snapshots
    <3> QED  BY <3>1, <3>2, <3>3 DEF RestInv
  <2> QED  BY <1>4, <2>1, <2>2, <2>3, DeliverFacts
<1> QED  BY <1>1, <1>2, <1>3, <1>4, GridSteps

\* The profile's list is of the whole wardrobe's first page, and its marks say
\* what was in the wash when it was read.
LEMMA ProfileStep ==
  ASSUME GalleryTypes, FetchInv, ProfileInv, [GalleryNext]_galleryVars
  PROVE  ProfileInv'
<1>0. grid \in Grids /\ screen' = screen
  BY GridSteps DEF GalleryTypes
<1> SUFFICES ASSUME screen = "profile"  PROVE ProfileInv'
  BY <1>0 DEF ProfileInv
<1>1. CASE UNCHANGED <<grid, fetches>>
  BY <1>0, <1>1 DEF ProfileInv, Marks
<1>2. CASE GridAsks
  <2>1. PICK f \in SentFetches :
           /\ fetches' = fetches \cup {f} /\ f.at = "sent" /\ f.kind = "refreshing"
           /\ grid'.doing = f.kind /\ grid'.sort = f.sort /\ f.sort = grid.sort
           /\ grid'.rows = grid.rows /\ grid'.wet = grid.wet /\ grid'.next = grid.next
           /\ grid'.base = grid.base
    BY <1>2, GridAskFacts DEF Paging
  <2> QED  BY <2>1 DEF ProfileInv, Marks
<1>3. ASSUME NEW f \in fetches, ServeFetch(f)  PROVE ProfileInv'
  <2>1. grid' = grid /\ f \in SentFetches /\ f.at = "sent"
    BY <1>3, ServeFacts
  <2>2. f.kind # "loadingMore" /\ f.sort = AnySort /\ f.from = 0
    BY <2>1 DEF ProfileInv, FetchInv
  <2>3. ASSUME NEW g \in fetches'
        PROVE  /\ g.kind # "loadingMore"
               /\ g.at # "lost" => g.sort = AnySort
               /\ g.at = "served" => Marks(g.rows, g.wet, g.next, g.base)
    <3>1. CASE g \in fetches
      BY <3>1 DEF ProfileInv
    <3>2. CASE g \notin fetches
      <4>1. /\ g.kind = f.kind /\ g.at \in {"served", "lost"}
            /\ g.at = "served" =>
                 /\ g.sort = f.sort /\ g.rows = Piece(f.sort, f.from).rows
                 /\ g.next = Piece(f.sort, f.from).next
                 /\ g.wet = Piece(f.sort, f.from).rows \cap shelf.wet
                 /\ g.base.wet = shelf.wet
        BY <1>3, <3>2, ServeFacts
      <4>2. f.sort \in Filters /\ f.from \in 0..MaxPieces /\ \A i : Matches(i, AnySort)
        BY <2>1 DEF SentFetches, Matches
      <4>3. /\ Piece(f.sort, f.from).next \in 0..MaxPieces
            /\ \A i \in shelf.there :
                 Piece(f.sort, f.from).next <= i => i \in Piece(f.sort, f.from).rows
        BY <2>2, <4>2, PieceFacts
      <4>4. shelf.wet \subseteq shelf.there /\ \A i \in shelf.there : i \in Nat
        BY DEF GalleryTypes, Pieces
      <4>5. g.at = "served" => Marks(g.rows, g.wet, g.next, g.base)
        <5> SUFFICES ASSUME g.at = "served"  PROVE Marks(g.rows, g.wet, g.next, g.base)
          OBVIOUS
        <5>1. g.wet \subseteq g.base.wet
          BY <4>1
        <5>2. ASSUME g.next = 0  PROVE g.base.wet \subseteq g.rows \cap g.wet
          <6>1. \A i \in shelf.wet : i \in Piece(f.sort, f.from).rows
            BY <4>1, <4>3, <4>4, <5>2
          <6> QED  BY <4>1, <6>1
        <5> QED  BY <5>1, <5>2 DEF Marks
      <4> QED  BY <2>2, <4>1, <4>5
    <3> QED  BY <3>1, <3>2
  <2> QED  BY <1>0, <2>1, <2>3 DEF ProfileInv, Marks
<1>4. ASSUME NEW f \in fetches, DeliverFetch(f)  PROVE ProfileInv'
  <2>1. \A g \in fetches' : g \in fetches
    BY <1>4, DeliverFacts
  <2>2. CASE grid' = grid
    BY <1>0, <2>1, <2>2 DEF ProfileInv, Marks
  <2>3. CASE grid' = Failed(grid)
    <3>1. /\ grid'.doing = "idle" /\ grid'.sort = grid.sort /\ grid'.rows = grid.rows
          /\ grid'.wet = grid.wet /\ grid'.next = grid.next /\ grid'.base = grid.base
      BY <1>0, <2>3, FailedFacts
    <3> QED  BY <1>0, <2>1, <3>1 DEF ProfileInv, Marks
  <2>4. CASE f.n = grid.n /\ f \in ServedFetches /\ f.at = "served" /\ grid' = Filled(grid, f)
    <3>0. f.kind # "loadingMore" /\ Marks(f.rows, f.wet, f.next, f.base)
      BY <2>4 DEF ProfileInv
    <3> DEFINE none == <<>>
    <3>1. /\ grid'.doing = "idle" /\ grid'.sort = grid.sort /\ grid'.next = f.next
          /\ grid'.rows = none \o NewestFirst(f.rows)
          /\ grid'.wet = f.wet /\ grid'.base = f.base
      <4>1. /\ grid'.doing = "idle" /\ grid'.sort = grid.sort /\ grid'.next = f.next
            /\ grid'.rows = (IF f.kind = "loadingMore" THEN grid.rows ELSE <<>>) \o NewestFirst(f.rows)
            /\ grid'.wet = (IF f.kind = "loadingMore" THEN grid.wet ELSE {}) \cup f.wet
            /\ grid'.base = IF f.kind = "loadingMore" THEN grid.base ELSE f.base
        BY <1>0, <2>4, FilledFacts
      <4>2. grid'.rows = none \o NewestFirst(f.rows)
        BY <3>0, <4>1
      <4> QED  BY <3>0, <4>1, <4>2
    <3>2. Range(grid'.rows) = f.rows
      <4>1. none \in Seq(Pieces) /\ DOMAIN none = {} /\ Range(none) = {}
        BY DEF Range
      <4>2. f.rows \in SUBSET Pieces
        BY <2>4 DEF ServedFetches
      <4> HIDE DEF none
      <4>3. /\ \A j, k \in DOMAIN none : j < k => none[j] > none[k]
            /\ \A i \in Range(none), r \in f.rows : i > r
        BY <4>1
      <4>4. Range(none \o NewestFirst(f.rows)) = Range(none) \cup f.rows
        BY <4>1, <4>2, <4>3, RowsAppended
      <4> QED  BY <3>1, <4>1, <4>4
    <3> HIDE DEF none
    <3> QED  BY <1>0, <2>1, <3>0, <3>1, <3>2 DEF ProfileInv, Marks
  <2> QED  BY <1>4, <2>2, <2>3, <2>4, DeliverFacts
<1> QED  BY <1>1, <1>2, <1>3, <1>4, GridSteps

\* What is behind a list was behind it or an answer before, or is the shelf.
LEMMA BasesStep ==
  ASSUME GalleryTypes, [GalleryNext]_galleryVars
  PROVE  \A b \in Bases' : \/ b \in Bases
                           \/ b.asOf = shelf.changes /\ b.wet = shelf.wet /\ shelf' = shelf
<1> SUFFICES ASSUME NEW b \in Bases'
             PROVE  b \in Bases \/ (b.asOf = shelf.changes /\ b.wet = shelf.wet /\ shelf' = shelf)
  OBVIOUS
<1>0. grid \in Grids
  BY DEF GalleryTypes
<1>1. \/ \E f \in fetches' : f.at = "served" /\ b = f.base
      \/ grid'.base.loaded /\ b = grid'.base
  BY DEF Bases
<1>2. CASE UNCHANGED <<grid, fetches>>
  BY <1>1, <1>2 DEF Bases
<1>3. CASE GridAsks
  <2>1. PICK f \in SentFetches :
           /\ fetches' = fetches \cup {f} /\ f.at = "sent"
           /\ grid'.base = NotYet \/ grid'.base = grid.base
    BY <1>3, GridAskFacts
  <2>2. ~NotYet.loaded
    BY DEF NotYet
  <2> QED  BY <1>1, <2>1, <2>2 DEF Bases
<1>4. ASSUME shelf' = shelf, NEW f \in fetches, ServeFetch(f)
      PROVE  b \in Bases \/ (b.asOf = shelf.changes /\ b.wet = shelf.wet /\ shelf' = shelf)
  <2>1. grid' = grid
    BY <1>4, ServeFacts
  <2>2. ASSUME NEW g \in fetches', g.at = "served", b = g.base
        PROVE  b \in Bases \/ (b.asOf = shelf.changes /\ b.wet = shelf.wet)
    <3>1. g \in fetches \/ (g.base.asOf = shelf.changes /\ g.base.wet = shelf.wet)
      BY <1>4, <2>2, ServeFacts
    <3> QED  BY <2>2, <3>1 DEF Bases
  <2>3. CASE grid'.base.loaded /\ b = grid'.base
    BY <2>1, <2>3 DEF Bases
  <2> QED  BY <1>1, <1>4, <2>2, <2>3
<1>5. ASSUME NEW f \in fetches, DeliverFetch(f)  PROVE b \in Bases
  <2>1. \A g \in fetches' : g \in fetches
    BY <1>5, DeliverFacts
  <2>2. \/ grid'.base = grid.base
        \/ f.at = "served" /\ grid'.base = f.base
    <3>1. Failed(grid).base = grid.base
      BY <1>0, FailedFacts
    <3>2. f \in ServedFetches =>
            Filled(grid, f).base = IF f.kind = "loadingMore" THEN grid.base ELSE f.base
      BY <1>0, FilledFacts
    <3> QED  BY <1>5, <3>1, <3>2, DeliverFacts
  <2> QED  BY <1>1, <2>1, <2>2 DEF Bases
<1> QED  BY <1>2, <1>3, <1>4, <1>5, GridSteps

\* Reads stay of their moments.
LEMMA ReadStep ==
  ASSUME GalleryTypes, ReadInv, [GalleryNext]_galleryVars
  PROVE  ReadInv'
<1>0. /\ shelf.changes \in Nat /\ stats.asOf \in Nat /\ stats.servedAt \in Nat
      /\ shelf' = shelf \/ (shelf'.changes = shelf.changes + 1 /\ \A b \in Bases' : b \in Bases)
  <2>1. shelf' = shelf \/ (Ages /\ UNCHANGED <<grid, fetches>>)
    BY GridSteps
  <2>2. CASE shelf' = shelf
    BY <2>2 DEF GalleryTypes
  <2>3. CASE Ages /\ UNCHANGED <<grid, fetches>>
    <3>1. Bases' = Bases
      BY <2>3 DEF Bases
    <3> QED  BY <2>3, <3>1 DEF Ages, GalleryTypes
  <2> QED  BY <2>1, <2>2, <2>3
<1>1. \A b \in Bases : b.asOf \in Nat
  <2>1. ASSUME NEW f \in fetches, f.at = "served"  PROVE f.base.asOf \in Nat
    <3>1. f \in ServedFetches
      BY <2>1 DEF GalleryTypes, SentFetches, LostFetches
    <3> QED  BY <3>1 DEF ServedFetches, Snapshots
  <2>2. ASSUME grid.base.loaded  PROVE grid.base.asOf \in Nat
    <3>1. grid.base \in {NotYet} \cup Snapshots
      BY DEF GalleryTypes, Grids
    <3>2. grid.base # NotYet
      BY <2>2 DEF NotYet
    <3> QED  BY <3>1, <3>2 DEF Snapshots
  <2> QED  BY <2>1, <2>2 DEF Bases
<1>2. ASSUME NEW b \in Bases'  PROVE Seen(b)'
  <2>1. CASE shelf' = shelf
    <3>1. b \in Bases \/ (b.asOf = shelf.changes /\ b.wet = shelf.wet)
      BY BasesStep
    <3> QED  BY <1>0, <2>1, <3>1 DEF Seen, ReadInv
  <2>2. CASE shelf'.changes = shelf.changes + 1 /\ b \in Bases
    <3>1. b.asOf \in Nat /\ b.asOf <= shelf.changes
      BY <1>1, <2>2 DEF ReadInv, Seen
    <3>2. b.asOf <= shelf'.changes /\ b.asOf # shelf'.changes
      BY <1>0, <2>2, <3>1
    <3> QED  BY <3>2 DEF Seen
  <2> QED  BY <1>0, <2>1, <2>2
<1>3. ASSUME NEW count, NEW at \in Nat, Counted(count, at)  PROVE Counted(count, at)'
  <2> SUFFICES ASSUME count # Unknown
               PROVE  /\ at <= shelf'.changes
                      /\ at = shelf'.changes => count = Cardinality(shelf'.wet)
                      /\ \A b \in Bases' : b.asOf = at => count = Cardinality(b.wet)
    BY DEF Counted, Unknown
  <2>0. /\ at <= shelf.changes
        /\ at = shelf.changes => count = Cardinality(shelf.wet)
        /\ \A b \in Bases : b.asOf = at => count = Cardinality(b.wet)
    BY <1>3 DEF Counted
  <2>1. CASE shelf' = shelf
    <3>1. \A b \in Bases' : b \in Bases \/ (b.asOf = shelf.changes /\ b.wet = shelf.wet)
      BY BasesStep
    <3> QED  BY <2>0, <2>1, <3>1
  <2>2. CASE shelf'.changes = shelf.changes + 1 /\ \A b \in Bases' : b \in Bases
    <3>1. at <= shelf'.changes /\ at # shelf'.changes
      BY <1>0, <2>0, <2>2
    <3> QED  BY <2>0, <2>2, <3>1
  <2> QED  BY <1>0, <2>1, <2>2
<1>4. Counted(stats.total, stats.asOf) /\ Counted(stats.answer, stats.servedAt)
  BY DEF ReadInv
<1>5. \A at : Counted(Unknown, at)'
  BY DEF Counted, Unknown
<1>6. ASSUME UNCHANGED <<shelf, grid, fetches>>
      PROVE  \A count, at : count = Cardinality(shelf.wet) /\ at = shelf.changes => Counted(count, at)'
  <2>1. Bases' = Bases
    BY <1>6 DEF Bases
  <2>2. \A b \in Bases : b.asOf = shelf.changes => b.wet = shelf.wet
    BY DEF ReadInv, Seen
  <2> QED  BY <1>0, <1>6, <2>1, <2>2 DEF Counted
<1>7. Counted(stats.total, stats.asOf)' /\ Counted(stats.answer, stats.servedAt)'
  <2>1. PICK x, y, u, v : x = stats'.total /\ u = stats'.asOf /\ y = stats'.answer /\ v = stats'.servedAt
    OBVIOUS
  <2> SUFFICES Counted(x, u)' /\ Counted(y, v)'
    BY <2>1 DEF Counted, Unknown
  <2>2. CASE x = stats.total /\ u = stats.asOf
    <3>1. Counted(x, u)'
      BY <1>0, <1>3, <1>4, <2>2
    <3>2. CASE y = stats.answer /\ v = stats.servedAt
      BY <1>0, <1>3, <1>4, <3>1, <3>2
    <3>3. CASE y = Unknown
      BY <1>5, <3>1, <3>3
    <3>4. CASE UNCHANGED <<shelf, grid, fetches>> /\ y = Cardinality(shelf.wet) /\ v = shelf.changes
      BY <1>6, <3>1, <3>4
    <3>5. CASE x = stats.answer /\ u = stats.servedAt /\ y = stats.answer /\ v = stats.servedAt
      BY <3>2, <3>5
    <3> QED  BY <2>1, <3>2, <3>3, <3>4, <3>5, StatsSteps
  <2>3. CASE x = stats.answer /\ u = stats.servedAt /\ y = stats.answer /\ v = stats.servedAt
    BY <1>0, <1>3, <1>4, <2>3
  <2> QED  BY <2>1, <2>2, <2>3, StatsSteps
<1> QED  BY <1>2, <1>7 DEF ReadInv

----------------------------------------------------------------------------
\* The lists start with nothing behind them.
LEMMA GalleryInvInit == GalleryInit => GalleryInv
<1> SUFFICES ASSUME GalleryInit  PROVE GalleryInv
  OBVIOUS
<1>0. GalleryTypes
  BY GalleryTypesInit
<1>1. /\ grid.base = NotYet /\ grid.next = 0 /\ grid.doing = "loading" /\ grid.n = 1
      /\ grid.sort = AnySort
  BY DEF GalleryInit
<1>2. \A f \in fetches : /\ f = Fetch(1, "loading", AnySort, 0)
                         /\ f.n = 1 /\ f.kind = "loading" /\ f.sort = AnySort /\ f.from = 0 /\ f.at = "sent"
  BY DEF GalleryInit, Fetch
<1>3. ~grid.base.loaded
  BY <1>1 DEF NotYet
<1>4. FetchInv
  BY <1>1, <1>2 DEF FetchInv
<1>5. ServedInv /\ NextInv
  BY <1>2 DEF ServedInv, NextInv
<1>6. GridInv /\ RestInv
  BY <1>1, <1>3 DEF GridInv, RestInv
<1>7. ProfileInv
  BY <1>1, <1>2, <1>3 DEF ProfileInv
<1>8. ReadInv
  <2>1. Bases = {}
    BY <1>2, <1>3 DEF Bases
  <2>2. stats.total = Unknown /\ stats.answer = Unknown
    BY DEF GalleryInit
  <2> QED  BY <2>1, <2>2 DEF ReadInv, Counted
<1>9. WalkInv
  <2>1. /\ walk.at \in {"sent", "off"} /\ walk.from = 0 /\ walk.pages = 0 /\ walk.stayed = shelf.there
    BY DEF GalleryInit
  <2> QED  BY <2>1, GalleriesAssumption DEF WalkInv, IndexIsWhole
<1> QED  BY <1>0, <1>4, <1>5, <1>6, <1>7, <1>8, <1>9 DEF GalleryInv

\* Every step of the lists keeps the invariant.
LEMMA GalleryInvStep == GalleryInv /\ [GalleryNext]_galleryVars => GalleryInv'
BY GalleryTypesStep, FetchStep, ServedStep, NextStep, GridStep, RestStep, ProfileStep, ReadStep,
   WalkStep DEF GalleryInv

\* What the invariant says of what is on screen: an empty list is one that an
\* answer left empty, and the sentence of the wash is licensed.
LEMMA GallerySound == GalleryInv => ListsAreTrue
<1> SUFFICES ASSUME GalleryInv  PROVE ListsAreTrue
  OBVIOUS
<1> USE DEF GalleryInv
<1>0. /\ grid \in Grids /\ grid.rows \in Seq(Pieces) /\ MaxPieces \in Nat /\ Pieces = 1..MaxPieces
  BY GalleriesAssumption DEF GalleryTypes, Grids, Pieces
<1>1. GalleryTypeOK
  <2>1. /\ shelf.there \subseteq 1..shelf.made /\ shelf.wet \subseteq shelf.there
    BY DEF GalleryTypes
  <2>2. /\ grid.doing \in {"idle", "loading", "loadingMore", "refreshing"}
        /\ grid.sort \in Sorts \cup {AnySort} /\ grid.next \in 0..MaxPieces /\ grid.failed \in BOOLEAN
    BY <1>0 DEF Grids, Doings, Filters
  <2>3. \A f \in fetches : f.n <= grid.n /\ f.at \in {"sent", "served", "lost"}
    BY DEF FetchInv, GalleryTypes, SentFetches, ServedFetches, LostFetches
  <2>4. stats.total \in Unknown..MaxPieces /\ stats.doing \in {"idle", "loading", "refreshing"}
    <3>1. stats.total \in Counts /\ stats.doing \in {"idle", "loading", "refreshing"}
      BY DEF GalleryTypes
    <3> QED  BY <1>0, <3>1 DEF Counts, Unknown
  <2>5. walk.at \in {"off", "sent", "served", "lost", "ready"} /\ walk.pages \in 0..MaxWalkPages
    BY DEF GalleryTypes
  <2> QED  BY <2>1, <2>2, <2>3, <2>4, <2>5 DEF GalleryTypeOK
<1>2. GridIsGapless
  BY DEF GridInv, GridIsGapless
<1>3. ASSUME grid.base.loaded, grid.rows = <<>>
      PROVE  \A i \in shelf.there : Matches(i, grid.sort) => i > grid.base.made
  <2>1. Range(grid.rows) = {}
    BY <1>3 DEF Range
  <2>2. grid.next = 0
    BY <1>3, <2>1 DEF GridInv
  <2>3. grid.base.made \in Nat /\ shelf.there \subseteq Nat
    <3>1. grid.base \in {NotYet} \cup Snapshots
      BY <1>0 DEF Grids
    <3>2. grid.base # NotYet
      BY <1>3 DEF NotYet
    <3>3. grid.base.made \in Nat
      BY <3>1, <3>2 DEF Snapshots
    <3>4. shelf.there \subseteq Pieces
      BY DEF GalleryTypes
    <3> QED  BY <1>0, <3>3, <3>4
  <2> QED  BY <1>2, <1>3, <2>1, <2>2, <2>3 DEF GridIsGapless
<1>4. EmptyIsHonest
  <2>1. WardrobeEmpty => grid.base.loaded /\ grid.rows = <<>>
    BY DEF WardrobeEmpty, RestInv
  <2>2. GalleryEmpty /\ (grid.base.loaded \/ grid.doing # "refreshing")
          => grid.base.loaded /\ grid.rows = <<>>
    BY <1>0 DEF GalleryEmpty, RestInv, Grids, Doings
  <2> QED  BY <1>3, <2>1, <2>2 DEF EmptyIsHonest
<1>5. WashIsTrue
  <2> SUFFICES ASSUME screen = "profile"
               PROVE  /\ WashEmpty /\ (grid.base.loaded \/ grid.doing # "refreshing") =>
                           stats.total = 0 \/ (grid.base.loaded /\ grid.base.wet = {})
                      /\ (grid.base.loaded /\ stats.total # Unknown /\ stats.asOf = grid.base.asOf
                          /\ ~grid.failed) =>
                           (WashSentence \in {"nothing", "these"} <=> Dirty = grid.base.wet)
    BY DEF WashIsTrue
  <2>0. ASSUME WashEmpty, grid.doing # "refreshing"  PROVE grid.base.loaded
    <3>1. WashSentence = "nothing"
      BY <2>0 DEF WashEmpty
    <3>2. CASE grid.failed
      BY <3>1, <3>2 DEF WashSentence
    <3>3. CASE grid.doing = "loading" /\ ~grid.failed
      BY <3>1, <3>3 DEF WashSentence
    <3>4. CASE grid.doing # "loading" /\ ~grid.failed
      <4>1. grid.doing = "idle"
        BY <1>0, <2>0, <3>4 DEF Grids, Doings, ProfileInv
      <4> QED  BY <3>4, <4>1 DEF RestInv
    <3>5. grid.failed \in BOOLEAN
      BY <1>0 DEF Grids
    <3> QED  BY <3>2, <3>3, <3>4, <3>5
  <2> SUFFICES ASSUME grid.base.loaded
               PROVE  /\ WashEmpty => stats.total = 0 \/ grid.base.wet = {}
                      /\ (stats.total # Unknown /\ stats.asOf = grid.base.asOf /\ ~grid.failed) =>
                           (WashSentence \in {"nothing", "these"} <=> Dirty = grid.base.wet)
    BY <2>0
  <2> DEFINE n == Cardinality(Dirty)
             m == Cardinality(grid.base.wet)
             hidden == IF stats.total = Unknown THEN 0 ELSE stats.total - n
  <2>1. /\ grid.doing # "loading"
        /\ grid.wet \subseteq grid.base.wet
        /\ grid.next = 0 => grid.base.wet \subseteq Range(grid.rows) \cap grid.wet
    BY DEF ProfileInv, Marks
  <2>2. Dirty = Range(grid.rows) \cap grid.wet /\ Dirty \subseteq grid.base.wet
    BY <2>1 DEF Dirty
  <2>3. IsFiniteSet(grid.base.wet) /\ IsFiniteSet(Dirty) /\ n \in Nat /\ m \in Nat /\ n <= m
        /\ (n = m => Dirty = grid.base.wet) /\ (n = 0 <=> Dirty = {})
    <3>1. grid.base.wet \subseteq Pieces
      <4>1. grid.base \in {NotYet} \cup Snapshots
        BY <1>0 DEF Grids
      <4>2. grid.base # NotYet
        BY DEF NotYet
      <4> QED  BY <4>1, <4>2 DEF Snapshots
    <3>2. IsFiniteSet(Pieces)
      BY <1>0, FS_Interval
    <3>3. IsFiniteSet(grid.base.wet)
      BY <3>1, <3>2, FS_Subset
    <3>4. IsFiniteSet(Dirty) /\ n <= m /\ (n = m => Dirty = grid.base.wet)
      BY <2>2, <3>3, FS_Subset
    <3> QED  BY <3>3, <3>4, FS_CardinalityType, FS_EmptySet
  <2>4. stats.total \in Counts /\ grid.failed \in BOOLEAN
    BY <1>0 DEF GalleryTypes, Grids
  <2>5. grid.failed => WashSentence = "error"
    BY DEF WashSentence
  <2>6. ~grid.failed => WashSentence =
          IF hidden > 0 THEN (IF Dirty = {} THEN "elsewhere" ELSE "showing some")
          ELSE IF ~Sees THEN "first page only"
          ELSE IF Dirty = {} THEN "nothing" ELSE "these"
    <3> SUFFICES ASSUME ~grid.failed
                 PROVE  WashSentence =
                          IF hidden > 0 THEN (IF Dirty = {} THEN "elsewhere" ELSE "showing some")
                          ELSE IF ~Sees THEN "first page only"
                          ELSE IF Dirty = {} THEN "nothing" ELSE "these"
      BY Zenon
    <3> QED  BY <2>1 DEF WashSentence
  <2> HIDE DEF n, m, hidden
  <2>7. WashEmpty => stats.total = 0 \/ grid.base.wet = {}
    <3> SUFFICES ASSUME WashSentence = "nothing", stats.total # 0  PROVE grid.base.wet = {}
      BY DEF WashEmpty
    <3>1. ~grid.failed /\ ~(hidden > 0) /\ Sees /\ Dirty = {}
      BY <2>4, <2>5, <2>6
    <3>2. stats.total = Unknown
      BY <2>3, <2>4, <3>1, <1>0 DEF hidden, Counts
    <3>3. grid.next = 0
      BY <3>1, <3>2 DEF Sees
    <3> QED  BY <2>1, <2>2, <3>1, <3>3
  <2>8. ASSUME stats.total # Unknown, stats.asOf = grid.base.asOf, ~grid.failed
        PROVE  WashSentence \in {"nothing", "these"} <=> Dirty = grid.base.wet
    <3>1. stats.total = m
      <4>1. grid.base \in Bases
        BY DEF Bases
      <4> QED  BY <2>8, <4>1 DEF ReadInv, Counted, m
    <3>2. hidden = m - n /\ Sees
      BY <2>8, <3>1 DEF hidden, Sees
    <3>3. hidden > 0 <=> Dirty # grid.base.wet
      <4>1. Dirty = grid.base.wet => n = m
        BY DEF n, m
      <4> QED  BY <2>3, <3>2, <4>1
    <3>4. CASE hidden > 0
      <4>1. WashSentence = "elsewhere" \/ WashSentence = "showing some"
        BY <2>6, <2>8, <3>4, Zenon
      <4>2. WashSentence \notin {"nothing", "these"}
        BY <4>1, Zenon
      <4> QED  BY <3>3, <3>4, <4>2, Zenon
    <3>5. CASE ~(hidden > 0)
      <4>1. WashSentence \in {"nothing", "these"}
        BY <2>6, <2>8, <3>2, <3>5, Zenon
      <4> QED  BY <3>3, <3>5, <4>1, Zenon
    <3> QED  BY <3>4, <3>5
  <2> QED  BY <2>7, <2>8
<1>6. IndexIsWhole
  BY DEF WalkInv
<1> QED  BY <1>1, <1>2, <1>4, <1>5, <1>6 DEF ListsAreTrue

----------------------------------------------------------------------------
(***************************************************************************)
(* The lists of posts.                                                     *)
(***************************************************************************)

\* A card, and what the server holds of a post.
Cards == [listed : {TRUE}, liked : BOOLEAN, count : Int, saved : BOOLEAN]
CardLists == [Posts -> Cards \cup {NotListed}]
Held == [liked : BOOLEAN, saved : BOOLEAN, count : Int, others : 0..MaxPresses, low : BOOLEAN,
         slipped : BOOLEAN]

Toggles == [n : Nat, list : Lists \cup {"gone"}, post : Posts, kind : Kinds, was : Cards,
            alone : BOOLEAN, sound : BOOLEAN, applied : BOOLEAN,
            at : {"sent", "found", "owing", "done", "failed"}, answer : Cards, presses : Nat \ {0}]
ListLoads == [list : Lists, at : {"sent", "read", "done", "failed"},
              page : CardLists, clean : SUBSET Posts]

PostTypes ==
  /\ server \in [Posts -> Held]
  /\ rows \in [Lists -> CardLists] /\ ref \in [Lists -> CardLists]
  /\ mode \in {"outfits", "saved"} /\ dirty \in BOOLEAN
  /\ writes \subseteq Toggles /\ loads \subseteq ListLoads
  /\ spent \in [presses : 0..MaxPresses, loads : 0..MaxLoads, losses : 0..MaxLosses]
  /\ trusted \in [Lists -> SUBSET Posts]
  /\ \A p \in Posts : server[p].others <= spent.presses

\* What a row or the server says of a post, and who is changing it.
Flag(row, kind) == IF kind = "like" THEN row.liked ELSE row.saved
Free(p, k) == \A w \in writes : ~(w.post = p /\ w.kind = k)

\* A control has one write at a time, and a write that is alone its post's flag.
WriteInv ==
  \A v, w \in writes :
    /\ w.n < spent.presses /\ (v.n = w.n => v = w)
    /\ v.post = w.post /\ v.kind = w.kind =>
         /\ w.alone => v = w
         /\ v.list = w.list /\ w.list # "gone" => v = w

\* A write that is alone is answered what the server holds; one that began from
\* a true row can put it back until it is applied.  The post s is the server's.
Told(w, s) ==
  /\ w.at \in {"sent", "found"} => ~w.applied
  /\ w.at \in {"owing", "done"} => w.applied
  /\ w.at \in {"found", "owing"} => w.kind = "like"
  /\ w.at = "found" => w.answer.liked = ~w.was.liked
  /\ w.alone /\ w.at \in {"owing", "done"} => Flag(w.answer, w.kind) = Flag(s, w.kind)
  /\ w.alone /\ w.sound /\ ~w.applied => Flag(w.was, w.kind) = Flag(s, w.kind)
AnswerInv == \A w \in writes : Told(w, server[w.post])

\* What the cards show is what is set, but for what is being written.
RefInv ==
  \A l \in Lists, p \in Posts :
    /\ ref[l][p].listed = rows[l][p].listed
    /\ \A k \in Kinds : rows[l][p].listed /\ Free(p, k) => Flag(ref[l][p], k) = Flag(rows[l][p], k)

\* A load is clean of a post nothing was written to since it was sent, and what
\* it read of that post is still so.
CleanInv ==
  \A r \in loads, p \in Posts : p \in r.clean =>
    /\ \A w \in writes : w.post # p
    /\ r.at = "done" /\ r.page[p].listed => \A k \in Kinds : Flag(r.page[p], k) = Flag(server[p], k)
    /\ r.list = "saved" /\ r.at \in {"read", "done"} => r.page[p].listed = server[p].saved

\* A pane that is not mounted has no rows and no loads.
PaneInv == mode = "outfits" => rows["saved"] = Nowhere /\ \A r \in loads : r.list = "feed"

\* A trusted row says what the server holds of every flag nobody is writing.
TrustInv ==
  \A l \in Lists : \A p \in trusted[l], k \in Kinds :
    rows[l][p].listed /\ Free(p, k) => Flag(rows[l][p], k) = Flag(server[p], k)

\* A save that the server holds is listed, or its write has yet to say so.
SavedInv ==
  mode = "saved" /\ ~Loading("saved") /\ ~stale /\ ~dirty =>
    \A p \in trusted["saved"] :
      server[p].saved /\ (\A w \in writes : ~(w.post = p /\ w.kind = "save" /\ w.applied))
        => rows["saved"][p].listed

\* The chips count presses that were made.
PressInv ==
  /\ IsFiniteSet(Presses(writes)) /\ ChipsMatchWrites
  /\ postWrites <= spent.presses

PostInv ==
  PostTypes /\ WriteInv /\ AnswerInv /\ RefInv /\ CleanInv /\ PaneInv /\ TrustInv /\ SavedInv /\ PressInv

\* What a step makes of a write and of a load.
Rival(w) == [w EXCEPT !.alone = FALSE]
Again(w) == [w EXCEPT !.presses = @ + 1]
Unmounted(w) == [w EXCEPT !.list = "gone"]
Missed(w) == [w EXCEPT !.at = "failed"]
Answering(w, at, row) == [w EXCEPT !.at = at, !.answer = row]
Applying(w, at) == [w EXCEPT !.at = at, !.applied = TRUE]
Answered(w, row) == [w EXCEPT !.at = "done", !.applied = TRUE, !.answer = row]
Begun(l, p, k, single) ==
  [n |-> spent.presses, list |-> l, post |-> p, kind |-> k, was |-> ref[l][p], alone |-> single,
   sound |-> p \in trusted[l], applied |-> FALSE, at |-> "sent", answer |-> ref[l][p], presses |-> 1]
Unclean(r, p) == [r EXCEPT !.clean = @ \ {p}]
ReadAs(r, at, page) == [r EXCEPT !.at = at, !.page = page]
LostLoad(r) == [r EXCEPT !.at = "failed"]

\* What no step changes of a write.
Kin(v, w) == v.n = w.n /\ v.post = w.post /\ v.kind = w.kind /\ v.was = w.was
SameFlags(v, w) == (v.alone <=> w.alone) /\ (v.sound <=> w.sound) /\ (v.applied <=> w.applied)

\* A write that has a rival is no longer alone.
LEMMA RivalFacts ==
  ASSUME NEW w \in Toggles
  PROVE  /\ Rival(w) \in Toggles /\ Kin(Rival(w), w) /\ Rival(w).list = w.list
         /\ Rival(w).at = w.at /\ Rival(w).answer = w.answer /\ Rival(w).presses = w.presses
         /\ ~Rival(w).alone /\ (Rival(w).sound <=> w.sound) /\ (Rival(w).applied <=> w.applied)
<1>1. Rival(w) \in Toggles
  BY DEF Rival, Toggles
<1>2. /\ Kin(Rival(w), w) /\ Rival(w).list = w.list
      /\ Rival(w).at = w.at /\ Rival(w).answer = w.answer /\ Rival(w).presses = w.presses
  BY DEF Rival, Toggles, Kin
<1>3. Rival(w).alone = FALSE
  BY DEF Rival, Toggles
<1>4. (Rival(w).sound <=> w.sound) /\ (Rival(w).applied <=> w.applied)
  BY DEF Rival, Toggles
<1> QED  BY <1>1, <1>2, <1>3, <1>4

\* A press that waits for the write under way is counted with it.
LEMMA AgainFacts ==
  ASSUME NEW w \in Toggles
  PROVE  /\ Again(w) \in Toggles /\ Kin(Again(w), w) /\ Again(w).list = w.list
         /\ Again(w).at = w.at /\ Again(w).answer = w.answer /\ Again(w).presses = w.presses + 1
         /\ SameFlags(Again(w), w)
<1>1. w.presses + 1 \in Nat \ {0}
  BY DEF Toggles
<1>2. Again(w) \in Toggles
  BY <1>1 DEF Again, Toggles
<1>3. /\ Kin(Again(w), w) /\ Again(w).list = w.list
      /\ Again(w).at = w.at /\ Again(w).answer = w.answer /\ Again(w).presses = w.presses + 1
  BY DEF Again, Toggles, Kin
<1>4. SameFlags(Again(w), w)
  BY DEF Again, Toggles, SameFlags
<1> QED  BY <1>2, <1>3, <1>4

\* The pane goes, and its write with no list to guard.
LEMMA UnmountedFacts ==
  ASSUME NEW w \in Toggles
  PROVE  /\ Unmounted(w) \in Toggles /\ Kin(Unmounted(w), w) /\ Unmounted(w).list = "gone"
         /\ Unmounted(w).at = w.at /\ Unmounted(w).answer = w.answer
         /\ Unmounted(w).presses = w.presses /\ SameFlags(Unmounted(w), w)
<1>1. Unmounted(w) \in Toggles
  BY DEF Unmounted, Toggles
<1>2. /\ Kin(Unmounted(w), w) /\ Unmounted(w).list = "gone"
      /\ Unmounted(w).at = w.at /\ Unmounted(w).answer = w.answer
      /\ Unmounted(w).presses = w.presses
  BY DEF Unmounted, Toggles, Kin
<1>3. SameFlags(Unmounted(w), w)
  BY DEF Unmounted, Toggles, SameFlags
<1> QED  BY <1>1, <1>2, <1>3

\* A write that is lost keeps what it had.
LEMMA MissedFacts ==
  ASSUME NEW w \in Toggles
  PROVE  /\ Missed(w) \in Toggles /\ Kin(Missed(w), w) /\ Missed(w).list = w.list
         /\ Missed(w).at = "failed" /\ Missed(w).answer = w.answer /\ Missed(w).presses = w.presses
         /\ SameFlags(Missed(w), w)
<1>1. Missed(w) \in Toggles
  BY DEF Missed, Toggles
<1>2. /\ Kin(Missed(w), w) /\ Missed(w).list = w.list
      /\ Missed(w).at = "failed" /\ Missed(w).answer = w.answer /\ Missed(w).presses = w.presses
  BY DEF Missed, Toggles, Kin
<1>3. SameFlags(Missed(w), w)
  BY DEF Missed, Toggles, SameFlags
<1> QED  BY <1>1, <1>2, <1>3

\* A write that is told of a row, but not applied yet, or applied before.
LEMMA AnsweringFacts ==
  ASSUME NEW w \in Toggles, NEW at \in {"found", "done"}, NEW row \in Cards
  PROVE  /\ Answering(w, at, row) \in Toggles /\ Kin(Answering(w, at, row), w)
         /\ Answering(w, at, row).list = w.list /\ Answering(w, at, row).at = at
         /\ Answering(w, at, row).answer = row /\ Answering(w, at, row).presses = w.presses
         /\ SameFlags(Answering(w, at, row), w)
<1> DEFINE a == [w EXCEPT !.at = at]
           b == [a EXCEPT !.answer = row]
<1>1. a \in Toggles /\ Kin(a, w) /\ a.list = w.list /\ a.at = at /\ a.presses = w.presses
  BY DEF Toggles, Kin
<1>2. SameFlags(a, w)
  BY DEF Toggles, SameFlags
<1> HIDE DEF a
<1>3. /\ b \in Toggles /\ Kin(b, w) /\ b.list = w.list /\ b.at = at /\ b.presses = w.presses
      /\ b.answer = row
  BY <1>1 DEF Toggles, Kin
<1>4. SameFlags(b, w)
  BY <1>1, <1>2 DEF Toggles, SameFlags
<1> HIDE DEF b
<1>5. Answering(w, at, row) = b
  BY Zenon DEF Answering, a, b
<1> QED  BY <1>3, <1>4, <1>5

\* A write whose row is written.
LEMMA ApplyingFacts ==
  ASSUME NEW w \in Toggles, NEW at \in {"owing", "done"}
  PROVE  /\ Applying(w, at) \in Toggles /\ Kin(Applying(w, at), w)
         /\ Applying(w, at).list = w.list /\ Applying(w, at).at = at
         /\ Applying(w, at).answer = w.answer /\ Applying(w, at).presses = w.presses
         /\ Applying(w, at).applied
         /\ (Applying(w, at).alone <=> w.alone) /\ (Applying(w, at).sound <=> w.sound)
<1> DEFINE a == [w EXCEPT !.at = at]
           b == [a EXCEPT !.applied = TRUE]
<1>1. a \in Toggles /\ Kin(a, w) /\ a.list = w.list /\ a.at = at /\ a.presses = w.presses
      /\ a.answer = w.answer
  BY DEF Toggles, Kin
<1>2. (a.alone <=> w.alone) /\ (a.sound <=> w.sound)
  BY DEF Toggles
<1> HIDE DEF a
<1>3. /\ b \in Toggles /\ Kin(b, w) /\ b.list = w.list /\ b.at = at /\ b.presses = w.presses
      /\ b.answer = w.answer
  BY <1>1 DEF Toggles, Kin
<1>4. (b.alone <=> w.alone) /\ (b.sound <=> w.sound)
  BY <1>1, <1>2 DEF Toggles
<1>5. b.applied = TRUE
  BY <1>1 DEF Toggles
<1> HIDE DEF b
<1>6. Applying(w, at) = b
  BY Zenon DEF Applying, a, b
<1> QED  BY <1>3, <1>4, <1>5, <1>6

\* A write that is served holds its answer.
LEMMA AnsweredFacts ==
  ASSUME NEW w \in Toggles, NEW row \in Cards
  PROVE  /\ Answered(w, row) \in Toggles /\ Kin(Answered(w, row), w) /\ Answered(w, row).list = w.list
         /\ Answered(w, row).at = "done" /\ Answered(w, row).answer = row
         /\ Answered(w, row).presses = w.presses /\ Answered(w, row).applied
         /\ (Answered(w, row).alone <=> w.alone) /\ (Answered(w, row).sound <=> w.sound)
<1> DEFINE a == [w EXCEPT !.at = "done"]
           b == [a EXCEPT !.applied = TRUE]
           c == [b EXCEPT !.answer = row]
<1>1. a \in Toggles /\ Kin(a, w) /\ a.list = w.list /\ a.at = "done" /\ a.presses = w.presses
  BY DEF Toggles, Kin
<1>2. (a.alone <=> w.alone) /\ (a.sound <=> w.sound)
  BY DEF Toggles
<1> HIDE DEF a
<1>3. b \in Toggles /\ Kin(b, w) /\ b.list = w.list /\ b.at = "done" /\ b.presses = w.presses
  BY <1>1 DEF Toggles, Kin
<1>4. (b.alone <=> w.alone) /\ (b.sound <=> w.sound)
  BY <1>1, <1>2 DEF Toggles
<1>5. b.applied = TRUE
  BY <1>1 DEF Toggles
<1> HIDE DEF b
<1>6. /\ c \in Toggles /\ Kin(c, w) /\ c.list = w.list /\ c.at = "done" /\ c.presses = w.presses
      /\ c.answer = row
  BY <1>3 DEF Toggles, Kin
<1>7. (c.alone <=> w.alone) /\ (c.sound <=> w.sound) /\ (c.applied <=> b.applied)
  BY <1>3, <1>4 DEF Toggles
<1> HIDE DEF c
<1>8. Answered(w, row) = c
  BY Zenon DEF Answered, a, b, c
<1> QED  BY <1>5, <1>6, <1>7, <1>8

\* A load that is no longer clean of a post.
LEMMA UncleanFacts ==
  ASSUME NEW r \in ListLoads, NEW p \in Posts
  PROVE  /\ Unclean(r, p) \in ListLoads /\ Unclean(r, p).list = r.list /\ Unclean(r, p).at = r.at
         /\ Unclean(r, p).page = r.page /\ Unclean(r, p).clean = r.clean \ {p}
BY DEF Unclean, ListLoads

\* A load that has read on.
LEMMA ReadAsFacts ==
  ASSUME NEW r \in ListLoads, NEW at \in {"read", "done"}, NEW page \in CardLists
  PROVE  /\ ReadAs(r, at, page) \in ListLoads /\ ReadAs(r, at, page).list = r.list
         /\ ReadAs(r, at, page).at = at /\ ReadAs(r, at, page).page = page
         /\ ReadAs(r, at, page).clean = r.clean
<1> DEFINE a == [r EXCEPT !.at = at]
           b == [a EXCEPT !.page = page]
<1>1. a \in ListLoads /\ a.list = r.list /\ a.at = at /\ a.clean = r.clean
  BY DEF ListLoads
<1> HIDE DEF a
<1>2. b \in ListLoads /\ b.list = r.list /\ b.at = at /\ b.page = page /\ b.clean = r.clean
  BY <1>1 DEF ListLoads
<1> HIDE DEF b
<1>3. ReadAs(r, at, page) = b
  BY Zenon DEF ReadAs, a, b
<1> QED  BY <1>2, <1>3

\* A load that failed.
LEMMA LostLoadFacts ==
  ASSUME NEW r \in ListLoads
  PROVE  /\ LostLoad(r) \in ListLoads /\ LostLoad(r).list = r.list /\ LostLoad(r).at = "failed"
         /\ LostLoad(r).page = r.page /\ LostLoad(r).clean = r.clean
BY DEF LostLoad, ListLoads

----------------------------------------------------------------------------
\* What is shown of a post after a patch of one kind.
Published(p, from, kind) ==
  [l \in Lists |-> IF Mounted(l) /\ rows[l][p].listed
                     THEN [rows[l] EXCEPT ![p] = Patched(@, from, kind)] ELSE rows[l]]

\* A row that is listed is a card.
LEMMA ListedIsCard ==
  ASSUME NEW S, NEW row \in S \cup {NotListed}, row.listed
  PROVE  row \in S
BY DEF NotListed

\* A row is a card of what it is made of.
LEMMA RowFacts ==
  ASSUME NEW liked \in BOOLEAN, NEW saved \in BOOLEAN, NEW n \in Int
  PROVE  /\ Row(liked, n, saved) \in Cards /\ Row(liked, n, saved).listed = TRUE
         /\ Row(liked, n, saved).liked = liked /\ Row(liked, n, saved).saved = saved
         /\ Row(liked, n, saved).count = n
<1>1. Row(liked, n, saved) \in Cards
  BY DEF Cards, Row
<1> QED  BY <1>1 DEF Row

\* A patch takes the flag of its kind, a like's the count too, and leaves the rest.
LEMMA PatchedFacts ==
  ASSUME NEW row \in Cards, NEW from \in Cards, NEW kind \in Kinds
  PROVE  /\ Patched(row, from, kind) \in Cards
         /\ Flag(Patched(row, from, kind), kind) = Flag(from, kind)
         /\ \A k \in Kinds : k # kind => Flag(Patched(row, from, kind), k) = Flag(row, k)
         /\ Patched(row, from, kind).count = IF kind = "like" THEN from.count ELSE row.count
<1>1. CASE kind = "save"
  <2> DEFINE c == [row EXCEPT !.saved = from.saved]
  <2>1. Patched(row, from, kind) = c
    BY <1>1 DEF Patched
  <2>2. c \in Cards /\ c.count = row.count
    BY DEF Cards
  <2>3. (c.saved = from.saved) /\ (c.liked = row.liked)
    BY DEF Cards
  <2> HIDE DEF c
  <2> QED  BY <1>1, <2>1, <2>2, <2>3 DEF Flag, Kinds
<1>2. CASE kind = "like"
  <2> DEFINE b == [row EXCEPT !.liked = from.liked]
             c == [b EXCEPT !.count = from.count]
  <2>1. Patched(row, from, kind) = c
    BY <1>2, Zenon DEF Patched, b, c
  <2>2. b \in Cards
    BY DEF Cards
  <2>3. b.liked = from.liked /\ b.saved = row.saved
    BY DEF Cards
  <2> HIDE DEF b
  <2>4. c \in Cards /\ c.count = from.count
    BY <2>2 DEF Cards
  <2>5. c.liked = from.liked /\ c.saved = row.saved
    BY <2>2, <2>3 DEF Cards
  <2> HIDE DEF c
  <2> QED  BY <1>2, <2>1, <2>4, <2>5 DEF Flag, Kinds
<1> QED  BY <1>1, <1>2 DEF Kinds

\* The row as the tap leaves it is a card, whose count is below zero of a
\* snapshot that was.
LEMMA OptimisticFacts ==
  ASSUME NEW row \in Cards, NEW kind \in Kinds
  PROVE  /\ Optimistic(row, kind) \in Cards
         /\ Optimistic(row, kind).count < 0 => row.count < 0
<1>0. row.count \in Int /\ row.liked \in BOOLEAN
  BY DEF Cards
<1>1. CASE kind = "save"
  <2> DEFINE c == [row EXCEPT !.saved = ~row.saved]
  <2>1. c \in Cards /\ c.count = row.count
    BY <1>0 DEF Cards
  <2> HIDE DEF c
  <2>2. Optimistic(row, kind) = c
    BY <1>1 DEF Optimistic, c
  <2> QED  BY <2>1, <2>2
<1>2. CASE kind = "like"
  <2> DEFINE n == IF ~row.liked THEN row.count + 1
                  ELSE IF row.count <= 1 THEN 0 ELSE row.count - 1
             b == [row EXCEPT !.liked = ~row.liked]
             c == [b EXCEPT !.count = n]
  <2>1. n \in Int /\ (n < 0 => row.count < 0)
    BY <1>0
  <2>2. Optimistic(row, kind) = c
    BY <1>2, Zenon DEF Optimistic, b, c, n
  <2> HIDE DEF n
  <2>3. b \in Cards
    BY <1>0 DEF Cards
  <2> HIDE DEF b
  <2>4. c \in Cards /\ c.count = n
    BY <2>1, <2>3 DEF Cards
  <2> HIDE DEF c
  <2> QED  BY <2>1, <2>2, <2>4
<1> QED  BY <1>1, <1>2 DEF Kinds

\* A patch is published to the lists that are mounted, and to no other post.
LEMMA PublishedFacts ==
  ASSUME PostTypes, NEW p \in Posts, NEW from \in Cards, NEW kind \in Kinds
  PROVE  /\ Published(p, from, kind) \in [Lists -> CardLists]
         /\ \A l \in Lists, q \in Posts :
              /\ Published(p, from, kind)[l][q].listed = rows[l][q].listed
              /\ rows[l][q].listed => \A k \in Kinds : q # p \/ k # kind =>
                   Flag(Published(p, from, kind)[l][q], k) = Flag(rows[l][q], k)
              /\ q = p /\ Mounted(l) /\ rows[l][q].listed =>
                   Flag(Published(p, from, kind)[l][q], kind) = Flag(from, kind)
              /\ Published(p, from, kind)[l][q].count =
                   IF q = p /\ kind = "like" /\ Mounted(l) /\ rows[l][q].listed
                     THEN from.count ELSE rows[l][q].count
              /\ ~Mounted(l) => Published(p, from, kind)[l] = rows[l]
<1> DEFINE pub == Published(p, from, kind)
<1>0. rows \in [Lists -> CardLists]
  BY DEF PostTypes
<1>1. ASSUME NEW l \in Lists
      PROVE  /\ pub[l] \in CardLists
             /\ \A q \in Posts :
                  /\ pub[l][q].listed = rows[l][q].listed
                  /\ rows[l][q].listed => \A k \in Kinds : q # p \/ k # kind =>
                       Flag(pub[l][q], k) = Flag(rows[l][q], k)
                  /\ q = p /\ Mounted(l) /\ rows[l][q].listed => Flag(pub[l][q], kind) = Flag(from, kind)
                  /\ pub[l][q].count = IF q = p /\ kind = "like" /\ Mounted(l) /\ rows[l][q].listed
                                         THEN from.count ELSE rows[l][q].count
             /\ ~Mounted(l) => pub[l] = rows[l]
  <2>1. rows[l] \in CardLists /\ rows[l][p] \in Cards \cup {NotListed}
    BY <1>0 DEF CardLists
  <2>2. CASE Mounted(l) /\ rows[l][p].listed
    <3> DEFINE card == Patched(rows[l][p], from, kind)
    <3>1. rows[l][p] \in Cards
      BY <2>1, <2>2, ListedIsCard
    <3>2. /\ card \in Cards /\ Flag(card, kind) = Flag(from, kind)
          /\ \A k \in Kinds : k # kind => Flag(card, k) = Flag(rows[l][p], k)
          /\ card.count = IF kind = "like" THEN from.count ELSE rows[l][p].count
      BY <3>1, PatchedFacts, ZenonT(40)
    <3>3. card.listed = TRUE /\ rows[l][p].listed = TRUE
      BY <3>1, <3>2 DEF Cards
    <3>4. pub[l] = [rows[l] EXCEPT ![p] = card]
      BY <2>2 DEF Published
    <3> HIDE DEF card, pub
    <3>5. /\ pub[l] \in CardLists /\ pub[l][p] = card
          /\ \A q \in Posts : q # p => pub[l][q] = rows[l][q]
      BY <2>1, <3>2, <3>4 DEF CardLists
    <3> QED  BY <2>2, <3>2, <3>3, <3>5
  <2>3. CASE ~(Mounted(l) /\ rows[l][p].listed)
    <3>1. pub[l] = rows[l]
      BY <2>3 DEF Published
    <3> HIDE DEF pub
    <3> QED  BY <2>1, <2>3, <3>1
  <2> QED  BY <2>2, <2>3
<1>2. pub \in [Lists -> CardLists]
  <2>1. pub = [l \in Lists |-> pub[l]]
    BY DEF Published
  <2> HIDE DEF pub
  <2> QED  BY <1>1, <2>1
<1> HIDE DEF pub
<1>3. /\ pub \in [Lists -> CardLists]
      /\ \A l \in Lists, q \in Posts :
              /\ pub[l][q].listed = rows[l][q].listed
              /\ rows[l][q].listed => \A k \in Kinds : q # p \/ k # kind =>
                   Flag(pub[l][q], k) = Flag(rows[l][q], k)
              /\ q = p /\ Mounted(l) /\ rows[l][q].listed => Flag(pub[l][q], kind) = Flag(from, kind)
              /\ pub[l][q].count = IF q = p /\ kind = "like" /\ Mounted(l) /\ rows[l][q].listed
                                     THEN from.count ELSE rows[l][q].count
              /\ ~Mounted(l) => pub[l] = rows[l]
  BY <1>1, <1>2
<1> QED  BY <1>3 DEF pub

----------------------------------------------------------------------------
(***************************************************************************)
(* What each step changes.                                                 *)
(***************************************************************************)
Spendings == [presses : 0..MaxPresses, loads : 0..MaxLoads, losses : 0..MaxLosses]

\* One more of a bound is used up, and no other.
LEMMA SpendFacts ==
  ASSUME spent \in Spendings
  PROVE  /\ Spend("presses", MaxPresses) =>
              /\ spent' \in Spendings /\ spent'.presses = spent.presses + 1
              /\ spent.presses < MaxPresses
         /\ Spend("loads", MaxLoads) =>
              spent' \in Spendings /\ spent'.presses = spent.presses
         /\ Spend("losses", MaxLosses) =>
              spent' \in Spendings /\ spent'.presses = spent.presses
<1>0. MaxPresses \in Nat /\ MaxLoads \in Nat /\ MaxLosses \in Nat
  BY ListBoundsAssumption
<1>1. spent.presses \in Nat /\ spent.loads \in Nat /\ spent.losses \in Nat
  BY <1>0 DEF Spendings
<1>2. ASSUME Spend("presses", MaxPresses)
      PROVE  /\ spent' \in Spendings /\ spent'.presses = spent.presses + 1
             /\ spent.presses < MaxPresses
  <2>1. spent.presses < MaxPresses /\ spent' = [spent EXCEPT !.presses = @ + 1]
    BY <1>2 DEF Spend
  <2>2. spent.presses + 1 \in 0..MaxPresses
    BY <1>0, <1>1, <2>1
  <2> QED  BY <2>1, <2>2 DEF Spendings
<1>3. ASSUME Spend("loads", MaxLoads)
      PROVE  spent' \in Spendings /\ spent'.presses = spent.presses
  <2>1. spent.loads < MaxLoads /\ spent' = [spent EXCEPT !.loads = @ + 1]
    BY <1>3 DEF Spend
  <2>2. spent.loads + 1 \in 0..MaxLoads
    BY <1>0, <1>1, <2>1
  <2> QED  BY <2>1, <2>2 DEF Spendings
<1>4. ASSUME Spend("losses", MaxLosses)
      PROVE  spent' \in Spendings /\ spent'.presses = spent.presses
  <2>1. spent.losses < MaxLosses /\ spent' = [spent EXCEPT !.losses = @ + 1]
    BY <1>4 DEF Spend
  <2>2. spent.losses + 1 \in 0..MaxLosses
    BY <1>0, <1>1, <2>1
  <2> QED  BY <2>1, <2>2 DEF Spendings
<1> QED  BY <1>2, <1>3, <1>4

\* A press of one's own leaves room for the likes of others.
LEMMA OthersFit ==
  ASSUME PostTypes, server' = server, spent'.presses = spent.presses + 1
  PROVE  \A q \in Posts : server'[q].others <= spent'.presses
<1> SUFFICES ASSUME NEW q \in Posts
             PROVE  server[q].others <= spent.presses + 1
  OBVIOUS
<1>1. server[q] \in Held /\ server[q].others <= spent.presses /\ spent.presses \in Nat
  BY DEF PostTypes
<1>2. server[q].others \in Nat
  BY <1>1 DEF Held
<1> QED  BY <1>1, <1>2

\* The writes after a press: a new one beside its rivals, or one press more.
WithBegun(l, p, k) ==
  LET rivals == {w \in writes : w.post = p /\ w.kind = k /\ w.list # l}
  IN {IF w \in rivals THEN Rival(w) ELSE w : w \in writes} \cup {Begun(l, p, k, rivals = {})}
WithAgain(l, p, k) == {IF w \in Same(l, p, k) THEN Again(w) ELSE w : w \in writes}

\* What a press does.
LEMMA PressFacts ==
  ASSUME PostTypes, NEW l \in Lists, NEW p \in Posts, NEW k \in Kinds, Press(l, p, k)
  PROVE  /\ Mounted(l) /\ ref[l][p] \in Cards /\ Optimistic(ref[l][p], k) \in Cards
         /\ ref[l][p].listed
         /\ spent' \in Spendings /\ spent'.presses = spent.presses + 1
         /\ \/ /\ Same(l, p, k) = {} /\ writes' = WithBegun(l, p, k)
               /\ loads' = {Unclean(r, p) : r \in loads}
               /\ rows' = Published(p, Optimistic(ref[l][p], k), k)
            \/ /\ Same(l, p, k) # {} /\ writes' = WithAgain(l, p, k) /\ UNCHANGED <<rows, loads>>
         /\ postWrites' = IF l # "feed" THEN postWrites + 1 ELSE postWrites
         /\ UNCHANGED <<server, ref, mode, dirty, trusted, stale>>
<1>1. Mounted(l) /\ ref[l][p].listed /\ Spend("presses", MaxPresses)
      /\ UNCHANGED <<server, ref, mode, dirty, trusted, stale>>
  BY DEF Press
<1>2. ref[l][p] \in Cards
  <2>1. ref[l] \in CardLists
    BY DEF PostTypes
  <2>2. ref[l][p] \in Cards \cup {NotListed}
    BY <2>1 DEF CardLists
  <2> QED  BY <1>1, <2>2, ListedIsCard
<1>3. Optimistic(ref[l][p], k) \in Cards
  BY <1>2, OptimisticFacts
<1>4. spent' \in Spendings /\ spent'.presses = spent.presses + 1
  <2>1. spent \in Spendings
    BY DEF PostTypes, Spendings
  <2> QED  BY <1>1, <2>1, SpendFacts
<1>5. postWrites' = IF l # "feed" THEN postWrites + 1 ELSE postWrites
  BY DEF Press, Tracked
<1>6. CASE Same(l, p, k) = {}
  <2>1. Begins(l, p, k) /\ Publish(p, LAMBDA row : Patched(row, Optimistic(ref[l][p], k), k))
    BY <1>6 DEF Press
  <2>2. rows' = Published(p, Optimistic(ref[l][p], k), k)
    BY <2>1 DEF Publish, Published
  <2>3. writes' = WithBegun(l, p, k)
    BY <2>1, Zenon DEF Begins, WithBegun, Rival, Begun
  <2>4. loads' = {Unclean(r, p) : r \in loads}
    BY <2>1, Zenon DEF Begins, Unclean
  <2> QED  BY <1>1, <1>2, <1>3, <1>4, <1>5, <1>6, <2>2, <2>3, <2>4
<1>7. CASE Same(l, p, k) # {}
  <2>1. writes' = WithAgain(l, p, k) /\ UNCHANGED <<rows, loads>>
    BY <1>7, Zenon DEF Press, WithAgain, Again
  <2> QED  BY <1>1, <1>2, <1>3, <1>4, <1>5, <1>7, <2>1
<1> QED  BY <1>6, <1>7

\* One post of the server's changes, and no other.
LEMMA HeldFacts ==
  ASSUME server \in [Posts -> Held], NEW p \in Posts, NEW h \in Held,
         server' = [server EXCEPT ![p] = h]
  PROVE  /\ server' \in [Posts -> Held] /\ server'[p] = h
         /\ \A q \in Posts : q # p => server'[q] = server[q]
OBVIOUS

\* What somebody else's like does.
LEMMA OtherLikesFacts ==
  ASSUME PostTypes, NEW p \in Posts, OtherLikes(p)
  PROVE  /\ server' \in [Posts -> Held] /\ \A q \in Posts : q # p => server'[q] = server[q]
         /\ server'[p].others = server[p].others + 1 /\ server'[p].count = server[p].count + 1
         /\ (server'[p].liked = server[p].liked) /\ (server'[p].saved = server[p].saved)
         /\ (server'[p].low = server[p].low) /\ (server'[p].slipped = server[p].slipped)
         /\ spent' \in Spendings /\ spent'.presses = spent.presses + 1
         /\ \A q \in Posts : server'[q].others <= spent'.presses
         /\ UNCHANGED <<rows, ref, mode, postWrites, writes, loads, dirty, trusted, stale>>
<1> DEFINE s == server[p]
           a == [s EXCEPT !.others = s.others + 1]
           h == [a EXCEPT !.count = s.count + 1]
<1>0. /\ server \in [Posts -> Held] /\ s \in Held /\ spent \in Spendings /\ MaxPresses \in Nat
      /\ \A q \in Posts : server[q].others <= spent.presses
  BY ListBoundsAssumption DEF PostTypes, Spendings
<1>1. /\ UNCHANGED <<rows, ref, mode, postWrites, writes, loads, dirty, trusted, stale>>
      /\ Spend("presses", MaxPresses)
      /\ server' = [server EXCEPT ![p] = LikedByOther(server[p])]
  BY DEF OtherLikes
<1>2. server' = [server EXCEPT ![p] = h]
  BY <1>1, Zenon DEF LikedByOther, a, h, s
<1>3. /\ spent' \in Spendings /\ spent'.presses = spent.presses + 1 /\ spent.presses < MaxPresses
  BY <1>0, <1>1, SpendFacts
<1>4. s.others \in 0..MaxPresses /\ s.others <= spent.presses /\ spent.presses \in Nat
  BY <1>0 DEF Held, Spendings
<1> HIDE DEF s
<1>5. a \in Held /\ a.others = s.others + 1 /\ s.count \in Int
  <2>1. s.others + 1 \in 0..MaxPresses
    BY <1>0, <1>3, <1>4
  <2> QED  BY <1>0, <2>1 DEF Held
<1>6. (a.liked = s.liked) /\ (a.saved = s.saved) /\ (a.low = s.low) /\ (a.slipped = s.slipped)
  BY <1>0 DEF Held
<1> HIDE DEF a
<1>7. h \in Held /\ h.others = s.others + 1 /\ h.count = s.count + 1
  BY <1>5 DEF Held
<1>8. (h.liked = s.liked) /\ (h.saved = s.saved) /\ (h.low = s.low) /\ (h.slipped = s.slipped)
  BY <1>5, <1>6 DEF Held
<1> HIDE DEF h
<1>9. /\ server' \in [Posts -> Held] /\ server'[p] = h
      /\ \A q \in Posts : q # p => server'[q] = server[q]
  BY <1>0, <1>2, <1>7, HeldFacts
<1>10. \A q \in Posts : server'[q].others <= spent'.presses
  <2> SUFFICES ASSUME NEW q \in Posts
               PROVE  server'[q].others <= spent'.presses
    OBVIOUS
  <2>1. server[q].others \in Nat /\ server[q].others <= spent.presses
    BY <1>0 DEF Held
  <2> QED  BY <1>3, <1>4, <1>7, <1>9, <2>1
<1> QED  BY <1>1, <1>3, <1>7, <1>8, <1>9, <1>10 DEF s

\* What serving and losing a write make of it and of its post, step by step.
Finds(v, w) ==
  /\ w.kind = "like" /\ w.at = "sent" /\ v.at = "found" /\ (v.applied <=> w.applied)
  /\ v.answer.liked = ~w.was.liked /\ v.answer.count = server[w.post].count /\ server' = server
Writes(v, w) ==
  /\ w.at = "found" /\ v.at = (IF Owes(w) THEN "owing" ELSE "done") /\ v.applied
  /\ v.answer = w.answer /\ server'[w.post].liked = ~w.was.liked
  /\ server'[w.post].count = server[w.post].count /\ server'[w.post].saved = server[w.post].saved
  /\ (server'[w.post].low = server[w.post].low) /\ (server'[w.post].slipped = server[w.post].slipped)
Tallies(v, w) ==
  /\ w.at = "owing" /\ v.at = "done" /\ (v.applied <=> w.applied)
  /\ v.answer.liked = w.answer.liked /\ v.answer.count = server'[w.post].count
  /\ server'[w.post].count = server[w.post].count + (IF w.was.liked THEN -1 ELSE 1)
  /\ (server'[w.post].low <=> server[w.post].low \/ server'[w.post].count < 0)
  /\ (server'[w.post].liked = server[w.post].liked) /\ (server'[w.post].saved = server[w.post].saved)
  /\ (server'[w.post].slipped = server[w.post].slipped)
Saves(v, w) ==
  /\ w.kind = "save" /\ w.at = "sent" /\ v.at = "done" /\ v.applied
  /\ v.answer.saved = ~w.was.saved /\ v.answer.count = w.answer.count
  /\ server'[w.post].saved = ~w.was.saved
  /\ server'[w.post].count = server[w.post].count /\ (server'[w.post].liked = server[w.post].liked)
  /\ (server'[w.post].low = server[w.post].low) /\ (server'[w.post].slipped = server[w.post].slipped)
Loses(v, w) ==
  /\ v.at = "failed" /\ (v.applied <=> w.applied) /\ v.answer = w.answer
  /\ server'[w.post].count = server[w.post].count
  /\ (server'[w.post].liked = server[w.post].liked) /\ (server'[w.post].saved = server[w.post].saved)
  /\ (server'[w.post].low = server[w.post].low)
  /\ (server'[w.post].slipped <=> server[w.post].slipped \/ w.at = "owing")

\* Any of them: a write goes on, and its post is the only one that changes.
Serves(v, w) ==
  /\ v \in Toggles /\ writes' = (writes \ {w}) \cup {v}
  /\ Kin(v, w) /\ v.list = w.list /\ v.presses = w.presses
  /\ (v.alone <=> w.alone) /\ (v.sound <=> w.sound)
  /\ server' \in [Posts -> Held] /\ \A q \in Posts : server'[q].others = server[q].others
  /\ \A q \in Posts : q # w.post => server'[q] = server[q]
  /\ spent' \in Spendings /\ spent'.presses = spent.presses
  /\ UNCHANGED <<rows, ref, mode, postWrites, loads, dirty, trusted, stale>>

\* A write is found, its row written, its count written, or it is lost.
LEMMA WriteGoesOn ==
  ASSUME PostTypes, NEW w \in writes,
         FindLiked(w) \/ WriteLike(w) \/ CountLike(w) \/ WriteSave(w) \/ LoseWrite(w)
  PROVE  \E v : /\ Serves(v, w)
                /\ Finds(v, w) \/ Writes(v, w) \/ Tallies(v, w) \/ Saves(v, w) \/ Loses(v, w)
<1> DEFINE p == w.post
           s == server[p]
<1>0. /\ w \in Toggles /\ p \in Posts /\ w.was \in Cards /\ w.answer \in Cards
      /\ server \in [Posts -> Held] /\ s \in Held /\ spent \in Spendings
  BY DEF PostTypes, Toggles, Spendings
<1>1. w.was.liked \in BOOLEAN /\ s.count \in Int
  BY <1>0 DEF Cards, Held
<1>2. w.was.saved \in BOOLEAN /\ s.slipped \in BOOLEAN
  BY <1>0 DEF Cards, Held
<1>3. ASSUME NEW v \in Toggles, NEW h \in Held, Kin(v, w), v.list = w.list, v.presses = w.presses,
             v.alone <=> w.alone, v.sound <=> w.sound, h.others = s.others,
             writes' = (writes \ {w}) \cup {v}, server' = [server EXCEPT ![p] = h],
             spent' \in Spendings, spent'.presses = spent.presses,
             UNCHANGED <<rows, ref, mode, postWrites, loads, dirty, trusted, stale>>
      PROVE  Serves(v, w) /\ server'[p] = h
  <2>1. /\ server' \in [Posts -> Held] /\ server'[p] = h
        /\ \A q \in Posts : q # p => server'[q] = server[q]
    BY <1>0, <1>3, HeldFacts
  <2>2. \A q \in Posts : server'[q].others = server[q].others
    BY <1>3, <2>1
  <2> QED  BY <1>3, <2>1, <2>2 DEF Serves
<1> HIDE DEF s, p
<1>4. ASSUME FindLiked(w)
      PROVE  \E v : Serves(v, w) /\ Finds(v, w)
  <2> DEFINE row == Row(~w.was.liked, s.count, w.was.saved)
             v == Answering(w, "found", row)
  <2>1. /\ w.kind = "like" /\ w.at = "sent" /\ writes' = (writes \ {w}) \cup {v}
        /\ UNCHANGED <<server, rows, ref, mode, postWrites, loads, dirty, spent, trusted, stale>>
    BY <1>4, Zenon DEF FindLiked, Turned, Answering, s, p
  <2>2. row \in Cards /\ row.liked = ~w.was.liked /\ row.count = s.count
    <3>1. row \in Cards
      BY <1>1, <1>2 DEF Cards, Row
    <3>2. row.liked = ~w.was.liked
      BY DEF Row
    <3>3. row.count = s.count
      BY DEF Row
    <3> QED  BY <3>1, <3>2, <3>3
  <2> HIDE DEF row
  <2>3. /\ v \in Toggles /\ Kin(v, w) /\ v.list = w.list /\ v.at = "found"
        /\ v.answer = row /\ v.presses = w.presses /\ SameFlags(v, w)
    BY <1>0, <2>2, AnsweringFacts
  <2> HIDE DEF v
  <2>4. server' = [server EXCEPT ![p] = s]
    BY <1>0, <2>1 DEF s
  <2>5. Serves(v, w)
    BY <1>0, <1>3, <2>1, <2>3, <2>4 DEF SameFlags
  <2>6. Finds(v, w)
    BY <2>1, <2>2, <2>3 DEF Finds, SameFlags, s, p
  <2> QED  BY <2>5, <2>6
<1>5. ASSUME WriteLike(w)
      PROVE  \E v : Serves(v, w) /\ Writes(v, w)
  <2> DEFINE at == IF Owes(w) THEN "owing" ELSE "done"
             v == Applying(w, at)
             h == [s EXCEPT !.liked = ~w.was.liked]
  <2>1. /\ w.at = "found" /\ writes' = (writes \ {w}) \cup {v}
        /\ UNCHANGED <<rows, ref, mode, postWrites, loads, dirty, spent, trusted, stale>>
    BY <1>5, Zenon DEF WriteLike, Turned, Applying
  <2>2. server' = [server EXCEPT ![p] = h]
    BY <1>5 DEF WriteLike, s, p
  <2>3. h \in Held /\ h.others = s.others /\ h.count = s.count
    BY <1>0, <1>1 DEF Held
  <2>4. (h.liked = ~w.was.liked) /\ (h.saved = s.saved) /\ (h.low = s.low) /\ (h.slipped = s.slipped)
    BY <1>0, <1>1 DEF Held
  <2>5. at \in {"owing", "done"}
    OBVIOUS
  <2> HIDE DEF h, at
  <2>6. /\ v \in Toggles /\ Kin(v, w) /\ v.list = w.list /\ v.at = at /\ v.answer = w.answer
        /\ v.presses = w.presses /\ v.applied /\ (v.alone <=> w.alone) /\ (v.sound <=> w.sound)
    BY <1>0, <2>5, ApplyingFacts
  <2> HIDE DEF v
  <2>7. Serves(v, w) /\ server'[p] = h
    BY <1>0, <1>3, <2>1, <2>2, <2>3, <2>6
  <2>8. Writes(v, w)
    BY <2>1, <2>3, <2>4, <2>6, <2>7 DEF Writes, s, p, at
  <2> QED  BY <2>7, <2>8
<1>6. ASSUME CountLike(w)
      PROVE  \E v : Serves(v, w) /\ Tallies(v, w)
  <2> DEFINE n == s.count + (IF w.was.liked THEN -1 ELSE 1)
             a == [s EXCEPT !.count = n]
             h == [a EXCEPT !.low = (s.low \/ n < 0)]
             row == [w.answer EXCEPT !.count = n]
             v == Answering(w, "done", row)
  <2>1. w.at = "owing" /\ UNCHANGED <<rows, ref, mode, postWrites, loads, dirty, spent, trusted, stale>>
    BY <1>6 DEF CountLike
  <2>2. writes' = (writes \ {w}) \cup {v} /\ server' = [server EXCEPT ![p] = h]
    BY <1>6, Zenon DEF CountLike, Turned, Answering, Recounted, a, h, row, v, n, s, p
  <2>3. n \in Int
    BY <1>1
  <2>4. n = s.count + (IF w.was.liked THEN -1 ELSE 1)
    OBVIOUS
  <2> HIDE DEF n
  <2>5. a \in Held /\ a.others = s.others /\ a.count = n
    BY <1>0, <2>3 DEF Held
  <2>6. (a.liked = s.liked) /\ (a.saved = s.saved) /\ (a.low = s.low) /\ (a.slipped = s.slipped)
    BY <1>0 DEF Held
  <2>7. s.low \in BOOLEAN
    BY <1>0 DEF Held
  <2> HIDE DEF a
  <2>8. h \in Held /\ h.others = s.others /\ h.count = n
    BY <2>5, <2>7 DEF Held
  <2>9. (h.liked = s.liked) /\ (h.saved = s.saved) /\ (h.slipped = s.slipped) /\ h.low = (s.low \/ n < 0)
    BY <2>5, <2>6 DEF Held
  <2> HIDE DEF h
  <2>10. row \in Cards /\ row.count = n
    BY <1>0, <2>3 DEF Cards
  <2>11. row.liked = w.answer.liked
    BY <1>0 DEF Cards
  <2> HIDE DEF row
  <2>12. /\ v \in Toggles /\ Kin(v, w) /\ v.list = w.list /\ v.at = "done"
         /\ v.answer = row /\ v.presses = w.presses /\ SameFlags(v, w)
    BY <1>0, <2>10, AnsweringFacts
  <2> HIDE DEF v
  <2>13. Serves(v, w) /\ server'[p] = h
    BY <1>0, <1>3, <2>1, <2>2, <2>8, <2>12 DEF SameFlags
  <2>14. server'[w.post].low <=> server[w.post].low \/ server'[w.post].count < 0
    BY <2>8, <2>9, <2>13 DEF s, p
  <2>15. Tallies(v, w)
    BY <2>1, <2>4, <2>8, <2>9, <2>10, <2>11, <2>12, <2>13, <2>14 DEF Tallies, SameFlags, s, p
  <2> QED  BY <2>13, <2>15
<1>7. ASSUME WriteSave(w)
      PROVE  \E v : Serves(v, w) /\ Saves(v, w)
  <2> DEFINE row == [w.answer EXCEPT !.saved = ~w.was.saved]
             v == Answered(w, row)
             h == [s EXCEPT !.saved = ~w.was.saved]
  <2>1. w.kind = "save" /\ w.at = "sent"
        /\ UNCHANGED <<rows, ref, mode, postWrites, loads, dirty, spent, trusted, stale>>
    BY <1>7 DEF WriteSave
  <2>2. writes' = (writes \ {w}) \cup {v}
    BY <1>7, Zenon DEF WriteSave, Turned, Answered, row, v
  <2>3. server' = [server EXCEPT ![p] = h]
    BY <1>7 DEF WriteSave, s, p
  <2>4. h \in Held /\ h.others = s.others /\ h.count = s.count
    BY <1>0, <1>2 DEF Held
  <2>5. (h.saved = ~w.was.saved) /\ (h.liked = s.liked) /\ (h.low = s.low) /\ (h.slipped = s.slipped)
    BY <1>0, <1>2 DEF Held
  <2> HIDE DEF h
  <2>6. row \in Cards /\ row.count = w.answer.count
    BY <1>0, <1>2 DEF Cards
  <2>7. row.saved = ~w.was.saved
    BY <1>0, <1>2 DEF Cards
  <2> HIDE DEF row
  <2>8. /\ v \in Toggles /\ Kin(v, w) /\ v.list = w.list /\ v.at = "done" /\ v.answer = row
        /\ v.presses = w.presses /\ v.applied /\ (v.alone <=> w.alone) /\ (v.sound <=> w.sound)
    BY <1>0, <2>6, AnsweredFacts
  <2> HIDE DEF v
  <2>9. Serves(v, w) /\ server'[p] = h
    BY <1>0, <1>3, <2>1, <2>2, <2>3, <2>4, <2>8
  <2>10. Saves(v, w)
    BY <2>1, <2>4, <2>5, <2>6, <2>7, <2>8, <2>9 DEF Saves, s, p
  <2> QED  BY <2>9, <2>10
<1>8. ASSUME LoseWrite(w)
      PROVE  \E v : Serves(v, w) /\ Loses(v, w)
  <2> DEFINE v == Missed(w)
             h == [s EXCEPT !.slipped = (s.slipped \/ w.at = "owing")]
  <2>1. /\ Spend("losses", MaxLosses) /\ writes' = (writes \ {w}) \cup {v}
        /\ UNCHANGED <<rows, ref, mode, postWrites, loads, dirty, trusted, stale>>
    BY <1>8, Zenon DEF LoseWrite, Turned, Missed
  <2>2. server' = [server EXCEPT ![p] = h]
    BY <1>8 DEF LoseWrite, s, p
  <2>3. h \in Held /\ h.others = s.others /\ h.count = s.count
    BY <1>0, <1>2 DEF Held
  <2>4. (h.saved = s.saved) /\ (h.liked = s.liked) /\ (h.low = s.low)
        /\ h.slipped = (s.slipped \/ w.at = "owing")
    BY <1>0 DEF Held
  <2> HIDE DEF h
  <2>5. /\ v \in Toggles /\ Kin(v, w) /\ v.list = w.list /\ v.at = "failed"
        /\ v.answer = w.answer /\ v.presses = w.presses /\ SameFlags(v, w)
    BY <1>0, MissedFacts
  <2> HIDE DEF v
  <2>6. spent' \in Spendings /\ spent'.presses = spent.presses
    BY <1>0, <2>1, SpendFacts
  <2>7. Serves(v, w) /\ server'[p] = h
    BY <1>0, <1>3, <2>1, <2>2, <2>3, <2>5, <2>6 DEF SameFlags
  <2>8. Loses(v, w)
    BY <2>3, <2>4, <2>5, <2>7 DEF Loses, SameFlags, s, p
  <2> QED  BY <2>7, <2>8
<1> QED  BY <1>4, <1>5, <1>6, <1>7, <1>8

\* What settling a write does: its answer, or its snapshot, is published.
LEMMA SettleFacts ==
  ASSUME PostTypes, NEW w \in writes, SettleWrite(w)
  PROVE  /\ w \in Toggles /\ w.at \in {"done", "failed"} /\ writes' = writes \ {w}
         /\ (IF w.at = "done" THEN w.answer ELSE w.was) \in Cards
         /\ rows' = Published(w.post, IF w.at = "done" THEN w.answer ELSE w.was, w.kind) /\ ref' = rows'
         /\ dirty' = (dirty \/ (w.kind = "save" /\ w.at = "done"))
         /\ postWrites' = IF w.list # "feed" THEN postWrites + (-w.presses) ELSE postWrites
         /\ trusted' = IF w.alone /\ (w.at = "done" \/ (w.sound /\ ~w.applied)) THEN trusted
                       ELSE [l \in Lists |-> trusted[l] \ {w.post}]
         /\ UNCHANGED <<server, mode, loads, spent, stale>>
<1>1. w \in Toggles
  BY DEF PostTypes
<1>2. (IF w.at = "done" THEN w.answer ELSE w.was) \in Cards
  BY <1>1 DEF Toggles
<1>3. rows' = Published(w.post, IF w.at = "done" THEN w.answer ELSE w.was, w.kind)
  <2>1. Publish(w.post, LAMBDA row : SettledRow(w, row))
    BY DEF SettleWrite
  <2> QED  BY <2>1 DEF Publish, Published, SettledRow
<1>4. postWrites' = IF w.list # "feed" THEN postWrites + (-w.presses) ELSE postWrites
  BY DEF SettleWrite, Tracked
<1>5. /\ w.at \in {"done", "failed"} /\ writes' = writes \ {w} /\ ref' = rows'
      /\ dirty' = (dirty \/ (w.kind = "save" /\ w.at = "done"))
      /\ trusted' = IF w.alone /\ (w.at = "done" \/ (w.sound /\ ~w.applied)) THEN trusted
                    ELSE [l \in Lists |-> trusted[l] \ {w.post}]
      /\ UNCHANGED <<server, mode, loads, spent, stale>>
  BY DEF SettleWrite
<1> QED  BY <1>1, <1>2, <1>3, <1>4, <1>5

\* The pages a load reads.
FirstRead(r) ==
  [p \in Posts |-> IF r.list = "feed" \/ server[p].saved THEN Row(FALSE, server[p].count, FALSE)
                   ELSE NotListed]
ThenRead(r) ==
  [p \in Posts |-> IF r.page[p].listed THEN Row(server[p].liked, r.page[p].count, server[p].saved)
                   ELSE NotListed]

\* What reading the posts, and then the flags, makes of a load.
LEMMA ReadFacts ==
  ASSUME PostTypes, NEW r \in loads
  PROVE  /\ FirstRead(r) \in CardLists /\ ThenRead(r) \in CardLists
         /\ \A p \in Posts :
              /\ FirstRead(r)[p].listed = (r.list = "feed" \/ server[p].saved)
              /\ FirstRead(r)[p].listed => FirstRead(r)[p].count = server[p].count
              /\ ThenRead(r)[p].listed = r.page[p].listed
              /\ ThenRead(r)[p].listed =>
                   /\ \A k \in Kinds : Flag(ThenRead(r)[p], k) = Flag(server[p], k)
                   /\ ThenRead(r)[p].count = r.page[p].count
<1>0. r \in ListLoads
  BY DEF PostTypes
<1>1. ASSUME NEW p \in Posts
      PROVE  /\ FirstRead(r)[p] \in Cards \cup {NotListed}
             /\ ThenRead(r)[p] \in Cards \cup {NotListed}
             /\ FirstRead(r)[p].listed = (r.list = "feed" \/ server[p].saved)
             /\ FirstRead(r)[p].listed => FirstRead(r)[p].count = server[p].count
             /\ ThenRead(r)[p].listed = r.page[p].listed
             /\ ThenRead(r)[p].listed =>
                  /\ \A k \in Kinds : Flag(ThenRead(r)[p], k) = Flag(server[p], k)
                  /\ ThenRead(r)[p].count = r.page[p].count
  <2>1. server[p] \in Held
    BY DEF PostTypes
  <2>2. server[p].liked \in BOOLEAN /\ server[p].count \in Int
    BY <2>1 DEF Held
  <2>3. server[p].saved \in BOOLEAN
    BY <2>1 DEF Held
  <2>4. r.page[p] \in Cards \cup {NotListed}
    BY <1>0 DEF ListLoads, CardLists
  <2>5. ASSUME NEW liked \in BOOLEAN, NEW saved \in BOOLEAN, NEW n \in Int
        PROVE  /\ Row(liked, n, saved) \in Cards /\ Row(liked, n, saved).listed = TRUE
               /\ Row(liked, n, saved).liked = liked /\ Row(liked, n, saved).saved = saved
               /\ Row(liked, n, saved).count = n
    BY RowFacts
  <2>6. NotListed.listed = FALSE
    BY DEF NotListed
  <2>7. /\ FirstRead(r)[p] \in Cards \cup {NotListed}
        /\ FirstRead(r)[p].listed = (r.list = "feed" \/ server[p].saved)
        /\ FirstRead(r)[p].listed => FirstRead(r)[p].count = server[p].count
    <3> DEFINE c == Row(FALSE, server[p].count, FALSE)
    <3>1. c \in Cards /\ c.listed = TRUE /\ c.count = server[p].count
      BY <2>2, <2>5
    <3>2. FirstRead(r)[p] = IF r.list = "feed" \/ server[p].saved THEN c ELSE NotListed
      BY DEF FirstRead
    <3> HIDE DEF c
    <3> QED  BY <2>3, <2>6, <3>1, <3>2
  <2>8. /\ ThenRead(r)[p] \in Cards \cup {NotListed}
        /\ ThenRead(r)[p].listed = r.page[p].listed
        /\ ThenRead(r)[p].listed =>
             /\ \A k \in Kinds : Flag(ThenRead(r)[p], k) = Flag(server[p], k)
             /\ ThenRead(r)[p].count = r.page[p].count
    <3> DEFINE c == Row(server[p].liked, r.page[p].count, server[p].saved)
    <3>1. ThenRead(r)[p] = IF r.page[p].listed THEN c ELSE NotListed
      BY DEF ThenRead
    <3>2. CASE r.page[p].listed
      <4>1. r.page[p] \in Cards
        BY <2>4, <3>2, ListedIsCard
      <4>2. r.page[p].count \in Int /\ r.page[p].listed = TRUE
        BY <4>1 DEF Cards
      <4>3. /\ c \in Cards /\ c.listed = TRUE /\ c.liked = server[p].liked
            /\ c.saved = server[p].saved /\ c.count = r.page[p].count
        BY <2>2, <2>3, <4>2 DEF Cards, Row
      <4> HIDE DEF c
      <4> QED  BY <3>1, <3>2, <4>2, <4>3 DEF Flag
    <3>3. CASE ~r.page[p].listed
      <4>1. r.page[p] = NotListed
        BY <2>4, <3>3 DEF Cards
      <4> QED  BY <2>6, <3>1, <3>3, <4>1
    <3> QED  BY <3>2, <3>3
  <2> QED  BY <2>7, <2>8
<1>2. FirstRead(r) = [p \in Posts |-> FirstRead(r)[p]] /\ ThenRead(r) = [p \in Posts |-> ThenRead(r)[p]]
  BY DEF FirstRead, ThenRead
<1> QED  BY <1>1, <1>2 DEF CardLists

\* How a load goes on.
LEMMA LoadSteps ==
  ASSUME PostTypes, NEW r \in loads
  PROVE  /\ r \in ListLoads
         /\ ReadPosts(r) => loads' = (loads \ {r}) \cup {ReadAs(r, "read", FirstRead(r))}
         /\ ReadFlags(r) => loads' = (loads \ {r}) \cup {ReadAs(r, "done", ThenRead(r))}
         /\ LoseLoad(r) => loads' = (loads \ {r}) \cup {LostLoad(r)}
         /\ ReadPosts(r) \/ ReadFlags(r) \/ LoseLoad(r) =>
              /\ UNCHANGED <<server, rows, ref, mode, postWrites, writes, dirty, trusted, stale>>
              /\ spent' \in Spendings /\ spent'.presses = spent.presses
<1>0. r \in ListLoads /\ spent \in Spendings
  BY DEF PostTypes, Spendings
<1>1. ReadPosts(r) => loads' = (loads \ {r}) \cup {ReadAs(r, "read", FirstRead(r))}
  BY Zenon DEF ReadPosts, ReadAs, FirstRead
<1>2. ReadFlags(r) => loads' = (loads \ {r}) \cup {ReadAs(r, "done", ThenRead(r))}
  BY Zenon DEF ReadFlags, ReadAs, ThenRead
<1>3. LoseLoad(r) => loads' = (loads \ {r}) \cup {LostLoad(r)}
  BY DEF LoseLoad, LostLoad
<1>4. ReadPosts(r) \/ ReadFlags(r) =>
        UNCHANGED <<server, rows, ref, mode, postWrites, writes, dirty, trusted, stale, spent>>
  BY Zenon DEF ReadPosts, ReadFlags
<1>5. LoseLoad(r) => /\ UNCHANGED <<server, rows, ref, mode, postWrites, writes, dirty, trusted, stale>>
                     /\ Spend("losses", MaxLosses)
  BY DEF LoseLoad
<1> QED  BY <1>0, <1>1, <1>2, <1>3, <1>4, <1>5, SpendFacts

----------------------------------------------------------------------------
(***************************************************************************)
(* What each step keeps.                                                   *)
(***************************************************************************)

\* A flag is the heart of a like and the bookmark of a save.
LEMMA FlagIsField ==
  ASSUME NEW row
  PROVE  Flag(row, "like") = row.liked /\ Flag(row, "save") = row.saved
BY DEF Flag

\* Other people's likes change a count and no flag.
LEMMA OtherLikesKeeps ==
  ASSUME PostInv, NEW p \in Posts, OtherLikes(p)
  PROVE  PostInv'
<1>0. /\ PostTypes /\ WriteInv /\ AnswerInv /\ RefInv /\ CleanInv
      /\ PaneInv /\ TrustInv /\ SavedInv /\ PressInv /\ spent.presses \in Nat
  BY DEF PostInv, PostTypes
<1>1. /\ server' \in [Posts -> Held] /\ \A q \in Posts : q # p => server'[q] = server[q]
      /\ (server'[p].liked = server[p].liked) /\ (server'[p].saved = server[p].saved)
      /\ spent' \in Spendings /\ spent'.presses = spent.presses + 1
      /\ \A q \in Posts : server'[q].others <= spent'.presses
      /\ UNCHANGED <<rows, ref, mode, postWrites, writes, loads, dirty, trusted, stale>>
  BY <1>0, OtherLikesFacts
<1>2. \A q \in Posts, k \in Kinds : Flag(server'[q], k) = Flag(server[q], k)
  BY <1>1 DEF Flag
<1>3. \A q \in Posts : server'[q].saved = server[q].saved
  BY <1>1
<1>4. PostTypes'
  BY <1>0, <1>1 DEF PostTypes, Spendings
<1>5. \A w \in writes : w.post \in Posts /\ w.kind \in Kinds /\ w.n \in Nat
  BY <1>0 DEF PostTypes, Toggles
<1>6. WriteInv'
  <2> SUFFICES ASSUME NEW v \in writes, NEW w \in writes
               PROVE  /\ w.n < spent'.presses /\ (v.n = w.n => v = w)
                      /\ v.post = w.post /\ v.kind = w.kind =>
                           /\ w.alone => v = w
                           /\ v.list = w.list /\ w.list # "gone" => v = w
    BY <1>1 DEF WriteInv
  <2>1. w.n < spent'.presses
    <3>1. w.n < spent.presses
      BY <1>0 DEF WriteInv
    <3> QED  BY <1>0, <1>1, <1>5, <3>1
  <2> QED  BY <1>0, <2>1 DEF WriteInv
<1>7. AnswerInv'
  BY <1>0, <1>1, <1>2, <1>5 DEF AnswerInv, Told
<1>8. RefInv'
  BY <1>0, <1>1 DEF RefInv, Free
<1>9. CleanInv'
  BY <1>0, <1>1, <1>2, <1>3 DEF CleanInv
<1>10. TrustInv'
  <2>1. \A l \in Lists : trusted[l] \subseteq Posts
    BY <1>0 DEF PostTypes
  <2> QED  BY <1>0, <1>1, <1>2, <2>1 DEF TrustInv, Free
<1>11. SavedInv'
  <2>1. trusted["saved"] \subseteq Posts
    BY <1>0 DEF PostTypes, Lists
  <2> QED  BY <1>0, <1>1, <1>3, <2>1 DEF SavedInv, Loading
<1>12. PaneInv' /\ PressInv'
  <2>1. postWrites \in Nat /\ postWrites <= spent.presses
    BY <1>0, FS_CardinalityType DEF PressInv, ChipsMatchWrites
  <2>2. postWrites' <= spent'.presses
    BY <1>0, <1>1, <2>1
  <2> QED  BY <1>0, <1>1, <2>2 DEF PaneInv, PressInv, ChipsMatchWrites
<1> QED  BY <1>4, <1>6, <1>7, <1>8, <1>9, <1>10, <1>11, <1>12 DEF PostInv

\* A commit makes what is shown what is set.
LEMMA CommitKeeps ==
  ASSUME PostInv, CommitLists
  PROVE  PostInv'
<1>0. /\ PostTypes /\ WriteInv /\ AnswerInv /\ RefInv /\ CleanInv
      /\ PaneInv /\ TrustInv /\ SavedInv /\ PressInv
  BY DEF PostInv
<1>1. /\ UNCHANGED <<server, rows, mode, postWrites, writes, loads, dirty, spent, trusted, stale>>
      /\ ref' = rows
  BY DEF CommitLists
<1>2. PostTypes'
  BY <1>0, <1>1 DEF PostTypes
<1>3. WriteInv' /\ AnswerInv' /\ RefInv'
  BY <1>0, <1>1 DEF WriteInv, AnswerInv, RefInv
<1>4. CleanInv' /\ PaneInv' /\ TrustInv'
  BY <1>0, <1>1 DEF CleanInv, PaneInv, TrustInv, Free
<1>5. SavedInv' /\ PressInv'
  BY <1>0, <1>1 DEF SavedInv, Loading, PressInv, ChipsMatchWrites
<1> QED  BY <1>2, <1>3, <1>4, <1>5 DEF PostInv

\* A load that reads, or fails, says of its clean posts what the server holds.
LEMMA LoadKeeps ==
  ASSUME PostInv, NEW r \in loads, ReadPosts(r) \/ ReadFlags(r) \/ LoseLoad(r)
  PROVE  PostInv'
<1>0. /\ PostTypes /\ WriteInv /\ AnswerInv /\ RefInv /\ CleanInv
      /\ PaneInv /\ TrustInv /\ SavedInv /\ PressInv
  BY DEF PostInv
<1>1. /\ UNCHANGED <<server, rows, ref, mode, postWrites, writes, dirty, trusted, stale>>
      /\ spent' \in Spendings /\ spent'.presses = spent.presses
      /\ r \in ListLoads
  BY <1>0, LoadSteps
<1>2. PICK s \in ListLoads :
        /\ loads' = (loads \ {r}) \cup {s} /\ s.list = r.list /\ s.clean = r.clean
        /\ \A p \in r.clean :
             /\ s.at = "done" /\ s.page[p].listed => \A k \in Kinds : Flag(s.page[p], k) = Flag(server[p], k)
             /\ s.list = "saved" /\ s.at \in {"read", "done"} => s.page[p].listed = server[p].saved
  <2>0. r.clean \subseteq Posts /\ "read" \in {"read", "done"} /\ "done" \in {"read", "done"}
    BY <1>1 DEF ListLoads
  <2>1. CASE ReadPosts(r)
    <3> DEFINE s == ReadAs(r, "read", FirstRead(r))
    <3>1. loads' = (loads \ {r}) \cup {s}
      BY <1>0, <2>1, LoadSteps
    <3>2. /\ FirstRead(r) \in CardLists
          /\ \A p \in Posts : FirstRead(r)[p].listed = (r.list = "feed" \/ server[p].saved)
      BY <1>0, ReadFacts
    <3>3. /\ s \in ListLoads /\ s.list = r.list /\ s.at = "read" /\ s.page = FirstRead(r)
          /\ s.clean = r.clean
      BY <1>1, <2>0, <3>2, ReadAsFacts
    <3>4. \A p \in Posts : server[p].saved \in BOOLEAN
      <4>1. \A p \in Posts : server[p] \in Held
        BY <1>0 DEF PostTypes
      <4> QED  BY <4>1 DEF Held
    <3> HIDE DEF s
    <3> QED  BY <2>0, <3>1, <3>2, <3>3, <3>4
  <2>2. CASE ReadFlags(r)
    <3> DEFINE s == ReadAs(r, "done", ThenRead(r))
    <3>1. loads' = (loads \ {r}) \cup {s} /\ r.at = "read"
      BY <1>0, <2>2, LoadSteps, Zenon DEF ReadFlags
    <3>2. /\ ThenRead(r) \in CardLists
          /\ \A p \in Posts :
              /\ ThenRead(r)[p].listed = r.page[p].listed
              /\ ThenRead(r)[p].listed => \A k \in Kinds : Flag(ThenRead(r)[p], k) = Flag(server[p], k)
      BY <1>0, ReadFacts
    <3>3. /\ s \in ListLoads /\ s.list = r.list /\ s.at = "done" /\ s.page = ThenRead(r)
          /\ s.clean = r.clean
      BY <1>1, <2>0, <3>2, ReadAsFacts
    <3>4. \A p \in r.clean : r.list = "saved" => r.page[p].listed = server[p].saved
      BY <1>0, <2>0, <3>1 DEF CleanInv
    <3> HIDE DEF s
    <3> QED  BY <2>0, <3>1, <3>2, <3>3, <3>4
  <2>3. CASE LoseLoad(r)
    <3> DEFINE s == LostLoad(r)
    <3>1. loads' = (loads \ {r}) \cup {s}
      BY <1>0, <2>3, LoadSteps
    <3>2. s \in ListLoads /\ s.list = r.list /\ s.at = "failed" /\ s.clean = r.clean
      BY <1>1, LostLoadFacts
    <3> HIDE DEF s
    <3> QED  BY <3>1, <3>2
  <2> QED  BY <2>1, <2>2, <2>3
<1>3. PostTypes'
  BY <1>0, <1>1, <1>2 DEF PostTypes, Spendings
<1>4. WriteInv' /\ AnswerInv' /\ RefInv'
  BY <1>0, <1>1 DEF WriteInv, AnswerInv, RefInv, Free
<1>5. CleanInv'
  BY <1>0, <1>1, <1>2 DEF CleanInv
<1>6. PaneInv' /\ TrustInv'
  BY <1>0, <1>1, <1>2 DEF PaneInv, TrustInv, Free
<1>7. SavedInv'
  <2>1. Loading("saved")' <=> Loading("saved")
    BY <1>2 DEF Loading
  <2> QED  BY <1>0, <1>1, <2>1 DEF SavedInv
<1>8. PressInv'
  BY <1>0, <1>1 DEF PressInv, ChipsMatchWrites
<1> QED  BY <1>3, <1>4, <1>5, <1>6, <1>7, <1>8 DEF PostInv

\* A load that is sent has read nothing, and is clean of the posts no write is of.
LEMMA NewLoadFacts ==
  ASSUME NEW l \in Lists
  PROVE  /\ NewLoad(l) \in ListLoads /\ NewLoad(l).list = l /\ NewLoad(l).at = "sent"
         /\ \A p \in NewLoad(l).clean : \A w \in writes : w.post # p
<1>1. Nowhere \in CardLists
  BY DEF Nowhere, CardLists
<1>2. {p \in Posts : \A w \in writes : w.post # p} \in SUBSET Posts
  OBVIOUS
<1> QED  BY <1>1, <1>2 DEF NewLoad, ListLoads

\* What sending a load keeps.
LEMMA SentKeeps ==
  ASSUME PostInv, NEW l \in Lists, loads' = loads \cup {NewLoad(l)}, Mounted(l)',
         mode' \in {"outfits", "saved"}, mode = "saved" => mode' = "saved",
         dirty' \in BOOLEAN, spent' \in Spendings, spent'.presses = spent.presses,
         l = "saved" \/ (UNCHANGED <<mode, dirty>> /\ (stale' <=> stale)),
         UNCHANGED <<server, rows, ref, postWrites, writes, trusted>>
  PROVE  PostInv'
<1>0. /\ PostTypes /\ WriteInv /\ AnswerInv /\ RefInv /\ CleanInv
      /\ PaneInv /\ TrustInv /\ SavedInv /\ PressInv
  BY DEF PostInv
<1>1. /\ NewLoad(l) \in ListLoads /\ NewLoad(l).list = l /\ NewLoad(l).at = "sent"
      /\ \A p \in NewLoad(l).clean : \A w \in writes : w.post # p
  BY NewLoadFacts
<1>2. PostTypes'
  BY <1>0, <1>1 DEF PostTypes, Spendings
<1>3. WriteInv' /\ AnswerInv' /\ RefInv'
  BY <1>0 DEF WriteInv, AnswerInv, RefInv, Free
<1>4. CleanInv'
  BY <1>0, <1>1 DEF CleanInv
<1>5. PaneInv'
  <2>1. mode' = "outfits" => mode = "outfits" /\ l = "feed"
    BY <1>0 DEF Mounted, Lists, PostTypes
  <2> QED  BY <1>0, <1>1, <2>1 DEF PaneInv
<1>6. TrustInv'
  BY <1>0 DEF TrustInv, Free
<1>7. SavedInv'
  <2>1. CASE l = "saved"
    <3>1. Loading("saved")'
      BY <1>1, <2>1 DEF Loading
    <3> QED  BY <3>1 DEF SavedInv
  <2>2. CASE l # "saved"
    <3>1. Loading("saved")' <=> Loading("saved")
      BY <1>1, <2>2 DEF Loading
    <3> QED  BY <1>0, <2>2, <3>1 DEF SavedInv
  <2> QED  BY <2>1, <2>2
<1>8. PressInv'
  BY <1>0 DEF PressInv, ChipsMatchWrites
<1> QED  BY <1>2, <1>3, <1>4, <1>5, <1>6, <1>7, <1>8 DEF PostInv

\* A pull or a retry, and the pane of saved posts coming up or into focus.
LEMMA SendKeeps ==
  ASSUME PostInv, ShowSaved \/ FocusSaved \/ \E l \in Lists : RefreshList(l)
  PROVE  PostInv'
<1>0. /\ PostTypes /\ WriteInv /\ AnswerInv /\ RefInv /\ CleanInv
      /\ PaneInv /\ TrustInv /\ SavedInv /\ PressInv /\ "saved" \in Lists
  BY DEF PostInv, Lists
<1>1. spent \in Spendings /\ dirty \in BOOLEAN /\ mode \in {"outfits", "saved"}
  BY <1>0 DEF PostTypes, Spendings
<1>2. CASE ShowSaved
  <2>1. /\ Spend("loads", MaxLoads) /\ mode' = "saved" /\ loads' = loads \cup {NewLoad("saved")}
        /\ dirty' = FALSE /\ UNCHANGED <<server, rows, ref, postWrites, writes, trusted>>
    BY <1>2 DEF ShowSaved
  <2>2. spent' \in Spendings /\ spent'.presses = spent.presses
    BY <1>1, <2>1, SpendFacts
  <2>3. Mounted("saved")' /\ dirty' \in BOOLEAN /\ mode' \in {"outfits", "saved"}
    BY <2>1 DEF Mounted
  <2> QED  BY <1>0, <2>1, <2>2, <2>3, SentKeeps
<1>3. ASSUME FocusSaved, ~Loading("saved")
      PROVE  PostInv'
  <2>1. /\ Spend("loads", MaxLoads) /\ mode = "saved" /\ mode' = mode /\ loads' = loads \cup {NewLoad("saved")}
        /\ dirty' = FALSE /\ UNCHANGED <<server, rows, ref, postWrites, writes, trusted>>
    BY <1>3 DEF FocusSaved
  <2>2. spent' \in Spendings /\ spent'.presses = spent.presses
    BY <1>1, <2>1, SpendFacts
  <2>3. Mounted("saved")' /\ dirty' \in BOOLEAN /\ mode' \in {"outfits", "saved"}
    BY <2>1 DEF Mounted
  <2> QED  BY <1>0, <2>1, <2>2, <2>3, SentKeeps
<1>4. ASSUME FocusSaved, Loading("saved")
      PROVE  PostInv'
  <2>1. /\ dirty' = FALSE /\ stale' = TRUE
        /\ UNCHANGED <<server, rows, ref, mode, postWrites, writes, trusted, loads, spent>>
    BY <1>4 DEF FocusSaved
  <2>2. PostTypes'
    BY <1>0, <2>1 DEF PostTypes
  <2>3. WriteInv' /\ AnswerInv' /\ RefInv'
    BY <1>0, <2>1 DEF WriteInv, AnswerInv, RefInv, Free
  <2>4. CleanInv' /\ PaneInv' /\ TrustInv'
    BY <1>0, <2>1 DEF CleanInv, PaneInv, TrustInv, Free
  <2>5. SavedInv' /\ PressInv'
    BY <1>0, <2>1 DEF SavedInv, PressInv, ChipsMatchWrites
  <2> QED  BY <2>2, <2>3, <2>4, <2>5 DEF PostInv
<1>5. ASSUME NEW l \in Lists, RefreshList(l)
      PROVE  PostInv'
  <2>1. /\ Spend("loads", MaxLoads) /\ Mounted(l) /\ loads' = loads \cup {NewLoad(l)}
        /\ stale' = (stale /\ l # "saved")
        /\ UNCHANGED <<server, rows, ref, mode, postWrites, writes, dirty, trusted>>
    BY <1>5 DEF RefreshList
  <2>2. spent' \in Spendings /\ spent'.presses = spent.presses
    BY <1>1, <2>1, SpendFacts
  <2>3. Mounted(l)' /\ dirty' \in BOOLEAN /\ mode' \in {"outfits", "saved"}
    BY <1>1, <2>1 DEF Mounted
  <2>4. CASE l = "saved"
    BY <1>5, <2>1, <2>2, <2>3, <2>4, SentKeeps
  <2>5. CASE l # "saved"
    <3>1. stale' <=> stale
      BY <2>1, <2>5
    <3> QED  BY <2>1, <2>2, <2>3, <3>1, SentKeeps
  <2> QED  BY <2>4, <2>5
<1> QED  BY <1>2, <1>3, <1>4, <1>5

\* An answer replaces the rows by what the server holds of the posts nothing was
\* written to since; a failure leaves them, and says so.
LEMMA DeliverLoadKeeps ==
  ASSUME PostInv, NEW r \in loads, DeliverLoad(r)
  PROVE  PostInv'
<1>0. /\ PostTypes /\ WriteInv /\ AnswerInv /\ RefInv /\ CleanInv
      /\ PaneInv /\ TrustInv /\ SavedInv /\ PressInv
  BY DEF PostInv
<1>1. /\ r.at \in {"done", "failed"} /\ loads' = loads \ {r}
      /\ stale' = (stale \/ (r.list = "saved" /\ r.at = "failed"))
      /\ UNCHANGED <<server, mode, postWrites, writes, dirty, spent>>
  BY DEF DeliverLoad
<1>2. /\ r \in ListLoads /\ r.list \in Lists /\ r.clean \in SUBSET Posts
      /\ r.page \in CardLists
  BY <1>0 DEF PostTypes, ListLoads
<1>3. Loading("saved") => Loading("saved")' \/ r.list = "saved"
  BY <1>1 DEF Loading
<1>4. WriteInv' /\ AnswerInv' /\ PressInv'
  BY <1>0, <1>1 DEF WriteInv, AnswerInv, PressInv, ChipsMatchWrites
<1>5. CleanInv'
  BY <1>0, <1>1 DEF CleanInv
<1>6. CASE r.at = "done"
  <2>1. /\ rows' = [rows EXCEPT ![r.list] = r.page] /\ ref' = rows'
        /\ trusted' = [trusted EXCEPT ![r.list] = r.clean]
    BY <1>6 DEF DeliverLoad
  <2>2. r.page \in CardLists
    BY <1>2 DEF CardLists
  <2>3. /\ rows' \in [Lists -> CardLists] /\ rows'[r.list] = r.page
        /\ \A l \in Lists : l # r.list => rows'[l] = rows[l]
    BY <1>0, <1>2, <2>1, <2>2 DEF PostTypes
  <2>4. /\ trusted' \in [Lists -> SUBSET Posts] /\ trusted'[r.list] = r.clean
        /\ \A l \in Lists : l # r.list => trusted'[l] = trusted[l]
    BY <1>0, <1>2, <2>1 DEF PostTypes
  <2>5. PostTypes'
    BY <1>0, <1>1, <2>1, <2>3, <2>4 DEF PostTypes
  <2>6. RefInv'
    BY <2>1 DEF RefInv
  <2>7. PaneInv'
    <3>1. mode = "outfits" => r.list # "saved"
      BY <1>0 DEF PaneInv
    <3> QED  BY <1>0, <1>1, <2>3, <3>1 DEF PaneInv, Lists
  <2>8. TrustInv'
    <3> SUFFICES ASSUME NEW l \in Lists, NEW p \in trusted'[l], NEW k \in Kinds,
                        rows'[l][p].listed, Free(p, k)'
                 PROVE  Flag(rows'[l][p], k) = Flag(server'[p], k)
      BY DEF TrustInv
    <3>1. CASE l = r.list
      <4>1. p \in r.clean /\ p \in Posts /\ r.page[p].listed /\ rows'[l][p] = r.page[p]
        BY <1>2, <2>3, <2>4, <3>1
      <4>2. Flag(r.page[p], k) = Flag(server[p], k)
        BY <1>0, <1>6, <4>1 DEF CleanInv
      <4> QED  BY <1>1, <4>1, <4>2
    <3>2. CASE l # r.list
      <4>1. p \in trusted[l] /\ rows[l][p].listed /\ Free(p, k) /\ rows'[l][p] = rows[l][p]
        BY <1>1, <2>3, <2>4, <3>2 DEF Free
      <4> QED  BY <1>0, <1>1, <4>1 DEF TrustInv
    <3> QED  BY <3>1, <3>2
  <2>9. SavedInv'
    <3>1. CASE r.list = "saved"
      <4>1. \A p \in trusted'["saved"] : rows'["saved"][p].listed = server[p].saved
        BY <1>0, <1>2, <1>6, <2>3, <2>4, <3>1 DEF CleanInv
      <4> QED  BY <1>1, <4>1 DEF SavedInv
    <3>2. CASE r.list # "saved"
      <4>1. rows'["saved"] = rows["saved"] /\ trusted'["saved"] = trusted["saved"]
            /\ (stale' <=> stale)
        BY <1>1, <2>3, <2>4, <3>2 DEF Lists
      <4> QED  BY <1>0, <1>1, <1>3, <3>2, <4>1 DEF SavedInv
    <3> QED  BY <3>1, <3>2
  <2> QED  BY <1>4, <1>5, <2>5, <2>6, <2>7, <2>8, <2>9 DEF PostInv
<1>7. CASE r.at # "done"
  <2>1. r.at = "failed" /\ UNCHANGED <<rows, ref, trusted>>
    BY <1>1, <1>7 DEF DeliverLoad
  <2>2. PostTypes'
    BY <1>0, <1>1, <2>1 DEF PostTypes
  <2>3. RefInv' /\ PaneInv' /\ TrustInv'
    BY <1>0, <1>1, <2>1 DEF RefInv, PaneInv, TrustInv, Free
  <2>4. SavedInv'
    <3>1. stale' => stale \/ r.list = "saved"
      BY <1>1
    <3>2. ~stale' => r.list # "saved" /\ ~stale
      BY <1>1, <2>1
    <3> QED  BY <1>0, <1>1, <1>3, <2>1, <3>2 DEF SavedInv
  <2> QED  BY <1>4, <1>5, <2>2, <2>3, <2>4 DEF PostInv
<1> QED  BY <1>6, <1>7

\* A step that changes neither which post a write is of nor how many presses the
\* chips wait for it.
LEMMA SamePresses ==
  ASSUME NEW V, NEW W,
         \A v \in V : \E w \in W : w.n = v.n /\ w.presses = v.presses /\ (w.list = "feed" <=> v.list = "feed"),
         \A w \in W : \E v \in V : w.n = v.n /\ w.presses = v.presses /\ (w.list = "feed" <=> v.list = "feed")
  PROVE  Presses(V) = Presses(W)
<1>1. ASSUME NEW e, e \in Presses(V)
      PROVE  e \in Presses(W)
  <2>1. PICK v \in V : v.list # "feed" /\ e \in {v.n} \X (1..v.presses)
    BY <1>1 DEF Presses
  <2>2. PICK w \in W : w.n = v.n /\ w.presses = v.presses /\ (w.list = "feed" <=> v.list = "feed")
    OBVIOUS
  <2> QED  BY <2>1, <2>2 DEF Presses
<1>2. ASSUME NEW e, e \in Presses(W)
      PROVE  e \in Presses(V)
  <2>1. PICK w \in W : w.list # "feed" /\ e \in {w.n} \X (1..w.presses)
    BY <1>2 DEF Presses
  <2>2. PICK v \in V : w.n = v.n /\ w.presses = v.presses /\ (w.list = "feed" <=> v.list = "feed")
    OBVIOUS
  <2> QED  BY <2>1, <2>2 DEF Presses
<1> QED  BY <1>1, <1>2

\* The pane of saved posts goes, with its rows and its loads; its writes go on.
LEMMA ShowOutfitsKeeps ==
  ASSUME PostInv, ShowOutfits
  PROVE  PostInv'
<1>0. /\ PostTypes /\ WriteInv /\ AnswerInv /\ RefInv /\ CleanInv
      /\ PaneInv /\ TrustInv /\ SavedInv /\ PressInv
      /\ writes \subseteq Toggles /\ "saved" \in Lists
  BY DEF PostInv, PostTypes, Lists
<1>1. /\ mode' = "outfits"
      /\ rows' = [rows EXCEPT !["saved"] = Nowhere] /\ ref' = [ref EXCEPT !["saved"] = Nowhere]
      /\ trusted' = [trusted EXCEPT !["saved"] = Posts]
      /\ loads' = {r \in loads : r.list = "feed"}
      /\ UNCHANGED <<server, postWrites, dirty, spent>>
  BY DEF ShowOutfits
<1>2. writes' = {IF w.list = "saved" THEN Unmounted(w) ELSE w : w \in writes}
  BY Zenon DEF ShowOutfits, Unmounted
<1>3. ASSUME NEW v \in writes'
      PROVE  /\ v \in Toggles /\ v.list # "saved"
             /\ \E w \in writes : /\ Kin(v, w) /\ SameFlags(v, w) /\ v.at = w.at /\ v.answer = w.answer
                                  /\ v.presses = w.presses
                                  /\ v.list = IF w.list = "saved" THEN "gone" ELSE w.list
  <2>1. PICK w \in writes : v = IF w.list = "saved" THEN Unmounted(w) ELSE w
    BY <1>2
  <2>2. CASE w.list = "saved"
    BY <1>0, <2>1, <2>2, UnmountedFacts
  <2>3. CASE w.list # "saved"
    BY <1>0, <2>1, <2>3 DEF Kin, SameFlags
  <2> QED  BY <2>2, <2>3
<1>4. ASSUME NEW w \in writes
      PROVE  \E v \in writes' : /\ Kin(v, w) /\ v.presses = w.presses
                                /\ v.list = IF w.list = "saved" THEN "gone" ELSE w.list
  <2>1. CASE w.list = "saved"
    <3>1. Unmounted(w) \in writes'
      BY <1>2, <2>1
    <3> QED  BY <1>0, <2>1, <3>1, UnmountedFacts
  <2>2. CASE w.list # "saved"
    <3>1. w \in writes'
      BY <1>2, <2>2
    <3> QED  BY <2>2, <3>1 DEF Kin
  <2> QED  BY <2>1, <2>2
<1>5. \A p, k : Free(p, k)' <=> Free(p, k)
  BY <1>3, <1>4 DEF Free, Kin
<1>6. /\ rows' \in [Lists -> CardLists] /\ ref' \in [Lists -> CardLists]
      /\ trusted' \in [Lists -> SUBSET Posts]
      /\ rows'["saved"] = Nowhere /\ ref'["saved"] = Nowhere
      /\ \A l \in Lists : l # "saved" =>
           rows'[l] = rows[l] /\ ref'[l] = ref[l] /\ trusted'[l] = trusted[l]
  <2>1. Nowhere \in CardLists
    BY DEF Nowhere, CardLists
  <2> QED  BY <1>0, <1>1, <2>1 DEF PostTypes
<1>7. \A p \in Posts : ~Nowhere[p].listed /\ Nowhere[p] = NotListed
  BY DEF Nowhere, NotListed
<1>8. PostTypes'
  BY <1>0, <1>1, <1>3, <1>6 DEF PostTypes
<1>9. WriteInv'
  <2> SUFFICES ASSUME NEW v \in writes', NEW w \in writes'
               PROVE  /\ w.n < spent'.presses /\ (v.n = w.n => v = w)
                      /\ v.post = w.post /\ v.kind = w.kind =>
                           /\ w.alone => v = w
                           /\ v.list = w.list /\ w.list # "gone" => v = w
    BY DEF WriteInv
  <2>1. PICK a \in writes : v = IF a.list = "saved" THEN Unmounted(a) ELSE a
    BY <1>2
  <2>2. PICK b \in writes : w = IF b.list = "saved" THEN Unmounted(b) ELSE b
    BY <1>2
  <2>3. /\ Kin(v, a) /\ SameFlags(v, a) /\ v.list = IF a.list = "saved" THEN "gone" ELSE a.list
    BY <1>0, <2>1, UnmountedFacts DEF Kin, SameFlags
  <2>4. /\ Kin(w, b) /\ SameFlags(w, b) /\ w.list = IF b.list = "saved" THEN "gone" ELSE b.list
    BY <1>0, <2>2, UnmountedFacts DEF Kin, SameFlags
  <2>5. /\ b.n < spent.presses /\ (a.n = b.n => a = b)
        /\ a.post = b.post /\ a.kind = b.kind =>
             /\ b.alone => a = b
             /\ a.list = b.list /\ b.list # "gone" => a = b
    BY <1>0 DEF WriteInv
  <2> QED  BY <1>1, <2>1, <2>2, <2>3, <2>4, <2>5 DEF Kin, SameFlags
<1>10. AnswerInv'
  <2> SUFFICES ASSUME NEW v \in writes'
               PROVE  Told(v, server'[v.post])
    BY DEF AnswerInv
  <2>1. PICK w \in writes : Kin(v, w) /\ SameFlags(v, w) /\ v.at = w.at /\ v.answer = w.answer
    BY <1>3
  <2> QED  BY <1>0, <1>1, <2>1 DEF AnswerInv, Told, Kin, SameFlags
<1>11. RefInv'
  <2> SUFFICES ASSUME NEW l \in Lists, NEW p \in Posts
               PROVE  /\ ref'[l][p].listed = rows'[l][p].listed
                      /\ \A k \in Kinds : rows'[l][p].listed /\ Free(p, k)' =>
                           Flag(ref'[l][p], k) = Flag(rows'[l][p], k)
    BY DEF RefInv
  <2>1. CASE l = "saved"
    BY <1>6, <1>7, <2>1
  <2>2. CASE l # "saved"
    BY <1>0, <1>5, <1>6, <2>2 DEF RefInv
  <2> QED  BY <2>1, <2>2
<1>12. CleanInv'
  BY <1>0, <1>1, <1>3 DEF CleanInv, Kin
<1>13. PaneInv'
  BY <1>1, <1>6 DEF PaneInv
<1>14. TrustInv'
  <2> SUFFICES ASSUME NEW l \in Lists, NEW p \in trusted'[l], NEW k \in Kinds,
                      rows'[l][p].listed, Free(p, k)'
               PROVE  Flag(rows'[l][p], k) = Flag(server'[p], k)
    BY DEF TrustInv
  <2>1. l # "saved"
    <3>1. p \in Posts
      BY <1>6
    <3> QED  BY <1>6, <1>7, <3>1
  <2>2. p \in trusted[l] /\ rows[l][p].listed /\ Free(p, k) /\ rows'[l][p] = rows[l][p]
    BY <1>5, <1>6, <2>1
  <2> QED  BY <1>0, <1>1, <2>2 DEF TrustInv
<1>15. SavedInv'
  BY <1>1 DEF SavedInv
<1>16. PressInv'
  <2>1. \A v \in writes' : \E w \in writes :
          w.n = v.n /\ w.presses = v.presses /\ (w.list = "feed" <=> v.list = "feed")
    <3> SUFFICES ASSUME NEW v \in writes'
                 PROVE  \E w \in writes :
                          w.n = v.n /\ w.presses = v.presses /\ (w.list = "feed" <=> v.list = "feed")
      OBVIOUS
    <3>1. PICK w \in writes : /\ Kin(v, w) /\ v.presses = w.presses
                              /\ v.list = IF w.list = "saved" THEN "gone" ELSE w.list
      BY <1>3
    <3> QED  BY <3>1 DEF Kin
  <2>2. \A w \in writes : \E v \in writes' :
          w.n = v.n /\ w.presses = v.presses /\ (w.list = "feed" <=> v.list = "feed")
    <3> SUFFICES ASSUME NEW w \in writes
                 PROVE  \E v \in writes' :
                          w.n = v.n /\ w.presses = v.presses /\ (w.list = "feed" <=> v.list = "feed")
      OBVIOUS
    <3>1. PICK v \in writes' : /\ Kin(v, w) /\ v.presses = w.presses
                               /\ v.list = IF w.list = "saved" THEN "gone" ELSE w.list
      BY <1>4
    <3> QED  BY <3>1 DEF Kin
  <2>3. Presses(writes') = Presses(writes)
    BY <2>1, <2>2, SamePresses
  <2> QED  BY <1>0, <1>1, <2>3 DEF PressInv, ChipsMatchWrites, Presses
<1> QED
  BY <1>8, <1>9, <1>10, <1>11, <1>12, <1>13, <1>14, <1>15, <1>16 DEF PostInv

\* A write that goes on stays its post's and its list's.
LEMMA TurnedKeeps ==
  ASSUME PostTypes, WriteInv, RefInv, PressInv, NEW w \in writes, NEW v \in Toggles,
         Kin(v, w), v.list = w.list, v.presses = w.presses, v.alone <=> w.alone,
         writes' = (writes \ {w}) \cup {v}, spent'.presses = spent.presses,
         UNCHANGED <<rows, ref, postWrites>>
  PROVE  /\ writes' \subseteq Toggles /\ WriteInv' /\ RefInv' /\ PressInv'
         /\ \A p, k : Free(p, k)' <=> Free(p, k)
         /\ \A p : (\A x \in writes' : x.post # p) <=> (\A x \in writes : x.post # p)
<1>1. writes' \subseteq Toggles
  BY DEF PostTypes
<1>2. WriteInv'
  <2> SUFFICES ASSUME NEW x \in writes', NEW y \in writes'
               PROVE  /\ y.n < spent'.presses /\ (x.n = y.n => x = y)
                      /\ x.post = y.post /\ x.kind = y.kind =>
                           /\ y.alone => x = y
                           /\ x.list = y.list /\ y.list # "gone" => x = y
    BY DEF WriteInv
  <2> DEFINE a == IF x = v THEN w ELSE x
             b == IF y = v THEN w ELSE y
  <2>1. a \in writes /\ Kin(x, a) /\ x.list = a.list /\ (x.alone <=> a.alone) /\ (a = w => x = v)
    BY DEF Kin
  <2>2. b \in writes /\ Kin(y, b) /\ y.list = b.list /\ (y.alone <=> b.alone) /\ (b = w => y = v)
    BY DEF Kin
  <2>3. a = b => x = y
    BY <2>1, <2>2
  <2>4. /\ b.n < spent.presses /\ (a.n = b.n => a = b)
        /\ a.post = b.post /\ a.kind = b.kind =>
             /\ b.alone => a = b
             /\ a.list = b.list /\ b.list # "gone" => a = b
    BY <2>1, <2>2 DEF WriteInv
  <2> HIDE DEF a, b
  <2> QED  BY <2>1, <2>2, <2>3, <2>4 DEF Kin
<1>3. /\ \A p, k : Free(p, k)' <=> Free(p, k)
      /\ \A p : (\A x \in writes' : x.post # p) <=> (\A x \in writes : x.post # p)
  BY DEF Free, Kin
<1>4. RefInv'
  BY <1>3 DEF RefInv
<1>5. Presses(writes') = Presses(writes)
  <2>1. \A x \in writes' : \E y \in writes :
          y.n = x.n /\ y.presses = x.presses /\ (y.list = "feed" <=> x.list = "feed")
    BY DEF Kin
  <2>2. \A y \in writes : \E x \in writes' :
          y.n = x.n /\ y.presses = x.presses /\ (y.list = "feed" <=> x.list = "feed")
    BY DEF Kin
  <2> QED  BY <2>1, <2>2, SamePresses
<1>6. PressInv'
  BY <1>5 DEF PressInv, ChipsMatchWrites, Presses
<1> QED  BY <1>1, <1>2, <1>3, <1>4, <1>6

\* A write that is served or lost: the server holds what it is told, and what is
\* lost is no longer reported.
LEMMA ServeKeeps ==
  ASSUME PostInv, NEW w \in writes, NEW v, Serves(v, w),
         Finds(v, w) \/ Writes(v, w) \/ Tallies(v, w) \/ Saves(v, w) \/ Loses(v, w)
  PROVE  PostInv'
<1>0. /\ PostTypes /\ WriteInv /\ AnswerInv /\ RefInv /\ CleanInv
      /\ PaneInv /\ TrustInv /\ SavedInv /\ PressInv
  BY DEF PostInv
<1>1. /\ v \in Toggles /\ writes' = (writes \ {w}) \cup {v}
      /\ Kin(v, w) /\ v.list = w.list /\ v.presses = w.presses
      /\ (v.alone <=> w.alone) /\ (v.sound <=> w.sound)
      /\ server' \in [Posts -> Held] /\ \A q \in Posts : server'[q].others = server[q].others
      /\ \A q \in Posts : q # w.post => server'[q] = server[q]
      /\ spent' \in Spendings /\ spent'.presses = spent.presses
      /\ UNCHANGED <<rows, ref, mode, postWrites, loads, dirty, trusted, stale>>
  BY DEF Serves
<1>2. w \in Toggles /\ w.post \in Posts /\ w.kind \in Kinds /\ Told(w, server[w.post])
  BY <1>0 DEF PostTypes, Toggles, AnswerInv
<1>3. /\ Told(v, server'[w.post])
      /\ \A k \in Kinds : k # w.kind => Flag(server'[w.post], k) = Flag(server[w.post], k)
      /\ w.applied => v.applied
      /\ v.applied \/ Flag(server'[w.post], w.kind) = Flag(server[w.post], w.kind)
  <2>1. CASE Finds(v, w)
    BY <1>1, <1>2, <2>1 DEF Finds, Told, Kin, Flag
  <2>2. CASE Writes(v, w)
    <3>1. w.kind = "like" /\ ~w.applied /\ w.answer.liked = ~w.was.liked
      BY <1>2, <2>2 DEF Writes, Told
    <3>2. Told(v, server'[w.post])
      BY <1>1, <2>2, <3>1 DEF Writes, Told, Kin, Flag
    <3> QED  BY <2>2, <3>1, <3>2 DEF Writes, Flag, Kinds
  <2>3. CASE Tallies(v, w)
    <3>1. w.kind = "like" /\ w.applied
      BY <1>2, <2>3 DEF Tallies, Told
    <3>2. Told(v, server'[w.post])
      BY <1>1, <1>2, <2>3, <3>1 DEF Tallies, Told, Kin, Flag
    <3> QED  BY <2>3, <3>1, <3>2 DEF Tallies, Flag, Kinds
  <2>4. CASE Saves(v, w)
    <3>1. Told(v, server'[w.post])
      BY <1>1, <2>4 DEF Saves, Told, Kin, Flag
    <3> QED  BY <2>4, <3>1 DEF Saves, Flag, Kinds
  <2>5. CASE Loses(v, w)
    BY <1>1, <1>2, <2>5 DEF Loses, Told, Kin, Flag, Kinds
  <2> QED  BY <2>1, <2>2, <2>3, <2>4, <2>5
<1>4. \A q \in Posts, k \in Kinds : q # w.post \/ k # w.kind =>
        Flag(server'[q], k) = Flag(server[q], k)
  BY <1>1, <1>3
<1>5. /\ writes' \subseteq Toggles /\ WriteInv' /\ RefInv' /\ PressInv'
      /\ \A p, k : Free(p, k)' <=> Free(p, k)
      /\ \A p : (\A x \in writes' : x.post # p) <=> (\A x \in writes : x.post # p)
  BY <1>0, <1>1, TurnedKeeps
<1>6. PostTypes'
  BY <1>0, <1>1, <1>5 DEF PostTypes, Spendings
<1>7. AnswerInv'
  <2> SUFFICES ASSUME NEW x \in writes'
               PROVE  Told(x, server'[x.post])
    BY DEF AnswerInv
  <2>1. CASE x = v
    BY <1>1, <1>3, <2>1 DEF Kin
  <2>2. CASE x # v
    <3>1. x \in writes /\ x # w /\ x.post \in Posts /\ x.kind \in Kinds /\ Told(x, server[x.post])
      BY <1>0, <1>1, <2>2 DEF PostTypes, Toggles, AnswerInv
    <3>2. x.alone => x.post # w.post \/ x.kind # w.kind
      BY <1>0, <3>1 DEF WriteInv
    <3>3. x.alone => Flag(server'[x.post], x.kind) = Flag(server[x.post], x.kind)
      BY <1>4, <3>1, <3>2
    <3> QED  BY <3>1, <3>3 DEF Told
  <2> QED  BY <2>1, <2>2
<1>8. CleanInv'
  <2>1. \A r \in loads, p \in Posts : p \in r.clean => p # w.post
    BY <1>0 DEF CleanInv
  <2>2. \A r \in loads, p \in Posts : p \in r.clean => server'[p] = server[p]
    BY <1>1, <2>1
  <2> QED  BY SMTT(30), <1>0, <1>1, <1>5, <2>2 DEF CleanInv
<1>9. PaneInv'
  BY <1>0, <1>1 DEF PaneInv
<1>10. TrustInv'
  <2> SUFFICES ASSUME NEW l \in Lists, NEW p \in trusted'[l], NEW k \in Kinds,
                      rows'[l][p].listed, Free(p, k)'
               PROVE  Flag(rows'[l][p], k) = Flag(server'[p], k)
    BY DEF TrustInv
  <2>1. p \in trusted[l] /\ rows[l][p].listed /\ Free(p, k) /\ p \in Posts
    BY <1>0, <1>1, <1>5 DEF PostTypes
  <2>2. p # w.post \/ k # w.kind
    BY <2>1 DEF Free
  <2> QED  BY <1>0, <1>1, <1>4, <2>1, <2>2 DEF TrustInv
<1>11. SavedInv'
  <2> SUFFICES ASSUME mode = "saved", ~Loading("saved"), ~stale, ~dirty, NEW p \in trusted["saved"],
                      server'[p].saved,
                      \A x \in writes' : ~(x.post = p /\ x.kind = "save" /\ x.applied)
               PROVE  rows["saved"][p].listed
    BY <1>1 DEF SavedInv, Loading
  <2>1. p \in Posts /\ "save" \in Kinds
    BY <1>0 DEF PostTypes, Lists, Kinds
  <2>2. p = w.post /\ w.kind = "save" => ~v.applied /\ ~w.applied
    BY <1>1, <1>3 DEF Kin
  <2>3. Flag(server'[p], "save") = Flag(server[p], "save")
    BY <1>3, <1>4, <2>1, <2>2
  <2>4. server[p].saved
    BY <2>3, FlagIsField
  <2>5. \A x \in writes : ~(x.post = p /\ x.kind = "save" /\ x.applied)
    BY <1>1, <2>2
  <2> QED  BY <1>0, <2>4, <2>5 DEF SavedInv
<1> QED  BY <1>5, <1>6, <1>7, <1>8, <1>9, <1>10, <1>11 DEF PostInv

\* A write begins sent, with one press, and from what the cards show.
LEMMA BegunFacts ==
  ASSUME PostTypes, NEW l \in Lists, NEW p \in Posts, NEW k \in Kinds, ref[l][p] \in Cards,
         NEW single \in BOOLEAN
  PROVE  LET b == Begun(l, p, k, single)
         IN /\ b \in Toggles /\ b.n = spent.presses /\ b.list = l /\ b.post = p /\ b.kind = k
            /\ b.was = ref[l][p] /\ b.at = "sent" /\ b.presses = 1
            /\ (b.alone <=> single) /\ (b.sound <=> p \in trusted[l]) /\ ~b.applied
<1>1. spent.presses \in Nat
  BY DEF PostTypes
<1>2. (p \in trusted[l]) \in BOOLEAN
  OBVIOUS
<1>3. Begun(l, p, k, single) \in Toggles
  BY <1>1, <1>2 DEF Begun, Toggles
<1>4. LET b == Begun(l, p, k, single)
      IN /\ b.n = spent.presses /\ b.list = l /\ b.post = p /\ b.kind = k
         /\ b.was = ref[l][p] /\ b.at = "sent" /\ b.presses = 1
  BY DEF Begun
<1>5. LET b == Begun(l, p, k, single)
      IN b.alone = single /\ b.sound = (p \in trusted[l]) /\ b.applied = FALSE
  BY DEF Begun
<1> QED  BY <1>3, <1>4, <1>5

\* A toggle begins: its flag is what is being written, and nothing else is.
LEMMA BeginKeeps ==
  ASSUME PostInv, NEW l \in Lists, NEW p \in Posts, NEW k \in Kinds, Press(l, p, k),
         Same(l, p, k) = {}
  PROVE  PostInv'
<1>0. /\ PostTypes /\ WriteInv /\ AnswerInv /\ RefInv /\ CleanInv
      /\ PaneInv /\ TrustInv /\ SavedInv /\ PressInv
  BY DEF PostInv
<1>1. /\ Mounted(l) /\ ref[l][p] \in Cards /\ Optimistic(ref[l][p], k) \in Cards
      /\ spent' \in Spendings /\ spent'.presses = spent.presses + 1
      /\ writes' = WithBegun(l, p, k)
      /\ loads' = {Unclean(r, p) : r \in loads}
      /\ rows' = Published(p, Optimistic(ref[l][p], k), k)
      /\ postWrites' = IF l # "feed" THEN postWrites + 1 ELSE postWrites
      /\ UNCHANGED <<server, ref, mode, dirty, trusted, stale>>
  BY <1>0, PressFacts
<1> DEFINE R == {w \in writes : w.post = p /\ w.kind = k /\ w.list # l}
           b == Begun(l, p, k, R = {})
<1>2. /\ b \in Toggles /\ b.n = spent.presses /\ b.list = l /\ b.post = p /\ b.kind = k
      /\ b.was = ref[l][p] /\ b.at = "sent" /\ b.presses = 1
      /\ (b.alone <=> R = {}) /\ (b.sound <=> p \in trusted[l]) /\ ~b.applied
  <2> DEFINE single == (R = {})
             c == Begun(l, p, k, single)
  <2>1. single \in BOOLEAN /\ (single <=> R = {})
    OBVIOUS
  <2>2. b = c
    OBVIOUS
  <2> HIDE DEF R, b, single
  <2>3. LET d == Begun(l, p, k, single)
        IN /\ d \in Toggles /\ d.n = spent.presses /\ d.list = l /\ d.post = p /\ d.kind = k
           /\ d.was = ref[l][p] /\ d.at = "sent" /\ d.presses = 1
           /\ (d.alone <=> single) /\ (d.sound <=> p \in trusted[l]) /\ ~d.applied
    BY ONLY <1>0, <1>1, <2>1, BegunFacts
  <2> QED  BY <2>1, <2>2, <2>3
<1> HIDE DEF b
<1>3. writes' = {IF w \in R THEN Rival(w) ELSE w : w \in writes} \cup {b}
  BY <1>1, Zenon DEF WithBegun, b, R
<1>4. \A w \in writes : ~(w.post = p /\ w.kind = k /\ w.list = l)
  BY DEF Same
<1>5. writes \subseteq Toggles /\ loads \subseteq ListLoads /\ spent.presses \in Nat
      /\ rows \in [Lists -> CardLists]
  BY <1>0 DEF PostTypes
<1>6. ASSUME NEW x \in writes', x # b
      PROVE  \E w \in writes : /\ x = (IF w \in R THEN Rival(w) ELSE w)
                               /\ x \in Toggles /\ Kin(x, w) /\ x.list = w.list
                               /\ x.at = w.at /\ x.answer = w.answer /\ x.presses = w.presses
                               /\ (x.sound <=> w.sound) /\ (x.applied <=> w.applied)
                               /\ (x.alone <=> w.alone /\ w \notin R)
  <2>1. PICK w \in writes : x = IF w \in R THEN Rival(w) ELSE w
    BY <1>3, <1>6
  <2>2. CASE w \in R
    <3>1. x = Rival(w) /\ w \in Toggles
      BY <1>5, <2>1, <2>2
    <3> HIDE DEF R
    <3> QED  BY <2>1, <2>2, <3>1, RivalFacts
  <2>3. CASE w \notin R
    <3>1. x = w /\ w \in Toggles
      BY <1>5, <2>1, <2>3
    <3> HIDE DEF R
    <3> QED  BY <2>1, <2>3, <3>1 DEF Kin
  <2> QED  BY <2>2, <2>3
<1>7. ASSUME NEW w \in writes
      PROVE  \E x \in writes' : /\ Kin(x, w) /\ x.list = w.list /\ x.presses = w.presses
                                /\ (x.applied <=> w.applied)
  <2>1. CASE w \in R
    <3>1. Rival(w) \in writes' /\ w \in Toggles
      BY <1>3, <1>5, <2>1
    <3> QED  BY <3>1, RivalFacts
  <2>2. CASE w \notin R
    <3>1. w \in writes'
      BY <1>3, <2>2
    <3> QED  BY <3>1 DEF Kin
  <2> QED  BY <2>1, <2>2
<1>8. b \in writes'
  BY <1>3
<1>9. writes' \subseteq Toggles
  BY <1>2, <1>6
<1>10. /\ \A q, j : Free(q, j)' => Free(q, j) /\ ~(q = p /\ j = k)
       /\ \A q : (\A w \in writes : w.post # q) /\ q # p => \A x \in writes' : x.post # q
  <2>1. \A q, j : Free(q, j)' => Free(q, j) /\ ~(q = p /\ j = k)
    BY <1>2, <1>7, <1>8 DEF Free, Kin
  <2>2. ASSUME NEW q, \A w \in writes : w.post # q, q # p, NEW x \in writes'
        PROVE  x.post # q
    <3>1. CASE x = b
      BY <1>2, <2>2, <3>1
    <3>2. CASE x # b
      BY <1>6, <2>2, <3>2 DEF Kin
    <3> QED  BY <3>1, <3>2
  <2> QED  BY <2>1, <2>2
<1> DEFINE from == Optimistic(ref[l][p], k)
<1>11. /\ rows' \in [Lists -> CardLists]
       /\ \A m \in Lists, q \in Posts :
            /\ rows'[m][q].listed = rows[m][q].listed
            /\ rows[m][q].listed => \A j \in Kinds : q # p \/ j # k =>
                 Flag(rows'[m][q], j) = Flag(rows[m][q], j)
            /\ ~Mounted(m) => rows'[m] = rows[m]
  <2>1. from \in Cards /\ rows' = Published(p, from, k)
    BY <1>1
  <2> HIDE DEF from
  <2> QED  BY <1>0, <2>1, PublishedFacts
<1>12. ASSUME NEW r \in loads'
       PROVE  \E s \in loads : /\ r \in ListLoads /\ r.list = s.list /\ r.at = s.at
                               /\ r.page = s.page /\ r.clean = s.clean \ {p}
  BY <1>1, <1>5, UncleanFacts
<1>13. ASSUME NEW s \in loads
       PROVE  \E r \in loads' : r.list = s.list
  BY <1>1, <1>5, UncleanFacts
<1>14. PostTypes'
  <2>1. loads' \subseteq ListLoads
    BY <1>12
  <2>2. \A q \in Posts : server'[q].others <= spent'.presses
    BY <1>0, <1>1, OthersFit
  <2> QED  BY <1>0, <1>1, <1>9, <1>11, <2>1, <2>2 DEF PostTypes, Spendings
<1>15. WriteInv'
  <2> SUFFICES ASSUME NEW x \in writes', NEW y \in writes'
               PROVE  /\ y.n < spent'.presses /\ (x.n = y.n => x = y)
                      /\ x.post = y.post /\ x.kind = y.kind =>
                           /\ y.alone => x = y
                           /\ x.list = y.list /\ y.list # "gone" => x = y
    BY DEF WriteInv
  <2>1. \A w \in writes : w.n \in Nat /\ w.n < spent.presses
    BY <1>0, <1>5 DEF WriteInv, Toggles
  <2>2. CASE x = b /\ y = b
    BY <1>1, <1>2, <1>5, <2>2
  <2>3. CASE x = b /\ y # b
    <3>1. PICK w \in writes : Kin(y, w) /\ y.list = w.list /\ (y.alone <=> w.alone /\ w \notin R)
      BY <1>6, <2>3
    <3>2. y.n < spent.presses /\ y.n \in Nat /\ y.n # x.n
      BY <1>2, <1>5, <2>1, <2>3, <3>1 DEF Kin
    <3>3. x.post = y.post /\ x.kind = y.kind => w \in R
      BY <1>2, <1>4, <2>3, <3>1 DEF Kin
    <3>4. y.n < spent'.presses
      BY <1>1, <1>5, <3>2
    <3> QED  BY <1>2, <2>3, <3>1, <3>2, <3>3, <3>4
  <2>4. CASE x # b /\ y = b
    <3>1. PICK w \in writes : Kin(x, w) /\ x.list = w.list /\ (x.alone <=> w.alone /\ w \notin R)
      BY <1>6, <2>4
    <3>2. x.n < spent.presses /\ x.n \in Nat /\ y.n # x.n
      BY <1>2, <1>5, <2>1, <2>4, <3>1 DEF Kin
    <3>3. x.post = y.post /\ x.kind = y.kind => w \in R
      BY <1>2, <1>4, <2>4, <3>1 DEF Kin
    <3>4. y.n < spent'.presses
      BY <1>1, <1>2, <1>5, <2>4
    <3> QED  BY <1>2, <2>4, <3>1, <3>2, <3>3, <3>4
  <2>5. CASE x # b /\ y # b
    <3>1. PICK v \in writes : x = (IF v \in R THEN Rival(v) ELSE v) /\ Kin(x, v) /\ x.list = v.list
      BY <1>6, <2>5
    <3>2. PICK w \in writes : /\ y = (IF w \in R THEN Rival(w) ELSE w) /\ Kin(y, w) /\ y.list = w.list
                              /\ (y.alone <=> w.alone /\ w \notin R)
      BY <1>6, <2>5
    <3>3. v = w => x = y
      BY <3>1, <3>2
    <3>4. /\ w.n < spent.presses /\ (v.n = w.n => v = w) /\ w.n \in Nat
          /\ v.post = w.post /\ v.kind = w.kind =>
               /\ w.alone => v = w
               /\ v.list = w.list /\ w.list # "gone" => v = w
      BY <1>0, <2>1 DEF WriteInv
    <3>5. y.n < spent'.presses
      BY <1>1, <1>5, <3>2, <3>4 DEF Kin
    <3> HIDE DEF R
    <3> QED  BY <3>1, <3>2, <3>3, <3>4, <3>5 DEF Kin
  <2> QED  BY <2>2, <2>3, <2>4, <2>5
<1>16. AnswerInv'
  <2> SUFFICES ASSUME NEW x \in writes'
               PROVE  Told(x, server'[x.post])
    BY DEF AnswerInv
  <2>1. CASE x = b
    <3>1. ASSUME x.alone, x.sound
          PROVE  Flag(ref[l][p], k) = Flag(server[p], k)
      <4>1. R = {} /\ p \in trusted[l]
        BY <1>2, <2>1, <3>1
      <4>2. Free(p, k)
        BY <1>4, <4>1 DEF Free
      <4>3. ref[l][p].listed
        BY <1>1 DEF Cards, Cards
      <4>4. rows[l][p].listed
        BY <1>0, <4>3 DEF RefInv
      <4>5. Flag(ref[l][p], k) = Flag(rows[l][p], k)
        BY <1>0, <4>2, <4>4 DEF RefInv
      <4>6. Flag(rows[l][p], k) = Flag(server[p], k)
        BY <1>0, <4>1, <4>2, <4>4 DEF TrustInv
      <4> QED  BY <4>5, <4>6
    <3> QED  BY <1>1, <1>2, <2>1, <3>1 DEF Told
  <2>2. CASE x # b
    <3>1. PICK w \in writes : /\ Kin(x, w) /\ x.at = w.at /\ x.answer = w.answer
                              /\ (x.sound <=> w.sound) /\ (x.applied <=> w.applied)
                              /\ (x.alone => w.alone)
      BY <1>6, <2>2
    <3> QED  BY <1>0, <1>1, <3>1 DEF AnswerInv, Told, Kin
  <2> QED  BY <2>1, <2>2
<1>17. RefInv'
  <2> SUFFICES ASSUME NEW m \in Lists, NEW q \in Posts
               PROVE  /\ ref'[m][q].listed = rows'[m][q].listed
                      /\ \A j \in Kinds : rows'[m][q].listed /\ Free(q, j)' =>
                           Flag(ref'[m][q], j) = Flag(rows'[m][q], j)
    BY DEF RefInv
  <2> QED  BY <1>0, <1>1, <1>10, <1>11 DEF RefInv
<1>18. CleanInv'
  <2> SUFFICES ASSUME NEW r \in loads', NEW q \in Posts, q \in r.clean
               PROVE  /\ \A x \in writes' : x.post # q
                      /\ r.at = "done" /\ r.page[q].listed =>
                           \A j \in Kinds : Flag(r.page[q], j) = Flag(server'[q], j)
                      /\ r.list = "saved" /\ r.at \in {"read", "done"} => r.page[q].listed = server'[q].saved
    BY DEF CleanInv
  <2>1. PICK s \in loads : /\ r.list = s.list /\ r.at = s.at
                           /\ r.page = s.page /\ r.clean = s.clean \ {p}
    BY <1>12
  <2> QED  BY <1>0, <1>1, <1>10, <2>1 DEF CleanInv
<1>19. PaneInv'
  <2>1. mode = "outfits" => rows'["saved"] = rows["saved"]
    BY <1>11 DEF Mounted, Lists
  <2> QED  BY <1>0, <1>1, <1>12, <2>1 DEF PaneInv
<1>20. TrustInv'
  <2> SUFFICES ASSUME NEW m \in Lists, NEW q \in trusted'[m], NEW j \in Kinds,
                      rows'[m][q].listed, Free(q, j)'
               PROVE  Flag(rows'[m][q], j) = Flag(server'[q], j)
    BY DEF TrustInv
  <2>1. q \in Posts /\ q \in trusted[m]
    BY <1>0, <1>1 DEF PostTypes
  <2>2. Free(q, j) /\ (q # p \/ j # k) /\ rows[m][q].listed
    BY <1>10, <1>11, <2>1
  <2> QED  BY <1>0, <1>1, <1>11, <2>1, <2>2 DEF TrustInv
<1>21. SavedInv'
  <2>1. Loading("saved") => Loading("saved")'
    BY <1>13 DEF Loading
  <2>2. \A q : (\A x \in writes' : ~(x.post = q /\ x.kind = "save" /\ x.applied)) =>
               (\A x \in writes : ~(x.post = q /\ x.kind = "save" /\ x.applied))
    BY <1>7 DEF Kin
  <2>3. \A q \in trusted["saved"] : rows'["saved"][q].listed = rows["saved"][q].listed
    BY <1>0, <1>11 DEF PostTypes, Lists
  <2> QED  BY <1>0, <1>1, <2>1, <2>2, <2>3 DEF SavedInv
<1>22. PressInv'
  <2> DEFINE one == IF l # "feed" THEN {<<b.n, 1>>} ELSE {}
  <2>1. Presses(writes') = Presses(writes) \cup one
    <3>1. ASSUME NEW e, e \in Presses(writes')
          PROVE  e \in Presses(writes) \cup one
      <4>1. PICK x \in writes' : x.list # "feed" /\ e \in {x.n} \X (1..x.presses)
        BY <3>1 DEF Presses
      <4>2. CASE x = b
        <5>1. l # "feed" /\ e \in {b.n} \X (1..1)
          BY <1>2, <4>1, <4>2
        <5>2. e = <<b.n, 1>>
          BY <5>1
        <5> QED  BY <5>1, <5>2
      <4>3. CASE x # b
        <5>1. PICK w \in writes : Kin(x, w) /\ x.list = w.list /\ x.presses = w.presses
          BY <1>6, <4>3
        <5> QED  BY <4>1, <5>1 DEF Presses, Kin
      <4> QED  BY <4>2, <4>3
    <3>2. ASSUME NEW e, e \in Presses(writes)
          PROVE  e \in Presses(writes')
      <4>1. PICK w \in writes : w.list # "feed" /\ e \in {w.n} \X (1..w.presses)
        BY <3>2 DEF Presses
      <4>2. PICK x \in writes' : Kin(x, w) /\ x.list = w.list /\ x.presses = w.presses
        BY <1>7
      <4> QED  BY <4>1, <4>2 DEF Presses, Kin
    <3>3. ASSUME l # "feed"
          PROVE  <<b.n, 1>> \in Presses(writes')
      <4>1. <<b.n, 1>> \in {b.n} \X (1..b.presses)
        BY <1>2
      <4> QED  BY <1>2, <1>8, <3>3, <4>1 DEF Presses
    <3> QED  BY <3>1, <3>2, <3>3
  <2>2. l # "feed" => <<b.n, 1>> \notin Presses(writes)
    <3> SUFFICES ASSUME <<b.n, 1>> \in Presses(writes)
                 PROVE  FALSE
      OBVIOUS
    <3>1. PICK w \in writes : <<b.n, 1>> \in {w.n} \X (1..w.presses)
      BY DEF Presses
    <3>2. b.n = w.n
      BY <3>1
    <3>3. w.n < spent.presses
      BY <1>0 DEF WriteInv
    <3> QED  BY <1>2, <1>5, <3>2, <3>3
  <2>3. /\ IsFiniteSet(Presses(writes)) /\ postWrites = Cardinality(Presses(writes))
        /\ postWrites <= spent.presses
    BY <1>0 DEF PressInv, ChipsMatchWrites
  <2>4. postWrites \in Nat
    BY <2>3, FS_CardinalityType
  <2>5. /\ IsFiniteSet(Presses(writes')) /\ postWrites' = Cardinality(Presses(writes'))
        /\ postWrites' <= spent'.presses
    <3>1. CASE l # "feed"
      <4>1. Presses(writes') = Presses(writes) \cup {<<b.n, 1>>}
        BY <2>1, <3>1
      <4>2. /\ IsFiniteSet(Presses(writes'))
            /\ Cardinality(Presses(writes')) = Cardinality(Presses(writes)) + 1
        BY <2>2, <2>3, <3>1, <4>1, FS_AddElement
      <4> QED  BY <1>1, <1>5, <2>3, <2>4, <3>1, <4>2
    <3>2. CASE l = "feed"
      <4>1. Presses(writes') = Presses(writes)
        BY <2>1, <3>2
      <4> QED  BY <1>1, <1>5, <2>3, <2>4, <3>2, <4>1
    <3> QED  BY <3>1, <3>2
  <2> QED  BY <2>5 DEF PressInv, ChipsMatchWrites, Presses
<1> QED
  BY <1>14, <1>15, <1>16, <1>17, <1>18, <1>19, <1>20, <1>21, <1>22 DEF PostInv

\* A press that waits for a write under way is one more the chips wait for.
LEMMA AgainKeeps ==
  ASSUME PostInv, NEW l \in Lists, NEW p \in Posts, NEW k \in Kinds, Press(l, p, k),
         Same(l, p, k) # {}
  PROVE  PostInv'
<1>0. /\ PostTypes /\ WriteInv /\ AnswerInv /\ RefInv /\ CleanInv
      /\ PaneInv /\ TrustInv /\ SavedInv /\ PressInv
  BY DEF PostInv
<1>1. /\ spent' \in Spendings /\ spent'.presses = spent.presses + 1
      /\ writes' = WithAgain(l, p, k)
      /\ postWrites' = IF l # "feed" THEN postWrites + 1 ELSE postWrites
      /\ UNCHANGED <<server, rows, ref, mode, loads, dirty, trusted, stale>>
  BY <1>0, PressFacts
<1>2. PICK w \in writes : w.list = l /\ w.post = p /\ w.kind = k
  BY DEF Same
<1>3. writes \subseteq Toggles /\ w \in Toggles /\ spent.presses \in Nat
  BY <1>0 DEF PostTypes
<1>4. Same(l, p, k) = {w}
  <2>1. \A x \in writes : x.list = l /\ x.post = p /\ x.kind = k => x = w
    BY <1>0, <1>2 DEF WriteInv, Lists
  <2> QED  BY <1>2, <2>1 DEF Same
<1> DEFINE v == Again(w)
<1>5. /\ v \in Toggles /\ Kin(v, w) /\ v.list = w.list /\ v.at = w.at /\ v.answer = w.answer
      /\ v.presses = w.presses + 1 /\ SameFlags(v, w)
  BY <1>3, AgainFacts
<1>6. writes' = (writes \ {w}) \cup {v}
  BY <1>1, <1>2, <1>4 DEF WithAgain
<1> HIDE DEF v
<1>7. writes' \subseteq Toggles
  BY <1>3, <1>5, <1>6
<1>8. PostTypes'
  <2>1. \A q \in Posts : server'[q].others <= spent'.presses
    BY <1>0, <1>1, OthersFit
  <2> QED  BY <1>0, <1>1, <1>7, <2>1 DEF PostTypes, Spendings
<1>9. WriteInv'
  <2> SUFFICES ASSUME NEW x \in writes', NEW y \in writes'
               PROVE  /\ y.n < spent'.presses /\ (x.n = y.n => x = y)
                      /\ x.post = y.post /\ x.kind = y.kind =>
                           /\ y.alone => x = y
                           /\ x.list = y.list /\ y.list # "gone" => x = y
    BY DEF WriteInv
  <2> DEFINE a == IF x = v THEN w ELSE x
             b == IF y = v THEN w ELSE y
  <2>1. a \in writes /\ Kin(x, a) /\ x.list = a.list /\ (x.alone <=> a.alone) /\ (a = w => x = v)
    BY <1>5, <1>6 DEF Kin, SameFlags
  <2>2. b \in writes /\ Kin(y, b) /\ y.list = b.list /\ (y.alone <=> b.alone) /\ (b = w => y = v)
    BY <1>5, <1>6 DEF Kin, SameFlags
  <2>3. a = b => x = y
    BY <2>1, <2>2
  <2>4. /\ b.n < spent.presses /\ (a.n = b.n => a = b) /\ b.n \in Nat
        /\ a.post = b.post /\ a.kind = b.kind =>
             /\ b.alone => a = b
             /\ a.list = b.list /\ b.list # "gone" => a = b
    BY <1>0, <1>3, <2>1, <2>2 DEF WriteInv, Toggles
  <2> HIDE DEF a, b
  <2>5. y.n < spent'.presses
    BY <1>1, <1>3, <2>2, <2>4 DEF Kin
  <2> QED  BY <2>1, <2>2, <2>3, <2>4, <2>5 DEF Kin
<1>10. AnswerInv'
  <2> SUFFICES ASSUME NEW x \in writes'
               PROVE  Told(x, server'[x.post])
    BY DEF AnswerInv
  <2>1. CASE x = v
    BY <1>0, <1>1, <1>5, <2>1 DEF AnswerInv, Told, Kin, SameFlags
  <2>2. CASE x # v
    BY <1>0, <1>1, <1>6, <2>2 DEF AnswerInv
  <2> QED  BY <2>1, <2>2
<1>11. /\ \A q, j : Free(q, j)' <=> Free(q, j)
       /\ \A q : (\A x \in writes' : x.post # q) <=> (\A x \in writes : x.post # q)
  BY <1>5, <1>6 DEF Free, Kin
<1>12. RefInv' /\ TrustInv'
  BY <1>0, <1>1, <1>11 DEF RefInv, TrustInv
<1>13. CleanInv' /\ PaneInv'
  BY <1>0, <1>1, <1>11 DEF CleanInv, PaneInv
<1>14. SavedInv'
  <2>1. \A q : (\A x \in writes' : ~(x.post = q /\ x.kind = "save" /\ x.applied)) =>
               (\A x \in writes : ~(x.post = q /\ x.kind = "save" /\ x.applied))
    BY <1>5, <1>6 DEF Kin, SameFlags
  <2> QED  BY <1>0, <1>1, <2>1 DEF SavedInv, Loading
<1>15. PressInv'
  <2> DEFINE e == <<w.n, w.presses + 1>>
             one == IF l # "feed" THEN {e} ELSE {}
  <2>0. w.presses \in Nat \ {0} /\ w.n \in Nat /\ v.n = w.n /\ v.list = l /\ v.presses = w.presses + 1
    BY <1>2, <1>3, <1>5 DEF Toggles, Kin
  <2>1. 1..v.presses = (1..w.presses) \cup {w.presses + 1}
    BY <2>0
  <2>2. Presses(writes') = Presses(writes) \cup one
    <3>1. ASSUME NEW d, d \in Presses(writes')
          PROVE  d \in Presses(writes) \cup one
      <4>1. PICK x \in writes' : x.list # "feed" /\ d \in {x.n} \X (1..x.presses)
        BY <3>1 DEF Presses
      <4>2. CASE x = v
        <5>1. l # "feed" /\ (d \in {w.n} \X (1..w.presses) \/ d = e)
          BY <2>0, <2>1, <4>1, <4>2
        <5> QED  BY <1>2, <5>1 DEF Presses
      <4>3. CASE x # v
        BY <1>6, <4>1, <4>3 DEF Presses
      <4> QED  BY <4>2, <4>3
    <3>2. ASSUME NEW d, d \in Presses(writes)
          PROVE  d \in Presses(writes')
      <4>1. PICK x \in writes : x.list # "feed" /\ d \in {x.n} \X (1..x.presses)
        BY <3>2 DEF Presses
      <4>2. CASE x = w
        <5>1. v.list # "feed" /\ d \in {v.n} \X (1..v.presses) /\ v \in writes'
          BY <1>2, <1>6, <2>0, <2>1, <4>1, <4>2
        <5> QED  BY <5>1 DEF Presses
      <4>3. CASE x # w
        BY <1>6, <4>1, <4>3 DEF Presses
      <4> QED  BY <4>2, <4>3
    <3>3. ASSUME l # "feed"
          PROVE  e \in Presses(writes')
      <4>1. e \in {v.n} \X (1..v.presses) /\ v \in writes'
        BY <1>6, <2>0, <2>1
      <4> QED  BY <2>0, <3>3, <4>1 DEF Presses
    <3> QED  BY <3>1, <3>2, <3>3
  <2>3. e \notin Presses(writes)
    <3> SUFFICES ASSUME e \in Presses(writes)
                 PROVE  FALSE
      OBVIOUS
    <3>1. PICK x \in writes : e \in {x.n} \X (1..x.presses)
      BY DEF Presses
    <3>2. w.n = x.n /\ w.presses + 1 \in 1..x.presses
      BY <3>1
    <3>3. x = w
      BY <1>0, <3>2 DEF WriteInv
    <3> QED  BY <2>0, <3>2, <3>3
  <2>4. /\ IsFiniteSet(Presses(writes)) /\ postWrites = Cardinality(Presses(writes))
        /\ postWrites <= spent.presses
    BY <1>0 DEF PressInv, ChipsMatchWrites
  <2>5. postWrites \in Nat
    BY <2>4, FS_CardinalityType
  <2> HIDE DEF e
  <2>6. /\ IsFiniteSet(Presses(writes')) /\ postWrites' = Cardinality(Presses(writes'))
        /\ postWrites' <= spent'.presses
    <3>1. CASE l # "feed"
      <4>1. Presses(writes') = Presses(writes) \cup {e}
        BY <2>2, <3>1
      <4>2. /\ IsFiniteSet(Presses(writes'))
            /\ Cardinality(Presses(writes')) = Cardinality(Presses(writes)) + 1
        BY <2>3, <2>4, <4>1, FS_AddElement
      <4> QED  BY <1>1, <1>3, <2>4, <2>5, <3>1, <4>2
    <3>2. CASE l = "feed"
      <4>1. Presses(writes') = Presses(writes)
        BY <2>2, <3>2
      <4> QED  BY <1>1, <1>3, <2>4, <2>5, <3>2, <4>1
    <3> QED  BY <3>1, <3>2
  <2> QED  BY <2>6 DEF PressInv, ChipsMatchWrites, Presses
<1> QED
  BY <1>8, <1>9, <1>10, <1>12, <1>13, <1>14, <1>15 DEF PostInv

\* A toggle ends: what it answered is what the server holds, what it puts back is
\* what the server still holds, or the row is excused.
LEMMA SettleKeeps ==
  ASSUME PostInv, NEW w \in writes, SettleWrite(w)
  PROVE  PostInv'
<1> DEFINE from == IF w.at = "done" THEN w.answer ELSE w.was
           p == w.post
           vouched == w.alone /\ (w.at = "done" \/ (w.sound /\ ~w.applied))
<1>0. /\ PostTypes /\ WriteInv /\ AnswerInv /\ RefInv /\ CleanInv
      /\ PaneInv /\ TrustInv /\ SavedInv /\ PressInv
  BY DEF PostInv
<1>1. /\ w \in Toggles /\ w.at \in {"done", "failed"} /\ writes' = writes \ {w} /\ from \in Cards
      /\ rows' = Published(p, from, w.kind) /\ ref' = rows'
      /\ dirty' = (dirty \/ (w.kind = "save" /\ w.at = "done"))
      /\ postWrites' = IF w.list # "feed" THEN postWrites + (-w.presses) ELSE postWrites
      /\ trusted' = IF vouched THEN trusted ELSE [l \in Lists |-> trusted[l] \ {p}]
      /\ UNCHANGED <<server, mode, loads, spent, stale>>
  BY <1>0, SettleFacts
<1>2. /\ p \in Posts /\ w.kind \in Kinds
      /\ w.n \in Nat /\ w.presses \in Nat \ {0} /\ dirty \in BOOLEAN /\ spent.presses \in Nat
      /\ trusted \in [Lists -> SUBSET Posts] /\ writes \subseteq Toggles
  BY <1>0, <1>1 DEF PostTypes, Toggles
<1>3. /\ rows' \in [Lists -> CardLists]
      /\ \A m \in Lists, q \in Posts :
           /\ rows'[m][q].listed = rows[m][q].listed
           /\ rows[m][q].listed => \A j \in Kinds : q # p \/ j # w.kind =>
                Flag(rows'[m][q], j) = Flag(rows[m][q], j)
           /\ q = p /\ Mounted(m) /\ rows[m][q].listed =>
                Flag(rows'[m][q], w.kind) = Flag(from, w.kind)
           /\ ~Mounted(m) => rows'[m] = rows[m]
  <2> HIDE DEF from, vouched
  <2> QED  BY <1>0, <1>1, <1>2, PublishedFacts
<1>4. vouched => Flag(from, w.kind) = Flag(server[p], w.kind)
  BY <1>0 DEF AnswerInv, Told
<1>5. trusted' \in [Lists -> SUBSET Posts] /\ \A m \in Lists : trusted'[m] \subseteq trusted[m]
  BY <1>1, <1>2
<1>6. ~vouched => \A m \in Lists : p \notin trusted'[m]
  BY <1>1
<1> HIDE DEF from, vouched
<1>7. PostTypes'
  BY <1>0, <1>1, <1>2, <1>3, <1>5 DEF PostTypes
<1>8. WriteInv' /\ AnswerInv' /\ RefInv'
  BY <1>0, <1>1 DEF WriteInv, AnswerInv, RefInv
<1>9. CleanInv'
  BY <1>0, <1>1 DEF CleanInv
<1>10. PaneInv'
  <2>1. mode = "outfits" => rows'["saved"] = rows["saved"]
    BY <1>2, <1>3 DEF Mounted, Lists
  <2> QED  BY <1>0, <1>1, <2>1 DEF PaneInv
<1>11. TrustInv'
  <2> SUFFICES ASSUME NEW m \in Lists, NEW q \in trusted'[m], NEW j \in Kinds,
                      rows'[m][q].listed, Free(q, j)'
               PROVE  Flag(rows'[m][q], j) = Flag(server'[q], j)
    BY DEF TrustInv
  <2>1. q \in Posts /\ q \in trusted[m] /\ rows[m][q].listed
    BY <1>2, <1>3, <1>5
  <2>2. CASE q = p /\ j = w.kind
    <3>1. vouched
      BY <1>6, <2>2
    <3>2. Mounted(m)
      <4>1. ~Mounted(m) => m = "saved" /\ mode = "outfits"
        BY <1>0 DEF Mounted, Lists, PostTypes
      <4>2. ~Mounted(m) => ~rows[m][q].listed
        BY <1>0, <2>1, <4>1 DEF PaneInv, Nowhere, NotListed
      <4> QED  BY <2>1, <4>2
    <3> QED  BY <1>1, <1>3, <1>4, <2>1, <2>2, <3>1, <3>2
  <2>3. CASE ~(q = p /\ j = w.kind)
    <3>1. Free(q, j)
      BY <1>1, <2>3 DEF Free
    <3> QED  BY <1>0, <1>1, <1>3, <2>1, <2>3, <3>1 DEF TrustInv
  <2> QED  BY <2>2, <2>3
<1>12. SavedInv'
  <2> SUFFICES ASSUME mode = "saved", ~Loading("saved"), ~stale, ~dirty', NEW q \in trusted'["saved"],
                      server[q].saved,
                      \A x \in writes' : ~(x.post = q /\ x.kind = "save" /\ x.applied)
               PROVE  rows'["saved"][q].listed
    BY <1>1 DEF SavedInv, Loading
  <2>1. q \in Posts /\ q \in trusted["saved"] /\ "saved" \in Lists
    BY <1>2, <1>5 DEF Lists
  <2>2. ~dirty /\ ~(w.kind = "save" /\ w.at = "done")
    BY <1>1
  <2>3. ~(p = q /\ w.kind = "save" /\ w.applied)
    <3> SUFFICES ASSUME p = q, w.kind = "save", w.applied
                 PROVE  FALSE
      OBVIOUS
    <3>1. vouched
      BY <1>6, <2>1
    <3> QED  BY <2>2, <3>1 DEF vouched
  <2>4. rows["saved"][q].listed
    BY <1>0, <1>1, <2>1, <2>2, <2>3 DEF SavedInv
  <2> QED  BY <1>3, <2>1, <2>4
<1>13. PressInv'
  <2> DEFINE mine == {w.n} \X (1..w.presses)
  <2>1. /\ IsFiniteSet(Presses(writes)) /\ postWrites = Cardinality(Presses(writes))
        /\ postWrites <= spent.presses
    BY <1>0 DEF PressInv, ChipsMatchWrites
  <2>2. postWrites \in Nat
    BY <2>1, FS_CardinalityType
  <2>3. CASE w.list # "feed"
    <3>1. mine \subseteq Presses(writes)
      BY <2>3 DEF Presses
    <3>2. Presses(writes') = Presses(writes) \ mine
      <4>1. ASSUME NEW e, e \in Presses(writes')
            PROVE  e \in Presses(writes) \ mine
        <5>1. PICK x \in writes' : x.list # "feed" /\ e \in {x.n} \X (1..x.presses)
          BY <4>1 DEF Presses
        <5>2. x \in writes /\ x # w /\ x.n # w.n
          BY <1>0, <1>1 DEF WriteInv
        <5> QED  BY <5>1, <5>2 DEF Presses
      <4>2. ASSUME NEW e, e \in Presses(writes), e \notin mine
            PROVE  e \in Presses(writes')
        <5>1. PICK x \in writes : x.list # "feed" /\ e \in {x.n} \X (1..x.presses)
          BY <4>2 DEF Presses
        <5>2. x \in writes'
          BY <1>1, <4>2, <5>1
        <5> QED  BY <5>1, <5>2 DEF Presses
      <4> QED  BY <4>1, <4>2
    <3>3. IsFiniteSet(mine) /\ Cardinality(mine) = w.presses
      <4>1. IsFiniteSet({w.n}) /\ Cardinality({w.n}) = 1
        BY FS_Singleton
      <4>2. IsFiniteSet(1..w.presses) /\ Cardinality(1..w.presses) = w.presses
        <5>1. 1 \in Int /\ w.presses \in Int /\ ~(1 > w.presses) /\ w.presses - 1 + 1 = w.presses
          BY <1>2
        <5>2. /\ IsFiniteSet(1..w.presses)
              /\ Cardinality(1..w.presses) = IF 1 > w.presses THEN 0 ELSE w.presses - 1 + 1
          BY <5>1, FS_Interval
        <5> QED  BY <5>1, <5>2
      <4>3. IsFiniteSet(mine) /\ Cardinality(mine) = 1 * w.presses
        BY ONLY ZenonT(40), <4>1, <4>2, FS_Product
      <4> QED  BY <1>2, <4>3
    <3> HIDE DEF mine
    <3>4. /\ IsFiniteSet(Presses(writes'))
          /\ Cardinality(Presses(writes')) = Cardinality(Presses(writes)) - w.presses
      <4>1. Presses(writes) \cap mine = mine
        BY <3>1
      <4> DEFINE all == Presses(writes)
      <4> HIDE DEF all
      <4>2. IsFiniteSet(all)
        BY <2>1 DEF all
      <4>3. /\ IsFiniteSet(all \ mine)
            /\ Cardinality(all \ mine) = Cardinality(all) - Cardinality(all \cap mine)
        BY ONLY <4>2, FS_Difference
      <4> QED  BY <3>2, <3>3, <4>1, <4>3 DEF all
    <3>5. postWrites' = Cardinality(Presses(writes')) /\ postWrites' <= spent'.presses
      BY <1>1, <1>2, <2>1, <2>2, <2>3, <3>4
    <3> QED  BY <3>4, <3>5 DEF PressInv, ChipsMatchWrites, Presses
  <2>4. CASE w.list = "feed"
    <3>1. Presses(writes') = Presses(writes)
      BY <1>1, <2>4 DEF Presses
    <3> QED  BY <1>1, <2>1, <2>4, <3>1 DEF PressInv, ChipsMatchWrites, Presses
  <2> QED  BY <2>3, <2>4
<1> QED
  BY <1>7, <1>8, <1>9, <1>10, <1>11, <1>12, <1>13 DEF PostInv

----------------------------------------------------------------------------
(***************************************************************************)
(* The counts of likes.                                                    *)
(***************************************************************************)

\* The likes and the unlikes of a post whose row is written and whose $inc is not.
Owing(W, p, liked) ==
  {w.n : w \in {x \in W : x.post = p /\ x.at = "owing" /\ x.was.liked = liked}}

\* A count n below zero is one the server had of its post s; a count that counts
\* the viewer's own like, and at most those of others that are counted.
Low(s, n) == n < 0 => s.low
Mine(s) == IF s.liked THEN 1 ELSE 0
Fits(s, n) == ~s.slipped => Mine(s) <= n /\ n <= s.others + Mine(s)

\* The stored count is ahead by the unlikes that owe their $inc, and behind by
\* the likes.
CountKept(s, W, p) ==
  /\ Low(s, s.count)
  /\ IsFiniteSet(Owing(W, p, TRUE)) /\ IsFiniteSet(Owing(W, p, FALSE))
  /\ ~s.slipped => s.count = s.others + Mine(s) + Cardinality(Owing(W, p, TRUE))
                                                - Cardinality(Owing(W, p, FALSE))

\* What a write carries: its snapshot, and what it found or counted.
Carried(s, w) ==
  /\ Low(s, w.was.count) /\ Low(s, w.answer.count)
  /\ w.kind = "like" /\ w.alone =>
       /\ w.at \in {"found", "done"} => Fits(s, w.answer.count)
       /\ w.sound /\ ~w.applied => Fits(s, w.was.count)

StoredInv == \A p \in Posts : CountKept(server[p], writes, p)
CarriedInv == \A w \in writes : Carried(server[w.post], w)
PagesInv ==
  \A r \in loads, p \in Posts : r.page[p].listed =>
    /\ Low(server[p], r.page[p].count)
    /\ p \in r.clean /\ r.at \in {"read", "done"} => Fits(server[p], r.page[p].count)
ShownInv ==
  \A l \in Lists, p \in Posts : rows[l][p].listed =>
    /\ Low(server[p], rows[l][p].count) /\ Low(server[p], ref[l][p].count)
    /\ Free(p, "like") => ref[l][p].count = rows[l][p].count
    /\ Free(p, "like") /\ p \in trusted[l] => Fits(server[p], rows[l][p].count)

CountInv == StoredInv /\ CarriedInv /\ PagesInv /\ ShownInv

\* A post whose count may be read as before: it is liked as it was, by no fewer,
\* and what it went through it still did.
Grown(t, s) ==
  /\ t.liked = s.liked /\ s.others <= t.others
  /\ (s.low => t.low) /\ (s.slipped => t.slipped)

\* A number that fitted a post fits it when it has grown.
LEMMA GrownFacts ==
  ASSUME NEW s \in Held, NEW t \in Held, NEW n \in Int
  PROVE  /\ (s.low => t.low) /\ Low(s, n) => Low(t, n)
         /\ Grown(t, s) /\ Fits(s, n) => Fits(t, n)
<1>1. s.others \in Nat /\ t.others \in Nat
  BY DEF Held
<1>2. (s.low => t.low) /\ Low(s, n) => Low(t, n)
  BY DEF Low
<1>3. ASSUME Grown(t, s), Fits(s, n)
      PROVE  Fits(t, n)
  <2>1. Mine(t) = Mine(s) /\ Mine(s) \in Nat
    BY <1>3 DEF Grown, Mine
  <2>2. s.others <= t.others /\ (s.slipped => t.slipped)
    BY <1>3 DEF Grown
  <2> QED  BY <1>1, <1>3, <2>1, <2>2 DEF Fits
<1> QED  BY <1>2, <1>3

\* The same writes owe as before.
LEMMA SameOwing ==
  ASSUME NEW V, NEW W, NEW p, NEW liked,
         \A v \in V : v.at = "owing" => \E w \in W : Kin(v, w) /\ w.at = "owing",
         \A w \in W : w.at = "owing" => \E v \in V : Kin(v, w) /\ v.at = "owing"
  PROVE  Owing(V, p, liked) = Owing(W, p, liked)
<1>1. ASSUME NEW n, n \in Owing(V, p, liked)
      PROVE  n \in Owing(W, p, liked)
  <2>1. PICK v \in V : v.post = p /\ v.at = "owing" /\ v.was.liked = liked /\ n = v.n
    BY <1>1 DEF Owing
  <2>2. PICK w \in W : Kin(v, w) /\ w.at = "owing"
    BY <2>1
  <2> QED  BY <2>1, <2>2 DEF Owing, Kin
<1>2. ASSUME NEW n, n \in Owing(W, p, liked)
      PROVE  n \in Owing(V, p, liked)
  <2>1. PICK w \in W : w.post = p /\ w.at = "owing" /\ w.was.liked = liked /\ n = w.n
    BY <1>2 DEF Owing
  <2>2. PICK v \in V : Kin(v, w) /\ v.at = "owing"
    BY <2>1
  <2> QED  BY <2>1, <2>2 DEF Owing, Kin
<1> QED  BY <1>1, <1>2

\* With no $inc owed, the stored count is the number of likes.
LEMMA NoneOwing ==
  ASSUME NEW s \in Held, NEW W, NEW p, CountKept(s, W, p), ~s.slipped,
         \A w \in W : w.post = p => w.at # "owing"
  PROVE  s.count = s.others + Mine(s) /\ Fits(s, s.count)
<1>1. Owing(W, p, TRUE) = {} /\ Owing(W, p, FALSE) = {}
  BY DEF Owing
<1> DEFINE more == Cardinality(Owing(W, p, TRUE))
           fewer == Cardinality(Owing(W, p, FALSE))
<1>2. more = 0 /\ fewer = 0
  BY <1>1, FS_EmptySet
<1>3. s.others \in Nat /\ Mine(s) \in Nat
  BY DEF Held, Mine
<1>4. s.count = s.others + Mine(s)
  <2>1. s.count = s.others + Mine(s) + more - fewer
    BY DEF CountKept
  <2> HIDE DEF more, fewer
  <2> QED  BY <1>2, <1>3, <2>1
<1> QED  BY <1>3, <1>4 DEF Fits

\* A post whose count nothing changed, and of which the same writes owe, is as
\* well kept as before.
LEMMA KeptOn ==
  ASSUME NEW s \in Held, NEW t \in Held, NEW V, NEW W, NEW p, CountKept(s, W, p),
         t.count = s.count, t.others = s.others, t.liked = s.liked, s.low => t.low,
         s.slipped => t.slipped,
         ~t.slipped => \A liked \in BOOLEAN : Owing(V, p, liked) = Owing(W, p, liked),
         \A liked \in BOOLEAN : Owing(V, p, liked) \subseteq Owing(W, p, liked)
  PROVE  CountKept(t, V, p)
<1>1. Low(t, t.count) /\ Mine(t) = Mine(s)
  BY DEF CountKept, Low, Mine
<1>2. IsFiniteSet(Owing(V, p, TRUE)) /\ IsFiniteSet(Owing(V, p, FALSE))
  BY FS_Subset DEF CountKept
<1>3. ~t.slipped => t.count = t.others + Mine(t) + Cardinality(Owing(V, p, TRUE))
                                                 - Cardinality(Owing(V, p, FALSE))
  BY <1>1 DEF CountKept
<1> QED  BY <1>1, <1>2, <1>3 DEF CountKept

\* What a write carried it carries on, alone or no longer, of a post that grew.
LEMMA CarriedOn ==
  ASSUME NEW s \in Held, NEW t \in Held, NEW v \in Toggles, NEW w \in Toggles, Carried(s, w),
         s.low => t.low, w.kind = "like" /\ w.alone => Grown(t, s),
         Kin(v, w), v.at = w.at, v.answer = w.answer, v.alone => w.alone,
         v.sound <=> w.sound, v.applied <=> w.applied
  PROVE  Carried(t, v)
<1>1. w.was.count \in Int /\ w.answer.count \in Int
  BY DEF Toggles, Cards
<1>2. Low(t, w.was.count) /\ Low(t, w.answer.count)
  BY <1>1, GrownFacts DEF Carried
<1>3. w.kind = "like" /\ w.alone => /\ Fits(s, w.answer.count) => Fits(t, w.answer.count)
                                    /\ Fits(s, w.was.count) => Fits(t, w.was.count)
  BY <1>1, GrownFacts
<1> QED  BY <1>2, <1>3 DEF Carried, Kin

\* A post is as it was when nothing happened to it.
LEMMA GrownSame ==
  ASSUME NEW s \in Held
  PROVE  Grown(s, s)
BY DEF Grown, Held

\* What the server holds is kept when no $inc is made, and none owed or forgone.
LEMMA StoredStays ==
  ASSUME StoredInv, server' = server,
         \A v \in writes' : v.at = "owing" => \E w \in writes : Kin(v, w) /\ w.at = "owing",
         \A w \in writes : w.at = "owing" => \E v \in writes' : Kin(v, w) /\ v.at = "owing"
  PROVE  StoredInv'
<1> SUFFICES ASSUME NEW p \in Posts
             PROVE  CountKept(server'[p], writes', p)
  BY DEF StoredInv
<1>1. \A liked : Owing(writes', p, liked) = Owing(writes, p, liked)
  <2> DEFINE V == writes'
             W == writes
  <2>1. /\ \A v \in V : v.at = "owing" => \E w \in W : Kin(v, w) /\ w.at = "owing"
        /\ \A w \in W : w.at = "owing" => \E v \in V : Kin(v, w) /\ v.at = "owing"
    OBVIOUS
  <2> HIDE DEF V, W
  <2>2. \A liked : Owing(V, p, liked) = Owing(W, p, liked)
    BY <2>1, SameOwing
  <2> QED  BY <2>2 DEF V, W
<1>2. CountKept(server[p], writes, p)
  BY DEF StoredInv
<1>3. /\ Owing(writes', p, TRUE) = Owing(writes, p, TRUE)
      /\ Owing(writes', p, FALSE) = Owing(writes, p, FALSE)
  BY <1>1
<1> QED  BY <1>2, <1>3 DEF CountKept

\* What the writes carry they carry on, of posts that only grow.
LEMMA CarriedStays ==
  ASSUME PostTypes, PostTypes', CarriedInv, \A q \in Posts : Grown(server'[q], server[q]),
         \A v \in writes' : \E w \in writes :
           /\ Kin(v, w) /\ v.at = w.at /\ v.answer = w.answer
           /\ (v.alone => w.alone) /\ (v.sound <=> w.sound) /\ (v.applied <=> w.applied)
  PROVE  CarriedInv'
<1> SUFFICES ASSUME NEW v \in writes'
             PROVE  Carried(server'[v.post], v)
  BY DEF CarriedInv
<1>1. PICK w \in writes :
        /\ Kin(v, w) /\ v.at = w.at /\ v.answer = w.answer
        /\ (v.alone => w.alone) /\ (v.sound <=> w.sound) /\ (v.applied <=> w.applied)
  OBVIOUS
<1>2. /\ v \in Toggles /\ w \in Toggles /\ w.post \in Posts
      /\ server[w.post] \in Held /\ server'[w.post] \in Held
  BY DEF PostTypes, Toggles
<1>3. Carried(server[w.post], w) /\ Grown(server'[w.post], server[w.post])
  BY <1>2 DEF CarriedInv
<1>4. Carried(server'[w.post], v)
  BY <1>1, <1>2, <1>3, CarriedOn DEF Grown
<1> QED  BY <1>1, <1>4 DEF Kin

\* What the pages say they go on saying, of posts that only grow where they are
\* clean.
LEMMA PagesStay ==
  ASSUME PostTypes, PostTypes', PagesInv, \A q \in Posts : server[q].low => server'[q].low,
         \A r \in loads' : \E s \in loads : r.page = s.page /\ r.at = s.at /\ r.clean \subseteq s.clean,
         \A r \in loads' : \A q \in r.clean : Grown(server'[q], server[q])
  PROVE  PagesInv'
<1> SUFFICES ASSUME NEW r \in loads', NEW p \in Posts, r.page[p].listed
             PROVE  /\ Low(server'[p], r.page[p].count)
                    /\ p \in r.clean /\ r.at \in {"read", "done"} => Fits(server'[p], r.page[p].count)
  BY DEF PagesInv
<1>1. PICK s \in loads : r.page = s.page /\ r.at = s.at /\ r.clean \subseteq s.clean
  OBVIOUS
<1>2. server[p] \in Held /\ server'[p] \in Held /\ s \in ListLoads
  BY DEF PostTypes
<1>3. r.page[p].count \in Int
  BY <1>1, <1>2, ListedIsCard DEF ListLoads, CardLists, Cards
<1>4. /\ Low(server[p], r.page[p].count)
      /\ p \in r.clean /\ r.at \in {"read", "done"} => Fits(server[p], r.page[p].count)
  BY <1>1 DEF PagesInv
<1> QED  BY <1>2, <1>3, <1>4, GrownFacts

\* The counts of a row that is listed, and of what the cards show of it.
LEMMA ShownCounts ==
  ASSUME PostTypes, RefInv, NEW l \in Lists, NEW p \in Posts, rows[l][p].listed
  PROVE  rows[l][p] \in Cards /\ ref[l][p] \in Cards
         /\ rows[l][p].count \in Int /\ ref[l][p].count \in Int
<1>1. rows[l][p] \in Cards \cup {NotListed} /\ ref[l][p] \in Cards \cup {NotListed}
  BY DEF PostTypes, CardLists
<1>2. ref[l][p].listed
  BY DEF RefInv
<1>3. rows[l][p] \in Cards /\ ref[l][p] \in Cards
  BY <1>1, <1>2, ListedIsCard
<1> QED  BY <1>3 DEF Cards

\* What is shown is as good as it was, of posts that only grow while no like of
\* them is under way.
LEMMA ShownStays ==
  ASSUME PostTypes, PostTypes', ShownInv, UNCHANGED <<rows, ref, trusted>>, RefInv,
         \A q \in Posts : server[q].low => server'[q].low,
         \A q \in Posts : Free(q, "like")' => Free(q, "like") /\ Grown(server'[q], server[q])
  PROVE  ShownInv'
<1> SUFFICES ASSUME NEW l \in Lists, NEW p \in Posts, rows[l][p].listed
             PROVE  /\ Low(server'[p], rows[l][p].count) /\ Low(server'[p], ref[l][p].count)
                    /\ Free(p, "like")' => ref[l][p].count = rows[l][p].count
                    /\ Free(p, "like")' /\ p \in trusted[l] => Fits(server'[p], rows[l][p].count)
  BY DEF ShownInv
<1>1. server[p] \in Held /\ server'[p] \in Held
  BY DEF PostTypes
<1>2. rows[l][p].count \in Int /\ ref[l][p].count \in Int
  BY ShownCounts
<1>3. /\ Low(server[p], rows[l][p].count) /\ Low(server[p], ref[l][p].count)
      /\ Free(p, "like") => ref[l][p].count = rows[l][p].count
      /\ Free(p, "like") /\ p \in trusted[l] => Fits(server[p], rows[l][p].count)
  BY DEF ShownInv
<1> QED  BY <1>1, <1>2, <1>3, GrownFacts

\* A commit shows what is set.
LEMMA CommitCounts ==
  ASSUME CountInv, CommitLists
  PROVE  CountInv'
<1>1. UNCHANGED <<server, rows, writes, loads, trusted>> /\ ref' = rows
  BY DEF CommitLists
<1>2. StoredInv' /\ CarriedInv' /\ PagesInv'
  BY <1>1 DEF CountInv, StoredInv, CarriedInv, PagesInv
<1>3. ShownInv'
  BY <1>1 DEF CountInv, ShownInv, Free
<1> QED  BY <1>2, <1>3 DEF CountInv

\* A like of somebody else's is counted as soon as it is one.
LEMMA OtherLikesCounts ==
  ASSUME PostInv, PostInv', CountInv, NEW p \in Posts, OtherLikes(p)
  PROVE  CountInv'
<1>0. /\ PostTypes /\ PostTypes' /\ RefInv
      /\ StoredInv /\ CarriedInv /\ PagesInv /\ ShownInv
  BY DEF PostInv, CountInv
<1>1. /\ \A q \in Posts : q # p => server'[q] = server[q]
      /\ server'[p].others = server[p].others + 1 /\ server'[p].count = server[p].count + 1
      /\ (server'[p].liked = server[p].liked)
      /\ (server'[p].low = server[p].low) /\ (server'[p].slipped = server[p].slipped)
      /\ UNCHANGED <<rows, ref, writes, loads, trusted>>
  BY <1>0, OtherLikesFacts
<1>2. \A q \in Posts : server[q] \in Held /\ server'[q] \in Held
  BY <1>0 DEF PostTypes
<1>3. server[p].others \in Nat /\ server[p].count \in Int
  BY <1>2 DEF Held
<1>4. \A q \in Posts : Grown(server'[q], server[q])
  <2>1. Grown(server'[p], server[p])
    BY <1>1, <1>3 DEF Grown
  <2> QED  BY <1>1, <1>2, <2>1, GrownSame
<1>5. \A q \in Posts : server[q].low => server'[q].low
  BY <1>4 DEF Grown
<1>6. StoredInv'
  <2> SUFFICES ASSUME NEW q \in Posts
               PROVE  CountKept(server'[q], writes, q)
    BY <1>1 DEF StoredInv
  <2>1. CountKept(server[q], writes, q)
    BY <1>0 DEF StoredInv
  <2>2. CASE q # p
    BY <1>1, <2>1, <2>2
  <2>3. CASE q = p
    <3> DEFINE more == Cardinality(Owing(writes, p, TRUE))
               fewer == Cardinality(Owing(writes, p, FALSE))
    <3>1. IsFiniteSet(Owing(writes, p, TRUE)) /\ IsFiniteSet(Owing(writes, p, FALSE))
      BY <2>1, <2>3 DEF CountKept
    <3>2. more \in Nat /\ fewer \in Nat
      BY <3>1, FS_CardinalityType
    <3>3. Mine(server'[p]) = Mine(server[p]) /\ Mine(server[p]) \in Nat
      BY <1>1 DEF Mine
    <3>4. ~server[p].slipped => server[p].count = server[p].others + Mine(server[p]) + more - fewer
      BY <2>1, <2>3 DEF CountKept
    <3>5. Low(server'[p], server'[p].count)
      BY <1>1, <1>3, <2>1, <2>3 DEF CountKept, Low
    <3> HIDE DEF more, fewer
    <3>6. ~server'[p].slipped => server'[p].count = server'[p].others + Mine(server'[p]) + more - fewer
      BY <1>1, <1>3, <3>2, <3>3, <3>4
    <3> QED  BY <2>3, <3>1, <3>5, <3>6 DEF CountKept, more, fewer
  <2> QED  BY <2>2, <2>3
<1>7. CarriedInv'
  <2>1. \A v \in writes' : \E w \in writes :
           /\ Kin(v, w) /\ v.at = w.at /\ v.answer = w.answer
           /\ (v.alone => w.alone) /\ (v.sound <=> w.sound) /\ (v.applied <=> w.applied)
    BY <1>1 DEF Kin
  <2> QED  BY <1>0, <1>4, <2>1, CarriedStays
<1>8. PagesInv'
  <2>1. \A r \in loads' : \E s \in loads : r.page = s.page /\ r.at = s.at /\ r.clean \subseteq s.clean
    BY <1>1
  <2>2. \A r \in loads' : \A q \in r.clean : Grown(server'[q], server[q])
    BY <1>0, <1>1, <1>4 DEF PostTypes, ListLoads
  <2> QED  BY <1>0, <1>5, <2>1, <2>2, PagesStay
<1>9. ShownInv'
  <2>1. \A q \in Posts : Free(q, "like")' => Free(q, "like") /\ Grown(server'[q], server[q])
    BY <1>1, <1>4 DEF Free
  <2> QED  BY <1>0, <1>1, <1>5, <2>1, ShownStays
<1> QED  BY <1>6, <1>7, <1>8, <1>9 DEF CountInv

\* A load that is sent or goes on changes no row, and reads what is stored.
LEMMA LoadCounts ==
  ASSUME PostInv, PostInv', CountInv, UNCHANGED <<server, rows, ref, writes, trusted>>,
         \A s \in loads' : s \in loads \/ \A p \in Posts : s.page[p].listed =>
           /\ Low(server[p], s.page[p].count)
           /\ p \in s.clean /\ s.at \in {"read", "done"} => Fits(server[p], s.page[p].count)
  PROVE  CountInv'
<1>1. StoredInv' /\ CarriedInv'
  BY DEF CountInv, StoredInv, CarriedInv
<1>2. ShownInv'
  BY DEF CountInv, ShownInv, Free
<1>3. PagesInv'
  <2> SUFFICES ASSUME NEW s \in loads', NEW p \in Posts, s.page[p].listed
               PROVE  /\ Low(server[p], s.page[p].count)
                      /\ p \in s.clean /\ s.at \in {"read", "done"} => Fits(server[p], s.page[p].count)
    BY DEF PagesInv
  <2>1. CASE s \in loads
    BY <2>1 DEF CountInv, PagesInv
  <2> QED  BY <2>1
<1> QED  BY <1>1, <1>2, <1>3 DEF CountInv

\* A load that is sent has read nothing yet.
LEMMA SendCounts ==
  ASSUME PostInv, PostInv', CountInv, ShowSaved \/ FocusSaved \/ \E l \in Lists : RefreshList(l)
  PROVE  CountInv'
<1>1. /\ UNCHANGED <<server, rows, ref, writes, trusted>>
      /\ \A s \in loads' : s \in loads \/ \E l \in Lists : s = NewLoad(l)
  <2>1. CASE ShowSaved
    BY <2>1, Zenon DEF ShowSaved, Lists
  <2>2. CASE FocusSaved
    BY <2>2, Zenon DEF FocusSaved, Lists
  <2>3. ASSUME NEW l \in Lists, RefreshList(l)
        PROVE  /\ UNCHANGED <<server, rows, ref, writes, trusted>>
               /\ \A s \in loads' : s \in loads \/ s = NewLoad(l)
    BY <2>3, Zenon DEF RefreshList
  <2> QED  BY <2>1, <2>2, <2>3
<1>2. \A l \in Lists, p \in Posts : ~NewLoad(l).page[p].listed
  BY DEF NewLoad, Nowhere, NotListed
<1> QED  BY <1>1, <1>2, LoadCounts

\* A load reads the stored counts, or none; of the posts it is clean of no $inc
\* is owed.
LEMMA ReadCounts ==
  ASSUME PostInv, PostInv', CountInv, NEW r \in loads, ReadPosts(r) \/ ReadFlags(r) \/ LoseLoad(r)
  PROVE  CountInv'
<1>0. PostTypes /\ CleanInv /\ StoredInv /\ PagesInv
  BY DEF PostInv, CountInv
<1>1. UNCHANGED <<server, rows, ref, writes, trusted>> /\ r \in ListLoads
  BY <1>0, LoadSteps
<1>2. \A p \in Posts : r.page[p].listed =>
        /\ Low(server[p], r.page[p].count)
        /\ p \in r.clean /\ r.at \in {"read", "done"} => Fits(server[p], r.page[p].count)
  BY <1>0 DEF PagesInv
<1>3. CASE ReadPosts(r)
  <2> DEFINE s == ReadAs(r, "read", FirstRead(r))
  <2>1. loads' = (loads \ {r}) \cup {s}
    BY <1>0, <1>3, LoadSteps
  <2>2. /\ FirstRead(r) \in CardLists
        /\ \A p \in Posts : FirstRead(r)[p].listed => FirstRead(r)[p].count = server[p].count
    BY <1>0, ReadFacts
  <2>3. s.page = FirstRead(r) /\ s.clean = r.clean
    BY <1>1, <2>2, ReadAsFacts
  <2> HIDE DEF s
  <2>4. ASSUME NEW p \in Posts
        PROVE  /\ Low(server[p], server[p].count)
               /\ p \in r.clean => Fits(server[p], server[p].count)
    <3>1. server[p] \in Held /\ CountKept(server[p], writes, p)
      BY <1>0 DEF PostTypes, StoredInv
    <3>2. p \in r.clean => \A w \in writes : w.post # p
      BY <1>0 DEF CleanInv
    <3>3. p \in r.clean /\ ~server[p].slipped => Fits(server[p], server[p].count)
      BY <3>1, <3>2, NoneOwing
    <3> QED  BY <3>1, <3>3 DEF CountKept, Fits
  <2>5. \A p \in Posts : s.page[p].listed =>
          /\ Low(server[p], s.page[p].count)
          /\ p \in s.clean /\ s.at \in {"read", "done"} => Fits(server[p], s.page[p].count)
    BY <2>2, <2>3, <2>4
  <2> QED  BY <1>1, <2>1, <2>5, LoadCounts
<1>4. CASE ReadFlags(r)
  <2> DEFINE s == ReadAs(r, "done", ThenRead(r))
  <2>1. loads' = (loads \ {r}) \cup {s}
    BY <1>0, <1>4, LoadSteps
  <2>2. r.at = "read"
    BY <1>4, Zenon DEF ReadFlags
  <2>3. /\ ThenRead(r) \in CardLists
        /\ \A p \in Posts : ThenRead(r)[p].listed =>
             r.page[p].listed /\ ThenRead(r)[p].count = r.page[p].count
    BY <1>0, ReadFacts
  <2>4. s.page = ThenRead(r) /\ s.clean = r.clean
    BY <1>1, <2>3, ReadAsFacts
  <2> HIDE DEF s
  <2>5. \A p \in Posts : s.page[p].listed =>
          /\ Low(server[p], s.page[p].count)
          /\ p \in s.clean /\ s.at \in {"read", "done"} => Fits(server[p], s.page[p].count)
    BY <1>2, <2>2, <2>3, <2>4
  <2> QED  BY <1>1, <2>1, <2>5, LoadCounts
<1>5. CASE LoseLoad(r)
  <2> DEFINE s == LostLoad(r)
  <2>1. loads' = (loads \ {r}) \cup {s}
    BY <1>0, <1>5, LoadSteps
  <2>2. s.page = r.page /\ s.at = "failed"
    BY <1>1, LostLoadFacts
  <2> HIDE DEF s
  <2>3. \A p \in Posts : s.page[p].listed =>
          /\ Low(server[p], s.page[p].count)
          /\ p \in s.clean /\ s.at \in {"read", "done"} => Fits(server[p], s.page[p].count)
    BY <1>2, <2>2
  <2> QED  BY <1>1, <2>1, <2>3, LoadCounts
<1> QED  BY <1>3, <1>4, <1>5

\* A load that is answered shows what it read, in place of what was shown.
LEMMA DeliverCounts ==
  ASSUME PostInv, PostInv', CountInv, NEW r \in loads, DeliverLoad(r)
  PROVE  CountInv'
<1>0. PostTypes /\ PostTypes' /\ CleanInv /\ StoredInv /\ CarriedInv /\ PagesInv /\ ShownInv
  BY DEF PostInv, CountInv
<1>1. r.at \in {"done", "failed"} /\ loads' = loads \ {r} /\ UNCHANGED <<server, writes>>
  BY DEF DeliverLoad
<1>2. StoredInv' /\ CarriedInv' /\ PagesInv'
  BY <1>0, <1>1 DEF StoredInv, CarriedInv, PagesInv
<1>3. CASE r.at = "done"
  <2>1. /\ rows' = [rows EXCEPT ![r.list] = r.page] /\ ref' = rows'
        /\ trusted' = [trusted EXCEPT ![r.list] = r.clean]
    BY <1>3 DEF DeliverLoad
  <2>2. /\ rows'[r.list] = r.page /\ trusted'[r.list] = r.clean
        /\ \A l \in Lists : l # r.list => rows'[l] = rows[l] /\ trusted'[l] = trusted[l]
    BY <1>0, <2>1 DEF PostTypes, ListLoads
  <2>3. ShownInv'
    <3> SUFFICES ASSUME NEW l \in Lists, NEW p \in Posts, rows'[l][p].listed
                 PROVE  /\ Low(server[p], rows'[l][p].count)
                        /\ Free(p, "like") /\ p \in trusted'[l] => Fits(server[p], rows'[l][p].count)
      BY <1>1, <2>1 DEF ShownInv, Free
    <3>1. CASE l = r.list
      BY <1>0, <1>3, <2>2, <3>1 DEF PagesInv
    <3>2. CASE l # r.list
      <4>1. rows'[l] = rows[l] /\ trusted'[l] = trusted[l]
        BY <2>2, <3>2
      <4> QED  BY <1>0, <4>1 DEF ShownInv
    <3> QED  BY <3>1, <3>2
  <2> QED  BY <1>2, <2>3 DEF CountInv
<1>4. CASE r.at = "failed"
  <2>1. UNCHANGED <<rows, ref, trusted>>
    BY <1>4 DEF DeliverLoad
  <2>2. ShownInv'
    BY <1>0, <1>1, <2>1 DEF ShownInv, Free
  <2> QED  BY <1>2, <2>2 DEF CountInv
<1> QED  BY <1>1, <1>3, <1>4

\* The writes of a pane that goes carry and owe what they did.
LEMMA ShowOutfitsCounts ==
  ASSUME PostInv, PostInv', CountInv, ShowOutfits
  PROVE  CountInv'
<1>0. /\ PostTypes /\ PostTypes' /\ writes \subseteq Toggles
      /\ StoredInv /\ CarriedInv /\ PagesInv /\ ShownInv
  BY DEF PostInv, PostTypes, CountInv
<1>1. /\ rows' = [rows EXCEPT !["saved"] = Nowhere] /\ ref' = [ref EXCEPT !["saved"] = Nowhere]
      /\ trusted' = [trusted EXCEPT !["saved"] = Posts]
      /\ loads' = {r \in loads : r.list = "feed"} /\ server' = server
  BY DEF ShowOutfits
<1>2. writes' = {IF w.list = "saved" THEN Unmounted(w) ELSE w : w \in writes}
  BY Zenon DEF ShowOutfits, Unmounted
<1>3. ASSUME NEW w \in writes
      PROVE  LET v == IF w.list = "saved" THEN Unmounted(w) ELSE w
             IN Kin(v, w) /\ SameFlags(v, w) /\ v.at = w.at /\ v.answer = w.answer
  BY <1>0, UnmountedFacts DEF Kin, SameFlags
<1>4. \A v \in writes' : \E w \in writes :
        Kin(v, w) /\ SameFlags(v, w) /\ v.at = w.at /\ v.answer = w.answer
  BY <1>2, <1>3
<1>5. \A w \in writes : \E v \in writes' : Kin(v, w) /\ v.at = w.at
  BY <1>2, <1>3
<1>6. \A q \in Posts : Grown(server'[q], server[q])
  BY <1>0, <1>1, GrownSame DEF PostTypes
<1>7. StoredInv'
  BY <1>0, <1>1, <1>4, <1>5, StoredStays
<1>8. CarriedInv'
  BY <1>0, <1>4, <1>6, CarriedStays DEF SameFlags
<1>9. PagesInv'
  BY <1>0, <1>1 DEF PagesInv
<1>10. ShownInv'
  <2>1. rows'["saved"] = Nowhere /\ \A p \in Posts : ~Nowhere[p].listed
    BY <1>0, <1>1 DEF PostTypes, Lists, Nowhere, NotListed
  <2>2. /\ rows'["feed"] = rows["feed"] /\ ref'["feed"] = ref["feed"]
        /\ trusted'["feed"] = trusted["feed"]
    BY <1>0, <1>1 DEF PostTypes, Lists
  <2>3. \A p : Free(p, "like")' => Free(p, "like")
    BY <1>5 DEF Free, Kin
  <2> SUFFICES ASSUME NEW l \in Lists, NEW p \in Posts, rows'[l][p].listed
               PROVE  /\ Low(server[p], rows'[l][p].count) /\ Low(server[p], ref'[l][p].count)
                      /\ Free(p, "like")' => ref'[l][p].count = rows'[l][p].count
                      /\ Free(p, "like")' /\ p \in trusted'[l] => Fits(server[p], rows'[l][p].count)
    BY <1>1 DEF ShownInv
  <2>4. l = "feed"
    BY <2>1 DEF Lists
  <2> QED  BY <1>0, <2>2, <2>3, <2>4 DEF ShownInv
<1> QED  BY <1>7, <1>8, <1>9, <1>10 DEF CountInv

\* A toggle that begins leaves the others what they carry and owe, alone or no
\* longer.
LEMMA BegunBeside ==
  ASSUME PostTypes, NEW l \in Lists, NEW p \in Posts, NEW k \in Kinds, Press(l, p, k),
         Same(l, p, k) = {}
  PROVE  \E b \in writes' :
           /\ b.post = p /\ b.kind = k /\ b.was = ref[l][p] /\ b.answer = ref[l][p] /\ b.at = "sent"
           /\ (b.alone => Free(p, k)) /\ (b.sound => p \in trusted[l])
           /\ \A x \in writes' : x = b \/ \E w \in writes :
                /\ Kin(x, w) /\ x.at = w.at /\ x.answer = w.answer
                /\ (x.alone => w.alone) /\ (x.sound <=> w.sound) /\ (x.applied <=> w.applied)
           /\ \A w \in writes : \E x \in writes' : Kin(x, w) /\ x.at = w.at
<1> DEFINE R == {w \in writes : w.post = p /\ w.kind = k /\ w.list # l}
           single == (R = {})
           b == Begun(l, p, k, single)
<1>1. writes' = WithBegun(l, p, k) /\ ref[l][p] \in Cards /\ writes \subseteq Toggles
  BY PressFacts DEF PostTypes
<1>2. writes' = {IF w \in R THEN Rival(w) ELSE w : w \in writes} \cup {b}
  BY <1>1, Zenon DEF WithBegun, b, single, R
<1>3. single \in BOOLEAN /\ (single => Free(p, k))
  <2>1. single => \A w \in writes : ~(w.post = p /\ w.kind = k /\ w.list # l)
    OBVIOUS
  <2> QED  BY <2>1 DEF Free, Same
<1>4. /\ b.post = p /\ b.kind = k /\ b.was = ref[l][p] /\ b.at = "sent" /\ b.answer = ref[l][p]
      /\ b.alone = single /\ b.sound = (p \in trusted[l])
  BY DEF Begun
<1> HIDE DEF b, single
<1>5. ASSUME NEW w \in writes
      PROVE  LET x == IF w \in R THEN Rival(w) ELSE w
             IN /\ Kin(x, w) /\ x.at = w.at /\ x.answer = w.answer
                /\ (x.alone => w.alone) /\ (x.sound <=> w.sound) /\ (x.applied <=> w.applied)
  <2>1. CASE w \in R
    <3> HIDE DEF R
    <3> QED  BY <1>1, <2>1, RivalFacts
  <2>2. CASE w \notin R
    <3> HIDE DEF R
    <3> QED  BY <2>2 DEF Kin
  <2> QED  BY <2>1, <2>2
<1> HIDE DEF R
<1>6. \A x \in writes' : x = b \/ \E w \in writes :
        /\ Kin(x, w) /\ x.at = w.at /\ x.answer = w.answer
        /\ (x.alone => w.alone) /\ (x.sound <=> w.sound) /\ (x.applied <=> w.applied)
  BY <1>2, <1>5
<1>7. \A w \in writes : \E x \in writes' : Kin(x, w) /\ x.at = w.at
  BY <1>2, <1>5
<1>8. b \in writes'
  BY <1>2
<1> QED  BY <1>3, <1>4, <1>6, <1>7, <1>8

\* A toggle begins from what is shown, and counts from it in advance.
LEMMA BeginCounts ==
  ASSUME PostInv, PostInv', CountInv, NEW l \in Lists, NEW p \in Posts, NEW k \in Kinds,
         Press(l, p, k), Same(l, p, k) = {}
  PROVE  CountInv'
<1>0. /\ PostTypes /\ PostTypes' /\ RefInv
      /\ StoredInv /\ CarriedInv /\ PagesInv /\ ShownInv
  BY DEF PostInv, CountInv
<1>1. /\ ref[l][p] \in Cards /\ ref[l][p].listed /\ Optimistic(ref[l][p], k) \in Cards
      /\ loads' = {Unclean(r, p) : r \in loads}
      /\ rows' = Published(p, Optimistic(ref[l][p], k), k)
      /\ UNCHANGED <<server, ref, trusted>>
  BY <1>0, PressFacts
<1>2. PICK b \in writes' :
        /\ b.post = p /\ b.kind = k /\ b.was = ref[l][p] /\ b.answer = ref[l][p] /\ b.at = "sent"
        /\ (b.alone => Free(p, k)) /\ (b.sound => p \in trusted[l])
        /\ \A x \in writes' : x = b \/ \E w \in writes :
             /\ Kin(x, w) /\ x.at = w.at /\ x.answer = w.answer
             /\ (x.alone => w.alone) /\ (x.sound <=> w.sound) /\ (x.applied <=> w.applied)
        /\ \A w \in writes : \E x \in writes' : Kin(x, w) /\ x.at = w.at
  BY <1>0, BegunBeside
<1>3. \A q \in Posts : Grown(server'[q], server[q])
  BY <1>0, <1>1, GrownSame DEF PostTypes
<1>4. rows[l][p].listed
  BY <1>0, <1>1 DEF RefInv
<1>5. /\ Low(server[p], ref[l][p].count)
      /\ Free(p, "like") /\ p \in trusted[l] => Fits(server[p], ref[l][p].count)
  BY <1>0, <1>4 DEF ShownInv
<1>6. StoredInv'
  <2>1. \A x \in writes' : x.at = "owing" => \E w \in writes : Kin(x, w) /\ w.at = "owing"
    BY <1>2
  <2>2. \A w \in writes : w.at = "owing" => \E x \in writes' : Kin(x, w) /\ x.at = "owing"
    BY <1>2
  <2> QED  BY <1>0, <1>1, <2>1, <2>2, StoredStays
<1>7. CarriedInv'
  <2> SUFFICES ASSUME NEW x \in writes'
               PROVE  Carried(server'[x.post], x)
    BY DEF CarriedInv
  <2>1. CASE x = b
    BY <1>1, <1>2, <1>5, <2>1 DEF Carried
  <2>2. CASE x # b
    <3>1. PICK w \in writes :
            /\ Kin(x, w) /\ x.at = w.at /\ x.answer = w.answer
            /\ (x.alone => w.alone) /\ (x.sound <=> w.sound) /\ (x.applied <=> w.applied)
      BY <1>2, <2>2
    <3>2. /\ x \in Toggles /\ w \in Toggles /\ w.post \in Posts /\ server[w.post] \in Held
          /\ server'[w.post] \in Held
      BY <1>0 DEF PostTypes, Toggles
    <3>3. Carried(server[w.post], w) /\ Grown(server'[w.post], server[w.post])
      BY <1>0, <1>3, <3>2 DEF CarriedInv
    <3>4. Carried(server'[w.post], x)
      BY <3>1, <3>2, <3>3, CarriedOn DEF Grown
    <3> QED  BY <3>1, <3>4 DEF Kin
  <2> QED  BY <2>1, <2>2
<1>8. PagesInv'
  <2>1. \A r \in loads' : \E s \in loads : r.page = s.page /\ r.at = s.at /\ r.clean \subseteq s.clean
    <3> SUFFICES ASSUME NEW r \in loads'
                 PROVE  \E s \in loads : r.page = s.page /\ r.at = s.at /\ r.clean \subseteq s.clean
      OBVIOUS
    <3>1. PICK s \in loads : r = Unclean(s, p)
      BY <1>1
    <3>2. s \in ListLoads
      BY <1>0 DEF PostTypes
    <3>3. r.page = s.page /\ r.at = s.at /\ r.clean \subseteq s.clean
      BY <3>1, <3>2, UncleanFacts
    <3> QED  BY <3>3
  <2>2. \A r \in loads' : \A q \in r.clean : Grown(server'[q], server[q])
    BY <1>0, <1>3 DEF PostTypes, ListLoads
  <2>3. \A q \in Posts : server[q].low => server'[q].low
    BY <1>1
  <2> QED  BY <1>0, <2>1, <2>2, <2>3, PagesStay
<1>9. ShownInv'
  <2> DEFINE from == Optimistic(ref[l][p], k)
  <2>1. from \in Cards /\ rows' = Published(p, from, k) /\ (from.count < 0 => ref[l][p].count < 0)
    BY <1>1, OptimisticFacts
  <2> HIDE DEF from
  <2>2. \A m \in Lists, q \in Posts :
          /\ rows'[m][q].listed = rows[m][q].listed
          /\ rows'[m][q].count = IF q = p /\ k = "like" /\ Mounted(m) /\ rows[m][q].listed
                                   THEN from.count ELSE rows[m][q].count
    BY <1>0, <2>1, PublishedFacts
  <2>3. \A q : Free(q, "like")' => Free(q, "like") /\ ~(q = p /\ k = "like")
    BY <1>2 DEF Free, Kin
  <2>4. Low(server[p], from.count)
    BY <1>5, <2>1 DEF Low
  <2> SUFFICES ASSUME NEW m \in Lists, NEW q \in Posts, rows'[m][q].listed
               PROVE  /\ Low(server[q], rows'[m][q].count) /\ Low(server[q], ref[m][q].count)
                      /\ Free(q, "like")' => ref[m][q].count = rows'[m][q].count
                      /\ Free(q, "like")' /\ q \in trusted[m] => Fits(server[q], rows'[m][q].count)
    BY <1>1 DEF ShownInv
  <2>5. /\ Low(server[q], rows[m][q].count) /\ Low(server[q], ref[m][q].count)
        /\ Free(q, "like") => ref[m][q].count = rows[m][q].count
        /\ Free(q, "like") /\ q \in trusted[m] => Fits(server[q], rows[m][q].count)
    BY <1>0, <2>2 DEF ShownInv
  <2>6. CASE q = p /\ k = "like"
    BY <2>2, <2>3, <2>4, <2>5, <2>6
  <2>7. CASE ~(q = p /\ k = "like")
    <3>1. rows'[m][q].count = rows[m][q].count
      BY <2>2, <2>7
    <3> QED  BY <2>3, <2>5, <3>1
  <2> QED  BY <2>6, <2>7
<1> QED  BY <1>6, <1>7, <1>8, <1>9 DEF CountInv

\* A press that waits changes no count.
LEMMA AgainCounts ==
  ASSUME PostInv, PostInv', CountInv, NEW l \in Lists, NEW p \in Posts, NEW k \in Kinds,
         Press(l, p, k), Same(l, p, k) # {}
  PROVE  CountInv'
<1>0. /\ PostTypes /\ PostTypes' /\ RefInv /\ writes \subseteq Toggles
      /\ StoredInv /\ CarriedInv /\ PagesInv /\ ShownInv
  BY DEF PostInv, PostTypes, CountInv
<1>1. writes' = WithAgain(l, p, k) /\ UNCHANGED <<server, rows, ref, loads, trusted>>
  BY <1>0, PressFacts
<1>2. ASSUME NEW w \in writes
      PROVE  LET x == IF w \in Same(l, p, k) THEN Again(w) ELSE w
             IN Kin(x, w) /\ SameFlags(x, w) /\ x.at = w.at /\ x.answer = w.answer
  BY <1>0, AgainFacts DEF Kin, SameFlags
<1>3. \A x \in writes' : \E w \in writes :
        Kin(x, w) /\ SameFlags(x, w) /\ x.at = w.at /\ x.answer = w.answer
  BY <1>1, <1>2 DEF WithAgain
<1>4. \A w \in writes : \E x \in writes' : Kin(x, w) /\ x.at = w.at
  BY <1>1, <1>2 DEF WithAgain
<1>5. \A q \in Posts : Grown(server'[q], server[q])
  BY <1>0, <1>1, GrownSame DEF PostTypes
<1>6. StoredInv'
  BY <1>0, <1>1, <1>3, <1>4, StoredStays
<1>7. CarriedInv'
  BY <1>0, <1>3, <1>5, CarriedStays DEF SameFlags
<1>8. PagesInv'
  BY <1>0, <1>1 DEF PagesInv
<1>9. ShownInv'
  <2>1. \A q \in Posts : Free(q, "like")' => Free(q, "like")
    BY <1>4 DEF Free, Kin
  <2> QED  BY <1>0, <1>1, <2>1 DEF ShownInv
<1> QED  BY <1>6, <1>7, <1>8, <1>9 DEF CountInv

\* A toggle ends: what is published counts what the server holds, or the rows
\* are excused.
LEMMA SettleCounts ==
  ASSUME PostInv, PostInv', CountInv, NEW w \in writes, SettleWrite(w)
  PROVE  CountInv'
<1> DEFINE from == IF w.at = "done" THEN w.answer ELSE w.was
           p == w.post
           vouched == w.alone /\ (w.at = "done" \/ (w.sound /\ ~w.applied))
<1>0. /\ PostTypes /\ PostTypes' /\ PaneInv
      /\ StoredInv /\ CarriedInv /\ PagesInv /\ ShownInv
  BY DEF PostInv, CountInv
<1>1. /\ w \in Toggles /\ w.at \in {"done", "failed"} /\ writes' = writes \ {w} /\ from \in Cards
      /\ rows' = Published(p, from, w.kind) /\ ref' = rows'
      /\ trusted' = IF vouched THEN trusted ELSE [l \in Lists |-> trusted[l] \ {p}]
      /\ UNCHANGED <<server, mode, loads>>
  BY <1>0, SettleFacts
<1>2. p \in Posts /\ w.kind \in Kinds /\ trusted \in [Lists -> SUBSET Posts]
  BY <1>0, <1>1 DEF PostTypes, Toggles
<1>3. Carried(server[p], w)
  BY <1>0 DEF CarriedInv
<1>4. Low(server[p], from.count) /\ (vouched /\ w.kind = "like" => Fits(server[p], from.count))
  BY <1>1, <1>3 DEF Carried
<1>5. \A m \in Lists : \A q \in trusted'[m] : q \in trusted[m] /\ (q = p => vouched)
  BY <1>1, <1>2
<1>6. \A m \in Lists, q \in Posts :
        /\ rows'[m][q].listed = rows[m][q].listed
        /\ rows'[m][q].count = IF q = p /\ w.kind = "like" /\ Mounted(m) /\ rows[m][q].listed
                                 THEN from.count ELSE rows[m][q].count
  <2> HIDE DEF from, vouched, p
  <2> QED  BY <1>0, <1>1, <1>2, PublishedFacts
<1> HIDE DEF from, vouched
<1>7. StoredInv'
  <2>1. \A x \in writes' : x.at = "owing" => \E y \in writes : Kin(x, y) /\ y.at = "owing"
    BY <1>1 DEF Kin
  <2>2. \A y \in writes : y.at = "owing" => \E x \in writes' : Kin(x, y) /\ x.at = "owing"
    BY <1>1 DEF Kin
  <2> QED  BY <1>0, <1>1, <2>1, <2>2, StoredStays
<1>8. CarriedInv' /\ PagesInv'
  BY <1>0, <1>1 DEF CarriedInv, PagesInv
<1>9. ShownInv'
  <2> SUFFICES ASSUME NEW m \in Lists, NEW q \in Posts, rows'[m][q].listed
               PROVE  /\ Low(server[q], rows'[m][q].count)
                      /\ Free(q, "like")' /\ q \in trusted'[m] => Fits(server[q], rows'[m][q].count)
    BY <1>1 DEF ShownInv
  <2>1. rows[m][q].listed
    BY <1>6
  <2>2. Mounted(m)
    <3>1. ~Mounted(m) => m = "saved" /\ mode = "outfits"
      BY <1>0 DEF Mounted, Lists, PostTypes
    <3>2. ~Mounted(m) => ~rows[m][q].listed
      BY <1>0, <3>1 DEF PaneInv, Nowhere, NotListed
    <3> QED  BY <2>1, <3>2
  <2>3. CASE q = p /\ w.kind = "like"
    <3>1. rows'[m][q].count = from.count
      BY <1>6, <2>1, <2>2, <2>3
    <3> QED  BY <1>4, <1>5, <2>3, <3>1
  <2>4. CASE ~(q = p /\ w.kind = "like")
    <3>1. rows'[m][q].count = rows[m][q].count
      BY <1>6, <2>4
    <3>2. Free(q, "like")' => Free(q, "like")
      BY <1>1, <2>4 DEF Free
    <3> QED  BY <1>0, <1>5, <2>1, <3>1, <3>2 DEF ShownInv
  <2> QED  BY <2>3, <2>4
<1> QED  BY <1>7, <1>8, <1>9 DEF CountInv

\* The write w of W has become v.
Alters(V, W, v, w) ==
  V = (W \ {w}) \cup {v} /\ w \in W /\ Kin(v, w) /\ \A x \in W : x.n = w.n => x = w

\* A write that begins to owe its $inc is one of those of its post that do, and
\* one that stops is not; the others are as they were.
LEMMA OwingMoves ==
  ASSUME NEW W, NEW w, NEW v, NEW V, Alters(V, W, v, w), NEW q, NEW liked
  PROVE  /\ (v.at = "owing" <=> w.at = "owing") \/ q # w.post \/ liked # w.was.liked =>
              Owing(V, q, liked) = Owing(W, q, liked)
         /\ v.at = "owing" /\ w.at # "owing" /\ q = w.post /\ liked = w.was.liked =>
              /\ w.n \notin Owing(W, q, liked)
              /\ Owing(V, q, liked) = Owing(W, q, liked) \cup {w.n}
         /\ v.at # "owing" /\ w.at = "owing" /\ q = w.post /\ liked = w.was.liked =>
              /\ w.n \in Owing(W, q, liked)
              /\ Owing(V, q, liked) = Owing(W, q, liked) \ {w.n}
<1> DEFINE others == Owing(W \ {w}, q, liked)
           IsOwing(x) == x.at = "owing" /\ q = x.post /\ liked = x.was.liked
<1>1. w.n \notin others
  BY DEF Owing, Alters
<1>2. Owing(W, q, liked) = IF IsOwing(w) THEN others \cup {w.n} ELSE others
  BY DEF Owing, Alters
<1>3. Owing(V, q, liked) = IF IsOwing(v) THEN others \cup {w.n} ELSE others
  BY DEF Owing, Kin, Alters
<1>4. IsOwing(v) <=> v.at = "owing" /\ q = w.post /\ liked = w.was.liked
  BY DEF Kin, Alters
<1> HIDE DEF others
<1> QED  BY <1>1, <1>2, <1>3, <1>4

\* What serving a write leaves of the posts: all but what is written of one.
LEMMA ServedGrown ==
  ASSUME PostTypes, NEW w \in writes, Told(w, server[w.post]), NEW v, Serves(v, w),
         Finds(v, w) \/ Writes(v, w) \/ Tallies(v, w) \/ Saves(v, w) \/ Loses(v, w)
  PROVE  /\ \A q \in Posts : server[q].low => server'[q].low
         /\ \A q \in Posts : q # w.post => Grown(server'[q], server[q])
         /\ Finds(v, w) \/ Saves(v, w) \/ Loses(v, w) \/ (Writes(v, w) /\ ~Owes(w)) =>
              Grown(server'[w.post], server[w.post])
         /\ w.kind = "save" => Saves(v, w) \/ Loses(v, w)
<1> DEFINE p == w.post
<1>1. /\ p \in Posts /\ w.was \in Cards /\ server[p] \in Held /\ server'[p] \in Held
      /\ \A q \in Posts : q # p => server'[q] = server[q]
      /\ server'[p].others = server[p].others
      /\ \A q \in Posts : server[q] \in Held
  BY DEF PostTypes, Toggles, Serves
<1>2. server[p].low => server'[p].low
  BY DEF Finds, Writes, Tallies, Saves, Loses
<1>3. \A q \in Posts : q # p => Grown(server'[q], server[q])
  BY <1>1, GrownSame
<1>4. \A q \in Posts : server[q].low => server'[q].low
  BY <1>1, <1>2
<1>5. server[p].others <= server'[p].others
  BY <1>1 DEF Held
<1>6. ASSUME Finds(v, w) \/ Saves(v, w) \/ Loses(v, w) \/ (Writes(v, w) /\ ~Owes(w))
      PROVE  Grown(server'[p], server[p])
  <2>1. server'[p].liked = server[p].liked
    <3>1. CASE Writes(v, w) /\ ~Owes(w)
      <4>1. server'[p].liked = ~w.was.liked /\ server[p].liked # w.was.liked
        BY <3>1 DEF Writes, Owes
      <4>2. w.was.liked \in BOOLEAN
        BY <1>1 DEF Cards
      <4>3. server[p].liked \in BOOLEAN
        BY <1>1 DEF Held
      <4> QED  BY <4>1, <4>2, <4>3
    <3>2. CASE Finds(v, w) \/ Saves(v, w) \/ Loses(v, w)
      BY <3>2 DEF Finds, Saves, Loses
    <3> QED  BY <1>6, <3>1, <3>2
  <2>2. server[p].slipped => server'[p].slipped
    BY <1>6 DEF Finds, Saves, Loses, Writes
  <2> QED  BY <1>2, <1>5, <2>1, <2>2 DEF Grown
<1>7. w.kind = "save" => Saves(v, w) \/ Loses(v, w)
  BY DEF Told, Finds, Writes, Tallies
<1> QED  BY <1>3, <1>4, <1>6, <1>7

\* What a step of a write makes of a count that is owed an $inc, or no longer:
\* nothing and no debt, a row that is written, or its $inc.
Rests(t, s, v, w) ==
  /\ t.count = s.count /\ (t.liked = s.liked) /\ (s.low => t.low) /\ (s.slipped => t.slipped)
  /\ v.at # "owing" /\ (w.at = "owing" => t.slipped)
Borrows(t, s, v, w) ==
  /\ t.count = s.count /\ (s.liked = w.was.liked) /\ t.liked = ~w.was.liked
  /\ (t.low = s.low) /\ (t.slipped = s.slipped) /\ v.at = "owing" /\ w.at # "owing"
Repays(t, s, v, w) ==
  /\ t.count = s.count + (IF w.was.liked THEN -1 ELSE 1) /\ (t.liked = s.liked)
  /\ (s.low => t.low) /\ (t.count < 0 => t.low) /\ (t.slipped = s.slipped)
  /\ v.at # "owing" /\ w.at = "owing"

\* A row that is written owes the count what it changed, and an $inc pays it.
LEMMA KeptServed ==
  ASSUME NEW s \in Held, NEW t \in Held, NEW W, NEW w \in W, NEW v, Kin(v, w),
         \A x \in W : x.n = w.n => x = w, w.was.liked \in BOOLEAN, t.others = s.others,
         CountKept(s, W, w.post), Rests(t, s, v, w) \/ Borrows(t, s, v, w) \/ Repays(t, s, v, w)
  PROVE  CountKept(t, (W \ {w}) \cup {v}, w.post)
<1> DEFINE V == (W \ {w}) \cup {v}
           unlikes == Owing(W, w.post, TRUE)
           likes == Owing(W, w.post, FALSE)
           unlikesThen == Owing(V, w.post, TRUE)
           likesThen == Owing(V, w.post, FALSE)
           a == Cardinality(unlikes)
           b == Cardinality(likes)
           c == Cardinality(unlikesThen)
           d == Cardinality(likesThen)
<1>1. ASSUME NEW liked
      PROVE  /\ (v.at = "owing" <=> w.at = "owing") \/ liked # w.was.liked =>
                  Owing(V, w.post, liked) = Owing(W, w.post, liked)
             /\ v.at = "owing" /\ w.at # "owing" /\ liked = w.was.liked =>
                  /\ w.n \notin Owing(W, w.post, liked)
                  /\ Owing(V, w.post, liked) = Owing(W, w.post, liked) \cup {w.n}
             /\ v.at # "owing" /\ w.at = "owing" /\ liked = w.was.liked =>
                  /\ w.n \in Owing(W, w.post, liked)
                  /\ Owing(V, w.post, liked) = Owing(W, w.post, liked) \ {w.n}
  <2>1. Alters(V, W, v, w)
    BY DEF Alters
  <2> HIDE DEF V
  <2> QED  BY <2>1, OwingMoves
<1>2. /\ s.count \in Int /\ t.count \in Int /\ s.others \in Nat
      /\ Mine(s) \in Nat /\ Mine(t) \in Nat
  BY DEF Held, Mine
<1>3. /\ Low(s, s.count) /\ IsFiniteSet(unlikes) /\ IsFiniteSet(likes)
      /\ ~s.slipped => s.count = s.others + Mine(s) + a - b
  BY DEF CountKept
<1>4. a \in Nat /\ b \in Nat
  BY <1>3, FS_CardinalityType
<1>5. CASE Rests(t, s, v, w)
  <2>1. \A liked \in BOOLEAN : Owing(V, w.post, liked) \subseteq Owing(W, w.post, liked)
    BY <1>1, <1>5 DEF Rests
  <2>2. ~t.slipped => \A liked \in BOOLEAN : Owing(V, w.post, liked) = Owing(W, w.post, liked)
    BY <1>1, <1>5 DEF Rests
  <2> HIDE DEF V
  <2>3. CountKept(t, V, w.post)
    BY <1>5, <2>1, <2>2, KeptOn DEF Rests
  <2> QED  BY <2>3 DEF V
<1>6. ASSUME IsFiniteSet(unlikesThen), IsFiniteSet(likesThen), Low(t, t.count),
             ~t.slipped => t.count = t.others + Mine(t) + c - d
      PROVE  CountKept(t, V, w.post)
  BY <1>6 DEF CountKept
<1>7. CASE Borrows(t, s, v, w)
  <2>1. Low(t, t.count)
    BY <1>3, <1>7 DEF Borrows, Low
  <2>2. CASE w.was.liked
    <3>1. Mine(s) = 1 /\ Mine(t) = 0
      BY <1>7, <2>2 DEF Borrows, Mine
    <3>2. w.n \notin unlikes /\ unlikesThen = unlikes \cup {w.n} /\ likesThen = likes
      BY <1>1, <1>7, <2>2 DEF Borrows
    <3> HIDE DEF unlikes, unlikesThen, likes, likesThen
    <3>3. IsFiniteSet(unlikesThen) /\ IsFiniteSet(likesThen) /\ c = a + 1 /\ d = b
      BY <1>3, <3>2, FS_AddElement
    <3>4. t.count = s.count /\ (t.slipped <=> s.slipped)
      BY <1>7 DEF Borrows
    <3> HIDE DEF a, b, c, d
    <3>5. ~t.slipped => t.count = t.others + Mine(t) + c - d
      BY <1>2, <1>3, <1>4, <3>1, <3>3, <3>4
    <3> QED  BY <1>6, <2>1, <3>3, <3>5
  <2>3. CASE ~w.was.liked
    <3>1. Mine(s) = 0 /\ Mine(t) = 1
      BY <1>7, <2>3 DEF Borrows, Mine
    <3>2. w.n \notin likes /\ likesThen = likes \cup {w.n} /\ unlikesThen = unlikes
      BY <1>1, <1>7, <2>3 DEF Borrows
    <3> HIDE DEF unlikes, unlikesThen, likes, likesThen
    <3>3. IsFiniteSet(unlikesThen) /\ IsFiniteSet(likesThen) /\ c = a /\ d = b + 1
      BY <1>3, <3>2, FS_AddElement
    <3>4. t.count = s.count /\ (t.slipped <=> s.slipped)
      BY <1>7 DEF Borrows
    <3> HIDE DEF a, b, c, d
    <3>5. ~t.slipped => t.count = t.others + Mine(t) + c - d
      BY <1>2, <1>3, <1>4, <3>1, <3>3, <3>4
    <3> QED  BY <1>6, <2>1, <3>3, <3>5
  <2> QED  BY <2>2, <2>3
<1>8. CASE Repays(t, s, v, w)
  <2>1. Low(t, t.count)
    BY <1>8 DEF Repays, Low
  <2>2. Mine(t) = Mine(s)
    BY <1>8 DEF Repays, Mine
  <2>3. CASE w.was.liked
    <3>1. w.n \in unlikes /\ unlikesThen = unlikes \ {w.n} /\ likesThen = likes
      BY <1>1, <1>8, <2>3 DEF Repays
    <3> HIDE DEF unlikes, unlikesThen, likes, likesThen
    <3>2. IsFiniteSet(unlikesThen) /\ IsFiniteSet(likesThen) /\ c = a - 1 /\ d = b
      BY <1>3, <3>1, FS_RemoveElement
    <3>3. t.count = s.count - 1 /\ (t.slipped <=> s.slipped)
      BY <1>2, <1>8, <2>3 DEF Repays
    <3> HIDE DEF a, b, c, d
    <3>4. ~t.slipped => t.count = t.others + Mine(t) + c - d
      BY <1>2, <1>3, <1>4, <2>2, <3>2, <3>3
    <3> QED  BY <1>6, <2>1, <3>2, <3>4
  <2>4. CASE ~w.was.liked
    <3>1. w.n \in likes /\ likesThen = likes \ {w.n} /\ unlikesThen = unlikes
      BY <1>1, <1>8, <2>4 DEF Repays
    <3> HIDE DEF unlikes, unlikesThen, likes, likesThen
    <3>2. IsFiniteSet(unlikesThen) /\ IsFiniteSet(likesThen) /\ c = a /\ d = b - 1
      BY <1>3, <3>1, FS_RemoveElement
    <3>3. t.count = s.count + 1 /\ (t.slipped <=> s.slipped)
      BY <1>2, <1>8, <2>4 DEF Repays
    <3> HIDE DEF a, b, c, d
    <3>4. ~t.slipped => t.count = t.others + Mine(t) + c - d
      BY <1>2, <1>3, <1>4, <2>2, <3>2, <3>3
    <3> QED  BY <1>6, <2>1, <3>2, <3>4
  <2> QED  BY <2>3, <2>4
<1> QED  BY <1>5, <1>7, <1>8

\* What the server holds is kept through every step of a write.
LEMMA ServeStored ==
  ASSUME PostInv, StoredInv, NEW w \in writes, NEW v, Serves(v, w),
         Finds(v, w) \/ Writes(v, w) \/ Tallies(v, w) \/ Saves(v, w) \/ Loses(v, w)
  PROVE  StoredInv'
<1> DEFINE p == w.post
           s == server[p]
           t == server'[p]
           V == writes'
<1>0. /\ PostTypes /\ WriteInv /\ w \in Toggles /\ p \in Posts /\ s \in Held /\ t \in Held
      /\ CountKept(s, writes, p) /\ w.was \in Cards
  BY DEF PostInv, PostTypes, Toggles, StoredInv, Serves
<1>1. /\ V = (writes \ {w}) \cup {v} /\ Kin(v, w) /\ t.others = s.others
      /\ \A q \in Posts : q # p => server'[q] = server[q]
  BY <1>0 DEF Serves
<1>2. \A x \in writes : x.n = w.n => x = w
  BY <1>0 DEF WriteInv
<1>3. w.was.liked \in BOOLEAN /\ s.liked \in BOOLEAN
  BY <1>0 DEF Cards, Held
<1>4. Rests(t, s, v, w) \/ Borrows(t, s, v, w) \/ Repays(t, s, v, w)
  <2>1. CASE Finds(v, w)
    <3>1. t = s
      BY <2>1 DEF Finds
    <3> HIDE DEF t
    <3> QED  BY <2>1, <3>1 DEF Finds, Rests
  <2>2. CASE Writes(v, w) /\ ~Owes(w)
    <3>1. (s.liked # w.was.liked) /\ t.liked = ~w.was.liked
      BY <2>2 DEF Writes, Owes
    <3>2. t.liked = s.liked
      BY <1>3, <3>1
    <3> QED  BY <2>2, <3>2 DEF Writes, Rests
  <2>3. CASE Writes(v, w) /\ Owes(w)
    BY <2>3 DEF Writes, Owes, Borrows
  <2>4. CASE Tallies(v, w)
    BY <2>4 DEF Tallies, Repays
  <2>5. CASE Saves(v, w)
    BY <2>5 DEF Saves, Rests
  <2>6. CASE Loses(v, w)
    BY <2>6 DEF Loses, Rests
  <2> QED  BY <2>1, <2>2, <2>3, <2>4, <2>5, <2>6
<1> HIDE DEF s, t, V
<1>5. CountKept(t, V, p)
  BY <1>0, <1>1, <1>2, <1>3, <1>4, KeptServed
<1>6. ASSUME NEW q \in Posts, q # p
      PROVE  CountKept(server'[q], V, q)
  <2>1. ASSUME NEW liked
        PROVE  Owing(V, q, liked) = Owing(writes, q, liked)
    <3>1. Alters(V, writes, v, w)
      BY <1>1, <1>2 DEF Alters
    <3> QED  BY <1>6, <3>1, OwingMoves
  <2>2. /\ Owing(V, q, TRUE) = Owing(writes, q, TRUE)
        /\ Owing(V, q, FALSE) = Owing(writes, q, FALSE)
    BY <2>1
  <2>3. CountKept(server[q], writes, q) /\ server'[q] = server[q]
    BY <1>1, <1>6 DEF StoredInv
  <2> QED  BY <2>2, <2>3 DEF CountKept
<1>7. \A q \in Posts : CountKept(server'[q], V, q)
  BY <1>5, <1>6 DEF t
<1> QED  BY <1>7 DEF StoredInv, V

\* A write that is served carries a count that is stored, or the one it carried.
LEMMA ServeCounts ==
  ASSUME PostInv, PostInv', CountInv, NEW w \in writes, NEW v, Serves(v, w),
         Finds(v, w) \/ Writes(v, w) \/ Tallies(v, w) \/ Saves(v, w) \/ Loses(v, w)
  PROVE  CountInv'
<1> DEFINE p == w.post
           s == server[p]
           t == server'[p]
<1>0. /\ PostTypes /\ PostTypes' /\ WriteInv /\ RefInv /\ CleanInv /\ AnswerInv
      /\ StoredInv /\ CarriedInv /\ PagesInv /\ ShownInv
  BY DEF PostInv, CountInv
<1>1. /\ w \in Toggles /\ v \in Toggles /\ p \in Posts /\ s \in Held /\ t \in Held
      /\ Told(w, s) /\ Carried(s, w) /\ CountKept(s, writes, p)
  BY <1>0 DEF PostTypes, Toggles, AnswerInv, CarriedInv, StoredInv, Serves
<1>2. /\ writes' = (writes \ {w}) \cup {v} /\ Kin(v, w)
      /\ (v.alone <=> w.alone) /\ (v.sound <=> w.sound)
      /\ \A q \in Posts : q # p => server'[q] = server[q]
      /\ UNCHANGED <<rows, ref, loads, trusted>>
  BY DEF Serves
<1>3. /\ \A q \in Posts : server[q].low => server'[q].low
      /\ \A q \in Posts : q # p => Grown(server'[q], server[q])
      /\ Finds(v, w) \/ Saves(v, w) \/ Loses(v, w) \/ (Writes(v, w) /\ ~Owes(w)) => Grown(t, s)
      /\ w.kind = "save" => Saves(v, w) \/ Loses(v, w)
  BY <1>0, <1>1, ServedGrown
<1>4. StoredInv'
  BY <1>0, ServeStored
<1>5. w.kind = "like" /\ w.alone => \A x \in writes : x # w /\ x.post = p => x.at # "owing"
  <2> SUFFICES ASSUME w.kind = "like", w.alone, NEW x \in writes, x # w, x.post = p, x.at = "owing"
               PROVE  FALSE
    OBVIOUS
  <2>1. x.kind = "like"
    BY <1>0 DEF AnswerInv, Told
  <2> QED  BY <1>0, <2>1 DEF WriteInv
<1>6. /\ w.was.count \in Int /\ w.answer.count \in Int
  BY <1>1 DEF Toggles, Cards
<1>7. Carried(t, v)
  <2>1. Low(t, v.was.count)
    BY <1>1, <1>2, <1>3, <1>6, GrownFacts DEF Carried, Kin
  <2>2. Low(t, v.answer.count)
    <3>1. CASE Finds(v, w)
      BY <1>1, <3>1 DEF Finds, CountKept
    <3>2. CASE Tallies(v, w)
      BY <3>2 DEF Tallies, Low
    <3>3. CASE Writes(v, w) \/ Saves(v, w) \/ Loses(v, w)
      <4>1. v.answer.count = w.answer.count
        BY <3>3 DEF Writes, Saves, Loses
      <4> QED  BY <1>1, <1>3, <1>6, <4>1, GrownFacts DEF Carried
    <3> QED  BY <3>1, <3>2, <3>3
  <2>3. ASSUME w.kind = "like", w.alone, v.at \in {"found", "done"}
        PROVE  Fits(t, v.answer.count)
    <3>1. CASE Finds(v, w)
      <4>1. \A x \in writes : x.post = p => x.at # "owing"
        BY <1>5, <2>3, <3>1 DEF Finds
      <4>2. ~s.slipped => Fits(s, s.count)
        BY <1>1, <4>1, NoneOwing
      <4> QED  BY <3>1, <4>2 DEF Finds, Fits
    <3>2. CASE Writes(v, w)
      <4>1. ~Owes(w) /\ w.at = "found" /\ v.answer = w.answer
        BY <2>3, <3>2 DEF Writes
      <4>2. Grown(t, s) /\ Fits(s, w.answer.count)
        BY <1>1, <1>3, <2>3, <3>2, <4>1 DEF Carried
      <4> QED  BY <1>1, <1>6, <4>1, <4>2, GrownFacts
    <3>3. CASE Tallies(v, w)
      <4>1. \A x \in writes' : x.post = p => x.at # "owing"
        BY <1>2, <1>5, <2>3, <3>3 DEF Tallies
      <4>2. CountKept(t, writes', p)
        BY <1>1, <1>4 DEF StoredInv
      <4>3. ~t.slipped => Fits(t, t.count)
        <5> DEFINE V == writes'
        <5>1. CountKept(t, V, p) /\ \A x \in V : x.post = p => x.at # "owing"
          BY <4>1, <4>2
        <5> HIDE DEF V, t, p
        <5> QED  BY <1>1, <5>1, NoneOwing
      <4> QED  BY <3>3, <4>3 DEF Tallies, Fits
    <3>4. CASE Saves(v, w)
      BY <2>3, <3>4 DEF Saves
    <3>5. CASE Loses(v, w)
      BY <2>3, <3>5 DEF Loses
    <3> QED  BY <3>1, <3>2, <3>3, <3>4, <3>5
  <2>4. ASSUME w.kind = "like", w.alone, v.sound, ~v.applied
        PROVE  Fits(t, w.was.count)
    <3>1. Finds(v, w) \/ Loses(v, w)
      BY <1>1, <2>4 DEF Told, Writes, Tallies, Saves
    <3>2. ~w.applied /\ Grown(t, s)
      BY <1>3, <2>4, <3>1 DEF Finds, Loses
    <3>3. Fits(s, w.was.count)
      BY <1>1, <1>2, <2>4, <3>2 DEF Carried
    <3> QED  BY <1>1, <1>6, <3>2, <3>3, GrownFacts
  <2> QED  BY <1>2, <2>1, <2>2, <2>3, <2>4 DEF Carried, Kin
<1>8. CarriedInv'
  <2> SUFFICES ASSUME NEW x \in writes'
               PROVE  Carried(server'[x.post], x)
    BY DEF CarriedInv
  <2>1. CASE x = v
    BY <1>2, <1>7, <2>1 DEF Kin
  <2>2. CASE x # v
    <3>1. /\ x \in writes /\ x # w /\ x \in Toggles /\ x.post \in Posts /\ Carried(server[x.post], x)
          /\ server[x.post] \in Held /\ server'[x.post] \in Held
      BY <1>0, <1>2, <2>2 DEF PostTypes, Toggles, CarriedInv
    <3>2. x.kind = "like" /\ x.alone => Grown(server'[x.post], server[x.post])
      <4>1. CASE x.post # p
        BY <1>3, <3>1, <4>1
      <4>2. CASE x.post = p
        <5>1. x.kind = "like" /\ x.alone => w.kind = "save"
          BY <1>0, <1>1, <3>1, <4>2 DEF WriteInv, Toggles, Kinds
        <5> QED  BY <1>3, <4>2, <5>1
      <4> QED  BY <4>1, <4>2
    <3>3. Kin(x, x)
      BY DEF Kin
    <3>4. server[x.post].low => server'[x.post].low
      BY <1>3, <3>1
    <3> QED  BY <3>1, <3>2, <3>3, <3>4, CarriedOn
  <2> QED  BY <2>1, <2>2
<1>9. PagesInv'
  <2>1. \A r \in loads' : \E x \in loads : r.page = x.page /\ r.at = x.at /\ r.clean \subseteq x.clean
    BY <1>2
  <2>2. \A r \in loads' : \A q \in r.clean : Grown(server'[q], server[q])
    <3> SUFFICES ASSUME NEW r \in loads, NEW q \in r.clean
                 PROVE  Grown(server'[q], server[q])
      BY <1>2
    <3>1. q \in Posts
      BY <1>0 DEF PostTypes, ListLoads
    <3>2. q # p
      BY <1>0, <3>1 DEF CleanInv
    <3> QED  BY <1>3, <3>1, <3>2
  <2> QED  BY <1>0, <1>3, <2>1, <2>2, PagesStay
<1>10. ShownInv'
  <2>1. \A q \in Posts : Free(q, "like")' => Free(q, "like") /\ Grown(server'[q], server[q])
    <3> SUFFICES ASSUME NEW q \in Posts, Free(q, "like")'
                 PROVE  Free(q, "like") /\ Grown(server'[q], server[q])
      OBVIOUS
    <3>1. Free(q, "like")
      BY <1>2 DEF Free, Kin
    <3>2. q = p => w.kind = "save"
      BY <1>1, <3>1 DEF Free, Toggles, Kinds
    <3> QED  BY <1>3, <3>1, <3>2
  <2> QED  BY <1>0, <1>2, <1>3, <2>1, ShownStays
<1> QED  BY <1>4, <1>8, <1>9, <1>10 DEF CountInv

----------------------------------------------------------------------------
(***************************************************************************)
(* The invariant of the lists of posts.                                    *)
(***************************************************************************)

\* At first every row says what the server holds, and nothing is under way.
LEMMA PostInvInit == PostsInit => PostInv
<1> SUFFICES ASSUME PostsInit
             PROVE  PostInv
  OBVIOUS
<1>1. /\ server = [p \in Posts |-> [liked |-> FALSE, saved |-> FALSE, count |-> 0, others |-> 0,
                                   low |-> FALSE, slipped |-> FALSE]]
      /\ rows = [l \in Lists |-> IF l = "feed" THEN [p \in Posts |-> Row(FALSE, 0, FALSE)] ELSE Nowhere]
      /\ ref = rows /\ mode = "outfits" /\ postWrites = 0 /\ writes = {} /\ loads = {} /\ dirty = FALSE
      /\ spent = [presses |-> 0, loads |-> 0, losses |-> 0]
      /\ trusted = [l \in Lists |-> Posts]
  BY DEF PostsInit
<1>2. MaxPresses \in Nat /\ MaxLoads \in Nat /\ MaxLosses \in Nat
  BY ListBoundsAssumption
<1>3. Row(FALSE, 0, FALSE) \in Cards
  BY DEF Row, Cards
<1>4. rows \in [Lists -> CardLists]
  BY <1>1, <1>3 DEF CardLists, Nowhere
<1>5. server \in [Posts -> Held]
  BY <1>1, <1>2 DEF Held
<1>6. spent \in [presses : 0..MaxPresses, loads : 0..MaxLoads, losses : 0..MaxLosses]
  BY <1>1, <1>2
<1>7. \A p \in Posts : server[p].others <= spent.presses
  BY <1>1
<1>8. PostTypes
  BY <1>1, <1>4, <1>5, <1>6, <1>7 DEF PostTypes
<1>9. WriteInv /\ AnswerInv /\ RefInv /\ CleanInv
  BY <1>1 DEF WriteInv, AnswerInv, RefInv, CleanInv
<1>10. PaneInv /\ SavedInv
  BY <1>1 DEF PaneInv, SavedInv, Lists
<1>11. TrustInv
  <2>1. \A p \in Posts, k \in Kinds : Flag(rows["feed"][p], k) = Flag(server[p], k)
    BY <1>1 DEF Flag, Row, Lists
  <2>2. \A p \in Posts : rows["saved"][p].listed = FALSE
    BY <1>1 DEF Nowhere, NotListed, Lists
  <2> QED  BY <1>1, <2>1, <2>2 DEF TrustInv, Lists
<1>12. PressInv
  <2>1. Presses(writes) = {}
    BY <1>1 DEF Presses
  <2>2. spent.presses = 0 /\ postWrites = 0
    BY <1>1
  <2> QED  BY <2>1, <2>2, FS_EmptySet DEF PressInv, ChipsMatchWrites
<1> QED  BY <1>8, <1>9, <1>10, <1>11, <1>12 DEF PostInv

\* Every step of the lists of posts keeps their invariant.
LEMMA PostInvStep == PostInv /\ [PostsNext]_postVars => PostInv'
<1> SUFFICES ASSUME PostInv, [PostsNext]_postVars
             PROVE  PostInv'
  OBVIOUS
<1>1. CASE CommitLists
  BY <1>1, CommitKeeps
<1>2. CASE ShowSaved \/ FocusSaved \/ \E l \in Lists : RefreshList(l)
  BY <1>2, SendKeeps
<1>3. CASE ShowOutfits
  BY <1>3, ShowOutfitsKeeps
<1>4. ASSUME NEW l \in Lists, NEW p \in Posts, NEW k \in Kinds, Press(l, p, k)
      PROVE  PostInv'
  <2>1. CASE Same(l, p, k) = {}
    BY <1>4, <2>1, BeginKeeps
  <2>2. CASE Same(l, p, k) # {}
    BY <1>4, <2>2, AgainKeeps
  <2> QED  BY <2>1, <2>2
<1>5. ASSUME NEW p \in Posts, OtherLikes(p)
      PROVE  PostInv'
  BY <1>5, OtherLikesKeeps
<1>6. ASSUME NEW r \in loads, ReadPosts(r) \/ ReadFlags(r) \/ LoseLoad(r)
      PROVE  PostInv'
  BY <1>6, LoadKeeps
<1>7. ASSUME NEW r \in loads, DeliverLoad(r)
      PROVE  PostInv'
  BY <1>7, DeliverLoadKeeps
<1>8. ASSUME NEW w \in writes,
             FindLiked(w) \/ WriteLike(w) \/ CountLike(w) \/ WriteSave(w) \/ LoseWrite(w)
      PROVE  PostInv'
  <2>1. PICK v : /\ Serves(v, w)
                 /\ Finds(v, w) \/ Writes(v, w) \/ Tallies(v, w) \/ Saves(v, w) \/ Loses(v, w)
    BY <1>8, WriteGoesOn DEF PostInv
  <2> QED  BY <2>1, ServeKeeps
<1>9. ASSUME NEW w \in writes, SettleWrite(w)
       PROVE  PostInv'
  BY <1>9, SettleKeeps
<1>10. CASE UNCHANGED postVars
  <2>1. UNCHANGED <<server, rows, ref, mode, postWrites, writes, loads, dirty, spent, trusted, stale>>
    BY <1>10 DEF postVars
  <2>2. PostTypes' /\ WriteInv' /\ AnswerInv'
    BY <2>1 DEF PostInv, PostTypes, WriteInv, AnswerInv
  <2>3. RefInv' /\ CleanInv' /\ PaneInv' /\ TrustInv'
    BY <2>1 DEF PostInv, RefInv, CleanInv, PaneInv, TrustInv, Free
  <2>4. SavedInv' /\ PressInv'
    BY <2>1 DEF PostInv, SavedInv, Loading, PressInv, ChipsMatchWrites
  <2> QED  BY <2>2, <2>3, <2>4 DEF PostInv
<1> QED
  BY <1>1, <1>2, <1>3, <1>4, <1>5, <1>6, <1>7, <1>8, <1>9, <1>10 DEF PostsNext

\* At first nobody likes a post, and nothing is counted.
LEMMA CountInvInit == PostsInit => CountInv
<1> SUFFICES ASSUME PostsInit
             PROVE  CountInv
  OBVIOUS
<1> DEFINE none == [liked |-> FALSE, saved |-> FALSE, count |-> 0, others |-> 0, low |-> FALSE,
                    slipped |-> FALSE]
<1>1. /\ \A p \in Posts : server[p] = none
      /\ rows = [l \in Lists |-> IF l = "feed" THEN [p \in Posts |-> Row(FALSE, 0, FALSE)] ELSE Nowhere]
      /\ ref = rows /\ writes = {} /\ loads = {}
  BY DEF PostsInit
<1>2. StoredInv
  <2> SUFFICES ASSUME NEW p \in Posts
               PROVE  CountKept(none, {}, p)
    BY <1>1 DEF StoredInv
  <2>1. Owing({}, p, TRUE) = {} /\ Owing({}, p, FALSE) = {}
    BY DEF Owing
  <2>2. IsFiniteSet({}) /\ Cardinality({}) = 0
    BY FS_EmptySet
  <2>3. Mine(none) = 0 /\ none.count = 0 /\ none.others = 0
    BY DEF Mine
  <2>4. Low(none, none.count)
    BY <2>3 DEF Low
  <2> HIDE DEF none
  <2>5. none.count = none.others + Mine(none) + Cardinality({}) - Cardinality({})
    BY <2>2, <2>3
  <2> QED  BY <2>1, <2>2, <2>4, <2>5 DEF CountKept
<1>3. CarriedInv /\ PagesInv
  BY <1>1 DEF CarriedInv, PagesInv
<1>4. ShownInv
  <2> SUFFICES ASSUME NEW l \in Lists, NEW p \in Posts, rows[l][p].listed
               PROVE  Low(none, rows[l][p].count) /\ Fits(none, rows[l][p].count)
    BY <1>1 DEF ShownInv
  <2>1. l = "feed"
    BY <1>1 DEF Nowhere, NotListed, Lists
  <2>2. rows[l][p].count = 0
    BY <1>1, <2>1 DEF Row, Lists
  <2> QED  BY <2>2 DEF Low, Fits, Mine
<1> QED  BY <1>2, <1>3, <1>4 DEF CountInv

\* Every step of the lists of posts keeps the counts right.
LEMMA CountInvStep == PostInv /\ CountInv /\ [PostsNext]_postVars => CountInv'
<1> SUFFICES ASSUME PostInv, CountInv, [PostsNext]_postVars
             PROVE  CountInv'
  OBVIOUS
<1>0. PostInv'
  BY PostInvStep
<1>1. CASE CommitLists
  BY <1>1, CommitCounts
<1>2. CASE ShowSaved \/ FocusSaved \/ \E l \in Lists : RefreshList(l)
  BY <1>0, <1>2, SendCounts
<1>3. CASE ShowOutfits
  BY <1>0, <1>3, ShowOutfitsCounts
<1>4. ASSUME NEW l \in Lists, NEW p \in Posts, NEW k \in Kinds, Press(l, p, k)
      PROVE  CountInv'
  <2>1. CASE Same(l, p, k) = {}
    BY <1>0, <1>4, <2>1, BeginCounts
  <2>2. CASE Same(l, p, k) # {}
    BY <1>0, <1>4, <2>2, AgainCounts
  <2> QED  BY <2>1, <2>2
<1>5. ASSUME NEW p \in Posts, OtherLikes(p)
      PROVE  CountInv'
  BY <1>0, <1>5, OtherLikesCounts
<1>6. ASSUME NEW r \in loads, ReadPosts(r) \/ ReadFlags(r) \/ LoseLoad(r)
      PROVE  CountInv'
  BY <1>0, <1>6, ReadCounts
<1>7. ASSUME NEW r \in loads, DeliverLoad(r)
      PROVE  CountInv'
  BY <1>0, <1>7, DeliverCounts
<1>8. ASSUME NEW w \in writes,
             FindLiked(w) \/ WriteLike(w) \/ CountLike(w) \/ WriteSave(w) \/ LoseWrite(w)
      PROVE  CountInv'
  <2>1. PICK v : /\ Serves(v, w)
                 /\ Finds(v, w) \/ Writes(v, w) \/ Tallies(v, w) \/ Saves(v, w) \/ Loses(v, w)
    BY <1>8, WriteGoesOn DEF PostInv
  <2> QED  BY <1>0, <2>1, ServeCounts
<1>9. ASSUME NEW w \in writes, SettleWrite(w)
      PROVE  CountInv'
  BY <1>0, <1>9, SettleCounts
<1>10. CASE UNCHANGED postVars
  <2>1. UNCHANGED <<server, rows, ref, writes, loads, trusted>>
    BY <1>10 DEF postVars
  <2>2. StoredInv' /\ CarriedInv' /\ PagesInv'
    BY <2>1 DEF CountInv, StoredInv, CarriedInv, PagesInv
  <2>3. ShownInv'
    BY <2>1 DEF CountInv, ShownInv, Free
  <2> QED  BY <2>2, <2>3 DEF CountInv
<1> QED
  BY <1>1, <1>2, <1>3, <1>4, <1>5, <1>6, <1>7, <1>8, <1>9, <1>10 DEF PostsNext

\* The invariant is what the cards and the chips are to show, and more.
LEMMA PostSound == PostInv /\ CountInv => RowsAreTrue /\ SavesSettle
<1> SUFFICES ASSUME PostInv, CountInv
             PROVE  RowsAreTrue /\ SavesSettle
  OBVIOUS
<1>0. /\ PostTypes /\ TrustInv /\ SavedInv /\ PressInv /\ MaxPresses \in Nat
      /\ rows \in [Lists -> CardLists] /\ writes \subseteq Toggles /\ spent.presses \in 0..MaxPresses
      /\ trusted \in [Lists -> SUBSET Posts]
  BY ListBoundsAssumption DEF PostInv, PostTypes
<1>1. \A l \in Lists, p \in Posts : rows[l][p].listed => rows[l][p].count \in Int
  <2>1. \A l \in Lists, p \in Posts : rows[l][p] \in Cards \cup {NotListed}
    BY <1>0 DEF CardLists
  <2> SUFFICES ASSUME NEW l \in Lists, NEW p \in Posts, rows[l][p].listed
               PROVE  rows[l][p].count \in Int
    OBVIOUS
  <2>2. rows[l][p] \in Cards
    BY <2>1, ListedIsCard
  <2> QED  BY <2>2 DEF Cards
<1>2. postWrites \in 0..MaxPresses
  <2>1. postWrites \in Nat /\ postWrites <= spent.presses
    BY <1>0, FS_CardinalityType DEF PressInv, ChipsMatchWrites
  <2> QED  BY <1>0, <2>1
<1>3. \A w \in writes : /\ w.list \in Lists \cup {"gone"} /\ w.kind \in Kinds
                      /\ w.at \in {"sent", "found", "owing", "done", "failed"}
  BY <1>0 DEF Toggles
<1>4. PostsTypeOK
  BY <1>0, <1>1, <1>2, <1>3 DEF PostsTypeOK, PostTypes, Held
<1>5. FlagsAreTrue
  <2> SUFFICES ASSUME NEW l \in Lists, NEW p \in trusted[l], rows[l][p].listed,
                      \A w \in writes : w.post # p
               PROVE  rows[l][p].liked = server[p].liked /\ rows[l][p].saved = server[p].saved
    BY DEF FlagsAreTrue
  <2>1. "like" \in Kinds /\ "save" \in Kinds
    BY DEF Kinds
  <2>2. \A k \in Kinds : Free(p, k)
    BY DEF Free
  <2>3. \A k \in Kinds : Flag(rows[l][p], k) = Flag(server[p], k)
    BY <1>0, <2>2 DEF TrustInv
  <2> QED  BY <2>1, <2>3, FlagIsField
<1>6. CountsAreCounts
  <2>1. ASSUME NEW l \in Lists, NEW p \in Posts, rows[l][p].listed, rows[l][p].count < 0
        PROVE  server[p].low
    BY <2>1 DEF CountInv, ShownInv, Low
  <2>2. ASSUME NEW p \in Posts, ~server[p].slipped, \A w \in writes : w.post # p
        PROVE  /\ server[p].count = server[p].others + Own(p)
               /\ \A l \in Lists : p \in trusted[l] /\ rows[l][p].listed =>
                    Own(p) <= rows[l][p].count /\ rows[l][p].count <= server[p].count
    <3>1. server[p] \in Held /\ CountKept(server[p], writes, p) /\ Own(p) = Mine(server[p])
      BY <1>0 DEF CountInv, StoredInv, PostTypes, Own, Mine
    <3>2. server[p].count = server[p].others + Own(p)
      BY <2>2, <3>1, NoneOwing
    <3>3. Free(p, "like")
      BY <2>2 DEF Free
    <3>4. \A l \in Lists : p \in trusted[l] /\ rows[l][p].listed => Fits(server[p], rows[l][p].count)
      BY <3>3 DEF CountInv, ShownInv
    <3> QED  BY <2>2, <3>1, <3>2, <3>4 DEF Fits
  <2> QED  BY <2>1, <2>2 DEF CountsAreCounts
<1>7. ChipsMatchWrites
  BY <1>0 DEF PressInv
<1>8. SavesAreListed
  BY <1>0 DEF SavesAreListed, SavedInv
<1> QED  BY <1>4, <1>5, <1>6, <1>7, <1>8 DEF RowsAreTrue, SavesSettle

----------------------------------------------------------------------------
(***************************************************************************)
(* The tabs.                                                               *)
(***************************************************************************)

\* A step of the tabs is a step of the lists of posts, or leaves them.
LEMMA PostsAlone == [TabsNext]_tabsVars => [PostsNext]_postVars
BY DEF TabsNext, tabsVars

\* The pages of the wardrobe and of the profile join without a gap, an empty
\* screen was told of an empty wardrobe, "Nothing in the wash." rests on a count
\* or on a page, what the section says is what was so where both are of one
\* moment, and a whole index misses nothing (useWardrobe.ts, wardrobe.tsx,
\* LaundryList.tsx:63-82, useItemIndex.ts).  While the retry of a failed first
\* load is under way the gallery is called empty, and the wash section says it
\* is, on no answer at all: of that moment nothing is claimed.
THEOREM ListsAlwaysTrue == TabsSpec => []ListsAreTrue
<1>1. TabsInit => GalleryInv
  BY GalleryInvInit DEF TabsInit
<1>2. GalleryInv /\ [TabsNext]_tabsVars => GalleryInv'
  <2> SUFFICES ASSUME GalleryInv, [TabsNext]_tabsVars
               PROVE  GalleryInv'
    OBVIOUS
  <2>1. [GalleryNext]_galleryVars
    BY DEF TabsNext, tabsVars
  <2> QED  BY <2>1, GalleryInvStep
<1>3. GalleryInv => ListsAreTrue
  BY GallerySound
<1> QED  BY <1>1, <1>2, <1>3, PTL DEF TabsSpec

\* A row of either list of posts says what the server holds once no write of its
\* post is under way; its count is below 0 only of a post whose stored count was,
\* counts the viewer's own like and no more likes than are stored, unless an $inc
\* was lost for good (community.ts:645-740, postInteractions.ts).
THEOREM RowsAlwaysTrue == TabsSpec => []RowsAreTrue
<1>1. TabsInit => PostInv /\ CountInv
  BY PostInvInit, CountInvInit DEF TabsInit
<1>2. PostInv /\ CountInv /\ [TabsNext]_tabsVars => (PostInv /\ CountInv)'
  BY PostsAlone, PostInvStep, CountInvStep
<1>3. PostInv /\ CountInv => RowsAreTrue
  BY PostSound
<1> QED  BY <1>1, <1>2, <1>3, PTL DEF TabsSpec

\* The chips of the Favorites tab come back when the presses they wait for have
\* settled, and a post saved is listed, loading or marked (favorites.tsx).
THEOREM SavesAlwaysSettle == TabsSpec => []SavesSettle
<1>1. TabsInit => PostInv /\ CountInv
  BY PostInvInit, CountInvInit DEF TabsInit
<1>2. PostInv /\ CountInv /\ [TabsNext]_tabsVars => (PostInv /\ CountInv)'
  BY PostsAlone, PostInvStep, CountInvStep
<1>3. PostInv /\ CountInv => SavesSettle
  BY PostSound
<1> QED  BY <1>1, <1>2, <1>3, PTL DEF TabsSpec
=============================================================================
