--------------------------- MODULE TrackingProofs ---------------------------
(***************************************************************************)
(* The tracking screens, for every history, page size and bound: the wear  *)
(* history is paged without a gap and to the end, and the plans on screen  *)
(* are those of the month; what the detail screens show is so, each of     *)
(* their controls sends one request, and the lists under them hear of it.  *)
(***************************************************************************)
EXTENDS Tracking, ListingProofs

----------------------------------------------------------------------------
(***************************************************************************)
(* The calendar's inductive invariant.                                     *)
(***************************************************************************)
\* A wear, or a plan, as it is stored.
Wear == [month : Months, n : Nat \ {0}]
Stages == {"sent", "done", "failed"}
Pages == [rows : SUBSET Wear, next : Wear \cup {NoWear}]
Asks == [id : Nat, append : BOOLEAN, cursor : Wear \cup {NoWear}, at : Stages,
         page : Pages, base : Nat]
Histories == [rows : SUBSET Wear, next : Wear \cup {NoWear},
              doing : {"idle", "loading", "refreshing", "loadingMore"}, id : Nat,
              failed : BOOLEAN, base : Nat]

\* Types of the calendar's state, of what its requests hold included.
CalendarTypes ==
  /\ month \in Months /\ marked \subseteq {"tracking", "plans"}
  /\ wears \in SUBSET Wear /\ IsFiniteSet(wears) /\ plans \in SUBSET Wear
  /\ hist \in Histories /\ asks \in SUBSET Asks
  /\ planned \in [rows : SUBSET Wear, doing : BOOLEAN, id : Nat, failed : BOOLEAN]
  /\ planAsks \in SUBSET [id : Nat, range : Months, at : Stages, rows : SUBSET Wear]
  /\ cancels \in SUBSET [plan : Wear, range : Months, at : Stages]
  /\ runs \in [{"logs", "turns", "loads", "slips"} -> Nat]

\* One request has each id; the newest is for what the hook is doing, and one
\* for more goes on from where the rows end.
AsksInv ==
  /\ \A q \in asks : q.id <= hist.id
  /\ \A p, q \in asks : p.id = q.id => p = q
  /\ hist.doing # "idle" => \E q \in asks : q.id = hist.id
  /\ \A q \in asks : q.id = hist.id =>
       /\ hist.doing # "idle" /\ (q.append <=> hist.doing = "loadingMore")
       /\ q.append => q.cursor = hist.next /\ q.base = hist.base /\ hist.next # NoWear

\* Rows end with their cursor.
EndsWith(rows, next) ==
  next # NoWear => next \in rows /\ \A v \in rows \ {next} : Newer(v, next)

\* No wear older than from is missing among rows, but for those older than
\* their cursor and those logged since the list was begun.
Whole(all, rows, next, from, base) ==
  \A w \in all \ rows : from = NoWear \/ Newer(from, w) =>
    w.n > base \/ (next # NoWear /\ Newer(next, w))

\* What a request of the history brings back.
AskedInv ==
  \A q \in asks :
    /\ q.append <=> q.cursor # NoWear
    /\ q.base <= runs["logs"]
    /\ q.at = "done" =>
         /\ q.page.rows \subseteq wears /\ EndsWith(q.page.rows, q.page.next)
         /\ q.append => \A w \in q.page.rows : Newer(q.cursor, w)
         /\ Whole(wears, q.page.rows, q.page.next, q.cursor, q.base)

\* What the hook shows.
HistInv ==
  /\ hist.base <= runs["logs"]
  /\ hist.rows \subseteq wears /\ EndsWith(hist.rows, hist.next)
  /\ hist.rows # {} => Whole(wears, hist.rows, hist.next, NoWear, hist.base)

\* A month is complete once the rows reach behind it.
Reached(h, m) == h.next = NoWear \/ h.next.month < m

\* The paging stops only there, or at what restarted remembers.
PagingInv ==
  /\ hist.doing \in {"idle", "refreshing"} /\ ~restarted => Reached(hist, month)
  /\ hist.doing = "loading" => hist.next = NoWear

\* The newest request of the plans is for the month on screen and succeeds, or
\* misread remembers why not; what it brought back is still so.
PlansInv ==
  /\ \A q \in planAsks : q.id <= planned.id
  /\ \A p, q \in planAsks : p.id = q.id => p = q
  /\ planned.doing => \E q \in planAsks : q.id = planned.id
  /\ \A q \in planAsks : q.id = planned.id =>
       /\ planned.doing
       /\ q.range # month \/ q.at = "failed" => misread
       /\ q.at = "done" /\ cancels = {} /\ "plans" \notin marked /\ ~misread =>
            q.rows = Of(plans, month)
  /\ PlansAreTrue

CalendarInv ==
  CalendarTypes /\ AsksInv /\ AskedInv /\ HistInv /\ PagingInv /\ PlansInv

----------------------------------------------------------------------------
(***************************************************************************)
(* The order of the wears, and a page.                                     *)
(***************************************************************************)
\* The bounds, as the provers use them.
LEMMA CalendarBounds ==
  /\ PageSize \in Nat /\ PageSize > 0 /\ FirstMonth \in Int /\ LastMonth \in Nat
  /\ FirstMonth <= 0 /\ 0 \in Months /\ Months \subseteq Int
  /\ Past \in Seq(Months)
<1>1. Past \in Seq(FirstMonth..0) /\ FirstMonth \in Int /\ LastMonth \in Nat
  BY CalendarBoundsAssumption
<1>2. FirstMonth..0 \subseteq Months
  BY <1>1 DEF Months
<1>3. Past \in Seq(Months)
  BY <1>1, <1>2
<1> QED  BY <1>3, CalendarBoundsAssumption DEF Months

\* Newest first is a strict total order of the wears.
LEMMA WearsAreOrdered ==
  /\ NoWear \notin Wear
  /\ \A v \in Wear : ~Newer(v, v)
  /\ \A v, w \in Wear : v # w => Newer(v, w) \/ Newer(w, v)
  /\ \A u, v, w \in Wear : Newer(u, v) /\ Newer(v, w) => Newer(u, w)
<1>1. \A w \in Wear : w = [month |-> w.month, n |-> w.n] /\ w.month \in Int /\ w.n \in Int /\ w.n > 0
  <2> TAKE w \in Wear
  <2>1. w.month \in Months /\ w.n \in Nat \ {0} /\ w = [month |-> w.month, n |-> w.n]
    BY DEF Wear
  <2> QED  BY <2>1, CalendarBounds
<1>2. NoWear \notin Wear
  BY <1>1 DEF NoWear
<1>3. \A v \in Wear : ~Newer(v, v)
  BY <1>1 DEF Newer
<1>4. \A v, w \in Wear : v # w => Newer(v, w) \/ Newer(w, v)
  <2> TAKE v, w \in Wear
  <2> HAVE v # w
  <2>1. v.month # w.month \/ v.n # w.n
    BY <1>1
  <2>2. v.month \in Int /\ w.month \in Int /\ v.n \in Int /\ w.n \in Int
    BY <1>1
  <2> QED  BY <2>1, <2>2 DEF Newer
<1>5. \A u, v, w \in Wear : Newer(u, v) /\ Newer(v, w) => Newer(u, w)
  BY <1>1 DEF Newer
<1> QED  BY <1>2, <1>3, <1>4, <1>5

\* How many of a set of wears are newer than each of them.
LEMMA WearRanks ==
  ASSUME NEW S \in SUBSET Wear, IsFiniteSet(S)
  PROVE  /\ Cardinality(S) \in Nat
         /\ \A p \in S : Cardinality({v \in S : Newer(v, p)}) \in 0..(Cardinality(S) - 1)
         /\ \A p, q \in S : Newer(p, q) =>
              Cardinality({v \in S : Newer(v, p)}) < Cardinality({v \in S : Newer(v, q)})
         /\ \A k \in 1..Cardinality(S) : \E p \in S : Cardinality({v \in S : Newer(v, p)}) = k - 1
<1> DEFINE above == [p \in S |-> {v \in S : Newer(v, p)}]
<1>1. \A p \in S : above[p] = {v \in S : Newer(v, p)}
  OBVIOUS
<1>2. above \in [S -> SUBSET S]
  OBVIOUS
<1>3. \A p \in S : p \notin above[p]
  BY WearsAreOrdered
<1>4. \A p, q \in S : p # q => p \in above[q] \/ q \in above[p]
  BY WearsAreOrdered
<1>5. \A p, q \in S : p \in above[q] => above[p] \subseteq above[q]
  BY WearsAreOrdered
<1> HIDE DEF above
<1>6. /\ Cardinality(S) \in Nat
      /\ \A p \in S : Cardinality(above[p]) \in 0..(Cardinality(S) - 1)
      /\ \A p, q \in S : p \in above[q] => Cardinality(above[p]) < Cardinality(above[q])
      /\ \A k \in 1..Cardinality(S) : \E p \in S : Cardinality(above[p]) = k - 1
  BY <1>2, <1>3, <1>4, <1>5, Ranks
<1> QED  BY <1>1, <1>6

\* A set of wears with one in it has an oldest.
LEMMA OldestOfWears ==
  ASSUME NEW S \in SUBSET Wear, IsFiniteSet(S), S # {}
  PROVE  Oldest(S) \in S /\ \A v \in S \ {Oldest(S)} : Newer(v, Oldest(S))
<1> DEFINE n == Cardinality(S)
           rank(p) == Cardinality({v \in S : Newer(v, p)})
<1>1. /\ n \in Nat
      /\ \A p \in S : rank(p) \in 0..(n - 1)
      /\ \A p, q \in S : Newer(p, q) => rank(p) < rank(q)
      /\ \A k \in 1..n : \E p \in S : rank(p) = k - 1
  BY WearRanks
<1> HIDE DEF rank
<1>2. n \in 1..n
  BY <1>1, FS_EmptySet
<1>3. PICK w \in S : rank(w) = n - 1
  BY <1>1, <1>2
<1>4. ASSUME NEW v \in S \ {w}
      PROVE  Newer(v, w)
  <2>1. ~(rank(w) < rank(v))
    BY <1>1, <1>3
  <2> QED  BY <1>1, <2>1, WearsAreOrdered
<1> QED  BY <1>3, <1>4 DEF Oldest

\* A list that ends with its cursor has it for its oldest.
LEMMA CursorIsOldest ==
  ASSUME NEW rows \in SUBSET Wear, NEW next \in Wear, EndsWith(rows, next)
  PROVE  Oldest(rows) = next
<1>1. next \in rows /\ \A v \in rows \ {next} : Newer(v, next)
  BY WearsAreOrdered DEF EndsWith
<1>2. \A w \in rows : (\A v \in rows \ {w} : Newer(v, w)) => w = next
  BY <1>1, WearsAreOrdered
<1> QED  BY <1>1, <1>2 DEF Oldest

\* A page: wears older than the cursor, ending with the next cursor, none left
\* out but the older ones.
LEMMA PageFacts ==
  ASSUME NEW all \in SUBSET Wear, IsFiniteSet(all), NEW from \in Wear \cup {NoWear}
  PROVE  /\ PageAfter(all, from) \in Pages
         /\ PageAfter(all, from).rows \subseteq all
         /\ EndsWith(PageAfter(all, from).rows, PageAfter(all, from).next)
         /\ from # NoWear => \A w \in PageAfter(all, from).rows : Newer(from, w)
         /\ \A base : Whole(all, PageAfter(all, from).rows, PageAfter(all, from).next, from, base)
<1> DEFINE rest == IF from = NoWear THEN all ELSE {w \in all : Newer(from, w)}
           rank(p) == Cardinality({v \in rest : Newer(v, p)})
           rows == {w \in rest : rank(w) < PageSize}
           next == IF rows = rest THEN NoWear ELSE Oldest(rows)
<1>0. PageAfter(all, from) = [rows |-> rows, next |-> next]
  BY DEF PageAfter
<1>1. /\ rest \subseteq all /\ (from # NoWear => \A w \in rest : Newer(from, w))
      /\ \A w \in all : from = NoWear \/ Newer(from, w) => w \in rest
  OBVIOUS
<1>2. IsFiniteSet(rest) /\ rest \subseteq Wear
  BY <1>1, FS_Subset
<1>3. /\ Cardinality(rest) \in Nat
      /\ \A p \in rest : rank(p) \in 0..(Cardinality(rest) - 1)
      /\ \A p, q \in rest : Newer(p, q) => rank(p) < rank(q)
      /\ \A k \in 1..Cardinality(rest) : \E p \in rest : rank(p) = k - 1
  <2> HIDE DEF rest
  <2> QED  BY <1>2, WearRanks
<1>4. rows \subseteq rest /\ \A w \in rest : w \in rows <=> rank(w) < PageSize
  OBVIOUS
<1> HIDE DEF rest, rank, rows
<1>5. ASSUME rows # rest
      PROVE  next \in rows /\ \A v \in rows \ {next} : Newer(v, next)
  <2>1. rest # {}
    BY <1>4, <1>5
  <2>2. Cardinality(rest) # 0
    BY <1>2, <2>1, FS_EmptySet
  <2>3. 1 \in 1..Cardinality(rest)
    BY <1>3, <2>2
  <2>4. PICK p \in rest : rank(p) = 0
    <3>1. \E p \in rest : rank(p) = 1 - 1
      BY <1>3, <2>3
    <3> QED  BY <3>1
  <2>5. rows # {}
    BY <2>4, <1>4, CalendarBounds
  <2>6. rows \in SUBSET Wear /\ IsFiniteSet(rows)
    BY <1>2, <1>4, FS_Subset
  <2> QED  BY <1>5, <2>5, <2>6, OldestOfWears
<1>6. next \in Wear \cup {NoWear}
  BY <1>2, <1>4, <1>5
<1>7. EndsWith(rows, next)
  BY <1>5 DEF EndsWith
<1>8. ASSUME NEW w \in all \ rows, from = NoWear \/ Newer(from, w)
      PROVE  next # NoWear /\ Newer(next, w)
  <2>1. w \in rest /\ rows # rest
    BY <1>1, <1>8
  <2>2. next \in rows /\ next \in rest
    BY <1>4, <1>5, <2>1
  <2>3. rank(next) < PageSize /\ ~(rank(w) < PageSize) /\ rank(next) \in Int /\ rank(w) \in Int
    <3>1. rank(next) < PageSize /\ ~(rank(w) < PageSize)
      BY <1>4, <1>8, <2>1, <2>2
    <3>2. rank(next) \in Int /\ rank(w) \in Int
      BY <1>3, <2>1, <2>2
    <3> QED  BY <3>1, <3>2
  <2>4. next # w /\ ~(rank(w) < rank(next))
    BY <2>3, CalendarBounds
  <2>5. ~Newer(w, next)
    BY <1>3, <2>1, <2>2, <2>4
  <2> QED  BY <1>2, <2>1, <2>2, <2>4, <2>5, WearsAreOrdered
<1>9. \A base : Whole(all, rows, next, from, base)
  BY <1>8 DEF Whole
<1> HIDE DEF next
<1>10. [rows |-> rows, next |-> next] \in Pages
  BY <1>2, <1>4, <1>6 DEF Pages
<1> QED  BY <1>0, <1>1, <1>4, <1>7, <1>9, <1>10

----------------------------------------------------------------------------
(***************************************************************************)
(* The hook of the history.                                                *)
(***************************************************************************)
\* monthIsCovered compares the month of the last row, which the cursor is.
LEMMA CoveredIsReached ==
  ASSUME NEW h \in Histories, EndsWith(h.rows, h.next), NEW m
  PROVE  Covered(h, m) <=> Reached(h, m)
<1>1. h.rows \in SUBSET Wear /\ h.next \in Wear \cup {NoWear}
  BY DEF Histories
<1>2. CASE h.next = NoWear
  BY <1>2 DEF Covered, Reached
<1>3. CASE h.next # NoWear
  <2>1. h.next \in h.rows /\ Oldest(h.rows) = h.next
    BY <1>1, <1>3, CursorIsOldest DEF EndsWith
  <2> QED  BY <2>1, <1>3 DEF Covered, Reached
<1> QED  BY <1>2, <1>3

\* A run of the hook leaves the rows and their cursor alone.
LEMMA BegunFacts ==
  ASSUME NEW h \in Histories, NEW d \in {"refreshing", "loadingMore"}
  PROVE  /\ Begun(h, d) \in Histories
         /\ Begun(h, d).rows = h.rows /\ Begun(h, d).next = h.next /\ Begun(h, d).base = h.base
         /\ Begun(h, d).doing = d /\ Begun(h, d).id = h.id + 1
<1>1. Begun(h, d) \in Histories
  <2> DEFINE f == [h EXCEPT !.doing = d]
             g == [f EXCEPT !.id = f.id + 1]
  <2>1. f \in Histories /\ f.id = h.id
    BY DEF Histories
  <2> HIDE DEF f
  <2>2. f.id + 1 \in Nat
    BY <2>1 DEF Histories
  <2>3. g \in Histories
    BY <2>1, <2>2 DEF Histories
  <2> HIDE DEF g
  <2>4. [g EXCEPT !.failed = FALSE] \in Histories
    BY <2>3 DEF Histories
  <2> QED  BY <2>1, <2>4, Zenon DEF Begun, f, g
<1>2. /\ Begun(h, d).rows = h.rows /\ Begun(h, d).next = h.next /\ Begun(h, d).base = h.base
      /\ Begun(h, d).doing = d /\ Begun(h, d).id = h.id + 1
  BY DEF Begun, Histories
<1> QED  BY <1>1, <1>2

\* The request of a run.
LEMMA AskFacts ==
  ASSUME NEW h \in Histories
  PROVE  /\ HistoryAsk(h) \in Asks
         /\ HistoryAsk(h).id = h.id /\ (HistoryAsk(h).append <=> h.doing = "loadingMore")
         /\ HistoryAsk(h).cursor = (IF h.doing = "loadingMore" THEN h.next ELSE NoWear)
         /\ HistoryAsk(h).at = "sent" /\ HistoryAsk(h).base = h.base
<1>1. h.next \in Wear \cup {NoWear} /\ h.id \in Nat /\ h.base \in Nat
  BY DEF Histories
<1>2. [rows |-> {}, next |-> NoWear] \in Pages
  BY DEF Pages
<1>3. (h.doing = "loadingMore") \in BOOLEAN /\ "sent" \in Stages
  BY DEF Stages
<1>4. (IF h.doing = "loadingMore" THEN h.next ELSE NoWear) \in Wear \cup {NoWear}
  BY <1>1
<1>5. HistoryAsk(h) \in Asks
  BY <1>1, <1>2, <1>3, <1>4 DEF HistoryAsk, Asks
<1> QED  BY <1>5 DEF HistoryAsk

\* What a history may become without an answer: what it was, or what a run of
\* it, or two of them, make of it.
Rerun(h, g) ==
  \/ g = h
  \/ /\ g \in Histories /\ g.id > h.id
     /\ g.rows = h.rows /\ g.next = h.next /\ g.base = h.base
     /\ \/ g.doing = "refreshing"
        \/ g.doing = "loadingMore" /\ g.next # NoWear

\* A run has a new id and a request of its own; what was shown stays.
LEMMA HistoryStep ==
  ASSUME CalendarTypes, AsksInv, AskedInv, HistInv,
         NEW h, Rerun(hist, h), History(h), UNCHANGED wears, runs'["logs"] = runs["logs"]
  PROVE  /\ hist' \in Histories /\ asks' \in SUBSET Asks
         /\ hist'.rows = hist.rows /\ hist'.next = hist.next
         /\ AsksInv' /\ AskedInv' /\ HistInv'
<1>1. hist \in Histories /\ asks \in SUBSET Asks /\ hist.id \in Nat
  BY DEF CalendarTypes, Histories
<1>2. CASE h = hist
  <2>1. hist' = hist /\ asks' = asks
    BY <1>2 DEF History
  <2> QED  BY <2>1, <1>1 DEF AsksInv, AskedInv, HistInv
<1>3. ASSUME h \in Histories, h.id > hist.id,
             h.rows = hist.rows, h.next = hist.next, h.base = hist.base,
             h.doing # "idle", h.doing = "loadingMore" => h.next # NoWear
      PROVE  /\ hist' \in Histories /\ asks' \in SUBSET Asks
             /\ hist'.rows = hist.rows /\ hist'.next = hist.next
             /\ AsksInv' /\ AskedInv' /\ HistInv'
  <2> DEFINE r == HistoryAsk(h)
  <2>1. h.id \in Nat
    BY <1>3 DEF Histories
  <2>2. hist' = h /\ asks' = asks \cup {r}
    BY <1>1, <1>3, <2>1 DEF History
  <2>3. /\ r \in Asks /\ r.id = h.id /\ (r.append <=> h.doing = "loadingMore")
        /\ r.cursor = (IF h.doing = "loadingMore" THEN h.next ELSE NoWear)
        /\ r.at = "sent" /\ r.base = h.base
    BY <1>3, AskFacts
  <2> HIDE DEF r
  <2>4. \A q \in asks : q.id \in Nat /\ q.id < h.id
    BY <1>1, <1>3, <2>1 DEF AsksInv, Asks
  <2>5. AsksInv'
    <3>1. \A q \in asks' : q.id <= hist'.id
      BY <1>1, <1>3, <2>1, <2>2, <2>3, <2>4
    <3>2. \A p, q \in asks' : p.id = q.id => p = q
      BY <1>1, <1>3, <2>1, <2>2, <2>3, <2>4 DEF AsksInv
    <3>3. \A q \in asks' : q.id = hist'.id => q = r
      BY <1>1, <1>3, <2>1, <2>2, <2>3, <2>4
    <3> QED  BY <1>3, <2>1, <2>2, <2>3, <3>1, <3>2, <3>3 DEF AsksInv
  <2>6. AskedInv'
    <3>1. r.append <=> r.cursor # NoWear
      BY <1>3, <2>3
    <3>2. r.base <= runs["logs"]
      BY <1>3, <2>3 DEF HistInv
    <3> QED  BY <2>2, <2>3, <3>1, <3>2 DEF AskedInv
  <2>7. HistInv'
    BY <1>3, <2>2 DEF HistInv
  <2> QED  BY <1>1, <1>3, <2>2, <2>3, <2>5, <2>6, <2>7
<1> QED  BY <1>2, <1>3 DEF Rerun

\* What the hook's callbacks make of a history.
LEMMA Reruns ==
  ASSUME NEW h \in Histories, NEW m
  PROVE  /\ Rerun(h, Refreshed(h)) /\ Rerun(h, Reload(h)) /\ Rerun(h, Paged(h, m))
         /\ Rerun(h, Reload(Paged(h, m)))
<1>1. ASSUME NEW g \in Histories
      PROVE  Rerun(g, Refreshed(g)) /\ Rerun(g, More(g))
  <2>1. g.id \in Nat /\ g.id + 1 > g.id
    BY DEF Histories
  <2>2. ASSUME NEW d \in {"refreshing", "loadingMore"}
        PROVE  /\ Begun(g, d) \in Histories /\ Begun(g, d).id > g.id /\ Begun(g, d).doing = d
               /\ Begun(g, d).rows = g.rows /\ Begun(g, d).next = g.next /\ Begun(g, d).base = g.base
    BY <2>1, BegunFacts
  <2>3. Rerun(g, Begun(g, "refreshing"))
    BY <2>2 DEF Rerun
  <2>4. g.next # NoWear => Rerun(g, Begun(g, "loadingMore"))
    BY <2>2 DEF Rerun
  <2>5. Rerun(g, g)
    BY DEF Rerun
  <2> QED  BY <2>3, <2>4, <2>5 DEF Refreshed, More
<1>2. \A g \in Histories : Rerun(g, Reload(g)) /\ Rerun(g, Paged(g, m))
  BY <1>1 DEF Reload, Paged, Rerun
<1>3. Paged(h, m) \in Histories
  BY <1>2 DEF Rerun
<1>4. \A g \in Histories : Rerun(h, g) /\ Rerun(g, Reload(g)) => Rerun(h, Reload(g))
  <2> TAKE g \in Histories
  <2> HAVE Rerun(h, g) /\ Rerun(g, Reload(g))
  <2>1. CASE Reload(g) = g
    BY <2>1
  <2>2. CASE Reload(g) # g
    <3>1. Reload(g) \in Histories /\ g.id \in Int /\ h.id \in Int /\ Reload(g).id \in Int
      BY <2>2 DEF Rerun, Histories
    <3>2. Reload(g).id > g.id /\ g.id >= h.id
      BY <2>2, <3>1 DEF Rerun
    <3>3. Reload(g).id > h.id
      BY <3>1, <3>2
    <3> QED  BY <2>2, <3>1, <3>3 DEF Rerun
  <2> QED  BY <2>1, <2>2
<1> QED  BY <1>1, <1>2, <1>3, <1>4

\* An answer leaves at the API: a page of the wears as they are.
LEMMA ServedStep ==
  ASSUME CalendarTypes, AsksInv, AskedInv, HistInv, NEW q \in asks, ServeHistory(q)
  PROVE  asks' \in SUBSET Asks /\ AsksInv' /\ AskedInv' /\ HistInv'
<1> DEFINE P == PageAfter(wears, q.cursor)
           B == IF q.append THEN q.base ELSE runs["logs"]
           a == [q EXCEPT !.at = "done", !.page = P, !.base = B]
<1>1. asks \in SUBSET Asks /\ wears \in SUBSET Wear /\ IsFiniteSet(wears) /\ runs["logs"] \in Nat
  BY DEF CalendarTypes
<1>2. /\ q = [id |-> q.id, append |-> q.append, cursor |-> q.cursor, at |-> q.at,
              page |-> q.page, base |-> q.base]
      /\ q.id \in Nat /\ q.append \in BOOLEAN /\ q.cursor \in Wear \cup {NoWear} /\ q.base \in Nat
  BY <1>1 DEF Asks
<1>4. asks' = (asks \ {q}) \cup {a} /\ UNCHANGED <<hist, wears, runs>>
  BY Zenon DEF ServeHistory
<1>5. /\ P \in Pages /\ P.rows \subseteq wears /\ EndsWith(P.rows, P.next)
      /\ q.cursor # NoWear => \A w \in P.rows : Newer(q.cursor, w)
      /\ \A base : Whole(wears, P.rows, P.next, q.cursor, base)
  BY <1>1, <1>2, PageFacts
<1> HIDE DEF P
<1>6. B \in Nat /\ B <= runs["logs"] /\ (q.append => B = q.base)
  BY <1>1, <1>2 DEF AskedInv
<1> HIDE DEF B
<1>7. a \in Asks
  <2> DEFINE f == [q EXCEPT !.at = "done"]
             g == [f EXCEPT !.page = P]
  <2>1. f \in Asks
    BY <1>1 DEF Asks, Stages
  <2> HIDE DEF f
  <2>2. g \in Asks
    BY <1>5, <2>1 DEF Asks
  <2> HIDE DEF g
  <2>3. [g EXCEPT !.base = B] \in Asks
    BY <1>6, <2>2 DEF Asks
  <2> QED  BY <2>3, Zenon DEF f, g
<1>8. /\ a.id = q.id /\ a.append = q.append /\ a.cursor = q.cursor /\ a.at = "done"
      /\ a.page = P /\ a.base = B
  BY <1>1 DEF Asks
<1> HIDE DEF a
<1>9. AsksInv'
  <2>1. \A p \in asks' : p \in asks \ {q} \/ p = a
    BY <1>4
  <2>2. \A p \in asks' : p.id <= hist'.id
    BY <1>4, <1>8 DEF AsksInv
  <2>3. \A p, r \in asks' : p.id = r.id => p = r
    BY <1>4, <1>8 DEF AsksInv
  <2>4. hist'.doing # "idle" => \E p \in asks' : p.id = hist'.id
    BY <1>4, <1>8 DEF AsksInv
  <2>5. \A p \in asks' : p.id = hist'.id =>
          /\ hist'.doing # "idle" /\ (p.append <=> hist'.doing = "loadingMore")
          /\ p.append => p.cursor = hist'.next /\ p.base = hist'.base /\ hist'.next # NoWear
    BY <1>4, <1>6, <1>8, <2>1 DEF AsksInv
  <2> QED  BY <2>2, <2>3, <2>4, <2>5 DEF AsksInv
<1>10. AskedInv'
  <2>1. \A p \in asks' : p \in asks \/ p = a
    BY <1>4
  <2>2. a.append <=> a.cursor # NoWear
    BY <1>8 DEF AskedInv
  <2>3. a.base <= runs["logs"]
    BY <1>6, <1>8
  <2>4. /\ a.page.rows \subseteq wears /\ EndsWith(a.page.rows, a.page.next)
        /\ a.append => \A w \in a.page.rows : Newer(a.cursor, w)
        /\ Whole(wears, a.page.rows, a.page.next, a.cursor, a.base)
    BY <1>5, <1>8, <2>2
  <2>5. ASSUME NEW p \in asks'
        PROVE  /\ p.append <=> p.cursor # NoWear
               /\ p.base <= runs'["logs"]
               /\ p.at = "done" =>
                    /\ p.page.rows \subseteq wears' /\ EndsWith(p.page.rows, p.page.next)
                    /\ p.append => \A w \in p.page.rows : Newer(p.cursor, w)
                    /\ Whole(wears', p.page.rows, p.page.next, p.cursor, p.base)
    <3>1. wears' = wears /\ runs' = runs
      BY <1>4
    <3>2. CASE p \in asks
      BY <3>1, <3>2 DEF AskedInv
    <3>3. CASE p = a
      BY <3>1, <3>3, <2>2, <2>3, <2>4
    <3> QED  BY <3>2, <3>3, <2>1
  <2> QED  BY <2>5 DEF AskedInv
<1>11. HistInv'
  BY <1>4 DEF HistInv
<1> QED  BY <1>1, <1>4, <1>7, <1>9, <1>10, <1>11

\* A request, or its answer, is lost.
LEMMA LostStep ==
  ASSUME CalendarTypes, AsksInv, AskedInv, HistInv, NEW q \in asks, LoseHistory(q)
  PROVE  asks' \in SUBSET Asks /\ AsksInv' /\ AskedInv' /\ HistInv'
<1> DEFINE a == [q EXCEPT !.at = "failed"]
<1>1. asks \in SUBSET Asks /\ runs \in [{"logs", "turns", "loads", "slips"} -> Nat]
  BY DEF CalendarTypes
<1>2. /\ asks' = (asks \ {q}) \cup {a} /\ UNCHANGED <<hist, wears>> /\ runs'["logs"] = runs["logs"]
  BY <1>1 DEF LoseHistory, Run
<1>3. a \in Asks
  BY <1>1 DEF Asks, Stages
<1>4. /\ a.id = q.id /\ a.append = q.append /\ a.cursor = q.cursor /\ a.at = "failed"
      /\ a.base = q.base
  BY <1>1 DEF Asks
<1> HIDE DEF a
<1>5. AsksInv'
  <2>1. \A p \in asks' : p \in asks \ {q} \/ p = a
    BY <1>2
  <2>2. \A p \in asks' : p.id <= hist'.id
    BY <1>2, <1>4 DEF AsksInv
  <2>3. \A p, r \in asks' : p.id = r.id => p = r
    BY <1>2, <1>4 DEF AsksInv
  <2>4. hist'.doing # "idle" => \E p \in asks' : p.id = hist'.id
    BY <1>2, <1>4 DEF AsksInv
  <2>5. \A p \in asks' : p.id = hist'.id =>
          /\ hist'.doing # "idle" /\ (p.append <=> hist'.doing = "loadingMore")
          /\ p.append => p.cursor = hist'.next /\ p.base = hist'.base /\ hist'.next # NoWear
    BY <1>2, <1>4, <2>1 DEF AsksInv
  <2> QED  BY <2>2, <2>3, <2>4, <2>5 DEF AsksInv
<1>6. AskedInv'
  BY <1>2, <1>4 DEF AskedInv
<1>7. HistInv'
  BY <1>2 DEF HistInv
<1> QED  BY <1>1, <1>2, <1>3, <1>5, <1>6, <1>7

\* The newest answer: the rows it is added to, or that it replaces, stay whole.
LEMMA AppliedFacts ==
  ASSUME CalendarTypes, AsksInv, AskedInv, HistInv, NEW q \in asks, q.id = hist.id, q.at # "sent"
  PROVE  /\ Applied(q) \in Histories
         /\ Applied(q).doing = "idle" /\ Applied(q).id = hist.id
         /\ Applied(q).base <= runs["logs"] /\ Applied(q).rows \subseteq wears
         /\ EndsWith(Applied(q).rows, Applied(q).next)
         /\ Applied(q).rows # {} =>
              Whole(wears, Applied(q).rows, Applied(q).next, NoWear, Applied(q).base)
         /\ q.at = "failed" => Applied(q).rows = hist.rows /\ Applied(q).next = hist.next
         /\ q.at = "done" /\ Applied(q).next # NoWear => Applied(q).next # hist.next \/ ~q.append
<1>1. /\ hist \in Histories /\ wears \in SUBSET Wear
      /\ q.id \in Nat /\ q.append \in BOOLEAN /\ q.cursor \in Wear \cup {NoWear} /\ q.base \in Nat
      /\ q.page.rows \in SUBSET Wear /\ q.page.next \in Wear \cup {NoWear} /\ q.at \in Stages
  BY DEF CalendarTypes, Asks, Pages
<1>2. CASE q.at = "failed"
  <2>1. Applied(q) = [hist EXCEPT !.doing = "idle", !.failed = TRUE]
    BY <1>2 DEF Applied
  <2> DEFINE f == [hist EXCEPT !.doing = "idle"]
  <2>2. f \in Histories
    BY <1>1 DEF Histories
  <2>3. [f EXCEPT !.failed = TRUE] \in Histories
    BY <2>2 DEF Histories
  <2>4. Applied(q) \in Histories
    BY <2>1, <2>3, Zenon
  <2>5. /\ Applied(q).doing = "idle" /\ Applied(q).id = hist.id /\ Applied(q).base = hist.base
        /\ Applied(q).rows = hist.rows /\ Applied(q).next = hist.next
    BY <1>1, <2>1 DEF Histories
  <2> QED  BY <1>2, <2>4, <2>5 DEF HistInv
<1>3. CASE q.at = "done"
  <2> DEFINE R == IF q.append THEN hist.rows \cup q.page.rows ELSE q.page.rows
             f == [hist EXCEPT !.doing = "idle"]
             g == [f EXCEPT !.base = q.base]
             h == [g EXCEPT !.next = q.page.next]
             i == [h EXCEPT !.rows = R]
  <2>1. Applied(q) = [hist EXCEPT !.doing = "idle", !.base = q.base, !.next = q.page.next, !.rows = R]
    BY <1>3 DEF Applied
  <2>2. hist.rows \in SUBSET Wear /\ hist.next \in Wear \cup {NoWear} /\ hist.id \in Nat
    BY <1>1 DEF Histories
  <2>3. R \in SUBSET Wear
    BY <1>1, <2>2
  <2> HIDE DEF R
  <2>4. Applied(q) \in Histories
    <3>1. f \in Histories
      BY <1>1 DEF Histories
    <3> HIDE DEF f
    <3>2. g \in Histories
      BY <1>1, <3>1 DEF Histories
    <3> HIDE DEF g
    <3>3. h \in Histories
      BY <1>1, <3>2 DEF Histories
    <3> HIDE DEF h
    <3>4. i \in Histories
      BY <2>3, <3>3 DEF Histories
    <3> QED  BY <2>1, <3>4, Zenon DEF f, g, h, i
  <2>5. /\ Applied(q).doing = "idle" /\ Applied(q).id = hist.id /\ Applied(q).base = q.base
        /\ Applied(q).rows = R /\ Applied(q).next = q.page.next
    BY <1>1, <2>1 DEF Histories
  <2>6. /\ q.page.rows \subseteq wears /\ EndsWith(q.page.rows, q.page.next)
        /\ q.append => \A w \in q.page.rows : Newer(q.cursor, w)
        /\ Whole(wears, q.page.rows, q.page.next, q.cursor, q.base)
        /\ (q.append <=> q.cursor # NoWear) /\ q.base <= runs["logs"]
    BY <1>3 DEF AskedInv
  <2>7. q.append => q.cursor = hist.next /\ q.base = hist.base /\ hist.next # NoWear
    BY DEF AsksInv
  <2>8. CASE ~q.append
    <3>1. R = q.page.rows /\ q.cursor = NoWear
      BY <2>6, <2>8 DEF R
    <3>2. Whole(wears, R, q.page.next, NoWear, q.base) /\ EndsWith(R, q.page.next) /\ R \subseteq wears
      BY <2>6, <3>1
    <3> QED  BY <1>3, <2>4, <2>5, <2>6, <2>8, <3>2
  <2>9. CASE q.append
    <3>1. /\ R = hist.rows \cup q.page.rows /\ hist.rows \subseteq wears
          /\ hist.next \in hist.rows /\ \A v \in hist.rows \ {hist.next} : Newer(v, hist.next)
          /\ Whole(wears, hist.rows, hist.next, NoWear, hist.base)
          /\ hist.next \in Wear
      BY <2>2, <2>7, <2>9 DEF R, HistInv, EndsWith
    <3>2. \A w \in q.page.rows : Newer(hist.next, w)
      BY <2>6, <2>7, <2>9
    <3>3. EndsWith(R, q.page.next)
      <4> SUFFICES ASSUME q.page.next # NoWear
                   PROVE  q.page.next \in R /\ \A v \in R \ {q.page.next} : Newer(v, q.page.next)
        BY DEF EndsWith
      <4>1. q.page.next \in q.page.rows /\ \A v \in q.page.rows \ {q.page.next} : Newer(v, q.page.next)
        BY <2>6 DEF EndsWith
      <4>2. Newer(hist.next, q.page.next)
        BY <3>2, <4>1
      <4>3. \A v \in hist.rows : Newer(v, q.page.next)
        BY <1>1, <2>2, <3>1, <4>1, <4>2, WearsAreOrdered
      <4> QED  BY <3>1, <4>1, <4>3
    <3>4. ASSUME NEW w \in wears \ R
          PROVE  w.n > q.base \/ (q.page.next # NoWear /\ Newer(q.page.next, w))
      <4>1. w.n > hist.base \/ Newer(hist.next, w)
        BY <3>1, <3>4 DEF Whole
      <4>2. CASE Newer(hist.next, w)
        BY <2>6, <2>7, <2>9, <3>1, <3>4, <4>2 DEF Whole
      <4> QED  BY <2>7, <2>9, <4>1, <4>2
    <3>5. Whole(wears, R, q.page.next, NoWear, q.base)
      BY <3>4 DEF Whole
    <3>6. q.page.next # NoWear => q.page.next # hist.next
      BY <2>6, <3>1, <3>2, WearsAreOrdered DEF EndsWith
    <3>7. R \subseteq wears
      BY <2>6, <3>1
    <3> QED  BY <1>3, <2>4, <2>5, <2>6, <3>3, <3>5, <3>6, <3>7
  <2> QED  BY <2>8, <2>9
<1> QED  BY <1>1, <1>2, <1>3 DEF Stages

\* An answer is taken, or dropped because it is not the newest; the paging effect
\* may begin the next run at once.
LEMMA DeliveredStep ==
  ASSUME CalendarTypes, AsksInv, AskedInv, HistInv, NEW q \in asks, DeliverHistory(q)
  PROVE  /\ hist' \in Histories /\ asks' \in SUBSET Asks
         /\ AsksInv' /\ AskedInv' /\ HistInv'
<1>1. hist \in Histories /\ asks \in SUBSET Asks /\ hist.id \in Nat
  BY DEF CalendarTypes, Histories
<1>2. UNCHANGED <<wears, runs>> /\ q.at # "sent"
  BY DEF DeliverHistory
<1>3. CASE q.id # hist.id
  <2>1. asks' = asks \ {q} /\ hist' = hist
    BY <1>3 DEF DeliverHistory
  <2>2. AsksInv'
    BY <1>3, <2>1 DEF AsksInv
  <2> QED  BY <1>1, <1>2, <2>1, <2>2 DEF AskedInv, HistInv
<1>4. CASE q.id = hist.id
  <2> DEFINE a == Applied(q)
             h == Paged(a, month)
             r == HistoryAsk(h)
  <2>1. hist' = h /\ asks' = (asks \ {q}) \cup (IF h.id # hist.id THEN {r} ELSE {})
    BY <1>4 DEF DeliverHistory
  <2>2. /\ a \in Histories /\ a.doing = "idle" /\ a.id = hist.id
        /\ a.base <= runs["logs"] /\ a.rows \subseteq wears /\ EndsWith(a.rows, a.next)
        /\ a.rows # {} => Whole(wears, a.rows, a.next, NoWear, a.base)
    BY <1>2, <1>4, AppliedFacts
  <2>3. Rerun(a, h)
    BY <2>2, Reruns
  <2> HIDE DEF a, h
  <2>4. h \in Histories /\ h.rows = a.rows /\ h.next = a.next /\ h.base = a.base
    BY <2>2, <2>3 DEF Rerun
  <2>5. HistInv'
    BY <1>2, <2>1, <2>2, <2>4 DEF HistInv
  <2>6. \A p \in asks \ {q} : p.id \in Nat /\ p.id < hist.id
    <3>1. \A p \in asks : p.id \in Nat
      BY <1>1 DEF Asks
    <3>2. \A p \in asks \ {q} : p.id <= hist.id /\ p.id # hist.id
      BY <1>4 DEF AsksInv
    <3> QED  BY <1>1, <3>1, <3>2
  <2>7. CASE h.id = hist.id
    <3>1. h = a
      BY <2>2, <2>3, <2>7, <1>1 DEF Rerun
    <3>2. asks' = asks \ {q}
      BY <2>1, <2>7
    <3>3. AsksInv'
      <4>1. \A p \in asks' : p.id # hist'.id /\ p.id <= hist'.id
        BY <1>1, <2>1, <2>6, <2>7, <3>2
      <4> QED  BY <2>1, <2>2, <3>1, <3>2, <4>1 DEF AsksInv
    <3> QED  BY <1>1, <1>2, <2>1, <2>4, <2>5, <3>2, <3>3 DEF AskedInv
  <2>8. CASE h.id # hist.id
    <3>1. h.id > hist.id /\ h.id \in Nat /\ h.doing # "idle" /\ (h.doing = "loadingMore" => h.next # NoWear)
      BY <2>2, <2>3, <2>4, <2>8 DEF Rerun, Histories
    <3>2. /\ r \in Asks /\ r.id = h.id /\ (r.append <=> h.doing = "loadingMore")
          /\ r.cursor = (IF h.doing = "loadingMore" THEN h.next ELSE NoWear)
          /\ r.at = "sent" /\ r.base = h.base
      BY <2>4, AskFacts
    <3> HIDE DEF r
    <3>3. asks' = (asks \ {q}) \cup {r}
      BY <2>1, <2>8
    <3>4. \A p \in asks' : p \in asks \ {q} \/ p = r
      BY <3>3
    <3>5. AsksInv'
      <4>1. \A p \in asks \ {q} : p.id < h.id /\ p.id # h.id
        BY <1>1, <2>6, <3>1
      <4>2. \A p \in asks' : p.id <= hist'.id
        BY <2>1, <3>1, <3>2, <3>4, <4>1, <2>6
      <4>3. \A p, s \in asks' : p.id = s.id => p = s
        BY <3>2, <3>4, <4>1 DEF AsksInv
      <4>4. \A p \in asks' : p.id = hist'.id => p = r
        BY <2>1, <3>4, <4>1
      <4> QED  BY <2>1, <3>1, <3>2, <3>3, <4>2, <4>3, <4>4 DEF AsksInv
    <3>6. AskedInv'
      <4>1. (r.append <=> r.cursor # NoWear) /\ r.base <= runs["logs"]
        BY <2>2, <2>4, <3>1, <3>2
      <4> QED  BY <1>2, <3>2, <3>4, <4>1 DEF AskedInv
    <3> QED  BY <1>1, <2>1, <2>4, <2>5, <3>2, <3>3, <3>5, <3>6
  <2> QED  BY <2>7, <2>8
<1> QED  BY <1>3, <1>4

\* A wear is logged: it is newer than whatever was begun.
LEMMA LoggedStep ==
  ASSUME CalendarTypes, AsksInv, AskedInv, HistInv, NEW m \in Months, LogWear(m)
  PROVE  /\ wears' \in SUBSET Wear /\ IsFiniteSet(wears')
         /\ AsksInv' /\ AskedInv' /\ HistInv'
<1> DEFINE w == [month |-> m, n |-> runs'["logs"]]
<1>1. /\ wears' = wears \cup {w} /\ UNCHANGED <<hist, asks>>
      /\ runs["logs"] \in Nat /\ runs'["logs"] = runs["logs"] + 1
  BY DEF LogWear, Run, CalendarTypes
<1>2. w \in Wear /\ w.n = runs["logs"] + 1
  BY <1>1 DEF Wear
<1> HIDE DEF w
<1>3. IsFiniteSet(wears') /\ wears' \in SUBSET Wear
  BY <1>1, <1>2, FS_AddElement DEF CalendarTypes
<1>4. /\ \A q \in asks : q.base \in Nat
      /\ hist.base \in Nat
  BY DEF CalendarTypes, Asks, Histories
<1>5. \A base \in Nat : base <= runs["logs"] => w.n > base /\ base <= runs'["logs"]
  BY <1>1, <1>2
<1>6. AsksInv'
  BY <1>1 DEF AsksInv
<1>7. AskedInv'
  <2>1. ASSUME NEW q \in asks
        PROVE  /\ q.base <= runs'["logs"]
               /\ q.at = "done" =>
                    /\ q.page.rows \subseteq wears'
                    /\ Whole(wears', q.page.rows, q.page.next, q.cursor, q.base)
    <3>1. w.n > q.base /\ q.base <= runs'["logs"]
      BY <1>4, <1>5 DEF AskedInv
    <3> QED  BY <1>1, <3>1 DEF AskedInv, Whole
  <2> QED  BY <1>1, <2>1 DEF AskedInv
<1>8. HistInv'
  <2>1. w.n > hist.base /\ hist.base <= runs'["logs"]
    BY <1>4, <1>5 DEF HistInv
  <2> QED  BY <1>1, <2>1 DEF HistInv, Whole
<1> QED  BY <1>3, <1>6, <1>7, <1>8

----------------------------------------------------------------------------
(***************************************************************************)
(* The invariant holds at every step of the calendar.                      *)
(***************************************************************************)

\* What is used up of the bounds.
LEMMA CalendarRuns ==
  ASSUME CalendarTypes, CalendarNext
  PROVE  /\ runs' \in [{"logs", "turns", "loads", "slips"} -> Nat]
         /\ runs'["logs"] \in Nat /\ runs["logs"] \in Nat /\ runs["logs"] <= runs'["logs"]
<1> DEFINE what == {"logs", "turns", "loads", "slips"}
<1>1. runs \in [what -> Nat]
  BY DEF CalendarTypes
<1>2. runs' = runs \/ \E w \in what : runs' = [runs EXCEPT ![w] = runs[w] + 1]
  <2>1. \A w, max : Run(w, max) => runs' = [runs EXCEPT ![w] = runs[w] + 1]
    BY DEF Run
  <2>2. CASE FocusCalendar \/ RetryHistory \/ RetryPlans \/ (\E p \in planned.rows : PressCancel(p))
    BY <2>1, <2>2 DEF FocusCalendar, RetryHistory, RetryPlans, PressCancel
  <2>3. CASE \E m \in Months : TurnMonth(m) \/ LogWear(m) \/ PlanOutfit(m)
    BY <2>1, <2>3 DEF TurnMonth, LogWear, PlanOutfit
  <2>4. CASE \E q \in asks : ServeHistory(q) \/ LoseHistory(q) \/ DeliverHistory(q)
    BY <2>1, <2>4 DEF ServeHistory, LoseHistory, DeliverHistory
  <2>5. CASE \E q \in planAsks : ServePlans(q) \/ LosePlans(q) \/ DeliverPlans(q)
    BY <2>1, <2>5 DEF ServePlans, LosePlans, DeliverPlans
  <2>6. CASE \E c \in cancels : ServeCancel(c) \/ LoseCancel(c) \/ SettleCancel(c)
    BY <2>1, <2>6 DEF ServeCancel, LoseCancel, SettleCancel
  <2>7. CASE Blur
    BY <2>7 DEF Blur
  <2> QED  BY <2>2, <2>3, <2>4, <2>5, <2>6, <2>7 DEF CalendarNext
<1> QED  BY <1>1, <1>2

\* Nothing happens to the history.
LEMMA HistoryRests ==
  ASSUME CalendarTypes, AsksInv, AskedInv, HistInv, CalendarNext, UNCHANGED <<wears, hist, asks>>
  PROVE  AsksInv' /\ AskedInv' /\ HistInv'
<1>1. runs'["logs"] \in Nat /\ runs["logs"] \in Nat /\ runs["logs"] <= runs'["logs"]
  BY CalendarRuns
<1>2. AsksInv'
  BY DEF AsksInv
<1>3. AskedInv'
  <2>1. \A q \in asks : q.base \in Nat
    BY DEF CalendarTypes, Asks
  <2>2. \A q \in asks : q.base <= runs'["logs"]
    BY <1>1, <2>1 DEF AskedInv
  <2> QED  BY <2>2 DEF AskedInv
<1>4. HistInv'
  <2>1. hist.base \in Nat
    BY DEF CalendarTypes, Histories
  <2>2. hist.base <= runs'["logs"]
    BY <1>1, <2>1 DEF HistInv
  <2> QED  BY <2>2 DEF HistInv
<1> QED  BY <1>2, <1>3, <1>4

\* The wears, the history and its requests, after a step.
HistoryIsKept ==
  /\ wears' \in SUBSET Wear /\ IsFiniteSet(wears')
  /\ hist' \in Histories /\ asks' \in SUBSET Asks
  /\ AsksInv' /\ AskedInv' /\ HistInv'

\* Every step keeps them.
LEMMA HistoryPart ==
  ASSUME CalendarInv, CalendarNext
  PROVE  HistoryIsKept
<1>1. /\ hist \in Histories /\ asks \in SUBSET Asks /\ wears \in SUBSET Wear /\ IsFiniteSet(wears)
      /\ runs \in [{"logs", "turns", "loads", "slips"} -> Nat]
  BY DEF CalendarInv, CalendarTypes
<1>2. CalendarTypes /\ AsksInv /\ AskedInv /\ HistInv
  BY DEF CalendarInv
<1>3. ASSUME NEW h, Rerun(hist, h), History(h), UNCHANGED wears,
             NEW w \in {"turns", "loads"}, NEW max, Run(w, max)
      PROVE  HistoryIsKept
  <2>1. runs'["logs"] = runs["logs"]
    BY <1>1, <1>3 DEF Run
  <2> QED  BY <1>1, <1>2, <1>3, <2>1, HistoryStep DEF HistoryIsKept
<1>4. ASSUME UNCHANGED <<wears, hist, asks>>
      PROVE  HistoryIsKept
  BY <1>1, <1>2, <1>4, HistoryRests DEF HistoryIsKept
<1>5. CASE FocusCalendar
  <2>1. /\ History(Reload(hist)) /\ UNCHANGED wears /\ Run("loads", MaxLoads)
        /\ Rerun(hist, Reload(hist))
    BY <1>1, <1>5, Reruns DEF FocusCalendar
  <2> QED  BY <1>3, <2>1
<1>6. CASE RetryHistory
  <2>1. /\ History(Refreshed(hist)) /\ UNCHANGED wears /\ Run("loads", MaxLoads)
        /\ Rerun(hist, Refreshed(hist))
    BY <1>1, <1>6, Reruns DEF RetryHistory
  <2> QED  BY <1>3, <2>1
<1>7. ASSUME NEW m \in Months, TurnMonth(m)
      PROVE  HistoryIsKept
  <2>1. /\ History(Reload(Paged(hist, m))) /\ UNCHANGED wears /\ Run("turns", MaxTurns)
        /\ Rerun(hist, Reload(Paged(hist, m)))
    BY <1>1, <1>7, Reruns DEF TurnMonth
  <2> QED  BY <1>3, <2>1
<1>8. ASSUME NEW m \in Months, LogWear(m)
      PROVE  HistoryIsKept
  <2>1. UNCHANGED <<hist, asks>>
    BY <1>8 DEF LogWear
  <2> QED  BY <1>1, <1>2, <1>8, <2>1, LoggedStep DEF HistoryIsKept
<1>9. ASSUME NEW q \in asks, ServeHistory(q)
      PROVE  HistoryIsKept
  <2>1. UNCHANGED <<hist, wears>>
    BY <1>9 DEF ServeHistory
  <2> QED  BY <1>1, <1>2, <1>9, <2>1, ServedStep DEF HistoryIsKept
<1>10. ASSUME NEW q \in asks, LoseHistory(q)
       PROVE  HistoryIsKept
  <2>1. UNCHANGED <<hist, wears>>
    BY <1>10 DEF LoseHistory
  <2> QED  BY <1>1, <1>2, <1>10, <2>1, LostStep DEF HistoryIsKept
<1>11. ASSUME NEW q \in asks, DeliverHistory(q)
       PROVE  HistoryIsKept
  <2>1. UNCHANGED wears
    BY <1>11 DEF DeliverHistory
  <2> QED  BY <1>1, <1>2, <1>11, <2>1, DeliveredStep DEF HistoryIsKept
<1>12. CASE \/ Blur \/ RetryPlans \/ \E m \in Months : PlanOutfit(m)
            \/ \E p \in planned.rows : PressCancel(p)
  <2>1. UNCHANGED <<wears, hist, asks>>
    BY <1>12 DEF Blur, RetryPlans, PlanOutfit, PressCancel
  <2> QED  BY <1>4, <2>1
<1>13. CASE \/ \E q \in planAsks : ServePlans(q) \/ LosePlans(q) \/ DeliverPlans(q)
            \/ \E c \in cancels : ServeCancel(c) \/ LoseCancel(c) \/ SettleCancel(c)
  <2>1. UNCHANGED <<wears, hist, asks>>
    BY <1>13 DEF ServePlans, LosePlans, DeliverPlans, ServeCancel, LoseCancel, SettleCancel
  <2> QED  BY <1>4, <2>1
<1> QED  BY <1>5, <1>6, <1>7, <1>8, <1>9, <1>10, <1>11, <1>12, <1>13 DEF CalendarNext

\* A load of the plans of a month.
LEMMA ReadPlansFacts ==
  ASSUME CalendarTypes, NEW range \in Months, ReadPlans(range)
  PROVE  /\ planned' \in [rows : SUBSET Wear, doing : BOOLEAN, id : Nat, failed : BOOLEAN]
         /\ planned'.id = planned.id + 1 /\ planned'.doing /\ planned'.rows = planned.rows
         /\ \E a \in [id : Nat, range : Months, at : Stages, rows : SUBSET Wear] :
              /\ a.id = planned'.id /\ a.range = range /\ a.at = "sent"
              /\ planAsks' = planAsks \cup {a}
<1> DEFINE P == [rows : SUBSET Wear, doing : BOOLEAN, id : Nat, failed : BOOLEAN]
           f == [planned EXCEPT !.doing = TRUE]
           g == [f EXCEPT !.id = f.id + 1]
           a == PlansAsk(planned'.id, range)
<1>1. planned \in P
  BY DEF CalendarTypes
<1>2. planned' = [planned EXCEPT !.doing = TRUE, !.id = planned.id + 1, !.failed = FALSE]
  BY DEF ReadPlans
<1>3. planned' \in P
  <2>1. f \in P /\ f.id = planned.id
    BY <1>1
  <2> HIDE DEF f
  <2>2. f.id + 1 \in Nat
    BY <2>1
  <2>3. g \in P
    BY <2>1, <2>2
  <2> HIDE DEF g
  <2>4. [g EXCEPT !.failed = FALSE] \in P
    BY <2>3
  <2> QED  BY <1>2, <2>1, <2>4, Zenon DEF f, g
<1>4. planned'.id = planned.id + 1 /\ planned'.rows = planned.rows
  BY <1>1, <1>2
<1>5. planned'.doing
  BY <1>1, <1>2
<1>6. planAsks' = planAsks \cup {a}
  BY DEF ReadPlans
<1>7. a \in [id : Nat, range : Months, at : Stages, rows : SUBSET Wear]
  <2>1. planned'.id \in Nat /\ "sent" \in Stages
    BY <1>3 DEF Stages
  <2> QED  BY <2>1 DEF PlansAsk
<1>8. a.id = planned'.id /\ a.range = range /\ a.at = "sent"
  BY DEF PlansAsk
<1> HIDE DEF a, P
<1> QED  BY <1>3, <1>4, <1>5, <1>6, <1>7, <1>8 DEF P

\* A new load of the month's plans, or of another's that misread remembers.
LEMMA ReadPlansStep ==
  ASSUME CalendarTypes, PlansInv, NEW range \in Months, ReadPlans(range),
         range # month' => misread'
  PROVE  PlansInv'
<1>1. planned.id \in Nat /\ planned'.id = planned.id + 1 /\ planned'.doing
  BY ReadPlansFacts DEF CalendarTypes
<1>2. PICK a : /\ a.id = planned'.id /\ a.range = range /\ a.at = "sent"
               /\ planAsks' = planAsks \cup {a}
  BY ReadPlansFacts
<1>3. \A q \in planAsks : q.id \in Nat /\ q.id < planned'.id
  BY <1>1 DEF CalendarTypes, PlansInv
<1>4. \A q \in planAsks' : q \in planAsks \/ q = a
  BY <1>2
<1>5. \A q \in planAsks' : q.id <= planned'.id
  BY <1>1, <1>2, <1>3, <1>4
<1>6. \A p, q \in planAsks' : p.id = q.id => p = q
  BY <1>1, <1>2, <1>3, <1>4 DEF PlansInv
<1>7. \A q \in planAsks' : q.id = planned'.id => q = a
  BY <1>1, <1>3, <1>4
<1>8. PlansAreTrue'
  BY <1>1 DEF PlansAreTrue
<1> QED  BY <1>1, <1>2, <1>5, <1>6, <1>7, <1>8 DEF PlansInv

\* Nothing happens to the plans, and no mark is taken back.
LEMMA PlansRest ==
  ASSUME PlansInv, UNCHANGED <<month, plans, planned, planAsks, cancels, misread>>,
         "plans" \in marked => "plans" \in marked'
  PROVE  PlansInv'
BY DEF PlansInv, PlansAreTrue

\* Something happens to them, and what is on screen is not vouched for.
LEMMA PlansAreBusy ==
  ASSUME PlansInv, UNCHANGED <<month, planned, planAsks>>, misread => misread',
         cancels' # {} \/ "plans" \in marked' \/ misread'
  PROVE  PlansInv'
BY DEF PlansInv, PlansAreTrue

\* The answers of the plans.
LEMMA PlansAnswerStep ==
  ASSUME CalendarTypes, PlansInv, NEW q \in planAsks,
         ServePlans(q) \/ LosePlans(q) \/ DeliverPlans(q)
  PROVE  /\ planned' \in [rows : SUBSET Wear, doing : BOOLEAN, id : Nat, failed : BOOLEAN]
         /\ planAsks' \in SUBSET [id : Nat, range : Months, at : Stages, rows : SUBSET Wear]
         /\ PlansInv'
<1> DEFINE P == [rows : SUBSET Wear, doing : BOOLEAN, id : Nat, failed : BOOLEAN]
           A == [id : Nat, range : Months, at : Stages, rows : SUBSET Wear]
<1>1. planned \in P /\ planAsks \in SUBSET A /\ plans \in SUBSET Wear /\ q \in A
  BY DEF CalendarTypes
<1>2. CASE ServePlans(q)
  <2> DEFINE f == [q EXCEPT !.at = "done"]
             a == [q EXCEPT !.at = "done", !.rows = Of(plans, q.range)]
  <2>1. /\ planAsks' = (planAsks \ {q}) \cup {a}
        /\ misread' = (misread /\ ~(q.id = planned.id /\ q.range = month))
        /\ UNCHANGED <<month, plans, planned, cancels, marked>>
    BY <1>2, Zenon DEF ServePlans
  <2>2. a \in A
    <3>1. f \in A
      BY <1>1 DEF Stages
    <3> HIDE DEF f
    <3>2. Of(plans, q.range) \in SUBSET Wear
      BY <1>1 DEF Of
    <3>3. [f EXCEPT !.rows = Of(plans, q.range)] \in A
      BY <3>1, <3>2
    <3> QED  BY <3>3, Zenon DEF f
  <2>3. a.id = q.id /\ a.range = q.range /\ a.at = "done" /\ a.rows = Of(plans, q.range)
    BY <1>1
  <2> HIDE DEF a, A
  <2>4. \A p \in planAsks' : p \in planAsks \ {q} \/ p = a
    BY <2>1
  <2>5. \A p \in planAsks' : p.id <= planned'.id
    BY <2>1, <2>3, <2>4 DEF PlansInv
  <2>6. \A p, s \in planAsks' : p.id = s.id => p = s
    BY <2>3, <2>4 DEF PlansInv
  <2>7. planned'.doing => \E p \in planAsks' : p.id = planned'.id
    BY <2>1, <2>3 DEF PlansInv
  <2>8. ASSUME NEW p \in planAsks', p.id = planned'.id
        PROVE  /\ planned'.doing
               /\ p.range # month' \/ p.at = "failed" => misread'
               /\ p.at = "done" /\ cancels' = {} /\ "plans" \notin marked' /\ ~misread' =>
                    p.rows = Of(plans', month')
    <3>1. CASE p = a
      BY <2>1, <2>3, <2>8, <3>1 DEF PlansInv
    <3>2. CASE p \in planAsks \ {q}
      <4>1. q.id # planned.id
        BY <2>1, <2>8, <3>2 DEF PlansInv
      <4> QED  BY <2>1, <2>8, <3>2, <4>1 DEF PlansInv
    <3> QED  BY <2>4, <3>1, <3>2
  <2>9. PlansAreTrue'
    BY <2>1 DEF PlansInv, PlansAreTrue
  <2>10. PlansInv'
    BY <2>5, <2>6, <2>7, <2>8, <2>9 DEF PlansInv
  <2> QED  BY <1>1, <2>1, <2>2, <2>10 DEF A
<1>3. CASE LosePlans(q)
  <2> DEFINE a == [q EXCEPT !.at = "failed"]
  <2>1. /\ planAsks' = (planAsks \ {q}) \cup {a}
        /\ misread' = (misread \/ q.id = planned.id)
        /\ UNCHANGED <<month, plans, planned, cancels, marked>>
    BY <1>3, Zenon DEF LosePlans
  <2>2. a \in A
    BY <1>1 DEF Stages
  <2>3. a.id = q.id /\ a.range = q.range /\ a.at = "failed"
    BY <1>1
  <2> HIDE DEF a, A
  <2>4. \A p \in planAsks' : p \in planAsks \ {q} \/ p = a
    BY <2>1
  <2>5. \A p \in planAsks' : p.id <= planned'.id
    BY <2>1, <2>3, <2>4 DEF PlansInv
  <2>6. \A p, s \in planAsks' : p.id = s.id => p = s
    BY <2>3, <2>4 DEF PlansInv
  <2>7. planned'.doing => \E p \in planAsks' : p.id = planned'.id
    BY <2>1, <2>3 DEF PlansInv
  <2>8. ASSUME NEW p \in planAsks', p.id = planned'.id
        PROVE  /\ planned'.doing
               /\ p.range # month' \/ p.at = "failed" => misread'
               /\ p.at = "done" /\ cancels' = {} /\ "plans" \notin marked' /\ ~misread' =>
                    p.rows = Of(plans', month')
    <3>1. CASE p = a
      BY <2>1, <2>3, <2>8, <3>1 DEF PlansInv
    <3>2. CASE p \in planAsks \ {q}
      BY <2>1, <2>8, <3>2 DEF PlansInv
    <3> QED  BY <2>4, <3>1, <3>2
  <2>9. PlansAreTrue'
    BY <2>1 DEF PlansInv, PlansAreTrue
  <2>10. PlansInv'
    BY <2>5, <2>6, <2>7, <2>8, <2>9 DEF PlansInv
  <2> QED  BY <1>1, <2>1, <2>2, <2>10 DEF A
<1>4. CASE DeliverPlans(q)
  <2>1. planAsks' = planAsks \ {q} /\ UNCHANGED <<month, plans, cancels, marked, misread>> /\ q.at # "sent"
    BY <1>4 DEF DeliverPlans
  <2>2. CASE q.id # planned.id
    <3>1. planned' = planned
      BY <1>4, <2>2 DEF DeliverPlans
    <3>2. PlansInv'
      BY <2>1, <2>2, <3>1 DEF PlansInv, PlansAreTrue
    <3> QED  BY <1>1, <2>1, <3>1, <3>2
  <2>3. CASE q.id = planned.id
    <3>1. \A p \in planAsks' : p.id <= planned.id /\ p.id # planned.id
      BY <2>1, <2>3 DEF PlansInv
    <3>2. CASE q.at = "done"
      <4> DEFINE f == [planned EXCEPT !.doing = FALSE]
      <4>1. planned' = [planned EXCEPT !.doing = FALSE, !.rows = q.rows]
        BY <1>4, <2>3, <3>2 DEF DeliverPlans
      <4>2. planned' \in P
        <5>1. f \in P
          BY <1>1
        <5> HIDE DEF f
        <5>2. [f EXCEPT !.rows = q.rows] \in P
          BY <1>1, <5>1
        <5> QED  BY <4>1, <5>2, Zenon DEF f
      <4>3. planned'.id = planned.id /\ planned'.rows = q.rows
        BY <1>1, <4>1
      <4>4. ~planned'.doing
        BY <1>1, <4>1
      <4>5. PlansAreTrue'
        BY <2>1, <2>3, <3>2, <4>3 DEF PlansInv, PlansAreTrue
      <4>6. PlansInv'
        BY <2>1, <3>1, <4>3, <4>4, <4>5 DEF PlansInv
      <4> QED  BY <1>1, <2>1, <4>2, <4>6
    <3>3. CASE q.at = "failed"
      <4> DEFINE f == [planned EXCEPT !.doing = FALSE]
      <4>1. planned' = [planned EXCEPT !.doing = FALSE, !.failed = TRUE]
        BY <1>4, <2>3, <3>3 DEF DeliverPlans
      <4>2. planned' \in P
        <5>1. f \in P
          BY <1>1
        <5> HIDE DEF f
        <5>2. [f EXCEPT !.failed = TRUE] \in P
          BY <1>1, <5>1
        <5> QED  BY <4>1, <5>2, Zenon DEF f
      <4>3. planned'.id = planned.id
        BY <1>1, <4>1
      <4>4. ~planned'.doing
        BY <1>1, <4>1
      <4>5. misread'
        BY <2>1, <2>3, <3>3 DEF PlansInv
      <4>6. PlansInv'
        BY <2>1, <3>1, <4>3, <4>4, <4>5 DEF PlansInv, PlansAreTrue
      <4> QED  BY <1>1, <2>1, <4>2, <4>6
    <3> QED  BY <1>1, <2>1, <3>2, <3>3 DEF Stages
  <2> QED  BY <2>2, <2>3
<1> QED  BY <1>2, <1>3, <1>4

\* The month, the marks, the plans and their requests, after a step.
PlansAreKept ==
  /\ month' \in Months /\ marked' \subseteq {"tracking", "plans"} /\ plans' \in SUBSET Wear
  /\ planned' \in [rows : SUBSET Wear, doing : BOOLEAN, id : Nat, failed : BOOLEAN]
  /\ planAsks' \in SUBSET [id : Nat, range : Months, at : Stages, rows : SUBSET Wear]
  /\ cancels' \in SUBSET [plan : Wear, range : Months, at : Stages]
  /\ PlansInv'

\* Every step keeps them.
LEMMA PlansPart ==
  ASSUME CalendarInv, CalendarNext
  PROVE  PlansAreKept
<1> DEFINE P == [rows : SUBSET Wear, doing : BOOLEAN, id : Nat, failed : BOOLEAN]
           A == [id : Nat, range : Months, at : Stages, rows : SUBSET Wear]
           C == [plan : Wear, range : Months, at : Stages]
<1>1. /\ month \in Months /\ marked \subseteq {"tracking", "plans"} /\ plans \in SUBSET Wear
      /\ planned \in P /\ planAsks \in SUBSET A /\ cancels \in SUBSET C
      /\ CalendarTypes /\ PlansInv
  BY DEF CalendarInv, CalendarTypes
<1>2. ASSUME NEW range \in Months, ReadPlans(range), range # month' => misread'
      PROVE  planned' \in P /\ planAsks' \in SUBSET A /\ PlansInv'
  <2>1. planned' \in P
    BY <1>1, <1>2, ReadPlansFacts
  <2>2. PICK a \in A : planAsks' = planAsks \cup {a}
    BY <1>1, <1>2, ReadPlansFacts
  <2>3. PlansInv'
    BY <1>1, <1>2, ReadPlansStep
  <2> QED  BY <1>1, <2>1, <2>2, <2>3
<1>3. ASSUME UNCHANGED <<month, plans, planned, planAsks, cancels, misread>>,
             marked' \subseteq {"tracking", "plans"}, "plans" \in marked => "plans" \in marked'
      PROVE  PlansAreKept
  <2>1. PlansInv'
    BY <1>1, <1>3, PlansRest
  <2> QED  BY <1>1, <1>3, <2>1 DEF PlansAreKept
<1>4. CASE Blur \/ RetryHistory
  <2>1. UNCHANGED <<month, plans, planned, planAsks, cancels, misread, marked>>
    BY <1>4 DEF Blur, RetryHistory
  <2> QED  BY <1>1, <1>3, <2>1
<1>5. CASE \E q \in asks : ServeHistory(q) \/ LoseHistory(q) \/ DeliverHistory(q)
  <2>1. UNCHANGED <<month, plans, planned, planAsks, cancels, misread, marked>>
    BY <1>5 DEF ServeHistory, LoseHistory, DeliverHistory
  <2> QED  BY <1>1, <1>3, <2>1
<1>6. CASE \E m \in Months : LogWear(m)
  <2>1. UNCHANGED <<month, plans, planned, planAsks, cancels, misread>> /\ marked' = marked \cup {"tracking"}
    BY <1>6 DEF LogWear
  <2> QED  BY <1>1, <1>3, <2>1
<1>7. ASSUME NEW m \in Months, TurnMonth(m)
      PROVE  PlansAreKept
  <2>1. ReadPlans(m) /\ month' = m /\ marked' = {} /\ UNCHANGED <<plans, cancels>>
    BY <1>7 DEF TurnMonth
  <2>2. planned' \in P /\ planAsks' \in SUBSET A /\ PlansInv'
    BY <1>2, <2>1
  <2> QED  BY <1>1, <2>1, <2>2 DEF PlansAreKept
<1>8. CASE FocusCalendar
  <2>1. marked' = {} /\ UNCHANGED <<month, plans, cancels>>
    BY <1>8 DEF FocusCalendar
  <2>2. CASE "plans" \notin marked
    <3>1. UNCHANGED <<planned, planAsks, misread>>
      BY <1>8, <2>2 DEF FocusCalendar
    <3> QED  BY <1>3, <2>1, <2>2, <3>1
  <2>3. CASE "plans" \in marked /\ planned.doing
    <3>1. UNCHANGED <<planned, planAsks>> /\ misread'
      BY <1>8, <2>3 DEF FocusCalendar, RefreshPlans
    <3>2. PlansInv'
      BY <1>1, <2>1, <3>1, PlansAreBusy
    <3> QED  BY <1>1, <2>1, <3>1, <3>2 DEF PlansAreKept
  <2>4. CASE "plans" \in marked /\ ~planned.doing
    <3>1. ReadPlans(month)
      BY <1>8, <2>4 DEF FocusCalendar, RefreshPlans
    <3>2. planned' \in P /\ planAsks' \in SUBSET A /\ PlansInv'
      BY <1>1, <1>2, <2>1, <3>1
    <3> QED  BY <1>1, <2>1, <3>2 DEF PlansAreKept
  <2> QED  BY <2>2, <2>3, <2>4
<1>9. CASE RetryPlans
  <2>1. UNCHANGED <<month, plans, cancels, misread, marked>>
    BY <1>9 DEF RetryPlans
  <2>2. CASE planned.doing
    <3>1. UNCHANGED <<planned, planAsks>>
      BY <1>9, <2>2 DEF RetryPlans, RefreshPlans
    <3> QED  BY <1>1, <1>3, <2>1, <3>1
  <2>3. CASE ~planned.doing
    <3>1. ReadPlans(month)
      BY <1>9, <2>3 DEF RetryPlans, RefreshPlans
    <3>2. planned' \in P /\ planAsks' \in SUBSET A /\ PlansInv'
      BY <1>1, <1>2, <2>1, <3>1
    <3> QED  BY <1>1, <2>1, <3>2 DEF PlansAreKept
  <2> QED  BY <2>2, <2>3
<1>10. ASSUME NEW m \in Months, PlanOutfit(m)
       PROVE  PlansAreKept
  <2>1. /\ plans' = plans \cup {[month |-> m, n |-> runs'["logs"]]}
        /\ marked' = marked \cup {"plans"} /\ UNCHANGED <<month, planned, planAsks, cancels, misread>>
    BY <1>10 DEF PlanOutfit
  <2>2. runs'["logs"] \in Nat \ {0}
    <3>1. runs \in [{"logs", "turns", "loads", "slips"} -> Nat]
      BY <1>1 DEF CalendarTypes
    <3>2. runs' = [runs EXCEPT !["logs"] = runs["logs"] + 1]
      BY <1>10 DEF PlanOutfit, Run
    <3> QED  BY <3>1, <3>2
  <2>3. plans' \in SUBSET Wear
    BY <1>1, <2>1, <2>2 DEF Wear
  <2>4. PlansInv'
    BY <1>1, <2>1, PlansAreBusy
  <2> QED  BY <1>1, <2>1, <2>3, <2>4 DEF PlansAreKept
<1>11. ASSUME NEW p \in planned.rows, PressCancel(p)
       PROVE  PlansAreKept
  <2> DEFINE c == [plan |-> p, range |-> month, at |-> "sent"]
  <2>1. cancels' = {c} /\ UNCHANGED <<month, plans, planned, planAsks, misread, marked>>
    BY <1>11 DEF PressCancel
  <2>2. c \in C
    BY <1>1 DEF Stages
  <2> HIDE DEF c
  <2>3. PlansInv'
    BY <1>1, <2>1, PlansAreBusy
  <2> QED  BY <1>1, <2>1, <2>2, <2>3 DEF PlansAreKept
<1>12. ASSUME NEW q \in planAsks, ServePlans(q) \/ LosePlans(q) \/ DeliverPlans(q)
       PROVE  PlansAreKept
  <2>1. UNCHANGED <<month, plans, cancels, marked>>
    BY <1>12 DEF ServePlans, LosePlans, DeliverPlans
  <2>2. planned' \in P /\ planAsks' \in SUBSET A /\ PlansInv'
    BY <1>1, <1>12, PlansAnswerStep
  <2> QED  BY <1>1, <2>1, <2>2 DEF PlansAreKept
<1>13. ASSUME NEW c \in cancels, ServeCancel(c) \/ LoseCancel(c)
       PROVE  PlansAreKept
  <2>1. /\ cancels' = {[c EXCEPT !.at = "done"]} \/ cancels' = {[c EXCEPT !.at = "failed"]}
        /\ plans' \subseteq plans
        /\ UNCHANGED <<month, planned, planAsks, misread, marked>>
    BY <1>13 DEF ServeCancel, LoseCancel
  <2>2. [c EXCEPT !.at = "done"] \in C /\ [c EXCEPT !.at = "failed"] \in C
    BY <1>1 DEF Stages
  <2>3. cancels' \in SUBSET C /\ cancels' # {}
    BY <2>1, <2>2
  <2>4. PlansInv'
    BY <1>1, <2>1, <2>3, PlansAreBusy
  <2> QED  BY <1>1, <2>1, <2>3, <2>4 DEF PlansAreKept
<1>14. ASSUME NEW c \in cancels, SettleCancel(c)
       PROVE  PlansAreKept
  <2>1. /\ cancels' = {} /\ marked' = marked \cup {"plans"} /\ RefreshPlans(c.range)
        /\ misread' = (misread \/ (~planned.doing /\ c.range # month))
        /\ UNCHANGED <<month, plans>> /\ c.range \in Months
    BY <1>1, <1>14 DEF SettleCancel
  <2>2. CASE planned.doing
    <3>1. UNCHANGED <<planned, planAsks>>
      BY <2>1, <2>2 DEF RefreshPlans
    <3>2. PlansInv'
      BY <1>1, <2>1, <3>1, PlansAreBusy
    <3> QED  BY <1>1, <2>1, <3>1, <3>2 DEF PlansAreKept
  <2>3. CASE ~planned.doing
    <3>1. ReadPlans(c.range)
      BY <2>1, <2>3 DEF RefreshPlans
    <3>2. planned' \in P /\ planAsks' \in SUBSET A /\ PlansInv'
      BY <1>2, <2>1, <2>3, <3>1
    <3> QED  BY <1>1, <2>1, <3>2 DEF PlansAreKept
  <2> QED  BY <2>2, <2>3
<1> HIDE DEF P, A, C
<1> QED  BY <1>4, <1>5, <1>6, <1>7, <1>8, <1>9, <1>10, <1>11, <1>12, <1>13, <1>14 DEF CalendarNext

\* The paging stops only where the month is complete.
LEMMA PagingPart ==
  ASSUME CalendarInv, CalendarNext
  PROVE  PagingInv'
<1>1. /\ hist \in Histories /\ EndsWith(hist.rows, hist.next) /\ month \in Months
      /\ PagingInv
  BY DEF CalendarInv, CalendarTypes, HistInv
<1>2. hist' \in Histories /\ EndsWith(hist'.rows, hist'.next)
  BY HistoryPart DEF HistoryIsKept, HistInv
<1>3. /\ \A m : Covered(hist, m) <=> Reached(hist, m)
      /\ \A m : Covered(hist', m) <=> Reached(hist', m)
  BY <1>1, <1>2, CoveredIsReached
<1>4. ASSUME UNCHANGED <<hist, month, restarted>>
      PROVE  PagingInv'
  BY <1>1, <1>4 DEF PagingInv, Reached
<1>5. ASSUME NEW h, Rerun(hist, h), hist' = h, UNCHANGED month,
             NEW now, Restarts(now), now \/ h = hist
      PROVE  PagingInv'
  <2>1. restarted' = ((restarted \/ now) /\ ~Reached(hist', month'))
    BY <1>3, <1>5 DEF Restarts
  <2>2. h = hist \/ h.doing \in {"refreshing", "loadingMore"}
    BY <1>5 DEF Rerun
  <2>3. CASE h = hist
    BY <1>1, <1>5, <2>1, <2>3 DEF PagingInv, Reached
  <2>4. CASE now /\ h.doing \in {"refreshing", "loadingMore"}
    BY <1>5, <2>1, <2>4 DEF PagingInv
  <2> QED  BY <1>5, <2>2, <2>3, <2>4
<1>6. CASE FocusCalendar
  <2>1. /\ hist' = Reload(hist) /\ UNCHANGED month /\ Restarts(hist' # hist)
        /\ Rerun(hist, Reload(hist))
    BY <1>1, <1>6, Reruns DEF FocusCalendar, History
  <2> QED  BY <1>5, <2>1
<1>7. CASE RetryHistory
  <2>1. /\ hist' = Refreshed(hist) /\ UNCHANGED month /\ Restarts(TRUE)
        /\ Rerun(hist, Refreshed(hist))
    BY <1>1, <1>7, Reruns DEF RetryHistory, History
  <2> QED  BY <1>5, <2>1
<1>8. ASSUME NEW m \in Months, TurnMonth(m)
      PROVE  PagingInv'
  <2>1. /\ hist' = Reload(Paged(hist, m)) /\ month' = m
        /\ Rerun(hist, hist') /\ Rerun(hist, Paged(hist, m))
        /\ restarted' = ((restarted \/ hist'.doing = "refreshing") /\ ~Reached(hist', m))
    BY <1>1, <1>3, <1>8, Reruns DEF TurnMonth, History, Restarts
  <2>2. hist' = hist \/ hist'.doing \in {"refreshing", "loadingMore"}
    BY <2>1 DEF Rerun
  <2>3. CASE hist' # hist
    BY <2>1, <2>2, <2>3 DEF PagingInv
  <2>4. CASE hist' = hist /\ hist.doing = "idle"
    <3>1. SUFFICES ASSUME ~Reached(hist, m)  PROVE restarted'
      BY <2>1, <2>4 DEF PagingInv
    <3>2. ~Covered(hist, m) /\ hist.next # NoWear
      BY <1>3, <3>1 DEF Reached
    <3>3. Paged(hist, m) = hist
      <4>1. CASE Reload(Paged(hist, m)) = Paged(hist, m)
        BY <2>1, <2>4, <4>1
      <4>2. CASE Reload(Paged(hist, m)) # Paged(hist, m)
        <5>1. Paged(hist, m) \in Histories
          BY <1>1, <2>1 DEF Rerun
        <5>2. Reload(Paged(hist, m)).doing = "refreshing"
          BY <4>2, <5>1, BegunFacts DEF Reload, Refreshed
        <5> QED  BY <2>1, <2>4, <5>2
      <4> QED  BY <4>1, <4>2
    <3>4. ~Covered(hist, month)
      <4>1. SUFFICES ASSUME Covered(hist, month)  PROVE FALSE
        OBVIOUS
      <4>2. Paged(hist, m) = Begun(hist, "loadingMore")
        BY <2>4, <3>2, <4>1 DEF Paged, More
      <4>3. Begun(hist, "loadingMore").doing = "loadingMore"
        BY <1>1, BegunFacts
      <4> QED  BY <2>4, <3>3, <4>2, <4>3
    <3>5. restarted
      BY <1>1, <1>3, <2>4, <3>4 DEF PagingInv
    <3> QED  BY <2>1, <2>4, <3>1, <3>5
  <2>5. CASE hist' = hist /\ hist.doing # "idle"
    BY <1>1, <2>1, <2>5 DEF PagingInv
  <2> QED  BY <2>3, <2>4, <2>5
<1>9. ASSUME NEW q \in asks, DeliverHistory(q)
      PROVE  PagingInv'
  <2>1. UNCHANGED month /\ q.at # "sent"
    BY <1>9 DEF DeliverHistory
  <2>2. CASE q.id # hist.id
    <3>1. UNCHANGED <<hist, restarted>>
      BY <1>9, <2>2 DEF DeliverHistory
    <3> QED  BY <1>4, <2>1, <3>1
  <2>3. CASE q.id = hist.id
    <3> DEFINE a == Applied(q)
    <3>1. /\ hist' = Paged(a, month)
          /\ restarted' = ((restarted \/ q.at = "failed") /\ ~Reached(hist', month'))
      BY <1>3, <1>9, <2>3 DEF DeliverHistory, Restarts
    <3>2. /\ a \in Histories /\ a.doing = "idle" /\ EndsWith(a.rows, a.next)
          /\ q.at = "failed" => a.next = hist.next
          /\ q.at = "done" /\ a.next # NoWear => a.next # hist.next \/ ~q.append
      BY <2>1, <2>3, AppliedFacts DEF CalendarInv
    <3>3. q.at \in {"done", "failed"}
      BY <2>1 DEF CalendarInv, CalendarTypes, Asks, Stages
    <3>4. Covered(a, month) <=> Reached(a, month)
      BY <3>2, CoveredIsReached
    <3>5. hist.doing # "idle" /\ (q.append <=> hist.doing = "loadingMore")
      BY <2>3 DEF CalendarInv, AsksInv
    <3> HIDE DEF a
    <3>6. CASE hist' = a
      <4>1. SUFFICES ASSUME ~Reached(a, month), ~restarted'  PROVE FALSE
        BY <2>1, <3>2, <3>6 DEF PagingInv
      <4>2. q.at = "done" /\ ~restarted
        BY <2>1, <3>1, <3>3, <3>6, <4>1
      <4>3. a.next # NoWear /\ More(a) # a
        BY <3>2, <4>1, BegunFacts DEF Reached, More
      <4>4. ~Covered(hist, month) /\ a.next = hist.next
        BY <3>1, <3>4, <3>6, <4>1, <4>3 DEF Paged
      <4>5. ~q.append
        BY <3>2, <4>2, <4>3, <4>4
      <4>6. hist.doing \in {"loading", "refreshing"}
        BY <1>1, <3>5, <4>5 DEF Histories
      <4> QED  BY <1>1, <1>3, <4>2, <4>4, <4>6 DEF PagingInv, Reached
    <3>7. CASE hist' # a
      <4>1. hist'.doing = "loadingMore"
        BY <3>1, <3>2, <3>7, BegunFacts DEF Paged, More
      <4> QED  BY <4>1 DEF PagingInv
    <3> QED  BY <3>6, <3>7
  <2> QED  BY <2>2, <2>3
<1>10. CASE \/ Blur \/ RetryPlans \/ \E m \in Months : LogWear(m) \/ PlanOutfit(m)
            \/ \E p \in planned.rows : PressCancel(p)
            \/ \E q \in asks : ServeHistory(q) \/ LoseHistory(q)
  <2>1. UNCHANGED <<hist, month, restarted>>
    BY <1>10 DEF Blur, RetryPlans, LogWear, PlanOutfit, PressCancel, ServeHistory, LoseHistory
  <2> QED  BY <1>4, <2>1
<1>11. CASE \/ \E q \in planAsks : ServePlans(q) \/ LosePlans(q) \/ DeliverPlans(q)
            \/ \E c \in cancels : ServeCancel(c) \/ LoseCancel(c) \/ SettleCancel(c)
  <2>1. UNCHANGED <<hist, month, restarted>>
    BY <1>11 DEF ServePlans, LosePlans, DeliverPlans, ServeCancel, LoseCancel, SettleCancel
  <2> QED  BY <1>4, <2>1
<1> QED  BY <1>6, <1>7, <1>8, <1>9, <1>10, <1>11 DEF CalendarNext

\* It holds when the app comes to the calendar.
LEMMA CalendarInitInv ==
  ASSUME CalendarInit
  PROVE  CalendarInv
<1>1. /\ wears = {[month |-> Past[i], n |-> i] : i \in DOMAIN Past}
      /\ plans = {} /\ month = 0 /\ cancels = {} /\ marked = {}
      /\ hist = [rows |-> {}, next |-> NoWear, doing |-> "loading", id |-> 1, failed |-> FALSE, base |-> 0]
      /\ planned = [rows |-> {}, doing |-> TRUE, id |-> 1, failed |-> FALSE]
      /\ asks = {HistoryAsk(hist)} /\ planAsks = {PlansAsk(1, 0)}
      /\ runs = [logs |-> Len(Past), turns |-> 0, loads |-> 0, slips |-> 0]
  BY DEF CalendarInit
<1>2. Past \in Seq(Months) /\ 0 \in Months
  BY CalendarBounds
<1>3. DOMAIN Past = 1..Len(Past) /\ Len(Past) \in Nat /\ \A i \in 1..Len(Past) : Past[i] \in Months
  BY <1>2
<1>4. wears \in SUBSET Wear /\ IsFiniteSet(wears)
  <2>1. wears = {[month |-> Past[i], n |-> i] : i \in 1..Len(Past)}
    BY <1>1, <1>3
  <2>2. \A i \in 1..Len(Past) : [month |-> Past[i], n |-> i] \in Wear
    BY <1>3 DEF Wear
  <2>3. IsFiniteSet(1..Len(Past))
    BY <1>3, FS_Interval
  <2> DEFINE f == [i \in 1..Len(Past) |-> [month |-> Past[i], n |-> i]]
  <2>4. wears = {f[i] : i \in 1..Len(Past)}
    BY <2>1
  <2>5. f \in Surjection(1..Len(Past), wears)
    <3>1. \A i \in 1..Len(Past) : f[i] \in wears
      BY <2>4
    <3>2. \A w \in wears : \E i \in 1..Len(Past) : f[i] = w
      BY <2>4
    <3>3. f \in [1..Len(Past) -> wears]
      BY <3>1
    <3> HIDE DEF f
    <3> QED  BY <3>2, <3>3 DEF Surjection
  <2>6. IsFiniteSet(wears)
    <3> HIDE DEF f
    <3> QED  BY <2>3, <2>5, FS_Surjection
  <2> QED  BY <2>1, <2>2, <2>6
<1>5. hist \in Histories
  BY <1>1 DEF Histories
<1>6. /\ HistoryAsk(hist) \in Asks /\ HistoryAsk(hist).id = 1 /\ ~HistoryAsk(hist).append
      /\ HistoryAsk(hist).cursor = NoWear /\ HistoryAsk(hist).at = "sent" /\ HistoryAsk(hist).base = 0
  <2>1. hist.doing = "loading" /\ hist.id = 1 /\ hist.base = 0
    BY <1>1
  <2> QED  BY <1>5, <2>1, AskFacts
<1>7. /\ PlansAsk(1, 0) \in [id : Nat, range : Months, at : Stages, rows : SUBSET Wear]
      /\ PlansAsk(1, 0).id = 1 /\ PlansAsk(1, 0).range = 0 /\ PlansAsk(1, 0).at = "sent"
  BY <1>2 DEF PlansAsk, Stages
<1>8. runs["logs"] = Len(Past) /\ runs \in [{"logs", "turns", "loads", "slips"} -> Nat]
  BY <1>1, <1>3
<1>9. CalendarTypes
  <2>1. planned \in [rows : SUBSET Wear, doing : BOOLEAN, id : Nat, failed : BOOLEAN]
    BY <1>1
  <2> QED  BY <1>1, <1>2, <1>4, <1>5, <1>6, <1>7, <1>8, <2>1 DEF CalendarTypes
<1>10. AsksInv
  <2>1. hist.id = 1 /\ hist.doing = "loading"
    BY <1>1
  <2>2. \A q \in asks : q.id = 1 /\ ~q.append /\ q = HistoryAsk(hist)
    BY <1>1, <1>6
  <2>3. \E q \in asks : q.id = 1
    BY <1>1, <1>6
  <2> QED  BY <2>1, <2>2, <2>3 DEF AsksInv
<1>11. AskedInv
  BY <1>1, <1>3, <1>6, <1>8 DEF AskedInv
<1>12. HistInv
  BY <1>1, <1>3, <1>8 DEF HistInv, EndsWith
<1>13. PagingInv
  BY <1>1 DEF PagingInv
<1>14. PlansInv
  BY <1>1, <1>7 DEF PlansInv, PlansAreTrue
<1> QED  BY <1>9, <1>10, <1>11, <1>12, <1>13, <1>14 DEF CalendarInv

\* It holds after every step, the calendar's or another screen's.
LEMMA CalendarInvStep ==
  ASSUME CalendarInv, CalendarNext \/ UNCHANGED calendarVars
  PROVE  CalendarInv'
<1>1. CASE CalendarNext
  <2>1. HistoryIsKept /\ PlansAreKept /\ PagingInv'
    BY <1>1, HistoryPart, PlansPart, PagingPart
  <2>2. runs' \in [{"logs", "turns", "loads", "slips"} -> Nat]
    BY <1>1, CalendarRuns DEF CalendarInv
  <2> QED  BY <2>1, <2>2 DEF HistoryIsKept, PlansAreKept, CalendarInv, CalendarTypes
<1>2. CASE UNCHANGED calendarVars
  BY <1>2 DEF calendarVars, CalendarInv, CalendarTypes, AsksInv, AskedInv, HistInv, PagingInv,
              Reached, PlansInv, PlansAreTrue
<1> QED  BY <1>1, <1>2

\* What the invariant says of the calendar as it is shown.
LEMMA CalendarInvTells ==
  ASSUME CalendarInv
  PROVE  HistoryIsTold /\ PlansAreShown
<1>1. /\ hist \in Histories /\ hist.rows \in SUBSET Wear /\ hist.next \in Wear \cup {NoWear}
      /\ EndsWith(hist.rows, hist.next)
  BY DEF CalendarInv, CalendarTypes, Histories, HistInv
<1>2. CalendarTypeOK
  <2>1. hist.next \in hist.rows \cup {NoWear}
    BY <1>1 DEF EndsWith
  <2>2. \A q \in asks \cup planAsks \cup cancels : q.at \in Stages
    BY DEF CalendarInv, CalendarTypes, Asks
  <2>3. hist.doing \in {"idle", "loading", "refreshing", "loadingMore"}
    BY <1>1 DEF Histories
  <2> QED  BY <2>1, <2>2, <2>3 DEF CalendarTypeOK, CalendarInv, CalendarTypes, HistInv, Stages
<1>3. HistoryIsGapless
  <2>1. hist.next # NoWear => Oldest(hist.rows) = hist.next
    BY <1>1, CursorIsOldest
  <2> QED  BY <2>1 DEF HistoryIsGapless, CalendarInv, HistInv, Whole
<1>4. PagingCompletes
  BY <1>1, CoveredIsReached DEF PagingCompletes, CalendarInv, PagingInv
<1>5. PlansAreTrue /\ SpinnersEnd
  BY DEF CalendarInv, PlansInv, AsksInv, SpinnersEnd
<1> QED  BY <1>2, <1>3, <1>4, <1>5 DEF HistoryIsTold, PlansAreShown

\* useWearHistory.ts, calendar.tsx:95-104, for every history and page size: pages,
\* refreshes, failures, turns of the month and wears logged in between leave no gap
\* in what is shown, and the paging ends only where the month is complete or a
\* failure or a refresh came between.
THEOREM HistoryAlwaysTold == TrackingSpec => []HistoryIsTold
<1>1. TrackingInit => CalendarInv
  BY CalendarInitInv DEF TrackingInit
<1>2. CalendarInv /\ [TrackingNext]_trackingVars => CalendarInv'
  BY CalendarInvStep DEF TrackingNext, trackingVars
<1>3. CalendarInv => HistoryIsTold
  BY CalendarInvTells
<1> QED  BY <1>1, <1>2, <1>3, PTL DEF TrackingSpec

\* usePlannedOutfits.ts:41-47, calendar.tsx:171-175, for every number of plans,
\* months and loads: at rest and unmarked the month shows exactly its plans, and a
\* spinner turns only for a request on its way.
THEOREM PlansAlwaysShown == TrackingSpec => []PlansAreShown
<1>1. TrackingInit => CalendarInv
  BY CalendarInitInv DEF TrackingInit
<1>2. CalendarInv /\ [TrackingNext]_trackingVars => CalendarInv'
  BY CalendarInvStep DEF TrackingNext, trackingVars
<1>3. CalendarInv => PlansAreShown
  BY CalendarInvTells
<1> QED  BY <1>1, <1>2, <1>3, PTL DEF TrackingSpec

----------------------------------------------------------------------------
(***************************************************************************)
(* The detail screens' inductive invariant.                                *)
(***************************************************************************)
Screens == {"item", "outfit", "log"}
Widgets == {"laundry", "retire", "rename", "log", "share", "delete"}
Ends == {"sent", "done", "gone", "failed"}
Flags == BOOLEAN
Drafts == Names \cup {NoDraft}
Sents == Flags \cup Drafts \cup {NoOccasion, "brunch"} \cup Nat \cup Screens
Apis == [item : BOOLEAN, laundry : Flags, retired : Flags, outfit : BOOLEAN, name : Names,
         wears : Nat, shares : Nat]
PageStates == [mount : Nat \ {0}, kind : Screens, status : {"loading", "ready", "notFound", "error"},
               laundry : Flags, retired : Flags, name : Names, draft : Drafts,
               occasion : Occasions, sheet : Nat, refs : SUBSET Widgets]
Calls == [n : Nat, mount : Nat \ {0}, kind : Screens, control : Widgets, sent : Sents, at : Ends,
          clean : BOOLEAN, answer : Apis, joined : 1..2]
PageLoads == [mount : Nat \ {0}, kind : Screens, at : Ends, clean : BOOLEAN, answer : Apis]

\* What a control sends.
SentIsOf(c) ==
  /\ c.control \in {"laundry", "retire"} => c.sent \in Flags
  /\ c.control = "rename" => c.sent \in Names
  /\ c.control = "log" => c.sent \in {NoOccasion, "brunch"}
  /\ c.control = "share" => c.sent \in Nat /\ c.sent > 0 /\ c.sent <= used["types"]

\* Types of the screens' state, of what their requests hold included.
DetailTypes ==
  /\ route \in Screens /\ api \in Apis
  /\ page \in PageStates \cup {NoPage} /\ seen \in PageStates \cup {NoPage}
  /\ calls \in SUBSET Calls /\ IsFiniteSet(calls) /\ opening \in SUBSET PageLoads
  /\ \A c \in calls : SentIsOf(c)
  /\ marks \subseteq Readers /\ excused \subseteq Readers
  /\ lists = [r \in Readers |-> lists[r]]
  /\ \A q \in reads : /\ q = [reader |-> q.reader, at |-> q.at, view |-> q.view]
                      /\ q.reader \in Readers /\ q.at \in Stages
  /\ used \in [{"visits", "writes", "types", "troubles"} -> Nat]

\* Every screen is of the route's kind, and of one visit.
ScreensInv ==
  /\ page # NoPage => page.kind = route /\ page.mount <= used["visits"]
  /\ seen # NoPage => seen.kind = route /\ seen.mount <= used["visits"]
  /\ page # NoPage /\ seen # NoPage => page.mount = seen.mount
  /\ \A c \in calls : c.mount <= used["visits"] /\ c.kind = route /\ c.control \in Controls[route]
  /\ \A q \in opening : q.mount <= used["visits"] /\ q.kind = route

\* What is written, or on its way, was begun within the bound.
CountInv ==
  /\ api.wears + api.shares + Cardinality({c \in calls : c.at = "sent"}) <= used["writes"]
  /\ used["writes"] <= MaxWrites

\* A list that is neither excused nor marked nor about to be: it shows what is so,
\* or what its load brings does.
HearInv ==
  /\ \A p, q \in reads : p.reader = q.reader => p = q
  /\ \A r \in Readers \ (excused \cup marks) :
       (\A c \in calls : c.at = "sent" \/ r \notin Tells(c)) =>
         IF Reading(r) THEN \A q \in reads : q.reader = r /\ q.at = "done" => q.view = View(r)
         ELSE lists[r] = View(r)

\* An answer that is not out of date is what is so.
IsSo(q) ==
  /\ q.at = "done" /\ q.clean => q.answer = api
  /\ q.at = "gone" => ~There(q.kind)
AnswersInv == (\A c \in calls : IsSo(c)) /\ (\A q \in opening : IsSo(q))

\* What the screen draws is so, or a write that is answered will correct it.
FactsInv ==
  page # NoPage /\ page.kind # "log" /\ page.status = "ready" /\ ~tainted =>
    \/ page.laundry = api.laundry /\ page.retired = api.retired /\ page.name = api.name
    \/ \E c \in calls : Replaces(c)

GoneInv == page # NoPage /\ page.status = "notFound" => ~There(page.kind)

\* The call a control waits for, on a sheet for the one that shares.
Live(c, m, control, sheet) ==
  c.mount = m /\ c.control = control /\ (control = "share" => c.sent = sheet)

\* A control's ref is set exactly while it waits; one call for each control of
\* each screen and sheet.
ControlsInv ==
  /\ \A c, d \in calls : Live(c, d.mount, d.control, d.sent) => c = d
  /\ page # NoPage => page.sheet <= used["types"] /\ page.refs \subseteq Controls[route]
  /\ seen # NoPage => seen.sheet <= used["types"]
  /\ page # NoPage /\ seen = NoPage => page.refs = {} /\ \A c \in calls : c.mount # page.mount
  /\ page # NoPage /\ seen # NoPage =>
       /\ \A control \in Controls[route] :
            control \in page.refs <=> \E c \in calls : Live(c, page.mount, control, seen.sheet)
       /\ page.sheet # seen.sheet => \A c \in calls : ~Live(c, page.mount, "share", page.sheet)

DetailsInv ==
  /\ DetailTypes /\ ScreensInv /\ CountInv /\ HearInv /\ AnswersInv /\ FactsInv /\ GoneInv
  /\ ControlsInv

----------------------------------------------------------------------------
(***************************************************************************)
(* What a step makes of a request, a screen and the API.                   *)
(***************************************************************************)
Moved(c, at) == [c EXCEPT !.at = at]
Answered(c, at, a) == [c EXCEPT !.at = at, !.answer = a]
Stale(c) == [c EXCEPT !.clean = c.clean /\ c.at = "sent"]
Joined(c) == [c EXCEPT !.joined = 2]

\* What a request keeps, whatever becomes of it.
Alike(c, d) ==
  c.mount = d.mount /\ c.control = d.control /\ c.sent = d.sent /\ c.kind = d.kind

\* A call moved on, answered, overtaken or joined is a call, and for the same thing.
LEMMA CallFacts ==
  ASSUME NEW c \in Calls, NEW at \in Ends, NEW a \in Apis
  PROVE  /\ Moved(c, at) \in Calls /\ Alike(Moved(c, at), c) /\ Moved(c, at).at = at
         /\ Answered(c, at, a) \in Calls /\ Alike(Answered(c, at, a), c)
         /\ Answered(c, at, a).at = at /\ Answered(c, at, a).answer = a
         /\ Stale(c) \in Calls /\ Alike(Stale(c), c) /\ Stale(c).at = c.at
         /\ Stale(c).clean => c.at = "sent"
         /\ Joined(c) \in Calls /\ Alike(Joined(c), c) /\ Joined(c).at = c.at
         /\ Joined(c).clean = c.clean /\ Joined(c).answer = c.answer
<1>1. Moved(c, at) \in Calls /\ Moved(c, at).at = at
  BY DEF Moved, Calls
<1>2. Alike(Moved(c, at), c)
  BY DEF Moved, Calls, Alike
<1>3. Answered(c, at, a) \in Calls
  <2>1. [Moved(c, at) EXCEPT !.answer = a] \in Calls
    BY <1>1 DEF Calls
  <2> QED  BY <2>1, Zenon DEF Answered, Moved
<1>4. Alike(Answered(c, at, a), c)
  BY DEF Answered, Calls, Alike
<1>5. Answered(c, at, a).at = at /\ Answered(c, at, a).answer = a
  BY DEF Answered, Calls
<1>6. Stale(c) \in Calls
  BY DEF Stale, Calls
<1>7. Alike(Stale(c), c) /\ Stale(c).at = c.at
  BY DEF Stale, Calls, Alike
<1>8. Stale(c).clean => c.at = "sent"
  BY DEF Stale, Calls
<1>9. Joined(c) \in Calls
  BY DEF Joined, Calls
<1>10. Alike(Joined(c), c) /\ Joined(c).at = c.at /\ Joined(c).answer = c.answer
  BY DEF Joined, Calls, Alike
<1>11. Joined(c).clean = c.clean
  BY DEF Joined, Calls
<1> QED  BY <1>1, <1>2, <1>3, <1>4, <1>5, <1>6, <1>7, <1>8, <1>9, <1>10, <1>11

\* A call that is moved on, by itself.
LEMMA MovedFacts ==
  ASSUME NEW c \in Calls, NEW at \in Ends
  PROVE  Moved(c, at) \in Calls /\ Alike(Moved(c, at), c) /\ Moved(c, at).at = at
<1>1. Moved(c, at) \in Calls /\ Moved(c, at).at = at
  BY DEF Moved, Calls
<1>2. Alike(Moved(c, at), c)
  BY DEF Moved, Calls, Alike
<1> QED  BY <1>1, <1>2

\* A call that is joined, by itself.
LEMMA JoinedFacts ==
  ASSUME NEW c \in Calls
  PROVE  /\ Joined(c) \in Calls /\ Alike(Joined(c), c) /\ Joined(c).at = c.at
         /\ Joined(c).clean = c.clean /\ Joined(c).answer = c.answer
<1>1. Joined(c) \in Calls
  BY DEF Joined, Calls
<1>2. Alike(Joined(c), c) /\ Joined(c).at = c.at /\ Joined(c).answer = c.answer
  BY DEF Joined, Calls, Alike
<1>3. Joined(c).clean = c.clean
  BY DEF Joined, Calls
<1> QED  BY <1>1, <1>2, <1>3

\* What an answer makes of a call, by itself.
LEMMA AnsweredFacts ==
  ASSUME NEW c \in Calls, NEW at \in Ends, NEW a \in Apis
  PROVE  /\ Answered(c, at, a) \in Calls /\ Alike(Answered(c, at, a), c)
         /\ Answered(c, at, a).at = at /\ Answered(c, at, a).answer = a
BY CallFacts

\* The same of a load of a screen.
LEMMA LoadFacts ==
  ASSUME NEW q \in PageLoads, NEW at \in Ends, NEW a \in Apis
  PROVE  /\ Moved(q, at) \in PageLoads /\ Moved(q, at).at = at
         /\ Moved(q, at).mount = q.mount /\ Moved(q, at).kind = q.kind
         /\ Answered(q, at, a) \in PageLoads /\ Answered(q, at, a).at = at
         /\ Answered(q, at, a).answer = a
         /\ Answered(q, at, a).mount = q.mount /\ Answered(q, at, a).kind = q.kind
         /\ Stale(q) \in PageLoads /\ Stale(q).at = q.at
         /\ Stale(q).mount = q.mount /\ Stale(q).kind = q.kind
         /\ Stale(q).clean => q.at = "sent"
<1>1. Moved(q, at) \in PageLoads /\ Moved(q, at).at = at
  BY DEF Moved, PageLoads
<1>2. Moved(q, at).mount = q.mount /\ Moved(q, at).kind = q.kind
  BY DEF Moved, PageLoads
<1>3. Answered(q, at, a) \in PageLoads
  <2>1. [Moved(q, at) EXCEPT !.answer = a] \in PageLoads
    BY <1>1 DEF PageLoads
  <2> QED  BY <2>1, Zenon DEF Answered, Moved
<1>4. /\ Answered(q, at, a).at = at /\ Answered(q, at, a).answer = a
      /\ Answered(q, at, a).mount = q.mount /\ Answered(q, at, a).kind = q.kind
  BY DEF Answered, PageLoads
<1>5. Stale(q) \in PageLoads
  BY DEF Stale, PageLoads
<1>6. Stale(q).at = q.at /\ Stale(q).mount = q.mount /\ Stale(q).kind = q.kind
  BY DEF Stale, PageLoads
<1>7. Stale(q).clean => q.at = "sent"
  BY DEF Stale, PageLoads
<1> QED  BY <1>1, <1>2, <1>3, <1>4, <1>5, <1>6, <1>7

\* Each by itself.
LEMMA LoadMoved ==
  ASSUME NEW q \in PageLoads, NEW at \in Ends
  PROVE  /\ Moved(q, at) \in PageLoads /\ Moved(q, at).at = at
         /\ Moved(q, at).mount = q.mount /\ Moved(q, at).kind = q.kind
<1>1. q.answer \in Apis
  BY DEF PageLoads
<1> QED  BY <1>1, LoadFacts

\* An answered load.
LEMMA LoadAnswered ==
  ASSUME NEW q \in PageLoads, NEW at \in Ends, NEW a \in Apis
  PROVE  /\ Answered(q, at, a) \in PageLoads /\ Answered(q, at, a).at = at
         /\ Answered(q, at, a).answer = a
         /\ Answered(q, at, a).mount = q.mount /\ Answered(q, at, a).kind = q.kind
BY LoadFacts

\* What is drawn of an answer.
LEMMA DrawnFacts ==
  ASSUME NEW p \in PageStates, NEW a \in Apis
  PROVE  /\ Drawn(p, a) \in PageStates
         /\ Drawn(p, a).status = "ready" /\ Drawn(p, a).laundry = a.laundry
         /\ Drawn(p, a).retired = a.retired /\ Drawn(p, a).name = a.name
         /\ Drawn(p, a).mount = p.mount /\ Drawn(p, a).kind = p.kind
         /\ Drawn(p, a).sheet = p.sheet /\ Drawn(p, a).refs = p.refs
<1>1. a.laundry \in Flags /\ a.retired \in Flags /\ a.name \in Names
  BY DEF Apis
<1>3. Drawn(p, a) \in PageStates
  <2> DEFINE f == [p EXCEPT !.status = "ready"]
             g == [f EXCEPT !.laundry = a.laundry]
             h == [g EXCEPT !.retired = a.retired]
             i == [h EXCEPT !.name = a.name]
  <2>1. f \in PageStates
    BY DEF PageStates
  <2> HIDE DEF f
  <2>2. g \in PageStates
    BY <1>1, <2>1 DEF PageStates
  <2> HIDE DEF g
  <2>3. h \in PageStates
    BY <1>1, <2>2 DEF PageStates
  <2> HIDE DEF h
  <2>4. i \in PageStates
    BY <1>1, <2>3 DEF PageStates
  <2> QED  BY <2>4, Zenon DEF Drawn, f, g, h, i
<1>4. /\ Drawn(p, a).status = "ready" /\ Drawn(p, a).name = a.name
      /\ Drawn(p, a).mount = p.mount /\ Drawn(p, a).kind = p.kind
      /\ Drawn(p, a).sheet = p.sheet /\ Drawn(p, a).refs = p.refs
  BY DEF Drawn, PageStates
<1>5. Drawn(p, a).laundry = a.laundry /\ Drawn(p, a).retired = a.retired
  BY DEF Drawn, PageStates
<1> QED  BY <1>3, <1>4, <1>5

\* What an endpoint writes: at most one row more, nothing that is gone comes back,
\* and of what a screen draws only what its control is for.
LEMMA WrittenFacts ==
  ASSUME api \in Apis, NEW c \in Calls, SentIsOf(c), c.control \in Controls[c.kind]
  PROVE  /\ Written(c) \in Apis
         /\ Written(c).wears + Written(c).shares <= api.wears + api.shares + 1
         /\ Written(c).item => api.item
         /\ Written(c).outfit => api.outfit
         /\ c.control \notin {"laundry", "retire", "rename"} =>
              /\ Written(c).laundry = api.laundry /\ Written(c).retired = api.retired
              /\ Written(c).name = api.name
<1>1. c.control \in Widgets /\ c.kind \in Screens
  BY DEF Calls
<1>2. api.wears \in Nat /\ api.shares \in Nat
  BY DEF Apis
<1>3. CASE c.control = "laundry"
  <2>1. c.sent \in Flags /\ Written(c) = [api EXCEPT !.laundry = c.sent]
    BY <1>3 DEF Written, SentIsOf
  <2>2. Written(c) \in Apis
    BY <2>1 DEF Apis
  <2>3. Written(c).wears = api.wears /\ Written(c).shares = api.shares
    BY <2>1 DEF Apis
  <2>4. Written(c).item = api.item /\ Written(c).outfit = api.outfit
    BY <2>1 DEF Apis
  <2> QED  BY <1>2, <1>3, <2>2, <2>3, <2>4
<1>4. CASE c.control = "retire"
  <2>1. c.sent \in Flags /\ Written(c) = [api EXCEPT !.retired = c.sent]
    BY <1>4 DEF Written, SentIsOf
  <2>2. Written(c) \in Apis
    BY <2>1 DEF Apis
  <2>3. Written(c).wears = api.wears /\ Written(c).shares = api.shares
    BY <2>1 DEF Apis
  <2>4. Written(c).item = api.item /\ Written(c).outfit = api.outfit
    BY <2>1 DEF Apis
  <2> QED  BY <1>2, <1>4, <2>2, <2>3, <2>4
<1>5. CASE c.control = "rename"
  <2>1. c.sent \in Names /\ Written(c) = [api EXCEPT !.name = c.sent]
    BY <1>5 DEF Written, SentIsOf
  <2>2. Written(c) \in Apis
    BY <2>1 DEF Apis
  <2>3. Written(c).wears = api.wears /\ Written(c).shares = api.shares
    BY <2>1 DEF Apis
  <2>4. Written(c).item = api.item /\ Written(c).outfit = api.outfit
    BY <2>1 DEF Apis
  <2> QED  BY <1>2, <1>5, <2>2, <2>3, <2>4
<1>6. CASE c.control = "log"
  <2>1. Written(c) = [api EXCEPT !.wears = api.wears + 1]
    BY <1>6 DEF Written
  <2>2. Written(c) \in Apis
    BY <1>2, <2>1 DEF Apis
  <2>3. Written(c).wears = api.wears + 1 /\ Written(c).shares = api.shares /\ Written(c).name = api.name
    BY <2>1 DEF Apis
  <2>4. Written(c).item = api.item /\ Written(c).outfit = api.outfit
    BY <2>1 DEF Apis
  <2>5. Written(c).laundry = api.laundry /\ Written(c).retired = api.retired
    BY <2>1 DEF Apis
  <2> QED  BY <1>2, <1>6, <2>2, <2>3, <2>4, <2>5
<1>7. CASE c.control = "share"
  <2>1. Written(c) = [api EXCEPT !.shares = api.shares + 1]
    BY <1>7 DEF Written
  <2>2. Written(c) \in Apis
    BY <1>2, <2>1 DEF Apis
  <2>3. Written(c).wears = api.wears /\ Written(c).shares = api.shares + 1 /\ Written(c).name = api.name
    BY <2>1 DEF Apis
  <2>4. Written(c).item = api.item /\ Written(c).outfit = api.outfit
    BY <2>1 DEF Apis
  <2>5. Written(c).laundry = api.laundry /\ Written(c).retired = api.retired
    BY <2>1 DEF Apis
  <2> QED  BY <1>2, <1>7, <2>2, <2>3, <2>4, <2>5
<1>8. CASE c.control = "delete"
  <2>1. Written(c) \in {[api EXCEPT !.item = FALSE], [api EXCEPT !.outfit = FALSE]}
    BY <1>8 DEF Written
  <2>2. Written(c) \in Apis
    <3>1. [api EXCEPT !.item = FALSE] \in Apis /\ [api EXCEPT !.outfit = FALSE] \in Apis
      BY DEF Apis
    <3> QED  BY <2>1, <3>1
  <2>3. Written(c).wears = api.wears /\ Written(c).shares = api.shares /\ Written(c).name = api.name
    BY <2>1 DEF Apis
  <2>4. (Written(c).item => api.item) /\ (Written(c).outfit => api.outfit)
    BY <2>1 DEF Apis
  <2>5. Written(c).laundry = api.laundry /\ Written(c).retired = api.retired
    BY <2>1 DEF Apis
  <2> QED  BY <1>2, <1>8, <2>2, <2>3, <2>4, <2>5
<1> QED  BY <1>1, <1>3, <1>4, <1>5, <1>6, <1>7, <1>8 DEF Widgets

\* What a reader draws, by the rows it draws.
LEMMA ViewFacts ==
  /\ View("wardrobe") = <<api.item, api.laundry, api.retired>>
  /\ View("profile") = <<api.item, api.laundry, api.retired, api.wears, api.outfit, api.name>>
  /\ View("calendar") = <<api.wears, api.outfit, api.name>>
  /\ View("outfits") = <<api.outfit, api.name, api.item>>
  /\ View("feed") = <<api.shares>>
BY DEF View

\* A write tells every reader that draws what it changed.
LEMMA WrittenIsTold ==
  ASSUME api \in Apis, NEW c \in Calls, c.control \in Controls[c.kind], api' = Written(c),
         NEW d, d.control = c.control, d.kind = c.kind, d.at = "done",
         NEW r \in Readers, r \notin Tells(d)
  PROVE  View(r)' = View(r)
<1>1. c.control \in Widgets /\ c.kind \in Screens
  BY DEF Calls
<1>2. r \in {"wardrobe", "profile", "calendar", "outfits", "feed"}
  BY DEF Readers, TrackingReaders
<1>3. /\ View("wardrobe")' = <<api.item, api.laundry, api.retired>>'
      /\ View("profile")' = <<api.item, api.laundry, api.retired, api.wears, api.outfit, api.name>>'
      /\ View("calendar")' = <<api.wears, api.outfit, api.name>>'
      /\ View("outfits")' = <<api.outfit, api.name, api.item>>'
      /\ View("feed")' = <<api.shares>>'
  BY DEF View
<1>4. CASE c.control = "laundry" \/ c.control = "retire"
  <2>1. r \in {"outfits", "feed"}
    BY <1>2, <1>4 DEF Tells, TrackingReaders
  <2>2. /\ api'.outfit = api.outfit /\ api'.name = api.name /\ api'.item = api.item
        /\ api'.shares = api.shares
    BY <1>4 DEF Written, Apis
  <2> QED  BY <1>3, <2>1, <2>2, ViewFacts
<1>5. CASE c.control = "log"
  <2>1. r \in {"outfits", "feed"}
    BY <1>2, <1>5 DEF Tells, TrackingReaders
  <2>2. /\ api'.outfit = api.outfit /\ api'.name = api.name /\ api'.item = api.item
        /\ api'.shares = api.shares
    BY <1>5 DEF Written, Apis
  <2> QED  BY <1>3, <2>1, <2>2, ViewFacts
<1>6. CASE c.control = "share"
  <2>1. r # "feed"
    BY <1>6 DEF Tells
  <2>2. /\ api'.outfit = api.outfit /\ api'.name = api.name /\ api'.item = api.item
        /\ api'.wears = api.wears /\ api'.laundry = api.laundry /\ api'.retired = api.retired
    BY <1>6 DEF Written, Apis
  <2> QED  BY <1>2, <1>3, <2>1, <2>2, ViewFacts
<1>7. CASE c.control = "rename"
  <2>1. r \in {"wardrobe", "feed"}
    BY <1>2, <1>7 DEF Tells
  <2>2. /\ api'.item = api.item /\ api'.laundry = api.laundry /\ api'.retired = api.retired
        /\ api'.shares = api.shares
    BY <1>7 DEF Written, Apis
  <2> QED  BY <1>3, <2>1, <2>2, ViewFacts
<1>8. CASE c.control = "delete" /\ c.kind = "item"
  <2>1. r \in {"calendar", "feed"} \/ r = "feed"
    BY <1>2, <1>8 DEF Tells, TrackingReaders
  <2>2. /\ api'.wears = api.wears /\ api'.outfit = api.outfit /\ api'.name = api.name
        /\ api'.shares = api.shares
    BY <1>8 DEF Written, Apis
  <2> QED  BY <1>3, <2>1, <2>2, ViewFacts
<1>9. CASE c.control = "delete" /\ c.kind = "outfit"
  <2>1. r \in {"wardrobe", "feed"}
    BY <1>2, <1>9 DEF Tells
  <2>2. /\ api'.item = api.item /\ api'.laundry = api.laundry /\ api'.retired = api.retired
        /\ api'.shares = api.shares
    BY <1>9 DEF Written, Apis
  <2> QED  BY <1>3, <2>1, <2>2, ViewFacts
<1>10. c.control = "delete" => c.kind \in {"item", "outfit"}
  BY <1>1 DEF Controls, Screens
<1> QED  BY <1>1, <1>4, <1>5, <1>6, <1>7, <1>8, <1>9, <1>10 DEF Widgets

----------------------------------------------------------------------------
(***************************************************************************)
(* What a step that is about something else leaves as it was.              *)
(***************************************************************************)
\* The lists: whatever is answered and not settled stays so.
LEMMA HearRests ==
  ASSUME HearInv, UNCHANGED <<api, lists, reads, excused, marks>>,
         \A c \in calls : c.at = "sent" \/ \E d \in calls' :
           d.at = c.at /\ d.control = c.control /\ d.kind = c.kind
  PROVE  HearInv'
<1>1. \A r \in Readers : View(r)' = View(r)
  BY DEF View
<1>2. \A r \in Readers : Reading(r)' <=> Reading(r)
  BY DEF Reading
<1>3. ASSUME NEW r \in Readers \ (excused \cup marks),
             \A d \in calls' : d.at = "sent" \/ r \notin Tells(d)
      PROVE  \A c \in calls : c.at = "sent" \/ r \notin Tells(c)
  <2> SUFFICES ASSUME NEW c \in calls, c.at # "sent"  PROVE r \notin Tells(c)
    OBVIOUS
  <2>1. PICK d \in calls' : d.at = c.at /\ d.control = c.control /\ d.kind = c.kind
    OBVIOUS
  <2>2. Tells(d) = Tells(c)
    BY <2>1 DEF Tells
  <2> QED  BY <1>3, <2>1, <2>2
<1> QED  BY <1>1, <1>2, <1>3 DEF HearInv

\* The answers: what is new among them is not one, or one that was there.
LEMMA AnswersRest ==
  ASSUME AnswersInv, UNCHANGED api,
         \A c \in calls' : \/ c.at \in {"sent", "failed"}
                           \/ \E d \in calls : /\ d.at = c.at /\ d.answer = c.answer
                                               /\ d.kind = c.kind /\ (c.clean => d.clean),
         \A c \in opening' : \/ c.at \in {"sent", "failed"}
                             \/ c \in opening
  PROVE  AnswersInv'
<1>1. \A kind : There(kind)' <=> There(kind)
  BY DEF There
<1>2. \A c \in calls' : IsSo(c)'
  BY <1>1 DEF AnswersInv, IsSo
<1>3. \A c \in opening' : IsSo(c)'
  BY <1>1 DEF AnswersInv, IsSo
<1> QED  BY <1>2, <1>3 DEF AnswersInv

\* The facts on the page, while neither they nor the API change.
LEMMA FactsRest ==
  ASSUME FactsInv, UNCHANGED api, tainted => tainted',
         \A c \in calls : Replaces(c) => \E d \in calls' : Replaces(d),
         page' # NoPage /\ page'.kind # "log" /\ page'.status = "ready" =>
           /\ page # NoPage /\ page.kind = page'.kind /\ page.status = page'.status
           /\ page.laundry = page'.laundry /\ page.retired = page'.retired /\ page.name = page'.name
  PROVE  FactsInv'
BY DEF FactsInv

\* A page that says not found.
LEMMA GoneRests ==
  ASSUME GoneInv, \A kind : There(kind)' => There(kind),
         page' # NoPage /\ page'.status = "notFound" =>
           page # NoPage /\ page.kind = page'.kind /\ page.status = page'.status
  PROVE  GoneInv'
BY DEF GoneInv

\* Nothing is there that was not.
LEMMA ThereRests ==
  ASSUME UNCHANGED api
  PROVE  \A kind : There(kind)' => There(kind)
BY DEF There

\* The bound of the writes, when none is begun.
LEMMA CountRests ==
  ASSUME DetailTypes, CountInv, UNCHANGED api, used'["writes"] = used["writes"],
         {c \in calls' : c.at = "sent"} \subseteq {c \in calls : c.at = "sent"}
  PROVE  CountInv'
<1> DEFINE S == {c \in calls : c.at = "sent"}
           T == {c \in calls' : c.at = "sent"}
<1>1. IsFiniteSet(S)
  BY FS_Subset DEF DetailTypes
<1>2. IsFiniteSet(T) /\ Cardinality(T) <= Cardinality(S)
  BY <1>1, FS_Subset
<1>3. Cardinality(S) \in Nat /\ Cardinality(T) \in Nat
  BY <1>1, <1>2, FS_CardinalityType
<1>4. api.wears \in Nat /\ api.shares \in Nat /\ used["writes"] \in Nat
  BY DEF DetailTypes, Apis
<1> HIDE DEF S, T
<1>5. api.wears + api.shares + Cardinality(S) <= used["writes"] /\ used["writes"] <= MaxWrites
  BY DEF CountInv, S
<1>6. api.wears + api.shares + Cardinality(T) <= used["writes"]
  BY <1>2, <1>3, <1>4, <1>5
<1> QED  BY <1>5, <1>6 DEF CountInv, T

\* An image of a finite set is no larger.
LEMMA ImageBound ==
  ASSUME NEW S, IsFiniteSet(S), NEW f, NEW T, \A t \in T : \E s \in S : t = f[s]
  PROVE  IsFiniteSet(T) /\ Cardinality(T) \in Nat /\ Cardinality(S) \in Nat
         /\ Cardinality(T) <= Cardinality(S)
<1> DEFINE U == {f[s] : s \in S}
           g == [s \in S |-> f[s]]
<1>1. g \in Surjection(S, U)
  <2>1. g \in [S -> U]
    OBVIOUS
  <2>2. \A u \in U : \E s \in S : g[s] = u
    OBVIOUS
  <2> HIDE DEF g, U
  <2> QED  BY <2>1, <2>2 DEF Surjection
<1>2. T \subseteq U
  OBVIOUS
<1> HIDE DEF U, g
<1>3. IsFiniteSet(U) /\ Cardinality(U) <= Cardinality(S)
  BY <1>1, FS_Surjection
<1>4. IsFiniteSet(T) /\ Cardinality(T) <= Cardinality(U)
  BY <1>2, <1>3, FS_Subset
<1>5. Cardinality(S) \in Nat /\ Cardinality(T) \in Nat /\ Cardinality(U) \in Nat
  BY <1>3, <1>4, FS_CardinalityType
<1> QED  BY <1>3, <1>4, <1>5

\* The calls with something about each of them changed, but not what they are for.
LEMMA CallsMapped ==
  ASSUME DetailTypes, ControlsInv, NEW f \in [calls -> Calls], calls' = {f[c] : c \in calls},
         \A c \in calls : Alike(f[c], c)
  PROVE  /\ calls' \in SUBSET Calls /\ IsFiniteSet(calls')
         /\ \A c, d \in calls' : Live(c, d.mount, d.control, d.sent) => c = d
         /\ \A m, control, sheet :
              (\E c \in calls' : Live(c, m, control, sheet)) <=>
              (\E c \in calls : Live(c, m, control, sheet))
         /\ \A c \in calls' : \E d \in calls : Alike(c, d)
<1>1. \A c \in calls' : \E d \in calls : c = f[d]
  OBVIOUS
<1>2. \A c \in calls : f[c] \in calls'
  OBVIOUS
<1>3. calls' \in SUBSET Calls
  BY <1>1
<1>4. IsFiniteSet(calls')
  BY <1>1, ImageBound DEF DetailTypes
<1>5. \A c \in calls : \A m, control, sheet : Live(f[c], m, control, sheet) <=> Live(c, m, control, sheet)
  BY DEF Live, Alike
<1>6. ASSUME NEW c \in calls', NEW d \in calls', Live(c, d.mount, d.control, d.sent)
      PROVE  c = d
  <2>1. PICK b \in calls : c = f[b]
    BY <1>1
  <2>2. PICK e \in calls : d = f[e]
    BY <1>1
  <2>3. d.mount = e.mount /\ d.control = e.control /\ d.sent = e.sent
    BY <2>2 DEF Alike
  <2>4. Live(b, e.mount, e.control, e.sent)
    BY <1>5, <1>6, <2>1, <2>3
  <2> QED  BY <2>1, <2>2, <2>4 DEF ControlsInv
<1>7. \A m, control, sheet : (\E c \in calls' : Live(c, m, control, sheet)) <=>
                             (\E c \in calls : Live(c, m, control, sheet))
  BY <1>1, <1>2, <1>5
<1> QED  BY <1>1, <1>3, <1>4, <1>6, <1>7

\* The controls, while the same calls are live.
LEMMA ControlsRest ==
  ASSUME DetailTypes, ControlsInv, UNCHANGED <<route, seen>>,
         used'["types"] \in Nat, used["types"] <= used'["types"],
         page' # NoPage => /\ page # NoPage /\ page'.mount = page.mount
                           /\ page'.sheet = page.sheet /\ page'.refs = page.refs,
         \A c, d \in calls' : Live(c, d.mount, d.control, d.sent) => c = d,
         \A m, control, sheet : (\E c \in calls' : Live(c, m, control, sheet)) <=>
                                (\E c \in calls : Live(c, m, control, sheet))
  PROVE  ControlsInv'
<1>1. page' # NoPage => page.sheet \in Nat /\ used["types"] \in Nat
  BY DEF DetailTypes, PageStates
<1>2. page' # NoPage => page'.sheet <= used'["types"] /\ page'.refs \subseteq Controls[route']
  BY <1>1 DEF ControlsInv
<1>3. ASSUME page' # NoPage, seen' = NoPage
      PROVE  page'.refs = {} /\ \A c \in calls' : c.mount # page'.mount
  <2>1. page.refs = {} /\ \A c \in calls : c.mount # page.mount
    BY <1>3 DEF ControlsInv
  <2>2. ASSUME NEW c \in calls', c.mount = page.mount
        PROVE  FALSE
    <3>1. Live(c, page.mount, c.control, c.sent)
      BY <2>2 DEF Live
    <3>2. PICK d \in calls : Live(d, page.mount, c.control, c.sent)
      BY <3>1
    <3> QED  BY <2>1, <3>2 DEF Live
  <2> QED  BY <1>3, <2>1, <2>2
<1>4. ASSUME page' # NoPage, seen' # NoPage
      PROVE  /\ \A control \in Controls[route'] :
                  control \in page'.refs <=> \E c \in calls' : Live(c, page'.mount, control, seen'.sheet)
             /\ page'.sheet # seen'.sheet => \A c \in calls' : ~Live(c, page'.mount, "share", page'.sheet)
  BY <1>4 DEF ControlsInv
<1>5. seen' # NoPage => seen'.sheet <= used'["types"]
  <2>1. seen # NoPage => seen.sheet \in Nat /\ used["types"] \in Nat
    BY DEF DetailTypes, PageStates
  <2> QED  BY <2>1 DEF ControlsInv
<1> QED  BY <1>2, <1>3, <1>4, <1>5 DEF ControlsInv

\* The screens and their requests, while no new one is begun.
LEMMA ScreensRest ==
  ASSUME DetailTypes, ScreensInv, UNCHANGED route,
         used'["visits"] \in Nat, used["visits"] <= used'["visits"],
         page' # NoPage => page # NoPage /\ page'.mount = page.mount /\ page'.kind = page.kind,
         UNCHANGED seen \/ seen' = page',
         \A c \in calls' : \E d \in calls :
           c.mount = d.mount /\ c.kind = d.kind /\ c.control = d.control,
         \A p \in opening' : \E q \in opening : p.mount = q.mount /\ p.kind = q.kind
  PROVE  ScreensInv'
<1>1. used["visits"] \in Nat
  BY DEF DetailTypes
<1>2. \A n \in Nat : n <= used["visits"] => n <= used'["visits"]
  BY <1>1
<1>3. page' # NoPage => page'.kind = route' /\ page'.mount <= used'["visits"]
  BY <1>2 DEF ScreensInv, DetailTypes, PageStates
<1>4. seen' # NoPage => seen'.kind = route' /\ seen'.mount <= used'["visits"]
  BY <1>2, <1>3 DEF ScreensInv, DetailTypes, PageStates
<1>5. page' # NoPage /\ seen' # NoPage => page'.mount = seen'.mount
  BY DEF ScreensInv
<1>6. ASSUME NEW c \in calls'
      PROVE  c.mount <= used'["visits"] /\ c.kind = route' /\ c.control \in Controls[route']
  <2>1. PICK d \in calls : c.mount = d.mount /\ c.kind = d.kind /\ c.control = d.control
    OBVIOUS
  <2>2. d.mount \in Nat
    BY DEF DetailTypes, Calls
  <2> QED  BY <1>2, <2>1, <2>2 DEF ScreensInv
<1>7. ASSUME NEW p \in opening'
      PROVE  p.mount <= used'["visits"] /\ p.kind = route'
  <2>1. PICK q \in opening : p.mount = q.mount /\ p.kind = q.kind
    OBVIOUS
  <2>2. q.mount \in Nat
    BY DEF DetailTypes, PageLoads
  <2> QED  BY <1>2, <2>1, <2>2 DEF ScreensInv
<1> QED  BY <1>3, <1>4, <1>5, <1>6, <1>7 DEF ScreensInv

\* What is used up of a bound.
LEMMA UseFacts ==
  ASSUME DetailTypes, NEW what \in {"visits", "writes", "types", "troubles"}, NEW max, Use(what, max)
  PROVE  /\ used' \in [{"visits", "writes", "types", "troubles"} -> Nat]
         /\ used'[what] = used[what] + 1 /\ used[what] < max
         /\ \A w \in {"visits", "writes", "types", "troubles"} :
              /\ used[w] \in Nat /\ used'[w] \in Nat /\ used[w] <= used'[w]
              /\ w # what => used'[w] = used[w]
<1>1. used \in [{"visits", "writes", "types", "troubles"} -> Nat]
  BY DEF DetailTypes
<1>2. used' = [used EXCEPT ![what] = used[what] + 1] /\ used[what] < max
  BY DEF Use
<1>3. used' \in [{"visits", "writes", "types", "troubles"} -> Nat]
  BY <1>1, <1>2
<1> QED  BY <1>1, <1>2, <1>3

\* What a call sends, when more may have been typed since.
LEMMA SentRests ==
  ASSUME NEW c \in Calls, NEW d \in Calls, SentIsOf(d), Alike(c, d),
         used["types"] \in Nat, used'["types"] \in Nat, used["types"] <= used'["types"]
  PROVE  SentIsOf(c)'
BY DEF SentIsOf, Alike

\* What is overtaken: each request, out of date if it is answered.
LEMMA OvertakenFacts ==
  ASSUME DetailTypes, NEW S \in SUBSET calls
  PROVE  /\ Overtaken(S) = {Stale(c) : c \in S}
         /\ Overtaken(opening) = {Stale(q) : q \in opening}
         /\ Overtaken(opening) \in SUBSET PageLoads
         /\ \A p \in Overtaken(opening) : \E q \in opening :
              /\ p.mount = q.mount /\ p.kind = q.kind /\ p.at = q.at
              /\ p.clean => p.at = "sent"
<1>1. Overtaken(S) = {Stale(c) : c \in S} /\ Overtaken(opening) = {Stale(q) : q \in opening}
  BY Zenon DEF Overtaken, Stale
<1>2. \A q \in opening : /\ Stale(q) \in PageLoads
                         /\ Stale(q).mount = q.mount /\ Stale(q).kind = q.kind /\ Stale(q).at = q.at
                         /\ Stale(q).clean => Stale(q).at = "sent"
  <2> TAKE q \in opening
  <2>1. q \in PageLoads /\ api \in Apis /\ "sent" \in Ends
    BY DEF DetailTypes, Ends
  <2> QED  BY <2>1, LoadFacts
<1> QED  BY <1>1, <1>2

\* Another device deletes the garment or the outfit.
LEMMA ElsewhereStep ==
  ASSUME DetailsInv, Elsewhere
  PROVE  DetailsInv'
<1> USE DEF DetailsInv
<1> DEFINE f == [c \in calls |-> Stale(c)]
<1>1. /\ Use("troubles", MaxTroubles) /\ calls' = Overtaken(calls) /\ opening' = Overtaken(opening)
      /\ excused' = Readers /\ tainted' /\ UNCHANGED <<route, page, seen, marks, lists, reads>>
      /\ \/ api' = [api EXCEPT !.item = FALSE]
         \/ api' = [api EXCEPT !.outfit = FALSE]
  BY DEF Elsewhere
<1>2. /\ used' \in [{"visits", "writes", "types", "troubles"} -> Nat]
      /\ used'["writes"] = used["writes"] /\ used'["types"] = used["types"]
      /\ used'["visits"] = used["visits"] /\ used["types"] \in Nat /\ used["visits"] \in Nat
  BY <1>1, UseFacts
<1>3. calls \in SUBSET Calls /\ api \in Apis
  BY DEF DetailTypes
<1>4. \A c \in calls : /\ Stale(c) \in Calls /\ Alike(Stale(c), c) /\ Stale(c).at = c.at
                       /\ Stale(c).clean => c.at = "sent"
  <2>1. "sent" \in Ends
    BY DEF Ends
  <2> QED  BY <1>3, <2>1, CallFacts
<1>5. /\ f \in [calls -> Calls] /\ \A c \in calls : f[c] = Stale(c)
      /\ calls' = {f[c] : c \in calls}
  BY <1>1, <1>4, OvertakenFacts
<1> HIDE DEF f
<1>6. /\ calls' \in SUBSET Calls /\ IsFiniteSet(calls')
      /\ \A c, d \in calls' : Live(c, d.mount, d.control, d.sent) => c = d
      /\ \A m, control, sheet :
           (\E c \in calls' : Live(c, m, control, sheet)) <=>
           (\E c \in calls : Live(c, m, control, sheet))
      /\ \A c \in calls' : \E d \in calls : Alike(c, d)
  BY <1>4, <1>5, CallsMapped
<1>7. /\ api' \in Apis /\ api'.wears = api.wears /\ api'.shares = api.shares
      /\ (api'.item => api.item) /\ (api'.outfit => api.outfit)
  <2>1. [api EXCEPT !.item = FALSE] \in Apis /\ [api EXCEPT !.outfit = FALSE] \in Apis
    BY <1>3 DEF Apis
  <2>2. /\ api'.wears = api.wears /\ api'.shares = api.shares
    BY <1>1, <1>3 DEF Apis
  <2>3. (api'.item => api.item) /\ (api'.outfit => api.outfit)
    BY <1>1, <1>3 DEF Apis
  <2> QED  BY <1>1, <2>1, <2>2, <2>3
<1>8. \A kind : There(kind)' => There(kind)
  BY <1>7 DEF There
<1>9. opening' \in SUBSET PageLoads /\ \A p \in opening' : \E q \in opening :
        p.mount = q.mount /\ p.kind = q.kind /\ p.at = q.at /\ (p.clean => p.at = "sent")
  BY <1>1, OvertakenFacts
<1>10. DetailTypes'
  <2>1. \A c \in calls' : SentIsOf(c)'
    BY <1>2, <1>3, <1>6, SentRests DEF DetailTypes
  <2> QED  BY <1>1, <1>2, <1>6, <1>7, <1>9, <2>1 DEF DetailTypes
<1>11. ScreensInv'
  BY <1>1, <1>2, <1>6, <1>9, ScreensRest DEF Alike
<1>12. CountInv'
  <2> DEFINE S == {c \in calls : c.at = "sent"}
             T == {c \in calls' : c.at = "sent"}
  <2>1. IsFiniteSet(S)
    BY FS_Subset DEF DetailTypes
  <2>2. \A t \in T : \E s \in S : t = f[s]
    BY <1>4, <1>5
  <2>3. Cardinality(T) \in Nat /\ Cardinality(S) \in Nat /\ Cardinality(T) <= Cardinality(S)
    BY <2>1, <2>2, ImageBound
  <2> HIDE DEF S, T
  <2>4. api.wears \in Nat /\ api.shares \in Nat /\ used["writes"] \in Nat
    BY <1>3 DEF Apis, DetailTypes
  <2>5. api.wears + api.shares + Cardinality(S) <= used["writes"] /\ used["writes"] <= MaxWrites
    BY DEF CountInv, S
  <2>6. api'.wears + api'.shares + Cardinality(T) <= used'["writes"]
    BY <1>2, <1>7, <2>3, <2>4, <2>5
  <2> QED  BY <1>2, <2>5, <2>6 DEF CountInv, T
<1>13. HearInv'
  BY <1>1 DEF HearInv
<1>14. AnswersInv'
  <2>1. ASSUME NEW c \in calls'
        PROVE  IsSo(c)'
    <3>1. PICK d \in calls : c = Stale(d)
      BY <1>5
    <3>2. c.at = d.at /\ c.kind = d.kind /\ (c.clean => c.at = "sent")
      BY <1>4, <3>1 DEF Alike
    <3> QED  BY <1>8, <3>2 DEF AnswersInv, IsSo
  <2>2. ASSUME NEW p \in opening'
        PROVE  IsSo(p)'
    BY <1>8, <1>9 DEF AnswersInv, IsSo
  <2> QED  BY <2>1, <2>2 DEF AnswersInv
<1>15. FactsInv' /\ GoneInv'
  BY <1>1, <1>8 DEF FactsInv, GoneInv
<1>16. ControlsInv'
  BY <1>1, <1>2, <1>6, ControlsRest
<1> QED  BY <1>10, <1>11, <1>12, <1>13, <1>14, <1>15, <1>16

\* A call of what is not there is refused.
LEMMA RefusedStep ==
  ASSUME DetailsInv, NEW c \in calls, ServeCall(c), ~There(c.kind)
  PROVE  DetailsInv'
<1> USE DEF DetailsInv
<1> DEFINE x == IF c.control = "log" THEN "failed" ELSE "gone"
           f == [d \in calls |-> IF d = c THEN Moved(c, x) ELSE d]
<1>1. /\ c.at = "sent" /\ calls' = (calls \ {c}) \cup {Moved(c, x)}
      /\ UNCHANGED <<route, api, opening, page, seen, marks, lists, reads, used, excused, tainted>>
  BY Zenon DEF ServeCall, Moved
<1>2. calls \in SUBSET Calls /\ api \in Apis /\ used["types"] \in Nat /\ used["visits"] \in Nat
  BY DEF DetailTypes
<1>3. /\ Moved(c, x) \in Calls /\ Alike(Moved(c, x), c) /\ Moved(c, x).at = x
      /\ x \in {"failed", "gone"}
  BY <1>2, CallFacts DEF Ends
<1> HIDE DEF x
<1>4. /\ f \in [calls -> Calls] /\ \A d \in calls : f[d] = IF d = c THEN Moved(c, x) ELSE d
      /\ calls' = {f[d] : d \in calls} /\ \A d \in calls : Alike(f[d], d)
  BY <1>1, <1>2, <1>3 DEF Alike
<1> HIDE DEF f
<1>5. /\ calls' \in SUBSET Calls /\ IsFiniteSet(calls')
      /\ \A b, d \in calls' : Live(b, d.mount, d.control, d.sent) => b = d
      /\ \A m, control, sheet :
           (\E b \in calls' : Live(b, m, control, sheet)) <=>
           (\E b \in calls : Live(b, m, control, sheet))
      /\ \A b \in calls' : \E d \in calls : Alike(b, d)
  BY <1>4, CallsMapped
<1>6. DetailTypes'
  <2>1. \A b \in calls' : SentIsOf(b)'
    BY <1>1, <1>2, <1>5, SentRests DEF DetailTypes
  <2> QED  BY <1>1, <1>2, <1>5, <2>1 DEF DetailTypes
<1>7. ScreensInv'
  BY <1>1, <1>2, <1>5, ScreensRest DEF Alike
<1>8. CountInv'
  <2>1. {b \in calls' : b.at = "sent"} \subseteq {b \in calls : b.at = "sent"}
    BY <1>1, <1>3
  <2> QED  BY <1>1, <2>1, CountRests
<1>9. HearInv'
  BY <1>1, HearRests
<1>10. AnswersInv'
  <2>1. IsSo(Moved(c, x))'
    <3>1. Moved(c, x).kind = c.kind
      BY <1>3 DEF Alike
    <3>2. ~There(c.kind)'
      BY <1>1 DEF There
    <3> QED  BY <1>3, <3>1, <3>2 DEF IsSo
  <2>2. \A b \in calls \ {c} : IsSo(b)'
    BY <1>1 DEF AnswersInv, IsSo, There
  <2>3. \A q \in opening' : IsSo(q)'
    BY <1>1 DEF AnswersInv, IsSo, There
  <2> QED  BY <1>1, <2>1, <2>2, <2>3 DEF AnswersInv
<1>11. FactsInv'
  <2>1. \A d \in calls : Replaces(d) => d \in calls'
    BY <1>1 DEF Replaces
  <2> QED  BY <1>1, <2>1, FactsRest
<1>12. GoneInv'
  BY <1>1 DEF GoneInv, There
<1>13. ControlsInv'
  BY <1>1, <1>2, <1>5, ControlsRest
<1> QED  BY <1>6, <1>7, <1>8, <1>9, <1>10, <1>11, <1>12, <1>13

\* A call is served: what it writes, its answer says, and every other answer on
\* its way is out of date.
LEMMA WriteStep ==
  ASSUME DetailsInv, NEW c \in calls, ServeCall(c), There(c.kind)
  PROVE  DetailsInv'
<1> USE DEF DetailsInv
<1> DEFINE a == Answered(c, "done", api')
           f == [d \in calls |-> IF d = c THEN a ELSE Stale(d)]
<1>1. /\ c.at = "sent" /\ api' = Written(c)
      /\ calls' = Overtaken(calls \ {c}) \cup {a} /\ opening' = Overtaken(opening)
      /\ UNCHANGED <<route, page, seen, marks, lists, reads, used, excused, tainted>>
  BY Zenon DEF ServeCall, Answered
<1>2. /\ calls \in SUBSET Calls /\ api \in Apis /\ used["types"] \in Nat /\ used["visits"] \in Nat
      /\ SentIsOf(c) /\ c.kind = route /\ c.control \in Controls[c.kind] /\ c \in Calls
  BY DEF DetailTypes, ScreensInv
<1>20. /\ used'["types"] \in Nat /\ used["types"] <= used'["types"]
       /\ used'["visits"] \in Nat /\ used["visits"] <= used'["visits"]
       /\ UNCHANGED <<route, seen, page>>
  BY <1>1, <1>2
<1>3. /\ api' \in Apis
      /\ api'.wears + api'.shares <= api.wears + api.shares + 1
      /\ (api'.item => api.item) /\ (api'.outfit => api.outfit)
      /\ c.control \notin {"laundry", "retire", "rename"} =>
           /\ api'.laundry = api.laundry /\ api'.retired = api.retired /\ api'.name = api.name
  BY <1>1, <1>2, WrittenFacts
<1>4. \A d \in calls : /\ Stale(d) \in Calls /\ Alike(Stale(d), d) /\ Stale(d).at = d.at
                       /\ Stale(d).clean => d.at = "sent"
  <2>1. "sent" \in Ends
    BY DEF Ends
  <2> QED  BY <1>2, <2>1, CallFacts
<1>5. a \in Calls /\ Alike(a, c) /\ a.at = "done" /\ a.answer = api'
  <2>1. "done" \in Ends
    BY DEF Ends
  <2>2. c \in Calls /\ api' \in Apis
    BY <1>2, <1>3
  <2> QED  BY <2>1, <2>2, AnsweredFacts
<1> HIDE DEF a
<1>6. /\ f \in [calls -> Calls] /\ \A d \in calls : f[d] = IF d = c THEN a ELSE Stale(d)
      /\ calls' = {f[d] : d \in calls} /\ \A d \in calls : Alike(f[d], d)
  <2>1. Overtaken(calls \ {c}) = {Stale(d) : d \in calls \ {c}}
    BY OvertakenFacts
  <2>2. calls' = {f[d] : d \in calls}
    BY <1>1, <2>1
  <2> QED  BY <1>4, <1>5, <2>2
<1> HIDE DEF f
<1>7. /\ calls' \in SUBSET Calls /\ IsFiniteSet(calls')
      /\ \A b, d \in calls' : Live(b, d.mount, d.control, d.sent) => b = d
      /\ \A m, control, sheet :
           (\E b \in calls' : Live(b, m, control, sheet)) <=>
           (\E b \in calls : Live(b, m, control, sheet))
      /\ \A b \in calls' : \E d \in calls : Alike(b, d)
  BY <1>6, CallsMapped
<1>8. \A kind : There(kind)' => There(kind)
  BY <1>3 DEF There
<1>9. opening' \in SUBSET PageLoads /\ \A p \in opening' : \E q \in opening :
        p.mount = q.mount /\ p.kind = q.kind /\ p.at = q.at /\ (p.clean => p.at = "sent")
  BY <1>1, OvertakenFacts
<1>10. \A d \in calls' : d = a \/ \E b \in calls \ {c} : d = Stale(b)
  BY <1>6
<1>11. a \in calls' /\ \A b \in calls \ {c} : Stale(b) \in calls'
  BY <1>6
<1>12. DetailTypes'
  <2>1. \A b \in calls' : SentIsOf(b)'
    BY <1>2, <1>7, <1>20, SentRests DEF DetailTypes
  <2> QED  BY <1>1, <1>3, <1>7, <1>9, <2>1 DEF DetailTypes
<1>13. ScreensInv'
  BY <1>7, <1>9, <1>20, ScreensRest DEF Alike
<1>14. CountInv'
  <2> DEFINE S == {d \in calls : d.at = "sent"}
             T == {d \in calls' : d.at = "sent"}
  <2>1. IsFiniteSet(S) /\ c \in S
    BY <1>1, FS_Subset DEF DetailTypes
  <2>2. IsFiniteSet(S \ {c}) /\ Cardinality(S \ {c}) = Cardinality(S) - 1
    BY <2>1, FS_RemoveElement
  <2>3. \A t \in T : \E s \in S \ {c} : t = f[s]
    <3> TAKE t \in T
    <3>1. PICK b \in calls : t = f[b]
      BY <1>6
    <3>2. b # c
      BY <1>5, <1>6, <3>1
    <3>3. b.at = "sent"
      BY <1>4, <1>6, <3>1, <3>2
    <3> QED  BY <3>1, <3>2, <3>3
  <2>4. /\ Cardinality(T) \in Nat /\ Cardinality(S \ {c}) \in Nat
        /\ Cardinality(T) <= Cardinality(S \ {c})
    <3> HIDE DEF S, T
    <3> QED  BY <2>2, <2>3, ImageBound
  <2>5. Cardinality(S) \in Nat
    BY <2>1, FS_CardinalityType
  <2> HIDE DEF S, T
  <2>6. /\ api.wears \in Nat /\ api.shares \in Nat /\ used["writes"] \in Nat
        /\ api'.wears \in Nat /\ api'.shares \in Nat
    BY <1>2, <1>3 DEF Apis, DetailTypes
  <2>7. api.wears + api.shares + Cardinality(S) <= used["writes"] /\ used["writes"] <= MaxWrites
    BY DEF CountInv, S
  <2>8. api'.wears + api'.shares + Cardinality(T) <= used["writes"]
    BY <1>3, <2>2, <2>4, <2>5, <2>6, <2>7
  <2> QED  BY <1>1, <2>7, <2>8 DEF CountInv, T
<1>15. HearInv'
  <2>1. ASSUME NEW r \in Readers \ (excused' \cup marks'),
               \A d \in calls' : d.at = "sent" \/ r \notin Tells(d)
        PROVE  IF Reading(r)' THEN \A q \in reads' : q.reader = r /\ q.at = "done" => q.view = View(r)'
               ELSE lists'[r] = View(r)'
    <3>1. r \notin Tells(a) /\ a.control = c.control /\ a.kind = c.kind
      BY <1>5, <1>11, <2>1 DEF Alike
    <3>2. View(r)' = View(r)
      BY <1>1, <1>2, <1>5, <3>1, WrittenIsTold
    <3>3. \A b \in calls : b.at = "sent" \/ r \notin Tells(b)
      <4> SUFFICES ASSUME NEW b \in calls, b.at # "sent"  PROVE r \notin Tells(b)
        OBVIOUS
      <4>1. b # c /\ Stale(b) \in calls' /\ Stale(b).at = b.at
        BY <1>1, <1>4, <1>11
      <4>2. Tells(Stale(b)) = Tells(b)
        BY <1>4 DEF Tells, Alike
      <4> QED  BY <2>1, <4>1, <4>2
    <3>4. Reading(r)' <=> Reading(r)
      BY <1>1 DEF Reading
    <3> QED  BY <1>1, <2>1, <3>2, <3>3, <3>4 DEF HearInv
  <2> QED  BY <1>1, <2>1 DEF HearInv
<1>16. AnswersInv'
  <2>1. ASSUME NEW d \in calls'
        PROVE  IsSo(d)'
    <3>1. CASE d = a
      BY <1>5, <3>1 DEF IsSo
    <3>2. CASE \E b \in calls \ {c} : d = Stale(b)
      <4>1. PICK b \in calls : d = Stale(b)
        BY <3>2
      <4>2. d.at = b.at /\ d.kind = b.kind /\ (d.clean => d.at = "sent")
        BY <1>4, <4>1 DEF Alike
      <4> QED  BY <1>8, <4>2 DEF AnswersInv, IsSo
    <3> QED  BY <1>10, <3>1, <3>2
  <2>2. ASSUME NEW p \in opening'
        PROVE  IsSo(p)'
    BY <1>8, <1>9 DEF AnswersInv, IsSo
  <2> QED  BY <2>1, <2>2 DEF AnswersInv
<1>17. FactsInv'
  <2>1. CASE c.control \in {"laundry", "retire", "rename"}
    <3>1. Replaces(a) /\ a \in calls'
      BY <1>5, <1>11, <2>1 DEF Replaces, Alike
    <3> QED  BY <3>1 DEF FactsInv
  <2>2. CASE c.control \notin {"laundry", "retire", "rename"}
    <3>1. \A b \in calls : Replaces(b) => \E d \in calls' : Replaces(d)
      <4> SUFFICES ASSUME NEW b \in calls, Replaces(b)  PROVE Replaces(Stale(b)) /\ Stale(b) \in calls'
        OBVIOUS
      <4> QED  BY <1>1, <1>4, <1>11 DEF Replaces, Alike
    <3> QED  BY <1>1, <1>3, <2>2, <3>1 DEF FactsInv
  <2> QED  BY <2>1, <2>2
<1>18. GoneInv'
  BY <1>1, <1>8 DEF GoneInv
<1>19. ControlsInv'
  BY <1>7, <1>20, ControlsRest
<1> QED  BY <1>12, <1>13, <1>14, <1>15, <1>16, <1>17, <1>18, <1>19

----------------------------------------------------------------------------
(***************************************************************************)
(* The steps of the screens that begin and end no write.                   *)
(***************************************************************************)
\* What they leave as it was.
LEMMA KeptStep ==
  ASSUME DetailsInv, UNCHANGED <<route, api, calls, marks, lists, reads, excused>>,
         used' \in [{"visits", "writes", "types", "troubles"} -> Nat],
         used'["writes"] = used["writes"], used["types"] <= used'["types"],
         page' \in PageStates \cup {NoPage}, seen' \in PageStates \cup {NoPage},
         opening' \in SUBSET PageLoads
  PROVE  DetailTypes' /\ CountInv' /\ HearInv'
<1> USE DEF DetailsInv
<1>1. \A c \in calls : SentIsOf(c)'
  <2>1. used["types"] \in Nat /\ used'["types"] \in Nat
    BY DEF DetailTypes
  <2>2. \A c \in calls : SentIsOf(c)
    BY DEF DetailTypes
  <2>3. \A n \in Nat : n <= used["types"] => n <= used'["types"]
    BY <2>1
  <2> QED  BY <2>2, <2>3 DEF SentIsOf
<1>2. DetailTypes'
  BY <1>1 DEF DetailTypes
<1>3. CountInv'
  <2>1. {c \in calls' : c.at = "sent"} \subseteq {c \in calls : c.at = "sent"}
    OBVIOUS
  <2> QED  BY <2>1, CountRests
<1>4. HearInv'
  BY HearRests
<1> QED  BY <1>2, <1>3, <1>4

\* The controls, when the calls are the same.
LEMMA ControlsKept ==
  ASSUME DetailTypes, ControlsInv, UNCHANGED <<route, seen, calls>>,
         used'["types"] \in Nat, used["types"] <= used'["types"],
         page' # NoPage => /\ page # NoPage /\ page'.mount = page.mount
                           /\ page'.sheet = page.sheet /\ page'.refs = page.refs
  PROVE  ControlsInv'
<1>1. \A c, d \in calls' : Live(c, d.mount, d.control, d.sent) => c = d
  BY DEF ControlsInv
<1>2. \A m, control, sheet : (\E c \in calls' : Live(c, m, control, sheet)) <=>
                             (\E c \in calls : Live(c, m, control, sheet))
  OBVIOUS
<1> QED  BY <1>1, <1>2, ControlsRest

\* A screen is known by its visit.
LEMMA MountFacts ==
  ASSUME DetailTypes
  PROVE  /\ page.mount > 0 <=> page # NoPage
         /\ seen.mount > 0 <=> seen # NoPage
         /\ page # NoPage => page \in PageStates /\ page.mount \in Nat
         /\ seen # NoPage => seen \in PageStates /\ seen.mount \in Nat
         /\ \A q \in opening : page.mount = q.mount => page # NoPage
         /\ \A c \in calls : page.mount = c.mount => page # NoPage
<1>1. NoPage.mount = 0
  BY DEF NoPage
<1>2. \A p \in PageStates : p.mount \in Nat \ {0}
  BY DEF PageStates
<1>3. \A q \in opening : q.mount \in Nat \ {0}
  BY DEF DetailTypes, PageLoads
<1>4. \A c \in calls : c.mount \in Nat \ {0}
  BY DEF DetailTypes, Calls
<1> QED  BY <1>1, <1>2, <1>3, <1>4 DEF DetailTypes

\* React commits the page.
LEMMA CommitStep ==
  ASSUME DetailsInv, CommitPage
  PROVE  DetailsInv'
<1> USE DEF DetailsInv
<1> DEFINE shut == seen.mount > 0 /\ page.mount > 0 /\ seen.sheet # page.sheet
           free == [page EXCEPT !.refs = page.refs \ {"share"}]
<1>1. /\ page' = IF shut THEN free ELSE page
      /\ seen' = page'
      /\ UNCHANGED <<route, api, calls, opening, marks, lists, reads, used, excused, tainted>>
  BY Zenon DEF CommitPage
<1>2. shut => page # NoPage /\ seen # NoPage /\ page \in PageStates /\ page.mount = seen.mount
  BY MountFacts DEF ScreensInv
<1>3. page # NoPage /\ seen # NoPage /\ ~shut => page.sheet = seen.sheet
  BY MountFacts
<1>4. page \in PageStates =>
        /\ free \in PageStates /\ free.mount = page.mount /\ free.kind = page.kind
        /\ free.sheet = page.sheet /\ free.status = page.status /\ free.name = page.name
        /\ free.refs = page.refs \ {"share"}
  BY DEF PageStates
<1>5. page \in PageStates => free.laundry = page.laundry /\ free.retired = page.retired
  BY DEF PageStates
<1>6. NoPage \notin PageStates
  BY DEF NoPage, PageStates
<1> HIDE DEF shut, free
<1>7. page' \in PageStates \cup {NoPage} /\ seen' \in PageStates \cup {NoPage}
  BY <1>1, <1>2, <1>4 DEF DetailTypes
<1>8. /\ page' # NoPage <=> page # NoPage
      /\ page # NoPage => /\ page'.mount = page.mount /\ page'.kind = page.kind
                          /\ page'.sheet = page.sheet /\ page'.status = page.status
                          /\ page'.laundry = page.laundry /\ page'.retired = page.retired
                          /\ page'.name = page.name
                          /\ page'.refs = IF shut THEN page.refs \ {"share"} ELSE page.refs
  BY <1>1, <1>2, <1>4, <1>5, <1>6 DEF DetailTypes
<1>9. used["types"] \in Nat /\ used["visits"] \in Nat
  BY DEF DetailTypes
<1>10. DetailTypes' /\ CountInv' /\ HearInv'
  <2>1. /\ used' \in [{"visits", "writes", "types", "troubles"} -> Nat] /\ opening' \in SUBSET PageLoads
        /\ used'["writes"] = used["writes"] /\ used["types"] <= used'["types"]
    BY <1>1, <1>9 DEF DetailTypes
  <2> QED  BY <1>1, <1>7, <2>1, KeptStep
<1>11. ScreensInv'
  BY <1>1, <1>8, <1>9, ScreensRest
<1>12. AnswersInv'
  BY <1>1, AnswersRest
<1>13. FactsInv' /\ GoneInv'
  BY <1>1, <1>8 DEF FactsInv, GoneInv, There
<1>14. ControlsInv'
  <2>1. page' # NoPage => page'.sheet <= used'["types"] /\ page'.refs \subseteq Controls[route']
    BY <1>1, <1>8 DEF ControlsInv
  <2>2. ASSUME page' # NoPage, NEW control \in Controls[route]
        PROVE  control \in page'.refs <=> \E c \in calls : Live(c, page.mount, control, page.sheet)
    <3>1. CASE seen = NoPage
      <4>1. ~shut /\ page.refs = {} /\ \A c \in calls : c.mount # page.mount
        BY <1>2, <1>8, <2>2, <3>1 DEF ControlsInv
      <4> QED  BY <1>8, <2>2, <4>1 DEF Live
    <3>2. CASE seen # NoPage /\ ~shut
      BY <1>3, <1>8, <2>2, <3>2 DEF ControlsInv
    <3>3. CASE seen # NoPage /\ shut /\ control # "share"
      <4>1. \A c \in calls : Live(c, page.mount, control, page.sheet)
                             <=> Live(c, page.mount, control, seen.sheet)
        BY <3>3 DEF Live
      <4> QED  BY <1>8, <2>2, <3>3, <4>1 DEF ControlsInv
    <3>4. CASE seen # NoPage /\ shut /\ control = "share"
      <4>1. page.sheet # seen.sheet
        BY <3>4 DEF shut
      <4>2. \A c \in calls : ~Live(c, page.mount, "share", page.sheet)
        BY <1>8, <2>2, <3>4, <4>1 DEF ControlsInv
      <4> QED  BY <1>8, <2>2, <3>4, <4>2
    <3> QED  BY <3>1, <3>2, <3>3, <3>4
  <2>3. \A c, d \in calls' : Live(c, d.mount, d.control, d.sent) => c = d
    BY <1>1 DEF ControlsInv
  <2>4. ASSUME page' # NoPage, seen' # NoPage
        PROVE  /\ \A control \in Controls[route'] :
                    control \in page'.refs <=> \E c \in calls' : Live(c, page'.mount, control, seen'.sheet)
               /\ page'.sheet = seen'.sheet
    BY <1>1, <1>8, <2>2, <2>4
  <2> QED  BY <1>1, <2>1, <2>3, <2>4 DEF ControlsInv
<1> QED  BY <1>10, <1>11, <1>12, <1>13, <1>14

\* The back button.
LEMMA LeaveStep ==
  ASSUME DetailsInv, LeavePage
  PROVE  DetailsInv'
<1> USE DEF DetailsInv
<1>1. /\ page' = NoPage
      /\ UNCHANGED <<route, api, seen, calls, opening, marks, lists, reads, used, excused, tainted>>
  BY DEF LeavePage
<1>2. used["types"] \in Nat /\ used["visits"] \in Nat
  BY DEF DetailTypes
<1>3. DetailTypes' /\ CountInv' /\ HearInv'
  <2>1. /\ used' \in [{"visits", "writes", "types", "troubles"} -> Nat] /\ opening' \in SUBSET PageLoads
        /\ used'["writes"] = used["writes"] /\ used["types"] <= used'["types"]
        /\ page' \in PageStates \cup {NoPage} /\ seen' \in PageStates \cup {NoPage}
    BY <1>1, <1>2 DEF DetailTypes
  <2> QED  BY <1>1, <2>1, KeptStep
<1>4. ScreensInv'
  BY <1>1, <1>2, ScreensRest
<1>5. AnswersInv'
  BY <1>1, AnswersRest
<1>6. FactsInv' /\ GoneInv'
  BY <1>1 DEF FactsInv, GoneInv
<1>7. ControlsInv'
  BY <1>1, <1>2, ControlsKept
<1> QED  BY <1>3, <1>4, <1>5, <1>6, <1>7

\* A screen that is opened with a status.
Opened(n, kind, s) == [Open(n, kind) EXCEPT !.status = s]

\* A screen as it is opened.
LEMMA OpenFacts ==
  ASSUME NEW n \in Nat \ {0}, NEW kind \in Screens, NEW s \in {"loading", "ready"}
  PROVE  /\ Opened(n, kind, s) \in PageStates
         /\ Opened(n, kind, s).mount = n /\ Opened(n, kind, s).kind = kind
         /\ Opened(n, kind, s).status = s
         /\ Opened(n, kind, s).sheet = 0 /\ Opened(n, kind, s).refs = {}
<1> DEFINE o == Open(n, kind)
<1>1. o \in PageStates
  BY DEF Open, PageStates, Flags, Names, Drafts, NoDraft, Occasions, NoOccasion, Widgets
<1>2. o.mount = n /\ o.kind = kind /\ o.status = "loading" /\ o.sheet = 0 /\ o.refs = {}
  BY DEF Open
<1> HIDE DEF o
<1> DEFINE p == [o EXCEPT !.status = s]
<1>3. p \in PageStates
  BY <1>1 DEF PageStates
<1>4. p.mount = n /\ p.kind = kind /\ p.status = s /\ p.sheet = 0 /\ p.refs = {}
  BY <1>1, <1>2 DEF PageStates
<1>5. p = Opened(n, kind, s)
  BY Zenon DEF Opened, o
<1> HIDE DEF p
<1> QED  BY <1>3, <1>4, <1>5

\* A screen that loads is as it is made.
LEMMA OpenLoads ==
  ASSUME NEW n \in Nat \ {0}, NEW kind \in Screens
  PROVE  Opened(n, kind, "loading") = Open(n, kind)
<1> DEFINE o == Open(n, kind)
<1>1. o \in PageStates
  BY DEF Open, PageStates, Flags, Names, Drafts, NoDraft, Occasions, NoOccasion, Widgets
<1>2. o.status = "loading"
  BY DEF Open
<1> HIDE DEF o
<1>3. [o EXCEPT !.status = "loading"] = o
  BY <1>1, <1>2 DEF PageStates
<1> QED  BY Zenon, <1>3 DEF Opened, o

\* A screen is opened.
LEMMA OpenStep ==
  ASSUME DetailsInv, OpenPage
  PROVE  DetailsInv'
<1> USE DEF DetailsInv
<1> DEFINE v == used'["visits"]
           s == IF route = "log" THEN "ready" ELSE "loading"
           q == [mount |-> v, kind |-> route, at |-> "sent", clean |-> TRUE, answer |-> api]
<1>1. /\ page = NoPage /\ seen = NoPage /\ Use("visits", MaxVisits)
      /\ UNCHANGED <<route, api, seen, calls, marks, lists, reads, excused, tainted>>
  BY DEF OpenPage
<1>2. /\ used' \in [{"visits", "writes", "types", "troubles"} -> Nat]
      /\ used'["writes"] = used["writes"] /\ used'["types"] = used["types"]
      /\ v = used["visits"] + 1 /\ used["types"] \in Nat /\ used["visits"] \in Nat
      /\ used["types"] <= used'["types"]
  BY <1>1, UseFacts
<1>3. v \in Nat \ {0} /\ used["visits"] < v
  BY <1>2
<1>4. route \in Screens /\ api \in Apis
  BY DEF DetailTypes
<1>5. page' = Opened(v, route, s)
  <2>1. page' = IF route = "log" THEN Opened(v, route, "ready") ELSE Open(v, route)
    BY Zenon DEF OpenPage, Opened
  <2>2. Opened(v, route, "loading") = Open(v, route)
    <3> HIDE DEF v
    <3> QED  BY <1>3, <1>4, OpenLoads
  <2> QED  BY <2>1, <2>2
<1>6. opening' = opening \/ opening' = opening \cup {q}
  BY Zenon DEF OpenPage, Load
<1> HIDE DEF v
<1>7. /\ page' \in PageStates /\ page'.mount = v /\ page'.kind = route /\ page'.status = s
      /\ page'.sheet = 0 /\ page'.refs = {}
  <2>1. s \in {"loading", "ready"}
    OBVIOUS
  <2> HIDE DEF s
  <2> QED  BY <1>3, <1>4, <1>5, <2>1, OpenFacts
<1>8. q \in PageLoads /\ q.at = "sent" /\ q.mount = v /\ q.kind = route
  BY <1>3, <1>4 DEF PageLoads, Ends
<1> HIDE DEF q
<1>9. DetailTypes' /\ CountInv' /\ HearInv'
  <2>1. seen' \in PageStates \cup {NoPage} /\ opening' \in SUBSET PageLoads
    BY <1>1, <1>6, <1>8 DEF DetailTypes
  <2> QED  BY <1>1, <1>2, <1>7, <2>1, KeptStep
<1>10. ScreensInv'
  <2>1. page'.kind = route' /\ page'.mount <= used'["visits"] /\ seen' = NoPage
    BY <1>1, <1>3, <1>7 DEF v
  <2>2. \A n \in Nat : n <= used["visits"] => n <= used'["visits"]
    BY <1>2 DEF v
  <2>3. \A c \in calls' : c.mount <= used'["visits"] /\ c.kind = route' /\ c.control \in Controls[route']
    BY <1>1, <2>2 DEF ScreensInv, DetailTypes, Calls
  <2>4. \A p \in opening' : p.mount <= used'["visits"] /\ p.kind = route'
    <3>1. \A p \in opening : p.mount <= used'["visits"] /\ p.kind = route
      BY <2>2 DEF ScreensInv, DetailTypes, PageLoads
    <3>2. v <= used'["visits"]
      BY <1>3 DEF v
    <3> QED  BY <1>1, <1>6, <1>8, <3>1, <3>2
  <2> QED  BY <2>1, <2>3, <2>4 DEF ScreensInv
<1>11. AnswersInv'
  BY <1>1, <1>6, <1>8, AnswersRest
<1>12. FactsInv' /\ GoneInv'
  BY <1>7 DEF FactsInv, GoneInv
<1>13. ControlsInv'
  <2>1. page'.sheet <= used'["types"] /\ page'.refs \subseteq Controls[route']
    BY <1>2, <1>7
  <2>2. \A c \in calls' : c.mount # page'.mount
    BY <1>1, <1>2, <1>3, <1>7 DEF ScreensInv, DetailTypes, Calls
  <2>3. \A c, d \in calls' : Live(c, d.mount, d.control, d.sent) => c = d
    BY <1>1 DEF ControlsInv
  <2> QED  BY <1>1, <1>7, <2>1, <2>2, <2>3 DEF ControlsInv
<1> QED  BY <1>9, <1>10, <1>11, <1>12, <1>13

\* The retry of a load that failed.
LEMMA RetryStep ==
  ASSUME DetailsInv, RetryPage
  PROVE  DetailsInv'
<1> USE DEF DetailsInv
<1> DEFINE q == [mount |-> page.mount, kind |-> page.kind, at |-> "sent", clean |-> TRUE, answer |-> api]
<1>1. /\ seen.mount > 0 /\ seen = page /\ Use("visits", MaxVisits)
      /\ page' = [page EXCEPT !.status = "loading"] /\ opening' = opening \cup {q}
      /\ UNCHANGED <<route, api, seen, calls, marks, lists, reads, excused, tainted>>
  BY Zenon DEF RetryPage, Load
<1>2. /\ used' \in [{"visits", "writes", "types", "troubles"} -> Nat]
      /\ used'["writes"] = used["writes"] /\ used'["types"] = used["types"]
      /\ used'["visits"] = used["visits"] + 1 /\ used["types"] \in Nat /\ used["visits"] \in Nat
  BY <1>1, UseFacts
<1>3. used'["visits"] \in Nat /\ used["visits"] <= used'["visits"] /\ used'["types"] \in Nat
      /\ used["types"] <= used'["types"]
  BY <1>2
<1>4. page # NoPage /\ page \in PageStates /\ page.mount \in Nat \ {0} /\ page.kind = route
  BY <1>1, MountFacts DEF ScreensInv
<1>5. /\ page' \in PageStates /\ page'.mount = page.mount /\ page'.kind = page.kind
      /\ page'.status = "loading" /\ page'.sheet = page.sheet /\ page'.refs = page.refs
  BY <1>1, <1>4 DEF PageStates
<1>6. q \in PageLoads /\ q.at = "sent" /\ q.mount = page.mount /\ q.kind = page.kind
  BY <1>4 DEF PageLoads, Ends, DetailTypes
<1> HIDE DEF q
<1>7. DetailTypes' /\ CountInv' /\ HearInv'
  <2>1. seen' \in PageStates \cup {NoPage} /\ opening' \in SUBSET PageLoads
    BY <1>1, <1>6 DEF DetailTypes
  <2> QED  BY <1>1, <1>2, <1>3, <1>5, <2>1, KeptStep
<1>8. ScreensInv'
  <2>1. \A n \in Nat : n <= used["visits"] => n <= used'["visits"]
    BY <1>2
  <2>2. /\ page'.kind = route' /\ page'.mount <= used'["visits"]
        /\ seen'.kind = route' /\ seen'.mount <= used'["visits"] /\ page'.mount = seen'.mount
    BY <1>1, <1>4, <1>5, <2>1 DEF ScreensInv
  <2>3. \A c \in calls' : c.mount <= used'["visits"] /\ c.kind = route' /\ c.control \in Controls[route']
    BY <1>1, <2>1 DEF ScreensInv, DetailTypes, Calls
  <2>4. \A p \in opening' : p.mount <= used'["visits"] /\ p.kind = route'
    <3>1. \A p \in opening : p.mount <= used'["visits"] /\ p.kind = route
      BY <2>1 DEF ScreensInv, DetailTypes, PageLoads
    <3>2. page.mount <= used'["visits"]
      BY <1>4, <2>1 DEF ScreensInv
    <3> QED  BY <1>1, <1>4, <1>6, <3>1, <3>2
  <2> QED  BY <2>2, <2>3, <2>4 DEF ScreensInv
<1>9. AnswersInv'
  BY <1>1, <1>6, AnswersRest
<1>10. FactsInv' /\ GoneInv'
  BY <1>5 DEF FactsInv, GoneInv
<1>11. ControlsInv'
  BY <1>1, <1>3, <1>4, <1>5, ControlsKept
<1> QED  BY <1>7, <1>8, <1>9, <1>10, <1>11

\* The load of a screen is served.
LEMMA ServePageStep ==
  ASSUME DetailsInv, NEW q \in opening, ServePage(q)
  PROVE  DetailsInv'
<1> USE DEF DetailsInv
<1> DEFINE x == IF There(q.kind) THEN "done" ELSE "gone"
           a == Answered(q, x, api)
<1>1. /\ opening' = (opening \ {q}) \cup {a}
      /\ UNCHANGED <<route, api, page, seen, calls, marks, lists, reads, used, excused, tainted>>
  BY Zenon DEF ServePage, Answered
<1>2. q \in PageLoads /\ api \in Apis /\ x \in Ends /\ used["types"] \in Nat /\ used["visits"] \in Nat
  BY DEF DetailTypes, Ends
<1>3. a \in PageLoads /\ a.at = x /\ a.answer = api /\ a.mount = q.mount /\ a.kind = q.kind
  <2> HIDE DEF x
  <2> QED  BY <1>2, LoadAnswered
<1> HIDE DEF a
<1>4. DetailTypes' /\ CountInv' /\ HearInv'
  <2>1. /\ used' \in [{"visits", "writes", "types", "troubles"} -> Nat] /\ opening' \in SUBSET PageLoads
        /\ used'["writes"] = used["writes"] /\ used["types"] <= used'["types"]
        /\ page' \in PageStates \cup {NoPage} /\ seen' \in PageStates \cup {NoPage}
    BY <1>1, <1>2, <1>3 DEF DetailTypes
  <2> QED  BY <1>1, <2>1, KeptStep
<1>5. ScreensInv'
  <2>1. \A p \in opening' : \E o \in opening : p.mount = o.mount /\ p.kind = o.kind
    BY <1>1, <1>3
  <2> QED  BY <1>1, <1>2, <2>1, ScreensRest
<1>6. AnswersInv'
  <2>1. \A kind : There(kind)' <=> There(kind)
    BY <1>1 DEF There
  <2>2. \A c \in calls' : IsSo(c)'
    BY <1>1, <2>1 DEF AnswersInv, IsSo
  <2>3. ASSUME NEW p \in opening'
        PROVE  IsSo(p)'
    <3>1. CASE p \in opening
      BY <1>1, <2>1, <3>1 DEF AnswersInv, IsSo
    <3>2. CASE p = a
      BY <1>1, <1>3, <2>1, <3>2 DEF IsSo
    <3> QED  BY <1>1, <3>1, <3>2
  <2> QED  BY <2>2, <2>3 DEF AnswersInv
<1>7. FactsInv' /\ GoneInv'
  BY <1>1 DEF FactsInv, GoneInv, There
<1>8. ControlsInv'
  BY <1>1, <1>2, ControlsKept
<1> QED  BY <1>4, <1>5, <1>6, <1>7, <1>8

\* The load of a screen is lost.
LEMMA LosePageStep ==
  ASSUME DetailsInv, NEW q \in opening, LosePage(q)
  PROVE  DetailsInv'
<1> USE DEF DetailsInv
<1> DEFINE a == Moved(q, "failed")
<1>1. /\ opening' = (opening \ {q}) \cup {a} /\ Use("troubles", MaxTroubles)
      /\ UNCHANGED <<route, api, page, seen, calls, marks, lists, reads, excused, tainted>>
  BY Zenon DEF LosePage, Moved
<1>2. /\ used' \in [{"visits", "writes", "types", "troubles"} -> Nat]
      /\ used'["writes"] = used["writes"] /\ used'["types"] = used["types"]
      /\ used'["visits"] = used["visits"] /\ used["types"] \in Nat /\ used["visits"] \in Nat
      /\ used["types"] <= used'["types"]
  BY <1>1, UseFacts
<1>3. a \in PageLoads /\ a.at = "failed" /\ a.mount = q.mount /\ a.kind = q.kind
  <2>1. q \in PageLoads /\ api \in Apis /\ "failed" \in Ends
    BY DEF DetailTypes, Ends
  <2> QED  BY <2>1, LoadMoved
<1> HIDE DEF a
<1>4. DetailTypes' /\ CountInv' /\ HearInv'
  <2>1. /\ opening' \in SUBSET PageLoads
        /\ page' \in PageStates \cup {NoPage} /\ seen' \in PageStates \cup {NoPage}
    BY <1>1, <1>3 DEF DetailTypes
  <2> QED  BY <1>1, <1>2, <2>1, KeptStep
<1>5. ScreensInv'
  <2>1. \A p \in opening' : \E o \in opening : p.mount = o.mount /\ p.kind = o.kind
    BY <1>1, <1>3
  <2>2. used'["visits"] \in Nat /\ used["visits"] <= used'["visits"]
    BY <1>2
  <2> QED  BY <1>1, <2>1, <2>2, ScreensRest
<1>6. AnswersInv'
  BY <1>1, <1>3, AnswersRest
<1>7. FactsInv' /\ GoneInv'
  BY <1>1 DEF FactsInv, GoneInv, There
<1>8. ControlsInv'
  BY <1>1, <1>2, ControlsKept
<1> QED  BY <1>4, <1>5, <1>6, <1>7, <1>8

\* The answer to the load of a screen.
LEMMA DeliverPageStep ==
  ASSUME DetailsInv, NEW q \in opening, DeliverPage(q)
  PROVE  DetailsInv'
<1> USE DEF DetailsInv
<1>1. /\ opening' = opening \ {q}
      /\ UNCHANGED <<route, api, seen, calls, marks, lists, reads, used, excused>>
  BY DEF DeliverPage
<1>2. used["types"] \in Nat /\ used["visits"] \in Nat
  BY DEF DetailTypes
<1>3. q \in PageLoads /\ q.kind = route
  BY DEF DetailTypes, ScreensInv
<1>4. CASE page.mount # q.mount
  <2>1. UNCHANGED <<page, tainted>>
    BY <1>4 DEF DeliverPage
  <2>2. DetailTypes' /\ CountInv' /\ HearInv'
    <3>1. /\ used' \in [{"visits", "writes", "types", "troubles"} -> Nat] /\ opening' \in SUBSET PageLoads
          /\ used'["writes"] = used["writes"] /\ used["types"] <= used'["types"]
          /\ page' \in PageStates \cup {NoPage} /\ seen' \in PageStates \cup {NoPage}
      BY <1>1, <1>2, <2>1 DEF DetailTypes
    <3> QED  BY <1>1, <3>1, KeptStep
  <2>3. ScreensInv'
    BY <1>1, <1>2, <2>1, ScreensRest
  <2>4. AnswersInv'
    BY <1>1, AnswersRest
  <2>5. FactsInv' /\ GoneInv'
    BY <1>1, <2>1 DEF FactsInv, GoneInv, There
  <2>6. ControlsInv'
    BY <1>1, <1>2, <2>1, ControlsKept
  <2> QED  BY <2>2, <2>3, <2>4, <2>5, <2>6
<1>5. CASE page.mount = q.mount
  <2>1. page \in PageStates /\ page # NoPage /\ page.kind = route
    BY <1>5, MountFacts DEF ScreensInv
  <2>2. tainted' = ~q.clean
    BY <1>5, Zenon DEF DeliverPage
  <2>3. /\ page' \in PageStates /\ page'.mount = page.mount /\ page'.kind = page.kind
        /\ page'.sheet = page.sheet /\ page'.refs = page.refs
        /\ page'.status = "ready" => /\ q.at = "done" /\ page'.laundry = q.answer.laundry
                                     /\ page'.retired = q.answer.retired
                                     /\ page'.name = q.answer.name
        /\ page'.status = "notFound" => q.at = "gone"
    <3>1. CASE q.at = "done"
      <4>1. page' = Drawn(page, q.answer)
        BY <1>5, <3>1 DEF DeliverPage
      <4>2. q.answer \in Apis
        BY <1>3 DEF PageLoads
      <4> QED  BY <2>1, <3>1, <4>1, <4>2, DrawnFacts
    <3>2. CASE q.at = "gone"
      <4>1. page' = [page EXCEPT !.status = "notFound"]
        BY <1>5, <3>2 DEF DeliverPage
      <4> QED  BY <2>1, <3>2, <4>1 DEF PageStates
    <3>3. CASE q.at \notin {"done", "gone"}
      <4>1. page' = [page EXCEPT !.status = "error"]
        BY <1>5, <3>3 DEF DeliverPage
      <4> QED  BY <2>1, <4>1 DEF PageStates
    <3> QED  BY <3>1, <3>2, <3>3
  <2>4. DetailTypes' /\ CountInv' /\ HearInv'
    <3>1. /\ used' \in [{"visits", "writes", "types", "troubles"} -> Nat] /\ opening' \in SUBSET PageLoads
          /\ used'["writes"] = used["writes"] /\ used["types"] <= used'["types"]
          /\ page' \in PageStates \cup {NoPage} /\ seen' \in PageStates \cup {NoPage}
      BY <1>1, <1>2, <2>3 DEF DetailTypes
    <3> QED  BY <1>1, <3>1, KeptStep
  <2>5. ScreensInv'
    BY <1>1, <1>2, <2>1, <2>3, ScreensRest
  <2>6. AnswersInv'
    BY <1>1, AnswersRest
  <2>7. FactsInv'
    <3>1. q.at = "done" /\ q.clean => q.answer = api
      BY DEF AnswersInv, IsSo
    <3> QED  BY <1>1, <2>2, <2>3, <3>1 DEF FactsInv
  <2>8. GoneInv'
    <3>1. q.at = "gone" => ~There(q.kind)
      BY DEF AnswersInv, IsSo
    <3> QED  BY <1>1, <1>3, <2>1, <2>3, <3>1 DEF GoneInv, There
  <2>9. ControlsInv'
    BY <1>1, <1>2, <2>1, <2>3, ControlsKept
  <2> QED  BY <2>4, <2>5, <2>6, <2>7, <2>8, <2>9
<1> QED  BY <1>4, <1>5

\* What is typed, or a sheet that is opened, changes nothing the page draws.
LEMMA FieldStep ==
  ASSUME DetailsInv, Use("types", MaxTypes), page # NoPage, page' \in PageStates,
         page'.mount = page.mount, page'.kind = page.kind, page'.status = page.status,
         page'.laundry = page.laundry, page'.retired = page.retired, page'.name = page.name,
         UNCHANGED <<route, api, seen, calls, opening, marks, lists, reads, excused, tainted>>
  PROVE  /\ DetailTypes' /\ ScreensInv' /\ CountInv' /\ HearInv' /\ AnswersInv' /\ FactsInv' /\ GoneInv'
         /\ page'.refs = page.refs /\ page'.sheet = page.sheet => ControlsInv'
<1> USE DEF DetailsInv
<1>1. /\ used' \in [{"visits", "writes", "types", "troubles"} -> Nat]
      /\ used'["writes"] = used["writes"] /\ used'["visits"] = used["visits"]
      /\ used["types"] <= used'["types"] /\ used'["types"] \in Nat /\ used["visits"] \in Nat
  BY UseFacts
<1>2. DetailTypes' /\ CountInv' /\ HearInv'
  <2>1. /\ opening' \in SUBSET PageLoads
        /\ page' \in PageStates \cup {NoPage} /\ seen' \in PageStates \cup {NoPage}
    BY DEF DetailTypes
  <2> QED  BY <1>1, <2>1, KeptStep
<1>3. ScreensInv'
  <2>1. used'["visits"] \in Nat /\ used["visits"] <= used'["visits"]
    BY <1>1
  <2> QED  BY <2>1, ScreensRest
<1>4. AnswersInv'
  BY AnswersRest
<1>5. FactsInv' /\ GoneInv'
  BY DEF FactsInv, GoneInv, There
<1>6. page'.refs = page.refs /\ page'.sheet = page.sheet => ControlsInv'
  BY <1>1, ControlsKept
<1> QED  BY <1>2, <1>3, <1>4, <1>5, <1>6

\* The new name is typed.
LEMMA TypeDraftStep ==
  ASSUME DetailsInv, NEW n \in Names, TypeDraft(n)
  PROVE  DetailsInv'
<1> USE DEF DetailsInv
<1>1. /\ page' = [page EXCEPT !.draft = n] /\ Use("types", MaxTypes)
      /\ UNCHANGED <<route, api, seen, calls, opening, marks, lists, reads, excused, tainted>>
  BY DEF TypeDraft
<1>2. page # NoPage /\ page \in PageStates
  BY MountFacts DEF TypeDraft, Ready
<1>3. /\ page' \in PageStates /\ page'.mount = page.mount /\ page'.kind = page.kind
      /\ page'.status = page.status /\ page'.name = page.name
      /\ page'.refs = page.refs /\ page'.sheet = page.sheet
  BY <1>1, <1>2 DEF PageStates, Drafts
<1>4. page'.laundry = page.laundry /\ page'.retired = page.retired
  BY <1>1, <1>2 DEF PageStates
<1> QED  BY <1>1, <1>2, <1>3, <1>4, FieldStep

\* The occasion is typed.
LEMMA TypeOccasionStep ==
  ASSUME DetailsInv, NEW o \in Occasions, TypeOccasion(o)
  PROVE  DetailsInv'
<1> USE DEF DetailsInv
<1>1. /\ page' = [page EXCEPT !.occasion = o] /\ Use("types", MaxTypes)
      /\ UNCHANGED <<route, api, seen, calls, opening, marks, lists, reads, excused, tainted>>
  BY DEF TypeOccasion
<1>2. page # NoPage /\ page \in PageStates
  BY MountFacts DEF TypeOccasion, Ready
<1>3. /\ page' \in PageStates /\ page'.mount = page.mount /\ page'.kind = page.kind
      /\ page'.status = page.status /\ page'.name = page.name
      /\ page'.refs = page.refs /\ page'.sheet = page.sheet
  BY <1>1, <1>2 DEF PageStates
<1>4. page'.laundry = page.laundry /\ page'.retired = page.retired
  BY <1>1, <1>2 DEF PageStates
<1> QED  BY <1>1, <1>2, <1>3, <1>4, FieldStep

\* The sheet that shares is opened or closed: no call was made from the one opened.
LEMMA ToggleStep ==
  ASSUME DetailsInv, ToggleSheet
  PROVE  DetailsInv'
<1> USE DEF DetailsInv
<1> DEFINE k == IF seen.sheet = 0 THEN used'["types"] ELSE 0
<1>1. /\ page' = [page EXCEPT !.sheet = k] /\ Use("types", MaxTypes)
      /\ UNCHANGED <<route, api, seen, calls, opening, marks, lists, reads, excused, tainted>>
  BY DEF ToggleSheet
<1>2. page # NoPage /\ page \in PageStates /\ seen # NoPage
  BY MountFacts DEF ToggleSheet, Ready
<1>3. /\ used'["types"] = used["types"] + 1 /\ used["types"] \in Nat /\ used'["types"] \in Nat
  BY <1>1, UseFacts
<1>4. k \in Nat /\ k <= used'["types"] /\ (k = 0 \/ k > used["types"])
  BY <1>3
<1> HIDE DEF k
<1>5. /\ page' \in PageStates /\ page'.mount = page.mount /\ page'.kind = page.kind
      /\ page'.status = page.status /\ page'.name = page.name
      /\ page'.refs = page.refs /\ page'.sheet = k
  BY <1>1, <1>2, <1>4 DEF PageStates
<1>6. page'.laundry = page.laundry /\ page'.retired = page.retired
  BY <1>1, <1>2 DEF PageStates
<1>7. DetailTypes' /\ ScreensInv' /\ CountInv' /\ HearInv' /\ AnswersInv' /\ FactsInv' /\ GoneInv'
  BY <1>1, <1>2, <1>5, <1>6, FieldStep
<1>8. ControlsInv'
  <2>1. page'.sheet <= used'["types"] /\ page'.refs \subseteq Controls[route']
    BY <1>1, <1>2, <1>4, <1>5 DEF ControlsInv
  <2>5. seen'.sheet <= used'["types"]
    <3>1. seen.sheet \in Nat /\ seen.sheet <= used["types"]
      BY <1>2 DEF DetailTypes, PageStates, ControlsInv
    <3> QED  BY <1>1, <1>3, <3>1
  <2>2. ASSUME NEW c \in calls
        PROVE  ~Live(c, page.mount, "share", k)
    <3>1. c.control = "share" => c.sent \in Nat /\ c.sent > 0 /\ c.sent <= used["types"]
      BY DEF DetailTypes, SentIsOf
    <3> QED  BY <1>3, <1>4, <3>1 DEF Live
  <2>3. \A control \in Controls[route'] :
          control \in page'.refs <=> \E c \in calls' : Live(c, page'.mount, control, seen'.sheet)
    BY <1>1, <1>2, <1>5 DEF ControlsInv
  <2>4. \A c, d \in calls' : Live(c, d.mount, d.control, d.sent) => c = d
    BY <1>1 DEF ControlsInv
  <2> QED  BY <1>1, <1>2, <1>5, <2>1, <2>2, <2>3, <2>4, <2>5 DEF ControlsInv
<1> QED  BY <1>7, <1>8

----------------------------------------------------------------------------
(***************************************************************************)
(* The lists under the screens.                                            *)
(***************************************************************************)
\* What their loads leave as it was.
LEMMA ReadsRest ==
  ASSUME DetailsInv, UNCHANGED <<route, api, page, seen, calls, opening, tainted>>,
         used' \in [{"visits", "writes", "types", "troubles"} -> Nat],
         used'["writes"] = used["writes"], used["types"] <= used'["types"],
         used["visits"] <= used'["visits"]
  PROVE  ScreensInv' /\ CountInv' /\ AnswersInv' /\ FactsInv' /\ GoneInv' /\ ControlsInv'
<1> USE DEF DetailsInv
<1>1. used'["types"] \in Nat /\ used'["visits"] \in Nat
  OBVIOUS
<1>2. ScreensInv'
  BY <1>1, ScreensRest
<1>3. CountInv'
  BY CountRests
<1>4. AnswersInv'
  BY AnswersRest
<1>5. FactsInv' /\ GoneInv'
  BY DEF FactsInv, GoneInv, There
<1>6. ControlsInv'
  BY <1>1, ControlsKept
<1> QED  BY <1>2, <1>3, <1>4, <1>5, <1>6

\* The types, when nothing but the lists and their loads changed.
LEMMA ReadTypes ==
  ASSUME DetailTypes, UNCHANGED <<route, api, page, seen, calls, opening>>,
         used' \in [{"visits", "writes", "types", "troubles"} -> Nat],
         used["types"] <= used'["types"],
         marks' \subseteq Readers, excused' \subseteq Readers,
         lists' = [r \in Readers |-> lists'[r]],
         \A q \in reads' : /\ q = [reader |-> q.reader, at |-> q.at, view |-> q.view]
                           /\ q.reader \in Readers /\ q.at \in Stages
  PROVE  DetailTypes'
<1>1. \A c \in calls : SentIsOf(c)'
  <2>1. used["types"] \in Nat /\ used'["types"] \in Nat
    BY DEF DetailTypes
  <2>2. \A c \in calls : SentIsOf(c)
    BY DEF DetailTypes
  <2>3. \A n \in Nat : n <= used["types"] => n <= used'["types"]
    BY <2>1
  <2> QED  BY <2>2, <2>3 DEF SentIsOf
<1> QED  BY <1>1 DEF DetailTypes

\* A load of a list, moved on or answered.
LEMMA ReadFacts ==
  ASSUME NEW q, q = [reader |-> q.reader, at |-> q.at, view |-> q.view], NEW at, NEW v
  PROVE  /\ Moved(q, at) = [reader |-> q.reader, at |-> at, view |-> q.view]
         /\ [q EXCEPT !.at = at, !.view = v] = [reader |-> q.reader, at |-> at, view |-> v]
<1> DEFINE f == [q EXCEPT !.at = at]
           g == [f EXCEPT !.view = v]
<1>1. f = [reader |-> q.reader, at |-> at, view |-> q.view]
  OBVIOUS
<1> HIDE DEF f
<1>2. g = [reader |-> q.reader, at |-> at, view |-> v]
  BY <1>1
<1> HIDE DEF g
<1>3. Moved(q, at) = f /\ [q EXCEPT !.at = at, !.view = v] = g
  BY Zenon DEF Moved, f, g
<1> QED  BY <1>1, <1>2, <1>3

\* A tab comes into focus.
LEMMA FocusStep ==
  ASSUME DetailsInv, NEW r \in Readers, Focus(r)
  PROVE  DetailsInv'
<1> USE DEF DetailsInv
<1> DEFINE o == [reader |-> r, at |-> "sent", view |-> lists[r]]
<1>1. /\ r \in marks /\ marks' = marks \ {r} /\ Use("visits", MaxVisits)
      /\ excused' = IF Reading(r) THEN excused \cup {r} ELSE excused
      /\ reads' = IF Reading(r) THEN reads ELSE reads \cup {o}
      /\ UNCHANGED <<route, api, page, seen, calls, opening, lists, tainted>>
  BY DEF Focus
<1>2. /\ used' \in [{"visits", "writes", "types", "troubles"} -> Nat]
      /\ used'["writes"] = used["writes"] /\ used["types"] <= used'["types"]
      /\ used["visits"] <= used'["visits"]
  BY <1>1, UseFacts
<1>3. /\ o = [reader |-> o.reader, at |-> o.at, view |-> o.view]
      /\ o.reader = r /\ o.at = "sent"
  OBVIOUS
<1> HIDE DEF o
<1>4. DetailTypes'
  <2>1. marks' \subseteq Readers /\ excused' \subseteq Readers /\ lists' = [s \in Readers |-> lists'[s]]
    BY <1>1 DEF DetailTypes
  <2>2. \A q \in reads' : /\ q = [reader |-> q.reader, at |-> q.at, view |-> q.view]
                          /\ q.reader \in Readers /\ q.at \in Stages
    BY <1>1, <1>3 DEF DetailTypes, Stages
  <2> QED  BY <1>1, <1>2, <2>1, <2>2, ReadTypes
<1>5. HearInv'
  <2>1. \A p, q \in reads' : p.reader = q.reader => p = q
    BY <1>1, <1>3 DEF HearInv, Reading
  <2>2. \A s \in Readers : View(s)' = View(s)
    BY <1>1 DEF View
  <2>3. ASSUME NEW s \in Readers \ (excused' \cup marks'),
               \A c \in calls' : c.at = "sent" \/ s \notin Tells(c)
        PROVE  IF Reading(s)' THEN \A q \in reads' : q.reader = s /\ q.at = "done" => q.view = View(s)'
               ELSE lists'[s] = View(s)'
    <3>1. CASE s = r
      <4>1. reads' = reads \cup {o} /\ ~Reading(r)
        BY <1>1, <2>3, <3>1
      <4> QED  BY <1>3, <3>1, <4>1 DEF Reading
    <3>2. CASE s # r
      <4>1. s \in Readers \ (excused \cup marks) /\ \A c \in calls : c.at = "sent" \/ s \notin Tells(c)
        BY <1>1, <2>3, <3>2
      <4>2. \A q : q.reader = s => (q \in reads' <=> q \in reads)
        BY <1>1, <1>3, <3>2
      <4>3. Reading(s)' <=> Reading(s)
        BY <4>2 DEF Reading
      <4> QED  BY <1>1, <2>2, <4>1, <4>2, <4>3 DEF HearInv
    <3> QED  BY <3>1, <3>2
  <2> QED  BY <2>1, <2>3 DEF HearInv
<1> QED  BY <1>1, <1>2, <1>4, <1>5, ReadsRest

\* The load of a list is served: from here it brings what is so.
LEMMA ServeReadStep ==
  ASSUME DetailsInv, NEW q \in reads, ServeRead(q)
  PROVE  DetailsInv'
<1> USE DEF DetailsInv
<1> DEFINE o == [q EXCEPT !.at = "done", !.view = View(q.reader)]
<1>1. /\ reads' = (reads \ {q}) \cup {o} /\ excused' = excused \ {q.reader}
      /\ UNCHANGED <<route, api, page, seen, calls, opening, marks, lists, used, tainted>>
  BY Zenon DEF ServeRead
<1>2. /\ used' \in [{"visits", "writes", "types", "troubles"} -> Nat]
      /\ used'["writes"] = used["writes"] /\ used["types"] <= used'["types"]
      /\ used["visits"] <= used'["visits"]
  BY <1>1 DEF DetailTypes
<1>3. q = [reader |-> q.reader, at |-> q.at, view |-> q.view] /\ q.reader \in Readers
  BY DEF DetailTypes
<1>4. /\ o = [reader |-> o.reader, at |-> o.at, view |-> o.view]
      /\ o.reader = q.reader /\ o.at = "done" /\ o.view = View(q.reader)
  <2>1. o = [reader |-> q.reader, at |-> "done", view |-> View(q.reader)]
    BY <1>3, ReadFacts
  <2> HIDE DEF o
  <2> QED  BY <2>1
<1> HIDE DEF o
<1>5. DetailTypes'
  <2>1. marks' \subseteq Readers /\ excused' \subseteq Readers /\ lists' = [s \in Readers |-> lists'[s]]
    BY <1>1 DEF DetailTypes
  <2>2. \A p \in reads' : /\ p = [reader |-> p.reader, at |-> p.at, view |-> p.view]
                          /\ p.reader \in Readers /\ p.at \in Stages
    BY <1>1, <1>3, <1>4 DEF DetailTypes, Stages
  <2> QED  BY <1>1, <1>2, <2>1, <2>2, ReadTypes
<1>6. HearInv'
  <2>1. \A p, s \in reads' : p.reader = s.reader => p = s
    BY <1>1, <1>4 DEF HearInv
  <2>2. \A s \in Readers : View(s)' = View(s)
    BY <1>1 DEF View
  <2>3. ASSUME NEW s \in Readers \ (excused' \cup marks'),
               \A c \in calls' : c.at = "sent" \/ s \notin Tells(c)
        PROVE  IF Reading(s)' THEN \A p \in reads' : p.reader = s /\ p.at = "done" => p.view = View(s)'
               ELSE lists'[s] = View(s)'
    <3>1. CASE s = q.reader
      <4>1. Reading(s)'
        BY <1>1, <1>4, <3>1 DEF Reading
      <4>2. \A p \in reads' : p.reader = s => p = o
        BY <1>1, <1>4, <2>1, <3>1
      <4> QED  BY <1>4, <2>2, <3>1, <4>1, <4>2
    <3>2. CASE s # q.reader
      <4>1. s \in Readers \ (excused \cup marks) /\ \A c \in calls : c.at = "sent" \/ s \notin Tells(c)
        BY <1>1, <2>3, <3>2
      <4>2. \A p : p.reader = s => (p \in reads' <=> p \in reads)
        BY <1>1, <1>4, <3>2
      <4>3. Reading(s)' <=> Reading(s)
        BY <4>2 DEF Reading
      <4> QED  BY <1>1, <2>2, <4>1, <4>2, <4>3 DEF HearInv
    <3> QED  BY <3>1, <3>2
  <2> QED  BY <2>1, <2>3 DEF HearInv
<1> QED  BY <1>1, <1>2, <1>5, <1>6, ReadsRest

\* The load of a list fails.
LEMMA LoseReadStep ==
  ASSUME DetailsInv, NEW q \in reads, LoseRead(q)
  PROVE  DetailsInv'
<1> USE DEF DetailsInv
<1> DEFINE o == Moved(q, "failed")
<1>1. /\ reads' = (reads \ {q}) \cup {o} /\ Use("troubles", MaxTroubles)
      /\ UNCHANGED <<route, api, page, seen, calls, opening, marks, lists, excused, tainted>>
  BY Zenon DEF LoseRead, Moved
<1>2. /\ used' \in [{"visits", "writes", "types", "troubles"} -> Nat]
      /\ used'["writes"] = used["writes"] /\ used["types"] <= used'["types"]
      /\ used["visits"] <= used'["visits"]
  BY <1>1, UseFacts
<1>3. q = [reader |-> q.reader, at |-> q.at, view |-> q.view] /\ q.reader \in Readers
  BY DEF DetailTypes
<1>4. /\ o = [reader |-> o.reader, at |-> o.at, view |-> o.view]
      /\ o.reader = q.reader /\ o.at = "failed"
  <2>1. o = [reader |-> q.reader, at |-> "failed", view |-> q.view]
    BY <1>3, ReadFacts
  <2> HIDE DEF o
  <2> QED  BY <2>1
<1> HIDE DEF o
<1>5. DetailTypes'
  <2>1. marks' \subseteq Readers /\ excused' \subseteq Readers /\ lists' = [s \in Readers |-> lists'[s]]
    BY <1>1 DEF DetailTypes
  <2>2. \A p \in reads' : /\ p = [reader |-> p.reader, at |-> p.at, view |-> p.view]
                          /\ p.reader \in Readers /\ p.at \in Stages
    BY <1>1, <1>3, <1>4 DEF DetailTypes, Stages
  <2> QED  BY <1>1, <1>2, <2>1, <2>2, ReadTypes
<1>6. HearInv'
  <2>1. \A p, s \in reads' : p.reader = s.reader => p = s
    BY <1>1, <1>4 DEF HearInv
  <2>2. \A s \in Readers : View(s)' = View(s)
    BY <1>1 DEF View
  <2>3. \A s \in Readers : Reading(s)' <=> Reading(s)
    BY <1>1, <1>4 DEF Reading
  <2>4. \A p \in reads' : p.at = "done" => p \in reads
    BY <1>1, <1>4
  <2> QED  BY <1>1, <2>1, <2>2, <2>3, <2>4 DEF HearInv
<1> QED  BY <1>1, <1>2, <1>5, <1>6, ReadsRest

\* What the load of a list brought is drawn, or its failure said.
LEMMA DeliverReadStep ==
  ASSUME DetailsInv, NEW q \in reads, DeliverRead(q)
  PROVE  DetailsInv'
<1> USE DEF DetailsInv
<1>1. /\ q.at # "sent" /\ reads' = reads \ {q}
      /\ lists' = IF q.at = "done" THEN [lists EXCEPT ![q.reader] = q.view] ELSE lists
      /\ excused' = IF q.at = "done" THEN excused ELSE excused \cup {q.reader}
      /\ UNCHANGED <<route, api, page, seen, calls, opening, marks, used, tainted>>
  BY DEF DeliverRead
<1>2. /\ used' \in [{"visits", "writes", "types", "troubles"} -> Nat]
      /\ used'["writes"] = used["writes"] /\ used["types"] <= used'["types"]
      /\ used["visits"] <= used'["visits"]
  BY <1>1 DEF DetailTypes
<1>3. q.reader \in Readers /\ lists = [s \in Readers |-> lists[s]]
  BY DEF DetailTypes
<1>4. /\ lists' = [s \in Readers |-> lists'[s]]
      /\ \A s \in Readers : lists'[s] = IF q.at = "done" /\ s = q.reader THEN q.view ELSE lists[s]
  BY <1>1, <1>3
<1>5. DetailTypes'
  <2>1. marks' \subseteq Readers /\ excused' \subseteq Readers
    BY <1>1 DEF DetailTypes
  <2>2. \A p \in reads' : /\ p = [reader |-> p.reader, at |-> p.at, view |-> p.view]
                          /\ p.reader \in Readers /\ p.at \in Stages
    BY <1>1 DEF DetailTypes
  <2> QED  BY <1>1, <1>2, <1>4, <2>1, <2>2, ReadTypes
<1>6. HearInv'
  <2>1. \A p, s \in reads' : p.reader = s.reader => p = s
    BY <1>1 DEF HearInv
  <2>2. \A s \in Readers : View(s)' = View(s)
    BY <1>1 DEF View
  <2>3. ASSUME NEW s \in Readers \ (excused' \cup marks'),
               \A c \in calls' : c.at = "sent" \/ s \notin Tells(c)
        PROVE  IF Reading(s)' THEN \A p \in reads' : p.reader = s /\ p.at = "done" => p.view = View(s)'
               ELSE lists'[s] = View(s)'
    <3>1. s \in Readers \ (excused \cup marks) /\ \A c \in calls : c.at = "sent" \/ s \notin Tells(c)
      BY <1>1, <2>3
    <3>2. CASE s = q.reader
      <4>1. q.at = "done"
        BY <1>1, <2>3, <3>2
      <4>2. Reading(s)
        BY <3>2 DEF Reading
      <4>3. q.view = View(s)
        BY <3>1, <3>2, <4>1, <4>2 DEF HearInv
      <4>4. ~Reading(s)'
        BY <1>1, <3>2 DEF HearInv, Reading
      <4> QED  BY <1>4, <2>2, <3>2, <4>1, <4>3, <4>4
    <3>3. CASE s # q.reader
      <4>1. \A p : p.reader = s => (p \in reads' <=> p \in reads)
        BY <1>1, <3>3
      <4>2. Reading(s)' <=> Reading(s)
        BY <4>1 DEF Reading
      <4>3. lists'[s] = lists[s]
        BY <1>4, <3>3
      <4> QED  BY <2>2, <3>1, <4>1, <4>2, <4>3 DEF HearInv
    <3> QED  BY <3>2, <3>3
  <2> QED  BY <2>1, <2>3 DEF HearInv
<1> QED  BY <1>1, <1>2, <1>5, <1>6, ReadsRest

----------------------------------------------------------------------------
(***************************************************************************)
(* A write is begun, lost, and settled.                                    *)
(***************************************************************************)
\* A call is begun by a control that waits for none.
LEMMA BegunStep ==
  ASSUME DetailsInv, NEW k \in Calls, SentIsOf(k), k.at = "sent", k.mount = page.mount,
         k.kind = route, k.control \in Controls[route], k.control \notin page.refs,
         k.control = "share" => k.sent = seen.sheet,
         page # NoPage, seen # NoPage, Use("writes", MaxWrites),
         page' = [page EXCEPT !.refs = page.refs \cup {k.control}], calls' = calls \cup {k},
         UNCHANGED <<route, api, seen, opening, marks, lists, reads, excused, tainted>>
  PROVE  DetailsInv'
<1> USE DEF DetailsInv
<1>1. /\ used' \in [{"visits", "writes", "types", "troubles"} -> Nat]
      /\ used'["writes"] = used["writes"] + 1 /\ used["writes"] < MaxWrites
      /\ used'["visits"] = used["visits"] /\ used'["types"] = used["types"]
      /\ used["types"] \in Nat /\ used["visits"] \in Nat /\ used["writes"] \in Nat
  BY UseFacts
<1>2. page \in PageStates /\ page.mount = seen.mount /\ k.control \in Widgets
  BY MountFacts DEF ScreensInv, Calls
<1>3. /\ page' \in PageStates /\ page'.mount = page.mount /\ page'.kind = page.kind
      /\ page'.status = page.status /\ page'.name = page.name /\ page'.sheet = page.sheet
      /\ page'.refs = page.refs \cup {k.control}
  BY <1>2 DEF PageStates
<1>4. page'.laundry = page.laundry /\ page'.retired = page.retired
  BY <1>2 DEF PageStates
<1>5. page' # NoPage
  BY <1>3 DEF NoPage, PageStates
<1>6. DetailTypes'
  <2>1. \A c \in calls' : SentIsOf(c)'
    BY <1>1 DEF DetailTypes, SentIsOf
  <2>2. calls' \in SUBSET Calls /\ IsFiniteSet(calls')
    BY FS_AddElement DEF DetailTypes
  <2> QED  BY <1>1, <1>3, <2>1, <2>2 DEF DetailTypes
<1>7. ScreensInv'
  <2>1. page.mount <= used["visits"]
    BY DEF ScreensInv
  <2>2. \A c \in calls' : c.mount <= used["visits"] /\ c.kind = route /\ c.control \in Controls[route]
    BY <2>1 DEF ScreensInv
  <2> QED  BY <1>1, <1>2, <1>3, <2>1, <2>2 DEF ScreensInv
<1>8. CountInv'
  <2> DEFINE S == {c \in calls : c.at = "sent"}
             T == {c \in calls' : c.at = "sent"}
  <2>1. IsFiniteSet(S)
    BY FS_Subset DEF DetailTypes
  <2>2. T = S \cup {k}
    OBVIOUS
  <2>3. Cardinality(T) \in Nat /\ Cardinality(S) \in Nat /\ Cardinality(T) <= Cardinality(S) + 1
    <3>1. IsFiniteSet(T) /\ (Cardinality(T) = Cardinality(S) \/ Cardinality(T) = Cardinality(S) + 1)
      <4> HIDE DEF S, T
      <4> QED  BY <2>1, <2>2, FS_AddElement
    <3>2. Cardinality(T) \in Nat /\ Cardinality(S) \in Nat
      BY <2>1, <3>1, FS_CardinalityType
    <3> QED  BY <3>1, <3>2
  <2> HIDE DEF S, T
  <2>4. api.wears \in Nat /\ api.shares \in Nat /\ MaxWrites \in Nat
    BY DetailsBoundsAssumption DEF Apis, DetailTypes
  <2>5. api.wears + api.shares + Cardinality(S) <= used["writes"]
    BY DEF CountInv, S
  <2>6. api.wears + api.shares + Cardinality(T) <= used'["writes"] /\ used'["writes"] <= MaxWrites
    BY <1>1, <2>3, <2>4, <2>5
  <2> QED  BY <2>6 DEF CountInv, T
<1>9. HearInv'
  BY HearRests
<1>10. AnswersInv'
  BY AnswersRest
<1>11. FactsInv' /\ GoneInv'
  <2>1. \A c \in calls : c \in calls'
    OBVIOUS
  <2> QED  BY <1>3, <1>4, <2>1 DEF FactsInv, GoneInv, There, Replaces
<1>12. ControlsInv'
  <2>1. \A c \in calls : ~Live(c, page.mount, k.control, seen.sheet)
    BY DEF ControlsInv
  <2>2. \A c \in calls : ~Live(c, k.mount, k.control, k.sent) /\ ~Live(k, c.mount, c.control, c.sent)
    BY <2>1 DEF Live
  <2>3. \A c, d \in calls' : Live(c, d.mount, d.control, d.sent) => c = d
    BY <2>2 DEF ControlsInv
  <2>4. page'.sheet <= used'["types"] /\ page'.refs \subseteq Controls[route'] /\ seen'.sheet <= used'["types"]
    BY <1>1, <1>3 DEF ControlsInv
  <2>5. Live(k, page.mount, k.control, seen.sheet)
    BY DEF Live
  <2>6. ASSUME NEW control \in Controls[route]
        PROVE  control \in page'.refs <=> \E c \in calls' : Live(c, page.mount, control, seen.sheet)
    <3>1. CASE control = k.control
      BY <1>3, <2>5, <3>1
    <3>2. CASE control # k.control
      <4>1. ~Live(k, page.mount, control, seen.sheet)
        BY <3>2 DEF Live
      <4> QED  BY <1>3, <3>2, <4>1 DEF ControlsInv
    <3> QED  BY <3>1, <3>2
  <2>7. page.sheet # seen.sheet => \A c \in calls' : ~Live(c, page.mount, "share", page.sheet)
    <3>1. page.sheet # seen.sheet => ~Live(k, page.mount, "share", page.sheet)
      BY DEF Live
    <3> QED  BY <3>1 DEF ControlsInv
  <2> QED  BY <1>3, <1>5, <2>3, <2>4, <2>6, <2>7 DEF ControlsInv
<1> QED  BY <1>6, <1>7, <1>8, <1>9, <1>10, <1>11, <1>12

\* A press that begins a call.
LEMMA PressStep ==
  ASSUME DetailsInv, NEW control \in Controls[route], Press(control)
  PROVE  DetailsInv'
<1> USE DEF DetailsInv
<1> DEFINE k == [n |-> Cardinality(Running(control)), mount |-> page.mount, kind |-> seen.kind,
                 control |-> control, sent |-> Sent(control), at |-> "sent",
                 clean |-> TRUE, answer |-> api, joined |-> 1]
<1>1. /\ page' = [page EXCEPT !.refs = page.refs \cup {control}] /\ calls' = calls \cup {k}
      /\ control \notin page.refs /\ Use("writes", MaxWrites) /\ Enabled(control)
      /\ control \in Controls[seen.kind] /\ seen.mount > 0 /\ seen.mount = page.mount
      /\ UNCHANGED <<route, api, seen, opening, marks, lists, reads, excused, tainted>>
  BY Zenon DEF Press, Guarded, Ready
<1>2. /\ page # NoPage /\ seen # NoPage /\ page \in PageStates /\ seen \in PageStates
      /\ seen.kind = route /\ route \in Screens /\ api \in Apis
  BY <1>1, MountFacts DEF ScreensInv, DetailTypes
<1>3. control \in Widgets
  BY <1>2 DEF Controls, Screens, Widgets
<1>4. /\ control \in {"laundry", "retire"} => Sent(control) \in Flags
      /\ control = "rename" => Sent(control) \in Names
      /\ control = "log" => Sent(control) \in {NoOccasion, "brunch"}
      /\ control = "share" => Sent(control) = seen.sheet
      /\ control = "delete" => Sent(control) = seen.kind
  <2>1. control \in {"laundry", "retire"} => Sent(control) \in Flags
    BY DEF Sent, Flags
  <2>2. control = "rename" => Sent(control) \in Names
    BY <1>1, <1>2 DEF Sent, Enabled, PageStates, Drafts
  <2>3. control = "log" => Sent(control) \in {NoOccasion, "brunch"}
    BY <1>2 DEF Sent, Trimmed, PageStates, Occasions
  <2>4. control = "share" => Sent(control) = seen.sheet
    BY DEF Sent
  <2>5. control = "delete" => Sent(control) = seen.kind
    BY DEF Sent
  <2> QED  BY <2>1, <2>2, <2>3, <2>4, <2>5
<1>5. seen.sheet \in Nat /\ seen.sheet <= used["types"] /\ (control = "share" => seen.sheet > 0)
  BY <1>1, <1>2 DEF PageStates, ControlsInv, Enabled
<1>6. Sent(control) \in Sents
  BY <1>2, <1>3, <1>4, <1>5 DEF Sents, Widgets, Drafts, PageStates
<1>7. Cardinality(Running(control)) \in Nat
  <2>1. IsFiniteSet(Running(control))
    BY FS_Subset DEF Running, DetailTypes
  <2> QED  BY <2>1, FS_CardinalityType
<1>8. /\ k \in Calls /\ k.at = "sent" /\ k.mount = page.mount /\ k.kind = route
      /\ k.control = control /\ k.sent = Sent(control)
  BY <1>2, <1>3, <1>6, <1>7 DEF Calls, PageStates, Ends
<1> HIDE DEF k
<1>9. SentIsOf(k)
  BY <1>4, <1>5, <1>8 DEF SentIsOf
<1> QED  BY <1>1, <1>2, <1>4, <1>8, <1>9, BegunStep

\* A press of the day's log: the second of a frame joins the call of the first.
LEMMA PressLogStep ==
  ASSUME DetailsInv, PressLog
  PROVE  DetailsInv'
<1> USE DEF DetailsInv
<1> DEFINE k == [n |-> 0, mount |-> page.mount, kind |-> "log",
                 control |-> "log", sent |-> NoOccasion, at |-> "sent",
                 clean |-> TRUE, answer |-> api, joined |-> 1]
           f == [c \in calls |-> IF c \in Running("log") THEN Joined(c) ELSE c]
<1>1. /\ page' = [page EXCEPT !.refs = page.refs \cup {"log"}]
      /\ seen.mount > 0 /\ seen.mount = page.mount /\ seen.kind = "log" /\ Use("writes", MaxWrites)
      /\ UNCHANGED <<route, api, seen, opening, marks, lists, reads, excused, tainted>>
  BY DEF PressLog, Ready
<1>2. /\ page # NoPage /\ seen # NoPage /\ page \in PageStates /\ seen \in PageStates
      /\ route = "log" /\ api \in Apis /\ "log" \in Controls[route]
  BY <1>1, MountFacts DEF ScreensInv, DetailTypes, Controls
<1>3. CASE Running("log") = {}
  <2>1. calls' = calls \cup {k}
    BY <1>3 DEF PressLog
  <2>2. /\ k \in Calls /\ k.at = "sent" /\ k.mount = page.mount /\ k.kind = route
        /\ k.control = "log" /\ k.sent = NoOccasion
    BY <1>2 DEF Calls, PageStates, Ends, Screens, Widgets, Sents
  <2> HIDE DEF k
  <2>3. SentIsOf(k)
    BY <2>2 DEF SentIsOf
  <2>4. "log" \notin page.refs
    BY <1>2, <1>3 DEF ControlsInv, Live, Running
  <2> QED  BY <1>1, <1>2, <2>1, <2>2, <2>3, <2>4, BegunStep
<1>4. CASE Running("log") # {}
  <2>1. calls' = (calls \ Running("log")) \cup {Joined(c) : c \in Running("log")}
    BY <1>4, Zenon DEF PressLog, Joined
  <2>2. Running("log") \subseteq calls /\ calls \in SUBSET Calls
    BY DEF Running, DetailTypes
  <2>3. \A c \in calls : /\ Joined(c) \in Calls /\ Alike(Joined(c), c) /\ Joined(c).at = c.at
                         /\ Joined(c).clean = c.clean /\ Joined(c).answer = c.answer
    BY <1>2, <2>2, JoinedFacts
  <2>4. /\ f \in [calls -> Calls] /\ \A c \in calls : f[c] = IF c \in Running("log") THEN Joined(c) ELSE c
        /\ calls' = {f[c] : c \in calls}
    BY <2>1, <2>2, <2>3
  <2> HIDE DEF f
  <2>5. \A c \in calls : /\ Alike(f[c], c) /\ f[c].at = c.at
                         /\ f[c].clean = c.clean /\ f[c].answer = c.answer
    BY <2>3, <2>4 DEF Alike
  <2>6. /\ calls' \in SUBSET Calls /\ IsFiniteSet(calls')
        /\ \A b, d \in calls' : Live(b, d.mount, d.control, d.sent) => b = d
        /\ \A m, control, sheet :
             (\E b \in calls' : Live(b, m, control, sheet)) <=>
             (\E b \in calls : Live(b, m, control, sheet))
        /\ \A b \in calls' : \E d \in calls : Alike(b, d)
    BY <2>4, <2>5, CallsMapped
  <2>7. /\ used' \in [{"visits", "writes", "types", "troubles"} -> Nat]
        /\ used'["writes"] = used["writes"] + 1 /\ used["writes"] < MaxWrites
        /\ used'["visits"] = used["visits"] /\ used'["types"] = used["types"]
        /\ used["types"] \in Nat /\ used["visits"] \in Nat /\ used["writes"] \in Nat
        /\ used["types"] <= used'["types"] /\ used["visits"] <= used'["visits"]
    BY <1>1, UseFacts
  <2>8. "log" \in page.refs
    BY <1>2, <1>4 DEF ControlsInv, Live, Running
  <2>9. /\ page' \in PageStates /\ page'.mount = page.mount /\ page'.kind = page.kind
        /\ page'.status = page.status /\ page'.name = page.name /\ page'.sheet = page.sheet
        /\ page'.refs = page.refs
    BY <1>1, <1>2, <2>8 DEF PageStates, Widgets
  <2>10. page.kind = "log" /\ page'.kind = "log"
    BY <1>2, <2>9 DEF ScreensInv
  <2>11. DetailTypes'
    <3>1. \A b \in calls' : SentIsOf(b)'
      <4> TAKE b \in calls'
      <4>1. PICK d \in calls : Alike(b, d)
        BY <2>6
      <4>2. SentIsOf(d) /\ b \in Calls /\ d \in Calls
        BY <2>2, <2>6 DEF DetailTypes
      <4> QED  BY <2>7, <4>1, <4>2, SentRests
    <3> QED  BY <1>1, <2>6, <2>7, <2>9, <3>1 DEF DetailTypes
  <2>12. ScreensInv'
    BY <1>1, <1>2, <2>6, <2>7, <2>9, ScreensRest DEF Alike
  <2>13. CountInv'
    <3> DEFINE S == {d \in calls : d.at = "sent"}
               T == {d \in calls' : d.at = "sent"}
    <3>1. IsFiniteSet(S)
      BY FS_Subset DEF DetailTypes
    <3>2. \A t \in T : \E s \in S : t = f[s]
      BY <2>4, <2>5
    <3>3. Cardinality(T) \in Nat /\ Cardinality(S) \in Nat /\ Cardinality(T) <= Cardinality(S)
      <4> HIDE DEF S, T
      <4> QED  BY <3>1, <3>2, ImageBound
    <3> HIDE DEF S, T
    <3>4. api.wears \in Nat /\ api.shares \in Nat /\ MaxWrites \in Nat
      BY <1>2, DetailsBoundsAssumption DEF Apis
    <3>5. api.wears + api.shares + Cardinality(S) <= used["writes"]
      BY DEF CountInv, S
    <3>6. api.wears + api.shares + Cardinality(T) <= used'["writes"] /\ used'["writes"] <= MaxWrites
      BY <2>7, <3>3, <3>4, <3>5
    <3> QED  BY <1>1, <3>6 DEF CountInv, T
  <2>14. HearInv'
    <3>1. \A c \in calls : f[c] \in calls' /\ f[c].at = c.at /\ f[c].control = c.control /\ f[c].kind = c.kind
      BY <2>4, <2>5 DEF Alike
    <3> QED  BY <1>1, <3>1, HearRests
  <2>15. AnswersInv'
    <3>1. \A c \in calls' : \E d \in calls : /\ d.at = c.at /\ d.answer = c.answer
                                             /\ d.kind = c.kind /\ (c.clean => d.clean)
      <4> TAKE c \in calls'
      <4>1. PICK d \in calls : c = f[d]
        BY <2>4
      <4> QED  BY <2>5, <4>1 DEF Alike
    <3> QED  BY <1>1, <3>1, AnswersRest
  <2>16. FactsInv' /\ GoneInv'
    <3>1. FactsInv'
      BY <2>10 DEF FactsInv
    <3>2. \A kind : There(kind)' => There(kind)
      BY <1>1, ThereRests
    <3>3. GoneInv'
      BY <1>2, <2>9, <3>2, GoneRests
    <3> QED  BY <3>1, <3>3
  <2>17. ControlsInv'
    BY <1>1, <1>2, <2>6, <2>7, <2>9, ControlsRest
  <2> QED  BY <2>11, <2>12, <2>13, <2>14, <2>15, <2>16, <2>17
<1> QED  BY <1>3, <1>4

\* A request is lost, or its answer.
LEMMA LoseCallStep ==
  ASSUME DetailsInv, NEW c \in calls, LoseCall(c)
  PROVE  DetailsInv'
<1> USE DEF DetailsInv
<1> DEFINE m == Moved(c, "failed")
           f == [d \in calls |-> IF d = c THEN m ELSE d]
<1>1. /\ c.at \in {"sent", "done"} /\ calls' = (calls \ {c}) \cup {m} /\ Use("troubles", MaxTroubles)
      /\ UNCHANGED <<route, api, page, seen, opening, marks, lists, reads>>
  BY Zenon DEF LoseCall, Moved
<1>2. IF c.at = "done" THEN excused' = Readers /\ tainted' = TRUE ELSE UNCHANGED <<excused, tainted>>
  BY DEF LoseCall
<1>3. /\ used' \in [{"visits", "writes", "types", "troubles"} -> Nat]
      /\ used'["writes"] = used["writes"] /\ used'["visits"] = used["visits"]
      /\ used'["types"] = used["types"] /\ used["types"] \in Nat /\ used["visits"] \in Nat
      /\ used["types"] <= used'["types"] /\ used["visits"] <= used'["visits"]
  BY <1>1, UseFacts
<1>4. calls \in SUBSET Calls
  BY DEF DetailTypes
<1>5. m \in Calls /\ Alike(m, c) /\ m.at = "failed"
  <2>1. "failed" \in Ends /\ c.answer \in Apis
    BY <1>4 DEF Ends, Calls
  <2> QED  BY <1>4, <2>1, MovedFacts
<1> HIDE DEF m
<1>6. /\ f \in [calls -> Calls] /\ \A d \in calls : f[d] = IF d = c THEN m ELSE d
      /\ calls' = {f[d] : d \in calls} /\ \A d \in calls : Alike(f[d], d)
  BY <1>1, <1>4, <1>5 DEF Alike
<1> HIDE DEF f
<1>7. /\ calls' \in SUBSET Calls /\ IsFiniteSet(calls')
      /\ \A b, d \in calls' : Live(b, d.mount, d.control, d.sent) => b = d
      /\ \A n, control, sheet :
           (\E b \in calls' : Live(b, n, control, sheet)) <=>
           (\E b \in calls : Live(b, n, control, sheet))
      /\ \A b \in calls' : \E d \in calls : Alike(b, d)
  BY <1>6, CallsMapped
<1>8. DetailTypes'
  <2>1. \A b \in calls' : SentIsOf(b)'
    <3> TAKE b \in calls'
    <3>1. PICK d \in calls : Alike(b, d)
      BY <1>7
    <3>2. SentIsOf(d) /\ b \in Calls /\ d \in Calls
      BY <1>4, <1>7 DEF DetailTypes
    <3> QED  BY <1>3, <3>1, <3>2, SentRests
  <2>2. excused' \subseteq Readers
    BY <1>2 DEF DetailTypes
  <2> QED  BY <1>1, <1>3, <1>7, <2>1, <2>2 DEF DetailTypes
<1>9. ScreensInv'
  BY <1>1, <1>3, <1>7, ScreensRest DEF Alike
<1>10. CountInv'
  <2>1. {b \in calls' : b.at = "sent"} \subseteq {b \in calls : b.at = "sent"}
    BY <1>1, <1>5
  <2> QED  BY <1>1, <1>3, <2>1, CountRests
<1>11. HearInv'
  <2>1. CASE c.at = "done"
    BY <1>1, <1>2, <2>1 DEF HearInv
  <2>2. CASE c.at = "sent"
    <3>1. \A d \in calls : d.at = "sent" \/ d \in calls'
      BY <1>1, <2>2
    <3>2. excused' = excused
      BY <1>2, <2>2
    <3> QED  BY <1>1, <3>1, <3>2, HearRests
  <2> QED  BY <1>1, <2>1, <2>2
<1>12. AnswersInv'
  <2>1. \A b \in calls' : b \in calls \/ b.at = "failed"
    BY <1>1, <1>5
  <2> QED  BY <1>1, <2>1, AnswersRest
<1>13. FactsInv'
  <2>1. CASE c.at = "done"
    BY <1>2, <2>1 DEF FactsInv
  <2>2. CASE c.at = "sent"
    <3>1. \A d \in calls : Replaces(d) => d \in calls'
      BY <1>1, <2>2 DEF Replaces
    <3>2. tainted' = tainted
      BY <1>2, <2>2
    <3> QED  BY <1>1, <3>1, <3>2, FactsRest
  <2> QED  BY <1>1, <2>1, <2>2
<1>14. GoneInv'
  BY <1>1 DEF GoneInv, There
<1>15. ControlsInv'
  BY <1>1, <1>3, <1>7, ControlsRest
<1> QED  BY <1>8, <1>9, <1>10, <1>11, <1>12, <1>13, <1>14, <1>15

\* What the end of a write makes of the screen that began it.
LEMMA SettledFacts ==
  ASSUME page \in PageStates, NEW c \in Calls
  PROVE  /\ SettledPage(c) \in PageStates
         /\ SettledPage(c).mount = page.mount /\ SettledPage(c).kind = page.kind
         /\ SettledPage(c).refs = page.refs \ {c.control}
         /\ SettledPage(c).sheet = IF c.at = "done" /\ c.control = "share" THEN 0 ELSE page.sheet
         /\ SettledPage(c).status = IF Replaces(c) THEN "ready"
                                    ELSE IF c.at = "gone" /\ c.control = "rename" THEN "notFound"
                                    ELSE page.status
         /\ SettledPage(c).laundry = IF Replaces(c) THEN c.answer.laundry ELSE page.laundry
         /\ SettledPage(c).retired = IF Replaces(c) THEN c.answer.retired ELSE page.retired
         /\ SettledPage(c).name = IF Replaces(c) THEN c.answer.name ELSE page.name
<1> DEFINE freed == [page EXCEPT !.refs = page.refs \ {c.control}]
           drawn == Drawn(freed, c.answer)
<1>1. freed \in PageStates /\ c.answer \in Apis
  BY DEF PageStates, Calls
<1>2. /\ freed.mount = page.mount /\ freed.kind = page.kind /\ freed.refs = page.refs \ {c.control}
      /\ freed.sheet = page.sheet /\ freed.status = page.status /\ freed.name = page.name
      /\ freed.occasion = page.occasion
  BY DEF PageStates
<1>3. freed.laundry = page.laundry /\ freed.retired = page.retired
  BY DEF PageStates
<1> HIDE DEF freed
<1>4. /\ drawn \in PageStates
      /\ drawn.mount = page.mount /\ drawn.kind = page.kind /\ drawn.refs = page.refs \ {c.control}
      /\ drawn.sheet = page.sheet /\ drawn.status = "ready" /\ drawn.name = c.answer.name
      /\ drawn.laundry = c.answer.laundry /\ drawn.retired = c.answer.retired
  BY <1>1, <1>2, DrawnFacts
<1> HIDE DEF drawn
<1> DEFINE blank == [drawn EXCEPT !.draft = NoDraft]
           gone == [freed EXCEPT !.status = "notFound"]
           logged == [freed EXCEPT !.occasion = IF freed.occasion = c.sent THEN NoOccasion
                                                ELSE freed.occasion]
           shared == [freed EXCEPT !.sheet = 0]
<1>5. SettledPage(c) =
        CASE c.at = "done" /\ c.control \in {"laundry", "retire"} -> drawn
          [] c.at = "done" /\ c.control = "rename" -> blank
          [] c.at = "gone" /\ c.control = "rename" -> gone
          [] c.at = "done" /\ c.control = "log" -> logged
          [] c.at = "done" /\ c.control = "share" -> shared
          [] OTHER -> freed
  BY DEF SettledPage, drawn, freed
<1>6. /\ blank \in PageStates
      /\ blank.mount = page.mount /\ blank.kind = page.kind /\ blank.refs = page.refs \ {c.control}
      /\ blank.sheet = page.sheet /\ blank.status = "ready" /\ blank.name = c.answer.name
  BY <1>4 DEF PageStates, Drafts
<1>7. blank.laundry = c.answer.laundry /\ blank.retired = c.answer.retired
  BY <1>4 DEF PageStates
<1>8. /\ gone \in PageStates
      /\ gone.mount = page.mount /\ gone.kind = page.kind /\ gone.refs = page.refs \ {c.control}
      /\ gone.sheet = page.sheet /\ gone.status = "notFound" /\ gone.name = page.name
  BY <1>1, <1>2 DEF PageStates
<1>9. gone.laundry = page.laundry /\ gone.retired = page.retired
  BY <1>1, <1>3 DEF PageStates
<1>10. /\ logged \in PageStates
       /\ logged.mount = page.mount /\ logged.kind = page.kind /\ logged.refs = page.refs \ {c.control}
       /\ logged.sheet = page.sheet /\ logged.status = page.status /\ logged.name = page.name
  BY <1>1, <1>2 DEF PageStates, Occasions
<1>11. logged.laundry = page.laundry /\ logged.retired = page.retired
  BY <1>1, <1>3 DEF PageStates
<1>12. /\ shared \in PageStates
       /\ shared.mount = page.mount /\ shared.kind = page.kind /\ shared.refs = page.refs \ {c.control}
       /\ shared.sheet = 0 /\ shared.status = page.status /\ shared.name = page.name
  BY <1>1, <1>2 DEF PageStates
<1>13. shared.laundry = page.laundry /\ shared.retired = page.retired
  BY <1>1, <1>3 DEF PageStates
<1> HIDE DEF blank, gone, logged, shared
<1>14. CASE c.at = "done" /\ c.control \in {"laundry", "retire"}
  <2>1. SettledPage(c) = drawn /\ Replaces(c) /\ c.control # "share"
    BY <1>5, <1>14 DEF Replaces
  <2> QED  BY <1>4, <2>1
<1>15. CASE c.at = "done" /\ c.control = "rename"
  <2>1. SettledPage(c) = blank /\ Replaces(c) /\ c.control # "share"
    BY <1>5, <1>15 DEF Replaces
  <2> QED  BY <1>6, <1>7, <2>1
<1>16. CASE c.at = "gone" /\ c.control = "rename"
  <2>1. SettledPage(c) = gone /\ ~Replaces(c)
    BY <1>5, <1>16 DEF Replaces
  <2> QED  BY <1>8, <1>9, <1>16, <2>1
<1>17. CASE c.at = "done" /\ c.control = "log"
  <2>1. SettledPage(c) = logged /\ ~Replaces(c)
    BY <1>5, <1>17 DEF Replaces
  <2> QED  BY <1>10, <1>11, <1>17, <2>1
<1>18. CASE c.at = "done" /\ c.control = "share"
  <2>1. SettledPage(c) = shared /\ ~Replaces(c)
    BY <1>5, <1>18 DEF Replaces
  <2> QED  BY <1>12, <1>13, <1>18, <2>1
<1>19. CASE ~(c.at = "done" /\ c.control \in {"laundry", "retire", "rename", "log", "share"})
            /\ ~(c.at = "gone" /\ c.control = "rename")
  <2>1. SettledPage(c) = freed /\ ~Replaces(c) /\ ~(c.at = "done" /\ c.control = "share")
    BY <1>5, <1>19 DEF Replaces
  <2> QED  BY <1>1, <1>2, <1>3, <1>19, <2>1
<1> QED  BY <1>14, <1>15, <1>16, <1>17, <1>18, <1>19

\* A write has ended: who reads what it wrote is told, and the screen that began
\* it shows the answer, unless another is there.
LEMMA SettleCallStep ==
  ASSUME DetailsInv, NEW c \in calls, SettleCall(c)
  PROVE  DetailsInv'
<1> USE DEF DetailsInv
<1> DEFINE mine == page.mount = c.mount
           own == c.control = "share" => page.sheet = c.sent
           bare == [page EXCEPT !.sheet = 0]
           shut == [page EXCEPT !.sheet = 0, !.refs = page.refs \ {"share"}]
<1>1. /\ c.at # "sent" /\ seen = page /\ calls' = calls \ {c} /\ marks' = marks \cup Tells(c)
      /\ seen' = page'
      /\ UNCHANGED <<route, api, opening, lists, reads, used, excused>>
  BY DEF SettleCall
<1>2. page' = IF GoesBack(c) THEN NoPage
              ELSE IF mine /\ own THEN SettledPage(c)
              ELSE IF mine /\ c.at = "done" THEN shut
              ELSE page
  BY Zenon DEF SettleCall
<1>3. tainted' = IF ~mine THEN tainted \/ Replaces(c) ELSE IF Replaces(c) THEN ~c.clean ELSE tainted
  BY Zenon DEF SettleCall
<1>4. /\ c \in Calls /\ c.kind = route /\ used["types"] \in Nat /\ used["visits"] \in Nat
      /\ c.control \in Controls[route] /\ c.control \in Widgets
  BY DEF DetailTypes, ScreensInv, Calls
<1>5. mine => page # NoPage
  BY MountFacts
<1>6. page # NoPage => page \in PageStates /\ page.kind = route /\ page.sheet \in Nat
  BY MountFacts DEF ScreensInv, PageStates
<1>7. page \in PageStates =>
        /\ shut \in PageStates /\ shut.mount = page.mount /\ shut.kind = page.kind
        /\ shut.sheet = 0 /\ shut.refs = page.refs \ {"share"}
        /\ shut.status = page.status /\ shut.name = page.name
        /\ shut.laundry = page.laundry /\ shut.retired = page.retired
  <2> SUFFICES ASSUME page \in PageStates
               PROVE  /\ shut \in PageStates /\ shut.mount = page.mount /\ shut.kind = page.kind
                      /\ shut.sheet = 0 /\ shut.refs = page.refs \ {"share"}
                      /\ shut.status = page.status /\ shut.name = page.name
                      /\ shut.laundry = page.laundry /\ shut.retired = page.retired
    OBVIOUS
  <2> DEFINE both == [bare EXCEPT !.refs = page.refs \ {"share"}]
  <2>1. /\ bare \in PageStates /\ bare.mount = page.mount /\ bare.kind = page.kind
        /\ bare.sheet = 0 /\ bare.status = page.status /\ bare.name = page.name
    BY DEF PageStates
  <2>2. bare.laundry = page.laundry /\ bare.retired = page.retired
    BY DEF PageStates
  <2> HIDE DEF bare
  <2>3. page.refs \ {"share"} \in SUBSET Widgets
    BY DEF PageStates
  <2>4. /\ both \in PageStates /\ both.mount = page.mount /\ both.kind = page.kind
        /\ both.sheet = 0 /\ both.refs = page.refs \ {"share"}
        /\ both.status = page.status /\ both.name = page.name
    BY <2>1, <2>3 DEF PageStates
  <2>5. both.laundry = page.laundry /\ both.retired = page.retired
    BY <2>1, <2>2 DEF PageStates
  <2>6. both = shut
    BY Zenon DEF bare
  <2> HIDE DEF both, shut
  <2> QED  BY <2>4, <2>5, <2>6
<1> HIDE DEF shut
<1>8. /\ page' # NoPage => page # NoPage
      /\ page' # NoPage /\ ~mine => page' = page
      /\ page' # NoPage /\ mine /\ own => page' = SettledPage(c)
      /\ page' # NoPage /\ mine /\ ~own => page' = IF c.at = "done" THEN shut ELSE page
  BY <1>2, <1>5
<1>9. Replaces(c) => c.control # "share" /\ c.at = "done"
  BY DEF Replaces
<1> HIDE DEF mine
<1>10. page' # NoPage =>
         /\ page' \in PageStates /\ page'.mount = page.mount /\ page'.kind = page.kind
         /\ page'.sheet = IF mine /\ c.at = "done" /\ c.control = "share" THEN 0 ELSE page.sheet
         /\ mine /\ own => page'.refs = page.refs \ {c.control}
         /\ mine /\ ~own => page'.refs = page.refs \ {"share"} \/ (page'.refs = page.refs /\ c.at # "done")
         /\ ~mine => page'.refs = page.refs
  BY <1>4, <1>6, <1>7, <1>8, SettledFacts
<1>11. page' # NoPage =>
         /\ page'.status = IF mine /\ Replaces(c) THEN "ready"
                           ELSE IF mine /\ c.at = "gone" /\ c.control = "rename" THEN "notFound"
                           ELSE page.status
         /\ page'.laundry = IF mine /\ Replaces(c) THEN c.answer.laundry ELSE page.laundry
         /\ page'.retired = IF mine /\ Replaces(c) THEN c.answer.retired ELSE page.retired
         /\ page'.name = IF mine /\ Replaces(c) THEN c.answer.name ELSE page.name
  BY <1>4, <1>6, <1>7, <1>8, <1>9, SettledFacts
<1> HIDE DEF own
<1>12. DetailTypes'
  <2>1. calls' \in SUBSET Calls /\ IsFiniteSet(calls')
    BY <1>1, FS_Subset DEF DetailTypes
  <2>2. \A b \in calls' : SentIsOf(b)'
    BY <1>1 DEF DetailTypes, SentIsOf
  <2>3. Tells(c) \subseteq Readers
    BY DEF Tells, Readers, TrackingReaders
  <2>4. page' \in PageStates \cup {NoPage}
    BY <1>10
  <2> QED  BY <1>1, <2>1, <2>2, <2>3, <2>4 DEF DetailTypes
<1>13. ScreensInv'
  BY <1>1, <1>4, <1>8, <1>10, ScreensRest
<1>14. CountInv'
  <2>1. {b \in calls' : b.at = "sent"} \subseteq {b \in calls : b.at = "sent"}
    BY <1>1
  <2> QED  BY <1>1, <2>1, CountRests
<1>15. HearInv'
  <2>1. \A r \in Readers : View(r)' = View(r)
    BY <1>1 DEF View
  <2>2. \A r \in Readers : Reading(r)' <=> Reading(r)
    BY <1>1 DEF Reading
  <2>3. ASSUME NEW r \in Readers \ (excused' \cup marks'),
               \A d \in calls' : d.at = "sent" \/ r \notin Tells(d)
        PROVE  r \in Readers \ (excused \cup marks) /\ \A d \in calls : d.at = "sent" \/ r \notin Tells(d)
    BY <1>1, <2>3
  <2> QED  BY <1>1, <2>1, <2>2, <2>3 DEF HearInv
<1>16. AnswersInv'
  BY <1>1, AnswersRest
<1>17. FactsInv'
  <2> SUFFICES ASSUME page' # NoPage, page'.kind # "log", page'.status = "ready", ~tainted'
               PROVE  \/ page'.laundry = api.laundry /\ page'.retired = api.retired /\ page'.name = api.name
                      \/ \E d \in calls' : Replaces(d)
    BY <1>1 DEF FactsInv, Replaces
  <2>1. CASE mine /\ Replaces(c)
    <3>1. c.clean /\ c.at = "done"
      BY <1>3, <1>9, <2>1
    <3>2. c.answer = api
      BY <3>1 DEF AnswersInv, IsSo
    <3> QED  BY <1>11, <2>1, <3>2
  <2>2. CASE ~(mine /\ Replaces(c))
    <3>1. ~tainted /\ ~Replaces(c)
      BY <1>3, <2>2
    <3>2. /\ page # NoPage /\ page.kind # "log" /\ page.status = "ready" /\ page'.laundry = page.laundry
          /\ page'.retired = page.retired /\ page'.name = page.name
      BY <1>8, <1>10, <1>11, <3>1
    <3>3. \A d \in calls : Replaces(d) => d \in calls'
      BY <1>1, <3>1
    <3> QED  BY <3>1, <3>2, <3>3 DEF FactsInv
  <2> QED  BY <2>1, <2>2
<1>18. GoneInv'
  <2> SUFFICES ASSUME page' # NoPage, page'.status = "notFound"
               PROVE  ~There(route)
    BY <1>1, <1>6, <1>8, <1>10 DEF GoneInv, There
  <2>1. CASE page.status = "notFound"
    BY <1>6, <1>8, <2>1 DEF GoneInv
  <2>2. CASE c.at = "gone"
    BY <1>4, <2>2 DEF AnswersInv, IsSo
  <2> QED  BY <1>11, <2>1, <2>2
<1>19. ControlsInv'
  <2>1. \A b, d \in calls' : Live(b, d.mount, d.control, d.sent) => b = d
    BY <1>1 DEF ControlsInv
  <2>2. CASE page' = NoPage
    BY <1>1, <2>1, <2>2 DEF ControlsInv
  <2>3. CASE page' # NoPage
    <3>1. page # NoPage /\ page.refs \subseteq Controls[route] /\ page.sheet <= used["types"]
      BY <1>8, <2>3 DEF ControlsInv
    <3>2. page'.sheet <= used["types"] /\ page'.refs \subseteq Controls[route]
      BY <1>4, <1>10, <2>3, <3>1
    <3>3. \A control \in Controls[route] :
            control \in page.refs <=> \E d \in calls : Live(d, page.mount, control, page.sheet)
      BY <1>1, <3>1 DEF ControlsInv
    <3>4. \A d \in calls : Live(d, c.mount, c.control, c.sent) => d = c
      BY DEF ControlsInv
    <3>5. \A d \in calls : d.control = "share" => d.sent \in Nat /\ d.sent > 0
      BY DEF DetailTypes, SentIsOf
    <3>6. \A d \in calls : ~Live(d, page.mount, "share", 0)
      BY <3>5 DEF Live
    <3>7. ASSUME NEW control \in Controls[route], control # "share"
          PROVE  control \in page'.refs <=> \E d \in calls' : Live(d, page.mount, control, page'.sheet)
      <4>1. \A d \in calls : Live(d, page.mount, control, page'.sheet)
                             <=> Live(d, page.mount, control, page.sheet)
        BY <3>7 DEF Live
      <4>2. CASE mine /\ control = c.control
        <5>1. own
          BY <3>7, <4>2 DEF own
        <5>2. control \notin page'.refs
          BY <1>10, <2>3, <4>2, <5>1
        <5>3. \A d \in calls' : ~Live(d, page.mount, control, page'.sheet)
          BY <1>1, <3>4, <3>7, <4>2 DEF Live, mine
        <5> QED  BY <5>2, <5>3
      <4>3. CASE ~(mine /\ control = c.control)
        <5>1. ~Live(c, page.mount, control, page.sheet)
          BY <4>3 DEF Live, mine
        <5>2. control \in page'.refs <=> control \in page.refs
          BY <1>10, <2>3, <3>7, <4>3
        <5> QED  BY <1>1, <3>3, <4>1, <5>1, <5>2
      <4> QED  BY <4>2, <4>3
    <3>8. ASSUME "share" \in Controls[route]
          PROVE  "share" \in page'.refs <=> \E d \in calls' : Live(d, page.mount, "share", page'.sheet)
      <4>1. CASE mine /\ c.control = "share" /\ c.at = "done"
        <5>1. page'.sheet = 0 /\ "share" \notin page'.refs
          BY <1>10, <2>3, <4>1
        <5> QED  BY <1>1, <3>6, <5>1
      <4>2. CASE mine /\ c.control = "share" /\ c.at # "done" /\ own
        <5>1. page'.sheet = page.sheet /\ "share" \notin page'.refs /\ page.sheet = c.sent
          BY <1>10, <2>3, <4>2 DEF own
        <5>2. \A d \in calls' : ~Live(d, page.mount, "share", page.sheet)
          BY <1>1, <3>4, <4>2, <5>1 DEF mine
        <5> QED  BY <5>1, <5>2
      <4>3. CASE mine /\ c.control = "share" /\ c.at # "done" /\ ~own
        <5>1. page' = page /\ page.sheet # c.sent
          BY <1>8, <2>3, <4>3 DEF own
        <5>2. ~Live(c, page.mount, "share", page.sheet)
          BY <4>3, <5>1 DEF Live
        <5> QED  BY <1>1, <3>3, <3>8, <5>1, <5>2
      <4>4. CASE ~(mine /\ c.control = "share")
        <5>1. ~Live(c, page.mount, "share", page.sheet)
          BY <4>4 DEF Live, mine
        <5>2. page'.sheet = page.sheet /\ ("share" \in page'.refs <=> "share" \in page.refs)
          BY <1>10, <2>3, <4>4 DEF own
        <5> QED  BY <1>1, <3>3, <3>8, <5>1, <5>2
      <4> QED  BY <4>1, <4>2, <4>3, <4>4
    <3>9. \A control \in Controls[route] :
            control \in page'.refs <=> \E d \in calls' : Live(d, page.mount, control, page'.sheet)
      BY <3>7, <3>8
    <3> QED  BY <1>1, <1>10, <2>1, <2>3, <3>2, <3>9 DEF ControlsInv
  <2> QED  BY <2>2, <2>3
<1> QED  BY <1>12, <1>13, <1>14, <1>15, <1>16, <1>17, <1>18, <1>19

----------------------------------------------------------------------------
(***************************************************************************)
(* The screens' invariant, and what it says.                               *)
(***************************************************************************)
\* It holds before anything is opened.
LEMMA DetailsInitInv ==
  ASSUME DetailsInit
  PROVE  DetailsInv
<1>1. /\ route \in Kinds
      /\ api = [item |-> TRUE, laundry |-> FALSE, retired |-> FALSE,
                outfit |-> TRUE, name |-> "Monday", wears |-> 0, shares |-> 0]
      /\ page = NoPage /\ seen = NoPage /\ calls = {} /\ opening = {} /\ marks = {} /\ reads = {}
      /\ lists = [r \in Readers |-> View(r)]
      /\ used = [visits |-> 0, writes |-> 0, types |-> 0, troubles |-> 0]
      /\ excused = {} /\ tainted = FALSE
  BY DEF DetailsInit
<1>2. route \in Screens /\ MaxWrites \in Nat
  BY <1>1, DetailsBoundsAssumption DEF Screens
<1>3. api \in Apis /\ api.wears = 0 /\ api.shares = 0
  BY <1>1 DEF Apis, Flags, Names
<1>4. /\ used \in [{"visits", "writes", "types", "troubles"} -> Nat]
      /\ used["writes"] = 0
  BY <1>1
<1>5. lists = [r \in Readers |-> lists[r]] /\ \A r \in Readers : lists[r] = View(r)
  BY <1>1
<1>6. DetailTypes
  BY <1>1, <1>2, <1>3, <1>4, <1>5, FS_EmptySet DEF DetailTypes
<1>7. CountInv
  <2>1. {c \in calls : c.at = "sent"} = {}
    BY <1>1
  <2> QED  BY <1>2, <1>3, <1>4, <2>1, FS_EmptySet DEF CountInv
<1>8. HearInv
  BY <1>1, <1>5 DEF HearInv, Reading
<1>9. ScreensInv /\ AnswersInv /\ FactsInv /\ GoneInv /\ ControlsInv
  BY <1>1 DEF ScreensInv, AnswersInv, FactsInv, GoneInv, ControlsInv
<1> QED  BY <1>6, <1>7, <1>8, <1>9 DEF DetailsInv

\* It holds after every step, the screens' or another part's.
LEMMA DetailsInvStep ==
  ASSUME DetailsInv, DetailsNext \/ UNCHANGED detailsVars
  PROVE  DetailsInv'
<1>1. CASE UNCHANGED detailsVars
  <2> USE DEF DetailsInv
  <2>1. UNCHANGED <<route, api, page, seen, calls, opening, marks, lists, reads, used, excused, tainted>>
    BY <1>1 DEF detailsVars
  <2>2. DetailTypes'
    BY <2>1 DEF DetailTypes, SentIsOf
  <2>3. ScreensInv' /\ CountInv'
    BY <2>1 DEF ScreensInv, CountInv
  <2>4. HearInv'
    BY <2>1, HearRests
  <2>5. AnswersInv'
    BY <2>1, AnswersRest
  <2>6. FactsInv' /\ GoneInv'
    BY <2>1 DEF FactsInv, GoneInv, There
  <2>7. ControlsInv'
    BY <2>1 DEF ControlsInv
  <2> QED  BY <2>2, <2>3, <2>4, <2>5, <2>6, <2>7
<1>2. CASE CommitPage \/ Elsewhere \/ OpenPage \/ LeavePage \/ RetryPage \/ ToggleSheet \/ PressLog
  BY <1>2, CommitStep, ElsewhereStep, OpenStep, LeaveStep, RetryStep, ToggleStep, PressLogStep
<1>3. CASE (\E n \in Names : TypeDraft(n)) \/ (\E o \in Occasions : TypeOccasion(o))
  BY <1>3, TypeDraftStep, TypeOccasionStep
<1>4. CASE \/ \E r \in Readers : Focus(r)
           \/ \E q \in reads : ServeRead(q) \/ LoseRead(q) \/ DeliverRead(q)
  BY <1>4, FocusStep, ServeReadStep, LoseReadStep, DeliverReadStep
<1>5. CASE \E q \in opening : ServePage(q) \/ LosePage(q) \/ DeliverPage(q)
  BY <1>5, ServePageStep, LosePageStep, DeliverPageStep
<1>6. CASE \E control \in Controls[route] : Press(control)
  BY <1>6, PressStep
<1>7. CASE \E c \in calls : ServeCall(c) \/ LoseCall(c) \/ SettleCall(c)
  BY <1>7, RefusedStep, WriteStep, LoseCallStep, SettleCallStep
<1> QED  BY <1>1, <1>2, <1>3, <1>4, <1>5, <1>6, <1>7 DEF DetailsNext

\* What it says of the screens and of the lists under them.
LEMMA DetailsInvTells ==
  ASSUME DetailsInv
  PROVE  ReadersHear /\ PageIsTrue /\ OneRequestEach
<1> USE DEF DetailsInv
<1>1. ReadersHear
  BY DEF ReadersHear, HearInv
<1>2. DetailsTypeOK
  <2>1. api.wears <= MaxWrites /\ api.shares <= MaxWrites /\ api.name \in Names
    <3> DEFINE S == {c \in calls : c.at = "sent"}
    <3>1. Cardinality(S) \in Nat
      <4>1. IsFiniteSet(S)
        BY FS_Subset DEF DetailTypes
      <4> QED  BY <4>1, FS_CardinalityType
    <3> HIDE DEF S
    <3>2. api.wears \in Nat /\ api.shares \in Nat /\ api.name \in Names /\ used["writes"] \in Nat
      BY DEF DetailTypes, Apis
    <3>3. api.wears + api.shares + Cardinality(S) <= used["writes"] /\ used["writes"] <= MaxWrites
      BY DEF CountInv, S
    <3>4. MaxWrites \in Nat
      BY DetailsBoundsAssumption
    <3> QED  BY <3>1, <3>2, <3>3, <3>4
  <2>2. page # NoPage => page.kind = route /\ page \in PageStates
    BY DEF ScreensInv, DetailTypes
  <2>3. \A c \in calls : c.at \in Ends /\ c.joined \in 1..2 /\ SentIsOf(c)
    BY DEF DetailTypes, Calls
  <2> QED  BY <2>1, <2>2, <2>3 DEF DetailsTypeOK, DetailTypes, PageStates, Drafts, Ends, SentIsOf
<1>3. page.mount > 0 <=> page # NoPage
  BY MountFacts
<1>4. DetailIsTrue
  BY <1>3 DEF DetailIsTrue, FactsInv
<1>5. NotFoundIsTrue
  BY <1>3 DEF NotFoundIsTrue, GoneInv
<1>6. OneRequestEach
  <2> SUFFICES ASSUME page.mount > 0, seen = page, NEW control \in Controls[page.kind]
               PROVE  Cardinality({c \in calls : c.mount = page.mount /\ c.control = control
                                                 /\ (control = "share" => c.sent = page.sheet)})
                        = IF control \in page.refs THEN 1 ELSE 0
    BY DEF OneRequestEach
  <2> DEFINE S == {c \in calls : c.mount = page.mount /\ c.control = control
                                 /\ (control = "share" => c.sent = page.sheet)}
  <2>1. control \in page.refs <=> \E c \in calls : Live(c, page.mount, control, page.sheet)
    BY <1>3 DEF ControlsInv, ScreensInv
  <2>2. \A c : c \in S <=> c \in calls /\ Live(c, page.mount, control, page.sheet)
    BY DEF Live
  <2>3. \A c, d \in S : c = d
    BY <2>2 DEF ControlsInv, Live
  <2> HIDE DEF S
  <2>4. CASE control \in page.refs
    <3>1. PICK c \in S : TRUE
      BY <2>1, <2>2, <2>4
    <3>2. S = {c}
      BY <2>3, <3>1
    <3> QED  BY <2>4, <3>2, FS_Singleton DEF S
  <2>5. CASE control \notin page.refs
    <3>1. S = {}
      BY <2>1, <2>2, <2>5
    <3> QED  BY <2>5, <3>1, FS_EmptySet DEF S
  <2> QED  BY <2>4, <2>5
<1> QED  BY <1>1, <1>2, <1>4, <1>5, <1>6 DEF PageIsTrue

\* trackingDirty.ts:113-155, outfitsDirty.ts, for every number of writes, losses and
\* visits: once the writes have settled, a list that draws what they changed shows it,
\* is marked or is loading, but for the losses it was told of or could not be.
THEOREM ReadersAlwaysHear == TrackingSpec => []ReadersHear
<1>1. TrackingInit => DetailsInv
  BY DetailsInitInv DEF TrackingInit
<1>2. DetailsInv /\ [TrackingNext]_trackingVars => DetailsInv'
  BY DetailsInvStep DEF TrackingNext, trackingVars
<1>3. DetailsInv => ReadersHear
  BY DetailsInvTells
<1> QED  BY <1>1, <1>2, <1>3, PTL DEF TrackingSpec

\* items/[id].tsx:178-184, for every number of writes, loads and losses: the open
\* screen shows what the server holds once its writes have ended, and says not found
\* only of what is gone.
THEOREM PageAlwaysTrue == TrackingSpec => []PageIsTrue
<1>1. TrackingInit => DetailsInv
  BY DetailsInitInv DEF TrackingInit
<1>2. DetailsInv /\ [TrackingNext]_trackingVars => DetailsInv'
  BY DetailsInvStep DEF TrackingNext, trackingVars
<1>3. DetailsInv => PageIsTrue
  BY DetailsInvTells
<1> QED  BY <1>1, <1>2, <1>3, PTL DEF TrackingSpec

\* items/[id].tsx:187-208, outfits/[id].tsx:276-289, useGuardedMutation.ts, for every
\* number of presses: a control has one request on its way while its ref is set and
\* none when it is not, so a double tap is one write and no control stays stuck.
THEOREM OneRequestAlways == TrackingSpec => []OneRequestEach
<1>1. TrackingInit => DetailsInv
  BY DetailsInitInv DEF TrackingInit
<1>2. DetailsInv /\ [TrackingNext]_trackingVars => DetailsInv'
  BY DetailsInvStep DEF TrackingNext, trackingVars
<1>3. DetailsInv => OneRequestEach
  BY DetailsInvTells
<1> QED  BY <1>1, <1>2, <1>3, PTL DEF TrackingSpec
=============================================================================
