------------------------------ MODULE Suggest ------------------------------
(***************************************************************************)
(* The rule engine of the AI service, suggest.py: categories pair into     *)
(* templates, seasons filter, colours rank.  A garment is its id, a        *)
(* number, so that ids are ordered; a shelf tells the category of each,    *)
(* its colours, a sequence of [hue, name, named, share] records, and the   *)
(* seasons it claims, of which none is unspecified.  Scores are counted in *)
(* twentieths, so that the engine's 1.0, 0.7, 0.5 and 0.35 are whole;      *)
(* means are compared and rounded as the quotients they are.               *)
(***************************************************************************)
EXTENDS Integers, FiniteSets, SequencesExt

CONSTANT MaxItemsPerSlot   \* MAX_ITEMS_PER_SLOT

ASSUME SlotAssumption == MaxItemsPerSlot \in Nat \ {0}

----------------------------------------------------------------------------
(***************************************************************************)
(* Category pairing.                                                       *)
(***************************************************************************)
SlotCategories ==
  [top |-> {"tshirt", "shirt"}, bottom |-> {"trousers", "shorts", "skirt"},
   dress |-> {"dress"}, shoes |-> {"shoes"}, outerwear |-> {"jacket"},
   extra |-> {"accessory", "other"}]

OutfitTemplates ==
  << [name |-> "top_and_bottom", required |-> <<"top", "bottom">>,
      optional |-> <<"shoes", "outerwear", "extra">>],
     [name |-> "one_piece", required |-> <<"dress">>,
      optional |-> <<"shoes", "outerwear", "extra">>] >>

AlwaysFilledSlots == {"shoes"}
GatedOptionalSlots ==
  (UNION {ToSet(t.optional) : t \in ToSet(OutfitTemplates)}) \ AlwaysFilledSlots

KnownCategories == UNION {SlotCategories[s] : s \in DOMAIN SlotCategories}

\* SuggestRequest: the garments of a request are known by their ids.
IsShelf(shelf) ==
  /\ DOMAIN shelf.category \subseteq Nat /\ IsFiniteSet(DOMAIN shelf.category)
  /\ \A g \in DOMAIN shelf.category : shelf.category[g] \in KnownCategories

Slot(shelf, g) == CHOOSE s \in DOMAIN SlotCategories : shelf.category[g] \in SlotCategories[s]

----------------------------------------------------------------------------
(***************************************************************************)
(* Season.                                                                 *)
(***************************************************************************)
AnySeason == "any"

InSeason(shelf, g, season, unspecifiedCounts) ==
  \/ season = AnySeason
  \/ shelf.seasons[g] = {} /\ unspecifiedCounts
  \/ season \in shelf.seasons[g]

----------------------------------------------------------------------------
(***************************************************************************)
(* Colour.                                                                 *)
(***************************************************************************)
NeutralColourNames == {"black", "white", "grey", "beige"}
NamedColours == NeutralColourNames \cup
  {"navy", "blue", "red", "green", "yellow", "brown", "pink", "purple", "orange"}

NoColour == [name |-> "", hue |-> 0]

\* _dominant and _resolve: the first colour of the largest share; a label that
\* is not the service's own gives way to the one derived from the pixels.
Dominant(shelf, g) ==
  IF shelf.colours[g] = <<>> THEN NoColour
  ELSE LET cs == shelf.colours[g]
           i == CHOOSE i \in DOMAIN cs :
                  /\ \A j \in DOMAIN cs : cs[j].share <= cs[i].share
                  /\ \A j \in 1..(i - 1) : cs[j].share < cs[i].share
       IN [name |-> IF cs[i].name \in NamedColours THEN cs[i].name ELSE cs[i].named,
           hue |-> cs[i].hue]

\* Along the shorter arc.
HueSeparation(h, k) ==
  LET difference == IF h > k THEN h - k ELSE k - h
  IN IF difference > 180 THEN 360 - difference ELSE difference

Twentieths == [analogous |-> 20, complementary |-> 20, neutral |-> 14, none |-> 7]
SingleItemScore == 10

Relation(shelf, g, h) ==
  LET a == Dominant(shelf, g)
      b == Dominant(shelf, h)
      separation == HueSeparation(a.hue, b.hue)
  IN IF NoColour \in {a, b} THEN "none"
     ELSE IF {a.name, b.name} \cap NeutralColourNames # {} THEN "neutral"
     ELSE IF separation <= 40 THEN "analogous"
     ELSE IF separation >= 150 THEN "complementary"
     ELSE "none"

Score(shelf, g, h) == Twentieths[Relation(shelf, g, h)]

\* The scores behind _mean_pair_score, in the order they are added up, and
\* what they add up to, told by how many there are of each.
ScoresAgainst(shelf, g, chosen) == [i \in DOMAIN chosen |-> Score(shelf, g, chosen[i])]
Total(scores) ==
  LET Times(score) == Cardinality({i \in DOMAIN scores : scores[i] = score})
  IN 20 * Times(20) + 14 * Times(14) + 7 * Times(7)

\* The orders in which floating point adds the same three or four scores up
\* to a mean one unit in the last place above that of the other orders.
RoundedUp ==
  {<<20, 7, 7>>, <<7, 20, 7>>, <<14, 14, 7>>,
   <<20, 20, 14, 14>>, <<20, 14, 20, 14>>, <<14, 20, 20, 14>>,
   <<20, 20, 14, 7>>, <<20, 14, 20, 7>>, <<14, 20, 20, 7>>,
   <<20, 7, 7, 14>>, <<7, 20, 7, 14>>, <<20, 7, 7, 7>>, <<7, 20, 7, 7>>,
   <<14, 14, 7, 14>>, <<14, 14, 7, 7>>,
   <<14, 7, 7, 7>>, <<7, 14, 7, 7>>, <<7, 7, 14, 7>>}

\* Means of as many scores compare as these do.
Weight(scores) == 2 * Total(scores) + (IF scores \in RoundedUp THEN 1 ELSE 0)

\* _outfit_score over every pair, rounded to SCORE_DECIMALS: in thousandths.
Pairs(chosen) == {p \in (DOMAIN chosen) \X (DOMAIN chosen) : p[1] < p[2]}
OutfitScore(shelf, chosen) ==
  LET n == Cardinality(Pairs(chosen))
      total == Total([p \in Pairs(chosen) |-> Score(shelf, chosen[p[1]], chosen[p[2]])])
  IN IF n = 0 THEN 50 * SingleItemScore ELSE (100 * total + n) \div (2 * n)

Relations(shelf, chosen) ==
  {Relation(shelf, chosen[p[1]], chosen[p[2]]) : p \in Pairs(chosen)} \ {"none"}

\* _rationale: the template, the relations that fired, and what is claimed of
\* the season.
Rationale(shelf, template, chosen, season) ==
  [template |-> template.name, relations |-> Relations(shelf, chosen),
   season |-> IF season = AnySeason THEN "unsaid"
              ELSE IF \A g \in ToSet(chosen) : season \in shelf.seasons[g] THEN "all"
              ELSE "suitable"]

----------------------------------------------------------------------------
(***************************************************************************)
(* Assembly.                                                               *)
(***************************************************************************)

Eligible(shelf, g, slot, season) ==
  Slot(shelf, g) = slot /\ InSeason(shelf, g, season, slot \notin GatedOptionalSlots)

\* _pools: the eligible garments of a slot, those of the lowest ids if they
\* are too many.
Pool(shelf, items, slot, season) ==
  LET eligible == {g \in items : Eligible(shelf, g, slot, season)}
  IN {g \in eligible : Cardinality({h \in eligible : h < g}) < MaxItemsPerSlot}

\* _best_candidate: of a pool that is empty, none.
BestCandidates(shelf, pool, chosen) ==
  {g \in pool : \A h \in pool \ {g} :
     LET a == Weight(ScoresAgainst(shelf, g, chosen))
         b == Weight(ScoresAgainst(shelf, h, chosen))
     IN a > b \/ (a = b /\ g < h)}

\* A slot that is not always filled takes only a garment some relation speaks for.
Earns(shelf, slot, candidate, chosen) ==
  \/ slot \in AlwaysFilledSlots
  \/ Total(ScoresAgainst(shelf, candidate, chosen)) > Twentieths["none"] * Len(chosen)

Filled(shelf, chosen, slot, pool) ==
  LET earners == {g \in BestCandidates(shelf, pool, chosen) : Earns(shelf, slot, g, chosen)}
  IN IF earners = {} THEN chosen ELSE Append(chosen, CHOOSE g \in earners : TRUE)

\* _compose: the optional slots in their declared order, each against
\* everything chosen so far.
Composed(shelf, template, base, items, season) ==
  LET With(chosen, k) ==
        Filled(shelf, chosen, template.optional[k], Pool(shelf, items, template.optional[k], season))
  IN With(With(With(base, 1), 2), 3)

OutfitOf(shelf, template, chosen, season) ==
  [ids |-> chosen, score |-> OutfitScore(shelf, chosen),
   why |-> Rationale(shelf, template, chosen, season)]

\* _base_combinations: one garment for each required slot.
Bases(shelf, template, items, season) ==
  {base \in [DOMAIN template.required -> items] :
     \A i \in DOMAIN base : base[i] \in Pool(shelf, items, template.required[i], season)}

\* Tuples of ids compare as Python's do.
Lower(s, t) ==
  \E i \in 1..(Len(s) + 1) :
    /\ \A j \in 1..(i - 1) : j \in DOMAIN t /\ s[j] = t[j]
    /\ i \in DOMAIN t
    /\ i > Len(s) \/ s[i] < t[i]

\* Mutant: ties are left as they were generated.
BeforeByScore(a, b) == a.score > b.score \/ (a.score = b.score /\ Lower(b.ids, a.ids))

\* Best first, ties by id.
Before(a, b) == a.score > b.score \/ (a.score = b.score /\ Lower(a.ids, b.ids))

Candidates(shelf, items, season) ==
  UNION {{OutfitOf(shelf, t, Composed(shelf, t, base, items, season), season) :
            base \in Bases(shelf, t, items, season)} : t \in ToSet(OutfitTemplates)}

\* Each has the place that those before it leave it.
Ranked(outfits) ==
  [k \in 1..Cardinality(outfits) |->
     CHOOSE o \in outfits : Cardinality({p \in outfits : Before(p, o)}) = k - 1]

\* suggest: the best of them, at most limit.
Limited(outfits, limit) ==
  LET most == Cardinality(outfits)
  IN SubSeq(Ranked(outfits), 1, IF most < limit THEN most ELSE limit)

Suggestions(shelf, items, season, limit) == Limited(Candidates(shelf, items, season), limit)
=============================================================================
