------------------------------- MODULE Engine -------------------------------
(***************************************************************************)
(* The rule engine asked about wardrobes of every shape, a season at a     *)
(* time (POST /suggest of the AI service, main.py, over suggest.py).       *)
(* No season is asked by the app today; the service answers all of them.   *)
(***************************************************************************)
EXTENDS Suggest

CONSTANTS
  Shapes,         \* the wardrobes asked about
  AskedSeasons,   \* the seasons asked, "any" for none
  AskedLimit      \* the limit of the request

ASSUME ShapesAssumption == \A shelf \in Shapes : IsShelf(shelf)
ASSUME AskedAssumption == AskedLimit \in Nat \ {0}

VARIABLES
  shape,          \* the wardrobe sent
  season,         \* the season asked
  answer          \* the suggestions returned

engineVars == <<shape, season, answer>>

NoAnswer == [given |-> FALSE]

EngineInit == shape \in Shapes /\ season \in AskedSeasons /\ answer = NoAnswer

\* POST /suggest: one request, one answer.
Ask ==
  /\ answer = NoAnswer
  /\ answer' = [given |-> TRUE,
                ideas |-> Suggestions(shape, DOMAIN shape.category, season, AskedLimit)]
  /\ UNCHANGED <<shape, season>>

----------------------------------------------------------------------------
Worn(idea) == {idea.ids[i] : i \in DOMAIN idea.ids}

Claims(g) == shape.seasons[g]
Fits(g) == season = "any" \/ season \in Claims(g)

\* suggest.py:149-193: a garment that claims seasons is never suggested in
\* another one, and one that claims none only where something must be worn:
\* a coat nobody gave a season never turns up as one for the summer.
SeasonHonoured ==
  answer.given => \A i \in DOMAIN answer.ideas : \A g \in Worn(answer.ideas[i]) :
    Fits(g) \/ (Claims(g) = {} /\ shape.category[g] \notin {"jacket", "accessory", "other"})

\* suggest.py:522-576, and useSuggestions.ts:188-211, which tells the user that
\* the wardrobe makes no outfit: no idea is given exactly when there is no
\* dress, or no top or no bottom, that fits or claims no season.
EmptyMeansNone ==
  answer.given =>
    LET wearable == {shape.category[g] : g \in {g \in DOMAIN shape.category :
                                                  Fits(g) \/ Claims(g) = {}}}
    IN (answer.ideas = <<>>) <=>
         /\ "dress" \notin wearable
         /\ wearable \cap {"tshirt", "shirt"} = {} \/ wearable \cap {"trousers", "shorts", "skirt"} = {}

\* suggest.py:492-513: a jacket or an extra is in an outfit only if some
\* relation speaks for it with a garment listed before it.
NothingUnearned ==
  answer.given => \A i \in DOMAIN answer.ideas :
    LET ids == answer.ideas[i].ids
    IN \A k \in DOMAIN ids : shape.category[ids[k]] \in {"jacket", "accessory", "other"} =>
         \E j \in 1..(k - 1) : Relation(shape, ids[k], ids[j]) # "none"

\* suggest.py:559-576: the ideas are in one order, the best first and equals by
\* the ids they list, so that the same wardrobe always reads the same way.
BestFirst ==
  answer.given => \A i \in DOMAIN answer.ideas : \A k \in DOMAIN answer.ideas : i < k =>
    LET a == answer.ideas[i]
        b == answer.ideas[k]
    IN /\ a.score >= b.score
       /\ a.score = b.score => a.ids # b.ids /\ Lower(a.ids, b.ids)
=============================================================================
