------------------------------- MODULE Ideas --------------------------------
(***************************************************************************)
(* Outfit ideas on the Add tab: the shortlist the rule engine proposes     *)
(* (suggestions.ts, suggestClient.ts, main.py, useSuggestions.ts), the     *)
(* cards that save one of them (SuggestionCard.tsx), the composer that     *)
(* makes an outfit by hand or from an idea (OutfitComposer.tsx), and the   *)
(* mode chips that mount one or the other (add.tsx).                       *)
(*                                                                         *)
(* React commits what the handlers set some time after they set it: shown  *)
(* is the committed screen.  A tap runs the closure of the last commit and *)
(* is stopped by the buttons it shows; the savingRefs change at once.      *)
(***************************************************************************)
EXTENDS Suggest, Listing

CONSTANTS
  Shelf,          \* the user's garments, as the engine is told of them
  Limit,          \* DEFAULT_SUGGESTION_LIMIT
  MaxOutfitItems, \* MAX_OUTFIT_ITEMS
  MaxGets,        \* bound: shortlists asked for
  MaxOutfitPosts, \* bound: saves
  MaxTaps,        \* bound: taps on chips, garments, Modify and the name
  MaxTroubles     \* bound: changes made to garments elsewhere and requests that fail

ASSUME ShelfAssumption == IsShelf(Shelf)
ASSUME LimitAssumption == Limit \in Nat \ {0}
ASSUME IdeasBoundsAssumption ==
  {MaxOutfitItems, MaxGets, MaxOutfitPosts, MaxTaps, MaxTroubles} \subseteq Nat

Garments == DOMAIN Shelf.category

VARIABLES
  wardrobe,       \* the user's garments at the API
  outfits,        \* the outfits the API has stored
  mode,           \* AddScreen's mode
  preselected,    \* preselectedItemIds
  composerSaving,
  savingSuggestions,
  pane,           \* SuggestionsPane with useSuggestions
  cards,          \* the cards it mounts, best first
  composer,       \* OutfitComposer
  shown,          \* the screen as last committed
  gets,           \* GET /suggestions on their way
  posts,          \* POST /outfits on their way
  spent,          \* how much of each bound is used up
  chosen,         \* history: garments chosen and not given up since
  typed           \* history: the name typed and not given up since

screen == <<mode, preselected, composerSaving, savingSuggestions, pane, cards, composer>>
ideasVars == <<wardrobe, outfits, screen, shown, gets, posts, spent, chosen, typed>>

NotChosen == <<>>
NoName == 0
Names == 0..1
NotLoaded == [loaded |-> FALSE]
NotMounted == [mount |-> 0]
Shown == [mode |-> mode, composerSaving |-> composerSaving, composer |-> composer,
          savingSuggestions |-> savingSuggestions, cards |-> cards]

IdeasTypeOK ==
  /\ wardrobe \in [Garments -> {"active", "laundry", "retired", "both", "gone"}]
  /\ mode \in {"item", "outfit", "suggestion"} /\ composerSaving \in BOOLEAN
  /\ savingSuggestions \in 0..MaxOutfitPosts
  /\ typed \in Names /\ chosen \subseteq Garments
  /\ \A p \in posts : p.from \in {"card", "composer"} /\ p.at \in {"sent", "stored", "failed"}
  /\ \A r \in gets : r.at \in {"sent", "read", "answered", "unavailable", "other"}

IdeasInit ==
  /\ wardrobe = [g \in Garments |-> "active"] /\ outfits = {}
  /\ mode = "item" /\ preselected = NotChosen /\ composerSaving = FALSE
  /\ savingSuggestions = 0
  /\ pane = NotMounted /\ cards = <<>> /\ composer = NotMounted
  /\ shown = Shown
  /\ gets = {} /\ posts = {}
  /\ spent = [gets |-> 0, posts |-> 0, taps |-> 0, troubles |-> 0]
  /\ chosen = {} /\ typed = NoName

Spend(what, max) == spent[what] < max /\ spent' = [spent EXCEPT ![what] = @ + 1]

\* A garment is laundered, retired or deleted from another screen.
ChangeElsewhere(g) ==
  /\ Spend("troubles", MaxTroubles)
  /\ wardrobe[g] # "gone"
  /\ \E s \in {"active", "laundry", "retired", "both", "gone"} \ {wardrobe[g]} :
       wardrobe' = [wardrobe EXCEPT ![g] = s]
  /\ UNCHANGED <<outfits, screen, shown, gets, posts, chosen, typed>>

----------------------------------------------------------------------------
(***************************************************************************)
(* GET /suggestions.                                                       *)
(***************************************************************************)
Count(read, statuses) == Cardinality({g \in Garments : read[g] \in statuses})

\* toDisplaySuggestion: the garments of each outfit.
SaveItemIds(ranked) == [i \in DOMAIN ranked |-> ranked[i].ids]

\* The body: retired garments are set aside first, then those in the laundry,
\* and the engine pairs the rest.
Shortlist(read) ==
  [loaded |-> TRUE, read |-> read,
   ideas |-> SaveItemIds(Suggestions(Shelf, {g \in Garments : read[g] = "active"}, AnySeason, Limit)),
   inLaundry |-> Count(read, {"laundry"}), retired |-> Count(read, {"retired", "both"})]

Request(kind) == [pane |-> kind, at |-> "sent", read |-> wardrobe]
Turns(r, s) == gets' = (gets \ {r}) \cup {s}

\* The one query of the route.
ReadWardrobe(r) ==
  /\ r.at = "sent" /\ Turns(r, [r EXCEPT !.at = "read", !.read = wardrobe])
  /\ UNCHANGED <<wardrobe, outfits, screen, shown, posts, spent, chosen, typed>>

\* The engine answers.
Engine(r) ==
  /\ r.at = "read" /\ Turns(r, [r EXCEPT !.at = "answered"])
  /\ UNCHANGED <<wardrobe, outfits, screen, shown, posts, spent, chosen, typed>>

\* The engine is down, late, answers an error or an invalid body: a 503; any
\* other failure is an error of its own.
LoseGet(r) ==
  /\ r.at \in {"sent", "read"} /\ Spend("troubles", MaxTroubles)
  /\ Turns(r, [r EXCEPT !.at = IF r.at = "read" THEN "unavailable" ELSE "other"])
  /\ UNCHANGED <<wardrobe, outfits, screen, shown, posts, chosen, typed>>

\* Mutant: an outage is an answer without suggestions.
ReplyHidesOutage(r) ==
  [pane EXCEPT !.inFlight = FALSE,
               !.failed = IF r.at = "other" THEN "other" ELSE "no",
               !.snapshot = IF r.at = "answered" THEN Shortlist(r.read)
                            ELSE IF r.at = "unavailable" THEN [Shortlist(r.read) EXCEPT !.ideas = <<>>]
                            ELSE pane.snapshot]

\* run: an answer replaces the shortlist, a failure leaves it and says so.
Reply(r) ==
  [pane EXCEPT !.inFlight = FALSE,
               !.failed = IF r.at = "answered" THEN "no" ELSE r.at,
               !.snapshot = IF r.at = "answered" THEN Shortlist(r.read) ELSE pane.snapshot]

\* The reply to a pane that is gone is dropped.
DeliverGet(r) ==
  /\ r.at \in {"answered", "unavailable", "other"} /\ gets' = gets \ {r}
  /\ pane' = IF pane.mount = r.pane THEN Reply(r) ELSE pane
  /\ UNCHANGED <<wardrobe, outfits, mode, preselected, composerSaving, savingSuggestions, cards,
                 composer, shown, posts, spent, chosen, typed>>

\* refresh: the list is pulled, or the retry pressed.
RefreshIdeas ==
  /\ shown.mode = "suggestion" /\ pane.mount > 0 /\ ~pane.inFlight
  /\ Spend("gets", MaxGets)
  /\ pane' = [pane EXCEPT !.inFlight = TRUE, !.failed = "no"]
  /\ gets' = gets \cup {Request(pane.mount)}
  /\ UNCHANGED <<wardrobe, outfits, mode, preselected, composerSaving, savingSuggestions, cards,
                 composer, shown, posts, chosen, typed>>

----------------------------------------------------------------------------
(***************************************************************************)
(* The screen.                                                             *)
(***************************************************************************)

\* The cards React mounts for the shortlist: a key that stays keeps its card.
Card(key) == [key |-> key, born |-> spent.gets, ref |-> FALSE, saving |-> FALSE, saved |-> FALSE]
Mounted ==
  IF mode # "suggestion" \/ pane.mount = 0 \/ ~pane.snapshot.loaded THEN <<>>
  ELSE LET Standing(key) == {c \in ToSet(cards) : c.key = key}
       IN [i \in DOMAIN pane.snapshot.ideas |->
             LET key == pane.snapshot.ideas[i]
             IN IF Standing(key) = {} THEN Card(key) ELSE CHOOSE c \in Standing(key) : TRUE]

\* normalisePreselection; an idea names no garment twice.
Normalised(ids) ==
  SubSeq(ids, 1, IF Len(ids) < MaxOutfitItems THEN Len(ids) ELSE MaxOutfitItems)

\* The composer is mounted with the preselection, or replaces its selection
\* by one that differs from the one it last applied.
Recomposed ==
  IF mode # "outfit" THEN NotMounted
  ELSE IF composer = NotMounted
    THEN [mount |-> spent.taps, selected |-> Normalised(preselected), name |-> NoName,
          ref |-> FALSE, saving |-> FALSE, applied |-> preselected]
  ELSE IF composer.applied # preselected
    THEN [composer EXCEPT !.selected = Normalised(preselected), !.applied = preselected]
  ELSE composer

\* React renders the screen anew; a pane it mounts loads its shortlist.
CommitScreen ==
  /\ Shown # shown \/ Mounted # cards \/ Recomposed # composer
  /\ IF mode = "suggestion" /\ pane.mount = 0
       THEN /\ Spend("gets", MaxGets)
            /\ pane' = [mount |-> spent.taps, snapshot |-> NotLoaded, failed |-> "no",
                        inFlight |-> TRUE]
            /\ gets' = gets \cup {Request(spent.taps)}
       ELSE /\ pane' = IF mode = "suggestion" THEN pane ELSE NotMounted
            /\ UNCHANGED <<gets, spent>>
  /\ cards' = Mounted
  /\ composer' = Recomposed
  /\ IF Recomposed # composer
       THEN /\ chosen' = IF mode = "outfit" THEN ToSet(Recomposed.selected) ELSE {}
            /\ typed' = IF mode = "outfit" THEN Recomposed.name ELSE NoName
       ELSE UNCHANGED <<chosen, typed>>
  /\ shown' = [mode |-> mode, composerSaving |-> composerSaving, composer |-> composer',
               savingSuggestions |-> savingSuggestions, cards |-> cards']
  /\ UNCHANGED <<wardrobe, outfits, mode, preselected, composerSaving, savingSuggestions, posts>>

\* selectMode, handleModify: the composer that is gone to starts from ids.
Goes(m, ids) == preselected' = ids /\ mode' = m

\* The chips are off while a save is under way.
SelectMode(m) ==
  /\ ~shown.composerSaving /\ shown.savingSuggestions = 0
  /\ Spend("taps", MaxTaps)
  /\ Goes(m, NotChosen)
  /\ UNCHANGED <<wardrobe, outfits, composerSaving, savingSuggestions, pane, cards, composer,
                 shown, gets, posts, chosen, typed>>

----------------------------------------------------------------------------
(***************************************************************************)
(* POST /outfits.                                                          *)
(***************************************************************************)
Sends(from, ids, name, who) ==
  posts' = posts \cup {[n |-> spent.posts, from |-> from, who |-> who, ids |-> ids,
                        name |-> name, at |-> "sent"]}
Turned(p, at) == posts' = (posts \ {p}) \cup {[p EXCEPT !.at = at]}

\* Every garment must be there and not retired.
ServePost(p) ==
  /\ p.at = "sent"
  /\ IF \A g \in ToSet(p.ids) : wardrobe[g] \in {"active", "laundry"}
       THEN outfits' = outfits \cup {[ids |-> p.ids, name |-> p.name]} /\ Turned(p, "stored")
       ELSE Turned(p, "failed") /\ UNCHANGED outfits
  /\ UNCHANGED <<wardrobe, screen, shown, gets, spent, chosen, typed>>

\* The request, or its answer, is lost.
LosePost(p) ==
  /\ p.at \in {"sent", "stored"} /\ Spend("troubles", MaxTroubles) /\ Turned(p, "failed")
  /\ UNCHANGED <<wardrobe, outfits, screen, shown, gets, chosen, typed>>

----------------------------------------------------------------------------
(***************************************************************************)
(* A card.                                                                 *)
(***************************************************************************)
Owner(c) == <<c.key, c.born>>

\* The Save button of a card, as last drawn: off during a save, and for good
\* after one.
Savable(i) == ~shown.cards[i].saving /\ ~shown.cards[i].saved

\* Mutant: the guard is the button of the last commit.
SaveCardByState(i) ==
  /\ Savable(i)
  /\ Spend("posts", MaxOutfitPosts)
  /\ cards' = [cards EXCEPT ![i] = [@ EXCEPT !.ref = TRUE, !.saving = TRUE]]
  /\ savingSuggestions' = savingSuggestions + 1
  /\ Sends("card", cards[i].key, NoName, Owner(cards[i]))
  /\ UNCHANGED <<wardrobe, outfits, mode, preselected, composerSaving, pane, composer, shown,
                 gets, chosen, typed>>

\* onSave of a card.
SaveCard(i) ==
  /\ Savable(i) /\ ~cards[i].ref
  /\ Spend("posts", MaxOutfitPosts)
  /\ cards' = [cards EXCEPT ![i] = [@ EXCEPT !.ref = TRUE, !.saving = TRUE]]
  /\ savingSuggestions' = savingSuggestions + 1
  /\ Sends("card", cards[i].key, NoName, Owner(cards[i]))
  /\ UNCHANGED <<wardrobe, outfits, mode, preselected, composerSaving, pane, composer, shown,
                 gets, chosen, typed>>

\* The end of onSave, on the card that began it if it is still there.
Settled(c, p) ==
  IF Owner(c) = p.who
    THEN [c EXCEPT !.ref = FALSE, !.saving = FALSE, !.saved = @ \/ p.at = "stored"] ELSE c

SettleCard(p) ==
  /\ p.from = "card" /\ p.at # "sent" /\ posts' = posts \ {p}
  /\ cards' = [i \in DOMAIN cards |-> Settled(cards[i], p)]
  /\ savingSuggestions' = savingSuggestions - 1
  /\ UNCHANGED <<wardrobe, outfits, mode, preselected, composerSaving, pane, composer, shown,
                 gets, spent, chosen, typed>>

\* onModifyPress, handleModify.
Modify(i) ==
  /\ ~shown.cards[i].saving /\ shown.savingSuggestions = 0 /\ ~cards[i].ref
  /\ Spend("taps", MaxTaps)
  /\ Goes("outfit", cards[i].key)
  /\ UNCHANGED <<wardrobe, outfits, composerSaving, savingSuggestions, pane, cards, composer,
                 shown, gets, posts, chosen, typed>>

----------------------------------------------------------------------------
(***************************************************************************)
(* The composer.                                                           *)
(***************************************************************************)
Composing == shown.mode = "outfit" /\ composer # NotMounted

\* What is retired or gone is not in the grid, or not for long.
Pickable(g) == wardrobe[g] \in {"active", "laundry"}

\* toggle: off the selection, or on its end while it is not full.
Toggled(ids, g) ==
  IF g \in ToSet(ids) THEN Without(ids, {g})
  ELSE IF Len(ids) < MaxOutfitItems THEN Append(ids, g) ELSE ids

\* A tap on a garment of the composer's grid.
Toggle(g) ==
  /\ Composing /\ Pickable(g) /\ Spend("taps", MaxTaps)
  /\ composer' = [composer EXCEPT !.selected = Toggled(@, g)]
  /\ chosen' = IF g \in ToSet(composer.selected) THEN chosen \ {g}
               ELSE chosen \cup (ToSet(composer'.selected) \ ToSet(composer.selected))
  /\ UNCHANGED <<wardrobe, outfits, mode, preselected, composerSaving, savingSuggestions, pane,
                 cards, shown, gets, posts, typed>>

TypeName(n) ==
  /\ Composing /\ n # composer.name /\ Spend("taps", MaxTaps)
  /\ composer' = [composer EXCEPT !.name = n] /\ typed' = n
  /\ UNCHANGED <<wardrobe, outfits, mode, preselected, composerSaving, savingSuggestions, pane,
                 cards, shown, gets, posts, chosen>>

\* onSave of the composer: it posts the selection and the name last committed.
SaveComposed ==
  /\ Composing /\ shown.composer.selected # <<>> /\ ~shown.composer.saving /\ ~composer.ref
  /\ Spend("posts", MaxOutfitPosts)
  /\ composer' = [composer EXCEPT !.ref = TRUE, !.saving = TRUE]
  /\ composerSaving' = TRUE
  /\ Sends("composer", shown.composer.selected, shown.composer.name, composer.mount)
  /\ UNCHANGED <<wardrobe, outfits, mode, preselected, savingSuggestions, pane, cards, shown,
                 gets, chosen, typed>>

\* Mutant: the whole selection is cleared.
ClearedAll(p) == [composer EXCEPT !.ref = FALSE, !.saving = FALSE,
  !.selected = IF p.at = "stored" THEN <<>> ELSE @,
  !.name = IF p.at = "stored" /\ @ = p.name THEN NoName ELSE @]

\* The end of onSave: of a save that succeeded, what was posted is cleared.
WithoutPosted(p) == [composer EXCEPT !.ref = FALSE, !.saving = FALSE,
  !.selected = IF p.at = "stored" THEN Without(@, ToSet(p.ids)) ELSE @,
  !.name = IF p.at = "stored" /\ @ = p.name THEN NoName ELSE @]

SettleComposed(p) ==
  /\ p.from = "composer" /\ p.at # "sent" /\ posts' = posts \ {p}
  /\ composer' = IF composer.mount = p.who THEN WithoutPosted(p) ELSE composer
  /\ composerSaving' = FALSE
  /\ UNCHANGED <<wardrobe, outfits, mode, preselected, savingSuggestions, pane, cards, shown,
                 gets, spent, chosen, typed>>

----------------------------------------------------------------------------
IdeasNext ==
  \/ CommitScreen \/ RefreshIdeas \/ SaveComposed
  \/ \E m \in {"item", "outfit", "suggestion"} : SelectMode(m)
  \/ \E g \in Garments : ChangeElsewhere(g) \/ Toggle(g)
  \/ \E n \in Names : TypeName(n)
  \/ \E r \in gets : ReadWardrobe(r) \/ Engine(r) \/ LoseGet(r) \/ DeliverGet(r)
  \/ \E p \in posts : ServePost(p) \/ LosePost(p) \/ SettleCard(p) \/ SettleComposed(p)
  \/ \E i \in DOMAIN cards : SaveCard(i) \/ Modify(i)

IdeasSpec == IdeasInit /\ [][IdeasNext]_ideasVars

----------------------------------------------------------------------------
(***************************************************************************)
(* Properties                                                              *)
(***************************************************************************)
Drawn == IF pane.mount > 0 /\ pane.snapshot.loaded THEN pane.snapshot.ideas ELSE <<>>

\* add.tsx:169-183: "No outfit suggestions yet" is an answer of the engine to
\* a wardrobe in which nothing pairs, never an outage, a failed retry or a
\* shortlist that has not come yet.
EmptyIsTrue ==
  pane.mount > 0 /\ pane.snapshot.loaded /\ Drawn = <<>> /\ pane.failed = "no" =>
    LET Has(slot) == \E g \in Garments : pane.snapshot.read[g] = "active" /\ Slot(Shelf, g) = slot
    IN ~Has("dress") /\ ~(Has("top") /\ Has("bottom"))

\* Every garment the shortlist was made from is in an idea's reach, or in
\* exactly one of the two notices.
NoticesAddUp ==
  pane.mount > 0 /\ pane.snapshot.loaded =>
    /\ pane.snapshot.inLaundry + pane.snapshot.retired + Count(pane.snapshot.read, {"active"})
         = Cardinality(Garments) - Count(pane.snapshot.read, {"gone"})
    /\ \A i \in DOMAIN Drawn : \A g \in ToSet(Drawn[i]) : pane.snapshot.read[g] = "active"

\* SuggestionCard.tsx:190-215: a double tap posts one outfit, and a save that
\* failed can be pressed again: the guard is held while, and only while, a
\* request of its own is out.
GuardsMatchPosts ==
  /\ \A c \in ToSet(cards) :
       Cardinality({p \in posts : p.from = "card" /\ p.who = Owner(c)}) = IF c.ref THEN 1 ELSE 0
  /\ composer # NotMounted =>
       Cardinality({p \in posts : p.from = "composer" /\ p.who = composer.mount})
         = IF composer.ref THEN 1 ELSE 0

\* add.tsx:358-373: the count is that of the cards' saves under way, cards that
\* left the screen included, and the composer's bit is never left behind; so
\* the chips come back.
ChipsMatchSaves ==
  /\ savingSuggestions = Cardinality({p \in posts : p.from = "card"})
  /\ composerSaving => \E p \in posts : p.from = "composer"

\* SuggestionCard.tsx:271-275: Modify never takes a card off the screen in the
\* frame in which its own Save was pressed.
ModifyKeepsSaving ==
  [][mode = "suggestion" /\ mode' = "outfit" /\ preselected' # NotChosen =>
       \A p \in posts : p.from = "card" => p.ids # preselected']_ideasVars

\* A card says "Saved" of an outfit the API has.
SavedIsStored == \A c \in ToSet(cards) : c.saved => \E o \in outfits : o.ids = c.key

\* OutfitComposer.tsx:349-354: a garment chosen stays chosen until an outfit
\* with it is stored or the user gives it up, a tap during a save included.
NothingChosenIsLost ==
  composer # NotMounted =>
    \A g \in chosen : g \in ToSet(composer.selected) \/ \E o \in outfits : g \in ToSet(o.ids)

\* OutfitComposer.tsx:356-359: a name typed during a save belongs to the next
\* outfit.
NothingTypedIsLost ==
  composer # NotMounted /\ typed # NoName =>
    composer.name = typed \/ \E o \in outfits : o.name = typed
=============================================================================
