----------------------------- MODULE AddScreen ------------------------------
(***************************************************************************)
(* The Add tab (add.tsx): the item form, and outfit ideas, with the engine *)
(* behind the ideas asked on its own about more wardrobes.  The form's     *)
(* state outlives a change of mode and shares nothing with the shortlist   *)
(* and the composer but the chips, which its busy disables as their saves  *)
(* do; so the hand of a user is followed in one part or in the other.      *)
(***************************************************************************)
EXTENDS ItemForm, Ideas, Engine

VARIABLE hand   \* the part of the tab that is used

\* Each part starts as it is when nobody has come to it.
AddInit ==
  /\ hand \in {"form", "ideas", "engine"}
  /\ FormInit /\ IdeasInit
  /\ IF hand = "engine" THEN EngineInit
     ELSE shape = NoAnswer /\ season = "any" /\ answer = NoAnswer

AddNext ==
  \/ hand = "form" /\ FormNext /\ UNCHANGED <<ideasVars, engineVars, hand>>
  \/ hand = "ideas" /\ IdeasNext /\ UNCHANGED <<formVars, engineVars, hand>>
  \/ hand = "engine" /\ Ask /\ UNCHANGED <<formVars, ideasVars, hand>>

\* Types of every part.
AddTypeOK == FormTypeOK /\ IdeasTypeOK

AddSpec == AddInit /\ [][AddNext]_<<formVars, ideasVars, engineVars, hand>>

(***************************************************************************)
(* Properties of the parts, as the run checks them                         *)
(***************************************************************************)

\* However presses land in one frame, each starts one request, whose guard,
\* chip and native image are given back when it ends.
OneRequestEach ==
  AddTypeOK /\ OneUploadAtATime /\ NothingHeld /\ GuardsMatchPosts /\ ChipsMatchSaves

\* Nothing is called uploaded, corrected or saved that the API has not stored.
NothingIsMadeUp == ClaimsAreStored /\ SavedIsStored

\* A photo, a garment chosen, a name typed and a card being saved stay until
\* what they are for is done, whatever fails or is pressed meanwhile.
NothingIsLost ==
  [](NothingChosenIsLost /\ NothingTypedIsLost) /\ PhotoSurvivesFailure /\ ModifyKeepsSaving

\* The shortlist tells of the wardrobe it was made from.
ShortlistIsTrue == EmptyIsTrue /\ NoticesAddUp

\* suggest.py: what the engine proposes is in season, justified, as much as
\* there is, and the best there is.
EngineMeetsItsRules == SeasonHonoured /\ EmptyMeansNone /\ NothingUnearned /\ BestFirst
=============================================================================
