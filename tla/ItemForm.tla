------------------------------ MODULE ItemForm ------------------------------
(***************************************************************************)
(* Adding an item, on the Add tab of the mobile app: capture a photo,      *)
(* compress it and its thumbnail, upload both, and correct the category    *)
(* the AI service gave it (add.tsx, capture.ts, compress.ts, thumbnail.ts, *)
(* uploadItem.ts, tagClient.ts).  A photo is its place in the order they   *)
(* were taken, and so is an item.                                          *)
(*                                                                         *)
(* React commits what the handlers set some time after they set it (seen   *)
(* is the committed form): a tap runs the closure of the last commit and   *)
(* is stopped by the buttons it shows, while busyRef changes at once.      *)
(***************************************************************************)
EXTENDS Integers, FiniteSets, Sequences

CONSTANTS
  Categories,    \* ITEM_CATEGORIES
  First,         \* the one the form starts with
  MaxPhotos,     \* bound: captures started
  MaxItems,      \* bound: items stored
  MaxOverrides,  \* bound: corrections sent
  MaxSlips       \* bound: steps that fail

ASSUME CategoriesAssumption == First \in Categories
ASSUME FormBoundsAssumption == {MaxPhotos, MaxItems, MaxOverrides, MaxSlips} \subseteq Nat

Photos == 1..MaxPhotos
None == 0
NoTag == "none"

VARIABLES
  image,      \* the photo in the form
  category,   \* the category picked for it
  saved,      \* savedItem, with overridden
  busyRef,    \* busyRef; busy follows it
  seen,       \* the form as last committed
  taken,      \* captures started
  captures,   \* captures whose camera or picker is open
  jobs,       \* runs of onSave
  held,       \* native contexts and bitmaps not yet released
  overrides,  \* corrections on their way
  sent,       \* corrections sent
  stored,     \* the items the API has stored
  slips,      \* steps that failed
  said        \* history: the categories each stored item has had

formVars == <<image, category, saved, busyRef, seen, taken, captures, jobs, held, overrides,
              sent, stored, slips, said>>

NotSaved == [item |-> None, category |-> First, tagged |-> FALSE, overridden |-> FALSE]
Fields == [image |-> image, category |-> category, saved |-> saved, busy |-> busyRef]

FormTypeOK ==
  /\ image \in Photos \cup {None} /\ category \in Categories
  /\ saved \in [item : 0..MaxItems, category : Categories, tagged : BOOLEAN, overridden : BOOLEAN]
  /\ busyRef \in BOOLEAN /\ taken \in 0..MaxPhotos /\ captures \subseteq 1..taken
  /\ \A j \in jobs : j.at \in {"open", "render", "write", "post", "stored", "failed"}
  /\ held \subseteq {"context", "bitmap"}
  /\ sent \in 0..MaxOverrides /\ slips \in 0..MaxSlips
  /\ DOMAIN stored = 1..Cardinality(DOMAIN stored)

FormInit ==
  /\ image = None /\ category = First /\ saved = NotSaved /\ busyRef = FALSE
  /\ seen = Fields
  /\ taken = 0 /\ captures = {} /\ jobs = {} /\ held = {} /\ overrides = {} /\ sent = 0
  /\ stored = <<>> /\ slips = 0 /\ said = <<>>

Slip == slips < MaxSlips /\ slips' = slips + 1

\* React renders the form anew.
Commit ==
  /\ seen # Fields /\ seen' = Fields
  /\ UNCHANGED <<image, category, saved, busyRef, taken, captures, jobs, held, overrides,
                 sent, stored, slips, said>>

----------------------------------------------------------------------------
(***************************************************************************)
(* The photo.                                                              *)
(***************************************************************************)

\* handleCapture, up to the camera or the picker.
Capture ==
  /\ ~seen.busy /\ ~busyRef
  /\ taken < MaxPhotos /\ taken' = taken + 1
  /\ captures' = captures \cup {taken + 1}
  /\ UNCHANGED <<image, category, saved, busyRef, seen, jobs, held, overrides, sent, stored,
                 slips, said>>

\* A photo comes back and takes the form over, or none does.
CaptureLands(c) ==
  /\ captures' = captures \ {c}
  /\ \/ image' = c /\ saved' = NotSaved
     \/ UNCHANGED <<image, saved>>
  /\ UNCHANGED <<category, busyRef, seen, taken, jobs, held, overrides, sent, stored, slips, said>>

\* The picker is there until an upload has said what the item is.
Pick(c) ==
  /\ seen.saved = NotSaved /\ category # c /\ category' = c
  /\ UNCHANGED <<image, saved, busyRef, seen, taken, captures, jobs, held, overrides, sent,
                 stored, slips, said>>

----------------------------------------------------------------------------
(***************************************************************************)
(* The upload.                                                             *)
(***************************************************************************)

\* onSave, up to its first await.
Save ==
  /\ seen.image # None /\ ~seen.busy /\ ~busyRef
  /\ busyRef' = TRUE
  /\ jobs' = jobs \cup {[image |-> seen.image, category |-> seen.category, part |-> "photo",
                         at |-> "open", reply |-> NotSaved]}
  /\ UNCHANGED <<image, category, saved, seen, taken, captures, held, overrides, sent, stored,
                 slips, said>>

Becomes(j, k) == jobs' = (jobs \ {j}) \cup {k}

\* A context on the photo; then its bitmap.
OpenContext(j) ==
  /\ j.at = "open" /\ held' = held \cup {"context"} /\ Becomes(j, [j EXCEPT !.at = "render"])
  /\ UNCHANGED <<image, category, saved, busyRef, seen, taken, captures, overrides, sent,
                 stored, slips, said>>

RenderBitmap(j) ==
  /\ j.at = "render" /\ held' = held \cup {"bitmap"} /\ Becomes(j, [j EXCEPT !.at = "write"])
  /\ UNCHANGED <<image, category, saved, busyRef, seen, taken, captures, overrides, sent,
                 stored, slips, said>>

Continued(j) ==
  IF j.part = "photo" THEN [j EXCEPT !.part = "thumbnail", !.at = "open"] ELSE [j EXCEPT !.at = "post"]

\* The photo, then the thumbnail, then the request.
WriteJpeg(j) ==
  /\ j.at = "write" /\ held' = {} /\ Becomes(j, Continued(j))
  /\ UNCHANGED <<image, category, saved, busyRef, seen, taken, captures, overrides, sent,
                 stored, slips, said>>

\* Rendering or writing fails: for the photo that ends the save, for the
\* thumbnail it does not; what is held is released either way.
ImageFails(j) ==
  /\ j.at \in {"render", "write"} /\ Slip /\ held' = {}
  /\ Becomes(j, IF j.part = "photo" THEN [j EXCEPT !.at = "failed"] ELSE Continued(j))
  /\ UNCHANGED <<image, category, saved, busyRef, seen, taken, captures, overrides, sent, stored, said>>

\* POST /items: the AI service's category, or the one picked when it gives
\* none in time.  A failed call may have been applied.
Upload(j) ==
  /\ j.at = "post" /\ Len(stored) < MaxItems
  /\ \E tag \in Categories \cup {NoTag} :
       LET row == [item |-> Len(stored) + 1, category |-> IF tag = NoTag THEN j.category ELSE tag,
                   tagged |-> tag # NoTag, overridden |-> FALSE]
           Insert == /\ stored' = Append(stored, [image |-> j.image, category |-> row.category])
                     /\ said' = Append(said, <<row.category>>)
       IN \/ Insert /\ Becomes(j, [j EXCEPT !.at = "stored", !.reply = row]) /\ UNCHANGED slips
          \/ /\ Slip /\ Becomes(j, [j EXCEPT !.at = "failed"])
             /\ Insert \/ UNCHANGED <<stored, said>>
  /\ UNCHANGED <<image, category, saved, busyRef, seen, taken, captures, held, overrides, sent>>

\* The end of onSave: success clears the form, failure leaves it for another
\* try; the guard is released either way.
FinishSave(j) ==
  /\ j.at \in {"stored", "failed"} /\ jobs' = jobs \ {j} /\ busyRef' = FALSE
  /\ IF j.at = "stored" THEN image' = None /\ category' = First /\ saved' = j.reply
       ELSE UNCHANGED <<image, category, saved>>
  /\ UNCHANGED <<seen, taken, captures, held, overrides, sent, stored, slips, said>>

----------------------------------------------------------------------------
(***************************************************************************)
(* The correction.                                                         *)
(***************************************************************************)

\* handleOverride: offered for what the AI tagged, and not guarded.
Override(c) ==
  /\ seen.saved.tagged /\ sent < MaxOverrides /\ sent' = sent + 1
  /\ overrides' = overrides \cup {[id |-> sent + 1, item |-> seen.saved.item, category |-> c,
                                   at |-> "sent"]}
  /\ UNCHANGED <<image, category, saved, busyRef, seen, taken, captures, jobs, held, stored,
                 slips, said>>

\* PATCH /items/:id writes the category and nothing else.
ServeOverride(o) ==
  /\ o.at = "sent"
  /\ LET Write == /\ stored' = [stored EXCEPT ![o.item].category = o.category]
                  /\ said' = [said EXCEPT ![o.item] = Append(@, o.category)]
     IN \/ /\ Write /\ UNCHANGED slips
           /\ overrides' = (overrides \ {o}) \cup {[o EXCEPT !.at = "written"]}
        \/ /\ Slip /\ (Write \/ UNCHANGED <<stored, said>>)
           /\ overrides' = (overrides \ {o}) \cup {[o EXCEPT !.at = "failed"]}
  /\ UNCHANGED <<image, category, saved, busyRef, seen, taken, captures, jobs, held, sent>>

\* Mutant: the correction is shown whether or not it was written.
OverrideLandsAnyway(o) ==
  /\ o.at # "sent" /\ overrides' = overrides \ {o}
  /\ saved' = [item |-> o.item, category |-> o.category, tagged |-> TRUE, overridden |-> TRUE]
  /\ UNCHANGED <<image, category, busyRef, seen, taken, captures, jobs, held, sent, stored,
                 slips, said>>

\* The answer replaces the item shown, whichever item is shown by now.
OverrideLands(o) ==
  /\ o.at # "sent" /\ overrides' = overrides \ {o}
  /\ saved' = IF o.at = "written"
                THEN [item |-> o.item, category |-> o.category, tagged |-> TRUE, overridden |-> TRUE]
                ELSE saved
  /\ UNCHANGED <<image, category, busyRef, seen, taken, captures, jobs, held, sent, stored,
                 slips, said>>

----------------------------------------------------------------------------
FormNext ==
  \/ Commit \/ Capture \/ Save
  \/ \E c \in captures : CaptureLands(c)
  \/ \E c \in Categories : Pick(c) \/ Override(c)
  \/ \E j \in jobs : \/ OpenContext(j) \/ RenderBitmap(j) \/ WriteJpeg(j) \/ ImageFails(j)
                     \/ Upload(j) \/ FinishSave(j)
  \/ \E o \in overrides : ServeOverride(o) \/ OverrideLands(o)

FormSpec == FormInit /\ [][FormNext]_formVars

----------------------------------------------------------------------------
(***************************************************************************)
(* Properties                                                              *)
(***************************************************************************)

\* Two presses of one frame start one upload: the second sees the button of
\* the last commit, and only the guard stops it.
OneUploadAtATime == Cardinality(jobs) <= 1

\* Nothing native outlives the save that opened it, however it ends.
NothingHeld == (\A j \in jobs : j.at \notin {"render", "write"}) => held = {}

\* What the screen says of an item, the API has once stored for it; what it
\* says the AI said, the AI said: corrections that fail, arrive late or come
\* after another photo was uploaded included.
ClaimsAreStored ==
  saved # NotSaved =>
    /\ \E n \in DOMAIN said[saved.item] : said[saved.item][n] = saved.category
    /\ ~saved.overridden => said[saved.item][1] = saved.category

\* A photo leaves the form for another one or because an upload succeeded;
\* after a failed one it is still there to be tried again.
PhotoSurvivesFailure ==
  [][image # None /\ image' = None => \E j \in jobs \ jobs' : j.at = "stored"]_formVars
=============================================================================
