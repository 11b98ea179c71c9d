------------------------------ MODULE Reception ------------------------------
(***************************************************************************)
(* How the API reads what it is sent, before and after its handlers run:   *)
(* the parts of an upload (items.ts), ids, texts, search terms and         *)
(* cursors (community.ts, outfits.ts, wearHistory.ts, outfitPlans.ts,      *)
(* pagination.ts), and the colours of a garment on their way from a photo  *)
(* to the rule engine (colour.py, main.py, tagClient.ts, suggestions.ts).  *)
(*                                                                         *)
(* A behaviour follows one request, or one list from page to page while    *)
(* its rows come and go.                                                   *)
(***************************************************************************)
EXTENDS Integers, FiniteSets, Sequences, SequencesExt

CONSTANTS
  MaxText,      \* the longest caption, name or occasion
  MaxTerm,      \* bound: characters of a search term and of a caption searched
  Instants,     \* createdAt of rows
  MaxIds,       \* bound: rows of one instant
  MaxAsked,     \* MAX_LIMIT
  MaxRowChanges \* bound: rows that come or go during a walk

ASSUME ReceptionAssumption ==
  /\ {MaxText, MaxTerm, MaxIds, MaxAsked} \subseteq Nat \ {0}
  /\ Instants \subseteq Nat \ {0} /\ MaxRowChanges \in Nat

VARIABLES
  asked,      \* the request
  reply,      \* what the API made of it
  listed,     \* the rows of a list, for a request that pages
  walked      \* the pages told so far, and the history of the rows

receptionVars == <<asked, reply, listed, walked>>

Waiting == [status |-> 0]
Refused(status, path) == [status |-> status, path |-> path]
Accepted(what) == [status |-> 200, what |-> what]
Taken == reply.status = 200

\* What a query parameter may be but for a number.
Absent == -1
NotANumber == -2
NotADate == 0
NotAnId == 0

----------------------------------------------------------------------------
(***************************************************************************)
(* POST /items: the parts of an upload.                                    *)
(***************************************************************************)
AllowedTypes == {"jpeg", "png", "webp"}
ThumbnailCap == 1   \* of three sizes, the largest a thumbnail may have
UploadCap == 2      \* and the largest multer lets through

\* The first bytes of a file, in words.
Signatures == {<<"ffd8ff">>, <<"89504e47", "0d0a1a0a">>, <<"89504e47">>,
             <<"RIFF", "size", "WEBP">>, <<"RIFF", "size", "WAVE">>}

Parts == [declared : {"jpeg", "webp", "gif"}, bytes : Signatures, size : 1..3]
NoPart == [size |-> 0]

DetectImageType(bytes) ==
  CASE IsPrefix(<<"ffd8ff">>, bytes) -> "jpeg"
    [] IsPrefix(<<"89504e47", "0d0a1a0a">>, bytes) -> "png"
    [] Len(bytes) >= 3 /\ bytes[1] = "RIFF" /\ bytes[3] = "WEBP" -> "webp"
    [] OTHER -> "none"

\* What is declared narrows, and the bytes decide.
ValidateImagePart(part) ==
  part.declared \in AllowedTypes /\ DetectImageType(part.bytes) = part.declared

\* The object's name ends as the bytes say; it is served as it was declared.
ObjectFor(part) == [ext |-> DetectImageType(part.bytes), servedAs |-> part.declared, size |-> part.size]

\* A field of a form comes any number of times, none included.
NormaliseSeasons(raw) == Range(raw)
KnownSeasons(seasons) == seasons \subseteq {"spring", "summer", "autumn", "winter"}

\* The guards of the handler, in their order; multer's cap comes before them.
ReadUpload(r) ==
  IF r.image.size > UploadCap \/ r.thumbnail.size > UploadCap THEN Refused(413, "image")
  ELSE IF r.image = NoPart THEN Refused(400, "image")
  ELSE IF ~ValidateImagePart(r.image) THEN Refused(400, "image")
  ELSE IF r.thumbnail # NoPart /\ ~ValidateImagePart(r.thumbnail) THEN Refused(400, "thumbnail")
  ELSE IF r.thumbnail.size > ThumbnailCap THEN Refused(413, "thumbnail")
  ELSE IF ~r.category \/ ~KnownSeasons(NormaliseSeasons(r.seasons)) THEN Refused(400, "metadata")
  ELSE Accepted([image |-> ObjectFor(r.image),
                 thumbnail |-> IF r.thumbnail = NoPart THEN NoPart ELSE ObjectFor(r.thumbnail)])

Uploads == [to : {"upload"}, image : Parts \cup {NoPart}, thumbnail : Parts \cup {NoPart},
            category : BOOLEAN, seasons : {<<>>, <<"winter">>, <<"summer", "winter">>, <<"monsoon">>}]

----------------------------------------------------------------------------
(***************************************************************************)
(* Ids.  The hexadecimal digits of an id may be of either case.            *)
(***************************************************************************)
Ids == {"mine", "MINE", "theirs", "nobody's", "malformed"}
WellFormed(id) == id # "malformed"
Canonical(id) == IF id = "MINE" THEN "mine" ELSE id

\* Of the caller's own, by the canonical id; or one refusal for all the rest.
FindOwned(id, refusal) ==
  IF WellFormed(id) /\ Canonical(id) = "mine" THEN Accepted("mine") ELSE refusal

FindOwnedItem(id) == FindOwned(id, Refused(404, "Item not found"))
FindOwnedOutfit(id) == FindOwned(id, Refused(404, "Outfit not found"))
FindWornOutfit(id) == FindOwned(id, Refused(400, "outfitId"))
FindPlannedOutfit(id) == FindOwned(id, Refused(400, "outfitId"))
FindSharedOutfit(id) == FindOwned(id, Refused(404, "Outfit not found"))

\* loadAuthor: a token outlives its account, and shares nothing then.
LoadAuthor(there) == IF there THEN Accepted("author") ELSE Refused(401, "author")

Named == [to : {"item", "outfit", "wear", "plan"}, id : Ids]

Find(r) ==
  CASE r.to = "item"   -> FindOwnedItem(r.id)
    [] r.to = "outfit" -> FindOwnedOutfit(r.id)
    [] r.to = "wear"   -> FindWornOutfit(r.id)
    [] r.to = "plan"   -> FindPlannedOutfit(r.id)

\* canonicalId: the engine's own ids, of the garments it was sent, in whatever
\* case they come back; what was never sent resolves to nothing.
Echoed(ids) == SelectSeq([i \in DOMAIN ids |-> IF WellFormed(ids[i]) THEN Canonical(ids[i]) ELSE ids[i]],
                         LAMBDA id : id = "mine")

Echoes == [to : {"echo"}, ids : UNION {[1..n -> Ids] : n \in 1..2}]

----------------------------------------------------------------------------
(***************************************************************************)
(* GET /outfits, GET /outfits/:id: a composition of which garments went.   *)
(***************************************************************************)
Worn == 1..3
Compositions == {s \in UNION {[1..n -> Worn] : n \in 1..3} : IsInjective(s)}
NoUrl == <<"none", 0>>

\* signCover: the thumbnail, or the photo of a garment that has none.
SignCover(r, g) ==
  IF g \in r.gone THEN NoUrl ELSE <<IF g \in r.small THEN "thumbnail" ELSE "image", g>>

\* coverUrlFor: the first garment's, or none; never the next one's.
CoverUrlFor(r) == SignCover(r, r.ids[1])

\* detailItems: what is left, in the order it was composed in.
DetailItems(r) == SelectSeq(r.ids, LAMBDA g : g \notin r.gone)

Details == [to : {"detail"}, ids : Compositions, gone : SUBSET Worn, small : SUBSET Worn]

ReadDetail(r) == Accepted([cover |-> CoverUrlFor(r), items |-> DetailItems(r)])

----------------------------------------------------------------------------
(***************************************************************************)
(* GET /outfit-plans?from=&to=                                             *)
(***************************************************************************)
Bounds == {Absent, NotADate, 1, 2}

\* parseRangeBound: no bound is left open.
ParseRangeBound(raw, path) ==
  IF raw \in {Absent, NotADate} THEN Refused(400, path) ELSE Accepted(raw)

Windows == [to : {"window"}, from : Bounds, until : Bounds]

\* The plans of the days from one bound to the other, both included, in order.
ReadWindow(r) ==
  IF ParseRangeBound(r.from, "from").status # 200 THEN ParseRangeBound(r.from, "from")
  ELSE IF ParseRangeBound(r.until, "to").status # 200 THEN ParseRangeBound(r.until, "to")
  ELSE IF r.until < r.from THEN Refused(400, "to")
  ELSE Accepted([k \in 1..r.until - r.from + 1 |-> r.from + k - 1])

----------------------------------------------------------------------------
(***************************************************************************)
(* Texts: their length without outer white space, and whether there is any.*)
(***************************************************************************)
Texts == [padded : BOOLEAN, length : 0..MaxText + 1]
NoText == [padded |-> FALSE, length |-> 0]
Trim(t) == [t EXCEPT !.padded = FALSE]
AsTyped(t) == IF t.padded THEN t.length + 1 ELSE t.length

\* shareSchema: a caption is trimmed first, and has something in it.
Caption(t) == IF t.length \in 1..MaxText THEN Accepted(Trim(t)) ELSE Refused(400, "caption")

\* nameSchema, normaliseName: a blank name is no name.
Name(t) == IF t.length > MaxText THEN Refused(400, "name") ELSE Accepted(Trim(t))

\* occasionSchema: as a name.
WornOccasion(t) == IF t.length > MaxText THEN Refused(400, "occasion") ELSE Accepted(Trim(t))
PlannedOccasion(t) == IF t.length > MaxText THEN Refused(400, "occasion") ELSE Accepted(Trim(t))

\* parseOccasion of GET /suggestions: forwarded as it was typed.
ParseOccasion(t) ==
  IF AsTyped(t) \in 1..MaxText THEN Accepted(t) ELSE Refused(400, "occasion")

Typed == [to : {"name", "worn", "planned", "asked"}, text : Texts]

ReadText(r) ==
  CASE r.to = "name"    -> Name(r.text)
    [] r.to = "worn"    -> WornOccasion(r.text)
    [] r.to = "planned" -> PlannedOccasion(r.text)
    [] r.to = "asked"   -> ParseOccasion(r.text)

\* POST /community/posts: the body, then the outfit, then the author.
Shares == [to : {"share"}, id : Ids, text : Texts, author : BOOLEAN]

ReadShare(r) ==
  IF Caption(r.text).status # 200 THEN Caption(r.text)
  ELSE IF FindSharedOutfit(r.id).status # 200 THEN FindSharedOutfit(r.id)
  ELSE IF LoadAuthor(r.author).status # 200 THEN LoadAuthor(r.author)
  ELSE Caption(r.text)

----------------------------------------------------------------------------
(***************************************************************************)
(* GET /community/posts?q=                                                 *)
(***************************************************************************)
Signs == {"a", ".", "\\", " "}
Nul == "NUL"
Strings(signs) == UNION {[1..n -> signs] : n \in 0..MaxTerm}
Solid(s) == {i \in DOMAIN s : s[i] # " "}

\* String.trim, which leaves a NUL alone.
TrimTerm(s) ==
  IF Solid(s) = {} THEN <<>>
  ELSE SubSeq(s, CHOOSE i \in Solid(s) : \A j \in Solid(s) : i <= j,
                 CHOOSE i \in Solid(s) : \A j \in Solid(s) : i >= j)

\* The captions that may be stored: trimmed, and not blank.
Captions == {c \in Strings(Signs) : c # <<>> /\ TrimTerm(c) = c}

EscapeRegex(s) ==
  FlattenSeq([i \in DOMAIN s |-> IF s[i] \in {".", "\\"} THEN <<"\\", s[i]>> ELSE <<s[i]>>])

ControlCharacters == {Nul}

\* mongod's reading of a pattern: a dot stands for any character, a backslash
\* makes the next one literal, and ends none.
Pattern(s) ==
  FoldLeft(LAMBDA p, c : IF p.open THEN [atoms |-> Append(p.atoms, c), open |-> FALSE]
                         ELSE IF c = "\\" THEN [p EXCEPT !.open = TRUE]
                         ELSE [p EXCEPT !.atoms = Append(@, IF c = "." THEN "any" ELSE c)],
           [atoms |-> <<>>, open |-> FALSE], s)

Occurs(atoms, caption) ==
  \E from \in 0..Len(caption) - Len(atoms) :
    \A k \in DOMAIN atoms : atoms[k] \in {"any", caption[from + k]}

\* An empty term is no filter; and a pattern mongod cannot read would be a 500.
ReadSearch(r) ==
  LET term == TrimTerm(r.term)
      pattern == Pattern(EscapeRegex(term))
  IN IF \E i \in DOMAIN term : term[i] \in ControlCharacters THEN Refused(400, "q")
     ELSE IF term = <<>> THEN Accepted(Captions)
     ELSE IF pattern.open THEN Refused(500, "q")
     ELSE Accepted({c \in Captions : Occurs(pattern.atoms, c)})

Searches == [to : {"search"}, term : Strings(Signs \cup {Nul})]

----------------------------------------------------------------------------
(***************************************************************************)
(* A colour's way from the tagger to the engine.                           *)
(***************************************************************************)
Colours == [hex : {"#1a2b3c", "#fff", "navy", "not a string"}, named : BOOLEAN,
            share : {"absent", "null", "half", "twice"}]

\* invalidColourReason.
ValidColour(c) == c.hex # "not a string" /\ c.named /\ c.share \in {"absent", "half"}

\* tagImage: one entry that is malformed spoils the answer; a photo without an
\* answer is stored without colours.
TaggedColours(answer) == IF \A i \in DOMAIN answer : ValidColour(answer[i]) THEN answer ELSE <<>>

EngineHex == {"#1a2b3c"}
EngineColour(c) == [c EXCEPT !.share = IF @ = "half" THEN @ ELSE "absent"]

\* toEngineItem: a colour the engine could not read is left out.
EngineColours(stored) ==
  LET readable == SelectSeq(stored, LAMBDA c : c.hex \in EngineHex)
  IN [i \in DOMAIN readable |-> EngineColour(readable[i])]

\* SuggestColour: one field out of order, and the whole wardrobe is a 422.
EngineAccepts(c) == c.hex = "#1a2b3c" /\ c.named /\ c.share \in {"absent", "null", "half"}

Tagged == [to : {"tag"}, colours : UNION {[1..n -> Colours] : n \in 0..2}]

ReadTags(r) == Accepted(EngineColours(TaggedColours(r.colours)))

\* The photos the API may forward: how many pixels of each shade are left of it
\* when it is made small, in a file of one of three sizes.
Shades == 1..4
Photos == [to : {"photo"}, size : 1..3, image : BOOLEAN,
           pixels : [Shades -> 0..2] \ {[s \in Shades |-> 0]}]

\* _read_capped: the service's own cap, which is the API's.
ReadCapped(size) == IF size > UploadCap THEN Refused(413, "image") ELSE Accepted(size)

Present(pixels) == {s \in Shades : pixels[s] > 0}
ClampedK(pixels, k) == IF Cardinality(Present(pixels)) < k THEN Cardinality(Present(pixels)) ELSE k

\* KMeans: that many clusters, none of them empty; pixels of one shade are together.
Clusterings(pixels, k) ==
  {labels \in [Present(pixels) -> 1..k] : Range(labels) = 1..k}

\* A cluster's centre has a hex, and the name of the palette's that is nearest.
ColourResult(cluster, count) ==
  [hex |-> "#1a2b3c", named |-> TRUE, shades |-> cluster, share |-> count]

\* dominant_colours: the clusters, those of most pixels first, the sort being
\* stable.  Shares are of all the pixels, and are kept as counts here.
DominantColours(pixels, labels) ==
  LET Cluster(l) == {s \in DOMAIN labels : labels[s] = l}
      Count(l) == MapThenSumSet(LAMBDA s : pixels[s], Cluster(l))
      order == SetToSortSeq(Range(labels), LAMBDA l, m :
                 Count(l) > Count(m) \/ (Count(l) = Count(m) /\ l < m))
  IN [i \in DOMAIN order |-> ColourResult(Cluster(order[i]), Count(order[i]))]

----------------------------------------------------------------------------
(***************************************************************************)
(* A list, page by page.                                                   *)
(***************************************************************************)
Rows == [at : Instants, id : 1..MaxIds]
Newer(a, b) == a.at > b.at \/ (a.at = b.at /\ a.id > b.id)

NoCursor == [parts |-> 0, at |-> 0, id |-> 0]

ParseLimit(raw) ==
  CASE raw = Absent -> Accepted(MaxAsked)
    [] raw \in 1..MaxAsked -> Accepted(raw)
    [] OTHER -> Refused(400, "limit")

EncodeCursor(row) == [parts |-> 2, at |-> row.at, id |-> row.id]

DecodeCursor(raw) ==
  IF raw.parts # 2 \/ raw.at = NotADate \/ raw.id = NotAnId THEN Refused(400, "cursor")
  ELSE Accepted([at |-> raw.at, id |-> raw.id])

\* Mutant: the rows of an earlier instant alone are older.
OlderByInstant(from) ==
  {row \in listed : from = NoCursor \/ row.at < DecodeCursor(from).what.at}

\* The two branches of the filter.
KeysetFilter(from) ==
  {row \in listed : from = NoCursor \/ Newer(DecodeCursor(from).what, row)}

\* One row more than the page tells whether there is another.
ListPage(from, limit) ==
  LET rest == KeysetFilter(from)
      page == {row \in rest : Cardinality({other \in rest : Newer(other, row)}) < limit}
      rows == SetToSortSeq(page, Newer)
  IN [rows |-> rows, next |-> IF page # rest THEN EncodeCursor(Last(rows)) ELSE NoCursor]

Listings == [to : {"list"}, limit : {Absent, NotANumber} \cup 0..MaxAsked + 1,
           from : {NoCursor, [parts |-> 1, at |-> 1, id |-> 1], [parts |-> 2, at |-> NotADate, id |-> 1],
                   [parts |-> 2, at |-> 1, id |-> NotAnId]}]

ReadList(r) ==
  IF ParseLimit(r.limit).status # 200 THEN ParseLimit(r.limit)
  ELSE IF r.from # NoCursor /\ DecodeCursor(r.from).status # 200 THEN DecodeCursor(r.from)
  ELSE Accepted(ListPage(r.from, ParseLimit(r.limit).what))

----------------------------------------------------------------------------
NotWalked == [told |-> <<>>, stayed |-> {}, changes |-> 0]

\* The request a behaviour follows has arrived, in any form.
ReceptionInit ==
  /\ asked \in Uploads \cup Named \cup Typed \cup Shares \cup Searches \cup Tagged
             \cup Listings \cup Echoes \cup Details \cup Windows \cup Photos
  /\ reply = Waiting
  /\ listed \in IF asked.to = "list" /\ asked.from = NoCursor THEN SUBSET Rows ELSE {{}}
  /\ walked = [NotWalked EXCEPT !.stayed = listed]

Read ==
  /\ reply = Waiting /\ asked.to \notin {"list", "photo"}
  /\ reply' = CASE asked.to = "upload" -> ReadUpload(asked)
                [] asked.to \in {"item", "outfit", "wear", "plan"} -> Find(asked)
                [] asked.to \in {"name", "worn", "planned", "asked"} -> ReadText(asked)
                [] asked.to = "share"  -> ReadShare(asked)
                [] asked.to = "search" -> ReadSearch(asked)
                [] asked.to = "tag"    -> ReadTags(asked)
                [] asked.to = "echo"   -> Accepted(Echoed(asked.ids))
                [] asked.to = "detail" -> ReadDetail(asked)
                [] asked.to = "window" -> ReadWindow(asked)
  /\ UNCHANGED <<asked, listed, walked>>

\* POST /tag: the file is read up to the cap, and then made out, or not.
TagPhoto ==
  /\ reply = Waiting /\ asked.to = "photo"
  /\ CASE ReadCapped(asked.size).status # 200 -> reply' = ReadCapped(asked.size)
       [] ReadCapped(asked.size).status = 200 /\ ~asked.image -> reply' = Refused(400, "image")
       [] OTHER -> \E labels \in Clusterings(asked.pixels, ClampedK(asked.pixels, 3)) :
                     reply' = Accepted(DominantColours(asked.pixels, labels))
  /\ UNCHANGED <<asked, listed, walked>>

\* A page, and then the next one, from the cursor the last one gave.
TurnPage ==
  /\ asked.to = "list"
  /\ reply = Waiting \/ (Taken /\ reply.what.next # NoCursor)
  /\ asked' = IF reply = Waiting THEN asked ELSE [asked EXCEPT !.from = reply.what.next]
  /\ reply' = ReadList(asked')
  /\ walked' = IF reply'.status = 200 THEN [walked EXCEPT !.told = @ \o reply'.what.rows] ELSE walked
  /\ UNCHANGED listed

\* A row is added or removed between two pages, of any instant: its clock may
\* be behind.
ChangeRows ==
  /\ asked.to = "list" /\ Taken /\ walked.changes < MaxRowChanges
  /\ \E row \in Rows :
       /\ row \notin Range(walked.told) \/ row \in listed
       /\ listed' = IF row \in listed THEN listed \ {row} ELSE listed \cup {row}
       /\ walked' = [walked EXCEPT !.changes = @ + 1, !.stayed = @ \ {row}]
  /\ UNCHANGED <<asked, reply>>

ReceptionNext == Read \/ TagPhoto \/ TurnPage \/ ChangeRows

ReceptionSpec == ReceptionInit /\ [][ReceptionNext]_receptionVars

----------------------------------------------------------------------------
(***************************************************************************)
(* Properties                                                              *)
(***************************************************************************)
ReceptionTypeOK ==
  /\ reply.status \in {0, 200, 400, 401, 404, 413}
  /\ listed \subseteq Rows /\ walked.stayed \subseteq listed
  /\ Taken /\ asked.to \in {"name", "worn", "planned", "share"} => reply.what \in Texts

\* items.ts:100-177, 254-285: what is stored is an image of the kind its name
\* and its type say, a thumbnail a small one; and no photo that is what it is
\* said to be is turned away for another reason than its size.
UploadsAreImages ==
  asked.to = "upload" /\ reply # Waiting =>
    LET Honest(part) == DetectImageType(part.bytes) = part.declared /\ part.declared # "gif"
        proper == /\ asked.image # NoPart /\ Honest(asked.image) /\ asked.image.size <= UploadCap
                  /\ asked.thumbnail # NoPart => Honest(asked.thumbnail)
                  /\ asked.thumbnail.size <= ThumbnailCap /\ asked.category
                  /\ asked.seasons # <<"monsoon">>
    IN /\ Taken <=> proper
       /\ Taken => \A o \in {reply.what.image, reply.what.thumbnail} \ {NoPart} :
            o.ext = o.servedAs /\ o.ext \in AllowedTypes
       /\ reply.status = 413 => asked.image.size > UploadCap \/ asked.thumbnail.size > ThumbnailCap

\* outfits.ts:160-193, community.ts:38-57: one's own is found in whatever case
\* its id is written; and no answer tells another's from what never was.
OneRefusalForAll ==
  asked.to \in {"item", "outfit", "wear", "plan"} /\ reply # Waiting =>
    /\ Taken <=> asked.id \in {"mine", "MINE"}
    /\ ~Taken => reply = Find([asked EXCEPT !.id = "nobody's"])

\* suggestions.ts:118-131: of the ids the engine answers, every one of a
\* garment it was sent resolves, and no other.
EchoesResolve ==
  asked.to = "echo" /\ Taken =>
    Len(reply.what) = Cardinality({i \in DOMAIN asked.ids : asked.ids[i] \in {"mine", "MINE"}})

\* outfits.ts:218-303: an outfit keeps its face and its order when garments go:
\* what is left is as it was composed, and the cover is of the first garment or
\* of none, never of one that happens to be first now.
OutfitsKeepOrder ==
  asked.to = "detail" /\ Taken =>
    LET place(g) == CHOOSE k \in DOMAIN asked.ids : asked.ids[k] = g
        items == reply.what.items
    IN /\ Range(items) = Range(asked.ids) \ asked.gone /\ IsInjective(items)
       /\ \A j, k \in DOMAIN items : j < k => place(items[j]) < place(items[k])
       /\ IF reply.what.cover = NoUrl THEN items = <<>> \/ items[1] # asked.ids[1]
          ELSE reply.what.cover[2] = asked.ids[1] /\ items # <<>> /\ items[1] = asked.ids[1]

\* outfitPlans.ts:105-130, 198-204: no window is open at an end.
WindowsAreBounded ==
  asked.to = "window" /\ Taken => asked.from > 0 /\ asked.until > 0 /\ Len(reply.what) > 0

\* community.ts:19-36, outfits.ts:34-72: a text that is stored has no outer
\* white space, is no longer than it may be, has one form for "none", and is
\* stored as it is when it is sent again; padding costs nothing.
TextIsSettled ==
  asked.to \in {"name", "worn", "planned", "share"} /\ Taken =>
    /\ ~reply.what.padded /\ reply.what.length <= MaxText
    /\ reply.what.length = 0 => reply.what = NoText /\ asked.to # "share"
    /\ IF asked.to = "share" THEN ReadShare([asked EXCEPT !.text = reply.what]) = reply
       ELSE ReadText([asked EXCEPT !.text = reply.what]) = reply
PaddingIsFree ==
  asked.to = "share" /\ asked.text.length \in 1..MaxText /\ asked.author /\ reply # Waiting =>
    (Taken <=> asked.id \in {"mine", "MINE"})

\* community.ts:281-330: a search finds the captions in which the term stands
\* as it was typed, all of them and no others, whatever characters it is made
\* of; a term the database could not read is the client's mistake.
SearchIsLiteral ==
  asked.to = "search" /\ reply # Waiting =>
    LET term == TrimTerm(asked.term)
        Holds(c) == \E from \in 0..Len(c) - Len(term) : SubSeq(c, from + 1, from + Len(term)) = term
    IN IF \E i \in DOMAIN term : term[i] = Nul THEN reply.status = 400
       ELSE Taken /\ reply.what = {c \in Captions : Holds(c)}

\* suggestions.ts:33-75: whatever the tagger made of a photo, the engine takes
\* the garment, and hears of every colour of it that it can read.
EngineTakesEveryGarment ==
  asked.to = "tag" /\ Taken =>
    /\ \A i \in DOMAIN reply.what : EngineAccepts(reply.what[i])
    /\ (\A i \in DOMAIN asked.colours : ValidColour(asked.colours[i])) =>
         {reply.what[i] : i \in DOMAIN reply.what} =
           {c \in Range(asked.colours) : EngineAccepts(c)}

\* colour.py:124-154, main.py:44-92, tagClient.ts:10-20: a photo has one to three
\* colours, of which every pixel has one, those of most pixels first; what the
\* service tells the API keeps and the engine takes; and what the API lets
\* through is not too big for the service.
PhotosAreTagged ==
  asked.to = "photo" /\ reply # Waiting =>
    /\ asked.size <= UploadCap => reply.status # 413
    /\ Taken =>
         LET colours == reply.what
             all == MapThenSumSet(LAMBDA s : asked.pixels[s], Shades)
             Sent(c) == [hex |-> c.hex, named |-> c.named,
                         share |-> IF c.share \in 1..all THEN "half" ELSE "twice"]
         IN /\ Len(colours) \in 1..3
            /\ \A s \in Present(asked.pixels) :
                 Cardinality({i \in DOMAIN colours : s \in colours[i].shades}) = 1
            /\ \A j, k \in DOMAIN colours : j < k => colours[j].share >= colours[k].share
            /\ FoldLeft(LAMBDA n, c : n + c.share, 0, colours) = all
            /\ \A i \in DOMAIN colours :
                 ValidColour(Sent(colours[i])) /\ EngineAccepts(EngineColour(Sent(colours[i])))

\* pagination.ts, community.ts:331-367: from page to page, rows of one instant
\* and rows that come and go included, no row is told twice or out of order,
\* and every row that stays is told or still to come; a cursor that cannot be
\* read does not start the list anew.
PagesMeet ==
  asked.to = "list" =>
    /\ \A j, k \in DOMAIN walked.told : j < k => Newer(walked.told[j], walked.told[k])
    /\ Taken => \A row \in walked.stayed :
         row \in Range(walked.told) \/ (reply.what.next # NoCursor /\ row \in
           {older \in listed : Newer(DecodeCursor(reply.what.next).what, older)})
    /\ Taken => asked.limit # 0 /\ (asked.from = NoCursor \/ asked.from.id # NotAnId)

\* What the API makes of a request, as the run checks it.
RequestsAreRead ==
  /\ ReceptionTypeOK /\ UploadsAreImages /\ OneRefusalForAll /\ TextIsSettled /\ PaddingIsFree
  /\ SearchIsLiteral /\ EngineTakesEveryGarment /\ PagesMeet
  /\ EchoesResolve /\ OutfitsKeepOrder /\ WindowsAreBounded /\ PhotosAreTagged
=============================================================================
