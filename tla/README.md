# A verification of the wardrobe manager in TLA+

The repository is a wardrobe application: an Express API (`src/apps/api`) over
MongoDB and a MinIO bucket, an Expo mobile client (`src/apps/mobile`), a Python
service that tags photographs and composes outfits (`src/services/ai`), shared
types (`src/packages/shared`) and a measuring harness (`src/scripts/perf`). This
directory holds TLA+ models of the parts whose correctness depends on an order
of steps or on a boundary, TLC configurations that check them on small
instances, and proofs for every instance.

Two facts of the code decide what is worth modelling.

* The API's database is a standalone `mongod`: **there are no transactions**. A
  handler that touches two documents, two collections or two stores does so by
  separate awaited calls, other requests run between them, and any call may
  reject. What the comments promise ("the stored count is exactly right", "a
  row never outlives its image") is a promise about an order of writes, a guard
  on what a write reported, and a compensation.
* The client's screens are **closures over the last commit**. A React ref
  changes at once, state changes at the next commit, a press runs the closure
  of the commit it was drawn by, and lists that stay mounted under a screen hear
  of its writes by marks alone. What the hooks promise ("the newest request
  owns the flag", "a double tap is one request") is about which of these is read
  when.

## 1. Inventory

| Part | State | Operations | Talks to |
|---|---|---|---|
| Community (`routes/community.ts`) | posts with a denormalised `likeCount`; one row per like and save, unique on post and user | share, like, unlike, save, unsave, delete with cascade; feed, search, saved list | outfits and items (snapshot at share), users, bucket (signed URLs) |
| Wardrobe items (`routes/items.ts`, `storage/`) | item rows; a log of laundry transitions; two objects per item in the bucket | upload, list, read, laundry, retire, category, delete | AI service (tags), bucket |
| Outfits, wears, plans (`routes/outfits.ts`, `wearHistory.ts`, `outfitPlans.ts`) | outfits; wears and plans with a copy of the composition each; `wearCount` and `lastWornAt` on items | create, patch, delete; log a wear; plan, cancel | items |
| Reading of requests (`pagination.ts`, the schemas) | none | uploads, ids, texts, search terms, cursors, windows of days | every route |
| Accounts (`routes/auth.ts`, `auth/`) | users, unique on email; stateless tokens | register, log in, who am I | every route, by `requireAuth` |
| Suggestions (`routes/suggestions.ts`, `suggest.py`) | none | choose candidates, compose outfits, rank | items, AI service |
| Tagging (`tagClient.ts`, `classifier.py`, `colour.py`, `main.py`) | the model, loaded once behind a lock | classify a photo, find its colours | upload |
| Start and health (`server.ts`, `app.ts`, `health/`, `HealthBanner.tsx`) | a connection | connect with retries, probe, report, show | stores, AI service |
| Community lists (`useCommunityFeed`, `useSavedPosts`, `postInteractions`, `communityDirty`, `masonry`) | pages, cursors, request ids, deletes of the session, optimistic flags, marks, columns | load, page, refresh, search, like, save, remove | Community |
| Lists of one's own (`useWardrobe`, `useOutfits`, `useItemIndex`, `useUsageAnalytics`, `LaundryList`) | a list, a cursor, a request id and a flag each | load, page, filter, refresh | the routes of the same names |
| Detail screens (`items/[id].tsx`, `outfits/[id].tsx`, `calendar/[date].tsx`) | what is known of the subject; guards; prompts | every write of a garment, an outfit, a day | routes, marks (`trackingDirty`, `outfitsDirty`, `plansDirty`) |
| Calendar (`calendar.tsx`, `useWearHistory`, `usePlannedOutfits`, `month.ts`, `MonthGrid`, `WeekStrip`) | wears paged back to the month on screen; the month's plans | turn, page, select, cancel, log, plan | wears, plans |
| Add tab (`add.tsx`, `images/`, `uploadItem.ts`, `useSuggestions`, `SuggestionCard`, `OutfitComposer`) | a photo, its images, an item; a shortlist; a selection | capture, compress, upload, correct; save, modify, compose | items, suggestions, outfits |
| Session (`AuthContext`, `tokenStore`, `api/client`, `_layout`) | stored token, status | restore, sign in, up and out | Accounts |
| Measuring harness (`scripts/perf/lib/safety.js`, `api-instance.js` and scripts) | a ledger on disk; patched files, twin collections, processes | guard, release, recover | source tree, database, processes |

What is hard about them:

* **Server.** Two writes per like, three per delete of a post, two stores per
  upload, two collections per laundry change, one write per garment of a wear;
  a lookup before each. Double taps, a second device, a like racing the delete
  of its post, a request dying between two of its writes, a compensation that
  fails.
* **Reads.** Keyset pages over collections that change between the pages, rows
  of one millisecond, a page hydrated by several queries.
* **Client.** Replies out of order, requests that fail, presses of one frame, a
  screen left before its answer, two mounted lists showing one post, a screen
  that reloads because another one marked it, a press that runs yesterday's
  closure.
* **Days.** Instants in UTC, days in the device's zone, a midnight between
  opening a form and sending it.
* **Processes.** An app that is killed while its token is restored, a server
  started before its database, two threads loading one model, a script killed
  while it has a source file patched.

`PROJECT.json` lists each hazard at the line where it bites, with the properties
that would catch it going wrong or the reason none does.

## 2. The modules

Modules of the API: `Community` (with `LikeLedger`, the abstract one), `Items`,
`Outfits`, `Reception`. Of the client: `FeedClient`,
`PostLists`, `Wall`, `Galleries`, `Details`, `Calendar`, `Diary`, `ItemForm`,
`Ideas`; `Listing` holds the two list operations several of them share, a page
newest first and a list without some of its rows. Of both: `Session`, `Services`. Of the AI service: `Suggest`, `Engine`.
Of the harness: `UndoLedger`. Four modules compose them for a run: `AddScreen`
(`ItemForm`, `Ideas`, `Engine`), `Tabs` (`PostLists`, `Galleries`, `Wall`),
`Tracking` (`Details`, `Calendar`, `Diary`) and `Access` (`Session`, `Services`,
`Reception`, `UndoLedger`). A composition says in its header why a behaviour
follows one of its parts: they share no variable, or share one (the chips of the
Add tab, the marks, the processes that die) that the part which reads it may
find in any state it could have. The proofs are in `CommunityProofs`,
`ItemsProofs`, `OutfitsProofs`, `AccessProofs`, `ListingProofs`,
`ScreenProofs` (the Search tab and the Add tab), `TrackingProofs` and `TabsProofs`
(section 5).

### Community, LikeLedger, Items, Outfits: handlers

`request[r]` is one activation of a handler: `at` names the call it is about to
await, the other fields are its local variables. Each database or storage call
is one action, so the code between two `await`s belongs to the action before it,
and calls of different requests interleave freely. `Arrive...` is the request
being routed with its body validated; answering frees the slot.

| Code | Action |
|---|---|
| `POST /posts`: outfit, items, author, `create` | `ArriveShare`, `ShareCheck`, `ShareCreate` |
| `findPost` of the interaction handlers | `LikeFind`, `UnlikeFind`, `SaveFind`, `UnsaveFind` |
| `recordInteraction`, an upsert gated on `upsertedCount` | `LikeInsert`, `SaveInsert` |
| the like's `$inc`; the row taken back when no post matched | `LikeInc`, `LikeUndo` |
| unlike: `deleteOne` gated on `deletedCount`, then `$inc: -1` | `UnlikeRemove`, `UnlikeDec` |
| delete: owner-scoped `deleteOne`, then two `deleteMany` at once | `DeletePost`, `CascadeLikes`, `CascadeSaves` |
| upload: original, thumbnail, row; `allSettled` of deletes on an error | `PutImage`, `PutThumbnail`, `InsertItem`, `CleanUp` |
| laundry: load, `LaundryStatus.create`, `doc.save()`, delete of the transition on its failure | `Load`, `LogTransition`, `SaveLaundry`, `UndoTransition` |
| retire, category | `Load`, `SaveRetired`, `SaveCategory` |
| delete of an item: the row, then the objects | `DeleteRow`, `DeleteObjects` |
| outfits: create, patch, delete | `Resolve`, `InsertOutfit`; `LoadForPatch`, `SaveOutfit`; `DeleteOutfit` |
| wears, plans and the snapshot of a post | `LoadToTake`, `TakeRecord` |
| `updateMany` of a wear, one document at a time in any order | `CountWear` |
| a call rejects, the process dies | `Fail` (Community), `Reject`, `Lose`, `Crash` (Items), losses (Outfits) |

`LikeLedger` is what a client may believe: likers, savers and a tally per post
that change together in one step. `Community!Ledger` maps to it, reading the
tally as the stored count with the increments and decrements still owed; the
slips a failure makes possible are steps of the ledger too.

`doc.save()` writes the modified paths of the loaded document and nothing else
(`Saved`, `Patched`) and fails when the document is gone. Mongoose versions
whole-array writes: saving a composition that another request replaced since it
was loaded is rejected (`Outdated`, the library's doing and marked external).

`Ambiguous` (Items) says whether a write that rejected may have been applied all
the same. The runs take `FALSE`: with `TRUE`, an insert that is applied and
still rejects makes the upload delete the image of a row that exists
(`StoresAgree` fails), and a lost reply of `save` makes the laundry handler
delete the transition that explains a saved status (`LogIsTrue` fails). The
driver's retryable writes resolve such a reply in all but a lost primary.

### Reception: what a request is taken for

One behaviour is one request, in any of many forms, or one list walked page by
page while its rows come and go. Upload parts (declared type, first bytes, size)
go through multer's cap, `detectImageType` and `validateImagePart`; ids are of
either case; texts have a length and outer white space; a search term is a
sequence of characters of which a dot, a backslash, a blank and a NUL matter,
escaped and then read by mongod's pattern rules; cursors and limits come in
every broken form. A photo's colours go from its pixels through the clusters of
`dominant_colours`, the validation of `tagImage` and `toEngineItem` to the
bounds of the engine.

### FeedClient: the Search tab

| Code | Action |
|---|---|
| `run` up to its await, and after it | `Run`; `Deliver` with `Newest`, `Rows`, `FlagAfter` |
| the effect on mount and on a new term | `LoadEffect` |
| `loadMore`, `refresh`, the banner's retry | `LoadMore`, `Refresh` with `Reload` |
| `GET /community/posts`: filter, keyset, `limit + 1` | `Serve` with `Behind`, `Page`, `NextCursor` |
| the search box and its debounce | `SetQuery`, `Debounced` |
| `remove`, `forget`, `isAlreadyGone` | `RemovePost`, `ServeDelete`, `SettleDelete` |
| `MasonryFeed`'s spinner, banner and empty state | `FeedShown`, `Scrollable` |
| the share sheet's mark, the focus effect | `Share`, `Blur`, `Focus` |
| posts that come and go elsewhere | `Share`, `DeletedElsewhere` |

`view` is the state of the last commit and `Render` is React committing. Renders
and their effects run before the next timer or reply (`Deliver`, `Debounced` and
`SettleDelete` wait for `Committed`), but a gesture can be dispatched first. A
post is its place in the order of sharing; a term is a set of matching posts.

### The other client modules

They use the same convention with a coarser clock where the code allows it: an
answer takes longer than a commit, so what a press or an answer sets is
committed, and its effects have run, before the next answer; the presses of one
frame all run the closure of the commit before them.

* **PostLists**: the feed and the saved list mounted at once. A toggle is
  published optimistically to both, guarded by the list it was tapped on,
  settled by the server's answer or put back. The rows last committed, the guards, the
  chips and the mark of the saved list are state; reloads of either list overlap
  writes. The like endpoints are in their three calls, the post found
  (`FindLiked`), the row (`WriteLike`) and the `$inc` a changed row owes
  (`CountLike`), so that writes of the other list, likes of other people and loads
  fall between them, and the count answered is the one stored. Posts stay up
  here; `Community` has the deletes. A request the client has given up is taken
  to be done, lost half-way, or never begun: none goes on behind its back.
* **Wall**: `GET /community/saved` query by query (saves, posts, flags and
  garments), compaction of a page to the posts that are left, the cursor of the
  saves; the card with its "n garments are no longer there"; the columns of
  `masonry.ts` and the predicted heights.
* **Galleries**: one of wardrobe, outfit gallery, laundry list with analytics,
  and the walk of `useItemIndex`, against pieces that are added, washed and
  deleted; and what each screen says of an empty list.
* **Details**: the screen of a garment, of an outfit, or of a day: every write,
  its guard (`useGuardedMutation` and the refs of each screen), the load that
  opens the screen, leaving it before the answer, the share sheet; and the
  readers under it, each with its mark and its focus effect.
* **Calendar**: the history paged back by an effect until the visible month is
  covered, the plans of the month, and the screens pushed over it.
* **Diary**: days, weeks and months in the device's zone, the cells of the grid,
  the panel of the selected day, and the two forms with the API's date checks.
  An instant is a number of quarters of a day.
* **ItemForm**: capture, compression, thumbnail, upload and correction of the
  category, with the native image contexts each step opens.
* **Ideas** over **Suggest**: the shortlist and its notices, the cards that save
  or hand over to the composer, the composer, the mode chips; `Engine` asks
  `Suggest` alone about more wardrobes. `Suggest` translates `suggest.py`:
  templates, season filter, colour scores in twentieths, caps per slot, order.
  A wardrobe is a record, the shelf, that every rule is given, so that one
  module serves the wardrobe of the app and the wardrobes of the engine's
  callers. Where the code sorts and adds up, the module ranks and counts (the
  place of an outfit is how many come before it, a sum is so many times each
  score), which is what lets it be proved about.
* **Session**: jobs of `AuthProvider` and the two forms, step by step between
  awaits, with the auth routes behind them, the store of the token, the route
  gate, lost requests, expiry and restarts of the app.
* **Services**: the API's start, the three probes of `GET /health`, each of a
  service that is up, ailing (a missing bucket, an AI service with an error) or
  gone, or that is up and not heard of in time, the banner that shows what they
  answered, heeding no answer to an earlier mount;
  and the threads of the AI service in `load_classifier` and `tag`, under the
  time-out of the caller.
* **UndoLedger**: `safety.js` write by write. A run records what it will change,
  changes it, undoes it and removes the record; a kill may come between any two,
  or in the middle of a copy; the next run recovers. The four kinds of change
  (file, twin of a collection, process, nothing) follow the scripts that use
  them, including the session that a patched run drives and that runs its own
  recovery.

History variables (`held`, `counted`, `applied`, `head`, `listId`, `overtaken`,
`left`, `seen`, `walked` and the like) record what has happened for the
properties to speak of; no guard of a modelled handler reads them. Every bound on
how often something happens is a `Max...` constant, named in its module.

## 3. The runs

| Run | Properties | Instance |
|---|---|---|
| `community` | counts follow rows; nobody's row goes for another; nothing is stranded; the handlers implement `LikeLedger`; likes left behind vanish | 2 users, 1 post, 2 requests, 2 failures, fair |
| `items_upload` | rows and objects agree; a lone object is resolved | 2 users, 2 items, 2 requests, 1 rejection, 1 loss, fair |
| `items_edit` | the log is true of the status; edits of fields keep apart | 1 item, 2 requests, 2 laundry changes, 2 categories, 1 rejection, 1 loss |
| `outfits_wear` | counters follow the log, and catch up | 2 items, 1 outfit, 2 wears or plans of any day, 2 requests, 1 lost, fair |
| `outfits_take` | copies are of compositions that were; ownership; patches keep apart | 2 users, one of whom owns both items, 1 outfit, 1 post, 2 requests |
| `feed_client` | the list is the feed; nothing is taken back; what is typed is shown | 3 posts, pages of 1, 1 change of the box, gestures while fewer than 2 loads were sent, failures, fair |
| `tabs` | rows true on both lists; saves settle; one's own lists and what is said of them; the saved posts and their columns | 1 post pressed or liked by others 3 times in all; 3 pieces in pages of 1; 4 posts of 2 authors in pages of 2 |
| `tracking` | marks reach every reader; screens are true; one request each; history and plans; days | 3 screens, 2 writes; 3 wears over 2 months in pages of 1; 2 zones, a leap day and a turn of the year |
| `add` | one request each; nothing made up, chosen or typed lost; shortlist and engine | 2 photos, 2 items; 3 garments, 2 saves, 3 taps; 5 shelves of 4 garments in every paint and season |
| `access` | one account per email; sessions; one load; health; requests; the ledger | 1 email, 3 forms sent, 1 sign-out, 1 restart, 1 fault; 2 threads, 3 photos, 2 banners, 3 changes of services, missed checks or lost answers; every request of `Reception`; 3 script runs, 2 kills |
| `calendar_gap` | violation: a month is complete, loading, or says it failed | as in `tracking`, 3 refreshes |
| `past_plan` | violation: a past day can be logged from the calendar | 2 notes, 6 quarters of a day |

**Why these bounds.** Every hazard of the server is a race between two requests,
at most with a failure beside them, over one post, item or outfit. Two requests
cover every pair of handlers at every pair of calls, and slots are reused once
answered, so behaviours are long although few requests run at a time. A second
user or item is there where a property tells its own from another's. Pages of
one make every insert and delete move a page boundary; lists of three pieces
have a page that is replaced, one that is appended and one that is last. Two
loads are enough for replies to cross, one failure for a retry, two presses for
one frame. A session needs three forms: one that makes the account, and two
under way around a sign-out. Days need a zone on either side of UTC, a leap day,
a year's end and a midnight; the wardrobes asked of the engine hold neutral,
clashing and blank colours and two garments of a slot. Scores are whole twentieths; that a float mean
of three or four of them depends in its last bit on the order they are added in
is kept, as the table of those orders (`RoundedUp`).
Wherever a bound ends something (ids, pieces, requests), the action is not
admitted; the behaviour then goes on without it, which is why most runs do not
check for deadlock: a user who has done everything may stop.

**Symmetry** is declared in `items_edit` and `outfits_take` alone, whose
properties are invariants and action properties.

**Fairness.** On the server the next call of every running handler is weakly
fair: the driver answers or rejects within its time-outs, Node's event loop runs
the continuation, and no handler waits for another. In `FeedClient` and
`Session`, React's commits and effects, the debounce timer and the ends of awaits
are weakly fair, and so is that some request is served and its reply delivered.
In `Services` a retry of the connection, a probe with its time-out, and a thread
that is not waiting for the lock go on. `tabs`, `tracking`, `add` and the
ledger assume none and have no liveness property. Arrivals, gestures,
crashes and failures are never fair. A liveness property is about work that was
begun, and is excused when a failure took the work away, since nothing in the
code comes back for it.

**Grouped properties.** A run checks a conjunction where several statements are
about one thing (`ListIsSound`, `LogIsTrue`, `RequestsAreRead`...); each conjunct
is a definition of its own with the behaviour it is about and the lines that
promise it. Each checked property has a mutant, a small plausible error in one
definition (`...Ungated`, `...NoUndo`, `...ByState`) with which it fails in its
own run.

**Excuses.** A property that the code keeps only outside of a known window
says so in its statement and its comment. The windows are listed in section 4:
they are what the code does, and a reader who closes one can drop the excuse and
let TLC say whether it is closed.

## 4. What was found

Two runs expect a violation, of a sentence in the repository that the code does
not keep.

* **`calendar_gap`.** The effect that pages back (`calendar.tsx:106`) depends on
  `covered` and `loadMore`. A refresh on focus or retry that supersedes a page in
  flight, and answers with the cursor there was, changes neither: nobody asks for
  the page again, and an older month stays the "grid of empty days that *looks*
  like an honest answer" that `calendar.tsx:98-101` calls the worst failure.
* **`past_plan`.** A day that has passed with a plan and no wear offers to cancel
  and to plan, not to log (`calendar.tsx:315`), while the plan screen sends its
  user to the calendar to log what was worn.

The models also met these, which are written down in the property or definition
they concern, or here:

* *Server.* A save may outlive its post (`community.ts:756`); readers drop such
  rows. The latest transition need not be the current status when two changes
  save in the other order than they were stamped (`items.ts:561`). A like
  overtaken by its unlike, from another device or from the other list of posts,
  makes the stored count -1 for a moment, and a page may show a liked post with
  0 likes. Items retired between being resolved and the
  outfit's write are stored in it. A plan is
  sent for local noon, so planning for today is refused after it
  (`outfitPlans.ts:98`), where `plan/[date].tsx:78-80` says "Today itself is fine".
* *Lists refreshed by marks.* `refresh` returns at once while a load is out,
  and the mark is consumed, so a change made after that load was read waits for
  the next one (feed, gallery, saved posts, plans). A new item marks no reader;
  `useItemIndex` never reloads; Home's week strip is not refreshed after a wear.
  `loadMore` in the window between a reply and the next commit asks for the
  same page twice.
* *Two lists of posts.* Two writes of one post from the two lists may settle in
  the order they were not made in, and both lists then show the loser. An unlike
  from one list that overtakes its like from the other between the row and the
  `$inc` is answered -1 (`community.ts:740`), which `postInteractions.ts:326`
  publishes as it is, although the comment at `:309-312` rules out a card that
  reads "-1 likes" of its own optimistic count. `CountsAreCounts` therefore says
  where a count below zero may come from, and what holds when all writes of a
  post are over, not that there is none.
* *Empty states.* After a failed first load "Try again" runs as `refreshing`, and
  the gallery, the laundry list ("Nothing in the wash.", with no page and no
  count behind it) and the feed say they are empty until it answers: `EmptyIsHonest`,
  `WashIsTrue` and their theorem excuse that window in so many words.
  A saved page of which every post was deleted shows the empty state and cannot
  be scrolled on.
* *Detail screens.* Replies of two laundry or retire writes may cross
  (`items/[id].tsx:258`, `:286`). A delete's late `goBack()` pops whatever is on
  top. Two taps of one frame on the log button of a day send one request and go
  back twice. An occasion typed with outer white space is not cleared after
  logging (`outfits/[id].tsx:467`).
* *Calendar.* A cancel that ends in another month than it was pressed in reloads
  the old month's plans over the new one's (`calendar.tsx:175`). `today` is that
  of the mount: a form left open over midnight logs on the next day.
* *Add tab.* A photo taken before Save is pressed is discarded when the upload
  ends, though `add.tsx:446-451` means otherwise; replies of two corrections are
  taken in the order they come. A garment toggled off and on during a save is
  removed at its end.
* *Session.* `busy` of the two forms is state only, so two presses of one frame
  send two requests; a registration whose reply was lost answers 409 when it is
  tried again; a login that answers after a sign-out signs in; a clear of the
  store that fails in `signOut` brings the session back at the next start.
* *Cards.* On a phone of 360 points a card's content is 143 points wide and two
  thumbnails of 48 % with a gap of 6 wrap, so the height `masonry.ts` predicts is
  too small there; the property is stated for 150 points and more.
* *Engine.* `suggest.py:488` compares float means, which may differ in the last bit
  for garments that match equally well: the order of what was chosen before then
  decides, and not the id. `suggestions.ts:54-55` says a null share
  fails the engine's bound; `main.py:165` accepts `None`.
* *Harness.* `guardProcess` follows the spawn (`api-instance.js:102-104`), so a
  kill between leaves a server on no record, which a later run may measure for
  its own. A run goes on when its own recovery could not drop an older twin, and
  makes one of the same name. `undoMongoCollection` connects outside its `try`: an unreachable
  database ends the whole recovery. `durableWrite` is not atomic; a torn record
  is of a change that had not begun, and is harmless. A kill between the two
  removals of `release` leaves a record that reports "CANNOT RESTORE" in every
  later run, and asks for nothing. `undoProcess` could kill a pid used again.

The attempts to prove the properties changed some of them, and the models under
them. Two were false for larger instances than the runs had:

* *Session.* "Whoever is signed in has a token in the store" failed with two
  forms under way around a sign-out: the token of the older one is saved, the
  sign-out's clearing takes it, and the older form's `adopt` then signs in with
  nothing stored (`AuthContext.tsx:58-63`, `:81-86`), so that the next cold launch
  signs out, where the repository's `README.md:52` says `AuthProvider` "restores a
  session from the stored token on cold launch". `SessionIsKept` now excuses what
  was under way when a sign-out was asked for (`left`), and the run has the three
  forms it takes.
* *Harness.* A session that outlived its run looked for leftovers before a later
  run made its twin of the name of one that could not be dropped; the session
  then drops it under the working run. It takes four runs, two kills and an
  unreachable database. `LiveWorkStays` now excuses a twin made over one that
  could not be dropped (`failed`).

Others were true and said, or were built from, less than was meant:

* *Overlapping cases.* `Details` and `Reception` had `CASE` expressions of which
  two arms applied to one state (a write that tells two kinds of readers, an
  upload with two faults). TLC takes the first arm; TLA+ promises only one of
  them, so nothing could be proved of the second. They are disjoint now, in the
  order the code tests them.
* *Saves listed.* `SavesAreListed` excused posts whose row on the feed was not
  trusted either. The proof had no use for that: which list a save was tapped on
  makes no difference, and the property now asks of every post trusted on the
  saved list.
* *Chips.* `ChipsMatchWrites` was a sum, which is a fold and opaque to a prover. It
  now counts the set of the presses waited for (`Presses`), keyed by write.
* *Engine.* `Suggest` was written with folds and a sort. It is written by rank and
  count now; TLC compared the two on 65,814 shelves and seasons, and they answer
  alike. `NothingUnearned` asked for the relation of a pair in the order of the
  outfit; it asks in the order the code does, the candidate first, and so needs
  no argument that relations are symmetric.

## 5. What is proved

Every theorem is for all values of the constants: any users, posts, garments,
emails, threads and runs, any number of requests at a time, and any bound on
failures. The assumptions are those named beside the constants, which TLC
evaluates in the runs: `None` and `Free` are no user, id or thread; the bounds
are numbers; the requests in flight at one moment are finitely many (`Community`,
`Items`, `Outfits`), which a server's are; a garment has one owner.

**CommunityProofs** (`Community`)

* `TypeCorrect`.
* `CountsTrackLikes`: `Spec => []CountTracksLikes`. The property is not
  inductive: it speaks of posts that are up, so it says nothing of what a post
  starts with. `CountInv` adds to it `TypeOK`, `FreshUntouched` (an id never used
  has count zero, no like row and no request on it) and `GoneStaysGone` (a request
  that cleans up after a post finds it down for good). The step is proved by
  showing how each call moves the four terms of `Drift(p)` together (the lemmas
  `DriftOf...`): the call that inserts a row also joins the requests owing an
  increment, the one that increments leaves them, and a failure takes at most one
  owed write away while adding one to `failures`. The sets of owing requests are
  finite because `Requests` is, and change by one at a time (`OwedAfter`).
* `OnlyOwners`: `Spec => OnlyOwnersRemove`, from `OnlyTheirUserRemovesRows` and
  `OnlyAuthorsRetract`.
* `NoLikeStranded`: `Spec => []NoStrandedLike`. Once a post is down and nothing
  has failed, each like row has a `Removes` request; `RemoverStays` shows the
  request keeps that duty until it has carried it out, `RemoverArises` that
  whatever creates a row on a dead post, or takes the post down, brings one.

* `HandlersKeepTheLedger`: `Spec => ImplementsLedger`. One lemma per handler says
  which step of the ledger its call is. The like is the insert of its row and
  the unlike its removal; the increment and the decrement are stutters, because
  what is stored moves with what is owed. A post's deletion takes the likers,
  savers and tally down in one step, and the cascades after it are stutters. A
  failure slips one tally by at most one. `LedgerInv` adds to `CountInv` that an
  unused id has no saves, so that a share starts from nothing.

**ItemsProofs** (`Items`)

* `TypeCorrect`, with each handler's activation spelt out (`Typed`).
* `EditsStayApart`: `Spec => FieldsIndependent`. `IdInv` has it that an upload's
  id is its own until the row is inserted, so no edit finds a row appear under
  it.
* `StoresStayInStep`: `~Ambiguous /\ Spec => []StoresAgree`. `StoreInv` counts what
  an upload half-way has stored (`Halfway`), that a row has exactly its objects
  (`RowsTellObjects`), that a delete knows of the thumbnail of the row it removes
  (`DeletesKnow`), and that objects go after their row (`RowsGoFirst`).
* `LogStaysTrue`: `~Ambiguous /\ Spec => []LogIsTrue`. `LogIsTrue` is not inductive: a
  transition that explains a status could be one another request is about to
  undo. `LogInv` explains a status by a transition whose save succeeded
  (`ExplainedForGood`), and keeps the stamps of requests, of the log and of the
  saves apart (`StampsApart`).

The two with `~Ambiguous` are of a database whose rejected write was not applied;
section 2 says how they fail without. The other two hold of both.

**OutfitsProofs** (`Outfits`)

* `TypeCorrect`.
* `GarmentsStayOwn`: `Spec => []OwnGarmentsOnly`. `OwnInv`: what a request asked for
  and has resolved, and what it has loaded, is its user's; ids are not reused,
  so an outfit loaded by its owner is not someone else's at the save.
* `CopiesStayTrue`: `Spec => CopiesAreTrue`; `HeldInv` carries the composition from
  the load of an outfit to the copy.
* `PatchesStayApart`: `Spec => PatchesKeepApart`.
* `CountersStayTrue`: `Spec => []CountersTrackLog`. `CountInv`: a fan-out has its row
  in the log and reaches only that row's garments, wear rows are finitely many
  and kept, each garment's count moves with what is owed to it, and its latest
  day is the greatest of the days it was counted for.

**AccessProofs** (`Session`, `UndoLedger`, `Services`, and `Access`, of which a
behaviour follows one)

* `EmailsStayUnique`: `AccessSpec => []OneAccountPerEmail`.
* `SessionsDoLast`: `AccessSpec => SessionsLast`. `SessionInv` follows the course of a
  session: one restore at a time and before any form or sign-out, asking about
  the token that is stored; a sign-out only after it was asked for; under a form
  whose token was saved, a store that only a sign-out empties.
* `ModelIsLoadedOnce`: `AccessSpec => []LoadIsOnce`. `TaggerInv`: the lock is held by
  the one thread that looks again or loads, and who loads has seen there is
  nothing yet.
* `HealthIsTold`: `AccessSpec => HealthIsTrue`. What a report means is stated
  apart from the checks that make it (`Says`): `StatusSays` shows that each check's
  word means the condition its service is in, and `HealthInv` that a check that
  was run, or missed, has found something noticed while its banner was checking,
  that no request outlives the `loading` of its banner, and that an answer is
  complete.
* `NothingIsLeftBehind`: `LedgerSpec => []LedgerHolds`, and `LedgerIsKept` for
  `AccessSpec`. `UndoInv` has six parts besides the types: the order of the runs (of those
  started by hand one is alive, the others are sessions), what they hold of each
  other (whoever is recovered is dead for good), what each has on disk by where
  it is, how far a recovery has come, that what is changed is under a record
  nobody has in hand, and what a working run has.

**ListingProofs** (`Listing`, and the sequences of the lists)

* `NewestFirstOrders`: a page is each row once, the newest first; `WithoutFilters`:
  filtering keeps the rows that stay and their order; what that makes of the
  rows of a list and of two appended (`NewestFirstRows`, `WithoutRows`,
  `ConcatRows`). `Listing` defines both by rank, since a prover sees nothing of a
  recursive sort or filter.

**ScreenProofs** (`FeedClient`; `ItemForm`, `Ideas` and `Engine`, in `AddScreen`)

* `ListAlwaysSound`: `Spec => []ListIsSound`. `Inv` ties each load in flight to the
  request id it was sent under (`IdsInv`: ids are taken once, and the flag
  speaks of the newest), to the term (`TermInv`) and to the moment it was read
  (`PageInv`: a page holds all that is still there between its two cursors and
  was shared by then). The list is gapless down to and with the row of its
  cursor, and the next page was asked for behind that row (`ListInv`). A gap could come from
  any one of a stale closure, a page of another term, or a row deleted while its
  page was on the way; the invariant names each. `StartInv` says there are no
  rows before a first page came, which is what the empty state rests on.
* `NothingTakenBack`: `Spec => NothingIsTakenBack`, from the same invariant: only
  the newest request sets the list, and every id in flight is at most that.
* `EngineAlwaysRight`: `AddSpec => []EngineMeetsItsRules`, for any finite wardrobe of
  known categories (`IsShelf`, which the schema of the request asks for), any
  colours and season claims, any season, cap and limit. That an answer is
  what `Suggestions` computes is the whole of `EngineInv`; the work is in the
  operators. `FilledGrows` and `ComposedGrows`: a garment added to a template is of
  its slot, in season, and was worth adding against those before it.
  `CandidatesExist`: there is a candidate exactly when a template's required slots
  can be filled, whatever the cap. `LowerIsStrict`, `LowerIsTotal` and
  `LowerIsTransitive`: tuples of ids are a strict total order, and
  `CandidatesDiffer` that no two candidates list the same ids, without which
  equal scores would have no order. `RankedOrders`: a finite set ranked by a
  strict total order is each of its members once, in order.
* `ShortlistAlwaysTrue`: `AddSpec => []ShortlistIsTrue`. What is drawn is a shortlist
  some read gave (`IdeasShape`, with `Shortlists`), and of a shortlist the lemmas of
  the engine say the rest.
* `GuardsAlwaysHeld`: `AddSpec => []OneRequestEach`. `GuardsMatchPosts` is not
  inductive: a card that leaves the screen while it saves, and comes back as
  another of the same key, must not be taken for the first. `IdeasInv` has it
  that a mount is numbered by the taps before it and has one shortlist on its way
  (`OneFetch`), that cards are one for a key and told apart by the request they
  were born of (`CardsDealt`), that a save belongs to a card on the screen or to one
  that no card to come can be taken for (`PostsKnown`), the same of the composer
  (`ComposerKnown`), and that the chips count the saves (`SavesCounted`). `Superseded`
  is the one frame in between: the answer that takes a saving card off has come
  and its commit has not. Of the form, `Guarded`: the ref is held by the one save
  under way, which is all that holds a native image.
* `ClaimsAlwaysTrue`: `AddSpec => []NothingIsMadeUp`. `Spoken` says of every reply and
  correction on its way what `ClaimsAreStored` says of the card on screen, and
  `Keeps` that a save that is stored has its outfit. What was said of an item only
  grows (`WordsGrow`), so what one answer bears out no later one takes back.
* `NothingEverLost`: `AddSpec => NothingIsLost`, from the same invariants
  (`PhotoStays`, `SavingCardStays`).

**TrackingProofs** (`Calendar` and `Details`, in `Tracking`)

* `HistoryAlwaysTold` and `PlansAlwaysShown`: `TrackingSpec => []HistoryIsTold` and
  `[]PlansAreShown`. `CalendarInv` has what each request of the history will
  bring (`AskedInv`), that rows end with their cursor, older than all others
  (`HistInv`), and that the effect that pages is left alone only when the month
  is reached (`PagingInv`); of the plans, that the newest request is for the
  month on screen or `misread` remembers why not.
* `ReadersAlwaysHear`: `TrackingSpec => []ReadersHear`. `HearInv` follows each reader
  through its mark and its load: while it reads, it is the answer of the load
  and not the list that must be what is so.
* `PageAlwaysTrue`: `TrackingSpec => []PageIsTrue`. What the screen draws is so, or a
  call is under way whose answer will correct it (`FactsInv`), and an answer
  nothing overtook is what is so (`AnswersInv`).
* `OneRequestAlways`: `TrackingSpec => []OneRequestEach`. `ControlsInv`: a control's
  ref is set exactly while its one call is out, on this visit of the screen and,
  for sharing, on this sheet, whatever the commit drew (`seen`) when it was tapped.

**TabsProofs** (`Galleries` and `PostLists`, in `Tabs`)

* `ListsAlwaysTrue`: `TabsSpec => []ListsAreTrue`. `GalleryInv` has for the grids what
  `FeedClient`'s has for the feed (`FetchInv`, `ServedInv`, `NextInv`, `GridInv`);
  for the walk that what stayed is found or still ahead of it (`WalkInv`); and for
  the laundry list that its three readings, the rows, their marks and the
  count, agree wherever they are of one moment (`ProfileInv`, `ReadInv`).
* `RowsAlwaysTrue`: `TabsSpec => []RowsAreTrue`. `FlagsAreTrue` speaks of posts no
  write is under way for, and so says nothing of what a write puts back or a load
  brings. `PostInv` does: a write that is alone is answered what the server
  holds, and until it is applied what it would put back is what the server
  holds (`AnswerInv`); a load is clean of a post nothing was written to since it was
  sent, and what it read of that post is still so (`CleanInv`); what the cards
  show and what is set differ in what is being written alone (`RefInv`). Like and save are treated
  one flag at a time, which is what lets both be under way for one post.
  `CountInv` is about the counts: the stored one is the likes of all, less the
  `$inc`s still owed by rows that are written and plus those owed by rows that are
  removed, unless one was lost for good; and what a load or an answer brings is a
  count that was stored, kept true by whatever happens before it arrives.
* `SavesAlwaysSettle`: `TabsSpec => []SavesSettle`, with `PaneInv` (a pane that is not
  mounted has neither rows nor loads) and `PressInv` (the presses of different
  writes are different, so a press more, an answer or a pane that goes moves the
  count and the set alike).

The invariants of the runs not named here follow from these by conjunction or
are below. The modules that carry proofs write a state change as one record per
index: the prover does not read two updates of one index in an `EXCEPT`
reliably, and the definitions are the plainer for it.

**Only model-checked.**

* `WallIsTrue`, `DaysAreTrue` and `ReceptionIsTrue`: each compares what a fold, a sort
  or a pattern computes (the columns of the wall, the wears indexed by day and
  the days of a calendar, a search term read by the database, the clusters of a
  photo) with what it promises, over all bounded inputs; for every input that
  would be an induction over data, which the installed provers cannot
  instantiate.
* Every liveness property: fairness and `ENABLED` are out of the prover's reach.
* The two expected violations, which are false.

**Next to prove**: `Wall`, whose pages could be written by rank as `Suggest` is;
its columns are filled one card after the other, and stay with TLC.

## 6. What is not modelled

* The ranking of the most and least worn in `analytics.ts` and its panel: one
  sort by one field.
* The classifier's inference and k-means itself: numeric. `Reception` takes any
  clustering that k-means could answer.
* Reading the environment, the schemas of fields no property depends on, the
  mapping of errors to bodies and wording.
* A change of the token under a mounted list: the screens are mounted with a
  token and unmounted without. `useOutfits`' `remove`, which no screen calls.
* Theme, formatting, layout other than the columns and heights of the feed.
* Shared types: the models use their values as constants.
* Scripts: the measurements, their statistics and the seeding, which are outside
  the running system; `guardAdbReverse`, which has no caller; the controls that
  patch files of the harness itself.
* Clocks: `createdAt` orders as rows are made, except in `Reception`, where rows
  of any instant come and go, and in `Diary`, where time passes in quarters of a
  day and zones keep no daylight saving.
