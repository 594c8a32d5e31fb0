# mc-service: verification project

TLA+ models of mc-service, a self-hosted music platform: Rust microservices
behind an HTTP gateway, Postgres, a shared disk and two React applications.
The models are written from the code in `src/`; docs are quoted only where a
property states what they promise.

- [Inventory](#inventory): the parts, their state, what is hard
- [Modules](#modules): what models what, and how it corresponds to the code
- [Runs](#runs): what TLC checks, with which bounds
- [Proofs](#proofs): what holds for every value of the constants, and why
- [Findings](#findings): where code and documentation disagree
- [Limits](#limits) and [Plan](#plan)

Run a check with `tlc -workers 2 -config X.cfg M` (see the table of runs), the
proofs of a module with `tlapm M.tla`: `IngestionProofs`, `TranscodingProofs`,
`PlaylistProofs`, `AccountsProofs`, `SessionProofs`, `PlayerProofs`,
`PlayerPagesProofs` and `AdminPagesProofs`.

## Inventory

### How a request travels

A client calls the gateway over HTTP. The gateway holds one gRPC client per
service, each behind a tokio `Mutex` (`gateway/src/state.rs:17-33`), and keeps
it locked during the whole call; there is no timeout. So calls of one service
through one gateway follow one another, and calls through two gateways
interleave (`docs/About.md` asks for stateless, horizontally scaled services).
When the client hangs up, axum drops the gateway's future: the Mutex is free at
once, while the service's handler only learns of it later and may run on, or
even finish. This is the one rule behind most of the interleavings below.

### Components

| component | state | operations that change it | what makes it correct | status |
|---|---|---|---|---|
| Ingestion (`services/ingestion`) | scans in memory; writes artist, album, track rows and blobs | scan_directory, ingest_file, ingest_scan | track rows resolve, imported ones to the bytes they hash and to an album of their artist; a file is not imported twice by non-overlapping imports; a scan is consumed once; counters match; enrichment only fills gaps | modelled, proved |
| Catalog (`services/catalog`) | artists, albums, tracks | create_*, update_* (the delete RPCs are unimplemented) | edits by hand survive; a list read page by page misses nothing | partly (Ingestion, Browse, Names, AdminForms; filters left out) |
| Transcoding (`services/transcoding`) | job rows, HLS files, transcoded outputs | transcode_track, generate_hls, cancel_job | a listed variant is there; a completed job has its output; a finished job stays finished; a torn manifest is the one promise that breaks | modelled, proved |
| Media prewarm (`gateway/src/media_processing.rs`) | settings row | run_prewarm_for_library, update settings | a prewarm without an error leaves a manifest for every track; it sees every track; a patch keeps what it does not name | partly (Transcoding, Browse, Accounts) |
| Stream URL (`gateway/src/routes/stream.rs`, `stream/src/server.rs`) | none | ensure_hls_available | a listener who gets a URL finds a manifest | partly (signing left out) |
| Playlist (`services/playlist`) | playlists, playlist_tracks | add, remove, reorder, update, delete, create | positions 1..n; exactly the tracks that were added; no request stuck in a lock | modelled, proved |
| Storage (`services/storage`) | storage_files rows and blobs | store_file, delete_file | a row has its blob | partly (one step, as its callers see it) |
| Auth, admin control (`services/auth`, `gateway/src/admin_control.rs`) | users, runtime settings, tokens | register, login, create, update, delete, settings | an active admin remains; the main admin keeps its rank; a patch keeps what it does not name | partly, proved (passwords and free settings left out) |
| Web session (`web/packages/shared`: `api/client.ts`, `stores/auth.ts`) | token and user in memory, tokens and user in localStorage, one refresh in flight per tab | login, register, logout, restoreSession, request, refresh | the user shown, the token sent and what a reload finds are of one account; a sign-out leaves nothing; nobody waits for a refresh that is over | modelled, proved |
| Player (`web/apps/player`) | queue, index, repeat, shuffle; an audio element per mounted bar | play, next, previous, ..., arrivals of a load, sign-out and sign-in | the loaded track is the chosen one; the button tells whether it is heard, four silent failures apart; a repeated queue comes round | partly, proved (volume left out) |
| Profile page | form, busy flags, messages | save, password, reset, delete, each under several candidate paths | what it calls done was done, once | partly, proved |
| Favorites and dialogs (`lib/library.ts`, two modals, quick add) | what the pages and dialogs know of playlists | find or create Favorites, toggle, add, create | the player makes one playlist of favorites; a settled page shows what the service has | partly, proved |
| Detail pages, Discovery | the record shown | loads | a page shows what its address asks for | partly, proved |
| Shelves (home, Discovery, sidebar) | choices from playlists, analytics, history | loads, plays, toggles | the best of what the page knows, however late an older choice arrives | partly, proved |
| Catalog client (`api/catalog.ts`) | none | completion of rows with names | a name has a source, titles and covers belong together | partly, proved |
| Admin: users, settings, metadata, scan, library | lists, selections, drafts, drawers, flags | loads and saves | a draft is of the account shown; a save changes only what was typed; no spinner without a request | modelled or partly, proved |
| HLS delivery, combined binary, mock-up pages, stubs, `ingestion/src/itunes.rs` | none or unreachable | - | - | not modelled |

`PROJECT.json` lists every hazard with its line. The hard behaviours are:
check-then-act across awaits (duplicate check, manifest check, MAX + 1,
cancel_job, last-admin check); work done in place by two writers (HLS
directories); several writes without a transaction (an import, a stored file);
crashes that leave rows behind (jobs, scans); Mutexes held over long calls; in
the browser, answers that arrive after the page, the dialog, the selection or
the session they were asked for has changed.

## Modules

| module | models | lines of code |
|---|---|---|
| `Ingestion` | `ingestion/src/server.rs`, `repository.rs`, `gateway/src/routes/ingestion.rs`, edits and posts of catalog rows by hand (`catalog/src/server.rs`, `repository.rs`) | ~1100 |
| `IngestionProofs` | theorems about it | |
| `Transcoding` | `transcoding/src/server.rs`, `repository.rs`, `media_processing.rs`, `routes/stream.rs` | ~1100 |
| `TranscodingProofs` | theorems about it | |
| `PlaylistOrder` | the abstract list a playlist is | |
| `Playlist` | `playlist/src/server.rs`, `repository.rs`, `gateway/src/routes/playlist.rs` | ~700 |
| `PlaylistProofs` | theorems about it, and that it implements `PlaylistOrder` | |
| `Accounts` | `auth/src/server.rs`, `repository.rs`, `gateway/src/admin_control.rs`, `routes/auth.rs`, `routes/settings.rs`, the settings of `media_processing.rs` | ~1150 |
| `AccountsProofs` | theorems about it | |
| `Player` | `web/apps/player`: `stores/player.ts`, `PlayerBar.tsx`, the mounting in `App.tsx` | ~600 |
| `PlayerProofs` | theorems about it | |
| `Session` | `api/client.ts`, `api/auth.ts`, `stores/auth.ts`, `App.tsx`, the sign-in pages of both applications | ~650 |
| `Profile` | `pages/ProfilePage.tsx` | ~780 |
| `SessionProofs` | theorems about Session and Profile | |
| `Favorites` | `lib/library.ts`, `useLibraryQuickAdd.ts`, `TrackActionsModal.tsx`, `AddToPlaylistModal.tsx`, `LibraryPage.tsx`, `PlaylistsPage.tsx`, the notification | ~1300 |
| `Browse` | `AlbumPage.tsx`, `ArtistPage.tsx`, `PlaylistDetailPage.tsx`; the paged reading of `DiscoveryPage.tsx`, `media_processing.rs` and `catalog/src/repository.rs` | ~700 |
| `Shelves` | `HomePage.tsx`, `DiscoveryPage.tsx`, `lib/curation.ts`, `Sidebar.tsx`, the history of `player.ts` | ~900 |
| `Names` | `api/catalog.ts` | ~340 |
| `PlayerPagesProofs` | theorems about Favorites, Browse, Shelves and Names | |
| `AdminUsers` | admin `UsersPage.tsx` | ~620 |
| `AdminForms` | admin `SystemConfigPage.tsx`, `SettingsPage.tsx`, `MetadataEditorPage.tsx` | ~1100 |
| `AdminWork` | admin `ScanPage.tsx`, `LibraryPage.tsx` | ~450 |
| `AdminPagesProofs` | theorems about the three | |
| `MC*` | instances for TLC; `MCSession`, `MCPlayerPages` and `MCAdminPages` hold several modules each | |

Common conventions. `queue[g]` is a gateway's client Mutex: first in, first
out, its head is the holder. `HangUp` removes a caller from it, `Abandoned` (or
`~Connected`) says that a handler has lost its caller, and `Cancel`, `Drop` or
`CancelHandler` is the moment the service notices. A handler is one action per
awaited call: between two awaits nothing else of the same process can interfere
with its locals, and everything shared is behind an await. Rows are kept in
creation order, so an index stands for a UUID. Logging, payload text and
statistics are left out. Definitions introduced by a comment `Mutant ...` are
not part of the specification: each is a plausible bug in the operator below
it, used to show that a property notices.

### Ingestion

One request is one `ingest_file` or `ingest_scan`. `pc` walks through
*idle, queued, (take,) next, check, tags, enrich, findArtist, findAlbum,
artwork, store, artist, album, track, reply, done* (or *gone*); `ctx` holds the
locals of `ingest_file`, `todo` the paths of `ingest_scan` not yet taken,
`tally` its counters.

| action | code |
|---|---|
| `Submit`, `Send`, `Respond` | the gateway route waiting for, holding and dropping the client |
| `ScanDirectory`, `TakeScan` | `scan_directory`; the removal from the map at `server.rs:953` |
| `BeginFile`, `CheckDuplicate`, `ExtractMetadata`, `Enrich`, `FindArtist`, `FindExistingAlbum`, `Artwork`, `StoreAudio`, `SaveArtist`, `SaveAlbum`, `CreateTrack` | the numbered steps of `ingest_file` |
| `StepFails`, and the second branch of `Then` | an await fails before it wrote; it wrote and the reply is lost |
| `Cancel`, `Restart`, `HangUp` | dropped handlers, process restarts, clients that leave |
| `EditArtist`, `EditAlbum`, `EditTrack` | the catalog's `update_*`, which an admin calls; artist and album of a track, and the artist of an album, may be any that exist |
| `PostArtist`, `PostAlbum`, `PostTrack` | the catalog's `create_*`, called by anybody who is signed in (`ByHand` gathers the six) |
| `RewriteFile` | the disk |

Data: a content stands for its SHA-256; names are normalised; an image is
missing, embedded, from iTunes or manual; title, genre and year are left out,
since no branch that changes a row depends on them once artwork and images are
known. `seen`, `by`, `forced` and `moved` are history: they record what a
property relates and no guard reads them. `moved` marks an album that was given to
another artist and a track whose artist and album are somebody's choice, edited or
posted: the catalog checks the foreign keys and nothing else, so no property can
tie the two together there. It is the imports that must not.

### Transcoding

A caller is a listener (`CheckManifest`, `LookUpTrack`) or a prewarm task
(`StartPrewarm`, `PickItem`, `FinishPrewarm`); either makes one service call at
a time, whose handler's locals are `call[c]`. `FetchSource`, `CreateJob`,
`StartJob`, `Encode`, `UploadFile`, `StoreOutput`, `CloseJob`, `FailJob`,
`OpenMaster`, `FillMaster` are the awaits of `generate_hls` and `transcode_track`;
`Refuse` is the `?` that returns early and leaves the job row as it was. Files carry
the segment duration they were cut with, `Absent`, or `Torn` (cut short by a
restart): this is all the properties tell apart. The master playlist is truncated
and then written (`tokio::fs::write`, `server.rs:128`), so it is `Absent`, `Open`
(truncated, its writer at work), a list, or `Torn`: by a restart or an error between
the two, or by a second writer over the first. `ManifestExists` is `get_manifest`,
which returns whatever bytes are there, and `Listed` what a player makes of them; an
error of any kind counts as absence (`stream/src/server.rs:107-109`, `stream.rs:62-71`),
so `CheckManifest` may go on to a generation although there is a manifest. A write
of a file, once it was begun, is not stopped by dropping its handler: tokio does it on
a thread of its own. `CancelReads` and `CancelWrites` are the two statements of
`cancel_job`.

### PlaylistOrder and Playlist

`PlaylistOrder` is what a playlist promises: members, and while `tidy`, a list
that every change edits in one step. `Playlist` is the code: each SQL statement
is an action (a multi-row UPDATE one per row), at Postgres' READ COMMITTED:

- a statement sees committed rows and its own (`Visible`);
- `writes[r]` are the uncommitted rows of r's transaction, and its row locks:
  another writer waits (`Free`) and looks again at what was committed;
- the `playlists` row is shared by foreign key checks of inserts, and taken
  by the UPDATE of `updated_at` and by DELETE (`PlaylistHolders`);
- a circular wait is broken by failing one member (`DeadlockAbort`);
- a dropped transaction is rolled back (`Rollback`, `CancelHandler`).

`alone` and `tidy` are history: a change is alone if no other add, remove or
reorder was in the service between its first statement and its commit. The
refinement mapping takes the members from the committed rows, and the list from
the positions while tidy.

### Accounts

`users` is the table, by id (`Unborn`: not inserted yet; `Deleted`: gone, and
ids are not reused); `settings` and `author` are the two settings rows and
their `updated_by`; `tokens` are the users with a token that says admin, which
`Login` issues and only `Expire` takes away, whatever becomes of the account.
A request is one handler; `pc` is the SQL statement it is about to run, `cur`
and `empty` are what it has read. `GiveUp` is a failing statement or a dropped
handler: there is no transaction, so nothing is rolled back.

| action | code |
|---|---|
| `CheckPolicy`, `Send`, `LookUp`, `CountUsers`, `Insert` | `register`: the gateway's policy check, its auth client's Mutex, and the queries of `auth/src/server.rs:114-180` |
| `Insert` with a *create* job | `create_admin_user` |
| `ReadUser`, `CountAdmins`, `UpdateUser`, `DeleteUser` | `update_admin_user`, `delete_admin_user` |
| `ReadSettings`, `WriteSettings` | `update_server_runtime_settings`, `update_media_processing_settings` |
| `Administer` | `auth_middleware` and `require_admin`: the token decides |

A name stands for username and email together, both unique. `UpdatedRow` keeps
an asymmetry of the code: a name that is not given is left alone by `COALESCE`,
while role and status are always bound, to what was read. `stale` and `raced`
are history: a request is stale once somebody else has written its table after
its read, and a table is raced once a stale request has written it. These say
how far the code keeps its rules: `ActiveAdminRemains` holds until a stale
write and fails after one.

### Player

The store's fields keep their names. `audio[b]` is the element of the b-th
`PlayerBar`, `bar` the mounted one (`App.tsx` mounts a bar only while somebody
is signed in), `loads` the calls of `loadTrack` in flight, each with the stage
it waits for and whether its `requestId` is still the latest (*fresh*).

| action | code |
|---|---|
| `SkipNext`, `Previous`, `Play`, `PlayAlbum`, `TogglePlay`, `AddToQueue`, `ToggleShuffle`, `ToggleRepeat` | the methods of `player.ts`, as the bar, the rows and the pages call them |
| `Effects` (part of each) | the effects on `currentTrack` and `isPlaying` (`PlayerBar.tsx:106-176`), which React flushes before the next event |
| `OnUrl`, `OnParsed`, `LoadFails` | the continuations of `loadTrack` |
| `StreamFails` | hls.js gives up on a source after its manifest was parsed; nothing listens for `Hls.Events.ERROR` |
| `Tick`, `EndOfTrack` | `timeupdate` and `ended` |
| `SeekStart`, `Seek` | the range input |
| `Leave`, `Mount` | sign-out and sign-in |

A track is an object, not an id: effects compare objects, `findIndex` compares
ids. Every `play()` may be refused (`Played`): the code ends each in
`.catch(() => {})`, at `PlayerBar.tsx:85`, `144`, `152` and `172`. `failed`,
`refused`, `dry` and `hasty` are history; they name the four ways in which the code
lets button and sound differ: nothing retries a failed load or stream, nobody is told
of a refused `play()`, an ended track that is chosen again is not started (no effect
runs), and `MANIFEST_PARSED` plays whatever `isPlaying` says. Each lasts only until
the button or the track changes: a pause, or the next track, ends the excuse, and
what the property says from then on holds again. Behaviour that the model has
and no property forbids: after its first seconds a track is not restarted by
*previous*, only the shown time is reset (`player.ts:184-188`); a mouse-down on
the seek bar without a change stops the shown time until the next seek.

### Web modules: conventions

A page is a React component: what a handler does between two awaits happens in
one action, together with the effects that the next render runs. An async
function that waits is a *task* (or *load*, *run*, *call*) with the request it
has sent; `Serve` (`Do`, `Answer`) is the moment the service carries it out,
`Fail` a request or an answer that is lost, and a third action takes the answer
up, in any order. `live`, `here` or `mounted` say that what waits for the answer
still exists: a cancelled effect, a closed dialog, a page that was left. Where
the code looks at none of these, neither does the model, and the late answer
lands on whatever is there. The service behind a page is one step per request
(its statements are `Playlist`, `Accounts`, `Ingestion`); a record is one or two
fields, a list its ids. A 401 ends the session and unmounts every page: that is
`Session`, and only `Profile`, whose handlers reach past it, repeats it.

### Session

`tab[t]` is the memory of a tab (token, user, the refresh in flight, calls,
sign-ins under way), `storage` localStorage, a token pair the number of its
issue, so that `Owner` tells whose it is and `expired` whether it is good.

| action | code |
|---|---|
| `Load` | a page load, with the synchronous part of `restoreSession` |
| `SubmitLogin`, `LoginOk`, `LoginFails` | `login`, `register`; the admin application's check of the role |
| `RestoreOk`, `RestoreFails`, `Logout` | the rest of `restoreSession`; `clearAuthState` |
| `StartCall`, `AnswerOk`, `AnswerUnauthorized`, `Deny` | `request()`, before and after its awaits |
| `RefreshOk`, `RefreshFails` | `refreshAccessToken`, shared by the calls that wait |
| `Expire` | the clock |

`last` is history: the last sign-in or sign-out, or *crossed* when it met a
refresh of its own tab, or another tab that holds a token or is about to. The
code does not keep sessions whole then (see [Limits](#limits)); `SessionWhole`
says that it does otherwise, through any refreshes, expiries and failures.

### Profile

The page tries an operation under up to four paths, since it does not know
which a server offers. `offers` and `docs` are the paths a server knows; the
gateway of this repository knows none. `GoesOn` is the rule of `runApiMutation`
and `fetchLegalDocs`, `TryNext` the next attempt with the token of its moment,
`ProfileSaved`, `PasswordChanged`, `AccountReset`, `AccountDeleted`,
`MetaLoaded`, `Denied` the ends of the handlers.

### Favorites

Favourites are the playlist of that name. A task goes through requests *list*
(the search by name), *favorites* (its creation), *relist*, *create*, *add*,
*remove*; `Ensured` is the point at which `ensureUserFavoritesPlaylist` returns.
The dialogs stay mounted with their page, so what they know outlives a closing.
A listener may give a playlist of their own the name of Favorites, in
`PlaylistsPage` and in the dialog, and nothing on the way to the table objects;
`library.ts:13-17` then takes it for Favorites. `namesakes` (history) are these
playlists. `FavoritesOnce` is about the ones the player makes: while a namesake is
listed it makes none, and namesakes never bring it to make two. `SettledIsTrue`
compares pages with the store only without namesakes: of two such playlists a page
shows the one that changed last, and which that is changes under it.
`excused` and `disturbed` are history: two searches that both failed before
either creation, and a request that failed or a change that overlapped another
task.

### Browse, Shelves, Names

`Browse` has two halves. In the first, links and the browser's history change
the address while loads are answered in any order; the pages differ in what they
do with an answer for an older address. In the second, a reader asks for page
after page of the track list, newest first, while imports put tracks before it;
the catalog counts and lists in two statements.

`Shelves` computes what the pages choose (`Curated`, `AdminAlbums`, `SideList`,
`Ranked`) from playlists and plays, and has the runs of
`resolvePopularFavorites` that are cancelled when one of their inputs changes. An
analytics answer is sorted and cut to `Limit` before it is matched with the
favorites, as `fetchPopularFavoritesFromAnalytics` does it, so a favorite far down
the ranking does not count as known. DiscoveryPage looks at the first tracks only of the featured playlists
(`LookedAt`: 40 in `DiscoveryPage.tsx:143-146`, here `MaxFeatured`) and skips those
the catalog did not list (`missed`, 150-152), before it cuts the albums to `Limit`: so
the shelf may be short although featured tracks lie on more albums. The history is cut
to `MaxHistory` (80 in `player.ts:5`). JavaScript's `filter` and `sort` are `Kept` and
`Sorted`, by the rank of each index among the indices (`InOrder`): the library's
`SelectSeq` and `SetToSortSeq` say the same by recursion or with an operator as a
parameter, and the provers can reason about neither.
`Names` is `mapTrack` with its single requests and their fallbacks; a name is the
number of its version, so that an old one is told from a new one.

### AdminUsers, AdminForms, AdminWork

`AdminUsers` has the list, the account clicked last, the accounts the filters
hide and the draft; `Current` is the memo `selectedUser`, `Render` every state
change followed by the effect that fills the draft when the selected *object* is
another one. `AdminForms` is two pages that edit the record they load and the
metadata editor, whose drawer edits a copy; `Filled` is `hydrate`, `hydrateForm`
and the state a drawer begins with, `base` and `touched` history. `AdminWork` is
the scan page and the paged library list.

### Compositions

`MCSession`, `MCPlayerPages` and `MCAdminPages` hold several modules that share
no state. `part` says which of them a behaviour is of: the state spaces add up
instead of multiplying, and what is away has one initial state. This loses
nothing, as no action of one part reads or writes another's variables. Where two
parts interact in the code, it is through the service (which each has as its own
steps of other clients: `Elsewhere`, `Import`, `RenameArtist`) or through the
end of the session.

## Runs

| run | instance | checks |
|---|---|---|
| `ingestion` (635,776 states) | 2 requests, 2 gateways, 2 files of one artist (one fully tagged with a picture, one without album or picture), one scan, 1 restart at any time; or one scan of both files with one disturbance at any time, a row edited or posted by hand or a file rewritten (`Disturbed` names the workloads that have it) | `TypeOK`, `RepeatsOnlyByOverlap`, `ScanTakenOnce`, `TallyMatchesCatalog`, `TrackRowsResolve`, `EnrichmentOnlyFillsGaps`, `EveryRequestAnswered` |
| `ingestion_manual` | the scan with an edit | `ManualEditsKept`, violated |
| `transcoding` (624,945) | 1 track, 2 bitrates, 2 segment durations, 2 callers (listener and listener, listener and prewarm, two transcode prewarms, a two-variant prewarm), 1 cancel, 1 restart | `TypeOK`, `StoredAsPromised`, `FinishedJobsStay`, `EveryCallerAnswered` |
| `transcoding_playable` | a listener and a prewarm of two variants | `ManifestMeansPlayable`, violated |
| `playlist` (348,419) | 2 requests that start again for ever, 1 gateway, 3 tracks, every kind of request, orders that reverse, and one that repeats a track | `TypeOK`, `PositionsDense`, `EveryRequestAnswered`, `ReorderAsAsked`, `ImplementsOrder` |
| `accounts` (1,908,958) | 2 requests at a time, 4 calls in all, 3 ids, 3 names; a fresh install, and a server with the main admin and one more | `TypeOK`, `LastAdminNeedsOverlap`, `PatchKeepsRest`, `MainAdminProtected` |
| `accounts_last` | two admins, demotions and deletions | `ActiveAdminRemains`, violated |
| `player` (2,357,860) | 2 songs, one of them as two objects, 2 sign-ins, 4 clicks, tracks of 2 ticks | `TypeOK`, `SourceIsChosen`, `SoundAsShown`, `ComesRound` |
| `player_voices` | the same, 3 clicks | `OneVoice`, violated |
| `session` (5,245,978) | 2 tabs, an admin and a user, 3 token pairs, 2 calls, 2 page loads, either application; or the profile page: 2 accounts, a server that knows none or two of the paths, 3 handlers, 2 at a time, 1 mishap | `PartsTypeOK`, `SessionWhole`, `WaitsHaveCause`, `ToldIsDone` |
| `player_pages` (4,144,651) | Favorites: 2 tracks, up to 3 playlists, 2 to a list, 6 tasks, 2 at a time, 1 failure; or 4 page loads of 2 ids; or a library of up to 5 tracks read 2 at a time; or shelves of 2 from three listings, 2 featured tracks looked at, a history of 4, 3 acts, 1 mishap; or 2 tracks, an artist and an album with 2 edits each | `PagesTypeOK`, `FavoritesOnce`, `SettledIsTrue`, `ShownIsAsked`, `EveryTrackListed`, `ShelvesAsRanked`, `NamesHaveSource` |
| `admin_pages` (3,524,961) | 4 requests, 2 at a time, 1 mishap: 2 accounts; or a settings form, or the editor with 2 records of 2 fields; or scans and 3 pages of 2 lists | `PagesTypeOK`, `DraftIsOfShown`, `ShownIsStored`, `WaitsHaveCause`, `UntouchedFieldsKept` |

Why these bounds are enough to be interesting:

- *Two requests, two gateways.* Every race in the code is between two handlers
  (check and insert, read and write back, two writers of a directory); a third
  adds queueing, which the FIFO Mutex makes uniform. The theorems cover any number
  of requests, callers, tabs and handlers, in every module that has some.
- *Four calls* (`MaxCalls`) let a race leave its mark and two more requests
  meet the result: a lost check, then the next registration or demotion.
- *Two tabs, three token pairs, two calls, two page loads* (`Session`): one tab
  refreshes while the other signs out, signs in or reloads; three issues are a
  sign-in, a refresh, and a second sign-in or refresh.
- *`MaxTasks`, `MaxAtOnce`* (and `MaxHandlers`, `MaxLoads`, `MaxActs`, `MaxAsked`)
  bound what a user begins: two requests at a time, since every hazard of the
  pages is an answer that meets one other change; three to six in all, so that a
  third one meets what the first two have left. `MaxMishaps`, `MaxFailures` = 1:
  one lost request or one change by another admin, with everything else in order.
- *`PageSize = 2`, three playlists, five tracks, `Limit = 2`,
  `MaxFeatured = 2`, `MaxHistory = 4`*: lists longer than an answer, a library of three
  pages, shelves shorter than what there is, featured tracks on an album that is not
  looked at, a history that drops a play.
- *Four clicks* (`MaxClicks`), *two sign-ins* (`MaxBars`): choose, add to the
  queue, let it repeat, and interfere; a third bar repeats what the second one
  does. `Start = 0`, `End = 2` leave one tick before and one after the limit
  that *previous* looks at; `MaxQueue = 3` lets the queue grow past the index.
- *Two contents.* One needs no iTunes lookup and uploads artwork, the other
  needs both fallbacks: every branch of `ingest_file` is taken.
- *`MaxScans`, `MaxDisturbances`, `MaxCancels`, `MaxRestarts` = 0 or 1.*
  They bound external events; `Disturbed` names the workloads with edits, posts and
  rewrites.
- *`MaxPosition`.* Overlapping adds and removes can push positions up for ever
  (a removal shifts the rows it saw, not the one inserted meanwhile). No add is
  sent while a position of that height is around; three tracks still fit.
- *One gateway* in `playlist`: a caller who hangs up leaves its handler running
  and the client to the next, so two requests meet in the database all the same.
- *Symmetry* (requests) is used in `accounts` and `accounts_last` only, which
  have no liveness property.
- `CHECK_DEADLOCK FALSE` everywhere but in `playlist`: requests,
  clicks, loads and sign-ins are bounded in number, so the system stops when all
  is done. `Playlist` never stops.

Fairness. `WF` on `Progress(r)` in Ingestion and Transcoding: the tokio runtime
polls a handler until it returns, every awaited call returns or fails, and the
Mutex is FIFO. Playlist needs `SF` on `Step(r)`: a statement that waits for a
row lock is enabled again and again while others take and release it, and
Postgres' lock queues are FIFO, so it is not overtaken for ever; Postgres'
deadlock detector is part of `Step`. Accounts, Session and
the pages state no fairness: their `WaitsHaveCause`, `SettledIsTrue` and
`SessionWhole` are invariants that say what must be under way, or true, when
something is waited for or nothing is, and need no assumption on when answers
come. Player has `WF` on `Tick` and `EndOfTrack` (the
browser plays what it can) and on `Arrive` (a request is answered or fails; which,
is open, so `ComesRound` assumes that loads and streams do not fail for ever and that
`play()` is not refused). No client, admin, restart, hang-up, notice
of a hang-up in Playlist, or failing statement is fair. `Cancel` and `Drop` of
the other two are in `Progress`, but a handler that has lost its caller may as
well run to its end.

Each property of a passing run has a mutant (`PROJECT.json`, "mutants") under
which TLC finds it violated in the same instance.

## Proofs

`IngestionProofs` proves, for all values of the constants that satisfy
`IngestionAssumption` (any sets of requests, gateways and contents, any finite
set of paths, any workload and iTunes answers, no bound on rows or edits):

| theorem | statement |
|---|---|
| `Invariance` | `Spec => []IInv` |
| `TypeCorrect` | `Spec => []TypeOK` |
| `CatalogResolves` | `Spec => []TrackRowsResolve` |
| `RepeatsNeedOverlap` | `Spec => []RepeatsOnlyByOverlap` |
| `ScansTakenOnce` | `Spec => []ScanTakenOnce` |
| `TallyIsTrue` | `Spec => []TallyMatchesCatalog` |
| `GapsOnly` | `Spec => EnrichmentOnlyFillsGaps` |

`TrackRowsResolve` is not inductive: `CreateTrack` copies ids from the
handler's locals. `IInv` adds, for every request, `LocalsValid(r)`: the ids in
`ctx[r]` are rows that exist by the time the step that uses them is reached, a
found album belongs to the found artist unless the album was moved, the stored blob has
the bytes hashed, and `seen` is a past length of the track table. Likewise
`ScanTakenOnce` needs `ScanSpent(r)`: a request with paths of a scan to its name
has removed that scan from the map, and ids are never handed out again.
`RepeatsOnlyByOverlap` needs that a row found by nobody at the check (`seen`)
can only have been added later. `TallyMatchesCatalog` speaks of requests that are
done; `TallyInv(r)` says it of every moment: before a request has its paths it has
counted nothing and made no row, and from then on each of its paths is counted, in
hand or still to come, and it has made a row for each import it has counted and
at most one more for each failure (the reply of the last write may be lost).
`GapsOnly` follows from `IInv` and from `ImagesStay`: only the two enriching
writes of an import touch images, each of them guarded by the image it found.

The argument has three layers. `*Advances` lemmas show for each step what it
does to its own locals; `RowsKept`, `OwnedKept` and `LocalsKept` show that rows
only grow, that albums are re-parented only by a move and that a track whose artist or
album changes is marked as moved, so that *other* requests' locals stay valid; `PipelineInv`, `TakeScanInv`, `EnvironmentInv` and
`SurroundingsInv` put one case per action together. `MinIsMember` and
`OldestIsMember` state what the lookup returns. TLC checked `IInv` on both
instances before it was proved.

`AccountsProofs` does the same under `AccountsAssumption` (any users, names,
requests, gateways, jobs and number of calls; an initial table with unique
names which, if it has accounts, has an active admin):

| theorem | statement |
|---|---|
| `Invariance` | `Spec => []IInv` |
| `TypeCorrect` | `Spec => []TypeOK` |
| `AdminRemains` | `Spec => []LastAdminNeedsOverlap` |
| `MainAdminKept` | `Spec => MainAdminProtected` |
| `PatchesKeepRest` | `Spec => PatchKeepsRest` |

The rule of the last admin is not inductive: the write does not look at the
table again. `ReadHolds(r)` carries the check to the write: what r has read is
what the table holds unless r is stale; a request that is about to retire an
active admin, and is not stale, knows of another one; an insert that will not
make an admin knows of an account. `Started` covers the gap between an empty
table and the first admin: an admin's request exists only once somebody has
registered. `QuietInv` covers every step that writes no table, `UsersWriteInv`
every one that writes the users: it makes stale whoever has read them, which is
why the others' `ReadHolds` survives. The two action theorems follow from the
invariant and from `UsersChange` and `SettingsChange`, which say who can change
a table at all.

`SessionProofs` does it for any tabs, users and bounds (`SessionAssumption`), and
for the profile page, for any accounts, paths offered and handlers
(`ProfileAssumption`):

| theorem | statement |
|---|---|
| `Invariance` | `Spec => []IInv` |
| `TypeCorrect` | `Spec => []TypeOK` |
| `SessionsWhole` | `Spec => []SessionWhole` |
| `NobodyWaitsInVain` | `Spec => []WaitsHaveCause` |
| `PartsInvariance` | `PartsSpec => [](IInv /\ ProfileInv)` |
| `PartsTypes` | `PartsSpec => []PartsTypeOK` |
| `ProfileTold` | `PartsSpec => []ToldIsDone` |

That a signed-in tab agrees with localStorage is not inductive: a refresh in
flight installs its pair, whose user is decided when it is answered. `Agrees`
therefore covers the refresh in flight as well as the session: as long as no
sign-in or sign-out has crossed another task, both are of the user in
localStorage, which is empty or whole (`StoreInv`). A sign-in or sign-out in
quiet finds no refresh in flight anywhere and no token in another tab, so the new
user is everybody's. A refresh answered after a quiet sign-out cannot exist,
because localStorage would name its user, and is empty. `TabSound` says what holds
of one tab's memory, `TabGrows` that pairs and calls made elsewhere do it no
harm; every action is then a case of `TaskStep` (neither in nor out),
`LoadStep` (a `QuietStep` or a `ClearStep`), `SignInStep`, `ClearStep`,
`RefreshOkStep` or `ExpireStep`.

The page's promise is about what a handler has seen, so `ProfileInv` is about
handlers: one whose attempts have met nothing yet has done nothing, one that was
answered with success has done its work once (`DoneOnce`); paths tried without a
failure have no documents (`LookedUp`); saves that do not cross are one at a time,
and the name each answers is the one the server keeps (`SavesInOrder`); the open
page waits for its own handlers (`PageTrue`).

`PlaylistProofs`, for any tracks (a finite set), gateways, requests and jobs:

| theorem | statement |
|---|---|
| `Invariance` | `Spec => []IInv` |
| `TypeCorrect` | `Spec => []TypeOK` |
| `PositionsStayDense` | `Spec => []PositionsDense` |
| `ReordersAsAsked` | `Spec => ReorderAsAsked` |
| `OrderIsImplemented` | `Spec => ImplementsOrder` |

`LockInv` is what Postgres gives: no row has two writers, and a cascade has the
table to itself. `WritesInv` says which rows a transaction has written at each
stage of its kind of change. `AloneInv` is the heart: what an undisturbed add,
remove or reorder has read and written so far, relative to the committed table,
which therefore is still the one it began with; `Dense(table, n)` says that the
positions are 1 to n. Then a commit turns a dense table into a dense table
(`DenseAdd`, `DenseRemove`, `DenseReorder`; all three rest on counting,
`DenseCount`), and as a step of the list it is the one `PlaylistOrder` has for
it (`ListAdd`, `ListRemove`, `ListReorder`). `StepRefines` gathers the cases:
every step is a step of the abstract list or leaves it alone. What it takes to
lose tidiness is in `PlaylistOrder` itself: two changes that overlap.

`TranscodingProofs`, for any tracks, callers, bitrates and segmentation, where a
listener asks for one track (`TranscodingAssumption`):

| theorem | statement |
|---|---|
| `Invariance` | `Spec => []IInv` |
| `TypeCorrect` | `Spec => []TypeOK` |
| `PromisesKept` | `Spec => []StoredAsPromised` |
| `FinishedStay` | `Spec => FinishedJobsStay` |

A handler holds a job row that is unfinished unless cancelled, and nobody else's
(`RowInv`); of the files it has to upload, those not in its hand any more are
stored (`UploadInv`); what a caller is on its way to promise, to a listener or
in a job row, is stored already (`PromiseInv`). `MasterInv` is proved on top of
that: no master playlist lists nothing, and none is open without a call that is writing
it; a restart, which takes the writer away, leaves it torn. Nothing of this is disturbed by
others, since files appear and are replaced but never disappear (`Grows`,
`StaysPresent`); a restart may leave a torn file, but takes with it whoever was
writing.

`PlayerProofs`, for any tracks and songs, queues, bars and clicks:

| theorem | statement |
|---|---|
| `Invariance` | `Spec => []IInv` |
| `TypeCorrect` | `Spec => []TypeOK` |
| `ChosenTrackOnly` | `Spec => []SourceIsChosen` |
| `ButtonIsTrue` | `Spec => []SoundAsShown` |

`SourceComes` is what the button's promise needs: a chosen track that is not the
element's source yet is being loaded, unless its load or stream has failed;
`PausedIsPaused` is its other half: while the button says Play, nothing is under
way that could start the element. `EffectsStep` proves once what the effects do
to whatever a handler has left in the store; each click is then a case of it.

`PlayerPagesProofs`, for any tracks, playlists, tasks and failures (Favorites),
pages, ids, page sizes, edits, listings, rankings, histories and lengths of a shelf:

| theorem | statement |
|---|---|
| `PagesInvariance` | `PagesSpec => []PagesInv` |
| `FavoritesAreOne` | `PagesSpec => []FavoritesOnce` |
| `SettledShows` | `PagesSpec => []SettledIsTrue` |
| `AddressIsShown` | `PagesSpec => []ShownIsAsked` |
| `LibraryIsRead` | `PagesSpec => []EveryTrackListed` |
| `NamesAreTrue` | `PagesSpec => []NamesHaveSource` |
| `ShelvesRanked` | `PagesSpec => []ShelvesAsRanked` |
| `PagesTypes` | `PagesSpec => []PagesTypeOK` |

For Favorites, `FavoritesTyped` says of every task which requests its kind sends
and that the playlists it names are there (`TaskSound`), and of the dialogs that
they lie over rows only. `FavoritesWait` gives each spinner and disabled button a
live task. `FavoritesFound` is why the player makes one Favorites (`Made`, those
that are no namesakes): one task at most has looked in vain, and until its creation is
done the player has made none; a second one would have to look in vain as well, which
`excused` records. `QuietInv` is why a settled
page is right: while nothing failed and changes ran alone, a task that changes
something is the only one (`Alone`); what a task was told is so (`AsServed`); what
a change began on is still what the player shows (`AsBegun`); and what is shown is
what is stored, but for the one change that has been made and not been heard of
(`Tells`, with `Created` and `Removed`). Each handler is then one case: of the
types, of the waits, of the search and of the quiet. TLC checked these
invariants, on two instances, before they were proved.

The only live load is of the address that is open, and an album page that was not
reused has only its own load to wait for (`LoadsSound`, `ViewSound`). A reader
that goes through the library has, of the tracks that were there when it began,
those at the places of the pages it has read; tracks put in front move the rest
towards the places it has still to read, never back (`ReaderInv`), so nothing is
skipped. A name that the page shows was asked for and heard, or is the tag, or
its request was lost (`NamesInv`).

For the shelves, the lemmas about the operators come first. Of a finite set and a
strict total order, `InOrder` lists each member once and in order: ranks differ
(`RanksDiffer`), and by counting no rank is left out (`Listed`). So `Kept` leaves
the elements chosen, in their order (`KeptParts`), `Sorted` returns the same
elements by falling keys (`SortParts`, `KeysSort`), and the first of them are not
beaten by any left behind. This makes each choice what the code promises:
`RankedBest` for the popular favorites, and the same for the curated playlists, the
albums and the sidebar. The tracks DiscoveryPage looks at are as many of the featured
ones as it may (`LookedAt`), and the albums those of the ones it got (`AlbumsFair`). `ShelvesInv` then says when a choice is still good.
`Best` holds of the run that is live, for the favorites, entries and history of
*now*, since every change of one of them cancels it; without a live run the page
shows that choice but for the tracks whose request failed (`Settled`). That a run
may be late is why `ShelvesAsRanked` is not inductive by itself: it says nothing
while one is under way. A list of playlists that was answered earlier agrees with
the present ones in everything but Favorites (`Agrees`), which may have been created,
changed or moved to the front since; no shelf but the sidebar's looks at Favorites, and
that one only at its presence.

`AdminPagesProofs`, for any accounts, requests and mishaps:

| theorem | statement |
|---|---|
| `AdminTypes` | `PagesSpec => []PagesTypeOK` |
| `AdminDraft` | `PagesSpec => []DraftIsOfShown` |
| `AdminShown` | `PagesSpec => []ShownIsStored` |
| `AdminWaits` | `PagesSpec => []WaitsHaveCause` |
| `AdminFields` | `PagesSpec => UntouchedFieldsKept` |

While undisturbed, the list of UsersPage is the service's, but for the one change
whose answer is under way (`UsersQuiet`, `Settling`); the editor's form is what
was loaded outside the touched fields, and its list is behind the service only by
a save whose answer is under way (`FormsQuiet`, `Behind`); ScanPage and
LibraryPage wait for one answer each, and a scan is offered while the service
keeps it (`WorkQuiet`). `LeastExists` and `FreeSlot` show that a new request gets
a number nobody has, which is what tells requests apart.

This proof corrected the model's property. `ShownIsStored` as it was stated for
the metadata editor held at 4 requests and fails at 5: a load of another tab ends
the spinner while the own tab's load is still under way, and a load asked before a
save can be answered after the reload that followed it. The step that could not be
proved was just this; `disturbed` now counts such an overlap.

Model-checked only: *liveness*, that is `EveryRequestAnswered` (Ingestion, Playlist),
`EveryCallerAnswered` and `ComesRound`, out of the prover's reach like everything
that needs `ENABLED`. Every invariant and every action property that a passing run
checks is also proved.

## Findings

1. `ManualEditsKept`: migration 020 says that enrichment must not overwrite
   records marked `manually_edited`; the enrichment UPDATEs do not look at the
   flag, so an image an admin has cleared comes back with the next import.
2. `ManifestMeansPlayable`: the fast path takes an existing manifest as proof
   that nothing is left to do. A generation may run beside a manifest that is there:
   its caller looked before, or its look failed, which counts as absence. It writes
   into the same files; if it has other segment durations and fails, or is cut
   short, a mixture of two cuts is left, and no caller generates it again.
3. `ActiveAdminRemains`: "At least one active admin account is required", but
   the count and the write are two statements: two overlapping demotions or
   deletions of the only two admins both pass, and nobody can administer the
   server, since registration promotes only into an empty table.
4. `OneVoice`: a comment in `PlayerBar.tsx` says that audio is cut off while the
   next track loads; the clean-up of a bar removes its listeners and leaves the
   element playing, and the next bar loads the store's track into its own.

Known and modelled without a property that forbids them, since the source
promises nothing:

- Ingestion, Playlist, Transcoding: duplicate rows from overlapping imports
  (bounded by `RepeatsOnlyByOverlap`); equal or missing positions after
  overlapping changes (`PositionsDense` holds while tidy; a reorder repairs
  them); jobs left *processing* by an early return or a restart; the prewarm
  skips a track that has a manifest with the starter variant only, although a
  comment in `stream.rs` leaves further variants to background jobs. A track that was
  edited or posted may name an album of another artist, or a blob with other bytes than
  its hash.
- Transcoding: a `master.m3u8` that was left empty or torn is served for ever, by
  the fast path and past the prewarm, which both ask only whether it can be read
  (`ManifestWhenPromised` names it); a read that fails for another reason starts a
  generation beside it.
- Player: a refused `play()`, a failed load and a stream hls.js has given up are
  logged or not even that; the button says Pause until it is pressed.
- Session: a refresh answered after a sign-out, or after another account has
  signed in, installs its tokens (`client.ts:96-98`); a 401 that is read late
  clears the session of a newer sign-in (`client.ts:152-158`); a tab refreshes
  with the token it finds in localStorage, which may be another tab's account.
- Profile: a late answer of a save sets the user of an earlier account; a late
  answer of a deletion logs out whoever is signed in; a deletion answered with
  204 is reported as not available; a reset reports success always. None of its
  paths exists on the gateway of this repository.
- Favorites: overlapping first uses create two playlists, and so does a listener
  with more than 100 playlists (`FavoritesOnce` names both). A playlist a listener
  names Favorites is used as Favorites; with two of them, tracks and hearts follow the
  one that changed last. HomePage is not told
  of a toggle in a dialog, and the sidebar is never loaded again.
- Browse, Names: AlbumPage takes the answer of any album it has asked for; lists
  show the names the import has written for ever, since an edit of an artist or
  album does not change `metadata_json` and a list asks only for what is missing.
- Admin: the form of SettingsPage can be saved after its load has failed, with
  defaults; the answer of an import drops a newer scan; a click on the tab that
  is open leaves LibraryPage loading; a drawer is closed by the answer of an
  earlier drawer's save. In MetadataEditorPage the load of another tab ends the
  spinner while the own tab's is under way, and a load answered after a save's
  reload puts the older list back; `ShownIsStored` does not speak of such
  overlaps (`disturbed`).

## Limits

- Postgres is modelled as READ COMMITTED with row locks in Playlist; elsewhere
  each statement is atomic and each transaction a single statement, as in the
  code. Connection pools are unbounded: the code waits for a connection, which
  only delays.
- Storage is one step per stored file as seen by its callers. Its own pair of
  writes (blob, then row; `storage/src/server.rs:125` and `238`) is not modelled:
  a crash in between leaves a blob nobody knows, or a row whose blob is gone and
  whose deletion fails for ever.
- The deletion of a playlist through its owner's account
  (`DELETE FROM users`, a cascade) is not an action of Playlist; its effect on
  the rows is that of `delete_playlist`.
- Accounts leaves out passwords, the settings that are lists, numbers or free
  text (they follow the same read, patch and write), and the `LookUp` of
  username and email as two statements (a name stands for both).
- List order within a prewarm over several tracks is left open, which allows
  more interleavings than the code has.
- The web modules flush the effects of a render with the handler that caused it,
  and leave out React's StrictMode, which mounts twice in development only.
  Search fields, sorting of rows, and texts are left out.
- AdminForms writes a field as it was typed. The code drops an emptied
  `formed_date` (`catalog/src/server.rs:515-524`) and replaces bitrates by those in
  range, sorted, or by the former ones (`media_processing.rs:435-449`); the answer shows
  the result, and no property depends on the values.
- The web player has no button that renames or deletes a playlist, so Favorites has no
  such step, and a namesake stays one.
- The matching of playlist names by regular expressions (`lib/curation.ts`) is a
  kind of the playlist in Shelves.

## Not modelled

- HLS delivery (`stream/src/handlers.rs`, `gateway/src/routes/hls.rs`): stateless;
  signatures and URLs character by character.
- Pages without a protocol: mock-ups with fixed or local data, `RightSidebar`,
  which nothing mounts, `DashboardPage`, which asks once and shows the answers,
  tables of colours and texts, markup.
- The combined binary starts the services in one process and keeps nothing. The
  stub services log a line. `ingestion/src/itunes.rs` is reached by nothing.

## Plan

What is next, in this order:

1. Ingestion's scan and the prewarm of Transcoding in one instance: the prewarm
   that follows a scan lists a library that the import has not filled yet.
2. Storage by itself: blob and row as two steps, with a crash in between.
3. Delivery: a signature made by one binary and checked by another, and the
   moment at which it expires within a play list.
