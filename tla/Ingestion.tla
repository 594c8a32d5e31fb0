----------------------------- MODULE Ingestion -----------------------------
(***************************************************************************)
(* The ingestion service (services/ingestion/src/server.rs) together with  *)
(* the rows it writes through the catalog and storage services, and the    *)
(* gateways in front of it (services/gateway/src/routes/ingestion.rs).     *)
(*                                                                         *)
(* A request is one call of ingest_file or ingest_scan.  Every await of    *)
(* the handler is a point where other requests interleave, so the handler  *)
(* is one action per awaited call.  A gateway owns one ingestion client    *)
(* behind a tokio Mutex and keeps it locked for the whole call: queue[g]   *)
(* is that Mutex, the request at its head holds it.                        *)
(*                                                                         *)
(* Rows are kept in creation order, so the index of a row stands for its   *)
(* UUID and "ORDER BY created_at LIMIT 1" is the least index.              *)
(***************************************************************************)
EXTENDS Naturals, Sequences, FiniteSets, SequencesExt

CONSTANTS
    Requests,       \* handler invocations; each one is submitted at most once
    Gateways,       \* gateway processes (docs/About.md: horizontal scaling)
    Paths,          \* audio files below the music directory
    Contents,       \* byte strings; a content stands for its SHA-256 as well
    ArtistNames,    \* normalised artist names: lower(btrim(name))
    AlbumTitles,    \* normalised album titles
    UnknownArtist,  \* the "Unknown Artist" placeholder
    UnknownAlbum,   \* the "Unknown Album" placeholder
    Blank,          \* an empty tag
    Library,        \* [Paths -> Contents or Missing]: the disk at the start
    TagArtist,      \* [Contents -> ArtistNames or Blank]: the artist tag
    TagAlbum,       \* [Contents -> AlbumTitles or Blank]: the album tag
    WithPicture,    \* contents that carry an embedded picture
    Missing,        \* what the disk holds at a path with no file
    Nobody,         \* stands in the place of the request for a row added by hand
    Workloads,      \* what the clients may ask: a set of [Requests -> Job], where
                    \* a client whose job names neither scan nor path asks nothing
    Answers,        \* the [artist, album, art, img] answers iTunes may give
    MaxScans,       \* bound on ScanDirectory calls
    MaxDisturbances, \* bound on catalog rows edited or posted by hand and files
                    \* replaced or removed on disk, together
    Disturbed       \* bound: the workloads in the course of which rows are
                    \* edited or posted by hand and files change

NoImage == "none"
Images == {NoImage, "embedded", "itunes", "manual"}
NoRow == 0

ASSUME IngestionAssumption ==
    /\ UnknownArtist \in ArtistNames /\ UnknownAlbum \in AlbumTitles
    /\ Blank \notin ArtistNames \cup AlbumTitles
    /\ Missing \notin Contents /\ Nobody \notin Requests
    /\ TagArtist \in [Contents -> ArtistNames \cup {Blank}]
    /\ TagAlbum \in [Contents -> AlbumTitles \cup {Blank}]
    /\ WithPicture \subseteq Contents
    /\ Paths # {} /\ IsFiniteSet(Paths) /\ Library \in [Paths -> Contents \cup {Missing}]
    /\ Workloads \subseteq [Requests -> [gw: Gateways, scan: Nat, paths: SUBSET Paths,
                                         force: BOOLEAN]]
    /\ \A w \in Workloads, r \in Requests : w[r].scan # 0 => w[r].paths = {}
    /\ Answers \subseteq [artist: ArtistNames \cup {Blank},
                          album: AlbumTitles \cup {Blank},
                          art: Images, img: Images]

VARIABLES
    disk,       \* [Paths -> Contents or Missing]
    scanPaths,  \* Seq(SUBSET Paths): what each ScanDirectory call found
    scans,      \* scan ids still in the service's in-memory map
    artists,    \* Seq of artist rows
    albums,     \* Seq of album rows
    tracks,     \* Seq of track rows
    blobs,      \* Seq of storage files
    queue,      \* [Gateways -> Seq(Requests)]: the client Mutex, head = holder
    pc,         \* where each request is
    job,        \* what each request was asked to do
    todo,       \* paths a request has still to process
    ctx,        \* the locals of ingest_file for the path in hand
    tally,      \* counters of IngestScanResponse
    edits, rewrites \* counters behind MaxDisturbances

rows == <<artists, albums, tracks, blobs>>
request == <<pc, todo, ctx, tally>>
world == <<disk, scanPaths, edits, rewrites>>
vars == <<disk, scanPaths, scans, artists, albums, tracks, blobs, queue, pc,
          job, todo, ctx, tally, edits, rewrites>>

-----------------------------------------------------------------------------
(* Types *)

\* ingest_scan of the scan id "scan", or ingest_file of the one path if scan = 0.
Job == [gw: Gateways, scan: Nat, paths: SUBSET Paths, force: BOOLEAN]

ArtistRow == [name: ArtistNames, image: Images, edited: BOOLEAN]

\* moved records that an admin re-parented the album with update_album.
AlbumRow == [title: AlbumTitles, artist: Nat, art: Images, edited: BOOLEAN,
             moved: BOOLEAN]

\* seen, by and moved are history: how many tracks existed at this import's
\* duplicate check, the request that inserted the row, and whether its artist and
\* album are a client's choice.  A row added by hand is forced: nothing checked it.
TrackRow == [hash: Contents, artist: Nat, album: Nat, blob: Nat,
             forced: BOOLEAN, seen: Nat, by: Requests \cup {Nobody}, moved: BOOLEAN]

Blob == [kind: {"audio", "artwork"}, of: Contents]

Context == [path: Paths, data: Contents \cup {Missing}, seen: Nat,
            tags: Contents \cup {Missing},
            artist: ArtistNames \cup {Blank}, album: AlbumTitles \cup {Blank},
            fbArt: Images, fbImg: Images,
            exArtist: Nat, artistHasImage: BOOLEAN,
            exAlbum: Nat, albumHasArt: BOOLEAN,
            art: Images, img: Images,
            blob: Nat, artistId: Nat, albumId: Nat]

FreshContext(p) ==
    [path |-> p, data |-> Missing, seen |-> 0, tags |-> Missing,
     artist |-> Blank, album |-> Blank, fbArt |-> NoImage, fbImg |-> NoImage,
     exArtist |-> NoRow, artistHasImage |-> FALSE, exAlbum |-> NoRow,
     albumHasArt |-> FALSE, art |-> NoImage, img |-> NoImage,
     blob |-> NoRow, artistId |-> NoRow, albumId |-> NoRow]

\* The locals while no file is in hand.
NoContext == FreshContext(CHOOSE p \in Paths : TRUE)

Tally == [total: Nat, imported: Nat, duplicates: Nat, failed: Nat]
NoTally == [total |-> 0, imported |-> 0, duplicates |-> 0, failed |-> 0]

\* The awaits inside ingest_file, in program order.
PipelineSteps == {"check", "tags", "enrich", "findArtist", "findAlbum", "artwork",
                  "store", "artist", "album", "track"}
\* Inside a call of the ingestion service.
InService == PipelineSteps \cup {"take", "next"}
Stages == InService \cup {"idle", "queued", "reply", "done", "gone"}

TypeOK ==
    /\ disk \in [Paths -> Contents \cup {Missing}]
    /\ scanPaths \in Seq(SUBSET Paths)
    /\ scans \subseteq 1..Len(scanPaths)
    /\ artists \in Seq(ArtistRow)
    /\ albums \in Seq(AlbumRow)
    /\ tracks \in Seq(TrackRow)
    /\ blobs \in Seq(Blob)
    /\ queue \in [Gateways -> Seq(Requests)]
    /\ pc \in [Requests -> Stages]
    /\ job \in [Requests -> Job]
    /\ todo \in [Requests -> SUBSET Paths]
    /\ ctx \in [Requests -> Context]
    /\ tally \in [Requests -> Tally]
    /\ edits \in Nat /\ rewrites \in Nat

-----------------------------------------------------------------------------
(* Initial state: nothing imported, each client has decided what to ask.   *)

Init ==
    /\ disk = Library
    /\ scanPaths = <<>> /\ scans = {}
    /\ artists = <<>> /\ albums = <<>> /\ tracks = <<>> /\ blobs = <<>>
    /\ queue = [g \in Gateways |-> <<>>]
    /\ pc = [r \in Requests |-> "idle"]
    /\ job \in Workloads
    /\ todo = [r \in Requests |-> {}]
    /\ ctx = [r \in Requests |-> NoContext]
    /\ tally = [r \in Requests |-> NoTally]
    /\ edits = 0 /\ rewrites = 0

-----------------------------------------------------------------------------
(* Queries *)

\* SELECT ... ORDER BY created_at ASC, id ASC LIMIT 1: the oldest match.
Oldest(S) == IF S = {} THEN NoRow ELSE Min(S)

FindArtistByName(name) == Oldest({i \in DOMAIN artists : artists[i].name = name})

FindAlbum(artist, title) ==
    Oldest({i \in DOMAIN albums : albums[i].artist = artist /\ albums[i].title = title})

FindTrackByHash(hash) == \E i \in DOMAIN tracks : tracks[i].hash = hash

Holder(g, r) == queue[g] # <<>> /\ Head(queue[g]) = r

-----------------------------------------------------------------------------
(* The gateway: the Mutex around the ingestion client *)

\* A client posts to /ingest/file or /ingest/scan/{id} of the job's gateway and
\* waits for the lock; tokio's Mutex is first come, first served.
Submit(r) ==
    /\ pc[r] = "idle" /\ (job[r].scan # 0 \/ job[r].paths # {})
    /\ pc' = [pc EXCEPT ![r] = "queued"]
    /\ queue' = [queue EXCEPT ![job[r].gw] = Append(@, r)]
    /\ UNCHANGED <<world, scans, rows, job, todo, ctx, tally>>

\* The lock is acquired and the call reaches the ingestion service.
Send(r) ==
    /\ pc[r] = "queued" /\ Holder(job[r].gw, r)
    /\ pc' = [pc EXCEPT ![r] = IF job[r].scan = 0 THEN "next" ELSE "take"]
    /\ todo' = [todo EXCEPT ![r] = job[r].paths]
    /\ tally' = [tally EXCEPT ![r].total = Cardinality(job[r].paths)]
    /\ UNCHANGED <<world, scans, rows, queue, job, ctx>>

\* The response arrives: the guard of the Mutex is dropped.
Respond(r) ==
    /\ pc[r] = "reply" /\ Holder(job[r].gw, r)
    /\ pc' = [pc EXCEPT ![r] = "done"]
    /\ queue' = [queue EXCEPT ![job[r].gw] = Tail(@)]
    /\ UNCHANGED <<world, scans, rows, job, todo, ctx, tally>>

\* The client hangs up.  axum drops the handler's future, and with it the lock
\* or the place in its queue, at once; a call already sent is only told to stop
\* (a stream reset), so its handler may run on for a while.
HangUp(r) ==
    /\ \E i \in DOMAIN queue[job[r].gw] :
         /\ queue[job[r].gw][i] = r
         /\ queue' = [queue EXCEPT ![job[r].gw] = RemoveAt(@, i)]
    /\ pc' = [pc EXCEPT ![r] = IF pc[r] = "queued" THEN "gone" ELSE @]
    /\ UNCHANGED <<world, scans, rows, job, todo, ctx, tally>>

Abandoned(r) == r \notin ToSet(queue[job[r].gw])

\* The reset reaches the ingestion service, which drops the handler at whatever
\* await it is in.  What it has written stays written.
Cancel(r) ==
    /\ pc[r] \in InService \cup {"reply"} /\ Abandoned(r)
    /\ pc' = [pc EXCEPT ![r] = "gone"]
    /\ ctx' = [ctx EXCEPT ![r] = NoContext]
    /\ todo' = [todo EXCEPT ![r] = {}]
    /\ UNCHANGED <<world, scans, rows, queue, job, tally>>

-----------------------------------------------------------------------------
(* scan_directory and ingest_scan *)

\* scan_directory: found paths are kept under a fresh id.  It takes the same
\* client lock, so a gateway runs it only while no import holds the lock.
ScanDirectory(g) ==
    /\ Len(scanPaths) < MaxScans
    /\ queue[g] = <<>>
    /\ scanPaths' = Append(scanPaths, {p \in Paths : disk[p] # Missing})
    /\ scans' = scans \cup {Len(scanPaths) + 1}
    /\ UNCHANGED <<disk, edits, rewrites, rows, queue, job, request>>

\* Mutant of TakeScan: the paths are copied and stay in the map.
TakeScanByCopy(r) ==
    LET s == job[r].scan IN
    /\ pc[r] = "take" /\ s \in scans
    /\ todo' = [todo EXCEPT ![r] = scanPaths[s]]
    /\ tally' = [tally EXCEPT ![r].total = Cardinality(scanPaths[s])]
    /\ pc' = [pc EXCEPT ![r] = "next"]
    /\ UNCHANGED <<world, scans, rows, queue, job, ctx>>

\* The paths are taken out of the map under its lock, before any is processed.
TakeScan(r) ==
    LET s == job[r].scan IN
    /\ pc[r] = "take"
    /\ \/ /\ s \in scans
          /\ scans' = scans \ {s}
          /\ todo' = [todo EXCEPT ![r] = scanPaths[s]]
          /\ tally' = [tally EXCEPT ![r].total = Cardinality(scanPaths[s])]
          /\ pc' = [pc EXCEPT ![r] = "next"]
       \/ /\ s \notin scans
          /\ pc' = [pc EXCEPT ![r] = "reply"]
          /\ UNCHANGED <<scans, todo, tally>>
    /\ UNCHANGED <<world, rows, queue, job, ctx>>

\* A process restart forgets the scans and every handler in flight; their
\* gateways see an error and release the lock.
Restart ==
    LET lost == {r \in Requests : pc[r] \in InService \cup {"reply"}}
        release(q) == IF q # <<>> /\ Head(q) \in lost THEN Tail(q) ELSE q
    IN
    /\ \E r \in Requests : pc[r] \in InService
    /\ scans' = {}
    /\ pc' = [r \in Requests |-> IF r \in lost THEN "gone" ELSE pc[r]]
    /\ ctx' = [r \in Requests |-> IF r \in lost THEN NoContext ELSE ctx[r]]
    /\ todo' = [r \in Requests |-> IF r \in lost THEN {} ELSE todo[r]]
    /\ queue' = [g \in Gateways |-> release(queue[g])]
    /\ UNCHANGED <<world, rows, job, tally>>

-----------------------------------------------------------------------------
(* ingest_file, one action per await *)

Goto(r, step) == pc' = [pc EXCEPT ![r] = step]

\* Mutant of FileDone: already_exists is not looked at, a duplicate is an import.
FileDoneAnySuccess(r, outcome) ==
    /\ tally' = [tally EXCEPT ![r][IF outcome = "duplicates" THEN "imported" ELSE outcome] = @ + 1]
    /\ ctx' = [ctx EXCEPT ![r] = NoContext]
    /\ Goto(r, "next")

\* ingest_file returned: its locals are gone, ingest_scan counts the outcome and
\* takes the next path.
FileDone(r, outcome) ==
    /\ tally' = [tally EXCEPT ![r][outcome] = @ + 1]
    /\ ctx' = [ctx EXCEPT ![r] = NoContext]
    /\ Goto(r, "next")

\* 1-2. Validate and read the next path, hash the bytes.
BeginFile(r) ==
    /\ pc[r] = "next"
    /\ \E p \in todo[r] :
         /\ todo' = [todo EXCEPT ![r] = @ \ {p}]
         /\ \/ /\ disk[p] # Missing
               /\ ctx' = [ctx EXCEPT ![r] = [FreshContext(p) EXCEPT !.data = disk[p]]]
               /\ Goto(r, "check")
               /\ UNCHANGED tally
            \/ FileDone(r, "failed")
    /\ UNCHANGED <<world, scans, rows, queue, job>>

FinishRequest(r) ==
    /\ pc[r] = "next" /\ todo[r] = {}
    /\ Goto(r, "reply")
    /\ UNCHANGED <<world, scans, rows, queue, job, todo, ctx, tally>>

\* Mutant of CheckDuplicate: force_reimport read the wrong way round.
CheckDuplicateInverted(r) ==
    /\ pc[r] = "check"
    /\ IF job[r].force /\ FindTrackByHash(ctx[r].data)
       THEN FileDone(r, "duplicates")
       ELSE /\ ctx' = [ctx EXCEPT ![r].seen = Len(tracks)]
            /\ Goto(r, "tags")
            /\ UNCHANGED tally
    /\ UNCHANGED <<world, scans, rows, queue, job, todo>>

\* 3. The duplicate check, skipped by force_reimport.
CheckDuplicate(r) ==
    /\ pc[r] = "check"
    /\ IF ~job[r].force /\ FindTrackByHash(ctx[r].data)
       THEN FileDone(r, "duplicates")
       ELSE /\ ctx' = [ctx EXCEPT ![r].seen = Len(tracks)]
            /\ Goto(r, "tags")
            /\ UNCHANGED tally
    /\ UNCHANGED <<world, scans, rows, queue, job, todo>>

\* 4. lofty reads the tags from the path again, not from the bytes in memory.
ExtractMetadata(r) ==
    LET now == disk[ctx[r].path] IN
    /\ pc[r] = "tags" /\ now # Missing
    /\ ctx' = [ctx EXCEPT ![r].tags = now, ![r].artist = TagArtist[now],
                          ![r].album = TagAlbum[now]]
    /\ Goto(r, "enrich")
    /\ UNCHANGED <<world, scans, rows, queue, job, todo, tally>>

\* Mutant of OrElse: no placeholder for a blank value.
OrElseBlank(value, default) == value

OrElse(value, default) == IF value = Blank THEN default ELSE value

\* iTunes is asked only when a tag, the artwork or the artist image is missing;
\* no answer is an answer of Blanks and NoImage.
NeedsItunes(c) ==
    LET artist == FindArtistByName(OrElse(c.artist, UnknownArtist))
        album == IF artist = NoRow THEN NoRow
                 ELSE FindAlbum(artist, OrElse(c.album, UnknownAlbum))
    IN  \/ c.artist = Blank \/ c.album = Blank
        \/ c.tags \notin WithPicture /\ (album = NoRow \/ albums[album].art = NoImage)
        \/ artist = NoRow \/ artists[artist].image = NoImage

NoAnswer == [artist |-> Blank, album |-> Blank, art |-> NoImage, img |-> NoImage]

\* The fallback: local tags win, iTunes fills the blanks, placeholders the rest.
Enrich(r) ==
    /\ pc[r] = "enrich"
    /\ \E a \in (IF NeedsItunes(ctx[r]) THEN Answers \cup {NoAnswer} ELSE {NoAnswer}) :
         ctx' = [ctx EXCEPT
            ![r].artist = OrElse(OrElse(@, a.artist), UnknownArtist),
            ![r].album = OrElse(OrElse(@, a.album), UnknownAlbum),
            ![r].fbArt = a.art,
            ![r].fbImg = IF a.img = NoImage THEN a.art ELSE a.img]
    /\ Goto(r, "findArtist")
    /\ UNCHANGED <<world, scans, rows, queue, job, todo, tally>>

\* Re-query after the fallback.
FindArtist(r) ==
    LET a == FindArtistByName(ctx[r].artist) IN
    /\ pc[r] = "findArtist"
    /\ ctx' = [ctx EXCEPT ![r].exArtist = a,
                          ![r].artistHasImage = a # NoRow /\ artists[a].image # NoImage]
    /\ Goto(r, "findAlbum")
    /\ UNCHANGED <<world, scans, rows, queue, job, todo, tally>>

FindExistingAlbum(r) ==
    LET b == IF ctx[r].exArtist = NoRow THEN NoRow
             ELSE FindAlbum(ctx[r].exArtist, ctx[r].album)
    IN
    /\ pc[r] = "findAlbum"
    /\ ctx' = [ctx EXCEPT ![r].exAlbum = b,
                          ![r].albumHasArt = b # NoRow /\ albums[b].art # NoImage,
                          ![r].art = IF b = NoRow THEN NoImage ELSE albums[b].art]
    /\ Goto(r, "artwork")
    /\ UNCHANGED <<world, scans, rows, queue, job, todo, tally>>

\* The album keeps its artwork; else the embedded picture is uploaded; else the
\* iTunes URL is used.  The artist image falls back to the album artwork.
Artwork(r) ==
    LET c == ctx[r]
        upload == c.art = NoImage /\ c.tags \in WithPicture
        art == IF upload THEN "embedded" ELSE IF c.art = NoImage THEN c.fbArt ELSE c.art
    IN
    /\ pc[r] = "artwork"
    /\ blobs' = IF upload THEN Append(blobs, [kind |-> "artwork", of |-> c.tags]) ELSE blobs
    /\ \/ /\ ctx' = [ctx EXCEPT ![r].art = art,
                                ![r].img = IF c.fbImg = NoImage THEN art ELSE c.fbImg]
          /\ Goto(r, "store")
          /\ UNCHANGED tally
       \/ upload /\ FileDone(r, "failed")
    /\ UNCHANGED <<world, scans, artists, albums, tracks, queue, job, todo>>

\* What follows a call that wrote: its reply is used, or is lost on the way and
\* the handler fails with the write done.
Then(r, step, c) ==
    \/ ctx' = [ctx EXCEPT ![r] = c] /\ Goto(r, step) /\ UNCHANGED tally
    \/ FileDone(r, "failed")

\* Mutant of StoreAudio: the file is streamed from the disk again.
StoreAudioFromDisk(r) ==
    /\ pc[r] = "store" /\ disk[ctx[r].path] # Missing
    /\ blobs' = Append(blobs, [kind |-> "audio", of |-> disk[ctx[r].path]])
    /\ Then(r, "artist", [ctx[r] EXCEPT !.blob = Len(blobs) + 1])
    /\ UNCHANGED <<world, scans, artists, albums, tracks, queue, job, todo>>

\* 5. The bytes read in step 1 go to the storage service.
StoreAudio(r) ==
    /\ pc[r] = "store"
    /\ blobs' = Append(blobs, [kind |-> "audio", of |-> ctx[r].data])
    /\ Then(r, "artist", [ctx[r] EXCEPT !.blob = Len(blobs) + 1])
    /\ UNCHANGED <<world, scans, artists, albums, tracks, queue, job, todo>>

\* Mutant of FillIfMissing: a plain UPDATE, trusting what the handler read.
FillAlways(current, value) == value

\* UPDATE ... CASE WHEN the column is empty AND there is a value: decided by the
\* row as it is now, whatever the handler read earlier.
FillIfMissing(current, value) == IF current = NoImage THEN value ELSE current

\* 6. Reuse the artist that was found, filling its image, or create one.
SaveArtist(r) ==
    LET c == ctx[r]
        reuse == c.exArtist # NoRow
    IN
    /\ pc[r] = "artist"
    /\ artists' = IF ~reuse
                  THEN Append(artists, [name |-> c.artist, image |-> c.img, edited |-> FALSE])
                  ELSE IF c.artistHasImage THEN artists
                  ELSE [artists EXCEPT ![c.exArtist].image = FillIfMissing(@, c.img)]
    /\ Then(r, "album", [c EXCEPT !.artistId = IF reuse THEN c.exArtist
                                               ELSE Len(artists) + 1])
    /\ UNCHANGED <<world, scans, albums, tracks, blobs, queue, job, todo>>

\* 7. The same for the album.
SaveAlbum(r) ==
    LET c == ctx[r]
        reuse == c.exAlbum # NoRow
    IN
    /\ pc[r] = "album"
    /\ albums' = IF ~reuse
                 THEN Append(albums, [title |-> c.album, artist |-> c.artistId,
                                      art |-> c.art, edited |-> FALSE, moved |-> FALSE])
                 ELSE IF c.albumHasArt THEN albums
                 ELSE [albums EXCEPT ![c.exAlbum].art = FillIfMissing(@, c.art)]
    /\ Then(r, "track", [c EXCEPT !.albumId = IF reuse THEN c.exAlbum
                                              ELSE Len(albums) + 1])
    /\ UNCHANGED <<world, scans, artists, tracks, blobs, queue, job, todo>>

\* 8. The track row, with the hash and the storage file of the bytes read.
CreateTrack(r) ==
    LET c == ctx[r] IN
    /\ pc[r] = "track"
    /\ tracks' = Append(tracks, [hash |-> c.data, artist |-> c.artistId,
                                 album |-> c.albumId, blob |-> c.blob,
                                 forced |-> job[r].force, seen |-> c.seen, by |-> r,
                                 moved |-> FALSE])
    /\ \E outcome \in {"imported", "failed"} : FileDone(r, outcome)
    /\ UNCHANGED <<world, scans, artists, albums, blobs, queue, job, todo>>

\* Mutant of StepFails: a file that could not be imported goes back to the others.
StepFailsRetried(r) ==
    /\ pc[r] \in PipelineSteps
    /\ todo' = [todo EXCEPT ![r] = @ \cup {ctx[r].path}]
    /\ ctx' = [ctx EXCEPT ![r] = NoContext]
    /\ Goto(r, "next")
    /\ UNCHANGED <<world, scans, rows, queue, job, tally>>

\* Any awaited call of the pipeline may fail before it has written anything.
StepFails(r) ==
    /\ pc[r] \in PipelineSteps
    /\ FileDone(r, "failed")
    /\ UNCHANGED <<world, scans, rows, queue, job, todo>>

-----------------------------------------------------------------------------
(* The environment: admins edit rows through the catalog, files change.    *)

\* update_artist: any subset of fields; manually_edited defaults to TRUE.
EditArtist(i) ==
    /\ edits + rewrites < MaxDisturbances /\ job \in Disturbed
    /\ \E name \in ArtistNames, image \in {artists[i].image, NoImage, "manual"},
         flag \in BOOLEAN :
         artists' = [artists EXCEPT ![i] = [name |-> name, image |-> image, edited |-> flag]]
    /\ edits' = edits + 1
    /\ UNCHANGED <<disk, scanPaths, rewrites, scans, albums, tracks, blobs, queue, job, request>>

\* update_album, which may also give the album to another artist.
EditAlbum(i) ==
    /\ edits + rewrites < MaxDisturbances /\ job \in Disturbed
    /\ \E title \in AlbumTitles, owner \in DOMAIN artists,
         art \in {albums[i].art, NoImage, "manual"}, flag \in BOOLEAN :
         albums' = [albums EXCEPT ![i] =
            [title |-> title, artist |-> owner, art |-> art, edited |-> flag,
             moved |-> @.moved \/ owner # @.artist]]
    /\ edits' = edits + 1
    /\ UNCHANGED <<disk, scanPaths, rewrites, scans, artists, tracks, blobs, queue, job, request>>

\* update_track, which may give the track to another artist, to another album, or
\* to an album of somebody else: only the foreign keys are checked.
EditTrack(i) ==
    /\ edits + rewrites < MaxDisturbances /\ job \in Disturbed
    /\ \E artist \in DOMAIN artists, album \in DOMAIN albums :
         tracks' = [tracks EXCEPT ![i].artist = artist, ![i].album = album,
                                  ![i].moved = @ \/ tracks[i].artist # artist \/ tracks[i].album # album]
    /\ edits' = edits + 1
    /\ UNCHANGED <<disk, scanPaths, rewrites, scans, artists, albums, blobs, queue, job, request>>

\* create_artist, create_album and create_track called by a client of the gateway
\* (any user who is signed in) rather than by an import.  A name is not looked up,
\* a hash is not compared with a file: only the foreign keys are checked.
PostArtist ==
    /\ edits + rewrites < MaxDisturbances /\ job \in Disturbed
    /\ \E name \in ArtistNames, image \in {NoImage, "manual"} :
         artists' = Append(artists, [name |-> name, image |-> image, edited |-> FALSE])
    /\ edits' = edits + 1
    /\ UNCHANGED <<disk, scanPaths, rewrites, scans, albums, tracks, blobs, queue, job, request>>

PostAlbum ==
    /\ edits + rewrites < MaxDisturbances /\ job \in Disturbed
    /\ \E title \in AlbumTitles, owner \in DOMAIN artists, art \in {NoImage, "manual"} :
         albums' = Append(albums, [title |-> title, artist |-> owner, art |-> art,
                                   edited |-> FALSE, moved |-> FALSE])
    /\ edits' = edits + 1
    /\ UNCHANGED <<disk, scanPaths, rewrites, scans, artists, tracks, blobs, queue, job, request>>

PostTrack ==
    /\ edits + rewrites < MaxDisturbances /\ job \in Disturbed
    /\ \E hash \in Contents, artist \in DOMAIN artists, album \in DOMAIN albums,
         blob \in DOMAIN blobs :
         tracks' = Append(tracks, [hash |-> hash, artist |-> artist, album |-> album,
                                   blob |-> blob, forced |-> TRUE, seen |-> Len(tracks),
                                   by |-> Nobody, moved |-> TRUE])
    /\ edits' = edits + 1
    /\ UNCHANGED <<disk, scanPaths, rewrites, scans, artists, albums, blobs, queue, job, request>>

\* A file of the library is replaced or removed while the service may be reading it.
RewriteFile(p) ==
    /\ edits + rewrites < MaxDisturbances /\ job \in Disturbed
    /\ \E c \in (Contents \cup {Missing}) \ {disk[p]} : disk' = [disk EXCEPT ![p] = c]
    /\ rewrites' = rewrites + 1
    /\ UNCHANGED <<scanPaths, edits, scans, rows, queue, job, request>>

-----------------------------------------------------------------------------
\* What the runtime drives to completion once a request is submitted.
Progress(r) ==
    \/ Send(r) \/ Respond(r) \/ Cancel(r)
    \/ TakeScan(r) \/ BeginFile(r) \/ FinishRequest(r) \/ CheckDuplicate(r)
    \/ ExtractMetadata(r) \/ Enrich(r) \/ FindArtist(r) \/ FindExistingAlbum(r)
    \/ Artwork(r) \/ StoreAudio(r) \/ SaveArtist(r) \/ SaveAlbum(r)
    \/ CreateTrack(r) \/ StepFails(r)

\* What admins and other clients do to the catalog through its own routes.
ByHand ==
    \/ \E i \in DOMAIN artists : EditArtist(i)
    \/ \E i \in DOMAIN albums : EditAlbum(i)
    \/ \E i \in DOMAIN tracks : EditTrack(i)
    \/ PostArtist \/ PostAlbum \/ PostTrack

Next ==
    \/ \E r \in Requests : Submit(r) \/ HangUp(r) \/ Progress(r)
    \/ \E g \in Gateways : ScanDirectory(g)
    \/ Restart
    \/ ByHand
    \/ \E p \in Paths : RewriteFile(p)

Spec == Init /\ [][Next]_vars

\* The runtime polls every request until it returns.
FairSpec == Spec /\ \A r \in Requests : WF_vars(Progress(r))

-----------------------------------------------------------------------------
(* Properties *)

\* Every track row resolves: its artist, album and storage file exist, whoever
\* wrote it.  The file of an imported row is audio and holds the very bytes whose
\* hash the row carries (although the path is read twice and may change in
\* between), and its album belongs to its artist unless an admin has moved the
\* track or the album: no import puts a track on another artist's album, although
\* the handler looks its artist and album up steps before it writes them.
TrackRowsResolve ==
    \A i \in DOMAIN tracks : LET t == tracks[i] IN
        /\ t.artist \in DOMAIN artists
        /\ t.album \in DOMAIN albums
        /\ t.blob \in DOMAIN blobs
        /\ t.by # Nobody => blobs[t.blob] = [kind |-> "audio", of |-> t.hash]
        /\ t.moved \/ albums[t.album].moved \/ albums[t.album].artist = t.artist

\* No unique index backs the duplicate check, so two imports of the same bytes
\* may both insert a row; but only if they overlap.  An unforced import never
\* repeats a track that was already there when it made its check.
RepeatsOnlyByOverlap ==
    \A i, j \in DOMAIN tracks :
        i < j /\ tracks[i].hash = tracks[j].hash /\ ~tracks[j].forced
            => tracks[j].seen < i

\* "Take the paths out of the cache so a re-run with the same scan_id doesn't
\* duplicate work": two requests never process the paths of one scan, in any
\* interleaving of two gateways, a hang-up and a retry.
ScanTakenOnce ==
    \A r, q \in Requests :
        r # q /\ job[r].scan # 0 /\ job[r].scan = job[q].scan
            => tally[r].total = 0 \/ tally[q].total = 0

Created(r) == Cardinality({i \in DOMAIN tracks : tracks[i].by = r})

\* The counters of ingest_scan account for every path exactly once, and bound
\* what reached the catalog: each import counted has its row, and a row without
\* a count is one whose reply was lost and counted as a failure (or belongs to
\* a handler cut short, which reports nothing).
TallyMatchesCatalog ==
    \A r \in Requests : LET t == tally[r] IN
        /\ pc[r] \in PipelineSteps \cup {"next", "reply", "done"} =>
             t.total = t.imported + t.duplicates + t.failed + Cardinality(todo[r])
                       + (IF pc[r] \in PipelineSteps THEN 1 ELSE 0)
        /\ t.imported <= Created(r) /\ Created(r) <= t.imported + t.failed

\* Enrichment only fills gaps: an image or artwork that is present is never
\* replaced by an import, even one that read the row while it was still empty.
EnrichmentOnlyFillsGaps ==
    [][edits' = edits =>
        /\ \A i \in DOMAIN artists :
             artists[i].image # NoImage => artists'[i].image = artists[i].image
        /\ \A i \in DOMAIN albums :
             albums[i].art # NoImage => albums'[i].art = albums[i].art]_vars

\* Every request that waits for a gateway's client lock is answered in the end
\* or its client is gone: no failure, hang-up or restart leaks the lock.
EveryRequestAnswered ==
    \A r \in Requests : pc[r] = "queued" ~> pc[r] \in {"done", "gone"}

\* migrations/postgres/020_add_manual_metadata.sql: "When `manually_edited` is
\* TRUE, the iTunes (or any future automated) enrichment job MUST NOT overwrite
\* the record's mutable metadata fields."
ManualEditsKept ==
    [][\A i \in DOMAIN artists :
        artists[i].edited /\ edits' = edits => artists'[i] = artists[i]]_vars
=============================================================================
