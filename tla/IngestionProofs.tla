-------------------------- MODULE IngestionProofs --------------------------
(***************************************************************************)
(* Proofs about Ingestion for every number of requests, gateways, paths    *)
(* and contents, and with no bound on scans, edits or rewritten files.     *)
(***************************************************************************)
EXTENDS Ingestion, FiniteSetTheorems, SequenceTheorems, WellFoundedInduction, TLAPS

-----------------------------------------------------------------------------
(* Lemmas about the operators of the model *)

\* A non-empty set of row indices has an oldest element: the intervals 0..i of
\* its members are finite, and strict inclusion of finite sets is well-founded.
LEMMA MinIsMember ==
    ASSUME NEW S \in SUBSET Nat, S # {}
    PROVE  Min(S) \in S /\ \A i \in S : Min(S) <= i
<1> DEFINE T == {0 .. i : i \in S}
<1>1. T \subseteq FiniteSubsetsOf(Nat) /\ T # {}
  <2>1. \A i \in S : 0 .. i \in SUBSET Nat /\ IsFiniteSet(0 .. i)
    BY FS_Interval
  <2> QED
    BY <2>1 DEF FiniteSubsetsOf
<1>2. PICK X \in T : \A Y \in T : <<Y, X>> \notin StrictSubsetOrdering(Nat)
  BY <1>1, FS_StrictSubsetOrderingWellFounded, WFMin
<1>3. PICK x \in S : X = 0 .. x
  OBVIOUS
<1>4. \A y \in S : x <= y
  <2> SUFFICES ASSUME NEW y \in S, y < x PROVE FALSE
    OBVIOUS
  <2>1. 0 .. y \in T /\ 0 .. y \subseteq 0 .. x /\ x \in 0 .. x /\ x \notin 0 .. y
    OBVIOUS
  <2>2. <<0 .. y, X>> \in StrictSubsetOrdering(Nat)
    BY <2>1, <1>3 DEF StrictSubsetOrdering
  <2> QED
    BY <2>1, <2>2, <1>2
<1> QED
  BY <1>4 DEF Min

\* A lookup returns no row or one that matches.
LEMMA OldestIsMember ==
    ASSUME NEW S \in SUBSET Nat
    PROVE  Oldest(S) = NoRow \/ Oldest(S) \in S
BY MinIsMember DEF Oldest

LEMMA ArtistLookup ==
    ASSUME TypeOK, NEW name
    PROVE  FindArtistByName(name) \in 0 .. Len(artists)
<1> DEFINE S == {i \in DOMAIN artists : artists[i].name = name}
<1>1. DOMAIN artists = 1 .. Len(artists) /\ Len(artists) \in Nat
  BY DEF TypeOK
<1>2. Oldest(S) = NoRow \/ Oldest(S) \in S
  BY <1>1, OldestIsMember
<1> QED
  BY <1>1, <1>2 DEF FindArtistByName, NoRow

\* An album that is found belongs to the artist it was searched under.
LEMMA AlbumLookup ==
    ASSUME TypeOK, NEW artist, NEW title
    PROVE  /\ FindAlbum(artist, title) \in 0 .. Len(albums)
           /\ FindAlbum(artist, title) # 0 => albums[FindAlbum(artist, title)].artist = artist
<1> DEFINE S == {i \in DOMAIN albums : albums[i].artist = artist /\ albums[i].title = title}
<1>1. DOMAIN albums = 1 .. Len(albums) /\ Len(albums) \in Nat
  BY DEF TypeOK
<1>2. Oldest(S) = NoRow \/ Oldest(S) \in S
  BY <1>1, OldestIsMember
<1> QED
  BY <1>1, <1>2 DEF FindAlbum, NoRow

\* Removing a waiter leaves a queue of requests.
LEMMA RemoveAtType ==
    ASSUME NEW S, NEW s \in Seq(S), NEW i \in 1 .. Len(s)
    PROVE  RemoveAt(s, i) \in Seq(S)
<1>1. SubSeq(s, 1, i - 1) \in Seq(S) /\ SubSeq(s, i + 1, Len(s)) \in Seq(S)
  BY SubSeqProperties
<1> QED
  BY <1>1, ConcatProperties DEF RemoveAt

-----------------------------------------------------------------------------
(* Type correctness *)

LEMMA FreshContextType ==
    ASSUME NEW p \in Paths
    PROVE  FreshContext(p) \in Context
BY DEF FreshContext, Context, Images, NoImage, NoRow

LEMMA NoContextType == NoContext \in Context
<1>1. (CHOOSE p \in Paths : TRUE) \in Paths
  BY IngestionAssumption
<1> QED
  BY <1>1, FreshContextType DEF NoContext

LEMMA PathSetSize ==
    ASSUME NEW P \in SUBSET Paths
    PROVE  Cardinality(P) \in Nat
BY IngestionAssumption, FS_Subset, FS_CardinalityType

\* A finished file counts once and leaves the request in the loop.
LEMMA FileDoneType ==
    ASSUME TypeOK, NEW r \in Requests,
           NEW outcome \in {"imported", "duplicates", "failed"}, FileDone(r, outcome)
    PROVE  tally' \in [Requests -> Tally] /\ ctx' \in [Requests -> Context]
           /\ pc' \in [Requests -> Stages]
<1>1. [tally[r] EXCEPT ![outcome] = @ + 1] \in Tally
  <2>1. tally[r] \in Tally
    BY DEF TypeOK
  <2>2. CASE outcome = "imported"
    BY <2>1, <2>2 DEF Tally
  <2>3. CASE outcome = "duplicates"
    BY <2>1, <2>3 DEF Tally
  <2>4. CASE outcome = "failed"
    BY <2>1, <2>4 DEF Tally
  <2> QED
    BY <2>2, <2>3, <2>4
<1>2. tally' \in [Requests -> Tally]
  BY <1>1 DEF FileDone, TypeOK
<1>3. ctx' \in [Requests -> Context] /\ pc' \in [Requests -> Stages]
  BY NoContextType DEF FileDone, Goto, TypeOK, Stages, InService
<1> QED
  BY <1>2, <1>3

LEMMA ThenType ==
    ASSUME TypeOK, NEW r \in Requests, NEW step \in Stages, NEW c \in Context, Then(r, step, c)
    PROVE  tally' \in [Requests -> Tally] /\ ctx' \in [Requests -> Context]
           /\ pc' \in [Requests -> Stages]
<1>1. CASE FileDone(r, "failed")
  BY <1>1, FileDoneType
<1>2. CASE ctx' = [ctx EXCEPT ![r] = c] /\ Goto(r, step) /\ UNCHANGED tally
  BY <1>2 DEF Goto, TypeOK
<1> QED
  BY <1>1, <1>2 DEF Then

\* An image filled in is an image.
LEMMA FillType ==
    ASSUME NEW current \in Images, NEW value \in Images
    PROVE  FillIfMissing(current, value) \in Images
BY DEF FillIfMissing

LEMMA InitType == Init => TypeOK
<1> SUFFICES ASSUME Init PROVE TypeOK
  OBVIOUS
<1>1. job \in [Requests -> Job]
  BY IngestionAssumption DEF Init, Job
<1>2. artists \in Seq(ArtistRow) /\ albums \in Seq(AlbumRow) /\ tracks \in Seq(TrackRow)
      /\ blobs \in Seq(Blob) /\ scanPaths \in Seq(SUBSET Paths)
      /\ queue \in [Gateways -> Seq(Requests)]
  BY DEF Init
<1>3. ctx \in [Requests -> Context] /\ tally \in [Requests -> Tally]
  BY NoContextType DEF Init, NoTally, Tally
<1> QED
  BY <1>1, <1>2, <1>3, IngestionAssumption DEF Init, TypeOK, Stages

\* The calls around the pipeline: gateway, scans, restart, environment.
LEMMA GatewayType ==
    ASSUME TypeOK, NEW r \in Requests,
           Submit(r) \/ Send(r) \/ Respond(r) \/ HangUp(r) \/ Cancel(r)
    PROVE  TypeOK'
<1> USE DEF Goto, Stages, InService, world, rows
<1>0. job[r] \in Job /\ job[r].gw \in Gateways /\ job[r].paths \in SUBSET Paths
  BY DEF TypeOK, Job
<1>1. CASE Submit(r)
  <2>1. queue' \in [Gateways -> Seq(Requests)]
    BY <1>0, <1>1, AppendProperties DEF Submit, TypeOK
  <2> QED
    BY <2>1, <1>1 DEF Submit, TypeOK
<1>2. CASE Send(r)
  <2>1. tally' \in [Requests -> Tally]
    BY <1>0, <1>2, PathSetSize DEF Send, TypeOK, Tally
  <2>2. todo' \in [Requests -> SUBSET Paths]
    BY <1>0, <1>2 DEF Send, TypeOK
  <2> QED
    BY <2>1, <2>2, <1>2 DEF Send, TypeOK
<1>3. CASE Respond(r)
  <2>1. queue' \in [Gateways -> Seq(Requests)]
    BY <1>0, <1>3, HeadTailProperties DEF Respond, Holder, TypeOK
  <2> QED
    BY <2>1, <1>3 DEF Respond, TypeOK
<1>4. CASE HangUp(r)
  <2>1. queue' \in [Gateways -> Seq(Requests)]
    BY <1>0, <1>4, RemoveAtType DEF HangUp, TypeOK
  <2> QED
    BY <2>1, <1>4 DEF HangUp, TypeOK
<1>5. CASE Cancel(r)
  BY <1>5, NoContextType DEF Cancel, TypeOK
<1> QED
  BY <1>1, <1>2, <1>3, <1>4, <1>5

LEMMA ScanType ==
    ASSUME TypeOK,
           (\E g \in Gateways : ScanDirectory(g)) \/ (\E r \in Requests : TakeScan(r)) \/ Restart
    PROVE  TypeOK'
<1> USE DEF Goto, Stages, InService, world, rows, request
<1>1. CASE \E g \in Gateways : ScanDirectory(g)
  <2> DEFINE found == {p \in Paths : disk[p] # Missing}
  <2>1. /\ Append(scanPaths, found) \in Seq(SUBSET Paths)
        /\ Len(Append(scanPaths, found)) = Len(scanPaths) + 1
    BY AppendProperties DEF TypeOK
  <2>2. Len(scanPaths) \in Nat
    BY DEF TypeOK
  <2>3. scanPaths' = Append(scanPaths, found) /\ scans' = scans \cup {Len(scanPaths) + 1}
    BY <1>1 DEF ScanDirectory
  <2>4. scans' \subseteq 1 .. Len(scanPaths')
    <3>1. scans \subseteq 1 .. Len(scanPaths) /\ Len(scanPaths') = Len(scanPaths) + 1
      BY <2>1, <2>3 DEF TypeOK
    <3> SUFFICES ASSUME NEW s \in scans' PROVE s \in 1 .. Len(scanPaths')
      OBVIOUS
    <3>2. CASE s \in scans
      <4>1. s \in 1 .. Len(scanPaths)
        BY <3>1, <3>2
      <4> QED
        BY <4>1, <3>1, <2>2
    <3>3. CASE s = Len(scanPaths) + 1
      BY <3>1, <3>3, <2>2
    <3> QED
      BY <3>2, <3>3, <2>3
  <2> QED
    BY <1>1, <2>1, <2>3, <2>4 DEF ScanDirectory, TypeOK
<1>2. ASSUME NEW r \in Requests, TakeScan(r) PROVE TypeOK'
  <2> DEFINE s == job[r].scan
  <2>1. CASE s \in scans
    <3>0. s \in 1 .. Len(scanPaths) /\ scanPaths \in Seq(SUBSET Paths)
      BY <2>1 DEF TypeOK
    <3>1. scanPaths[s] \in SUBSET Paths /\ Cardinality(scanPaths[s]) \in Nat
      BY <3>0, ElementOfSeq, PathSetSize
    <3>2. /\ tally' = [tally EXCEPT ![r].total = Cardinality(scanPaths[s])]
          /\ todo' = [todo EXCEPT ![r] = scanPaths[s]]
      BY <2>1, <1>2 DEF TakeScan
    <3>3. tally' \in [Requests -> Tally] /\ todo' \in [Requests -> SUBSET Paths]
      BY <3>1, <3>2 DEF TypeOK, Tally
    <3> QED
      BY <3>3, <2>1, <1>2 DEF TakeScan, TypeOK
  <2>2. CASE s \notin scans
    BY <2>2, <1>2 DEF TakeScan, TypeOK
  <2> QED
    BY <2>1, <2>2
<1>3. CASE Restart
  <2> DEFINE lost == {r \in Requests : pc[r] \in InService \cup {"reply"}}
             release(q) == IF q # <<>> /\ Head(q) \in lost THEN Tail(q) ELSE q
  <2>1. \A q \in Seq(Requests) : release(q) \in Seq(Requests)
    BY HeadTailProperties
  <2>2. queue' \in [Gateways -> Seq(Requests)]
    BY <1>3, <2>1 DEF Restart, TypeOK
  <2>3. ctx' \in [Requests -> Context]
    BY <1>3, NoContextType DEF Restart, TypeOK
  <2> QED
    BY <1>3, <2>2, <2>3 DEF Restart, TypeOK
<1> QED
  BY <1>1, <1>2, <1>3

\* A row posted or a track edited through the catalog's own routes.
LEMMA PostType ==
    ASSUME TypeOK, PostArtist \/ PostAlbum \/ PostTrack
    PROVE  /\ TypeOK'
           /\ PostTrack => \E row \in TrackRow :
                /\ tracks' = Append(tracks, row)
                /\ row.artist \in DOMAIN artists /\ row.album \in DOMAIN albums
                /\ row.blob \in DOMAIN blobs /\ row.forced /\ row.by = Nobody /\ row.moved
<1> USE DEF request
<1>0. edits \in Nat
  BY DEF TypeOK
<1>1. CASE PostArtist
  <2>1. PICK name \in ArtistNames, image \in {NoImage, "manual"} :
           artists' = Append(artists, [name |-> name, image |-> image, edited |-> FALSE])
    BY <1>1 DEF PostArtist
  <2>2. [name |-> name, image |-> image, edited |-> FALSE] \in ArtistRow
    BY DEF ArtistRow, Images, NoImage
  <2>3. artists' \in Seq(ArtistRow)
    BY <2>1, <2>2, AppendProperties DEF TypeOK
  <2> QED
    BY <1>0, <1>1, <2>3 DEF PostArtist, PostTrack, TypeOK
<1>2. CASE PostAlbum
  <2>1. PICK title \in AlbumTitles, owner \in DOMAIN artists, art \in {NoImage, "manual"} :
           albums' = Append(albums, [title |-> title, artist |-> owner, art |-> art,
                                     edited |-> FALSE, moved |-> FALSE])
    BY <1>2 DEF PostAlbum
  <2>2. owner \in Nat
    BY DEF TypeOK
  <2>3. [title |-> title, artist |-> owner, art |-> art, edited |-> FALSE, moved |-> FALSE]
          \in AlbumRow
    BY <2>2 DEF AlbumRow, Images, NoImage
  <2>4. albums' \in Seq(AlbumRow)
    BY <2>1, <2>3, AppendProperties DEF TypeOK
  <2> QED
    BY <1>0, <1>2, <2>4 DEF PostAlbum, PostTrack, TypeOK
<1>3. CASE PostTrack
  <2>1. PICK hash \in Contents, artist \in DOMAIN artists, album \in DOMAIN albums,
             blob \in DOMAIN blobs :
           tracks' = Append(tracks, [hash |-> hash, artist |-> artist, album |-> album,
                                     blob |-> blob, forced |-> TRUE, seen |-> Len(tracks),
                                     by |-> Nobody, moved |-> TRUE])
    BY <1>3 DEF PostTrack
  <2> DEFINE row == [hash |-> hash, artist |-> artist, album |-> album,
                     blob |-> blob, forced |-> TRUE, seen |-> Len(tracks),
                     by |-> Nobody, moved |-> TRUE]
  <2>2. artist \in Nat /\ album \in Nat /\ blob \in Nat /\ Len(tracks) \in Nat
    BY DEF TypeOK
  <2>3. row \in TrackRow
    BY <2>2 DEF TrackRow
  <2>4. tracks' \in Seq(TrackRow)
    BY <2>1, <2>3, AppendProperties DEF TypeOK
  <2>5. TypeOK'
    BY <1>0, <1>3, <2>4 DEF PostTrack, TypeOK
  <2> QED
    BY <2>1, <2>3, <2>5
<1> QED
  BY <1>1, <1>2, <1>3

LEMMA EditTrackType ==
    ASSUME TypeOK, NEW i \in DOMAIN tracks, EditTrack(i)
    PROVE  /\ TypeOK'
           /\ \E row \in TrackRow :
                /\ tracks' = [tracks EXCEPT ![i] = row]
                /\ row.artist \in DOMAIN artists /\ row.album \in DOMAIN albums
                /\ row.hash = tracks[i].hash /\ row.blob = tracks[i].blob
                /\ row.forced = tracks[i].forced /\ row.seen = tracks[i].seen
                /\ row.by = tracks[i].by
                /\ \/ row.moved
                   \/ /\ row.artist = tracks[i].artist /\ row.album = tracks[i].album
                      /\ row.moved = tracks[i].moved
<1> USE DEF request
<1>0. edits \in Nat /\ tracks \in Seq(TrackRow) /\ tracks[i] \in TrackRow
  BY ElementOfSeq DEF TypeOK
<1>1. PICK artist \in DOMAIN artists, album \in DOMAIN albums :
         tracks' = [tracks EXCEPT ![i].artist = artist, ![i].album = album,
                      ![i].moved = @ \/ tracks[i].artist # artist \/ tracks[i].album # album]
  BY DEF EditTrack
<1> DEFINE moved == tracks[i].moved \/ tracks[i].artist # artist \/ tracks[i].album # album
           row == [tracks[i] EXCEPT !.artist = artist, !.album = album, !.moved = moved]
<1>2. artist \in Nat /\ album \in Nat /\ moved \in BOOLEAN
  <2>1. artist \in Nat /\ album \in Nat
    BY DEF TypeOK
  <2>2. tracks[i].moved \in BOOLEAN
    BY <1>0 DEF TrackRow
  <2> QED
    BY <2>1, <2>2
<1>3. row \in TrackRow /\ row.artist = artist /\ row.album = album /\ row.moved = moved
      /\ row.hash = tracks[i].hash /\ row.blob = tracks[i].blob
      /\ row.forced = tracks[i].forced /\ row.seen = tracks[i].seen /\ row.by = tracks[i].by
  <2> HIDE DEF moved
  <2> QED
    BY <1>0, <1>2 DEF TrackRow
<1>4. tracks' = [tracks EXCEPT ![i] = row]
  BY <1>0, <1>1
<1>5. tracks' \in Seq(TrackRow)
  <2> HIDE DEF row
  <2> QED
    BY <1>0, <1>3, <1>4
<1>6. TypeOK'
  BY <1>0, <1>5 DEF EditTrack, TypeOK
<1>7. \/ row.moved
      \/ row.artist = tracks[i].artist /\ row.album = tracks[i].album /\ row.moved = tracks[i].moved
  BY <1>0, <1>3 DEF TrackRow
<1>8. row.artist \in DOMAIN artists /\ row.album \in DOMAIN albums
  BY <1>3
<1> HIDE DEF row
<1> QED
  BY <1>3, <1>4, <1>6, <1>7, <1>8

LEMMA EnvironmentType ==
    ASSUME TypeOK, ByHand \/ \E p \in Paths : RewriteFile(p)
    PROVE  TypeOK'
<1> USE DEF world, rows, request
<1>1. ASSUME NEW i \in DOMAIN artists, EditArtist(i) PROVE TypeOK'
  <2>1. artists' \in Seq(ArtistRow)
    <3>1. PICK name \in ArtistNames, image \in {artists[i].image, NoImage, "manual"},
             flag \in BOOLEAN :
             artists' = [artists EXCEPT ![i] = [name |-> name, image |-> image, edited |-> flag]]
      BY <1>1 DEF EditArtist
    <3>0. artists[i] \in ArtistRow
      BY ElementOfSeq DEF TypeOK
    <3>2. [name |-> name, image |-> image, edited |-> flag] \in ArtistRow
      BY <3>0 DEF ArtistRow, Images, NoImage
    <3> QED
      BY <3>1, <3>2 DEF TypeOK
  <2> QED
    BY <1>1, <2>1 DEF EditArtist, TypeOK
<1>2. ASSUME NEW i \in DOMAIN albums, EditAlbum(i) PROVE TypeOK'
  <2>1. albums' \in Seq(AlbumRow)
    <3>1. PICK title \in AlbumTitles, owner \in DOMAIN artists,
             art \in {albums[i].art, NoImage, "manual"}, flag \in BOOLEAN :
             albums' = [albums EXCEPT ![i] =
                [title |-> title, artist |-> owner, art |-> art, edited |-> flag,
                 moved |-> @.moved \/ owner # @.artist]]
      BY <1>2 DEF EditAlbum
    <3>0. albums[i] \in AlbumRow /\ owner \in Nat
      BY ElementOfSeq DEF TypeOK
    <3>2. [title |-> title, artist |-> owner, art |-> art, edited |-> flag,
           moved |-> albums[i].moved \/ owner # albums[i].artist] \in AlbumRow
      BY <3>0 DEF AlbumRow, Images, NoImage
    <3> QED
      BY <3>1, <3>2 DEF TypeOK
  <2> QED
    BY <1>2, <2>1 DEF EditAlbum, TypeOK
<1>3. ASSUME NEW p \in Paths, RewriteFile(p) PROVE TypeOK'
  BY <1>3 DEF RewriteFile, TypeOK
<1> QED
  BY <1>1, <1>2, <1>3, PostType, EditTrackType DEF ByHand

-----------------------------------------------------------------------------
(* The inductive invariant *)

\* The steps at which each local of ingest_file has been assigned.
Checked == PipelineSteps \ {"check"}
Tagged == Checked \ {"tags"}
Named == Tagged \ {"enrich"}
ArtistSought == Named \ {"findArtist"}
AlbumSought == ArtistSought \ {"findAlbum"}
AudioStored == {"artist", "album", "track"}
ArtistSaved == {"album", "track"}

\* An album belongs to the artist it was found or created under, until an admin
\* moves it.
Owned(album, artist) == albums[album].moved \/ albums[album].artist = artist

\* What the handler of request r may rely on at its place in the pipeline,
\* whatever other requests and admins have done since it read it.
LocalsValid(r) ==
    LET c == ctx[r]
        At(steps) == pc[r] \in steps
    IN
    /\ At(PipelineSteps) => c.data \in Contents
    /\ At(Checked) => /\ c.seen <= Len(tracks)
                      /\ ~job[r].force => \A i \in 1 .. c.seen : tracks[i].hash # c.data
    /\ At(Tagged) => c.tags \in Contents
    /\ At(Named) => c.artist \in ArtistNames /\ c.album \in AlbumTitles
    /\ At(ArtistSought) => c.exArtist <= Len(artists)
    /\ At(AlbumSought) => /\ c.exAlbum <= Len(albums)
                          /\ c.exAlbum # NoRow => c.exArtist # NoRow /\ Owned(c.exAlbum, c.exArtist)
    /\ At(AudioStored) => /\ c.blob \in 1 .. Len(blobs)
                          /\ blobs[c.blob] = [kind |-> "audio", of |-> c.data]
    /\ At(ArtistSaved) => /\ c.artistId \in 1 .. Len(artists)
                          /\ c.exArtist # NoRow => c.artistId = c.exArtist
    /\ At({"track"}) => c.albumId \in 1 .. Len(albums) /\ Owned(c.albumId, c.artistId)

\* A scan whose paths a request holds has left the map for good: ids are not
\* reused, and only that request removed it.
ScanSpent(r) ==
    /\ job[r].scan # 0 => job[r].paths = {}
    /\ job[r].scan # 0 /\ tally[r].total # 0 =>
         job[r].scan \in 1 .. Len(scanPaths) /\ job[r].scan \notin scans

IInv ==
    /\ TypeOK
    /\ \A r \in Requests : LocalsValid(r) /\ ScanSpent(r)
    /\ TrackRowsResolve
    /\ RepeatsOnlyByOverlap
    /\ ScanTakenOnce

\* What a step may do to the catalog and to storage: rows are added at the end,
\* the hash of a track row and a stored file never change, an album keeps its
\* artist unless it is moved.
RowsKept ==
    /\ Len(artists) <= Len(artists') /\ Len(albums) <= Len(albums')
    /\ Len(tracks) <= Len(tracks') /\ Len(blobs) <= Len(blobs')
    /\ \A i \in 1 .. Len(albums) : /\ albums[i].moved => albums'[i].moved
                                   /\ albums'[i].moved \/ albums'[i].artist = albums[i].artist
    /\ \A i \in 1 .. Len(tracks) : tracks'[i].hash = tracks[i].hash
    /\ \A i \in 1 .. Len(blobs) : blobs'[i] = blobs[i]

\* An album stays owned.
LEMMA OwnedKept ==
    ASSUME RowsKept, NEW album \in 1 .. Len(albums), NEW artist, Owned(album, artist)
    PROVE  Owned(album, artist)'
<1>1. /\ albums[album].moved => albums'[album].moved
      /\ albums'[album].moved \/ albums'[album].artist = albums[album].artist
  BY DEF RowsKept
<1>2. CASE albums[album].moved
  BY <1>1, <1>2 DEF Owned
<1>3. CASE albums[album].artist = artist
  BY <1>1, <1>3 DEF Owned
<1> QED
  BY <1>2, <1>3 DEF Owned

\* What a request relies on survives every step that leaves its locals alone.
LEMMA LocalsKept ==
    ASSUME TypeOK, TypeOK', RowsKept, job' = job,
           NEW r \in Requests, pc'[r] = pc[r], ctx'[r] = ctx[r], LocalsValid(r)
    PROVE  LocalsValid(r)'
<1> DEFINE c == ctx[r]
<1> USE DEF PipelineSteps, Checked, Tagged, Named, ArtistSought, AlbumSought,
            AudioStored, ArtistSaved
<1>1. c \in Context /\ c' = c
  BY DEF TypeOK
<1>2. /\ Len(artists) \in Nat /\ Len(artists') \in Nat /\ Len(albums) \in Nat /\ Len(albums') \in Nat
      /\ Len(tracks) \in Nat /\ Len(tracks') \in Nat /\ Len(blobs) \in Nat /\ Len(blobs') \in Nat
  BY DEF TypeOK
<1>3. /\ c.seen \in Nat /\ c.exArtist \in Nat /\ c.exAlbum \in Nat /\ c.blob \in Nat
      /\ c.artistId \in Nat /\ c.albumId \in Nat
  BY <1>1 DEF Context
<1>4. pc[r] \in Checked => /\ c.seen <= Len(tracks')
                           /\ ~job[r].force => \A i \in 1 .. c.seen : tracks'[i].hash # c.data
  <2>1. SUFFICES ASSUME pc[r] \in Checked
                 PROVE  /\ c.seen <= Len(tracks')
                        /\ ~job[r].force => \A i \in 1 .. c.seen : tracks'[i].hash # c.data
    OBVIOUS
  <2>2. c.seen <= Len(tracks) /\ (~job[r].force => \A i \in 1 .. c.seen : tracks[i].hash # c.data)
    BY <2>1 DEF LocalsValid
  <2>3. Len(tracks) <= Len(tracks')
        /\ \A i \in 1 .. Len(tracks) : tracks'[i].hash = tracks[i].hash
    BY DEF RowsKept
  <2> HIDE DEF c
  <2>4. c.seen <= Len(tracks')
    BY <2>2, <2>3, <1>2, <1>3
  <2>5. \A i \in 1 .. c.seen : i \in 1 .. Len(tracks)
    BY <2>2, <1>2, <1>3
  <2>6. \A i \in 1 .. c.seen : tracks'[i].hash = tracks[i].hash
    BY <2>3, <2>5
  <2> QED
    BY <2>2, <2>4, <2>6
<1>5. pc[r] \in AlbumSought => /\ c.exAlbum <= Len(albums')
                               /\ c.exAlbum # NoRow => c.exArtist # NoRow /\ Owned(c.exAlbum, c.exArtist)'
  <2>1. SUFFICES ASSUME pc[r] \in AlbumSought
                 PROVE  /\ c.exAlbum <= Len(albums')
                        /\ c.exAlbum # NoRow => c.exArtist # NoRow /\ Owned(c.exAlbum, c.exArtist)'
    OBVIOUS
  <2>2. c.exAlbum <= Len(albums)
        /\ (c.exAlbum # NoRow => c.exArtist # NoRow /\ Owned(c.exAlbum, c.exArtist))
    BY <2>1 DEF LocalsValid
  <2>3. c.exAlbum <= Len(albums')
    BY <2>2, <1>2, <1>3, SMTT(30) DEF RowsKept
  <2>4. CASE c.exAlbum # NoRow
    <3>1. c.exAlbum \in 1 .. Len(albums)
      BY <2>2, <2>4, <1>2, <1>3 DEF NoRow
    <3> QED
      BY <3>1, <2>2, <2>3, <2>4, <1>1, OwnedKept DEF Owned
  <2> QED
    BY <2>3, <2>4
<1>6. pc[r] \in AudioStored => /\ c.blob \in 1 .. Len(blobs')
                               /\ blobs'[c.blob] = [kind |-> "audio", of |-> c.data]
  BY <1>2, <1>3 DEF LocalsValid, RowsKept
<1>7. pc[r] \in ArtistSaved => c.artistId \in 1 .. Len(artists')
  BY <1>2, <1>3 DEF LocalsValid, RowsKept
<1>8. pc[r] = "track" => c.albumId \in 1 .. Len(albums') /\ Owned(c.albumId, c.artistId)'
  <2>1. SUFFICES ASSUME pc[r] = "track"
                 PROVE  c.albumId \in 1 .. Len(albums') /\ Owned(c.albumId, c.artistId)'
    OBVIOUS
  <2>2. c.albumId \in 1 .. Len(albums) /\ Owned(c.albumId, c.artistId)
    BY <2>1 DEF LocalsValid
  <2>3. c.albumId \in 1 .. Len(albums')
    BY <2>2, <1>2, <1>3, SMTT(30) DEF RowsKept
  <2> QED
    BY <2>2, <2>3, <1>1, OwnedKept DEF Owned
<1>9. pc[r] \in ArtistSought => c.exArtist <= Len(artists')
  BY <1>2, <1>3 DEF LocalsValid, RowsKept
<1>10. /\ pc[r] \in PipelineSteps => c.data \in Contents
       /\ pc[r] \in Tagged => c.tags \in Contents
       /\ pc[r] \in Named => c.artist \in ArtistNames /\ c.album \in AlbumTitles
       /\ pc[r] \in ArtistSaved => (c.exArtist # NoRow => c.artistId = c.exArtist)
  BY DEF LocalsValid
<1> HIDE DEF PipelineSteps, Checked, Tagged, Named, ArtistSought, AlbumSought,
             AudioStored, ArtistSaved
<1> QED
  BY <1>1, <1>4, <1>5, <1>6, <1>7, <1>8, <1>9, <1>10 DEF LocalsValid

\* Outside the pipeline a request relies on nothing.
LEMMA NoLocals ==
    ASSUME NEW r \in Requests, pc'[r] \notin PipelineSteps
    PROVE  LocalsValid(r)'
BY DEF LocalsValid, PipelineSteps, Checked, Tagged, Named, ArtistSought, AlbumSought,
       AudioStored, ArtistSaved

-----------------------------------------------------------------------------
(* The pipeline: one lemma per action *)

\* What every step of request r in the pipeline leaves alone.
Undisturbed(r) ==
    /\ job' = job /\ scans' = scans /\ scanPaths' = scanPaths
    /\ \A q \in Requests \ {r} : pc'[q] = pc[q] /\ ctx'[q] = ctx[q]
    /\ \A q \in Requests : tally'[q].total = tally[q].total

Advances(r) == TypeOK' /\ RowsKept /\ Undisturbed(r) /\ LocalsValid(r)'

\* The locals change, the outcome is not known yet.
LEMMA MoveOn ==
    ASSUME TypeOK, NEW r \in Requests, NEW c \in Context, NEW step \in Stages,
           ctx' = [ctx EXCEPT ![r] = c], Goto(r, step), UNCHANGED tally
    PROVE  /\ ctx' \in [Requests -> Context] /\ pc' \in [Requests -> Stages]
           /\ ctx'[r] = c /\ pc'[r] = step
           /\ \A q \in Requests \ {r} : pc'[q] = pc[q] /\ ctx'[q] = ctx[q]
           /\ \A q \in Requests : tally'[q].total = tally[q].total
BY DEF TypeOK, Goto

\* ingest_file returned.
LEMMA Finish ==
    ASSUME TypeOK, NEW r \in Requests,
           NEW outcome \in {"imported", "duplicates", "failed"}, FileDone(r, outcome)
    PROVE  /\ ctx' \in [Requests -> Context] /\ pc' \in [Requests -> Stages]
           /\ tally' \in [Requests -> Tally]
           /\ \A q \in Requests \ {r} : pc'[q] = pc[q] /\ ctx'[q] = ctx[q]
           /\ \A q \in Requests : tally'[q].total = tally[q].total
           /\ LocalsValid(r)'
<1>1. pc'[r] = "next" /\ \A q \in Requests \ {r} : pc'[q] = pc[q] /\ ctx'[q] = ctx[q]
  BY DEF FileDone, Goto, TypeOK
<1>2. \A q \in Requests : tally'[q].total = tally[q].total
  <2>1. tally \in [Requests -> Tally] /\ tally[r] \in Tally
    BY DEF TypeOK
  <2>2. [tally[r] EXCEPT ![outcome] = @ + 1].total = tally[r].total
    BY <2>1 DEF Tally
  <2> QED
    BY <2>1, <2>2 DEF FileDone
<1>3. LocalsValid(r)'
  BY <1>1, NoLocals DEF PipelineSteps
<1> QED
  BY <1>1, <1>2, <1>3, FileDoneType

\* Rows that do not change are kept.
LEMMA SameRows ==
    ASSUME TypeOK, UNCHANGED rows
    PROVE  RowsKept
BY DEF TypeOK, RowsKept, rows

LEMMA StepFailsAdvances ==
    ASSUME TypeOK, NEW r \in Requests, StepFails(r)
    PROVE  Advances(r)
<1>1. RowsKept
  BY SameRows DEF StepFails
<1>2. FileDone(r, "failed")
  BY DEF StepFails
<1>3. TypeOK'
  BY <1>2, Finish DEF StepFails, TypeOK, world, rows
<1> QED
  BY <1>1, <1>2, <1>3, Finish DEF StepFails, Advances, Undisturbed, world

LEMMA BeginFileAdvances ==
    ASSUME TypeOK, NEW r \in Requests, BeginFile(r)
    PROVE  Advances(r)
<1>1. RowsKept
  BY SameRows DEF BeginFile
<1>2. todo' \in [Requests -> SUBSET Paths]
  BY DEF BeginFile, TypeOK
<1>3. CASE FileDone(r, "failed")
  <2>1. TypeOK'
    BY <1>2, <1>3, Finish DEF BeginFile, TypeOK, world, rows
  <2> QED
    BY <1>1, <1>3, <2>1, Finish DEF BeginFile, Advances, Undisturbed, world
<1>4. CASE ~FileDone(r, "failed")
  <2>1. PICK p \in todo[r] :
           /\ disk[p] # Missing
           /\ ctx' = [ctx EXCEPT ![r] = [FreshContext(p) EXCEPT !.data = disk[p]]]
           /\ Goto(r, "check") /\ UNCHANGED tally
    BY <1>4 DEF BeginFile
  <2> DEFINE c == [FreshContext(p) EXCEPT !.data = disk[p]]
  <2>2. p \in Paths /\ disk[p] \in Contents
    BY <2>1 DEF TypeOK
  <2>3. c \in Context /\ c.data = disk[p]
    BY <2>2, FreshContextType DEF Context, FreshContext
  <2>4. "check" \in Stages
    BY DEF Stages, InService, PipelineSteps
  <2> HIDE DEF c
  <2>5. /\ ctx' \in [Requests -> Context] /\ pc' \in [Requests -> Stages]
        /\ ctx'[r] = c /\ pc'[r] = "check"
        /\ \A q \in Requests \ {r} : pc'[q] = pc[q] /\ ctx'[q] = ctx[q]
        /\ \A q \in Requests : tally'[q].total = tally[q].total
    BY <2>1, <2>3, <2>4, MoveOn DEF c
  <2>6. TypeOK'
    BY <1>2, <2>1, <2>5 DEF BeginFile, TypeOK, world, rows
  <2>7. LocalsValid(r)'
    BY <2>2, <2>3, <2>5 DEF LocalsValid, PipelineSteps, Checked, Tagged, Named,
       ArtistSought, AlbumSought, AudioStored, ArtistSaved
  <2> QED
    BY <1>1, <2>5, <2>6, <2>7 DEF BeginFile, Advances, Undisturbed, world
<1> QED
  BY <1>3, <1>4

\* A step that changes only the locals of r, and leads to a step where what r
\* then relies on holds.
LEMMA MoveOnAdvances ==
    ASSUME TypeOK, NEW r \in Requests, NEW c \in Context, NEW step \in Stages,
           ctx' = [ctx EXCEPT ![r] = c], Goto(r, step),
           UNCHANGED <<world, scans, rows, queue, job, todo, tally>>,
           ctx'[r] = c /\ pc'[r] = step => LocalsValid(r)'
    PROVE  Advances(r)
<1>1. /\ ctx' \in [Requests -> Context] /\ pc' \in [Requests -> Stages]
      /\ ctx'[r] = c /\ pc'[r] = step
      /\ \A q \in Requests \ {r} : pc'[q] = pc[q] /\ ctx'[q] = ctx[q]
  BY MoveOn
<1>2. TypeOK'
  BY <1>1 DEF TypeOK, world, rows
<1>3. RowsKept
  BY SameRows
<1> QED
  BY <1>1, <1>2, <1>3 DEF Advances, Undisturbed, world

LEMMA CheckDuplicateAdvances ==
    ASSUME TypeOK, NEW r \in Requests, LocalsValid(r), CheckDuplicate(r)
    PROVE  Advances(r)
<1>1. CASE FileDone(r, "duplicates")
  <2>1. TypeOK' /\ RowsKept
    BY <1>1, Finish, SameRows DEF CheckDuplicate, TypeOK, world, rows
  <2> QED
    BY <1>1, <2>1, Finish DEF CheckDuplicate, Advances, Undisturbed, world
<1>2. CASE ~FileDone(r, "duplicates")
  <2> DEFINE c == [ctx[r] EXCEPT !.seen = Len(tracks)]
  <2>1. /\ ctx' = [ctx EXCEPT ![r] = c] /\ Goto(r, "tags") /\ UNCHANGED tally
        /\ job[r].force \/ ~FindTrackByHash(ctx[r].data)
    BY <1>2 DEF CheckDuplicate
  <2>2. Len(tracks) \in Nat /\ DOMAIN tracks = 1 .. Len(tracks) /\ ctx[r] \in Context
    BY DEF TypeOK
  <2>3. c \in Context /\ c.data = ctx[r].data /\ c.seen = Len(tracks)
    BY <2>2 DEF Context
  <2>4. ctx[r].data \in Contents
    BY DEF LocalsValid, CheckDuplicate, PipelineSteps
  <2>5. ~job[r].force => \A i \in 1 .. Len(tracks) : tracks[i].hash # ctx[r].data
    BY <2>1, <2>2 DEF FindTrackByHash
  <2>6. "tags" \in Stages
    BY DEF Stages, InService, PipelineSteps
  <2> HIDE DEF c
  <2>7. ctx'[r] = c /\ pc'[r] = "tags" => LocalsValid(r)'
    BY <2>2, <2>3, <2>4, <2>5 DEF LocalsValid, CheckDuplicate, rows, PipelineSteps, Checked,
       Tagged, Named, ArtistSought, AlbumSought, AudioStored, ArtistSaved
  <2> QED
    BY <2>1, <2>3, <2>6, <2>7, MoveOnAdvances DEF CheckDuplicate, c
<1> QED
  BY <1>1, <1>2

LEMMA ExtractMetadataAdvances ==
    ASSUME TypeOK, NEW r \in Requests, LocalsValid(r), ExtractMetadata(r)
    PROVE  Advances(r)
<1> DEFINE now == disk[ctx[r].path]
           c == [ctx[r] EXCEPT !.tags = now, !.artist = TagArtist[now], !.album = TagAlbum[now]]
<1>1. ctx[r] \in Context
  BY DEF TypeOK
<1>2. now \in Contents
  BY <1>1 DEF ExtractMetadata, TypeOK, Context
<1>3. TagArtist[now] \in ArtistNames \cup {Blank} /\ TagAlbum[now] \in AlbumTitles \cup {Blank}
  BY <1>2, IngestionAssumption
<1>4. /\ c \in Context /\ c.tags \in Contents
      /\ c.data = ctx[r].data /\ c.seen = ctx[r].seen
  BY <1>1, <1>2, <1>3 DEF Context
<1>5. ctx' = [ctx EXCEPT ![r] = c] /\ Goto(r, "enrich") /\ "enrich" \in Stages
  BY DEF ExtractMetadata, Stages, InService, PipelineSteps
<1> HIDE DEF c
<1>6. ctx'[r] = c /\ pc'[r] = "enrich" => LocalsValid(r)'
  BY <1>4 DEF LocalsValid, ExtractMetadata, rows, PipelineSteps, Checked,
     Tagged, Named, ArtistSought, AlbumSought, AudioStored, ArtistSaved
<1> QED
  BY <1>4, <1>5, <1>6, MoveOnAdvances DEF ExtractMetadata

\* A placeholder is a name, so the fallback always ends with one.
LEMMA EnrichAdvances ==
    ASSUME TypeOK, NEW r \in Requests, LocalsValid(r), Enrich(r)
    PROVE  Advances(r)
<1>1. PICK a \in Answers \cup {NoAnswer} :
         ctx' = [ctx EXCEPT
            ![r].artist = OrElse(OrElse(@, a.artist), UnknownArtist),
            ![r].album = OrElse(OrElse(@, a.album), UnknownAlbum),
            ![r].fbArt = a.art,
            ![r].fbImg = IF a.img = NoImage THEN a.art ELSE a.img]
  BY DEF Enrich
<1> DEFINE artist == OrElse(OrElse(ctx[r].artist, a.artist), UnknownArtist)
           album == OrElse(OrElse(ctx[r].album, a.album), UnknownAlbum)
           img == IF a.img = NoImage THEN a.art ELSE a.img
           c == [ctx[r] EXCEPT !.artist = artist, !.album = album, !.fbArt = a.art, !.fbImg = img]
<1>2. ctx[r] \in Context
  BY DEF TypeOK
<1>3. /\ a.artist \in ArtistNames \cup {Blank} /\ a.album \in AlbumTitles \cup {Blank}
      /\ a.art \in Images /\ a.img \in Images
  BY IngestionAssumption DEF NoAnswer, Images
<1>4. artist \in ArtistNames /\ album \in AlbumTitles
  BY <1>2, <1>3, IngestionAssumption DEF OrElse, Context
<1>5. a.art \in Images /\ img \in Images
  BY <1>3
<1>6. ctx' = [ctx EXCEPT ![r] = c] /\ Goto(r, "findArtist") /\ "findArtist" \in Stages
  BY <1>1 DEF Enrich, Stages, InService, PipelineSteps
<1> HIDE DEF artist, album, img
<1>7. /\ c \in Context /\ c.artist \in ArtistNames /\ c.album \in AlbumTitles
      /\ c.data = ctx[r].data /\ c.seen = ctx[r].seen /\ c.tags = ctx[r].tags
  BY <1>2, <1>4, <1>5 DEF Context
<1> HIDE DEF c
<1>8. ctx'[r] = c /\ pc'[r] = "findArtist" => LocalsValid(r)'
  BY <1>7 DEF LocalsValid, Enrich, rows, PipelineSteps, Checked,
     Tagged, Named, ArtistSought, AlbumSought, AudioStored, ArtistSaved
<1> QED
  BY <1>6, <1>7, <1>8, MoveOnAdvances DEF Enrich

LEMMA FindArtistAdvances ==
    ASSUME TypeOK, NEW r \in Requests, LocalsValid(r), FindArtist(r)
    PROVE  Advances(r)
<1> DEFINE a == FindArtistByName(ctx[r].artist)
           hasImage == a # NoRow /\ artists[a].image # NoImage
           c == [ctx[r] EXCEPT !.exArtist = a, !.artistHasImage = hasImage]
<1>1. ctx[r] \in Context /\ Len(artists) \in Nat
  BY DEF TypeOK
<1>2. a \in Nat /\ a <= Len(artists)
  BY <1>1, ArtistLookup
<1>3. ctx' = [ctx EXCEPT ![r] = c] /\ Goto(r, "findAlbum") /\ "findAlbum" \in Stages
  BY DEF FindArtist, Stages, InService, PipelineSteps
<1>4. hasImage \in BOOLEAN
  OBVIOUS
<1> HIDE DEF a, hasImage
<1>5. /\ c \in Context /\ c.exArtist = a
      /\ c.data = ctx[r].data /\ c.seen = ctx[r].seen /\ c.tags = ctx[r].tags
      /\ c.artist = ctx[r].artist /\ c.album = ctx[r].album
  BY <1>1, <1>2, <1>4 DEF Context
<1> HIDE DEF c
<1>6. ctx'[r] = c /\ pc'[r] = "findAlbum" => LocalsValid(r)'
  BY <1>1, <1>2, <1>5 DEF LocalsValid, FindArtist, rows, PipelineSteps, Checked,
     Tagged, Named, ArtistSought, AlbumSought, AudioStored, ArtistSaved
<1> QED
  BY <1>3, <1>5, <1>6, MoveOnAdvances DEF FindArtist

LEMMA FindExistingAlbumAdvances ==
    ASSUME TypeOK, NEW r \in Requests, LocalsValid(r), FindExistingAlbum(r)
    PROVE  Advances(r)
<1> DEFINE b == IF ctx[r].exArtist = NoRow THEN NoRow
                ELSE FindAlbum(ctx[r].exArtist, ctx[r].album)
           hasArt == b # NoRow /\ albums[b].art # NoImage
           art == IF b = NoRow THEN NoImage ELSE albums[b].art
           c == [ctx[r] EXCEPT !.exAlbum = b, !.albumHasArt = hasArt, !.art = art]
<1>1. ctx[r] \in Context /\ Len(albums) \in Nat
  BY DEF TypeOK
<1>2. /\ b \in Nat /\ b <= Len(albums)
      /\ b # NoRow => ctx[r].exArtist # NoRow /\ Owned(b, ctx[r].exArtist)
  BY <1>1, AlbumLookup DEF NoRow, Owned
<1>3. art \in Images
  <2>1. CASE b = NoRow
    BY <2>1 DEF Images
  <2>2. CASE b # NoRow
    <3>1. b \in 1 .. Len(albums) /\ albums \in Seq(AlbumRow)
      BY <1>1, <1>2, <2>2 DEF TypeOK, NoRow
    <3>2. albums[b] \in AlbumRow
      BY <3>1, ElementOfSeq
    <3> QED
      BY <3>2, <2>2 DEF AlbumRow
  <2> QED
    BY <2>1, <2>2
<1>4. ctx' = [ctx EXCEPT ![r] = c] /\ Goto(r, "artwork") /\ "artwork" \in Stages
  BY DEF FindExistingAlbum, Stages, InService, PipelineSteps
<1>5. hasArt \in BOOLEAN
  OBVIOUS
<1> HIDE DEF b, hasArt, art
<1>6. /\ c \in Context /\ c.exAlbum = b /\ c.exArtist = ctx[r].exArtist
      /\ c.data = ctx[r].data /\ c.seen = ctx[r].seen /\ c.tags = ctx[r].tags
      /\ c.artist = ctx[r].artist /\ c.album = ctx[r].album
  BY <1>1, <1>2, <1>3, <1>5 DEF Context
<1> HIDE DEF c
<1>7. ctx'[r] = c /\ pc'[r] = "artwork" => LocalsValid(r)'
  BY <1>1, <1>2, <1>6 DEF LocalsValid, Owned, FindExistingAlbum, rows, NoRow, PipelineSteps,
     Checked, Tagged, Named, ArtistSought, AlbumSought, AudioStored, ArtistSaved
<1> QED
  BY <1>4, <1>6, <1>7, MoveOnAdvances DEF FindExistingAlbum

\* Uploading artwork adds a file and disturbs no other.
LEMMA BlobAppended ==
    ASSUME TypeOK, NEW b \in Blob, blobs' = Append(blobs, b), UNCHANGED <<artists, albums, tracks>>
    PROVE  /\ blobs' \in Seq(Blob) /\ RowsKept
           /\ Len(blobs') = Len(blobs) + 1 /\ blobs'[Len(blobs) + 1] = b
<1>1. /\ blobs' \in Seq(Blob) /\ Len(blobs') = Len(blobs) + 1 /\ blobs'[Len(blobs) + 1] = b
      /\ \A i \in 1 .. Len(blobs) : blobs'[i] = blobs[i]
  BY AppendProperties DEF TypeOK
<1>2. Len(blobs) \in Nat /\ Len(artists) \in Nat /\ Len(albums) \in Nat /\ Len(tracks) \in Nat
  BY DEF TypeOK
<1> QED
  BY <1>1, <1>2 DEF RowsKept

LEMMA ArtworkAdvances ==
    ASSUME TypeOK, NEW r \in Requests, LocalsValid(r), Artwork(r)
    PROVE  Advances(r)
<1> DEFINE old == ctx[r]
           upload == old.art = NoImage /\ old.tags \in WithPicture
           art == IF upload THEN "embedded" ELSE IF old.art = NoImage THEN old.fbArt ELSE old.art
           img == IF old.fbImg = NoImage THEN art ELSE old.fbImg
           c == [old EXCEPT !.art = art, !.img = img]
<1>1. old \in Context
  BY DEF TypeOK
<1>2. blobs' \in Seq(Blob) /\ RowsKept
  <2>1. CASE upload
    <3>1. [kind |-> "artwork", of |-> old.tags] \in Blob
      BY <2>1, IngestionAssumption DEF Blob
    <3>2. blobs' = Append(blobs, [kind |-> "artwork", of |-> old.tags])
      BY <2>1 DEF Artwork
    <3> QED
      BY <3>1, <3>2, BlobAppended DEF Artwork
  <2>2. CASE ~upload
    <3>1. blobs' = blobs
      BY <2>2 DEF Artwork
    <3> QED
      BY <3>1, SameRows DEF Artwork, TypeOK, rows
  <2> QED
    BY <2>1, <2>2
<1>3. CASE FileDone(r, "failed")
  <2>1. TypeOK'
    BY <1>2, <1>3, Finish DEF Artwork, TypeOK, world
  <2> QED
    BY <1>2, <1>3, <2>1, Finish DEF Artwork, Advances, Undisturbed, world
<1>4. CASE ~FileDone(r, "failed")
  <2>1. ctx' = [ctx EXCEPT ![r] = c] /\ Goto(r, "store") /\ UNCHANGED tally
    BY <1>4 DEF Artwork
  <2>2. art \in Images /\ img \in Images
    BY <1>1 DEF Context, Images
  <2> HIDE DEF art, img
  <2>3. /\ c \in Context /\ c.exAlbum = old.exAlbum /\ c.exArtist = old.exArtist
        /\ c.data = old.data /\ c.seen = old.seen /\ c.tags = old.tags
        /\ c.artist = old.artist /\ c.album = old.album
    BY <1>1, <2>2 DEF Context
  <2>4. "store" \in Stages
    BY DEF Stages, InService, PipelineSteps
  <2> HIDE DEF c
  <2>5. /\ ctx' \in [Requests -> Context] /\ pc' \in [Requests -> Stages]
        /\ ctx'[r] = c /\ pc'[r] = "store"
        /\ \A q \in Requests \ {r} : pc'[q] = pc[q] /\ ctx'[q] = ctx[q]
        /\ \A q \in Requests : tally'[q].total = tally[q].total
    BY <2>1, <2>3, <2>4, MoveOn
  <2>6. TypeOK'
    BY <1>2, <2>1, <2>5 DEF Artwork, TypeOK, world
  <2>7. LocalsValid(r)'
    BY <2>3, <2>5 DEF Artwork, LocalsValid, Owned, PipelineSteps,
       Checked, Tagged, Named, ArtistSought, AlbumSought, AudioStored, ArtistSaved
  <2> QED
    BY <1>2, <2>5, <2>6, <2>7 DEF Artwork, Advances, Undisturbed, world
<1> QED
  BY <1>3, <1>4

\* A call that wrote rows: its reply moves the request on, or is lost.
LEMMA ThenAdvances ==
    ASSUME TypeOK, NEW r \in Requests, NEW c \in Context, NEW step \in Stages,
           Then(r, step, c), RowsKept,
           artists' \in Seq(ArtistRow) /\ albums' \in Seq(AlbumRow),
           tracks' \in Seq(TrackRow) /\ blobs' \in Seq(Blob),
           UNCHANGED <<world, scans, queue, job, todo>>,
           ctx'[r] = c /\ pc'[r] = step => LocalsValid(r)'
    PROVE  Advances(r)
<1>1. CASE FileDone(r, "failed")
  <2>1. TypeOK'
    BY <1>1, Finish DEF TypeOK, world
  <2> QED
    BY <1>1, <2>1, Finish DEF Advances, Undisturbed, world
<1>2. CASE ctx' = [ctx EXCEPT ![r] = c] /\ Goto(r, step) /\ UNCHANGED tally
  <2>1. /\ ctx' \in [Requests -> Context] /\ pc' \in [Requests -> Stages]
        /\ ctx'[r] = c /\ pc'[r] = step
        /\ \A q \in Requests \ {r} : pc'[q] = pc[q] /\ ctx'[q] = ctx[q]
        /\ \A q \in Requests : tally'[q].total = tally[q].total
    BY <1>2, MoveOn
  <2>2. TypeOK'
    BY <1>2, <2>1 DEF TypeOK, world
  <2> QED
    BY <2>1, <2>2 DEF Advances, Undisturbed, world
<1> QED
  BY <1>1, <1>2 DEF Then

LEMMA StoreAudioAdvances ==
    ASSUME TypeOK, NEW r \in Requests, LocalsValid(r), StoreAudio(r)
    PROVE  Advances(r)
<1> DEFINE b == [kind |-> "audio", of |-> ctx[r].data]
           c == [ctx[r] EXCEPT !.blob = Len(blobs) + 1]
<1>1. ctx[r] \in Context /\ Len(blobs) \in Nat
  BY DEF TypeOK
<1>2. /\ c \in Context /\ c.exAlbum = ctx[r].exAlbum /\ c.exArtist = ctx[r].exArtist
      /\ c.data = ctx[r].data /\ c.seen = ctx[r].seen /\ c.tags = ctx[r].tags
      /\ c.artist = ctx[r].artist /\ c.album = ctx[r].album /\ c.blob = Len(blobs) + 1
  BY <1>1, SMTT(30) DEF Context
<1>3. b \in Blob
  BY DEF StoreAudio, LocalsValid, PipelineSteps, Blob
<1>4. blobs' = Append(blobs, b) /\ UNCHANGED <<artists, albums, tracks>>
  BY DEF StoreAudio
<1> HIDE DEF b
<1>5. /\ blobs' \in Seq(Blob) /\ RowsKept
      /\ Len(blobs') = Len(blobs) + 1 /\ blobs'[Len(blobs) + 1] = b
  BY <1>3, <1>4, BlobAppended
<1>6. Then(r, "artist", c) /\ "artist" \in Stages
  BY DEF StoreAudio, Stages, InService, PipelineSteps
<1> HIDE DEF c
<1>7. ctx'[r] = c /\ pc'[r] = "artist" => LocalsValid(r)'
  BY <1>1, <1>2, <1>5 DEF b, StoreAudio, LocalsValid, Owned, PipelineSteps,
     Checked, Tagged, Named, ArtistSought, AlbumSought, AudioStored, ArtistSaved
<1>8. /\ artists' \in Seq(ArtistRow) /\ albums' \in Seq(AlbumRow) /\ tracks' \in Seq(TrackRow)
      /\ UNCHANGED <<world, scans, queue, job, todo>>
  BY DEF StoreAudio, TypeOK
<1> QED
  BY <1>2, <1>5, <1>6, <1>7, <1>8, ThenAdvances

LEMMA SaveArtistAdvances ==
    ASSUME TypeOK, NEW r \in Requests, LocalsValid(r), SaveArtist(r)
    PROVE  Advances(r)
<1> DEFINE old == ctx[r]
           id == IF old.exArtist # NoRow THEN old.exArtist ELSE Len(artists) + 1
           c == [old EXCEPT !.artistId = id]
<1>1. old \in Context /\ Len(artists) \in Nat /\ artists \in Seq(ArtistRow) /\ pc[r] = "artist"
  BY DEF TypeOK, SaveArtist
<1>2. /\ old.exArtist \in Nat /\ old.exArtist <= Len(artists)
      /\ old.artist \in ArtistNames /\ old.img \in Images
  BY <1>1 DEF LocalsValid, Context, PipelineSteps, Checked, Tagged, Named, ArtistSought
<1>3. id \in Nat
  BY <1>1, <1>2
<1>4. /\ c \in Context /\ c.exAlbum = old.exAlbum /\ c.exArtist = old.exArtist
      /\ c.data = old.data /\ c.seen = old.seen /\ c.tags = old.tags
      /\ c.artist = old.artist /\ c.album = old.album /\ c.blob = old.blob /\ c.artistId = id
  BY <1>1, <1>3 DEF Context
<1>5. artists' \in Seq(ArtistRow) /\ Len(artists) <= Len(artists') /\ id \in 1 .. Len(artists')
  <2>1. CASE old.exArtist = NoRow
    <3> DEFINE row == [name |-> old.artist, image |-> old.img, edited |-> FALSE]
    <3>1. row \in ArtistRow
      BY <1>2 DEF ArtistRow
    <3>2. artists' = Append(artists, row)
      BY <2>1 DEF SaveArtist
    <3>3. artists' \in Seq(ArtistRow) /\ Len(artists') = Len(artists) + 1
      BY <1>1, <3>1, <3>2, AppendProperties
    <3> QED
      BY <1>1, <2>1, <3>3
  <2>2. CASE old.exArtist # NoRow
    <3> DEFINE i == old.exArtist
               row == [artists[i] EXCEPT !.image = FillIfMissing(@, old.img)]
    <3>1. i \in 1 .. Len(artists) /\ id = i
      BY <1>1, <1>2, <2>2 DEF NoRow
    <3>2. artists[i] \in ArtistRow
      BY <1>1, <3>1, ElementOfSeq
    <3>3. artists[i].image \in Images
      BY <3>2 DEF ArtistRow
    <3>4. row \in ArtistRow
      BY <1>2, <3>2, <3>3, FillType DEF ArtistRow
    <3>5. artists' = artists \/ artists' = [artists EXCEPT ![i] = row]
      BY <2>2 DEF SaveArtist
    <3> HIDE DEF row
    <3>6. artists' \in Seq(ArtistRow) /\ Len(artists') = Len(artists)
      BY <1>1, <3>1, <3>4, <3>5, ExceptSeq
    <3> QED
      BY <1>1, <3>1, <3>6
  <2> QED
    BY <2>1, <2>2
<1>6. UNCHANGED <<albums, tracks, blobs>> /\ UNCHANGED <<world, scans, queue, job, todo>>
  BY DEF SaveArtist
<1>7. RowsKept
  BY <1>5, <1>6 DEF RowsKept, TypeOK
<1>8. albums' \in Seq(AlbumRow) /\ tracks' \in Seq(TrackRow) /\ blobs' \in Seq(Blob)
  BY <1>6 DEF TypeOK
<1>9. Then(r, "album", c) /\ "album" \in Stages
  BY DEF SaveArtist, Stages, InService, PipelineSteps
<1>10. c.exArtist # NoRow => c.artistId = c.exArtist
  BY <1>4
<1>11. c.exArtist <= Len(artists')
  BY <1>1, <1>2, <1>4, <1>5
<1> HIDE DEF c, id
<1>12. ctx'[r] = c /\ pc'[r] = "album" => LocalsValid(r)'
  BY <1>1, <1>4, <1>5, <1>6, <1>10, <1>11 DEF LocalsValid, Owned, PipelineSteps,
     Checked, Tagged, Named, ArtistSought, AlbumSought, AudioStored, ArtistSaved
<1> QED
  BY <1>4, <1>5, <1>6, <1>7, <1>8, <1>9, <1>12, ThenAdvances

LEMMA SaveAlbumAdvances ==
    ASSUME TypeOK, NEW r \in Requests, LocalsValid(r), SaveAlbum(r)
    PROVE  Advances(r)
<1> DEFINE old == ctx[r]
           id == IF old.exAlbum # NoRow THEN old.exAlbum ELSE Len(albums) + 1
           c == [old EXCEPT !.albumId = id]
<1>1. old \in Context /\ Len(albums) \in Nat /\ albums \in Seq(AlbumRow) /\ pc[r] = "album"
  BY DEF TypeOK, SaveAlbum
<1>2. /\ old.exAlbum \in Nat /\ old.exAlbum <= Len(albums)
      /\ old.exAlbum # NoRow => old.exArtist # NoRow /\ Owned(old.exAlbum, old.exArtist)
      /\ old.exArtist # NoRow => old.artistId = old.exArtist
      /\ old.album \in AlbumTitles /\ old.art \in Images /\ old.artistId \in Nat
  BY <1>1 DEF LocalsValid, Context, PipelineSteps, Checked, Tagged, Named, ArtistSought,
     AlbumSought, ArtistSaved
<1>3. id \in Nat
  BY <1>1, <1>2
<1>4. /\ c \in Context /\ c.exAlbum = old.exAlbum /\ c.exArtist = old.exArtist
      /\ c.data = old.data /\ c.seen = old.seen /\ c.tags = old.tags
      /\ c.artist = old.artist /\ c.album = old.album /\ c.blob = old.blob
      /\ c.artistId = old.artistId /\ c.albumId = id
  BY <1>1, <1>3 DEF Context
<1>5. /\ albums' \in Seq(AlbumRow) /\ Len(albums) <= Len(albums') /\ id \in 1 .. Len(albums')
      /\ \A i \in 1 .. Len(albums) :
           albums'[i].artist = albums[i].artist /\ albums'[i].moved = albums[i].moved
      /\ albums'[id].moved \/ albums'[id].artist = old.artistId
  <2>1. CASE old.exAlbum = NoRow
    <3> DEFINE row == [title |-> old.album, artist |-> old.artistId,
                       art |-> old.art, edited |-> FALSE, moved |-> FALSE]
    <3>1. row \in AlbumRow
      BY <1>2 DEF AlbumRow
    <3>2. albums' = Append(albums, row)
      BY <2>1 DEF SaveAlbum
    <3>3. /\ albums' \in Seq(AlbumRow) /\ Len(albums') = Len(albums) + 1
          /\ \A i \in 1 .. Len(albums) : albums'[i] = albums[i]
          /\ albums'[Len(albums) + 1] = row
      BY <1>1, <3>1, <3>2, AppendProperties
    <3>4. id = Len(albums) + 1 /\ row.artist = old.artistId
      BY <2>1
    <3> HIDE DEF row
    <3> QED
      BY <1>1, <3>3, <3>4
  <2>2. CASE old.exAlbum # NoRow
    <3> DEFINE i == old.exAlbum
               row == [albums[i] EXCEPT !.art = FillIfMissing(@, old.art)]
    <3>1. i \in 1 .. Len(albums) /\ id = i
      BY <1>1, <1>2, <2>2 DEF NoRow
    <3>2. albums[i] \in AlbumRow
      BY <1>1, <3>1, ElementOfSeq
    <3>3. albums[i].art \in Images
      BY <3>2 DEF AlbumRow
    <3>4. row \in AlbumRow /\ row.artist = albums[i].artist /\ row.moved = albums[i].moved
      BY <1>2, <3>2, <3>3, FillType DEF AlbumRow
    <3>5. albums' = albums \/ albums' = [albums EXCEPT ![i] = row]
      BY <2>2 DEF SaveAlbum
    <3>6. albums[i].moved \/ albums[i].artist = old.artistId
      BY <1>2, <2>2 DEF Owned
    <3> HIDE DEF row
    <3>7. /\ albums' \in Seq(AlbumRow) /\ Len(albums') = Len(albums)
          /\ \A j \in 1 .. Len(albums) : albums'[j] = albums[j] \/ (j = i /\ albums'[j] = row)
      BY <1>1, <3>1, <3>4, <3>5, ExceptSeq
    <3>8. \A j \in 1 .. Len(albums) :
             albums'[j].artist = albums[j].artist /\ albums'[j].moved = albums[j].moved
      BY <3>4, <3>7
    <3> QED
      BY <1>1, <3>1, <3>6, <3>7, <3>8
  <2> QED
    BY <2>1, <2>2
<1>6. UNCHANGED <<artists, tracks, blobs>> /\ UNCHANGED <<world, scans, queue, job, todo>>
  BY DEF SaveAlbum
<1>7. RowsKept
  BY <1>5, <1>6 DEF RowsKept, TypeOK
<1>8. artists' \in Seq(ArtistRow) /\ tracks' \in Seq(TrackRow) /\ blobs' \in Seq(Blob)
  BY <1>6 DEF TypeOK
<1>9. Then(r, "track", c) /\ "track" \in Stages
  BY DEF SaveAlbum, Stages, InService, PipelineSteps
<1>10. c.exAlbum # NoRow => c.exArtist # NoRow
                            /\ (albums'[c.exAlbum].moved \/ albums'[c.exAlbum].artist = c.exArtist)
  BY <1>1, <1>2, <1>4, <1>5 DEF Owned, NoRow
<1>11. c.exAlbum <= Len(albums')
  BY <1>1, <1>2, <1>4, <1>5
<1> HIDE DEF c, id
<1>12. ctx'[r] = c /\ pc'[r] = "track" => LocalsValid(r)'
  BY <1>1, <1>4, <1>5, <1>6, <1>10, <1>11, SMTT(30) DEF LocalsValid, Owned, PipelineSteps,
     Checked, Tagged, Named, ArtistSought, AlbumSought, AudioStored, ArtistSaved
<1> QED
  BY <1>4, <1>5, <1>6, <1>7, <1>8, <1>9, <1>12, ThenAdvances

\* The row that CreateTrack adds.
NewTrack(r) == [hash |-> ctx[r].data, artist |-> ctx[r].artistId, album |-> ctx[r].albumId,
                blob |-> ctx[r].blob, forced |-> job[r].force, seen |-> ctx[r].seen, by |-> r,
                moved |-> FALSE]

LEMMA CreateTrackAdvances ==
    ASSUME TypeOK, NEW r \in Requests, LocalsValid(r), CreateTrack(r)
    PROVE  /\ Advances(r)
           /\ Len(tracks') = Len(tracks) + 1 /\ tracks'[Len(tracks) + 1] = NewTrack(r)
           /\ \A i \in 1 .. Len(tracks) : tracks'[i] = tracks[i]
<1>1. /\ ctx[r] \in Context /\ job[r] \in Job /\ pc[r] = "track"
      /\ tracks \in Seq(TrackRow) /\ Len(tracks) \in Nat
  BY DEF TypeOK, CreateTrack
<1>2. ctx[r].data \in Contents
  BY <1>1 DEF LocalsValid, PipelineSteps
<1>3. NewTrack(r) \in TrackRow
  BY <1>1, <1>2 DEF NewTrack, TrackRow, Context, Job
<1>4. tracks' = Append(tracks, NewTrack(r)) /\ UNCHANGED <<artists, albums, blobs>>
  BY DEF CreateTrack, NewTrack
<1>5. /\ tracks' \in Seq(TrackRow) /\ Len(tracks') = Len(tracks) + 1
      /\ \A i \in 1 .. Len(tracks) : tracks'[i] = tracks[i]
      /\ tracks'[Len(tracks) + 1] = NewTrack(r)
  BY <1>1, <1>3, <1>4, AppendProperties
<1>6. RowsKept
  BY <1>4, <1>5 DEF RowsKept, TypeOK
<1>7. PICK outcome \in {"imported", "failed"} : FileDone(r, outcome)
  BY DEF CreateTrack
<1>8. TypeOK'
  BY <1>4, <1>5, <1>7, Finish DEF CreateTrack, TypeOK, world
<1>9. Advances(r)
  BY <1>6, <1>7, <1>8, Finish DEF CreateTrack, Advances, Undisturbed, world
<1> QED
  BY <1>5, <1>9

Pipeline(r) ==
    \/ BeginFile(r) \/ CheckDuplicate(r) \/ ExtractMetadata(r) \/ Enrich(r) \/ FindArtist(r)
    \/ FindExistingAlbum(r) \/ Artwork(r) \/ StoreAudio(r) \/ SaveArtist(r) \/ SaveAlbum(r)
    \/ CreateTrack(r) \/ StepFails(r)

LEMMA PipelineAdvances ==
    ASSUME TypeOK, NEW r \in Requests, LocalsValid(r), Pipeline(r)
    PROVE  Advances(r) /\ (tracks' = tracks \/ CreateTrack(r))
<1>1. Advances(r)
  BY BeginFileAdvances, CheckDuplicateAdvances, ExtractMetadataAdvances, EnrichAdvances,
     FindArtistAdvances, FindExistingAlbumAdvances, ArtworkAdvances, StoreAudioAdvances,
     SaveArtistAdvances, SaveAlbumAdvances, CreateTrackAdvances, StepFailsAdvances DEF Pipeline
<1>2. tracks' = tracks \/ CreateTrack(r)
  BY DEF Pipeline, BeginFile, CheckDuplicate, ExtractMetadata, Enrich, FindArtist,
     FindExistingAlbum, Artwork, StoreAudio, SaveArtist, SaveAlbum, StepFails, rows
<1> QED
  BY <1>1, <1>2

-----------------------------------------------------------------------------
(* The catalog properties are kept *)

\* A row that resolves goes on resolving while rows are kept.
LEMMA CatalogKept ==
    ASSUME TypeOK, TypeOK', RowsKept, tracks' = tracks, TrackRowsResolve, RepeatsOnlyByOverlap
    PROVE  TrackRowsResolve' /\ RepeatsOnlyByOverlap'
<1>1. /\ DOMAIN artists = 1 .. Len(artists) /\ DOMAIN artists' = 1 .. Len(artists')
      /\ DOMAIN albums = 1 .. Len(albums) /\ DOMAIN albums' = 1 .. Len(albums')
      /\ DOMAIN blobs = 1 .. Len(blobs) /\ DOMAIN blobs' = 1 .. Len(blobs')
      /\ Len(artists) \in Nat /\ Len(artists') \in Nat /\ Len(albums) \in Nat
      /\ Len(albums') \in Nat /\ Len(blobs) \in Nat /\ Len(blobs') \in Nat
  BY DEF TypeOK
<1>2. ASSUME NEW i \in DOMAIN tracks
      PROVE  LET t == tracks[i] IN
               /\ t.artist \in DOMAIN artists' /\ t.album \in DOMAIN albums'
               /\ t.blob \in DOMAIN blobs'
               /\ t.by # Nobody => blobs'[t.blob] = [kind |-> "audio", of |-> t.hash]
               /\ t.moved \/ albums'[t.album].moved \/ albums'[t.album].artist = t.artist
  <2> DEFINE t == tracks[i]
  <2>1. /\ t.artist \in DOMAIN artists /\ t.album \in DOMAIN albums
        /\ t.blob \in DOMAIN blobs
        /\ t.by # Nobody => blobs[t.blob] = [kind |-> "audio", of |-> t.hash]
        /\ t.moved \/ albums[t.album].moved \/ albums[t.album].artist = t.artist
    BY DEF TrackRowsResolve
  <2> HIDE DEF t
  <2>2. t.artist \in DOMAIN artists' /\ t.album \in DOMAIN albums' /\ t.blob \in DOMAIN blobs'
    BY <1>1, <2>1 DEF RowsKept
  <2>3. t.by # Nobody => blobs'[t.blob] = [kind |-> "audio", of |-> t.hash]
    BY <1>1, <2>1 DEF RowsKept
  <2>4. /\ albums[t.album].moved => albums'[t.album].moved
        /\ albums'[t.album].moved \/ albums'[t.album].artist = albums[t.album].artist
    BY <1>1, <2>1 DEF RowsKept
  <2>5. t.moved \/ albums'[t.album].moved \/ albums'[t.album].artist = t.artist
    BY <2>1, <2>4
  <2> QED
    BY <2>2, <2>3, <2>5 DEF t
<1>3. TrackRowsResolve'
  BY <1>2 DEF TrackRowsResolve
<1> QED
  BY <1>3 DEF RepeatsOnlyByOverlap

\* The new row resolves, and repeats a hash only if the earlier row was added
\* after this import's check.
LEMMA CatalogExtended ==
    ASSUME TypeOK, NEW r \in Requests, LocalsValid(r), CreateTrack(r),
           TrackRowsResolve, RepeatsOnlyByOverlap
    PROVE  TrackRowsResolve' /\ RepeatsOnlyByOverlap'
<1> DEFINE n == Len(tracks)
           c == ctx[r]
<1>1. /\ TypeOK' /\ RowsKept /\ Len(tracks') = n + 1 /\ tracks'[n + 1] = NewTrack(r)
  BY CreateTrackAdvances DEF Advances
<1>2. n \in Nat /\ DOMAIN tracks = 1 .. n /\ DOMAIN tracks' = 1 .. n + 1
  BY <1>1 DEF TypeOK
<1>3. \A i \in 1 .. n : tracks'[i] = tracks[i]
  BY CreateTrackAdvances
<1>4. UNCHANGED <<artists, albums, blobs>> /\ pc[r] = "track" /\ c \in Context
  BY DEF CreateTrack, TypeOK
<1>5. TrackRowsResolve'
  <2>1. /\ c.artistId \in 1 .. Len(artists) /\ c.albumId \in 1 .. Len(albums)
        /\ c.blob \in 1 .. Len(blobs) /\ blobs[c.blob] = [kind |-> "audio", of |-> c.data]
        /\ albums[c.albumId].moved \/ albums[c.albumId].artist = c.artistId
    BY <1>4 DEF LocalsValid, Owned, ArtistSaved, AudioStored
  <2>2. /\ DOMAIN artists = 1 .. Len(artists) /\ DOMAIN albums = 1 .. Len(albums)
        /\ DOMAIN blobs = 1 .. Len(blobs)
    BY DEF TypeOK
  <2> SUFFICES ASSUME NEW i \in 1 .. n + 1
               PROVE  LET t == tracks'[i] IN
                        /\ t.artist \in DOMAIN artists /\ t.album \in DOMAIN albums
                        /\ t.blob \in DOMAIN blobs
                        /\ t.by # Nobody => blobs[t.blob] = [kind |-> "audio", of |-> t.hash]
                        /\ \/ t.moved \/ albums[t.album].moved
                           \/ albums[t.album].artist = t.artist
    BY <1>2, <1>4 DEF TrackRowsResolve
  <2>3. CASE i \in 1 .. n
    BY <1>2, <1>3, <2>3 DEF TrackRowsResolve
  <2>4. CASE i = n + 1
    <3>1. tracks'[i] = NewTrack(r)
      BY <1>1, <2>4
    <3> QED
      BY <2>1, <2>2, <3>1 DEF NewTrack
  <2> QED
    BY <2>3, <2>4, <1>2
<1>6. RepeatsOnlyByOverlap'
  <2>1. /\ c.seen <= n /\ c.seen \in Nat
        /\ ~job[r].force => \A i \in 1 .. c.seen : tracks[i].hash # c.data
    BY <1>4 DEF LocalsValid, Checked, PipelineSteps, Context
  <2> SUFFICES ASSUME NEW i \in 1 .. n + 1, NEW j \in 1 .. n + 1, i < j,
                      tracks'[i].hash = tracks'[j].hash, ~tracks'[j].forced
               PROVE  tracks'[j].seen < i
    BY <1>2 DEF RepeatsOnlyByOverlap
  <2>2. i \in 1 .. n /\ tracks'[i] = tracks[i]
    BY <1>2, <1>3
  <2>3. CASE j \in 1 .. n
    BY <1>2, <1>3, <2>2, <2>3 DEF RepeatsOnlyByOverlap
  <2>4. CASE j = n + 1
    <3>1. tracks'[j] = NewTrack(r)
      BY <1>1, <2>4
    <3>2. tracks[i].hash = c.data /\ ~job[r].force /\ tracks'[j].seen = c.seen
      BY <2>2, <3>1 DEF NewTrack
    <3> QED
      BY <2>1, <2>2, <3>2
  <2> QED
    BY <2>3, <2>4, <1>2
<1> QED
  BY <1>5, <1>6

\* A track edited by hand still resolves: where it was moved it is so marked.
LEMMA CatalogEdited ==
    ASSUME TypeOK, NEW i \in DOMAIN tracks, EditTrack(i), TrackRowsResolve, RepeatsOnlyByOverlap
    PROVE  /\ RowsKept /\ TrackRowsResolve' /\ RepeatsOnlyByOverlap'
           /\ \A q \in Requests : Created(q)' = Created(q)
<1>1. PICK row \in TrackRow :
         /\ tracks' = [tracks EXCEPT ![i] = row]
         /\ row.artist \in DOMAIN artists /\ row.album \in DOMAIN albums
         /\ row.hash = tracks[i].hash /\ row.blob = tracks[i].blob
         /\ row.forced = tracks[i].forced /\ row.seen = tracks[i].seen
         /\ row.by = tracks[i].by
         /\ \/ row.moved
            \/ /\ row.artist = tracks[i].artist /\ row.album = tracks[i].album
               /\ row.moved = tracks[i].moved
  BY EditTrackType
<1>2. UNCHANGED <<artists, albums, blobs>>
  BY DEF EditTrack
<1>3. /\ DOMAIN tracks' = DOMAIN tracks /\ Len(tracks') = Len(tracks) /\ Len(tracks) \in Nat
      /\ DOMAIN tracks = 1 .. Len(tracks)
      /\ tracks'[i] = row /\ \A j \in DOMAIN tracks \ {i} : tracks'[j] = tracks[j]
  BY <1>1 DEF TypeOK
<1>4. \A j \in DOMAIN tracks : /\ tracks'[j].hash = tracks[j].hash
                               /\ tracks'[j].forced = tracks[j].forced
                               /\ tracks'[j].seen = tracks[j].seen
                               /\ tracks'[j].by = tracks[j].by
  BY <1>1, <1>3
<1>5. RowsKept
  <2>1. Len(artists) \in Nat /\ Len(albums) \in Nat /\ Len(blobs) \in Nat
    BY DEF TypeOK
  <2>2. /\ Len(artists') = Len(artists) /\ Len(albums') = Len(albums) /\ Len(blobs') = Len(blobs)
        /\ albums' = albums /\ blobs' = blobs
    BY <1>2
  <2> QED
    BY <1>3, <1>4, <2>1, <2>2 DEF RowsKept
<1>6. TrackRowsResolve'
  <2> SUFFICES ASSUME NEW j \in DOMAIN tracks
               PROVE  LET t == tracks'[j] IN
                        /\ t.artist \in DOMAIN artists /\ t.album \in DOMAIN albums
                        /\ t.blob \in DOMAIN blobs
                        /\ t.by # Nobody => blobs[t.blob] = [kind |-> "audio", of |-> t.hash]
                        /\ \/ t.moved \/ albums[t.album].moved
                           \/ albums[t.album].artist = t.artist
    BY <1>2, <1>3 DEF TrackRowsResolve
  <2>1. LET t == tracks[j] IN
          /\ t.artist \in DOMAIN artists /\ t.album \in DOMAIN albums
          /\ t.blob \in DOMAIN blobs
          /\ t.by # Nobody => blobs[t.blob] = [kind |-> "audio", of |-> t.hash]
          /\ t.moved \/ albums[t.album].moved \/ albums[t.album].artist = t.artist
    BY DEF TrackRowsResolve
  <2>2. CASE j = i
    BY <1>1, <1>3, <2>1, <2>2
  <2>3. CASE j # i
    BY <1>3, <2>1, <2>3
  <2> QED
    BY <2>2, <2>3
<1>7. RepeatsOnlyByOverlap'
  BY <1>3, <1>4 DEF RepeatsOnlyByOverlap
<1>8. \A q \in Requests : Created(q)' = Created(q)
  <2> SUFFICES ASSUME NEW q \in Requests PROVE Created(q)' = Created(q)
    OBVIOUS
  <2>1. {j \in DOMAIN tracks' : tracks'[j].by = q} = {j \in DOMAIN tracks : tracks[j].by = q}
    BY <1>3, <1>4
  <2> QED
    BY <2>1 DEF Created
<1> QED
  BY <1>5, <1>6, <1>7, <1>8

\* A row posted by hand resolves, and counts for no request.
LEMMA CatalogPosted ==
    ASSUME TypeOK, PostTrack, TrackRowsResolve, RepeatsOnlyByOverlap
    PROVE  /\ RowsKept /\ TrackRowsResolve' /\ RepeatsOnlyByOverlap'
           /\ \A q \in Requests : Created(q)' = Created(q)
<1> DEFINE n == Len(tracks)
<1>1. PICK row \in TrackRow :
         /\ tracks' = Append(tracks, row)
         /\ row.artist \in DOMAIN artists /\ row.album \in DOMAIN albums
         /\ row.blob \in DOMAIN blobs /\ row.forced /\ row.by = Nobody /\ row.moved
  BY PostType
<1>2. UNCHANGED <<artists, albums, blobs>>
  BY DEF PostTrack
<1>3. /\ n \in Nat /\ DOMAIN tracks = 1 .. n /\ DOMAIN tracks' = 1 .. n + 1
      /\ Len(tracks') = n + 1 /\ tracks'[n + 1] = row
      /\ \A j \in 1 .. n : tracks'[j] = tracks[j]
  BY <1>1, AppendProperties DEF TypeOK
<1>4. RowsKept
  BY <1>2, <1>3 DEF RowsKept, TypeOK
<1>5. TrackRowsResolve'
  <2> SUFFICES ASSUME NEW j \in 1 .. n + 1
               PROVE  LET t == tracks'[j] IN
                        /\ t.artist \in DOMAIN artists /\ t.album \in DOMAIN albums
                        /\ t.blob \in DOMAIN blobs
                        /\ t.by # Nobody => blobs[t.blob] = [kind |-> "audio", of |-> t.hash]
                        /\ \/ t.moved \/ albums[t.album].moved
                           \/ albums[t.album].artist = t.artist
    BY <1>2, <1>3 DEF TrackRowsResolve
  <2>1. CASE j \in 1 .. n
    BY <1>3, <2>1 DEF TrackRowsResolve
  <2>2. CASE j = n + 1
    BY <1>1, <1>3, <2>2
  <2> QED
    BY <1>3, <2>1, <2>2
<1>6. RepeatsOnlyByOverlap'
  <2> SUFFICES ASSUME NEW i \in 1 .. n + 1, NEW j \in 1 .. n + 1, i < j,
                      tracks'[i].hash = tracks'[j].hash, ~tracks'[j].forced
               PROVE  tracks'[j].seen < i
    BY <1>3 DEF RepeatsOnlyByOverlap
  <2>1. j # n + 1
    BY <1>1, <1>3
  <2>2. i \in 1 .. n /\ j \in 1 .. n
    BY <1>3, <2>1
  <2> QED
    BY <1>3, <2>2 DEF RepeatsOnlyByOverlap
<1>7. \A q \in Requests : Created(q)' = Created(q)
  <2> SUFFICES ASSUME NEW q \in Requests PROVE Created(q)' = Created(q)
    OBVIOUS
  <2>1. row.by # q
    BY <1>1, IngestionAssumption
  <2>2. {j \in DOMAIN tracks' : tracks'[j].by = q} = {j \in DOMAIN tracks : tracks[j].by = q}
    BY <1>3, <2>1
  <2> QED
    BY <2>2 DEF Created
<1> QED
  BY <1>4, <1>5, <1>6, <1>7

-----------------------------------------------------------------------------
(* The steps around the pipeline *)

\* A scan is not given out again: the map only loses ids or gains a new one, and
\* no request with a scan id gets a total in any other way.
LEMMA ScansKept ==
    ASSUME TypeOK, TypeOK', \A r \in Requests : ScanSpent(r), ScanTakenOnce, job' = job,
           Len(scanPaths) <= Len(scanPaths'),
           scans' \subseteq scans \cup {Len(scanPaths) + 1},
           \A r \in Requests : job[r].scan # 0 =>
               tally'[r].total = tally[r].total \/ tally'[r].total = 0
    PROVE  (\A r \in Requests : ScanSpent(r)') /\ ScanTakenOnce'
<1>1. Len(scanPaths) \in Nat /\ Len(scanPaths') \in Nat
  BY DEF TypeOK
<1>2. \A r \in Requests : ScanSpent(r)'
  BY <1>1 DEF ScanSpent
<1>3. ScanTakenOnce'
  BY DEF ScanTakenOnce
<1> QED
  BY <1>2, <1>3

LEMMA TakeScanInv ==
    ASSUME TypeOK, TypeOK', \A q \in Requests : ScanSpent(q), ScanTakenOnce,
           NEW r \in Requests, TakeScan(r)
    PROVE  (\A q \in Requests : ScanSpent(q)') /\ ScanTakenOnce'
<1> DEFINE s == job[r].scan
<1>1. CASE s \notin scans
  BY <1>1, ScansKept DEF TakeScan, TypeOK, world
<1>2. CASE s \in scans
  <2>1. /\ scans' = scans \ {s} /\ scanPaths' = scanPaths /\ job' = job
        /\ tally' = [tally EXCEPT ![r].total = Cardinality(scanPaths[s])]
    BY <1>2 DEF TakeScan, world
  <2>2. \A q \in Requests \ {r} : tally'[q] = tally[q]
    BY <2>1 DEF TypeOK
  <2>3. s \in 1 .. Len(scanPaths)
    BY <1>2 DEF TypeOK
  <2>4. \A q \in Requests : ScanSpent(q)'
    BY <2>1, <2>2, <2>3 DEF ScanSpent
  <2>5. \A q \in Requests : job[q].scan = s /\ s # 0 => tally[q].total = 0
    BY <1>2 DEF ScanSpent
  <2>6. \A q \in Requests \ {r} : job'[q].scan = s /\ s # 0 => tally'[q].total = 0
    BY <2>1, <2>2, <2>5
  <2>7. ScanTakenOnce'
    <3> SUFFICES ASSUME NEW p \in Requests, NEW q \in Requests, p # q,
                        job'[p].scan # 0, job'[p].scan = job'[q].scan
                 PROVE  tally'[p].total = 0 \/ tally'[q].total = 0
      BY DEF ScanTakenOnce
    <3>1. CASE p # r /\ q # r
      BY <2>1, <2>2, <3>1 DEF ScanTakenOnce
    <3>2. CASE p = r \/ q = r
      BY <2>1, <2>6, <3>2
    <3> QED
      BY <3>1, <3>2
  <2> QED
    BY <2>4, <2>7
<1> QED
  BY <1>1, <1>2

\* A step that changes no row and each request either keeps its place and its
\* locals or is outside the pipeline.
LEMMA LocalsElsewhere ==
    ASSUME TypeOK, TypeOK', UNCHANGED rows, job' = job, \A r \in Requests : LocalsValid(r),
           \A r \in Requests : \/ pc'[r] = pc[r] /\ ctx'[r] = ctx[r]
                               \/ pc'[r] \notin PipelineSteps
    PROVE  \A r \in Requests : LocalsValid(r)'
<1> SUFFICES ASSUME NEW r \in Requests PROVE LocalsValid(r)'
  OBVIOUS
<1>1. CASE pc'[r] = pc[r] /\ ctx'[r] = ctx[r]
  BY <1>1, SameRows, LocalsKept
<1>2. CASE pc'[r] \notin PipelineSteps
  BY <1>2, NoLocals
<1> QED
  BY <1>1, <1>2

\* The gateway, scan and restart actions write no row.
Surroundings ==
    \/ \E r \in Requests : Submit(r) \/ Send(r) \/ Respond(r) \/ HangUp(r) \/ Cancel(r) \/ TakeScan(r)
                           \/ FinishRequest(r)
    \/ \E g \in Gateways : ScanDirectory(g)
    \/ Restart

LEMMA SurroundingsInv ==
    ASSUME IInv, Surroundings
    PROVE  IInv'
<1>0. TypeOK /\ \A r \in Requests : LocalsValid(r) /\ ScanSpent(r)
  BY DEF IInv
<1>1. TypeOK'
  <2>1. ASSUME NEW r \in Requests, FinishRequest(r) PROVE TypeOK'
    BY <1>0, <2>1 DEF FinishRequest, TypeOK, Goto, Stages, InService, world, rows
  <2> QED
    BY <1>0, <2>1, GatewayType, ScanType DEF Surroundings
<1>2. UNCHANGED rows /\ job' = job
  BY DEF Surroundings, Submit, Send, Respond, HangUp, Cancel, TakeScan, FinishRequest,
     ScanDirectory, Restart
<1>3. TrackRowsResolve' /\ RepeatsOnlyByOverlap'
  BY <1>0, <1>1, <1>2, SameRows, CatalogKept DEF IInv, rows
<1>4. \A q \in Requests : \/ pc'[q] = pc[q] /\ ctx'[q] = ctx[q]
                          \/ pc'[q] \notin PipelineSteps
  <2>1. pc \in [Requests -> Stages]
    BY <1>0 DEF TypeOK
  <2>2. ASSUME NEW r \in Requests, NEW q \in Requests,
               Submit(r) \/ Send(r) \/ Respond(r) \/ TakeScan(r) \/ FinishRequest(r)
        PROVE  \/ pc'[q] = pc[q] /\ ctx'[q] = ctx[q]
               \/ pc'[q] \notin PipelineSteps
    BY <2>1, <2>2 DEF Submit, Send, Respond, TakeScan, FinishRequest, Goto, PipelineSteps
  <2>3. ASSUME NEW r \in Requests, NEW q \in Requests, HangUp(r) \/ Cancel(r)
        PROVE  \/ pc'[q] = pc[q] /\ ctx'[q] = ctx[q]
               \/ pc'[q] \notin PipelineSteps
    BY <1>0, <2>1, <2>3 DEF HangUp, Cancel, PipelineSteps, TypeOK
  <2>4. ASSUME NEW q \in Requests, (\E g \in Gateways : ScanDirectory(g)) \/ Restart
        PROVE  \/ pc'[q] = pc[q] /\ ctx'[q] = ctx[q]
               \/ pc'[q] \notin PipelineSteps
    BY <2>4 DEF ScanDirectory, Restart, request, PipelineSteps
  <2> QED
    BY <2>2, <2>3, <2>4 DEF Surroundings
<1>5. \A r \in Requests : LocalsValid(r)'
  BY <1>0, <1>1, <1>2, <1>4, LocalsElsewhere
<1>6. (\A r \in Requests : ScanSpent(r)') /\ ScanTakenOnce'
  <2>1. CASE \E r \in Requests : TakeScan(r)
    BY <1>0, <1>1, <2>1, TakeScanInv DEF IInv
  <2>2. CASE \E r \in Requests : Send(r)
    <3>1. PICK r \in Requests : Send(r)
      BY <2>2
    <3>2. job[r].scan # 0 => Cardinality(job[r].paths) = 0
      BY <1>0, FS_EmptySet DEF ScanSpent
    <3>3. \A q \in Requests : job[q].scan # 0 =>
             tally'[q].total = tally[q].total \/ tally'[q].total = 0
      BY <1>0, <3>1, <3>2 DEF Send, TypeOK, Tally
    <3>4. scanPaths' = scanPaths /\ scans' = scans /\ Len(scanPaths) \in Nat
      BY <1>0, <3>1 DEF Send, world, TypeOK
    <3> QED
      BY <1>0, <1>1, <1>2, <3>3, <3>4, ScansKept DEF IInv
  <2>3. CASE \E g \in Gateways : ScanDirectory(g)
    <3>1. tally' = tally /\ scans' = scans \cup {Len(scanPaths) + 1}
      BY <2>3 DEF ScanDirectory, request
    <3>2. Len(scanPaths') = Len(scanPaths) + 1 /\ Len(scanPaths) \in Nat
      <4>1. PICK g \in Gateways : ScanDirectory(g)
        BY <2>3
      <4> QED
        BY <1>0, <4>1, AppendProperties DEF ScanDirectory, TypeOK
    <3> QED
      BY <1>0, <1>1, <1>2, <3>1, <3>2, ScansKept DEF IInv
  <2>4. CASE Restart
    <3>1. tally' = tally /\ scans' = {} /\ scanPaths' = scanPaths /\ Len(scanPaths) \in Nat
      BY <1>0, <2>4 DEF Restart, world, TypeOK
    <3> QED
      BY <1>0, <1>1, <1>2, <3>1, ScansKept DEF IInv
  <2>5. CASE \E r \in Requests : Submit(r) \/ Respond(r) \/ HangUp(r) \/ Cancel(r) \/ FinishRequest(r)
    <3>1. tally' = tally /\ scans' = scans /\ scanPaths' = scanPaths /\ Len(scanPaths) \in Nat
      BY <1>0, <2>5 DEF Submit, Respond, HangUp, Cancel, FinishRequest, world, TypeOK
    <3> QED
      BY <1>0, <1>1, <1>2, <3>1, ScansKept DEF IInv
  <2> QED
    BY <2>1, <2>2, <2>3, <2>4, <2>5 DEF Surroundings
<1> QED
  BY <1>1, <1>3, <1>5, <1>6 DEF IInv

LEMMA PipelineInv ==
    ASSUME IInv, NEW r \in Requests, Pipeline(r)
    PROVE  IInv'
<1>0. TypeOK /\ \A q \in Requests : LocalsValid(q) /\ ScanSpent(q)
  BY DEF IInv
<1>1. Advances(r) /\ (tracks' = tracks \/ CreateTrack(r))
  BY <1>0, PipelineAdvances
<1>2. TypeOK' /\ RowsKept /\ Undisturbed(r) /\ LocalsValid(r)'
  BY <1>1 DEF Advances
<1>3. TrackRowsResolve' /\ RepeatsOnlyByOverlap'
  BY <1>0, <1>1, <1>2, CatalogKept, CatalogExtended DEF IInv
<1>4. \A q \in Requests \ {r} : LocalsValid(q)'
  BY <1>0, <1>2, LocalsKept DEF Undisturbed
<1>5. (\A q \in Requests : ScanSpent(q)') /\ ScanTakenOnce'
  <2>1. Len(scanPaths) \in Nat
    BY <1>0 DEF TypeOK
  <2> QED
    BY <1>0, <1>2, <2>1, ScansKept DEF Undisturbed, IInv
<1> QED
  BY <1>2, <1>3, <1>4, <1>5 DEF IInv

\* Clients of the catalog and the disk: an edited album or track is marked as
\* moved when what it belongs to changes.
LEMMA EnvironmentInv ==
    ASSUME IInv, ByHand \/ \E p \in Paths : RewriteFile(p)
    PROVE  IInv'
<1>0. TypeOK /\ \A r \in Requests : LocalsValid(r) /\ ScanSpent(r)
  BY DEF IInv
<1>1. TypeOK'
  BY <1>0, EnvironmentType
<1>2. /\ job' = job /\ pc' = pc /\ ctx' = ctx /\ tally' = tally
      /\ scans' = scans /\ scanPaths' = scanPaths /\ Len(scanPaths) \in Nat
  <2>1. CASE ByHand
    <3>1. UNCHANGED <<scanPaths, scans, queue, job, request>>
      BY <2>1 DEF ByHand, EditArtist, EditAlbum, EditTrack, PostArtist, PostAlbum, PostTrack
    <3> QED
      BY <1>0, <3>1 DEF request, TypeOK
  <2>2. CASE \E p \in Paths : RewriteFile(p)
    BY <1>0, <2>2 DEF RewriteFile, request, TypeOK
  <2> QED
    BY <2>1, <2>2
<1>3. RowsKept
  <2>1. CASE \E i \in DOMAIN artists : EditArtist(i)
    BY <1>0, <1>1, <2>1 DEF EditArtist, RowsKept, TypeOK
  <2>2. CASE \E i \in DOMAIN albums : EditAlbum(i)
    <3>0. PICK i \in DOMAIN albums : EditAlbum(i)
      BY <2>2
    <3>1. PICK title \in AlbumTitles, owner \in DOMAIN artists,
               art \in {albums[i].art, NoImage, "manual"}, flag \in BOOLEAN :
             albums' = [albums EXCEPT ![i] =
                [title |-> title, artist |-> owner, art |-> art, edited |-> flag,
                 moved |-> albums[i].moved \/ owner # albums[i].artist]]
      BY <3>0 DEF EditAlbum
    <3>2. UNCHANGED <<artists, tracks, blobs>>
      BY <2>2 DEF EditAlbum
    <3> DEFINE row == [title |-> title, artist |-> owner, art |-> art, edited |-> flag,
                       moved |-> albums[i].moved \/ owner # albums[i].artist]
    <3>3. /\ albums[i].moved => row.moved
          /\ row.moved \/ row.artist = albums[i].artist
      OBVIOUS
    <3> HIDE DEF row
    <3>4. Len(albums') = Len(albums) /\ Len(albums) \in Nat /\ DOMAIN albums = 1 .. Len(albums)
      BY <1>0, <3>1 DEF TypeOK, row
    <3>5. \A j \in 1 .. Len(albums) : albums'[j] = IF j = i THEN row ELSE albums[j]
      BY <1>0, <3>1, <3>4 DEF TypeOK, row
    <3>6. \A j \in 1 .. Len(albums) :
            /\ albums[j].moved => albums'[j].moved
            /\ albums'[j].moved \/ albums'[j].artist = albums[j].artist
      BY <3>3, <3>5
    <3>7. /\ Len(artists) \in Nat /\ artists' = artists
          /\ Len(tracks) \in Nat /\ tracks' = tracks
          /\ Len(blobs) \in Nat /\ blobs' = blobs
      BY <1>0, <3>2 DEF TypeOK
    <3> QED
      BY <3>4, <3>6, <3>7 DEF RowsKept
  <2>3. CASE \E p \in Paths : RewriteFile(p)
    BY <1>0, <2>3, SameRows DEF RewriteFile
  <2>4. CASE PostArtist
    <3>1. UNCHANGED <<albums, tracks, blobs>>
      BY <2>4 DEF PostArtist
    <3>2. Len(artists) <= Len(artists')
      BY <1>0, <2>4, AppendProperties DEF PostArtist, TypeOK
    <3> QED
      BY <1>0, <3>1, <3>2 DEF RowsKept, TypeOK
  <2>5. CASE PostAlbum
    <3>1. UNCHANGED <<artists, tracks, blobs>>
      BY <2>5 DEF PostAlbum
    <3>2. /\ Len(albums') = Len(albums) + 1 /\ Len(albums) \in Nat
          /\ \A j \in 1 .. Len(albums) : albums'[j] = albums[j]
      BY <1>0, <2>5, AppendProperties DEF PostAlbum, TypeOK
    <3>3. Len(artists) \in Nat /\ Len(tracks) \in Nat /\ Len(blobs) \in Nat
      BY <1>0 DEF TypeOK
    <3>4. /\ Len(artists') = Len(artists) /\ Len(tracks') = Len(tracks)
          /\ Len(blobs') = Len(blobs) /\ tracks' = tracks /\ blobs' = blobs
      BY <3>1
    <3> QED
      BY <3>2, <3>3, <3>4 DEF RowsKept
  <2>6. TrackRowsResolve /\ RepeatsOnlyByOverlap
    BY DEF IInv
  <2>7. CASE PostTrack \/ \E i \in DOMAIN tracks : EditTrack(i)
    BY <1>0, <2>6, <2>7, CatalogEdited, CatalogPosted
  <2> QED
    BY <2>1, <2>2, <2>3, <2>4, <2>5, <2>7 DEF ByHand
<1>4. TrackRowsResolve' /\ RepeatsOnlyByOverlap'
  <2>1. CASE PostTrack \/ \E i \in DOMAIN tracks : EditTrack(i)
    BY <1>0, <2>1, CatalogEdited, CatalogPosted DEF IInv
  <2>2. CASE ~(PostTrack \/ \E i \in DOMAIN tracks : EditTrack(i))
    <3>1. tracks' = tracks
      BY <2>2 DEF ByHand, EditArtist, EditAlbum, PostArtist, PostAlbum, RewriteFile, rows
    <3> QED
      BY <1>0, <1>1, <1>3, <3>1, CatalogKept DEF IInv
  <2> QED
    BY <2>1, <2>2
<1>5. \A r \in Requests : LocalsValid(r)'
  BY <1>0, <1>1, <1>2, <1>3, LocalsKept
<1>6. (\A r \in Requests : ScanSpent(r)') /\ ScanTakenOnce'
  BY <1>0, <1>1, <1>2, ScansKept DEF IInv
<1> QED
  BY <1>1, <1>4, <1>5, <1>6 DEF IInv

LEMMA StutterInv ==
    ASSUME IInv, UNCHANGED vars
    PROVE  IInv'
<1>0. TypeOK /\ \A r \in Requests : LocalsValid(r) /\ ScanSpent(r)
  BY DEF IInv
<1>1. TypeOK'
  BY <1>0 DEF vars, TypeOK
<1>2. UNCHANGED rows /\ job' = job /\ pc' = pc /\ ctx' = ctx /\ tally' = tally /\ tracks' = tracks
      /\ scans' = scans /\ scanPaths' = scanPaths /\ Len(scanPaths) \in Nat
  BY <1>0 DEF vars, rows, TypeOK
<1>3. TrackRowsResolve' /\ RepeatsOnlyByOverlap' /\ \A r \in Requests : LocalsValid(r)'
  BY <1>0, <1>1, <1>2, SameRows, CatalogKept, LocalsElsewhere DEF IInv
<1>4. (\A r \in Requests : ScanSpent(r)') /\ ScanTakenOnce'
  BY <1>0, <1>1, <1>2, ScansKept DEF IInv
<1> QED
  BY <1>1, <1>3, <1>4 DEF IInv

LEMMA InitInv == Init => IInv
<1> SUFFICES ASSUME Init PROVE IInv
  OBVIOUS
<1>1. TypeOK
  BY InitType
<1>2. \A r \in Requests : LocalsValid(r)
  BY DEF Init, LocalsValid, PipelineSteps, Checked, Tagged, Named, ArtistSought,
     AlbumSought, AudioStored, ArtistSaved
<1>3. \A r \in Requests : tally[r].total = 0
  BY DEF Init, NoTally
<1>4. \A r \in Requests : ScanSpent(r)
  BY <1>3, IngestionAssumption DEF Init, ScanSpent
<1>5. TrackRowsResolve /\ RepeatsOnlyByOverlap /\ ScanTakenOnce
  BY <1>3 DEF Init, TrackRowsResolve, RepeatsOnlyByOverlap, ScanTakenOnce
<1> QED
  BY <1>1, <1>2, <1>4, <1>5 DEF IInv

LEMMA NextInv == IInv /\ [Next]_vars => IInv'
<1> SUFFICES ASSUME IInv, [Next]_vars PROVE IInv'
  OBVIOUS
<1>1. CASE Surroundings
  BY <1>1, SurroundingsInv
<1>2. CASE \E r \in Requests : Pipeline(r)
  BY <1>2, PipelineInv
<1>3. CASE ByHand \/ \E p \in Paths : RewriteFile(p)
  BY <1>3, EnvironmentInv
<1>4. CASE UNCHANGED vars
  BY <1>4, StutterInv
<1> QED
  BY <1>1, <1>2, <1>3, <1>4 DEF Next, Progress, Surroundings, Pipeline

-----------------------------------------------------------------------------
(* The counters of ingest_scan *)

Processed(t) == t.imported + t.duplicates + t.failed
InLoop == PipelineSteps \cup {"next", "reply", "done"}

\* Before a request has its paths nothing is counted; then each path is counted, in
\* hand, or still to come.
TallyInv(r) ==
    /\ pc[r] \in {"idle", "queued", "take"} => Processed(tally[r]) = 0
    /\ pc[r] = "take" => tally[r].total = Cardinality(todo[r])
    /\ pc[r] \in InLoop =>
         tally[r].total = Processed(tally[r]) + Cardinality(todo[r])
                          + (IF pc[r] \in PipelineSteps THEN 1 ELSE 0)
    /\ tally[r].imported <= Created(r)
    /\ Created(r) <= tally[r].imported + tally[r].failed

\* The rows a request has created are finitely many.
LEMMA CreatedType ==
    ASSUME TypeOK, NEW r \in Requests
    PROVE  Created(r) \in Nat
<1> DEFINE S == {i \in DOMAIN tracks : tracks[i].by = r}
<1>1. Len(tracks) \in Nat /\ S \subseteq 1 .. Len(tracks)
  BY DEF TypeOK
<1>2. IsFiniteSet(S)
  BY <1>1, FS_Interval, FS_Subset
<1> QED
  BY <1>2, FS_CardinalityType DEF Created

\* A new row counts for the request that inserted it.
LEMMA CreatedOne ==
    ASSUME TypeOK, NEW r \in Requests, NEW row \in TrackRow, row.by = r,
           tracks' = Append(tracks, row)
    PROVE  /\ Created(r)' = Created(r) + 1
           /\ \A q \in Requests \ {r} : Created(q)' = Created(q)
<1> DEFINE Of(q) == {i \in DOMAIN tracks : tracks[i].by = q}
           n == Len(tracks) + 1
<1>1. /\ n \in Nat /\ n \notin DOMAIN tracks /\ DOMAIN tracks' = DOMAIN tracks \cup {n}
      /\ DOMAIN tracks = 1 .. Len(tracks) /\ tracks'[n] = row
      /\ \A i \in DOMAIN tracks : tracks'[i] = tracks[i]
  BY AppendProperties DEF TypeOK
<1>2. Of(r)' = Of(r) \cup {n} /\ n \notin Of(r)
  BY <1>1
<1>3. IsFiniteSet(Of(r))
  <2>1. Of(r) \subseteq 1 .. Len(tracks) /\ Len(tracks) \in Nat
    BY <1>1 DEF TypeOK
  <2> QED
    BY <2>1, FS_Interval, FS_Subset
<1>4. Cardinality(Of(r)') = Cardinality(Of(r)) + 1
  BY <1>2, <1>3, FS_AddElement
<1>5. \A q \in Requests \ {r} : Of(q)' = Of(q)
  BY <1>1
<1> QED
  BY <1>4, <1>5 DEF Created

\* What ingest_scan counts when a file is done.
LEMMA Counted ==
    ASSUME TypeOK, NEW r \in Requests,
           NEW outcome \in {"imported", "duplicates", "failed"}, FileDone(r, outcome)
    PROVE  /\ tally'[r].total = tally[r].total
           /\ tally'[r].imported = tally[r].imported + (IF outcome = "imported" THEN 1 ELSE 0)
           /\ tally'[r].duplicates = tally[r].duplicates + (IF outcome = "duplicates" THEN 1 ELSE 0)
           /\ tally'[r].failed = tally[r].failed + (IF outcome = "failed" THEN 1 ELSE 0)
           /\ pc'[r] = "next"
           /\ \A q \in Requests \ {r} : pc'[q] = pc[q] /\ tally'[q] = tally[q]
<1>1. tally \in [Requests -> Tally] /\ tally[r] \in Tally
  BY DEF TypeOK
<1>2. tally'[r] = [tally[r] EXCEPT ![outcome] = @ + 1]
  BY <1>1 DEF FileDone
<1>3. /\ tally'[r].total = tally[r].total
      /\ tally'[r].imported = tally[r].imported + (IF outcome = "imported" THEN 1 ELSE 0)
      /\ tally'[r].duplicates = tally[r].duplicates + (IF outcome = "duplicates" THEN 1 ELSE 0)
      /\ tally'[r].failed = tally[r].failed + (IF outcome = "failed" THEN 1 ELSE 0)
  <2>1. CASE outcome = "imported"
    BY <1>1, <1>2, <2>1 DEF Tally
  <2>2. CASE outcome = "duplicates"
    BY <1>1, <1>2, <2>2 DEF Tally
  <2>3. CASE outcome = "failed"
    BY <1>1, <1>2, <2>3 DEF Tally
  <2> QED
    BY <2>1, <2>2, <2>3
<1> QED
  BY <1>1, <1>3 DEF FileDone, Goto, TypeOK

\* The others' counters stand when only r moves, and the rows are the same or r's.
LEMMA OthersCounted ==
    ASSUME TypeOK, NEW r \in Requests, \A q \in Requests : TallyInv(q),
           \A q \in Requests \ {r} :
             pc'[q] = pc[q] /\ tally'[q] = tally[q] /\ todo'[q] = todo[q] /\ Created(q)' = Created(q),
           TallyInv(r)'
    PROVE  \A q \in Requests : TallyInv(q)'
<1> SUFFICES ASSUME NEW q \in Requests \ {r} PROVE TallyInv(q)'
  OBVIOUS
<1>1. /\ pc'[q] = pc[q] /\ tally'[q] = tally[q] /\ todo'[q] = todo[q] /\ Created(q)' = Created(q)
      /\ TallyInv(q)
  OBVIOUS
<1> QED
  BY <1>1 DEF TallyInv, Processed

\* Rows that stay are counted as before.
LEMMA SameCreated ==
    ASSUME tracks' = tracks
    PROVE  \A q \in Requests : Created(q)' = Created(q)
BY DEF Created

\* A request moves on, and no file is done.
LEMMA TallyMoves ==
    ASSUME TypeOK, NEW r \in Requests, \A q \in Requests : TallyInv(q), tracks' = tracks,
           \A q \in Requests \ {r} : pc'[q] = pc[q], tally' = tally, todo' = todo,
           \/ pc[r] \in PipelineSteps /\ pc'[r] \in PipelineSteps
           \/ pc[r] = "next" /\ pc'[r] = "reply"
           \/ pc[r] = "take" /\ pc'[r] = "reply"
           \/ pc[r] = "reply" /\ pc'[r] = "done"
           \/ pc[r] = "idle" /\ pc'[r] = "queued"
           \/ pc'[r] \in {pc[r], "gone"}
    PROVE  \A q \in Requests : TallyInv(q)'
<1>1. \A q \in Requests : Created(q)' = Created(q)
  BY SameCreated
<1>2. /\ TallyInv(r) /\ Created(r) \in Nat /\ tally[r] \in Tally /\ Cardinality(todo[r]) \in Nat
      /\ Created(r)' = Created(r)
  BY <1>1, CreatedType, PathSetSize DEF TypeOK
<1>3. TallyInv(r)'
  BY <1>2 DEF TallyInv, Processed, InLoop, PipelineSteps, Tally
<1> QED
  BY <1>1, <1>3, OthersCounted

\* A file in hand is done without a row.
LEMMA TallyDone ==
    ASSUME TypeOK, NEW r \in Requests, \A q \in Requests : TallyInv(q), tracks' = tracks,
           todo' = todo, pc[r] \in PipelineSteps,
           NEW outcome \in {"duplicates", "failed"}, FileDone(r, outcome)
    PROVE  \A q \in Requests : TallyInv(q)'
<1>1. \A q \in Requests : Created(q)' = Created(q)
  BY SameCreated
<1>2. /\ TallyInv(r) /\ Created(r) \in Nat /\ tally[r] \in Tally /\ Cardinality(todo[r]) \in Nat
      /\ Created(r)' = Created(r)
  BY <1>1, CreatedType, PathSetSize DEF TypeOK
<1>3. /\ tally'[r].total = tally[r].total /\ tally'[r].imported = tally[r].imported
      /\ pc'[r] = "next" /\ Processed(tally'[r]) = Processed(tally[r]) + 1
      /\ tally'[r].failed >= tally[r].failed /\ tally'[r].failed \in Nat
      /\ \A q \in Requests \ {r} : pc'[q] = pc[q] /\ tally'[q] = tally[q]
  BY <1>2, Counted DEF Processed, Tally
<1>4. Processed(tally[r]) \in Nat
  BY <1>2 DEF Processed, Tally
<1>5. TallyInv(r)'
  BY <1>2, <1>3, <1>4 DEF TallyInv, InLoop, PipelineSteps, Tally
<1> QED
  BY <1>1, <1>3, <1>5, OthersCounted

\* Step 8 adds a row and counts an import, or a failure if the reply is lost.
LEMMA TallyCreates ==
    ASSUME IInv, NEW r \in Requests, \A q \in Requests : TallyInv(q), CreateTrack(r)
    PROVE  \A q \in Requests : TallyInv(q)'
<1> DEFINE c == ctx[r]
           row == [hash |-> c.data, artist |-> c.artistId, album |-> c.albumId, blob |-> c.blob,
                   forced |-> job[r].force, seen |-> c.seen, by |-> r, moved |-> FALSE]
<1>1. TypeOK /\ c \in Context /\ job[r].force \in BOOLEAN /\ LocalsValid(r)
  BY DEF IInv, TypeOK, Job
<1>2. c.data \in Contents
  BY <1>1 DEF CreateTrack, LocalsValid, PipelineSteps
<1>3. row \in TrackRow /\ row.by = r
  BY <1>1, <1>2 DEF Context, TrackRow
<1>4. tracks' = Append(tracks, row) /\ todo' = todo /\ pc[r] = "track"
  BY DEF CreateTrack
<1> HIDE DEF row, c
<1>5. Created(r)' = Created(r) + 1 /\ \A q \in Requests \ {r} : Created(q)' = Created(q)
  BY <1>1, <1>3, <1>4, CreatedOne
<1>6. /\ TallyInv(r) /\ Created(r) \in Nat /\ tally[r] \in Tally /\ Cardinality(todo[r]) \in Nat
  BY <1>1, CreatedType, PathSetSize DEF TypeOK
<1>7. PICK outcome \in {"imported", "failed"} : FileDone(r, outcome)
  BY DEF CreateTrack
<1>8. /\ tally'[r].total = tally[r].total /\ pc'[r] = "next"
      /\ Processed(tally'[r]) = Processed(tally[r]) + 1
      /\ tally'[r].imported + tally'[r].failed = tally[r].imported + tally[r].failed + 1
      /\ tally'[r].imported \in {tally[r].imported, tally[r].imported + 1}
      /\ \A q \in Requests \ {r} : pc'[q] = pc[q] /\ tally'[q] = tally[q]
  <2>1. /\ tally'[r].total = tally[r].total /\ tally'[r].duplicates = tally[r].duplicates
        /\ tally'[r].imported = tally[r].imported + (IF outcome = "imported" THEN 1 ELSE 0)
        /\ tally'[r].failed = tally[r].failed + (IF outcome = "failed" THEN 1 ELSE 0)
        /\ pc'[r] = "next"
        /\ \A q \in Requests \ {r} : pc'[q] = pc[q] /\ tally'[q] = tally[q]
    <3>1. outcome \in {"imported", "duplicates", "failed"} /\ outcome # "duplicates"
      OBVIOUS
    <3>2. tally[r].duplicates \in Nat
      BY <1>6 DEF Tally
    <3> QED
      BY <1>1, <1>7, <3>1, <3>2, Counted
  <2>2. tally[r].imported \in Nat /\ tally[r].duplicates \in Nat /\ tally[r].failed \in Nat
    BY <1>6 DEF Tally
  <2>3. CASE outcome = "imported"
    BY <2>1, <2>2, <2>3 DEF Processed
  <2>4. CASE outcome = "failed"
    BY <2>1, <2>2, <2>4 DEF Processed
  <2> QED
    BY <2>1, <2>3, <2>4
<1>9. Processed(tally[r]) \in Nat /\ tally[r].imported \in Nat /\ tally[r].failed \in Nat
  BY <1>6 DEF Processed, Tally
<1>10. /\ tally[r].total = Processed(tally[r]) + Cardinality(todo[r]) + 1
       /\ tally[r].imported <= Created(r) /\ Created(r) <= tally[r].imported + tally[r].failed
  BY <1>4, <1>6 DEF TallyInv, InLoop, PipelineSteps
<1>11. /\ tally'[r].total = Processed(tally'[r]) + Cardinality(todo'[r])
       /\ Processed(tally'[r]) \in Nat /\ Cardinality(todo'[r]) \in Nat
       /\ tally'[r].imported <= Created(r)'
       /\ Created(r)' <= tally'[r].imported + tally'[r].failed
  <2>1. Cardinality(todo'[r]) = Cardinality(todo[r]) /\ Cardinality(todo[r]) \in Nat
    BY <1>4, <1>6
  <2>2. Processed(tally'[r]) \in Nat /\ Processed(tally'[r]) = Processed(tally[r]) + 1
    BY <1>8, <1>9
  <2>3. tally'[r].total = Processed(tally'[r]) + Cardinality(todo'[r])
    BY <1>8, <1>9, <1>10, <2>1, <2>2
  <2> QED
    BY <1>5, <1>6, <1>8, <1>9, <1>10, <2>1, <2>2, <2>3
<1>12. TallyInv(r)'
  BY <1>8, <1>11 DEF TallyInv, InLoop, PipelineSteps
<1> QED
  BY <1>1, <1>4, <1>5, <1>8, <1>12, OthersCounted

\* Step 1 takes a path out of those to come.
LEMMA TallyBegins ==
    ASSUME TypeOK, NEW r \in Requests, \A q \in Requests : TallyInv(q), BeginFile(r)
    PROVE  \A q \in Requests : TallyInv(q)'
<1>1. \A q \in Requests : Created(q)' = Created(q)
  BY SameCreated DEF BeginFile, rows
<1>2. PICK p \in todo[r] :
        /\ todo' = [todo EXCEPT ![r] = @ \ {p}]
        /\ \/ Goto(r, "check") /\ UNCHANGED tally
           \/ FileDone(r, "failed")
  <2>1. PICK p \in todo[r] :
          /\ todo' = [todo EXCEPT ![r] = @ \ {p}]
          /\ \/ /\ disk[p] # Missing
                /\ ctx' = [ctx EXCEPT ![r] = [FreshContext(p) EXCEPT !.data = disk[p]]]
                /\ Goto(r, "check")
                /\ UNCHANGED tally
             \/ FileDone(r, "failed")
    BY ZenonT(30) DEF BeginFile
  <2> QED
    BY <2>1
<1>3. /\ TallyInv(r) /\ Created(r) \in Nat /\ tally[r] \in Tally /\ Created(r)' = Created(r)
      /\ pc[r] = "next" /\ todo[r] \in SUBSET Paths /\ todo'[r] = todo[r] \ {p}
      /\ \A q \in Requests \ {r} : todo'[q] = todo[q]
  BY <1>1, <1>2, CreatedType DEF TypeOK, BeginFile
<1>4. Cardinality(todo[r]) \in Nat /\ Cardinality(todo'[r]) = Cardinality(todo[r]) - 1
  <2>1. IsFiniteSet(todo[r])
    BY <1>3, IngestionAssumption, FS_Subset
  <2> QED
    BY <1>3, <2>1, FS_CardinalityType, FS_RemoveElement
<1>5. CASE Goto(r, "check") /\ UNCHANGED tally
  <2>1. pc'[r] = "check" /\ tally' = tally /\ \A q \in Requests \ {r} : pc'[q] = pc[q]
    BY <1>5 DEF Goto, TypeOK
  <2>2. TallyInv(r)'
    BY <1>3, <1>4, <2>1 DEF TallyInv, Processed, InLoop, PipelineSteps, Tally
  <2> QED
    BY <1>1, <1>3, <2>1, <2>2, OthersCounted
<1>6. CASE FileDone(r, "failed")
  <2>1. /\ tally'[r].total = tally[r].total /\ tally'[r].imported = tally[r].imported
        /\ pc'[r] = "next" /\ Processed(tally'[r]) = Processed(tally[r]) + 1
        /\ tally'[r].failed = tally[r].failed + 1
        /\ \A q \in Requests \ {r} : pc'[q] = pc[q] /\ tally'[q] = tally[q]
    <3>1. tally[r].imported \in Nat /\ tally[r].duplicates \in Nat /\ tally[r].failed \in Nat
      BY <1>3 DEF Tally
    <3>2. /\ tally'[r].total = tally[r].total /\ tally'[r].imported = tally[r].imported
          /\ tally'[r].duplicates = tally[r].duplicates /\ tally'[r].failed = tally[r].failed + 1
          /\ pc'[r] = "next" /\ \A q \in Requests \ {r} : pc'[q] = pc[q] /\ tally'[q] = tally[q]
      <4>1. "failed" \in {"imported", "duplicates", "failed"}
        OBVIOUS
      <4> QED
        BY <1>6, <3>1, <4>1, Counted
    <3> QED
      BY <3>1, <3>2 DEF Processed
  <2>2. Processed(tally[r]) \in Nat /\ tally[r].failed \in Nat /\ tally[r].imported \in Nat
    BY <1>3 DEF Processed, Tally
  <2>3. TallyInv(r)'
    BY <1>3, <1>4, <2>1, <2>2 DEF TallyInv, InLoop, PipelineSteps
  <2> QED
    BY <1>1, <1>3, <2>1, <2>3, OthersCounted
<1> QED
  BY <1>2, <1>5, <1>6

\* The paths come with the call, or out of the map of scans.
LEMMA TallyStarts ==
    ASSUME TypeOK, NEW r \in Requests, \A q \in Requests : TallyInv(q), tracks' = tracks,
           NEW P \in SUBSET Paths, pc[r] \in {"queued", "take"},
           todo' = [todo EXCEPT ![r] = P],
           tally' = [tally EXCEPT ![r].total = Cardinality(P)],
           pc'[r] \in {"next", "take"}, \A q \in Requests \ {r} : pc'[q] = pc[q]
    PROVE  \A q \in Requests : TallyInv(q)'
<1>1. \A q \in Requests : Created(q)' = Created(q)
  BY SameCreated
<1>2. /\ TallyInv(r) /\ Created(r) \in Nat /\ tally[r] \in Tally /\ Created(r)' = Created(r)
      /\ todo'[r] = P /\ \A q \in Requests \ {r} : todo'[q] = todo[q] /\ tally'[q] = tally[q]
      /\ Cardinality(P) \in Nat
  BY <1>1, CreatedType, PathSetSize DEF TypeOK
<1>3. /\ tally'[r].total = Cardinality(P) /\ tally'[r].imported = tally[r].imported
      /\ tally'[r].duplicates = tally[r].duplicates /\ tally'[r].failed = tally[r].failed
  <2>1. tally'[r] = [tally[r] EXCEPT !.total = Cardinality(P)]
    BY DEF TypeOK
  <2> QED
    BY <1>2, <2>1 DEF Tally
<1>4. Processed(tally[r]) = 0 /\ Processed(tally'[r]) = Processed(tally[r])
  BY <1>2, <1>3 DEF TallyInv, Processed
<1>5. TallyInv(r)'
  BY <1>2, <1>3, <1>4 DEF TallyInv, InLoop, PipelineSteps
<1> QED
  BY <1>1, <1>2, <1>5, OthersCounted

\* A request that is cut short counts nothing any more.
LEMMA TallyGone ==
    ASSUME TypeOK, \A q \in Requests : TallyInv(q), tally' = tally,
           tracks' = tracks \/ \A q \in Requests : Created(q)' = Created(q),
           \A q \in Requests : pc'[q] = "gone" \/ (pc'[q] = pc[q] /\ todo'[q] = todo[q])
    PROVE  \A q \in Requests : TallyInv(q)'
<1> SUFFICES ASSUME NEW q \in Requests PROVE TallyInv(q)'
  OBVIOUS
<1>1. TallyInv(q) /\ Created(q)' = Created(q) /\ tally'[q] = tally[q]
  BY SameCreated
<1>2. CASE pc'[q] = "gone"
  BY <1>1, <1>2 DEF TallyInv, InLoop, PipelineSteps
<1>3. CASE pc'[q] = pc[q] /\ todo'[q] = todo[q]
  BY <1>1, <1>3 DEF TallyInv, Processed
<1> QED
  BY <1>2, <1>3

LEMMA TallyPipeline ==
    ASSUME IInv, NEW r \in Requests, \A q \in Requests : TallyInv(q), Pipeline(r)
    PROVE  \A q \in Requests : TallyInv(q)'
<1>0. TypeOK
  BY DEF IInv
<1>1. CASE BeginFile(r)
  BY <1>0, <1>1, TallyBegins
<1>2. CASE CreateTrack(r)
  BY <1>2, TallyCreates
<1>3. CASE ~BeginFile(r) /\ ~CreateTrack(r)
  <2>1. /\ tracks' = tracks /\ todo' = todo /\ pc[r] \in PipelineSteps
        /\ \/ \E step \in PipelineSteps : Goto(r, step) /\ UNCHANGED tally
           \/ \E outcome \in {"duplicates", "failed"} : FileDone(r, outcome)
    BY <1>3 DEF Pipeline, StepFails, CheckDuplicate, ExtractMetadata, Enrich, FindArtist,
         FindExistingAlbum, Artwork, StoreAudio, SaveArtist, SaveAlbum, Then, rows, PipelineSteps
  <2>2. CASE \E outcome \in {"duplicates", "failed"} : FileDone(r, outcome)
    BY <1>0, <2>1, <2>2, TallyDone
  <2>3. ASSUME NEW step \in PipelineSteps, Goto(r, step), UNCHANGED tally
        PROVE  \A q \in Requests : TallyInv(q)'
    <3>1. pc'[r] = step /\ \A q \in Requests \ {r} : pc'[q] = pc[q]
      BY <1>0, <2>3 DEF Goto, TypeOK
    <3> QED
      BY <1>0, <2>1, <2>3, <3>1, TallyMoves
  <2> QED
    BY <2>1, <2>2, <2>3
<1> QED
  BY <1>1, <1>2, <1>3

LEMMA TallySurroundings ==
    ASSUME IInv, \A q \in Requests : TallyInv(q), Surroundings
    PROVE  \A q \in Requests : TallyInv(q)'
<1>0. TypeOK
  BY DEF IInv
<1>1. ASSUME NEW r \in Requests, Submit(r) \/ Respond(r) \/ FinishRequest(r)
      PROVE  \A q \in Requests : TallyInv(q)'
  <2>1. /\ tracks' = tracks /\ tally' = tally /\ todo' = todo
        /\ \A q \in Requests \ {r} : pc'[q] = pc[q]
        /\ \/ pc[r] = "next" /\ pc'[r] = "reply"
           \/ pc[r] = "reply" /\ pc'[r] = "done"
           \/ pc[r] = "idle" /\ pc'[r] = "queued"
    BY <1>0, <1>1 DEF Submit, Respond, FinishRequest, Goto, rows, TypeOK
  <2> QED
    BY <1>0, <2>1, TallyMoves
<1>2. ASSUME NEW r \in Requests, HangUp(r) \/ Cancel(r)
      PROVE  \A q \in Requests : TallyInv(q)'
  <2>1. /\ tracks' = tracks /\ tally' = tally
        /\ \A q \in Requests : pc'[q] = "gone" \/ (pc'[q] = pc[q] /\ todo'[q] = todo[q])
    <3>1. CASE HangUp(r)
      BY <1>0, <3>1 DEF HangUp, rows, TypeOK
    <3>2. CASE Cancel(r)
      BY <1>0, <3>2 DEF Cancel, rows, TypeOK
    <3> QED
      BY <1>2, <3>1, <3>2
  <2> QED
    BY <1>0, <2>1, TallyGone
<1>3. ASSUME NEW r \in Requests, Send(r) PROVE \A q \in Requests : TallyInv(q)'
  <2>1. /\ tracks' = tracks /\ pc[r] = "queued" /\ job[r].paths \in SUBSET Paths
        /\ todo' = [todo EXCEPT ![r] = job[r].paths]
        /\ tally' = [tally EXCEPT ![r].total = Cardinality(job[r].paths)]
        /\ pc'[r] \in {"next", "take"} /\ \A q \in Requests \ {r} : pc'[q] = pc[q]
    BY <1>0, <1>3 DEF Send, rows, TypeOK, Job
  <2> QED
    BY <1>0, <2>1, TallyStarts
<1>4. ASSUME NEW r \in Requests, TakeScan(r) PROVE \A q \in Requests : TallyInv(q)'
  <2> DEFINE s == job[r].scan
  <2>1. CASE s \in scans /\ pc' = [pc EXCEPT ![r] = "next"]
    <3>1. scanPaths[s] \in SUBSET Paths
      <4>1. scanPaths \in Seq(SUBSET Paths) /\ s \in 1 .. Len(scanPaths)
        BY <1>0, <2>1 DEF TypeOK
      <4> QED
        BY <4>1
    <3>2. /\ tracks' = tracks /\ pc[r] = "take"
          /\ todo' = [todo EXCEPT ![r] = scanPaths[s]]
          /\ tally' = [tally EXCEPT ![r].total = Cardinality(scanPaths[s])]
          /\ pc'[r] = "next" /\ \A q \in Requests \ {r} : pc'[q] = pc[q]
      BY <1>0, <1>4, <2>1 DEF TakeScan, rows, TypeOK
    <3> QED
      BY <1>0, <3>1, <3>2, TallyStarts
  <2>2. CASE s \notin scans
    <3>1. /\ tracks' = tracks /\ tally' = tally /\ todo' = todo
          /\ pc[r] = "take" /\ pc'[r] = "reply" /\ \A q \in Requests \ {r} : pc'[q] = pc[q]
      BY <1>0, <1>4, <2>2 DEF TakeScan, rows, TypeOK
    <3> QED
      BY <1>0, <3>1, TallyMoves
  <2> QED
    BY <1>4, <2>1, <2>2 DEF TakeScan
<1>5. CASE \E g \in Gateways : ScanDirectory(g)
  BY <1>0, <1>5, TallyGone DEF ScanDirectory, rows, request
<1>6. CASE Restart
  <2>1. /\ tracks' = tracks /\ tally' = tally
        /\ \A q \in Requests : pc'[q] = "gone" \/ (pc'[q] = pc[q] /\ todo'[q] = todo[q])
    BY <1>0, <1>6 DEF Restart, rows
  <2> QED
    BY <1>0, <2>1, TallyGone
<1> QED
  BY <1>1, <1>2, <1>3, <1>4, <1>5, <1>6 DEF Surroundings

LEMMA TallyStep ==
    ASSUME IInv, [Next]_vars, \A q \in Requests : TallyInv(q)
    PROVE  \A q \in Requests : TallyInv(q)'
<1>0. TypeOK
  BY DEF IInv
<1>1. CASE Surroundings
  BY <1>1, TallySurroundings
<1>2. CASE \E r \in Requests : Pipeline(r)
  BY <1>2, TallyPipeline
<1>3. CASE \/ ByHand
           \/ \E p \in Paths : RewriteFile(p)
           \/ UNCHANGED vars
  <2>1. tally' = tally /\ pc' = pc /\ todo' = todo
    BY <1>3 DEF ByHand, EditArtist, EditAlbum, EditTrack, PostArtist, PostAlbum, PostTrack,
                RewriteFile, vars, rows, request
  <2>2. \/ tracks' = tracks
        \/ PostTrack \/ \E i \in DOMAIN tracks : EditTrack(i)
    BY <1>3 DEF ByHand, EditArtist, EditAlbum, PostArtist, PostAlbum, RewriteFile, vars, rows
  <2>3. tracks' = tracks \/ \A q \in Requests : Created(q)' = Created(q)
    BY <2>2, CatalogEdited, CatalogPosted DEF IInv
  <2> QED
    BY <1>0, <2>1, <2>3, TallyGone
<1> QED
  BY <1>1, <1>2, <1>3 DEF Next, Progress, Surroundings, Pipeline

LEMMA TallyStart == Init => \A r \in Requests : TallyInv(r)
<1> SUFFICES ASSUME Init, NEW r \in Requests PROVE TallyInv(r)
  OBVIOUS
<1>1. {i \in DOMAIN tracks : tracks[i].by = r} = {}
  BY DEF Init
<1>2. Created(r) = 0
  BY <1>1, FS_EmptySet DEF Created
<1>3. pc[r] = "idle" /\ tally[r] = NoTally
  BY DEF Init
<1> QED
  BY <1>2, <1>3 DEF TallyInv, Processed, NoTally, InLoop, PipelineSteps

-----------------------------------------------------------------------------
(* Images and artwork *)

\* A step that is no edit by hand leaves images and artworks that are there.
LEMMA ImagesStay ==
    ASSUME IInv, Next, edits' = edits
    PROVE  /\ \A i \in DOMAIN artists :
                artists[i].image # NoImage => artists'[i].image = artists[i].image
           /\ \A i \in DOMAIN albums :
                albums[i].art # NoImage => albums'[i].art = albums[i].art
<1>0. TypeOK /\ artists \in Seq(ArtistRow) /\ albums \in Seq(AlbumRow) /\ edits \in Nat
  BY DEF IInv, TypeOK
<1>1. ASSUME NEW r \in Requests, SaveArtist(r), NEW i \in DOMAIN artists,
             artists[i].image # NoImage
      PROVE  artists'[i].image = artists[i].image
  <2> DEFINE c == ctx[r]
             row == [name |-> c.artist, image |-> c.img, edited |-> FALSE]
  <2>1. \/ artists' = Append(artists, row)
        \/ artists' = artists
        \/ artists' = [artists EXCEPT ![c.exArtist].image = FillIfMissing(@, c.img)]
    BY <1>1 DEF SaveArtist
  <2>2. CASE artists' = Append(artists, row)
    BY <1>0, <2>2, AppendProperties
  <2>3. CASE artists' = [artists EXCEPT ![c.exArtist].image = FillIfMissing(@, c.img)]
    <3>1. CASE i = c.exArtist
      <4>1. artists[i] \in ArtistRow
        BY <1>0
      <4>2. artists'[i] = [artists[i] EXCEPT !.image = FillIfMissing(artists[i].image, c.img)]
        BY <2>3, <3>1
      <4>3. FillIfMissing(artists[i].image, c.img) = artists[i].image
        BY <1>1 DEF FillIfMissing
      <4> QED
        BY <4>1, <4>2, <4>3 DEF ArtistRow
    <3>2. CASE i # c.exArtist
      BY <2>3, <3>2
    <3> QED
      BY <3>1, <3>2
  <2> QED
    BY <2>1, <2>2, <2>3
<1>2. ASSUME NEW r \in Requests, SaveAlbum(r), NEW i \in DOMAIN albums, albums[i].art # NoImage
      PROVE  albums'[i].art = albums[i].art
  <2> DEFINE c == ctx[r]
             row == [title |-> c.album, artist |-> c.artistId, art |-> c.art,
                     edited |-> FALSE, moved |-> FALSE]
  <2>1. \/ albums' = Append(albums, row)
        \/ albums' = albums
        \/ albums' = [albums EXCEPT ![c.exAlbum].art = FillIfMissing(@, c.art)]
    BY <1>2 DEF SaveAlbum
  <2>2. CASE albums' = Append(albums, row)
    BY <1>0, <2>2, AppendProperties
  <2>3. CASE albums' = [albums EXCEPT ![c.exAlbum].art = FillIfMissing(@, c.art)]
    <3>1. CASE i = c.exAlbum
      <4>1. albums[i] \in AlbumRow
        BY <1>0
      <4>2. albums'[i] = [albums[i] EXCEPT !.art = FillIfMissing(albums[i].art, c.art)]
        BY <2>3, <3>1
      <4>3. FillIfMissing(albums[i].art, c.art) = albums[i].art
        BY <1>2 DEF FillIfMissing
      <4> QED
        BY <4>1, <4>2, <4>3 DEF AlbumRow
    <3>2. CASE i # c.exAlbum
      BY <2>3, <3>2
    <3> QED
      BY <3>1, <3>2
  <2> QED
    BY <2>1, <2>2, <2>3
<1>3. \/ \E r \in Requests : SaveArtist(r) /\ albums' = albums
      \/ \E r \in Requests : SaveAlbum(r) /\ artists' = artists
      \/ artists' = artists /\ albums' = albums
  <2>1. CASE \E r \in Requests : SaveArtist(r)
    BY <2>1 DEF SaveArtist
  <2>2. CASE \E r \in Requests : SaveAlbum(r)
    BY <2>2 DEF SaveAlbum
  <2>3. CASE ByHand
    <3>1. edits' = edits + 1
      BY <2>3 DEF ByHand, EditArtist, EditAlbum, EditTrack, PostArtist, PostAlbum, PostTrack
    <3> QED
      BY <1>0, <3>1
  <2>4. CASE \/ \E g \in Gateways : ScanDirectory(g)
             \/ Restart
             \/ \E p \in Paths : RewriteFile(p)
    BY <2>4 DEF ScanDirectory, Restart, RewriteFile, rows
  <2>5. ASSUME NEW r \in Requests, ~SaveArtist(r), ~SaveAlbum(r),
               Submit(r) \/ HangUp(r) \/ Progress(r)
        PROVE  artists' = artists /\ albums' = albums
    BY <2>5 DEF Progress, Submit, HangUp, Send, Respond, Cancel, TakeScan, BeginFile,
         FinishRequest, CheckDuplicate, ExtractMetadata, Enrich, FindArtist, FindExistingAlbum,
         Artwork, StoreAudio, CreateTrack, StepFails, rows
  <2> QED
    BY <2>1, <2>2, <2>3, <2>4, <2>5 DEF Next
<1> QED
  BY <1>1, <1>2, <1>3

-----------------------------------------------------------------------------
(* Theorems *)

THEOREM Invariance == Spec => []IInv
BY InitInv, NextInv, PTL DEF Spec

\* Type correctness of the service, its catalog rows and its gateways.
THEOREM TypeCorrect == Spec => []TypeOK
<1>1. IInv => TypeOK
  BY DEF IInv
<1> QED
  BY <1>1, Invariance, PTL

\* Every track row of the catalog resolves, whatever fails, is edited or posted by
\* hand, or is rewritten on disk while imports run.
THEOREM CatalogResolves == Spec => []TrackRowsResolve
<1>1. IInv => TrackRowsResolve
  BY DEF IInv
<1> QED
  BY <1>1, Invariance, PTL

\* Repeated content is always the result of overlapping imports, for any number
\* of requests and gateways.
THEOREM RepeatsNeedOverlap == Spec => []RepeatsOnlyByOverlap
<1>1. IInv => RepeatsOnlyByOverlap
  BY DEF IInv
<1> QED
  BY <1>1, Invariance, PTL

\* No two requests ever process the same scan.
THEOREM ScansTakenOnce == Spec => []ScanTakenOnce
<1>1. IInv => ScanTakenOnce
  BY DEF IInv
<1> QED
  BY <1>1, Invariance, PTL

\* The counters of every import account for its paths and for the rows it has created,
\* whatever fails, is lost or is cut short.
THEOREM TallyIsTrue == Spec => []TallyMatchesCatalog
<1> DEFINE Inv == \A r \in Requests : TallyInv(r)
<1>1. Init => Inv
  BY TallyStart
<1>2. IInv /\ Inv /\ [Next]_vars => Inv'
  BY TallyStep
<1>3. IInv /\ Inv => TallyMatchesCatalog
  <2> SUFFICES ASSUME IInv, Inv, NEW r \in Requests
               PROVE  /\ pc[r] \in InLoop =>
                           tally[r].total = tally[r].imported + tally[r].duplicates
                              + tally[r].failed + Cardinality(todo[r])
                              + (IF pc[r] \in PipelineSteps THEN 1 ELSE 0)
                      /\ tally[r].imported <= Created(r)
                      /\ Created(r) <= tally[r].imported + tally[r].failed
    BY DEF TallyMatchesCatalog, InLoop
  <2> QED
    BY DEF TallyInv, Processed
<1> QED
  BY <1>1, <1>2, <1>3, Invariance, PTL DEF Spec

\* An image or artwork that is there is never replaced by an import.
THEOREM GapsOnly == Spec => EnrichmentOnlyFillsGaps
<1> DEFINE Stays ==
      edits' = edits =>
        /\ \A i \in DOMAIN artists :
             artists[i].image # NoImage => artists'[i].image = artists[i].image
        /\ \A i \in DOMAIN albums :
             albums[i].art # NoImage => albums'[i].art = albums[i].art
<1>1. IInv /\ [Next]_vars => [Stays]_vars
  BY ImagesStay
<1>2. Spec => [][Stays]_vars
  BY <1>1, Invariance, PTL DEF Spec
<1> QED
  BY <1>2 DEF EnrichmentOnlyFillsGaps

=============================================================================
