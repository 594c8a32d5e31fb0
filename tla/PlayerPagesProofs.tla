------------------------- MODULE PlayerPagesProofs -------------------------
(***************************************************************************)
(* Proofs about Favorites, Browse, Shelves and Names for any playlists,    *)
(* pages, tracks and edits, as MCPlayerPages composes them.                *)
(***************************************************************************)
EXTENDS MCPlayerPages, FiniteSetTheorems, WellFoundedInduction, SequenceTheorems, TLAPS

-----------------------------------------------------------------------------
(* The detail pages *)

\* The last load is the only one that is live, and it is of the address that is open.
LoadsSound ==
    \A l \in loads :
        /\ l.n <= opened
        /\ l.live => l.at = url /\ l.mounted
        /\ l.mounted => l.at.page = url.page
        /\ l.mounted /\ url.page = "album" /\ ~view.reused => l.at = url

\* An album page that has not been reused shows its own album, if any; a page that waits
\* has a live load.
ViewSound ==
    /\ url.page = "album" /\ ~view.reused => view.data \in {B!None, url.id}
    /\ url.page \in {"artist", "playlist"} /\ ~view.loading /\ ~view.error =>
         view.data \in {B!None, url.id}
    /\ url.page # "discovery" /\ view.loading => \E l \in loads : l.at = url /\ l.live

\* Browse's types, without the reader's.
PagesTyped ==
    /\ url \in B!Urls /\ visited \subseteq B!Urls /\ url \in visited
    /\ view \in B!View
    /\ loads \subseteq B!Load /\ opened \in 0 .. MaxLoads
    /\ \A l, m \in loads : l.n = m.n => l = m

DetailInv == PagesTyped /\ LoadsSound /\ ViewSound

LEMMA PageKinds ==
    ASSUME NEW u \in B!Urls
    PROVE  u.page \in {"album", "artist", "playlist", "discovery"}
  BY DEF B!Urls

LEMMA DetailShows == DetailInv => B!ShownIsAsked
  <1> SUFFICES ASSUME DetailInv PROVE B!ShownIsAsked
    OBVIOUS
  <1>1. url.page \in {"album", "artist", "playlist", "discovery"}
    BY PageKinds DEF DetailInv, PagesTyped
  <1> QED
    BY <1>1 DEF DetailInv, LoadsSound, ViewSound, B!ShownIsAsked

LEMMA DetailStart == B!Init => DetailInv
  <1> SUFFICES ASSUME B!Init PROVE DetailInv
    OBVIOUS
  <1>1. url \in B!Urls /\ url.page = "discovery"
    BY DEF B!Init, B!Urls
  <1>2. view \in B!View
    BY DEF B!Init, B!View, B!Mounted, B!None
  <1>3. 0 \in 0 .. MaxLoads
    BY PagesConstants DEF B!BrowseAssumption
  <1>4. loads = {} /\ opened = 0 /\ visited = {url}
    BY DEF B!Init
  <1>5. PagesTyped
    BY <1>1, <1>2, <1>3, <1>4 DEF PagesTyped
  <1>6. LoadsSound /\ ViewSound
    <2>1. LoadsSound
      BY <1>4 DEF LoadsSound
    <2>2. ViewSound
      BY <1>1 DEF ViewSound
    <2> QED
      BY <2>1, <2>2
  <1> QED
    BY <1>5, <1>6 DEF DetailInv

\* Another address is opened: the loads there are die, and a new one begins.
LEMMA OpenKeeps ==
    ASSUME DetailInv, NEW u \in B!Urls, B!Open(u)
    PROVE  DetailInv'
  <1> DEFINE new == [n |-> opened + 1, at |-> u, live |-> TRUE, mounted |-> TRUE, answer |-> "none"]
  <1>1. /\ url' = u /\ u # url /\ u.page # "discovery" /\ visited' = visited \cup {u}
        /\ opened' = opened + 1 /\ opened' \in 1 .. MaxLoads
        /\ loads' = {B!Left(l, u) : l \in loads} \cup {new}
        /\ view' = IF u.page = url.page THEN B!Again(u) ELSE B!Mounted
    <2>1. opened < MaxLoads /\ opened' = opened + 1 /\ opened \in 0 .. MaxLoads /\ MaxLoads \in Nat
      BY PagesConstants DEF DetailInv, PagesTyped, B!Open, B!BrowseAssumption
    <2>2. opened' \in 1 .. MaxLoads
      BY <2>1
    <2> QED
      BY <2>1, <2>2 DEF B!Open, B!Reachable
  <1>2. u.page \in {"album", "artist", "playlist"} /\ url.page \in {"album", "artist", "playlist", "discovery"}
    BY <1>1, PageKinds DEF DetailInv, PagesTyped
  <1>3. new \in B!Load /\ new.n = opened' /\ new.live /\ new.at = u /\ new.mounted
    BY <1>1 DEF B!Load
  <1>4. ASSUME NEW l \in loads
        PROVE  /\ B!Left(l, u) \in B!Load /\ B!Left(l, u).n = l.n /\ B!Left(l, u).at = l.at
               /\ ~B!Left(l, u).live
               /\ B!Left(l, u).mounted => l.mounted /\ u.page = l.at.page
    <2>1. l \in B!Load
      BY DEF DetailInv, PagesTyped
    <2> DEFINE m == [l EXCEPT !.live = FALSE]
    <2>2. m \in B!Load /\ m.n = l.n /\ m.at = l.at /\ ~m.live /\ m.mounted = l.mounted
      BY <2>1 DEF B!Load
    <2>3. B!Left(l, u) = [m EXCEPT !.mounted = l.mounted /\ u.page = l.at.page]
      BY <2>1 DEF B!Left, B!Load
    <2> HIDE DEF m
    <2> QED
      BY <2>2, <2>3 DEF B!Load
  <1>5. view' \in B!View /\ (u.page # url.page => view' = B!Mounted)
    <2>1. B!Mounted \in B!View
      BY DEF B!Mounted, B!View, B!None
    <2>2. view \in B!View
      BY DEF DetailInv, PagesTyped
    <2>3. B!Again(u) \in B!View
      BY <2>2 DEF B!Again, B!View
    <2> QED
      BY <1>1, <2>1, <2>3
  <1>6. u.page = url.page => /\ view'.reused
                             /\ view'.loading \/ u.page = "album"
    <2>1. view \in B!View
      BY DEF DetailInv, PagesTyped
    <2> QED
      BY <1>1, <2>1 DEF B!Again, B!View
  <1>7. B!Mounted.data = B!None /\ B!Mounted.loading
    BY DEF B!Mounted
  <1> HIDE DEF new
  <1>8. PagesTyped'
    <2>1. \A l \in loads : l.n <= opened /\ l.n \in Nat
      BY DEF DetailInv, PagesTyped, LoadsSound, B!Load
    <2>2. \A l, m \in loads' : l.n = m.n => l = m
      <3> SUFFICES ASSUME NEW l \in loads', NEW m \in loads', l.n = m.n PROVE l = m
        OBVIOUS
      <3>1. CASE l = new \/ m = new
        BY <1>1, <1>3, <1>4, <2>1, <3>1 DEF DetailInv, PagesTyped
      <3>2. CASE l # new /\ m # new
        <4>1. PICK k \in loads : l = B!Left(k, u)
          BY <1>1, <3>2
        <4>2. PICK j \in loads : m = B!Left(j, u)
          BY <1>1, <3>2
        <4>3. k.n = j.n
          BY <1>4, <4>1, <4>2
        <4>4. k = j
          BY <4>3 DEF DetailInv, PagesTyped
        <4> QED
          BY <4>1, <4>2, <4>4
      <3> QED
        BY <3>1, <3>2
    <2> QED
      BY <1>1, <1>3, <1>4, <1>5, <2>2 DEF DetailInv, PagesTyped
  <1>9. LoadsSound'
    <2> SUFFICES ASSUME NEW l \in loads'
                 PROVE  /\ l.n <= opened'
                        /\ l.live => l.at = url' /\ l.mounted
                        /\ l.mounted => l.at.page = url'.page
                        /\ l.mounted /\ url'.page = "album" /\ ~view'.reused => l.at = url'
      BY DEF LoadsSound
    <2>1. CASE l = new
      BY <1>1, <1>3, <2>1
    <2>2. CASE l # new
      <3>1. PICK k \in loads : l = B!Left(k, u)
        BY <1>1, <2>2
      <3>2. l.n <= opened'
        BY <1>1, <1>4, <3>1 DEF DetailInv, PagesTyped, LoadsSound, B!Load
      <3>3. l.mounted => u.page = url.page
        BY <1>4, <3>1 DEF DetailInv, LoadsSound
      <3> QED
        BY <1>1, <1>4, <1>6, <3>1, <3>2, <3>3
    <2> QED
      BY <2>1, <2>2
  <1>10. ViewSound'
    <2>1. \E l \in loads' : l.at = url' /\ l.live
      BY <1>1, <1>3
    <2> QED
      BY <1>1, <1>2, <1>5, <1>6, <1>7, <2>1 DEF ViewSound
  <1> QED
    BY <1>8, <1>9, <1>10 DEF DetailInv

\* An answer changes a load in nothing else.
LEMMA AnswerKeeps ==
    ASSUME DetailInv, NEW l \in loads, B!Answer(l)
    PROVE  DetailInv'
  <1>1. PICK how \in {"ok", "error"} : loads' = (loads \ {l}) \cup {[l EXCEPT !.answer = how]}
    BY DEF B!Answer
  <1> DEFINE m == [l EXCEPT !.answer = how]
  <1>2. l \in B!Load
    BY DEF DetailInv, PagesTyped
  <1>3. m \in B!Load /\ m.n = l.n /\ m.at = l.at /\ m.live = l.live /\ m.mounted = l.mounted
    BY <1>2 DEF B!Load
  <1> HIDE DEF m
  <1>4. loads' = (loads \ {l}) \cup {m}
    BY <1>1 DEF m
  <1>5. url' = url /\ visited' = visited /\ view' = view /\ opened' = opened
    BY DEF B!Answer
  <1> QED
    BY <1>3, <1>4, <1>5 DEF DetailInv, PagesTyped, LoadsSound, ViewSound

\* A load that is taken up is no longer there; the others are as they were.
LEMMA LoadedKeeps ==
    ASSUME DetailInv, NEW l \in loads,
           B!AlbumLoaded(l) \/ B!ArtistLoaded(l) \/ B!PlaylistLoaded(l)
    PROVE  DetailInv'
  <1>1. /\ url' = url /\ visited' = visited /\ opened' = opened /\ loads' = loads \ {l}
        /\ view \in B!View /\ l \in B!Load /\ l.at.id \in Ids \cup {B!None}
    BY DEF B!AlbumLoaded, B!ArtistLoaded, B!PlaylistLoaded, DetailInv, PagesTyped, B!Load, B!Urls
  <1>2. CASE view' = view /\ ~l.live
    BY <1>1, <1>2 DEF DetailInv, PagesTyped, LoadsSound, ViewSound
  <1>3. CASE l.mounted /\ B!AlbumLoaded(l)
    <2>1. /\ view' \in B!View /\ ~view'.loading /\ view'.reused = view.reused
          /\ view'.data \in {view.data, l.at.id}
      BY <1>1, <1>3 DEF B!AlbumLoaded, B!View
    <2>2. url.page = "album" /\ (~view.reused => l.at = url)
      BY <1>3 DEF B!AlbumLoaded, DetailInv, LoadsSound
    <2> QED
      BY <1>1, <2>1, <2>2 DEF DetailInv, PagesTyped, LoadsSound, ViewSound
  <1>4. CASE l.live /\ (B!ArtistLoaded(l) \/ B!PlaylistLoaded(l))
    <2>1. /\ view' \in B!View /\ ~view'.loading /\ view'.reused = view.reused
          /\ ~view'.error => view'.data = l.at.id
      <3>1. CASE B!ArtistLoaded(l)
        BY <1>1, <1>4, <3>1 DEF B!ArtistLoaded, B!View
      <3>2. CASE B!PlaylistLoaded(l)
        BY <1>1, <1>4, <3>2 DEF B!PlaylistLoaded, B!View, B!None
      <3> QED
        BY <1>4, <3>1, <3>2
    <2>2. url.page \in {"artist", "playlist"} /\ l.at = url
      BY <1>4 DEF B!ArtistLoaded, B!PlaylistLoaded, DetailInv, LoadsSound
    <2> QED
      BY <1>1, <2>1, <2>2 DEF DetailInv, PagesTyped, LoadsSound, ViewSound
  <1> QED
    BY <1>2, <1>3, <1>4 DEF B!AlbumLoaded, B!ArtistLoaded, B!PlaylistLoaded, DetailInv, LoadsSound

LEMMA DetailKept == DetailInv /\ [B!Next]_(B!vars) => DetailInv'
  <1> SUFFICES ASSUME DetailInv, [B!Next]_(B!vars) PROVE DetailInv'
    OBVIOUS
  <1>1. CASE UNCHANGED B!pages
    BY <1>1 DEF B!pages, DetailInv, PagesTyped, LoadsSound, ViewSound
  <1>2. ASSUME NEW u \in B!Urls, B!Open(u) PROVE DetailInv'
    BY <1>2, OpenKeeps
  <1>3. ASSUME NEW l \in loads,
               B!Answer(l) \/ B!AlbumLoaded(l) \/ B!ArtistLoaded(l) \/ B!PlaylistLoaded(l)
        PROVE  DetailInv'
    BY <1>3, AnswerKeeps, LoadedKeeps
  <1>4. B!Reading \/ UNCHANGED B!vars => UNCHANGED B!pages
    BY DEF B!Reading, B!Import, B!CountTracks, B!ListTracks, B!ReadFails, B!Reread, B!vars
  <1> QED
    BY <1>1, <1>2, <1>3, <1>4 DEF B!Next, B!Browsing

-----------------------------------------------------------------------------
(* The reading of the library *)

LEMMA PageSizeType == TracksPerPage \in Nat \ {0} /\ MaxTracks \in Nat \ {0}
  BY PagesConstants DEF B!BrowseAssumption

\* So many pages hold so many tracks, and none of them is empty.
LEMMA PagesHold ==
    ASSUME NEW c \in Nat, NEW p \in Nat, p >= B!PagesOf(c)
    PROVE  p * TracksPerPage >= c
  <1> DEFINE s == TracksPerPage
             q == (c + s - 1) \div s
  <1>1. s \in Nat \ {0}
    BY PageSizeType
  <1> HIDE DEF s
  <1>2. q \in Nat /\ q * s > (c + s - 1) - s
    BY <1>1
  <1>3. p >= q
    BY DEF B!PagesOf, s
  <1> HIDE DEF q
  <1>4. p * s >= q * s
    BY <1>1, <1>2, <1>3
  <1>5. q * s \in Nat /\ p * s \in Nat
    BY <1>1, <1>2
  <1> QED
    BY <1>1, <1>2, <1>4, <1>5 DEF s

LEMMA PagesFew ==
    ASSUME NEW c \in Nat
    PROVE  B!PagesOf(c) \in Nat /\ B!PagesOf(c) <= c
  <1> DEFINE s == TracksPerPage
             q == (c + s - 1) \div s
  <1>1. s \in Nat \ {0}
    BY PageSizeType
  <1> HIDE DEF s
  <1>2. q \in Nat /\ q * s <= c + s - 1
    BY <1>1
  <1>3. q = B!PagesOf(c)
    BY DEF B!PagesOf, s
  <1> HIDE DEF q
  <1>4. ~(q > c)
    <2> SUFFICES ASSUME q >= c + 1 PROVE FALSE
      BY <1>2
    <2>1. q * s >= (c + 1) * s
      BY <1>1, <1>2
    <2>2. (c + 1) * s = c * s + s /\ c * s >= c /\ c * s \in Nat
      BY <1>1
    <2>3. q * s \in Nat
      BY <1>1, <1>2
    <2> QED
      BY <1>1, <1>2, <2>1, <2>2, <2>3
  <1> QED
    BY <1>2, <1>3, <1>4

\* A page of the list holds the tracks at its places, the newest first.
RowsSound(n, from, p) ==
    /\ B!Rows(n, p) \in Seq(1 .. MaxTracks)
    /\ Len(B!Rows(n, p)) = IF from >= n THEN 0 ELSE B!Lesser(TracksPerPage, n - from)
    /\ \A t \in 1 .. n : t <= n - from /\ t > n - from - TracksPerPage =>
         \E i \in 1 .. Len(B!Rows(n, p)) : B!Rows(n, p)[i] = t

LEMMA RowsListed ==
    ASSUME NEW n \in 1 .. MaxTracks, NEW from \in Nat, NEW p \in Nat, from = (p - 1) * TracksPerPage
    PROVE  RowsSound(n, from, p)
  <1> DEFINE k == B!Lesser(TracksPerPage, n - from)
             row(i) == n - from - (i - 1)
  <1>1. TracksPerPage \in Nat \ {0} /\ MaxTracks \in Nat /\ n \in Nat /\ n >= 1 /\ n <= MaxTracks
    BY PageSizeType
  <1>2. CASE from >= n
    <2>1. B!Rows(n, p) = << >>
      BY <1>2 DEF B!Rows
    <2> QED
      BY <1>1, <1>2, <2>1 DEF RowsSound
  <1>3. CASE ~(from >= n)
    <2>1. B!Rows(n, p) = [i \in 1 .. k |-> row(i)]
      BY <1>3 DEF B!Rows
    <2>2. k \in Nat /\ k <= n - from /\ (k = TracksPerPage \/ k = n - from)
      BY <1>1, <1>3 DEF B!Lesser
    <2> HIDE DEF k
    <2>3. \A i \in 1 .. k : row(i) \in 1 .. MaxTracks
      BY <1>1, <1>3, <2>2
    <2>4. [i \in 1 .. k |-> row(i)] \in Seq(1 .. MaxTracks) /\ Len([i \in 1 .. k |-> row(i)]) = k
      BY <2>2, <2>3
    <2>5. ASSUME NEW t \in 1 .. n, t <= n - from, t > n - from - TracksPerPage
          PROVE  \E i \in 1 .. k : row(i) = t
      <3>1. n - from - t + 1 \in 1 .. k /\ row(n - from - t + 1) = t
        BY <1>1, <2>2, <2>5
      <3> QED
        BY <3>1
    <2>6. \A i \in 1 .. k : B!Rows(n, p)[i] = row(i)
      BY <2>1
    <2>7. Len(B!Rows(n, p)) = k
      BY <2>1, <2>4
    <2> HIDE DEF row
    <2> QED
      BY <1>3, <2>1, <2>4, <2>5, <2>6, <2>7 DEF k, RowsSound
  <1> QED
    BY <1>2, <1>3

\* What has been read so far: the tracks at the places of the pages before this one.
ReaderInv ==
    /\ size \in 1 .. MaxTracks /\ reader \in B!Reader /\ reader.start <= size
    /\ reader.step \in {"ask", "counted"} =>
         /\ reader.page <= MaxTracks
         /\ \A t \in 1 .. reader.start :
              t > size - (reader.page - 1) * TracksPerPage =>
                \E i \in 1 .. Len(reader.got) : reader.got[i] = t
         /\ size = reader.start =>
              Len(reader.got) = B!Lesser((reader.page - 1) * TracksPerPage, size)
    /\ reader.step = "counted" =>
         /\ reader.start <= reader.counted /\ reader.counted <= size
         /\ ~reader.crossed => reader.counted = size
    /\ reader.step = "done" =>
         /\ ~reader.crossed =>
              \A t \in 1 .. reader.start : \E i \in 1 .. Len(reader.got) : reader.got[i] = t
         /\ size = reader.start => Len(reader.got) = size

LEMMA ReaderLists == ReaderInv => B!EveryTrackListed
  <1> SUFFICES ASSUME ReaderInv PROVE B!EveryTrackListed
    OBVIOUS
  <1>1. reader.got \in Seq(1 .. MaxTracks)
    BY DEF ReaderInv, B!Reader
  <1>2. ASSUME reader.step = "done", ~reader.crossed
        PROVE  1 .. reader.start \subseteq B!ToSet(reader.got)
    BY <1>1, <1>2 DEF ReaderInv, B!ToSet
  <1>3. reader.step = "done" /\ size = reader.start => Len(reader.got) = size
    BY DEF ReaderInv
  <1> QED
    BY <1>2, <1>3 DEF B!EveryTrackListed

\* A reading begins with nothing.
LEMMA ReaderStart ==
    ASSUME NEW who \in {"discovery", "prewarm"}, size \in 1 .. MaxTracks,
           NEW n, n = size, reader = B!Start(who, n)
    PROVE  ReaderInv
  <1>1. MaxTracks \in Nat \ {0} /\ TracksPerPage \in Nat \ {0}
    BY PageSizeType
  <1>2. << >> \in Seq(1 .. MaxTracks) /\ Len(<< >>) = 0
    OBVIOUS
  <1>3. reader \in B!Reader
    BY <1>1, <1>2 DEF B!Start, B!Reader
  <1>4. /\ reader.step = "ask" /\ reader.page = 1 /\ reader.start = size /\ reader.got = << >>
    BY DEF B!Start
  <1>5. (reader.page - 1) * TracksPerPage = 0
    BY <1>1, <1>4
  <1> QED
    BY <1>1, <1>2, <1>3, <1>4, <1>5 DEF ReaderInv, B!Lesser

\* What a step makes of the reader, field by field.
LEMMA ReaderFields ==
    ASSUME reader \in B!Reader
    PROVE  /\ reader.who \in {"discovery", "prewarm"}
           /\ reader.step \in {"ask", "counted", "done", "failed"}
           /\ reader.page \in 1 .. MaxTracks + 1 /\ reader.pages \in 1 .. MaxTracks + 1
           /\ reader.counted \in 0 .. MaxTracks /\ reader.start \in 0 .. MaxTracks
           /\ reader.got \in Seq(1 .. MaxTracks) /\ reader.crossed \in BOOLEAN
           /\ \A c \in BOOLEAN :
                LET m == [reader EXCEPT !.crossed = c] IN
                /\ m \in B!Reader /\ m.step = reader.step /\ m.page = reader.page
                /\ m.counted = reader.counted /\ m.start = reader.start
                /\ m.got = reader.got /\ m.crossed = c
           /\ \A s \in {"ask", "counted", "done", "failed"} :
                LET m == [reader EXCEPT !.step = s] IN
                /\ m \in B!Reader /\ m.step = s /\ m.page = reader.page
                /\ m.counted = reader.counted /\ m.start = reader.start
                /\ m.got = reader.got /\ m.crossed = reader.crossed
  BY DEF B!Reader

LEMMA ImportKeeps == ASSUME ReaderInv, B!Import PROVE ReaderInv'
  <1> DEFINE c == reader.step = "counted" \/ reader.crossed
  <1>1. /\ reader' \in B!Reader /\ reader'.step = reader.step /\ reader'.page = reader.page
        /\ reader'.counted = reader.counted /\ reader'.start = reader.start
        /\ reader'.got = reader.got /\ reader'.crossed = c
    <2>1. c \in BOOLEAN /\ reader' = [reader EXCEPT !.crossed = c]
      BY DEF B!Import
    <2> HIDE DEF c
    <2> QED
      BY <2>1, ReaderFields DEF ReaderInv
  <1>2. /\ size' = size + 1 /\ size' \in 1 .. MaxTracks /\ size \in Nat
        /\ reader.start \in Nat /\ reader.start <= size
    BY PageSizeType, ReaderFields DEF B!Import, ReaderInv
  <1>3. size' # reader'.start /\ reader'.start <= size'
    BY <1>1, <1>2
  <1>4. CASE reader.step = "ask" \/ reader.step = "counted"
    <2>1. (reader.page - 1) * TracksPerPage \in Nat
      <3>1. reader.page \in Nat \ {0} /\ TracksPerPage \in Nat /\ MaxTracks \in Nat
        BY PageSizeType, ReaderFields DEF ReaderInv
      <3> QED
        BY <3>1
    <2>2. ASSUME NEW t \in 1 .. reader.start, t > size' - (reader.page - 1) * TracksPerPage
          PROVE  \E i \in 1 .. Len(reader.got) : reader.got[i] = t
      <3>1. t > size - (reader.page - 1) * TracksPerPage
        BY <1>2, <2>1, <2>2
      <3> QED
        BY <1>4, <3>1 DEF ReaderInv
    <2>3. reader.page <= MaxTracks
      BY <1>4 DEF ReaderInv
    <2>4. reader.step = "counted" => /\ reader.start <= reader.counted /\ reader.counted <= size'
                                     /\ reader'.crossed
      <3> SUFFICES ASSUME reader.step = "counted"
                   PROVE  /\ reader.start <= reader.counted /\ reader.counted <= size'
                          /\ reader'.crossed
        OBVIOUS
      <3>1. /\ reader.counted \in Nat /\ reader.start <= reader.counted
            /\ reader.counted <= size
        BY ReaderFields DEF ReaderInv
      <3>2. reader'.crossed
        BY <1>1
      <3> QED
        BY <1>2, <3>1, <3>2
    <2> HIDE DEF c
    <2>5. ReaderInv => reader'.step \in {"ask", "counted"}
      BY <1>1, <1>4
    <2>6. \A t \in 1 .. reader'.start :
            t > size' - (reader'.page - 1) * TracksPerPage =>
              \E i \in 1 .. Len(reader'.got) : reader'.got[i] = t
      BY <1>1, <2>2
    <2>7. reader'.step = "counted" => /\ reader'.start <= reader'.counted /\ reader'.counted <= size'
                                      /\ reader'.crossed
      BY <1>1, <2>4
    <2>8. reader'.page <= MaxTracks
      BY <1>1, <2>3
    <2> QED
      BY <1>1, <1>2, <1>3, <2>5, <2>6, <2>7, <2>8 DEF ReaderInv
  <1>5. CASE reader.step = "done"
    BY <1>1, <1>2, <1>3, <1>5 DEF ReaderInv
  <1>6. CASE reader.step = "failed"
    BY <1>1, <1>2, <1>3, <1>6 DEF ReaderInv
  <1> QED
    BY <1>4, <1>5, <1>6, ReaderFields DEF ReaderInv

LEMMA CountKeeps == ASSUME ReaderInv, B!CountTracks PROVE ReaderInv'
  <1>1. /\ reader' \in B!Reader /\ reader'.step = "counted" /\ reader'.page = reader.page
        /\ reader'.counted = size /\ reader'.start = reader.start
        /\ reader'.got = reader.got /\ reader'.crossed = FALSE
    <2>1. reader \in B!Reader /\ size \in 0 .. MaxTracks
      BY PageSizeType DEF ReaderInv
    <2> QED
      BY <2>1 DEF B!CountTracks, B!Reader
  <1>2. size' = size /\ reader.step = "ask" /\ size \in Nat
    BY PageSizeType DEF B!CountTracks, ReaderInv
  <1> QED
    BY <1>1, <1>2 DEF ReaderInv

LEMMA ReadFailsKeeps == ASSUME ReaderInv, B!ReadFails PROVE ReaderInv'
  <1>1. /\ reader' \in B!Reader /\ reader'.step = "failed" /\ reader'.start = reader.start
        /\ size' = size
    BY DEF B!ReadFails, B!Reader, ReaderInv
  <1> QED
    BY <1>1 DEF ReaderInv

LEMMA RereadKeeps ==
    ASSUME ReaderInv, NEW who \in {"discovery", "prewarm"}, B!Reread(who)
    PROVE  ReaderInv'
  <1>1. size' = size /\ size \in 1 .. MaxTracks /\ reader' = B!Start(who, size)
    BY DEF B!Reread, ReaderInv
  <1>2. MaxTracks \in Nat \ {0} /\ TracksPerPage \in Nat \ {0}
    BY PageSizeType
  <1>3. << >> \in Seq(1 .. MaxTracks) /\ Len(<< >>) = 0
    OBVIOUS
  <1>4. reader' \in B!Reader
    BY <1>1, <1>2, <1>3 DEF B!Start, B!Reader
  <1>5. /\ reader'.step = "ask" /\ reader'.page = 1 /\ reader'.start = size /\ reader'.got = << >>
    BY <1>1 DEF B!Start
  <1>6. (reader'.page - 1) * TracksPerPage = 0
    BY <1>2, <1>5
  <1> QED
    BY <1>1, <1>2, <1>3, <1>4, <1>5, <1>6 DEF ReaderInv, B!Lesser

\* The next page continues where the last one ended.
LEMMA ListKeeps == ASSUME ReaderInv, B!ListTracks PROVE ReaderInv'
  <1> DEFINE n == B!PagesToRead(reader)
             from == (reader.page - 1) * TracksPerPage
             rows == B!Rows(size, reader.page)
             all == reader.got \o rows
             step == IF reader.page < n THEN "ask" ELSE "done"
  <1>1. /\ reader.step = "counted" /\ size' = size /\ size \in 1 .. MaxTracks
        /\ reader.page \in Nat /\ reader.page >= 1 /\ reader.page <= MaxTracks
        /\ reader.counted \in Nat /\ reader.counted <= size
        /\ reader.start \in Nat /\ reader.start <= reader.counted
        /\ reader.got \in Seq(1 .. MaxTracks)
        /\ TracksPerPage \in Nat \ {0} /\ MaxTracks \in Nat /\ size \in Nat
    BY PageSizeType, ReaderFields DEF ReaderInv, B!ListTracks
  <1>2. from \in Nat /\ reader.page * TracksPerPage = from + TracksPerPage
    <2>1. \A p, s \in Nat : p >= 1 =>
            (p - 1) * s \in Nat /\ p * s = (p - 1) * s + s
      OBVIOUS
    <2> QED
      BY <1>1, <2>1
  <1>3. /\ rows \in Seq(1 .. MaxTracks)
        /\ Len(rows) = IF from >= size THEN 0 ELSE B!Lesser(TracksPerPage, size - from)
        /\ \A t \in 1 .. size : t <= size - from /\ t > size - from - TracksPerPage =>
             \E i \in 1 .. Len(rows) : rows[i] = t
    <2>1. /\ size \in 1 .. MaxTracks /\ reader.page \in Nat
          /\ from \in Nat /\ from = (reader.page - 1) * TracksPerPage
      BY <1>1, <1>2
    <2> HIDE DEF from, rows
    <2>2. RowsSound(size, from, reader.page)
      BY <2>1, RowsListed
    <2> QED
      BY <2>2 DEF RowsSound, rows
  <1>4. n \in Nat /\ (reader.page < n => n <= reader.counted) /\ n >= B!PagesOf(reader.counted) /\ n >= 1
        /\ n <= MaxTracks
    <2>1. B!PagesOf(reader.counted) \in Nat /\ B!PagesOf(reader.counted) <= reader.counted
      BY <1>1, PagesFew
    <2> QED
      BY <1>1, <2>1 DEF B!PagesToRead, B!Larger
  <1> HIDE DEF n, rows
  <1>5. /\ all \in Seq(1 .. MaxTracks) /\ Len(all) = Len(reader.got) + Len(rows)
        /\ \A i \in 1 .. Len(reader.got) : all[i] = reader.got[i]
        /\ \A i \in 1 .. Len(rows) : all[Len(reader.got) + i] = rows[i]
    <2>1. reader.got \in Seq(1 .. MaxTracks) /\ rows \in Seq(1 .. MaxTracks)
      BY <1>1, <1>3
    <2> DEFINE first == reader.got
               last == 1 .. MaxTracks
    <2>2. first \in Seq(last) /\ rows \in Seq(last) /\ all = first \o rows
      BY <2>1
    <2> HIDE DEF first, last, all
    <2>3. /\ all \in Seq(last) /\ Len(all) = Len(first) + Len(rows)
          /\ \A i \in 1 .. Len(first) : all[i] = first[i]
          /\ \A i \in 1 .. Len(rows) : all[Len(first) + i] = rows[i]
      BY <2>2
    <2> QED
      BY <2>3 DEF first, last
  <1>6. reader' = [reader EXCEPT !.got = all, !.pages = n, !.page = reader.page + 1, !.step = step]
    BY <1>1 DEF B!ListTracks, n, rows
  <1> HIDE DEF all
  <1>7. /\ reader' \in B!Reader /\ reader'.step = step /\ reader'.page = reader.page + 1
        /\ reader'.got = all /\ reader'.start = reader.start /\ reader'.counted = reader.counted
        /\ reader'.crossed = reader.crossed
    <2>1. reader \in B!Reader /\ n \in 1 .. MaxTracks + 1 /\ reader.page + 1 \in 1 .. MaxTracks + 1
      BY <1>1, <1>4 DEF ReaderInv
    <2>2. step \in {"ask", "counted", "done", "failed"}
      OBVIOUS
    <2> HIDE DEF step
    <2> QED
      BY <1>5, <1>6, <2>1, <2>2 DEF B!Reader
  <1>8. ASSUME NEW t \in 1 .. reader.start, t > size - reader.page * TracksPerPage
        PROVE  \E i \in 1 .. Len(all) : all[i] = t
    <2>1. CASE t > size - from
      <3>1. PICK i \in 1 .. Len(reader.got) : reader.got[i] = t
        BY <1>1, <2>1 DEF ReaderInv
      <3>2. Len(reader.got) \in Nat /\ Len(rows) \in Nat
        BY <1>1, <1>3
      <3>3. i \in 1 .. Len(all) /\ all[i] = t
        BY <1>5, <3>1, <3>2
      <3> QED
        BY <3>3
    <2>2. CASE ~(t > size - from)
      <3>1. t \in 1 .. size /\ t <= size - from /\ t > size - from - TracksPerPage
        <4> DEFINE next == reader.page * TracksPerPage
        <4>1. t > size - next /\ next = from + TracksPerPage
          BY <1>2, <1>8
        <4>2. t \in Nat /\ t >= 1 /\ t <= size /\ size \in Nat /\ TracksPerPage \in Nat
          BY <1>1
        <4>3. from \in Nat /\ ~(t > size - from)
          BY <1>2, <2>2
        <4> HIDE DEF next, from
        <4> QED
          BY <4>1, <4>2, <4>3
      <3>2. PICK i \in 1 .. Len(rows) : rows[i] = t
        BY <1>3, <3>1
      <3>3. Len(reader.got) \in Nat /\ Len(rows) \in Nat
        BY <1>1, <1>3
      <3>4. Len(reader.got) + i \in 1 .. Len(all) /\ all[Len(reader.got) + i] = t
        BY <1>5, <3>2, <3>3
      <3> QED
        BY <3>4
    <2> QED
      BY <2>1, <2>2
  <1>9. size = reader.start => Len(all) = B!Lesser(reader.page * TracksPerPage, size)
    <2>1. SUFFICES ASSUME size = reader.start
                   PROVE  Len(all) = B!Lesser(reader.page * TracksPerPage, size)
      OBVIOUS
    <2>2. Len(reader.got) = B!Lesser(from, size)
      BY <1>1, <2>1 DEF ReaderInv
    <2> DEFINE next == reader.page * TracksPerPage
    <2>3. from \in Nat /\ next = from + TracksPerPage
      BY <1>2
    <2>4. size \in Nat /\ TracksPerPage \in Nat
      BY <1>1
    <2> HIDE DEF from, next
    <2>5. Len(all) = B!Lesser(next, size)
      BY <1>3, <1>5, <2>2, <2>3, <2>4 DEF B!Lesser
    <2> QED
      BY <2>5 DEF next
  <1>10. reader'.page - 1 = reader.page
    BY <1>1, <1>7
  <1>11. CASE reader.page < n
    <2>1. reader'.page <= MaxTracks
      BY <1>1, <1>4, <1>7, <1>11
    <2>2. reader'.step = "ask"
      BY <1>7, <1>11
    <2> QED
      BY <1>1, <1>7, <1>8, <1>9, <1>10, <2>1, <2>2 DEF ReaderInv
  <1>12. CASE ~(reader.page < n)
    <2>1. reader'.step = "done"
      BY <1>7, <1>12
    <2>2. reader.page * TracksPerPage >= reader.counted
      <3>1. reader.page >= B!PagesOf(reader.counted)
        <4>1. B!PagesOf(reader.counted) \in Nat
          BY <1>1, PagesFew
        <4> QED
          BY <1>1, <1>4, <1>12, <4>1
      <3> QED
        BY <1>1, <3>1, PagesHold
    <2>3. ASSUME ~reader.crossed, NEW t \in 1 .. reader.start
          PROVE  \E i \in 1 .. Len(all) : all[i] = t
      <3>1. reader.counted = size
        BY <1>1, <2>3 DEF ReaderInv
      <3>2. t > size - reader.page * TracksPerPage
        BY <1>1, <1>2, <2>2, <3>1
      <3> QED
        BY <1>8, <3>2
    <2>4. size = reader.start => Len(all) = size
      <3>1. size = reader.start => reader.counted = size
        BY <1>1
      <3> QED
        BY <1>1, <1>2, <1>9, <2>2, <3>1 DEF B!Lesser
    <2> QED
      BY <1>1, <1>7, <2>1, <2>3, <2>4 DEF ReaderInv
  <1> QED
    BY <1>11, <1>12

LEMMA ReaderInit == B!Init => ReaderInv
  <1> SUFFICES ASSUME B!Init PROVE ReaderInv
    OBVIOUS
  <1>1. size = 1 /\ reader = B!Start("discovery", 1) /\ size \in 1 .. MaxTracks
    BY PageSizeType DEF B!Init
  <1> QED
    BY <1>1, ReaderStart

LEMMA ReaderKept == ReaderInv /\ [B!Next]_(B!vars) => ReaderInv'
  <1> SUFFICES ASSUME ReaderInv, [B!Next]_(B!vars) PROVE ReaderInv'
    OBVIOUS
  <1>1. CASE B!Reading
    BY <1>1, ImportKeeps, CountKeeps, ListKeeps, ReadFailsKeeps, RereadKeeps DEF B!Reading
  <1>2. CASE UNCHANGED B!library
    BY <1>2 DEF B!library, ReaderInv
  <1>3. B!Browsing \/ UNCHANGED B!vars => UNCHANGED B!library
    BY DEF B!Browsing, B!Open, B!Answer, B!AlbumLoaded, B!ArtistLoaded, B!PlaylistLoaded, B!vars
  <1> QED
    BY <1>1, <1>2, <1>3 DEF B!Next

-----------------------------------------------------------------------------
(* The names of the tracks *)

\* A call that has no answer for the artist is waiting for one, has lost one, or did not
\* need one; an answer is of a version that is no older than the call.
Heard(c) ==
    /\ c \in N!Call /\ c.from.artist <= artist
    /\ c.has.artist <= MaxEdits + 1
    /\ c.has.artist # N!Absent => c.from.artist <= c.has.artist
    /\ "artist" \notin c.wants /\ c.has.artist = N!Absent =>
         lost > 0 \/ \A t \in c.of : tags[t].artist # N!Absent

\* What the rows say of a track once the call c has its answers.
Completed(c, t) ==
    [artist |-> N!Named(c.has.artist, tags[t].artist, N!Unknown),
     album |-> N!Named(c.has.album, tags[t].album, N!Unknown),
     cover |-> N!Named(c.has.album, tags[t].cover, N!Absent)]

NamesInv ==
    /\ \A t \in Ids : tags[t].artist \in {0, 1} /\ tags[t].album \in {0, 1}
                      /\ tags[t].cover \in {0, tags[t].album}
    /\ artist \in N!Version /\ album \in N!Version /\ lost \in Nat
    /\ Heard(call) /\ Heard(named.call) /\ named.call.wants = {}
    /\ \A t \in named.call.of : named.row[t] = Completed(named.call, t)

LEMMA NamesTypes ==
    /\ MaxEdits \in Nat /\ N!Absent = 0 /\ N!Unknown = MaxEdits + 2
    /\ N!Version = 1 .. MaxEdits + 1
    /\ N!Name = N!Version \cup {0, MaxEdits + 2}
  BY PagesConstants DEF N!NamesAssumption, N!Absent, N!Unknown, N!Version, N!Name

LEMMA NamesSay == NamesInv => N!NamesHaveSource
  <1> SUFFICES ASSUME NamesInv PROVE N!NamesHaveSource
    OBVIOUS
  <1> DEFINE c == named.call
             has == c.has.artist
             title == c.has.album
  <1>1. /\ has \in Nat /\ has <= MaxEdits + 1 /\ c.of \subseteq Ids
        /\ has # 0 => c.from.artist <= has
        /\ has = 0 => lost > 0 \/ \A t \in c.of : tags[t].artist # 0
        /\ c.from.artist \in Nat
    BY NamesTypes DEF NamesInv, Heard, N!Call
  <1>2. ASSUME NEW t \in c.of
        PROVE  /\ named.row[t].artist = IF has # 0 THEN has ELSE
                    IF tags[t].artist # 0 THEN tags[t].artist ELSE MaxEdits + 2
               /\ named.row[t].album = IF title # 0 THEN title ELSE
                    IF tags[t].album # 0 THEN tags[t].album ELSE MaxEdits + 2
               /\ named.row[t].cover = IF title # 0 THEN title ELSE
                    IF tags[t].cover # 0 THEN tags[t].cover ELSE 0
    <2>1. named.row[t] = Completed(c, t)
      BY <1>2 DEF NamesInv
    <2>2. /\ named.row[t].artist = N!Named(has, tags[t].artist, N!Unknown)
          /\ named.row[t].album = N!Named(title, tags[t].album, N!Unknown)
          /\ named.row[t].cover = N!Named(title, tags[t].cover, N!Absent)
      BY <2>1 DEF Completed
    <2> HIDE DEF c, has, title
    <2> QED
      BY <2>2, NamesTypes DEF N!Named
  <1>3. \A t \in c.of : tags[t].artist \in {0, 1} /\ tags[t].album \in {0, 1}
                        /\ tags[t].cover \in {0, tags[t].album}
    BY <1>1 DEF NamesInv
  <1> HIDE DEF has, title
  <1> SUFFICES ASSUME NEW t \in c.of
               PROVE  /\ c.how \in {"get", "update"} /\ has # 0 =>
                           named.row[t].artist >= c.from.artist
                      /\ named.row[t].artist = MaxEdits + 2 => tags[t].artist = 0 /\ lost > 0
                      /\ \A u \in c.of : tags[t].artist = tags[u].artist =>
                           named.row[u].artist = named.row[t].artist
                      /\ \A u \in c.of : has # 0 => named.row[u].artist = named.row[t].artist
                      /\ named.row[t].album # MaxEdits + 2 /\ named.row[t].cover # 0 =>
                           named.row[t].cover = named.row[t].album
    BY NamesTypes DEF N!NamesHaveSource, has
  <1>4. has # 0 => named.row[t].artist >= c.from.artist
    BY <1>1, <1>2
  <1>5. named.row[t].artist = MaxEdits + 2 => tags[t].artist = 0 /\ lost > 0
    BY <1>1, <1>2, <1>3, NamesTypes
  <1>6. \A u \in c.of : /\ tags[t].artist = tags[u].artist =>
                             named.row[u].artist = named.row[t].artist
                        /\ has # 0 => named.row[u].artist = named.row[t].artist
    BY <1>2
  <1>7. named.row[t].cover # 0 => named.row[t].cover = named.row[t].album
    BY <1>2, <1>3
  <1> QED
    BY <1>4, <1>5, <1>6, <1>7

LEMMA NoCallHeard ==
    ASSUME artist \in N!Version
    PROVE  Heard(N!NoCall) /\ N!NoCall.wants = {} /\ N!NoCall.of = {}
  <1>1. /\ N!NoCall.has = [artist |-> 0, album |-> 0] /\ N!NoCall.wants = {} /\ N!NoCall.of = {}
        /\ N!NoCall.from = [artist |-> 1, album |-> 1]
    BY NamesTypes DEF N!NoCall
  <1>2. N!NoCall \in N!Call
    BY NamesTypes DEF N!NoCall, N!Call, N!Ways
  <1> QED
    BY <1>1, <1>2, NamesTypes DEF Heard

LEMMA NamesStart == N!Init => NamesInv
  <1> SUFFICES ASSUME N!Init PROVE NamesInv
    OBVIOUS
  <1>1. artist = 1 /\ album = 1 /\ lost = 0 /\ call = N!NoCall /\ named.call = N!NoCall
    BY DEF N!Init
  <1>2. artist \in N!Version /\ album \in N!Version
    BY <1>1, NamesTypes
  <1>3. ASSUME NEW t \in Ids
        PROVE  tags[t].artist \in {0, 1} /\ tags[t].album \in {0, 1}
               /\ tags[t].cover \in {0, tags[t].album}
    <2>1. tags[t] \in {[artist |-> 1, album |-> 1, cover |-> 1],
                       [artist |-> 1, album |-> 1, cover |-> 0],
                       [artist |-> 0, album |-> 0, cover |-> 0]}
      BY NamesTypes DEF N!Init
    <2> QED
      BY <2>1
  <1> QED
    BY <1>1, <1>2, <1>3, NoCallHeard DEF NamesInv

\* What was heard stays heard while versions are added and requests are lost.
LEMMA HeardStays ==
    ASSUME NEW c, Heard(c), tags' = tags, artist \in Nat, artist' \in Nat, artist' >= artist,
           lost \in Nat, lost' \in Nat, lost' >= lost
    PROVE  /\ c \in N!Call /\ c.from.artist <= artist'
           /\ c.has.artist <= MaxEdits + 1
           /\ c.has.artist # N!Absent => c.from.artist <= c.has.artist
           /\ "artist" \notin c.wants /\ c.has.artist = N!Absent =>
                lost' > 0 \/ \A t \in c.of : tags'[t].artist # N!Absent
  <1>1. c \in N!Call /\ c.from.artist \in Nat
    BY NamesTypes DEF Heard, N!Call
  <1> QED
    BY <1>1 DEF Heard

\* A step that leaves what was shown keeps the rest of the invariant if the call is heard.
LEMMA ShownStays ==
    ASSUME NamesInv, tags' = tags, named' = named, artist' \in N!Version, artist' >= artist,
           album' \in N!Version, lost' \in Nat, lost' >= lost, Heard(call)'
    PROVE  NamesInv'
  <1>1. artist \in Nat /\ artist' \in Nat /\ lost \in Nat
    BY NamesTypes DEF NamesInv
  <1>2. Heard(named.call)
    BY DEF NamesInv
  <1>3. Heard(named.call)'
    BY <1>1, <1>2, HeardStays DEF Heard
  <1>4. \A t \in named'.call.of : named'.row[t] = Completed(named.call, t)'
    BY DEF NamesInv, Completed
  <1> QED
    BY <1>3, <1>4 DEF NamesInv

LEMMA EditKeeps == ASSUME NamesInv, N!RenameArtist \/ N!EditAlbum PROVE NamesInv'
  <1>1. /\ tags' = tags /\ named' = named /\ call' = call /\ lost' = lost /\ lost \in Nat
        /\ artist' \in N!Version /\ album' \in N!Version /\ artist' >= artist
        /\ artist \in Nat /\ artist' \in Nat
    BY NamesTypes DEF N!RenameArtist, N!EditAlbum, NamesInv
  <1>2. Heard(call)
    BY DEF NamesInv
  <1>3. Heard(call)'
    BY <1>1, <1>2, HeardStays DEF Heard
  <1> QED
    BY <1>1, <1>3, ShownStays

LEMMA AskKeeps ==
    ASSUME NamesInv, NEW how \in N!Ways, NEW of \in SUBSET Ids,
           NEW wants \in SUBSET {"artist", "album"}, N!Ask(how, of, wants),
           "artist" \notin wants => \A t \in of : tags[t].artist # N!Absent
    PROVE  NamesInv'
  <1>1. /\ tags' = tags /\ named' = named /\ lost' = lost /\ artist' = artist /\ album' = album
        /\ call' = [how |-> how, of |-> of, wants |-> wants, has |-> N!NoCall.has,
                    from |-> [artist |-> artist, album |-> album]]
    BY DEF N!Ask
  <1>2. N!NoCall.has = [artist |-> 0, album |-> 0]
    BY NamesTypes DEF N!NoCall
  <1>3. artist \in N!Version /\ album \in N!Version /\ lost \in Nat /\ artist \in Nat
    BY NamesTypes DEF NamesInv
  <1>4. call' \in N!Call
    BY <1>1, <1>2, <1>3, NamesTypes DEF N!Call
  <1>5. /\ call'.from.artist = artist /\ call'.has.artist = 0 /\ call'.wants = wants
        /\ call'.of = of
    BY <1>1, <1>2
  <1>6. Heard(call)'
    BY <1>1, <1>3, <1>4, <1>5, NamesTypes DEF Heard
  <1> QED
    BY <1>1, <1>3, <1>6, ShownStays

LEMMA AnswerHeard ==
    ASSUME NamesInv, NEW which \in {"artist", "album"}, N!Answer(which)
    PROVE  NamesInv'
  <1>1. /\ call \in N!Call /\ Heard(call) /\ lost \in Nat /\ artist \in N!Version /\ album \in N!Version
        /\ artist \in Nat /\ album \in Nat
    BY NamesTypes DEF NamesInv, Heard
  <1>2. tags' = tags /\ named' = named /\ artist' = artist /\ album' = album
    BY DEF N!Answer
  <1>3. /\ lost' \in Nat /\ lost' >= lost
        /\ \/ /\ call' = [call EXCEPT !.wants = @ \ {which},
                             !.has[which] = IF which = "artist" THEN artist ELSE album]
              /\ lost' = lost
           \/ call' = [call EXCEPT !.wants = @ \ {which}] /\ lost' > 0
    BY <1>1 DEF N!Answer
  <1> DEFINE asks == [call EXCEPT !.wants = @ \ {which}]
             heard == [call.has EXCEPT ![which] = IF which = "artist" THEN artist ELSE album]
  <1>4. /\ asks \in N!Call /\ asks.wants = call.wants \ {which} /\ asks.has = call.has
        /\ asks.of = call.of /\ asks.from = call.from
    BY <1>1 DEF N!Call
  <1>5. /\ heard \in [artist : N!Name, album : N!Name]
        /\ heard.artist = IF which = "artist" THEN artist ELSE call.has.artist
    <2>1. call.has \in [artist : N!Name, album : N!Name]
      BY <1>1 DEF N!Call
    <2>2. CASE which = "artist"
      BY <1>1, <2>1, <2>2, NamesTypes
    <2>3. CASE which = "album"
      BY <1>1, <2>1, <2>3, NamesTypes
    <2> QED
      BY <2>2, <2>3
  <1>6. /\ [asks EXCEPT !.has = heard] =
             [call EXCEPT !.wants = @ \ {which},
                          !.has[which] = IF which = "artist" THEN artist ELSE album]
    BY <1>1 DEF N!Call
  <1> HIDE DEF asks, heard
  <1>7. /\ [asks EXCEPT !.has = heard] \in N!Call
        /\ [asks EXCEPT !.has = heard].wants = asks.wants
        /\ [asks EXCEPT !.has = heard].has = heard
        /\ [asks EXCEPT !.has = heard].of = asks.of
        /\ [asks EXCEPT !.has = heard].from = asks.from
    BY <1>4, <1>5 DEF N!Call
  <1>8. call.from.artist \in Nat /\ call.from.artist <= artist /\ artist <= MaxEdits + 1 /\ artist # 0
    BY <1>1, NamesTypes DEF Heard, N!Call
  <1>9. CASE call' = [asks EXCEPT !.has = heard] /\ lost' = lost
    <2>1. /\ call' \in N!Call /\ call'.wants = call.wants \ {which} /\ call'.of = call.of
          /\ call'.has.artist = IF which = "artist" THEN artist ELSE call.has.artist
          /\ call'.from = call.from
      BY <1>4, <1>5, <1>7, <1>9
    <2>2. Heard(call)'
      BY <1>1, <1>2, <1>8, <1>9, <2>1, NamesTypes DEF Heard
    <2> QED
      BY <1>1, <1>2, <1>3, <2>2, ShownStays
  <1>10. CASE call' = asks /\ lost' > 0
    <2>1. Heard(call)'
      BY <1>1, <1>2, <1>4, <1>10 DEF Heard
    <2> QED
      BY <1>1, <1>2, <1>3, <2>1, ShownStays
  <1> QED
    BY <1>3, <1>6, <1>9, <1>10 DEF asks

LEMMA MapKeeps == ASSUME NamesInv, N!MapTracks PROVE NamesInv'
  <1>1. /\ tags' = tags /\ artist' = artist /\ album' = album /\ lost' = lost
        /\ call' = N!NoCall /\ named'.call = call /\ call.wants = {}
    BY DEF N!MapTracks
  <1>2. artist \in N!Version /\ Heard(call) /\ call.of \subseteq Ids
    BY DEF NamesInv, Heard, N!Call
  <1>3. ASSUME NEW t \in call.of PROVE named'.row[t] = Completed(call, t)
    BY <1>2 DEF N!MapTracks, Completed
  <1>4. Heard(call') /\ Heard(named'.call)
    BY <1>1, <1>2, NoCallHeard
  <1>5. Heard(call)' /\ Heard(named.call)'
    BY <1>1, <1>4 DEF Heard
  <1>6. \A t \in named'.call.of : named'.row[t] = Completed(named.call, t)'
    BY <1>1, <1>3 DEF Completed
  <1> QED
    BY <1>1, <1>5, <1>6 DEF NamesInv

LEMMA NamesKept == NamesInv /\ [N!Next]_(N!vars) => NamesInv'
  <1> SUFFICES ASSUME NamesInv, [N!Next]_(N!vars) PROVE NamesInv'
    OBVIOUS
  <1>1. CASE UNCHANGED N!vars
    BY <1>1 DEF N!vars, NamesInv, Heard, Completed
  <1>2. CASE N!RenameArtist \/ N!EditAlbum
    BY <1>2, EditKeeps
  <1>3. CASE N!ListTracks
    <2>1. N!Needs(Ids) \subseteq {"artist", "album"}
      BY DEF N!Needs
    <2>2. "artist" \notin N!Needs(Ids) => \A t \in Ids : tags[t].artist # N!Absent
      BY DEF N!Needs
    <2>3. "list" \in N!Ways
      BY DEF N!Ways
    <2>4. N!Ask("list", Ids, N!Needs(Ids))
      BY <1>3 DEF N!ListTracks
    <2> QED
      BY <2>1, <2>2, <2>3, <2>4, AskKeeps
  <1>4. ASSUME NEW t \in Ids, N!GetTrack(t) \/ N!UpdateTrack(t) PROVE NamesInv'
    <2>1. "get" \in N!Ways /\ "update" \in N!Ways /\ {t} \in SUBSET Ids
      BY DEF N!Ways
    <2>2. PICK how \in N!Ways : N!Ask(how, {t}, {"artist", "album"})
      BY <1>4, <2>1 DEF N!GetTrack, N!UpdateTrack
    <2> QED
      BY <2>1, <2>2, AskKeeps
  <1>5. ASSUME NEW which \in {"artist", "album"}, N!Answer(which) PROVE NamesInv'
    BY <1>5, AnswerHeard
  <1>6. CASE N!MapTracks
    BY <1>6, MapKeeps
  <1> QED
    BY <1>1, <1>2, <1>3, <1>4, <1>5, <1>6 DEF N!Next

-----------------------------------------------------------------------------
(* Slots *)

\* A set of numbers has a least one: strict inclusion of the intervals below its members
\* is well-founded.
LEMMA LeastExists ==
    ASSUME NEW Z \in SUBSET Nat, Z # {}
    PROVE  \E x \in Z : \A y \in Z : x <= y
  <1> DEFINE below == {0 .. i : i \in Z}
  <1>1. below \subseteq FiniteSubsetsOf(Nat) /\ below # {}
    <2>1. \A i \in Z : 0 .. i \in SUBSET Nat /\ IsFiniteSet(0 .. i)
      BY FS_Interval
    <2> QED
      BY <2>1 DEF FiniteSubsetsOf
  <1>2. PICK X \in below : \A Y \in below : <<Y, X>> \notin StrictSubsetOrdering(Nat)
    BY <1>1, FS_StrictSubsetOrderingWellFounded, WFMin
  <1>3. PICK x \in Z : X = 0 .. x
    OBVIOUS
  <1>4. ASSUME NEW y \in Z PROVE x <= y
    <2> SUFFICES ASSUME y < x PROVE FALSE
      OBVIOUS
    <2>1. 0 .. y \in below /\ 0 .. y \subseteq 0 .. x /\ x \in 0 .. x /\ x \notin 0 .. y
      OBVIOUS
    <2>2. <<0 .. y, X>> \in StrictSubsetOrdering(Nat)
      BY <1>3, <2>1 DEF StrictSubsetOrdering
    <2> QED
      BY <1>2, <2>1, <2>2
  <1> QED
    BY <1>4

\* Fewer tasks than slots leave one free.
LEMMA FreeSlot ==
    ASSUME NEW n \in Nat, NEW ts, \A t \in ts : t.id \in 1 .. n,
           \A s, t \in ts : s.id = t.id => s = t, Cardinality(ts) < n
    PROVE  \E k \in 1 .. n : \A t \in ts : t.id # k
  <1> DEFINE id == [t \in ts |-> t.id]
  <1>1. IsFiniteSet(1 .. n) /\ Cardinality(1 .. n) = n
    BY FS_Interval
  <1>2. id \in Injection(ts, 1 .. n)
    BY DEF Injection, IsInjective
  <1>3. IsFiniteSet(ts) /\ Cardinality(ts) \in Nat
    BY <1>1, <1>2, FS_Injection, FS_CardinalityType
  <1>4. id \notin Surjection(ts, 1 .. n)
    <2> SUFFICES ASSUME id \in Surjection(ts, 1 .. n) PROVE FALSE
      OBVIOUS
    <2>1. Cardinality(1 .. n) <= Cardinality(ts)
      BY <1>3, FS_Surjection
    <2> QED
      BY <1>1, <1>3, <2>1
  <1>5. PICK k \in 1 .. n : \A t \in ts : id[t] # k
    BY <1>2, <1>4 DEF Injection, Surjection
  <1> QED
    BY <1>5

-----------------------------------------------------------------------------
(* Favorites and the playlist dialogs *)

\* The requests that a task sends.
Sends(kind) ==
    CASE kind \in {"home", "library", "actions"} -> {"list", "favorites"}
      [] kind = "playlists" -> {"list", "favorites", "relist"}
      [] kind = "picker" -> {"list"}
      [] kind = "quick" -> {"list", "favorites", "add"}
      [] kind = "toggle" -> {"list", "favorites", "add", "remove"}
      [] kind = "pick" -> {"add"}
      [] OTHER -> {"create"}

\* What a task asks and knows: of playlists there are, and of Favorites unless a
\* playlist was picked; a track it was told is in them has been.
TaskSound(t) ==
    /\ t.op \in Sends(t.kind)
    /\ t.kind \in {"quick", "toggle", "pick"} => t.track \in Tracks
    /\ t.list # NoList => t.list \in DOMAIN lists
    /\ t.op \in {"add", "remove"} => t.list # NoList /\ (t.kind # "pick" => t.list \in Favorites)
    /\ Ensured(t) => t.list \in Favorites
    /\ t.op \in {"favorites", "create"} /\ t.answer = "ok" => t.list # NoList
    /\ t.seen \subseteq DOMAIN lists
    /\ t.answer = "conflict" => t.op = "add"
    /\ t.op = "add" /\ t.kind = "quick" /\ t.answer \in {"ok", "conflict"} =>
          t.track \in InFavorites \cup removed

TasksSound ==
    /\ tasks \subseteq Task /\ \A s, t \in tasks : s.id = t.id => s = t
    /\ \A t \in tasks : TaskSound(t)

ListsSound ==
    /\ lists \in Seq([favorites: BOOLEAN, tracks: SUBSET Tracks]) /\ Len(lists) <= MaxLists
    /\ recent \in Seq(Lists) /\ Len(recent) = Len(lists) /\ ToSet(recent) = DOMAIN lists
    /\ removed \subseteq Tracks

\* A page has rows of one sort, and a dialog only over rows.
ClientSound ==
    /\ page \in Pages /\ loading \in BOOLEAN
    /\ actions \in Actions /\ picker \in Picker /\ notice \in Notice /\ pending \subseteq Tracks
    /\ picker.lists \subseteq DOMAIN lists /\ picker.saved \subseteq DOMAIN lists
    /\ actions.list # NoList => actions.list \in Favorites
    /\ shown \subseteq IF page = "playlists" THEN Lists ELSE Tracks
    /\ loading \/ page = "playlists" => NoDialog
    /\ notice.good => notice.track \in InFavorites \cup removed

CountersSound ==
    /\ begun \in 1 .. MaxTasks /\ failures \in 0 .. MaxFailures
    /\ excused \in BOOLEAN /\ disturbed \in BOOLEAN /\ namesakes \subseteq Lists

FavoritesTyped == ListsSound /\ ClientSound /\ TasksSound /\ CountersSound

LEMMA FavoritesTypes == FavoritesTyped => TypeOK
  BY DEF FavoritesTyped, ListsSound, ClientSound, TasksSound, CountersSound, TaskSound, TypeOK

LEMMA FavoritesNumbers ==
    /\ NoTrack \notin Tracks /\ PageSize \in Nat \ {0} /\ MaxTasks \in Nat \ {0}
    /\ MaxAtOnce \in Nat \ {0} /\ MaxLists \in Nat /\ MaxFailures \in Nat /\ MaxLists >= 2
    /\ NoList = 0 /\ Lists = 1 .. MaxLists /\ Pages = {"home", "library", "playlists"}
    /\ Loads = {"home", "library", "playlists", "actions", "picker"}
    /\ Kinds = {"home", "library", "playlists", "actions", "picker",
                "quick", "toggle", "pick", "create"}
  BY FavoritesAssumption DEF NoList, Lists, Pages, Loads, Kinds

LEMMA TaskFields ==
    ASSUME NEW t \in Task
    PROVE  /\ t.id \in 1 .. MaxAtOnce /\ t.kind \in Kinds /\ t.track \in Tracks \cup {NoTrack}
           /\ t.live \in BOOLEAN /\ t.list \in Lists \cup {0}
           /\ t.op \in {"list", "favorites", "relist", "create", "add", "remove"}
           /\ t.tracks \in SUBSET Tracks /\ t.seen \in SUBSET Lists
           /\ t.answer \in {"none", "ok", "conflict", "error"}
  BY FavoritesNumbers DEF Task

\* A playlist is a number, whose row has a mark and tracks.
LEMMA ListRows ==
    ASSUME ListsSound
    PROVE  /\ DOMAIN lists = 1 .. Len(lists) /\ Len(lists) \in Nat /\ DOMAIN lists \subseteq Lists
           /\ \A i \in DOMAIN lists : lists[i].favorites \in BOOLEAN /\ lists[i].tracks \in SUBSET Tracks
           /\ Favorites \subseteq DOMAIN lists /\ InFavorites \subseteq Tracks
  <1>1. DOMAIN lists = 1 .. Len(lists) /\ Len(lists) \in Nat
    BY DEF ListsSound
  <1>2. \A i \in DOMAIN lists : lists[i] \in [favorites: BOOLEAN, tracks: SUBSET Tracks]
    <2> DEFINE R == [favorites: BOOLEAN, tracks: SUBSET Tracks]
    <2>1. lists \in Seq(R)
      BY DEF ListsSound
    <2> HIDE DEF R
    <2>2. \A i \in DOMAIN lists : lists[i] \in R
      BY <2>1
    <2> QED
      BY <2>2 DEF R
  <1>3. DOMAIN lists \subseteq Lists
    BY <1>1, FavoritesNumbers DEF ListsSound
  <1> QED
    BY <1>1, <1>2, <1>3 DEF Favorites, InFavorites

\* Playlists are not deleted, and Favorites stay what they are.
Grows ==
    /\ DOMAIN lists \subseteq DOMAIN lists' /\ Favorites \subseteq Favorites'
    /\ InFavorites \cup removed \subseteq InFavorites' \cup removed'

LEMMA TaskGrows ==
    ASSUME NEW t, TaskSound(t), Grows
    PROVE  TaskSound(t)'
  BY DEF TaskSound, Grows, Ensured, Ensures

LEMMA ClientGrows ==
    ASSUME ClientSound, Grows, UNCHANGED client
    PROVE  ClientSound'
  BY DEF ClientSound, Grows, client, NoDialog

LEMMA GrowsStill ==
    ASSUME UNCHANGED <<lists, removed>>
    PROVE  Grows /\ Favorites' = Favorites /\ InFavorites' = InFavorites
  BY DEF Grows, Favorites, InFavorites

\* A task in place of another, and one more.
LEMMA TasksReplaced ==
    ASSUME TasksSound, Grows, NEW t \in tasks, NEW u \in Task, tasks' = (tasks \ {t}) \cup {u},
           u.id = t.id, TaskSound(u)'
    PROVE  TasksSound'
  <1>1. \A s \in tasks : TaskSound(s)'
    BY TaskGrows DEF TasksSound
  <1> QED
    BY <1>1 DEF TasksSound

\* An answered task differs from what it was in its answer.
Answers(t, u, how, list, tracks, seen) ==
    /\ u \in Task /\ u.id = t.id /\ u.kind = t.kind /\ u.track = t.track /\ u.live = t.live
    /\ u.op = t.op /\ u.answer = how /\ u.list = list /\ u.tracks = tracks /\ u.seen = seen

LEMMA TaskAnswered ==
    ASSUME NEW t \in Task, NEW how \in {"ok", "conflict", "error"}, NEW list \in Lists \cup {0},
           NEW seen \in SUBSET Lists, list # 0 => lists'[list].tracks \in SUBSET Tracks,
           Answered(t, how, list, seen)
    PROVE  \E u \in Task :
             /\ tasks' = (tasks \ {t}) \cup {u}
             /\ Answers(t, u, how, list, IF list = 0 THEN {} ELSE lists'[list].tracks, seen)
  <1> DEFINE tr == IF list = 0 THEN {} ELSE lists'[list].tracks
             a == [t EXCEPT !.answer = how]
             b == [a EXCEPT !.list = list]
             c == [b EXCEPT !.seen = seen]
             d == [c EXCEPT !.tracks = tr]
  <1>1. d = [t EXCEPT !.answer = how, !.list = list, !.seen = seen, !.tracks = tr]
    BY DEF Task
  <1>2. tasks' = (tasks \ {t}) \cup {d}
    BY <1>1, FavoritesNumbers DEF Answered
  <1>3. a \in Task /\ a.id = t.id /\ a.kind = t.kind /\ a.track = t.track /\ a.live = t.live
        /\ a.op = t.op /\ a.answer = how
    BY DEF Task
  <1> HIDE DEF a
  <1>4. b \in Task /\ b.id = t.id /\ b.kind = t.kind /\ b.track = t.track /\ b.live = t.live
        /\ b.op = t.op /\ b.answer = how /\ b.list = list
    BY <1>3, FavoritesNumbers DEF Task
  <1> HIDE DEF b
  <1>5. c \in Task /\ c.id = t.id /\ c.kind = t.kind /\ c.track = t.track /\ c.live = t.live
        /\ c.op = t.op /\ c.answer = how /\ c.list = list /\ c.seen = seen
    BY <1>4 DEF Task
  <1> HIDE DEF c
  <1>6. d \in Task /\ d.id = t.id /\ d.kind = t.kind /\ d.track = t.track /\ d.live = t.live
        /\ d.op = t.op /\ d.answer = how /\ d.list = list /\ d.seen = seen /\ d.tracks = tr
    BY <1>5 DEF Task
  <1> HIDE DEF d
  <1> QED
    BY <1>2, <1>6 DEF Answers

\* The task sends another request, of which nothing is known.
GoesOn(t, u, op, list) ==
    /\ tasks' = (tasks \ {t}) \cup {u} /\ u.id = t.id /\ u.kind = t.kind
    /\ u.track = t.track /\ u.live = t.live /\ u.op = op /\ u.answer = "none"
    /\ u.list = list /\ u.tracks = {} /\ u.seen = {}

LEMMA TaskGoes ==
    ASSUME NEW t \in Task, NEW op \in {"favorites", "relist", "add"}, NEW list \in Lists \cup {0},
           Goes(t, op, list)
    PROVE  \E u \in Task : GoesOn(t, u, op, list)
  <1> DEFINE a == [t EXCEPT !.op = op]
             b == [a EXCEPT !.list = list]
             c == [b EXCEPT !.answer = "none"]
             d == [c EXCEPT !.tracks = {}]
             e == [d EXCEPT !.seen = {}]
  <1>1. e = [t EXCEPT !.op = op, !.list = list, !.answer = "none", !.tracks = {}, !.seen = {}]
    BY DEF Task
  <1>2. tasks' = (tasks \ {t}) \cup {e}
    BY <1>1 DEF Goes
  <1>3. a \in Task /\ a.id = t.id /\ a.kind = t.kind /\ a.track = t.track /\ a.live = t.live
        /\ a.op = op
    BY DEF Task
  <1> HIDE DEF a
  <1>4. b \in Task /\ b.id = t.id /\ b.kind = t.kind /\ b.track = t.track /\ b.live = t.live
        /\ b.op = op /\ b.list = list
    BY <1>3, FavoritesNumbers DEF Task
  <1> HIDE DEF b
  <1>5. c \in Task /\ c.id = t.id /\ c.kind = t.kind /\ c.track = t.track /\ c.live = t.live
        /\ c.op = op /\ c.list = list /\ c.answer = "none"
    BY <1>4 DEF Task
  <1> HIDE DEF c
  <1>6. d \in Task /\ d.id = t.id /\ d.kind = t.kind /\ d.track = t.track /\ d.live = t.live
        /\ d.op = op /\ d.list = list /\ d.answer = "none" /\ d.tracks = {}
    BY <1>5 DEF Task
  <1> HIDE DEF d
  <1>7. e \in Task /\ e.id = t.id /\ e.kind = t.kind /\ e.track = t.track /\ e.live = t.live
        /\ e.op = op /\ e.list = list /\ e.answer = "none" /\ e.tracks = {} /\ e.seen = {}
    BY <1>6 DEF Task
  <1> HIDE DEF e
  <1> QED
    BY <1>2, <1>7 DEF GoesOn

\* What waits for some tasks is gone: they differ from what they were in nothing else.
LEMMA Abandons ==
    ASSUME TasksSound, NEW kinds
    PROVE  /\ \A s \in Abandon(kinds) : \E t \in tasks :
                /\ s \in Task /\ s.id = t.id /\ s.kind = t.kind /\ s.track = t.track
                /\ s.op = t.op /\ s.answer = t.answer /\ s.list = t.list /\ s.tracks = t.tracks
                /\ s.seen = t.seen /\ s.live = (t.live /\ t.kind \notin kinds)
           /\ \A s, u \in Abandon(kinds) : s.id = u.id => s = u
           /\ \A t \in tasks : t.kind \notin kinds => t \in Abandon(kinds)
           /\ \A s \in Abandon(kinds) : TaskSound(s)
  <1>1. tasks \subseteq Task /\ \A s, u \in tasks : s.id = u.id => s = u
    BY DEF TasksSound
  <1> DEFINE Off(t) == [t EXCEPT !.live = FALSE]
             To(t) == IF t.kind \in kinds THEN Off(t) ELSE t
  <1>2. Abandon(kinds) = {To(t) : t \in tasks}
    BY DEF Abandon
  <1>3. ASSUME NEW t \in tasks
        PROVE  LET s == To(t) IN
                /\ s \in Task /\ s.id = t.id /\ s.kind = t.kind /\ s.track = t.track
                /\ s.op = t.op /\ s.answer = t.answer /\ s.list = t.list /\ s.tracks = t.tracks
                /\ s.seen = t.seen /\ s.live = (t.live /\ t.kind \notin kinds)
    <2>1. t \in Task
      BY <1>1
    <2>2. /\ Off(t) \in Task /\ Off(t).id = t.id /\ Off(t).kind = t.kind /\ Off(t).track = t.track
          /\ Off(t).op = t.op /\ Off(t).answer = t.answer /\ Off(t).list = t.list
          /\ Off(t).tracks = t.tracks /\ Off(t).seen = t.seen /\ Off(t).live = FALSE
      BY <2>1 DEF Task
    <2> HIDE DEF Off
    <2>3. CASE t.kind \in kinds
      BY <2>2, <2>3
    <2>4. CASE t.kind \notin kinds
      <3>1. t.live \in BOOLEAN
        BY <2>1, TaskFields
      <3>2. t.live = (t.live /\ t.kind \notin kinds)
        BY <2>4, <3>1
      <3> QED
        BY <2>1, <2>4, <3>2
    <2> QED
      BY <2>3, <2>4
  <1> HIDE DEF To
  <1>4. \A s \in Abandon(kinds) : \E t \in tasks :
                /\ s = To(t)
                /\ s \in Task /\ s.id = t.id /\ s.kind = t.kind /\ s.track = t.track
                /\ s.op = t.op /\ s.answer = t.answer /\ s.list = t.list /\ s.tracks = t.tracks
                /\ s.seen = t.seen /\ s.live = (t.live /\ t.kind \notin kinds)
    BY <1>2, <1>3
  <1>5. \A s, u \in Abandon(kinds) : s.id = u.id => s = u
    <2> SUFFICES ASSUME NEW s \in Abandon(kinds), NEW u \in Abandon(kinds), s.id = u.id PROVE s = u
      OBVIOUS
    <2>1. PICK t \in tasks : s = To(t) /\ s.id = t.id
      BY <1>4
    <2>2. PICK v \in tasks : u = To(v) /\ u.id = v.id
      BY <1>4
    <2>3. t = v
      BY <1>1, <2>1, <2>2
    <2> QED
      BY <2>1, <2>2, <2>3
  <1>6. \A t \in tasks : t.kind \notin kinds => t \in Abandon(kinds)
    BY <1>2 DEF To
  <1>7. ASSUME NEW s \in Abandon(kinds) PROVE TaskSound(s)
    <2>1. PICK t \in tasks : /\ s.kind = t.kind /\ s.track = t.track /\ s.op = t.op
                             /\ s.answer = t.answer /\ s.list = t.list /\ s.seen = t.seen
      BY <1>4
    <2>2. TaskSound(t)
      BY DEF TasksSound
    <2> QED
      BY <2>1, <2>2 DEF TaskSound, Ensured, Ensures
  <1> QED
    BY <1>4, <1>5, <1>6, <1>7

\* A task begins among those that are left as they are, or abandoned.
Starts(ts, u, kind, op, track, list) ==
    /\ tasks' = ts \cup {u} /\ u \in Task /\ u.kind = kind /\ u.op = op /\ u.track = track
    /\ u.list = list /\ u.live = TRUE /\ u.answer = "none" /\ u.tracks = {} /\ u.seen = {}
    /\ \A s \in ts : s.id # u.id
    /\ begun' \in 1 .. MaxTasks /\ disturbed' \in BOOLEAN
    /\ ~disturbed' => ~disturbed /\ \A t \in tasks : ~Changing(kind, op) /\ ~Changing(t.kind, t.op)
    /\ UNCHANGED <<service, excused>>

LEMMA TaskStarts ==
    ASSUME FavoritesTyped, NEW ts, \A s \in ts : \E t \in tasks : s.id = t.id,
           NEW kind \in Kinds, NEW op \in {"list", "add", "remove", "create"},
           NEW track \in Tracks \cup {NoTrack}, NEW list \in Lists \cup {0},
           Begin(ts, kind, op, track, list)
    PROVE  \E u \in Task : Starts(ts, u, kind, op, track, list)
  <1>1. tasks \subseteq Task /\ \A s, t \in tasks : s.id = t.id => s = t
    BY DEF FavoritesTyped, TasksSound
  <1> DEFINE free == {n \in 1 .. MaxAtOnce : \A t \in tasks : t.id # n}
             slot == Min(free)
             u == NewTask(slot, kind, op, track, list)
  <1>2. /\ begun < MaxTasks /\ begun' = begun + 1 /\ Cardinality(tasks) < MaxAtOnce
        /\ tasks' = ts \cup {u}
        /\ disturbed' = (disturbed \/ \E t \in tasks : Changing(kind, op) \/ Changing(t.kind, t.op))
        /\ UNCHANGED <<service, excused>>
    BY DEF Begin
  <1>3. free \in SUBSET Nat /\ free # {}
    <2>1. \A t \in tasks : t.id \in 1 .. MaxAtOnce
      BY <1>1, TaskFields
    <2>2. PICK k \in 1 .. MaxAtOnce : \A t \in tasks : t.id # k
      BY <1>1, <1>2, <2>1, FreeSlot, FavoritesNumbers
    <2>3. k \in free
      BY <2>2
    <2>4. free \subseteq 1 .. MaxAtOnce
      OBVIOUS
    <2>5. 1 .. MaxAtOnce \subseteq Nat
      BY FavoritesNumbers
    <2> HIDE DEF free
    <2> QED
      BY <2>3, <2>4, <2>5
  <1>4. slot \in free
    <2>1. \E x \in free : \A y \in free : x <= y
      BY <1>3, LeastExists
    <2> HIDE DEF free
    <2> QED
      BY <2>1 DEF Min
  <1>5. slot \in 1 .. MaxAtOnce /\ \A t \in tasks : t.id # slot
    BY <1>4
  <1> HIDE DEF slot, free
  <1>6. /\ u \in Task /\ u.id = slot /\ u.kind = kind /\ u.op = op /\ u.track = track
        /\ u.list = list /\ u.live = TRUE /\ u.answer = "none" /\ u.tracks = {} /\ u.seen = {}
    BY <1>5, FavoritesNumbers DEF NewTask, Task
  <1> HIDE DEF u
  <1>7. \A s \in ts : s.id # u.id
    BY <1>5, <1>6
  <1>8. begun' \in 1 .. MaxTasks
    BY <1>2, FavoritesNumbers DEF FavoritesTyped, CountersSound
  <1>9. disturbed \in BOOLEAN
    BY DEF FavoritesTyped, CountersSound
  <1>10. /\ disturbed' \in BOOLEAN
         /\ ~disturbed' => ~disturbed /\ \A t \in tasks : ~Changing(kind, op) /\ ~Changing(t.kind, t.op)
    BY <1>2, <1>9, Zenon
  <1> QED
    BY <1>2, <1>6, <1>7, <1>8, <1>10 DEF Starts

\* The list request.
LEMMA Lists1 ==
    ASSUME ListsSound
    PROVE  /\ FirstPage \in Seq(DOMAIN lists) /\ ToSet(FirstPage) \subseteq DOMAIN lists
           /\ Len(lists) <= PageSize => ToSet(FirstPage) = DOMAIN lists
  <1>1. /\ recent \in Seq(Lists) /\ Len(recent) = Len(lists) /\ Len(recent) \in Nat
        /\ DOMAIN recent = 1 .. Len(recent) /\ ToSet(recent) = DOMAIN lists
    BY DEF ListsSound
  <1> DEFINE n == IF Len(recent) < PageSize THEN Len(recent) ELSE PageSize
  <1>2. n \in Nat /\ n <= Len(recent)
    BY <1>1, FavoritesNumbers
  <1>3. \A k \in 1 .. Len(recent) : recent[k] \in DOMAIN lists
    BY <1>1 DEF ToSet
  <1>4. FirstPage = [k \in 1 .. n |-> recent[k]]
    <2>1. FirstPage = SubSeq(recent, 1, n)
      BY DEF FirstPage
    <2>2. SubSeq(recent, 1, n) \in Seq(Lists) /\ Len(SubSeq(recent, 1, n)) = n
          /\ \A k \in 1 .. n : SubSeq(recent, 1, n)[k] = recent[k]
      BY <1>1, <1>2, SubSeqProperties
    <2> HIDE DEF n
    <2> QED
      BY <1>1, <1>2, <2>1, <2>2
  <1> HIDE DEF n
  <1>5. FirstPage \in Seq(DOMAIN lists) /\ ToSet(FirstPage) \subseteq DOMAIN lists
    <2>1. \A k \in 1 .. n : recent[k] \in DOMAIN lists
      BY <1>1, <1>2, <1>3
    <2>2. FirstPage \in [1 .. n -> DOMAIN lists]
      BY <1>4, <2>1
    <2>3. FirstPage \in Seq(DOMAIN lists)
      BY <1>2, <2>2
    <2> QED
      BY <2>2, <2>3 DEF ToSet
  <1>6. ASSUME Len(lists) <= PageSize PROVE ToSet(FirstPage) = DOMAIN lists
    <2>1. n = Len(recent)
      <3>1. Len(recent) <= PageSize /\ Len(recent) \in Nat /\ PageSize \in Nat
        BY <1>1, <1>6, FavoritesNumbers
      <3> QED
        BY <3>1 DEF n
    <2>2. DOMAIN FirstPage = DOMAIN recent /\ \A k \in DOMAIN recent : FirstPage[k] = recent[k]
      BY <1>1, <1>4, <2>1
    <2> QED
      BY <1>1, <2>2 DEF ToSet
  <1> QED
    BY <1>5, <1>6

LEMMA FoundThere ==
    ASSUME ListsSound, NEW listed \in Seq(DOMAIN lists)
    PROVE  /\ Found(listed) \in Favorites \cup {0} /\ Found(listed) \in Lists \cup {0}
           /\ Found(listed) = 0 => Favorites \cap ToSet(listed) = {}
  <1> DEFINE marked == {k \in DOMAIN listed : lists[listed[k]].favorites}
  <1>1. DOMAIN listed = 1 .. Len(listed) /\ Len(listed) \in Nat /\ \A k \in DOMAIN listed : listed[k] \in DOMAIN lists
    BY ElementOfSeq
  <1>2. marked \in SUBSET Nat
    BY <1>1
  <1>3. marked # {} => Min(marked) \in marked
    <2>1. marked # {} => \E x \in marked : \A y \in marked : x <= y
      BY <1>2, LeastExists
    <2> HIDE DEF marked
    <2> QED
      BY <2>1 DEF Min
  <1>4. Found(listed) = IF marked = {} THEN 0 ELSE listed[Min(marked)]
    BY FavoritesNumbers DEF Found
  <1>5. marked # {} => listed[Min(marked)] \in Favorites /\ listed[Min(marked)] \in Lists
    BY <1>1, <1>3, ListRows DEF Favorites
  <1>6. marked # {} => listed[Min(marked)] # 0
    BY <1>5, FavoritesNumbers
  <1>7. marked = {} => Favorites \cap ToSet(listed) = {}
    BY <1>1 DEF Favorites, ToSet
  <1> HIDE DEF marked
  <1> QED
    BY <1>4, <1>5, <1>6, <1>7

\* A playlist that is touched stays listed, and nothing else changes its being listed.
LEMMA TouchKeeps ==
    ASSUME ListsSound, NEW i \in DOMAIN lists
    PROVE  /\ Touch(i) \in Seq(Lists) /\ Len(Touch(i)) = Len(lists)
           /\ ToSet(Touch(i)) = DOMAIN lists
  <1>1. /\ recent \in Seq(Lists) /\ Len(recent) = Len(lists) /\ Len(recent) \in Nat
        /\ DOMAIN recent = 1 .. Len(recent) /\ ToSet(recent) = DOMAIN lists
    BY DEF ListsSound
  <1> DEFINE at == CHOOSE k \in DOMAIN recent : recent[k] = i
             rest == RemoveAt(recent, at)
             front == SubSeq(recent, 1, at - 1)
             back == SubSeq(recent, at + 1, Len(recent))
  <1>2. at \in 1 .. Len(recent) /\ recent[at] = i
    BY <1>1 DEF ToSet
  <1>3. Touch(i) = <<i>> \o rest
    BY DEF Touch
  <1> HIDE DEF at
  <1>4. rest = front \o back
    BY DEF RemoveAt
  <1>5. /\ front \in Seq(Lists) /\ Len(front) = at - 1
        /\ \A k \in 1 .. at - 1 : front[k] = recent[k]
    BY <1>1, <1>2, SubSeqProperties
  <1>6. /\ back \in Seq(Lists) /\ Len(back) = Len(recent) - at
        /\ \A k \in 1 .. Len(recent) - at : back[k] = recent[at + k]
    <2>1. at + 1 \in 1 .. Len(recent) + 1 /\ Len(recent) \in (at + 1) - 1 .. Len(recent)
      BY <1>1, <1>2
    <2>2. /\ back \in Seq(Lists)
          /\ Len(back) = IF at + 1 <= Len(recent) THEN Len(recent) - (at + 1) + 1 ELSE 0
          /\ \A k \in 1 .. Len(recent) - (at + 1) + 1 : back[k] = recent[at + 1 + k - 1]
      BY <1>1, <1>2, <2>1, SubSeqProperties
    <2>3. Len(recent) - (at + 1) + 1 = Len(recent) - at
      BY <1>1, <1>2
    <2>4. \A k \in 1 .. Len(recent) - at : at + 1 + k - 1 = at + k
      BY <1>1, <1>2
    <2> HIDE DEF back
    <2>5. Len(back) = Len(recent) - at
      <3>1. CASE at + 1 <= Len(recent)
        BY <1>1, <1>2, <2>2, <2>3, <3>1
      <3>2. CASE ~(at + 1 <= Len(recent))
        <4>1. Len(back) = 0
          BY <2>2, <3>2
        <4>2. Len(recent) - at = 0
          <5> DEFINE l == Len(recent)
          <5>1. l \in Nat /\ at \in 1 .. l /\ ~(at + 1 <= l)
            BY <1>1, <1>2, <3>2
          <5> HIDE DEF l
          <5>2. l - at = 0
            BY <5>1
          <5> QED
            BY <5>2 DEF l
        <4> QED
          BY <4>1, <4>2
      <3> QED
        BY <3>1, <3>2
    <2> QED
      BY <2>2, <2>3, <2>4, <2>5
  <1> HIDE DEF front, back, rest
  <1>7. /\ rest \in Seq(Lists) /\ Len(rest) = Len(recent) - 1
        /\ \A k \in 1 .. Len(rest) : rest[k] = IF k < at THEN recent[k] ELSE recent[k + 1]
    <2>1. /\ rest \in Seq(Lists) /\ Len(rest) = Len(front) + Len(back)
          /\ \A k \in 1 .. Len(front) + Len(back) :
               rest[k] = IF k <= Len(front) THEN front[k] ELSE back[k - Len(front)]
      BY <1>4, <1>5, <1>6, ConcatProperties
    <2>2. Len(rest) = Len(recent) - 1
      BY <1>1, <1>2, <1>5, <1>6, <2>1
    <2>3. ASSUME NEW k \in 1 .. Len(rest)
          PROVE  rest[k] = IF k < at THEN recent[k] ELSE recent[k + 1]
      <3>1. CASE k < at
        BY <1>1, <1>2, <1>5, <1>6, <2>1, <2>2, <2>3, <3>1
      <3>2. CASE k >= at
        <4>1. rest[k] = back[k - (at - 1)] /\ k - (at - 1) \in 1 .. Len(recent) - at
          BY <1>1, <1>2, <1>5, <1>6, <2>1, <2>2, <2>3, <3>2
        <4>2. at + (k - (at - 1)) = k + 1
          BY <1>1, <1>2, <2>1, <2>3
        <4> QED
          BY <1>2, <1>6, <3>2, <4>1, <4>2
      <3> QED
        BY <1>2, <2>1, <2>3, <3>1, <3>2
    <2> QED
      BY <2>1, <2>2, <2>3
  <1> DEFINE new == <<i>> \o rest
  <1>8. /\ new \in Seq(Lists) /\ Len(new) = Len(recent)
        /\ \A k \in 1 .. Len(recent) : new[k] = IF k = 1 THEN i ELSE rest[k - 1]
    <2>1. <<i>> \in Seq(Lists) /\ Len(<<i>>) = 1 /\ <<i>>[1] = i
      BY ListRows
    <2> DEFINE one == <<i>>
    <2> HIDE DEF one
    <2>2. one \in Seq(Lists) /\ Len(one) = 1 /\ one[1] = i /\ new = one \o rest
      BY <2>1 DEF one
    <2>3. /\ new \in Seq(Lists) /\ Len(new) = 1 + Len(rest)
          /\ \A k \in 1 .. 1 + Len(rest) : new[k] = IF k <= 1 THEN one[k] ELSE rest[k - 1]
      BY <1>7, <2>2, ConcatProperties
    <2> HIDE DEF new
    <2> QED
      BY <1>1, <1>2, <1>7, <2>2, <2>3
  <1> HIDE DEF new
  <1>9. ToSet(new) = DOMAIN lists
    <2>1. DOMAIN new = 1 .. Len(recent)
      BY <1>8
    <2>2. ASSUME NEW k \in 1 .. Len(recent) PROVE new[k] \in DOMAIN lists
      <3>1. k = 1 \/ (k - 1 \in 1 .. Len(rest) /\ k - 1 \in DOMAIN recent /\ k \in DOMAIN recent /\ k - 1 + 1 = k)
        BY <1>1, <1>7, <2>2
      <3>2. \A j \in DOMAIN recent : recent[j] \in DOMAIN lists
        BY <1>1 DEF ToSet
      <3> QED
        BY <1>7, <1>8, <2>2, <3>1, <3>2
    <2>3. ASSUME NEW j \in DOMAIN lists PROVE \E k \in 1 .. Len(recent) : new[k] = j
      <3>1. PICK k \in 1 .. Len(recent) : recent[k] = j
        BY <1>1 DEF ToSet
      <3>2. CASE j = i
        BY <1>2, <1>8, <3>2
      <3>3. CASE j # i
        <4>1. k < at \/ k > at
          BY <1>2, <3>1, <3>3
        <4>2. CASE k < at
          <5>1. k + 1 \in 1 .. Len(recent) /\ k \in 1 .. Len(rest) /\ k + 1 # 1 /\ (k + 1) - 1 = k
            BY <1>1, <1>2, <1>7, <3>1, <4>2
          <5> QED
            BY <1>7, <1>8, <3>1, <4>2, <5>1
        <4>3. CASE k > at
          <5>1. k - 1 \in 1 .. Len(rest) /\ k # 1 /\ ~(k - 1 < at) /\ (k - 1) + 1 = k
            BY <1>1, <1>2, <1>7, <3>1, <4>3
          <5> QED
            BY <1>7, <1>8, <3>1, <5>1
        <4> QED
          BY <4>1, <4>2, <4>3
      <3> QED
        BY <3>2, <3>3
    <2> QED
      BY <2>1, <2>2, <2>3 DEF ToSet
  <1> QED
    BY <1>1, <1>3, <1>8, <1>9 DEF new

\* A playlist more.
LEMMA ListCreated ==
    ASSUME ListsSound, NEW b \in BOOLEAN, Len(lists) < MaxLists,
           lists' = Append(lists, [favorites |-> b, tracks |-> {}]),
           recent' = <<Len(lists) + 1>> \o recent, UNCHANGED removed
    PROVE  /\ ListsSound' /\ Grows /\ Len(lists') = Len(lists) + 1
           /\ DOMAIN lists' = DOMAIN lists \cup {Len(lists) + 1} /\ Len(lists) + 1 \in Lists
           /\ Len(lists) + 1 \notin DOMAIN lists
           /\ \A i \in DOMAIN lists : lists'[i] = lists[i]
           /\ lists'[Len(lists) + 1].favorites = b /\ lists'[Len(lists) + 1].tracks = {}
           /\ Favorites' = IF b THEN Favorites \cup {Len(lists) + 1} ELSE Favorites
           /\ InFavorites' = InFavorites
  <1> DEFINE R == [favorites: BOOLEAN, tracks: SUBSET Tracks]
             row == [favorites |-> b, tracks |-> {}]
             n == Len(lists) + 1
  <1>1. /\ lists \in Seq(R) /\ row \in R /\ Len(lists) <= MaxLists /\ Len(lists) \in Nat
        /\ DOMAIN lists = 1 .. Len(lists) /\ row.favorites = b /\ row.tracks = {}
        /\ recent \in Seq(Lists) /\ Len(recent) = Len(lists) /\ ToSet(recent) = DOMAIN lists
        /\ removed \subseteq Tracks
    BY DEF ListsSound
  <1> HIDE DEF R, row
  <1>2. /\ lists' \in Seq(R) /\ Len(lists') = n
        /\ \A i \in DOMAIN lists : lists'[i] = lists[i]
        /\ lists'[n] = row
    BY <1>1, AppendProperties DEF row
  <1>3. /\ DOMAIN lists' = DOMAIN lists \cup {n} /\ n \in Lists /\ n \notin DOMAIN lists
        /\ Len(lists') <= MaxLists
    <2>1. DOMAIN lists' = 1 .. n
      BY <1>2
    <2> QED
      BY <1>1, <1>2, <2>1, FavoritesNumbers
  <1>4. /\ recent' \in Seq(Lists) /\ Len(recent') = n /\ ToSet(recent') = DOMAIN lists'
    <2>1. PICK one : one = <<n>>
      OBVIOUS
    <2>2. one \in Seq(Lists) /\ Len(one) = 1 /\ one[1] = n
      BY <1>3, <2>1
    <2>3. recent' = one \o recent
      BY <2>1
    <2>4. /\ recent' \in Seq(Lists) /\ Len(recent') = 1 + Len(recent)
          /\ \A k \in 1 .. 1 + Len(recent) : recent'[k] = IF k <= 1 THEN one[k] ELSE recent[k - 1]
      BY <1>1, <2>2, <2>3, ConcatProperties
    <2>5. DOMAIN recent' = 1 .. n /\ Len(recent') = n
      BY <1>1, <2>4
    <2>6. ASSUME NEW k \in 1 .. n PROVE recent'[k] \in DOMAIN lists'
      <3>1. CASE k = 1
        BY <1>1, <1>3, <2>2, <2>4, <3>1
      <3>2. CASE k # 1
        <4>1. k - 1 \in DOMAIN recent /\ recent'[k] = recent[k - 1]
          BY <1>1, <2>4, <2>6, <3>2
        <4> QED
          BY <1>1, <1>3, <4>1 DEF ToSet
      <3> QED
        BY <3>1, <3>2
    <2>7. ASSUME NEW j \in DOMAIN lists' PROVE \E k \in 1 .. n : recent'[k] = j
      <3>1. CASE j = n
        BY <1>1, <2>2, <2>4, <3>1
      <3>2. CASE j # n
        <4>1. PICK k \in DOMAIN recent : recent[k] = j
          BY <1>1, <1>3, <3>2 DEF ToSet
        <4>2. k + 1 \in 1 .. n /\ recent'[k + 1] = recent[k]
          BY <1>1, <2>4
        <4> QED
          BY <4>1, <4>2
      <3> QED
        BY <3>1, <3>2
    <2>8. \A x : x \in ToSet(recent') <=> x \in DOMAIN lists'
      BY <2>5, <2>6, <2>7 DEF ToSet
    <2>9. ToSet(recent') = DOMAIN lists'
      BY <2>8
    <2> QED
      BY <2>4, <2>5, <2>9
  <1> HIDE DEF n
  <1>5. Favorites' = IF b THEN Favorites \cup {n} ELSE Favorites
    BY <1>1, <1>2, <1>3 DEF Favorites
  <1>6. InFavorites' = InFavorites
    <2>1. \A i \in Favorites : i \in DOMAIN lists
      BY DEF Favorites
    <2>2. \A i \in Favorites : lists'[i].tracks = lists[i].tracks
      BY <1>2, <2>1
    <2>3. \A x : x \in InFavorites' <=> \E i \in Favorites' : x \in lists'[i].tracks
      BY DEF InFavorites
    <2>4. \A x : x \in InFavorites <=> \E i \in Favorites : x \in lists[i].tracks
      BY DEF InFavorites
    <2>5. ASSUME NEW x \in InFavorites' PROVE x \in InFavorites
      <3>1. PICK i \in Favorites' : x \in lists'[i].tracks
        BY <2>3, <2>5
      <3>2. i \in Favorites
        BY <1>1, <1>2, <1>5, <3>1
      <3> QED
        BY <2>2, <2>4, <3>1, <3>2
    <2>6. ASSUME NEW x \in InFavorites PROVE x \in InFavorites'
      <3>1. PICK i \in Favorites : x \in lists[i].tracks
        BY <2>4, <2>6
      <3>2. i \in Favorites'
        BY <1>5, <3>1
      <3> QED
        BY <2>2, <2>3, <3>1, <3>2
    <2> QED
      BY <2>5, <2>6
  <1>7. ListsSound'
    BY <1>1, <1>2, <1>3, <1>4 DEF ListsSound, R
  <1>8. Grows
    BY <1>3, <1>5, <1>6 DEF Grows
  <1> QED
    BY <1>1, <1>2, <1>3, <1>5, <1>6, <1>7, <1>8 DEF n

\* A playlist has other tracks.
LEMMA ListChanged ==
    ASSUME ListsSound, NEW i \in DOMAIN lists, NEW T \in SUBSET Tracks,
           lists' = [lists EXCEPT ![i].tracks = T], recent' = Touch(i), removed' \subseteq Tracks
    PROVE  /\ ListsSound' /\ Len(lists') = Len(lists) /\ DOMAIN lists' = DOMAIN lists
           /\ \A j \in DOMAIN lists : j # i => lists'[j] = lists[j]
           /\ lists'[i].tracks = T /\ Favorites' = Favorites
  <1> DEFINE R == [favorites: BOOLEAN, tracks: SUBSET Tracks]
             row == [lists[i] EXCEPT !.tracks = T]
  <1>1. lists \in Seq(R) /\ Len(lists) <= MaxLists /\ DOMAIN lists = 1 .. Len(lists)
    BY DEF ListsSound
  <1>2. lists[i] \in R
    <2> HIDE DEF R
    <2> QED
      BY <1>1
  <1>3. row \in R /\ row.tracks = T /\ row.favorites = lists[i].favorites
    BY <1>2
  <1>4. lists' = [lists EXCEPT ![i] = row]
    OBVIOUS
  <1> HIDE DEF R, row
  <1>5. /\ lists' \in Seq(R) /\ Len(lists') = Len(lists) /\ DOMAIN lists' = DOMAIN lists
        /\ \A j \in DOMAIN lists : j # i => lists'[j] = lists[j]
        /\ lists'[i] = row
    BY <1>1, <1>3, <1>4, ExceptSeq
  <1>6. Favorites' = Favorites
    BY <1>3, <1>5 DEF Favorites
  <1>7. ListsSound'
    <2>1. Touch(i) \in Seq(Lists) /\ Len(Touch(i)) = Len(lists) /\ ToSet(Touch(i)) = DOMAIN lists
      BY TouchKeeps
    <2>2. lists' \in Seq([favorites: BOOLEAN, tracks: SUBSET Tracks])
      BY <1>5 DEF R
    <2> QED
      BY <1>1, <1>5, <2>1, <2>2 DEF ListsSound
  <1> QED
    BY <1>3, <1>5, <1>6, <1>7

LEMMA ListAdded ==
    ASSUME ListsSound, NEW i \in DOMAIN lists, NEW tr \in Tracks,
           lists' = [lists EXCEPT ![i].tracks = @ \cup {tr}], recent' = Touch(i), UNCHANGED removed
    PROVE  /\ ListsSound' /\ Grows /\ Len(lists') = Len(lists) /\ DOMAIN lists' = DOMAIN lists
           /\ \A j \in DOMAIN lists : lists[j].tracks \subseteq lists'[j].tracks
           /\ lists'[i].tracks = lists[i].tracks \cup {tr} /\ Favorites' = Favorites
           /\ InFavorites' = IF i \in Favorites THEN InFavorites \cup {tr} ELSE InFavorites
  <1> DEFINE T == lists[i].tracks \cup {tr}
  <1>1. T \in SUBSET Tracks
    BY ListRows
  <1>2. lists' = [lists EXCEPT ![i].tracks = T] /\ removed' \subseteq Tracks
    BY DEF ListsSound
  <1> HIDE DEF T
  <1>3. /\ ListsSound' /\ Len(lists') = Len(lists) /\ DOMAIN lists' = DOMAIN lists
        /\ \A j \in DOMAIN lists : j # i => lists'[j] = lists[j]
        /\ lists'[i].tracks = T /\ Favorites' = Favorites
    BY <1>1, <1>2, ListChanged
  <1>4. /\ \A j \in DOMAIN lists : lists[j].tracks \subseteq lists'[j].tracks
        /\ lists'[i].tracks = lists[i].tracks \cup {tr}
    BY <1>3 DEF T
  <1>5. InFavorites' = IF i \in Favorites THEN InFavorites \cup {tr} ELSE InFavorites
    <2>1. Favorites \subseteq DOMAIN lists
      BY DEF Favorites
    <2>2. \A x : x \in InFavorites' <=> \E j \in Favorites : x \in lists'[j].tracks
      BY <1>3 DEF InFavorites
    <2>3. \A x : x \in InFavorites <=> \E j \in Favorites : x \in lists[j].tracks
      BY DEF InFavorites
    <2>4. \A j \in Favorites : j # i => lists'[j].tracks = lists[j].tracks
      BY <1>3, <2>1
    <2>5. CASE i \in Favorites
      <3>1. \A x : x \in InFavorites' <=> x \in InFavorites \/ x = tr
        BY <1>4, <2>2, <2>3, <2>4, <2>5
      <3>2. InFavorites' = InFavorites \cup {tr}
        BY <3>1
      <3> QED
        BY <2>5, <3>2
    <2>6. CASE i \notin Favorites
      <3>1. \A x : x \in InFavorites' <=> x \in InFavorites
        BY <2>2, <2>3, <2>4, <2>6
      <3>2. InFavorites' = InFavorites
        BY <3>1
      <3> QED
        BY <2>6, <3>2
    <2> QED
      BY <2>5, <2>6
  <1> QED
    BY <1>3, <1>4, <1>5 DEF Grows

LEMMA ListReduced ==
    ASSUME ListsSound, NEW i \in DOMAIN lists, NEW tr \in Tracks,
           lists' = [lists EXCEPT ![i].tracks = @ \ {tr}], recent' = Touch(i),
           removed' = removed \cup {tr}
    PROVE  /\ ListsSound' /\ Grows /\ Len(lists') = Len(lists) /\ DOMAIN lists' = DOMAIN lists
           /\ \A j \in DOMAIN lists : j # i => lists'[j] = lists[j]
           /\ lists'[i].tracks = lists[i].tracks \ {tr} /\ Favorites' = Favorites
  <1> DEFINE T == lists[i].tracks \ {tr}
  <1>1. T \in SUBSET Tracks
    BY ListRows
  <1>2. lists' = [lists EXCEPT ![i].tracks = T] /\ removed' \subseteq Tracks
    BY DEF ListsSound
  <1> HIDE DEF T
  <1>3. /\ ListsSound' /\ Len(lists') = Len(lists) /\ DOMAIN lists' = DOMAIN lists
        /\ \A j \in DOMAIN lists : j # i => lists'[j] = lists[j]
        /\ lists'[i].tracks = T /\ Favorites' = Favorites
    BY <1>1, <1>2, ListChanged
  <1>4. InFavorites \cup removed \subseteq InFavorites' \cup removed'
    <2>1. Favorites \subseteq DOMAIN lists
      BY DEF Favorites
    <2>2. \A x : x \in InFavorites' <=> \E j \in Favorites : x \in lists'[j].tracks
      BY <1>3 DEF InFavorites
    <2>3. \A x : x \in InFavorites <=> \E j \in Favorites : x \in lists[j].tracks
      BY DEF InFavorites
    <2>4. \A j \in Favorites : \A x : x \in lists[j].tracks /\ x # tr => x \in lists'[j].tracks
      BY <1>3, <2>1 DEF T
    <2> QED
      BY <2>2, <2>3, <2>4
  <1> QED
    BY <1>3, <1>4 DEF Grows, T

-----------------------------------------------------------------------------
(* What the service does with a request *)

FoundFor(t) == IF Ensures(t) THEN Found(FirstPage) ELSE 0

LEMMA ListServed ==
    ASSUME FavoritesTyped, NEW t \in tasks, ServeList(t)
    PROVE  /\ t.op \in {"list", "relist"} /\ t.answer = "none"
           /\ UNCHANGED <<service, client, begun, disturbed>> /\ excused' \in BOOLEAN
           /\ FoundFor(t) \in Favorites \cup {0}
           /\ FoundFor(t) = 0 /\ Ensures(t) => Favorites \cap ToSet(FirstPage) = {}
           /\ excused' = (excused \/ (Ensures(t) /\ FoundFor(t) = 0 /\ InVain # {})
                                  \/ (Ensures(t) /\ Favorites # {} /\ Favorites \cap ToSet(FirstPage) = {}))
           /\ \E u \in Task :
                /\ tasks' = (tasks \ {t}) \cup {u}
                /\ Answers(t, u, "ok", FoundFor(t),
                           IF FoundFor(t) = 0 THEN {} ELSE lists[FoundFor(t)].tracks,
                           ToSet(FirstPage))
  <1>1. ListsSound /\ t \in Task
    BY DEF FavoritesTyped, TasksSound
  <1>2. /\ t.op \in {"list", "relist"} /\ t.answer = "none"
        /\ UNCHANGED <<service, client, begun, disturbed>>
        /\ Answered(t, "ok", FoundFor(t), ToSet(FirstPage))
    BY FavoritesNumbers DEF ServeList, FoundFor
  <1>3. /\ FirstPage \in Seq(DOMAIN lists) /\ ToSet(FirstPage) \subseteq DOMAIN lists
        /\ Found(FirstPage) \in Favorites \cup {0} /\ Found(FirstPage) \in Lists \cup {0}
        /\ Found(FirstPage) = 0 => Favorites \cap ToSet(FirstPage) = {}
    BY <1>1, Lists1, FoundThere
  <1>4. /\ FoundFor(t) \in Favorites \cup {0} /\ FoundFor(t) \in Lists \cup {0}
        /\ FoundFor(t) = 0 /\ Ensures(t) => Favorites \cap ToSet(FirstPage) = {}
    BY <1>3 DEF FoundFor
  <1>5. excused' = (excused \/ (Ensures(t) /\ FoundFor(t) = 0 /\ InVain # {})
                            \/ (Ensures(t) /\ Favorites # {} /\ Favorites \cap ToSet(FirstPage) = {}))
    BY FavoritesNumbers DEF ServeList, FoundFor
  <1>6. excused \in BOOLEAN
    BY DEF FavoritesTyped, CountersSound
  <1>7. excused' \in BOOLEAN
    BY <1>5, <1>6, Zenon
  <1>8. ToSet(FirstPage) \in SUBSET Lists
    BY <1>1, <1>3, ListRows
  <1>9. lists' = lists
    BY <1>2 DEF service
  <1>10. FoundFor(t) # 0 => lists'[FoundFor(t)].tracks \in SUBSET Tracks
    BY <1>1, <1>4, <1>9, ListRows
  <1> DEFINE found == FoundFor(t)
  <1> HIDE DEF found
  <1>11. \E u \in Task :
           /\ tasks' = (tasks \ {t}) \cup {u}
           /\ Answers(t, u, "ok", found, IF found = 0 THEN {} ELSE lists'[found].tracks,
                      ToSet(FirstPage))
    BY <1>1, <1>2, <1>4, <1>8, <1>10, TaskAnswered DEF found
  <1>12. \E u \in Task :
           /\ tasks' = (tasks \ {t}) \cup {u}
           /\ Answers(t, u, "ok", found, IF found = 0 THEN {} ELSE lists[found].tracks,
                      ToSet(FirstPage))
    BY <1>9, <1>11
  <1> QED
    BY <1>2, <1>4, <1>5, <1>7, <1>12 DEF found

\* Who gave the new playlist n the name of Favorites, if it has it.
NamedBy(t, n) ==
    /\ t.op = "favorites" => Favorites' = Favorites \cup {n} /\ namesakes' = namesakes
    /\ t.op = "create" => \/ Favorites' = Favorites /\ namesakes' = namesakes
                          \/ Favorites' = Favorites \cup {n} /\ namesakes' = namesakes \cup {n}

LEMMA CreateServed ==
    ASSUME FavoritesTyped, NEW t \in tasks, ServeCreate(t)
    PROVE  LET n == Len(lists) + 1 IN
           /\ t.op \in {"favorites", "create"} /\ t.answer = "none"
           /\ UNCHANGED <<removed, client, begun, failures, excused, disturbed>>
           /\ ListsSound' /\ Grows /\ Len(lists') = n
           /\ DOMAIN lists' = DOMAIN lists \cup {n} /\ n \notin DOMAIN lists /\ n # 0 /\ n \in Lists
           /\ \A i \in DOMAIN lists : lists'[i] = lists[i]
           /\ NamedBy(t, n) /\ InFavorites' = InFavorites
           /\ \E u \in Task : tasks' = (tasks \ {t}) \cup {u} /\ Answers(t, u, "ok", n, {}, {})
  <1> DEFINE n == Len(lists) + 1
  <1>1. ListsSound /\ t \in Task
    BY DEF FavoritesTyped, TasksSound
  <1>2. /\ t.op \in {"favorites", "create"} /\ t.answer = "none" /\ Len(lists) < MaxLists
        /\ Answered(t, "ok", n, {}) /\ UNCHANGED removed
    BY DEF ServeCreate
  <1>3. PICK b \in BOOLEAN :
          /\ t.op = "favorites" => b
          /\ lists' = Append(lists, [favorites |-> b, tracks |-> {}]) /\ recent' = <<n>> \o recent
          /\ UNCHANGED <<client, begun, failures, excused, disturbed>>
          /\ namesakes' = namesakes \cup IF b /\ t.op = "create" THEN {n} ELSE {}
    BY Zenon DEF ServeCreate, Changes
  <1>4. /\ ListsSound' /\ Grows /\ Len(lists') = n
        /\ DOMAIN lists' = DOMAIN lists \cup {n} /\ n \in Lists /\ n \notin DOMAIN lists
        /\ \A i \in DOMAIN lists : lists'[i] = lists[i]
        /\ lists'[n].tracks = {}
        /\ Favorites' = IF b THEN Favorites \cup {n} ELSE Favorites
        /\ InFavorites' = InFavorites
    BY <1>1, <1>2, <1>3, ListCreated
  <1> HIDE DEF n
  <1>5. n # 0 /\ NamedBy(t, n)
    <2>1. n # 0
      BY <1>4, FavoritesNumbers
    <2>2. CASE b
      <3>1. t.op = "create" => namesakes' = namesakes \cup {n}
        BY <1>3, <2>2
      <3>2. t.op = "favorites" => namesakes' = namesakes
        BY <1>3
      <3> QED
        BY <1>4, <2>1, <2>2, <3>1, <3>2 DEF NamedBy
    <2>3. CASE ~b
      <3>1. t.op # "favorites" /\ namesakes' = namesakes
        BY <1>3, <2>3
      <3> QED
        BY <1>4, <2>1, <2>3, <3>1 DEF NamedBy
    <2> HIDE DEF n
    <2>4. b \/ ~b
      OBVIOUS
    <2> QED
      BY ONLY <2>1, <2>2, <2>3, <2>4
  <1>6. \E u \in Task :
           /\ tasks' = (tasks \ {t}) \cup {u}
           /\ Answers(t, u, "ok", n, IF n = 0 THEN {} ELSE lists'[n].tracks, {})
    <2>1. /\ t \in Task /\ n \in Lists \cup {0} /\ {} \in SUBSET Lists /\ Answered(t, "ok", n, {})
          /\ (n # 0 => lists'[n].tracks \in SUBSET Tracks)
      BY <1>1, <1>2, <1>4
    <2> QED
      BY ONLY <2>1, TaskAnswered
  <1>7. \E u \in Task : tasks' = (tasks \ {t}) \cup {u} /\ Answers(t, u, "ok", n, {}, {})
    BY <1>4, <1>5, <1>6
  <1> QED
    BY <1>2, <1>3, <1>4, <1>5, <1>7 DEF n

LEMMA AddServed ==
    ASSUME FavoritesTyped, NEW t \in tasks, ServeAdd(t)
    PROVE  /\ t.op = "add" /\ t.answer = "none" /\ t.list \in DOMAIN lists /\ t.track \in Tracks
           /\ t.track \notin lists[t.list].tracks
           /\ UNCHANGED <<removed, namesakes, client, begun, failures, excused, disturbed>>
           /\ ListsSound' /\ Grows /\ Len(lists') = Len(lists) /\ DOMAIN lists' = DOMAIN lists
           /\ \A j \in DOMAIN lists : lists[j].tracks \subseteq lists'[j].tracks
           /\ lists'[t.list].tracks = lists[t.list].tracks \cup {t.track}
           /\ Favorites' = Favorites
           /\ InFavorites' = IF t.list \in Favorites THEN InFavorites \cup {t.track} ELSE InFavorites
           /\ \E u \in Task : /\ tasks' = (tasks \ {t}) \cup {u}
                              /\ Answers(t, u, "ok", t.list, lists'[t.list].tracks, {})
  <1>1. ListsSound /\ t \in Task /\ TaskSound(t)
    BY DEF FavoritesTyped, TasksSound
  <1>2. /\ t.op = "add" /\ t.answer = "none" /\ t.track \notin lists[t.list].tracks
        /\ lists' = [lists EXCEPT ![t.list].tracks = @ \cup {t.track}]
        /\ recent' = Touch(t.list) /\ Answered(t, "ok", t.list, {})
        /\ UNCHANGED <<removed, namesakes, client, begun, failures, excused, disturbed>>
    BY DEF ServeAdd, Changes
  <1>3. t.kind \in {"quick", "toggle", "pick"}
    BY <1>1, <1>2, FavoritesNumbers, TaskFields DEF TaskSound, Sends
  <1>4. t.list \in DOMAIN lists /\ t.list \in Lists /\ t.list # 0 /\ t.track \in Tracks
    BY <1>1, <1>2, <1>3, FavoritesNumbers, ListRows DEF TaskSound
  <1>5. /\ ListsSound' /\ Grows /\ Len(lists') = Len(lists) /\ DOMAIN lists' = DOMAIN lists
        /\ \A j \in DOMAIN lists : lists[j].tracks \subseteq lists'[j].tracks
        /\ lists'[t.list].tracks = lists[t.list].tracks \cup {t.track}
        /\ Favorites' = Favorites
        /\ InFavorites' = IF t.list \in Favorites THEN InFavorites \cup {t.track} ELSE InFavorites
    BY <1>1, <1>2, <1>4, ListAdded
  <1>6. lists'[t.list].tracks \in SUBSET Tracks
    BY <1>1, <1>4, <1>5, ListRows
  <1>7. \E u \in Task :
           /\ tasks' = (tasks \ {t}) \cup {u}
           /\ Answers(t, u, "ok", t.list, IF t.list = 0 THEN {} ELSE lists'[t.list].tracks, {})
    BY <1>1, <1>2, <1>4, <1>6, TaskAnswered
  <1>8. \E u \in Task : /\ tasks' = (tasks \ {t}) \cup {u}
                        /\ Answers(t, u, "ok", t.list, lists'[t.list].tracks, {})
    BY <1>4, <1>7
  <1> QED
    BY <1>2, <1>4, <1>5, <1>8

LEMMA RemoveServed ==
    ASSUME FavoritesTyped, NEW t \in tasks, ServeRemove(t)
    PROVE  /\ t.op = "remove" /\ t.answer = "none" /\ t.list \in DOMAIN lists /\ t.track \in Tracks
           /\ t.kind = "toggle" /\ t.track \in lists[t.list].tracks /\ t.list \in Favorites
           /\ UNCHANGED <<namesakes, client, begun, failures, excused, disturbed>>
           /\ ListsSound' /\ Grows /\ Len(lists') = Len(lists) /\ DOMAIN lists' = DOMAIN lists
           /\ \A j \in DOMAIN lists : j # t.list => lists'[j] = lists[j]
           /\ lists'[t.list].tracks = lists[t.list].tracks \ {t.track}
           /\ Favorites' = Favorites
           /\ \E u \in Task : /\ tasks' = (tasks \ {t}) \cup {u}
                              /\ Answers(t, u, "ok", t.list, lists'[t.list].tracks, {})
  <1>1. ListsSound /\ t \in Task /\ TaskSound(t)
    BY DEF FavoritesTyped, TasksSound
  <1>2. /\ t.op = "remove" /\ t.answer = "none" /\ t.track \in lists[t.list].tracks
        /\ lists' = [lists EXCEPT ![t.list].tracks = @ \ {t.track}]
        /\ recent' = Touch(t.list) /\ Answered(t, "ok", t.list, {})
        /\ removed' = removed \cup {t.track}
        /\ UNCHANGED <<namesakes, client, begun, failures, excused, disturbed>>
    BY DEF ServeRemove, Changes
  <1>3. t.kind = "toggle"
    BY <1>1, <1>2, FavoritesNumbers, TaskFields DEF TaskSound, Sends
  <1>4. /\ t.list \in DOMAIN lists /\ t.list \in Lists /\ t.list # 0 /\ t.track \in Tracks
        /\ t.list \in Favorites
    BY <1>1, <1>2, <1>3, FavoritesNumbers, ListRows DEF TaskSound
  <1>5. /\ ListsSound' /\ Grows /\ Len(lists') = Len(lists) /\ DOMAIN lists' = DOMAIN lists
        /\ \A j \in DOMAIN lists : j # t.list => lists'[j] = lists[j]
        /\ lists'[t.list].tracks = lists[t.list].tracks \ {t.track}
        /\ Favorites' = Favorites
    BY <1>1, <1>2, <1>4, ListReduced
  <1>6. lists'[t.list].tracks \in SUBSET Tracks
    BY <1>1, <1>4, <1>5, ListRows
  <1>7. \E u \in Task :
           /\ tasks' = (tasks \ {t}) \cup {u}
           /\ Answers(t, u, "ok", t.list, IF t.list = 0 THEN {} ELSE lists'[t.list].tracks, {})
    BY <1>1, <1>2, <1>4, <1>6, TaskAnswered
  <1>8. \E u \in Task : /\ tasks' = (tasks \ {t}) \cup {u}
                        /\ Answers(t, u, "ok", t.list, lists'[t.list].tracks, {})
    BY <1>4, <1>7
  <1> QED
    BY <1>2, <1>3, <1>4, <1>5, <1>8

\* A conflict, or a failure, which leave the service as it is.
LEMMA RefusalServed ==
    ASSUME FavoritesTyped, NEW t \in tasks, ServeConflict(t) \/ Fail(t)
    PROVE  /\ UNCHANGED <<lists, recent, removed, namesakes, client, begun, excused>>
           /\ failures' \in 0 .. MaxFailures
           /\ \E u \in Task, how \in {"conflict", "error"} :
                /\ tasks' = (tasks \ {t}) \cup {u}
                /\ Answers(t, u, how, t.list, IF t.list = 0 THEN {} ELSE lists[t.list].tracks, {})
                /\ how = "error" => disturbed' = TRUE
                /\ how = "conflict" => /\ t.op = "add" /\ t.track \in lists[t.list].tracks
                                       /\ t.answer = "none" /\ UNCHANGED disturbed
  <1>1. /\ ListsSound /\ t \in Task /\ t.list \in Lists \cup {0} /\ CountersSound
        /\ (t.list # 0 => t.list \in DOMAIN lists)
    BY TaskFields, FavoritesNumbers DEF FavoritesTyped, TasksSound, TaskSound
  <1>2. /\ UNCHANGED <<lists, recent, removed, namesakes, client, begun, excused>>
        /\ failures' \in 0 .. MaxFailures
    BY <1>1, FavoritesNumbers DEF ServeConflict, Fail, service, CountersSound
  <1>3. PICK how \in {"conflict", "error"} :
          /\ Answered(t, how, t.list, {})
          /\ how = "error" => disturbed' = TRUE
          /\ how = "conflict" => /\ t.op = "add" /\ t.track \in lists[t.list].tracks
                                 /\ t.answer = "none" /\ UNCHANGED disturbed
    <2>1. CASE ServeConflict(t)
      BY <2>1 DEF ServeConflict
    <2>2. CASE Fail(t)
      BY <2>2 DEF Fail
    <2> QED
      BY <2>1, <2>2
  <1>4. t.list # 0 => lists'[t.list].tracks \in SUBSET Tracks
    BY <1>1, <1>2, ListRows
  <1>5. \E u \in Task :
           /\ tasks' = (tasks \ {t}) \cup {u}
           /\ Answers(t, u, how, t.list, IF t.list = 0 THEN {} ELSE lists'[t.list].tracks, {})
    BY <1>1, <1>3, <1>4, TaskAnswered
  <1>6. lists' = lists
    BY <1>2
  <1>7. \E u \in Task :
           /\ tasks' = (tasks \ {t}) \cup {u}
           /\ Answers(t, u, how, t.list, IF t.list = 0 THEN {} ELSE lists[t.list].tracks, {})
    BY <1>5, <1>6
  <1> QED
    BY <1>2, <1>3, <1>7

\* Whatever the service answers, what is known of it remains true.
LEMMA FavoritesServed ==
    ASSUME FavoritesTyped, NEW t \in tasks, Serve(t)
    PROVE  FavoritesTyped' /\ Grows /\ UNCHANGED <<client, begun>>
<1>1. /\ ListsSound /\ ClientSound /\ TasksSound /\ CountersSound
      /\ t \in Task /\ TaskSound(t)
  BY DEF FavoritesTyped, TasksSound
<1>2. CASE ServeList(t)
  <2>1. /\ t.op \in {"list", "relist"} /\ UNCHANGED <<service, client, begun, disturbed>>
        /\ excused' \in BOOLEAN /\ FoundFor(t) \in Favorites \cup {0}
    BY <1>2, ListServed
  <2>2. PICK u \in Task :
          /\ tasks' = (tasks \ {t}) \cup {u}
          /\ Answers(t, u, "ok", FoundFor(t),
                     IF FoundFor(t) = 0 THEN {} ELSE lists[FoundFor(t)].tracks, ToSet(FirstPage))
    BY <1>2, ListServed
  <2>3. Grows /\ Favorites' = Favorites /\ InFavorites' = InFavorites /\ lists' = lists
    BY <2>1, GrowsStill DEF service
  <2>4. ListsSound' /\ CountersSound'
    BY <1>1, <2>1 DEF ListsSound, CountersSound, service
  <2>5. ClientSound'
    BY <1>1, <2>1, <2>3, ClientGrows
  <2>6. TaskSound(u)'
    <3>1. u.list \in Favorites \cup {0} /\ u.seen \subseteq DOMAIN lists /\ Favorites \subseteq DOMAIN lists
      BY <1>1, <2>1, <2>2, Lists1, ListRows DEF Answers
    <3>2. u.op = t.op /\ u.kind = t.kind /\ u.track = t.track /\ u.answer = "ok"
      BY <2>2 DEF Answers
    <3> QED
      BY <1>1, <2>1, <2>3, <3>1, <3>2, FavoritesNumbers DEF TaskSound, Ensured, Ensures
  <2>7. TasksSound'
    BY <1>1, <2>2, <2>3, <2>6, TasksReplaced DEF Answers
  <2> QED
    BY <2>1, <2>3, <2>4, <2>5, <2>7 DEF FavoritesTyped
<1>3. CASE ServeCreate(t)
  <2> DEFINE n == Len(lists) + 1
  <2>1. /\ t.op \in {"favorites", "create"}
        /\ UNCHANGED <<removed, client, begun, failures, excused, disturbed>>
        /\ ListsSound' /\ Grows /\ DOMAIN lists' = DOMAIN lists \cup {n} /\ n # 0 /\ n \in Lists
        /\ NamedBy(t, n)
    BY <1>3, CreateServed
  <2>2. PICK u \in Task : tasks' = (tasks \ {t}) \cup {u} /\ Answers(t, u, "ok", n, {}, {})
    BY <1>3, CreateServed
  <2> HIDE DEF n
  <2>3. CountersSound' /\ ClientSound'
    BY <1>1, <2>1, ClientGrows DEF CountersSound, NamedBy
  <2>4. TaskSound(u)'
    BY <1>1, <2>1, <2>2, FavoritesNumbers DEF TaskSound, Ensured, Ensures, Answers, NamedBy
  <2>5. TasksSound'
    BY <1>1, <2>1, <2>2, <2>4, TasksReplaced DEF Answers
  <2> QED
    BY <2>1, <2>3, <2>5 DEF FavoritesTyped
<1>4. CASE ServeAdd(t)
  <2>1. /\ t.op = "add" /\ t.list \in DOMAIN lists /\ t.track \in Tracks
        /\ UNCHANGED <<removed, namesakes, client, begun, failures, excused, disturbed>>
        /\ ListsSound' /\ Grows /\ DOMAIN lists' = DOMAIN lists /\ Favorites' = Favorites
        /\ InFavorites' = IF t.list \in Favorites THEN InFavorites \cup {t.track} ELSE InFavorites
    BY <1>4, AddServed
  <2>2. PICK u \in Task : /\ tasks' = (tasks \ {t}) \cup {u}
                          /\ Answers(t, u, "ok", t.list, lists'[t.list].tracks, {})
    BY <1>4, AddServed
  <2>3. CountersSound' /\ ClientSound'
    BY <1>1, <2>1, ClientGrows DEF CountersSound
  <2>4. TaskSound(u)'
    BY <1>1, <2>1, <2>2, FavoritesNumbers DEF TaskSound, Ensured, Ensures, Answers
  <2>5. TasksSound'
    BY <1>1, <2>1, <2>2, <2>4, TasksReplaced DEF Answers
  <2> QED
    BY <2>1, <2>3, <2>5 DEF FavoritesTyped
<1>5. CASE ServeRemove(t)
  <2>1. /\ t.op = "remove" /\ t.kind = "toggle" /\ t.list \in Favorites /\ t.track \in Tracks
        /\ UNCHANGED <<namesakes, client, begun, failures, excused, disturbed>>
        /\ ListsSound' /\ Grows /\ DOMAIN lists' = DOMAIN lists /\ Favorites' = Favorites
    BY <1>5, RemoveServed
  <2>2. PICK u \in Task : /\ tasks' = (tasks \ {t}) \cup {u}
                          /\ Answers(t, u, "ok", t.list, lists'[t.list].tracks, {})
    BY <1>5, RemoveServed
  <2>3. CountersSound' /\ ClientSound'
    BY <1>1, <2>1, ClientGrows DEF CountersSound
  <2>4. TaskSound(u)'
    BY <1>1, <2>1, <2>2, FavoritesNumbers DEF TaskSound, Ensured, Ensures, Answers
  <2>5. TasksSound'
    BY <1>1, <2>1, <2>2, <2>4, TasksReplaced DEF Answers
  <2> QED
    BY <2>1, <2>3, <2>5 DEF FavoritesTyped
<1>6. CASE ServeConflict(t) \/ Fail(t)
  <2>1. /\ UNCHANGED <<lists, recent, removed, namesakes, client, begun, excused>> /\ failures' \in 0 .. MaxFailures
    BY <1>6, RefusalServed
  <2>2. PICK u \in Task, how \in {"conflict", "error"} :
          /\ tasks' = (tasks \ {t}) \cup {u}
          /\ Answers(t, u, how, t.list, IF t.list = 0 THEN {} ELSE lists[t.list].tracks, {})
          /\ how = "error" => disturbed' = TRUE
          /\ how = "conflict" => /\ t.op = "add" /\ t.track \in lists[t.list].tracks
                                 /\ t.answer = "none" /\ UNCHANGED disturbed
    BY <1>6, RefusalServed
  <2>3. Grows /\ Favorites' = Favorites /\ InFavorites' = InFavorites
    BY <2>1, GrowsStill
  <2>4. ListsSound' /\ CountersSound' /\ ClientSound'
    BY <1>1, <2>1, <2>2, <2>3, ClientGrows DEF ListsSound, CountersSound
  <2>5. how = "conflict" /\ t.kind = "quick" => t.track \in InFavorites
    BY <1>1, <2>2 DEF TaskSound, InFavorites
  <2>6. TaskSound(u)'
    BY <1>1, <2>1, <2>2, <2>3, <2>5, FavoritesNumbers DEF TaskSound, Ensured, Ensures, Answers
  <2>7. TasksSound'
    BY <1>1, <2>2, <2>3, <2>6, TasksReplaced DEF Answers
  <2> QED
    BY <2>1, <2>3, <2>4, <2>7 DEF FavoritesTyped
<1> QED
  BY <1>2, <1>3, <1>4, <1>5, <1>6 DEF Serve

-----------------------------------------------------------------------------
(* What the client does *)

\* The dialogs, field by field.
ActionsIs(a, track, list, known, waits, saves) ==
    /\ a \in Actions /\ a.track = track /\ a.list = list /\ a.tracks = known
    /\ a.loading = waits /\ a.saving = saves

PickerIs(p, track, known, waits, creates, saves, marks) ==
    /\ p \in Picker /\ p.track = track /\ p.lists = known /\ p.loading = waits
    /\ p.creating = creates /\ p.saving = saves /\ p.saved = marks

LEMMA ActionsFields ==
    ASSUME NEW a \in Actions
    PROVE  /\ a.track \in Tracks \cup {NoTrack} /\ a.list \in Lists \cup {0}
           /\ a.tracks \in SUBSET Tracks /\ a.loading \in BOOLEAN /\ a.saving \in BOOLEAN
           /\ ActionsIs(a, a.track, a.list, a.tracks, a.loading, a.saving)
<1> QED
  BY FavoritesNumbers DEF Actions, ActionsIs

LEMMA PickerFields ==
    ASSUME NEW p \in Picker
    PROVE  /\ p.track \in Tracks \cup {NoTrack} /\ p.lists \in SUBSET Lists
           /\ p.loading \in BOOLEAN /\ p.creating \in BOOLEAN
           /\ p.saving \in Lists \cup {0} /\ p.saved \in SUBSET Lists
           /\ PickerIs(p, p.track, p.lists, p.loading, p.creating, p.saving, p.saved)
<1> QED
  BY FavoritesNumbers DEF Picker, PickerIs

LEMMA ActionsWith ==
    ASSUME NEW a \in Actions
    PROVE  /\ \A x \in Tracks \cup {NoTrack} :
                ActionsIs([a EXCEPT !.track = x], x, a.list, a.tracks, a.loading, a.saving)
           /\ \A i \in Lists \cup {0} :
                ActionsIs([a EXCEPT !.list = i], a.track, i, a.tracks, a.loading, a.saving)
           /\ \A T \in SUBSET Tracks :
                ActionsIs([a EXCEPT !.tracks = T], a.track, a.list, T, a.loading, a.saving)
           /\ \A b \in BOOLEAN :
                /\ ActionsIs([a EXCEPT !.loading = b], a.track, a.list, a.tracks, b, a.saving)
                /\ ActionsIs([a EXCEPT !.saving = b], a.track, a.list, a.tracks, a.loading, b)
<1> QED
  BY FavoritesNumbers DEF Actions, ActionsIs

LEMMA PickerWith ==
    ASSUME NEW p \in Picker
    PROVE  /\ \A x \in Tracks \cup {NoTrack} :
                PickerIs([p EXCEPT !.track = x],
                         x, p.lists, p.loading, p.creating, p.saving, p.saved)
           /\ \A K \in SUBSET Lists :
                PickerIs([p EXCEPT !.lists = K],
                         p.track, K, p.loading, p.creating, p.saving, p.saved)
           /\ \A K \in SUBSET Lists :
                PickerIs([p EXCEPT !.saved = K],
                         p.track, p.lists, p.loading, p.creating, p.saving, K)
           /\ \A b \in BOOLEAN :
                /\ PickerIs([p EXCEPT !.loading = b],
                            p.track, p.lists, b, p.creating, p.saving, p.saved)
                /\ PickerIs([p EXCEPT !.creating = b],
                            p.track, p.lists, p.loading, b, p.saving, p.saved)
           /\ \A i \in Lists \cup {0} :
                PickerIs([p EXCEPT !.saving = i],
                         p.track, p.lists, p.loading, p.creating, i, p.saved)
<1> QED
  BY FavoritesNumbers DEF Picker, PickerIs

\* TrackActionsModal after each of its actions.
LEMMA OpenedActions ==
    ASSUME NEW a \in Actions, NEW x \in Tracks
    PROVE  ActionsIs([a EXCEPT !.track = x, !.loading = TRUE], x, a.list, a.tracks, TRUE, a.saving)
<1> DEFINE b == [a EXCEPT !.track = x]
           c == [b EXCEPT !.loading = TRUE]
<1>1. c = [a EXCEPT !.track = x, !.loading = TRUE]
  OBVIOUS
<1>2. ActionsIs(b, x, a.list, a.tracks, a.loading, a.saving)
  BY ActionsWith
<1> HIDE DEF b
<1>3. ActionsIs(c, b.track, b.list, b.tracks, TRUE, b.saving)
  BY <1>2, ActionsWith DEF ActionsIs
<1> HIDE DEF c
<1> QED
  BY <1>1, <1>2, <1>3 DEF ActionsIs

LEMMA LoadedActions ==
    ASSUME NEW a \in Actions, NEW i \in Lists \cup {0}, NEW T \in SUBSET Tracks
    PROVE  ActionsIs([a EXCEPT !.loading = FALSE, !.list = i, !.tracks = T],
                     a.track, i, T, FALSE, a.saving)
<1> DEFINE b == [a EXCEPT !.loading = FALSE]
           c == [b EXCEPT !.list = i]
           d == [c EXCEPT !.tracks = T]
<1>1. d = [a EXCEPT !.loading = FALSE, !.list = i, !.tracks = T]
  OBVIOUS
<1>2. ActionsIs(b, a.track, a.list, a.tracks, FALSE, a.saving)
  BY ActionsWith
<1> HIDE DEF b
<1>3. ActionsIs(c, b.track, i, b.tracks, b.loading, b.saving)
  BY <1>2, ActionsWith DEF ActionsIs
<1> HIDE DEF c
<1>4. ActionsIs(d, c.track, c.list, T, c.loading, c.saving)
  BY <1>3, ActionsWith DEF ActionsIs
<1> HIDE DEF d
<1> QED
  BY <1>1, <1>2, <1>3, <1>4 DEF ActionsIs

LEMMA ToggledActions ==
    ASSUME NEW a \in Actions, NEW i \in Lists \cup {0}, NEW T \in SUBSET Tracks
    PROVE  ActionsIs([a EXCEPT !.track = NoTrack, !.list = i, !.tracks = T, !.saving = FALSE],
                     NoTrack, i, T, a.loading, FALSE)
<1> DEFINE b == [a EXCEPT !.track = NoTrack]
           c == [b EXCEPT !.list = i]
           d == [c EXCEPT !.tracks = T]
           e == [d EXCEPT !.saving = FALSE]
<1>1. e = [a EXCEPT !.track = NoTrack, !.list = i, !.tracks = T, !.saving = FALSE]
  OBVIOUS
<1>2. ActionsIs(b, NoTrack, a.list, a.tracks, a.loading, a.saving)
  BY ActionsWith
<1> HIDE DEF b
<1>3. ActionsIs(c, b.track, i, b.tracks, b.loading, b.saving)
  BY <1>2, ActionsWith DEF ActionsIs
<1> HIDE DEF c
<1>4. ActionsIs(d, c.track, c.list, T, c.loading, c.saving)
  BY <1>3, ActionsWith DEF ActionsIs
<1> HIDE DEF d
<1>5. ActionsIs(e, d.track, d.list, d.tracks, d.loading, FALSE)
  BY <1>4, ActionsWith DEF ActionsIs
<1> HIDE DEF e
<1> QED
  BY <1>1, <1>2, <1>3, <1>4, <1>5 DEF ActionsIs

\* AddToPlaylistModal after each of its actions.
LEMMA OpenedPicker ==
    ASSUME NEW p \in Picker, NEW x \in Tracks
    PROVE  PickerIs([p EXCEPT !.track = x, !.loading = TRUE, !.saved = {}],
                    x, p.lists, TRUE, p.creating, p.saving, {})
<1> DEFINE q == [p EXCEPT !.track = x]
           c == [q EXCEPT !.loading = TRUE]
           d == [c EXCEPT !.saved = {}]
<1>1. d = [p EXCEPT !.track = x, !.loading = TRUE, !.saved = {}]
  OBVIOUS
<1>2. PickerIs(q, x, p.lists, p.loading, p.creating, p.saving, p.saved)
  BY PickerWith
<1> HIDE DEF q
<1>3. PickerIs(c, q.track, q.lists, TRUE, q.creating, q.saving, q.saved)
  <2>1. q \in Picker
    BY <1>2 DEF PickerIs
  <2> QED
    BY <2>1, PickerWith
<1> HIDE DEF c
<1>4. PickerIs(d, c.track, c.lists, c.loading, c.creating, c.saving, {})
  <2>1. c \in Picker
    BY <1>3 DEF PickerIs
  <2> QED
    BY <2>1, PickerWith
<1> HIDE DEF d
<1> QED
  BY <1>1, <1>2, <1>3, <1>4 DEF PickerIs

LEMMA LoadedPicker ==
    ASSUME NEW p \in Picker, NEW L \in SUBSET Lists
    PROVE  PickerIs([p EXCEPT !.loading = FALSE, !.lists = L],
                    p.track, L, FALSE, p.creating, p.saving, p.saved)
<1> DEFINE q == [p EXCEPT !.loading = FALSE]
           c == [q EXCEPT !.lists = L]
<1>1. c = [p EXCEPT !.loading = FALSE, !.lists = L]
  OBVIOUS
<1>2. PickerIs(q, p.track, p.lists, FALSE, p.creating, p.saving, p.saved)
  BY PickerWith
<1> HIDE DEF q
<1>3. PickerIs(c, q.track, L, q.loading, q.creating, q.saving, q.saved)
  <2>1. q \in Picker
    BY <1>2 DEF PickerIs
  <2> QED
    BY <2>1, PickerWith
<1> HIDE DEF c
<1> QED
  BY <1>1, <1>2, <1>3 DEF PickerIs

LEMMA PickedPicker ==
    ASSUME NEW p \in Picker, NEW L \in SUBSET Lists
    PROVE  PickerIs([p EXCEPT !.saving = NoList, !.saved = L],
                    p.track, p.lists, p.loading, p.creating, 0, L)
<1> DEFINE q == [p EXCEPT !.saving = NoList]
           c == [q EXCEPT !.saved = L]
<1>1. c = [p EXCEPT !.saving = NoList, !.saved = L]
  OBVIOUS
<1>2. PickerIs(q, p.track, p.lists, p.loading, p.creating, 0, p.saved)
  BY PickerWith, FavoritesNumbers
<1> HIDE DEF q
<1>3. PickerIs(c, q.track, q.lists, q.loading, q.creating, q.saving, L)
  <2>1. q \in Picker
    BY <1>2 DEF PickerIs
  <2> QED
    BY <2>1, PickerWith
<1> HIDE DEF c
<1> QED
  BY <1>1, <1>2, <1>3 DEF PickerIs

LEMMA CreatedPicker ==
    ASSUME NEW p \in Picker, NEW L \in SUBSET Lists
    PROVE  PickerIs([p EXCEPT !.creating = FALSE, !.lists = L],
                    p.track, L, p.loading, FALSE, p.saving, p.saved)
<1> DEFINE q == [p EXCEPT !.creating = FALSE]
           c == [q EXCEPT !.lists = L]
<1>1. c = [p EXCEPT !.creating = FALSE, !.lists = L]
  OBVIOUS
<1>2. PickerIs(q, p.track, p.lists, p.loading, FALSE, p.saving, p.saved)
  BY PickerWith
<1> HIDE DEF q
<1>3. PickerIs(c, q.track, L, q.loading, q.creating, q.saving, q.saved)
  <2>1. q \in Picker
    BY <1>2 DEF PickerIs
  <2> QED
    BY <2>1, PickerWith
<1> HIDE DEF c
<1> QED
  BY <1>1, <1>2, <1>3 DEF PickerIs

LEMMA NothingOpen ==
    /\ ActionsIs(NoActions, NoTrack, 0, {}, FALSE, FALSE)
    /\ PickerIs(NoPicker, NoTrack, {}, FALSE, FALSE, 0, {})
<1> QED
  BY FavoritesNumbers DEF ActionsIs, PickerIs, Actions, Picker, NoActions, NoPicker

-----------------------------------------------------------------------------
(* Types after a step of the client *)

\* A load that is waited for is of the page that is open.
LoadsOfPage == \A t \in tasks : t.live /\ t.kind \in Pages => t.kind = page

\* The service and what a request says of it are as they were.
LEMMA ServiceStill ==
    ASSUME FavoritesTyped, UNCHANGED <<lists, recent, removed, namesakes>>, NEW kinds,
           tasks' \subseteq tasks \/ tasks' \subseteq Abandon(kinds)
    PROVE  /\ ListsSound' /\ TasksSound'
           /\ Favorites' = Favorites /\ InFavorites' = InFavorites
<1>1. Grows /\ Favorites' = Favorites /\ InFavorites' = InFavorites
  BY GrowsStill
<1>2. ListsSound'
  BY DEF FavoritesTyped, ListsSound
<1>3. TasksSound
  BY DEF FavoritesTyped
<1>4. CASE tasks' \subseteq tasks
  <2>1. \A s \in tasks : TaskSound(s)'
    BY <1>1, <1>3, TaskGrows DEF TasksSound
  <2> QED
    BY <1>1, <1>2, <1>3, <1>4, <2>1 DEF TasksSound
<1>5. CASE tasks' \subseteq Abandon(kinds)
  <2>1. /\ \A s \in Abandon(kinds) : s \in Task /\ TaskSound(s)
        /\ \A s, u \in Abandon(kinds) : s.id = u.id => s = u
    BY <1>3, Abandons
  <2>2. \A s \in tasks' : TaskSound(s)'
    BY <1>1, <1>5, <2>1, TaskGrows
  <2> QED
    BY <1>1, <1>2, <1>5, <2>1, <2>2 DEF TasksSound
<1> QED
  BY <1>4, <1>5

\* A task sends its next request.
LEMMA TaskGoesOn ==
    ASSUME FavoritesTyped, NEW t \in tasks, NEW op \in {"favorites", "relist", "add"},
           NEW i \in Favorites \cup {0}, op \in Sends(t.kind), op = "add" => i # 0,
           Goes(t, op, i), UNCHANGED <<service, client, begun, excused>>, disturbed' \in BOOLEAN
    PROVE  FavoritesTyped'
<1>1. /\ ListsSound /\ ClientSound /\ TasksSound /\ CountersSound /\ t \in Task /\ TaskSound(t)
  BY DEF FavoritesTyped, TasksSound
<1>2. i \in Lists \cup {0}
  BY <1>1, ListRows
<1>3. PICK u \in Task : GoesOn(t, u, op, i)
  BY <1>1, <1>2, TaskGoes
<1>4. Grows /\ Favorites' = Favorites /\ InFavorites' = InFavorites /\ lists' = lists
  BY GrowsStill DEF service
<1>5. ListsSound' /\ CountersSound'
  BY <1>1 DEF ListsSound, CountersSound, service
<1>6. ClientSound'
  BY <1>1, <1>4, ClientGrows
<1>7. TaskSound(u)'
  <2>1. Favorites \subseteq DOMAIN lists
    BY <1>1, ListRows
  <2> QED
    BY <1>1, <1>3, <1>4, <2>1, FavoritesNumbers DEF TaskSound, Ensured, GoesOn
<1>8. TasksSound'
  BY <1>1, <1>3, <1>4, <1>7, TasksReplaced DEF GoesOn
<1> QED
  BY <1>5, <1>6, <1>8 DEF FavoritesTyped

LEMMA CreateFavoritesTyped ==
    ASSUME FavoritesTyped, NEW t \in tasks, CreateFavorites(t)
    PROVE  FavoritesTyped'
<1>1. t \in Task /\ TaskSound(t) /\ disturbed \in BOOLEAN
  BY DEF FavoritesTyped, TasksSound, CountersSound
<1>2. "favorites" \in Sends(t.kind)
  BY <1>1, TaskFields, FavoritesNumbers DEF CreateFavorites, Ensures, TaskSound, Sends
<1>3. Goes(t, "favorites", 0) /\ UNCHANGED <<service, client, begun, excused>> /\ disturbed' \in BOOLEAN
  BY <1>1, FavoritesNumbers DEF CreateFavorites
<1> QED
  BY <1>2, <1>3, TaskGoesOn

LEMMA RelistTyped ==
    ASSUME FavoritesTyped, NEW t \in tasks, PlaylistsRelist(t)
    PROVE  FavoritesTyped'
<1>1. "relist" \in Sends(t.kind)
  BY DEF PlaylistsRelist, Sends
<1>2. Goes(t, "relist", 0) /\ UNCHANGED <<service, client, begun, excused>> /\ disturbed' \in BOOLEAN
  BY FavoritesNumbers DEF PlaylistsRelist, Elsewhere, FavoritesTyped, CountersSound
<1> QED
  BY <1>1, <1>2, TaskGoesOn

LEMMA EnsuredTyped ==
    ASSUME FavoritesTyped, NEW t \in tasks, QuickEnsured(t) \/ ToggleEnsured(t)
    PROVE  FavoritesTyped'
<1>1. "add" \in Sends(t.kind) /\ Ensured(t)
  BY DEF QuickEnsured, ToggleEnsured, Sends
<1>2. /\ Goes(t, "add", t.list) /\ UNCHANGED <<service, client, begun, excused>>
      /\ disturbed' \in BOOLEAN
  BY DEF QuickEnsured, ToggleEnsured, Elsewhere, FavoritesTyped, CountersSound
<1>3. t.list \in Favorites /\ ListsSound
  BY <1>1 DEF FavoritesTyped, TasksSound, TaskSound
<1>4. t.list # 0
  BY <1>3, ListRows, FavoritesNumbers
<1> QED
  BY <1>1, <1>2, <1>3, <1>4, TaskGoesOn

\* A step of the client that leaves the service and the history alone.
LEMMA ClientStep ==
    ASSUME FavoritesTyped, UNCHANGED <<lists, recent, removed, namesakes, begun, excused>>,
           failures' \in 0 .. MaxFailures, disturbed' \in BOOLEAN, NEW kinds,
           tasks' \subseteq tasks \/ tasks' \subseteq Abandon(kinds), ClientSound'
    PROVE  FavoritesTyped'
<1>1. ListsSound' /\ TasksSound'
  BY ServiceStill
<1>2. CountersSound'
  BY DEF FavoritesTyped, CountersSound
<1> QED
  BY <1>1, <1>2 DEF FavoritesTyped

LEMMA PageLoadedTyped ==
    ASSUME FavoritesTyped, LoadsOfPage, NEW t \in tasks, PageLoaded(t)
    PROVE  FavoritesTyped'
<1>1. /\ ListsSound /\ ClientSound /\ CountersSound /\ t \in Task /\ TaskSound(t)
  BY DEF FavoritesTyped, TasksSound
<1>2. PICK missed \in SUBSET t.tracks :
        /\ IF missed = {} THEN UNCHANGED <<failures, disturbed>>
           ELSE /\ t.kind = "library" /\ t.answer = "ok" /\ failures < MaxFailures
                /\ failures' = failures + 1 /\ disturbed' = TRUE
        /\ IF t.live
           THEN /\ loading' = FALSE
                /\ shown' = IF t.answer = "error" THEN {}
                            ELSE IF t.kind = "playlists" THEN t.seen ELSE t.tracks \ missed
           ELSE UNCHANGED <<loading, shown>>
  BY DEF PageLoaded
<1>3. /\ t.kind \in Pages /\ tasks' \subseteq tasks
      /\ UNCHANGED <<lists, recent, removed, namesakes, page, actions, picker, pending, notice, begun, excused>>
  BY FavoritesNumbers DEF PageLoaded, Ends
<1>4. failures' \in 0 .. MaxFailures /\ disturbed' \in BOOLEAN
  <2>1. failures \in 0 .. MaxFailures /\ disturbed \in BOOLEAN
    BY <1>1 DEF CountersSound
  <2>2. CASE missed = {}
    <3>1. failures' = failures /\ disturbed' = disturbed
      BY <1>2, <2>2
    <3> QED
      BY <2>1, <3>1
  <2>3. CASE missed # {}
    <3>1. failures < MaxFailures /\ failures' = failures + 1 /\ disturbed' = TRUE
      BY <1>2, <2>3
    <3> QED
      BY <2>1, <3>1, FavoritesNumbers
  <2> QED
    BY <2>2, <2>3
<1>5. Favorites' = Favorites /\ InFavorites' = InFavorites
  BY <1>3, ServiceStill
<1>6. shown' \subseteq (IF page = "playlists" THEN Lists ELSE Tracks)
  <2>1. CASE t.live
    <3>1. page = t.kind /\ t.seen \subseteq Lists /\ t.tracks \subseteq Tracks
      BY <1>1, <1>3, <2>1, TaskFields DEF LoadsOfPage
    <3> QED
      BY <1>2, <2>1, <3>1
  <2>2. CASE ~t.live
    BY <1>1, <1>2, <2>2 DEF ClientSound
  <2> QED
    BY <2>1, <2>2
<1>7. loading' \in BOOLEAN /\ (loading' \/ page = "playlists" => NoDialog)
  <2>1. CASE t.live
    BY <1>1, <1>2, <2>1 DEF ClientSound
  <2>2. CASE ~t.live
    BY <1>1, <1>2, <2>2 DEF ClientSound
  <2> QED
    BY <2>1, <2>2
<1>8. NoDialog' = NoDialog
  BY <1>3 DEF NoDialog
<1>9. ClientSound'
  BY <1>1, <1>3, <1>5, <1>6, <1>7, <1>8 DEF ClientSound
<1> QED
  BY <1>3, <1>4, <1>9, ClientStep

LEMMA QuickDoneTyped ==
    ASSUME FavoritesTyped, NEW t \in tasks, QuickDone(t)
    PROVE  FavoritesTyped'
<1>1. /\ ListsSound /\ ClientSound /\ CountersSound /\ t \in Task /\ TaskSound(t)
  BY DEF FavoritesTyped, TasksSound
<1>2. /\ t.kind = "quick" /\ ((t.op = "add" /\ t.answer # "none") \/ t.answer = "error")
      /\ notice' = [track |-> t.track, good |-> t.answer # "error"]
      /\ pending' \subseteq pending /\ tasks' \subseteq tasks
      /\ UNCHANGED <<page, shown, loading, actions, picker>>
      /\ UNCHANGED <<lists, recent, removed, namesakes, failures, begun, excused, disturbed>>
  BY DEF QuickDone, Elsewhere, service, Ends
<1>3. /\ notice' \in Notice /\ (notice'.good => t.answer # "error") /\ notice'.track = t.track
  BY <1>1, <1>2, TaskFields DEF Notice
<1>4. t.answer # "error" => t.track \in InFavorites \cup removed
  BY <1>1, <1>2, TaskFields DEF TaskSound
<1>5. Favorites' = Favorites /\ InFavorites' = InFavorites
  BY <1>2, ServiceStill
<1>6. NoDialog' = NoDialog
  BY <1>2 DEF NoDialog
<1>7. ClientSound'
  BY <1>1, <1>2, <1>3, <1>4, <1>5, <1>6 DEF ClientSound
<1> QED
  BY <1>1, <1>2, <1>7, ClientStep DEF CountersSound

\* A dialog, or what a page lists, is another; the pages do not change.
LEMMA DialogTyped ==
    ASSUME FavoritesTyped, NEW kinds, tasks' \subseteq tasks \/ tasks' \subseteq Abandon(kinds),
           UNCHANGED <<page, loading, pending, notice, Elsewhere>>,
           actions' \in Actions, actions'.list \in Favorites \cup {0},
           picker' \in Picker, picker'.lists \cup picker'.saved \subseteq DOMAIN lists,
           actions'.track \in {actions.track, NoTrack}, picker'.track \in {picker.track, NoTrack},
           shown' \subseteq shown \cup (IF page = "playlists" THEN Lists ELSE {})
    PROVE  FavoritesTyped'
<1>1. /\ ListsSound /\ ClientSound /\ CountersSound
  BY DEF FavoritesTyped
<1>2. UNCHANGED <<lists, recent, removed, namesakes, failures, begun, excused, disturbed>>
  BY DEF Elsewhere, service
<1>3. Favorites' = Favorites /\ InFavorites' = InFavorites
  BY <1>2, ServiceStill
<1>4. NoDialog => NoDialog'
  BY DEF NoDialog
<1>5. shown' \subseteq (IF page = "playlists" THEN Lists ELSE Tracks)
  BY <1>1 DEF ClientSound
<1>6. ClientSound'
  BY <1>1, <1>2, <1>3, <1>4, <1>5, FavoritesNumbers DEF ClientSound
<1> QED
  BY <1>1, <1>2, <1>6, ClientStep DEF CountersSound

LEMMA DialogsNow ==
    ASSUME FavoritesTyped
    PROVE  /\ actions \in Actions /\ actions.list \in Favorites \cup {0}
           /\ picker \in Picker /\ picker.lists \cup picker.saved \subseteq DOMAIN lists
           /\ DOMAIN lists \subseteq Lists /\ Favorites \subseteq DOMAIN lists
<1> QED
  BY ListRows, FavoritesNumbers, ActionsFields DEF FavoritesTyped, ClientSound

LEMMA ActionsLoadedTyped ==
    ASSUME FavoritesTyped, NEW t \in tasks, ActionsLoaded(t)
    PROVE  FavoritesTyped'
<1>1. t \in Task /\ TaskSound(t)
  BY DEF FavoritesTyped, TasksSound
<1>2. /\ tasks' \subseteq tasks /\ UNCHANGED <<page, shown, loading, picker, pending, notice, Elsewhere>>
      /\ (Ensured(t) \/ t.answer = "error")
      /\ actions' = IF ~t.live THEN actions
                    ELSE IF t.answer = "error" THEN [actions EXCEPT !.loading = FALSE]
                    ELSE [actions EXCEPT !.loading = FALSE, !.list = t.list, !.tracks = t.tracks]
  BY DEF ActionsLoaded, Ends
<1>3. t.list \in Lists \cup {0} /\ t.tracks \in SUBSET Tracks
  BY <1>1, TaskFields
<1>4. actions' \in Actions /\ actions'.list \in Favorites \cup {0} /\ actions'.track = actions.track
  <2>1. CASE ~t.live
    BY <1>2, <2>1, DialogsNow
  <2>2. CASE t.live /\ t.answer = "error"
    <3>1. actions' = [actions EXCEPT !.loading = FALSE]
      BY <1>2, <2>2
    <3> QED
      BY <3>1, DialogsNow, ActionsWith DEF ActionsIs
  <2>3. CASE t.live /\ t.answer # "error"
    <3>1. actions' = [actions EXCEPT !.loading = FALSE, !.list = t.list, !.tracks = t.tracks]
      BY <1>2, <2>3
    <3>2. ActionsIs(actions', actions.track, t.list, t.tracks, FALSE, actions.saving)
      BY <1>3, <3>1, DialogsNow, LoadedActions
    <3>3. t.list \in Favorites
      BY <1>1, <1>2, <2>3 DEF TaskSound
    <3> QED
      BY <3>2, <3>3 DEF ActionsIs
  <2> QED
    BY <2>1, <2>2, <2>3
<1> QED
  BY <1>2, <1>4, DialogsNow, DialogTyped

LEMMA ToggleDoneTyped ==
    ASSUME FavoritesTyped, NEW t \in tasks, ToggleDone(t)
    PROVE  FavoritesTyped'
<1>1. t \in Task /\ TaskSound(t)
  BY DEF FavoritesTyped, TasksSound
<1>2. /\ UNCHANGED <<page, loading, picker, pending, notice, Elsewhere>> /\ t.kind = "toggle"
      /\ (t.op \in {"add", "remove"} /\ t.answer # "none") \/ t.answer = "error"
  BY DEF ToggleDone
<1>3. t.list \in Lists \cup {0} /\ t.tracks \in SUBSET Tracks
  BY <1>1, TaskFields
<1>4. CASE t.live /\ t.answer = "ok"
  <2>1. /\ actions' = [actions EXCEPT !.track = NoTrack, !.list = t.list,
                                      !.tracks = t.tracks, !.saving = FALSE]
        /\ shown' \subseteq shown /\ tasks' \subseteq Abandon({"actions"})
    BY <1>4 DEF ToggleDone, RowsAfter
  <2>2. ActionsIs(actions', NoTrack, t.list, t.tracks, actions.loading, FALSE)
    BY <1>3, <2>1, DialogsNow, ToggledActions
  <2>3. t.list \in Favorites
    BY <1>1, <1>2, <1>4 DEF TaskSound
  <2>4. actions' \in Actions /\ actions'.list \in Favorites \cup {0} /\ actions'.track = NoTrack
    BY <2>2, <2>3 DEF ActionsIs
  <2> QED
    BY <1>2, <2>1, <2>4, DialogsNow, DialogTyped
<1>5. CASE ~(t.live /\ t.answer = "ok")
  <2>1. /\ actions' = (IF t.live THEN [actions EXCEPT !.saving = FALSE] ELSE actions)
        /\ UNCHANGED shown /\ tasks' \subseteq tasks
    BY <1>5 DEF ToggleDone, Ends
  <2>2. actions' \in Actions /\ actions'.list \in Favorites \cup {0} /\ actions'.track = actions.track
    BY <2>1, DialogsNow, ActionsWith DEF ActionsIs
  <2> QED
    BY <1>2, <2>1, <2>2, DialogsNow, DialogTyped
<1> QED
  BY <1>4, <1>5

LEMMA CloseTyped ==
    ASSUME FavoritesTyped, CloseActions \/ ClosePicker \/ ClearNotification
    PROVE  FavoritesTyped'
<1>1. CASE CloseActions
  <2>1. /\ actions' = [actions EXCEPT !.track = NoTrack] /\ tasks' \subseteq Abandon({"actions"})
        /\ UNCHANGED <<page, shown, loading, picker, pending, notice, Elsewhere>>
    BY <1>1 DEF CloseActions
  <2>2. actions' \in Actions /\ actions'.list \in Favorites \cup {0} /\ actions'.track = NoTrack
    BY <2>1, DialogsNow, ActionsWith DEF ActionsIs
  <2> QED
    BY <2>1, <2>2, DialogsNow, DialogTyped
<1>2. CASE ClosePicker
  <2>1. /\ picker' = [picker EXCEPT !.track = NoTrack] /\ tasks' \subseteq Abandon({"picker"})
        /\ UNCHANGED <<page, shown, loading, actions, pending, notice, Elsewhere>>
    BY <1>2 DEF ClosePicker
  <2>2. /\ picker' \in Picker /\ picker'.lists \cup picker'.saved \subseteq DOMAIN lists
        /\ picker'.track = NoTrack
    BY <2>1, DialogsNow, PickerWith DEF PickerIs
  <2> QED
    BY <2>1, <2>2, DialogsNow, DialogTyped
<1>3. CASE ClearNotification
  <2>1. /\ ListsSound /\ ClientSound /\ CountersSound
    BY DEF FavoritesTyped
  <2>2. /\ UNCHANGED <<page, shown, loading, actions, picker, pending, tasks>> /\ notice' = NoNotice
        /\ UNCHANGED <<lists, recent, removed, namesakes, failures, begun, excused, disturbed>>
    BY <1>3 DEF ClearNotification, Elsewhere, service
  <2>3. Favorites' = Favorites /\ NoDialog' = NoDialog /\ InFavorites' = InFavorites
    BY <2>2, GrowsStill DEF NoDialog
  <2>4. NoNotice \in Notice /\ NoNotice.good = FALSE
    BY DEF NoNotice, Notice
  <2>5. ClientSound'
    BY <2>1, <2>2, <2>3, <2>4 DEF ClientSound
  <2> QED
    BY <2>1, <2>2, <2>5, ClientStep DEF CountersSound
<1> QED
  BY <1>1, <1>2, <1>3

LEMMA PickerLoadedTyped ==
    ASSUME FavoritesTyped, NEW t \in tasks, PickerLoaded(t)
    PROVE  FavoritesTyped'
<1>1. t.seen \subseteq DOMAIN lists /\ t.seen \in SUBSET Lists
  BY DialogsNow DEF FavoritesTyped, TasksSound, TaskSound
<1>2. /\ picker' = IF ~t.live THEN picker
                   ELSE IF t.answer = "error" THEN [picker EXCEPT !.loading = FALSE]
                   ELSE [picker EXCEPT !.loading = FALSE, !.lists = t.seen]
      /\ tasks' \subseteq tasks
      /\ UNCHANGED <<page, shown, loading, actions, pending, notice, Elsewhere>>
  BY DEF PickerLoaded, Ends
<1>3. /\ picker' \in Picker /\ picker'.lists \cup picker'.saved \subseteq DOMAIN lists
      /\ picker'.track = picker.track
  <2>1. CASE ~t.live
    BY <1>2, <2>1, DialogsNow
  <2>2. CASE t.live /\ t.answer = "error"
    <3>1. picker' = [picker EXCEPT !.loading = FALSE]
      BY <1>2, <2>2
    <3> QED
      BY <3>1, DialogsNow, PickerWith DEF PickerIs
  <2>3. CASE t.live /\ t.answer # "error"
    <3>1. picker' = [picker EXCEPT !.loading = FALSE, !.lists = t.seen]
      BY <1>2, <2>3
    <3>2. PickerIs(picker', picker.track, t.seen, FALSE, picker.creating, picker.saving, picker.saved)
      BY <1>1, <3>1, DialogsNow, LoadedPicker
    <3> QED
      BY <1>1, <3>2, DialogsNow DEF PickerIs
  <2> QED
    BY <2>1, <2>2, <2>3
<1> QED
  BY <1>2, <1>3, DialogsNow, DialogTyped

LEMMA PickDoneTyped ==
    ASSUME FavoritesTyped, NEW t \in tasks, PickDone(t)
    PROVE  FavoritesTyped'
<1>1. t.list # 0 /\ t.list \in DOMAIN lists
  BY FavoritesNumbers DEF FavoritesTyped, TasksSound, TaskSound, Sends, PickDone
<1> DEFINE marks == IF t.answer = "error" THEN picker.saved ELSE picker.saved \cup {t.list}
<1>2. /\ picker' = (IF ~t.live THEN picker ELSE [picker EXCEPT !.saving = NoList, !.saved = marks])
      /\ tasks' \subseteq tasks
      /\ UNCHANGED <<page, shown, loading, actions, pending, notice, Elsewhere>>
  BY DEF PickDone, Ends
<1>3. marks \subseteq DOMAIN lists /\ marks \in SUBSET Lists
  BY <1>1, DialogsNow
<1> HIDE DEF marks
<1>4. /\ picker' \in Picker /\ picker'.lists \cup picker'.saved \subseteq DOMAIN lists
      /\ picker'.track = picker.track
  <2>1. CASE ~t.live
    BY <1>2, <2>1, DialogsNow
  <2>2. CASE t.live
    <3>1. picker' = [picker EXCEPT !.saving = NoList, !.saved = marks]
      BY <1>2, <2>2
    <3>2. PickerIs(picker', picker.track, picker.lists, picker.loading, picker.creating, 0, marks)
      BY <1>3, <3>1, DialogsNow, PickedPicker
    <3> QED
      BY <1>3, <3>2, DialogsNow DEF PickerIs
  <2> QED
    BY <2>1, <2>2
<1> QED
  BY <1>2, <1>4, DialogsNow, DialogTyped

LEMMA CreateDoneTyped ==
    ASSUME FavoritesTyped, NEW t \in tasks, CreateDone(t)
    PROVE  FavoritesTyped'
<1>1. t.answer = "ok" => t.list # 0 /\ t.list \in DOMAIN lists
  BY FavoritesNumbers DEF FavoritesTyped, TasksSound, TaskSound, Sends, CreateDone
<1> DEFINE known == IF t.answer = "ok" /\ page # "playlists" THEN picker.lists \cup {t.list}
                    ELSE picker.lists
<1>2. /\ tasks' \subseteq tasks /\ UNCHANGED <<page, loading, actions, pending, notice, Elsewhere>>
      /\ t.live => /\ picker' = [picker EXCEPT !.creating = FALSE, !.lists = known]
                   /\ shown' = IF t.answer = "ok" /\ page = "playlists" THEN shown \cup {t.list} ELSE shown
      /\ ~t.live => UNCHANGED <<picker, shown>>
  BY DEF CreateDone, Ends
<1>3. known \subseteq DOMAIN lists /\ known \in SUBSET Lists
  BY <1>1, DialogsNow
<1> HIDE DEF known
<1>4. shown' \subseteq shown \cup (IF page = "playlists" THEN Lists ELSE {})
  BY <1>1, <1>2, DialogsNow
<1>5. /\ picker' \in Picker /\ picker'.lists \cup picker'.saved \subseteq DOMAIN lists
      /\ picker'.track = picker.track
  <2>1. CASE ~t.live
    BY <1>2, <2>1, DialogsNow
  <2>2. CASE t.live
    <3>1. picker' = [picker EXCEPT !.creating = FALSE, !.lists = known]
      BY <1>2, <2>2
    <3>2. PickerIs(picker', picker.track, known, picker.loading, FALSE, picker.saving, picker.saved)
      BY <1>3, <3>1, DialogsNow, CreatedPicker
    <3> QED
      BY <1>3, <3>2, DialogsNow DEF PickerIs
  <2> QED
    BY <2>1, <2>2
<1> QED
  BY <1>2, <1>4, <1>5, DialogsNow, DialogTyped

\* A click begins a task, and may end the wait for others.
LEMMA TasksStarted ==
    ASSUME FavoritesTyped, NEW ts, NEW kinds, ts = tasks \/ ts = Abandon(kinds),
           NEW u \in Task, NEW kind, NEW op, NEW track, NEW i,
           Starts(ts, u, kind, op, track, i), TaskSound(u), ClientSound'
    PROVE  FavoritesTyped'
<1>1. UNCHANGED <<lists, recent, removed, namesakes, failures, excused>>
  BY DEF Starts, service
<1>2. Grows
  BY <1>1, GrowsStill
<1>3. ListsSound' /\ CountersSound'
  BY <1>1 DEF FavoritesTyped, ListsSound, CountersSound, Starts
<1>4. /\ \A s \in ts : s \in Task /\ TaskSound(s)
      /\ \A s, r \in ts : s.id = r.id => s = r
  <2>1. CASE ts = tasks
    BY <2>1 DEF FavoritesTyped, TasksSound
  <2>2. CASE ts = Abandon(kinds)
    <3>1. TasksSound
      BY DEF FavoritesTyped
    <3> QED
      BY <2>2, <3>1, Abandons
  <2> QED
    BY <2>1, <2>2
<1>5. tasks' = ts \cup {u} /\ \A s \in ts : s.id # u.id
  BY DEF Starts
<1>6. \A s \in tasks' : s \in Task /\ TaskSound(s)'
  BY <1>2, <1>4, <1>5, TaskGrows
<1>7. \A s, r \in tasks' : s.id = r.id => s = r
  BY <1>4, <1>5
<1>8. TasksSound'
  BY <1>6, <1>7 DEF TasksSound
<1> QED
  BY <1>3, <1>8 DEF FavoritesTyped

LEMMA AbandonedIds ==
    ASSUME FavoritesTyped, NEW kinds
    PROVE  \A s \in Abandon(kinds) : \E t \in tasks : s.id = t.id
<1>1. TasksSound
  BY DEF FavoritesTyped
<1>2. \A s \in Abandon(kinds) : \E t \in tasks :
            /\ s \in Task /\ s.id = t.id /\ s.kind = t.kind /\ s.track = t.track
            /\ s.op = t.op /\ s.answer = t.answer /\ s.list = t.list /\ s.tracks = t.tracks
            /\ s.seen = t.seen /\ s.live = (t.live /\ t.kind \notin kinds)
  BY <1>1, Abandons
<1> QED
  BY <1>2

\* A task that has begun to look for Favorites, or for playlists.
LEMMA LookStarts ==
    ASSUME FavoritesTyped, NEW ts, \A s \in ts : \E t \in tasks : s.id = t.id,
           NEW kind \in Loads \cup {"quick"}, NEW track \in Tracks \cup {NoTrack},
           kind = "quick" => track \in Tracks, Begin(ts, kind, "list", track, NoList)
    PROVE  \E u \in Task : Starts(ts, u, kind, "list", track, 0) /\ TaskSound(u)
<1>1. PICK u \in Task : Starts(ts, u, kind, "list", track, 0)
  BY TaskStarts, FavoritesNumbers
<1>2. TaskSound(u)
  BY <1>1, FavoritesNumbers DEF Starts, TaskSound, Sends, Ensured
<1> QED
  BY <1>1, <1>2

\* A client that is as it was but for its dialogs, pending rows and spinner.
LEMMA ClientStays ==
    ASSUME FavoritesTyped, UNCHANGED <<lists, removed, namesakes, page, loading, notice>>,
           shown' = shown, pending' \subseteq Tracks,
           actions' \in Actions, actions'.list \in Favorites \cup {0},
           picker' \in Picker, picker'.lists \cup picker'.saved \subseteq DOMAIN lists,
           (loading \/ page = "playlists") =>
               actions'.track = NoTrack /\ picker'.track = NoTrack
    PROVE  ClientSound'
<1>1. Favorites' = Favorites /\ InFavorites' = InFavorites
  BY GrowsStill
<1>2. ClientSound
  BY DEF FavoritesTyped
<1>3. (loading' \/ page' = "playlists") => NoDialog'
  BY DEF NoDialog
<1> QED
  BY <1>1, <1>2, <1>3, FavoritesNumbers DEF ClientSound

LEMMA NavigateTyped ==
    ASSUME FavoritesTyped, NEW p \in Pages, Navigate(p)
    PROVE  FavoritesTyped'
<1>1. /\ page' = p /\ shown' = {} /\ loading' = TRUE
      /\ actions' = NoActions /\ picker' = NoPicker /\ pending' = {} /\ notice' = notice
      /\ Begin(Abandon(Kinds), p, "list", NoTrack, NoList)
  BY DEF Navigate
<1>2. p \in Loads \cup {"quick"} /\ p # "quick"
  BY FavoritesNumbers
<1>3. \E u \in Task : Starts(Abandon(Kinds), u, p, "list", NoTrack, 0) /\ TaskSound(u)
  BY <1>1, <1>2, AbandonedIds, LookStarts
<1>4. UNCHANGED <<lists, removed, namesakes>>
  BY <1>3 DEF Starts, service
<1>5. Favorites' = Favorites /\ InFavorites' = InFavorites
  BY <1>4, GrowsStill
<1>6. ClientSound
  BY DEF FavoritesTyped
<1>7. /\ NoActions \in Actions /\ NoActions.list = 0 /\ NoActions.track = NoTrack
      /\ NoPicker \in Picker /\ NoPicker.lists = {} /\ NoPicker.saved = {} /\ NoPicker.track = NoTrack
  BY NothingOpen DEF ActionsIs, PickerIs
<1>8. ClientSound'
  BY <1>1, <1>4, <1>5, <1>6, <1>7, FavoritesNumbers DEF ClientSound, NoDialog
<1> QED
  BY <1>3, <1>8, TasksStarted

LEMMA RowsThere ==
    ASSUME FavoritesTyped, NEW tr \in Rows
    PROVE  ~loading /\ page # "playlists" /\ tr \in Tracks
<1>1. shown \subseteq (IF page = "playlists" THEN Lists ELSE Tracks)
  BY DEF FavoritesTyped, ClientSound
<1>2. ~(loading \/ page = "playlists")
  <2> SUFFICES ASSUME loading \/ page = "playlists" PROVE FALSE
    OBVIOUS
  <2>1. Rows = {}
    BY DEF Rows
  <2> QED
    BY <2>1
<1>3. Rows \in {Tracks, shown}
  BY <1>2 DEF Rows
<1> QED
  BY <1>1, <1>2, <1>3

LEMMA QuickAddTyped ==
    ASSUME FavoritesTyped, NEW tr \in Tracks, QuickAdd(tr)
    PROVE  FavoritesTyped'
<1>1. /\ pending' = pending \cup {tr} /\ Begin(tasks, "quick", "list", tr, NoList)
      /\ UNCHANGED <<page, shown, loading, actions, picker, notice>> /\ tr \in Rows
      /\ actions.track = NoTrack /\ picker.track = NoTrack
  BY DEF QuickAdd, NoDialog
<1>2. \E u \in Task : Starts(tasks, u, "quick", "list", tr, 0) /\ TaskSound(u)
  BY <1>1, LookStarts
<1>3. UNCHANGED <<lists, removed, namesakes>>
  BY <1>2 DEF Starts, service
<1>4. pending \subseteq Tracks
  BY DEF FavoritesTyped, ClientSound
<1>5. ClientSound'
  BY <1>1, <1>3, <1>4, DialogsNow, ClientStays
<1> QED
  BY <1>2, <1>5, TasksStarted

LEMMA OpenActionsTyped ==
    ASSUME FavoritesTyped, NEW tr \in Tracks, OpenActions(tr)
    PROVE  FavoritesTyped'
<1>1. /\ actions' = [actions EXCEPT !.track = tr, !.loading = TRUE]
      /\ Begin(tasks, "actions", "list", NoTrack, NoList)
      /\ UNCHANGED <<page, shown, loading, picker, pending, notice>> /\ tr \in Rows
  BY DEF OpenActions
<1>2. "actions" \in Loads
  BY FavoritesNumbers
<1>3. \E u \in Task : Starts(tasks, u, "actions", "list", NoTrack, 0) /\ TaskSound(u)
  BY <1>1, <1>2, LookStarts
<1>4. UNCHANGED <<lists, removed, namesakes>> /\ pending \subseteq Tracks
  BY <1>3 DEF Starts, service, FavoritesTyped, ClientSound
<1>5. actions' \in Actions /\ actions'.list \in Favorites \cup {0}
  BY <1>1, DialogsNow, OpenedActions DEF ActionsIs
<1>6. ClientSound'
  BY <1>1, <1>4, <1>5, DialogsNow, RowsThere, ClientStays
<1> QED
  BY <1>3, <1>6, TasksStarted

LEMMA OpenPickerTyped ==
    ASSUME FavoritesTyped, OpenPicker
    PROVE  FavoritesTyped'
<1>1. /\ actions.track # NoTrack /\ picker' = Opened(actions.track)
      /\ actions' = [actions EXCEPT !.track = NoTrack]
      /\ Begin(Abandon({"actions"}), "picker", "list", NoTrack, NoList)
      /\ UNCHANGED <<page, shown, loading, pending, notice>>
  BY DEF OpenPicker
<1>2. "picker" \in Loads
  BY FavoritesNumbers
<1>3. \E u \in Task : Starts(Abandon({"actions"}), u, "picker", "list", NoTrack, 0) /\ TaskSound(u)
  BY <1>1, <1>2, AbandonedIds, LookStarts
<1>4. /\ UNCHANGED <<lists, removed, namesakes>> /\ pending \subseteq Tracks
      /\ ~loading /\ page # "playlists" /\ actions.track \in Tracks
  BY <1>1, <1>3, ActionsFields DEF Starts, service, FavoritesTyped, ClientSound, NoDialog
<1>5. actions' \in Actions /\ actions'.list \in Favorites \cup {0}
  BY <1>1, DialogsNow, ActionsWith DEF ActionsIs
<1>6. picker' \in Picker /\ picker'.lists \cup picker'.saved \subseteq DOMAIN lists
  BY <1>1, <1>4, DialogsNow, OpenedPicker DEF PickerIs, Opened
<1>7. ClientSound'
  BY <1>1, <1>4, <1>5, <1>6, ClientStays
<1> QED
  BY <1>3, <1>7, TasksStarted

\* What Toggle asks first.
ToggleOp == IF actions.list = NoList THEN "list"
            ELSE IF actions.track \in actions.tracks THEN "remove" ELSE "add"

LEMMA ToggleStarts ==
    ASSUME FavoritesTyped, Toggle
    PROVE  /\ actions.track \in Tracks /\ ~actions.loading /\ ~actions.saving
           /\ ~loading /\ page # "playlists"
           /\ ActionsIs(actions', actions.track, actions.list, actions.tracks, actions.loading, TRUE)
           /\ UNCHANGED <<page, shown, loading, picker, pending, notice>>
           /\ \E u \in Task : Starts(tasks, u, "toggle", ToggleOp, actions.track, actions.list)
                              /\ TaskSound(u)
<1>1. /\ actions.track # NoTrack /\ ~actions.loading /\ ~actions.saving
      /\ actions' = [actions EXCEPT !.saving = TRUE]
      /\ Begin(tasks, "toggle", ToggleOp, actions.track, actions.list)
      /\ UNCHANGED <<page, shown, loading, picker, pending, notice>>
  BY DEF Toggle, ToggleOp
<1>2. actions.track \in Tracks /\ actions.list \in Lists \cup {0}
  BY <1>1, DialogsNow, ActionsFields
<1>3. ~loading /\ page # "playlists"
  BY <1>1 DEF FavoritesTyped, ClientSound, NoDialog
<1>4. ActionsIs(actions', actions.track, actions.list, actions.tracks, actions.loading, TRUE)
  BY <1>1, DialogsNow, ActionsWith
<1>5. ToggleOp \in {"list", "add", "remove"} /\ "toggle" \in Kinds
      /\ (ToggleOp # "list" => actions.list # 0)
  <2>1. CASE actions.list = NoList
    BY <2>1, FavoritesNumbers DEF ToggleOp
  <2>2. CASE actions.list # NoList
    BY <2>2, FavoritesNumbers DEF ToggleOp
  <2> QED
    BY <2>1, <2>2
<1>6. \A s \in tasks : \E t \in tasks : s.id = t.id
  OBVIOUS
<1>7. PICK u \in Task : Starts(tasks, u, "toggle", ToggleOp, actions.track, actions.list)
  <2>1. ToggleOp \in {"list", "add", "remove", "create"} /\ actions.track \in Tracks \cup {NoTrack}
    BY <1>2, <1>5
  <2> QED
    BY <1>1, <1>2, <1>5, <1>6, <2>1, TaskStarts
<1>8. TaskSound(u)
  BY <1>2, <1>5, <1>7, DialogsNow, FavoritesNumbers DEF Starts, TaskSound, Sends, Ensured
<1> QED
  BY <1>1, <1>2, <1>3, <1>4, <1>7, <1>8

LEMMA ToggleTyped ==
    ASSUME FavoritesTyped, Toggle
    PROVE  FavoritesTyped'
<1>1. \E u \in Task : Starts(tasks, u, "toggle", ToggleOp, actions.track, actions.list) /\ TaskSound(u)
  BY ToggleStarts
<1>2. UNCHANGED <<lists, removed, namesakes>> /\ pending \subseteq Tracks
  BY <1>1 DEF Starts, service, FavoritesTyped, ClientSound
<1>3. actions' \in Actions /\ actions'.list \in Favorites \cup {0}
  BY ToggleStarts, DialogsNow DEF ActionsIs
<1>4. ClientSound'
  BY <1>2, <1>3, ToggleStarts, DialogsNow, ClientStays
<1> QED
  BY <1>1, <1>4, TasksStarted

LEMMA PickStarts ==
    ASSUME FavoritesTyped, NEW i \in Lists, Pick(i)
    PROVE  /\ picker.track \in Tracks /\ ~picker.loading /\ i \in picker.lists \ picker.saved
           /\ i \in DOMAIN lists /\ i # 0 /\ i # picker.saving /\ ~loading /\ page # "playlists"
           /\ PickerIs(picker', picker.track, picker.lists, picker.loading, picker.creating, i,
                       picker.saved)
           /\ UNCHANGED <<page, shown, loading, actions, pending, notice>>
           /\ \E u \in Task : Starts(tasks, u, "pick", "add", picker.track, i) /\ TaskSound(u)
<1>1. /\ picker.track # NoTrack /\ ~picker.loading /\ i \in picker.lists \ picker.saved
      /\ picker' = [picker EXCEPT !.saving = i] /\ i # picker.saving
      /\ Begin(tasks, "pick", "add", picker.track, i)
      /\ UNCHANGED <<page, shown, loading, actions, pending, notice>>
  BY DEF Pick
<1>2. picker.track \in Tracks /\ i \in DOMAIN lists /\ i # 0
  BY <1>1, DialogsNow, PickerFields, FavoritesNumbers
<1>3. ~loading /\ page # "playlists"
  BY <1>1 DEF FavoritesTyped, ClientSound, NoDialog
<1>4. PickerIs(picker', picker.track, picker.lists, picker.loading, picker.creating, i, picker.saved)
  BY <1>1, DialogsNow, PickerWith
<1>5. "pick" \in Kinds /\ \A s \in tasks : \E t \in tasks : s.id = t.id
  BY FavoritesNumbers
<1>6. PICK u \in Task : Starts(tasks, u, "pick", "add", picker.track, i)
  BY <1>1, <1>2, <1>5, TaskStarts
<1>7. TaskSound(u)
  BY <1>2, <1>6, DialogsNow, FavoritesNumbers DEF Starts, TaskSound, Sends, Ensured
<1> QED
  BY <1>1, <1>2, <1>3, <1>4, <1>6, <1>7

LEMMA PickTyped ==
    ASSUME FavoritesTyped, NEW i \in Lists, Pick(i)
    PROVE  FavoritesTyped'
<1>1. \E u \in Task : Starts(tasks, u, "pick", "add", picker.track, i) /\ TaskSound(u)
  BY PickStarts
<1>2. UNCHANGED <<lists, removed, namesakes>> /\ pending \subseteq Tracks
  BY <1>1 DEF Starts, service, FavoritesTyped, ClientSound
<1>3. picker' \in Picker /\ picker'.lists \cup picker'.saved \subseteq DOMAIN lists
  BY PickStarts, DialogsNow DEF PickerIs
<1>4. ClientSound'
  BY <1>2, <1>3, PickStarts, DialogsNow, ClientStays
<1> QED
  BY <1>1, <1>4, TasksStarted

LEMMA CreateStarts ==
    ASSUME FavoritesTyped, CreatePlaylist
    PROVE  /\ ~picker.creating /\ ~loading
           /\ picker.track # NoTrack \/ page = "playlists"
           /\ PickerIs(picker', picker.track, picker.lists, picker.loading, TRUE, picker.saving,
                       picker.saved)
           /\ UNCHANGED <<page, shown, loading, actions, pending, notice>>
           /\ \E u \in Task : Starts(tasks, u, "create", "create", NoTrack, 0) /\ TaskSound(u)
<1>1. /\ ~picker.creating /\ picker' = [picker EXCEPT !.creating = TRUE]
      /\ picker.track # NoTrack \/ (page = "playlists" /\ ~loading)
      /\ Begin(tasks, "create", "create", NoTrack, NoList)
      /\ UNCHANGED <<page, shown, loading, actions, pending, notice>>
  BY DEF CreatePlaylist
<1>2. ~loading
  BY <1>1 DEF FavoritesTyped, ClientSound, NoDialog
<1>3. PickerIs(picker', picker.track, picker.lists, picker.loading, TRUE, picker.saving, picker.saved)
  BY <1>1, DialogsNow, PickerWith
<1>4. "create" \in Kinds /\ \A s \in tasks : \E t \in tasks : s.id = t.id
  BY FavoritesNumbers
<1>5. PICK u \in Task : Starts(tasks, u, "create", "create", NoTrack, 0)
  BY <1>1, <1>4, TaskStarts, FavoritesNumbers
<1>6. TaskSound(u)
  BY <1>5, FavoritesNumbers DEF Starts, TaskSound, Sends, Ensured, Ensures
<1> QED
  BY <1>1, <1>2, <1>3, <1>5, <1>6

LEMMA CreateTyped ==
    ASSUME FavoritesTyped, CreatePlaylist
    PROVE  FavoritesTyped'
<1>1. \E u \in Task : Starts(tasks, u, "create", "create", NoTrack, 0) /\ TaskSound(u)
  BY CreateStarts
<1>2. UNCHANGED <<lists, removed, namesakes>> /\ pending \subseteq Tracks
  BY <1>1 DEF Starts, service, FavoritesTyped, ClientSound
<1>3. picker' \in Picker /\ picker'.lists \cup picker'.saved \subseteq DOMAIN lists
  BY CreateStarts, DialogsNow DEF PickerIs
<1>4. (loading \/ page = "playlists") => actions.track = NoTrack /\ picker.track = NoTrack
  BY DEF FavoritesTyped, ClientSound, NoDialog
<1>5. picker'.track = picker.track
  BY CreateStarts DEF PickerIs
<1>6. ClientSound'
  BY <1>2, <1>3, <1>4, <1>5, CreateStarts, DialogsNow, ClientStays
<1> QED
  BY <1>1, <1>6, TasksStarted

-----------------------------------------------------------------------------
(* What becomes of the tasks *)

\* The task u is t with another request or answer.
Same(t, u) ==
    /\ u \in Task /\ tasks' = (tasks \ {t}) \cup {u}
    /\ u.id = t.id /\ u.kind = t.kind /\ u.track = t.track /\ u.live = t.live

LEMMA ServedTask ==
    ASSUME FavoritesTyped, NEW t \in tasks, Serve(t)
    PROVE  \E u \in Task : Same(t, u)
<1>1. CASE ServeList(t)
  BY <1>1, ListServed DEF Answers, Same
<1>2. CASE ServeCreate(t)
  BY <1>2, CreateServed DEF Answers, Same
<1>3. CASE ServeAdd(t)
  BY <1>3, AddServed DEF Answers, Same
<1>4. CASE ServeRemove(t)
  BY <1>4, RemoveServed DEF Answers, Same
<1>5. CASE ServeConflict(t) \/ Fail(t)
  BY <1>5, RefusalServed DEF Answers, Same
<1> QED
  BY <1>1, <1>2, <1>3, <1>4, <1>5 DEF Serve

LEMMA GoneTask ==
    ASSUME FavoritesTyped, NEW t \in tasks,
           CreateFavorites(t) \/ PlaylistsRelist(t) \/ QuickEnsured(t) \/ ToggleEnsured(t)
    PROVE  (\E u \in Task : Same(t, u)) /\ UNCHANGED client
<1>1. t \in Task /\ t.list \in Lists \cup {0}
  BY TaskFields DEF FavoritesTyped, TasksSound
<1>2. UNCHANGED client
  BY DEF CreateFavorites, PlaylistsRelist, QuickEnsured, ToggleEnsured
<1>3. PICK op \in {"favorites", "relist", "add"}, i \in Lists \cup {0} : Goes(t, op, i)
  BY <1>1, FavoritesNumbers DEF CreateFavorites, PlaylistsRelist, QuickEnsured, ToggleEnsured
<1>4. PICK u \in Task : GoesOn(t, u, op, i)
  BY <1>1, <1>3, TaskGoes
<1> QED
  BY <1>2, <1>4 DEF GoesOn, Same

\* The tasks that somebody waits for are there, but those in T.
StillWaited(T) ==
    \A s \in tasks \ T : s.live =>
        \E u \in tasks' : u.live /\ u.kind = s.kind /\ u.track = s.track

LEMMA SameWaited ==
    ASSUME NEW t \in tasks, NEW u \in Task, Same(t, u)
    PROVE  StillWaited({})
<1> QED
  BY DEF StillWaited, Same

LEMMA EndWaited ==
    ASSUME NEW t \in tasks, Ends(t)
    PROVE  StillWaited(IF t.live THEN {t} ELSE {})
<1> QED
  BY DEF StillWaited, Ends

LEMMA AbandonWaited ==
    ASSUME FavoritesTyped, NEW kinds, NEW T \in SUBSET tasks, Abandon(kinds) \ T \subseteq tasks'
    PROVE  StillWaited({s \in tasks : s.kind \in kinds} \cup T)
<1>1. \A t \in tasks : t.kind \notin kinds => t \in Abandon(kinds)
  BY Abandons DEF FavoritesTyped
<1> QED
  BY <1>1 DEF StillWaited

LEMMA StartWaited ==
    ASSUME FavoritesTyped, NEW ts, NEW u \in Task, NEW kind, NEW op, NEW track, NEW i,
           Starts(ts, u, kind, op, track, i)
    PROVE  /\ ts = tasks => StillWaited({})
           /\ \A kinds : ts = Abandon(kinds) => StillWaited({s \in tasks : s.kind \in kinds})
           /\ u \in tasks' /\ u.live /\ u.kind = kind /\ u.track = track
<1>1. tasks' = ts \cup {u} /\ u.live = TRUE /\ u.kind = kind /\ u.track = track
  BY DEF Starts
<1>2. \A kinds, t : t \in tasks /\ t.kind \notin kinds => t \in Abandon(kinds)
  BY Abandons DEF FavoritesTyped
<1> QED
  BY <1>1, <1>2 DEF StillWaited

-----------------------------------------------------------------------------
(* Spinners and buttons wait for a task *)

Waits(kind) == \E t \in tasks : t.live /\ t.kind = kind

FavoritesWait ==
    /\ loading => \E t \in tasks : t.live /\ t.kind \in Pages
    /\ \A tr \in pending : \E t \in tasks : t.live /\ t.kind = "quick" /\ t.track = tr
    /\ actions.saving => Waits("toggle")
    /\ actions.track # NoTrack /\ actions.loading => Waits("actions")
    /\ picker.saving # NoList => Waits("pick")
    /\ picker.creating => Waits("create")
    /\ picker.track # NoTrack /\ picker.loading => Waits("picker")

\* The service answers, or a task goes on, and the client is as it was.
LEMMA WaitsStill ==
    ASSUME FavoritesWait, StillWaited({}), UNCHANGED client
    PROVE  FavoritesWait'
<1> QED
  BY DEF FavoritesWait, StillWaited, Waits, client

LEMMA PageLoadedWaits ==
    ASSUME FavoritesTyped, FavoritesWait, NEW t \in tasks, PageLoaded(t)
    PROVE  FavoritesWait'
<1>1. /\ Ends(t) /\ t.kind \in Pages /\ UNCHANGED <<page, actions, picker, pending, notice>>
      /\ IF t.live THEN loading' = FALSE ELSE UNCHANGED loading
  BY FavoritesNumbers DEF PageLoaded
<1>2. StillWaited(IF t.live THEN {t} ELSE {})
  BY <1>1, EndWaited
<1>3. CASE t.live
  <2>1. t.kind \notin {"quick", "toggle", "actions", "pick", "create", "picker"} /\ loading' = FALSE
    BY <1>1, <1>3, FavoritesNumbers
  <2>2. StillWaited({t})
    BY <1>2, <1>3
  <2> QED
    BY <1>1, <2>1, <2>2 DEF FavoritesWait, StillWaited, Waits
<1>4. CASE ~t.live
  <2>1. StillWaited({}) /\ loading' = loading
    BY <1>1, <1>2, <1>4
  <2> QED
    BY <1>1, <2>1 DEF FavoritesWait, StillWaited, Waits
<1> QED
  BY <1>3, <1>4

LEMMA QuickDoneWaits ==
    ASSUME FavoritesTyped, FavoritesWait, NEW t \in tasks, QuickDone(t)
    PROVE  FavoritesWait'
<1>1. /\ Ends(t) /\ t.kind = "quick" /\ UNCHANGED <<page, loading, actions, picker>>
      /\ pending' = IF t.live THEN pending \ {t.track} ELSE pending
  BY DEF QuickDone
<1>2. StillWaited(IF t.live THEN {t} ELSE {})
  BY <1>1, EndWaited
<1>3. CASE t.live
  <2>1. StillWaited({t}) /\ pending' = pending \ {t.track}
    BY <1>1, <1>2, <1>3
  <2> QED
    BY <1>1, <2>1, FavoritesNumbers DEF FavoritesWait, StillWaited, Waits
<1>4. CASE ~t.live
  <2>1. StillWaited({}) /\ pending' = pending
    BY <1>1, <1>2, <1>4
  <2> QED
    BY <1>1, <2>1 DEF FavoritesWait, StillWaited, Waits
<1> QED
  BY <1>3, <1>4

-----------------------------------------------------------------------------
(* The dialogs after an answer *)

LEMMA ActionsLoadedIs ==
    ASSUME FavoritesTyped, NEW t \in tasks, ActionsLoaded(t)
    PROVE  /\ ~t.live => actions' = actions
           /\ t.live /\ t.answer = "error" =>
                ActionsIs(actions', actions.track, actions.list, actions.tracks, FALSE, actions.saving)
           /\ t.live /\ t.answer # "error" =>
                ActionsIs(actions', actions.track, t.list, t.tracks, FALSE, actions.saving)
<1>1. t.list \in Lists \cup {0} /\ t.tracks \in SUBSET Tracks
  BY TaskFields DEF FavoritesTyped, TasksSound
<1>2. /\ ~t.live => actions' = actions
      /\ t.live /\ t.answer = "error" => actions' = [actions EXCEPT !.loading = FALSE]
      /\ t.live /\ t.answer # "error" =>
           actions' = [actions EXCEPT !.loading = FALSE, !.list = t.list, !.tracks = t.tracks]
  BY DEF ActionsLoaded
<1>3. CASE t.live /\ t.answer = "error"
  BY <1>2, <1>3, DialogsNow, ActionsWith
<1>4. CASE t.live /\ t.answer # "error"
  <2>1. actions' = [actions EXCEPT !.loading = FALSE, !.list = t.list, !.tracks = t.tracks]
    BY <1>2, <1>4
  <2>2. ActionsIs(actions', actions.track, t.list, t.tracks, FALSE, actions.saving)
    BY <1>1, <2>1, DialogsNow, LoadedActions
  <2> QED
    BY <1>4, <2>2
<1> QED
  BY <1>2, <1>3, <1>4

LEMMA ToggleDoneIs ==
    ASSUME FavoritesTyped, NEW t \in tasks, ToggleDone(t)
    PROVE  /\ t.live /\ t.answer = "ok" =>
                /\ ActionsIs(actions', NoTrack, t.list, t.tracks, actions.loading, FALSE)
                /\ shown' = RowsAfter(t) /\ tasks' = Abandon({"actions"}) \ {t}
           /\ t.live /\ t.answer # "ok" =>
                /\ ActionsIs(actions', actions.track, actions.list, actions.tracks,
                             actions.loading, FALSE)
                /\ shown' = shown /\ Ends(t)
           /\ ~t.live => actions' = actions /\ shown' = shown /\ Ends(t)
<1>1. t.list \in Lists \cup {0} /\ t.tracks \in SUBSET Tracks
  BY TaskFields DEF FavoritesTyped, TasksSound
<1>2. CASE t.live /\ t.answer = "ok"
  <2>1. /\ actions' = [actions EXCEPT !.track = NoTrack, !.list = t.list,
                                      !.tracks = t.tracks, !.saving = FALSE]
        /\ shown' = RowsAfter(t) /\ tasks' = Abandon({"actions"}) \ {t}
    BY <1>2 DEF ToggleDone
  <2>2. ActionsIs(actions', NoTrack, t.list, t.tracks, actions.loading, FALSE)
    BY <1>1, <2>1, DialogsNow, ToggledActions
  <2> QED
    BY <1>2, <2>1, <2>2
<1>3. CASE t.live /\ t.answer # "ok"
  <2>1. actions' = [actions EXCEPT !.saving = FALSE] /\ shown' = shown /\ Ends(t)
    BY <1>3 DEF ToggleDone
  <2> QED
    BY <1>3, <2>1, DialogsNow, ActionsWith
<1>4. CASE ~t.live
  BY <1>4 DEF ToggleDone
<1> QED
  BY <1>2, <1>3, <1>4

LEMMA PickerLoadedIs ==
    ASSUME FavoritesTyped, NEW t \in tasks, PickerLoaded(t)
    PROVE  /\ ~t.live => picker' = picker
           /\ t.live /\ t.answer = "error" =>
                PickerIs(picker', picker.track, picker.lists, FALSE, picker.creating,
                         picker.saving, picker.saved)
           /\ t.live /\ t.answer # "error" =>
                PickerIs(picker', picker.track, t.seen, FALSE, picker.creating,
                         picker.saving, picker.saved)
<1>1. t.seen \in SUBSET Lists
  BY TaskFields DEF FavoritesTyped, TasksSound
<1>2. /\ ~t.live => picker' = picker
      /\ t.live /\ t.answer = "error" => picker' = [picker EXCEPT !.loading = FALSE]
      /\ t.live /\ t.answer # "error" => picker' = [picker EXCEPT !.loading = FALSE, !.lists = t.seen]
  BY DEF PickerLoaded
<1>3. CASE t.live /\ t.answer = "error"
  BY <1>2, <1>3, DialogsNow, PickerWith
<1>4. CASE t.live /\ t.answer # "error"
  <2>1. picker' = [picker EXCEPT !.loading = FALSE, !.lists = t.seen]
    BY <1>2, <1>4
  <2>2. PickerIs(picker', picker.track, t.seen, FALSE, picker.creating, picker.saving, picker.saved)
    BY <1>1, <2>1, DialogsNow, LoadedPicker
  <2> QED
    BY <1>4, <2>2
<1> QED
  BY <1>2, <1>3, <1>4

LEMMA PickDoneIs ==
    ASSUME FavoritesTyped, NEW t \in tasks, PickDone(t)
    PROVE  /\ ~t.live => picker' = picker
           /\ t.live => PickerIs(picker', picker.track, picker.lists, picker.loading,
                                 picker.creating, 0,
                                 IF t.answer = "error" THEN picker.saved
                                 ELSE picker.saved \cup {t.list})
<1>1. t.list \in DOMAIN lists
  BY FavoritesNumbers DEF FavoritesTyped, TasksSound, TaskSound, Sends, PickDone
<1> DEFINE marks == IF t.answer = "error" THEN picker.saved ELSE picker.saved \cup {t.list}
<1>2. /\ ~t.live => picker' = picker
      /\ t.live => picker' = [picker EXCEPT !.saving = NoList, !.saved = marks]
  BY DEF PickDone
<1>3. marks \in SUBSET Lists
  BY <1>1, DialogsNow
<1> HIDE DEF marks
<1>4. CASE t.live
  <2>1. picker' = [picker EXCEPT !.saving = NoList, !.saved = marks]
    BY <1>2, <1>4
  <2>2. PickerIs(picker', picker.track, picker.lists, picker.loading, picker.creating, 0, marks)
    BY <1>3, <2>1, DialogsNow, PickedPicker
  <2> QED
    BY <1>4, <2>2 DEF marks
<1> QED
  BY <1>2, <1>4

LEMMA CreateDoneIs ==
    ASSUME FavoritesTyped, NEW t \in tasks, CreateDone(t)
    PROVE  /\ ~t.live => picker' = picker /\ shown' = shown
           /\ t.live =>
                /\ PickerIs(picker', picker.track,
                            IF t.answer = "ok" /\ page # "playlists" THEN picker.lists \cup {t.list}
                            ELSE picker.lists,
                            picker.loading, FALSE, picker.saving, picker.saved)
                /\ shown' = IF t.answer = "ok" /\ page = "playlists" THEN shown \cup {t.list} ELSE shown
<1>1. t.answer = "ok" => t.list \in DOMAIN lists
  BY FavoritesNumbers DEF FavoritesTyped, TasksSound, TaskSound, Sends, CreateDone
<1> DEFINE known == IF t.answer = "ok" /\ page # "playlists" THEN picker.lists \cup {t.list}
                    ELSE picker.lists
<1>2. /\ ~t.live => picker' = picker /\ shown' = shown
      /\ t.live => /\ picker' = [picker EXCEPT !.creating = FALSE, !.lists = known]
                   /\ shown' = IF t.answer = "ok" /\ page = "playlists" THEN shown \cup {t.list} ELSE shown
  BY DEF CreateDone
<1>3. known \in SUBSET Lists
  BY <1>1, DialogsNow
<1> HIDE DEF known
<1>4. CASE t.live
  <2>1. picker' = [picker EXCEPT !.creating = FALSE, !.lists = known]
    BY <1>2, <1>4
  <2>2. PickerIs(picker', picker.track, known, picker.loading, FALSE, picker.saving, picker.saved)
    BY <1>3, <2>1, DialogsNow, CreatedPicker
  <2> QED
    BY <1>2, <1>4, <2>2 DEF known
<1> QED
  BY <1>2, <1>4

\* What waits in a dialog.
LEMMA DialogWaits ==
    ASSUME FavoritesWait, UNCHANGED <<loading, pending>>, NEW T \in SUBSET tasks, StillWaited(T),
           \A s \in T : s.kind \in {"actions", "toggle", "pick", "create", "picker"},
           actions'.saving => actions.saving /\ \A s \in T : s.live => s.kind # "toggle",
           actions'.track # NoTrack /\ actions'.loading =>
               /\ actions.track # NoTrack /\ actions.loading
               /\ \A s \in T : s.live => s.kind # "actions",
           picker'.saving # NoList =>
               picker.saving # NoList /\ \A s \in T : s.live => s.kind # "pick",
           picker'.creating => picker.creating /\ \A s \in T : s.live => s.kind # "create",
           picker'.track # NoTrack /\ picker'.loading =>
               /\ picker.track # NoTrack /\ picker.loading
               /\ \A s \in T : s.live => s.kind # "picker"
    PROVE  FavoritesWait'
<1>1. loading' => \E t \in tasks' : t.live /\ t.kind \in Pages
  BY FavoritesNumbers DEF FavoritesWait, StillWaited
<1>2. \A tr \in pending' : \E t \in tasks' : t.live /\ t.kind = "quick" /\ t.track = tr
  BY DEF FavoritesWait, StillWaited
<1>3. actions'.saving => Waits("toggle")'
  BY DEF FavoritesWait, StillWaited, Waits
<1>4. actions'.track # NoTrack /\ actions'.loading => Waits("actions")'
  BY DEF FavoritesWait, StillWaited, Waits
<1>5. picker'.saving # NoList => Waits("pick")'
  BY DEF FavoritesWait, StillWaited, Waits
<1>6. picker'.creating => Waits("create")'
  BY DEF FavoritesWait, StillWaited, Waits
<1>7. picker'.track # NoTrack /\ picker'.loading => Waits("picker")'
  BY DEF FavoritesWait, StillWaited, Waits
<1> QED
  BY <1>1, <1>2, <1>3, <1>4, <1>5, <1>6, <1>7 DEF FavoritesWait

LEMMA DialogAnsweredWaits ==
    ASSUME FavoritesTyped, FavoritesWait, NEW t \in tasks,
           ActionsLoaded(t) \/ ToggleDone(t) \/ PickerLoaded(t) \/ PickDone(t) \/ CreateDone(t)
    PROVE  FavoritesWait'
<1> DEFINE T == IF t.live THEN {t} ELSE {}
<1>1. /\ T \in SUBSET tasks /\ \A s \in T : s = t /\ t.live
      /\ UNCHANGED <<loading, pending>>
  BY DEF ActionsLoaded, ToggleDone, PickerLoaded, PickDone, CreateDone
<1>2. CASE ActionsLoaded(t)
  <2>1. Ends(t) /\ t.kind = "actions" /\ picker' = picker
    BY <1>2 DEF ActionsLoaded
  <2>2. StillWaited(T)
    BY <2>1, EndWaited
  <2>3. /\ t.live => actions'.loading = FALSE
        /\ ~t.live => actions' = actions
        /\ actions'.saving = actions.saving /\ actions'.track = actions.track
    BY <1>2, ActionsLoadedIs DEF ActionsIs
  <2> HIDE DEF T
  <2> QED
    BY <1>1, <2>1, <2>2, <2>3, DialogWaits
<1>3. CASE ToggleDone(t)
  <2>1. t.kind = "toggle" /\ picker' = picker
    BY <1>3 DEF ToggleDone
  <2>2. CASE t.live /\ t.answer = "ok"
    <3>1. /\ tasks' = Abandon({"actions"}) \ {t}
          /\ ActionsIs(actions', NoTrack, t.list, t.tracks, actions.loading, FALSE)
      BY <1>3, <2>2, ToggleDoneIs
    <3> DEFINE A == {s \in tasks : s.kind \in {"actions"}} \cup {t}
    <3>2. StillWaited(A)
      BY <3>1, AbandonWaited
    <3>3. A \in SUBSET tasks /\ \A s \in A : s.kind \in {"actions", "toggle"}
      BY <2>1
    <3> HIDE DEF A
    <3>4. actions'.saving = FALSE /\ actions'.track = NoTrack
      BY <3>1 DEF ActionsIs
    <3> QED
      BY <1>1, <2>1, <3>2, <3>3, <3>4, DialogWaits
  <2>3. CASE ~(t.live /\ t.answer = "ok")
    <3>1. /\ Ends(t) /\ (t.live => actions'.saving = FALSE) /\ (~t.live => actions' = actions)
          /\ actions'.track = actions.track /\ actions'.loading = actions.loading
      BY <1>3, <2>3, ToggleDoneIs DEF ActionsIs
    <3>2. StillWaited(T)
      BY <3>1, EndWaited
    <3> HIDE DEF T
    <3> QED
      BY <1>1, <2>1, <3>1, <3>2, DialogWaits
  <2> QED
    BY <2>2, <2>3
<1>4. CASE PickerLoaded(t)
  <2>1. Ends(t) /\ t.kind = "picker" /\ actions' = actions
    BY <1>4 DEF PickerLoaded
  <2>2. StillWaited(T)
    BY <2>1, EndWaited
  <2>3. /\ t.live => picker'.loading = FALSE
        /\ ~t.live => picker' = picker
        /\ picker'.saving = picker.saving /\ picker'.track = picker.track
        /\ picker'.creating = picker.creating
    BY <1>4, PickerLoadedIs DEF PickerIs
  <2> HIDE DEF T
  <2> QED
    BY <1>1, <2>1, <2>2, <2>3, DialogWaits
<1>5. CASE PickDone(t)
  <2>1. Ends(t) /\ t.kind = "pick" /\ actions' = actions
    BY <1>5 DEF PickDone
  <2>2. StillWaited(T)
    BY <2>1, EndWaited
  <2>3. /\ t.live => picker'.saving = NoList
        /\ ~t.live => picker' = picker
        /\ picker'.loading = picker.loading /\ picker'.track = picker.track
        /\ picker'.creating = picker.creating
    BY <1>5, PickDoneIs, FavoritesNumbers DEF PickerIs
  <2> HIDE DEF T
  <2> QED
    BY <1>1, <2>1, <2>2, <2>3, DialogWaits
<1>6. CASE CreateDone(t)
  <2>1. Ends(t) /\ t.kind = "create" /\ actions' = actions
    BY <1>6 DEF CreateDone
  <2>2. StillWaited(T)
    BY <2>1, EndWaited
  <2>3. /\ t.live => picker'.creating = FALSE
        /\ ~t.live => picker' = picker
        /\ picker'.loading = picker.loading /\ picker'.track = picker.track
        /\ picker'.saving = picker.saving
    BY <1>6, CreateDoneIs DEF PickerIs
  <2> HIDE DEF T
  <2> QED
    BY <1>1, <2>1, <2>2, <2>3, DialogWaits
<1> QED
  BY <1>2, <1>3, <1>4, <1>5, <1>6

LEMMA CloseWaits ==
    ASSUME FavoritesTyped, FavoritesWait, CloseActions \/ ClosePicker \/ ClearNotification
    PROVE  FavoritesWait'
<1>1. CASE CloseActions
  <2>1. /\ actions' = [actions EXCEPT !.track = NoTrack] /\ tasks' = Abandon({"actions"})
        /\ UNCHANGED <<loading, picker, pending>>
    BY <1>1 DEF CloseActions
  <2>2. actions'.track = NoTrack /\ actions'.saving = actions.saving
    BY <2>1, DialogsNow, ActionsWith DEF ActionsIs
  <2>3. PICK A \in SUBSET tasks : StillWaited(A) /\ \A s \in A : s.kind = "actions"
    <3>1. StillWaited({s \in tasks : s.kind \in {"actions"}} \cup {})
      BY <2>1, AbandonWaited
    <3> QED
      BY <3>1
  <2> QED
    BY <2>1, <2>2, <2>3, DialogWaits
<1>2. CASE ClosePicker
  <2>1. /\ picker' = [picker EXCEPT !.track = NoTrack] /\ tasks' = Abandon({"picker"})
        /\ UNCHANGED <<loading, actions, pending>>
    BY <1>2 DEF ClosePicker
  <2>2. /\ picker'.track = NoTrack /\ picker'.saving = picker.saving
        /\ picker'.creating = picker.creating
    BY <2>1, DialogsNow, PickerWith DEF PickerIs
  <2>3. PICK A \in SUBSET tasks : StillWaited(A) /\ \A s \in A : s.kind = "picker"
    <3>1. StillWaited({s \in tasks : s.kind \in {"picker"}} \cup {})
      BY <2>1, AbandonWaited
    <3> QED
      BY <3>1
  <2> QED
    BY <2>1, <2>2, <2>3, DialogWaits
<1>3. CASE ClearNotification
  <2>1. UNCHANGED <<loading, actions, picker, pending, tasks>>
    BY <1>3 DEF ClearNotification
  <2> QED
    BY <2>1 DEF FavoritesWait, Waits
<1> QED
  BY <1>1, <1>2, <1>3

LEMMA NavigateWaits ==
    ASSUME FavoritesTyped, NEW p \in Pages, Navigate(p)
    PROVE  FavoritesWait'
<1>1. /\ actions' = NoActions /\ picker' = NoPicker /\ pending' = {}
      /\ Begin(Abandon(Kinds), p, "list", NoTrack, NoList)
  BY DEF Navigate
<1>2. p \in Loads \cup {"quick"} /\ p # "quick"
  BY FavoritesNumbers
<1>3. PICK u \in Task : Starts(Abandon(Kinds), u, p, "list", NoTrack, 0)
  BY <1>1, <1>2, AbandonedIds, LookStarts
<1>4. u \in tasks' /\ u.live /\ u.kind = p
  BY <1>3, StartWaited
<1>5. /\ NoActions.saving = FALSE /\ NoActions.track = NoTrack /\ NoPicker.track = NoTrack
      /\ NoPicker.saving = NoList /\ NoPicker.creating = FALSE
  BY NothingOpen, FavoritesNumbers DEF ActionsIs, PickerIs
<1> QED
  BY <1>1, <1>4, <1>5 DEF FavoritesWait

LEMMA QuickAddWaits ==
    ASSUME FavoritesTyped, FavoritesWait, NEW tr \in Tracks, QuickAdd(tr)
    PROVE  FavoritesWait'
<1>1. /\ pending' = pending \cup {tr} /\ Begin(tasks, "quick", "list", tr, NoList)
      /\ UNCHANGED <<loading, actions, picker>>
  BY DEF QuickAdd
<1>2. PICK u \in Task : Starts(tasks, u, "quick", "list", tr, 0)
  BY <1>1, LookStarts
<1>3. StillWaited({}) /\ u \in tasks' /\ u.live /\ u.kind = "quick" /\ u.track = tr
  BY <1>2, StartWaited
<1> QED
  BY <1>1, <1>3 DEF FavoritesWait, StillWaited, Waits

LEMMA OpenActionsWaits ==
    ASSUME FavoritesTyped, FavoritesWait, NEW tr \in Tracks, OpenActions(tr)
    PROVE  FavoritesWait'
<1>1. /\ actions' = [actions EXCEPT !.track = tr, !.loading = TRUE]
      /\ Begin(tasks, "actions", "list", NoTrack, NoList) /\ UNCHANGED <<loading, picker, pending>>
  BY DEF OpenActions
<1>2. PICK u \in Task : Starts(tasks, u, "actions", "list", NoTrack, 0)
  BY <1>1, LookStarts, FavoritesNumbers
<1>3. StillWaited({}) /\ u \in tasks' /\ u.live /\ u.kind = "actions"
  BY <1>2, StartWaited
<1>4. actions'.saving = actions.saving
  BY <1>1, DialogsNow, OpenedActions DEF ActionsIs
<1> QED
  BY <1>1, <1>3, <1>4 DEF FavoritesWait, StillWaited, Waits

LEMMA OpenPickerWaits ==
    ASSUME FavoritesTyped, FavoritesWait, OpenPicker
    PROVE  FavoritesWait'
<1>1. /\ actions.track # NoTrack /\ picker' = Opened(actions.track)
      /\ actions' = [actions EXCEPT !.track = NoTrack] /\ UNCHANGED <<loading, pending>>
      /\ Begin(Abandon({"actions"}), "picker", "list", NoTrack, NoList)
  BY DEF OpenPicker
<1>2. PICK u \in Task : Starts(Abandon({"actions"}), u, "picker", "list", NoTrack, 0)
  BY <1>1, AbandonedIds, LookStarts, FavoritesNumbers
<1>3. u \in tasks' /\ u.live /\ u.kind = "picker"
  BY <1>2, StartWaited
<1>4. StillWaited({s \in tasks : s.kind \in {"actions"}})
  BY <1>2, StartWaited
<1>5. PICK A \in SUBSET tasks : StillWaited(A) /\ \A s \in A : s.kind = "actions"
  BY <1>4
<1>6. actions'.track = NoTrack /\ actions'.saving = actions.saving
  BY <1>1, DialogsNow, ActionsWith DEF ActionsIs
<1>7. actions.track \in Tracks
  BY <1>1, DialogsNow, ActionsFields
<1>8. picker'.saving = picker.saving /\ picker'.creating = picker.creating
  BY <1>1, <1>7, DialogsNow, OpenedPicker DEF PickerIs, Opened
<1> QED
  BY <1>1, <1>3, <1>5, <1>6, <1>8, FavoritesNumbers DEF FavoritesWait, StillWaited, Waits

LEMMA ClickWaits ==
    ASSUME FavoritesTyped, FavoritesWait, Toggle \/ (\E i \in Lists : Pick(i)) \/ CreatePlaylist
    PROVE  FavoritesWait'
<1>1. CASE Toggle
  <2>1. PICK u \in Task : Starts(tasks, u, "toggle", ToggleOp, actions.track, actions.list)
    BY <1>1, ToggleStarts
  <2>2. StillWaited({}) /\ u \in tasks' /\ u.live /\ u.kind = "toggle"
    BY <2>1, StartWaited
  <2>3. UNCHANGED <<loading, picker, pending>> /\ actions'.track = actions.track
        /\ actions'.loading = actions.loading
    BY <1>1, ToggleStarts DEF ActionsIs
  <2> QED
    BY <2>2, <2>3 DEF FavoritesWait, StillWaited, Waits
<1>2. CASE \E i \in Lists : Pick(i)
  <2>1. PICK i \in Lists : Pick(i)
    BY <1>2
  <2>2. PICK u \in Task : Starts(tasks, u, "pick", "add", picker.track, i)
    BY <2>1, PickStarts
  <2>3. StillWaited({}) /\ u \in tasks' /\ u.live /\ u.kind = "pick"
    BY <2>2, StartWaited
  <2>4. UNCHANGED <<loading, actions, pending>> /\ picker'.track = picker.track
        /\ picker'.loading = picker.loading /\ picker'.creating = picker.creating
    BY <2>1, PickStarts DEF PickerIs
  <2> QED
    BY <2>3, <2>4 DEF FavoritesWait, StillWaited, Waits
<1>3. CASE CreatePlaylist
  <2>1. PICK u \in Task : Starts(tasks, u, "create", "create", NoTrack, 0)
    BY <1>3, CreateStarts
  <2>2. StillWaited({}) /\ u \in tasks' /\ u.live /\ u.kind = "create"
    BY <2>1, StartWaited
  <2>3. UNCHANGED <<loading, actions, pending>> /\ picker'.track = picker.track
        /\ picker'.loading = picker.loading /\ picker'.saving = picker.saving
    BY <1>3, CreateStarts DEF PickerIs
  <2> QED
    BY <2>2, <2>3 DEF FavoritesWait, StillWaited, Waits
<1> QED
  BY <1>1, <1>2, <1>3

-----------------------------------------------------------------------------
(* Types and waits, in every step *)

LEMMA FavoritesStarts == Init => FavoritesTyped /\ FavoritesWait /\ LoadsOfPage
<1> SUFFICES ASSUME Init PROVE FavoritesTyped /\ FavoritesWait /\ LoadsOfPage
  OBVIOUS
<1> DEFINE R == [favorites: BOOLEAN, tracks: SUBSET Tracks]
           row1 == [favorites |-> TRUE, tracks |-> {}]
           row2 == [favorites |-> FALSE, tracks |-> {}]
           t == NewTask(1, "home", "list", NoTrack, NoList)
<1>1. /\ lists \in {<< >>, <<row1, row2>>} /\ recent = Reverse([i \in DOMAIN lists |-> i])
      /\ page = "home" /\ shown = {} /\ loading = TRUE
      /\ actions = NoActions /\ picker = NoPicker /\ pending = {} /\ notice = NoNotice
      /\ tasks = {t} /\ begun = 1
      /\ failures = 0 /\ excused = FALSE /\ disturbed = FALSE /\ removed = {} /\ namesakes = {}
  BY DEF Init
<1>2. row1 \in R /\ row2 \in R
  OBVIOUS
<1>3. /\ t \in Task /\ t.kind = "home" /\ t.op = "list" /\ t.list = 0 /\ t.seen = {}
      /\ t.answer = "none" /\ t.live = TRUE /\ t.id = 1
  BY FavoritesNumbers DEF NewTask, Task
<1> HIDE DEF R, row1, row2, t
<1>4. /\ lists \in Seq(R) /\ Len(lists) <= MaxLists
      /\ recent \in Seq(Lists) /\ Len(recent) = Len(lists) /\ ToSet(recent) = DOMAIN lists
  <2>1. CASE lists = << >>
    <3>1. recent = << >>
      BY <1>1, <2>1 DEF Reverse
    <3> QED
      BY <2>1, <3>1, FavoritesNumbers DEF ToSet
  <2>2. CASE lists = <<row1, row2>>
    <3>1. Len(lists) = 2 /\ DOMAIN lists = 1 .. 2 /\ lists \in Seq(R)
      BY <1>2, <2>2
    <3> DEFINE q == [i \in 1 .. 2 |-> i]
    <3>2. q \in Seq(Nat) /\ Len(q) = 2 /\ q[1] = 1 /\ q[2] = 2
      OBVIOUS
    <3>3. recent = [i \in 1 .. 2 |-> q[(2 - i) + 1]]
      BY <1>1, <3>1, <3>2 DEF Reverse
    <3>4. /\ DOMAIN recent = 1 .. 2 /\ recent[1] = 2 /\ recent[2] = 1
      BY <3>2, <3>3
    <3>5. 1 \in Lists /\ 2 \in Lists
      BY FavoritesNumbers
    <3>6. \A i \in 1 .. 2 : i = 1 \/ i = 2
      OBVIOUS
    <3>7. recent \in [1 .. 2 -> Lists]
      BY <3>3, <3>4, <3>5, <3>6
    <3>8. recent \in Seq(Lists) /\ Len(recent) = 2
      <4>1. recent \in Seq(Lists)
        BY <3>7, SeqDef
      <4> QED
        BY <3>4, <4>1, LenProperties
    <3>9. ToSet(recent) = 1 .. 2
      BY <3>4, <3>6 DEF ToSet
    <3> QED
      BY <3>1, <3>8, <3>9, FavoritesNumbers
  <2> QED
    BY <1>1, <2>1, <2>2
<1>5. ListsSound
  BY <1>1, <1>4 DEF ListsSound, R
<1>6. TaskSound(t)
  BY <1>3, FavoritesNumbers DEF TaskSound, Sends, Ensured
<1>7. TasksSound
  BY <1>1, <1>3, <1>6 DEF TasksSound
<1>8. /\ ActionsIs(actions, NoTrack, 0, {}, FALSE, FALSE)
      /\ PickerIs(picker, NoTrack, {}, FALSE, FALSE, 0, {})
  BY <1>1, NothingOpen
<1>9. notice \in Notice /\ notice.good = FALSE
  BY <1>1 DEF NoNotice, Notice
<1>10. ClientSound
  BY <1>1, <1>8, <1>9, FavoritesNumbers DEF ClientSound, ActionsIs, PickerIs, NoDialog
<1>11. CountersSound
  <2>1. begun \in 1 .. MaxTasks /\ failures \in 0 .. MaxFailures
    BY <1>1, FavoritesNumbers
  <2>2. excused \in BOOLEAN /\ disturbed \in BOOLEAN /\ namesakes = {}
    BY <1>1, Zenon
  <2> QED
    BY <2>1, <2>2 DEF CountersSound
<1>12. FavoritesWait /\ LoadsOfPage
  BY <1>1, <1>3, <1>8, FavoritesNumbers DEF FavoritesWait, LoadsOfPage, ActionsIs, PickerIs
<1> QED
  BY <1>5, <1>7, <1>10, <1>11, <1>12 DEF FavoritesTyped

LEMMA AbandonedWere ==
    ASSUME FavoritesTyped, NEW kinds
    PROVE  \A s \in Abandon(kinds) : s.live => \E v \in tasks : v.live /\ v.kind = s.kind
<1> SUFFICES ASSUME NEW s \in Abandon(kinds), s.live
             PROVE  \E v \in tasks : v.live /\ v.kind = s.kind
  OBVIOUS
<1>1. TasksSound
  BY DEF FavoritesTyped
<1>2. PICK t \in tasks :
          /\ s \in Task /\ s.id = t.id /\ s.kind = t.kind /\ s.track = t.track
          /\ s.op = t.op /\ s.answer = t.answer /\ s.list = t.list /\ s.tracks = t.tracks
          /\ s.seen = t.seen /\ s.live = (t.live /\ t.kind \notin kinds)
  BY <1>1, Abandons
<1>3. t.live
  BY <1>2
<1> QED
  BY <1>2, <1>3

LEMMA LoadsStayOfPage ==
    ASSUME FavoritesTyped, LoadsOfPage, Next
    PROVE  LoadsOfPage'
<1>1. SUFFICES ASSUME page' # page \/ \E v \in tasks' : v.live /\ v.kind \in Pages /\
                         \A s \in tasks : s.live => s.kind # v.kind
               PROVE  LoadsOfPage'
  BY DEF LoadsOfPage
<1>2. CASE \E t \in tasks : Serve(t)
  <2>1. PICK t \in tasks : Serve(t)
    BY <1>2
  <2>2. PICK u \in Task : Same(t, u)
    BY <2>1, ServedTask
  <2>3. page' = page
    BY <2>1, FavoritesServed DEF client
  <2> QED
    BY <1>1, <2>2, <2>3 DEF Same
<1>3. CASE \E t \in tasks : Resume(t)
  <2>1. PICK t \in tasks : Resume(t)
    BY <1>3
  <2>2. CASE CreateFavorites(t) \/ PlaylistsRelist(t) \/ QuickEnsured(t) \/ ToggleEnsured(t)
    <3>1. PICK u \in Task : Same(t, u) /\ UNCHANGED client
      BY <2>2, GoneTask
    <3> QED
      BY <1>1, <3>1 DEF Same, client
  <2>3. CASE PageLoaded(t) \/ QuickDone(t) \/ ActionsLoaded(t) \/ PickerLoaded(t) \/ PickDone(t) \/ CreateDone(t)
    <3>1. tasks' \subseteq tasks /\ page' = page
      BY <2>3 DEF PageLoaded, QuickDone, ActionsLoaded, PickerLoaded, PickDone, CreateDone, Ends
    <3> QED
      BY <1>1, <3>1
  <2>4. CASE ToggleDone(t)
    <3>1. page' = page /\ (tasks' \subseteq tasks \/ tasks' \subseteq Abandon({"actions"}))
      BY <2>4 DEF ToggleDone, Ends
    <3>2. \A s \in Abandon({"actions"}) : s.live => \E v \in tasks : v.live /\ v.kind = s.kind
      BY AbandonedWere
    <3> QED
      BY <1>1, <3>1, <3>2
  <2> QED
    BY <2>1, <2>2, <2>3, <2>4 DEF Resume
<1>4. CASE \E p \in Pages : Navigate(p)
  <2>1. PICK p \in Pages : Navigate(p)
    BY <1>4
  <2>2. page' = p /\ Begin(Abandon(Kinds), p, "list", NoTrack, NoList)
    BY <2>1 DEF Navigate
  <2>3. p \in Loads \cup {"quick"} /\ p # "quick"
    BY FavoritesNumbers
  <2>4. PICK u \in Task : Starts(Abandon(Kinds), u, p, "list", NoTrack, 0)
    BY <2>2, <2>3, AbandonedIds, LookStarts
  <2>5. \A s \in Abandon(Kinds) : ~s.live
    <3>1. \A s \in Abandon(Kinds) : \E v \in tasks : v.kind = s.kind /\ s.live = (v.live /\ v.kind \notin Kinds)
      BY Abandons DEF FavoritesTyped
    <3>2. \A v \in tasks : v.kind \in Kinds
      BY TaskFields DEF FavoritesTyped, TasksSound
    <3> QED
      BY <3>1, <3>2
  <2> QED
    BY <2>2, <2>4, <2>5 DEF LoadsOfPage, Starts
<1>5. CASE \E tr \in Tracks : QuickAdd(tr) \/ OpenActions(tr)
  <2>1. PICK tr \in Tracks : QuickAdd(tr) \/ OpenActions(tr)
    BY <1>5
  <2>2. page' = page
    BY <2>1 DEF QuickAdd, OpenActions
  <2>3. PICK u \in Task, kind \in {"quick", "actions"}, track \in {tr, NoTrack} :
          Starts(tasks, u, kind, "list", track, 0)
    <3>1. CASE QuickAdd(tr)
      <4>1. Begin(tasks, "quick", "list", tr, NoList)
        BY <3>1 DEF QuickAdd
      <4> QED
        BY <4>1, LookStarts
    <3>2. CASE OpenActions(tr)
      <4>1. Begin(tasks, "actions", "list", NoTrack, NoList)
        BY <3>2 DEF OpenActions
      <4> QED
        BY <4>1, LookStarts, FavoritesNumbers
    <3> QED
      BY <2>1, <3>1, <3>2
  <2> QED
    BY <1>1, <2>2, <2>3, FavoritesNumbers DEF Starts
<1>6. CASE OpenPicker
  <2>1. page' = page /\ Begin(Abandon({"actions"}), "picker", "list", NoTrack, NoList)
    BY <1>6 DEF OpenPicker
  <2>2. PICK u \in Task : Starts(Abandon({"actions"}), u, "picker", "list", NoTrack, 0)
    BY <2>1, AbandonedIds, LookStarts, FavoritesNumbers
  <2>3. \A s \in Abandon({"actions"}) : s.live => \E v \in tasks : v.live /\ v.kind = s.kind
    BY AbandonedWere
  <2> QED
    BY <1>1, <2>1, <2>2, <2>3, FavoritesNumbers DEF Starts
<1>7. CASE Toggle
  <2>1. PICK u \in Task : Starts(tasks, u, "toggle", ToggleOp, actions.track, actions.list)
    BY <1>7, ToggleStarts
  <2> QED
    BY <1>1, <1>7, <2>1, ToggleStarts, FavoritesNumbers DEF Starts
<1>8. CASE \E i \in Lists : Pick(i)
  <2>1. PICK i \in Lists : Pick(i)
    BY <1>8
  <2>2. PICK u \in Task : Starts(tasks, u, "pick", "add", picker.track, i)
    BY <2>1, PickStarts
  <2> QED
    BY <1>1, <2>1, <2>2, PickStarts, FavoritesNumbers DEF Starts
<1>9. CASE CreatePlaylist
  <2>1. PICK u \in Task : Starts(tasks, u, "create", "create", NoTrack, 0)
    BY <1>9, CreateStarts
  <2> QED
    BY <1>1, <1>9, <2>1, CreateStarts, FavoritesNumbers DEF Starts
<1>10. CASE CloseActions \/ ClosePicker \/ ClearNotification
  <2>1. page' = page /\ \E kinds : tasks' \subseteq tasks \/ tasks' \subseteq Abandon(kinds)
    BY <1>10 DEF CloseActions, ClosePicker, ClearNotification
  <2>2. PICK kinds : tasks' \subseteq tasks \/ tasks' \subseteq Abandon(kinds)
    BY <2>1
  <2>3. \A s \in Abandon(kinds) : s.live => \E v \in tasks : v.live /\ v.kind = s.kind
    BY AbandonedWere
  <2> QED
    BY <1>1, <2>1, <2>2, <2>3
<1> QED
  BY <1>2, <1>3, <1>4, <1>5, <1>6, <1>7, <1>8, <1>9, <1>10 DEF Next, Click

LEMMA FavoritesKept ==
    ASSUME FavoritesTyped, FavoritesWait, LoadsOfPage, Next
    PROVE  FavoritesTyped' /\ FavoritesWait' /\ LoadsOfPage'
<1>1. CASE \E t \in tasks : Serve(t)
  <2>1. PICK t \in tasks : Serve(t)
    BY <1>1
  <2>2. PICK u \in Task : Same(t, u)
    BY <2>1, ServedTask
  <2>3. FavoritesTyped' /\ UNCHANGED client
    BY <2>1, FavoritesServed
  <2>4. FavoritesWait'
    BY <2>2, <2>3, SameWaited, WaitsStill
  <2> QED
    BY <2>3, <2>4, LoadsStayOfPage
<1>2. CASE \E t \in tasks : Resume(t)
  <2>1. PICK t \in tasks : Resume(t)
    BY <1>2
  <2>2. CASE CreateFavorites(t) \/ PlaylistsRelist(t) \/ QuickEnsured(t) \/ ToggleEnsured(t)
    <3>1. PICK u \in Task : Same(t, u) /\ UNCHANGED client
      BY <2>2, GoneTask
    <3>2. FavoritesWait'
      BY <3>1, SameWaited, WaitsStill
    <3>3. FavoritesTyped'
      BY <2>2, CreateFavoritesTyped, RelistTyped, EnsuredTyped
    <3> QED
      BY <3>2, <3>3, LoadsStayOfPage
  <2>3. CASE PageLoaded(t)
    BY <2>3, PageLoadedTyped, PageLoadedWaits, LoadsStayOfPage
  <2>4. CASE QuickDone(t)
    BY <2>4, QuickDoneTyped, QuickDoneWaits, LoadsStayOfPage
  <2>5. CASE ActionsLoaded(t) \/ ToggleDone(t) \/ PickerLoaded(t) \/ PickDone(t) \/ CreateDone(t)
    <3>1. FavoritesTyped'
      BY <2>5, ActionsLoadedTyped, ToggleDoneTyped, PickerLoadedTyped, PickDoneTyped, CreateDoneTyped
    <3> QED
      BY <2>5, <3>1, DialogAnsweredWaits, LoadsStayOfPage
  <2> QED
    BY <2>1, <2>2, <2>3, <2>4, <2>5 DEF Resume
<1>3. CASE Click
  <2>1. CASE \E p \in Pages : Navigate(p)
    BY <2>1, NavigateTyped, NavigateWaits, LoadsStayOfPage
  <2>2. CASE \E tr \in Tracks : QuickAdd(tr) \/ OpenActions(tr)
    BY <2>2, QuickAddTyped, QuickAddWaits, OpenActionsTyped, OpenActionsWaits, LoadsStayOfPage
  <2>3. CASE CloseActions \/ ClosePicker
    BY <2>3, CloseTyped, CloseWaits, LoadsStayOfPage
  <2>4. CASE OpenPicker
    BY <2>4, OpenPickerTyped, OpenPickerWaits, LoadsStayOfPage
  <2>5. CASE Toggle \/ (\E i \in Lists : Pick(i)) \/ CreatePlaylist
    <3>1. FavoritesTyped'
      BY <2>5, ToggleTyped, PickTyped, CreateTyped
    <3> QED
      BY <2>5, <3>1, ClickWaits, LoadsStayOfPage
  <2> QED
    BY <1>3, <2>1, <2>2, <2>3, <2>4, <2>5 DEF Click
<1>4. CASE ClearNotification
  BY <1>4, CloseTyped, CloseWaits, LoadsStayOfPage
<1> QED
  BY <1>1, <1>2, <1>3, <1>4 DEF Next

-----------------------------------------------------------------------------
(* One Favorites *)

\* The playlists the player made as Favorites.
Made == Favorites \ namesakes

\* Unless a run is excused: the player made one Favorites at most, one task at most has
\* looked in vain, and until its creation is done the player has made none.
FavoritesFound ==
    ~excused =>
        /\ \A i, j \in Made : i = j
        /\ \A s, t \in InVain : s.id = t.id
        /\ \A t \in InVain : t.op = "list" \/ t.answer = "none" => Made = {}

\* The task s was there, with the same request and the same answer.
Was(s, t) ==
    /\ s.id = t.id /\ s.kind = t.kind /\ s.track = t.track /\ s.op = t.op
    /\ s.answer = t.answer /\ s.list = t.list /\ s.tracks = t.tracks /\ s.seen = t.seen
    /\ s.live => t.live

\* It has just begun.
Fresh(s) == s.answer = "none" /\ s.op \in {"list", "add", "remove", "create"}

LEMMA AbandonedWas ==
    ASSUME FavoritesTyped, NEW kinds
    PROVE  \A s \in Abandon(kinds) : \E t \in tasks : Was(s, t) /\ s.live = (t.live /\ t.kind \notin kinds)
<1>1. TasksSound
  BY DEF FavoritesTyped
<1> SUFFICES ASSUME NEW s \in Abandon(kinds)
             PROVE  \E t \in tasks : Was(s, t) /\ s.live = (t.live /\ t.kind \notin kinds)
  OBVIOUS
<1>2. PICK t \in tasks :
          /\ s \in Task /\ s.id = t.id /\ s.kind = t.kind /\ s.track = t.track
          /\ s.op = t.op /\ s.answer = t.answer /\ s.list = t.list /\ s.tracks = t.tracks
          /\ s.seen = t.seen /\ s.live = (t.live /\ t.kind \notin kinds)
  BY <1>1, Abandons
<1> QED
  BY <1>2 DEF Was

LEMMA StartedWas ==
    ASSUME FavoritesTyped, NEW ts, NEW kinds, ts = tasks \/ ts = Abandon(kinds),
           NEW u, NEW kind, NEW op \in {"list", "add", "remove", "create"}, NEW track, NEW i,
           Starts(ts, u, kind, op, track, i)
    PROVE  /\ \A s \in tasks' : (\E t \in tasks : Was(s, t)) \/ Fresh(s)
           /\ UNCHANGED <<lists, recent, removed, namesakes, excused>>
<1>1. \A s \in ts : \E t \in tasks : Was(s, t)
  BY AbandonedWas DEF Was
<1>2. tasks' = ts \cup {u} /\ Fresh(u)
  BY DEF Starts, Fresh
<1>3. UNCHANGED <<lists, recent, removed, namesakes, excused>>
  BY DEF Starts, service
<1> QED
  BY <1>1, <1>2, <1>3

\* A step of the listener.
LEMMA ClickWas ==
    ASSUME FavoritesTyped, Click \/ ClearNotification
    PROVE  /\ \A s \in tasks' : (\E t \in tasks : Was(s, t)) \/ Fresh(s)
           /\ UNCHANGED <<lists, recent, removed, namesakes, excused>>
<1>1. CASE \E p \in Pages : Navigate(p)
  <2>1. PICK p \in Pages : Navigate(p)
    BY <1>1
  <2>2. Begin(Abandon(Kinds), p, "list", NoTrack, NoList)
    BY <2>1 DEF Navigate
  <2>3. p \in Loads \cup {"quick"} /\ p # "quick"
    BY FavoritesNumbers
  <2>4. PICK u \in Task : Starts(Abandon(Kinds), u, p, "list", NoTrack, 0)
    BY <2>2, <2>3, AbandonedIds, LookStarts
  <2> QED
    BY <2>4, StartedWas
<1>2. CASE \E tr \in Tracks : QuickAdd(tr) \/ OpenActions(tr)
  <2>1. PICK tr \in Tracks : QuickAdd(tr) \/ OpenActions(tr)
    BY <1>2
  <2>2. PICK u \in Task, kind \in {"quick", "actions"}, track \in {tr, NoTrack} :
          Starts(tasks, u, kind, "list", track, 0)
    <3>1. CASE QuickAdd(tr)
      <4>1. Begin(tasks, "quick", "list", tr, NoList)
        BY <3>1 DEF QuickAdd
      <4> QED
        BY <4>1, LookStarts
    <3>2. CASE OpenActions(tr)
      <4>1. Begin(tasks, "actions", "list", NoTrack, NoList)
        BY <3>2 DEF OpenActions
      <4> QED
        BY <4>1, LookStarts, FavoritesNumbers
    <3> QED
      BY <2>1, <3>1, <3>2
  <2> QED
    BY <2>2, StartedWas
<1>3. CASE OpenPicker
  <2>1. Begin(Abandon({"actions"}), "picker", "list", NoTrack, NoList)
    BY <1>3 DEF OpenPicker
  <2>2. PICK u \in Task : Starts(Abandon({"actions"}), u, "picker", "list", NoTrack, 0)
    BY <2>1, AbandonedIds, LookStarts, FavoritesNumbers
  <2> QED
    BY <2>2, StartedWas
<1>4. CASE Toggle
  <2>1. PICK u \in Task : Starts(tasks, u, "toggle", ToggleOp, actions.track, actions.list)
    BY <1>4, ToggleStarts
  <2>2. ToggleOp \in {"list", "add", "remove", "create"}
    BY DEF ToggleOp
  <2> QED
    BY <2>1, <2>2, StartedWas
<1>5. CASE \E i \in Lists : Pick(i)
  <2>1. PICK i \in Lists : Pick(i)
    BY <1>5
  <2>2. PICK u \in Task : Starts(tasks, u, "pick", "add", picker.track, i)
    BY <2>1, PickStarts
  <2> QED
    BY <2>2, StartedWas
<1>6. CASE CreatePlaylist
  <2>1. PICK u \in Task : Starts(tasks, u, "create", "create", NoTrack, 0)
    BY <1>6, CreateStarts
  <2> QED
    BY <2>1, StartedWas
<1>7. CASE CloseActions \/ ClosePicker \/ ClearNotification
  <2>1. /\ UNCHANGED <<lists, recent, removed, namesakes, excused>>
        /\ (tasks' = tasks \/ \E kinds : tasks' = Abandon(kinds))
    BY <1>7 DEF CloseActions, ClosePicker, ClearNotification, Elsewhere, service
  <2>2. \A s \in tasks' : \E t \in tasks : Was(s, t)
    BY <2>1, AbandonedWas DEF Was
  <2> QED
    BY <2>1, <2>2
<1> QED
  BY <1>1, <1>2, <1>3, <1>4, <1>5, <1>6, <1>7 DEF Click

\* A task has ended.
LEMMA EndedWas ==
    ASSUME FavoritesTyped, NEW t \in tasks,
           \/ PageLoaded(t) \/ QuickDone(t) \/ ActionsLoaded(t) \/ ToggleDone(t)
           \/ PickerLoaded(t) \/ PickDone(t) \/ CreateDone(t)
    PROVE  /\ \A s \in tasks' : \E r \in tasks : Was(s, r)
           /\ UNCHANGED <<lists, recent, removed, namesakes, excused>>
<1>1. UNCHANGED <<lists, recent, removed, namesakes, excused>>
  BY DEF PageLoaded, QuickDone, ActionsLoaded, ToggleDone, PickerLoaded, PickDone, CreateDone,
         Elsewhere, service
<1>2. tasks' \subseteq tasks \/ tasks' \subseteq Abandon({"actions"})
  BY DEF PageLoaded, QuickDone, ActionsLoaded, ToggleDone, PickerLoaded, PickDone, CreateDone, Ends
<1> QED
  BY <1>1, <1>2, AbandonedWas DEF Was

\* The tasks in vain are among those that were.
VainBefore(u) ==
    \E t \in InVain :
        u.id = t.id /\ (u.op = "list" \/ u.answer = "none" => t.op = "list" \/ t.answer = "none")

LEMMA FoundStill ==
    ASSUME FavoritesFound, UNCHANGED excused, Made' = Made,
           \A u \in InVain' : VainBefore(u)
    PROVE  FavoritesFound'
<1> QED
  BY DEF FavoritesFound, VainBefore

LEMMA WasFound ==
    ASSUME FavoritesFound, UNCHANGED <<lists, recent, removed, namesakes, excused>>,
           \A s \in tasks' : (\E t \in tasks : Was(s, t)) \/ Fresh(s)
    PROVE  FavoritesFound'
<1>1. Made' = Made
  BY GrowsStill DEF Made
<1>2. ASSUME NEW u \in InVain'
      PROVE  VainBefore(u)
  <2>1. u \in tasks' /\ ~Fresh(u)
    BY DEF InVain, Fresh
  <2>2. PICK t \in tasks : Was(u, t)
    BY <2>1
  <2>3. t \in InVain
    BY <2>2 DEF InVain, Was
  <2> QED
    BY <2>2, <2>3 DEF Was, VainBefore
<1> QED
  BY <1>1, <1>2, FoundStill

\* One task has another request or answer.
LEMMA SameFound ==
    ASSUME FavoritesFound, UNCHANGED excused, Made' = Made, NEW t \in tasks, NEW u,
           tasks' = (tasks \ {t}) \cup {u}, u.id = t.id, u.kind = t.kind,
           u.op = "favorites" /\ u.answer # "error" =>
               t \in InVain /\ (t.op = "list" \/ t.answer = "none"),
           ~(u.op = "list" /\ u.answer = "ok" /\ u.list = NoList /\ u.kind # "picker")
    PROVE  FavoritesFound'
<1>1. ASSUME NEW s \in InVain'
      PROVE  VainBefore(s)
  <2>1. CASE s = u
    BY <2>1 DEF InVain, VainBefore
  <2>2. CASE s # u
    BY <2>2 DEF InVain, VainBefore
  <2> QED
    BY <2>1, <2>2
<1> QED
  BY <1>1, FoundStill

LEMMA ServedFound ==
    ASSUME FavoritesTyped, FavoritesFound, NEW t \in tasks, Serve(t)
    PROVE  FavoritesFound'
<1>0. t \in Task /\ TaskSound(t)
  BY DEF FavoritesTyped, TasksSound
<1>1. CASE ServeList(t)
  <2>1. /\ t.op \in {"list", "relist"} /\ t.answer = "none"
        /\ UNCHANGED <<lists, recent, removed, namesakes>>
        /\ FoundFor(t) = 0 /\ Ensures(t) => Favorites \cap ToSet(FirstPage) = {}
        /\ excused' = (excused \/ (Ensures(t) /\ FoundFor(t) = 0 /\ InVain # {})
                               \/ (Ensures(t) /\ Favorites # {} /\ Favorites \cap ToSet(FirstPage) = {}))
    BY <1>1, ListServed DEF service
  <2>2. PICK u \in Task :
          /\ tasks' = (tasks \ {t}) \cup {u}
          /\ Answers(t, u, "ok", FoundFor(t),
                     IF FoundFor(t) = 0 THEN {} ELSE lists[FoundFor(t)].tracks, ToSet(FirstPage))
    BY <1>1, ListServed
  <2>3. /\ u.id = t.id /\ u.kind = t.kind /\ u.op = t.op /\ u.answer = "ok" /\ u.list = FoundFor(t)
    BY <2>2 DEF Answers
  <2>4. Made' = Made
    BY <2>1, GrowsStill DEF Made
  <2> SUFFICES ASSUME ~excused' PROVE FavoritesFound'
    BY DEF FavoritesFound
  <2>5. ~excused
    BY <2>1, Zenon
  <2>6. excused \in BOOLEAN
    BY DEF FavoritesTyped, CountersSound
  <2>7. UNCHANGED excused
    BY <2>5, <2>6, <1>1, ListServed
  <2>8. CASE Ensures(t) /\ FoundFor(t) = 0
    <3>0. InVain = {} /\ Favorites = {}
      BY <2>1, <2>8, Zenon
    <3>1. InVain = {} /\ Made = {}
      BY <3>0 DEF Made
    <3>2. InVain' \subseteq {u}
      BY <2>2, <3>1 DEF InVain
    <3> QED
      BY <2>4, <3>1, <3>2 DEF FavoritesFound
  <2>9. CASE ~(Ensures(t) /\ FoundFor(t) = 0)
    <3>1. ~(u.op = "list" /\ u.answer = "ok" /\ u.list = NoList /\ u.kind # "picker")
      BY <2>3, <2>9 DEF Ensures, NoList
    <3> QED
      BY <2>1, <2>2, <2>3, <2>4, <2>7, <3>1, SameFound
  <2> QED
    BY <2>8, <2>9
<1>2. CASE ServeCreate(t)
  <2> DEFINE n == Len(lists) + 1
  <2>1. /\ t.op \in {"favorites", "create"} /\ t.answer = "none" /\ UNCHANGED excused
        /\ NamedBy(t, n) /\ n \notin Favorites
    BY <1>2, CreateServed DEF Favorites
  <2>2. PICK u \in Task : tasks' = (tasks \ {t}) \cup {u} /\ Answers(t, u, "ok", n, {}, {})
    BY <1>2, CreateServed
  <2>3. u.id = t.id /\ u.kind = t.kind /\ u.op = t.op /\ u.answer = "ok"
    BY <2>2 DEF Answers
  <2> HIDE DEF n
  <2>4. CASE t.op = "create"
    <3>1. Made' = Made
      BY <2>1, <2>4 DEF Made, NamedBy
    <3> QED
      BY <2>1, <2>2, <2>3, <2>4, <3>1, SameFound
  <2>5. CASE t.op = "favorites"
    <3>1. t.kind # "picker"
      BY <1>0, <2>5 DEF TaskSound, Sends
    <3>2. t \in InVain
      BY <2>1, <2>5, <3>1 DEF InVain
    <3> SUFFICES ASSUME ~excused PROVE FavoritesFound'
      BY <2>1 DEF FavoritesFound
    <3>3. Made = {} /\ \A s \in InVain : s.id = t.id
      BY <2>1, <3>2 DEF FavoritesFound
    <3>4. \A s \in tasks : s.id = t.id => s = t
      BY DEF FavoritesTyped, TasksSound
    <3>5. InVain' \subseteq {u}
      BY <2>2, <3>3, <3>4 DEF InVain
    <3>6. Made' \subseteq {n}
      BY <2>1, <2>5, <3>3 DEF Made, NamedBy
    <3> QED
      BY <2>3, <2>5, <3>5, <3>6 DEF FavoritesFound
  <2> QED
    BY <2>1, <2>4, <2>5
<1>3. CASE ServeAdd(t)
  <2>1. t.op = "add" /\ UNCHANGED excused /\ Made' = Made
    BY <1>3, AddServed DEF Made
  <2>2. PICK u \in Task : tasks' = (tasks \ {t}) \cup {u}
                          /\ Answers(t, u, "ok", t.list, lists'[t.list].tracks, {})
    BY <1>3, AddServed
  <2> QED
    BY <2>1, <2>2, SameFound DEF Answers
<1>4. CASE ServeRemove(t)
  <2>1. t.op = "remove" /\ UNCHANGED excused /\ Made' = Made
    BY <1>4, RemoveServed DEF Made
  <2>2. PICK u \in Task : tasks' = (tasks \ {t}) \cup {u}
                          /\ Answers(t, u, "ok", t.list, lists'[t.list].tracks, {})
    BY <1>4, RemoveServed
  <2> QED
    BY <2>1, <2>2, SameFound DEF Answers
<1>5. CASE ServeConflict(t) \/ Fail(t)
  <2>1. UNCHANGED <<lists, removed, namesakes>> /\ UNCHANGED excused
    BY <1>5, RefusalServed
  <2>2. Made' = Made
    BY <2>1, GrowsStill DEF Made
  <2>3. PICK u \in Task, how \in {"conflict", "error"} :
          /\ tasks' = (tasks \ {t}) \cup {u}
          /\ Answers(t, u, how, t.list, IF t.list = 0 THEN {} ELSE lists[t.list].tracks, {})
          /\ how = "conflict" => t.op = "add"
    BY <1>5, RefusalServed
  <2> QED
    BY <2>1, <2>2, <2>3, SameFound DEF Answers
<1> QED
  BY <1>1, <1>2, <1>3, <1>4, <1>5 DEF Serve

LEMMA GoneFound ==
    ASSUME FavoritesTyped, FavoritesFound, NEW t \in tasks,
           CreateFavorites(t) \/ PlaylistsRelist(t) \/ QuickEnsured(t) \/ ToggleEnsured(t)
    PROVE  FavoritesFound'
<1>1. t \in Task /\ t.list \in Lists \cup {0}
  BY TaskFields DEF FavoritesTyped, TasksSound
<1>2. UNCHANGED <<lists, removed, namesakes, excused>>
  BY DEF CreateFavorites, PlaylistsRelist, QuickEnsured, ToggleEnsured, Elsewhere, service
<1>3. Made' = Made
  BY <1>2, GrowsStill DEF Made
<1>4. CASE CreateFavorites(t)
  <2>1. Ensures(t) /\ t.answer = "ok" /\ t.list = NoList /\ Goes(t, "favorites", 0)
    BY <1>4, FavoritesNumbers DEF CreateFavorites
  <2>2. PICK u \in Task : GoesOn(t, u, "favorites", 0)
    BY <1>1, <2>1, TaskGoes
  <2>3. t \in InVain /\ t.op = "list"
    BY <2>1 DEF Ensures, InVain
  <2> QED
    BY <1>2, <1>3, <2>2, <2>3, SameFound DEF GoesOn
<1>5. CASE PlaylistsRelist(t) \/ QuickEnsured(t) \/ ToggleEnsured(t)
  <2>1. PICK op \in {"relist", "add"}, i \in Lists \cup {0} : Goes(t, op, i)
    BY <1>1, <1>5, FavoritesNumbers DEF PlaylistsRelist, QuickEnsured, ToggleEnsured
  <2>2. PICK u \in Task : GoesOn(t, u, op, i)
    BY <1>1, <2>1, TaskGoes
  <2> QED
    BY <1>2, <1>3, <2>2, SameFound DEF GoesOn
<1> QED
  BY <1>4, <1>5

LEMMA FavoritesFoundKept ==
    ASSUME FavoritesTyped, FavoritesFound, Next
    PROVE  FavoritesFound'
<1>1. CASE \E t \in tasks : Serve(t)
  BY <1>1, ServedFound
<1>2. CASE \E t \in tasks : Resume(t)
  <2>1. PICK t \in tasks : Resume(t)
    BY <1>2
  <2>2. CASE CreateFavorites(t) \/ PlaylistsRelist(t) \/ QuickEnsured(t) \/ ToggleEnsured(t)
    BY <2>2, GoneFound
  <2>3. CASE \/ PageLoaded(t) \/ QuickDone(t) \/ ActionsLoaded(t) \/ ToggleDone(t)
             \/ PickerLoaded(t) \/ PickDone(t) \/ CreateDone(t)
    BY <2>3, EndedWas, WasFound
  <2> QED
    BY <2>1, <2>2, <2>3 DEF Resume
<1>3. CASE Click \/ ClearNotification
  BY <1>3, ClickWas, WasFound
<1> QED
  BY <1>1, <1>2, <1>3 DEF Next

LEMMA FoundAtFirst == Init => FavoritesFound
<1> SUFFICES ASSUME Init PROVE FavoritesFound
  OBVIOUS
<1>1. InVain = {}
  BY DEF Init, InVain, NewTask
<1>2. Favorites \subseteq {1}
  <2>1. \A i \in DOMAIN lists : lists[i].favorites => i = 1
    BY DEF Init
  <2> QED
    BY <2>1 DEF Favorites
<1> QED
  BY <1>1, <1>2 DEF FavoritesFound, Made

LEMMA FoundOnce == FavoritesFound => FavoritesOnce
<1> SUFFICES ASSUME FavoritesFound, ~excused PROVE ~(Cardinality(Made) > 1)
  BY DEF FavoritesOnce, Made
<1>1. \A i, j \in Made : i = j
  BY DEF FavoritesFound
<1>2. CASE Made = {}
  BY <1>2, FS_EmptySet
<1>3. CASE Made # {}
  <2>1. PICK i : Made = {i}
    BY <1>1, <1>3
  <2>2. Cardinality(Made) = 1
    BY <2>1, FS_Singleton
  <2> QED
    BY <2>2
<1> QED
  BY <1>2, <1>3

-----------------------------------------------------------------------------
(* Quiet runs *)

\* No request failed, changes ran alone, no listener named a playlist like Favorites, and
\* there is room for the playlists on their page.
Quiet == ~disturbed /\ ~excused /\ namesakes = {} /\ Len(lists) <= PageSize

\* A task that changes something is the only one.
Alone == \A s, t \in tasks : Changing(s.kind, s.op) => s = t

\* What a task was told is so.
AsServed(t) ==
    /\ t.answer # "error" /\ (t.kind \notin Loads => t.live)
    /\ Ensured(t) => t.tracks = InFavorites
    /\ t.op \in {"list", "relist"} /\ t.answer = "ok" => t.seen = DOMAIN lists
    /\ t.op = "relist" => Favorites # {}
    /\ t.op = "add" /\ t.answer \in {"ok", "conflict"} => t.track \in lists[t.list].tracks
    /\ t.op = "remove" /\ t.answer = "ok" => t.track \notin lists[t.list].tracks

\* What a change began on is still what the player shows.
AsBegun(t) ==
    /\ t.kind = "quick" => NoDialog
    /\ t.kind = "toggle" => t.op \in {"add", "remove"} /\ picker.track = NoTrack
    /\ t.kind = "pick" => actions.track = NoTrack /\ picker.track \in {t.track, NoTrack}
    /\ t.kind = "create" => actions.track = NoTrack
    /\ page = "library" /\ t.kind \in {"quick", "pick", "toggle"} => t.track \in shown
    /\ page = "library" /\ t.kind = "toggle" => t.op = "remove"

\* What the service has done for one of these tasks, and the player has not heard of.
Created(ts) == {t.list : t \in {s \in ts : s.kind = "create" /\ s.answer = "ok"}}
Removed(ts) == {t.track : t \in {s \in ts : s.kind = "toggle" /\ s.op = "remove" /\ s.answer = "ok"}}
Untoggled(ts) == \A t \in ts : t.kind = "toggle" => t.answer # "ok"

\* What is shown is what is stored, but for that.
Tells ==
    /\ ~loading => Favorites # {}
    /\ actions.track = NoTrack \/ picker.track = NoTrack
    /\ page = "library" /\ ~loading => shown = InFavorites \cup Removed(tasks)
    /\ page = "playlists" /\ ~loading => shown \cup Created(tasks) = DOMAIN lists
    /\ page = "library" => {actions.track, picker.track} \subseteq shown \cup {NoTrack}
    /\ actions.track # NoTrack /\ ~actions.loading =>
          actions.list \in Favorites /\ (Untoggled(tasks) => actions.tracks = InFavorites)
    /\ picker.track # NoTrack /\ ~picker.loading => picker.lists \cup Created(tasks) = DOMAIN lists
    /\ picker.track # NoTrack => \A i \in picker.saved : picker.track \in lists[i].tracks

QuietInv == Quiet => Alone /\ (\A t \in tasks : AsServed(t) /\ AsBegun(t)) /\ Tells

\* Once all tasks have ended.
LEMMA QuietSettled ==
    ASSUME FavoritesTyped, FavoritesWait, QuietInv
    PROVE  SettledIsTrue
<1>1. notice.good => notice.track \in InFavorites \cup removed
  BY DEF FavoritesTyped, ClientSound
<1>2. ASSUME tasks = {}
      PROVE  /\ ~loading /\ pending = {} /\ ~actions.saving
             /\ picker.saving = NoList /\ ~picker.creating
             /\ actions.track # NoTrack => ~actions.loading
             /\ picker.track # NoTrack => ~picker.loading
  BY <1>2 DEF FavoritesWait, Waits
<1>3. ASSUME tasks = {}, Quiet PROVE ShownIsStored
  <2>1. Tells
    BY <1>3 DEF QuietInv
  <2>2. Created(tasks) = {} /\ Removed(tasks) = {} /\ Untoggled(tasks)
    BY <1>3 DEF Created, Removed, Untoggled
  <2>3. /\ page = "library" /\ ~loading => shown = InFavorites
        /\ page = "playlists" /\ ~loading => shown = DOMAIN lists
    BY <2>1, <2>2 DEF Tells
  <2>4. actions.track # NoTrack => actions.tracks = InFavorites
    BY <1>2, <1>3, <2>1, <2>2 DEF Tells
  <2>5. picker.track # NoTrack =>
           picker.lists = DOMAIN lists /\ \A i \in picker.saved : picker.track \in lists[i].tracks
    BY <1>2, <1>3, <2>1, <2>2 DEF Tells
  <2> QED
    BY <2>3, <2>4, <2>5 DEF ShownIsStored
<1> QED
  BY <1>1, <1>2, <1>3 DEF SettledIsTrue, Quiet

-----------------------------------------------------------------------------
(* Quiet tasks *)

\* Favorites are one, when the run is quiet.
LEMMA FavoritesTracks ==
    ASSUME FavoritesFound, ~excused, namesakes = {}, NEW i \in Favorites
    PROVE  InFavorites = lists[i].tracks /\ Favorites = {i}
<1>1. Favorites = {i}
  BY DEF FavoritesFound, Made
<1> QED
  BY <1>1 DEF InFavorites

\* A change has no company.
LEMMA AloneIs ==
    ASSUME Alone, NEW t \in tasks, Changing(t.kind, t.op)
    PROVE  tasks = {t}
<1> QED
  BY DEF Alone

LEMMA KindsChanging ==
    /\ \A kind, op : kind \in {"quick", "toggle", "pick", "create"} \/ op = "favorites" => Changing(kind, op)
    /\ \A kind, op : ~Changing(kind, op) => kind \in Loads /\ op # "favorites"
<1> QED
  BY FavoritesNumbers DEF Changing

LEMMA OtherKinds ==
    ASSUME NEW ts, \A t \in ts : t.kind \notin {"toggle", "create"}
    PROVE  Created(ts) = {} /\ Removed(ts) = {} /\ Untoggled(ts)
<1> QED
  BY DEF Created, Removed, Untoggled

LEMMA OneTold ==
    ASSUME NEW t
    PROVE  /\ Created({t}) = IF t.kind = "create" /\ t.answer = "ok" THEN {t.list} ELSE {}
           /\ Removed({t}) = IF t.kind = "toggle" /\ t.op = "remove" /\ t.answer = "ok"
                             THEN {t.track} ELSE {}
           /\ Untoggled({t}) <=> ~(t.kind = "toggle" /\ t.answer = "ok")
<1>1. Untoggled({t}) <=> ~(t.kind = "toggle" /\ t.answer = "ok")
  BY DEF Untoggled
<1>2. Created({t}) = IF t.kind = "create" /\ t.answer = "ok" THEN {t.list} ELSE {}
  BY DEF Created
<1>3. Removed({t}) = IF t.kind = "toggle" /\ t.op = "remove" /\ t.answer = "ok" THEN {t.track} ELSE {}
  BY DEF Removed
<1> QED
  BY <1>1, <1>2, <1>3

\* A step that lets playlists and dialogs be.
LEMMA TellsStill ==
    ASSUME Tells, UNCHANGED client, UNCHANGED <<lists, removed>>,
           Created(tasks') = Created(tasks), Removed(tasks') = Removed(tasks),
           Untoggled(tasks') => Untoggled(tasks)
    PROVE  Tells'
<1>1. Favorites' = Favorites /\ InFavorites' = InFavorites
  BY GrowsStill
<1> QED
  BY <1>1 DEF Tells, client

LEMMA ServedStill ==
    ASSUME NEW t, AsServed(t), UNCHANGED <<lists, removed>>
    PROVE  AsServed(t)'
<1>1. Favorites' = Favorites /\ InFavorites' = InFavorites
  BY GrowsStill
<1> QED
  BY <1>1 DEF AsServed, Ensured, Ensures

LEMMA BegunStill ==
    ASSUME NEW t, AsBegun(t), NEW u, u.kind = t.kind, u.track = t.track,
           t.kind = "toggle" => u.op = t.op, UNCHANGED client
    PROVE  AsBegun(u)'
<1> QED
  BY DEF AsBegun, client, NoDialog

LEMMA LoadBegun ==
    ASSUME NEW t, t.kind \in Loads
    PROVE  AsBegun(t) /\ AsBegun(t)'
<1> QED
  BY FavoritesNumbers DEF AsBegun

\* One task has another request or answer.
LEMMA SameAlone ==
    ASSUME Alone, NEW t \in tasks, NEW u, tasks' = (tasks \ {t}) \cup {u},
           Changing(u.kind, u.op) => Changing(t.kind, t.op) \/ tasks = {t}
    PROVE  Alone'
<1>1. CASE tasks = {t}
  BY <1>1 DEF Alone
<1>2. CASE tasks # {t}
  <2>1. ~Changing(t.kind, t.op) /\ ~Changing(u.kind, u.op)
    BY <1>2, AloneIs
  <2>2. \A s \in tasks : ~Changing(s.kind, s.op)
    BY <2>1 DEF Alone
  <2> QED
    BY <2>1, <2>2 DEF Alone
<1> QED
  BY <1>1, <1>2

LEMMA SameTold ==
    ASSUME NEW t \in tasks, NEW u, tasks' = (tasks \ {t}) \cup {u}, u.kind = t.kind,
           t.kind \notin {"toggle", "create"}
    PROVE  /\ Created(tasks') = Created(tasks) /\ Removed(tasks') = Removed(tasks)
           /\ Untoggled(tasks') => Untoggled(tasks)
<1>1. \A s : s.kind \in {"toggle", "create"} => (s \in tasks' <=> s \in tasks)
  OBVIOUS
<1> QED
  BY <1>1 DEF Created, Removed, Untoggled

-----------------------------------------------------------------------------
(* The service, in a quiet run *)

LEMMA ListServedQuiet ==
    ASSUME FavoritesTyped, FavoritesFound, QuietInv, NEW t \in tasks, ServeList(t), Quiet'
    PROVE  QuietInv'
<1>0. t \in Task /\ TaskSound(t)
  BY DEF FavoritesTyped, TasksSound
<1>1. /\ t.op \in {"list", "relist"} /\ t.answer = "none"
      /\ UNCHANGED <<lists, removed, namesakes, client, disturbed>>
      /\ FoundFor(t) \in Favorites \cup {0}
      /\ excused' = (excused \/ (Ensures(t) /\ FoundFor(t) = 0 /\ InVain # {})
                             \/ (Ensures(t) /\ Favorites # {} /\ Favorites \cap ToSet(FirstPage) = {}))
  BY ListServed DEF service
<1>2. PICK u \in Task :
        /\ tasks' = (tasks \ {t}) \cup {u}
        /\ Answers(t, u, "ok", FoundFor(t),
                   IF FoundFor(t) = 0 THEN {} ELSE lists[FoundFor(t)].tracks, ToSet(FirstPage))
  BY ListServed
<1>3. /\ u.id = t.id /\ u.kind = t.kind /\ u.track = t.track /\ u.live = t.live /\ u.op = t.op
      /\ u.answer = "ok" /\ u.list = FoundFor(t) /\ u.seen = ToSet(FirstPage)
      /\ u.tracks = IF FoundFor(t) = 0 THEN {} ELSE lists[FoundFor(t)].tracks
  BY <1>2 DEF Answers
<1>4. ~excused
  BY <1>1, Zenon DEF Quiet
<1>5. Quiet
  BY <1>1, <1>4 DEF Quiet
<1>6. Alone /\ (\A s \in tasks : AsServed(s) /\ AsBegun(s)) /\ Tells
  BY <1>5 DEF QuietInv
<1>7. ToSet(FirstPage) = DOMAIN lists
  BY <1>5, Lists1 DEF FavoritesTyped, Quiet
<1>8. t.kind \notin {"toggle", "create"}
  BY <1>0, <1>1, <1>6 DEF AsBegun, TaskSound, Sends
<1>9. Alone'
  BY <1>2, <1>3, <1>6, SameAlone
<1>10. Ensured(u) => u.tracks = InFavorites
  <2>1. SUFFICES ASSUME Ensured(u) PROVE u.tracks = InFavorites
    OBVIOUS
  <2>2. u.list # 0 /\ FoundFor(t) \in Favorites
    BY <1>1, <1>3, <2>1 DEF Ensured, NoList
  <2> QED
    BY <1>3, <1>4, <1>5, <2>2, FavoritesTracks DEF Quiet
<1>11. AsServed(u)
  <2>1. AsServed(t)
    BY <1>6
  <2> QED
    BY <1>1, <1>3, <1>7, <1>10, <2>1 DEF AsServed
<1>12. \A s \in tasks' : AsServed(s)'
  BY <1>1, <1>2, <1>6, <1>11, ServedStill
<1>13. \A s \in tasks' : AsBegun(s)'
  BY <1>1, <1>2, <1>3, <1>6, BegunStill
<1>14. Tells'
  BY <1>1, <1>2, <1>3, <1>6, <1>8, SameTold, TellsStill
<1> QED
  BY <1>9, <1>12, <1>13, <1>14 DEF QuietInv

LEMMA CreateServedQuiet ==
    ASSUME FavoritesTyped, FavoritesFound, QuietInv, NEW t \in tasks, ServeCreate(t), Quiet'
    PROVE  QuietInv'
<1> DEFINE n == Len(lists) + 1
<1>0. t \in Task /\ TaskSound(t)
  BY DEF FavoritesTyped, TasksSound
<1>1. /\ t.op \in {"favorites", "create"} /\ t.answer = "none"
      /\ UNCHANGED <<removed, client, excused, disturbed>>
      /\ Len(lists') = n /\ DOMAIN lists' = DOMAIN lists \cup {n}
      /\ \A i \in DOMAIN lists : lists'[i] = lists[i]
      /\ Favorites' = (IF t.op = "favorites" THEN Favorites \cup {n} ELSE Favorites)
      /\ namesakes = {} /\ InFavorites' = InFavorites
  <2> HIDE DEF n
  <2>1. NamedBy(t, n) /\ t.op \in {"favorites", "create"}
    BY CreateServed DEF n
  <2>2. namesakes' = {}
    BY DEF Quiet
  <2>3. /\ Favorites' = (IF t.op = "favorites" THEN Favorites \cup {n} ELSE Favorites)
        /\ namesakes = {}
    BY <2>1, <2>2 DEF NamedBy
  <2> QED
    BY <2>3, CreateServed DEF n
<1>2. PICK u \in Task : tasks' = (tasks \ {t}) \cup {u} /\ Answers(t, u, "ok", n, {}, {})
  BY CreateServed
<1>3. /\ u.id = t.id /\ u.kind = t.kind /\ u.track = t.track /\ u.live = t.live /\ u.op = t.op
      /\ u.answer = "ok" /\ u.list = n /\ u.seen = {} /\ u.tracks = {}
  BY <1>2 DEF Answers
<1>4. Quiet
  <2>1. Len(lists) \in Nat /\ Len(lists) <= n
    BY ListRows DEF FavoritesTyped
  <2>2. Len(lists) <= PageSize
    BY <1>1, <2>1, FavoritesNumbers DEF Quiet
  <2> QED
    BY <1>1, <2>2 DEF Quiet
<1>5. Alone /\ (\A s \in tasks : AsServed(s) /\ AsBegun(s)) /\ Tells
  BY <1>4 DEF QuietInv
<1>6. t.kind = "create" <=> t.op = "create"
  BY <1>0, <1>1, TaskFields, FavoritesNumbers DEF TaskSound, Sends
<1>7. tasks = {t} /\ tasks' = {u}
  BY <1>1, <1>2, <1>5, <1>6, KindsChanging, AloneIs
<1>8. t.op = "favorites" => Favorites = {} /\ InFavorites = {} /\ loading
  <2>1. SUFFICES ASSUME t.op = "favorites" PROVE Favorites = {} /\ InFavorites = {} /\ loading
    OBVIOUS
  <2>2. t \in InVain
    BY <1>0, <1>1, <2>1 DEF InVain, TaskSound, Sends
  <2>3. Favorites = {}
    BY <1>1, <1>4, <2>2 DEF FavoritesFound, Made, Quiet
  <2> QED
    BY <1>5, <2>3 DEF InFavorites, Tells
<1>9. Alone'
  BY <1>7 DEF Alone
<1>10. AsServed(u)'
  <2>1. AsServed(t)
    BY <1>5
  <2>2. Ensured(u)' => u.tracks = InFavorites'
    BY <1>1, <1>3, <1>8 DEF Ensured, Ensures
  <2> QED
    BY <1>1, <1>3, <2>1, <2>2 DEF AsServed
<1>11. AsBegun(u)'
  BY <1>1, <1>3, <1>5, BegunStill
<1>12. /\ Created(tasks) = {} /\ Removed(tasks) = {} /\ Removed(tasks') = {}
       /\ Created(tasks') = IF t.op = "create" THEN {n} ELSE {}
  BY <1>1, <1>3, <1>6, <1>7, OneTold
<1>13. Tells'
  <2>1. UNCHANGED <<page, shown, loading, actions, picker>>
    BY <1>1 DEF client
  <2>2. picker.saved \subseteq DOMAIN lists /\ (loading => NoDialog)
    BY DEF FavoritesTyped, ClientSound
  <2>3. CASE t.op = "favorites"
    <3>1. loading /\ actions.track = NoTrack /\ picker.track = NoTrack
      BY <1>8, <2>2, <2>3 DEF NoDialog
    <3> QED
      BY <1>5, <2>1, <3>1 DEF Tells
  <2>4. CASE t.op = "create"
    <3>1. actions.track = NoTrack
      BY <1>5, <1>6, <2>4 DEF AsBegun
    <3>2. Created(tasks') = {n} /\ Favorites' = Favorites
      BY <1>1, <1>12, <2>4
    <3>3. page = "playlists" /\ ~loading => shown \cup {n} = DOMAIN lists'
      BY <1>1, <1>5, <1>12 DEF Tells
    <3>4. picker.track # NoTrack /\ ~picker.loading => picker.lists \cup {n} = DOMAIN lists'
      BY <1>1, <1>5, <1>12 DEF Tells
    <3>5. picker.track # NoTrack => \A i \in picker.saved : picker.track \in lists'[i].tracks
      BY <1>1, <1>5, <2>2 DEF Tells
    <3> HIDE DEF n
    <3> QED
      BY <1>1, <1>5, <1>12, <2>1, <3>1, <3>2, <3>3, <3>4, <3>5 DEF Tells
  <2> QED
    BY <1>1, <2>3, <2>4
<1> QED
  BY <1>7, <1>9, <1>10, <1>11, <1>13 DEF QuietInv

LEMMA AddServedQuiet ==
    ASSUME FavoritesTyped, FavoritesFound, QuietInv, NEW t \in tasks, ServeAdd(t), Quiet'
    PROVE  QuietInv'
<1>0. t \in Task /\ TaskSound(t)
  BY DEF FavoritesTyped, TasksSound
<1>1. /\ t.op = "add" /\ t.answer = "none" /\ t.list \in DOMAIN lists
      /\ UNCHANGED <<removed, namesakes, client, excused, disturbed>>
      /\ Len(lists') = Len(lists) /\ DOMAIN lists' = DOMAIN lists
      /\ \A j \in DOMAIN lists : lists[j].tracks \subseteq lists'[j].tracks
      /\ lists'[t.list].tracks = lists[t.list].tracks \cup {t.track} /\ Favorites' = Favorites
      /\ InFavorites' = IF t.list \in Favorites THEN InFavorites \cup {t.track} ELSE InFavorites
  BY AddServed
<1>2. PICK u \in Task : tasks' = (tasks \ {t}) \cup {u}
                        /\ Answers(t, u, "ok", t.list, lists'[t.list].tracks, {})
  BY AddServed
<1>3. /\ u.id = t.id /\ u.kind = t.kind /\ u.track = t.track /\ u.live = t.live /\ u.op = t.op
      /\ u.answer = "ok" /\ u.list = t.list /\ u.tracks = lists'[t.list].tracks
  BY <1>2 DEF Answers
<1>4. Quiet
  BY <1>1 DEF Quiet
<1>5. Alone /\ (\A s \in tasks : AsServed(s) /\ AsBegun(s)) /\ Tells
  BY <1>4 DEF QuietInv
<1>6. t.kind \in {"quick", "toggle", "pick"}
  BY <1>0, <1>1, TaskFields, FavoritesNumbers DEF TaskSound, Sends
<1>7. tasks = {t} /\ tasks' = {u}
  BY <1>2, <1>5, <1>6, KindsChanging, AloneIs
<1>8. AsServed(u)'
  <2>1. AsServed(t)
    BY <1>5
  <2> QED
    BY <1>1, <1>3, <2>1 DEF AsServed, Ensured, Ensures
<1>9. AsBegun(u)'
  BY <1>1, <1>3, <1>5, BegunStill
<1>10. /\ Created(tasks) = {} /\ Removed(tasks) = {} /\ Removed(tasks') = {} /\ Created(tasks') = {}
       /\ Untoggled(tasks) /\ (Untoggled(tasks') => t.kind # "toggle")
  BY <1>1, <1>3, <1>6, <1>7, OneTold
<1>11. Tells'
  <2>1. UNCHANGED <<page, shown, loading, actions, picker>>
    BY <1>1 DEF client
  <2>2. picker.saved \subseteq DOMAIN lists
    BY DEF FavoritesTyped, ClientSound
  <2>3. page = "library" /\ ~loading => InFavorites' = InFavorites
    <3>1. page = "library" => t.track \in shown
      BY <1>5, <1>6 DEF AsBegun
    <3>2. page = "library" /\ ~loading => t.track \in InFavorites
      BY <1>5, <1>10, <3>1 DEF Tells
    <3> QED
      BY <1>1, <3>2
  <2>4. t.kind # "toggle" => actions.track = NoTrack
    BY <1>5, <1>6 DEF AsBegun, NoDialog
  <2>5. picker.track # NoTrack => \A i \in picker.saved : picker.track \in lists'[i].tracks
    BY <1>1, <1>5, <2>2 DEF Tells
  <2>6. actions.track # NoTrack => ~Untoggled(tasks')
    BY <1>10, <2>4
  <2> QED
    BY <1>1, <1>5, <1>10, <2>1, <2>3, <2>5, <2>6 DEF Tells
<1> QED
  BY <1>7, <1>8, <1>9, <1>11 DEF QuietInv, Alone

LEMMA RemoveServedQuiet ==
    ASSUME FavoritesTyped, FavoritesFound, QuietInv, NEW t \in tasks, ServeRemove(t), Quiet'
    PROVE  QuietInv'
<1>1. /\ t.op = "remove" /\ t.answer = "none" /\ t.list \in DOMAIN lists
      /\ t.kind = "toggle" /\ t.track \in lists[t.list].tracks /\ t.list \in Favorites
      /\ UNCHANGED <<namesakes, client, excused, disturbed>>
      /\ Len(lists') = Len(lists) /\ DOMAIN lists' = DOMAIN lists
      /\ lists'[t.list].tracks = lists[t.list].tracks \ {t.track} /\ Favorites' = Favorites
  BY RemoveServed
<1>2. PICK u \in Task : tasks' = (tasks \ {t}) \cup {u}
                        /\ Answers(t, u, "ok", t.list, lists'[t.list].tracks, {})
  BY RemoveServed
<1>3. /\ u.id = t.id /\ u.kind = t.kind /\ u.track = t.track /\ u.live = t.live /\ u.op = t.op
      /\ u.answer = "ok" /\ u.list = t.list /\ u.tracks = lists'[t.list].tracks
  BY <1>2 DEF Answers
<1>4. Quiet
  BY <1>1 DEF Quiet
<1>5. Alone /\ (\A s \in tasks : AsServed(s) /\ AsBegun(s)) /\ Tells
  BY <1>4 DEF QuietInv
<1>6. tasks = {t} /\ tasks' = {u}
  BY <1>1, <1>2, <1>5, KindsChanging, AloneIs
<1>7. Favorites = {t.list} /\ InFavorites = lists[t.list].tracks
  BY <1>1, <1>4, FavoritesTracks DEF Quiet
<1>8. InFavorites' = lists'[t.list].tracks
  BY <1>1, <1>7 DEF InFavorites
<1>9. AsServed(u)'
  <2>1. AsServed(t)
    BY <1>5
  <2> QED
    BY <1>1, <1>3, <2>1 DEF AsServed, Ensured, Ensures
<1>10. AsBegun(u)'
  BY <1>1, <1>3, <1>5, BegunStill
<1>11. /\ Created(tasks) = {} /\ Removed(tasks) = {} /\ Removed(tasks') = {t.track}
       /\ Created(tasks') = {} /\ ~Untoggled(tasks')
  BY <1>1, <1>3, <1>6, OneTold
<1>12. Tells'
  <2>1. UNCHANGED <<page, shown, loading, actions, picker>>
    BY <1>1 DEF client
  <2>2. page = "library" /\ ~loading => shown = InFavorites' \cup Removed(tasks')
    BY <1>1, <1>5, <1>7, <1>8, <1>11 DEF Tells
  <2>3. picker.track = NoTrack
    BY <1>1, <1>5 DEF AsBegun
  <2> QED
    BY <1>1, <1>5, <1>11, <2>1, <2>2, <2>3 DEF Tells
<1> QED
  BY <1>6, <1>9, <1>10, <1>12 DEF QuietInv, Alone

LEMMA RefusalQuiet ==
    ASSUME FavoritesTyped, QuietInv, NEW t \in tasks, ServeConflict(t) \/ Fail(t), Quiet'
    PROVE  QuietInv'
<1>0. t \in Task /\ TaskSound(t)
  BY DEF FavoritesTyped, TasksSound
<1>1. UNCHANGED <<lists, removed, namesakes, client, excused>>
  BY RefusalServed
<1>2. PICK u \in Task :
        /\ tasks' = (tasks \ {t}) \cup {u}
        /\ Answers(t, u, "conflict", t.list, IF t.list = 0 THEN {} ELSE lists[t.list].tracks, {})
        /\ t.op = "add" /\ t.track \in lists[t.list].tracks /\ t.answer = "none"
        /\ UNCHANGED disturbed
  <2>1. PICK u \in Task, how \in {"conflict", "error"} :
          /\ tasks' = (tasks \ {t}) \cup {u}
          /\ Answers(t, u, how, t.list, IF t.list = 0 THEN {} ELSE lists[t.list].tracks, {})
          /\ how = "error" => disturbed' = TRUE
          /\ how = "conflict" => /\ t.op = "add" /\ t.track \in lists[t.list].tracks
                                 /\ t.answer = "none" /\ UNCHANGED disturbed
    BY RefusalServed
  <2>2. how = "conflict"
    BY <2>1 DEF Quiet
  <2> QED
    BY <2>1, <2>2
<1>3. /\ u.id = t.id /\ u.kind = t.kind /\ u.track = t.track /\ u.live = t.live /\ u.op = t.op
      /\ u.answer = "conflict" /\ u.list = t.list
  BY <1>2 DEF Answers
<1>4. Quiet
  BY <1>1, <1>2 DEF Quiet
<1>5. Alone /\ (\A s \in tasks : AsServed(s) /\ AsBegun(s)) /\ Tells
  BY <1>4 DEF QuietInv
<1>6. t.kind \in {"quick", "toggle", "pick"}
  BY <1>0, <1>2, TaskFields, FavoritesNumbers DEF TaskSound, Sends
<1>7. tasks = {t} /\ tasks' = {u}
  BY <1>2, <1>5, <1>6, KindsChanging, AloneIs
<1>8. AsServed(u)
  <2>1. AsServed(t)
    BY <1>5
  <2> QED
    BY <1>2, <1>3, <2>1 DEF AsServed, Ensured, Ensures
<1>9. AsServed(u)' /\ AsBegun(u)'
  BY <1>1, <1>3, <1>5, <1>8, ServedStill, BegunStill
<1>10. /\ Created(tasks') = Created(tasks) /\ Removed(tasks') = Removed(tasks)
       /\ Untoggled(tasks') => Untoggled(tasks)
  BY <1>2, <1>3, <1>7, OneTold
<1>11. Tells'
  BY <1>1, <1>5, <1>10, TellsStill
<1> QED
  BY <1>7, <1>9, <1>11 DEF QuietInv, Alone

LEMMA ServiceQuiet ==
    ASSUME FavoritesTyped, FavoritesFound, QuietInv, NEW t \in tasks, Serve(t)
    PROVE  QuietInv'
<1> SUFFICES ASSUME Quiet' PROVE QuietInv'
  BY DEF QuietInv
<1> QED
  BY ListServedQuiet, CreateServedQuiet, AddServedQuiet, RemoveServedQuiet, RefusalQuiet DEF Serve

-----------------------------------------------------------------------------
(* The tasks go on, in a quiet run *)

LEMMA GoneQuiet ==
    ASSUME FavoritesTyped, QuietInv, NEW t \in tasks,
           CreateFavorites(t) \/ PlaylistsRelist(t) \/ QuickEnsured(t) \/ ToggleEnsured(t), Quiet'
    PROVE  QuietInv'
<1>0. t \in Task /\ TaskSound(t) /\ t.list \in Lists \cup {0}
  BY TaskFields DEF FavoritesTyped, TasksSound
<1>1. UNCHANGED <<lists, removed, namesakes, client, excused>>
  BY DEF CreateFavorites, PlaylistsRelist, QuickEnsured, ToggleEnsured, Elsewhere, service
<1>2. ~disturbed /\ (CreateFavorites(t) => tasks = {t})
  <2>1. \/ disturbed' = (disturbed \/ tasks # {t})
        \/ ~CreateFavorites(t) /\ disturbed' = disturbed
    BY DEF CreateFavorites, PlaylistsRelist, QuickEnsured, ToggleEnsured, Elsewhere
  <2>2. ~disturbed'
    BY DEF Quiet
  <2>3. CASE disturbed' = (disturbed \/ tasks # {t})
    <3>1. ~(disturbed \/ tasks # {t})
      BY <2>2, <2>3, Zenon
    <3> QED
      BY <3>1, Zenon
  <2>4. CASE ~CreateFavorites(t) /\ disturbed' = disturbed
    <3>1. ~disturbed
      BY <2>2, <2>4, Zenon
    <3> QED
      BY <2>4, <3>1, Zenon
  <2> QED
    BY <2>1, <2>3, <2>4, Zenon
<1>3. Quiet
  BY <1>1, <1>2 DEF Quiet
<1>4. Alone /\ (\A s \in tasks : AsServed(s) /\ AsBegun(s)) /\ Tells
  BY <1>3 DEF QuietInv
<1>5. t.kind \notin {"toggle", "create"} /\ t.answer = "ok"
  <2>1. t.op \in {"list", "favorites"} /\ t.answer = "ok"
    BY DEF CreateFavorites, PlaylistsRelist, QuickEnsured, ToggleEnsured, Ensured, Ensures
  <2> QED
    BY <1>0, <1>4, <2>1 DEF AsBegun, TaskSound, Sends
<1>6. ~ToggleEnsured(t)
  BY <1>5 DEF ToggleEnsured
<1>7. PICK op \in {"favorites", "relist", "add"}, i \in Lists \cup {0} :
        /\ Goes(t, op, i) /\ (op = "favorites" => tasks = {t})
        /\ op = "relist" => t.kind = "playlists" /\ Favorites # {}
        /\ op = "add" => t.kind = "quick"
  <2>1. CASE CreateFavorites(t)
    BY <1>2, <2>1, FavoritesNumbers DEF CreateFavorites
  <2>2. CASE PlaylistsRelist(t)
    <3>1. Ensured(t) /\ t.kind = "playlists" /\ Goes(t, "relist", 0)
      BY <2>2, FavoritesNumbers DEF PlaylistsRelist
    <3>2. Favorites # {}
      BY <1>0, <3>1 DEF TaskSound
    <3> QED
      BY <3>1, <3>2
  <2>3. CASE QuickEnsured(t)
    BY <1>0, <2>3 DEF QuickEnsured
  <2> QED
    BY <1>6, <2>1, <2>2, <2>3
<1>8. PICK u \in Task : GoesOn(t, u, op, i)
  BY <1>0, <1>7, TaskGoes
<1>9. /\ tasks' = (tasks \ {t}) \cup {u} /\ u.kind = t.kind /\ u.track = t.track
      /\ u.live = t.live /\ u.op = op /\ u.answer = "none"
  BY <1>8 DEF GoesOn
<1>10. AsServed(u)'
  <2>1. AsServed(t)
    BY <1>4
  <2>2. AsServed(u)
    BY <1>7, <1>9, <2>1 DEF AsServed, Ensured
  <2> QED
    BY <1>1, <2>2, ServedStill
<1>11. AsBegun(u)'
  BY <1>1, <1>4, <1>5, <1>9, BegunStill
<1>12. \A s \in tasks' : AsServed(s)' /\ AsBegun(s)'
  BY <1>1, <1>4, <1>9, <1>10, <1>11, ServedStill, BegunStill
<1>13. Alone'
  <2>1. Changing(u.kind, u.op) => Changing(t.kind, t.op) \/ tasks = {t}
    BY <1>7, <1>9, FavoritesNumbers DEF Changing
  <2> QED
    BY <1>4, <1>9, <2>1, SameAlone
<1>14. Tells'
  BY <1>1, <1>4, <1>5, <1>9, SameTold, TellsStill
<1> QED
  BY <1>12, <1>13, <1>14 DEF QuietInv

\* A task that changed something has ended, and there is no other.
LEMMA EndedAlone ==
    ASSUME Tells', tasks' = {}
    PROVE  QuietInv'
<1> QED
  BY DEF QuietInv, Alone

\* The end of a task that changed nothing leaves tasks that change nothing.
LEMMA EndedLoad ==
    ASSUME FavoritesTyped, NEW t \in tasks, Ends(t), t.kind \in Loads, t.op # "favorites",
           Alone, \A s \in tasks : AsServed(s), UNCHANGED <<lists, removed>>, Tells'
    PROVE  QuietInv'
<1>1. \A s \in tasks : s = t \/ ~Changing(s.kind, s.op)
  BY DEF Alone
<1>2. tasks' \subseteq tasks /\ \A s \in tasks' : s.kind \in Loads
  BY <1>1, KindsChanging DEF Ends
<1>3. \A s \in tasks' : AsServed(s)' /\ AsBegun(s)'
  BY <1>2, ServedStill, LoadBegun
<1>4. Alone'
  BY <1>2 DEF Alone
<1> QED
  BY <1>3, <1>4 DEF QuietInv

\* Or the load was alone, and is of any kind.
LEMMA EndedAny ==
    ASSUME FavoritesTyped, NEW t \in tasks, Ends(t), t.kind \in Loads,
           Alone, \A s \in tasks : AsServed(s), UNCHANGED <<lists, removed>>, Tells'
    PROVE  QuietInv'
<1>1. CASE t.op = "favorites"
  <2>1. tasks = {t}
    BY <1>1, KindsChanging, AloneIs
  <2> QED
    BY <2>1, EndedAlone DEF Ends
<1> QED
  BY <1>1, EndedLoad

\* Beside a load there are only loads.
LEMMA BesideLoad ==
    ASSUME Alone, NEW t \in tasks, t.kind \in Loads
    PROVE  /\ \A s \in tasks : s.kind \in Loads
           /\ Created(tasks) = {} /\ Removed(tasks) = {} /\ Untoggled(tasks)
           /\ Ends(t) => Created(tasks') = {} /\ Removed(tasks') = {} /\ Untoggled(tasks')
<1>1. \A s \in tasks : s = t \/ ~Changing(s.kind, s.op)
  BY DEF Alone
<1>2. \A s \in tasks : s.kind \in Loads
  BY <1>1, KindsChanging
<1>3. \A s \in tasks : s.kind \notin {"toggle", "create"}
  BY <1>2, FavoritesNumbers
<1>4. ASSUME Ends(t) PROVE \A s \in tasks' : s.kind \notin {"toggle", "create"}
  BY <1>3, <1>4 DEF Ends
<1> QED
  BY <1>2, <1>3, <1>4, OtherKinds

LEMMA PageLoadedQuiet ==
    ASSUME FavoritesTyped, FavoritesFound, LoadsOfPage, QuietInv, NEW t \in tasks, PageLoaded(t), Quiet'
    PROVE  QuietInv'
<1>0. t \in Task /\ TaskSound(t)
  BY DEF FavoritesTyped, TasksSound
<1>1. /\ t.kind \in Pages /\ t.kind \in Loads /\ Ends(t)
      /\ UNCHANGED <<lists, recent, removed, namesakes, page, actions, picker, pending, notice, excused>>
  BY FavoritesNumbers DEF PageLoaded
<1>2. PICK gone \in SUBSET t.tracks :
        /\ IF gone = {} THEN UNCHANGED <<failures, disturbed>> ELSE disturbed' = TRUE
        /\ IF t.live
           THEN /\ loading' = FALSE
                /\ shown' = IF t.answer = "error" THEN {}
                            ELSE IF t.kind = "playlists" THEN t.seen ELSE t.tracks \ gone
           ELSE UNCHANGED <<loading, shown>>
  BY DEF PageLoaded
<1>3. gone = {} /\ UNCHANGED disturbed
  BY <1>2 DEF Quiet
<1>4. Quiet
  BY <1>1, <1>3 DEF Quiet
<1>5. Alone /\ (\A s \in tasks : AsServed(s) /\ AsBegun(s)) /\ Tells
  BY <1>4 DEF QuietInv
<1>6. /\ Created(tasks) = {} /\ Removed(tasks) = {} /\ Untoggled(tasks)
      /\ Created(tasks') = {} /\ Removed(tasks') = {} /\ Untoggled(tasks')
  BY <1>1, <1>5, BesideLoad
<1>7. Favorites' = Favorites /\ InFavorites' = InFavorites
  BY <1>1, GrowsStill
<1>8. CASE ~t.live
  <2>1. UNCHANGED <<loading, shown>>
    BY <1>2, <1>8
  <2>2. Tells'
    BY <1>1, <1>5, <1>6, <1>7, <2>1 DEF Tells
  <2> QED
    BY <1>1, <1>5, <2>2, EndedAny
<1>9. CASE t.live
  <2>1. AsServed(t) /\ t.kind = page
    BY <1>1, <1>5, <1>9 DEF LoadsOfPage
  <2>2. \/ Ensured(t) /\ t.kind # "playlists"
        \/ t.op = "relist" /\ t.answer = "ok"
    BY <2>1 DEF PageLoaded, AsServed
  <2>3. t.op = "relist" => t.kind = "playlists"
    BY <1>0, <1>1, FavoritesNumbers DEF TaskSound, Sends
  <2>4. /\ loading' = FALSE
        /\ shown' = IF t.kind = "playlists" THEN t.seen ELSE t.tracks
    BY <1>2, <1>3, <1>9, <2>1 DEF AsServed
  <2>5. Favorites # {}
    BY <1>0, <2>1, <2>2 DEF TaskSound, AsServed
  <2>6. page = "library" => shown' = InFavorites
    BY <2>1, <2>2, <2>3, <2>4 DEF AsServed
  <2>7. page = "playlists" => shown' = DOMAIN lists
    BY <2>1, <2>2, <2>4 DEF AsServed
  <2>8. page = "library" => {actions.track, picker.track} \subseteq shown' \cup {NoTrack}
    <3>1. loading => NoDialog
      BY DEF FavoritesTyped, ClientSound
    <3>2. CASE loading
      BY <3>1, <3>2 DEF NoDialog
    <3>3. CASE ~loading
      BY <1>5, <1>6, <2>6, <3>3 DEF Tells
    <3> QED
      BY <3>2, <3>3
  <2>9. Tells'
    BY <1>1, <1>5, <1>6, <1>7, <2>4, <2>5, <2>6, <2>7, <2>8 DEF Tells
  <2> QED
    BY <1>1, <1>5, <2>9, EndedAny
<1>10. t.live \in BOOLEAN
  BY <1>0, TaskFields
<1> QED
  BY <1>8, <1>9, <1>10

LEMMA QuickDoneQuiet ==
    ASSUME FavoritesTyped, QuietInv, NEW t \in tasks, QuickDone(t), Quiet'
    PROVE  QuietInv'
<1>1. /\ t.kind = "quick" /\ Ends(t)
      /\ UNCHANGED <<page, shown, loading, actions, picker, lists, removed, namesakes, excused, disturbed>>
  BY DEF QuickDone, Elsewhere, service
<1>2. Alone /\ Tells
  BY <1>1 DEF QuietInv, Quiet
<1>3. tasks = {t} /\ tasks' = {}
  BY <1>1, <1>2, KindsChanging, AloneIs DEF Ends
<1>4. /\ Created(tasks) = {} /\ Removed(tasks) = {} /\ Untoggled(tasks)
      /\ Created(tasks') = {} /\ Removed(tasks') = {} /\ Untoggled(tasks')
  BY <1>1, <1>3, OtherKinds
<1>5. Favorites' = Favorites /\ InFavorites' = InFavorites
  BY <1>1, GrowsStill
<1>6. Tells'
  BY <1>1, <1>2, <1>4, <1>5 DEF Tells
<1> QED
  BY <1>3, <1>6, EndedAlone

LEMMA ActionsLoadedQuiet ==
    ASSUME FavoritesTyped, QuietInv, NEW t \in tasks, ActionsLoaded(t), Quiet'
    PROVE  QuietInv'
<1>0. t \in Task /\ TaskSound(t)
  BY DEF FavoritesTyped, TasksSound
<1>1. /\ t.kind = "actions" /\ t.kind \in Loads /\ Ends(t) /\ (Ensured(t) \/ t.answer = "error")
      /\ UNCHANGED <<page, shown, loading, picker, lists, removed, namesakes, excused, disturbed>>
  BY FavoritesNumbers DEF ActionsLoaded, Elsewhere, service
<1>2. Alone /\ (\A s \in tasks : AsServed(s)) /\ Tells
  BY <1>1 DEF QuietInv, Quiet
<1>3. /\ Created(tasks) = {} /\ Removed(tasks) = {} /\ Untoggled(tasks)
      /\ Created(tasks') = {} /\ Removed(tasks') = {} /\ Untoggled(tasks')
  BY <1>1, <1>2, BesideLoad
<1>4. Favorites' = Favorites /\ InFavorites' = InFavorites
  BY <1>1, GrowsStill
<1>5. AsServed(t)
  BY <1>2
<1>6. Ensured(t) /\ t.answer # "error"
  BY <1>1, <1>5 DEF AsServed
<1>7. t.list \in Favorites /\ t.tracks = InFavorites
  BY <1>0, <1>5, <1>6 DEF TaskSound, AsServed
<1>8. actions'.track = actions.track /\
      (actions' = actions \/ (actions'.list \in Favorites /\ actions'.tracks = InFavorites))
  <2>1. CASE t.live
    BY <1>6, <1>7, <2>1, ActionsLoadedIs DEF ActionsIs
  <2>2. CASE ~t.live
    BY <2>2, ActionsLoadedIs
  <2> QED
    BY <2>1, <2>2
<1>9. Tells'
  BY <1>1, <1>2, <1>3, <1>4, <1>8 DEF Tells
<1> QED
  BY <1>1, <1>2, <1>9, EndedAny

LEMMA ToggleDoneQuiet ==
    ASSUME FavoritesTyped, FavoritesFound, QuietInv, NEW t \in tasks, ToggleDone(t), Quiet'
    PROVE  QuietInv'
<1>0. t \in Task /\ TaskSound(t)
  BY DEF FavoritesTyped, TasksSound
<1>1. /\ t.kind = "toggle"
      /\ (t.op \in {"add", "remove"} /\ t.answer # "none") \/ t.answer = "error"
      /\ UNCHANGED <<page, loading, picker, lists, removed, namesakes, excused, disturbed>>
  BY DEF ToggleDone, Elsewhere, service
<1>2. Quiet
  BY <1>1 DEF Quiet
<1>3. Alone /\ (\A s \in tasks : AsServed(s) /\ AsBegun(s)) /\ Tells
  BY <1>2 DEF QuietInv
<1>4. tasks = {t}
  BY <1>1, <1>3, KindsChanging, AloneIs
<1>5. AsServed(t) /\ AsBegun(t)
  BY <1>3
<1>6. t.live /\ t.op \in {"add", "remove"} /\ t.answer \in {"ok", "conflict"}
  <2>1. t.kind \notin Loads
    BY <1>1, FavoritesNumbers
  <2> QED
    BY <1>0, <1>1, <1>5, <2>1, TaskFields DEF AsServed
<1>7. picker.track = NoTrack /\ (page = "library" => t.op = "remove")
  BY <1>1, <1>5 DEF AsBegun
<1>8. Favorites' = Favorites /\ InFavorites' = InFavorites
  BY <1>1, GrowsStill
<1>9. Created(tasks) = {} /\ Removed(tasks) = IF t.op = "remove" /\ t.answer = "ok" THEN {t.track} ELSE {}
  BY <1>1, <1>4, OneTold
<1>10. CASE t.answer = "ok"
  <2>1. /\ ActionsIs(actions', NoTrack, t.list, t.tracks, actions.loading, FALSE)
        /\ shown' = RowsAfter(t) /\ tasks' = Abandon({"actions"}) \ {t}
    BY <1>6, <1>10, ToggleDoneIs
  <2>2. tasks' = {}
    <3>1. ASSUME NEW s \in Abandon({"actions"}) PROVE s = t
      <4>1. PICK r \in tasks : Was(s, r)
        BY AbandonedWas
      <4>2. s.id = t.id
        BY <1>4, <4>1 DEF Was
      <4>3. t \in Abandon({"actions"}) /\ \A x, y \in Abandon({"actions"}) : x.id = y.id => x = y
        BY <1>1, Abandons DEF FavoritesTyped
      <4> QED
        BY <4>2, <4>3
    <3> QED
      BY <2>1, <3>1
  <2>3. /\ Created(tasks') = {} /\ Removed(tasks') = {}
    BY <2>2, OtherKinds
  <2>4. page = "library" /\ ~loading => shown' = InFavorites
    <3>1. SUFFICES ASSUME page = "library", ~loading PROVE shown' = InFavorites
      OBVIOUS
    <3>2. shown' = shown \ {t.track} /\ shown = InFavorites \cup {t.track}
      BY <1>3, <1>7, <1>9, <1>10, <2>1, <3>1 DEF RowsAfter, Tells
    <3>3. t.list \in Favorites /\ t.track \notin lists[t.list].tracks
      BY <1>0, <1>1, <1>5, <1>7, <1>10, <3>1 DEF TaskSound, AsServed
    <3>4. t.track \notin InFavorites
      BY <1>2, <3>3, FavoritesTracks DEF Quiet
    <3> QED
      BY <3>2, <3>4
  <2>5. page # "library" => shown' = shown
    BY <2>1 DEF RowsAfter
  <2>6. actions'.track = NoTrack
    BY <2>1 DEF ActionsIs
  <2>7. Tells'
    BY <1>1, <1>3, <1>7, <1>8, <1>9, <2>3, <2>4, <2>5, <2>6 DEF Tells
  <2> QED
    BY <2>2, <2>7, EndedAlone
<1>11. CASE t.answer = "conflict"
  <2>1. /\ ActionsIs(actions', actions.track, actions.list, actions.tracks, actions.loading, FALSE)
        /\ shown' = shown /\ Ends(t)
    BY <1>6, <1>11, ToggleDoneIs
  <2>2. tasks' = {}
    BY <1>4, <2>1 DEF Ends
  <2>3. /\ Created(tasks') = {} /\ Removed(tasks') = {} /\ Removed(tasks) = {} /\ Untoggled(tasks)
    BY <1>4, <1>9, <1>11, <2>2, OtherKinds DEF Untoggled
  <2>4. /\ actions'.track = actions.track /\ actions'.list = actions.list
        /\ actions'.tracks = actions.tracks /\ actions'.loading = actions.loading
    BY <2>1 DEF ActionsIs
  <2>5. Tells'
    BY <1>1, <1>3, <1>8, <1>9, <2>1, <2>3, <2>4 DEF Tells
  <2> QED
    BY <2>2, <2>5, EndedAlone
<1> QED
  BY <1>6, <1>10, <1>11

LEMMA PickerLoadedQuiet ==
    ASSUME FavoritesTyped, QuietInv, NEW t \in tasks, PickerLoaded(t), Quiet'
    PROVE  QuietInv'
<1>0. t \in Task /\ TaskSound(t)
  BY DEF FavoritesTyped, TasksSound
<1>1. /\ t.kind = "picker" /\ t.kind \in Loads /\ Ends(t) /\ t.answer # "none"
      /\ UNCHANGED <<page, shown, loading, actions, lists, removed, namesakes, excused, disturbed>>
  BY FavoritesNumbers DEF PickerLoaded, Elsewhere, service
<1>2. Alone /\ (\A s \in tasks : AsServed(s)) /\ Tells
  BY <1>1 DEF QuietInv, Quiet
<1>3. /\ Created(tasks) = {} /\ Removed(tasks) = {} /\ Untoggled(tasks)
      /\ Created(tasks') = {} /\ Removed(tasks') = {} /\ Untoggled(tasks')
  BY <1>1, <1>2, BesideLoad
<1>4. Favorites' = Favorites /\ InFavorites' = InFavorites
  BY <1>1, GrowsStill
<1>5. t.op = "list" /\ t.answer = "ok" /\ t.seen = DOMAIN lists
  <2>1. t.op = "list" /\ AsServed(t)
    BY <1>0, <1>1, <1>2 DEF TaskSound, Sends
  <2>2. t.answer = "ok"
    BY <1>0, <1>1, <2>1, TaskFields DEF TaskSound, AsServed
  <2> QED
    BY <2>1, <2>2 DEF AsServed
<1>6. picker'.track = picker.track /\ picker'.saved = picker.saved /\
      (picker' = picker \/ picker'.lists = DOMAIN lists)
  <2>1. CASE t.live
    BY <1>5, <2>1, PickerLoadedIs DEF PickerIs
  <2>2. CASE ~t.live
    BY <2>2, PickerLoadedIs
  <2> QED
    BY <2>1, <2>2
<1>7. Tells'
  BY <1>1, <1>2, <1>3, <1>4, <1>6 DEF Tells
<1> QED
  BY <1>1, <1>2, <1>7, EndedAny

LEMMA PickDoneQuiet ==
    ASSUME FavoritesTyped, QuietInv, NEW t \in tasks, PickDone(t), Quiet'
    PROVE  QuietInv'
<1>0. t \in Task /\ TaskSound(t)
  BY DEF FavoritesTyped, TasksSound
<1>1. /\ t.kind = "pick" /\ Ends(t) /\ t.answer # "none"
      /\ UNCHANGED <<page, shown, loading, actions, lists, removed, namesakes, excused, disturbed>>
  BY DEF PickDone, Elsewhere, service
<1>2. Alone /\ (\A s \in tasks : AsServed(s) /\ AsBegun(s)) /\ Tells
  BY <1>1 DEF QuietInv, Quiet
<1>3. tasks = {t} /\ tasks' = {}
  BY <1>1, <1>2, KindsChanging, AloneIs DEF Ends
<1>4. /\ Created(tasks) = {} /\ Removed(tasks) = {} /\ Untoggled(tasks)
      /\ Created(tasks') = {} /\ Removed(tasks') = {} /\ Untoggled(tasks')
  BY <1>1, <1>3, OtherKinds
<1>5. Favorites' = Favorites /\ InFavorites' = InFavorites
  BY <1>1, GrowsStill
<1>6. t.op = "add" /\ t.live /\ t.answer \in {"ok", "conflict"} /\ t.track \in lists[t.list].tracks
  <2>1. t.op = "add" /\ AsServed(t) /\ t.kind \notin Loads
    BY <1>0, <1>1, <1>2, FavoritesNumbers DEF TaskSound, Sends
  <2> QED
    BY <1>0, <1>1, <2>1, TaskFields DEF AsServed
<1>7. actions.track = NoTrack /\ picker.track \in {t.track, NoTrack}
  BY <1>1, <1>2 DEF AsBegun
<1>8. /\ picker'.track = picker.track /\ picker'.lists = picker.lists
      /\ picker'.loading = picker.loading /\ picker'.saved = picker.saved \cup {t.list}
  BY <1>6, PickDoneIs DEF PickerIs
<1>9. Tells'
  BY <1>1, <1>2, <1>4, <1>5, <1>6, <1>7, <1>8 DEF Tells
<1> QED
  BY <1>3, <1>9, EndedAlone

LEMMA CreateDoneQuiet ==
    ASSUME FavoritesTyped, QuietInv, NEW t \in tasks, CreateDone(t), Quiet'
    PROVE  QuietInv'
<1>0. t \in Task /\ TaskSound(t)
  BY DEF FavoritesTyped, TasksSound
<1>1. /\ t.kind = "create" /\ Ends(t) /\ t.answer # "none"
      /\ UNCHANGED <<page, loading, actions, lists, removed, namesakes, excused, disturbed>>
  BY DEF CreateDone, Elsewhere, service
<1>2. Alone /\ (\A s \in tasks : AsServed(s) /\ AsBegun(s)) /\ Tells
  BY <1>1 DEF QuietInv, Quiet
<1>3. tasks = {t} /\ tasks' = {}
  BY <1>1, <1>2, KindsChanging, AloneIs DEF Ends
<1>4. t.op = "create" /\ t.live /\ t.answer = "ok"
  <2>1. t.op = "create" /\ AsServed(t) /\ t.kind \notin Loads
    BY <1>0, <1>1, <1>2, FavoritesNumbers DEF TaskSound, Sends
  <2> QED
    BY <1>0, <1>1, <2>1, TaskFields DEF AsServed, TaskSound
<1>5. /\ Created(tasks) = {t.list} /\ Removed(tasks) = {} /\ Untoggled(tasks)
      /\ Created(tasks') = {} /\ Removed(tasks') = {} /\ Untoggled(tasks')
  BY <1>1, <1>3, <1>4, OneTold, OtherKinds
<1>6. Favorites' = Favorites /\ InFavorites' = InFavorites
  BY <1>1, GrowsStill
<1>7. /\ picker'.track = picker.track /\ picker'.loading = picker.loading
      /\ picker'.saved = picker.saved
      /\ page # "playlists" => picker'.lists = picker.lists \cup {t.list}
      /\ shown' = IF page = "playlists" THEN shown \cup {t.list} ELSE shown
  BY <1>4, CreateDoneIs DEF PickerIs
<1>8. page = "playlists" => picker.track = NoTrack
  BY DEF FavoritesTyped, ClientSound, NoDialog
<1>9. Tells'
  BY <1>1, <1>2, <1>5, <1>6, <1>7, <1>8 DEF Tells
<1> QED
  BY <1>3, <1>9, EndedAlone

LEMMA ResumedQuiet ==
    ASSUME FavoritesTyped, FavoritesFound, LoadsOfPage, QuietInv, NEW t \in tasks, Resume(t)
    PROVE  QuietInv'
<1> SUFFICES ASSUME Quiet' PROVE QuietInv'
  BY DEF QuietInv
<1>1. CASE CreateFavorites(t) \/ PlaylistsRelist(t) \/ QuickEnsured(t) \/ ToggleEnsured(t)
  BY <1>1, GoneQuiet
<1>2. CASE \/ PageLoaded(t) \/ QuickDone(t) \/ ActionsLoaded(t) \/ ToggleDone(t)
           \/ PickerLoaded(t) \/ PickDone(t) \/ CreateDone(t)
  BY <1>2, PageLoadedQuiet, QuickDoneQuiet, ActionsLoadedQuiet, ToggleDoneQuiet,
     PickerLoadedQuiet, PickDoneQuiet, CreateDoneQuiet
<1> QED
  BY <1>1, <1>2 DEF Resume

-----------------------------------------------------------------------------
(* The listener, in a quiet run *)

\* A click in a run that stays quiet finds loads only, or nothing if it changes something.
LEMMA StartBefore ==
    ASSUME FavoritesTyped, QuietInv, NEW ts, NEW kinds, ts = tasks \/ ts = Abandon(kinds),
           NEW u, NEW kind, NEW op, NEW track, NEW i, Starts(ts, u, kind, op, track, i), Quiet'
    PROVE  /\ Tells /\ \A t \in tasks : AsServed(t)
           /\ \A t \in tasks : t.kind \in Loads /\ t.op # "favorites"
           /\ Changing(kind, op) => tasks = {}
           /\ Created(tasks) = {} /\ Removed(tasks) = {} /\ Untoggled(tasks)
           /\ Created(tasks') = {} /\ Removed(tasks') = {} /\ Untoggled(tasks')
           /\ UNCHANGED <<lists, removed, namesakes>> /\ Favorites' = Favorites /\ InFavorites' = InFavorites
<1>1. /\ tasks' = ts \cup {u} /\ u.answer = "none"
      /\ ~disturbed' => ~disturbed /\ \A t \in tasks : ~Changing(kind, op) /\ ~Changing(t.kind, t.op)
      /\ UNCHANGED <<lists, removed, namesakes, excused>>
  BY DEF Starts, service
<1>2. Quiet /\ \A t \in tasks : ~Changing(kind, op) /\ ~Changing(t.kind, t.op)
  BY <1>1 DEF Quiet
<1>3. Tells /\ \A t \in tasks : AsServed(t)
  BY <1>2 DEF QuietInv
<1>4. \A t \in tasks : t.kind \in Loads /\ t.op # "favorites"
  BY <1>2, KindsChanging
<1>5. \A s \in ts : \E t \in tasks : s.kind = t.kind
  BY AbandonedWas DEF Was
<1>6. \A s \in ts : s.kind \notin {"toggle", "create"}
  BY <1>4, <1>5, FavoritesNumbers
<1>7. \A s \in tasks' : s.kind \notin {"toggle", "create"} \/ s.answer = "none"
  BY <1>1, <1>6
<1>8. Created(tasks') = {} /\ Removed(tasks') = {} /\ Untoggled(tasks')
  BY <1>7 DEF Created, Removed, Untoggled
<1>9. \A t \in tasks : t.kind \notin {"toggle", "create"}
  BY <1>4, FavoritesNumbers
<1> QED
  BY <1>1, <1>2, <1>3, <1>4, <1>8, <1>9, OtherKinds, GrowsStill

LEMMA StartedQuiet ==
    ASSUME FavoritesTyped, QuietInv, NEW ts, NEW kinds, ts = tasks \/ ts = Abandon(kinds),
           NEW u, NEW kind, NEW op \in {"list", "add", "remove", "create"}, NEW track, NEW i,
           Starts(ts, u, kind, op, track, i), Quiet', AsBegun(u)', Tells'
    PROVE  QuietInv'
<1>1. /\ \A t \in tasks : t.kind \in Loads /\ t.op # "favorites" /\ AsServed(t)
      /\ Changing(kind, op) => tasks = {}
      /\ UNCHANGED <<lists, removed, namesakes>>
  BY StartBefore
<1>2. /\ tasks' = ts \cup {u} /\ u.kind = kind /\ u.op = op /\ u.live = TRUE /\ u.answer = "none"
  BY DEF Starts
<1>3. \A s \in ts : \E t \in tasks : Was(s, t)
  BY AbandonedWas DEF Was
<1>4. \A s \in ts : s.kind \in Loads /\ s.op # "favorites"
  BY <1>1, <1>3 DEF Was
<1>5. \A s \in ts : AsServed(s)'
  <2>1. \A s \in ts : AsServed(s)
    BY <1>1, <1>3, <1>4 DEF Was, AsServed, Ensured, Ensures
  <2> QED
    BY <1>1, <2>1, ServedStill
<1>6. AsServed(u)'
  BY <1>2 DEF AsServed, Ensured
<1>7. \A s \in ts : AsBegun(s)'
  BY <1>4, LoadBegun
<1>8. Alone'
  <2>1. \A s \in ts : ~Changing(s.kind, s.op)
    BY <1>4 DEF Changing
  <2>2. Changing(kind, op) => ts = {}
    BY <1>1, <1>3
  <2> QED
    BY <1>2, <2>1, <2>2 DEF Alone
<1> QED
  BY <1>2, <1>5, <1>6, <1>7, <1>8 DEF QuietInv

LEMMA NavigateQuiet ==
    ASSUME FavoritesTyped, QuietInv, NEW p \in Pages, Navigate(p), Quiet'
    PROVE  QuietInv'
<1>1. /\ page' = p /\ loading' = TRUE /\ actions' = NoActions /\ picker' = NoPicker
      /\ Begin(Abandon(Kinds), p, "list", NoTrack, NoList)
  BY DEF Navigate
<1>2. p \in Loads /\ p \in Loads \cup {"quick"} /\ p # "quick"
  BY FavoritesNumbers
<1>3. PICK u \in Task : Starts(Abandon(Kinds), u, p, "list", NoTrack, 0)
  BY <1>1, <1>2, AbandonedIds, LookStarts
<1>4. AsBegun(u)'
  BY <1>2, <1>3, LoadBegun DEF Starts
<1>5. actions'.track = NoTrack /\ picker'.track = NoTrack
  BY <1>1, NothingOpen DEF ActionsIs, PickerIs
<1>6. Tells'
  BY <1>1, <1>5 DEF Tells
<1> QED
  BY <1>3, <1>4, <1>6, StartedQuiet

LEMMA QuickAddQuiet ==
    ASSUME FavoritesTyped, QuietInv, NEW tr \in Tracks, QuickAdd(tr), Quiet'
    PROVE  QuietInv'
<1>1. /\ NoDialog /\ tr \in Rows /\ Begin(tasks, "quick", "list", tr, NoList)
      /\ UNCHANGED <<page, shown, loading, actions, picker, notice>>
  BY DEF QuickAdd
<1>2. PICK u \in Task : Starts(tasks, u, "quick", "list", tr, 0)
  BY <1>1, LookStarts
<1>3. AsBegun(u)'
  BY <1>1, <1>2 DEF AsBegun, Starts, NoDialog, Rows
<1>4. /\ Tells /\ Created(tasks) = {} /\ Removed(tasks) = {} /\ Untoggled(tasks)
      /\ Created(tasks') = {} /\ Removed(tasks') = {} /\ Untoggled(tasks')
      /\ UNCHANGED <<lists, removed, namesakes>> /\ Favorites' = Favorites /\ InFavorites' = InFavorites
  BY <1>2, StartBefore
<1>5. Tells'
  BY <1>1, <1>4 DEF Tells
<1> QED
  BY <1>2, <1>3, <1>5, StartedQuiet

LEMMA OpenActionsQuiet ==
    ASSUME FavoritesTyped, QuietInv, NEW tr \in Tracks, OpenActions(tr), Quiet'
    PROVE  QuietInv'
<1>1. /\ NoDialog /\ tr \in Rows /\ Begin(tasks, "actions", "list", NoTrack, NoList)
      /\ actions' = [actions EXCEPT !.track = tr, !.loading = TRUE]
      /\ UNCHANGED <<page, shown, loading, picker, pending, notice>>
  BY DEF OpenActions
<1>2. PICK u \in Task : Starts(tasks, u, "actions", "list", NoTrack, 0)
  BY <1>1, LookStarts, FavoritesNumbers
<1>3. AsBegun(u)'
  BY <1>2, LoadBegun, FavoritesNumbers DEF Starts
<1>4. /\ Tells /\ Created(tasks) = {} /\ Removed(tasks) = {} /\ Untoggled(tasks)
      /\ Created(tasks') = {} /\ Removed(tasks') = {} /\ Untoggled(tasks')
      /\ UNCHANGED <<lists, removed, namesakes>> /\ Favorites' = Favorites /\ InFavorites' = InFavorites
  BY <1>2, StartBefore
<1>5. actions'.track = tr /\ actions'.loading = TRUE
  <2>1. actions \in Actions
    BY DEF FavoritesTyped, ClientSound
  <2> QED
    BY <1>1, <2>1, OpenedActions DEF ActionsIs
<1>6. page = "library" => tr \in shown
  BY <1>1 DEF Rows
<1>7. picker.track = NoTrack
  BY <1>1 DEF NoDialog
<1>8. Tells'
  BY <1>1, <1>4, <1>5, <1>6, <1>7 DEF Tells
<1> QED
  BY <1>2, <1>3, <1>8, StartedQuiet

LEMMA OpenPickerQuiet ==
    ASSUME FavoritesTyped, QuietInv, OpenPicker, Quiet'
    PROVE  QuietInv'
<1>1. /\ actions.track # NoTrack /\ picker' = Opened(actions.track)
      /\ actions' = [actions EXCEPT !.track = NoTrack]
      /\ Begin(Abandon({"actions"}), "picker", "list", NoTrack, NoList)
      /\ UNCHANGED <<page, shown, loading, pending, notice>>
  BY DEF OpenPicker
<1>2. PICK u \in Task : Starts(Abandon({"actions"}), u, "picker", "list", NoTrack, 0)
  BY <1>1, AbandonedIds, LookStarts, FavoritesNumbers
<1>3. AsBegun(u)'
  BY <1>2, LoadBegun, FavoritesNumbers DEF Starts
<1>4. /\ Tells /\ Created(tasks) = {} /\ Removed(tasks) = {} /\ Untoggled(tasks)
      /\ Created(tasks') = {} /\ Removed(tasks') = {} /\ Untoggled(tasks')
      /\ UNCHANGED <<lists, removed, namesakes>> /\ Favorites' = Favorites /\ InFavorites' = InFavorites
  BY <1>2, StartBefore
<1>5. /\ actions'.track = NoTrack /\ picker'.track = actions.track
      /\ picker'.loading = TRUE /\ picker'.saved = {}
  <2>1. actions \in Actions /\ picker \in Picker
    BY DEF FavoritesTyped, ClientSound
  <2>2. actions.track \in Tracks
    BY <1>1, <2>1, ActionsFields
  <2>3. PickerIs(picker', actions.track, picker.lists, TRUE, picker.creating, picker.saving, {})
    BY <1>1, <2>1, <2>2, OpenedPicker DEF Opened
  <2>4. actions'.track = NoTrack
    BY <1>1, <2>1, ActionsWith DEF ActionsIs
  <2> QED
    BY <2>3, <2>4 DEF PickerIs
<1>6. Tells'
  BY <1>1, <1>4, <1>5 DEF Tells
<1> QED
  BY <1>2, <1>3, <1>6, StartedQuiet

LEMMA ToggleQuiet ==
    ASSUME FavoritesTyped, QuietInv, Toggle, Quiet'
    PROVE  QuietInv'
<1>1. /\ actions.track \in Tracks /\ ~actions.loading /\ ~loading
      /\ ActionsIs(actions', actions.track, actions.list, actions.tracks, actions.loading, TRUE)
      /\ UNCHANGED <<page, shown, loading, picker, pending, notice>>
  BY ToggleStarts
<1>2. PICK u \in Task : Starts(tasks, u, "toggle", ToggleOp, actions.track, actions.list)
  BY ToggleStarts
<1>3. /\ Tells /\ Created(tasks) = {} /\ Removed(tasks) = {} /\ Untoggled(tasks)
      /\ Created(tasks') = {} /\ Removed(tasks') = {} /\ Untoggled(tasks')
      /\ UNCHANGED <<lists, removed, namesakes>> /\ Favorites' = Favorites /\ InFavorites' = InFavorites
  BY <1>2, StartBefore
<1>4. /\ actions'.track = actions.track /\ actions'.list = actions.list
      /\ actions'.tracks = actions.tracks /\ actions'.loading = actions.loading
  BY <1>1 DEF ActionsIs
<1>5. actions.track # NoTrack
  BY <1>1, FavoritesNumbers
<1>6. ToggleOp \in {"add", "remove"} /\ picker.track = NoTrack
  <2>1. actions.list \in Favorites
    BY <1>1, <1>3, <1>5 DEF Tells
  <2>2. actions.list # NoList
    BY <2>1, ListRows, FavoritesNumbers DEF FavoritesTyped
  <2> QED
    BY <1>3, <1>5, <2>2 DEF ToggleOp, Tells
<1>7. page = "library" => actions.track \in shown /\ ToggleOp = "remove"
  <2>1. SUFFICES ASSUME page = "library" PROVE actions.track \in shown /\ ToggleOp = "remove"
    OBVIOUS
  <2>2. actions.track \in shown /\ shown = InFavorites /\ actions.tracks = InFavorites
    BY <1>1, <1>3, <1>5, <2>1 DEF Tells
  <2> QED
    BY <1>6, <2>2 DEF ToggleOp
<1>8. AsBegun(u)'
  <2>1. u.kind = "toggle" /\ u.op = ToggleOp /\ u.track = actions.track
    BY <1>2 DEF Starts
  <2> QED
    BY <1>1, <1>6, <1>7, <2>1 DEF AsBegun
<1>9. Tells'
  BY <1>1, <1>3, <1>4 DEF Tells
<1>10. ToggleOp \in {"list", "add", "remove", "create"}
  BY <1>6
<1> QED
  BY <1>2, <1>8, <1>9, <1>10, StartedQuiet

LEMMA PickQuiet ==
    ASSUME FavoritesTyped, QuietInv, NEW i \in Lists, Pick(i), Quiet'
    PROVE  QuietInv'
<1>1. /\ picker.track \in Tracks
      /\ PickerIs(picker', picker.track, picker.lists, picker.loading, picker.creating, i,
                  picker.saved)
      /\ UNCHANGED <<page, shown, loading, actions, pending, notice>>
  BY PickStarts
<1>2. PICK u \in Task : Starts(tasks, u, "pick", "add", picker.track, i)
  BY PickStarts
<1>3. /\ Tells /\ Created(tasks) = {} /\ Removed(tasks) = {} /\ Untoggled(tasks)
      /\ Created(tasks') = {} /\ Removed(tasks') = {} /\ Untoggled(tasks')
      /\ UNCHANGED <<lists, removed, namesakes>> /\ Favorites' = Favorites /\ InFavorites' = InFavorites
  BY <1>2, StartBefore
<1>4. /\ picker'.track = picker.track /\ picker'.lists = picker.lists
      /\ picker'.loading = picker.loading /\ picker'.saved = picker.saved
  BY <1>1 DEF PickerIs
<1>5. picker.track # NoTrack
  BY <1>1, FavoritesNumbers
<1>6. AsBegun(u)'
  <2>1. u.kind = "pick" /\ u.track = picker.track
    BY <1>2 DEF Starts
  <2>2. actions.track = NoTrack /\ (page = "library" => picker.track \in shown)
    BY <1>3, <1>5 DEF Tells
  <2> QED
    BY <1>1, <1>4, <2>1, <2>2 DEF AsBegun
<1>7. Tells'
  BY <1>1, <1>3, <1>4 DEF Tells
<1> QED
  BY <1>2, <1>6, <1>7, StartedQuiet

LEMMA CreateQuiet ==
    ASSUME FavoritesTyped, QuietInv, CreatePlaylist, Quiet'
    PROVE  QuietInv'
<1>1. /\ picker.track # NoTrack \/ page = "playlists"
      /\ PickerIs(picker', picker.track, picker.lists, picker.loading, TRUE, picker.saving,
                  picker.saved)
      /\ UNCHANGED <<page, shown, loading, actions, pending, notice>>
  BY CreateStarts
<1>2. PICK u \in Task : Starts(tasks, u, "create", "create", NoTrack, 0)
  BY CreateStarts
<1>3. /\ Tells /\ Created(tasks) = {} /\ Removed(tasks) = {} /\ Untoggled(tasks)
      /\ Created(tasks') = {} /\ Removed(tasks') = {} /\ Untoggled(tasks')
      /\ UNCHANGED <<lists, removed, namesakes>> /\ Favorites' = Favorites /\ InFavorites' = InFavorites
  BY <1>2, StartBefore
<1>4. /\ picker'.track = picker.track /\ picker'.lists = picker.lists
      /\ picker'.loading = picker.loading /\ picker'.saved = picker.saved
  BY <1>1 DEF PickerIs
<1>5. AsBegun(u)'
  <2>1. u.kind = "create"
    BY <1>2 DEF Starts
  <2>2. page = "playlists" => actions.track = NoTrack
    BY DEF FavoritesTyped, ClientSound, NoDialog
  <2>3. actions.track = NoTrack
    BY <1>1, <1>3, <2>2 DEF Tells
  <2> QED
    BY <1>1, <2>1, <2>3 DEF AsBegun
<1>6. Tells'
  BY <1>1, <1>3, <1>4 DEF Tells
<1> QED
  BY <1>2, <1>5, <1>6, StartedQuiet

\* A dialog is closed, or the notification goes.
LEMMA CloseQuiet ==
    ASSUME FavoritesTyped, QuietInv, CloseActions \/ ClosePicker \/ ClearNotification, Quiet'
    PROVE  QuietInv'
<1>1. UNCHANGED <<page, shown, loading, lists, removed, namesakes, excused, disturbed>>
  BY DEF CloseActions, ClosePicker, ClearNotification, Elsewhere, service
<1>2. Quiet
  BY <1>1 DEF Quiet
<1>3. Alone /\ (\A s \in tasks : AsServed(s) /\ AsBegun(s)) /\ Tells
  BY <1>2 DEF QuietInv
<1>4. PICK kinds \in {{}, {"actions"}, {"picker"}} : tasks' = tasks \/ tasks' = Abandon(kinds)
  BY DEF CloseActions, ClosePicker, ClearNotification
<1>5. kinds \subseteq Loads
  BY FavoritesNumbers
<1>6. \A s \in tasks' : \E t \in tasks : Was(s, t) /\ (t.kind \notin Loads => s = t)
  <2>1. CASE tasks' = tasks
    BY <2>1 DEF Was
  <2>2. CASE tasks' = Abandon(kinds)
    <3> SUFFICES ASSUME NEW s \in Abandon(kinds)
                 PROVE  \E t \in tasks : Was(s, t) /\ (t.kind \notin Loads => s = t)
      BY <2>2
    <3>1. PICK t \in tasks : Was(s, t)
      BY AbandonedWas
    <3>2. TasksSound
      BY DEF FavoritesTyped
    <3>3. t.kind \notin Loads => t \in Abandon(kinds)
      BY <1>5, <3>2, Abandons
    <3>4. \A x, y \in Abandon(kinds) : x.id = y.id => x = y
      BY <3>2, Abandons
    <3> QED
      BY <3>1, <3>3, <3>4 DEF Was
  <2> QED
    BY <1>4, <2>1, <2>2
<1>7. \A s, t \in tasks' : s.id = t.id => s = t
  <2>1. TasksSound
    BY DEF FavoritesTyped
  <2> QED
    BY <1>4, <2>1, Abandons DEF TasksSound
<1>8. Alone'
  <2>1. SUFFICES ASSUME NEW s \in tasks', NEW t \in tasks', Changing(s.kind, s.op) PROVE s = t
    BY DEF Alone
  <2>2. PICK x \in tasks : Was(s, x)
    BY <1>6
  <2>3. PICK y \in tasks : Was(t, y)
    BY <1>6
  <2>4. x = y
    BY <1>3, <2>1, <2>2 DEF Alone, Was
  <2> QED
    BY <1>7, <2>2, <2>3, <2>4 DEF Was
<1>9. \A s \in tasks' : AsServed(s)'
  <2>1. ASSUME NEW s \in tasks' PROVE AsServed(s)
    <3>1. PICK t \in tasks : Was(s, t) /\ (t.kind \notin Loads => s = t)
      BY <1>6
    <3>2. AsServed(t)
      BY <1>3
    <3> QED
      BY <3>1, <3>2 DEF Was, AsServed, Ensured, Ensures
  <2> QED
    BY <1>1, <2>1, ServedStill
<1>10. /\ actions'.track \in {actions.track, NoTrack} /\ actions'.list = actions.list
       /\ actions'.tracks = actions.tracks /\ actions'.loading = actions.loading
       /\ picker'.track \in {picker.track, NoTrack} /\ picker'.lists = picker.lists
       /\ picker'.loading = picker.loading /\ picker'.saved = picker.saved
  <2>1. actions \in Actions /\ picker \in Picker
    BY DEF FavoritesTyped, ClientSound
  <2>2. CASE CloseActions
    <3>1. actions' = [actions EXCEPT !.track = NoTrack] /\ picker' = picker
      BY <2>2 DEF CloseActions
    <3> QED
      BY <2>1, <3>1, ActionsWith DEF ActionsIs
  <2>3. CASE ClosePicker
    <3>1. picker' = [picker EXCEPT !.track = NoTrack] /\ actions' = actions
      BY <2>3 DEF ClosePicker
    <3> QED
      BY <2>1, <3>1, PickerWith DEF PickerIs
  <2>4. CASE ClearNotification
    BY <2>4 DEF ClearNotification
  <2> QED
    BY <2>2, <2>3, <2>4
<1>11. \A s \in tasks' : AsBegun(s)'
  <2> SUFFICES ASSUME NEW s \in tasks' PROVE AsBegun(s)'
    OBVIOUS
  <2>1. PICK t \in tasks : Was(s, t)
    BY <1>6
  <2>2. AsBegun(t)
    BY <1>3
  <2> QED
    BY <1>1, <1>10, <2>1, <2>2 DEF Was, AsBegun, NoDialog
<1>12. /\ Created(tasks') = Created(tasks) /\ Removed(tasks') = Removed(tasks)
       /\ Untoggled(tasks') => Untoggled(tasks)
  <2>1. \A t \in tasks : t.kind \notin Loads => t \in tasks'
    BY <1>4, <1>5, Abandons DEF FavoritesTyped
  <2>2. "toggle" \notin Loads /\ "create" \notin Loads
    BY FavoritesNumbers
  <2>3. \A s : s.kind \in {"toggle", "create"} => (s \in tasks' <=> s \in tasks)
    BY <1>6, <2>1, <2>2 DEF Was
  <2> QED
    BY <2>3 DEF Created, Removed, Untoggled
<1>13. Favorites' = Favorites /\ InFavorites' = InFavorites
  BY <1>1, GrowsStill
<1>14. Tells'
  <2>1. picker'.track # NoTrack => picker'.track = picker.track
    BY <1>10
  <2>2. actions'.track # NoTrack => actions'.track = actions.track
    BY <1>10
  <2> QED
    BY <1>1, <1>3, <1>10, <1>12, <1>13, <2>1, <2>2 DEF Tells
<1> QED
  BY <1>8, <1>9, <1>11, <1>14 DEF QuietInv

LEMMA QuietKept ==
    ASSUME FavoritesTyped, FavoritesFound, LoadsOfPage, QuietInv, Next
    PROVE  QuietInv'
<1>1. CASE \E t \in tasks : Serve(t)
  BY <1>1, ServiceQuiet
<1>2. CASE \E t \in tasks : Resume(t)
  BY <1>2, ResumedQuiet
<1>3. CASE Click \/ ClearNotification
  <2> SUFFICES ASSUME Quiet' PROVE QuietInv'
    BY DEF QuietInv
  <2>1. CASE \E p \in Pages : Navigate(p)
    BY <2>1, NavigateQuiet
  <2>2. CASE \E tr \in Tracks : QuickAdd(tr) \/ OpenActions(tr)
    BY <2>2, QuickAddQuiet, OpenActionsQuiet
  <2>3. CASE CloseActions \/ ClosePicker \/ ClearNotification
    BY <2>3, CloseQuiet
  <2>4. CASE Toggle \/ OpenPicker \/ CreatePlaylist
    BY <2>4, ToggleQuiet, OpenPickerQuiet, CreateQuiet
  <2>5. CASE \E i \in Lists : Pick(i)
    BY <2>5, PickQuiet
  <2> QED
    BY <1>3, <2>1, <2>2, <2>3, <2>4, <2>5 DEF Click
<1> QED
  BY <1>1, <1>2, <1>3 DEF Next

LEMMA QuietAtFirst == Init => QuietInv
<1> SUFFICES ASSUME Init PROVE QuietInv
  OBVIOUS
<1>1. /\ page = "home" /\ loading = TRUE /\ actions = NoActions /\ picker = NoPicker
      /\ tasks = {NewTask(1, "home", "list", NoTrack, NoList)}
  BY DEF Init
<1>2. actions.track = NoTrack /\ picker.track = NoTrack
  BY <1>1, NothingOpen DEF ActionsIs, PickerIs
<1>3. Tells
  BY <1>1, <1>2 DEF Tells
<1>4. \A t \in tasks : t.kind = "home" /\ t.op = "list" /\ t.answer = "none" /\ t.live = TRUE
  BY <1>1 DEF NewTask
<1>5. \A t \in tasks : AsServed(t) /\ AsBegun(t)
  BY <1>4, LoadBegun, FavoritesNumbers DEF AsServed, Ensured
<1>6. Alone
  BY <1>1 DEF Alone
<1> QED
  BY <1>3, <1>5, <1>6 DEF QuietInv

\* Favorites and the dialogs, at every moment.
FavoritesInv ==
    FavoritesTyped /\ FavoritesWait /\ LoadsOfPage /\ FavoritesFound /\ QuietInv

LEMMA FavoritesAtFirst == Init => FavoritesInv
  BY FavoritesStarts, FoundAtFirst, QuietAtFirst DEF FavoritesInv

LEMMA FavoritesAway ==
    ASSUME FavoritesInv, UNCHANGED vars
    PROVE  FavoritesInv'
<1>1. UNCHANGED <<lists, recent, removed, namesakes, failures, tasks, begun, excused, disturbed>> /\ UNCHANGED client
  BY DEF vars, service
<1>2. Favorites' = Favorites /\ InFavorites' = InFavorites
  BY <1>1, GrowsStill
<1>3. FavoritesTyped'
  <2>1. \A t : TaskSound(t) => TaskSound(t)'
    BY <1>1, <1>2 DEF TaskSound, Ensured, Ensures
  <2>2. TasksSound'
    BY <1>1, <2>1 DEF FavoritesInv, FavoritesTyped, TasksSound
  <2>3. ListsSound' /\ CountersSound'
    BY <1>1 DEF FavoritesInv, FavoritesTyped, ListsSound, CountersSound
  <2>4. ClientSound'
    BY <1>1, <1>2 DEF FavoritesInv, FavoritesTyped, ClientSound, client, NoDialog
  <2> QED
    BY <2>2, <2>3, <2>4 DEF FavoritesTyped
<1>4. FavoritesWait' /\ LoadsOfPage'
  BY <1>1 DEF FavoritesInv, FavoritesWait, Waits, LoadsOfPage, client
<1>5. FavoritesFound'
  BY <1>1, <1>2 DEF FavoritesInv, FavoritesFound, InVain, Made
<1>6. QuietInv'
  <2>1. \A t : AsServed(t) => AsServed(t)'
    BY <1>1, ServedStill
  <2>2. \A t : AsBegun(t) => AsBegun(t)'
    BY <1>1, BegunStill
  <2>3. Tells => Tells'
    BY <1>1, TellsStill
  <2> QED
    BY <1>1, <2>1, <2>2, <2>3 DEF FavoritesInv, QuietInv, Quiet, Alone
<1> QED
  BY <1>3, <1>4, <1>5, <1>6 DEF FavoritesInv

LEMMA FavoritesGoOn == FavoritesInv /\ [Next]_vars => FavoritesInv'
<1>1. ASSUME FavoritesInv, Next PROVE FavoritesInv'
  BY <1>1, FavoritesKept, FavoritesFoundKept, QuietKept DEF FavoritesInv
<1> QED
  BY <1>1, FavoritesAway

-----------------------------------------------------------------------------
(* Lists put in order, and parts of them *)

\* The library's operators, as the instance names them.
LEMMA SameSizes == \A T : S!Cardinality(T) = Cardinality(T)
  BY DEF S!Cardinality, Cardinality

LEMMA SameMembers == \A T : S!ToSet(T) = ToSet(T)
  BY DEF S!ToSet, ToSet

\* A set of pairs that puts the members of a set one after the other.
Orders(T, R) ==
    /\ \A x, y \in T : x # y => <<x, y>> \in R \/ <<y, x>> \in R
    /\ \A x \in T : <<x, x>> \notin R
    /\ \A x, y, z \in T : <<x, y>> \in R /\ <<y, z>> \in R => <<x, z>> \in R

Before(T, R, i) == {j \in T : <<j, i>> \in R}

LEMMA RanksDiffer ==
    ASSUME NEW T, IsFiniteSet(T), NEW R, Orders(T, R), NEW x \in T, NEW y \in T, <<x, y>> \in R
    PROVE  Cardinality(Before(T, R, x)) < Cardinality(Before(T, R, y))
  <1>1. Before(T, R, x) \subseteq Before(T, R, y) /\ x \in Before(T, R, y) /\ x \notin Before(T, R, x)
    BY DEF Orders, Before
  <1>2. IsFiniteSet(Before(T, R, y))
    BY FS_Subset DEF Before
  <1>3. /\ Cardinality(Before(T, R, x)) <= Cardinality(Before(T, R, y))
        /\ Cardinality(Before(T, R, x)) = Cardinality(Before(T, R, y)) => Before(T, R, y) = Before(T, R, x)
        /\ IsFiniteSet(Before(T, R, x))
    BY <1>1, <1>2, FS_Subset
  <1>4. Cardinality(Before(T, R, x)) \in Nat /\ Cardinality(Before(T, R, y)) \in Nat
    BY <1>2, <1>3, FS_CardinalityType
  <1> QED
    BY <1>1, <1>3, <1>4

\* Every rank below the size of the set is some member's.
LEMMA RanksTaken ==
    ASSUME NEW T, IsFiniteSet(T), NEW R, Orders(T, R), NEW k \in 1 .. Cardinality(T)
    PROVE  \E i \in T : Cardinality(Before(T, R, i)) = k - 1
  <1> DEFINE n == Cardinality(T)
             rank == [i \in T |-> Cardinality(Before(T, R, i)) + 1]
  <1>1. n \in Nat
    BY FS_CardinalityType
  <1>2. ASSUME NEW i \in T
        PROVE  rank[i] \in 1 .. n
    <2>1. Before(T, R, i) \subseteq T /\ i \notin Before(T, R, i)
      BY DEF Before, Orders
    <2>2. /\ IsFiniteSet(Before(T, R, i)) /\ Cardinality(Before(T, R, i)) <= n
          /\ n = Cardinality(Before(T, R, i)) => T = Before(T, R, i)
      BY <2>1, FS_Subset
    <2>3. Cardinality(Before(T, R, i)) \in Nat
      BY <2>2, FS_CardinalityType
    <2> QED
      BY <1>1, <2>1, <2>2, <2>3
  <1>3. rank \in Injection(T, 1 .. n)
    <2>1. ASSUME NEW i \in T, NEW j \in T, i # j
          PROVE  rank[i] # rank[j]
      <3>1. <<i, j>> \in R \/ <<j, i>> \in R
        BY <2>1 DEF Orders
      <3>2. Cardinality(Before(T, R, i)) \in Nat /\ Cardinality(Before(T, R, j)) \in Nat
        BY FS_Subset, FS_CardinalityType DEF Before
      <3> QED
        BY <3>1, <3>2, RanksDiffer
    <2> QED
      BY <1>2, <2>1 DEF Injection, IsInjective
  <1>4. IsFiniteSet(1 .. n) /\ Cardinality(1 .. n) = n
    BY <1>1, FS_Interval
  <1>5. rank \in Surjection(T, 1 .. n)
    BY <1>3, <1>4, FS_Injection
  <1>6. PICK i \in T : rank[i] = k
    BY <1>5 DEF Surjection
  <1>7. Cardinality(Before(T, R, i)) \in Nat
    BY FS_Subset, FS_CardinalityType DEF Before
  <1> QED
    BY <1>6, <1>7

\* What InOrder returns: every member once, each before those after it.
LEMMA Listed ==
    ASSUME NEW T, IsFiniteSet(T), NEW R, Orders(T, R)
    PROVE  LET o == S!InOrder(T, R)
               n == Cardinality(T)
           IN  /\ n \in Nat /\ o \in [1 .. n -> T]
               /\ \A k, l \in 1 .. n : k < l => <<o[k], o[l]>> \in R
               /\ \A k, l \in 1 .. n : <<o[k], o[l]>> \in R => k < l
               /\ \A k, l \in 1 .. n : o[k] = o[l] => k = l
               /\ \A i \in T : \E k \in 1 .. n : o[k] = i
  <1> DEFINE o == S!InOrder(T, R)
             n == Cardinality(T)
  <1>1. n \in Nat
    BY FS_CardinalityType
  <1>2. o = [k \in 1 .. n |-> CHOOSE i \in T : S!Cardinality({j \in T : <<j, i>> \in R}) = k - 1]
    <2>1. n = S!Cardinality(T)
      BY SameSizes
    <2> QED
      BY <2>1 DEF S!InOrder
  <1>3. ASSUME NEW k \in 1 .. n
        PROVE  o[k] \in T /\ Cardinality(Before(T, R, o[k])) = k - 1
    <2>1. \E i \in T : S!Cardinality({j \in T : <<j, i>> \in R}) = k - 1
      BY RanksTaken, SameSizes DEF Before
    <2>2. o[k] \in T /\ S!Cardinality({j \in T : <<j, o[k]>> \in R}) = k - 1
      BY <1>2, <2>1
    <2> QED
      BY <2>2, SameSizes DEF Before
  <1> HIDE DEF o
  <1>4. o \in [1 .. n -> T]
    BY <1>2, <1>3
  <1>5. ASSUME NEW k \in 1 .. n, NEW l \in 1 .. n, <<o[k], o[l]>> \in R
        PROVE  k < l
    <2>1. Cardinality(Before(T, R, o[k])) < Cardinality(Before(T, R, o[l]))
      BY <1>3, <1>5, RanksDiffer
    <2> QED
      BY <1>3, <2>1
  <1>6. ASSUME NEW k \in 1 .. n, NEW l \in 1 .. n, o[k] = o[l]
        PROVE  k = l
    <2>1. k - 1 = l - 1
      BY <1>3, <1>6
    <2> QED
      BY <2>1
  <1>7. ASSUME NEW k \in 1 .. n, NEW l \in 1 .. n, k < l
        PROVE  <<o[k], o[l]>> \in R
    <2>1. o[k] # o[l] /\ o[k] \in T /\ o[l] \in T
      BY <1>3, <1>6, <1>7
    <2>2. <<o[l], o[k]>> \notin R
      BY <1>5, <1>7
    <2> QED
      BY <2>1, <2>2 DEF Orders
  <1>8. ASSUME NEW i \in T
        PROVE  \E k \in 1 .. n : o[k] = i
    <2>1. o \in Injection(1 .. n, T)
      BY <1>4, <1>6 DEF Injection, IsInjective
    <2>2. Cardinality(1 .. n) = n
      BY <1>1, FS_Interval
    <2>3. o \in Surjection(1 .. n, T)
      BY <2>1, <2>2, FS_Injection
    <2> QED
      BY <2>3 DEF Surjection
  <1> QED
    BY <1>1, <1>4, <1>5, <1>6, <1>7, <1>8 DEF o

LEMMA InList == \A seq, x : x \in ToSet(seq) <=> \E k \in DOMAIN seq : seq[k] = x
  BY DEF ToSet

LEMMA ListOf ==
    ASSUME NEW X, NEW n \in Nat, NEW f \in [1 .. n -> X]
    PROVE  f \in Seq(X) /\ Len(f) = n /\ \A x : x \in ToSet(f) <=> \E k \in 1 .. n : f[k] = x
  <1>1. f \in Seq(X) /\ Len(f) = n /\ DOMAIN f = 1 .. n
    OBVIOUS
  <1> QED
    BY <1>1, InList

\* A list read through indices that reach all of I.
Through(X, n, I, seq, o, r) ==
    /\ n \in Nat /\ o \in [1 .. n -> I] /\ \A i \in I : \E k \in 1 .. n : o[k] = i
    /\ r \in [1 .. n -> X] /\ \A k \in 1 .. n : r[k] = seq[o[k]]

\* The members of a list, through the indices they come from.
Spans(seq, I, r) == \A x : x \in ToSet(r) <=> \E i \in I : seq[i] = x

LEMMA ReadThrough ==
    ASSUME NEW X, NEW n, NEW I, NEW seq, NEW o, NEW r, Through(X, n, I, seq, o, r)
    PROVE  r \in Seq(X) /\ Len(r) = n /\ Spans(seq, I, r)
  <1>1. r \in Seq(X) /\ Len(r) = n /\ \A x : x \in ToSet(r) <=> \E k \in 1 .. n : r[k] = x
    <2>1. r \in [1 .. n -> X] /\ n \in Nat
      BY DEF Through
    <2> QED
      BY ONLY <2>1, ListOf
  <1>2. \A i \in I : \E k \in 1 .. n : r[k] = seq[i]
    BY DEF Through
  <1>3. \A k \in 1 .. n : o[k] \in I /\ r[k] = seq[o[k]]
    BY DEF Through
  <1>4. ASSUME NEW x
        PROVE  x \in ToSet(r) <=> \E i \in I : seq[i] = x
    <2>1. x \in ToSet(r) <=> \E k \in 1 .. n : r[k] = x
      BY ONLY <1>1
    <2>2. (\E k \in 1 .. n : r[k] = x) <=> (\E i \in I : seq[i] = x)
      BY ONLY <1>2, <1>3
    <2> QED
      BY ONLY <2>1, <2>2
  <1> QED
    BY ONLY <1>1, <1>4 DEF Spans

\* What is kept of a sequence: the elements at some indices, in their order.
Selects(seq, I, r) ==
    /\ Len(r) = Cardinality(I) /\ Cardinality(I) \in Nat /\ IsFiniteSet(I)
    /\ Spans(seq, I, r)
    /\ \E o \in [1 .. Len(r) -> I] :
         /\ \A k, l \in 1 .. Len(r) : k < l => o[k] < o[l]
         /\ \A k, l \in 1 .. Len(r) : o[k] = o[l] => k = l
         /\ \A i \in I : \E k \in 1 .. Len(r) : o[k] = i
         /\ \A k \in 1 .. Len(r) : r[k] = seq[o[k]]

LEMMA KeptParts ==
    ASSUME NEW X, NEW seq \in Seq(X), NEW I \in SUBSET (1 .. Len(seq)),
           NEW r, r = S!Kept(seq, I)
    PROVE  r \in Seq(X) /\ Selects(seq, I, r)
  <1> DEFINE n == Cardinality(I)
             R == {p \in I \X I : p[1] < p[2]}
             o == S!InOrder(I, R)
  <1>1. Len(seq) \in Nat
    OBVIOUS
  <1>2. IsFiniteSet(I)
    <2>1. IsFiniteSet(1 .. Len(seq))
      BY <1>1, FS_Interval
    <2> QED
      BY <2>1, FS_Subset
  <1>3. ASSUME NEW x \in I, NEW y \in I
        PROVE  <<x, y>> \in R <=> x < y
    OBVIOUS
  <1> HIDE DEF R
  <1>4. Orders(I, R)
    BY <1>1, <1>3 DEF Orders
  <1>5. /\ n \in Nat /\ o \in [1 .. n -> I]
        /\ \A k, l \in 1 .. n : k < l => <<o[k], o[l]>> \in R
        /\ \A k, l \in 1 .. n : o[k] = o[l] => k = l
        /\ \A i \in I : \E k \in 1 .. n : o[k] = i
    BY <1>2, <1>4, Listed
  <1>6. r = [k \in 1 .. n |-> seq[o[k]]]
    <2>1. n = S!Cardinality(I)
      BY SameSizes
    <2> QED
      BY <2>1 DEF S!Kept, R
  <1>7. \A i \in I : seq[i] \in X
    OBVIOUS
  <1> HIDE DEF o, n
  <1>8. r \in [1 .. n -> X] /\ \A k \in 1 .. n : r[k] = seq[o[k]]
    <2>1. \A k \in 1 .. n : o[k] \in I
      BY ONLY <1>5
    <2>2. \A k \in 1 .. n : seq[o[k]] \in X
      BY ONLY <1>7, <2>1
    <2> QED
      BY ONLY <1>6, <2>2
  <1>9. r \in Seq(X) /\ Len(r) = n /\ Spans(seq, I, r)
    <2>1. Through(X, n, I, seq, o, r)
      BY ONLY <1>5, <1>8 DEF Through
    <2> QED
      BY ONLY <2>1, ReadThrough
  <1>10. \A k, l \in 1 .. n : k < l => o[k] < o[l]
    BY <1>3, <1>5
  <1> QED
    BY <1>2, <1>5, <1>8, <1>9, <1>10 DEF n, Selects

\* The least of some indices.
LEMMA LeastIndex ==
    ASSUME NEW n \in Nat, NEW I \in SUBSET (1 .. n), I # {}
    PROVE  \E i \in I : \A j \in I : i <= j
  <1> DEFINE R == {p \in I \X I : p[1] < p[2]}
             o == S!InOrder(I, R)
             m == Cardinality(I)
  <1>1. IsFiniteSet(I)
    <2>1. IsFiniteSet(1 .. n)
      BY FS_Interval
    <2> QED
      BY <2>1, FS_Subset
  <1>2. ASSUME NEW x \in I, NEW y \in I
        PROVE  <<x, y>> \in R <=> x < y
    OBVIOUS
  <1> HIDE DEF R
  <1>3. Orders(I, R)
    BY <1>2 DEF Orders
  <1>4. /\ m \in Nat /\ o \in [1 .. m -> I]
        /\ \A k, l \in 1 .. m : k < l => <<o[k], o[l]>> \in R
        /\ \A i \in I : \E k \in 1 .. m : o[k] = i
    BY <1>1, <1>3, Listed
  <1> HIDE DEF o, m
  <1>5. 1 \in 1 .. m /\ o[1] \in I
    <2>1. PICK i : i \in I
      OBVIOUS
    <2>2. PICK k \in 1 .. m : o[k] = i
      BY <1>4, <2>1
    <2>3. 1 \in 1 .. m
      BY <1>4, <2>2
    <2> QED
      BY <2>3, <1>4
  <1>6. ASSUME NEW j \in I
        PROVE  o[1] <= j
    <2>1. PICK k \in 1 .. m : o[k] = j
      BY <1>4
    <2>2. CASE k = 1
      BY <2>1, <2>2
    <2>3. CASE 1 < k
      <3>1. o[1] < o[k]
        BY <1>2, <1>4, <1>5, <2>1, <2>3
      <3>2. o[1] \in 1 .. n /\ j \in 1 .. n
        BY <1>5
      <3> QED
        BY <3>1, <3>2, <2>1
    <2> QED
      BY <2>2, <2>3
  <1> QED
    BY <1>5, <1>6

LEMMA DistinctParts ==
    ASSUME NEW X, NEW seq \in Seq(X), NEW r, r = S!Distinct(seq)
    PROVE  /\ r \in Seq(X) /\ ToSet(r) = ToSet(seq)
           /\ \A k, l \in 1 .. Len(r) : r[k] = r[l] => k = l
           /\ seq # << >> => r # << >> /\ r[1] = seq[1]
  <1> DEFINE I == {i \in 1 .. Len(seq) : \A j \in 1 .. (i - 1) : seq[j] # seq[i]}
  <1>1. r = S!Kept(seq, I)
    BY DEF S!Distinct
  <1>2. Len(seq) \in Nat /\ I \in SUBSET (1 .. Len(seq))
    OBVIOUS
  <1>3. \A i, j \in I : seq[i] = seq[j] => i = j
    OBVIOUS
  <1>4. ASSUME NEW i \in 1 .. Len(seq)
        PROVE  \E j \in I : seq[j] = seq[i]
    <2> DEFINE J == {j \in 1 .. Len(seq) : seq[j] = seq[i]}
    <2>1. PICK j \in J : \A l \in J : j <= l
      BY <1>2, LeastIndex
    <2> QED
      BY <2>1
  <1>5. seq # << >> => 1 \in I
    OBVIOUS
  <1> HIDE DEF I
  <1>6. r \in Seq(X) /\ Selects(seq, I, r)
    BY <1>1, <1>2, KeptParts
  <1>7. \A x : x \in ToSet(seq) <=> \E i \in 1 .. Len(seq) : seq[i] = x
    BY InList
  <1>8. ToSet(r) = ToSet(seq)
    <2>1. \A x : x \in ToSet(r) <=> \E i \in I : seq[i] = x
      BY <1>6 DEF Selects, Spans
    <2>2. \A x : x \in ToSet(r) => x \in ToSet(seq)
      BY <1>2, <2>1, <1>7
    <2>3. \A x : x \in ToSet(seq) => x \in ToSet(r)
      BY <1>4, <2>1, <1>7
    <2> QED
      BY <2>2, <2>3
  <1>9. PICK o \in [1 .. Len(r) -> I] :
             /\ \A k, l \in 1 .. Len(r) : k < l => o[k] < o[l]
             /\ \A k, l \in 1 .. Len(r) : o[k] = o[l] => k = l
             /\ \A i \in I : \E k \in 1 .. Len(r) : o[k] = i
             /\ \A k \in 1 .. Len(r) : r[k] = seq[o[k]]
    BY <1>6 DEF Selects
  <1>10. \A k, l \in 1 .. Len(r) : r[k] = r[l] => k = l
    BY <1>3, <1>9
  <1>11. ASSUME seq # << >>
         PROVE  r # << >> /\ r[1] = seq[1]
    <2>1. PICK k \in 1 .. Len(r) : o[k] = 1
      BY <1>5, <1>9, <1>11
    <2>2. Len(r) \in Nat /\ 1 \in 1 .. Len(r) /\ r # << >>
      BY <1>6, <2>1
    <2>3. k = 1
      <3>1. o[1] \in 1 .. Len(seq)
        BY <1>2, <1>9, <2>2
      <3>2. ~(1 < k)
        BY <3>1, <1>9, <2>1, <2>2, <1>2
      <3> QED
        BY <3>2, <2>1
    <2> QED
      BY <1>9, <2>1, <2>2, <2>3
  <1> QED
    BY <1>6, <1>8, <1>10, <1>11

\* What a sort returns: the same elements, each with an index of its own.
Arranged(seq, r, R) ==
    /\ Len(r) = Len(seq) /\ ToSet(r) = ToSet(seq)
    /\ \E o \in [1 .. Len(seq) -> 1 .. Len(seq)] :
         /\ \A k, l \in 1 .. Len(seq) : k < l => <<o[k], o[l]>> \in R
         /\ \A k, l \in 1 .. Len(seq) : o[k] = o[l] => k = l
         /\ \A k \in 1 .. Len(seq) : r[k] = seq[o[k]]

LEMMA SortParts ==
    ASSUME NEW X, NEW seq \in Seq(X), NEW R, Orders(1 .. Len(seq), R),
           NEW r, r = [k \in 1 .. Len(seq) |-> seq[S!InOrder(1 .. Len(seq), R)[k]]]
    PROVE  r \in Seq(X) /\ Arranged(seq, r, R)
  <1> DEFINE n == Len(seq)
             o == S!InOrder(1 .. n, R)
  <1>1. n \in Nat
    OBVIOUS
  <1>2. IsFiniteSet(1 .. n) /\ Cardinality(1 .. n) = n
    BY ONLY <1>1, FS_Interval
  <1>3. /\ o \in [1 .. n -> 1 .. n]
        /\ \A k, l \in 1 .. n : k < l => <<o[k], o[l]>> \in R
        /\ \A k, l \in 1 .. n : o[k] = o[l] => k = l
        /\ \A i \in 1 .. n : \E k \in 1 .. n : o[k] = i
    BY <1>2, Listed
  <1>4. \A i \in 1 .. n : seq[i] \in X
    OBVIOUS
  <1>5. r = [k \in 1 .. n |-> seq[o[k]]]
    BY DEF o
  <1>6. \A x : x \in ToSet(seq) <=> \E i \in 1 .. n : seq[i] = x
    BY InList
  <1> HIDE DEF n, o
  <1>7. r \in [1 .. n -> X] /\ \A k \in 1 .. n : r[k] = seq[o[k]]
    <2>1. \A k \in 1 .. n : o[k] \in 1 .. n
      BY ONLY <1>3
    <2>2. \A k \in 1 .. n : seq[o[k]] \in X
      BY ONLY <1>4, <2>1
    <2> QED
      BY ONLY <1>5, <2>2
  <1>8. r \in Seq(X) /\ Len(r) = n /\ Spans(seq, 1 .. n, r)
    <2>1. Through(X, n, 1 .. n, seq, o, r)
      BY ONLY <1>1, <1>3, <1>7 DEF Through
    <2> QED
      BY ONLY <2>1, ReadThrough
  <1>9. ToSet(r) = ToSet(seq)
    BY <1>6, <1>8 DEF Spans
  <1> QED
    BY <1>3, <1>7, <1>8, <1>9 DEF Arranged, n

\* An order by falling first keys, then rising second keys, then places.
ByKeys(n, R, a, b) ==
    /\ a \in [1 .. n -> Int] /\ b \in [1 .. n -> Int]
    /\ \A x, y \in 1 .. n :
         <<x, y>> \in R <=> \/ a[x] > a[y]
                            \/ a[x] = a[y] /\ b[x] < b[y]
                            \/ a[x] = a[y] /\ b[x] = b[y] /\ x < y

\* A list in the order of falling first keys.
Falls(seq, r, a) ==
    /\ Len(r) = Len(seq) /\ ToSet(r) = ToSet(seq)
    /\ \E o \in [1 .. Len(seq) -> 1 .. Len(seq)] :
         /\ \A k, l \in 1 .. Len(seq) : k < l => a[o[k]] >= a[o[l]]
         /\ \A k, l \in 1 .. Len(seq) : o[k] = o[l] => k = l
         /\ \A k \in 1 .. Len(seq) : r[k] = seq[o[k]]

LEMMA KeysOrder ==
    ASSUME NEW n \in Nat, NEW R, NEW a, NEW b, ByKeys(n, R, a, b)
    PROVE  Orders(1 .. n, R)
  <1>1. ASSUME NEW x \in 1 .. n, NEW y \in 1 .. n
        PROVE  /\ <<x, y>> \in R <=> \/ a[x] > a[y]
                                     \/ a[x] = a[y] /\ b[x] < b[y]
                                     \/ a[x] = a[y] /\ b[x] = b[y] /\ x < y
               /\ a[x] \in Int /\ a[y] \in Int /\ b[x] \in Int /\ b[y] \in Int
    BY DEF ByKeys
  <1>2. \A x, y \in 1 .. n : x # y => <<x, y>> \in R \/ <<y, x>> \in R
    BY <1>1
  <1>3. \A x \in 1 .. n : <<x, x>> \notin R
    BY <1>1
  <1>4. ASSUME NEW x \in 1 .. n, NEW y \in 1 .. n, NEW z \in 1 .. n, <<x, y>> \in R, <<y, z>> \in R
        PROVE  <<x, z>> \in R
    BY <1>1, <1>4
  <1> QED
    BY <1>2, <1>3, <1>4 DEF Orders

LEMMA KeysSort ==
    ASSUME NEW X, NEW seq \in Seq(X), NEW R, NEW a, NEW b, ByKeys(Len(seq), R, a, b),
           NEW r, r = [k \in 1 .. Len(seq) |-> seq[S!InOrder(1 .. Len(seq), R)[k]]]
    PROVE  r \in Seq(X) /\ Falls(seq, r, a)
  <1>1. Len(seq) \in Nat
    OBVIOUS
  <1>2. Orders(1 .. Len(seq), R)
    BY <1>1, KeysOrder
  <1>3. r \in Seq(X) /\ Arranged(seq, r, R)
    BY <1>2, SortParts
  <1>4. PICK o \in [1 .. Len(seq) -> 1 .. Len(seq)] :
         /\ \A k, l \in 1 .. Len(seq) : k < l => <<o[k], o[l]>> \in R
         /\ \A k, l \in 1 .. Len(seq) : o[k] = o[l] => k = l
         /\ \A k \in 1 .. Len(seq) : r[k] = seq[o[k]]
    BY <1>3 DEF Arranged
  <1>5. ASSUME NEW k \in 1 .. Len(seq), NEW l \in 1 .. Len(seq), k < l
        PROVE  a[o[k]] >= a[o[l]]
    <2>1. <<o[k], o[l]>> \in R /\ o[k] \in 1 .. Len(seq) /\ o[l] \in 1 .. Len(seq)
      BY <1>4, <1>5
    <2>2. a[o[k]] \in Int /\ a[o[l]] \in Int
      BY <2>1 DEF ByKeys
    <2>3. a[o[k]] > a[o[l]] \/ a[o[k]] = a[o[l]]
      BY <2>1 DEF ByKeys
    <2> QED
      BY <2>2, <2>3
  <1>6. Len(r) = Len(seq) /\ ToSet(r) = ToSet(seq)
    BY <1>3 DEF Arranged
  <1> QED
    BY <1>3, <1>4, <1>5, <1>6 DEF Falls

\* The sorts of the pages.
ByCount(seq) == S!Sorted(seq, S!More)
ByScore(seq) == S!Sorted(seq, S!Ahead)
ByLength(seq) == S!Sorted(seq, S!Longer)
ByLead(seq) == S!Sorted(seq, S!Leads)

LEMMA EntryParts ==
    ASSUME NEW e \in S!Entry
    PROVE  e.track \in ShelfTracks /\ e.count \in Nat
  BY DEF S!Entry

LEMMA PlaylistParts ==
    ASSUME NEW p \in S!Playlist
    PROVE  /\ p.id \in Nat /\ p.kind \in S!Kinds /\ p.tracks \in Seq(ShelfTracks)
           /\ Len(p.tracks) \in Nat /\ S!Score(p) \in Nat
  BY DEF S!Playlist, S!Score

LEMMA CountSorted ==
    ASSUME NEW seq \in Seq(S!Entry), NEW r, r = ByCount(seq)
    PROVE  /\ r \in Seq(S!Entry)
           /\ Falls(seq, r, [i \in 1 .. Len(seq) |-> seq[i].count])
  <1> DEFINE D == 1 .. Len(seq)
             R == {p \in D \X D : \/ S!More(seq[p[1]], seq[p[2]])
                                  \/ ~S!More(seq[p[2]], seq[p[1]]) /\ p[1] < p[2]}
             a == [i \in D |-> seq[i].count]
             b == [i \in D |-> 0]
  <1>1. \A i \in D : seq[i].count \in Nat
    <2>1. \A i \in D : seq[i] \in S!Entry
      OBVIOUS
    <2> QED
      BY <2>1, EntryParts
  <1>2. \A x, y \in D : <<x, y>> \in R <=>
        (S!More(seq[x], seq[y]) \/ (~S!More(seq[y], seq[x]) /\ x < y))
    OBVIOUS
  <1>3. r = [k \in 1 .. Len(seq) |-> seq[S!InOrder(1 .. Len(seq), R)[k]]]
    BY DEF ByCount, S!Sorted
  <1> HIDE DEF R
  <1>4. ByKeys(Len(seq), R, a, b)
    BY <1>1, <1>2 DEF ByKeys, S!More
  <1> HIDE DEF a, b
  <1>5. r \in Seq(S!Entry) /\ Falls(seq, r, a)
    BY <1>3, <1>4, KeysSort
  <1> QED
    BY <1>5 DEF a

LEMMA ScoreSorted ==
    ASSUME NEW seq \in Seq(S!Playlist), NEW r, r = ByScore(seq)
    PROVE  /\ r \in Seq(S!Playlist)
           /\ Falls(seq, r, [i \in 1 .. Len(seq) |-> S!Score(seq[i])])
  <1> DEFINE D == 1 .. Len(seq)
             R == {p \in D \X D : \/ S!Ahead(seq[p[1]], seq[p[2]])
                                  \/ ~S!Ahead(seq[p[2]], seq[p[1]]) /\ p[1] < p[2]}
             a == [i \in D |-> S!Score(seq[i])]
             b == [i \in D |-> seq[i].id]
  <1>1. \A i \in D : S!Score(seq[i]) \in Nat /\ seq[i].id \in Nat
    <2>1. \A i \in D : seq[i] \in S!Playlist
      OBVIOUS
    <2> QED
      BY <2>1, PlaylistParts
  <1>2. \A x, y \in D : <<x, y>> \in R <=>
        (S!Ahead(seq[x], seq[y]) \/ (~S!Ahead(seq[y], seq[x]) /\ x < y))
    OBVIOUS
  <1>3. r = [k \in 1 .. Len(seq) |-> seq[S!InOrder(1 .. Len(seq), R)[k]]]
    BY DEF ByScore, S!Sorted
  <1> HIDE DEF R
  <1>4. ByKeys(Len(seq), R, a, b)
    <2>1. a \in [D -> Int] /\ b \in [D -> Int]
      BY ONLY <1>1
    <2>2. \A x, y \in D :
            S!Ahead(seq[x], seq[y]) <=> a[x] > a[y] \/ (a[x] = a[y] /\ b[x] < b[y])
      BY ONLY <1>1 DEF S!Ahead
    <2>3. \A x \in D : a[x] \in Nat /\ b[x] \in Nat
      BY ONLY <1>1
    <2> HIDE DEF a, b
    <2> QED
      BY ONLY <1>2, <2>1, <2>2, <2>3 DEF ByKeys
  <1> HIDE DEF a, b
  <1>5. r \in Seq(S!Playlist) /\ Falls(seq, r, a)
    BY <1>3, <1>4, KeysSort
  <1> QED
    BY <1>5 DEF a

LEMMA LengthSorted ==
    ASSUME NEW seq \in Seq(S!Playlist), NEW r, r = ByLength(seq)
    PROVE  r \in Seq(S!Playlist) /\ Len(r) = Len(seq) /\ ToSet(r) = ToSet(seq)
  <1> DEFINE D == 1 .. Len(seq)
             R == {p \in D \X D : \/ S!Longer(seq[p[1]], seq[p[2]])
                                  \/ ~S!Longer(seq[p[2]], seq[p[1]]) /\ p[1] < p[2]}
             a == [i \in D |-> Len(seq[i].tracks)]
             b == [i \in D |-> seq[i].id]
  <1>1. \A i \in D : Len(seq[i].tracks) \in Nat /\ seq[i].id \in Nat
    <2>1. \A i \in D : seq[i] \in S!Playlist
      OBVIOUS
    <2> QED
      BY <2>1, PlaylistParts
  <1>2. \A x, y \in D : <<x, y>> \in R <=>
        (S!Longer(seq[x], seq[y]) \/ (~S!Longer(seq[y], seq[x]) /\ x < y))
    OBVIOUS
  <1>3. r = [k \in 1 .. Len(seq) |-> seq[S!InOrder(1 .. Len(seq), R)[k]]]
    BY DEF ByLength, S!Sorted
  <1> HIDE DEF R
  <1>4. ByKeys(Len(seq), R, a, b)
    <2>1. a \in [D -> Int] /\ b \in [D -> Int]
      BY <1>1
    <2>2. ASSUME NEW x \in D, NEW y \in D
          PROVE  <<x, y>> \in R <=> \/ a[x] > a[y]
                                    \/ a[x] = a[y] /\ b[x] < b[y]
                                    \/ a[x] = a[y] /\ b[x] = b[y] /\ x < y
      <3>1. /\ Len(seq[x].tracks) \in Nat /\ Len(seq[y].tracks) \in Nat
            /\ seq[x].id \in Nat /\ seq[y].id \in Nat
        BY <1>1
      <3>2. <<x, y>> \in R <=> (S!Longer(seq[x], seq[y]) \/ (~S!Longer(seq[y], seq[x]) /\ x < y))
        BY <1>2
      <3> QED
        BY <3>1, <3>2 DEF S!Longer
    <2> QED
      BY <2>1, <2>2 DEF ByKeys
  <1> HIDE DEF a, b
  <1>5. r \in Seq(S!Playlist) /\ Falls(seq, r, a)
    BY <1>3, <1>4, KeysSort
  <1> QED
    BY <1>5 DEF Falls

\* Favorites come first in the sidebar.
LEMMA LeadSorted ==
    ASSUME NEW seq \in Seq(S!Playlist), NEW r, r = ByLead(seq)
    PROVE  /\ r \in Seq(S!Playlist)
           /\ Falls(seq, r, [i \in 1 .. Len(seq) |-> IF seq[i].kind = "favorites" THEN 1 ELSE 0])
  <1> DEFINE D == 1 .. Len(seq)
             R == {p \in D \X D : \/ S!Leads(seq[p[1]], seq[p[2]])
                                  \/ ~S!Leads(seq[p[2]], seq[p[1]]) /\ p[1] < p[2]}
             a == [i \in D |-> IF seq[i].kind = "favorites" THEN 1 ELSE 0]
             b == [i \in D |-> seq[i].id]
  <1>1. \A i \in D : seq[i].id \in Nat
    <2>1. \A i \in D : seq[i] \in S!Playlist
      OBVIOUS
    <2> QED
      BY <2>1, PlaylistParts
  <1>2. \A x, y \in D : <<x, y>> \in R <=>
        (S!Leads(seq[x], seq[y]) \/ (~S!Leads(seq[y], seq[x]) /\ x < y))
    OBVIOUS
  <1>3. r = [k \in 1 .. Len(seq) |-> seq[S!InOrder(1 .. Len(seq), R)[k]]]
    BY DEF ByLead, S!Sorted
  <1> HIDE DEF R
  <1>4. ByKeys(Len(seq), R, a, b)
    <2>1. a \in [D -> Int] /\ b \in [D -> Int]
      BY <1>1
    <2>2. ASSUME NEW x \in D, NEW y \in D
          PROVE  <<x, y>> \in R <=> \/ a[x] > a[y]
                                    \/ a[x] = a[y] /\ b[x] < b[y]
                                    \/ a[x] = a[y] /\ b[x] = b[y] /\ x < y
      <3>1. seq[x].id \in Nat /\ seq[y].id \in Nat
        BY <1>1
      <3>2. <<x, y>> \in R <=> (S!Leads(seq[x], seq[y]) \/ (~S!Leads(seq[y], seq[x]) /\ x < y))
        BY <1>2
      <3> QED
        BY <3>1, <3>2 DEF S!Leads
    <2> QED
      BY <2>1, <2>2 DEF ByKeys
  <1> HIDE DEF a, b
  <1>5. r \in Seq(S!Playlist) /\ Falls(seq, r, a)
    BY <1>3, <1>4, KeysSort
  <1> QED
    BY <1>5 DEF a

-----------------------------------------------------------------------------
(* What the pages choose *)

LEMMA LimitIs == Limit \in Nat /\ Limit > 0
  BY PagesConstants DEF S!ShelvesAssumption

LEMMA Shortened ==
    ASSUME NEW X, NEW seq \in Seq(X), NEW m \in Nat \ {0}, NEW r, r = S!First(seq, m)
    PROVE  /\ r \in Seq(X) /\ Len(r) \in Nat /\ Len(r) = S!Lesser(Len(seq), m)
           /\ Len(r) <= Len(seq) /\ Len(r) <= m
           /\ \A k \in 1 .. Len(r) : r[k] = seq[k]
  <1> DEFINE n == S!Lesser(m, Len(seq))
  <1>1. Len(seq) \in Nat
    OBVIOUS
  <1>2. n \in Nat /\ n = S!Lesser(Len(seq), m) /\ n <= Len(seq) /\ n <= m
    BY <1>1 DEF S!Lesser
  <1>3. r = SubSeq(seq, 1, n)
    BY DEF S!First
  <1> HIDE DEF n
  <1>4. r \in Seq(X) /\ Len(r) = n /\ \A k \in 1 .. n : r[k] = seq[k]
    BY <1>1, <1>2, <1>3
  <1> QED
    BY <1>2, <1>4

LEMMA FirstParts ==
    ASSUME NEW X, NEW seq \in Seq(X), NEW r, r = S!First(seq, Limit)
    PROVE  /\ r \in Seq(X) /\ Len(r) \in Nat /\ Len(r) = S!Lesser(Len(seq), Limit)
           /\ Len(r) <= Len(seq) /\ Len(r) <= Limit
           /\ \A k \in 1 .. Len(r) : r[k] = seq[k]
  BY LimitIs, Shortened

\* A list without repetitions is as long as it has members.
LEMMA AsLongAsMany ==
    ASSUME NEW n \in Nat, NEW f, DOMAIN f = 1 .. n, \A k, l \in 1 .. n : f[k] = f[l] => k = l,
           NEW T, \A x : x \in T <=> \E k \in 1 .. n : f[k] = x
    PROVE  IsFiniteSet(T) /\ Cardinality(T) = n
  <1> DEFINE g == [k \in 1 .. n |-> f[k]]
  <1>1. g \in [1 .. n -> T]
    OBVIOUS
  <1>2. g \in Bijection(1 .. n, T)
    BY <1>1 DEF Bijection, Injection, Surjection, IsInjective
  <1>3. IsFiniteSet(1 .. n) /\ Cardinality(1 .. n) = n
    BY FS_Interval
  <1>4. ExistsBijection(1 .. n, T)
    BY <1>2 DEF ExistsBijection
  <1> QED
    BY <1>3, <1>4, FS_Bijection

\* The plays of a track are counted, and there are none of what was not played.
LEMMA TimesPlayed ==
    ASSUME NEW plays \in Seq(ShelfTracks), NEW t
    PROVE  S!Times(t, plays) \in Nat /\ (S!Times(t, plays) > 0 <=> t \in ToSet(plays))
  <1> DEFINE I == {i \in 1 .. Len(plays) : plays[i] = t}
  <1>1. IsFiniteSet(1 .. Len(plays))
    BY FS_Interval
  <1>2. IsFiniteSet(I)
    BY <1>1, FS_Subset
  <1>3. Cardinality(I) \in Nat /\ (Cardinality(I) = 0 <=> I = {})
    BY <1>2, FS_CardinalityType, FS_EmptySet
  <1>4. S!Times(t, plays) = Cardinality(I)
    BY SameSizes DEF S!Times
  <1>5. t \in ToSet(plays) <=> I # {}
    BY InList
  <1> QED
    BY <1>3, <1>4, <1>5

Falling(want) == \A k, l \in 1 .. Len(want) : k < l => want[k].count >= want[l].count
TracksIn(want) == {e.track : e \in ToSet(want)}
KnownOf(fav, entries) == {e \in ToSet(entries) : e.track \in ToSet(fav)}
PlayedOf(fav, plays) == {t \in ToSet(fav) : S!Times(t, plays) > 0}
Fills(want, T) == Cardinality(TracksIn(want)) = S!Lesser(Cardinality(T), Limit)

\* A choice of popular favorites.
Choice(want, fav) == want \in Seq(S!Entry) /\ Falling(want) /\ TracksIn(want) \subseteq ToSet(fav)
ByAnalytics(want, fav, entries) == ToSet(want) = KnownOf(fav, entries)
ByPlays(want, fav, plays) ==
    /\ Fills(want, PlayedOf(fav, plays))
    /\ \A p \in ToSet(want) :
         /\ p.count = S!Times(p.track, plays)
         /\ \A t \in PlayedOf(fav, plays) : S!Times(t, plays) > p.count => t \in TracksIn(want)
ByDates(want, fav) ==
    Fills(want, ToSet(fav)) /\ (ToSet(fav) # {} => fav[Len(fav)] \in TracksIn(want))
Best(want, fav, entries, plays) ==
    /\ Choice(want, fav)
    /\ IF KnownOf(fav, entries) # {} THEN ByAnalytics(want, fav, entries)
       ELSE IF PlayedOf(fav, plays) # {} THEN ByPlays(want, fav, plays) ELSE ByDates(want, fav)

\* The entries a page holds.
EntriesSound(entries) ==
    entries \in Seq(S!Entry) /\ Len(entries) <= Limit /\ Falling(entries)

LEMMA TracksListed ==
    ASSUME NEW want \in Seq(S!Entry), NEW t
    PROVE  t \in TracksIn(want) <=> \E k \in 1 .. Len(want) : want[k].track = t
  <1>1. t \in TracksIn(want) <=> \E e \in ToSet(want) : e.track = t
    BY DEF TracksIn
  <1> QED
    BY <1>1, InList

LEMMA DifferentTracks ==
    ASSUME NEW want \in Seq(S!Entry),
           \A k, l \in 1 .. Len(want) : want[k].track = want[l].track => k = l
    PROVE  Cardinality(TracksIn(want)) = Len(want)
  <1> DEFINE f == [k \in 1 .. Len(want) |-> want[k].track]
  <1>1. Len(want) \in Nat /\ DOMAIN f = 1 .. Len(want)
    OBVIOUS
  <1>2. \A k, l \in 1 .. Len(want) : f[k] = f[l] => k = l
    OBVIOUS
  <1>3. \A t : t \in TracksIn(want) <=> \E k \in 1 .. Len(want) : f[k] = t
    BY TracksListed
  <1> HIDE DEF f
  <1> QED
    BY <1>1, <1>2, <1>3, AsLongAsMany

\* What is kept of entries by falling counts falls.
LEMMA KeptFalls ==
    ASSUME NEW seq \in Seq(S!Entry), Falling(seq), NEW I \in SUBSET (1 .. Len(seq)),
           NEW r, r \in Seq(S!Entry), Selects(seq, I, r)
    PROVE  Falling(r)
  <1>1. PICK o \in [1 .. Len(r) -> I] :
         /\ \A k, l \in 1 .. Len(r) : k < l => o[k] < o[l]
         /\ \A k \in 1 .. Len(r) : r[k] = seq[o[k]]
    BY DEF Selects
  <1>2. ASSUME NEW k \in 1 .. Len(r), NEW l \in 1 .. Len(r), k < l
        PROVE  r[k].count >= r[l].count
    <2>1. o[k] \in 1 .. Len(seq) /\ o[l] \in 1 .. Len(seq) /\ o[k] < o[l]
      BY <1>1, <1>2
    <2> QED
      BY <1>1, <2>1 DEF Falling
  <1> QED
    BY <1>2 DEF Falling

LEMMA UpTo ==
    ASSUME NEW n \in Nat
    PROVE  IsFiniteSet(1 .. n) /\ Cardinality(1 .. n) = n
  BY FS_Interval

LEMMA SomeMember ==
    ASSUME NEW X, NEW seq \in Seq(X)
    PROVE  seq # << >> <=> ToSet(seq) # {}
  <1>1. Len(seq) \in Nat /\ (seq # << >> <=> Len(seq) # 0)
    OBVIOUS
  <1>2. Len(seq) # 0 <=> \E k \in 1 .. Len(seq) : TRUE
    BY <1>1
  <1>3. \A x : x \in ToSet(seq) <=> \E k \in 1 .. Len(seq) : seq[k] = x
    BY InList
  <1> QED
    BY ONLY <1>1, <1>2, <1>3

\* The favorites that the analytics know.
KnownList(fav, entries) ==
    S!Kept(entries, {i \in 1 .. Len(entries) : entries[i].track \in ToSet(fav)})

LEMMA KnownParts ==
    ASSUME NEW fav \in Seq(ShelfTracks), NEW entries, EntriesSound(entries),
           NEW s, s = KnownList(fav, entries)
    PROVE  /\ s \in Seq(S!Entry) /\ Len(s) \in Nat /\ Len(s) <= Limit
           /\ Falling(s) /\ ToSet(s) = KnownOf(fav, entries)
  <1> DEFINE I == {i \in 1 .. Len(entries) : entries[i].track \in ToSet(fav)}
  <1>1. entries \in Seq(S!Entry) /\ Len(entries) <= Limit /\ Falling(entries)
    BY DEF EntriesSound
  <1>2. Len(entries) \in Nat
    BY <1>1
  <1>3. s = S!Kept(entries, I)
    BY DEF KnownList
  <1>4. I \in SUBSET (1 .. Len(entries))
    OBVIOUS
  <1>5. \A i \in 1 .. Len(entries) : i \in I <=> entries[i].track \in ToSet(fav)
    OBVIOUS
  <1> HIDE DEF I
  <1>6. s \in Seq(S!Entry) /\ Selects(entries, I, s)
    BY ONLY <1>1, <1>3, <1>4, KeptParts
  <1>7. Len(s) = Cardinality(I) /\ Len(s) \in Nat
    BY <1>6 DEF Selects
  <1>8. Len(s) <= Limit
    <2>1. IsFiniteSet(1 .. Len(entries)) /\ Cardinality(1 .. Len(entries)) = Len(entries)
      BY ONLY <1>2, UpTo
    <2>2. Cardinality(I) <= Len(entries)
      BY ONLY <1>4, <2>1, FS_Subset
    <2> QED
      BY <1>1, <1>2, <1>7, <2>2, LimitIs
  <1>9. Falling(s)
    BY ONLY <1>1, <1>4, <1>6, KeptFalls
  <1>10. \A e : e \in ToSet(s) <=> e \in KnownOf(fav, entries)
    <2>1. \A e : e \in ToSet(s) <=> \E i \in I : entries[i] = e
      BY <1>6 DEF Selects, Spans
    <2>2. \A e : e \in ToSet(entries) <=> \E i \in 1 .. Len(entries) : entries[i] = e
      BY <1>1, InList
    <2> QED
      BY <1>4, <1>5, <2>1, <2>2 DEF KnownOf
  <1> QED
    BY <1>6, <1>7, <1>8, <1>9, <1>10

LEMMA KnownFirst ==
    ASSUME NEW fav \in Seq(ShelfTracks), NEW entries, EntriesSound(entries),
           NEW r, r = S!First(KnownList(fav, entries), Limit)
    PROVE  /\ Choice(r, fav) /\ ByAnalytics(r, fav, entries)
           /\ r # << >> <=> KnownOf(fav, entries) # {}
  <1> DEFINE s == KnownList(fav, entries)
  <1>1. r = S!First(s, Limit)
    OBVIOUS
  <1>2. /\ s \in Seq(S!Entry) /\ Len(s) \in Nat /\ Len(s) <= Limit
        /\ Falling(s) /\ ToSet(s) = KnownOf(fav, entries)
    BY KnownParts
  <1> HIDE DEF s
  <1>3. r = s
    <2>1. /\ r \in Seq(S!Entry) /\ Len(r) = S!Lesser(Len(s), Limit)
          /\ \A k \in 1 .. Len(r) : r[k] = s[k]
      BY ONLY <1>1, <1>2, FirstParts
    <2>2. Len(r) = Len(s)
      BY <2>1, <1>2, LimitIs DEF S!Lesser
    <2> QED
      BY <1>2, <2>1, <2>2
  <1>4. TracksIn(s) \subseteq ToSet(fav)
    BY <1>2 DEF TracksIn, KnownOf
  <1>5. s # << >> <=> ToSet(s) # {}
    BY ONLY <1>2, SomeMember
  <1> QED
    BY <1>2, <1>3, <1>4, <1>5 DEF Choice, ByAnalytics

\* The first of the sorted: no other counts more.
BestOf(seq, r) ==
    /\ r \in Seq(S!Entry) /\ Len(r) \in Nat /\ Len(r) = S!Lesser(Len(seq), Limit)
    /\ Falling(r) /\ ToSet(r) \subseteq ToSet(seq)
    /\ \A e \in ToSet(r), other \in ToSet(seq) \ ToSet(r) : other.count <= e.count
DifferInTrack(seq) == \A k, l \in 1 .. Len(seq) : seq[k].track = seq[l].track => k = l

LEMMA FirstBest ==
    ASSUME NEW seq \in Seq(S!Entry), NEW r, r = S!First(ByCount(seq), Limit)
    PROVE  BestOf(seq, r) /\ (DifferInTrack(seq) => DifferInTrack(r))
  <1> DEFINE s == ByCount(seq)
             a == [i \in 1 .. Len(seq) |-> seq[i].count]
  <1>1. r = S!First(s, Limit)
    OBVIOUS
  <1>2. s \in Seq(S!Entry) /\ Falls(seq, s, a)
    BY CountSorted
  <1>3. Len(seq) \in Nat /\ Len(s) = Len(seq) /\ ToSet(s) = ToSet(seq)
    BY <1>2 DEF Falls
  <1>4. \A i \in 1 .. Len(seq) : a[i] = seq[i].count /\ seq[i].count \in Nat
    <2>1. \A i \in 1 .. Len(seq) : seq[i] \in S!Entry
      OBVIOUS
    <2> QED
      BY <2>1, EntryParts
  <1> HIDE DEF s, a
  <1>5. /\ r \in Seq(S!Entry) /\ Len(r) \in Nat /\ Len(r) = S!Lesser(Len(s), Limit)
        /\ Len(r) <= Len(s) /\ \A k \in 1 .. Len(r) : r[k] = s[k]
    BY ONLY <1>1, <1>2, FirstParts
  <1>6. PICK o \in [1 .. Len(seq) -> 1 .. Len(seq)] :
         /\ \A k, l \in 1 .. Len(seq) : k < l => a[o[k]] >= a[o[l]]
         /\ \A k, l \in 1 .. Len(seq) : o[k] = o[l] => k = l
         /\ \A k \in 1 .. Len(seq) : s[k] = seq[o[k]]
    BY <1>2 DEF Falls
  <1>7. \A k, l \in 1 .. Len(s) : k < l => s[k].count >= s[l].count
    <2>1. ASSUME NEW k \in 1 .. Len(s), NEW l \in 1 .. Len(s), k < l
          PROVE  s[k].count >= s[l].count
      <3>1. o[k] \in 1 .. Len(seq) /\ o[l] \in 1 .. Len(seq)
        BY ONLY <1>3, <1>6, k \in 1 .. Len(s), l \in 1 .. Len(s)
      <3>2. a[o[k]] >= a[o[l]] /\ s[k] = seq[o[k]] /\ s[l] = seq[o[l]]
        BY ONLY <1>3, <1>6, <2>1
      <3>3. a[o[k]] = seq[o[k]].count /\ a[o[l]] = seq[o[l]].count
        BY ONLY <1>4, <3>1
      <3> QED
        BY ONLY <3>2, <3>3
    <2> QED
      BY <2>1
  <1>8. \A x : x \in ToSet(s) <=> \E k \in 1 .. Len(s) : s[k] = x
    BY ONLY <1>2, InList, Len(s) \in Nat, DOMAIN s = 1 .. Len(s)
  <1>9. \A x : x \in ToSet(r) <=> \E k \in 1 .. Len(r) : r[k] = x
    BY ONLY <1>5, InList, Len(r) \in Nat, DOMAIN r = 1 .. Len(r)
  <1>10. Falling(r)
    BY <1>3, <1>5, <1>7 DEF Falling
  <1>11. ToSet(r) \subseteq ToSet(s)
    BY <1>3, <1>5, <1>8, <1>9
  <1>12. ASSUME NEW e \in ToSet(r), NEW other \in ToSet(s), other \notin ToSet(r)
         PROVE  other.count <= e.count
    <2>1. PICK k \in 1 .. Len(r) : r[k] = e
      BY <1>9
    <2>2. PICK l \in 1 .. Len(s) : s[l] = other
      BY <1>8
    <2>3. ~(l <= Len(r))
      BY <1>5, <1>9, <1>12, <2>2
    <2>4. k < l /\ k \in 1 .. Len(s)
      BY <1>3, <1>5, <2>3
    <2>5. s[k] = e
      BY <1>5, <2>1
    <2>6. s[k] \in S!Entry /\ s[l] \in S!Entry
      BY <1>2, <2>4
    <2>7. e.count \in Nat /\ other.count \in Nat
      BY <2>2, <2>5, <2>6, EntryParts
    <2> QED
      BY <1>7, <2>2, <2>4, <2>5, <2>7
  <1>13. ASSUME DifferInTrack(seq), NEW k \in 1 .. Len(r), NEW l \in 1 .. Len(r), r[k].track = r[l].track
         PROVE  k = l
    <2>1. k \in 1 .. Len(seq) /\ l \in 1 .. Len(seq)
      BY <1>3, <1>5
    <2>2. r[k] = seq[o[k]] /\ r[l] = seq[o[l]] /\ o[k] \in 1 .. Len(seq) /\ o[l] \in 1 .. Len(seq)
      BY <1>3, <1>5, <1>6, <2>1
    <2>3. o[k] = o[l]
      BY <1>13, <2>2 DEF DifferInTrack
    <2> QED
      BY <1>6, <2>1, <2>3
  <1>14. DifferInTrack(seq) => DifferInTrack(r)
    BY <1>13 DEF DifferInTrack
  <1>15. ToSet(s) = ToSet(seq)
    BY <1>3
  <1>16. \A e \in ToSet(r), other \in ToSet(seq) \ ToSet(r) : other.count <= e.count
    BY ONLY <1>12, <1>15
  <1> QED
    BY ONLY <1>3, <1>5, <1>10, <1>11, <1>14, <1>16 DEF BestOf

\* The favorites in the history, each once.
HeardOf(fav, plays) == S!Distinct(S!Kept(plays, {i \in 1 .. Len(plays) : plays[i] \in ToSet(fav)}))

LEMMA HeardParts ==
    ASSUME NEW fav \in Seq(ShelfTracks), NEW plays \in Seq(ShelfTracks),
           NEW h, h = HeardOf(fav, plays)
    PROVE  /\ h \in Seq(ShelfTracks) /\ Len(h) \in Nat /\ ToSet(h) = PlayedOf(fav, plays)
           /\ \A k, l \in 1 .. Len(h) : h[k] = h[l] => k = l
  <1> DEFINE I == {i \in 1 .. Len(plays) : plays[i] \in ToSet(fav)}
             s == S!Kept(plays, I)
  <1>1. h = S!Distinct(s)
    BY DEF HeardOf
  <1>2. I \in SUBSET (1 .. Len(plays)) /\ \A i \in 1 .. Len(plays) : i \in I <=> plays[i] \in ToSet(fav)
    OBVIOUS
  <1> HIDE DEF I
  <1>3. s \in Seq(ShelfTracks) /\ Selects(plays, I, s)
    BY ONLY <1>2, KeptParts, plays \in Seq(ShelfTracks)
  <1> HIDE DEF s
  <1>4. /\ h \in Seq(ShelfTracks) /\ ToSet(h) = ToSet(s)
        /\ \A k, l \in 1 .. Len(h) : h[k] = h[l] => k = l
    BY ONLY <1>1, <1>3, DistinctParts
  <1>5. \A t : t \in ToSet(s) <=> t \in PlayedOf(fav, plays)
    <2>1. \A t : t \in ToSet(s) <=> \E i \in I : plays[i] = t
      BY <1>3 DEF Selects, Spans
    <2>2. \A t : t \in ToSet(plays) <=> \E i \in 1 .. Len(plays) : plays[i] = t
      BY InList
    <2>3. \A t : t \in PlayedOf(fav, plays) <=> t \in ToSet(fav) /\ t \in ToSet(plays)
      BY TimesPlayed DEF PlayedOf
    <2> QED
      BY ONLY <1>2, <2>1, <2>2, <2>3
  <1>6. Len(h) \in Nat
    BY <1>4
  <1> QED
    BY <1>4, <1>5, <1>6

\* The counts of the plays.
PairsOf(h, plays) == [i \in 1 .. Len(h) |-> [track |-> h[i], count |-> S!Times(h[i], plays)]]

LEMMA PairsParts ==
    ASSUME NEW plays \in Seq(ShelfTracks), NEW h \in Seq(ShelfTracks),
           \A k, l \in 1 .. Len(h) : h[k] = h[l] => k = l,
           NEW p, p = PairsOf(h, plays)
    PROVE  /\ p \in Seq(S!Entry) /\ Len(p) = Len(h) /\ TracksIn(p) = ToSet(h)
           /\ DifferInTrack(p) /\ \A e \in ToSet(p) : e.count = S!Times(e.track, plays)
  <1>1. Len(h) \in Nat
    OBVIOUS
  <1>2. p = [i \in 1 .. Len(h) |-> [track |-> h[i], count |-> S!Times(h[i], plays)]]
    BY DEF PairsOf
  <1>3. \A i \in 1 .. Len(h) : [track |-> h[i], count |-> S!Times(h[i], plays)] \in S!Entry
    <2>1. \A i \in 1 .. Len(h) : h[i] \in ShelfTracks /\ S!Times(h[i], plays) \in Nat
      BY TimesPlayed
    <2> QED
      BY <2>1 DEF S!Entry
  <1>4. p \in [1 .. Len(h) -> S!Entry]
    BY ONLY <1>2, <1>3
  <1>5. p \in Seq(S!Entry) /\ Len(p) = Len(h) /\ \A x : x \in ToSet(p) <=> \E k \in 1 .. Len(h) : p[k] = x
    <2>1. p \in Seq(S!Entry) /\ Len(p) = Len(h) /\ DOMAIN p = 1 .. Len(h)
      BY ONLY <1>1, <1>4
    <2> QED
      BY ONLY <2>1, InList
  <1>6. \A k \in 1 .. Len(h) : p[k].track = h[k] /\ p[k].count = S!Times(p[k].track, plays)
    BY ONLY <1>2
  <1>7. \A t : t \in ToSet(h) <=> \E k \in 1 .. Len(h) : h[k] = t
    BY InList
  <1>8. \A t : t \in TracksIn(p) <=> \E k \in 1 .. Len(h) : h[k] = t
    <2>1. p \in Seq(S!Entry) /\ Len(p) = Len(h)
      BY ONLY <1>5
    <2>2. \A t : t \in TracksIn(p) <=> \E k \in 1 .. Len(p) : p[k].track = t
      BY ONLY <2>1, TracksListed
    <2>3. \A k \in 1 .. Len(h) : p[k].track = h[k]
      BY ONLY <1>6
    <2> QED
      BY ONLY <2>1, <2>2, <2>3
  <1>9. TracksIn(p) = ToSet(h)
    BY ONLY <1>7, <1>8
  <1>10. DifferInTrack(p)
    BY ONLY <1>5, <1>6, \A k, l \in 1 .. Len(h) : h[k] = h[l] => k = l DEF DifferInTrack
  <1>11. \A e \in ToSet(p) : e.count = S!Times(e.track, plays)
    BY ONLY <1>5, <1>6
  <1> QED
    BY ONLY <1>5, <1>9, <1>10, <1>11

LEMMA LocalFirst ==
    ASSUME NEW fav \in Seq(ShelfTracks), NEW plays \in Seq(ShelfTracks),
           NEW r, r = S!First(ByCount(PairsOf(HeardOf(fav, plays), plays)), Limit)
    PROVE  /\ Choice(r, fav) /\ ByPlays(r, fav, plays)
           /\ r # << >> <=> PlayedOf(fav, plays) # {}
  <1> DEFINE h == HeardOf(fav, plays)
             p == PairsOf(h, plays)
             T == PlayedOf(fav, plays)
  <1>1. /\ h \in Seq(ShelfTracks) /\ Len(h) \in Nat /\ ToSet(h) = T
        /\ \A k, l \in 1 .. Len(h) : h[k] = h[l] => k = l
    BY HeardParts
  <1>2. r = S!First(ByCount(p), Limit)
    OBVIOUS
  <1> HIDE DEF h
  <1>3. /\ p \in Seq(S!Entry) /\ Len(p) = Len(h) /\ TracksIn(p) = ToSet(h)
        /\ DifferInTrack(p) /\ \A e \in ToSet(p) : e.count = S!Times(e.track, plays)
    BY ONLY <1>1, PairsParts, plays \in Seq(ShelfTracks)
  <1> HIDE DEF p
  <1>4. BestOf(p, r) /\ DifferInTrack(r)
    BY ONLY <1>2, <1>3, FirstBest
  <1>5. /\ r \in Seq(S!Entry) /\ Len(r) \in Nat /\ Len(r) = S!Lesser(Len(h), Limit)
        /\ Falling(r) /\ ToSet(r) \subseteq ToSet(p)
        /\ \A e \in ToSet(r), other \in ToSet(p) \ ToSet(r) : other.count <= e.count
    BY ONLY <1>3, <1>4 DEF BestOf
  <1>6. Cardinality(TracksIn(r)) = Len(r)
    BY ONLY <1>4, <1>5, DifferentTracks DEF DifferInTrack
  <1>7. Cardinality(T) = Len(h)
    <2>1. DOMAIN h = 1 .. Len(h)
      BY <1>1
    <2>2. \A x : x \in T <=> \E k \in 1 .. Len(h) : h[k] = x
      BY <1>1, <2>1, InList
    <2> QED
      BY ONLY <1>1, <2>1, <2>2, AsLongAsMany
  <1>8. Fills(r, T)
    BY ONLY <1>5, <1>6, <1>7 DEF Fills
  <1>9. TracksIn(p) = T
    BY <1>1, <1>3
  <1>10. TracksIn(r) \subseteq ToSet(fav)
    <2>1. TracksIn(r) \subseteq TracksIn(p)
      BY ONLY <1>5 DEF TracksIn
    <2> QED
      BY ONLY <1>9, <2>1 DEF PlayedOf
  <1>11. ASSUME NEW e \in ToSet(r)
         PROVE  /\ e.count = S!Times(e.track, plays)
                /\ \A t \in T : S!Times(t, plays) > e.count => t \in TracksIn(r)
    <2>1. e \in ToSet(p)
      BY <1>5
    <2>2. e.count = S!Times(e.track, plays)
      BY <1>3, <2>1
    <2>3. ASSUME NEW t \in T, S!Times(t, plays) > e.count
          PROVE  t \in TracksIn(r)
      <3>1. PICK other \in ToSet(p) : other.track = t
        BY <1>9 DEF TracksIn
      <3>2. other.count = S!Times(t, plays)
        BY <1>3, <3>1
      <3>3. S!Times(t, plays) \in Nat /\ e.count \in Nat
        BY ONLY <2>2, TimesPlayed, plays \in Seq(ShelfTracks)
      <3>4. other \in ToSet(r)
        BY ONLY <1>5, <2>3, <3>1, <3>2, <3>3, e \in ToSet(r)
      <3> QED
        BY <3>1, <3>4 DEF TracksIn
    <2> QED
      BY <2>2, <2>3
  <1>12. r # << >> <=> T # {}
    <2>1. T # {} <=> Len(h) # 0
      BY <1>1, SomeMember
    <2>2. r # << >> <=> Len(r) # 0
      BY <1>5
    <2>3. Len(r) # 0 <=> Len(h) # 0
      BY ONLY <1>1, <1>5, LimitIs DEF S!Lesser
    <2> QED
      BY ONLY <2>1, <2>2, <2>3
  <1>13. ByPlays(r, fav, plays)
    BY <1>8, <1>11 DEF ByPlays
  <1> QED
    BY <1>5, <1>10, <1>12, <1>13 DEF Choice

\* The last of a list is the first of it turned around.
LEMMA Reversed ==
    ASSUME NEW X, NEW seq \in Seq(X), NEW r, r = S!Reverse(seq)
    PROVE  /\ r \in Seq(X) /\ Len(r) = Len(seq) /\ ToSet(r) = ToSet(seq)
           /\ seq # << >> => r # << >> /\ r[1] = seq[Len(seq)]
  <1> DEFINE n == Len(seq)
  <1>1. n \in Nat /\ DOMAIN seq = 1 .. n /\ \A k \in 1 .. n : seq[k] \in X
    OBVIOUS
  <1>2. r = [k \in 1 .. n |-> seq[(n - k) + 1]]
    BY DEF S!Reverse
  <1>3. seq # << >> <=> n # 0
    OBVIOUS
  <1>4. \A x : x \in ToSet(seq) <=> \E k \in 1 .. n : seq[k] = x
    BY InList
  <1> HIDE DEF n
  <1>5. \A k \in 1 .. n : (n - k) + 1 \in 1 .. n
    BY ONLY <1>1
  <1>6. r \in [1 .. n -> X]
    BY ONLY <1>1, <1>2, <1>5
  <1>7. r \in Seq(X) /\ Len(r) = n /\ DOMAIN r = 1 .. n
    BY ONLY <1>1, <1>6
  <1>8. \A x : x \in ToSet(r) <=> \E k \in 1 .. n : r[k] = x
    BY ONLY <1>7, InList
  <1>9. ASSUME NEW x
        PROVE  x \in ToSet(r) <=> x \in ToSet(seq)
    <2>1. ASSUME NEW k \in 1 .. n
          PROVE  (n - k) + 1 \in 1 .. n /\ r[(n - k) + 1] = seq[k] /\ r[k] = seq[(n - k) + 1]
      <3>1. n - ((n - k) + 1) + 1 = k
        BY ONLY <1>1, <2>1
      <3> QED
        BY ONLY <1>2, <1>5, <3>1, <2>1
    <2> QED
      BY ONLY <1>4, <1>8, <2>1
  <1>10. ASSUME seq # << >>
         PROVE  r # << >> /\ r[1] = seq[n]
    <2>1. 1 \in 1 .. n /\ (n - 1) + 1 = n
      BY ONLY <1>1, <1>3, <1>10
    <2> QED
      BY ONLY <1>2, <1>7, <2>1
  <1> QED
    BY <1>7, <1>9, <1>10 DEF n

RecentIds(fav) == S!First(S!Distinct(S!Reverse(fav)), Limit)

LEMMA RecentParts ==
    ASSUME NEW fav \in Seq(ShelfTracks), NEW ids, ids = RecentIds(fav)
    PROVE  /\ ids \in Seq(ShelfTracks) /\ Len(ids) \in Nat /\ Len(ids) <= Limit
           /\ Len(ids) = S!Lesser(Cardinality(ToSet(fav)), Limit)
           /\ \A k, l \in 1 .. Len(ids) : ids[k] = ids[l] => k = l
           /\ ToSet(ids) \subseteq ToSet(fav)
           /\ ToSet(fav) # {} => fav[Len(fav)] \in ToSet(ids)
  <1> DEFINE s == S!Reverse(fav)
             d == S!Distinct(s)
  <1>1. ids = S!First(d, Limit)
    BY DEF RecentIds
  <1>2. /\ s \in Seq(ShelfTracks) /\ ToSet(s) = ToSet(fav)
        /\ fav # << >> => s # << >> /\ s[1] = fav[Len(fav)]
    BY Reversed
  <1> HIDE DEF s
  <1>3. /\ d \in Seq(ShelfTracks) /\ ToSet(d) = ToSet(s)
        /\ \A k, l \in 1 .. Len(d) : d[k] = d[l] => k = l
        /\ s # << >> => d # << >> /\ d[1] = s[1]
    BY ONLY <1>2, DistinctParts
  <1> HIDE DEF d
  <1>4. /\ ids \in Seq(ShelfTracks) /\ Len(ids) \in Nat /\ Len(ids) = S!Lesser(Len(d), Limit)
        /\ Len(ids) <= Len(d) /\ Len(ids) <= Limit /\ \A k \in 1 .. Len(ids) : ids[k] = d[k]
    BY ONLY <1>1, <1>3, FirstParts
  <1>5. Len(d) \in Nat /\ DOMAIN d = 1 .. Len(d) /\ DOMAIN ids = 1 .. Len(ids)
    BY <1>3, <1>4
  <1>6. \A x : x \in ToSet(d) <=> \E k \in 1 .. Len(d) : d[k] = x
    BY ONLY <1>5, InList
  <1>7. \A x : x \in ToSet(ids) <=> \E k \in 1 .. Len(ids) : ids[k] = x
    BY ONLY <1>5, InList
  <1>8. Cardinality(ToSet(d)) = Len(d)
    BY ONLY <1>3, <1>5, <1>6, AsLongAsMany
  <1>9. \A k, l \in 1 .. Len(ids) : ids[k] = ids[l] => k = l
    BY ONLY <1>3, <1>4, <1>5
  <1>10. ToSet(ids) \subseteq ToSet(fav)
    <2>1. \A k \in 1 .. Len(ids) : k \in 1 .. Len(d)
      BY ONLY <1>4, <1>5
    <2>2. \A x : x \in ToSet(ids) => x \in ToSet(d)
      BY ONLY <1>4, <1>6, <1>7, <2>1
    <2> QED
      BY ONLY <1>2, <1>3, <2>2
  <1>11. ASSUME ToSet(fav) # {}
         PROVE  fav[Len(fav)] \in ToSet(ids)
    <2>1. fav # << >>
      BY ONLY <1>11, SomeMember, fav \in Seq(ShelfTracks)
    <2>2. Len(d) > 0 /\ d[1] = fav[Len(fav)]
      BY <1>2, <1>3, <2>1
    <2>3. 1 \in 1 .. Len(ids)
      BY ONLY <1>4, <1>5, <2>2, LimitIs DEF S!Lesser
    <2> QED
      BY ONLY <1>4, <1>7, <2>2, <2>3
  <1>12. Len(ids) = S!Lesser(Cardinality(ToSet(fav)), Limit)
    BY ONLY <1>2, <1>3, <1>4, <1>8
  <1> QED
    BY ONLY <1>4, <1>9, <1>10, <1>11, <1>12

DatesOf(ids) == [i \in 1 .. Len(ids) |-> [track |-> ids[i], count |-> Limit - i + 1]]

LEMMA DatesBest ==
    ASSUME NEW fav \in Seq(ShelfTracks), NEW r, r = DatesOf(RecentIds(fav))
    PROVE  Choice(r, fav) /\ ByDates(r, fav)
  <1> DEFINE ids == RecentIds(fav)
             n == Len(ids)
  <1>1. /\ ids \in Seq(ShelfTracks) /\ n \in Nat /\ n <= Limit
        /\ n = S!Lesser(Cardinality(ToSet(fav)), Limit)
        /\ \A k, l \in 1 .. n : ids[k] = ids[l] => k = l
        /\ ToSet(ids) \subseteq ToSet(fav)
        /\ ToSet(fav) # {} => fav[Len(fav)] \in ToSet(ids)
    BY RecentParts
  <1>2. r = [i \in 1 .. n |-> [track |-> ids[i], count |-> Limit - i + 1]]
    BY DEF DatesOf
  <1> HIDE DEF ids
  <1>3. DOMAIN ids = 1 .. n /\ \A i \in 1 .. n : ids[i] \in ShelfTracks
    BY ONLY <1>1
  <1> HIDE DEF n
  <1>4. \A i \in 1 .. n : Limit - i + 1 \in Nat
    BY ONLY <1>1, LimitIs
  <1>5. \A i \in 1 .. n : [track |-> ids[i], count |-> Limit - i + 1] \in S!Entry
    BY ONLY <1>3, <1>4 DEF S!Entry
  <1>6. r \in [1 .. n -> S!Entry]
    BY ONLY <1>2, <1>5
  <1>7. r \in Seq(S!Entry) /\ Len(r) = n
    BY ONLY <1>1, <1>6
  <1>8. \A k \in 1 .. n : r[k].track = ids[k] /\ r[k].count = Limit - k + 1
    BY ONLY <1>2
  <1>9. Falling(r)
    <2>1. ASSUME NEW k \in 1 .. n, NEW l \in 1 .. n, k < l
          PROVE  Limit - k + 1 >= Limit - l + 1
      BY ONLY <1>1, <2>1, LimitIs
    <2> QED
      BY ONLY <1>7, <1>8, <2>1 DEF Falling
  <1>10. Cardinality(TracksIn(r)) = n
    <2>1. \A k, l \in 1 .. Len(r) : r[k].track = r[l].track => k = l
      BY ONLY <1>1, <1>7, <1>8
    <2> QED
      BY ONLY <1>7, <2>1, DifferentTracks
  <1>11. TracksIn(r) = ToSet(ids)
    <2>1. \A x : x \in ToSet(ids) <=> \E k \in 1 .. n : ids[k] = x
      BY ONLY <1>3, InList
    <2>2. \A x : x \in TracksIn(r) <=> \E k \in 1 .. n : ids[k] = x
      BY ONLY <1>7, <1>8, TracksListed
    <2> QED
      BY ONLY <2>1, <2>2
  <1> QED
    BY <1>1, <1>7, <1>9, <1>10, <1>11 DEF Choice, ByDates, Fills

LEMMA RankedBest ==
    ASSUME NEW fav \in Seq(ShelfTracks), NEW plays \in Seq(ShelfTracks),
           NEW entries, EntriesSound(entries)
    PROVE  Best(S!Ranked(fav, entries, plays), fav, entries, plays)
  <1> DEFINE known == S!First(KnownList(fav, entries), Limit)
             local == S!First(ByCount(PairsOf(HeardOf(fav, plays), plays)), Limit)
             latest == DatesOf(RecentIds(fav))
  <1>1. S!Ranked(fav, entries, plays) =
            IF known # << >> THEN known ELSE IF local # << >> THEN local ELSE latest
    BY SameMembers DEF S!Ranked, S!LocalCounts, S!RecentlyAdded, S!Where,
        KnownList, PairsOf, HeardOf, ByCount, DatesOf, RecentIds
  <1>2. /\ Choice(known, fav) /\ ByAnalytics(known, fav, entries)
        /\ known # << >> <=> KnownOf(fav, entries) # {}
    BY KnownFirst
  <1>3. /\ Choice(local, fav) /\ ByPlays(local, fav, plays)
        /\ local # << >> <=> PlayedOf(fav, plays) # {}
    BY LocalFirst
  <1>4. Choice(latest, fav) /\ ByDates(latest, fav)
    BY DatesBest
  <1> HIDE DEF known, local, latest
  <1> QED
    BY ONLY <1>1, <1>2, <1>3, <1>4 DEF Best

-----------------------------------------------------------------------------
(* The popular favorites shown *)

\* PopularIsCurrent, of a page with these favorites, entries and choice.
Current(fav, entries, popular, gone, plays) ==
    LET seen == TracksIn(popular) \cup gone
        known == KnownOf(fav, entries)
        played == PlayedOf(fav, plays)
        full(T) == Cardinality(seen) = S!Lesser(Cardinality(T), Limit)
    IN  /\ seen \subseteq ToSet(fav) /\ Falling(popular)
        /\ IF known # {} THEN ToSet(popular) \subseteq known /\ seen = {e.track : e \in known}
           ELSE IF played # {}
           THEN /\ full(played)
                /\ \A p \in ToSet(popular) :
                     /\ p.count = S!Times(p.track, plays)
                     /\ \A t \in played : S!Times(t, plays) > p.count => t \in seen
           ELSE full(ToSet(fav)) /\ (ToSet(fav) # {} => fav[Len(fav)] \in seen)

\* The tracks of the best choice, but for those whose request failed.
LEMMA ShownCurrent ==
    ASSUME NEW fav \in Seq(ShelfTracks), NEW entries, NEW plays \in Seq(ShelfTracks),
           NEW want, Best(want, fav, entries, plays),
           NEW gone, gone \subseteq TracksIn(want),
           NEW r, r = S!Kept(want, {i \in 1 .. Len(want) : want[i].track \notin gone})
    PROVE  r \in Seq(S!Entry) /\ Current(fav, entries, r, gone, plays)
  <1> DEFINE I == {i \in 1 .. Len(want) : want[i].track \notin gone}
  <1>1. Choice(want, fav)
    BY DEF Best
  <1>2. want \in Seq(S!Entry) /\ Falling(want) /\ TracksIn(want) \subseteq ToSet(fav)
    BY ONLY <1>1 DEF Choice
  <1>3. I \in SUBSET (1 .. Len(want)) /\ \A i \in 1 .. Len(want) : i \in I <=> want[i].track \notin gone
    OBVIOUS
  <1>4. r = S!Kept(want, I)
    OBVIOUS
  <1> HIDE DEF I
  <1>5. r \in Seq(S!Entry) /\ Selects(want, I, r)
    BY ONLY <1>2, <1>3, <1>4, KeptParts
  <1>6. Falling(r)
    BY ONLY <1>2, <1>3, <1>5, KeptFalls
  <1>7. \A e : e \in ToSet(r) <=> e \in ToSet(want) /\ e.track \notin gone
    <2>1. \A e : e \in ToSet(r) <=> \E i \in I : want[i] = e
      BY <1>5 DEF Selects, Spans
    <2>2. \A e : e \in ToSet(want) <=> \E i \in 1 .. Len(want) : want[i] = e
      BY <1>2, InList
    <2> QED
      BY ONLY <1>3, <2>1, <2>2
  <1>8. TracksIn(r) \cup gone = TracksIn(want)
    BY ONLY <1>7, gone \subseteq TracksIn(want) DEF TracksIn
  <1>9. CASE KnownOf(fav, entries) # {}
    <2>1. ToSet(want) = KnownOf(fav, entries)
      BY <1>9 DEF Best, ByAnalytics
    <2>3. TracksIn(want) = {e.track : e \in KnownOf(fav, entries)}
      BY ONLY <2>1 DEF TracksIn
    <2> QED
      BY ONLY <1>2, <1>5, <1>6, <1>7, <1>8, <1>9, <2>1, <2>3 DEF Current
  <1>10. CASE KnownOf(fav, entries) = {} /\ PlayedOf(fav, plays) # {}
    <2>1. ByPlays(want, fav, plays)
      BY <1>10 DEF Best
    <2> QED
      BY ONLY <1>2, <1>5, <1>6, <1>7, <1>8, <1>10, <2>1 DEF Current, ByPlays, Fills
  <1>11. CASE KnownOf(fav, entries) = {} /\ PlayedOf(fav, plays) = {}
    <2>1. ByDates(want, fav)
      BY <1>11 DEF Best
    <2> QED
      BY ONLY <1>2, <1>5, <1>6, <1>7, <1>8, <1>11, <2>1 DEF Current, ByDates, Fills
  <1> QED
    BY <1>9, <1>10, <1>11

\* Nothing is shown of no favorites.
LEMMA NoneCurrent ==
    ASSUME NEW entries, NEW plays
    PROVE  Current(<< >>, entries, << >>, {}, plays)
  <1>1. ToSet(<< >>) = {}
    BY InList
  <1>2. Falling(<< >>)
    BY DEF Falling
  <1>3. TracksIn(<< >>) = {} /\ KnownOf(<< >>, entries) = {} /\ PlayedOf(<< >>, plays) = {}
    BY <1>1 DEF TracksIn, KnownOf, PlayedOf
  <1>4. Cardinality({}) = S!Lesser(Cardinality({}), Limit)
    BY FS_EmptySet, LimitIs DEF S!Lesser
  <1> QED
    BY ONLY <1>1, <1>2, <1>3, <1>4 DEF Current

LEMMA CurrentShows ==
    Current(shelf.fav, shelf.entries, shelf.popular, shelf.lost, history) => S!PopularIsCurrent
  <1> SUFFICES ASSUME Current(shelf.fav, shelf.entries, shelf.popular, shelf.lost, history)
               PROVE  S!PopularIsCurrent
    OBVIOUS
  <1>1. S!Known = KnownOf(shelf.fav, shelf.entries) /\ S!Wanted = TracksIn(shelf.popular)
    BY SameMembers DEF S!Known, S!Wanted, KnownOf, TracksIn
  <1>2. {t \in S!ToSet(shelf.fav) : S!Times(t, history) > 0} = PlayedOf(shelf.fav, history)
    BY SameMembers DEF PlayedOf
  <1> QED
    BY <1>1, <1>2, SameMembers, SameSizes DEF S!PopularIsCurrent, Current, S!IsSorted, Falling

-----------------------------------------------------------------------------
(* The shelves of playlists *)

\* The first of a sorted list: who is left out has no greater key.
Tops(seq, r, a) ==
    /\ Len(r) \in Nat /\ \A k \in 1 .. Len(r) : \E j \in 1 .. Len(seq) : r[k] = seq[j]
    /\ \A i \in 1 .. Len(seq) : seq[i] \in ToSet(r) \/
         \A k \in 1 .. Len(r) : \E j \in 1 .. Len(seq) : r[k] = seq[j] /\ a[j] >= a[i]

LEMMA TopsFirst ==
    ASSUME NEW X, NEW seq \in Seq(X), NEW s \in Seq(X), NEW a, Falls(seq, s, a),
           NEW r, r = S!First(s, Limit)
    PROVE  r \in Seq(X) /\ Tops(seq, r, a)
  <1>1. PICK o \in [1 .. Len(seq) -> 1 .. Len(seq)] :
         /\ \A k, l \in 1 .. Len(seq) : k < l => a[o[k]] >= a[o[l]]
         /\ \A k, l \in 1 .. Len(seq) : o[k] = o[l] => k = l
         /\ \A k \in 1 .. Len(seq) : s[k] = seq[o[k]]
    BY DEF Falls
  <1>2. Len(s) = Len(seq) /\ ToSet(s) = ToSet(seq) /\ Len(seq) \in Nat
    BY DEF Falls
  <1>3. /\ r \in Seq(X) /\ Len(r) \in Nat /\ Len(r) <= Len(s)
        /\ \A k \in 1 .. Len(r) : r[k] = s[k]
    BY ONLY s \in Seq(X), r = S!First(s, Limit), FirstParts
  <1>4. \A k \in 1 .. Len(r) : k \in 1 .. Len(seq)
    BY ONLY <1>2, <1>3
  <1>5. \A k \in 1 .. Len(seq) : o[k] \in 1 .. Len(seq)
    BY ONLY <1>1
  <1>6. ASSUME NEW i \in 1 .. Len(seq), seq[i] \notin ToSet(r), NEW k \in 1 .. Len(r)
        PROVE  \E j \in 1 .. Len(seq) : r[k] = seq[j] /\ a[j] >= a[i]
    <2>1. Len(s) \in Nat /\ DOMAIN s = 1 .. Len(s) /\ DOMAIN r = 1 .. Len(r)
      BY <1>2, <1>3
    <2>2. o \in Surjection(1 .. Len(seq), 1 .. Len(seq))
      <3>1. IsFiniteSet(1 .. Len(seq))
        BY ONLY <1>2, UpTo
      <3>2. o \in Injection(1 .. Len(seq), 1 .. Len(seq))
        BY ONLY <1>1 DEF Injection, IsInjective
      <3> QED
        BY ONLY <3>1, <3>2, FS_Injection
    <2>3. PICK l \in 1 .. Len(seq) : o[l] = i
      BY <2>2 DEF Surjection
    <2>4. s[l] = seq[i]
      BY <1>1, <2>3
    <2>5. l \notin 1 .. Len(r)
      <3>1. \A m \in 1 .. Len(r) : r[m] \in ToSet(r)
        BY ONLY <2>1, InList
      <3> QED
        BY <1>3, <1>6, <2>4, <3>1
    <2>6. k \in 1 .. Len(seq) /\ k < l
      BY ONLY <1>2, <1>3, <1>4, <2>5, k \in 1 .. Len(r), l \in 1 .. Len(seq)
    <2>7. a[o[k]] >= a[o[l]]
      BY ONLY <1>1, <2>6, l \in 1 .. Len(seq)
    <2>8. r[k] = seq[o[k]]
      BY ONLY <1>1, <1>3, <2>6, k \in 1 .. Len(r)
    <2> QED
      BY ONLY <1>5, <2>3, <2>6, <2>7, <2>8
  <1>7. \A k \in 1 .. Len(r) : \E j \in 1 .. Len(seq) : r[k] = seq[j]
    BY ONLY <1>1, <1>3, <1>4, <1>5
  <1> QED
    BY ONLY <1>3, <1>6, <1>7 DEF Tops

\* What is left of a list of playlists.
LEMMA KeptPlaylists ==
    ASSUME NEW seq \in Seq(S!Playlist), NEW I \in SUBSET (1 .. Len(seq)),
           NEW r, r = S!Kept(seq, I)
    PROVE  /\ r \in Seq(S!Playlist) /\ Len(r) \in Nat
           /\ \A p : p \in ToSet(r) <=> \E i \in I : seq[i] = p
  <1>1. r \in Seq(S!Playlist) /\ Selects(seq, I, r)
    BY KeptParts
  <1> QED
    BY <1>1 DEF Selects, Spans

Own(list) == S!Kept(list, {i \in 1 .. Len(list) : ~S!System(list[i])})
Looking(own) == S!Kept(own, {i \in 1 .. Len(own) : S!LooksCurated(own[i])})
Listable(list) == S!Kept(list, {i \in 1 .. Len(list) : list[i].kind # "legacy"})
Admins(list) == S!Kept(list, {i \in 1 .. Len(list) : S!Featured(list[i])})

LEMMA OwnParts ==
    ASSUME NEW list \in Seq(S!Playlist), NEW r, r = Own(list)
    PROVE  r \in Seq(S!Playlist) /\ \A p : p \in ToSet(r) <=> p \in ToSet(list) /\ ~S!System(p)
  <1> DEFINE I == {i \in 1 .. Len(list) : ~S!System(list[i])}
  <1>1. I \in SUBSET (1 .. Len(list)) /\ \A i \in 1 .. Len(list) : i \in I <=> ~S!System(list[i])
    OBVIOUS
  <1>2. r = S!Kept(list, I)
    BY DEF Own
  <1> HIDE DEF I
  <1>3. r \in Seq(S!Playlist) /\ \A p : p \in ToSet(r) <=> \E i \in I : list[i] = p
    <2>1. I \in SUBSET (1 .. Len(list))
      BY ONLY <1>1
    <2> QED
      BY ONLY <2>1, <1>2, KeptPlaylists, list \in Seq(S!Playlist)
  <1>4. \A p : p \in ToSet(list) <=> \E i \in 1 .. Len(list) : list[i] = p
    BY InList
  <1> QED
    BY ONLY <1>1, <1>3, <1>4

LEMMA LookingParts ==
    ASSUME NEW list \in Seq(S!Playlist), NEW r, r = Looking(list)
    PROVE  r \in Seq(S!Playlist) /\ \A p : p \in ToSet(r) <=> p \in ToSet(list) /\ S!LooksCurated(p)
  <1> DEFINE I == {i \in 1 .. Len(list) : S!LooksCurated(list[i])}
  <1>1. I \in SUBSET (1 .. Len(list)) /\ \A i \in 1 .. Len(list) : i \in I <=> S!LooksCurated(list[i])
    OBVIOUS
  <1>2. r = S!Kept(list, I)
    BY DEF Looking
  <1> HIDE DEF I
  <1>3. r \in Seq(S!Playlist) /\ \A p : p \in ToSet(r) <=> \E i \in I : list[i] = p
    <2>1. I \in SUBSET (1 .. Len(list))
      BY ONLY <1>1
    <2> QED
      BY ONLY <2>1, <1>2, KeptPlaylists, list \in Seq(S!Playlist)
  <1>4. \A p : p \in ToSet(list) <=> \E i \in 1 .. Len(list) : list[i] = p
    BY InList
  <1> QED
    BY ONLY <1>1, <1>3, <1>4

LEMMA ListableParts ==
    ASSUME NEW list \in Seq(S!Playlist), NEW r, r = Listable(list)
    PROVE  r \in Seq(S!Playlist) /\ \A p : p \in ToSet(r) <=> p \in ToSet(list) /\ p.kind # "legacy"
  <1> DEFINE I == {i \in 1 .. Len(list) : list[i].kind # "legacy"}
  <1>1. I \in SUBSET (1 .. Len(list)) /\ \A i \in 1 .. Len(list) : i \in I <=> list[i].kind # "legacy"
    OBVIOUS
  <1>2. r = S!Kept(list, I)
    BY DEF Listable
  <1> HIDE DEF I
  <1>3. r \in Seq(S!Playlist) /\ \A p : p \in ToSet(r) <=> \E i \in I : list[i] = p
    <2>1. I \in SUBSET (1 .. Len(list))
      BY ONLY <1>1
    <2> QED
      BY ONLY <2>1, <1>2, KeptPlaylists, list \in Seq(S!Playlist)
  <1>4. \A p : p \in ToSet(list) <=> \E i \in 1 .. Len(list) : list[i] = p
    BY InList
  <1> QED
    BY ONLY <1>1, <1>3, <1>4

LEMMA AdminParts ==
    ASSUME NEW list \in Seq(S!Playlist), NEW r, r = Admins(list)
    PROVE  r \in Seq(S!Playlist) /\ \A p : p \in ToSet(r) <=> p \in ToSet(list) /\ S!Featured(p)
  <1> DEFINE I == {i \in 1 .. Len(list) : S!Featured(list[i])}
  <1>1. I \in SUBSET (1 .. Len(list)) /\ \A i \in 1 .. Len(list) : i \in I <=> S!Featured(list[i])
    OBVIOUS
  <1>2. r = S!Kept(list, I)
    BY DEF Admins
  <1> HIDE DEF I
  <1>3. r \in Seq(S!Playlist) /\ \A p : p \in ToSet(r) <=> \E i \in I : list[i] = p
    BY ONLY <1>1, <1>2, KeptPlaylists, list \in Seq(S!Playlist)
  <1>4. \A p : p \in ToSet(list) <=> \E i \in 1 .. Len(list) : list[i] = p
    BY InList
  <1> QED
    BY ONLY <1>1, <1>3, <1>4

\* What a page may choose of a list as curated.
FairCurated(list, r) ==
    /\ r \in Seq(S!Playlist)
    /\ \A q \in ToSet(r) : q \in ToSet(list) /\ ~S!System(q)
    /\ \A p \in ToSet(list), q \in ToSet(r) :
         S!LooksCurated(p) /\ (~S!LooksCurated(q) \/ S!Score(p) > S!Score(q)) => p \in ToSet(r)

LEMMA CuratedFair ==
    ASSUME NEW list \in Seq(S!Playlist), NEW r, r = S!Curated(list)
    PROVE  FairCurated(list, r)
  <1> DEFINE own == Own(list)
             found == Looking(own)
  <1>1. r = S!First(IF found # << >> THEN ByScore(found) ELSE ByLength(own), Limit)
    BY DEF S!Curated, S!Where, Own, Looking, ByScore, ByLength
  <1>2. own \in Seq(S!Playlist) /\ \A p : p \in ToSet(own) <=> p \in ToSet(list) /\ ~S!System(p)
    BY OwnParts
  <1> HIDE DEF own
  <1>3. found \in Seq(S!Playlist) /\ \A p : p \in ToSet(found) <=> p \in ToSet(own) /\ S!LooksCurated(p)
    BY ONLY <1>2, LookingParts
  <1> HIDE DEF found
  <1>4. \A p : S!LooksCurated(p) => ~S!System(p)
    BY ONLY TRUE DEF S!LooksCurated, S!System
  <1>5. CASE found # << >>
    <2> DEFINE s == ByScore(found)
               a == [i \in 1 .. Len(found) |-> S!Score(found[i])]
    <2>1. r = S!First(s, Limit)
      BY <1>1, <1>5
    <2>2. s \in Seq(S!Playlist) /\ Falls(found, s, a)
      BY ONLY <1>3, ScoreSorted
    <2>3. \A i \in 1 .. Len(found) : a[i] = S!Score(found[i]) /\ a[i] \in Nat
      <3>1. \A i \in 1 .. Len(found) : found[i] \in S!Playlist
        BY ONLY <1>3
      <3> QED
        BY <3>1, PlaylistParts
    <2> HIDE DEF s, a
    <2>4. r \in Seq(S!Playlist) /\ Tops(found, r, a)
      BY ONLY <1>3, <2>1, <2>2, TopsFirst
    <2>5. \A x : x \in ToSet(found) <=> \E i \in 1 .. Len(found) : found[i] = x
      BY ONLY <1>3, InList, DOMAIN found = 1 .. Len(found)
    <2>6. \A x : x \in ToSet(r) <=> \E i \in 1 .. Len(r) : r[i] = x
      BY ONLY <2>4, InList, DOMAIN r = 1 .. Len(r)
    <2>7. \A q \in ToSet(r) : q \in ToSet(found)
      BY ONLY <2>4, <2>5, <2>6 DEF Tops
    <2>8. ASSUME NEW p \in ToSet(found), NEW q \in ToSet(r), p \notin ToSet(r)
          PROVE  ~(S!Score(p) > S!Score(q))
      <3>1. PICK i \in 1 .. Len(found) : found[i] = p
        BY <2>5
      <3>2. PICK k \in 1 .. Len(r) : r[k] = q
        BY <2>6
      <3>3. PICK j \in 1 .. Len(found) : r[k] = found[j] /\ a[j] >= a[i]
        BY <2>4, <2>8, <3>1 DEF Tops
      <3> QED
        BY <2>3, <3>1, <3>2, <3>3
    <2> QED
      BY ONLY <1>2, <1>3, <1>4, <2>4, <2>7, <2>8 DEF FairCurated
  <1>6. CASE found = << >>
    <2> DEFINE s == ByLength(own)
    <2>1. r = S!First(s, Limit)
      BY <1>1, <1>6
    <2>2. s \in Seq(S!Playlist) /\ ToSet(s) = ToSet(own)
      BY ONLY <1>2, LengthSorted
    <2> HIDE DEF s
    <2>3. r \in Seq(S!Playlist) /\ Len(r) <= Len(s) /\ \A k \in 1 .. Len(r) : r[k] = s[k]
      BY ONLY <2>1, <2>2, FirstParts
    <2>4. \A q \in ToSet(r) : q \in ToSet(own)
      <3>1. \A x : x \in ToSet(s) <=> \E i \in 1 .. Len(s) : s[i] = x
        BY ONLY <2>2, InList, DOMAIN s = 1 .. Len(s)
      <3>2. \A x : x \in ToSet(r) <=> \E i \in 1 .. Len(r) : r[i] = x
        BY ONLY <2>3, InList, DOMAIN r = 1 .. Len(r)
      <3>3. Len(r) \in Nat /\ Len(s) \in Nat
        BY ONLY <2>2, <2>3
      <3> QED
        BY ONLY <2>2, <2>3, <3>1, <3>2, <3>3
    <2>5. ToSet(found) = {}
      BY ONLY <1>3, <1>6, SomeMember
    <2>6. \A p \in ToSet(list) : ~S!LooksCurated(p)
      BY ONLY <1>2, <1>3, <1>4, <2>5
    <2> QED
      BY ONLY <1>2, <2>3, <2>4, <2>6 DEF FairCurated
  <1> QED
    BY <1>5, <1>6

\* What the sidebar may show of a list.
FairSide(list, r) ==
    /\ r \in Seq(S!Playlist)
    /\ \A q \in ToSet(r) : q \in ToSet(list) /\ q.kind # "legacy"
    /\ \A p \in ToSet(list), q \in ToSet(r) :
         p.kind = "favorites" /\ p \notin ToSet(r) => q.kind = "favorites"

LEMMA SideFair ==
    ASSUME NEW list \in Seq(S!Playlist), NEW r, r = S!SideList(list)
    PROVE  FairSide(list, r)
  <1> DEFINE seq == Listable(list)
             s == ByLead(seq)
             a == [i \in 1 .. Len(seq) |-> IF seq[i].kind = "favorites" THEN 1 ELSE 0]
  <1>1. r = S!First(s, Limit)
    BY DEF S!SideList, S!Where, Listable, ByLead
  <1>2. seq \in Seq(S!Playlist) /\ \A p : p \in ToSet(seq) <=> p \in ToSet(list) /\ p.kind # "legacy"
    BY ListableParts
  <1> HIDE DEF seq
  <1>3. s \in Seq(S!Playlist) /\ Falls(seq, s, a)
    BY ONLY <1>2, LeadSorted
  <1>4. \A i \in 1 .. Len(seq) : a[i] = IF seq[i].kind = "favorites" THEN 1 ELSE 0
    OBVIOUS
  <1> HIDE DEF s, a
  <1>5. r \in Seq(S!Playlist) /\ Tops(seq, r, a)
    BY ONLY <1>1, <1>2, <1>3, TopsFirst
  <1>6. \A x : x \in ToSet(seq) <=> \E i \in 1 .. Len(seq) : seq[i] = x
    BY ONLY <1>2, InList, DOMAIN seq = 1 .. Len(seq)
  <1>7. \A x : x \in ToSet(r) <=> \E i \in 1 .. Len(r) : r[i] = x
    BY ONLY <1>5, InList, DOMAIN r = 1 .. Len(r)
  <1>8. \A q \in ToSet(r) : q \in ToSet(seq)
    BY ONLY <1>5, <1>6, <1>7 DEF Tops
  <1>9. ASSUME NEW p \in ToSet(seq), NEW q \in ToSet(r), p.kind = "favorites", p \notin ToSet(r)
        PROVE  q.kind = "favorites"
    <2>1. PICK i \in 1 .. Len(seq) : seq[i] = p
      BY <1>6
    <2>2. PICK k \in 1 .. Len(r) : r[k] = q
      BY <1>7
    <2>3. PICK j \in 1 .. Len(seq) : r[k] = seq[j] /\ a[j] >= a[i]
      BY <1>5, <1>9, <2>1 DEF Tops
    <2> QED
      BY <1>4, <1>9, <2>1, <2>2, <2>3
  <1> QED
    BY ONLY <1>2, <1>5, <1>8, <1>9 DEF FairSide

FeaturedIn(list) == UNION {ToSet(p.tracks) : p \in {q \in ToSet(list) : S!Featured(q)}}

\* The albums r are those of the tracks looked at, of these in all, but for the missed.
Covers(r, looked, all, missed) ==
    /\ looked \in SUBSET all /\ Cardinality(looked) = S!Lesser(Cardinality(all), MaxFeatured)
    /\ ToSet(r) \subseteq {S!AlbumOf(t) : t \in looked \ missed}
    /\ Len(r) < Limit => {S!AlbumOf(t) : t \in looked \ missed} \subseteq ToSet(r)

\* What a page may show of a list as featured albums.
FairAlbums(list, missed, r) ==
    /\ r \in Seq(Nat) /\ Len(r) \in Nat /\ Cardinality(ToSet(r)) = Len(r)
    /\ \E looked : Covers(r, looked, FeaturedIn(list), missed)

\* The places of the tracks in some playlists.
Spots(admin) == UNION {{i} \X (1 .. Len(admin[i].tracks)) : i \in 1 .. Len(admin)}
SpotOrder(T) == {q \in T \X T : q[1][1] < q[2][1] \/ (q[1][1] = q[2][1] /\ q[1][2] < q[2][2])}
TrackAt(admin, q) == admin[q[1]].tracks[q[2]]

LEMMA SpotsAre ==
    ASSUME NEW admin \in Seq(S!Playlist)
    PROVE  /\ \A q \in Spots(admin) : /\ q = <<q[1], q[2]>> /\ q[1] \in 1 .. Len(admin)
                                      /\ q[2] \in 1 .. Len(admin[q[1]].tracks)
           /\ \A i \in 1 .. Len(admin), j \in Nat :
                j \in 1 .. Len(admin[i].tracks) => <<i, j>> \in Spots(admin)
           /\ IsFiniteSet(Spots(admin))
  <1> DEFINE Row(i) == {i} \X (1 .. Len(admin[i].tracks))
             rows == {Row(i) : i \in 1 .. Len(admin)}
  <1>1. Spots(admin) = UNION rows
    BY DEF Spots
  <1>2. Len(admin) \in Nat
    OBVIOUS
  <1>3. \A i \in 1 .. Len(admin) : Len(admin[i].tracks) \in Nat
    <2>1. \A i \in 1 .. Len(admin) : admin[i] \in S!Playlist
      OBVIOUS
    <2> QED
      BY <2>1, PlaylistParts
  <1>4. ASSUME NEW i \in 1 .. Len(admin)
        PROVE  IsFiniteSet(Row(i))
    <2> DEFINE n == Len(admin[i].tracks)
    <2>1. n \in Nat
      BY <1>3
    <2> HIDE DEF n
    <2>2. IsFiniteSet(1 .. n) /\ IsFiniteSet({i})
      BY ONLY <2>1, UpTo, FS_Singleton
    <2>3. IsFiniteSet({i} \X (1 .. n))
      BY ONLY <2>2, FS_Product
    <2> QED
      BY <2>3 DEF n
  <1> HIDE DEF Row
  <1>5. IsFiniteSet(rows)
    <2>1. IsFiniteSet(1 .. Len(admin))
      BY ONLY <1>2, UpTo
    <2> DEFINE f == [i \in 1 .. Len(admin) |-> Row(i)]
    <2>2. f \in Surjection(1 .. Len(admin), rows)
      <3>1. f \in [1 .. Len(admin) -> rows] /\ \A i \in 1 .. Len(admin) : f[i] = Row(i)
        OBVIOUS
      <3>2. \A x \in rows : \E i \in 1 .. Len(admin) : Row(i) = x
        OBVIOUS
      <3> QED
        BY ONLY <3>1, <3>2 DEF Surjection
    <2> QED
      BY ONLY <2>1, <2>2, FS_Surjection
  <1>6. IsFiniteSet(UNION rows)
    BY ONLY <1>4, <1>5, FS_UNION
  <1>7. \A q : q \in UNION rows <=> \E i \in 1 .. Len(admin) : q \in Row(i)
    OBVIOUS
  <1>8. \A i, q : q \in Row(i) <=> /\ q = <<q[1], q[2]>> /\ q[1] = i
                                   /\ q[2] \in 1 .. Len(admin[i].tracks)
    BY DEF Row
  <1>9. \A i, j : <<i, j>> \in Row(i) <=> j \in 1 .. Len(admin[i].tracks)
    BY DEF Row
  <1> QED
    BY ONLY <1>1, <1>6, <1>7, <1>8, <1>9

LEMMA SpotsInOrder ==
    ASSUME NEW admin \in Seq(S!Playlist)
    PROVE  Orders(Spots(admin), SpotOrder(Spots(admin)))
  <1> DEFINE T == Spots(admin)
             R == SpotOrder(T)
  <1>1. \A q \in T : q = <<q[1], q[2]>> /\ q[1] \in Nat /\ q[2] \in Nat
    <2>1. Len(admin) \in Nat
      OBVIOUS
    <2>2. \A i \in 1 .. Len(admin) : Len(admin[i].tracks) \in Nat
      <3>1. \A i \in 1 .. Len(admin) : admin[i] \in S!Playlist
        OBVIOUS
      <3> QED
        BY <3>1, PlaylistParts
    <2>3. \A q \in T : /\ q = <<q[1], q[2]>> /\ q[1] \in 1 .. Len(admin)
                       /\ q[2] \in 1 .. Len(admin[q[1]].tracks)
      BY SpotsAre
    <2> HIDE DEF T
    <2> QED
      BY ONLY <2>1, <2>2, <2>3
  <1>2. \A x, y \in T : <<x, y>> \in R <=> x[1] < y[1] \/ (x[1] = y[1] /\ x[2] < y[2])
    BY DEF SpotOrder
  <1> HIDE DEF T, R
  <1>3. \A x, y \in T : x[1] = y[1] /\ x[2] = y[2] => x = y
    BY ONLY <1>1
  <1>4. \A x, y \in T : x # y => <<x, y>> \in R \/ <<y, x>> \in R
    BY ONLY <1>1, <1>2, <1>3
  <1>5. \A x \in T : <<x, x>> \notin R
    BY ONLY <1>1, <1>2
  <1>6. ASSUME NEW x \in T, NEW y \in T, NEW z \in T, <<x, y>> \in R, <<y, z>> \in R
        PROVE  <<x, z>> \in R
    BY ONLY <1>1, <1>2, <1>6
  <1> QED
    BY ONLY <1>4, <1>5, <1>6 DEF Orders, T, R

TrackList(admin) ==
    [k \in 1 .. S!Cardinality(Spots(admin)) |->
        TrackAt(admin, S!InOrder(Spots(admin), SpotOrder(Spots(admin)))[k])]

LEMMA AlbumKinds == \A t \in ShelfTracks : S!AlbumOf(t) \in Nat
  <1>1. \A t \in ShelfTracks : t \in Nat
    BY PagesConstants DEF S!ShelvesAssumption
  <1>2. \A t \in Nat : (t + 1) \div 2 \in Nat
    OBVIOUS
  <1> QED
    BY <1>1, <1>2 DEF S!AlbumOf

LEMMA TrackListParts ==
    ASSUME NEW admin \in Seq(S!Playlist), NEW s, s = TrackList(admin)
    PROVE  /\ s \in Seq(ShelfTracks)
           /\ \A x : x \in ToSet(s) <=> \E q \in Spots(admin) : TrackAt(admin, q) = x
  <1> DEFINE T == Spots(admin)
             R == SpotOrder(T)
             n == Cardinality(T)
             o == S!InOrder(T, R)
  <1>1. IsFiniteSet(T) /\ Orders(T, R)
    BY SpotsAre, SpotsInOrder
  <1>2. s = [k \in 1 .. n |-> TrackAt(admin, o[k])]
    BY SameSizes DEF TrackList
  <1>3. \A q \in T : TrackAt(admin, q) \in ShelfTracks
    <2>1. ASSUME NEW q \in T
          PROVE  TrackAt(admin, q) \in ShelfTracks
      <3>1. q[1] \in 1 .. Len(admin) /\ q[2] \in 1 .. Len(admin[q[1]].tracks)
        BY SpotsAre
      <3>2. admin[q[1]] \in S!Playlist
        BY <3>1
      <3>3. admin[q[1]].tracks \in Seq(ShelfTracks)
        BY <3>2, PlaylistParts
      <3>4. admin[q[1]].tracks[q[2]] \in ShelfTracks
        BY ONLY <3>1, <3>3
      <3> QED
        BY ONLY <3>4 DEF TrackAt
    <2> QED
      BY <2>1
  <1> HIDE DEF T, R
  <1>4. /\ n \in Nat /\ o \in [1 .. n -> T]
        /\ \A i \in T : \E k \in 1 .. n : o[k] = i
    BY ONLY <1>1, Listed
  <1> HIDE DEF n, o
  <1>5. \A k \in 1 .. n : o[k] \in T
    BY ONLY <1>4
  <1>6. s \in [1 .. n -> ShelfTracks] /\ \A k \in 1 .. n : s[k] = TrackAt(admin, o[k])
    BY ONLY <1>2, <1>3, <1>5
  <1>7. s \in Seq(ShelfTracks) /\ DOMAIN s = 1 .. n
    BY ONLY <1>4, <1>6
  <1>8. ASSUME NEW x
        PROVE  x \in ToSet(s) <=> \E q \in T : TrackAt(admin, q) = x
    <2>1. x \in ToSet(s) <=> \E k \in 1 .. n : s[k] = x
      BY ONLY <1>7, InList
    <2> QED
      BY ONLY <1>4, <1>5, <1>6, <2>1
  <1> QED
    BY ONLY <1>7, <1>8 DEF T

\* The tracks of the featured playlists, and no others, are listed.
LEMMA FeaturedListed ==
    ASSUME NEW list \in Seq(S!Playlist), NEW s, s = S!TracksInOrder(Admins(list))
    PROVE  s \in Seq(ShelfTracks) /\ ToSet(s) = FeaturedIn(list)
  <1> DEFINE admin == Admins(list)
  <1>1. s = TrackList(admin)
    BY DEF S!TracksInOrder, TrackList, TrackAt, Spots, SpotOrder
  <1>2. admin \in Seq(S!Playlist) /\ \A p : p \in ToSet(admin) <=> p \in ToSet(list) /\ S!Featured(p)
    BY AdminParts
  <1> HIDE DEF admin
  <1>3. s \in Seq(ShelfTracks) /\ \A x : x \in ToSet(s) <=> \E q \in Spots(admin) : TrackAt(admin, q) = x
    BY ONLY <1>1, <1>2, TrackListParts
  <1>4. ASSUME NEW q \in Spots(admin)
        PROVE  TrackAt(admin, q) \in FeaturedIn(list)
    <2>1. q[1] \in 1 .. Len(admin) /\ q[2] \in 1 .. Len(admin[q[1]].tracks)
      BY <1>2, SpotsAre
    <2>2. admin[q[1]] \in ToSet(admin) /\ admin[q[1]] \in S!Playlist
      BY ONLY <1>2, <2>1, InList, DOMAIN admin = 1 .. Len(admin)
    <2>3. admin[q[1]].tracks \in Seq(ShelfTracks)
      BY ONLY <2>2, PlaylistParts
    <2>4. admin[q[1]].tracks[q[2]] \in ToSet(admin[q[1]].tracks)
      <3> DEFINE u == admin[q[1]].tracks
      <3>1. u \in Seq(ShelfTracks) /\ q[2] \in 1 .. Len(u)
        BY <2>1, <2>3
      <3> HIDE DEF u
      <3>2. DOMAIN u = 1 .. Len(u)
        BY ONLY <3>1
      <3>3. u[q[2]] \in ToSet(u)
        BY ONLY <3>1, <3>2, InList
      <3> QED
        BY <3>3 DEF u
    <2>5. admin[q[1]] \in ToSet(list) /\ S!Featured(admin[q[1]])
      BY ONLY <1>2, <2>2
    <2> QED
      BY ONLY <2>4, <2>5 DEF FeaturedIn, TrackAt
  <1>5. ASSUME NEW x \in FeaturedIn(list)
        PROVE  \E q \in Spots(admin) : TrackAt(admin, q) = x
    <2>1. PICK p \in ToSet(list) : S!Featured(p) /\ x \in ToSet(p.tracks)
      BY DEF FeaturedIn
    <2>2. p \in ToSet(admin)
      BY <1>2, <2>1
    <2>3. PICK i \in 1 .. Len(admin) : admin[i] = p
      BY ONLY <1>2, <2>2, InList, DOMAIN admin = 1 .. Len(admin)
    <2>4. p \in S!Playlist
      BY ONLY <1>2, <2>3
    <2>5. p.tracks \in Seq(ShelfTracks)
      BY ONLY <2>4, PlaylistParts
    <2>6. PICK j \in 1 .. Len(p.tracks) : p.tracks[j] = x
      BY ONLY <2>1, <2>5, InList, DOMAIN p.tracks = 1 .. Len(p.tracks)
    <2>7. j \in Nat /\ j \in 1 .. Len(admin[i].tracks)
      BY ONLY <2>3, <2>5, <2>6
    <2>8. <<i, j>> \in Spots(admin)
      BY ONLY <1>2, <2>7, SpotsAre
    <2>9. TrackAt(admin, <<i, j>>) = x
      BY ONLY <2>3, <2>6 DEF TrackAt
    <2> QED
      BY <2>8, <2>9
  <1> QED
    BY ONLY <1>3, <1>4, <1>5

\* The tracks looked at differ, and are as many as there are, or as are looked at.
LEMMA LookedParts ==
    ASSUME NEW list \in Seq(S!Playlist), NEW r, r = S!LookedAt(list)
    PROVE  /\ r \in Seq(ShelfTracks) /\ ToSet(r) \in SUBSET FeaturedIn(list)
           /\ Cardinality(ToSet(r)) = S!Lesser(Cardinality(FeaturedIn(list)), MaxFeatured)
  <1> DEFINE s == S!TracksInOrder(Admins(list))
             d == S!Distinct(s)
  <1>1. r = S!First(d, MaxFeatured)
    BY DEF S!LookedAt, S!Where, Admins
  <1>2. s \in Seq(ShelfTracks) /\ ToSet(s) = FeaturedIn(list)
    BY FeaturedListed
  <1> HIDE DEF s
  <1>3. /\ d \in Seq(ShelfTracks) /\ ToSet(d) = ToSet(s)
        /\ \A k, l \in 1 .. Len(d) : d[k] = d[l] => k = l
    BY ONLY <1>2, DistinctParts
  <1> HIDE DEF d
  <1>4. MaxFeatured \in Nat \ {0}
    BY PagesConstants DEF S!ShelvesAssumption
  <1>5. /\ r \in Seq(ShelfTracks) /\ Len(r) \in Nat /\ Len(r) = S!Lesser(Len(d), MaxFeatured)
        /\ Len(r) <= Len(d) /\ \A k \in 1 .. Len(r) : r[k] = d[k]
    BY ONLY <1>1, <1>3, <1>4, Shortened
  <1>6. Len(d) \in Nat /\ DOMAIN d = 1 .. Len(d) /\ DOMAIN r = 1 .. Len(r)
    BY ONLY <1>3, <1>5
  <1>7. \A x : x \in ToSet(d) <=> \E k \in 1 .. Len(d) : d[k] = x
    BY ONLY <1>6, InList
  <1>8. \A x : x \in ToSet(r) <=> \E k \in 1 .. Len(r) : r[k] = x
    BY ONLY <1>6, InList
  <1>9. Cardinality(ToSet(d)) = Len(d)
    BY ONLY <1>3, <1>6, <1>7, AsLongAsMany
  <1>10. Cardinality(ToSet(r)) = Len(r)
    <2>1. \A k, l \in 1 .. Len(r) : r[k] = r[l] => k = l
      BY ONLY <1>3, <1>5, <1>6
    <2> QED
      BY ONLY <1>5, <1>6, <1>8, <2>1, AsLongAsMany
  <1>11. ToSet(r) \subseteq ToSet(d)
    <2>1. \A k \in 1 .. Len(r) : k \in 1 .. Len(d)
      BY ONLY <1>5, <1>6
    <2> QED
      BY ONLY <1>5, <1>7, <1>8, <2>1
  <1> QED
    BY ONLY <1>2, <1>3, <1>5, <1>9, <1>10, <1>11

LEMMA AlbumsFair ==
    ASSUME NEW list \in Seq(S!Playlist), NEW missed, NEW r, r = S!AdminAlbums(list, missed)
    PROVE  FairAlbums(list, missed, r)
  <1> DEFINE looked == S!LookedAt(list)
             I == {i \in 1 .. Len(looked) : looked[i] \notin missed}
             got == S!Kept(looked, I)
             s == [k \in 1 .. Len(got) |-> S!AlbumOf(got[k])]
             d == S!Distinct(s)
  <1>1. r = S!First(d, Limit)
    BY DEF S!AdminAlbums, S!Where
  <1>2. /\ looked \in Seq(ShelfTracks) /\ ToSet(looked) \in SUBSET FeaturedIn(list)
        /\ Cardinality(ToSet(looked)) = S!Lesser(Cardinality(FeaturedIn(list)), MaxFeatured)
    BY LookedParts
  <1> HIDE DEF looked
  <1>3. I \in SUBSET (1 .. Len(looked)) /\ \A i \in 1 .. Len(looked) : i \in I <=> looked[i] \notin missed
    OBVIOUS
  <1> HIDE DEF I
  <1>4. got \in Seq(ShelfTracks) /\ \A x : x \in ToSet(got) <=> \E i \in I : looked[i] = x
    <2>1. got \in Seq(ShelfTracks) /\ Selects(looked, I, got)
      BY ONLY <1>2, <1>3, KeptParts
    <2> QED
      BY ONLY <2>1 DEF Selects, Spans
  <1>5. \A x : x \in ToSet(looked) <=> \E i \in 1 .. Len(looked) : looked[i] = x
    BY ONLY <1>2, InList, DOMAIN looked = 1 .. Len(looked)
  <1>6. ToSet(got) = ToSet(looked) \ missed
    BY ONLY <1>3, <1>4, <1>5
  <1> HIDE DEF got
  <1>7. /\ Len(got) \in Nat /\ DOMAIN got = 1 .. Len(got)
        /\ \A k \in 1 .. Len(got) : got[k] \in ShelfTracks
    BY ONLY <1>4
  <1>8. s \in [1 .. Len(got) -> Nat] /\ \A k \in 1 .. Len(got) : s[k] = S!AlbumOf(got[k])
    BY ONLY <1>7, AlbumKinds
  <1> HIDE DEF s
  <1>9. s \in Seq(Nat) /\ \A x : x \in ToSet(s) <=> \E k \in 1 .. Len(got) : s[k] = x
    <2> DEFINE n == Len(got)
    <2>1. n \in Nat /\ s \in [1 .. n -> Nat]
      BY ONLY <1>7, <1>8
    <2> HIDE DEF n
    <2>2. s \in Seq(Nat) /\ \A x : x \in ToSet(s) <=> \E k \in 1 .. n : s[k] = x
      BY ONLY <2>1, ListOf
    <2> QED
      BY <2>2 DEF n
  <1>10. \A t : t \in ToSet(got) <=> \E k \in 1 .. Len(got) : got[k] = t
    BY ONLY <1>7, InList
  <1>11. ToSet(s) = {S!AlbumOf(t) : t \in ToSet(looked) \ missed}
    BY ONLY <1>6, <1>8, <1>9, <1>10
  <1>12. /\ d \in Seq(Nat) /\ ToSet(d) = ToSet(s)
         /\ \A k, l \in 1 .. Len(d) : d[k] = d[l] => k = l
    BY ONLY <1>9, DistinctParts
  <1> HIDE DEF d
  <1>13. /\ r \in Seq(Nat) /\ Len(r) \in Nat /\ Len(r) = S!Lesser(Len(d), Limit)
         /\ Len(r) <= Len(d) /\ \A k \in 1 .. Len(r) : r[k] = d[k]
    BY ONLY <1>1, <1>12, FirstParts
  <1>14. Len(d) \in Nat /\ DOMAIN d = 1 .. Len(d) /\ DOMAIN r = 1 .. Len(r)
    BY ONLY <1>12, <1>13
  <1>15. \A x : x \in ToSet(d) <=> \E k \in 1 .. Len(d) : d[k] = x
    BY ONLY <1>14, InList
  <1>16. \A x : x \in ToSet(r) <=> \E k \in 1 .. Len(r) : r[k] = x
    BY ONLY <1>14, InList
  <1>17. ToSet(r) \subseteq ToSet(d)
    <2>1. \A k \in 1 .. Len(r) : k \in 1 .. Len(d)
      BY ONLY <1>13, <1>14
    <2> QED
      BY ONLY <1>13, <1>15, <1>16, <2>1
  <1>18. Cardinality(ToSet(r)) = Len(r)
    <2>1. \A k, l \in 1 .. Len(r) : r[k] = r[l] => k = l
      BY ONLY <1>12, <1>13, <1>14
    <2> QED
      BY ONLY <1>13, <1>14, <1>16, <2>1, AsLongAsMany
  <1>19. ASSUME Len(r) < Limit
         PROVE  ToSet(d) \subseteq ToSet(r)
    <2>1. Len(r) = IF Len(d) < Limit THEN Len(d) ELSE Limit
      BY ONLY <1>13 DEF S!Lesser
    <2>2. Len(d) \in Nat /\ Limit \in Nat
      BY ONLY <1>14, LimitIs
    <2>3. Len(r) = Len(d)
      BY ONLY <1>19, <2>1, <2>2
    <2> QED
      BY ONLY <1>13, <1>15, <1>16, <2>3
  <1>20. Covers(r, ToSet(looked), FeaturedIn(list), missed)
    BY ONLY <1>2, <1>11, <1>12, <1>17, <1>19 DEF Covers
  <1> QED
    BY ONLY <1>13, <1>18, <1>20 DEF FairAlbums

\* The ids of some playlists.
LEMMA IdsParts ==
    ASSUME NEW seq \in Seq(S!Playlist), NEW r, r = S!IdsOf(seq)
    PROVE  r \in Seq(Nat) /\ \A id : id \in ToSet(r) <=> \E p \in ToSet(seq) : p.id = id
  <1>1. Len(seq) \in Nat /\ DOMAIN seq = 1 .. Len(seq)
    OBVIOUS
  <1>2. r = [i \in 1 .. Len(seq) |-> seq[i].id]
    BY DEF S!IdsOf
  <1>3. \A i \in 1 .. Len(seq) : seq[i].id \in Nat
    <2>1. \A i \in 1 .. Len(seq) : seq[i] \in S!Playlist
      OBVIOUS
    <2> QED
      BY <2>1, PlaylistParts
  <1>4. r \in Seq(Nat) /\ DOMAIN r = 1 .. Len(seq) /\ \A i \in 1 .. Len(seq) : r[i] = seq[i].id
    BY ONLY <1>1, <1>2, <1>3
  <1>5. \A id : id \in ToSet(r) <=> \E i \in 1 .. Len(seq) : r[i] = id
    BY ONLY <1>4, InList
  <1>6. \A p : p \in ToSet(seq) <=> \E i \in 1 .. Len(seq) : seq[i] = p
    BY ONLY <1>1, InList
  <1> QED
    BY ONLY <1>4, <1>5, <1>6

-----------------------------------------------------------------------------
(* The playlists an earlier answer listed *)

\* The playlists but for Favorites are what they were, and Favorites are what they were or
\* what this page has created.
Agrees(list, now) ==
    /\ list \in Seq(S!Playlist)
    /\ \A p \in ToSet(list) : p.kind # "favorites" => p \in ToSet(now)
    /\ \A p \in ToSet(now) : p.kind # "favorites" => p \in ToSet(list)
    /\ \A p \in ToSet(list) : p.kind = "favorites" =>
         \E q \in ToSet(now) : q.id = p.id /\ q.kind = "favorites"
    /\ \A q \in ToSet(now) : q.kind = "favorites" =>
         q.id = 0 \/ \E p \in ToSet(list) : p.id = q.id /\ p.kind = "favorites"

Apart(list) ==
    /\ \A i, j \in 1 .. Len(list) : list[i].id = list[j].id => i = j
    /\ \A i \in 1 .. Len(list) : list[i].id = 0 => list[i].kind = "favorites"

ChosenFrom(ids, now) == ids = << >> \/ \E list : Agrees(list, now) /\ ids = S!IdsOf(S!Curated(list))
FeaturedFrom(ids, missed, now) ==
    ids = << >> \/ \E list : Agrees(list, now) /\ ids = S!AdminAlbums(list, missed)
SideFrom(ids, now) == ids = << >> \/ \E list : Agrees(list, now) /\ ids = S!IdsOf(S!SideList(list))

LEMMA SameItself ==
    ASSUME NEW list \in Seq(S!Playlist)
    PROVE  Agrees(list, list)
  BY DEF Agrees

LEMMA SameStill ==
    ASSUME NEW list, NEW now, NEW later, Agrees(list, now), Agrees(now, later)
    PROVE  Agrees(list, later)
  <1>1. list \in Seq(S!Playlist)
    BY DEF Agrees
  <1>2. \A p \in ToSet(list) : p.kind # "favorites" => p \in ToSet(later)
    BY DEF Agrees
  <1>3. \A p \in ToSet(later) : p.kind # "favorites" => p \in ToSet(list)
    BY DEF Agrees
  <1>4. ASSUME NEW p \in ToSet(list), p.kind = "favorites"
        PROVE  \E q \in ToSet(later) : q.id = p.id /\ q.kind = "favorites"
    <2>1. PICK m \in ToSet(now) : m.id = p.id /\ m.kind = "favorites"
      BY <1>4 DEF Agrees
    <2> QED
      BY <2>1 DEF Agrees
  <1>5. ASSUME NEW q \in ToSet(later), q.kind = "favorites", q.id # 0
        PROVE  \E p \in ToSet(list) : p.id = q.id /\ p.kind = "favorites"
    <2>1. PICK m \in ToSet(now) : m.id = q.id /\ m.kind = "favorites"
      BY <1>5 DEF Agrees
    <2> QED
      BY <1>5, <2>1 DEF Agrees
  <1> QED
    BY ONLY <1>1, <1>2, <1>3, <1>4, <1>5 DEF Agrees

LEMMA ShelvesStill ==
    ASSUME NEW now, NEW later, Agrees(now, later), NEW ids, NEW missed
    PROVE  /\ ChosenFrom(ids, now) => ChosenFrom(ids, later)
           /\ FeaturedFrom(ids, missed, now) => FeaturedFrom(ids, missed, later)
           /\ SideFrom(ids, now) => SideFrom(ids, later)
  <1>1. \A list : Agrees(list, now) => Agrees(list, later)
    BY SameStill
  <1> QED
    BY ONLY <1>1 DEF ChosenFrom, FeaturedFrom, SideFrom

LEMMA FairShows ==
    ASSUME mine \in Seq(S!Playlist), Apart(mine), ChosenFrom(shelf.curated, mine),
           FeaturedFrom(shelf.albums, shelf.missed, mine), SideFrom(aside, mine)
    PROVE  S!ShelvesFair
  <1> DEFINE all == ToSet(mine)
             chosen == {S!Named(id) : id \in ToSet(shelf.curated)}
             featured == FeaturedIn(mine)
             albums == ToSet(shelf.albums)
  <1>1. \A x : x \in all <=> \E k \in 1 .. Len(mine) : mine[k] = x
    BY InList, DOMAIN mine = 1 .. Len(mine)
  <1>2. \A p, q \in all : p.id = q.id => p = q
    BY <1>1 DEF Apart
  <1> HIDE DEF all
  <1>3. \A p \in all : S!Named(p.id) = p
    <2>1. S!ToSet(mine) = all
      BY SameMembers DEF all
    <2> QED
      BY ONLY <1>2, <2>1 DEF S!Named
  <1>4. ToSet(<< >>) = {}
    BY InList
  <1>5. chosen \subseteq {p \in all : ~S!System(p)} /\
        \A p \in all, q \in chosen :
           S!LooksCurated(p) /\ (~S!LooksCurated(q) \/ S!Score(p) > S!Score(q)) => p \in chosen
    <2>1. CASE shelf.curated = << >>
      BY <1>4, <2>1
    <2>2. ASSUME NEW list, Agrees(list, mine), shelf.curated = S!IdsOf(S!Curated(list))
          PROVE  <1>5!1 /\ <1>5!2
      <3> DEFINE r == S!Curated(list)
      <3>1. FairCurated(list, r)
        BY <2>2, CuratedFair DEF Agrees
      <3>2. \A id : id \in ToSet(shelf.curated) <=> \E p \in ToSet(r) : p.id = id
        BY <2>2, <3>1, IdsParts DEF FairCurated
      <3> HIDE DEF r
      <3>3. \A p : S!System(p) <=> p.kind \in {"favorites", "legacy"}
        BY DEF S!System
      <3>4. \A q \in ToSet(r) : q \in all /\ ~S!System(q)
        BY <2>2, <3>1, <3>3 DEF Agrees, FairCurated, all
      <3>5. chosen = ToSet(r)
        BY ONLY <1>3, <3>2, <3>4
      <3>6. \A p \in all : S!LooksCurated(p) => p \in ToSet(list)
        BY <2>2 DEF Agrees, all, S!LooksCurated
      <3> QED
        BY ONLY <3>1, <3>4, <3>5, <3>6 DEF FairCurated
    <2> QED
      BY <2>1, <2>2 DEF ChosenFrom
  <1>6. /\ Cardinality(albums) = Len(shelf.albums)
        /\ albums # {} => \E looked : Covers(shelf.albums, looked, featured, shelf.missed)
    <2>1. CASE shelf.albums = << >>
      <3>1. albums = {} /\ Len(shelf.albums) = 0 /\ Cardinality({}) = 0
        BY <1>4, <2>1, FS_EmptySet
      <3> QED
        BY ONLY <3>1
    <2>2. ASSUME NEW list, Agrees(list, mine), shelf.albums = S!AdminAlbums(list, shelf.missed)
          PROVE  <1>6
      <3>1. FairAlbums(list, shelf.missed, shelf.albums)
        BY <2>2, AlbumsFair DEF Agrees
      <3>2. \A p : S!Featured(p) => p.kind # "favorites"
        BY DEF S!Featured
      <3>3. \A p : S!Featured(p) => (p \in ToSet(list) <=> p \in ToSet(mine))
        BY <2>2, <3>2 DEF Agrees
      <3>4. {q \in ToSet(list) : S!Featured(q)} = {q \in ToSet(mine) : S!Featured(q)}
        BY ONLY <3>3
      <3>5. FeaturedIn(list) = featured
        BY ONLY <3>4 DEF FeaturedIn
      <3> QED
        BY ONLY <3>1, <3>5 DEF FairAlbums
    <2> QED
      BY <2>1, <2>2 DEF FeaturedFrom
  <1>7. /\ \A id \in ToSet(aside) : S!Named(id) \in all /\ S!Named(id).kind # "legacy"
        /\ \A p \in all : p.kind = "favorites" /\ p.id \notin {0} \cup ToSet(aside) =>
             \A id \in ToSet(aside) : S!Named(id).kind = "favorites"
    <2>1. CASE aside = << >>
      BY <1>4, <2>1
    <2>2. ASSUME NEW list, Agrees(list, mine), aside = S!IdsOf(S!SideList(list))
          PROVE  <1>7
      <3> DEFINE r == S!SideList(list)
      <3>1. FairSide(list, r)
        BY <2>2, SideFair DEF Agrees
      <3>2. \A id : id \in ToSet(aside) <=> \E p \in ToSet(r) : p.id = id
        BY <2>2, <3>1, IdsParts DEF FairSide
      <3> HIDE DEF r
      <3>3. ASSUME NEW q \in ToSet(r)
            PROVE  /\ S!Named(q.id) \in all /\ S!Named(q.id).kind # "legacy"
                   /\ q.kind = "favorites" => S!Named(q.id).kind = "favorites"
        <4>1. q \in ToSet(list) /\ q.kind # "legacy"
          BY <3>1, <3>3 DEF FairSide
        <4>2. CASE q.kind = "favorites"
          <5>1. PICK m \in ToSet(mine) : m.id = q.id /\ m.kind = "favorites"
            BY <2>2, <4>1, <4>2 DEF Agrees
          <5>2. S!Named(q.id) = m
            BY <1>3, <5>1 DEF all
          <5> QED
            BY <5>1, <5>2 DEF all
        <4>3. CASE q.kind # "favorites"
          <5>1. q \in all
            BY <2>2, <4>1, <4>3 DEF Agrees, all
          <5>2. S!Named(q.id) = q
            BY <1>3, <5>1
          <5> QED
            BY <4>1, <4>3, <5>1, <5>2
        <4> QED
          BY <4>2, <4>3
      <3>4. ASSUME NEW p \in all, p.kind = "favorites", p.id # 0, p.id \notin ToSet(aside),
                   NEW q \in ToSet(r)
            PROVE  q.kind = "favorites"
        <4>1. PICK m \in ToSet(list) : m.id = p.id /\ m.kind = "favorites"
          BY <2>2, <3>4 DEF Agrees, all
        <4>2. m \notin ToSet(r)
          BY <3>2, <3>4, <4>1
        <4> QED
          BY <3>1, <4>1, <4>2 DEF FairSide
      <3> QED
        BY ONLY <3>2, <3>3, <3>4
    <2> QED
      BY <2>1, <2>2 DEF SideFrom
  <1>8. S!ToSet(mine) = all /\ S!ToSet(shelf.albums) = albums /\ S!ToSet(aside) = ToSet(aside)
    BY SameMembers DEF all
  <1>9. {S!Named(id) : id \in S!ToSet(shelf.curated)} = chosen
    BY SameMembers
  <1>10. featured = UNION {S!ToSet(p.tracks) : p \in {q \in S!ToSet(mine) : S!Featured(q)}}
    BY SameMembers DEF FeaturedIn
  <1>11. \A T : S!Cardinality(T) = Cardinality(T)
    BY SameSizes
  <1>12. /\ S!Cardinality(albums) = Len(shelf.albums)
         /\ albums # {} => \E looked \in SUBSET featured :
              /\ S!Cardinality(looked) = S!Lesser(S!Cardinality(featured), MaxFeatured)
              /\ albums \subseteq {S!AlbumOf(t) : t \in looked \ shelf.missed}
              /\ Len(shelf.albums) < Limit => {S!AlbumOf(t) : t \in looked \ shelf.missed} \subseteq albums
    <2>1. CASE albums = {}
      BY <1>6, <1>11, <2>1
    <2>2. CASE albums # {}
      <3>1. PICK looked : Covers(shelf.albums, looked, featured, shelf.missed)
        BY <1>6, <2>2
      <3>2. /\ looked \in SUBSET featured
            /\ Cardinality(looked) = S!Lesser(Cardinality(featured), MaxFeatured)
            /\ albums \subseteq {S!AlbumOf(t) : t \in looked \ shelf.missed}
            /\ Len(shelf.albums) < Limit => {S!AlbumOf(t) : t \in looked \ shelf.missed} \subseteq albums
        BY <3>1 DEF Covers
      <3> HIDE DEF featured, albums
      <3> QED
        BY ONLY <1>6, <1>11, <3>2
    <2> QED
      BY <2>1, <2>2
  <1> HIDE DEF chosen, albums, featured
  <1> QED
    BY <1>5, <1>7, <1>8, <1>9, <1>10, <1>12 DEF S!ShelvesFair

-----------------------------------------------------------------------------
(* Every moment of the shelves *)

EntriesOk(entries) == entries = << >> \/ \E ranking \in Rankings : BestOf(ranking, entries)

FetchSound(f, now) ==
    f \in S!Fetch /\ EntriesOk(f.entries) /\ ("list" \notin f.asks => Agrees(f.list, now))

\* A run that is live is of the favorites, the entries and the history of now.
RunSound(r, s, plays) ==
    r \in S!Run /\ (r.live => /\ s.at = "home" /\ s.has
                              /\ Best(r.want, s.fav, s.entries, plays))

Settled(rs, s, plays) ==
    s.at = "home" /\ s.has /\ (\A r \in rs : ~r.live) =>
        Current(s.fav, s.entries, s.popular, s.lost, plays)

\* A page with its runs, at a moment with this history.
PageSound(s, rs, plays) ==
    /\ s \in S!Shelf /\ EntriesOk(s.entries)
    /\ (\A r \in rs : RunSound(r, s, plays)) /\ Settled(rs, s, plays)

ListsInv ==
    /\ mine \in Seq(S!Playlist) /\ Apart(mine) /\ history \in Seq(ShelfTracks)
    /\ \A f \in fetches : FetchSound(f, mine)

ChosenInv ==
    /\ ChosenFrom(shelf.curated, mine) /\ FeaturedFrom(shelf.albums, shelf.missed, mine)
    /\ SideFrom(aside, mine) /\ aside \in Seq(Nat)

SpentInv == spent \in [acts: 0 .. MaxActs, mishaps: 0 .. MaxMishaps]

ShelvesInv == ListsInv /\ ChosenInv /\ PageSound(shelf, runs, history) /\ SpentInv

LEMMA EntriesAre ==
    ASSUME NEW entries, EntriesOk(entries)
    PROVE  EntriesSound(entries)
  <1>1. CASE entries = << >>
    BY <1>1, LimitIs DEF EntriesSound, Falling
  <1>2. ASSUME NEW ranking \in Rankings, BestOf(ranking, entries)
        PROVE  EntriesSound(entries)
    <2>1. ranking \in Seq(S!Entry)
      BY PagesConstants DEF S!ShelvesAssumption
    <2>2. Len(ranking) \in Nat
      BY ONLY <2>1
    <2>3. Len(entries) <= Limit
      BY ONLY <1>2, <2>2, LimitIs DEF BestOf, S!Lesser
    <2> QED
      BY <1>2, <2>3 DEF BestOf, EntriesSound
  <1> QED
    BY <1>1, <1>2 DEF EntriesOk

LEMMA EntriesShow == EntriesOk(shelf.entries) => S!EntriesAreBest
  BY SameMembers DEF EntriesOk, BestOf, S!EntriesAreBest

LEMMA Cancels ==
    ASSUME NEW rs, \A r \in rs : r \in S!Run
    PROVE  \A r \in S!Cancelled(rs) : r \in S!Run /\ ~r.live
  BY DEF S!Cancelled, S!Run

LEMMA PageResolved ==
    ASSUME \A r \in runs : r \in S!Run,
           NEW s \in S!Shelf, EntriesOk(s.entries), NEW plays \in Seq(ShelfTracks),
           S!Resolve(s, plays)
    PROVE  /\ PageSound(shelf', runs', plays)
           /\ shelf'.curated = s.curated /\ shelf'.albums = s.albums /\ shelf'.missed = s.missed
  <1>1. \A r \in S!Cancelled(runs) : r \in S!Run /\ ~r.live
    BY Cancels
  <1>2. s.fav \in Seq(ShelfTracks)
    BY DEF S!Shelf
  <1>3. CASE s.at # "home"
    <2>1. shelf' = s /\ runs' = S!Cancelled(runs)
      BY <1>3 DEF S!Resolve
    <2> QED
      BY <1>1, <1>3, <2>1 DEF PageSound, RunSound, Settled
  <1>4. CASE s.at = "home" /\ (~s.has \/ s.fav = << >>)
    <2>1. shelf' = [s EXCEPT !.popular = << >>, !.lost = {}] /\ runs' = S!Cancelled(runs)
      BY <1>4 DEF S!Resolve
    <2>2. /\ shelf' \in S!Shelf /\ shelf'.entries = s.entries /\ shelf'.curated = s.curated
          /\ shelf'.albums = s.albums /\ shelf'.missed = s.missed /\ shelf'.fav = s.fav /\ shelf'.has = s.has
          /\ shelf'.popular = << >> /\ shelf'.lost = {}
      <3>1. << >> \in Seq(S!Entry) /\ {} \in SUBSET ShelfTracks
        OBVIOUS
      <3> QED
        BY <2>1, <3>1, s \in S!Shelf DEF S!Shelf
    <2>3. shelf'.has => Current(shelf'.fav, shelf'.entries, shelf'.popular, shelf'.lost, plays)
      BY <1>4, <2>2, NoneCurrent
    <2> QED
      BY <1>1, <2>1, <2>2, <2>3 DEF PageSound, RunSound, Settled
  <1>5. CASE s.at = "home" /\ s.has /\ s.fav # << >>
    <2> DEFINE want == S!Ranked(s.fav, s.entries, plays)
    <2>1. shelf' = s /\ runs' = S!Cancelled(runs) \cup {[live |-> TRUE, want |-> want]}
      BY <1>5 DEF S!Resolve
    <2>2. Best(want, s.fav, s.entries, plays)
      BY <1>2, EntriesAre, RankedBest
    <2> HIDE DEF want
    <2>3. want \in Seq(S!Entry)
      BY <2>2 DEF Best, Choice
    <2>4. RunSound([live |-> TRUE, want |-> want], s, plays)
      BY <1>5, <2>2, <2>3 DEF RunSound, S!Run
    <2>5. Settled(runs', s, plays)
      <3>1. [live |-> TRUE, want |-> want] \in runs' /\ [live |-> TRUE, want |-> want].live
        BY <2>1
      <3> QED
        BY ONLY <3>1 DEF Settled
    <2>6. \A r \in runs' : RunSound(r, s, plays)
      BY <1>1, <2>1, <2>4 DEF RunSound
    <2> QED
      BY <2>1, <2>5, <2>6 DEF PageSound
  <1> QED
    BY <1>3, <1>4, <1>5

LEMMA FetchesStill ==
    ASSUME NEW now, NEW later, Agrees(now, later), NEW fs, \A f \in fs : FetchSound(f, now)
    PROVE  \A f \in fs : FetchSound(f, later)
  BY SameStill DEF FetchSound

LEMMA MountedSound ==
    ASSUME NEW place \in S!Places
    PROVE  S!Mounted(place) \in S!Shelf /\ S!Mounted(place).entries = << >>
           /\ S!Mounted(place).curated = << >> /\ S!Mounted(place).albums = << >>
  BY DEF S!Mounted, S!Shelf

LEMMA NewFetchSound ==
    ASSUME NEW place \in {"home", "discovery", "aside"}, NEW now
    PROVE  FetchSound(S!NewFetch(place), now)
  <1>1. << >> \in Seq(S!Playlist) /\ << >> \in Seq(ShelfTracks) /\ << >> \in Seq(S!Entry)
    OBVIOUS
  <1>2. S!NewFetch(place) \in S!Fetch
    BY <1>1 DEF S!NewFetch, S!Fetch
  <1> QED
    BY <1>2 DEF FetchSound, S!NewFetch, EntriesOk

LEMMA ActSpent == SpentInv /\ S!Act => SpentInv'
  <1>1. MaxActs \in Nat /\ MaxMishaps \in Nat
    BY PagesConstants DEF S!ShelvesAssumption
  <1> QED
    BY <1>1 DEF SpentInv, S!Act

LEMMA MishapSpent ==
    SpentInv /\ spent.mishaps < MaxMishaps /\ spent' = [spent EXCEPT !.mishaps = @ + 1] => SpentInv'
  <1>1. MaxActs \in Nat /\ MaxMishaps \in Nat
    BY PagesConstants DEF S!ShelvesAssumption
  <1> QED
    BY <1>1 DEF SpentInv

LEMMA Parts ==
    ASSUME ShelvesInv
    PROVE  /\ mine \in Seq(S!Playlist) /\ Apart(mine) /\ history \in Seq(ShelfTracks)
           /\ \A f \in fetches : FetchSound(f, mine)
           /\ ChosenFrom(shelf.curated, mine) /\ FeaturedFrom(shelf.albums, shelf.missed, mine)
           /\ SideFrom(aside, mine) /\ aside \in Seq(Nat)
           /\ PageSound(shelf, runs, history) /\ SpentInv
           /\ shelf \in S!Shelf /\ EntriesOk(shelf.entries) /\ \A r \in runs : r \in S!Run
  BY DEF ShelvesInv, ListsInv, ChosenInv, PageSound, RunSound

LEMMA PageStill ==
    ASSUME NEW s, NEW rs, NEW plays, PageSound(s, rs, plays), NEW t \in S!Shelf,
           t.at = s.at, t.has = s.has, t.fav = s.fav, t.entries = s.entries,
           t.popular = s.popular, t.lost = s.lost
    PROVE  PageSound(t, rs, plays)
  <1>1. \A r \in rs : RunSound(r, t, plays)
    BY DEF PageSound, RunSound
  <1>2. Settled(rs, t, plays)
    BY DEF PageSound, Settled
  <1> QED
    BY <1>1, <1>2 DEF PageSound

LEMMA LeftFetch ==
    ASSUME NEW now, NEW f, FetchSound(f, now), NEW g, g = [f EXCEPT !.live = FALSE]
    PROVE  FetchSound(g, now)
  <1>1. g \in S!Fetch /\ g.asks = f.asks /\ g.list = f.list /\ g.entries = f.entries
    BY DEF FetchSound, S!Fetch
  <1> QED
    BY <1>1 DEF FetchSound

LEMMA OpenKept ==
    ASSUME ShelvesInv, NEW place \in S!Places, S!Open(place)
    PROVE  ShelvesInv'
  <1>1. UNCHANGED <<mine, history, aside>>
    BY DEF S!Open
  <1>2. place # shelf.at
    BY DEF S!Open
  <1>3. CASE place = "away"
    <2> DEFINE s == [S!Mounted("away") EXCEPT !.loading = FALSE]
    <2>1. /\ S!Resolve(s, history) /\ UNCHANGED spent
          /\ fetches' = {f \in fetches : f.place = "aside"} \cup
                        {[f EXCEPT !.live = FALSE] : f \in {g \in fetches : g.place # "aside"}}
      BY <1>3 DEF S!Open
    <2>2. s \in S!Shelf /\ s.entries = << >> /\ s.curated = << >> /\ s.albums = << >>
      <3>1. S!Mounted("away") \in S!Shelf /\ S!Mounted("away").entries = << >>
            /\ S!Mounted("away").curated = << >> /\ S!Mounted("away").albums = << >>
        BY MountedSound DEF S!Places
      <3> QED
        BY ONLY <3>1 DEF S!Shelf
    <2> HIDE DEF s
    <2>3. EntriesOk(s.entries)
      BY <2>2 DEF EntriesOk
    <2>4. PageSound(shelf', runs', history) /\ shelf'.curated = << >> /\ shelf'.albums = << >>
      BY Parts, <2>1, <2>2, <2>3, PageResolved
    <2>5. \A f \in fetches' : FetchSound(f, mine)
      BY Parts, <2>1, LeftFetch
    <2>6. ListsInv'
      BY Parts, <1>1, <2>5 DEF ListsInv
    <2>7. ChosenInv'
      BY Parts, <1>1, <2>4 DEF ChosenInv, ChosenFrom, FeaturedFrom
    <2> QED
      BY Parts, <1>1, <2>1, <2>4, <2>6, <2>7 DEF ShelvesInv, SpentInv
  <1>4. CASE place # "away"
    <2> DEFINE s == S!Mounted(place)
    <2>1. S!Act /\ S!Resolve(s, history) /\ fetches' = fetches \cup {S!NewFetch(place)}
      BY <1>4 DEF S!Open
    <2>2. s \in S!Shelf /\ s.entries = << >> /\ s.curated = << >> /\ s.albums = << >>
      BY MountedSound
    <2> HIDE DEF s
    <2>3. EntriesOk(s.entries)
      BY <2>2 DEF EntriesOk
    <2>4. PageSound(shelf', runs', history) /\ shelf'.curated = << >> /\ shelf'.albums = << >>
      BY Parts, <2>1, <2>2, <2>3, PageResolved
    <2>5. \A f \in fetches' : FetchSound(f, mine)
      BY Parts, <1>4, <2>1, NewFetchSound DEF S!Places
    <2>6. ListsInv'
      BY Parts, <1>1, <2>5 DEF ListsInv
    <2>7. ChosenInv'
      BY Parts, <1>1, <2>4 DEF ChosenInv, ChosenFrom, FeaturedFrom
    <2>8. SpentInv'
      BY Parts, <2>1, ActSpent
    <2> QED
      BY <1>1, <2>4, <2>6, <2>7, <2>8 DEF ShelvesInv
  <1> QED
    BY <1>3, <1>4

LEMMA PlayKept ==
    ASSUME ShelvesInv, NEW t \in ShelfTracks, S!PlayTrack(t)
    PROVE  ShelvesInv'
  <1> DEFINE plays == S!First(<<t>> \o history, MaxHistory)
  <1>1. /\ S!Act /\ history' = plays /\ S!Resolve(shelf, plays)
        /\ UNCHANGED <<mine, aside, fetches>>
    BY DEF S!PlayTrack
  <1>2. plays \in Seq(ShelfTracks)
    <2>1. <<t>> \o history \in Seq(ShelfTracks)
      BY Parts
    <2>2. MaxHistory \in Nat \ {0}
      BY PagesConstants DEF S!ShelvesAssumption
    <2> QED
      BY ONLY <2>1, <2>2, Shortened
  <1> HIDE DEF plays
  <1>3. /\ PageSound(shelf', runs', plays)
        /\ shelf'.curated = shelf.curated /\ shelf'.albums = shelf.albums /\ shelf'.missed = shelf.missed
    BY Parts, <1>1, <1>2, PageResolved
  <1>4. ListsInv'
    BY Parts, <1>1, <1>2 DEF ListsInv
  <1>5. ChosenInv'
    BY Parts, <1>1, <1>3 DEF ChosenInv
  <1>6. SpentInv'
    BY Parts, <1>1, ActSpent
  <1> QED
    BY <1>1, <1>3, <1>4, <1>5, <1>6 DEF ShelvesInv

\* Favorites with other tracks, listed first.
LEMMA FavoritesMoved ==
    ASSUME NEW list \in Seq(S!Playlist), Apart(list), NEW i \in 1 .. Len(list),
           list[i].kind = "favorites", NEW u \in Seq(ShelfTracks),
           NEW later, later = <<[list[i] EXCEPT !.tracks = u]>> \o S!RemoveAt(list, i)
    PROVE  later \in Seq(S!Playlist) /\ Apart(later) /\ Agrees(list, later)
  <1> DEFINE n == Len(list)
             p == [list[i] EXCEPT !.tracks = u]
             rest == S!RemoveAt(list, i)
             o(k) == IF k = 1 THEN i ELSE IF k <= i THEN k - 1 ELSE k
  <1>1. n \in Nat /\ i \in Nat /\ list[i] \in S!Playlist
    OBVIOUS
  <1>2. p \in S!Playlist /\ p.id = list[i].id /\ p.kind = "favorites"
    BY <1>1 DEF S!Playlist
  <1>3. later = <<p>> \o rest
    OBVIOUS
  <1> HIDE DEF p
  <1>4. /\ rest \in Seq(S!Playlist) /\ Len(rest) = n - 1
        /\ \A k \in 1 .. (n - 1) : rest[k] = IF k < i THEN list[k] ELSE list[k + 1]
    <2> DEFINE a == SubSeq(list, 1, i - 1)
               b == SubSeq(list, i + 1, n)
    <2>1. a \in Seq(S!Playlist) /\ Len(a) = i - 1 /\ \A k \in 1 .. (i - 1) : a[k] = list[k]
      BY <1>1
    <2>2. b \in Seq(S!Playlist) /\ Len(b) = n - i /\ \A k \in 1 .. (n - i) : b[k] = list[i + k]
      BY <1>1
    <2>3. rest = a \o b
      BY DEF S!RemoveAt
    <2> HIDE DEF a, b, rest
    <2>4. rest \in Seq(S!Playlist) /\ Len(rest) = (i - 1) + (n - i)
      <3>1. rest \in Seq(S!Playlist) /\ Len(rest) = Len(a) + Len(b)
        <4>1. a \in Seq(S!Playlist) /\ b \in Seq(S!Playlist)
          BY ONLY <2>1, <2>2
        <4> QED
          BY ONLY <2>3, <4>1
      <3> QED
        BY ONLY <2>1, <2>2, <3>1
    <2>5. ASSUME NEW k \in 1 .. (n - 1)
          PROVE  rest[k] = IF k < i THEN list[k] ELSE list[k + 1]
      <3>1. CASE k < i
        <4>1. k \in 1 .. Len(a)
          BY <1>1, <2>1, <3>1
        <4> QED
          BY ONLY <2>1, <2>2, <2>3, <3>1, <4>1
      <3>2. CASE ~(k < i)
        <4>1. k - (i - 1) \in 1 .. (n - i) /\ i + (k - (i - 1)) = k + 1
          BY <1>1, <3>2
        <4>2. rest[k] = b[k - (i - 1)]
          <5>1. k \in 1 .. (Len(a) + Len(b)) /\ ~(k <= Len(a))
            BY <1>1, <2>1, <2>2, <3>2
          <5>2. a \in Seq(S!Playlist) /\ b \in Seq(S!Playlist) /\ Len(a) = i - 1
            BY ONLY <2>1, <2>2
          <5>3. rest[k] = b[k - Len(a)]
            BY ONLY <2>3, <5>1, <5>2
          <5> QED
            BY ONLY <5>2, <5>3
        <4>3. b[k - (i - 1)] = list[i + (k - (i - 1))]
          BY ONLY <2>2, <4>1
        <4> QED
          BY <3>2, <4>1, <4>2, <4>3
      <3> QED
        BY <3>1, <3>2
    <2>6. (i - 1) + (n - i) = n - 1
      BY ONLY <1>1
    <2> QED
      BY ONLY <2>4, <2>5, <2>6
  <1> HIDE DEF rest, n
  <1>5. 1 \in 1 .. n /\ i \in 1 .. n /\ Len(list) = n
    BY DEF n
  <1>6. /\ later \in Seq(S!Playlist) /\ Len(later) = n
        /\ later[1] = p /\ \A k \in 2 .. n : later[k] = rest[k - 1]
    BY ONLY <1>1, <1>2, <1>3, <1>4, <1>5
  <1>7. /\ \A k \in 1 .. n : o(k) \in 1 .. n
        /\ \A k, l \in 1 .. n : o(k) = o(l) => k = l
        /\ \A j \in 1 .. n : j # i => \E k \in 2 .. n : o(k) = j
        /\ \A k \in 2 .. n : o(k) # i
    <2>1. \A k \in 1 .. n : o(k) \in 1 .. n
      BY ONLY <1>1, <1>5
    <2>2. \A k, l \in 1 .. n : o(k) = o(l) => k = l
      BY ONLY <1>1, <1>5
    <2>3. \A k \in 2 .. n : o(k) # i
      BY ONLY <1>1, <1>5
    <2>4. ASSUME NEW j \in 1 .. n, j # i
          PROVE  \E k \in 2 .. n : o(k) = j
      <3>1. CASE j < i
        <4>1. j + 1 \in 2 .. n /\ o(j + 1) = j
          BY ONLY <1>1, <1>5, <3>1, j \in 1 .. n
        <4> QED
          BY <4>1
      <3>2. CASE j > i
        <4>1. j \in 2 .. n /\ o(j) = j
          BY ONLY <1>1, <1>5, <3>2, j \in 1 .. n
        <4> QED
          BY <4>1
      <3> QED
        BY ONLY <1>1, <1>5, <2>4, <3>1, <3>2
    <2> QED
      BY ONLY <2>1, <2>2, <2>3, <2>4
  <1>8. \A k \in 2 .. n : later[k] = list[o(k)]
    BY ONLY <1>1, <1>4, <1>5, <1>6
  <1> HIDE DEF o
  <1>9. o(1) = i
    BY DEF o
  <1>10. \A k \in 1 .. n : later[k].id = list[o(k)].id /\ later[k].kind = list[o(k)].kind
    <2>1. later[1].id = list[o(1)].id /\ later[1].kind = list[o(1)].kind
      BY <1>2, <1>6, <1>9
    <2>2. \A k \in 1 .. n : k = 1 \/ k \in 2 .. n
      BY ONLY <1>1
    <2> QED
      BY ONLY <1>8, <2>1, <2>2
  <1>11. Apart(later)
    <2>1. \A k, l \in 1 .. n : list[k].id = list[l].id => k = l
      BY <1>5 DEF Apart
    <2>2. \A k \in 1 .. n : list[k].id = 0 => list[k].kind = "favorites"
      BY <1>5 DEF Apart
    <2>3. ASSUME NEW k \in 1 .. n, NEW l \in 1 .. n, later[k].id = later[l].id
          PROVE  k = l
      <3>1. list[o(k)].id = list[o(l)].id /\ o(k) \in 1 .. n /\ o(l) \in 1 .. n
        BY ONLY <1>7, <1>10, <2>3
      <3>2. o(k) = o(l)
        BY ONLY <2>1, <3>1
      <3> QED
        BY ONLY <1>7, <3>2, k \in 1 .. n, l \in 1 .. n
    <2>4. ASSUME NEW k \in 1 .. n, later[k].id = 0
          PROVE  later[k].kind = "favorites"
      <3>1. list[o(k)].id = 0 /\ o(k) \in 1 .. n
        BY ONLY <1>7, <1>10, <2>4
      <3> QED
        BY ONLY <1>10, <2>2, <3>1, k \in 1 .. n
    <2> QED
      BY ONLY <1>6, <2>3, <2>4 DEF Apart
  <1>12. \A x : x \in ToSet(list) <=> \E k \in 1 .. n : list[k] = x
    BY <1>5, InList, DOMAIN list = 1 .. Len(list)
  <1>13. \A x : x \in ToSet(later) <=> \E k \in 1 .. n : later[k] = x
    BY ONLY <1>6, InList, DOMAIN later = 1 .. Len(later)
  <1>14. \A x : x \in ToSet(later) <=> x = p \/ \E j \in 1 .. n : j # i /\ list[j] = x
    <2>1. \A k \in 1 .. n : k = 1 \/ k \in 2 .. n
      BY ONLY <1>1
    <2>2. \A k \in 2 .. n : k \in 1 .. n
      BY ONLY <1>1
    <2>3. ASSUME NEW x, x \in ToSet(later), x # p
          PROVE  \E j \in 1 .. n : j # i /\ list[j] = x
      <3>1. PICK k \in 1 .. n : later[k] = x
        BY ONLY <1>13, <2>3
      <3>2. k \in 2 .. n
        BY ONLY <1>6, <2>1, <2>3, <3>1
      <3>3. o(k) \in 1 .. n /\ o(k) # i /\ list[o(k)] = x
        BY ONLY <1>7, <1>8, <3>1, <3>2, k \in 1 .. n
      <3> QED
        BY ONLY <3>3
    <2>4. ASSUME NEW j \in 1 .. n, j # i
          PROVE  list[j] \in ToSet(later)
      <3>1. PICK k \in 2 .. n : o(k) = j
        BY ONLY <1>7, <2>4
      <3>2. later[k] = list[j] /\ k \in 1 .. n
        BY ONLY <1>8, <2>2, <3>1
      <3> QED
        BY ONLY <1>13, <3>2
    <2>5. p \in ToSet(later)
      BY ONLY <1>5, <1>6, <1>13
    <2> QED
      BY ONLY <2>3, <2>4, <2>5
  <1>15. list[i].kind = "favorites"
    OBVIOUS
  <1>16. Agrees(list, later)
    BY ONLY <1>2, <1>5, <1>12, <1>14, <1>15, list \in Seq(S!Playlist) DEF Agrees
  <1> QED
    BY ONLY <1>6, <1>11, <1>16

LEMMA ToggleKept ==
    ASSUME ShelvesInv, NEW t \in ShelfTracks, S!ToggleFavorite(t)
    PROVE  ShelvesInv'
  <1>1. S!Act /\ UNCHANGED <<history, shelf, aside, fetches, runs>>
    BY DEF S!ToggleFavorite
  <1>2. PICK i \in 1 .. Len(mine) :
         /\ mine[i].kind = "favorites"
         /\ mine' = <<[mine[i] EXCEPT !.tracks =
                        IF t \in S!ToSet(mine[i].tracks)
                        THEN S!Kept(mine[i].tracks, {k \in 1 .. Len(mine[i].tracks) : mine[i].tracks[k] # t})
                        ELSE Append(mine[i].tracks, t)]>> \o S!RemoveAt(mine, i)
    BY DEF S!ToggleFavorite, S!Where
  <1> DEFINE old == mine[i].tracks
             left == S!Kept(old, {k \in 1 .. Len(old) : old[k] # t})
             u == IF t \in S!ToSet(old) THEN left ELSE Append(old, t)
  <1>3. old \in Seq(ShelfTracks)
    <2>1. mine[i] \in S!Playlist
      BY Parts
    <2> QED
      BY ONLY <2>1, PlaylistParts
  <1>4. mine' = <<[mine[i] EXCEPT !.tracks = u]>> \o S!RemoveAt(mine, i)
    BY <1>2
  <1> HIDE DEF old
  <1>5. left \in Seq(ShelfTracks)
    <2> DEFINE I == {k \in 1 .. Len(old) : old[k] # t}
    <2>1. I \in SUBSET (1 .. Len(old))
      OBVIOUS
    <2> HIDE DEF I
    <2>2. S!Kept(old, I) \in Seq(ShelfTracks)
      BY ONLY <1>3, <2>1, KeptParts
    <2> QED
      BY <2>2 DEF I
  <1> HIDE DEF left
  <1>6. u \in Seq(ShelfTracks)
    BY ONLY <1>3, <1>5, t \in ShelfTracks
  <1> HIDE DEF u
  <1>7. mine' \in Seq(S!Playlist) /\ Apart(mine') /\ Agrees(mine, mine')
    BY Parts, <1>2, <1>4, <1>6, FavoritesMoved
  <1>8. \A f \in fetches : FetchSound(f, mine')
    BY Parts, <1>7, FetchesStill
  <1>9. ChosenFrom(shelf.curated, mine') /\ FeaturedFrom(shelf.albums, shelf.missed, mine') /\ SideFrom(aside, mine')
    BY Parts, <1>7, ShelvesStill
  <1>10. ListsInv'
    BY Parts, <1>1, <1>7, <1>8 DEF ListsInv
  <1>11. ChosenInv'
    BY Parts, <1>1, <1>9 DEF ChosenInv
  <1>12. SpentInv'
    BY Parts, <1>1, ActSpent
  <1> QED
    BY Parts, <1>1, <1>10, <1>11, <1>12 DEF ShelvesInv

\* Favorites are created where there were none.
LEMMA FavoritesCreated ==
    ASSUME NEW list \in Seq(S!Playlist), Apart(list),
           \A p \in ToSet(list) : p.kind # "favorites",
           NEW later, later = <<[id |-> 0, kind |-> "favorites", tracks |-> << >>]>> \o list
    PROVE  later \in Seq(S!Playlist) /\ Apart(later) /\ Agrees(list, later)
  <1> DEFINE n == Len(list)
             p == [id |-> 0, kind |-> "favorites", tracks |-> << >>]
  <1>1. n \in Nat
    OBVIOUS
  <1>2. p \in S!Playlist /\ p.id = 0 /\ p.kind = "favorites"
    <2>1. << >> \in Seq(ShelfTracks)
      OBVIOUS
    <2> QED
      BY <2>1 DEF S!Playlist, S!Kinds
  <1>3. later = <<p>> \o list
    OBVIOUS
  <1> HIDE DEF p
  <1>4. /\ later \in Seq(S!Playlist) /\ Len(later) = n + 1 /\ later[1] = p
        /\ \A k \in 1 .. n : later[k + 1] = list[k]
    BY <1>1, <1>2, <1>3
  <1>5. \A x : x \in ToSet(list) <=> \E k \in 1 .. n : list[k] = x
    BY InList, DOMAIN list = 1 .. Len(list)
  <1>6. \A k \in 1 .. n : list[k].id # 0
    BY <1>5 DEF Apart
  <1>7. \A k, l \in 1 .. n : list[k].id = list[l].id => k = l
    BY DEF Apart
  <1>8. \A x : x \in ToSet(later) <=> \E k \in 1 .. (n + 1) : later[k] = x
    BY ONLY <1>4, InList, DOMAIN later = 1 .. Len(later)
  <1> HIDE DEF n
  <1>9. \A k \in 1 .. (n + 1) : k = 1 \/ (k - 1 \in 1 .. n /\ (k - 1) + 1 = k)
    BY ONLY <1>1
  <1>10. \A k \in 1 .. (n + 1) : k # 1 => later[k] = list[k - 1]
    BY ONLY <1>4, <1>9
  <1>11. Apart(later)
    <2>1. ASSUME NEW k \in 1 .. (n + 1), NEW l \in 1 .. (n + 1), later[k].id = later[l].id
          PROVE  k = l
      <3>1. CASE k = 1 /\ l = 1
        BY <3>1
      <3>2. CASE k = 1 /\ l # 1
        BY ONLY <1>2, <1>4, <1>6, <1>9, <1>10, <2>1, <3>2
      <3>3. CASE k # 1 /\ l = 1
        BY ONLY <1>2, <1>4, <1>6, <1>9, <1>10, <2>1, <3>3
      <3>4. CASE k # 1 /\ l # 1
        <4>1. k - 1 = l - 1
          BY ONLY <1>7, <1>9, <1>10, <2>1, <3>4
        <4> QED
          BY ONLY <1>1, <4>1, k \in 1 .. (n + 1), l \in 1 .. (n + 1)
      <3> QED
        BY ONLY <3>1, <3>2, <3>3, <3>4
    <2>2. ASSUME NEW k \in 1 .. (n + 1), later[k].id = 0
          PROVE  later[k].kind = "favorites"
      BY ONLY <1>2, <1>4, <1>6, <1>9, <1>10, <2>2
    <2> QED
      BY ONLY <1>4, <2>1, <2>2 DEF Apart
  <1>12. \A x : x \in ToSet(later) <=> x = p \/ x \in ToSet(list)
    <2>1. \A k \in 1 .. n : k + 1 \in 1 .. (n + 1)
      BY ONLY <1>1
    <2>2. 1 \in 1 .. (n + 1)
      BY ONLY <1>1
    <2> QED
      BY ONLY <1>4, <1>5, <1>8, <1>9, <1>10, <2>1, <2>2
  <1>13. \A q \in ToSet(list) : q.kind # "favorites"
    OBVIOUS
  <1>14. Agrees(list, later)
    BY ONLY <1>2, <1>12, <1>13, list \in Seq(S!Playlist) DEF Agrees
  <1> QED
    BY ONLY <1>4, <1>11, <1>14

LEMMA ListKept ==
    ASSUME ShelvesInv, NEW f \in fetches, S!ListAnswered(f)
    PROVE  ShelvesInv'
  <1> DEFINE g == [f EXCEPT !.asks = @ \ {"list"}, !.list = mine]
  <1>1. /\ fetches' = (fetches \ {f}) \cup {g}
        /\ UNCHANGED <<mine, history, shelf, aside, runs, spent>>
    BY DEF S!ListAnswered, S!Put
  <1>2. FetchSound(f, mine) /\ mine \in Seq(S!Playlist)
    BY Parts
  <1>3. g \in S!Fetch /\ g.list = mine /\ g.entries = f.entries
    BY <1>2 DEF FetchSound, S!Fetch
  <1> HIDE DEF g
  <1>4. FetchSound(g, mine)
    BY ONLY <1>2, <1>3, SameItself DEF FetchSound
  <1>5. ListsInv'
    BY Parts, <1>1, <1>4 DEF ListsInv
  <1> QED
    BY <1>1, <1>5 DEF ShelvesInv, ChosenInv, SpentInv

\* The playlist that is found, if any, is among the listener's.
FoundList(list) == S!Kept(list, {i \in 1 .. Len(list) : list[i].kind = "favorites"})

LEMMA FoundParts ==
    ASSUME NEW list \in Seq(S!Playlist), NEW r, r = FoundList(list)
    PROVE  /\ r # << >> => r[1].tracks \in Seq(ShelfTracks)
           /\ r = << >> => \A p \in ToSet(list) : p.kind # "favorites"
  <1> DEFINE I == {i \in 1 .. Len(list) : list[i].kind = "favorites"}
  <1>1. I \in SUBSET (1 .. Len(list)) /\ \A i \in 1 .. Len(list) : i \in I <=> list[i].kind = "favorites"
    OBVIOUS
  <1>2. r = S!Kept(list, I)
    BY DEF FoundList
  <1> HIDE DEF I
  <1>3. r \in Seq(S!Playlist) /\ \A p : p \in ToSet(r) <=> \E i \in I : list[i] = p
    BY ONLY <1>1, <1>2, KeptPlaylists, list \in Seq(S!Playlist)
  <1>4. ASSUME r # << >>
        PROVE  r[1].tracks \in Seq(ShelfTracks)
    <2>1. r[1] \in S!Playlist
      BY ONLY <1>3, <1>4
    <2> QED
      BY ONLY <2>1, PlaylistParts
  <1>5. ASSUME r = << >>, NEW p \in ToSet(list)
        PROVE  p.kind # "favorites"
    <2>1. ToSet(r) = {}
      BY ONLY <1>3, <1>5, SomeMember
    <2>2. PICK i \in 1 .. Len(list) : list[i] = p
      BY InList, DOMAIN list = 1 .. Len(list)
    <2> QED
      BY ONLY <1>1, <1>3, <2>1, <2>2
  <1> QED
    BY ONLY <1>4, <1>5

LEMMA FavoritesAnswerKept ==
    ASSUME ShelvesInv, NEW f \in fetches, S!FavoritesAnswered(f)
    PROVE  ShelvesInv'
  <1> DEFINE found == FoundList(mine)
             u == IF found = << >> THEN << >> ELSE found[1].tracks
             g == [f EXCEPT !.asks = @ \ {"favorites"}, !.fav = u]
  <1>1. /\ fetches' = (fetches \ {f}) \cup {g}
        /\ mine' = IF found # << >> THEN mine
                   ELSE <<[id |-> 0, kind |-> "favorites", tracks |-> << >>]>> \o mine
        /\ UNCHANGED <<history, shelf, aside, runs, spent>>
    BY DEF S!FavoritesAnswered, S!Put, S!Where, FoundList
  <1>2. FetchSound(f, mine) /\ mine \in Seq(S!Playlist) /\ Apart(mine)
    BY Parts
  <1>3. /\ found # << >> => found[1].tracks \in Seq(ShelfTracks)
        /\ found = << >> => \A p \in ToSet(mine) : p.kind # "favorites"
    BY <1>2, FoundParts
  <1> HIDE DEF found
  <1>4. u \in Seq(ShelfTracks)
    BY ONLY <1>3, << >> \in Seq(ShelfTracks)
  <1> HIDE DEF u
  <1>5. g \in S!Fetch /\ g.list = f.list /\ g.entries = f.entries /\ ("list" \notin g.asks => "list" \notin f.asks)
    BY <1>2, <1>4 DEF FetchSound, S!Fetch
  <1> HIDE DEF g
  <1>6. FetchSound(g, mine)
    BY ONLY <1>2, <1>5 DEF FetchSound
  <1>7. mine' \in Seq(S!Playlist) /\ Apart(mine') /\ Agrees(mine, mine')
    <2>1. CASE found # << >>
      <3>1. mine' = mine
        BY <1>1, <2>1
      <3> QED
        BY ONLY <1>2, <3>1, SameItself
    <2>2. CASE found = << >>
      <3>1. mine' = <<[id |-> 0, kind |-> "favorites", tracks |-> << >>]>> \o mine
        BY <1>1, <2>2
      <3> QED
        BY ONLY <1>2, <1>3, <2>2, <3>1, FavoritesCreated
    <2> QED
      BY <2>1, <2>2
  <1>8. \A h \in fetches' : FetchSound(h, mine)
    BY Parts, <1>1, <1>6
  <1>9. \A h \in fetches' : FetchSound(h, mine')
    BY ONLY <1>7, <1>8, FetchesStill
  <1>10. ChosenFrom(shelf.curated, mine') /\ FeaturedFrom(shelf.albums, shelf.missed, mine') /\ SideFrom(aside, mine')
    BY Parts, <1>7, ShelvesStill
  <1>11. ListsInv'
    BY Parts, <1>1, <1>7, <1>9 DEF ListsInv
  <1>12. ChosenInv'
    BY Parts, <1>1, <1>10 DEF ChosenInv
  <1> QED
    BY Parts, <1>1, <1>11, <1>12 DEF ShelvesInv, SpentInv

LEMMA ProbeKept ==
    ASSUME ShelvesInv, NEW f \in fetches, S!Probe(f)
    PROVE  ShelvesInv'
  <1>1. UNCHANGED <<mine, history, shelf, aside, runs>> /\ f.path < 4
    BY DEF S!Probe
  <1>2. FetchSound(f, mine) /\ f \in S!Fetch
    BY Parts DEF FetchSound
  <1>3. PICK g : /\ fetches' = (fetches \ {f}) \cup {g}
                 /\ \/ /\ spent' = spent
                       /\ \E ranking \in Rankings :
                            g = [f EXCEPT !.path = 4, !.entries = S!First(ByCount(ranking), Limit)]
                    \/ spent' = spent /\ g = [f EXCEPT !.path = @ + 1]
                    \/ /\ spent.mishaps < MaxMishaps /\ spent' = [spent EXCEPT !.mishaps = @ + 1]
                       /\ g = [f EXCEPT !.path = 4]
    BY DEF S!Probe, S!Put, ByCount
  <1>4. f.path \in 1 .. 4
    BY <1>2 DEF S!Fetch
  <1>5. FetchSound(g, mine)
    <2>1. ASSUME NEW ranking \in Rankings,
                 g = [f EXCEPT !.path = 4, !.entries = S!First(ByCount(ranking), Limit)]
          PROVE  FetchSound(g, mine)
      <3> DEFINE e == S!First(ByCount(ranking), Limit)
      <3>1. ranking \in Seq(S!Entry)
        BY PagesConstants DEF S!ShelvesAssumption
      <3>2. BestOf(ranking, e)
        BY ONLY <3>1, FirstBest
      <3> HIDE DEF e
      <3>3. g = [f EXCEPT !.path = 4, !.entries = e]
        BY <2>1 DEF e
      <3>4. e \in Seq(S!Entry) /\ EntriesOk(e) /\ 4 \in 1 .. 4
        BY ONLY <3>2, ranking \in Rankings DEF BestOf, EntriesOk
      <3>5. g \in S!Fetch /\ g.list = f.list /\ g.entries = e /\ g.asks = f.asks
        BY ONLY <1>2, <3>3, <3>4 DEF S!Fetch
      <3> QED
        BY ONLY <1>2, <3>4, <3>5 DEF FetchSound
    <2>2. ASSUME NEW n \in 1 .. 4, g = [f EXCEPT !.path = n]
          PROVE  FetchSound(g, mine)
      <3>1. g \in S!Fetch /\ g.list = f.list /\ g.entries = f.entries /\ g.asks = f.asks
        BY ONLY <1>2, <2>2 DEF S!Fetch
      <3> QED
        BY ONLY <1>2, <3>1 DEF FetchSound
    <2>3. f.path + 1 \in 1 .. 4 /\ 4 \in 1 .. 4
      BY ONLY <1>1, <1>4
    <2> QED
      BY <1>3, <2>1, <2>2, <2>3
  <1>6. ListsInv'
    BY Parts, <1>1, <1>3, <1>5 DEF ListsInv
  <1>7. SpentInv'
    <2>1. spent' = spent => SpentInv'
      BY Parts DEF SpentInv
    <2> QED
      BY Parts, <1>3, <2>1, MishapSpent
  <1> QED
    BY <1>1, <1>6, <1>7 DEF ShelvesInv, ChosenInv

LEMMA HomeKept ==
    ASSUME ShelvesInv, NEW f \in fetches, S!HomeLoaded(f)
    PROVE  ShelvesInv'
  <1>1. UNCHANGED <<mine, history, aside, spent>> /\ fetches' = fetches \ {f} /\ f.asks = {}
    BY DEF S!HomeLoaded
  <1>2. FetchSound(f, mine) /\ f \in S!Fetch /\ Agrees(f.list, mine)
    BY Parts, <1>1 DEF FetchSound
  <1>3. ListsInv'
    BY Parts, <1>1 DEF ListsInv
  <1>4. CASE f.live
    <2> DEFINE ids == S!IdsOf(S!Curated(f.list))
               s == [shelf EXCEPT !.loading = FALSE, !.has = TRUE, !.fav = f.fav, !.entries = f.entries,
                                  !.curated = ids]
    <2>1. S!Resolve(s, history)
      BY <1>4 DEF S!HomeLoaded
    <2>2. ids \in Seq(Nat) /\ ChosenFrom(ids, mine)
      <3>1. FairCurated(f.list, S!Curated(f.list))
        BY <1>2, CuratedFair DEF Agrees
      <3> QED
        BY <1>2, <3>1, IdsParts DEF FairCurated, ChosenFrom
    <2> HIDE DEF ids
    <2>3. s \in S!Shelf /\ s.entries = f.entries /\ s.curated = ids /\ s.albums = shelf.albums /\ s.missed = shelf.missed
      <3>1. f.fav \in Seq(ShelfTracks) /\ f.entries \in Seq(S!Entry)
        BY <1>2 DEF S!Fetch
      <3>2. shelf \in S!Shelf
        BY Parts
      <3> QED
        BY ONLY <2>2, <3>1, <3>2 DEF S!Shelf
    <2> HIDE DEF s
    <2>4. EntriesOk(s.entries)
      BY <1>2, <2>3 DEF FetchSound
    <2>5. PageSound(shelf', runs', history) /\ shelf'.curated = ids /\ shelf'.albums = shelf.albums /\ shelf'.missed = shelf.missed
      BY Parts, <2>1, <2>3, <2>4, PageResolved
    <2>6. ChosenInv'
      BY Parts, <1>1, <2>2, <2>5 DEF ChosenInv
    <2> QED
      BY <1>1, <1>3, <2>5, <2>6, Parts DEF ShelvesInv, SpentInv
  <1>5. CASE ~f.live
    <2>1. UNCHANGED <<shelf, runs>>
      BY <1>5 DEF S!HomeLoaded
    <2> QED
      BY <1>1, <1>3, <2>1 DEF ShelvesInv, ChosenInv, SpentInv
  <1> QED
    BY <1>4, <1>5

LEMMA DiscoveryKept ==
    ASSUME ShelvesInv, NEW f \in fetches, S!DiscoveryLoaded(f)
    PROVE  ShelvesInv'
  <1>1. UNCHANGED <<mine, history, aside, runs, spent>> /\ fetches' = fetches \ {f} /\ f.asks = {}
    BY DEF S!DiscoveryLoaded
  <1>2. Agrees(f.list, mine) /\ f.list \in Seq(S!Playlist)
    BY Parts, <1>1 DEF FetchSound, Agrees
  <1>3. ListsInv'
    BY Parts, <1>1 DEF ListsInv
  <1>4. CASE f.live
    <2> DEFINE ids == S!IdsOf(S!Curated(f.list))
    <2>0. PICK missed \in SUBSET ShelfTracks :
            shelf' = [shelf EXCEPT !.loading = FALSE, !.curated = ids,
                                   !.albums = S!AdminAlbums(f.list, missed), !.missed = missed]
      BY <1>4 DEF S!DiscoveryLoaded
    <2> DEFINE albums == S!AdminAlbums(f.list, missed)
    <2>1. shelf' = [shelf EXCEPT !.loading = FALSE, !.curated = ids, !.albums = albums,
                                 !.missed = missed]
      BY <2>0
    <2>2. ids \in Seq(Nat) /\ ChosenFrom(ids, mine)
      <3>1. FairCurated(f.list, S!Curated(f.list))
        BY <1>2, CuratedFair
      <3> QED
        BY <1>2, <3>1, IdsParts DEF FairCurated, ChosenFrom
    <2>3. albums \in Seq(Nat) /\ FeaturedFrom(albums, missed, mine)
      BY <1>2, AlbumsFair DEF FairAlbums, FeaturedFrom
    <2> HIDE DEF ids, albums
    <2>4. /\ shelf' \in S!Shelf /\ shelf'.curated = ids /\ shelf'.albums = albums
          /\ shelf'.missed = missed /\ shelf'.at = shelf.at /\ shelf'.has = shelf.has /\ shelf'.fav = shelf.fav
          /\ shelf'.entries = shelf.entries /\ shelf'.popular = shelf.popular /\ shelf'.lost = shelf.lost
      <3>1. shelf \in S!Shelf
        BY Parts
      <3> QED
        BY ONLY <2>1, <2>2, <2>3, <3>1 DEF S!Shelf
    <2>5. PageSound(shelf', runs, history)
      BY Parts, <2>4, PageStill
    <2>6. ChosenInv'
      BY Parts, <1>1, <2>2, <2>3, <2>4 DEF ChosenInv
    <2> QED
      BY <1>1, <1>3, <2>5, <2>6, Parts DEF ShelvesInv, SpentInv
  <1>5. CASE ~f.live
    <2>1. UNCHANGED shelf
      BY <1>5 DEF S!DiscoveryLoaded
    <2> QED
      BY <1>1, <1>3, <2>1 DEF ShelvesInv, ChosenInv, SpentInv
  <1> QED
    BY <1>4, <1>5

LEMMA SidebarKept ==
    ASSUME ShelvesInv, NEW f \in fetches, S!SidebarLoaded(f)
    PROVE  ShelvesInv'
  <1>1. /\ UNCHANGED <<mine, history, shelf, runs, spent>> /\ fetches' = fetches \ {f} /\ f.asks = {}
        /\ aside' = S!IdsOf(S!SideList(f.list))
    BY DEF S!SidebarLoaded
  <1>2. Agrees(f.list, mine) /\ f.list \in Seq(S!Playlist)
    BY Parts, <1>1 DEF FetchSound, Agrees
  <1>3. ListsInv'
    BY Parts, <1>1 DEF ListsInv
  <1>4. aside' \in Seq(Nat) /\ SideFrom(aside', mine)
    <2>1. FairSide(f.list, S!SideList(f.list))
      BY <1>2, SideFair
    <2> QED
      BY <1>1, <1>2, <2>1, IdsParts DEF FairSide, SideFrom
  <1>5. ChosenInv'
    BY Parts, <1>1, <1>4 DEF ChosenInv
  <1> QED
    BY <1>1, <1>3, <1>5 DEF ShelvesInv, SpentInv

LEMMA FailsKept ==
    ASSUME ShelvesInv, NEW f \in fetches, S!LoadFails(f)
    PROVE  ShelvesInv'
  <1>1. /\ spent.mishaps < MaxMishaps /\ spent' = [spent EXCEPT !.mishaps = @ + 1]
        /\ fetches' = fetches \ {f} /\ UNCHANGED <<mine, history, aside, runs>>
        /\ shelf' = shelf \/ shelf' = [shelf EXCEPT !.loading = FALSE]
    BY DEF S!LoadFails
  <1>2. ListsInv'
    BY Parts, <1>1 DEF ListsInv
  <1>3. /\ shelf' \in S!Shelf /\ shelf'.curated = shelf.curated /\ shelf'.albums = shelf.albums /\ shelf'.missed = shelf.missed
        /\ shelf'.at = shelf.at /\ shelf'.has = shelf.has /\ shelf'.fav = shelf.fav
        /\ shelf'.entries = shelf.entries /\ shelf'.popular = shelf.popular /\ shelf'.lost = shelf.lost
    <2>1. shelf \in S!Shelf
      BY Parts
    <2>2. CASE shelf' = shelf
      BY ONLY <2>1, <2>2
    <2>3. CASE shelf' = [shelf EXCEPT !.loading = FALSE]
      BY ONLY <2>1, <2>3 DEF S!Shelf
    <2> QED
      BY ONLY <1>1, <2>2, <2>3
  <1>4. PageSound(shelf', runs, history)
    BY Parts, <1>3, PageStill
  <1>5. ChosenInv'
    BY Parts, <1>1, <1>3 DEF ChosenInv
  <1>6. SpentInv'
    BY Parts, <1>1, MishapSpent
  <1> QED
    BY <1>1, <1>2, <1>4, <1>5, <1>6 DEF ShelvesInv

LEMMA ResolvedKept ==
    ASSUME ShelvesInv, NEW r \in runs, S!Resolved(r)
    PROVE  ShelvesInv'
  <1>1. runs' = runs \ {r} /\ UNCHANGED <<mine, history, aside, fetches>>
    BY DEF S!Resolved
  <1>2. RunSound(r, shelf, history) /\ r \in S!Run /\ r.want \in Seq(S!Entry)
    BY Parts DEF PageSound, RunSound, S!Run
  <1>3. PICK failed \in SUBSET {r.want[i].track : i \in 1 .. Len(r.want)} :
         /\ spent' = spent \/ /\ spent.mishaps < MaxMishaps
                              /\ spent' = [spent EXCEPT !.mishaps = @ + 1]
         /\ shelf' = IF r.live
                     THEN [shelf EXCEPT !.popular =
                             S!Kept(r.want, {i \in 1 .. Len(r.want) : r.want[i].track \notin failed}),
                                        !.lost = failed]
                     ELSE shelf
    BY DEF S!Resolved, S!Where
  <1>4. SpentInv'
    <2>1. spent' = spent => SpentInv'
      BY Parts DEF SpentInv
    <2> QED
      BY Parts, <1>3, <2>1, MishapSpent
  <1>5. ListsInv'
    BY Parts, <1>1 DEF ListsInv
  <1>6. CASE r.live
    <2> DEFINE stay == S!Kept(r.want, {i \in 1 .. Len(r.want) : r.want[i].track \notin failed})
    <2>1. shelf' = [shelf EXCEPT !.popular = stay, !.lost = failed]
      BY <1>3, <1>6
    <2>2. shelf.at = "home" /\ shelf.has /\ Best(r.want, shelf.fav, shelf.entries, history)
      BY <1>2, <1>6 DEF RunSound
    <2>3. failed \subseteq TracksIn(r.want) /\ TracksIn(r.want) \subseteq ToSet(shelf.fav)
      <3>1. Choice(r.want, shelf.fav)
        BY ONLY <2>2 DEF Best
      <3>2. \A t : t \in TracksIn(r.want) <=> \E k \in 1 .. Len(r.want) : r.want[k].track = t
        BY ONLY <1>2, TracksListed
      <3> QED
        BY ONLY <3>1, <3>2, failed \in SUBSET {r.want[i].track : i \in 1 .. Len(r.want)} DEF Choice
    <2>4. shelf \in S!Shelf /\ shelf.fav \in Seq(ShelfTracks) /\ history \in Seq(ShelfTracks)
      BY Parts DEF S!Shelf
    <2>5. stay \in Seq(S!Entry) /\ Current(shelf.fav, shelf.entries, stay, failed, history)
      BY ONLY <2>2, <2>3, <2>4, ShownCurrent
    <2> HIDE DEF stay
    <2>6. failed \in SUBSET ShelfTracks
      <3>1. \A x : x \in ToSet(shelf.fav) => x \in ShelfTracks
        BY ONLY <2>4, InList
      <3> QED
        BY ONLY <2>3, <3>1
    <2>7. /\ shelf' \in S!Shelf /\ shelf'.curated = shelf.curated /\ shelf'.albums = shelf.albums /\ shelf'.missed = shelf.missed
          /\ shelf'.at = shelf.at /\ shelf'.has = shelf.has /\ shelf'.fav = shelf.fav
          /\ shelf'.entries = shelf.entries /\ shelf'.popular = stay /\ shelf'.lost = failed
      BY ONLY <2>1, <2>4, <2>5, <2>6 DEF S!Shelf
    <2>8. \A q \in runs' : RunSound(q, shelf', history)
      BY Parts, <1>1, <2>7 DEF PageSound, RunSound
    <2>9. PageSound(shelf', runs', history)
      BY Parts, <2>5, <2>7, <2>8 DEF PageSound, Settled
    <2>10. ChosenInv'
      BY Parts, <1>1, <2>7 DEF ChosenInv
    <2> QED
      BY <1>1, <1>4, <1>5, <2>9, <2>10 DEF ShelvesInv
  <1>7. CASE ~r.live
    <2>1. shelf' = shelf
      BY <1>3, <1>7
    <2>2. PageSound(shelf', runs', history)
      BY Parts, <1>1, <1>7, <2>1 DEF PageSound, Settled
    <2>3. ChosenInv'
      BY Parts, <1>1, <2>1 DEF ChosenInv
    <2> QED
      BY <1>1, <1>4, <1>5, <2>2, <2>3 DEF ShelvesInv
  <1> QED
    BY <1>6, <1>7

LEMMA ShelvesGoOn == ShelvesInv /\ [S!Next]_(S!vars) => ShelvesInv'
  <1> SUFFICES ASSUME ShelvesInv, [S!Next]_(S!vars)
               PROVE  ShelvesInv'
    OBVIOUS
  <1>1. CASE UNCHANGED S!vars
    BY <1>1 DEF S!vars, ShelvesInv, ListsInv, ChosenInv, SpentInv
  <1>2. CASE \E place \in S!Places : S!Open(place)
    BY <1>2, OpenKept
  <1>3. CASE \E t \in ShelfTracks : S!PlayTrack(t) \/ S!ToggleFavorite(t)
    BY <1>3, PlayKept, ToggleKept
  <1>4. CASE \E f \in fetches :
               \/ S!ListAnswered(f) \/ S!FavoritesAnswered(f) \/ S!Probe(f) \/ S!LoadFails(f)
               \/ S!HomeLoaded(f) \/ S!DiscoveryLoaded(f) \/ S!SidebarLoaded(f)
    BY <1>4, ListKept, FavoritesAnswerKept, ProbeKept, FailsKept, HomeKept, DiscoveryKept, SidebarKept
  <1>5. CASE \E r \in runs : S!Resolved(r)
    BY <1>5, ResolvedKept
  <1> QED
    BY <1>1, <1>2, <1>3, <1>4, <1>5 DEF S!Next

LEMMA ShelvesStart == S!Init => ShelvesInv
  <1> SUFFICES ASSUME S!Init
               PROVE  ShelvesInv
    OBVIOUS
  <1>1. MaxActs \in Nat /\ MaxMishaps \in Nat
    BY PagesConstants DEF S!ShelvesAssumption
  <1>2. /\ mine \in Listings /\ history \in Histories
        /\ shelf = [S!Mounted("away") EXCEPT !.loading = FALSE]
        /\ aside = << >> /\ fetches = {S!NewFetch("aside")} /\ runs = {}
        /\ spent = [acts |-> 0, mishaps |-> 0]
    BY DEF S!Init
  <1>3. mine \in Seq(S!Playlist) /\ history \in Seq(ShelfTracks)
    BY <1>2, PagesConstants DEF S!ShelvesAssumption
  <1>4. Apart(mine)
    BY <1>2, PagesConstants DEF S!ShelvesAssumption, Apart
  <1>5. \A f \in fetches : FetchSound(f, mine)
    BY <1>2, NewFetchSound
  <1>6. shelf \in S!Shelf /\ shelf.at = "away" /\ shelf.curated = << >> /\ shelf.albums = << >> /\ shelf.entries = << >>
    <2>1. S!Mounted("away") \in S!Shelf /\ S!Mounted("away").entries = << >>
          /\ S!Mounted("away").curated = << >> /\ S!Mounted("away").albums = << >>
      BY MountedSound DEF S!Places
    <2>2. S!Mounted("away").at = "away"
      BY DEF S!Mounted
    <2> QED
      BY ONLY <1>2, <2>1, <2>2 DEF S!Shelf
  <1>7. PageSound(shelf, runs, history)
    BY <1>2, <1>6 DEF PageSound, Settled, EntriesOk
  <1>8. ChosenInv
    BY <1>2, <1>6, << >> \in Seq(Nat) DEF ChosenInv, ChosenFrom, FeaturedFrom, SideFrom
  <1>9. SpentInv
    BY <1>1, <1>2 DEF SpentInv
  <1> QED
    BY <1>3, <1>4, <1>5, <1>7, <1>8, <1>9 DEF ShelvesInv, ListsInv

LEMMA ShelvesTyped == ShelvesInv => S!TypeOK
  <1> SUFFICES ASSUME ShelvesInv
               PROVE  S!TypeOK
    OBVIOUS
  <1>1. fetches \subseteq S!Fetch
    BY Parts DEF FetchSound
  <1> QED
    BY Parts, <1>1 DEF S!TypeOK, SpentInv

LEMMA ShelvesShow == ShelvesInv => S!ShelvesAsRanked
  <1> SUFFICES ASSUME ShelvesInv
               PROVE  S!ShelvesAsRanked
    OBVIOUS
  <1>1. S!ShelvesFair
    BY Parts, FairShows
  <1>2. S!EntriesAreBest
    BY Parts, EntriesShow
  <1>3. ASSUME shelf.at = "home", shelf.has, \A r \in runs : ~r.live
        PROVE  S!PopularIsCurrent
    BY Parts, <1>3, CurrentShows DEF PageSound, Settled
  <1> QED
    BY <1>1, <1>2, <1>3 DEF S!ShelvesAsRanked

-----------------------------------------------------------------------------
(* The types of all parts *)

AnswersLost == unanswered \in 0 .. MaxFailures

LEMMA AnswersLostStart == B!Init => AnswersLost
  BY FavoritesAssumption DEF B!Init, AnswersLost

LEMMA AnswersLostKept == AnswersLost /\ [B!Next]_(B!vars) => AnswersLost'
  <1> SUFFICES ASSUME AnswersLost, [B!Next]_(B!vars)
               PROVE  AnswersLost'
    OBVIOUS
  <1>1. MaxFailures \in Nat
    BY FavoritesAssumption
  <1>2. unanswered' = unanswered \/ (unanswered < MaxFailures /\ unanswered' = unanswered + 1)
    <2>1. CASE UNCHANGED B!vars
      BY <2>1 DEF B!vars
    <2>2. CASE B!Browsing
      <3>1. ASSUME NEW u \in B!Urls, B!Open(u)
            PROVE  unanswered' = unanswered
        BY <3>1 DEF B!Open
      <3>2. ASSUME NEW l \in loads, B!Answer(l)
            PROVE  <1>2
        BY <3>2 DEF B!Answer
      <3>3. ASSUME NEW l \in loads, B!AlbumLoaded(l) \/ B!ArtistLoaded(l) \/ B!PlaylistLoaded(l)
            PROVE  unanswered' = unanswered
        BY <3>3 DEF B!AlbumLoaded, B!ArtistLoaded, B!PlaylistLoaded
      <3> QED
        BY <2>2, <3>1, <3>2, <3>3 DEF B!Browsing
    <2>3. CASE B!Reading
      <3>1. CASE B!Import \/ B!CountTracks \/ B!ListTracks
        BY <3>1 DEF B!Import, B!CountTracks, B!ListTracks
      <3>2. CASE B!ReadFails
        BY <3>2 DEF B!ReadFails
      <3>3. ASSUME NEW who, B!Reread(who)
            PROVE  unanswered' = unanswered
        BY <3>3 DEF B!Reread
      <3> QED
        BY <2>3, <3>1, <3>2, <3>3 DEF B!Reading
    <2> QED
      BY <2>1, <2>2, <2>3 DEF B!Next
  <1> QED
    BY <1>1, <1>2 DEF AnswersLost

LEMMA NamesAre ==
    /\ MaxEdits \in Nat /\ MaxAsked \in Nat /\ MaxMishaps \in Nat
    /\ 0 \in N!Name /\ 1 \in N!Version /\ N!Absent \in N!Name /\ N!Unknown \in N!Name
    /\ N!Version \subseteq N!Name /\ N!Version = 1 .. MaxEdits + 1
  BY PagesConstants DEF N!NamesAssumption, N!Absent, N!Unknown, N!Version, N!Name

LEMMA NoCallTyped == N!NoCall \in N!Call /\ N!Nothing \in [Ids -> N!Row]
  BY NamesAre DEF N!NoCall, N!Call, N!Nothing, N!Row, N!Ways

LEMMA NamesTypedStart == N!Init => N!TypeOK
  <1> SUFFICES ASSUME N!Init
               PROVE  N!TypeOK
    OBVIOUS
  <1>1. tags \in [Ids -> N!Row]
    BY NamesAre DEF N!Init, N!Row
  <1>2. /\ artist = 1 /\ album = 1 /\ call = N!NoCall /\ asked = 0 /\ lost = 0
        /\ named = [row |-> N!Nothing, call |-> N!NoCall]
    BY DEF N!Init
  <1> QED
    BY <1>1, <1>2, NoCallTyped, NamesAre DEF N!TypeOK

LEMMA CallFields ==
    ASSUME NEW c \in N!Call
    PROVE  /\ c.how \in N!Ways /\ c.of \in SUBSET Ids /\ c.wants \in SUBSET {"artist", "album"}
           /\ c.has \in [artist: N!Name, album: N!Name]
           /\ c.from \in [artist: N!Version, album: N!Version]
           /\ c.has.artist \in N!Name /\ c.has.album \in N!Name
  BY DEF N!Call

LEMMA AskTyped ==
    ASSUME N!TypeOK, NEW how \in N!Ways, NEW of \in SUBSET Ids,
           NEW wants \in SUBSET {"artist", "album"}, N!Ask(how, of, wants)
    PROVE  N!TypeOK'
  <1>1. /\ asked < MaxAsked /\ asked' = asked + 1
        /\ call' = [how |-> how, of |-> of, wants |-> wants, has |-> N!NoCall.has,
                    from |-> [artist |-> artist, album |-> album]]
        /\ UNCHANGED <<tags, artist, album, named, lost>>
    BY DEF N!Ask
  <1>2. asked' \in 0 .. MaxAsked
    BY <1>1, NamesAre DEF N!TypeOK
  <1>3. N!NoCall.has \in [artist: N!Name, album: N!Name]
    BY NoCallTyped, CallFields
  <1>4. artist \in N!Version /\ album \in N!Version
    BY DEF N!TypeOK
  <1>5. call' \in N!Call
    BY ONLY <1>1, <1>3, <1>4, how \in N!Ways, of \in SUBSET Ids, wants \in SUBSET {"artist", "album"}
    DEF N!Call
  <1> QED
    BY <1>1, <1>2, <1>5 DEF N!TypeOK

LEMMA AnswerTyped ==
    ASSUME N!TypeOK, NEW which \in {"artist", "album"}, N!Answer(which)
    PROVE  N!TypeOK'
  <1> DEFINE n == IF which = "artist" THEN artist ELSE album
  <1>1. /\ UNCHANGED <<tags, artist, album, named, asked>>
        /\ \/ call' = [call EXCEPT !.wants = @ \ {which}, !.has[which] = n] /\ lost' = lost
           \/ /\ lost < MaxMishaps /\ lost' = lost + 1
              /\ call' = [call EXCEPT !.wants = @ \ {which}]
    BY DEF N!Answer
  <1>2. call \in N!Call /\ n \in N!Name /\ lost \in 0 .. MaxMishaps
    BY NamesAre DEF N!TypeOK
  <1> HIDE DEF n
  <1>3. lost' \in 0 .. MaxMishaps
    BY ONLY <1>1, <1>2, NamesAre
  <1>4. [call.has EXCEPT ![which] = n] \in [artist: N!Name, album: N!Name]
    BY ONLY <1>2, CallFields, which \in {"artist", "album"}
  <1>5. [call EXCEPT !.wants = @ \ {which}, !.has[which] = n] \in N!Call
    <2> DEFINE h == [call.has EXCEPT ![which] = n]
    <2>1. [call EXCEPT !.wants = @ \ {which}, !.has[which] = n] =
              [call EXCEPT !.wants = @ \ {which}, !.has = h]
      BY <1>2 DEF N!Call
    <2>2. h \in [artist: N!Name, album: N!Name]
      BY <1>4
    <2> HIDE DEF h
    <2>3. [call EXCEPT !.wants = @ \ {which}, !.has = h] \in N!Call
      BY ONLY <1>2, <2>2 DEF N!Call
    <2> QED
      BY ONLY <2>1, <2>3
  <1>6. [call EXCEPT !.wants = @ \ {which}] \in N!Call
    BY ONLY <1>2 DEF N!Call
  <1>7. call' \in N!Call
    BY ONLY <1>1, <1>5, <1>6
  <1> QED
    BY <1>1, <1>3, <1>7 DEF N!TypeOK

LEMMA MapTyped ==
    ASSUME N!TypeOK, N!MapTracks
    PROVE  N!TypeOK'
  <1> DEFINE row == [t \in Ids |->
                     IF t \notin call.of THEN N!Nothing[t]
                     ELSE [artist |-> N!Named(call.has.artist, tags[t].artist, N!Unknown),
                           album |-> N!Named(call.has.album, tags[t].album, N!Unknown),
                           cover |-> N!Named(call.has.album, tags[t].cover, N!Absent)]]
  <1>1. /\ UNCHANGED <<tags, artist, album, asked, lost>> /\ call' = N!NoCall
        /\ named' = [call |-> call, row |-> row]
    BY DEF N!MapTracks
  <1>2. call \in N!Call /\ tags \in [Ids -> N!Row]
    BY DEF N!TypeOK
  <1>3. ASSUME NEW a \in N!Name, NEW b \in N!Name, NEW c \in N!Name
        PROVE  N!Named(a, b, c) \in N!Name
    BY DEF N!Named
  <1>4. ASSUME NEW t \in Ids
        PROVE  row[t] \in N!Row
    <2>1. N!Nothing[t] \in N!Row
      BY NoCallTyped
    <2>2. tags[t].artist \in N!Name /\ tags[t].album \in N!Name /\ tags[t].cover \in N!Name
      BY <1>2 DEF N!Row
    <2>3. call.has.artist \in N!Name /\ call.has.album \in N!Name
      BY <1>2, CallFields
    <2>4. /\ N!Named(call.has.artist, tags[t].artist, N!Unknown) \in N!Name
          /\ N!Named(call.has.album, tags[t].album, N!Unknown) \in N!Name
          /\ N!Named(call.has.album, tags[t].cover, N!Absent) \in N!Name
      BY <1>3, <2>2, <2>3, NamesAre
    <2> QED
      BY <2>1, <2>4 DEF N!Row
  <1>5. row \in [Ids -> N!Row]
    BY <1>4
  <1> HIDE DEF row
  <1>6. named' \in [row: [Ids -> N!Row], call: N!Call]
    BY ONLY <1>1, <1>2, <1>5
  <1> QED
    BY <1>1, <1>2, <1>6, NoCallTyped DEF N!TypeOK

LEMMA NamesTypedKept == N!TypeOK /\ [N!Next]_(N!vars) => N!TypeOK'
  <1> SUFFICES ASSUME N!TypeOK, [N!Next]_(N!vars)
               PROVE  N!TypeOK'
    OBVIOUS
  <1>1. CASE UNCHANGED N!vars
    BY <1>1 DEF N!vars, N!TypeOK
  <1>2. CASE N!RenameArtist
    BY <1>2, NamesAre DEF N!RenameArtist, N!TypeOK
  <1>3. CASE N!EditAlbum
    BY <1>3, NamesAre DEF N!EditAlbum, N!TypeOK
  <1>4. CASE N!ListTracks
    <2>1. N!Needs(Ids) \in SUBSET {"artist", "album"}
      BY DEF N!Needs
    <2>2. "list" \in N!Ways
      BY DEF N!Ways
    <2> QED
      BY <1>4, <2>1, <2>2, AskTyped DEF N!ListTracks
  <1>5. ASSUME NEW t \in Ids, N!GetTrack(t) \/ N!UpdateTrack(t)
        PROVE  N!TypeOK'
    <2>1. "get" \in N!Ways /\ "update" \in N!Ways
      BY DEF N!Ways
    <2> QED
      BY <1>5, <2>1, AskTyped DEF N!GetTrack, N!UpdateTrack
  <1>6. CASE N!MapTracks
    BY <1>6, MapTyped
  <1>7. ASSUME NEW which \in {"artist", "album"}, N!Answer(which)
        PROVE  N!TypeOK'
    BY <1>7, AnswerTyped
  <1> QED
    BY <1>1, <1>2, <1>3, <1>4, <1>5, <1>6, <1>7 DEF N!Next

-----------------------------------------------------------------------------
(* The parts together *)

PagesInv ==
    /\ FavoritesInv
    /\ DetailInv /\ ReaderInv /\ AnswersLost
    /\ ShelvesInv
    /\ NamesInv /\ N!TypeOK

LEMMA PagesStep ==
    [PagesNext]_<<part, vars, browsing, others>> =>
        [Next]_vars /\ [B!Next]_(B!vars) /\ [S!Next]_(S!vars) /\ [N!Next]_(N!vars)
  BY DEF PagesNext, browsing, others, shelves, naming, B!Next, B!vars, B!pages, B!library,
         S!vars, N!vars

\* Favorites and the dialogs, the pages that are open, the reading of the library and the
\* call for the names are sound at every moment, whatever is clicked, answered late,
\* lost, imported or edited meanwhile (lib/library.ts, TrackActionsModal,
\* AddToPlaylistModal, AlbumPage, ArtistPage, PlaylistDetailPage, fetchAllTracks, mapTrack).
THEOREM PagesInvariance == PagesSpec => []PagesInv
  <1>1. PagesInit => PagesInv
    BY FavoritesAtFirst, DetailStart, ReaderInit, AnswersLostStart, ShelvesStart, NamesStart,
       NamesTypedStart
       DEF PagesInit, PagesInv
  <1>2. PagesInv /\ [PagesNext]_<<part, vars, browsing, others>> => PagesInv'
    BY PagesStep, FavoritesGoOn, DetailKept, ReaderKept, AnswersLostKept, ShelvesGoOn,
       NamesKept, NamesTypedKept
       DEF PagesInv
  <1> QED
    BY <1>1, <1>2, PTL DEF PagesSpec

\* A listener has one Favorites, for any number of tasks, playlists and failures, unless two
\* tasks looked for it in vain at one time or an answer had no room for it
\* (ensureUserFavoritesPlaylist).
THEOREM FavoritesAreOne == PagesSpec => []FavoritesOnce
  <1>1. PagesInv => FavoritesOnce
    BY FoundOnce DEF PagesInv, FavoritesInv
  <1> QED
    BY <1>1, PagesInvariance, PTL

\* When the tasks have ended nothing waits, and what the pages and dialogs show is what is
\* stored, if no request failed and the changes ran alone; an addition that is reported was
\* made (TrackActionsModal, AddToPlaylistModal, useLibraryQuickAdd, LibraryPage, PlaylistsPage).
THEOREM SettledShows == PagesSpec => []SettledIsTrue
  <1>1. PagesInv => SettledIsTrue
    BY QuietSettled DEF PagesInv, FavoritesInv
  <1> QED
    BY <1>1, PagesInvariance, PTL

\* A page shows what its address names, however late the answers of other addresses are,
\* and never waits for nothing (AlbumPage apart from album to album).
THEOREM AddressIsShown == PagesSpec => []ShownIsAsked
  <1>1. PagesInv => ShownIsAsked
    BY DetailShows DEF PagesInv, ShownIsAsked
  <1> QED
    BY <1>1, PagesInvariance, PTL

\* Who reads the library page by page, with pages of any size and any number of imports
\* meanwhile, has every track that was there at the beginning, unless an import came
\* between the count and the list of the last page (fetchAllTracks, list_all_tracks).
THEOREM LibraryIsRead == PagesSpec => []EveryTrackListed
  <1>1. PagesInv => EveryTrackListed
    BY ReaderLists DEF PagesInv, EveryTrackListed
  <1> QED
    BY <1>1, PagesInvariance, PTL

\* The name of a track comes from its row or from what the import wrote, for any number
\* of edits and lost requests (fetchArtistsById, fetchAlbumsById, mapTrack).
THEOREM NamesAreTrue == PagesSpec => []NamesHaveSource
  <1>1. PagesInv => NamesHaveSource
    BY NamesSay DEF PagesInv, NamesHaveSource
  <1> QED
    BY <1>1, PagesInvariance, PTL

\* What the home page, Discovery and the sidebar show when their work has ended is the
\* ranking their code promises of what was read, for any playlists, orders, answers and
\* histories: the best choice of favorites for Popular (whatever run was cancelled or lost),
\* and for albums, curated lists and the sidebar exactly the playlists that belong there,
\* best or newest first (HomePage.tsx, DiscoveryPage.tsx, Sidebar.tsx).
THEOREM ShelvesRanked == PagesSpec => []ShelvesAsRanked
  <1>1. PagesInv => ShelvesAsRanked
    BY ShelvesShow DEF PagesInv, ShelvesAsRanked
  <1> QED
    BY <1>1, PagesInvariance, PTL

\* Every part's state has its type at every moment, for any values of the constants.
THEOREM PagesTypes == PagesSpec => []PagesTypeOK
  <1>1. PagesInv => TypeOK
    BY FavoritesTypes DEF PagesInv, FavoritesInv
  <1>2. PagesInv => B!TypeOK
    BY DEF PagesInv, DetailInv, PagesTyped, ReaderInv, AnswersLost, B!TypeOK
  <1>3. PagesInv => S!TypeOK
    BY ShelvesTyped DEF PagesInv
  <1>4. PagesInv => N!TypeOK
    BY DEF PagesInv
  <1>5. PagesInv => PagesTypeOK
    BY <1>1, <1>2, <1>3, <1>4 DEF PagesTypeOK
  <1> QED
    BY <1>5, PagesInvariance, PTL
=============================================================================
