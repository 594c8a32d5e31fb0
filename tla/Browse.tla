------------------------------- MODULE Browse -------------------------------
(***************************************************************************)
(* What a listener browses: the detail pages of the player application     *)
(* (web/apps/player/src/pages: AlbumPage, ArtistPage, PlaylistDetailPage), *)
(* whose loads are answered in any order while links and the browser's     *)
(* history lead on, and the paged reading of the whole library, by         *)
(* DiscoveryPage and by the prewarm of the gateway, while imports add      *)
(* tracks to it.  A page and what it loads in one Promise.all are one load *)
(* here.  Answers 401 end the session: they are module Session.            *)
(***************************************************************************)
EXTENDS Naturals, Sequences, SequencesExt, FiniteSets

CONSTANTS
    Ids,          \* albums, artists and playlists by number
    PageSize,     \* tracks in one answer of the catalog
    MaxTracks,    \* bound on the tracks imported
    MaxLoads,     \* bound on the loads begun
    MaxFailures   \* bound on the requests that fail

BrowseAssumption ==
    /\ Ids \subseteq Nat \ {0} /\ PageSize \in Nat \ {0}
    /\ MaxTracks \in Nat \ {0} /\ MaxLoads \in Nat /\ MaxFailures \in Nat

VARIABLES
    url,       \* the route: a page and the id in its path
    visited,   \* the entries of the browser's history
    view,      \* the state of the page that is open
    loads,     \* the loads that have not been taken up yet
    begun,     \* counter behind MaxLoads
    size,      \* the tracks of the catalog: 1 .. size, in the order of their import
    reader,    \* the reading of the library that is under way
    failures   \* counter behind MaxFailures

pages == <<url, visited, view, loads, begun>>
library == <<size, reader>>
vars == <<pages, library, failures>>

-----------------------------------------------------------------------------
None == 0
Urls == [page: {"album", "artist", "playlist"}, id: Ids] \cup [page: {"discovery"}, id: {None}]

\* data is the id of what setAlbum, setArtist or setPlaylist was given last; reused:
\* history, the mounted page got another id.
View == [data: Ids \cup {None}, loading: BOOLEAN, error: BOOLEAN, reused: BOOLEAN]
Mounted == [data |-> None, loading |-> TRUE, error |-> FALSE, reused |-> FALSE]

\* live: the effect that began the load has not been cleaned up; mounted: nor has the
\* page been left since.
Load == [n: 1 .. MaxLoads, at: Urls, live: BOOLEAN, mounted: BOOLEAN,
         answer: {"none", "ok", "error"}]

\* counted is the total of the last answer (while a request is served: of the count);
\* start, and crossed: history, the size at the beginning, and an import between the
\* count and the list of the last request.
Reader == [who: {"discovery", "prewarm"}, step: {"ask", "counted", "done", "failed"},
           page: 1 .. MaxTracks + 1, pages: 1 .. MaxTracks + 1, counted: 0 .. MaxTracks,
           got: Seq(1 .. MaxTracks), start: 0 .. MaxTracks, crossed: BOOLEAN]

TypeOK ==
    /\ url \in Urls /\ visited \subseteq Urls /\ url \in visited
    /\ view \in View
    /\ loads \subseteq Load /\ begun \in 0 .. MaxLoads
    /\ \A l, m \in loads : l.n = m.n => l = m
    /\ size \in 0 .. MaxTracks /\ reader \in Reader
    /\ failures \in 0 .. MaxFailures

Start(who, n) == [who |-> who, step |-> "ask", page |-> 1, pages |-> 1, counted |-> 0,
                  got |-> << >>, start |-> n, crossed |-> FALSE]

\* The listener begins on the page that lists the library.
Init ==
    /\ url = [page |-> "discovery", id |-> None] /\ visited = {url}
    /\ view = Mounted /\ loads = {} /\ begun = 0
    /\ size = 1 /\ reader = Start("discovery", 1) /\ failures = 0

-----------------------------------------------------------------------------
(* The detail pages *)

\* A link leads to a playlist from everywhere (the sidebar), to an album from a card
\* or a track of another page, and back or forward to what was visited.  An artist's
\* page is opened by its address.
Reachable(u) ==
    /\ u # url /\ u.page # "discovery"
    /\ \/ u.page \in {"playlist", "artist"}
       \/ u.page = "album" /\ url.page # "album"
       \/ u \in visited

\* Mutant: the effect is not cleaned up.
LeftUncancelled(l, u) == [l EXCEPT !.mounted = @ /\ u.page = l.at.page]

\* The clean-up of the effect, and of the page when another one is opened.
Left(l, u) == [l EXCEPT !.live = FALSE, !.mounted = @ /\ u.page = l.at.page]

\* A page of the same kind stays mounted with what it has loaded.  ArtistPage and
\* PlaylistDetailPage begin anew; AlbumPage goes on showing the last album.
Again(u) ==
    IF u.page = "album" THEN [view EXCEPT !.reused = TRUE]
    ELSE [view EXCEPT !.loading = TRUE, !.error = FALSE, !.reused = TRUE]

Open(u) ==
    /\ Reachable(u) /\ begun < MaxLoads
    /\ url' = u /\ visited' = visited \cup {u} /\ begun' = begun + 1
    /\ view' = IF u.page = url.page THEN Again(u) ELSE Mounted
    /\ loads' = {Left(l, u) : l \in loads} \cup
                {[n |-> begun + 1, at |-> u, live |-> TRUE, mounted |-> TRUE, answer |-> "none"]}
    /\ UNCHANGED <<library, failures>>

\* All the requests of a load are answered, or one has failed.
Answer(l) ==
    /\ l.answer = "none"
    /\ \E how \in {"ok", "error"} :
         /\ IF how = "ok" THEN UNCHANGED failures
            ELSE failures < MaxFailures /\ failures' = failures + 1
         /\ loads' = (loads \ {l}) \cup {[l EXCEPT !.answer = how]}
    /\ UNCHANGED <<url, visited, view, begun, library>>

\* AlbumPage takes any answer; a failed one leaves the album of the last.
AlbumLoaded(l) ==
    /\ l.at.page = "album" /\ l.answer # "none"
    /\ view' = IF ~l.mounted THEN view
               ELSE IF l.answer = "error" THEN [view EXCEPT !.loading = FALSE]
               ELSE [view EXCEPT !.loading = FALSE, !.data = l.at.id]
    /\ loads' = loads \ {l}
    /\ UNCHANGED <<url, visited, begun, library, failures>>

\* ArtistPage keeps the last artist behind its error.
ArtistLoaded(l) ==
    /\ l.at.page = "artist" /\ l.answer # "none"
    /\ view' = IF ~l.live THEN view
               ELSE IF l.answer = "error" THEN [view EXCEPT !.loading = FALSE, !.error = TRUE]
               ELSE [view EXCEPT !.loading = FALSE, !.data = l.at.id]
    /\ loads' = loads \ {l}
    /\ UNCHANGED <<url, visited, begun, library, failures>>

\* PlaylistDetailPage drops it.
PlaylistLoaded(l) ==
    /\ l.at.page = "playlist" /\ l.answer # "none"
    /\ view' = IF ~l.live THEN view
               ELSE [view EXCEPT !.loading = FALSE, !.error = l.answer = "error",
                                 !.data = IF l.answer = "error" THEN None ELSE l.at.id]
    /\ loads' = loads \ {l}
    /\ UNCHANGED <<url, visited, begun, library, failures>>

-----------------------------------------------------------------------------
(* The reading of the library *)

\* An import adds a track; the list is ordered by created_at, the newest first.
Import ==
    /\ size < MaxTracks /\ size' = size + 1
    /\ reader' = [reader EXCEPT !.crossed = reader.step = "counted" \/ @]
    /\ UNCHANGED <<pages, failures>>

\* list_tracks of the catalog counts the tracks first,
CountTracks ==
    /\ reader.step = "ask"
    /\ reader' = [reader EXCEPT !.step = "counted", !.counted = size, !.crossed = FALSE]
    /\ UNCHANGED <<pages, size, failures>>

Lesser(a, b) == IF a < b THEN a ELSE b

\* The rows at an offset of the list, the newest first.
Rows(n, page) ==
    LET from == (page - 1) * PageSize
    IN  IF from >= n THEN << >>
        ELSE [i \in 1 .. Lesser(PageSize, n - from) |-> n - from - (i - 1)]

PagesOf(n) == (n + PageSize - 1) \div PageSize
Larger(a, b) == IF a > b THEN a ELSE b

\* Mutant: the number of pages of the first answer is kept.
PagesFirst(r) == IF r.page = 1 THEN Larger(PagesOf(r.counted), 1) ELSE r.pages

\* fetchAllTracks; list_all_tracks does without the page, which changes nothing.
PagesToRead(r) == Larger(PagesOf(r.counted), IF r.who = "discovery" THEN r.page ELSE 1)

\* then lists a page of them, and the reader asks for the next one, or is done.
ListTracks ==
    /\ reader.step = "counted"
    /\ LET n == PagesToRead(reader)
       IN  reader' = [reader EXCEPT !.got = @ \o Rows(size, reader.page), !.pages = n,
               !.page = @ + 1, !.step = IF reader.page < n THEN "ask" ELSE "done"]
    /\ UNCHANGED <<pages, size, failures>>

\* A request fails: nothing of what was read is used.
ReadFails ==
    /\ reader.step \in {"ask", "counted"} /\ failures < MaxFailures
    /\ failures' = failures + 1
    /\ reader' = [reader EXCEPT !.step = "failed"]
    /\ UNCHANGED <<pages, size>>

\* The page is opened again, or a scan ends and the prewarm begins.
Reread(who) ==
    /\ reader.step \in {"done", "failed"} /\ reader' = Start(who, size)
    /\ UNCHANGED <<pages, size, failures>>

-----------------------------------------------------------------------------
Browsing ==
    \/ \E u \in Urls : Open(u)
    \/ \E l \in loads : Answer(l) \/ AlbumLoaded(l) \/ ArtistLoaded(l) \/ PlaylistLoaded(l)

Reading ==
    \/ Import \/ CountTracks \/ ListTracks \/ ReadFails
    \/ \E who \in {"discovery", "prewarm"} : Reread(who)

Next == Browsing \/ Reading

Spec == Init /\ [][Next]_vars

-----------------------------------------------------------------------------
(* Properties *)

\* A page shows what its address names, however late the answers of other addresses
\* are, and is not left without an answer under way while it waits.  AlbumPage takes
\* any answer and is exempt where the history led from one album to another.
ShownIsAsked ==
    /\ url.page # "discovery" /\ ~view.loading /\ ~view.error /\ view.data # None =>
           \/ view.data = url.id
           \/ url.page = "album" /\ view.reused
    /\ url.page # "discovery" /\ view.loading => \E l \in loads : l.at = url /\ l.mounted

\* Who reads the library page by page while imports shift its pages has every track
\* that was there when the reading began, unless a track came between the count and
\* the list of the last page; a track comes twice only if there was an import.
EveryTrackListed ==
    reader.step = "done" =>
        /\ ~reader.crossed => 1 .. reader.start \subseteq ToSet(reader.got)
        /\ size = reader.start => Len(reader.got) = size
=============================================================================
