--------------------------- MODULE MCPlayerPages ---------------------------
(***************************************************************************)
(* Instances of Favorites, Browse, Shelves and Names.  A behaviour is one  *)
(* of one of them, or of one of the halves of Browse, as part says: they   *)
(* share no state.                                                         *)
(***************************************************************************)
EXTENDS Favorites

CONSTANTS t1, t2, Ids, TracksPerPage, MaxTracks, MaxLoads,
          ShelfTracks, Listings, Histories, Rankings, Limit, MaxFeatured, MaxHistory,
          MaxActs, MaxEdits, MaxAsked, MaxMishaps

VARIABLES
    part, url, visited, view, loads, opened, size, reader, unanswered,
    mine, history, shelf, aside, fetches, runs, spent,
    tags, artist, album, call, named, asked, lost

MCTracks == {t1, t2}

\* Playlists, the last updated first, with and without Favorites, curated and featured
\* ones; what the analytics answer; and what was played before.
List(id, kind, tracks) == [id |-> id, kind |-> kind, tracks |-> tracks]
MCListings ==
    {<<List(1, "favorites", <<1, 2, 3>>), List(2, "ml", <<1>>), List(3, "plain", <<1, 2, 3>>),
       List(4, "human", <<3, 1>>), List(5, "mix", <<2>>)>>,
     <<List(9, "legacy", <<3>>), List(3, "plain", <<1>>), List(4, "featured", <<1, 2, 3>>),
       List(6, "plain", <<2>>)>>,
     <<List(3, "plain", <<1>>), List(8, "favorites", << >>)>>}
MCRankings == {<<[track |-> 3, count |-> 2], [track |-> 2, count |-> 3], [track |-> 1, count |-> 9]>>}
MCHistories == {<< >>, <<2, 1, 2>>}

B == INSTANCE Browse WITH begun <- opened, failures <- unanswered, PageSize <- TracksPerPage
S == INSTANCE Shelves WITH Tracks <- ShelfTracks
N == INSTANCE Names WITH shown <- named, Items <- Ids, MaxLost <- MaxMishaps

ASSUME PagesConstants ==
    B!BrowseAssumption /\ S!ShelvesAssumption /\ N!NamesAssumption

browsing == <<url, visited, view, loads, opened, size, reader, unanswered>>
shelves == <<mine, history, shelf, aside, fetches, runs, spent>>
naming == <<tags, artist, album, call, named, asked, lost>>
others == <<shelves, naming>>

\* The parts that are away have one initial state.
PagesInit ==
    /\ part \in {"favorites", "browsing", "reading", "shelves", "names"}
    /\ Init /\ B!Init /\ S!Init /\ N!Init
    /\ part # "favorites" => lists = << >>
    /\ part # "shelves" => Len(mine) = 2 /\ history = << >>
    /\ part # "names" => \A t \in Ids : tags[t].artist = N!Absent

PagesNext ==
    \/ part = "favorites" /\ Next /\ UNCHANGED <<part, browsing, others>>
    \/ part = "browsing" /\ B!Browsing /\ UNCHANGED <<part, vars, others>>
    \/ part = "reading" /\ B!Reading /\ UNCHANGED <<part, vars, others>>
    \/ part = "shelves" /\ S!Next /\ UNCHANGED <<part, vars, browsing, naming>>
    \/ part = "names" /\ N!Next /\ UNCHANGED <<part, vars, browsing, shelves>>

PagesSpec == PagesInit /\ [][PagesNext]_<<part, vars, browsing, others>>

\* What Browse states of the detail pages and of the reading of the library,
ShownIsAsked == part = "browsing" => B!ShownIsAsked
EveryTrackListed == part = "reading" => B!EveryTrackListed

\* Shelves of what is chosen for a listener,
ShelvesAsRanked == part = "shelves" => S!ShelvesAsRanked

\* and Names of what a track is called.
NamesHaveSource == part = "names" => N!NamesHaveSource

\* The types of all.
PagesTypeOK ==
    CASE part = "favorites" -> TypeOK
      [] part \in {"browsing", "reading"} -> B!TypeOK
      [] part = "shelves" -> S!TypeOK
      [] OTHER -> N!TypeOK
=============================================================================
