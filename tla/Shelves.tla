------------------------------ MODULE Shelves ------------------------------
(***************************************************************************)
(* The shelves of the player application: what HomePage, DiscoveryPage and *)
(* the Sidebar choose from the listener's playlists, the popular favorites *)
(* of HomePage, whose inputs change while the tracks of an earlier choice  *)
(* are still being fetched, and the analytics paths HomePage tries one     *)
(* after the other.  Playlists are numbered in the order of their names,   *)
(* and kind stands for what the patterns of lib/curation.ts find in a name *)
(* and its description.                                                    *)
(***************************************************************************)
EXTENDS Naturals, Sequences, SequencesExt, FiniteSets

CONSTANTS
    Tracks,      \* tracks by number
    Listings,    \* what the playlist service may list at first
    Histories,   \* what localStorage may hold of earlier plays, the newest first
    Rankings,    \* what an analytics service may answer
    Limit,       \* the length of every shelf
    MaxFeatured, \* the tracks DiscoveryPage looks at for its albums
    MaxHistory,  \* RECENTLY_PLAYED_LIMIT
    MaxActs,     \* bound on the pages opened, the tracks played and the changes of Favorites
    MaxMishaps   \* bound on the requests that fail

VARIABLES
    mine,      \* the listener's playlists, the last updated first
    history,   \* recentlyPlayed of the player store, the newest first
    shelf,     \* the state of the page that is open
    aside,     \* the playlists the Sidebar shows
    fetches,   \* the loads under way
    runs,      \* the runs of resolvePopularFavorites under way
    spent      \* counters behind the bounds

vars == <<mine, history, shelf, aside, fetches, runs, spent>>

-----------------------------------------------------------------------------
Kinds == {"favorites", "legacy", "ml", "human", "featured", "mix", "plain"}
Playlist == [id: Nat, kind: Kinds, tracks: Seq(Tracks)]
Entry == [track: Tracks, count: Nat]
Places == {"home", "discovery", "away"}

\* has: favoritesPlaylist is not null, and then fav holds its tracks in the order of
\* their adding.  Two are history: lost holds the tracks whose request failed in the run
\* shown, missed those DiscoveryPage did not find in the catalog.
Shelf == [at: Places, loading: BOOLEAN, has: BOOLEAN, fav: Seq(Tracks), entries: Seq(Entry),
          curated: Seq(Nat), albums: Seq(Nat), popular: Seq(Entry), lost: SUBSET Tracks,
          missed: SUBSET Tracks]
Mounted(place) == [at |-> place, loading |-> TRUE, has |-> FALSE, fav |-> << >>, entries |-> << >>,
                   curated |-> << >>, albums |-> << >>, popular |-> << >>, lost |-> {},
                   missed |-> {}]

\* asks: the requests that are not answered; path: the analytics path tried next, 4: none.
Fetch == [place: {"home", "discovery", "aside"}, live: BOOLEAN, asks: SUBSET {"list", "favorites"},
          list: Seq(Playlist), fav: Seq(Tracks), path: 1 .. 4, entries: Seq(Entry)]
Run == [live: BOOLEAN, want: Seq(Entry)]

\* A playlist has an id of its own, and 0 is kept for the Favorites this page may create;
\* an analytics answer without entries is no answer (see Probe).
ShelvesAssumption ==
    /\ Tracks \subseteq Nat \ {0} /\ {Limit, MaxFeatured, MaxHistory} \subseteq Nat \ {0}
    /\ MaxActs \in Nat /\ MaxMishaps \in Nat
    /\ \A list \in Listings :
         /\ list \in Seq(Playlist)
         /\ \A i, j \in 1 .. Len(list) : list[i].id # 0 /\ (list[i].id = list[j].id => i = j)
    /\ Histories \subseteq Seq(Tracks)
    /\ Rankings \subseteq Seq(Entry) \ {<< >>}

TypeOK ==
    /\ mine \in Seq(Playlist) /\ history \in Seq(Tracks)
    /\ shelf \in Shelf /\ aside \in Seq(Nat)
    /\ fetches \subseteq Fetch /\ runs \subseteq Run
    /\ spent \in [acts: 0 .. MaxActs, mishaps: 0 .. MaxMishaps]

-----------------------------------------------------------------------------
(* What is chosen *)

Lesser(a, b) == IF a < b THEN a ELSE b
First(seq, n) == SubSeq(seq, 1, Lesser(n, Len(seq)))
IdsOf(seq) == [i \in 1 .. Len(seq) |-> seq[i].id]

\* The members of a finite set in an order, a set of pairs: the k-th has k - 1 before it.
InOrder(S, before) ==
    [k \in 1 .. Cardinality(S) |->
        CHOOSE i \in S : Cardinality({j \in S : <<j, i>> \in before}) = k - 1]

\* Array.filter: the elements at the indices I.
Kept(seq, I) ==
    LET order == InOrder(I, {p \in I \X I : p[1] < p[2]})
    IN  [k \in 1 .. Cardinality(I) |-> seq[order[k]]]

Where(seq, test(_)) == {i \in 1 .. Len(seq) : test(seq[i])}

\* The elements of a sequence at their first occurrence.
Distinct(seq) == Kept(seq, {i \in 1 .. Len(seq) : \A j \in 1 .. (i - 1) : seq[j] # seq[i]})

\* Array.sort is stable: equal elements keep their order.
Sorted(seq, before(_, _)) ==
    LET order == InOrder(1 .. Len(seq), {p \in (1 .. Len(seq)) \X (1 .. Len(seq)) :
                     \/ before(seq[p[1]], seq[p[2]])
                     \/ ~before(seq[p[2]], seq[p[1]]) /\ p[1] < p[2]})
    IN  [k \in 1 .. Len(seq) |-> seq[order[k]]]

System(p) == p.kind \in {"favorites", "legacy"}
LooksCurated(p) == p.kind \in {"ml", "human", "mix"}
Score(p) == (IF p.kind = "ml" THEN 2 ELSE 1) + Len(p.tracks)

Ahead(p, q) == Score(p) > Score(q) \/ (Score(p) = Score(q) /\ p.id < q.id)
Longer(p, q) == Len(p.tracks) > Len(q.tracks) \/ (Len(p.tracks) = Len(q.tracks) /\ p.id < q.id)

\* getCuratedPlaylists: the best that look curated, or else the longest of all.
Curated(list) ==
    LET own == Kept(list, Where(list, LAMBDA p : ~System(p)))
        found == Kept(own, Where(own, LooksCurated))
    IN  First(IF found # << >> THEN Sorted(found, Ahead) ELSE Sorted(own, Longer), Limit)

\* Two tracks make an album here.
AlbumOf(t) == (t + 1) \div 2

\* DiscoveryPage: the albums of the first tracks of the playlists an administrator has
\* featured, but for tracks it did not get; where there are none the catalog is asked.
Featured(p) == p.kind \in {"human", "featured"}
TracksInOrder(admin) ==
    LET spots == UNION {{i} \X (1 .. Len(admin[i].tracks)) : i \in 1 .. Len(admin)}
        order == InOrder(spots, {q \in spots \X spots :
                     q[1][1] < q[2][1] \/ (q[1][1] = q[2][1] /\ q[1][2] < q[2][2])})
    IN  [k \in 1 .. Cardinality(spots) |-> admin[order[k][1]].tracks[order[k][2]]]
LookedAt(list) == First(Distinct(TracksInOrder(Kept(list, Where(list, Featured)))), MaxFeatured)
AdminAlbums(list, missed) ==
    LET got == Kept(LookedAt(list), Where(LookedAt(list), LAMBDA t : t \notin missed))
    IN  First(Distinct([k \in 1 .. Len(got) |-> AlbumOf(got[k])]), Limit)

\* Sidebar: Favorites first, the others by name.
Leads(p, q) == IF (p.kind = "favorites") = (q.kind = "favorites") THEN p.id < q.id
               ELSE p.kind = "favorites"
SideList(list) == First(Sorted(Kept(list, Where(list, LAMBDA p : p.kind # "legacy")), Leads), Limit)

More(a, b) == a.count > b.count
Times(t, plays) == Cardinality({i \in 1 .. Len(plays) : plays[i] = t})

\* The plays of favorites in the history, each at its last play, the most played first.
LocalCounts(fav, plays) ==
    LET heard == Distinct(Kept(plays, Where(plays, LAMBDA t : t \in ToSet(fav))))
    IN  Sorted([i \in 1 .. Len(heard) |-> [track |-> heard[i], count |-> Times(heard[i], plays)]], More)

\* getRecentlyAddedTrackIds, with made-up counts that fall from the limit to 1.
RecentlyAdded(fav) ==
    LET ids == First(Distinct(Reverse(fav)), Limit)
    IN  [i \in 1 .. Len(ids) |-> [track |-> ids[i], count |-> Limit - i + 1]]

\* resolvePopularFavorites: the analytics, or else the history, or else the dates.
Ranked(fav, entries, plays) ==
    LET known == First(Kept(entries, Where(entries, LAMBDA e : e.track \in ToSet(fav))), Limit)
        local == First(LocalCounts(fav, plays), Limit)
    IN  IF known # << >> THEN known ELSE IF local # << >> THEN local ELSE RecentlyAdded(fav)

-----------------------------------------------------------------------------
NewFetch(place) ==
    [place |-> place, live |-> TRUE, asks |-> {"list"} \cup (IF place = "home" THEN {"favorites"} ELSE {}),
     list |-> << >>, fav |-> << >>, path |-> 1, entries |-> << >>]

Init ==
    /\ mine \in Listings /\ history \in Histories
    /\ shelf = [Mounted("away") EXCEPT !.loading = FALSE]
    /\ aside = << >> /\ fetches = {NewFetch("aside")} /\ runs = {}
    /\ spent = [acts |-> 0, mishaps |-> 0]

Act == spent.acts < MaxActs /\ spent' = [spent EXCEPT !.acts = @ + 1]

\* Mutant: the clean-up of the effect is missing.
CancelledNot(rs) == rs

\* The clean-up of the effect on the favorites, the entries and the history.
Cancelled(rs) == {[r EXCEPT !.live = FALSE] : r \in rs}

\* The effect of the page s, with the plays: nothing to choose from is shown at once.
Resolve(s, plays) ==
    IF s.at # "home" THEN shelf' = s /\ runs' = Cancelled(runs)
    ELSE IF ~s.has \/ s.fav = << >>
    THEN shelf' = [s EXCEPT !.popular = << >>, !.lost = {}] /\ runs' = Cancelled(runs)
    ELSE /\ shelf' = s
         /\ runs' = Cancelled(runs) \cup {[live |-> TRUE, want |-> Ranked(s.fav, s.entries, plays)]}

\* Another page is opened, and the loads of this one are cleaned up.
Open(place) ==
    /\ place # shelf.at
    /\ IF place = "away"
       THEN /\ Resolve([Mounted("away") EXCEPT !.loading = FALSE], history)
            /\ fetches' = {f \in fetches : f.place = "aside"} \cup
                          {[f EXCEPT !.live = FALSE] : f \in {g \in fetches : g.place # "aside"}}
            /\ UNCHANGED spent
       ELSE /\ shelf.at = "away" /\ Act
            /\ Resolve(Mounted(place), history)
            /\ fetches' = fetches \cup {NewFetch(place)}
    /\ UNCHANGED <<mine, history, aside>>

\* pushRecentlyPlayed, by any of the controls.
PlayTrack(t) ==
    /\ Act
    /\ history' = First(<<t>> \o history, MaxHistory)
    /\ Resolve(shelf, First(<<t>> \o history, MaxHistory))
    /\ UNCHANGED <<mine, aside, fetches>>

\* Favorites gets or loses a track, by a dialog of this page or elsewhere: HomePage is
\* not told.  A playlist that changes is listed first.
ToggleFavorite(t) ==
    /\ Act
    /\ \E i \in 1 .. Len(mine) :
         /\ mine[i].kind = "favorites"
         /\ mine' = <<[mine[i] EXCEPT !.tracks = IF t \in ToSet(@) THEN Kept(@, Where(@, LAMBDA u : u # t))
                                                 ELSE Append(@, t)]>> \o RemoveAt(mine, i)
    /\ UNCHANGED <<history, shelf, aside, fetches, runs>>

Put(f, g) == fetches' = (fetches \ {f}) \cup {g}

ListAnswered(f) ==
    /\ "list" \in f.asks /\ Put(f, [f EXCEPT !.asks = @ \ {"list"}, !.list = mine])
    /\ UNCHANGED <<mine, history, shelf, aside, runs, spent>>

\* ensureUserFavoritesPlaylist finds the playlist, or creates it.
FavoritesAnswered(f) ==
    /\ "favorites" \in f.asks
    /\ LET found == Kept(mine, Where(mine, LAMBDA p : p.kind = "favorites"))
       IN  /\ Put(f, [f EXCEPT !.asks = @ \ {"favorites"},
                               !.fav = IF found = << >> THEN << >> ELSE found[1].tracks])
           /\ mine' = IF found # << >> THEN mine
                      ELSE <<[id |-> 0, kind |-> "favorites", tracks |-> << >>]>> \o mine
    /\ UNCHANGED <<history, shelf, aside, runs, spent>>

\* A path of the analytics that is not there, or has no entries, leads to the next one;
\* another failure ends the attempts.  Of an answer the first few are taken.
Probe(f) ==
    /\ f.place = "home" /\ f.asks = {} /\ f.path < 4
    /\ \/ /\ \E ranking \in Rankings :
                Put(f, [f EXCEPT !.path = 4, !.entries = First(Sorted(ranking, More), Limit)])
          /\ UNCHANGED spent
       \/ Put(f, [f EXCEPT !.path = @ + 1]) /\ UNCHANGED spent
       \/ /\ spent.mishaps < MaxMishaps /\ spent' = [spent EXCEPT !.mishaps = @ + 1]
          /\ Put(f, [f EXCEPT !.path = 4])
    /\ UNCHANGED <<mine, history, shelf, aside, runs>>

HomeLoaded(f) ==
    /\ f.place = "home" /\ f.asks = {} /\ f.path = 4
    /\ fetches' = fetches \ {f}
    /\ IF f.live
       THEN Resolve([shelf EXCEPT !.loading = FALSE, !.has = TRUE, !.fav = f.fav, !.entries = f.entries,
                                  !.curated = IdsOf(Curated(f.list))], history)
       ELSE UNCHANGED <<shelf, runs>>
    /\ UNCHANGED <<mine, history, aside, spent>>

\* The page also reads the tracks of the catalog, and misses those that are gone, or came
\* while it read.  The albums of the catalog stand in for featured ones: any, here none.
DiscoveryLoaded(f) ==
    /\ f.place = "discovery" /\ f.asks = {}
    /\ fetches' = fetches \ {f}
    /\ \E missed \in SUBSET Tracks :
         shelf' = IF f.live THEN [shelf EXCEPT !.loading = FALSE, !.curated = IdsOf(Curated(f.list)),
                                      !.albums = AdminAlbums(f.list, missed), !.missed = missed] ELSE shelf
    /\ UNCHANGED <<mine, history, aside, runs, spent>>

SidebarLoaded(f) ==
    /\ f.place = "aside" /\ f.asks = {}
    /\ fetches' = fetches \ {f} /\ aside' = IdsOf(SideList(f.list))
    /\ UNCHANGED <<mine, history, shelf, runs, spent>>

\* A request fails: the page goes without, and the Sidebar stays empty.
LoadFails(f) ==
    /\ f.asks # {} /\ spent.mishaps < MaxMishaps /\ spent' = [spent EXCEPT !.mishaps = @ + 1]
    /\ fetches' = fetches \ {f}
    /\ shelf' = IF f.live /\ f.place # "aside" THEN [shelf EXCEPT !.loading = FALSE] ELSE shelf
    /\ UNCHANGED <<mine, history, aside, runs>>

\* The tracks of a choice are there; those whose request failed are left out.
Resolved(r) ==
    /\ runs' = runs \ {r}
    /\ \E lost \in SUBSET {r.want[i].track : i \in 1 .. Len(r.want)} :
         /\ IF lost = {} THEN UNCHANGED spent
            ELSE spent.mishaps < MaxMishaps /\ spent' = [spent EXCEPT !.mishaps = @ + 1]
         /\ shelf' = IF r.live
                     THEN [shelf EXCEPT !.popular = Kept(r.want, Where(r.want, LAMBDA e : e.track \notin lost)),
                                        !.lost = lost]
                     ELSE shelf
    /\ UNCHANGED <<mine, history, aside, fetches>>

Next ==
    \/ \E place \in Places : Open(place)
    \/ \E t \in Tracks : PlayTrack(t) \/ ToggleFavorite(t)
    \/ \E f \in fetches :
         \/ ListAnswered(f) \/ FavoritesAnswered(f) \/ Probe(f) \/ LoadFails(f)
         \/ HomeLoaded(f) \/ DiscoveryLoaded(f) \/ SidebarLoaded(f)
    \/ \E r \in runs : Resolved(r)

Spec == Init /\ [][Next]_vars

-----------------------------------------------------------------------------
(* Properties *)

Known == {e \in ToSet(shelf.entries) : e.track \in ToSet(shelf.fav)}
Wanted == {e.track : e \in ToSet(shelf.popular)}

\* The entries of the page are as many of one analytics answer as fit, and none of the
\* others counts more.
EntriesAreBest ==
    shelf.entries # << >> =>
        \E ranking \in Rankings :
            LET all == ToSet(ranking)
                taken == ToSet(shelf.entries)
            IN  /\ taken \subseteq all /\ Len(shelf.entries) = Lesser(Len(ranking), Limit)
                /\ \A e \in taken, other \in all \ taken : other.count <= e.count

\* The popular favorites shown are favorites as the page has loaded them, by falling
\* counts: all those of the analytics; without them the most played until now; without
\* those the last added.
PopularIsCurrent ==
    LET seen == Wanted \cup shelf.lost
        fav == ToSet(shelf.fav)
        popular == ToSet(shelf.popular)
        played == {t \in fav : Times(t, history) > 0}
        full(S) == Cardinality(seen) = Lesser(Cardinality(S), Limit)
    IN  /\ seen \subseteq fav
        /\ IsSorted(shelf.popular, LAMBDA a, b : a.count >= b.count)
        /\ IF Known # {} THEN popular \subseteq Known /\ seen = {e.track : e \in Known}
           ELSE IF played # {}
           THEN /\ full(played)
                /\ \A p \in popular : /\ p.count = Times(p.track, history)
                                      /\ \A t \in played : Times(t, history) > p.count => t \in seen
           ELSE full(fav) /\ (fav # {} => shelf.fav[Len(shelf.fav)] \in seen)

\* The playlist with an id.
Named(id) == CHOOSE p \in ToSet(mine) : p.id = id

\* A shelf of playlists holds no system playlist, and no playlist that looks curated gives
\* way to a lesser one; the albums are of featured tracks the page got, and unless the
\* shelf is full they are those of as many as it looks at; the sidebar leaves out
\* Favorites for no other playlist.
ShelvesFair ==
    LET chosen == {Named(id) : id \in ToSet(shelf.curated)}
        featured == UNION {ToSet(p.tracks) : p \in {q \in ToSet(mine) : Featured(q)}}
        albums == ToSet(shelf.albums)
    IN  /\ chosen \subseteq {p \in ToSet(mine) : ~System(p)}
        /\ \A p \in ToSet(mine), q \in chosen :
             LooksCurated(p) /\ (~LooksCurated(q) \/ Score(p) > Score(q)) => p \in chosen
        /\ Cardinality(albums) = Len(shelf.albums)
        /\ albums # {} => \E looked \in SUBSET featured :
             /\ Cardinality(looked) = Lesser(Cardinality(featured), MaxFeatured)
             /\ albums \subseteq {AlbumOf(t) : t \in looked \ shelf.missed}
             /\ Len(shelf.albums) < Limit => {AlbumOf(t) : t \in looked \ shelf.missed} \subseteq albums
        /\ \A id \in ToSet(aside) : Named(id) \in ToSet(mine) /\ Named(id).kind # "legacy"
        /\ \A p \in ToSet(mine) : p.kind = "favorites" /\ p.id \notin {0} \cup ToSet(aside) =>
             \A id \in ToSet(aside) : Named(id).kind = "favorites"

\* What a page chooses for a listener is the best of what it knows: however late the
\* tracks of an earlier choice arrive, the popular favorites are those of the history and
\* the favorites of now, and none is missing but for a failed request.
ShelvesAsRanked ==
    /\ shelf.at = "home" /\ shelf.has /\ (\A r \in runs : ~r.live) => EntriesAreBest /\ PopularIsCurrent
    /\ ShelvesFair
=============================================================================
