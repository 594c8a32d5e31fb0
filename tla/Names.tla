------------------------------- MODULE Names --------------------------------
(***************************************************************************)
(* What the web applications call a track: web/packages/shared/src/api/    *)
(* catalog.ts completes the tracks the catalog answers with the names of   *)
(* their artist and album, which it asks for one by one while an           *)
(* administrator edits them, or takes from what the import has written     *)
(* into metadata_json.  One artist and one album; names are the numbers of *)
(* their versions, and the cover of the album changes with its title.      *)
(***************************************************************************)
EXTENDS Naturals, FiniteSets

CONSTANTS
    Items,      \* the tracks on a page of the list
    MaxEdits,   \* bound on the edits of the artist, and of the album
    MaxAsked,   \* bound on the calls
    MaxLost     \* bound on the requests that fail

NamesAssumption == MaxEdits \in Nat /\ MaxAsked \in Nat /\ MaxLost \in Nat

VARIABLES
    tags,     \* metadata_json of the tracks
    artist,   \* the version of the artist's name
    album,    \* the version of the album's title and of its cover
    call,     \* the call of catalogApi under way
    shown,    \* what the last call has returned, by track
    asked,    \* counter behind MaxAsked
    lost      \* counter behind MaxLost

vars == <<tags, artist, album, call, shown, asked, lost>>

-----------------------------------------------------------------------------
Absent == 0        \* no such field, or null; or no answer
Unknown == MaxEdits + 2   \* "Unknown Artist", "Unknown Album": the name of no version
Version == 1 .. MaxEdits + 1
Name == Version \cup {Absent, Unknown}

\* A single track is got, or returned by an update, or a page of them is listed.
Ways == {"none", "list", "get", "update"}
Row == [artist: Name, album: Name, cover: Name]

\* wants: the requests that follow and are not answered; has: their answers; from:
\* history, the versions when the call began.
Call == [how: Ways, of: SUBSET Items, wants: SUBSET {"artist", "album"},
         has: [artist: Name, album: Name], from: [artist: Version, album: Version]]
NoCall == [how |-> "none", of |-> {}, wants |-> {}, has |-> [artist |-> Absent, album |-> Absent],
           from |-> [artist |-> 1, album |-> 1]]

Nothing == [t \in Items |-> [artist |-> Absent, album |-> Absent, cover |-> Absent]]

TypeOK ==
    /\ tags \in [Items -> Row] /\ artist \in Version /\ album \in Version
    /\ call \in Call /\ shown \in [row: [Items -> Row], call: Call]
    /\ asked \in 0 .. MaxAsked /\ lost \in 0 .. MaxLost

\* What an import writes: the names it has used, and a cover if it found one; a track of
\* another origin has nothing.
Init ==
    /\ tags \in [Items -> {[artist |-> 1, album |-> 1, cover |-> 1],
                           [artist |-> 1, album |-> 1, cover |-> Absent],
                           [artist |-> Absent, album |-> Absent, cover |-> Absent]}]
    /\ artist = 1 /\ album = 1 /\ call = NoCall
    /\ shown = [row |-> Nothing, call |-> NoCall] /\ asked = 0 /\ lost = 0

-----------------------------------------------------------------------------
\* updateArtist and updateAlbum of an administrator.
RenameArtist ==
    /\ artist <= MaxEdits /\ artist' = artist + 1
    /\ UNCHANGED <<tags, album, call, shown, asked, lost>>

EditAlbum ==
    /\ album <= MaxEdits /\ album' = album + 1
    /\ UNCHANGED <<tags, artist, call, shown, asked, lost>>

\* The requests a list needs: for what the metadata of one of its tracks does not say.
Needs(of) ==
    {"artist" : t \in {u \in of : tags[u].artist = Absent}} \cup
    {"album" : t \in {u \in of : tags[u].album = Absent \/ tags[u].cover = Absent}}

Ask(how, of, wants) ==
    /\ call = NoCall /\ asked < MaxAsked /\ asked' = asked + 1
    /\ call' = [how |-> how, of |-> of, wants |-> wants, has |-> NoCall.has,
                from |-> [artist |-> artist, album |-> album]]
    /\ UNCHANGED <<tags, artist, album, shown, lost>>

ListTracks == Ask("list", Items, Needs(Items))
GetTrack(t) == Ask("get", {t}, {"artist", "album"})
UpdateTrack(t) == Ask("update", {t}, {"artist", "album"})

\* fetchArtistsById and fetchAlbumsById, or the single requests of getTrack: a request
\* that fails is taken for no answer.
Answer(which) ==
    /\ which \in call.wants
    /\ \/ call' = [call EXCEPT !.wants = @ \ {which},
                               !.has[which] = IF which = "artist" THEN artist ELSE album]
          /\ UNCHANGED lost
       \/ /\ lost < MaxLost /\ lost' = lost + 1
          /\ call' = [call EXCEPT !.wants = @ \ {which}]
    /\ UNCHANGED <<tags, artist, album, shown, asked>>

\* Mutant: the metadata goes before the row.
NamedByTag(row, tag, unknown) ==
    IF tag # Absent THEN tag ELSE IF row # Absent THEN row ELSE unknown

\* artist?.name ?? metadata.artist ?? "Unknown Artist"
Named(row, tag, unknown) ==
    IF row # Absent THEN row ELSE IF tag # Absent THEN tag ELSE unknown

\* mapTrack: the rows of the page are completed with the answers.
MapTracks ==
    /\ call # NoCall /\ call.wants = {}
    /\ shown' = [call |-> call,
                 row |-> [t \in Items |->
                     IF t \notin call.of THEN Nothing[t]
                     ELSE [artist |-> Named(call.has.artist, tags[t].artist, Unknown),
                           album |-> Named(call.has.album, tags[t].album, Unknown),
                           cover |-> Named(call.has.album, tags[t].cover, Absent)]]]
    /\ call' = NoCall
    /\ UNCHANGED <<tags, artist, album, asked, lost>>

Next ==
    \/ RenameArtist \/ EditAlbum \/ ListTracks \/ MapTracks
    \/ \E t \in Items : GetTrack(t) \/ UpdateTrack(t)
    \/ \E which \in {"artist", "album"} : Answer(which)

Spec == Init /\ [][Next]_vars

-----------------------------------------------------------------------------
(* Properties *)

\* Where a name comes from, whatever is edited while it is asked for: a track got by
\* itself bears a name its artist had during the call, unless that request failed; a
\* listed one may bear the name of the import for ever, but two tracks on one page never
\* differ unless their metadata do; the title and the cover of an album are of one
\* version; and "Unknown" stands only where a request failed and the metadata are silent.
NamesHaveSource ==
    LET c == shown.call
        known == c.has.artist # Absent
    IN  \A t \in c.of :
          LET s == shown.row[t]
          IN  /\ c.how \in {"get", "update"} /\ known => s.artist >= c.from.artist
              /\ s.artist = Unknown => tags[t].artist = Absent /\ lost > 0
              /\ \A u \in c.of : tags[t].artist = tags[u].artist => shown.row[u].artist = s.artist
              /\ \A u \in c.of : known => shown.row[u].artist = s.artist
              /\ s.album # Unknown /\ s.cover # Absent => s.cover = s.album
=============================================================================
