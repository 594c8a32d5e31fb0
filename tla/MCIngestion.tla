---------------------------- MODULE MCIngestion ----------------------------
(***************************************************************************)
(* Instances of Ingestion.  Two contents: c1 is fully tagged and carries a *)
(* picture, c2 has a blank album tag and no picture, so it goes through    *)
(* the iTunes fallback.                                                    *)
(***************************************************************************)
EXTENDS Ingestion

CONSTANTS r1, r2, g1, g2, p1, p2, c1, c2, Muse, Absolution

MCGateways == {g1, g2}
MCPaths == {p1, p2}
MCContents == {c1, c2}
MCArtistNames == {Muse, UnknownArtist}
MCAlbumTitles == {Absolution, UnknownAlbum}
MCTagArtist == [c \in MCContents |-> Muse]
MCTagAlbum == [c \in MCContents |-> IF c = c1 THEN Absolution ELSE Blank]
MCWithPicture == {c1}

File(g, p, force) == [gw |-> g, scan |-> 0, paths |-> {p}, force |-> force]
Scan(g, s, force) == [gw |-> g, scan |-> s, paths |-> {}, force |-> force]
Nothing == [gw |-> g1, scan |-> 0, paths |-> {}, force |-> FALSE]

\* One scan of both files, with admins and the disk changing in between.
MCScanOnly == {[r \in {r1, r2} |-> IF r = r1 THEN Scan(g1, 1, FALSE) ELSE Nothing]}

\* Or two gateways race on one scan, on one file (one of them forced, or none),
\* or import two files of one artist.
MCWorkloads ==
    MCScanOnly
    \cup {[r \in {r1, r2} |-> Scan(IF r = r1 THEN g1 ELSE g2, 1, FALSE)]}
    \cup {[r \in {r1, r2} |-> IF r = r1 THEN File(g1, p1, FALSE) ELSE j] :
            j \in {File(g2, p1, FALSE), File(g2, p1, TRUE), File(g1, p2, FALSE)}}

MCLibrary == [p \in MCPaths |-> IF p = p1 THEN c1 ELSE c2]

\* iTunes knows the album and its artwork, or only an artist image.
MCAnswers == {[artist |-> Muse, album |-> Absolution, art |-> "itunes", img |-> NoImage],
              [artist |-> Blank, album |-> Blank, art |-> NoImage, img |-> "itunes"]}
=============================================================================
