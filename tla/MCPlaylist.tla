----------------------------- MODULE MCPlaylist -----------------------------
(***************************************************************************)
(* An instance of Playlist for TLC: the requests that can build a playlist *)
(* of three tracks, renumber it and take it apart.  One gateway is enough  *)
(* for two requests to meet in the database, since a caller who hangs up   *)
(* leaves the handler running and the client to the next.                  *)
(***************************************************************************)
EXTENDS Playlist

CONSTANTS a, b, c

ThreeTracks == {a, b, c}

\* Tracks are alike, so one of them is enough to remove; one order repeats a track.
MCJobs ==
    [kind: {"add"}, track: ThreeTracks] \cup [kind: {"remove"}, track: {a}]
    \cup [kind: {"reorder"}, order: {<<c, b, a>>, <<a, b, a>>}]
    \cup [kind: {"update", "delete"}]
=============================================================================
