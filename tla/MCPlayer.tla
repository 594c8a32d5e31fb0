------------------------------ MODULE MCPlayer -----------------------------
(***************************************************************************)
(* An instance of Player: two songs, one of them held as two objects, and  *)
(* pages that offer a single track or both songs.                          *)
(***************************************************************************)
EXTENDS Player, TLC

CONSTANTS aria, ballad, ariaAgain

\* ariaAgain is another copy of the same song.
MCSong(track) == IF track = ariaAgain THEN aria ELSE track
MCQueues == {<<aria>>, <<aria, ballad>>, <<ballad, ariaAgain>>}
=============================================================================
