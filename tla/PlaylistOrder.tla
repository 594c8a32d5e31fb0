--------------------------- MODULE PlaylistOrder ---------------------------
(***************************************************************************)
(* What the playlist service promises of one playlist: a list without      *)
(* repetitions, which a change made on its own edits in one step.  Changes *)
(* that overlap in the database still add, remove and keep exactly the     *)
(* tracks they name, but their order means nothing until a reorder made on *)
(* its own puts it right.                                                  *)
(***************************************************************************)
EXTENDS Sequences, SequencesExt

CONSTANT Tracks

VARIABLES
    members,  \* the tracks in the playlist
    tidy,     \* their order is the one the changes define
    list      \* the tracks in playing order, while tidy

vars == <<members, tidy, list>>

Init == members = {} /\ tidy = TRUE /\ list = <<>>

\* A change leaves an order that is defined, or none.
Tidy(order) == tidy' = TRUE /\ list' = order
Scrambled == tidy' = FALSE /\ list' = <<>>

Add(t) ==
    /\ t \notin members /\ members' = members \cup {t}
    /\ \/ tidy /\ Tidy(Append(list, t))
       \/ Scrambled

Delete(t) ==
    /\ t \in members /\ members' = members \ {t}
    /\ \/ tidy /\ \E i \in DOMAIN list : list[i] = t /\ Tidy(RemoveAt(list, i))
       \/ Scrambled

Reorder ==
    /\ (\E order \in SetToSeqs(members) : Tidy(order)) \/ Scrambled
    /\ UNCHANGED members

Clear == members' = {} /\ list' = <<>> /\ UNCHANGED tidy

Next == (\E t \in Tracks : Add(t) \/ Delete(t)) \/ Reorder \/ Clear

Spec == Init /\ [][Next]_vars
=============================================================================
