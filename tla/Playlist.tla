------------------------------ MODULE Playlist ------------------------------
(***************************************************************************)
(* One playlist of the playlist service (services/playlist/src), its two   *)
(* tables in Postgres, and the gateways that serve requests about it       *)
(* (services/gateway/src/routes/playlist.rs).                              *)
(*                                                                         *)
(* A gateway keeps its playlist client locked from the ownership check to  *)
(* the reply, so the changes sent through one gateway follow one another;  *)
(* those of two gateways, or of a caller who hung up and the next in line, *)
(* meet in the database.  Transactions run at READ COMMITTED: a statement  *)
(* sees what was committed when it began, a row that another transaction   *)
(* has written is waited for and read again, and a circular wait is broken *)
(* by failing one of the waiting transactions.                             *)
(***************************************************************************)
EXTENDS Naturals, Sequences, FiniteSets, SequencesExt, FiniteSetsExt

CONSTANTS
    Tracks, Gateways,
    Requests,     \* requests in flight; one starts anew once it is answered
    Jobs,         \* what a request may ask for
    Same,         \* a row that the transaction has not written
    MaxPosition   \* bound: no add is sent once a position is this high, for
                  \* overlapping adds and removes leave gaps behind

ASSUME PlaylistAssumption ==
    /\ Jobs \subseteq [kind: {"add", "remove"}, track: Tracks]
                      \cup [kind: {"reorder"}, order: Seq(Tracks) \ {<<>>}]
                      \cup [kind: {"update", "delete"}]
    /\ IsFiniteSet(Tracks) /\ MaxPosition \in Nat \ {0} /\ Same \notin Nat

VARIABLES
    status,  \* of the playlists row
    rows,    \* [Tracks -> position]: committed playlist_tracks rows, 0 if none
    writes,  \* [Requests -> [Tracks -> position]]: uncommitted, hence locked, rows
    queue,   \* [Gateways -> Seq(Requests)]: the client Mutex, head = holder
    pc, job,
    at,      \* a request's position in hand: next_position, removed_position, index
    left,    \* rows its statement has still to visit
    alone,   \* changes that no other change has overlapped (history)
    tidy     \* no overlapping change since the last undisturbed order (history)

request == <<pc, job, at, left>>
vars == <<status, rows, writes, queue, request, alone, tidy>>

-----------------------------------------------------------------------------
Absent == 0
Present(table) == {t \in Tracks : table[t] # Absent}
Unwritten == [t \in Tracks |-> Same]

InService == {"max", "insert", "touch", "delete", "range", "shift", "list", "place",
              "update", "drop", "cascade", "commit"}

\* Types; and a transaction never outlives its handler, which would keep the rows
\* it has written locked.
TypeOK ==
    /\ status \in {"unmade", "live", "deleted"}
    /\ rows \in [Tracks -> Nat]
    /\ writes \in [Requests -> [Tracks -> Nat \cup {Same}]]
    /\ queue \in [Gateways -> Seq(Requests)]
    /\ pc \in [Requests -> InService \cup {"idle", "queued", "reply"}]
    /\ job \in [Requests -> Jobs \cup {<<>>}]
    /\ \A r \in Requests : pc[r] # "idle" => job[r] \in Jobs
    /\ \A r \in Requests : pc[r] \notin InService => writes[r] = Unwritten
    /\ at \in [Requests -> Nat]
    /\ left \in [Requests -> SUBSET Tracks]
    /\ alone \subseteq Requests /\ tidy \in BOOLEAN

Init ==
    /\ status = "unmade" /\ rows = [t \in Tracks |-> Absent]
    /\ writes = [r \in Requests |-> Unwritten]
    /\ queue = [g \in Gateways |-> <<>>]
    /\ pc = [r \in Requests |-> "idle"] /\ job = [r \in Requests |-> <<>>]
    /\ at = [r \in Requests |-> 0] /\ left = [r \in Requests |-> {}]
    /\ alone = {} /\ tidy = TRUE

-----------------------------------------------------------------------------
(* The database *)

\* What r's next statement sees.
Visible(r) == [t \in Tracks |-> IF writes[r][t] = Same THEN rows[t] ELSE writes[r][t]]

\* Transactions that r waits for to lock a row, or to lock the playlists row:
\* the insert's foreign key shares that row with other inserts, an UPDATE does
\* with inserts only, a DELETE with nobody.
Writers(r, t) == {s \in Requests \ {r} : writes[s][t] # Same}
Inserting == {s \in Requests : pc[s] = "touch" /\ job[s].kind = "add"}
Updating == {s \in Requests : pc[s] = "commit"}
Deleting == {s \in Requests : pc[s] = "cascade"}
PlaylistHolders(r) ==
    (CASE pc[r] = "insert" -> Deleting
       [] pc[r] \in {"touch", "update"} -> Updating \cup Deleting
       [] pc[r] = "drop" -> Inserting \cup Updating \cup Deleting
       [] OTHER -> {}) \ {r}

\* The rows that r's pending statement has to lock next, one of them.
NextRows(r) ==
    CASE pc[r] \in {"insert", "delete"} -> {job[r].track}
      [] pc[r] = "place" -> {job[r].order[at[r]]}
      [] pc[r] \in {"shift", "cascade"} -> left[r]
      [] OTHER -> {}

Waiting(r) ==
    \/ PlaylistHolders(r) # {}
    \/ NextRows(r) # {} /\ \A t \in NextRows(r) : Writers(r, t) # {}
WaitsFor(r, s) == Waiting(r) /\ s \in PlaylistHolders(r)
                                      \cup UNION {Writers(r, t) : t \in NextRows(r)}

Write(r, t, position) == writes' = [writes EXCEPT ![r][t] = position]
Free(r, t) == Writers(r, t) = {}
Keep == UNCHANGED <<status, rows, queue, tidy>>

\* A request that is over is forgotten.
Goto(r, stage) ==
    /\ pc' = [pc EXCEPT ![r] = stage]
    /\ job' = IF stage = "idle" THEN [job EXCEPT ![r] = <<>>] ELSE job

\* Mutant: the error is returned with the transaction still open.
RollbackLate(r, stage) ==
    /\ left' = [left EXCEPT ![r] = {}] /\ at' = [at EXCEPT ![r] = 0]
    /\ alone' = alone \ {r}
    /\ Goto(r, stage) /\ UNCHANGED writes
    /\ Keep

\* Roll the transaction back, if there is one, and go on to another stage.
Rollback(r, stage) ==
    /\ writes' = [writes EXCEPT ![r] = Unwritten]
    /\ left' = [left EXCEPT ![r] = {}] /\ at' = [at EXCEPT ![r] = 0]
    /\ alone' = alone \ {r}
    /\ Goto(r, stage)
    /\ Keep

-----------------------------------------------------------------------------
(* The gateway *)

Holder(r) == \E g \in Gateways : queue[g] # <<>> /\ Head(queue[g]) = r
Connected(r) == \E g \in Gateways : r \in ToSet(queue[g])
Without(q, r) == IF r \in ToSet(q) THEN RemoveAt(q, CHOOSE i \in DOMAIN q : q[i] = r) ELSE q
Dequeue(r) == queue' = [g \in Gateways |-> Without(queue[g], r)]

\* create_playlist: one INSERT, under a new identifier.
CreatePlaylist ==
    /\ status = "unmade" /\ status' = "live"
    /\ UNCHANGED <<rows, writes, queue, request, alone, tidy>>

\* A request reaches a gateway and waits for its playlist client.
Send(r, g, j) ==
    /\ pc[r] = "idle" /\ status # "unmade"
    /\ j.kind = "add" => /\ \A t \in Tracks : rows[t] < MaxPosition
                         /\ \A s \in Requests : at[s] < MaxPosition
    /\ job' = [job EXCEPT ![r] = j]
    /\ queue' = [queue EXCEPT ![g] = Append(@, r)]
    /\ pc' = [pc EXCEPT ![r] = "queued"]
    /\ UNCHANGED <<status, rows, writes, at, left, alone, tidy>>

FirstStage(kind) ==
    CASE kind = "add" -> "max"       [] kind = "remove" -> "delete"
      [] kind = "reorder" -> "list"  [] kind = "update" -> "update"
      [] kind = "delete" -> "drop"

Editing == {r \in Requests : pc[r] \in InService /\ job[r].kind \in {"add", "remove", "reorder"}}

\* get_playlist, then can_modify_playlist and the validation of the arguments:
\* a caller may be refused; otherwise the service starts on the change.
CheckOwner(r) ==
    /\ pc[r] = "queued" /\ Holder(r)
    /\ \/ Goto(r, "reply") /\ UNCHANGED alone
       \/ /\ status = "live"
          /\ Goto(r, FirstStage(job[r].kind))
          /\ alone' = IF job[r].kind \in {"update", "delete"} THEN alone
                      ELSE IF Editing = {} THEN {r} ELSE {}
    /\ UNCHANGED <<writes, at, left>> /\ Keep

\* The reply, with the playlist loaded afresh, releases the client.
Reply(r) ==
    /\ pc[r] = "reply"
    /\ Dequeue(r) /\ Goto(r, "idle")
    /\ UNCHANGED <<status, rows, writes, at, left, alone, tidy>>

\* The caller hangs up: the gateway drops the handler, and with it the client.
HangUp(r) ==
    /\ Connected(r)
    /\ Dequeue(r)
    /\ Goto(r, IF pc[r] \in InService THEN pc[r] ELSE "idle")
    /\ UNCHANGED <<status, rows, writes, at, left, alone, tidy>>

-----------------------------------------------------------------------------
(* repository::add_track *)

\* SELECT COALESCE(MAX(position), 0) + 1
ReadMax(r) ==
    /\ pc[r] = "max"
    /\ at' = [at EXCEPT ![r] = Max({rows[t] : t \in Tracks} \cup {0}) + 1]
    /\ Goto(r, "insert")
    /\ UNCHANGED <<writes, left, alone>> /\ Keep

\* INSERT: fails if the track is there (23505) or the playlist is not (23503).
InsertRow(r) ==
    LET t == job[r].track IN
    /\ pc[r] = "insert" /\ Free(r, t) /\ PlaylistHolders(r) = {}
    /\ IF rows[t] = Absent /\ status = "live"
       THEN /\ Write(r, t, at[r])
            /\ Goto(r, "touch") /\ UNCHANGED <<at, left, alone>> /\ Keep
       ELSE Rollback(r, "reply")

(* repository::remove_track *)

\* Mutant: the gap of the removed track is not closed.
DeleteRowOnly(r) ==
    LET t == job[r].track IN
    /\ pc[r] = "delete" /\ Free(r, t)
    /\ IF rows[t] # Absent
       THEN /\ Write(r, t, Absent) /\ at' = [at EXCEPT ![r] = rows[t]]
            /\ Goto(r, "touch") /\ UNCHANGED <<left, alone>> /\ Keep
       ELSE Rollback(r, "reply")

\* DELETE ... RETURNING position; without a row the transaction has no effect.
DeleteRow(r) ==
    LET t == job[r].track IN
    /\ pc[r] = "delete" /\ Free(r, t)
    /\ IF rows[t] # Absent
       THEN /\ Write(r, t, Absent) /\ at' = [at EXCEPT ![r] = rows[t]]
            /\ Goto(r, "range") /\ UNCHANGED <<left, alone>> /\ Keep
       ELSE Rollback(r, "reply")

\* UPDATE ... SET position = position - 1 WHERE position > removed: the rows that
\* qualify when the statement begins,
FindRange(r) ==
    /\ pc[r] = "range"
    /\ left' = [left EXCEPT ![r] = {t \in Tracks : Visible(r)[t] > at[r]}]
    /\ Goto(r, IF left'[r] = {} THEN "touch" ELSE "shift")
    /\ UNCHANGED <<writes, at, alone>> /\ Keep

\* each locked, and looked at again if it had to be waited for.
ShiftRow(r, t) ==
    /\ pc[r] = "shift" /\ t \in left[r] /\ Free(r, t)
    /\ IF rows[t] > at[r] THEN Write(r, t, rows[t] - 1) ELSE UNCHANGED writes
    /\ left' = [left EXCEPT ![r] = @ \ {t}]
    /\ Goto(r, IF left[r] = {t} THEN "touch" ELSE "shift")
    /\ UNCHANGED <<at, alone>> /\ Keep

(* reorder_tracks *)

\* Mutant: only the sets are compared, not the lengths.
SameTrackSet(order) == ToSet(order) = Present(rows)

\* The handler's check, outside the transaction: every track exactly once.
SameTracks(order) ==
    /\ Len(order) = Cardinality(Present(rows))
    /\ ToSet(order) = Present(rows)

\* Mutant: a request made from an old copy of the list waits for it to fit.
ListRowsRetry(r) ==
    /\ pc[r] = "list" /\ SameTracks(job[r].order)
    /\ at' = [at EXCEPT ![r] = 1] /\ Goto(r, "place")
    /\ UNCHANGED <<writes, left, alone>> /\ Keep

ListRows(r) ==
    /\ pc[r] = "list"
    /\ IF SameTracks(job[r].order)
       THEN /\ at' = [at EXCEPT ![r] = 1] /\ Goto(r, "place")
            /\ UNCHANGED <<writes, left, alone>> /\ Keep
       ELSE Rollback(r, "reply")

\* Mutant: a track that is no longer in the list is put back.
PlaceRowUpsert(r) ==
    LET order == job[r].order
        t == order[at[r]] IN
    /\ pc[r] = "place" /\ Free(r, t)
    /\ Write(r, t, at[r])
    /\ at' = [at EXCEPT ![r] = @ + 1]
    /\ Goto(r, IF at[r] = Len(order) THEN "touch" ELSE "place")
    /\ UNCHANGED <<left, alone>> /\ Keep

\* UPDATE ... SET position = index + 1, one statement for each track.
PlaceRow(r) ==
    LET order == job[r].order
        t == order[at[r]] IN
    /\ pc[r] = "place" /\ Free(r, t)
    /\ IF Visible(r)[t] # Absent
       THEN /\ Write(r, t, at[r])
            /\ at' = [at EXCEPT ![r] = @ + 1]
            /\ Goto(r, IF at[r] = Len(order) THEN "touch" ELSE "place")
            /\ UNCHANGED <<left, alone>> /\ Keep
       ELSE Rollback(r, "reply")

(* Ends of the transactions, and the changes of the playlists row *)

\* UPDATE playlists SET updated_at
Touch(r) ==
    /\ pc[r] = "touch" /\ PlaylistHolders(r) = {}
    /\ Goto(r, "commit") /\ UNCHANGED <<writes, at, left, alone>> /\ Keep

Commit(r) ==
    /\ pc[r] = "commit"
    /\ rows' = Visible(r)
    /\ writes' = [writes EXCEPT ![r] = Unwritten]
    /\ tidy' = (r \in alone /\ (tidy \/ job[r].kind = "reorder"))
    /\ alone' = alone \ {r} /\ at' = [at EXCEPT ![r] = 0]
    /\ Goto(r, "reply") /\ UNCHANGED <<status, queue, left>>

\* update_playlist: one statement, which leaves the order alone.
UpdatePlaylist(r) ==
    /\ pc[r] = "update" /\ PlaylistHolders(r) = {}
    /\ Goto(r, "reply") /\ UNCHANGED <<writes, at, left, alone>> /\ Keep

\* delete_playlist: the playlists row is locked, the cascade visits the rows it
\* finds, and both are gone when the statement commits.
DropPlaylist(r) ==
    /\ pc[r] = "drop" /\ PlaylistHolders(r) = {}
    /\ left' = [left EXCEPT ![r] = Present(rows)]
    /\ Goto(r, IF status = "live" THEN "cascade" ELSE "reply")
    /\ UNCHANGED <<writes, at, alone>> /\ Keep

CascadeRow(r, t) ==
    /\ pc[r] = "cascade" /\ t \in left[r] /\ Free(r, t)
    /\ Write(r, t, Absent) /\ left' = [left EXCEPT ![r] = @ \ {t}]
    /\ UNCHANGED <<pc, job, at, alone>> /\ Keep

CommitDrop(r) ==
    /\ pc[r] = "cascade" /\ left[r] = {}
    /\ status' = "deleted" /\ rows' = Visible(r)
    /\ writes' = [writes EXCEPT ![r] = Unwritten]
    /\ Goto(r, "reply") /\ UNCHANGED <<queue, at, left, alone, tidy>>

-----------------------------------------------------------------------------
(* Failures *)

\* A statement fails: the transaction is rolled back and the error returned.
StatementFails(r) == pc[r] \in InService /\ Rollback(r, "reply")

\* The service learns that the caller hung up and drops the handler.
CancelHandler(r) == pc[r] \in InService /\ ~Connected(r) /\ Rollback(r, "idle")

\* Postgres fails one transaction of a circular wait.
DeadlockAbort(r) ==
    /\ \E S \in SUBSET Requests :
         /\ r \in S
         /\ \A s \in S : (\E u \in S : WaitsFor(s, u)) /\ (\E u \in S : WaitsFor(u, s))
    /\ Rollback(r, "reply")

Step(r) ==
    \/ CheckOwner(r) \/ Reply(r)
    \/ ReadMax(r) \/ InsertRow(r)
    \/ DeleteRow(r) \/ FindRange(r) \/ (\E t \in Tracks : ShiftRow(r, t))
    \/ ListRows(r) \/ PlaceRow(r)
    \/ Touch(r) \/ Commit(r)
    \/ UpdatePlaylist(r) \/ DropPlaylist(r) \/ (\E t \in Tracks : CascadeRow(r, t))
    \/ CommitDrop(r)
    \/ DeadlockAbort(r)

Next ==
    \/ CreatePlaylist
    \/ \E r \in Requests :
         \/ \E g \in Gateways, j \in Jobs : Send(r, g, j)
         \/ Step(r)
         \/ HangUp(r) \/ StatementFails(r) \/ CancelHandler(r)

Spec == Init /\ [][Next]_vars

\* The runtime runs every handler on, the Mutex and Postgres' lock queues are
\* first in, first out, and Postgres looks for deadlocks; clients, failures and
\* the handling of a hang-up are under no such obligation.
FairSpec == Spec /\ \A r \in Requests : SF_vars(Step(r))

-----------------------------------------------------------------------------
(* Properties *)

\* Undisturbed changes leave the positions at 1, 2, ..., n: the next position is
\* free (add_track), the gap of a removed track is closed (remove_track), and a
\* reorder numbers all the tracks (reorder_tracks), whatever was rolled back.
PositionsDense ==
    tidy => {rows[t] : t \in Present(rows)} = 1..Cardinality(Present(rows))

\* An undisturbed reorder that commits leaves exactly the order it was given,
\* although the tracks were checked outside the transaction.
ReorderAsAsked ==
    [][\A r \in alone :
         Commit(r) /\ job[r].kind = "reorder"
           => \A i \in DOMAIN job[r].order : rows'[job[r].order[i]] = i]_vars

\* The track rows are exactly those of the committed changes, and while changes
\* do not overlap they are in the order these define: the service implements
\* PlaylistOrder.
Order == INSTANCE PlaylistOrder WITH
    members <- Present(rows),
    list <- IF tidy THEN [i \in 1..Cardinality(Present(rows)) |->
                            CHOOSE t \in Tracks : rows[t] = i]
            ELSE <<>>
ImplementsOrder == Order!Spec

\* A request is answered or abandoned: neither the gateway's Mutex nor the row
\* locks of two transactions hold it for ever.
EveryRequestAnswered == \A r \in Requests : (pc[r] # "idle") ~> (pc[r] = "idle")
=============================================================================
