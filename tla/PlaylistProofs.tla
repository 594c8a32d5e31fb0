--------------------------- MODULE PlaylistProofs ---------------------------
(***************************************************************************)
(* Theorems about Playlist, for any tracks, gateways, requests and jobs:   *)
(* its types, that undisturbed changes leave the positions dense and a     *)
(* reorder as it was asked, and that it implements PlaylistOrder.          *)
(***************************************************************************)
EXTENDS Playlist, FiniteSetTheorems, SequenceTheorems, FunctionTheorems,
        WellFoundedInduction, TLAPS

-----------------------------------------------------------------------------
(* The inductive invariant *)

Editor(r) == pc[r] \in InService /\ job[r].kind \in {"add", "remove", "reorder"}

\* A request in service is at a stage of its own kind of change, on a playlist that
\* has been made; before its first write, its transaction holds no row.
StageInv(r) ==
    /\ pc[r] \in InService => status # "unmade"
    /\ pc[r] \in {"max", "insert"} => job[r].kind = "add"
    /\ pc[r] \in {"delete", "range", "shift"} => job[r].kind = "remove"
    /\ pc[r] \in {"list", "place"} => job[r].kind = "reorder"
    /\ pc[r] \in {"touch", "commit"} => job[r].kind \in {"add", "remove", "reorder"}
    /\ pc[r] = "update" => job[r].kind = "update"
    /\ pc[r] \in {"drop", "cascade"} => job[r].kind = "delete"
    /\ pc[r] \in {"max", "insert", "delete", "list", "update", "drop"} => writes[r] = Unwritten
    /\ pc[r] \in {"insert", "range", "shift", "place"} => at[r] >= 1
    /\ pc[r] = "place" => at[r] <= Len(job[r].order)

\* What a transaction has written, by kind: an insert adds its track, a remove
\* takes its track away and keeps the others, a reorder keeps all, and a cascade
\* has taken away all it has not still to visit.
AddInv(r) ==
    /\ status = "live" /\ rows[job[r].track] = Absent
    /\ writes[r][job[r].track] \in Nat \ {Absent}
    /\ \A t \in Tracks \ {job[r].track} : writes[r][t] = Same
RemoveInv(r) ==
    /\ rows[job[r].track] # Absent /\ writes[r][job[r].track] = Absent
    /\ \A t \in Tracks \ {job[r].track} :
         writes[r][t] # Same => rows[t] # Absent /\ writes[r][t] # Absent
    /\ pc[r] = "shift" => job[r].track \notin left[r]
ReorderInv(r) ==
    \A t \in Tracks : writes[r][t] # Same => rows[t] # Absent /\ writes[r][t] # Absent
CascadeInv(r) ==
    /\ status = "live"
    /\ \A t \in Tracks : writes[r][t] \in {Same, Absent}
    /\ \A t \in Present(rows) : t \in left[r] \/ writes[r][t] = Absent

WritesInv(r) ==
    /\ pc[r] \in {"touch", "commit"} /\ job[r].kind = "add" => AddInv(r)
    /\ pc[r] \in {"range", "shift", "touch", "commit"} /\ job[r].kind = "remove" => RemoveInv(r)
    /\ pc[r] \in {"place", "touch", "commit"} /\ job[r].kind = "reorder" => ReorderInv(r)
    /\ pc[r] = "cascade" => CascadeInv(r)

\* Row locks exclude one another, and so do those of the playlists row.
LockInv ==
    /\ \A r, s \in Requests, t \in Tracks : writes[r][t] # Same /\ writes[s][t] # Same => r = s
    /\ \A r, s \in Requests : pc[r] \in {"commit", "cascade"} /\ pc[s] \in {"commit", "cascade"}
                              => r = s
    /\ \A r, s \in Requests : pc[r] = "cascade" /\ pc[s] = "touch" => job[s].kind # "add"

\* The positions in table are 1, 2, ..., n, each of them once.
Dense(table, n) ==
    /\ \A t \in Tracks : table[t] \in 0 .. n
    /\ \A t, u \in Tracks : table[t] = table[u] /\ table[t] # Absent => t = u
    /\ \A i \in 1 .. n : \E t \in Tracks : table[t] = i

\* position is the one after the last in rows.
After(position) ==
    /\ \A t \in Tracks : rows[t] < position
    /\ position = 1 \/ \E t \in Tracks : rows[t] = position - 1

\* What an undisturbed change has done so far: its position is the next one, the
\* rows it has visited are shifted down, the tracks it has placed are numbered.
AddAlone(r) == writes[r][job[r].track] = at[r] /\ After(at[r])
RemoveAlone(r) ==
    /\ at[r] = rows[job[r].track]
    /\ \A t \in Tracks \ {job[r].track} :
         IF pc[r] = "range" \/ (pc[r] = "shift" /\ t \in left[r])
         THEN writes[r][t] = Same /\ (pc[r] = "shift" => rows[t] > at[r])
         ELSE writes[r][t] = IF rows[t] > at[r] THEN rows[t] - 1 ELSE Same
ReorderAlone(r) ==
    LET order == job[r].order
        placed == IF pc[r] = "place" THEN at[r] - 1 ELSE Len(order) IN
    \/ /\ SameTracks(order)
       /\ \A i \in DOMAIN order : writes[r][order[i]] = IF i <= placed THEN i ELSE Same
       /\ \A t \in Tracks \ ToSet(order) : writes[r][t] = Same
    \/ pc[r] = "place" /\ at[r] = 1 /\ writes[r] = Unwritten /\ Present(rows) = {}

AloneInv(r) ==
    /\ Editor(r) /\ \A s \in Requests \ {r} : ~Editor(s)
    /\ pc[r] = "insert" /\ status = "live" => After(at[r])
    /\ pc[r] \in {"touch", "commit"} /\ job[r].kind = "add" => AddAlone(r)
    /\ pc[r] \in {"range", "shift", "touch", "commit"} /\ job[r].kind = "remove" => RemoveAlone(r)
    /\ pc[r] \in {"place", "touch", "commit"} /\ job[r].kind = "reorder" => ReorderAlone(r)

IInv ==
    /\ TypeOK
    /\ \A r \in Requests : StageInv(r) /\ WritesInv(r)
    /\ LockInv
    /\ status # "live" => Present(rows) = {}
    /\ \A r \in alone : AloneInv(r)
    /\ tidy => Dense(rows, Cardinality(Present(rows)))

-----------------------------------------------------------------------------
(* Steps that change nothing but what one request keeps *)

Queues == [Gateways -> Seq(Requests)]
Row == [Tracks -> Nat \cup {Same}]

\* r goes on to stage, with what it has written, its position and its rows to visit.
Becomes(r, stage, written, position, rest) ==
    /\ Goto(r, stage)
    /\ writes' = [writes EXCEPT ![r] = written]
    /\ at' = [at EXCEPT ![r] = position] /\ left' = [left EXCEPT ![r] = rest]
    /\ UNCHANGED <<status, rows, tidy>> /\ queue' \in Queues

\* What the others keep.
Others(r) ==
    \A s \in Requests \ {r} :
        /\ pc'[s] = pc[s] /\ job'[s] = job[s] /\ writes'[s] = writes[s]
        /\ at'[s] = at[s] /\ left'[s] = left[s]

\* Such a step is typed, and tells the request apart from the others.
LEMMA BecomesType ==
    ASSUME TypeOK, NEW r \in Requests, NEW written \in Row,
           NEW stage \in InService \cup {"idle", "queued", "reply"},
           pc[r] # "idle" \/ stage = "idle",
           NEW position \in Nat, NEW rest \in SUBSET Tracks,
           Becomes(r, stage, written, position, rest), alone' \subseteq Requests,
           stage \notin InService => written = Unwritten
    PROVE  /\ TypeOK' /\ Others(r)
           /\ pc'[r] = stage /\ writes'[r] = written /\ at'[r] = position /\ left'[r] = rest
           /\ stage # "idle" => job'[r] = job[r]
  <1>1. /\ pc' = [pc EXCEPT ![r] = stage] /\ writes' = [writes EXCEPT ![r] = written]
        /\ at' = [at EXCEPT ![r] = position] /\ left' = [left EXCEPT ![r] = rest]
        /\ UNCHANGED <<status, rows, tidy>> /\ queue' \in Queues
        /\ job' = IF stage = "idle" THEN [job EXCEPT ![r] = <<>>] ELSE job
    BY DEF Becomes, Goto
  <1>2. /\ pc'[r] = stage /\ writes'[r] = written /\ at'[r] = position /\ left'[r] = rest
        /\ stage # "idle" => job'[r] = job[r]
    BY <1>1 DEF TypeOK
  <1>3. Others(r)
    BY <1>1 DEF TypeOK, Others
  <1>4. job' \in [Requests -> Jobs \cup {<<>>}]
    BY <1>1 DEF TypeOK
  <1>5. \A s \in Requests : pc'[s] # "idle" => job'[s] \in Jobs
    BY <1>2, <1>3 DEF TypeOK, Others
  <1>6. \A s \in Requests : pc'[s] \notin InService => writes'[s] = Unwritten
    BY <1>2, <1>3 DEF TypeOK, Others
  <1>7. /\ pc' \in [Requests -> InService \cup {"idle", "queued", "reply"}]
        /\ writes' \in [Requests -> Row] /\ at' \in [Requests -> Nat]
        /\ left' \in [Requests -> SUBSET Tracks]
    BY <1>1 DEF TypeOK, Row
  <1> QED
    BY <1>1, <1>2, <1>3, <1>4, <1>5, <1>6, <1>7 DEF TypeOK, Row, Queues, Unwritten

\* An undisturbed change of another is not disturbed.
LEMMA AloneKept ==
    ASSUME IInv, TypeOK', NEW r \in Requests, Others(r), UNCHANGED <<status, rows>>,
           Editor(r)' => Editor(r), NEW q \in alone, q # r
    PROVE  AloneInv(q)'
  <1>1. q \in Requests /\ AloneInv(q) /\ ~Editor(r)
    BY DEF IInv, TypeOK, AloneInv
  <1>2. /\ pc'[q] = pc[q] /\ job'[q] = job[q] /\ writes'[q] = writes[q]
        /\ at'[q] = at[q] /\ left'[q] = left[q]
    BY <1>1 DEF Others
  <1>3. \A s \in Requests \ {r} : Editor(s)' <=> Editor(s)
    BY DEF Others, Editor
  <1>4. Editor(q)' /\ \A s \in Requests \ {q} : ~Editor(s)'
    BY <1>1, <1>3 DEF AloneInv
  <1> QED
    BY <1>1, <1>2, <1>4
    DEF AloneInv, AddAlone, RemoveAlone, ReorderAlone, After, SameTracks, Present

\* The invariant after such a step, but for the changes that are undisturbed.
LEMMA LocalStep ==
    ASSUME IInv, TypeOK', NEW r \in Requests, Others(r), UNCHANGED <<status, rows, tidy>>,
           StageInv(r)', WritesInv(r)',
           \A t \in Tracks : writes'[r][t] # Same => writes[r][t] # Same \/ Free(r, t),
           pc'[r] \in {"commit", "cascade"} =>
               \/ pc[r] = pc'[r]
               \/ \A s \in Requests \ {r} : pc[s] \notin {"commit", "cascade"},
           pc'[r] = "cascade" => \A s \in Requests \ {r} : ~(pc[s] = "touch" /\ job[s].kind = "add"),
           pc'[r] = "touch" /\ job'[r].kind = "add" => \A s \in Requests \ {r} : pc[s] # "cascade",
           \A q \in alone' : AloneInv(q)'
    PROVE  IInv'
  <1>1. \A s \in Requests : StageInv(s)' /\ WritesInv(s)'
    <2> SUFFICES ASSUME NEW s \in Requests \ {r} PROVE StageInv(s)' /\ WritesInv(s)'
      OBVIOUS
    <2>1. StageInv(s) /\ WritesInv(s)
      BY DEF IInv
    <2>2. /\ pc'[s] = pc[s] /\ job'[s] = job[s] /\ writes'[s] = writes[s]
          /\ at'[s] = at[s] /\ left'[s] = left[s]
      BY DEF Others
    <2>3. StageInv(s)'
      BY <2>1, <2>2 DEF StageInv, Unwritten
    <2>4. WritesInv(s)'
      BY <2>1, <2>2 DEF WritesInv, AddInv, RemoveInv, ReorderInv, CascadeInv, Present
    <2> QED
      BY <2>3, <2>4
  <1>2. LockInv'
    <2>1. \A q, s \in Requests, t \in Tracks : writes'[q][t] # Same /\ writes'[s][t] # Same => q = s
      <3> SUFFICES ASSUME NEW s \in Requests \ {r}, NEW t \in Tracks,
                          writes'[r][t] # Same, writes'[s][t] # Same
                   PROVE  FALSE
        BY DEF IInv, LockInv, Others
      <3>1. writes[s][t] # Same
        BY DEF Others
      <3> QED
        BY <3>1 DEF IInv, LockInv, Free, Writers
    <2>2. \A q, s \in Requests : pc'[q] \in {"commit", "cascade"} /\ pc'[s] \in {"commit", "cascade"}
                                 => q = s
      BY DEF IInv, LockInv, Others
    <2>3. \A q, s \in Requests : pc'[q] = "cascade" /\ pc'[s] = "touch" => job'[s].kind # "add"
      BY DEF IInv, LockInv, Others
    <2> QED
      BY <2>1, <2>2, <2>3 DEF LockInv
  <1>4. (status # "live" => Present(rows) = {})' /\ (tidy => Dense(rows, Cardinality(Present(rows))))'
    BY DEF IInv, Present, Dense
  <1> QED
    BY <1>1, <1>2, <1>4 DEF IInv

-----------------------------------------------------------------------------
(* Data *)

\* A sequence without its k-th element.
LEMMA RemoveAtIs ==
    ASSUME NEW S, NEW s \in Seq(S), NEW k \in 1 .. Len(s)
    PROVE  /\ RemoveAt(s, k) \in Seq(S) /\ Len(RemoveAt(s, k)) = Len(s) - 1
           /\ \A i \in 1 .. Len(s) - 1 : RemoveAt(s, k)[i] = IF i < k THEN s[i] ELSE s[i + 1]
  <1> DEFINE n == Len(s)
             front == SubSeq(s, 1, k - 1)
             back == SubSeq(s, k + 1, n)
  <1>1. n \in Nat /\ k \in Int /\ 1 <= k /\ k <= n /\ \A i \in 1 .. n : s[i] \in S
    OBVIOUS
  <1> HIDE DEF n
  <1>2. /\ front \in Seq(S) /\ Len(front) = k - 1
        /\ \A i \in 1 .. k - 1 : front[i] = s[i]
    <2>1. /\ front \in Seq(S) /\ Len(front) = IF 1 <= k - 1 THEN (k - 1) - 1 + 1 ELSE 0
          /\ \A i \in 1 .. (k - 1) - 1 + 1 : front[i] = s[1 + i - 1]
      BY <1>1, SubSeqProperties
    <2> HIDE DEF front
    <2> QED
      BY <1>1, <2>1
  <1>3. /\ back \in Seq(S) /\ Len(back) = n - k
        /\ \A i \in 1 .. n - k : back[i] = s[i + k]
    <2>1. /\ back \in Seq(S) /\ Len(back) = IF k + 1 <= n THEN n - (k + 1) + 1 ELSE 0
          /\ \A i \in 1 .. n - (k + 1) + 1 : back[i] = s[(k + 1) + i - 1]
      BY <1>1, SubSeqProperties
    <2> HIDE DEF back
    <2>2. Len(back) = n - k
      BY <1>1, <2>1
    <2>3. ASSUME NEW i \in 1 .. n - k PROVE back[i] = s[i + k]
      <3>1. i \in 1 .. n - (k + 1) + 1 /\ (k + 1) + i - 1 = i + k
        BY <1>1
      <3> QED
        BY <2>1, <3>1
    <2> QED
      BY <2>1, <2>2, <2>3
  <1>4. RemoveAt(s, k) = front \o back
    BY DEF RemoveAt, n
  <1> HIDE DEF front, back
  <1>5. /\ front \o back \in Seq(S) /\ Len(front \o back) = Len(front) + Len(back)
        /\ \A i \in 1 .. Len(front) + Len(back) :
             (front \o back)[i] = IF i <= Len(front) THEN front[i] ELSE back[i - Len(front)]
    BY <1>2, <1>3, ConcatProperties
  <1>6. Len(front) + Len(back) = n - 1
    BY <1>1, <1>2, <1>3
  <1>7. ASSUME NEW i \in 1 .. n - 1
        PROVE  (front \o back)[i] = IF i < k THEN s[i] ELSE s[i + 1]
    <2>1. (front \o back)[i] = IF i <= k - 1 THEN front[i] ELSE back[i - (k - 1)]
      BY <1>2, <1>5, <1>6
    <2>2. CASE i < k
      BY <1>1, <1>2, <2>1, <2>2
    <2>3. CASE ~(i < k)
      <3>1. i - (k - 1) \in 1 .. n - k /\ (i - (k - 1)) + k = i + 1 /\ ~(i <= k - 1)
        BY <1>1, <2>3
      <3>2. back[i - (k - 1)] = s[i + 1]
        BY <1>3, <3>1
      <3> QED
        BY <2>1, <2>3, <3>1, <3>2
    <2> QED
      BY <2>2, <2>3
  <1> QED
    BY <1>4, <1>5, <1>6, <1>7 DEF n

\* A request that leaves the queue leaves a queue of requests.
LEMMA WithoutType ==
    ASSUME NEW q \in Seq(Requests), NEW r
    PROVE  Without(q, r) \in Seq(Requests)
  <1>1. CASE r \in ToSet(q)
    <2> DEFINE i == CHOOSE k \in DOMAIN q : q[k] = r
    <2>1. i \in 1 .. Len(q)
      BY <1>1 DEF ToSet
    <2> HIDE DEF i
    <2> QED
      BY <1>1, <2>1, RemoveAtIs DEF Without, i
  <1> QED
    BY <1>1 DEF Without

\* A finite set of numbers has a last one.
LEMMA MaxIsMember ==
    ASSUME NEW S \in SUBSET Nat, IsFiniteSet(S), S # {}
    PROVE  Max(S) \in S /\ \A i \in S : i <= Max(S)
  <1> DEFINE T == {{y \in S : y > x} : x \in S}
  <1>1. T \subseteq FiniteSubsetsOf(S) /\ T # {}
    <2>1. \A x \in S : {y \in S : y > x} \in SUBSET S /\ IsFiniteSet({y \in S : y > x})
      BY FS_Subset
    <2> QED
      BY <2>1 DEF FiniteSubsetsOf
  <1>2. PICK X \in T : \A Y \in T : <<Y, X>> \notin StrictSubsetOrdering(S)
    BY <1>1, FS_StrictSubsetOrderingWellFounded, WFMin
  <1>3. PICK x \in S : X = {y \in S : y > x}
    OBVIOUS
  <1>4. \A y \in S : y <= x
    <2> SUFFICES ASSUME NEW y \in S, y > x PROVE FALSE
      OBVIOUS
    <2> DEFINE Y == {z \in S : z > y}
    <2>1. Y \in T
      OBVIOUS
    <2>2. x \in Nat /\ y \in Nat /\ \A z \in S : z \in Nat
      OBVIOUS
    <2>3. \A z \in Y : z \in S /\ z > x
      BY <2>2
    <2>4. y \in X /\ y \notin Y
      BY <1>3, <2>2
    <2>5. Y \subseteq X /\ X \subseteq S
      BY <1>3, <2>3
    <2> HIDE DEF Y, T
    <2>6. <<Y, X>> \in StrictSubsetOrdering(S)
      BY <2>4, <2>5 DEF StrictSubsetOrdering
    <2> QED
      BY <2>1, <2>6, <1>2
  <1> QED
    BY <1>4 DEF Max

\* SELECT COALESCE(MAX(position), 0) + 1 is the position after the last.
LEMMA NextPosition ==
    ASSUME TypeOK
    PROVE  LET next == Max({rows[t] : t \in Tracks} \cup {0}) + 1
           IN  next \in Nat /\ next >= 1 /\ After(next)
  <1> DEFINE S == {rows[t] : t \in Tracks} \cup {0}
  <1>1. S \in SUBSET Nat /\ S # {} /\ 0 \in S
    BY DEF TypeOK
  <1>2. IsFiniteSet(S)
    <2> DEFINE P == {rows[t] : t \in Tracks}
    <2>1. rows \in Surjection(Tracks, P)
      BY DEF Surjection, TypeOK
    <2>2. IsFiniteSet(P)
      BY <2>1, FS_Surjection, PlaylistAssumption
    <2> HIDE DEF P
    <2>3. IsFiniteSet(P \cup {0})
      BY <2>2, FS_AddElement
    <2> QED
      BY <2>3 DEF P
  <1>3. Max(S) \in S /\ \A i \in S : i <= Max(S)
    BY <1>1, <1>2, MaxIsMember
  <1> DEFINE m == Max(S)
  <1>4. m \in Nat /\ \A t \in Tracks : rows[t] <= m
    BY <1>1, <1>3
  <1>5. m = 0 \/ \E t \in Tracks : rows[t] = m
    BY <1>3
  <1> HIDE DEF m
  <1>6. m + 1 \in Nat /\ m + 1 >= 1 /\ After(m + 1)
    BY <1>4, <1>5 DEF After, TypeOK
  <1> QED
    BY <1>6 DEF m

\* An order that has every track once has no track twice.
LEMMA OrderOnce ==
    ASSUME TypeOK, NEW order \in Seq(Tracks), SameTracks(order)
    PROVE  \A i, k \in DOMAIN order : order[i] = order[k] => i = k
  <1>1. DOMAIN order = 1 .. Len(order) /\ Len(order) \in Nat
    OBVIOUS
  <1>2. order \in Surjection(1 .. Len(order), Present(rows))
    BY <1>1 DEF SameTracks, ToSet, Surjection
  <1>3. IsFiniteSet(1 .. Len(order)) /\ Cardinality(1 .. Len(order)) = Len(order)
    BY <1>1, FS_Interval
  <1>4. order \in Injection(1 .. Len(order), Present(rows))
    BY <1>2, <1>3, FS_SurjSameCardinalityImpliesInj DEF SameTracks
  <1> QED
    BY <1>1, <1>4 DEF Injection, IsInjective

\* Dense positions run up to the number of tracks.
LEMMA DenseCount ==
    ASSUME NEW table \in [Tracks -> Nat], NEW n \in Nat, Dense(table, n)
    PROVE  Cardinality(Present(table)) = n
  <1> DEFINE f == [t \in Present(table) |-> table[t]]
  <1>1. f \in [Present(table) -> 1 .. n]
    BY DEF Dense, Present, Absent
  <1>2. \A t, u \in Present(table) : f[t] = f[u] => t = u
    BY DEF Dense, Present, Absent
  <1>3. \A i \in 1 .. n : \E t \in Present(table) : f[t] = i
    BY DEF Dense, Present, Absent
  <1>4. f \in Bijection(Present(table), 1 .. n)
    BY <1>1, <1>2, <1>3 DEF Bijection, Injection, Surjection, IsInjective
  <1>5. IsFiniteSet(Present(table))
    BY FS_Subset, PlaylistAssumption DEF Present
  <1>6. Cardinality(1 .. n) = n
    BY FS_Interval
  <1> QED
    BY <1>4, <1>5, <1>6, FS_Bijection DEF ExistsBijection

\* Without the tracks of a playlist that is gone, no order is dense but the empty one.
LEMMA EmptyDense ==
    ASSUME TypeOK, Present(rows) = {}
    PROVE  Dense(rows, 0) /\ Cardinality(Present(rows)) = 0
  <1>1. \A t \in Tracks : rows[t] = 0
    BY DEF Present, Absent
  <1> QED
    BY <1>1, FS_EmptySet DEF Dense, Absent

\* Before anything was written.
LEMMA UnwrittenFacts == Unwritten \in Row /\ \A t \in Tracks : Unwritten[t] = Same
BY DEF Unwritten, Row

-----------------------------------------------------------------------------
(* The gateway *)

\* A request that is not in service has overlapped nothing.
LEMMA AloneIsEditor ==
    ASSUME IInv, NEW r \in alone
    PROVE  r \in Requests /\ Editor(r) /\ \A q \in alone : q = r
BY DEF IInv, TypeOK, AloneInv

\* A handler ends: its transaction is over, and the others are not disturbed.
LEMMA LeavingStep ==
    ASSUME IInv, NEW r \in Requests, NEW stage \in {"idle", "queued", "reply"},
           pc[r] # "idle" \/ stage = "idle", NEW position \in Nat, NEW rest \in SUBSET Tracks,
           Becomes(r, stage, Unwritten, position, rest), alone' \subseteq alone, r \notin alone'
    PROVE  IInv'
  <1>1. /\ TypeOK' /\ Others(r) /\ pc'[r] = stage /\ writes'[r] = Unwritten
    <2>1. stage \notin InService /\ alone' \subseteq Requests
      BY DEF InService, IInv, TypeOK
    <2> QED
      BY <2>1, BecomesType, UnwrittenFacts DEF IInv
  <1>2. StageInv(r)' /\ WritesInv(r)' /\ ~Editor(r)'
    BY <1>1 DEF StageInv, WritesInv, Editor, InService
  <1>3. \A t \in Tracks : writes'[r][t] = Same
    BY <1>1, UnwrittenFacts
  <1>4. UNCHANGED <<status, rows, tidy>>
    BY DEF Becomes
  <1>5. \A q \in alone' : AloneInv(q)'
    BY <1>1, <1>2, <1>4, AloneKept
  <1> QED
    BY <1>1, <1>2, <1>3, <1>4, <1>5, LocalStep

LEMMA DequeueType ==
    ASSUME TypeOK, NEW r \in Requests, Dequeue(r)
    PROVE  queue' \in Queues
BY WithoutType DEF TypeOK, Dequeue, Queues

\* The client's queue grows by the request.
LEMMA SendStep ==
    ASSUME IInv, NEW r \in Requests, NEW g \in Gateways, NEW j \in Jobs, Send(r, g, j)
    PROVE  IInv'
  <1>1. /\ pc[r] = "idle" /\ pc' = [pc EXCEPT ![r] = "queued"] /\ job' = [job EXCEPT ![r] = j]
        /\ queue' = [queue EXCEPT ![g] = Append(queue[g], r)]
        /\ UNCHANGED <<status, rows, writes, at, left, alone, tidy>>
    BY DEF Send
  <1>2. TypeOK
    BY DEF IInv
  <1>3. Others(r) /\ pc'[r] = "queued" /\ job'[r] = j
    BY <1>1, <1>2 DEF Others, TypeOK
  <1>4. TypeOK'
    <2>1. queue' \in Queues
      BY <1>1, <1>2, AppendProperties DEF Queues, TypeOK
    <2>2. \A s \in Requests : pc'[s] # "idle" => job'[s] \in Jobs
      BY <1>2, <1>3 DEF Others, TypeOK
    <2>3. \A s \in Requests : pc'[s] \notin InService => writes'[s] = Unwritten
      BY <1>1, <1>2, <1>3 DEF Others, TypeOK, InService
    <2>4. pc' \in [Requests -> InService \cup {"idle", "queued", "reply"}]
          /\ job' \in [Requests -> Jobs \cup {<<>>}]
      BY <1>1, <1>2 DEF TypeOK
    <2> QED
      BY <1>1, <1>2, <2>1, <2>2, <2>3, <2>4 DEF TypeOK, Queues, Unwritten
  <1>5. StageInv(r)' /\ WritesInv(r)' /\ ~Editor(r)'
    BY <1>3 DEF StageInv, WritesInv, Editor, InService
  <1>6. r \notin alone
    BY <1>1, AloneIsEditor DEF Editor, InService
  <1>7. \A q \in alone' : AloneInv(q)'
    BY <1>1, <1>3, <1>4, <1>5, <1>6, AloneKept
  <1> QED
    BY <1>1, <1>3, <1>4, <1>5, <1>7, LocalStep

\* The kind of a job that is asked for.
LEMMA KindOfJob ==
    ASSUME NEW j \in Jobs
    PROVE  /\ j.kind \in {"add", "remove", "reorder", "update", "delete"}
           /\ j.kind \in {"add", "remove"} => j.track \in Tracks
           /\ j.kind = "reorder" => j.order \in Seq(Tracks) /\ j.order # <<>>
BY PlaylistAssumption

\* The first stage of a change, whose transaction has written nothing; a change of the
\* order is undisturbed if no other is under way, and disturbs those that are.
LEMMA CheckOwnerStep ==
    ASSUME IInv, NEW r \in Requests, CheckOwner(r)
    PROVE  IInv'
  <1>1. TypeOK /\ pc[r] = "queued" /\ writes[r] = Unwritten /\ job[r] \in Jobs /\ r \notin alone
    <2>1. r \notin alone
      BY AloneIsEditor DEF CheckOwner, Editor, InService
    <2> QED
      BY <2>1 DEF CheckOwner, IInv, TypeOK, InService
  <1>2. CASE Goto(r, "reply") /\ UNCHANGED alone
    <2>1. Becomes(r, "reply", Unwritten, at[r], left[r])
      BY <1>1, <1>2 DEF CheckOwner, Keep, Becomes, TypeOK, Queues
    <2>2. at[r] \in Nat /\ left[r] \in SUBSET Tracks
      BY <1>1 DEF TypeOK
    <2> QED
      BY <1>1, <1>2, <2>1, <2>2, LeavingStep
  <1>3. CASE /\ status = "live"
             /\ Goto(r, FirstStage(job[r].kind))
             /\ alone' = IF job[r].kind \in {"update", "delete"} THEN alone
                         ELSE IF Editing = {} THEN {r} ELSE {}
    <2> DEFINE stage == FirstStage(job[r].kind)
    <2>1. stage \in {"max", "delete", "list", "update", "drop"}
      BY <1>1, KindOfJob DEF FirstStage
    <2>2. /\ stage = "max" <=> job[r].kind = "add"
          /\ stage = "delete" <=> job[r].kind = "remove"
          /\ stage = "list" <=> job[r].kind = "reorder"
          /\ stage = "update" <=> job[r].kind = "update"
          /\ stage = "drop" <=> job[r].kind = "delete"
      BY <1>1, KindOfJob DEF FirstStage
    <2>3. Becomes(r, stage, Unwritten, at[r], left[r]) /\ at[r] \in Nat /\ left[r] \in SUBSET Tracks
      BY <1>1, <1>3 DEF CheckOwner, Keep, Becomes, TypeOK, Queues
    <2> HIDE DEF stage
    <2>4. stage \in InService /\ alone' \subseteq Requests
      BY <1>1, <1>3, <2>1 DEF InService, TypeOK
    <2>5. /\ TypeOK' /\ Others(r) /\ pc'[r] = stage /\ writes'[r] = Unwritten /\ job'[r] = job[r]
      BY <1>1, <2>1, <2>3, <2>4, BecomesType, UnwrittenFacts
    <2>6. UNCHANGED <<status, rows, tidy>>
      BY <2>3 DEF Becomes
    <2>7. StageInv(r)' /\ WritesInv(r)'
      BY <1>3, <2>1, <2>2, <2>5, <2>6 DEF StageInv, WritesInv
    <2>8. \A q \in alone' : AloneInv(q)'
      <3>1. CASE job[r].kind \in {"update", "delete"}
        <4>1. ~Editor(r)'
          BY <2>5, <3>1 DEF Editor
        <4> QED
          BY <1>1, <1>3, <2>5, <2>6, <3>1, <4>1, AloneKept
      <3>2. CASE job[r].kind \notin {"update", "delete"} /\ Editing = {}
        <4>1. Editor(r)' /\ \A s \in Requests \ {r} : ~Editor(s)'
          BY <1>1, <2>4, <2>5, <3>2, KindOfJob DEF Editor, Editing, Others
        <4>2. AloneInv(r)'
          BY <4>1, <2>1, <2>5 DEF AloneInv
        <4> QED
          BY <1>3, <3>2, <4>2
      <3>3. CASE job[r].kind \notin {"update", "delete"} /\ Editing # {}
        BY <1>3, <3>3
      <3> QED
        BY <3>1, <3>2, <3>3
    <2>9. \A t \in Tracks : writes'[r][t] = Same
      BY <2>5, UnwrittenFacts
    <2> QED
      BY <2>1, <2>5, <2>6, <2>7, <2>8, <2>9, LocalStep
  <1> QED
    BY <1>2, <1>3 DEF CheckOwner

\* A reply and a caller who hangs up release the client, and forget the request.
LEMMA ReplyStep ==
    ASSUME IInv, NEW r \in Requests, Reply(r)
    PROVE  IInv'
  <1>1. TypeOK /\ pc[r] = "reply" /\ writes[r] = Unwritten /\ r \notin alone
    <2>1. r \notin alone
      BY AloneIsEditor DEF Reply, Editor, InService
    <2> QED
      BY <2>1 DEF Reply, IInv, TypeOK, InService
  <1>2. Becomes(r, "idle", Unwritten, at[r], left[r]) /\ at[r] \in Nat /\ left[r] \in SUBSET Tracks
    BY <1>1, DequeueType DEF Reply, Becomes, TypeOK
  <1>3. UNCHANGED alone
    BY DEF Reply
  <1> QED
    BY <1>1, <1>2, <1>3, LeavingStep

\* The queues alone say nothing of the transactions.
LEMMA QueueStep ==
    ASSUME IInv, queue' \in Queues,
           UNCHANGED <<status, rows, writes, pc, job, at, left, alone, tidy>>
    PROVE  IInv'
  <1>1. TypeOK'
    BY DEF IInv, TypeOK, Queues, Unwritten
  <1>2. \A s \in Requests : StageInv(s)' /\ WritesInv(s)'
    BY DEF IInv, StageInv, WritesInv, AddInv, RemoveInv, ReorderInv, CascadeInv, Present, Unwritten
  <1>3. ASSUME NEW q \in alone PROVE AloneInv(q)'
    <2>1. AloneInv(q)
      BY DEF IInv
    <2> QED
      BY <2>1
      DEF AloneInv, Editor, AddAlone, RemoveAlone, ReorderAlone, After, SameTracks,
          Present, Unwritten
  <1>4. LockInv'
    BY DEF IInv, LockInv
  <1>5. (status # "live" => Present(rows) = {})' /\ (tidy => Dense(rows, Cardinality(Present(rows))))'
    BY DEF IInv, Present, Dense
  <1> QED
    BY <1>1, <1>2, <1>3, <1>4, <1>5 DEF IInv

LEMMA HangUpStep ==
    ASSUME IInv, NEW r \in Requests, HangUp(r)
    PROVE  IInv'
  <1>1. TypeOK /\ queue' \in Queues /\ UNCHANGED <<status, rows, writes, at, left, alone, tidy>>
    BY DequeueType DEF HangUp, IInv
  <1>2. CASE pc[r] \in InService
    <2>1. UNCHANGED <<pc, job>>
      BY <1>1, <1>2 DEF HangUp, Goto, TypeOK, InService
    <2> QED
      BY <1>1, <2>1, QueueStep
  <1>3. CASE pc[r] \notin InService
    <2>1. r \notin alone
      BY <1>3, AloneIsEditor DEF Editor
    <2>2. Becomes(r, "idle", Unwritten, at[r], left[r]) /\ at[r] \in Nat /\ left[r] \in SUBSET Tracks
      BY <1>1, <1>3 DEF HangUp, Becomes, TypeOK
    <2> QED
      BY <1>1, <2>1, <2>2, LeavingStep
  <1> QED
    BY <1>2, <1>3

\* A rollback, on a failure or because there is nothing to change.
LEMMA RollbackStep ==
    ASSUME IInv, NEW r \in Requests, pc[r] # "idle", NEW stage \in {"idle", "reply"},
           Rollback(r, stage)
    PROVE  IInv'
  <1>1. Becomes(r, stage, Unwritten, 0, {}) /\ alone' = alone \ {r}
    BY DEF Rollback, Becomes, Keep, IInv, TypeOK, Queues
  <1> QED
    BY <1>1, LeavingStep

-----------------------------------------------------------------------------
(* The statements of a transaction *)

\* What the invariant says of one request in service, and what its step needs.
LEMMA InServiceFacts ==
    ASSUME IInv, NEW r \in Requests, pc[r] \in InService
    PROVE  /\ TypeOK /\ StageInv(r) /\ WritesInv(r) /\ pc[r] # "idle"
           /\ job[r] \in Jobs /\ at[r] \in Nat /\ left[r] \in SUBSET Tracks
           /\ writes[r] \in Row /\ rows \in [Tracks -> Nat] /\ queue \in Queues
           /\ alone \subseteq Requests /\ \A q \in alone : q # r => AloneInv(q)
           /\ r \in alone => AloneInv(r)
BY DEF IInv, TypeOK, InService, Row, Queues

\* Two requests that are undisturbed at once are one.
LEMMA StillAlone ==
    ASSUME IInv, TypeOK', NEW r \in Requests, Others(r), UNCHANGED <<status, rows, alone>>,
           Editor(r), Editor(r)', r \in alone => AloneInv(r)'
    PROVE  \A q \in alone' : AloneInv(q)'
BY AloneKept

LEMMA OthersIdle ==
    ASSUME IInv, NEW r \in alone, Others(r), Editor(r)'
    PROVE  Editor(r)' /\ \A s \in Requests \ {r} : ~Editor(s)'
BY DEF IInv, AloneInv, Others, Editor

LEMMA ReadMaxStep ==
    ASSUME IInv, NEW r \in Requests, ReadMax(r)
    PROVE  IInv'
  <1> DEFINE next == Max({rows[t] : t \in Tracks} \cup {0}) + 1
  <1>1. pc[r] = "max" /\ pc[r] \in InService
    BY DEF ReadMax, InService
  <1>2. /\ TypeOK /\ job[r].kind = "add" /\ writes[r] = Unwritten /\ left[r] \in SUBSET Tracks
        /\ queue \in Queues
    BY <1>1, InServiceFacts DEF StageInv
  <1>3. next \in Nat /\ next >= 1 /\ After(next)
    BY <1>2, NextPosition
  <1>4. Becomes(r, "insert", Unwritten, next, left[r]) /\ UNCHANGED <<status, rows, alone, tidy>>
    BY <1>2 DEF ReadMax, Keep, Becomes, TypeOK
  <1> HIDE DEF next
  <1>5. /\ TypeOK' /\ Others(r) /\ pc'[r] = "insert" /\ writes'[r] = Unwritten
        /\ at'[r] = next /\ job'[r] = job[r]
    <2>1. "insert" \in InService /\ alone' \subseteq Requests
      BY <1>2, <1>4 DEF InService, TypeOK
    <2> QED
      BY <1>1, <1>2, <1>3, <1>4, <2>1, BecomesType, UnwrittenFacts
  <1>6. StageInv(r)' /\ WritesInv(r)' /\ Editor(r) /\ Editor(r)'
    BY <1>1, <1>2, <1>3, <1>4, <1>5, InServiceFacts
    DEF StageInv, WritesInv, Editor, InService
  <1>7. r \in alone => AloneInv(r)'
    <2> SUFFICES ASSUME r \in alone PROVE AloneInv(r)'
      OBVIOUS
    <2>1. Editor(r)' /\ \A s \in Requests \ {r} : ~Editor(s)'
      BY <1>5, <1>6, OthersIdle
    <2>2. After(at[r])'
      BY <1>3, <1>4, <1>5 DEF After
    <2> QED
      BY <1>5, <2>1, <2>2 DEF AloneInv
  <1>8. \A q \in alone' : AloneInv(q)'
    BY <1>4, <1>5, <1>6, <1>7, StillAlone
  <1>9. \A t \in Tracks : writes'[r][t] = Same
    BY <1>5, UnwrittenFacts
  <1> QED
    BY <1>4, <1>5, <1>6, <1>8, <1>9, LocalStep

LEMMA InsertRowStep ==
    ASSUME IInv, NEW r \in Requests, InsertRow(r)
    PROVE  IInv'
  <1> DEFINE t == job[r].track
             written == [writes[r] EXCEPT ![t] = at[r]]
  <1>1. pc[r] = "insert" /\ pc[r] \in InService /\ Free(r, t) /\ PlaylistHolders(r) = {}
    BY DEF InsertRow, InService
  <1>2. /\ TypeOK /\ job[r].kind = "add" /\ writes[r] = Unwritten /\ left[r] \in SUBSET Tracks
        /\ queue \in Queues /\ t \in Tracks /\ at[r] \in Nat /\ at[r] >= 1 /\ pc[r] # "idle"
    BY <1>1, InServiceFacts, KindOfJob DEF StageInv
  <1>3. CASE ~(rows[t] = Absent /\ status = "live")
    BY <1>2, <1>3, RollbackStep DEF InsertRow
  <1>4. CASE rows[t] = Absent /\ status = "live"
    <2>1. Becomes(r, "touch", written, at[r], left[r]) /\ UNCHANGED <<status, rows, alone, tidy>>
      BY <1>2, <1>4 DEF InsertRow, Keep, Becomes, Write, TypeOK
    <2>2. written \in Row /\ \A u \in Tracks : written[u] = IF u = t THEN at[r] ELSE Same
      BY <1>2, UnwrittenFacts DEF Row
    <2> HIDE DEF written
    <2>3. /\ TypeOK' /\ Others(r) /\ pc'[r] = "touch" /\ writes'[r] = written
          /\ at'[r] = at[r] /\ job'[r] = job[r]
      <3>1. "touch" \in InService /\ alone' \subseteq Requests
        BY <1>2, <2>1 DEF InService, TypeOK
      <3> QED
        BY <1>2, <2>1, <2>2, <3>1, BecomesType
    <2>4. StageInv(r)' /\ Editor(r) /\ Editor(r)'
      BY <1>1, <1>2, <1>4, <2>1, <2>3 DEF StageInv, Editor, InService
    <2>5. WritesInv(r)'
      BY <1>2, <1>4, <2>1, <2>2, <2>3 DEF WritesInv, AddInv, Absent
    <2>6. r \in alone => AloneInv(r)'
      <3> SUFFICES ASSUME r \in alone PROVE AloneInv(r)'
        OBVIOUS
      <3>1. Editor(r)' /\ \A s \in Requests \ {r} : ~Editor(s)'
        BY <2>3, <2>4, OthersIdle
      <3>2. After(at[r])
        BY <1>1, <1>4, InServiceFacts DEF AloneInv
      <3>3. AddAlone(r)'
        BY <1>2, <2>1, <2>2, <2>3, <3>2 DEF AddAlone, After
      <3> QED
        BY <1>2, <2>3, <3>1, <3>3 DEF AloneInv
    <2>7. \A q \in alone' : AloneInv(q)'
      BY <2>1, <2>3, <2>4, <2>6, StillAlone
    <2>8. \A s \in Requests \ {r} : pc[s] # "cascade"
      BY <1>1 DEF PlaylistHolders, Deleting
    <2>9. \A u \in Tracks : writes'[r][u] # Same => Free(r, u)
      BY <1>1, <2>2, <2>3
    <2> QED
      BY <2>1, <2>3, <2>4, <2>5, <2>7, <2>8, <2>9, LocalStep
  <1> QED
    BY <1>3, <1>4

LEMMA DeleteRowStep ==
    ASSUME IInv, NEW r \in Requests, DeleteRow(r)
    PROVE  IInv'
  <1> DEFINE t == job[r].track
             written == [writes[r] EXCEPT ![t] = Absent]
  <1>1. pc[r] = "delete" /\ pc[r] \in InService /\ Free(r, t)
    BY DEF DeleteRow, InService
  <1>2. /\ TypeOK /\ job[r].kind = "remove" /\ writes[r] = Unwritten /\ left[r] \in SUBSET Tracks
        /\ queue \in Queues /\ t \in Tracks /\ rows[t] \in Nat /\ pc[r] # "idle"
        /\ status # "unmade"
    BY <1>1, InServiceFacts, KindOfJob DEF StageInv
  <1>3. CASE rows[t] = Absent
    BY <1>2, <1>3, RollbackStep DEF DeleteRow
  <1>4. CASE rows[t] # Absent
    <2>1. Becomes(r, "range", written, rows[t], left[r]) /\ UNCHANGED <<status, rows, alone, tidy>>
      BY <1>2, <1>4 DEF DeleteRow, Keep, Becomes, Write, TypeOK
    <2>2. written \in Row /\ \A u \in Tracks : written[u] = IF u = t THEN Absent ELSE Same
      BY <1>2, UnwrittenFacts DEF Row, Absent
    <2> HIDE DEF written
    <2>3. /\ TypeOK' /\ Others(r) /\ pc'[r] = "range" /\ writes'[r] = written
          /\ at'[r] = rows[t] /\ job'[r] = job[r]
      <3>1. "range" \in InService /\ alone' \subseteq Requests
        BY <1>2, <2>1 DEF InService, TypeOK
      <3> QED
        BY <1>2, <2>1, <2>2, <3>1, BecomesType
    <2>4. StageInv(r)' /\ Editor(r) /\ Editor(r)'
      BY <1>1, <1>2, <1>4, <2>1, <2>3 DEF StageInv, Editor, InService, Absent
    <2>5. WritesInv(r)'
      BY <1>2, <1>4, <2>1, <2>2, <2>3 DEF WritesInv, RemoveInv
    <2>6. r \in alone => AloneInv(r)'
      <3> SUFFICES ASSUME r \in alone PROVE AloneInv(r)'
        OBVIOUS
      <3>1. Editor(r)' /\ \A s \in Requests \ {r} : ~Editor(s)'
        BY <2>3, <2>4, OthersIdle
      <3>2. RemoveAlone(r)'
        BY <1>2, <2>1, <2>2, <2>3 DEF RemoveAlone
      <3> QED
        BY <1>2, <2>3, <3>1, <3>2 DEF AloneInv
    <2>7. \A q \in alone' : AloneInv(q)'
      BY <2>1, <2>3, <2>4, <2>6, StillAlone
    <2>8. \A u \in Tracks : writes'[r][u] # Same => Free(r, u)
      BY <1>1, <2>2, <2>3
    <2> QED
      BY <2>1, <2>3, <2>4, <2>5, <2>7, <2>8, LocalStep
  <1> QED
    BY <1>3, <1>4

LEMMA FindRangeStep ==
    ASSUME IInv, NEW r \in Requests, FindRange(r)
    PROVE  IInv'
  <1> DEFINE t == job[r].track
             rest == {u \in Tracks : Visible(r)[u] > at[r]}
             stage == IF rest = {} THEN "touch" ELSE "shift"
  <1>1. pc[r] = "range" /\ pc[r] \in InService
    BY DEF FindRange, InService
  <1>2. /\ TypeOK /\ job[r].kind = "remove" /\ writes[r] \in Row /\ queue \in Queues
        /\ t \in Tracks /\ at[r] \in Nat /\ at[r] >= 1 /\ pc[r] # "idle" /\ status # "unmade"
        /\ RemoveInv(r) /\ rows \in [Tracks -> Nat]
    BY <1>1, InServiceFacts, KindOfJob DEF StageInv, WritesInv
  <1>3. /\ Becomes(r, stage, writes[r], at[r], rest) /\ UNCHANGED <<status, rows, alone, tidy>>
        /\ rest \in SUBSET Tracks
    <2>1. left' = [left EXCEPT ![r] = rest] /\ left'[r] = rest
      BY <1>2 DEF FindRange, TypeOK
    <2> HIDE DEF rest
    <2> QED
      BY <1>2, <2>1 DEF FindRange, Keep, Becomes, TypeOK, rest
  <1>4. t \notin rest
    BY <1>2, PlaylistAssumption DEF Visible, RemoveInv, Absent
  <1>5. \A u \in Tracks : writes[r][u] = Same => (u \in rest <=> rows[u] > at[r])
    BY DEF Visible
  <1> HIDE DEF rest
  <1>6. stage \in {"touch", "shift"} /\ (stage = "touch" <=> rest = {})
    OBVIOUS
  <1> HIDE DEF stage
  <1>7. /\ TypeOK' /\ Others(r) /\ pc'[r] = stage /\ writes'[r] = writes[r]
        /\ at'[r] = at[r] /\ left'[r] = rest /\ job'[r] = job[r]
    <2>1. stage \in InService /\ stage # "idle" /\ alone' \subseteq Requests
      BY <1>2, <1>3, <1>6 DEF InService, TypeOK
    <2> QED
      BY <1>2, <1>3, <2>1, BecomesType
  <1>8. StageInv(r)' /\ Editor(r) /\ Editor(r)'
    BY <1>1, <1>2, <1>3, <1>6, <1>7 DEF StageInv, Editor, InService
  <1>9. WritesInv(r)'
    BY <1>2, <1>3, <1>4, <1>6, <1>7 DEF WritesInv, RemoveInv
  <1>10. r \in alone => AloneInv(r)'
    <2> SUFFICES ASSUME r \in alone PROVE AloneInv(r)'
      OBVIOUS
    <2>1. Editor(r)' /\ \A s \in Requests \ {r} : ~Editor(s)'
      BY <1>7, <1>8, OthersIdle
    <2>2. RemoveAlone(r)
      BY <1>1, <1>2, InServiceFacts DEF AloneInv
    <2>3. /\ at[r] = rows[t]
          /\ \A u \in Tracks \ {t} : writes[r][u] = Same /\ (u \in rest <=> rows[u] > at[r])
      BY <1>1, <1>5, <2>2 DEF RemoveAlone
    <2>4. RemoveAlone(r)'
      BY <1>3, <1>6, <1>7, <2>3 DEF RemoveAlone
    <2> QED
      BY <1>2, <1>6, <1>7, <2>1, <2>4 DEF AloneInv
  <1>11. \A q \in alone' : AloneInv(q)'
    BY <1>3, <1>7, <1>8, <1>10, StillAlone
  <1> QED
    BY <1>2, <1>3, <1>6, <1>7, <1>8, <1>9, <1>11, LocalStep

LEMMA ShiftRowStep ==
    ASSUME IInv, NEW r \in Requests, NEW u \in Tracks, ShiftRow(r, u)
    PROVE  IInv'
  <1> DEFINE t == job[r].track
             written == IF rows[u] > at[r] THEN [writes[r] EXCEPT ![u] = rows[u] - 1]
                        ELSE writes[r]
             stage == IF left[r] = {u} THEN "touch" ELSE "shift"
  <1>1. pc[r] = "shift" /\ pc[r] \in InService /\ u \in left[r] /\ Free(r, u)
    BY DEF ShiftRow, InService
  <1>2. /\ TypeOK /\ job[r].kind = "remove" /\ writes[r] \in Row /\ queue \in Queues
        /\ t \in Tracks /\ at[r] \in Nat /\ at[r] >= 1 /\ pc[r] # "idle" /\ status # "unmade"
        /\ RemoveInv(r) /\ rows \in [Tracks -> Nat] /\ rows[u] \in Nat /\ left[r] \in SUBSET Tracks
    BY <1>1, InServiceFacts, KindOfJob DEF StageInv, WritesInv
  <1>3. /\ Becomes(r, stage, written, at[r], left[r] \ {u})
        /\ UNCHANGED <<status, rows, alone, tidy>>
    BY <1>1, <1>2 DEF ShiftRow, Keep, Becomes, Write, TypeOK
  <1>4. written \in Row /\ \A v \in Tracks :
           written[v] = IF v = u /\ rows[u] > at[r] THEN rows[u] - 1 ELSE writes[r][v]
    BY <1>2 DEF Row
  <1>5. t # u
    BY <1>1, <1>2 DEF RemoveInv
  <1>6. stage \in {"touch", "shift"} /\ (stage = "touch" <=> left[r] = {u})
    OBVIOUS
  <1> HIDE DEF written, stage
  <1>7. /\ TypeOK' /\ Others(r) /\ pc'[r] = stage /\ writes'[r] = written
        /\ at'[r] = at[r] /\ left'[r] = left[r] \ {u} /\ job'[r] = job[r]
    <2>1. stage \in InService /\ stage # "idle" /\ alone' \subseteq Requests
      BY <1>2, <1>3, <1>6 DEF InService, TypeOK
    <2> QED
      BY <1>2, <1>3, <1>4, <2>1, BecomesType
  <1>8. StageInv(r)' /\ Editor(r) /\ Editor(r)'
    BY <1>1, <1>2, <1>3, <1>6, <1>7 DEF StageInv, Editor, InService
  <1>9. WritesInv(r)'
    <2>1. \A v \in Tracks \ {t} : written[v] # Same => rows[v] # Absent /\ written[v] # Absent
      BY <1>2, <1>4 DEF RemoveInv, Absent
    <2>2. rows[t] # Absent /\ written[t] = Absent /\ t \notin left[r] \ {u}
      BY <1>1, <1>2, <1>4, <1>5 DEF RemoveInv
    <2> QED
      BY <1>2, <1>3, <1>6, <1>7, <2>1, <2>2 DEF WritesInv, RemoveInv
  <1>10. r \in alone => AloneInv(r)'
    <2> SUFFICES ASSUME r \in alone PROVE AloneInv(r)'
      OBVIOUS
    <2>1. Editor(r)' /\ \A s \in Requests \ {r} : ~Editor(s)'
      BY <1>7, <1>8, OthersIdle
    <2>2. RemoveAlone(r)
      BY <1>1, <1>2, InServiceFacts DEF AloneInv
    <2>3. at[r] = rows[t] /\ rows[u] > at[r]
      BY <1>1, <1>5, <2>2 DEF RemoveAlone
    <2>4. \A v \in Tracks \ {t} :
            IF v \in left[r] \ {u} THEN written[v] = Same /\ rows[v] > at[r]
            ELSE written[v] = IF rows[v] > at[r] THEN rows[v] - 1 ELSE Same
      BY <1>1, <1>4, <2>2, <2>3 DEF RemoveAlone
    <2>5. stage = "touch" => left[r] \ {u} = {}
      BY <1>6
    <2>6. RemoveAlone(r)'
      BY <1>3, <1>6, <1>7, <2>3, <2>4, <2>5 DEF RemoveAlone
    <2> QED
      BY <1>2, <1>6, <1>7, <2>1, <2>6 DEF AloneInv
  <1>11. \A q \in alone' : AloneInv(q)'
    BY <1>3, <1>7, <1>8, <1>10, StillAlone
  <1>12. \A v \in Tracks : writes'[r][v] # Same => writes[r][v] # Same \/ Free(r, v)
    BY <1>1, <1>4, <1>7
  <1> QED
    BY <1>2, <1>3, <1>6, <1>7, <1>8, <1>9, <1>11, <1>12, LocalStep

LEMMA ListRowsStep ==
    ASSUME IInv, NEW r \in Requests, ListRows(r)
    PROVE  IInv'
  <1> DEFINE order == job[r].order
  <1>1. pc[r] = "list" /\ pc[r] \in InService
    BY DEF ListRows, InService
  <1>2. /\ TypeOK /\ job[r].kind = "reorder" /\ writes[r] = Unwritten /\ left[r] \in SUBSET Tracks
        /\ queue \in Queues /\ order \in Seq(Tracks) /\ order # <<>> /\ pc[r] # "idle"
        /\ status # "unmade"
    BY <1>1, InServiceFacts, KindOfJob DEF StageInv
  <1>3. CASE ~SameTracks(order)
    BY <1>2, <1>3, RollbackStep DEF ListRows
  <1>4. CASE SameTracks(order)
    <2>1. Becomes(r, "place", Unwritten, 1, left[r]) /\ UNCHANGED <<status, rows, alone, tidy>>
      BY <1>2, <1>4 DEF ListRows, Keep, Becomes, TypeOK
    <2>2. Len(order) \in Nat /\ Len(order) >= 1 /\ DOMAIN order = 1 .. Len(order)
          /\ \A i \in DOMAIN order : order[i] \in Tracks
      BY <1>2
    <2>3. /\ TypeOK' /\ Others(r) /\ pc'[r] = "place" /\ writes'[r] = Unwritten
          /\ at'[r] = 1 /\ job'[r] = job[r]
      <3>1. "place" \in InService /\ alone' \subseteq Requests
        BY <1>2, <2>1 DEF InService, TypeOK
      <3> QED
        BY <1>2, <2>1, <3>1, BecomesType, UnwrittenFacts
    <2>4. StageInv(r)' /\ Editor(r) /\ Editor(r)'
      BY <1>1, <1>2, <2>1, <2>2, <2>3 DEF StageInv, Editor, InService
    <2>5. WritesInv(r)'
      BY <1>2, <2>1, <2>3, UnwrittenFacts DEF WritesInv, ReorderInv
    <2>6. r \in alone => AloneInv(r)'
      <3> SUFFICES ASSUME r \in alone PROVE AloneInv(r)'
        OBVIOUS
      <3>1. Editor(r)' /\ \A s \in Requests \ {r} : ~Editor(s)'
        BY <2>3, <2>4, OthersIdle
      <3>2. SameTracks(order)' /\ job'[r].order = order /\ at'[r] - 1 = 0
        BY <1>4, <2>1, <2>3 DEF SameTracks, Present
      <3>3. \A i \in DOMAIN order : ~(i <= 0) /\ writes'[r][order[i]] = Same
        BY <2>2, <2>3, UnwrittenFacts
      <3>4. ReorderAlone(r)'
        BY <2>3, <3>2, <3>3, UnwrittenFacts DEF ReorderAlone
      <3> QED
        BY <1>2, <2>3, <3>1, <3>4 DEF AloneInv
    <2>7. \A q \in alone' : AloneInv(q)'
      BY <2>1, <2>3, <2>4, <2>6, StillAlone
    <2>8. \A u \in Tracks : writes'[r][u] = Same
      BY <2>3, UnwrittenFacts
    <2> QED
      BY <2>1, <2>3, <2>4, <2>5, <2>7, <2>8, LocalStep
  <1> QED
    BY <1>3, <1>4

LEMMA PlaceRowStep ==
    ASSUME IInv, NEW r \in Requests, PlaceRow(r)
    PROVE  IInv'
  <1> DEFINE order == job[r].order
             t == order[at[r]]
             written == [writes[r] EXCEPT ![t] = at[r]]
             stage == IF at[r] = Len(order) THEN "touch" ELSE "place"
  <1>1. pc[r] = "place" /\ pc[r] \in InService /\ Free(r, t)
    BY DEF PlaceRow, InService
  <1>2. /\ TypeOK /\ job[r].kind = "reorder" /\ writes[r] \in Row /\ left[r] \in SUBSET Tracks
        /\ queue \in Queues /\ order \in Seq(Tracks) /\ order # <<>> /\ pc[r] # "idle"
        /\ status # "unmade" /\ at[r] \in Nat /\ at[r] >= 1 /\ at[r] <= Len(order)
        /\ ReorderInv(r) /\ rows \in [Tracks -> Nat]
    BY <1>1, InServiceFacts, KindOfJob DEF StageInv, WritesInv
  <1>3. /\ Len(order) \in Nat /\ DOMAIN order = 1 .. Len(order) /\ at[r] \in DOMAIN order
        /\ \A i \in DOMAIN order : order[i] \in Tracks
    BY <1>2
  <1>4. t \in Tracks
    BY <1>3
  <1>5. CASE Visible(r)[t] = Absent
    BY <1>2, <1>5, RollbackStep DEF PlaceRow
  <1>6. CASE Visible(r)[t] # Absent
    <2>1. Becomes(r, stage, written, at[r] + 1, left[r]) /\ UNCHANGED <<status, rows, alone, tidy>>
      BY <1>2, <1>6 DEF PlaceRow, Keep, Becomes, Write, TypeOK
    <2>2. written \in Row /\ \A u \in Tracks : written[u] = IF u = t THEN at[r] ELSE writes[r][u]
      BY <1>2, <1>4 DEF Row
    <2>3. stage \in {"touch", "place"} /\ (stage = "touch" <=> at[r] = Len(order))
      OBVIOUS
    <2>4. rows[t] # Absent
      BY <1>2, <1>4, <1>6 DEF ReorderInv, Visible
    <2> HIDE DEF written, stage
    <2>5. /\ TypeOK' /\ Others(r) /\ pc'[r] = stage /\ writes'[r] = written
          /\ at'[r] = at[r] + 1 /\ job'[r] = job[r]
      <3>1. stage \in InService /\ stage # "idle" /\ alone' \subseteq Requests
        BY <1>2, <2>1, <2>3 DEF InService, TypeOK
      <3> QED
        BY <1>2, <2>1, <2>2, <3>1, BecomesType
    <2>6. StageInv(r)' /\ Editor(r) /\ Editor(r)'
      BY <1>1, <1>2, <1>3, <2>1, <2>3, <2>5 DEF StageInv, Editor, InService
    <2>7. WritesInv(r)'
      <3>1. rows' = rows /\ at[r] # Absent
        BY <1>2, <2>1 DEF Absent
      <3>2. ASSUME NEW u \in Tracks, writes'[r][u] # Same
            PROVE  rows'[u] # Absent /\ writes'[r][u] # Absent
        <4>1. CASE u = t
          BY <2>2, <2>4, <2>5, <3>1, <4>1
        <4>2. CASE u # t
          <5>1. writes'[r][u] = writes[r][u]
            BY <2>2, <2>5, <4>2
          <5> QED
            BY <1>2, <3>1, <3>2, <5>1 DEF ReorderInv
        <4> QED
          BY <4>1, <4>2
      <3>3. ReorderInv(r)'
        BY <3>2 DEF ReorderInv
      <3>4. job'[r].kind = "reorder" /\ pc'[r] # "cascade"
        BY <1>2, <2>3, <2>5
      <3> QED
        BY <3>3, <3>4 DEF WritesInv
    <2>8. r \in alone => AloneInv(r)'
      <3> SUFFICES ASSUME r \in alone PROVE AloneInv(r)'
        OBVIOUS
      <3>1. Editor(r)' /\ \A s \in Requests \ {r} : ~Editor(s)'
        BY <2>5, <2>6, OthersIdle
      <3>2. ReorderAlone(r)
        BY <1>1, <1>2, InServiceFacts DEF AloneInv
      <3>3. /\ SameTracks(order)
            /\ \A i \in DOMAIN order : writes[r][order[i]] = IF i <= at[r] - 1 THEN i ELSE Same
            /\ \A u \in Tracks \ ToSet(order) : writes[r][u] = Same
        BY <1>1, <1>4, <2>4, <3>2 DEF ReorderAlone, Present
      <3>4. \A i, k \in DOMAIN order : order[i] = order[k] => i = k
        BY <1>2, <3>3, OrderOnce
      <3>5. \A i \in DOMAIN order : written[order[i]] = IF i <= at[r] THEN i ELSE Same
        <4> SUFFICES ASSUME NEW i \in DOMAIN order
                     PROVE  written[order[i]] = IF i <= at[r] THEN i ELSE Same
          OBVIOUS
        <4>1. order[i] = t <=> i = at[r]
          BY <1>3, <3>4
        <4>2. i \in Nat /\ order[i] \in Tracks
              /\ writes[r][order[i]] = IF i <= at[r] - 1 THEN i ELSE Same
          BY <1>3, <3>3
        <4> HIDE DEF t
        <4>3. written[order[i]] = IF order[i] = t THEN at[r] ELSE writes[r][order[i]]
          BY <2>2, <4>2
        <4> HIDE DEF order
        <4> QED
          BY <1>2, <4>1, <4>2, <4>3
      <3>6. \A u \in Tracks \ ToSet(order) : written[u] = Same
        BY <1>3, <2>2, <3>3 DEF ToSet
      <3>7. ReorderAlone(r)'
        <4>1. /\ job'[r].order = order /\ SameTracks(job[r].order)'
              /\ IF pc'[r] = "place" THEN at'[r] - 1 = at[r] ELSE Len(order) = at[r]
          <5>1. job'[r].order = job[r].order
            BY <2>5
          <5>2. SameTracks(job[r].order)'
            BY <2>1, <3>3, <5>1 DEF SameTracks, Present
          <5>3. IF pc'[r] = "place" THEN at'[r] - 1 = at[r] ELSE Len(order) = at[r]
            <6>1. at'[r] - 1 = at[r]
              BY <1>2, <2>5
            <6>2. pc'[r] # "place" => at[r] = Len(order)
              BY <2>3, <2>5
            <6> QED
              BY <6>1, <6>2
          <5> QED
            BY <5>1, <5>2, <5>3
        <4> HIDE DEF order
        <4>2. CASE pc'[r] = "place"
          BY <2>5, <3>5, <3>6, <4>1, <4>2 DEF ReorderAlone
        <4>3. CASE pc'[r] # "place"
          BY <2>5, <3>5, <3>6, <4>1, <4>3 DEF ReorderAlone
        <4> QED
          BY <4>2, <4>3
      <3> QED
        BY <1>2, <2>3, <2>5, <3>1, <3>7 DEF AloneInv
    <2>9. \A q \in alone' : AloneInv(q)'
      BY <2>1, <2>5, <2>6, <2>8, StillAlone
    <2>10. \A u \in Tracks : writes'[r][u] # Same => writes[r][u] # Same \/ Free(r, u)
      BY <1>1, <2>2, <2>5
    <2> QED
      BY <1>2, <2>1, <2>3, <2>5, <2>6, <2>7, <2>9, <2>10, LocalStep
  <1> QED
    BY <1>5, <1>6

LEMMA TouchStep ==
    ASSUME IInv, NEW r \in Requests, Touch(r)
    PROVE  IInv'
  <1>1. pc[r] = "touch" /\ pc[r] \in InService /\ PlaylistHolders(r) = {}
    BY DEF Touch, InService
  <1>2. /\ TypeOK /\ StageInv(r) /\ WritesInv(r) /\ writes[r] \in Row /\ queue \in Queues
        /\ at[r] \in Nat /\ left[r] \in SUBSET Tracks
    BY <1>1, InServiceFacts
  <1>3. /\ Becomes(r, "commit", writes[r], at[r], left[r])
        /\ UNCHANGED <<status, rows, alone, tidy>>
    BY <1>2 DEF Touch, Keep, Becomes, TypeOK
  <1>4. /\ TypeOK' /\ Others(r) /\ pc'[r] = "commit" /\ writes'[r] = writes[r]
        /\ at'[r] = at[r] /\ left'[r] = left[r] /\ job'[r] = job[r]
    <2>1. "commit" \in InService /\ alone' \subseteq Requests
      BY <1>2, <1>3 DEF InService, TypeOK
    <2> QED
      BY <1>1, <1>2, <1>3, <2>1, BecomesType
  <1>5. StageInv(r)' /\ Editor(r) /\ Editor(r)'
    BY <1>1, <1>2, <1>3, <1>4 DEF StageInv, Editor, InService
  <1>6. WritesInv(r)'
    BY <1>1, <1>2, <1>3, <1>4 DEF WritesInv, AddInv, RemoveInv, ReorderInv
  <1>7. r \in alone => AloneInv(r)'
    <2> SUFFICES ASSUME r \in alone PROVE AloneInv(r)'
      OBVIOUS
    <2>1. Editor(r)' /\ \A s \in Requests \ {r} : ~Editor(s)'
      BY <1>4, <1>5, OthersIdle
    <2>2. AloneInv(r)
      BY <1>1, InServiceFacts
    <2> QED
      BY <1>1, <1>3, <1>4, <2>1, <2>2
      DEF AloneInv, AddAlone, RemoveAlone, ReorderAlone, After, SameTracks, Present
  <1>8. \A q \in alone' : AloneInv(q)'
    BY <1>3, <1>4, <1>5, <1>7, StillAlone
  <1>9. \A s \in Requests \ {r} : pc[s] \notin {"commit", "cascade"}
    BY <1>1 DEF PlaylistHolders, Updating, Deleting
  <1> QED
    BY <1>3, <1>4, <1>5, <1>6, <1>8, <1>9, LocalStep

(* The changes of the playlists row *)

\* An update or a deletion is no change of the order.
LEMMA NotAlone ==
    ASSUME IInv, NEW r \in Requests, pc[r] \in {"update", "drop", "cascade"}
    PROVE  r \notin alone
BY AloneIsEditor DEF IInv, StageInv, Editor

LEMMA UpdatePlaylistStep ==
    ASSUME IInv, NEW r \in Requests, UpdatePlaylist(r)
    PROVE  IInv'
  <1>1. pc[r] = "update" /\ pc[r] \in InService
    BY DEF UpdatePlaylist, InService
  <1>2. /\ TypeOK /\ writes[r] = Unwritten /\ queue \in Queues /\ r \notin alone
        /\ at[r] \in Nat /\ left[r] \in SUBSET Tracks
    BY <1>1, InServiceFacts, NotAlone DEF StageInv
  <1>3. Becomes(r, "reply", Unwritten, at[r], left[r]) /\ UNCHANGED alone
    BY <1>2 DEF UpdatePlaylist, Keep, Becomes, TypeOK
  <1> QED
    BY <1>1, <1>2, <1>3, LeavingStep

LEMMA DropPlaylistStep ==
    ASSUME IInv, NEW r \in Requests, DropPlaylist(r)
    PROVE  IInv'
  <1>1. pc[r] = "drop" /\ pc[r] \in InService /\ PlaylistHolders(r) = {}
    BY DEF DropPlaylist, InService
  <1>2. /\ TypeOK /\ job[r].kind = "delete" /\ writes[r] = Unwritten /\ queue \in Queues
        /\ r \notin alone /\ at[r] \in Nat /\ Present(rows) \in SUBSET Tracks /\ pc[r] # "idle"
        /\ status # "unmade"
    BY <1>1, InServiceFacts, NotAlone DEF StageInv, Present
  <1>3. UNCHANGED <<status, rows, alone, tidy>>
    BY DEF DropPlaylist, Keep
  <1>4. CASE status # "live"
    <2>1. Becomes(r, "reply", Unwritten, at[r], Present(rows))
      BY <1>2, <1>4 DEF DropPlaylist, Keep, Becomes, TypeOK
    <2> QED
      BY <1>2, <1>3, <2>1, LeavingStep
  <1>5. CASE status = "live"
    <2>1. Becomes(r, "cascade", Unwritten, at[r], Present(rows))
      BY <1>2, <1>5 DEF DropPlaylist, Keep, Becomes, TypeOK
    <2>2. /\ TypeOK' /\ Others(r) /\ pc'[r] = "cascade" /\ writes'[r] = Unwritten
          /\ left'[r] = Present(rows) /\ job'[r] = job[r]
      <3>1. "cascade" \in InService /\ alone' \subseteq Requests
        BY <1>2, <1>3 DEF InService, TypeOK
      <3> QED
        BY <1>2, <2>1, <3>1, BecomesType, UnwrittenFacts
    <2>3. StageInv(r)' /\ ~Editor(r)'
      BY <1>2, <1>3, <2>2 DEF StageInv, Editor
    <2>4. WritesInv(r)'
      BY <1>3, <1>5, <2>2, UnwrittenFacts DEF WritesInv, CascadeInv, Present
    <2>5. \A q \in alone' : AloneInv(q)'
      BY <1>2, <1>3, <2>2, <2>3, AloneKept
    <2>6. \A s \in Requests \ {r} : /\ pc[s] \notin {"commit", "cascade"}
                                    /\ ~(pc[s] = "touch" /\ job[s].kind = "add")
      BY <1>1 DEF PlaylistHolders, Inserting, Updating, Deleting
    <2>7. \A t \in Tracks : writes'[r][t] = Same
      BY <2>2, UnwrittenFacts
    <2> QED
      BY <1>3, <2>2, <2>3, <2>4, <2>5, <2>6, <2>7, LocalStep
  <1> QED
    BY <1>4, <1>5

LEMMA CascadeRowStep ==
    ASSUME IInv, NEW r \in Requests, NEW t \in Tracks, CascadeRow(r, t)
    PROVE  IInv'
  <1> DEFINE written == [writes[r] EXCEPT ![t] = Absent]
  <1>1. pc[r] = "cascade" /\ pc[r] \in InService /\ t \in left[r] /\ Free(r, t)
    BY DEF CascadeRow, InService
  <1>2. /\ TypeOK /\ job[r].kind = "delete" /\ writes[r] \in Row /\ queue \in Queues
        /\ r \notin alone /\ at[r] \in Nat /\ left[r] \in SUBSET Tracks /\ pc[r] # "idle"
        /\ CascadeInv(r) /\ status # "unmade"
    BY <1>1, InServiceFacts, NotAlone DEF StageInv, WritesInv
  <1>3. Becomes(r, "cascade", written, at[r], left[r] \ {t})
        /\ UNCHANGED <<status, rows, alone, tidy>>
    BY <1>1, <1>2 DEF CascadeRow, Keep, Write, Goto, Becomes, TypeOK
  <1>4. written \in Row /\ \A u \in Tracks : written[u] = IF u = t THEN Absent ELSE writes[r][u]
    BY <1>2 DEF Row, Absent
  <1> HIDE DEF written
  <1>5. /\ TypeOK' /\ Others(r) /\ pc'[r] = "cascade" /\ writes'[r] = written
        /\ left'[r] = left[r] \ {t} /\ job'[r] = job[r]
    <2>1. "cascade" \in InService /\ alone' \subseteq Requests
      BY <1>2, <1>3 DEF InService, TypeOK
    <2> QED
      BY <1>2, <1>3, <1>4, <2>1, BecomesType
  <1>6. StageInv(r)' /\ ~Editor(r)'
    BY <1>2, <1>3, <1>5 DEF StageInv, Editor
  <1>7. WritesInv(r)'
    BY <1>2, <1>3, <1>4, <1>5 DEF WritesInv, CascadeInv, Present
  <1>8. \A q \in alone' : AloneInv(q)'
    BY <1>2, <1>3, <1>5, <1>6, AloneKept
  <1>9. \A u \in Tracks : writes'[r][u] # Same => writes[r][u] # Same \/ Free(r, u)
    BY <1>1, <1>4, <1>5
  <1>10. \A s \in Requests \ {r} : ~(pc[s] = "touch" /\ job[s].kind = "add")
    BY <1>1 DEF IInv, LockInv
  <1> QED
    BY <1>1, <1>3, <1>5, <1>6, <1>7, <1>8, <1>9, <1>10, LocalStep

-----------------------------------------------------------------------------
(* What a commit does to the rows *)

\* A row that another transaction has written does not change.
LEMMA LockedRows ==
    ASSUME IInv, NEW r \in Requests, NEW s \in Requests \ {r}, NEW t \in Tracks,
           writes[s][t] # Same
    PROVE  Visible(r)[t] = rows[t]
BY DEF IInv, LockInv, Visible

LEMMA VisibleType ==
    ASSUME IInv, NEW r \in Requests
    PROVE  Visible(r) \in [Tracks -> Nat]
  <1>1. \A t \in Tracks : rows[t] \in Nat /\ writes[r][t] \in Nat \cup {Same}
    BY DEF IInv, TypeOK
  <1> QED
    BY <1>1 DEF Visible

\* An add puts its track in, at the next position if it is undisturbed.
LEMMA CommitAdds ==
    ASSUME IInv, NEW r \in Requests, pc[r] = "commit", job[r].kind = "add"
    PROVE  LET t == job[r].track IN
           /\ t \in Tracks /\ status = "live" /\ rows[t] = Absent
           /\ Visible(r)[t] \in Nat \ {Absent}
           /\ \A u \in Tracks \ {t} : Visible(r)[u] = rows[u]
           /\ r \in alone => After(Visible(r)[t])
  <1>1. pc[r] \in InService
    BY DEF InService
  <1>2. AddInv(r) /\ job[r].track \in Tracks /\ (r \in alone => AddAlone(r))
    BY <1>1, InServiceFacts, KindOfJob DEF WritesInv, AloneInv
  <1> QED
    BY <1>2, PlaylistAssumption DEF AddInv, AddAlone, Visible, Absent

\* A remove takes its track out, and closes the gap if it is undisturbed.
LEMMA CommitRemoves ==
    ASSUME IInv, NEW r \in Requests, pc[r] = "commit", job[r].kind = "remove"
    PROVE  LET t == job[r].track IN
           /\ t \in Tracks /\ rows[t] # Absent /\ Visible(r)[t] = Absent
           /\ \A u \in Tracks \ {t} : Visible(r)[u] = Absent <=> rows[u] = Absent
           /\ r \in alone => \A u \in Tracks \ {t} :
                Visible(r)[u] = IF rows[u] > rows[t] THEN rows[u] - 1 ELSE rows[u]
  <1>1. pc[r] \in InService
    BY DEF InService
  <1>2. RemoveInv(r) /\ job[r].track \in Tracks /\ (r \in alone => RemoveAlone(r))
    BY <1>1, InServiceFacts, KindOfJob DEF WritesInv, AloneInv
  <1>3. \A u \in Tracks : rows[u] \in Nat
    BY DEF IInv, TypeOK
  <1>4. Visible(r)[job[r].track] = Absent
    BY <1>2, PlaylistAssumption DEF RemoveInv, Visible, Absent
  <1>5. \A u \in Tracks \ {job[r].track} : Visible(r)[u] = Absent <=> rows[u] = Absent
    BY <1>2, PlaylistAssumption DEF RemoveInv, Visible, Absent
  <1>6. ASSUME r \in alone, NEW u \in Tracks \ {job[r].track}
        PROVE  Visible(r)[u] = IF rows[u] > rows[job[r].track] THEN rows[u] - 1 ELSE rows[u]
    <2>1. /\ at[r] = rows[job[r].track]
          /\ writes[r][u] = IF rows[u] > at[r] THEN rows[u] - 1 ELSE Same
      BY <1>2, <1>6 DEF RemoveAlone
    <2>2. rows[u] > at[r] => rows[u] - 1 \in Nat
      BY <1>2, <1>3, <2>1
    <2> QED
      BY <1>3, <2>1, <2>2, PlaylistAssumption DEF Visible
  <1> QED
    BY <1>2, <1>4, <1>5, <1>6 DEF RemoveInv

\* A reorder keeps the tracks, and numbers them as it was asked if it is undisturbed.
LEMMA CommitReorders ==
    ASSUME IInv, NEW r \in Requests, pc[r] = "commit", job[r].kind = "reorder"
    PROVE  /\ \A u \in Tracks : Visible(r)[u] = Absent <=> rows[u] = Absent
           /\ job[r].order \in Seq(Tracks) /\ job[r].order # <<>>
           /\ r \in alone => /\ SameTracks(job[r].order)
                             /\ \A i \in DOMAIN job[r].order : Visible(r)[job[r].order[i]] = i
  <1> DEFINE order == job[r].order
  <1>1. pc[r] \in InService
    BY DEF InService
  <1>2. /\ ReorderInv(r) /\ order \in Seq(Tracks) /\ order # <<>>
        /\ r \in alone => ReorderAlone(r)
    BY <1>1, InServiceFacts, KindOfJob DEF WritesInv, AloneInv
  <1>3. \A u \in Tracks : Visible(r)[u] = Absent <=> rows[u] = Absent
    BY <1>2, PlaylistAssumption DEF ReorderInv, Visible, Absent
  <1>4. ASSUME r \in alone
        PROVE  SameTracks(order) /\ \A i \in DOMAIN order : Visible(r)[order[i]] = i
    <2>1. \A i \in DOMAIN order : i \in Nat /\ i <= Len(order) /\ order[i] \in Tracks
      BY <1>2
    <2>2. SameTracks(order) /\ \A i \in DOMAIN order : writes[r][order[i]] = i
      BY <1>2, <1>4, <2>1 DEF ReorderAlone
    <2> QED
      BY <2>1, <2>2, PlaylistAssumption DEF Visible
  <1> QED
    BY <1>2, <1>3, <1>4

\* An undisturbed change leaves dense positions dense, and a reorder makes them so.
LEMMA DenseAdd ==
    ASSUME IInv, NEW table \in [Tracks -> Nat], NEW n \in Nat, Dense(rows, n), NEW t \in Tracks,
           rows[t] = Absent, After(table[t]), \A u \in Tracks \ {t} : table[u] = rows[u]
    PROVE  Dense(table, n + 1) /\ table[t] = n + 1
  <1>1. \A u \in Tracks : rows[u] \in Nat /\ table[u] \in Nat
    BY DEF IInv, TypeOK
  <1>2. table[t] = n + 1
    <2>1. CASE n = 0
      <3>1. \A u \in Tracks : rows[u] = 0
        BY <1>1, <2>1 DEF Dense
      <3> QED
        BY <1>1, <2>1, <3>1 DEF After
    <2>2. CASE n # 0
      <3>1. PICK u \in Tracks : rows[u] = n
        BY <2>2 DEF Dense
      <3> QED
        BY <1>1, <2>2, <3>1 DEF After, Dense
    <2> QED
      BY <2>1, <2>2
  <1>3. \A u \in Tracks : table[u] \in 0 .. (n + 1)
    BY <1>1, <1>2 DEF Dense
  <1>4. \A u, v \in Tracks : table[u] = table[v] /\ table[u] # Absent => u = v
    BY <1>1, <1>2 DEF Dense
  <1>5. \A i \in 1 .. (n + 1) : \E u \in Tracks : table[u] = i
    <2> SUFFICES ASSUME NEW i \in 1 .. n PROVE \E u \in Tracks : table[u] = i
      BY <1>2
    <2>1. PICK u \in Tracks : rows[u] = i
      BY DEF Dense
    <2> QED
      BY <2>1 DEF Absent
  <1> QED
    BY <1>2, <1>3, <1>4, <1>5 DEF Dense

LEMMA DenseRemove ==
    ASSUME IInv, NEW table \in [Tracks -> Nat], NEW n \in Nat, Dense(rows, n), NEW t \in Tracks,
           rows[t] # Absent, table[t] = Absent,
           \A u \in Tracks \ {t} : table[u] = IF rows[u] > rows[t] THEN rows[u] - 1 ELSE rows[u]
    PROVE  n - 1 \in Nat /\ Dense(table, n - 1)
  <1>1. \A u \in Tracks : rows[u] \in Nat /\ table[u] \in Nat
    BY DEF IInv, TypeOK
  <1>2. rows[t] \in 1 .. n /\ n - 1 \in Nat
    BY <1>1 DEF Dense, Absent
  <1>3. \A u \in Tracks \ {t} : rows[u] # rows[t]
    BY DEF Dense
  <1>4. \A u \in Tracks : table[u] \in 0 .. (n - 1)
    BY <1>1, <1>2, <1>3 DEF Dense, Absent
  <1>5. ASSUME NEW u \in Tracks, NEW v \in Tracks, table[u] = table[v], table[u] # Absent
        PROVE  u = v
    <2>1. u # t /\ v # t
      BY <1>5
    <2>2. rows[u] # rows[t] /\ rows[v] # rows[t]
      BY <1>3, <2>1
    <2>3. rows[u] = rows[v] /\ rows[u] # Absent
      BY <1>1, <1>5, <2>1, <2>2 DEF Absent
    <2> QED
      BY <2>3 DEF Dense
  <1>6. ASSUME NEW i \in 1 .. (n - 1) PROVE \E u \in Tracks : table[u] = i
    <2>1. CASE i < rows[t]
      <3>1. PICK u \in Tracks : rows[u] = i
        BY <1>2 DEF Dense
      <3> QED
        BY <1>1, <2>1, <3>1
    <2>2. CASE i >= rows[t]
      <3>1. PICK u \in Tracks : rows[u] = i + 1
        BY <1>2 DEF Dense
      <3> QED
        BY <1>1, <2>2, <3>1
    <2> QED
      BY <1>2, <2>1, <2>2
  <1> QED
    BY <1>2, <1>4, <1>5, <1>6 DEF Dense

LEMMA DenseReorder ==
    ASSUME IInv, NEW table \in [Tracks -> Nat], NEW order \in Seq(Tracks), SameTracks(order),
           \A u \in Tracks : table[u] = Absent <=> rows[u] = Absent,
           \A i \in DOMAIN order : table[order[i]] = i
    PROVE  Dense(table, Len(order))
  <1>1. /\ DOMAIN order = 1 .. Len(order) /\ Len(order) \in Nat
        /\ \A i \in DOMAIN order : order[i] \in Tracks
    OBVIOUS
  <1>2. \A u \in Tracks : table[u] # Absent => \E i \in DOMAIN order : order[i] = u
    BY DEF SameTracks, ToSet, Present
  <1>3. \A u \in Tracks : table[u] # Absent => table[u] \in 1 .. Len(order) /\ order[table[u]] = u
    BY <1>1, <1>2
  <1>4. \A u \in Tracks : table[u] \in 0 .. Len(order)
    BY <1>1, <1>3 DEF Absent
  <1>5. \A u, v \in Tracks : table[u] = table[v] /\ table[u] # Absent => u = v
    BY <1>3
  <1>6. \A i \in 1 .. Len(order) : \E u \in Tracks : table[u] = i
    BY <1>1
  <1> QED
    BY <1>4, <1>5, <1>6 DEF Dense

-----------------------------------------------------------------------------
(* The commits *)

LEMMA DenseAfterCommit ==
    ASSUME IInv, NEW r \in alone, pc[r] = "commit",
           tidy \/ job[r].kind = "reorder"
    PROVE  Dense(Visible(r), Cardinality(Present(Visible(r))))
  <1> DEFINE n == Cardinality(Present(rows))
             table == Visible(r)
  <1>1. r \in Requests /\ table \in [Tracks -> Nat]
    BY AloneIsEditor, VisibleType
  <1>2. n \in Nat
    BY FS_Subset, FS_CardinalityType, PlaylistAssumption DEF Present
  <1>3. tidy => Dense(rows, n)
    BY DEF IInv
  <1>4. SUFFICES \E m \in Nat : Dense(table, m)
    BY <1>1, DenseCount
  <1> HIDE DEF n
  <1>5. CASE job[r].kind = "add"
    <2>1. tidy
      BY <1>5
    <2>2. /\ job[r].track \in Tracks /\ rows[job[r].track] = Absent /\ After(table[job[r].track])
          /\ \A u \in Tracks \ {job[r].track} : table[u] = rows[u]
      BY <1>1, <1>5, CommitAdds
    <2> HIDE DEF table
    <2>3. Dense(table, n + 1)
      BY <1>1, <1>2, <1>3, <2>1, <2>2, DenseAdd
    <2> QED
      BY <1>2, <2>3
  <1>6. CASE job[r].kind = "remove"
    <2> DEFINE t == job[r].track
    <2>1. tidy
      BY <1>6
    <2>2. /\ t \in Tracks /\ rows[t] # Absent /\ table[t] = Absent
          /\ \A u \in Tracks \ {t} : table[u] = IF rows[u] > rows[t] THEN rows[u] - 1 ELSE rows[u]
      BY <1>1, <1>6, CommitRemoves
    <2> HIDE DEF table, t
    <2>3. n - 1 \in Nat /\ Dense(table, n - 1)
      BY <1>1, <1>2, <1>3, <2>1, <2>2, DenseRemove
    <2> QED
      BY <2>3
  <1>7. CASE job[r].kind = "reorder"
    <2> DEFINE order == job[r].order
    <2>1. /\ \A u \in Tracks : table[u] = Absent <=> rows[u] = Absent
          /\ order \in Seq(Tracks) /\ SameTracks(order)
          /\ \A i \in DOMAIN order : table[order[i]] = i
      BY <1>1, <1>7, CommitReorders
    <2> HIDE DEF table, order
    <2>2. Dense(table, Len(order)) /\ Len(order) \in Nat
      BY <1>1, <2>1, DenseReorder
    <2> QED
      BY <2>2
  <1>8. job[r].kind \in {"add", "remove", "reorder"}
    BY <1>1 DEF IInv, StageInv
  <1> QED
    BY <1>5, <1>6, <1>7, <1>8

\* The invariant after a commit of rows: what the others have written is locked, hence
\* as it was, and the change that commits was the only undisturbed one.
LEMMA CommitStep ==
    ASSUME IInv, NEW r \in Requests, Commit(r)
    PROVE  IInv'
  <1>1. pc[r] = "commit" /\ pc[r] \in InService
    BY DEF Commit, InService
  <1>2. /\ TypeOK /\ StageInv(r) /\ pc[r] # "idle" /\ Editor(r) /\ at[r] \in Nat
        /\ left[r] \in SUBSET Tracks /\ status # "unmade"
    BY <1>1, InServiceFacts DEF StageInv, Editor
  <1>3. /\ rows' = Visible(r) /\ rows' \in [Tracks -> Nat]
        /\ writes' = [writes EXCEPT ![r] = Unwritten]
        /\ tidy' = (r \in alone /\ (tidy \/ job[r].kind = "reorder")) /\ alone' = alone \ {r}
        /\ at' = [at EXCEPT ![r] = 0] /\ pc' = [pc EXCEPT ![r] = "reply"]
        /\ UNCHANGED <<job, status, queue, left>>
    BY VisibleType DEF Commit, Goto
  <1>4. Others(r) /\ pc'[r] = "reply" /\ writes'[r] = Unwritten
    BY <1>2, <1>3 DEF Others, TypeOK
  <1>5. TypeOK'
    <2>1. \A s \in Requests : pc'[s] # "idle" => job'[s] \in Jobs
      BY <1>2, <1>3, <1>4 DEF Others, TypeOK
    <2>2. \A s \in Requests : pc'[s] \notin InService => writes'[s] = Unwritten
      BY <1>2, <1>4 DEF Others, TypeOK
    <2>3. /\ pc' \in [Requests -> InService \cup {"idle", "queued", "reply"}]
          /\ writes' \in [Requests -> Row] /\ at' \in [Requests -> Nat]
      BY <1>2, <1>3, UnwrittenFacts DEF TypeOK, Row
    <2>4. tidy' \in BOOLEAN /\ alone' \subseteq Requests
      BY <1>2, <1>3 DEF TypeOK
    <2> QED
      BY <1>2, <1>3, <2>1, <2>2, <2>3, <2>4 DEF TypeOK, Row, Unwritten
  <1>6. \A s \in Requests : StageInv(s)' /\ WritesInv(s)'
    <2> SUFFICES ASSUME NEW s \in Requests PROVE StageInv(s)' /\ WritesInv(s)'
      OBVIOUS
    <2>1. CASE s = r
      BY <1>4, <2>1 DEF StageInv, WritesInv, InService
    <2>2. CASE s # r
      <3>1. /\ pc'[s] = pc[s] /\ job'[s] = job[s] /\ writes'[s] = writes[s]
            /\ at'[s] = at[s] /\ left'[s] = left[s]
        BY <1>4, <2>2 DEF Others
      <3>2. StageInv(s) /\ WritesInv(s) /\ pc[s] \notin {"commit", "cascade"}
        BY <1>1, <2>2 DEF IInv, LockInv
      <3>3. \A t \in Tracks : writes[s][t] # Same => rows'[t] = rows[t]
        BY <1>3, <2>2, LockedRows
      <3>4. StageInv(s)'
        BY <1>3, <3>1, <3>2 DEF StageInv, Unwritten
      <3>5. pc[s] \in InService => job[s] \in Jobs
        BY InServiceFacts
      <3>6. WritesInv(s)'
        <4>1. CASE pc[s] = "touch" /\ job[s].kind = "add"
          <5>1. AddInv(s) /\ job[s].track \in Tracks
            BY <3>2, <3>5, <4>1, KindOfJob DEF WritesInv, InService
          <5>2. rows'[job[s].track] = Absent
            BY <3>3, <5>1, PlaylistAssumption DEF AddInv
          <5>3. AddInv(s)'
            BY <1>3, <3>1, <5>1, <5>2 DEF AddInv
          <5> QED
            BY <3>1, <4>1, <5>3 DEF WritesInv
        <4>2. CASE pc[s] \in {"range", "shift", "touch"} /\ job[s].kind = "remove"
          <5>1. RemoveInv(s) /\ job[s].track \in Tracks
            BY <3>2, <3>5, <4>2, KindOfJob DEF WritesInv, InService
          <5>2. rows'[job[s].track] = rows[job[s].track]
            BY <3>3, <5>1, PlaylistAssumption DEF RemoveInv, Absent
          <5>3. RemoveInv(s)'
            BY <1>3, <3>1, <3>3, <5>1, <5>2 DEF RemoveInv
          <5> QED
            BY <3>1, <4>2, <5>3 DEF WritesInv
        <4>3. CASE pc[s] \in {"place", "touch"} /\ job[s].kind = "reorder"
          <5>1. ReorderInv(s)
            BY <3>2, <4>3 DEF WritesInv
          <5>2. ReorderInv(s)'
            BY <3>1, <3>3, <5>1 DEF ReorderInv
          <5> QED
            BY <3>1, <4>3, <5>2 DEF WritesInv
        <4> QED
          BY <3>1, <3>2, <4>1, <4>2, <4>3 DEF WritesInv
      <3> QED
        BY <3>4, <3>6
    <2> QED
      BY <2>1, <2>2
  <1>7. LockInv'
    <2>1. \A q, s \in Requests, t \in Tracks : writes'[q][t] # Same /\ writes'[s][t] # Same => q = s
      BY <1>4, UnwrittenFacts DEF IInv, LockInv, Others
    <2>2. \A q, s \in Requests : pc'[q] \in {"commit", "cascade"} /\ pc'[s] \in {"commit", "cascade"}
                                 => q = s
      BY <1>4 DEF IInv, LockInv, Others
    <2>3. \A q, s \in Requests : pc'[q] = "cascade" /\ pc'[s] = "touch" => job'[s].kind # "add"
      BY <1>4 DEF IInv, LockInv, Others
    <2> QED
      BY <2>1, <2>2, <2>3 DEF LockInv
  <1>8. alone' = {}
    <2>1. \A q \in alone : q = r
      BY <1>2 DEF IInv, AloneInv
    <2> QED
      BY <1>3, <2>1
  <1>9. status' # "live" => Present(rows)' = {}
    <2> SUFFICES ASSUME status # "live" PROVE \A t \in Tracks : rows'[t] = Absent
      BY <1>3 DEF Present
    <2>1. \A t \in Tracks : rows[t] = Absent
      BY DEF IInv, Present
    <2>2. job[r].kind = "reorder"
      BY <1>1, <1>2, <2>1, CommitAdds, CommitRemoves DEF StageInv
    <2> QED
      BY <1>1, <1>3, <2>1, <2>2, CommitReorders
  <1>10. tidy' => Dense(rows, Cardinality(Present(rows)))'
    <2> SUFFICES ASSUME tidy' PROVE Dense(rows', Cardinality(Present(rows')))
      BY DEF Dense, Present
    <2> QED
      BY <1>1, <1>3, DenseAfterCommit
  <1> QED
    BY <1>5, <1>6, <1>7, <1>8, <1>9, <1>10 DEF IInv

\* A playlist that is deleted takes its rows along, under those who are at work on it.
LEMMA CommitDropStep ==
    ASSUME IInv, NEW r \in Requests, CommitDrop(r)
    PROVE  IInv'
  <1>1. pc[r] = "cascade" /\ pc[r] \in InService /\ left[r] = {}
    BY DEF CommitDrop, InService
  <1>2. TypeOK /\ pc[r] # "idle" /\ CascadeInv(r) /\ r \notin alone
    BY <1>1, InServiceFacts, NotAlone DEF WritesInv
  <1>3. /\ rows' = Visible(r) /\ writes' = [writes EXCEPT ![r] = Unwritten]
        /\ status' = "deleted" /\ pc' = [pc EXCEPT ![r] = "reply"]
        /\ UNCHANGED <<job, queue, at, left, alone, tidy>>
    BY DEF CommitDrop, Goto
  <1>4. \A t \in Tracks : rows'[t] = Absent
    BY <1>1, <1>2, <1>3, PlaylistAssumption DEF CascadeInv, Visible, Present, Absent
  <1>5. Others(r) /\ pc'[r] = "reply" /\ writes'[r] = Unwritten
    BY <1>2, <1>3 DEF Others, TypeOK
  <1>6. TypeOK'
    <2>1. \A s \in Requests : pc'[s] # "idle" => job'[s] \in Jobs
      BY <1>2, <1>3, <1>5 DEF Others, TypeOK
    <2>2. \A s \in Requests : pc'[s] \notin InService => writes'[s] = Unwritten
      BY <1>2, <1>5 DEF Others, TypeOK
    <2>3. /\ pc' \in [Requests -> InService \cup {"idle", "queued", "reply"}]
          /\ writes' \in [Requests -> Row] /\ rows' \in [Tracks -> Nat]
      BY <1>2, <1>3, UnwrittenFacts, VisibleType DEF TypeOK, Row
    <2> QED
      BY <1>2, <1>3, <2>1, <2>2, <2>3 DEF TypeOK, Row, Unwritten
  <1>7. ASSUME NEW s \in Requests \ {r}, NEW t \in Tracks, rows[t] # Absent
        PROVE  writes[s][t] = Same
    BY <1>1, <1>2, <1>7, PlaylistAssumption DEF CascadeInv, Present, Absent, IInv, LockInv
  <1>8. ASSUME NEW s \in Requests \ {r}
        PROVE  /\ pc[s] \notin {"commit", "cascade"}
               /\ pc[s] = "touch" => job[s].kind # "add"
               /\ pc[s] \in {"range", "shift", "touch"} => job[s].kind # "remove"
               /\ pc[s] \in {"place", "touch"} /\ job[s].kind = "reorder" => writes[s] = Unwritten
    <2>1. pc[s] \notin {"commit", "cascade"} /\ (pc[s] = "touch" => job[s].kind # "add")
      BY <1>1 DEF IInv, LockInv
    <2>2. ASSUME pc[s] \in {"range", "shift", "touch"}, job[s].kind = "remove" PROVE FALSE
      <3>1. RemoveInv(s) /\ job[s].track \in Tracks
        BY <2>2, InServiceFacts, KindOfJob DEF WritesInv, InService
      <3> QED
        BY <1>7, <3>1, PlaylistAssumption DEF RemoveInv, Absent
    <2>3. ASSUME pc[s] \in {"place", "touch"}, job[s].kind = "reorder"
          PROVE  writes[s] = Unwritten
      <3>1. ReorderInv(s) /\ writes[s] \in Row
        BY <2>3, InServiceFacts DEF WritesInv, InService
      <3>2. \A t \in Tracks : writes[s][t] = Same
        BY <1>7, <3>1 DEF ReorderInv
      <3> QED
        BY <3>1, <3>2 DEF Row, Unwritten
    <2> QED
      BY <2>1, <2>2, <2>3
  <1>9. \A s \in Requests : StageInv(s)' /\ WritesInv(s)'
    <2> SUFFICES ASSUME NEW s \in Requests PROVE StageInv(s)' /\ WritesInv(s)'
      OBVIOUS
    <2>1. CASE s = r
      BY <1>5, <2>1 DEF StageInv, WritesInv, InService
    <2>2. CASE s # r
      <3>1. /\ pc'[s] = pc[s] /\ job'[s] = job[s] /\ writes'[s] = writes[s]
            /\ at'[s] = at[s] /\ left'[s] = left[s]
        BY <1>5, <2>2 DEF Others
      <3>2. StageInv(s)
        BY DEF IInv
      <3>3. StageInv(s)'
        BY <1>3, <3>1, <3>2 DEF StageInv, Unwritten
      <3>4. WritesInv(s)'
        BY <1>8, <2>2, <3>1, UnwrittenFacts DEF WritesInv, ReorderInv
      <3> QED
        BY <3>3, <3>4
    <2> QED
      BY <2>1, <2>2
  <1>10. LockInv'
    <2>1. \A q, s \in Requests, t \in Tracks : writes'[q][t] # Same /\ writes'[s][t] # Same => q = s
      BY <1>5, UnwrittenFacts DEF IInv, LockInv, Others
    <2>2. \A q, s \in Requests : pc'[q] \in {"commit", "cascade"} /\ pc'[s] \in {"commit", "cascade"}
                                 => q = s
      BY <1>5 DEF IInv, LockInv, Others
    <2>3. \A q, s \in Requests : pc'[q] = "cascade" /\ pc'[s] = "touch" => job'[s].kind # "add"
      BY <1>5 DEF IInv, LockInv, Others
    <2> QED
      BY <2>1, <2>2, <2>3 DEF LockInv
  <1>11. ASSUME NEW q \in alone PROVE AloneInv(q)'
    <2>1. q \in Requests \ {r} /\ AloneInv(q)
      BY <1>2 DEF IInv, TypeOK
    <2>2. /\ pc'[q] = pc[q] /\ job'[q] = job[q] /\ writes'[q] = writes[q]
          /\ at'[q] = at[q] /\ left'[q] = left[q]
      BY <1>5, <2>1 DEF Others
    <2>3. Editor(q)' /\ \A s \in Requests \ {q} : ~Editor(s)'
      BY <1>5, <2>1, <2>2 DEF AloneInv, Editor, Others, InService
    <2>4. pc[q] \in {"place", "touch"} /\ job[q].kind = "reorder"
            => pc[q] = "place" /\ at[q] = 1 /\ writes[q] = Unwritten
      <3> SUFFICES ASSUME pc[q] \in {"place", "touch"}, job[q].kind = "reorder",
                          pc[q] # "place" \/ at[q] # 1
                   PROVE  FALSE
        BY <1>8, <2>1
      <3> DEFINE order == job[q].order
      <3>1. writes[q] = Unwritten /\ ReorderAlone(q)
        BY <1>8, <2>1 DEF AloneInv
      <3>2. order \in Seq(Tracks) /\ order # <<>> /\ at[q] \in Nat /\ (pc[q] = "place" => at[q] >= 1)
        BY <2>1, InServiceFacts, KindOfJob DEF InService, StageInv
      <3>3. 1 \in DOMAIN order /\ order[1] \in Tracks /\ Len(order) >= 1
        BY <3>2
      <3>4. writes[q][order[1]] = 1
        BY <3>1, <3>2, <3>3 DEF ReorderAlone
      <3> QED
        BY <3>1, <3>3, <3>4, UnwrittenFacts, PlaylistAssumption
    <2>5. pc[q] \in {"place", "touch"} /\ job[q].kind = "reorder" => ReorderAlone(q)'
      BY <1>4, <2>2, <2>4 DEF ReorderAlone, Present, Unwritten
    <2> QED
      BY <1>3, <1>8, <2>1, <2>2, <2>3, <2>5 DEF AloneInv
  <1>12. Present(rows') = {}
    BY <1>4 DEF Present
  <1>13. tidy' => Dense(rows, Cardinality(Present(rows)))'
    <2>1. Dense(rows', 0) /\ Cardinality(Present(rows')) = 0
      BY <1>4, <1>12, FS_EmptySet DEF Dense, Absent
    <2> QED
      BY <2>1 DEF Dense, Present
  <1> QED
    BY <1>3, <1>6, <1>9, <1>10, <1>11, <1>12, <1>13 DEF IInv, Present

\* A playlist is made before any change of it is in service.
LEMMA CreatePlaylistStep ==
    ASSUME IInv, CreatePlaylist
    PROVE  IInv'
  <1>1. /\ status = "unmade" /\ status' = "live"
        /\ UNCHANGED <<rows, writes, queue, pc, job, at, left, alone, tidy>>
    BY DEF CreatePlaylist, request
  <1>2. TypeOK'
    BY <1>1 DEF IInv, TypeOK, Unwritten
  <1>3. \A r \in Requests : pc[r] \notin InService
    BY <1>1 DEF IInv, StageInv
  <1>4. alone = {}
    BY <1>3, AloneIsEditor DEF Editor
  <1>5. \A r \in Requests : StageInv(r)' /\ WritesInv(r)'
    BY <1>1, <1>3 DEF StageInv, WritesInv, InService
  <1>6. LockInv'
    BY <1>1 DEF IInv, LockInv
  <1>7. (tidy => Dense(rows, Cardinality(Present(rows))))'
    BY <1>1 DEF IInv, Dense, Present
  <1> QED
    BY <1>1, <1>2, <1>4, <1>5, <1>6, <1>7 DEF IInv

-----------------------------------------------------------------------------
(* The invariant *)

LEMMA InitInv == Init => IInv
  <1> SUFFICES ASSUME Init PROVE IInv
    OBVIOUS
  <1>1. TypeOK
    <2>1. \A r \in Requests : pc[r] = "idle" /\ writes[r] = Unwritten
      BY DEF Init
    <2>2. /\ rows \in [Tracks -> Nat] /\ queue \in [Gateways -> Seq(Requests)]
          /\ at \in [Requests -> Nat] /\ left \in [Requests -> SUBSET Tracks]
          /\ pc \in [Requests -> InService \cup {"idle", "queued", "reply"}]
          /\ job \in [Requests -> Jobs \cup {<<>>}]
      BY DEF Init, Absent
    <2>3. writes \in [Requests -> Row]
      BY UnwrittenFacts DEF Init
    <2> QED
      BY <2>1, <2>2, <2>3 DEF Init, TypeOK, Row
  <1>2. Present(rows) = {}
    BY DEF Init, Present, Absent
  <1>3. \A r \in Requests : pc[r] = "idle" /\ \A t \in Tracks : writes[r][t] = Same
    BY DEF Init, Unwritten
  <1>4. \A r \in Requests : StageInv(r) /\ WritesInv(r)
    BY <1>3 DEF StageInv, WritesInv, InService
  <1>5. LockInv
    BY <1>3 DEF LockInv
  <1>6. Dense(rows, Cardinality(Present(rows)))
    BY <1>1, <1>2, EmptyDense
  <1> QED
    BY <1>1, <1>2, <1>4, <1>5, <1>6 DEF Init, IInv

LEMMA StepInv == IInv /\ [Next]_vars => IInv'
  <1> SUFFICES ASSUME IInv, [Next]_vars PROVE IInv'
    OBVIOUS
  <1>1. CASE CreatePlaylist
    BY <1>1, CreatePlaylistStep
  <1>2. ASSUME NEW r \in Requests, NEW g \in Gateways, NEW j \in Jobs, Send(r, g, j)
        PROVE  IInv'
    BY <1>2, SendStep
  <1>3. ASSUME NEW r \in Requests, Step(r) PROVE IInv'
    <2>1. ASSUME DeadlockAbort(r) PROVE pc[r] # "idle" /\ Rollback(r, "reply")
      <3>1. \E u : WaitsFor(r, u)
        BY <2>1 DEF DeadlockAbort
      <3>2. pc[r] # "idle"
        BY <3>1 DEF WaitsFor, Waiting, PlaylistHolders, NextRows
      <3> QED
        BY <2>1, <3>2 DEF DeadlockAbort
    <2> QED
      BY <1>3, <2>1, CheckOwnerStep, ReplyStep, ReadMaxStep, InsertRowStep, DeleteRowStep,
         FindRangeStep, ShiftRowStep, ListRowsStep, PlaceRowStep, TouchStep, CommitStep,
         UpdatePlaylistStep, DropPlaylistStep, CascadeRowStep, CommitDropStep, RollbackStep
      DEF Step
  <1>4. ASSUME NEW r \in Requests, HangUp(r) PROVE IInv'
    BY <1>4, HangUpStep
  <1>5. ASSUME NEW r \in Requests, StatementFails(r) \/ CancelHandler(r) PROVE IInv'
    <2>1. pc[r] # "idle"
      BY <1>5 DEF StatementFails, CancelHandler, InService
    <2> QED
      BY <1>5, <2>1, RollbackStep DEF StatementFails, CancelHandler
  <1>6. CASE UNCHANGED vars
    BY <1>6, QueueStep DEF vars, request, IInv, TypeOK, Queues
  <1> QED
    BY <1>1, <1>2, <1>3, <1>4, <1>5, <1>6 DEF Next

\* The locks, the writes of each kind of change and what an undisturbed change has
\* done so far, in every reachable state.
THEOREM Invariance == Spec => []IInv
  <1> QED
    BY InitInv, StepInv, PTL DEF Spec

\* The types; and a transaction never outlives the handler that runs it.
THEOREM TypeCorrect == Spec => []TypeOK
  <1>1. IInv => TypeOK
    BY DEF IInv
  <1> QED
    BY <1>1, Invariance, PTL

\* Undisturbed changes leave the positions at 1, 2, ..., n, whatever else was sent,
\* failed, rolled back or abandoned.
THEOREM PositionsStayDense == Spec => []PositionsDense
  <1>1. IInv => PositionsDense
    <2> DEFINE n == Cardinality(Present(rows))
    <2> SUFFICES ASSUME IInv, tidy PROVE {rows[t] : t \in Present(rows)} = 1 .. n
      BY DEF PositionsDense
    <2>1. Dense(rows, n) /\ \A t \in Tracks : rows[t] \in Nat
      BY DEF IInv, TypeOK
    <2> HIDE DEF n
    <2>2. \A t \in Present(rows) : rows[t] \in 1 .. n
      BY <2>1 DEF Dense, Present, Absent
    <2>3. \A i \in 1 .. n : \E t \in Present(rows) : rows[t] = i
      BY <2>1 DEF Dense, Present, Absent
    <2> QED
      BY <2>2, <2>3
  <1> QED
    BY <1>1, Invariance, PTL

\* A reorder that no other change overlaps leaves exactly the order it was given,
\* although its tracks were checked outside the transaction.
THEOREM ReordersAsAsked == Spec => ReorderAsAsked
  <1> DEFINE A == \A r \in alone :
                    Commit(r) /\ job[r].kind = "reorder"
                      => \A i \in DOMAIN job[r].order : rows'[job[r].order[i]] = i
  <1>1. IInv => A
    BY AloneIsEditor, CommitReorders DEF Commit
  <1>2. IInv /\ [Next]_vars => [A]_vars
    BY <1>1
  <1> QED
    BY <1>2, Invariance, PTL DEF Spec, ReorderAsAsked

-----------------------------------------------------------------------------
(* The order that the service promises *)

\* The tracks of table in playing order.
ListOf(table) == [i \in 1..Cardinality(Present(table)) |-> CHOOSE t \in Tracks : table[t] = i]

\* Dense positions list every track once, each at its position.
LEMMA ListOfDense ==
    ASSUME NEW table \in [Tracks -> Nat], NEW n \in Nat, Dense(table, n)
    PROVE  /\ ListOf(table) \in Seq(Tracks) /\ Len(ListOf(table)) = n
           /\ Cardinality(Present(table)) = n
           /\ \A i \in 1 .. n : /\ ListOf(table)[i] \in Present(table)
                               /\ ListOf(table)[i] \in Tracks /\ table[ListOf(table)[i]] = i
           /\ \A i \in 1 .. n, t \in Tracks : ListOf(table)[i] = t <=> table[t] = i
  <1> DEFINE list == ListOf(table)
  <1>1. Cardinality(Present(table)) = n
    BY DenseCount
  <1>2. list = [i \in 1 .. n |-> CHOOSE t \in Tracks : table[t] = i]
    BY <1>1 DEF ListOf
  <1>3. \A i \in 1 .. n : list[i] \in Tracks /\ table[list[i]] = i
    <2> SUFFICES ASSUME NEW i \in 1 .. n PROVE list[i] \in Tracks /\ table[list[i]] = i
      OBVIOUS
    <2>1. \E t \in Tracks : table[t] = i
      BY DEF Dense
    <2> QED
      BY <1>2, <2>1
  <1>4. list \in [1 .. n -> Tracks]
    BY <1>2, <1>3
  <1>5. list \in Seq(Tracks) /\ Len(list) = n
    BY <1>4
  <1>6. \A i \in 1 .. n, t \in Tracks : list[i] = t <=> table[t] = i
    BY <1>3 DEF Dense, Absent
  <1>7. \A i \in 1 .. n : list[i] \in Present(table)
    BY <1>3 DEF Present, Absent
  <1> QED
    BY <1>1, <1>3, <1>5, <1>6, <1>7

\* A track that is added at the next position goes to the end of the list.
LEMMA ListAdd ==
    ASSUME IInv, NEW table \in [Tracks -> Nat], NEW n \in Nat, Dense(rows, n), NEW t \in Tracks,
           rows[t] = Absent, After(table[t]), \A u \in Tracks \ {t} : table[u] = rows[u]
    PROVE  ListOf(table) = Append(ListOf(rows), t)
  <1>1. Dense(table, n + 1) /\ table[t] = n + 1 /\ rows \in [Tracks -> Nat]
    BY DenseAdd DEF IInv, TypeOK
  <1> DEFINE old == ListOf(rows)
             new == ListOf(table)
  <1>2. /\ old \in Seq(Tracks) /\ Len(old) = n
        /\ \A i \in 1 .. n : old[i] \in Tracks /\ rows[old[i]] = i
    BY <1>1, ListOfDense, SMTT(30)
  <1>3. /\ new \in Seq(Tracks) /\ Len(new) = n + 1
        /\ \A i \in 1 .. n + 1, u \in Tracks : new[i] = u <=> table[u] = i
    BY <1>1, ListOfDense
  <1> HIDE DEF old, new
  <1>4. \A i \in 1 .. n : new[i] = old[i]
    <2> SUFFICES ASSUME NEW i \in 1 .. n PROVE new[i] = old[i]
      OBVIOUS
    <2>1. old[i] \in Tracks /\ rows[old[i]] = i /\ i # 0
      BY <1>2
    <2>2. table[old[i]] = i
      BY <2>1 DEF Absent
    <2> QED
      BY <1>3, <2>1, <2>2
  <1>5. new[n + 1] = t
    BY <1>1, <1>3
  <1> QED
    <2>1. /\ Append(old, t) \in Seq(Tracks) /\ Len(Append(old, t)) = n + 1
          /\ \A i \in 1 .. n : Append(old, t)[i] = old[i]
          /\ Append(old, t)[n + 1] = t
      BY <1>2, AppendProperties
    <2>2. \A i \in 1 .. n + 1 : new[i] = Append(old, t)[i]
      BY <1>4, <1>5, <2>1
    <2>3. new = Append(old, t)
      BY <1>3, <2>1, <2>2, SeqEqual
    <2> QED
      BY <2>3 DEF old, new

\* A track that is removed, with the gap closed, is taken out of the list.
LEMMA ListRemove ==
    ASSUME IInv, NEW table \in [Tracks -> Nat], NEW n \in Nat, Dense(rows, n), NEW t \in Tracks,
           rows[t] # Absent, table[t] = Absent,
           \A u \in Tracks \ {t} : table[u] = IF rows[u] > rows[t] THEN rows[u] - 1 ELSE rows[u]
    PROVE  \E i \in DOMAIN ListOf(rows) : /\ ListOf(rows)[i] = t
                                          /\ ListOf(table) = RemoveAt(ListOf(rows), i)
  <1> DEFINE old == ListOf(rows)
             new == ListOf(table)
             k == rows[t]
  <1>1. n - 1 \in Nat /\ Dense(table, n - 1) /\ rows \in [Tracks -> Nat]
    BY DenseRemove DEF IInv, TypeOK
  <1>2. /\ old \in Seq(Tracks) /\ Len(old) = n
        /\ \A i \in 1 .. n : old[i] \in Tracks /\ rows[old[i]] = i
    BY <1>1, ListOfDense
  <1>3. /\ new \in Seq(Tracks) /\ Len(new) = n - 1
        /\ \A i \in 1 .. n - 1, u \in Tracks : new[i] = u <=> table[u] = i
    BY <1>1, ListOfDense
  <1>4. k \in 1 .. n /\ old[k] = t
    <2>1. k \in 0 .. n /\ k # 0
      BY DEF Dense, Absent
    <2>2. k \in 1 .. n
      BY <2>1
    <2> QED
      BY <1>1, <2>2, ListOfDense
  <1>9. k = rows[t] /\ n \in Int /\ k \in Int /\ k + 1 \in Int /\ k - 1 \in Int /\ 1 <= k /\ k <= n
    BY <1>4
  <1> HIDE DEF old, new, k
  <1>5. \A i \in 1 .. k - 1 : new[i] = old[i]
    <2> SUFFICES ASSUME NEW i \in 1 .. k - 1 PROVE new[i] = old[i]
      OBVIOUS
    <2>1. i \in 1 .. n /\ i \in 1 .. n - 1 /\ i < k
      BY <1>9
    <2>2. old[i] \in Tracks /\ rows[old[i]] = i
      BY <1>2, <2>1
    <2>3. table[old[i]] = i
      BY <1>9, <2>1, <2>2
    <2> QED
      BY <1>3, <2>1, <2>2, <2>3
  <1>6. \A i \in k .. n - 1 : new[i] = old[i + 1]
    <2> SUFFICES ASSUME NEW i \in k .. n - 1 PROVE new[i] = old[i + 1]
      OBVIOUS
    <2>1. i + 1 \in 1 .. n /\ i \in 1 .. n - 1 /\ i + 1 > k
      BY <1>9
    <2>2. old[i + 1] \in Tracks /\ rows[old[i + 1]] = i + 1
      BY <1>2, <2>1
    <2>3. table[old[i + 1]] = i
      <3>1. old[i + 1] # t
        BY <1>9, <2>1, <2>2
      <3>2. table[old[i + 1]] = (i + 1) - 1
        BY <1>9, <2>1, <2>2, <3>1
      <3> QED
        BY <1>9, <3>2
    <2> QED
      BY <1>3, <2>1, <2>2, <2>3
  <1>7. new = RemoveAt(old, k)
    <2>1. /\ RemoveAt(old, k) \in Seq(Tracks) /\ Len(RemoveAt(old, k)) = n - 1
          /\ \A i \in 1 .. n - 1 : RemoveAt(old, k)[i] = IF i < k THEN old[i] ELSE old[i + 1]
      BY <1>2, <1>4, RemoveAtIs, ZenonT(40)
    <2>2. \A i \in 1 .. n - 1 : IF i < k THEN i \in 1 .. k - 1 ELSE i \in k .. n - 1
      BY <1>9
    <2>3. \A i \in 1 .. n - 1 : new[i] = RemoveAt(old, k)[i]
      BY <1>5, <1>6, <2>1, <2>2
    <2> QED
      BY <1>3, <2>1, <2>3, SeqEqual
  <1>8. k \in DOMAIN old
    BY <1>2, <1>9
  <1> QED
    BY <1>4, <1>7, <1>8 DEF old, new

\* Dense positions are an order of the tracks that are there.
LEMMA ListReorder ==
    ASSUME NEW table \in [Tracks -> Nat], NEW n \in Nat, Dense(table, n)
    PROVE  ListOf(table) \in SetToSeqs(Present(table))
  <1> DEFINE list == ListOf(table)
  <1>1. /\ list \in Seq(Tracks) /\ Len(list) = n /\ Cardinality(Present(table)) = n
        /\ \A i \in 1 .. n : list[i] \in Present(table) /\ table[list[i]] = i
    BY ListOfDense DEF Present
  <1> HIDE DEF list
  <1>2. list \in [1 .. n -> Present(table)]
    BY <1>1
  <1>3. \A i, j \in 1 .. n : i # j => list[i] # list[j]
    BY <1>1
  <1> QED
    BY <1>1, <1>2, <1>3 DEF SetToSeqs, list

\* A change of the rows that goes into the order, or leaves none.
LEMMA AddRefines ==
    ASSUME TypeOK', NEW t, t \notin Present(rows), Present(rows') = Present(rows) \cup {t},
           tidy' => tidy /\ ListOf(rows') = Append(ListOf(rows), t)
    PROVE  Order!Add(t)
  <1>1. Present(rows)' = Present(rows) \cup {t}
    BY DEF Present
  <1>2. CASE tidy'
    <2>1. tidy /\ Order!Tidy(Append(IF tidy THEN ListOf(rows) ELSE <<>>, t))
      BY <1>2 DEF Order!Tidy, ListOf, Present, TypeOK
    <2> QED
      BY <1>1, <2>1 DEF Order!Add, ListOf
  <1>3. CASE ~tidy'
    BY <1>1, <1>3 DEF Order!Add, Order!Scrambled, TypeOK
  <1> QED
    BY <1>2, <1>3

LEMMA DeleteRefines ==
    ASSUME TypeOK', NEW t, t \in Present(rows), Present(rows') = Present(rows) \ {t},
           tidy' => tidy /\ \E i \in DOMAIN ListOf(rows) :
                      ListOf(rows)[i] = t /\ ListOf(rows') = RemoveAt(ListOf(rows), i)
    PROVE  Order!Delete(t)
  <1>1. Present(rows)' = Present(rows) \ {t}
    BY DEF Present
  <1>2. CASE tidy'
    <2> DEFINE list == IF tidy THEN ListOf(rows) ELSE <<>>
    <2>1. PICK i \in DOMAIN list : list[i] = t /\ ListOf(rows') = RemoveAt(list, i)
      BY <1>2
    <2>2. tidy /\ tidy' = TRUE /\ list' = RemoveAt(list, i)
      BY <1>2, <2>1 DEF ListOf, Present, TypeOK
    <2> QED
      BY <1>1, <2>1, <2>2 DEF Order!Delete, Order!Tidy, ListOf, Order!RemoveAt, RemoveAt
  <1>3. CASE ~tidy'
    BY <1>1, <1>3 DEF Order!Delete, Order!Scrambled, TypeOK
  <1> QED
    BY <1>2, <1>3

LEMMA ReorderRefines ==
    ASSUME TypeOK', Present(rows') = Present(rows),
           tidy' => ListOf(rows') \in SetToSeqs(Present(rows))
    PROVE  Order!Reorder
  <1>1. Present(rows)' = Present(rows)
    BY DEF Present
  <1>2. CASE tidy'
    <2>1. PICK order \in SetToSeqs(Present(rows)) : ListOf(rows') = order
      BY <1>2
    <2>2. tidy' = TRUE /\ (IF tidy THEN ListOf(rows) ELSE <<>>)' = order
      BY <1>2, <2>1 DEF ListOf, Present, TypeOK
    <2>3. order \in Order!SetToSeqs(Present(rows))
      BY <2>1 DEF Order!SetToSeqs, SetToSeqs, Order!Cardinality, Cardinality
    <2>4. Order!Tidy(order)
      BY <2>2 DEF Order!Tidy, ListOf
    <2> QED
      BY <1>1, <2>3, <2>4 DEF Order!Reorder
  <1>3. CASE ~tidy'
    BY <1>1, <1>3 DEF Order!Reorder, Order!Scrambled, TypeOK
  <1> QED
    BY <1>2, <1>3

\* A commit is a step of PlaylistOrder: the change it was asked for, which goes into
\* the order if it was undisturbed and leaves none otherwise.
LEMMA CommitRefines ==
    ASSUME IInv, NEW r \in Requests, Commit(r)
    PROVE  Order!Next
  <1> DEFINE n == Cardinality(Present(rows))
  <1>1. /\ rows' = Visible(r) /\ rows' \in [Tracks -> Nat] /\ pc[r] = "commit"
        /\ tidy' = (r \in alone /\ (tidy \/ job[r].kind = "reorder"))
    BY VisibleType DEF Commit
  <1>2. n \in Nat /\ (tidy => Dense(rows, n))
    BY FS_Subset, FS_CardinalityType, PlaylistAssumption DEF IInv, Present
  <1>3. tidy \in BOOLEAN /\ tidy' \in BOOLEAN /\ job[r].kind \in {"add", "remove", "reorder"}
    BY <1>1 DEF IInv, TypeOK, StageInv
  <1>7. TypeOK'
    BY CommitStep DEF IInv
  <1>4. CASE job[r].kind = "add"
    <2>1. PICK t \in Tracks :
             /\ rows[t] = Absent /\ rows'[t] # Absent
             /\ \A u \in Tracks \ {t} : rows'[u] = rows[u]
             /\ r \in alone => After(rows'[t])
      BY <1>1, <1>4, CommitAdds
    <2>2. t \notin Present(rows) /\ Present(rows') = Present(rows) \cup {t}
      BY <2>1 DEF Present
    <2>3. tidy' => tidy /\ ListOf(rows') = Append(ListOf(rows), t)
      BY <1>1, <1>2, <1>4, <2>1, ListAdd
    <2>4. Order!Add(t)
      BY <1>7, <2>2, <2>3, AddRefines
    <2> QED
      BY <2>1, <2>4 DEF Order!Next
  <1>5. CASE job[r].kind = "remove"
    <2>1. PICK t \in Tracks :
             /\ rows[t] # Absent /\ rows'[t] = Absent
             /\ \A u \in Tracks \ {t} : rows'[u] = Absent <=> rows[u] = Absent
             /\ r \in alone => \A u \in Tracks \ {t} :
                  rows'[u] = IF rows[u] > rows[t] THEN rows[u] - 1 ELSE rows[u]
      BY <1>1, <1>5, CommitRemoves
    <2>2. t \in Present(rows) /\ Present(rows') = Present(rows) \ {t}
      BY <2>1 DEF Present
    <2>3. tidy' => tidy /\ \E i \in DOMAIN ListOf(rows) :
             ListOf(rows)[i] = t /\ ListOf(rows') = RemoveAt(ListOf(rows), i)
      BY <1>1, <1>2, <1>5, <2>1, ListRemove
    <2>4. Order!Delete(t)
      BY <1>7, <2>2, <2>3, DeleteRefines
    <2> QED
      BY <2>1, <2>4 DEF Order!Next
  <1>6. CASE job[r].kind = "reorder"
    <2>1. \A u \in Tracks : rows'[u] = Absent <=> rows[u] = Absent
      BY <1>1, <1>6, CommitReorders
    <2>2. Present(rows') = Present(rows)
      BY <2>1 DEF Present
    <2>3. tidy' => ListOf(rows') \in SetToSeqs(Present(rows))
      <3> SUFFICES ASSUME tidy' PROVE ListOf(rows') \in SetToSeqs(Present(rows))
        OBVIOUS
      <3>1. Dense(rows', Cardinality(Present(rows')))
        BY <1>1, <1>6, DenseAfterCommit
      <3> QED
        BY <1>1, <1>2, <2>2, <3>1, ListReorder
    <2>4. Order!Reorder
      BY <1>7, <2>2, <2>3, ReorderRefines
    <2> QED
      BY <2>4 DEF Order!Next
  <1> QED
    BY <1>3, <1>4, <1>5, <1>6

\* The list of no rows is empty.
LEMMA NoList ==
    ASSUME NEW table, Present(table) = {}
    PROVE  ListOf(table) = <<>>
  <1>1. Cardinality(Present(table)) = 0
    BY FS_EmptySet
  <1>2. ListOf(table) = [i \in 1 .. 0 |-> CHOOSE t \in Tracks : table[t] = i]
    BY <1>1 DEF ListOf
  <1> QED
    BY <1>2

\* So is the deletion of the playlist, under whatever order it had.
LEMMA CommitDropRefines ==
    ASSUME IInv, NEW r \in Requests, CommitDrop(r)
    PROVE  Order!Next
  <1>1. rows' = Visible(r) /\ left[r] = {} /\ pc[r] = "cascade" /\ tidy' = tidy
    BY DEF CommitDrop
  <1>2. CascadeInv(r)
    BY <1>1 DEF IInv, WritesInv
  <1>3. \A t \in Tracks : rows'[t] = Absent
    BY <1>1, <1>2, PlaylistAssumption DEF CascadeInv, Visible, Present, Absent
  <1>4. Present(rows') = {}
    BY <1>3 DEF Present
  <1>5. (IF tidy' THEN ListOf(rows') ELSE <<>>) = <<>>
    BY <1>4, NoList
  <1>6. Order!Clear
    BY <1>1, <1>4, <1>5 DEF Order!Clear, ListOf, Present
  <1> QED
    BY <1>6 DEF Order!Next

\* What PlaylistOrder sees is the rows and whether their order is defined.
LEMMA OrderUnchanged ==
    ASSUME UNCHANGED <<rows, tidy>>
    PROVE  UNCHANGED Order!vars
BY DEF Order!vars, Present

\* Every step is one of PlaylistOrder or none.
LEMMA StepRefines == IInv /\ [Next]_vars => [Order!Next]_(Order!vars)
  <1> SUFFICES ASSUME IInv, [Next]_vars, ~UNCHANGED <<rows, tidy>>
               PROVE  Order!Next
    BY OrderUnchanged
  <1>1. \E r \in Requests : Commit(r) \/ CommitDrop(r)
    BY ZenonT(40) DEF Next, Step, vars, CreatePlaylist, Send, CheckOwner, Reply, HangUp, ReadMax, InsertRow,
           DeleteRow, FindRange, ShiftRow, ListRows, PlaceRow, Touch, UpdatePlaylist, DropPlaylist,
           CascadeRow, StatementFails, CancelHandler, DeadlockAbort, Rollback, Keep
  <1> QED
    BY <1>1, CommitRefines, CommitDropRefines

\* The track rows are exactly those of the committed changes, in the order that these
\* define while they do not overlap.
THEOREM OrderIsImplemented == Spec => ImplementsOrder
  <1>1. Init => Order!Init
    <2> SUFFICES ASSUME Init PROVE Order!Init
      OBVIOUS
    <2>1. Present(rows) = {} /\ tidy = TRUE
      BY DEF Init, Present, Absent
    <2> QED
      <3>1. ListOf(rows) = <<>>
        BY <2>1, NoList
      <3> QED
        BY <2>1, <3>1 DEF Order!Init, ListOf
  <1> QED
    BY <1>1, StepRefines, Invariance, PTL DEF Spec, ImplementsOrder, Order!Spec
=============================================================================
