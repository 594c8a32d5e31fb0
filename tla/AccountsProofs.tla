--------------------------- MODULE AccountsProofs ---------------------------
(***************************************************************************)
(* Proofs about Accounts, for every number of users, requests and calls:   *)
(* the type invariant, the rule of the last admin and the protection of    *)
(* the main admin.                                                         *)
(***************************************************************************)
EXTENDS Accounts, TLAPS

\* The jobs that only an admin's request has, and those about one account.
AdminKinds == {"create", "update", "delete", "runtime", "media"}
UserKinds == {"update", "delete"}

\* Somebody has registered, or the races have begun.
Started == "users" \in raced \/ Accounts # {}

\* What a request has read is what the tables hold, unless it is stale; and the
\* stages fit the kind of request.
ReadHolds(r) ==
    /\ pc[r] \in {"policy", "send", "lookup", "first"} => job[r].kind = "register"
    /\ pc[r] = "insert" => job[r].kind \in {"register", "create"}
    /\ pc[r] \in {"read", "write"} => job[r].kind \in UserKinds \cup Settings
    /\ pc[r] = "count" => job[r].kind \in UserKinds
    /\ job[r].kind \in AdminKinds => Started /\ actor[r] \in Users
    /\ pc[r] = "insert" /\ job[r].kind = "register" /\ r \notin stale =>
         (empty[r] <=> Accounts = {})
    /\ pc[r] \in {"count", "write"} /\ job[r].kind \in UserKinds =>
         /\ cur[r] \in Row
         /\ IsMain(cur[r]) => ~Retires(job[r], cur[r])
         /\ r \notin stale => users[job[r].user] = cur[r]
    /\ /\ pc[r] = "write" /\ job[r].kind \in UserKinds /\ r \notin stale
       /\ ActiveAdmin(cur[r]) /\ Retires(job[r], cur[r])
       => ActiveAdmins \ {job[r].user} # {}
    /\ pc[r] = "write" /\ job[r].kind \in Settings =>
         /\ job[r].kind = "runtime" => cur[r] \in Runtime
         /\ job[r].kind = "media" => cur[r] \in Media
         /\ r \notin stale => cur[r] = settings[job[r].kind]

IInv ==
    /\ TypeOK
    /\ LastAdminNeedsOverlap
    /\ tokens # {} => Started
    /\ \A r \in Requests : ReadHolds(r)

-----------------------------------------------------------------------------
(* Facts about one state *)

\* The parts of a request.
LEMMA JobFacts ==
    ASSUME TypeOK, NEW r \in Requests
    PROVE  /\ job[r].kind \in {"none", "register"} \cup AdminKinds
           /\ job[r].kind = "register" => job[r].name \in Names /\ job[r].gw \in Gateways
           /\ job[r].kind = "create" => job[r].row \in Row
           /\ job[r].kind \in UserKinds => job[r].user \in Users
           /\ job[r].kind = "update" => job[r].patch \in UserPatch
           /\ job[r].kind = "runtime" => job[r].patch \in RuntimePatch
           /\ job[r].kind = "media" => job[r].patch \in MediaPatch
<1>1. job[r] \in Job \cup {Default}
  BY AccountsAssumption DEF TypeOK
<1>2. CASE job[r] = Default
  BY <1>2 DEF Default, UserKinds
<1>3. CASE job[r] \in [kind: {"register"}, gw: Gateways, name: Names]
  BY <1>3 DEF UserKinds
<1>4. CASE job[r] \in [kind: {"create"}, row: Row]
  BY <1>4 DEF UserKinds, AdminKinds
<1>5. CASE job[r] \in [kind: {"update"}, user: Users, patch: UserPatch]
  BY <1>5 DEF UserKinds, AdminKinds
<1>6. CASE job[r] \in [kind: {"delete"}, user: Users]
  BY <1>6 DEF UserKinds, AdminKinds
<1>7. CASE job[r] \in [kind: {"runtime"}, patch: RuntimePatch]
  BY <1>7 DEF UserKinds, AdminKinds
<1>8. CASE job[r] \in [kind: {"media"}, patch: MediaPatch]
  BY <1>8 DEF UserKinds, AdminKinds
<1> QED
  BY <1>1, <1>2, <1>3, <1>4, <1>5, <1>6, <1>7, <1>8 DEF Job

\* The next role and status of an account are a role and a status.
LEMMA NextTypes ==
    ASSUME NEW j, NEW row \in Row, j.patch \in UserPatch
    PROVE  NextRole(j, row) \in Roles /\ NextActive(j, row) \in BOOLEAN
<1>1. j.patch.role \in Roles \cup {Keep} /\ j.patch.active \in BOOLEAN \cup {Keep}
  BY DEF UserPatch
<1>2. row.role \in Roles /\ row.active \in BOOLEAN
  BY DEF Row
<1>3. NextRole(j, row) \in Roles
  BY <1>1, <1>2 DEF NextRole
<1>4. NextActive(j, row) \in BOOLEAN
  BY <1>1, <1>2, Zenon DEF NextActive
<1> QED
  BY <1>3, <1>4

\* A patched settings row is a settings row.
LEMMA PatchedTypes ==
    /\ \A row \in Runtime, patch \in RuntimePatch : Patched(row, patch) \in Runtime
    /\ \A row \in Media, patch \in MediaPatch : Patched(row, patch) \in Media
BY DEF Patched, Runtime, RuntimePatch, Media, MediaPatch

\* A finished request asks for nothing and has read nothing.
LEMMA FinishTypes ==
    ASSUME TypeOK, NEW r \in Requests, Finish(r)
    PROVE  /\ pc' \in [Requests -> Stages] /\ pc'[r] = "idle"
           /\ job' \in [Requests -> Jobs \cup {Default}] /\ job'[r] = Default
           /\ actor' \in [Requests -> Users \cup {Nobody}]
           /\ cur' \in [Requests -> Row \cup Runtime \cup Media \cup {NoRow}]
           /\ empty' \in [Requests -> BOOLEAN]
           /\ held' \subseteq Requests
           /\ \A q \in Requests \ {r} :
                /\ pc'[q] = pc[q] /\ job'[q] = job[q] /\ actor'[q] = actor[q]
                /\ cur'[q] = cur[q] /\ (empty'[q] <=> empty[q])
<1>1. empty' = [empty EXCEPT ![r] = FALSE] /\ empty \in [Requests -> BOOLEAN]
  BY DEF Finish, TypeOK
<1>2. empty' \in [Requests -> BOOLEAN] /\ \A q \in Requests \ {r} : empty'[q] = empty[q]
  BY <1>1
<1> QED
  BY <1>2 DEF Finish, Goto, TypeOK, Stages

\* What the history of a write says.
LEMMA WroteTypes ==
    ASSUME TypeOK, NEW r \in Requests, Wrote(r)
    PROVE  /\ stale' \subseteq Requests /\ raced' \subseteq {"users"} \cup Settings
           /\ raced \subseteq raced' /\ (r \in stale => Table(r) \in raced')
           /\ \A q \in Requests \ {r} :
                /\ q \in stale => q \in stale'
                /\ Reading(q) /\ Table(q) = Table(r) => q \in stale'
BY DEF Wrote, TypeOK, Table, Settings

-----------------------------------------------------------------------------
(* Preservation *)

\* What a request has read survives the steps of the others: a change of its table
\* makes it stale.
LEMMA ReadKept ==
    ASSUME NEW q \in Requests, ReadHolds(q), Started => Started',
           pc'[q] = pc[q], job'[q] = job[q], actor'[q] = actor[q], cur'[q] = cur[q],
           empty'[q] <=> empty[q],
           q \in stale => q \in stale',
           q \notin stale' /\ Reading(q) =>
             /\ Table(q) = "users" => users' = users
             /\ Table(q) \in Settings => settings'[Table(q)] = settings[Table(q)]
    PROVE  ReadHolds(q)'
<1>1. /\ pc[q] \in {"policy", "send", "lookup", "first"} => job[q].kind = "register"
      /\ pc[q] = "insert" => job[q].kind \in {"register", "create"}
      /\ pc[q] \in {"read", "write"} => job[q].kind \in UserKinds \cup Settings
      /\ pc[q] = "count" => job[q].kind \in UserKinds
      /\ job[q].kind \in AdminKinds => Started' /\ actor[q] \in Users
  BY DEF ReadHolds
<1>2. ASSUME pc[q] = "insert", job[q].kind = "register", q \notin stale'
      PROVE  empty[q] <=> Accounts' = {}
  <2>1. Table(q) = "users" /\ Reading(q)
    BY <1>2 DEF Table, Settings, Reading
  <2> QED
    BY <1>2, <2>1 DEF ReadHolds, Accounts
<1>3. ASSUME pc[q] \in {"count", "write"}, job[q].kind \in UserKinds
      PROVE  /\ cur[q] \in Row
             /\ IsMain(cur[q]) => ~Retires(job[q], cur[q])
             /\ q \notin stale' => users'[job[q].user] = cur[q]
  <2>1. Table(q) = "users" /\ Reading(q)
    BY <1>3 DEF Table, Settings, Reading, UserKinds
  <2> QED
    BY <1>3, <2>1 DEF ReadHolds
<1>4. ASSUME pc[q] = "write", job[q].kind \in UserKinds, q \notin stale',
             ActiveAdmin(cur[q]), Retires(job[q], cur[q])
      PROVE  ActiveAdmins' \ {job[q].user} # {}
  <2>1. Table(q) = "users" /\ Reading(q)
    BY <1>4 DEF Table, Settings, Reading, UserKinds
  <2> QED
    BY <1>4, <2>1 DEF ReadHolds, ActiveAdmins
<1>5. ASSUME pc[q] = "write", job[q].kind \in Settings
      PROVE  /\ job[q].kind = "runtime" => cur[q] \in Runtime
             /\ job[q].kind = "media" => cur[q] \in Media
             /\ q \notin stale' => cur[q] = settings'[job[q].kind]
  <2>1. Table(q) = job[q].kind /\ Reading(q)
    BY <1>5 DEF Table, Reading
  <2> QED
    BY <1>5, <2>1 DEF ReadHolds
<1> QED
  BY <1>1, <1>2, <1>3, <1>4, <1>5 DEF ReadHolds, IsMain, Retires, ActiveAdmin, NextRole, NextActive

LEMMA InitInv == Init => IInv
<1> SUFFICES ASSUME Init PROVE IInv
  OBVIOUS
<1>1. /\ users \in [Users -> Row \cup {Unborn}] /\ NamesUnique(users)
      /\ Accounts # {} => ActiveAdmins # {}
  BY AccountsAssumption DEF Init, Accounts, ActiveAdmins
<1>2. settings["runtime"] \in Runtime /\ settings["media"] \in Media
  BY DEF Init, Settings, Runtime, Media, Roles
<1>3. settings \in [Settings -> Runtime \cup Media]
  BY <1>2 DEF Init, Settings
<1>4. TypeOK
  BY <1>1, <1>2, <1>3, AccountsAssumption DEF Init, TypeOK, Entry, Stages
<1>5. \A r \in Requests : ReadHolds(r)
  BY DEF Init, ReadHolds, Default, UserKinds, AdminKinds, Settings
<1> QED
  BY <1>1, <1>4, <1>5 DEF IInv, LastAdminNeedsOverlap, ActiveAdminRemains, Init

\* A request that is answered without a write.
LEMMA AnswerInv ==
    ASSUME IInv, NEW r \in Requests, Answer(r)
    PROVE  IInv'
<1>0. TypeOK /\ LastAdminNeedsOverlap /\ (tokens # {} => Started)
      /\ \A q \in Requests : ReadHolds(q)
  BY DEF IInv
<1>1. UNCHANGED <<users, settings, author, tokens, raced, calls>> /\ stale' = stale \ {r} /\ Finish(r)
  BY DEF Answer, tables
<1>2. TypeOK'
  BY <1>0, <1>1, FinishTypes DEF TypeOK, Accounts
<1>3. Started' = Started /\ LastAdminNeedsOverlap' = LastAdminNeedsOverlap
  BY <1>1 DEF Started, LastAdminNeedsOverlap, ActiveAdminRemains, Accounts, ActiveAdmins
<1>4. ReadHolds(r)'
  BY <1>0, <1>1, FinishTypes DEF ReadHolds, Default, UserKinds, AdminKinds, Settings
<1>5. ASSUME NEW q \in Requests \ {r} PROVE ReadHolds(q)'
  BY <1>0, <1>1, <1>3, FinishTypes, ReadKept
<1> QED
  BY <1>0, <1>1, <1>2, <1>3, <1>4, <1>5 DEF IInv

\* A step of a request, or of none, that changes no table: nobody gets stale.
LEMMA QuietInv ==
    ASSUME IInv, TypeOK', UNCHANGED <<users, settings, raced, stale>>,
           tokens' # {} => Started,
           \A q \in Requests : \/ ReadHolds(q)'
                               \/ /\ pc'[q] = pc[q] /\ job'[q] = job[q] /\ actor'[q] = actor[q]
                                  /\ cur'[q] = cur[q] /\ (empty'[q] <=> empty[q])
    PROVE  IInv'
<1>1. Started' = Started /\ LastAdminNeedsOverlap' = LastAdminNeedsOverlap
  BY DEF Started, LastAdminNeedsOverlap, ActiveAdminRemains, Accounts, ActiveAdmins
<1>2. ASSUME NEW q \in Requests PROVE ReadHolds(q)'
  BY <1>1, ReadKept DEF IInv
<1> QED
  BY <1>1, <1>2 DEF IInv

LEMMA TokensInv ==
    ASSUME IInv, NEW u \in Users, Login(u) \/ Expire(u)
    PROVE  IInv'
<1>1. UNCHANGED <<users, settings, author, pc, job, actor, cur, empty, held, stale, raced, calls>>
  BY DEF Login, Expire, tables, locals, history
<1>2. TypeOK'
  BY <1>1 DEF IInv, TypeOK, Login, Expire, Accounts, AccountsOf
<1>3. tokens' # {} => Started
  BY DEF IInv, Login, Expire, Started
<1> QED
  BY <1>1, <1>2, <1>3, QuietInv

LEMMA CallInv ==
    ASSUME IInv, NEW r \in Requests, Register(r) \/ Administer(r)
    PROVE  IInv'
<1>1. /\ UNCHANGED <<users, settings, author, tokens, cur, empty, held, stale, raced>>
      /\ pc[r] = "idle" /\ calls < MaxCalls /\ calls' = calls + 1
  BY DEF Register, Administer, Call, tables, history
<1>2. PICK j \in Jobs, stage \in {"policy", "insert", "read"} :
        /\ pc' = [pc EXCEPT ![r] = stage] /\ job' = [job EXCEPT ![r] = j]
        /\ \/ j.kind = "register" /\ stage = "policy" /\ actor' = actor
           \/ /\ j.kind # "register" /\ stage = (IF j.kind = "create" THEN "insert" ELSE "read")
              /\ \E a \in tokens : actor' = [actor EXCEPT ![r] = a]
  BY DEF Register, Administer, Call, Goto
<1>3. TypeOK'
  BY <1>1, <1>2, AccountsAssumption DEF IInv, TypeOK, Stages, Accounts
<1>4. job'[r] = j /\ pc'[r] = stage /\ j.kind # "none"
  <2>1. j \in Job
    BY AccountsAssumption
  <2>2. j.kind # "none"
    BY <2>1 DEF Job
  <2> QED
    BY <1>2, <2>2 DEF IInv, TypeOK
<1>5. ReadHolds(r)'
  <2>1. Started' = Started
    BY <1>1 DEF Started, Accounts
  <2>2. CASE j.kind = "register" /\ stage = "policy"
    BY <1>4, <2>2 DEF ReadHolds, UserKinds, AdminKinds, Settings
  <2>3. CASE j.kind # "register" /\ stage = (IF j.kind = "create" THEN "insert" ELSE "read")
             /\ \E a \in tokens : actor' = [actor EXCEPT ![r] = a]
    <3>1. actor'[r] \in Users /\ Started'
      BY <2>1, <2>3 DEF IInv, TypeOK
    <3>2. job'[r].kind \in AdminKinds
      BY <1>4, <2>3, AccountsAssumption DEF AdminKinds, Job
    <3> QED
      BY <1>4, <2>3, <3>1, <3>2 DEF ReadHolds, UserKinds, AdminKinds, Settings
  <2> QED
    BY <1>2, <2>2, <2>3
<1>6. \A q \in Requests \ {r} : pc'[q] = pc[q] /\ job'[q] = job[q] /\ actor'[q] = actor[q]
  BY <1>2 DEF IInv, TypeOK
<1> QED
  BY <1>1, <1>3, <1>5, <1>6, QuietInv DEF IInv

LEMMA HangUpInv ==
    ASSUME IInv, NEW r \in Requests, HangUp(r)
    PROVE  IInv'
<1>1. UNCHANGED <<users, settings, author, tokens, pc, job, actor, cur, empty, stale, raced, calls>>
  BY DEF HangUp, tables, locals, history
<1>2. TypeOK'
  BY <1>1 DEF IInv, TypeOK, HangUp, Accounts
<1> QED
  BY <1>1, <1>2, QuietInv DEF IInv

\* The steps of register up to the insert.
LEMMA RegisterStepsInv ==
    ASSUME IInv, NEW r \in Requests,
           CheckPolicy(r) \/ Send(r) \/ LookUp(r) \/ CountUsers(r)
    PROVE  IInv'
<1>1. CASE Answer(r)
  BY <1>1, AnswerInv
<1>2. CASE ~Answer(r)
  <2>1. /\ UNCHANGED <<users, settings, author, tokens, job, actor, cur, stale, raced, calls>>
        /\ held' \subseteq held \cup {r}
        /\ pc[r] \in {"policy", "send", "lookup", "first"}
        /\ \/ empty' = empty /\ pc' = [pc EXCEPT ![r] = "send"]
           \/ empty' = empty /\ pc' = [pc EXCEPT ![r] = "lookup"]
           \/ empty' = empty /\ pc' = [pc EXCEPT ![r] = "first"]
           \/ /\ empty' = [empty EXCEPT ![r] = (Accounts = {})]
              /\ pc' = [pc EXCEPT ![r] = "insert"]
    BY <1>2 DEF CheckPolicy, Send, LookUp, CountUsers, Goto, tables, locals, history
  <2>2. empty \in [Requests -> BOOLEAN] /\ pc \in [Requests -> Stages] /\ (Accounts = {}) \in BOOLEAN
    BY DEF IInv, TypeOK
  <2>3. empty' \in [Requests -> BOOLEAN]
    BY <2>1, <2>2, Zenon
  <2>4. TypeOK'
    BY <2>1, <2>2, <2>3 DEF IInv, TypeOK, Stages, Accounts
  <2>5. job[r].kind = "register"
    BY <2>1 DEF IInv, ReadHolds
  <2>6. ReadHolds(r)'
    <3>1. CASE pc'[r] \in {"send", "lookup", "first"}
      BY <2>1, <2>5, <3>1 DEF ReadHolds, UserKinds, AdminKinds, Settings
    <3>2. CASE empty' = [empty EXCEPT ![r] = (Accounts = {})] /\ pc' = [pc EXCEPT ![r] = "insert"]
      <4>1. empty'[r] = (Accounts = {}) /\ pc'[r] = "insert" /\ Accounts' = Accounts
        BY <2>1, <2>2, <3>2 DEF Accounts
      <4> QED
        BY <2>1, <2>5, <4>1 DEF ReadHolds, UserKinds, AdminKinds, Settings
    <3> QED
      BY <2>1, <2>2, <3>1, <3>2
  <2>7. \A q \in Requests \ {r} : pc'[q] = pc[q] /\ (empty'[q] <=> empty[q])
    BY <2>1, <2>2
  <2> QED
    BY <2>1, <2>4, <2>6, <2>7, QuietInv DEF IInv
<1> QED
  BY <1>1, <1>2

\* The reads of the admin's requests.
LEMMA ReadStepsInv ==
    ASSUME IInv, NEW r \in Requests, ReadUser(r) \/ CountAdmins(r) \/ ReadSettings(r)
    PROVE  IInv'
<1>0. TypeOK /\ ReadHolds(r)
  BY DEF IInv
<1>1. CASE Answer(r)
  BY <1>1, AnswerInv
<1>2. CASE ReadUser(r) /\ ~Answer(r)
  <2> DEFINE row == users[job[r].user]
  <2>1. /\ row \in Row /\ ~(IsMain(row) /\ Retires(job[r], row))
        /\ cur' = [cur EXCEPT ![r] = row]
        /\ pc' = [pc EXCEPT ![r] = IF ActiveAdmin(row) /\ Retires(job[r], row)
                                   THEN "count" ELSE "write"]
        /\ UNCHANGED <<users, settings, author, tokens, job, actor, empty, held, stale, raced, calls>>
        /\ job[r].kind \in UserKinds
    BY <1>2 DEF ReadUser, Goto, tables, history, UserKinds
  <2>2. TypeOK'
    BY <1>0, <2>1 DEF TypeOK, Stages, Accounts
  <2>3. cur'[r] = row /\ pc'[r] = (IF ActiveAdmin(row) /\ Retires(job[r], row) THEN "count" ELSE "write")
    BY <1>0, <2>1 DEF TypeOK
  <2>4. ReadHolds(r)'
    <3>1. job[r].kind \in AdminKinds => Started' /\ actor'[r] \in Users
      BY <1>0, <2>1 DEF ReadHolds, Started, Accounts
    <3> QED
      BY <2>1, <2>3, <3>1 DEF ReadHolds, UserKinds, Settings
  <2> QED
    BY <1>0, <2>1, <2>2, <2>4, QuietInv DEF IInv, TypeOK
<1>3. CASE CountAdmins(r) /\ ~Answer(r)
  <2>1. /\ pc[r] = "count" /\ ActiveAdmins \ {job[r].user} # {}
        /\ pc' = [pc EXCEPT ![r] = "write"]
        /\ UNCHANGED <<users, settings, author, tokens, job, actor, cur, empty, held, stale, raced, calls>>
    BY <1>3 DEF CountAdmins, Goto, tables, locals, history
  <2>2. TypeOK'
    BY <1>0, <2>1 DEF TypeOK, Stages, Accounts
  <2>3. ReadHolds(r)'
    <3>1. pc'[r] = "write" /\ job[r].kind \in UserKinds /\ Accounts' = Accounts
          /\ ActiveAdmins' \ {job[r].user} # {}
      BY <1>0, <2>1 DEF TypeOK, ReadHolds, Accounts, ActiveAdmins
    <3> QED
      BY <1>0, <2>1, <3>1 DEF ReadHolds, UserKinds, AdminKinds, Settings, Started
  <2> QED
    BY <1>0, <2>1, <2>2, <2>3, QuietInv DEF IInv, TypeOK
<1>4. CASE ReadSettings(r)
  <2>1. /\ pc[r] = "read" /\ job[r].kind \in Settings
        /\ cur' = [cur EXCEPT ![r] = settings[job[r].kind]]
        /\ pc' = [pc EXCEPT ![r] = "write"]
        /\ UNCHANGED <<users, settings, author, tokens, job, actor, empty, held, stale, raced, calls>>
    BY <1>4 DEF ReadSettings, Goto, tables, history
  <2>2. settings[job[r].kind] \in Runtime \cup Media
    BY <1>0, <2>1 DEF TypeOK
  <2>3. TypeOK'
    BY <1>0, <2>1, <2>2 DEF TypeOK, Stages, Accounts
  <2>4. ReadHolds(r)'
    <3>1. pc'[r] = "write" /\ cur'[r] = settings[job[r].kind] /\ Accounts' = Accounts
      BY <1>0, <2>1 DEF TypeOK, Accounts
    <3> QED
      BY <1>0, <2>1, <3>1 DEF ReadHolds, UserKinds, AdminKinds, Settings, Started, TypeOK
  <2> QED
    BY <1>0, <2>1, <2>3, <2>4, QuietInv DEF IInv, TypeOK
<1> QED
  BY <1>1, <1>2, <1>3, <1>4

\* A write of the users table: who has read it is stale now.
LEMMA UsersWriteInv ==
    ASSUME IInv, NEW r \in Requests, job[r].kind \in {"register", "create"} \cup UserKinds,
           Wrote(r), Finish(r), UNCHANGED <<settings, author, calls>>,
           users' \in [Users -> Entry], NamesUnique(users)',
           \A k \in Settings : author[k] \in Accounts' \cup {Nobody},
           tokens' \subseteq Users, tokens' # tokens => Accounts' # {},
           "users" \in raced' \/ ActiveAdminRemains',
           Accounts # {} => Started'
    PROVE  IInv'
<1>0. TypeOK /\ (tokens # {} => Started) /\ \A q \in Requests : ReadHolds(q)
  BY DEF IInv
<1>1. Table(r) = "users"
  BY DEF Table, Settings, UserKinds
<1>2. author' \in [Settings -> Accounts' \cup {Nobody}]
  BY <1>0 DEF TypeOK
<1>3. TypeOK'
  BY <1>0, <1>2, FinishTypes, WroteTypes DEF TypeOK, Accounts
<1>4. Started => Started'
  BY <1>0, WroteTypes DEF Started
<1>5. LastAdminNeedsOverlap' /\ (tokens' # {} => Started')
  BY <1>0, <1>4 DEF LastAdminNeedsOverlap, Started
<1>6. ReadHolds(r)'
  BY <1>0, FinishTypes DEF ReadHolds, Default, UserKinds, AdminKinds, Settings
<1>7. ASSUME NEW q \in Requests \ {r} PROVE ReadHolds(q)'
  <2>1. q \notin stale' /\ Reading(q) => Table(q) # "users"
    BY <1>0, <1>1, WroteTypes
  <2> QED
    BY <1>0, <1>4, <2>1, FinishTypes, WroteTypes, ReadKept
<1> QED
  BY <1>3, <1>5, <1>6, <1>7 DEF IInv

LEMMA InsertInv ==
    ASSUME IInv, NEW r \in Requests, Insert(r)
    PROVE  IInv'
<1> DEFINE row == NewRow(r)
<1>0. TypeOK /\ ReadHolds(r) /\ LastAdminNeedsOverlap /\ pc[r] = "insert"
  BY DEF IInv, Insert
<1>1. CASE Answer(r)
  BY <1>1, AnswerInv
<1>2. CASE ~Answer(r)
  <2>1. PICK u \in Users :
          /\ users[u] = Unborn /\ users' = [users EXCEPT ![u] = row]
          /\ tokens' = IF job[r].kind = "register" /\ row.role = "admin"
                       THEN tokens \cup {u} ELSE tokens
          /\ Wrote(r) /\ Finish(r) /\ UNCHANGED <<settings, author, calls>>
          /\ \A v \in Accounts : users[v].name # row.name
    BY <1>2 DEF Insert
  <2>2. job[r].kind \in {"register", "create"}
    BY <1>0 DEF ReadHolds
  <2>3. row \in Row
    BY <1>0, <2>2, JobFacts DEF NewRow, Row, Roles
  <2>4. Accounts' = Accounts \cup {u} /\ u \notin Accounts
    BY <1>0, <2>1, <2>3, AccountsAssumption DEF Accounts, AccountsOf, TypeOK
  <2>5. users' \in [Users -> Entry] /\ NamesUnique(users)'
    <3>1. \A v \in Accounts : users'[v] = users[v]
      BY <1>0, <2>1, <2>4 DEF TypeOK, Accounts, AccountsOf
    <3>2. users'[u] = row
      BY <1>0, <2>1 DEF TypeOK
    <3> QED
      BY <1>0, <2>1, <2>3, <2>4, <3>1, <3>2, ZenonT(40) DEF TypeOK, NamesUnique, Entry, Accounts
  <2>6. \A k \in Settings : author[k] \in Accounts' \cup {Nobody}
    BY <1>0, <2>4 DEF TypeOK
  <2>7. tokens' \subseteq Users
    BY <1>0, <2>1 DEF TypeOK
  <2>8. "users" \in raced' \/ ActiveAdminRemains'
    <3>1. SUFFICES ASSUME "users" \notin raced' PROVE ActiveAdmins' # {}
      BY DEF ActiveAdminRemains
    <3>2. "users" \notin raced /\ r \notin stale
      BY <1>0, <2>1, <2>2, <3>1, WroteTypes DEF Table, Settings
    <3>3. ActiveAdmins \subseteq ActiveAdmins'
      BY <1>0, <2>1, <2>4 DEF ActiveAdmins, ActiveAdminsOf, Accounts, AccountsOf, TypeOK
    <3>4. CASE Accounts # {}
      BY <1>0, <3>2, <3>3, <3>4 DEF LastAdminNeedsOverlap, ActiveAdminRemains
    <3>5. CASE Accounts = {}
      <4>1. job[r].kind = "register"
        BY <1>0, <2>2, <3>2, <3>5 DEF ReadHolds, AdminKinds, Started
      <4>2. empty[r]
        BY <1>0, <3>2, <3>5, <4>1 DEF ReadHolds
      <4>3. row.role = "admin" /\ row.active
        BY <4>1, <4>2 DEF NewRow
      <4>4. users'[u] = row
        BY <1>0, <2>1 DEF TypeOK
      <4> QED
        BY <2>4, <4>3, <4>4 DEF ActiveAdmins, ActiveAdminsOf, Accounts
    <3> QED
      BY <3>4, <3>5
  <2> QED
    BY <2>1, <2>2, <2>4, <2>5, <2>6, <2>7, <2>8, UsersWriteInv DEF Started
<1> QED
  BY <1>1, <1>2

\* The account of a job that is about to be written.
LEMMA WriteFacts ==
    ASSUME IInv, NEW r \in Requests, pc[r] = "write", job[r].kind \in UserKinds
    PROVE  /\ cur[r] \in Row /\ job[r].user \in Users
           /\ IsMain(cur[r]) => ~Retires(job[r], cur[r])
           /\ r \notin stale => users[job[r].user] = cur[r]
           /\ r \notin stale /\ "users" \notin raced => ActiveAdmins # {}
           /\ r \notin stale /\ "users" \notin raced /\ Retires(job[r], cur[r]) =>
                ActiveAdmins \ {job[r].user} # {}
<1>1. TypeOK /\ ReadHolds(r) /\ LastAdminNeedsOverlap
  BY DEF IInv
<1>2. /\ cur[r] \in Row /\ job[r].user \in Users
      /\ IsMain(cur[r]) => ~Retires(job[r], cur[r])
      /\ r \notin stale => users[job[r].user] = cur[r]
  BY <1>1, JobFacts DEF ReadHolds
<1>3. r \notin stale /\ "users" \notin raced => ActiveAdmins # {}
  <2>1. r \notin stale => job[r].user \in Accounts
    BY <1>2 DEF Accounts, AccountsOf
  <2> QED
    BY <1>1, <2>1 DEF LastAdminNeedsOverlap, ActiveAdminRemains
<1>4. r \notin stale /\ Retires(job[r], cur[r]) /\ ActiveAdmin(cur[r]) =>
        ActiveAdmins \ {job[r].user} # {}
  BY <1>1 DEF ReadHolds
<1>5. r \notin stale /\ ~ActiveAdmin(cur[r]) => job[r].user \notin ActiveAdmins
  BY <1>2 DEF ActiveAdmins, ActiveAdminsOf, ActiveAdmin
<1> QED
  BY <1>2, <1>3, <1>4, <1>5

LEMMA UpdateInv ==
    ASSUME IInv, NEW r \in Requests, UpdateUser(r)
    PROVE  IInv'
<1> DEFINE u == job[r].user
           row == UpdatedRow(r, users[u])
<1>0. TypeOK /\ pc[r] = "write" /\ job[r].kind = "update" /\ job[r].kind \in UserKinds
  BY DEF IInv, UpdateUser, UserKinds
<1>1. CASE Answer(r)
  BY <1>1, AnswerInv
<1>2. CASE ~Answer(r)
  <2>1. /\ u \in Accounts /\ \A v \in Accounts \ {u} : users[v].name # row.name
        /\ users' = [users EXCEPT ![u] = row]
        /\ Wrote(r) /\ Finish(r) /\ UNCHANGED <<settings, author, tokens, calls>>
    BY <1>2 DEF UpdateUser
  <2>2. u \in Users /\ users[u] \in Row /\ cur[r] \in Row /\ job[r].patch \in UserPatch
    BY <1>0, <2>1, WriteFacts, JobFacts DEF Accounts, AccountsOf
  <2>3. row \in Row
    <3>1. (IF job[r].patch.name = Keep THEN users[u].name ELSE job[r].patch.name) \in Names
      BY <2>2 DEF Row, UserPatch
    <3> QED
      BY <2>2, <3>1, NextTypes DEF UpdatedRow, Row
  <2>4. Accounts' = Accounts /\ users'[u] = row /\ \A v \in Users \ {u} : users'[v] = users[v]
    BY <1>0, <2>1, <2>2, <2>3 DEF Accounts, AccountsOf, TypeOK
  <2>5. users' \in [Users -> Entry] /\ NamesUnique(users)'
    <3>1. users' \in [Users -> Entry]
      BY <1>0, <2>1, <2>3 DEF TypeOK, Entry
    <3>2. AccountsOf(users') = Accounts /\ NamesUnique(users) /\ Accounts \subseteq Users
      BY <1>0, <2>4 DEF TypeOK, Accounts, AccountsOf
    <3>3. ASSUME NEW v \in Accounts, NEW w \in Accounts, users'[v].name = users'[w].name
          PROVE  v = w
      <4>1. CASE v # u /\ w # u
        BY <2>4, <3>2, <3>3, <4>1 DEF NamesUnique, Accounts
      <4>2. CASE v = u \/ w = u
        BY <2>1, <2>4, <3>2, <3>3, <4>2
      <4> QED
        BY <4>1, <4>2
    <3> QED
      BY <3>1, <3>2, <3>3 DEF NamesUnique
  <2>6. "users" \in raced' \/ ActiveAdminRemains'
    <3>1. SUFFICES ASSUME "users" \notin raced' PROVE ActiveAdmins' # {}
      BY DEF ActiveAdminRemains
    <3>2. "users" \notin raced /\ r \notin stale
      BY <1>0, <2>1, <3>1, WroteTypes DEF Table, Settings, UserKinds
    <3>3. \A v \in ActiveAdmins \ {u} : v \in ActiveAdmins'
      BY <2>4 DEF ActiveAdmins, ActiveAdminsOf, Accounts, AccountsOf
    <3>4. CASE Retires(job[r], cur[r])
      BY <1>0, <3>2, <3>3, <3>4, WriteFacts
    <3>5. CASE ~Retires(job[r], cur[r])
      <4>1. row.role = "admin" /\ row.active
        BY <1>0, <3>5 DEF Retires, UpdatedRow
      <4> QED
        BY <2>1, <2>4, <4>1, ZenonT(40) DEF ActiveAdmins, ActiveAdminsOf, Accounts
    <3> QED
      BY <3>4, <3>5
  <2>7. \A k \in Settings : author[k] \in Accounts' \cup {Nobody}
    BY <1>0, <2>4 DEF TypeOK
  <2> QED
    BY <1>0, <2>1, <2>4, <2>5, <2>6, <2>7, UsersWriteInv DEF Started, TypeOK
<1> QED
  BY <1>1, <1>2

LEMMA DeleteInv ==
    ASSUME IInv, NEW r \in Requests, DeleteUser(r)
    PROVE  IInv'
<1> DEFINE u == job[r].user
<1>0. TypeOK /\ pc[r] = "write" /\ job[r].kind = "delete" /\ job[r].kind \in UserKinds
  BY DEF IInv, DeleteUser, UserKinds
<1>1. CASE Answer(r)
  BY <1>1, AnswerInv
<1>2. CASE ~Answer(r)
  <2>1. /\ u \in Accounts /\ \A k \in Settings : author[k] # u
        /\ users' = [users EXCEPT ![u] = Deleted]
        /\ Wrote(r) /\ Finish(r) /\ UNCHANGED <<settings, author, tokens, calls>>
    BY <1>2 DEF DeleteUser
  <2>2. u \in Users
    BY <1>0, WriteFacts
  <2>3. /\ Accounts' = Accounts \ {u} /\ users' \in [Users -> Entry]
        /\ \A v \in Users \ {u} : users'[v] = users[v]
    BY <1>0, <2>1, <2>2, AccountsAssumption DEF Accounts, AccountsOf, TypeOK, Entry
  <2>4. NamesUnique(users)'
    BY <1>0, <2>3 DEF TypeOK, NamesUnique, Accounts, AccountsOf
  <2>5. "users" \in raced' \/ ActiveAdmins' # {}
    <3>1. SUFFICES ASSUME "users" \notin raced' PROVE ActiveAdmins' # {}
      OBVIOUS
    <3>2. "users" \notin raced /\ r \notin stale
      BY <1>0, <2>1, <3>1, WroteTypes DEF Table, Settings, UserKinds
    <3>3. \A v \in ActiveAdmins \ {u} : v \in ActiveAdmins'
      BY <2>3 DEF ActiveAdmins, ActiveAdminsOf, Accounts, AccountsOf
    <3>4. Retires(job[r], cur[r])
      BY <1>0 DEF Retires
    <3> QED
      BY <1>0, <3>2, <3>3, <3>4, WriteFacts
  <2>6. "users" \in raced' \/ ActiveAdminRemains'
    BY <2>5 DEF ActiveAdminRemains
  <2>7. Started'
    BY <2>5 DEF Started, ActiveAdmins, ActiveAdminsOf, Accounts
  <2>8. \A k \in Settings : author[k] \in Accounts' \cup {Nobody}
    BY <1>0, <2>1, <2>3 DEF TypeOK
  <2> QED
    BY <1>0, <2>1, <2>3, <2>4, <2>6, <2>7, <2>8, UsersWriteInv DEF TypeOK
<1> QED
  BY <1>1, <1>2

LEMMA SettingsInv ==
    ASSUME IInv, NEW r \in Requests, WriteSettings(r)
    PROVE  IInv'
<1> DEFINE k == job[r].kind
           row == Patched(cur[r], job[r].patch)
<1>0. TypeOK /\ ReadHolds(r) /\ pc[r] = "write" /\ k \in Settings
  BY DEF IInv, WriteSettings
<1>1. CASE Answer(r)
  BY <1>1, AnswerInv
<1>2. CASE ~Answer(r)
  <2>1. /\ actor[r] \in Accounts /\ settings' = [settings EXCEPT ![k] = row]
        /\ author' = [author EXCEPT ![k] = actor[r]]
        /\ Wrote(r) /\ Finish(r) /\ UNCHANGED <<users, tokens, calls>>
    BY <1>2 DEF WriteSettings
  <2>2. (k = "runtime" => row \in Runtime) /\ (k = "media" => row \in Media)
    BY <1>0, JobFacts, PatchedTypes DEF ReadHolds
  <2>3. /\ settings' \in [Settings -> Runtime \cup Media]
        /\ settings'["runtime"] \in Runtime /\ settings'["media"] \in Media
        /\ \A m \in Settings \ {k} : settings'[m] = settings[m]
    BY <1>0, <2>1, <2>2 DEF TypeOK, Settings
  <2>4. author' \in [Settings -> Accounts' \cup {Nobody}]
    BY <1>0, <2>1 DEF TypeOK, Accounts
  <2>5. TypeOK'
    BY <1>0, <2>1, <2>3, <2>4, FinishTypes, WroteTypes DEF TypeOK, Accounts
  <2>6. Started => Started'
    BY <1>0, <2>1, WroteTypes DEF Started, Accounts
  <2>7. LastAdminNeedsOverlap' /\ (tokens' # {} => Started')
    BY <1>0, <2>1, <2>6, WroteTypes
       DEF IInv, LastAdminNeedsOverlap, ActiveAdminRemains, Accounts, ActiveAdmins
  <2>8. ReadHolds(r)'
    BY <1>0, <2>1, FinishTypes DEF ReadHolds, Default, UserKinds, AdminKinds, Settings
  <2>9. ASSUME NEW q \in Requests \ {r} PROVE ReadHolds(q)'
    <3>1. q \notin stale' /\ Reading(q) => Table(q) # k
      BY <1>0, <2>1, WroteTypes DEF Table
    <3>2. q \in stale => q \in stale'
      BY <1>0, <2>1, WroteTypes
    <3>3. ReadHolds(q) /\ /\ pc'[q] = pc[q] /\ job'[q] = job[q] /\ actor'[q] = actor[q]
                          /\ cur'[q] = cur[q] /\ (empty'[q] <=> empty[q])
      BY <1>0, <2>1, FinishTypes DEF IInv
    <3> QED
      BY <2>1, <2>3, <2>6, <3>1, <3>2, <3>3, ReadKept
  <2> QED
    BY <2>5, <2>7, <2>8, <2>9 DEF IInv
<1> QED
  BY <1>1, <1>2

\* Every step keeps the inductive invariant.
LEMMA NextInv == IInv /\ [Next]_vars => IInv'
<1> SUFFICES ASSUME IInv, [Next]_vars PROVE IInv'
  OBVIOUS
<1>1. CASE UNCHANGED vars
  BY <1>1 DEF vars, tables, locals, history, IInv, TypeOK, Accounts, ActiveAdmins,
     LastAdminNeedsOverlap, ActiveAdminRemains, Started, ReadHolds
<1>2. ASSUME NEW u \in Users, Login(u) \/ Expire(u) PROVE IInv'
  BY <1>2, TokensInv
<1>3. ASSUME NEW r \in Requests,
             \/ Register(r) \/ Administer(r) \/ GiveUp(r) \/ HangUp(r)
             \/ CheckPolicy(r) \/ Send(r) \/ LookUp(r) \/ CountUsers(r) \/ Insert(r)
             \/ ReadUser(r) \/ CountAdmins(r) \/ UpdateUser(r) \/ DeleteUser(r)
             \/ ReadSettings(r) \/ WriteSettings(r)
      PROVE  IInv'
  <2>1. CASE Register(r) \/ Administer(r)
    BY <2>1, CallInv
  <2>2. CASE GiveUp(r)
    BY <2>2, AnswerInv DEF GiveUp
  <2>3. CASE HangUp(r)
    BY <2>3, HangUpInv
  <2>4. CASE CheckPolicy(r) \/ Send(r) \/ LookUp(r) \/ CountUsers(r)
    BY <2>4, RegisterStepsInv
  <2>5. CASE Insert(r)
    BY <2>5, InsertInv
  <2>6. CASE ReadUser(r) \/ CountAdmins(r) \/ ReadSettings(r)
    BY <2>6, ReadStepsInv
  <2>7. CASE UpdateUser(r)
    BY <2>7, UpdateInv
  <2>8. CASE DeleteUser(r)
    BY <2>8, DeleteInv
  <2>9. CASE WriteSettings(r)
    BY <2>9, SettingsInv
  <2> QED
    BY <1>3, <2>1, <2>2, <2>3, <2>4, <2>5, <2>6, <2>7, <2>8, <2>9
<1> QED
  BY <1>1, <1>2, <1>3 DEF Next

-----------------------------------------------------------------------------
(* Who changes the tables *)

\* The users table changes by the insert of a new row, and by the update and the
\* deletion of the row that a request names.
LEMMA UsersChange ==
    ASSUME IInv, [Next]_vars, users' # users
    PROVE  \/ \E u \in Users : \E row : users[u] = Unborn /\ users' = [users EXCEPT ![u] = row]
           \/ \E r \in Requests :
                /\ pc[r] = "write" /\ job[r].kind = "update"
                /\ users' = [users EXCEPT ![job[r].user] = UpdatedRow(r, users[job[r].user])]
           \/ \E r \in Requests :
                /\ pc[r] = "write" /\ job[r].kind = "delete"
                /\ users' = [users EXCEPT ![job[r].user] = Deleted]
<1>1. ~UNCHANGED vars /\ \A r \in Requests : ~Answer(r)
  BY DEF vars, tables, Answer
<1>2. ASSUME NEW u \in Users, Login(u) \/ Expire(u) PROVE FALSE
  BY <1>2 DEF Login, Expire, tables
<1>3. ASSUME NEW r \in Requests,
             \/ Register(r) \/ Administer(r) \/ GiveUp(r) \/ HangUp(r)
             \/ CheckPolicy(r) \/ Send(r) \/ LookUp(r) \/ CountUsers(r)
             \/ ReadUser(r) \/ CountAdmins(r) \/ ReadSettings(r) \/ WriteSettings(r)
      PROVE  FALSE
  <2>1. CASE Register(r) \/ Administer(r) \/ GiveUp(r) \/ HangUp(r)
    BY <1>1, <2>1 DEF Register, Administer, Call, GiveUp, HangUp, tables
  <2>2. CASE CheckPolicy(r) \/ Send(r) \/ LookUp(r) \/ CountUsers(r)
    BY <1>1, <2>2 DEF CheckPolicy, Send, LookUp, CountUsers, tables
  <2>3. CASE ReadUser(r) \/ CountAdmins(r) \/ ReadSettings(r) \/ WriteSettings(r)
    BY <1>1, <2>3 DEF ReadUser, CountAdmins, ReadSettings, WriteSettings, tables
  <2> QED
    BY <1>3, <2>1, <2>2, <2>3
<1>4. PICK r \in Requests : Insert(r) \/ UpdateUser(r) \/ DeleteUser(r)
  BY <1>1, <1>2, <1>3 DEF Next
<1>5. CASE Insert(r)
  BY <1>1, <1>5 DEF Insert
<1>6. CASE UpdateUser(r)
  BY <1>1, <1>6 DEF UpdateUser
<1>7. CASE DeleteUser(r)
  BY <1>1, <1>7 DEF DeleteUser
<1> QED
  BY <1>4, <1>5, <1>6, <1>7

\* A settings row changes by the write of a request for it.
LEMMA SettingsChange ==
    ASSUME IInv, [Next]_vars, settings' # settings
    PROVE  \E r \in Requests :
             /\ pc[r] = "write" /\ job[r].kind \in Settings
             /\ settings' = [settings EXCEPT ![job[r].kind] = Patched(cur[r], job[r].patch)]
<1>1. ~UNCHANGED vars /\ \A r \in Requests : ~Answer(r)
  BY DEF vars, tables, Answer
<1>2. ASSUME NEW u \in Users, Login(u) \/ Expire(u) PROVE FALSE
  BY <1>2 DEF Login, Expire, tables
<1>3. ASSUME NEW r \in Requests,
             \/ Register(r) \/ Administer(r) \/ GiveUp(r) \/ HangUp(r)
             \/ CheckPolicy(r) \/ Send(r) \/ LookUp(r) \/ CountUsers(r) \/ Insert(r)
             \/ ReadUser(r) \/ CountAdmins(r) \/ UpdateUser(r) \/ DeleteUser(r)
             \/ ReadSettings(r)
      PROVE  FALSE
  <2>1. CASE Register(r) \/ Administer(r) \/ GiveUp(r) \/ HangUp(r)
    BY <1>1, <2>1 DEF Register, Administer, Call, GiveUp, HangUp, tables
  <2>2. CASE CheckPolicy(r) \/ Send(r) \/ LookUp(r) \/ CountUsers(r) \/ Insert(r)
    BY <1>1, <2>2 DEF CheckPolicy, Send, LookUp, CountUsers, Insert, tables
  <2>3. CASE ReadUser(r) \/ CountAdmins(r) \/ UpdateUser(r) \/ DeleteUser(r) \/ ReadSettings(r)
    BY <1>1, <2>3 DEF ReadUser, CountAdmins, UpdateUser, DeleteUser, ReadSettings, tables
  <2> QED
    BY <1>3, <2>1, <2>2, <2>3
<1>4. PICK r \in Requests : WriteSettings(r)
  BY <1>1, <1>2, <1>3 DEF Next
<1> QED
  BY <1>1, <1>4 DEF WriteSettings

\* The account of the main admin loses its rank to no request that knew its name.
LEMMA MainAdminStep ==
    ASSUME IInv, [Next]_vars, NEW u \in ActiveAdmins, IsMain(users[u])
    PROVE  \/ users'[u] \in Row /\ ActiveAdmin(users'[u])
           \/ \E r \in stale : job[r].kind \in {"update", "delete"} /\ job[r].user = u
                               /\ ~IsMain(cur[r])
<1>0. TypeOK /\ u \in Users /\ users[u] \in Row /\ ActiveAdmin(users[u]) /\ stale \subseteq Requests
  BY DEF IInv, TypeOK, ActiveAdmins, ActiveAdminsOf, AccountsOf, ActiveAdmin
<1>1. CASE users'[u] = users[u]
  BY <1>0, <1>1
<1>2. CASE users'[u] # users[u]
  <2>1. PICK r \in Requests :
          /\ pc[r] = "write" /\ job[r].kind \in UserKinds /\ job[r].user = u
          /\ \/ job[r].kind = "delete"
             \/ job[r].kind = "update" /\ users'[u] = UpdatedRow(r, users[u])
    BY <1>0, <1>2, UsersChange, AccountsAssumption DEF TypeOK, UserKinds
  <2>2. /\ cur[r] \in Row /\ (IsMain(cur[r]) => ~Retires(job[r], cur[r]))
        /\ r \notin stale => users[u] = cur[r]
    BY <2>1, WriteFacts
  <2>3. CASE IsMain(cur[r])
    <3>1. job[r].kind = "update" /\ ~Retires(job[r], cur[r])
      BY <2>1, <2>2, <2>3 DEF Retires
    <3>2. users'[u] = UpdatedRow(r, users[u]) /\ users'[u].role = "admin" /\ users'[u].active
      BY <2>1, <3>1 DEF Retires, UpdatedRow
    <3>3. users'[u] \in Row
      <4>1. job[r].patch \in UserPatch
        BY <1>0, <3>1, JobFacts
      <4>2. (IF job[r].patch.name = Keep THEN users[u].name ELSE job[r].patch.name) \in Names
        BY <1>0, <4>1 DEF Row, UserPatch
      <4> QED
        BY <2>2, <3>2, <4>1, <4>2, NextTypes DEF UpdatedRow, Row
    <3> QED
      BY <3>2, <3>3 DEF ActiveAdmin
  <2>4. CASE ~IsMain(cur[r])
    BY <2>1, <2>2, <2>4 DEF UserKinds
  <2> QED
    BY <2>3, <2>4
<1> QED
  BY <1>1, <1>2

\* A patch that is not stale changes what it names and no more.
LEMMA PatchStep ==
    ASSUME IInv, [Next]_vars
    PROVE  /\ \A u \in Users :
                users[u] \in Row /\ users'[u] \in Row /\ users'[u] # users[u] =>
                  \E r \in Requests :
                     /\ job[r].kind = "update" /\ job[r].user = u
                     /\ r \in stale \/ \A f \in DOMAIN users[u] :
                                         job[r].patch[f] = Keep => users'[u][f] = users[u][f]
           /\ \A k \in Settings :
                settings'[k] # settings[k] =>
                  \E r \in Requests :
                     /\ job[r].kind = k
                     /\ r \in stale \/ \A f \in DOMAIN settings[k] :
                                         job[r].patch[f] = Keep => settings'[k][f] = settings[k][f]
<1>0. TypeOK
  BY DEF IInv
<1>1. ASSUME NEW u \in Users, users[u] \in Row, users'[u] \in Row, users'[u] # users[u]
      PROVE  \E r \in Requests :
               /\ job[r].kind = "update" /\ job[r].user = u
               /\ r \in stale \/ \A f \in DOMAIN users[u] :
                                   job[r].patch[f] = Keep => users'[u][f] = users[u][f]
  <2>1. PICK r \in Requests :
          /\ pc[r] = "write" /\ job[r].kind = "update" /\ job[r].user = u
          /\ users'[u] = UpdatedRow(r, users[u])
    BY <1>0, <1>1, UsersChange, AccountsAssumption DEF TypeOK
  <2>2. r \notin stale => users[u] = cur[r]
    BY <2>1, WriteFacts DEF UserKinds
  <2>3. ASSUME r \notin stale, NEW f \in DOMAIN users[u], job[r].patch[f] = Keep
        PROVE  users'[u][f] = users[u][f]
    <3>1. f \in {"name", "role", "active"}
      BY <1>1, <2>3 DEF Row
    <3> QED
      BY <2>1, <2>2, <2>3, <3>1 DEF UpdatedRow, NextRole, NextActive
  <2> QED
    BY <2>1, <2>3
<1>2. ASSUME NEW k \in Settings, settings'[k] # settings[k]
      PROVE  \E r \in Requests :
               /\ job[r].kind = k
               /\ r \in stale \/ \A f \in DOMAIN settings[k] :
                                   job[r].patch[f] = Keep => settings'[k][f] = settings[k][f]
  <2>1. PICK r \in Requests :
          /\ pc[r] = "write" /\ job[r].kind = k
          /\ settings'[k] = Patched(cur[r], job[r].patch)
    BY <1>0, <1>2, SettingsChange DEF TypeOK
  <2>2. r \notin stale => cur[r] = settings[k]
    BY <2>1 DEF IInv, ReadHolds
  <2> QED
    BY <2>1, <2>2 DEF Patched
<1> QED
  BY <1>1, <1>2

-----------------------------------------------------------------------------
(* Theorems *)

\* The inductive invariant holds in every reachable state.
THEOREM Invariance == Spec => []IInv
BY InitInv, NextInv, PTL DEF Spec

\* The tables and the locals of the handlers keep their types, usernames stay
\* unique, and the settings never refer to a deleted account.
THEOREM TypeCorrect == Spec => []TypeOK
BY Invariance, PTL DEF IInv

\* As long as no request has written the users table on the strength of a stale
\* read, a server with accounts has an active admin, whoever registers, is
\* appointed, demoted, renamed or deleted.
THEOREM AdminRemains == Spec => []LastAdminNeedsOverlap
BY Invariance, PTL DEF IInv

\* The rank of the main admin is lost only to a request that read the account
\* under another name.
THEOREM MainAdminKept == Spec => MainAdminProtected
<1>1. IInv /\ [Next]_vars =>
        [\A u \in ActiveAdmins :
          IsMain(users[u]) =>
            \/ users'[u] \in Row /\ ActiveAdmin(users'[u])
            \/ \E r \in stale : job[r].kind \in {"update", "delete"} /\ job[r].user = u
                                /\ ~IsMain(cur[r])]_vars
  BY MainAdminStep
<1> QED
  BY <1>1, Invariance, PTL DEF Spec, MainAdminProtected

\* A change of an account or of a settings row keeps the fields its patch leaves
\* out, unless the row was changed after it was read.
THEOREM PatchesKeepRest == Spec => PatchKeepsRest
<1>1. IInv /\ [Next]_vars =>
        [/\ \A u \in Users :
              users[u] \in Row /\ users'[u] \in Row /\ users'[u] # users[u] =>
                \E r \in Requests :
                   /\ job[r].kind = "update" /\ job[r].user = u
                   /\ r \in stale \/ \A f \in DOMAIN users[u] :
                                       job[r].patch[f] = Keep => users'[u][f] = users[u][f]
         /\ \A k \in Settings :
              settings'[k] # settings[k] =>
                \E r \in Requests :
                   /\ job[r].kind = k
                   /\ r \in stale \/ \A f \in DOMAIN settings[k] :
                                       job[r].patch[f] = Keep => settings'[k][f] = settings[k][f]]_vars
  BY PatchStep
<1> QED
  BY <1>1, Invariance, PTL DEF Spec, PatchKeepsRest
=============================================================================
