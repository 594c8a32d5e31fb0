----------------------------- MODULE Accounts ------------------------------
(***************************************************************************)
(* Accounts and settings: registration (services/gateway/src/routes/auth.rs*)
(* and services/auth/src/server.rs) and the admin's requests               *)
(* (services/gateway/src/routes/settings.rs, admin_control.rs and          *)
(* media_processing.rs).                                                   *)
(*                                                                         *)
(* Every handler is a few SQL statements without a transaction: it reads,  *)
(* decides, and writes what it decided.  One action is one statement, so   *)
(* requests interleave between them.  A username stands for the username   *)
(* and the email of an account: both are unique, both refuse alike.        *)
(* Passwords and the texts of the settings are left out.                   *)
(***************************************************************************)
EXTENDS Naturals, FiniteSets

CONSTANTS
    Users, Names, Requests, Gateways,
    MainNames,      \* spellings of MAIN_ADMIN_USERNAME, whatever the case
    Unborn, Deleted,\* an id with no row yet, an id whose row is gone
    Keep,           \* a field that a patch does not name
    Nobody,         \* no updated_by
    InitialUsers,   \* the users table at the start: a set of [Users -> Entry]
    Jobs,           \* what clients ask for
    MaxCalls        \* bound on the requests made

Roles == {"admin", "user"}
Row == [name: Names, role: Roles, active: BOOLEAN]
Entry == Row \cup {Unborn, Deleted}
Runtime == [maintenance: BOOLEAN, open: BOOLEAN, defaultRole: Roles]
Media == [pretranscode: BOOLEAN, prehls: BOOLEAN]
Settings == {"runtime", "media"}

UserPatch == [name: Names \cup {Keep}, role: Roles \cup {Keep}, active: BOOLEAN \cup {Keep}]
RuntimePatch == [maintenance: BOOLEAN \cup {Keep}, open: BOOLEAN \cup {Keep},
                 defaultRole: Roles \cup {Keep}]
MediaPatch == [pretranscode: BOOLEAN \cup {Keep}, prehls: BOOLEAN \cup {Keep}]

Job == [kind: {"register"}, gw: Gateways, name: Names]
       \cup [kind: {"create"}, row: Row]
       \cup [kind: {"update"}, user: Users, patch: UserPatch]
       \cup [kind: {"delete"}, user: Users]
       \cup [kind: {"runtime"}, patch: RuntimePatch]
       \cup [kind: {"media"}, patch: MediaPatch]

\* Rows of a table of users, and those who may use the admin panel.
AccountsOf(table) == {u \in Users : table[u] \in Row}
ActiveAdminsOf(table) == {u \in AccountsOf(table) : table[u].role = "admin" /\ table[u].active}

\* Usernames are unique in the database.
NamesUnique(table) ==
    \A u, v \in AccountsOf(table) : table[u].name = table[v].name => u = v

ASSUME AccountsAssumption ==
    /\ MainNames \subseteq Names
    /\ Unborn \notin Row /\ Deleted \notin Row /\ Unborn # Deleted
    /\ Keep \notin Names /\ Keep \notin Roles /\ Keep \notin BOOLEAN
    /\ Nobody \notin Users
    /\ Jobs \subseteq Job
    /\ \A table \in InitialUsers :
         /\ table \in [Users -> Row \cup {Unborn}] /\ NamesUnique(table)
         /\ AccountsOf(table) # {} => ActiveAdminsOf(table) # {}
    /\ MaxCalls \in Nat

VARIABLES
    users,      \* the users table
    settings,   \* the two settings rows
    author,     \* their updated_by
    tokens,     \* users with a live access token that says admin
    pc,         \* the statement each request is at
    job,        \* what each request asks for
    actor,      \* the user whose token an admin's request carries
    cur,        \* the row a handler has read
    empty,      \* [Requests -> BOOLEAN]: register counted no users
    held,       \* register requests that hold the auth client of their gateway
    stale,      \* history: requests whose table has changed since they read it
    raced,      \* history: tables that a stale request has written
    calls

tables == <<users, settings, author>>
locals == <<job, actor, cur, empty>>
history == <<stale, raced>>
vars == <<tables, tokens, pc, locals, held, history, calls>>

-----------------------------------------------------------------------------
Accounts == AccountsOf(users)
ActiveAdmins == ActiveAdminsOf(users)
Default == [kind |-> "none"]
NoRow == [kind |-> "none"]

Stages == {"idle", "policy", "send", "lookup", "first", "insert", "read", "count", "write"}

TypeOK ==
    /\ users \in [Users -> Entry] /\ NamesUnique(users)
    /\ settings \in [Settings -> Runtime \cup Media]
    /\ settings["runtime"] \in Runtime /\ settings["media"] \in Media
    /\ author \in [Settings -> Accounts \cup {Nobody}]
    /\ tokens \subseteq Users
    /\ pc \in [Requests -> Stages]
    /\ job \in [Requests -> Jobs \cup {Default}]
    /\ actor \in [Requests -> Users \cup {Nobody}]
    /\ cur \in [Requests -> Row \cup Runtime \cup Media \cup {NoRow}]
    /\ empty \in [Requests -> BOOLEAN]
    /\ held \subseteq Requests /\ stale \subseteq Requests
    /\ raced \subseteq {"users"} \cup Settings
    /\ calls \in 0 .. MaxCalls

Init ==
    /\ users \in InitialUsers
    /\ settings = [k \in Settings |->
                     IF k = "runtime"
                     THEN [maintenance |-> FALSE, open |-> TRUE, defaultRole |-> "user"]
                     ELSE [pretranscode |-> TRUE, prehls |-> TRUE]]
    /\ author = [k \in Settings |-> Nobody]
    /\ tokens = {}
    /\ pc = [r \in Requests |-> "idle"]
    /\ job = [r \in Requests |-> Default]
    /\ actor = [r \in Requests |-> Nobody]
    /\ cur = [r \in Requests |-> NoRow]
    /\ empty = [r \in Requests |-> FALSE]
    /\ held = {} /\ stale = {} /\ raced = {} /\ calls = 0

\* The table a request writes.
Table(r) == IF job[r].kind \in Settings THEN job[r].kind ELSE "users"

\* Requests that have read the table and are still to write it.
Reading(q) ==
    \/ pc[q] \in {"count", "write"}
    \/ pc[q] = "insert" /\ job[q].kind = "register"

\* The history of a write: others are stale from now on, and a race is noted.
Wrote(r) ==
    /\ raced' = IF r \in stale THEN raced \cup {Table(r)} ELSE raced
    /\ stale' = (stale \cup {q \in Requests : Reading(q) /\ Table(q) = Table(r)}) \ {r}

Goto(r, stage) == pc' = [pc EXCEPT ![r] = stage]

\* The handler has answered, and its locals are gone.
Finish(r) ==
    /\ Goto(r, "idle")
    /\ job' = [job EXCEPT ![r] = Default]
    /\ actor' = [actor EXCEPT ![r] = Nobody]
    /\ cur' = [cur EXCEPT ![r] = NoRow]
    /\ empty' = [empty EXCEPT ![r] = FALSE]
    /\ held' = held \ {r}

Answer(r) == Finish(r) /\ stale' = stale \ {r} /\ UNCHANGED <<tables, tokens, raced, calls>>

-----------------------------------------------------------------------------
(* Tokens *)

\* login and refresh_token: an active account gets a token that says its role.
Login(u) ==
    /\ u \in Accounts /\ users[u].active
    /\ tokens' = IF users[u].role = "admin" THEN tokens \cup {u} ELSE tokens
    /\ UNCHANGED <<tables, pc, locals, held, history, calls>>

\* Tokens are not revoked: they say admin until they expire.
Expire(u) ==
    /\ u \in tokens
    /\ tokens' = tokens \ {u}
    /\ UNCHANGED <<tables, pc, locals, held, history, calls>>

-----------------------------------------------------------------------------
(* Requests *)

Call(r, j, stage) ==
    /\ pc[r] = "idle" /\ calls < MaxCalls
    /\ calls' = calls + 1
    /\ Goto(r, stage)
    /\ job' = [job EXCEPT ![r] = j]
    /\ UNCHANGED <<tables, tokens, cur, empty, held, history>>

Register(r) ==
    \E j \in Jobs : j.kind = "register" /\ Call(r, j, "policy") /\ UNCHANGED actor

\* auth_middleware and require_admin: the token decides, not the row.
\* update_admin_user refuses a patch that names no field.
Administer(r) ==
    \E j \in Jobs, a \in tokens :
        /\ j.kind # "register"
        /\ j.kind = "update" => \E f \in DOMAIN j.patch : j.patch[f] # Keep
        /\ Call(r, j, IF j.kind = "create" THEN "insert" ELSE "read")
        /\ actor' = [actor EXCEPT ![r] = a]

\* A statement fails, or the handler is dropped with its client's connection.
GiveUp(r) == pc[r] # "idle" /\ Answer(r)

\* The client of a register call hangs up: the gateway drops its handler, and the
\* lock with it, while the auth service is still at work.
HangUp(r) ==
    /\ r \in held
    /\ held' = held \ {r}
    /\ UNCHANGED <<tables, tokens, pc, locals, history, calls>>

-----------------------------------------------------------------------------
(* register *)

\* is_user_registration_open
CheckPolicy(r) ==
    /\ pc[r] = "policy"
    /\ IF settings["runtime"].open /\ ~settings["runtime"].maintenance
       THEN /\ Goto(r, "send")
            /\ UNCHANGED <<tables, tokens, locals, held, history, calls>>
       ELSE Answer(r)

\* state.auth_client.lock().await, held until the call returns.
Send(r) ==
    /\ pc[r] = "send"
    /\ \A q \in held : job[q].gw # job[r].gw
    /\ held' = held \cup {r}
    /\ Goto(r, "lookup")
    /\ UNCHANGED <<tables, tokens, locals, history, calls>>

\* find_by_username and find_by_email
LookUp(r) ==
    /\ pc[r] = "lookup"
    /\ IF \E u \in Accounts : users[u].name = job[r].name
       THEN Answer(r)
       ELSE /\ Goto(r, "first")
            /\ UNCHANGED <<tables, tokens, locals, held, history, calls>>

\* count_users
CountUsers(r) ==
    /\ pc[r] = "first"
    /\ empty' = [empty EXCEPT ![r] = (Accounts = {})]
    /\ Goto(r, "insert")
    /\ UNCHANGED <<tables, tokens, job, actor, cur, held, history, calls>>

\* The row to insert: the first registered user becomes admin.
NewRow(r) ==
    IF job[r].kind = "create" THEN job[r].row
    ELSE [name |-> job[r].name, role |-> IF empty[r] THEN "admin" ELSE "user", active |-> TRUE]

\* create_user and create_admin_user: INSERT, refused by the unique constraints.
\* register also returns tokens.
Insert(r) ==
    /\ pc[r] = "insert"
    /\ LET row == NewRow(r) IN
       IF \E u \in Accounts : users[u].name = row.name
       THEN Answer(r)
       ELSE \E u \in Users :
              /\ users[u] = Unborn
              /\ users' = [users EXCEPT ![u] = row]
              /\ tokens' = IF job[r].kind = "register" /\ row.role = "admin"
                           THEN tokens \cup {u} ELSE tokens
              /\ Wrote(r) /\ Finish(r)
              /\ UNCHANGED <<settings, author, calls>>

-----------------------------------------------------------------------------
(* update_admin_user and delete_admin_user *)

IsMain(row) == row.name \in MainNames
ActiveAdmin(row) == row.role = "admin" /\ row.active

\* The role and the status that a request leaves the account with.
NextRole(j, row) == IF j.patch.role = Keep THEN row.role ELSE j.patch.role
NextActive(j, row) == IF j.patch.active = Keep THEN row.active ELSE j.patch.active

\* The request takes the account out of the active admins, if it is one.
Retires(j, row) ==
    \/ j.kind = "delete"
    \/ NextRole(j, row) # "admin" \/ ~NextActive(j, row)

\* Mutant: the main admin is known by role, which every admin has.
ReadUserUnprotected(r) ==
    /\ pc[r] = "read" /\ job[r].kind \in {"update", "delete"}
    /\ LET row == users[job[r].user] IN
       IF row \notin Row
       THEN Answer(r)
       ELSE /\ cur' = [cur EXCEPT ![r] = row]
            /\ Goto(r, IF ActiveAdmin(row) /\ Retires(job[r], row) THEN "count" ELSE "write")
            /\ UNCHANGED <<tables, tokens, job, actor, empty, held, history, calls>>

\* get_user_minimal, and the rule of the main admin.
ReadUser(r) ==
    /\ pc[r] = "read" /\ job[r].kind \in {"update", "delete"}
    /\ LET row == users[job[r].user] IN
       IF row \notin Row \/ (IsMain(row) /\ Retires(job[r], row))
       THEN Answer(r)
       ELSE /\ cur' = [cur EXCEPT ![r] = row]
            /\ Goto(r, IF ActiveAdmin(row) /\ Retires(job[r], row) THEN "count" ELSE "write")
            /\ UNCHANGED <<tables, tokens, job, actor, empty, held, history, calls>>

\* Mutant: the account itself is counted.
CountAdminsAll(r) ==
    /\ pc[r] = "count"
    /\ IF ActiveAdmins = {}
       THEN Answer(r)
       ELSE /\ Goto(r, "write")
            /\ UNCHANGED <<tables, tokens, locals, held, history, calls>>

\* active_admin_count_excluding
CountAdmins(r) ==
    /\ pc[r] = "count"
    /\ IF ActiveAdmins \ {job[r].user} = {}
       THEN Answer(r)
       ELSE /\ Goto(r, "write")
            /\ UNCHANGED <<tables, tokens, locals, held, history, calls>>

\* Mutant: fields the patch leaves out are set to a new account's.
UpdatedRowReset(r, row) ==
    LET j == job[r] IN
    [name |-> IF j.patch.name = Keep THEN row.name ELSE j.patch.name,
     role |-> IF j.patch.role = Keep THEN "user" ELSE j.patch.role,
     active |-> IF j.patch.active = Keep THEN TRUE ELSE j.patch.active]

\* What UPDATE makes of a row: a name that is not given stays as it is, but role
\* and status are written back as they were read.
UpdatedRow(r, row) ==
    LET j == job[r] IN
    [name |-> IF j.patch.name = Keep THEN row.name ELSE j.patch.name,
     role |-> NextRole(j, cur[r]),
     active |-> NextActive(j, cur[r])]

\* UPDATE users: nothing is updated if the row is gone.
UpdateUser(r) ==
    /\ pc[r] = "write" /\ job[r].kind = "update"
    /\ LET u == job[r].user
           row == UpdatedRow(r, users[u]) IN
       IF \/ u \notin Accounts
          \/ \E v \in Accounts \ {u} : users[v].name = row.name
       THEN Answer(r)
       ELSE /\ users' = [users EXCEPT ![u] = row]
            /\ Wrote(r) /\ Finish(r)
            /\ UNCHANGED <<settings, author, tokens, calls>>

\* DELETE FROM users: refused by the foreign keys of the settings rows.
DeleteUser(r) ==
    /\ pc[r] = "write" /\ job[r].kind = "delete"
    /\ LET u == job[r].user IN
       IF u \notin Accounts \/ \E k \in Settings : author[k] = u
       THEN Answer(r)
       ELSE /\ users' = [users EXCEPT ![u] = Deleted]
            /\ Wrote(r) /\ Finish(r)
            /\ UNCHANGED <<settings, author, tokens, calls>>

-----------------------------------------------------------------------------
(* update_server_runtime_settings and update_media_processing_settings *)

ReadSettings(r) ==
    /\ pc[r] = "read" /\ job[r].kind \in Settings
    /\ cur' = [cur EXCEPT ![r] = settings[job[r].kind]]
    /\ Goto(r, "write")
    /\ UNCHANGED <<tables, tokens, job, actor, empty, held, history, calls>>

\* Mutant: the patch is stored as it comes.
PatchedRaw(row, patch) == [f \in DOMAIN row |-> patch[f]]

\* patch.field.unwrap_or(current.field)
Patched(row, patch) == [f \in DOMAIN row |-> IF patch[f] = Keep THEN row[f] ELSE patch[f]]

\* UPDATE of the whole row, refused by the foreign key if the admin is gone.
WriteSettings(r) ==
    /\ pc[r] = "write" /\ job[r].kind \in Settings
    /\ LET k == job[r].kind IN
       IF actor[r] \notin Accounts
       THEN Answer(r)
       ELSE /\ settings' = [settings EXCEPT ![k] = Patched(cur[r], job[r].patch)]
            /\ author' = [author EXCEPT ![k] = actor[r]]
            /\ Wrote(r) /\ Finish(r)
            /\ UNCHANGED <<users, tokens, calls>>

-----------------------------------------------------------------------------
Next ==
    \/ \E u \in Users : Login(u) \/ Expire(u)
    \/ \E r \in Requests :
        \/ Register(r) \/ Administer(r) \/ GiveUp(r) \/ HangUp(r)
        \/ CheckPolicy(r) \/ Send(r) \/ LookUp(r) \/ CountUsers(r) \/ Insert(r)
        \/ ReadUser(r) \/ CountAdmins(r) \/ UpdateUser(r) \/ DeleteUser(r)
        \/ ReadSettings(r) \/ WriteSettings(r)

Spec == Init /\ [][Next]_vars

-----------------------------------------------------------------------------
(* Properties *)

\* "At least one active admin account is required" (admin_control.rs:209-211 and
\* 375-382): a server with accounts keeps somebody who can administer it.
ActiveAdminRemains == Accounts # {} => ActiveAdmins # {}

\* The check and the write are two statements, so that rule, and the bootstrap
\* rule of register it starts from, hold as long as no request writes on the
\* strength of a users table that has changed since it was read.
LastAdminNeedsOverlap == "users" \in raced \/ ActiveAdminRemains

\* An update changes the fields its patch names and no other, in an account as in
\* a settings row, unless a change of the same table came between its statements
\* (role, status and every setting are written back as they were read).
PatchKeepsRest ==
    [][/\ \A u \in Users :
            users[u] \in Row /\ users'[u] \in Row /\ users'[u] # users[u] =>
              \E r \in Requests :
                 /\ job[r].kind = "update" /\ job[r].user = u
                 /\ r \in stale \/ \A f \in DOMAIN users[u] :
                                     job[r].patch[f] = Keep => users'[u][f] = users[u][f]
       /\ \A k \in Settings :
            settings'[k] # settings[k] =>
              \E r \in Requests :
                 /\ job[r].kind = k
                 /\ r \in stale \/ \A f \in DOMAIN settings[k] :
                                     job[r].patch[f] = Keep => settings'[k][f] = settings[k][f]
      ]_vars

\* "The main admin account cannot be demoted or deactivated" nor deleted
\* (admin_control.rs:196-200, 369-373): nothing takes the rank of an account that
\* bears the name, except an update that read the account under another name.
MainAdminProtected ==
    [][\A u \in ActiveAdmins :
          IsMain(users[u]) =>
            \/ users'[u] \in Row /\ ActiveAdmin(users'[u])
            \/ \E r \in stale : job[r].kind \in {"update", "delete"} /\ job[r].user = u
                                /\ ~IsMain(cur[r])]_vars
=============================================================================
