------------------------------ MODULE Profile ------------------------------
(***************************************************************************)
(* The profile page of the player application (pages/ProfilePage.tsx).     *)
(* The page does not know under which of several paths a server offers an  *)
(* operation, if it offers it at all, and tries one after the other.       *)
(* Answers are late or lost, the listener leaves the page and comes back,  *)
(* signs out and in again, and a handler that has begun goes on.  The      *)
(* user of the store and the one of localStorage are written together      *)
(* and are one variable.                                                   *)
(***************************************************************************)
EXTENDS Naturals, FiniteSets

CONSTANTS
    Accounts,     \* accounts by number
    Usernames,    \* usernames; an e-mail address goes with its name
    MaxTasks,     \* bound on the handlers begun
    MaxAtOnce,    \* bound on the handlers under way
    MaxMishaps    \* bound on failures and lost answers

ProfileAssumption ==
    /\ Accounts \subseteq Nat \ {0} /\ Accounts \subseteq Usernames
    /\ MaxTasks \in Nat /\ MaxAtOnce \in Nat /\ MaxMishaps \in Nat

VARIABLES
    offers,    \* the candidate paths the server knows, by number
    docs,      \* those under which it publishes legal documents
    names,     \* the accounts of the server: their names
    session,   \* the account whose token requests carry
    user,      \* the user of useAuthStore
    page,      \* the state of ProfilePage
    prefs,     \* accent, locale, density and the recently played tracks
    tasks,     \* the handlers under way
    started,   \* counter behind MaxTasks
    mishaps,   \* counter behind MaxMishaps
    crossed    \* history: a save began while another one was under way

vars == <<offers, docs, names, session, user, page, prefs, tasks, started, mishaps, crossed>>

-----------------------------------------------------------------------------
Nobody == 0                      \* no session, no account
Gone == 0                        \* the name of a deleted account
Kinds == {"meta", "save", "password", "reset", "delete"}
Paths == 1 .. 4

\* How many candidates a handler tries.
Candidates(kind) == CASE kind = "meta" -> 4
                      [] kind \in {"save", "password"} -> 3
                      [] OTHER -> 2

User == [id: Accounts \cup {Nobody}, name: Usernames \cup {Gone}]
NoneSigned == [id |-> Nobody, name |-> Gone]
Told == {"none", "success", "error"}

\* What the page says of the last handler of a kind; "saving", "changing" and
\* "running" are its three busy flags, and done is history: how often the last success
\* was done.
Page == [open: BOOLEAN, profile: Told, password: Told, account: Told,
         saving: BOOLEAN, changing: BOOLEAN, running: BOOLEAN,
         meta: {"loading", "found", "fallback", "failed"}, done: 0 .. 2]
Closed == [open |-> FALSE, profile |-> "none", password |-> "none",
           account |-> "none", saving |-> FALSE, changing |-> FALSE, running |-> FALSE,
           meta |-> "loading", done |-> 0]

\* here: the page that began the handler is open; token: the session of its request;
\* done: history, how often the server has done what it asks.
Task == [n: 1 .. MaxTasks, kind: Kinds, value: Usernames \cup {Gone}, path: Paths, here: BOOLEAN,
         token: Accounts \cup {Nobody}, done: 0 .. 2,
         answer: {"none", "ok", "void", "absent", "denied", "error"}]

TypeOK ==
    /\ offers \subseteq Paths /\ docs \subseteq Paths
    /\ names \in [Accounts -> Usernames \cup {Gone}]
    /\ session \in Accounts \cup {Nobody} /\ user \in User
    /\ page \in Page /\ (page.open => session # Nobody)
    /\ prefs \in {"default", "chosen"}
    /\ tasks \subseteq Task /\ \A s, t \in tasks : s.n = t.n => s = t
    /\ started \in 0 .. MaxTasks /\ mishaps \in 0 .. MaxMishaps /\ crossed \in BOOLEAN

Signed(a) == [id |-> a, name |-> names[a]]

\* A server that offers nothing but publishes documents, and one that knows some of the
\* paths; the gateway of this repository offers and publishes nothing.  The listener has
\* opened the page.
Init ==
    /\ offers \in {{}, {2, 3}} /\ docs = IF offers = {} THEN {4} ELSE {}
    /\ names = [a \in Accounts |-> a]
    /\ session \in Accounts /\ user = Signed(session)
    /\ page = [Closed EXCEPT !.open = TRUE, !.meta = IF docs = {} THEN "fallback" ELSE "found"]
    /\ prefs = "chosen" /\ tasks = {}
    /\ started = 0 /\ mishaps = 0 /\ crossed = FALSE

-----------------------------------------------------------------------------
(* The page *)

Begin(kind, value) ==
    /\ started < MaxTasks /\ Cardinality(tasks) < MaxAtOnce /\ started' = started + 1
    /\ tasks' = tasks \cup {[n |-> started + 1, kind |-> kind, value |-> value, path |-> 1,
                             here |-> TRUE, token |-> session, done |-> 0, answer |-> "none"]}

\* ProfilePage is mounted, and loadPageMeta begins.
Visit ==
    /\ session # Nobody /\ ~page.open
    /\ page' = [Closed EXCEPT !.open = TRUE]
    /\ Begin("meta", Gone)
    /\ UNCHANGED <<offers, docs, names, session, user, prefs, mishaps, crossed>>

LeftBehind == {[t EXCEPT !.here = FALSE] : t \in tasks}

Leave ==
    /\ page.open /\ page' = Closed /\ tasks' = LeftBehind
    /\ UNCHANGED <<offers, docs, names, session, user, prefs, started, mishaps, crossed>>

\* logout, of the page or of anybody else, unmounts it.
SignOut ==
    /\ session # Nobody
    /\ session' = Nobody /\ user' = NoneSigned /\ page' = Closed /\ tasks' = LeftBehind
    /\ UNCHANGED <<offers, docs, names, prefs, started, mishaps, crossed>>

SignIn(a) ==
    /\ session = Nobody /\ names[a] # Gone
    /\ session' = a /\ user' = Signed(a)
    /\ UNCHANGED <<offers, docs, names, page, prefs, tasks, started, mishaps, crossed>>

\* With what the form holds, which is the user of the store until something is typed.
SaveProfile(name) ==
    /\ page.open /\ ~page.saving
    /\ page' = [page EXCEPT !.saving = TRUE, !.profile = "none"]
    /\ Begin("save", name)
    /\ crossed' = (crossed \/ \E t \in tasks : t.kind = "save")
    /\ UNCHANGED <<offers, docs, names, session, user, prefs, mishaps>>

\* An empty new password, or one that is not confirmed, is not sent.
ChangePassword(valid) ==
    /\ page.open /\ ~page.changing
    /\ IF valid
       THEN /\ page' = [page EXCEPT !.changing = TRUE, !.password = "none"]
            /\ Begin("password", Gone)
       ELSE page' = [page EXCEPT !.password = "error"] /\ UNCHANGED <<tasks, started>>
    /\ UNCHANGED <<offers, docs, names, session, user, prefs, mishaps, crossed>>

\* handleResetAccount and handleDeleteAccount share a flag.
AccountAction(kind) ==
    /\ page.open /\ ~page.running /\ kind \in {"reset", "delete"}
    /\ page' = [page EXCEPT !.running = TRUE, !.account = "none"]
    /\ Begin(kind, Gone)
    /\ UNCHANGED <<offers, docs, names, session, user, prefs, mishaps, crossed>>

-----------------------------------------------------------------------------
(* The server *)

Put(t, u) == tasks' = (tasks \ {t}) \cup {u}

\* The statuses 404, 405 and 501, of a path the server does not know.  It denies a
\* request of nobody, and of an account that is gone.
Barred(t) == IF t.token = Nobody THEN TRUE ELSE names[t.token] = Gone

Refuse(t) ==
    /\ t.answer = "none"
    /\ \/ t.kind # "meta" /\ t.path \notin offers /\ Put(t, [t EXCEPT !.answer = "absent"])
       \/ Barred(t) /\ Put(t, [t EXCEPT !.answer = "denied"])
    /\ UNCHANGED <<offers, docs, names, session, user, page, prefs, started, mishaps, crossed>>

\* A path it knows: done once more.  A deletion has an empty answer, as 204 has; or the
\* answer is lost.
Do(t) ==
    /\ t.answer = "none" /\ t.kind # "meta" /\ ~Barred(t) /\ t.path \in offers
    /\ t.done < 2
    /\ names' = CASE t.kind = "save" -> [names EXCEPT ![t.token] = t.value]
                  [] t.kind = "delete" -> [names EXCEPT ![t.token] = Gone]
                  [] OTHER -> names
    /\ \/ /\ \E how \in {"ok", "void"} :
               /\ t.kind = "save" => how = "ok"
               /\ Put(t, [t EXCEPT !.answer = how, !.done = @ + 1])
          /\ UNCHANGED mishaps
       \/ /\ mishaps < MaxMishaps /\ mishaps' = mishaps + 1
          /\ Put(t, [t EXCEPT !.answer = "error", !.done = @ + 1])
    /\ UNCHANGED <<offers, docs, session, user, page, prefs, started, crossed>>

\* The documents: there, or another answer, or a failure, also of the catalog's lists.
Look(t) ==
    /\ t.answer = "none" /\ t.kind = "meta" /\ ~Barred(t)
    /\ \/ /\ Put(t, [t EXCEPT !.answer = IF t.path \in docs THEN "ok" ELSE "absent"])
          /\ UNCHANGED mishaps
       \/ /\ mishaps < MaxMishaps /\ mishaps' = mishaps + 1
          /\ \E how \in {"error", "denied"} : Put(t, [t EXCEPT !.answer = how])
    /\ UNCHANGED <<offers, docs, names, session, user, page, prefs, started, crossed>>

\* It fails before it has done anything.
Fail(t) ==
    /\ t.answer = "none" /\ t.kind # "meta" /\ mishaps < MaxMishaps /\ mishaps' = mishaps + 1
    /\ \E how \in {"error", "denied"} : Put(t, [t EXCEPT !.answer = how])
    /\ UNCHANGED <<offers, docs, names, session, user, page, prefs, started, crossed>>

-----------------------------------------------------------------------------
(* The answers *)

\* Mutant: whatever goes wrong, the next path is tried.
GoesOnAlways(t) == t.answer \in {"absent", "error"} /\ t.path < Candidates(t.kind)

\* runApiMutation tries the next path only where nothing was done; fetchLegalDocs after
\* any failure but a denial.
GoesOn(t) ==
    /\ t.path < Candidates(t.kind)
    /\ \/ t.answer = "absent"
       \/ t.kind = "meta" /\ t.answer = "error"

\* The next request carries the token of its moment.
TryNext(t) ==
    /\ t.answer # "none" /\ GoesOn(t)
    /\ Put(t, [t EXCEPT !.path = @ + 1, !.answer = "none", !.token = session])
    /\ UNCHANGED <<offers, docs, names, session, user, page, prefs, started, mishaps, crossed>>

Ended(t) == t.answer # "none" /\ ~GoesOn(t)
Over(t) == tasks' = tasks \ {t}
Shown(t, p) == page' = IF t.here THEN p ELSE page

\* loadPageMeta: all or nothing.
MetaLoaded(t) ==
    /\ Ended(t) /\ t.kind = "meta" /\ t.answer # "denied"
    /\ \E listed \in BOOLEAN :
         /\ IF listed THEN UNCHANGED mishaps ELSE mishaps < MaxMishaps /\ mishaps' = mishaps + 1
         /\ Shown(t, [page EXCEPT !.meta = CASE ~listed -> "failed"
                                             [] listed /\ t.answer = "ok" -> "found"
                                             [] OTHER -> "fallback"])
    /\ Over(t)
    /\ UNCHANGED <<offers, docs, names, session, user, prefs, started, crossed>>

\* A denial ends the session, whoever has one by now; a reset resets all the same.
Denied(t) ==
    /\ Ended(t) /\ t.answer = "denied"
    /\ session' = Nobody /\ user' = NoneSigned /\ page' = Closed
    /\ tasks' = {[u EXCEPT !.here = FALSE] : u \in tasks \ {t}}
    /\ prefs' = IF t.kind = "reset" THEN "default" ELSE prefs
    /\ UNCHANGED <<offers, docs, names, started, mishaps, crossed>>

\* The store takes the user of the answer, whoever is signed in by now.
ProfileSaved(t) ==
    /\ Ended(t) /\ t.kind = "save" /\ t.answer # "denied"
    /\ LET ok == t.answer = "ok"
       IN  /\ user' = IF ok THEN [id |-> t.token, name |-> t.value] ELSE user
           /\ Shown(t, [page EXCEPT !.saving = FALSE, !.profile = IF ok THEN "success" ELSE "error",
                                    !.done = IF ok THEN t.done ELSE @])
    /\ Over(t)
    /\ UNCHANGED <<offers, docs, names, session, prefs, started, mishaps, crossed>>

\* An answer without a value is undefined, which is not null: a success.
PasswordChanged(t) ==
    /\ Ended(t) /\ t.kind = "password" /\ t.answer # "denied"
    /\ LET ok == t.answer \in {"ok", "void"}
       IN  Shown(t, [page EXCEPT !.changing = FALSE, !.password = IF ok THEN "success" ELSE "error",
                                 !.done = IF ok THEN t.done ELSE @])
    /\ Over(t)
    /\ UNCHANGED <<offers, docs, names, session, user, prefs, started, mishaps, crossed>>

\* The preferences go back to their defaults whatever the server did.
AccountReset(t) ==
    /\ Ended(t) /\ t.kind = "reset" /\ t.answer # "denied"
    /\ prefs' = "default"
    /\ Shown(t, [page EXCEPT !.running = FALSE, !.account = "success"])
    /\ Over(t)
    /\ UNCHANGED <<offers, docs, names, session, user, started, mishaps, crossed>>

\* An answer with a value logs out whoever is signed in by now; one without is taken
\* for a server that does not offer the deletion.
AccountDeleted(t) ==
    /\ Ended(t) /\ t.kind = "delete" /\ t.answer # "denied"
    /\ IF t.answer = "ok"
       THEN /\ session' = Nobody /\ user' = NoneSigned /\ page' = Closed
            /\ tasks' = {[u EXCEPT !.here = FALSE] : u \in tasks \ {t}}
       ELSE /\ Shown(t, [page EXCEPT !.running = FALSE, !.account = "error"])
            /\ Over(t) /\ UNCHANGED <<session, user>>
    /\ UNCHANGED <<offers, docs, names, prefs, started, mishaps, crossed>>

-----------------------------------------------------------------------------
Click ==
    \/ Visit \/ Leave \/ SignOut
    \/ \E a \in Accounts : SignIn(a)
    \/ \E name \in Usernames : SaveProfile(name)
    \/ \E valid \in BOOLEAN : ChangePassword(valid)
    \/ \E kind \in {"reset", "delete"} : AccountAction(kind)

Next ==
    \/ Click
    \/ \E t \in tasks :
         \/ Refuse(t) \/ Do(t) \/ Look(t) \/ Fail(t)
         \/ TryNext(t) \/ MetaLoaded(t) \/ Denied(t)
         \/ ProfileSaved(t) \/ PasswordChanged(t) \/ AccountReset(t) \/ AccountDeleted(t)

Spec == Init /\ [][Next]_vars

-----------------------------------------------------------------------------
(* Properties *)

\* The paths are tried so that nothing is done twice, also when an answer is lost; what
\* the page calls a success was done once; a name that was saved is the one the server
\* has, unless an older save was still under way; and the fallback stands for legal
\* documents only where the server publishes none, or a request failed.
ToldIsDone ==
    /\ \A t \in tasks : t.done <= 1
    /\ page.profile = "success" \/ page.password = "success" => page.done = 1
    /\ page.profile = "success" /\ ~crossed /\ ~page.saving =>
           user # NoneSigned /\ (user.id = session => user.name = names[user.id] \/ names[user.id] = Gone)
    /\ page.meta = "fallback" => docs = {} \/ mishaps > 0
=============================================================================
