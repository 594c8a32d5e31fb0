----------------------------- MODULE AdminUsers -----------------------------
(***************************************************************************)
(* The page of the admin application on which accounts are managed         *)
(* (web/apps/admin/src/pages/UsersPage.tsx): a list that is loaded,        *)
(* filtered and changed in place, the account selected in it, and a draft  *)
(* that is filled whenever another record becomes the selected one.  The   *)
(* service behind it is module Accounts; here a request is one step, and   *)
(* its answer reaches the page later, in any order.                        *)
(***************************************************************************)
EXTENDS Naturals, FiniteSets, FiniteSetsExt

CONSTANTS
    Accounts,    \* by the order of their creation
    MainAdmin,   \* the account that is not deleted
    MaxTasks,    \* bound on the requests sent
    MaxAtOnce,   \* bound on the requests under way at one time
    MaxMishaps   \* bound on requests that fail and changes by another admin

AdminUsersAssumption ==
    /\ Accounts \subseteq Nat \ {0} /\ MainAdmin \in Accounts
    /\ {MaxTasks, MaxAtOnce} \subseteq Nat \ {0} /\ MaxMishaps \in Nat

VARIABLES
    store,       \* the accounts of the service
    users,       \* the accounts the page knows
    selectedId,  \* the account clicked last
    hidden,      \* the accounts the search and the filters hide
    form,        \* the draft
    loading,     \* loadingUsers
    busy,        \* savingUser, creatingUser, resettingPassword, deletingUser
    tasks,       \* the handlers that wait for an answer
    begun, mishaps,  \* counters behind MaxTasks and MaxMishaps
    disturbed    \* history: there was a mishap, or a change overlapped another task

client == <<users, selectedId, hidden, form, loading, busy>>
vars == <<store, client, tasks, begun, mishaps, disturbed>>

-----------------------------------------------------------------------------
None == 0
Record == {0, 1}   \* what an account says, all its fields in one
Lists == UNION {[S -> Record] : S \in SUBSET Accounts}
Kinds == {"load", "save", "create", "reset", "delete"}

\* of: history, the account whose record filled the draft; touched: typed in since
\* then; password: the account it was typed for.
Form == [val: Record, of: Accounts \cup {None}, touched: BOOLEAN, password: Accounts \cup {None}]

\* What a handler has sent (a record, for an account) and what was answered: the list,
\* or the record.  A deletion loads the list again, in the same handler.
Task == [id: 1 .. MaxAtOnce, kind: Kinds, op: Kinds, key: Accounts \cup {None}, sent: Record,
         answer: {"none", "ok", "error"}, list: Lists]

TypeOK ==
    /\ store \in Lists /\ users \in Lists
    /\ selectedId \in Accounts \cup {None} /\ hidden \subseteq Accounts
    /\ form \in Form /\ loading \in BOOLEAN /\ busy \subseteq Kinds \ {"load"}
    /\ tasks \subseteq Task /\ \A s, t \in tasks : s.id = t.id => s = t
    /\ begun \in 1 .. MaxTasks /\ mishaps \in 0 .. MaxMishaps /\ disturbed \in BOOLEAN

NoForm == [val |-> 0, of |-> None, touched |-> FALSE, password |-> None]
NewTask(n, kind, key) ==
    [id |-> n, kind |-> kind, op |-> kind, key |-> key, sent |-> IF kind = "save" THEN form.val ELSE 0,
     answer |-> "none", list |-> << >>]

\* The page opens: loadUsers.
Init ==
    /\ store = [k \in {MainAdmin} |-> 0] /\ users = << >>
    /\ selectedId = None /\ hidden = {} /\ form = NoForm /\ loading = TRUE /\ busy = {}
    /\ tasks = {NewTask(1, "load", None)}
    /\ begun = 1 /\ mishaps = 0 /\ disturbed = FALSE

Begin(kind, key) ==
    /\ begun < MaxTasks /\ begun' = begun + 1 /\ Cardinality(tasks) < MaxAtOnce
    /\ LET free == {n \in 1 .. MaxAtOnce : \A t \in tasks : t.id # n}
       IN  tasks' = tasks \cup {NewTask(Min(free), kind, key)}
    /\ disturbed' = (disturbed \/ \E t \in tasks : kind # "load" \/ t.kind # "load")
    /\ UNCHANGED <<store, mishaps>>

-----------------------------------------------------------------------------
(* The service *)

Answered(t, how, list) ==
    tasks' = (tasks \ {t}) \cup {[t EXCEPT !.answer = how, !.list = list]}

\* A list without an account, and with one.
Without(list, k) == [i \in DOMAIN list \ {k} |-> list[i]]
With(list, k, rec) == [i \in DOMAIN list \cup {k} |-> IF i = k THEN rec ELSE list[i]]

\* The request of a task is carried out.  What is not there any more is 404.
Serve(t) ==
    /\ t.answer = "none"
    /\ \/ t.op = "load" /\ UNCHANGED store /\ Answered(t, "ok", store)
       \/ /\ t.op = "create" /\ store' = With(store, t.key, 0)
          /\ Answered(t, "ok", [k \in {t.key} |-> 0])
       \/ /\ t.op \in {"save", "reset", "delete"} /\ t.key \notin DOMAIN store
          /\ UNCHANGED store /\ Answered(t, "error", << >>)
       \/ /\ t.op = "save" /\ t.key \in DOMAIN store
          /\ store' = With(store, t.key, t.sent)
          /\ Answered(t, "ok", [k \in {t.key} |-> t.sent])
       \/ /\ t.op = "reset" /\ t.key \in DOMAIN store
          /\ UNCHANGED store /\ Answered(t, "ok", << >>)
       \/ /\ t.op = "delete" /\ t.key \in DOMAIN store
          /\ store' = Without(store, t.key) /\ Answered(t, "ok", << >>)
    /\ UNCHANGED <<client, begun, mishaps, disturbed>>

\* A request or its answer is lost.
Fail(t) ==
    /\ t.answer # "error" /\ mishaps < MaxMishaps
    /\ Answered(t, "error", << >>) /\ mishaps' = mishaps + 1 /\ disturbed' = TRUE
    /\ UNCHANGED <<store, client, begun>>

\* Another admin changes or deletes an account.
Elsewhere(k) ==
    /\ k \in DOMAIN store /\ mishaps < MaxMishaps /\ mishaps' = mishaps + 1
    /\ disturbed' = TRUE
    /\ \/ k # MainAdmin /\ store' = Without(store, k)
       \/ store' = [store EXCEPT ![k] = 1 - @]
    /\ UNCHANGED <<client, tasks, begun>>

-----------------------------------------------------------------------------
(* Rendering *)

\* selectedUser: the account clicked last if it is listed, else the first one.
Current(list, id, hid) ==
    LET listed == DOMAIN list \ hid
    IN  IF id \in listed THEN id ELSE IF listed = {} THEN None ELSE Min(listed)

\* The effect of a new selectedUser fills the draft.
DraftOf(list, k) == [val |-> list[k], of |-> k, touched |-> FALSE, password |-> None]

\* Mutant: the effect runs for another account only, as if it depended on the id.
AnotherOnly(k, anew) == k # None /\ k # Current(users, selectedId, hidden)

\* selectedUser is another object: another account, or a new record of it.
Another(k, anew) ==
    k # None /\ (k # Current(users, selectedId, hidden) \/ k \in anew)

\* The page with another list, selection or filter; the records of the keys anew are
\* new objects, so that the effect runs although the account is the same.
Render(list, id, hid, anew) ==
    LET k == Current(list, id, hid)
    IN  /\ users' = list /\ selectedId' = id /\ hidden' = hid
        /\ form' = IF Another(k, anew) THEN DraftOf(list, k) ELSE form

Shown == Current(users, selectedId, hidden)
Idle == <<loading, busy>>
Work == <<store, begun, mishaps, disturbed>>

Select(k) ==
    /\ k \in DOMAIN users \ hidden /\ k # selectedId
    /\ Render(users, k, hidden, {})
    /\ UNCHANGED <<Idle, tasks, Work>>

\* Typing in the search field, or another role or status filter.
Filter(hid) ==
    /\ hid # hidden /\ Render(users, selectedId, hid, {})
    /\ UNCHANGED <<Idle, tasks, Work>>

Type ==
    /\ Shown # None /\ form' = [form EXCEPT !.val = 1 - @, !.touched = TRUE]
    /\ UNCHANGED <<users, selectedId, hidden, Idle, tasks, Work>>

TypePassword ==
    /\ Shown # None /\ form' = [form EXCEPT !.password = Shown]
    /\ UNCHANGED <<users, selectedId, hidden, Idle, tasks, Work>>

-----------------------------------------------------------------------------
(* The handlers *)

Reload ==
    /\ loading' = TRUE /\ Begin("load", None)
    /\ UNCHANGED <<users, selectedId, hidden, form, busy>>

\* handleSaveUser, handleResetPassword, handleDeleteUser and handleCreateUser: each
\* waits for the last one of its kind only.
Submit(kind, key) ==
    /\ kind \notin busy /\ busy' = busy \cup {kind} /\ Begin(kind, key)
    /\ UNCHANGED <<users, selectedId, hidden, form, loading>>

SaveUser == Shown # None /\ Submit("save", Shown)
ResetPassword == Shown # None /\ form.password # None /\ Submit("reset", Shown)
DeleteUser == Shown \notin {None, MainAdmin} /\ Submit("delete", Shown)
CreateUser == \E k \in Accounts \ DOMAIN store :
                  (\A t \in tasks : t.key # k) /\ Submit("create", k)

\* loadUsers takes the answer; an error leaves an empty list.
TakeList(t) ==
    LET list == IF t.answer = "ok" THEN t.list ELSE << >>
        id == CASE list = << >> -> None
                [] selectedId \in DOMAIN list -> selectedId
                [] OTHER -> Min(DOMAIN list)
    IN  Render(list, id, hidden, DOMAIN list) /\ loading' = FALSE

Loaded(t) ==
    /\ t.op = "load" /\ t.answer # "none" /\ TakeList(t)
    /\ busy' = busy \ {t.kind} /\ tasks' = tasks \ {t}
    /\ UNCHANGED Work

\* The record of the answer takes the place of the one listed.
Saved(t) ==
    /\ t.op = "save" /\ t.answer # "none"
    /\ IF t.answer = "ok" /\ t.key \in DOMAIN users
       THEN Render(With(users, t.key, t.list[t.key]), selectedId, hidden, {t.key})
       ELSE UNCHANGED <<users, selectedId, hidden, form>>
    /\ busy' = busy \ {"save"} /\ tasks' = tasks \ {t}
    /\ UNCHANGED <<loading, Work>>

\* It is appended to the list, and selected.
Created(t) ==
    /\ t.op = "create" /\ t.answer # "none"
    /\ IF t.answer = "ok"
       THEN Render(With(users, t.key, t.list[t.key]), t.key, hidden, {t.key})
       ELSE UNCHANGED <<users, selectedId, hidden, form>>
    /\ busy' = busy \ {"create"} /\ tasks' = tasks \ {t}
    /\ UNCHANGED <<loading, Work>>

\* The password is cleared, whoever is selected by now.
Reset(t) ==
    /\ t.op = "reset" /\ t.answer # "none"
    /\ form' = IF t.answer = "ok" THEN [form EXCEPT !.password = None] ELSE form
    /\ busy' = busy \ {"reset"} /\ tasks' = tasks \ {t}
    /\ UNCHANGED <<users, selectedId, hidden, loading, Work>>

\* After a deletion the list is loaded again.
Deleted(t) ==
    /\ t.op = "delete" /\ t.answer # "none"
    /\ IF t.answer = "ok"
       THEN /\ tasks' = (tasks \ {t}) \cup {[t EXCEPT !.op = "load", !.answer = "none"]}
            /\ loading' = TRUE /\ UNCHANGED busy
       ELSE /\ tasks' = tasks \ {t} /\ busy' = busy \ {"delete"} /\ UNCHANGED loading
    /\ UNCHANGED <<users, selectedId, hidden, form, Work>>

-----------------------------------------------------------------------------
Next ==
    \/ \E t \in tasks :
         Serve(t) \/ Fail(t) \/ Loaded(t) \/ Saved(t) \/ Created(t) \/ Reset(t) \/ Deleted(t)
    \/ \E k \in Accounts : Elsewhere(k) \/ Select(k)
    \/ \E hid \in SUBSET Accounts : Filter(hid)
    \/ Type \/ TypePassword \/ Reload \/ SaveUser \/ ResetPassword \/ DeleteUser \/ CreateUser

Spec == Init /\ [][Next]_vars

-----------------------------------------------------------------------------
(* Properties *)

\* However answers, clicks and filters change the list and the selection: the draft is
\* that of the account shown, with the record the page knows where nothing was typed;
\* a password was typed for that account.  So no save or reset carries what was meant
\* for another one.
DraftIsOfShown ==
    Shown # None =>
        /\ form.of = Shown /\ form.password \in {None, Shown}
        /\ form.touched \/ form.val = users[Shown]

\* When every answer has been taken up the list is that of the service, unless
\* requests overlapped, failed, or another admin was at work.
ShownIsStored == tasks = {} /\ ~disturbed => users = store

\* The list is not left loading, nor a button disabled, without a request under way.
WaitsHaveCause ==
    /\ loading => \E t \in tasks : t.op = "load"
    /\ \A kind \in busy : \E t \in tasks : t.kind = kind
=============================================================================
