----------------------------- MODULE AdminForms -----------------------------
(***************************************************************************)
(* The forms of the admin application (web/apps/admin/src/pages):          *)
(* SystemConfigPage and SettingsPage, which edit the one record they load, *)
(* and MetadataEditorPage, whose drawer edits a copy of a listed record    *)
(* while loads change the list behind it.  Every form sends all its        *)
(* fields.  A request is one step at the service, and its answer reaches   *)
(* the page later, in any order.                                           *)
(***************************************************************************)
EXTENDS Naturals, FiniteSets, FiniteSetsExt

CONSTANTS
    MaxTasks,    \* bound on the requests sent
    MaxAtOnce,   \* bound on the requests under way at one time
    MaxMishaps   \* bound on requests that fail and changes by another admin

AdminFormsAssumption == {MaxTasks, MaxAtOnce} \subseteq Nat \ {0} /\ MaxMishaps \in Nat

VARIABLES
    page,     \* the page that is open
    store,    \* the records of the service
    known,    \* what the page has loaded, by tab
    tab,      \* the tab of MetadataEditorPage
    form,     \* the form, or the drawer; a drawer that is closed is NoForm
    loading, saving, other,  \* the flags; other is refetching, or runningPrewarm
    opened,   \* drawers opened so far: saving and refetching belong to one
    tasks,    \* the handlers that wait for an answer
    begun, mishaps,  \* counters behind MaxTasks and MaxMishaps
    disturbed \* history: there was a mishap, or two requests overlapped of which one
              \* writes, or which are of two tabs

client == <<known, tab, form, loading, saving, other, opened>>
vars == <<page, store, client, tasks, begun, mishaps, disturbed>>

-----------------------------------------------------------------------------
Keys == {1, 2}
NoKey == 0
Fields == {"a", "b"}
Bad == 2    \* what SettingsPage does not send: no valid bitrate
Default == 0

\* edited: manually_edited of the records of the catalog.
Record == [val: [Fields -> 0 .. 1], edited: BOOLEAN]
Unknown == [val |-> [f \in Fields |-> Default], edited |-> TRUE]

\* of: the record it shows; known: it was filled from the service; base and touched:
\* history, the record it was filled from and the fields typed in since.
Form == [of: Keys \cup {NoKey}, val: [Fields -> 0 .. Bad], known: BOOLEAN, base: Record,
         touched: SUBSET Fields]
NoForm == [of |-> NoKey, val |-> [f \in Fields |-> Default], known |-> FALSE,
           base |-> Unknown, touched |-> {}]

\* drawer: which one waits for the answer; tab: of the render the handler is from.
Task == [id: 1 .. MaxAtOnce, kind: {"load", "save", "other"}, key: Keys, sent: Form,
         drawer: 0 .. MaxTasks, answer: {"none", "ok", "error"}, record: Record]

TypeOK ==
    /\ page \in {"config", "settings", "editor"} /\ store \in [Keys -> Record]
    /\ known \in [Keys -> Record] /\ tab \in Keys /\ form \in Form
    /\ loading \in BOOLEAN /\ saving \in BOOLEAN /\ other \in BOOLEAN
    /\ opened \in 0 .. MaxTasks
    /\ tasks \subseteq Task /\ \A s, t \in tasks : s.id = t.id => s = t
    /\ begun \in 1 .. MaxTasks /\ mishaps \in 0 .. MaxMishaps /\ disturbed \in BOOLEAN

NewTask(n, kind, key) ==
    [id |-> n, kind |-> kind, key |-> key, sent |-> form, drawer |-> opened,
     answer |-> "none", record |-> Unknown]

\* A page opens, and loads.  A tab of the editor lists one record, of the same number.
\* SettingsPage has defaults in its form, that of SystemConfigPage is not shown yet.
Init ==
    /\ page \in {"config", "settings", "editor"}
    /\ store = [k \in Keys |-> [val |-> [f \in Fields |-> 1], edited |-> FALSE]]
    /\ known = [k \in Keys |-> Unknown] /\ tab = 1
    /\ form = [NoForm EXCEPT !.of = IF page = "editor" THEN NoKey ELSE 1]
    /\ loading = TRUE /\ saving = FALSE /\ other = FALSE /\ opened = 0
    /\ tasks = {NewTask(1, "load", 1)} /\ begun = 1 /\ mishaps = 0 /\ disturbed = FALSE

\* The requests that change a record; "Run prewarm" does not.
Writes == {"save"} \cup IF page = "editor" THEN {"other"} ELSE {}

\* ts with one more handler that sends its request.
Begin(ts, kind, key) ==
    /\ begun < MaxTasks /\ begun' = begun + 1 /\ Cardinality(ts) < MaxAtOnce
    /\ LET free == {n \in 1 .. MaxAtOnce : \A t \in ts : t.id # n}
       IN  tasks' = ts \cup {NewTask(Min(free), kind, key)}
    /\ disturbed' = (disturbed \/
                       \E t \in ts : t.key # key \/ {kind, t.kind} \cap Writes # {})
    /\ UNCHANGED <<page, store, mishaps>>

-----------------------------------------------------------------------------
(* The service *)

Answered(t, how, record) ==
    tasks' = (tasks \ {t}) \cup {[t EXCEPT !.answer = how, !.record = record]}

\* A save writes what it carries and marks the record; "Refetch from iTunes" clears
\* the mark.  "Run prewarm" changes nothing here.
Written(t) ==
    CASE t.kind = "save" -> [val |-> t.sent.val, edited |-> page = "editor"]
      [] t.kind = "other" /\ page = "editor" -> [store[t.key] EXCEPT !.edited = FALSE]
      [] OTHER -> store[t.key]

Serve(t) ==
    /\ t.answer = "none"
    /\ store' = [store EXCEPT ![t.key] = Written(t)]
    /\ Answered(t, "ok", Written(t))
    /\ UNCHANGED <<page, client, begun, mishaps, disturbed>>

\* A request or its answer is lost.
Fail(t) ==
    /\ t.answer # "error" /\ mishaps < MaxMishaps
    /\ Answered(t, "error", Unknown) /\ mishaps' = mishaps + 1 /\ disturbed' = TRUE
    /\ UNCHANGED <<page, store, client, begun>>

\* Another admin, or the enrichment of an import, changes a record.
Elsewhere(k, f) ==
    /\ mishaps < MaxMishaps /\ mishaps' = mishaps + 1 /\ disturbed' = TRUE
    /\ store' = [store EXCEPT ![k].val[f] = 1 - @]
    /\ UNCHANGED <<page, client, tasks, begun>>

-----------------------------------------------------------------------------
(* The forms *)

Work == <<page, store, begun, mishaps, disturbed>>

\* Mutant: one setter is forgotten.
FilledHalf(k, record) ==
    [of |-> k, val |-> [record.val EXCEPT !["b"] = form.val["b"]], known |-> TRUE,
     base |-> record, touched |-> {}]

\* hydrate, hydrateForm, and the state a drawer begins with.
Filled(k, record) ==
    [of |-> k, val |-> record.val, known |-> TRUE, base |-> record, touched |-> {}]

\* Where there is a form to type in: SystemConfigPage has none before a response.
Open ==
    /\ form.of # NoKey
    /\ page # "editor" => ~loading
    /\ page = "config" => form.known

Type(f, v) ==
    /\ Open /\ v # form.val[f] /\ (v = Bad => page = "settings" /\ f = "a")
    /\ form' = [form EXCEPT !.val[f] = v, !.touched = @ \cup {f}]
    /\ UNCHANGED <<known, tab, loading, saving, other, opened, tasks, Work>>

\* handleSave, handleSaveSettings: no bitrate is an error at once.
Save ==
    /\ Open /\ ~saving /\ (page = "settings" => form.val["a"] # Bad)
    /\ saving' = TRUE /\ Begin(tasks, "save", form.of)
    /\ UNCHANGED <<known, tab, form, loading, other, opened>>

\* handleRunPrewarm.
RunPrewarm ==
    /\ page = "settings" /\ ~loading /\ ~other
    /\ other' = TRUE /\ Begin(tasks, "other", 1)
    /\ UNCHANGED <<known, tab, form, loading, saving, opened>>

\* The button of SystemConfigPage that loads the settings again.
Reload ==
    /\ page = "config" /\ Open /\ loading' = TRUE /\ Begin(tasks, "load", 1)
    /\ UNCHANGED <<known, tab, form, saving, other, opened>>

\* The response of a load or a save fills the form, whatever was typed meanwhile.
FormAnswered(t) ==
    /\ page # "editor" /\ t.answer # "none"
    /\ IF t.kind # "other" /\ t.answer = "ok"
       THEN form' = Filled(1, t.record) /\ known' = [known EXCEPT ![1] = t.record]
       ELSE UNCHANGED <<form, known>>
    /\ loading' = (loading /\ t.kind # "load")
    /\ saving' = (saving /\ t.kind # "save") /\ other' = (other /\ t.kind # "other")
    /\ tasks' = tasks \ {t}
    /\ UNCHANGED <<tab, opened, Work>>

-----------------------------------------------------------------------------
(* MetadataEditorPage *)

\* Another tab is opened and loaded; a drawer covers the tabs.
SwitchTab(k) ==
    /\ page = "editor" /\ form.of = NoKey /\ k # tab /\ tab' = k /\ loading' = TRUE
    /\ Begin(tasks, "load", k)
    /\ UNCHANGED <<known, form, saving, other, opened>>

\* A row is clicked: EditDrawer begins with its record.
OpenDrawer ==
    /\ page = "editor" /\ form.of = NoKey /\ ~loading /\ known[tab] # Unknown
    /\ form' = Filled(tab, known[tab]) /\ opened < MaxTasks /\ opened' = opened + 1
    /\ saving' = FALSE /\ other' = FALSE
    /\ UNCHANGED <<known, tab, loading, tasks, Work>>

\* "Cancel", also while a save is under way.
CloseDrawer ==
    /\ page = "editor" /\ form.of # NoKey
    /\ form' = NoForm /\ saving' = FALSE /\ other' = FALSE
    /\ UNCHANGED <<known, tab, loading, opened, tasks, Work>>

\* handleRefetch, for a record that is marked.
Refetch ==
    /\ page = "editor" /\ form.of # NoKey /\ form.base.edited /\ ~saving /\ ~other
    /\ other' = TRUE /\ Begin(tasks, "other", form.of)
    /\ UNCHANGED <<known, tab, form, loading, saving, opened>>

\* load(active) is not cancelled by another one.
TabLoaded(t) ==
    /\ page = "editor" /\ t.kind = "load" /\ t.answer # "none"
    /\ known' = IF t.answer = "ok" THEN [known EXCEPT ![t.key] = t.record] ELSE known
    /\ loading' = FALSE /\ tasks' = tasks \ {t}
    /\ UNCHANGED <<tab, form, saving, other, opened, Work>>

\* onSaved closes whichever drawer is open by now, and loads the tab the save is from;
\* after an error the drawer stays.  The flags of a closed drawer are gone.
DrawerAnswered(t) ==
    /\ page = "editor" /\ t.kind # "load" /\ t.answer # "none"
    /\ IF t.answer = "ok"
       THEN /\ form' = NoForm /\ saving' = FALSE /\ other' = FALSE /\ loading' = TRUE
            /\ Begin(tasks \ {t}, "load", t.key)
            /\ UNCHANGED <<known, tab, opened>>
       ELSE /\ saving' = (saving /\ ~(t.drawer = opened /\ t.kind = "save"))
            /\ other' = (other /\ ~(t.drawer = opened /\ t.kind = "other"))
            /\ tasks' = tasks \ {t}
            /\ UNCHANGED <<known, tab, form, loading, opened, Work>>

-----------------------------------------------------------------------------
Next ==
    \/ \E t \in tasks :
         Serve(t) \/ Fail(t) \/ FormAnswered(t) \/ TabLoaded(t) \/ DrawerAnswered(t)
    \/ \E k \in Keys, f \in Fields : Elsewhere(k, f)
    \/ \E f \in Fields, v \in 0 .. Bad : Type(f, v)
    \/ Save \/ RunPrewarm \/ Reload
    \/ \E k \in Keys : SwitchTab(k)
    \/ OpenDrawer \/ CloseDrawer \/ Refetch

Spec == Init /\ [][Next]_vars

-----------------------------------------------------------------------------
(* Properties *)

\* The service takes up the request of a task.
Served(t) == t.answer = "none" /\ \E u \in tasks' : u.id = t.id /\ u.answer = "ok"

\* A save is served: it changes no field its admin left alone, unless the record has
\* changed since the form was filled, or the form of SettingsPage was never filled.
UntouchedFieldsKept ==
    \A t \in tasks : \A f \in Fields \ t.sent.touched :
        t.kind = "save" /\ Served(t) /\ store'[t.key].val[f] # store[t.key].val[f] =>
            \/ t.sent.known /\ t.sent.base.val # store[t.key].val
            \/ page = "settings" /\ ~t.sent.known

\* When every answer has been taken up, and no request failed, or overlapped a save, a
\* refetch or a load of another tab, a form shows the record of the service where it was
\* not typed in, and so does the list of the editor, marks included.
ShownIsStored ==
    tasks = {} /\ ~disturbed =>
        /\ \A f \in Fields \ form.touched : form.of # NoKey => form.val[f] = store[form.of].val[f]
        /\ page = "editor" => known[tab] = store[tab]

\* No spinner and no disabled button without a request under way.
WaitsHaveCause ==
    /\ loading => \E t \in tasks : t.kind = "load"
    /\ saving => \E t \in tasks : t.kind = "save"
    /\ other => \E t \in tasks : t.kind = "other"
=============================================================================
