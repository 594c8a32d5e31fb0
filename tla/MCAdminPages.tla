---------------------------- MODULE MCAdminPages ----------------------------
(***************************************************************************)
(* Instances of AdminUsers, AdminForms and AdminWork.  A behaviour is one  *)
(* of one of them, as part says; they share no state, so a variable two of *)
(* them have by the same name serves both here, and those of the parts     *)
(* that are away are NotHere.                                              *)
(***************************************************************************)
EXTENDS Naturals

CONSTANTS Accounts, MainAdmin, Pages, MaxTasks, MaxAtOnce, MaxMishaps, NotHere

VARIABLES
    part, store, form, loading, tasks, begun, mishaps, disturbed,
    users, selectedId, hidden, busy,
    page, known, tab, saving, other, opened,
    held, scanId, filesFound, summary, isScanning, isIngesting, listing

U == INSTANCE AdminUsers
F == INSTANCE AdminForms
W == INSTANCE AdminWork

ASSUME PagesConstants ==
    U!AdminUsersAssumption /\ F!AdminFormsAssumption /\ W!AdminWorkAssumption

ofUsers == <<users, selectedId, hidden, busy>>
ofForms == <<page, known, tab, saving, other, opened>>
ofWork == <<held, scanId, filesFound, summary, isScanning, isIngesting, listing>>
ofBoth == <<store, form, loading>>
counters == <<tasks, begun, mishaps, disturbed>>
pages == <<part, ofUsers, ofForms, ofWork, ofBoth, counters>>

UsersAway ==
    /\ users = NotHere /\ selectedId = NotHere /\ hidden = NotHere
    /\ busy = NotHere
FormsAway ==
    /\ page = NotHere /\ known = NotHere /\ tab = NotHere
    /\ saving = NotHere /\ other = NotHere /\ opened = NotHere
WorkAway ==
    /\ held = NotHere /\ scanId = NotHere /\ filesFound = NotHere
    /\ summary = NotHere /\ isScanning = NotHere /\ isIngesting = NotHere
    /\ listing = NotHere

PagesInit ==
    \/ part = "users" /\ U!Init /\ FormsAway /\ WorkAway
    \/ part = "forms" /\ F!Init /\ UsersAway /\ WorkAway
    \/ /\ part = "work" /\ W!Init /\ UsersAway /\ FormsAway
       /\ store = NotHere /\ form = NotHere /\ loading = NotHere

PagesNext ==
    \/ part = "users" /\ U!Next /\ UNCHANGED <<part, ofForms, ofWork>>
    \/ part = "forms" /\ F!Next /\ UNCHANGED <<part, ofUsers, ofWork>>
    \/ part = "work" /\ W!Next /\ UNCHANGED <<part, ofUsers, ofForms, ofBoth>>

PagesSpec == PagesInit /\ [][PagesNext]_pages

\* The types of the three.
PagesTypeOK ==
    /\ part = "users" => U!TypeOK
    /\ part = "forms" => F!TypeOK
    /\ part = "work" => W!TypeOK

\* What AdminUsers states of the draft, and AdminForms of the fields of a save.
DraftIsOfShown == part = "users" => U!DraftIsOfShown
UntouchedFieldsKept == [][part = "forms" => F!UntouchedFieldsKept]_pages

\* What each of the three states of its lists and forms,
ShownIsStored ==
    /\ part = "users" => U!ShownIsStored
    /\ part = "forms" => F!ShownIsStored
    /\ part = "work" => W!ShownIsStored

\* and of its spinners and buttons.
WaitsHaveCause ==
    /\ part = "users" => U!WaitsHaveCause
    /\ part = "forms" => F!WaitsHaveCause
    /\ part = "work" => W!WaitsHaveCause
=============================================================================
