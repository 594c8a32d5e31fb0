------------------------------ MODULE AdminWork ------------------------------
(***************************************************************************)
(* Two pages of the admin application (web/apps/admin/src/pages) whose     *)
(* requests overlap: ScanPage, which has a directory scanned and the scan  *)
(* imported, and LibraryPage, which lists tracks or albums page by page.   *)
(* What a scan and an import do is module Ingestion; here a request is one *)
(* step at the service, and its answer reaches the page later, in any      *)
(* order.                                                                  *)
(***************************************************************************)
EXTENDS Naturals, FiniteSets

CONSTANTS
    Pages,       \* pages of each list of the library
    MaxTasks,    \* bound on the requests sent
    MaxAtOnce,   \* bound on the requests under way at one time
    MaxMishaps   \* bound on requests that fail and restarts of the service

AdminWorkAssumption ==
    /\ {Pages, MaxTasks} \subseteq Nat \ {0} /\ {MaxAtOnce, MaxMishaps} \subseteq Nat

VARIABLES
    held,       \* the scans the service keeps for an import
    scanId, filesFound, summary,   \* of ScanPage; a summary is the id of its scan
    isScanning, isIngesting,
    listing,    \* the state of LibraryPage
    tasks,      \* the handlers and effects that wait for an answer
    begun, mishaps,  \* counters behind MaxTasks and MaxMishaps
    disturbed   \* history: there was a mishap, or requests overlapped

scanning == <<held, scanId, filesFound, summary, isScanning, isIngesting>>
vars == <<scanning, listing, tasks, begun, mishaps, disturbed>>

-----------------------------------------------------------------------------
None == 0
Tabs == {"tracks", "albums"}
Scans == 1 .. MaxTasks   \* a scan has the number of its request

\* key: the scan, or the page of the list; files: how many a scan has found, if any.
Task == [n: 1 .. MaxTasks, kind: {"scan", "ingest"} \cup Tabs, key: 1 .. MaxTasks + Pages,
         answer: {"none", "ok", "error"}, files: 0 .. 1]

\* has: the page of the list that was answered last, of each tab; idle: history, the
\* spinner is there because the tab was clicked that was open, at its first page.
Listing == [tab: Tabs, page: 1 .. Pages, has: [Tabs -> 0 .. Pages], loading: BOOLEAN, idle: BOOLEAN]

TypeOK ==
    /\ held \subseteq Scans /\ scanId \in Scans \cup {None} /\ filesFound \in 0 .. 1
    /\ summary \in Scans \cup {None} /\ isScanning \in BOOLEAN /\ isIngesting \in BOOLEAN
    /\ listing \in Listing
    /\ tasks \subseteq Task /\ \A s, t \in tasks : s.n = t.n => s = t
    /\ begun \in 0 .. MaxTasks /\ mishaps \in 0 .. MaxMishaps /\ disturbed \in BOOLEAN

NewTask(n, kind, key) == [n |-> n, kind |-> kind, key |-> key, answer |-> "none", files |-> 0]

\* Both pages are open; LibraryPage loads, for ScanPage there is nothing to do.
Init ==
    /\ held = {} /\ scanId = None /\ filesFound = 0 /\ summary = None
    /\ isScanning = FALSE /\ isIngesting = FALSE
    /\ listing = [tab |-> "tracks", page |-> 1, has |-> [t \in Tabs |-> None],
                  loading |-> TRUE, idle |-> FALSE]
    /\ tasks = {NewTask(1, "tracks", 1)} /\ begun = 1 /\ mishaps = 0 /\ disturbed = FALSE

\* The requests of one page do not concern the other.
Of(kind) == IF kind \in Tabs THEN Tabs ELSE {"scan", "ingest"}

Begin(kind, key) ==
    /\ begun < MaxTasks /\ begun' = begun + 1 /\ Cardinality(tasks) < MaxAtOnce
    /\ tasks' = tasks \cup {NewTask(begun + 1, kind, key)}
    /\ disturbed' = (disturbed \/ \E t \in tasks : t.kind \in Of(kind))
    /\ UNCHANGED mishaps

-----------------------------------------------------------------------------
(* The service *)

Answered(t, how, files) ==
    tasks' = (tasks \ {t}) \cup {[t EXCEPT !.answer = how, !.files = files]}

\* The paths of a scan are kept until an import takes them.
Serve(t) ==
    /\ t.answer = "none"
    /\ \/ /\ t.kind = "scan" /\ held' = held \cup {t.n}
          /\ \E files \in 0 .. 1 : Answered(t, "ok", files)
       \/ /\ t.kind = "ingest" /\ held' = held \ {t.key}
          /\ Answered(t, IF t.key \in held THEN "ok" ELSE "error", 0)
       \/ t.kind \in Tabs /\ UNCHANGED held /\ Answered(t, "ok", 0)
    /\ UNCHANGED <<scanId, filesFound, summary, isScanning, isIngesting, listing,
                   begun, mishaps, disturbed>>

\* A request or its answer is lost.
Fail(t) ==
    /\ t.answer # "error" /\ mishaps < MaxMishaps
    /\ Answered(t, "error", 0) /\ mishaps' = mishaps + 1 /\ disturbed' = TRUE
    /\ UNCHANGED <<scanning, listing, begun>>

\* The service restarts: the scans were in its memory.
Restart ==
    /\ mishaps < MaxMishaps /\ mishaps' = mishaps + 1 /\ disturbed' = TRUE
    /\ held' = {}
    /\ tasks' = {IF t.answer = "none" /\ t.kind \notin Tabs
                 THEN [t EXCEPT !.answer = "error"] ELSE t : t \in tasks}
    /\ UNCHANGED <<scanId, filesFound, summary, isScanning, isIngesting, listing, begun>>

-----------------------------------------------------------------------------
(* ScanPage *)

\* handleScan.
Scan ==
    /\ ~isScanning /\ isScanning' = TRUE
    /\ scanId' = None /\ filesFound' = 0 /\ summary' = None
    /\ Begin("scan", 1)
    /\ UNCHANGED <<held, isIngesting, listing>>

Scanned(t) ==
    /\ t.kind = "scan" /\ t.answer # "none"
    /\ IF t.answer = "ok" THEN scanId' = t.n /\ filesFound' = t.files
                          ELSE UNCHANGED <<scanId, filesFound>>
    /\ isScanning' = FALSE /\ tasks' = tasks \ {t}
    /\ UNCHANGED <<held, summary, isIngesting, listing, begun, mishaps, disturbed>>

\* handleIngestAll.
IngestAll ==
    /\ scanId # None /\ filesFound # 0 /\ ~isIngesting
    /\ isIngesting' = TRUE /\ summary' = None
    /\ Begin("ingest", scanId)
    /\ UNCHANGED <<held, scanId, filesFound, isScanning, listing>>

\* Mutant: the scan stays on the page.
ConsumedKept(t) == scanId

\* Whichever scan is there by now is forgotten.
Consumed(t) == None

Ingested(t) ==
    /\ t.kind = "ingest" /\ t.answer # "none"
    /\ IF t.answer = "ok" THEN summary' = t.key /\ scanId' = Consumed(t)
                          ELSE UNCHANGED <<summary, scanId>>
    /\ isIngesting' = FALSE /\ tasks' = tasks \ {t}
    /\ UNCHANGED <<held, filesFound, isScanning, listing, begun, mishaps, disturbed>>

-----------------------------------------------------------------------------
(* LibraryPage *)

\* The effect of another tab or another page.
Turn(tab, page) ==
    /\ listing' = [listing EXCEPT !.tab = tab, !.page = page, !.loading = TRUE]
    /\ Begin(tab, page)
    /\ UNCHANGED scanning

\* switchTab, to the first page; with nothing new there is no effect, but loading.
SwitchTab(tab) == <<tab, 1>> # <<listing.tab, listing.page>> /\ Turn(tab, 1)
SameTab ==
    /\ listing.page = 1
    /\ listing' = [listing EXCEPT !.loading = TRUE, !.idle = TRUE]
    /\ UNCHANGED <<scanning, tasks, begun, mishaps, disturbed>>

\* Mutant: "Prev" is not disabled on the first page, and takes one off.
PrevPageAlways ==
    /\ listing.has[listing.tab] # None
    /\ Turn(listing.tab, listing.page - 1)

\* "Prev" and "Next", where a list was answered.
PrevPage ==
    /\ listing.has[listing.tab] # None /\ listing.page > 1
    /\ Turn(listing.tab, listing.page - 1)
NextPage ==
    /\ listing.has[listing.tab] # None /\ listing.page < Pages
    /\ Turn(listing.tab, listing.page + 1)

\* Mutant: the spinner goes with the rows, not finally.
TakenThen(t) ==
    IF t.answer = "ok"
    THEN [listing EXCEPT !.has[t.kind] = t.key, !.loading = FALSE, !.idle = FALSE]
    ELSE [listing EXCEPT !.has[t.kind] = None]

\* The rows of an answer, for whichever page; none after an error.
Taken(t) ==
    [listing EXCEPT !.has[t.kind] = IF t.answer = "ok" THEN t.key ELSE None,
                    !.loading = FALSE, !.idle = FALSE]

\* An effect is not cancelled by the next one.
Listed(t) ==
    /\ t.kind \in Tabs /\ t.answer # "none"
    /\ listing' = Taken(t) /\ tasks' = tasks \ {t}
    /\ UNCHANGED <<scanning, begun, mishaps, disturbed>>

-----------------------------------------------------------------------------
Next ==
    \/ \E t \in tasks : Serve(t) \/ Fail(t) \/ Scanned(t) \/ Ingested(t) \/ Listed(t)
    \/ Restart \/ Scan \/ IngestAll
    \/ \E tab \in Tabs : SwitchTab(tab)
    \/ SameTab \/ PrevPage \/ NextPage

Spec == Init /\ [][Next]_vars

-----------------------------------------------------------------------------
(* Properties *)

\* When every answer has been taken up, no request failed and those of a page did not
\* overlap: the scan ScanPage offers is kept by the service, a summary is of a scan
\* that is not, and LibraryPage has the page it says it has.
ShownIsStored ==
    tasks = {} /\ ~disturbed =>
        /\ scanId # None => scanId \in held /\ scanId # summary
        /\ summary \notin held
        /\ listing.has[listing.tab] = listing.page

\* No spinner and no disabled button without a request under way; but a click on the
\* tab that is open leaves LibraryPage loading, and nothing is.
WaitsHaveCause ==
    /\ isScanning => \E t \in tasks : t.kind = "scan"
    /\ isIngesting => \E t \in tasks : t.kind = "ingest"
    /\ listing.loading => listing.idle \/ \E t \in tasks : t.kind \in Tabs
=============================================================================
