-------------------------- MODULE AdminPagesProofs --------------------------
(***************************************************************************)
(* Proofs about AdminUsers, AdminForms and AdminWork for any accounts,     *)
(* requests and mishaps, as MCAdminPages composes them.                    *)
(***************************************************************************)
EXTENDS MCAdminPages, FiniteSetTheorems, WellFoundedInduction, TLAPS

-----------------------------------------------------------------------------
(* ScanPage and LibraryPage *)

\* Requests are numbered in the order they are sent; a list has Pages pages.
WorkTyped ==
    /\ W!TypeOK
    /\ \A t \in tasks : t.n <= begun /\ (t.kind \in W!Tabs => t.key \in 1 .. Pages)
                       /\ (t.kind = "ingest" => t.key \in W!Scans)

\* Undisturbed, each page waits for one answer at most.  A scan is offered while the
\* service keeps it, or an import of it is under way, which is the one that takes it.
WorkQuiet ==
    ~disturbed =>
        /\ \A s, t \in tasks : W!Of(s.kind) = W!Of(t.kind) => s = t
        /\ \A t \in tasks :
             /\ t.answer # "error"
             /\ t.kind = "scan" =>
                  scanId = 0 /\ summary = 0 /\ (t.answer = "ok" => t.n \in held)
             /\ t.kind = "ingest" =>
                  /\ t.key = scanId /\ scanId # 0 /\ summary = 0
                  /\ t.answer = "none" => t.key \in held
                  /\ t.answer = "ok" => t.key \notin held
             /\ t.kind \in W!Tabs => t.kind = listing.tab /\ t.key = listing.page
        /\ scanId # 0 => scanId # summary
        /\ summary \notin held
        /\ (\A t \in tasks : t.kind # "ingest") /\ scanId # 0 => scanId \in held
        /\ (\A t \in tasks : t.kind \notin W!Tabs) => listing.has[listing.tab] = listing.page

WorkInv == WorkTyped /\ W!WaitsHaveCause /\ WorkQuiet

LEMMA WorkConstants ==
    /\ MaxTasks \in Nat \ {0} /\ Pages \in Nat \ {0} /\ MaxMishaps \in Nat /\ MaxAtOnce \in Nat
    /\ W!None = 0 /\ W!Tabs = {"tracks", "albums"} /\ W!Scans = 1 .. MaxTasks
  BY PagesConstants DEF W!AdminWorkAssumption, W!None, W!Tabs, W!Scans

LEMMA WorkShows == WorkInv => W!ShownIsStored
  BY WorkConstants DEF WorkInv, WorkQuiet, W!ShownIsStored

LEMMA WorkTaskType ==
    ASSUME NEW n \in 1 .. MaxTasks, NEW kind \in {"scan", "ingest"} \cup W!Tabs,
           NEW key \in 1 .. MaxTasks + Pages
    PROVE  /\ W!NewTask(n, kind, key) \in W!Task
           /\ W!NewTask(n, kind, key).n = n /\ W!NewTask(n, kind, key).kind = kind
           /\ W!NewTask(n, kind, key).key = key /\ W!NewTask(n, kind, key).answer = "none"
  BY DEF W!NewTask, W!Task

LEMMA WorkStart == W!Init => WorkInv
  <1> SUFFICES ASSUME W!Init PROVE WorkInv
    OBVIOUS
  <1> DEFINE new == W!NewTask(1, "tracks", 1)
  <1>1. /\ new \in W!Task /\ new.n = 1 /\ new.kind = "tracks" /\ new.key = 1 /\ new.answer = "none"
    BY WorkTaskType, WorkConstants
  <1>2. /\ tasks = {new} /\ begun = 1 /\ disturbed = FALSE /\ mishaps = 0 /\ held = {}
        /\ scanId = 0 /\ summary = 0 /\ filesFound = 0
        /\ isScanning = FALSE /\ isIngesting = FALSE
    BY WorkConstants DEF W!Init
  <1>6. listing \in W!Listing
    <2>1. [t \in W!Tabs |-> 0] \in [W!Tabs -> 0 .. Pages]
      BY WorkConstants
    <2>2. listing = [tab |-> "tracks", page |-> 1, has |-> [t \in W!Tabs |-> 0],
                     loading |-> TRUE, idle |-> FALSE]
      BY WorkConstants DEF W!Init
    <2> QED
      BY <2>1, <2>2, WorkConstants DEF W!Listing
  <1>7. listing.tab = "tracks" /\ listing.page = 1
    BY DEF W!Init
  <1> HIDE DEF new
  <1>3. WorkTyped
    <2>1. W!TypeOK
      <3>1. tasks \subseteq W!Task /\ \A s, t \in tasks : s.n = t.n => s = t
        BY <1>1, <1>2
      <3>2. begun \in 0 .. MaxTasks /\ mishaps \in 0 .. MaxMishaps
        BY <1>2, WorkConstants
      <3>3. /\ held \subseteq W!Scans /\ scanId \in W!Scans \cup {W!None} /\ filesFound \in 0 .. 1
            /\ summary \in W!Scans \cup {W!None}
        BY <1>2, WorkConstants
      <3>4. disturbed \in BOOLEAN /\ isScanning \in BOOLEAN /\ isIngesting \in BOOLEAN
        BY <1>2, Zenon
      <3> QED
        BY <1>6, <3>1, <3>2, <3>3, <3>4 DEF W!TypeOK
    <2>2. \A t \in tasks : t.n <= begun /\ (t.kind \in W!Tabs => t.key \in 1 .. Pages)
                       /\ (t.kind = "ingest" => t.key \in W!Scans)
      BY <1>1, <1>2, WorkConstants
    <2> QED
      BY <2>1, <2>2 DEF WorkTyped
  <1>4. W!WaitsHaveCause
    BY <1>1, <1>2, WorkConstants DEF W!WaitsHaveCause
  <1>5. WorkQuiet
    BY <1>1, <1>2, <1>7, WorkConstants DEF WorkQuiet
  <1> QED
    BY <1>3, <1>4, <1>5 DEF WorkInv

\* An answer changes a task in nothing else.
LEMMA WorkAnswered ==
    ASSUME WorkTyped, NEW t \in tasks, NEW how \in {"none", "ok", "error"}, NEW files \in 0 .. 1,
           W!Answered(t, how, files)
    PROVE  \E m \in W!Task : /\ tasks' = (tasks \ {t}) \cup {m}
                             /\ m.n = t.n /\ m.kind = t.kind /\ m.key = t.key /\ m.answer = how
  <1>1. t \in W!Task
    BY DEF WorkTyped, W!TypeOK
  <1> DEFINE a == [t EXCEPT !.answer = how]
             m == [a EXCEPT !.files = files]
  <1>2. a \in W!Task /\ a.n = t.n /\ a.kind = t.kind /\ a.key = t.key /\ a.answer = how
    BY <1>1 DEF W!Task
  <1>3. m = [t EXCEPT !.answer = how, !.files = files]
    BY <1>1 DEF W!Task
  <1> HIDE DEF a
  <1>4. m \in W!Task /\ m.n = t.n /\ m.kind = t.kind /\ m.key = t.key /\ m.answer = how
    BY <1>2 DEF W!Task
  <1>5. tasks' = (tasks \ {t}) \cup {m}
    BY <1>3 DEF W!Answered
  <1> QED
    BY <1>4, <1>5

\* What a task is, field by field.
LEMMA WorkFields ==
    ASSUME WorkTyped, NEW t \in tasks
    PROVE  /\ t.n \in 1 .. MaxTasks /\ t.kind \in {"scan", "ingest", "tracks", "albums"}
           /\ t.key \in 1 .. MaxTasks + Pages /\ t.answer \in {"none", "ok", "error"}
           /\ t.files \in 0 .. 1 /\ t.n <= begun /\ (t.kind \in W!Tabs => t.key \in 1 .. Pages)
  BY WorkConstants DEF WorkTyped, W!TypeOK, W!Task

\* A task changes its answer: nobody waits for another one.
LEMMA WorkAnswerKeeps ==
    ASSUME WorkTyped, W!WaitsHaveCause, NEW t \in tasks, NEW m \in W!Task,
           tasks' = (tasks \ {t}) \cup {m}, m.n = t.n, m.kind = t.kind, m.key = t.key,
           held' \subseteq W!Scans, mishaps' \in 0 .. MaxMishaps, disturbed' \in BOOLEAN,
           UNCHANGED <<scanId, filesFound, summary, isScanning, isIngesting, listing, begun>>
    PROVE  WorkTyped' /\ W!WaitsHaveCause'
  <1>1. WorkTyped'
    BY DEF WorkTyped, W!TypeOK
  <1>2. W!WaitsHaveCause'
    BY DEF W!WaitsHaveCause
  <1> QED
    BY <1>1, <1>2

LEMMA WorkServe ==
    ASSUME WorkInv, NEW t \in tasks, W!Serve(t)
    PROVE  WorkInv'
  <1>1. WorkTyped /\ W!WaitsHaveCause /\ WorkQuiet
    BY DEF WorkInv
  <1>2. /\ UNCHANGED <<scanId, filesFound, summary, isScanning, isIngesting, listing,
                       begun, mishaps, disturbed>>
        /\ t.answer = "none"
    BY DEF W!Serve
  <1>3. held \subseteq W!Scans /\ t.n \in W!Scans /\ mishaps \in 0 .. MaxMishaps /\ disturbed \in BOOLEAN
    BY <1>1, WorkFields, WorkConstants DEF WorkTyped, W!TypeOK
  <1>4. CASE t.kind = "scan"
    <2>1. held' = held \cup {t.n}
      BY <1>4, WorkConstants DEF W!Serve
    <2>2. PICK files \in 0 .. 1 : W!Answered(t, "ok", files)
      BY <1>4, WorkConstants DEF W!Serve
    <2>3. PICK m \in W!Task : /\ tasks' = (tasks \ {t}) \cup {m}
                              /\ m.n = t.n /\ m.kind = t.kind /\ m.key = t.key /\ m.answer = "ok"
      BY <1>1, <2>2, WorkAnswered
    <2>4. WorkTyped' /\ W!WaitsHaveCause'
      BY <1>1, <1>2, <1>3, <2>1, <2>3, WorkAnswerKeeps
    <2>5. WorkQuiet'
      <3>1. t.n # 0
        BY <1>1, WorkFields
      <3>2. ~disturbed => \A s \in tasks : s.kind # "ingest"
        BY <1>1, <1>4 DEF WorkQuiet, W!Of
      <3> QED
        BY <1>1, <1>2, <1>4, <2>1, <2>3, <3>1, <3>2, WorkConstants DEF WorkQuiet
    <2> QED
      BY <2>4, <2>5 DEF WorkInv
  <1>5. CASE t.kind = "ingest"
    <2>1. held' = held \ {t.key}
      BY <1>5, WorkConstants DEF W!Serve
    <2>2. W!Answered(t, IF t.key \in held THEN "ok" ELSE "error", 0)
      BY <1>5, WorkConstants DEF W!Serve
    <2>3. PICK m \in W!Task : /\ tasks' = (tasks \ {t}) \cup {m}
                              /\ m.n = t.n /\ m.kind = t.kind /\ m.key = t.key
                              /\ m.answer = IF t.key \in held THEN "ok" ELSE "error"
      BY <1>1, <2>2, WorkAnswered
    <2>4. WorkTyped' /\ W!WaitsHaveCause'
      BY <1>1, <1>2, <1>3, <2>1, <2>3, WorkAnswerKeeps
    <2>5. WorkQuiet'
      <3>1. ~disturbed => t.key \in held
        BY <1>1, <1>2, <1>5 DEF WorkQuiet
      <3>2. ~disturbed => \A s \in tasks : s.kind # "scan" /\ (s.kind = "ingest" => s = t)
        BY <1>1, <1>5 DEF WorkQuiet, W!Of
      <3> QED
        BY <1>1, <1>2, <1>5, <2>1, <2>3, <3>1, <3>2, WorkConstants DEF WorkQuiet
    <2> QED
      BY <2>4, <2>5 DEF WorkInv
  <1>6. CASE t.kind \in W!Tabs
    <2>1. held' = held /\ W!Answered(t, "ok", 0)
      BY <1>6, WorkConstants DEF W!Serve
    <2>2. PICK m \in W!Task : /\ tasks' = (tasks \ {t}) \cup {m}
                              /\ m.n = t.n /\ m.kind = t.kind /\ m.key = t.key /\ m.answer = "ok"
      BY <1>1, <2>1, WorkAnswered
    <2>3. WorkTyped' /\ W!WaitsHaveCause'
      BY <1>1, <1>2, <1>3, <2>1, <2>2, WorkAnswerKeeps
    <2>4. WorkQuiet'
      BY <1>1, <1>2, <1>6, <2>1, <2>2, WorkConstants DEF WorkQuiet
    <2> QED
      BY <2>3, <2>4 DEF WorkInv
  <1> QED
    BY <1>1, <1>4, <1>5, <1>6, WorkFields, WorkConstants

LEMMA WorkFail ==
    ASSUME WorkInv, NEW t \in tasks, W!Fail(t)
    PROVE  WorkInv'
  <1>1. WorkTyped /\ W!WaitsHaveCause
    BY DEF WorkInv
  <1>2. PICK m \in W!Task : /\ tasks' = (tasks \ {t}) \cup {m}
                            /\ m.n = t.n /\ m.kind = t.kind /\ m.key = t.key /\ m.answer = "error"
    BY <1>1, WorkAnswered DEF W!Fail
  <1>3. /\ disturbed' = TRUE /\ mishaps' \in 0 .. MaxMishaps /\ held' = held
        /\ UNCHANGED <<scanId, filesFound, summary, isScanning, isIngesting, listing, begun>>
    BY <1>1, WorkConstants DEF W!Fail, W!scanning, WorkTyped, W!TypeOK
  <1>4. held \subseteq W!Scans
    BY <1>1 DEF WorkTyped, W!TypeOK
  <1> QED
    BY <1>1, <1>2, <1>3, <1>4, WorkAnswerKeeps DEF WorkInv, WorkQuiet

LEMMA WorkRestart == ASSUME WorkInv, W!Restart PROVE WorkInv'
  <1> DEFINE cut(t) == IF t.answer = "none" /\ t.kind \notin W!Tabs
                       THEN [t EXCEPT !.answer = "error"] ELSE t
  <1>1. WorkTyped /\ W!WaitsHaveCause
    BY DEF WorkInv
  <1>2. \A t \in tasks : cut(t) \in W!Task /\ cut(t).n = t.n /\ cut(t).kind = t.kind
                           /\ cut(t).key = t.key
    BY <1>1 DEF WorkTyped, W!TypeOK, W!Task
  <1>3. /\ tasks' = {cut(t) : t \in tasks} /\ held' = {} /\ disturbed' = TRUE
        /\ mishaps' \in 0 .. MaxMishaps
        /\ UNCHANGED <<scanId, filesFound, summary, isScanning, isIngesting, listing, begun>>
    BY <1>1, WorkConstants DEF W!Restart, WorkTyped, W!TypeOK
  <1> HIDE DEF cut
  <1>4. WorkTyped'
    BY <1>1, <1>2, <1>3 DEF WorkTyped, W!TypeOK
  <1>5. W!WaitsHaveCause'
    BY <1>1, <1>2, <1>3 DEF W!WaitsHaveCause
  <1> QED
    BY <1>3, <1>4, <1>5 DEF WorkInv, WorkQuiet

\* A request is sent: the number is new, and undisturbed the page has no other one.
LEMMA WorkBegins ==
    ASSUME WorkTyped, NEW kind \in {"scan", "ingest", "tracks", "albums"},
           NEW key \in 1 .. MaxTasks + Pages, W!Begin(kind, key)
    PROVE  \E m \in W!Task :
             /\ tasks' = tasks \cup {m} /\ m.kind = kind /\ m.key = key /\ m.answer = "none"
             /\ m.n = begun + 1 /\ begun' = begun + 1 /\ begun' \in 0 .. MaxTasks
             /\ \A t \in tasks' : t.n <= begun'
             /\ \A s, t \in tasks' : s.n = t.n => s = t
             /\ disturbed' \in BOOLEAN
             /\ ~disturbed' => ~disturbed /\ \A t \in tasks : t.kind \notin W!Of(kind)
             /\ mishaps' = mishaps
  <1> DEFINE m == W!NewTask(begun + 1, kind, key)
  <1>1. begun \in 0 .. MaxTasks /\ begun < MaxTasks /\ MaxTasks \in Nat
    BY WorkConstants DEF WorkTyped, W!TypeOK, W!Begin
  <1>2. begun + 1 \in 1 .. MaxTasks
    BY <1>1
  <1>3. m \in W!Task /\ m.n = begun + 1 /\ m.kind = kind /\ m.key = key /\ m.answer = "none"
    BY <1>2, WorkTaskType, WorkConstants
  <1>4. /\ tasks' = tasks \cup {m} /\ begun' = begun + 1 /\ mishaps' = mishaps
        /\ disturbed' = (disturbed \/ \E t \in tasks : t.kind \in W!Of(kind))
    BY DEF W!Begin
  <1> HIDE DEF m
  <1>5. \A t \in tasks : t.n <= begun /\ t.n \in Nat
    BY WorkFields
  <1>6. \A s, t \in tasks' : s.n = t.n => s = t
    BY <1>1, <1>3, <1>4, <1>5 DEF WorkTyped, W!TypeOK
  <1>7. \A t \in tasks' : t.n <= begun'
    BY <1>1, <1>3, <1>4, <1>5
  <1>8. /\ disturbed' \in BOOLEAN
        /\ ~disturbed' => ~disturbed /\ \A t \in tasks : t.kind \notin W!Of(kind)
    BY <1>4 DEF WorkTyped, W!TypeOK
  <1>9. begun' \in 0 .. MaxTasks
    BY <1>1, <1>4
  <1> QED
    BY <1>3, <1>4, <1>6, <1>7, <1>8, <1>9, Zenon

LEMMA WorkScan == ASSUME WorkInv, W!Scan PROVE WorkInv'
  <1>1. WorkTyped /\ W!WaitsHaveCause /\ WorkQuiet
    BY DEF WorkInv
  <1>2. PICK m \in W!Task :
          /\ tasks' = tasks \cup {m} /\ m.kind = "scan" /\ m.key = 1 /\ m.answer = "none"
          /\ begun' \in 0 .. MaxTasks
          /\ \A t \in tasks' : t.n <= begun'
          /\ \A s, t \in tasks' : s.n = t.n => s = t
          /\ disturbed' \in BOOLEAN
          /\ ~disturbed' => ~disturbed /\ \A t \in tasks : t.kind \notin W!Of("scan")
          /\ mishaps' = mishaps
    BY <1>1, WorkBegins, WorkConstants DEF W!Scan
  <1>3. /\ scanId' = 0 /\ filesFound' = 0 /\ summary' = 0 /\ isScanning' = TRUE
        /\ UNCHANGED <<held, isIngesting, listing>>
    BY WorkConstants DEF W!Scan
  <1>4. WorkTyped'
    BY <1>1, <1>2, <1>3, WorkConstants DEF WorkTyped, W!TypeOK
  <1>5. W!WaitsHaveCause'
    BY <1>1, <1>2, <1>3 DEF W!WaitsHaveCause
  <1>6. WorkQuiet'
    <2>1. 0 \notin held
      BY <1>1, WorkConstants DEF WorkTyped, W!TypeOK
    <2>2. ~disturbed' => \A t \in tasks : t.kind \in W!Tabs
      BY <1>1, <1>2, WorkFields, WorkConstants DEF W!Of
    <2> QED
      BY <1>1, <1>2, <1>3, <2>1, <2>2, WorkConstants DEF WorkQuiet, W!Of
  <1> QED
    BY <1>4, <1>5, <1>6 DEF WorkInv

LEMMA WorkIngest == ASSUME WorkInv, W!IngestAll PROVE WorkInv'
  <1>1. WorkTyped /\ W!WaitsHaveCause /\ WorkQuiet
    BY DEF WorkInv
  <1>2. scanId \in W!Scans /\ scanId \in 1 .. MaxTasks /\ scanId \in 1 .. MaxTasks + Pages
    BY <1>1, WorkConstants DEF W!IngestAll, WorkTyped, W!TypeOK
  <1>3. PICK m \in W!Task :
          /\ tasks' = tasks \cup {m} /\ m.kind = "ingest" /\ m.key = scanId /\ m.answer = "none"
          /\ begun' \in 0 .. MaxTasks
          /\ \A t \in tasks' : t.n <= begun'
          /\ \A s, t \in tasks' : s.n = t.n => s = t
          /\ disturbed' \in BOOLEAN
          /\ ~disturbed' => ~disturbed /\ \A t \in tasks : t.kind \notin W!Of("ingest")
          /\ mishaps' = mishaps
    BY <1>1, <1>2, WorkBegins, WorkConstants DEF W!IngestAll
  <1>4. /\ summary' = 0 /\ isIngesting' = TRUE
        /\ UNCHANGED <<held, scanId, filesFound, isScanning, listing>>
    BY WorkConstants DEF W!IngestAll
  <1>5. WorkTyped'
    BY <1>1, <1>2, <1>3, <1>4, WorkConstants DEF WorkTyped, W!TypeOK
  <1>6. W!WaitsHaveCause'
    BY <1>1, <1>3, <1>4 DEF W!WaitsHaveCause
  <1>7. WorkQuiet'
    <2>1. 0 \notin held
      BY <1>1, WorkConstants DEF WorkTyped, W!TypeOK
    <2>2. ~disturbed' => \A t \in tasks : t.kind \in W!Tabs
      BY <1>1, <1>3, WorkFields, WorkConstants DEF W!Of
    <2>3. ~disturbed' => scanId \in held
      BY <1>1, <1>2, <1>3, <2>2, WorkConstants DEF WorkQuiet
    <2> QED
      BY <1>1, <1>2, <1>3, <1>4, <2>1, <2>2, <2>3, WorkConstants DEF WorkQuiet, W!Of
  <1> QED
    BY <1>5, <1>6, <1>7 DEF WorkInv

LEMMA WorkScanned ==
    ASSUME WorkInv, NEW t \in tasks, W!Scanned(t)
    PROVE  WorkInv'
  <1>1. WorkTyped /\ W!WaitsHaveCause /\ WorkQuiet
    BY DEF WorkInv
  <1>2. /\ t.kind = "scan" /\ t.n \in 1 .. MaxTasks /\ t.files \in 0 .. 1
        /\ t.answer \in {"ok", "error"}
    BY <1>1, WorkFields DEF W!Scanned
  <1>3. /\ isScanning' = FALSE /\ tasks' = tasks \ {t}
        /\ UNCHANGED <<held, summary, isIngesting, listing, begun, mishaps, disturbed>>
        /\ \/ t.answer = "ok" /\ scanId' = t.n /\ filesFound' = t.files
           \/ t.answer # "ok" /\ scanId' = scanId /\ filesFound' = filesFound
    BY DEF W!Scanned
  <1>4. WorkTyped'
    BY <1>1, <1>2, <1>3, WorkConstants DEF WorkTyped, W!TypeOK
  <1>5. W!WaitsHaveCause'
    BY <1>1, <1>2, <1>3, WorkConstants DEF W!WaitsHaveCause
  <1>6. WorkQuiet'
    <2>1. ~disturbed => \A s \in tasks : s.kind \in {"scan", "ingest"} => s = t
      BY <1>1, <1>2 DEF WorkQuiet, W!Of
    <2>2. ~disturbed => t.answer = "ok" /\ t.n \in held /\ summary = 0
      BY <1>1, <1>2 DEF WorkQuiet
    <2>3. ~disturbed /\ (\A s \in tasks' : s.kind \notin W!Tabs) => \A s \in tasks : s.kind \notin W!Tabs
      BY <1>2, <1>3, WorkConstants
    <2> QED
      BY <1>1, <1>2, <1>3, <2>1, <2>2, <2>3, WorkConstants DEF WorkQuiet
  <1> QED
    BY <1>4, <1>5, <1>6 DEF WorkInv

LEMMA WorkIngested ==
    ASSUME WorkInv, NEW t \in tasks, W!Ingested(t)
    PROVE  WorkInv'
  <1>1. WorkTyped /\ W!WaitsHaveCause /\ WorkQuiet
    BY DEF WorkInv
  <1>2. t.kind = "ingest" /\ t.answer \in {"ok", "error"}
    BY <1>1, WorkFields DEF W!Ingested
  <1>3. /\ isIngesting' = FALSE /\ tasks' = tasks \ {t}
        /\ UNCHANGED <<held, filesFound, isScanning, listing, begun, mishaps, disturbed>>
        /\ \/ t.answer = "ok" /\ summary' = t.key /\ scanId' = 0
           \/ t.answer # "ok" /\ summary' = summary /\ scanId' = scanId
    BY WorkConstants DEF W!Ingested, W!Consumed
  <1>4. WorkTyped'
    <2>1. t.answer = "ok" => t.key \in W!Scans
      BY <1>1, <1>2 DEF WorkTyped
    <2> QED
      BY <1>1, <1>2, <1>3, <2>1, WorkConstants DEF WorkTyped, W!TypeOK
  <1>5. W!WaitsHaveCause'
    BY <1>1, <1>2, <1>3, WorkConstants DEF W!WaitsHaveCause
  <1>6. WorkQuiet'
    <2>1. ~disturbed => \A s \in tasks : s.kind \in {"scan", "ingest"} => s = t
      BY <1>1, <1>2 DEF WorkQuiet, W!Of
    <2>2. ~disturbed => t.answer = "ok" /\ t.key \notin held
      BY <1>1, <1>2 DEF WorkQuiet
    <2>3. ~disturbed /\ (\A s \in tasks' : s.kind \notin W!Tabs) => \A s \in tasks : s.kind \notin W!Tabs
      BY <1>2, <1>3, WorkConstants
    <2> QED
      BY <1>1, <1>2, <1>3, <2>1, <2>2, <2>3, WorkConstants DEF WorkQuiet
  <1> QED
    BY <1>4, <1>5, <1>6 DEF WorkInv

LEMMA WorkTurn ==
    ASSUME WorkInv, NEW which \in W!Tabs, NEW p \in 1 .. Pages, W!Turn(which, p)
    PROVE  WorkInv'
  <1>1. WorkTyped /\ W!WaitsHaveCause /\ WorkQuiet
    BY DEF WorkInv
  <1>2. p \in 1 .. MaxTasks + Pages /\ which \in {"scan", "ingest", "tracks", "albums"}
    BY WorkConstants
  <1>3. PICK m \in W!Task :
          /\ tasks' = tasks \cup {m} /\ m.kind = which /\ m.key = p /\ m.answer = "none"
          /\ begun' \in 0 .. MaxTasks
          /\ \A t \in tasks' : t.n <= begun'
          /\ \A s, t \in tasks' : s.n = t.n => s = t
          /\ disturbed' \in BOOLEAN
          /\ ~disturbed' => ~disturbed /\ \A t \in tasks : t.kind \notin W!Of(which)
          /\ mishaps' = mishaps
    BY <1>1, <1>2, WorkBegins DEF W!Turn
  <1>4. /\ UNCHANGED W!scanning
        /\ listing' \in W!Listing /\ listing'.tab = which /\ listing'.page = p
    <2>1. listing \in W!Listing
      BY <1>1 DEF WorkTyped, W!TypeOK
    <2>2. listing' = [listing EXCEPT !.tab = which, !.page = p, !.loading = TRUE]
      BY DEF W!Turn
    <2> DEFINE a == [listing EXCEPT !.tab = which]
               b == [a EXCEPT !.page = p]
    <2>3. a \in W!Listing /\ a.tab = which
      BY <2>1 DEF W!Listing
    <2>4. listing' = [b EXCEPT !.loading = TRUE]
      BY <2>1, <2>2 DEF W!Listing
    <2> HIDE DEF a
    <2>5. b \in W!Listing /\ b.tab = which /\ b.page = p
      BY <2>3 DEF W!Listing
    <2> HIDE DEF b
    <2> QED
      BY <2>4, <2>5 DEF W!Listing, W!Turn
  <1>5. WorkTyped'
    <2>1. m.kind # "ingest"
      BY <1>3, WorkConstants
    <2> QED
      BY <1>1, <1>3, <1>4, <2>1 DEF WorkTyped, W!TypeOK, W!scanning
  <1>6. W!WaitsHaveCause'
    BY <1>1, <1>3, <1>4 DEF W!WaitsHaveCause, W!scanning
  <1>7. WorkQuiet'
    <2>1. W!Of(which) = W!Tabs /\ which \notin {"scan", "ingest"}
      BY WorkConstants DEF W!Of
    <2>2. \A k \in {"scan", "ingest"} : W!Of(k) # W!Tabs
      BY WorkConstants DEF W!Of
    <2>3. UNCHANGED <<held, scanId, summary>>
      BY <1>4 DEF W!scanning
    <2>4. ~disturbed' => \A t \in tasks : t.kind \in {"scan", "ingest"}
      BY <1>1, <1>3, <2>1, WorkFields, WorkConstants
    <2> QED
      BY <1>1, <1>3, <1>4, <2>1, <2>2, <2>3, <2>4 DEF WorkQuiet
  <1> QED
    BY <1>5, <1>6, <1>7 DEF WorkInv

LEMMA WorkSameTab == ASSUME WorkInv, W!SameTab PROVE WorkInv'
  <1>1. WorkTyped /\ W!WaitsHaveCause /\ WorkQuiet
    BY DEF WorkInv
  <1>2. /\ UNCHANGED W!scanning /\ UNCHANGED <<tasks, begun, mishaps, disturbed>>
        /\ listing' \in W!Listing /\ listing'.tab = listing.tab /\ listing'.page = listing.page
        /\ listing'.has = listing.has /\ listing'.idle
    BY <1>1 DEF W!SameTab, WorkTyped, W!TypeOK, W!Listing
  <1>3. WorkTyped'
    BY <1>1, <1>2 DEF WorkTyped, W!TypeOK, W!scanning
  <1>4. W!WaitsHaveCause'
    BY <1>1, <1>2 DEF W!WaitsHaveCause, W!scanning
  <1>5. WorkQuiet'
    BY <1>1, <1>2 DEF WorkQuiet, W!scanning
  <1> QED
    BY <1>3, <1>4, <1>5 DEF WorkInv

LEMMA WorkListed ==
    ASSUME WorkInv, NEW t \in tasks, W!Listed(t)
    PROVE  WorkInv'
  <1>1. WorkTyped /\ W!WaitsHaveCause /\ WorkQuiet
    BY DEF WorkInv
  <1>2. /\ t.kind \in W!Tabs /\ t.answer \in {"ok", "error"} /\ tasks' = tasks \ {t}
        /\ UNCHANGED W!scanning /\ UNCHANGED <<begun, mishaps, disturbed>>
        /\ t.key \in 1 .. Pages
    BY <1>1, WorkFields DEF W!Listed
  <1>3. PICK n \in 0 .. Pages : n = IF t.answer = "ok" THEN t.key ELSE 0
    BY <1>2, WorkConstants
  <1>4. /\ listing' \in W!Listing /\ ~listing'.loading
        /\ listing'.tab = listing.tab /\ listing'.page = listing.page
        /\ listing'.has = [listing.has EXCEPT ![t.kind] = n]
    <2>1. listing \in W!Listing
      BY <1>1 DEF WorkTyped, W!TypeOK
    <2>2. listing' = [listing EXCEPT !.has[t.kind] = n, !.loading = FALSE, !.idle = FALSE]
      BY <1>3, WorkConstants DEF W!Listed, W!Taken
    <2> DEFINE has == [listing.has EXCEPT ![t.kind] = n]
               a == [listing EXCEPT !.has = has]
               b == [a EXCEPT !.loading = FALSE]
    <2>3. has \in [W!Tabs -> 0 .. Pages]
      BY <2>1 DEF W!Listing
    <2>4. listing' = [b EXCEPT !.idle = FALSE]
      BY <2>1, <2>2 DEF W!Listing
    <2> HIDE DEF has
    <2>5. a \in W!Listing /\ a.tab = listing.tab /\ a.page = listing.page /\ a.has = has
      BY <2>1, <2>3 DEF W!Listing
    <2> HIDE DEF a
    <2>6. /\ b \in W!Listing /\ b.tab = listing.tab /\ b.page = listing.page /\ b.has = has
          /\ ~b.loading
      BY <2>5 DEF W!Listing
    <2> HIDE DEF b
    <2>7. /\ listing' \in W!Listing /\ ~listing'.loading
          /\ listing'.tab = listing.tab /\ listing'.page = listing.page /\ listing'.has = has
      BY <2>4, <2>6 DEF W!Listing
    <2> QED
      BY <2>7 DEF has
  <1>5. WorkTyped'
    BY <1>1, <1>2, <1>4 DEF WorkTyped, W!TypeOK, W!scanning
  <1>6. W!WaitsHaveCause'
    BY <1>1, <1>2, <1>4, WorkConstants DEF W!WaitsHaveCause, W!scanning
  <1>7. WorkQuiet'
    <2>1. UNCHANGED <<held, scanId, summary>>
      BY <1>2 DEF W!scanning
    <2>2. ~disturbed => /\ \A s \in tasks : s.kind \in W!Tabs => s = t
                        /\ t.kind = listing.tab /\ n = listing.page
      BY <1>1, <1>2, <1>3 DEF WorkQuiet, W!Of
    <2>3. ~disturbed => listing'.has[listing'.tab] = listing'.page
      <3>1. listing.has \in [W!Tabs -> 0 .. Pages]
        BY <1>1 DEF WorkTyped, W!TypeOK, W!Listing
      <3> QED
        BY <1>2, <1>4, <2>2, <3>1
    <2>4. t.kind # "ingest"
      BY <1>2, WorkConstants
    <2> QED
      BY <1>1, <1>2, <1>4, <2>1, <2>2, <2>3, <2>4 DEF WorkQuiet
  <1> QED
    BY <1>5, <1>6, <1>7 DEF WorkInv

LEMMA WorkKept == WorkInv /\ [W!Next]_(W!vars) => WorkInv'
  <1> SUFFICES ASSUME WorkInv, [W!Next]_(W!vars) PROVE WorkInv'
    OBVIOUS
  <1>1. CASE UNCHANGED W!vars
    BY <1>1 DEF W!vars, W!scanning, WorkInv, WorkTyped, W!TypeOK, W!WaitsHaveCause, WorkQuiet
  <1>2. ASSUME NEW t \in tasks,
               W!Serve(t) \/ W!Fail(t) \/ W!Scanned(t) \/ W!Ingested(t) \/ W!Listed(t)
        PROVE  WorkInv'
    BY <1>2, WorkServe, WorkFail, WorkScanned, WorkIngested, WorkListed
  <1>3. CASE W!Restart \/ W!Scan \/ W!IngestAll \/ W!SameTab
    BY <1>3, WorkRestart, WorkScan, WorkIngest, WorkSameTab
  <1>4. ASSUME NEW which \in W!Tabs, W!SwitchTab(which) PROVE WorkInv'
    BY <1>4, WorkTurn, WorkConstants DEF W!SwitchTab
  <1>5. CASE W!PrevPage \/ W!NextPage
    <2>1. listing.tab \in W!Tabs /\ listing.page \in 1 .. Pages
      BY DEF WorkInv, WorkTyped, W!TypeOK, W!Listing
    <2>2. PICK p \in 1 .. Pages : W!Turn(listing.tab, p)
      BY <1>5, <2>1, WorkConstants DEF W!PrevPage, W!NextPage
    <2> QED
      BY <2>1, <2>2, WorkTurn
  <1> QED
    BY <1>1, <1>2, <1>3, <1>4, <1>5 DEF W!Next

-----------------------------------------------------------------------------
(* The slots of the requests under way *)

\* A set of numbers has a least one: strict inclusion of the intervals below its members
\* is well-founded.
LEMMA LeastExists ==
    ASSUME NEW S \in SUBSET Nat, S # {}
    PROVE  \E x \in S : \A y \in S : x <= y
  <1> DEFINE below == {0 .. i : i \in S}
  <1>1. below \subseteq FiniteSubsetsOf(Nat) /\ below # {}
    <2>1. \A i \in S : 0 .. i \in SUBSET Nat /\ IsFiniteSet(0 .. i)
      BY FS_Interval
    <2> QED
      BY <2>1 DEF FiniteSubsetsOf
  <1>2. PICK X \in below : \A Y \in below : <<Y, X>> \notin StrictSubsetOrdering(Nat)
    BY <1>1, FS_StrictSubsetOrderingWellFounded, WFMin
  <1>3. PICK x \in S : X = 0 .. x
    OBVIOUS
  <1>4. ASSUME NEW y \in S PROVE x <= y
    <2> SUFFICES ASSUME y < x PROVE FALSE
      OBVIOUS
    <2>1. 0 .. y \in below /\ 0 .. y \subseteq 0 .. x /\ x \in 0 .. x /\ x \notin 0 .. y
      OBVIOUS
    <2>2. <<0 .. y, X>> \in StrictSubsetOrdering(Nat)
      BY <1>3, <2>1 DEF StrictSubsetOrdering
    <2> QED
      BY <1>2, <2>1, <2>2
  <1> QED
    BY <1>4

\* Fewer tasks than slots leave one free.
LEMMA FreeSlot ==
    ASSUME NEW n \in Nat, NEW ts, \A t \in ts : t.id \in 1 .. n,
           \A s, t \in ts : s.id = t.id => s = t, Cardinality(ts) < n
    PROVE  \E k \in 1 .. n : \A t \in ts : t.id # k
  <1> DEFINE id == [t \in ts |-> t.id]
  <1>1. IsFiniteSet(1 .. n) /\ Cardinality(1 .. n) = n
    BY FS_Interval
  <1>2. id \in Injection(ts, 1 .. n)
    BY DEF Injection, IsInjective
  <1>3. IsFiniteSet(ts) /\ Cardinality(ts) \in Nat
    BY <1>1, <1>2, FS_Injection, FS_CardinalityType
  <1>4. id \notin Surjection(ts, 1 .. n)
    <2> SUFFICES ASSUME id \in Surjection(ts, 1 .. n) PROVE FALSE
      OBVIOUS
    <2>1. Cardinality(1 .. n) <= Cardinality(ts)
      BY <1>3, FS_Surjection
    <2> QED
      BY <1>1, <1>3, <2>1
  <1>5. PICK k \in 1 .. n : \A t \in ts : id[t] # k
    BY <1>2, <1>4 DEF Injection, Surjection
  <1> QED
    BY <1>5

\* AdminForms and AdminUsers count as FiniteSetTheorems does.
LEMMA SameCount ==
    ASSUME NEW S
    PROVE  F!Cardinality(S) = Cardinality(S) /\ U!Cardinality(S) = Cardinality(S)
  BY DEF F!Cardinality, U!Cardinality, Cardinality

-----------------------------------------------------------------------------
(* The forms *)

\* Where nothing was typed a form has what it was filled with.
Unspoilt(fm) == fm.known => \A f \in F!Fields \ fm.touched : fm.val[f] = fm.base.val[f]

FormsTyped ==
    /\ F!TypeOK
    /\ page # "editor" => form.of = 1 /\ tab = 1 /\ \A t \in tasks : t.key = 1
    /\ page = "editor" /\ form.of # 0 => form.known /\ form.of = tab
    /\ \A f \in F!Fields : form.val[f] = 2 => page = "settings" /\ f = "a"
    /\ Unspoilt(form)
    /\ \A t \in tasks :
         /\ Unspoilt(t.sent)
         /\ t.kind = "save" => /\ t.sent.val \in [F!Fields -> 0 .. 1]
                               /\ t.sent.known \/ page = "settings"

\* The flags of a drawer are its own.
FormsWait ==
    /\ loading => \E t \in tasks : t.kind = "load"
    /\ saving => \E t \in tasks : t.kind = "save" /\ t.drawer = opened
    /\ other => \E t \in tasks : t.kind = "other" /\ t.drawer = opened

\* A request that writes has been served, and the page does not know yet.
Behind == \E t \in tasks : t.kind \in F!Writes /\ t.answer = "ok"

\* Undisturbed, a request that writes is alone, and what was answered is still stored.
FormsQuiet ==
    ~disturbed =>
        /\ \A s, t \in tasks : s.kind \in F!Writes => s = t
        /\ \A t \in tasks :
             /\ t.answer # "error" /\ t.key = tab
             /\ t.answer = "ok" => t.record = store[tab]
        /\ page # "editor" => form.known \/ \E t \in tasks : t.kind = "load"
        /\ ~Behind /\ form.of # 0 /\ form.known =>
             \A f \in F!Fields \ form.touched : form.val[f] = store[tab].val[f]
        /\ ~Behind /\ page = "editor" /\ (~loading \/ \A t \in tasks : t.kind # "load") =>
             known[tab] = store[tab]

FormsInv == FormsTyped /\ FormsWait /\ FormsQuiet

LEMMA FormsConstants ==
    /\ MaxTasks \in Nat \ {0} /\ MaxAtOnce \in Nat \ {0} /\ MaxMishaps \in Nat
    /\ F!Keys = {1, 2} /\ F!NoKey = 0 /\ F!Fields = {"a", "b"} /\ F!Bad = 2 /\ F!Default = 0
  BY PagesConstants DEF F!AdminFormsAssumption, F!Keys, F!NoKey, F!Fields, F!Bad, F!Default

LEMMA FormsShows == FormsInv => F!ShownIsStored /\ F!WaitsHaveCause
  <1> SUFFICES ASSUME FormsInv PROVE F!ShownIsStored /\ F!WaitsHaveCause
    OBVIOUS
  <1>1. F!WaitsHaveCause
    BY DEF FormsInv, FormsWait, F!WaitsHaveCause
  <1>2. ASSUME tasks = {}, ~disturbed
        PROVE  /\ \A f \in F!Fields \ form.touched :
                    form.of # F!NoKey => form.val[f] = store[form.of].val[f]
               /\ page = "editor" => known[tab] = store[tab]
    <2>1. ~Behind
      BY <1>2 DEF Behind
    <2>2. form.of # 0 => form.known /\ form.of = tab
      BY <1>2 DEF FormsInv, FormsTyped, FormsQuiet
    <2> QED
      BY <1>2, <2>1, <2>2, FormsConstants DEF FormsInv, FormsQuiet
  <1> QED
    BY <1>1, <1>2 DEF F!ShownIsStored

LEMMA FormTypes ==
    /\ F!Unknown \in F!Record /\ F!NoForm \in F!Form
    /\ F!NoForm.of = 0 /\ F!NoForm.known = FALSE
    /\ \A f \in F!Fields : F!NoForm.val[f] = 0
    /\ \A k \in F!Keys, r \in F!Record :
         /\ F!Filled(k, r) \in F!Form /\ F!Filled(k, r).of = k /\ F!Filled(k, r).known
         /\ F!Filled(k, r).val = r.val /\ F!Filled(k, r).base = r
         /\ F!Filled(k, r).touched = {}
  <1>1. [f \in F!Fields |-> 0] \in [F!Fields -> 0 .. 1]
        /\ [f \in F!Fields |-> 0] \in [F!Fields -> 0 .. 2]
    OBVIOUS
  <1>2. F!Unknown \in F!Record
    BY <1>1, FormsConstants DEF F!Unknown, F!Record
  <1>3. F!NoForm \in F!Form
    BY <1>1, <1>2, FormsConstants DEF F!NoForm, F!Form
  <1>4. F!NoForm.of = 0 /\ F!NoForm.known = FALSE /\ \A f \in F!Fields : F!NoForm.val[f] = 0
    BY FormsConstants DEF F!NoForm
  <1>5. ASSUME NEW k \in F!Keys, NEW r \in F!Record
        PROVE  /\ F!Filled(k, r) \in F!Form /\ F!Filled(k, r).of = k /\ F!Filled(k, r).known
               /\ F!Filled(k, r).val = r.val /\ F!Filled(k, r).base = r
               /\ F!Filled(k, r).touched = {}
    <2>1. r.val \in [F!Fields -> 0 .. 2]
      BY DEF F!Record
    <2> QED
      BY <2>1, FormsConstants DEF F!Filled, F!Form
  <1> QED
    BY <1>2, <1>3, <1>4, <1>5

LEMMA FormsTaskType ==
    ASSUME NEW n \in 1 .. MaxAtOnce, NEW kind \in {"load", "save", "other"}, NEW key \in F!Keys,
           form \in F!Form, opened \in 0 .. MaxTasks
    PROVE  LET m == F!NewTask(n, kind, key) IN
             /\ m \in F!Task /\ m.id = n /\ m.kind = kind /\ m.key = key /\ m.sent = form
             /\ m.drawer = opened /\ m.answer = "none"
  BY FormTypes DEF F!NewTask, F!Task

LEMMA FormsFields ==
    ASSUME FormsTyped, NEW t \in tasks
    PROVE  /\ t \in F!Task
           /\ t.id \in 1 .. MaxAtOnce /\ t.kind \in {"load", "save", "other"} /\ t.key \in F!Keys
           /\ t.sent \in F!Form /\ t.drawer \in 0 .. MaxTasks
           /\ t.answer \in {"none", "ok", "error"} /\ t.record \in F!Record
  BY DEF FormsTyped, F!TypeOK, F!Task

LEMMA FormsStart == F!Init => FormsInv
  <1> SUFFICES ASSUME F!Init PROVE FormsInv
    OBVIOUS
  <1> DEFINE new == F!NewTask(1, "load", 1)
  <1>1. /\ form \in F!Form /\ form.known = FALSE /\ form.of = IF page = "editor" THEN 0 ELSE 1
        /\ \A f \in F!Fields : form.val[f] = 0
    BY FormTypes, FormsConstants DEF F!Init, F!Form
  <1>2. /\ page \in {"config", "settings", "editor"} /\ tab = 1 /\ loading = TRUE
        /\ saving = FALSE /\ other = FALSE /\ opened = 0 /\ tasks = {new} /\ begun = 1
        /\ mishaps = 0 /\ disturbed = FALSE
    BY DEF F!Init
  <1>3. /\ new \in F!Task /\ new.id = 1 /\ new.kind = "load" /\ new.key = 1 /\ new.sent = form
        /\ new.drawer = 0 /\ new.answer = "none"
    <2>1. opened \in 0 .. MaxTasks /\ 1 \in 1 .. MaxAtOnce /\ 1 \in F!Keys
      BY <1>2, FormsConstants
    <2> QED
      BY <1>1, <1>2, <2>1, FormsTaskType
  <1> HIDE DEF new
  <1>4. F!TypeOK
    <2>1. [k \in F!Keys |-> [val |-> [f \in F!Fields |-> 1], edited |-> FALSE]] \in [F!Keys -> F!Record]
      BY DEF F!Record
    <2>2. store \in [F!Keys -> F!Record] /\ known \in [F!Keys -> F!Record]
      BY <2>1, FormTypes DEF F!Init
    <2>3. tasks \subseteq F!Task /\ \A s, t \in tasks : s.id = t.id => s = t
      BY <1>2, <1>3
    <2>4. begun \in 1 .. MaxTasks /\ mishaps \in 0 .. MaxMishaps /\ tab \in F!Keys /\ opened \in 0 .. MaxTasks
      BY <1>2, FormsConstants
    <2>5. loading \in BOOLEAN /\ saving \in BOOLEAN /\ other \in BOOLEAN /\ disturbed \in BOOLEAN
      BY <1>2, Zenon
    <2> QED
      BY <1>1, <1>2, <2>2, <2>3, <2>4, <2>5 DEF F!TypeOK
  <1>5. FormsTyped
    BY <1>1, <1>2, <1>3, <1>4, FormsConstants DEF FormsTyped, Unspoilt
  <1>6. FormsWait
    BY <1>2, <1>3 DEF FormsWait
  <1>7. FormsQuiet
    BY <1>1, <1>2, <1>3 DEF FormsQuiet
  <1> QED
    BY <1>5, <1>6, <1>7 DEF FormsInv

\* A request is sent: it takes a free slot, and undisturbed it is alone or, as a load,
\* among loads of one tab.
Begun(ts, kind, key, m) ==
    /\ tasks' = ts \cup {m} /\ m.kind = kind /\ m.key = key /\ m.sent = form
    /\ m.drawer = opened /\ m.answer = "none"
    /\ \A s, t \in tasks' : s.id = t.id => s = t
    /\ begun' \in 1 .. MaxTasks /\ disturbed' \in BOOLEAN
    /\ ~disturbed' =>
         ~disturbed /\ \A t \in ts : t.key = key /\ t.kind \notin F!Writes /\ kind \notin F!Writes
    /\ UNCHANGED <<page, store, mishaps>>

LEMMA FormsBegins ==
    ASSUME FormsTyped, NEW ts \in SUBSET tasks, NEW kind \in {"load", "save", "other"},
           NEW key \in F!Keys, F!Begin(ts, kind, key)
    PROVE  \E m \in F!Task : Begun(ts, kind, key, m)
  <1> DEFINE free == {n \in 1 .. MaxAtOnce : \A t \in ts : t.id # n}
             slot == F!Min(free)
             m == F!NewTask(slot, kind, key)
  <1>1. /\ begun \in 1 .. MaxTasks /\ begun < MaxTasks /\ begun' = begun + 1
        /\ Cardinality(ts) < MaxAtOnce /\ tasks' = ts \cup {m}
        /\ disturbed' = (disturbed \/ \E t \in ts : t.key # key \/ {kind, t.kind} \cap F!Writes # {})
        /\ UNCHANGED <<page, store, mishaps>>
    BY SameCount DEF F!Begin, FormsTyped, F!TypeOK
  <1>2. begun' \in 1 .. MaxTasks
    BY <1>1, FormsConstants
  <1>3. /\ \A t \in ts : t.id \in 1 .. MaxAtOnce
        /\ \A s, t \in ts : s.id = t.id => s = t
    BY FormsFields DEF FormsTyped, F!TypeOK
  <1>4. free \in SUBSET Nat /\ free # {}
    <2>1. \E k \in 1 .. MaxAtOnce : \A t \in ts : t.id # k
      BY <1>1, <1>3, FreeSlot, FormsConstants
    <2> QED
      BY <2>1, FormsConstants
  <1>5. slot \in free
    <2>1. \E x \in free : \A y \in free : x <= y
      BY <1>4, LeastExists
    <2> HIDE DEF free
    <2> QED
      BY <2>1 DEF F!Min
  <1>6. slot \in 1 .. MaxAtOnce /\ \A t \in ts : t.id # slot
    BY <1>5
  <1> HIDE DEF slot, free
  <1>7. form \in F!Form /\ opened \in 0 .. MaxTasks
    BY DEF FormsTyped, F!TypeOK
  <1>8. /\ m \in F!Task /\ m.id = slot /\ m.kind = kind /\ m.key = key /\ m.sent = form
        /\ m.drawer = opened /\ m.answer = "none"
    BY <1>6, <1>7, FormsTaskType
  <1> HIDE DEF m
  <1>9. \A s, t \in tasks' : s.id = t.id => s = t
    BY <1>1, <1>3, <1>6, <1>8
  <1>10. /\ disturbed' \in BOOLEAN
         /\ ~disturbed' =>
              ~disturbed /\ \A t \in ts : t.key = key /\ t.kind \notin F!Writes /\ kind \notin F!Writes
    BY <1>1 DEF FormsTyped, F!TypeOK
  <1> QED
    BY <1>1, <1>2, <1>8, <1>9, <1>10 DEF Begun

\* An answer changes a task in nothing else.
LEMMA FormsAnswered ==
    ASSUME FormsTyped, NEW t \in tasks, NEW how \in {"ok", "error"}, NEW r \in F!Record,
           F!Answered(t, how, r)
    PROVE  \E m \in F!Task :
             /\ tasks' = (tasks \ {t}) \cup {m} /\ m.id = t.id /\ m.kind = t.kind /\ m.key = t.key
             /\ m.sent = t.sent /\ m.drawer = t.drawer /\ m.answer = how /\ m.record = r
  <1>1. t \in F!Task
    BY FormsFields
  <1> DEFINE a == [t EXCEPT !.answer = how]
             m == [a EXCEPT !.record = r]
  <1>2. /\ a \in F!Task /\ a.id = t.id /\ a.kind = t.kind /\ a.key = t.key /\ a.sent = t.sent
        /\ a.drawer = t.drawer /\ a.answer = how
    BY <1>1 DEF F!Task
  <1>3. m = [t EXCEPT !.answer = how, !.record = r]
    BY <1>1 DEF F!Task
  <1> HIDE DEF a
  <1>4. /\ m \in F!Task /\ m.id = t.id /\ m.kind = t.kind /\ m.key = t.key /\ m.sent = t.sent
        /\ m.drawer = t.drawer /\ m.answer = how /\ m.record = r
    BY <1>2 DEF F!Task
  <1>5. tasks' = (tasks \ {t}) \cup {m}
    BY <1>3 DEF F!Answered
  <1> QED
    BY <1>4, <1>5

\* A task changes its answer: the forms stay what they are, and nobody waits in vain.
LEMMA FormsAnswerKeeps ==
    ASSUME FormsTyped, FormsWait, NEW t \in tasks, NEW m \in F!Task,
           tasks' = (tasks \ {t}) \cup {m}, m.id = t.id, m.kind = t.kind, m.key = t.key,
           m.sent = t.sent, m.drawer = t.drawer,
           store' \in [F!Keys -> F!Record], mishaps' \in 0 .. MaxMishaps, disturbed' \in BOOLEAN,
           UNCHANGED F!client, UNCHANGED <<page, begun>>
    PROVE  FormsTyped' /\ FormsWait'
  <1>1. /\ F!TypeOK'
    BY DEF FormsTyped, F!TypeOK, F!client
  <1>2. FormsTyped'
    BY <1>1 DEF FormsTyped, Unspoilt, F!client
  <1>3. FormsWait'
    BY DEF FormsWait, F!client
  <1> QED
    BY <1>2, <1>3

LEMMA FormsServe ==
    ASSUME FormsInv, NEW t \in tasks, F!Serve(t)
    PROVE  FormsInv'
  <1>1. FormsTyped /\ FormsWait /\ FormsQuiet
    BY DEF FormsInv
  <1> DEFINE r == F!Written(t)
  <1>2. /\ t.answer = "none" /\ store' = [store EXCEPT ![t.key] = r] /\ F!Answered(t, "ok", r)
        /\ UNCHANGED F!client /\ UNCHANGED <<page, begun, mishaps, disturbed>>
    BY DEF F!Serve
  <1>3. /\ t \in F!Task /\ t.key \in F!Keys /\ store \in [F!Keys -> F!Record]
        /\ mishaps \in 0 .. MaxMishaps /\ disturbed \in BOOLEAN
    BY <1>1, FormsFields DEF FormsTyped, F!TypeOK
  <1>4. r \in F!Record
    <2>1. CASE t.kind = "save"
      <3>1. t.sent.val \in [F!Fields -> 0 .. 1]
        BY <1>1, <2>1 DEF FormsTyped
      <3>2. r = [val |-> t.sent.val, edited |-> page = "editor"]
        BY <2>1 DEF F!Written
      <3> QED
        BY <3>1, <3>2 DEF F!Record
    <2>2. CASE t.kind = "other" /\ page = "editor"
      <3>1. r = [store[t.key] EXCEPT !.edited = FALSE]
        BY <2>2 DEF F!Written
      <3> QED
        BY <1>3, <3>1 DEF F!Record
    <2>3. CASE t.kind # "save" /\ ~(t.kind = "other" /\ page = "editor")
      BY <1>3, <2>3 DEF F!Written
    <2> QED
      BY <2>1, <2>2, <2>3
  <1>5. t.kind \notin F!Writes => r = store[t.key]
    BY DEF F!Written, F!Writes
  <1> HIDE DEF r
  <1>6. PICK m \in F!Task :
          /\ tasks' = (tasks \ {t}) \cup {m} /\ m.id = t.id /\ m.kind = t.kind /\ m.key = t.key
          /\ m.sent = t.sent /\ m.drawer = t.drawer /\ m.answer = "ok" /\ m.record = r
    BY <1>1, <1>2, <1>4, FormsAnswered
  <1>7. store' \in [F!Keys -> F!Record] /\ store'[t.key] = r
    BY <1>2, <1>3, <1>4
  <1>8. FormsTyped' /\ FormsWait'
    BY <1>1, <1>2, <1>3, <1>6, <1>7, FormsAnswerKeeps
  <1>9. FormsQuiet'
    <2> SUFFICES ASSUME ~disturbed PROVE FormsQuiet'
      BY <1>2 DEF FormsQuiet
    <2>1. /\ \A s, u \in tasks : s.kind \in F!Writes => s = u
          /\ \A s \in tasks : s.answer # "error" /\ s.key = tab /\ (s.answer = "ok" => s.record = store[tab])
          /\ page # "editor" => form.known \/ \E s \in tasks : s.kind = "load"
      BY <1>1 DEF FormsQuiet
    <2>2. F!Writes' = F!Writes /\ UNCHANGED <<known, tab, form, loading, page, disturbed>>
      BY <1>2 DEF F!Writes, F!client
    <2>3. \A s, u \in tasks' : s.kind \in F!Writes => s = u
      BY <1>6, <2>1
    <2>4. \A s \in tasks' : s.answer # "error" /\ s.key = tab
      BY <1>6, <2>1
    <2>5. page # "editor" => form.known \/ \E s \in tasks' : s.kind = "load"
      BY <1>6, <2>1
    <2>6. CASE t.kind \in F!Writes
      <3>1. tasks' = {m} /\ Behind'
        BY <1>6, <2>1, <2>2, <2>6 DEF Behind
      <3>2. \A s \in tasks' : s.record = store'[tab]
        BY <1>6, <1>7, <2>1, <3>1
      <3> QED
        BY <2>2, <2>3, <2>4, <2>5, <3>1, <3>2 DEF FormsQuiet
    <2>7. CASE t.kind \notin F!Writes
      <3>1. store' = store /\ r = store[tab]
        BY <1>2, <1>3, <1>5, <2>1, <2>7
      <3>2. Behind' <=> Behind
        BY <1>2, <1>6, <2>2, <2>7 DEF Behind
      <3>3. \A s \in tasks' : s.answer = "ok" => s.record = store[tab]
        BY <1>6, <2>1, <3>1
      <3>4. (\A s \in tasks' : s.kind # "load") <=> (\A s \in tasks : s.kind # "load")
        BY <1>6
      <3> QED
        BY <1>1, <2>2, <2>3, <2>4, <2>5, <3>1, <3>2, <3>3, <3>4 DEF FormsQuiet
    <2> QED
      BY <2>6, <2>7
  <1> QED
    BY <1>8, <1>9 DEF FormsInv

LEMMA FormsFail ==
    ASSUME FormsInv, NEW t \in tasks, F!Fail(t)
    PROVE  FormsInv'
  <1>1. FormsTyped /\ FormsWait
    BY DEF FormsInv
  <1>2. F!Unknown \in F!Record
    BY FormTypes
  <1>3. PICK m \in F!Task :
          /\ tasks' = (tasks \ {t}) \cup {m} /\ m.id = t.id /\ m.kind = t.kind /\ m.key = t.key
          /\ m.sent = t.sent /\ m.drawer = t.drawer
    BY <1>1, <1>2, FormsAnswered DEF F!Fail
  <1>4. /\ UNCHANGED F!client /\ UNCHANGED <<page, store, begun>>
        /\ disturbed' = TRUE /\ mishaps' \in 0 .. MaxMishaps
    BY <1>1, FormsConstants DEF F!Fail, FormsTyped, F!TypeOK
  <1>5. store' \in [F!Keys -> F!Record]
    BY <1>1, <1>4 DEF FormsTyped, F!TypeOK
  <1>6. disturbed' \in BOOLEAN
    BY <1>4
  <1>7. FormsTyped' /\ FormsWait'
    BY <1>1, <1>3, <1>4, <1>5, <1>6, FormsAnswerKeeps
  <1> QED
    BY <1>4, <1>7 DEF FormsInv, FormsQuiet

LEMMA FormsElsewhere ==
    ASSUME FormsInv, NEW k \in F!Keys, NEW f \in F!Fields, F!Elsewhere(k, f)
    PROVE  FormsInv'
  <1>1. /\ UNCHANGED F!client /\ UNCHANGED <<page, tasks, begun>> /\ disturbed' = TRUE
        /\ mishaps' \in 0 .. MaxMishaps
    BY FormsConstants DEF F!Elsewhere, FormsInv, FormsTyped, F!TypeOK
  <1>2. store' \in [F!Keys -> F!Record]
    <2> DEFINE val == [store[k].val EXCEPT ![f] = 1 - @]
               r == [store[k] EXCEPT !.val = val]
    <2>1. store \in [F!Keys -> F!Record]
      BY DEF FormsInv, FormsTyped, F!TypeOK
    <2>2. store[k] \in F!Record /\ store[k].val \in [F!Fields -> 0 .. 1]
      BY <2>1 DEF F!Record
    <2>3. val \in [F!Fields -> 0 .. 1]
      BY <2>2
    <2>4. store' = [store EXCEPT ![k] = r]
      BY <2>1, <2>2 DEF F!Elsewhere
    <2> HIDE DEF val
    <2>5. r \in F!Record
      BY <2>2, <2>3 DEF F!Record
    <2> HIDE DEF r
    <2> QED
      BY <2>1, <2>4, <2>5
  <1>3. FormsTyped'
    BY <1>1, <1>2 DEF FormsInv, FormsTyped, F!TypeOK, Unspoilt, F!client
  <1>4. FormsWait'
    BY <1>1 DEF FormsInv, FormsWait, F!client
  <1> QED
    BY <1>1, <1>3, <1>4 DEF FormsInv, FormsQuiet

\* Typing touches one field.
LEMMA FormsType ==
    ASSUME FormsInv, NEW f \in F!Fields, NEW v \in 0 .. F!Bad, F!Type(f, v)
    PROVE  FormsInv'
  <1>1. FormsTyped /\ FormsWait /\ FormsQuiet /\ form \in F!Form
    BY DEF FormsInv, FormsTyped, F!TypeOK
  <1>2. /\ UNCHANGED <<known, tab, loading, saving, other, opened, tasks, page, store, begun,
                       mishaps, disturbed>>
        /\ v = 2 => page = "settings" /\ f = "a"
    BY FormsConstants DEF F!Type, F!Work
  <1>3. /\ form' \in F!Form /\ form'.of = form.of /\ form'.known = form.known
        /\ form'.base = form.base /\ form'.touched = form.touched \cup {f}
        /\ form'.val = [form.val EXCEPT ![f] = v]
    <2> DEFINE val == [form.val EXCEPT ![f] = v]
               a == [form EXCEPT !.val = val]
    <2>1. val \in [F!Fields -> 0 .. F!Bad]
      BY <1>1 DEF F!Form
    <2>2. form' = [a EXCEPT !.touched = form.touched \cup {f}]
      BY <1>1 DEF F!Type, F!Form
    <2> HIDE DEF val
    <2>3. /\ a \in F!Form /\ a.of = form.of /\ a.known = form.known /\ a.base = form.base
          /\ a.touched = form.touched /\ a.val = val
      BY <1>1, <2>1 DEF F!Form
    <2> HIDE DEF a
    <2>4. /\ form' \in F!Form /\ form'.of = form.of /\ form'.known = form.known
          /\ form'.base = form.base /\ form'.touched = form.touched \cup {f} /\ form'.val = val
      BY <2>2, <2>3 DEF F!Form
    <2> QED
      BY <2>4 DEF val
  <1>4. /\ \A g \in F!Fields \ {f} : form'.val[g] = form.val[g]
        /\ form'.val[f] = v
    BY <1>1, <1>3 DEF F!Form
  <1>5. FormsTyped'
    <2>1. F!TypeOK'
      BY <1>1, <1>2, <1>3 DEF FormsTyped, F!TypeOK
    <2>2. Unspoilt(form)'
      BY <1>1, <1>3, <1>4 DEF FormsTyped, Unspoilt
    <2>3. \A g \in F!Fields : form'.val[g] = 2 => page = "settings" /\ g = "a"
      BY <1>1, <1>2, <1>4 DEF FormsTyped
    <2>4. \A t \in tasks : Unspoilt(t.sent)'
      BY <1>1 DEF FormsTyped, Unspoilt
    <2> QED
      BY <1>1, <1>2, <1>3, <2>1, <2>2, <2>3, <2>4 DEF FormsTyped
  <1>6. FormsWait'
    BY <1>1, <1>2 DEF FormsWait
  <1>7. FormsQuiet'
    <2>1. Behind' <=> Behind
      BY <1>2 DEF Behind, F!Writes
    <2>2. F!Writes' = F!Writes
      BY <1>2 DEF F!Writes
    <2> QED
      BY <1>1, <1>2, <1>3, <1>4, <2>1, <2>2 DEF FormsQuiet
  <1> QED
    BY <1>5, <1>6, <1>7 DEF FormsInv

\* The form as it is may be sent.
LEMMA FormsSent ==
    ASSUME FormsTyped, NEW m \in F!Task, m.sent = form,
           m.kind = "save" => /\ page = "settings" => form.val["a"] # 2
                              /\ form.known \/ page = "settings"
    PROVE  /\ Unspoilt(m.sent)
           /\ m.kind = "save" => /\ m.sent.val \in [F!Fields -> 0 .. 1]
                                 /\ m.sent.known \/ page = "settings"
  <1>1. form \in F!Form /\ form.val \in [F!Fields -> 0 .. 2]
    BY FormsConstants DEF FormsTyped, F!TypeOK, F!Form
  <1>2. ASSUME m.kind = "save" PROVE form.val \in [F!Fields -> 0 .. 1]
    <2>1. \A f \in F!Fields : form.val[f] # 2
      BY <1>2 DEF FormsTyped
    <2>2. \A f \in F!Fields : form.val[f] \in 0 .. 1
      BY <1>1, <2>1
    <2> QED
      BY <1>1, <2>2
  <1> QED
    BY <1>2 DEF FormsTyped

\* A request is sent from the page as it is.
LEMMA FormsSends ==
    ASSUME FormsInv, NEW kind \in {"load", "save", "other"}, NEW key \in F!Keys,
           F!Begin(tasks, kind, key), UNCHANGED <<known, tab, form, opened>>,
           key = tab,
           kind = "save" => /\ page = "settings" => form.val["a"] # 2
                            /\ form.known \/ page = "settings",
           loading' = (loading \/ kind = "load"), saving' = (saving \/ kind = "save"),
           other' = (other \/ kind = "other")
    PROVE  FormsInv'
  <1>1. FormsTyped /\ FormsWait /\ FormsQuiet
    BY DEF FormsInv
  <1>2. PICK m \in F!Task : Begun(tasks, kind, key, m)
    <2>1. tasks \in SUBSET tasks
      OBVIOUS
    <2> QED
      BY <1>1, <2>1, FormsBegins
  <1> USE DEF Begun
  <1>3. F!TypeOK'
    <2>1. loading' \in BOOLEAN /\ saving' \in BOOLEAN /\ other' \in BOOLEAN
      BY <1>1, Zenon DEF FormsTyped, F!TypeOK
    <2> QED
      BY <1>1, <1>2, <2>1 DEF FormsTyped, F!TypeOK
  <1>4. /\ Unspoilt(m.sent)
        /\ m.kind = "save" => /\ m.sent.val \in [F!Fields -> 0 .. 1]
                              /\ m.sent.known \/ page = "settings"
    BY <1>1, <1>2, FormsSent
  <1>5. FormsTyped'
    BY <1>1, <1>2, <1>3, <1>4 DEF FormsTyped, Unspoilt
  <1>6. FormsWait'
    BY <1>1, <1>2 DEF FormsWait
  <1>7. FormsQuiet'
    <2> SUFFICES ASSUME ~disturbed' PROVE FormsQuiet'
      BY DEF FormsQuiet
    <2>1. ~disturbed /\ \A t \in tasks : t.key = key /\ t.kind \notin F!Writes /\ kind \notin F!Writes
      BY <1>2
    <2>2. F!Writes' = F!Writes
      BY <1>2 DEF F!Writes
    <2>3. \A s, t \in tasks' : s.kind \in F!Writes => s = t
      BY <1>2, <2>1
    <2>4. ~Behind /\ ~Behind'
      BY <1>2, <2>1, <2>2 DEF Behind
    <2>5. \A t \in tasks' : /\ t.answer # "error" /\ t.key = tab
                            /\ t.answer = "ok" => t.record = store[tab]
      BY <1>1, <1>2, <2>1 DEF FormsQuiet
    <2>6. page # "editor" => form.known \/ \E t \in tasks' : t.kind = "load"
      BY <1>1, <1>2, <2>1 DEF FormsQuiet
    <2>7. (~loading' => ~loading) /\ ((\A t \in tasks' : t.kind # "load") => \A t \in tasks : t.kind # "load")
      BY <1>2
    <2> QED
      BY <1>1, <1>2, <2>1, <2>2, <2>3, <2>4, <2>5, <2>6, <2>7 DEF FormsQuiet
  <1> QED
    BY <1>5, <1>6, <1>7 DEF FormsInv

LEMMA FormsButtons ==
    ASSUME FormsInv, F!Save \/ F!RunPrewarm \/ F!Reload \/ F!Refetch
    PROVE  FormsInv'
  <1>1. /\ page # "editor" => form.of = 1 /\ tab = 1
        /\ page = "editor" /\ form.of # 0 => form.known /\ form.of = tab
        /\ tab \in F!Keys /\ 1 \in F!Keys /\ page \in {"config", "settings", "editor"}
        /\ loading \in BOOLEAN /\ saving \in BOOLEAN /\ other \in BOOLEAN
    BY FormsConstants DEF FormsInv, FormsTyped, F!TypeOK
  <1>2. CASE F!Save
    <2>1. /\ F!Begin(tasks, "save", form.of) /\ UNCHANGED <<known, tab, form, opened, loading, other>>
          /\ saving' = TRUE
      BY <1>2 DEF F!Save
    <2>2. /\ page = "settings" => form.val["a"] # 2
          /\ form.known \/ page = "settings"
          /\ form.of = tab
      BY <1>1, <1>2, FormsConstants DEF F!Save, F!Open
    <2>3. /\ loading' = (loading \/ "save" = "load") /\ saving' = (saving \/ "save" = "save")
          /\ other' = (other \/ "save" = "other")
      BY <1>1, <2>1
    <2> QED
      BY <1>1, <2>1, <2>2, <2>3, FormsSends
  <1>3. CASE F!RunPrewarm
    <2>1. /\ F!Begin(tasks, "other", 1) /\ UNCHANGED <<known, tab, form, opened, loading, saving>>
          /\ other' = TRUE /\ tab = 1
      BY <1>1, <1>3 DEF F!RunPrewarm
    <2>2. /\ loading' = (loading \/ "other" = "load") /\ saving' = (saving \/ "other" = "save")
          /\ other' = (other \/ "other" = "other")
      BY <1>1, <2>1
    <2> QED
      BY <1>1, <2>1, <2>2, FormsSends
  <1>4. CASE F!Reload
    <2>1. /\ F!Begin(tasks, "load", 1) /\ UNCHANGED <<known, tab, form, opened, other, saving>>
          /\ loading' = TRUE /\ tab = 1
      BY <1>1, <1>4 DEF F!Reload
    <2>2. /\ loading' = (loading \/ "load" = "load") /\ saving' = (saving \/ "load" = "save")
          /\ other' = (other \/ "load" = "other")
      BY <1>1, <2>1
    <2> QED
      BY <1>1, <2>1, <2>2, FormsSends
  <1>5. CASE F!Refetch
    <2>1. /\ F!Begin(tasks, "other", form.of) /\ UNCHANGED <<known, tab, form, opened, loading, saving>>
          /\ other' = TRUE /\ form.of = tab
      BY <1>1, <1>5, FormsConstants DEF F!Refetch
    <2>2. /\ loading' = (loading \/ "other" = "load") /\ saving' = (saving \/ "other" = "save")
          /\ other' = (other \/ "other" = "other")
      BY <1>1, <2>1
    <2> QED
      BY <1>1, <2>1, <2>2, FormsSends
  <1> QED
    BY <1>2, <1>3, <1>4, <1>5

\* A response of SystemConfigPage or SettingsPage fills the form.
LEMMA FormsFormAnswered ==
    ASSUME FormsInv, NEW t \in tasks, F!FormAnswered(t)
    PROVE  FormsInv'
  <1> DEFINE fills == t.kind # "other" /\ t.answer = "ok"
  <1>1. FormsTyped /\ FormsWait /\ FormsQuiet /\ F!TypeOK
    BY DEF FormsInv, FormsTyped
  <1>2. /\ page # "editor" /\ t.answer # "none" /\ tasks' = tasks \ {t}
        /\ fills => form' = F!Filled(1, t.record) /\ known' = [known EXCEPT ![1] = t.record]
        /\ ~fills => form' = form /\ known' = known
        /\ loading' = (loading /\ t.kind # "load") /\ saving' = (saving /\ t.kind # "save")
        /\ other' = (other /\ t.kind # "other")
        /\ UNCHANGED <<tab, opened, page, store, begun, mishaps, disturbed>>
    BY DEF F!FormAnswered, F!Work
  <1>3. /\ t.record \in F!Record /\ 1 \in F!Keys /\ t.kind \in {"load", "save", "other"}
        /\ t.answer \in {"none", "ok", "error"}
    BY <1>1, FormsFields, FormsConstants
  <1>4. fills => /\ form' \in F!Form /\ form'.of = 1 /\ form'.known /\ form'.val = t.record.val
                 /\ form'.base = t.record /\ form'.touched = {}
    BY <1>2, <1>3, FormTypes
  <1> HIDE DEF fills
  <1>5. known' \in [F!Keys -> F!Record] /\ form' \in F!Form
    BY <1>1, <1>2, <1>3, <1>4 DEF F!TypeOK
  <1>6. loading' \in BOOLEAN /\ saving' \in BOOLEAN /\ other' \in BOOLEAN
    BY <1>1, <1>2, Zenon DEF F!TypeOK
  <1>7. F!TypeOK'
    BY <1>1, <1>2, <1>5, <1>6 DEF F!TypeOK
  <1>8. FormsTyped'
    <2>1. t.record.val \in [F!Fields -> 0 .. 1]
      BY <1>3 DEF F!Record
    <2>2. \A f \in F!Fields : form'.val[f] = 2 => page = "settings" /\ f = "a"
      BY <1>1, <1>2, <1>4, <2>1 DEF FormsTyped
    <2>3. Unspoilt(form)'
      BY <1>1, <1>2, <1>4 DEF FormsTyped, Unspoilt
    <2>4. \A s \in tasks' : Unspoilt(s.sent)'
      BY <1>1, <1>2 DEF FormsTyped, Unspoilt
    <2> QED
      BY <1>1, <1>2, <1>4, <1>7, <2>2, <2>3, <2>4 DEF FormsTyped
  <1>9. FormsWait'
    BY <1>1, <1>2 DEF FormsWait
  <1>10. FormsQuiet'
    <2> SUFFICES ASSUME ~disturbed PROVE FormsQuiet'
      BY <1>2 DEF FormsQuiet
    <2>1. /\ \A s, u \in tasks : s.kind \in F!Writes => s = u
          /\ \A s \in tasks : s.answer # "error" /\ s.key = tab /\ (s.answer = "ok" => s.record = store[tab])
          /\ page # "editor" => form.known \/ \E s \in tasks : s.kind = "load"
          /\ ~Behind /\ form.of # 0 /\ form.known =>
               \A f \in F!Fields \ form.touched : form.val[f] = store[tab].val[f]
      BY <1>1 DEF FormsQuiet
    <2>2. F!Writes = {"save"} /\ F!Writes' = {"save"}
      BY <1>2 DEF F!Writes
    <2>3. \A s \in tasks' : s.kind # "save"
      BY <1>2, <2>1, <2>2
    <2>4. t.answer = "ok" /\ t.record = store[tab]
      BY <1>2, <1>3, <2>1
    <2>5. fills \/ (~Behind /\ t.kind = "other")
      BY <2>1, <2>2, <2>4 DEF fills, Behind
    <2>6. form'.known \/ \E s \in tasks' : s.kind = "load"
      BY <1>2, <1>4, <2>1, <2>5
    <2>7. form'.of # 0 /\ form'.known =>
             \A f \in F!Fields \ form'.touched : form'.val[f] = store[tab].val[f]
      BY <1>2, <1>4, <2>1, <2>4, <2>5
    <2> QED
      BY <1>2, <2>1, <2>2, <2>3, <2>6, <2>7 DEF FormsQuiet
  <1> QED
    BY <1>8, <1>9, <1>10 DEF FormsInv

LEMMA FormsSwitchTab ==
    ASSUME FormsInv, NEW k \in F!Keys, F!SwitchTab(k)
    PROVE  FormsInv'
  <1>1. FormsTyped /\ FormsWait /\ FormsQuiet /\ F!TypeOK
    BY DEF FormsInv, FormsTyped
  <1>2. /\ page = "editor" /\ form.of = 0 /\ k # tab /\ tab' = k /\ loading' = TRUE
        /\ UNCHANGED <<known, form, saving, other, opened>>
    BY FormsConstants DEF F!SwitchTab
  <1>4. PICK m \in F!Task : Begun(tasks, "load", k, m)
    <2>1. tasks \in SUBSET tasks /\ F!Begin(tasks, "load", k)
      BY DEF F!SwitchTab
    <2> QED
      BY <1>1, <2>1, FormsBegins
  <1> USE DEF Begun
  <1>5. F!TypeOK'
    BY <1>1, <1>2, <1>4 DEF F!TypeOK
  <1>6. FormsTyped'
    <2>1. Unspoilt(m.sent) /\ m.kind # "save"
      BY <1>1, <1>4 DEF FormsTyped
    <2> QED
      BY <1>1, <1>2, <1>4, <1>5, <2>1 DEF FormsTyped, Unspoilt
  <1>7. FormsWait'
    BY <1>1, <1>2, <1>4 DEF FormsWait
  <1>8. FormsQuiet'
    <2> SUFFICES ASSUME ~disturbed' PROVE FormsQuiet'
      BY DEF FormsQuiet
    <2>1. tasks' = {m}
      BY <1>1, <1>2, <1>4 DEF FormsQuiet
    <2> QED
      BY <1>2, <1>4, <2>1 DEF FormsQuiet
  <1> QED
    BY <1>6, <1>7, <1>8 DEF FormsInv

\* A drawer begins with the record the list shows, and ends without a trace.
LEMMA FormsDrawer ==
    ASSUME FormsInv, F!OpenDrawer \/ F!CloseDrawer
    PROVE  FormsInv'
  <1>1. FormsTyped /\ FormsWait /\ FormsQuiet /\ F!TypeOK
    BY DEF FormsInv, FormsTyped
  <1>2. /\ page = "editor" /\ saving' = FALSE /\ other' = FALSE
        /\ UNCHANGED <<known, tab, loading, tasks, page, store, begun, mishaps, disturbed>>
    BY DEF F!OpenDrawer, F!CloseDrawer, F!Work
  <1>3. /\ form' \in F!Form /\ opened' \in 0 .. MaxTasks
        /\ \/ form'.of = 0 /\ (\A f \in F!Fields : form'.val[f] = 0) /\ form'.known = FALSE
           \/ /\ form'.of = tab /\ form'.known /\ form'.val = known[tab].val /\ ~loading
              /\ form'.base = known[tab] /\ known[tab] \in F!Record
    <2>1. CASE F!OpenDrawer
      <3>1. known[tab] \in F!Record /\ tab \in F!Keys
        BY <1>1 DEF F!TypeOK
      <3>2. form' = F!Filled(tab, known[tab]) /\ opened < MaxTasks /\ opened' = opened + 1 /\ ~loading
        BY <2>1 DEF F!OpenDrawer
      <3>3. opened' \in 0 .. MaxTasks
        BY <1>1, <3>2, FormsConstants DEF F!TypeOK
      <3> QED
        BY <3>1, <3>2, <3>3, FormTypes
    <2>2. CASE F!CloseDrawer
      BY <1>1, <2>2, FormTypes DEF F!CloseDrawer, F!TypeOK
    <2> QED
      BY <2>1, <2>2
  <1>4. saving' \in BOOLEAN /\ other' \in BOOLEAN
    BY <1>2, Zenon
  <1>5. F!TypeOK'
    BY <1>1, <1>2, <1>3, <1>4 DEF F!TypeOK
  <1>6. FormsTyped'
    <2>1. \A f \in F!Fields : form'.val[f] # 2
      BY <1>3 DEF F!Record
    <2>2. Unspoilt(form)'
      BY <1>3 DEF Unspoilt
    <2>3. form'.of # 0 => form'.known /\ form'.of = tab'
      BY <1>2, <1>3
    <2>4. \A s \in tasks' : Unspoilt(s.sent)'
      BY <1>1, <1>2 DEF FormsTyped, Unspoilt
    <2> QED
      BY <1>1, <1>2, <1>5, <2>1, <2>2, <2>3, <2>4 DEF FormsTyped
  <1>7. FormsWait'
    BY <1>1, <1>2 DEF FormsWait
  <1>8. FormsQuiet'
    <2> SUFFICES ASSUME ~disturbed PROVE FormsQuiet'
      BY <1>2 DEF FormsQuiet
    <2>1. (Behind' <=> Behind) /\ F!Writes' = F!Writes
      BY <1>2 DEF Behind, F!Writes
    <2>2. ~Behind /\ form'.of # 0 => \A f \in F!Fields : form'.val[f] = store[tab].val[f]
      BY <1>1, <1>2, <1>3 DEF FormsQuiet
    <2> QED
      BY <1>1, <1>2, <2>1, <2>2 DEF FormsQuiet
  <1> QED
    BY <1>6, <1>7, <1>8 DEF FormsInv

LEMMA FormsTabLoaded ==
    ASSUME FormsInv, NEW t \in tasks, F!TabLoaded(t)
    PROVE  FormsInv'
  <1>1. FormsTyped /\ FormsWait /\ FormsQuiet /\ F!TypeOK
    BY DEF FormsInv, FormsTyped
  <1>2. /\ page = "editor" /\ t.kind = "load" /\ t.answer # "none" /\ loading' = FALSE
        /\ tasks' = tasks \ {t}
        /\ known' = IF t.answer = "ok" THEN [known EXCEPT ![t.key] = t.record] ELSE known
        /\ UNCHANGED <<tab, form, saving, other, opened, page, store, begun, mishaps, disturbed>>
    BY DEF F!TabLoaded, F!Work
  <1>3. t.record \in F!Record /\ t.key \in F!Keys /\ t.answer \in {"none", "ok", "error"}
    BY <1>1, FormsFields
  <1>4. loading' \in BOOLEAN
    BY <1>2, Zenon
  <1>5. F!TypeOK'
    BY <1>1, <1>2, <1>3, <1>4 DEF F!TypeOK
  <1>6. FormsTyped'
    BY <1>1, <1>2, <1>5 DEF FormsTyped, Unspoilt
  <1>7. FormsWait'
    BY <1>1, <1>2 DEF FormsWait
  <1>8. FormsQuiet'
    <2> SUFFICES ASSUME ~disturbed PROVE FormsQuiet'
      BY <1>2 DEF FormsQuiet
    <2>1. F!Writes' = F!Writes /\ "load" \notin F!Writes
      BY <1>2 DEF F!Writes
    <2>2. Behind' <=> Behind
      BY <1>2, <2>1 DEF Behind
    <2>3. known'[tab] = store[tab]
      BY <1>1, <1>2, <1>3 DEF FormsQuiet, F!TypeOK
    <2> QED
      BY <1>1, <1>2, <2>1, <2>2, <2>3 DEF FormsQuiet
  <1> QED
    BY <1>6, <1>7, <1>8 DEF FormsInv

\* A save or a refetch closes the drawer, and loads the list again.
LEMMA FormsDrawerAnswered ==
    ASSUME FormsInv, NEW t \in tasks, F!DrawerAnswered(t)
    PROVE  FormsInv'
  <1>1. FormsTyped /\ FormsWait /\ FormsQuiet /\ F!TypeOK
    BY DEF FormsInv, FormsTyped
  <1>2. /\ page = "editor" /\ t.kind # "load" /\ t.answer # "none"
        /\ t.kind \in {"load", "save", "other"} /\ t.key \in F!Keys
        /\ t.answer \in {"none", "ok", "error"}
    BY <1>1, FormsFields DEF F!DrawerAnswered
  <1>3. CASE t.answer = "ok"
    <2> DEFINE ts == tasks \ {t}
    <2>1. /\ form' = F!NoForm /\ saving' = FALSE /\ other' = FALSE /\ loading' = TRUE
          /\ F!Begin(ts, "load", t.key) /\ UNCHANGED <<known, tab, opened>>
      BY <1>3 DEF F!DrawerAnswered
    <2>2. ts \in SUBSET tasks
      OBVIOUS
    <2> HIDE DEF ts
    <2>3. PICK m \in F!Task : Begun(ts, "load", t.key, m)
      BY <1>1, <1>2, <2>1, <2>2, FormsBegins
    <2> USE DEF ts, Begun
    <2>4. saving' \in BOOLEAN /\ other' \in BOOLEAN /\ loading' \in BOOLEAN
      BY <2>1, Zenon
    <2>5. form' \in F!Form /\ form'.of = 0 /\ form'.known = FALSE /\ \A f \in F!Fields : form'.val[f] = 0
      BY <2>1, FormTypes
    <2>6. F!TypeOK'
      BY <1>1, <2>1, <2>3, <2>4, <2>5 DEF F!TypeOK
    <2>7. FormsTyped'
      <3>1. Unspoilt(m.sent) /\ m.kind # "save"
        BY <1>1, <2>3 DEF FormsTyped
      <3> QED
        BY <1>1, <1>2, <2>1, <2>3, <2>5, <2>6, <3>1 DEF FormsTyped, Unspoilt
    <2>8. FormsWait'
      BY <2>1, <2>3 DEF FormsWait
    <2>9. FormsQuiet'
      <3> SUFFICES ASSUME ~disturbed' PROVE FormsQuiet'
        BY DEF FormsQuiet
      <3>1. t.kind \in F!Writes /\ F!Writes' = F!Writes /\ ~disturbed
        BY <1>2, <2>3 DEF F!Writes
      <3>2. ts = {} /\ t.key = tab
        BY <1>1, <3>1 DEF FormsQuiet
      <3> QED
        BY <1>2, <2>1, <2>3, <2>5, <3>1, <3>2 DEF FormsQuiet
    <2> QED
      BY <2>7, <2>8, <2>9 DEF FormsInv
  <1>4. CASE t.answer # "ok"
    <2>1. /\ saving' = (saving /\ ~(t.drawer = opened /\ t.kind = "save"))
          /\ other' = (other /\ ~(t.drawer = opened /\ t.kind = "other"))
          /\ tasks' = tasks \ {t}
          /\ UNCHANGED <<known, tab, form, loading, opened, page, store, begun, mishaps, disturbed>>
      BY <1>4 DEF F!DrawerAnswered, F!Work
    <2>2. saving' \in BOOLEAN /\ other' \in BOOLEAN
      BY <1>1, <2>1, Zenon DEF F!TypeOK
    <2>3. F!TypeOK'
      BY <1>1, <2>1, <2>2 DEF F!TypeOK
    <2>4. FormsTyped'
      BY <1>1, <2>1, <2>3 DEF FormsTyped, Unspoilt
    <2>5. FormsWait'
      BY <1>1, <1>2, <2>1 DEF FormsWait
    <2>6. FormsQuiet'
      BY <1>1, <1>2, <1>4, <2>1 DEF FormsQuiet
    <2> QED
      BY <2>4, <2>5, <2>6 DEF FormsInv
  <1> QED
    BY <1>3, <1>4

LEMMA FormsKept == FormsInv /\ [F!Next]_(F!vars) => FormsInv'
  <1> SUFFICES ASSUME FormsInv, [F!Next]_(F!vars) PROVE FormsInv'
    OBVIOUS
  <1>1. CASE UNCHANGED F!vars
    <2>1. FormsTyped' /\ FormsWait'
      BY <1>1 DEF FormsInv, FormsTyped, F!TypeOK, Unspoilt, FormsWait, F!vars, F!client
    <2>2. FormsQuiet'
      BY <1>1 DEF FormsInv, FormsQuiet, Behind, F!Writes, F!vars, F!client
    <2> QED
      BY <2>1, <2>2 DEF FormsInv
  <1>2. ASSUME NEW t \in tasks, F!Serve(t) \/ F!Fail(t) \/ F!FormAnswered(t) \/ F!TabLoaded(t) \/ F!DrawerAnswered(t)
        PROVE  FormsInv'
    BY <1>2, FormsServe, FormsFail, FormsFormAnswered, FormsTabLoaded, FormsDrawerAnswered
  <1>3. ASSUME NEW k \in F!Keys, F!SwitchTab(k) \/ \E f \in F!Fields : F!Elsewhere(k, f) PROVE FormsInv'
    BY <1>3, FormsSwitchTab, FormsElsewhere
  <1>4. ASSUME NEW f \in F!Fields, NEW v \in 0 .. F!Bad, F!Type(f, v) PROVE FormsInv'
    BY <1>4, FormsType
  <1>5. CASE F!Save \/ F!RunPrewarm \/ F!Reload \/ F!Refetch
    BY <1>5, FormsButtons
  <1>6. CASE F!OpenDrawer \/ F!CloseDrawer
    BY <1>6, FormsDrawer
  <1> QED
    BY <1>1, <1>2, <1>3, <1>4, <1>5, <1>6 DEF F!Next

\* A step that serves the save of t is the service taking up t and nothing else.
LEMMA FormsServed ==
    ASSUME FormsTyped, NEW t \in tasks, F!Served(t), F!Next, store' # store
    PROVE  F!Serve(t)
  <1>1. t.answer = "none" /\ \E u \in tasks' : u.id = t.id /\ u.answer = "ok"
    BY DEF F!Served
  <1>2. \A s, u \in tasks : s.id = u.id => s = u
    BY DEF FormsTyped, F!TypeOK
  <1>3. ASSUME NEW k \in F!Keys, NEW f \in F!Fields, F!Elsewhere(k, f) PROVE FALSE
    BY <1>1, <1>2, <1>3 DEF F!Elsewhere
  <1>4. ASSUME NEW s \in tasks, F!Serve(s) PROVE s = t
    <2>1. F!Answered(s, "ok", F!Written(s)) /\ s \in F!Task
      BY <1>4, FormsFields DEF F!Serve
    <2>2. tasks' = (tasks \ {s}) \cup {[s EXCEPT !.answer = "ok", !.record = F!Written(s)]}
      BY <2>1 DEF F!Answered
    <2>3. [s EXCEPT !.answer = "ok", !.record = F!Written(s)].id = s.id
      BY <2>1 DEF F!Task
    <2> QED
      BY <1>1, <1>2, <2>2, <2>3
  <1>5. ASSUME NEW s \in tasks,
               F!Fail(s) \/ F!FormAnswered(s) \/ F!TabLoaded(s) \/ F!DrawerAnswered(s)
        PROVE  FALSE
    BY <1>5 DEF F!Fail, F!FormAnswered, F!TabLoaded, F!DrawerAnswered, F!Work, F!Begin
  <1>6. ASSUME \/ \E f \in F!Fields, v \in 0 .. F!Bad : F!Type(f, v)
               \/ F!Save \/ F!RunPrewarm \/ F!Reload \/ F!Refetch
               \/ \E k \in F!Keys : F!SwitchTab(k)
               \/ F!OpenDrawer \/ F!CloseDrawer
        PROVE  FALSE
    BY <1>6 DEF F!Type, F!Save, F!RunPrewarm, F!Reload, F!Refetch, F!SwitchTab, F!OpenDrawer,
                F!CloseDrawer, F!Work, F!Begin
  <1> QED
    BY <1>3, <1>4, <1>5, <1>6 DEF F!Next

LEMMA FormsKeep == FormsInv /\ [F!Next]_(F!vars) => F!UntouchedFieldsKept
  <1> SUFFICES ASSUME FormsInv, [F!Next]_(F!vars),
                      NEW t \in tasks, NEW f \in F!Fields \ t.sent.touched,
                      t.kind = "save", F!Served(t), store'[t.key].val[f] # store[t.key].val[f]
               PROVE  \/ t.sent.known /\ t.sent.base.val # store[t.key].val
                      \/ page = "settings" /\ ~t.sent.known
    BY DEF F!UntouchedFieldsKept
  <1>1. F!Next /\ FormsTyped /\ store' # store
    BY DEF F!vars, FormsInv
  <1>2. F!Serve(t)
    BY <1>1, FormsServed
  <1>3. store' = [store EXCEPT ![t.key] = F!Written(t)]
    BY <1>2 DEF F!Serve
  <1>4. store \in [F!Keys -> F!Record] /\ t.key \in F!Keys /\ t.sent \in F!Form
    BY <1>1, FormsFields DEF FormsTyped, F!TypeOK
  <1>5. F!Written(t) = [val |-> t.sent.val, edited |-> page = "editor"]
    BY DEF F!Written
  <1>6. store'[t.key].val = t.sent.val
    BY <1>3, <1>4, <1>5
  <1>7. Unspoilt(t.sent) /\ (t.sent.known \/ page = "settings")
    BY <1>1 DEF FormsTyped
  <1> QED
    BY <1>6, <1>7 DEF Unspoilt

-----------------------------------------------------------------------------
(* The accounts *)

\* What was asked for is what is done, except that a deletion loads the list when it is
\* through; a record comes with the key it is of.
UsersTyped ==
    /\ U!TypeOK
    /\ \A t \in tasks :
         t.op # "load" => /\ t.kind = t.op /\ t.key \in Accounts
                          /\ t.op \in {"save", "create"} /\ t.answer = "ok" =>
                               t.key \in DOMAIN t.list

\* Undisturbed, a request other than a load is alone, a load brings what is stored, and
\* the list is that of the service but for the change whose answer is under way.
Settling(t) == t.op = "load" \/ (t.op \in {"save", "create", "delete"} /\ t.answer = "ok")

UsersQuiet ==
    ~disturbed =>
        /\ \A s, t \in tasks : s.kind # "load" => s = t
        /\ \A t \in tasks :
             t.op = "load" => t.answer # "error" /\ (t.answer = "ok" => t.list = store)
        /\ (\A t \in tasks : ~Settling(t)) => users = store
        /\ \A t \in tasks :
             t.op \in {"save", "create"} /\ t.answer = "ok" =>
               /\ t.op = "save" => t.key \in DOMAIN users
               /\ store = U!With(users, t.key, t.list[t.key])

UsersInv == UsersTyped /\ U!DraftIsOfShown /\ U!WaitsHaveCause /\ UsersQuiet

LEMMA UsersConstants ==
    /\ MaxTasks \in Nat \ {0} /\ MaxAtOnce \in Nat \ {0} /\ MaxMishaps \in Nat
    /\ Accounts \subseteq Nat \ {0} /\ MainAdmin \in Accounts
    /\ U!None = 0 /\ U!Record = {0, 1} /\ U!Kinds = {"load", "save", "create", "reset", "delete"}
  BY PagesConstants DEF U!AdminUsersAssumption, U!None, U!Record, U!Kinds

LEMMA UsersShows == UsersInv => U!ShownIsStored
  BY DEF UsersInv, UsersQuiet, U!ShownIsStored

\* Lists of accounts, and what With and Without make of them.
LEMMA ListTypes ==
    /\ << >> \in U!Lists /\ DOMAIN << >> = {}
    /\ \A l : l \in U!Lists <=> \E S \in SUBSET Accounts : l \in [S -> U!Record]
    /\ \A l \in U!Lists : /\ DOMAIN l \subseteq Accounts /\ \A k \in DOMAIN l : l[k] \in U!Record
                          /\ l = << >> <=> DOMAIN l = {}
  <1>1. DOMAIN << >> = {} /\ << >> = [x \in {} |-> 0]
    OBVIOUS
  <1>2. \A l : l \in U!Lists <=> \E S \in SUBSET Accounts : l \in [S -> U!Record]
    BY DEF U!Lists
  <1>3. << >> \in U!Lists
    <2>1. << >> \in [{} -> U!Record]
      BY <1>1
    <2> QED
      BY <1>2, <2>1
  <1>4. ASSUME NEW l \in U!Lists
        PROVE  /\ DOMAIN l \subseteq Accounts /\ \A k \in DOMAIN l : l[k] \in U!Record
               /\ l = << >> <=> DOMAIN l = {}
    BY <1>1, <1>2
  <1> QED
    BY <1>1, <1>2, <1>3, <1>4

LEMMA ListWith ==
    ASSUME NEW l \in U!Lists, NEW k \in Accounts, NEW r \in U!Record
    PROVE  /\ U!With(l, k, r) \in U!Lists /\ DOMAIN U!With(l, k, r) = DOMAIN l \cup {k}
           /\ U!With(l, k, r)[k] = r /\ \A i \in DOMAIN l \ {k} : U!With(l, k, r)[i] = l[i]
  <1>1. DOMAIN l \subseteq Accounts /\ \A i \in DOMAIN l : l[i] \in U!Record
    BY ListTypes
  <1>2. U!With(l, k, r) \in [DOMAIN l \cup {k} -> U!Record]
    BY <1>1 DEF U!With
  <1>3. U!With(l, k, r) \in U!Lists
    BY <1>1, <1>2 DEF U!Lists
  <1> QED
    BY <1>3 DEF U!With

LEMMA ListWithout ==
    ASSUME NEW l \in U!Lists, NEW k \in Accounts
    PROVE  U!Without(l, k) \in U!Lists
  <1>1. DOMAIN l \subseteq Accounts /\ \A i \in DOMAIN l : l[i] \in U!Record
    BY ListTypes
  <1>2. U!Without(l, k) \in [DOMAIN l \ {k} -> U!Record]
    BY <1>1 DEF U!Without
  <1> QED
    BY <1>1, <1>2 DEF U!Lists

\* The account shown is listed, and there is none only where the list is empty.
LEMMA CurrentListed ==
    ASSUME NEW l \in U!Lists, NEW id, NEW hid
    PROVE  IF DOMAIN l \ hid = {} THEN U!Current(l, id, hid) = 0
           ELSE U!Current(l, id, hid) \in DOMAIN l \ hid /\ U!Current(l, id, hid) # 0
  <1> DEFINE listed == DOMAIN l \ hid
  <1>1. listed \in SUBSET Nat /\ 0 \notin listed
    BY ListTypes, UsersConstants
  <1>2. listed # {} => U!Min(listed) \in listed
    <2>1. listed # {} => \E x \in listed : \A y \in listed : x <= y
      BY <1>1, LeastExists
    <2> HIDE DEF listed
    <2> QED
      BY <2>1 DEF U!Min
  <1>3. U!Current(l, id, hid) = IF id \in listed THEN id ELSE IF listed = {} THEN 0 ELSE U!Min(listed)
    BY UsersConstants DEF U!Current
  <1> QED
    BY <1>1, <1>2, <1>3

LEMMA UsersFields ==
    ASSUME UsersTyped, NEW t \in tasks
    PROVE  /\ t \in U!Task
           /\ t.id \in 1 .. MaxAtOnce /\ t.kind \in U!Kinds /\ t.op \in U!Kinds
           /\ t.key \in Accounts \cup {0} /\ t.sent \in U!Record
           /\ t.answer \in {"none", "ok", "error"} /\ t.list \in U!Lists
  BY UsersConstants DEF UsersTyped, U!TypeOK, U!Task

\* A render keeps the draft with the account shown: whatever it lists anew, or shows for
\* the first time, fills the draft.
LEMMA UsersRender ==
    ASSUME U!TypeOK, U!DraftIsOfShown, NEW l \in U!Lists, NEW id \in Accounts \cup {0},
           NEW hid \in SUBSET Accounts, NEW anew, U!Render(l, id, hid, anew),
           \A k \in DOMAIN l \ anew : k \in DOMAIN users /\ l[k] = users[k]
    PROVE  /\ users' = l /\ selectedId' = id /\ hidden' = hid /\ form' \in U!Form
           /\ U!DraftIsOfShown'
  <1> DEFINE k == U!Current(l, id, hid)
  <1>1. /\ users' = l /\ selectedId' = id /\ hidden' = hid
        /\ form' = IF U!Another(k, anew) THEN U!DraftOf(l, k) ELSE form
    BY DEF U!Render
  <1>2. U!Shown' = k
    BY <1>1 DEF U!Shown
  <1>3. k # 0 => k \in DOMAIN l /\ k \in Accounts /\ l[k] \in U!Record
    BY CurrentListed, ListTypes
  <1>4. U!Another(k, anew) <=> k # 0 /\ (k # U!Shown \/ k \in anew)
    BY UsersConstants DEF U!Another, U!Shown
  <1> HIDE DEF k
  <1>5. CASE U!Another(k, anew)
    <2>1. form' = U!DraftOf(l, k) /\ k # 0
      BY <1>1, <1>4, <1>5
    <2>2. /\ form' \in U!Form /\ form'.of = k /\ form'.val = l[k] /\ form'.password = 0
      BY <1>3, <2>1, UsersConstants DEF U!DraftOf, U!Form
    <2> QED
      BY <1>1, <1>2, <2>1, <2>2, UsersConstants DEF U!DraftIsOfShown
  <1>6. CASE ~U!Another(k, anew)
    <2>1. form' = form /\ form \in U!Form
      BY <1>1, <1>6 DEF U!TypeOK
    <2>2. k # 0 => k = U!Shown /\ k \notin anew /\ k \in DOMAIN l
      BY <1>3, <1>4, <1>6
    <2>3. k # 0 => l[k] = users[k]
      BY <2>2
    <2> QED
      BY <1>1, <1>2, <2>1, <2>2, <2>3, UsersConstants DEF U!DraftIsOfShown
  <1> QED
    BY <1>5, <1>6

LEMMA UsersTaskType ==
    ASSUME NEW n \in 1 .. MaxAtOnce, NEW kind \in U!Kinds, NEW key \in Accounts \cup {0},
           form \in U!Form
    PROVE  LET m == U!NewTask(n, kind, key) IN
             /\ m \in U!Task /\ m.id = n /\ m.kind = kind /\ m.op = kind /\ m.key = key
             /\ m.answer = "none"
  <1>1. << >> \in U!Lists
    BY ListTypes
  <1>2. form.val \in U!Record /\ 0 \in U!Record
    BY UsersConstants DEF U!Form
  <1> QED
    BY <1>1, <1>2, UsersConstants DEF U!NewTask, U!Task

LEMMA UsersStart == U!Init => UsersInv
  <1> SUFFICES ASSUME U!Init PROVE UsersInv
    OBVIOUS
  <1> DEFINE new == U!NewTask(1, "load", 0)
  <1>1. /\ store = [k \in {MainAdmin} |-> 0] /\ users = << >> /\ selectedId = 0 /\ hidden = {}
        /\ form = U!NoForm /\ loading = TRUE /\ busy = {} /\ tasks = {new} /\ begun = 1
        /\ mishaps = 0 /\ disturbed = FALSE
    BY UsersConstants DEF U!Init
  <1>2. form \in U!Form
    BY <1>1, UsersConstants DEF U!NoForm, U!Form
  <1>3. new \in U!Task /\ new.id = 1 /\ new.kind = "load" /\ new.op = "load" /\ new.answer = "none"
    <2>1. 1 \in 1 .. MaxAtOnce /\ "load" \in U!Kinds /\ 0 \in Accounts \cup {0}
      BY UsersConstants
    <2> QED
      BY <1>2, <2>1, UsersTaskType
  <1> HIDE DEF new
  <1>4. UsersTyped
    <2>1. users \in U!Lists /\ store \in U!Lists
      <3>1. << >> \in U!Lists /\ MainAdmin \in Accounts /\ 0 \in U!Record
        BY ListTypes, UsersConstants
      <3>2. [k \in {MainAdmin} |-> 0] \in U!Lists
        <4>1. [k \in {MainAdmin} |-> 0] \in [{MainAdmin} -> U!Record]
          BY <3>1
        <4> QED
          BY <3>1, <4>1 DEF U!Lists
      <3> QED
        BY <1>1, <3>1, <3>2
    <2>2. loading \in BOOLEAN /\ disturbed \in BOOLEAN
      BY <1>1, Zenon
    <2>3. begun \in 1 .. MaxTasks /\ mishaps \in 0 .. MaxMishaps /\ busy \subseteq U!Kinds \ {"load"}
          /\ selectedId \in Accounts \cup {U!None} /\ hidden \subseteq Accounts
      BY <1>1, UsersConstants
    <2>4. tasks \subseteq U!Task /\ \A s, t \in tasks : s.id = t.id => s = t
      BY <1>1, <1>3
    <2>5. U!TypeOK
      BY <1>2, <2>1, <2>2, <2>3, <2>4 DEF U!TypeOK
    <2> QED
      BY <1>1, <1>3, <2>5 DEF UsersTyped
  <1>5. U!DraftIsOfShown
    <2>1. U!Shown = 0
      BY <1>1, ListTypes, CurrentListed DEF U!Shown
    <2> QED
      BY <2>1, UsersConstants DEF U!DraftIsOfShown
  <1>6. U!WaitsHaveCause
    BY <1>1, <1>3 DEF U!WaitsHaveCause
  <1>7. UsersQuiet
    <2>1. /\ \A s, t \in tasks : s = t
          /\ \A t \in tasks : t.op = "load" /\ t.answer = "none"
          /\ ~\A t \in tasks : ~Settling(t)
      BY <1>1, <1>3 DEF Settling
    <2> QED
      BY <2>1 DEF UsersQuiet
  <1> QED
    BY <1>4, <1>5, <1>6, <1>7 DEF UsersInv

-----------------------------------------------------------------------------
(* The requests of the page *)

\* A request is sent: it takes a free slot, and undisturbed loads only overlap loads.
LEMMA UsersBegins ==
    ASSUME UsersTyped, NEW kind \in U!Kinds, NEW key \in Accounts \cup {0}, U!Begin(kind, key)
    PROVE  \E m \in U!Task :
             /\ tasks' = tasks \cup {m} /\ m.kind = kind /\ m.op = kind /\ m.key = key
             /\ m.answer = "none"
             /\ \A s, t \in tasks' : s.id = t.id => s = t
             /\ begun' \in 1 .. MaxTasks /\ disturbed' \in BOOLEAN
             /\ ~disturbed' => ~disturbed /\ \A t \in tasks : kind = "load" /\ t.kind = "load"
             /\ UNCHANGED <<store, mishaps>>
  <1> DEFINE free == {n \in 1 .. MaxAtOnce : \A t \in tasks : t.id # n}
             slot == U!Min(free)
             m == U!NewTask(slot, kind, key)
  <1>1. /\ begun \in 1 .. MaxTasks /\ begun < MaxTasks /\ begun' = begun + 1
        /\ Cardinality(tasks) < MaxAtOnce /\ tasks' = tasks \cup {m}
        /\ disturbed' = (disturbed \/ \E t \in tasks : kind # "load" \/ t.kind # "load")
        /\ UNCHANGED <<store, mishaps>>
    BY SameCount DEF U!Begin, UsersTyped, U!TypeOK
  <1>2. begun' \in 1 .. MaxTasks
    BY <1>1, UsersConstants
  <1>3. /\ \A t \in tasks : t.id \in 1 .. MaxAtOnce
        /\ \A s, t \in tasks : s.id = t.id => s = t
    BY UsersFields DEF UsersTyped, U!TypeOK
  <1>4. free \in SUBSET Nat /\ free # {}
    <2>1. \E k \in 1 .. MaxAtOnce : \A t \in tasks : t.id # k
      BY <1>1, <1>3, FreeSlot, UsersConstants
    <2> QED
      BY <2>1, UsersConstants
  <1>5. slot \in free
    <2>1. \E x \in free : \A y \in free : x <= y
      BY <1>4, LeastExists
    <2> HIDE DEF free
    <2> QED
      BY <2>1 DEF U!Min
  <1>6. slot \in 1 .. MaxAtOnce /\ \A t \in tasks : t.id # slot
    BY <1>5
  <1> HIDE DEF slot, free
  <1>7. /\ m \in U!Task /\ m.id = slot /\ m.kind = kind /\ m.op = kind /\ m.key = key
        /\ m.answer = "none"
    <2>1. form \in U!Form
      BY DEF UsersTyped, U!TypeOK
    <2> QED
      BY <1>6, <2>1, UsersTaskType
  <1> HIDE DEF m
  <1>8. \A s, t \in tasks' : s.id = t.id => s = t
    BY <1>1, <1>3, <1>6, <1>7
  <1>9. /\ disturbed' \in BOOLEAN
        /\ ~disturbed' => ~disturbed /\ \A t \in tasks : kind = "load" /\ t.kind = "load"
    BY <1>1 DEF UsersTyped, U!TypeOK
  <1> QED
    BY <1>1, <1>2, <1>7, <1>8, <1>9

\* The buttons of the page.
LEMMA UsersSends ==
    ASSUME UsersInv, NEW kind \in U!Kinds, NEW key \in Accounts \cup {0}, U!Begin(kind, key),
           kind # "load" => key \in Accounts,
           UNCHANGED <<users, selectedId, hidden, form>>,
           loading' = (loading \/ kind = "load"), busy' = busy \cup ({kind} \ {"load"})
    PROVE  UsersInv'
  <1>1. UsersTyped /\ U!DraftIsOfShown /\ U!WaitsHaveCause /\ UsersQuiet /\ U!TypeOK
    BY DEF UsersInv, UsersTyped
  <1>2. PICK m \in U!Task :
             /\ tasks' = tasks \cup {m} /\ m.kind = kind /\ m.op = kind /\ m.key = key
             /\ m.answer = "none"
             /\ \A s, t \in tasks' : s.id = t.id => s = t
             /\ begun' \in 1 .. MaxTasks /\ disturbed' \in BOOLEAN
             /\ ~disturbed' => ~disturbed /\ \A t \in tasks : kind = "load" /\ t.kind = "load"
             /\ UNCHANGED <<store, mishaps>>
    BY <1>1, UsersBegins
  <1>3. UsersTyped'
    <2>1. loading' \in BOOLEAN
      BY <1>1, Zenon DEF U!TypeOK
    <2>2. busy' \subseteq U!Kinds \ {"load"}
      BY <1>1 DEF U!TypeOK
    <2>3. U!TypeOK'
      BY <1>1, <1>2, <2>1, <2>2 DEF U!TypeOK
    <2> QED
      BY <1>1, <1>2, <2>3 DEF UsersTyped
  <1>4. U!DraftIsOfShown'
    BY <1>1 DEF U!DraftIsOfShown, U!Shown, U!Current
  <1>5. U!WaitsHaveCause'
    BY <1>1, <1>2 DEF U!WaitsHaveCause
  <1>6. UsersQuiet'
    <2> SUFFICES ASSUME ~disturbed' PROVE UsersQuiet'
      BY DEF UsersQuiet
    <2>1. ~disturbed /\ \A t \in tasks : kind = "load" /\ t.kind = "load"
      BY <1>2
    <2>2. \A t \in tasks : t.op = "load"
      BY <1>1, <2>1 DEF UsersTyped
    <2>3. \A s, t \in tasks' : s.kind # "load" => s = t
      BY <1>2, <2>1
    <2>4. \A t \in tasks' : t.op = "load" => t.answer # "error" /\ (t.answer = "ok" => t.list = store)
      BY <1>1, <1>2, <2>1 DEF UsersQuiet
    <2>5. \A t \in tasks' : ~(t.op \in {"save", "create"} /\ t.answer = "ok")
      BY <1>2, <2>2
    <2>6. (\A t \in tasks' : ~Settling(t)) => users = store
      <3> SUFFICES ASSUME \A t \in tasks' : ~Settling(t) PROVE users = store
        OBVIOUS
      <3>1. \A t \in tasks : ~Settling(t)
        BY <1>2
      <3> QED
        BY <1>1, <2>1, <3>1 DEF UsersQuiet
    <2>7. \A t : Settling(t)' <=> Settling(t)
      BY DEF Settling
    <2> QED
      BY <1>2, <2>3, <2>4, <2>5, <2>6, <2>7 DEF UsersQuiet, Settling
  <1> QED
    BY <1>3, <1>4, <1>5, <1>6 DEF UsersInv

LEMMA UsersButtons ==
    ASSUME UsersInv,
           U!Reload \/ U!SaveUser \/ U!ResetPassword \/ U!DeleteUser \/ U!CreateUser
    PROVE  UsersInv'
  <1>1. U!TypeOK
    BY DEF UsersInv, UsersTyped
  <1>2. CASE U!Reload
    <2>1. /\ U!Begin("load", 0) /\ UNCHANGED <<users, selectedId, hidden, form>>
          /\ loading' = TRUE /\ busy' = busy
      BY <1>2, UsersConstants DEF U!Reload
    <2>2. loading' = (loading \/ "load" = "load") /\ busy' = busy \cup ({"load"} \ {"load"})
      BY <1>1, <2>1 DEF U!TypeOK
    <2>3. "load" \in U!Kinds /\ 0 \in Accounts \cup {0}
      BY UsersConstants
    <2> QED
      BY <2>1, <2>2, <2>3, UsersSends
  <1>3. ASSUME NEW kind \in U!Kinds \ {"load"}, NEW key \in Accounts, U!Submit(kind, key)
        PROVE  UsersInv'
    <2>1. /\ U!Begin(kind, key) /\ UNCHANGED <<users, selectedId, hidden, form, loading>>
          /\ busy' = busy \cup {kind}
      BY <1>3 DEF U!Submit
    <2>2. loading' = (loading \/ kind = "load") /\ busy' = busy \cup ({kind} \ {"load"})
      BY <1>1, <2>1 DEF U!TypeOK
    <2> QED
      BY <2>1, <2>2, UsersSends
  <1>4. U!Shown # 0 => U!Shown \in Accounts
    BY <1>1, CurrentListed, ListTypes DEF U!Shown, U!TypeOK
  <1>5. {"save", "reset", "delete", "create"} \subseteq U!Kinds \ {"load"}
    BY UsersConstants
  <1>6. CASE U!SaveUser \/ U!ResetPassword \/ U!DeleteUser
    BY <1>3, <1>4, <1>5, <1>6, UsersConstants DEF U!SaveUser, U!ResetPassword, U!DeleteUser
  <1>7. CASE U!CreateUser
    BY <1>3, <1>5, <1>7 DEF U!CreateUser
  <1> QED
    BY <1>2, <1>6, <1>7

\* What happens on the page alone.
LEMMA UsersInPage ==
    ASSUME UsersInv,
           \/ \E k \in Accounts : U!Select(k)
           \/ \E hid \in SUBSET Accounts : U!Filter(hid)
           \/ U!Type \/ U!TypePassword
    PROVE  UsersInv'
  <1>1. UsersTyped /\ U!DraftIsOfShown /\ U!WaitsHaveCause /\ UsersQuiet /\ U!TypeOK
    BY DEF UsersInv, UsersTyped
  <1>2. UNCHANGED <<users, loading, busy, tasks, store, begun, mishaps, disturbed>>
    BY DEF U!Select, U!Filter, U!Type, U!TypePassword, U!Idle, U!Work, U!Render
  <1>3. /\ selectedId' \in Accounts \cup {0} /\ hidden' \subseteq Accounts /\ form' \in U!Form
        /\ U!DraftIsOfShown'
    <2>1. /\ users \in U!Lists /\ selectedId \in Accounts \cup {0} /\ hidden \in SUBSET Accounts
          /\ form \in U!Form
      BY <1>1, UsersConstants DEF U!TypeOK
    <2>2. ASSUME NEW k \in Accounts, U!Select(k)
          PROVE  selectedId' \in Accounts \cup {0} /\ hidden' \subseteq Accounts /\ form' \in U!Form
                 /\ U!DraftIsOfShown'
      <3>1. U!Render(users, k, hidden, {})
        BY <2>2 DEF U!Select
      <3> QED
        BY <1>1, <2>1, <3>1, UsersRender
    <2>3. ASSUME NEW hid \in SUBSET Accounts, U!Filter(hid)
          PROVE  selectedId' \in Accounts \cup {0} /\ hidden' \subseteq Accounts /\ form' \in U!Form
                 /\ U!DraftIsOfShown'
      <3>1. U!Render(users, selectedId, hid, {})
        BY <2>3 DEF U!Filter
      <3> QED
        BY <1>1, <2>1, <3>1, UsersRender
    <2>4. CASE U!Type
      <3> DEFINE a == [form EXCEPT !.val = 1 - form.val]
      <3>1. /\ form' = [a EXCEPT !.touched = TRUE] /\ UNCHANGED <<users, selectedId, hidden>>
        BY <2>1, <2>4 DEF U!Type, U!Form
      <3>2. form.val \in {0, 1} /\ 1 - form.val \in U!Record
        BY <2>1, UsersConstants DEF U!Form
      <3>3. a \in U!Form /\ a.of = form.of /\ a.password = form.password
        BY <2>1, <3>2 DEF U!Form
      <3> HIDE DEF a
      <3>4. form' \in U!Form /\ form'.of = form.of /\ form'.password = form.password /\ form'.touched
        BY <3>1, <3>3 DEF U!Form
      <3> QED
        BY <1>1, <2>1, <3>1, <3>4 DEF U!DraftIsOfShown, U!Shown, U!Current
    <2>5. CASE U!TypePassword
      <3>1. /\ form' = [form EXCEPT !.password = U!Shown] /\ UNCHANGED <<users, selectedId, hidden>>
            /\ U!Shown \in Accounts
        BY <2>1, <2>5, CurrentListed, ListTypes, UsersConstants DEF U!TypePassword, U!Shown
      <3>2. /\ form' \in U!Form /\ form'.of = form.of /\ form'.password = U!Shown
            /\ form'.touched = form.touched /\ form'.val = form.val
        BY <2>1, <3>1 DEF U!Form
      <3>3. U!Shown' = U!Shown
        BY <3>1 DEF U!Shown
      <3> QED
        BY <1>1, <2>1, <3>1, <3>2, <3>3 DEF U!DraftIsOfShown
    <2> QED
      BY <2>2, <2>3, <2>4, <2>5
  <1>4. UsersTyped'
    BY <1>1, <1>2, <1>3, UsersConstants DEF UsersTyped, U!TypeOK
  <1>5. U!WaitsHaveCause'
    BY <1>1, <1>2 DEF U!WaitsHaveCause
  <1>6. UsersQuiet'
    BY <1>1, <1>2 DEF UsersQuiet, Settling
  <1> QED
    BY <1>3, <1>4, <1>5, <1>6 DEF UsersInv

-----------------------------------------------------------------------------
(* The answers the page takes up *)

\* An answer changes a task in nothing else.
LEMMA UsersAnswered ==
    ASSUME UsersTyped, NEW t \in tasks, NEW how \in {"ok", "error"}, NEW l \in U!Lists,
           U!Answered(t, how, l)
    PROVE  \E m \in U!Task :
             /\ tasks' = (tasks \ {t}) \cup {m} /\ m.id = t.id /\ m.kind = t.kind /\ m.op = t.op
             /\ m.key = t.key /\ m.answer = how /\ m.list = l
  <1>1. t \in U!Task
    BY UsersFields
  <1> DEFINE a == [t EXCEPT !.answer = how]
             m == [a EXCEPT !.list = l]
  <1>2. a \in U!Task /\ a.id = t.id /\ a.kind = t.kind /\ a.op = t.op /\ a.key = t.key /\ a.answer = how
    BY <1>1 DEF U!Task
  <1>3. m = [t EXCEPT !.answer = how, !.list = l]
    BY <1>1 DEF U!Task
  <1> HIDE DEF a
  <1>4. /\ m \in U!Task /\ m.id = t.id /\ m.kind = t.kind /\ m.op = t.op /\ m.key = t.key
        /\ m.answer = how /\ m.list = l
    BY <1>2 DEF U!Task
  <1>5. tasks' = (tasks \ {t}) \cup {m}
    BY <1>3 DEF U!Answered
  <1> QED
    BY <1>4, <1>5

\* A task changes its answer: the page stays what it is.
LEMMA UsersAnswerKeeps ==
    ASSUME UsersTyped, U!DraftIsOfShown, U!WaitsHaveCause, NEW t \in tasks, NEW m \in U!Task,
           tasks' = (tasks \ {t}) \cup {m}, m.id = t.id, m.kind = t.kind, m.op = t.op, m.key = t.key,
           m.op \in {"save", "create"} /\ m.answer = "ok" => m.key \in DOMAIN m.list,
           store' \in U!Lists, mishaps' \in 0 .. MaxMishaps, disturbed' \in BOOLEAN,
           UNCHANGED U!client, begun' = begun
    PROVE  UsersTyped' /\ U!DraftIsOfShown' /\ U!WaitsHaveCause'
  <1>1. UNCHANGED <<users, selectedId, hidden, form, loading, busy>>
    BY DEF U!client
  <1>2. U!TypeOK'
    BY <1>1 DEF UsersTyped, U!TypeOK
  <1>3. UsersTyped'
    BY <1>2 DEF UsersTyped
  <1>4. U!DraftIsOfShown'
    BY <1>1 DEF U!DraftIsOfShown, U!Shown, U!Current
  <1>5. U!WaitsHaveCause'
    BY <1>1 DEF U!WaitsHaveCause
  <1> QED
    BY <1>3, <1>4, <1>5

LEMMA UsersServe ==
    ASSUME UsersInv, NEW t \in tasks, U!Serve(t)
    PROVE  UsersInv'
  <1>1. UsersTyped /\ U!DraftIsOfShown /\ U!WaitsHaveCause /\ UsersQuiet /\ U!TypeOK
    BY DEF UsersInv, UsersTyped
  <1>2. t.answer = "none" /\ UNCHANGED U!client /\ UNCHANGED <<begun, mishaps, disturbed>>
    BY DEF U!Serve
  <1>3. /\ t.op \in U!Kinds /\ t.sent \in U!Record /\ 0 \in U!Record /\ << >> \in U!Lists
        /\ t.op # "load" => t.kind = t.op /\ t.key \in Accounts
        /\ store \in U!Lists /\ mishaps \in 0 .. MaxMishaps /\ disturbed \in BOOLEAN
    BY <1>1, UsersFields, ListTypes, UsersConstants DEF UsersTyped, U!TypeOK
  <1> DEFINE rec == IF t.op = "save" THEN t.sent ELSE 0
             brings == [k \in {t.key} |-> rec]
             wrote == U!With(store, t.key, rec)
             less == U!Without(store, t.key)
             same == store
             nothing == << >>
  <1>4. rec \in U!Record /\ (t.op = "save" => rec = t.sent) /\ (t.op = "create" => rec = 0)
    BY <1>3
  <1>5. /\ brings[t.key] = rec /\ t.key \in DOMAIN brings
        /\ t.op # "load" => /\ brings \in U!Lists /\ wrote \in U!Lists /\ less \in U!Lists
    <2>1. brings \in [{t.key} -> U!Record]
      BY <1>4
    <2>2. t.op # "load" => brings \in U!Lists
      BY <1>3, <2>1 DEF U!Lists
    <2>3. t.op # "load" => wrote \in U!Lists /\ less \in U!Lists
      BY <1>3, <1>4, ListWith, ListWithout
    <2> QED
      BY <2>2, <2>3
  <1>6. \/ t.op = "load" /\ store' = store /\ U!Answered(t, "ok", same)
        \/ /\ t.op \in {"save", "create"} /\ (t.op = "save" => t.key \in DOMAIN store)
           /\ store' = wrote /\ U!Answered(t, "ok", brings)
        \/ t.op \in {"save", "reset", "delete"} /\ store' = store /\ U!Answered(t, "error", nothing)
        \/ t.op = "reset" /\ store' = store /\ U!Answered(t, "ok", nothing)
        \/ t.op = "delete" /\ store' = less /\ U!Answered(t, "ok", nothing)
    BY <1>4 DEF U!Serve
  <1>7. same \in U!Lists /\ nothing \in U!Lists
    BY <1>3
  <1> HIDE DEF rec, brings, wrote, less, nothing, same
  <1>8. \E how \in {"ok", "error"}, l \in U!Lists :
          /\ U!Answered(t, how, l)
          /\ t.op = "load" => how = "ok" /\ l = same /\ store' = store
          /\ t.op \in {"save", "create"} /\ how = "ok" =>
               l = brings /\ store' = wrote /\ (t.op = "save" => t.key \in DOMAIN store)
          /\ how = "error" \/ t.op = "reset" => store' = store
          /\ store' \in U!Lists
    BY <1>3, <1>5, <1>6, <1>7
  <1>9. PICK how \in {"ok", "error"}, l \in U!Lists :
          /\ U!Answered(t, how, l)
          /\ t.op = "load" => how = "ok" /\ l = same /\ store' = store
          /\ t.op \in {"save", "create"} /\ how = "ok" =>
               l = brings /\ store' = wrote /\ (t.op = "save" => t.key \in DOMAIN store)
          /\ how = "error" \/ t.op = "reset" => store' = store
          /\ store' \in U!Lists
    BY <1>8
  <1>10. PICK m \in U!Task :
           /\ tasks' = (tasks \ {t}) \cup {m} /\ m.id = t.id /\ m.kind = t.kind /\ m.op = t.op
           /\ m.key = t.key /\ m.answer = how /\ m.list = l
    BY <1>1, <1>9, UsersAnswered
  <1>11. UsersTyped' /\ U!DraftIsOfShown' /\ U!WaitsHaveCause'
    <2>1. m.op \in {"save", "create"} /\ m.answer = "ok" => m.key \in DOMAIN m.list
      BY <1>5, <1>9, <1>10
    <2>2. mishaps' \in 0 .. MaxMishaps /\ disturbed' \in BOOLEAN
      BY <1>2, <1>3
    <2> QED
      BY <1>1, <1>2, <1>9, <1>10, <2>1, <2>2, UsersAnswerKeeps
  <1>12. UsersQuiet'
    <2> SUFFICES ASSUME ~disturbed PROVE UsersQuiet'
      BY <1>2 DEF UsersQuiet
    <2>1. users' = users /\ disturbed' = disturbed
      BY <1>2 DEF U!client
    <2>2. \A s, u \in tasks' : s.kind # "load" => s = u
      BY <1>1, <1>10 DEF UsersQuiet
    <2>3. CASE t.op = "load"
      <3>1. store' = store /\ m.answer = "ok" /\ m.list = store /\ m.op = "load"
        BY <1>9, <1>10, <2>3 DEF same
      <3>2. \A s \in tasks' : s.op = "load" => s.answer # "error" /\ (s.answer = "ok" => s.list = store)
        BY <1>1, <1>10, <3>1 DEF UsersQuiet
      <3>3. m \in tasks' /\ Settling(m) /\ Settling(m)'
        BY <1>10, <3>1 DEF Settling
      <3>4. \A s \in tasks' : s.op \in {"save", "create"} /\ s.answer = "ok" => s \in tasks
        BY <1>10, <3>1
      <3>5. \A s \in tasks' : s.op \in {"save", "create"} /\ s.answer = "ok" =>
               /\ s.op = "save" => s.key \in DOMAIN users
               /\ store = U!With(users, s.key, s.list[s.key])
        BY <1>1, <3>4 DEF UsersQuiet
      <3> QED
        BY <2>1, <2>2, <3>1, <3>2, <3>3, <3>5 DEF UsersQuiet
    <2>4. CASE t.op # "load"
      <3>1. tasks = {t} /\ tasks' = {m}
        BY <1>1, <1>3, <1>10, <2>4 DEF UsersQuiet
      <3>2. users = store
        BY <1>1, <1>2, <2>4, <3>1 DEF UsersQuiet, Settling
      <3>3. m.op # "load"
        BY <1>10, <2>4
      <3>4. ~Settling(m) => store' = users
        BY <1>3, <1>9, <1>10, <3>2, <3>3, UsersConstants DEF Settling
      <3>5. m.op \in {"save", "create"} /\ m.answer = "ok" =>
               /\ m.op = "save" => m.key \in DOMAIN users
               /\ store' = U!With(users, m.key, m.list[m.key])
        BY <1>5, <1>9, <1>10, <3>2 DEF wrote
      <3>6. Settling(m)' <=> Settling(m)
        BY DEF Settling
      <3> QED
        BY <2>1, <2>2, <3>1, <3>3, <3>4, <3>5, <3>6 DEF UsersQuiet
    <2> QED
      BY <2>3, <2>4
  <1> QED
    BY <1>11, <1>12 DEF UsersInv

\* What goes wrong, or is done elsewhere.
LEMMA UsersMishaps ==
    ASSUME UsersInv,
           (\E t \in tasks : U!Fail(t)) \/ (\E k \in Accounts : U!Elsewhere(k))
    PROVE  UsersInv'
  <1>1. UsersTyped /\ U!DraftIsOfShown /\ U!WaitsHaveCause /\ U!TypeOK
    BY DEF UsersInv, UsersTyped
  <1>2. ASSUME NEW t \in tasks, U!Fail(t) PROVE UsersInv'
    <2>1. << >> \in U!Lists
      BY ListTypes
    <2>2. PICK m \in U!Task :
             /\ tasks' = (tasks \ {t}) \cup {m} /\ m.id = t.id /\ m.kind = t.kind /\ m.op = t.op
             /\ m.key = t.key /\ m.answer = "error"
      BY <1>1, <1>2, <2>1, UsersAnswered DEF U!Fail
    <2>3. /\ UNCHANGED U!client /\ UNCHANGED <<store, begun>> /\ disturbed' = TRUE
          /\ mishaps < MaxMishaps /\ mishaps' = mishaps + 1
      BY <1>2 DEF U!Fail
    <2>4. mishaps' \in 0 .. MaxMishaps /\ disturbed' \in BOOLEAN /\ store' \in U!Lists
      BY <1>1, <2>3, UsersConstants DEF U!TypeOK
    <2>5. UsersTyped' /\ U!DraftIsOfShown' /\ U!WaitsHaveCause'
      BY <1>1, <2>2, <2>3, <2>4, UsersAnswerKeeps
    <2> QED
      BY <2>3, <2>5 DEF UsersInv, UsersQuiet
  <1>3. ASSUME NEW k \in Accounts, U!Elsewhere(k) PROVE UsersInv'
    <2> DEFINE changed == 1 - store[k]
    <2>1. store \in U!Lists /\ k \in DOMAIN store
      BY <1>1, <1>3 DEF U!TypeOK, U!Elsewhere
    <2>2. changed \in U!Record
      <3>1. store[k] \in {0, 1}
        BY <2>1, ListTypes, UsersConstants
      <3> QED
        BY <3>1, UsersConstants
    <2>3. store' = U!Without(store, k) \/ store' = [store EXCEPT ![k] = changed]
      <3>1. \/ store' = U!Without(store, k)
            \/ store' = [store EXCEPT ![k] = 1 - @]
        BY <1>3 DEF U!Elsewhere
      <3> QED
        BY <3>1
    <2> HIDE DEF changed
    <2>4. store' \in U!Lists
      <3>1. DOMAIN store \subseteq Accounts /\ store \in [DOMAIN store -> U!Record]
        BY <2>1, ListTypes
      <3>2. [store EXCEPT ![k] = changed] \in [DOMAIN store -> U!Record]
        BY <2>2, <3>1
      <3>3. [store EXCEPT ![k] = changed] \in U!Lists
        BY <3>1, <3>2 DEF U!Lists
      <3> QED
        BY <2>1, <2>3, <3>3, ListWithout
    <2>5. /\ UNCHANGED <<users, selectedId, hidden, form, loading, busy, tasks, begun>>
          /\ disturbed' = TRUE /\ mishaps' \in 0 .. MaxMishaps
      BY <1>1, <1>3, UsersConstants DEF U!Elsewhere, U!client, U!TypeOK
    <2>6. disturbed' \in BOOLEAN
      BY <2>5
    <2>7. UsersTyped'
      BY <1>1, <2>4, <2>5, <2>6 DEF UsersTyped, U!TypeOK
    <2>8. U!DraftIsOfShown' /\ U!WaitsHaveCause'
      BY <1>1, <2>5 DEF U!DraftIsOfShown, U!Shown, U!Current, U!WaitsHaveCause
    <2> QED
      BY <2>5, <2>7, <2>8 DEF UsersInv, UsersQuiet
  <1> QED
    BY <1>2, <1>3

\* loadUsers: the list is that of the answer, or empty.
LEMMA UsersLoaded ==
    ASSUME UsersInv, NEW t \in tasks, U!Loaded(t)
    PROVE  UsersInv'
  <1> DEFINE l == IF t.answer = "ok" THEN t.list ELSE << >>
             id == CASE l = << >> -> 0
                     [] selectedId \in DOMAIN l -> selectedId
                     [] OTHER -> U!Min(DOMAIN l)
  <1>1. UsersTyped /\ U!DraftIsOfShown /\ U!WaitsHaveCause /\ UsersQuiet /\ U!TypeOK
    BY DEF UsersInv, UsersTyped
  <1>2. /\ t.op = "load" /\ t.answer # "none" /\ U!Render(l, id, hidden, DOMAIN l)
        /\ loading' = FALSE /\ busy' = busy \ {t.kind} /\ tasks' = tasks \ {t}
        /\ UNCHANGED <<store, begun, mishaps, disturbed>>
    BY UsersConstants DEF U!Loaded, U!TakeList, U!Work
  <1>3. /\ l \in U!Lists /\ t.answer \in {"none", "ok", "error"} /\ hidden \in SUBSET Accounts
        /\ selectedId \in Accounts \cup {0}
    BY <1>1, UsersFields, ListTypes, UsersConstants DEF U!TypeOK
  <1>4. id \in Accounts \cup {0}
    <2>1. DOMAIN l \subseteq Accounts /\ (l = << >> <=> DOMAIN l = {})
      BY <1>3, ListTypes
    <2>2. l # << >> => U!Min(DOMAIN l) \in DOMAIN l
      <3> DEFINE D == DOMAIN l
      <3>1. D \in SUBSET Nat
        BY <2>1, UsersConstants
      <3>2. D # {} => \E x \in D : \A y \in D : x <= y
        BY <3>1, LeastExists
      <3> HIDE DEF D
      <3>3. D # {} => U!Min(D) \in D
        BY <3>2 DEF U!Min
      <3> QED
        BY <2>1, <3>3 DEF D
    <2> HIDE DEF l
    <2> QED
      BY <1>3, <2>1, <2>2
  <1>5. l = << >> \/ l = t.list
    OBVIOUS
  <1>6. t.answer = "ok" => l = t.list
    OBVIOUS
  <1> HIDE DEF l, id
  <1>7. users' = l /\ selectedId' = id /\ hidden' = hidden /\ form' \in U!Form /\ U!DraftIsOfShown'
    BY <1>1, <1>2, <1>3, <1>4, UsersRender
  <1>8. UsersTyped'
    <2>1. loading' \in BOOLEAN
      BY <1>2, Zenon
    <2>2. U!TypeOK'
      BY <1>1, <1>2, <1>3, <1>4, <1>7, <2>1, UsersConstants DEF U!TypeOK
    <2> QED
      BY <1>1, <1>2, <2>2 DEF UsersTyped
  <1>9. U!WaitsHaveCause'
    BY <1>1, <1>2 DEF U!WaitsHaveCause
  <1>10. UsersQuiet'
    <2> SUFFICES ASSUME ~disturbed PROVE UsersQuiet'
      BY <1>2 DEF UsersQuiet
    <2>1. users' = store
      BY <1>1, <1>2, <1>3, <1>6, <1>7 DEF UsersQuiet
    <2>2. \A s \in tasks' : ~(s.op \in {"save", "create"})
      BY <1>1, <1>2 DEF UsersQuiet, UsersTyped
    <2> QED
      BY <1>1, <1>2, <2>1, <2>2 DEF UsersQuiet
  <1> QED
    BY <1>7, <1>8, <1>9, <1>10 DEF UsersInv

\* The record of a save replaces the one listed, that of a creation is added.
LEMMA UsersChanged ==
    ASSUME UsersInv, NEW t \in tasks, U!Saved(t) \/ U!Created(t)
    PROVE  UsersInv'
  <1> DEFINE taken == t.answer = "ok" /\ (t.op = "save" => t.key \in DOMAIN users)
             rec == t.list[t.key]
             l == U!With(users, t.key, rec)
  <1>1. UsersTyped /\ U!DraftIsOfShown /\ U!WaitsHaveCause /\ UsersQuiet /\ U!TypeOK
    BY DEF UsersInv, UsersTyped
  <1>2. /\ t.op \in {"save", "create"} /\ t.answer # "none" /\ t.kind = t.op /\ t.key \in Accounts
        /\ busy' = busy \ {t.op} /\ tasks' = tasks \ {t}
        /\ UNCHANGED <<loading, store, begun, mishaps, disturbed>>
    BY <1>1 DEF U!Saved, U!Created, U!Work, UsersTyped
  <1>3. taken => \E id \in Accounts \cup {0} : U!Render(l, id, hidden, {t.key})
    BY <1>1, UsersConstants DEF U!Saved, U!Created, UsersTyped, U!TypeOK
  <1>4. ~taken => UNCHANGED <<users, selectedId, hidden, form>>
    BY DEF U!Saved, U!Created
  <1>5. taken => rec \in U!Record
    <2>1. t.list \in U!Lists /\ (taken => t.key \in DOMAIN t.list)
      BY <1>1, <1>2, UsersFields DEF UsersTyped
    <2> QED
      BY <2>1, ListTypes
  <1>6. users \in U!Lists /\ hidden \in SUBSET Accounts
    BY <1>1 DEF U!TypeOK
  <1> HIDE DEF rec
  <1>7. taken => /\ l \in U!Lists
                 /\ \A k \in DOMAIN l \ {t.key} : k \in DOMAIN users /\ l[k] = users[k]
    <2>1. ASSUME rec \in U!Record
          PROVE  /\ l \in U!Lists /\ DOMAIN l = DOMAIN users \cup {t.key}
                 /\ \A i \in DOMAIN users \ {t.key} : l[i] = users[i]
      BY <1>2, <1>6, <2>1, ListWith
    <2> HIDE DEF l, taken
    <2> QED
      BY <1>5, <2>1
  <1> HIDE DEF l, taken
  <1>8. taken => /\ users' = l /\ selectedId' \in Accounts \cup {0} /\ hidden' = hidden
                 /\ form' \in U!Form /\ U!DraftIsOfShown'
    <2> SUFFICES ASSUME taken
                 PROVE  /\ users' = l /\ selectedId' \in Accounts \cup {0} /\ hidden' = hidden
                        /\ form' \in U!Form /\ U!DraftIsOfShown'
      OBVIOUS
    <2>1. PICK id \in Accounts \cup {0} : U!Render(l, id, hidden, {t.key})
      BY <1>3
    <2> QED
      BY <1>1, <1>6, <1>7, <2>1, UsersRender
  <1>9. users' \in U!Lists /\ selectedId' \in Accounts \cup {0} /\ hidden' \subseteq Accounts /\ form' \in U!Form
    BY <1>1, <1>4, <1>6, <1>7, <1>8, UsersConstants DEF U!TypeOK
  <1>10. U!DraftIsOfShown'
    BY <1>1, <1>4, <1>8 DEF U!DraftIsOfShown, U!Shown, U!Current
  <1>11. UsersTyped'
    <2>1. U!TypeOK'
      BY <1>1, <1>2, <1>9, UsersConstants DEF U!TypeOK
    <2> QED
      BY <1>1, <1>2, <2>1 DEF UsersTyped
  <1>12. U!WaitsHaveCause'
    BY <1>1, <1>2 DEF U!WaitsHaveCause
  <1>13. UsersQuiet'
    <2> SUFFICES ASSUME ~disturbed PROVE UsersQuiet'
      BY <1>2 DEF UsersQuiet
    <2>1. tasks = {t} /\ tasks' = {}
      BY <1>1, <1>2 DEF UsersQuiet
    <2>2. users' = store
      <3>1. CASE t.answer = "ok"
        BY <1>1, <1>2, <1>8, <3>1 DEF UsersQuiet, taken, l, rec
      <3>2. CASE t.answer # "ok"
        BY <1>1, <1>2, <1>4, <2>1, <3>2 DEF UsersQuiet, taken, Settling
      <3> QED
        BY <3>1, <3>2
    <2> QED
      BY <1>2, <2>1, <2>2 DEF UsersQuiet
  <1> QED
    BY <1>10, <1>11, <1>12, <1>13 DEF UsersInv

LEMMA UsersReset ==
    ASSUME UsersInv, NEW t \in tasks, U!Reset(t)
    PROVE  UsersInv'
  <1>1. UsersTyped /\ U!DraftIsOfShown /\ U!WaitsHaveCause /\ UsersQuiet /\ U!TypeOK
    BY DEF UsersInv, UsersTyped
  <1>2. /\ t.op = "reset" /\ t.answer # "none" /\ t.kind = "reset"
        /\ busy' = busy \ {"reset"} /\ tasks' = tasks \ {t}
        /\ UNCHANGED <<users, selectedId, hidden, loading, store, begun, mishaps, disturbed>>
    BY <1>1 DEF U!Reset, U!Work, UsersTyped
  <1>3. /\ form' \in U!Form /\ form'.of = form.of /\ form'.touched = form.touched
        /\ form'.val = form.val /\ form'.password \in {0, form.password}
    <2>1. form' = [form EXCEPT !.password = 0] \/ form' = form
      BY UsersConstants DEF U!Reset
    <2> QED
      BY <1>1, <2>1, UsersConstants DEF U!TypeOK, U!Form
  <1>4. U!DraftIsOfShown'
    <2>1. U!Shown' = U!Shown
      BY <1>2 DEF U!Shown
    <2> QED
      BY <1>1, <1>2, <1>3, <2>1, UsersConstants DEF U!DraftIsOfShown
  <1>5. UsersTyped'
    <2>1. U!TypeOK'
      BY <1>1, <1>2, <1>3 DEF U!TypeOK
    <2> QED
      BY <1>1, <1>2, <2>1 DEF UsersTyped
  <1>6. U!WaitsHaveCause'
    BY <1>1, <1>2 DEF U!WaitsHaveCause
  <1>7. UsersQuiet'
    <2> SUFFICES ASSUME ~disturbed PROVE UsersQuiet'
      BY <1>2 DEF UsersQuiet
    <2>1. tasks = {t} /\ tasks' = {}
      BY <1>1, <1>2 DEF UsersQuiet
    <2>2. users = store
      BY <1>1, <1>2, <2>1 DEF UsersQuiet, Settling
    <2> QED
      BY <1>2, <2>1, <2>2 DEF UsersQuiet
  <1> QED
    BY <1>4, <1>5, <1>6, <1>7 DEF UsersInv

\* A deletion goes on as a load, and its button stays disabled until that is answered.
LEMMA UsersDeleted ==
    ASSUME UsersInv, NEW t \in tasks, U!Deleted(t)
    PROVE  UsersInv'
  <1>1. UsersTyped /\ U!DraftIsOfShown /\ U!WaitsHaveCause /\ UsersQuiet /\ U!TypeOK
    BY DEF UsersInv, UsersTyped
  <1>2. /\ t.op = "delete" /\ t.answer # "none" /\ t.kind = "delete" /\ t \in U!Task
        /\ UNCHANGED <<users, selectedId, hidden, form, store, begun, mishaps, disturbed>>
    BY <1>1, UsersFields DEF U!Deleted, U!Work, UsersTyped
  <1>3. U!DraftIsOfShown'
    BY <1>1, <1>2 DEF U!DraftIsOfShown, U!Shown, U!Current
  <1>4. CASE t.answer = "ok"
    <2> DEFINE a == [t EXCEPT !.op = "load"]
               m == [a EXCEPT !.answer = "none"]
    <2>1. /\ a \in U!Task /\ a.id = t.id /\ a.kind = t.kind /\ a.op = "load"
      BY <1>2, UsersConstants DEF U!Task
    <2>2. m = [t EXCEPT !.op = "load", !.answer = "none"]
      BY <1>2 DEF U!Task
    <2> HIDE DEF a
    <2>3. m \in U!Task /\ m.id = t.id /\ m.kind = t.kind /\ m.op = "load" /\ m.answer = "none"
      BY <2>1 DEF U!Task
    <2>4. tasks' = (tasks \ {t}) \cup {m} /\ loading' = TRUE /\ busy' = busy
      BY <1>4, <2>2 DEF U!Deleted
    <2> HIDE DEF m
    <2>5. loading' \in BOOLEAN
      BY <2>4, Zenon
    <2>6. U!TypeOK'
      BY <1>1, <1>2, <2>3, <2>4, <2>5 DEF U!TypeOK
    <2>7. UsersTyped'
      BY <1>1, <1>2, <2>3, <2>4, <2>6 DEF UsersTyped
    <2>8. U!WaitsHaveCause'
      BY <1>1, <1>2, <2>3, <2>4 DEF U!WaitsHaveCause
    <2>9. UsersQuiet'
      <3> SUFFICES ASSUME ~disturbed PROVE UsersQuiet'
        BY <1>2 DEF UsersQuiet
      <3>1. tasks' = {m}
        BY <1>1, <1>2, <2>4 DEF UsersQuiet
      <3>2. Settling(m)'
        BY <2>3 DEF Settling
      <3> QED
        BY <2>3, <3>1, <3>2 DEF UsersQuiet
    <2> QED
      BY <1>3, <2>7, <2>8, <2>9 DEF UsersInv
  <1>5. CASE t.answer # "ok"
    <2>1. tasks' = tasks \ {t} /\ busy' = busy \ {"delete"} /\ loading' = loading
      BY <1>5 DEF U!Deleted
    <2>2. U!TypeOK'
      BY <1>1, <1>2, <2>1 DEF U!TypeOK
    <2>3. UsersTyped'
      BY <1>1, <1>2, <2>1, <2>2 DEF UsersTyped
    <2>4. U!WaitsHaveCause'
      BY <1>1, <1>2, <2>1 DEF U!WaitsHaveCause
    <2>5. UsersQuiet'
      <3> SUFFICES ASSUME ~disturbed PROVE UsersQuiet'
        BY <1>2 DEF UsersQuiet
      <3>1. tasks = {t} /\ tasks' = {}
        BY <1>1, <1>2, <2>1 DEF UsersQuiet
      <3>2. users = store
        BY <1>1, <1>2, <1>5, <3>1 DEF UsersQuiet, Settling
      <3> QED
        BY <1>2, <3>1, <3>2 DEF UsersQuiet
    <2> QED
      BY <1>3, <2>3, <2>4, <2>5 DEF UsersInv
  <1> QED
    BY <1>4, <1>5

LEMMA UsersKept == UsersInv /\ [U!Next]_(U!vars) => UsersInv'
  <1> SUFFICES ASSUME UsersInv, [U!Next]_(U!vars) PROVE UsersInv'
    OBVIOUS
  <1>1. CASE UNCHANGED U!vars
    <2>1. UNCHANGED <<store, users, selectedId, hidden, form, loading, busy, tasks, begun, mishaps,
                      disturbed>>
      BY <1>1 DEF U!vars, U!client
    <2>2. UsersTyped' /\ UsersQuiet' /\ U!WaitsHaveCause'
      BY <2>1 DEF UsersInv, UsersTyped, U!TypeOK, UsersQuiet, Settling, U!WaitsHaveCause
    <2>3. U!DraftIsOfShown'
      BY <2>1 DEF UsersInv, U!DraftIsOfShown, U!Shown, U!Current
    <2> QED
      BY <2>2, <2>3 DEF UsersInv
  <1>2. CASE \E t \in tasks : U!Serve(t)
    BY <1>2, UsersServe
  <1>3. CASE (\E t \in tasks : U!Fail(t)) \/ (\E k \in Accounts : U!Elsewhere(k))
    BY <1>3, UsersMishaps
  <1>4. ASSUME NEW t \in tasks, U!Loaded(t) \/ U!Saved(t) \/ U!Created(t) \/ U!Reset(t) \/ U!Deleted(t)
        PROVE  UsersInv'
    BY <1>4, UsersLoaded, UsersChanged, UsersReset, UsersDeleted
  <1>5. CASE \/ \E k \in Accounts : U!Select(k)
             \/ \E hid \in SUBSET Accounts : U!Filter(hid)
             \/ U!Type \/ U!TypePassword
    BY <1>5, UsersInPage
  <1>6. CASE U!Reload \/ U!SaveUser \/ U!ResetPassword \/ U!DeleteUser \/ U!CreateUser
    BY <1>6, UsersButtons
  <1> QED
    BY <1>1, <1>2, <1>3, <1>4, <1>5, <1>6 DEF U!Next

-----------------------------------------------------------------------------
(* The three together *)

PagesInv ==
    /\ part = "users" => UsersInv
    /\ part = "forms" => FormsInv
    /\ part = "work" => WorkInv

LEMMA PagesStart == PagesInit => PagesInv
  BY UsersStart, FormsStart, WorkStart DEF PagesInit, PagesInv

LEMMA PagesKept == PagesInv /\ [PagesNext]_pages => PagesInv'
  <1> SUFFICES ASSUME PagesInv, [PagesNext]_pages PROVE PagesInv'
    OBVIOUS
  <1>1. /\ part = "users" => [U!Next]_(U!vars)
        /\ part = "forms" => [F!Next]_(F!vars)
        /\ part = "work" => [W!Next]_(W!vars)
        /\ part' = part
    <2>1. CASE PagesNext
      BY <2>1 DEF PagesNext
    <2>2. CASE UNCHANGED pages
      <3>1. /\ UNCHANGED <<users, selectedId, hidden, busy, page, known, tab, saving, other, opened>>
            /\ UNCHANGED <<held, scanId, filesFound, summary, isScanning, isIngesting, listing>>
            /\ UNCHANGED <<part, store, form, loading, tasks, begun, mishaps, disturbed>>
        BY <2>2 DEF pages, ofUsers, ofForms, ofWork, ofBoth, counters
      <3>2. UNCHANGED U!vars /\ UNCHANGED F!vars
        BY <3>1 DEF U!vars, U!client, F!vars, F!client
      <3>3. UNCHANGED W!vars
        BY <3>1 DEF W!vars, W!scanning
      <3> QED
        BY <3>1, <3>2, <3>3
    <2> QED
      BY <2>1, <2>2
  <1>2. part = "users" => UsersInv'
    BY <1>1, UsersKept DEF PagesInv
  <1>3. part = "forms" => FormsInv'
    BY <1>1, FormsKept DEF PagesInv
  <1>4. part = "work" => WorkInv'
    BY <1>1, WorkKept DEF PagesInv
  <1> QED
    BY <1>1, <1>2, <1>3, <1>4 DEF PagesInv

LEMMA PagesInvariance == PagesSpec => []PagesInv
  BY PagesStart, PagesKept, PTL DEF PagesSpec

\* The types of the three.
THEOREM AdminTypes == PagesSpec => []PagesTypeOK
  <1>1. PagesInv => PagesTypeOK
    BY DEF PagesInv, PagesTypeOK, UsersInv, UsersTyped, FormsInv, FormsTyped, WorkInv, WorkTyped
  <1> QED
    BY <1>1, PagesInvariance, PTL

\* However answers, clicks and filters change the list of accounts: the draft and the
\* password typed are those of the account shown.
THEOREM AdminDraft == PagesSpec => []DraftIsOfShown
  <1>1. PagesInv => DraftIsOfShown
    BY DEF PagesInv, DraftIsOfShown, UsersInv
  <1> QED
    BY <1>1, PagesInvariance, PTL

\* The lists and the forms of the admin pages are those of the services once every
\* answer has been taken up, where no request failed or overlapped another.
THEOREM AdminShown == PagesSpec => []ShownIsStored
  <1>1. PagesInv => ShownIsStored
    BY UsersShows, FormsShows, WorkShows DEF PagesInv, ShownIsStored
  <1> QED
    BY <1>1, PagesInvariance, PTL

\* No spinner and no disabled button of these pages outlives its request.
THEOREM AdminWaits == PagesSpec => []WaitsHaveCause
  <1>1. PagesInv => WaitsHaveCause
    BY FormsShows DEF PagesInv, WaitsHaveCause, UsersInv, WorkInv
  <1> QED
    BY <1>1, PagesInvariance, PTL

\* A form that sends all its fields changes none its admin left alone, unless the
\* record changed behind it or the form was never filled.
THEOREM AdminFields == PagesSpec => UntouchedFieldsKept
  <1>1. PagesInv /\ [PagesNext]_pages => [part = "forms" => F!UntouchedFieldsKept]_pages
    <2> SUFFICES ASSUME PagesInv, PagesNext, part = "forms" PROVE F!UntouchedFieldsKept
      OBVIOUS
    <2>1. FormsInv /\ [F!Next]_(F!vars)
      BY DEF PagesInv, PagesNext
    <2> QED
      BY <2>1, FormsKeep
  <1> QED
    BY <1>1, PagesInvariance, PTL DEF PagesSpec, UntouchedFieldsKept
=============================================================================
