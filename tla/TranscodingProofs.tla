------------------------- MODULE TranscodingProofs -------------------------
(***************************************************************************)
(* Theorems about Transcoding, for any tracks, callers, bitrates and       *)
(* segmentation: its types, that what was promised is in storage, and that *)
(* a finished job stays as it is unless it is cancelled.                   *)
(***************************************************************************)
EXTENDS Transcoding, SequenceTheorems, TLAPS


-----------------------------------------------------------------------------
(* The inductive invariant *)

InCall(c) == pc[c] \in InService \cup {"queued", "replied", "refused"}

\* The handler that serves c has a job row in hand.
InHand(c) ==
    \/ pc[c] \in {"start", "encode", "upload", "close", "fail"}
    \/ pc[c] = "fetch" /\ call[c].kind = "aac"

Finished(i) == jobs[i].status \in {"completed", "failed"}

\* A call is about the caller's own track, and some bitrate of it; a listener calls
\* for variants, and only a prewarm looks for more to do.
CallInv(c) ==
    /\ InCall(c) => /\ call[c].rates # {} /\ call[c].track \in job[c].tracks
                    /\ job[c].kind = "play" => call[c].kind = "hls"
    /\ pc[c] \in {"pick", "done"} => job[c].kind = "prewarm"
    /\ \A item \in todo[c] : item.track \in job[c].tracks
    /\ pc[c] = "done" => todo[c] = {}
    /\ pc[c] \in {"lookup", "served"} => job[c].kind = "play"
    /\ pc[c] \in {"queued", "job"} \/ (pc[c] = "fetch" /\ ~InHand(c)) => call[c].left # {}

\* The row in hand is the one that was made for the bitrate in hand, and unfinished.
RowInv(c) ==
    InHand(c) =>
        /\ call[c].id \in DOMAIN jobs /\ ~Finished(call[c].id)
        /\ jobs[call[c].id].track = call[c].track /\ jobs[call[c].id].rate = call[c].rate
        /\ jobs[call[c].id].kind = call[c].kind

\* What a call has stored so far: every bitrate it is through with, unless one has
\* failed; of the one in hand, all files but those still to upload.
UploadInv(c) ==
    /\ pc[c] = "upload" /\ call[c].kind = "hls" =>
         /\ call[c].files # {} /\ call[c].files \subseteq FilesOf(job[c].dur)
         /\ \A f \in FilesOf(job[c].dur) \ call[c].files :
              files[call[c].track][call[c].rate][f] # Absent
    /\ pc[c] = "close" => IF call[c].kind = "hls" THEN Present(call[c].track, call[c].rate)
                          ELSE call[c].id \in outputs
    /\ pc[c] \in InService \cup {"queued"} /\ call[c].kind = "hls" /\ call[c].ok =>
         \A r \in call[c].rates \ call[c].left :
            Present(call[c].track, r) \/ (InHand(c) /\ r = call[c].rate)
    /\ pc[c] \in {"master", "mastering"} => /\ call[c].kind = "hls" /\ call[c].ok
                                          /\ call[c].left = {}

\* The manifests that were promised, or are on their way: every track of an HLS
\* prewarm is still to do, in its call, done or counted as an error.
PromiseInv(c) ==
    /\ pc[c] = "replied" /\ call[c].kind = "hls" => ManifestExists(call[c].track)
    /\ pc[c] = "served" => \A t \in job[c].tracks : ManifestExists(t)
    /\ job[c].kind = "prewarm" /\ job[c].hls /\ pc[c] \notin {"idle", "failed", "gone"} /\ ~errors[c]
         => \A t \in job[c].tracks :
              \/ ManifestExists(t)
              \/ \E item \in todo[c] : item.kind = "hls" /\ item.track = t
              \/ InCall(c) /\ call[c].kind = "hls" /\ call[c].track = t

CallerInv(c) == CallInv(c) /\ RowInv(c) /\ UploadInv(c) /\ PromiseInv(c)

IInv ==
    /\ TypeOK
    /\ \A c \in Callers : CallerInv(c)
    /\ \A c, d \in Callers : InHand(c) /\ InHand(d) /\ call[c].id = call[d].id => c = d
    /\ ListedVariantsPresent
    /\ CompletedJobsHaveOutput

-----------------------------------------------------------------------------
(* Jobs, rows and calls *)

Callables == InService \cup {"queued", "replied", "refused"}
Queues == [Gateways -> Seq(Callers)]

\* What a caller is.
LEMMA JobType ==
    ASSUME TypeOK, NEW c \in Callers
    PROVE  /\ job[c].kind \in {"play", "prewarm"} /\ job[c].gw \in Gateways
           /\ job[c].tracks \in SUBSET Tracks /\ job[c].rates \in (SUBSET Rates) \ {{}}
           /\ job[c].dur \in Durations /\ job[c].hls \in BOOLEAN
           /\ job[c].kind = "play" => \E t \in Tracks : job[c].tracks = {t}
  <1>1. job \in Workloads
    BY DEF TypeOK
  <1>2. job[c] \in [kind: {"play", "prewarm"}, gw: Gateways, tracks: SUBSET Tracks,
                    rates: (SUBSET Rates) \ {{}}, dur: Durations,
                    transcode: BOOLEAN, hls: BOOLEAN]
    BY <1>1, TranscodingAssumption
  <1>3. job[c].kind = "play" => \E t \in Tracks : job[c].tracks = {t}
    BY <1>1, TranscodingAssumption
  <1> QED
    BY <1>2, <1>3

\* The variants that a master playlist lists are bitrates.
LEMMA ListedType ==
    ASSUME TypeOK, NEW t \in Tracks
    PROVE  Listed(t) \subseteq Rates
  BY DEF TypeOK, Listed

\* The files of a cut are among the files, and a file that is there is not absent.
LEMMA FilesType ==
    ASSUME NEW d \in Durations
    PROVE  /\ FilesOf(d) \subseteq Files /\ Playlist \in FilesOf(d)
           /\ d # Absent /\ Torn # Absent
  BY TranscodingAssumption DEF FilesOf, Files

\* A call has its fields.
LEMMA CallType ==
    ASSUME NEW k \in Call
    PROVE  /\ k.kind \in {"aac", "hls"} /\ k.track \in Tracks /\ k.rates \in SUBSET Rates
           /\ k.left \in SUBSET Rates /\ k.rate \in Rates /\ k.id \in Nat
           /\ k.files \in SUBSET Files /\ k.ok \in BOOLEAN
  BY DEF Call

\* A new call is for the item.
LEMMA NewCallType ==
    ASSUME NEW item, item.kind \in {"aac", "hls"}, item.track \in Tracks,
           item.rates \in (SUBSET Rates) \ {{}}
    PROVE  /\ NewCall(item) \in Call
           /\ NewCall(item).kind = item.kind /\ NewCall(item).track = item.track
           /\ NewCall(item).rates = item.rates /\ NewCall(item).left = item.rates
  <1>1. (CHOOSE r \in item.rates : TRUE) \in Rates
    OBVIOUS
  <1> QED
    BY <1>1 DEF NewCall, Call

\* The call with other files to upload.
LEMMA NextFiles ==
    ASSUME NEW C, NEW f, NEW c \in C, DOMAIN f = C, f[c] \in Call,
           NEW F \in SUBSET Files, NEW g, g = [f EXCEPT ![c].files = F]
    PROVE  /\ DOMAIN g = C /\ \A d \in C \ {c} : g[d] = f[d]
           /\ g[c] \in Call
           /\ g[c].kind = f[c].kind /\ g[c].track = f[c].track /\ g[c].rates = f[c].rates
           /\ g[c].left = f[c].left /\ g[c].rate = f[c].rate /\ g[c].id = f[c].id
           /\ g[c].ok = f[c].ok /\ g[c].files = F
  <1>1. /\ DOMAIN g = C /\ \A d \in C \ {c} : g[d] = f[d]
        /\ g[c] = [f[c] EXCEPT !.files = F]
    OBVIOUS
  <1> QED
    BY <1>1 DEF Call

\* A row whose status is updated.
LEMMA SetStatusIs ==
    ASSUME TypeOK, NEW i \in DOMAIN jobs,
           NEW v \in Active \cup {"completed", "failed", "cancelled"}, SetStatus(i, v)
    PROVE  /\ jobs' \in Seq(JobRow) /\ DOMAIN jobs' = DOMAIN jobs
           /\ \A k \in DOMAIN jobs \ {i} : jobs'[k] = jobs[k]
           /\ jobs'[i].status = v /\ jobs'[i].track = jobs[i].track
           /\ jobs'[i].rate = jobs[i].rate /\ jobs'[i].kind = jobs[i].kind
  <1>1. jobs \in Seq(JobRow) /\ i \in 1 .. Len(jobs) /\ jobs[i] \in JobRow
    BY DEF TypeOK
  <1>2. [jobs[i] EXCEPT !.status = v] \in JobRow
    BY <1>1 DEF JobRow
  <1>3. jobs' = [jobs EXCEPT ![i] = [jobs[i] EXCEPT !.status = v]]
    BY DEF SetStatus
  <1>4. jobs' \in Seq(JobRow) /\ Len(jobs') = Len(jobs)
    BY <1>1, <1>2, <1>3, ExceptSeq
  <1>5. DOMAIN jobs' = DOMAIN jobs /\ \A k \in DOMAIN jobs \ {i} : jobs'[k] = jobs[k]
    BY <1>3
  <1>6. jobs'[i] = [jobs[i] EXCEPT !.status = v]
    BY <1>3
  <1> QED
    BY <1>1, <1>4, <1>5, <1>6 DEF JobRow

\* A row that is added.
LEMMA RowAdded ==
    ASSUME NEW s \in Seq(JobRow), NEW row \in JobRow, NEW z, z = Append(s, row)
    PROVE  /\ z \in Seq(JobRow) /\ DOMAIN z = DOMAIN s \cup {Len(s) + 1}
           /\ Len(s) + 1 \notin DOMAIN s /\ Len(s) \in Nat
           /\ \A k \in DOMAIN s : z[k] = s[k]
           /\ z[Len(s) + 1] = row
  <1>1. /\ z \in Seq(JobRow) /\ Len(z) = Len(s) + 1
        /\ \A k \in 1 .. Len(s) : z[k] = s[k]
        /\ z[Len(s) + 1] = row
    BY AppendProperties
  <1>2. DOMAIN z = 1 .. Len(s) + 1 /\ DOMAIN s = 1 .. Len(s) /\ Len(s) \in Nat
    BY <1>1
  <1> QED
    BY <1>1, <1>2

-----------------------------------------------------------------------------
(* Steps of one caller *)

\* What is stored stays, though it may be written again, and so do the rows.
Grows ==
    /\ job' = job
    /\ \A t \in Tracks : master[t] # Absent => master'[t] # Absent
    /\ \A t \in Tracks, r \in Rates, f \in Files :
          files[t][r][f] # Absent => files'[t][r][f] # Absent
    /\ outputs \subseteq outputs' /\ DOMAIN jobs \subseteq DOMAIN jobs'
    /\ \A i \in DOMAIN jobs : /\ jobs'[i].track = jobs[i].track /\ jobs'[i].rate = jobs[i].rate
                              /\ jobs'[i].kind = jobs[i].kind

\* What the others keep.
Others(c) ==
    \A d \in Callers \ {c} :
        pc'[d] = pc[d] /\ todo'[d] = todo[d] /\ call'[d] = call[d] /\ errors'[d] = errors[d]

\* A variant that is there stays there.
LEMMA StaysPresent ==
    ASSUME TypeOK, Grows, NEW t \in Tracks, NEW r \in Rates, Present(t, r)
    PROVE  Present(t, r)'
  <1>1. PICK d \in Durations : \A f \in FilesOf(d) : files[t][r][f] # Absent
    BY DEF Present
  <1>2. \A f \in FilesOf(d) : files'[t][r][f] # Absent
    BY <1>1, FilesType DEF Grows
  <1> QED
    BY <1>2 DEF Present, FilesOf

\* So a caller that does nothing keeps what holds of it, as long as its row does.
LEMMA CallerKept ==
    ASSUME TypeOK, Grows, NEW d \in Callers, CallerInv(d),
           pc'[d] = pc[d], todo'[d] = todo[d], call'[d] = call[d], errors'[d] = errors[d],
           InHand(d) => jobs'[call[d].id].status \notin {"completed", "failed"}
    PROVE  CallerInv(d)'
  <1>1. job' = job /\ (InCall(d)' <=> InCall(d)) /\ (InHand(d)' <=> InHand(d))
    BY DEF Grows, InCall, InHand
  <1>2. CallInv(d)'
    BY <1>1 DEF CallerInv, CallInv
  <1>3. RowInv(d)'
    BY <1>1 DEF CallerInv, RowInv, Grows, Finished
  <1>4. UploadInv(d)'
    <2>1. pc[d] \in InService \cup {"queued"} =>
             /\ call[d].track \in Tracks /\ call[d].rate \in Rates /\ call[d].rates \subseteq Rates
             /\ \A r \in Rates : Present(call[d].track, r) => Present(call[d].track, r)'
      BY CallType, StaysPresent DEF TypeOK
    <2>2. pc[d] = "upload" /\ call[d].kind = "hls" =>
            \A f \in FilesOf(job[d].dur) \ call[d].files :
              files'[call[d].track][call[d].rate][f] # Absent
      BY <2>1, FilesType, JobType DEF CallerInv, UploadInv, Grows, InService
    <2>3. pc[d] = "close" =>
            IF call[d].kind = "hls" THEN Present(call[d].track, call[d].rate)'
            ELSE call[d].id \in outputs'
      BY <2>1 DEF CallerInv, UploadInv, Grows, InService
    <2>4. pc[d] \in InService \cup {"queued"} /\ call[d].kind = "hls" /\ call[d].ok =>
            \A r \in call[d].rates \ call[d].left :
              Present(call[d].track, r)' \/ (InHand(d) /\ r = call[d].rate)
      BY <2>1 DEF CallerInv, UploadInv
    <2> QED
      BY <1>1, <2>2, <2>3, <2>4 DEF CallerInv, UploadInv, Present, FilesOf
  <1>5. PromiseInv(d)'
    <2>1. \A t \in Tracks : ManifestExists(t) => ManifestExists(t)'
      BY DEF Grows, ManifestExists
    <2>2. job[d].tracks \subseteq Tracks
      BY JobType
    <2>3. pc[d] = "replied" => call[d].track \in Tracks
      BY CallType DEF TypeOK
    <2> QED
      BY <1>1, <2>1, <2>2, <2>3 DEF CallerInv, PromiseInv
  <1> QED
    BY <1>2, <1>3, <1>4, <1>5 DEF CallerInv

\* What a row that is marked completed stands for.
Promised(i) ==
    IF jobs[i].kind = "hls" THEN Present(jobs[i].track, jobs[i].rate) ELSE i \in outputs

\* A step of c that stores things, writes only its own row and adds only new ones.
LEMMA CallerStep ==
    ASSUME IInv, TypeOK', NEW c \in Callers, Grows, Others(c), CallerInv(c)',
           InHand(c)' => \/ InHand(c) /\ call'[c].id = call[c].id
                         \/ call'[c].id \notin DOMAIN jobs,
           \A i \in DOMAIN jobs : jobs'[i] # jobs[i] => InHand(c) /\ i = call[c].id,
           \A i \in DOMAIN jobs' : jobs'[i].status = "completed" =>
               i \in DOMAIN jobs /\ (jobs[i].status = "completed" \/ Promised(i)'),
           \A t \in Tracks : master'[t] = master[t] \/ \A r \in Listed(t)' : Present(t, r)'
    PROVE  IInv'
  <1>1. TypeOK /\ \A d \in Callers : CallerInv(d)
    BY DEF IInv
  <1>2. \A d \in Callers : CallerInv(d)'
    <2> SUFFICES ASSUME NEW d \in Callers \ {c} PROVE CallerInv(d)'
      OBVIOUS
    <2>1. pc'[d] = pc[d] /\ todo'[d] = todo[d] /\ call'[d] = call[d] /\ errors'[d] = errors[d]
      BY DEF Others
    <2>2. InHand(d) => jobs'[call[d].id].status \notin {"completed", "failed"}
      <3> SUFFICES ASSUME InHand(d)
                   PROVE  jobs'[call[d].id].status \notin {"completed", "failed"}
        OBVIOUS
      <3>1. call[d].id \in DOMAIN jobs /\ ~Finished(call[d].id)
        BY <1>1 DEF CallerInv, RowInv
      <3>2. jobs'[call[d].id] = jobs[call[d].id]
        BY <3>1 DEF IInv
      <3> QED
        BY <3>1, <3>2 DEF Finished
    <2> QED
      BY <1>1, <2>1, <2>2, CallerKept
  <1>3. ASSUME NEW d \in Callers, NEW e \in Callers, InHand(d)', InHand(e)',
               call'[d].id = call'[e].id
        PROVE  d = e
    <2>1. \A x \in Callers \ {c} : /\ InHand(x)' <=> InHand(x)
                                   /\ call'[x] = call[x]
                                   /\ InHand(x) => call[x].id \in DOMAIN jobs
      BY <1>1 DEF Others, InHand, CallerInv, RowInv
    <2> QED
      BY <1>3, <2>1 DEF IInv
  <1>4. ListedVariantsPresent'
    <2> SUFFICES ASSUME NEW t \in Tracks, NEW r \in Listed(t)', master'[t] = master[t]
                 PROVE  Present(t, r)'
      BY DEF ListedVariantsPresent
    <2>2. r \in Listed(t)
      BY DEF Listed
    <2>1. r \in Rates /\ Present(t, r)
      BY <1>1, <2>2, ListedType DEF IInv, ListedVariantsPresent
    <2> QED
      BY <1>1, <2>1, StaysPresent
  <1>5. CompletedJobsHaveOutput'
    <2> SUFFICES ASSUME NEW i \in DOMAIN jobs', jobs'[i].status = "completed"
                 PROVE  Promised(i)'
      BY DEF CompletedJobsHaveOutput, Promised
    <2>1. CASE Promised(i)'
      BY <2>1
    <2>2. CASE i \in DOMAIN jobs /\ jobs[i].status = "completed"
      <3>1. Promised(i)
        BY <2>2 DEF IInv, CompletedJobsHaveOutput, Promised
      <3>2. jobs[i] \in JobRow
        BY <1>1, <2>2 DEF TypeOK
      <3> PICK t \in Tracks, r \in Rates : t = jobs[i].track /\ r = jobs[i].rate
        BY <3>2 DEF JobRow
      <3>3. /\ jobs'[i].track = t /\ jobs'[i].rate = r
            /\ jobs'[i].kind = jobs[i].kind
        BY <2>2 DEF Grows
      <3>4. CASE jobs[i].kind = "hls"
        <4>1. Present(t, r)'
          BY <1>1, <3>1, <3>4, StaysPresent DEF Promised
        <4> QED
          BY <3>3, <3>4, <4>1 DEF Promised, Present
      <3>5. CASE jobs[i].kind # "hls"
        BY <3>1, <3>3, <3>5 DEF Promised, Grows
      <3> QED
        BY <3>4, <3>5
    <2> QED
      BY <2>1, <2>2
  <1> QED
    BY <1>2, <1>3, <1>4, <1>5 DEF IInv

\* A step of c that stores nothing and takes no row.
LEMMA QuietStep ==
    ASSUME IInv, TypeOK', NEW c \in Callers, UNCHANGED store, Others(c), CallerInv(c)',
           InHand(c)' => InHand(c) /\ call'[c].id = call[c].id
    PROVE  IInv'
  <1>1. /\ job' = job /\ files' = files /\ master' = master /\ jobs' = jobs
        /\ outputs' = outputs
    BY DEF store
  <1>2. Grows
    BY <1>1 DEF Grows
  <1> QED
    BY <1>1, <1>2, CallerStep

\* A step of c that changes nothing else of what it keeps.
Moves(c, stage) ==
    /\ Goto(c, stage) /\ queue' \in Queues
    /\ UNCHANGED <<store, todo, call, errors, cancelling>>

LEMMA MovesIs ==
    ASSUME TypeOK, NEW c \in Callers, NEW stage \in Stages, Moves(c, stage),
           stage \in Callables => call[c] \in Call
    PROVE  /\ TypeOK' /\ Others(c) /\ pc'[c] = stage
           /\ job' = job /\ files' = files /\ master' = master /\ jobs' = jobs
           /\ outputs' = outputs /\ todo' = todo /\ call' = call /\ errors' = errors
  <1>1. /\ pc' = [pc EXCEPT ![c] = stage] /\ queue' \in [Gateways -> Seq(Callers)]
        /\ job' = job /\ files' = files /\ master' = master /\ jobs' = jobs
        /\ outputs' = outputs /\ todo' = todo /\ call' = call /\ errors' = errors
        /\ cancelling' = cancelling
    BY DEF Moves, Goto, store, Queues
  <1>2. pc' \in [Callers -> Stages] /\ pc'[c] = stage /\ \A d \in Callers \ {c} : pc'[d] = pc[d]
    BY <1>1 DEF TypeOK
  <1>3. \A d \in Callers : pc'[d] \in Callables => call'[d] \in Call
    BY <1>1, <1>2 DEF TypeOK, Callables
  <1> QED
    BY <1>1, <1>2, <1>3 DEF TypeOK, Others, Callables

LEMMA MoveStep ==
    ASSUME IInv, NEW c \in Callers, NEW stage \in Stages, Moves(c, stage),
           stage \in Callables => call[c] \in Call,
           CallInv(c)', RowInv(c)', UploadInv(c)', PromiseInv(c)', InHand(c)' => InHand(c)
    PROVE  IInv'
  <1>1. TypeOK
    BY DEF IInv
  <1>2. TypeOK' /\ Others(c) /\ UNCHANGED store /\ call' = call
    BY <1>1, MovesIs DEF store
  <1>3. CallerInv(c)'
    BY DEF CallerInv
  <1> QED
    BY <1>2, <1>3, QuietStep

\* A caller that has left its call is owed what it was, and a manifest if it is told so.
LEMMA LeaveStep ==
    ASSUME IInv, NEW c \in Callers, NEW stage \in {"refused", "gone"}, Moves(c, stage),
           InCall(c)
    PROVE  IInv'
  <1>1. TypeOK /\ call[c] \in Call /\ stage \in Stages
    BY DEF IInv, TypeOK, InCall, Stages
  <1>2. /\ pc'[c] = stage /\ job' = job /\ files' = files /\ master' = master /\ jobs' = jobs
        /\ outputs' = outputs /\ todo' = todo /\ call' = call /\ errors' = errors
    BY <1>1, MovesIs
  <1>3. CallInv(c) /\ PromiseInv(c)
    BY DEF IInv, CallerInv
  <1>4. CallInv(c)'
    BY <1>2, <1>3 DEF CallInv, InCall, InService, Callables
  <1>5. ~InHand(c)' /\ RowInv(c)'
    BY <1>2 DEF InHand, RowInv
  <1>6. UploadInv(c)'
    BY <1>2 DEF UploadInv, InService
  <1>7. PromiseInv(c)'
    BY <1>2, <1>3 DEF PromiseInv, ManifestExists, InCall, InService
  <1> QED
    BY <1>1, <1>4, <1>5, <1>6, <1>7, MoveStep

-----------------------------------------------------------------------------
(* Callers *)

LEMMA CheckManifestKeeps == ASSUME IInv, NEW c \in Callers, CheckManifest(c) PROVE IInv'
  <1>1. TypeOK /\ CallInv(c) /\ pc[c] = "idle" /\ job[c].kind = "play"
    BY DEF IInv, CallerInv, CheckManifest
  <1>2. PICK stage \in {"served", "lookup"} :
           /\ stage = "served" => \E t \in job[c].tracks : ManifestExists(t)
           /\ Goto(c, stage)
           /\ UNCHANGED <<store, queue, todo, call, errors, cancellation>>
    BY DEF CheckManifest
  <1>3. Moves(c, stage) /\ stage \in Stages /\ stage \notin Callables
    BY <1>1, <1>2 DEF Moves, Queues, TypeOK, Stages, Callables, InService, cancellation
  <1>4. PICK t \in Tracks : job[c].tracks = {t}
    BY <1>1, JobType
  <1>5. /\ pc'[c] = stage /\ job' = job /\ files' = files /\ master' = master /\ jobs' = jobs
        /\ outputs' = outputs /\ todo' = todo /\ call' = call /\ errors' = errors
    BY <1>1, <1>3, MovesIs
  <1>6. stage = "served" => ManifestExists(t)
    BY <1>2, <1>4
  <1>7. CallInv(c)'
    BY <1>1, <1>5, <1>6 DEF CallInv, InCall, InService, InHand
  <1>8. ~InHand(c)' /\ RowInv(c)'
    BY <1>5, <1>6 DEF InHand, RowInv
  <1>9. UploadInv(c)'
    BY <1>5, <1>6 DEF UploadInv, InService
  <1>10. PromiseInv(c)'
    BY <1>1, <1>4, <1>5, <1>6 DEF PromiseInv, ManifestExists
  <1> QED
    BY <1>3, <1>7, <1>8, <1>9, <1>10, MoveStep

LEMMA FinishPrewarmKeeps == ASSUME IInv, NEW c \in Callers, FinishPrewarm(c) PROVE IInv'
  <1>1. TypeOK /\ pc[c] = "pick" /\ todo[c] = {} /\ CallInv(c) /\ PromiseInv(c)
    BY DEF IInv, FinishPrewarm, CallerInv
  <1>2. Moves(c, "done") /\ "done" \in Stages /\ "done" \notin Callables
    BY <1>1 DEF FinishPrewarm, Moves, Queues, TypeOK, Stages, Callables, InService, cancellation
  <1>3. /\ pc'[c] = "done" /\ job' = job /\ files' = files /\ master' = master /\ jobs' = jobs
        /\ outputs' = outputs /\ todo' = todo /\ call' = call /\ errors' = errors
    BY <1>1, <1>2, MovesIs
  <1>4. CallInv(c)'
    BY <1>1, <1>3 DEF CallInv, InCall, InService
  <1>5. ~InHand(c)' /\ RowInv(c)'
    BY <1>3 DEF InHand, RowInv
  <1>6. UploadInv(c)'
    BY <1>3 DEF UploadInv, InService
  <1>7. PromiseInv(c)'
    BY <1>1, <1>3 DEF PromiseInv, ManifestExists, InCall, InService
  <1> QED
    BY <1>2, <1>4, <1>5, <1>6, <1>7, MoveStep

LEMMA SendKeeps == ASSUME IInv, NEW c \in Callers, Send(c) PROVE IInv'
  <1> DEFINE stage == IF call[c].kind = "hls" THEN "fetch" ELSE "job"
  <1>1. TypeOK /\ pc[c] = "queued" /\ CallInv(c) /\ UploadInv(c) /\ PromiseInv(c) /\ call[c] \in Call
    BY DEF IInv, Send, CallerInv, TypeOK
  <1>2. Moves(c, stage) /\ stage \in Stages
    BY <1>1 DEF Send, Moves, Queues, TypeOK, Stages, InService, cancellation
  <1>3. stage = "job" \/ (stage = "fetch" /\ call[c].kind = "hls")
    OBVIOUS
  <1> HIDE DEF stage
  <1>4. /\ pc'[c] = stage /\ job' = job /\ files' = files /\ master' = master /\ jobs' = jobs
        /\ outputs' = outputs /\ todo' = todo /\ call' = call /\ errors' = errors
    BY <1>1, <1>2, MovesIs
  <1>5. CallInv(c)'
    BY <1>1, <1>3, <1>4 DEF CallInv, InCall, InService, InHand
  <1>6. ~InHand(c)' /\ RowInv(c)'
    BY <1>3, <1>4 DEF InHand, RowInv
  <1>7. UploadInv(c)'
    BY <1>1, <1>3, <1>4 DEF UploadInv, InService, InHand, Present, FilesOf
  <1>8. PromiseInv(c)'
    BY <1>1, <1>3, <1>4 DEF PromiseInv, ManifestExists, InCall, InService
  <1> QED
    BY <1>1, <1>2, <1>5, <1>6, <1>7, <1>8, MoveStep

\* An item is a call that can be made.
LEMMA ItemType ==
    ASSUME NEW item \in Items
    PROVE  item.kind \in {"aac", "hls"} /\ item.track \in Tracks
           /\ item.rates \in (SUBSET Rates) \ {{}}
  BY DEF Items

\* A caller that waits for its client with an item it no longer has to do.
LEMMA EnqueueStep ==
    ASSUME IInv, NEW c \in Callers, NEW item,
           item.kind \in {"aac", "hls"}, item.track \in job[c].tracks,
           item.rates \in (SUBSET Rates) \ {{}}, job[c].kind = "play" => item.kind = "hls",
           pc[c] \in {"lookup", "pick"},
           Enqueue(c, item), UNCHANGED <<store, errors, cancelling>>,
           todo' \in [Callers -> SUBSET Items], todo'[c] \in {todo[c], todo[c] \ {item}},
           \A d \in Callers \ {c} : todo'[d] = todo[d]
    PROVE  IInv'
  <1>1. TypeOK /\ CallInv(c) /\ PromiseInv(c)
    BY DEF IInv, CallerInv
  <1>2. /\ job' = job /\ files' = files /\ master' = master /\ jobs' = jobs
        /\ outputs' = outputs /\ errors' = errors /\ cancelling' = cancelling
        /\ call' = [call EXCEPT ![c] = NewCall(item)]
        /\ queue' = [queue EXCEPT ![job[c].gw] = Append(@, c)]
        /\ pc' = [pc EXCEPT ![c] = "queued"]
    BY DEF Enqueue, Goto, store
  <1>3. item.track \in Tracks
    BY <1>1, JobType
  <1> DEFINE k == NewCall(item)
  <1>4. /\ k \in Call /\ k.kind = item.kind /\ k.track = item.track
        /\ k.rates = item.rates /\ k.left = item.rates
    BY <1>3, NewCallType
  <1> HIDE DEF k
  <1>5. /\ call'[c] = k /\ pc'[c] = "queued" /\ errors'[c] = errors[c] /\ Others(c)
    BY <1>1, <1>2 DEF TypeOK, Others, k
  <1>6. TypeOK'
    <2>1. queue' \in Queues
      <3>1. queue[job[c].gw] \in Seq(Callers) /\ job[c].gw \in Gateways
        BY <1>1, JobType DEF TypeOK
      <3>2. Append(queue[job[c].gw], c) \in Seq(Callers)
        BY <3>1, AppendProperties
      <3> QED
        BY <1>1, <1>2, <3>1, <3>2 DEF TypeOK, Queues
    <2>2. /\ pc' \in [Callers -> Stages]
          /\ call' \in [Callers -> Call \cup {<<>>}]
      BY <1>1, <1>2, <1>4 DEF TypeOK, Stages, k
    <2>3. \A d \in Callers : pc'[d] \in Callables => call'[d] \in Call
      BY <1>1, <1>4, <1>5 DEF TypeOK, Others, Callables
    <2> QED
      BY <1>1, <1>2, <2>1, <2>2, <2>3 DEF TypeOK, Queues, Callables
  <1>7. CallInv(c)'
    BY <1>1, <1>2, <1>4, <1>5 DEF CallInv, InCall, InHand, InService
  <1>8. ~InHand(c)' /\ RowInv(c)'
    BY <1>5 DEF InHand, RowInv
  <1>9. UploadInv(c)'
    BY <1>4, <1>5 DEF UploadInv, InService
  <1>10. PromiseInv(c)'
    <2>1. pc'[c] = "queued" /\ pc[c] \notin {"idle", "failed", "gone"} /\ ~InCall(c) /\ InCall(c)'
      BY <1>5 DEF InCall, InService
    <2> SUFFICES ASSUME job[c].kind = "prewarm", job[c].hls, ~errors[c], NEW t \in job[c].tracks
                 PROVE  \/ ManifestExists(t)
                        \/ \E x \in todo'[c] : x.kind = "hls" /\ x.track = t
                        \/ k.kind = "hls" /\ k.track = t
      BY <1>2, <1>5, <2>1 DEF PromiseInv, ManifestExists
    <2>2. ManifestExists(t) \/ \E x \in todo[c] : x.kind = "hls" /\ x.track = t
      BY <1>1, <2>1 DEF PromiseInv
    <2> QED
      BY <1>4, <1>5, <2>2
  <1>11. UNCHANGED store
    BY <1>2 DEF store
  <1> QED
    BY <1>5, <1>6, <1>7, <1>8, <1>9, <1>10, <1>11, QuietStep DEF CallerInv

LEMMA LookUpTrackKeeps == ASSUME IInv, NEW c \in Callers, LookUpTrack(c) PROVE IInv'
  <1>1. TypeOK /\ pc[c] = "lookup" /\ CallInv(c) /\ job[c].kind = "play"
    BY DEF IInv, LookUpTrack, CallerInv, CallInv
  <1>2. UNCHANGED <<store, todo, errors, cancelling>>
    BY DEF LookUpTrack, cancellation
  <1>3. CASE Goto(c, "failed") /\ UNCHANGED <<queue, call>>
    <2>1. Moves(c, "failed") /\ "failed" \in Stages /\ "failed" \notin Callables
      BY <1>1, <1>2, <1>3 DEF Moves, Queues, TypeOK, Stages, Callables, InService
    <2>2. pc'[c] = "failed" /\ job' = job /\ todo' = todo
      BY <1>1, <2>1, MovesIs
    <2>3. CallInv(c)'
      BY <1>1, <2>2 DEF CallInv, InCall, InService, InHand
    <2>4. ~InHand(c)' /\ RowInv(c)'
      BY <2>2 DEF InHand, RowInv
    <2>5. UploadInv(c)'
      BY <2>2 DEF UploadInv, InService
    <2>6. PromiseInv(c)'
      BY <1>1, <2>2 DEF PromiseInv
    <2> QED
      BY <2>1, <2>3, <2>4, <2>5, <2>6, MoveStep
  <1>4. CASE \E t \in job[c].tracks :
                Enqueue(c, [kind |-> "hls", track |-> t, rates |-> job[c].rates])
    <2> PICK t \in job[c].tracks :
                Enqueue(c, [kind |-> "hls", track |-> t, rates |-> job[c].rates])
      BY <1>4
    <2> DEFINE item == [kind |-> "hls", track |-> t, rates |-> job[c].rates]
    <2>1. /\ item.kind = "hls" /\ item.track = t /\ item.rates = job[c].rates
          /\ job[c].rates \in (SUBSET Rates) \ {{}}
      BY <1>1, JobType
    <2>2. Enqueue(c, item)
      OBVIOUS
    <2> HIDE DEF item
    <2>3. UNCHANGED <<store, errors, cancelling>> /\ todo' = todo
      BY <1>2
    <2>4. todo' \in [Callers -> SUBSET Items]
      BY <1>1, <2>3 DEF TypeOK
    <2> QED
      BY <1>1, <2>1, <2>2, <2>3, <2>4, EnqueueStep
  <1> QED
    BY <1>3, <1>4 DEF LookUpTrack

LEMMA StartPrewarmKeeps == ASSUME IInv, NEW c \in Callers, StartPrewarm(c) PROVE IInv'
  <1> DEFINE transcodes == {[kind |-> "aac", track |-> t, rates |-> {r}] :
                               t \in job[c].tracks, r \in job[c].rates}
             variants == {[kind |-> "hls", track |-> t, rates |-> job[c].rates] :
                               t \in job[c].tracks}
             items == (IF job[c].transcode THEN transcodes ELSE {})
                      \cup (IF job[c].hls THEN variants ELSE {})
  <1>1. TypeOK /\ pc[c] = "idle" /\ job[c].kind = "prewarm"
    BY DEF IInv, StartPrewarm
  <1>2. /\ todo' = [todo EXCEPT ![c] = items] /\ pc' = [pc EXCEPT ![c] = "pick"]
        /\ job' = job /\ files' = files /\ master' = master /\ jobs' = jobs
        /\ outputs' = outputs /\ errors' = errors /\ cancelling' = cancelling
        /\ queue' = queue /\ call' = call
    BY DEF StartPrewarm, Goto, store, cancellation
  <1>3. items \in SUBSET Items
    <2>1. job[c].tracks \in SUBSET Tracks /\ job[c].rates \in (SUBSET Rates) \ {{}}
      BY <1>1, JobType
    <2>2. transcodes \subseteq Items
      BY <2>1 DEF Items
    <2>3. variants \subseteq Items
      BY <2>1 DEF Items
    <2> QED
      BY <2>2, <2>3
  <1>4. job[c].hls => \A t \in job[c].tracks : \E x \in items : x.kind = "hls" /\ x.track = t
    <2> SUFFICES ASSUME job[c].hls, NEW t \in job[c].tracks
                 PROVE  \E x \in items : x.kind = "hls" /\ x.track = t
      OBVIOUS
    <2>1. [kind |-> "hls", track |-> t, rates |-> job[c].rates] \in items
      OBVIOUS
    <2> QED
      BY <2>1
  <1>12. \A x \in items : x.track \in job[c].tracks
    OBVIOUS
  <1> HIDE DEF items
  <1>5. pc'[c] = "pick" /\ todo'[c] = items /\ Others(c)
    BY <1>1, <1>2 DEF TypeOK, Others
  <1>6. TypeOK'
    <2>1. /\ pc' \in [Callers -> Stages] /\ todo' \in [Callers -> SUBSET Items]
          /\ \A d \in Callers : pc'[d] \in Callables => call'[d] \in Call
      BY <1>1, <1>2, <1>3 DEF TypeOK, Stages, Callables, InService
    <2> QED
      BY <1>1, <1>2, <2>1 DEF TypeOK, Callables
  <1>7. CallInv(c)'
    BY <1>1, <1>2, <1>5, <1>12 DEF CallInv, InCall, InHand, InService
  <1>8. ~InHand(c)' /\ RowInv(c)'
    BY <1>5 DEF InHand, RowInv
  <1>9. UploadInv(c)'
    BY <1>5 DEF UploadInv, InService
  <1>10. PromiseInv(c)'
    BY <1>2, <1>4, <1>5 DEF PromiseInv
  <1>11. UNCHANGED store
    BY <1>2 DEF store
  <1> QED
    BY <1>5, <1>6, <1>7, <1>8, <1>9, <1>10, <1>11, QuietStep DEF CallerInv

LEMMA PickItemKeeps == ASSUME IInv, NEW c \in Callers, PickItem(c) PROVE IInv'
  <1>1. TypeOK /\ pc[c] = "pick" /\ CallInv(c) /\ PromiseInv(c) /\ job[c].kind = "prewarm"
    BY DEF IInv, PickItem, CallerInv, CallInv
  <1> PICK item \in todo[c] :
         /\ todo' = [todo EXCEPT ![c] = @ \ {item}]
         /\ \/ Cached(item) /\ UNCHANGED <<pc, queue, call>>
            \/ (Cached(item) => item.kind = "hls") /\ Enqueue(c, item)
            \/ Goto(c, "failed") /\ UNCHANGED <<queue, call>>
    BY DEF PickItem
  <1>2. UNCHANGED <<store, errors, cancelling>>
    BY DEF PickItem, cancellation
  <1>3. todo[c] \in SUBSET Items /\ item \in Items
    BY <1>1 DEF TypeOK
  <1>4. item.kind \in {"aac", "hls"} /\ item.track \in Tracks
        /\ item.rates \in (SUBSET Rates) \ {{}}
    BY <1>3, ItemType
  <1>5. /\ todo' \in [Callers -> SUBSET Items] /\ todo'[c] = todo[c] \ {item}
        /\ \A d \in Callers \ {c} : todo'[d] = todo[d]
    BY <1>1, <1>3 DEF TypeOK
  <1>6. item.track \in job[c].tracks
    BY <1>1 DEF CallInv
  <1>7. CASE Enqueue(c, item)
    BY <1>1, <1>2, <1>4, <1>5, <1>6, <1>7, EnqueueStep
  <1>8. CASE UNCHANGED <<queue, call>> /\ (Goto(c, "failed") \/ (UNCHANGED pc /\ Cached(item)))
    <2>1. /\ pc'[c] \in {"failed", "pick"} /\ (pc'[c] = "pick" => Cached(item))
          /\ pc' \in [Callers -> Stages] /\ \A d \in Callers \ {c} : pc'[d] = pc[d]
      BY <1>1, <1>8 DEF Goto, TypeOK, Stages
    <2>2. /\ job' = job /\ files' = files /\ master' = master /\ jobs' = jobs
          /\ outputs' = outputs /\ errors' = errors /\ cancelling' = cancelling
          /\ queue' = queue /\ call' = call
      BY <1>2, <1>8 DEF store
    <2>3. \A d \in Callers : pc'[d] \in Callables => call'[d] \in Call
      BY <1>1, <2>1, <2>2 DEF TypeOK, Callables, InService
    <2>4. TypeOK' /\ Others(c)
      BY <1>1, <1>5, <2>1, <2>2, <2>3 DEF TypeOK, Callables, Others
    <2>5. CallInv(c)'
      BY <1>1, <1>5, <2>1, <2>2 DEF CallInv, InCall, InHand, InService
    <2>6. ~InHand(c)' /\ RowInv(c)'
      BY <2>1 DEF InHand, RowInv
    <2>7. UploadInv(c)'
      BY <2>1 DEF UploadInv, InService
    <2>8. PromiseInv(c)'
      <3>1. ~InCall(c)
        BY <1>1 DEF InCall, InService
      <3> SUFFICES ASSUME pc'[c] = "pick", job[c].hls, ~errors[c], NEW t \in job[c].tracks
                   PROVE  \/ ManifestExists(t)
                          \/ \E x \in todo'[c] : x.kind = "hls" /\ x.track = t
        BY <2>1, <2>2 DEF PromiseInv, ManifestExists
      <3>2. ManifestExists(t) \/ \E x \in todo[c] : x.kind = "hls" /\ x.track = t
        BY <1>1, <3>1 DEF PromiseInv
      <3>3. item.kind = "hls" => ManifestExists(item.track)
        BY <2>1 DEF Cached
      <3> QED
        BY <1>5, <3>2, <3>3
    <2> QED
      BY <1>2, <2>4, <2>5, <2>6, <2>7, <2>8, QuietStep DEF CallerInv
  <1> QED
    BY <1>7, <1>8

LEMMA ReturnKeeps == ASSUME IInv, NEW c \in Callers, Return(c) PROVE IInv'
  <1> DEFINE stage == IF job[c].kind = "prewarm" THEN "pick"
                      ELSE IF pc[c] = "replied" THEN "served" ELSE "failed"
  <1>1. /\ TypeOK /\ pc[c] \in {"replied", "refused"} /\ CallInv(c) /\ PromiseInv(c)
        /\ job[c].kind \in {"play", "prewarm"} /\ call[c] \in Call
    BY JobType DEF IInv, Return, CallerInv, TypeOK
  <1>2. /\ pc' = [pc EXCEPT ![c] = stage]
        /\ errors' = [errors EXCEPT ![c] = @ \/ pc[c] = "refused"]
        /\ queue' = [queue EXCEPT ![job[c].gw] = Tail(@)] /\ queue[job[c].gw] # <<>>
        /\ job' = job /\ files' = files /\ master' = master /\ jobs' = jobs
        /\ outputs' = outputs /\ todo' = todo /\ cancelling' = cancelling /\ call' = call
    BY DEF Return, Goto, Holder, store, cancellation
  <1>3. /\ stage = "pick" => job[c].kind = "prewarm"
        /\ stage = "served" => job[c].kind = "play" /\ pc[c] = "replied"
        /\ stage \in {"pick", "served", "failed"} /\ (job[c].kind = "prewarm" => stage = "pick")
    BY <1>1
  <1> HIDE DEF stage
  <1>4. pc'[c] = stage /\ errors'[c] = (errors[c] \/ pc[c] = "refused") /\ Others(c)
    BY <1>1, <1>2 DEF TypeOK, Others
  <1>5. TypeOK'
    <2>1. queue' \in Queues
      <3>1. queue[job[c].gw] \in Seq(Callers) /\ job[c].gw \in Gateways
        BY <1>1, JobType DEF TypeOK
      <3>2. Tail(queue[job[c].gw]) \in Seq(Callers)
        BY <1>2, <3>1, HeadTailProperties
      <3> QED
        BY <1>1, <1>2, <3>1, <3>2 DEF TypeOK, Queues
    <2>2. pc' \in [Callers -> Stages] /\ errors' \in [Callers -> BOOLEAN]
      BY <1>1, <1>2, <1>3 DEF TypeOK, Stages
    <2>3. \A d \in Callers : pc'[d] \in Callables => call'[d] \in Call
      BY <1>1, <1>2, <1>3, <1>4 DEF TypeOK, Others, Callables, InService
    <2> QED
      BY <1>1, <1>2, <2>1, <2>2, <2>3 DEF TypeOK, Queues, Callables
  <1>6. CallInv(c)'
    BY <1>1, <1>2, <1>3, <1>4 DEF CallInv, InCall, InHand, InService
  <1>7. ~InHand(c)' /\ RowInv(c)'
    BY <1>3, <1>4 DEF InHand, RowInv
  <1>8. UploadInv(c)'
    BY <1>3, <1>4 DEF UploadInv, InService
  <1>9. PromiseInv(c)'
    <2>1. stage = "served" => \A t \in job[c].tracks : ManifestExists(t)
      <3> SUFFICES ASSUME stage = "served" PROVE \A t \in job[c].tracks : ManifestExists(t)
        OBVIOUS
      <3>1. /\ job[c].kind = "play" /\ ManifestExists(call[c].track)
            /\ call[c].track \in job[c].tracks
        BY <1>1, <1>3 DEF CallInv, PromiseInv, InCall
      <3> QED
        BY <1>1, <3>1, JobType
    <2>2. job[c].kind = "prewarm" /\ job[c].hls /\ ~errors'[c] =>
            \A t \in job[c].tracks :
              ManifestExists(t) \/ \E item \in todo[c] : item.kind = "hls" /\ item.track = t
      BY <1>1, <1>4 DEF PromiseInv
    <2> QED
      BY <1>2, <1>3, <1>4, <2>1, <2>2 DEF PromiseInv, ManifestExists
  <1>10. UNCHANGED store
    BY <1>2 DEF store
  <1> QED
    BY <1>4, <1>5, <1>6, <1>7, <1>8, <1>9, <1>10, QuietStep DEF CallerInv

\* A sequence without its k-th element is one of the same elements.
LEMMA RemoveAtType ==
    ASSUME NEW S, NEW s \in Seq(S), NEW k \in DOMAIN s
    PROVE  RemoveAt(s, k) \in Seq(S)
  <1>1. Len(s) \in Nat /\ k \in 1 .. Len(s) /\ \A i \in 1 .. Len(s) : s[i] \in S
    OBVIOUS
  <1>2. SubSeq(s, 1, k - 1) \in Seq(S) /\ SubSeq(s, k + 1, Len(s)) \in Seq(S)
    BY <1>1, SubSeqProperties
  <1> QED
    BY <1>2, ConcatProperties DEF RemoveAt

LEMMA HangUpKeeps == ASSUME IInv, NEW c \in Callers, HangUp(c) PROVE IInv'
  <1> DEFINE stage == IF pc[c] = "queued" THEN "gone" ELSE pc[c]
  <1>1. TypeOK /\ CallerInv(c) /\ job[c].gw \in Gateways
    BY JobType DEF IInv
  <1>2. PICK i \in DOMAIN queue[job[c].gw] :
           queue' = [queue EXCEPT ![job[c].gw] = RemoveAt(@, i)]
    BY DEF HangUp
  <1>3. RemoveAt(queue[job[c].gw], i) \in Seq(Callers)
    BY <1>1, RemoveAtType DEF TypeOK
  <1>4. queue' \in Queues
    BY <1>1, <1>2, <1>3 DEF TypeOK, Queues
  <1>5. Moves(c, stage)
    BY <1>4 DEF HangUp, Moves, Goto, cancellation
  <1>6. CASE pc[c] = "queued"
    BY <1>5, <1>6, LeaveStep DEF InCall
  <1>7. CASE pc[c] # "queued"
    <2>1. stage = pc[c] /\ stage \in Stages /\ (stage \in Callables => call[c] \in Call)
      BY <1>1, <1>7 DEF TypeOK, Callables
    <2> HIDE DEF stage
    <2>2. /\ pc'[c] = pc[c] /\ job' = job /\ files' = files /\ master' = master /\ jobs' = jobs
          /\ outputs' = outputs /\ todo' = todo /\ call' = call /\ errors' = errors
          /\ TypeOK' /\ Others(c)
      BY <1>1, <1>5, <2>1, MovesIs
    <2>3. Grows
      BY <2>2 DEF Grows
    <2>4. InHand(c) => jobs'[call[c].id].status \notin {"completed", "failed"}
      BY <1>1, <2>2 DEF CallerInv, RowInv, Finished
    <2>5. CallerInv(c)'
      BY <1>1, <2>2, <2>3, <2>4, CallerKept
    <2>6. UNCHANGED store /\ (InHand(c)' => InHand(c) /\ call'[c].id = call[c].id)
      BY <2>2 DEF store, InHand
    <2> QED
      BY <2>2, <2>5, <2>6, QuietStep
  <1> QED
    BY <1>6, <1>7

LEMMA DropKeeps == ASSUME IInv, NEW c \in Callers, Drop(c) PROVE IInv'
  <1>1. Moves(c, "gone") /\ InCall(c)
    BY DEF IInv, TypeOK, Drop, Moves, Queues, cancellation, InCall
  <1> QED
    BY <1>1, LeaveStep

-----------------------------------------------------------------------------
(* generate_hls and transcode_track *)

\* What is known of a caller whose handler runs.
LEMMA InServiceIs ==
    ASSUME IInv, NEW c \in Callers, pc[c] \in InService
    PROVE  /\ TypeOK /\ CallInv(c) /\ RowInv(c) /\ UploadInv(c) /\ PromiseInv(c)
           /\ call[c] \in Call /\ InCall(c)
           /\ call[c].kind \in {"aac", "hls"} /\ call[c].track \in Tracks
           /\ call[c].rates \in SUBSET Rates /\ call[c].left \in SUBSET Rates
           /\ call[c].rate \in Rates /\ call[c].files \in SUBSET Files
           /\ call[c].ok \in BOOLEAN /\ DOMAIN call = Callers
  <1>1. TypeOK /\ CallerInv(c)
    BY DEF IInv
  <1>2. call[c] \in Call /\ DOMAIN call = Callers
    BY <1>1 DEF TypeOK
  <1> QED
    BY <1>1, <1>2, CallType DEF CallerInv, InCall

LEMMA RefuseStep ==
    ASSUME IInv, NEW c \in Callers, pc[c] \in InService, Refuse(c),
           UNCHANGED <<store, service, call, cancellation>>
    PROVE  IInv'
  <1>1. Moves(c, "refused") /\ InCall(c)
    BY DEF IInv, TypeOK, Refuse, Moves, Queues, service, cancellation, InCall
  <1> QED
    BY <1>1, LeaveStep

LEMMA FetchSourceKeeps == ASSUME IInv, NEW c \in Callers, FetchSource(c) PROVE IInv'
  <1> DEFINE stage == IF call[c].kind = "hls" THEN "job" ELSE "encode"
  <1>1. pc[c] = "fetch" /\ pc[c] \in InService
    BY DEF FetchSource, InService
  <1>2. UNCHANGED <<store, service, call, cancellation>>
    BY DEF FetchSource
  <1>3. CASE Refuse(c)
    BY <1>1, <1>2, <1>3, RefuseStep
  <1>4. CASE Goto(c, stage)
    <2>1. /\ TypeOK /\ CallInv(c) /\ RowInv(c) /\ UploadInv(c) /\ PromiseInv(c)
          /\ call[c] \in Call /\ call[c].kind \in {"aac", "hls"} /\ InCall(c)
      BY <1>1, InServiceIs
    <2>2. (stage = "job" /\ call[c].kind = "hls") \/ (stage = "encode" /\ call[c].kind = "aac")
      BY <2>1
    <2>3. Moves(c, stage) /\ stage \in Stages
      BY <1>2, <1>4, <2>1 DEF Moves, Queues, TypeOK, Stages, InService, service, cancellation
    <2> HIDE DEF stage
    <2>4. /\ pc'[c] = stage /\ job' = job /\ files' = files /\ master' = master /\ jobs' = jobs
          /\ outputs' = outputs /\ todo' = todo /\ call' = call /\ errors' = errors
      BY <2>1, <2>3, MovesIs
    <2>5. CallInv(c)'
      BY <1>1, <2>1, <2>2, <2>4 DEF CallInv, InCall, InHand, InService
    <2>6. InHand(c)' => InHand(c)
      BY <1>1, <2>1, <2>2, <2>4 DEF InHand
    <2>7. RowInv(c)'
      BY <2>1, <2>4, <2>6 DEF RowInv, Finished
    <2>8. UploadInv(c)'
      BY <1>1, <2>1, <2>2, <2>4 DEF UploadInv, InService, InHand, Present, FilesOf
    <2>9. PromiseInv(c)'
      BY <1>1, <2>1, <2>2, <2>4 DEF PromiseInv, ManifestExists, InCall, InService
    <2> QED
      BY <2>1, <2>3, <2>5, <2>6, <2>7, <2>8, <2>9, MoveStep
  <1> QED
    BY <1>3, <1>4 DEF FetchSource

LEMMA EncodeKeeps == ASSUME IInv, NEW c \in Callers, Encode(c) PROVE IInv'
  <1>1. pc[c] = "encode" /\ pc[c] \in InService
    BY DEF Encode, InService
  <1>2. /\ TypeOK /\ CallInv(c) /\ RowInv(c) /\ UploadInv(c) /\ PromiseInv(c)
        /\ call[c] \in Call /\ call[c].kind \in {"aac", "hls"} /\ InCall(c)
        /\ DOMAIN call = Callers /\ InHand(c)
    BY <1>1, InServiceIs DEF InHand
  <1>3. UNCHANGED <<store, service, cancellation>>
    BY DEF Encode
  <1>4. CASE Goto(c, "fail") /\ UNCHANGED call
    <2>1. Moves(c, "fail") /\ "fail" \in Stages
      BY <1>2, <1>3, <1>4 DEF Moves, Queues, TypeOK, Stages, InService, service, cancellation
    <2>2. /\ pc'[c] = "fail" /\ job' = job /\ files' = files /\ master' = master /\ jobs' = jobs
          /\ outputs' = outputs /\ todo' = todo /\ call' = call /\ errors' = errors
      BY <1>2, <2>1, MovesIs
    <2>3. CallInv(c)'
      BY <1>2, <2>2 DEF CallInv, InCall, InHand, InService
    <2>4. RowInv(c)'
      BY <1>2, <2>2 DEF RowInv, Finished
    <2>5. UploadInv(c)'
      BY <1>1, <1>2, <2>2 DEF UploadInv, InService, InHand, Present, FilesOf
    <2>6. PromiseInv(c)'
      BY <1>1, <1>2, <2>2 DEF PromiseInv, ManifestExists, InCall, InService
    <2> QED
      BY <1>2, <2>1, <2>3, <2>4, <2>5, <2>6, MoveStep
  <1>5. ASSUME call' = [call EXCEPT ![c].files =
                          IF call[c].kind = "hls" THEN FilesOf(job[c].dur) ELSE {}],
               Goto(c, "upload")
        PROVE  IInv'
    <2> DEFINE F == IF call[c].kind = "hls" THEN FilesOf(job[c].dur) ELSE {}
    <2>1. F \in SUBSET Files /\ (call[c].kind = "hls" => F # {} /\ F = FilesOf(job[c].dur))
      BY <1>2, JobType, FilesType
    <2>2. call' = [call EXCEPT ![c].files = F]
      BY <1>5
    <2> HIDE DEF F
    <2>3. /\ DOMAIN call' = Callers /\ \A d \in Callers \ {c} : call'[d] = call[d]
          /\ call'[c] \in Call
          /\ call'[c].kind = call[c].kind /\ call'[c].track = call[c].track
          /\ call'[c].rates = call[c].rates /\ call'[c].left = call[c].left
          /\ call'[c].rate = call[c].rate /\ call'[c].id = call[c].id
          /\ call'[c].ok = call[c].ok /\ call'[c].files = F
      BY <1>2, <2>1, <2>2, NextFiles
    <2>4. /\ pc' = [pc EXCEPT ![c] = "upload"]
          /\ job' = job /\ files' = files /\ master' = master /\ jobs' = jobs
          /\ outputs' = outputs /\ todo' = todo /\ errors' = errors /\ queue' = queue
          /\ cancelling' = cancelling
      BY <1>3, <1>5 DEF Goto, store, service, cancellation
    <2>5. pc'[c] = "upload" /\ Others(c)
      BY <1>2, <2>3, <2>4 DEF TypeOK, Others
    <2>6. TypeOK'
      <3>1. /\ pc' \in [Callers -> Stages] /\ call' \in [Callers -> Call \cup {<<>>}]
            /\ \A d \in Callers : pc'[d] \in Callables => call'[d] \in Call
        <4>1. call' = [call EXCEPT ![c] = call'[c]]
          BY <1>2, <2>2
        <4> QED
          BY <1>2, <2>3, <2>4, <2>5, <4>1 DEF TypeOK, Stages, InService, Others, Callables
      <3> QED
        BY <1>2, <2>4, <3>1 DEF TypeOK, Callables
    <2>7. CallInv(c)'
      BY <1>2, <2>3, <2>4, <2>5 DEF CallInv, InCall, InService
    <2>8. RowInv(c)'
      BY <1>2, <2>3, <2>4 DEF RowInv, Finished
    <2>9. UploadInv(c)'
      BY <1>1, <1>2, <2>1, <2>3, <2>4, <2>5 DEF UploadInv, InService, InHand, Present, FilesOf
    <2>10. PromiseInv(c)'
      BY <1>1, <1>2, <2>3, <2>4, <2>5 DEF PromiseInv, ManifestExists, InCall, InService
    <2>11. UNCHANGED store
      BY <2>4 DEF store
    <2> QED
      BY <1>2, <2>3, <2>5, <2>6, <2>7, <2>8, <2>9, <2>10, <2>11, QuietStep DEF CallerInv
  <1> QED
    BY <1>4, <1>5 DEF Encode

LEMMA CreateJobKeeps == ASSUME IInv, NEW c \in Callers, CreateJob(c) PROVE IInv'
  <1>1. pc[c] = "job" /\ pc[c] \in InService
    BY DEF CreateJob, InService
  <1>2. /\ TypeOK /\ CallInv(c) /\ UploadInv(c) /\ PromiseInv(c)
        /\ call[c] \in Call /\ call[c].kind \in {"aac", "hls"} /\ InCall(c)
        /\ call[c].track \in Tracks /\ call[c].left \in SUBSET Rates
        /\ DOMAIN call = Callers /\ ~InHand(c)
    BY <1>1, InServiceIs DEF InHand
  <1>3. UNCHANGED <<job, files, master, outputs, service, cancellation>>
    BY DEF CreateJob
  <1>4. CASE Refuse(c) /\ UNCHANGED <<jobs, call>>
    BY <1>1, <1>3, <1>4, RefuseStep DEF store
  <1>5. ASSUME NEW r \in call[c].left,
               jobs' = Append(jobs, [track |-> call[c].track, rate |-> r,
                                     kind |-> call[c].kind, status |-> "pending"]),
               call' = [call EXCEPT ![c].left = @ \ {r}, ![c].rate = r, ![c].id = Len(jobs) + 1],
               Goto(c, "start")
        PROVE  IInv'
    <2> DEFINE row == [track |-> call[c].track, rate |-> r,
                       kind |-> call[c].kind, status |-> "pending"]
               n == Len(jobs) + 1
    <2>1. row \in JobRow /\ r \in Rates
      BY <1>2 DEF JobRow, Active
    <2>2. /\ row.track = call[c].track /\ row.rate = r /\ row.kind = call[c].kind
          /\ row.status = "pending"
      OBVIOUS
    <2>3. jobs' = Append(jobs, row)
      BY <1>5
    <2> HIDE DEF row
    <2>4. /\ jobs' \in Seq(JobRow) /\ DOMAIN jobs' = DOMAIN jobs \cup {n}
          /\ n \notin DOMAIN jobs /\ n \in Nat
          /\ \A k \in DOMAIN jobs : jobs'[k] = jobs[k]
          /\ jobs'[n] = row
      BY <1>2, <2>1, <2>3, RowAdded DEF TypeOK
    <2>5. call' = [call EXCEPT ![c].left = @ \ {r}, ![c].rate = r, ![c].id = n]
      BY <1>5
    <2> HIDE DEF n
    <2>6. /\ DOMAIN call' = Callers /\ \A d \in Callers \ {c} : call'[d] = call[d]
          /\ call'[c] \in Call
          /\ call'[c].kind = call[c].kind /\ call'[c].track = call[c].track
          /\ call'[c].rates = call[c].rates /\ call'[c].left = call[c].left \ {r}
          /\ call'[c].rate = r /\ call'[c].id = n
          /\ call'[c].ok = call[c].ok /\ call'[c].files = call[c].files
      <3>1. /\ DOMAIN call' = Callers /\ \A d \in Callers \ {c} : call'[d] = call[d]
            /\ call'[c] = [[[call[c] EXCEPT !.left = @ \ {r}] EXCEPT !.rate = r] EXCEPT !.id = n]
        BY <1>2, <2>5
      <3> QED
        BY <1>2, <2>1, <2>4, <3>1 DEF Call
    <2>7. /\ pc' = [pc EXCEPT ![c] = "start"]
          /\ job' = job /\ files' = files /\ master' = master
          /\ outputs' = outputs /\ todo' = todo /\ errors' = errors /\ queue' = queue
          /\ cancelling' = cancelling
      BY <1>3, <1>5 DEF Goto, service, cancellation
    <2>8. pc'[c] = "start" /\ Others(c)
      BY <1>2, <2>6, <2>7 DEF TypeOK, Others
    <2>9. TypeOK'
      <3>1. /\ pc' \in [Callers -> Stages] /\ call' \in [Callers -> Call \cup {<<>>}]
            /\ \A d \in Callers : pc'[d] \in Callables => call'[d] \in Call
        <4>1. call' = [call EXCEPT ![c] = call'[c]]
          BY <1>2, <2>5
        <4> QED
          BY <1>2, <2>6, <2>7, <2>8, <4>1 DEF TypeOK, Stages, InService, Others, Callables
      <3> QED
        BY <1>2, <2>4, <2>7, <3>1 DEF TypeOK, Callables
    <2>10. CallInv(c)'
      BY <1>2, <2>6, <2>7, <2>8 DEF CallInv, InCall, InService
    <2>11. RowInv(c)'
      BY <2>2, <2>4, <2>6 DEF RowInv, Finished
    <2>12. UploadInv(c)'
      BY <1>1, <1>2, <2>6, <2>7, <2>8 DEF UploadInv, InService, InHand, Present, FilesOf
    <2>13. PromiseInv(c)'
      BY <1>1, <1>2, <2>6, <2>7, <2>8 DEF PromiseInv, ManifestExists, InCall, InService
    <2>14. Grows
      BY <2>4, <2>7 DEF Grows
    <2>15. \A i \in DOMAIN jobs' : jobs'[i].status = "completed" =>
               i \in DOMAIN jobs /\ jobs[i].status = "completed"
      BY <2>2, <2>4
    <2> QED
      BY <2>4, <2>6, <2>7, <2>8, <2>9, <2>10, <2>11, <2>12, <2>13, <2>14, <2>15, CallerStep
      DEF CallerInv
  <1> QED
    BY <1>4, <1>5 DEF CreateJob

\* The row in hand gets a status: completed only when what it stands for is there,
\* and finished only by a handler that then has it no longer in hand.
LEMMA StatusStep ==
    ASSUME IInv, NEW c \in Callers, InHand(c), pc[c] \in InService,
           NEW v \in Active \cup {"completed", "failed"}, NEW stage \in Stages,
           SetStatus(call[c].id, v), Goto(c, stage),
           UNCHANGED <<job, files, master, outputs, service, cancelling>>,
           call' \in [Callers -> Call \cup {<<>>}], call'[c] \in Call,
           \A d \in Callers \ {c} : call'[d] = call[d],
           /\ call'[c].id = call[c].id /\ call'[c].kind = call[c].kind
           /\ call'[c].track = call[c].track /\ call'[c].rate = call[c].rate,
           v = "completed" => IF call[c].kind = "hls" THEN Present(call[c].track, call[c].rate)
                              ELSE call[c].id \in outputs,
           InHand(c)' => v \in Active,
           CallInv(c)', UploadInv(c)', PromiseInv(c)'
    PROVE  IInv'
  <1> PICK i \in Nat : i = call[c].id
    BY InServiceIs, CallType
  <1>1. TypeOK /\ RowInv(c) /\ i \in DOMAIN jobs /\ ~Finished(i)
    BY InServiceIs DEF RowInv
  <1>2. SetStatus(i, v) /\ v \in Active \cup {"completed", "failed", "cancelled"}
    OBVIOUS
  <1>3. /\ jobs' \in Seq(JobRow) /\ DOMAIN jobs' = DOMAIN jobs
        /\ \A k \in DOMAIN jobs \ {i} : jobs'[k] = jobs[k]
        /\ jobs'[i].status = v /\ jobs'[i].track = jobs[i].track
        /\ jobs'[i].rate = jobs[i].rate /\ jobs'[i].kind = jobs[i].kind
    BY <1>1, <1>2, SetStatusIs
  <1>4. /\ pc' = [pc EXCEPT ![c] = stage]
        /\ job' = job /\ files' = files /\ master' = master
        /\ outputs' = outputs /\ todo' = todo /\ errors' = errors /\ queue' = queue
        /\ cancelling' = cancelling
    BY DEF Goto, service
  <1>5. Others(c) /\ pc'[c] = stage
    BY <1>1, <1>4 DEF TypeOK, Others
  <1>6. TypeOK'
    <2>1. pc' \in [Callers -> Stages] /\ \A d \in Callers : pc'[d] \in Callables => call'[d] \in Call
      BY <1>1, <1>4, <1>5 DEF TypeOK, Others, Callables
    <2> QED
      BY <1>1, <1>3, <1>4, <2>1 DEF TypeOK, Callables
  <1>7. Grows
    BY <1>1, <1>3, <1>4 DEF Grows
  <1>8. RowInv(c)'
    BY <1>1, <1>3, <1>4 DEF RowInv, Finished, Active
  <1>9. v = "completed" => Promised(i)'
    <2>1. v = "completed" => IF jobs[i].kind = "hls" THEN Present(jobs[i].track, jobs[i].rate)
                             ELSE i \in outputs
      BY <1>1 DEF RowInv
    <2> QED
      BY <1>3, <1>4, <2>1 DEF Promised, Present, FilesOf
  <1>10. \A k \in DOMAIN jobs' : jobs'[k].status = "completed" =>
               k \in DOMAIN jobs /\ (jobs[k].status = "completed" \/ Promised(k)')
    BY <1>3, <1>9
  <1>11. InHand(c)' => InHand(c) /\ call'[c].id = call[c].id
    OBVIOUS
  <1>12. CallerInv(c)'
    BY <1>8 DEF CallerInv
  <1> QED
    BY <1>3, <1>4, <1>5, <1>6, <1>7, <1>10, <1>11, <1>12, CallerStep

LEMMA StartJobKeeps == ASSUME IInv, NEW c \in Callers, StartJob(c) PROVE IInv'
  <1> DEFINE stage == IF call[c].kind = "hls" THEN "encode" ELSE "fetch"
  <1>1. pc[c] = "start" /\ pc[c] \in InService /\ InHand(c)
    BY DEF StartJob, InService, InHand
  <1>2. /\ TypeOK /\ CallInv(c) /\ UploadInv(c) /\ PromiseInv(c)
        /\ call[c] \in Call /\ call[c].kind \in {"aac", "hls"} /\ InCall(c)
    BY <1>1, InServiceIs
  <1>3. UNCHANGED <<job, files, master, outputs, service, call, cancellation>>
    BY DEF StartJob
  <1>4. CASE Refuse(c) /\ UNCHANGED jobs
    BY <1>1, <1>3, <1>4, RefuseStep DEF store
  <1>5. CASE SetStatus(call[c].id, "processing") /\ Goto(c, stage)
    <2>1. (stage = "encode" /\ call[c].kind = "hls") \/ (stage = "fetch" /\ call[c].kind = "aac")
      BY <1>2
    <2>2. Goto(c, stage)
      BY <1>5
    <2> HIDE DEF stage
    <2>3. /\ pc'[c] = stage /\ stage \in Stages /\ call' = call /\ job' = job /\ files' = files
          /\ master' = master /\ outputs' = outputs /\ todo' = todo /\ errors' = errors
          /\ cancelling' = cancelling
      BY <1>2, <1>3, <2>1, <2>2 DEF Goto, TypeOK, Stages, InService, service, cancellation
    <2>4. CallInv(c)'
      BY <1>2, <2>1, <2>3 DEF CallInv, InCall, InService, InHand
    <2>5. UploadInv(c)'
      BY <1>1, <1>2, <2>1, <2>3 DEF UploadInv, InService, InHand, Present, FilesOf
    <2>6. PromiseInv(c)'
      BY <1>1, <1>2, <2>1, <2>3 DEF PromiseInv, ManifestExists, InCall, InService
    <2>7. call' \in [Callers -> Call \cup {<<>>}] /\ call'[c] \in Call
      BY <1>2, <2>3 DEF TypeOK
    <2> QED
      BY <1>1, <1>3, <1>5, <2>2, <2>3, <2>4, <2>5, <2>6, <2>7, StatusStep DEF Active
  <1> QED
    BY <1>4, <1>5 DEF StartJob

LEMMA CloseJobKeeps == ASSUME IInv, NEW c \in Callers, CloseJob(c) PROVE IInv'
  <1> DEFINE stage == AfterRate(c, call[c].ok)
  <1>1. pc[c] = "close" /\ pc[c] \in InService /\ InHand(c)
    BY DEF CloseJob, InService, InHand
  <1>2. /\ TypeOK /\ CallInv(c) /\ UploadInv(c) /\ PromiseInv(c)
        /\ call[c] \in Call /\ call[c].kind \in {"aac", "hls"} /\ InCall(c)
        /\ call[c].left \in SUBSET Rates /\ call[c].ok \in BOOLEAN
    BY <1>1, InServiceIs
  <1>3. UNCHANGED <<job, files, master, outputs, service, call, cancellation>>
    BY DEF CloseJob
  <1>4. CASE Refuse(c) /\ UNCHANGED jobs
    BY <1>1, <1>3, <1>4, RefuseStep DEF store
  <1>5. CASE SetStatus(call[c].id, "completed") /\ Goto(c, stage)
    <2>1. /\ stage \in {"replied", "refused", "job", "master"}
          /\ stage = "replied" => call[c].kind = "aac"
          /\ stage = "job" => call[c].left # {}
          /\ stage = "master" => call[c].kind = "hls" /\ call[c].ok /\ call[c].left = {}
      BY <1>2 DEF AfterRate
    <2>2. Goto(c, stage)
      BY <1>5
    <2> HIDE DEF stage
    <2>3. /\ pc'[c] = stage /\ stage \in Stages /\ call' = call /\ job' = job /\ files' = files
          /\ master' = master /\ outputs' = outputs /\ todo' = todo /\ errors' = errors
          /\ cancelling' = cancelling
      BY <1>2, <1>3, <2>1, <2>2 DEF Goto, TypeOK, Stages, InService, service, cancellation
    <2>4. CallInv(c)'
      BY <1>2, <2>1, <2>3 DEF CallInv, InCall, InService, InHand
    <2>5. UploadInv(c)'
      BY <1>1, <1>2, <2>1, <2>3 DEF UploadInv, InService, InHand, Present, FilesOf
    <2>6. PromiseInv(c)'
      BY <1>1, <1>2, <2>1, <2>3 DEF PromiseInv, ManifestExists, InCall, InService
    <2>7. call' \in [Callers -> Call \cup {<<>>}] /\ call'[c] \in Call
      BY <1>2, <2>3 DEF TypeOK
    <2>8. ~InHand(c)'
      BY <2>1, <2>3 DEF InHand
    <2>9. IF call[c].kind = "hls" THEN Present(call[c].track, call[c].rate)
          ELSE call[c].id \in outputs
      BY <1>1, <1>2 DEF UploadInv
    <2> QED
      BY <1>1, <1>3, <1>5, <2>2, <2>3, <2>4, <2>5, <2>6, <2>7, <2>8, <2>9, StatusStep
  <1> QED
    BY <1>4, <1>5 DEF CloseJob

LEMMA FailJobKeeps == ASSUME IInv, NEW c \in Callers, FailJob(c) PROVE IInv'
  <1> DEFINE stage == AfterRate(c, FALSE)
  <1>1. pc[c] = "fail" /\ pc[c] \in InService /\ InHand(c)
    BY DEF FailJob, InService, InHand
  <1>2. /\ TypeOK /\ CallInv(c) /\ UploadInv(c) /\ PromiseInv(c)
        /\ call[c] \in Call /\ call[c].kind \in {"aac", "hls"} /\ InCall(c)
        /\ call[c].left \in SUBSET Rates /\ DOMAIN call = Callers
    BY <1>1, InServiceIs
  <1>3. UNCHANGED <<job, files, master, outputs, service, cancellation>>
    BY DEF FailJob
  <1>4. CASE Refuse(c) /\ UNCHANGED <<jobs, call>>
    BY <1>1, <1>3, <1>4, RefuseStep DEF store
  <1>5. ASSUME SetStatus(call[c].id, "failed"), Goto(c, stage),
               call' = [call EXCEPT ![c].ok = FALSE]
        PROVE  IInv'
    <2>1. stage \in {"refused", "job"} /\ (stage = "job" => call[c].left # {})
      BY <1>2 DEF AfterRate
    <2>2. Goto(c, stage)
      BY <1>5
    <2> HIDE DEF stage
    <2>3. /\ DOMAIN call' = Callers /\ \A d \in Callers \ {c} : call'[d] = call[d]
          /\ call'[c] \in Call
          /\ call'[c].kind = call[c].kind /\ call'[c].track = call[c].track
          /\ call'[c].rates = call[c].rates /\ call'[c].left = call[c].left
          /\ call'[c].rate = call[c].rate /\ call'[c].id = call[c].id
          /\ call'[c].ok = FALSE /\ call'[c].files = call[c].files
      <3>1. /\ DOMAIN call' = Callers /\ \A d \in Callers \ {c} : call'[d] = call[d]
            /\ call'[c] = [call[c] EXCEPT !.ok = FALSE]
        BY <1>2, <1>5
      <3> QED
        BY <1>2, <3>1 DEF Call
    <2>4. /\ pc'[c] = stage /\ stage \in Stages /\ job' = job /\ files' = files
          /\ master' = master /\ outputs' = outputs /\ todo' = todo /\ errors' = errors
          /\ cancelling' = cancelling
      BY <1>2, <1>3, <2>1, <2>2 DEF Goto, TypeOK, Stages, InService, service, cancellation
    <2>5. CallInv(c)'
      BY <1>2, <2>1, <2>3, <2>4 DEF CallInv, InCall, InService, InHand
    <2>6. UploadInv(c)'
      BY <2>1, <2>3, <2>4 DEF UploadInv, InService
    <2>7. PromiseInv(c)'
      BY <1>1, <1>2, <2>1, <2>3, <2>4 DEF PromiseInv, ManifestExists, InCall, InService
    <2>8. ~InHand(c)'
      BY <2>1, <2>4 DEF InHand
    <2>9. call' \in [Callers -> Call \cup {<<>>}]
      <3>1. call' = [call EXCEPT ![c] = call'[c]]
        BY <1>2, <1>5
      <3> QED
        BY <1>2, <2>3, <3>1 DEF TypeOK
    <2> QED
      BY <1>1, <1>3, <1>5, <2>2, <2>3, <2>4, <2>5, <2>6, <2>7, <2>8, <2>9, StatusStep
  <1> QED
    BY <1>4, <1>5 DEF FailJob

LEMMA UploadFileKeeps == ASSUME IInv, NEW c \in Callers, UploadFile(c) PROVE IInv'
  <1>1. pc[c] = "upload" /\ pc[c] \in InService /\ InHand(c) /\ call[c].kind = "hls"
    BY DEF UploadFile, InService, InHand
  <1>2. /\ TypeOK /\ CallInv(c) /\ RowInv(c) /\ UploadInv(c) /\ PromiseInv(c)
        /\ call[c] \in Call /\ InCall(c) /\ call[c].files \in SUBSET Files /\ DOMAIN call = Callers
        /\ call[c].track \in Tracks /\ call[c].rate \in Rates
    BY <1>1, InServiceIs
  <1>3. UNCHANGED <<job, master, jobs, outputs, service, cancellation>>
    BY DEF UploadFile
  <1>4. CASE Goto(c, "fail") /\ UNCHANGED <<files, call>>
    <2>1. Moves(c, "fail") /\ "fail" \in Stages
      BY <1>2, <1>3, <1>4 DEF Moves, Queues, TypeOK, Stages, InService, store, service, cancellation
    <2>2. /\ pc'[c] = "fail" /\ job' = job /\ files' = files /\ master' = master /\ jobs' = jobs
          /\ outputs' = outputs /\ todo' = todo /\ call' = call /\ errors' = errors
      BY <1>2, <2>1, MovesIs
    <2>3. CallInv(c)'
      BY <1>2, <2>2 DEF CallInv, InCall, InHand, InService
    <2>4. RowInv(c)'
      BY <1>1, <1>2, <2>2 DEF RowInv, Finished
    <2>5. UploadInv(c)'
      BY <1>1, <1>2, <2>2 DEF UploadInv, InService, InHand, Present, FilesOf
    <2>6. PromiseInv(c)'
      BY <1>1, <1>2, <2>2 DEF PromiseInv, ManifestExists, InCall, InService
    <2> QED
      BY <1>1, <1>2, <2>1, <2>3, <2>4, <2>5, <2>6, MoveStep
  <1>5. ASSUME NEW f \in call[c].files,
               files' = [files EXCEPT ![call[c].track][call[c].rate][f] = job[c].dur],
               call' = [call EXCEPT ![c].files = @ \ {f}],
               Goto(c, IF call[c].files = {f} THEN "close" ELSE "upload")
        PROVE  IInv'
    <2> PICK t \in Tracks, r \in Rates, d \in Durations :
             t = call[c].track /\ r = call[c].rate /\ d = job[c].dur
      BY <1>2, JobType
    <2> DEFINE stage == IF call[c].files = {f} THEN "close" ELSE "upload"
               F == call[c].files \ {f}
    <2>1. /\ (stage = "close" /\ call[c].files = {f}) \/ (stage = "upload" /\ call[c].files # {f})
          /\ stage \in Stages
      BY DEF Stages, InService
    <2>2. pc' = [pc EXCEPT ![c] = stage]
      BY <1>5 DEF Goto
    <2>3. call' = [call EXCEPT ![c].files = F] /\ F \in SUBSET Files /\ f \in Files
      BY <1>2, <1>5
    <2> HIDE DEF stage
    <2>4. /\ DOMAIN call' = Callers /\ \A e \in Callers \ {c} : call'[e] = call[e]
          /\ call'[c] \in Call
          /\ call'[c].kind = call[c].kind /\ call'[c].track = call[c].track
          /\ call'[c].rates = call[c].rates /\ call'[c].left = call[c].left
          /\ call'[c].rate = call[c].rate /\ call'[c].id = call[c].id
          /\ call'[c].ok = call[c].ok /\ call'[c].files = F
      <3> HIDE DEF F
      <3> QED
        BY <1>2, <2>3, NextFiles
    <2>5. files' \in [Tracks -> [Rates -> [Files -> Durations \cup {Absent, Torn}]]]
      BY <1>2, <1>5, <2>3 DEF TypeOK
    <2>6. /\ files'[t][r][f] = d
          /\ \A u \in Tracks, q \in Rates, x \in Files :
               u # t \/ q # r \/ x # f => files'[u][q][x] = files[u][q][x]
      BY <1>2, <1>5, <2>3 DEF TypeOK
    <2>7. d # Absent /\ FilesOf(d) \subseteq Files
      BY FilesType
    <2>8. /\ job' = job /\ master' = master /\ jobs' = jobs /\ outputs' = outputs
          /\ todo' = todo /\ errors' = errors /\ queue' = queue /\ cancelling' = cancelling
      BY <1>3 DEF service, cancellation
    <2>9. pc'[c] = stage /\ Others(c)
      BY <1>2, <2>2, <2>4, <2>8 DEF TypeOK, Others
    <2>10. TypeOK'
      <3>1. /\ pc' \in [Callers -> Stages] /\ call' \in [Callers -> Call \cup {<<>>}]
            /\ \A e \in Callers : pc'[e] \in Callables => call'[e] \in Call
        <4>1. call' = [call EXCEPT ![c] = call'[c]]
          BY <1>2, <2>3
        <4> QED
          BY <1>2, <2>1, <2>2, <2>4, <2>9, <4>1 DEF TypeOK, Others, Callables
      <3> QED
        BY <1>2, <2>5, <2>8, <3>1 DEF TypeOK, Callables
    <2>11. Grows
      BY <2>6, <2>7, <2>8 DEF Grows
    <2>12. CallInv(c)'
      BY <1>2, <2>1, <2>4, <2>8, <2>9 DEF CallInv, InCall, InService
    <2>13. RowInv(c)'
      BY <1>1, <1>2, <2>4, <2>8 DEF RowInv, Finished
    <2>14. \A x \in FilesOf(d) \ F : files'[t][r][x] # Absent
      BY <1>1, <1>2, <2>6, <2>7 DEF UploadInv
    <2>15. stage = "close" => Present(t, r)'
      BY <2>1, <2>14 DEF Present, FilesOf
    <2>16. \A q \in Rates : Present(t, q) => Present(t, q)'
      BY <1>2, <2>11, StaysPresent
    <2>17. UploadInv(c)'
      <3>1. stage = "upload" => F # {} /\ F \subseteq FilesOf(d)
        BY <1>1, <1>2, <2>1 DEF UploadInv
      <3>2. call[c].ok => \A q \in call[c].rates \ call[c].left : Present(t, q)' \/ q = r
        BY <1>1, <1>2, <2>16, CallType DEF UploadInv
      <3>3. InHand(c)'
        BY <2>1, <2>9 DEF InHand
      <3> HIDE DEF F
      <3> QED
        BY <1>1, <2>1, <2>4, <2>8, <2>9, <2>14, <2>15, <3>1, <3>2, <3>3, SMTT(30)
        DEF UploadInv, Present, FilesOf
    <2>18. PromiseInv(c)'
      BY <1>1, <1>2, <2>1, <2>4, <2>8, <2>9 DEF PromiseInv, ManifestExists, InCall, InService
    <2> QED
      BY <1>1, <2>4, <2>8, <2>9, <2>10, <2>11, <2>12, <2>13, <2>17, <2>18, CallerStep DEF CallerInv
  <1>6. ASSUME NEW f \in call[c].files, call' = call, Goto(c, "fail"),
               files' = [files EXCEPT ![call[c].track][call[c].rate][f] = Torn]
        PROVE  IInv'
    <2> PICK t \in Tracks, r \in Rates : t = call[c].track /\ r = call[c].rate
      BY <1>2
    <2>1. f \in Files /\ Torn # Absent
      BY <1>2, TranscodingAssumption
    <2>2. files' \in [Tracks -> [Rates -> [Files -> Durations \cup {Absent, Torn}]]]
      BY <1>2, <1>6, <2>1 DEF TypeOK
    <2>3. \A v \in Tracks, q \in Rates, x \in Files : files'[v][q][x] \in {files[v][q][x], Torn}
      BY <1>2, <1>6, <2>1 DEF TypeOK
    <2>4. /\ job' = job /\ master' = master /\ jobs' = jobs /\ outputs' = outputs
          /\ todo' = todo /\ errors' = errors /\ queue' = queue /\ cancelling' = cancelling
      BY <1>3 DEF service, cancellation
    <2>5. /\ pc' \in [Callers -> Stages] /\ pc'[c] = "fail"
          /\ \A e \in Callers \ {c} : pc'[e] = pc[e]
      BY <1>2, <1>6 DEF Goto, TypeOK, Stages, InService
    <2>6. \A e \in Callers : pc'[e] \in Callables => call'[e] \in Call
      BY <1>2, <1>6, <2>5 DEF TypeOK, Callables
    <2>7. TypeOK' /\ Others(c)
      BY <1>2, <1>6, <2>2, <2>4, <2>5, <2>6 DEF TypeOK, Callables, Others
    <2>8. Grows
      BY <2>1, <2>3, <2>4 DEF Grows
    <2>9. CallInv(c)'
      BY <1>2, <1>6, <2>4, <2>5 DEF CallInv, InCall, InHand, InService
    <2>10. RowInv(c)'
      BY <1>1, <1>2, <1>6, <2>4 DEF RowInv, Finished
    <2>11. UploadInv(c)'
      <3>1. \A q \in Rates : Present(t, q) => Present(t, q)'
        BY <1>2, <2>8, StaysPresent
      <3>2. call[c].ok => \A q \in call[c].rates \ call[c].left : Present(t, q)' \/ q = r
        BY <1>1, <1>2, <3>1, CallType DEF UploadInv
      <3>3. InHand(c)'
        BY <2>5 DEF InHand
      <3> QED
        BY <1>6, <2>4, <2>5, <3>2, <3>3 DEF UploadInv, Present, FilesOf
    <2>12. PromiseInv(c)'
      BY <1>1, <1>2, <1>6, <2>4, <2>5 DEF PromiseInv, ManifestExists, InCall, InService
    <2> QED
      BY <1>1, <1>6, <2>4, <2>7, <2>8, <2>9, <2>10, <2>11, <2>12, CallerStep DEF CallerInv
  <1> QED
    BY <1>4, <1>5, <1>6 DEF UploadFile

LEMMA StoreOutputKeeps == ASSUME IInv, NEW c \in Callers, StoreOutput(c) PROVE IInv'
  <1>1. pc[c] = "upload" /\ pc[c] \in InService /\ InHand(c) /\ call[c].kind = "aac"
    BY DEF StoreOutput, InService, InHand
  <1>2. /\ TypeOK /\ CallInv(c) /\ RowInv(c) /\ PromiseInv(c)
        /\ call[c] \in Call /\ InCall(c) /\ call[c].id \in DOMAIN jobs
    BY <1>1, InServiceIs DEF RowInv
  <1>3. UNCHANGED <<job, files, master, jobs, service, call, cancellation>>
    BY DEF StoreOutput
  <1>4. CASE Refuse(c) /\ UNCHANGED outputs
    BY <1>1, <1>3, <1>4, RefuseStep DEF store
  <1>5. ASSUME NEW stage \in {"close", "refused"}, Goto(c, stage),
               outputs' = outputs \cup {call[c].id}
        PROVE  IInv'
    <2>1. /\ job' = job /\ files' = files /\ master' = master /\ jobs' = jobs
          /\ call' = call /\ todo' = todo /\ errors' = errors /\ queue' = queue
          /\ cancelling' = cancelling
      BY <1>3 DEF service, cancellation
    <2>2. /\ pc' \in [Callers -> Stages] /\ pc'[c] = stage
          /\ \A d \in Callers \ {c} : pc'[d] = pc[d]
      BY <1>2, <1>5 DEF Goto, TypeOK, Stages, InService
    <2>3. \A d \in Callers : pc'[d] \in Callables => call'[d] \in Call
      BY <1>2, <2>1, <2>2 DEF TypeOK, Callables
    <2>4. TypeOK' /\ Others(c)
      BY <1>2, <1>5, <2>1, <2>2, <2>3 DEF TypeOK, Callables, Others
    <2>5. Grows
      BY <1>5, <2>1 DEF Grows
    <2>6. CallInv(c)'
      BY <1>2, <2>1, <2>2 DEF CallInv, InCall, InHand, InService
    <2>7. RowInv(c)'
      BY <1>1, <1>2, <2>1 DEF RowInv, Finished
    <2>8. UploadInv(c)'
      BY <1>1, <1>5, <2>1, <2>2 DEF UploadInv
    <2>9. PromiseInv(c)'
      BY <1>1, <1>2, <2>1, <2>2 DEF PromiseInv, ManifestExists, InCall, InService
    <2> QED
      BY <1>1, <2>1, <2>4, <2>5, <2>6, <2>7, <2>8, <2>9, CallerStep DEF CallerInv
  <1> QED
    BY <1>4, <1>5 DEF StoreOutput, Refuse

\* A write of the master playlist: it lists what is there, or nothing yet, or nothing
\* that can be read.
LEMMA MasterStep ==
    ASSUME IInv, NEW c \in Callers, pc[c] \in {"master", "mastering"},
           NEW x \in {Open, Torn, call[c].rates},
           master' = [master EXCEPT ![call[c].track] = x],
           NEW stage \in {"mastering", "replied", "refused"}, Goto(c, stage),
           UNCHANGED <<job, files, jobs, outputs, service, call, cancellation>>
    PROVE  IInv'
  <1>1. pc[c] \in InService /\ ~InHand(c)
    BY DEF InService, InHand
  <1>2. /\ TypeOK /\ CallInv(c) /\ UploadInv(c) /\ PromiseInv(c)
        /\ call[c] \in Call /\ InCall(c) /\ call[c].rates \in SUBSET Rates /\ call[c].track \in Tracks
    BY <1>1, InServiceIs
  <1> PICK t \in Tracks : t = call[c].track
    BY <1>2
  <1>3. x # Absent /\ x \in {Absent, Torn, Open} \cup SUBSET Rates
    BY <1>2, TranscodingAssumption
  <1>4. /\ job' = job /\ files' = files /\ jobs' = jobs /\ outputs' = outputs
        /\ call' = call /\ todo' = todo /\ errors' = errors /\ queue' = queue
        /\ cancelling' = cancelling
    BY DEF service, cancellation
  <1>5. /\ pc' \in [Callers -> Stages] /\ pc'[c] = stage
        /\ \A d \in Callers \ {c} : pc'[d] = pc[d]
    BY <1>2 DEF Goto, TypeOK, Stages, InService
  <1>6. /\ master' \in [Tracks -> {Absent, Torn, Open} \cup SUBSET Rates] /\ master'[t] = x
        /\ \A u \in Tracks \ {t} : master'[u] = master[u]
    BY <1>2, <1>3 DEF TypeOK
  <1>7. \A d \in Callers : pc'[d] \in Callables => call'[d] \in Call
    BY <1>2, <1>4, <1>5 DEF TypeOK, Callables
  <1>8. TypeOK' /\ Others(c)
    BY <1>2, <1>4, <1>5, <1>6, <1>7 DEF TypeOK, Callables, Others
  <1>9. Grows
    BY <1>3, <1>4, <1>6 DEF Grows, ManifestExists
  <1>10. CallInv(c)'
    BY <1>2, <1>4, <1>5 DEF CallInv, InCall, InHand, InService
  <1>11. ~InHand(c)' /\ RowInv(c)'
    BY <1>5 DEF InHand, RowInv
  <1>12. UploadInv(c)'
    BY <1>1, <1>2, <1>4, <1>5 DEF UploadInv, InService, InHand, Present, FilesOf
  <1>13. PromiseInv(c)'
    <2>1. /\ \A u \in Tracks : ManifestExists(u) => ManifestExists(u)'
          /\ ManifestExists(t)' /\ call[c].kind = "hls" /\ job[c].tracks \in SUBSET Tracks
      BY <1>2, <1>3, <1>6, JobType DEF ManifestExists, UploadInv
    <2> QED
      BY <1>2, <1>4, <1>5, <2>1 DEF PromiseInv, InCall, InService
  <1>14. \A r \in Listed(t)' : Present(t, r)'
    <2>1. \A r \in call[c].rates : Present(t, r)
      BY <1>1, <1>2 DEF UploadInv
    <2>2. Listed(t)' \subseteq call[c].rates
      BY <1>6 DEF Listed
    <2> QED
      BY <1>4, <2>1, <2>2 DEF Present, FilesOf
  <1> QED
    BY <1>4, <1>6, <1>8, <1>9, <1>10, <1>11, <1>12, <1>13, <1>14, CallerStep DEF CallerInv

LEMMA OpenMasterKeeps == ASSUME IInv, NEW c \in Callers, OpenMaster(c) PROVE IInv'
  <1>1. /\ pc[c] = "master" /\ pc[c] \in InService
        /\ UNCHANGED <<job, files, jobs, outputs, service, call, cancellation>>
    BY DEF OpenMaster, InService
  <1>2. CASE Refuse(c) /\ UNCHANGED master
    BY <1>1, <1>2, RefuseStep DEF store
  <1>3. CASE master' = [master EXCEPT ![call[c].track] = Open] /\ Goto(c, "mastering")
    BY <1>1, <1>3, MasterStep
  <1> QED
    BY <1>2, <1>3 DEF OpenMaster

LEMMA FillMasterKeeps == ASSUME IInv, NEW c \in Callers, FillMaster(c) PROVE IInv'
  <1>1. /\ pc[c] = "mastering"
        /\ UNCHANGED <<job, files, jobs, outputs, service, call, cancellation>>
    BY DEF FillMaster
  <1>2. PICK x \in {Torn, call[c].rates}, stage \in {"replied", "refused"} :
           master' = [master EXCEPT ![call[c].track] = x] /\ Goto(c, stage)
    BY DEF FillMaster, Refuse
  <1> QED
    BY <1>1, <1>2, MasterStep

-----------------------------------------------------------------------------
(* cancel_job and restarts *)

\* What cancel_job changes is only a status, and never to a finished one.
LEMMA CancelKeeps ==
    ASSUME IInv, NEW i \in DOMAIN jobs, CancelReads(i) \/ CancelWrites(i)
    PROVE  IInv'
  <1>1. TypeOK
    BY DEF IInv
  <1>2. /\ job' = job /\ files' = files /\ master' = master /\ outputs' = outputs
        /\ queue' = queue /\ pc' = pc /\ todo' = todo /\ call' = call /\ errors' = errors
    BY DEF CancelReads, CancelWrites, store, caller
  <1>3. jobs' = jobs \/ SetStatus(i, "cancelled")
    BY DEF CancelReads, CancelWrites, store
  <1>4. /\ jobs' \in Seq(JobRow) /\ DOMAIN jobs' = DOMAIN jobs
        /\ \A k \in DOMAIN jobs :
             /\ jobs'[k].track = jobs[k].track /\ jobs'[k].rate = jobs[k].rate
             /\ jobs'[k].kind = jobs[k].kind
             /\ jobs'[k].status = jobs[k].status \/ jobs'[k].status = "cancelled"
    <2>1. CASE SetStatus(i, "cancelled")
      <3>1. /\ jobs' \in Seq(JobRow) /\ DOMAIN jobs' = DOMAIN jobs
            /\ \A k \in DOMAIN jobs \ {i} : jobs'[k] = jobs[k]
            /\ jobs'[i].status = "cancelled" /\ jobs'[i].track = jobs[i].track
            /\ jobs'[i].rate = jobs[i].rate /\ jobs'[i].kind = jobs[i].kind
        BY <1>1, <2>1, SetStatusIs
      <3> QED
        BY <3>1
    <2>2. CASE jobs' = jobs
      BY <1>1, <2>2 DEF TypeOK
    <2> QED
      BY <1>3, <2>1, <2>2
  <1>5. TypeOK'
    <2>1. cancelling' \subseteq DOMAIN jobs'
      BY <1>1, <1>4 DEF TypeOK, CancelReads, CancelWrites
    <2> QED
      BY <1>1, <1>2, <1>4, <2>1 DEF TypeOK
  <1>6. Grows
    BY <1>2, <1>4 DEF Grows
  <1>7. \A d \in Callers : CallerInv(d)'
    <2> TAKE d \in Callers
    <2>1. CallerInv(d) /\ RowInv(d)
      BY DEF IInv, CallerInv
    <2>2. InHand(d) => jobs'[call[d].id].status \notin {"completed", "failed"}
      BY <1>4, <2>1 DEF RowInv, Finished
    <2>3. /\ pc'[d] = pc[d] /\ todo'[d] = todo[d] /\ call'[d] = call[d]
          /\ errors'[d] = errors[d]
      BY <1>2
    <2> QED
      BY <1>1, <1>6, <2>1, <2>2, <2>3, CallerKept
  <1>8. \A c, d \in Callers : InHand(c)' /\ InHand(d)' /\ call'[c].id = call'[d].id => c = d
    BY <1>2 DEF IInv, InHand
  <1>9. ListedVariantsPresent'
    BY <1>2 DEF IInv, ListedVariantsPresent, Listed, Present, FilesOf
  <1>10. CompletedJobsHaveOutput'
    <2> SUFFICES ASSUME NEW k \in DOMAIN jobs', jobs'[k].status = "completed" PROVE Promised(k)'
      BY DEF CompletedJobsHaveOutput, Promised
    <2>1. k \in DOMAIN jobs /\ jobs[k].status = "completed"
      BY <1>4
    <2>2. IF jobs[k].kind = "hls" THEN Present(jobs[k].track, jobs[k].rate) ELSE k \in outputs
      BY <2>1 DEF IInv, CompletedJobsHaveOutput
    <2> QED
      BY <1>2, <1>4, <2>1, <2>2 DEF Promised, Present, FilesOf
  <1> QED
    BY <1>5, <1>7, <1>8, <1>9, <1>10 DEF IInv

\* A restart drops the handlers, and what it cuts short is not missing.
LEMMA RestartKeeps == ASSUME IInv, Restart PROVE IInv'
  <1> DEFINE lost == {c \in Callers : pc[c] \in InService}
  <1>1. TypeOK
    BY DEF IInv
  <1>2. /\ job' = job /\ outputs' = outputs /\ jobs' = jobs
        /\ queue' = queue /\ todo' = todo /\ call' = call /\ errors' = errors
        /\ cancelling' = {}
        /\ pc' = [c \in Callers |-> IF c \in lost THEN "refused" ELSE pc[c]]
    BY DEF Restart, service
  <1>3. /\ files' \in [Tracks -> [Rates -> [Files -> Durations \cup {Absent, Torn}]]]
        /\ \A t \in Tracks, r \in Rates, x \in Files : files'[t][r][x] \in {Torn, files[t][r][x]}
    <2>1. PICK C \in SUBSET {c \in lost : pc[c] = "upload" /\ call[c].kind = "hls"}, f \in Files :
             files' = [t \in Tracks |-> [r \in Rates |-> [x \in Files |->
                IF \E c \in C : t = call[c].track /\ r = call[c].rate /\ x = f /\ f \in call[c].files
                THEN Torn ELSE files[t][r][x]]]]
      BY DEF Restart
    <2> DEFINE hit(t, r, x) == \E c \in C : /\ t = call[c].track /\ r = call[c].rate
                                            /\ x = f /\ f \in call[c].files
    <2>2. files' = [t \in Tracks |-> [r \in Rates |-> [x \in Files |->
                      IF hit(t, r, x) THEN Torn ELSE files[t][r][x]]]]
      BY <2>1
    <2> HIDE DEF hit
    <2> QED
      BY <1>1, <2>2 DEF TypeOK
  <1>10. /\ master' \in [Tracks -> {Absent, Torn, Open} \cup SUBSET Rates]
         /\ \A t \in Tracks : master'[t] \in {Torn, master[t]}
    <2>1. PICK T : master' = [t \in Tracks |-> IF t \in T \/ master[t] = Open
                                               THEN Torn ELSE master[t]]
      BY DEF Restart
    <2> QED
      BY <1>1, <2>1 DEF TypeOK
  <1>4. TypeOK'
    <2>1. \A d \in Callers : pc'[d] \in Callables => call'[d] \in Call
      BY <1>1, <1>2 DEF TypeOK, Callables
    <2>2. pc' \in [Callers -> Stages]
      BY <1>1, <1>2 DEF TypeOK, Stages
    <2> QED
      BY <1>1, <1>2, <1>3, <1>10, <2>1, <2>2 DEF TypeOK, Callables
  <1>5. Grows
    BY <1>2, <1>3, <1>10, TranscodingAssumption DEF Grows, ManifestExists
  <1>6. \A d \in Callers : CallerInv(d)'
    <2> TAKE d \in Callers
    <2>1. CallerInv(d)
      BY DEF IInv
    <2>2. CASE d \notin lost
      <3>1. /\ pc'[d] = pc[d] /\ todo'[d] = todo[d] /\ call'[d] = call[d]
            /\ errors'[d] = errors[d]
        BY <1>2, <2>2
      <3>2. InHand(d) => jobs'[call[d].id].status \notin {"completed", "failed"}
        BY <1>2, <2>1 DEF CallerInv, RowInv, Finished
      <3> QED
        BY <1>1, <1>5, <2>1, <3>1, <3>2, CallerKept
    <2>3. CASE d \in lost
      <3>1. pc'[d] = "refused" /\ InCall(d) /\ InCall(d)'
        BY <1>2, <2>3 DEF InCall
      <3>2. pc[d] \in InService
        BY <2>3
      <3> HIDE DEF lost
      <3>3. CallInv(d)'
        BY <1>2, <2>1, <3>1 DEF CallerInv, CallInv
      <3>4. RowInv(d)' /\ UploadInv(d)'
        BY <3>1 DEF RowInv, InHand, UploadInv, InService
      <3>5. PromiseInv(d)'
        <4>1. /\ \A t \in Tracks : ManifestExists(t) => ManifestExists(t)'
              /\ job[d].tracks \in SUBSET Tracks
          BY <1>1, <1>5, JobType DEF Grows, ManifestExists
        <4> QED
          BY <1>2, <2>1, <3>1, <3>2, <4>1 DEF CallerInv, PromiseInv, InService
      <3> QED
        BY <3>3, <3>4, <3>5 DEF CallerInv
    <2> QED
      BY <2>2, <2>3
  <1>7. \A c, d \in Callers : InHand(c)' /\ InHand(d)' /\ call'[c].id = call'[d].id => c = d
    <2>1. \A c \in Callers : InHand(c)' => InHand(c)
      BY <1>2 DEF InHand
    <2> QED
      BY <1>2, <2>1 DEF IInv
  <1>8. ListedVariantsPresent'
    <2> SUFFICES ASSUME NEW t \in Tracks, NEW r \in Listed(t)' PROVE Present(t, r)'
      BY DEF ListedVariantsPresent
    <2>2. r \in Listed(t)
      BY <1>10 DEF Listed
    <2>1. r \in Rates /\ Present(t, r)
      BY <1>1, <2>2, ListedType DEF IInv, ListedVariantsPresent
    <2> QED
      BY <1>1, <1>5, <2>1, StaysPresent
  <1>9. CompletedJobsHaveOutput'
    <2> SUFFICES ASSUME NEW i \in DOMAIN jobs, jobs[i].status = "completed" PROVE Promised(i)'
      BY <1>2 DEF CompletedJobsHaveOutput, Promised
    <2>1. IF jobs[i].kind = "hls" THEN Present(jobs[i].track, jobs[i].rate) ELSE i \in outputs
      BY DEF IInv, CompletedJobsHaveOutput
    <2>3. jobs[i] \in JobRow
      BY <1>1 DEF TypeOK
    <2> PICK t \in Tracks, r \in Rates : t = jobs[i].track /\ r = jobs[i].rate
      BY <2>3 DEF JobRow
    <2>2. jobs[i].kind = "hls" => Present(t, r)'
      BY <1>1, <1>5, <2>1, StaysPresent
    <2> QED
      BY <1>2, <2>1, <2>2 DEF Promised, Present, FilesOf
  <1> QED
    BY <1>4, <1>6, <1>7, <1>8, <1>9 DEF IInv

-----------------------------------------------------------------------------
(* Theorems *)

LEMMA InitIInv == Init => IInv
  <1> SUFFICES ASSUME Init PROVE IInv
    OBVIOUS
  <1>1. TypeOK
    <2>1. jobs \in Seq(JobRow) /\ DOMAIN jobs = {}
      BY DEF Init
    <2> QED
      BY <2>1 DEF Init, TypeOK, Stages, InService
  <1>2. \A c \in Callers : CallerInv(c)
    BY DEF Init, CallerInv, CallInv, RowInv, UploadInv, PromiseInv, InCall, InHand, InService
  <1>3. \A c \in Callers : ~InHand(c)
    BY DEF Init, InHand
  <1>4. ListedVariantsPresent /\ CompletedJobsHaveOutput
    BY DEF Init, ListedVariantsPresent, Listed, CompletedJobsHaveOutput
  <1> QED
    BY <1>1, <1>2, <1>3, <1>4 DEF IInv

LEMMA NextIInv == IInv /\ [Next]_vars => IInv'
  <1> SUFFICES ASSUME IInv, [Next]_vars PROVE IInv'
    OBVIOUS
  <1>1. ASSUME NEW c \in Callers, Progress(c) PROVE IInv'
    <2>1. CASE CheckManifest(c)
      BY <2>1, CheckManifestKeeps
    <2>2. CASE LookUpTrack(c)
      BY <2>2, LookUpTrackKeeps
    <2>3. CASE StartPrewarm(c)
      BY <2>3, StartPrewarmKeeps
    <2>4. CASE PickItem(c)
      BY <2>4, PickItemKeeps
    <2>5. CASE FinishPrewarm(c)
      BY <2>5, FinishPrewarmKeeps
    <2>6. CASE Send(c)
      BY <2>6, SendKeeps
    <2>7. CASE Return(c)
      BY <2>7, ReturnKeeps
    <2>8. CASE Drop(c)
      BY <2>8, DropKeeps
    <2>9. CASE FetchSource(c)
      BY <2>9, FetchSourceKeeps
    <2>10. CASE CreateJob(c)
      BY <2>10, CreateJobKeeps
    <2>11. CASE StartJob(c)
      BY <2>11, StartJobKeeps
    <2>12. CASE Encode(c)
      BY <2>12, EncodeKeeps
    <2>13. CASE UploadFile(c)
      BY <2>13, UploadFileKeeps
    <2>14. CASE StoreOutput(c)
      BY <2>14, StoreOutputKeeps
    <2>15. CASE CloseJob(c)
      BY <2>15, CloseJobKeeps
    <2>16. CASE FailJob(c)
      BY <2>16, FailJobKeeps
    <2>17. CASE OpenMaster(c)
      BY <2>17, OpenMasterKeeps
    <2>18. CASE FillMaster(c)
      BY <2>18, FillMasterKeeps
    <2> QED
      BY <1>1, <2>1, <2>2, <2>3, <2>4, <2>5, <2>6, <2>7, <2>8, <2>9, <2>10, <2>11, <2>12,
         <2>13, <2>14, <2>15, <2>16, <2>17, <2>18 DEF Progress
  <1>2. ASSUME NEW c \in Callers, HangUp(c) PROVE IInv'
    BY <1>2, HangUpKeeps
  <1>3. ASSUME NEW i \in DOMAIN jobs, CancelReads(i) \/ CancelWrites(i) PROVE IInv'
    BY <1>3, CancelKeeps
  <1>4. CASE Restart
    BY <1>4, RestartKeeps
  <1>5. CASE UNCHANGED vars
    <2>1. /\ job' = job /\ files' = files /\ master' = master /\ outputs' = outputs
          /\ jobs' = jobs /\ queue' = queue /\ pc' = pc /\ todo' = todo /\ call' = call
          /\ errors' = errors /\ cancelling' = cancelling
      BY <1>5 DEF vars
    <2>2. TypeOK /\ TypeOK'
      BY <2>1 DEF IInv, TypeOK
    <2>3. Grows
      BY <2>1 DEF Grows
    <2>4. ASSUME NEW d \in Callers PROVE CallerInv(d)'
      <3>1. CallerInv(d) /\ (InHand(d) => jobs'[call[d].id].status \notin {"completed", "failed"})
        BY <2>1 DEF IInv, CallerInv, RowInv, Finished
      <3> QED
        BY <2>1, <2>2, <2>3, <3>1, CallerKept
    <2>5. \A c, d \in Callers : InHand(c)' /\ InHand(d)' /\ call'[c].id = call'[d].id => c = d
      BY <2>1 DEF IInv, InHand
    <2>6. ListedVariantsPresent' /\ CompletedJobsHaveOutput'
      BY <2>1 DEF IInv, ListedVariantsPresent, CompletedJobsHaveOutput, Listed, Present, FilesOf
    <2> QED
      BY <2>2, <2>4, <2>5, <2>6 DEF IInv
  <1> QED
    BY <1>1, <1>2, <1>3, <1>4, <1>5 DEF Next

\* No step but of its own writer writes a master playlist, and a caller that writes
\* one writes on, whatever any other step does.
LEMMA NotWriting ==
    ASSUME TypeOK, NEW c \in Callers, Progress(c), ~OpenMaster(c), ~FillMaster(c)
    PROVE  /\ master' = master
           /\ \A d \in Callers : pc[d] = "mastering" => pc'[d] = "mastering" /\ call'[d] = call[d]
  <1>1. pc \in [Callers -> Stages] /\ DOMAIN call = Callers
    BY DEF TypeOK
  <1> DEFINE WritesOn == \A d \in Callers : pc[d] = "mastering" =>
                             pc'[d] = "mastering" /\ call'[d] = call[d]
  <1>2. CASE CheckManifest(c)
    <2>1. master' = master
      BY <1>2 DEF CheckManifest, store
    <2>2. WritesOn
      BY <1>1, <1>2 DEF CheckManifest, Goto
    <2> QED
      BY <2>1, <2>2
  <1>3. CASE LookUpTrack(c)
    <2>1. master' = master
      BY <1>3 DEF LookUpTrack, store
    <2>2. WritesOn
      BY <1>1, <1>3 DEF LookUpTrack, Enqueue, Goto
    <2> QED
      BY <2>1, <2>2
  <1>4. CASE StartPrewarm(c)
    <2>1. master' = master
      BY <1>4 DEF StartPrewarm, store
    <2>2. WritesOn
      BY <1>1, <1>4 DEF StartPrewarm, Goto
    <2> QED
      BY <2>1, <2>2
  <1>5. CASE PickItem(c)
    <2>1. master' = master
      BY <1>5 DEF PickItem, store
    <2>2. WritesOn
      BY <1>1, <1>5 DEF PickItem, Enqueue, Goto
    <2> QED
      BY <2>1, <2>2
  <1>6. CASE FinishPrewarm(c)
    <2>1. master' = master
      BY <1>6 DEF FinishPrewarm, store
    <2>2. WritesOn
      BY <1>1, <1>6 DEF FinishPrewarm, Goto
    <2> QED
      BY <2>1, <2>2
  <1>7. CASE Send(c)
    <2>1. master' = master
      BY <1>7 DEF Send, store
    <2>2. WritesOn
      BY <1>1, <1>7 DEF Send, Goto
    <2> QED
      BY <2>1, <2>2
  <1>8. CASE Return(c)
    <2>1. master' = master
      BY <1>8 DEF Return, store
    <2>2. WritesOn
      BY <1>1, <1>8 DEF Return, Goto
    <2> QED
      BY <2>1, <2>2
  <1>9. CASE Drop(c)
    <2>1. master' = master
      BY <1>9 DEF Drop, store
    <2>2. WritesOn
      BY <1>1, <1>9 DEF Drop, InService, Goto
    <2> QED
      BY <2>1, <2>2
  <1>10. CASE FetchSource(c)
    <2>1. master' = master
      BY <1>10 DEF FetchSource, store
    <2>2. WritesOn
      BY <1>1, <1>10 DEF FetchSource, Refuse, Goto
    <2> QED
      BY <2>1, <2>2
  <1>11. CASE CreateJob(c)
    <2>1. master' = master
      BY <1>11 DEF CreateJob, store
    <2>2. WritesOn
      BY <1>1, <1>11 DEF CreateJob, Refuse, Goto
    <2> QED
      BY <2>1, <2>2
  <1>12. CASE StartJob(c)
    <2>1. master' = master
      BY <1>12 DEF StartJob, store
    <2>2. WritesOn
      BY <1>1, <1>12 DEF StartJob, Refuse, service, Goto
    <2> QED
      BY <2>1, <2>2
  <1>13. CASE Encode(c)
    <2>1. master' = master
      BY <1>13 DEF Encode, store
    <2>2. WritesOn
      BY <1>1, <1>13 DEF Encode, Goto
    <2> QED
      BY <2>1, <2>2
  <1>14. CASE UploadFile(c)
    <2>1. master' = master
      BY <1>14 DEF UploadFile, store
    <2>2. WritesOn
      BY <1>1, <1>14 DEF UploadFile, Goto
    <2> QED
      BY <2>1, <2>2
  <1>15. CASE StoreOutput(c)
    <2>1. master' = master
      BY <1>15 DEF StoreOutput, store
    <2>2. WritesOn
      BY <1>1, <1>15 DEF StoreOutput, Refuse, Goto
    <2> QED
      BY <2>1, <2>2
  <1>16. CASE CloseJob(c)
    <2>1. master' = master
      BY <1>16 DEF CloseJob, store
    <2>2. WritesOn
      BY <1>1, <1>16 DEF CloseJob, Refuse, Goto
    <2> QED
      BY <2>1, <2>2
  <1>17. CASE FailJob(c)
    <2>1. master' = master
      BY <1>17 DEF FailJob, store
    <2>2. WritesOn
      BY <1>1, <1>17 DEF FailJob, Refuse, Goto
    <2> QED
      BY <2>1, <2>2
  <1> QED
    BY <1>2, <1>3, <1>4, <1>5, <1>6, <1>7, <1>8, <1>9, <1>10, <1>11, <1>12, <1>13, <1>14, <1>15, <1>16, <1>17 DEF Progress

LEMMA WritesOn ==
    ASSUME IInv, [Next]_vars, ~Restart, NEW d \in Callers, pc[d] = "mastering", ~FillMaster(d)
    PROVE  pc'[d] = "mastering" /\ call'[d] = call[d]
  <1>1. TypeOK /\ pc \in [Callers -> Stages]
    BY DEF IInv, TypeOK
  <1>2. ASSUME NEW c \in Callers, Progress(c)
        PROVE  pc'[d] = "mastering" /\ call'[d] = call[d]
    <2>1. CASE OpenMaster(c) \/ FillMaster(c)
      <3>1. c # d
        BY <2>1 DEF OpenMaster
      <3> QED
        BY <1>1, <2>1, <3>1 DEF OpenMaster, FillMaster, Refuse, Goto
    <2> QED
      BY <1>1, <1>2, <2>1, NotWriting
  <1>3. ASSUME NEW c \in Callers, HangUp(c) PROVE pc'[d] = "mastering" /\ call'[d] = call[d]
    BY <1>1, <1>3 DEF HangUp
  <1>4. ASSUME NEW i \in DOMAIN jobs, CancelReads(i) \/ CancelWrites(i)
        PROVE  pc'[d] = "mastering" /\ call'[d] = call[d]
    BY <1>4 DEF CancelReads, CancelWrites, caller
  <1>5. CASE UNCHANGED vars
    BY <1>5 DEF vars
  <1> QED
    BY <1>2, <1>3, <1>4, <1>5 DEF Next

\* Somebody is at work on a master playlist that is empty for a write under way, and
\* one that can be read lists a variant.
MasterInv ==
    \A t \in Tracks :
        /\ master[t] # {}
        /\ master[t] = Open => \E d \in Callers : pc[d] = "mastering" /\ call[d].track = t

LEMMA MasterInvKept == IInv /\ MasterInv /\ [Next]_vars => MasterInv'
  <1> SUFFICES ASSUME IInv, MasterInv, [Next]_vars, NEW t \in Tracks
               PROVE  /\ master'[t] # {}
                      /\ master'[t] = Open =>
                           \E d \in Callers : pc'[d] = "mastering" /\ call'[d].track = t
    BY DEF MasterInv
  <1>1. Open # {} /\ Torn # {} /\ Open # Torn /\ {} \in SUBSET Rates
    BY TranscodingAssumption
  <1>2. master \in [Tracks -> {Absent, Torn, Open} \cup SUBSET Rates]
    BY DEF IInv, TypeOK
  <1>3. CASE Restart
    BY <1>1, <1>2, <1>3 DEF Restart, MasterInv
  <1>4. ASSUME NEW c \in Callers, OpenMaster(c) \/ FillMaster(c), master' # master
        PROVE  /\ master'[t] # {}
               /\ master'[t] = Open =>
                    \E d \in Callers : pc'[d] = "mastering" /\ call'[d].track = t
    <2>1. /\ pc[c] \in InService /\ call' = call /\ pc \in [Callers -> Stages]
      BY <1>4 DEF OpenMaster, FillMaster, InService, IInv, TypeOK
    <2>2. call[c].rates \in SUBSET Rates /\ call[c].rates # {}
      BY <2>1, InServiceIs DEF CallInv
    <2>3. Open # call[c].rates
      BY <2>2, TranscodingAssumption
    <2>4. PICK x \in {Open, Torn, call[c].rates}, stage \in {"mastering", "replied", "refused"} :
             /\ master' = [master EXCEPT ![call[c].track] = x] /\ Goto(c, stage)
             /\ x = Open => stage = "mastering"
      BY <1>1, <1>4, <2>3 DEF OpenMaster, FillMaster, Refuse
    <2>5. pc'[c] = stage /\ \A d \in Callers \ {c} : pc'[d] = pc[d]
      BY <2>1, <2>4 DEF Goto
    <2>6. CASE t = call[c].track
      <3>1. master'[t] = x
        BY <1>2, <2>4, <2>6
      <3> QED
        BY <1>1, <2>1, <2>2, <2>4, <2>5, <2>6, <3>1
    <2>7. CASE t # call[c].track
      <3>1. master'[t] = master[t]
        BY <1>2, <2>4, <2>7
      <3>2. ASSUME master[t] = Open
            PROVE  \E d \in Callers : pc'[d] = "mastering" /\ call'[d].track = t
        <4>1. PICK d \in Callers : pc[d] = "mastering" /\ call[d].track = t
          BY <3>2 DEF MasterInv
        <4> QED
          BY <2>1, <2>5, <2>7, <4>1
      <3> QED
        BY <3>1, <3>2 DEF MasterInv
    <2> QED
      BY <2>6, <2>7
  <1>5. CASE master' = master /\ ~Restart
    <2> SUFFICES ASSUME master[t] = Open
                 PROVE  \E d \in Callers : pc'[d] = "mastering" /\ call'[d].track = t
      BY <1>5 DEF MasterInv
    <2>1. PICK d \in Callers : pc[d] = "mastering" /\ call[d].track = t
      BY DEF MasterInv
    <2>2. CASE ~FillMaster(d)
      BY <1>5, <2>1, <2>2, WritesOn
    <2>3. CASE FillMaster(d)
      <3>1. call[d].rates \in SUBSET Rates
        BY <2>1, InServiceIs DEF InService
      <3>2. Open # call[d].rates
        BY <3>1, TranscodingAssumption
      <3>3. \E x \in {Torn, call[d].rates} : master' = [master EXCEPT ![t] = x]
        BY <2>1, <2>3 DEF FillMaster
      <3> QED
        BY <1>1, <1>2, <1>5, <3>2, <3>3
    <2> QED
      BY <2>2, <2>3
  <1>6. master' # master => Restart \/ \E c \in Callers : OpenMaster(c) \/ FillMaster(c)
    <2>1. ASSUME NEW c \in Callers, Progress(c), ~(OpenMaster(c) \/ FillMaster(c))
          PROVE  master' = master
      BY <2>1, NotWriting DEF IInv
    <2>2. ASSUME \/ \E c \in Callers : HangUp(c)
                 \/ \E i \in DOMAIN jobs : CancelReads(i) \/ CancelWrites(i)
                 \/ UNCHANGED vars
          PROVE  master' = master
      BY <2>2 DEF HangUp, CancelReads, CancelWrites, vars, store
    <2> QED
      BY <2>1, <2>2 DEF Next
  <1> QED
    BY <1>3, <1>4, <1>5, <1>6

\* The invariant holds in every reachable state, whoever listens, prewarms, hangs up,
\* cancels or restarts.
THEOREM Invariance == Spec => []IInv
  BY InitIInv, NextIInv, PTL DEF Spec

\* So does what holds of the master playlists.
LEMMA MasterInvariance == Spec => []MasterInv
  <1>1. Init => MasterInv
    <2>1. Absent # {} /\ Absent # Open
      <3>1. {} \in SUBSET Rates
        OBVIOUS
      <3> QED
        BY <3>1, TranscodingAssumption
    <2> QED
      BY <2>1 DEF Init, MasterInv
  <1> QED
    BY <1>1, MasterInvKept, Invariance, PTL DEF Spec

\* Every state is well typed.
THEOREM TypeCorrect == Spec => []TypeOK
  <1>1. IInv => TypeOK
    BY DEF IInv
  <1> QED
    BY <1>1, Invariance, PTL

\* What was promised is in storage: a listed variant was uploaded to the end, a
\* completed job has its output, and a stream URL or a clean prewarm its manifests,
\* which list a variant unless somebody is writing them or a write of theirs went wrong.
THEOREM PromisesKept == Spec => []StoredAsPromised
  <1>1. IInv /\ MasterInv => StoredAsPromised
    <2> SUFFICES ASSUME IInv, MasterInv PROVE StoredAsPromised
      OBVIOUS
    <2>1. ASSUME NEW c \in Callers, NEW t \in job[c].tracks,
                 pc[c] = "served" \/ (pc[c] = "done" /\ job[c].hls /\ ~errors[c])
          PROVE  t \in Tracks /\ ManifestExists(t)
      <3>1. CallInv(c) /\ PromiseInv(c) /\ TypeOK
        BY DEF IInv, CallerInv
      <3>2. t \in Tracks
        BY <3>1, JobType
      <3>3. CASE pc[c] = "served"
        BY <3>1, <3>2, <3>3 DEF PromiseInv
      <3>4. CASE pc[c] = "done" /\ job[c].hls /\ ~errors[c]
        BY <3>1, <3>2, <3>4 DEF PromiseInv, CallInv, InCall, InService
      <3> QED
        BY <2>1, <3>3, <3>4
    <2>2. ASSUME NEW t \in Tracks, ManifestExists(t)
          PROVE  \/ Listed(t) # {}
                 \/ master[t] = Torn
                 \/ \E d \in Callers : pc[d] = "mastering" /\ call[d].track = t
      BY <2>2 DEF MasterInv, ManifestExists, Listed
    <2>3. ManifestWhenPromised
      BY <2>1, <2>2 DEF ManifestWhenPromised
    <2> QED
      BY <2>3 DEF IInv, StoredAsPromised
  <1> QED
    BY <1>1, Invariance, MasterInvariance, PTL

\* A completed or failed job stays as it is, except that a cancel_job that found it
\* active may still mark it cancelled: the row a handler has in hand is never finished.
THEOREM FinishedStay == Spec => FinishedJobsStay
  <1> DEFINE Stays(i) == jobs[i].status \in {"completed", "failed"} /\ jobs'[i] # jobs[i]
                         => i \in cancelling /\ jobs'[i].status = "cancelled"
  <1>1. ASSUME IInv, Next, NEW i \in DOMAIN jobs PROVE Stays(i)
    <2>1. ASSUME NEW c \in Callers, Progress(c), jobs'[i] # jobs[i] PROVE ~Finished(i)
      <3>1. CASE CreateJob(c)
        <4>1. \A row \in JobRow : jobs' = Append(jobs, row) => jobs'[i] = jobs[i]
          BY <1>1, RowAdded DEF IInv, TypeOK
        <4>2. ASSUME NEW r \in call[c].left
              PROVE  [track |-> call[c].track, rate |-> r, kind |-> call[c].kind,
                      status |-> "pending"] \in JobRow
          BY <1>1, <3>1, InServiceIs DEF CreateJob, InService, JobRow, Active
        <4> QED
          BY <2>1, <3>1, <4>1, <4>2 DEF CreateJob
      <3>2. CASE StartJob(c) \/ CloseJob(c) \/ FailJob(c)
        <4>1. pc[c] \in InService /\ InHand(c)
          BY <3>2 DEF StartJob, CloseJob, FailJob, InService, InHand
        <4>2. call[c].id \in DOMAIN jobs /\ ~Finished(call[c].id) /\ TypeOK
          BY <1>1, <4>1, InServiceIs DEF RowInv
        <4>3. jobs' = jobs \/ \E v \in {"processing", "completed", "failed"} : SetStatus(call[c].id, v)
          BY <3>2 DEF StartJob, CloseJob, FailJob
        <4>4. i # call[c].id => jobs'[i] = jobs[i]
          BY <1>1, <4>2, <4>3, SetStatusIs DEF Active
        <4> QED
          BY <2>1, <4>2, <4>4
      <3>3. CASE CheckManifest(c) \/ LookUpTrack(c) \/ StartPrewarm(c) \/ PickItem(c)
                 \/ FinishPrewarm(c) \/ Send(c) \/ Return(c) \/ Drop(c)
        <4>1. jobs' = jobs
          BY <3>3 DEF CheckManifest, LookUpTrack, StartPrewarm, PickItem, FinishPrewarm, Send,
             Return, Drop, store
        <4> QED
          BY <2>1, <4>1
      <3>4. CASE FetchSource(c) \/ Encode(c) \/ UploadFile(c) \/ StoreOutput(c)
                 \/ OpenMaster(c) \/ FillMaster(c)
        <4>1. jobs' = jobs
          BY <3>4 DEF FetchSource, Encode, UploadFile, StoreOutput, OpenMaster, FillMaster, store
        <4> QED
          BY <2>1, <4>1
      <3> QED
        BY <2>1, <3>1, <3>2, <3>3, <3>4 DEF Progress
    <2>2. ASSUME NEW k \in DOMAIN jobs, CancelReads(k) \/ CancelWrites(k) PROVE Stays(i)
      <3>1. jobs' = jobs \/ (SetStatus(k, "cancelled") /\ k \in cancelling)
        BY <2>2 DEF CancelReads, CancelWrites, store
      <3>2. TypeOK
        BY <1>1 DEF IInv
      <3>3. CASE SetStatus(k, "cancelled") /\ k \in cancelling
        BY <1>1, <3>2, <3>3, SetStatusIs
      <3> QED
        BY <3>1, <3>3
    <2>3. ASSUME (\E c \in Callers : HangUp(c)) \/ Restart PROVE jobs' = jobs
      BY <2>3 DEF HangUp, Restart, store
    <2> QED
      BY <1>1, <2>1, <2>2, <2>3 DEF Next, Finished
  <1>2. IInv /\ [Next]_vars => [\A i \in DOMAIN jobs : Stays(i)]_vars
    BY <1>1
  <1> QED
    BY <1>2, Invariance, PTL DEF Spec, FinishedJobsStay
=============================================================================
