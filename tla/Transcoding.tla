---------------------------- MODULE Transcoding ----------------------------
(***************************************************************************)
(* The transcoding service (services/transcoding/src/server.rs) and the    *)
(* two gateway activities that drive it: a listener who asks for a stream  *)
(* URL (services/gateway/src/routes/stream.rs) and the background prewarm  *)
(* of the library (services/gateway/src/media_processing.rs).              *)
(*                                                                         *)
(* A caller sees whether a master manifest exists, then waits for its      *)
(* gateway's transcoding client (a tokio Mutex kept locked for the whole   *)
(* call), then has variants generated into the track's one directory,      *)
(* whatever happened since it looked.  A caller makes one call at a time,  *)
(* so its handler's locals are indexed by the caller.                      *)
(***************************************************************************)
EXTENDS Naturals, Sequences, FiniteSets, SequencesExt

CONSTANTS
    Tracks, Gateways,
    Callers,        \* listeners' requests and prewarm tasks
    Rates,          \* variant bitrates, by directory label
    Durations,      \* segment durations in use
    Segments,       \* segment file names
    SegmentsOf,     \* [Durations -> SUBSET Segments]: what FFmpeg cuts
    Workloads,      \* what the callers may be: a set of [Callers -> Job]
    Absent, Torn,   \* no such file; a file left empty or in part by a write that
                    \* a crash cut short, that failed, or that met another write
    Open,           \* a master playlist truncated for a write that is under way
    Playlist,       \* the variant playlist file
    MaxCancels, MaxRestarts  \* bounds on cancel_job calls and service restarts

ASSUME TranscodingAssumption ==
    /\ SegmentsOf \in [Durations -> SUBSET Segments]
    /\ Playlist \notin Segments
    /\ Absent # Torn /\ {Absent, Torn} \cap Durations = {}
    /\ Open \notin {Absent, Torn} /\ \A R \in SUBSET Rates : R \notin {Absent, Torn, Open}
    /\ Workloads \subseteq
         [Callers -> [kind: {"play", "prewarm"}, gw: Gateways, tracks: SUBSET Tracks,
                      rates: (SUBSET Rates) \ {{}}, dur: Durations,
                      transcode: BOOLEAN, hls: BOOLEAN]]
    \* a request for a stream names one track
    /\ \A w \in Workloads, c \in Callers :
         w[c].kind = "play" => \E t \in Tracks : w[c].tracks = {t}
    /\ MaxCancels \in Nat /\ MaxRestarts \in Nat

VARIABLES
    job,        \* what each caller is
    files,      \* [Tracks -> [Rates -> [Files -> content]]]: hls/{track}/{rate}/...
    master,     \* [Tracks -> content]: the variants that master.m3u8 lists, or
                \* Absent, Open or Torn
    jobs,       \* Seq of transcoding_jobs rows
    outputs,    \* jobs whose transcoded file is in storage
    queue,      \* [Gateways -> Seq(Callers)]: the client Mutex, head = holder
    pc,         \* where each caller, or the handler that serves it, is
    todo,       \* items a prewarm task has still to look at
    call,       \* locals of each caller's call of the service
    errors,     \* [Callers -> BOOLEAN]: a call of this prewarm failed
    cancelling, \* jobs that a cancel_job has found cancellable
    cancels, restarts

caller == <<pc, todo, call, errors>>
vars == <<job, files, master, jobs, outputs, queue, pc, todo, call, errors,
          cancelling, cancels, restarts>>

-----------------------------------------------------------------------------
Files == Segments \cup {Playlist}
FilesOf(d) == SegmentsOf[d] \cup {Playlist}

\* A unit of work: one transcode of a track, or all its HLS variants.
Items == [kind: {"aac"}, track: Tracks, rates: {{r} : r \in Rates}]
         \cup [kind: {"hls"}, track: Tracks, rates: (SUBSET Rates) \ {{}}]

Active == {"pending", "processing"}
JobRow == [track: Tracks, rate: Rates, kind: {"aac", "hls"},
           status: Active \cup {"completed", "failed", "cancelled"}]

\* rates and left are the bitrates of the call and those not yet begun, id the
\* job row in hand, files what is still to upload, ok the all_succeeded flag.
Call == [kind: {"aac", "hls"}, track: Tracks, rates: SUBSET Rates, left: SUBSET Rates,
         rate: Rates, id: Nat, files: SUBSET Files, ok: BOOLEAN]

InService == {"fetch", "job", "start", "encode", "upload", "close", "fail", "master",
              "mastering"}
Stages == InService \cup {"idle", "lookup", "pick", "queued", "replied", "refused",
                          "served", "failed", "done", "gone"}

TypeOK ==
    /\ job \in Workloads
    /\ files \in [Tracks -> [Rates -> [Files -> Durations \cup {Absent, Torn}]]]
    /\ master \in [Tracks -> {Absent, Torn, Open} \cup SUBSET Rates]
    /\ jobs \in Seq(JobRow) /\ outputs \subseteq DOMAIN jobs
    /\ queue \in [Gateways -> Seq(Callers)]
    /\ pc \in [Callers -> Stages]
    /\ todo \in [Callers -> SUBSET Items]
    /\ call \in [Callers -> Call \cup {<<>>}]
    /\ \A c \in Callers :
         pc[c] \in InService \cup {"queued", "replied", "refused"} => call[c] \in Call
    /\ errors \in [Callers -> BOOLEAN]
    /\ cancelling \subseteq DOMAIN jobs

Init ==
    /\ job \in Workloads
    /\ files = [t \in Tracks |-> [r \in Rates |-> [f \in Files |-> Absent]]]
    /\ master = [t \in Tracks |-> Absent]
    /\ jobs = <<>> /\ outputs = {}
    /\ queue = [g \in Gateways |-> <<>>]
    /\ pc = [c \in Callers |-> "idle"]
    /\ todo = [c \in Callers |-> {}]
    /\ call = [c \in Callers |-> <<>>]
    /\ errors = [c \in Callers |-> FALSE]
    /\ cancelling = {} /\ cancels = 0 /\ restarts = 0

-----------------------------------------------------------------------------
(* Callers *)

Goto(c, stage) == pc' = [pc EXCEPT ![c] = stage]

store == <<job, files, master, jobs, outputs>>
cancellation == <<cancelling, cancels, restarts>>

\* get_manifest of the stream service: is there a master playlist?  It returns the
\* bytes of the file unread, an empty or a torn one too.
ManifestExists(t) == master[t] # Absent

\* The variants that a player finds in the master playlist.
Listed(t) == IF master[t] \in {Absent, Torn, Open} THEN {} ELSE master[t]

NewCall(item) ==
    [kind |-> item.kind, track |-> item.track, rates |-> item.rates, left |-> item.rates,
     rate |-> CHOOSE r \in item.rates : TRUE, id |-> 0, files |-> {}, ok |-> TRUE]

\* Wait for the gateway's transcoding client.
Enqueue(c, item) ==
    /\ call' = [call EXCEPT ![c] = NewCall(item)]
    /\ queue' = [queue EXCEPT ![job[c].gw] = Append(@, c)]
    /\ Goto(c, "queued")

\* ensure_hls_available: served at once if the manifest is read; an error of any
\* kind counts as its absence.
CheckManifest(c) ==
    /\ pc[c] = "idle" /\ job[c].kind = "play"
    /\ \/ (\E t \in job[c].tracks : ManifestExists(t)) /\ Goto(c, "served")
       \/ Goto(c, "lookup")
    /\ UNCHANGED <<store, queue, todo, call, errors, cancellation>>

\* get_track for the source file, then generate_hls with a starter bitrate; the
\* track may be unknown or have no source file.
LookUpTrack(c) ==
    /\ pc[c] = "lookup"
    /\ \/ \E t \in job[c].tracks :
            Enqueue(c, [kind |-> "hls", track |-> t, rates |-> job[c].rates])
       \/ Goto(c, "failed") /\ UNCHANGED <<queue, call>>
    /\ UNCHANGED <<store, todo, errors, cancellation>>

\* run_prewarm_for_library: the settings and the track list are read once.
StartPrewarm(c) ==
    LET transcodes == {[kind |-> "aac", track |-> t, rates |-> {r}] :
                          t \in job[c].tracks, r \in job[c].rates}
        variants == {[kind |-> "hls", track |-> t, rates |-> job[c].rates] :
                          t \in job[c].tracks}
    IN
    /\ pc[c] = "idle" /\ job[c].kind = "prewarm"
    /\ todo' = [todo EXCEPT ![c] = (IF job[c].transcode THEN transcodes ELSE {})
                                   \cup (IF job[c].hls THEN variants ELSE {})]
    /\ Goto(c, "pick")
    /\ UNCHANGED <<store, queue, call, errors, cancellation>>

\* has_cached_transcode_job: a job row that is waiting, running or completed.
HasCachedTranscode(item) ==
    \E i \in DOMAIN jobs : /\ jobs[i].track = item.track /\ jobs[i].kind = "aac"
                           /\ jobs[i].rate \in item.rates
                           /\ jobs[i].status \in Active \cup {"completed"}

Cached(item) ==
    IF item.kind = "aac" THEN HasCachedTranscode(item) ELSE ManifestExists(item.track)

\* The next item: skipped if cached, else one call.  A track's variants come
\* after its transcodes.  A manifest that is there but cannot be read passes for
\* an absent one; any other failing check ends the prewarm.
PickItem(c) ==
    /\ pc[c] = "pick"
    /\ \E item \in todo[c] :
         /\ item.kind = "hls" =>
              ~ \E other \in todo[c] : other.kind = "aac" /\ other.track = item.track
         /\ todo' = [todo EXCEPT ![c] = @ \ {item}]
         /\ \/ Cached(item) /\ UNCHANGED <<pc, queue, call>>
            \/ (Cached(item) => item.kind = "hls") /\ Enqueue(c, item)
            \/ Goto(c, "failed") /\ UNCHANGED <<queue, call>>
    /\ UNCHANGED <<store, errors, cancellation>>

FinishPrewarm(c) ==
    /\ pc[c] = "pick" /\ todo[c] = {}
    /\ Goto(c, "done")
    /\ UNCHANGED <<store, queue, todo, call, errors, cancellation>>

Holder(c) == queue[job[c].gw] # <<>> /\ Head(queue[job[c].gw]) = c
Abandoned(c) == c \notin ToSet(queue[job[c].gw])

\* The lock is acquired and the call sent: generate_hls fetches the source first,
\* transcode_track creates its job row first.
Send(c) ==
    /\ pc[c] = "queued" /\ Holder(c)
    /\ Goto(c, IF call[c].kind = "hls" THEN "fetch" ELSE "job")
    /\ UNCHANGED <<store, queue, todo, call, errors, cancellation>>

\* Mutant of Return: the error path forgets to release the client.
ReturnKeepsLock(c) ==
    /\ pc[c] \in {"replied", "refused"} /\ Holder(c)
    /\ queue' = IF pc[c] = "replied" THEN [queue EXCEPT ![job[c].gw] = Tail(@)] ELSE queue
    /\ errors' = [errors EXCEPT ![c] = @ \/ pc[c] = "refused"]
    /\ Goto(c, IF job[c].kind = "prewarm" THEN "pick"
               ELSE IF pc[c] = "replied" THEN "served" ELSE "failed")
    /\ UNCHANGED <<store, todo, call, cancellation>>

\* The call returned and the lock is dropped.  A prewarm counts an error and goes on.
Return(c) ==
    /\ pc[c] \in {"replied", "refused"} /\ Holder(c)
    /\ queue' = [queue EXCEPT ![job[c].gw] = Tail(@)]
    /\ errors' = [errors EXCEPT ![c] = @ \/ pc[c] = "refused"]
    /\ Goto(c, IF job[c].kind = "prewarm" THEN "pick"
               ELSE IF pc[c] = "replied" THEN "served" ELSE "failed")
    /\ UNCHANGED <<store, todo, call, cancellation>>

\* The listener goes away: axum drops the future, and with it the lock or the
\* place in its queue.  The handler of a call already sent may run on.
HangUp(c) ==
    /\ job[c].kind = "play"
    /\ \E i \in DOMAIN queue[job[c].gw] :
         /\ queue[job[c].gw][i] = c
         /\ queue' = [queue EXCEPT ![job[c].gw] = RemoveAt(@, i)]
    /\ pc' = [pc EXCEPT ![c] = IF pc[c] = "queued" THEN "gone" ELSE @]
    /\ UNCHANGED <<store, todo, call, errors, cancellation>>

\* The stream reset reaches the service, which drops the handler at its await.  A
\* file write that has begun runs to its end on a thread of its own.
Drop(c) ==
    /\ pc[c] \in (InService \ {"mastering"}) \cup {"replied", "refused"} /\ Abandoned(c)
    /\ Goto(c, "gone")
    /\ UNCHANGED <<store, queue, todo, call, errors, cancellation>>

-----------------------------------------------------------------------------
(* generate_hls and transcode_track, one action per await *)

service == <<queue, todo, errors>>

\* An early return of the handler ("?"): the job row in hand is left as it is.
Refuse(c) == Goto(c, "refused")

\* fetch_source_file: get_file_info of the storage service, then a disk read.
FetchSource(c) ==
    /\ pc[c] = "fetch"
    /\ Goto(c, IF call[c].kind = "hls" THEN "job" ELSE "encode") \/ Refuse(c)
    /\ UNCHANGED <<store, service, call, cancellation>>

\* Mutant of CreateJob: the row is never inserted.
CreateJobUnsaved(c) ==
    /\ pc[c] = "job"
    /\ \E r \in call[c].left :
         call' = [call EXCEPT ![c].left = @ \ {r}, ![c].rate = r, ![c].id = Len(jobs) + 1]
    /\ Goto(c, "start")
    /\ UNCHANGED <<store, service, cancellation>>

\* Mutant of CreateJob: the later bitrates of a call keep the first row's id.
CreateJobStaleId(c) ==
    /\ pc[c] = "job"
    /\ \E r \in call[c].left :
         /\ jobs' = Append(jobs, [track |-> call[c].track, rate |-> r,
                                  kind |-> call[c].kind, status |-> "pending"])
         /\ call' = [call EXCEPT ![c].left = @ \ {r}, ![c].rate = r,
                                 ![c].id = IF @ = 0 THEN Len(jobs) + 1 ELSE @]
    /\ Goto(c, "start")
    /\ UNCHANGED <<job, files, master, outputs, service, cancellation>>

\* The row of the next bitrate, pending.
CreateJob(c) ==
    /\ pc[c] = "job"
    /\ \/ \E r \in call[c].left :
            /\ jobs' = Append(jobs, [track |-> call[c].track, rate |-> r,
                                     kind |-> call[c].kind, status |-> "pending"])
            /\ call' = [call EXCEPT ![c].left = @ \ {r}, ![c].rate = r,
                                    ![c].id = Len(jobs) + 1]
            /\ Goto(c, "start")
       \/ Refuse(c) /\ UNCHANGED <<jobs, call>>
    /\ UNCHANGED <<job, files, master, outputs, service, cancellation>>

\* update_status: unconditional, whatever the row says by now.
SetStatus(i, status) == jobs' = [jobs EXCEPT ![i].status = status]

StartJob(c) ==
    /\ pc[c] = "start"
    /\ \/ /\ SetStatus(call[c].id, "processing")
          /\ Goto(c, IF call[c].kind = "hls" THEN "encode" ELSE "fetch")
       \/ Refuse(c) /\ UNCHANGED jobs
    /\ UNCHANGED <<job, files, master, outputs, service, call, cancellation>>

\* FFmpeg writes to a temporary directory of this call.
Encode(c) ==
    /\ pc[c] = "encode"
    /\ \/ /\ call' = [call EXCEPT ![c].files =
                        IF call[c].kind = "hls" THEN FilesOf(job[c].dur) ELSE {}]
          /\ Goto(c, "upload")
       \/ Goto(c, "fail") /\ UNCHANGED call
    /\ UNCHANGED <<store, service, cancellation>>

\* Mutant of UploadFile: the first file ends the upload.
UploadFileOnce(c) ==
    /\ pc[c] = "upload" /\ call[c].kind = "hls"
    /\ \E f \in call[c].files :
         /\ files' = [files EXCEPT ![call[c].track][call[c].rate][f] = job[c].dur]
         /\ call' = [call EXCEPT ![c].files = @ \ {f}]
    /\ Goto(c, "close")
    /\ UNCHANGED <<job, master, jobs, outputs, service, cancellation>>

\* upload_hls_segments: the files in directory order, each written in place.  A
\* write that fails may leave its file cut short.
UploadFile(c) ==
    /\ pc[c] = "upload" /\ call[c].kind = "hls"
    /\ \/ \E f \in call[c].files :
            /\ files' = [files EXCEPT ![call[c].track][call[c].rate][f] = job[c].dur]
            /\ call' = [call EXCEPT ![c].files = @ \ {f}]
            /\ Goto(c, IF call[c].files = {f} THEN "close" ELSE "upload")
       \/ /\ files' = files \/ \E f \in call[c].files :
                files' = [files EXCEPT ![call[c].track][call[c].rate][f] = Torn]
          /\ Goto(c, "fail")
          /\ UNCHANGED call
    /\ UNCHANGED <<job, master, jobs, outputs, service, cancellation>>

\* transcode_track stores its one output through the storage service; an error
\* here, or after it, leaves the job processing.
StoreOutput(c) ==
    /\ pc[c] = "upload" /\ call[c].kind = "aac"
    /\ \/ outputs' = outputs \cup {call[c].id} /\ (Goto(c, "close") \/ Refuse(c))
       \/ Refuse(c) /\ UNCHANGED outputs
    /\ UNCHANGED <<job, files, master, jobs, service, call, cancellation>>

\* After a bitrate: the next one, or the end of the call.
AfterRate(c, ok) ==
    IF call[c].kind = "aac" THEN (IF ok THEN "replied" ELSE "refused")
    ELSE IF call[c].left # {} THEN "job"
    ELSE IF ok THEN "master" ELSE "refused"

CloseJob(c) ==
    /\ pc[c] = "close"
    /\ \/ SetStatus(call[c].id, "completed") /\ Goto(c, AfterRate(c, call[c].ok))
       \/ Refuse(c) /\ UNCHANGED jobs
    /\ UNCHANGED <<job, files, master, outputs, service, call, cancellation>>

\* Mutant of FailJob: the failure of one bitrate is forgotten.
FailJobForgotten(c) ==
    /\ pc[c] = "fail"
    /\ SetStatus(call[c].id, "failed") /\ Goto(c, AfterRate(c, call[c].ok))
    /\ UNCHANGED <<job, files, master, outputs, service, call, cancellation>>

\* A failed bitrate does not stop the others, only the master playlist.
FailJob(c) ==
    /\ pc[c] = "fail"
    /\ \/ /\ SetStatus(call[c].id, "failed")
          /\ call' = [call EXCEPT ![c].ok = FALSE]
          /\ Goto(c, AfterRate(c, FALSE))
       \/ Refuse(c) /\ UNCHANGED <<jobs, call>>
    /\ UNCHANGED <<job, files, master, outputs, service, cancellation>>

\* write_local_storage of the master playlist, in place: the file is emptied, ...
OpenMaster(c) ==
    /\ pc[c] = "master"
    /\ \/ master' = [master EXCEPT ![call[c].track] = Open] /\ Goto(c, "mastering")
       \/ Refuse(c) /\ UNCHANGED master
    /\ UNCHANGED <<job, files, jobs, outputs, service, call, cancellation>>

\* ... and then written: this call's bitrates replace what was listed.  Over the
\* other list of a write that came in between they make no playlist at all, and
\* an error may leave the file in part.
FillMaster(c) ==
    LET t == call[c].track
        mixes == master[t] \notin {Open, call[c].rates}
    IN
    /\ pc[c] = "mastering"
    /\ \/ /\ \/ master' = [master EXCEPT ![t] = call[c].rates]
             \/ mixes /\ master' = [master EXCEPT ![t] = Torn]
          /\ Goto(c, "replied")
       \/ master' = [master EXCEPT ![t] = Torn] /\ Refuse(c)
    /\ UNCHANGED <<job, files, jobs, outputs, service, call, cancellation>>

-----------------------------------------------------------------------------
(* cancel_job and restarts *)

\* cancel_job reads the row, refuses a finished one...
CancelReads(i) ==
    /\ cancels < MaxCancels /\ i \notin cancelling
    /\ jobs[i].status \in Active
    /\ cancelling' = cancelling \cup {i} /\ cancels' = cancels + 1
    /\ UNCHANGED <<store, queue, caller, restarts>>

\* ... and then updates it, or fails.
CancelWrites(i) ==
    /\ i \in cancelling
    /\ SetStatus(i, "cancelled") \/ UNCHANGED jobs
    /\ cancelling' = cancelling \ {i}
    /\ UNCHANGED <<job, files, master, outputs, queue, caller, cancels, restarts>>

\* The transcoding service restarts: every handler is gone, a file being written
\* may be cut short, and no job row is touched.  The callers see an error.
Restart ==
    LET lost == {c \in Callers : pc[c] \in InService}
        cut == {c \in lost : pc[c] = "upload" /\ call[c].kind = "hls"}
        written == {call[c].track : c \in {d \in lost : pc[d] = "mastering"}}
    IN
    /\ restarts < MaxRestarts /\ lost # {}
    /\ \E C \in SUBSET cut, f \in Files :
         files' = [t \in Tracks |-> [r \in Rates |-> [x \in Files |->
            IF \E c \in C : t = call[c].track /\ r = call[c].rate /\ x = f /\ f \in call[c].files
            THEN Torn ELSE files[t][r][x]]]]
    /\ \E T \in SUBSET written :
         master' = [t \in Tracks |-> IF t \in T \/ master[t] = Open THEN Torn ELSE master[t]]
    /\ pc' = [c \in Callers |-> IF c \in lost THEN "refused" ELSE pc[c]]
    /\ cancelling' = {}
    /\ restarts' = restarts + 1
    /\ UNCHANGED <<job, jobs, outputs, service, call, cancels>>

-----------------------------------------------------------------------------
Progress(c) ==
    \/ CheckManifest(c) \/ LookUpTrack(c) \/ StartPrewarm(c) \/ PickItem(c)
    \/ FinishPrewarm(c) \/ Send(c) \/ Return(c) \/ Drop(c)
    \/ FetchSource(c) \/ CreateJob(c) \/ StartJob(c) \/ Encode(c) \/ UploadFile(c)
    \/ StoreOutput(c) \/ CloseJob(c) \/ FailJob(c) \/ OpenMaster(c) \/ FillMaster(c)

Next ==
    \/ \E c \in Callers : Progress(c) \/ HangUp(c)
    \/ \E i \in DOMAIN jobs : CancelReads(i) \/ CancelWrites(i)
    \/ Restart

Spec == Init /\ [][Next]_vars

\* The runtimes poll every task until it returns.
FairSpec == Spec /\ \A c \in Callers : WF_vars(Progress(c))

-----------------------------------------------------------------------------
(* Properties *)

Whole(t, r, d) == \A f \in FilesOf(d) : files[t][r][f] = d

\* Every file of some cut of the variant is there, perhaps from different cuts.
Present(t, r) == \E d \in Durations : \A f \in FilesOf(d) : files[t][r][f] # Absent

\* The master playlist never points at a variant that was not uploaded to the
\* end: one failed bitrate, a crash or a cancellation withholds it.
ListedVariantsPresent == \A t \in Tracks : \A r \in Listed(t) : Present(t, r)

\* A job is marked completed only when what it promises is in storage.
CompletedJobsHaveOutput ==
    \A i \in DOMAIN jobs : jobs[i].status = "completed" =>
        IF jobs[i].kind = "hls" THEN Present(jobs[i].track, jobs[i].rate) ELSE i \in outputs

\* A listener who is given a stream URL finds a manifest that lists a variant, and a
\* prewarm that ends with no error leaves one for every track; but for a manifest
\* that somebody is writing just then, and one whose write was cut short, failed
\* or met another: nothing tells it from a whole one, so it is served for ever.
ManifestWhenPromised ==
    \A c \in Callers :
        \/ pc[c] = "served"
        \/ pc[c] = "done" /\ job[c].hls /\ ~errors[c]
        => \A t \in job[c].tracks :
             \/ Listed(t) # {}
             \/ master[t] = Torn
             \/ \E d \in Callers : pc[d] = "mastering" /\ call[d].track = t

\* What the database, the disk and the answers say of each other holds although
\* no transaction spans them: whatever is interrupted, a promise that was made is
\* kept by the files, the torn master playlist apart.
StoredAsPromised == ListedVariantsPresent /\ CompletedJobsHaveOutput /\ ManifestWhenPromised

\* Cancelling is the only thing that changes a finished job, and only a job that
\* was active when cancel_job read it: nothing else revives, fails or completes it
\* twice, however many callers work on the same track.
FinishedJobsStay ==
    [][\A i \in DOMAIN jobs :
        jobs[i].status \in {"completed", "failed"} /\ jobs'[i] # jobs[i]
            => i \in cancelling /\ jobs'[i].status = "cancelled"]_vars

\* Every caller that waits for a gateway's transcoding client is answered or gone.
EveryCallerAnswered ==
    \A c \in Callers : pc[c] = "queued" ~> pc[c] \in {"served", "failed", "done", "gone"}

\* stream.rs: "if the master manifest already exists, no transcoding is needed".
\* When no call is at work, every listed variant is whole.
ManifestMeansPlayable ==
    (\A c \in Callers : pc[c] \notin InService) =>
        \A t \in Tracks : \A r \in Listed(t) : \E d \in Durations : Whole(t, r, d)
=============================================================================
