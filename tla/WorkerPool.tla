----------------------------- MODULE WorkerPool -----------------------------
(***************************************************************************)
(* worker.Pool of internal/worker/pool.go, with the part of                *)
(* downloader.Download that its workers run, and with the shutdown of      *)
(* cmd/bot/main.go that ends them.                                         *)
(*                                                                         *)
(* An update is one Telegram update that asks for a download: main starts  *)
(* a goroutine for it, and the goroutine calls Pool.Enqueue once.  The     *)
(* update identifies the Job it puts in the channel, the temporary         *)
(* directory of its download and the file_id of its upload, since each job *)
(* makes at most one of each.                                              *)
(*                                                                         *)
(* Each action is a step between two points at which another goroutine can *)
(* see or change shared state.  Every call that leaves the process may     *)
(* fail.  Where the code only logs the failure and goes on (notify,        *)
(* RecordDownload), the model records that the call was made.  The pool    *)
(* never reads what it writes to Redis.  So keys that expire have no place *)
(* here, and of the history only which jobs have pushed an entry and which *)
(* have bumped the version: what becomes of the list, which is trimmed,    *)
(* expires and is cleared, is in InlineHistory.                            *)
(*                                                                         *)
(* A definition named Wrong... is a slip the code next to it invites.  No  *)
(* specification uses it: put in the place of the definition it precedes,  *)
(* it breaks one of the properties at the end.                             *)
(***************************************************************************)
EXTENDS Naturals, Sequences, FiniteSets, Functions

CONSTANTS
  Updates,    \* the updates that ask for a download
  URLs,       \* the normalised links
  Users,      \* the Telegram users
  Workers,    \* the worker goroutines; their number is Pool.size
  Capacity,   \* the buffer of Pool.jobs (the code makes it 4 * size)
  None        \* no job

ASSUME PoolAssumption ==
  /\ Capacity \in Nat
  /\ None \notin Updates

VARIABLES
  \* In the memory of the process:
  req,         \* the Job each update stands for: its URL and its user
  call,        \* where the update's call of Enqueue stands, or its result
  inProgress,  \* the keys of Pool.inProgress
  jobs,        \* the buffer of the channel Pool.jobs
  wpc,         \* where each worker stands in worker and process
  wjob,        \* the job each worker is processing
  ctxDone,     \* the context that main passes to the pool is cancelled
  alive,       \* the process is running
  \* Outside it:
  tmpDirs,     \* the download directories on disk
  cached,      \* Redis: the file_id stored for each URL
  pushed,      \* the jobs that have pushed an entry to the history of their user
  bumped,      \* the jobs that have bumped the inline version of their user
  pm,          \* what the worker sent to the requester last
  records      \* the row RecordDownload was called with

poolVars  == <<req, call, inProgress, jobs, wpc, wjob, ctxDone, alive>>
storeVars == <<tmpDirs, cached, pushed, bumped, pm, records>>
vars      == <<req, call, inProgress, jobs, wpc, wjob, ctxDone, alive,
               tmpDirs, cached, pushed, bumped, pm, records>>

\* Enqueue returns false in two places, for a "duplicate" and on "overflow".
CallState == {"none", "claimed", "full", "true", "duplicate", "overflow", "lost"}

WorkerPC == {"idle", "download", "ytdlp", "upload", "setCached", "addHistory",
             "incrVersion", "sendPM", "notifyPM", "recordSuccess",
             "notifyDownload", "recordDownload", "notifyUpload",
             "recordUpload", "cleanup", "release", "stopped"}

Queued == Range(jobs)

Running(c) == \E w \in Workers : wjob[w] = c

\* The update's job owns the claim on its URL: its Enqueue is between
\* LoadOrStore and the end, or its job is in the channel or with a worker.
Holds(c) == call[c] \in {"claimed", "full"} \/ c \in Queued \/ Running(c)

Init ==
  /\ req \in [Updates -> [url : URLs, user : Users]]
  /\ call = [c \in Updates |-> "none"]
  /\ inProgress = {}
  /\ jobs = <<>>
  /\ wpc = [w \in Workers |-> "idle"]
  /\ wjob = [w \in Workers |-> None]
  /\ ctxDone = FALSE
  /\ alive = TRUE
  /\ tmpDirs = {}
  /\ cached = [u \in URLs |-> None]
  /\ pushed = {}
  /\ bumped = {}
  /\ pm = [c \in Updates |-> "none"]
  /\ records = [c \in Updates |-> "none"]

-----------------------------------------------------------------------------
(* Enqueue *)

\* Wrong: Store in the place of LoadOrStore, so that nobody is refused.
WrongEnqueueClaim(c) ==
  /\ alive
  /\ call[c] = "none"
  /\ call' = [call EXCEPT ![c] = "claimed"]
  /\ inProgress' = inProgress \cup {req[c].url}
  /\ UNCHANGED <<req, jobs, wpc, wjob, ctxDone, alive>>
  /\ UNCHANGED storeVars

\* inProgress.LoadOrStore(job.URL): the claim, or the answer false.
EnqueueClaim(c) ==
  /\ alive
  /\ call[c] = "none"
  /\ LET loaded == req[c].url \in inProgress IN
       /\ call' = [call EXCEPT ![c] = IF loaded THEN "duplicate" ELSE "claimed"]
       /\ inProgress' = inProgress \cup {req[c].url}
  /\ UNCHANGED <<req, jobs, wpc, wjob, ctxDone, alive>>
  /\ UNCHANGED storeVars

\* Wrong: one job more than the channel holds.
WrongEnqueueSend(c) ==
  /\ alive
  /\ call[c] = "claimed"
  /\ Len(jobs) <= Capacity
  /\ jobs' = Append(jobs, c)
  /\ call' = [call EXCEPT ![c] = "true"]
  /\ UNCHANGED <<req, inProgress, wpc, wjob, ctxDone, alive>>
  /\ UNCHANGED storeVars

\* The select: the job goes into the channel if there is room.
EnqueueSend(c) ==
  /\ alive
  /\ call[c] = "claimed"
  /\ Len(jobs) < Capacity
  /\ jobs' = Append(jobs, c)
  /\ call' = [call EXCEPT ![c] = "true"]
  /\ UNCHANGED <<req, inProgress, wpc, wjob, ctxDone, alive>>
  /\ UNCHANGED storeVars

\* Wrong: the default branch forgets inProgress.Delete.
WrongEnqueueRollback(c) ==
  /\ alive
  /\ call[c] = "full"
  /\ call' = [call EXCEPT ![c] = "overflow"]
  /\ UNCHANGED <<req, inProgress, jobs, wpc, wjob, ctxDone, alive>>
  /\ UNCHANGED storeVars

\* The select takes its default branch ...
EnqueueFull(c) ==
  /\ alive
  /\ call[c] = "claimed"
  /\ Len(jobs) >= Capacity
  /\ call' = [call EXCEPT ![c] = "full"]
  /\ UNCHANGED <<req, inProgress, jobs, wpc, wjob, ctxDone, alive>>
  /\ UNCHANGED storeVars

\* ... and gives the claim up.
EnqueueRollback(c) ==
  /\ alive
  /\ call[c] = "full"
  /\ inProgress' = inProgress \ {req[c].url}
  /\ call' = [call EXCEPT ![c] = "overflow"]
  /\ UNCHANGED <<req, jobs, wpc, wjob, ctxDone, alive>>
  /\ UNCHANGED storeVars

-----------------------------------------------------------------------------
(* worker and process *)

\* A worker moves within process without touching the pool's shared state.
Step(w, from, to) ==
  /\ alive
  /\ wpc[w] = from
  /\ wpc' = [wpc EXCEPT ![w] = to]
  /\ UNCHANGED <<req, call, inProgress, jobs, wjob, ctxDone, alive>>

\* Wrong: the claim is given up when the job leaves the channel.
WrongReceive(w) ==
  /\ alive
  /\ wpc[w] = "idle"
  /\ jobs # <<>>
  /\ wpc' = [wpc EXCEPT ![w] = "download"]
  /\ wjob' = [wjob EXCEPT ![w] = Head(jobs)]
  /\ jobs' = Tail(jobs)
  /\ inProgress' = inProgress \ {req[Head(jobs)].url}
  /\ UNCHANGED <<req, call, ctxDone, alive>>
  /\ UNCHANGED storeVars

\* worker: the select picks a job.  It may do so after the context is
\* cancelled, since a select with two ready cases picks either.
Receive(w) ==
  /\ alive
  /\ wpc[w] = "idle"
  /\ jobs # <<>>
  /\ wpc' = [wpc EXCEPT ![w] = "download"]
  /\ wjob' = [wjob EXCEPT ![w] = Head(jobs)]
  /\ jobs' = Tail(jobs)
  /\ UNCHANGED <<req, call, inProgress, ctxDone, alive>>
  /\ UNCHANGED storeVars

\* worker: the select picks ctx.Done().
Stop(w) ==
  /\ ctxDone
  /\ Step(w, "idle", "stopped")
  /\ UNCHANGED storeVars

\* Download creates its directory, or returns an error without one.
MkdirTemp(w) ==
  /\ \/ /\ Step(w, "download", "ytdlp")
        /\ tmpDirs' = tmpDirs \cup {wjob[w]}
     \/ /\ Step(w, "download", "notifyDownload")
        /\ UNCHANGED tmpDirs
  /\ UNCHANGED <<cached, pushed, bumped, pm, records>>

\* yt-dlp leaves a file.  A cancelled context kills it or keeps it from
\* starting.
YtdlpSucceeds(w) ==
  /\ ~ctxDone
  /\ Step(w, "ytdlp", "upload")
  /\ UNCHANGED storeVars

\* Wrong: Download returns its error without os.RemoveAll.
WrongYtdlpFails(w) ==
  /\ Step(w, "ytdlp", "notifyDownload")
  /\ UNCHANGED storeVars

\* yt-dlp fails or leaves no file: Download removes its directory itself.
YtdlpFails(w) ==
  /\ Step(w, "ytdlp", "notifyDownload")
  /\ tmpDirs' = tmpDirs \ {wjob[w]}
  /\ UNCHANGED <<cached, pushed, bumped, pm, records>>

\* Wrong: a failed upload returns without a notice and a record.
WrongUpload(w) ==
  /\ \/ Step(w, "upload", "setCached")
     \/ Step(w, "upload", "cleanup")
  /\ UNCHANGED storeVars

\* The upload to the storage channel.
Upload(w) ==
  /\ \/ Step(w, "upload", "setCached")
     \/ Step(w, "upload", "notifyUpload")
  /\ UNCHANGED storeVars

\* SetCachedVideo.  Redis calls take the context and fail once it is
\* cancelled; a failure is logged and process goes on.
SetCachedVideo(w) ==
  /\ Step(w, "setCached", "addHistory")
  /\ \/ /\ ~ctxDone
        /\ cached' = [cached EXCEPT ![req[wjob[w]].url] = wjob[w]]
     \/ UNCHANGED cached
  /\ UNCHANGED <<tmpDirs, pushed, bumped, pm, records>>

\* AddVideoHistory succeeds; or it fails, before its LPUSH or after it.  Only
\* success leads to IncrInlineVersion.
AddVideoHistory(w) ==
  /\ \/ /\ ~ctxDone
        /\ Step(w, "addHistory", "incrVersion")
        /\ pushed' = pushed \cup {wjob[w]}
     \/ /\ Step(w, "addHistory", "sendPM")
        /\ \/ ~ctxDone /\ pushed' = pushed \cup {wjob[w]}
           \/ UNCHANGED pushed
  /\ UNCHANGED <<tmpDirs, cached, bumped, pm, records>>

IncrInlineVersion(w) ==
  /\ Step(w, "incrVersion", "sendPM")
  /\ \/ ~ctxDone /\ bumped' = bumped \cup {wjob[w]}
     \/ UNCHANGED bumped
  /\ UNCHANGED <<tmpDirs, cached, pushed, pm, records>>

\* The video goes to the requester's PM; if that fails, a notice follows.
SendPM(w) ==
  /\ \/ /\ Step(w, "sendPM", "recordSuccess")
        /\ pm' = [pm EXCEPT ![wjob[w]] = "video"]
     \/ /\ Step(w, "sendPM", "notifyPM")
        /\ UNCHANGED pm
  /\ UNCHANGED <<tmpDirs, cached, pushed, bumped, records>>

\* notify after a failed download, a failed upload or a failed PM.
Notify(w, from, to) ==
  /\ Step(w, from, to)
  /\ pm' = [pm EXCEPT ![wjob[w]] = "notice"]
  /\ UNCHANGED <<tmpDirs, cached, pushed, bumped, records>>

\* Wrong: a failed PM counts as a failed download.
WrongNotifyPM(w)  == Notify(w, "notifyPM", "recordUpload")

NotifyDownload(w) == Notify(w, "notifyDownload", "recordDownload")
NotifyUpload(w)   == Notify(w, "notifyUpload", "recordUpload")
NotifyPM(w)       == Notify(w, "notifyPM", "recordSuccess")

\* RecordDownload runs on a context of its own, which nothing cancels.
RecordDownload(w, from, success, to) ==
  /\ Step(w, from, to)
  /\ records' = [records EXCEPT ![wjob[w]] = success]
  /\ UNCHANGED <<tmpDirs, cached, pushed, bumped, pm>>

\* After a failed download nothing is left to clean up; after a failed
\* upload and after success the deferred Cleanup runs.
RecordFailedDownload(w) == RecordDownload(w, "recordDownload", "failure", "release")
RecordFailedUpload(w)   == RecordDownload(w, "recordUpload", "failure", "cleanup")
RecordSuccess(w)        == RecordDownload(w, "recordSuccess", "success", "cleanup")

\* Wrong: the worker returns after its job instead of looping.
WrongRelease(w) ==
  /\ alive
  /\ wpc[w] = "release"
  /\ inProgress' = inProgress \ {req[wjob[w]].url}
  /\ wpc' = [wpc EXCEPT ![w] = "stopped"]
  /\ wjob' = [wjob EXCEPT ![w] = None]
  /\ UNCHANGED <<req, call, jobs, ctxDone, alive>>
  /\ UNCHANGED storeVars

\* The deferred Cleanup, registered last and so run first ...
Cleanup(w) ==
  /\ Step(w, "cleanup", "release")
  /\ tmpDirs' = tmpDirs \ {wjob[w]}
  /\ UNCHANGED <<cached, pushed, bumped, pm, records>>

\* ... and the deferred inProgress.Delete.
Release(w) ==
  /\ alive
  /\ wpc[w] = "release"
  /\ inProgress' = inProgress \ {req[wjob[w]].url}
  /\ wpc' = [wpc EXCEPT ![w] = "idle"]
  /\ wjob' = [wjob EXCEPT ![w] = None]
  /\ UNCHANGED <<req, call, jobs, ctxDone, alive>>
  /\ UNCHANGED storeVars

-----------------------------------------------------------------------------
(* The process and its environment *)

\* SIGINT or SIGTERM: the signal goroutine cancels the context.
Signal ==
  /\ alive
  /\ ~ctxDone
  /\ ctxDone' = TRUE
  /\ UNCHANGED <<req, call, inProgress, jobs, wpc, wjob, alive>>
  /\ UNCHANGED storeVars

\* The process ends: goroutines, map and channel are gone, and so is every
\* request that was still in them.
Die ==
  /\ alive' = FALSE
  /\ call' = [c \in Updates |-> IF Holds(c) THEN "lost" ELSE call[c]]
  /\ inProgress' = {}
  /\ jobs' = <<>>
  /\ wpc' = [w \in Workers |-> "stopped"]
  /\ wjob' = [w \in Workers |-> None]
  /\ UNCHANGED <<req, ctxDone>>

\* main: the select picks ctx.Done() and main returns, waiting for nobody.
Exit ==
  /\ alive
  /\ ctxDone
  /\ Die
  /\ UNCHANGED storeVars

\* Telegram stores the upload as an animation or a document: msg.Video is
\* nil, and reading its FileID panics.  The worker's deferred calls run, and
\* the panic ends the process.
UploadPanics(w) ==
  /\ alive
  /\ wpc[w] = "upload"
  /\ Die
  /\ tmpDirs' = tmpDirs \ {wjob[w]}
  /\ UNCHANGED <<cached, pushed, bumped, pm, records>>

\* The container's restart policy starts a new process.
Restart ==
  /\ ~alive
  /\ alive' = TRUE
  /\ ctxDone' = FALSE
  /\ wpc' = [w \in Workers |-> "idle"]
  /\ UNCHANGED <<req, call, inProgress, jobs, wjob>>
  /\ UNCHANGED storeVars

-----------------------------------------------------------------------------
EnqueueStep(c) ==
  EnqueueClaim(c) \/ EnqueueSend(c) \/ EnqueueFull(c) \/ EnqueueRollback(c)

\* The steps of a worker up to the upload, and after it.
FetchStep(w) ==
  \/ MkdirTemp(w) \/ YtdlpSucceeds(w) \/ YtdlpFails(w)
  \/ NotifyDownload(w) \/ RecordFailedDownload(w)
  \/ Upload(w) \/ NotifyUpload(w) \/ RecordFailedUpload(w)

PublishStep(w) ==
  \/ SetCachedVideo(w) \/ AddVideoHistory(w) \/ IncrInlineVersion(w)
  \/ SendPM(w) \/ NotifyPM(w) \/ RecordSuccess(w)

WorkerStep(w) ==
  \/ Receive(w) \/ Stop(w) \/ FetchStep(w) \/ PublishStep(w)
  \/ Cleanup(w) \/ Release(w)

Next ==
  \/ \E c \in Updates : EnqueueStep(c)
  \/ \E w \in Workers : WorkerStep(w) \/ UploadPanics(w)
  \/ Signal \/ Exit \/ Restart

Spec == Init /\ [][Next]_vars

\* Goroutines that can run do run, every call that leaves the process
\* returns, and main's select gets round to ctx.Done().  Nothing forces an
\* update, a signal or a restart.
Fairness ==
  /\ \A c \in Updates :
       WF_vars(EnqueueSend(c) \/ EnqueueFull(c) \/ EnqueueRollback(c))
  /\ \A w \in Workers : WF_vars(WorkerStep(w))
  /\ WF_vars(Exit)

FairSpec == Spec /\ Fairness

-----------------------------------------------------------------------------
(* What must hold *)

\* The variables keep to their types, and the channel to its buffer.
TypeOK ==
  /\ req \in [Updates -> [url : URLs, user : Users]]
  /\ call \in [Updates -> CallState]
  /\ inProgress \in SUBSET URLs
  /\ jobs \in Seq(Updates)
  /\ Len(jobs) <= Capacity
  /\ wpc \in [Workers -> WorkerPC]
  /\ wjob \in [Workers -> Updates \cup {None}]
  /\ ctxDone \in BOOLEAN
  /\ alive \in BOOLEAN
  /\ tmpDirs \in SUBSET Updates
  /\ cached \in [URLs -> Updates \cup {None}]
  /\ pushed \in SUBSET Updates
  /\ bumped \in SUBSET Updates
  /\ pm \in [Updates -> {"none", "video", "notice"}]
  /\ records \in [Updates -> {"none", "success", "failure"}]

\* A URL is downloaded for one job at a time: no two jobs for it are in
\* Enqueue, in the channel or with a worker, and no job is in two places.
\* This is what LoadOrStore in Enqueue and the deferred Delete in process
\* are for.
SingleFlight ==
  /\ \A c, d \in Updates :
       Holds(c) /\ Holds(d) /\ req[c].url = req[d].url => c = d
  /\ IsInjective(jobs)
  /\ \A v, w \in Workers : wjob[v] = wjob[w] /\ wjob[v] # None => v = w
  /\ \A w \in Workers : wjob[w] \notin Queued

\* The keys of inProgress are the URLs of the jobs that hold a claim.  A key
\* without a job would make its URL impossible to download until the next
\* restart; a job without a key would let a second download in.
ClaimsAreOwned == inProgress = {req[c].url : c \in {d \in Updates : Holds(d)}}

\* A download directory lies under the claim of its job, so a URL is
\* released only after its directory is gone, and only the death of the
\* process leaves a directory behind.
TmpDirUnderClaim ==
  \A c \in tmpDirs : call[c] = "lost" \/ (Running(c) /\ req[c].url \in inProgress)

\* A job that Enqueue accepted leaves the pool only after its requester was
\* sent the video or a notice and the outcome was recorded: on every path
\* through process.
AcceptedIsAccountedFor ==
  \A c \in Updates :
    call[c] = "true" /\ ~Holds(c) => pm[c] # "none" /\ records[c] # "none"

\* PostgreSQL and Redis tell the same story: a job recorded as failed has pushed
\* nothing to a history, has spent no version and is behind no cached file_id, and
\* its requester got no video.
StoresAgree ==
  \A c \in Updates : records[c] = "failure" =>
    /\ pm[c] = "notice"
    /\ \A u \in URLs : cached[u] # c
    /\ c \notin pushed \cup bumped

\* A file_id enters the cache only while its URL is claimed, and by the job
\* that holds the claim: a worker never overwrites the result of a later
\* download of the URL.
CacheWriteUnderClaim ==
  [][\A u \in URLs : cached'[u] \notin {cached[u], None} =>
       /\ u \in inProgress
       /\ Holds(cached'[u])
       /\ req[cached'[u]].url = u]_vars

\* The pool does what DownloadService promises.  A request is in the stage
\* that tells where its job is; the channel is the queue of the service.
StageOf(c) ==
  IF Running(c) THEN "running"
  ELSE IF c \in Queued THEN "queued"
  ELSE CASE call[c] = "none"    -> "waiting"
         [] call[c] = "full"    -> "bounced"
         [] call[c] = "true"    -> "finished"
         [] OTHER               -> call[c]

Stage == [c \in Updates |-> StageOf(c)]

Service == INSTANCE DownloadService WITH stage <- Stage, queue <- jobs

RefinesService == Service!Spec

\* Every job that got into the pool gets out of it, unless the bot is shut
\* down or dies: Enqueue comes to an end, and an accepted job is processed
\* however the calls of process fail.
AcceptedFinishes ==
  \A c \in Updates : Holds(c) ~> (~Holds(c) \/ ctxDone)

\* A request that Enqueue accepted is answered in the end, or is lost with
\* the process: no request stays accepted and unanswered.
AcceptedIsAnswered ==
  \A c \in Updates : call[c] = "true" ~> (pm[c] # "none" \/ call[c] = "lost")

\* main.go:96 heads its handling of SIGTERM "Graceful shutdown", and Enqueue's
\* true has been answered with the promise to send the video: a shutdown would
\* end the process only when every accepted request has been answered.
GracefulShutdown ==
  [][ctxDone /\ alive /\ ~alive' =>
       \A c \in Updates : call[c] = "true" => pm[c] # "none"]_vars
=============================================================================
