-------------------------- MODULE WorkerPoolStores --------------------------
(***************************************************************************)
(* What the pool leaves in Redis, in PostgreSQL and in the chats fits      *)
(* together: a failed job has published nothing (StoresAgree).             *)
(*                                                                         *)
(* This stands on IInv of WorkerPoolProofs, above all on Places: while a   *)
(* worker has a job, nobody else acts for it.                              *)
(***************************************************************************)
EXTENDS WorkerPoolProofs

-----------------------------------------------------------------------------
(* The invariant of the stores *)

\* The job has pushed no entry and bumped no version.
Unlisted(c) == c \notin pushed \cup bumped

\* No file_id of the job is stored anywhere.
Traceless(c) == Unlisted(c) /\ \A u \in URLs : cached[u] # c

Fresh(c) == Traceless(c) /\ records[c] = "none"

\* The places of process before the job is published, or on a path on which it
\* never is.
Unpublished == {"download", "ytdlp", "upload", "setCached", "notifyDownload",
                "notifyUpload", "recordDownload", "recordUpload"}

\* The places at which a failure is about to be recorded.
Failing == {"recordDownload", "recordUpload"}

\* A request that no worker has seen.
Unseen(c) == call[c] \in {"none", "claimed", "full"} \/ c \in Queued

Stores ==
  /\ \A c \in Updates : Unseen(c) => Fresh(c)
  /\ \A w \in Workers :
       /\ wpc[w] \in Unpublished => Traceless(wjob[w])
       /\ wpc[w] = "addHistory" => Unlisted(wjob[w])
       /\ wpc[w] \in Busy \ Recorded => records[wjob[w]] = "none"
       /\ wpc[w] \in Failing => pm[wjob[w]] = "notice"
  /\ StoresAgree

\* A worker changes what its own job has left behind, and nobody else's traces.
OwnTraces(j) ==
  \A c \in Updates \ {j} :
    /\ pm'[c] = pm[c] /\ records'[c] = records[c]
    /\ Unlisted(c) => Unlisted(c)'
    /\ Traceless(c) => Traceless(c)'

\* What a step of process does to Stores.
LEMMA StepStores ==
  ASSUME IInv, Stores, NEW w \in Workers, NEW from, NEW to \in Busy,
         Step(w, from, to), from \in Busy, OwnTraces(wjob[w]),
         to \in Unpublished => Traceless(wjob[w])',
         to = "addHistory" => Unlisted(wjob[w])',
         to \notin Recorded => records'[wjob[w]] = "none",
         to \in Failing => pm'[wjob[w]] = "notice",
         records'[wjob[w]] = "failure" => pm'[wjob[w]] = "notice" /\ Traceless(wjob[w])'
  PROVE  Stores'
<1> USE DEF IInv
<1>1. /\ wpc'[w] = to
      /\ \A v \in Workers \ {w} : wpc'[v] = wpc[v]
      /\ UNCHANGED <<call, jobs, wjob>>
  BY DEF Step, TypeOK
<1>2. wjob[w] \in Updates /\ Running(wjob[w])
  BY BusyHasJob DEF Step
<1>3. \A c \in Updates : Unseen(c)' => Unseen(c) /\ c # wjob[w]
  <2>1. Queued' = Queued
    BY <1>1 DEF Queued
  <2>2. call[wjob[w]] = "true" /\ wjob[w] \notin Queued
    BY <1>2 DEF Places
  <2> QED
    BY <1>1, <2>1, <2>2 DEF Unseen
<1>4. \A c \in Updates : Unseen(c)' => Fresh(c)'
  BY <1>3 DEF Stores, Fresh, OwnTraces
<1>5. ASSUME NEW v \in Workers, v # w, wpc[v] \in Busy
      PROVE  wjob[v] \in Updates \ {wjob[w]}
  <2>1. wjob[v] \in Updates /\ wjob[v] # None
    BY <1>5, BusyHasJob, PoolAssumption
  <2> QED
    BY <1>5, <2>1 DEF Places
<1>6. \A v \in Workers :
        /\ wpc'[v] \in Unpublished => Traceless(wjob[v])'
        /\ wpc'[v] = "addHistory" => Unlisted(wjob[v])'
        /\ wpc'[v] \in Busy \ Recorded => records'[wjob[v]] = "none"
        /\ wpc'[v] \in Failing => pm'[wjob[v]] = "notice"
  <2>1. Unpublished \cup Failing \cup {"addHistory"} \subseteq Busy
    BY DEF Unpublished, Failing, Busy, WorkerPC
  <2>2. TAKE v \in Workers
  <2>3. CASE v = w
    BY <1>1, <2>3
  <2>4. CASE v # w
    <3>1. wpc'[v] = wpc[v]
      BY <1>1, <2>4
    <3>2. CASE wpc[v] \in Busy
      <4>1. wjob[v] \in Updates \ {wjob[w]}
        BY <1>5, <2>4, <3>2
      <4> QED
        BY <1>1, <3>1, <4>1 DEF Stores, OwnTraces, Traceless, Unlisted
    <3> QED
      BY <2>1, <3>1, <3>2
  <2> QED
    BY <2>3, <2>4
<1>7. StoresAgree'
  <2> SUFFICES ASSUME NEW c \in Updates, records'[c] = "failure"
               PROVE  pm'[c] = "notice" /\ Traceless(c)'
    BY DEF StoresAgree, Traceless, Unlisted
  <2>1. CASE c = wjob[w]
    BY <1>1, <2>1 DEF Traceless, Unlisted
  <2>2. CASE c # wjob[w]
    BY <2>2 DEF Stores, StoresAgree, OwnTraces, Traceless, Unlisted
  <2> QED
    BY <2>1, <2>2
<1> QED
  BY <1>1, <1>4, <1>6, <1>7 DEF Stores, Traceless, Unlisted

LEMMA ProcessKeepsStores ==
  ASSUME IInv, Stores, NEW w \in Workers, ProcessStep(w)
  PROVE  Stores'
<1> USE DEF IInv
<1> DEFINE j == wjob[w]
<1>1. /\ j \in Updates /\ wjob' = wjob
      /\ req[j].url \in URLs /\ req[j].user \in Users
  BY ProcessStaysInside, BusyHasJob DEF InProcess, TypeOK
<1>2. /\ wpc[w] \in Unpublished => Traceless(j)
      /\ wpc[w] = "addHistory" => Unlisted(j)
      /\ wpc[w] \in Busy \ Recorded => records[j] = "none"
      /\ wpc[w] \in Failing => pm[j] = "notice"
      /\ records[j] = "failure" => pm[j] = "notice" /\ Traceless(j)
  BY <1>1 DEF Stores, StoresAgree, Traceless, Unlisted
<1> HIDE DEF j
<1> USE DEF Unpublished, Failing, Recorded, Busy, WorkerPC
<1>3. ASSUME UNCHANGED <<cached, pushed, bumped, pm, records>>
      PROVE  /\ OwnTraces(j)
             /\ Traceless(j)' <=> Traceless(j)
             /\ Unlisted(j)' <=> Unlisted(j)
  BY <1>1, <1>3 DEF OwnTraces, Traceless, Unlisted, j
<1>4. CASE MkdirTemp(w) \/ YtdlpSucceeds(w) \/ YtdlpFails(w) \/ Upload(w)
  <2>1. UNCHANGED <<cached, pushed, bumped, pm, records>> /\ wpc[w] \in {"download", "ytdlp", "upload"}
    BY <1>4 DEF MkdirTemp, YtdlpSucceeds, YtdlpFails, Upload, storeVars, Step
  <2> QED
    BY <1>2, <1>3, <1>4, <2>1, StepStores
    DEF MkdirTemp, YtdlpSucceeds, YtdlpFails, Upload, j
<1>5. CASE NotifyDownload(w) \/ NotifyUpload(w) \/ NotifyPM(w)
  <2>1. /\ UNCHANGED <<cached, pushed, bumped, records>>
        /\ wpc[w] \in {"notifyDownload", "notifyUpload", "notifyPM"}
        /\ pm'[j] = "notice" /\ \A c \in Updates \ {j} : pm'[c] = pm[c]
    BY <1>1, <1>5 DEF NotifyDownload, NotifyUpload, NotifyPM, Notify, Step, TypeOK, j
  <2>2. /\ OwnTraces(j)
        /\ Traceless(j)' <=> Traceless(j)
    BY <1>1, <2>1 DEF OwnTraces, Traceless, Unlisted, j
  <2>3. CASE NotifyDownload(w)
    BY <1>1, <1>2, <2>1, <2>2, <2>3, StepStores DEF NotifyDownload, Notify, Step, j
  <2>4. CASE NotifyUpload(w)
    BY <1>1, <1>2, <2>1, <2>2, <2>4, StepStores DEF NotifyUpload, Notify, Step, j
  <2>5. CASE NotifyPM(w)
    BY <1>1, <1>2, <2>1, <2>2, <2>5, StepStores DEF NotifyPM, Notify, Step, j
  <2> QED
    BY <1>5, <2>3, <2>4, <2>5
<1>6. CASE SetCachedVideo(w)
  <2>1. /\ UNCHANGED <<pushed, bumped, pm, records>>
        /\ wpc[w] = "setCached" /\ Step(w, "setCached", "addHistory")
        /\ \A u \in URLs : cached'[u] \in {cached[u], j}
    BY <1>1, <1>6 DEF SetCachedVideo, Step, TypeOK, j
  <2>2. OwnTraces(j)
    BY <1>1, <2>1 DEF OwnTraces, Traceless, Unlisted
  <2>3. Unlisted(j)' /\ records'[j] = "none"
    BY <1>1, <1>2, <2>1 DEF Traceless, Unlisted, j
  <2> QED
    BY <2>1, <2>2, <2>3, StepStores DEF j
<1>7. CASE AddVideoHistory(w)
  <2>1. /\ UNCHANGED <<cached, pm, records>>
        /\ wpc[w] = "addHistory"
        /\ bumped' = bumped /\ pushed' \in {pushed, pushed \cup {j}}
    BY <1>1, <1>7 DEF AddVideoHistory, Step, j
  <2>2. OwnTraces(j)
    BY <1>1, <2>1 DEF OwnTraces, Traceless, Unlisted
  <2>3. records'[j] = "none"
    BY <1>2, <2>1
  <2>4. CASE Step(w, "addHistory", "incrVersion")
    BY <2>2, <2>3, <2>4, StepStores DEF j
  <2>5. CASE Step(w, "addHistory", "sendPM")
    BY <2>2, <2>3, <2>5, StepStores DEF j
  <2> QED
    BY <1>7, <2>4, <2>5 DEF AddVideoHistory
<1>8. CASE IncrInlineVersion(w)
  <2>1. /\ UNCHANGED <<cached, pm, records>>
        /\ wpc[w] = "incrVersion" /\ Step(w, "incrVersion", "sendPM")
        /\ pushed' = pushed /\ bumped' \in {bumped, bumped \cup {j}}
    BY <1>1, <1>8 DEF IncrInlineVersion, Step, j
  <2>2. OwnTraces(j)
    BY <1>1, <2>1 DEF OwnTraces, Traceless, Unlisted
  <2>3. records'[j] = "none"
    BY <1>2, <2>1
  <2> QED
    BY <2>1, <2>2, <2>3, StepStores DEF j
<1>9. CASE SendPM(w)
  <2>1. /\ UNCHANGED <<cached, pushed, bumped, records>> /\ wpc[w] = "sendPM"
        /\ \A c \in Updates \ {j} : pm'[c] = pm[c]
    BY <1>1, <1>9 DEF SendPM, Step, TypeOK, j
  <2>2. OwnTraces(j)
    BY <1>1, <2>1 DEF OwnTraces, Traceless, Unlisted
  <2>3. records'[j] = "none"
    BY <1>2, <2>1
  <2>4. CASE Step(w, "sendPM", "recordSuccess")
    BY <2>2, <2>3, <2>4, StepStores DEF j
  <2>5. CASE Step(w, "sendPM", "notifyPM")
    BY <2>2, <2>3, <2>5, StepStores DEF j
  <2> QED
    BY <1>9, <2>4, <2>5 DEF SendPM
<1>10. ASSUME NEW from \in Busy, NEW to \in Recorded, NEW success \in {"success", "failure"},
              RecordDownload(w, from, success, to),
              success = "failure" => from \in Failing
       PROVE  Stores'
  <2>1. /\ UNCHANGED <<cached, pushed, bumped, pm>> /\ wpc[w] = from
        /\ records'[j] = success
        /\ \A c \in Updates \ {j} : records'[c] = records[c]
        /\ Step(w, from, to)
    BY <1>1, <1>10 DEF RecordDownload, Step, TypeOK, j
  <2>2. /\ OwnTraces(j)
        /\ Traceless(j)' <=> Traceless(j)
    BY <1>1, <2>1 DEF OwnTraces, Traceless, Unlisted, j
  <2>3. success = "failure" => Traceless(j) /\ pm[j] = "notice"
    BY <1>2, <1>10, <2>1
  <2> QED
    BY <1>10, <2>1, <2>2, <2>3, StepStores DEF j
<1>11. CASE RecordFailedDownload(w) \/ RecordFailedUpload(w) \/ RecordSuccess(w)
  BY <1>10, <1>11 DEF RecordFailedDownload, RecordFailedUpload, RecordSuccess
<1>12. CASE Cleanup(w)
  <2>1. UNCHANGED <<cached, pushed, bumped, pm, records>> /\ wpc[w] = "cleanup"
    BY <1>12 DEF Cleanup, Step
  <2> QED
    BY <1>2, <1>3, <1>12, <2>1, StepStores DEF Cleanup, j
<1> QED
  BY <1>4, <1>5, <1>6, <1>7, <1>8, <1>9, <1>11, <1>12
  DEF ProcessStep, FetchStep, PublishStep

LEMMA StoresPreserved ==
  ASSUME IInv, Stores, [Next]_vars
  PROVE  Stores'
<1> USE DEF IInv
<1>1. ASSUME NEW c \in Updates, EnqueueStep(c)
      PROVE  Stores'
  <2>1. /\ UNCHANGED <<wpc, wjob, cached, pushed, bumped, pm, records>>
        /\ call[c] \in {"none", "claimed", "full"}
        /\ \A d \in Updates \ {c} : call'[d] = call[d]
    BY <1>1 DEF EnqueueStep, EnqueueClaim, EnqueueSend, EnqueueFull, EnqueueRollback,
                storeVars, TypeOK
  <2>2. Queued' \subseteq Queued \cup {c}
    <3>1. CASE EnqueueSend(c)
      BY <3>1, AppendElements DEF EnqueueSend, TypeOK, Queued
    <3>2. CASE ~EnqueueSend(c)
      BY <1>1, <3>2
      DEF EnqueueStep, EnqueueClaim, EnqueueFull, EnqueueRollback, Queued
    <3> QED
      BY <3>1, <3>2
  <2>3. \A d \in Updates : Unseen(d)' => Unseen(d)
    BY <2>1, <2>2 DEF Unseen
  <2> QED
    BY <2>1, <2>3 DEF Stores, StoresAgree, Fresh, Traceless, Unlisted
<1>2. ASSUME NEW w \in Workers, WorkerStep(w)
      PROVE  Stores'
  <2>1. CASE Receive(w)
    <3>1. /\ UNCHANGED <<call, cached, pushed, bumped, pm, records>>
          /\ wpc'[w] = "download" /\ wjob'[w] = Head(jobs) /\ jobs' = Tail(jobs)
          /\ jobs # <<>>
          /\ \A v \in Workers \ {w} : wpc'[v] = wpc[v] /\ wjob'[v] = wjob[v]
      BY <2>1 DEF Receive, storeVars, TypeOK
    <3>2. Head(jobs) \in Queued /\ Head(jobs) \in Updates /\ Queued' \subseteq Queued
      BY <3>1, TailElements, QueuedJobs DEF Queued, TypeOK, Places
    <3>3. \A d \in Updates : Unseen(d)' => Unseen(d)
      BY <3>1, <3>2 DEF Unseen
    <3>4. Fresh(Head(jobs))
      BY <3>2 DEF Stores, Unseen
    <3> QED
      BY <3>1, <3>3, <3>4
      DEF Stores, StoresAgree, Fresh, Traceless, Unlisted, Failing, Recorded
  <2>2. CASE Stop(w) \/ Release(w)
    <3>1. /\ UNCHANGED <<call, jobs, cached, pushed, bumped, pm, records>>
          /\ wpc'[w] \in {"idle", "stopped"}
          /\ \A v \in Workers \ {w} : wpc'[v] = wpc[v] /\ wjob'[v] = wjob[v]
      BY <2>2 DEF Stop, Step, Release, storeVars, TypeOK
    <3> QED
      BY <3>1
      DEF Stores, StoresAgree, Unseen, Queued, Fresh, Traceless, Unlisted, Unpublished,
          Failing, Busy
  <2>3. CASE ProcessStep(w)
    BY <2>3, ProcessKeepsStores
  <2> QED
    BY <1>2, <2>1, <2>2, <2>3 DEF WorkerStep, ProcessStep
<1>3. ASSUME Die, UNCHANGED <<cached, pushed, bumped, pm, records>>
      PROVE  Stores'
  <2>1. Queued' = {} /\ \A w \in Workers : wpc'[w] = "stopped"
    BY <1>3, DieEmptiesPlaces DEF Die
  <2>2. \A c \in Updates : Unseen(c)' => Unseen(c)
    BY <1>3, <2>1 DEF Die, Unseen
  <2> QED
    BY <1>3, <2>1, <2>2
    DEF Stores, StoresAgree, Fresh, Traceless, Unlisted, Unpublished, Failing, Busy
<1>4. CASE Exit \/ \E w \in Workers : UploadPanics(w)
  BY <1>3, <1>4 DEF Exit, UploadPanics, storeVars
<1>5. ASSUME UNCHANGED <<call, jobs, wjob, cached, pushed, bumped, pm, records>>,
             \A w \in Workers : wpc'[w] \in {wpc[w], "idle"}
      PROVE  Stores'
  BY <1>5
  DEF Stores, StoresAgree, Unseen, Queued, Fresh, Traceless, Unlisted, Unpublished, Failing,
      Busy
<1>6. CASE Signal \/ Restart
  BY <1>5, <1>6 DEF Signal, Restart, storeVars
<1>7. CASE UNCHANGED vars
  BY <1>5, <1>7 DEF vars
<1> QED
  BY <1>1, <1>2, <1>4, <1>6, <1>7 DEF Next

LEMMA StoresAtFirst == Init => Stores
  BY PoolAssumption
  DEF Init, Stores, StoresAgree, Fresh, Traceless, Unlisted, Unpublished, Failing, Busy

\* A job that RecordDownload recorded as failed has pushed no history entry and
\* spent no version, is behind no cached file_id, and its requester got a notice and
\* no video, for any number of workers, requests, failures and deaths of the
\* process.
THEOREM FailedJobsLeaveNothing == Spec => []StoresAgree
<1>1. IInv /\ Stores /\ [Next]_vars => Stores'
  BY StoresPreserved
<1>2. Stores => StoresAgree
  BY DEF Stores
<1> QED
  BY <1>1, <1>2, StoresAtFirst, IInvHolds, PTL DEF Spec

=============================================================================
