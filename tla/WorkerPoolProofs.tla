-------------------------- MODULE WorkerPoolProofs --------------------------
(***************************************************************************)
(* What is proved of WorkerPool for every value of its constants.          *)
(*                                                                         *)
(* The argument is about places.  A job is at any time in at most one of   *)
(* three places: its own call of Enqueue, the channel, or one worker       *)
(* (Places, Pipeline).  A place is left for the next one in a single step, *)
(* so the set of jobs in a place, Owners, changes only in four actions:    *)
(* EnqueueClaim adds a job to it, EnqueueRollback and Release take one     *)
(* out, and the death of the process empties it.  These are the actions    *)
(* that change inProgress, in the same way (Claims).                       *)
(*                                                                         *)
(* The backlog is counted by the places it is in, and what the liveness    *)
(* properties rest on short of fairness is proved as well.  The last       *)
(* section shows that the pool implements DownloadService.                 *)
(***************************************************************************)
EXTENDS WorkerPool, FiniteSetTheorems, TLAPS

\* The places of process: a worker there has a job.
Busy == WorkerPC \ {"idle", "stopped"}

\* The jobs that hold a claim.
Owners == {c \in Updates : Holds(c)}

\* A worker has a job exactly while it is in process, and no worker of a
\* dead process has one.
Pipeline ==
  /\ \A w \in Workers : wjob[w] # None <=> wpc[w] \in Busy
  /\ ~alive => \A w \in Workers : wpc[w] = "stopped"

\* A job in the channel or with a worker was accepted, and is in one place.
Places ==
  /\ \A c \in Updates : c \in Queued \/ Running(c) => call[c] = "true"
  /\ IsInjective(jobs)
  /\ \A v, w \in Workers : wjob[v] = wjob[w] /\ wjob[v] # None => v = w
  /\ \A w \in Workers : wjob[w] \notin Queued

\* The owners have URLs of their own, and these are the keys of inProgress.
Claims ==
  /\ \A c, d \in Owners : req[c].url = req[d].url => c = d
  /\ inProgress = {req[c].url : c \in Owners}

IInv == TypeOK /\ Pipeline /\ Places /\ Claims

-----------------------------------------------------------------------------
(* The channel as a set *)

\* Sending adds the job to the elements of the channel.
LEMMA AppendElements ==
  ASSUME NEW S, NEW s \in Seq(S), NEW e \in S
  PROVE  /\ Append(s, e) \in Seq(S)
         /\ Range(Append(s, e)) = Range(s) \cup {e}
         /\ IsInjective(s) /\ e \notin Range(s) => IsInjective(Append(s, e))
<1> DEFINE t == Append(s, e)
<1>1. /\ t \in Seq(S)
      /\ Len(t) = Len(s) + 1
      /\ DOMAIN s = 1 .. Len(s)
      /\ DOMAIN t = 1 .. Len(s) + 1
      /\ Len(s) \in Nat
      /\ \A i \in 1 .. Len(s) : t[i] = s[i]
      /\ t[Len(s) + 1] = e
  OBVIOUS
<1> HIDE DEF t
<1>2. Range(t) = Range(s) \cup {e}
  <2>1. ASSUME NEW x \in Range(t)
        PROVE  x \in Range(s) \cup {e}
    <3>1. PICK i \in DOMAIN t : x = t[i]
      BY DEF Range
    <3>2. i \in 1 .. Len(s) \/ i = Len(s) + 1
      BY <1>1
    <3> QED  BY <3>1, <3>2, <1>1 DEF Range
  <2>2. ASSUME NEW x \in Range(s) \cup {e}
        PROVE  x \in Range(t)
    <3>1. CASE x = e
      BY <3>1, <1>1 DEF Range
    <3>2. CASE x \in Range(s)
      BY <3>2, <1>1 DEF Range
    <3> QED  BY <3>1, <3>2
  <2> QED  BY <2>1, <2>2
<1>3. ASSUME IsInjective(s), e \notin Range(s)
      PROVE  IsInjective(t)
  BY <1>1, <1>3 DEF IsInjective, Range
<1> QED  BY <1>1, <1>2, <1>3 DEF t

\* Receiving takes the oldest job out of the elements of the channel, if the
\* channel holds no job twice.
LEMMA TailElements ==
  ASSUME NEW S, NEW s \in Seq(S), s # <<>>, IsInjective(s)
  PROVE  /\ Tail(s) \in Seq(S)
         /\ Head(s) \in S
         /\ Head(s) \in Range(s)
         /\ Range(Tail(s)) = Range(s) \ {Head(s)}
         /\ IsInjective(Tail(s))
<1> DEFINE t == Tail(s)
           h == Head(s)
<1>1. /\ t \in Seq(S)
      /\ Len(s) \in Nat \ {0}
      /\ DOMAIN s = 1 .. Len(s)
      /\ DOMAIN t = 1 .. Len(s) - 1
      /\ \A i \in 1 .. Len(s) - 1 : t[i] = s[i + 1]
      /\ h = s[1]
      /\ h \in S
  OBVIOUS
<1> HIDE DEF t, h
<1>2. h \in Range(s)
  BY <1>1 DEF Range
<1>3. Range(t) = Range(s) \ {h}
  <2>1. ASSUME NEW i \in DOMAIN t
        PROVE  t[i] \in Range(s) \ {h}
    <3>1. i + 1 \in DOMAIN s /\ 1 \in DOMAIN s /\ i + 1 # 1
      BY <1>1
    <3>2. s[i + 1] # s[1]
      BY <3>1 DEF IsInjective
    <3> QED  BY <3>1, <3>2, <1>1 DEF Range
  <2>2. ASSUME NEW i \in DOMAIN s, s[i] # h
        PROVE  s[i] \in Range(t)
    <3>1. i - 1 \in DOMAIN t /\ t[i - 1] = s[i]
      BY <2>2, <1>1
    <3> QED  BY <3>1 DEF Range
  <2> QED  BY <2>1, <2>2 DEF Range
<1>4. IsInjective(t)
  <2> SUFFICES ASSUME NEW i \in DOMAIN t, NEW j \in DOMAIN t, t[i] = t[j]
               PROVE  i = j
    BY DEF IsInjective
  <2>1. i + 1 \in DOMAIN s /\ j + 1 \in DOMAIN s /\ s[i + 1] = s[j + 1]
    BY <1>1
  <2>2. i + 1 = j + 1
    BY <2>1 DEF IsInjective
  <2> QED  BY <2>2, <1>1
<1> QED  BY <1>1, <1>2, <1>3, <1>4 DEF t, h

\* What is in the channel is a job, and nothing is in an empty channel.
LEMMA QueuedJobs ==
  /\ jobs \in Seq(Updates) => Queued \subseteq Updates
  /\ jobs = <<>> => Queued = {}
  BY DEF Queued, Range

\* The death of the process empties every place.
LEMMA DieEmptiesPlaces ==
  ASSUME Die
  PROVE  /\ Queued' = {}
         /\ \A c \in Updates : ~Running(c)'
         /\ IsInjective(jobs')
<1>1. jobs' = <<>> /\ wjob' = [w \in Workers |-> None]
  BY DEF Die
<1> QED  BY <1>1, PoolAssumption DEF Queued, Range, Running, IsInjective


-----------------------------------------------------------------------------
(* Types *)

\* The two halves of TypeOK: what is in memory, and what is outside.
PoolTypeOK ==
  /\ req \in [Updates -> [url : URLs, user : Users]]
  /\ call \in [Updates -> CallState]
  /\ inProgress \in SUBSET URLs
  /\ jobs \in Seq(Updates)
  /\ Len(jobs) <= Capacity
  /\ wpc \in [Workers -> WorkerPC]
  /\ wjob \in [Workers -> Updates \cup {None}]
  /\ ctxDone \in BOOLEAN
  /\ alive \in BOOLEAN

StoreTypeOK ==
  /\ tmpDirs \in SUBSET Updates
  /\ cached \in [URLs -> Updates \cup {None}]
  /\ pushed \in SUBSET Updates
  /\ bumped \in SUBSET Updates
  /\ pm \in [Updates -> {"none", "video", "notice"}]
  /\ records \in [Updates -> {"none", "success", "failure"}]

LEMMA TypeHalves == TypeOK <=> PoolTypeOK /\ StoreTypeOK
  BY DEF TypeOK, PoolTypeOK, StoreTypeOK

\* The steps of process between Receive and Release.
ProcessStep(w) == FetchStep(w) \/ PublishStep(w) \/ Cleanup(w)

\* What these steps have in common: the worker stays in process, and what the
\* goroutines share is not touched.
InProcess(w) ==
  /\ alive
  /\ wpc[w] \in Busy
  /\ \E to \in Busy : wpc' = [wpc EXCEPT ![w] = to]
  /\ UNCHANGED <<req, call, inProgress, jobs, wjob, ctxDone, alive>>

LEMMA StepInProcess ==
  ASSUME NEW w \in Workers, NEW from \in Busy, NEW to \in Busy,
         Step(w, from, to)
  PROVE  InProcess(w)
  BY DEF Step, InProcess

LEMMA ProcessStaysInside ==
  ASSUME NEW w \in Workers, ProcessStep(w)
  PROVE  InProcess(w)
<1>1. CASE FetchStep(w)
  BY <1>1, StepInProcess
  DEF FetchStep, MkdirTemp, YtdlpSucceeds, YtdlpFails, NotifyDownload,
      RecordFailedDownload, Upload, NotifyUpload, RecordFailedUpload,
      Notify, RecordDownload, Busy, WorkerPC
<1>2. CASE PublishStep(w)
  BY <1>2, StepInProcess
  DEF PublishStep, SetCachedVideo, AddVideoHistory, IncrInlineVersion, SendPM,
      NotifyPM, RecordSuccess, Notify, RecordDownload, Busy, WorkerPC
<1>3. CASE Cleanup(w)
  BY <1>3, StepInProcess DEF Cleanup, Busy, WorkerPC
<1> QED  BY <1>1, <1>2, <1>3 DEF ProcessStep

\* A worker in process has a job.
LEMMA BusyHasJob ==
  ASSUME TypeOK, Pipeline, NEW w \in Workers, wpc[w] \in Busy
  PROVE  wjob[w] \in Updates /\ Running(wjob[w]) /\ wjob[w] \in Owners
  BY DEF TypeOK, Pipeline, Running, Owners, Holds

LEMMA ProcessKeepsStoreTypes ==
  ASSUME TypeOK, Pipeline, NEW w \in Workers, ProcessStep(w)
  PROVE  StoreTypeOK'
<1>1. StoreTypeOK /\ wjob[w] \in Updates
  BY ProcessStaysInside, BusyHasJob, TypeHalves DEF InProcess
<1>2. req[wjob[w]].url \in URLs /\ req[wjob[w]].user \in Users
  BY <1>1 DEF TypeOK
<1> USE <1>1, <1>2 DEF StoreTypeOK
<1>3. CASE MkdirTemp(w)
  BY <1>3 DEF MkdirTemp
<1>4. CASE YtdlpSucceeds(w)
  BY <1>4 DEF YtdlpSucceeds, storeVars
<1>5. CASE YtdlpFails(w) \/ Cleanup(w)
  BY <1>5 DEF YtdlpFails, Cleanup
<1>6. CASE Upload(w)
  BY <1>6 DEF Upload, storeVars
<1>7. CASE SetCachedVideo(w)
  BY <1>7 DEF SetCachedVideo
<1>8. CASE AddVideoHistory(w)
  BY <1>8 DEF AddVideoHistory
<1>9. CASE IncrInlineVersion(w)
  BY <1>9 DEF IncrInlineVersion
<1>10. CASE SendPM(w)
  BY <1>10 DEF SendPM
<1>11. CASE NotifyDownload(w) \/ NotifyUpload(w) \/ NotifyPM(w)
  BY <1>11 DEF NotifyDownload, NotifyUpload, NotifyPM, Notify
<1>12. CASE RecordFailedDownload(w) \/ RecordFailedUpload(w) \/ RecordSuccess(w)
  BY <1>12 DEF RecordFailedDownload, RecordFailedUpload, RecordSuccess,
               RecordDownload
<1> QED  BY <1>3, <1>4, <1>5, <1>6, <1>7, <1>8, <1>9, <1>10, <1>11, <1>12
         DEF ProcessStep, FetchStep, PublishStep

\* Every step keeps the types.
LEMMA TypesPreserved ==
  ASSUME TypeOK, Pipeline, [Next]_vars
  PROVE  TypeOK'
<1> SUFFICES PoolTypeOK' /\ StoreTypeOK'
  BY DEF TypeOK, PoolTypeOK, StoreTypeOK
<1>1. PoolTypeOK /\ StoreTypeOK
  BY TypeHalves
<1>2. ASSUME NEW c \in Updates, EnqueueStep(c)
      PROVE  PoolTypeOK' /\ StoreTypeOK'
  <2>1. StoreTypeOK'
    BY <1>1, <1>2
    DEF EnqueueStep, EnqueueClaim, EnqueueSend, EnqueueFull, EnqueueRollback,
        storeVars, StoreTypeOK
  <2>2. CASE EnqueueClaim(c)
    BY <1>1, <2>1, <2>2 DEF EnqueueClaim, PoolTypeOK, CallState
  <2>3. CASE EnqueueSend(c)
    <3>1. jobs' \in Seq(Updates) /\ Len(jobs') <= Capacity
      BY <1>1, <2>3, PoolAssumption DEF EnqueueSend, PoolTypeOK
    <3> QED  BY <1>1, <2>1, <2>3, <3>1 DEF EnqueueSend, PoolTypeOK, CallState
  <2>4. CASE EnqueueFull(c)
    BY <1>1, <2>1, <2>4 DEF EnqueueFull, PoolTypeOK, CallState
  <2>5. CASE EnqueueRollback(c)
    BY <1>1, <2>1, <2>5 DEF EnqueueRollback, PoolTypeOK, CallState
  <2> QED  BY <1>2, <2>1, <2>2, <2>3, <2>4, <2>5 DEF EnqueueStep
<1>3. ASSUME NEW w \in Workers, WorkerStep(w)
      PROVE  PoolTypeOK' /\ StoreTypeOK'
  <2>1. CASE Receive(w)
    <3>1. /\ Tail(jobs) \in Seq(Updates)
          /\ Len(Tail(jobs)) <= Capacity
          /\ Head(jobs) \in Updates
      BY <1>1, <2>1, PoolAssumption DEF Receive, PoolTypeOK
    <3>2. StoreTypeOK'
      BY <1>1, <2>1 DEF Receive, storeVars, StoreTypeOK
    <3> QED  BY <1>1, <2>1, <3>1, <3>2 DEF Receive, PoolTypeOK, WorkerPC
  <2>2. CASE Stop(w)
    BY <1>1, <2>2 DEF Stop, Step, storeVars, PoolTypeOK, StoreTypeOK, WorkerPC
  <2>3. CASE ProcessStep(w)
    <3>1. PoolTypeOK'
      BY <1>1, <2>3, ProcessStaysInside DEF InProcess, PoolTypeOK, Busy
    <3> QED  BY <2>3, <3>1, ProcessKeepsStoreTypes
  <2>4. CASE Release(w)
    BY <1>1, <2>4 DEF Release, storeVars, PoolTypeOK, StoreTypeOK, WorkerPC
  <2> QED  BY <1>3, <2>1, <2>2, <2>3, <2>4 DEF WorkerStep, ProcessStep
<1>4. ASSUME Die
      PROVE  PoolTypeOK'
  <2>1. jobs' \in Seq(Updates) /\ Len(jobs') <= Capacity
    BY <1>4, PoolAssumption DEF Die
  <2>2. call' \in [Updates -> CallState]
    BY <1>1, <1>4 DEF Die, PoolTypeOK, CallState
  <2> QED  BY <1>1, <1>4, <2>1, <2>2 DEF Die, PoolTypeOK, WorkerPC
<1>5. ASSUME NEW w \in Workers, UploadPanics(w)
      PROVE  PoolTypeOK' /\ StoreTypeOK'
  BY <1>1, <1>4, <1>5 DEF UploadPanics, StoreTypeOK
<1>6. CASE Signal
  BY <1>1, <1>6 DEF Signal, storeVars, PoolTypeOK, StoreTypeOK
<1>7. CASE Exit
  BY <1>1, <1>4, <1>7 DEF Exit, storeVars, StoreTypeOK
<1>8. CASE Restart
  BY <1>1, <1>8
  DEF Restart, storeVars, PoolTypeOK, StoreTypeOK, WorkerPC
<1>9. CASE UNCHANGED vars
  BY <1>1, <1>9 DEF vars, PoolTypeOK, StoreTypeOK
<1> QED  BY <1>2, <1>3, <1>5, <1>6, <1>7, <1>8, <1>9 DEF Next

-----------------------------------------------------------------------------
(* Places *)

LEMMA PipelinePreserved ==
  ASSUME TypeOK, Pipeline, [Next]_vars
  PROVE  Pipeline'
<1>1. ASSUME NEW c \in Updates, EnqueueStep(c)
      PROVE  Pipeline'
  BY <1>1
  DEF Pipeline, EnqueueStep, EnqueueClaim, EnqueueSend, EnqueueFull,
      EnqueueRollback
<1>2. ASSUME NEW w \in Workers, WorkerStep(w)
      PROVE  Pipeline'
  <2>1. CASE Receive(w)
    <3>1. Head(jobs) \in Updates
      BY <2>1 DEF Receive, TypeOK
    <3>2. Head(jobs) # None
      BY <3>1, PoolAssumption
    <3> QED  BY <2>1, <3>2 DEF Receive, Pipeline, TypeOK, Busy, WorkerPC
  <2>2. CASE Stop(w)
    BY <2>2 DEF Stop, Step, Pipeline, TypeOK, Busy, WorkerPC
  <2>3. CASE ProcessStep(w)
    <3>1. InProcess(w)
      BY <2>3, ProcessStaysInside
    <3> QED  BY <3>1 DEF InProcess, Pipeline, TypeOK
  <2>4. CASE Release(w)
    BY <2>4 DEF Release, Pipeline, TypeOK, Busy, WorkerPC
  <2> QED  BY <1>2, <2>1, <2>2, <2>3, <2>4 DEF WorkerStep, ProcessStep
<1>3. ASSUME Die
      PROVE  Pipeline'
  BY <1>3 DEF Die, Pipeline, Busy
<1>4. ASSUME NEW w \in Workers, UploadPanics(w)
      PROVE  Pipeline'
  BY <1>3, <1>4 DEF UploadPanics
<1>5. CASE Signal
  BY <1>5 DEF Signal, Pipeline
<1>6. CASE Exit
  BY <1>3, <1>6 DEF Exit
<1>7. CASE Restart
  BY <1>7 DEF Restart, Pipeline, Busy
<1>8. CASE UNCHANGED vars
  BY <1>8 DEF vars, Pipeline
<1> QED  BY <1>1, <1>2, <1>4, <1>5, <1>6, <1>7, <1>8 DEF Next

\* Places speaks of call, jobs and wjob only.
LEMMA PlacesDepends ==
  ASSUME Places, UNCHANGED <<call, jobs, wjob>>
  PROVE  Places'
  BY DEF Places, Queued, Running

LEMMA PlacesPreserved ==
  ASSUME TypeOK, Pipeline, Places, [Next]_vars
  PROVE  Places'
<1>1. ASSUME NEW c \in Updates, EnqueueStep(c)
      PROVE  Places'
  <2>1. call[c] # "true" /\ c \notin Queued /\ ~Running(c)
    BY <1>1
    DEF EnqueueStep, EnqueueClaim, EnqueueSend, EnqueueFull, EnqueueRollback,
        Places
  <2>2. CASE EnqueueSend(c)
    <3>1. jobs \in Seq(Updates) /\ jobs' = Append(jobs, c)
      BY <2>2 DEF EnqueueSend, TypeOK
    <3>4. Queued' = Queued \cup {c} /\ IsInjective(jobs')
      BY <2>1, <3>1, AppendElements DEF Places, Queued
    <3>5. /\ UNCHANGED wjob
          /\ call' = [call EXCEPT ![c] = "true"]
      BY <2>2 DEF EnqueueSend
    <3>6. \A w \in Workers : wjob[w] # c
      BY <2>1 DEF Running
    <3>7. \A d \in Updates : (d \in Queued \/ Running(d))' => call'[d] = "true"
      BY <3>4, <3>5 DEF Places, Running, TypeOK
    <3>8. \A w \in Workers : wjob'[w] \notin Queued'
      BY <3>4, <3>5, <3>6 DEF Places
    <3>9. \A v, w \in Workers : wjob'[v] = wjob'[w] /\ wjob'[v] # None => v = w
      BY <3>5 DEF Places
    <3> QED  BY <3>4, <3>7, <3>8, <3>9 DEF Places
  <2>3. CASE ~EnqueueSend(c)
    <3>1. /\ UNCHANGED <<jobs, wjob>>
          /\ \A d \in Updates : d # c => call'[d] = call[d]
      BY <1>1, <2>3
      DEF EnqueueStep, EnqueueClaim, EnqueueFull, EnqueueRollback, TypeOK
    <3> QED  BY <2>1, <3>1 DEF Places, Queued, Running
  <2> QED  BY <2>2, <2>3
<1>2. ASSUME NEW w \in Workers, WorkerStep(w)
      PROVE  Places'
  <2>1. CASE Receive(w)
    <3>1. jobs \in Seq(Updates) /\ jobs # <<>> /\ jobs' = Tail(jobs)
      BY <2>1 DEF Receive, TypeOK
    <3>3. /\ Head(jobs) \in Queued
          /\ Head(jobs) \in Updates
          /\ Queued' = Queued \ {Head(jobs)}
          /\ IsInjective(jobs')
      BY <3>1, TailElements DEF Places, Queued
    <3>4. /\ UNCHANGED call
          /\ wjob' = [wjob EXCEPT ![w] = Head(jobs)]
      BY <2>1 DEF Receive
    <3>5. wjob'[w] = Head(jobs) /\ \A v \in Workers \ {w} : wjob'[v] = wjob[v]
      BY <3>4 DEF TypeOK
    <3>6. \A v \in Workers : wjob[v] # Head(jobs)
      BY <3>3 DEF Places
    <3>7. \A c \in Updates : (c \in Queued \/ Running(c))' => call'[c] = "true"
      BY <3>3, <3>4, <3>5 DEF Places, Running
    <3>8. \A u, v \in Workers : wjob'[u] = wjob'[v] /\ wjob'[u] # None => u = v
      BY <3>5, <3>6 DEF Places
    <3>9. \A v \in Workers : wjob'[v] \notin Queued'
      BY <3>3, <3>5 DEF Places
    <3> QED  BY <3>3, <3>7, <3>8, <3>9 DEF Places
  <2>2. CASE Stop(w)
    BY <2>2, PlacesDepends DEF Stop, Step
  <2>3. CASE ProcessStep(w)
    BY <2>3, ProcessStaysInside, PlacesDepends DEF InProcess
  <2>4. CASE Release(w)
    <3>1. None \notin Queued
      BY PoolAssumption, QueuedJobs DEF TypeOK
    <3>2. /\ UNCHANGED <<call, jobs>>
          /\ wjob' = [wjob EXCEPT ![w] = None]
      BY <2>4 DEF Release
    <3> QED  BY <3>1, <3>2, PoolAssumption DEF Places, Queued, Running, TypeOK
  <2> QED  BY <1>2, <2>1, <2>2, <2>3, <2>4 DEF WorkerStep, ProcessStep
<1>3. ASSUME Die
      PROVE  Places'
  BY <1>3, DieEmptiesPlaces DEF Die, Places
<1>4. ASSUME NEW w \in Workers, UploadPanics(w)
      PROVE  Places'
  BY <1>3, <1>4 DEF UploadPanics
<1>5. CASE Signal
  BY <1>5, PlacesDepends DEF Signal
<1>6. CASE Exit
  BY <1>3, <1>6 DEF Exit
<1>7. CASE Restart
  BY <1>7, PlacesDepends DEF Restart
<1>8. CASE UNCHANGED vars
  BY <1>8, PlacesDepends DEF vars
<1> QED  BY <1>1, <1>2, <1>4, <1>5, <1>6, <1>7, <1>8 DEF Next

-----------------------------------------------------------------------------
(* Claims *)

\* How the three kinds of step that touch the owners keep Claims.
LEMMA ClaimKept ==
  ASSUME Claims, Owners' = Owners, UNCHANGED <<req, inProgress>>
  PROVE  Claims'
  BY DEF Claims

LEMMA ClaimTaken ==
  ASSUME Claims, NEW c \in Updates, req[c].url \notin inProgress,
         Owners' = Owners \cup {c},
         inProgress' = inProgress \cup {req[c].url},
         UNCHANGED req
  PROVE  Claims'
<1>1. \A d \in Owners : req[d].url # req[c].url
  BY DEF Claims
<1>2. \A d, e \in Owners' : req'[d].url = req'[e].url => d = e
  BY <1>1 DEF Claims
<1>3. inProgress' = {req'[d].url : d \in Owners'}
  BY DEF Claims
<1> QED  BY <1>2, <1>3 DEF Claims

LEMMA ClaimDropped ==
  ASSUME Claims, NEW c \in Owners,
         Owners' = Owners \ {c},
         inProgress' = inProgress \ {req[c].url},
         UNCHANGED req
  PROVE  Claims'
<1>1. \A d \in Owners : req[d].url = req[c].url => d = c
  BY DEF Claims
<1>2. \A d, e \in Owners' : req'[d].url = req'[e].url => d = e
  BY DEF Claims
<1>3. inProgress' = {req'[d].url : d \in Owners'}
  BY <1>1 DEF Claims
<1> QED  BY <1>2, <1>3 DEF Claims

\* A step that leaves call, the channel and the workers' jobs alone leaves the
\* owners alone.
LEMMA OwnersDepend ==
  ASSUME UNCHANGED <<call, jobs, wjob>>
  PROVE  Owners' = Owners
  BY DEF Owners, Holds, Queued, Running

\* A job keeps its claim on its way from Enqueue to the channel and from there
\* to a worker, and gives it up when the worker is done with it.
LEMMA SendKeepsOwners ==
  ASSUME TypeOK, Places, NEW c \in Updates, EnqueueSend(c)
  PROVE  Owners' = Owners
<1>1. /\ UNCHANGED wjob
      /\ call[c] = "claimed"
      /\ \A d \in Updates \ {c} : call'[d] = call[d]
  BY DEF EnqueueSend, TypeOK
<1>2. Queued' = Queued \cup {c}
  BY AppendElements DEF EnqueueSend, TypeOK, Queued
<1>3. c \in Owners /\ c \in Owners'
  BY <1>1, <1>2 DEF Owners, Holds
<1>4. \A d \in Updates \ {c} : Holds(d)' <=> Holds(d)
  BY <1>1, <1>2 DEF Holds, Running
<1> QED  BY <1>3, <1>4 DEF Owners

LEMMA ReceiveKeepsOwners ==
  ASSUME TypeOK, Pipeline, Places, NEW w \in Workers, Receive(w)
  PROVE  Owners' = Owners
<1>1. /\ UNCHANGED call
      /\ wjob' = [wjob EXCEPT ![w] = Head(jobs)]
      /\ jobs \in Seq(Updates) /\ jobs # <<>> /\ jobs' = Tail(jobs)
      /\ wjob[w] = None
  BY DEF Receive, TypeOK, Pipeline, Busy
<1>2. Queued' = Queued \ {Head(jobs)} /\ Head(jobs) \in Queued
  BY <1>1, TailElements DEF Places, Queued
<1>3. wjob'[w] = Head(jobs) /\ \A v \in Workers \ {w} : wjob'[v] = wjob[v]
  BY <1>1 DEF TypeOK
<1>4. \A c \in Updates : Running(c)' <=> Running(c) \/ c = Head(jobs)
  BY <1>1, <1>3, PoolAssumption DEF Running
<1> QED  BY <1>1, <1>2, <1>4 DEF Owners, Holds

LEMMA ReleaseDropsOwner ==
  ASSUME TypeOK, Pipeline, Places, NEW w \in Workers, Release(w)
  PROVE  wjob[w] \in Owners /\ Owners' = Owners \ {wjob[w]}
<1> DEFINE c == wjob[w]
<1>1. c \in Owners /\ c \in Updates
  BY BusyHasJob DEF Release, Busy, WorkerPC
<1>2. UNCHANGED <<call, jobs>> /\ wjob' = [wjob EXCEPT ![w] = None]
  BY DEF Release
<1>3. wjob'[w] = None /\ \A v \in Workers \ {w} : wjob'[v] = wjob[v]
  BY <1>2 DEF TypeOK
<1>4. Running(c) /\ c # None /\ call[c] = "true" /\ c \notin Queued
  BY <1>1, PoolAssumption DEF Places, Running
<1>5. \A d \in Updates : Running(d)' <=> Running(d) /\ d # c
  BY <1>3, <1>4, PoolAssumption DEF Places, Running
<1>6. Owners' = Owners \ {c}
  BY <1>2, <1>4, <1>5 DEF Owners, Holds, Queued
<1> QED  BY <1>1, <1>6

\* The claims follow the owners through every step.
LEMMA ClaimsPreserved ==
  ASSUME TypeOK, Pipeline, Places, Claims, [Next]_vars
  PROVE  Claims'
<1>1. ASSUME NEW c \in Updates, EnqueueStep(c)
      PROVE  Claims'
  <2>1. c \notin Queued /\ ~Running(c)
    BY <1>1
    DEF EnqueueStep, EnqueueClaim, EnqueueSend, EnqueueFull, EnqueueRollback,
        Places
  <2>2. CASE EnqueueClaim(c)
    <3>1. /\ UNCHANGED <<req, jobs, wjob>>
          /\ call[c] = "none"
          /\ \A d \in Updates \ {c} : call'[d] = call[d]
      BY <2>2 DEF EnqueueClaim, TypeOK
    <3>2. CASE req[c].url \in inProgress
      <4>1. call'[c] = "duplicate" /\ inProgress' = inProgress
        BY <2>2, <3>2 DEF EnqueueClaim, TypeOK
      <4>2. Owners' = Owners
        BY <2>1, <3>1, <4>1 DEF Owners, Holds, Queued, Running
      <4> QED  BY <3>1, <4>1, <4>2, ClaimKept
    <3>3. CASE req[c].url \notin inProgress
      <4>1. call'[c] = "claimed" /\ inProgress' = inProgress \cup {req[c].url}
        BY <2>2, <3>3 DEF EnqueueClaim, TypeOK
      <4>2. Owners' = Owners \cup {c}
        BY <2>1, <3>1, <4>1 DEF Owners, Holds, Queued, Running
      <4> QED  BY <3>1, <3>3, <4>1, <4>2, ClaimTaken
    <3> QED  BY <3>2, <3>3
  <2>3. CASE EnqueueSend(c)
    BY <2>3, SendKeepsOwners, ClaimKept DEF EnqueueSend
  <2>4. CASE EnqueueFull(c)
    <3>1. /\ UNCHANGED <<req, inProgress, jobs, wjob>>
          /\ call[c] = "claimed" /\ call'[c] = "full"
          /\ \A d \in Updates \ {c} : call'[d] = call[d]
      BY <2>4 DEF EnqueueFull, TypeOK
    <3>2. Owners' = Owners
      BY <3>1 DEF Owners, Holds, Queued, Running
    <3> QED  BY <3>1, <3>2, ClaimKept
  <2>5. CASE EnqueueRollback(c)
    <3>1. /\ UNCHANGED <<req, jobs, wjob>>
          /\ inProgress' = inProgress \ {req[c].url}
          /\ call[c] = "full" /\ call'[c] = "overflow"
          /\ \A d \in Updates \ {c} : call'[d] = call[d]
      BY <2>5 DEF EnqueueRollback, TypeOK
    <3>2. c \in Owners /\ Owners' = Owners \ {c}
      BY <2>1, <3>1 DEF Owners, Holds, Queued, Running
    <3> QED  BY <3>1, <3>2, ClaimDropped
  <2> QED  BY <1>1, <2>2, <2>3, <2>4, <2>5 DEF EnqueueStep
<1>2. ASSUME NEW w \in Workers, WorkerStep(w)
      PROVE  Claims'
  <2>1. CASE Receive(w)
    BY <2>1, ReceiveKeepsOwners, ClaimKept DEF Receive
  <2>2. CASE Stop(w)
    BY <2>2, OwnersDepend, ClaimKept DEF Stop, Step
  <2>3. CASE ProcessStep(w)
    BY <2>3, ProcessStaysInside, OwnersDepend, ClaimKept DEF InProcess
  <2>4. CASE Release(w)
    BY <2>4, ReleaseDropsOwner, ClaimDropped DEF Release
  <2> QED  BY <1>2, <2>1, <2>2, <2>3, <2>4 DEF WorkerStep, ProcessStep
<1>3. ASSUME Die
      PROVE  Claims'
  <2>1. Queued' = {} /\ \A c \in Updates : ~Running(c)'
    BY <1>3, DieEmptiesPlaces
  <2>2. \A c \in Updates : call'[c] \notin {"claimed", "full"}
    BY <1>3 DEF Die, Holds
  <2>3. Owners' = {}
    BY <2>1, <2>2 DEF Owners, Holds
  <2> QED  BY <1>3, <2>3 DEF Die, Claims
<1>4. ASSUME NEW w \in Workers, UploadPanics(w)
      PROVE  Claims'
  BY <1>3, <1>4 DEF UploadPanics
<1>5. CASE Signal
  BY <1>5, OwnersDepend, ClaimKept DEF Signal
<1>6. CASE Exit
  BY <1>3, <1>6 DEF Exit
<1>7. CASE Restart
  BY <1>7, OwnersDepend, ClaimKept DEF Restart
<1>8. CASE UNCHANGED vars
  BY <1>8, OwnersDepend, ClaimKept DEF vars
<1> QED  BY <1>1, <1>2, <1>4, <1>5, <1>6, <1>7, <1>8 DEF Next

-----------------------------------------------------------------------------
(* The invariant and what follows from it *)

LEMMA IInvAtFirst == Init => IInv
<1> SUFFICES ASSUME Init
             PROVE  IInv
  OBVIOUS
<1>1. TypeOK
  <2>1. jobs \in Seq(Updates) /\ Len(jobs) <= Capacity
    BY PoolAssumption DEF Init
  <2> QED  BY <2>1 DEF Init, TypeOK, CallState, WorkerPC
<1>2. Pipeline
  BY DEF Init, Pipeline, Busy
<1>3. Queued = {} /\ \A c \in Updates : ~Running(c)
  BY PoolAssumption, QueuedJobs DEF Init, Running
<1>4. Places
  BY <1>3 DEF Init, Places, IsInjective
<1>5. Owners = {}
  BY <1>3 DEF Init, Owners, Holds
<1>6. Claims
  BY <1>5 DEF Init, Claims
<1> QED  BY <1>1, <1>2, <1>4, <1>6 DEF IInv

LEMMA IInvKept == IInv /\ [Next]_vars => IInv'
  BY TypesPreserved, PipelinePreserved, PlacesPreserved, ClaimsPreserved
  DEF IInv

LEMMA IInvHolds == Spec => []IInv
  BY IInvAtFirst, IInvKept, PTL DEF Spec

\* The variables keep to their types, and the channel never holds more jobs
\* than its buffer has room for.
THEOREM TypeCorrect == Spec => []TypeOK
<1>1. IInv => TypeOK
  BY DEF IInv
<1> QED  BY <1>1, IInvHolds, PTL

\* A URL is downloaded for one job at a time, and a job is in one place at a
\* time: LoadOrStore in Enqueue, its rollback and the deferred Delete of
\* process exclude each other however they are interleaved.
THEOREM OneFlightPerURL == Spec => []SingleFlight
<1>1. IInv => SingleFlight
  BY DEF IInv, Claims, Places, Owners, SingleFlight
<1> QED  BY <1>1, IInvHolds, PTL

\* inProgress holds the URLs of the jobs in flight and no others: no URL is
\* blocked by a job that is gone, and no job in flight is unprotected.
THEOREM NoClaimIsLost == Spec => []ClaimsAreOwned
<1>1. IInv => ClaimsAreOwned
  BY DEF IInv, Claims, Owners, ClaimsAreOwned
<1> QED  BY <1>1, IInvHolds, PTL

\* A value that appears in the cache is the job of a worker that holds the claim.
Guarded ==
  \A u \in URLs : cached'[u] \notin {cached[u], None} =>
    /\ u \in inProgress
    /\ Holds(cached'[u])
    /\ req[cached'[u]].url = u

LEMMA WritesAreGuarded == IInv /\ [Next]_vars => Guarded
<1> SUFFICES ASSUME IInv, [Next]_vars,
                    NEW u \in URLs, cached'[u] \notin {cached[u], None}
             PROVE  /\ u \in inProgress
                    /\ Holds(cached'[u])
                    /\ req[cached'[u]].url = u
  BY DEF Guarded
<1>1. cached' # cached
  OBVIOUS
<1>2. PICK w \in Workers : SetCachedVideo(w)
  BY <1>1
  DEF Next, vars, storeVars, EnqueueStep, EnqueueClaim, EnqueueSend,
      EnqueueFull, EnqueueRollback, WorkerStep, Receive, Stop, FetchStep,
      PublishStep, Cleanup, Release, MkdirTemp, YtdlpSucceeds, YtdlpFails,
      Upload, AddVideoHistory, IncrInlineVersion, SendPM, Notify,
      NotifyDownload, NotifyUpload, NotifyPM, RecordDownload,
      RecordFailedDownload, RecordFailedUpload, RecordSuccess,
      UploadPanics, Signal, Exit, Restart
<1>3. wjob[w] \in Owners
  BY <1>2, BusyHasJob DEF IInv, SetCachedVideo, Step, Busy, WorkerPC
<1>4. u = req[wjob[w]].url /\ cached'[u] = wjob[w]
  BY <1>1, <1>2 DEF SetCachedVideo, IInv, TypeOK
<1>5. u \in inProgress
  BY <1>3, <1>4 DEF IInv, Claims
<1> QED  BY <1>3, <1>4, <1>5 DEF Owners

\* A worker writes to the cache under the claim of its own job only, so the
\* write of one download never overwrites that of a later one.
THEOREM CacheWritesAreClaimed == Spec => CacheWriteUnderClaim
<1>1. Spec => [][Guarded]_vars
  BY WritesAreGuarded, IInvHolds, PTL DEF Spec
<1> QED  BY <1>1 DEF CacheWriteUnderClaim, Guarded

-----------------------------------------------------------------------------
(* Download directories *)

\* The places of a worker whose job has a directory on disk.
WithDir == {"ytdlp", "upload", "setCached", "addHistory", "incrVersion",
            "sendPM", "notifyPM", "recordSuccess", "notifyUpload",
            "recordUpload", "cleanup"}

HasDir(c) == \E w \in Workers : wjob[w] = c /\ wpc[w] \in WithDir

\* A directory belongs to a job in one of these places, or to one that died
\* with its process.
Dirs == \A c \in tmpDirs : call[c] = "lost" \/ HasDir(c)

\* A step of process that leaves the disk alone and takes the worker to a
\* place with a directory, or out of one without, keeps Dirs.
LEMMA DirsKept ==
  ASSUME TypeOK, Dirs, NEW w \in Workers, NEW from, NEW to,
         Step(w, from, to), from \in WithDir => to \in WithDir,
         UNCHANGED tmpDirs
  PROVE  Dirs'
  BY DEF Dirs, HasDir, Step, TypeOK

\* A step of process that removes the directory of its job keeps Dirs.
LEMMA DirsRemoved ==
  ASSUME TypeOK, Dirs, NEW w \in Workers, NEW from, NEW to,
         Step(w, from, to), tmpDirs' = tmpDirs \ {wjob[w]}
  PROVE  Dirs'
  BY DEF Dirs, HasDir, Step, TypeOK

LEMMA ProcessKeepsDirs ==
  ASSUME TypeOK, Dirs, NEW w \in Workers, ProcessStep(w)
  PROVE  Dirs'
<1>1. CASE MkdirTemp(w)
  <2>1. CASE Step(w, "download", "ytdlp") /\ tmpDirs' = tmpDirs \cup {wjob[w]}
    BY <2>1 DEF Dirs, HasDir, Step, TypeOK, WithDir
  <2>2. CASE Step(w, "download", "notifyDownload") /\ UNCHANGED tmpDirs
    BY <2>2, DirsKept DEF WithDir
  <2> QED  BY <1>1, <2>1, <2>2 DEF MkdirTemp
<1>2. CASE YtdlpFails(w) \/ Cleanup(w)
  BY <1>2, DirsRemoved DEF YtdlpFails, Cleanup
<1>3. CASE YtdlpSucceeds(w) \/ Upload(w) \/ SetCachedVideo(w)
  BY <1>3, DirsKept
  DEF YtdlpSucceeds, Upload, SetCachedVideo, storeVars, WithDir
<1>4. CASE AddVideoHistory(w) \/ IncrInlineVersion(w) \/ SendPM(w)
  BY <1>4, DirsKept DEF AddVideoHistory, IncrInlineVersion, SendPM, WithDir
<1>5. CASE NotifyDownload(w) \/ NotifyUpload(w) \/ NotifyPM(w)
  BY <1>5, DirsKept DEF NotifyDownload, NotifyUpload, NotifyPM, Notify, WithDir
<1>6. CASE RecordFailedDownload(w) \/ RecordFailedUpload(w) \/ RecordSuccess(w)
  BY <1>6, DirsKept
  DEF RecordFailedDownload, RecordFailedUpload, RecordSuccess, RecordDownload,
      WithDir
<1> QED  BY <1>1, <1>2, <1>3, <1>4, <1>5, <1>6
         DEF ProcessStep, FetchStep, PublishStep

LEMMA DirsPreserved ==
  ASSUME IInv, Dirs, [Next]_vars
  PROVE  Dirs'
<1> USE DEF IInv
<1>1. ASSUME NEW c \in Updates, EnqueueStep(c)
      PROVE  Dirs'
  <2>1. /\ UNCHANGED <<wpc, wjob, tmpDirs>>
        /\ call[c] # "lost"
        /\ \A d \in Updates \ {c} : call'[d] = call[d]
    BY <1>1
    DEF EnqueueStep, EnqueueClaim, EnqueueSend, EnqueueFull, EnqueueRollback,
        storeVars, TypeOK
  <2>2. \A d \in Updates : HasDir(d) => HasDir(d)'
    BY <2>1 DEF HasDir
  <2>3. tmpDirs \subseteq Updates
    BY DEF TypeOK
  <2> QED  BY <2>1, <2>2, <2>3 DEF Dirs
<1>2. ASSUME NEW w \in Workers, WorkerStep(w)
      PROVE  Dirs'
  <2>1. CASE Receive(w)
    <3>1. /\ UNCHANGED <<call, tmpDirs>>
          /\ wjob[w] = None
          /\ wpc' = [wpc EXCEPT ![w] = "download"]
          /\ wjob' = [wjob EXCEPT ![w] = Head(jobs)]
      BY <2>1 DEF Receive, storeVars, Pipeline, Busy
    <3> QED  BY <3>1, PoolAssumption DEF Dirs, HasDir, TypeOK
  <2>2. CASE Stop(w)
    BY <2>2, DirsKept DEF Stop, storeVars, WithDir
  <2>3. CASE ProcessStep(w)
    BY <2>3, ProcessKeepsDirs
  <2>4. CASE Release(w)
    <3>1. /\ UNCHANGED <<call, tmpDirs>>
          /\ wpc[w] = "release"
          /\ wpc' = [wpc EXCEPT ![w] = "idle"]
          /\ wjob' = [wjob EXCEPT ![w] = None]
      BY <2>4 DEF Release, storeVars
    <3>2. \A v \in Workers \ {w} : wpc'[v] = wpc[v] /\ wjob'[v] = wjob[v]
      BY <3>1 DEF TypeOK
    <3>3. \A c : HasDir(c) => HasDir(c)'
      BY <3>1, <3>2 DEF HasDir, WithDir
    <3> QED  BY <3>1, <3>3 DEF Dirs
  <2> QED  BY <1>2, <2>1, <2>2, <2>3, <2>4 DEF WorkerStep, ProcessStep
<1>3. ASSUME Die, tmpDirs' \subseteq tmpDirs
      PROVE  Dirs'
  <2>1. \A c \in tmpDirs : call'[c] = "lost"
    BY <1>3 DEF Die, Dirs, HasDir, Holds, Running, TypeOK
  <2> QED  BY <1>3, <2>1 DEF Dirs
<1>4. ASSUME NEW w \in Workers, UploadPanics(w)
      PROVE  Dirs'
  BY <1>3, <1>4 DEF UploadPanics
<1>5. CASE Signal
  BY <1>5 DEF Signal, storeVars, Dirs, HasDir
<1>6. CASE Exit
  BY <1>3, <1>6 DEF Exit, storeVars
<1>7. CASE Restart
  <2>1. \A w \in Workers : wpc[w] \notin WithDir
    BY <1>7 DEF Restart, Pipeline, WithDir
  <2> QED  BY <1>7, <2>1 DEF Restart, storeVars, Dirs, HasDir
<1>8. CASE UNCHANGED vars
  BY <1>8 DEF vars, Dirs, HasDir
<1> QED  BY <1>1, <1>2, <1>4, <1>5, <1>6, <1>7, <1>8 DEF Next

LEMMA DirsUnderClaim == IInv /\ Dirs => TmpDirUnderClaim
  BY DEF IInv, Claims, TypeOK, Dirs, HasDir, TmpDirUnderClaim, Owners, Holds,
         Running

\* A download directory is on disk only under the claim of its job: the
\* deferred calls of process run in the order that removes the directory
\* before the claim, and Download removes it on each of its error paths.
THEOREM DirsAreClaimed == Spec => []TmpDirUnderClaim
<1>1. Init => Dirs
  BY DEF Init, Dirs
<1>2. IInv /\ Dirs /\ [Next]_vars => Dirs'
  BY DirsPreserved
<1> QED  BY <1>1, <1>2, DirsUnderClaim, IInvHolds, PTL DEF Spec

-----------------------------------------------------------------------------
(* Answers *)

\* The places of process after the message to the requester, and after the
\* record of the download.
Told == {"recordDownload", "recordUpload", "recordSuccess", "cleanup", "release"}

Recorded == {"cleanup", "release"}

\* A job is answered and recorded by the time its worker passes these places,
\* and so is a job that has left the pool.
Answers ==
  /\ AcceptedIsAccountedFor
  /\ \A w \in Workers : wpc[w] \in Told => pm[wjob[w]] # "none"
  /\ \A w \in Workers : wpc[w] \in Recorded => records[wjob[w]] # "none"

\* What a step of process does to Answers: messages and records stay, and the
\* worker does not get past either place without them.
LEMMA StepAnswers ==
  ASSUME TypeOK, Pipeline, Answers, NEW w \in Workers, NEW from, NEW to,
         Step(w, from, to),
         \A c \in Updates : pm[c] # "none" => pm'[c] # "none",
         \A c \in Updates : records[c] # "none" => records'[c] # "none",
         to \in Told => pm'[wjob[w]] # "none",
         to \in Recorded => records'[wjob[w]] # "none"
  PROVE  Answers'
<1>1. /\ wpc'[w] = to
      /\ \A v \in Workers \ {w} : wpc'[v] = wpc[v]
      /\ UNCHANGED <<call, jobs, wjob>>
  BY DEF Step, TypeOK
<1>2. \A v \in Workers : wpc[v] \in Told \cup Recorded => wjob[v] \in Updates
  BY BusyHasJob DEF Told, Recorded, Busy, WorkerPC
<1>3. \A c \in Updates : Holds(c)' <=> Holds(c)
  BY <1>1 DEF Holds, Queued, Running
<1>4. AcceptedIsAccountedFor'
  BY <1>1, <1>3 DEF Answers, AcceptedIsAccountedFor
<1>5. \A v \in Workers : wpc'[v] \in Told => pm'[wjob'[v]] # "none"
  BY <1>1, <1>2 DEF Answers
<1>6. \A v \in Workers : wpc'[v] \in Recorded => records'[wjob'[v]] # "none"
  BY <1>1, <1>2 DEF Answers
<1> QED  BY <1>4, <1>5, <1>6 DEF Answers

LEMMA ProcessKeepsAnswers ==
  ASSUME TypeOK, Pipeline, Answers, NEW w \in Workers, ProcessStep(w)
  PROVE  Answers'
<1>1. wjob[w] \in Updates
  BY ProcessStaysInside, BusyHasJob DEF InProcess
<1>2. CASE MkdirTemp(w) \/ YtdlpSucceeds(w) \/ YtdlpFails(w) \/ Upload(w)
  BY <1>2, StepAnswers
  DEF MkdirTemp, YtdlpSucceeds, YtdlpFails, Upload, storeVars, Told, Recorded
<1>3. CASE SetCachedVideo(w) \/ AddVideoHistory(w) \/ IncrInlineVersion(w)
  BY <1>3, StepAnswers
  DEF SetCachedVideo, AddVideoHistory, IncrInlineVersion, Told, Recorded
<1>4. CASE SendPM(w)
  BY <1>1, <1>4, StepAnswers DEF SendPM, TypeOK, Told, Recorded
<1>5. CASE NotifyDownload(w) \/ NotifyUpload(w) \/ NotifyPM(w)
  BY <1>1, <1>5, StepAnswers
  DEF NotifyDownload, NotifyUpload, NotifyPM, Notify, TypeOK, Told, Recorded
<1>6. CASE RecordFailedDownload(w) \/ RecordFailedUpload(w) \/ RecordSuccess(w)
  <2>1. pm[wjob[w]] # "none"
    BY <1>6 DEF RecordFailedDownload, RecordFailedUpload, RecordSuccess,
                RecordDownload, Step, Answers, Told
  <2> QED  BY <1>1, <1>6, <2>1, StepAnswers
           DEF RecordFailedDownload, RecordFailedUpload, RecordSuccess,
               RecordDownload, TypeOK, Told, Recorded
<1>7. CASE Cleanup(w)
  <2>1. pm[wjob[w]] # "none" /\ records[wjob[w]] # "none"
    BY <1>7 DEF Cleanup, Step, Answers, Told, Recorded
  <2> QED  BY <1>7, <2>1, StepAnswers DEF Cleanup
<1> QED  BY <1>2, <1>3, <1>4, <1>5, <1>6, <1>7
         DEF ProcessStep, FetchStep, PublishStep

LEMMA AnswersPreserved ==
  ASSUME IInv, Answers, [Next]_vars
  PROVE  Answers'
<1> USE DEF IInv
<1>1. ASSUME NEW c \in Updates, EnqueueStep(c)
      PROVE  Answers'
  <2>1. /\ UNCHANGED <<wpc, wjob, pm, records>>
        /\ call'[c] = "true" => EnqueueSend(c)
        /\ \A d \in Updates \ {c} : call'[d] = call[d]
        /\ Queued \subseteq Queued'
    <3>1. CASE EnqueueSend(c)
      BY <3>1, AppendElements DEF EnqueueSend, storeVars, TypeOK, Queued
    <3>2. CASE ~EnqueueSend(c)
      BY <1>1, <3>2
      DEF EnqueueStep, EnqueueClaim, EnqueueFull, EnqueueRollback, storeVars,
          TypeOK, Queued
    <3> QED  BY <3>1, <3>2
  <2>2. EnqueueSend(c) => c \in Owners'
    BY SendKeepsOwners DEF Owners, Holds, EnqueueSend
  <2>3. \A d \in Updates \ {c} : Holds(d) => Holds(d)'
    BY <2>1 DEF Holds, Running
  <2>4. AcceptedIsAccountedFor'
    BY <2>1, <2>2, <2>3 DEF Answers, AcceptedIsAccountedFor, Owners
  <2> QED  BY <2>1, <2>4 DEF Answers
<1>2. ASSUME NEW w \in Workers, WorkerStep(w)
      PROVE  Answers'
  <2>1. CASE Receive(w)
    <3>1. /\ UNCHANGED <<call, pm, records>>
          /\ wpc'[w] = "download"
          /\ \A v \in Workers \ {w} : wpc'[v] = wpc[v] /\ wjob'[v] = wjob[v]
      BY <2>1 DEF Receive, storeVars, TypeOK
    <3>2. AcceptedIsAccountedFor'
      BY <2>1, <3>1, ReceiveKeepsOwners
      DEF Answers, AcceptedIsAccountedFor, Owners
    <3> QED  BY <3>1, <3>2 DEF Answers, Told, Recorded
  <2>2. CASE Stop(w)
    BY <2>2, StepAnswers DEF Stop, storeVars, Told, Recorded
  <2>3. CASE ProcessStep(w)
    BY <2>3, ProcessKeepsAnswers
  <2>4. CASE Release(w)
    <3>1. /\ UNCHANGED <<call, pm, records>>
          /\ wpc[w] = "release" /\ wpc'[w] = "idle"
          /\ \A v \in Workers \ {w} : wpc'[v] = wpc[v] /\ wjob'[v] = wjob[v]
      BY <2>4 DEF Release, storeVars, TypeOK
    <3>2. pm[wjob[w]] # "none" /\ records[wjob[w]] # "none"
      BY <3>1 DEF Answers, Told, Recorded
    <3>3. AcceptedIsAccountedFor'
      BY <2>4, <3>1, <3>2, ReleaseDropsOwner
      DEF Answers, AcceptedIsAccountedFor, Owners
    <3> QED  BY <3>1, <3>3 DEF Answers, Told, Recorded
  <2> QED  BY <1>2, <2>1, <2>2, <2>3, <2>4 DEF WorkerStep, ProcessStep
<1>3. ASSUME Die, UNCHANGED <<pm, records>>
      PROVE  Answers'
  <2>1. \A w \in Workers : wpc'[w] = "stopped"
    BY <1>3 DEF Die
  <2>2. \A c \in Updates : call'[c] = "true" => call[c] = "true" /\ ~Holds(c)
    BY <1>3 DEF Die
  <2>3. AcceptedIsAccountedFor'
    BY <1>3, <2>2 DEF Answers, AcceptedIsAccountedFor
  <2> QED  BY <2>1, <2>3 DEF Answers, Told, Recorded
<1>4. ASSUME NEW w \in Workers, UploadPanics(w)
      PROVE  Answers'
  BY <1>3, <1>4 DEF UploadPanics
<1>5. ASSUME UNCHANGED <<call, jobs, wjob, pm, records>>,
             \A w \in Workers : wpc'[w] \in {wpc[w], "idle"}
      PROVE  Answers'
  <2>1. \A c \in Updates : Holds(c)' <=> Holds(c)
    BY <1>5 DEF Holds, Queued, Running
  <2> QED  BY <1>5, <2>1 DEF Answers, AcceptedIsAccountedFor, Told, Recorded
<1>6. CASE Signal \/ Restart
  BY <1>5, <1>6 DEF Signal, Restart, storeVars
<1>7. CASE Exit
  BY <1>3, <1>7 DEF Exit, storeVars
<1>8. CASE UNCHANGED vars
  BY <1>5, <1>8 DEF vars
<1> QED  BY <1>1, <1>2, <1>4, <1>6, <1>7, <1>8 DEF Next

LEMMA AnswersAtFirst == Init => Answers
  BY DEF Init, Answers, AcceptedIsAccountedFor, Told, Recorded

\* A job that has left the pool has been answered and recorded, on every path
\* through process and whatever calls failed on the way.
THEOREM NothingIsDropped == Spec => []AcceptedIsAccountedFor
<1>1. IInv /\ Answers /\ [Next]_vars => Answers'
  BY AnswersPreserved
<1>2. Answers => AcceptedIsAccountedFor
  BY DEF Answers
<1> QED  BY <1>1, <1>2, AnswersAtFirst, IInvHolds, PTL DEF Spec

-----------------------------------------------------------------------------
(* The backlog *)

\* The accepted requests that are not finished.
Backlog == {c \in Updates : call[c] = "true" /\ Holds(c)}

LEMMA BacklogIsPlaced ==
  ASSUME IInv
  PROVE  Backlog \subseteq Queued \cup {wjob[w] : w \in Workers}
  BY DEF Backlog, Holds, Running

LEMMA QueuedFit ==
  ASSUME IInv
  PROVE  IsFiniteSet(Queued) /\ Cardinality(Queued) <= Capacity
<1> DEFINE n == Len(jobs)
<1>1. n \in Nat /\ n <= Capacity
  BY DEF IInv, TypeOK
<1>2. jobs \in Surjection(1..n, Queued)
  <2>1. n \in Nat /\ jobs \in [1..n -> Updates]
    BY DEF IInv, TypeOK
  <2> HIDE DEF n
  <2> QED
    BY <2>1 DEF Surjection, Queued, Range
<1> HIDE DEF n
<1>3. IsFiniteSet(1..n) /\ Cardinality(1..n) = n
  BY <1>1, FS_Interval
<1>4. IsFiniteSet(Queued) /\ Cardinality(Queued) <= n
  BY <1>2, <1>3, FS_Surjection
<1> QED
  BY <1>1, <1>4, FS_CardinalityType, PoolAssumption

\* Enqueue accepts no more than the pool has room for: as many requests as the
\* channel and the workers hold.  With WORKER_COUNT=0 there is no room (pool.go:53),
\* and every request is refused.
THEOREM BacklogIsBounded ==
  ASSUME IsFiniteSet(Workers)
  PROVE  Spec => [](/\ IsFiniteSet(Backlog)
                    /\ Cardinality(Backlog) <= Capacity + Cardinality(Workers))
<1>1. IInv => /\ IsFiniteSet(Backlog)
              /\ Cardinality(Backlog) <= Capacity + Cardinality(Workers)
  <2> SUFFICES ASSUME IInv
               PROVE  /\ IsFiniteSet(Backlog)
                      /\ Cardinality(Backlog) <= Capacity + Cardinality(Workers)
    OBVIOUS
  <2> DEFINE D == {wjob[w] : w \in Workers}
  <2>1. wjob \in Surjection(Workers, D)
    BY DEF IInv, TypeOK, Surjection
  <2>2. IsFiniteSet(D) /\ Cardinality(D) <= Cardinality(Workers)
    <3> HIDE DEF D
    <3> QED
      BY <2>1, FS_Surjection
  <2>3. Backlog \in SUBSET (Queued \cup D)
    BY BacklogIsPlaced
  <2> HIDE DEF D
  <2>4. /\ IsFiniteSet(Queued \cup D)
        /\ Cardinality(Queued \cup D)
             = Cardinality(Queued) + Cardinality(D) - Cardinality(Queued \cap D)
    BY <2>2, QueuedFit, FS_Union
  <2>5. /\ Cardinality(Queued) \in Nat /\ Cardinality(D) \in Nat
        /\ Cardinality(Workers) \in Nat /\ Cardinality(Queued \cap D) \in Nat
    <3>1. Queued \cap D \in SUBSET D
      OBVIOUS
    <3> QED
      BY <2>2, <3>1, QueuedFit, FS_Subset, FS_CardinalityType
  <2>6. IsFiniteSet(Backlog) /\ Cardinality(Backlog) <= Cardinality(Queued \cup D)
    BY <2>3, <2>4, FS_Subset
  <2>7. Cardinality(Backlog) \in Nat
    BY <2>6, FS_CardinalityType
  <2> QED
    BY <2>2, <2>4, <2>5, <2>6, <2>7, QueuedFit, PoolAssumption
<1> QED
  BY <1>1, IInvHolds, PTL

-----------------------------------------------------------------------------
(* What the liveness properties rest on *)

\* Workers loop: while the process runs and nobody has told it to stop, none of
\* them has returned, so that an accepted job finds a worker.
WorkersLoop == alive /\ ~ctxDone => \A w \in Workers : wpc[w] # "stopped"

\* How far a place of process is from its end.
Ahead ==
  [place \in Busy |->
     CASE place = "download"       -> 11
       [] place = "ytdlp"          -> 10
       [] place = "upload"         -> 9
       [] place = "setCached"      -> 8
       [] place = "addHistory"     -> 7
       [] place = "incrVersion"    -> 6
       [] place = "sendPM"         -> 5
       [] place \in {"notifyPM", "notifyDownload", "notifyUpload"} -> 4
       [] place \in {"recordSuccess", "recordUpload", "recordDownload"} -> 3
       [] place = "cleanup"        -> 2
       [] place = "release"        -> 1]

\* A worker with a job keeps it, comes nearer to the end of process, and lets the job
\* go at the end only, unless the process dies.
JobsGoForward ==
  [][\A w \in Workers : wpc[w] \in Busy =>
       \/ wpc'[w] = wpc[w] /\ wjob'[w] = wjob[w]
       \/ wpc'[w] \in Busy /\ wjob'[w] = wjob[w] /\ Ahead[wpc'[w]] < Ahead[wpc[w]]
       \/ wpc[w] = "release" /\ wpc'[w] = "idle"
       \/ ~alive']_vars

LEMMA LoopKept == IInv /\ WorkersLoop /\ [Next]_vars => WorkersLoop'
<1> SUFFICES ASSUME IInv, WorkersLoop, [Next]_vars
             PROVE  WorkersLoop'
  OBVIOUS
<1> USE DEF WorkersLoop
<1>1. ASSUME NEW c \in Updates, EnqueueStep(c)
      PROVE  WorkersLoop'
  BY <1>1 DEF EnqueueStep, EnqueueClaim, EnqueueSend, EnqueueFull, EnqueueRollback
<1>2. ASSUME NEW w \in Workers, WorkerStep(w)
      PROVE  WorkersLoop'
  <2>1. CASE Receive(w) \/ Release(w)
    BY <2>1 DEF Receive, Release, IInv, TypeOK
  <2>2. CASE Stop(w)
    BY <2>2 DEF Stop, Step
  <2>3. CASE ProcessStep(w)
    BY <2>3, ProcessStaysInside DEF InProcess, IInv, TypeOK, Busy
  <2> QED
    BY <1>2, <2>1, <2>2, <2>3 DEF WorkerStep, ProcessStep
<1>3. CASE Exit \/ \E w \in Workers : UploadPanics(w)
  BY <1>3 DEF Exit, UploadPanics, Die
<1>4. CASE Signal \/ Restart
  BY <1>4 DEF Signal, Restart
<1>5. CASE UNCHANGED vars
  BY <1>5 DEF vars
<1> QED
  BY <1>1, <1>2, <1>3, <1>4, <1>5 DEF Next

\* No worker returns before it is told to, however its jobs fail (pool.go:92-99).
THEOREM WorkersKeepLooping == Spec => []WorkersLoop
<1>1. Init => WorkersLoop
  BY DEF Init, WorkersLoop
<1> QED
  BY <1>1, LoopKept, IInvHolds, PTL DEF Spec

LEMMA ProcessGoesForward ==
  ASSUME IInv, NEW w \in Workers, ProcessStep(w)
  PROVE  /\ wpc[w] \in Busy /\ wpc'[w] \in Busy
         /\ Ahead[wpc'[w]] < Ahead[wpc[w]]
<1> USE DEF IInv, TypeOK, Step, Ahead, Busy, WorkerPC
<1>1. CASE MkdirTemp(w) \/ YtdlpSucceeds(w) \/ YtdlpFails(w)
  BY <1>1 DEF MkdirTemp, YtdlpSucceeds, YtdlpFails
<1>2. CASE Upload(w) \/ Cleanup(w)
  BY <1>2 DEF Upload, Cleanup
<1>3. CASE SetCachedVideo(w) \/ AddVideoHistory(w)
  BY <1>3 DEF SetCachedVideo, AddVideoHistory
<1>4. CASE IncrInlineVersion(w) \/ SendPM(w)
  BY <1>4 DEF IncrInlineVersion, SendPM
<1>5. CASE NotifyDownload(w) \/ NotifyUpload(w) \/ NotifyPM(w)
  BY <1>5 DEF NotifyDownload, NotifyUpload, NotifyPM, Notify
<1>6. CASE RecordFailedDownload(w) \/ RecordFailedUpload(w) \/ RecordSuccess(w)
  BY <1>6 DEF RecordFailedDownload, RecordFailedUpload, RecordSuccess, RecordDownload
<1> QED
  BY <1>1, <1>2, <1>3, <1>4, <1>5, <1>6 DEF ProcessStep, FetchStep, PublishStep

\* process has no loop: a job takes at most eleven steps from the channel to its
\* release, whichever calls fail.
THEOREM JobsEnd == Spec => JobsGoForward
<1> DEFINE Forward ==
      \A w \in Workers : wpc[w] \in Busy =>
        \/ wpc'[w] = wpc[w] /\ wjob'[w] = wjob[w]
        \/ wpc'[w] \in Busy /\ wjob'[w] = wjob[w] /\ Ahead[wpc'[w]] < Ahead[wpc[w]]
        \/ wpc[w] = "release" /\ wpc'[w] = "idle"
        \/ ~alive'
<1>1. IInv /\ [Next]_vars => Forward
  <2> SUFFICES ASSUME IInv, [Next]_vars
               PROVE  Forward
    OBVIOUS
  <2>1. ASSUME NEW v \in Workers, WorkerStep(v)
        PROVE  Forward
    <3>1. CASE Receive(v) \/ Stop(v) \/ Release(v)
      BY <3>1 DEF Receive, Stop, Step, Release, IInv, TypeOK, Busy
    <3>2. CASE ProcessStep(v)
      <4>1. UNCHANGED wjob /\ \A w \in Workers \ {v} : wpc'[w] = wpc[w]
        BY <3>2, ProcessStaysInside DEF InProcess, IInv, TypeOK
      <4> QED
        BY <3>2, <4>1, ProcessGoesForward
    <3> QED
      BY <2>1, <3>1, <3>2 DEF WorkerStep, ProcessStep
  <2>2. ASSUME NEW c \in Updates, EnqueueStep(c)
        PROVE  Forward
    BY <2>2 DEF EnqueueStep, EnqueueClaim, EnqueueSend, EnqueueFull, EnqueueRollback
  <2>3. CASE Exit \/ \E w \in Workers : UploadPanics(w)
    BY <2>3 DEF Exit, UploadPanics, Die
  <2>4. CASE Signal
    BY <2>4 DEF Signal
  <2>5. CASE Restart
    BY <2>5 DEF Restart, IInv, Pipeline, Busy
  <2>6. CASE UNCHANGED vars
    BY <2>6 DEF vars
  <2> QED
    BY <2>1, <2>2, <2>3, <2>4, <2>5, <2>6 DEF Next
<1>2. Spec => [][Forward]_vars
  BY <1>1, IInvHolds, PTL DEF Spec
<1> QED
  BY <1>2 DEF JobsGoForward

-----------------------------------------------------------------------------
(* The refinement of DownloadService.  The invariant says where a job is, and *)
(* so in which stage its request: a request is in flight for the service      *)
(* exactly while its job holds a claim in the pool.  Each action of the pool  *)
(* then moves one request from a stage to the next, or none.                  *)

\* The stage of a request, by the place of its job ...
Placed(c) ==
  /\ Running(c) <=> Stage[c] = "running"
  /\ c \in Queued <=> Stage[c] = "queued"
  /\ call[c] = "none" <=> Stage[c] = "waiting"
  /\ call[c] = "claimed" <=> Stage[c] = "claimed"
  /\ call[c] = "full" <=> Stage[c] = "bounced"
  /\ call[c] = "duplicate" <=> Stage[c] = "duplicate"
  /\ call[c] = "overflow" <=> Stage[c] = "overflow"
  /\ call[c] = "lost" <=> Stage[c] = "lost"
  /\ call[c] = "true" /\ ~Holds(c) <=> Stage[c] = "finished"

AllPlaced == \A c \in Updates : Placed(c)

LEMMA StageByPlace == IInv => AllPlaced
<1> SUFFICES ASSUME IInv, NEW c \in Updates
             PROVE  Placed(c)
  BY DEF AllPlaced
<1>1. call[c] \in CallState
  BY DEF IInv, TypeOK
<1>2. c \in Queued \/ Running(c) => call[c] = "true"
  BY DEF IInv, Places
<1>3. ~(c \in Queued /\ Running(c))
  BY DEF IInv, Places, Running
<1> USE DEF Placed
<1>4. CASE Running(c)
  BY <1>2, <1>3, <1>4 DEF Stage, StageOf, Holds
<1>5. CASE c \in Queued /\ ~Running(c)
  BY <1>2, <1>5 DEF Stage, StageOf, Holds
<1>6. CASE c \notin Queued /\ ~Running(c)
  BY <1>1, <1>6 DEF Stage, StageOf, Holds, CallState
<1> QED  BY <1>4, <1>5, <1>6

\* ... before a step and after it.
LEMMA StageByPlaceAfter == IInv' => AllPlaced'
  BY StageByPlace, PTL

\* For the service a request is in flight while its job holds a claim ...
LEMMA InFlightHolds ==
  ASSUME IInv, NEW c \in Updates
  PROVE  Stage[c] \in Service!Active <=> Holds(c)
  BY StageByPlace DEF AllPlaced, Placed, Service!Active, Holds

\* ... so that IsInProgress and LoadOrStore see what the service tells them.
LEMMA InProgressIsInFlight ==
  ASSUME IInv, NEW u
  PROVE  u \in inProgress <=> Service!InFlight(u) # {}
  BY InFlightHolds DEF IInv, Claims, Owners, Service!InFlight

\* A request whose job stays in its place stays in its stage.
LEMMA StageKept ==
  ASSUME NEW c \in Updates, call'[c] = call[c], Running(c)' <=> Running(c),
         (c \in Queued)' <=> c \in Queued
  PROVE  Stage'[c] = Stage[c]
<1>1. StageOf(c)' = StageOf(c)
  <2>1. CASE Running(c)
    BY <2>1 DEF StageOf
  <2>2. CASE ~Running(c) /\ c \in Queued
    BY <2>2 DEF StageOf
  <2>3. CASE ~Running(c) /\ c \notin Queued
    BY <2>3 DEF StageOf
  <2> QED  BY <2>1, <2>2, <2>3
<1> QED  BY <1>1 DEF Stage

\* A stage for every request.
LEMMA StageIsFunction ==
  /\ Stage = [c \in Updates |-> Stage[c]]
  /\ Stage' = [c \in Updates |-> Stage'[c]]
  BY DEF Stage

\* One request changes its stage: the service moves it.
LEMMA OneMoves ==
  ASSUME NEW c \in Updates, NEW to, Stage'[c] = to,
         \A d \in Updates \ {c} : Stage'[d] = Stage[d]
  PROVE  Stage' = [Stage EXCEPT ![c] = to]
  BY StageIsFunction

\* A step that leaves the calls, the channel and the workers' jobs alone is a
\* stutter of the service.
LEMMA Stutters ==
  ASSUME UNCHANGED <<req, call, jobs, wjob>>
  PROVE  UNCHANGED Service!vars
<1>1. ASSUME NEW c \in Updates
      PROVE  Stage'[c] = Stage[c]
  BY StageKept DEF Running, Queued
<1> QED  BY <1>1, StageIsFunction DEF Service!vars

-----------------------------------------------------------------------------
(* The steps of Enqueue *)

\* A step that changes the call of one request, and neither the channel nor
\* the workers' jobs, leaves the other requests in their stages.
LEMMA OthersStay ==
  ASSUME NEW c \in Updates, UNCHANGED <<jobs, wjob>>,
         \A d \in Updates \ {c} : call'[d] = call[d]
  PROVE  \A d \in Updates \ {c} : Stage'[d] = Stage[d]
  BY StageKept DEF Queued, Running

LEMMA EnqueueRefines ==
  ASSUME IInv, IInv', NEW c \in Updates, EnqueueStep(c)
  PROVE  \/ Service!Claim(c) \/ Service!RefuseDuplicate(c)
         \/ Service!Accept(c) \/ Service!Bounce(c) \/ Service!RefuseFull(c)
<1>1. CASE EnqueueClaim(c)
  <2>1. /\ UNCHANGED <<req, jobs, wjob>> /\ call[c] = "none"
        /\ \A d \in Updates \ {c} : call'[d] = call[d]
        /\ call'[c] = IF req[c].url \in inProgress THEN "duplicate" ELSE "claimed"
    BY <1>1 DEF EnqueueClaim, IInv, TypeOK
  <2>2. Stage[c] = "waiting" /\ \A d \in Updates \ {c} : Stage'[d] = Stage[d]
    BY <2>1, OthersStay, StageByPlace, StageByPlaceAfter DEF AllPlaced, Placed
  <2>3. CASE req[c].url \in inProgress
    <3>1. Stage' = [Stage EXCEPT ![c] = "duplicate"]
      BY <2>1, <2>2, <2>3, StageByPlace, StageByPlaceAfter, OneMoves
      DEF AllPlaced, Placed
    <3>2. Service!RefuseDuplicate(c)
      BY <2>1, <2>2, <2>3, <3>1, InProgressIsInFlight
      DEF Service!RefuseDuplicate, Service!Moves
    <3> QED  BY <3>2
  <2>4. CASE req[c].url \notin inProgress
    <3>1. Stage' = [Stage EXCEPT ![c] = "claimed"]
      BY <2>1, <2>2, <2>4, StageByPlace, StageByPlaceAfter, OneMoves
      DEF AllPlaced, Placed
    <3>2. Service!Claim(c)
      BY <2>1, <2>2, <2>4, <3>1, InProgressIsInFlight
      DEF Service!Claim, Service!Moves
    <3> QED  BY <3>2
  <2> QED  BY <2>3, <2>4
<1>2. CASE EnqueueSend(c)
  <2>1. /\ UNCHANGED <<req, wjob>> /\ Len(jobs) < Capacity
        /\ jobs' = Append(jobs, c) /\ jobs \in Seq(Updates)
        /\ call[c] = "claimed"
        /\ \A d \in Updates \ {c} : call'[d] = call[d]
    BY <1>2 DEF EnqueueSend, IInv, TypeOK
  <2>2. Queued' = Queued \cup {c}
    BY <2>1, AppendElements DEF Queued
  <2>3. \A d \in Updates \ {c} : Stage'[d] = Stage[d]
    BY <2>1, <2>2, StageKept DEF Running
  <2>4. Stage[c] = "claimed" /\ Stage'[c] = "queued"
    BY <2>1, <2>2, StageByPlace, StageByPlaceAfter DEF AllPlaced, Placed
  <2>5. Stage' = [Stage EXCEPT ![c] = "queued"]
    BY <2>3, <2>4, OneMoves
  <2>6. Service!Accept(c)
    BY <2>1, <2>4, <2>5 DEF Service!Accept, Service!Moves
  <2> QED  BY <2>6
<1>3. CASE EnqueueFull(c)
  <2>1. /\ UNCHANGED <<req, jobs, wjob>> /\ Len(jobs) >= Capacity
        /\ call[c] = "claimed" /\ call'[c] = "full"
        /\ \A d \in Updates \ {c} : call'[d] = call[d]
    BY <1>3 DEF EnqueueFull, IInv, TypeOK
  <2>2. Stage[c] = "claimed" /\ Stage' = [Stage EXCEPT ![c] = "bounced"]
    BY <2>1, OthersStay, StageByPlace, StageByPlaceAfter, OneMoves
    DEF AllPlaced, Placed
  <2>3. Service!Bounce(c)
    BY <2>1, <2>2 DEF Service!Bounce, Service!Moves
  <2> QED  BY <2>3
<1>4. CASE EnqueueRollback(c)
  <2>1. /\ UNCHANGED <<req, jobs, wjob>>
        /\ call[c] = "full" /\ call'[c] = "overflow"
        /\ \A d \in Updates \ {c} : call'[d] = call[d]
    BY <1>4 DEF EnqueueRollback, IInv, TypeOK
  <2>2. Stage[c] = "bounced" /\ Stage' = [Stage EXCEPT ![c] = "overflow"]
    BY <2>1, OthersStay, StageByPlace, StageByPlaceAfter, OneMoves
    DEF AllPlaced, Placed
  <2>3. Service!RefuseFull(c)
    BY <2>1, <2>2 DEF Service!RefuseFull, Service!Moves
  <2> QED  BY <2>3
<1> QED  BY <1>1, <1>2, <1>3, <1>4 DEF EnqueueStep

-----------------------------------------------------------------------------
(* The steps of a worker *)

\* Receiving from the channel starts the oldest accepted request.
LEMMA ReceiveRefines ==
  ASSUME IInv, IInv', NEW w \in Workers, Receive(w)
  PROVE  Service!Start
<1> DEFINE c == Head(jobs)
<1>1. /\ UNCHANGED <<req, call>> /\ wpc[w] = "idle"
      /\ wjob' = [wjob EXCEPT ![w] = c]
      /\ jobs \in Seq(Updates) /\ jobs # <<>> /\ jobs' = Tail(jobs)
  BY DEF Receive, IInv, TypeOK
<1>2. wjob[w] = None
  BY <1>1 DEF IInv, Pipeline, Busy
<1>3. Queued' = Queued \ {c} /\ c \in Queued /\ c \in Updates
  BY <1>1, TailElements DEF IInv, Places, Queued
<1>4. wjob'[w] = c /\ \A v \in Workers \ {w} : wjob'[v] = wjob[v]
  BY <1>1 DEF IInv, TypeOK
<1>5. \A d \in Updates : Running(d)' <=> Running(d) \/ d = c
  BY <1>2, <1>4, PoolAssumption DEF Running
<1>6. Stage[c] = "queued" /\ Stage'[c] = "running"
  BY <1>3, <1>5, StageByPlace, StageByPlaceAfter DEF AllPlaced, Placed
<1>7. \A d \in Updates \ {c} : Stage'[d] = Stage[d]
  BY <1>1, <1>3, <1>5, StageKept
<1>8. Stage' = [Stage EXCEPT ![c] = "running"]
  BY <1>3, <1>6, <1>7, OneMoves
<1> QED  BY <1>1, <1>6, <1>8 DEF Service!Start, Service!Moves

\* Releasing the claim finishes the request.
LEMMA ReleaseRefines ==
  ASSUME IInv, IInv', NEW w \in Workers, Release(w)
  PROVE  wjob[w] \in Updates /\ Service!Finish(wjob[w])
<1> DEFINE c == wjob[w]
<1>1. c \in Updates /\ Running(c) /\ c # None
  BY BusyHasJob, PoolAssumption DEF IInv, Release, Busy, WorkerPC
<1>2. UNCHANGED <<req, call, jobs>> /\ wjob' = [wjob EXCEPT ![w] = None]
  BY DEF Release
<1>3. wjob'[w] = None /\ \A v \in Workers \ {w} : wjob'[v] = wjob[v]
  BY <1>2 DEF IInv, TypeOK
<1>4. \A d \in Updates : Running(d)' <=> Running(d) /\ d # c
  BY <1>1, <1>3, PoolAssumption DEF IInv, Places, Running
<1>5. Queued' = Queued
  BY <1>2 DEF Queued
<1>6. call[c] = "true" /\ c \notin Queued
  BY <1>1 DEF IInv, Places, Running
<1>7. Stage[c] = "running" /\ Stage'[c] = "finished"
  BY <1>1, <1>2, <1>4, <1>5, <1>6, StageByPlace, StageByPlaceAfter
  DEF AllPlaced, Placed, Holds
<1>8. \A d \in Updates \ {c} : Stage'[d] = Stage[d]
  BY <1>2, <1>4, <1>5, StageKept
<1>9. Stage' = [Stage EXCEPT ![c] = "finished"]
  BY <1>1, <1>7, <1>8, OneMoves
<1> QED  BY <1>1, <1>2, <1>7, <1>9 DEF Service!Finish, Service!Moves

LEMMA WorkerRefines ==
  ASSUME IInv, IInv', NEW w \in Workers, WorkerStep(w)
  PROVE  [Service!Next]_(Service!vars)
<1>1. CASE Receive(w)
  BY <1>1, ReceiveRefines DEF Service!Next
<1>2. CASE Stop(w)
  BY <1>2, Stutters DEF Stop, Step
<1>3. CASE ProcessStep(w)
  BY <1>3, ProcessStaysInside, Stutters DEF InProcess
<1>4. CASE Release(w)
  BY <1>4, ReleaseRefines DEF Service!Next
<1> QED  BY <1>1, <1>2, <1>3, <1>4 DEF WorkerStep, ProcessStep

-----------------------------------------------------------------------------
(* The process *)

\* The death of the process loses the requests that are in flight.
LEMMA DieRefines ==
  ASSUME IInv, IInv', Die
  PROVE  Service!Die
<1>1. Queued' = {} /\ \A c \in Updates : ~Running(c)'
  BY DieEmptiesPlaces
<1>2. ASSUME NEW c \in Updates
      PROVE  Stage'[c] = IF Stage[c] \in Service!Active THEN "lost" ELSE Stage[c]
  <2>1. CASE Holds(c)
    <3>1. call'[c] = "lost"
      BY <2>1 DEF Die
    <3> QED  BY <2>1, <3>1, StageByPlace, StageByPlaceAfter, InFlightHolds
           DEF AllPlaced, Placed
  <2>2. CASE ~Holds(c)
    <3>1. call'[c] = call[c]
      BY <2>2 DEF Die
    <3>2. (c \in Queued)' <=> c \in Queued
      BY <1>1, <2>2 DEF Holds
    <3>3. Running(c)' <=> Running(c)
      BY <1>1, <2>2 DEF Holds
    <3> QED  BY <2>2, <3>1, <3>2, <3>3, StageKept, InFlightHolds
  <2> QED  BY <2>1, <2>2
<1>3. Stage' = [c \in Updates |->
                  IF Stage[c] \in Service!Active THEN "lost" ELSE Stage[c]]
  BY <1>2, StageIsFunction
<1> QED  BY <1>3 DEF Die, Service!Die

-----------------------------------------------------------------------------
(* The theorem *)

LEMMA InitRefines ==
  ASSUME Init
  PROVE  Service!Init
<1>1. Queued = {} /\ \A c \in Updates : ~Running(c)
  BY PoolAssumption, QueuedJobs DEF Init, Running
<1>2. \A c \in Updates : StageOf(c) = "waiting"
  BY <1>1 DEF StageOf, Init
<1>3. Stage = [c \in Updates |-> "waiting"]
  BY <1>2 DEF Stage
<1> QED  BY <1>3 DEF Init, Service!Init

LEMMA NextRefines ==
  ASSUME IInv, IInv', [Next]_vars
  PROVE  [Service!Next]_(Service!vars)
<1>1. ASSUME NEW c \in Updates, EnqueueStep(c)
      PROVE  [Service!Next]_(Service!vars)
  BY <1>1, EnqueueRefines DEF Service!Next
<1>2. ASSUME NEW w \in Workers, WorkerStep(w)
      PROVE  [Service!Next]_(Service!vars)
  BY <1>2, WorkerRefines
<1>3. ASSUME NEW w \in Workers, UploadPanics(w)
      PROVE  [Service!Next]_(Service!vars)
  BY <1>3, DieRefines DEF UploadPanics, Service!Next
<1>4. CASE Exit
  BY <1>4, DieRefines DEF Exit, Service!Next
<1>5. CASE Signal \/ Restart
  BY <1>5, Stutters DEF Signal, Restart
<1>6. CASE UNCHANGED vars
  BY <1>6, Stutters DEF vars
<1> QED  BY <1>1, <1>2, <1>3, <1>4, <1>5, <1>6 DEF Next

\* The pool does what DownloadService promises its callers: the map, the
\* channel, the workers and the steps of process amount to claims, a queue
\* in the order of acceptance, single starts and finishes, and loss only when
\* the process dies.  VideoBot relies on this.
THEOREM PoolImplementsService == Spec => RefinesService
<1>1. Init => Service!Init
  BY InitRefines
<1>2. IInv /\ IInv' /\ [Next]_vars => [Service!Next]_(Service!vars)
  BY NextRefines
<1>3. Spec => Service!Spec
  BY <1>1, <1>2, IInvHolds, PTL DEF Spec, Service!Spec
<1> QED  BY <1>3 DEF RefinesService
=============================================================================
