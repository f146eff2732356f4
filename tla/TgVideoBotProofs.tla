-------------------------- MODULE TgVideoBotProofs --------------------------
(***************************************************************************)
(* The whole bot, for every value of its constants: the invariants of the  *)
(* pool hold beside the handlers, and the handlers on the pool do what     *)
(* VideoBot says, so that every theorem about VideoBot is one about the    *)
(* bot (Proved).  What a user is told, and what becomes of the request,    *)
(* follows from both.                                                      *)
(***************************************************************************)
EXTENDS TgVideoBot, WorkerPoolStores

\* The theorems about VideoBot, for the handlers on the pool.
Proved == INSTANCE VideoBotProofs WITH req <- Request, stage <- Stage, queue <- jobs

-----------------------------------------------------------------------------
(* The pool beside the handlers *)

\* The invariants of the pool, with what they rest on.
PoolInv == IInv /\ Dirs /\ Answers /\ Stores

\* The key of a file_id expires: no step of the pool, and unseen by it.
FileExpiry ==
  /\ UNCHANGED <<req, call, inProgress, jobs, wpc, wjob, ctxDone, alive,
                 tmpDirs, pushed, bumped, pm, records>>
  /\ \E u \in URLs : cached' = [cached EXCEPT ![u] = None]

\* For the pool every step of the bot is one of its own, a stutter or an expiry.
LEMMA PoolSteps ==
  ASSUME [SystemNext]_systemVars
  PROVE  [Next]_vars \/ FileExpiry
<1>1. ASSUME NEW c \in Updates, HandlerStep(c) \/ CheckInProgress(c)
      PROVE  UNCHANGED vars
  BY <1>1 DEF HandlerStep, CheckInProgress
<1>2. ASSUME NEW c \in Updates, HandlerEnqueues(c)
      PROVE  Next
  BY <1>2 DEF HandlerEnqueues, Next
<1>3. ASSUME NEW w \in Workers, PoolStep(w)
      PROVE  Next
  BY <1>3 DEF PoolStep, Next
<1>4. CASE ProcessEvent
  BY <1>4 DEF ProcessEvent, Next
<1>5. CASE RedisStep
  <2>1. ASSUME NEW u \in URLs, Bot!FileExpires(u)
        PROVE  FileExpiry
    BY <1>5, <2>1 DEF RedisStep, Bot!FileExpires, FileExpiry, poolVars
  <2>2. ASSUME NEW p \in Users, Bot!CounterExpires(p)
        PROVE  UNCHANGED vars
    BY <1>5, <2>2 DEF RedisStep, Bot!CounterExpires, vars, poolVars
  <2> QED
    BY <1>5, <2>1, <2>2 DEF RedisStep
<1>6. CASE UNCHANGED systemVars
  BY <1>6 DEF systemVars
<1> QED
  BY <1>1, <1>2, <1>3, <1>4, <1>5, <1>6 DEF SystemNext

\* An expiry takes traces away and adds none.
LEMMA ExpiryKeepsPool ==
  ASSUME PoolInv, FileExpiry
  PROVE  PoolInv'
<1>1. Owners' = Owners /\ Queued' = Queued /\ \A c \in Updates : Running(c)' <=> Running(c)
  BY OwnersDepend DEF FileExpiry, Queued, Running
<1>2. \A c \in Updates : Holds(c)' <=> Holds(c)
  BY <1>1 DEF FileExpiry, Holds
<1>3. IInv'
  <2>1. TypeOK'
    BY DEF PoolInv, IInv, FileExpiry, TypeOK
  <2>2. Pipeline'
    BY DEF PoolInv, IInv, FileExpiry, Pipeline
  <2>3. Places'
    BY PlacesDepends DEF PoolInv, IInv, FileExpiry
  <2>4. Claims'
    BY <1>1, ClaimKept DEF PoolInv, IInv, FileExpiry
  <2> QED
    BY <2>1, <2>2, <2>3, <2>4 DEF IInv
<1>4. Dirs'
  BY DEF PoolInv, FileExpiry, Dirs, HasDir
<1>5. Answers'
  BY <1>2 DEF PoolInv, FileExpiry, Answers, AcceptedIsAccountedFor
<1>6. Stores'
  <2>1. \A u \in URLs : cached'[u] \in {cached[u], None}
    BY DEF PoolInv, IInv, FileExpiry, TypeOK
  <2>2. \A c \in Updates : /\ Unlisted(c)' <=> Unlisted(c)
                           /\ Traceless(c) => Traceless(c)'
    BY <2>1, PoolAssumption DEF FileExpiry, Unlisted, Traceless
  <2>3. \A w \in Workers : wpc[w] \in Unpublished \cup {"addHistory"} => wjob[w] \in Updates
    BY BusyHasJob DEF PoolInv, IInv, Unpublished, Busy, WorkerPC
  <2>4. \A c \in Updates : Unseen(c)' <=> Unseen(c)
    BY <1>1 DEF FileExpiry, Unseen
  <2>5. StoresAgree'
    BY <2>1, PoolAssumption DEF PoolInv, Stores, StoresAgree, FileExpiry
  <2> QED
    BY <2>2, <2>3, <2>4, <2>5 DEF PoolInv, Stores, Fresh, FileExpiry
<1> QED
  BY <1>3, <1>4, <1>5, <1>6 DEF PoolInv

LEMMA PoolInvAtFirst == SystemInit => PoolInv
  BY IInvAtFirst, AnswersAtFirst, StoresAtFirst
  DEF SystemInit, PoolInv, Init, Dirs

LEMMA PoolInvKept == PoolInv /\ [SystemNext]_systemVars => PoolInv'
  BY PoolSteps, ExpiryKeepsPool, IInvKept, DirsPreserved, AnswersPreserved,
     StoresPreserved
  DEF PoolInv

LEMMA PoolInvHolds == System => []PoolInv
  BY PoolInvAtFirst, PoolInvKept, PTL DEF System

\* Handlers that answer, ask Redis and call Enqueue while keys expire take nothing
\* from what holds of the pool alone: single downloads, claims, directories,
\* answers, and the agreement of the stores.
THEOREM PoolHoldsInTheBot ==
  System => [](/\ TypeOK /\ SingleFlight /\ ClaimsAreOwned /\ TmpDirUnderClaim
               /\ AcceptedIsAccountedFor /\ StoresAgree)
<1>1. PoolInv => /\ TypeOK /\ SingleFlight /\ ClaimsAreOwned /\ TmpDirUnderClaim
                 /\ AcceptedIsAccountedFor /\ StoresAgree
  <2> SUFFICES ASSUME PoolInv
               PROVE  /\ TypeOK /\ SingleFlight /\ ClaimsAreOwned /\ TmpDirUnderClaim
                      /\ AcceptedIsAccountedFor /\ StoresAgree
    OBVIOUS
  <2>1. TypeOK /\ SingleFlight /\ ClaimsAreOwned
    BY DEF PoolInv, IInv, Claims, Places, Owners, SingleFlight, ClaimsAreOwned
  <2>2. TmpDirUnderClaim
    BY DirsUnderClaim DEF PoolInv
  <2>3. AcceptedIsAccountedFor /\ StoresAgree
    BY DEF PoolInv, Answers, Stores
  <2> QED
    BY <2>1, <2>2, <2>3
<1> QED
  BY <1>1, PoolInvHolds, PTL

\* A file_id enters the cache under the claim of its own job, also with keys that
\* expire beside the workers.
THEOREM CacheWritesInTheBot == System => CacheWriteUnderClaim
<1>1. FileExpiry /\ IInv => Guarded
  BY DEF FileExpiry, Guarded, IInv, TypeOK
<1>2. PoolInv /\ [SystemNext]_systemVars => [Guarded]_vars
  BY <1>1, PoolSteps, WritesAreGuarded DEF PoolInv
<1>3. System => [][Guarded]_vars
  BY <1>2, PoolInvHolds, PTL DEF System
<1> QED
  BY <1>3 DEF CacheWriteUnderClaim, Guarded

-----------------------------------------------------------------------------
(* What has been published *)

\* Whatever is in the cache, or was found there, has been published; and a job
\* publishes once, after its upload, never to fail.
Publications ==
  /\ \A u \in URLs : cached[u] # None => cached[u] \in published
  /\ found \in [Updates -> published \cup {None}]
  /\ \A c \in published : c \in Updates /\ ~Unseen(c)
                         /\ call[c] \notin {"duplicate", "overflow"}
                         /\ records[c] # "failure"
  /\ \A w \in Workers : wpc[w] \in Unpublished => wjob[w] \notin published

\* The pool writes and records nothing about a request it has not accepted.
Silence ==
  \A c \in Updates : call[c] \notin {"true", "lost"} =>
    pm[c] = "none" /\ records[c] = "none"

Marks == Publications /\ Silence

\* A step of process changes the message and the record of its own job, and takes
\* a job to the places before the publication only from there.
LEMMA ProcessMarksOwnJob ==
  ASSUME IInv, NEW w \in Workers, ProcessStep(w)
  PROVE  /\ \A c \in Updates \ {wjob[w]} : pm'[c] = pm[c] /\ records'[c] = records[c]
         /\ records'[wjob[w]] # "failure" \/ records[wjob[w]] = "failure"
              \/ wpc[w] \in Unpublished
         /\ wpc'[w] \in Unpublished => wpc[w] \in Unpublished
         /\ \A v \in Workers \ {w} : wpc'[v] = wpc[v]
         /\ cached' = cached \/ SetCachedVideo(w)
<1> USE DEF IInv, TypeOK, Step, Unpublished, storeVars
<1>1. CASE MkdirTemp(w) \/ YtdlpSucceeds(w) \/ YtdlpFails(w) \/ Upload(w) \/ Cleanup(w)
  BY <1>1 DEF MkdirTemp, YtdlpSucceeds, YtdlpFails, Upload, Cleanup
<1>2. CASE SetCachedVideo(w)
  BY <1>2 DEF SetCachedVideo
<1>3. CASE AddVideoHistory(w)
  BY <1>3 DEF AddVideoHistory
<1>4. CASE IncrInlineVersion(w)
  BY <1>4 DEF IncrInlineVersion
<1>5. CASE SendPM(w)
  BY <1>5 DEF SendPM
<1>6. CASE NotifyDownload(w) \/ NotifyUpload(w) \/ NotifyPM(w)
  BY <1>6 DEF NotifyDownload, NotifyUpload, NotifyPM, Notify
<1>7. CASE RecordFailedDownload(w) \/ RecordFailedUpload(w)
  BY <1>7 DEF RecordFailedDownload, RecordFailedUpload, RecordDownload
<1>8. CASE RecordSuccess(w)
  BY <1>8 DEF RecordSuccess, RecordDownload
<1> QED
  BY <1>1, <1>2, <1>3, <1>4, <1>5, <1>6, <1>7, <1>8
  DEF ProcessStep, FetchStep, PublishStep

\* What a worker step adds to published: the job of the worker, when it stores its
\* file_id for the first time.
LEMMA PublishedBySetCached ==
  ASSUME IInv, Publications, NEW w \in Workers, PoolStep(w)
  PROVE  /\ cached' = cached => published' = published
         /\ SetCachedVideo(w) /\ cached' # cached =>
              /\ wjob[w] \in Updates \ published
              /\ published' = published \cup {wjob[w]}
              /\ cached' = [cached EXCEPT ![req[wjob[w]].url] = wjob[w]]
<1> USE DEF IInv, TypeOK
<1>1. Range(cached) \ {None} \subseteq published
  BY DEF Publications, Range
<1>2. CASE cached' = cached
  BY <1>1, <1>2 DEF PoolStep
<1>3. CASE SetCachedVideo(w) /\ cached' # cached
  <2> DEFINE j == wjob[w]
  <2>1. j \in Updates /\ j # None /\ j \notin published
    <3>1. wpc[w] = "setCached"
      BY <1>3 DEF SetCachedVideo, Step
    <3>2. j \in Updates /\ j # None
      BY <3>1, BusyHasJob, PoolAssumption DEF Busy, WorkerPC
    <3> QED
      BY <3>1, <3>2 DEF Publications, Unpublished
  <2>2. cached' = [cached EXCEPT ![req[j].url] = j]
    BY <1>3 DEF SetCachedVideo
  <2>3. req[j].url \in URLs
    BY <2>1
  <2>4. cached'[req[j].url] = j /\ \A u \in URLs : cached'[u] \in {cached[u], j}
    BY <2>2, <2>3
  <2>5. Range(cached') \ {None} \subseteq published \cup {j}
    BY <1>1, <2>2, <2>4 DEF Range
  <2>6. j \in Range(cached') \ {None}
    BY <2>1, <2>2, <2>3, <2>4 DEF Range
  <2> QED
    BY <1>3, <2>1, <2>2, <2>5, <2>6 DEF PoolStep
<1> QED
  BY <1>2, <1>3

LEMMA PoolStepKeepsMarks ==
  ASSUME PoolInv, Marks, NEW w \in Workers, PoolStep(w)
  PROVE  Marks'
<1> USE DEF PoolInv, IInv
<1>1. UNCHANGED found /\ WorkerStep(w)
  BY DEF PoolStep, handlerVars
<1>2. CASE Receive(w)
  <2>1. /\ UNCHANGED <<call, cached, pm, records>>
        /\ wjob'[w] = Head(jobs) /\ jobs' = Tail(jobs)
        /\ \A v \in Workers \ {w} : wpc'[v] = wpc[v] /\ wjob'[v] = wjob[v]
    BY <1>2 DEF Receive, storeVars, TypeOK
  <2>2. published' = published
    BY <2>1, PublishedBySetCached DEF Marks
  <2>3. Head(jobs) \in Queued /\ Head(jobs) \in Updates /\ Queued' \subseteq Queued
    BY <1>2, <2>1, TailElements DEF Receive, Queued, TypeOK, Places
  <2>4. \A c \in Updates : Unseen(c)' => Unseen(c)
    BY <2>1, <2>3 DEF Unseen
  <2>5. Head(jobs) \notin published
    BY <2>3 DEF Marks, Publications, Unseen
  <2>6. Publications'
    BY <1>1, <2>1, <2>2, <2>4, <2>5 DEF Marks, Publications
  <2> QED
    BY <2>1, <2>6 DEF Marks, Silence
<1>3. CASE Stop(w) \/ Release(w)
  <2>1. /\ UNCHANGED <<call, jobs, cached, pm, records>>
        /\ wpc'[w] \notin Unpublished
        /\ \A v \in Workers \ {w} : wpc'[v] = wpc[v] /\ wjob'[v] = wjob[v]
    BY <1>3 DEF Stop, Step, Release, storeVars, TypeOK, Unpublished
  <2>2. published' = published
    BY <2>1, PublishedBySetCached DEF Marks
  <2>3. \A c \in Updates : Unseen(c)' <=> Unseen(c)
    BY <2>1 DEF Unseen, Queued
  <2>4. Publications'
    BY <1>1, <2>1, <2>2, <2>3 DEF Marks, Publications
  <2> QED
    BY <2>1, <2>4 DEF Marks, Silence
<1>4. CASE ProcessStep(w)
  <2> DEFINE j == wjob[w]
  <2>1. /\ UNCHANGED <<call, jobs, wjob>> /\ wpc[w] \in Busy
        /\ j \in Updates /\ call[j] = "true" /\ j \notin Queued
    BY <1>4, ProcessStaysInside, BusyHasJob DEF InProcess, Places
  <2>2. /\ \A c \in Updates \ {j} : pm'[c] = pm[c] /\ records'[c] = records[c]
        /\ records'[j] # "failure" \/ records[j] = "failure" \/ wpc[w] \in Unpublished
        /\ wpc'[w] \in Unpublished => wpc[w] \in Unpublished
        /\ \A v \in Workers \ {w} : wpc'[v] = wpc[v]
        /\ cached' = cached \/ SetCachedVideo(w)
    BY <1>4, ProcessMarksOwnJob
  <2>3. \A c \in Updates : Unseen(c)' <=> Unseen(c)
    BY <2>1 DEF Unseen, Queued
  <2>4. Silence'
    BY <2>1, <2>2 DEF Marks, Silence
  <2>5. CASE cached' = cached
    <3>1. published' = published
      BY <2>5, PublishedBySetCached DEF Marks
    <3>2. \A c \in published : records'[c] # "failure"
      BY <2>2 DEF Marks, Publications
    <3> QED
      BY <1>1, <2>1, <2>2, <2>3, <2>4, <2>5, <3>1, <3>2 DEF Marks, Publications
  <2>6. CASE cached' # cached
    <3>1. /\ SetCachedVideo(w) /\ j \notin published
          /\ published' = published \cup {j}
          /\ \A u \in URLs : cached'[u] \in {cached[u], j}
      BY <2>2, <2>6, PublishedBySetCached DEF Marks, TypeOK
    <3>2. wpc[w] = "setCached" /\ wpc'[w] = "addHistory" /\ UNCHANGED records
      BY <3>1 DEF SetCachedVideo, Step, TypeOK
    <3>3. records[j] # "failure"
      BY <2>1, <3>2 DEF Stores, Recorded
    <3>4. \A v \in Workers : wpc'[v] \in Unpublished => wjob[v] \notin published'
      <4>1. TAKE v \in Workers
      <4>2. CASE v = w
        BY <3>2, <4>2 DEF Unpublished
      <4>3. CASE v # w /\ wpc[v] \in Unpublished
        <5>1. wjob[v] # None
          BY <4>3, BusyHasJob, PoolAssumption DEF Unpublished, Busy, WorkerPC
        <5> QED
          BY <3>1, <4>3, <5>1 DEF Places, Marks, Publications
      <4> QED
        BY <2>2, <4>2, <4>3
    <3>5. ~Unseen(j)
      BY <2>1 DEF Unseen
    <3> QED
      BY <1>1, <2>1, <2>3, <2>4, <3>1, <3>2, <3>3, <3>4, <3>5 DEF Marks, Publications
  <2> QED
    BY <2>5, <2>6
<1> QED
  BY <1>1, <1>2, <1>3, <1>4 DEF WorkerStep, ProcessStep

LEMMA MarksKept == PoolInv /\ Marks /\ [SystemNext]_systemVars => Marks'
<1> SUFFICES ASSUME PoolInv, Marks, [SystemNext]_systemVars
             PROVE  Marks'
  OBVIOUS
<1> USE DEF PoolInv, IInv
<1>0. found \in [Updates -> published \cup {None}]
  BY DEF Marks, Publications
<1>1. ASSUME UNCHANGED <<call, jobs, wjob, pm, records, published>>,
             \A w \in Workers : wpc'[w] \in {wpc[w], "idle"},
             \A u \in URLs : cached'[u] \in {cached[u], None},
             found' \in [Updates -> published \cup {None}]
      PROVE  Marks'
  BY <1>1 DEF Marks, Publications, Silence, Unseen, Queued, Unpublished
<1>2. ASSUME NEW c \in Updates, HandlerStep(c) \/ CheckInProgress(c)
      PROVE  Marks'
  <2>1. UNCHANGED <<vars, published>>
    BY <1>2
    DEF HandlerStep, CheckInProgress, Bot!GetCachedVideo, Bot!AnswerHit, Bot!RateLimit,
        Bot!RateLimitFails, Bot!AnswerEnqueued, Bot!SetInlineMessageID, Bot!redisVars
  <2>2. found' = found \/ Bot!GetCachedVideo(c)
    BY <1>2
    DEF HandlerStep, CheckInProgress, Bot!AnswerHit, Bot!RateLimit, Bot!RateLimitFails,
        Bot!AnswerEnqueued, Bot!SetInlineMessageID
  <2>3. found' \in [Updates -> published \cup {None}]
    <3>1. CASE Bot!GetCachedVideo(c)
      <4>1. Request[c].url = req[c].url /\ req[c].url \in URLs
        BY DEF Request, TypeOK
      <4> QED
        BY <3>1, <4>1 DEF Bot!GetCachedVideo, Marks, Publications
    <3> QED
      BY <1>0, <2>2, <3>1
  <2> QED
    BY <1>1, <2>1, <2>3 DEF vars
<1>3. ASSUME NEW c \in Updates, HandlerEnqueues(c)
      PROVE  Marks'
  <2>1. /\ UNCHANGED <<wpc, wjob, cached, pm, records, published, found>>
        /\ call[c] \in {"none", "claimed", "full"}
        /\ \A d \in Updates \ {c} : call'[d] = call[d]
    BY <1>3
    DEF HandlerEnqueues, botVars, EnqueueStep, EnqueueClaim, EnqueueSend, EnqueueFull,
        EnqueueRollback, storeVars, TypeOK
  <2>2. Queued' \subseteq Queued \cup {c}
    <3>1. CASE EnqueueSend(c)
      BY <3>1, AppendElements DEF EnqueueSend, TypeOK, Queued
    <3>2. CASE ~EnqueueSend(c)
      BY <1>3, <3>2
      DEF HandlerEnqueues, EnqueueStep, EnqueueClaim, EnqueueFull, EnqueueRollback,
          Queued
    <3> QED
      BY <3>1, <3>2
  <2>3. Unseen(c) /\ \A d \in Updates : Unseen(d)' => Unseen(d)
    BY <2>1, <2>2 DEF Unseen
  <2>4. Publications'
    BY <2>1, <2>3 DEF Marks, Publications
  <2>5. Silence'
    BY <2>1 DEF Marks, Silence
  <2> QED
    BY <2>4, <2>5 DEF Marks
<1>4. ASSUME Die, UNCHANGED <<cached, pm, records, published, found>>
      PROVE  Marks'
  <2>1. Queued' = {} /\ \A w \in Workers : wpc'[w] = "stopped"
    BY <1>4, DieEmptiesPlaces DEF Die
  <2>2. \A c \in Updates : call'[c] \in {call[c], "lost"}
    BY <1>4 DEF Die
  <2> QED
    BY <1>4, <2>1, <2>2 DEF Marks, Publications, Silence, Unseen, Unpublished
<1>5. CASE ProcessEvent
  <2>1. CASE Exit \/ \E w \in Workers : UploadPanics(w)
    BY <1>4, <1>5, <2>1
    DEF ProcessEvent, Exit, UploadPanics, HandlersEnd, storeVars, Signal, Restart, botVars
  <2>2. CASE Signal \/ Restart
    BY <1>0, <1>1, <1>5, <2>2
    DEF ProcessEvent, Signal, Restart, Exit, UploadPanics, botVars, storeVars, HandlersEnd
  <2> QED
    BY <1>5, <2>1, <2>2 DEF ProcessEvent
<1>6. CASE RedisStep
  <2>1. UNCHANGED <<call, jobs, wpc, wjob, pm, records>>
    BY <1>6 DEF RedisStep, poolVars
  <2>2. UNCHANGED <<published, found>> /\ \A u \in URLs : cached'[u] \in {cached[u], None}
    BY <1>6
    DEF RedisStep, Bot!FileExpires, Bot!CounterExpires, Bot!handlerVars, TypeOK
  <2> QED
    BY <1>0, <1>1, <2>1, <2>2
<1>7. CASE UNCHANGED systemVars
  BY <1>0, <1>1, <1>7 DEF systemVars, vars, botVars
<1> QED
  BY <1>2, <1>3, <1>5, <1>6, <1>7, PoolStepKeepsMarks DEF SystemNext

LEMMA MarksAtFirst == SystemInit => Marks
<1> SUFFICES ASSUME SystemInit
             PROVE  Marks
  OBVIOUS
<1> QED
  BY DEF SystemInit, Init, Marks, Publications, Silence, Unpublished

LEMMA MarksHold == System => []Marks
  BY MarksAtFirst, MarksKept, PoolInvHolds, PTL DEF System

-----------------------------------------------------------------------------
(* The bot does what VideoBot says *)

\* Both services, that of the pool and that of the handlers, see one pool.
LEMMA SameService ==
  ASSUME IInv
  PROVE  /\ Bot!Pool!Active = Service!Active
         /\ \A u : Bot!Pool!InFlight(u) = Service!InFlight(u)
         /\ \A c \in Updates : Request[c].url = req[c].url
         /\ UNCHANGED <<req, kind>> => Request' = Request
  BY DEF Bot!Pool!Active, Service!Active, Bot!Pool!InFlight, Service!InFlight, Request

\* A step of Enqueue is one of the service that the handlers take the pool for.
LEMMA EnqueueIsServed ==
  ASSUME IInv, IInv', NEW c \in Updates, EnqueueStep(c), kind' = kind
  PROVE  \/ Bot!Pool!Claim(c) \/ Bot!Pool!RefuseDuplicate(c)
         \/ Bot!Pool!Accept(c) \/ Bot!Pool!Bounce(c) \/ Bot!Pool!RefuseFull(c)
<1> USE SameService DEF Bot!Pool!Moves, Service!Moves
<1>1. CASE Service!Claim(c)
  BY <1>1 DEF Service!Claim, Bot!Pool!Claim
<1>2. CASE Service!RefuseDuplicate(c)
  BY <1>2 DEF Service!RefuseDuplicate, Bot!Pool!RefuseDuplicate
<1>3. CASE Service!Accept(c)
  BY <1>3 DEF Service!Accept, Bot!Pool!Accept
<1>4. CASE Service!Bounce(c)
  BY <1>4 DEF Service!Bounce, Bot!Pool!Bounce
<1>5. CASE Service!RefuseFull(c)
  BY <1>5 DEF Service!RefuseFull, Bot!Pool!RefuseFull
<1> QED
  BY <1>1, <1>2, <1>3, <1>4, <1>5, EnqueueRefines

\* A step that the handlers do not see.
LEMMA Unnoticed ==
  ASSUME UNCHANGED <<req, call, jobs, wjob, cached>>, UNCHANGED botVars
  PROVE  UNCHANGED Bot!vars
<1>1. Stage' = Stage /\ Request' = Request
  BY Stutters DEF Service!vars, Request, botVars
<1> QED
  BY <1>1 DEF botVars, Bot!vars

LEMMA EnqueueOfTheBot ==
  ASSUME IInv, IInv', NEW c \in Updates, HandlerEnqueues(c)
  PROVE  Bot!Enqueue(c)
<1>1. pc[c] = "enqueue" /\ UNCHANGED botVars /\ cached' = cached
  BY DEF HandlerEnqueues, EnqueueStep, EnqueueClaim, EnqueueSend, EnqueueFull,
         EnqueueRollback, storeVars
<1>2. \/ Bot!Pool!Claim(c) \/ Bot!Pool!RefuseDuplicate(c)
      \/ Bot!Pool!Accept(c) \/ Bot!Pool!Bounce(c) \/ Bot!Pool!RefuseFull(c)
  BY <1>1, EnqueueIsServed DEF HandlerEnqueues, botVars
<1> QED
  BY <1>1, <1>2 DEF Bot!Enqueue, Bot!handlerVars, Bot!redisVars, botVars

\* IsInProgress reads the keys of the map, and these are the links the service has
\* in flight.
LEMMA CheckOfTheBot ==
  ASSUME IInv, NEW c \in Updates, CheckInProgress(c)
  PROVE  Bot!CheckInProgress(c)
<1>1. UNCHANGED <<found, before, unlimited, published, counted, cached, jobs>>
  BY DEF CheckInProgress, vars
<1>2. Stage' = Stage
  BY Stutters DEF CheckInProgress, vars, Service!vars
<1>3. Bot!Pool!InFlight(Request[c].url) = {} <=> req[c].url \notin inProgress
  BY InProgressIsInFlight, SameService
<1>4. Bot!Inline(c) <=> kind[c] = "inline"
  BY DEF Bot!Inline, Request
<1> QED
  BY <1>1, <1>2, <1>3, <1>4
  DEF CheckInProgress, Bot!CheckInProgress, Bot!poolVars, Bot!redisVars

LEMMA WorkerOfTheBot ==
  ASSUME PoolInv, PoolInv', Marks, NEW w \in Workers, PoolStep(w)
  PROVE  [Bot!Next]_(Bot!vars)
<1> USE DEF PoolInv
<1>1. UNCHANGED <<handlerVars, counted>> /\ UNCHANGED Bot!handlerVars /\ kind' = kind
  BY DEF PoolStep, handlerVars, Bot!handlerVars
<1>2. CASE Receive(w)
  <2>1. cached' = cached /\ published' = published /\ req' = req
    BY <1>2, PublishedBySetCached DEF Receive, storeVars, Marks
  <2>2. Bot!Pool!Start
    BY <1>1, <1>2, <2>1, ReceiveRefines, SameService
    DEF Service!Start, Bot!Pool!Start, Service!Moves, Bot!Pool!Moves
  <2> QED
    BY <1>1, <2>1, <2>2 DEF Bot!StartJob, Bot!redisVars, Bot!Next
<1>3. CASE Release(w)
  <2>1. cached' = cached /\ published' = published /\ req' = req
    BY <1>3, PublishedBySetCached DEF Release, storeVars, Marks
  <2>2. wjob[w] \in Updates /\ Bot!Pool!Finish(wjob[w])
    BY <1>1, <1>3, <2>1, ReleaseRefines, SameService
    DEF Service!Finish, Bot!Pool!Finish, Service!Moves, Bot!Pool!Moves
  <2> QED
    BY <1>1, <2>1, <2>2 DEF Bot!FinishJob, Bot!redisVars, Bot!Next
<1>4. CASE cached' = cached /\ (Stop(w) \/ ProcessStep(w))
  <2>1. UNCHANGED <<req, call, jobs, wjob>>
    BY <1>4, ProcessStaysInside DEF Stop, Step, InProcess
  <2>2. published' = published
    BY <1>4, PublishedBySetCached DEF Marks
  <2> QED
    BY <1>1, <1>4, <2>1, <2>2, Unnoticed DEF handlerVars, botVars
<1>5. CASE SetCachedVideo(w) /\ cached' # cached
  <2> DEFINE c == wjob[w]
  <2>1. /\ c \in Updates /\ c \notin published
        /\ published' = published \cup {c}
        /\ cached' = [cached EXCEPT ![req[c].url] = c]
    BY <1>5, PublishedBySetCached DEF Marks
  <2>2. UNCHANGED <<req, call, jobs, wjob>> /\ wpc[w] = "setCached"
    BY <1>5 DEF SetCachedVideo, Step
  <2>3. Running(c)
    BY <2>2, BusyHasJob DEF IInv, Busy, WorkerPC
  <2>4. Stage[c] = "running" /\ Stage' = Stage
    BY <2>1, <2>2, <2>3, StageByPlace, Stutters DEF AllPlaced, Placed, Service!vars
  <2>5. Request' = Request /\ Request[c].url = req[c].url
    BY <1>1, <2>1, <2>2, SameService
  <2>6. Bot!Publish(c)
    BY <1>1, <2>1, <2>2, <2>4, <2>5 DEF Bot!Publish, Bot!poolVars, handlerVars
  <2> QED
    BY <2>1, <2>6 DEF Bot!Next
<1>6. CASE cached' # cached /\ (Stop(w) \/ ProcessStep(w))
  BY <1>5, <1>6, ProcessMarksOwnJob DEF Stop, storeVars
<1> QED
  BY <1>2, <1>3, <1>4, <1>6 DEF PoolStep, WorkerStep, ProcessStep

LEMMA DeathOfTheBot ==
  ASSUME IInv, IInv', Die, HandlersEnd, cached' = cached
  PROVE  Bot!Die
<1>1. Bot!Pool!Die
  BY DieRefines, SameService DEF Die, HandlersEnd, Service!Die, Bot!Pool!Die
<1> QED
  BY <1>1 DEF HandlersEnd, Bot!Die, Bot!redisVars

LEMMA StepOfTheBot ==
  ASSUME PoolInv, PoolInv', Marks, [SystemNext]_systemVars
  PROVE  [Bot!Next]_(Bot!vars)
<1> USE DEF PoolInv
<1>1. ASSUME NEW c \in Updates, HandlerStep(c)
      PROVE  Bot!Next
  BY <1>1 DEF HandlerStep, Bot!Handle, Bot!Next
<1>2. ASSUME NEW c \in Updates, CheckInProgress(c) \/ HandlerEnqueues(c)
      PROVE  Bot!Next
  BY <1>2, CheckOfTheBot, EnqueueOfTheBot DEF Bot!Handle, Bot!Next
<1>3. CASE (Exit \/ \E w \in Workers : UploadPanics(w)) /\ HandlersEnd
  BY <1>3, DeathOfTheBot DEF Exit, UploadPanics, storeVars, Bot!Next
<1>4. CASE (Signal \/ Restart) /\ UNCHANGED botVars
  BY <1>4, Unnoticed DEF Signal, Restart, storeVars
<1>5. CASE RedisStep
  BY <1>5 DEF RedisStep, Bot!Next
<1>6. CASE UNCHANGED systemVars
  BY <1>6, Unnoticed DEF systemVars, vars
<1> QED
  BY <1>1, <1>2, <1>3, <1>4, <1>5, <1>6, WorkerOfTheBot DEF SystemNext, ProcessEvent

LEMMA StartOfTheBot == SystemInit => Bot!Init
<1> SUFFICES ASSUME SystemInit
             PROVE  Bot!Init
  OBVIOUS
<1>1. Bot!Pool!Init
  BY InitRefines DEF SystemInit, Service!Init, Bot!Pool!Init
<1>2. Request \in [Updates -> [url : URLs, user : Users, kind : {"message", "inline"}]]
  BY DEF SystemInit, Init, Request
<1> QED
  BY <1>1, <1>2 DEF SystemInit, Init, Bot!Init

\* The handlers cannot tell the map, the channel, the workers and the steps of
\* process from the service that VideoBot takes the pool for: every step of the
\* bot is a step of VideoBot or invisible to it.
THEOREM BotImplementsVideoBot == System => ImplementsVideoBot
<1>1. PoolInv /\ PoolInv' /\ Marks /\ [SystemNext]_systemVars => [Bot!Next]_(Bot!vars)
  BY StepOfTheBot
<1>2. System => Bot!Spec
  BY <1>1, StartOfTheBot, PoolInvHolds, MarksHold, PTL DEF System, Bot!Spec
<1> QED
  BY <1>2 DEF ImplementsVideoBot

-----------------------------------------------------------------------------
(* What is proved of VideoBot, for the bot *)

LEMMA SameCardinality == \A S : Bot!Cardinality(S) = Proved!Cardinality(S)
  BY DEF Bot!Cardinality, Proved!Cardinality

\* Proved speaks of the VideoBot that the bot implements.
LEMMA SameSteps == Bot!Next => Proved!Next
<1> USE DEF Bot!poolVars, Proved!poolVars, Bot!handlerVars, Proved!handlerVars,
            Bot!redisVars, Proved!redisVars, Bot!Inline, Proved!Inline,
            Bot!Goes, Proved!Goes, Bot!Says, Proved!Says
<1>1. \A u : Bot!Pool!InFlight(u) = Proved!Pool!InFlight(u)
  BY DEF Bot!Pool!Active, Proved!Pool!Active, Bot!Pool!InFlight, Proved!Pool!InFlight
<1>2. ASSUME NEW c \in Updates, Bot!GetCachedVideo(c) \/ Bot!AnswerHit(c)
      PROVE  Proved!GetCachedVideo(c) \/ Proved!AnswerHit(c)
  BY <1>2
  DEF Bot!GetCachedVideo, Proved!GetCachedVideo, Bot!AnswerHit, Proved!AnswerHit,
      Bot!Misses, Proved!Misses, Bot!Over, Proved!Over
<1>3. ASSUME NEW c \in Updates, Bot!RateLimit(c) \/ Bot!RateLimitFails(c)
      PROVE  Proved!RateLimit(c) \/ Proved!RateLimitFails(c)
  BY <1>3, SameCardinality
  DEF Bot!RateLimit, Proved!RateLimit, Bot!RateLimitFails, Proved!RateLimitFails,
      Bot!Counts, Proved!Counts
<1>4. ASSUME NEW c \in Updates, Bot!CheckInProgress(c) \/ Bot!AnswerEnqueued(c)
      PROVE  Proved!CheckInProgress(c) \/ Proved!AnswerEnqueued(c)
  BY <1>1, <1>4
  DEF Bot!CheckInProgress, Proved!CheckInProgress, Bot!AnswerEnqueued,
      Proved!AnswerEnqueued, Bot!Refused, Proved!Refused
<1>5. ASSUME NEW c \in Updates, Bot!Enqueue(c)
      PROVE  Proved!Enqueue(c)
  BY <1>1, <1>5
  DEF Bot!Enqueue, Proved!Enqueue, Bot!Pool!Moves, Proved!Pool!Moves,
      Bot!Pool!Claim, Proved!Pool!Claim,
      Bot!Pool!RefuseDuplicate, Proved!Pool!RefuseDuplicate,
      Bot!Pool!Accept, Proved!Pool!Accept, Bot!Pool!Bounce, Proved!Pool!Bounce,
      Bot!Pool!RefuseFull, Proved!Pool!RefuseFull
<1>6. ASSUME NEW c \in Updates, Bot!SetInlineMessageID(c)
      PROVE  Proved!SetInlineMessageID(c)
  BY <1>6
  DEF Bot!SetInlineMessageID, Proved!SetInlineMessageID, Bot!InProgressJob,
      Proved!InProgressJob, Bot!Pool!Active, Proved!Pool!Active
<1>7. ASSUME NEW c \in Updates, Bot!Publish(c) \/ Bot!FinishJob(c)
      PROVE  Proved!Publish(c) \/ Proved!FinishJob(c)
  BY <1>7
  DEF Bot!Publish, Proved!Publish, Bot!FinishJob, Proved!FinishJob,
      Bot!Pool!Finish, Proved!Pool!Finish, Bot!Pool!Moves, Proved!Pool!Moves
<1>8. /\ \A u \in URLs : Bot!FileExpires(u) => Proved!FileExpires(u)
      /\ \A p \in Users : Bot!CounterExpires(p) => Proved!CounterExpires(p)
  BY DEF Bot!FileExpires, Proved!FileExpires, Bot!CounterExpires, Proved!CounterExpires
<1>9. Bot!StartJob => Proved!StartJob
  BY DEF Bot!StartJob, Proved!StartJob, Bot!Pool!Start, Proved!Pool!Start,
         Bot!Pool!Moves, Proved!Pool!Moves
<1>10. Bot!Die => Proved!Die
  BY DEF Bot!Die, Proved!Die, Bot!Pool!Die, Proved!Pool!Die, Bot!Pool!Active,
         Proved!Pool!Active
<1> QED
  BY <1>2, <1>3, <1>4, <1>5, <1>6, <1>7, <1>8, <1>9, <1>10
  DEF Bot!Next, Proved!Next, Bot!Handle, Proved!Handle

LEMMA SameVideoBot == ImplementsVideoBot => Proved!Spec
<1>1. Bot!vars = Proved!vars
  BY DEF Bot!vars, Proved!vars
<1>2. Bot!Init => Proved!Init
  BY DEF Bot!Init, Proved!Init, Bot!Pool!Init, Proved!Pool!Init
<1>3. [Bot!Next]_(Bot!vars) => [Proved!Next]_(Proved!vars)
  BY SameSteps DEF Bot!vars, Proved!vars
<1> QED
  BY <1>2, <1>3, PTL DEF ImplementsVideoBot, Bot!Spec, Proved!Spec

\* On the pool the handlers keep what VideoBot promises whatever the pool: what
\* they say agrees with what becomes of the request, a cached video comes from
\* another request for its link, the limit is exact, and nobody is turned away
\* without a rival.
THEOREM HandlersHoldInTheBot ==
  System => [](/\ Bot!AnswersAgree /\ Bot!HitsComeFromJobs
               /\ Bot!RateLimitIsExact /\ Bot!TurnedAwayForAReason)
<1> USE PoolAssumption, LimitAssumption
<1>1. Proved!Spec => []Proved!AnswersAgree
  BY Proved!AnswersAreTrue
<1>2. Proved!Spec => []Proved!HitsComeFromJobs
  BY Proved!HitsAreJobs
<1>3. Proved!Spec => []Proved!RateLimitIsExact
  BY Proved!LimitIsExact
<1>4. Proved!Spec => []Proved!TurnedAwayForAReason
  BY Proved!NobodyIsTurnedAwayIdly
<1>5. /\ Proved!AnswersAgree => Bot!AnswersAgree
      /\ Proved!HitsComeFromJobs => Bot!HitsComeFromJobs
  BY DEF Bot!AnswersAgree, Proved!AnswersAgree, Bot!Refused, Proved!Refused,
         Bot!HitsComeFromJobs, Proved!HitsComeFromJobs
<1>6. Proved!RateLimitIsExact => Bot!RateLimitIsExact
  BY SameCardinality DEF Bot!RateLimitIsExact, Proved!RateLimitIsExact
<1>7. Proved!TurnedAwayForAReason => Bot!TurnedAwayForAReason
  BY DEF Bot!TurnedAwayForAReason, Proved!TurnedAwayForAReason
<1> QED
  BY <1>1, <1>2, <1>3, <1>4, <1>5, <1>6, <1>7, BotImplementsVideoBot, SameVideoBot, PTL

\* A user is told once how the request ended: a promise is kept or gets a notice,
\* and is on record, unless the process dies first; any other answer is the last
\* word.  The answer is the handler's (bot.go:113-168), the outcome the pool's.
THEOREM OneOutcome == System => []OneOutcomePerRequest
<1>1. PoolInv /\ Marks /\ Bot!AnswersAgree => OneOutcomePerRequest
  <2> SUFFICES ASSUME PoolInv, Marks, Bot!AnswersAgree, NEW c \in Updates
               PROVE  /\ answer[c] = "promise" /\ ~Holds(c) /\ call[c] # "lost" =>
                           pm[c] # "none" /\ records[c] # "none"
                      /\ answer[c] \in {"video", "noVideo", "limited", "busy", "full"} =>
                           pm[c] = "none" /\ records[c] = "none"
    BY DEF OneOutcomePerRequest
  <2>1. Placed(c)
    BY StageByPlace DEF PoolInv, AllPlaced
  <2>2. CASE answer[c] = "promise" /\ ~Holds(c) /\ call[c] # "lost"
    <3>1. Stage[c] \in {"queued", "running", "finished", "lost"}
      BY <2>2 DEF Bot!AnswersAgree
    <3>2. call[c] = "true"
      BY <2>1, <2>2, <3>1 DEF Placed, Holds
    <3> QED
      BY <2>2, <3>2 DEF PoolInv, Answers, AcceptedIsAccountedFor
  <2>3. CASE answer[c] \in {"video", "noVideo", "limited", "busy", "full"}
    <3>1. Stage[c] \in {"waiting", "duplicate", "overflow"}
      BY <2>3 DEF Bot!AnswersAgree, Bot!Refused
    <3> QED
      BY <2>1, <2>3, <3>1 DEF Placed, Marks, Silence
  <2> QED
    BY <2>2, <2>3
<1> QED
  BY <1>1, PoolInvHolds, MarksHold, HandlersHoldInTheBot, PTL

\* A user who is sent a cached video gets one that another request for the same
\* link had uploaded, and that is not on record as a failure: what GetCachedVideo
\* read is what SetCachedVideo stored after the upload (pool.go:139-149).
THEOREM HitsUploaded == System => []HitsWereUploaded
<1>1. System => []Proved!FoundComesFromJobs
  <2>1. Proved!Spec => []Proved!IInv
    BY Proved!Invariance, PoolAssumption, LimitAssumption
  <2>2. Proved!IInv => Proved!FoundComesFromJobs
    BY DEF Proved!IInv
  <2> QED
    BY <2>1, <2>2, BotImplementsVideoBot, SameVideoBot, PTL
<1>2. PoolInv /\ Marks /\ Proved!FoundComesFromJobs => HitsWereUploaded
  <2> SUFFICES ASSUME PoolInv, Marks, Proved!FoundComesFromJobs, NEW c \in Updates,
                      answer[c] \in {"video", "noVideo"}
               PROVE  /\ found[c] # c
                      /\ req[found[c]].url = req[c].url
                      /\ records[found[c]] # "failure"
    BY DEF HitsWereUploaded
  <2>1. found[c] # None /\ found[c] # c /\ Request[found[c]].url = Request[c].url
    BY DEF Proved!FoundComesFromJobs, Proved!FromJobs
  <2>2. found[c] \in published /\ found[c] \in Updates /\ records[found[c]] # "failure"
    BY <2>1 DEF Marks, Publications
  <2> QED
    BY <2>1, <2>2 DEF Request
<1> QED
  BY <1>1, <1>2, PoolInvHolds, MarksHold, PTL
=============================================================================
