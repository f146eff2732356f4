----------------------------- MODULE TgVideoBot -----------------------------
(***************************************************************************)
(* The bot as one process: the handlers of VideoBot on the worker pool of  *)
(* WorkerPool, in the place of the service that VideoBot takes the pool    *)
(* for.                                                                    *)
(*                                                                         *)
(* Handlers and workers are goroutines of one process.  They meet in the   *)
(* pool's map and channel and in Redis, where SetCachedVideo of a worker   *)
(* writes what GetCachedVideo of a handler reads, and they end together.   *)
(* Handlers run on a context that nothing cancels, so a signal stops the   *)
(* workers only.                                                           *)
(*                                                                         *)
(* The variables of WorkerPool are the pool and the stores; those declared *)
(* here are the handlers and what VideoBot remembers of Redis.             *)
(***************************************************************************)
EXTENDS WorkerPool

CONSTANT Limit    \* Config.RateLimitPerHour

ASSUME LimitAssumption == Limit \in Nat

VARIABLES
  kind,       \* how each update asks: by a message or inline
  \* The handlers:
  pc,         \* what the handler of each update does next
  found,      \* the cached file_id it has found
  before,     \* the requests for the URL that were over when it missed
  unlimited,  \* the requests whose IncrRateLimit failed
  answer,     \* what the user was told
  chosen,     \* whether the chosen result of an inline answer was stored
  \* Redis, beside the variables of WorkerPool:
  published,  \* the jobs that have stored their file_id
  counted     \* the requests behind the rate counter of each user

handlerVars == <<kind, pc, found, before, unlimited, answer, chosen>>
botVars     == <<kind, pc, found, before, unlimited, answer, chosen, published, counted>>
systemVars  == <<vars, botVars>>

\* What a handler asks for.
Request == [c \in Updates |-> [url |-> req[c].url, user |-> req[c].user,
                               kind |-> kind[c]]]

Bot == INSTANCE VideoBot WITH req <- Request, stage <- Stage, queue <- jobs

SystemInit ==
  /\ Init
  /\ kind \in [Updates -> {"message", "inline"}]
  /\ pc = [c \in Updates |-> "lookup"]
  /\ found = [c \in Updates |-> None]
  /\ before = [c \in Updates |-> {}]
  /\ unlimited = {}
  /\ answer = [c \in Updates |-> "none"]
  /\ chosen = [c \in Updates |-> "none"]
  /\ published = {}
  /\ counted = [p \in Users |-> {}]

\* A step of a handler outside the pool.
HandlerStep(c) ==
  /\ alive
  /\ UNCHANGED <<vars, kind>>
  /\ \/ Bot!GetCachedVideo(c) \/ Bot!AnswerHit(c)
     \/ Bot!RateLimit(c) \/ Bot!RateLimitFails(c)
     \/ Bot!AnswerEnqueued(c) \/ Bot!SetInlineMessageID(c)

\* IsInProgress, of the keys of the map.
CheckInProgress(c) ==
  /\ alive
  /\ UNCHANGED <<vars, kind, found, before, unlimited, published, counted>>
  /\ IF req[c].url \in inProgress
       THEN Bot!Says(c, "check", IF kind[c] = "inline" THEN "loading" ELSE "busy")
       ELSE Bot!Goes(c, "check", "enqueue")

\* Wrong: the handler calls Enqueue though its URL is in progress.
WrongHandlerEnqueues(c) ==
  /\ pc[c] \in {"check", "enqueue"}
  /\ EnqueueStep(c)
  /\ UNCHANGED botVars

\* Enqueue, on the goroutine of the handler.
HandlerEnqueues(c) ==
  /\ pc[c] = "enqueue"
  /\ EnqueueStep(c)
  /\ UNCHANGED botVars

\* A worker, and the handlers that may find what it stores.
PoolStep(w) ==
  /\ WorkerStep(w)
  /\ published' = published \cup (Range(cached') \ {None})
  /\ UNCHANGED <<handlerVars, counted>>

\* The end of the process is the end of its handlers.
HandlersEnd ==
  /\ pc' = [c \in Updates |-> IF pc[c] \in {"lookup", "done"} THEN pc[c] ELSE "gone"]
  /\ UNCHANGED <<kind, found, before, unlimited, answer, chosen, published, counted>>

ProcessEvent ==
  \/ Signal /\ UNCHANGED botVars
  \/ Restart /\ UNCHANGED botVars
  \/ Exit /\ HandlersEnd
  \/ \E w \in Workers : UploadPanics(w) /\ HandlersEnd

\* Keys of Redis expire, whether or not the process is there.
RedisStep ==
  /\ UNCHANGED <<poolVars, tmpDirs, pushed, bumped, pm, records, kind>>
  /\ \/ \E u \in URLs : Bot!FileExpires(u)
     \/ \E p \in Users : Bot!CounterExpires(p)

SystemNext ==
  \/ \E c \in Updates : HandlerStep(c) \/ CheckInProgress(c) \/ HandlerEnqueues(c)
  \/ \E w \in Workers : PoolStep(w)
  \/ ProcessEvent
  \/ RedisStep

System == SystemInit /\ [][SystemNext]_systemVars

-----------------------------------------------------------------------------
(* What must hold *)

\* The handlers cannot tell the pool from the service it promises to be: the
\* whole bot does what VideoBot says of it.
ImplementsVideoBot == Bot!Spec

\* A user is told once how the request ended.  Who was promised the video gets
\* it or a notice, with the outcome on record, unless the process dies first;
\* who was given a cached video, or turned away, hears nothing of the pool.
OneOutcomePerRequest ==
  \A c \in Updates :
    /\ answer[c] = "promise" /\ ~Holds(c) /\ call[c] # "lost" =>
         pm[c] # "none" /\ records[c] # "none"
    /\ answer[c] \in {"video", "noVideo", "limited", "busy", "full"} =>
         pm[c] = "none" /\ records[c] = "none"

\* A cached video that a user is sent was uploaded by another request for the
\* same link, one that is not on record as failed.
HitsWereUploaded ==
  \A c \in Updates : answer[c] \in {"video", "noVideo"} =>
    /\ found[c] # c
    /\ req[found[c]].url = req[c].url
    /\ records[found[c]] # "failure"
=============================================================================
