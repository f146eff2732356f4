------------------------------- MODULE VideoBot -------------------------------
(***************************************************************************)
(* The handlers of internal/bot that lead to a download, handleMessage and *)
(* handleInline, put together with the worker pool and with what they ask  *)
(* Redis: is the video cached, and has the user asked too often?           *)
(*                                                                         *)
(* The pool appears as what it promises, DownloadService, which WorkerPool *)
(* implements.  An update is one message or inline query with a valid      *)
(* link.  main starts a goroutine for each, so handlers interleave with    *)
(* each other, with the workers and with the expiry of the keys in Redis,  *)
(* and the pool may change between any two questions they ask it.          *)
(*                                                                         *)
(* Empty inline queries and the history are in InlineHistory.  The         *)
(* goroutine that a cache hit starts changes the history and the lifetime  *)
(* of the cached file_id; keys expire here at any time, so it has nothing  *)
(* to add.                                                                 *)
(***************************************************************************)
EXTENDS Naturals, Sequences, FiniteSets

CONSTANTS
  Updates,    \* the updates that carry a valid link
  URLs,       \* the normalised links
  Users,      \* the Telegram users
  Capacity,   \* the buffer of the pool's channel
  Limit,      \* Config.RateLimitPerHour
  None        \* no update

ASSUME BotAssumption ==
  /\ Capacity \in Nat
  /\ Limit \in Nat
  /\ None \notin Updates

VARIABLES
  \* The pool:
  req,        \* what each update asks for, by whom, and how
  stage,      \* how far its request has got in the pool
  queue,      \* the accepted requests nobody has started
  \* The handlers:
  pc,         \* what the handler of each update does next
  found,      \* the cached file_id it has found, named by the update of its job
  before,     \* the requests for the URL that were over when it missed
  unlimited,  \* the requests whose IncrRateLimit failed
  answer,     \* what the user was told
  chosen,     \* whether the chosen result of an inline answer was stored
  \* Redis:
  cached,     \* the file_id stored for each URL
  published,  \* the jobs that have stored theirs
  counted     \* the requests behind the rate counter of each user

poolVars    == <<stage, queue>>
handlerVars == <<pc, found, before, unlimited, answer, chosen>>
redisVars   == <<cached, published, counted>>
vars == <<req, stage, queue, pc, found, before, unlimited, answer, chosen,
          cached, published, counted>>

Pool == INSTANCE DownloadService

Answers == {"none", "video", "noVideo", "limited", "busy", "promise", "full",
            "loading"}

Inline(c) == req[c].kind = "inline"

\* The two ways in which Enqueue returns false.
Refused == {"duplicate", "overflow"}

\* The request held the claim on its URL, and has given it up.
Over(c) == stage[c] \in {"overflow", "finished", "lost"}

\* The handler of c has asked the cache in vain, and goes on to the pool.
Misses(c) ==
  before' = [before EXCEPT ![c] =
               {d \in Updates : req[d].url = req[c].url /\ Over(d)}]

Init ==
  /\ req \in [Updates -> [url : URLs, user : Users, kind : {"message", "inline"}]]
  /\ Pool!Init
  /\ pc = [c \in Updates |-> "lookup"]
  /\ found = [c \in Updates |-> None]
  /\ before = [c \in Updates |-> {}]
  /\ unlimited = {}
  /\ answer = [c \in Updates |-> "none"]
  /\ chosen = [c \in Updates |-> "none"]
  /\ cached = [u \in URLs |-> None]
  /\ published = {}
  /\ counted = [p \in Users |-> {}]

-----------------------------------------------------------------------------
(* handleMessage and handleInline *)

\* The handler moves on without a word to the user.
Goes(c, from, to) ==
  /\ pc[c] = from
  /\ pc' = [pc EXCEPT ![c] = to]
  /\ UNCHANGED <<req, answer, chosen>>

\* The handler answers and returns.
Says(c, from, text) ==
  /\ pc[c] = from
  /\ pc' = [pc EXCEPT ![c] = "done"]
  /\ answer' = [answer EXCEPT ![c] = text]
  /\ UNCHANGED <<req, chosen>>

\* Wrong: a stored value that is not there is used as well.
WrongGetCachedVideo(c) ==
  /\ Goes(c, "lookup", "hit")
  /\ found' = [found EXCEPT ![c] = cached[req[c].url]]
  /\ UNCHANGED <<before, unlimited>>
  /\ UNCHANGED poolVars
  /\ UNCHANGED redisVars

\* GetCachedVideo.  An error is logged and taken for a miss.  After a miss an
\* inline query is counted; a message is not.
GetCachedVideo(c) ==
  /\ \/ /\ cached[req[c].url] # None
        /\ Goes(c, "lookup", "hit")
        /\ found' = [found EXCEPT ![c] = cached[req[c].url]]
        /\ UNCHANGED before
     \/ /\ Goes(c, "lookup", IF Inline(c) THEN "limit" ELSE "check")
        /\ Misses(c)
        /\ UNCHANGED found
  /\ UNCHANGED unlimited
  /\ UNCHANGED poolVars
  /\ UNCHANGED redisVars

\* The cached video is the answer.  Sending it to a chat may fail.
AnswerHit(c) ==
  /\ \/ Says(c, "hit", "video")
     \/ ~Inline(c) /\ Says(c, "hit", "noVideo")
  /\ UNCHANGED <<found, before, unlimited>>
  /\ UNCHANGED poolVars
  /\ UNCHANGED redisVars

\* IncrRateLimit counts the request under its user's key.
Counts(c) == counted' = [counted EXCEPT ![req[c].user] = @ \cup {c}]

\* Wrong: the request that reaches the limit is turned away already.
WrongRateLimit(c) ==
  /\ Counts(c)
  /\ IF Cardinality(counted[req[c].user]) + 1 >= Limit
       THEN Says(c, "limit", "limited")
       ELSE Goes(c, "limit", "check")
  /\ UNCHANGED <<found, before, unlimited, cached, published>>
  /\ UNCHANGED poolVars

\* The request that exceeds the limit is turned away.
RateLimit(c) ==
  /\ Counts(c)
  /\ IF Cardinality(counted[req[c].user]) + 1 > Limit
       THEN Says(c, "limit", "limited")
       ELSE Goes(c, "limit", "check")
  /\ UNCHANGED <<found, before, unlimited, cached, published>>
  /\ UNCHANGED poolVars

\* If the pipeline fails, the request may or may not have been counted, and it is
\* let through.
RateLimitFails(c) ==
  /\ Counts(c) \/ UNCHANGED counted
  /\ Goes(c, "limit", "check")
  /\ unlimited' = unlimited \cup {c}
  /\ UNCHANGED <<found, before, cached, published>>
  /\ UNCHANGED poolVars

\* Wrong: a download of any other URL counts.
WrongCheckInProgress(c) ==
  /\ IF \A u \in URLs : Pool!InFlight(u) = {}
       THEN Goes(c, "check", "enqueue")
       ELSE Says(c, "check", IF Inline(c) THEN "loading" ELSE "busy")
  /\ UNCHANGED <<found, before, unlimited>>
  /\ UNCHANGED poolVars
  /\ UNCHANGED redisVars

\* IsInProgress.
CheckInProgress(c) ==
  /\ IF Pool!InFlight(req[c].url) = {}
       THEN Goes(c, "check", "enqueue")
       ELSE Says(c, "check", IF Inline(c) THEN "loading" ELSE "busy")
  /\ UNCHANGED <<found, before, unlimited>>
  /\ UNCHANGED poolVars
  /\ UNCHANGED redisVars

\* Enqueue, in the steps the pool takes.
Enqueue(c) ==
  /\ pc[c] = "enqueue"
  /\ \/ Pool!Claim(c) \/ Pool!RefuseDuplicate(c)
     \/ Pool!Accept(c) \/ Pool!Bounce(c) \/ Pool!RefuseFull(c)
  /\ UNCHANGED handlerVars
  /\ UNCHANGED redisVars

\* Wrong: what Enqueue returned is not looked at.
WrongAnswerEnqueued(c) ==
  /\ stage[c] \in Refused \cup {"queued", "running", "finished"}
  /\ Says(c, "enqueue", IF Inline(c) THEN "loading" ELSE "promise")
  /\ UNCHANGED <<found, before, unlimited>>
  /\ UNCHANGED poolVars
  /\ UNCHANGED redisVars

\* The answer after Enqueue has returned.  An accepted request may have been
\* finished by then.  An inline query is answered with the loading stub, whatever
\* Enqueue returned.
AnswerEnqueued(c) ==
  /\ stage[c] \in Refused \cup {"queued", "running", "finished"}
  /\ Says(c, "enqueue", IF Inline(c) THEN "loading"
                        ELSE IF stage[c] \in Refused THEN "full" ELSE "promise")
  /\ UNCHANGED <<found, before, unlimited>>
  /\ UNCHANGED poolVars
  /\ UNCHANGED redisVars

\* What Enqueue stores under a URL in inProgress: struct{}{}, and no Job.
InProgressJob(c) == None

\* The user picks the loading stub, and handleChosenInlineResult calls
\* SetInlineMessageID, which looks among the values of inProgress for a Job
\* with the stub's result id.  The hash of the URL is that id.
SetInlineMessageID(c) ==
  /\ answer[c] = "loading"
  /\ chosen[c] = "none"
  /\ \E text \in {"stored", "dropped"} :
       /\ text = "stored" <=>
            \E d \in Updates : /\ stage[d] \in Pool!Active
                               /\ InProgressJob(d) # None
                               /\ Inline(InProgressJob(d))
                               /\ req[InProgressJob(d)].url = req[c].url
       /\ chosen' = [chosen EXCEPT ![c] = text]
  /\ UNCHANGED <<req, pc, found, before, unlimited, answer>>
  /\ UNCHANGED poolVars
  /\ UNCHANGED redisVars

-----------------------------------------------------------------------------
(* The workers, Redis and the process *)

StartJob ==
  /\ Pool!Start
  /\ UNCHANGED handlerVars
  /\ UNCHANGED redisVars

\* Wrong: the file_id is stored for a job that is still queued.
WrongPublish(c) ==
  /\ stage[c] \in {"queued", "running"}
  /\ c \notin published
  /\ cached' = [cached EXCEPT ![req[c].url] = c]
  /\ published' = published \cup {c}
  /\ UNCHANGED <<req, counted>>
  /\ UNCHANGED poolVars
  /\ UNCHANGED handlerVars

\* The job of the update has uploaded its video and calls SetCachedVideo.
Publish(c) ==
  /\ stage[c] = "running"
  /\ c \notin published
  /\ cached' = [cached EXCEPT ![req[c].url] = c]
  /\ published' = published \cup {c}
  /\ UNCHANGED <<req, counted>>
  /\ UNCHANGED poolVars
  /\ UNCHANGED handlerVars

\* The job ends, whether or not it published.
FinishJob(c) ==
  /\ Pool!Finish(c)
  /\ UNCHANGED handlerVars
  /\ UNCHANGED redisVars

\* The key of a cached file_id expires.
FileExpires(u) ==
  /\ cached[u] # None
  /\ cached' = [cached EXCEPT ![u] = None]
  /\ UNCHANGED <<req, published, counted>>
  /\ UNCHANGED poolVars
  /\ UNCHANGED handlerVars

\* The key of a rate counter expires.
CounterExpires(p) ==
  /\ counted[p] # {}
  /\ counted' = [counted EXCEPT ![p] = {}]
  /\ UNCHANGED <<req, cached, published>>
  /\ UNCHANGED poolVars
  /\ UNCHANGED handlerVars

\* The process ends, with its pool and its handlers, and is started again.
Die ==
  /\ Pool!Die
  /\ pc' = [c \in Updates |-> IF pc[c] \in {"lookup", "done"} THEN pc[c] ELSE "gone"]
  /\ UNCHANGED <<found, before, unlimited, answer, chosen>>
  /\ UNCHANGED redisVars

-----------------------------------------------------------------------------
Handle(c) ==
  \/ GetCachedVideo(c) \/ AnswerHit(c)
  \/ RateLimit(c) \/ RateLimitFails(c)
  \/ CheckInProgress(c) \/ Enqueue(c) \/ AnswerEnqueued(c)
  \/ SetInlineMessageID(c)

Next ==
  \/ \E c \in Updates : Handle(c) \/ Publish(c) \/ FinishJob(c)
  \/ \E u \in URLs : FileExpires(u)
  \/ \E p \in Users : CounterExpires(p)
  \/ StartJob
  \/ Die

Spec == Init /\ [][Next]_vars

-----------------------------------------------------------------------------
(* What must hold *)

\* The variables keep to their types, the queue to its capacity, and a handler
\* that takes a cached video has one.
TypeOK ==
  /\ req \in [Updates -> [url : URLs, user : Users, kind : {"message", "inline"}]]
  /\ stage \in [Updates -> Pool!Active \cup Refused \cup {"waiting", "finished", "lost"}]
  /\ queue \in Seq(Updates)
  /\ Len(queue) <= Capacity
  /\ pc \in [Updates -> {"lookup", "hit", "limit", "check", "enqueue", "done", "gone"}]
  /\ found \in [Updates -> Updates \cup {None}]
  /\ \A c \in Updates : pc[c] = "hit" => found[c] # None
  /\ before \in [Updates -> SUBSET Updates]
  /\ unlimited \in SUBSET Updates
  /\ answer \in [Updates -> Answers]
  /\ chosen \in [Updates -> {"none", "stored", "dropped"}]
  /\ cached \in [URLs -> Updates \cup {None}]
  /\ published \in SUBSET Updates
  /\ counted \in [Users -> SUBSET Updates]

\* What a user was told agrees with what the pool did: a promise was made for an
\* accepted request only, "the queue is full" was said of a refused one, and
\* every other answer to a message left the pool alone.
AnswersAgree ==
  \A c \in Updates :
    /\ answer[c] = "promise" => stage[c] \in {"queued", "running", "finished", "lost"}
    /\ answer[c] = "full" => stage[c] \in Refused
    /\ answer[c] \in {"video", "noVideo", "limited", "busy"} => stage[c] = "waiting"

\* A user who is answered from the cache gets a video that another request for
\* the same URL had the pool download.
HitsComeFromJobs ==
  \A c \in Updates : answer[c] \in {"video", "noVideo"} =>
    /\ found[c] # c
    /\ req[found[c]].url = req[c].url
    /\ stage[found[c]] \in {"running", "finished", "lost"}

\* Between two expiries of a user's counter at most Limit requests that could
\* be counted are let through, and none is turned away unless Limit others were
\* let through.
RateLimitIsExact ==
  \A p \in Users :
    LET through == {c \in counted[p] : answer[c] # "limited"} IN
      /\ Cardinality(through \ unlimited) <= Limit
      /\ through # counted[p] => Cardinality(through) >= Limit

\* Nobody is turned away without a rival.  If a request is answered "already
\* downloading" or refused as a duplicate, then another request held the claim on
\* the URL while the handler ran: no claim of an earlier download, refusal or
\* process is left standing.  The rival need not have been downloaded: it may have
\* met a full queue a moment later, and then "the video is being downloaded"
\* (bot.go:166, inline.go:277) is not true.
TurnedAwayForAReason ==
  \A c \in Updates :
    answer[c] \in {"busy", "full", "loading"} /\ stage[c] \in {"waiting", "duplicate"} =>
      \E d \in Updates \ before[c] : /\ req[d].url = req[c].url
                                   /\ stage[d] \notin {"waiting", "duplicate"}

\* bot.go:163 tells the user that the queue is full: as many other requests as
\* the queue has places have been accepted by then.
FullMeansFull ==
  \A c \in Updates : answer[c] = "full" =>
    Cardinality({d \in Updates \ {c} :
                   stage[d] \in {"queued", "running", "finished", "lost"}})
      >= Capacity

\* pool.go:225-226 says that SetInlineMessageID stores the message id if the
\* result id belongs to a job in progress.
ChosenResultIsFound ==
  [][\A c \in Updates :
       /\ chosen[c] # chosen'[c]
       /\ \E d \in Updates : /\ stage[d] \in Pool!Active
                             /\ Inline(d)
                             /\ req[d].url = req[c].url
       => chosen'[c] = "stored"]_vars
=============================================================================
