--------------------------- MODULE VideoBotProofs ---------------------------
(***************************************************************************)
(* What the handlers promise, for any number of updates, links and users   *)
(* and for any capacity and limit, proved from one inductive invariant.    *)
(* The pool takes part as DownloadService.                                 *)
(***************************************************************************)
EXTENDS VideoBot, FiniteSetTheorems, TLAPS

USE BotAssumption

-----------------------------------------------------------------------------
(* The parts of the inductive invariant *)

\* A handler asks the pool last and answers once.
Handlers ==
  \A c \in Updates :
    /\ stage[c] # "waiting" => pc[c] \in {"enqueue", "done", "gone"}
    /\ answer[c] # "none" => pc[c] = "done"

\* What is cached for a URL, or was found there, comes from a job for the URL.
FromJobs(d, url) == req[d].url = url /\ stage[d] \in {"running", "finished", "lost"}

CachedComesFromJobs ==
  \A u \in URLs : cached[u] # None => FromJobs(cached[u], u)

FoundComesFromJobs ==
  \A c \in Updates :
    /\ found[c] # None => found[c] # c /\ FromJobs(found[c], req[c].url)
    /\ answer[c] \in {"video", "noVideo"} => found[c] # None

\* A request is counted once, by its own handler.
CountedOnce ==
  \A p \in Users :
    /\ IsFiniteSet(counted[p])
    /\ \A c \in counted[p] : pc[c] \notin {"lookup", "hit", "limit"}

IInv ==
  /\ TypeOK
  /\ Handlers
  /\ AnswersAgree
  /\ CachedComesFromJobs
  /\ FoundComesFromJobs
  /\ CountedOnce
  /\ RateLimitIsExact

LEMMA InitHolds == Init => IInv
<1> SUFFICES ASSUME Init PROVE IInv
  OBVIOUS
<1> USE DEF Init, Pool!Init
<1>1. TypeOK
  BY DEF TypeOK, Answers, Refused, Pool!Active
<1>2. Handlers /\ AnswersAgree /\ CachedComesFromJobs /\ FoundComesFromJobs
  BY DEF Handlers, AnswersAgree, CachedComesFromJobs, FoundComesFromJobs
<1>3. CountedOnce
  BY FS_EmptySet DEF CountedOnce
<1>4. RateLimitIsExact
  <2> SUFFICES ASSUME NEW p \in Users
               PROVE  /\ Cardinality({c \in counted[p] : answer[c] # "limited"} \ unlimited) <= Limit
                      /\ {c \in counted[p] : answer[c] # "limited"} = counted[p]
    BY DEF RateLimitIsExact
  <2>1. {c \in counted[p] : answer[c] # "limited"} = {} /\ {} \ unlimited = {}
    OBVIOUS
  <2> QED
    BY <2>1, FS_EmptySet
<1> QED
  BY <1>1, <1>2, <1>3, <1>4 DEF IInv

-----------------------------------------------------------------------------
(* What the steps keep *)

\* Counting a request leaves the counters sets of requests.
LEMMA CountsKeepsTypes ==
  ASSUME TypeOK, NEW c \in Updates, Counts(c)
  PROVE  counted' \in [Users -> SUBSET Updates]
<1>1. counted \in [Users -> SUBSET Updates]
  BY DEF TypeOK
<1> QED
  BY <1>1 DEF Counts

LEMMA TypeKept == ASSUME TypeOK, Next PROVE TypeOK'
<1> USE DEF TypeOK, Answers, Refused, poolVars, handlerVars, redisVars, Pool!Active
<1>1. ASSUME NEW c \in Updates, GetCachedVideo(c) PROVE TypeOK'
  <2>1. before' \in [Updates -> SUBSET Updates]
    BY <1>1 DEF GetCachedVideo, Misses
  <2>2. CASE Goes(c, "lookup", "hit")
    BY <1>1, <2>1, <2>2 DEF GetCachedVideo, Goes
  <2>3. CASE \E to \in {"limit", "check"} : Goes(c, "lookup", to) /\ UNCHANGED found
    BY <1>1, <2>1, <2>3 DEF GetCachedVideo, Goes
  <2> QED
    BY <1>1, <2>2, <2>3 DEF GetCachedVideo
<1>2. ASSUME NEW c \in Updates, AnswerHit(c) PROVE TypeOK'
  <2>1. CASE Says(c, "hit", "video")
    BY <1>2, <2>1 DEF AnswerHit, Says
  <2>2. CASE Says(c, "hit", "noVideo")
    BY <1>2, <2>2 DEF AnswerHit, Says
  <2> QED
    BY <1>2, <2>1, <2>2 DEF AnswerHit
<1>3. ASSUME NEW c \in Updates, RateLimit(c) PROVE TypeOK'
  <2>0. counted' \in [Users -> SUBSET Updates]
    BY <1>3, CountsKeepsTypes DEF RateLimit
  <2>1. CASE Goes(c, "limit", "check")
    BY <1>3, <2>0, <2>1 DEF RateLimit, Goes
  <2>2. CASE Says(c, "limit", "limited")
    BY <1>3, <2>0, <2>2 DEF RateLimit, Says
  <2> QED
    BY <1>3, <2>1, <2>2 DEF RateLimit
<1>4. ASSUME NEW c \in Updates, RateLimitFails(c) PROVE TypeOK'
  <2>1. CASE Counts(c)
    BY <1>4, <2>1, CountsKeepsTypes DEF RateLimitFails, Goes
  <2>2. CASE UNCHANGED counted
    BY <1>4, <2>2 DEF RateLimitFails, Goes
  <2> QED
    BY <1>4, <2>1, <2>2 DEF RateLimitFails
<1>5. ASSUME NEW c \in Updates, CheckInProgress(c) PROVE TypeOK'
  <2>1. CASE Goes(c, "check", "enqueue")
    BY <1>5, <2>1 DEF CheckInProgress, Goes
  <2>2. CASE \E text \in {"loading", "busy"} : Says(c, "check", text)
    BY <1>5, <2>2 DEF CheckInProgress, Says
  <2> QED
    BY <1>5, <2>1, <2>2 DEF CheckInProgress
<1>6. ASSUME NEW c \in Updates, Enqueue(c) PROVE TypeOK'
  <2> USE DEF Pool!Moves
  <2>1. CASE Pool!Claim(c)
    BY <1>6, <2>1 DEF Enqueue, Pool!Claim
  <2>2. CASE Pool!RefuseDuplicate(c)
    BY <1>6, <2>2 DEF Enqueue, Pool!RefuseDuplicate
  <2>3. CASE Pool!Accept(c)
    BY <1>6, <2>3 DEF Enqueue, Pool!Accept
  <2>4. CASE Pool!Bounce(c)
    BY <1>6, <2>4 DEF Enqueue, Pool!Bounce
  <2>5. CASE Pool!RefuseFull(c)
    BY <1>6, <2>5 DEF Enqueue, Pool!RefuseFull
  <2> QED
    BY <1>6, <2>1, <2>2, <2>3, <2>4, <2>5 DEF Enqueue
<1>7. ASSUME NEW c \in Updates, AnswerEnqueued(c) PROVE TypeOK'
  BY <1>7 DEF AnswerEnqueued, Says
<1>8. ASSUME NEW c \in Updates, SetInlineMessageID(c) PROVE TypeOK'
  BY <1>8 DEF SetInlineMessageID
<1>9. ASSUME NEW c \in Updates, Publish(c) PROVE TypeOK'
  BY <1>9 DEF Publish
<1>10. ASSUME NEW c \in Updates, FinishJob(c) PROVE TypeOK'
  BY <1>10 DEF FinishJob, Pool!Finish, Pool!Moves
<1>11. ASSUME NEW u \in URLs, FileExpires(u) PROVE TypeOK'
  BY <1>11 DEF FileExpires
<1>12. ASSUME NEW p \in Users, CounterExpires(p) PROVE TypeOK'
  BY <1>12 DEF CounterExpires
<1>13. ASSUME StartJob PROVE TypeOK'
  BY <1>13 DEF StartJob, Pool!Start, Pool!Moves
<1>14. ASSUME Die PROVE TypeOK'
  BY <1>14 DEF Die, Pool!Die, Pool!Active
<1> QED
  BY <1>1, <1>2, <1>3, <1>4, <1>5, <1>6, <1>7, <1>8, <1>9, <1>10, <1>11, <1>12,
     <1>13, <1>14 DEF Next, Handle

\* A promise is made for an accepted request, and a request is accepted by its
\* own handler only.
LEMMA AnswersKept ==
  ASSUME TypeOK, Handlers, AnswersAgree, Next
  PROVE  Handlers' /\ AnswersAgree'
<1> DEFINE Kept == Handlers' /\ AnswersAgree'
<1> USE DEF TypeOK, Handlers, AnswersAgree, Refused, poolVars, handlerVars, redisVars
<1>1. ASSUME NEW c \in Updates, GetCachedVideo(c) PROVE Kept
  <2>1. CASE Goes(c, "lookup", "hit")
    BY <1>1, <2>1 DEF GetCachedVideo, Goes
  <2>2. CASE Goes(c, "lookup", "limit") /\ UNCHANGED found
    BY <1>1, <2>2 DEF GetCachedVideo, Goes
  <2>3. CASE Goes(c, "lookup", "check") /\ UNCHANGED found
    BY <1>1, <2>3 DEF GetCachedVideo, Goes
  <2> QED
    BY <1>1, <2>1, <2>2, <2>3 DEF GetCachedVideo
<1>2. ASSUME NEW c \in Updates, AnswerHit(c) PROVE Kept
  <2>1. CASE Says(c, "hit", "video")
    BY <1>2, <2>1 DEF AnswerHit, Says
  <2>2. CASE Says(c, "hit", "noVideo")
    BY <1>2, <2>2 DEF AnswerHit, Says
  <2> QED
    BY <1>2, <2>1, <2>2 DEF AnswerHit
<1>3. ASSUME NEW c \in Updates, RateLimit(c) PROVE Kept
  <2>1. CASE Goes(c, "limit", "check")
    BY <1>3, <2>1 DEF RateLimit, Goes
  <2>2. CASE Says(c, "limit", "limited")
    BY <1>3, <2>2 DEF RateLimit, Says
  <2> QED
    BY <1>3, <2>1, <2>2 DEF RateLimit
<1>4. ASSUME NEW c \in Updates, RateLimitFails(c) PROVE Kept
  BY <1>4 DEF RateLimitFails, Counts, Goes
<1>5. ASSUME NEW c \in Updates, CheckInProgress(c) PROVE Kept
  <2>1. CASE Goes(c, "check", "enqueue")
    BY <1>5, <2>1 DEF CheckInProgress, Goes
  <2>2. CASE \E text \in {"loading", "busy"} : Says(c, "check", text)
    BY <1>5, <2>2 DEF CheckInProgress, Says
  <2> QED
    BY <1>5, <2>1, <2>2 DEF CheckInProgress
<1>6. ASSUME NEW c \in Updates, Enqueue(c) PROVE Kept
  <2> USE DEF Pool!Moves
  <2>1. CASE Pool!Claim(c)
    BY <1>6, <2>1 DEF Enqueue, Pool!Claim
  <2>2. CASE Pool!RefuseDuplicate(c)
    BY <1>6, <2>2 DEF Enqueue, Pool!RefuseDuplicate
  <2>3. CASE Pool!Accept(c)
    BY <1>6, <2>3 DEF Enqueue, Pool!Accept
  <2>4. CASE Pool!Bounce(c)
    BY <1>6, <2>4 DEF Enqueue, Pool!Bounce
  <2>5. CASE Pool!RefuseFull(c)
    BY <1>6, <2>5 DEF Enqueue, Pool!RefuseFull
  <2> QED
    BY <1>6, <2>1, <2>2, <2>3, <2>4, <2>5 DEF Enqueue
<1>7. ASSUME NEW c \in Updates, AnswerEnqueued(c) PROVE Kept
  BY <1>7 DEF AnswerEnqueued, Says
<1>8. ASSUME NEW c \in Updates, SetInlineMessageID(c) PROVE Kept
  BY <1>8 DEF SetInlineMessageID
<1>9. ASSUME NEW c \in Updates, Publish(c) PROVE Kept
  BY <1>9 DEF Publish
<1>10. ASSUME NEW c \in Updates, FinishJob(c) PROVE Kept
  BY <1>10 DEF FinishJob, Pool!Finish, Pool!Moves
<1>11. ASSUME NEW u \in URLs, FileExpires(u) PROVE Kept
  BY <1>11 DEF FileExpires
<1>12. ASSUME NEW p \in Users, CounterExpires(p) PROVE Kept
  BY <1>12 DEF CounterExpires
<1>13. ASSUME StartJob PROVE Kept
  BY <1>13 DEF StartJob, Pool!Start, Pool!Moves
<1>14. ASSUME Die PROVE Kept
  BY <1>14 DEF Die, Pool!Die, Pool!Active
<1> QED
  BY <1>1, <1>2, <1>3, <1>4, <1>5, <1>6, <1>7, <1>8, <1>9, <1>10, <1>11, <1>12,
     <1>13, <1>14 DEF Next, Handle

\* The stages of a job whose file_id is known do not go back.
LEMMA HitsKept ==
  ASSUME TypeOK, Handlers, CachedComesFromJobs, FoundComesFromJobs, Next
  PROVE  CachedComesFromJobs' /\ FoundComesFromJobs'
<1> DEFINE Kept == CachedComesFromJobs' /\ FoundComesFromJobs'
<1> USE DEF TypeOK, Handlers, CachedComesFromJobs, FoundComesFromJobs, FromJobs,
            poolVars, handlerVars, redisVars
<1>1. ASSUME NEW c \in Updates, GetCachedVideo(c) PROVE Kept
  <2>1. CASE Goes(c, "lookup", "hit")
    <3>1. /\ UNCHANGED <<req, stage, cached, answer>>
          /\ stage[c] = "waiting" /\ answer[c] = "none"
      BY <1>1, <2>1 DEF GetCachedVideo, Goes
    <3>2. \/ found' = found
          \/ /\ cached[req[c].url] # None
             /\ found' = [found EXCEPT ![c] = cached[req[c].url]]
      BY <1>1 DEF GetCachedVideo
    <3>3. cached[req[c].url] # None => FromJobs(cached[req[c].url], req[c].url)
      BY DEF TypeOK
    <3>4. CachedComesFromJobs'
      BY <3>1
    <3>5. \A d \in Updates : found'[d] = found[d] \/ (d = c /\ found'[d] # c
                               /\ FromJobs(found'[d], req[d].url))
      BY <3>1, <3>2, <3>3
    <3> QED
      BY <3>1, <3>2, <3>4, <3>5
  <2>2. CASE Goes(c, "lookup", "limit") /\ UNCHANGED found
    BY <1>1, <2>2 DEF GetCachedVideo, Goes
  <2>3. CASE Goes(c, "lookup", "check") /\ UNCHANGED found
    BY <1>1, <2>3 DEF GetCachedVideo, Goes
  <2> QED
    BY <1>1, <2>1, <2>2, <2>3 DEF GetCachedVideo
<1>2. ASSUME NEW c \in Updates, AnswerHit(c) PROVE Kept
  <2>1. CASE Says(c, "hit", "video")
    BY <1>2, <2>1 DEF AnswerHit, Says
  <2>2. CASE Says(c, "hit", "noVideo")
    BY <1>2, <2>2 DEF AnswerHit, Says
  <2> QED
    BY <1>2, <2>1, <2>2 DEF AnswerHit
<1>3. ASSUME NEW c \in Updates, RateLimit(c) PROVE Kept
  BY <1>3 DEF RateLimit, Counts, Goes, Says
<1>4. ASSUME NEW c \in Updates, RateLimitFails(c) PROVE Kept
  BY <1>4 DEF RateLimitFails, Counts, Goes
<1>5. ASSUME NEW c \in Updates, CheckInProgress(c) PROVE Kept
  BY <1>5 DEF CheckInProgress, Goes, Says
<1>6. ASSUME NEW c \in Updates, Enqueue(c) PROVE Kept
  <2> USE DEF Pool!Moves
  <2>1. CASE Pool!Claim(c)
    BY <1>6, <2>1 DEF Enqueue, Pool!Claim
  <2>2. CASE Pool!RefuseDuplicate(c)
    BY <1>6, <2>2 DEF Enqueue, Pool!RefuseDuplicate
  <2>3. CASE Pool!Accept(c)
    BY <1>6, <2>3 DEF Enqueue, Pool!Accept
  <2>4. CASE Pool!Bounce(c)
    BY <1>6, <2>4 DEF Enqueue, Pool!Bounce
  <2>5. CASE Pool!RefuseFull(c)
    BY <1>6, <2>5 DEF Enqueue, Pool!RefuseFull
  <2> QED
    BY <1>6, <2>1, <2>2, <2>3, <2>4, <2>5 DEF Enqueue
<1>7. ASSUME NEW c \in Updates, AnswerEnqueued(c) PROVE Kept
  BY <1>7 DEF AnswerEnqueued, Says
<1>8. ASSUME NEW c \in Updates, SetInlineMessageID(c) PROVE Kept
  BY <1>8 DEF SetInlineMessageID
<1>9. ASSUME NEW c \in Updates, Publish(c) PROVE Kept
  BY <1>9 DEF Publish
<1>10. ASSUME NEW c \in Updates, FinishJob(c) PROVE Kept
  BY <1>10 DEF FinishJob, Pool!Finish, Pool!Moves
<1>11. ASSUME NEW u \in URLs, FileExpires(u) PROVE Kept
  BY <1>11 DEF FileExpires
<1>12. ASSUME NEW p \in Users, CounterExpires(p) PROVE Kept
  BY <1>12 DEF CounterExpires
<1>13. ASSUME StartJob PROVE Kept
  BY <1>13 DEF StartJob, Pool!Start, Pool!Moves
<1>14. ASSUME Die PROVE Kept
  BY <1>14 DEF Die, Pool!Die, Pool!Active
<1> QED
  BY <1>1, <1>2, <1>3, <1>4, <1>5, <1>6, <1>7, <1>8, <1>9, <1>10, <1>11, <1>12,
     <1>13, <1>14 DEF Next, Handle

-----------------------------------------------------------------------------
(* The rate limit *)

\* The steps that do not count: nobody is limited by them, or comes to the limit
\* again.
Uncounted ==
  /\ UNCHANGED <<counted, unlimited>>
  /\ \A c \in Updates :
       /\ pc[c] \notin {"lookup", "hit", "limit"} => pc'[c] \notin {"lookup", "hit", "limit"}
       /\ answer'[c] = "limited" <=> answer[c] = "limited"

LEMMA OthersDoNotCount ==
  ASSUME TypeOK, Handlers, Next,
         \A c \in Updates : ~RateLimit(c) /\ ~RateLimitFails(c),
         \A p \in Users : ~CounterExpires(p)
  PROVE  Uncounted
<1> USE DEF TypeOK, Handlers, Uncounted, poolVars, handlerVars, redisVars
<1>1. ASSUME NEW c \in Updates, GetCachedVideo(c) PROVE Uncounted
  <2>1. CASE Goes(c, "lookup", "hit")
    BY <1>1, <2>1 DEF GetCachedVideo, Goes
  <2>2. CASE Goes(c, "lookup", "limit") /\ UNCHANGED found
    BY <1>1, <2>2 DEF GetCachedVideo, Goes
  <2>3. CASE Goes(c, "lookup", "check") /\ UNCHANGED found
    BY <1>1, <2>3 DEF GetCachedVideo, Goes
  <2> QED
    BY <1>1, <2>1, <2>2, <2>3 DEF GetCachedVideo
<1>2. ASSUME NEW c \in Updates, AnswerHit(c) PROVE Uncounted
  <2>1. CASE Says(c, "hit", "video")
    BY <1>2, <2>1 DEF AnswerHit, Says
  <2>2. CASE Says(c, "hit", "noVideo")
    BY <1>2, <2>2 DEF AnswerHit, Says
  <2> QED
    BY <1>2, <2>1, <2>2 DEF AnswerHit
<1>3. ASSUME NEW c \in Updates, CheckInProgress(c) PROVE Uncounted
  BY <1>3 DEF CheckInProgress, Goes, Says
<1>4. ASSUME NEW c \in Updates, Enqueue(c) PROVE Uncounted
  <2> USE DEF Pool!Moves
  <2>1. CASE Pool!Claim(c)
    BY <1>4, <2>1 DEF Enqueue, Pool!Claim
  <2>2. CASE Pool!RefuseDuplicate(c)
    BY <1>4, <2>2 DEF Enqueue, Pool!RefuseDuplicate
  <2>3. CASE Pool!Accept(c)
    BY <1>4, <2>3 DEF Enqueue, Pool!Accept
  <2>4. CASE Pool!Bounce(c)
    BY <1>4, <2>4 DEF Enqueue, Pool!Bounce
  <2>5. CASE Pool!RefuseFull(c)
    BY <1>4, <2>5 DEF Enqueue, Pool!RefuseFull
  <2> QED
    BY <1>4, <2>1, <2>2, <2>3, <2>4, <2>5 DEF Enqueue
<1>5. ASSUME NEW c \in Updates, AnswerEnqueued(c) PROVE Uncounted
  BY <1>5 DEF AnswerEnqueued, Says
<1>6. ASSUME NEW c \in Updates, SetInlineMessageID(c) PROVE Uncounted
  BY <1>6 DEF SetInlineMessageID
<1>7. ASSUME NEW c \in Updates, Publish(c) PROVE Uncounted
  BY <1>7 DEF Publish
<1>8. ASSUME NEW c \in Updates, FinishJob(c) PROVE Uncounted
  BY <1>8 DEF FinishJob, Pool!Finish, Pool!Moves
<1>9. ASSUME NEW u \in URLs, FileExpires(u) PROVE Uncounted
  BY <1>9 DEF FileExpires
<1>10. ASSUME StartJob PROVE Uncounted
  BY <1>10 DEF StartJob, Pool!Start, Pool!Moves
<1>11. ASSUME Die PROVE Uncounted
  BY <1>11 DEF Die, Pool!Die, Pool!Active
<1> QED
  BY <1>1, <1>2, <1>3, <1>4, <1>5, <1>6, <1>7, <1>8, <1>9, <1>10, <1>11 DEF Next,
     Handle

\* The counted requests of a user that were let through.
Through(p) == {c \in counted[p] : answer[c] # "limited"}

\* RateLimitIsExact for one user.
Exact(p) ==
  /\ Cardinality(Through(p) \ unlimited) <= Limit
  /\ Through(p) # counted[p] => Cardinality(Through(p)) >= Limit

LEMMA ExactForAll == RateLimitIsExact <=> \A p \in Users : Exact(p)
  BY DEF RateLimitIsExact, Exact, Through

\* The counter of the user is the number of requests counted, of which those let
\* through are a part.
LEMMA CounterIsFinite ==
  ASSUME CountedOnce, NEW p \in Users
  PROVE  /\ IsFiniteSet(counted[p]) /\ IsFiniteSet(Through(p))
         /\ Cardinality(counted[p]) \in Nat
         /\ Cardinality(Through(p)) \in Nat
         /\ Cardinality(Through(p)) <= Cardinality(counted[p])
         /\ Cardinality(Through(p) \ unlimited) \in Nat
         /\ Cardinality(Through(p) \ unlimited) <= Cardinality(Through(p))
<1>1. IsFiniteSet(counted[p]) /\ Cardinality(counted[p]) \in Nat
  BY FS_CardinalityType DEF CountedOnce
<1>2. Through(p) \in SUBSET counted[p] /\ Through(p) \ unlimited \in SUBSET Through(p)
  BY DEF Through
<1>3. /\ IsFiniteSet(Through(p)) /\ Cardinality(Through(p)) \in Nat
      /\ Cardinality(Through(p)) <= Cardinality(counted[p])
  BY <1>1, <1>2, FS_Subset, FS_CardinalityType
<1>4. /\ Cardinality(Through(p) \ unlimited) \in Nat
      /\ Cardinality(Through(p) \ unlimited) <= Cardinality(Through(p))
  BY <1>2, <1>3, FS_Subset, FS_CardinalityType
<1> QED
  BY <1>1, <1>3, <1>4

\* Every request is counted by its own handler, before it gets any further.
LEMMA CountedOnceKept ==
  ASSUME TypeOK, Handlers, CountedOnce, Next
  PROVE  CountedOnce'
<1> USE DEF TypeOK, Handlers, CountedOnce
<1>1. ASSUME NEW c \in Updates, RateLimit(c) \/ RateLimitFails(c) PROVE CountedOnce'
  <2>1. /\ \/ Counts(c)
           \/ UNCHANGED counted
        /\ pc' = [pc EXCEPT ![c] = pc'[c]] /\ pc'[c] \in {"check", "done"}
    BY <1>1 DEF RateLimit, RateLimitFails, Goes, Says
  <2>2. \A p \in Users : counted'[p] \in {counted[p], counted[p] \cup {c}}
    BY <2>1 DEF Counts
  <2>3. ASSUME NEW p \in Users PROVE IsFiniteSet(counted'[p])
    <3>1. IsFiniteSet(counted[p] \cup {c})
      BY FS_AddElement
    <3> QED
      BY <2>2, <3>1
  <2>4. \A p \in Users : \A d \in counted'[p] : pc'[d] \notin {"lookup", "hit", "limit"}
    BY <2>1, <2>2
  <2> QED
    BY <2>3, <2>4
<1>2. ASSUME NEW p \in Users, CounterExpires(p) PROVE CountedOnce'
  BY <1>2, FS_EmptySet DEF CounterExpires, handlerVars
<1>3. ASSUME \A c \in Updates : ~RateLimit(c) /\ ~RateLimitFails(c),
             \A p \in Users : ~CounterExpires(p)
      PROVE  CountedOnce'
  BY <1>3, OthersDoNotCount DEF Uncounted
<1> QED
  BY <1>1, <1>2, <1>3

\* A counter that has let Limit requests through lets no other through.
LEMMA LimitKept ==
  ASSUME TypeOK, Handlers, CountedOnce, CountedOnce', RateLimitIsExact, Next
  PROVE  RateLimitIsExact'
<1> SUFFICES ASSUME NEW p \in Users PROVE Exact(p)'
  BY DEF RateLimitIsExact, Exact, Through
<1>0. Exact(p)
  BY ExactForAll
<1>9. /\ IsFiniteSet(counted[p]) /\ IsFiniteSet(Through(p))
      /\ Cardinality(counted[p]) \in Nat
      /\ Cardinality(Through(p)) \in Nat
      /\ Cardinality(Through(p)) <= Cardinality(counted[p])
      /\ Cardinality(Through(p) \ unlimited) \in Nat
  BY CounterIsFinite
<1> USE DEF TypeOK, Exact
<1>1. ASSUME NEW c \in Updates, RateLimit(c), req[c].user = p PROVE Exact(p)'
  <2>0. /\ c \notin counted[p] /\ counted'[p] = counted[p] \cup {c}
        /\ unlimited' = unlimited
        /\ answer[c] = "none"
        /\ \A d \in Updates : d # c => answer'[d] = answer[d]
        /\ answer'[c] = IF Cardinality(counted[p]) + 1 > Limit THEN "limited" ELSE "none"
    BY <1>1 DEF RateLimit, Counts, Goes, Says, CountedOnce, Handlers
  <2>1. /\ Cardinality(counted'[p]) = Cardinality(counted[p]) + 1
        /\ IsFiniteSet(counted'[p])
    <3>1. /\ IsFiniteSet(counted[p] \cup {c})
          /\ Cardinality(counted[p] \cup {c}) = Cardinality(counted[p]) + 1
      BY <1>9, <2>0, FS_AddElement
    <3> QED
      BY <2>0, <3>1
  <2>2. CASE Cardinality(counted[p]) + 1 > Limit
    <3>1. Through(p)' = Through(p) /\ c \notin Through(p)
      BY <2>0, <2>2 DEF Through
    <3>2. CASE Through(p) = counted[p]
      BY <1>0, <2>0, <2>2, <3>1, <3>2, <1>9
    <3>3. CASE Through(p) # counted[p]
      BY <1>0, <2>0, <3>1, <3>3
    <3> QED
      BY <3>2, <3>3
  <2>3. CASE Cardinality(counted[p]) + 1 <= Limit
    <3>1. Through(p)' = Through(p) \cup {c}
      BY <2>0, <2>3, <1>9 DEF Through
    <3>2. Through(p)' \ unlimited' \in SUBSET counted'[p]
      BY <2>0, <3>1 DEF Through
    <3>3. /\ Cardinality(Through(p)' \ unlimited') <= Cardinality(counted'[p])
          /\ Cardinality(Through(p)' \ unlimited') \in Nat
      BY <2>1, <3>2, FS_Subset, FS_CardinalityType
    <3>4. Cardinality(Through(p)' \ unlimited') <= Limit
      BY <2>1, <2>3, <3>3, <1>9
    <3>5. Through(p) = counted[p]
      BY <1>0, <2>3, <1>9
    <3> QED
      BY <2>0, <3>1, <3>4, <3>5
  <2> QED
    BY <2>2, <2>3, <1>9
<1>2. ASSUME NEW c \in Updates, RateLimitFails(c) PROVE Exact(p)'
  <2>0. /\ counted'[p] \in {counted[p], counted[p] \cup {c}}
        /\ unlimited' = unlimited \cup {c}
        /\ answer' = answer /\ answer[c] = "none"
    BY <1>2 DEF RateLimitFails, Counts, Goes, Handlers
  <2>1. CASE counted'[p] = counted[p]
    <3>1. Through(p)' = Through(p)
      BY <2>0, <2>1 DEF Through
    <3>2. Through(p) \ unlimited' \in SUBSET (Through(p) \ unlimited)
      BY <2>0
    <3>3. IsFiniteSet(Through(p) \ unlimited)
      BY <1>9, FS_Subset
    <3>4. /\ Cardinality(Through(p) \ unlimited') <= Cardinality(Through(p) \ unlimited)
          /\ Cardinality(Through(p) \ unlimited') \in Nat
          /\ Cardinality(Through(p) \ unlimited) \in Nat
      BY <3>2, <3>3, FS_Subset, FS_CardinalityType
    <3> QED
      BY <1>0, <2>1, <3>1, <3>4
  <2>2. CASE counted'[p] = counted[p] \cup {c}
    <3>1. Through(p)' = Through(p) \cup {c}
      BY <2>0, <2>2 DEF Through
    <3>2. Through(p)' \ unlimited' \in SUBSET (Through(p) \ unlimited)
      BY <2>0, <3>1
    <3>3. IsFiniteSet(Through(p) \ unlimited)
      BY <1>9, FS_Subset
    <3>4. /\ Cardinality(Through(p)' \ unlimited') <= Cardinality(Through(p) \ unlimited)
          /\ Cardinality(Through(p)' \ unlimited') \in Nat
          /\ Cardinality(Through(p) \ unlimited) \in Nat
      BY <3>2, <3>3, FS_Subset, FS_CardinalityType
    <3>5. /\ Cardinality(Through(p) \cup {c}) >= Cardinality(Through(p))
          /\ Cardinality(Through(p) \cup {c}) \in Nat
      <4>1. Cardinality(Through(p) \cup {c}) =
              IF c \in Through(p) THEN Cardinality(Through(p)) ELSE Cardinality(Through(p)) + 1
        BY <1>9, FS_AddElement
      <4> QED
        BY <1>9, <4>1
    <3>7. Through(p)' # counted'[p] => Through(p) # counted[p]
      BY <2>2, <3>1
    <3> QED
      BY <1>0, <1>9, <3>1, <3>4, <3>5, <3>7
  <2> QED
    BY <2>0, <2>1, <2>2
<1>3. ASSUME NEW q \in Users, CounterExpires(q) PROVE Exact(p)'
  <2>1. /\ unlimited' = unlimited /\ answer' = answer
        /\ counted'[p] = IF p = q THEN {} ELSE counted[p]
    BY <1>3 DEF CounterExpires, handlerVars
  <2>2. CASE p = q
    <3>1. Through(p)' = {} /\ {} \ unlimited' = {} /\ counted'[p] = {}
      BY <2>1, <2>2 DEF Through
    <3> QED
      BY <3>1, FS_EmptySet
  <2>3. CASE p # q
    BY <1>0, <2>1, <2>3 DEF Through
  <2> QED
    BY <2>2, <2>3
<1>4. ASSUME NEW c \in Updates, RateLimit(c), req[c].user # p PROVE Exact(p)'
  <2>1. /\ counted'[p] = counted[p] /\ unlimited' = unlimited
        /\ answer[c] = "none"
        /\ \A d \in Updates : d # c => answer'[d] = answer[d]
    BY <1>4 DEF RateLimit, Counts, Goes, Says, Handlers
  <2>2. c \notin counted[p]
    BY <1>4 DEF CountedOnce, RateLimit, Goes, Says
  <2>3. Through(p)' = Through(p)
    BY <2>1, <2>2 DEF Through
  <2> QED
    BY <1>0, <2>1, <2>3
<1>5. ASSUME \A c \in Updates : ~RateLimit(c) /\ ~RateLimitFails(c),
             \A q \in Users : ~CounterExpires(q)
      PROVE  Exact(p)'
  <2>1. Uncounted
    BY <1>5, OthersDoNotCount
  <2>2. Through(p)' = Through(p)
    BY <2>1 DEF Uncounted, Through
  <2> QED
    BY <1>0, <2>1, <2>2 DEF Uncounted
<1> QED
  BY <1>1, <1>2, <1>3, <1>4, <1>5

-----------------------------------------------------------------------------
(* Why a request is turned away *)

\* The stages of a request that never held the claim on its URL.
Idle == {"waiting", "duplicate"}

\* Another request for the URL got further, and was not over when the handler of
\* c missed the cache.
Rivalled(c) ==
  \E d \in Updates \ before[c] : req[d].url = req[c].url /\ stage[d] \notin Idle

BeforeIsOver == \A c \in Updates : \A d \in before[c] : Over(d)

DuplicatesHaveRivals == \A c \in Updates : stage[c] = "duplicate" => Rivalled(c)

ToldForAReason ==
  \A c \in Updates :
    answer[c] \in {"busy", "full", "loading"} /\ stage[c] = "waiting" => Rivalled(c)

Rivals == BeforeIsOver /\ DuplicatesHaveRivals /\ ToldForAReason

\* What the pool sees of a handler is a step of the pool or none.
LEMMA StepsOfThePool == ASSUME Next PROVE Pool!Next \/ UNCHANGED Pool!vars
<1> USE DEF poolVars, handlerVars, redisVars, Pool!vars
<1>1. ASSUME NEW c \in Updates, GetCachedVideo(c) PROVE UNCHANGED Pool!vars
  BY <1>1 DEF GetCachedVideo, Goes
<1>2. ASSUME NEW c \in Updates, AnswerHit(c) PROVE UNCHANGED Pool!vars
  BY <1>2 DEF AnswerHit, Says
<1>3. ASSUME NEW c \in Updates, RateLimit(c) \/ RateLimitFails(c) PROVE UNCHANGED Pool!vars
  BY <1>3 DEF RateLimit, RateLimitFails, Goes, Says
<1>4. ASSUME NEW c \in Updates, CheckInProgress(c) PROVE UNCHANGED Pool!vars
  BY <1>4 DEF CheckInProgress, Goes, Says
<1>5. ASSUME NEW c \in Updates, Enqueue(c) PROVE Pool!Next
  BY <1>5 DEF Enqueue, Pool!Next
<1>6. ASSUME NEW c \in Updates, AnswerEnqueued(c) PROVE UNCHANGED Pool!vars
  BY <1>6 DEF AnswerEnqueued, Says
<1>7. ASSUME NEW c \in Updates, SetInlineMessageID(c) PROVE UNCHANGED Pool!vars
  BY <1>7 DEF SetInlineMessageID
<1>8. ASSUME NEW c \in Updates, Publish(c) PROVE UNCHANGED Pool!vars
  BY <1>8 DEF Publish
<1>9. ASSUME NEW c \in Updates, FinishJob(c) PROVE Pool!Next
  BY <1>9 DEF FinishJob, Pool!Next
<1>10. ASSUME NEW u \in URLs, FileExpires(u) PROVE UNCHANGED Pool!vars
  BY <1>10 DEF FileExpires
<1>11. ASSUME NEW p \in Users, CounterExpires(p) PROVE UNCHANGED Pool!vars
  BY <1>11 DEF CounterExpires
<1>12. ASSUME StartJob \/ Die PROVE Pool!Next
  BY <1>12 DEF StartJob, Die, Pool!Next
<1> QED
  BY <1>1, <1>2, <1>3, <1>4, <1>5, <1>6, <1>7, <1>8, <1>9, <1>10, <1>11, <1>12
     DEF Next, Handle

\* The handlers use the pool as the pool expects: Enqueue is called once for an
\* update, and what it has returned is not taken back.
THEOREM HandlersKeepToTheService == Spec => Pool!Spec
<1>1. Init => Pool!Init
  BY DEF Init
<1>2. UNCHANGED vars => UNCHANGED Pool!vars
  BY DEF vars, Pool!vars
<1> QED
  BY <1>1, <1>2, StepsOfThePool, PTL DEF Spec, Pool!Spec

\* A request that has held a claim has held it for good, and one that is over stays
\* over.
OnlyForward ==
  /\ req' = req
  /\ \A d \in Updates :
       /\ stage'[d] = "waiting" => stage[d] = "waiting"
       /\ stage[d] \notin Idle => stage'[d] \notin Idle
       /\ Over(d) => Over(d)'

LEMMA StagesGoOn == ASSUME TypeOK, Next PROVE OnlyForward
<1> USE DEF TypeOK, OnlyForward, Idle, Over, Pool!Active
<1>1. CASE UNCHANGED Pool!vars
  BY <1>1 DEF Pool!vars
<1>2. ASSUME NEW c \in Updates, NEW from, NEW to, Pool!Moves(c, from, to), req' = req,
             \/ from = "waiting" /\ to \in {"claimed", "duplicate"}
             \/ from = "claimed" /\ to \in {"queued", "bounced"}
             \/ from = "bounced" /\ to = "overflow"
             \/ from = "queued" /\ to = "running"
             \/ from = "running" /\ to = "finished"
      PROVE  OnlyForward
  BY <1>2 DEF Pool!Moves
<1>3. ASSUME Pool!Die PROVE OnlyForward
  BY <1>3 DEF Pool!Die
<1>4. ASSUME Pool!Start PROVE OnlyForward
  <2>1. Head(queue) \in Updates
    BY <1>4 DEF Pool!Start
  <2> QED
    BY <1>2, <1>4, <2>1 DEF Pool!Start
<1>5. ASSUME NEW c \in Updates,
             \/ Pool!Claim(c) \/ Pool!RefuseDuplicate(c) \/ Pool!Accept(c)
             \/ Pool!Bounce(c) \/ Pool!RefuseFull(c) \/ Pool!Finish(c)
      PROVE  OnlyForward
  BY <1>2, <1>5 DEF Pool!Claim, Pool!RefuseDuplicate, Pool!Accept, Pool!Bounce,
                    Pool!RefuseFull, Pool!Finish
<1> QED
  BY <1>1, <1>3, <1>4, <1>5, StepsOfThePool DEF Pool!Next

\* What is over when a handler asks the cache is noted then, and only then.
NotedOnce ==
  \A c \in Updates :
    \/ before'[c] = before[c]
    \/ /\ \A d \in before'[c] : d \in Updates /\ Over(d)
       /\ stage[c] = "waiting" /\ stage' = stage
       /\ answer[c] = "none" /\ answer' = answer

LEMMA BeforeIsNotedOnce == ASSUME TypeOK, Handlers, Next PROVE NotedOnce
<1> USE DEF NotedOnce, poolVars, handlerVars
<1>1. ASSUME NEW c \in Updates, GetCachedVideo(c) PROVE NotedOnce
  <2>1. pc[c] = "lookup" /\ answer' = answer /\ stage' = stage
    BY <1>1 DEF GetCachedVideo, Goes
  <2>2. stage[c] = "waiting" /\ answer[c] = "none"
    BY <2>1 DEF Handlers
  <2>3. CASE before' = before
    BY <2>3
  <2>4. CASE Misses(c)
    BY <2>1, <2>2, <2>4 DEF Misses, TypeOK
  <2> QED
    BY <1>1, <2>3, <2>4 DEF GetCachedVideo
<1>2. ASSUME NEW c \in Updates,
             \/ AnswerHit(c) \/ RateLimit(c) \/ RateLimitFails(c) \/ CheckInProgress(c)
             \/ Enqueue(c) \/ AnswerEnqueued(c) \/ SetInlineMessageID(c) \/ Publish(c)
             \/ FinishJob(c)
      PROVE  NotedOnce
  BY <1>2 DEF AnswerHit, RateLimit, RateLimitFails, CheckInProgress, Enqueue,
              AnswerEnqueued, SetInlineMessageID, Publish, FinishJob
<1>3. ASSUME NEW u \in URLs, FileExpires(u) PROVE NotedOnce
  BY <1>3 DEF FileExpires
<1>4. ASSUME NEW p \in Users, CounterExpires(p) PROVE NotedOnce
  BY <1>4 DEF CounterExpires
<1>5. ASSUME StartJob \/ Die PROVE NotedOnce
  BY <1>5 DEF StartJob, Die
<1> QED
  BY <1>1, <1>2, <1>3, <1>4, <1>5 DEF Next, Handle

\* What is in flight when a handler asks the pool is a rival.
LEMMA InFlightIsRival ==
  ASSUME BeforeIsOver, NEW c \in Updates, Pool!InFlight(req[c].url) # {}
  PROVE  Rivalled(c)
  BY DEF BeforeIsOver, Over, Pool!InFlight, Pool!Active, Rivalled, Idle

\* A rival stays one.
LEMMA RivalsStay ==
  ASSUME OnlyForward, NEW c \in Updates, before'[c] = before[c], Rivalled(c)
  PROVE  Rivalled(c)'
  BY DEF OnlyForward, Rivalled

\* Only LoadOrStore makes a duplicate, and only of a request whose URL is in flight.
LEMMA DuplicatesAreMade ==
  ASSUME TypeOK, Next, NEW c \in Updates, stage'[c] = "duplicate", stage[c] # "duplicate"
  PROVE  Pool!InFlight(req[c].url) # {}
<1> USE DEF TypeOK
<1>1. CASE UNCHANGED Pool!vars
  BY <1>1 DEF Pool!vars
<1>2. ASSUME NEW d \in Updates,
             \/ Pool!Claim(d) \/ Pool!Accept(d) \/ Pool!Bounce(d) \/ Pool!RefuseFull(d)
             \/ Pool!Finish(d)
      PROVE  FALSE
  BY <1>2 DEF Pool!Claim, Pool!Accept, Pool!Bounce, Pool!RefuseFull, Pool!Finish,
              Pool!Moves
<1>3. ASSUME NEW d \in Updates, Pool!RefuseDuplicate(d)
      PROVE  Pool!InFlight(req[c].url) # {}
  BY <1>3 DEF Pool!RefuseDuplicate, Pool!Moves
<1>4. ASSUME Pool!Start PROVE FALSE
  BY <1>4 DEF Pool!Start, Pool!Moves
<1>5. ASSUME Pool!Die PROVE FALSE
  BY <1>5 DEF Pool!Die
<1> QED
  BY <1>1, <1>2, <1>3, <1>4, <1>5, StepsOfThePool DEF Pool!Next

\* A handler says "busy" or shows the stub without Enqueue only when it has seen
\* its URL in flight.
LEMMA ToldWhenInFlight ==
  ASSUME TypeOK, Next, NEW c \in Updates, stage[c] = "waiting",
         answer'[c] \in {"busy", "full", "loading"},
         answer[c] \notin {"busy", "full", "loading"}
  PROVE  Pool!InFlight(req[c].url) # {}
<1> USE DEF TypeOK, handlerVars, Says, Goes
<1>1. ASSUME NEW d \in Updates, AnswerHit(d) \/ RateLimit(d) PROVE FALSE
  BY <1>1 DEF AnswerHit, RateLimit
<1>2. ASSUME NEW d \in Updates, CheckInProgress(d)
      PROVE  Pool!InFlight(req[c].url) # {}
  BY <1>2 DEF CheckInProgress
<1>3. ASSUME NEW d \in Updates, AnswerEnqueued(d) PROVE FALSE
  BY <1>3 DEF AnswerEnqueued, Refused
<1>4. ASSUME NEW d \in Updates,
             \/ GetCachedVideo(d) \/ RateLimitFails(d) \/ Enqueue(d)
             \/ SetInlineMessageID(d) \/ Publish(d) \/ FinishJob(d)
      PROVE  FALSE
  BY <1>4 DEF GetCachedVideo, RateLimitFails, Enqueue, SetInlineMessageID, Publish,
              FinishJob
<1>5. ASSUME NEW u \in URLs, FileExpires(u) PROVE FALSE
  BY <1>5 DEF FileExpires
<1>6. ASSUME NEW p \in Users, CounterExpires(p) PROVE FALSE
  BY <1>6 DEF CounterExpires
<1>7. ASSUME StartJob \/ Die PROVE FALSE
  BY <1>7 DEF StartJob, Die
<1> QED
  BY <1>1, <1>2, <1>3, <1>4, <1>5, <1>6, <1>7 DEF Next, Handle

LEMMA RivalsKept ==
  ASSUME TypeOK, Handlers, Rivals, Next
  PROVE  Rivals'
<1> USE DEF Rivals
<1>1. OnlyForward /\ NotedOnce
  BY StagesGoOn, BeforeIsNotedOnce
<1>2. BeforeIsOver'
  <2> SUFFICES ASSUME NEW c \in Updates, NEW d \in before'[c] PROVE Over(d)'
    BY DEF BeforeIsOver
  <2>1. Over(d) /\ d \in Updates
    BY <1>1 DEF NotedOnce, BeforeIsOver, TypeOK
  <2> QED
    BY <1>1, <2>1 DEF OnlyForward
<1>3. DuplicatesHaveRivals'
  <2> SUFFICES ASSUME NEW c \in Updates, stage'[c] = "duplicate" PROVE Rivalled(c)'
    BY DEF DuplicatesHaveRivals
  <2>1. before'[c] = before[c]
    BY <1>1 DEF NotedOnce
  <2>2. Rivalled(c)
    BY DuplicatesAreMade, InFlightIsRival DEF DuplicatesHaveRivals
  <2> QED
    BY <1>1, <2>1, <2>2, RivalsStay
<1>4. ToldForAReason'
  <2> SUFFICES ASSUME NEW c \in Updates, stage'[c] = "waiting",
                      answer'[c] \in {"busy", "full", "loading"}
               PROVE  Rivalled(c)'
    BY DEF ToldForAReason
  <2>1. stage[c] = "waiting"
    BY <1>1 DEF OnlyForward
  <2>2. before'[c] = before[c]
    BY <1>1 DEF NotedOnce
  <2>3. Rivalled(c)
    BY <2>1, ToldWhenInFlight, InFlightIsRival DEF ToldForAReason
  <2> QED
    BY <1>1, <2>2, <2>3, RivalsStay
<1> QED
  BY <1>2, <1>3, <1>4

-----------------------------------------------------------------------------
(* The invariant and the theorems *)

LEMMA Inductive == IInv /\ [Next]_vars => IInv'
<1> SUFFICES ASSUME IInv, [Next]_vars PROVE IInv'
  OBVIOUS
<1>1. CASE Next
  <2>1. TypeOK' /\ Handlers' /\ AnswersAgree' /\ CachedComesFromJobs' /\ FoundComesFromJobs'
    BY <1>1, TypeKept, AnswersKept, HitsKept DEF IInv
  <2>2. CountedOnce'
    BY <1>1, CountedOnceKept DEF IInv
  <2>3. RateLimitIsExact'
    BY <1>1, <2>2, LimitKept DEF IInv
  <2> QED
    BY <2>1, <2>2, <2>3 DEF IInv
<1>2. CASE UNCHANGED vars
  <2> USE <1>2 DEF vars, IInv
  <2>1. TypeOK'
    BY DEF TypeOK
  <2>2. Handlers' /\ AnswersAgree'
    BY DEF Handlers, AnswersAgree
  <2>3. CachedComesFromJobs' /\ FoundComesFromJobs'
    BY DEF CachedComesFromJobs, FoundComesFromJobs, FromJobs
  <2>4. CountedOnce' /\ RateLimitIsExact'
    BY DEF CountedOnce, RateLimitIsExact
  <2> QED
    BY <2>1, <2>2, <2>3, <2>4
<1> QED
  BY <1>1, <1>2

LEMMA Invariance == Spec => []IInv
  BY InitHolds, Inductive, PTL DEF Spec

\* The variables of the handlers keep to their types, the queue to its capacity,
\* and a handler that answers a hit has a file_id.
THEOREM HandlerTypes == Spec => []TypeOK
  BY Invariance, PTL DEF IInv

\* What handleMessage and handleInline tell a user agrees with what the pool did.
THEOREM AnswersAreTrue == Spec => []AnswersAgree
  BY Invariance, PTL DEF IInv

\* A cached video that a user is sent was downloaded by another request for the
\* same URL.
THEOREM HitsAreJobs == Spec => []HitsComeFromJobs
<1>1. IInv => HitsComeFromJobs
  BY DEF IInv, FoundComesFromJobs, FromJobs, HitsComeFromJobs
<1> QED
  BY <1>1, Invariance, PTL

\* Between two expiries of the counter, IncrRateLimit lets Limit queries of a user
\* through, and neither more nor fewer if there were more.
THEOREM LimitIsExact == Spec => []RateLimitIsExact
  BY Invariance, PTL DEF IInv

LEMMA RivalsAtFirst == Init => Rivals
  BY DEF Init, Pool!Init, Rivals, BeforeIsOver, DuplicatesHaveRivals, ToldForAReason

LEMMA RivalsInductive == IInv /\ Rivals /\ [Next]_vars => Rivals'
<1> SUFFICES ASSUME IInv, Rivals, [Next]_vars PROVE Rivals'
  OBVIOUS
<1>1. CASE Next
  BY <1>1, RivalsKept DEF IInv
<1>2. CASE UNCHANGED vars
  BY <1>2 DEF vars, Rivals, BeforeIsOver, DuplicatesHaveRivals, ToldForAReason,
              Rivalled, Over
<1> QED
  BY <1>1, <1>2

\* Nobody is turned away without a rival: a request answered "already downloading",
\* or refused as a duplicate, met the claim of another request for the URL, and one
\* that had not come to its end when the handler missed the cache.  A claim that
\* its owner left behind would turn requests away long after.
THEOREM NobodyIsTurnedAwayIdly == Spec => []TurnedAwayForAReason
<1>1. Rivals => TurnedAwayForAReason
  BY DEF Rivals, DuplicatesHaveRivals, ToldForAReason, Rivalled, Idle,
         TurnedAwayForAReason
<1> QED
  BY <1>1, RivalsAtFirst, RivalsInductive, Invariance, PTL DEF Spec
=============================================================================
