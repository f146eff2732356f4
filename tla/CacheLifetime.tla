--------------------------- MODULE CacheLifetime ---------------------------
(***************************************************************************)
(* Two keys of Redis and their lifetimes (internal/cache/redis.go): the    *)
(* file_id of one link, which every hit prolongs, and the rate counter of  *)
(* one user.                                                               *)
(*                                                                         *)
(* A query is a message or an inline query for the link.  Its handler and  *)
(* the goroutine it starts after a cache hit issue one command at a time,  *)
(* so the commands of several queries interleave with each other and with  *)
(* the clock.  A query also names the file_id that its download stores.    *)
(* The inline queries are those of the one user; messages are not counted, *)
(* and may be anybody's.                                                   *)
(*                                                                         *)
(* The pool appears as the claim on the link, held until the download has  *)
(* been stored; a handler whose Enqueue is refused is done.  The history,  *)
(* which decides whether a video is hot, is in InlineHistory: here LRANGE  *)
(* may find either.                                                        *)
(***************************************************************************)
EXTENDS Integers, FiniteSets

CONSTANTS
  Queries,    \* the messages and inline queries for the link
  Limit,      \* Config.RateLimitPerHour
  Hour,       \* the lifetime of a rate counter
  TTL,        \* Config.CacheTTL
  HotTTL,     \* Config.HotCacheTTL
  MaxTime,    \* a bound on the clock
  None,       \* no file_id, no job
  Forever     \* no expiry

ASSUME LifetimeAssumption ==
  /\ Limit \in Nat
  /\ Hour \in Nat \ {0}
  /\ TTL \in Nat \ {0}
  /\ HotTTL \in Nat /\ HotTTL >= TTL
  /\ MaxTime \in Nat
  /\ None \notin Queries
  /\ Forever \notin Int

VARIABLES
  now,         \* the clock
  inline,      \* the inline queries
  pc,          \* the next command of each query
  ttl,         \* the lifetime its RefreshFileIDTTL has chosen
  \* Redis:
  file,        \* the file_id of the link, and when it expires
  rate,        \* the counter of the user, and when it expires
  \* The pool:
  claim,       \* the query whose job for the link is in flight
  \* What has happened:
  usedAt,      \* when the lifetime of the file_id was last set
  asked,       \* the queries whose IncrRateLimit has returned
  askedAt,     \* and when
  failed,      \* those whose IncrRateLimit failed: they are let through
  limited,     \* those it turned away
  broken,      \* the last IncrRateLimit failed
  excused,     \* those that were turned away right after a failed one
  overtaken,   \* the queries that missed and saw a file_id stored after that
  blind        \* the queries whose GetCachedVideo failed

fileVars == <<file, usedAt, overtaken>>
rateVars == <<rate, asked, askedAt, failed, limited, broken, excused>>
vars == <<now, inline, pc, ttl, file, rate, claim, usedAt, asked, askedAt,
          failed, limited, broken, excused, overtaken, blind>>

NoFile  == [id |-> None, exp |-> 0]
NoCount == [count |-> 0, exp |-> 0]

Init ==
  /\ now = 0
  /\ inline \in SUBSET Queries
  /\ pc = [q \in Queries |-> "lookup"]
  /\ ttl = [q \in Queries |-> 0]
  /\ file = NoFile
  /\ rate = NoCount
  /\ claim = None
  /\ usedAt = -TTL
  /\ asked = {}
  /\ askedAt = [q \in Queries |-> 0]
  /\ failed = {}
  /\ limited = {}
  /\ broken = FALSE
  /\ excused = {}
  /\ overtaken = {}
  /\ blind = {}

Goes(q, here, there) ==
  /\ pc[q] = here
  /\ pc' = [pc EXCEPT ![q] = there]
  /\ UNCHANGED <<now, inline>>

-----------------------------------------------------------------------------
(* The lookup and the rate limit *)

AfterMiss(q) == IF q \in inline THEN "limit" ELSE "claim"

\* GetCachedVideo.  A hit starts the goroutine that prolongs the lifetime.  A
\* failure is logged and taken for a miss.
GetCachedVideo(q) ==
  /\ \/ /\ Goes(q, "lookup", IF file.id # None THEN "get" ELSE AfterMiss(q))
        /\ UNCHANGED blind
     \/ /\ Goes(q, "lookup", AfterMiss(q))
        /\ blind' = blind \cup {q}
  /\ UNCHANGED <<ttl, claim>>
  /\ UNCHANGED fileVars
  /\ UNCHANGED rateVars

\* INCR creates a counter without an expiry, and keeps the expiry of one that
\* is there.
Incr == [count |-> rate.count + 1,
         exp   |-> IF rate.count = 0 THEN Forever ELSE rate.exp]

\* Wrong: the counter lives for less than the hour it stands for.
ShortWindow == [Incr EXCEPT !.exp = now + Hour - 1]

\* Wrong: the counter gets no expiry.
NoWindow == Incr

\* The pipeline of IncrRateLimit: INCR, and EXPIRE for another hour.
IncrExpire == [Incr EXCEPT !.exp = now + Hour]

\* IncrRateLimit has returned.
Asked(q) ==
  /\ asked' = asked \cup {q}
  /\ askedAt' = [askedAt EXCEPT ![q] = now]

\* IncrRateLimit.  The request that exceeds the limit is turned away.
IncrRateLimit(q) ==
  /\ rate' = IncrExpire
  /\ Asked(q)
  /\ \/ /\ rate.count + 1 <= Limit
        /\ Goes(q, "limit", "claim")
        /\ UNCHANGED <<limited, excused>>
     \/ /\ rate.count + 1 > Limit
        /\ Goes(q, "limit", "done")
        /\ limited' = limited \cup {q}
        /\ excused' = IF broken THEN excused \cup {q} ELSE excused
  /\ broken' = FALSE
  /\ UNCHANGED <<ttl, claim, failed, blind>>
  /\ UNCHANGED fileVars

\* The pipeline fails, before its INCR, between its commands or after them: the
\* request is let through.
IncrRateLimitFails(q) ==
  /\ Goes(q, "limit", "claim")
  /\ rate' \in {rate, Incr, IncrExpire}
  /\ Asked(q)
  /\ failed' = failed \cup {q}
  /\ broken' = TRUE
  /\ UNCHANGED <<ttl, claim, limited, excused, blind>>
  /\ UNCHANGED fileVars

-----------------------------------------------------------------------------
(* The download *)

\* Wrong: a download in flight keeps nobody out.
WrongClaim(q) ==
  /\ Goes(q, "claim", "set")
  /\ claim' = q
  /\ UNCHANGED <<ttl, blind>>
  /\ UNCHANGED fileVars
  /\ UNCHANGED rateVars

\* IsInProgress and Enqueue: one download of the link at a time.
Claim(q) ==
  /\ IF claim = None
       THEN Goes(q, "claim", "set") /\ claim' = q
       ELSE Goes(q, "claim", "done") /\ UNCHANGED claim
  /\ UNCHANGED <<ttl, blind>>
  /\ UNCHANGED fileVars
  /\ UNCHANGED rateVars

\* The download, the upload and SetCachedVideo, each of which may fail.
SetCachedVideo(q) ==
  /\ Goes(q, "set", "release")
  /\ \/ /\ file' = [id |-> q, exp |-> now + TTL]
        /\ usedAt' = now
        /\ overtaken' = overtaken \cup {d \in Queries : pc[d] \in {"limit", "claim"}}
     \/ UNCHANGED fileVars
  /\ UNCHANGED <<ttl, claim, blind>>
  /\ UNCHANGED rateVars

\* The deferred Delete of process.
Release(q) ==
  /\ Goes(q, "release", "done")
  /\ claim' = None
  /\ UNCHANGED <<ttl, blind>>
  /\ UNCHANGED fileVars
  /\ UNCHANGED rateVars

-----------------------------------------------------------------------------
(* RefreshFileIDTTL, in the goroutine after a hit *)

\* GET.  A missing key or an error ends RefreshFileIDTTL.
RefreshGet(q) ==
  /\ \/ file.id # None /\ Goes(q, "get", "lrange")
     \/ Goes(q, "get", "done")
  /\ UNCHANGED <<ttl, claim, blind>>
  /\ UNCHANGED fileVars
  /\ UNCHANGED rateVars

\* Wrong: only a hot video gets a lifetime.
WrongRefreshLRange(q) ==
  /\ Goes(q, "lrange", "expire")
  /\ \E lifetime \in {0, HotTTL} : ttl' = [ttl EXCEPT ![q] = lifetime]
  /\ UNCHANGED <<claim, blind>>
  /\ UNCHANGED fileVars
  /\ UNCHANGED rateVars

\* LRANGE.  A video among the user's newest three is hot.  An error ends
\* RefreshFileIDTTL.
RefreshLRange(q) ==
  /\ \/ /\ Goes(q, "lrange", "expire")
        /\ \E lifetime \in {TTL, HotTTL} : ttl' = [ttl EXCEPT ![q] = lifetime]
     \/ /\ Goes(q, "lrange", "done")
        /\ UNCHANGED ttl
  /\ UNCHANGED <<claim, blind>>
  /\ UNCHANGED fileVars
  /\ UNCHANGED rateVars

\* EXPIRE sets the lifetime of the key that is there by now, or fails.  A key
\* that is gone stays gone.
RefreshExpire(q) ==
  /\ Goes(q, "expire", "done")
  /\ \/ /\ file.id # None
        /\ file' = [file EXCEPT !.exp = now + ttl[q]]
        /\ usedAt' = now
     \/ UNCHANGED <<file, usedAt>>
  /\ ttl' = [ttl EXCEPT ![q] = 0]
  /\ UNCHANGED <<claim, overtaken, blind>>
  /\ UNCHANGED rateVars

-----------------------------------------------------------------------------
(* The clock *)

Expired(exp) == exp # Forever /\ exp <= now + 1

\* The clock advances, and Redis drops the keys whose time has come.
Tick ==
  /\ now < MaxTime
  /\ now' = now + 1
  /\ file' = IF Expired(file.exp) THEN NoFile ELSE file
  /\ rate' = IF Expired(rate.exp) THEN NoCount ELSE rate
  /\ UNCHANGED <<inline, pc, ttl, claim, usedAt, asked, askedAt, failed,
                 limited, broken, excused, overtaken, blind>>

QueryStep(q) ==
  \/ GetCachedVideo(q) \/ IncrRateLimit(q) \/ IncrRateLimitFails(q)
  \/ Claim(q) \/ SetCachedVideo(q) \/ Release(q)
  \/ RefreshGet(q) \/ RefreshLRange(q) \/ RefreshExpire(q)

Next == (\E q \in Queries : QueryStep(q)) \/ Tick

Spec == Init /\ [][Next]_vars

-----------------------------------------------------------------------------
(* What must hold *)

\* The variables keep to their types, a key that is gone has no expiry, and what a
\* RefreshFileIDTTL is about to set is one of the two configured lifetimes.
TypeOK ==
  /\ now \in 0 .. MaxTime
  /\ inline \in SUBSET Queries
  /\ pc \in [Queries -> {"lookup", "limit", "claim", "set", "release",
                         "get", "lrange", "expire", "done"}]
  /\ ttl \in [Queries -> Nat]
  /\ \A q \in Queries : pc[q] = "expire" => ttl[q] \in {TTL, HotTTL}
  /\ file \in [id : Queries \cup {None}, exp : Nat]
  /\ file.id = None => file = NoFile
  /\ rate \in [count : Nat, exp : Nat \cup {Forever}]
  /\ claim \in Queries \cup {None}
  /\ usedAt \in Int
  /\ asked \in SUBSET Queries
  /\ askedAt \in [Queries -> Nat]
  /\ failed \in SUBSET asked
  /\ limited \in SUBSET (asked \ failed)
  /\ broken \in BOOLEAN
  /\ excused \in SUBSET limited
  /\ overtaken \in SUBSET Queries
  /\ blind \in SUBSET Queries

\* The queries asked in the hour that ends with q.
InTheHour(q) ==
  {r \in asked : askedAt[r] \in askedAt[q] - Hour + 1 .. askedAt[q]}

\* In no hour, wherever it begins, are more than Limit queries of the user let
\* through, however often the counter expires in between.  Not among them are the
\* queries whose own IncrRateLimit failed: inline.go:68 lets each of those through.
PerHour ==
  \A q \in asked : Cardinality(InTheHour(q) \ (limited \cup failed)) <= Limit

\* A user who has been quiet for an hour is let through again: a query is turned
\* away only if another one was asked in the hour before, or if the pipeline of
\* the query before it failed and may have left a counter without an expiry.
QuietUserIsFree ==
  Limit > 0 => \A q \in limited \ excused : InTheHour(q) # {q}

\* A video whose lifetime was set by its download or by a hit is answered from
\* the cache for at least CACHE_TTL from then on, whatever other queries do to
\* its key in the meantime.
UseKeepsCached ==
  now < usedAt + TTL => file.id # None /\ file.exp >= usedAt + TTL

\* A cached file_id is not replaced by that of a second download while it lives.
\* The exceptions: a query that looked before the file_id was stored and claimed
\* the link after that download was over, and one whose lookup failed.
ReplacedByLatecomersOnly ==
  [][file.id # None /\ file'.id \notin {None, file.id} =>
       file'.id \in overtaken \cup blind]_vars
=============================================================================
