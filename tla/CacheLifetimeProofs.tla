------------------------ MODULE CacheLifetimeProofs ------------------------
(***************************************************************************)
(* The lifetime of a cached video and the hourly limit, for any number of  *)
(* queries and any lifetimes, and without a bound on the clock but         *)
(* MaxTime, proved from one inductive invariant.                           *)
(***************************************************************************)
EXTENDS CacheLifetime, FiniteSetTheorems, TLAPS

USE LifetimeAssumption

-----------------------------------------------------------------------------
(* The parts of the inductive invariant *)

\* A query that may store a file_id holds the claim on the link.
ClaimIsHeld == \A q \in Queries : pc[q] \in {"set", "release"} => claim = q

\* A query that is to download missed, and nothing has been stored since: unless
\* it has been overtaken or its lookup failed.
MissStands ==
  \A q \in Queries :
    pc[q] \in {"limit", "claim", "set"} /\ q \notin overtaken \cup blind =>
      file.id = None

\* The queries whose IncrRateLimit succeeded: those the counter must remember.
counted == asked \ failed

\* A query is counted once, and not later than now.
AskedOnce ==
  /\ IsFiniteSet(asked)
  /\ \A q \in asked : pc[q] \notin {"lookup", "limit"} /\ askedAt[q] <= now

\* The queries counted in the hour that ends now.
Recent == {r \in counted : askedAt[r] \in now - Hour + 1 .. now}

\* The counter has not forgotten a query of the last hour: it lives for an hour
\* after each.
CounterRemembers ==
  /\ Cardinality(Recent) <= rate.count
  /\ rate.count > 0 =>
       \/ rate.exp = Forever
       \/ rate.exp > now /\ \A r \in counted : askedAt[r] + Hour <= rate.exp

\* Of the last hour no more than Limit were let through.
RecentWithinLimit == Cardinality(Recent \ limited) <= Limit

\* The counter does not live longer than an hour, unless the last pipeline failed.
CounterForgets ==
  rate.count > 0 /\ ~broken =>
    rate.exp \in Nat /\ \E r \in counted : askedAt[r] = rate.exp - Hour

IInv ==
  /\ TypeOK
  /\ UseKeepsCached
  /\ ClaimIsHeld
  /\ MissStands
  /\ AskedOnce
  /\ CounterRemembers
  /\ CounterForgets
  /\ RecentWithinLimit
  /\ PerHour
  /\ QuietUserIsFree

LEMMA InitHolds == Init => IInv
<1> SUFFICES ASSUME Init PROVE IInv
  OBVIOUS
<1> USE DEF Init, NoFile, NoCount
<1>1. TypeOK
  <2>1. /\ file \in [id : Queries \cup {None}, exp : Nat]
        /\ rate \in [count : Nat, exp : Nat \cup {Forever}]
    OBVIOUS
  <2>2. now \in 0 .. MaxTime /\ usedAt \in Int
    OBVIOUS
  <2>3. ttl \in [Queries -> Nat] /\ askedAt \in [Queries -> Nat]
    OBVIOUS
  <2> QED
    BY <2>1, <2>2, <2>3 DEF TypeOK
<1>2. UseKeepsCached /\ ClaimIsHeld /\ MissStands
  BY DEF UseKeepsCached, ClaimIsHeld, MissStands
<1>3. AskedOnce
  BY FS_EmptySet DEF AskedOnce
<1>4. Recent = {}
  BY DEF Recent, counted
<1>5. CounterRemembers
  <2>1. Cardinality(Recent) = 0
    BY <1>4, FS_EmptySet
  <2> QED
    BY <2>1 DEF CounterRemembers
<1>6. CounterForgets /\ PerHour /\ QuietUserIsFree
  BY DEF CounterForgets, PerHour, QuietUserIsFree
<1>7. RecentWithinLimit
  <2>1. Recent \ limited = {} /\ Cardinality({}) = 0
    BY <1>4, FS_EmptySet
  <2> QED
    BY <2>1 DEF RecentWithinLimit
<1> QED
  BY <1>1, <1>2, <1>3, <1>5, <1>6, <1>7 DEF IInv

-----------------------------------------------------------------------------
(* Types, the file_id and the claim *)

LEMMA TypeKept == ASSUME TypeOK, AskedOnce, Next PROVE TypeOK'
<1> USE DEF TypeOK, Goes, fileVars, rateVars, NoFile
<1>1. ASSUME NEW q \in Queries, GetCachedVideo(q) PROVE TypeOK'
  BY <1>1 DEF GetCachedVideo, AfterMiss
<1>2. ASSUME NEW q \in Queries, IncrRateLimit(q) PROVE TypeOK'
  <2>1. q \notin asked
    BY <1>2 DEF IncrRateLimit, AskedOnce
  <2>2. rate' \in [count : Nat, exp : Nat \cup {Forever}]
    BY <1>2 DEF IncrRateLimit, IncrExpire, Incr
  <2>3. /\ asked' \in SUBSET Queries /\ askedAt' \in [Queries -> Nat]
        /\ failed' \in SUBSET asked' /\ limited' \in SUBSET (asked' \ failed')
        /\ excused' \in SUBSET limited'
    BY <1>2, <2>1 DEF IncrRateLimit, Asked
  <2>4. /\ pc'[q] \in {"claim", "done"} /\ broken' = FALSE
        /\ pc' \in [Queries -> {"lookup", "limit", "claim", "set", "release",
                                "get", "lrange", "expire", "done"}]
        /\ \A r \in Queries : pc'[r] = "expire" => pc[r] = "expire"
        /\ UNCHANGED <<now, inline, ttl, file, usedAt, overtaken, claim, blind>>
    BY <1>2 DEF IncrRateLimit
  <2> QED
    BY <2>2, <2>3, <2>4
<1>3. ASSUME NEW q \in Queries, IncrRateLimitFails(q) PROVE TypeOK'
  <2>1. q \notin asked
    BY <1>3 DEF IncrRateLimitFails, AskedOnce
  <2>2. rate' \in [count : Nat, exp : Nat \cup {Forever}]
    BY <1>3 DEF IncrRateLimitFails, IncrExpire, Incr
  <2>3. /\ asked' \in SUBSET Queries /\ askedAt' \in [Queries -> Nat]
        /\ failed' \in SUBSET asked' /\ limited' \in SUBSET (asked' \ failed')
        /\ excused' \in SUBSET limited'
    BY <1>3, <2>1 DEF IncrRateLimitFails, Asked
  <2>4. /\ broken' = TRUE
        /\ pc' \in [Queries -> {"lookup", "limit", "claim", "set", "release",
                                "get", "lrange", "expire", "done"}]
        /\ \A r \in Queries : pc'[r] = "expire" => pc[r] = "expire"
        /\ UNCHANGED <<now, inline, ttl, file, usedAt, overtaken, claim, blind>>
    BY <1>3 DEF IncrRateLimitFails
  <2> QED
    BY <2>2, <2>3, <2>4
<1>4. ASSUME NEW q \in Queries, Claim(q) PROVE TypeOK'
  BY <1>4 DEF Claim
<1>5. ASSUME NEW q \in Queries, SetCachedVideo(q) PROVE TypeOK'
  BY <1>5 DEF SetCachedVideo
<1>6. ASSUME NEW q \in Queries, Release(q) PROVE TypeOK'
  BY <1>6 DEF Release
<1>7. ASSUME NEW q \in Queries, RefreshGet(q) PROVE TypeOK'
  BY <1>7 DEF RefreshGet
<1>8. ASSUME NEW q \in Queries, RefreshLRange(q) PROVE TypeOK'
  BY <1>8 DEF RefreshLRange
<1>9. ASSUME NEW q \in Queries, RefreshExpire(q) PROVE TypeOK'
  BY <1>9 DEF RefreshExpire
<1>10. ASSUME Tick PROVE TypeOK'
  BY <1>10 DEF Tick, NoCount
<1> QED
  BY <1>1, <1>2, <1>3, <1>4, <1>5, <1>6, <1>7, <1>8, <1>9, <1>10 DEF Next, QueryStep

\* A lifetime once set is not cut short.
LEMMA LifetimeKept ==
  ASSUME TypeOK, UseKeepsCached, Next
  PROVE  UseKeepsCached'
<1> DEFINE Kept == UseKeepsCached'
<1> USE DEF TypeOK, Goes, fileVars, UseKeepsCached
<1>1. ASSUME NEW q \in Queries, GetCachedVideo(q) PROVE Kept
  BY <1>1 DEF GetCachedVideo, AfterMiss
<1>2. ASSUME NEW q \in Queries, IncrRateLimit(q) PROVE Kept
  BY <1>2 DEF IncrRateLimit
<1>3. ASSUME NEW q \in Queries, IncrRateLimitFails(q) PROVE Kept
  BY <1>3 DEF IncrRateLimitFails
<1>4. ASSUME NEW q \in Queries, Claim(q) PROVE Kept
  BY <1>4 DEF Claim
<1>5. ASSUME NEW q \in Queries, SetCachedVideo(q) PROVE Kept
  BY <1>5 DEF SetCachedVideo
<1>6. ASSUME NEW q \in Queries, Release(q) PROVE Kept
  BY <1>6 DEF Release
<1>7. ASSUME NEW q \in Queries, RefreshGet(q) PROVE Kept
  BY <1>7 DEF RefreshGet
<1>8. ASSUME NEW q \in Queries, RefreshLRange(q) PROVE Kept
  BY <1>8 DEF RefreshLRange
<1>9. ASSUME NEW q \in Queries, RefreshExpire(q) PROVE Kept
  BY <1>9 DEF RefreshExpire
<1>10. ASSUME Tick PROVE Kept
  BY <1>10 DEF Tick, Expired
<1> QED
  BY <1>1, <1>2, <1>3, <1>4, <1>5, <1>6, <1>7, <1>8, <1>9, <1>10 DEF Next, QueryStep

\* Only the holder of the claim stores a file_id, and whoever else missed before
\* that is overtaken.
LEMMA MissKept ==
  ASSUME TypeOK, ClaimIsHeld, MissStands, Next
  PROVE  ClaimIsHeld' /\ MissStands'
<1> DEFINE Kept == ClaimIsHeld' /\ MissStands'
<1> USE DEF TypeOK, Goes, fileVars, rateVars, ClaimIsHeld, MissStands
<1>1. ASSUME NEW q \in Queries, GetCachedVideo(q) PROVE Kept
  BY <1>1 DEF GetCachedVideo, AfterMiss
<1>2. ASSUME NEW q \in Queries, IncrRateLimit(q) PROVE Kept
  BY <1>2 DEF IncrRateLimit
<1>3. ASSUME NEW q \in Queries, IncrRateLimitFails(q) PROVE Kept
  BY <1>3 DEF IncrRateLimitFails
<1>4. ASSUME NEW q \in Queries, Claim(q) PROVE Kept
  BY <1>4 DEF Claim
<1>5. ASSUME NEW q \in Queries, SetCachedVideo(q) PROVE Kept
  BY <1>5 DEF SetCachedVideo
<1>6. ASSUME NEW q \in Queries, Release(q) PROVE Kept
  BY <1>6 DEF Release
<1>7. ASSUME NEW q \in Queries, RefreshGet(q) PROVE Kept
  BY <1>7 DEF RefreshGet
<1>8. ASSUME NEW q \in Queries, RefreshLRange(q) PROVE Kept
  BY <1>8 DEF RefreshLRange
<1>9. ASSUME NEW q \in Queries, RefreshExpire(q) PROVE Kept
  BY <1>9 DEF RefreshExpire
<1>10. ASSUME Tick PROVE Kept
  BY <1>10 DEF Tick, NoFile
<1> QED
  BY <1>1, <1>2, <1>3, <1>4, <1>5, <1>6, <1>7, <1>8, <1>9, <1>10 DEF Next, QueryStep

\* A step replaces a file_id only for a query that was overtaken or blind.
LEMMA LatecomersReplace ==
  ASSUME TypeOK, ClaimIsHeld, MissStands, Next,
         file.id # None, file'.id \notin {None, file.id}
  PROVE  file'.id \in overtaken \cup blind
<1> USE DEF TypeOK, fileVars
<1>1. PICK q \in Queries : SetCachedVideo(q)
  BY DEF Next, QueryStep, GetCachedVideo, IncrRateLimit, IncrRateLimitFails, Claim, Release,
         RefreshGet, RefreshLRange, RefreshExpire, Tick, NoFile
<1>2. pc[q] = "set" /\ file'.id = q
  BY <1>1 DEF SetCachedVideo, Goes
<1> QED
  BY <1>2 DEF MissStands

-----------------------------------------------------------------------------
(* The counter *)

\* The steps that do not concern the counter.
Uncounted == UNCHANGED <<now, rate, asked, askedAt, failed, limited, broken, excused>>

\* A query is past the limit once IncrRateLimit has returned.
LEMMA OthersDoNotCount ==
  ASSUME TypeOK, Next,
         ~Tick, \A q \in Queries : ~IncrRateLimit(q) /\ ~IncrRateLimitFails(q)
  PROVE  /\ Uncounted
         /\ \A q \in Queries : pc[q] \notin {"lookup", "limit"} =>
                                 pc'[q] \notin {"lookup", "limit"}
<1> USE DEF TypeOK, Goes, fileVars, rateVars, Uncounted
<1>1. PICK q \in Queries :
        \/ GetCachedVideo(q) \/ Claim(q) \/ SetCachedVideo(q) \/ Release(q)
        \/ RefreshGet(q) \/ RefreshLRange(q) \/ RefreshExpire(q)
  BY DEF Next, QueryStep
<1>2. CASE GetCachedVideo(q)
  BY <1>2 DEF GetCachedVideo, AfterMiss
<1>3. CASE Claim(q) \/ SetCachedVideo(q) \/ Release(q)
  BY <1>3 DEF Claim, SetCachedVideo, Release
<1>4. CASE RefreshGet(q) \/ RefreshLRange(q) \/ RefreshExpire(q)
  BY <1>4 DEF RefreshGet, RefreshLRange, RefreshExpire
<1> QED
  BY <1>1, <1>2, <1>3, <1>4

\* What IncrRateLimit does to the queries counted.
LEMMA OneMoreCounted ==
  ASSUME TypeOK, AskedOnce, CounterRemembers, NEW q \in Queries, IncrRateLimit(q)
  PROVE  /\ q \notin asked /\ q \notin Recent
         /\ asked' = asked \cup {q} /\ failed' = failed
         /\ counted' = counted \cup {q}
         /\ askedAt'[q] = now /\ now' = now
         /\ \A r \in asked : askedAt'[r] = askedAt[r]
         /\ Recent' = Recent \cup {q}
         /\ IsFiniteSet(Recent)
         /\ Cardinality(Recent') = Cardinality(Recent) + 1
         /\ Cardinality(Recent) \in Nat
         /\ rate'.count = rate.count + 1
         /\ rate'.exp = now + Hour
<1> USE DEF TypeOK, Goes
<1>1. /\ q \notin asked
      /\ asked' = asked \cup {q} /\ failed' = failed
      /\ askedAt'[q] = now /\ now' = now
      /\ \A r \in asked : askedAt'[r] = askedAt[r]
  BY DEF IncrRateLimit, Asked, AskedOnce
<1>1a. counted' = counted \cup {q}
  BY <1>1 DEF counted
<1>2. Recent' = Recent \cup {q} /\ q \notin Recent
  BY <1>1, <1>1a DEF Recent, counted
<1>3. IsFiniteSet(Recent)
  BY FS_Subset DEF Recent, AskedOnce, counted
<1>4. Cardinality(Recent') = Cardinality(Recent) + 1 /\ Cardinality(Recent) \in Nat
  BY <1>2, <1>3, FS_AddElement, FS_CardinalityType
<1>5. rate'.count = rate.count + 1 /\ rate'.exp = now + Hour
  BY DEF IncrRateLimit, IncrExpire, Incr
<1> QED
  BY <1>1, <1>1a, <1>2, <1>3, <1>4, <1>5

\* A failing IncrRateLimit counts nobody, whatever it leaves of the counter.
LEMMA NobodyCounted ==
  ASSUME TypeOK, AskedOnce, NEW q \in Queries, IncrRateLimitFails(q)
  PROVE  /\ q \notin asked
         /\ asked' = asked \cup {q} /\ failed' = failed \cup {q}
         /\ askedAt'[q] = now /\ now' = now
         /\ \A r \in asked : askedAt'[r] = askedAt[r]
         /\ counted' = counted /\ Recent' = Recent
<1> USE DEF TypeOK, Goes
<1>1. /\ q \notin asked
      /\ asked' = asked \cup {q} /\ failed' = failed \cup {q}
      /\ askedAt'[q] = now /\ now' = now
      /\ \A r \in asked : askedAt'[r] = askedAt[r]
  BY DEF IncrRateLimitFails, Asked, AskedOnce
<1>2. counted' = counted
  BY <1>1 DEF counted
<1>3. Recent' = Recent
  BY <1>1, <1>2 DEF Recent, counted
<1> QED
  BY <1>1, <1>2, <1>3

\* The counter remembers an hour, and no longer.
LEMMA CounterKept ==
  ASSUME TypeOK, AskedOnce, CounterRemembers, CounterForgets, Next
  PROVE  AskedOnce' /\ CounterRemembers' /\ CounterForgets'
<1> DEFINE Kept == AskedOnce' /\ CounterRemembers' /\ CounterForgets'
<1> USE DEF TypeOK, Goes
<1>1. ASSUME NEW q \in Queries, IncrRateLimit(q) PROVE Kept
  <2>1. AskedOnce'
    <3>1. IsFiniteSet(asked')
      BY <1>1, OneMoreCounted, FS_AddElement DEF AskedOnce
    <3>2. \A r \in asked : pc[r] \notin {"lookup", "limit"} /\ r # q
      BY <1>1, OneMoreCounted DEF AskedOnce
    <3>3. \A r \in asked' : pc'[r] \notin {"lookup", "limit"}
      <4>1. asked' = asked \cup {q} /\ asked \subseteq Queries
        BY <1>1, OneMoreCounted
      <4>2. pc'[q] \in {"claim", "done"} /\ \A r \in Queries \ {q} : pc'[r] = pc[r]
        BY <1>1 DEF IncrRateLimit
      <4> QED
        BY <3>2, <4>1, <4>2
    <3>4. \A r \in asked' : askedAt'[r] <= now'
      BY <1>1, OneMoreCounted DEF AskedOnce
    <3> QED
      BY <3>1, <3>3, <3>4 DEF AskedOnce
  <2>2. CounterRemembers'
    <3>1. Cardinality(Recent') <= rate'.count
      BY <1>1, OneMoreCounted DEF CounterRemembers
    <3>2. rate'.exp > now' /\ \A r \in counted' : askedAt'[r] + Hour <= rate'.exp
      BY <1>1, OneMoreCounted DEF AskedOnce, counted
    <3> QED
      BY <3>1, <3>2 DEF CounterRemembers
  <2>3. CounterForgets'
    BY <1>1, OneMoreCounted DEF CounterForgets
  <2> QED
    BY <2>1, <2>2, <2>3
<1>2. ASSUME NEW q \in Queries, IncrRateLimitFails(q) PROVE Kept
  <2>1. /\ counted' = counted /\ now' = now /\ broken'
        /\ rate' \in {rate, Incr, IncrExpire}
        /\ \A r \in counted : askedAt'[r] = askedAt[r]
    BY <1>2, NobodyCounted DEF IncrRateLimitFails, counted
  <2>2. AskedOnce'
    <3>1. IsFiniteSet(asked')
      BY <1>2, NobodyCounted, FS_AddElement DEF AskedOnce
    <3>2. \A r \in asked' : pc'[r] \notin {"lookup", "limit"}
      <4>1. /\ asked' = asked \cup {q} /\ pc'[q] = "claim"
            /\ \A r \in asked : pc'[r] = pc[r] /\ pc[r] \notin {"lookup", "limit"}
        BY <1>2, NobodyCounted DEF AskedOnce, IncrRateLimitFails
      <4> QED
        BY <4>1
    <3>3. \A r \in asked' : askedAt'[r] <= now'
      BY <1>2, NobodyCounted DEF AskedOnce
    <3> QED
      BY <3>1, <3>2, <3>3 DEF AskedOnce
  <2>3. Recent' = Recent /\ Cardinality(Recent) \in Nat
    BY <1>2, NobodyCounted, FS_Subset, FS_CardinalityType DEF Recent, AskedOnce, counted
  <2>4. \A r \in counted : askedAt[r] <= now /\ askedAt[r] \in Nat
    BY DEF AskedOnce, counted
  <2>5. CounterRemembers'
    <3>1. CASE rate' = rate
      BY <2>1, <2>3, <3>1 DEF CounterRemembers
    <3>2. CASE rate' = Incr
      <4>1. rate'.count = rate.count + 1
            /\ rate'.exp = IF rate.count = 0 THEN Forever ELSE rate.exp
        BY <3>2 DEF Incr
      <4> QED
        BY <2>1, <2>3, <4>1 DEF CounterRemembers
    <3>3. CASE rate' = IncrExpire
      <4>1. rate'.count = rate.count + 1 /\ rate'.exp = now + Hour
        BY <3>3 DEF Incr, IncrExpire
      <4> QED
        BY <2>1, <2>3, <2>4, <4>1 DEF CounterRemembers
    <3> QED
      BY <2>1, <3>1, <3>2, <3>3
  <2> QED
    BY <2>1, <2>2, <2>5 DEF CounterForgets
<1>3. ASSUME Tick PROVE Kept
  <2>1. /\ now' = now + 1 /\ askedAt' = askedAt /\ broken' = broken /\ pc' = pc
        /\ asked' = asked /\ counted' = counted
    BY <1>3 DEF Tick, counted
  <2>2. AskedOnce'
    BY <2>1 DEF AskedOnce
  <2>3. /\ Cardinality(Recent') <= Cardinality(Recent)
        /\ Cardinality(Recent) \in Nat /\ Cardinality(Recent') \in Nat
    <3>1. Recent' \subseteq Recent
      BY <2>1 DEF Recent, AskedOnce, counted
    <3>2. IsFiniteSet(Recent)
      BY FS_Subset DEF Recent, AskedOnce, counted
    <3> QED
      BY <3>1, <3>2, FS_Subset, FS_CardinalityType
  <2>4. CASE Expired(rate.exp)
    <3>1. rate' = NoCount
      BY <1>3, <2>4 DEF Tick
    <3>2. CASE rate.count = 0
      BY <2>2, <2>3, <3>1, <3>2 DEF CounterRemembers, CounterForgets, NoCount
    <3>3. CASE rate.count > 0
      <4>1. \A r \in counted : askedAt[r] + Hour <= now + 1
        BY <2>4, <3>3 DEF CounterRemembers, Expired
      <4>2. Recent' = {}
        BY <2>1, <4>1 DEF Recent, counted
      <4>3. Cardinality(Recent') = 0
        BY <4>2, FS_EmptySet
      <4> QED
        BY <2>2, <3>1, <4>3 DEF CounterRemembers, CounterForgets, NoCount
    <3> QED
      BY <3>2, <3>3
  <2>5. CASE ~Expired(rate.exp)
    <3>1. rate' = rate
      BY <1>3, <2>5 DEF Tick
    <3>2. rate.exp = Forever \/ rate.exp > now + 1
      BY <2>5 DEF Expired
    <3>3. CounterForgets'
      BY <2>1, <3>1 DEF CounterForgets
    <3>4. Cardinality(Recent') <= rate'.count
      BY <2>3, <3>1 DEF CounterRemembers
    <3>5. rate.count > 0 =>
            \/ rate.exp = Forever
            \/ rate.exp > now + 1 /\ \A r \in counted : askedAt[r] + Hour <= rate.exp
      BY <3>2 DEF CounterRemembers
    <3> QED
      BY <2>1, <2>2, <3>1, <3>3, <3>4, <3>5 DEF CounterRemembers
  <2> QED
    BY <2>4, <2>5
<1>4. ASSUME ~Tick, \A q \in Queries : ~IncrRateLimit(q) /\ ~IncrRateLimitFails(q)
      PROVE  Kept
  <2>1. /\ Uncounted
        /\ \A q \in Queries : pc[q] \notin {"lookup", "limit"} =>
                                pc'[q] \notin {"lookup", "limit"}
    BY <1>4, OthersDoNotCount
  <2> QED
    BY <2>1 DEF Uncounted, AskedOnce, CounterRemembers, CounterForgets, Recent, counted
<1> QED
  BY <1>1, <1>2, <1>3, <1>4

-----------------------------------------------------------------------------
(* The limit *)

\* A query is let through only if the counter, which remembers the hour, allows.
LEMMA RecentKept ==
  ASSUME TypeOK, AskedOnce, CounterRemembers, RecentWithinLimit, Next
  PROVE  RecentWithinLimit'
<1> USE DEF TypeOK
<1>0. IsFiniteSet(Recent) /\ IsFiniteSet(Recent \ limited)
  BY FS_Subset DEF Recent, AskedOnce, counted
<1>1. ASSUME NEW q \in Queries, IncrRateLimit(q) PROVE RecentWithinLimit'
  <2>1. limited' = IF rate.count + 1 > Limit THEN limited \cup {q} ELSE limited
    BY <1>1 DEF IncrRateLimit
  <2>2. CASE rate.count + 1 > Limit
    <3>1. Recent' \ limited' = Recent \ limited
      BY <1>1, <2>1, <2>2, OneMoreCounted
    <3> QED
      BY <3>1 DEF RecentWithinLimit
  <2>3. CASE rate.count + 1 <= Limit
    <3>0. Recent' = Recent \cup {q} /\ IsFiniteSet(Recent \cup {q})
      BY <1>0, <1>1, OneMoreCounted, FS_AddElement
    <3>1. Recent' \ limited' \subseteq Recent' /\ IsFiniteSet(Recent')
      BY <3>0
    <3>2. /\ Cardinality(Recent' \ limited') <= Cardinality(Recent')
          /\ Cardinality(Recent' \ limited') \in Nat
          /\ Cardinality(Recent') \in Nat
      BY <3>1, FS_Subset, FS_CardinalityType
    <3>3. Cardinality(Recent') <= Limit
      BY <1>1, <2>3, OneMoreCounted DEF CounterRemembers
    <3> QED
      BY <3>2, <3>3 DEF RecentWithinLimit
  <2> QED
    BY <2>2, <2>3
<1>2. ASSUME Tick PROVE RecentWithinLimit'
  <2>1. /\ now' = now + 1 /\ counted' = counted /\ askedAt' = askedAt
        /\ limited' = limited
    BY <1>2 DEF Tick, counted
  <2>2. Recent' \ limited' \subseteq Recent \ limited
    BY <2>1 DEF Recent, AskedOnce, counted
  <2>3. /\ Cardinality(Recent' \ limited') <= Cardinality(Recent \ limited)
        /\ Cardinality(Recent' \ limited') \in Nat
        /\ Cardinality(Recent \ limited) \in Nat
    BY <1>0, <2>2, FS_Subset, FS_CardinalityType
  <2> QED
    BY <2>3 DEF RecentWithinLimit
<1>3. ASSUME NEW q \in Queries, IncrRateLimitFails(q) PROVE RecentWithinLimit'
  <2>1. Recent' = Recent /\ limited' = limited
    BY <1>3, NobodyCounted DEF IncrRateLimitFails
  <2> QED
    BY <2>1 DEF RecentWithinLimit
<1>4. ASSUME ~Tick, \A q \in Queries : ~IncrRateLimit(q) /\ ~IncrRateLimitFails(q)
      PROVE  RecentWithinLimit'
  BY <1>4, OthersDoNotCount DEF Uncounted, Recent, RecentWithinLimit, counted
<1> QED
  BY <1>1, <1>2, <1>3, <1>4

\* Who asks, asks now: the earlier hours stay what they were.
LEMMA HoursKept ==
  ASSUME TypeOK, AskedOnce, NEW q \in Queries, IncrRateLimit(q) \/ IncrRateLimitFails(q)
  PROVE  /\ \A r \in asked : InTheHour(r) \subseteq InTheHour(r)'
         /\ \A r \in asked' : askedAt'[r] < now => r \in asked /\ InTheHour(r)' = InTheHour(r)
         /\ \A r \in asked' :
              askedAt'[r] >= now =>
                InTheHour(r)' \ (limited' \cup failed') = Recent' \ limited'
<1> USE DEF TypeOK
<1>1. /\ q \notin asked /\ asked' = asked \cup {q} /\ failed \subseteq failed'
      /\ askedAt'[q] = now /\ now' = now
      /\ \A r \in asked : askedAt'[r] = askedAt[r]
  BY NobodyCounted DEF IncrRateLimit, Asked, AskedOnce, Goes
<1>2. \A r \in asked' : askedAt'[r] <= now /\ askedAt'[r] \in Nat
  BY <1>1 DEF AskedOnce
<1>3. \A r \in asked : InTheHour(r) \subseteq InTheHour(r)'
  BY <1>1 DEF InTheHour
<1>4. ASSUME NEW r \in asked', askedAt'[r] < now
      PROVE  r \in asked /\ InTheHour(r)' = InTheHour(r)
  BY <1>1, <1>2, <1>4 DEF InTheHour
<1>5. ASSUME NEW r \in asked', askedAt'[r] >= now
      PROVE  InTheHour(r)' \ (limited' \cup failed') = Recent' \ limited'
  <2>1. askedAt'[r] = now' /\ now' = now
    BY <1>1, <1>2, <1>5
  <2> QED
    BY <2>1 DEF InTheHour, Recent, counted
<1> QED
  BY <1>3, <1>4, <1>5

LEMMA LimitKept ==
  ASSUME TypeOK, AskedOnce, CounterRemembers, CounterForgets, RecentWithinLimit',
         PerHour, QuietUserIsFree, Next, TypeOK'
  PROVE  PerHour' /\ QuietUserIsFree'
<1> DEFINE Kept == PerHour' /\ QuietUserIsFree'
<1> USE DEF TypeOK
<1>1. ASSUME NEW q \in Queries, IncrRateLimit(q) \/ IncrRateLimitFails(q) PROVE Kept
  <2>1. /\ limited \subseteq limited' /\ limited' \subseteq limited \cup {q}
        /\ failed \subseteq failed' /\ failed' \subseteq failed \cup {q}
        /\ excused \subseteq excused'
        /\ q \notin asked
    BY <1>1 DEF IncrRateLimit, IncrRateLimitFails, AskedOnce, Goes
  <2>2. ASSUME NEW r \in asked'
        PROVE  Cardinality(InTheHour(r)' \ (limited' \cup failed')) <= Limit
    <3>1. CASE askedAt'[r] < now
      <4>1. r \in asked /\ InTheHour(r)' = InTheHour(r)
        BY <1>1, <3>1, HoursKept
      <4>2. InTheHour(r)' \ (limited' \cup failed') = InTheHour(r) \ (limited \cup failed)
        BY <2>1, <4>1 DEF InTheHour
      <4> QED
        BY <4>1, <4>2 DEF PerHour
    <3>2. CASE askedAt'[r] >= now
      BY <1>1, <3>2, HoursKept DEF RecentWithinLimit
    <3>3. askedAt'[r] \in Nat /\ now \in Nat
      OBVIOUS
    <3> QED
      BY <3>1, <3>2, <3>3
  <2>3. ASSUME Limit > 0, NEW r \in limited' \ excused' PROVE InTheHour(r)' # {r}
    <3>1. CASE r \in limited
      <4>1. InTheHour(r) # {r} /\ r \in InTheHour(r)
        BY <2>1, <2>3, <3>1 DEF QuietUserIsFree, InTheHour
      <4>2. InTheHour(r) \subseteq InTheHour(r)'
        BY <1>1, <3>1, HoursKept
      <4> QED
        BY <4>1, <4>2
    <3>2. CASE r = q /\ r \notin limited
      <4>1. IncrRateLimit(q) /\ rate.count + 1 > Limit /\ ~broken
        BY <1>1, <2>3, <3>2 DEF IncrRateLimit, IncrRateLimitFails
      <4>2. PICK s \in counted : rate.exp \in Nat /\ askedAt[s] = rate.exp - Hour
        BY <2>3, <4>1 DEF CounterForgets
      <4>3. rate.exp > now
        BY <2>3, <4>1, <4>2 DEF CounterRemembers
      <4>4. s \in asked /\ askedAt[s] <= now /\ askedAt[s] \in Nat
        BY <4>2 DEF AskedOnce, counted
      <4>5. askedAt[s] \in now - Hour + 1 .. now
        BY <4>2, <4>3, <4>4
      <4>6. s \in InTheHour(q)' /\ s # q
        BY <4>1, <4>4, <4>5, OneMoreCounted DEF InTheHour
      <4> QED
        BY <3>2, <4>6
    <3> QED
      BY <2>1, <2>3, <3>1, <3>2
  <2> QED
    BY <2>2, <2>3 DEF PerHour, QuietUserIsFree
<1>2. ASSUME \A q \in Queries : ~IncrRateLimit(q) /\ ~IncrRateLimitFails(q)
      PROVE  UNCHANGED <<asked, askedAt, failed, limited, excused>>
  BY <1>2 DEF Next, QueryStep, GetCachedVideo, Claim, SetCachedVideo,
              Release, RefreshGet, RefreshLRange, RefreshExpire, Tick, rateVars
<1>3. CASE UNCHANGED <<asked, askedAt, failed, limited, excused>>
  BY <1>3 DEF PerHour, QuietUserIsFree, InTheHour
<1> QED
  BY <1>1, <1>2, <1>3

-----------------------------------------------------------------------------
(* The invariant and the theorems *)

LEMMA Inductive == IInv /\ [Next]_vars => IInv'
<1> SUFFICES ASSUME IInv, [Next]_vars PROVE IInv'
  OBVIOUS
<1>1. CASE Next
  <2>1. TypeOK' /\ UseKeepsCached' /\ ClaimIsHeld' /\ MissStands'
    BY <1>1, TypeKept, LifetimeKept, MissKept DEF IInv
  <2>2. AskedOnce' /\ CounterRemembers' /\ CounterForgets' /\ RecentWithinLimit'
    BY <1>1, CounterKept, RecentKept DEF IInv
  <2>3. PerHour' /\ QuietUserIsFree'
    BY <1>1, <2>1, <2>2, LimitKept DEF IInv
  <2> QED
    BY <2>1, <2>2, <2>3 DEF IInv
<1>2. CASE UNCHANGED vars
  BY <1>2 DEF vars, IInv, TypeOK, UseKeepsCached, ClaimIsHeld, MissStands,
              AskedOnce, CounterRemembers, CounterForgets, RecentWithinLimit, Recent,
              counted, PerHour, QuietUserIsFree, InTheHour
<1> QED
  BY <1>1, <1>2

LEMMA Invariance == Spec => []IInv
  BY InitHolds, Inductive, PTL DEF Spec

\* The variables keep to their types, a key that is gone has no expiry, and EXPIRE
\* is only ever given one of the two configured lifetimes.
THEOREM LifetimeTypes == Spec => []TypeOK
  BY Invariance, PTL DEF IInv

\* Once its lifetime was set, by its download or by a hit, a video stays cached
\* for CACHE_TTL, for any interleaving of RefreshFileIDTTL with other queries.
THEOREM CachedForATTL == Spec => []UseKeepsCached
  BY Invariance, PTL DEF IInv

\* In any hour, wherever it begins, at most RATE_LIMIT_PER_HOUR inline queries of
\* a user get through, not counting those whose own pipeline failed.
THEOREM AtMostLimitPerHour == Spec => []PerHour
  BY Invariance, PTL DEF IInv

\* Only another query in the hour before, or a failed pipeline right before, turns
\* a query away.
THEOREM QuietUsersGetThrough == Spec => []QuietUserIsFree
  BY Invariance, PTL DEF IInv

\* Only a query that was overtaken or whose lookup failed replaces a cached
\* file_id.
THEOREM OnlyLatecomersReplace == Spec => ReplacedByLatecomersOnly
<1>1. IInv /\ [Next]_vars =>
        [file.id # None /\ file'.id \notin {None, file.id} =>
           file'.id \in overtaken \cup blind]_vars
  BY LatecomersReplace DEF IInv, vars
<1> QED
  BY <1>1, Invariance, PTL DEF Spec, ReplacedByLatecomersOnly
=============================================================================
