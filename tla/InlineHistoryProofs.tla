------------------------- MODULE InlineHistoryProofs -------------------------
(***************************************************************************)
(* What is proved of InlineHistory for any number of additions, queries    *)
(* and files and any Cap.                                                  *)
(*                                                                         *)
(* MissedMeansOlder is not inductive alone.  When an addition bumps the    *)
(* version, every answer given before must be older than the new version,  *)
(* which holds because no query has read a version above the current one   *)
(* (Versions).  When a query reads the list, it misses nothing that is     *)
(* visible at that moment; and a step of another addition makes no entry   *)
(* visible but its own, which is not finished.                             *)
(***************************************************************************)
EXTENDS InlineHistory, FiniteSetTheorems, TLAPS

\* No query has read a version that is still to come.
Versions == \A q \in Queries : qver[q] <= ver

IInv == TypeOK /\ Versions /\ MissedMeansOlder

-----------------------------------------------------------------------------
(* The visible part of a list *)

\* Cutting a list to its newest n entries keeps the newest of them, adds none,
\* and leaves nothing to cut.
LEMMA NewestProperties ==
  ASSUME NEW S, NEW s \in Seq(S), NEW n \in Nat
  PROVE  /\ Newest(s, n) \in Seq(S)
         /\ Len(Newest(s, n)) <= n
         /\ Newest(Newest(s, n), n) = Newest(s, n)
         /\ n # 0 /\ Newest(s, n) # <<>> => s # <<>> /\ Head(Newest(s, n)) = Head(s)
<1> DEFINE k == IF n < Len(s) THEN n ELSE Len(s)
           t == SubSeq(s, 1, k)
<1>1. /\ k \in Nat /\ k <= Len(s) /\ k <= n
      /\ Len(s) \in Nat
  OBVIOUS
<1>2. /\ t \in Seq(S)
      /\ Len(t) = k
      /\ \A i \in 1 .. k : t[i] = s[i]
  BY <1>1
<1>3. Newest(s, n) = t
  BY DEF Newest
<1>4. Newest(t, n) = t
  <2>1. (IF n < Len(t) THEN n ELSE Len(t)) = k
    BY <1>1, <1>2
  <2>2. SubSeq(t, 1, k) = t
    BY <1>1, <1>2
  <2> QED  BY <2>1, <2>2 DEF Newest
<1>5. n # 0 /\ t # <<>> => s # <<>> /\ Head(t) = Head(s)
  BY <1>1, <1>2
<1> QED  BY <1>1, <1>2, <1>3, <1>4, <1>5

\* A push makes nothing visible but the new entry.
LEMMA NewestAfterPush ==
  ASSUME NEW S, NEW s \in Seq(S), NEW e \in S, NEW n \in Nat
  PROVE  /\ <<e>> \o s \in Seq(S)
         /\ Len(<<e>> \o s) = Len(s) + 1
         /\ Head(<<e>> \o s) = e
         /\ Range(Newest(<<e>> \o s, n)) \subseteq {e} \cup Range(Newest(s, n))
<1> DEFINE t == <<e>> \o s
           k == IF n < Len(s) THEN n ELSE Len(s)
           l == IF n < Len(t) THEN n ELSE Len(t)
<1>1. /\ t \in Seq(S)
      /\ Len(t) = Len(s) + 1
      /\ Len(s) \in Nat
      /\ t[1] = e
      /\ Head(t) = e
      /\ \A i \in 2 .. Len(t) : t[i] = s[i - 1]
  OBVIOUS
<1> HIDE DEF t
<1>2. /\ k \in Nat /\ k <= Len(s)
      /\ l \in Nat /\ l <= Len(t) /\ l <= k + 1
  BY <1>1
<1> HIDE DEF k, l
<1>3. ASSUME NEW x \in Range(SubSeq(t, 1, l))
      PROVE  x \in {e} \cup Range(SubSeq(s, 1, k))
  <2>1. PICK i \in 1 .. l : x = t[i]
    <3>1. /\ DOMAIN SubSeq(t, 1, l) = 1 .. l
          /\ \A i \in 1 .. l : SubSeq(t, 1, l)[i] = t[i]
      BY <1>1, <1>2
    <3> QED  BY <3>1 DEF Range
  <2>2. CASE i = 1
    BY <2>1, <2>2, <1>1
  <2>3. CASE i # 1
    <3>1. i - 1 \in 1 .. k /\ i \in 2 .. Len(t)
      BY <2>3, <1>2
    <3>2. x = s[i - 1]
      BY <2>1, <3>1, <1>1
    <3>3. /\ DOMAIN SubSeq(s, 1, k) = 1 .. k
          /\ \A j \in 1 .. k : SubSeq(s, 1, k)[j] = s[j]
      BY <1>2
    <3> QED  BY <3>1, <3>2, <3>3 DEF Range
  <2> QED  BY <2>2, <2>3
<1>4. /\ Newest(t, n) = SubSeq(t, 1, l)
      /\ Newest(s, n) = SubSeq(s, 1, k)
  BY DEF Newest, k, l
<1> QED  BY <1>1, <1>3, <1>4 DEF t

-----------------------------------------------------------------------------
(* The invariant *)

LEMMA TypesPreserved ==
  ASSUME TypeOK, [Next]_vars
  PROVE  TypeOK'
<1> USE HistoryAssumption
<1>1. ASSUME NEW g \in Adds, AddStep(g)
      PROVE  TypeOK'
  <2>1. CASE AddToHistoryIfNew(g)
    BY <2>1 DEF AddToHistoryIfNew, Step, redisVars, queryVars, TypeOK, AddPC
  <2>2. CASE LPush(g)
    <3>1. history' \in Seq(Adds)
      BY <2>2 DEF LPush, TypeOK
    <3> QED  BY <2>2, <3>1 DEF LPush, Step, queryVars, TypeOK, AddPC
  <2>3. CASE LTrim(g)
    <3>1. history' \in Seq(Adds)
      BY <2>3, NewestProperties DEF LTrim, TypeOK
    <3> QED  BY <2>3, <3>1 DEF LTrim, Step, queryVars, TypeOK, AddPC
  <2>4. CASE Expire(g)
    BY <2>4 DEF Expire, Step, queryVars, TypeOK, AddPC
  <2>5. CASE IncrInlineVersion(g)
    BY <2>5 DEF IncrInlineVersion, Step, queryVars, TypeOK, AddPC
  <2>6. CASE Fail(g)
    BY <2>6 DEF Fail, redisVars, queryVars, TypeOK
  <2> QED  BY <1>1, <2>1, <2>2, <2>3, <2>4, <2>5, <2>6 DEF AddStep
<1>2. ASSUME NEW q \in Queries, QueryStep(q)
      PROVE  TypeOK'
  <2>1. CASE GetInlineVersion(q)
    BY <2>1 DEF GetInlineVersion, redisVars, addVars, TypeOK
  <2>2. CASE GetVideoHistory(q)
    <3>1. /\ Newest(history, Cap) \in Seq(Adds)
          /\ Len(Newest(history, Cap)) <= Cap
      BY NewestProperties DEF TypeOK
    <3> QED  BY <2>2, <3>1 DEF GetVideoHistory, redisVars, addVars, TypeOK
  <2> QED  BY <1>2, <2>1, <2>2 DEF QueryStep
<1>3. CASE ClearVideoHistory
  <2>1. history' \in Seq(Adds)
    BY <1>3 DEF ClearVideoHistory
  <2> QED  BY <1>3, <2>1 DEF ClearVideoHistory, addVars, queryVars, TypeOK
<1>4. CASE UNCHANGED vars
  BY <1>4 DEF vars, TypeOK
<1> QED  BY <1>1, <1>2, <1>3, <1>4 DEF Next

LEMMA VersionsPreserved ==
  ASSUME TypeOK, Versions, [Next]_vars
  PROVE  Versions'
<1>1. ASSUME NEW g \in Adds, AddStep(g)
      PROVE  Versions'
  BY <1>1
  DEF AddStep, AddToHistoryIfNew, LPush, LTrim, Expire, IncrInlineVersion,
      Fail, Step, redisVars, queryVars, Versions, TypeOK
<1>2. ASSUME NEW q \in Queries, QueryStep(q)
      PROVE  Versions'
  BY <1>2
  DEF QueryStep, GetInlineVersion, GetVideoHistory, redisVars, Versions, TypeOK
<1>3. CASE ClearVideoHistory
  BY <1>3 DEF ClearVideoHistory, queryVars, Versions
<1>4. CASE UNCHANGED vars
  BY <1>4 DEF vars, Versions
<1> QED  BY <1>1, <1>2, <1>3, <1>4 DEF Next

\* The additions a listing would show now.
Visible == Range(Newest(history, Cap))

\* A step that answers no query, finishes no addition and makes visible nothing
\* but unfinished additions keeps MissedMeansOlder.
LEMMA NothingMissed ==
  ASSUME MissedMeansOlder, UNCHANGED <<qpc, qver, shown, ver>>,
         \A g \in Adds : apc'[g] = "done" => apc[g] = "done",
         \A g \in Adds : g \in Visible' /\ apc'[g] = "done" => g \in Visible
  PROVE  MissedMeansOlder'
  BY DEF MissedMeansOlder, Visible

LEMMA MissedMeansOlderPreserved ==
  ASSUME IInv, [Next]_vars
  PROVE  MissedMeansOlder'
<1> USE HistoryAssumption DEF IInv
<1>1. ASSUME NEW g \in Adds, AddStep(g)
      PROVE  MissedMeansOlder'
  <2>1. CASE AddToHistoryIfNew(g)
    BY <2>1, NothingMissed
    DEF AddToHistoryIfNew, Step, redisVars, queryVars, TypeOK, Visible
  <2>2. CASE LPush(g)
    <3>1. Visible' \subseteq {g} \cup Visible
      BY <2>2, NewestAfterPush DEF LPush, TypeOK, Visible
    <3> QED  BY <2>2, <3>1, NothingMissed DEF LPush, Step, queryVars, TypeOK
  <2>3. CASE LTrim(g)
    <3>1. Visible' = Visible
      BY <2>3, NewestProperties DEF LTrim, TypeOK, Visible
    <3> QED  BY <2>3, <3>1, NothingMissed DEF LTrim, Step, queryVars, TypeOK
  <2>4. CASE Expire(g)
    BY <2>4, NothingMissed DEF Expire, Step, queryVars, TypeOK, Visible
  <2>5. CASE IncrInlineVersion(g)
    <3>1. \A q \in Queries : qver'[q] < ver'
      BY <2>5 DEF IncrInlineVersion, Step, queryVars, Versions, TypeOK
    <3> QED  BY <3>1 DEF MissedMeansOlder
  <2>6. CASE Fail(g)
    BY <2>6, NothingMissed DEF Fail, redisVars, queryVars, Visible
  <2> QED  BY <1>1, <2>1, <2>2, <2>3, <2>4, <2>5, <2>6 DEF AddStep
<1>2. ASSUME NEW q \in Queries, QueryStep(q)
      PROVE  MissedMeansOlder'
  <2>1. \A p \in Queries \ {q} :
          qpc'[p] = qpc[p] /\ qver'[p] = qver[p] /\ shown'[p] = shown[p]
    BY <1>2 DEF QueryStep, GetInlineVersion, GetVideoHistory, TypeOK
  <2>2. UNCHANGED <<apc, history, ver>>
    BY <1>2
    DEF QueryStep, GetInlineVersion, GetVideoHistory, addVars, redisVars
  <2>3. qpc'[q] = "answered" => shown'[q] = Newest(history, Cap)
    BY <1>2 DEF QueryStep, GetInlineVersion, GetVideoHistory, TypeOK
  <2> QED  BY <2>1, <2>2, <2>3 DEF MissedMeansOlder
<1>3. CASE ClearVideoHistory
  <2>1. Visible' = {}
    BY <1>3 DEF ClearVideoHistory, Visible, Newest, Range
  <2> QED  BY <2>1 DEF MissedMeansOlder, Visible
<1>4. CASE UNCHANGED vars
  BY <1>4, NothingMissed DEF vars, Visible
<1> QED  BY <1>1, <1>2, <1>3, <1>4 DEF Next

LEMMA IInvHolds == Spec => []IInv
<1>1. Init => IInv
  <2> SUFFICES ASSUME Init
               PROVE  IInv
    OBVIOUS
  <2>1. /\ apc \in [Adds -> AddPC]
        /\ history \in Seq(Adds)
        /\ shown \in [Queries -> Seq(Adds)]
        /\ \A q \in Queries : Len(shown[q]) = 0
    BY DEF Init, AddPC
  <2>2. TypeOK
    <3>1. \A q \in Queries : Len(shown[q]) <= Cap
      BY <2>1, HistoryAssumption
    <3> QED  BY <2>1, <3>1 DEF Init, TypeOK
  <2>3. Versions /\ MissedMeansOlder
    BY DEF Init, Versions, MissedMeansOlder
  <2> QED  BY <2>2, <2>3 DEF IInv
<1>2. IInv /\ [Next]_vars => IInv'
  BY TypesPreserved, VersionsPreserved, MissedMeansOlderPreserved DEF IInv
<1> QED  BY <1>1, <1>2, PTL DEF Spec

\* The variables keep to their types, and no answer has more than Cap results.
THEOREM TypeCorrect == Spec => []TypeOK
  BY IInvHolds, PTL DEF IInv

\* A listing that misses a finished addition was answered under a version that
\* has passed: reading the version before the list is what makes it so.
THEOREM StaleListingsAreOlder == Spec => []MissedMeansOlder
  BY IInvHolds, PTL DEF IInv

-----------------------------------------------------------------------------
(* The length and the expiry of the list *)

\* A history without an expiry date waits for its newest entry, in every
\* interleaving of additions, failures and /clear.
THEOREM HistoryHasExpiry == Spec => []HistoryExpires
<1> USE HistoryAssumption
<1>1. Init => HistoryExpires
  BY DEF Init, HistoryExpires
<1>2. ASSUME TypeOK, HistoryExpires, [Next]_vars
      PROVE  HistoryExpires'
  <2>1. ASSUME NEW g \in Adds, AddStep(g)
        PROVE  HistoryExpires'
    <3>1. CASE LPush(g)
      <4>1. Head(history') = g /\ apc'[g] = "ltrim"
        BY <1>2, <3>1, NewestAfterPush DEF LPush, Step, TypeOK
      <4> QED  BY <4>1 DEF HistoryExpires
    <3>2. CASE LTrim(g)
      <4>1. history' # <<>> => history # <<>> /\ Head(history') = Head(history)
        BY <1>2, <3>2, NewestProperties DEF LTrim, TypeOK
      <4>2. /\ UNCHANGED expiring
            /\ apc'[g] = "expire"
            /\ \A h \in Adds \ {g} : apc'[h] = apc[h]
        BY <1>2, <3>2 DEF LTrim, Step, TypeOK
      <4>3. history # <<>> => Head(history) \in Adds
        BY <1>2 DEF TypeOK
      <4> QED  BY <1>2, <4>1, <4>2, <4>3 DEF HistoryExpires
    <3>3. CASE Expire(g)
      BY <3>3 DEF Expire, HistoryExpires
    <3>4. CASE AddToHistoryIfNew(g) \/ IncrInlineVersion(g) \/ Fail(g)
      <4>1. /\ UNCHANGED <<history, expiring>>
            /\ \A h \in Adds : apc[h] \in {"ltrim", "expire"} => apc'[h] = apc[h]
        BY <1>2, <3>4
        DEF AddToHistoryIfNew, IncrInlineVersion, Fail, Step, redisVars, TypeOK
      <4>2. history # <<>> => Head(history) \in Adds
        BY <1>2 DEF TypeOK
      <4> QED  BY <1>2, <4>1, <4>2 DEF HistoryExpires
    <3> QED  BY <2>1, <3>1, <3>2, <3>3, <3>4 DEF AddStep
  <2>2. ASSUME NEW q \in Queries, QueryStep(q)
        PROVE  HistoryExpires'
    BY <1>2, <2>2
    DEF QueryStep, GetInlineVersion, GetVideoHistory, addVars, redisVars,
        HistoryExpires
  <2>3. CASE ClearVideoHistory
    BY <2>3 DEF ClearVideoHistory, HistoryExpires
  <2>4. CASE UNCHANGED vars
    BY <1>2, <2>4 DEF vars, HistoryExpires
  <2> QED  BY <1>2, <2>1, <2>2, <2>3, <2>4 DEF Next
<1> QED  BY <1>1, <1>2, TypeCorrect, PTL DEF Spec

\* The additions that have pushed and not trimmed.
Untrimmed == {g \in Adds : apc[g] = "ltrim"}

LEMMA UntrimmedCount ==
  IsFiniteSet(Untrimmed) /\ Cardinality(Untrimmed) \in Nat
  BY HistoryAssumption, FS_Subset, FS_CardinalityType DEF Untrimmed

\* The history outgrows Cap by one entry at most for each addition that has not
\* trimmed it.
THEOREM HistoryStaysCut == Spec => []HistoryIsCut
<1> USE HistoryAssumption
<1>1. Init => HistoryIsCut
  BY UntrimmedCount DEF Init, HistoryIsCut, Untrimmed
<1>2. ASSUME TypeOK, HistoryIsCut, [Next]_vars
      PROVE  HistoryIsCut'
  <2>1. Len(history) \in Nat /\ Len(history) <= Cap + Cardinality(Untrimmed)
    BY <1>2 DEF TypeOK, HistoryIsCut, Untrimmed
  <2>2. Cardinality(Untrimmed') \in Nat
    BY FS_Subset, FS_CardinalityType DEF Untrimmed
  <2>3. ASSUME Len(history') <= Cap
        PROVE  HistoryIsCut'
    <3>1. Len(history') \in Nat
      BY <1>2, TypesPreserved DEF TypeOK
    <3> QED  BY <2>2, <2>3, <3>1 DEF HistoryIsCut, Untrimmed
  <2>4. ASSUME UNCHANGED <<history, Untrimmed>>
        PROVE  HistoryIsCut'
    BY <2>1, <2>4 DEF HistoryIsCut, Untrimmed
  <2>5. ASSUME NEW g \in Adds, AddStep(g)
        PROVE  HistoryIsCut'
    <3>1. CASE LPush(g)
      <4>1. Untrimmed' = Untrimmed \cup {g} /\ g \notin Untrimmed
        BY <1>2, <3>1 DEF LPush, Step, TypeOK, Untrimmed
      <4>2. Cardinality(Untrimmed') = Cardinality(Untrimmed) + 1
        BY <4>1, UntrimmedCount, FS_AddElement
      <4>3. Len(history') = Len(history) + 1
        BY <1>2, <3>1, NewestAfterPush DEF LPush, TypeOK
      <4> QED  BY <2>1, <4>2, <4>3, UntrimmedCount DEF HistoryIsCut, Untrimmed
    <3>2. CASE LTrim(g)
      <4>1. Len(history') <= Cap
        BY <1>2, <3>2, NewestProperties DEF LTrim, TypeOK
      <4> QED  BY <2>3, <4>1
    <3>3. CASE AddToHistoryIfNew(g) \/ Expire(g) \/ IncrInlineVersion(g) \/ Fail(g)
      BY <1>2, <2>4, <3>3
      DEF AddToHistoryIfNew, Expire, IncrInlineVersion, Fail, Step, redisVars,
          TypeOK, Untrimmed
    <3> QED  BY <2>5, <3>1, <3>2, <3>3 DEF AddStep
  <2>6. ASSUME NEW q \in Queries, QueryStep(q)
        PROVE  HistoryIsCut'
    BY <2>4, <2>6
    DEF QueryStep, GetInlineVersion, GetVideoHistory, addVars, redisVars,
        Untrimmed
  <2>7. CASE ClearVideoHistory
    BY <2>3, <2>7 DEF ClearVideoHistory
  <2>8. CASE UNCHANGED vars
    BY <2>4, <2>8 DEF vars, Untrimmed
  <2> QED  BY <1>2, <2>5, <2>6, <2>7, <2>8 DEF Next
<1> QED  BY <1>1, <1>2, TypeCorrect, PTL DEF Spec
=============================================================================
