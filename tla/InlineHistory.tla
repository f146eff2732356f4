---------------------------- MODULE InlineHistory ----------------------------
(***************************************************************************)
(* The history of one user and the version of its inline listing, both in  *)
(* Redis: AddVideoHistory, IncrInlineVersion and their readers in          *)
(* internal/cache/redis.go, and the code of internal/bot that calls them.  *)
(* Users have keys of their own, so one user stands for all.               *)
(*                                                                         *)
(* An add is one goroutine that puts a video into the history: a worker    *)
(* that has uploaded the video, or the goroutine that handleMessage and    *)
(* handleInline start on a cache hit.  A query is one empty inline query,  *)
(* which is answered with the history.  Each Redis command is a step of    *)
(* its own, since nothing groups the commands of two goroutines, and each  *)
(* may fail.                                                               *)
(*                                                                         *)
(* The entries of the history are told apart by the add that made them, as *)
(* their AddedAt does in the code.                                         *)
(***************************************************************************)
EXTENDS Naturals, Sequences, FiniteSets, Functions

CONSTANTS
  Adds,     \* the goroutines that add a video
  Queries,  \* the empty inline queries
  Files,    \* the file_ids
  Cap       \* the length the history is cut to (50 in the code)

ASSUME HistoryAssumption ==
  /\ Cap \in Nat \ {0}
  /\ IsFiniteSet(Adds)

VARIABLES
  add,      \* what each add is about: who runs it, and the file_id
  apc,      \* the Redis command each add executes next
  running,  \* whether each add is still running
  history,  \* Redis: the list history:<user>, newest first
  expiring, \* Redis: whether that key has an expiry
  ver,      \* Redis: inline_ver:<user>
  qpc,      \* how far each query has got
  qver,     \* the version each query has read
  shown     \* the entries each query was answered with

addVars   == <<add, apc, running>>
redisVars == <<history, expiring, ver>>
queryVars == <<qpc, qver, shown>>
vars      == <<add, apc, running, history, expiring, ver, qpc, qver, shown>>

AddPC == {"check", "lpush", "ltrim", "expire", "incr", "done", "known"}

\* LRANGE and LTRIM from 0 to n - 1: the first n entries, or all there are.
Newest(s, n) == SubSeq(s, 1, IF n < Len(s) THEN n ELSE Len(s))

Init ==
  /\ add \in [Adds -> [by : {"worker", "hit"}, file : Files]]
  /\ \A g, h \in Adds :     \* each upload has a file_id of its own
       add[g].by = "worker" /\ add[h].by = "worker" /\ add[g].file = add[h].file
         => g = h
  /\ apc = [g \in Adds |-> IF add[g].by = "hit" THEN "check" ELSE "lpush"]
  /\ running = [g \in Adds |-> TRUE]
  /\ history = <<>>
  /\ expiring = FALSE
  /\ ver = 0
  /\ qpc = [q \in Queries |-> "version"]
  /\ qver = [q \in Queries |-> 0]
  /\ shown = [q \in Queries |-> <<>>]

-----------------------------------------------------------------------------
(* Adding a video *)

Step(g, from, to) ==
  /\ running[g]
  /\ apc[g] = from
  /\ apc' = [apc EXCEPT ![g] = to]
  /\ UNCHANGED <<add, running>>
  /\ UNCHANGED queryVars

\* addToHistoryIfNew, on a cache hit: it reads the history, and is done if the
\* file_id is there.
AddToHistoryIfNew(g) ==
  /\ Step(g, "check", IF \E h \in Range(history) : add[h].file = add[g].file
                        THEN "known" ELSE "lpush")
  /\ UNCHANGED redisVars

\* AddVideoHistory: a new key has no expiry yet.
LPush(g) ==
  /\ Step(g, "lpush", "ltrim")
  /\ history' = <<g>> \o history
  /\ UNCHANGED <<expiring, ver>>

\* Wrong: LTRIM 0 50 keeps an entry too many.
WrongLTrim(g) ==
  /\ Step(g, "ltrim", "expire")
  /\ history' = Newest(history, Cap + 1)
  /\ UNCHANGED <<expiring, ver>>

\* Wrong: AddVideoHistory returns before its EXPIRE.
ShortLTrim(g) ==
  /\ Step(g, "ltrim", "incr")
  /\ history' = Newest(history, Cap)
  /\ UNCHANGED <<expiring, ver>>

LTrim(g) ==
  /\ Step(g, "ltrim", "expire")
  /\ history' = Newest(history, Cap)
  /\ UNCHANGED <<expiring, ver>>

\* EXPIRE does nothing to a key that has been deleted.
Expire(g) ==
  /\ Step(g, "expire", "incr")
  /\ expiring' = (history # <<>>)
  /\ UNCHANGED <<history, ver>>

\* Wrong: the cache hit forgets to bump the version.
WrongIncrInlineVersion(g) ==
  /\ Step(g, "incr", "done")
  /\ ver' = IF add[g].by = "worker" THEN ver + 1 ELSE ver
  /\ UNCHANGED <<history, expiring>>

IncrInlineVersion(g) ==
  /\ Step(g, "incr", "done")
  /\ ver' = ver + 1
  /\ UNCHANGED <<history, expiring>>

\* A command fails, and the add ends without the rest of them; or the process
\* ends.
Fail(g) ==
  /\ running[g]
  /\ apc[g] \notin {"done", "known"}
  /\ running' = [running EXCEPT ![g] = FALSE]
  /\ UNCHANGED <<add, apc>>
  /\ UNCHANGED redisVars
  /\ UNCHANGED queryVars

-----------------------------------------------------------------------------
(* /clear and the empty inline query *)

\* DEL.  The version stays as it is.
ClearVideoHistory ==
  /\ history # <<>>
  /\ history' = <<>>
  /\ expiring' = FALSE
  /\ UNCHANGED ver
  /\ UNCHANGED addVars
  /\ UNCHANGED queryVars

\* showVideoHistoryInline reads the version first; a failed GET reads as 0 ...
GetInlineVersion(q) ==
  /\ qpc[q] = "version"
  /\ qpc' = [qpc EXCEPT ![q] = "history"]
  /\ \E v \in {0, ver} : qver' = [qver EXCEPT ![q] = v]
  /\ UNCHANGED shown
  /\ UNCHANGED addVars
  /\ UNCHANGED redisVars

\* Wrong: all of the list is shown.
WrongGetVideoHistory(q) ==
  /\ qpc[q] = "history"
  /\ qpc' = [qpc EXCEPT ![q] = "answered"]
  /\ shown' = [shown EXCEPT ![q] = history]
  /\ UNCHANGED qver
  /\ UNCHANGED addVars
  /\ UNCHANGED redisVars

\* ... and then the list, of which it shows at most Cap entries under the
\* result ids h<version>-<index>.  A failed LRANGE or an empty list is answered
\* with the usage article.
GetVideoHistory(q) ==
  /\ qpc[q] = "history"
  /\ \/ /\ qpc' = [qpc EXCEPT ![q] = "answered"]
        /\ shown' = [shown EXCEPT ![q] = Newest(history, Cap)]
     \/ /\ qpc' = [qpc EXCEPT ![q] = "usage"]
        /\ UNCHANGED shown
  /\ UNCHANGED qver
  /\ UNCHANGED addVars
  /\ UNCHANGED redisVars

-----------------------------------------------------------------------------
AddStep(g) ==
  \/ AddToHistoryIfNew(g) \/ LPush(g) \/ LTrim(g) \/ Expire(g)
  \/ IncrInlineVersion(g) \/ Fail(g)

QueryStep(q) == GetInlineVersion(q) \/ GetVideoHistory(q)

Next ==
  \/ \E g \in Adds : AddStep(g)
  \/ \E q \in Queries : QueryStep(q)
  \/ ClearVideoHistory

Spec == Init /\ [][Next]_vars

-----------------------------------------------------------------------------
(* What must hold *)

\* The variables keep to their types; an answer has at most Cap results, as
\* Telegram requires.
TypeOK ==
  /\ add \in [Adds -> [by : {"worker", "hit"}, file : Files]]
  /\ apc \in [Adds -> AddPC]
  /\ running \in [Adds -> BOOLEAN]
  /\ history \in Seq(Adds)
  /\ expiring \in BOOLEAN
  /\ ver \in Nat
  /\ qpc \in [Queries -> {"version", "history", "answered", "usage"}]
  /\ qver \in [Queries -> Nat]
  /\ shown \in [Queries -> Seq(Adds)]
  /\ \A q \in Queries : Len(shown[q]) <= Cap

\* A listing that misses a finished addition was answered under an older
\* version: the next listing has other result ids.  It takes the order of the
\* commands on both sides: LPUSH before INCR in the add, GET before LRANGE in
\* showVideoHistoryInline.
MissedMeansOlder ==
  \A q \in Queries, g \in Adds :
    /\ qpc[q] = "answered"
    /\ apc[g] = "done"
    /\ g \in Range(Newest(history, Cap)) \ Range(shown[q])
    => qver[q] < ver

\* The history outgrows Cap only by additions that have not come to their
\* LTRIM, or never will, because it failed.
HistoryIsCut ==
  Len(history) <= Cap + Cardinality({g \in Adds : apc[g] = "ltrim"})

\* A history without an expiry date waits for the EXPIRE of its newest entry,
\* or that addition has failed: no interleaving of additions and /clear leaves
\* a list in Redis for good.
HistoryExpires ==
  history # <<>> /\ ~expiring => apc[Head(history)] \in {"ltrim", "expire"}

\* bot.go:220-221 says of addToHistoryIfNew that it adds a video only if its
\* file_id is not in the user's history yet.
NoDuplicateVideos ==
  \A i, j \in DOMAIN history : add[history[i]].file = add[history[j]].file => i = j

\* README.md:132 and inline.go:95-96 rely on the version in a result id: once
\* the history is another one, its results have other ids.
ResultIdNamesOneVideo ==
  \A p, q \in Queries :
    qpc[p] = "answered" /\ qpc[q] = "answered" /\ qver[p] = qver[q]
      => \A i \in DOMAIN shown[p] \cap DOMAIN shown[q] :
           add[shown[p][i]].file = add[shown[q][i]].file
=============================================================================
