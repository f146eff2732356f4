------------------------ MODULE AdminCommandsProofs ------------------------
(***************************************************************************)
(* What holds of the administrators' commands for any number of commands   *)
(* and users and any ADMIN_IDS, proved from one inductive invariant.       *)
(***************************************************************************)
EXTENDS AdminCommands, FiniteSetTheorems, TLAPS

USE AdminAssumption

\* Every entry of ADMIN_IDS that is a number is a user.
LEMMA AdminIDsAreUsers == AdminIDs \subseteq Users
  BY DEF AdminIDs, Range

\* The statements of GetStats, spelt out.
LEMMA TheQueries ==
  /\ Range(Queries) = {"users", "active", "totals"}
  /\ DOMAIN Queries = {1, 2, 3}
  /\ Len(Queries) = 3
  /\ Queries[1] = "users" /\ Queries[2] = "active" /\ Queries[3] = "totals"
<1>1. /\ Len(Queries) = 3
      /\ Queries[1] = "users" /\ Queries[2] = "active" /\ Queries[3] = "totals"
  BY DEF Queries
<1>2. DOMAIN Queries = 1 .. 3
  BY DEF Queries
<1>3. 1 .. 3 = {1, 2, 3}
  OBVIOUS
<1>4. Range(Queries) = {"users", "active", "totals"}
  BY <1>1, <1>2, <1>3 DEF Range
<1> QED
  BY <1>1, <1>2, <1>3, <1>4

\* The commands' senders that got past isAdmin were appointed, like the rows of
\* admins: the check may be out of date when the command runs.
SendersAreAppointed ==
  \A S \in SUBSET Users :
    Trusted(S) => \A c \in Commands : Authorised(c) => cmd[c].from \in S

\* A stored name came with some update that has been recorded.
NamesCameWithUpdates ==
  \A u \in Users :
    users[u] = "named" => \E d \in upserted : cmd[d].from = u /\ cmd[d].named

\* A reply is the handler's last step.
RepliesEnd == \A c \in Commands : reply[c] # "none" => pc[c] = "done"

\* The users active today made a download each, and what /stats has read of them
\* so far is no more than the downloads there are.
TodayIsCounted ==
  /\ Cardinality(today) <= downloads
  /\ \A c \in Commands : pc[c] = "totals" => stats[c]["active"] <= downloads

IInv ==
  /\ TypeOK
  /\ AdminsAreAppointed
  /\ SendersAreAppointed
  /\ RemovedAreStopped
  /\ NamesStayKnown
  /\ NamesCameWithUpdates
  /\ RepliesEnd
  /\ TodayIsCounted
  /\ StatsAddUp

\* The numbers of a /stats are natural numbers.
LEMMA AnswersAreNumbers ==
  ASSUME TypeOK, NEW query
  PROVE  Answer(query) \in Nat
<1>1. IsFiniteSet({u \in Users : users[u] # "unknown"})
  BY FS_Subset
<1>2. IsFiniteSet(today)
  BY FS_Subset DEF TypeOK
<1> QED
  BY <1>1, <1>2, FS_CardinalityType DEF Answer, TypeOK

\* One number of a /stats is read, the others stay.
Reads(c, query) == stats' = [stats EXCEPT ![c][query] = Answer(query)]

\* The statements of a /stats, one by one.
StatsStep(c) ==
  /\ \/ Goes(c, "users", "active") /\ Reads(c, "users")
     \/ Goes(c, "active", "totals") /\ Reads(c, "active")
     \/ Replies(c, "totals", "stats") /\ Reads(c, "totals")
  /\ UNCHANGED tables

LEMMA GetStatsSteps ==
  ASSUME NEW c \in Commands, GetStats(c)
  PROVE  StatsStep(c)
<1> USE DEF StatsStep, Reads
<1>1. PICK i \in {1, 2, 3} :
        /\ IF i < 3 THEN Goes(c, Queries[i], Queries[i + 1])
                    ELSE Replies(c, Queries[i], "stats")
        /\ stats' = [stats EXCEPT ![c][Queries[i]] = Answer(Queries[i])]
  BY TheQueries DEF GetStats
<1>2. CASE i = 1
  <2>1. Queries[i] = "users" /\ Queries[i + 1] = "active" /\ i < 3
    BY <1>2, TheQueries
  <2> QED
    BY <1>1, <2>1 DEF GetStats
<1>3. CASE i = 2
  <2>1. Queries[i] = "active" /\ Queries[i + 1] = "totals" /\ i < 3
    BY <1>3, TheQueries
  <2> QED
    BY <1>1, <2>1 DEF GetStats
<1>4. CASE i = 3
  <2>1. Queries[i] = "totals" /\ ~(i < 3)
    BY <1>4, TheQueries
  <2> QED
    BY <1>1, <2>1 DEF GetStats
<1> QED
  BY <1>2, <1>3, <1>4

LEMMA InitHolds == Init => IInv
<1> SUFFICES ASSUME Init PROVE IInv
  OBVIOUS
<1> USE DEF Init
<1>1. TypeOK
  BY AdminIDsAreUsers, TheQueries DEF TypeOK
<1>2. AdminsAreAppointed /\ SendersAreAppointed /\ RemovedAreStopped
  BY DEF AdminsAreAppointed, SendersAreAppointed, RemovedAreStopped, Authorised
<1>3. NamesStayKnown /\ NamesCameWithUpdates
  BY DEF NamesStayKnown, NamesCameWithUpdates
<1>4. RepliesEnd /\ TodayIsCounted /\ StatsAddUp
  BY FS_EmptySet DEF RepliesEnd, TodayIsCounted, StatsAddUp
<1> QED
  BY <1>1, <1>2, <1>3, <1>4 DEF IInv

-----------------------------------------------------------------------------
(* What a step does, one part of the invariant after the other *)

\* Every step keeps the variables to their types.
LEMMA TypeKept == ASSUME TypeOK, Next PROVE TypeOK'
<1> USE TheQueries DEF TypeOK
<1> AdminIDs' = AdminIDs
  BY DEF AdminIDs
<1>1. ASSUME NEW c \in Commands, UpsertUser(c) PROVE TypeOK'
  BY <1>1 DEF UpsertUser, Command
<1>2. ASSUME NEW c \in Commands, IsAdmin(c) PROVE TypeOK'
  BY <1>2 DEF IsAdmin, Goes, Replies, Begin, Command, Kinds, tables
<1>3. ASSUME NEW c \in Commands, BadArgument(c) PROVE TypeOK'
  BY <1>3 DEF BadArgument, Replies, tables
<1>4. ASSUME NEW c \in Commands, AddAdmin(c) PROVE TypeOK'
  BY <1>4 DEF AddAdmin, Replies, Command
<1>5. ASSUME NEW c \in Commands, RemoveAdmin(c) PROVE TypeOK'
  BY <1>5 DEF RemoveAdmin, Replies, Command
<1>6. ASSUME NEW c \in Commands, StatementFails(c) PROVE TypeOK'
  BY <1>6 DEF StatementFails, Replies, tables
<1>7. ASSUME NEW c \in Commands, GetStats(c) PROVE TypeOK'
  <2>1. Answer("users") \in Nat /\ Answer("active") \in Nat /\ Answer("totals") \in Nat
    BY AnswersAreNumbers
  <2>2. StatsStep(c)
    BY <1>7, GetStatsSteps
  <2>3. ASSUME NEW query \in Range(Queries), Reads(c, query), Answer(query) \in Nat
        PROVE  stats' \in [Commands -> [Range(Queries) -> Nat]]
    BY <2>3 DEF Reads
  <2>4. stats' \in [Commands -> [Range(Queries) -> Nat]]
    BY <2>1, <2>2, <2>3 DEF StatsStep
  <2> QED
    BY <2>2, <2>4 DEF StatsStep, Goes, Replies, tables
<1>8. ASSUME NEW u \in Users, RecordDownload(u) PROVE TypeOK'
  BY <1>8 DEF RecordDownload
<1>9. ASSUME Midnight PROVE TypeOK'
  BY <1>9 DEF Midnight
<1> QED
  BY <1>1, <1>2, <1>3, <1>4, <1>5, <1>6, <1>7, <1>8, <1>9 DEF Next, Handle

\* Trust only shrinks: grants are added, and the configuration stays.
LEMMA TrustWasThere ==
  ASSUME grants \subseteq grants', NEW S, Trusted(S)'
  PROVE  Trusted(S)
BY DEF Trusted, AdminIDs

\* Whoever passes isAdmin is configured or in the table.
LEMMA WhoMayBeAdmin ==
  ASSUME NEW u, TRUE \in MayBeAdmin(u)
  PROVE  u \in AdminIDs \/ u \in admins
BY DEF MayBeAdmin, InTable

\* Rows of admins and authorised commands stay appointed.
LEMMA AppointmentKept ==
  ASSUME TypeOK, AdminsAreAppointed, SendersAreAppointed, Next
  PROVE  AdminsAreAppointed' /\ SendersAreAppointed'
<1> SUFFICES ASSUME NEW S \in SUBSET Users, Trusted(S)'
             PROVE  /\ admins' \subseteq S
                    /\ \A c \in Commands : Authorised(c)' => cmd'[c].from \in S
  BY DEF AdminsAreAppointed, SendersAreAppointed
<1>0. ASSUME grants \subseteq grants'
      PROVE  /\ Trusted(S)
             /\ admins \subseteq S
             /\ \A c \in Commands : Authorised(c) => cmd[c].from \in S
  BY <1>0, TrustWasThere DEF AdminsAreAppointed, SendersAreAppointed
<1> DEFINE Kept == /\ admins' \subseteq S
                   /\ \A c \in Commands : Authorised(c)' => cmd'[c].from \in S
<1> USE DEF Authorised, TypeOK, Goes, Replies, tables
<1>1. ASSUME NEW c \in Commands, UpsertUser(c) PROVE Kept
  BY <1>0, <1>1 DEF UpsertUser
<1>2. ASSUME NEW c \in Commands, IsAdmin(c) PROVE Kept
  <2>1. cmd[c].from \in Users
    BY DEF Command
  <2>2. AdminIDs \subseteq S
    BY <1>0, <1>2 DEF IsAdmin, Trusted
  <2>3. TRUE \in MayBeAdmin(cmd[c].from) => cmd[c].from \in S
    BY <1>0, <1>2, <2>2, WhoMayBeAdmin DEF IsAdmin
  <2> QED
    BY <1>0, <1>2, <2>3 DEF IsAdmin
<1>3. ASSUME NEW c \in Commands, BadArgument(c) PROVE Kept
  BY <1>0, <1>3 DEF BadArgument
<1>4. ASSUME NEW c \in Commands, AddAdmin(c) PROVE Kept
  <2>1. Trusted(S) /\ cmd[c].from \in S
    BY <1>0, <1>4 DEF AddAdmin
  <2>2. cmd[c].arg \in S
    <3> DEFINE g == <<cmd[c].from, cmd[c].arg>>
    <3>1. g \in grants'
      BY <1>4 DEF AddAdmin
    <3>2. g[1] = cmd[c].from /\ g[2] = cmd[c].arg
      OBVIOUS
    <3>3. g[1] \in S => g[2] \in S
      BY <3>1 DEF Trusted
    <3> QED
      BY <2>1, <3>2, <3>3
  <2> QED
    BY <1>0, <1>4, <2>2 DEF AddAdmin
<1>5. ASSUME NEW c \in Commands, RemoveAdmin(c) PROVE Kept
  BY <1>0, <1>5 DEF RemoveAdmin
<1>6. ASSUME NEW c \in Commands, StatementFails(c) PROVE Kept
  BY <1>0, <1>6 DEF StatementFails
<1>7. ASSUME NEW c \in Commands, GetStats(c) PROVE Kept
  <2>1. StatsStep(c)
    BY <1>7, GetStatsSteps
  <2> QED
    BY <1>0, <2>1 DEF StatsStep
<1>8. ASSUME NEW u \in Users, RecordDownload(u) PROVE Kept
  BY <1>0, <1>8 DEF RecordDownload
<1>9. ASSUME Midnight PROVE Kept
  BY <1>0, <1>9 DEF Midnight
<1> QED
  BY <1>1, <1>2, <1>3, <1>4, <1>5, <1>6, <1>7, <1>8, <1>9 DEF Next, Handle

\* Only a removal takes a row away, and it overtakes the commands of its user.
LEMMA RemovalKept ==
  ASSUME TypeOK, RemovedAreStopped, Next
  PROVE  RemovedAreStopped'
<1> AdminIDs' = AdminIDs
  BY DEF AdminIDs
<1> USE DEF TypeOK, Goes, Replies, RemovedAreStopped, Authorised, tables
<1>1. ASSUME NEW c \in Commands, UpsertUser(c) PROVE RemovedAreStopped'
  BY <1>1 DEF UpsertUser
<1>2. ASSUME NEW c \in Commands, IsAdmin(c) PROVE RemovedAreStopped'
  <2>1. TRUE \in MayBeAdmin(cmd[c].from) => cmd[c].from \in AdminIDs \cup admins
    BY WhoMayBeAdmin
  <2>2. /\ UNCHANGED <<cmd, admins, overtaken>>
        /\ \A d \in Commands : d # c => pc'[d] = pc[d]
        /\ pc'[c] = "done" \/ TRUE \in MayBeAdmin(cmd[c].from)
    BY <1>2 DEF IsAdmin
  <2> QED
    BY <2>1, <2>2
<1>3. ASSUME NEW c \in Commands, BadArgument(c) PROVE RemovedAreStopped'
  BY <1>3 DEF BadArgument
<1>4. ASSUME NEW c \in Commands, AddAdmin(c) PROVE RemovedAreStopped'
  BY <1>4 DEF AddAdmin
<1>5. ASSUME NEW c \in Commands, RemoveAdmin(c) PROVE RemovedAreStopped'
  <2>1. /\ cmd' = cmd /\ admins' = admins \ {cmd[c].arg}
        /\ pc'[c] = "done" /\ \A d \in Commands : d # c => pc'[d] = pc[d]
        /\ overtaken' = overtaken \cup
             {d \in Commands : Authorised(d) /\ cmd[d].from = cmd[c].arg}
    BY <1>5 DEF RemoveAdmin
  <2> QED
    BY <2>1
<1>6. ASSUME NEW c \in Commands, StatementFails(c) PROVE RemovedAreStopped'
  BY <1>6 DEF StatementFails
<1>7. ASSUME NEW c \in Commands, GetStats(c) PROVE RemovedAreStopped'
  <2>1. StatsStep(c)
    BY <1>7, GetStatsSteps
  <2> QED
    BY <2>1 DEF StatsStep
<1>8. ASSUME NEW u \in Users, RecordDownload(u) PROVE RemovedAreStopped'
  BY <1>8 DEF RecordDownload
<1>9. ASSUME Midnight PROVE RemovedAreStopped'
  BY <1>9 DEF Midnight
<1> QED
  BY <1>1, <1>2, <1>3, <1>4, <1>5, <1>6, <1>7, <1>8, <1>9 DEF Next, Handle

\* A reply stays, and a new one is a handler's last step.
LEMMA RepliesKept ==
  ASSUME TypeOK, RepliesEnd, Next
  PROVE  RepliesEnd'
<1> USE DEF TypeOK, Goes, Replies, RepliesEnd, tables
<1>1. ASSUME NEW c \in Commands, UpsertUser(c) PROVE RepliesEnd'
  BY <1>1 DEF UpsertUser
<1>2. ASSUME NEW c \in Commands, IsAdmin(c) PROVE RepliesEnd'
  BY <1>2 DEF IsAdmin
<1>3. ASSUME NEW c \in Commands, BadArgument(c) PROVE RepliesEnd'
  BY <1>3 DEF BadArgument
<1>4. ASSUME NEW c \in Commands, AddAdmin(c) PROVE RepliesEnd'
  BY <1>4 DEF AddAdmin
<1>5. ASSUME NEW c \in Commands, RemoveAdmin(c) PROVE RepliesEnd'
  BY <1>5 DEF RemoveAdmin
<1>6. ASSUME NEW c \in Commands, StatementFails(c) PROVE RepliesEnd'
  BY <1>6 DEF StatementFails
<1>7. ASSUME NEW c \in Commands, GetStats(c) PROVE RepliesEnd'
  <2>1. StatsStep(c)
    BY <1>7, GetStatsSteps
  <2> QED
    BY <2>1 DEF StatsStep
<1>8. ASSUME NEW u \in Users, RecordDownload(u) PROVE RepliesEnd'
  BY <1>8 DEF RecordDownload
<1>9. ASSUME Midnight PROVE RepliesEnd'
  BY <1>9 DEF Midnight
<1> QED
  BY <1>1, <1>2, <1>3, <1>4, <1>5, <1>6, <1>7, <1>8, <1>9 DEF Next, Handle

\* Only UpsertUser touches users, upserted and cmd.
LEMMA NamesKept ==
  ASSUME TypeOK, NamesStayKnown, NamesCameWithUpdates, Next
  PROVE  NamesStayKnown' /\ NamesCameWithUpdates'
<1> USE DEF TypeOK, NamesStayKnown, NamesCameWithUpdates
<1>1. ASSUME NEW c \in Commands, UpsertUser(c)
      PROVE  NamesStayKnown' /\ NamesCameWithUpdates'
  <2>1. cmd' = cmd /\ upserted' = upserted \cup {c} /\ cmd[c].from \in Users
    BY <1>1 DEF UpsertUser, Command
  <2>2. /\ users'[cmd[c].from] = IF cmd[c].named \/ users[cmd[c].from] = "named"
                                    THEN "named" ELSE "nameless"
        /\ \A u \in Users : u # cmd[c].from => users'[u] = users[u]
    BY <1>1, <2>1 DEF UpsertUser
  <2>3. \A d \in Commands : cmd[d].from \in Users
    BY DEF Command
  <2>4. NamesCameWithUpdates'
    BY <2>1, <2>2
  <2>5. ASSUME NEW d \in upserted'
        PROVE  users'[cmd[d].from] = IF \E e \in upserted' : cmd[e].from = cmd[d].from /\ cmd[e].named
                                       THEN "named" ELSE "nameless"
    <3>1. CASE cmd[d].from = cmd[c].from
      <4>1. c \in upserted'
        BY <2>1
      <4>2. users[cmd[c].from] = "named" =>
              \E e \in upserted : cmd[e].from = cmd[c].from /\ cmd[e].named
        BY <2>1
      <4>3. ASSUME NEW e \in upserted, cmd[e].from = cmd[c].from, cmd[e].named
            PROVE  users[cmd[c].from] = "named"
        BY <4>3
      <4> QED
        BY <2>1, <2>2, <3>1, <4>1, <4>2, <4>3
    <3>2. CASE cmd[d].from # cmd[c].from
      BY <2>1, <2>2, <2>3, <3>2
    <3> QED
      BY <3>1, <3>2
  <2> QED
    BY <2>1, <2>4, <2>5
<1>2. ASSUME \A c \in Commands : ~UpsertUser(c)
      PROVE  UNCHANGED <<cmd, upserted, users>>
  BY <1>2 DEF Next, Handle, IsAdmin, BadArgument, AddAdmin, RemoveAdmin, StatementFails,
              GetStats, RecordDownload, Midnight, Goes, Replies, tables
<1>3. CASE UNCHANGED <<cmd, upserted, users>>
  BY <1>3
<1> QED
  BY <1>1, <1>2, <1>3

\* What /stats has read of today is no more than the downloads there are when
\* it comes to count them.
LEMMA NumbersKept ==
  ASSUME TypeOK, RepliesEnd, TodayIsCounted, StatsAddUp, Next
  PROVE  TodayIsCounted' /\ StatsAddUp'
<1> DEFINE Kept == TodayIsCounted' /\ StatsAddUp'
<1>0. IsFiniteSet(today) /\ Cardinality(today) \in Nat
  BY FS_Subset, FS_CardinalityType DEF TypeOK
<1> USE DEF TypeOK, RepliesEnd, TodayIsCounted, StatsAddUp, Goes, Replies, tables
<1>1. ASSUME NEW c \in Commands, UpsertUser(c) PROVE Kept
  BY <1>1 DEF UpsertUser
<1>2. ASSUME NEW c \in Commands, IsAdmin(c) PROVE Kept
  BY <1>2, TheQueries DEF IsAdmin, Begin, Kinds, Command
<1>3. ASSUME NEW c \in Commands, BadArgument(c) PROVE Kept
  BY <1>3 DEF BadArgument
<1>4. ASSUME NEW c \in Commands, AddAdmin(c) PROVE Kept
  BY <1>4 DEF AddAdmin
<1>5. ASSUME NEW c \in Commands, RemoveAdmin(c) PROVE Kept
  BY <1>5 DEF RemoveAdmin
<1>6. ASSUME NEW c \in Commands, StatementFails(c) PROVE Kept
  BY <1>6 DEF StatementFails
<1>7. ASSUME NEW c \in Commands, GetStats(c) PROVE Kept
  <2>1. Answer("active") = Cardinality(today) /\ Answer("totals") = downloads
    BY DEF Answer
  <2>2. StatsStep(c)
    BY <1>7, GetStatsSteps
  <2>3. ASSUME NEW query \in Range(Queries), Reads(c, query)
        PROVE  /\ \A d \in Commands : d # c => stats'[d] = stats[d]
               /\ stats'[c][query] = Answer(query)
               /\ \A q \in Range(Queries) : q # query => stats'[c][q] = stats[c][q]
    BY <2>3 DEF Reads
  <2> QED
    BY <2>1, <2>2, <2>3, TheQueries DEF StatsStep
<1>8. ASSUME NEW u \in Users, RecordDownload(u) PROVE Kept
  <2>1. Cardinality(today \cup {u}) <= downloads + 1
    <3>1. Cardinality(today \cup {u}) =
            IF u \in today THEN Cardinality(today) ELSE Cardinality(today) + 1
      BY <1>0, FS_AddElement
    <3> QED
      BY <1>0, <3>1
  <2>2. /\ today' = today \cup {u} /\ downloads' = downloads + 1
        /\ pc' = pc /\ reply' = reply /\ stats' = stats
    BY <1>8 DEF RecordDownload
  <2>3. \A c \in Commands : stats[c]["active"] \in Nat
    BY TheQueries
  <2>4. StatsAddUp'
    BY <2>2
  <2>5. Cardinality(today') <= downloads'
    BY <2>1, <2>2
  <2>6. \A c \in Commands : pc'[c] = "totals" => stats'[c]["active"] <= downloads'
    BY <2>2, <2>3
  <2> QED
    BY <2>4, <2>5, <2>6
<1>9. ASSUME Midnight PROVE Kept
  BY <1>9, FS_EmptySet DEF Midnight
<1> QED
  BY <1>1, <1>2, <1>3, <1>4, <1>5, <1>6, <1>7, <1>8, <1>9 DEF Next, Handle

LEMMA Inductive == IInv /\ [Next]_vars => IInv'
<1> SUFFICES ASSUME IInv, [Next]_vars PROVE IInv'
  OBVIOUS
<1>1. CASE Next
  BY <1>1, TypeKept, AppointmentKept, RemovalKept, RepliesKept, NamesKept, NumbersKept DEF IInv
<1>2. CASE UNCHANGED vars
  BY <1>2 DEF vars, IInv, TypeOK, AdminIDs, AdminsAreAppointed, SendersAreAppointed, Trusted,
              Authorised, RemovedAreStopped, NamesStayKnown, NamesCameWithUpdates, RepliesEnd,
              TodayIsCounted, StatsAddUp
<1> QED
  BY <1>1, <1>2

LEMMA Invariance == Spec => []IInv
  BY InitHolds, Inductive, PTL DEF Spec

-----------------------------------------------------------------------------
(* The theorems *)

\* The variables of the commands keep to their types.
THEOREM AdminTypes == Spec => []TypeOK
  BY Invariance, PTL DEF IInv

\* Whoever is in the table was let in through a chain of /addadmin that begins
\* with ADMIN_IDS, for any number of commands in any order.
THEOREM OnlyAppointedAdmins == Spec => []AdminsAreAppointed
  BY Invariance, PTL DEF IInv

\* A command checked after the removal of its sender is denied: only one that was
\* past isAdmin already runs on.
THEOREM RemovalsTakeEffect == Spec => []RemovedAreStopped
  BY Invariance, PTL DEF IInv

\* A user's name is known once an update with a name has been recorded,
\* whatever order the goroutines ran in.
THEOREM NamesAreKept == Spec => []NamesStayKnown
  BY Invariance, PTL DEF IInv

\* /stats reports no more active users than downloads.
THEOREM StatsAreConsistent == Spec => []StatsAddUp
  BY Invariance, PTL DEF IInv
=============================================================================
