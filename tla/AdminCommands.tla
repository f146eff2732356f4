--------------------------- MODULE AdminCommands ---------------------------
(***************************************************************************)
(* The commands of administrators (internal/bot/bot.go) and the tables     *)
(* behind them (internal/db): who is an administrator, who is known, and   *)
(* what /stats reports.                                                    *)
(*                                                                         *)
(* main starts a goroutine for every update and Dispatch starts one more,  *)
(* for UpsertUser, so commands and upserts interleave in any order.  One   *)
(* SQL statement is one step, and may fail or time out; no transaction     *)
(* spans two.  The workers record downloads all the while.                 *)
(***************************************************************************)
EXTENDS Naturals, Sequences, FiniteSets, Functions

CONSTANTS
  Commands,      \* the updates that carry a command
  Users,         \* the Telegram users
  Entries,       \* the parts of ADMIN_IDS, a sequence
  Malformed,     \* a text that is no user id
  MaxDownloads   \* a bound on the rows of downloads

ASSUME AdminAssumption ==
  /\ MaxDownloads \in Nat
  /\ Malformed \notin Users
  /\ \A i \in DOMAIN Entries : Entries[i] \in Users \cup {Malformed}
  /\ IsFiniteSet(Users)

VARIABLES
  cmd,        \* what each command is, and whether its sender has a first name
  pc,         \* the next step of each handler
  upserted,   \* the updates whose UpsertUser has run
  reply,      \* what the sender was told
  stats,      \* the numbers that GetStats has read
  \* PostgreSQL:
  users,      \* the known users, and whether a first name is stored
  admins,     \* the rows of admins
  today,      \* the users with a download today
  downloads,  \* the number of rows of downloads
  \* What has happened:
  grants,     \* the pairs <<sender, target>> of the executed /addadmin
  overtaken   \* the commands past isAdmin whose sender was removed since

tables == <<users, admins, today, downloads, grants, overtaken>>
vars == <<cmd, pc, upserted, reply, stats, users, admins, today, downloads, grants,
          overtaken>>

Kinds == {"addadmin", "removeadmin", "stats"}

\* The user a command is about, or a text that names none.
Command == [from : Users, kind : Kinds, arg : Users \cup {Malformed}, named : BOOLEAN]

\* Wrong: the totals are read before the users of today.
WrongQueries == <<"users", "totals", "active">>

\* The statements of GetStats, in their order.
Queries == <<"users", "active", "totals">>

\* Wrong: an entry that is no number stays in the list, as the zero value.
WrongAdminIDs == Range(Entries)

\* parseInt64List: entries that are no numbers are dropped.
AdminIDs == Range(Entries) \ {Malformed}

Init ==
  /\ cmd \in [Commands -> Command]
  /\ pc = [c \in Commands |-> "isAdmin"]
  /\ upserted = {}
  /\ reply = [c \in Commands |-> "none"]
  /\ stats = [c \in Commands |-> [query \in Range(Queries) |-> 0]]
  /\ users = [u \in Users |-> "unknown"]
  /\ admins = {}
  /\ today = {}
  /\ downloads = 0
  /\ grants = {}
  /\ overtaken = {}

-----------------------------------------------------------------------------
(* Dispatch *)

\* Wrong: the row is overwritten with what the update says.
WrongUpsertUser(c) ==
  /\ c \notin upserted
  /\ upserted' = upserted \cup {c}
  /\ users' = [users EXCEPT ![cmd[c].from] =
                 IF cmd[c].named THEN "named" ELSE "nameless"]
  /\ UNCHANGED <<cmd, pc, reply, stats, admins, today, downloads, grants, overtaken>>

\* The goroutine of UpsertUser.  An empty name does not replace a stored one.
UpsertUser(c) ==
  /\ c \notin upserted
  /\ upserted' = upserted \cup {c}
  /\ users' = [users EXCEPT ![cmd[c].from] =
                 IF cmd[c].named \/ @ = "named" THEN "named" ELSE "nameless"]
  /\ UNCHANGED <<cmd, pc, reply, stats, admins, today, downloads, grants, overtaken>>

\* The handler goes on, or replies and returns.
Goes(c, here, there) ==
  /\ pc[c] = here
  /\ pc' = [pc EXCEPT ![c] = there]
  /\ UNCHANGED <<cmd, upserted, reply>>

Replies(c, here, text) ==
  /\ pc[c] = here
  /\ pc' = [pc EXCEPT ![c] = "done"]
  /\ reply' = [reply EXCEPT ![c] = text]
  /\ UNCHANGED <<cmd, upserted>>

-----------------------------------------------------------------------------
(* isAdmin, and the two commands that change the table *)

\* Wrong: a user who was once found in the table is not looked up again.
WrongInTable(u) == {FALSE, (\E g \in grants : g[2] = u)}

\* What IsAdmin of the database answers: a failed query means no.
InTable(u) == {FALSE, (u \in admins)}

\* Wrong: a failed query means yes.
WrongMayBeAdmin(u) ==
  IF u \in AdminIDs THEN {TRUE} ELSE InTable(u) \cup {TRUE}

\* What isAdmin may return.
MayBeAdmin(u) == IF u \in AdminIDs THEN {TRUE} ELSE InTable(u)

Begin(kind) == IF kind = "stats" THEN Queries[1] ELSE kind

\* Every command begins with isAdmin.
IsAdmin(c) ==
  /\ \E yes \in MayBeAdmin(cmd[c].from) :
       IF yes THEN Goes(c, "isAdmin", Begin(cmd[c].kind))
              ELSE Replies(c, "isAdmin", "denied")
  /\ UNCHANGED stats
  /\ UNCHANGED tables

\* The argument is missing or is no number.
BadArgument(c) ==
  /\ cmd[c].arg = Malformed
  /\ pc[c] \in {"addadmin", "removeadmin"}
  /\ Replies(c, cmd[c].kind, "badArgument")
  /\ UNCHANGED stats
  /\ UNCHANGED tables

\* The answer of the database may come too late: the row is there all the same.
AddAdmin(c) ==
  /\ cmd[c].arg # Malformed
  /\ \E text \in {"added", "failed"} : Replies(c, "addadmin", text)
  /\ admins' = admins \cup {cmd[c].arg}
  /\ grants' = grants \cup {<<cmd[c].from, cmd[c].arg>>}
  /\ UNCHANGED <<stats, users, today, downloads, overtaken>>

\* The handler got past isAdmin and has not replied yet.
Authorised(c) == pc[c] \notin {"isAdmin", "done"}

\* An id from ADMIN_IDS is no row of the table, and the reply is the same.  What
\* the user has under way is not stopped.
RemoveAdmin(c) ==
  /\ cmd[c].arg # Malformed
  /\ \E text \in {"removed", "failed"} : Replies(c, "removeadmin", text)
  /\ admins' = admins \ {cmd[c].arg}
  /\ overtaken' =
       overtaken \cup {d \in Commands : Authorised(d) /\ cmd[d].from = cmd[c].arg}
  /\ UNCHANGED <<stats, users, today, downloads, grants>>

\* A statement fails without an effect: the user is told so.
StatementFails(c) ==
  /\ \E here \in {"addadmin", "removeadmin"} \cup Range(Queries) :
       Replies(c, here, "failed")
  /\ UNCHANGED stats
  /\ UNCHANGED tables

-----------------------------------------------------------------------------
(* /stats, the workers and the calendar *)

\* What a statement of GetStats returns.
Answer(query) ==
  CASE query = "users"  -> Cardinality({u \in Users : users[u] # "unknown"})
    [] query = "active" -> Cardinality(today)
    [] OTHER            -> downloads

\* GetStats.  What follows, CountCached and GetTopUsers, cannot fail the command.
GetStats(c) ==
  /\ \E i \in DOMAIN Queries :
       /\ IF i < Len(Queries) THEN Goes(c, Queries[i], Queries[i + 1])
                              ELSE Replies(c, Queries[i], "stats")
       /\ stats' = [stats EXCEPT ![c][Queries[i]] = Answer(Queries[i])]
  /\ UNCHANGED tables

\* A worker records a download of the user, successful or not.
RecordDownload(u) ==
  /\ downloads < MaxDownloads
  /\ downloads' = downloads + 1
  /\ today' = today \cup {u}
  /\ UNCHANGED <<cmd, pc, upserted, reply, stats, users, admins, grants, overtaken>>

\* The date changes.
Midnight ==
  /\ today # {}
  /\ today' = {}
  /\ UNCHANGED <<cmd, pc, upserted, reply, stats, users, admins, downloads, grants,
                 overtaken>>

-----------------------------------------------------------------------------
Handle(c) ==
  \/ UpsertUser(c) \/ IsAdmin(c) \/ BadArgument(c) \/ AddAdmin(c)
  \/ RemoveAdmin(c) \/ StatementFails(c) \/ GetStats(c)

Next ==
  \/ \E c \in Commands : Handle(c)
  \/ \E u \in Users : RecordDownload(u)
  \/ Midnight

Spec == Init /\ [][Next]_vars

-----------------------------------------------------------------------------
(* What must hold *)

\* The variables keep to their types, and the configured administrators are
\* users.
TypeOK ==
  /\ AdminIDs \subseteq Users
  /\ cmd \in [Commands -> Command]
  /\ pc \in [Commands -> Kinds \cup Range(Queries) \cup {"isAdmin", "done"}]
  /\ upserted \in SUBSET Commands
  /\ reply \in [Commands -> {"none", "denied", "badArgument", "added", "removed",
                             "failed", "stats"}]
  /\ stats \in [Commands -> [Range(Queries) -> Nat]]
  /\ users \in [Users -> {"unknown", "nameless", "named"}]
  /\ admins \in SUBSET Users
  /\ today \in SUBSET Users
  /\ downloads \in Nat
  /\ grants \in SUBSET (Users \X Users)
  /\ overtaken \in SUBSET Commands

\* The sets of users that hold the configured administrators and whoever was
\* made an administrator by somebody in them.
Trusted(S) ==
  /\ AdminIDs \subseteq S
  /\ \A g \in grants : g[1] \in S => g[2] \in S

\* Every administrator owes the right to a chain of /addadmin that begins with a
\* configured one: however commands, removals and failing queries interleave,
\* nobody gets in from outside.
AdminsAreAppointed == \A S \in SUBSET Users : Trusted(S) => admins \subseteq S

\* A removal takes effect at once.  Whoever has a command under way is an
\* administrator still, except where the row was deleted between the isAdmin of
\* that very command and its own statement (bot.go:337): one that is checked after
\* the removal is denied, whatever was answered to the user before.
RemovedAreStopped ==
  \A c \in Commands :
    Authorised(c) /\ c \notin overtaken => cmd[c].from \in AdminIDs \cup admins

\* The order in which the goroutines of UpsertUser run does not matter for
\* whether a user's name is known: one update with a name is enough.
NamesStayKnown ==
  \A c \in upserted :
    LET u == cmd[c].from IN
      IF \E d \in upserted : cmd[d].from = u /\ cmd[d].named
        THEN users[u] = "named"
        ELSE users[u] = "nameless"

\* The numbers of a /stats are read at three different times, and still no more
\* users are reported as active today than downloads were made in all.
StatsAddUp ==
  \A c \in Commands :
    reply[c] = "stats" => stats[c]["active"] <= stats[c]["totals"]
=============================================================================
