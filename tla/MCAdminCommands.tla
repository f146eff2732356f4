-------------------------- MODULE MCAdminCommands --------------------------
(* Small instances of AdminCommands for TLC, and the numbers /stats prints. *)
EXTENDS AdminCommands, TextHelpers, TLC

CONSTANTS u1, u2

\* ADMIN_IDS names one user and has one part that is no number.
OneAndAWord == <<u1, Malformed>>

\* Two /stats have nothing to do with each other, and nothing but a /stats reads
\* the downloads.
OneStats ==
  LET asking == {c \in Commands : cmd[c].kind = "stats"} IN
    /\ Cardinality(asking) <= 1
    /\ \A c \in asking : cmd[c].arg = Malformed
    /\ downloads > 0 => asking # {}

\* One update with a name is enough to lose the name, and without one the
\* upserts change nothing that a property reads.
OneName ==
  LET naming == {c \in Commands : cmd[c].named} IN
    /\ Cardinality(naming) <= 1
    /\ naming = {} => upserted = {}

\* Nor does a second removal add a case.
OneRemoval == Cardinality({c \in Commands : cmd[c].kind = "removeadmin"}) <= 1

\* Commands are interchangeable.
Symmetry == Permutations(Commands)

\* A whole period of the grammar, and a part of the next.
ASSUME WordsInflected == \A n \in 0..150 : DownloadWord(n) = RussianForm(n)

\* Around the ends of minutes, hours and days.
ASSUME UptimeExact ==
  \A turn \in {60, 3600, 86400, 90000, 172800}, d \in 0..61 :
    LET up == turn - 1 + d IN Minutes(FormatUptime(up)) = up \div 60
=============================================================================
