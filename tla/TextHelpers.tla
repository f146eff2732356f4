---------------------------- MODULE TextHelpers ----------------------------
(***************************************************************************)
(* The pure functions behind what the user reads: captions and notices of  *)
(* the workers (internal/worker/pool.go, internal/downloader/ytdlp.go),    *)
(* and the counts and the uptime in /stats (internal/bot/bot.go).          *)
(*                                                                         *)
(* A text is the sequence of its runes.  A piece of fixed wording counts   *)
(* as one rune, so the lengths below are short of the real ones by what    *)
(* that wording has.                                                       *)
(***************************************************************************)
EXTENDS Integers, Sequences

-----------------------------------------------------------------------------
(* Captions and notices *)

Ellipsis == <<".", ".", ".">>

\* The fixed wording of a notice.
Wording == {"ellipsis", "download failed: yt-dlp: ", "stderr: ", "stdout: "}

ChannelCaptionRunes == 100
PMCaptionRunes      == 1000

\* truncateRunes.  Invalid bytes are gone: ToValidUTF8 has dropped them.
TruncateRunes(s, limit) ==
  IF Len(s) <= limit THEN s
  ELSE IF limit <= Len(Ellipsis) THEN SubSeq(s, 1, IF limit > 0 THEN limit ELSE 0)
  ELSE SubSeq(s, 1, limit - Len(Ellipsis)) \o Ellipsis

Unavailable == <<"this video is not available">>

\* yt-dlp begins its messages with a prefix, which is dropped.
TrimError(s) == IF s # <<>> /\ Head(s) = "ERROR: " THEN Tail(s) ELSE s

\* sanitizeError.  Some messages are known to mean that the video is not to be
\* had.
SanitizeError(s, known) ==
  LET text == TrimError(s) IN
    IF known THEN Unavailable
    ELSE IF Len(text) > 300 THEN SubSeq(text, 1, 300) \o <<"ellipsis">>
    ELSE text

\* What Download makes of the output of a failed yt-dlp, and process of the
\* error.
Notice(msg, known, stderr, stdout) ==
  IF known
    THEN SanitizeError(msg, known)
    ELSE <<"download failed: yt-dlp: ">> \o SanitizeError(msg, known)
           \o <<"stderr: ">> \o stderr \o <<"stdout: ">> \o stdout

-----------------------------------------------------------------------------
(* The line that yt-dlp prints *)

Blank == {"space", "tab", "newline"}

\* strings.TrimSpace.
TrimSpace(s) ==
  LET ink == {i \in 1..Len(s) : s[i] \notin Blank} IN
    IF ink = {} THEN <<>>
    ELSE SubSeq(s, CHOOSE i \in ink : \A j \in ink : i <= j,
                   CHOOSE i \in ink : \A j \in ink : i >= j)

\* strings.Cut at the first rune r: what is before it, and what is after it.
Cut(s, r) ==
  LET cuts  == {i \in 1..Len(s) : s[i] = r}
      first == IF cuts = {} THEN Len(s) + 1
                            ELSE CHOOSE i \in cuts : \A j \in cuts : i <= j
  IN [before |-> SubSeq(s, 1, first - 1),
      after  |-> SubSeq(s, first + 1, Len(s)),
      found  |-> cuts # {}]

\* Download reads the duration (a text, left to parseDurationSeconds) and the
\* title; a title that is empty is replaced by the name of the file.
ReadPrinted(stdout, filename) ==
  LET line  == Cut(TrimSpace(stdout), "newline").before
      parts == Cut(line, "tab")
      title == TrimSpace(IF parts.found THEN parts.after ELSE line)
  IN [duration |-> IF parts.found THEN TrimSpace(parts.before) ELSE <<>>,
      title    |-> IF title = <<>> THEN filename ELSE title]

-----------------------------------------------------------------------------
(* /stats *)

\* downloadWord: the form of the Russian noun after the number n.
DownloadWord(n) ==
  IF n % 100 \in 11..19 THEN "many"
  ELSE IF n % 10 = 1 THEN "one"
  ELSE IF n % 10 \in 2..4 THEN "few"
  ELSE "many"

\* formatUptime of d seconds.
Uptime(d) == [days    |-> (d \div 3600) \div 24,
              hours   |-> (d \div 3600) % 24,
              minutes |-> (d \div 60) % 60]

\* The numbers it prints.
FormatUptime(d) ==
  LET u == Uptime(d) IN
    IF u.days > 0 THEN <<u.days, u.hours, u.minutes>>
    ELSE IF u.hours > 0 THEN <<u.hours, u.minutes>>
    ELSE <<u.minutes>>

-----------------------------------------------------------------------------
(* What they are for *)

\* The grammar of Russian: 1, 21, 101 ... take the singular, 2 to 4, 22 ... the
\* genitive singular, and 11 to 14 are the exception to both.
RussianForm(n) ==
  IF n % 10 = 1 /\ n % 100 # 11 THEN "one"
  ELSE IF n % 10 \in 2..4 /\ n % 100 \notin 12..14 THEN "few"
  ELSE "many"

\* The minutes that a printed uptime stands for.
Minutes(shown) ==
  CASE Len(shown) = 3 -> 1440 * shown[1] + 60 * shown[2] + shown[3]
    [] Len(shown) = 2 -> 60 * shown[1] + shown[2]
    [] OTHER          -> shown[1]
=============================================================================
