------------------------- MODULE TextHelpersProofs -------------------------
(***************************************************************************)
(* What the helpers of TextHelpers do to texts and numbers of any size.    *)
(***************************************************************************)
EXTENDS TextHelpers, TLAPS, SequenceTheorems

LEMMA PrefixLength ==
  ASSUME NEW S, NEW s \in Seq(S), NEW n \in 0..Len(s)
  PROVE  /\ SubSeq(s, 1, n) \in Seq(S)
         /\ Len(SubSeq(s, 1, n)) = n
  BY SubSeqProperties, LenProperties

LEMMA ConcatLength ==
  ASSUME NEW S, NEW s \in Seq(S), NEW t \in Seq(S)
  PROVE  /\ s \o t \in Seq(S)
         /\ Len(s \o t) = Len(s) + Len(t)
  BY ConcatProperties

\* truncateRunes keeps to its limit, never adds to a text and leaves a text that
\* fits alone, for every text and every limit, negative ones too.
THEOREM TruncatedFits ==
  ASSUME NEW Rune, "." \in Rune, NEW s \in Seq(Rune), NEW limit \in Int
  PROVE  LET t == TruncateRunes(s, limit) IN
           /\ t \in Seq(Rune)
           /\ Len(t) <= IF limit > 0 THEN limit ELSE 0
           /\ Len(t) <= Len(s)
           /\ Len(s) <= limit => t = s
<1>1. Len(s) \in Nat
  BY LenProperties
<1>2. Ellipsis \in Seq(Rune) /\ Len(Ellipsis) = 3
  BY DEF Ellipsis
<1>3. CASE Len(s) <= limit
  BY <1>1, <1>3 DEF TruncateRunes
<1>4. CASE Len(s) > limit /\ limit <= 3
  <2> DEFINE n == IF limit > 0 THEN limit ELSE 0
  <2>1. n \in 0..Len(s)
    BY <1>1, <1>4
  <2>2. TruncateRunes(s, limit) = SubSeq(s, 1, n)
    BY <1>1, <1>2, <1>4 DEF TruncateRunes
  <2> HIDE DEF n
  <2>3. SubSeq(s, 1, n) \in Seq(Rune) /\ Len(SubSeq(s, 1, n)) = n
    BY <2>1, PrefixLength
  <2> QED
    BY <1>1, <1>4, <2>1, <2>2, <2>3 DEF n
<1>5. CASE Len(s) > limit /\ limit > 3
  <2> DEFINE head == SubSeq(s, 1, limit - 3)
  <2>1. limit - 3 \in 0..Len(s)
    BY <1>1, <1>5
  <2>2. head \in Seq(Rune) /\ Len(head) = limit - 3
    BY <2>1, PrefixLength
  <2>3. TruncateRunes(s, limit) = head \o Ellipsis
    BY <1>1, <1>2, <1>5 DEF TruncateRunes
  <2> HIDE DEF head
  <2>4. head \o Ellipsis \in Seq(Rune) /\ Len(head \o Ellipsis) = Len(head) + Len(Ellipsis)
    BY <1>2, <2>2, ConcatLength
  <2> QED
    BY <1>1, <1>2, <1>5, <2>2, <2>3, <2>4
<1> QED
  BY <1>1, <1>3, <1>4, <1>5

\* The captions of the channel and of the PM keep to Telegram's 1024 runes,
\* whatever the title.
THEOREM CaptionsFit ==
  ASSUME NEW Rune, "." \in Rune, NEW title \in Seq(Rune)
  PROVE  /\ Len(TruncateRunes(title, ChannelCaptionRunes)) <= 1024
         /\ Len(TruncateRunes(title, PMCaptionRunes)) <= 1024
<1>1. ASSUME NEW limit \in Int, limit > 0, limit <= 1024
      PROVE  Len(TruncateRunes(title, limit)) <= 1024
  <2> DEFINE t == TruncateRunes(title, limit)
  <2>1. t \in Seq(Rune) /\ Len(t) <= IF limit > 0 THEN limit ELSE 0
    BY TruncatedFits
  <2> HIDE DEF t
  <2>2. Len(t) \in Nat /\ Len(t) <= limit
    BY <1>1, <2>1, LenProperties
  <2> QED
    BY <1>1, <2>2 DEF t
<1>2. Len(TruncateRunes(title, 100)) <= 1024
  BY <1>1
<1>3. Len(TruncateRunes(title, 1000)) <= 1024
  BY <1>1
<1> QED
  BY <1>2, <1>3 DEF ChannelCaptionRunes, PMCaptionRunes

\* sanitizeError keeps a message to 300 runes and an ellipsis, and the notice to
\* the user undoes it: unless the video is known to be unavailable, the notice is
\* longer than everything that yt-dlp wrote.
THEOREM NoticeOutgrowsSanitizeError ==
  ASSUME NEW Rune, Wording \subseteq Rune, NEW msg \in Seq(Rune),
         NEW stderr \in Seq(Rune), NEW stdout \in Seq(Rune), NEW known \in BOOLEAN
  PROVE  /\ Len(SanitizeError(msg, known)) <= 301
         /\ known => Len(Notice(msg, known, stderr, stdout)) = 1
         /\ ~known => Len(Notice(msg, known, stderr, stdout)) > Len(stderr) + Len(stdout)
<1> DEFINE text == TrimError(msg)
<1>1. /\ text \in Seq(Rune) /\ Len(text) \in Nat
      /\ Len(stderr) \in Nat /\ Len(stdout) \in Nat
  <2>1. CASE msg # <<>> /\ Head(msg) = "ERROR: "
    BY <2>1, HeadTailProperties, LenProperties DEF TrimError
  <2>2. CASE ~(msg # <<>> /\ Head(msg) = "ERROR: ")
    BY <2>2, LenProperties DEF TrimError
  <2> QED
    BY <2>1, <2>2
<1> HIDE DEF text
<1>2. ASSUME NEW r \in Wording
      PROVE  <<r>> \in Seq(Rune) /\ Len(<<r>>) = 1
  <2>1. r \in Rune
    OBVIOUS
  <2> QED
    BY <2>1
<1>3. CASE known
  BY <1>3 DEF Notice, SanitizeError, Unavailable
<1>4. CASE ~known
  <2> DEFINE clean == SanitizeError(msg, known)
             e  == <<"ellipsis">>
             w1 == <<"download failed: yt-dlp: ">>
             w2 == <<"stderr: ">>
             w3 == <<"stdout: ">>
  <2>1. /\ e \in Seq(Rune) /\ Len(e) = 1 /\ w1 \in Seq(Rune) /\ Len(w1) = 1
        /\ w2 \in Seq(Rune) /\ Len(w2) = 1 /\ w3 \in Seq(Rune) /\ Len(w3) = 1
    BY <1>2 DEF Wording
  <2>2. clean \in Seq(Rune) /\ Len(clean) \in Nat /\ Len(clean) <= 301
    <3>1. CASE Len(text) > 300
      <4> DEFINE limit == 300
                 head  == SubSeq(text, 1, limit)
      <4>1. limit \in 0..Len(text)
        BY <1>1, <3>1
      <4>2. clean = head \o e
        BY <1>4, <3>1 DEF SanitizeError, text
      <4>3. limit = 300
        OBVIOUS
      <4>4. e \in Seq(Rune) /\ Len(e) = 1
        BY <2>1
      <4> HIDE DEF limit, e, clean
      <4>5. head \in Seq(Rune) /\ Len(head) = limit
        BY <1>1, <4>1, PrefixLength
      <4> HIDE DEF head
      <4>6. head \o e \in Seq(Rune) /\ Len(head \o e) = Len(head) + Len(e)
        BY <4>4, <4>5, ConcatLength
      <4>7. Len(head \o e) = 301
        BY <4>3, <4>4, <4>5, <4>6
      <4> QED
        BY <4>2, <4>6, <4>7
    <3>2. CASE Len(text) <= 300
      <4>1. clean = text
        BY <1>1, <1>4, <3>2 DEF SanitizeError, text
      <4> HIDE DEF clean
      <4> QED
        BY <1>1, <3>2, <4>1
    <3> HIDE DEF clean
    <3> QED
      BY <1>1, <3>1, <3>2
  <2>3. Notice(msg, known, stderr, stdout) = w1 \o clean \o w2 \o stderr \o w3 \o stdout
    BY <1>4 DEF Notice
  <2> HIDE DEF clean, w1, w2, w3
  <2> DEFINE a == w1 \o clean
             b == a \o w2
             c == b \o stderr
             d == c \o w3
  <2>4. a \in Seq(Rune) /\ Len(a) = Len(w1) + Len(clean)
    BY <2>1, <2>2, ConcatLength
  <2>5. Notice(msg, known, stderr, stdout) = d \o stdout
    BY <2>3
  <2> HIDE DEF a
  <2>6. b \in Seq(Rune) /\ Len(b) = Len(a) + Len(w2)
    BY <2>1, <2>4, ConcatLength
  <2> HIDE DEF b
  <2>7. c \in Seq(Rune) /\ Len(c) = Len(b) + Len(stderr)
    BY <2>6, ConcatLength
  <2> HIDE DEF c
  <2>8. d \in Seq(Rune) /\ Len(d) = Len(c) + Len(w3)
    BY <2>1, <2>7, ConcatLength
  <2> HIDE DEF d
  <2>9. Len(d \o stdout) = Len(d) + Len(stdout)
    BY <2>8, ConcatLength
  <2>10. Len(d \o stdout) > Len(stderr) + Len(stdout)
    BY <1>1, <2>1, <2>2, <2>4, <2>6, <2>7, <2>8, <2>9
  <2> QED
    BY <1>4, <2>2, <2>5, <2>10 DEF clean
<1> QED
  BY <1>3, <1>4

\* downloadWord inflects every count as Russian grammar does, although it tests
\* 11 to 19 where the grammar has 11 to 14.
THEOREM WordsAreInflected == \A n \in Nat : DownloadWord(n) = RussianForm(n)
<1> SUFFICES ASSUME NEW n \in Nat
             PROVE  DownloadWord(n) = RussianForm(n)
  OBVIOUS
<1>1. /\ n % 100 \in 0..99 /\ n % 10 \in 0..9
      /\ (n % 100) % 10 = n % 10
  OBVIOUS
<1>2. \A k \in 11..19 : (k % 10 = 1 => k = 11) /\ (k % 10 \in 2..4 => k \in 12..14)
  OBVIOUS
<1> QED
  BY <1>1, <1>2 DEF DownloadWord, RussianForm

\* The uptime that /stats prints is exact to the minute, however long the bot has
\* been up, and what formatUptime leaves out is zero.
THEOREM UptimeIsExact ==
  \A d \in Nat : /\ Minutes(FormatUptime(d)) = d \div 60
                 /\ Uptime(d).hours \in 0..23 /\ Uptime(d).minutes \in 0..59
<1> SUFFICES ASSUME NEW d \in Nat
             PROVE  /\ Minutes(FormatUptime(d)) = d \div 60
                    /\ Uptime(d).hours \in 0..23 /\ Uptime(d).minutes \in 0..59
  OBVIOUS
<1> DEFINE days    == (d \div 3600) \div 24
           hours   == (d \div 3600) % 24
           minutes == (d \div 60) % 60
<1>1. /\ days \in Nat /\ hours \in 0..23 /\ minutes \in 0..59
      /\ 1440 * days + 60 * hours + minutes = d \div 60
  OBVIOUS
<1>2. Uptime(d) = [days |-> days, hours |-> hours, minutes |-> minutes]
  BY DEF Uptime
<1> HIDE DEF days, hours, minutes
<1>3. CASE days > 0
  BY <1>1, <1>2, <1>3 DEF FormatUptime, Minutes
<1>4. CASE days = 0 /\ hours > 0
  BY <1>1, <1>2, <1>4 DEF FormatUptime, Minutes
<1>5. CASE days = 0 /\ hours = 0
  BY <1>1, <1>2, <1>5 DEF FormatUptime, Minutes
<1> QED
  BY <1>1, <1>2, <1>3, <1>4, <1>5
=============================================================================
