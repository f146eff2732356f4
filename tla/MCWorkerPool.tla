---------------------------- MODULE MCWorkerPool ----------------------------
(* Small instances of WorkerPool for TLC, and the texts its workers make. *)
EXTENDS WorkerPool, TextHelpers, TLC

\* Updates, users and workers are interchangeable, and so are URLs.
Symmetry ==
  Permutations(Updates) \cup Permutations(URLs) \cup Permutations(Users)
    \cup Permutations(Workers)

\* The texts over some runes with at most n of them.
Texts(runes, n) == UNION {[1..m -> runes] : m \in 0..n}

\* A caption keeps to its limit, and a title that fits is not touched.
ASSUME CaptionsAreCut ==
  \A s \in Texts({"a", "b"}, 6), limit \in -1..6 :
    LET t == TruncateRunes(s, limit) IN
      IF Len(s) <= limit THEN t = s ELSE Len(t) = IF limit > 0 THEN limit ELSE 0

\* Duration and title come out of the line as yt-dlp prints them, with a tab
\* inside the title and with more lines after it, as long as the title is not
\* blank ...
ASSUME PrintedIsRead ==
  \A duration \in Texts({"7", "space"}, 2), title \in Texts({"x", "space", "tab"}, 3),
     rest \in {<<>>, <<"x">>} :
    TrimSpace(duration) # <<>> /\ TrimSpace(title) # <<>> =>
      ReadPrinted(duration \o <<"tab">> \o title \o <<"newline">> \o rest, <<"file">>)
        = [duration |-> TrimSpace(duration), title |-> TrimSpace(title)]

\* ... for TrimSpace takes the tab away before a blank title: the duration then
\* becomes the title, and the file name is not used.
ASSUME BlankTitleIsMisread ==
  ReadPrinted(<<"7", "tab", "newline">>, <<"file">>) = [duration |-> <<>>, title |-> <<"7">>]
=============================================================================
