---------------------------- MODULE MCTgVideoBot ----------------------------
(* Small instances of TgVideoBot for TLC. *)
EXTENDS TgVideoBot, TLC

\* Updates, URLs and users are interchangeable.
Symmetry ==
  Permutations(Updates) \cup Permutations(URLs) \cup Permutations(Users)

\* Bounds: what only one of the two parts looks at, and a run of its own covers,
\* is cut off: the entries and versions of the history, the choice of a stub, and
\* inline queries that have no message beside them.
Bounds ==
  /\ pushed = {}
  /\ \A c \in Updates : chosen[c] = "none"
  /\ \E c \in Updates : kind[c] = "message"
=============================================================================
