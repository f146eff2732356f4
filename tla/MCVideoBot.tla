------------------------------ MODULE MCVideoBot ------------------------------
(* Small instances of VideoBot for TLC. *)
EXTENDS VideoBot, TLC

\* Updates, URLs and users are interchangeable.
Symmetry ==
  Permutations(Updates) \cup Permutations(URLs) \cup Permutations(Users)

\* Bounds: one request at least is a message, one pipeline of IncrRateLimit fails
\* beside another request that may be counted, and a loading stub is picked when
\* no handler is left, since that changes nothing that another action reads.
Bounds ==
  /\ \E c \in Updates : ~Inline(c)
  /\ Cardinality(unlimited) <= 1
  /\ \/ \A c \in Updates : chosen[c] = "none"
     \/ \A c \in Updates : pc[c] \in {"done", "gone"}
=============================================================================
