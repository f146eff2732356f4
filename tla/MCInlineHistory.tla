--------------------------- MODULE MCInlineHistory ---------------------------
(* Small instances of InlineHistory for TLC. *)
EXTENDS InlineHistory, TLC

Symmetry ==
  Permutations(Adds) \cup Permutations(Queries) \cup Permutations(Files)
=============================================================================
