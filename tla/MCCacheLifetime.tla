-------------------------- MODULE MCCacheLifetime --------------------------
(* Small instances of CacheLifetime for TLC. *)
EXTENDS CacheLifetime, TLC

\* Queries are interchangeable.
Symmetry == Permutations(Queries)

\* One pipeline breaks off.  A second one changes the counter as the first does.
OneFailure == Cardinality(failed) <= 1
=============================================================================
