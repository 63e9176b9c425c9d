---------------------------- MODULE MCQueryLocks ----------------------------
(* QueryLocks on small instances.                                          *)
EXTENDS QueryLocks, TLC

CONSTANTS q1, q2, i1, i2, h1, h2

\* Sound for safety: no definition tells the threads or the ids apart.
Symmetry == Permutations({q1, q2}) \cup Permutations({i1, i2}) \cup Permutations({h1, h2})
=============================================================================
