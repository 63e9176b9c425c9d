---------------------------- MODULE MCMirrorTimed ----------------------------
(* MirrorTimed on a small instance.                                        *)
EXTENDS MirrorTimed, TLC

CONSTANTS q1, q2, q3, i1, i2, i3, c1

Good == [kind |-> RequiredKind, body |-> "supported"]
OneRequest == {Good}

\* Sound as no liveness property is checked: no definition tells the members of
\* Query or of Id apart.
Symmetry == Permutations({q1, q2, q3}) \cup Permutations({i1, i2, i3})
=============================================================================
