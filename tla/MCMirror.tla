------------------------------ MODULE MCMirror ------------------------------
(* Mirror on small instances; the .cfg files choose the failures.          *)
EXTENDS Mirror, TLC

CONSTANTS q1, q2, q3, i1, i2, i3, c1, c2

\* Requests that reach the wallet, and requests of both kinds and any content.
Good == [kind |-> RequiredKind, body |-> "supported"]
OneRequest == {Good}
MixedRequests == {Good} \cup {req \in AllRequests : req.kind # RequiredKind /\ req.body = "supported"}

\* Sound where no liveness property is checked: no definition tells the members
\* of Query, Id or Call apart.
Symmetry ==
    Permutations({q1, q2, q3}) \cup Permutations({i1, i2, i3}) \cup Permutations({c1, c2})
=============================================================================
