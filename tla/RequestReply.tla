---------------------------- MODULE RequestReply ----------------------------
(***************************************************************************)
(* What the mirror promises the clients of its two HTTP endpoints: the     *)
(* wallet behind a pair of forwarders, seen as one service.                *)
(*                                                                         *)
(* A request is executed at most once, only if it is eligible, and never   *)
(* before it was submitted, but possibly after its client was told         *)
(* "timeout" or lost the connection.  Success means that this very request *)
(* was executed; an error or a timeout says nothing about it.              *)
(***************************************************************************)
EXTENDS Naturals

CONSTANT Query      \* the HTTP requests

VARIABLES
    outcome,    \* what the client of each request knows
    eligible,   \* the requests the private side may pass on to the wallet
    executed    \* how often the wallet executed each request

vars == <<outcome, eligible, executed>>

TypeOK ==
    /\ outcome \in [Query -> {"none", "pending", "success", "error", "timeout", "dropped"}]
    /\ eligible \subseteq Query
    /\ executed \in [Query -> {0, 1}]

Init ==
    /\ outcome = [q \in Query |-> "none"]
    /\ eligible = {}
    /\ executed = [q \in Query |-> 0]

Submit(q) ==
    /\ outcome[q] = "none"
    /\ outcome' = [outcome EXCEPT ![q] = "pending"]
    /\ eligible' \in {eligible, eligible \cup {q}}
    /\ UNCHANGED executed

Execute(q) ==
    /\ q \in eligible
    /\ executed[q] = 0
    /\ executed' = [executed EXCEPT ![q] = 1]
    /\ UNCHANGED <<outcome, eligible>>

Finish(q, result) ==
    /\ outcome[q] = "pending"
    /\ result = "success" => executed[q] = 1
    /\ outcome' = [outcome EXCEPT ![q] = result]
    /\ UNCHANGED <<eligible, executed>>

\* The public side restarts: the connections of all waiting clients break.
DropAll ==
    /\ outcome' = [q \in Query |-> IF outcome[q] = "pending" THEN "dropped" ELSE outcome[q]]
    /\ UNCHANGED <<eligible, executed>>

Next ==
    \/ \E q \in Query : Submit(q) \/ Execute(q)
    \/ \E q \in Query, result \in {"success", "error", "timeout"} : Finish(q, result)
    \/ DropAll

Spec == Init /\ [][Next]_vars
=============================================================================
