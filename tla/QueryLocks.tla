----------------------------- MODULE QueryLocks -----------------------------
(***************************************************************************)
(* The critical sections of src/public/query.rs opened up: the mutex of    *)
(* the query manager, the mutex and the condition variable of each query,  *)
(* and the threads that meet there.  Every lock, wait and notification is  *)
(* a step.                                                                 *)
(*                                                                         *)
(* A Rocket worker enqueues a query and waits on it; the handler threads   *)
(* of the gRPC server resolve queries and drain the pending requests, in   *)
(* any order and with any ids.  The worker of query q is named q.          *)
(***************************************************************************)
EXTENDS Naturals

CONSTANTS
    Query, Id, Request, Response, None,     \* as in QueryManager
    Handler,    \* the threads that run poll handlers
    MaxOps      \* how many operations each of them performs (a bound)

ASSUME LockConstants ==
    /\ None \notin Query \cup Handler \cup Request \cup Response
    /\ Query \cap Handler = {}
    /\ MaxOps \in Nat

Thread == Query \cup Handler

VARIABLES
    pendingRequests, pendingResponses, request, response, answer,
    manager,    \* who holds QueryManager.inner
    inner,      \* who holds Query.inner, for each query
    worker,     \* where the worker of each query is
    expired,    \* QUERY_MAX_DURATION has passed since its wait began
    handler,    \* where each handler thread is
    args,       \* the arguments of its resolve_query
    target,     \* the query it has removed from the map and not resolved yet
    drained,    \* the entries the thread in get_pending_requests has drained
    ops         \* how many operations each handler has begun

data == <<pendingRequests, pendingResponses, request, response, answer>>
handlerVars == <<handler, args, target, ops>>
vars == <<data, manager, inner, worker, expired, handlerVars, drained>>

WorkerState == {"idle", "enqueue", "insert", "wait", "check", "sleep", "relock",
                "take", "give_up", "answered", "timeout"}
HandlerState == {"idle", "resolve", "lookup", "lock_query", "set", "notify",
                 "get_pending", "draining"}

EmptyMap == [id \in Id |-> None]

TypeOK ==
    /\ pendingRequests \in [Id -> Query \cup {None}]
    /\ pendingResponses \in [Id -> Query \cup {None}]
    /\ request \in [Query -> Request \cup {None}]
    /\ response \in [Query -> Response \cup {None}]
    /\ answer \in [Query -> Response \cup {None}]
    /\ manager \in Thread \cup {None}
    /\ inner \in [Query -> Thread \cup {None}]
    /\ worker \in [Query -> WorkerState]
    /\ expired \in [Query -> BOOLEAN]
    /\ handler \in [Handler -> HandlerState]
    /\ args \in [Handler -> [id : Id, response : Response] \cup {None}]
    /\ target \in [Handler -> Query \cup {None}]
    /\ drained \in [Id -> Query \cup {None}]
    /\ ops \in [Handler -> 0..MaxOps]

Init ==
    /\ pendingRequests = EmptyMap
    /\ pendingResponses = EmptyMap
    /\ request = [q \in Query |-> None]
    /\ response = [q \in Query |-> None]
    /\ answer = [q \in Query |-> None]
    /\ manager = None
    /\ inner = [q \in Query |-> None]
    /\ worker = [q \in Query |-> "idle"]
    /\ expired = [q \in Query |-> FALSE]
    /\ handler = [h \in Handler |-> "idle"]
    /\ args = [h \in Handler |-> None]
    /\ target = [h \in Handler |-> None]
    /\ drained = EmptyMap
    /\ ops = [h \in Handler |-> 0]

-----------------------------------------------------------------------------
(* Mutexes.                                                                *)

LockManager(t) == manager = None /\ manager' = t
LockInner(q, t) == inner[q] = None /\ inner' = [inner EXCEPT ![q] = t]
UnlockInner(q) == inner' = [inner EXCEPT ![q] = None]

WorkerGoes(q, from, to) ==
    worker[q] = from /\ worker' = [worker EXCEPT ![q] = to]
HandlerGoes(h, from, to) ==
    handler[h] = from /\ handler' = [handler EXCEPT ![h] = to]

-----------------------------------------------------------------------------
(* A worker: enqueue_query, then Query::wait.                              *)

Accept(q) ==
    /\ WorkerGoes(q, "idle", "enqueue")
    /\ UNCHANGED <<data, manager, inner, expired, handlerVars, drained>>

EnqueueLocks(q) ==
    /\ WorkerGoes(q, "enqueue", "insert")
    /\ LockManager(q)
    /\ UNCHANGED <<data, inner, expired, handlerVars, drained>>

Insert(q, id, req) ==
    /\ WorkerGoes(q, "insert", "wait")
    /\ pendingRequests[id] = None /\ pendingResponses[id] = None
    /\ pendingRequests' = [pendingRequests EXCEPT ![id] = q]
    /\ request' = [request EXCEPT ![q] = req]
    /\ response' = [response EXCEPT ![q] = None]
    /\ manager' = None
    /\ UNCHANGED <<pendingResponses, answer, inner, expired, handlerVars, drained>>

WaitLocks(q) ==
    /\ WorkerGoes(q, "wait", "check")
    /\ LockInner(q, q)
    /\ UNCHANGED <<data, manager, expired, handlerVars, drained>>

\* The loop of wait_timeout_while: the condition, then the time that is left.
WaitSatisfied(q) ==
    /\ WorkerGoes(q, "check", "take")
    /\ response[q] # None
    /\ UNCHANGED <<data, manager, inner, expired, handlerVars, drained>>

(* Operators named Bug... are faulty forms of the definition after them, for *)
(* checking that the properties notice.                                     *)

\* Looks at the clock before it looks at the condition.
BugWaitExpired(q) ==
    /\ WorkerGoes(q, "check", "give_up")
    /\ expired[q]
    /\ UNCHANGED <<data, manager, inner, expired, handlerVars, drained>>

WaitExpired(q) ==
    /\ WorkerGoes(q, "check", "give_up")
    /\ response[q] = None /\ expired[q]
    /\ UNCHANGED <<data, manager, inner, expired, handlerVars, drained>>

\* Waits for the notification without testing the condition first.
BugSleep(q) ==
    /\ WorkerGoes(q, "check", "sleep")
    /\ ~expired[q]
    /\ UnlockInner(q)
    /\ UNCHANGED <<data, manager, expired, handlerVars, drained>>

\* Releases the mutex and starts to wait in one step.
Sleep(q) ==
    /\ WorkerGoes(q, "check", "sleep")
    /\ response[q] = None /\ ~expired[q]
    /\ UnlockInner(q)
    /\ UNCHANGED <<data, manager, expired, handlerVars, drained>>

\* The deadline may pass at any time; it ends the sleep.  A sleep may also end
\* for no reason.
Expire(q) ==
    /\ worker[q] \in {"check", "sleep", "relock"}
    /\ ~expired[q]
    /\ expired' = [expired EXCEPT ![q] = TRUE]
    /\ UNCHANGED <<data, manager, inner, worker, handlerVars, drained>>

\* Sleeps without a time limit.
BugWakeAtDeadline(q) == FALSE /\ UNCHANGED vars

WakeAtDeadline(q) ==
    /\ expired[q]
    /\ WorkerGoes(q, "sleep", "relock")
    /\ UNCHANGED <<data, manager, inner, expired, handlerVars, drained>>

SpuriousWake(q) ==
    /\ WorkerGoes(q, "sleep", "relock")
    /\ UNCHANGED <<data, manager, inner, expired, handlerVars, drained>>

Relock(q) ==
    /\ WorkerGoes(q, "relock", "check")
    /\ LockInner(q, q)
    /\ UNCHANGED <<data, manager, expired, handlerVars, drained>>

Take(q) ==
    /\ WorkerGoes(q, "take", "answered")
    /\ answer' = [answer EXCEPT ![q] = response[q]]
    /\ response' = [response EXCEPT ![q] = None]
    /\ UnlockInner(q)
    /\ UNCHANGED <<pendingRequests, pendingResponses, request, manager, expired,
                   handlerVars, drained>>

GiveUp(q) ==
    /\ WorkerGoes(q, "give_up", "timeout")
    /\ UnlockInner(q)
    /\ UNCHANGED <<data, manager, expired, handlerVars, drained>>

-----------------------------------------------------------------------------
(* A handler thread: resolve_query and get_pending_requests.               *)

BeginOp(h) == ops[h] < MaxOps /\ ops' = [ops EXCEPT ![h] = @ + 1]

CallResolve(h, id, r) ==
    /\ HandlerGoes(h, "idle", "resolve")
    /\ BeginOp(h)
    /\ args' = [args EXCEPT ![h] = [id |-> id, response |-> r]]
    /\ UNCHANGED <<data, manager, inner, worker, expired, target, drained>>

ResolveLocks(h) ==
    /\ HandlerGoes(h, "resolve", "lookup")
    /\ LockManager(h)
    /\ UNCHANGED <<data, inner, worker, expired, args, target, ops, drained>>

LookupFails(h) ==
    /\ HandlerGoes(h, "lookup", "idle")
    /\ pendingResponses[args[h].id] = None
    /\ args' = [args EXCEPT ![h] = None]
    /\ manager' = None
    /\ UNCHANGED <<data, inner, worker, expired, target, ops, drained>>

Lookup(h) ==
    /\ HandlerGoes(h, "lookup", "lock_query")
    /\ pendingResponses[args[h].id] # None
    /\ target' = [target EXCEPT ![h] = pendingResponses[args[h].id]]
    /\ pendingResponses' = [pendingResponses EXCEPT ![args[h].id] = None]
    /\ UNCHANGED <<pendingRequests, request, response, answer, manager, inner, worker,
                   expired, args, ops, drained>>

\* The manager's mutex is kept while the query's is taken.
LockTarget(h) ==
    /\ HandlerGoes(h, "lock_query", "set")
    /\ LockInner(target[h], h)
    /\ UNCHANGED <<data, manager, worker, expired, args, target, ops, drained>>

\* Stores the arguments whole.
BugSetResponse(h) ==
    /\ HandlerGoes(h, "set", "notify")
    /\ response' = [response EXCEPT ![target[h]] = args[h]]
    /\ UNCHANGED <<pendingRequests, pendingResponses, request, answer, manager, inner,
                   worker, expired, args, target, ops, drained>>

SetResponse(h) ==
    /\ HandlerGoes(h, "set", "notify")
    /\ response' = [response EXCEPT ![target[h]] = args[h].response]
    /\ UNCHANGED <<pendingRequests, pendingResponses, request, answer, manager, inner,
                   worker, expired, args, target, ops, drained>>

\* notify_one reaches a thread that sleeps on the condition variable, if one
\* does; then both mutexes are released.
Notify(h) ==
    /\ HandlerGoes(h, "notify", "idle")
    /\ worker' = [worker EXCEPT ![target[h]] = IF @ = "sleep" THEN "relock" ELSE @]
    /\ UnlockInner(target[h])
    /\ manager' = None
    /\ args' = [args EXCEPT ![h] = None]
    /\ target' = [target EXCEPT ![h] = None]
    /\ UNCHANGED <<data, expired, ops, drained>>

CallGetPending(h) ==
    /\ HandlerGoes(h, "idle", "get_pending")
    /\ BeginOp(h)
    /\ UNCHANGED <<data, manager, inner, worker, expired, args, target, drained>>

GetPendingLocks(h) ==
    /\ HandlerGoes(h, "get_pending", "draining")
    /\ LockManager(h)
    /\ UNCHANGED <<data, inner, worker, expired, args, target, ops, drained>>

\* One round of the draining loop.  Query::request takes the query's mutex for
\* the time it clones the request.
DrainOne(h, id) ==
    /\ handler[h] = "draining"
    /\ pendingRequests[id] # None
    /\ inner[pendingRequests[id]] = None
    /\ drained' = [drained EXCEPT ![id] = pendingRequests[id]]
    /\ pendingRequests' = [pendingRequests EXCEPT ![id] = None]
    /\ UNCHANGED <<pendingResponses, request, response, answer, manager, inner, worker,
                   expired, handlerVars>>

Overlay(old, new) == [id \in Id |-> IF new[id] # None THEN new[id] ELSE old[id]]

\* Replaces pending_responses by the drained entries.
BugDrainEnds(h) ==
    /\ HandlerGoes(h, "draining", "idle")
    /\ pendingRequests = EmptyMap
    /\ pendingResponses' = drained
    /\ drained' = EmptyMap
    /\ manager' = None
    /\ UNCHANGED <<pendingRequests, request, response, answer, inner, worker, expired,
                   args, target, ops>>

DrainEnds(h) ==
    /\ HandlerGoes(h, "draining", "idle")
    /\ pendingRequests = EmptyMap
    /\ pendingResponses' = Overlay(pendingResponses, drained)
    /\ drained' = EmptyMap
    /\ manager' = None
    /\ UNCHANGED <<pendingRequests, request, response, answer, inner, worker, expired,
                   args, target, ops>>

-----------------------------------------------------------------------------

WorkerStep(q) ==
    \/ EnqueueLocks(q)
    \/ \E id \in Id, req \in Request : Insert(q, id, req)
    \/ WaitLocks(q) \/ WaitSatisfied(q) \/ WaitExpired(q) \/ Sleep(q)
    \/ WakeAtDeadline(q) \/ Relock(q) \/ Take(q) \/ GiveUp(q)

HandlerStep(h) ==
    \/ ResolveLocks(h) \/ LookupFails(h) \/ Lookup(h) \/ LockTarget(h)
    \/ SetResponse(h) \/ Notify(h)
    \/ GetPendingLocks(h) \/ (\E id \in Id : DrainOne(h, id)) \/ DrainEnds(h)

HandlerCall(h) ==
    \/ \E id \in Id, r \in Response : CallResolve(h, id, r)
    \/ CallGetPending(h)

\* Every thread has come to its end: the one state the system may stop in.
Finished ==
    /\ \A q \in Query : worker[q] \in {"answered", "timeout"}
    /\ \A h \in Handler : handler[h] = "idle" /\ ops[h] = MaxOps

Next ==
    \/ \E q \in Query : Accept(q) \/ WorkerStep(q) \/ Expire(q) \/ SpuriousWake(q)
    \/ \E h \in Handler : HandlerCall(h) \/ HandlerStep(h)
    \/ Finished /\ UNCHANGED vars

Spec == Init /\ [][Next]_vars

\* A thread that can run does, and the clock goes on.
Fairness ==
    /\ \A q \in Query : WF_vars(WorkerStep(q)) /\ WF_vars(Expire(q))
    /\ \A h \in Handler : WF_vars(HandlerStep(h))

FairSpec == Spec /\ Fairness

-----------------------------------------------------------------------------
(* Properties.                                                             *)

\* No wakeup is lost: a worker sleeps on a response that is there only until
\* the thread that stored it has called notify_one.  (The condition is tested,
\* and the sleep begun, under the mutex the response is stored under.)
NoLostWakeup ==
    \A q \in Query :
        worker[q] = "sleep" /\ response[q] # None
            => \E h \in Handler : handler[h] = "notify" /\ target[h] = q

\* What the worker has decided on still holds when it acts: the assertion after
\* the wait (query.rs:69) is true, and a worker that returns "timeout" leaves no
\* response behind.
DecisionStands ==
    \A q \in Query : /\ worker[q] = "take" => response[q] # None
                     /\ worker[q] = "give_up" => response[q] = None

\* Every call comes back: no cycle of locks, and no wait without an end.
CallsReturn ==
    /\ \A q \in Query : worker[q] # "idle" ~> worker[q] \in {"answered", "timeout"}
    /\ \A h \in Handler : handler[h] # "idle" ~> handler[h] = "idle"

\* The critical sections as QueryManager has them.  A resolution and a drain
\* take effect when their last step on the maps and the query is made: until
\* then the entry they removed still counts.
Resolving(id) == {target[h] : h \in {g \in Handler :
                   handler[g] \in {"lock_query", "set"} /\ args[g].id = id}}

PhaseOf(q) ==
    CASE worker[q] \in {"idle", "enqueue", "insert"} -> "idle"
      [] worker[q] \in {"answered", "timeout"} -> worker[q]
      [] OTHER -> "waiting"

Manager == INSTANCE QueryManager WITH
    pendingRequests <- Overlay(pendingRequests, drained),
    pendingResponses <-
        [id \in Id |->
            IF \E q \in Resolving(id) : TRUE
            THEN CHOOSE q \in Resolving(id) : TRUE ELSE pendingResponses[id]],
    phase <- [q \in Query |-> PhaseOf(q)]

ImplementsManager == Manager!Spec
=============================================================================
