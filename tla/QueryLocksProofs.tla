-------------------------- MODULE QueryLocksProofs --------------------------
(***************************************************************************)
(* Proofs about QueryLocks, for any number of queries, handler threads and *)
(* operations: types, who holds which mutex, who waits for whom, and what  *)
(* follows for wait().                                                     *)
(***************************************************************************)
EXTENDS QueryLocks, TLAPS

LEMMA Nothing == None \notin Query \cup Handler \cup Request \cup Response
BY LockConstants

-----------------------------------------------------------------------------
(* Types.                                                                  *)

LEMMA WorkerStepTypes ==
    ASSUME TypeOK, NEW q \in Query, WorkerStep(q) \/ Accept(q) \/ Expire(q) \/ SpuriousWake(q)
    PROVE  TypeOK'
<1> USE DEF TypeOK, WorkerGoes, LockInner, UnlockInner, LockManager, Thread, WorkerState,
            data, handlerVars
<1>1. CASE Accept(q) \/ Expire(q) \/ SpuriousWake(q)
  BY <1>1 DEF Accept, Expire, SpuriousWake
<1>2. CASE EnqueueLocks(q)
  BY <1>2 DEF EnqueueLocks
<1>3. ASSUME NEW id \in Id, NEW req \in Request, Insert(q, id, req)
      PROVE  TypeOK'
  BY <1>3 DEF Insert
<1>4. CASE WaitLocks(q) \/ Relock(q)
  BY <1>4 DEF WaitLocks, Relock
<1>5. CASE WaitSatisfied(q) \/ WaitExpired(q)
  BY <1>5 DEF WaitSatisfied, WaitExpired
<1>6. CASE Sleep(q) \/ WakeAtDeadline(q)
  BY <1>6 DEF Sleep, WakeAtDeadline
<1>7. CASE Take(q)
  BY <1>7 DEF Take
<1>8. CASE GiveUp(q)
  BY <1>8 DEF GiveUp
<1>9. QED
  BY <1>1, <1>2, <1>3, <1>4, <1>5, <1>6, <1>7, <1>8 DEF WorkerStep

\* A handler that stores a response or notifies has arguments and a target.
HandlerHasArgs ==
    \A h \in Handler :
        /\ handler[h] \in {"resolve", "lookup", "lock_query", "set", "notify"}
               => args[h] \in [id : Id, response : Response]
        /\ handler[h] \in {"lock_query", "set", "notify"} => target[h] \in Query

LEMMA HandlerStepTypes ==
    ASSUME TypeOK, HandlerHasArgs, NEW h \in Handler, HandlerStep(h) \/ HandlerCall(h)
    PROVE  TypeOK'
<1> USE DEF TypeOK, HandlerGoes, LockInner, UnlockInner, LockManager, Thread, HandlerState,
            data, handlerVars
<1>1. ASSUME NEW id \in Id, NEW r \in Response, CallResolve(h, id, r)
      PROVE  TypeOK'
  <2>1. ops' \in [Handler -> 0..MaxOps]
    BY <1>1, LockConstants DEF CallResolve, BeginOp
  <2>2. args' \in [Handler -> [id : Id, response : Response] \cup {None}]
    BY <1>1 DEF CallResolve
  <2>3. handler' \in [Handler -> HandlerState]
    BY <1>1 DEF CallResolve
  <2>4. QED
    BY <1>1, <2>1, <2>2, <2>3 DEF CallResolve
<1>2. CASE CallGetPending(h)
  <2>1. ops' \in [Handler -> 0..MaxOps]
    BY <1>2, LockConstants DEF CallGetPending, BeginOp
  <2>2. QED
    BY <1>2, <2>1 DEF CallGetPending
<1>3. CASE ResolveLocks(h) \/ GetPendingLocks(h) \/ LookupFails(h)
  BY <1>3 DEF ResolveLocks, GetPendingLocks, LookupFails
<1>4. CASE Lookup(h)
  <2>1. args[h].id \in Id
    BY <1>4 DEF Lookup, HandlerHasArgs
  <2>2. QED
    BY <1>4, <2>1 DEF Lookup
<1>5. CASE LockTarget(h)
  BY <1>5 DEF LockTarget
<1>6. CASE SetResponse(h)
  <2>1. args[h].response \in Response
    BY <1>6 DEF SetResponse, HandlerHasArgs
  <2>2. QED
    BY <1>6, <2>1 DEF SetResponse
<1>7. CASE Notify(h)
  <2>1. worker' \in [Query -> WorkerState]
    BY <1>7 DEF Notify, WorkerState
  <2>2. QED
    BY <1>7, <2>1 DEF Notify
<1>8. ASSUME NEW id \in Id, DrainOne(h, id)
      PROVE  TypeOK'
  BY <1>8 DEF DrainOne
<1>9. CASE DrainEnds(h)
  BY <1>9 DEF DrainEnds, Overlay, EmptyMap
<1>10. QED
  BY <1>1, <1>2, <1>3, <1>4, <1>5, <1>6, <1>7, <1>8, <1>9 DEF HandlerStep, HandlerCall

LEMMA StepKeepsArgs ==
    ASSUME TypeOK, HandlerHasArgs, [Next]_vars
    PROVE  HandlerHasArgs'
<1> USE Nothing DEF HandlerHasArgs, HandlerGoes, TypeOK
<1>1. ASSUME UNCHANGED handlerVars
      PROVE  HandlerHasArgs'
  BY <1>1 DEF handlerVars
<1>2. ASSUME NEW q \in Query, WorkerStep(q) \/ Accept(q) \/ Expire(q) \/ SpuriousWake(q)
      PROVE  HandlerHasArgs'
  <2>1. UNCHANGED handlerVars
    BY <1>2 DEF WorkerStep, Accept, Expire, SpuriousWake, EnqueueLocks, Insert, WaitLocks,
       WaitSatisfied, WaitExpired, Sleep, WakeAtDeadline, Relock, Take, GiveUp
  <2>2. QED
    BY <1>1, <2>1
<1>3. ASSUME NEW h \in Handler, NEW id \in Id, NEW r \in Response, CallResolve(h, id, r)
      PROVE  HandlerHasArgs'
  BY <1>3 DEF CallResolve
<1>4. ASSUME NEW h \in Handler, CallGetPending(h) \/ HandlerStep(h)
      PROVE  HandlerHasArgs'
  <2>1. CASE CallGetPending(h) \/ ResolveLocks(h) \/ GetPendingLocks(h)
    BY <1>4, <2>1 DEF CallGetPending, ResolveLocks, GetPendingLocks
  <2>2. CASE LookupFails(h) \/ Lookup(h) \/ Notify(h)
    BY <2>2 DEF LookupFails, Lookup, Notify
  <2>3. CASE LockTarget(h) \/ SetResponse(h)
    BY <2>3 DEF LockTarget, SetResponse
  <2>4. CASE DrainEnds(h) \/ \E id \in Id : DrainOne(h, id)
    BY <2>4 DEF DrainEnds, DrainOne, handlerVars
  <2>5. QED
    BY <1>4, <2>1, <2>2, <2>3, <2>4 DEF HandlerStep
<1>5. QED
  BY <1>1, <1>2, <1>3, <1>4 DEF Next, HandlerCall, vars

THEOREM TypeCorrect == Spec => [](TypeOK /\ HandlerHasArgs)
<1>1. Init => TypeOK /\ HandlerHasArgs
  BY LockConstants DEF Init, TypeOK, HandlerHasArgs, EmptyMap, WorkerState, HandlerState, Thread
<1>2. TypeOK /\ HandlerHasArgs /\ [Next]_vars => TypeOK'
  <2>1. TypeOK /\ UNCHANGED vars => TypeOK'
    BY DEF TypeOK, vars, data, handlerVars
  <2>2. QED
    BY <2>1, WorkerStepTypes, HandlerStepTypes DEF Next
<1>3. QED
  BY <1>1, <1>2, StepKeepsArgs, PTL DEF Spec

-----------------------------------------------------------------------------
(* Mutexes.                                                                *)

\* A thread holds the manager's mutex in the critical sections of the manager.
ManagerHeld ==
    /\ \A q \in Query : worker[q] = "insert" => manager = q
    /\ \A h \in Handler :
          handler[h] \in {"lookup", "lock_query", "set", "notify", "draining"} => manager = h

\* A worker holds its query's mutex while it looks at the condition and acts on
\* it, a handler that of the query it resolves.
InnerHeld ==
    /\ \A q \in Query : worker[q] \in {"check", "take", "give_up"} => inner[q] = q
    /\ \A h \in Handler : handler[h] \in {"set", "notify"} => inner[target[h]] = h

MutexInv == ManagerHeld /\ InnerHeld

LEMMA WorkerKeepsMutexes ==
    ASSUME TypeOK, HandlerHasArgs, MutexInv, NEW q \in Query,
           WorkerStep(q) \/ Accept(q) \/ Expire(q) \/ SpuriousWake(q)
    PROVE  MutexInv'
<1> USE Nothing, LockConstants
        DEF TypeOK, HandlerHasArgs, MutexInv, ManagerHeld, InnerHeld, WorkerGoes, LockManager,
            LockInner, UnlockInner, handlerVars
<1>1. CASE Accept(q) \/ Expire(q) \/ SpuriousWake(q) \/ WakeAtDeadline(q)
  BY <1>1 DEF Accept, Expire, SpuriousWake, WakeAtDeadline
<1>2. CASE EnqueueLocks(q) \/ \E id \in Id, req \in Request : Insert(q, id, req)
  BY <1>2 DEF EnqueueLocks, Insert
<1>3. CASE WaitLocks(q) \/ Relock(q)
  BY <1>3 DEF WaitLocks, Relock
<1>4. CASE WaitSatisfied(q) \/ WaitExpired(q)
  BY <1>4 DEF WaitSatisfied, WaitExpired
<1>5. CASE Sleep(q) \/ Take(q) \/ GiveUp(q)
  BY <1>5 DEF Sleep, Take, GiveUp
<1>6. QED
  BY <1>1, <1>2, <1>3, <1>4, <1>5 DEF WorkerStep

LEMMA HandlerKeepsMutexes ==
    ASSUME TypeOK, HandlerHasArgs, MutexInv, NEW h \in Handler, HandlerStep(h) \/ HandlerCall(h)
    PROVE  MutexInv'
<1> USE Nothing, LockConstants
        DEF TypeOK, HandlerHasArgs, MutexInv, ManagerHeld, InnerHeld, HandlerGoes, LockManager,
            LockInner, UnlockInner
<1>1. CASE HandlerCall(h)
  BY <1>1 DEF HandlerCall, CallResolve, CallGetPending
<1>2. CASE ResolveLocks(h) \/ GetPendingLocks(h)
  BY <1>2 DEF ResolveLocks, GetPendingLocks
<1>3. CASE LookupFails(h) \/ Lookup(h)
  BY <1>3 DEF LookupFails, Lookup
<1>4. CASE LockTarget(h) \/ SetResponse(h)
  BY <1>4 DEF LockTarget, SetResponse
<1>5. CASE Notify(h)
  BY <1>5 DEF Notify
<1>6. CASE DrainEnds(h) \/ \E id \in Id : DrainOne(h, id)
  BY <1>6 DEF DrainEnds, DrainOne, handlerVars
<1>7. QED
  BY <1>1, <1>2, <1>3, <1>4, <1>5, <1>6 DEF HandlerStep

LEMMA MutexesKept ==
    TypeOK /\ HandlerHasArgs /\ MutexInv /\ [Next]_vars => MutexInv'
<1>1. MutexInv /\ UNCHANGED vars => MutexInv'
  BY DEF MutexInv, ManagerHeld, InnerHeld, vars, handlerVars
<1>2. QED
  BY <1>1, WorkerKeepsMutexes, HandlerKeepsMutexes DEF Next

\* The critical sections are mutually exclusive: of all threads one at most is in the
\* manager's, and while a worker looks at its response no handler writes it.
THEOREM MutexesAreHeld == Spec => []MutexInv
<1>1. Init => MutexInv
  BY DEF Init, MutexInv, ManagerHeld, InnerHeld
<1>2. QED
  BY <1>1, MutexesKept, TypeCorrect, PTL DEF Spec

-----------------------------------------------------------------------------
(* Who waits for whom.                                                     *)

\* Whoever holds a mutex is in one of its critical sections.
HoldersAreInside ==
    /\ \A q \in Query : manager = q => worker[q] = "insert"
    /\ \A h \in Handler : manager = h =>
          handler[h] \in {"lookup", "lock_query", "set", "notify", "draining"}
    /\ \A q \in Query : \A t \in Thread : inner[q] = t =>
          \/ t = q /\ worker[q] \in {"check", "take", "give_up"}
          \/ t \in Handler /\ handler[t] \in {"set", "notify"} /\ target[t] = q

\* Thread t stands before a mutex that thread p holds.
WaitsFor(t, p) ==
    \/ t \in Query /\ worker[t] = "enqueue" /\ manager = p
    \/ t \in Query /\ worker[t] \in {"wait", "relock"} /\ inner[t] = p
    \/ t \in Handler /\ handler[t] \in {"resolve", "get_pending"} /\ manager = p
    \/ t \in Handler /\ handler[t] = "lock_query" /\ inner[target[t]] = p
    \/ /\ t \in Handler /\ handler[t] = "draining"
       /\ \E id \in Id : pendingRequests[id] # None /\ inner[pendingRequests[id]] = p

\* A thread may wait for one that waits itself, but never for one that waits for
\* a waiting one: there is no circle.
WaitsEnd ==
    \A t, p, r, s \in Thread : ~(WaitsFor(t, p) /\ WaitsFor(p, r) /\ WaitsFor(r, s))

LEMMA WorkerStaysInside ==
    ASSUME TypeOK, HandlerHasArgs, MutexInv, HoldersAreInside, NEW q \in Query,
           WorkerStep(q) \/ Accept(q) \/ Expire(q) \/ SpuriousWake(q)
    PROVE  HoldersAreInside'
<1> USE Nothing, LockConstants
        DEF TypeOK, MutexInv, ManagerHeld, InnerHeld, HoldersAreInside, Thread, WorkerGoes,
            LockManager, LockInner, UnlockInner, handlerVars
<1>1. CASE Accept(q) \/ Expire(q) \/ SpuriousWake(q) \/ WakeAtDeadline(q)
  BY <1>1 DEF Accept, Expire, SpuriousWake, WakeAtDeadline
<1>2. CASE EnqueueLocks(q) \/ \E id \in Id, req \in Request : Insert(q, id, req)
  BY <1>2 DEF EnqueueLocks, Insert
<1>3. CASE WaitLocks(q) \/ Relock(q)
  BY <1>3 DEF WaitLocks, Relock
<1>4. CASE WaitSatisfied(q) \/ WaitExpired(q)
  BY <1>4 DEF WaitSatisfied, WaitExpired
<1>5. CASE Sleep(q) \/ Take(q) \/ GiveUp(q)
  BY <1>5 DEF Sleep, Take, GiveUp
<1>6. QED
  BY <1>1, <1>2, <1>3, <1>4, <1>5 DEF WorkerStep

LEMMA HandlerStaysInside ==
    ASSUME TypeOK, HandlerHasArgs, MutexInv, HoldersAreInside,
           NEW h \in Handler, HandlerStep(h) \/ HandlerCall(h)
    PROVE  HoldersAreInside'
<1> USE Nothing, LockConstants
        DEF TypeOK, HandlerHasArgs, MutexInv, ManagerHeld, InnerHeld, HoldersAreInside, Thread,
            HandlerGoes, LockManager, LockInner, UnlockInner
<1>1. CASE HandlerCall(h)
  BY <1>1 DEF HandlerCall, CallResolve, CallGetPending
<1>2. CASE ResolveLocks(h) \/ GetPendingLocks(h)
  BY <1>2 DEF ResolveLocks, GetPendingLocks
<1>3. CASE LookupFails(h) \/ Lookup(h)
  BY <1>3 DEF LookupFails, Lookup
<1>4. CASE LockTarget(h) \/ SetResponse(h)
  BY <1>4 DEF LockTarget, SetResponse
<1>5. CASE Notify(h)
  BY <1>5 DEF Notify
<1>6. CASE DrainEnds(h) \/ \E id \in Id : DrainOne(h, id)
  BY <1>6 DEF DrainEnds, DrainOne, handlerVars
<1>7. QED
  BY <1>1, <1>2, <1>3, <1>4, <1>5, <1>6 DEF HandlerStep

LEMMA InsideAlways == Spec => []HoldersAreInside
<1>1. Init => HoldersAreInside
  BY Nothing, LockConstants DEF Init, HoldersAreInside, Thread
<1>2. HoldersAreInside /\ UNCHANGED vars => HoldersAreInside'
  BY DEF HoldersAreInside, vars, handlerVars
<1>3. TypeOK /\ HandlerHasArgs /\ MutexInv /\ HoldersAreInside /\ [Next]_vars => HoldersAreInside'
  BY <1>2, WorkerStaysInside, HandlerStaysInside DEF Next
<1>4. QED
  BY <1>1, <1>3, MutexesAreHeld, TypeCorrect, PTL DEF Spec

\* The two levels of mutexes are taken in one order: a thread that waits holds no
\* mutex, or it is the one in the manager's section and waits for a query's, whose
\* holder waits for nothing.  So threads never wait in a circle, however many there
\* are.
THEOREM NoCircleOfLocks == Spec => []WaitsEnd
<1>1. TypeOK /\ HandlerHasArgs /\ HoldersAreInside => WaitsEnd
  <2> SUFFICES ASSUME TypeOK, HandlerHasArgs, HoldersAreInside,
                      NEW t \in Thread, NEW p \in Thread, NEW r \in Thread, NEW s \in Thread,
                      WaitsFor(t, p), WaitsFor(p, r), WaitsFor(r, s)
               PROVE  FALSE
    BY DEF WaitsEnd
  <2> USE Nothing, LockConstants DEF TypeOK, HandlerHasArgs, HoldersAreInside, Thread
  \* Who holds a query's mutex waits for nobody.
  <2>1. ASSUME NEW q \in Query, NEW x \in Thread, NEW y \in Thread, inner[q] = x
        PROVE  ~WaitsFor(x, y)
    BY <2>1 DEF WaitsFor
  <2>2. manager = p
    BY <2>1 DEF WaitsFor
  <2>3. manager = r
    BY <2>1 DEF WaitsFor
  <2>4. p \in Handler /\ handler[p] \in {"lock_query", "draining"}
    BY <2>2 DEF WaitsFor
  <2>5. \E q \in Query : inner[q] = r
    BY <2>4 DEF WaitsFor
  <2>6. QED
    BY <2>1, <2>5
<1>2. QED
  BY <1>1, InsideAlways, TypeCorrect, PTL

-----------------------------------------------------------------------------
(* What a worker found when it looked is still so when it acts.            *)

WaitInv == DecisionStands /\ NoLostWakeup

LEMMA WorkerKeepsWaits ==
    ASSUME TypeOK, WaitInv, NEW q \in Query,
           WorkerStep(q) \/ Accept(q) \/ Expire(q) \/ SpuriousWake(q)
    PROVE  WaitInv'
<1> USE DEF TypeOK, WaitInv, DecisionStands, NoLostWakeup, WorkerGoes, handlerVars, data
<1>1. CASE Accept(q) \/ Expire(q) \/ SpuriousWake(q) \/ WakeAtDeadline(q)
  BY <1>1 DEF Accept, Expire, SpuriousWake, WakeAtDeadline
<1>2. CASE EnqueueLocks(q) \/ WaitLocks(q) \/ Relock(q)
  BY <1>2 DEF EnqueueLocks, WaitLocks, Relock
<1>3. ASSUME NEW id \in Id, NEW req \in Request, Insert(q, id, req)
      PROVE  WaitInv'
  BY <1>3 DEF Insert
<1>4. CASE WaitSatisfied(q) \/ WaitExpired(q)
  BY <1>4 DEF WaitSatisfied, WaitExpired
<1>5. CASE Sleep(q)
  BY <1>5 DEF Sleep
<1>6. CASE Take(q)
  BY <1>6 DEF Take
<1>7. CASE GiveUp(q)
  BY <1>7 DEF GiveUp
<1>8. QED
  BY <1>1, <1>2, <1>3, <1>4, <1>5, <1>6, <1>7 DEF WorkerStep

\* A step of h that stores no response and notifies nobody.
LEMMA OtherSteps ==
    ASSUME WaitInv, UNCHANGED <<response, worker>>, NEW h \in Handler, handler[h] # "notify",
           \A g \in Handler \ {h} : handler'[g] = handler[g] /\ target'[g] = target[g]
    PROVE  WaitInv'
<1>1. DecisionStands'
  BY DEF WaitInv, DecisionStands
<1>2. ASSUME NEW q \in Query, worker[q] = "sleep" /\ response[q] # None
      PROVE  \E g \in Handler : handler'[g] = "notify" /\ target'[g] = q
  <2>1. PICK g \in Handler : handler[g] = "notify" /\ target[g] = q
    BY <1>2 DEF WaitInv, NoLostWakeup
  <2>2. QED
    BY <2>1
<1>3. QED
  BY <1>1, <1>2 DEF WaitInv, NoLostWakeup

LEMMA HandlerKeepsWaits ==
    ASSUME TypeOK, HandlerHasArgs, MutexInv, WaitInv,
           NEW h \in Handler, HandlerStep(h) \/ HandlerCall(h)
    PROVE  WaitInv'
<1> USE DEF TypeOK, HandlerGoes
<1>1. CASE HandlerCall(h)
  BY <1>1, OtherSteps DEF HandlerCall, CallResolve, CallGetPending, data
<1>2. CASE ResolveLocks(h) \/ GetPendingLocks(h) \/ LookupFails(h) \/ Lookup(h) \/ LockTarget(h)
  BY <1>2, OtherSteps DEF ResolveLocks, GetPendingLocks, LookupFails, Lookup, LockTarget, data
<1>3. CASE DrainEnds(h) \/ \E id \in Id : DrainOne(h, id)
  BY <1>3, OtherSteps DEF DrainEnds, DrainOne, handlerVars
<1>4. CASE SetResponse(h)
  <2>1. PICK q \in Query : q = target[h] /\ inner[q] = h
    BY <1>4 DEF SetResponse, HandlerHasArgs, MutexInv, InnerHeld
  <2>2. worker[q] \notin {"take", "give_up"}
    BY <2>1, LockConstants DEF MutexInv, InnerHeld
  <2>3. DecisionStands'
    BY <1>4, <2>1, <2>2 DEF SetResponse, WaitInv, DecisionStands
  <2>4. handler'[h] = "notify" /\ target'[h] = q
    BY <1>4, <2>1 DEF SetResponse
  <2>5. ASSUME NEW p \in Query, p # q, worker[p] = "sleep" /\ response'[p] # None
        PROVE  \E g \in Handler : handler'[g] = "notify" /\ target'[g] = p
    <3>1. PICK g \in Handler : handler[g] = "notify" /\ target[g] = p
      BY <1>4, <2>1, <2>5 DEF SetResponse, WaitInv, NoLostWakeup
    <3>2. QED
      BY <1>4, <2>1, <2>5, <3>1 DEF SetResponse
  <2>6. worker' = worker
    BY <1>4 DEF SetResponse
  <2>7. QED
    BY <2>3, <2>4, <2>5, <2>6 DEF WaitInv, NoLostWakeup
<1>5. CASE Notify(h)
  <2>1. PICK q \in Query : q = target[h]
    BY <1>5 DEF Notify, HandlerHasArgs
  <2>2. /\ response' = response
        /\ worker'[q] \notin {"sleep"}
        /\ worker'[q] \in {worker[q], "relock"}
        /\ \A p \in Query \ {q} : worker'[p] = worker[p]
    BY <1>5, <2>1 DEF Notify, data
  <2>3. DecisionStands'
    BY <2>2 DEF WaitInv, DecisionStands
  <2>4. ASSUME NEW p \in Query, p # q, worker[p] = "sleep" /\ response[p] # None
        PROVE  \E g \in Handler : handler'[g] = "notify" /\ target'[g] = p
    <3>1. PICK g \in Handler : handler[g] = "notify" /\ target[g] = p
      BY <2>4 DEF WaitInv, NoLostWakeup
    <3>2. QED
      BY <1>5, <2>1, <2>4, <3>1 DEF Notify
  <2>5. QED
    BY <2>2, <2>3, <2>4 DEF WaitInv, NoLostWakeup
<1>6. QED
  BY <1>1, <1>2, <1>3, <1>4, <1>5 DEF HandlerStep

LEMMA WaitsKept ==
    TypeOK /\ HandlerHasArgs /\ MutexInv /\ WaitInv /\ [Next]_vars => WaitInv'
<1>1. WaitInv /\ UNCHANGED vars => WaitInv'
  BY DEF WaitInv, DecisionStands, NoLostWakeup, vars, data, handlerVars
<1>2. QED
  BY <1>1, WorkerKeepsWaits, HandlerKeepsWaits DEF Next

LEMMA WaitsAlways == Spec => []WaitInv
<1>1. Init => WaitInv
  BY DEF Init, WaitInv, DecisionStands, NoLostWakeup
<1>2. QED
  BY <1>1, WaitsKept, MutexesAreHeld, TypeCorrect, PTL DEF Spec

\* The assertion after the wait (query.rs:69) never fails, and a worker that
\* gives up leaves no response behind, whatever handlers do in between.
THEOREM DecisionsStand == Spec => []DecisionStands
BY WaitsAlways, PTL DEF WaitInv

\* No worker sleeps on a response whose notification has gone by.
THEOREM NoWakeupIsLost == Spec => []NoLostWakeup
BY WaitsAlways, PTL DEF WaitInv

-----------------------------------------------------------------------------
(* The critical sections implement the atomic operations of QueryManager.  *)

Resolves(h) == handler[h] \in {"lock_query", "set"}

\* An entry in the hands of a thread has left its map, and is put back by the
\* thread that drains, if by anyone.
InHand ==
    /\ \A h \in Handler : Resolves(h) => pendingResponses[args[h].id] = None
    /\ \A id \in Id : drained[id] # None =>
          pendingRequests[id] = None /\ \E h \in Handler : handler[h] = "draining"

LEMMA InHandKept ==
    ASSUME TypeOK, HandlerHasArgs, MutexInv, InHand, [Next]_vars
    PROVE  InHand'
<1> USE DEF TypeOK, InHand, Resolves, WorkerGoes, HandlerGoes
<1>1. ASSUME UNCHANGED <<pendingRequests, pendingResponses, drained, handler, args>>
      PROVE  InHand'
  BY <1>1
<1>2. ASSUME NEW q \in Query, NEW id \in Id, NEW req \in Request, Insert(q, id, req)
      PROVE  InHand'
  <2>1. \A h \in Handler : handler[h] # "draining"
    BY <1>2, LockConstants DEF Insert, MutexInv, ManagerHeld
  <2>2. QED
    BY <1>2, <2>1 DEF Insert, handlerVars
<1>3. ASSUME NEW q \in Query, WorkerStep(q) \/ Accept(q) \/ Expire(q) \/ SpuriousWake(q),
             ~\E id \in Id, req \in Request : Insert(q, id, req)
      PROVE  InHand'
  BY <1>1, <1>3 DEF WorkerStep, Accept, Expire, SpuriousWake, EnqueueLocks, WaitLocks,
     WaitSatisfied, WaitExpired, Sleep, WakeAtDeadline, Relock, Take, GiveUp, data, handlerVars
<1>4. ASSUME NEW h \in Handler, HandlerCall(h) \/ ResolveLocks(h) \/ LookupFails(h)
      PROVE  InHand'
  BY <1>4 DEF HandlerCall, CallResolve, CallGetPending, ResolveLocks, LookupFails, data
<1>5. ASSUME NEW h \in Handler, Lookup(h)
      PROVE  InHand'
  <2>1. \A g \in Handler \ {h} : ~Resolves(g) /\ ~Resolves(g)'
    BY <1>5 DEF Lookup, MutexInv, ManagerHeld
  <2>2. args[h].id \in Id
    BY <1>5 DEF Lookup, HandlerHasArgs
  <2>3. QED
    BY <1>5, <2>1, <2>2 DEF Lookup
<1>6. ASSUME NEW h \in Handler, LockTarget(h) \/ SetResponse(h) \/ Notify(h) \/ GetPendingLocks(h)
      PROVE  InHand'
  BY <1>6 DEF LockTarget, SetResponse, Notify, GetPendingLocks, data
<1>7. ASSUME NEW h \in Handler, NEW id \in Id, DrainOne(h, id)
      PROVE  InHand'
  BY <1>7 DEF DrainOne, handlerVars
<1>8. ASSUME NEW h \in Handler, DrainEnds(h)
      PROVE  InHand'
  <2>1. \A g \in Handler \ {h} : ~Resolves(g)
    BY <1>8 DEF DrainEnds, MutexInv, ManagerHeld
  <2>2. QED
    BY <1>8, <2>1 DEF DrainEnds, EmptyMap
<1>9. QED
  BY <1>1, <1>2, <1>3, <1>4, <1>5, <1>6, <1>7, <1>8 DEF Next, HandlerStep, vars, data, handlerVars

LockInv == TypeOK /\ HandlerHasArgs /\ MutexInv /\ WaitInv /\ InHand

LEMMA LockInvAlways == Spec => []LockInv
<1>1. Init => InHand
  BY DEF Init, InHand, Resolves, EmptyMap
<1>2. QED
  BY <1>1, InHandKept, TypeCorrect, MutexesAreHeld, WaitsAlways, PTL DEF Spec, LockInv

\* The maps and the phases of the query manager that QueryLocks implements.
Requests == Overlay(pendingRequests, drained)
Responses ==
    [id \in Id |->
        IF \E q \in Resolving(id) : TRUE
        THEN CHOOSE q \in Resolving(id) : TRUE ELSE pendingResponses[id]]
Phases == [q \in Query |-> PhaseOf(q)]

LEMMA NobodyResolves ==
    ASSUME TypeOK, \A h \in Handler : ~Resolves(h)
    PROVE  Responses = pendingResponses
<1>1. \A id \in Id : Resolving(id) = {}
  BY DEF Resolving, Resolves
<1>2. QED
  BY <1>1 DEF Responses, TypeOK

LEMMA OneResolves ==
    ASSUME TypeOK, HandlerHasArgs, ManagerHeld, NEW h \in Handler, Resolves(h)
    PROVE  Responses = [pendingResponses EXCEPT ![args[h].id] = target[h]]
<1>1. \A g \in Handler : Resolves(g) => g = h
  BY DEF ManagerHeld, Resolves
<1>2. Resolving(args[h].id) = {target[h]}
  BY <1>1 DEF Resolving, Resolves
<1>3. \A id \in Id : id # args[h].id => Resolving(id) = {}
  BY <1>1 DEF Resolving, Resolves
<1>4. (CHOOSE q \in {target[h]} : TRUE) = target[h]
  OBVIOUS
<1>5. args[h].id \in Id
  BY DEF HandlerHasArgs, Resolves
<1>6. QED
  BY <1>2, <1>3, <1>4, <1>5 DEF Responses, TypeOK

LEMMA ResponsesNow ==
    TypeOK /\ HandlerHasArgs /\ ManagerHeld =>
        /\ (\A h \in Handler : ~Resolves(h)) => Responses = pendingResponses
        /\ \A h \in Handler : Resolves(h) =>
              Responses = [pendingResponses EXCEPT ![args[h].id] = target[h]]
BY NobodyResolves, OneResolves

LEMMA ResponsesNext ==
    (TypeOK /\ HandlerHasArgs /\ ManagerHeld =>
        /\ (\A h \in Handler : ~Resolves(h)) => Responses = pendingResponses
        /\ \A h \in Handler : Resolves(h) =>
              Responses = [pendingResponses EXCEPT ![args[h].id] = target[h]])'
BY ResponsesNow, PTL

\* Where no entry changes hands and no phase changes, the manager does nothing.
LEMMA Stutters ==
    ASSUME UNCHANGED <<data, Requests, Responses, Phases>>
    PROVE  UNCHANGED Manager!vars
BY DEF data, Requests, Responses, Phases, Manager!vars

\* Locks, unlocks, sleeps and wakeups.
LEMMA WorkerStutters ==
    ASSUME LockInv, NEW q \in Query,
           \/ Accept(q) \/ Expire(q) \/ SpuriousWake(q)
           \/ EnqueueLocks(q) \/ WaitLocks(q) \/ WaitSatisfied(q) \/ WaitExpired(q)
           \/ Sleep(q) \/ WakeAtDeadline(q) \/ Relock(q)
    PROVE  UNCHANGED Manager!vars
<1>1. UNCHANGED <<data, handlerVars, drained>>
  BY DEF Accept, Expire, SpuriousWake, EnqueueLocks, WaitLocks, WaitSatisfied, WaitExpired,
     Sleep, WakeAtDeadline, Relock
<1>2. UNCHANGED <<Requests, Responses>>
  BY <1>1 DEF Requests, Responses, Resolving, Overlay, data, handlerVars
<1>3. /\ worker' \in [Query -> WorkerState] /\ worker \in [Query -> WorkerState]
      /\ \A p \in Query : PhaseOf(p)' = PhaseOf(p)
  <2>1. worker \in [Query -> WorkerState]
    BY DEF LockInv, TypeOK
  <2>2. CASE Accept(q) \/ EnqueueLocks(q) \/ WaitLocks(q) \/ Expire(q)
    BY <2>1, <2>2 DEF Accept, EnqueueLocks, WaitLocks, Expire, WorkerGoes, PhaseOf, WorkerState
  <2>3. CASE SpuriousWake(q) \/ WaitSatisfied(q) \/ WaitExpired(q)
    BY <2>1, <2>3 DEF SpuriousWake, WaitSatisfied, WaitExpired, WorkerGoes, PhaseOf, WorkerState
  <2>4. CASE Sleep(q) \/ WakeAtDeadline(q) \/ Relock(q)
    BY <2>1, <2>4 DEF Sleep, WakeAtDeadline, Relock, WorkerGoes, PhaseOf, WorkerState
  <2>5. QED
    BY <2>2, <2>3, <2>4
<1>4. UNCHANGED Phases
  BY <1>3 DEF Phases
<1>5. QED
  BY <1>1, <1>2, <1>4, Stutters

LEMMA InsertEnqueues ==
    ASSUME LockInv, NEW q \in Query, NEW id \in Id, NEW req \in Request, Insert(q, id, req)
    PROVE  Manager!EnqueueQuery(q, id, req)
<1> USE DEF LockInv, TypeOK
<1>1. \A h \in Handler : ~Resolves(h) /\ handler[h] # "draining"
  BY LockConstants DEF Insert, WorkerGoes, MutexInv, ManagerHeld, Resolves
<1>2. Responses = pendingResponses /\ Responses' = Responses
  <2>1. Responses = pendingResponses
    BY <1>1, NobodyResolves
  <2>2. Responses' = Responses
    BY DEF Insert, Responses, Resolving, handlerVars
  <2>3. QED
    BY <2>1, <2>2
<1>3. drained = EmptyMap
  BY <1>1 DEF InHand, EmptyMap
<1>4. Requests = pendingRequests /\ Requests' = pendingRequests'
  BY <1>3 DEF Insert, Requests, Overlay, EmptyMap
<1>5. Phases[q] = "idle" /\ Phases' = [Phases EXCEPT ![q] = "waiting"]
  <2>1. PhaseOf(q) = "idle" /\ PhaseOf(q)' = "waiting"
    BY DEF Insert, WorkerGoes, PhaseOf
  <2>2. \A p \in Query \ {q} : PhaseOf(p)' = PhaseOf(p)
    BY DEF Insert, WorkerGoes, PhaseOf
  <2>3. QED
    BY <2>1, <2>2 DEF Phases
<1>6. /\ Phases[q] = "idle"
      /\ Requests[id] = None /\ Responses[id] = None
      /\ Requests' = [Requests EXCEPT ![id] = q]
      /\ request' = [request EXCEPT ![q] = req]
      /\ response' = [response EXCEPT ![q] = None]
      /\ Phases' = [Phases EXCEPT ![q] = "waiting"]
      /\ UNCHANGED <<Responses, answer>>
  BY <1>2, <1>4, <1>5 DEF Insert
<1>7. QED
  BY <1>6 DEF Manager!EnqueueQuery, Manager!UnusedId, Requests, Responses, Phases

LEMMA WaitEnds ==
    ASSUME LockInv, NEW q \in Query, Take(q) \/ GiveUp(q)
    PROVE  Manager!WaitReturn(q) \/ Manager!WaitTimeout(q)
<1> USE DEF LockInv, TypeOK
<1>1. UNCHANGED <<Requests, Responses>>
  <2>1. UNCHANGED <<pendingRequests, pendingResponses, drained, handler, args, target>>
    BY DEF Take, GiveUp, data, handlerVars
  <2>2. QED
    BY <2>1 DEF Requests, Responses, Resolving, Overlay
<1>2. CASE Take(q)
  <2>1. PhaseOf(q) = "waiting" /\ PhaseOf(q)' = "answered"
    BY <1>2 DEF Take, WorkerGoes, PhaseOf
  <2>2. \A p \in Query \ {q} : PhaseOf(p)' = PhaseOf(p)
    BY <1>2 DEF Take, WorkerGoes, PhaseOf
  <2>3. /\ Phases[q] = "waiting" /\ response[q] # None
        /\ answer' = [answer EXCEPT ![q] = response[q]]
        /\ response' = [response EXCEPT ![q] = None]
        /\ Phases' = [Phases EXCEPT ![q] = "answered"]
        /\ UNCHANGED request
    BY <1>2, <2>1, <2>2 DEF Take, WorkerGoes, WaitInv, DecisionStands, Phases
  <2>4. QED
    BY <1>1, <2>3 DEF Manager!WaitReturn, Requests, Responses, Phases
<1>3. CASE GiveUp(q)
  <2>1. PhaseOf(q) = "waiting" /\ PhaseOf(q)' = "timeout"
    BY <1>3 DEF GiveUp, WorkerGoes, PhaseOf
  <2>2. \A p \in Query \ {q} : PhaseOf(p)' = PhaseOf(p)
    BY <1>3 DEF GiveUp, WorkerGoes, PhaseOf
  <2>3. /\ Phases[q] = "waiting" /\ response[q] = None
        /\ Phases' = [Phases EXCEPT ![q] = "timeout"]
        /\ UNCHANGED <<request, response, answer>>
    BY <1>3, <2>1, <2>2 DEF GiveUp, WorkerGoes, WaitInv, DecisionStands, Phases, data
  <2>4. QED
    BY <1>1, <2>3 DEF Manager!WaitTimeout, Requests, Responses, Phases
<1>4. QED
  BY <1>2, <1>3

LEMMA HandlerStutters ==
    ASSUME LockInv, NEW h \in Handler,
           \/ HandlerCall(h) \/ ResolveLocks(h) \/ LookupFails(h) \/ LockTarget(h) \/ Notify(h)
           \/ GetPendingLocks(h)
    PROVE  UNCHANGED Manager!vars
<1> USE DEF LockInv, TypeOK
<1>1. UNCHANGED <<data, drained>>
  BY DEF HandlerCall, CallResolve, CallGetPending, ResolveLocks, LookupFails, LockTarget,
     Notify, GetPendingLocks
<1>2. UNCHANGED Requests
  BY <1>1 DEF Requests, Overlay, data
<1>3. \A id \in Id : Resolving(id)' = Resolving(id)
  <2>1. ASSUME NEW g \in Handler
        PROVE  /\ Resolves(g)' = Resolves(g)
               /\ Resolves(g) => args'[g] = args[g] /\ target'[g] = target[g]
    BY DEF HandlerCall, CallResolve, CallGetPending, ResolveLocks, LookupFails, LockTarget,
       Notify, GetPendingLocks, HandlerGoes, Resolves
  <2>2. QED
    BY <2>1 DEF Resolving, Resolves
<1>4. UNCHANGED Responses
  BY <1>1, <1>3 DEF Responses, data
<1>5. \A q \in Query : PhaseOf(q)' = PhaseOf(q)
  BY DEF HandlerCall, CallResolve, CallGetPending, ResolveLocks, LookupFails, LockTarget,
     Notify, GetPendingLocks, HandlerHasArgs, PhaseOf
<1>6. QED
  BY <1>1, <1>2, <1>4, <1>5, Stutters DEF Phases

LEMMA LookupStutters ==
    ASSUME LockInv, LockInv', NEW h \in Handler, Lookup(h)
    PROVE  UNCHANGED Manager!vars
<1> USE DEF LockInv, MutexInv
<1>1. Responses = pendingResponses
  <2>1. \A g \in Handler : ~Resolves(g)
    BY DEF Lookup, HandlerGoes, ManagerHeld, Resolves
  <2>2. QED
    BY <2>1, NobodyResolves
<1>2. Responses' = [pendingResponses' EXCEPT ![args[h].id] = pendingResponses[args[h].id]]
  <2>1. /\ Resolves(h)' /\ args' = args
        /\ target'[h] = pendingResponses[args[h].id]
    BY DEF Lookup, HandlerGoes, Resolves, TypeOK
  <2>2. QED
    BY <2>1, ResponsesNext
<1>3. UNCHANGED Responses
  BY <1>1, <1>2 DEF Lookup, TypeOK
<1>4. UNCHANGED <<Requests, Phases, pendingRequests, request, response, answer>>
  BY DEF Lookup, Requests, Phases, PhaseOf
<1>5. QED
  BY <1>3, <1>4 DEF Requests, Responses, Phases, Manager!vars

LEMMA SetResponseResolves ==
    ASSUME LockInv, LockInv', NEW h \in Handler, SetResponse(h)
    PROVE  \E id \in Id, r \in Response : Manager!ResolveQuery(id, r)
<1> USE DEF LockInv, MutexInv, TypeOK
<1>1. Resolves(h) /\ args[h].id \in Id /\ target[h] \in Query
  BY DEF SetResponse, HandlerGoes, Resolves, HandlerHasArgs
<1>2. Responses = [pendingResponses EXCEPT ![args[h].id] = target[h]]
  BY <1>1, OneResolves
<1>3. Responses' = pendingResponses
  <2>1. \A g \in Handler : ~Resolves(g)'
    BY DEF SetResponse, HandlerGoes, ManagerHeld, Resolves
  <2>2. QED
    BY <2>1, ResponsesNext DEF SetResponse
<1>4. pendingResponses[args[h].id] = None
  BY <1>1 DEF InHand
<1>5. /\ Responses[args[h].id] # None
      /\ Responses' = [Responses EXCEPT ![args[h].id] = None]
      /\ response' = [response EXCEPT ![Responses[args[h].id]] = args[h].response]
  BY <1>1, <1>2, <1>3, <1>4, Nothing DEF SetResponse
<1>6. UNCHANGED <<Requests, Phases, request, answer>>
  BY DEF SetResponse, Requests, Phases, PhaseOf
<1>7. PICK id \in Id, r \in Response : id = args[h].id /\ r = args[h].response
  BY DEF SetResponse, HandlerGoes, HandlerHasArgs
<1>8. Manager!ResolveKnown(id, r)
  BY <1>5, <1>6, <1>7 DEF Manager!ResolveKnown, Requests, Responses, Phases
<1>9. QED
  BY <1>8 DEF Manager!ResolveQuery

LEMMA DrainOneStutters ==
    ASSUME LockInv, NEW h \in Handler, NEW id \in Id, DrainOne(h, id)
    PROVE  UNCHANGED Manager!vars
<1> USE DEF LockInv, TypeOK
<1>1. drained[id] = None
  BY DEF DrainOne, InHand
<1>2. UNCHANGED Requests
  BY <1>1, Nothing DEF DrainOne, Requests, Overlay
<1>3. UNCHANGED Responses
  BY DEF DrainOne, Responses, Resolving, handlerVars
<1>4. UNCHANGED <<Phases, request, response, answer>>
  BY DEF DrainOne, Phases, PhaseOf
<1>5. QED
  BY <1>2, <1>3, <1>4 DEF Requests, Responses, Phases, Manager!vars

LEMMA DrainEndsGets ==
    ASSUME LockInv, LockInv', NEW h \in Handler, DrainEnds(h)
    PROVE  Manager!GetPendingRequests
<1> USE DEF LockInv, MutexInv
<1>1. \A g \in Handler : ~Resolves(g) /\ ~Resolves(g)'
  BY DEF DrainEnds, HandlerGoes, ManagerHeld, Resolves, TypeOK
<1>2. Responses = pendingResponses /\ Responses' = pendingResponses'
  BY <1>1, NobodyResolves, ResponsesNext
<1>3. Requests = drained /\ Requests' = EmptyMap
  BY DEF DrainEnds, Requests, Overlay, EmptyMap, TypeOK
<1>4. Responses' = Overlay(Responses, Requests)
  BY <1>2, <1>3 DEF DrainEnds
<1>5. UNCHANGED <<Phases, request, response, answer>>
  BY DEF DrainEnds, Phases, PhaseOf
<1>6. QED
  BY <1>3, <1>4, <1>5
  DEF Manager!GetPendingRequests, Manager!Inserted, Manager!EmptyMap, EmptyMap, Overlay,
      Requests, Responses, Phases

LEMMA StepImplements ==
    LockInv /\ LockInv' /\ [Next]_vars => [Manager!Next]_(Manager!vars)
<1> SUFFICES ASSUME LockInv, LockInv', [Next]_vars
             PROVE  Manager!Next \/ UNCHANGED Manager!vars
  OBVIOUS
<1>1. ASSUME UNCHANGED vars
      PROVE  UNCHANGED Manager!vars
  BY <1>1, Stutters DEF vars, data, handlerVars, Requests, Responses, Resolving, Phases,
     PhaseOf, Overlay
<1>2. ASSUME NEW q \in Query, WorkerStep(q) \/ Accept(q) \/ Expire(q) \/ SpuriousWake(q)
      PROVE  Manager!Next \/ UNCHANGED Manager!vars
  <2>1. CASE \E id \in Id, req \in Request : Insert(q, id, req)
    BY <2>1, InsertEnqueues DEF Manager!Next
  <2>2. CASE Take(q) \/ GiveUp(q)
    BY <2>2, WaitEnds DEF Manager!Next
  <2>3. QED
    BY <1>2, <2>1, <2>2, WorkerStutters DEF WorkerStep
<1>3. ASSUME NEW h \in Handler, HandlerStep(h) \/ HandlerCall(h)
      PROVE  Manager!Next \/ UNCHANGED Manager!vars
  <2>1. CASE SetResponse(h)
    BY <2>1, SetResponseResolves DEF Manager!Next
  <2>2. CASE DrainEnds(h)
    BY <2>2, DrainEndsGets DEF Manager!Next
  <2>3. CASE Lookup(h) \/ \E id \in Id : DrainOne(h, id)
    BY <2>3, LookupStutters, DrainOneStutters
  <2>4. QED
    BY <1>3, <2>1, <2>2, <2>3, HandlerStutters DEF HandlerStep
<1>4. QED
  BY <1>1, <1>2, <1>3 DEF Next

\* However the threads interleave, the locking scheme of query.rs behaves as the
\* atomic operations that QueryManager, and with it Mirror, is built from.
THEOREM LocksImplementManager == Spec => ImplementsManager
<1>1. Init => Manager!Init
  <2> SUFFICES ASSUME Init PROVE Manager!Init
    OBVIOUS
  <2>1. Requests = EmptyMap /\ Responses = EmptyMap
    BY DEF Init, Requests, Responses, Resolving, Overlay, EmptyMap
  <2>2. Phases = [q \in Query |-> "idle"]
    BY DEF Init, Phases, PhaseOf
  <2>3. QED
    BY <2>1, <2>2 DEF Init, Manager!Init, Manager!EmptyMap, EmptyMap, Requests, Responses, Phases
<1>2. QED
  BY <1>1, StepImplements, LockInvAlways, PTL DEF Spec, ImplementsManager, Manager!Spec
=============================================================================
