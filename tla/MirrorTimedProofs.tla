-------------------------- MODULE MirrorTimedProofs --------------------------
(***************************************************************************)
(* Proofs about MirrorTimed, for every length of the durations: with its   *)
(* timers the mirror is still the mirror, so that what is proved of Mirror *)
(* holds here; the limit of a POST comes too late for its client; and it   *)
(* takes a slow wallet to keep a client waiting until its deadline.        *)
(***************************************************************************)
EXTENDS MirrorTimed, MirrorDeliveryProofs, FiniteSetTheorems

LEMMA NothingFails == Reliable
BY Durations DEF Reliable

LEMMA TimedStepIsStep == [TimedNext]_<<vars, timers>> => [Next]_vars
<1> SUFFICES ASSUME TimedNext PROVE Next \/ UNCHANGED vars
  BY DEF timers, clocks
<1>1. CASE Tick \/ SendReturns
  BY <1>1 DEF Tick, SendReturns
<1>2. CASE Instantly
  BY <1>2 DEF Instantly, Next, PublicSide, Environment
<1>3. CASE LoopGoesOn
  BY <1>3 DEF LoopGoesOn, Next, PrivateSide
<1>4. ASSUME NEW q \in Query, DeadlinePasses(q)
      PROVE  Next
  BY <1>4 DEF DeadlinePasses, Next, PublicSide
<1>5. ASSUME NEW c \in Call, SleepEnds(c)
      PROVE  Next
  BY <1>5 DEF SleepEnds, Next, PrivateSide
<1>6. ASSUME NEW id \in Id, PostEnds(id)
      PROVE  Next
  BY <1>6 DEF PostEnds, Next, PrivateSide
<1>7. QED
  BY <1>1, <1>2, <1>3, <1>4, <1>5, <1>6 DEF TimedNext

\* Every behaviour of the mirror with its durations is one of the mirror.
THEOREM TimedMirrorIsAMirror == TimedSpec => Spec
<1>1. TimedInit => Init
  BY DEF TimedInit
<1>2. QED
  BY <1>1, TimedStepIsStep, PTL DEF TimedSpec, Spec

-----------------------------------------------------------------------------

TimersInRange ==
    /\ age \in [Query -> 0..TwoMinutes]
    /\ spent \in 0..(2 * TwoMinutes)
    /\ headAt \in (0..TwoMinutes) \cup {None}
    /\ headAt = None => spent <= TwoMinutes
    /\ longest \in 0..(2 * TwoMinutes)
    /\ limited \subseteq Query

LEMMA TimersStep ==
    ASSUME TypeOK, OneThread, TimersInRange, [TimedNext]_<<vars, timers>>
    PROVE  TimersInRange'
<1> USE Durations DEF TimersInRange, FULL_SERVICE_TIMEOUT, QUERY_MAX_DURATION
<1>1. CASE Tick
  <2>1. ASSUME NEW q \in Query PROVE age'[q] \in 0..TwoMinutes
    BY <1>1 DEF Tick, Waiting
  <2>2. spent' \in 0..(2 * TwoMinutes) /\ (headAt = None => spent' <= TwoMinutes)
    BY <1>1 DEF Tick, LongestSleep, PostLimit
  <2>3. QED
    BY <1>1, <2>1, <2>2 DEF Tick
<1>2. CASE \/ Instantly \/ LoopGoesOn
           \/ \E q \in Query : DeadlinePasses(q)
           \/ \E c \in Call : SleepEnds(c)
           \/ UNCHANGED <<vars, timers>>
  BY <1>2 DEF Instantly, LoopGoesOn, DeadlinePasses, SleepEnds, timers, clocks
<1>3. ASSUME NEW id \in Id, PostEnds(id)
      PROVE  TimersInRange'
  <2>1. batch[id] \in Query
    BY <1>3, Nothing DEF PostEnds, WalletReplies, WalletFails, OneThread, TypeOK
  <2>2. QED
    BY <1>3, <2>1 DEF PostEnds, LongestPost
<1>4. CASE SendReturns
  BY <1>4, Nothing DEF SendReturns, clocks
<1>5. QED
  BY <1>1, <1>2, <1>3, <1>4 DEF TimedNext

\* No deadline is missed, and a POST lasts no longer than the limits of its two calls,
\* send() and text(), one after the other.
THEOREM TimersAreBounded == TimedSpec => []TimedTypeOK
<1>1. TimedInit => TimersInRange
  BY Durations DEF TimedInit, TimersInRange
<1>2. TypeOK /\ OneThread /\ TimersInRange /\ [TimedNext]_<<vars, timers>> => TimersInRange'
  BY TimersStep
<1>3. TypeOK /\ TimersInRange => TimedTypeOK
  BY Durations DEF TimersInRange, TimedTypeOK, QUERY_MAX_DURATION, FULL_SERVICE_TIMEOUT, LongestSleep
<1>4. QED
  BY <1>1, <1>2, <1>3, TimedMirrorIsAMirror, TypeCorrect, OneThreadAlways, PTL DEF TimedSpec

-----------------------------------------------------------------------------

\* The POST is for a client that has been waiting for at least as long.
PostIsYounger ==
    posting # None /\ phase[batch[posting]] = "waiting" => spent <= age[batch[posting]]

\* A client whose POST was ended by the limit is at its deadline, and the loop has
\* not slept since: it cannot have delivered the error.
AtTheDeadline(q) ==
    /\ phase[q] = "waiting" /\ response[q] = None
    /\ age[q] = TwoMinutes
    /\ awaiting = None /\ spent = 0

LimitedAreLate == \A q \in limited : phase[q] = "timeout" \/ AtTheDeadline(q)

\* What is proved of Mirror, as far as it is needed here.
Known ==
    /\ TypeOK /\ OneThread /\ OnceInv /\ ReliableInv /\ InWork
    /\ QM!MapsConsistent /\ TimersInRange

\* The query of a POST is unresolved.
LEMMA PostedIsUnresolved ==
    ASSUME Known, NEW id \in Id, posting = id
    PROVE  /\ batch[id] \in Query /\ awaiting = None
           /\ phase[batch[id]] \in {"waiting", "timeout"} /\ response[batch[id]] = None
<1>1. batch[id] \in Query /\ batch[id] # None /\ awaiting = None
  BY Nothing DEF Known, OneThread, TypeOK
<1>2. pendingResponses[id] = batch[id]
  BY <1>1 DEF Known, InWork
<1>3. batch[id] \in QM!Entries(pendingResponses)
  BY <1>1, <1>2 DEF QM!Entries, QM!Keys
<1>4. QED
  BY <1>1, <1>3 DEF Known, QM!MapsConsistent, QM!EntriesUnresolved

LEMMA YoungerStep ==
    ASSUME Known, PostIsYounger, [TimedNext]_<<vars, timers>>
    PROVE  PostIsYounger'
<1>t. /\ posting \in Id \cup {None} /\ batch \in [Id -> Query \cup {None}]
      /\ age \in [Query -> Nat] /\ spent \in Nat
      /\ phase \in [Query -> QM!Phase]
      /\ posting # None => batch[posting] \in Query
  BY Durations DEF Known, OneThread, TypeOK, QM!TypeOK, TimersInRange
<1>1. CASE Tick
  <2>1. CASE posting # None /\ phase[batch[posting]] = "waiting"
    BY <1>1, <1>t, <2>1 DEF Tick, Waiting, vars, qmVars, privateVars, PostIsYounger
  <2>2. CASE ~(posting # None /\ phase[batch[posting]] = "waiting")
    BY <1>1, <2>2 DEF Tick, vars, qmVars, privateVars, PostIsYounger
  <2>3. QED
    BY <2>1, <2>2
<1>2. CASE spent' = 0 /\ age' = age /\ TypeOK' /\ OneThread'
  BY <1>2, <1>t DEF OneThread, TypeOK, PostIsYounger
<1>3. ASSUME NEW p \in Query, NEW i \in Id, NEW req \in Request, HttpRequest(p, i, req),
             UNCHANGED clocks
      PROVE  PostIsYounger'
  <2>1. phase[p] = "idle" /\ phase' = [phase EXCEPT ![p] = "waiting"]
        /\ UNCHANGED <<batch, posting, age, spent>>
    BY <1>3 DEF HttpRequest, QM!EnqueueQuery, privateVars, timers, clocks
  <2>2. posting # None => batch[posting] # p
    BY <2>1, <1>t DEF Known, OnceInv, NotPostedYet
  <2>3. QED
    BY <2>1, <2>2, <1>t DEF PostIsYounger
<1>4. ASSUME NEW p \in Query, WaitReturn(p) \/ WaitTimeout(p), UNCHANGED clocks
      PROVE  PostIsYounger'
  <2>1. UNCHANGED <<batch, posting, age, spent>>
        /\ \A q \in Query : phase'[q] = "waiting" => phase[q] = "waiting"
    BY <1>4, <1>t DEF WaitReturn, WaitTimeout, QM!WaitReturn, QM!WaitTimeout, privateVars, clocks
  <2>2. QED
    BY <2>1, <1>t DEF PostIsYounger
<1>5. CASE /\ \/ \E q \in Query : WalletExecute(q)
              \/ \E c \in Call : PollArrives(c) \/ ReplyToPoll(c) \/ Poll(c)
              \/ \E c \in Call, id \in Id : ResolveResponse(c, id)
              \/ UNCHANGED vars
           /\ UNCHANGED clocks
  <2>1. UNCHANGED <<batch, posting, phase, age, spent>>
    BY <1>5 DEF WalletExecute, PollArrives, ReplyToPoll, Poll, ResolveResponse,
       QM!GetPendingRequests, QM!ResolveQuery, QM!ResolveUnknown, QM!ResolveKnown, QM!vars,
       vars, qmVars, privateVars, timers, clocks
  <2>2. QED
    BY <2>1 DEF PostIsYounger
<1>6. CASE LoopGoesOn \/ \E id \in Id : PostEnds(id)
  <2>1. spent' = 0 /\ age' = age
    BY <1>6 DEF LoopGoesOn, PostEnds
  <2>2. TypeOK' /\ OneThread'
    BY TimedStepIsStep, TypeStep, OneThreadStep DEF Known
  <2>3. QED
    BY <1>2, <2>1, <2>2
<1>7. CASE Instantly
  BY <1>3, <1>4, <1>5, <1>7 DEF Instantly, timers
<1>8. CASE \/ \E q \in Query : DeadlinePasses(q)
           \/ \E c \in Call : SleepEnds(c)
           \/ SendReturns
           \/ UNCHANGED <<vars, timers>>
  BY <1>4, <1>5, <1>8 DEF DeadlinePasses, SleepEnds, SendReturns, timers
<1>9. QED
  BY <1>1, <1>6, <1>7, <1>8 DEF TimedNext

LEMMA LateStep ==
    ASSUME Known, PostIsYounger, LimitedAreLate, [TimedNext]_<<vars, timers>>
    PROVE  LimitedAreLate'
<1>t. /\ limited \subseteq Query /\ spent \in Nat
      /\ age \in [Query -> 0..TwoMinutes]
      /\ phase \in [Query -> QM!Phase] /\ response \in [Query -> MaybeResponse]
      /\ None \notin Call /\ TwoMinutes \in Nat
  BY Durations, Nothing DEF Known, TypeOK, QM!TypeOK, TimersInRange, MaybeResponse
\* Nobody's place changes when the loop does not reach its poll.
<1>1. ASSUME UNCHANGED <<phase, response, age>>, spent' \in {spent, 0},
             awaiting' \in {awaiting, None}, limited' = limited
      PROVE  LimitedAreLate'
  BY <1>1 DEF LimitedAreLate, AtTheDeadline
<1>2. CASE Tick
  BY <1>2, <1>t DEF Tick, Waiting, QUERY_MAX_DURATION, vars, qmVars, LimitedAreLate, AtTheDeadline
<1>3. ASSUME NEW p \in Query, NEW i \in Id, NEW req \in Request, HttpRequest(p, i, req),
             UNCHANGED clocks
      PROVE  LimitedAreLate'
  <2>1. phase[p] = "idle" /\ UNCHANGED <<awaiting, age, spent, limited>>
        /\ \A q \in Query \ {p} : phase'[q] = phase[q] /\ response'[q] = response[q]
    BY <1>3, <1>t DEF HttpRequest, QM!EnqueueQuery, privateVars, timers, clocks
  <2>2. p \notin limited
    BY <2>1 DEF LimitedAreLate, AtTheDeadline
  <2>3. QED
    BY <2>1, <2>2, <1>t DEF LimitedAreLate, AtTheDeadline
<1>4. ASSUME NEW p \in Query, WaitReturn(p) \/ WaitTimeout(p), UNCHANGED clocks
      PROVE  LimitedAreLate'
  <2>1. UNCHANGED <<awaiting, age, spent, limited>>
        /\ \A q \in Query \ {p} : phase'[q] = phase[q] /\ response'[q] = response[q]
    BY <1>4, <1>t DEF WaitReturn, WaitTimeout, QM!WaitReturn, QM!WaitTimeout, privateVars, clocks
  <2>2. p \in limited => phase'[p] = "timeout"
    BY <1>4, <1>t DEF WaitReturn, WaitTimeout, QM!WaitReturn, QM!WaitTimeout,
       LimitedAreLate, AtTheDeadline
  <2>3. QED
    BY <2>1, <2>2, <1>t DEF LimitedAreLate, AtTheDeadline
<1>5. ASSUME NEW c \in Call, NEW i \in Id, ResolveResponse(c, i), UNCHANGED clocks
      PROVE  LimitedAreLate'
  <2>1. awaiting # None
    BY <1>5, <1>t DEF ResolveResponse, Known, ReliableInv, OneCall
  <2>2. \A q \in limited : phase[q] = "timeout"
    BY <2>1 DEF LimitedAreLate, AtTheDeadline
  <2>3. phase' = phase /\ limited' = limited
    BY <1>5 DEF ResolveResponse, QM!ResolveQuery, QM!ResolveUnknown, QM!ResolveKnown, QM!vars, clocks
  <2>4. QED
    BY <2>2, <2>3 DEF LimitedAreLate
<1>6. CASE /\ \/ \E q \in Query : WalletExecute(q)
              \/ \E c \in Call : PollArrives(c) \/ ReplyToPoll(c)
              \/ UNCHANGED vars
           /\ UNCHANGED clocks
  <2>1. UNCHANGED <<phase, response, age, spent, awaiting, limited>>
    BY <1>6 DEF WalletExecute, PollArrives, ReplyToPoll, QM!GetPendingRequests,
       vars, qmVars, privateVars, timers, clocks
  <2>2. QED
    BY <1>1, <2>1
<1>7. CASE Instantly
  BY <1>3, <1>4, <1>5, <1>6, <1>7 DEF Instantly, timers
<1>8. ASSUME NEW c \in Call, SleepEnds(c)
      PROVE  LimitedAreLate'
  <2>1. spent # 0
    BY <1>8, <1>t, Durations DEF SleepEnds
  <2>2. \A q \in limited : phase[q] = "timeout"
    BY <2>1 DEF LimitedAreLate, AtTheDeadline
  <2>3. phase' = phase /\ limited' = limited
    BY <1>8 DEF SleepEnds, Poll, qmVars, timers, clocks
  <2>4. QED
    BY <2>2, <2>3 DEF LimitedAreLate
<1>9. CASE LoopGoesOn
  <2>1. UNCHANGED <<phase, response, age, limited>> /\ spent' = 0 /\ awaiting' \in {awaiting, None}
    BY <1>9 DEF LoopGoesOn, PollOk, Refuse, Forward, qmVars
  <2>2. QED
    BY <1>1, <2>1
<1>10. ASSUME NEW id \in Id, PostEnds(id)
       PROVE  LimitedAreLate'
  <2>1. UNCHANGED <<phase, response, age, awaiting>> /\ spent' = 0 /\ posting = id
    BY <1>10 DEF PostEnds, WalletReplies, WalletFails, qmVars
  <2>2. \A q \in limited : phase'[q] = "timeout" \/ AtTheDeadline(q)'
    BY <2>1 DEF LimitedAreLate, AtTheDeadline
  <2>3. ASSUME NEW q \in limited', q \notin limited
        PROVE  phase'[q] = "timeout" \/ AtTheDeadline(q)'
    <3>1. q = batch[id] /\ spent >= TwoMinutes
      <4>1. q = batch[id] /\ spent = PostLimit
        BY <1>10, <2>3 DEF PostEnds
      <4>2. PostLimit >= TwoMinutes
        BY <1>t DEF Known, TimersInRange, PostLimit, FULL_SERVICE_TIMEOUT
      <4>3. QED
        BY <4>1, <4>2
    <3>2. /\ q \in Query /\ awaiting = None
          /\ phase[q] \in {"waiting", "timeout"} /\ response[q] = None
      BY <2>1, <3>1, PostedIsUnresolved
    <3>3. phase[q] = "waiting" => age[q] = TwoMinutes
      BY <2>1, <3>1, <3>2, <1>t, Nothing DEF PostIsYounger
    <3>4. QED
      BY <2>1, <3>2, <3>3 DEF AtTheDeadline
  <2>4. QED
    BY <2>2, <2>3 DEF LimitedAreLate
<1>11. CASE (\E q \in Query : DeadlinePasses(q)) \/ SendReturns \/ UNCHANGED <<vars, timers>>
  BY <1>4, <1>6, <1>11 DEF DeadlinePasses, SendReturns, timers
<1>12. QED
  BY <1>2, <1>7, <1>8, <1>9, <1>10, <1>11 DEF TimedNext

LEMMA KnownAlways == TimedSpec => []Known
<1>1. TimedInit => TimersInRange
  BY Durations DEF TimedInit, TimersInRange
<1>2. TypeOK /\ OneThread /\ TimersInRange /\ [TimedNext]_<<vars, timers>> => TimersInRange'
  BY TimersStep
<1>3. TimedSpec => []TimersInRange
  BY <1>1, <1>2, TimedMirrorIsAMirror, TypeCorrect, OneThreadAlways, PTL DEF TimedSpec
<1>4. Spec => [](ReliableInv /\ InWork)
  BY NothingFails, ReliableAlways, InWorkAlways, PTL
<1>5. TypeOK /\ OneThread /\ OnceInv /\ (ReliableInv /\ InWork) /\ QM!MapsConsistent
        /\ TimersInRange => Known
  BY DEF Known
<1>6. QED
  BY <1>3, <1>4, <1>5, TimedMirrorIsAMirror, TypeCorrect, OneThreadAlways, OnceAlways,
     ManagerIsConsistent, PTL

\* However long the interval and the two minutes are, the error a POST ends with at
\* its limit reaches no client: the client's deadline is before the next poll.
THEOREM LimitErrorsReachNobody == TimedSpec => []LimitErrorsComeTooLate
<1>1. TimedInit => PostIsYounger /\ LimitedAreLate
  BY DEF TimedInit, Init, PostIsYounger, LimitedAreLate
<1>2. Known /\ PostIsYounger /\ LimitedAreLate /\ [TimedNext]_<<vars, timers>>
        => PostIsYounger' /\ LimitedAreLate'
  BY YoungerStep, LateStep
<1>3. LimitedAreLate => LimitErrorsComeTooLate
  BY DEF LimitedAreLate, AtTheDeadline, LimitErrorsComeTooLate
<1>4. QED
  BY <1>1, <1>2, <1>3, KnownAlways, PTL DEF TimedSpec

-----------------------------------------------------------------------------
(* Nobody times out while the wallet is fast.  The invariant bounds the age*)
(* of every query by the place it is in.                                   *)

\* The responses the polling loop holds: one for each request it has worked off
\* since its last poll.
Responded == {id \in Id : mirrorResponses[id] # None}

\* For how long, at most, the loop has been at its batch, with the sleep after it.
Round == Cardinality(Responded) * LongestPost + spent

\* The age at which a request is handed over: it has waited for those of the other
\* workers and for a sleep.
Handover == (NumWorkers - 1) * LongestPost + LongestSleep

\* The age at which its response is delivered: a round with everybody's later.
Return == Handover + NumWorkers * LongestPost + LongestSleep

Replied == awaiting # None /\ call[awaiting].state = "replied"

QueuedAge == IF awaiting = None THEN Round ELSE IF Replied THEN 0 ELSE Handover
SentAge == IF awaiting = None THEN Handover + Round
           ELSE IF Replied THEN Handover ELSE Return

AgesBounded ==
    \A id \in Id :
        /\ pendingRequests[id] # None => age[pendingRequests[id]] <= QueuedAge
        /\ pendingResponses[id] # None => age[pendingResponses[id]] <= SentAge

NobodyTimedOut == \A q \in Query : phase[q] # "timeout"

WalletIsSlow == Return >= TwoMinutes

AgeInv == WalletIsSlow \/ (NobodyTimedOut /\ AgesBounded)

\* The loop works off its batch without a pause.
NoPause ==
    posting = None => /\ spent <= LongestSleep
                      /\ (\E id \in Id : batch[id] # None) => spent = 0

UnbornAreYoung == \A q \in Query : phase[q] = "idle" => age[q] = 0

WorkersSuffice == IsFiniteSet(Waiting) /\ Cardinality(Waiting) <= NumWorkers

\* Until it polls, what the loop holds has its entries.
HeldHaveEntries ==
    awaiting = None => \A id \in Id : mirrorResponses[id] # None =>
        pendingResponses[id] = mirrorResponses[id].of

LoopInv == NoPause /\ UnbornAreYoung /\ WorkersSuffice /\ HeldHaveEntries

LEMMA InjectionCounts ==
    ASSUME NEW S, NEW T, IsFiniteSet(T), NEW f \in [S -> T],
           \A x, y \in S : f[x] = f[y] => x = y
    PROVE  IsFiniteSet(S) /\ Cardinality(S) <= Cardinality(T)
<1>1. f \in Injection(S, T)
  BY DEF Injection, IsInjective
<1>2. QED
  BY <1>1, FS_Injection

LEMMA TimesOrdered ==
    ASSUME NEW a \in Nat, NEW b \in Nat, NEW m \in Nat, NEW n \in Nat, a <= b, m <= n
    PROVE  a * m \in Nat /\ a * m <= b * n
<1>1. PICK d \in Nat : b = a + d
  <2>1. b - a \in Nat /\ b = a + (b - a)
    OBVIOUS
  <2>2. QED
    BY <2>1
<1>2. PICK e \in Nat : n = m + e
  <2>1. n - m \in Nat /\ n = m + (n - m)
    OBVIOUS
  <2>2. QED
    BY <2>1
<1>3. b * n = a * m + a * e + d * m + d * e
  BY <1>1, <1>2
<1>4. a * m \in Nat /\ a * e \in Nat /\ d * m \in Nat /\ d * e \in Nat
  OBVIOUS
<1>5. QED
  BY <1>3, <1>4

LEMMA TimesNext ==
    ASSUME NEW a \in Nat, NEW m \in Nat
    PROVE  (a + 1) * m = a * m + m
OBVIOUS

-----------------------------------------------------------------------------

LEMMA LoopInvStep ==
    ASSUME Known, LoopInv, [TimedNext]_<<vars, timers>>
    PROVE  LoopInv'
<1>t. /\ spent \in Nat /\ age \in [Query -> Nat] /\ LongestSleep \in Nat
      /\ phase \in [Query -> QM!Phase]
      /\ NumWorkers \in Nat \ {0} /\ None \notin Call
  BY Durations, MirrorConstants, Nothing
  DEF Known, TypeOK, QM!TypeOK, TimersInRange, LongestSleep
<1>1. NoPause'
  <2>1. CASE Tick
    BY <1>t, <2>1 DEF Tick, LoopInv, NoPause, QM!EmptyMap, vars, privateVars
  <2>2. CASE spent' = 0
    BY <1>t, <2>2 DEF NoPause, LongestSleep
  <2>3. CASE UNCHANGED <<posting, batch, spent>>
    BY <2>3 DEF LoopInv, NoPause, LongestSleep
  <2>4. CASE Instantly
    BY <2>3, <2>4 DEF Instantly, HttpRequest, WaitReturn, WalletExecute, PollArrives, ReplyToPoll,
       ResolveResponse, privateVars, timers, clocks
  <2>5. CASE LoopGoesOn \/ \E id \in Id : PostEnds(id)
    BY <2>2, <2>5 DEF LoopGoesOn, PostEnds
  <2>6. CASE \/ \E q \in Query : DeadlinePasses(q)
             \/ \E c \in Call : SleepEnds(c)
             \/ SendReturns \/ UNCHANGED <<vars, timers>>
    BY <2>3, <2>6 DEF DeadlinePasses, SleepEnds, SendReturns, WaitTimeout, Poll, vars, privateVars,
       timers, clocks
  <2>7. QED
    BY <2>1, <2>4, <2>5, <2>6 DEF TimedNext
<1>2. UnbornAreYoung'
  <2>1. \A q \in Query : phase'[q] = "idle" => phase[q] = "idle" /\ age'[q] = age[q]
    <3>1. CASE Tick
      BY <1>t, <3>1 DEF Tick, Waiting, vars, qmVars
    <3>2. age' = age \/ Tick
      BY DEF TimedNext, Instantly, LoopGoesOn, SendReturns, DeadlinePasses, SleepEnds, PostEnds,
         timers, clocks
    <3>3. \A q \in Query : phase'[q] = "idle" => phase[q] = "idle"
      BY TimedStepIsStep, NeedFades, TypesOfTypeOK DEF Known
    <3>4. QED
      BY <3>1, <3>2, <3>3
  <2>2. QED
    BY <2>1 DEF LoopInv, UnbornAreYoung
<1>3. WorkersSuffice'
  <2>1. ASSUME NEW p \in Query, NEW i \in Id, NEW req \in Request, HttpRequest(p, i, req)
        PROVE  WorkersSuffice'
    <3>1. Waiting' = Waiting \cup {p}
      BY <1>t, <2>1 DEF HttpRequest, QM!EnqueueQuery, Waiting
    <3>2. IsFiniteSet(Waiting) /\ Cardinality(Waiting) < NumWorkers
      BY <1>t, <2>1, FS_CardinalityType DEF HttpRequest, Saturated, LoopInv, WorkersSuffice
    <3>3. /\ IsFiniteSet(Waiting \cup {p}) /\ Cardinality(Waiting) \in Nat
          /\ Cardinality(Waiting \cup {p}) \in {Cardinality(Waiting), Cardinality(Waiting) + 1}
      <4>1. IsFiniteSet(Waiting) /\ Cardinality(Waiting) \in Nat
        BY <3>2, FS_CardinalityType
      <4>2. QED
        BY <4>1, FS_AddElement
    <3>4. QED
      BY <1>t, <3>1, <3>2, <3>3 DEF WorkersSuffice
  <2>2. CASE Waiting' \subseteq Waiting
    BY <1>t, <2>2, FS_Subset, FS_CardinalityType DEF LoopInv, WorkersSuffice
  <2>3. ASSUME NEW p \in Query, WaitReturn(p) \/ WaitTimeout(p)
        PROVE  Waiting' \subseteq Waiting
    BY <1>t, <2>3 DEF WaitReturn, WaitTimeout, QM!WaitReturn, QM!WaitTimeout, Waiting
  <2>4. ASSUME phase' = phase
        PROVE  Waiting' \subseteq Waiting
    BY <2>4 DEF Waiting
  <2>5. CASE Instantly
    BY <2>1, <2>2, <2>3, <2>4, <2>5 DEF Instantly, WalletExecute, PollArrives, ReplyToPoll,
       ResolveResponse, qmVars, QM!GetPendingRequests, QM!ResolveQuery, QM!ResolveUnknown,
       QM!ResolveKnown, QM!vars
  <2>6. CASE \E q \in Query : DeadlinePasses(q)
    BY <2>2, <2>3, <2>6 DEF DeadlinePasses
  <2>7. CASE \/ Tick \/ LoopGoesOn \/ SendReturns \/ UNCHANGED <<vars, timers>>
             \/ \E c \in Call : SleepEnds(c)
             \/ \E id \in Id : PostEnds(id)
    BY <2>2, <2>4, <2>7 DEF Tick, LoopGoesOn, SendReturns, SleepEnds, PostEnds, Poll, PollOk, Refuse, Forward,
       WalletReplies, WalletFails, vars, qmVars
  <2>8. QED
    BY <2>5, <2>6, <2>7 DEF TimedNext
<1>4. HeldHaveEntries'
  <2>1. CASE UNCHANGED <<awaiting, mirrorResponses, pendingResponses>>
    BY <2>1 DEF LoopInv, HeldHaveEntries
  <2>2. CASE awaiting # None /\ awaiting' = awaiting
    BY <2>2 DEF HeldHaveEntries
  <2>3. ASSUME NEW c \in Call, PollArrives(c) \/ ReplyToPoll(c) \/ \E id \in Id : ResolveResponse(c, id)
        PROVE  awaiting # None /\ awaiting' = awaiting
    BY <1>t, <2>3 DEF PollArrives, ReplyToPoll, ResolveResponse, privateVars, Known, ReliableInv, OneCall
  <2>4. CASE Instantly
    BY <2>1, <2>2, <2>3, <2>4 DEF Instantly, HttpRequest, QM!EnqueueQuery, WaitReturn,
       QM!WaitReturn, WalletExecute, qmVars, privateVars
  <2>5. ASSUME NEW c \in Call, SleepEnds(c) \/ PollOk(c)
        PROVE  HeldHaveEntries'
    <3>1. CASE SleepEnds(c)
      BY <1>t, <3>1 DEF SleepEnds, Poll, HeldHaveEntries
    <3>2. CASE PollOk(c)
      <4>1. \A id \in Id : mirrorResponses'[id] = None
        BY <3>2 DEF PollOk, NoResponses
      <4>2. QED
        BY <4>1 DEF HeldHaveEntries
    <3>3. QED
      BY <2>5, <3>1, <3>2
  <2>6. ASSUME NEW i \in Id, Refuse(i) \/ WalletReplies(i) \/ WalletFails(i)
        PROVE  HeldHaveEntries'
    <3>1. batch[i] # None
      BY <2>6, Nothing DEF Refuse, WalletReplies, WalletFails, Known, OneThread
    <3>2. \E type \in ResponseType : Respond(i, type)
      BY <2>6, RequiredType DEF Refuse, WalletReplies, WalletFails
    <3>3. /\ mirrorResponses'[i].of = batch[i]
          /\ \A id \in Id \ {i} : mirrorResponses'[id] = mirrorResponses[id]
      BY <3>1, <3>2, RespondEffect DEF Known
    <3>4. UNCHANGED <<awaiting, pendingResponses>>
      BY <2>6 DEF Refuse, WalletReplies, WalletFails, qmVars
    <3>5. pendingResponses[i] = batch[i]
      BY <3>1 DEF Known, InWork
    <3>6. QED
      BY <3>3, <3>4, <3>5 DEF LoopInv, HeldHaveEntries
  <2>7. CASE LoopGoesOn
    BY <2>1, <2>5, <2>6, <2>7 DEF LoopGoesOn, Forward, qmVars
  <2>8. CASE \E id \in Id : PostEnds(id)
    BY <2>6, <2>8 DEF PostEnds
  <2>9. CASE \/ Tick \/ SendReturns \/ UNCHANGED <<vars, timers>>
             \/ \E q \in Query : DeadlinePasses(q)
    BY <2>1, <2>9 DEF Tick, SendReturns, DeadlinePasses, WaitTimeout, QM!WaitTimeout, vars, qmVars, privateVars
  <2>10. QED
    BY <2>4, <2>5, <2>7, <2>8, <2>9 DEF TimedNext
<1>5. QED
  BY <1>1, <1>2, <1>3, <1>4 DEF LoopInv

-----------------------------------------------------------------------------

\* Between polls every response held, and every request worked on or queued, is of
\* a different waiting client, and so of a different worker.
LEMMA RespondedCount ==
    ASSUME Known, LoopInv, NobodyTimedOut, awaiting = None
    PROVE  /\ IsFiniteSet(Responded) /\ Cardinality(Responded) \in 0..NumWorkers
           /\ \A id \in Id : batch[id] # None \/ pendingRequests[id] # None =>
                 Cardinality(Responded) + 1 <= NumWorkers
<1> DEFINE queryOf == [id \in Responded |-> mirrorResponses[id].of]
<1>t. /\ mirrorResponses \in [Id -> MaybeResponse] /\ batch \in [Id -> MaybeQuery]
      /\ NumWorkers \in Nat \ {0}
  BY MirrorConstants, TypesOfTypeOK DEF Known, Types
<1>1. \A id \in Responded : id \in Id /\ mirrorResponses[id] \in Response
  BY <1>t DEF Responded, MaybeResponse
<1>2. \A id \in Responded : queryOf[id] \in Query /\ pendingResponses[id] = queryOf[id]
  <2>1. \A id \in Responded : mirrorResponses[id].of \in Query
    BY <1>1 DEF Response
  <2>2. \A id \in Responded : pendingResponses[id] = mirrorResponses[id].of
    BY <1>1 DEF Responded, LoopInv, HeldHaveEntries
  <2>3. QED
    BY <2>1, <2>2
<1> HIDE DEF queryOf
<1>f. DOMAIN queryOf = Responded /\ queryOf = [id \in Responded |-> queryOf[id]]
  BY DEF queryOf
<1>3. \A i \in Id : pendingResponses[i] \in Query => pendingResponses[i] \in Waiting
  <2>1. \A i \in Id : pendingResponses[i] \in Query =>
           phase[pendingResponses[i]] \in {"waiting", "timeout"}
    BY Nothing DEF Known, QM!MapsConsistent, QM!EntriesUnresolved, QM!Entries, QM!Keys
  <2>2. QED
    BY <2>1 DEF NobodyTimedOut, Waiting
<1>4. \A i, j \in Id : pendingResponses[i] \in Query /\ pendingResponses[i] = pendingResponses[j] => i = j
  BY Nothing DEF Known, QM!MapsConsistent, QM!OneEntryPerQuery, QM!Keys
<1>5. queryOf \in [Responded -> Waiting]
  BY <1>1, <1>2, <1>3, <1>f
<1>6. \A x, y \in Responded : queryOf[x] = queryOf[y] => x = y
  BY <1>1, <1>2, <1>4
<1>7. IsFiniteSet(Waiting) /\ Cardinality(Waiting) \in Nat /\ Cardinality(Waiting) <= NumWorkers
  BY FS_CardinalityType DEF LoopInv, WorkersSuffice
<1>8. IsFiniteSet(Responded) /\ Cardinality(Responded) <= Cardinality(Waiting)
  BY <1>5, <1>6, <1>7, InjectionCounts
<1>9. Cardinality(Responded) \in 0..NumWorkers
  BY <1>t, <1>7, <1>8, FS_CardinalityType
<1>10. ASSUME NEW q \in Waiting, \A id \in Responded : queryOf[id] # q
       PROVE  Cardinality(Responded) + 1 <= NumWorkers
  <2>1. queryOf \in [Responded -> Waiting \ {q}]
    BY <1>5, <1>10
  <2>2. IsFiniteSet(Waiting \ {q}) /\ Cardinality(Waiting \ {q}) = Cardinality(Waiting) - 1
    BY <1>7, <1>10, FS_RemoveElement
  <2>3. Cardinality(Responded) <= Cardinality(Waiting \ {q})
    BY <1>6, <2>1, <2>2, InjectionCounts
  <2>4. QED
    BY <1>t, <1>7, <1>9, <2>2, <2>3
<1>11. ASSUME NEW id \in Id, batch[id] # None
       PROVE  Cardinality(Responded) + 1 <= NumWorkers
  <2>1. batch[id] \in Query /\ pendingResponses[id] = batch[id]
    BY <1>t, <1>11 DEF MaybeQuery, Known, InWork
  <2>2. id \notin Responded
    BY <1>11 DEF Known, ReliableInv, BatchUnanswered, Responded
  <2>3. \A i \in Responded : queryOf[i] # batch[id]
    BY <1>1, <1>2, <1>4, <2>1, <2>2
  <2>4. QED
    BY <1>3, <1>10, <2>1, <2>3
<1>12. ASSUME NEW id \in Id, pendingRequests[id] # None
       PROVE  Cardinality(Responded) + 1 <= NumWorkers
  <2>1. pendingRequests[id] \in QM!Entries(pendingRequests)
    BY <1>12 DEF QM!Entries, QM!Keys
  <2>2. pendingRequests[id] \in Waiting
    <3>1. pendingRequests[id] \in Query
      BY <1>12, TypesOfTypeOK DEF Known, Types, MaybeQuery
    <3>2. QED
      BY <2>1, <3>1 DEF Known, QM!MapsConsistent, QM!EntriesUnresolved, NobodyTimedOut, Waiting
  <2>3. \A i \in Responded : pendingResponses[i] \in QM!Entries(pendingResponses)
    BY <1>1, <1>2, Nothing DEF QM!Entries, QM!Keys
  <2>4. pendingRequests[id] \notin QM!Entries(pendingResponses)
    BY <2>1 DEF Known, QM!MapsConsistent, QM!OneEntryPerQuery
  <2>5. \A i \in Responded : queryOf[i] # pendingRequests[id]
    BY <1>2, <2>3, <2>4
  <2>6. QED
    BY <1>10, <2>2, <2>5
<1>13. QED
  BY <1>8, <1>9, <1>11, <1>12

\* The amounts the bounds are sums of.
LEMMA Amounts ==
    ASSUME Known
    PROVE  /\ LongestPost \in Nat /\ LongestSleep \in Nat \ {0} /\ spent \in Nat
           /\ NumWorkers \in Nat \ {0} /\ TwoMinutes \in Nat
           /\ Handover \in Nat /\ Return \in Nat
           /\ NumWorkers * LongestPost \in Nat
           /\ posting # None => spent <= LongestPost
           /\ age \in [Query -> Nat]
<1>1. /\ spent \in Nat /\ longest \in Nat /\ TwoMinutes \in Nat /\ NumWorkers \in Nat \ {0}
      /\ LongestSleep \in Nat \ {0} /\ age \in [Query -> Nat]
  BY Durations, MirrorConstants DEF Known, TimersInRange, LongestSleep
<1>2. LongestPost \in Nat /\ (posting # None => spent <= LongestPost)
  BY <1>1 DEF LongestPost
<1>3. (NumWorkers - 1) * LongestPost \in Nat /\ NumWorkers * LongestPost \in Nat
  BY <1>1, <1>2, TimesOrdered
<1>4. QED
  BY <1>1, <1>2, <1>3 DEF Handover, Return

\* How long a round has been: never more than a POST for each worker and a sleep; and
\* while somebody queues, one worker is not in it.
LEMMA RoundBounds ==
    ASSUME Known, LoopInv, NobodyTimedOut, awaiting = None
    PROVE  /\ Round \in Nat
           /\ Round <= NumWorkers * LongestPost + LongestSleep
           /\ \A id \in Id : posting = None /\ pendingRequests[id] # None => Round <= Handover
<1> DEFINE done == Cardinality(Responded)
<1>1. /\ done \in Nat /\ done <= NumWorkers
      /\ \A id \in Id : batch[id] # None \/ pendingRequests[id] # None => done + 1 <= NumWorkers
  BY Amounts, RespondedCount
<1> HIDE DEF done
<1>2. /\ done * LongestPost \in Nat
      /\ done * LongestPost <= NumWorkers * LongestPost
      /\ done + 1 <= NumWorkers => /\ (done + 1) * LongestPost <= NumWorkers * LongestPost
                                   /\ done * LongestPost <= (NumWorkers - 1) * LongestPost
  <2>1. done * LongestPost \in Nat /\ done * LongestPost <= NumWorkers * LongestPost
    BY <1>1, Amounts, TimesOrdered
  <2>2. ASSUME done + 1 <= NumWorkers
        PROVE  /\ (done + 1) * LongestPost <= NumWorkers * LongestPost
               /\ done * LongestPost <= (NumWorkers - 1) * LongestPost
    <3>1. done <= NumWorkers - 1 /\ NumWorkers - 1 \in Nat /\ done + 1 \in Nat
      BY <1>1, <2>2, Amounts
    <3>2. QED
      BY <1>1, <2>2, <3>1, Amounts, TimesOrdered
  <2>3. QED
    BY <2>1, <2>2
<1>3. Round = done * LongestPost + spent
  BY DEF Round, done
<1>4. CASE posting # None
  <2>1. done + 1 <= NumWorkers
    <3>1. posting \in Id /\ batch[posting] # None
      BY <1>4 DEF Known, TypeOK, OneThread
    <3>2. QED
      BY <1>1, <3>1
  <2>2. spent <= LongestPost /\ (done + 1) * LongestPost = done * LongestPost + LongestPost
    BY <1>1, <1>4, Amounts, TimesNext
  <2>3. QED
    BY <1>2, <1>3, <1>4, <2>1, <2>2, Amounts
<1>5. CASE posting = None
  <2>1. spent <= LongestSleep
    BY <1>5 DEF LoopInv, NoPause
  <2>2. \A id \in Id : pendingRequests[id] # None =>
          done * LongestPost + spent <= (NumWorkers - 1) * LongestPost + LongestSleep
    <3>1. (NumWorkers - 1) * LongestPost \in Nat
      BY Amounts, TimesOrdered
    <3>2. QED
      BY <1>1, <1>2, <2>1, <3>1, Amounts
  <2>3. QED
    BY <1>2, <1>3, <2>1, <2>2, Amounts DEF Handover
<1>6. QED
  BY <1>4, <1>5

-----------------------------------------------------------------------------

\* The longest POST never gets shorter, and with it no bound.
LEMMA LongestGrows ==
    ASSUME Known, [TimedNext]_<<vars, timers>>
    PROVE  LongestPost' >= LongestPost /\ LongestPost' \in Nat
<1>t. spent \in Nat /\ longest \in Nat
  BY Amounts, Durations DEF Known, TimersInRange
<1>1. CASE Tick
  BY <1>1, <1>t DEF Tick, LongestPost, vars, privateVars
<1>2. CASE UNCHANGED <<posting, spent, longest>>
  BY <1>2, <1>t DEF LongestPost
<1>3. CASE Instantly
  BY <1>2, <1>3 DEF Instantly, HttpRequest, WaitReturn, WalletExecute, PollArrives, ReplyToPoll,
     ResolveResponse, privateVars, timers, clocks
<1>4. CASE LoopGoesOn
  <2>1. posting = None
    BY <1>4, Nothing DEF LoopGoesOn, PollOk, Refuse, Forward, Processing, Known, OneThread
  <2>2. spent' = 0 /\ longest' = longest
    BY <1>4 DEF LoopGoesOn
  <2>3. QED
    BY <1>t, <2>1, <2>2 DEF LongestPost
<1>5. ASSUME NEW id \in Id, PostEnds(id)
      PROVE  LongestPost' >= LongestPost /\ LongestPost' \in Nat
  <2>1. posting' = None /\ longest' = LongestPost
    BY <1>5 DEF PostEnds, WalletReplies, WalletFails, Respond
  <2>2. LongestPost' = longest'
    BY <2>1 DEF LongestPost
  <2>3. QED
    BY <1>t, <2>1, <2>2, Amounts
<1>6. CASE \/ \E q \in Query : DeadlinePasses(q)
           \/ \E c \in Call : SleepEnds(c)
           \/ SendReturns \/ UNCHANGED <<vars, timers>>
  BY <1>2, <1>6 DEF DeadlinePasses, SleepEnds, SendReturns, WaitTimeout, Poll, vars, privateVars,
     timers, clocks
<1>7. QED
  BY <1>1, <1>3, <1>4, <1>5, <1>6 DEF TimedNext

LEMMA BoundsGrow ==
    ASSUME Known, [TimedNext]_<<vars, timers>>
    PROVE  Handover' >= Handover /\ Return' >= Return /\ Handover' \in Nat /\ Return' \in Nat
<1>1. PICK grown \in Nat : grown = LongestPost' /\ LongestPost <= grown
  BY Amounts, LongestGrows
<1>2. /\ NumWorkers \in Nat /\ NumWorkers - 1 \in Nat
      /\ LongestPost \in Nat /\ LongestSleep \in Nat
  BY Amounts
<1>3. \A n \in Nat : /\ n * LongestPost \in Nat /\ n * grown \in Nat
                     /\ n * LongestPost <= n * grown
  <2>1. TAKE n \in Nat
  <2>2. n <= n /\ grown <= grown
    OBVIOUS
  <2>3. QED
    BY <1>1, <1>2, <2>2, TimesOrdered
<1>4. /\ Handover' = (NumWorkers - 1) * grown + LongestSleep
      /\ Return' = (NumWorkers - 1) * grown + LongestSleep + NumWorkers * grown + LongestSleep
  BY <1>1 DEF Return, Handover, LongestSleep
<1>5. Return = (NumWorkers - 1) * LongestPost + LongestSleep + NumWorkers * LongestPost + LongestSleep
  BY DEF Return, Handover
<1>6. QED
  <2>1. /\ (NumWorkers - 1) * LongestPost \in Nat /\ (NumWorkers - 1) * grown \in Nat
        /\ (NumWorkers - 1) * LongestPost <= (NumWorkers - 1) * grown
        /\ NumWorkers * LongestPost \in Nat /\ NumWorkers * grown \in Nat
        /\ NumWorkers * LongestPost <= NumWorkers * grown
    BY <1>2, <1>3
  <2>2. QED
    BY <1>2, <1>4, <1>5, <2>1 DEF Handover

\* The bounds of a step that moves no query: they may only grow.
LEMMA AgesKept ==
    ASSUME Known, AgesBounded,
           pendingRequests' = pendingRequests, pendingResponses' = pendingResponses,
           age' = age,
           QueuedAge \in Nat, SentAge \in Nat, QueuedAge' \in Nat, SentAge' \in Nat,
           QueuedAge <= QueuedAge', SentAge <= SentAge'
    PROVE  AgesBounded'
<1>1. /\ \A id \in Id : pendingRequests[id] # None => age[pendingRequests[id]] \in Nat
      /\ \A id \in Id : pendingResponses[id] # None => age[pendingResponses[id]] \in Nat
  BY Amounts, TypesOfTypeOK DEF Known, Types, MaybeQuery
<1> HIDE DEF QueuedAge, SentAge
<1>2. QED
  BY <1>1 DEF AgesBounded

LEMMA AgeBoundsType ==
    ASSUME Known, LoopInv, NobodyTimedOut
    PROVE  /\ QueuedAge \in Nat /\ SentAge \in Nat
           /\ QueuedAge <= Return /\ SentAge <= Return
<1>1. Handover <= Return /\ Handover + NumWorkers * LongestPost + LongestSleep = Return
  BY Amounts DEF Return
<1>2. CASE awaiting = None
  <2>1. Round \in Nat /\ Round <= NumWorkers * LongestPost + LongestSleep
    BY <1>2, RoundBounds
  <2>2. QED
    BY <1>1, <1>2, <2>1, Amounts DEF QueuedAge, SentAge
<1>3. CASE awaiting # None
  BY <1>1, <1>3, Amounts DEF QueuedAge, SentAge
<1>4. QED
  BY <1>2, <1>3

LEMMA AgeBoundsTypeNext ==
    (Known /\ LoopInv /\ NobodyTimedOut => QueuedAge \in Nat /\ SentAge \in Nat)'
<1>1. Known /\ LoopInv /\ NobodyTimedOut => QueuedAge \in Nat /\ SentAge \in Nat
  BY AgeBoundsType
<1>2. QED
  BY <1>1, PTL

\* At the deadline a query without a response is in one of the maps: its age is
\* within the bounds, and so is the deadline.
LEMMA DeadlineNeedsSlowWallet ==
    ASSUME Known, LoopInv, NobodyTimedOut, AgesBounded, NEW q \in Query, DeadlinePasses(q)
    PROVE  WalletIsSlow
<1>1. phase[q] = "waiting" /\ response[q] = None /\ age[q] = TwoMinutes
  BY DEF DeadlinePasses, WaitTimeout, QM!WaitTimeout, QUERY_MAX_DURATION
<1>2. PICK id \in Id : pendingRequests[id] = q \/ pendingResponses[id] = q
  BY <1>1 DEF Known, QM!MapsConsistent, QM!NoQueryLost, QM!Entries, QM!Keys
<1>3. age[q] <= QueuedAge \/ age[q] <= SentAge
  BY <1>2, Nothing DEF AgesBounded
<1>4. QED
  BY <1>1, <1>3, AgeBoundsType, Amounts DEF WalletIsSlow

LEMMA SumsGrow ==
    ASSUME NEW a \in Nat, NEW b \in Nat, NEW c \in Nat, NEW d \in Nat, c >= a
    PROVE  /\ 0 <= a /\ 0 <= d /\ a <= c + d
           /\ d >= b => b <= d /\ a + b <= c + d
           /\ d >= b + 1 => c + d >= a + b + 1
OBVIOUS

\* The same loop at the same time: the same bounds.
LEMMA BoundsStay ==
    ASSUME UNCHANGED <<awaiting, mirrorResponses, posting, spent, longest>>, Replied' = Replied
    PROVE  QueuedAge' = QueuedAge /\ SentAge' = SentAge
<1>1. LongestPost' = LongestPost /\ Responded' = Responded
  BY DEF LongestPost, Responded
<1>2. Handover' = Handover /\ Return' = Return /\ Round' = Round
  BY <1>1 DEF Handover, Return, Round, LongestSleep
<1>3. QED
  BY <1>2 DEF QueuedAge, SentAge

\* A round goes on: by as much as the clock, or by a POST for a new response.
LEMMA RoundGrows ==
    ASSUME Known, LoopInv, NobodyTimedOut, awaiting = None, [TimedNext]_<<vars, timers>>
    PROVE  /\ mirrorResponses' = mirrorResponses /\ spent' \in Nat => Round' >= Round - spent + spent'
           /\ \A id \in Id :
                 /\ mirrorResponses[id] = None /\ mirrorResponses'[id] # None
                 /\ \A i \in Id \ {id} : mirrorResponses'[i] = mirrorResponses[i]
                 /\ spent <= LongestPost /\ spent' = 0
                 => Round' >= Round
<1> DEFINE done == Cardinality(Responded)
<1>1. PICK grown \in Nat : grown = LongestPost' /\ LongestPost <= grown
  BY Amounts, LongestGrows
<1>2. done \in Nat /\ IsFiniteSet(Responded)
  BY RespondedCount
<1>3. Round = done * LongestPost + spent
  BY DEF Round
<1> HIDE DEF done
<1>4. /\ done * LongestPost \in Nat /\ done * grown \in Nat
      /\ done * LongestPost <= done * grown
      /\ LongestPost \in Nat /\ spent \in Nat
  <2>1. done <= done /\ grown <= grown /\ LongestPost \in Nat /\ spent \in Nat
    BY <1>1, <1>2, Amounts
  <2>2. QED
    BY <1>1, <1>2, <2>1, TimesOrdered
<1>5. mirrorResponses' = mirrorResponses /\ spent' \in Nat => Round' >= Round - spent + spent'
  <2>1. SUFFICES ASSUME mirrorResponses' = mirrorResponses, spent' \in Nat
                 PROVE  Round' >= Round - spent + spent'
    OBVIOUS
  <2>2. Responded' = Responded
    BY <2>1 DEF Responded
  <2>3. Round' = done * grown + spent'
    BY <1>1, <2>2 DEF Round, done
  <2>4. QED
    BY <1>3, <1>4, <2>1, <2>3
<1>6. ASSUME NEW id \in Id, mirrorResponses[id] = None, mirrorResponses'[id] # None,
             \A i \in Id \ {id} : mirrorResponses'[i] = mirrorResponses[i],
             spent <= LongestPost, spent' = 0
      PROVE  Round' >= Round
  <2>1. Responded' = Responded \cup {id} /\ id \notin Responded
    BY <1>6 DEF Responded
  <2>2. Cardinality(Responded \cup {id}) = done + 1
    BY <1>2, <2>1, FS_AddElement DEF done
  <2>3. Round' = (done + 1) * grown
    <3>1. Round' = (done + 1) * grown + 0
      BY <1>1, <1>6, <2>1, <2>2 DEF Round
    <3>2. (done + 1) * grown \in Nat
      <4>1. done + 1 \in Nat /\ done + 1 <= done + 1 /\ grown <= grown
        BY <1>1, <1>2
      <4>2. QED
        BY <1>1, <4>1, TimesOrdered
    <3>3. QED
      BY <3>1, <3>2
  <2>4. (done + 1) * grown = done * grown + grown
    BY <1>1, <1>2, TimesNext
  <2>5. QED
    BY <1>1, <1>3, <1>4, <1>6, <2>3, <2>4
<1>7. QED
  BY <1>5, <1>6

LEMMA OnTimeStep ==
    ASSUME Known, Known', LoopInv, LoopInv', NobodyTimedOut, AgesBounded,
           [TimedNext]_<<vars, timers>>, ~ \E q \in Query : DeadlinePasses(q)
    PROVE  NobodyTimedOut' /\ AgesBounded'
<1>t. /\ phase \in [Query -> QM!Phase] /\ call \in [Call -> CallRecord]
      /\ pendingRequests \in [Id -> MaybeQuery] /\ pendingResponses \in [Id -> MaybeQuery]
      /\ None \notin Call /\ None \notin Query
  BY TypesOfTypeOK, Nothing DEF Known, Types
<1>n. NobodyTimedOut'
  <2>1. CASE phase' = phase
    BY <2>1 DEF NobodyTimedOut
  <2>2. ASSUME NEW p \in Query, NEW i \in Id, NEW req \in Request, HttpRequest(p, i, req)
        PROVE  NobodyTimedOut'
    BY <1>t, <2>2 DEF HttpRequest, QM!EnqueueQuery, NobodyTimedOut
  <2>3. ASSUME NEW p \in Query, WaitReturn(p)
        PROVE  NobodyTimedOut'
    BY <1>t, <2>3 DEF WaitReturn, QM!WaitReturn, NobodyTimedOut
  <2>4. CASE Instantly
    BY <2>1, <2>2, <2>3, <2>4 DEF Instantly, WalletExecute, PollArrives, ReplyToPoll,
       ResolveResponse, qmVars, QM!GetPendingRequests, QM!ResolveQuery, QM!ResolveUnknown,
       QM!ResolveKnown, QM!vars
  <2>5. CASE \/ Tick \/ LoopGoesOn \/ SendReturns \/ UNCHANGED <<vars, timers>>
             \/ \E c \in Call : SleepEnds(c)
             \/ \E id \in Id : PostEnds(id)
    BY <2>1, <2>5 DEF Tick, LoopGoesOn, SendReturns, SleepEnds, PostEnds, Poll, PollOk, Refuse, Forward,
       WalletReplies, WalletFails, vars, qmVars
  <2>6. QED
    BY <2>4, <2>5 DEF TimedNext
\* The bounds before and after the step.
<1>b. /\ QueuedAge \in Nat /\ SentAge \in Nat
      /\ QueuedAge' \in Nat /\ SentAge' \in Nat
      /\ Handover \in Nat /\ Return \in Nat
      /\ Handover' \in Nat /\ Handover' >= Handover
      /\ Return' \in Nat /\ Return' >= Return
  BY <1>n, AgeBoundsType, AgeBoundsTypeNext, BoundsGrow, Amounts
<1>a. /\ \A id \in Id : pendingRequests[id] # None => age[pendingRequests[id]] \in Nat
      /\ \A id \in Id : pendingResponses[id] # None => age[pendingResponses[id]] \in Nat
  BY <1>t, Amounts DEF MaybeQuery
<1>1. CASE Tick
  <2>1. awaiting = None /\ awaiting' = None /\ spent' = spent + 1
    BY <1>1 DEF Tick, vars, privateVars
  <2>2. Round' >= Round + 1 /\ Round \in Nat /\ Round' \in Nat
    <3>1. mirrorResponses' = mirrorResponses /\ spent \in Nat
      BY <1>1, Amounts DEF Tick, vars, privateVars
    <3>2. Round' >= Round - spent + spent'
      BY <2>1, <3>1, RoundGrows
    <3>3. Round \in Nat /\ Round' \in Nat
      BY <1>b, <2>1 DEF QueuedAge
    <3>4. QED
      BY <2>1, <3>1, <3>2, <3>3
  <2>3. QueuedAge' >= QueuedAge + 1 /\ SentAge' >= SentAge + 1
    <3>1. /\ QueuedAge = Round /\ QueuedAge' = Round'
          /\ SentAge = Handover + Round /\ SentAge' = Handover' + Round'
      BY <2>1 DEF QueuedAge, SentAge
    <3>2. Handover' + Round' >= Handover + Round + 1
      BY <1>b, <2>2, SumsGrow
    <3>3. QED
      BY <2>2, <3>1, <3>2
  <2>4. \A q \in Query : age'[q] \in Nat /\ age'[q] <= age[q] + 1
    <3>1. age \in [Query -> Nat]
      BY Amounts
    <3>2. QED
      BY <1>1, <3>1 DEF Tick
  <2>5. UNCHANGED <<pendingRequests, pendingResponses>>
    BY <1>1 DEF Tick, vars, qmVars
  <2>6. \A q \in Query : age[q] \in Nat
    BY Amounts
  <2> HIDE DEF QueuedAge, SentAge
  <2>7. AgesBounded'
    BY <1>t, <1>b, <2>3, <2>4, <2>5, <2>6 DEF AgesBounded, MaybeQuery
  <2>8. QED
    BY <1>n, <2>7
<1>2. ASSUME UNCHANGED <<pendingRequests, pendingResponses, age>>,
             QueuedAge <= QueuedAge', SentAge <= SentAge'
      PROVE  AgesBounded'
  BY <1>2, <1>b, AgesKept
<1>3. ASSUME NEW p \in Query, NEW i \in Id, NEW req \in Request, HttpRequest(p, i, req),
             UNCHANGED clocks
      PROVE  AgesBounded'
  <2>1. /\ phase[p] = "idle" /\ age' = age /\ pendingResponses' = pendingResponses
        /\ pendingRequests' = [pendingRequests EXCEPT ![i] = p]
        /\ UNCHANGED <<call, awaiting, mirrorResponses, posting, spent, longest>>
    BY <1>3 DEF HttpRequest, QM!EnqueueQuery, privateVars, timers, clocks
  <2>2. QueuedAge' = QueuedAge /\ SentAge' = SentAge
    BY <2>1, BoundsStay DEF Replied
  <2>3. age[p] = 0
    BY <2>1 DEF LoopInv, UnbornAreYoung
  <2> HIDE DEF QueuedAge, SentAge
  <2>4. QED
    BY <1>t, <1>b, <2>1, <2>2, <2>3 DEF AgesBounded
<1>4. CASE /\ \/ \E q \in Query : WaitReturn(q) \/ WalletExecute(q)
              \/ \E c \in Call : PollArrives(c)
              \/ UNCHANGED vars
           /\ UNCHANGED clocks
  <2>1. /\ UNCHANGED <<pendingRequests, pendingResponses, age>>
        /\ UNCHANGED <<awaiting, mirrorResponses, posting, spent, longest>>
    BY <1>4 DEF WaitReturn, QM!WaitReturn, WalletExecute, PollArrives, vars, qmVars, privateVars, clocks
  <2>2. Replied' = Replied
    <3>1. CASE UNCHANGED <<call, awaiting>>
      BY <3>1 DEF Replied
    <3>2. ASSUME NEW c \in Call, PollArrives(c)
          PROVE  Replied' = Replied
      <4>1. /\ call[c].state = "sent" /\ call'[c].state = "handling"
            /\ \A d \in Call \ {c} : call'[d] = call[d]
        BY <1>t, <3>2 DEF PollArrives, CallRecord
      <4>2. awaiting \in Call \cup {None}
        BY DEF Known, TypeOK
      <4>3. QED
        BY <2>1, <4>1, <4>2 DEF Replied
    <3>3. QED
      BY <1>4, <3>1, <3>2 DEF WaitReturn, WalletExecute, vars, privateVars
  <2>3. QueuedAge' = QueuedAge /\ SentAge' = SentAge
    BY <2>1, <2>2, BoundsStay
  <2>4. QueuedAge <= QueuedAge /\ SentAge <= SentAge
    BY <1>b
  <2>5. QED
    BY <1>n, <1>2, <2>1, <2>3, <2>4
<1>5. ASSUME NEW c \in Call, ReplyToPoll(c), UNCHANGED clocks
      PROVE  AgesBounded'
  <2>1. /\ awaiting = c /\ c # None /\ call[c].state = "handling"
        /\ \A id \in Id : call[c].args[id] = None
    BY <1>t, <1>5 DEF ReplyToPoll, Known, ReliableInv, OneCall, NoResponses
  <2>2. Replied'
    BY <1>t, <1>5, <2>1 DEF ReplyToPoll, Replied, privateVars
  \* The handler has resolved what the loop held, so nothing is handed over yet.
  <2>3. \A id \in Id : pendingResponses[id] = None
    <3>1. SUFFICES ASSUME NEW id \in Id, pendingResponses[id] # None
                   PROVE  FALSE
      OBVIOUS
    <3>2. Travels(id, pendingResponses[id])
      BY <3>1 DEF Known, ReliableInv, EntriesTravel
    <3>3. batch[id] = None /\ \A d \in Call : call[d].reply[id] = None
      BY <1>t, <2>1 DEF Known, OneThread, OnceInv, InOnePlace
    <3>4. \A d \in Call : call[d].args[id] = None
      BY <2>1 DEF Known, ReliableInv, OneCall
    <3>5. mirrorResponses[id] # None
      BY <3>1, <3>2, <3>3, <3>4 DEF Travels
    <3>6. QED
      BY <2>1, <3>1, <3>5 DEF Known, ReliableInv, PollInOrder
  <2>4. /\ \A id \in Id : pendingRequests'[id] = None /\ pendingResponses'[id] = pendingRequests[id]
        /\ awaiting' = awaiting /\ age' = age
    BY <1>5, <2>3 DEF ReplyToPoll, QM!GetPendingRequests, QM!EmptyMap, QM!Inserted, privateVars, clocks
  <2>5. QueuedAge = Handover /\ SentAge' = Handover'
    BY <2>1, <2>2, <2>4 DEF QueuedAge, SentAge, Replied
  <2>6. QED
    BY <1>a, <1>b, <2>4, <2>5 DEF AgesBounded
<1>6. ASSUME NEW c \in Call, NEW i \in Id, ResolveResponse(c, i), UNCHANGED clocks
      PROVE  AgesBounded'
  <2>1. /\ UNCHANGED <<pendingRequests, age, awaiting, mirrorResponses, posting, spent, longest>>
        /\ \A id \in Id : pendingResponses'[id] \in {pendingResponses[id], None}
    BY <1>t, <1>6 DEF ResolveResponse, QM!ResolveQuery, QM!ResolveUnknown, QM!ResolveKnown, QM!vars,
       privateVars, timers, clocks
  <2>2. Replied' = Replied
    <3>1. call'[c].state = call[c].state /\ \A d \in Call \ {c} : call'[d] = call[d]
      BY <1>t, <1>6 DEF ResolveResponse, CallRecord
    <3>2. awaiting \in Call \cup {None}
      BY DEF Known, TypeOK
    <3>3. QED
      BY <2>1, <3>1, <3>2 DEF Replied
  <2>3. QueuedAge' = QueuedAge /\ SentAge' = SentAge
    BY <2>1, <2>2, BoundsStay
  <2> HIDE DEF QueuedAge, SentAge
  <2>4. QED
    BY <1>a, <1>b, <2>1, <2>3 DEF AgesBounded
<1>7. CASE Instantly
  <2>1. UNCHANGED clocks
    BY <1>7 DEF Instantly, timers
  <2>2. CASE \E p \in Query, i \in Id, req \in Request : HttpRequest(p, i, req)
    BY <1>n, <1>3, <2>1, <2>2
  <2>3. CASE \/ \E q \in Query : WaitReturn(q) \/ WalletExecute(q)
             \/ \E c \in Call : PollArrives(c)
    BY <1>n, <1>4, <2>1, <2>3
  <2>4. CASE \E c \in Call : ReplyToPoll(c)
    BY <1>n, <1>5, <2>1, <2>4
  <2>5. CASE \E c \in Call, i \in Id : ResolveResponse(c, i)
    BY <1>n, <1>6, <2>1, <2>5
  <2>6. QED
    BY <1>7, <2>2, <2>3, <2>4, <2>5 DEF Instantly
<1>8. ASSUME NEW c \in Call, SleepEnds(c)
      PROVE  AgesBounded'
  <2>1. /\ awaiting = None /\ posting = None /\ awaiting' = c /\ call'[c].state = "sent"
        /\ UNCHANGED <<pendingRequests, pendingResponses, age>>
    BY <1>t, <1>8 DEF SleepEnds, Poll, Polling, CallRecord, qmVars, timers, clocks
  <2>2. QueuedAge' = Handover' /\ SentAge' = Return'
    BY <1>t, <2>1 DEF QueuedAge, SentAge, Replied
  <2>3. QueuedAge = Round /\ \A id \in Id : pendingRequests[id] # None => Round <= Handover
    BY <2>1, RoundBounds DEF QueuedAge
  <2>4. SentAge <= Return
    BY AgeBoundsType
  <2> HIDE DEF QueuedAge, SentAge
  <2>5. QED
    BY <1>a, <1>b, <2>1, <2>2, <2>3, <2>4 DEF AgesBounded
<1>9. ASSUME NEW c \in Call, PollOk(c), UNCHANGED age
      PROVE  AgesBounded'
  <2>1. /\ Replied /\ awaiting' = None
        /\ UNCHANGED <<pendingRequests, pendingResponses, age>>
    BY <1>t, <1>9 DEF PollOk, Replied, qmVars
  <2>2. QueuedAge = 0 /\ SentAge = Handover /\ SentAge' = Handover' + QueuedAge'
    BY <2>1 DEF QueuedAge, SentAge, Replied
  <2>3. QueuedAge <= QueuedAge' /\ SentAge <= SentAge'
    <3>1. 0 <= QueuedAge' /\ Handover <= Handover' + QueuedAge'
      BY <1>b, SumsGrow
    <3>2. QED
      BY <2>2, <3>1
  <2>4. QED
    BY <1>2, <2>1, <2>3
\* A round that goes on, with the loop between its polls.
<1>10. ASSUME awaiting = None, awaiting' = None, Round' >= Round,
              UNCHANGED <<pendingRequests, pendingResponses, age>>
       PROVE  AgesBounded'
  <2>1. /\ QueuedAge = Round /\ QueuedAge' = Round'
        /\ SentAge = Handover + Round /\ SentAge' = Handover' + Round'
    BY <1>10 DEF QueuedAge, SentAge
  <2>2. Round \in Nat /\ Round' \in Nat
    BY <1>b, <2>1
  <2>3. QueuedAge <= QueuedAge' /\ SentAge <= SentAge'
    <3>1. Round <= Round' /\ Handover + Round <= Handover' + Round'
      BY <1>b, <1>10, <2>2, SumsGrow
    <3>2. QED
      BY <2>1, <3>1
  <2>4. QED
    BY <1>2, <1>10, <2>3
<1>11. ASSUME NEW i \in Id, Forward(i), spent' = 0, UNCHANGED age
       PROVE  AgesBounded'
  <2>1. /\ awaiting = None /\ posting = None /\ batch[i] # None
        /\ UNCHANGED <<awaiting, mirrorResponses, pendingRequests, pendingResponses>>
    BY <1>11 DEF Forward, Processing, qmVars
  <2>2. spent = 0
    BY <2>1 DEF LoopInv, NoPause
  <2>3. Round' >= Round - spent + spent' /\ Round \in Nat
    BY <1>11, <2>1, RoundGrows, RoundBounds
  <2>4. QED
    BY <1>10, <1>11, <2>1, <2>2, <2>3
<1>12. ASSUME NEW i \in Id, Refuse(i) \/ WalletReplies(i) \/ WalletFails(i), spent' = 0, UNCHANGED age
       PROVE  AgesBounded'
  <2>1. /\ batch[i] # None /\ awaiting = None
        /\ UNCHANGED <<awaiting, pendingRequests, pendingResponses>>
    BY <1>12, Nothing DEF Refuse, WalletReplies, WalletFails, Processing, Known, OneThread, qmVars
  <2>2. spent <= LongestPost
    <3>1. CASE posting = None
      BY <2>1, <3>1, Amounts DEF LoopInv, NoPause
    <3>2. CASE posting # None
      BY <3>2, Amounts
    <3>3. QED
      BY <3>1, <3>2
  <2>3. /\ mirrorResponses'[i] # None /\ mirrorResponses[i] = None
        /\ \A id \in Id \ {i} : mirrorResponses'[id] = mirrorResponses[id]
    <3>1. \E type \in ResponseType : Respond(i, type)
      BY <1>12, RequiredType DEF Refuse, WalletReplies, WalletFails
    <3>2. PICK type \in ResponseType : Respond(i, type)
      BY <3>1
    <3>3. [type |-> type, of |-> batch[i]] \in Response
      BY <2>1 DEF Known, TypeOK, Response
    <3>4. mirrorResponses'[i] = [type |-> type, of |-> batch[i]]
      BY <3>2, TypesOfTypeOK DEF Respond, Known, Types
    <3>5. mirrorResponses[i] = None
      BY <2>1 DEF Known, ReliableInv, BatchUnanswered
    <3>6. QED
      BY <2>1, <3>1, <3>3, <3>4, <3>5, RespondEffect, Nothing DEF Known
  <2>4. Round' >= Round
    BY <1>12, <2>1, <2>2, <2>3, RoundGrows
  <2>5. QED
    BY <1>10, <1>12, <2>1, <2>4
<1>13. CASE LoopGoesOn
  <2>1. spent' = 0 /\ UNCHANGED age
    BY <1>13 DEF LoopGoesOn
  <2>2. CASE \E c \in Call : PollOk(c)
    BY <1>n, <1>9, <2>1, <2>2
  <2>3. CASE \E i \in Id : Forward(i)
    BY <1>n, <1>11, <2>1, <2>3
  <2>4. CASE \E i \in Id : Refuse(i)
    BY <1>n, <1>12, <2>1, <2>4
  <2>5. QED
    BY <1>13, <2>2, <2>3, <2>4 DEF LoopGoesOn
<1>14. CASE \E id \in Id : PostEnds(id)
  <2>1. PICK i \in Id : PostEnds(i)
    BY <1>14
  <2>2. (WalletReplies(i) \/ WalletFails(i)) /\ spent' = 0 /\ UNCHANGED age
    BY <2>1 DEF PostEnds
  <2>3. QED
    BY <1>n, <1>12, <2>2
<1>15. CASE SendReturns \/ UNCHANGED <<vars, timers>>
  <2>1. UNCHANGED vars /\ UNCHANGED clocks
    BY <1>15 DEF SendReturns, timers
  <2>2. QED
    BY <1>n, <1>4, <2>1
<1>16. QED
  BY <1>n, <1>1, <1>7, <1>8, <1>13, <1>14, <1>15 DEF TimedNext

LEMMA AgeStep ==
    ASSUME Known, Known', LoopInv, LoopInv', AgeInv, [TimedNext]_<<vars, timers>>
    PROVE  AgeInv'
<1>s. CASE WalletIsSlow
  <2>1. Return' >= Return /\ Return \in Nat /\ Return' \in Nat
    BY BoundsGrow, Amounts
  <2>2. QED
    BY <1>s, <2>1, Amounts DEF AgeInv, WalletIsSlow
<1>f. CASE ~WalletIsSlow
  <2>1. NobodyTimedOut /\ AgesBounded
    BY <1>f DEF AgeInv
  <2>2. CASE \E q \in Query : DeadlinePasses(q)
    BY <1>f, <2>1, <2>2, DeadlineNeedsSlowWallet
  <2>3. ASSUME ~ \E q \in Query : DeadlinePasses(q)
        PROVE  NobodyTimedOut' /\ AgesBounded'
    BY <2>1, <2>3, OnTimeStep
  <2>4. QED
    BY <2>2, <2>3 DEF AgeInv
<1>2. QED
  BY <1>s, <1>f

LEMMA LoopInvInit == TimedInit => LoopInv /\ AgeInv
<1> SUFFICES ASSUME TimedInit PROVE LoopInv /\ AgeInv
  OBVIOUS
<1>1. /\ phase = [q \in Query |-> "idle"] /\ age = [q \in Query |-> 0]
      /\ pendingRequests = [id \in Id |-> None] /\ pendingResponses = [id \in Id |-> None]
      /\ mirrorResponses = [id \in Id |-> None] /\ batch = [id \in Id |-> None]
      /\ spent = PollInterval /\ posting = None
  BY DEF TimedInit, Init, QM!Init, QM!EmptyMap, NoResponses
<1>2. NoPause
  BY <1>1, Durations DEF NoPause, LongestSleep
<1>3. UnbornAreYoung
  BY <1>1 DEF UnbornAreYoung
<1>4. WorkersSuffice
  <2>1. Waiting = {}
    BY <1>1 DEF Waiting
  <2>2. QED
    BY <2>1, FS_EmptySet, MirrorConstants DEF WorkersSuffice
<1>5. HeldHaveEntries
  BY <1>1 DEF HeldHaveEntries
<1>6. NobodyTimedOut /\ AgesBounded
  BY <1>1 DEF NobodyTimedOut, AgesBounded
<1>7. QED
  BY <1>2, <1>3, <1>4, <1>5, <1>6 DEF LoopInv, AgeInv

\* The measure of the property, and the age a response is delivered at.
LEMMA ReturnIs ==
    ASSUME Known
    PROVE  Return = (2 * NumWorkers - 1) * LongestPost + 2 * (PollInterval + PollDelay)
<1>1. NumWorkers \in Nat /\ LongestPost \in Nat /\ PollInterval \in Nat /\ PollDelay \in Nat
  BY Amounts, Durations
<1>2. \A w, n \in Nat : (2 * w - 1) * n = (w - 1) * n + w * n
  OBVIOUS
<1>3. \A w, n \in Nat : (w - 1) * n \in Int /\ w * n \in Int
  OBVIOUS
<1>4. QED
  BY <1>1, <1>2, <1>3 DEF Return, Handover, LongestSleep

LEMMA AgesAlways == TimedSpec => [](LoopInv /\ AgeInv)
<1>1. TimedInit => LoopInv /\ AgeInv
  BY LoopInvInit
<1>2. Known /\ LoopInv /\ [TimedNext]_<<vars, timers>> => LoopInv'
  BY LoopInvStep
<1>3. Known /\ Known' /\ LoopInv /\ LoopInv' /\ AgeInv /\ [TimedNext]_<<vars, timers>> => AgeInv'
  BY AgeStep
<1>4. QED
  BY <1>1, <1>2, <1>3, KnownAlways, PTL DEF TimedSpec

LEMMA SlowIs == Known /\ WalletIsSlow => SlowWallet
BY ReturnIs DEF WalletIsSlow, SlowWallet, QUERY_MAX_DURATION

\* However many workers and entries there are and however long the durations: a client
\* gets a timeout only if the longest POST so far, once for each other worker and
\* once more for each worker, with two sleeps, fills the two minutes.
THEOREM TimeoutsNeedSlowness == TimedSpec => []TimeoutsNeedASlowWallet
<1>1. Known /\ AgeInv => TimeoutsNeedASlowWallet
  BY SlowIs DEF AgeInv, NobodyTimedOut, TimeoutsNeedASlowWallet
<1>2. QED
  BY <1>1, AgesAlways, KnownAlways, PTL

\* While nobody has timed out, the entries of the maps are of waiting clients.
LEMMA EntriesAreWaiting ==
    ASSUME Known, NobodyTimedOut
    PROVE  QM!Entries(pendingRequests) \cup QM!Entries(pendingResponses) \subseteq Waiting
<1>1. QM!Entries(pendingRequests) \cup QM!Entries(pendingResponses) \subseteq Query
  BY TypesOfTypeOK DEF Known, Types, MaybeQuery, QM!Entries, QM!Keys
<1>2. QED
  BY <1>1 DEF Known, QM!MapsConsistent, QM!EntriesUnresolved, NobodyTimedOut, Waiting

\* The maps hold no more queries than there are workers, or it is the same slowness:
\* only a query that was given up is one too many.
THEOREM BacklogNeedsSlowness == TimedSpec => []BacklogNeedsASlowWallet
<1>1. ASSUME Known, LoopInv, AgeInv
      PROVE  BacklogNeedsASlowWallet
  <2>1. CASE WalletIsSlow
    BY <1>1, <2>1, SlowIs DEF BacklogNeedsASlowWallet
  <2>2. CASE ~WalletIsSlow
    <3> DEFINE entries == QM!Entries(pendingRequests) \cup QM!Entries(pendingResponses)
    <3>1. entries \subseteq Waiting
      BY <1>1, <2>2, EntriesAreWaiting DEF AgeInv
    <3>2. /\ IsFiniteSet(Waiting) /\ Cardinality(Waiting) \in Nat
          /\ Cardinality(Waiting) <= NumWorkers
      BY <1>1, FS_CardinalityType DEF LoopInv, WorkersSuffice
    <3>3. IsFiniteSet(entries) /\ Cardinality(entries) <= Cardinality(Waiting)
      BY <3>1, <3>2, FS_Subset
    <3>4. Cardinality(entries) \in Nat /\ NumWorkers \in Nat
      BY <1>1, <3>3, FS_CardinalityType, Amounts
    <3>5. ~(Cardinality(entries) > NumWorkers)
      <4> HIDE DEF entries
      <4>1. QED
        BY <3>2, <3>3, <3>4
    <3>6. QED
      BY <3>5 DEF BacklogNeedsASlowWallet
  <2>3. QED
    BY <2>1, <2>2
<1>2. QED
  BY <1>1, AgesAlways, KnownAlways, PTL
=============================================================================
