------------------------ MODULE MirrorServiceProofs -------------------------
(***************************************************************************)
(* Proof that the mirror implements the service of RequestReply, when no   *)
(* id is drawn twice: a client that is told of success had its request     *)
(* executed, once, and nothing is executed that may not be.                *)
(***************************************************************************)
EXTENDS MirrorDeliveryProofs

Data ==
    /\ Types
    /\ request \in [Query -> Request \cup {None}]
    /\ answer \in [Query -> MaybeResponse]
    /\ wallet \in [Query -> {"none", "posted", "executed"}]
    /\ executions \in [Query -> 0..MaxExecutions]

LEMMA DataOfTypeOK == TypeOK => Data
BY TypesOfTypeOK DEF TypeOK, QM!TypeOK, MaybeResponse, Data

\* A response that is no error tells of an execution, in the words of its request.
Truthful(r) ==
    r.type # "error" => executions[r.of] = 1 /\ r.type = request[r.of].kind

\* Wherever a response can be.
InSystem(r) ==
    \/ \E id \in Id : mirrorResponses[id] = r
    \/ \E c \in Call, id \in Id : call[c].args[id] = r
    \/ \E q \in Query : response[q] = r \/ answer[q] = r

ServiceInv ==
    /\ \A q \in Query : phase[q] # "idle" => request[q] \in Request
    /\ \A q \in Query : wallet[q] # "none" => phase[q] # "idle" /\ Permitted(request[q])
    /\ \A r \in Response : InSystem(r) => Truthful(r)

LEMMA RequestsAreTyped == \A req \in Request : req.kind \in {"unencrypted", "encrypted"}
BY MirrorConstants DEF AllRequests

\* Steps that are no HTTP request, and change neither phases nor requests.
LEMMA OthersKeepRequests ==
    ASSUME [Next]_vars,
           ~\E q \in Query, id \in Id, req \in Request : HttpRequest(q, id, req),
           ~\E q \in Query : WaitReturn(q) \/ WaitTimeout(q),
           ~PublicRestart
    PROVE  UNCHANGED <<phase, request, answer>>
<1>1. ASSUME NEW c \in Call, NEW id \in Id, ResolveResponse(c, id)
      PROVE  UNCHANGED <<phase, request, answer>>
  BY <1>1 DEF ResolveResponse, QM!ResolveQuery, QM!ResolveUnknown, QM!ResolveKnown, QM!vars
<1>2. CASE \/ \E c \in Call : PollArrives(c) \/ ReplyToPoll(c)
           \/ PrivateSide \/ Environment \/ UNCHANGED vars
  BY <1>2 DEF PollArrives, ReplyToPoll, QM!GetPendingRequests, PrivateSide, Environment,
     Poll, PollOk, PollErr, Refuse, Forward, WalletReplies, WalletFails, PrivateRestart,
     CallLost, WalletExecute, vars, qmVars
<1>3. QED
  BY <1>1, <1>2 DEF Next, PublicSide

\* A request that was accepted stays what it is.
LEMMA RequestsStay ==
    ASSUME Data, [Next]_vars, NEW q \in Query, phase[q] # "idle"
    PROVE  phase'[q] # "idle" /\ request'[q] = request[q]
<1> USE DEF Data, Types
<1>1. ASSUME NEW p \in Query, NEW id \in Id, NEW req \in Request, HttpRequest(p, id, req)
      PROVE  phase'[q] # "idle" /\ request'[q] = request[q]
  BY <1>1 DEF HttpRequest, QM!EnqueueQuery
<1>2. ASSUME NEW p \in Query, WaitReturn(p) \/ WaitTimeout(p)
      PROVE  phase'[q] # "idle" /\ request'[q] = request[q]
  BY <1>2 DEF WaitReturn, WaitTimeout, QM!WaitReturn, QM!WaitTimeout
<1>3. CASE PublicRestart
  BY <1>3 DEF PublicRestart, QM!Restart
<1>4. QED
  BY <1>1, <1>2, <1>3, OthersKeepRequests

\* Only the wallet executes, and only a request that was posted.
LEMMA ExecutionsGrow ==
    ASSUME Data, [Next]_vars, NEW q \in Query
    PROVE  \/ executions'[q] = executions[q]
           \/ executions'[q] = executions[q] + 1 /\ wallet[q] = "posted"
<1>1. ASSUME NEW p \in Query, WalletExecute(p)
      PROVE  \/ executions'[q] = executions[q]
             \/ executions'[q] = executions[q] + 1 /\ wallet[q] = "posted"
  BY <1>1 DEF WalletExecute, Data
<1>2. CASE UNCHANGED executions
  BY <1>2
<1>3. QED
  BY <1>1, <1>2 DEF Next, PublicSide, PrivateSide, Environment, HttpRequest, WaitReturn,
     WaitTimeout, PollArrives, ReplyToPoll, ResolveResponse, PublicRestart, Poll, PollOk, PollErr,
     Refuse, Forward, WalletReplies, WalletFails, PrivateRestart, CallLost, vars, walletVars

\* What a true response says stays true.
LEMMA TruthStays ==
    ASSUME Data, OnceInv, ServiceInv, [Next]_vars, NEW r \in Response, Truthful(r)
    PROVE  Truthful(r)'
<1> SUFFICES ASSUME r.type # "error"
             PROVE  executions'[r.of] = 1 /\ r.type = request'[r.of].kind
  BY DEF Truthful
<1>1. r.of \in Query /\ executions[r.of] = 1 /\ r.type = request[r.of].kind
  BY DEF Truthful, Response
<1>2. wallet[r.of] = "executed"
  BY <1>1 DEF OnceInv, ExecutedOnce
<1>3. phase[r.of] # "idle"
  BY <1>1, <1>2 DEF ServiceInv
<1>4. QED
  BY <1>1, <1>2, <1>3, RequestsStay, ExecutionsGrow

\* A response comes from the private side, and from there on is only passed on.
LEMMA WhereResponsesComeFrom ==
    ASSUME Data, OneThread, TypeOK, [Next]_vars, NEW r \in Response, InSystem(r)'
    PROVE  \/ InSystem(r)
           \/ r.type = "error"
           \/ \E id \in Id : WalletReplies(id) /\ r.type = RequiredKind /\ r.of = batch[id]
<1> USE Nothing, FreeCallIsEmpty DEF Data, Types
<1>n. r # None
  BY Nothing
<1>1. ASSUME UNCHANGED <<call, mirrorResponses>>,
             \A q \in Query : /\ response'[q] \in {response[q], None}
                              /\ answer'[q] \in {answer[q], response[q]}
      PROVE  InSystem(r)
  BY <1>1, <1>n DEF InSystem
<1>2. ASSUME NEW q \in Query,
             \/ \E id \in Id, req \in Request : HttpRequest(q, id, req)
             \/ WaitReturn(q) \/ WaitTimeout(q) \/ WalletExecute(q)
      PROVE  InSystem(r)
  <2>1. UNCHANGED <<call, mirrorResponses>>
    BY <1>2 DEF HttpRequest, WaitReturn, WaitTimeout, WalletExecute, privateVars
  <2>2. \A p \in Query : /\ response'[p] \in {response[p], None}
                         /\ answer'[p] \in {answer[p], response[p]}
    BY <1>2 DEF HttpRequest, QM!EnqueueQuery, WaitReturn, QM!WaitReturn, WaitTimeout,
       QM!WaitTimeout, WalletExecute, qmVars
  <2>3. QED
    BY <1>1, <2>1, <2>2
<1>3. CASE UNCHANGED vars \/ \E id \in Id : Forward(id)
  BY <1>1, <1>3 DEF vars, qmVars, privateVars, Forward
\* Steps that may drop responses of the private side and of calls, and send them.
<1>4. ASSUME \A q \in Query : response'[q] \in {response[q], None} /\ answer'[q] = answer[q],
             \A id \in Id : mirrorResponses'[id] \in {mirrorResponses[id], None},
             \A c \in Call, id \in Id :
                 call'[c].args[id] \in {call[c].args[id], mirrorResponses[id], None}
      PROVE  InSystem(r)
  BY <1>4, <1>n DEF InSystem
<1>5. ASSUME NEW c \in Call,
             PollArrives(c) \/ ReplyToPoll(c) \/ Poll(c) \/ PollOk(c) \/ PollErr(c) \/ CallLost(c)
      PROVE  InSystem(r)
  <2>1. /\ UNCHANGED <<response, answer>>
        /\ \A id \in Id : mirrorResponses'[id] \in {mirrorResponses[id], None}
    BY <1>5 DEF PollArrives, ReplyToPoll, QM!GetPendingRequests, Poll, PollOk, PollErr, CallLost,
       qmVars, privateVars, NoResponses
  <2>2. \A d \in Call, id \in Id :
           call'[d].args[id] \in {call[d].args[id], mirrorResponses[id], None}
    <3>1. CASE PollArrives(c)
      BY <3>1 DEF PollArrives, CallRecord
    <3>2. CASE Poll(c)
      BY <3>2 DEF Poll, CallRecord
    <3>3. CASE ReplyToPoll(c)
      BY <3>3 DEF ReplyToPoll, FreeCall
    <3>4. CASE CallLost(c)
      BY <3>4 DEF CallLost
    <3>5. CASE PollOk(c) \/ PollErr(c)
      BY <3>5 DEF PollOk, PollErr, Abandoned
    <3>6. QED
      BY <1>5, <3>1, <3>2, <3>3, <3>4, <3>5
  <2>3. QED
    BY <1>4, <2>1, <2>2
<1>6. CASE PublicRestart
  <2>1. \A d \in Call, id \in Id : call'[d].args[id] \in {call[d].args[id], None}
    BY <1>6 DEF PublicRestart, FreeCall
  <2>2. QED
    BY <1>4, <1>6, <2>1 DEF PublicRestart, QM!Restart, privateVars
<1>7. CASE PrivateRestart
  <2>1. \A d \in Call, id \in Id : call'[d].args[id] \in {call[d].args[id], None}
    BY <1>7 DEF PrivateRestart, Abandoned
  <2>2. QED
    BY <1>4, <1>7, <2>1 DEF PrivateRestart, NoResponses, qmVars
<1>8. ASSUME NEW c \in Call, NEW id \in Id, ResolveResponse(c, id)
      PROVE  InSystem(r)
  <2>1. /\ \A q \in Query : response'[q] \in {response[q], call[c].args[id]}
        /\ UNCHANGED answer
    BY <1>8 DEF ResolveResponse, QM!ResolveQuery, QM!ResolveUnknown, QM!ResolveKnown, QM!vars
  <2>2. \A d \in Call, i \in Id : call'[d].args[i] \in {call[d].args[i], None}
    BY <1>8 DEF ResolveResponse, CallRecord
  <2>3. UNCHANGED mirrorResponses
    BY <1>8 DEF ResolveResponse, privateVars
  <2>4. QED
    BY <1>n, <2>1, <2>2, <2>3 DEF InSystem
<1>9. ASSUME NEW id \in Id, NEW type \in ResponseType, Respond(id, type), batch[id] # None,
             UNCHANGED <<qmVars, call>>
      PROVE  InSystem(r) \/ (r.type = type /\ r.of = batch[id])
  <2>1. mirrorResponses'[id] = [type |-> type, of |-> batch[id]]
    BY <1>9 DEF Respond, RespondEffect
  <2>2. \A i \in Id \ {id} : mirrorResponses'[i] = mirrorResponses[i]
    BY <1>9, RespondEffect
  <2>3. QED
    BY <1>9, <2>1, <2>2 DEF InSystem, qmVars
<1>10. ASSUME NEW id \in Id, Refuse(id) \/ WalletFails(id)
       PROVE  InSystem(r) \/ r.type = "error"
  BY <1>9, <1>10, RequiredType DEF Refuse, WalletFails, OneThread
<1>11. ASSUME NEW id \in Id, WalletReplies(id)
       PROVE  \/ InSystem(r)
              \/ WalletReplies(id) /\ r.type = RequiredKind /\ r.of = batch[id]
  BY <1>9, <1>11, RequiredType DEF WalletReplies, OneThread
<1>12. QED
  BY <1>2, <1>3, <1>5, <1>6, <1>7, <1>8, <1>10, <1>11
  DEF Next, PublicSide, PrivateSide, Environment

LEMMA ServiceInvStep ==
    ASSUME TypeOK, OneThread, OnceInv, ServiceInv, [Next]_vars
    PROVE  ServiceInv'
<1>d. Data
  BY DataOfTypeOK
<1>1. ASSUME NEW q \in Query, phase'[q] # "idle"
      PROVE  request'[q] \in Request
  <2>1. CASE phase[q] # "idle"
    BY <1>d, <2>1, RequestsStay DEF ServiceInv
  <2>2. CASE phase[q] = "idle"
    <3>1. ASSUME NEW p \in Query, NEW id \in Id, NEW req \in Request, HttpRequest(p, id, req)
          PROVE  request'[q] \in Request
      BY <1>1, <1>d, <2>2, <3>1 DEF HttpRequest, QM!EnqueueQuery, Data, Types
    <3>2. ASSUME NEW p \in Query, WaitReturn(p) \/ WaitTimeout(p)
          PROVE  FALSE
      BY <1>1, <1>d, <2>2, <3>2
      DEF WaitReturn, WaitTimeout, QM!WaitReturn, QM!WaitTimeout, Data, Types
    <3>3. CASE PublicRestart
      BY <1>1, <1>d, <2>2, <3>3 DEF PublicRestart, QM!Restart, Data, Types
    <3>4. QED
      BY <1>1, <2>2, <3>1, <3>2, <3>3, OthersKeepRequests
  <2>3. QED
    BY <2>1, <2>2
<1>2. ASSUME NEW q \in Query, wallet'[q] # "none"
      PROVE  phase'[q] # "idle" /\ Permitted(request'[q])
  <2>1. phase[q] # "idle" /\ Permitted(request[q])
    <3>1. CASE wallet[q] # "none"
      BY <3>1 DEF ServiceInv
    <3>2. ASSUME NEW id \in Id, Forward(id), wallet[q] = "none"
          PROVE  phase[q] # "idle" /\ Permitted(request[q])
      <4>1. q = batch[id] /\ Permitted(request[batch[id]])
        BY <1>2, <1>d, <3>2 DEF Forward, Data, Types
      <4>2. QED
        BY <4>1 DEF OnceInv, NotPostedYet
    <3>3. ASSUME NEW p \in Query, WalletExecute(p), wallet[q] = "none"
          PROVE  FALSE
      BY <1>2, <1>d, <3>3 DEF WalletExecute, Data
    <3>4. QED
      BY <1>2, <3>1, <3>2, <3>3 DEF Next, PublicSide, PrivateSide, Environment, HttpRequest,
         WaitReturn, WaitTimeout, PollArrives, ReplyToPoll, ResolveResponse, PublicRestart, Poll,
         PollOk, PollErr, Refuse, WalletReplies, WalletFails, PrivateRestart, CallLost, vars,
         walletVars
  <2>2. QED
    BY <1>d, <2>1, RequestsStay
<1>3. ASSUME NEW r \in Response, InSystem(r)'
      PROVE  Truthful(r)'
  <2>1. CASE InSystem(r)
    BY <1>d, <2>1, TruthStays DEF ServiceInv
  <2>2. CASE r.type = "error"
    BY <2>2 DEF Truthful
  <2>3. ASSUME NEW id \in Id, WalletReplies(id), r.type = RequiredKind, r.of = batch[id]
        PROVE  Truthful(r)
    <3>1. r.of \in Query /\ wallet[r.of] = "executed"
      BY <2>3 DEF WalletReplies, Response
    <3>2. executions[r.of] = 1 /\ Permitted(request[r.of])
      BY <3>1 DEF OnceInv, ExecutedOnce, ServiceInv
    <3>3. QED
      BY <2>3, <3>2 DEF Truthful, Permitted
  <2>4. QED
    BY <1>d, <1>3, <2>1, <2>2, <2>3, TruthStays, WhereResponsesComeFrom
<1>4. QED
  BY <1>1, <1>2, <1>3 DEF ServiceInv

LEMMA ServiceInvAlways == Spec => []ServiceInv
<1>1. Init => ServiceInv
  BY Nothing, FreeCallIsEmpty DEF Init, QM!Init, NoResponses, ServiceInv, InSystem
<1>2. QED
  BY <1>1, ServiceInvStep, TypeCorrect, OneThreadAlways, OnceAlways, PTL DEF Spec

-----------------------------------------------------------------------------
(* The steps of the service.                                               *)

Outcomes == [q \in Query |-> Outcome(q)]
Eligible == {q \in Query : phase[q] # "idle" /\ Permitted(request[q])}

LEMMA OutcomeStays ==
    ASSUME NEW q \in Query, phase'[q] = phase[q], answer'[q] = answer[q],
           request'[q] = request[q] \/ phase[q] = "idle"
    PROVE  Outcome(q)' = Outcome(q)
<1>1. CASE phase[q] = "idle"
  BY <1>1 DEF Outcome, Success
<1>2. CASE phase[q] # "idle"
  BY <1>2 DEF Outcome, Success
<1>3. QED
  BY <1>1, <1>2

LEMMA AcceptSubmits ==
    ASSUME Data, NEW q \in Query, NEW id \in Id, NEW req \in Request, HttpRequest(q, id, req)
    PROVE  Service!Submit(q)
<1> USE DEF Data, Types
<1>1. /\ phase[q] = "idle"
      /\ phase' = [phase EXCEPT ![q] = "waiting"]
      /\ request' = [request EXCEPT ![q] = req]
      /\ UNCHANGED <<answer, executions>>
  BY DEF HttpRequest, QM!EnqueueQuery, walletVars
<1>2. Outcome(q) = "none" /\ Outcome(q)' = "pending"
  BY <1>1 DEF Outcome, Success
<1>3. \A p \in Query \ {q} : Outcome(p)' = Outcome(p)
  BY <1>1, OutcomeStays
<1>4. Outcomes[q] = "none" /\ Outcomes' = [Outcomes EXCEPT ![q] = "pending"]
  BY <1>2, <1>3 DEF Outcomes
<1>5. Eligible' \in {Eligible, Eligible \cup {q}}
  <2>1. \A p \in Query \ {q} : p \in Eligible' <=> p \in Eligible
    BY <1>1 DEF Eligible
  <2>2. q \notin Eligible
    BY <1>1 DEF Eligible
  <2>3. CASE q \in Eligible'
    <3>1. Eligible' = Eligible \cup {q}
      BY <2>1, <2>2, <2>3 DEF Eligible
    <3>2. QED
      BY <3>1
  <2>4. CASE q \notin Eligible'
    <3>1. Eligible' = Eligible
      BY <2>1, <2>2, <2>4 DEF Eligible
    <3>2. QED
      BY <3>1
  <2>5. QED
    BY <2>3, <2>4
<1>6. QED
  BY <1>1, <1>4, <1>5 DEF Service!Submit, Outcomes, Eligible

LEMMA WaitFinishes ==
    ASSUME Data, OwnInv', ServiceInv, ServiceInv', [Next]_vars,
           NEW q \in Query, WaitReturn(q) \/ WaitTimeout(q)
    PROVE  \E result \in {"success", "error", "timeout"} : Service!Finish(q, result)
<1> USE DEF Data, Types
<1>1. /\ phase[q] = "waiting"
      /\ phase'[q] \in {"answered", "timeout"}
      /\ \A p \in Query \ {q} : phase'[p] = phase[p] /\ answer'[p] = answer[p]
      /\ UNCHANGED <<request, executions>>
  BY DEF WaitReturn, WaitTimeout, QM!WaitReturn, QM!WaitTimeout, walletVars
<1>2. Outcome(q) = "pending"
  BY <1>1 DEF Outcome, Success
<1>3. \A p \in Query \ {q} : Outcome(p)' = Outcome(p)
  BY <1>1, OutcomeStays
<1>4. /\ Outcome(q)' \in {"success", "error", "timeout"}
      /\ Outcome(q)' = "success" => executions[q] = 1
  <2>1. CASE WaitTimeout(q)
    <3>1. phase'[q] = "timeout"
      BY <2>1 DEF WaitTimeout, QM!WaitTimeout
    <3>2. QED
      BY <3>1 DEF Outcome, Success
  <2>2. CASE WaitReturn(q)
    <3>1. PICK r \in Response : r = response[q]
      BY <2>2 DEF WaitReturn, QM!WaitReturn, MaybeResponse
    <3>2. phase'[q] = "answered" /\ answer'[q] = r
      BY <2>2, <3>1 DEF WaitReturn, QM!WaitReturn
    <3>3. r.of = q
      BY <3>2 DEF OwnInv, OwnResponses
    <3>4. Truthful(r)
      BY <3>1 DEF ServiceInv, InSystem
    <3>5. request'[q] \in Request /\ (r.type # "error" => r.type = request'[q].kind)
      BY <1>1, <3>3, <3>4 DEF ServiceInv, Truthful
    <3>6. CASE r.type = "error"
      BY <3>2, <3>5, <3>6, RequestsAreTyped DEF Outcome, Success
    <3>7. CASE r.type # "error"
      <4>1. Outcome(q)' = "success"
        BY <3>2, <3>3, <3>5, <3>7 DEF Outcome, Success
      <4>2. QED
        BY <3>3, <3>4, <3>7, <4>1 DEF Truthful
    <3>8. QED
      BY <3>6, <3>7
  <2>3. QED
    BY <2>1, <2>2
<1>5. PICK result \in {"success", "error", "timeout"} : result = Outcome(q)'
  BY <1>4
<1>6. /\ Outcomes[q] = "pending"
      /\ result = "success" => executions[q] = 1
      /\ Outcomes' = [Outcomes EXCEPT ![q] = result]
      /\ UNCHANGED <<Eligible, executions>>
  <2>1. UNCHANGED Eligible
    BY <1>1 DEF Eligible
  <2>2. QED
    BY <1>1, <1>2, <1>3, <1>4, <1>5, <2>1 DEF Outcomes
<1>7. Service!Finish(q, result)
  BY <1>6 DEF Service!Finish, Outcomes, Eligible
<1>8. QED
  BY <1>7

LEMMA RestartDrops ==
    ASSUME Data, PublicRestart
    PROVE  Service!DropAll
<1> USE DEF Data, Types
<1>1. /\ phase' = [q \in Query |-> IF phase[q] = "waiting" THEN "dropped" ELSE phase[q]]
      /\ UNCHANGED <<request, answer, executions>>
  BY DEF PublicRestart, QM!Restart, walletVars
<1>2. ASSUME NEW q \in Query
      PROVE  Outcome(q)' = IF Outcome(q) = "pending" THEN "dropped" ELSE Outcome(q)
  <2>1. CASE phase[q] = "waiting"
    BY <1>1, <2>1 DEF Outcome, Success
  <2>2. CASE phase[q] # "waiting"
    <3>1. Outcome(q)' = Outcome(q)
      BY <1>1, <2>2, OutcomeStays
    <3>2. Outcome(q) # "pending"
      BY <2>2 DEF Outcome, Success, QM!Phase
    <3>3. QED
      BY <3>1, <3>2
  <2>3. QED
    BY <2>1, <2>2
<1>3. Outcomes' = [q \in Query |-> IF Outcomes[q] = "pending" THEN "dropped" ELSE Outcomes[q]]
  BY <1>2 DEF Outcomes
<1>4. UNCHANGED <<Eligible, executions>>
  BY <1>1 DEF Eligible
<1>5. QED
  BY <1>3, <1>4 DEF Service!DropAll, Outcomes, Eligible

LEMMA WalletExecutes ==
    ASSUME Data, OnceInv, ServiceInv, NEW q \in Query, WalletExecute(q)
    PROVE  Service!Execute(q)
<1>1. wallet[q] = "posted" /\ executions[q] = 0
  BY DEF WalletExecute, OnceInv, ExecutedOnce
<1>2. q \in Eligible
  BY <1>1 DEF Eligible, ServiceInv
<1>3. executions' = [executions EXCEPT ![q] = 1]
  BY <1>1 DEF WalletExecute, Data
<1>4. UNCHANGED <<Outcomes, Eligible>>
  BY DEF WalletExecute, qmVars, Outcomes, Outcome, Success, Eligible
<1>5. QED
  BY <1>1, <1>2, <1>3, <1>4 DEF Service!Execute, Outcomes, Eligible

LEMMA OthersStutter ==
    ASSUME UNCHANGED <<phase, request, answer, executions>>
    PROVE  UNCHANGED Service!vars
<1>1. UNCHANGED <<Outcomes, Eligible>>
  BY DEF Outcomes, Outcome, Success, Eligible
<1>2. QED
  BY <1>1 DEF Service!vars, Outcomes, Eligible

LEMMA ServiceStep ==
    TypeOK /\ OnceInv /\ OwnInv' /\ ServiceInv /\ ServiceInv' /\ [Next]_vars
        => [Service!Next]_(Service!vars)
<1> SUFFICES ASSUME TypeOK, OnceInv, OwnInv', ServiceInv, ServiceInv', [Next]_vars
             PROVE  Service!Next \/ UNCHANGED Service!vars
  OBVIOUS
<1>d. Data
  BY DataOfTypeOK
<1>1. ASSUME NEW q \in Query, NEW id \in Id, NEW req \in Request, HttpRequest(q, id, req)
      PROVE  Service!Next
  BY <1>d, <1>1, AcceptSubmits DEF Service!Next
<1>2. ASSUME NEW q \in Query, WaitReturn(q) \/ WaitTimeout(q)
      PROVE  Service!Next
  BY <1>d, <1>2, WaitFinishes DEF Service!Next
<1>3. CASE PublicRestart
  BY <1>d, <1>3, RestartDrops DEF Service!Next
<1>4. ASSUME NEW q \in Query, WalletExecute(q)
      PROVE  Service!Next
  BY <1>d, <1>4, WalletExecutes DEF Service!Next
<1>5. ASSUME UNCHANGED <<phase, request, answer>>, ~\E q \in Query : WalletExecute(q)
      PROVE  UNCHANGED Service!vars
  <2>1. UNCHANGED executions
    BY <1>5 DEF Next, PublicSide, PrivateSide, Environment, HttpRequest, WaitReturn, WaitTimeout,
       PollArrives, ReplyToPoll, ResolveResponse, PublicRestart, Poll, PollOk, PollErr, Refuse,
       Forward, WalletReplies, WalletFails, PrivateRestart, CallLost, vars, walletVars
  <2>2. QED
    BY <1>5, <2>1, OthersStutter
<1>6. QED
  BY <1>1, <1>2, <1>3, <1>4, <1>5, OthersKeepRequests

\* With ids that are never drawn twice, the mirror is a service that executes a
\* request at most once, and only after it was accepted and if it may be, and that
\* reports success only of a request it has executed, whatever fails.
THEOREM MirrorIsAService ==
    ASSUME FreshIds
    PROVE  Spec => ImplementsService
<1>1. Init => Service!Init
  <2> SUFFICES ASSUME Init PROVE Service!Init
    OBVIOUS
  <2>1. Outcomes = [q \in Query |-> "none"]
    BY DEF Init, QM!Init, Outcomes, Outcome, Success
  <2>2. Eligible = {}
    BY DEF Init, QM!Init, Eligible
  <2>3. QED
    BY <2>1, <2>2 DEF Init, Service!Init, Outcomes, Eligible
<1>2. Spec => []OwnInv
  BY OwnAlways
<1>3. QED
  BY <1>1, <1>2, ServiceStep, TypeCorrect, OnceAlways, ServiceInvAlways, PTL
  DEF Spec, ImplementsService, Service!Spec
=============================================================================
