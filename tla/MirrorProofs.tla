---------------------------- MODULE MirrorProofs ----------------------------
(***************************************************************************)
(* Proofs about Mirror, for any number of clients, ids, calls and workers. *)
(***************************************************************************)
EXTENDS Mirror, TLAPS

\* The theorems of QueryManagerProofs, about the variables of the public side.
QMP == INSTANCE QueryManagerProofs

LEMMA Nothing ==
    /\ None \notin Query \cup Request \cup Response
    /\ None \notin Id
    /\ None \notin Call
BY MirrorConstants

-----------------------------------------------------------------------------
(* The public side uses the query manager by its operations only, so what  *)
(* is proved of the query manager with open callers holds in the mirror.   *)

LEMMA ManagerInit == Init => QMP!Init
BY DEF Init, QM!Init, QMP!Init, QM!EmptyMap, QMP!EmptyMap

LEMMA ManagerType == QM!TypeOK <=> QMP!TypeOK
BY DEF QM!TypeOK, QMP!TypeOK, QM!Phase, QMP!Phase

LEMMA ManagerStep == TypeOK /\ [Next]_vars => [QMP!Next]_(QMP!vars)
<1> SUFFICES ASSUME TypeOK, [Next]_vars
             PROVE  QMP!Next \/ UNCHANGED qmVars
  BY DEF qmVars, QMP!vars
<1>1. ASSUME NEW q \in Query, NEW id \in Id, NEW req \in Request, HttpRequest(q, id, req)
      PROVE  QMP!Next
  <2>1. QMP!EnqueueQuery(q, id, req)
    BY <1>1 DEF HttpRequest, QM!EnqueueQuery, QMP!EnqueueQuery, QM!UnusedId, QMP!UnusedId
  <2>2. QED
    BY <2>1 DEF QMP!Next
<1>2. ASSUME NEW q \in Query, WaitReturn(q) \/ WaitTimeout(q)
      PROVE  QMP!Next
  <2>1. QMP!WaitReturn(q) \/ QMP!WaitTimeout(q)
    BY <1>2 DEF WaitReturn, WaitTimeout, QM!WaitReturn, QMP!WaitReturn,
                QM!WaitTimeout, QMP!WaitTimeout
  <2>2. QED
    BY <2>1 DEF QMP!Next
<1>3. ASSUME NEW c \in Call, NEW id \in Id, ResolveResponse(c, id)
      PROVE  QMP!Next
  <2>1. call[c].args[id] \in Response
    BY <1>3 DEF ResolveResponse, TypeOK
  <2>2. QMP!ResolveQuery(id, call[c].args[id])
    BY <1>3 DEF ResolveResponse, QM!ResolveQuery, QMP!ResolveQuery,
                QM!ResolveUnknown, QMP!ResolveUnknown, QM!ResolveKnown, QMP!ResolveKnown,
                QM!vars, QMP!vars
  <2>3. QED
    BY <2>1, <2>2 DEF QMP!Next
<1>4. ASSUME NEW c \in Call, ReplyToPoll(c)
      PROVE  QMP!Next
  <2>1. QMP!GetPendingRequests
    BY <1>4 DEF ReplyToPoll, QM!GetPendingRequests, QMP!GetPendingRequests,
                QM!EmptyMap, QMP!EmptyMap, QM!Inserted, QMP!Inserted
  <2>2. QED
    BY <2>1 DEF QMP!Next
<1>5. CASE PublicRestart
  <2>1. QMP!Restart
    BY <1>5 DEF PublicRestart, QM!Restart, QMP!Restart, QM!EmptyMap, QMP!EmptyMap
  <2>2. QED
    BY <2>1 DEF QMP!Next
<1>6. CASE \E c \in Call : PollArrives(c)
  BY <1>6 DEF PollArrives
<1>7. CASE PrivateSide
  BY <1>7 DEF PrivateSide, Poll, PollOk, PollErr, Refuse, Forward, WalletReplies,
              WalletFails, PrivateRestart
<1>8. CASE Environment
  BY <1>8 DEF Environment, CallLost, WalletExecute
<1>9. QED
  BY <1>1, <1>2, <1>3, <1>4, <1>5, <1>6, <1>7, <1>8 DEF Next, PublicSide, vars

-----------------------------------------------------------------------------
(* Types.                                                                  *)

MaybeQuery == Query \cup {None}
MaybeResponse == Response \cup {None}
CallRecord == [state : CallState, args : [Id -> MaybeResponse], reply : [Id -> MaybeQuery]]

LEMMA FreeCallType ==
    /\ NoResponses \in [Id -> MaybeResponse]
    /\ QM!EmptyMap \in [Id -> MaybeQuery]
    /\ FreeCall \in CallRecord
BY DEF NoResponses, QM!EmptyMap, FreeCall, CallRecord, CallState, MaybeQuery, MaybeResponse

LEMMA AbandonedType ==
    ASSUME TypeOK, NEW c \in Call
    PROVE  Abandoned(c) \in [Call -> CallRecord]
BY FreeCallType DEF Abandoned, TypeOK, CallRecord, MaybeQuery, MaybeResponse

\* What Respond does, in the terms of the invariants below.
LEMMA RespondEffect ==
    ASSUME TypeOK, NEW id \in Id, NEW type \in ResponseType, batch[id] # None,
           Respond(id, type)
    PROVE  /\ mirrorResponses' \in [Id -> MaybeResponse]
           /\ mirrorResponses'[id].of = batch[id]
           /\ \A i \in Id \ {id} : mirrorResponses'[i] = mirrorResponses[i]
           /\ batch' \in [Id -> MaybeQuery]
           /\ batch'[id] = None
           /\ \A i \in Id \ {id} : batch'[i] = batch[i]
           /\ posting' = None
<1>1. batch[id] \in Query
  BY DEF TypeOK
<1>2. [type |-> type, of |-> batch[id]] \in Response
  BY <1>1 DEF Response
<1>3. QED
  BY <1>2 DEF Respond, TypeOK, MaybeQuery, MaybeResponse

LEMMA RequiredType == RequiredKind \in ResponseType /\ "error" \in ResponseType
BY DEF RequiredKind, ResponseType

\* The polling loop is a single thread: it polls with an empty batch, and the
\* request it has posted is one of the batch.
OneThread ==
    /\ awaiting # None => posting = None /\ \A id \in Id : batch[id] = None
    /\ posting # None => batch[posting] # None

LEMMA TypeStep == TypeOK /\ OneThread /\ [Next]_vars => TypeOK'
<1> SUFFICES ASSUME TypeOK, OneThread, [Next]_vars
             PROVE  TypeOK'
  OBVIOUS
<1> DEFINE CallOK == call \in [Call -> CallRecord]
           PrivateOK == /\ awaiting \in Call \cup {None}
                        /\ batch \in [Id -> MaybeQuery]
                        /\ posting \in Id \cup {None}
                        /\ mirrorResponses \in [Id -> MaybeResponse]
           WalletOK == /\ issued \subseteq Id
                       /\ wallet \in [Query -> {"none", "posted", "executed"}]
                       /\ executions \in [Query -> 0..MaxExecutions]
<1>t. /\ CallOK /\ PrivateOK /\ WalletOK
      /\ pendingRequests \in [Id -> MaybeQuery]
  BY DEF TypeOK, QM!TypeOK, CallRecord, MaybeQuery, MaybeResponse
<1>m. QM!TypeOK'
  <2>1. QMP!TypeOK
    BY ManagerType DEF TypeOK
  <2>2. QMP!TypeOK'
    BY <2>1, ManagerStep, Nothing, QMP!TypeStep
  <2>3. QED
    BY <2>2 DEF QM!TypeOK, QMP!TypeOK, QM!Phase, QMP!Phase
<1>s. SUFFICES CallOK' /\ PrivateOK' /\ WalletOK'
  BY <1>m DEF TypeOK, CallRecord, MaybeQuery, MaybeResponse
<1> USE <1>t
<1>1. ASSUME NEW q \in Query, NEW id \in Id, NEW req \in Request, HttpRequest(q, id, req)
      PROVE  CallOK' /\ PrivateOK' /\ WalletOK'
  BY <1>1 DEF HttpRequest, privateVars, walletVars
<1>2. ASSUME NEW q \in Query, WaitReturn(q) \/ WaitTimeout(q)
      PROVE  CallOK' /\ PrivateOK' /\ WalletOK'
  BY <1>2 DEF WaitReturn, WaitTimeout, privateVars, walletVars
<1>3. ASSUME NEW c \in Call, PollArrives(c)
      PROVE  CallOK' /\ PrivateOK' /\ WalletOK'
  BY <1>3 DEF PollArrives, privateVars, walletVars, CallRecord, CallState
<1>4. ASSUME NEW c \in Call, ReplyToPoll(c)
      PROVE  CallOK' /\ PrivateOK' /\ WalletOK'
  BY <1>4, FreeCallType DEF ReplyToPoll, privateVars, walletVars, CallRecord, CallState
<1>5. ASSUME NEW c \in Call, NEW id \in Id, ResolveResponse(c, id)
      PROVE  CallOK' /\ PrivateOK' /\ WalletOK'
  BY <1>5 DEF ResolveResponse, privateVars, walletVars, CallRecord, MaybeResponse
<1>6. CASE PublicRestart
  BY <1>6, FreeCallType DEF PublicRestart, privateVars, walletVars, CallRecord, CallState
<1>7. ASSUME NEW c \in Call, Poll(c)
      PROVE  CallOK' /\ PrivateOK' /\ WalletOK'
  BY <1>7 DEF Poll, walletVars, CallRecord, CallState
<1>8. ASSUME NEW c \in Call, PollOk(c)
      PROVE  CallOK' /\ PrivateOK' /\ WalletOK'
  BY <1>8, FreeCallType DEF PollOk, walletVars, CallRecord
<1>9. ASSUME NEW c \in Call, PollErr(c)
      PROVE  CallOK' /\ PrivateOK' /\ WalletOK'
  BY <1>9, AbandonedType DEF PollErr, walletVars
<1>10. ASSUME NEW id \in Id, Refuse(id)
       PROVE  CallOK' /\ PrivateOK' /\ WalletOK'
  BY <1>10, RespondEffect, RequiredType DEF Refuse, walletVars
<1>11. ASSUME NEW id \in Id, Forward(id)
       PROVE  CallOK' /\ PrivateOK' /\ WalletOK'
  BY <1>11 DEF Forward
<1>12. ASSUME NEW id \in Id, WalletReplies(id) \/ WalletFails(id)
       PROVE  CallOK' /\ PrivateOK' /\ WalletOK'
  <2>1. batch[id] # None
    BY <1>12, Nothing DEF OneThread, WalletReplies, WalletFails
  <2>2. QED
    BY <1>12, <2>1, RespondEffect, RequiredType DEF WalletReplies, WalletFails, walletVars
<1>13. CASE PrivateRestart
  BY <1>13, FreeCallType, AbandonedType DEF PrivateRestart, walletVars
<1>14. ASSUME NEW c \in Call, CallLost(c)
       PROVE  CallOK' /\ PrivateOK' /\ WalletOK'
  BY <1>14, FreeCallType DEF CallLost, privateVars, walletVars
<1>15. ASSUME NEW q \in Query, WalletExecute(q)
       PROVE  CallOK' /\ PrivateOK' /\ WalletOK'
  BY <1>15 DEF WalletExecute, privateVars, MaxExecutions
<1>16. CASE UNCHANGED vars
  BY <1>16 DEF vars, privateVars, walletVars
<1>17. QED
  BY <1>1, <1>2, <1>3, <1>4, <1>5, <1>6, <1>7, <1>8, <1>9, <1>10, <1>11, <1>12,
     <1>13, <1>14, <1>15, <1>16 DEF Next, PublicSide, PrivateSide, Environment

LEMMA OneThreadStep == TypeOK /\ OneThread /\ [Next]_vars => OneThread'
<1> SUFFICES ASSUME TypeOK, OneThread, [Next]_vars
             PROVE  OneThread'
  OBVIOUS
<1>1. CASE UNCHANGED <<awaiting, batch, posting>>
  BY <1>1 DEF OneThread
<1>2. ASSUME NEW c \in Call, Poll(c)
      PROVE  OneThread'
  BY <1>2 DEF Poll, Polling, QM!EmptyMap, OneThread
<1>3. ASSUME NEW c \in Call, PollOk(c)
      PROVE  OneThread'
  BY <1>3, Nothing DEF PollOk, OneThread
<1>4. ASSUME NEW c \in Call, PollErr(c)
      PROVE  OneThread'
  BY <1>4 DEF PollErr, OneThread
<1>5. ASSUME NEW id \in Id, Refuse(id) \/ WalletReplies(id) \/ WalletFails(id)
      PROVE  OneThread'
  <2>1. awaiting = None /\ UNCHANGED awaiting
    BY <1>5, Nothing DEF Refuse, WalletReplies, WalletFails, Processing, OneThread
  <2>2. posting' = None
    BY <1>5 DEF Refuse, WalletReplies, WalletFails, Respond
  <2>3. QED
    BY <2>1, <2>2 DEF OneThread
<1>6. ASSUME NEW id \in Id, Forward(id)
      PROVE  OneThread'
  BY <1>6 DEF Forward, Processing, OneThread
<1>7. CASE PrivateRestart
  BY <1>7 DEF PrivateRestart, OneThread
<1>8. CASE PublicSide \/ Environment
  BY <1>1, <1>8 DEF PublicSide, Environment, HttpRequest, WaitReturn, WaitTimeout,
     PollArrives, ReplyToPoll, ResolveResponse, PublicRestart, CallLost, WalletExecute, privateVars
<1>9. CASE UNCHANGED vars
  BY <1>1, <1>9 DEF vars, privateVars
<1>10. QED
  BY <1>2, <1>3, <1>4, <1>5, <1>6, <1>7, <1>8, <1>9 DEF Next, PrivateSide

\* Every variable of the mirror keeps its type; in particular a response always
\* has a request it answers.
THEOREM TypeCorrect == Spec => []TypeOK
<1>1. Init => TypeOK /\ OneThread
  <2>1. Init => QM!TypeOK
    BY DEF Init, QM!Init, QM!TypeOK, QM!EmptyMap, QM!Phase
  <2>2. QED
    BY <2>1, FreeCallType DEF Init, TypeOK, OneThread, CallRecord, MaybeQuery, MaybeResponse, MaxExecutions
<1>2. TypeOK /\ OneThread /\ [Next]_vars => TypeOK' /\ OneThread'
  BY TypeStep, OneThreadStep
<1>3. QED
  BY <1>1, <1>2, PTL DEF Spec

LEMMA OneThreadAlways == Spec => []OneThread
<1>1. Init => OneThread
  BY DEF Init, OneThread, QM!EmptyMap
<1>2. QED
  BY <1>1, OneThreadStep, TypeCorrect, PTL DEF Spec

\* The maps of the public side hold every unanswered query of the mirror, once.
THEOREM ManagerIsConsistent == Spec => []QM!MapsConsistent
<1>1. Spec => QMP!Spec
  BY ManagerInit, ManagerStep, TypeCorrect, PTL DEF Spec, QMP!Spec
<1>2. QMP!Spec => []QMP!MapsConsistent
  BY Nothing, QMP!MapsAreConsistent
<1>3. QMP!MapsConsistent <=> QM!MapsConsistent
  BY DEF QM!MapsConsistent, QM!DisjointIds, QM!OneEntryPerQuery, QM!EntriesUnresolved,
     QM!NoQueryLost, QMP!MapsConsistent, QMP!DisjointIds, QMP!OneEntryPerQuery,
     QMP!EntriesUnresolved, QMP!NoQueryLost, QM!Keys, QMP!Keys, QM!Entries, QMP!Entries
<1>4. QED
  BY <1>1, <1>2, <1>3, PTL

-----------------------------------------------------------------------------
(* A request is executed at most once.  The invariant says where the only  *)
(* copy of a request that the wallet has not seen can be.                  *)

InOnePlace ==
    /\ \A c \in Call, i \in Id :
          call[c].reply[i] # None => awaiting = c /\ call[c].state = "replied"
    /\ \A i, j \in Id : batch[i] # None /\ batch[i] = batch[j] => i = j
    /\ \A c \in Call : \A i, j \in Id :
          call[c].reply[i] # None /\ call[c].reply[i] = call[c].reply[j] => i = j
    /\ \A i, j \in Id : pendingRequests[i] # None => pendingRequests[i] # batch[j]

\* Everything that can still be forwarded was accepted and never posted.
NotPostedYet ==
    /\ \A q \in Query : phase[q] = "idle" =>
          wallet[q] = "none" /\ \A i \in Id : batch[i] # q
    /\ \A i \in Id : pendingRequests[i] # None => wallet[pendingRequests[i]] = "none"
    /\ \A c \in Call, i \in Id : call[c].reply[i] # None =>
          /\ wallet[call[c].reply[i]] = "none"
          /\ phase[call[c].reply[i]] # "idle"
          /\ \A j \in Id : pendingRequests[j] # call[c].reply[i]
    /\ \A i \in Id : batch[i] # None /\ i # posting => wallet[batch[i]] = "none"

ExecutedOnce ==
    \A q \in Query : executions[q] = IF wallet[q] = "executed" THEN 1 ELSE 0

OnceInv == InOnePlace /\ NotPostedYet /\ ExecutedOnce

LEMMA QueuedRequests ==
    ASSUME TypeOK, QM!MapsConsistent
    PROVE  /\ \A i, j \in Id :
                pendingRequests[i] # None /\ pendingRequests[i] = pendingRequests[j] => i = j
           /\ \A i \in Id : pendingRequests[i] # None =>
                pendingRequests[i] \in Query /\ phase[pendingRequests[i]] # "idle"
BY DEF TypeOK, QM!TypeOK, QM!MapsConsistent, QM!OneEntryPerQuery, QM!EntriesUnresolved,
       QM!Entries, QM!Keys

\* A step that moves and posts no request, and only forgets some.
Forgets ==
    /\ \A i \in Id : pendingRequests'[i] \in {pendingRequests[i], None}
    /\ \A i \in Id : batch'[i] \in {batch[i], None}
    /\ \A i \in Id : batch'[i] # None /\ i # posting' => i # posting
    /\ \A c \in Call, i \in Id : call'[c].reply[i] # None =>
          /\ call'[c].reply[i] = call[c].reply[i]
          /\ call'[c].state = call[c].state
          /\ awaiting' = awaiting
    /\ \A q \in Query : phase'[q] = "idle" => phase[q] = "idle"
    /\ UNCHANGED walletVars

LEMMA ForgettingIsSafe ==
    ASSUME TypeOK, TypeOK', OnceInv, Forgets
    PROVE  OnceInv'
<1>1. /\ \A i \in Id : batch[i] \in Query \cup {None} /\ pendingRequests[i] \in Query \cup {None}
      /\ \A c \in Call, i \in Id : call[c].reply[i] \in Query \cup {None}
  BY DEF TypeOK, QM!TypeOK
<1>2. InOnePlace'
  <2>1. \A c \in Call, i \in Id :
          call'[c].reply[i] # None => awaiting' = c /\ call'[c].state = "replied"
    BY DEF Forgets, OnceInv, InOnePlace
  <2>2. \A i, j \in Id : batch'[i] # None /\ batch'[i] = batch'[j] => i = j
    BY DEF Forgets, OnceInv, InOnePlace
  <2>3. \A c \in Call : \A i, j \in Id :
          call'[c].reply[i] # None /\ call'[c].reply[i] = call'[c].reply[j] => i = j
    BY DEF Forgets, OnceInv, InOnePlace
  <2>4. \A i, j \in Id : pendingRequests'[i] # None => pendingRequests'[i] # batch'[j]
    BY DEF Forgets, OnceInv, InOnePlace
  <2>5. QED
    BY <2>1, <2>2, <2>3, <2>4 DEF InOnePlace
<1>3. NotPostedYet'
  BY <1>1, Nothing DEF Forgets, OnceInv, NotPostedYet, walletVars
<1>4. QED
  BY <1>2, <1>3 DEF Forgets, OnceInv, ExecutedOnce, walletVars

LEMMA ForgettingSteps ==
    ASSUME TypeOK, OneThread, OnceInv,
           \/ \E q \in Query : WaitReturn(q) \/ WaitTimeout(q)
           \/ \E c \in Call : PollArrives(c) \/ Poll(c) \/ PollErr(c) \/ CallLost(c)
           \/ \E c \in Call, id \in Id : ResolveResponse(c, id)
           \/ \E id \in Id : Refuse(id) \/ WalletReplies(id) \/ WalletFails(id)
           \/ PublicRestart \/ PrivateRestart
           \/ UNCHANGED vars
    PROVE  Forgets
<1> DEFINE ReplyKept(c, i) ==
              call'[c].reply[i] # None =>
                 /\ call'[c].reply[i] = call[c].reply[i]
                 /\ call'[c].state = call[c].state
                 /\ awaiting' = awaiting
<1>t. /\ call \in [Call -> CallRecord]
      /\ pendingRequests \in [Id -> MaybeQuery] /\ batch \in [Id -> MaybeQuery]
      /\ phase \in [Query -> QM!Phase]
  BY DEF TypeOK, QM!TypeOK, CallRecord, MaybeQuery, MaybeResponse
<1>r. \A c \in Call, i \in Id :
         call[c].reply[i] # None => awaiting = c /\ call[c].state = "replied"
  BY DEF OnceInv, InOnePlace
<1>f. /\ \A i \in Id : FreeCall.reply[i] = None
      /\ \A st \in CallState, i \in Id : [FreeCall EXCEPT !.state = st].reply[i] = None
  BY DEF FreeCall, QM!EmptyMap
<1>1. CASE \E q \in Query : WaitReturn(q) \/ WaitTimeout(q)
  <2>1. UNCHANGED <<pendingRequests, call, privateVars, walletVars>>
    BY <1>1 DEF WaitReturn, WaitTimeout, QM!WaitReturn, QM!WaitTimeout
  <2>2. \A q \in Query : phase'[q] = "idle" => phase[q] = "idle"
    BY <1>1, <1>t DEF WaitReturn, WaitTimeout, QM!WaitReturn, QM!WaitTimeout
  <2>3. QED
    BY <2>1, <2>2 DEF Forgets, privateVars
<1>2. ASSUME NEW c \in Call, PollArrives(c) \/ Poll(c) \/ CallLost(c)
      PROVE  Forgets
  <2>1. \A d \in Call, i \in Id : ReplyKept(d, i)
    BY <1>2, <1>t, <1>r, <1>f, Nothing DEF PollArrives, Poll, Polling, CallLost, privateVars, CallRecord
  <2>2. QED
    BY <1>2, <2>1 DEF PollArrives, Poll, CallLost, Forgets, qmVars, privateVars
<1>3. ASSUME NEW c \in Call, PollErr(c)
      PROVE  Forgets
  <2>1. \A d \in Call, i \in Id : ReplyKept(d, i)
    BY <1>3, <1>t, <1>r, <1>f DEF PollErr, Abandoned
  <2>2. QED
    BY <1>3, <2>1 DEF PollErr, Forgets, qmVars
<1>4. ASSUME NEW c \in Call, NEW id \in Id, ResolveResponse(c, id)
      PROVE  Forgets
  <2>1. UNCHANGED <<pendingRequests, phase, privateVars, walletVars>>
    BY <1>4 DEF ResolveResponse, QM!ResolveQuery, QM!ResolveUnknown, QM!ResolveKnown, QM!vars
  <2>2. \A d \in Call, i \in Id : ReplyKept(d, i)
    BY <1>4, <1>t, <2>1 DEF ResolveResponse, CallRecord, privateVars
  <2>3. QED
    BY <2>1, <2>2 DEF Forgets, privateVars
<1>5. ASSUME NEW id \in Id, Refuse(id) \/ WalletReplies(id) \/ WalletFails(id)
      PROVE  Forgets
  <2>1. \A i \in Id : batch'[i] \in {batch[i], None}
    BY <1>5, <1>t DEF Refuse, WalletReplies, WalletFails, Respond
  <2>2. \A i \in Id : batch'[i] # None => i # posting
    BY <1>5, <1>t, Nothing DEF Refuse, WalletReplies, WalletFails, Respond, Processing
  <2>3. QED
    BY <1>5, <2>1, <2>2 DEF Forgets, Refuse, WalletReplies, WalletFails, qmVars
<1>6. CASE PublicRestart
  <2>1. \A d \in Call, i \in Id : ReplyKept(d, i)
    BY <1>6, <1>t, <1>f DEF PublicRestart, privateVars, CallState
  <2>2. QED
    BY <1>6, <2>1 DEF PublicRestart, QM!Restart, QM!EmptyMap, Forgets, privateVars
<1>7. CASE PrivateRestart
  <2>1. \A d \in Call, i \in Id : ReplyKept(d, i)
    BY <1>7, <1>t, <1>r, <1>f, Nothing DEF PrivateRestart, Abandoned, TypeOK
  <2>2. QED
    BY <1>7, <2>1 DEF PrivateRestart, QM!EmptyMap, Forgets, qmVars
<1>8. CASE UNCHANGED vars
  BY <1>8 DEF vars, qmVars, privateVars, Forgets
<1>9. QED
  BY <1>1, <1>2, <1>3, <1>4, <1>5, <1>6, <1>7, <1>8

LEMMA OnceStep ==
    ASSUME TypeOK, TypeOK', OneThread, QM!MapsConsistent, OnceInv, [Next]_vars
    PROVE  OnceInv'
<1>t. /\ call \in [Call -> CallRecord]
      /\ pendingRequests \in [Id -> MaybeQuery] /\ batch \in [Id -> MaybeQuery]
      /\ phase \in [Query -> QM!Phase]
      /\ wallet \in [Query -> {"none", "posted", "executed"}]
      /\ executions \in [Query -> 0..MaxExecutions]
  BY DEF TypeOK, QM!TypeOK, CallRecord, MaybeQuery, MaybeResponse
<1>1. ASSUME NEW q \in Query, NEW id \in Id, NEW req \in Request, HttpRequest(q, id, req)
      PROVE  OnceInv'
  <2>1. /\ phase[q] = "idle"
        /\ pendingRequests' = [pendingRequests EXCEPT ![id] = q]
        /\ phase' = [phase EXCEPT ![q] = "waiting"]
        /\ UNCHANGED <<call, privateVars, walletVars>>
    BY <1>1 DEF HttpRequest, QM!EnqueueQuery
  <2>2. /\ wallet[q] = "none"
        /\ \A i \in Id : batch[i] # q
        /\ \A c \in Call, i \in Id : call[c].reply[i] # None => call[c].reply[i] # q
    BY <2>1 DEF OnceInv, NotPostedYet
  <2>3. InOnePlace'
    BY <2>1, <2>2, <1>t DEF OnceInv, InOnePlace, privateVars
  <2>4. NotPostedYet'
    BY <2>1, <2>2, <1>t, Nothing DEF OnceInv, NotPostedYet, privateVars, walletVars, MaybeQuery, CallRecord
  <2>5. QED
    BY <2>1, <2>3, <2>4 DEF OnceInv, ExecutedOnce, walletVars
<1>2. ASSUME NEW c \in Call, ReplyToPoll(c)
      PROVE  OnceInv'
  <2>1. /\ \A i \in Id : pendingRequests'[i] = None
        /\ UNCHANGED <<phase, privateVars, walletVars>>
    BY <1>2 DEF ReplyToPoll, QM!GetPendingRequests, QM!EmptyMap
  <2>2. \A d \in Call \ {c} : call'[d] = call[d]
    BY <1>2, <1>t DEF ReplyToPoll
  <2>3. \A i \in Id :
           call'[c].reply[i] # None =>
              /\ awaiting = c
              /\ call'[c].state = "replied"
              /\ call'[c].reply[i] = pendingRequests[i]
    BY <1>2, <1>t DEF ReplyToPoll, FreeCall, QM!EmptyMap
  <2>4. \A i \in Id : awaiting # None => batch[i] = None
    BY DEF OneThread
  <2>5. InOnePlace'
    BY <2>1, <2>2, <2>3, QueuedRequests DEF OnceInv, InOnePlace, privateVars
  <2>6. NotPostedYet'
    <3>1. \A d \in Call, i \in Id : call'[d].reply[i] # None =>
             /\ wallet[call'[d].reply[i]] = "none"
             /\ phase[call'[d].reply[i]] # "idle"
             /\ call'[d].reply[i] # None
      BY <2>2, <2>3, QueuedRequests DEF OnceInv, NotPostedYet
    <3>2. QED
      BY <2>1, <3>1 DEF OnceInv, NotPostedYet, privateVars, walletVars
  <2>7. QED
    BY <2>1, <2>5, <2>6 DEF OnceInv, ExecutedOnce, walletVars
<1>3. ASSUME NEW c \in Call, PollOk(c)
      PROVE  OnceInv'
  <2>1. /\ awaiting = c
        /\ batch' = call[c].reply
        /\ UNCHANGED <<pendingRequests, phase, posting, walletVars>>
    BY <1>3 DEF PollOk, qmVars
  <2>2. \A d \in Call, i \in Id : call'[d].reply[i] = None
    BY <1>3, <1>t DEF PollOk, FreeCall, QM!EmptyMap, OnceInv, InOnePlace
  <2>3. InOnePlace'
    BY <2>1, <2>2, <1>t, Nothing DEF OnceInv, InOnePlace, NotPostedYet
  <2>4. NotPostedYet'
    BY <2>1, <2>2, <1>t, Nothing DEF OnceInv, NotPostedYet, walletVars
  <2>5. QED
    BY <2>1, <2>3, <2>4 DEF OnceInv, ExecutedOnce, walletVars
<1>4. ASSUME NEW id \in Id, Forward(id)
      PROVE  OnceInv'
  <2> DEFINE q == batch[id]
  <2>1. /\ q \in Query
        /\ awaiting = None /\ posting = None /\ posting' = id
        /\ wallet' = [wallet EXCEPT ![q] = "posted"]
        /\ UNCHANGED <<pendingRequests, phase, call, awaiting, batch, executions>>
    BY <1>4, <1>t DEF Forward, Processing, qmVars, MaybeQuery
  <2>2. wallet[q] = "none" /\ phase[q] # "idle"
    BY <2>1, Nothing DEF OnceInv, NotPostedYet
  <2>3. /\ \A i \in Id : pendingRequests[i] # None => pendingRequests[i] # q
        /\ \A c \in Call, i \in Id : call[c].reply[i] = None
        /\ \A i \in Id \ {id} : batch[i] # q
    BY <2>1, Nothing DEF OnceInv, InOnePlace
  <2>4. InOnePlace'
    BY <2>1 DEF OnceInv, InOnePlace
  <2>5. NotPostedYet'
    BY <2>1, <2>2, <2>3, <1>t, Nothing DEF OnceInv, NotPostedYet, MaybeQuery
  <2>6. ExecutedOnce'
    BY <2>1, <2>2, <1>t DEF OnceInv, ExecutedOnce
  <2>7. QED
    BY <2>4, <2>5, <2>6 DEF OnceInv
<1>5. ASSUME NEW q \in Query, WalletExecute(q)
      PROVE  OnceInv'
  <2>1. /\ wallet[q] = "posted"
        /\ wallet' = [wallet EXCEPT ![q] = "executed"]
        /\ executions' = [executions EXCEPT ![q] = @ + 1]
        /\ UNCHANGED <<pendingRequests, phase, call, privateVars>>
    BY <1>5 DEF WalletExecute, qmVars
  <2>2. InOnePlace'
    BY <2>1 DEF OnceInv, InOnePlace, privateVars
  <2>3. NotPostedYet'
    BY <2>1, <1>t DEF OnceInv, NotPostedYet, privateVars
  <2>4. ExecutedOnce'
    BY <2>1, <1>t DEF OnceInv, ExecutedOnce
  <2>5. QED
    BY <2>2, <2>3, <2>4 DEF OnceInv
<1>6. QED
  BY <1>1, <1>2, <1>3, <1>4, <1>5, ForgettingSteps, ForgettingIsSafe
  DEF Next, PublicSide, PrivateSide, Environment

LEMMA OnceAlways == Spec => []OnceInv
<1>1. Init => OnceInv
  BY Nothing DEF Init, QM!Init, QM!EmptyMap, FreeCall, OnceInv, InOnePlace, NotPostedYet, ExecutedOnce
<1>2. QED
  BY <1>1, OnceStep, TypeCorrect, OneThreadAlways, ManagerIsConsistent, PTL DEF Spec

\* The wallet executes no request twice, whichever polls fail and whichever side
\* is restarted.
THEOREM ExecutedAtMostOnce == Spec => []AtMostOnceExecution
<1>1. OnceInv => AtMostOnceExecution
  BY DEF OnceInv, ExecutedOnce, AtMostOnceExecution
<1>2. QED
  BY <1>1, OnceAlways, PTL

-----------------------------------------------------------------------------
(* Answers reach the clients they are for, when no id is drawn twice.      *)
(* Whatever travels under an id, in either direction, belongs to the query *)
(* the id was drawn for.                                                   *)

Belongs(id, q) ==
    \/ pendingRequests[id] = q
    \/ pendingResponses[id] = q
    \/ batch[id] = q
    \/ mirrorResponses[id] # None /\ mirrorResponses[id].of = q
    \/ \E c \in Call : \/ call[c].reply[id] = q
                       \/ call[c].args[id] # None /\ call[c].args[id].of = q

OneOwner ==
    \A id \in Id : \A q \in Query : Belongs(id, q) =>
        /\ id \in issued
        /\ \A p \in Query : Belongs(id, p) => p = q

OwnResponses ==
    \A q \in Query : /\ response[q] # None => response[q].of = q
                     /\ phase[q] = "answered" => answer[q].of = q

OwnInv == OneOwner /\ OwnResponses

\* A step after which nothing travels under an id that did not before.
BringsNothing ==
    /\ \A id \in Id : \A q \in Query : Belongs(id, q)' => Belongs(id, q)
    /\ issued' = issued

LEMMA OwnersKept ==
    ASSUME OneOwner, BringsNothing
    PROVE  OneOwner'
<1>1. SUFFICES ASSUME NEW id \in Id, NEW q \in Query, Belongs(id, q)'
               PROVE  /\ id \in issued'
                      /\ \A p \in Query : Belongs(id, p)' => p = q
  BY DEF OneOwner
<1>2. Belongs(id, q)
  BY <1>1 DEF BringsNothing
<1>3. QED
  BY <1>2 DEF BringsNothing, OneOwner

LEMMA NothingNew ==
    ASSUME TypeOK, OneThread, [Next]_vars,
           ~ \E q \in Query, id \in Id, req \in Request : HttpRequest(q, id, req)
    PROVE  BringsNothing
<1>t. /\ call \in [Call -> CallRecord]
      /\ pendingRequests \in [Id -> MaybeQuery] /\ batch \in [Id -> MaybeQuery]
      /\ pendingResponses \in [Id -> MaybeQuery]
      /\ mirrorResponses \in [Id -> MaybeResponse]
  BY DEF TypeOK, QM!TypeOK, CallRecord, MaybeQuery, MaybeResponse
<1>f. \A i \in Id : FreeCall.reply[i] = None /\ FreeCall.args[i] = None
  BY DEF FreeCall, QM!EmptyMap, NoResponses
<1>1. ASSUME NEW q \in Query, WaitReturn(q) \/ WaitTimeout(q)
      PROVE  BringsNothing
  BY <1>1 DEF WaitReturn, WaitTimeout, QM!WaitReturn, QM!WaitTimeout, BringsNothing, Belongs, privateVars
<1>2. ASSUME NEW c \in Call, PollArrives(c) \/ CallLost(c)
      PROVE  BringsNothing
  <2>1. \A d \in Call, i \in Id :
           /\ call'[d].reply[i] \in {call[d].reply[i], None}
           /\ call'[d].args[i] \in {call[d].args[i], None}
    <3>1. CASE PollArrives(c)
      BY <3>1, <1>t DEF PollArrives, CallRecord
    <3>2. CASE CallLost(c)
      BY <3>2, <1>t, <1>f DEF CallLost
    <3>3. QED
      BY <1>2, <3>1, <3>2
  <2>2. UNCHANGED <<pendingRequests, pendingResponses, batch, mirrorResponses, issued>>
    BY <1>2 DEF PollArrives, CallLost, qmVars, privateVars
  <2>3. QED
    BY <2>1, <2>2, Nothing DEF BringsNothing, Belongs
<1>3. ASSUME NEW c \in Call, ReplyToPoll(c)
      PROVE  BringsNothing
  <2>1. \A d \in Call, i \in Id :
           /\ call'[d].reply[i] \in {call[d].reply[i], pendingRequests[i], None}
           /\ call'[d].args[i] \in {call[d].args[i], None}
    BY <1>3, <1>t, <1>f DEF ReplyToPoll, FreeCall
  <2>2. \A i \in Id :
           /\ pendingRequests'[i] = None
           /\ pendingResponses'[i] \in {pendingResponses[i], pendingRequests[i]}
    BY <1>3 DEF ReplyToPoll, QM!GetPendingRequests, QM!EmptyMap, QM!Inserted
  <2>3. UNCHANGED <<batch, mirrorResponses, issued>>
    BY <1>3 DEF ReplyToPoll, privateVars
  <2>4. QED
    BY <2>1, <2>2, <2>3, Nothing DEF BringsNothing, Belongs
<1>4. ASSUME NEW c \in Call, NEW id \in Id, ResolveResponse(c, id)
      PROVE  BringsNothing
  <2>1. \A d \in Call, i \in Id :
           /\ call'[d].reply[i] = call[d].reply[i]
           /\ call'[d].args[i] \in {call[d].args[i], None}
    BY <1>4, <1>t DEF ResolveResponse, CallRecord
  <2>2. /\ \A i \in Id : pendingResponses'[i] \in {pendingResponses[i], None}
        /\ UNCHANGED <<pendingRequests, batch, mirrorResponses, issued>>
    BY <1>4, <1>t DEF ResolveResponse, QM!ResolveQuery, QM!ResolveUnknown, QM!ResolveKnown, QM!vars, privateVars
  <2>3. QED
    BY <2>1, <2>2, Nothing DEF BringsNothing, Belongs
<1>5. CASE PublicRestart
  <2>1. \A d \in Call, i \in Id :
           /\ call'[d].reply[i] \in {call[d].reply[i], None}
           /\ call'[d].args[i] \in {call[d].args[i], None}
    BY <1>5, <1>t, <1>f DEF PublicRestart, FreeCall
  <2>2. /\ \A i \in Id : pendingResponses'[i] = None /\ pendingRequests'[i] = None
        /\ UNCHANGED <<batch, mirrorResponses, issued>>
    BY <1>5 DEF PublicRestart, QM!Restart, QM!EmptyMap, privateVars
  <2>3. QED
    BY <2>1, <2>2, Nothing DEF BringsNothing, Belongs
<1>6. ASSUME NEW c \in Call, Poll(c)
      PROVE  BringsNothing
  <2>1. \A d \in Call, i \in Id :
           /\ call'[d].reply[i] = call[d].reply[i]
           /\ call'[d].args[i] \in {call[d].args[i], mirrorResponses[i]}
    BY <1>6, <1>t DEF Poll, CallRecord
  <2>2. QED
    BY <1>6, <2>1 DEF Poll, qmVars, BringsNothing, Belongs
<1>7. ASSUME NEW c \in Call, PollOk(c) \/ PollErr(c)
      PROVE  BringsNothing
  <2>1. \A d \in Call, i \in Id :
           /\ call'[d].reply[i] \in {call[d].reply[i], None}
           /\ call'[d].args[i] \in {call[d].args[i], None}
    BY <1>7, <1>t, <1>f DEF PollOk, PollErr, Abandoned
  <2>2. \A i \in Id : /\ batch'[i] \in {batch[i], call[c].reply[i]}
                      /\ mirrorResponses'[i] \in {mirrorResponses[i], None}
    BY <1>7 DEF PollOk, PollErr, NoResponses
  <2>3. UNCHANGED <<pendingRequests, pendingResponses, issued>>
    BY <1>7 DEF PollOk, PollErr, qmVars
  <2>4. QED
    BY <2>1, <2>2, <2>3, Nothing DEF BringsNothing, Belongs
<1>8. ASSUME NEW id \in Id, Refuse(id) \/ WalletReplies(id) \/ WalletFails(id)
      PROVE  BringsNothing
  <2>1. batch[id] # None
    BY <1>8, Nothing DEF Refuse, OneThread, WalletReplies, WalletFails
  <2>2. \E type \in ResponseType : Respond(id, type)
    BY <1>8, RequiredType DEF Refuse, WalletReplies, WalletFails
  <2>3. /\ mirrorResponses'[id].of = batch[id]
        /\ \A i \in Id \ {id} : mirrorResponses'[i] = mirrorResponses[i]
        /\ \A i \in Id : batch'[i] \in {batch[i], None}
    BY <2>1, <2>2, RespondEffect
  <2>4. UNCHANGED <<pendingRequests, pendingResponses, call, issued>>
    BY <1>8 DEF Refuse, WalletReplies, WalletFails, qmVars
  <2>5. QED
    BY <2>3, <2>4, Nothing DEF BringsNothing, Belongs
<1>9. ASSUME NEW id \in Id, Forward(id)
      PROVE  BringsNothing
  BY <1>9 DEF Forward, qmVars, BringsNothing, Belongs
<1>10. CASE PrivateRestart
  <2>1. \A d \in Call, i \in Id :
           /\ call'[d].reply[i] \in {call[d].reply[i], None}
           /\ call'[d].args[i] \in {call[d].args[i], None}
    BY <1>10, <1>t, <1>f DEF PrivateRestart, Abandoned
  <2>2. /\ \A i \in Id : batch'[i] = None /\ mirrorResponses'[i] = None
        /\ UNCHANGED <<pendingRequests, pendingResponses, issued>>
    BY <1>10 DEF PrivateRestart, NoResponses, QM!EmptyMap, qmVars
  <2>3. QED
    BY <2>1, <2>2, Nothing DEF BringsNothing, Belongs
<1>11. ASSUME NEW q \in Query, WalletExecute(q)
       PROVE  BringsNothing
  BY <1>11 DEF WalletExecute, qmVars, privateVars, BringsNothing, Belongs
<1>12. CASE UNCHANGED vars
  BY <1>12 DEF vars, qmVars, privateVars, BringsNothing, Belongs
<1>13. QED
  BY <1>1, <1>2, <1>3, <1>4, <1>5, <1>6, <1>7, <1>8, <1>9, <1>10, <1>11, <1>12
  DEF Next, PublicSide, PrivateSide, Environment

LEMMA OwnStep ==
    ASSUME FreshIds, TypeOK, TypeOK', OneThread, OwnInv, [Next]_vars
    PROVE  OwnInv'
<1>t. /\ call \in [Call -> CallRecord]
      /\ pendingRequests \in [Id -> MaybeQuery] /\ pendingResponses \in [Id -> MaybeQuery]
      /\ response \in [Query -> MaybeResponse] /\ answer \in [Query -> MaybeResponse]
      /\ phase \in [Query -> QM!Phase]
  BY DEF TypeOK, QM!TypeOK, CallRecord, MaybeQuery, MaybeResponse
<1>1. OneOwner'
  <2>1. ASSUME NEW q \in Query, NEW id \in Id, NEW req \in Request, HttpRequest(q, id, req)
        PROVE  OneOwner'
    <3>1. /\ pendingRequests' = [pendingRequests EXCEPT ![id] = q]
          /\ id \notin issued
          /\ issued' = issued \cup {id}
          /\ UNCHANGED <<pendingResponses, call, privateVars>>
      BY <2>1 DEF HttpRequest, QM!EnqueueQuery
    <3>2. \A p \in Query : ~ Belongs(id, p)
      BY <3>1 DEF OwnInv, OneOwner
    <3>3. \A i \in Id, p \in Query : Belongs(i, p)' => Belongs(i, p) \/ (i = id /\ p = q)
      <4>1. \A i \in Id : pendingRequests'[i] = IF i = id THEN q ELSE pendingRequests[i]
        BY <3>1, <1>t
      <4>2. UNCHANGED <<pendingResponses, call, batch, mirrorResponses>>
        BY <3>1 DEF privateVars
      <4>3. QED
        BY <4>1, <4>2 DEF Belongs
    <3>4. QED
      BY <3>1, <3>2, <3>3 DEF OwnInv, OneOwner
  <2>2. CASE ~ \E q \in Query, id \in Id, req \in Request : HttpRequest(q, id, req)
    BY <2>2, NothingNew, OwnersKept DEF OwnInv
  <2>3. QED
    BY <2>1, <2>2
<1>2. OwnResponses'
  <2>1. ASSUME NEW q \in Query, NEW id \in Id, NEW req \in Request, HttpRequest(q, id, req)
        PROVE  OwnResponses'
    BY <2>1, <1>t DEF HttpRequest, QM!EnqueueQuery, OwnInv, OwnResponses
  <2>2. ASSUME NEW c \in Call, NEW id \in Id, ResolveResponse(c, id)
        PROVE  OwnResponses'
    <3>1. CASE UNCHANGED <<response, phase, answer>>
      BY <3>1 DEF OwnInv, OwnResponses
    <3>2. CASE QM!ResolveKnown(id, call[c].args[id])
      <4>1. /\ pendingResponses[id] \in Query
            /\ call[c].args[id] \in Response
        BY <3>2, <2>2, <1>t DEF QM!ResolveKnown, ResolveResponse, CallRecord, MaybeQuery, MaybeResponse
      \* Both the entry and the response have come under id.
      <4>2. call[c].args[id].of = pendingResponses[id]
        <5>1. call[c].args[id].of \in Query
          BY <4>1 DEF Response
        <5>2. Belongs(id, call[c].args[id].of) /\ Belongs(id, pendingResponses[id])
          BY <2>2 DEF Belongs, ResolveResponse
        <5>3. QED
          BY <4>1, <5>1, <5>2 DEF OwnInv, OneOwner
      <4>3. QED
        BY <3>2, <4>1, <4>2, <1>t DEF QM!ResolveKnown, OwnInv, OwnResponses
    <3>3. QED
      BY <2>2, <3>1, <3>2 DEF ResolveResponse, QM!ResolveQuery, QM!ResolveUnknown, QM!vars
  <2>3. ASSUME NEW q \in Query, WaitReturn(q) \/ WaitTimeout(q)
        PROVE  OwnResponses'
    BY <2>3, <1>t DEF WaitReturn, WaitTimeout, QM!WaitReturn, QM!WaitTimeout, OwnInv, OwnResponses
  <2>4. CASE PublicRestart
    BY <2>4, <1>t DEF PublicRestart, QM!Restart, OwnInv, OwnResponses
  <2>5. CASE UNCHANGED <<response, phase, answer>>
    BY <2>5 DEF OwnInv, OwnResponses
  <2>6. ASSUME NEW c \in Call, PollArrives(c) \/ ReplyToPoll(c)
        PROVE  UNCHANGED <<response, phase, answer>>
    BY <2>6 DEF PollArrives, ReplyToPoll, QM!GetPendingRequests, qmVars
  <2>7. CASE PrivateSide \/ Environment \/ UNCHANGED vars
    BY <2>7, <2>5 DEF PrivateSide, Environment, Poll, PollOk, PollErr, Refuse, Forward,
       WalletReplies, WalletFails, PrivateRestart, CallLost, WalletExecute, vars, qmVars
  <2>8. QED
    BY <2>1, <2>2, <2>3, <2>4, <2>5, <2>6, <2>7 DEF Next, PublicSide
<1>3. QED
  BY <1>1, <1>2 DEF OwnInv

LEMMA OwnAlways ==
    ASSUME FreshIds
    PROVE  Spec => []OwnInv
<1>1. Init => OwnInv
  BY Nothing DEF Init, QM!Init, QM!EmptyMap, FreeCall, NoResponses, OwnInv, OneOwner, OwnResponses, Belongs
<1>2. TypeOK /\ TypeOK' /\ OneThread /\ OwnInv /\ [Next]_vars => OwnInv'
  BY OwnStep
<1>3. QED
  BY <1>1, <1>2, TypeCorrect, OneThreadAlways, PTL DEF Spec

\* With ids that are never drawn twice, no client is answered with the response to
\* another client's request, whichever polls fail, are repeated or overtake each
\* other, and whichever side is restarted.
THEOREM AnswersAreOwn ==
    ASSUME FreshIds
    PROVE  Spec => []AnswerMatchesRequest
<1>1. OwnInv => AnswerMatchesRequest
  BY DEF OwnInv, OwnResponses, AnswerMatchesRequest
<1>2. Spec => []OwnInv
  BY OwnAlways
<1>3. QED
  BY <1>1, <1>2, PTL
=============================================================================
