------------------------ MODULE MirrorDeliveryProofs ------------------------
(***************************************************************************)
(* Proofs that the responses of the mirror find the queries they are for,  *)
(* and are not forgotten before: AnswerDeliverable and ClearedAreDelivered;*)
(* that no query is stranded when nothing fails (NothingStranded), and     *)
(* otherwise only with a lost reply (OnlyLostRepliesStrand).  They need no *)
(* assumption on ids.                                                      *)
(***************************************************************************)
EXTENDS MirrorProofs

\* The client waits, and no response has come for it.
Needed(q) == phase[q] = "waiting" /\ response[q] = None

\* What the private side has, gets or hands over under an id.
Travels(id, q) ==
    \/ batch[id] = q
    \/ mirrorResponses[id] # None /\ mirrorResponses[id].of = q
    \/ \E c \in Call : \/ call[c].reply[id] = q
                       \/ call[c].args[id] # None /\ call[c].args[id].of = q

\* Whatever travels and is needed has its entry, under the same id.
EntriesWait ==
    \A id \in Id, q \in Query : Travels(id, q) =>
        /\ phase[q] # "idle"
        /\ Needed(q) => pendingResponses[id] = q

Types ==
    /\ call \in [Call -> CallRecord]
    /\ pendingRequests \in [Id -> MaybeQuery] /\ pendingResponses \in [Id -> MaybeQuery]
    /\ batch \in [Id -> MaybeQuery]
    /\ mirrorResponses \in [Id -> MaybeResponse]
    /\ response \in [Query -> MaybeResponse]
    /\ phase \in [Query -> QM!Phase]
    /\ awaiting \in Call \cup {None}

LEMMA TypesOfTypeOK == TypeOK => Types
BY DEF TypeOK, QM!TypeOK, CallRecord, MaybeQuery, MaybeResponse, Types

LEMMA FreeCallIsEmpty == \A i \in Id : FreeCall.reply[i] = None /\ FreeCall.args[i] = None
BY DEF FreeCall, QM!EmptyMap, NoResponses

-----------------------------------------------------------------------------

\* A query that exists is needed no more once it is not needed.
LEMMA NeedFades ==
    ASSUME Types, [Next]_vars, NEW q \in Query, phase[q] # "idle"
    PROVE  phase'[q] # "idle" /\ (Needed(q)' => Needed(q))
<1> USE DEF Needed, Types
<1>1. ASSUME NEW p \in Query, NEW id \in Id, NEW req \in Request, HttpRequest(p, id, req)
      PROVE  phase'[q] # "idle" /\ (Needed(q)' => Needed(q))
  BY <1>1 DEF HttpRequest, QM!EnqueueQuery
<1>2. ASSUME NEW p \in Query, WaitReturn(p) \/ WaitTimeout(p)
      PROVE  phase'[q] # "idle" /\ (Needed(q)' => Needed(q))
  BY <1>2 DEF WaitReturn, WaitTimeout, QM!WaitReturn, QM!WaitTimeout
<1>3. ASSUME NEW c \in Call, NEW id \in Id, ResolveResponse(c, id)
      PROVE  phase'[q] # "idle" /\ (Needed(q)' => Needed(q))
  BY <1>3, Nothing DEF ResolveResponse, QM!ResolveQuery, QM!ResolveUnknown, QM!ResolveKnown,
     QM!vars, CallRecord, MaybeResponse, MaybeQuery
<1>4. CASE PublicRestart
  BY <1>4 DEF PublicRestart, QM!Restart
<1>5. CASE \/ \E c \in Call : PollArrives(c) \/ ReplyToPoll(c)
           \/ PrivateSide \/ Environment \/ UNCHANGED vars
  BY <1>5 DEF PollArrives, ReplyToPoll, QM!GetPendingRequests, PrivateSide, Environment,
     Poll, PollOk, PollErr, Refuse, Forward, WalletReplies, WalletFails, PrivateRestart,
     CallLost, WalletExecute, vars, qmVars
<1>6. QED
  BY <1>1, <1>2, <1>3, <1>4, <1>5 DEF Next, PublicSide

\* An entry is removed, or replaced, only when nobody needs it any more.
LEMMA EntriesAreKept ==
    ASSUME Types, QM!MapsConsistent, [Next]_vars,
           NEW id \in Id, NEW q \in Query, pendingResponses[id] = q
    PROVE  pendingResponses'[id] = q \/ ~Needed(q)'
<1>q. q # None
  BY Nothing
<1>1. ASSUME NEW c \in Call, ReplyToPoll(c)
      PROVE  pendingResponses'[id] = q
  <2>1. pendingRequests[id] = None
    BY <1>q DEF QM!MapsConsistent, QM!DisjointIds, QM!Keys
  <2>2. QED
    BY <1>1, <2>1 DEF ReplyToPoll, QM!GetPendingRequests, QM!Inserted
<1>2. ASSUME NEW c \in Call, NEW i \in Id, ResolveResponse(c, i)
      PROVE  pendingResponses'[id] = q \/ ~Needed(q)'
  <2>1. CASE pendingResponses[i] = None \/ i # id
    BY <1>2, <2>1 DEF Types, ResolveResponse, QM!ResolveQuery, QM!ResolveUnknown, QM!ResolveKnown, QM!vars
  <2>2. CASE i = id
    <3>1. QM!ResolveKnown(id, call[c].args[id])
      BY <1>2, <1>q, <2>2 DEF ResolveResponse, QM!ResolveQuery, QM!ResolveUnknown
    <3>2. response'[q] # None
      BY <1>2, <2>2, <3>1 DEF Types, QM!ResolveKnown, ResolveResponse
    <3>3. QED
      BY <3>2 DEF Needed
  <2>3. QED
    BY <2>1, <2>2
<1>3. CASE PublicRestart
  BY <1>3 DEF PublicRestart, QM!Restart, Needed, Types
<1>4. ASSUME NEW p \in Query, \/ \E i \in Id, req \in Request : HttpRequest(p, i, req)
                              \/ WaitReturn(p) \/ WaitTimeout(p)
      PROVE  pendingResponses'[id] = q
  BY <1>4 DEF HttpRequest, QM!EnqueueQuery, WaitReturn, WaitTimeout, QM!WaitReturn, QM!WaitTimeout
<1>5. CASE \/ \E c \in Call : PollArrives(c)
           \/ PrivateSide \/ Environment \/ UNCHANGED vars
  BY <1>5 DEF PollArrives, PrivateSide, Environment, Poll, PollOk, PollErr, Refuse, Forward,
     WalletReplies, WalletFails, PrivateRestart, CallLost, WalletExecute, vars, qmVars
<1>6. QED
  BY <1>1, <1>2, <1>3, <1>4, <1>5 DEF Next, PublicSide

\* What travels did so before, or was just handed over, with its entry made.
LEMMA TravelsFromHandover ==
    ASSUME TypeOK, OneThread, [Next]_vars,
           NEW id \in Id, NEW q \in Query, Travels(id, q)'
    PROVE  \/ Travels(id, q)
           \/ pendingRequests[id] = q /\ pendingResponses'[id] = q
<1> USE Nothing, FreeCallIsEmpty, TypesOfTypeOK DEF Types
<1>1. ASSUME UNCHANGED <<call, batch, mirrorResponses>>
      PROVE  Travels(id, q)
  BY <1>1 DEF Travels
<1>2. ASSUME NEW c \in Call, PollArrives(c) \/ CallLost(c)
      PROVE  Travels(id, q)
  <2>1. \A d \in Call : /\ call'[d].reply[id] \in {call[d].reply[id], None}
                        /\ call'[d].args[id] \in {call[d].args[id], None}
    <3>1. CASE PollArrives(c)
      BY <3>1 DEF PollArrives, CallRecord
    <3>2. CASE CallLost(c)
      BY <3>2 DEF CallLost
    <3>3. QED
      BY <1>2, <3>1, <3>2
  <2>2. QED
    BY <1>2, <2>1 DEF PollArrives, CallLost, privateVars, Travels
<1>3. ASSUME NEW c \in Call, ReplyToPoll(c)
      PROVE  Travels(id, q) \/ (pendingRequests[id] = q /\ pendingResponses'[id] = q)
  <2>1. \A d \in Call :
           /\ call'[d].reply[id] \in {call[d].reply[id], pendingRequests[id], None}
           /\ call'[d].args[id] \in {call[d].args[id], None}
    BY <1>3 DEF ReplyToPoll, FreeCall
  <2>2. pendingRequests[id] = q => pendingResponses'[id] = q
    BY <1>3 DEF ReplyToPoll, QM!GetPendingRequests, QM!Inserted
  <2>3. QED
    BY <1>3, <2>1, <2>2 DEF ReplyToPoll, privateVars, Travels
<1>4. ASSUME NEW c \in Call, NEW i \in Id, ResolveResponse(c, i)
      PROVE  Travels(id, q)
  <2>1. \A d \in Call : /\ call'[d].reply[id] = call[d].reply[id]
                        /\ call'[d].args[id] \in {call[d].args[id], None}
    BY <1>4 DEF ResolveResponse, CallRecord
  <2>2. QED
    BY <1>4, <2>1 DEF ResolveResponse, privateVars, Travels
<1>5. CASE PublicRestart
  <2>1. \A d \in Call : /\ call'[d].reply[id] \in {call[d].reply[id], None}
                        /\ call'[d].args[id] \in {call[d].args[id], None}
    BY <1>5 DEF PublicRestart, FreeCall
  <2>2. QED
    BY <1>5, <2>1 DEF PublicRestart, privateVars, Travels
<1>6. ASSUME NEW c \in Call, Poll(c)
      PROVE  Travels(id, q)
  <2>1. \A d \in Call : /\ call'[d].reply[id] = call[d].reply[id]
                        /\ call'[d].args[id] \in {call[d].args[id], mirrorResponses[id]}
    BY <1>6 DEF Poll, CallRecord
  <2>2. QED
    BY <1>6, <2>1 DEF Poll, Travels
<1>7. ASSUME NEW c \in Call, PollOk(c) \/ PollErr(c)
      PROVE  Travels(id, q)
  <2>1. \A d \in Call : /\ call'[d].reply[id] \in {call[d].reply[id], None}
                        /\ call'[d].args[id] \in {call[d].args[id], None}
    BY <1>7 DEF PollOk, PollErr, Abandoned
  <2>2. /\ batch'[id] \in {batch[id], call[c].reply[id]}
        /\ mirrorResponses'[id] \in {mirrorResponses[id], None}
    BY <1>7 DEF PollOk, PollErr, NoResponses
  <2>3. QED
    BY <2>1, <2>2 DEF Travels
<1>8. ASSUME NEW i \in Id, Refuse(i) \/ WalletReplies(i) \/ WalletFails(i)
      PROVE  Travels(id, q)
  <2>1. batch[i] # None
    BY <1>8 DEF Refuse, OneThread, WalletReplies, WalletFails
  <2>2. \E type \in ResponseType : Respond(i, type)
    BY <1>8, RequiredType DEF Refuse, WalletReplies, WalletFails
  <2>3. /\ mirrorResponses'[i].of = batch[i]
        /\ \A j \in Id \ {i} : mirrorResponses'[j] = mirrorResponses[j]
        /\ \A j \in Id : batch'[j] \in {batch[j], None}
    BY <2>1, <2>2, RespondEffect
  <2>4. QED
    BY <1>8, <2>3 DEF Refuse, WalletReplies, WalletFails, Travels
<1>9. CASE PrivateRestart
  <2>1. \A d \in Call : /\ call'[d].reply[id] \in {call[d].reply[id], None}
                        /\ call'[d].args[id] \in {call[d].args[id], None}
    BY <1>9 DEF PrivateRestart, Abandoned
  <2>2. QED
    BY <1>9, <2>1 DEF PrivateRestart, NoResponses, QM!EmptyMap, Travels
<1>10. CASE \/ \E p \in Query, i \in Id, req \in Request : HttpRequest(p, i, req)
            \/ \E p \in Query : WaitReturn(p) \/ WaitTimeout(p) \/ WalletExecute(p)
            \/ \E i \in Id : Forward(i)
            \/ UNCHANGED vars
  BY <1>1, <1>10 DEF HttpRequest, WaitReturn, WaitTimeout, WalletExecute, Forward, vars, privateVars
<1>11. QED
  BY <1>2, <1>3, <1>4, <1>5, <1>6, <1>7, <1>8, <1>9, <1>10
  DEF Next, PublicSide, PrivateSide, Environment

LEMMA EntriesWaitStep ==
    ASSUME TypeOK, OneThread, QM!MapsConsistent, EntriesWait, [Next]_vars
    PROVE  EntriesWait'
<1> SUFFICES ASSUME NEW id \in Id, NEW q \in Query, Travels(id, q)'
             PROVE  phase'[q] # "idle" /\ (Needed(q)' => pendingResponses'[id] = q)
  BY DEF EntriesWait
<1>t. Types /\ q # None
  BY TypesOfTypeOK, Nothing
<1>1. CASE Travels(id, q)
  <2>1. phase[q] # "idle" /\ (Needed(q) => pendingResponses[id] = q)
    BY <1>1 DEF EntriesWait
  <2>2. phase'[q] # "idle" /\ (Needed(q)' => Needed(q))
    BY <1>t, <2>1, NeedFades
  <2>3. CASE pendingResponses[id] = q
    BY <1>t, <2>2, <2>3, EntriesAreKept
  <2>4. QED
    BY <2>1, <2>2, <2>3
<1>2. CASE pendingRequests[id] = q /\ pendingResponses'[id] = q
  <2>1. phase[q] # "idle"
    BY <1>2, <1>t, QueuedRequests
  <2>2. QED
    BY <1>2, <1>t, <2>1, NeedFades
<1>3. QED
  BY <1>1, <1>2, TravelsFromHandover

\* Whatever polls are repeated, overtaken or lost and whoever is restarted: while a
\* client needs an answer that is under way, its query is there to be resolved.
THEOREM AnswersAreDeliverable == Spec => []AnswerDeliverable
<1>1. Init => EntriesWait
  BY Nothing, FreeCallIsEmpty DEF Init, QM!EmptyMap, NoResponses, EntriesWait, Travels
<1>2. TypeOK /\ EntriesWait => AnswerDeliverable
  <2> SUFFICES ASSUME TypeOK, EntriesWait, NEW id \in Id, NEW r \in InDelivery(id),
                      Needed(r.of)
               PROVE  pendingResponses[id] = r.of
    BY DEF AnswerDeliverable, Needed
  <2>1. r \in Response
    BY TypesOfTypeOK DEF InDelivery, Types, CallRecord, MaybeResponse
  <2>2. r.of \in Query
    BY <2>1 DEF Response
  <2>3. Travels(id, r.of)
    BY DEF Travels, InDelivery
  <2>4. QED
    BY <2>2, <2>3 DEF EntriesWait
<1>3. QED
  BY <1>1, <1>2, EntriesWaitStep, TypeCorrect, OneThreadAlways, ManagerIsConsistent, PTL DEF Spec

-----------------------------------------------------------------------------
(* A successful poll has delivered what the polling loop then forgets.     *)

Delivered(id) == mirrorResponses[id] # None => ~Needed(mirrorResponses[id].of)

\* The call the loop waits for has still to resolve a response or has done so.
PollDelivers ==
    \A c \in Call, id \in Id : awaiting = c =>
        /\ call[c].state = "sent" => call[c].args[id] = mirrorResponses[id]
        /\ call[c].state = "handling" =>
              call[c].args[id] = mirrorResponses[id] \/ Delivered(id)
        /\ call[c].state = "replied" => Delivered(id)

\* What has been delivered stays delivered, as long as the loop keeps it.
LEMMA DeliveredStays ==
    ASSUME TypeOK, EntriesWait, [Next]_vars, NEW id \in Id, Delivered(id),
           mirrorResponses'[id] = mirrorResponses[id]
    PROVE  Delivered(id)'
<1> SUFFICES ASSUME mirrorResponses[id] # None
             PROVE  ~Needed(mirrorResponses[id].of)'
  BY DEF Delivered
<1>1. mirrorResponses[id].of \in Query
  BY TypesOfTypeOK DEF Types, MaybeResponse, Response
<1>2. phase[mirrorResponses[id].of] # "idle"
  BY <1>1 DEF EntriesWait, Travels
<1>3. QED
  BY <1>1, <1>2, TypesOfTypeOK, NeedFades DEF Delivered

\* Resolving a response of the loop delivers it: either its query was there, or
\* nobody needs it.
LEMMA ResolvingDelivers ==
    ASSUME TypeOK, EntriesWait, NEW c \in Call, NEW id \in Id, ResolveResponse(c, id),
           call[c].args[id] = mirrorResponses[id]
    PROVE  Delivered(id)'
<1>1. PICK r \in Response : r = mirrorResponses[id] /\ r # None
  BY TypesOfTypeOK DEF ResolveResponse, Types, MaybeResponse
<1>2. PICK q \in Query : q = r.of
  BY <1>1 DEF Response
<1>3. mirrorResponses' = mirrorResponses
  BY DEF ResolveResponse, privateVars
<1>4. Needed(q) => pendingResponses[id] = q
  BY <1>1, <1>2 DEF EntriesWait, Travels
<1>5. CASE QM!ResolveUnknown(id)
  <2>1. ~Needed(q) /\ UNCHANGED <<phase, response>>
    BY <1>4, <1>5, Nothing DEF QM!ResolveUnknown, QM!vars
  <2>2. ~Needed(q)'
    BY <2>1 DEF Needed
  <2>3. QED
    BY <1>1, <1>2, <1>3, <2>2 DEF Delivered
<1>6. CASE QM!ResolveKnown(id, r)
  <2>1. /\ response' = [response EXCEPT ![pendingResponses[id]] = r]
        /\ phase' = phase
    BY <1>6 DEF QM!ResolveKnown
  <2>2. ~Needed(q)'
    BY <1>1, <1>4, <2>1, TypesOfTypeOK DEF Types, Needed
  <2>3. QED
    BY <1>1, <1>2, <1>3, <2>2 DEF Delivered
<1>7. QED
  BY <1>1, <1>5, <1>6 DEF ResolveResponse, QM!ResolveQuery

LEMMA PollDeliversStep ==
    ASSUME TypeOK, OneThread, EntriesWait, PollDelivers, [Next]_vars
    PROVE  PollDelivers'
<1>t. Types
  BY TypesOfTypeOK
<1>d. \A id \in Id : Delivered(id) /\ mirrorResponses'[id] = mirrorResponses[id] => Delivered(id)'
  BY DeliveredStays
<1>1. ASSUME UNCHANGED <<call, awaiting, mirrorResponses>>
      PROVE  PollDelivers'
  BY <1>1, <1>d DEF PollDelivers
<1>2. ASSUME awaiting' = None
      PROVE  PollDelivers'
  BY <1>2, Nothing DEF PollDelivers
<1>3. ASSUME NEW c \in Call, PollArrives(c)
      PROVE  PollDelivers'
  <2>1. /\ call[c].state = "sent"
        /\ call' = [call EXCEPT ![c].state = "handling"]
        /\ UNCHANGED <<awaiting, mirrorResponses>>
    BY <1>3 DEF PollArrives, privateVars
  <2>2. /\ call'[c].state = "handling" /\ call'[c].args = call[c].args
        /\ \A d \in Call \ {c} : call'[d] = call[d]
    BY <2>1, <1>t DEF Types, CallRecord
  <2>3. QED
    BY <2>1, <2>2, <1>d DEF PollDelivers
<1>4. ASSUME NEW c \in Call, ReplyToPoll(c)
      PROVE  PollDelivers'
  <2>1. /\ call[c].state = "handling"
        /\ \A id \in Id : call[c].args[id] = None
        /\ \A d \in Call \ {c} : call'[d] = call[d]
        /\ UNCHANGED <<awaiting, mirrorResponses>>
    BY <1>4, <1>t DEF ReplyToPoll, privateVars, Types, NoResponses
  <2>2. awaiting = c => \A id \in Id : Delivered(id)'
    BY <2>1, <1>d DEF PollDelivers, Delivered
  <2>3. awaiting = c => call'[c].state = "replied"
    BY <1>4, <1>t DEF ReplyToPoll, Types, FreeCall
  <2>4. QED
    BY <2>1, <2>2, <2>3, <1>d DEF PollDelivers
<1>5. ASSUME NEW c \in Call, NEW i \in Id, ResolveResponse(c, i)
      PROVE  PollDelivers'
  <2>1. /\ call[c].state = "handling" /\ call'[c].state = "handling"
        /\ \A id \in Id \ {i} : call'[c].args[id] = call[c].args[id]
        /\ \A d \in Call \ {c} : call'[d] = call[d]
        /\ UNCHANGED <<awaiting, mirrorResponses>>
    BY <1>5, <1>t DEF ResolveResponse, privateVars, Types, CallRecord
  <2>2. awaiting = c => Delivered(i)'
    BY <1>5, <2>1, <1>d, ResolvingDelivers DEF PollDelivers
  <2>3. QED
    BY <2>1, <2>2, <1>d DEF PollDelivers
<1>6. CASE PublicRestart
  <2>1. UNCHANGED <<awaiting, mirrorResponses>>
    BY <1>6 DEF PublicRestart, privateVars
  <2>2. \A c \in Call : awaiting = c =>
           call'[c] = call[c] \/ call'[c].state = "broken"
    BY <1>6 DEF PublicRestart, FreeCall
  <2>3. QED
    BY <2>1, <2>2, <1>d DEF PollDelivers
<1>7. ASSUME NEW c \in Call, Poll(c)
      PROVE  PollDelivers'
  <2>1. /\ awaiting' = c /\ mirrorResponses' = mirrorResponses
        /\ call'[c].state = "sent" /\ call'[c].args = mirrorResponses
    BY <1>7, <1>t DEF Poll, Types, CallRecord
  <2>2. QED
    BY <2>1 DEF PollDelivers
<1>8. ASSUME NEW c \in Call, CallLost(c)
      PROVE  PollDelivers'
  <2>1. /\ awaiting # c
        /\ \A d \in Call \ {c} : call'[d] = call[d]
        /\ UNCHANGED <<awaiting, mirrorResponses>>
    BY <1>8, <1>t DEF CallLost, privateVars, Types
  <2>2. QED
    BY <2>1, <1>d DEF PollDelivers
<1>9. CASE PrivateRestart \/ \E c \in Call : PollOk(c) \/ PollErr(c)
  BY <1>2, <1>9 DEF PrivateRestart, PollOk, PollErr
<1>10. ASSUME NEW i \in Id, Refuse(i) \/ WalletReplies(i) \/ WalletFails(i)
       PROVE  awaiting' = None
  BY <1>10, Nothing DEF Refuse, WalletReplies, WalletFails, Processing, OneThread
<1>11. CASE \/ \E p \in Query, i \in Id, req \in Request : HttpRequest(p, i, req)
            \/ \E p \in Query : WaitReturn(p) \/ WaitTimeout(p) \/ WalletExecute(p)
            \/ \E i \in Id : Forward(i)
            \/ UNCHANGED vars
  BY <1>1, <1>11 DEF HttpRequest, WaitReturn, WaitTimeout, WalletExecute, Forward, vars, privateVars
<1>12. QED
  BY <1>2, <1>3, <1>4, <1>5, <1>6, <1>7, <1>8, <1>9, <1>10, <1>11
  DEF Next, PublicSide, PrivateSide, Environment

\* The polling loop forgets a response only in PollOk and in a restart.
LEMMA OnlyDeliveredAreCleared ==
    ASSUME TypeOK, OneThread, PollDelivers, [Next]_vars,
           NEW id \in Id, mirrorResponses[id] # None, mirrorResponses'[id] = None
    PROVE  PrivateRestart \/ Delivered(id)
<1>1. ASSUME NEW c \in Call, PollOk(c)
      PROVE  Delivered(id)
  BY <1>1 DEF PollOk, PollDelivers
<1>2. ASSUME NEW i \in Id, Refuse(i) \/ WalletReplies(i) \/ WalletFails(i)
      PROVE  FALSE
  <2>1. batch[i] # None
    BY <1>2, Nothing DEF Refuse, OneThread, WalletReplies, WalletFails
  <2>2. PICK type \in ResponseType : Respond(i, type)
    BY <1>2, RequiredType DEF Refuse, WalletReplies, WalletFails
  <2>3. mirrorResponses'[i] # None
    <3>1. batch[i] \in Query
      BY <2>1 DEF TypeOK
    <3>2. [type |-> type, of |-> batch[i]] \in Response
      BY <3>1 DEF Response
    <3>3. QED
      BY <2>2, <3>2, Nothing, TypesOfTypeOK DEF Respond, Types
  <2>4. QED
    BY <2>1, <2>2, <2>3, RespondEffect
<1>3. CASE mirrorResponses' = mirrorResponses
  BY <1>3
<1>4. QED
  BY <1>1, <1>2, <1>3 DEF Next, PublicSide, PrivateSide, Environment, vars, privateVars,
     HttpRequest, WaitReturn, WaitTimeout, PollArrives, ReplyToPoll, ResolveResponse,
     PublicRestart, Poll, PollErr, Forward, CallLost, WalletExecute

\* "Clear pending responses since we successfully delivered them": of what the
\* polling loop forgets, nobody is left without who still needs it.
THEOREM ClearedWereDelivered == Spec => ClearedAreDelivered
<1>1. Init => EntriesWait /\ PollDelivers
  BY Nothing, FreeCallIsEmpty
  DEF Init, QM!EmptyMap, NoResponses, EntriesWait, Travels, PollDelivers
<1> DEFINE Step == \A id \in Id :
          mirrorResponses[id] # None /\ mirrorResponses'[id] = None =>
             \/ PrivateRestart
             \/ phase[mirrorResponses[id].of] # "waiting"
             \/ response[mirrorResponses[id].of] # None
<1>2. TypeOK /\ OneThread /\ PollDelivers /\ [Next]_vars => Step
  BY OnlyDeliveredAreCleared DEF Delivered, Needed
<1>3. TypeOK /\ OneThread /\ QM!MapsConsistent /\ EntriesWait /\ PollDelivers /\ [Next]_vars
        => EntriesWait' /\ PollDelivers'
  BY EntriesWaitStep, PollDeliversStep
<1>4. Spec => [][Step]_vars
  BY <1>1, <1>2, <1>3, TypeCorrect, OneThreadAlways, ManagerIsConsistent, PTL DEF Spec
<1>5. QED
  BY <1>4 DEF ClearedAreDelivered

-----------------------------------------------------------------------------
(* Without failures nothing is stranded.                                   *)

Reliable == ~Lossy /\ ~PublicCrashes /\ ~PrivateCrashes

\* There is one call at a time: the one the polling loop waits for.
OneCall ==
    \A c \in Call :
        /\ call[c].state # "free" => awaiting = c /\ call[c].state # "broken"
        /\ call[c].state \in {"free", "replied"} => \A id \in Id : call[c].args[id] = None

\* A call resolves the responses of the loop before it hands over requests.
PollInOrder ==
    \A c \in Call, id \in Id : mirrorResponses[id] # None =>
        /\ call[c].state = "sent" => call[c].args[id] = mirrorResponses[id]
        /\ call[c].state = "handling" =>
              call[c].args[id] = mirrorResponses[id] \/ pendingResponses[id] = None
        /\ call[c].state = "replied" =>
              pendingResponses[id] = call[c].reply[id] \/ pendingResponses[id] = None

\* No response is overwritten: there is none yet for what is in the batch.
BatchUnanswered == \A id \in Id : batch[id] # None => mirrorResponses[id] = None

EntriesTravel == \A id \in Id : pendingResponses[id] # None => Travels(id, pendingResponses[id])

ReliableInv == OneCall /\ PollInOrder /\ BatchUnanswered /\ EntriesTravel

LEMMA ReliableStep ==
    ASSUME Reliable, TypeOK, OneThread, InOnePlace, ReliableInv, [Next]_vars
    PROVE  ReliableInv'
<1> USE Nothing, FreeCallIsEmpty, TypesOfTypeOK DEF Types
<1>1. ASSUME UNCHANGED <<call, awaiting, batch, mirrorResponses, pendingResponses>>
      PROVE  ReliableInv'
  BY <1>1 DEF ReliableInv, OneCall, PollInOrder, BatchUnanswered, EntriesTravel, Travels
<1>2. CASE \/ \E p \in Query, i \in Id, req \in Request : HttpRequest(p, i, req)
           \/ \E p \in Query : WaitReturn(p) \/ WaitTimeout(p) \/ WalletExecute(p)
           \/ \E i \in Id : Forward(i)
           \/ UNCHANGED vars
  BY <1>1, <1>2 DEF HttpRequest, QM!EnqueueQuery, WaitReturn, QM!WaitReturn, WaitTimeout,
     QM!WaitTimeout, WalletExecute, Forward, vars, qmVars, privateVars
<1>3. ASSUME NEW c \in Call, PollArrives(c)
      PROVE  ReliableInv'
  <2>1. /\ call[c].state = "sent" /\ call'[c].state = "handling"
        /\ call'[c].args = call[c].args /\ call'[c].reply = call[c].reply
        /\ \A d \in Call \ {c} : call'[d] = call[d]
    BY <1>3 DEF PollArrives, CallRecord
  <2>2. UNCHANGED <<awaiting, batch, mirrorResponses, pendingResponses>>
    BY <1>3 DEF PollArrives, privateVars, qmVars
  <2>3. (OneCall /\ PollInOrder /\ BatchUnanswered)'
    BY <2>1, <2>2 DEF ReliableInv, OneCall, PollInOrder, BatchUnanswered
  <2>4. EntriesTravel'
    BY <2>1, <2>2 DEF ReliableInv, EntriesTravel, Travels
  <2>5. QED
    BY <2>3, <2>4 DEF ReliableInv
<1>4. ASSUME NEW c \in Call, ReplyToPoll(c)
      PROVE  ReliableInv'
  <2>1. /\ awaiting = c /\ call[c].state = "handling" /\ call'[c].state = "replied"
        /\ \A id \in Id : /\ call[c].args[id] = None /\ call[c].reply[id] = None
                          /\ call'[c].args[id] = None
                          /\ call'[c].reply[id] = pendingRequests[id]
        /\ \A d \in Call \ {c} : call'[d] = call[d]
    <3>1. awaiting = c /\ call[c].state = "handling" /\ call[c].args = NoResponses
      BY <1>4 DEF ReplyToPoll, ReliableInv, OneCall
    <3>2. call' = [call EXCEPT ![c] =
                     [FreeCall EXCEPT !.state = "replied", !.reply = pendingRequests]]
      BY <1>4, <3>1 DEF ReplyToPoll
    <3>3. \A id \in Id : call[c].args[id] = None /\ call[c].reply[id] = None
      BY <3>1 DEF NoResponses, InOnePlace
    <3>4. QED
      BY <3>1, <3>2, <3>3 DEF FreeCall
  <2>2. /\ UNCHANGED <<awaiting, batch, mirrorResponses>>
        /\ \A id \in Id : pendingResponses'[id] =
              IF pendingRequests[id] # None THEN pendingRequests[id] ELSE pendingResponses[id]
    BY <1>4 DEF ReplyToPoll, QM!GetPendingRequests, QM!Inserted, privateVars
  <2>3. (OneCall /\ BatchUnanswered)'
    BY <2>1, <2>2 DEF ReliableInv, OneCall, BatchUnanswered
  <2>4. PollInOrder'
    <3>1. \A d \in Call \ {c} : call[d].state = "free"
      BY <2>1 DEF ReliableInv, OneCall
    <3>2. \A id \in Id : mirrorResponses[id] # None => pendingResponses[id] = None
      BY <2>1 DEF ReliableInv, PollInOrder
    <3>3. QED
      BY <2>1, <2>2, <3>1, <3>2 DEF PollInOrder
  <2>5. EntriesTravel'
    <3>1. ASSUME NEW id \in Id, pendingRequests[id] # None
          PROVE  Travels(id, pendingResponses[id])'
      BY <2>1, <2>2, <3>1 DEF Travels
    <3>2. ASSUME NEW id \in Id, pendingRequests[id] = None, pendingResponses[id] # None
          PROVE  Travels(id, pendingResponses[id])'
      BY <2>1, <2>2, <3>2 DEF ReliableInv, EntriesTravel, Travels
    <3>3. QED
      BY <2>2, <3>1, <3>2 DEF EntriesTravel
  <2>6. QED
    BY <2>3, <2>4, <2>5 DEF ReliableInv
<1>5. ASSUME NEW c \in Call, NEW i \in Id, ResolveResponse(c, i)
      PROVE  ReliableInv'
  <2>1. /\ call[c].state = "handling" /\ call'[c].state = "handling"
        /\ call'[c].reply = call[c].reply
        /\ \A id \in Id \ {i} : call'[c].args[id] = call[c].args[id]
        /\ \A d \in Call \ {c} : call'[d] = call[d]
        /\ UNCHANGED <<awaiting, batch, mirrorResponses>>
    BY <1>5 DEF ResolveResponse, privateVars, CallRecord
  <2>2. /\ pendingResponses'[i] = None
        /\ \A id \in Id \ {i} : pendingResponses'[id] = pendingResponses[id]
    BY <1>5 DEF ResolveResponse, QM!ResolveQuery, QM!ResolveUnknown, QM!ResolveKnown, QM!vars
  <2>3. (OneCall /\ BatchUnanswered)'
    BY <2>1 DEF ReliableInv, OneCall, BatchUnanswered
  <2>4. PollInOrder'
    BY <2>1, <2>2 DEF ReliableInv, PollInOrder
  <2>5. EntriesTravel'
    BY <2>1, <2>2 DEF ReliableInv, EntriesTravel, Travels
  <2>6. QED
    BY <2>3, <2>4, <2>5 DEF ReliableInv
<1>6. ASSUME NEW c \in Call, Poll(c)
      PROVE  ReliableInv'
  <2>1. /\ awaiting' = c /\ call[c].state = "free" /\ call'[c].state = "sent"
        /\ call'[c].args = mirrorResponses /\ call'[c].reply = call[c].reply
        /\ \A d \in Call \ {c} : call'[d] = call[d]
        /\ UNCHANGED <<batch, mirrorResponses, pendingResponses>>
    BY <1>6 DEF Poll, CallRecord, qmVars
  <2>2. awaiting = None /\ \A d \in Call : call[d].state = "free"
    BY <1>6 DEF Poll, Polling, ReliableInv, OneCall
  <2>3. (OneCall /\ PollInOrder /\ BatchUnanswered)'
    BY <2>1, <2>2 DEF ReliableInv, OneCall, PollInOrder, BatchUnanswered
  <2>4. \A id \in Id : call[c].args[id] = None
    BY <2>2 DEF ReliableInv, OneCall
  <2>5. EntriesTravel'
    BY <2>1, <2>4 DEF ReliableInv, EntriesTravel, Travels
  <2>6. QED
    BY <2>3, <2>5 DEF ReliableInv
<1>7. ASSUME NEW c \in Call, PollOk(c)
      PROVE  ReliableInv'
  <2>1. /\ awaiting = c /\ awaiting' = None /\ call[c].state = "replied"
        /\ \A id \in Id : batch'[id] = call[c].reply[id] /\ mirrorResponses'[id] = None
        /\ call'[c] = FreeCall
        /\ \A d \in Call \ {c} : call'[d] = call[d]
        /\ UNCHANGED pendingResponses
    BY <1>7 DEF PollOk, NoResponses, qmVars
  <2>2. /\ \A d \in Call : call'[d].state = "free"
        /\ \A d \in Call, id \in Id : d # c => call[d].args[id] = None /\ call[d].reply[id] = None
        /\ \A d \in Call, id \in Id : call'[d].args[id] = None
    BY <2>1 DEF ReliableInv, OneCall, InOnePlace, FreeCall
  <2>3. (OneCall /\ PollInOrder /\ BatchUnanswered)'
    BY <2>1, <2>2 DEF OneCall, PollInOrder, BatchUnanswered
  <2>4. ASSUME NEW id \in Id, pendingResponses[id] # None
        PROVE  batch'[id] = pendingResponses[id]
    <3>1. CASE mirrorResponses[id] # None
      BY <2>1, <2>4, <3>1 DEF ReliableInv, PollInOrder
    <3>2. CASE mirrorResponses[id] = None
      <4>1. batch[id] = None
        BY <2>1 DEF OneThread
      <4>2. call[c].args[id] = None
        BY <2>1 DEF ReliableInv, OneCall
      <4>3. QED
        BY <2>1, <2>2, <2>4, <3>2, <4>1, <4>2 DEF ReliableInv, EntriesTravel, Travels
    <3>3. QED
      BY <3>1, <3>2
  <2>5. QED
    BY <2>1, <2>3, <2>4 DEF ReliableInv, EntriesTravel, Travels
<1>8. ASSUME NEW i \in Id, Refuse(i) \/ WalletReplies(i) \/ WalletFails(i)
      PROVE  ReliableInv'
  <2>1. batch[i] # None /\ awaiting = None
    BY <1>8 DEF Refuse, Processing, OneThread, WalletReplies, WalletFails
  <2>2. \E type \in ResponseType : Respond(i, type)
    BY <1>8, RequiredType DEF Refuse, WalletReplies, WalletFails
  <2>3. /\ mirrorResponses'[i] \in Response /\ mirrorResponses'[i].of = batch[i]
        /\ \A id \in Id \ {i} : mirrorResponses'[id] = mirrorResponses[id]
        /\ batch'[i] = None
        /\ \A id \in Id \ {i} : batch'[id] = batch[id]
        /\ UNCHANGED <<call, awaiting, pendingResponses>>
    <3>1. PICK type \in ResponseType : Respond(i, type)
      BY <2>2
    <3>2. [type |-> type, of |-> batch[i]] \in Response
      BY <2>1 DEF MaybeQuery, Response
    <3>3. mirrorResponses'[i] \in Response
      BY <3>1, <3>2 DEF Respond
    <3>4. QED
      BY <1>8, <2>1, <3>1, <3>3, RespondEffect DEF Refuse, WalletReplies, WalletFails, qmVars
  <2>4. \A d \in Call : call[d].state = "free"
    BY <2>1 DEF ReliableInv, OneCall
  <2>5. (OneCall /\ PollInOrder /\ BatchUnanswered)'
    BY <2>1, <2>3, <2>4 DEF ReliableInv, OneCall, PollInOrder, BatchUnanswered
  <2>6. EntriesTravel'
    <3>1. \A id \in Id, q \in Query : Travels(id, q) => Travels(id, q)'
      BY <2>1, <2>3 DEF ReliableInv, BatchUnanswered, Travels
    <3>2. QED
      BY <2>3, <3>1 DEF ReliableInv, EntriesTravel, MaybeQuery
  <2>7. QED
    BY <2>5, <2>6 DEF ReliableInv
<1>9. CASE \/ PublicRestart \/ PrivateRestart
           \/ \E c \in Call : PollErr(c) \/ CallLost(c)
  BY <1>9 DEF PublicRestart, PrivateRestart, PollErr, CallLost, Reliable, ReliableInv, OneCall
<1>10. QED
  BY <1>2, <1>3, <1>4, <1>5, <1>6, <1>7, <1>8, <1>9
  DEF Next, PublicSide, PrivateSide, Environment

LEMMA ReliableAlways ==
    ASSUME Reliable
    PROVE  Spec => []ReliableInv
<1>1. Init => ReliableInv
  BY FreeCallIsEmpty DEF Init, QM!Init, QM!EmptyMap, NoResponses, FreeCall, ReliableInv,
     OneCall, PollInOrder, BatchUnanswered, EntriesTravel
<1>2. TypeOK /\ OneThread /\ OnceInv /\ ReliableInv /\ [Next]_vars => ReliableInv'
  BY ReliableStep DEF OnceInv
<1>3. QED
  BY <1>1, <1>2, TypeCorrect, OneThreadAlways, OnceAlways, PTL DEF Spec

\* Without failures a query that was handed over is in work, or its answer is on
\* the way: none is forgotten by both sides, however requests and polls interleave.
THEOREM NothingIsStranded ==
    ASSUME Reliable
    PROVE  Spec => []NothingStranded
<1>1. ReliableInv => NothingStranded
  BY DEF ReliableInv, EntriesTravel, Travels, NothingStranded, OnTheWay, InDelivery, QM!Keys
<1>2. Spec => []ReliableInv
  BY ReliableAlways
<1>3. QED
  BY <1>1, <1>2, PTL

\* The other way round: what is in work has its entry, and so no response yet.
InWork ==
    \A id \in Id :
        /\ batch[id] # None => pendingResponses[id] = batch[id]
        /\ \A c \in Call : call[c].reply[id] # None => pendingResponses[id] = call[c].reply[id]

LEMMA InWorkStep ==
    ASSUME Reliable, TypeOK, OneThread, InOnePlace, ReliableInv, InWork, [Next]_vars
    PROVE  InWork'
<1> USE Nothing, FreeCallIsEmpty, TypesOfTypeOK DEF Types
<1>1. ASSUME UNCHANGED pendingResponses,
             \A id \in Id : batch'[id] \in {batch[id], None},
             \A c \in Call, id \in Id : call'[c].reply[id] \in {call[c].reply[id], None}
      PROVE  InWork'
  BY <1>1 DEF InWork
<1>2. CASE \/ \E p \in Query, i \in Id, req \in Request : HttpRequest(p, i, req)
           \/ \E p \in Query : WaitReturn(p) \/ WaitTimeout(p) \/ WalletExecute(p)
           \/ \E i \in Id : Forward(i)
           \/ UNCHANGED vars
  BY <1>1, <1>2 DEF HttpRequest, QM!EnqueueQuery, WaitReturn, QM!WaitReturn, WaitTimeout,
     QM!WaitTimeout, WalletExecute, Forward, vars, qmVars, privateVars
<1>3. ASSUME NEW c \in Call, PollArrives(c) \/ Poll(c)
      PROVE  InWork'
  <2>1. \A d \in Call : call'[d].reply = call[d].reply
    BY <1>3 DEF PollArrives, Poll, CallRecord
  <2>2. UNCHANGED <<pendingResponses, batch>>
    BY <1>3 DEF PollArrives, Poll, qmVars, privateVars
  <2>3. QED
    BY <1>1, <2>1, <2>2
<1>4. ASSUME NEW c \in Call, ReplyToPoll(c)
      PROVE  InWork'
  <2>1. awaiting = c
    BY <1>4 DEF ReplyToPoll, ReliableInv, OneCall
  <2>2. call' = [call EXCEPT ![c] =
                   [FreeCall EXCEPT !.state = "replied", !.reply = pendingRequests]]
    BY <1>4, <2>1 DEF ReplyToPoll
  <2>3. \A id \in Id :
           /\ batch'[id] = None
           /\ call'[c].reply[id] = pendingRequests[id]
           /\ \A d \in Call \ {c} : call'[d].reply[id] = None
           /\ pendingRequests[id] # None => pendingResponses'[id] = pendingRequests[id]
    BY <1>4, <2>1, <2>2 DEF OneThread, InOnePlace, FreeCall, ReplyToPoll, privateVars,
       QM!GetPendingRequests, QM!Inserted
  <2>4. QED
    BY <2>3 DEF InWork
<1>5. ASSUME NEW c \in Call, NEW i \in Id, ResolveResponse(c, i)
      PROVE  InWork'
  <2>1. awaiting = c /\ call[c].state = "handling"
    BY <1>5 DEF ResolveResponse, ReliableInv, OneCall
  <2>2. \A id \in Id : batch[id] = None /\ \A d \in Call : call[d].reply[id] = None
    BY <2>1 DEF OneThread, InOnePlace
  <2>3. batch' = batch /\ \A d \in Call : call'[d].reply = call[d].reply
    BY <1>5 DEF ResolveResponse, privateVars, CallRecord
  <2>4. QED
    BY <2>2, <2>3 DEF InWork
<1>6. ASSUME NEW c \in Call, PollOk(c)
      PROVE  InWork'
  <2>1. /\ \A id \in Id : batch'[id] = call[c].reply[id]
        /\ \A d \in Call, id \in Id : call'[d].reply[id] \in {call[d].reply[id], None}
        /\ UNCHANGED pendingResponses
    BY <1>6 DEF PollOk, qmVars
  <2>2. QED
    BY <2>1 DEF InWork
<1>7. ASSUME NEW i \in Id, Refuse(i) \/ WalletReplies(i) \/ WalletFails(i)
      PROVE  InWork'
  <2>1. \A id \in Id : batch'[id] \in {batch[id], None}
    BY <1>7 DEF Refuse, WalletReplies, WalletFails, Respond
  <2>2. UNCHANGED <<call, pendingResponses>>
    BY <1>7 DEF Refuse, WalletReplies, WalletFails, qmVars
  <2>3. QED
    BY <1>1, <2>1, <2>2
<1>8. CASE \/ PublicRestart \/ PrivateRestart
           \/ \E c \in Call : PollErr(c) \/ CallLost(c)
  BY <1>8 DEF PublicRestart, PrivateRestart, PollErr, CallLost, Reliable, ReliableInv, OneCall
<1>9. QED
  BY <1>2, <1>3, <1>4, <1>5, <1>6, <1>7, <1>8 DEF Next, PublicSide, PrivateSide, Environment

LEMMA InWorkAlways ==
    ASSUME Reliable
    PROVE  Spec => []InWork
<1>1. Init => InWork
  BY FreeCallIsEmpty DEF Init, QM!EmptyMap, InWork
<1>2. TypeOK /\ OneThread /\ OnceInv /\ ReliableInv /\ InWork /\ [Next]_vars => InWork'
  BY InWorkStep DEF OnceInv
<1>3. Spec => []ReliableInv
  BY ReliableAlways
<1>4. QED
  BY <1>1, <1>2, <1>3, TypeCorrect, OneThreadAlways, OnceAlways, PTL DEF Spec

-----------------------------------------------------------------------------
(* With polls that fail, only a lost reply strands a query.                *)

\* The query under id is not, or no more, the one the loop has the response for.
Resolved(id) == mirrorResponses[id] # None => pendingResponses[id] # mirrorResponses[id].of

\* A call that is over has no responses left to resolve.
ArgsInUse ==
    \A c \in Call : call[c].state \in {"free", "replied", "broken"} =>
        \A id \in Id : call[c].args[id] = None

\* What has been answered is not handed over again.
AnsweredNotQueued ==
    \A i, j \in Id :
        /\ mirrorResponses[i] # None => pendingRequests[j] # mirrorResponses[i].of
        /\ \A c \in Call : call[c].args[i] # None => pendingRequests[j] # call[c].args[i].of

\* A response somebody needs is in the hands of the loop, also while it is sent.
SentAreHeld ==
    \A c \in Call, id \in Id :
        call[c].args[id] # None /\ pendingResponses[id] = call[c].args[id].of =>
            mirrorResponses[id] # None /\ mirrorResponses[id].of = call[c].args[id].of

\* The call the loop waits for has still to resolve a response or has done so.
PollResolves ==
    \A c \in Call, id \in Id : awaiting = c =>
        /\ call[c].state = "sent" => call[c].args[id] = mirrorResponses[id]
        /\ call[c].state = "handling" =>
              call[c].args[id] = mirrorResponses[id] \/ Resolved(id)
        /\ call[c].state = "replied" => Resolved(id)

LossInv == ArgsInUse /\ BatchUnanswered /\ AnsweredNotQueued /\ SentAreHeld /\ PollResolves

\* A step after which what pendingResponses holds is on its way, if it was before.
KeptOnTheWay ==
    \A id \in Id, q \in Query :
        pendingResponses'[id] = q /\ (pendingResponses[id] = q => Travels(id, q)) => Travels(id, q)'

\* The same, but for what goes with the reply to a poll.
LostWithReply ==
    \A id \in Id, q \in Query :
        \/ pendingResponses'[id] = q /\ (pendingResponses[id] = q => Travels(id, q)) => Travels(id, q)'
        \/ \E c \in Call : PollErr(c) /\ call[c].reply[id] = q
        \/ \E c \in Call : ReplyToPoll(c) /\ awaiting # c /\ pendingRequests[id] = q

LEMMA LossStep ==
    ASSUME ~PrivateCrashes, TypeOK, OneThread, InOnePlace, EntriesWait, LossInv, [Next]_vars
    PROVE  LossInv' /\ LostWithReply
<1> USE Nothing, FreeCallIsEmpty, TypesOfTypeOK DEF Types
<1>k. KeptOnTheWay => LostWithReply
  BY DEF KeptOnTheWay, LostWithReply
<1>1. ASSUME UNCHANGED <<call, awaiting, batch, mirrorResponses, pendingRequests, pendingResponses>>
      PROVE  LossInv' /\ KeptOnTheWay
  BY <1>1 DEF LossInv, ArgsInUse, BatchUnanswered, AnsweredNotQueued, SentAreHeld,
     PollResolves, Resolved, KeptOnTheWay, Travels
<1>2. CASE \/ \E p \in Query : WaitReturn(p) \/ WaitTimeout(p) \/ WalletExecute(p)
           \/ \E i \in Id : Forward(i)
           \/ UNCHANGED vars
  <2>1. UNCHANGED <<call, awaiting, batch, mirrorResponses, pendingRequests, pendingResponses>>
    BY <1>2 DEF WaitReturn, QM!WaitReturn, WaitTimeout, QM!WaitTimeout, WalletExecute, Forward,
       vars, qmVars, privateVars
  <2>2. QED
    BY <1>k, <1>1, <2>1
<1>3. ASSUME NEW p \in Query, NEW i \in Id, NEW req \in Request, HttpRequest(p, i, req)
      PROVE  LossInv' /\ KeptOnTheWay
  <2>1. /\ phase[p] = "idle"
        /\ \A id \in Id : pendingRequests'[id] \in {pendingRequests[id], p}
        /\ UNCHANGED <<call, awaiting, batch, mirrorResponses, pendingResponses>>
    BY <1>3 DEF HttpRequest, QM!EnqueueQuery, privateVars
  <2>2. \A id \in Id : ~Travels(id, p)
    BY <2>1 DEF EntriesWait
  <2>3. AnsweredNotQueued'
    BY <2>1, <2>2 DEF LossInv, AnsweredNotQueued, Travels
  <2>4. (ArgsInUse /\ BatchUnanswered /\ SentAreHeld /\ PollResolves)' /\ KeptOnTheWay
    BY <2>1 DEF LossInv, ArgsInUse, BatchUnanswered, SentAreHeld, PollResolves, Resolved,
       KeptOnTheWay, Travels
  <2>5. QED
    BY <2>3, <2>4 DEF LossInv
<1>4. ASSUME NEW c \in Call, PollArrives(c)
      PROVE  LossInv' /\ KeptOnTheWay
  <2>1. /\ call[c].state = "sent" /\ call'[c].state = "handling"
        /\ call'[c].args = call[c].args /\ call'[c].reply = call[c].reply
        /\ \A d \in Call \ {c} : call'[d] = call[d]
    BY <1>4 DEF PollArrives, CallRecord
  <2>2. UNCHANGED <<awaiting, batch, mirrorResponses, pendingRequests, pendingResponses>>
    BY <1>4 DEF PollArrives, privateVars, qmVars
  <2>3. LossInv'
    BY <2>1, <2>2 DEF LossInv, ArgsInUse, BatchUnanswered, AnsweredNotQueued, SentAreHeld,
       PollResolves, Resolved
  <2>4. KeptOnTheWay
    BY <2>1, <2>2 DEF KeptOnTheWay, Travels
  <2>5. QED
    BY <2>3, <2>4
<1>5. ASSUME NEW c \in Call, ReplyToPoll(c)
      PROVE  LossInv' /\ LostWithReply
  <2>1. /\ call[c].state = "handling" /\ call'[c].state \in {"replied", "free"}
        /\ \A id \in Id : /\ call[c].args[id] = None /\ call'[c].args[id] = None
                          /\ call[c].reply[id] = None
                          /\ awaiting = c => call'[c].reply[id] = pendingRequests[id]
        /\ \A d \in Call \ {c} : call'[d] = call[d]
    BY <1>5 DEF ReplyToPoll, NoResponses, FreeCall, InOnePlace
  <2>2. /\ UNCHANGED <<awaiting, batch, mirrorResponses>>
        /\ \A id \in Id : /\ pendingRequests'[id] = None
                          /\ pendingResponses'[id] = IF pendingRequests[id] # None
                                 THEN pendingRequests[id] ELSE pendingResponses[id]
    BY <1>5 DEF ReplyToPoll, QM!GetPendingRequests, QM!Inserted, QM!EmptyMap, privateVars
  <2>3. (ArgsInUse /\ BatchUnanswered)'
    BY <2>1, <2>2 DEF LossInv, ArgsInUse, BatchUnanswered
  <2>4. AnsweredNotQueued'
    <3>1. /\ \A id \in Id : mirrorResponses[id] # None => mirrorResponses[id].of # None
          /\ \A d \in Call, id \in Id : call'[d].args[id] # None => call'[d].args[id].of # None
      BY <2>1, <2>2 DEF MaybeResponse, Response, CallRecord
    <3>2. QED
      BY <2>2, <3>1 DEF AnsweredNotQueued
  <2>5. SentAreHeld'
    BY <2>1, <2>2 DEF LossInv, AnsweredNotQueued, SentAreHeld
  <2>6. PollResolves'
    <3>1. \A id \in Id : Resolved(id) => Resolved(id)'
      BY <2>2 DEF LossInv, AnsweredNotQueued, Resolved
    <3>2. awaiting = c => \A id \in Id : Resolved(id)
      BY <2>1 DEF LossInv, PollResolves, Resolved
    <3>3. QED
      BY <2>1, <2>2, <3>1, <3>2 DEF LossInv, PollResolves
  <2>7. LostWithReply
    <3>1. ASSUME NEW id \in Id, NEW q \in Query, pendingRequests[id] # q, Travels(id, q)
          PROVE  Travels(id, q)'
      BY <2>1, <2>2, <3>1 DEF Travels
    <3>2. ASSUME NEW id \in Id, NEW q \in Query, pendingRequests[id] = q, awaiting = c
          PROVE  Travels(id, q)'
      BY <2>1, <3>2 DEF Travels
    <3>3. QED
      BY <1>5, <2>2, <3>1, <3>2 DEF LostWithReply
  <2>8. QED
    BY <2>3, <2>4, <2>5, <2>6, <2>7 DEF LossInv
<1>6. ASSUME NEW c \in Call, NEW i \in Id, ResolveResponse(c, i)
      PROVE  LossInv' /\ KeptOnTheWay
  <2>1. /\ call[c].state = "handling" /\ call'[c].state = "handling"
        /\ call'[c].reply = call[c].reply
        /\ \A id \in Id \ {i} : call'[c].args[id] = call[c].args[id]
        /\ call'[c].args[i] = None
        /\ \A d \in Call \ {c} : call'[d] = call[d]
        /\ UNCHANGED <<awaiting, batch, mirrorResponses>>
    BY <1>6 DEF ResolveResponse, privateVars, CallRecord
  <2>2. /\ pendingResponses'[i] = None
        /\ \A id \in Id \ {i} : pendingResponses'[id] = pendingResponses[id]
        /\ pendingRequests' = pendingRequests
    BY <1>6 DEF ResolveResponse, QM!ResolveQuery, QM!ResolveUnknown, QM!ResolveKnown, QM!vars
  <2>3. (ArgsInUse /\ BatchUnanswered /\ AnsweredNotQueued)'
    BY <2>1, <2>2 DEF LossInv, ArgsInUse, BatchUnanswered, AnsweredNotQueued
  <2>4. SentAreHeld'
    <3>1. \A d \in Call : call'[d].args[i] # None => call'[d].args[i].of # None
      BY <2>1 DEF MaybeResponse, Response, CallRecord
    <3>2. QED
      BY <2>1, <2>2, <3>1 DEF LossInv, SentAreHeld
  <2>5. PollResolves'
    <3>1. Resolved(i)'
      BY <2>1, <2>2 DEF Resolved, MaybeResponse, Response
    <3>2. QED
      BY <2>1, <2>2, <3>1 DEF LossInv, PollResolves, Resolved
  <2>6. KeptOnTheWay
    BY <2>1, <2>2 DEF KeptOnTheWay, Travels
  <2>7. QED
    BY <2>3, <2>4, <2>5, <2>6 DEF LossInv
<1>7. CASE PublicRestart
  <2>1. /\ UNCHANGED <<awaiting, batch, mirrorResponses>>
        /\ \A id \in Id : pendingRequests'[id] = None /\ pendingResponses'[id] = None
        /\ \A d \in Call : \/ call'[d] = call[d] /\ call[d].state # "handling"
                           \/ /\ call'[d].state \in {"broken", "free"}
                              /\ \A id \in Id : call'[d].args[id] = None
    BY <1>7 DEF PublicRestart, QM!Restart, QM!EmptyMap, FreeCall, privateVars, NoResponses
  <2>2. /\ \A id \in Id : mirrorResponses[id] # None => mirrorResponses[id].of # None
        /\ \A d \in Call, id \in Id : call'[d].args[id] # None => call'[d].args[id].of # None
    BY <2>1 DEF MaybeResponse, Response, CallRecord
  <2>3. KeptOnTheWay
    BY <2>1 DEF KeptOnTheWay
  <2>4. (ArgsInUse /\ BatchUnanswered)'
    BY <2>1 DEF LossInv, ArgsInUse, BatchUnanswered
  <2>5. (AnsweredNotQueued /\ SentAreHeld)'
    BY <2>1, <2>2 DEF AnsweredNotQueued, SentAreHeld
  <2>6. PollResolves'
    <3>1. \A id \in Id : Resolved(id)'
      BY <2>1, <2>2 DEF Resolved
    <3>2. QED
      BY <2>1, <3>1 DEF LossInv, PollResolves
  <2>7. QED
    BY <1>k, <2>3, <2>4, <2>5, <2>6 DEF LossInv
<1>8. ASSUME NEW c \in Call, Poll(c)
      PROVE  LossInv' /\ KeptOnTheWay
  <2>1. /\ awaiting' = c /\ call[c].state = "free" /\ call'[c].state = "sent"
        /\ call'[c].args = mirrorResponses /\ call'[c].reply = call[c].reply
        /\ \A d \in Call \ {c} : call'[d] = call[d]
        /\ UNCHANGED <<batch, mirrorResponses, pendingRequests, pendingResponses>>
    BY <1>8 DEF Poll, CallRecord, qmVars
  <2>2. (ArgsInUse /\ BatchUnanswered)'
    BY <2>1 DEF LossInv, ArgsInUse, BatchUnanswered
  <2>3. (AnsweredNotQueued /\ SentAreHeld)'
    <3>1. \A id \in Id : call'[c].args[id] = mirrorResponses[id]
      BY <2>1
    <3>2. AnsweredNotQueued'
      BY <2>1, <3>1 DEF LossInv, AnsweredNotQueued
    <3>3. SentAreHeld'
      BY <2>1, <3>1 DEF LossInv, SentAreHeld
    <3>4. QED
      BY <3>2, <3>3
  <2>4. PollResolves'
    BY <2>1 DEF PollResolves
  <2>5. KeptOnTheWay
    BY <2>1 DEF LossInv, ArgsInUse, KeptOnTheWay, Travels
  <2>6. QED
    BY <2>2, <2>3, <2>4, <2>5 DEF LossInv
<1>9. ASSUME NEW c \in Call, PollOk(c)
      PROVE  LossInv' /\ KeptOnTheWay
  <2>1. /\ awaiting = c /\ awaiting' = None /\ call[c].state = "replied"
        /\ \A id \in Id : /\ batch'[id] = call[c].reply[id]
                          /\ mirrorResponses'[id] = None
                          /\ call'[c].args[id] = None /\ call[c].args[id] = None
        /\ call'[c] = FreeCall
        /\ \A d \in Call \ {c} : call'[d] = call[d]
        /\ UNCHANGED <<pendingRequests, pendingResponses>>
    BY <1>9 DEF PollOk, NoResponses, qmVars, LossInv, ArgsInUse
  <2>2. \A id \in Id : Resolved(id)
    BY <2>1 DEF LossInv, PollResolves
  <2>3. (ArgsInUse /\ BatchUnanswered /\ AnsweredNotQueued /\ PollResolves)'
    BY <2>1 DEF LossInv, ArgsInUse, BatchUnanswered, AnsweredNotQueued, PollResolves
  <2>4. SentAreHeld'
    BY <2>1, <2>2 DEF LossInv, SentAreHeld, Resolved
  <2>5. KeptOnTheWay
    <3>1. \A id \in Id : batch[id] = None /\ \A d \in Call \ {c} : call[d].reply[id] = None
      BY <2>1 DEF OneThread, InOnePlace
    <3>2. QED
      BY <2>1, <2>2, <3>1 DEF KeptOnTheWay, Travels, Resolved
  <2>6. QED
    BY <2>3, <2>4, <2>5 DEF LossInv
<1>10. ASSUME NEW c \in Call, PollErr(c)
       PROVE  LossInv' /\ LostWithReply
  <2>1. /\ awaiting' = None
        /\ \A d \in Call : \/ call'[d] = call[d]
                           \/ /\ d = c /\ call'[d] = FreeCall
                              /\ \A id \in Id : call[d].args[id] = None
        /\ UNCHANGED <<batch, mirrorResponses, pendingRequests, pendingResponses>>
    BY <1>10 DEF PollErr, Abandoned, qmVars, LossInv, ArgsInUse
  <2>2. (ArgsInUse /\ BatchUnanswered /\ AnsweredNotQueued /\ SentAreHeld /\ PollResolves)'
    <3>1. (ArgsInUse /\ BatchUnanswered)'
      BY <2>1 DEF LossInv, ArgsInUse, BatchUnanswered
    <3>2. (AnsweredNotQueued /\ SentAreHeld)'
      BY <2>1 DEF LossInv, AnsweredNotQueued, SentAreHeld
    <3>3. PollResolves'
      BY <2>1 DEF PollResolves
    <3>4. QED
      BY <3>1, <3>2, <3>3
  <2>3. ASSUME NEW id \in Id, NEW q \in Query, call[c].reply[id] # q, Travels(id, q)
        PROVE  Travels(id, q)'
    BY <2>1, <2>3 DEF Travels
  <2>4. LostWithReply
    BY <1>10, <2>1, <2>3 DEF LostWithReply
  <2>5. QED
    BY <2>2, <2>4 DEF LossInv
<1>11. ASSUME NEW c \in Call, CallLost(c)
       PROVE  LossInv' /\ KeptOnTheWay
  <2>1. /\ awaiting # c /\ call[c].state = "sent" /\ call'[c] = FreeCall
        /\ \A d \in Call \ {c} : call'[d] = call[d]
        /\ UNCHANGED <<awaiting, batch, mirrorResponses, pendingRequests, pendingResponses>>
    BY <1>11 DEF CallLost, privateVars, qmVars
  <2>2. (ArgsInUse /\ BatchUnanswered /\ AnsweredNotQueued /\ SentAreHeld /\ PollResolves)'
    <3>1. (ArgsInUse /\ BatchUnanswered)'
      BY <2>1 DEF LossInv, ArgsInUse, BatchUnanswered
    <3>2. (AnsweredNotQueued /\ SentAreHeld)'
      BY <2>1 DEF LossInv, AnsweredNotQueued, SentAreHeld
    <3>3. PollResolves'
      BY <2>1 DEF LossInv, PollResolves, Resolved
    <3>4. QED
      BY <3>1, <3>2, <3>3
  <2>3. KeptOnTheWay
    <3>1. \A id \in Id : call[c].reply[id] = None
      BY <2>1 DEF InOnePlace
    <3>2. QED
      BY <2>1, <3>1 DEF KeptOnTheWay, Travels, LossInv, SentAreHeld
  <2>4. QED
    BY <2>2, <2>3 DEF LossInv
<1>12. ASSUME NEW i \in Id, Refuse(i) \/ WalletReplies(i) \/ WalletFails(i)
       PROVE  LossInv' /\ KeptOnTheWay
  <2>1. batch[i] \in Query /\ awaiting = None
    BY <1>12 DEF Refuse, Processing, OneThread, WalletReplies, WalletFails, MaybeQuery
  <2>2. PICK type \in ResponseType : Respond(i, type)
    BY <1>12, RequiredType DEF Refuse, WalletReplies, WalletFails
  <2>3. [type |-> type, of |-> batch[i]] \in Response
    BY <2>1 DEF Response
  <2>4. /\ mirrorResponses'[i] # None /\ mirrorResponses'[i].of = batch[i]
        /\ \A id \in Id \ {i} : mirrorResponses'[id] = mirrorResponses[id]
        /\ batch'[i] = None
        /\ \A id \in Id \ {i} : batch'[id] = batch[id]
    BY <2>1, <2>2, <2>3, RespondEffect DEF Respond
  <2>5. UNCHANGED <<call, awaiting, pendingRequests, pendingResponses>>
    BY <1>12 DEF Refuse, WalletReplies, WalletFails, qmVars
  <2>6. mirrorResponses[i] = None
    BY <2>1 DEF LossInv, BatchUnanswered
  <2>7. (ArgsInUse /\ BatchUnanswered /\ PollResolves)'
    BY <2>1, <2>4, <2>5 DEF LossInv, ArgsInUse, BatchUnanswered, PollResolves
  <2>8. AnsweredNotQueued'
    <3>1. \A j \in Id : pendingRequests[j] # batch[i]
      BY <2>1 DEF InOnePlace
    <3>2. QED
      BY <2>4, <2>5, <3>1 DEF LossInv, AnsweredNotQueued
  <2>9. SentAreHeld'
    BY <2>4, <2>5, <2>6 DEF LossInv, SentAreHeld
  <2>10. KeptOnTheWay
    BY <2>4, <2>5, <2>6 DEF KeptOnTheWay, Travels
  <2>11. QED
    BY <2>7, <2>8, <2>9, <2>10 DEF LossInv
<1>13. QED
  BY <1>k, <1>2, <1>3, <1>4, <1>5, <1>6, <1>7, <1>8, <1>9, <1>10, <1>11, <1>12
  DEF Next, PublicSide, PrivateSide, Environment, PrivateRestart

\* Polls may fail, arrive late and more than once, ids be drawn again and the public
\* side be restarted: as long as the private side lives, a query that was handed over
\* is stranded with a lost reply or not at all.
THEOREM OnlyLossStrands ==
    ASSUME ~PrivateCrashes
    PROVE  Spec => OnlyLostRepliesStrand
<1>1. Init => LossInv /\ EntriesWait
  BY Nothing, FreeCallIsEmpty DEF Init, QM!Init, QM!EmptyMap, NoResponses, EntriesWait, Travels,
     LossInv, ArgsInUse, BatchUnanswered, AnsweredNotQueued, SentAreHeld, PollResolves, Resolved
<1> DEFINE Step == \A id \in Id, q \in Query :
          /\ pendingResponses'[id] = q /\ ~OnTheWay(id, q)'
          /\ pendingResponses[id] = q => OnTheWay(id, q)
          => \/ \E c \in Call : PollErr(c) /\ call[c].reply[id] = q
             \/ \E c \in Call : ReplyToPoll(c) /\ awaiting # c /\ pendingRequests[id] = q
<1>2. LostWithReply => Step
  <2>1. \A id \in Id, q \in Query : Travels(id, q) <=> OnTheWay(id, q)
    BY Nothing DEF Travels, OnTheWay, InDelivery
  <2>2. \A id \in Id, q \in Query : Travels(id, q)' <=> OnTheWay(id, q)'
    BY Nothing DEF Travels, OnTheWay, InDelivery
  <2>3. QED
    BY <2>1, <2>2 DEF LostWithReply
<1>3. TypeOK /\ OneThread /\ OnceInv /\ EntriesWait /\ LossInv /\ [Next]_vars => LossInv' /\ Step
  BY <1>2, LossStep DEF OnceInv
<1>4. TypeOK /\ OneThread /\ QM!MapsConsistent /\ EntriesWait /\ [Next]_vars => EntriesWait'
  BY EntriesWaitStep
<1>5. Spec => [][Step]_vars
  BY <1>1, <1>3, <1>4, TypeCorrect, OneThreadAlways, OnceAlways, ManagerIsConsistent, PTL DEF Spec
<1>6. QED
  BY <1>5 DEF OnlyLostRepliesStrand
=============================================================================
