------------------------------- MODULE Mirror -------------------------------
(***************************************************************************)
(* The wallet service mirror end to end: HTTP clients, the public side     *)
(* (its query manager and its gRPC Poll handler), the network between the  *)
(* two sides, the private side's polling loop and the full-service wallet. *)
(*                                                                         *)
(* The private side only ever calls out: it polls the public side, hands   *)
(* over the responses it has and takes the requests that are pending.  A   *)
(* call that fails for the private side may still be running, or may have  *)
(* run, on the public side; the next poll is then concurrent with it.      *)
(*                                                                         *)
(* A request message carries a clone of QueryInner.request; it is modelled *)
(* by the query it is a clone of.  The payload of a response is modelled   *)
(* by the query whose request it answers (field "of").                     *)
(***************************************************************************)
EXTENDS FiniteSets, Naturals

CONSTANTS
    Query, Id, None,
    Request,        \* the requests clients send, a subset of AllRequests
    Call,           \* the poll calls that can be under way at a time
    NumWorkers,     \* the worker threads of the client HTTP server
    MirrorKey,      \* the private side was started with --mirror-key
    FreshIds,       \* no id is drawn twice (62^8 ids), else only the code's check
    Lossy,          \* polls may fail
    PublicCrashes, PrivateCrashes   \* a side may be restarted

AllRequests ==
         [kind : {"unencrypted"}, body : {"supported", "unsupported", "malformed"}]
    \cup [kind : {"encrypted"},
          body : {"supported", "unsupported", "malformed", "undecryptable"}]

ResponseType == {"error", "unencrypted", "encrypted"}
Response == [type : ResponseType, of : Query]

ASSUME MirrorConstants ==
    /\ Request \subseteq AllRequests
    /\ None \notin Query \cup Id \cup Call \cup Request \cup Response
    /\ NumWorkers \in Nat \ {0}
    /\ {MirrorKey, FreshIds, Lossy, PublicCrashes, PrivateCrashes} \subseteq BOOLEAN

VARIABLES
    \* The public side: see QueryManager.
    pendingRequests, pendingResponses, request, response, phase, answer,
    issued,             \* the ids drawn so far (a history, kept with FreshIds)
    \* The calls of Poll: their state, the responses the handler has still to
    \* resolve, and the requests in the reply.
    call,
    \* The private side.
    awaiting,           \* the call the polling loop is blocked in
    batch,              \* the requests of the last reply not processed yet
    posting,            \* the id in batch whose POST to full-service is out
    mirrorResponses,    \* pending_responses of the polling loop
    \* Full-service.
    wallet,             \* the state of the POST of each query
    executions          \* how often the request of each query was executed

qmVars == <<pendingRequests, pendingResponses, request, response, phase, answer>>
privateVars == <<awaiting, batch, posting, mirrorResponses>>
walletVars == <<wallet, executions>>
vars == <<qmVars, issued, call, privateVars, walletVars>>

QM == INSTANCE QueryManager

NoResponses == [id \in Id |-> None]
FreeCall == [state |-> "free", args |-> NoResponses, reply |-> QM!EmptyMap]
CallState == {"free", "sent", "handling", "broken", "replied"}

\* The cap on the history variable executions.
MaxExecutions == 2

TypeOK ==
    /\ QM!TypeOK
    /\ issued \subseteq Id
    /\ call \in [Call -> [state : CallState,
                          args : [Id -> Response \cup {None}],
                          reply : [Id -> Query \cup {None}]]]
    /\ awaiting \in Call \cup {None}
    /\ batch \in [Id -> Query \cup {None}]
    /\ posting \in Id \cup {None}
    /\ mirrorResponses \in [Id -> Response \cup {None}]
    /\ wallet \in [Query -> {"none", "posted", "executed"}]
    /\ executions \in [Query -> 0..MaxExecutions]

Init ==
    /\ QM!Init
    /\ issued = {}
    /\ call = [c \in Call |-> FreeCall]
    /\ awaiting = None
    /\ batch = QM!EmptyMap
    /\ posting = None
    /\ mirrorResponses = NoResponses
    /\ wallet = [q \in Query |-> "none"]
    /\ executions = [q \in Query |-> 0]

-----------------------------------------------------------------------------
(* The HTTP server.  A worker serves one request at a time, and is blocked *)
(* until wait() returns.                                                   *)

Waiting == {q \in Query : phase[q] = "waiting"}
Saturated == Cardinality(Waiting) >= NumWorkers

(* Operators named Bug... are faulty forms of the definition after them, for *)
(* checking that the properties notice.                                     *)

\* Ids so short that one drawn before is soon drawn again.
BugShortIds(q, id, req) ==
    /\ ~Saturated
    /\ QM!EnqueueQuery(q, id, req)
    /\ UNCHANGED <<issued, call, privateVars, walletVars>>

HttpRequest(q, id, req) ==
    /\ ~Saturated
    /\ FreshIds => id \notin issued
    /\ QM!EnqueueQuery(q, id, req)
    /\ issued' = IF FreshIds THEN issued \cup {id} ELSE issued
    /\ UNCHANGED <<call, privateVars, walletVars>>

WaitReturn(q) ==
    /\ QM!WaitReturn(q)
    /\ UNCHANGED <<issued, call, privateVars, walletVars>>

WaitTimeout(q) ==
    /\ QM!WaitTimeout(q)
    /\ UNCHANGED <<issued, call, privateVars, walletVars>>

\* What the client of an answered query gets: the body with status 200, or
\* 400 for an error and for a response that is not of the request's type.
Success(q) == phase[q] = "answered" /\ answer[q].type = request[q].kind

-----------------------------------------------------------------------------
(* The Poll handler.                                                       *)

PollArrives(c) ==
    /\ call[c].state = "sent"
    /\ call' = [call EXCEPT ![c].state = "handling"]
    /\ UNCHANGED <<qmVars, issued, privateVars, walletVars>>

\* One round of the loop over the responses; each takes the manager's lock
\* anew, so rounds of other calls and HTTP requests come in between.
ResolveResponse(c, id) ==
    /\ call[c].state = "handling"
    /\ call[c].args[id] # None
    /\ QM!ResolveQuery(id, call[c].args[id])
    /\ call' = [call EXCEPT ![c].args[id] = None]
    /\ UNCHANGED <<issued, privateVars, walletVars>>

\* The reply to a call the private side has given up goes nowhere.
ReplyToPoll(c) ==
    /\ call[c].state = "handling"
    /\ call[c].args = NoResponses
    /\ QM!GetPendingRequests
    /\ call' = [call EXCEPT ![c] =
                  IF awaiting = c
                  THEN [FreeCall EXCEPT !.state = "replied", !.reply = pendingRequests]
                  ELSE FreeCall]
    /\ UNCHANGED <<issued, privateVars, walletVars>>

\* The public process is started again with empty maps; handlers die with it.
PublicRestart ==
    /\ PublicCrashes
    /\ QM!Restart
    /\ call' = [c \in Call |->
                  IF call[c].state # "handling" THEN call[c]
                  ELSE IF awaiting = c THEN [FreeCall EXCEPT !.state = "broken"]
                  ELSE FreeCall]
    /\ UNCHANGED <<issued, privateVars, walletVars>>

-----------------------------------------------------------------------------
(* The private side: one thread that polls, processes the requests of the  *)
(* reply one after the other, and sleeps.                                  *)

Polling == awaiting = None /\ posting = None /\ batch = QM!EmptyMap
Processing == awaiting = None /\ posting = None

Poll(c) ==
    /\ Polling
    /\ call[c].state = "free"
    /\ call' = [call EXCEPT ![c].state = "sent", ![c].args = mirrorResponses]
    /\ awaiting' = c
    /\ UNCHANGED <<qmVars, issued, batch, posting, mirrorResponses, walletVars>>

\* Does not clear what it has delivered.
BugPollOkKeeps(c) ==
    /\ awaiting = c
    /\ call[c].state = "replied"
    /\ awaiting' = None
    /\ batch' = call[c].reply
    /\ call' = [call EXCEPT ![c] = FreeCall]
    /\ UNCHANGED <<qmVars, issued, posting, mirrorResponses, walletVars>>

PollOk(c) ==
    /\ awaiting = c
    /\ call[c].state = "replied"
    /\ awaiting' = None
    /\ mirrorResponses' = NoResponses
    /\ batch' = call[c].reply
    /\ call' = [call EXCEPT ![c] = FreeCall]
    /\ UNCHANGED <<qmVars, issued, posting, walletVars>>

\* Nobody waits for call c any longer.  What was sent may still arrive.
Abandoned(c) ==
    IF call[c].state \in {"replied", "broken"}
    THEN [call EXCEPT ![c] = FreeCall] ELSE call

\* Clears the responses whether or not the poll succeeded.
BugPollErrClears(c) ==
    /\ Lossy \/ call[c].state = "broken"
    /\ awaiting = c
    /\ awaiting' = None
    /\ mirrorResponses' = NoResponses
    /\ call' = Abandoned(c)
    /\ UNCHANGED <<qmVars, issued, batch, posting, walletVars>>

\* The responses are kept, and sent again with the next poll.
PollErr(c) ==
    /\ Lossy \/ call[c].state = "broken"
    /\ awaiting = c
    /\ awaiting' = None
    /\ call' = Abandoned(c)
    /\ UNCHANGED <<qmVars, issued, batch, posting, mirrorResponses, walletVars>>

\* The network loses a call the private side has given up.
CallLost(c) ==
    /\ awaiting # c
    /\ call[c].state = "sent"
    /\ call' = [call EXCEPT ![c] = FreeCall]
    /\ UNCHANGED <<qmVars, issued, privateVars, walletVars>>

RequiredKind == IF MirrorKey THEN "encrypted" ELSE "unencrypted"

\* The requests that are passed on to full-service: of the kind this private
\* side accepts, readable, and of a method in SUPPORTED_ENDPOINTS.
Permitted(req) == req.kind = RequiredKind /\ req.body = "supported"

\* Leaves the loop over the batch at the first error.
BugRespondStops(id, type) ==
    /\ IF type = "error"
       THEN batch' = QM!EmptyMap /\ UNCHANGED mirrorResponses
       ELSE /\ mirrorResponses' =
                 [mirrorResponses EXCEPT ![id] = [type |-> type, of |-> batch[id]]]
            /\ batch' = [batch EXCEPT ![id] = None]
    /\ posting' = None

\* Stores a response that has no payload.
BugRespondEmpty(id, type) ==
    /\ mirrorResponses' = [mirrorResponses EXCEPT ![id] = [type |-> type, of |-> None]]
    /\ batch' = [batch EXCEPT ![id] = None]
    /\ posting' = None

Respond(id, type) ==
    /\ mirrorResponses' =
          [mirrorResponses EXCEPT ![id] = [type |-> type, of |-> batch[id]]]
    /\ batch' = [batch EXCEPT ![id] = None]
    /\ posting' = None

Refuse(id) ==
    /\ Processing
    /\ batch[id] # None
    /\ ~Permitted(request[batch[id]])
    /\ Respond(id, "error")
    /\ UNCHANGED <<qmVars, issued, call, awaiting, walletVars>>

Forward(id) ==
    /\ Processing
    /\ batch[id] # None
    /\ Permitted(request[batch[id]])
    /\ posting' = id
    /\ wallet' = [wallet EXCEPT ![batch[id]] = "posted"]
    /\ UNCHANGED <<qmVars, issued, call, awaiting, batch, mirrorResponses, executions>>

WalletReplies(id) ==
    /\ posting = id
    /\ wallet[batch[id]] = "executed"
    /\ Respond(id, RequiredKind)
    /\ UNCHANGED <<qmVars, issued, call, awaiting, walletVars>>

\* Tries the POST again.
BugWalletRetry(id) ==
    /\ posting = id
    /\ wallet' = [wallet EXCEPT ![batch[id]] = "posted"]
    /\ UNCHANGED <<qmVars, issued, call, privateVars, executions>>

\* Takes what came of the failed POST for the wallet's reply.
BugWalletFailsAsReply(id) ==
    /\ posting = id
    /\ Respond(id, RequiredKind)
    /\ UNCHANGED <<qmVars, issued, call, awaiting, walletVars>>

\* No connection, no reply within FULL_SERVICE_TIMEOUT, or encrypt() fails.
\* The wallet may have executed the request, or may execute it yet.
WalletFails(id) ==
    /\ posting = id
    /\ Respond(id, "error")
    /\ UNCHANGED <<qmVars, issued, call, awaiting, walletVars>>

\* The private process is started again and polls with nothing to deliver.
PrivateRestart ==
    /\ PrivateCrashes
    /\ awaiting' = None
    /\ batch' = QM!EmptyMap
    /\ posting' = None
    /\ mirrorResponses' = NoResponses
    /\ call' = IF awaiting = None THEN call ELSE Abandoned(awaiting)
    /\ UNCHANGED <<qmVars, issued, walletVars>>

-----------------------------------------------------------------------------
(* Full-service.                                                           *)

WalletExecute(q) ==
    /\ wallet[q] = "posted"
    /\ executions[q] < MaxExecutions
    /\ wallet' = [wallet EXCEPT ![q] = "executed"]
    /\ executions' = [executions EXCEPT ![q] = @ + 1]
    /\ UNCHANGED <<qmVars, issued, call, privateVars>>

-----------------------------------------------------------------------------

PublicSide ==
    \/ \E q \in Query, id \in Id, req \in Request : HttpRequest(q, id, req)
    \/ \E q \in Query : WaitReturn(q) \/ WaitTimeout(q)
    \/ \E c \in Call : PollArrives(c) \/ ReplyToPoll(c)
    \/ \E c \in Call, id \in Id : ResolveResponse(c, id)
    \/ PublicRestart

PrivateSide ==
    \/ \E c \in Call : Poll(c) \/ PollOk(c) \/ PollErr(c)
    \/ \E id \in Id : Refuse(id) \/ Forward(id) \/ WalletReplies(id) \/ WalletFails(id)
    \/ PrivateRestart

Environment ==
    \/ \E c \in Call : CallLost(c)
    \/ \E q \in Query : WalletExecute(q)

Next == PublicSide \/ PrivateSide \/ Environment

Spec == Init /\ [][Next]_vars

\* The threads of both sides run and the clock reaches every deadline.
Fairness ==
    /\ \A q \in Query : WF_vars(WaitReturn(q)) /\ WF_vars(WaitTimeout(q))
    /\ \A c \in Call :
          /\ WF_vars(ReplyToPoll(c))
          /\ \A id \in Id : WF_vars(ResolveResponse(c, id))
    /\ WF_vars(\E c \in Call : Poll(c))
    /\ \A id \in Id : /\ WF_vars(Refuse(id) \/ Forward(id))
                      /\ WF_vars(WalletReplies(id) \/ WalletFails(id))

\* An assumption on the network, which the code does not enforce: its call has no
\* deadline, so a connection that is silently lost would block the polling loop.
\* What is sent arrives, and what is replied, unless the call is seen to fail.
NetworkCarries == \A c \in Call : WF_vars(PollArrives(c)) /\ WF_vars(PollOk(c))

\* However long polls fail, there comes a time from which on they do not (the
\* channel reconnects, with a backoff of 2 s at most).  A poll that fails with
\* nothing in its arguments and its reply is no different from one that succeeds.
NetworkRecovers == <>[][\A c \in Call : PollErr(c) => PollOk(c)]_vars

FairSpec == Spec /\ Fairness /\ NetworkCarries /\ NetworkRecovers

-----------------------------------------------------------------------------
(* Properties.                                                             *)

\* A client is answered with the response to its own request, never with that
\* of another client, whatever polls were repeated, overtaken or lost.
AnswerMatchesRequest == \A q \in Query : phase[q] = "answered" => answer[q].of = q

\* The wallet executes a request at most once: a request is handed to the
\* private side once, and a repeated poll repeats responses, not requests.
AtMostOnceExecution == \A q \in Query : executions[q] <= 1

\* The responses on their way to the query manager under the key id.
InDelivery(id) ==
    ({mirrorResponses[id]} \cup {call[c].args[id] : c \in Call}) \ {None}

\* A response never comes too early or under an id that is gone, for as long
\* as somebody waits for it: while its client waits and has nothing, the query
\* is in pendingResponses, under the very id the response will be resolved with
\* ("Unknown query id" only ever hits responses nobody needs).
AnswerDeliverable ==
    \A id \in Id : \A r \in InDelivery(id) :
        phase[r.of] = "waiting" /\ response[r.of] = None
            => pendingResponses[id] = r.of

\* Where the request or the response of the query handed over under id can be.
OnTheWay(id, q) ==
    \/ batch[id] = q
    \/ \E c \in Call : call[c].reply[id] = q
    \/ \E r \in InDelivery(id) : r.of = q

\* No query is stranded in pendingResponses: the private side has its request,
\* or its response is on the way.  This holds as long as nothing fails.
NothingStranded ==
    \A id \in QM!Keys(pendingResponses) : OnTheWay(id, pendingResponses[id])

\* "Clear pending responses since we successfully delivered them to the other
\* side" (private/main.rs:141): when the polling loop forgets a response, its
\* client has it or has stopped waiting.  Only a restart forgets more.
ClearedAreDelivered ==
    [][\A id \in Id :
          mirrorResponses[id] # None /\ mirrorResponses'[id] = None =>
             \/ PrivateRestart
             \/ phase[mirrorResponses[id].of] # "waiting"
             \/ response[mirrorResponses[id].of] # None]_vars

\* When polls do fail, it is a lost reply that strands a query, and nothing else:
\* the reply to a poll is given up while it carries the request, or it is made for
\* a poll that was given up before.  A query whose request did arrive stays on its
\* way until it is resolved, though its response be sent many times.  (A restart
\* of the private side strands all it has.)
OnlyLostRepliesStrand ==
    [][\A id \in Id, q \in Query :
          /\ pendingResponses'[id] = q /\ ~OnTheWay(id, q)'
          /\ pendingResponses[id] = q => OnTheWay(id, q)
          => \/ \E c \in Call : PollErr(c) /\ call[c].reply[id] = q
             \/ \E c \in Call : ReplyToPoll(c) /\ awaiting # c /\ pendingRequests[id] = q]_vars

\* Without loss every query leaves the maps: sent, resolved and forgotten,
\* also when its client has given up.
QueriesAreForgotten ==
    \A q \in Query :
        q \in QM!Entries(pendingRequests) \cup QM!Entries(pendingResponses)
            ~> q \notin QM!Entries(pendingRequests) \cup QM!Entries(pendingResponses)

\* However many polls fail before, the responses of a batch are delivered in the
\* end and the loop goes on to take new requests.
ResponsesAreDelivered ==
    \A id \in Id : mirrorResponses[id] # None ~> mirrorResponses[id] = None

\* What the documentation of --mirror-key says: "only encrypted requests will be
\* processed and only encrypted responses will be returned"
\* (create-release/package-mainnet/README.md:117).  In the code an error is
\* returned in QueryResponse.error, which is not encrypted.
OnlyEncryptedResponses ==
    MirrorKey => \A q \in Query : phase[q] = "answered" => answer[q].type = "encrypted"

\* The service the clients see (RequestReply): what a query came to.
Outcome(q) ==
    CASE phase[q] = "idle"    -> "none"
      [] phase[q] = "waiting" -> "pending"
      [] phase[q] \in {"timeout", "dropped"} -> phase[q]
      [] Success(q) /\ answer[q].of = q -> "success"
      [] phase[q] = "answered" /\ answer[q].type = "error" -> "error"
      [] OTHER -> "wrong"

Service == INSTANCE RequestReply WITH
    outcome  <- [q \in Query |-> Outcome(q)],
    eligible <- {q \in Query : phase[q] # "idle" /\ Permitted(request[q])},
    executed <- executions

ImplementsService == Service!Spec
=============================================================================
