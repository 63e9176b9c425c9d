---------------------------- MODULE QueryManager ----------------------------
(***************************************************************************)
(* The query manager of the public side of the mirror (src/public/query.rs)*)
(* as seen from outside its mutexes: one action per critical section.      *)
(*                                                                         *)
(* A client's HTTP request becomes a Query that is shared (Arc) between    *)
(* the Rocket worker blocked in Query::wait and one of two hash maps: the  *)
(* queries not yet handed to the private side and those handed over and    *)
(* not yet resolved.  The callers are open here: requests and poll calls   *)
(* come in any order, with any query ids and any responses.  QueryLocks    *)
(* opens the critical sections up; Mirror closes the environment.          *)
(***************************************************************************)
CONSTANTS
    Query,      \* the Query objects, one for each HTTP request
    Id,         \* the query ids
    Request,    \* the values of QueryRequest
    Response,   \* the values of QueryResponse
    None        \* Option::None, and an absent key of a map

ASSUME NoneIsNoValue == None \notin Query \cup Request \cup Response

VARIABLES
    pendingRequests,    \* query id -> query not yet sent to the private side
    pendingResponses,   \* query id -> query sent and not resolved
    request,            \* QueryInner.request of each query
    response,           \* QueryInner.response of each query
    phase,              \* where the worker that owns the query is
    answer              \* what Query::wait returned Ok with

vars == <<pendingRequests, pendingResponses, request, response, phase, answer>>

\* "idle": the HTTP request has not been accepted, the query does not exist;
\* "waiting": in wait(); "answered" and "timeout": wait() returned Ok and Err;
\* "dropped": the process died under it.
Phase == {"idle", "waiting", "answered", "timeout", "dropped"}

\* The entries of a map: a key that is not there maps to None.
Keys(map) == {id \in Id : map[id] # None}
Entries(map) == {map[id] : id \in Keys(map)}

EmptyMap == [id \in Id |-> None]

TypeOK ==
    /\ pendingRequests \in [Id -> Query \cup {None}]
    /\ pendingResponses \in [Id -> Query \cup {None}]
    /\ request \in [Query -> Request \cup {None}]
    /\ response \in [Query -> Response \cup {None}]
    /\ phase \in [Query -> Phase]
    /\ answer \in [Query -> Response \cup {None}]

Init ==
    /\ pendingRequests = EmptyMap
    /\ pendingResponses = EmptyMap
    /\ request = [q \in Query |-> None]
    /\ response = [q \in Query |-> None]
    /\ phase = [q \in Query |-> "idle"]
    /\ answer = [q \in Query |-> None]

(* Operators named Bug... are faulty forms of the definition after them, for *)
(* checking that the properties notice.                                     *)

\* Looks into one of the maps only.
BugUnusedId(id) == pendingRequests[id] = None

\* generate_query_id draws until it finds an id that is in neither map.
UnusedId(id) ==
    /\ pendingRequests[id] = None
    /\ pendingResponses[id] = None

EnqueueQuery(q, id, req) ==
    /\ phase[q] = "idle"
    /\ UnusedId(id)
    /\ pendingRequests' = [pendingRequests EXCEPT ![id] = q]
    /\ request' = [request EXCEPT ![q] = req]
    /\ response' = [response EXCEPT ![q] = None]
    /\ phase' = [phase EXCEPT ![q] = "waiting"]
    /\ UNCHANGED <<pendingResponses, answer>>

\* Replaces the map by the drained entries.
BugInserted(old, new) == new
\* The same, and keeps only the keys.
BugInsertedKeys(old, new) == [id \in Keys(new) |-> new[id]]

\* The map that insert()ing every entry of new into old leaves.
Inserted(old, new) ==
    [id \in Id |-> IF new[id] # None THEN new[id] ELSE old[id]]

\* Clones the map in place of draining it.
BugGetPendingRequests ==
    /\ pendingResponses' = Inserted(pendingResponses, pendingRequests)
    /\ UNCHANGED <<pendingRequests, request, response, phase, answer>>

\* Hands over everything in pendingRequests: the caller gets its entries.
GetPendingRequests ==
    /\ pendingRequests' = EmptyMap
    /\ pendingResponses' = Inserted(pendingResponses, pendingRequests)
    /\ UNCHANGED <<request, response, phase, answer>>

\* Err("Unknown query id"): the poll handler logs it and goes on.
ResolveUnknown(id) ==
    /\ pendingResponses[id] = None
    /\ UNCHANGED vars

\* get() in place of remove().
BugResolveKeeps(id, r) ==
    /\ pendingResponses[id] # None
    /\ response' = [response EXCEPT ![pendingResponses[id]] = r]
    /\ UNCHANGED <<pendingRequests, pendingResponses, request, phase, answer>>

\* Resolves whichever query is at hand.
BugResolveAny(id, r) ==
    \E other \in Keys(pendingResponses) :
        /\ pendingResponses' = [pendingResponses EXCEPT ![other] = None]
        /\ response' = [response EXCEPT ![pendingResponses[other]] = r]
        /\ UNCHANGED <<pendingRequests, request, phase, answer>>

ResolveKnown(id, r) ==
    /\ pendingResponses[id] # None
    /\ pendingResponses' = [pendingResponses EXCEPT ![id] = None]
    /\ response' = [response EXCEPT ![pendingResponses[id]] = r]
    /\ UNCHANGED <<pendingRequests, request, phase, answer>>

ResolveQuery(id, r) == ResolveUnknown(id) \/ ResolveKnown(id, r)

\* wait() finds a response and takes it.
WaitReturn(q) ==
    /\ phase[q] = "waiting"
    /\ response[q] # None
    /\ answer' = [answer EXCEPT ![q] = response[q]]
    /\ response' = [response EXCEPT ![q] = None]
    /\ phase' = [phase EXCEPT ![q] = "answered"]
    /\ UNCHANGED <<pendingRequests, pendingResponses, request>>

\* The deadline counts from the time the query is sent.
BugWaitTimeout(q) ==
    /\ phase[q] = "waiting"
    /\ response[q] = None
    /\ q \in Entries(pendingResponses)
    /\ phase' = [phase EXCEPT ![q] = "timeout"]
    /\ UNCHANGED <<pendingRequests, pendingResponses, request, response, answer>>

\* QUERY_MAX_DURATION has passed and the condition still holds.  The query
\* stays in whichever map it is in.
WaitTimeout(q) ==
    /\ phase[q] = "waiting"
    /\ response[q] = None
    /\ phase' = [phase EXCEPT ![q] = "timeout"]
    /\ UNCHANGED <<pendingRequests, pendingResponses, request, response, answer>>

\* The public process dies and is started again: QueryManager::default().
Restart ==
    /\ pendingRequests' = EmptyMap
    /\ pendingResponses' = EmptyMap
    /\ response' = [q \in Query |-> None]
    /\ phase' = [q \in Query |->
                    IF phase[q] = "waiting" THEN "dropped" ELSE phase[q]]
    /\ UNCHANGED <<request, answer>>

Next ==
    \/ \E q \in Query, id \in Id, req \in Request : EnqueueQuery(q, id, req)
    \/ GetPendingRequests
    \/ \E id \in Id, r \in Response : ResolveQuery(id, r)
    \/ \E q \in Query : WaitReturn(q) \/ WaitTimeout(q)
    \/ Restart

Spec == Init /\ [][Next]_vars

\* The clock reaches the deadline and a notified worker gets to run.
FairSpec == Spec /\ \A q \in Query : WF_vars(WaitReturn(q)) /\ WF_vars(WaitTimeout(q))

-----------------------------------------------------------------------------
(* Invariants.                                                             *)

\* An id names one query at a time: it is a key of at most one of the maps,
\* so that inserting the drained requests overwrites no query that waits
\* under the same id (generate_query_id looks into both maps).
DisjointIds == Keys(pendingRequests) \cap Keys(pendingResponses) = {}

\* A query has at most one entry over the two maps, so it is sent to the
\* private side once and resolved once.
OneEntryPerQuery ==
    /\ Entries(pendingRequests) \cap Entries(pendingResponses) = {}
    /\ \A i, j \in Keys(pendingRequests) :
          pendingRequests[i] = pendingRequests[j] => i = j
    /\ \A i, j \in Keys(pendingResponses) :
          pendingResponses[i] = pendingResponses[j] => i = j

\* Whatever is in a map was enqueued, is not resolved, and its client is
\* waiting or gave up: resolving never overwrites a response nor answers a
\* request that was answered before.
EntriesUnresolved ==
    \A q \in Entries(pendingRequests) \cup Entries(pendingResponses) :
        /\ phase[q] \in {"waiting", "timeout"}
        /\ response[q] = None
        /\ request[q] # None

\* A client that waits for a response nobody has stored can still get it: its
\* query is in one of the maps.
NoQueryLost ==
    \A q \in Query :
        phase[q] = "waiting" /\ response[q] = None
            => q \in Entries(pendingRequests) \cup Entries(pendingResponses)

\* The two maps hold every unanswered query, once.
MapsConsistent ==
    /\ DisjointIds
    /\ OneEntryPerQuery
    /\ EntriesUnresolved
    /\ NoQueryLost

\* A response that has been stored for a waiting client is the one wait()
\* returns: it is never replaced, taken by nobody or lost to the deadline
\* (the timed_out() test is made under the query's lock).  Only the end of the
\* process loses it.
StoredResponseIsReturned ==
    [][\A q \in Query :
          phase[q] = "waiting" /\ response[q] # None =>
             \/ response'[q] = response[q] /\ phase'[q] = "waiting"
             \/ phase'[q] = "answered" /\ answer'[q] = response[q]
             \/ phase'[q] = "dropped"]_vars

\* Query::wait always comes back: a worker is not held for ever.
EveryWaitEnds == \A q \in Query : phase[q] = "waiting" ~> phase[q] # "waiting"

\* What the comment on the field says: pending_responses maps the ids of
\* "queries that were resolved by the mirror" (query.rs:83).  The code moves
\* queries there when they are sent, and removes them when they are resolved.
PendingResponsesAreResolved ==
    \A q \in Entries(pendingResponses) : response[q] # None
=============================================================================
