------------------------- MODULE QueryManagerProofs -------------------------
(***************************************************************************)
(* Proofs about QueryManager, for any number of queries and ids.           *)
(***************************************************************************)
EXTENDS QueryManager, TLAPS

\* No step changes the type of a variable.
LEMMA TypeStep == TypeOK /\ [Next]_vars => TypeOK'
<1> SUFFICES ASSUME TypeOK, [Next]_vars
             PROVE  TypeOK'
  OBVIOUS
<1> USE DEF TypeOK, Phase
<1>1. ASSUME NEW q \in Query, NEW id \in Id, NEW req \in Request,
             EnqueueQuery(q, id, req)
      PROVE  TypeOK'
  BY <1>1 DEF EnqueueQuery
<1>2. CASE GetPendingRequests
  BY <1>2 DEF GetPendingRequests, EmptyMap, Inserted
<1>3. ASSUME NEW id \in Id, NEW r \in Response, ResolveQuery(id, r)
      PROVE  TypeOK'
  BY <1>3 DEF ResolveQuery, ResolveUnknown, ResolveKnown, vars
<1>4. ASSUME NEW q \in Query, WaitReturn(q)
      PROVE  TypeOK'
  BY <1>4 DEF WaitReturn
<1>5. ASSUME NEW q \in Query, WaitTimeout(q)
      PROVE  TypeOK'
  BY <1>5 DEF WaitTimeout
<1>6. CASE Restart
  BY <1>6 DEF Restart, EmptyMap
<1>7. CASE UNCHANGED vars
  BY <1>7 DEF vars
<1>8. QED
  BY <1>1, <1>2, <1>3, <1>4, <1>5, <1>6, <1>7 DEF Next

\* Every variable of the query manager keeps its type, whatever the callers do.
THEOREM TypeCorrect == Spec => []TypeOK
<1>1. Init => TypeOK
  BY DEF Init, TypeOK, EmptyMap, Phase
<1>2. QED
  BY <1>1, TypeStep, PTL DEF Spec

-----------------------------------------------------------------------------
(* The maps.                                                               *)

Map == [Id -> Query \cup {None}]
Injective(map) == \A i, j \in Keys(map) : map[i] = map[j] => i = j

LEMMA EntryOf ==
    ASSUME NEW map, NEW q
    PROVE  q \in Entries(map) <=> \E id \in Id : map[id] # None /\ map[id] = q
BY DEF Entries, Keys

\* A new key with a new query adds that query to an injective map.
LEMMA AddEntry ==
    ASSUME NEW map \in Map, NEW id \in Id, NEW q \in Query,
           map[id] = None, q \notin Entries(map), Injective(map)
    PROVE  Injective([map EXCEPT ![id] = q])
BY NoneIsNoValue DEF Map, Keys, Entries, Injective

\* Removing a key of an injective map removes its query.
LEMMA RemoveEntry ==
    ASSUME NEW map \in Map, NEW id \in Id, map[id] # None, Injective(map)
    PROVE  LET new == [map EXCEPT ![id] = None]
           IN  /\ Keys(new) = Keys(map) \ {id}
               /\ Entries(new) = Entries(map) \ {map[id]}
               /\ Injective(new)
BY DEF Map, Keys, Entries, Injective

LEMMA NoEntries == Keys(EmptyMap) = {} /\ Entries(EmptyMap) = {} /\ Injective(EmptyMap)
BY DEF EmptyMap, Keys, Entries, Injective

\* Inserting a map with other keys adds its queries and replaces none.
LEMMA InsertEntries ==
    ASSUME NEW old \in Map, NEW new \in Map, Keys(old) \cap Keys(new) = {}
    PROVE  LET both == Inserted(old, new)
           IN  /\ Keys(both) = Keys(old) \cup Keys(new)
               /\ Entries(both) = Entries(old) \cup Entries(new)
               /\ /\ Injective(old) /\ Injective(new)
                  /\ Entries(old) \cap Entries(new) = {}
                  => Injective(both)
<1> DEFINE both == Inserted(old, new)
<1>1. \A id \in Id : both[id] = IF new[id] # None THEN new[id] ELSE old[id]
  BY DEF Inserted
<1>2. \A id \in Keys(old) : both[id] = old[id]
  BY <1>1 DEF Keys
<1>3. \A id \in Keys(new) : both[id] = new[id]
  BY <1>1 DEF Keys
<1>4. Keys(both) = Keys(old) \cup Keys(new)
  BY <1>1 DEF Keys
<1>5. Entries(both) = Entries(old) \cup Entries(new)
  BY <1>2, <1>3, <1>4 DEF Entries
<1>6. ASSUME Injective(old), Injective(new), Entries(old) \cap Entries(new) = {}
      PROVE  Injective(both)
  BY <1>2, <1>3, <1>4, <1>6 DEF Injective, Entries
<1>7. QED
  BY <1>4, <1>5, <1>6

-----------------------------------------------------------------------------
(* The maps hold every unanswered query, once.  The invariant is inductive *)
(* as it stands: no conjunct of it is preserved without the others.  The   *)
(* proof uses it in terms of Injective, to which the lemmas apply.         *)

Held == Entries(pendingRequests) \cup Entries(pendingResponses)

Maps ==
    /\ Injective(pendingRequests)
    /\ Injective(pendingResponses)
    /\ Entries(pendingRequests) \cap Entries(pendingResponses) = {}
    /\ Keys(pendingRequests) \cap Keys(pendingResponses) = {}

Unresolved(q) ==
    /\ phase[q] \in {"waiting", "timeout"}
    /\ response[q] = None
    /\ request[q] # None

Waiters ==
    /\ \A q \in Held : Unresolved(q)
    /\ \A q \in Query : phase[q] = "waiting" /\ response[q] = None => q \in Held

LEMMA ConsistentForm == MapsConsistent <=> Maps /\ Waiters
BY DEF MapsConsistent, DisjointIds, OneEntryPerQuery, EntriesUnresolved, NoQueryLost,
       Maps, Waiters, Held, Unresolved, Injective

LEMMA MapTypes ==
    ASSUME TypeOK
    PROVE  /\ pendingRequests \in Map
           /\ pendingResponses \in Map
           /\ Held \subseteq Query
BY DEF TypeOK, Map, Held, Entries, Keys

LEMMA ConsistentStep ==
    ASSUME TypeOK, Maps, Waiters, [Next]_vars
    PROVE  Maps' /\ Waiters'
<1> USE DEF Held
<1>1. ASSUME NEW q \in Query, NEW id \in Id, NEW req \in Request,
             EnqueueQuery(q, id, req)
      PROVE  Maps' /\ Waiters'
  <2>1. /\ pendingRequests \in Map /\ pendingRequests[id] = None
        /\ pendingRequests' = [pendingRequests EXCEPT ![id] = q]
        /\ pendingResponses[id] = None /\ pendingResponses' = pendingResponses
        /\ q \notin Held
    BY <1>1, MapTypes DEF EnqueueQuery, UnusedId, Waiters, Unresolved
  <2>2. /\ Entries(pendingRequests') = Entries(pendingRequests) \cup {q}
        /\ Keys(pendingRequests') = Keys(pendingRequests) \cup {id}
    BY <2>1, NoneIsNoValue DEF Entries, Keys, Map
  <2>3. Maps'
    <3>1. Injective(pendingRequests')
      BY <2>1, AddEntry DEF Maps
    <3>2. Entries(pendingRequests') \cap Entries(pendingResponses') = {}
      BY <2>1, <2>2 DEF Maps
    <3>3. Keys(pendingRequests') \cap Keys(pendingResponses') = {}
      BY <2>1, <2>2 DEF Maps, Keys
    <3>4. QED
      BY <2>1, <3>1, <3>2, <3>3 DEF Maps
  <2>4. /\ Unresolved(q)'
        /\ \A p \in Query \ {q} : UNCHANGED <<request[p], response[p], phase[p]>>
    BY <1>1, NoneIsNoValue DEF EnqueueQuery, Unresolved, TypeOK
  <2>5. Waiters'
    BY <2>1, <2>2, <2>4, MapTypes DEF Waiters, Unresolved
  <2>6. QED
    BY <2>3, <2>5
<1>2. CASE GetPendingRequests
  <2>1. /\ Keys(pendingRequests') = {}
        /\ Entries(pendingRequests') = {}
        /\ Injective(pendingRequests')
    BY <1>2, NoEntries DEF GetPendingRequests
  <2>2. /\ Keys(pendingResponses') = Keys(pendingResponses) \cup Keys(pendingRequests)
        /\ Entries(pendingResponses') = Entries(pendingResponses) \cup Entries(pendingRequests)
        /\ Injective(pendingResponses')
    BY <1>2, MapTypes, InsertEntries DEF GetPendingRequests, Maps
  <2>3. QED
    BY <1>2, <2>1, <2>2 DEF Maps, Waiters, Unresolved, GetPendingRequests
<1>3. ASSUME NEW id \in Id, NEW r \in Response, ResolveKnown(id, r)
      PROVE  Maps' /\ Waiters'
  <2>1. /\ Entries(pendingResponses') = Entries(pendingResponses) \ {pendingResponses[id]}
        /\ Keys(pendingResponses') = Keys(pendingResponses) \ {id}
        /\ Injective(pendingResponses')
        /\ pendingRequests' = pendingRequests
    BY <1>3, MapTypes, RemoveEntry DEF ResolveKnown, Maps
  <2>2. pendingResponses[id] \in Entries(pendingResponses)
    BY <1>3 DEF ResolveKnown, Entries, Keys
  <2>3. /\ response'[pendingResponses[id]] = r
        /\ \A p \in Query \ {pendingResponses[id]} : response'[p] = response[p]
        /\ UNCHANGED <<request, phase>>
    BY <1>3, <2>2, MapTypes DEF ResolveKnown, TypeOK
  <2>4. Maps'
    BY <2>1 DEF Maps
  <2>5. Waiters'
    BY <2>1, <2>2, <2>3, MapTypes, NoneIsNoValue DEF Waiters, Unresolved, Maps
  <2>6. QED
    BY <2>4, <2>5
<1>4. ASSUME NEW q \in Query, WaitReturn(q)
      PROVE  Maps' /\ Waiters'
  <2>1. q \notin Held
    BY <1>4 DEF WaitReturn, Waiters, Unresolved
  <2>2. QED
    BY <1>4, <2>1, MapTypes DEF WaitReturn, Maps, Waiters, Unresolved, TypeOK
<1>5. ASSUME NEW q \in Query, WaitTimeout(q)
      PROVE  Maps' /\ Waiters'
  BY <1>5, MapTypes DEF WaitTimeout, Maps, Waiters, Unresolved, TypeOK
<1>6. CASE Restart
  BY <1>6, NoEntries DEF Restart, Maps, Waiters
<1>7. CASE UNCHANGED vars
  BY <1>7 DEF vars, Maps, Waiters, Unresolved
<1>8. QED
  BY <1>1, <1>2, <1>3, <1>4, <1>5, <1>6, <1>7 DEF Next, ResolveQuery, ResolveUnknown

\* The maps hold every unanswered query under one id, once, and nothing else:
\* no interleaving of requests, polls, deadlines and restarts loses a waiting
\* client's query, sends it twice or resolves it twice.
THEOREM MapsAreConsistent == Spec => []MapsConsistent
<1>1. Init => Maps /\ Waiters
  BY NoEntries DEF Init, Maps, Waiters, Held
<1>2. TypeOK /\ Maps /\ Waiters /\ [Next]_vars => Maps' /\ Waiters'
  BY ConsistentStep
<1>3. QED
  BY <1>1, <1>2, ConsistentForm, TypeCorrect, PTL DEF Spec

\* A response stored for a waiting client is the one its wait() returns.
THEOREM ResponsesAreReturned == Spec => StoredResponseIsReturned
<1>1. ASSUME TypeOK, MapsConsistent, [Next]_vars
      PROVE  [\A q \in Query :
                phase[q] = "waiting" /\ response[q] # None =>
                   \/ response'[q] = response[q] /\ phase'[q] = "waiting"
                   \/ phase'[q] = "answered" /\ answer'[q] = response[q]
                   \/ phase'[q] = "dropped"]_vars
  <2> SUFFICES ASSUME NEW q \in Query, phase[q] = "waiting", response[q] # None
               PROVE  \/ response'[q] = response[q] /\ phase'[q] = "waiting"
                      \/ phase'[q] = "answered" /\ answer'[q] = response[q]
                      \/ phase'[q] = "dropped"
    OBVIOUS
  \* No map holds q, so no response can replace the one stored.
  <2>1. q \notin Held
    BY <1>1, ConsistentForm DEF Waiters, Unresolved
  <2>2. ASSUME NEW p \in Query, NEW id \in Id, NEW req \in Request,
               EnqueueQuery(p, id, req)
        PROVE  response'[q] = response[q] /\ phase'[q] = "waiting"
    BY <1>1, <2>2 DEF EnqueueQuery, TypeOK
  <2>3. ASSUME NEW id \in Id, NEW r \in Response, ResolveQuery(id, r)
        PROVE  response'[q] = response[q] /\ phase'[q] = "waiting"
    BY <1>1, <2>1, <2>3 DEF ResolveQuery, ResolveUnknown, ResolveKnown, Held, Entries, Keys,
                            TypeOK, vars
  <2>4. ASSUME NEW p \in Query, WaitReturn(p)
        PROVE  \/ response'[q] = response[q] /\ phase'[q] = "waiting"
               \/ phase'[q] = "answered" /\ answer'[q] = response[q]
    BY <1>1, <2>4 DEF WaitReturn, TypeOK
  <2>5. ASSUME NEW p \in Query, WaitTimeout(p)
        PROVE  response'[q] = response[q] /\ phase'[q] = "waiting"
    BY <1>1, <2>5 DEF WaitTimeout, TypeOK
  <2>6. QED
    BY <1>1, <2>2, <2>3, <2>4, <2>5 DEF Next, GetPendingRequests, Restart, vars
<1>2. QED
  BY <1>1, TypeCorrect, MapsAreConsistent, PTL DEF Spec, StoredResponseIsReturned
=============================================================================
