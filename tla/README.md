# Verification of the wallet service mirror

TLA+ models of `full-service-mirror`, TLC runs over small instances of them, and
proofs checked by TLAPS.  Paths below are relative to the repository
(`src/public/query.rs` and so on).

## 1. The system

Clients talk HTTP to a *public side*; a *private side*, next to the full-service
wallet, only ever calls out.  It polls the public side over gRPC: each `Poll`
hands over the responses the private side has and takes the requests that are
pending.

```
client --HTTP--> [rocket worker -> QueryManager <- Poll handler] <--gRPC-- [polling loop] --HTTP--> full-service
                  public side                                              private side
```

| Component | State | Operations | Interacts through |
|---|---|---|---|
| Query manager (`public/query.rs`) | maps `pending_requests`, `pending_responses`; a request and an optional response in each query; a mutex for the maps, a mutex and a condition variable for each query | `enqueue_query`, `get_pending_requests`, `resolve_query`, `Query::wait`, `Query::resolve` | shared memory between rocket workers and gRPC handler threads |
| Poll service (`public/mirror_service.rs`) | none of its own | `poll`: resolve each response, then drain the pending requests | gRPC call from the private side |
| HTTP server (`public/main.rs`) | a pool of `num_workers` threads | `unencrypted_request`, `encrypted_request` | enqueue, then block in `wait` |
| Start-up and TLS check (`public/main.rs`, `public/utils.rs`) | how far the start has come | check the certificate, start the gRPC server, start the HTTP server, panic | the certificate file, panics |
| Polling loop (`private/main.rs`) | `pending_responses`, the batch being processed | poll, process each request, sleep | gRPC to the public side, HTTP to full-service |
| RSA chunks (`private/crypto.rs`) | the key that was loaded | `encrypt`, `decrypt`, `load_private_key` | called by the polling loop; the private key file |
| Key generator (`generate-rsa-keypair/main.rs`) | two files | generate, or complete, a key pair | the file system |
| Example client (`example-client.js`) | none | encrypt, post, decrypt | HTTP |
| Full-service | external | executes JSON requests | HTTP |

What is hard: three kinds of threads meet in the query manager with a two-level
locking scheme and a timed condition wait; a poll that fails for the private side
may still be running on the public side while the next one is handled; responses
are repeated until a poll succeeds; either process may be restarted (`restart:
always` in `docker-compose.yaml`) and everything is in memory; a client gives up
after 120 s while its query stays in the maps, and the POST to the wallet may take
longer than that; requests are cut into RSA chunks on one side by characters and on the other by
bytes; the key generator writes two files, and may die in between.  `PROJECT.json`
lists these hazards at the lines where they bite.

What makes each component correct:

* query manager: it holds every unanswered query, under one id, once; a response
  that was stored is the one returned; every wait ends; no deadlock, no lost wakeup;
* Poll service and polling loop together: a response reaches the client whose
  request it answers, or nobody; a request is executed at most once; no response is
  thrown away that a client waits for; nothing is stranded but by the loss of a reply
  that carries it; when the network recovers, responses are delivered;
* HTTP server: success is reported only for a request that was executed; unless the wallet
  is slow nobody times out, and no more queries pile up than there are workers;
* RSA chunks and example client: what one side encrypts the other gets, byte for byte,
  or it is refused before anything is executed;
* key generator: a key a client has got can be decrypted with, unless its file was
  removed or torn; a pair that was begun is completed, never replaced;
* start-up: no self-signed certificate without the flag; after crashes and repairs both
  sides come up with keys that fit.

## 2. The modules

| Module | Models |
|---|---|
| `QueryManager` | `query.rs` with each critical section as one action and open callers |
| `QueryLocks` | `query.rs` with every lock, wait, wakeup and notification as a step; implements `QueryManager` |
| `Mirror` | both sides, the calls between them, the clients and the wallet; uses the actions of `QueryManager` |
| `RequestReply` | the service the clients may rely on; `Mirror` implements it |
| `MirrorTimed` | `Mirror` with the durations of its waits, its sleep and its POST |
| `EncryptedExchange` | one encrypted request and response, at the byte: the example client and `crypto.rs` |
| `KeyFiles` | the key generator, the two files, the operator and the users of the keys |
| `StartUp` | the start of the public side |
| `Deployment` | composes `KeyFiles` and `StartUp`: from nothing to a working encrypted channel |
| `QueryManagerProofs`, `QueryLocksProofs`, `MirrorProofs`, `MirrorDeliveryProofs`, `MirrorServiceProofs`, `MirrorTimedProofs`, `EncryptedExchangeProofs`, `DeploymentProofs` | theorems, see section 4 |
| `MC...` | model values, requests, texts, command lines and symmetry for TLC |

**QueryManager.**  The maps are total functions from ids to queries with `None`
for an absent key.  `phase[q]` is where the worker of query `q` is, `response[q]`
is `QueryInner.response`, `answer[q]` what `wait` returned.  `GetPendingRequests`
is `get_pending_requests`: everything in one map moves to the other (and, in
`Mirror`, into the reply).  `WaitTimeout` is enabled whenever no response is
stored: the duration is abstracted to "at some time".  `Restart` is a new process.
Ids are chosen from those in neither map, as `generate_query_id` does.

**QueryLocks.**  A worker's `wait` is the loop of `wait_timeout_while`: test the
condition under the mutex, compute the remaining time, sleep (releasing the mutex),
wake by notification, deadline or spuriously, lock again.  Handlers perform
`resolve_query` (manager's mutex, then the query's, both kept until the
notification is out) and `get_pending_requests` (one round of the drain loop at a
time).  The refinement maps an entry that a thread has removed, and not finished
with, to one that is still in its map; a resolution takes effect when the response
is stored and a drain when it ends.  Two simplifications: the two unlocks at the end
of a resolution are one step, and so is the lock-clone-unlock of `Query::request`
(the request never changes).  There are as many ids as queries, so an id is always
free: were all in use, `generate_query_id` would spin under the manager's mutex.

**Mirror.**  A call of `Poll` is a record: its state, the responses its handler has
yet to resolve (`args`), the requests in its reply.  Each round of the loop in
`poll_impl` is a step.  `PollErr` ends a call for the private side at any point;
the request may still arrive (`PollArrives`) or not (`CallLost`), the handler goes
on, and the next `Poll` uses another member of `Call`.  The batch is processed one
request at a time in any order (it is a hash map): `Refuse` is every way a request
can fail before it is sent to the wallet (wrong kind for the mode, not decryptable,
not JSON, method not in `SUPPORTED_ENDPOINTS`), `Forward` the POST, `WalletReplies`
and `WalletFails` its end.  The wallet executes a posted request at any time,
also after the private side has given up, or never.  Payloads are represented by the
query they belong to, so "the answer to another request" can be stated.

The constants `Lossy`, `PublicCrashes` and `PrivateCrashes` switch the failures on.
`FreshIds` expresses that an id is not drawn twice in the life of the system (there
are 62^8 of them); without it, only the check in the code keeps them apart.

**RequestReply.**  A request is submitted, executed at most once and only if it
is eligible, and its client learns of success (only after the execution), an error, a
timeout or a broken connection.  It says in particular that an error or a timeout
does *not* mean the request was not executed, which is what the code offers.

**MirrorTimed.**  Every action is the one of `Mirror` under the timers that allow it.
Time passes in `Tick`, one unit for everybody, and only when nobody has anything to do
at once: workers with a response return, the loop is in its sleep or in a POST.  The
timers are durations so far (`age` of a wait, `spent` in the POST or the sleep), so there
is no clock and the state space is finite.  Nothing fails except the wallet, which takes any
time up to the limits.  There are two of them: the blocking client of reqwest 0.10 applies
its timeout to `send()` and anew to `text()`, so a POST may last twice
`FULL_SERVICE_TIMEOUT`.  `SendReturns` is the return of the first, which needs the head
of the wallet's reply; `headAt` says when it was; `PostLimit` is when the call the loop is
in gives up.

**EncryptedExchange.**  A text is a sequence of UTF-16 units, in which JavaScript cuts; a
byte is named by its character and its place in the UTF-8 form, so that half a character
is different from a whole one, and a lone surrogate becomes a replacement character of
three bytes, as `Buffer.from` does.  A ciphertext is as long as its key, and can be
decrypted if it is whole and with that key only: RSA is a perfect cipher.  `encrypt` and
`decrypt` cut bytes (`chunks`), the client cuts the text (`RequestPieces`).  The wallet's
body is any part of the bytes of a text, and what is encrypted of it is what reqwest's
`text()` makes of it (`ResText`): replacement characters for what is cut off, nothing for
a BOM in front.  The model takes the body to be in UTF-8, which is what `text()` assumes of a
`Content-Type` without a charset, such as `application/json`.

**KeyFiles, StartUp, Deployment.**  `fs::write` is two steps, truncation and writing, and
the generator may die before, between or after them; a file between the two is `Torn`.
The private side loads its key at its start and never again.  The operator clears what the
generator refuses to go on with, moves or copies the client's file, and gives up a key.
The public side reads its certificate twice, for the check and for the gRPC server, and
the file may be replaced in between.  A certificate is "uncheckable" if gRPC could use it
but `is_tls_self_signed` returns an error: the file holds a chain of several, or the
signature is of an algorithm that cannot be verified.  Assumptions: processes crash but disks do not (what
was written stays written); the operator touches the files only while the generator is
off; the private side is given the generator's own file.

Definitions named `Bug...` stand before the definition they are a faulty form of.
They are used by no specification: each is substituted, in a run of its own, to see
that a property notices it (`PROJECT.json`, "mutants").

## 3. What the runs show

| Run | Instance | Shows |
|---|---|---|
| `query_manager` | 3 queries, 2 ids, 2 responses | types; `MapsConsistent`; `StoredResponseIsReturned`; `EveryWaitEnds` |
| `query_manager_comment` | 2 queries | the comment at `query.rs:83` is wrong: the map holds queries that are *not* resolved |
| `query_locks` | 2 workers, 2 handlers, 2 operations each, 2 responses | `ImplementsManager`, `NoLostWakeup`, `DecisionStands` (the assertion at `query.rs:69`), and no deadlock |
| `query_locks_live` | the same with one operation each | `CallsReturn` |
| `mirror_loss` | 3 clients, 2 calls, failing polls | `AnswerMatchesRequest`, `AtMostOnceExecution`, `AnswerDeliverable`, `ClearedAreDelivered`, `OnlyLostRepliesStrand` |
| `mirror_crash` | 2 clients, requests of both kinds, failing polls, restarts of both sides | the same answers and executions, and `ImplementsService` |
| `mirror_reliable` | 3 clients, 2 ids that are reused, no failures | `AnswerMatchesRequest` with ids drawn again as soon as the code allows it; `NothingStranded`; `QueriesAreForgotten` |
| `mirror_progress` | 2 clients, 1 worker, failing polls | `ResponsesAreDelivered` once polls stop failing |
| `mirror_timed` | 3 clients, 2 workers, deadline and limits of 6 units, sleep of 1 | `TimeoutsNeedASlowWallet`, `BacklogNeedsASlowWallet`, `LimitErrorsComeTooLate` |
| `encrypted_exchange` | chunks of 4 bytes, all texts up to 5 units, longer ones around the borders, bodies that begin and end within characters or with a BOM; the right key, another one, a shorter one | `RequestArrives`, `ResponseArrives`, `GoodRequestsAreServed` |
| `deployment` | 3 keys, all command lines that differ | `PublishedKeysAreKept`, `KeysDifferOnlyIfRetired`, `SelfSignedNeedsFlag`, `ChannelComesUp` |
| `mirror_encrypted_claim` | `--mirror-key`, requests of both kinds | errors are returned in clear, where the documentation promises encrypted responses only |

**Bounds.**  Two queries are what a mix-up or a double execution needs; three add a
bystander and let an id be drawn again while two others are in use.  Two calls are one
given up and one that overlaps with it; a third would only repeat the second, since
a handler keeps no state between responses.  In the runs without failures there is
never more than one call.  `MaxOps` bounds how many operations a handler thread
begins, `MaxExecutions` the history counter of executions (one more than may ever
be reached).  Restarts and lost polls are not bounded: the states repeat.
In `mirror_timed` a POST of one unit times nobody out (3·1 + 2·1 < 6) and one of two units
may (3·2 + 2·1 ≥ 6), so both sides of the bound occur; three clients of two workers are
what lets a request come behind those of others in one batch and find a batch under way.
In `encrypted_exchange` a chunk holds one character of each width and not two of the wide
ones; texts go to three pieces, with the odd character on either side of a border.
In `deployment` three keys are those of the two users and a new one.
`CHECK_DEADLOCK FALSE` stands where the system may rightly stop: all clients served in
`QueryManager`; an exchange that has ended; in `Mirror` the bounds on calls and executions can stop a run that
the program would continue.  `QueryLocks` is checked for deadlock: its only
stuttering state is the one where all threads have ended.

**Fairness.**  Threads that can run do, and clocks advance: weak fairness on the steps
of workers, handlers and the polling loop, and on the deadlines.  No fairness is
assumed of clients, restarts, losses, spurious wakeups or the wallet (its POST ends by
`WalletReplies` or by the time limit, `WalletFails`).  Of the network the liveness of `Mirror`
assumes two things the code does not enforce.  `NetworkCarries`: what is sent arrives, and so
does its reply, unless the call is seen to fail; the polling loop sets no deadline for its
call, so a connection lost without a sign would block it, and nothing could be claimed then.
`NetworkRecovers`, for `mirror_progress`: from some time on polls do not fail; that every kind of step is
taken again and again (strong fairness) is not enough, because a poll that is abandoned over and over just before its reply never
clears the responses.  `Deployment` assumes that the generator, once begun, goes on until it
is done or dies, that both sides are started again when they have ended (`restart: always`),
and that the operator clears leftovers and runs the generator again; crashes, replaced
files and retired keys are not fair, and `ChannelComesUp` is about behaviours in which
they end.  In `QueryLocks` weak fairness is enough for the mutexes
because the number of operations is bounded; nothing is claimed about starvation
on a mutex that is taken for ever by others.

**What the runs say beyond their properties.**

* A lost poll reply strands the requests in it: they are not sent again, the clients
  time out, and the entries stay in `pending_responses`.  This is why
  `NothingStranded` and `QueriesAreForgotten` are stated without failures.  It is the
  only way without a restart (`OnlyLostRepliesStrand`): the reply is given up while
  it carries the request, or it is made for a poll that was given up before.
* The check in `generate_query_id` is not by itself what ties answers to requests.
  Without failures the order of a poll is enough: responses are resolved before the
  requests are drained, and the private side answers a whole batch before it polls
  again, so a stale response never meets a new query under its id
  (`mirror_reliable`).  When polls fail this order is lost: a handler of a given-up call
  can resolve a response, a new query can then be given the same id and be drained
  by that very call, and the response, sent again, answers the wrong client.  With
  ids that do not repeat this cannot happen; the size of the id space is part of the
  design.  (The mutant `BugShortIds` shows it.)

* `FULL_SERVICE_TIMEOUT` does not bound a POST: with both of its calls it may last 240 s.
  And a wallet that needs the whole of a limit cannot tell its client: the client's
  own 120 s began earlier, so it always gets the timeout of the public side first, and the
  error the POST ends with goes to a query nobody waits for
  (`LimitErrorsComeTooLate`).  How slow the wallet has to be before anybody times
  out depends on the workers: a request waits for the batch under way and for its own,
  (2 · workers − 1) POSTs, and for two sleeps (`TimeoutsNeedASlowWallet`).  The maps have no
  limit: a query whose client has given up stays and still costs a POST, while its worker
  takes another.  It takes a wallet that slow before more queries are in them than there
  are workers (`BacklogNeedsASlowWallet`); nothing bounds the backlog after that.
* The example client says that each chunk "must be no longer than the length of the public
  modulus minus padding size" (`example-client.js:84`) and cuts so many *characters*.  A full piece with a
  character of several bytes does not fit and `publicEncrypt` throws: the request is refused
  on the client's side.  For the same reason a character of two units that is cut in
  two can never reach the wallet as two replacement characters (`RequestArrives`).
* A response that is not UTF-8 reaches the client changed, without an error: `text()` is
  lossy and drops a BOM in front (`ResponseArrives` says so, and that all else arrives
  byte for byte).
* `is_tls_self_signed` wants exactly one certificate in the file: with a chain, which
  gRPC can use, the public side does not start unless self-signed certificates are allowed
  (`Startable`).
* A crash while the generator writes the private file again, on its way to a new client
  file, loses the key that was in it; and a private side that runs keeps its old key until
  it is restarted.  These are the two exceptions in the properties of `KeyFiles`
  (`retired`), which therefore say nothing against them.
* The HTTP status of the wallet is not looked at (`private/main.rs`): whatever body
  comes is a success.  A query whose client has given up is forwarded all the same.  Both are
  what the models do; no property says they should be otherwise.

## 4. What is proved

`QueryManagerProofs` holds, for every set of queries, ids, requests and responses,
from the one assumption that `None` is none of them:

* `TypeCorrect`: `Spec => []TypeOK`;
* `MapsAreConsistent`: `Spec => []MapsConsistent`;
* `ResponsesAreReturned`: `Spec => StoredResponseIsReturned`.

`MapsConsistent` is inductive together with `TypeOK`, and only as a whole: that the
drain loses no entry needs disjoint ids; that resolving leaves every other waiter in a
map needs one entry for each query; that an enqueued query is new needs that only
waiting or timed-out queries are in the maps.  The lemmas `AddEntry`, `RemoveEntry`
and `InsertEntries` say what the three operations on a map do to its keys, its
queries and its being injective.  `ResponsesAreReturned` follows: no map holds a
query with a stored response, so no step can replace it.

`MirrorProofs` is about the mirror as a whole, for any number of clients, ids, calls and
workers and any choice of failures, from `MirrorConstants`:

* `TypeCorrect`: `Spec => []TypeOK`, together with `OneThread` (the loop polls with an
  empty batch, and what it has posted is one of the batch), without which a stored
  response might have no request;
* `ManagerIsConsistent`: every step of the mirror is a step of `QueryManager` or leaves its
  variables alone (`ManagerStep`), so `MapsConsistent` carries over from there;
* `ExecutedAtMostOnce`: `Spec => []AtMostOnceExecution`;
* `AnswersAreOwn`: `Spec => []AnswerMatchesRequest` if ids are not drawn twice.

`ExecutedAtMostOnce` needs to know where the one copy of a request is that the wallet has
not seen: in `pendingRequests`, in the reply of the call the loop waits for, or in the
batch, and in only one of them (`InOnePlace`); whatever is there was never posted
(`NotPostedYet`).  Most steps can only forget such copies (`Forgets`), which is safe at
once; enqueueing, replying, receiving, forwarding and executing are the five cases left.
Restarts are harmless because requests are never sent again, which is also why a lost
reply strands them.  `AnswersAreOwn` rests on `OneOwner`: everything that travels under
an id, as a request or as a response, on either side or between them, belongs to one query.  No
step but a new request puts anything under an id that was not there (`BringsNothing`),
and a new request has a new id.  The order of polls plays no part in it.

`MirrorDeliveryProofs` needs no assumption on ids:

* `AnswersAreDeliverable`: `Spec => []AnswerDeliverable`.  The invariant is `EntriesWait`:
  whatever the private side has, gets or hands over under an id (`Travels`) is, if its client
  still needs it, in `pendingResponses` under that id.  Only the drain sends anything on its
  way, and makes the entry in the same step (`TravelsFromHandover`); an entry goes, or is
  replaced, only when nobody needs it (`EntriesAreKept`), and who does not need an
  answer never will again (`NeedFades`);
* `ClearedWereDelivered`: `Spec => ClearedAreDelivered`.  `PollDelivers` follows the call the
  loop waits for: what it has not resolved yet it still has in its arguments, and when it
  has replied everything the loop holds is delivered.  Calls given up before do not matter,
  because what they resolve stays resolved (`DeliveredStays`);
* `OnlyLossStrands`: `Spec => OnlyLostRepliesStrand` if the private side is not restarted.
  The danger is a response that is forgotten before it was resolved, or overwritten by
  another.  `LossInv` says why neither happens: a response somebody still needs is kept by the
  loop while it is sent (`SentAreHeld`), the call the loop waits for resolves everything before
  it replies (`PollResolves`), and what was answered is not queued again
  (`AnsweredNotQueued`, `BatchUnanswered`);
* `NothingIsStranded`: `Spec => []NothingStranded` if nothing is lost and nobody crashes.  There
  is then one call at a time (`OneCall`), it resolves before it drains (`PollInOrder`), and no
  response overwrites another (`BatchUnanswered`).

`MirrorServiceProofs`: `MirrorIsAService`, `Spec => ImplementsService` if ids are not drawn
twice.  Every step is one of `RequestReply` or changes nothing there.  What has to be known for
it is that every response in the system that is no error is truthful (`ServiceInv`): its
request was executed and is of its kind.  New ones are made only in `WalletReplies`
(`WhereResponsesComeFrom`) and an execution is not taken back (`TruthStays`);
`AnswersAreOwn` then says that the truth is about the client's own request.

`MirrorTimedProofs`, from `Durations` (positive interval, a sleep shorter than the two
minutes, no failures), for any lengths:

* `TimedMirrorIsAMirror`: `TimedSpec => Spec`, so the theorems about `Mirror` hold with the
  timers;
* `LimitErrorsReachNobody`: `TimedSpec => []LimitErrorsComeTooLate`.  A POST is out for no
  longer than its client has been waiting (`PostIsYounger`), and its query is unresolved
  (`InWork`, of `MirrorDeliveryProofs`: without failures what is in the batch has its entry).
  A POST that ends at the limit thus leaves a client that has given up or is at its deadline
  (`LimitedAreLate`); such a client stops the clock, and the next poll is a sleep away;
* `TimeoutsNeedSlowness`: `TimedSpec => []TimeoutsNeedASlowWallet`, for any number of clients
  and workers.  The invariant is `AgeInv`: unless the wallet is slow in that very measure,
  nobody has timed out and the age of every query is bounded by the place it is in.  One
  that is queued has waited for the batch under way so far, `Round`: one longest POST for each
  response held, and the time spent on the current one (`QueuedAge`).  One that was handed
  over had at most `Handover` behind it and has waited for its own batch since (`SentAge`).  A
  batch is that short because the responses held belong to different clients that still wait
  (`HeldHaveEntries`, `RespondedCount`), of whom there are at most `NumWorkers`, and one fewer
  while another is queued or in work (`RoundBounds`).  The steps that need an argument are
  the end of a POST, which turns time spent into a response held (`RoundGrows`), and the
  `Tick`, which makes everybody older at once.  For a slow wallet the bounds are not stated:
  a response held may then belong to a client that has given up, and its worker to another;
* `BacklogNeedsSlowness`: `TimedSpec => []BacklogNeedsASlowWallet`.  While the wallet is not
  that slow nobody has timed out, so every query in the maps is one that still has a worker.

`TimersAreBounded` (`TimedSpec => []TimedTypeOK`) is the type lemma these rest on: that a POST
lasts no longer than both its limits is put into `Tick`, not derived.

`QueryLocksProofs`, for any number of workers, handlers and operations: `TypeCorrect`;
`MutexesAreHeld` (who is in a critical section holds its mutex, so the sections exclude each
other); `NoCircleOfLocks` (`WaitsEnd`: a thread may wait for one that waits for a third, and
the third then waits for nobody, because whoever holds a query's mutex is in a section that
takes no other, `HoldersAreInside`); from `MutexesAreHeld` `DecisionsStand` and `NoWakeupIsLost`, which are inductive together with
it; and `LocksImplementManager`, `Spec => ImplementsManager`.  The refinement needs `InHand`
besides: an entry a thread has taken out of a map is in neither map, and drained entries
exist only while their thread drains.  `Insert`, `Take`, `GiveUp`, `SetResponse` and
`DrainEnds` are the five steps the query manager sees; all others stutter.  This is what
entitles `Mirror` to use the atomic operations.

`EncryptedExchangeProofs`, from `ExchangeConstants` (every key is longer than the padding, and
texts are UTF-16, bodies parts of texts), for any keys, any texts and bodies of any length:

* `RequestsArrive`: `Spec => []RequestArrives`;
* `ResponsesArrive`: `Spec => []ResponseArrives`;
* `GoodRequestsServed`: `Spec => []GoodRequestsAreServed` if `MirrorKey.size = KEY_SIZE`, the size
  that the client insists on and that the generator makes.

The invariant, `ExchangeInv`, only says what the payload is at each stage; the work is in the
lemmas about the loops.  What is cut and put together again is what it was (`FlattenCut`), so
decryption undoes encryption (`EncryptedThenDecrypted`) and only with the right key
(`ReadableNeedsTheKey`).  The client cuts text and encrypts bytes: a piece has at
least as many bytes as units, and two more if it ends within a character (`Utf8IsNotShorter`).
Every piece but the last is full, so one that fits does not end there, and the pieces' bytes,
one after the other, are the bytes of the text (`FittingPiecesAreWhole`, `PiecesOfBytes`).
Conversely a text of one-byte characters, or one that is no longer in bytes than one piece,
always fits (`PiecesFit`).  A body that is UTF-8 is its own text (`Utf8Stays`), because each of
its characters is there from its first byte to its last (`WholeCharacters`).  These are inductions over the data.  The library
states induction with an operator as parameter, which the provers cannot instantiate;
`InductionOnNat` and `InductionUpTo` state it of a set instead, derived from the well-foundedness
of the natural numbers.

`DeploymentProofs`, from `DeploymentConstants`, for any number of keys and any set of command
lines: `TypeCorrect`, `PublishedKeysStay`, `KeysAgree`, `SelfSignedRefused`.  Of the keys the
invariant says where the generator's key is at each of its steps (`GeneratorOrder`), that a
fresh key is in nobody's use (`NewKeyIsUnused`), and that a key in use, by the private side or a
client, is kept or retired (`KeysInUseAreKept`); of the start, that what was checked still
stands unless the file was replaced (`CheckStands`).

The invariants were checked by TLC on the small instances before they were proved, or are
stated by the runs themselves.

Only model-checked is liveness, which the prover does not do: `EveryWaitEnds`, `CallsReturn`,
`QueriesAreForgotten`, `ResponsesAreDelivered` and `ChannelComesUp`; and that `QueryLocks` has no deadlock: that no
circle of mutexes stands in the way is proved (`NoCircleOfLocks`), that some step is then
enabled is about `ENABLED`.  All invariants and action properties of the passing runs and both refinements
are proved.  The two runs that expect a violation have a counterexample, no proof.

## 5. Not modelled

* `uri.rs`, `lib.rs`, `build.rs`: constants and generated code.
* Configuration and deployment files, beyond one replica of each side and restarts.
* Message formats, HTTP and JSON syntax, and logging: a request is its kind and whether it
  can be read and is supported.
* The arithmetic of RSA, random numbers, X.509 verification.
* Power loss: a file that was written is taken to be on the disk.
* The inside of full-service, and bodies in a charset other than UTF-8.
* Several public or private sides at once: the deployment has one of each, and what they
  would share is not in the code.
* `sign()` of the example client, which is never called.

What could be added: failing polls and crashes in `MirrorTimed`, which would need a bound on
lost time to say anything; and starvation on the mutexes, for which the code relies on the
operating system.
