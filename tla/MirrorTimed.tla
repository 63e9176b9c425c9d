----------------------------- MODULE MirrorTimed -----------------------------
(***************************************************************************)
(* Mirror with its durations: the client's deadline, the time limits of a  *)
(* POST to full-service and the sleep between polls.  Nothing fails except *)
(* the wallet, which may take any time up to the limits.                   *)
(*                                                                         *)
(* A POST is two calls of the HTTP client (reqwest 0.10, blocking), send() *)
(* and text(), and the timeout of the client is the limit of each of them: *)
(* a POST may last twice as long as FULL_SERVICE_TIMEOUT.                  *)
(*                                                                         *)
(* Every action is the one of Mirror, under the timers that allow it.  Time*)
(* passes in Tick, and only when nobody has anything to do at once: a      *)
(* duration is what the program waits for, everything else takes no time   *)
(* (PollDelay stands for what a sleep and a poll take above poll_interval).*)
(* The timers are relative to the present, so there is no clock.           *)
(***************************************************************************)
EXTENDS Mirror

CONSTANTS
    TwoMinutes,     \* 120 s
    PollInterval,   \* --poll-interval
    PollDelay       \* how much longer a sleep with the poll after it may take

ASSUME Durations ==
    /\ TwoMinutes \in Nat /\ PollInterval \in Nat \ {0} /\ PollDelay \in Nat
    /\ PollInterval + PollDelay < TwoMinutes
    /\ ~Lossy /\ ~PublicCrashes /\ ~PrivateCrashes

QUERY_MAX_DURATION == TwoMinutes

(* Operators named Bug... are faulty forms of the definition after them, for *)
(* checking that the properties notice.                                     *)

\* Half of what the public side allows.
BugFULL_SERVICE_TIMEOUT == TwoMinutes \div 2

FULL_SERVICE_TIMEOUT == TwoMinutes

\* The interval read in another unit.
BugLongestSleep == 3 * (PollInterval + PollDelay)

LongestSleep == PollInterval + PollDelay

VARIABLES
    age,        \* for how long each query has been waiting
    spent,      \* for how long the polling loop has been in its POST or sleep
    headAt,     \* the value of spent when send() returned, None before
    longest,    \* the longest POST that has ended (a history)
    limited     \* the queries whose POST was ended by the limit (a history)

clocks == <<age, spent, longest, limited>>
timers == <<clocks, headAt>>

\* When the call the loop is blocked in, send() or text(), gives up.
PostLimit ==
    IF headAt = None THEN FULL_SERVICE_TIMEOUT ELSE headAt + FULL_SERVICE_TIMEOUT

\* An upper bound of the POSTs so far, the one that is out included.
LongestPost == IF posting # None /\ spent > longest THEN spent ELSE longest

TimedTypeOK ==
    /\ TypeOK
    /\ age \in [Query -> 0..QUERY_MAX_DURATION]
    /\ spent \in 0..(2 * FULL_SERVICE_TIMEOUT)
    /\ headAt \in (0..FULL_SERVICE_TIMEOUT) \cup {None}
    /\ longest \in 0..(2 * FULL_SERVICE_TIMEOUT)
    /\ limited \subseteq Query

\* The loop begins with a poll, not with a sleep.
TimedInit ==
    /\ Init
    /\ age = [q \in Query |-> 0]
    /\ spent = PollInterval
    /\ headAt = None
    /\ longest = 0
    /\ limited = {}

-----------------------------------------------------------------------------

\* A POST without a limit.
BugTick ==
    /\ \A q \in Waiting : response[q] = None /\ age[q] < QUERY_MAX_DURATION
    /\ awaiting = None
    /\ posting # None \/ (batch = QM!EmptyMap /\ spent < LongestSleep)
    /\ age' = [q \in Query |-> IF q \in Waiting THEN age[q] + 1 ELSE age[q]]
    /\ spent' = spent + 1
    /\ UNCHANGED <<vars, headAt, longest, limited>>

Tick ==
    \* Workers return at once, with a response or at the deadline.
    /\ \A q \in Waiting : response[q] = None /\ age[q] < QUERY_MAX_DURATION
    \* The loop is in a sleep or in a POST.
    /\ awaiting = None
    /\ IF posting # None
       THEN spent < PostLimit
       ELSE batch = QM!EmptyMap /\ spent < LongestSleep
    /\ age' = [q \in Query |-> IF q \in Waiting THEN age[q] + 1 ELSE age[q]]
    /\ spent' = spent + 1
    /\ UNCHANGED <<vars, headAt, longest, limited>>

\* What takes no time and waits for none.
Instantly ==
    /\ \/ \E q \in Query, id \in Id, req \in Request : HttpRequest(q, id, req)
       \/ \E q \in Query : WaitReturn(q) \/ WalletExecute(q)
       \/ \E c \in Call : PollArrives(c) \/ ReplyToPoll(c)
       \/ \E c \in Call, id \in Id : ResolveResponse(c, id)
    /\ UNCHANGED timers

DeadlinePasses(q) ==
    /\ age[q] = QUERY_MAX_DURATION
    /\ WaitTimeout(q)
    /\ UNCHANGED timers

SleepEnds(c) ==
    /\ spent >= PollInterval
    /\ Poll(c)
    /\ UNCHANGED timers

\* The loop turns to a request of the batch, or to its sleep if there is none.
LoopGoesOn ==
    /\ \/ \E c \in Call : PollOk(c)
       \/ \E id \in Id : Refuse(id) \/ Forward(id)
    /\ spent' = 0
    /\ UNCHANGED <<age, headAt, longest, limited>>

\* The head of the wallet's reply has come; what is left of it is read in text().
SendReturns ==
    /\ posting # None
    /\ headAt = None
    /\ wallet[batch[posting]] = "executed"
    /\ headAt' = spent
    /\ UNCHANGED <<vars, clocks>>

\* With the end of the reply, or with an error of either call.
PostEnds(id) ==
    /\ \/ headAt # None /\ WalletReplies(id) /\ UNCHANGED limited
       \/ /\ WalletFails(id)
          /\ limited' = limited \cup (IF spent = PostLimit THEN {batch[id]} ELSE {})
    /\ longest' = LongestPost
    /\ spent' = 0
    /\ headAt' = None
    /\ UNCHANGED age

TimedNext ==
    \/ Tick
    \/ Instantly
    \/ LoopGoesOn
    \/ SendReturns
    \/ \E q \in Query : DeadlinePasses(q)
    \/ \E c \in Call : SleepEnds(c)
    \/ \E id \in Id : PostEnds(id)

TimedSpec == TimedInit /\ [][TimedNext]_<<vars, timers>>

-----------------------------------------------------------------------------
(* Properties.                                                             *)

\* The polling loop handles one request after the other: a request waits for those
\* of the batch before it (not more than the other workers' requests), for its own
\* batch and for two sleeps.  This is how long that may take, by the longest POST.
SlowWallet ==
    (2 * NumWorkers - 1) * LongestPost + 2 * (PollInterval + PollDelay) >= QUERY_MAX_DURATION

\* Nobody gets a timeout while the wait fits into the deadline: it takes a wallet
\* that is slow in this very measure.
TimeoutsNeedASlowWallet == (\E q \in Query : phase[q] = "timeout") => SlowWallet

\* The maps have no limit of their own, and a query whose client has given up stays
\* in them: its worker takes another request, which is one more for the loop.  Yet
\* there are never more than the workers have out, unless the wallet is that slow.
BacklogNeedsASlowWallet ==
    Cardinality(QM!Entries(pendingRequests) \cup QM!Entries(pendingResponses)) > NumWorkers
        => SlowWallet

\* Each limit of a POST is as long as the client's deadline and starts later: the
\* error a POST ends with at its limit never reaches a client, who is told "timeout"
\* by the public side instead.
LimitErrorsComeTooLate == \A q \in limited : phase[q] # "answered"
=============================================================================
