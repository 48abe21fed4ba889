--------------------------- MODULE SerializeByUser ---------------------------
(***************************************************************************)
(* The request pipeline of the backend: serializeByUser chains the         *)
(* state-changing requests of one wallet, executionTimeout puts a deadline *)
(* on each route handler (backend/src/middleware/serialize-by-user.ts and  *)
(* execution-timeout.ts, installed by index.ts and the routers).           *)
(*                                                                         *)
(* Node runs one callback at a time, so an action is one callback: the     *)
(* middleware on arrival, the microtask that follows the release of the    *)
(* predecessor, a handler's answer, the events "finish" and "close" of a   *)
(* response, a timer.  "finish" is followed by "close" before any other    *)
(* callback runs; a client that hangs up causes "close" alone.  Timers     *)
(* count down with Tick and fire when they reach 0 or later.               *)
(***************************************************************************)
EXTENDS Integers, Sequences, FiniteSets

CONSTANTS
    Requests,       \* the requests that arrive
    Users,          \* wallets, as getUserKey finds them in a request
    Bypass,         \* stands for the wallet of a request that is not serialized
    None,           \* no request
    MaxQueueSize,   \* MAX_QUEUE_SIZE
    QueueTimeout,   \* QUEUE_TIMEOUT_MS
    ExecTimeout     \* DEFAULT_TIMEOUT_MS

ASSUME PipelineAssumption ==
    /\ IsFiniteSet(Requests)
    /\ Bypass \notin Users
    /\ None \notin Requests
    /\ MaxQueueSize \in Nat \ {0}
    /\ QueueTimeout \in Nat \ {0} /\ ExecTimeout \in Nat \ {0}

VARIABLES
    user,           \* request -> its wallet, Bypass for GET, prepare-* or no wallet
    handler,        \* "absent", "refused" (429), "queued", "running" or "returned"
    response,       \* "none", "open", "sent" (json called) or "closed"
    previous,       \* the request whose lock a queued request waits for, or None
    released,       \* requests whose lock is released
    locks,          \* user -> the tail of the chain, None when the map has no entry
    queueDepth,     \* user -> count, 0 when the map has no entry
    queueTimer,     \* milliseconds left, or Off
    execTimer,
    timedOut,       \* requests whose execution timer has fired
    arrivals,       \* history: the serialized requests in order of arrival
    forced          \* history: locks released by the queue timer or by a hang-up

lockVars == <<previous, released, locks, queueDepth, queueTimer>>
timeoutVars == <<execTimer, timedOut>>
vars == <<handler, response, lockVars, timeoutVars, arrivals, forced, user>>

Off == -1

Init ==
    /\ user \in [Requests -> Users \cup {Bypass}]
    /\ handler = [q \in Requests |-> "absent"]
    /\ response = [q \in Requests |-> "none"]
    /\ previous = [q \in Requests |-> None]
    /\ released = {}
    /\ locks = [u \in Users |-> None]
    /\ queueDepth = [u \in Users |-> 0]
    /\ queueTimer = [q \in Requests |-> Off]
    /\ execTimer = [q \in Requests |-> Off]
    /\ timedOut = {}
    /\ arrivals = <<>>
    /\ forced = {}

-----------------------------------------------------------------------------
\* next() runs the router: executionTimeout arms its timer and the handler starts.
RunHandler(q) ==
    /\ handler' = [handler EXCEPT ![q] = "running"]
    /\ execTimer' = [execTimer EXCEPT ![q] = ExecTimeout]

ArriveBypassing(q) ==
    /\ handler[q] = "absent"
    /\ user[q] = Bypass
    /\ RunHandler(q)
    /\ response' = [response EXCEPT ![q] = "open"]
    /\ UNCHANGED <<lockVars, timedOut, arrivals, forced, user>>

Refuse(q) ==
    /\ handler[q] = "absent"
    /\ user[q] # Bypass
    /\ queueDepth[user[q]] >= MaxQueueSize
    /\ handler' = [handler EXCEPT ![q] = "refused"]
    /\ response' = [response EXCEPT ![q] = "closed"]
    /\ UNCHANGED <<lockVars, timeoutVars, arrivals, forced, user>>

Enqueue(q) ==
    LET u == user[q] IN
    /\ handler[q] = "absent"
    /\ u # Bypass
    /\ queueDepth[u] < MaxQueueSize
    /\ previous' = [previous EXCEPT ![q] = locks[u]]
    /\ queueDepth' = [queueDepth EXCEPT ![u] = @ + 1]
    /\ locks' = [locks EXCEPT ![u] = q]
    /\ queueTimer' = [queueTimer EXCEPT ![q] = QueueTimeout]
    /\ handler' = [handler EXCEPT ![q] = "queued"]
    /\ response' = [response EXCEPT ![q] = "open"]
    /\ arrivals' = Append(arrivals, q)
    /\ UNCHANGED <<released, timeoutVars, forced, user>>

\* Mutant of Start: the request does not wait for its predecessor.
StartUnchained(q) ==
    /\ handler[q] = "queued"
    /\ RunHandler(q)
    /\ UNCHANGED <<response, lockVars, timedOut, arrivals, forced, user>>

\* prev.then(() => next()): runs whether or not the response is still open.
Start(q) ==
    /\ handler[q] = "queued"
    /\ previous[q] = None \/ previous[q] \in released
    /\ RunHandler(q)
    /\ UNCHANGED <<response, lockVars, timedOut, arrivals, forced, user>>

-----------------------------------------------------------------------------
\* The patched res.json of request q, called when `late' says that the timer fired.
GuardedJson(q, late) ==
    response' = [response EXCEPT ![q] = IF @ = "open" /\ ~late THEN "sent" ELSE @]

\* The handler answers, or throws and the error handler answers.
Return(q) ==
    /\ handler[q] = "running"
    /\ handler' = [handler EXCEPT ![q] = "returned"]
    /\ GuardedJson(q, q \in timedOut)
    /\ UNCHANGED <<lockVars, timeoutVars, arrivals, forced, user>>

\* The timer sets timedOut and then answers 504 through the response it patched.
ExecutionDeadline(q) ==
    /\ execTimer[q] = 0
    /\ execTimer' = [execTimer EXCEPT ![q] = Off]
    /\ timedOut' = timedOut \cup {q}
    /\ GuardedJson(q, q \in timedOut')
    /\ UNCHANGED <<handler, lockVars, arrivals, forced, user>>

\* Mutant of QueueDeadline: the timer fires and releases nothing.
QueueDeadlineIdle(q) ==
    /\ queueTimer[q] = 0
    /\ queueTimer' = [queueTimer EXCEPT ![q] = Off]
    /\ UNCHANGED <<handler, response, previous, released, locks, queueDepth, timeoutVars,
                   arrivals, forced, user>>

QueueDeadline(q) ==
    /\ queueTimer[q] = 0
    /\ queueTimer' = [queueTimer EXCEPT ![q] = Off]
    /\ released' = released \cup {q}
    /\ forced' = forced \cup {q}
    /\ UNCHANGED <<handler, response, previous, locks, queueDepth, timeoutVars, arrivals, user>>

\* Mutants of Release: the depth is not decremented, and the tail of the chain is not
\* removed.
ReleaseUncounted(q, times) ==
    /\ queueTimer' = [queueTimer EXCEPT ![q] = Off]
    /\ released' = released \cup {q}
    /\ locks' = [locks EXCEPT ![user[q]] = IF @ = q THEN None ELSE @]
    /\ UNCHANGED <<previous, queueDepth>>

ReleaseKeepingTail(q, times) ==
    /\ queueTimer' = [queueTimer EXCEPT ![q] = Off]
    /\ released' = released \cup {q}
    /\ queueDepth' = [queueDepth EXCEPT ![user[q]] = IF @ > times THEN @ - times ELSE 0]
    /\ UNCHANGED <<previous, locks>>

\* The listeners of serializeByUser, called `times' times: each call decrements the
\* depth, and no call takes it below 0.
Release(q, times) ==
    LET u == user[q] IN
    /\ queueTimer' = [queueTimer EXCEPT ![q] = Off]
    /\ released' = released \cup {q}
    /\ queueDepth' = [queueDepth EXCEPT ![u] = IF @ > times THEN @ - times ELSE 0]
    /\ locks' = [locks EXCEPT ![u] = IF @ = q THEN None ELSE @]
    /\ UNCHANGED previous

\* The response is over: `times' counts the events "finish" and "close".
CloseResponse(q, times) ==
    /\ response' = [response EXCEPT ![q] = "closed"]
    /\ execTimer' = [execTimer EXCEPT ![q] = Off]
    /\ IF user[q] = Bypass THEN UNCHANGED lockVars ELSE Release(q, times)
    /\ UNCHANGED <<handler, timedOut, arrivals, user>>

Finish(q) ==
    /\ response[q] = "sent"
    /\ CloseResponse(q, 2)
    /\ UNCHANGED forced

HangUp(q) ==
    /\ response[q] \in {"open", "sent"}
    /\ CloseResponse(q, 1)
    /\ forced' = forced \cup {q}

Tick ==
    LET Count(timer) == [q \in Requests |-> IF timer[q] > 0 THEN timer[q] - 1 ELSE timer[q]]
    IN  /\ \E q \in Requests : queueTimer[q] > 0 \/ execTimer[q] > 0
        /\ queueTimer' = Count(queueTimer)
        /\ execTimer' = Count(execTimer)
        /\ UNCHANGED <<handler, response, previous, released, locks, queueDepth, timedOut,
                       arrivals, forced, user>>

-----------------------------------------------------------------------------
Next ==
    \/ \E q \in Requests :
          \/ ArriveBypassing(q) \/ Refuse(q) \/ Enqueue(q)
          \/ Start(q) \/ Return(q)
          \/ ExecutionDeadline(q) \/ QueueDeadline(q)
          \/ Finish(q) \/ HangUp(q)
    \/ Tick

Spec == Init /\ [][Next]_vars

\* Node runs microtasks, timers and socket events; time passes.  Nobody has to send
\* a request, no handler has to return and no client has to hang up.
Fairness ==
    /\ WF_vars(Tick)
    /\ \A q \in Requests :
          /\ WF_vars(Start(q))
          /\ WF_vars(ExecutionDeadline(q)) /\ WF_vars(QueueDeadline(q))
          /\ WF_vars(Finish(q))

FairSpec == Spec /\ Fairness

-----------------------------------------------------------------------------
(* Properties                                                              *)

\* Every variable holds a value of its type; the depth never goes below 0.
TypeOK ==
    /\ user \in [Requests -> Users \cup {Bypass}]
    /\ handler \in [Requests -> {"absent", "refused", "queued", "running", "returned"}]
    /\ response \in [Requests -> {"none", "open", "sent", "closed"}]
    /\ previous \in [Requests -> Requests \cup {None}]
    /\ released \subseteq Requests
    /\ locks \in [Users -> Requests \cup {None}]
    /\ queueDepth \in [Users -> 0 .. MaxQueueSize]
    /\ queueTimer \in [Requests -> Off .. QueueTimeout]
    /\ execTimer \in [Requests -> Off .. ExecTimeout]
    /\ timedOut \subseteq Requests
    /\ arrivals \in Seq(Requests)
    /\ forced \subseteq Requests

\* The serialized requests of u whose response is not over.
Unanswered(u) ==
    {q \in Requests : user[q] = u /\ handler[q] # "refused" /\ response[q] \in {"open", "sent"}}

\* A request overtakes an earlier one of its wallet, one that is not yet answered,
\* only when the lock of that request or of one between the two was given up early:
\* by a client that hung up or by the queue timer.
OvertakenOnlyWhenForced ==
    \A i, j \in 1 .. Len(arrivals) :
        LET early == arrivals[i]  late == arrivals[j] IN
        (/\ i < j
         /\ user[early] = user[late]
         /\ response[early] # "closed"
         /\ handler[late] # "queued")
        => \E k \in i .. j - 1 : arrivals[k] \in forced /\ user[arrivals[k]] = user[early]

\* 429 QUEUE_FULL is honest: a request is refused only when that many requests of
\* its wallet really are pending.  A disconnect, a timeout or a crash of a handler
\* leaves no phantom behind that would lock the wallet out.
RefusedOnlyWhenFull ==
    [][ \A q \in Requests :
          handler[q] = "absent" /\ handler'[q] = "refused"
            => Cardinality(Unanswered(user[q])) >= MaxQueueSize ]_vars

\* Neither map keeps an entry for a wallet that has nothing pending: the process does
\* not collect one per wallet it has ever seen.
MapsDrain ==
    \A u \in Users :
        Unanswered(u) = {} => locks[u] = None /\ queueDepth[u] = 0

\* The queue timer works as the deadlock prevention it is meant to be: whatever the
\* handlers before it do, an accepted request is eventually run.
EventuallyRun ==
    \A q \in Requests : handler[q] = "queued" ~> handler[q] = "running"

\* execution-timeout.ts:7-9: "If the handler doesn't send a response within the
\* timeout, we send a 504 Gateway Timeout".
EventuallyAnswered ==
    \A q \in Requests : handler[q] = "running" ~> response[q] = "closed"
=============================================================================
