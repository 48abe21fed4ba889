---------------------------- MODULE ChainProvider -----------------------------
(***************************************************************************)
(* The JSON-RPC provider of a chain (backend/src/providers/                *)
(* chain.provider.ts): every call goes to the primary endpoint unless that *)
(* one is sick, and from there to all fallbacks at once, the first success *)
(* of which is the answer.  Each endpoint gets Timeout to answer.          *)
(*                                                                         *)
(* An endpoint is up or down.  One that is up for the whole of a call      *)
(* answers it in time, with an error if the call reverts; one that is down *)
(* refuses it or hangs.  The provider tracks the health of fallbacks too,  *)
(* but reads only the primary's, which alone is modelled.  Time passes     *)
(* with Tick, never past a deadline.                                       *)
(***************************************************************************)
EXTENDS Naturals, FiniteSets

CONSTANTS
    Calls,          \* places for calls under way
    Fallbacks,      \* the endpoints after the first
    Primary,        \* the first
    Timeout,        \* RPC_TIMEOUT_MS
    Recovery        \* HEALTH_RECOVERY_MS

ASSUME ProviderAssumption ==
    /\ Primary \notin Fallbacks
    /\ Fallbacks # {}           \* with a single endpoint there is no failover
    /\ Timeout \in Nat \ {0} /\ Recovery \in Nat

VARIABLES
    up,             \* the endpoints that are up
    failures,       \* consecutiveFailures of the primary: 0, 1 or more, 0 for no entry
    failedAgo,      \* ticks since its lastFailureAt, at most Recovery + 1
    stage,          \* call -> "idle", "primary", "fallbacks" or "failed"
    reverting,      \* the calls the chain rejects
    waited,         \* call -> ticks in this stage
    racing,         \* call -> the fallbacks that have not failed
    missed,         \* history: call -> endpoints that were down since it was sent
    goodFor         \* history: ticks since the primary was down or answered an error

endpointVars == <<up, goodFor>>
healthVars == <<failures, failedAgo>>
callVars == <<stage, reverting, waited, racing, missed>>
providerVars == <<endpointVars, healthVars, callVars>>

Endpoints == Fallbacks \cup {Primary}
LongGood == Timeout + Recovery + 1

ProviderInit ==
    /\ up = Endpoints
    /\ failures = 0 /\ failedAgo = 0
    /\ stage = [c \in Calls |-> "idle"]
    /\ reverting = {}
    /\ waited = [c \in Calls |-> 0]
    /\ racing = [c \in Calls |-> {}]
    /\ missed = [c \in Calls |-> {}]
    /\ goodFor = LongGood

-----------------------------------------------------------------------------
UnderWay(c) == stage[c] \in {"primary", "fallbacks"}

markRpcFailed ==
    /\ failures' = IF failures < 2 THEN failures + 1 ELSE 2
    /\ failedAgo' = 0

markRpcHealthy == failures' = 0 /\ failedAgo' = 0

\* Mutant of isRpcSick: once sick, sick until a call succeeds.
isRpcSickForEver == failures >= 2

isRpcSick == failures >= 2 /\ failedAgo <= Recovery

\* The entry isRpcSick leaves: none if it is too old.
Expire == IF failedAgo > Recovery THEN markRpcHealthy ELSE UNCHANGED healthVars

\* failoverSend, up to its first await; the chain will reject the call if `bad'.
failoverSend(c, bad) ==
    /\ ~UnderWay(c)
    /\ Expire
    /\ stage' = [stage EXCEPT ![c] = IF isRpcSick THEN "fallbacks" ELSE "primary"]
    /\ racing' = [racing EXCEPT ![c] = IF isRpcSick THEN Fallbacks ELSE {}]
    /\ reverting' = IF bad THEN reverting \cup {c} ELSE reverting \ {c}
    /\ waited' = [waited EXCEPT ![c] = 0]
    /\ missed' = [missed EXCEPT ![c] = Endpoints \ up]
    /\ UNCHANGED endpointVars

\* withTimeout: how endpoint e may end its part of call c.
Answers(c, e) == e \in up /\ c \notin reverting
Fails(c, e) ==
    \/ e \notin up
    \/ c \in reverting
    \/ waited[c] = Timeout /\ e \in missed[c]

\* An endpoint has been up for all the time it gets for call c, and has answered it.
SurelyAnswered(c) ==
    /\ waited[c] = Timeout
    /\ \E e \in (IF stage[c] = "primary" THEN {Primary} ELSE racing[c]) : e \notin missed[c]

\* The call ends with an answer.
Succeed(c) ==
    /\ stage' = [stage EXCEPT ![c] = "idle"]
    /\ waited' = [waited EXCEPT ![c] = 0]
    /\ racing' = [racing EXCEPT ![c] = {}]
    /\ missed' = [missed EXCEPT ![c] = {}]
    /\ UNCHANGED <<reverting, endpointVars>>

PrimaryAnswers(c) ==
    /\ stage[c] = "primary"
    /\ Answers(c, Primary)
    /\ markRpcHealthy
    /\ Succeed(c)

PrimaryFails(c) ==
    /\ stage[c] = "primary"
    /\ Fails(c, Primary)
    /\ markRpcFailed
    /\ stage' = [stage EXCEPT ![c] = "fallbacks"]
    /\ waited' = [waited EXCEPT ![c] = 0]
    /\ racing' = [racing EXCEPT ![c] = Fallbacks]
    /\ goodFor' = IF c \in reverting THEN 0 ELSE goodFor
    /\ UNCHANGED <<reverting, missed, up>>

FallbackAnswers(c, f) ==
    /\ stage[c] = "fallbacks"
    /\ f \in racing[c]
    /\ Answers(c, f)
    /\ Succeed(c)
    /\ UNCHANGED healthVars

\* Mutant of Remaining: the first failure of the race decides it.
RemainingNone(c, f) == {}

\* `remaining' after fallback f failed.
Remaining(c, f) == racing[c] \ {f}

FallbackFails(c, f) ==
    /\ stage[c] = "fallbacks"
    /\ f \in racing[c]
    /\ Fails(c, f)
    /\ racing' = [racing EXCEPT ![c] = Remaining(c, f)]
    /\ stage' = [stage EXCEPT ![c] = IF Remaining(c, f) = {} THEN "failed" ELSE @]
    /\ UNCHANGED <<reverting, waited, missed, endpointVars, healthVars>>

Served(c) == PrimaryAnswers(c) \/ \E f \in Fallbacks : FallbackAnswers(c, f)
Exhausted(c) == \E f \in Fallbacks : FallbackFails(c, f) /\ stage'[c] = "failed"
MovesOn(c) ==
    \/ PrimaryFails(c)
    \/ \E f \in Fallbacks : FallbackFails(c, f) /\ stage'[c] # "failed"

-----------------------------------------------------------------------------
(* Endpoints and time                                                      *)

GoesDown(e) ==
    /\ e \in up
    /\ up' = up \ {e}
    /\ missed' = [c \in Calls |-> IF UnderWay(c) THEN missed[c] \cup {e} ELSE missed[c]]
    /\ goodFor' = IF e = Primary THEN 0 ELSE goodFor
    /\ UNCHANGED <<healthVars, stage, reverting, waited, racing>>

ComesUp(e) ==
    /\ e \in Endpoints \ up
    /\ up' = up \cup {e}
    /\ UNCHANGED <<goodFor, healthVars, callVars>>

ProviderTick ==
    /\ \A c \in Calls : UnderWay(c) => waited[c] < Timeout
    /\ waited' = [c \in Calls |-> IF UnderWay(c) THEN waited[c] + 1 ELSE waited[c]]
    /\ failedAgo' = IF failures > 0 /\ failedAgo <= Recovery THEN failedAgo + 1 ELSE failedAgo
    /\ goodFor' = IF Primary \in up /\ goodFor < LongGood THEN goodFor + 1 ELSE goodFor
    /\ UNCHANGED <<up, failures, stage, reverting, racing, missed>>

\* The process starts again: health and calls are gone.
ProviderRestart ==
    /\ failures' = 0 /\ failedAgo' = 0
    /\ stage' = [c \in Calls |-> "idle"]
    /\ reverting' = {}
    /\ waited' = [c \in Calls |-> 0]
    /\ racing' = [c \in Calls |-> {}]
    /\ missed' = [c \in Calls |-> {}]
    /\ UNCHANGED endpointVars

EndpointStep == \E e \in Endpoints : GoesDown(e) \/ ComesUp(e)

ProviderNext ==
    \/ \E c \in Calls :
          \/ \E bad \in BOOLEAN : failoverSend(c, bad)
          \/ Served(c) \/ Exhausted(c) \/ MovesOn(c)
    \/ EndpointStep
    \/ ProviderTick
    \/ ProviderRestart

ProviderSpec == ProviderInit /\ [][ProviderNext]_providerVars

-----------------------------------------------------------------------------
(* Properties                                                              *)

\* Every variable of the provider holds a value of its type.
ProviderTypeOK ==
    /\ up \subseteq Endpoints
    /\ failures \in 0 .. 2 /\ failedAgo \in 0 .. Recovery + 1
    /\ stage \in [Calls -> {"idle", "primary", "fallbacks", "failed"}]
    /\ reverting \subseteq Calls
    /\ waited \in [Calls -> 0 .. Timeout]
    /\ racing \in [Calls -> SUBSET Fallbacks]
    /\ missed \in [Calls -> SUBSET Endpoints]
    /\ goodFor \in 0 .. LongGood

\* An outage ends: HEALTH_RECOVERY_MS after the last call that can still fail because of
\* it, whatever calls were under way and in whatever order they end, isRpcSick does not
\* keep the backend away from its primary endpoint.
PrimaryReturns == goodFor = LongGood => ~isRpcSick

\* failoverSend gives up on a call only if it reverts or no fallback was up throughout:
\* neither the first failure of the race nor one counted twice decides it.
FailsOnlyWithoutFallback ==
    \A c \in Calls : stage[c] = "failed" /\ c \notin reverting => Fallbacks \subseteq missed[c]
=============================================================================
