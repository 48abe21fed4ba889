------------------------------- MODULE Backend --------------------------------
(***************************************************************************)
(* What the backend keeps in memory, in one process: the provider of Base, *)
(* the cached reads and the polls of submitted transactions, which share   *)
(* its calls, and the counts of the rate limiter.  The process may restart *)
(* at any time.                                                            *)
(*                                                                         *)
(* A behaviour is about one kind of `work': the calls of anybody, also     *)
(* such that revert; the reads of one key; submissions of transactions; or *)
(* requests as such.                                                       *)
(***************************************************************************)
EXTENDS CachedReads, TransactionStore, RateLimiter

ASSUME BackendAssumption == Keys \cap {"calls", "submissions", "requests"} = {}

VARIABLE work

backendVars == <<providerVars, readsVars, storeVars, limiterVars, work>>

BackendInit ==
    /\ ProviderInit /\ ReadsInit /\ StoreInit /\ LimiterInit
    /\ work \in Keys \cup {"calls", "submissions", "requests"}

-----------------------------------------------------------------------------
\* The calls a read or a poll awaits; the others end for nobody.
Awaited == {inFlight[k] : k \in Keys} \cup {loops[n].call : n \in {m \in DOMAIN loops : Asks(m)}}

OtherCallEnds(c) == c \notin Awaited /\ (Served(c) \/ Exhausted(c))

\* Steps of the provider that neither reads nor polls notice.
ProviderStep ==
    /\ EndpointStep \/ \E c \in Calls : MovesOn(c) \/ OtherCallEnds(c)
    /\ UNCHANGED <<readsVars, storeVars>>

ReadStep(k) ==
    /\ \/ \E r \in Readers :
             \/ ReadCached(r, k) \/ JoinRequest(r, k)
             \/ \E c \in Calls : StartRequest(r, k, c)
       \/ \E c \in Calls : RequestServed(c) \/ RequestFails(c) \/ LookupFails(c)
       \/ LookupTimesOut(k)
       \/ \E v \in Values : Vote(k, v)
       \/ ReadsTick
       \/ ReadsRestart
    /\ UNCHANGED storeVars

SubmissionStep ==
    /\ \/ \E h \in Hashes :
             \/ \E u \in Submitters : submitTransaction(h, u)
             \/ \E status \in {"confirmed", "failed"} : Mined(h, status)
       \/ \E n \in DOMAIN loops :
             \/ \E c \in Calls : Ask(n, c)
             \/ FindSettled(n) \/ PollAnswered(n) \/ PollFails(n)
       \/ ProviderTick /\ UNCHANGED storeVars
       \/ Restart \/ RestartWhileSaving
    /\ UNCHANGED readsVars

BackendNext ==
    /\ \/ work = "calls" /\ ProviderNext /\ UNCHANGED <<readsVars, storeVars, limiterVars>>
       \/ work \notin {"calls", "requests"} /\ ProviderStep /\ UNCHANGED limiterVars
       \/ work \in Keys /\ ReadStep(work) /\ UNCHANGED limiterVars
       \/ work = "submissions" /\ SubmissionStep /\ UNCHANGED limiterVars
       \/ work = "requests" /\ LimiterNext /\ UNCHANGED <<providerVars, readsVars, storeVars>>
    /\ UNCHANGED work

BackendSpec == BackendInit /\ [][BackendNext]_backendVars
=============================================================================
