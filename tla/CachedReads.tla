----------------------------- MODULE CachedReads ------------------------------
(***************************************************************************)
(* The cached reads of the backend: getPoolAddress, getTokenMetadata and   *)
(* getGaugeForPool of aerodrome.service.ts, and getUserAdapterAddress of   *)
(* protocols.ts.  A read is answered from its cache while the entry lasts, *)
(* joins the request for its key that is in flight, or makes that request, *)
(* one call of the provider.                                               *)
(*                                                                         *)
(* A request for an adapter differs: it has a deadline of its own, after   *)
(* which the call goes on for nobody, and instead of failing it answers    *)
(* that there is no adapter and has that cached for a while.               *)
(***************************************************************************)
EXTENDS ChainProvider

CONSTANTS
    Readers, Keys, AdapterKeys, Values,
    NoKey, NoCall, NoEntry,
    Ttl,            \* of an entry: POOL_TTL_MS, GAUGE_TTL_MS, ADAPTER_TTL_MS
    EmptyTtl,       \* EMPTY_TTL_MS, of the answer that there is no adapter
    LookupTimeout   \* LOOKUP_TIMEOUT_MS

Empty == "empty"        \* the answer "" of an adapter lookup
Failed == "failed"      \* an exception

\* A lookup waits at least as long as the provider waits for an endpoint.
ASSUME ReadsAssumption ==
    /\ AdapterKeys \subseteq Keys
    /\ Values # {} /\ Empty \notin Values /\ Failed \notin Values
    /\ NoKey \notin Keys /\ NoCall \notin Calls
    /\ NoEntry \notin [value : Values \cup {Empty}, left : Nat]
    /\ Ttl \in Nat \ {0} /\ EmptyTtl \in Nat \ {0}
    /\ LookupTimeout \in Nat \ {0} /\ Timeout <= LookupTimeout

VARIABLES
    onChain,        \* key -> its value on the chain
    cache,          \* key -> [value, left], left the ticks until it expires, or NoEntry
    inFlight,       \* key -> the call of the request in flight, or NoCall
    lookupAge,      \* key -> ticks since that request started
    wants,          \* reader -> the key it awaits, or NoKey
    answer,         \* history: [value, age] of the last answer to a reader
    lastSeen,       \* history: key -> value -> ticks since it was the value on the chain
    settledFor      \* history: ticks for which goodFor has been LongGood

readsVars == <<onChain, cache, inFlight, lookupAge, wants, answer, lastSeen,
              settledFor>>

NoAnswer == [value |-> Failed, age |-> 0]

\* The longest an outage can show in empty answers after the provider is over it.
Blindness == LookupTimeout + EmptyTtl

ReadsInit ==
    /\ onChain = [k \in Keys |-> CHOOSE v \in Values : TRUE]
    /\ cache = [k \in Keys |-> NoEntry]
    /\ inFlight = [k \in Keys |-> NoCall]
    /\ lookupAge = [k \in Keys |-> 0]
    /\ wants = [r \in Readers |-> NoKey]
    /\ answer = NoAnswer
    /\ lastSeen = [k \in Keys |-> [v \in Values |-> IF v = onChain[k] THEN 0 ELSE Ttl]]
    /\ settledFor = Blindness + 1

-----------------------------------------------------------------------------
\* How old v is as an answer for key k: a value by when it was true, an empty answer by
\* how long the primary endpoint has been well.
Age(k, v) ==
    CASE v \in Values -> lastSeen[k][v]
      [] v = Empty /\ goodFor = LongGood -> settledFor
      [] OTHER -> 0

getCached(k) == cache[k] # NoEntry /\ cache[k].left > 0

\* Mutant of KeepEntry: an entry that is read lasts its full time again.
KeepEntryAlive(k) ==
    cache' = [cache EXCEPT ![k] = [@ EXCEPT !.left = IF @ > 0 THEN Ttl ELSE 0]]

KeepEntry(k) == UNCHANGED cache

ReadCached(r, k) ==
    /\ wants[r] = NoKey
    /\ getCached(k)
    /\ answer' = [value |-> cache[k].value, age |-> Age(k, cache[k].value)]
    /\ KeepEntry(k)
    /\ UNCHANGED <<onChain, inFlight, lookupAge, wants, lastSeen, settledFor, providerVars>>

JoinRequest(r, k) ==
    /\ wants[r] = NoKey
    /\ ~getCached(k)
    /\ inFlight[k] # NoCall
    /\ wants' = [wants EXCEPT ![r] = k]
    /\ UNCHANGED <<onChain, cache, inFlight, lookupAge, answer, lastSeen, settledFor, providerVars>>

\* getCached deletes what has expired.
StartRequest(r, k, c) ==
    /\ wants[r] = NoKey
    /\ ~getCached(k)
    /\ inFlight[k] = NoCall
    /\ failoverSend(c, FALSE)
    /\ cache' = [cache EXCEPT ![k] = NoEntry]
    /\ inFlight' = [inFlight EXCEPT ![k] = c]
    /\ lookupAge' = [lookupAge EXCEPT ![k] = 0]
    /\ wants' = [wants EXCEPT ![r] = k]
    /\ UNCHANGED <<onChain, answer, lastSeen, settledFor>>

Asked(c) == {k \in Keys : inFlight[k] = c}

\* Mutant of Clear: the entry stays when the request has failed.
ClearIfAnswered(k, v) ==
    inFlight' = [inFlight EXCEPT ![k] = IF v = Failed THEN @ ELSE NoCall]

\* finally { inFlight.delete(key) }
Clear(k, v) == inFlight' = [inFlight EXCEPT ![k] = NoCall]

\* The promise of the request for k is settled with v: every reader of k gets it.
Settle(k, v) ==
    /\ Clear(k, v)
    /\ wants' = [r \in Readers |-> IF wants[r] = k THEN NoKey ELSE wants[r]]
    /\ answer' = [value |-> v, age |-> Age(k, v)]

setCache(k, v, ttl) == cache' = [cache EXCEPT ![k] = [value |-> v, left |-> ttl]]

\* The call of a request is answered with what is on the chain now.
RequestServed(c) ==
    \E k \in Asked(c) :
        /\ Served(c)
        /\ setCache(k, onChain[k], Ttl)
        /\ Settle(k, onChain[k])
        /\ UNCHANGED <<onChain, lookupAge, lastSeen, settledFor>>

RequestFails(c) ==
    \E k \in Asked(c) \ AdapterKeys :
        /\ Exhausted(c)
        /\ Settle(k, Failed)
        /\ UNCHANGED <<onChain, cache, lookupAge, lastSeen, settledFor>>

NoAdapter(k) == setCache(k, Empty, EmptyTtl)

Hide(k) ==
    /\ NoAdapter(k)
    /\ Settle(k, Empty)
    /\ UNCHANGED <<onChain, lookupAge, lastSeen, settledFor>>

LookupFails(c) == \E k \in Asked(c) \cap AdapterKeys : Exhausted(c) /\ Hide(k)

LookupTimesOut(k) ==
    /\ k \in AdapterKeys
    /\ inFlight[k] # NoCall
    /\ lookupAge[k] = LookupTimeout
    /\ ~SurelyAnswered(inFlight[k])
    /\ Hide(k)
    /\ UNCHANGED providerVars

-----------------------------------------------------------------------------
\* A vote replaces a gauge; pools, metadata and adapters stay.
Vote(k, v) ==
    /\ k \notin AdapterKeys
    /\ onChain[k] # v
    /\ onChain' = [onChain EXCEPT ![k] = v]
    /\ lastSeen' = [lastSeen EXCEPT ![k][v] = 0]
    /\ UNCHANGED <<cache, inFlight, lookupAge, wants, answer, settledFor, providerVars>>

ReadsTick ==
    /\ ProviderTick
    /\ \A k \in AdapterKeys : inFlight[k] # NoCall => lookupAge[k] < LookupTimeout
    /\ cache' = [k \in Keys |->
          IF getCached(k) THEN [cache[k] EXCEPT !.left = @ - 1] ELSE cache[k]]
    /\ lookupAge' = [k \in Keys |->
          IF k \in AdapterKeys /\ inFlight[k] # NoCall THEN lookupAge[k] + 1 ELSE 0]
    /\ lastSeen' = [k \in Keys |-> [v \in Values |->
          IF v = onChain[k] THEN 0
          ELSE IF lastSeen[k][v] < Ttl THEN lastSeen[k][v] + 1 ELSE Ttl]]
    /\ settledFor' = IF goodFor < LongGood THEN 0
                     ELSE IF settledFor <= Blindness THEN settledFor + 1 ELSE settledFor
    /\ UNCHANGED <<onChain, inFlight, wants, answer>>

\* The process starts again: caches and requests are gone, and the readers with them.
ReadsRestart ==
    /\ ProviderRestart
    /\ cache' = [k \in Keys |-> NoEntry]
    /\ inFlight' = [k \in Keys |-> NoCall]
    /\ lookupAge' = [k \in Keys |-> 0]
    /\ wants' = [r \in Readers |-> NoKey]
    /\ answer' = NoAnswer
    /\ UNCHANGED <<onChain, lastSeen, settledFor>>

-----------------------------------------------------------------------------
(* Properties                                                              *)

\* However reads, requests in flight and votes interleave, a value read was on the chain
\* less than the cache's TTL before the answer.  And a failed lookup, which is taken for
\* "no adapter" and hides a user's positions, does so no longer after the outage than a
\* lookup and EMPTY_TTL_MS.
AnswersAreRecent ==
    /\ answer.value \in Values => answer.age < Ttl
    /\ answer.value = Empty => answer.age <= Blindness

\* Whoever awaits a request awaits a call under way, which ends within its deadlines: no
\* reader is left with a promise that nobody settles, or joins one that has ended.
ReadersAreServed ==
    \A r \in Readers :
        wants[r] # NoKey => inFlight[wants[r]] \in Calls /\ UnderWay(inFlight[wants[r]])
=============================================================================
