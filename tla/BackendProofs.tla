---------------------------- MODULE BackendProofs -----------------------------
(* What the backend promises across its calls, reads, polls and restarts,  *)
(* what its limiter lets through and whom it refuses, and in which order   *)
(* and number it takes the requests of one wallet.                         *)
(*                                                                         *)
(* The provers have no induction whose statement is a parameter; where the *)
(* lemmas on the limiter's sums need one, they take the smallest           *)
(* counterexample, which exists as the naturals and the strict subsets of  *)
(* a finite set are well-founded.                                          *)
EXTENDS Backend, SerializeByUser, FiniteSetTheorems, TLAPS

-----------------------------------------------------------------------------
(* The provider by itself                                                  *)

\* An endpoint that is down now is one each call under way has missed, and a primary that
\* is down has not been well at all.
DownIsNoticed ==
    /\ Primary \notin up => goodFor = 0
    /\ \A c \in Calls : UnderWay(c) => Endpoints \ up \subseteq missed[c]

\* A failure that counts came at most Timeout after the primary was last unwell, and a
\* call that may still fail there has waited for as long as that is ago.
FailuresAreRecent ==
    /\ failures > 0 /\ failedAgo <= Recovery => goodFor <= failedAgo + Timeout
    /\ \A c \in Calls : stage[c] = "primary" /\ Primary \in missed[c] => goodFor <= waited[c]

\* A fallback leaves the race of a call only if the call missed it.
RaceIsFair ==
    \A c \in Calls :
        /\ stage[c] = "failed" => racing[c] = {}
        /\ stage[c] \in {"fallbacks", "failed"} /\ c \notin reverting
             => Fallbacks \ racing[c] \subseteq missed[c]

ProviderInv == ProviderTypeOK /\ DownIsNoticed /\ FailuresAreRecent /\ RaceIsFair

\* The invariant holds when the provider is created.
LEMMA ProviderInitInv == ProviderInit => ProviderInv
BY ProviderAssumption DEF ProviderInit, ProviderInv, ProviderTypeOK, DownIsNoticed,
   FailuresAreRecent, RaceIsFair, UnderWay, LongGood, Endpoints

LEMMA SendKeepsInv ==
  ASSUME ProviderInv, NEW c \in Calls, NEW bad \in BOOLEAN, failoverSend(c, bad)
  PROVE  ProviderInv'
<1> USE ProviderAssumption
<1>1. ProviderTypeOK'
  BY DEF ProviderInv, ProviderTypeOK, failoverSend, Expire, markRpcHealthy, healthVars,
         endpointVars, LongGood, Endpoints
<1>2. DownIsNoticed'
  BY DEF ProviderInv, ProviderTypeOK, DownIsNoticed, failoverSend, endpointVars, UnderWay
<1>3. FailuresAreRecent'
  BY DEF ProviderInv, ProviderTypeOK, DownIsNoticed, FailuresAreRecent, failoverSend, Expire,
         markRpcHealthy, healthVars, endpointVars, Endpoints
<1>4. RaceIsFair'
  BY DEF ProviderInv, ProviderTypeOK, RaceIsFair, failoverSend
<1> QED
  BY <1>1, <1>2, <1>3, <1>4 DEF ProviderInv

LEMMA AnswerKeepsInv ==
  ASSUME ProviderInv, NEW c \in Calls, Succeed(c), markRpcHealthy \/ UNCHANGED healthVars
  PROVE  ProviderInv'
<1> USE ProviderAssumption
<1>1. ProviderTypeOK'
  BY DEF ProviderInv, ProviderTypeOK, Succeed, markRpcHealthy, healthVars, endpointVars,
         LongGood, Endpoints
<1>2. DownIsNoticed'
  BY DEF ProviderInv, ProviderTypeOK, DownIsNoticed, Succeed, endpointVars, UnderWay
<1>3. FailuresAreRecent'
  BY DEF ProviderInv, ProviderTypeOK, FailuresAreRecent, Succeed, markRpcHealthy, healthVars,
         endpointVars
<1>4. RaceIsFair'
  BY DEF ProviderInv, ProviderTypeOK, RaceIsFair, Succeed
<1> QED
  BY <1>1, <1>2, <1>3, <1>4 DEF ProviderInv

LEMMA PrimaryFailureKeepsInv ==
  ASSUME ProviderInv, NEW c \in Calls, PrimaryFails(c)
  PROVE  ProviderInv'
<1> USE ProviderAssumption
<1>1. ProviderTypeOK'
  BY DEF ProviderInv, ProviderTypeOK, PrimaryFails, markRpcFailed, LongGood, Endpoints
<1>2. DownIsNoticed'
  BY DEF ProviderInv, ProviderTypeOK, DownIsNoticed, PrimaryFails, UnderWay
<1>3. goodFor' <= Timeout
  BY DEF ProviderInv, ProviderTypeOK, DownIsNoticed, FailuresAreRecent, PrimaryFails, Fails
<1>4. FailuresAreRecent'
  BY <1>3 DEF ProviderInv, ProviderTypeOK, FailuresAreRecent, PrimaryFails, markRpcFailed
<1>5. RaceIsFair'
  BY DEF ProviderInv, ProviderTypeOK, RaceIsFair, PrimaryFails
<1> QED
  BY <1>1, <1>2, <1>4, <1>5 DEF ProviderInv

LEMMA FallbackFailureKeepsInv ==
  ASSUME ProviderInv, NEW c \in Calls, NEW f \in Fallbacks, FallbackFails(c, f)
  PROVE  ProviderInv'
<1> USE ProviderAssumption
<1>1. ProviderTypeOK'
  BY DEF ProviderInv, ProviderTypeOK, FallbackFails, Remaining, endpointVars, healthVars,
         LongGood, Endpoints
<1>2. DownIsNoticed'
  BY DEF ProviderInv, ProviderTypeOK, DownIsNoticed, FallbackFails, endpointVars, UnderWay
<1>3. FailuresAreRecent'
  BY DEF ProviderInv, ProviderTypeOK, FailuresAreRecent, FallbackFails, endpointVars, healthVars
<1>4. f \in missed[c] \/ c \in reverting
  BY DEF ProviderInv, ProviderTypeOK, DownIsNoticed, FallbackFails, Fails, UnderWay, Endpoints
<1>5. RaceIsFair'
  BY <1>4 DEF ProviderInv, ProviderTypeOK, RaceIsFair, FallbackFails, Remaining
<1> QED
  BY <1>1, <1>2, <1>3, <1>5 DEF ProviderInv

LEMMA EndpointKeepsInv ==
  ASSUME ProviderInv, NEW e \in Endpoints, GoesDown(e) \/ ComesUp(e)
  PROVE  ProviderInv'
<1> USE ProviderAssumption
<1>1. CASE GoesDown(e)
  <2>1. ProviderTypeOK'
    BY <1>1 DEF ProviderInv, ProviderTypeOK, GoesDown, healthVars, LongGood, Endpoints
  <2>2. DownIsNoticed'
    BY <1>1 DEF ProviderInv, ProviderTypeOK, DownIsNoticed, GoesDown, healthVars, UnderWay
  <2>3. FailuresAreRecent'
    BY <1>1 DEF ProviderInv, ProviderTypeOK, FailuresAreRecent, GoesDown, healthVars, LongGood
  <2>4. RaceIsFair'
    BY <1>1 DEF ProviderInv, ProviderTypeOK, RaceIsFair, GoesDown
  <2> QED
    BY <2>1, <2>2, <2>3, <2>4 DEF ProviderInv
<1>2. CASE ComesUp(e)
  BY <1>2 DEF ProviderInv, ProviderTypeOK, DownIsNoticed, FailuresAreRecent, RaceIsFair,
              ComesUp, healthVars, callVars, UnderWay, LongGood, Endpoints
<1> QED
  BY <1>1, <1>2

LEMMA TickKeepsInv ==
  ASSUME ProviderInv, ProviderTick
  PROVE  ProviderInv'
<1> USE ProviderAssumption
<1>1. ProviderTypeOK'
  BY DEF ProviderInv, ProviderTypeOK, ProviderTick, LongGood, UnderWay
<1>2. DownIsNoticed'
  BY DEF ProviderInv, ProviderTypeOK, DownIsNoticed, ProviderTick, UnderWay
<1>3. FailuresAreRecent'
  BY DEF ProviderInv, ProviderTypeOK, DownIsNoticed, FailuresAreRecent, ProviderTick, UnderWay,
         LongGood
<1>4. RaceIsFair'
  BY DEF ProviderInv, ProviderTypeOK, RaceIsFair, ProviderTick
<1> QED
  BY <1>1, <1>2, <1>3, <1>4 DEF ProviderInv

LEMMA RestartKeepsInv ==
  ASSUME ProviderInv, ProviderRestart
  PROVE  ProviderInv'
BY ProviderAssumption DEF ProviderInv, ProviderTypeOK, DownIsNoticed, FailuresAreRecent,
   RaceIsFair, ProviderRestart, endpointVars, UnderWay, LongGood, Endpoints

\* The invariant is inductive.
THEOREM ProviderInvariant == ProviderSpec => []ProviderInv
<1>1. ProviderInv /\ [ProviderNext]_providerVars => ProviderInv'
  <2> SUFFICES ASSUME ProviderInv, [ProviderNext]_providerVars PROVE ProviderInv'
    OBVIOUS
  <2>1. ASSUME NEW c \in Calls, NEW bad \in BOOLEAN, failoverSend(c, bad) PROVE ProviderInv'
    BY <2>1, SendKeepsInv
  <2>2. ASSUME NEW c \in Calls, Served(c) PROVE ProviderInv'
    BY <2>2, AnswerKeepsInv DEF Served, PrimaryAnswers, FallbackAnswers
  <2>3. ASSUME NEW c \in Calls, Exhausted(c) \/ MovesOn(c) PROVE ProviderInv'
    BY <2>3, PrimaryFailureKeepsInv, FallbackFailureKeepsInv DEF Exhausted, MovesOn
  <2>4. ASSUME EndpointStep PROVE ProviderInv'
    BY <2>4, EndpointKeepsInv DEF EndpointStep
  <2>5. CASE UNCHANGED providerVars
    BY <2>5 DEF ProviderInv, ProviderTypeOK, DownIsNoticed, FailuresAreRecent, RaceIsFair,
       UnderWay, providerVars, endpointVars, healthVars, callVars
  <2> QED
    BY <2>1, <2>2, <2>3, <2>4, <2>5, TickKeepsInv, RestartKeepsInv DEF ProviderNext
<1> QED
  BY ProviderInitInv, <1>1, PTL DEF ProviderSpec

\* The variables of the provider keep their types.
THEOREM ProviderTypes == ProviderSpec => []ProviderTypeOK
<1>1. ProviderInv => ProviderTypeOK
  BY DEF ProviderInv
<1> QED
  BY <1>1, ProviderInvariant, PTL

\* With any number of calls and fallbacks, and for every Timeout and Recovery, the primary
\* is in use again Timeout + Recovery after it was last unwell.
THEOREM ThePrimaryReturns == ProviderSpec => []PrimaryReturns
<1>1. ProviderInv => PrimaryReturns
  BY ProviderAssumption DEF ProviderInv, ProviderTypeOK, FailuresAreRecent, PrimaryReturns,
     isRpcSick, LongGood
<1> QED
  BY <1>1, ProviderInvariant, PTL

\* A call that does not revert fails only if it missed every fallback.
THEOREM FailureMeansNoFallback == ProviderSpec => []FailsOnlyWithoutFallback
<1>1. ProviderInv => FailsOnlyWithoutFallback
  BY DEF ProviderInv, RaceIsFair, FailsOnlyWithoutFallback
<1> QED
  BY <1>1, ProviderInvariant, PTL

-----------------------------------------------------------------------------
(* The index as it is built when the process starts                        *)

\* SetToSeq lists all of a finite set.
LEMMA SetToSeqLists ==
  ASSUME NEW S, IsFiniteSet(S)
  PROVE  SetToSeq(S) \in Seq(S) /\ ToSet(SetToSeq(S)) = S
<1> DEFINE n == Cardinality(S)
<1>1. n \in Nat /\ ExistsBijection(1 .. n, S)
  BY FS_CardinalityType
<1>2. \E f \in [1 .. n -> S] : IsInjective(f)
  BY <1>1 DEF ExistsBijection, Bijection, Injection
<1>3. SetToSeq(S) \in [1 .. n -> S] /\ IsInjective(SetToSeq(S))
  BY <1>2 DEF SetToSeq
<1>4. SetToSeq(S) \in Surjection(1 .. n, S)
  <2>1. SetToSeq(S) \in Injection(1 .. n, S)
    BY <1>3 DEF Injection
  <2>2. IsFiniteSet(1 .. n) /\ Cardinality(1 .. n) = n
    BY <1>1, FS_Interval
  <2> QED
    BY <2>1, <2>2, FS_Injection
<1>5. ToSet(SetToSeq(S)) = S
  <2>1. \A x \in S : \E i \in 1 .. n : SetToSeq(S)[i] = x
    BY <1>4 DEF Surjection
  <2> QED
    BY <1>3, <2>1 DEF ToSet
<1> QED
  BY <1>1, <1>3, <1>5

-----------------------------------------------------------------------------
(* Transactions                                                            *)

Record == [user : Submitters, status : {"pending", "confirmed", "failed"},
           version : 1 .. MaxSubmissions]
Poll == [hash : Hashes, left : 0 .. MaxAttempts, call : Calls \cup {NotAsking},
         version : 0 .. MaxSubmissions]

\* Every variable of the store holds a value of its type.
StoreTypeOK ==
    /\ transactions \in [Hashes -> Record \cup {NoRecord}]
    /\ userIndex \in [Submitters -> Seq(Hashes)]
    /\ submissions \in 0 .. MaxSubmissions
    /\ loops \in [1 .. MaxSubmissions -> Poll \cup {NoLoop}]
    /\ receipts \in [Hashes -> {"none", "confirmed", "failed"}]
    /\ orphaned \subseteq Hashes

Recorded == {h \in Hashes : transactions[h] # NoRecord}

\* A loop polls a hash that is recorded.  It belongs to no later submission than the
\* record, and what it asked about is no newer than the record and no older than itself.
LoopFollows(n) ==
    /\ n <= submissions
    /\ loops[n].hash \in Recorded
    /\ n <= transactions[loops[n].hash].version
    /\ loops[n].call = NotAsking => loops[n].left > 0
    /\ loops[n].call # NotAsking =>
          n <= loops[n].version /\ loops[n].version <= transactions[loops[n].hash].version

LoopsFollow == \A n \in 1 .. MaxSubmissions : loops[n] # NoLoop => LoopFollows(n)

\* The loop of the last submission of a hash polls that hash.
LastLoopIsOwn ==
    \A h \in Recorded :
        /\ transactions[h].version <= submissions
        /\ loops[transactions[h].version] # NoLoop => loops[transactions[h].version].hash = h

StoreInv ==
    /\ StoreTypeOK /\ IsFiniteSet(Recorded)
    /\ LoopsFollow /\ LastLoopIsOwn
    /\ RestartForgetsNothing /\ PendingIsPolled

\* Records, polls and the model values that stand for none are told apart.
LEMMA NoneIsNone == NoRecord \notin Record /\ NoLoop \notin Poll
<1>1. Record \subseteq [user : Submitters, status : {"pending", "confirmed", "failed"},
                       version : Nat]
  BY StoreAssumption DEF Record
<1>2. Poll \subseteq [hash : Hashes, left : Nat, call : Calls \cup {NotAsking}, version : Nat]
  BY StoreAssumption DEF Poll
<1> QED
  BY <1>1, <1>2, StoreAssumption

\* The invariant holds when the process starts for the first time.
LEMMA StoreInitInv == StoreInit => StoreInv
<1> SUFFICES ASSUME StoreInit PROVE StoreInv
  OBVIOUS
<1> USE StoreAssumption DEF StoreInit, NoTransactions, NoLoops
<1>1. StoreTypeOK
  BY DEF StoreTypeOK
<1>2. Recorded = {}
  BY DEF Recorded
<1>3. IsFiniteSet(Recorded)
  BY <1>2, FS_EmptySet
<1>4. LoopsFollow /\ LastLoopIsOwn
  BY <1>2 DEF LoopsFollow, LastLoopIsOwn
<1>5. RestartForgetsNothing /\ PendingIsPolled
  BY DEF RestartForgetsNothing, PendingIsPolled, Pending
<1> QED
  BY <1>1, <1>3, <1>4, <1>5 DEF StoreInv

LEMMA SubmissionKeepsInv ==
  ASSUME StoreInv, NEW h \in Hashes, NEW u \in Submitters, submitTransaction(h, u)
  PROVE  StoreInv'
<1> DEFINE n == submissions + 1
           rec == [user |-> u, status |-> "pending", version |-> n]
           poll == [hash |-> h, left |-> MaxAttempts, call |-> NotAsking, version |-> 0]
<1> USE StoreAssumption, NoneIsNone
<1>1. /\ n \in 1 .. MaxSubmissions /\ submissions \in 0 .. MaxSubmissions
      /\ submissions' = n
      /\ transactions' = [transactions EXCEPT ![h] = rec]
      /\ userIndex' = [userIndex EXCEPT ![u] = Append(@, h)]
      /\ disk' = transactions'
      /\ loops' = [loops EXCEPT ![n] = poll]
      /\ orphaned' = orphaned \ {h}
      /\ receipts' = receipts
  BY DEF submitTransaction, StoreInv, StoreTypeOK
<1>2. rec \in Record /\ poll \in Poll
  BY <1>1 DEF Record, Poll
<1>3. StoreTypeOK'
  BY <1>1, <1>2 DEF StoreInv, StoreTypeOK, Poll
<1>4. Recorded' = Recorded \cup {h}
  BY <1>1, <1>2 DEF StoreInv, StoreTypeOK, Recorded
<1>5. IsFiniteSet(Recorded')
  BY <1>4, FS_AddElement DEF StoreInv
<1>6. LoopsFollow'
  <2> SUFFICES ASSUME NEW m \in 1 .. MaxSubmissions, loops'[m] # NoLoop
               PROVE  LoopFollows(m)'
    BY DEF LoopsFollow
  <2>1. CASE m = n
    BY <1>1, <1>4, <2>1 DEF StoreInv, StoreTypeOK, LoopFollows
  <2>2. CASE m # n
    <3>1. loops'[m] = loops[m] /\ loops[m] \in Poll
      BY <1>1, <2>2 DEF StoreInv, StoreTypeOK
    <3>2. LoopFollows(m)
      BY <3>1 DEF StoreInv, LoopsFollow
    <3>3. transactions[loops[m].hash] \in Record
      BY <3>1, <3>2 DEF StoreInv, StoreTypeOK, LoopFollows, Recorded
    <3>4. transactions[loops[m].hash].version <= transactions'[loops[m].hash].version
      <4>1. CASE loops[m].hash = h
        BY <1>1, <3>2, <3>3, <4>1 DEF StoreInv, StoreTypeOK, LastLoopIsOwn, LoopFollows, Record
      <4>2. CASE loops[m].hash # h
        BY <1>1, <3>1, <3>3, <4>2 DEF StoreInv, StoreTypeOK, Poll, Record
      <4> QED
        BY <4>1, <4>2
    <3>5. transactions'[loops[m].hash].version \in Nat
      BY <1>1, <1>2, <3>1, <3>3 DEF StoreInv, StoreTypeOK, Poll, Record
    <3> QED
      BY <1>1, <1>4, <3>1, <3>2, <3>3, <3>4, <3>5 DEF LoopFollows, Poll, Record
  <2> QED
    BY <2>1, <2>2
<1>7. LastLoopIsOwn'
  <2> SUFFICES ASSUME NEW g \in Recorded'
               PROVE  /\ transactions'[g].version <= submissions'
                      /\ loops'[transactions'[g].version] # NoLoop =>
                            loops'[transactions'[g].version].hash = g
    BY DEF LastLoopIsOwn
  <2>1. CASE g = h
    BY <1>1, <2>1 DEF StoreInv, StoreTypeOK
  <2>2. CASE g # h
    <3>1. g \in Recorded /\ transactions'[g] = transactions[g] /\ transactions[g] \in Record
      BY <1>1, <1>4, <2>2 DEF Recorded, StoreInv, StoreTypeOK
    <3>2. transactions[g].version \in 1 .. submissions
      BY <3>1, <1>1 DEF StoreInv, LastLoopIsOwn, Record
    <3> QED
      BY <1>1, <3>1, <3>2 DEF StoreInv, StoreTypeOK, LastLoopIsOwn
  <2> QED
    BY <2>1, <2>2
<1>8. RestartForgetsNothing'
  <2> SUFFICES ASSUME NEW g \in Hashes, transactions'[g] # NoRecord
               PROVE  g \in ToSet(userIndex'[transactions'[g].user])
    BY <1>1 DEF RestartForgetsNothing
  <2>1. CASE g = h
    <3>1. transactions'[g].user = u /\ userIndex[u] \in Seq(Hashes)
      BY <1>1, <2>1 DEF StoreInv, StoreTypeOK
    <3>2. userIndex'[u] = Append(userIndex[u], h)
      BY <1>1 DEF StoreInv, StoreTypeOK
    <3>3. LET s == Append(userIndex[u], h) IN Len(s) \in DOMAIN s /\ s[Len(s)] = h
      BY <3>1
    <3> QED
      BY <2>1, <3>1, <3>2, <3>3 DEF ToSet
  <2>2. CASE g # h
    <3>1. transactions'[g] = transactions[g] /\ transactions[g] \in Record
      BY <1>1, <2>2 DEF StoreInv, StoreTypeOK
    <3> DEFINE w == transactions[g].user
    <3>2. w \in Submitters /\ userIndex[w] \in Seq(Hashes) /\ g \in ToSet(userIndex[w])
      BY <3>1 DEF StoreInv, StoreTypeOK, RestartForgetsNothing, Record
    <3>3. userIndex'[w] = userIndex[w] \/ userIndex'[w] = Append(userIndex[w], h)
      BY <1>1, <3>2 DEF StoreInv, StoreTypeOK
    <3>4. \A s \in Seq(Hashes) : ToSet(s) \subseteq ToSet(Append(s, h))
      BY DEF ToSet
    <3> QED
      BY <3>1, <3>2, <3>3, <3>4
  <2> QED
    BY <2>1, <2>2
<1>9. PendingIsPolled'
  <2> SUFFICES ASSUME NEW g \in Hashes, Pending(g)'
               PROVE  g \in orphaned' \/ loops'[transactions'[g].version] # NoLoop
    BY DEF PendingIsPolled
  <2>1. CASE g = h
    BY <1>1, <1>2, <2>1 DEF StoreInv, StoreTypeOK
  <2>2. CASE g # h
    <3>1. transactions'[g] = transactions[g] /\ g \in Recorded /\ transactions[g] \in Record
      BY <1>1, <2>2 DEF Pending, Recorded, StoreInv, StoreTypeOK
    <3>2. transactions[g].version \in 1 .. submissions
      BY <3>1, <1>1 DEF StoreInv, LastLoopIsOwn, Record
    <3>3. Pending(g)
      BY <3>1 DEF Pending, Recorded
    <3>4. g \in orphaned \/ loops[transactions[g].version] # NoLoop
      BY <3>3 DEF StoreInv, PendingIsPolled
    <3> QED
      BY <1>1, <2>2, <3>1, <3>2, <3>4 DEF StoreInv, StoreTypeOK
  <2> QED
    BY <2>1, <2>2
<1> QED
  BY <1>3, <1>5, <1>6, <1>7, <1>8, <1>9 DEF StoreInv

LEMMA AskKeepsInv ==
  ASSUME StoreInv, NEW n \in 1 .. MaxSubmissions, NEW c \in Calls, Ask(n, c)
  PROVE  StoreInv'
<1> DEFINE v == transactions[loops[n].hash].version
<1> USE StoreAssumption, NoneIsNone
<1>1. /\ UNCHANGED <<transactions, userIndex, disk, submissions, receipts, orphaned>>
      /\ loops[n] # NoLoop /\ loops[n].call = NotAsking
  BY DEF Ask, Sleeping
<1>2. /\ loops[n] \in Poll /\ LoopFollows(n)
      /\ transactions[loops[n].hash] \in Record
  BY <1>1 DEF StoreInv, StoreTypeOK, LoopsFollow, LoopFollows, Recorded
<1>3. /\ loops'[n] \in Poll /\ loops'[n].hash = loops[n].hash
      /\ loops'[n].call = c /\ loops'[n].version = v
  <2>1. loops'[n] = [hash |-> loops[n].hash, left |-> loops[n].left - 1, call |-> c,
                     version |-> v]
    BY DEF Ask, StoreInv, StoreTypeOK
  <2>2. loops[n].left - 1 \in 0 .. MaxAttempts /\ v \in 0 .. MaxSubmissions
    BY <1>1, <1>2 DEF LoopFollows, Poll, Record
  <2> QED
    BY <1>2, <2>1, <2>2 DEF Poll
<1>4. \A m \in 1 .. MaxSubmissions : m # n => loops'[m] = loops[m]
  BY DEF Ask, StoreInv, StoreTypeOK
<1>5. loops' \in [1 .. MaxSubmissions -> Poll \cup {NoLoop}]
  BY <1>3, <1>4 DEF Ask, StoreInv, StoreTypeOK
<1>6. StoreTypeOK'
  BY <1>1, <1>5 DEF StoreInv, StoreTypeOK
<1>7. Recorded' = Recorded
  BY <1>1 DEF Recorded
<1>8. LoopsFollow'
  <2> SUFFICES ASSUME NEW m \in 1 .. MaxSubmissions, loops'[m] # NoLoop
               PROVE  LoopFollows(m)'
    BY DEF LoopsFollow
  <2>1. CASE m = n
    BY <1>1, <1>2, <1>3, <1>7, <2>1 DEF StoreInv, StoreTypeOK, LoopFollows, Record
  <2>2. CASE m # n
    BY <1>1, <1>7, <1>4, <2>2 DEF StoreInv, StoreTypeOK, LoopsFollow, LoopFollows
  <2> QED
    BY <2>1, <2>2
<1>9. \A m \in 1 .. MaxSubmissions :
         /\ loops'[m] # NoLoop <=> loops[m] # NoLoop
         /\ loops'[m] # NoLoop => loops'[m].hash = loops[m].hash
  BY <1>1, <1>2, <1>3, <1>4
<1>10. \A h \in Recorded : transactions[h].version \in 1 .. MaxSubmissions
  BY DEF StoreInv, StoreTypeOK, Recorded, Record
<1>11. LastLoopIsOwn'
  BY <1>1, <1>7, <1>9, <1>10 DEF StoreInv, LastLoopIsOwn
<1>12. RestartForgetsNothing' /\ PendingIsPolled'
  BY <1>1, <1>9, <1>10 DEF StoreInv, RestartForgetsNothing, PendingIsPolled, Pending, Recorded
<1> QED
  BY <1>6, <1>7, <1>8, <1>11, <1>12 DEF StoreInv

\* A loop returns, or sleeps again as it was.  Its hash may be left without a loop only if
\* it is no longer pending or its attempts are used up.
LEMMA LoopEndsOrSleeps ==
  ASSUME StoreInv, NEW n \in 1 .. MaxSubmissions, loops[n] # NoLoop,
         UNCHANGED <<transactions, userIndex, disk, submissions, receipts>>,
         orphaned' \in {orphaned, orphaned \cup {loops[n].hash}},
         \/ /\ loops' = [loops EXCEPT ![n] = NoLoop]
            /\ transactions[loops[n].hash].version = n =>
                  ~Pending(loops[n].hash) \/ loops[n].hash \in orphaned'
         \/ /\ loops' = [loops EXCEPT ![n] = [@ EXCEPT !.call = NotAsking]]
            /\ loops[n].left > 0
  PROVE  StoreInv'
<1> USE StoreAssumption, NoneIsNone
<1>1. loops[n] \in Poll /\ LoopFollows(n)
  BY DEF StoreInv, StoreTypeOK, LoopsFollow
<1>2. PICK q \in Poll :
         /\ q.hash = loops[n].hash /\ q.left = loops[n].left /\ q.call = NotAsking
         /\ \/ /\ loops' = [loops EXCEPT ![n] = NoLoop]
               /\ transactions[q.hash].version = n => ~Pending(q.hash) \/ q.hash \in orphaned'
            \/ loops' = [loops EXCEPT ![n] = q] /\ q.left > 0
  <2> DEFINE asleep == [loops[n] EXCEPT !.call = NotAsking]
  <2>1. /\ asleep \in Poll /\ asleep.hash = loops[n].hash
        /\ asleep.left = loops[n].left /\ asleep.call = NotAsking
    BY <1>1 DEF Poll
  <2>2. \/ /\ loops' = [loops EXCEPT ![n] = NoLoop]
           /\ transactions[loops[n].hash].version = n =>
                 ~Pending(loops[n].hash) \/ loops[n].hash \in orphaned'
        \/ loops' = [loops EXCEPT ![n] = asleep] /\ loops[n].left > 0
    BY DEF StoreInv, StoreTypeOK
  <2> HIDE DEF asleep
  <2> QED
    BY <2>1, <2>2
<1>3. StoreTypeOK'
  BY <1>1, <1>2 DEF StoreInv, StoreTypeOK, Poll
<1>4. Recorded' = Recorded
  BY DEF Recorded
<1>5. \A m \in 1 .. MaxSubmissions : loops'[m] # NoLoop =>
         /\ loops[m] # NoLoop
         /\ loops'[m].hash = loops[m].hash
         /\ \/ loops'[m] = loops[m]
            \/ loops'[m].call = NotAsking /\ loops'[m].left > 0
  <2> TAKE m \in 1 .. MaxSubmissions
  <2>1. CASE m = n
    BY <1>1, <1>2, <2>1 DEF StoreInv, StoreTypeOK
  <2>2. CASE m # n
    BY <1>2, <2>2 DEF StoreInv, StoreTypeOK
  <2> QED
    BY <2>1, <2>2
<1>6. LoopsFollow'
  BY <1>4, <1>5 DEF StoreInv, LoopsFollow, LoopFollows
<1>7. \A h \in Recorded : transactions[h].version \in 1 .. MaxSubmissions
  BY DEF StoreInv, StoreTypeOK, Recorded, Record
<1>8. LastLoopIsOwn'
  BY <1>4, <1>5, <1>7 DEF StoreInv, LastLoopIsOwn
<1>9. RestartForgetsNothing'
  BY DEF StoreInv, RestartForgetsNothing
<1>10. PendingIsPolled'
  <2> SUFFICES ASSUME NEW h \in Hashes, Pending(h)
               PROVE  h \in orphaned' \/ loops'[transactions[h].version] # NoLoop
    BY DEF PendingIsPolled, Pending
  <2>1. h \in Recorded /\ transactions[h].version \in 1 .. MaxSubmissions
    BY <1>7 DEF Pending, Recorded
  <2>2. h \in orphaned \/ loops[transactions[h].version] # NoLoop
    BY DEF StoreInv, PendingIsPolled
  <2>3. CASE transactions[h].version = n
    <3>1. h = loops[n].hash
      BY <2>1, <2>3 DEF StoreInv, LastLoopIsOwn
    <3> QED
      BY <1>1, <1>2, <2>3, <3>1 DEF StoreInv, StoreTypeOK
  <2>4. CASE transactions[h].version # n
    BY <2>1, <2>2, <2>4 DEF StoreInv, StoreTypeOK
  <2> QED
    BY <2>3, <2>4
<1> QED
  BY <1>3, <1>4, <1>6, <1>8, <1>9, <1>10 DEF StoreInv

LEMMA SettledKeepsInv ==
  ASSUME StoreInv, NEW n \in 1 .. MaxSubmissions, FindSettled(n)
  PROVE  StoreInv'
<1>1. /\ loops[n] # NoLoop /\ ~Pending(loops[n].hash) /\ orphaned' = orphaned
      /\ UNCHANGED <<transactions, userIndex, disk, submissions, receipts>>
      /\ loops' = [loops EXCEPT ![n] = NoLoop]
  BY DEF FindSettled, Sleeping
<1> QED
  BY <1>1, LoopEndsOrSleeps

LEMMA KeepPollingKeepsInv ==
  ASSUME StoreInv, NEW n \in 1 .. MaxSubmissions, loops[n] # NoLoop, KeepPolling(n)
  PROVE  StoreInv'
<1> USE StoreAssumption, NoneIsNone
<1>1. loops[n] \in Poll /\ loops[n].left \in Nat
  BY DEF StoreInv, StoreTypeOK, Poll
<1>2. /\ UNCHANGED <<transactions, userIndex, disk, submissions, receipts>>
      /\ loops' = [loops EXCEPT ![n] =
            IF loops[n].left = 0 THEN NoLoop ELSE [loops[n] EXCEPT !.call = NotAsking]]
      /\ orphaned' = IF loops[n].left = 0 /\ transactions[loops[n].hash].version = n
                       THEN orphaned \cup {loops[n].hash} ELSE orphaned
  BY <1>1 DEF KeepPolling, StoreInv, StoreTypeOK
<1>3. CASE loops[n].left = 0
  BY <1>2, <1>3, LoopEndsOrSleeps
<1>4. CASE loops[n].left # 0
  <2>1. loops' = [loops EXCEPT ![n] = [@ EXCEPT !.call = NotAsking]] /\ loops[n].left > 0
    BY <1>1, <1>2, <1>4 DEF StoreInv, StoreTypeOK
  <2> QED
    BY <1>2, <1>4, <2>1, LoopEndsOrSleeps
<1> QED
  BY <1>3, <1>4

LEMMA OutcomeKeepsInv ==
  ASSUME StoreInv, NEW n \in 1 .. MaxSubmissions, Asks(n),
         receipts[loops[n].hash] # "none", WriteOutcome(n)
  PROVE  StoreInv'
<1> DEFINE h == loops[n].hash
<1> USE StoreAssumption, NoneIsNone
<1>1. /\ UNCHANGED <<userIndex, submissions, receipts, orphaned>>
      /\ disk' = transactions'
      /\ loops' = [loops EXCEPT ![n] = NoLoop]
      /\ loops[n] # NoLoop /\ loops[n].call # NotAsking
  BY DEF WriteOutcome, Save, Asks
<1>2. loops[n] \in Poll /\ LoopFollows(n) /\ h \in Hashes /\ transactions[h] \in Record
  BY <1>1 DEF StoreInv, StoreTypeOK, LoopsFollow, LoopFollows, Recorded
<1>3. PICK rec \in Record :
         /\ rec.user = transactions[h].user /\ rec.version = transactions[h].version
         /\ rec.status # "pending"
         /\ \/ transactions' = transactions /\ transactions[h].version # loops[n].version
            \/ transactions' = [transactions EXCEPT ![h] = rec]
  <2> DEFINE settled == [transactions[h] EXCEPT !.status = receipts[h]]
  <2>1. receipts[h] \in {"confirmed", "failed"}
    BY <1>2 DEF StoreInv, StoreTypeOK
  <2>2. /\ settled \in Record /\ settled.user = transactions[h].user
        /\ settled.version = transactions[h].version /\ settled.status = receipts[h]
    BY <1>2, <2>1 DEF Record
  <2>3. transactions' = IF transactions[h].version = loops[n].version
                          THEN [transactions EXCEPT ![h] = settled] ELSE transactions
    BY <1>2 DEF WriteOutcome, StoreInv, StoreTypeOK
  <2> HIDE DEF settled
  <2> QED
    BY <2>1, <2>2, <2>3
<1>4. \A g \in Hashes :
         /\ g # h => transactions'[g] = transactions[g]
         /\ transactions'[g] # NoRecord <=> transactions[g] # NoRecord
         /\ transactions'[g] # NoRecord =>
               /\ transactions'[g].user = transactions[g].user
               /\ transactions'[g].version = transactions[g].version
               /\ Pending(g)' => Pending(g)
  <2> TAKE g \in Hashes
  <2>1. CASE g = h
    BY <1>2, <1>3, <2>1 DEF StoreInv, StoreTypeOK, Pending
  <2>2. CASE g # h
    BY <1>3, <2>2 DEF StoreInv, StoreTypeOK, Pending
  <2> QED
    BY <2>1, <2>2
<1>5. StoreTypeOK'
  BY <1>1, <1>3 DEF StoreInv, StoreTypeOK
<1>6. Recorded' = Recorded
  BY <1>4 DEF Recorded
<1>7. \A m \in 1 .. MaxSubmissions : loops'[m] # NoLoop => m # n /\ loops'[m] = loops[m]
  BY <1>1 DEF StoreInv, StoreTypeOK
<1>8. LoopsFollow'
  BY <1>1, <1>4, <1>6, <1>7 DEF StoreInv, LoopsFollow, LoopFollows, Recorded
<1>9. \A g \in Recorded : transactions[g].version \in 1 .. MaxSubmissions
  BY DEF StoreInv, StoreTypeOK, Recorded, Record
<1>10. LastLoopIsOwn'
  BY <1>1, <1>4, <1>6, <1>7, <1>9 DEF StoreInv, LastLoopIsOwn, Recorded
<1>11. RestartForgetsNothing'
  BY <1>1, <1>4 DEF StoreInv, RestartForgetsNothing
<1>12. PendingIsPolled'
  <2> SUFFICES ASSUME NEW g \in Hashes, Pending(g)'
               PROVE  g \in orphaned' \/ loops'[transactions'[g].version] # NoLoop
    BY DEF PendingIsPolled
  <2>1. g \in Recorded /\ Pending(g) /\ transactions'[g].version = transactions[g].version
    BY <1>4 DEF Pending, Recorded
  <2>2. g \in orphaned \/ loops[transactions[g].version] # NoLoop
    BY <2>1 DEF StoreInv, PendingIsPolled
  <2>3. transactions[g].version # n
    <3>1. SUFFICES ASSUME transactions[g].version = n PROVE FALSE
      OBVIOUS
    <3>2. g = h
      BY <1>1, <2>1, <3>1 DEF StoreInv, LastLoopIsOwn
    <3>3. loops[n].version = transactions[h].version
      BY <1>1, <1>2, <3>1, <3>2 DEF LoopFollows, Poll
    <3> QED
      BY <1>2, <1>3, <3>2, <3>3 DEF Pending, StoreInv, StoreTypeOK
  <2> QED
    BY <1>1, <1>9, <2>1, <2>2, <2>3 DEF StoreInv, StoreTypeOK
<1> QED
  BY <1>5, <1>6, <1>8, <1>10, <1>11, <1>12 DEF StoreInv

LEMMA MinedKeepsInv ==
  ASSUME StoreInv, NEW h \in Hashes, NEW status \in {"confirmed", "failed"}, Mined(h, status)
  PROVE  StoreInv'
BY DEF Mined, StoreInv, StoreTypeOK, Recorded, LoopsFollow, LoopFollows, LastLoopIsOwn,
       RestartForgetsNothing, PendingIsPolled, Pending

\* A restart from the file as it is, or from one that is torn.
LEMMA LoadKeepsInv ==
  ASSUME StoreInv, NEW file \in {disk, Torn}, loadFromDisk(file)
  PROVE  StoreInv'
<1> USE StoreAssumption, NoneIsNone
<1>1. transactions' \in {transactions, NoTransactions}
  BY DEF loadFromDisk, StoreInv, RestartForgetsNothing
<1>2. Recorded' \in {Recorded, {}}
  BY <1>1 DEF Recorded, NoTransactions
<1>3. IsFiniteSet(Recorded')
  BY <1>2, FS_EmptySet DEF StoreInv
<1> DEFINE Own(u) == {h \in Hashes : transactions'[h] # NoRecord /\ transactions'[h].user = u}
<1>4. \A u \in Submitters :
         SetToSeq(Own(u)) \in Seq(Hashes) /\ ToSet(SetToSeq(Own(u))) = Own(u)
  <2> TAKE u \in Submitters
  <2>1. Own(u) \subseteq Recorded' /\ Own(u) \subseteq Hashes
    BY DEF Recorded
  <2>2. IsFiniteSet(Own(u))
    BY <1>3, <2>1, FS_Subset
  <2>3. SetToSeq(Own(u)) \in Seq(Own(u)) /\ ToSet(SetToSeq(Own(u))) = Own(u)
    BY <2>2, SetToSeqLists
  <2> QED
    BY <2>1, <2>3
<1>5. userIndex' = [u \in Submitters |-> SetToSeq(Own(u))]
  BY DEF loadFromDisk, RebuildIndex
<1>6. /\ disk' = file /\ loops' = NoLoops
      /\ orphaned' = {h \in Hashes : transactions'[h] # NoRecord}
      /\ UNCHANGED <<submissions, receipts>>
      /\ disk' # Torn => disk' = transactions'
  BY DEF loadFromDisk
<1> HIDE DEF Own
<1>7. StoreTypeOK'
  BY <1>1, <1>4, <1>5, <1>6 DEF StoreInv, StoreTypeOK, NoTransactions, NoLoops
<1>8. LoopsFollow'
  BY <1>6 DEF LoopsFollow, NoLoops
<1>9. LastLoopIsOwn'
  BY <1>1, <1>6 DEF StoreInv, StoreTypeOK, LastLoopIsOwn, Recorded, Record, NoLoops, NoTransactions
<1>10. RestartForgetsNothing'
  <2> SUFFICES ASSUME NEW h \in Hashes, transactions'[h] # NoRecord
               PROVE  h \in ToSet(userIndex'[transactions'[h].user])
    BY <1>6 DEF RestartForgetsNothing
  <2>1. transactions'[h].user \in Submitters
    BY <1>7 DEF StoreTypeOK, Record
  <2> QED
    BY <1>4, <1>5, <2>1 DEF Own
<1>11. PendingIsPolled'
  BY <1>6 DEF PendingIsPolled, Pending
<1> QED
  BY <1>3, <1>7, <1>8, <1>9, <1>10, <1>11 DEF StoreInv

\* A step of the provider or of the reads.
LEMMA ElsewhereKeepsStoreInv ==
  ASSUME StoreInv, UNCHANGED storeVars
  PROVE  StoreInv'
BY DEF storeVars, StoreInv, StoreTypeOK, Recorded, LoopsFollow, LoopFollows, LastLoopIsOwn,
       RestartForgetsNothing, PendingIsPolled, Pending

-----------------------------------------------------------------------------
(* The provider behaves in the backend as it is specified alone            *)

LEMMA SubmissionIsProviderStep ==
  ASSUME StoreTypeOK, SubmissionStep
  PROVE  [ProviderNext]_providerVars
<1>1. ASSUME NEW n \in DOMAIN loops, PollAnswered(n) \/ PollFails(n)
      PROVE  loops[n].call \in Calls
  BY <1>1 DEF StoreTypeOK, Poll, PollAnswered, PollFails, Asks
<1>2. ASSUME NEW n \in DOMAIN loops, PollAnswered(n) PROVE ProviderNext
  BY <1>1, <1>2 DEF PollAnswered, ProviderNext
<1>3. ASSUME NEW n \in DOMAIN loops, PollFails(n) PROVE ProviderNext
  BY <1>1, <1>3 DEF PollFails, ProviderNext
<1>4. ASSUME NEW n \in DOMAIN loops, NEW c \in Calls, Ask(n, c) PROVE ProviderNext
  BY <1>4 DEF Ask, ProviderNext
<1>5. ASSUME Restart \/ RestartWhileSaving \/ ProviderTick PROVE ProviderNext
  BY <1>5 DEF Restart, RestartWhileSaving, loadFromDisk, ProviderNext
<1>6. ASSUME NEW h \in Hashes, NEW u \in Submitters, submitTransaction(h, u)
      PROVE  UNCHANGED providerVars
  BY <1>6 DEF submitTransaction
<1>7. ASSUME NEW h \in Hashes, NEW status \in {"confirmed", "failed"}, Mined(h, status)
      PROVE  UNCHANGED providerVars
  BY <1>7 DEF Mined
<1>8. ASSUME NEW n \in DOMAIN loops, FindSettled(n) PROVE UNCHANGED providerVars
  BY <1>8 DEF FindSettled
<1> QED
  BY <1>2, <1>3, <1>4, <1>5, <1>6, <1>7, <1>8 DEF SubmissionStep

LEMMA ReadIsProviderStep ==
  ASSUME NEW k \in Keys, ReadStep(k)
  PROVE  [ProviderNext]_providerVars
<1>1. ASSUME NEW r \in Readers, NEW c \in Calls, StartRequest(r, k, c) PROVE ProviderNext
  BY <1>1 DEF StartRequest, ProviderNext
<1>2. ASSUME NEW c \in Calls, RequestServed(c) \/ RequestFails(c) \/ LookupFails(c)
      PROVE  ProviderNext
  BY <1>2 DEF RequestServed, RequestFails, LookupFails, ProviderNext
<1>3. ASSUME ReadsTick \/ ReadsRestart PROVE ProviderNext
  BY <1>3 DEF ReadsTick, ReadsRestart, ProviderNext
<1>4. ASSUME NEW r \in Readers, ReadCached(r, k) \/ JoinRequest(r, k)
      PROVE  UNCHANGED providerVars
  BY <1>4 DEF ReadCached, JoinRequest
<1>5. ASSUME LookupTimesOut(k) PROVE UNCHANGED providerVars
  BY <1>5 DEF LookupTimesOut
<1>6. ASSUME NEW v \in Values, Vote(k, v) PROVE UNCHANGED providerVars
  BY <1>6 DEF Vote
<1> QED
  BY <1>1, <1>2, <1>3, <1>4, <1>5, <1>6 DEF ReadStep

LEMMA BackendIsProviderStep ==
  ASSUME StoreTypeOK, [BackendNext]_backendVars
  PROVE  [ProviderNext]_providerVars
<1>1. ASSUME ProviderStep PROVE ProviderNext
  BY <1>1 DEF ProviderStep, OtherCallEnds, ProviderNext
<1> QED
  BY <1>1, ReadIsProviderStep, SubmissionIsProviderStep DEF BackendNext, backendVars

-----------------------------------------------------------------------------
(* The invariant of the store, in every behaviour of the backend           *)

LEMMA BackendKeepsStoreInv ==
  ASSUME StoreInv, [BackendNext]_backendVars
  PROVE  StoreInv'
<1>1. DOMAIN loops = 1 .. MaxSubmissions
  BY DEF StoreInv, StoreTypeOK
<1>2. ASSUME SubmissionStep PROVE StoreInv'
  <2>1. ASSUME NEW n \in DOMAIN loops, PollAnswered(n) PROVE StoreInv'
    BY <1>1, <2>1, KeepPollingKeepsInv, OutcomeKeepsInv DEF PollAnswered, Asks
  <2>2. ASSUME NEW n \in DOMAIN loops, PollFails(n) PROVE StoreInv'
    BY <1>1, <2>2, KeepPollingKeepsInv DEF PollFails, Asks
  <2>3. ASSUME NEW n \in DOMAIN loops, FindSettled(n) PROVE StoreInv'
    BY <1>1, <2>3, SettledKeepsInv
  <2>4. ASSUME NEW n \in DOMAIN loops, NEW c \in Calls, Ask(n, c) PROVE StoreInv'
    BY <1>1, <2>4, AskKeepsInv
  <2>5. ASSUME Restart \/ RestartWhileSaving PROVE StoreInv'
    BY <2>5, LoadKeepsInv DEF Restart, RestartWhileSaving
  <2> QED
    BY <1>2, <2>1, <2>2, <2>3, <2>4, <2>5, SubmissionKeepsInv, MinedKeepsInv,
       ElsewhereKeepsStoreInv DEF SubmissionStep
<1>3. ASSUME ~SubmissionStep PROVE UNCHANGED storeVars
  BY <1>3 DEF BackendNext, backendVars, ProviderStep, ReadStep
<1> QED
  BY <1>2, <1>3, ElsewhereKeepsStoreInv

THEOREM StoreInvariant == BackendSpec => []StoreInv
<1>1. BackendInit => StoreInv
  BY StoreInitInv DEF BackendInit
<1>2. StoreInv /\ [BackendNext]_backendVars => StoreInv'
  BY BackendKeepsStoreInv
<1> QED
  BY <1>1, <1>2, PTL DEF BackendSpec

\* For any transactions, users and limits, and whatever becomes of the calls of the polls:
\* but for a torn write a restart forgets nothing, and a user's history stays complete.
THEOREM ARestartForgetsNothing == BackendSpec => []RestartForgetsNothing
<1>1. StoreInv => RestartForgetsNothing
  BY DEF StoreInv
<1> QED
  BY <1>1, StoreInvariant, PTL

\* A pending transaction is polled until its attempts are used up or the process stops.
THEOREM ThePendingIsPolled == BackendSpec => []PendingIsPolled
<1>1. StoreInv => PendingIsPolled
  BY DEF StoreInv
<1> QED
  BY <1>1, StoreInvariant, PTL

\* The reads and the polls use the provider as its specification lets anybody use it.
THEOREM ProviderIsUsed == BackendSpec => ProviderSpec
<1>1. BackendInit => ProviderInit
  BY DEF BackendInit
<1>2. StoreInv => StoreTypeOK
  BY DEF StoreInv
<1>3. StoreTypeOK /\ [BackendNext]_backendVars => [ProviderNext]_providerVars
  BY BackendIsProviderStep
<1> QED
  BY <1>1, <1>2, <1>3, StoreInvariant, PTL DEF BackendSpec, ProviderSpec

\* So what holds of the provider alone holds of it in the backend.
THEOREM ProviderPromisesHold == BackendSpec => [](PrimaryReturns /\ FailsOnlyWithoutFallback)
BY ProviderIsUsed, ThePrimaryReturns, FailureMeansNoFallback, PTL

-----------------------------------------------------------------------------
(* Reads                                                                   *)

Entry == [value : Values \cup {Empty}, left : Nat]

\* Every variable of the reads holds a value of its type.
ReadsTypeOK ==
    /\ onChain \in [Keys -> Values]
    /\ cache \in [Keys -> Entry \cup {NoEntry}]
    /\ inFlight \in [Keys -> Calls \cup {NoCall}]
    /\ lookupAge \in [Keys -> 0 .. LookupTimeout]
    /\ wants \in [Readers -> Keys \cup {NoKey}]
    /\ answer \in [value : Values \cup {Empty, Failed}, age : Nat]
    /\ lastSeen \in [Keys -> [Values -> 0 .. Ttl]]
    /\ settledFor \in 0 .. Blindness + 1

\* A request in flight has a call under way to itself, and readers await such requests.
RequestsAreOwn ==
    /\ \A k \in Keys : inFlight[k] # NoCall => UnderWay(inFlight[k])
    /\ \A j, k \in Keys : inFlight[j] = inFlight[k] /\ inFlight[k] # NoCall => j = k
    /\ \A r \in Readers : wants[r] # NoKey => inFlight[wants[r]] # NoCall

\* What an entry holds was true no longer ago than the part of its TTL that has passed,
\* and one that holds no adapter ends in time after an outage.
EntriesAreTimely ==
    \A k \in Keys : getCached(k) =>
        /\ cache[k].value \in Values => lastSeen[k][cache[k].value] + cache[k].left <= Ttl
        /\ cache[k].value = Empty => cache[k].left <= EmptyTtl
        /\ cache[k].value = Empty /\ goodFor = LongGood => settledFor + cache[k].left <= Blindness

\* Call c has met an endpoint that is not well, and may end without an answer.
Unwell(c) == stage[c] = "fallbacks" \/ Primary \in missed[c]

\* A lookup that met an outage started before its end.
LookupIsTimely(k) ==
    /\ stage[inFlight[k]] = "primary" => waited[inFlight[k]] = lookupAge[k]
    /\ Unwell(inFlight[k]) /\ goodFor = LongGood => settledFor <= lookupAge[k]

LookupsAreTimely == \A k \in AdapterKeys : inFlight[k] # NoCall => LookupIsTimely(k)

TheTrueIsSeen == \A k \in Keys : lastSeen[k][onChain[k]] = 0

ReadsInv ==
    /\ ReadsTypeOK /\ RequestsAreOwn /\ TheTrueIsSeen
    /\ EntriesAreTimely /\ LookupsAreTimely /\ AnswersAreRecent

\* Before the first read, and in behaviours about other work.
NothingRead ==
    /\ cache = [k \in Keys |-> NoEntry] /\ inFlight = [k \in Keys |-> NoCall]
    /\ wants = [r \in Readers |-> NoKey] /\ answer = NoAnswer

LEMMA NoEntryIsNone == NoEntry \notin Entry
BY ReadsAssumption DEF Entry

\* The invariant holds when the process starts for the first time.
LEMMA ReadsInitInv == ReadsInit => ReadsInv /\ NothingRead
<1> SUFFICES ASSUME ReadsInit PROVE ReadsInv /\ NothingRead
  OBVIOUS
<1> USE ReadsAssumption DEF ReadsInit
<1>1. NothingRead
  BY DEF NothingRead
<1>2. ReadsTypeOK
  BY DEF ReadsTypeOK, NoAnswer, Blindness
<1>3. RequestsAreOwn /\ TheTrueIsSeen
  BY DEF RequestsAreOwn, TheTrueIsSeen
<1>4. EntriesAreTimely /\ LookupsAreTimely
  BY DEF EntriesAreTimely, LookupsAreTimely, getCached
<1>5. AnswersAreRecent
  BY DEF AnswersAreRecent, NoAnswer, Empty, Failed
<1> QED
  BY <1>1, <1>2, <1>3, <1>4, <1>5 DEF ReadsInv

\* A step of the provider that leaves the calls of requests under way, and shows a call an
\* outage only while the primary is not well.
LEMMA CallsGoOn ==
  ASSUME ReadsInv, UNCHANGED readsVars, goodFor' = LongGood => goodFor = LongGood,
         \A c \in Calls : (\E k \in Keys : inFlight[k] = c) =>
             /\ stage'[c] \in {"primary", "fallbacks"}
             /\ stage'[c] = "primary" => stage[c] = "primary" /\ waited'[c] = waited[c]
             /\ Unwell(c)' /\ goodFor' = LongGood => Unwell(c)
  PROVE  ReadsInv'
<1> USE ReadsAssumption
<1>0. \A k \in Keys : inFlight[k] # NoCall => inFlight[k] \in Calls
  BY DEF ReadsInv, ReadsTypeOK
<1>1. ReadsTypeOK' /\ TheTrueIsSeen' /\ AnswersAreRecent'
  BY DEF ReadsInv, ReadsTypeOK, TheTrueIsSeen, AnswersAreRecent, readsVars
<1>2. RequestsAreOwn'
  BY <1>0 DEF ReadsInv, RequestsAreOwn, readsVars, UnderWay
<1>3. EntriesAreTimely'
  BY DEF ReadsInv, EntriesAreTimely, getCached, readsVars
<1>4. LookupsAreTimely'
  BY <1>0 DEF ReadsInv, LookupsAreTimely, LookupIsTimely, readsVars, Unwell
<1> QED
  BY <1>1, <1>2, <1>3, <1>4 DEF ReadsInv

LEMMA ProviderStepKeepsReadsInv ==
  ASSUME ProviderInv, ReadsInv, ProviderStep
  PROVE  ReadsInv'
<1> USE ProviderAssumption, ReadsAssumption
<1>1. UNCHANGED readsVars
  BY DEF ProviderStep
<1>2. \A c \in Calls : (\E k \in Keys : inFlight[k] = c) => UnderWay(c)
  BY DEF ReadsInv, ReadsTypeOK, RequestsAreOwn
<1>3. goodFor \in 0 .. LongGood /\ LongGood \in Nat \ {0}
  BY DEF ProviderInv, ProviderTypeOK, LongGood
<1>4. CASE EndpointStep
  <2>1. PICK e \in Endpoints : GoesDown(e) \/ ComesUp(e)
    BY <1>4 DEF EndpointStep
  <2>2. CASE GoesDown(e)
    <3>1. goodFor' = LongGood => goodFor = LongGood /\ e # Primary
      BY <1>3, <2>2 DEF GoesDown
    <3>2. \A c \in Calls : UnderWay(c) => UnderWay(c)' /\ stage'[c] = stage[c]
             /\ waited'[c] = waited[c] /\ missed'[c] = missed[c] \cup {e}
      BY <2>2 DEF GoesDown, UnderWay
    <3> QED
      BY <1>1, <1>2, <3>1, <3>2, CallsGoOn DEF Unwell, UnderWay
  <2>3. CASE ComesUp(e)
    BY <1>1, <1>2, <2>3, CallsGoOn DEF ComesUp, callVars, Unwell, UnderWay
  <2> QED
    BY <2>1, <2>2, <2>3
<1>5. ASSUME NEW c \in Calls, MovesOn(c) PROVE ReadsInv'
  <2>1. CASE PrimaryFails(c)
    <3>1. goodFor' = LongGood => goodFor = LongGood
      BY <1>3, <2>1 DEF PrimaryFails
    <3>2. goodFor' = LongGood => Unwell(c)
      BY <1>3, <2>1 DEF PrimaryFails, Fails, Unwell, ProviderInv, ProviderTypeOK, DownIsNoticed
    <3>3. \A d \in Calls : d # c => stage'[d] = stage[d] /\ waited'[d] = waited[d]
                                    /\ missed'[d] = missed[d]
      BY <2>1 DEF PrimaryFails, ProviderInv, ProviderTypeOK
    <3>4. stage'[c] = "fallbacks"
      BY <2>1 DEF PrimaryFails, ProviderInv, ProviderTypeOK
    <3> QED
      BY <1>1, <1>2, <3>1, <3>2, <3>3, <3>4, CallsGoOn DEF Unwell, UnderWay
  <2>2. ASSUME NEW f \in Fallbacks, FallbackFails(c, f), stage'[c] # "failed" PROVE ReadsInv'
    <3>1. stage' = stage /\ waited' = waited /\ missed' = missed /\ goodFor' = goodFor
      BY <2>2 DEF FallbackFails, endpointVars, ProviderInv, ProviderTypeOK
    <3> QED
      BY <1>1, <1>2, <3>1, CallsGoOn DEF Unwell, UnderWay
  <2> QED
    BY <1>5, <2>1, <2>2 DEF MovesOn
<1>6. ASSUME NEW c \in Calls, OtherCallEnds(c) PROVE ReadsInv'
  <2>1. \A k \in Keys : inFlight[k] # c
    BY <1>6 DEF OtherCallEnds, Awaited
  <2>2. /\ goodFor' = goodFor
        /\ \A d \in Calls : d # c => stage'[d] = stage[d] /\ waited'[d] = waited[d]
                                     /\ missed'[d] = missed[d]
    BY <1>6 DEF OtherCallEnds, Served, Exhausted, PrimaryAnswers, FallbackAnswers,
       FallbackFails, Succeed, endpointVars, ProviderInv, ProviderTypeOK
  <2> QED
    BY <1>1, <1>2, <2>1, <2>2, CallsGoOn DEF Unwell, UnderWay
<1> QED
  BY <1>4, <1>5, <1>6 DEF ProviderStep

LEMMA CachedKeepsInv ==
  ASSUME ReadsInv, NEW r \in Readers, NEW k \in Keys, ReadCached(r, k)
  PROVE  ReadsInv'
<1> USE ReadsAssumption DEF Empty, Failed
<1>1. /\ UNCHANGED <<onChain, cache, inFlight, lookupAge, wants, lastSeen, settledFor>>
      /\ UNCHANGED providerVars
      /\ answer' = [value |-> cache[k].value, age |-> Age(k, cache[k].value)]
      /\ getCached(k)
  BY DEF ReadCached, KeepEntry
<1>2. cache[k].value \in Values \cup {Empty} /\ cache[k].left \in Nat \ {0}
  BY <1>1 DEF ReadsInv, ReadsTypeOK, getCached, Entry
<1>3. CASE cache[k].value \in Values
  <2>1. Age(k, cache[k].value) = lastSeen[k][cache[k].value]
    BY <1>3 DEF Age
  <2>2. lastSeen[k][cache[k].value] \in Nat /\ lastSeen[k][cache[k].value] < Ttl
    <3>1. lastSeen[k] \in [Values -> 0 .. Ttl]
      BY DEF ReadsInv, ReadsTypeOK
    <3>2. lastSeen[k][cache[k].value] + cache[k].left <= Ttl
      BY <1>1, <1>3 DEF ReadsInv, EntriesAreTimely
    <3> QED
      BY <1>2, <1>3, <3>1, <3>2
  <2> QED
    BY <1>1, <1>3, <2>1, <2>2 DEF ReadsInv, ReadsTypeOK, RequestsAreOwn, TheTrueIsSeen,
       EntriesAreTimely, LookupsAreTimely, LookupIsTimely, AnswersAreRecent, getCached,
       UnderWay, Unwell, providerVars, endpointVars, callVars
<1>4. CASE cache[k].value = Empty
  <2>1. Age(k, Empty) = IF goodFor = LongGood THEN settledFor ELSE 0
    BY DEF Age
  <2>2. Age(k, Empty) \in Nat /\ Age(k, Empty) <= Blindness
    BY <1>1, <1>2, <1>4, <2>1 DEF ReadsInv, ReadsTypeOK, EntriesAreTimely, Blindness
  <2> QED
    BY <1>1, <1>4, <2>2 DEF ReadsInv, ReadsTypeOK, RequestsAreOwn, TheTrueIsSeen,
       EntriesAreTimely, LookupsAreTimely, LookupIsTimely, AnswersAreRecent, getCached,
       UnderWay, Unwell, providerVars, endpointVars, callVars
<1> QED
  BY <1>2, <1>3, <1>4

LEMMA JoinKeepsInv ==
  ASSUME ReadsInv, NEW r \in Readers, NEW k \in Keys, JoinRequest(r, k)
  PROVE  ReadsInv'
BY DEF JoinRequest, ReadsInv, ReadsTypeOK, RequestsAreOwn, TheTrueIsSeen, EntriesAreTimely,
   LookupsAreTimely, LookupIsTimely, AnswersAreRecent, getCached, UnderWay, Unwell,
   providerVars, endpointVars, callVars

LEMMA StartKeepsInv ==
  ASSUME ProviderInv, PrimaryReturns, ReadsInv,
         NEW r \in Readers, NEW k \in Keys, NEW c \in Calls, StartRequest(r, k, c)
  PROVE  ReadsInv'
<1> USE ReadsAssumption, ProviderAssumption
<1>1. /\ UNCHANGED <<onChain, answer, lastSeen, settledFor, goodFor>>
      /\ cache' = [cache EXCEPT ![k] = NoEntry]
      /\ inFlight' = [inFlight EXCEPT ![k] = c]
      /\ lookupAge' = [lookupAge EXCEPT ![k] = 0]
      /\ wants' = [wants EXCEPT ![r] = k]
      /\ ~UnderWay(c)
  BY DEF StartRequest, failoverSend, endpointVars
<1>2. /\ stage'[c] \in {"primary", "fallbacks"} /\ waited'[c] = 0
      /\ goodFor = LongGood => ~Unwell(c)'
  <2>1. /\ stage'[c] = IF isRpcSick THEN "fallbacks" ELSE "primary"
        /\ waited'[c] = 0 /\ missed'[c] = Endpoints \ up
    BY DEF StartRequest, failoverSend, ProviderInv, ProviderTypeOK
  <2>2. goodFor = LongGood => ~isRpcSick /\ Primary \in up
    BY DEF PrimaryReturns, ProviderInv, ProviderTypeOK, DownIsNoticed, LongGood
  <2> QED
    BY <2>1, <2>2 DEF Unwell
<1>3. \A d \in Calls : d # c =>
         stage'[d] = stage[d] /\ waited'[d] = waited[d] /\ missed'[d] = missed[d]
  BY DEF StartRequest, failoverSend, ProviderInv, ProviderTypeOK
<1>4. \A j \in Keys : inFlight[j] # c
  BY <1>1 DEF ReadsInv, ReadsTypeOK, RequestsAreOwn
<1>5. ReadsTypeOK' /\ TheTrueIsSeen' /\ AnswersAreRecent'
  BY <1>1 DEF ReadsInv, ReadsTypeOK, TheTrueIsSeen, AnswersAreRecent
<1>6. RequestsAreOwn'
  BY <1>1, <1>2, <1>3, <1>4 DEF ReadsInv, ReadsTypeOK, RequestsAreOwn, UnderWay
<1>7. EntriesAreTimely'
  BY <1>1 DEF ReadsInv, ReadsTypeOK, EntriesAreTimely, getCached
<1>8. LookupsAreTimely'
  <2> SUFFICES ASSUME NEW j \in AdapterKeys, inFlight'[j] # NoCall PROVE LookupIsTimely(j)'
    BY DEF LookupsAreTimely
  <2>1. CASE j = k
    BY <1>1, <1>2, <2>1 DEF ReadsInv, ReadsTypeOK, LookupIsTimely
  <2>2. CASE j # k
    BY <1>1, <1>3, <1>4, <2>2 DEF ReadsInv, ReadsTypeOK, LookupsAreTimely, LookupIsTimely, Unwell
  <2> QED
    BY <2>1, <2>2
<1> QED
  BY <1>5, <1>6, <1>7, <1>8 DEF ReadsInv

\* A request for k ends with v, and its call is under way for nobody from then on.
LEMMA SettleKeepsInv ==
  ASSUME ReadsInv, NEW k \in Keys, inFlight[k] # NoCall,
         UNCHANGED <<onChain, lookupAge, lastSeen, settledFor, goodFor>>,
         \A c \in Calls : c # inFlight[k] =>
            stage'[c] = stage[c] /\ waited'[c] = waited[c] /\ missed'[c] = missed[c],
         NEW v \in Values \cup {Empty, Failed}, Settle(k, v),
         v \in Values => v = onChain[k],
         v = Empty /\ goodFor = LongGood => settledFor <= LookupTimeout,
         \/ v = Failed /\ cache' = cache
         \/ v \in Values /\ setCache(k, v, Ttl)
         \/ v = Empty /\ setCache(k, v, EmptyTtl)
  PROVE  ReadsInv'
<1> USE ReadsAssumption DEF Empty, Failed
<1>1. /\ inFlight' = [inFlight EXCEPT ![k] = NoCall]
      /\ wants' = [r \in Readers |-> IF wants[r] = k THEN NoKey ELSE wants[r]]
      /\ answer' = [value |-> v, age |-> Age(k, v)]
  BY DEF Settle, Clear
<1>2. /\ Age(k, v) \in Nat
      /\ v \in Values => Age(k, v) = 0
      /\ v = Empty => Age(k, v) <= LookupTimeout
  BY DEF Age, ReadsInv, ReadsTypeOK, TheTrueIsSeen
<1>3. AnswersAreRecent'
  BY <1>1, <1>2 DEF AnswersAreRecent, Blindness
<1>4. ReadsTypeOK'
  <2>1. cache' \in [Keys -> Entry \cup {NoEntry}]
    BY DEF setCache, ReadsInv, ReadsTypeOK, Entry
  <2> QED
    BY <1>1, <1>2, <2>1 DEF ReadsInv, ReadsTypeOK
<1>5. \A j \in Keys : inFlight'[j] # NoCall =>
         /\ j # k /\ inFlight'[j] = inFlight[j]
         /\ inFlight[j] \in Calls /\ inFlight[j] # inFlight[k]
  BY <1>1 DEF ReadsInv, ReadsTypeOK, RequestsAreOwn
<1>6. RequestsAreOwn'
  <2>1. \A j \in Keys : inFlight'[j] # NoCall => UnderWay(inFlight[j])'
    BY <1>5 DEF ReadsInv, RequestsAreOwn, UnderWay
  <2>2. \A i, j \in Keys : inFlight'[i] = inFlight'[j] /\ inFlight'[j] # NoCall => i = j
    BY <1>5 DEF ReadsInv, RequestsAreOwn
  <2>3. \A r \in Readers : wants'[r] # NoKey => inFlight'[wants'[r]] # NoCall
    BY <1>1 DEF ReadsInv, ReadsTypeOK, RequestsAreOwn
  <2> QED
    BY <2>1, <2>2, <2>3 DEF RequestsAreOwn
<1>7. TheTrueIsSeen'
  BY DEF ReadsInv, TheTrueIsSeen
<1>8. EntriesAreTimely'
  <2> SUFFICES ASSUME NEW j \in Keys, getCached(j)'
               PROVE  /\ cache'[j].value \in Values =>
                            lastSeen[j][cache'[j].value] + cache'[j].left <= Ttl
                      /\ cache'[j].value = Empty => cache'[j].left <= EmptyTtl
                      /\ cache'[j].value = Empty /\ goodFor = LongGood =>
                            settledFor + cache'[j].left <= Blindness
    BY DEF EntriesAreTimely
  <2>1. CASE cache'[j] = cache[j]
    BY <2>1 DEF ReadsInv, EntriesAreTimely, getCached
  <2>2. CASE j = k /\ v \in Values /\ cache'[j] = [value |-> v, left |-> Ttl]
    <3>1. lastSeen[k][v] = 0
      BY <2>2 DEF ReadsInv, TheTrueIsSeen
    <3> QED
      BY <2>2, <3>1
  <2>3. CASE j = k /\ v = Empty /\ cache'[j] = [value |-> v, left |-> EmptyTtl]
    BY <2>3 DEF Blindness, ReadsInv, ReadsTypeOK
  <2> QED
    BY <2>1, <2>2, <2>3 DEF setCache, ReadsInv, ReadsTypeOK
<1>9. LookupsAreTimely'
  BY <1>5 DEF ReadsInv, LookupsAreTimely, LookupIsTimely, Unwell
<1> QED
  BY <1>3, <1>4, <1>6, <1>7, <1>8, <1>9 DEF ReadsInv

\* What the end of call c leaves as it is.
LEMMA CallEnds ==
  ASSUME ProviderInv, NEW c \in Calls, Served(c) \/ Exhausted(c)
  PROVE  /\ goodFor' = goodFor
         /\ \A d \in Calls : d # c =>
               stage'[d] = stage[d] /\ waited'[d] = waited[d] /\ missed'[d] = missed[d]
         /\ Exhausted(c) => stage[c] = "fallbacks"
BY DEF Served, Exhausted, PrimaryAnswers, FallbackAnswers, FallbackFails, Succeed,
   endpointVars, ProviderInv, ProviderTypeOK

LEMMA ServedKeepsInv ==
  ASSUME ProviderInv, ReadsInv, NEW c \in Calls, RequestServed(c)
  PROVE  ReadsInv'
<1> USE ReadsAssumption DEF Empty, Failed
<1>1. PICK k \in Keys : /\ inFlight[k] = c /\ Served(c) /\ Settle(k, onChain[k])
                        /\ setCache(k, onChain[k], Ttl)
                        /\ UNCHANGED <<onChain, lookupAge, lastSeen, settledFor>>
  BY DEF RequestServed, Asked
<1>2. onChain[k] \in Values
  BY DEF ReadsInv, ReadsTypeOK
<1> QED
  BY <1>1, <1>2, CallEnds, SettleKeepsInv

LEMMA FailureKeepsInv ==
  ASSUME ProviderInv, ReadsInv, NEW c \in Calls, RequestFails(c)
  PROVE  ReadsInv'
<1> USE ReadsAssumption DEF Empty, Failed
<1>1. PICK k \in Keys : /\ inFlight[k] = c /\ Exhausted(c) /\ Settle(k, Failed)
                        /\ UNCHANGED <<onChain, cache, lookupAge, lastSeen, settledFor>>
  BY DEF RequestFails, Asked
<1> QED
  BY <1>1, CallEnds, SettleKeepsInv

LEMMA LookupFailureKeepsInv ==
  ASSUME ProviderInv, ReadsInv, NEW c \in Calls, LookupFails(c)
  PROVE  ReadsInv'
<1> USE ReadsAssumption DEF Empty, Failed
<1>1. PICK k \in AdapterKeys : /\ inFlight[k] = c /\ Exhausted(c) /\ Settle(k, Empty)
                               /\ setCache(k, Empty, EmptyTtl)
                               /\ UNCHANGED <<onChain, lookupAge, lastSeen, settledFor>>
  BY DEF LookupFails, Asked, Hide, NoAdapter
<1>2. goodFor = LongGood => settledFor <= LookupTimeout
  <2>1. Unwell(c)
    BY <1>1, CallEnds DEF Unwell
  <2>2. goodFor = LongGood => settledFor <= lookupAge[k]
    BY <1>1, <2>1 DEF ReadsInv, LookupsAreTimely, LookupIsTimely
  <2> QED
    BY <2>2 DEF ReadsInv, ReadsTypeOK
<1> QED
  BY <1>1, <1>2, CallEnds, SettleKeepsInv

LEMMA TimeOutKeepsInv ==
  ASSUME ProviderInv, ReadsInv, NEW k \in Keys, LookupTimesOut(k)
  PROVE  ReadsInv'
<1> USE ReadsAssumption, ProviderAssumption DEF Empty, Failed
<1>1. /\ k \in AdapterKeys /\ inFlight[k] # NoCall /\ lookupAge[k] = LookupTimeout
      /\ ~SurelyAnswered(inFlight[k])
      /\ Settle(k, Empty) /\ setCache(k, Empty, EmptyTtl)
      /\ UNCHANGED <<onChain, lookupAge, lastSeen, settledFor>>
      /\ UNCHANGED <<goodFor, stage, waited, missed>>
  BY DEF LookupTimesOut, Hide, NoAdapter, providerVars, endpointVars, callVars
<1>2. goodFor = LongGood => settledFor <= LookupTimeout
  <2> DEFINE c == inFlight[k]
  <2>1. c \in Calls /\ UnderWay(c) /\ LookupIsTimely(k) /\ waited[c] \in 0 .. Timeout
    BY <1>1 DEF ReadsInv, ReadsTypeOK, RequestsAreOwn, LookupsAreTimely, ProviderInv,
       ProviderTypeOK
  <2>2. CASE Unwell(c)
    BY <1>1, <2>1, <2>2 DEF LookupIsTimely
  <2>3. CASE ~Unwell(c)
    <3>1. stage[c] = "primary" /\ Primary \notin missed[c]
      BY <2>1, <2>3 DEF Unwell, UnderWay
    <3>2. waited[c] = Timeout
      BY <1>1, <2>1, <3>1 DEF LookupIsTimely
    <3> QED
      BY <1>1, <3>1, <3>2 DEF SurelyAnswered
  <2> QED
    BY <2>2, <2>3
<1> QED
  BY <1>1, <1>2, SettleKeepsInv

LEMMA VoteKeepsInv ==
  ASSUME ReadsInv, NEW k \in Keys, NEW v \in Values, Vote(k, v)
  PROVE  ReadsInv'
<1> USE ReadsAssumption
<1>1. /\ UNCHANGED <<cache, inFlight, lookupAge, wants, answer, settledFor>>
      /\ UNCHANGED <<goodFor, stage, waited, missed>>
      /\ onChain' = [onChain EXCEPT ![k] = v]
      /\ lastSeen' = [lastSeen EXCEPT ![k][v] = 0]
  BY DEF Vote, providerVars, endpointVars, callVars
<1>2. \A j \in Keys, w \in Values :
         lastSeen'[j][w] = IF j = k /\ w = v THEN 0 ELSE lastSeen[j][w]
  BY <1>1 DEF ReadsInv, ReadsTypeOK
<1>3. lastSeen' \in [Keys -> [Values -> 0 .. Ttl]]
  BY <1>1 DEF ReadsInv, ReadsTypeOK
<1>4. ReadsTypeOK' /\ TheTrueIsSeen'
  BY <1>1, <1>2, <1>3 DEF ReadsInv, ReadsTypeOK, TheTrueIsSeen
<1>5. RequestsAreOwn' /\ LookupsAreTimely' /\ AnswersAreRecent'
  BY <1>1 DEF ReadsInv, RequestsAreOwn, LookupsAreTimely, LookupIsTimely, AnswersAreRecent,
     UnderWay, Unwell
<1>6. EntriesAreTimely'
  <2> SUFFICES ASSUME NEW j \in Keys, getCached(j), cache[j].value \in Values
               PROVE  lastSeen'[j][cache[j].value] + cache[j].left <= Ttl
    BY <1>1 DEF ReadsInv, EntriesAreTimely, getCached
  <2>1. lastSeen[j][cache[j].value] + cache[j].left <= Ttl
    BY DEF ReadsInv, EntriesAreTimely
  <2>2. lastSeen[j][cache[j].value] \in 0 .. Ttl /\ cache[j].left \in Nat
    BY DEF ReadsInv, ReadsTypeOK, getCached, Entry
  <2> QED
    BY <1>2, <2>1, <2>2
<1> QED
  BY <1>4, <1>5, <1>6 DEF ReadsInv

LEMMA ReadsTickKeepsInv ==
  ASSUME ProviderInv, ReadsInv, ReadsTick
  PROVE  ReadsInv'
<1> USE ReadsAssumption, ProviderAssumption
<1>1. /\ UNCHANGED <<onChain, inFlight, wants, answer, stage, missed>>
      /\ cache' = [k \in Keys |->
            IF getCached(k) THEN [cache[k] EXCEPT !.left = @ - 1] ELSE cache[k]]
      /\ \A k \in AdapterKeys : inFlight[k] # NoCall => lookupAge[k] < LookupTimeout
      /\ lookupAge' = [k \in Keys |->
            IF k \in AdapterKeys /\ inFlight[k] # NoCall THEN lookupAge[k] + 1 ELSE 0]
      /\ lastSeen' = [k \in Keys |-> [v \in Values |->
            IF v = onChain[k] THEN 0
            ELSE IF lastSeen[k][v] < Ttl THEN lastSeen[k][v] + 1 ELSE Ttl]]
      /\ waited' = [c \in Calls |-> IF UnderWay(c) THEN waited[c] + 1 ELSE waited[c]]
  BY DEF ReadsTick, ProviderTick
<1>2. /\ settledFor' \in 0 .. Blindness + 1 /\ settledFor' <= settledFor + 1
      /\ goodFor < LongGood => settledFor' = 0
  BY DEF ReadsTick, ReadsInv, ReadsTypeOK, Blindness, ProviderInv, ProviderTypeOK, LongGood
<1>3. goodFor' = LongGood => goodFor = LongGood \/ settledFor' = 0
  BY <1>2 DEF ReadsTick, ProviderTick, ProviderInv, ProviderTypeOK, LongGood
<1>4. \A k \in Keys : getCached(k) =>
         /\ cache'[k].value = cache[k].value /\ cache'[k].left = cache[k].left - 1
         /\ cache'[k] \in Entry
  <2> SUFFICES ASSUME NEW k \in Keys, getCached(k)
               PROVE  LET e == [cache[k] EXCEPT !.left = @ - 1] IN
                      e.value = cache[k].value /\ e.left = cache[k].left - 1 /\ e \in Entry
    BY <1>1
  <2>1. cache[k] \in Entry /\ cache[k].left > 0
    BY DEF getCached, ReadsInv, ReadsTypeOK
  <2> QED
    BY <2>1 DEF Entry
<1>5. \A k \in Keys : ~getCached(k) => cache'[k] = cache[k]
  BY <1>1
<1>6. cache' \in [Keys -> Entry \cup {NoEntry}]
  BY <1>1, <1>4, <1>5 DEF ReadsInv, ReadsTypeOK
<1>7. ReadsTypeOK' /\ TheTrueIsSeen' /\ AnswersAreRecent'
  BY <1>1, <1>2, <1>6 DEF ReadsInv, ReadsTypeOK, TheTrueIsSeen, AnswersAreRecent
<1>8. RequestsAreOwn'
  BY <1>1 DEF ReadsInv, RequestsAreOwn, UnderWay
<1>9. EntriesAreTimely'
  <2> SUFFICES ASSUME NEW k \in Keys, getCached(k)'
               PROVE  /\ cache'[k].value \in Values =>
                            lastSeen'[k][cache'[k].value] + cache'[k].left <= Ttl
                      /\ cache'[k].value = Empty => cache'[k].left <= EmptyTtl
                      /\ cache'[k].value = Empty /\ goodFor' = LongGood =>
                            settledFor' + cache'[k].left <= Blindness
    BY DEF EntriesAreTimely
  <2>1. getCached(k)
    BY <1>5 DEF getCached
  <2>2. cache[k].left \in Nat /\ cache'[k].value = cache[k].value
        /\ cache'[k].left = cache[k].left - 1
    BY <1>4, <2>1 DEF getCached, ReadsInv, ReadsTypeOK, Entry
  <2>3. ASSUME cache[k].value \in Values
        PROVE  lastSeen'[k][cache[k].value] + cache'[k].left <= Ttl
    <3>1. lastSeen[k][cache[k].value] \in 0 .. Ttl
      BY <2>3 DEF ReadsInv, ReadsTypeOK
    <3>2. lastSeen[k][cache[k].value] + cache[k].left <= Ttl
      BY <2>1, <2>3 DEF ReadsInv, EntriesAreTimely
    <3>3. lastSeen'[k][cache[k].value] \in {0, lastSeen[k][cache[k].value] + 1}
      BY <1>1, <2>2, <2>3, <3>1, <3>2, <2>1 DEF getCached
    <3> QED
      BY <2>2, <3>1, <3>2, <3>3
  <2>4. ASSUME cache[k].value = Empty
        PROVE  /\ cache'[k].left <= EmptyTtl
               /\ goodFor' = LongGood => settledFor' + cache'[k].left <= Blindness
    <3>1. /\ cache[k].left <= EmptyTtl
          /\ goodFor = LongGood => settledFor + cache[k].left <= Blindness
      BY <2>1, <2>4 DEF ReadsInv, EntriesAreTimely
    <3> QED
      BY <1>2, <1>3, <2>2, <3>1 DEF Blindness, ReadsInv, ReadsTypeOK
  <2> QED
    BY <2>2, <2>3, <2>4
<1>10. LookupsAreTimely'
  <2> SUFFICES ASSUME NEW k \in AdapterKeys, inFlight[k] # NoCall PROVE LookupIsTimely(k)'
    BY <1>1 DEF LookupsAreTimely
  <2>1. lookupAge'[k] = lookupAge[k] + 1 /\ lookupAge[k] \in Nat
    BY <1>1 DEF ReadsInv, ReadsTypeOK
  <2>2. inFlight[k] \in Calls /\ UnderWay(inFlight[k]) /\ LookupIsTimely(k)
    BY DEF ReadsInv, ReadsTypeOK, RequestsAreOwn, LookupsAreTimely
  <2>3. waited'[inFlight[k]] = waited[inFlight[k]] + 1
    BY <1>1, <2>2
  <2> QED
    BY <1>1, <1>2, <1>3, <2>1, <2>2, <2>3 DEF LookupIsTimely, Unwell, ReadsInv, ReadsTypeOK
<1> QED
  BY <1>7, <1>8, <1>9, <1>10 DEF ReadsInv

LEMMA ReadsRestartKeepsInv ==
  ASSUME ReadsInv, ReadsRestart
  PROVE  ReadsInv'
<1> USE ReadsAssumption DEF ReadsRestart, ReadsInv
<1>1. ReadsTypeOK' /\ RequestsAreOwn' /\ TheTrueIsSeen'
  BY DEF ReadsTypeOK, RequestsAreOwn, TheTrueIsSeen, NoAnswer
<1>2. EntriesAreTimely' /\ LookupsAreTimely' /\ AnswersAreRecent'
  BY DEF EntriesAreTimely, LookupsAreTimely, AnswersAreRecent, getCached, NoAnswer, Empty, Failed
<1> QED
  BY <1>1, <1>2

\* Where nothing was read, the provider may do what it likes.
LEMMA NothingReadKeepsInv ==
  ASSUME ReadsInv, NothingRead, UNCHANGED readsVars
  PROVE  ReadsInv' /\ NothingRead'
<1>1. NothingRead'
  BY DEF NothingRead, readsVars
<1>2. ReadsTypeOK' /\ RequestsAreOwn' /\ TheTrueIsSeen' /\ AnswersAreRecent'
  BY DEF NothingRead, readsVars, ReadsInv, ReadsTypeOK, RequestsAreOwn, TheTrueIsSeen,
     AnswersAreRecent
<1>3. EntriesAreTimely' /\ LookupsAreTimely'
  BY ReadsAssumption DEF NothingRead, readsVars, EntriesAreTimely, LookupsAreTimely, getCached
<1> QED
  BY <1>1, <1>2, <1>3 DEF ReadsInv

WorkOK == work \in Keys \cup {"calls", "submissions", "requests"}

BackendReadsInv == WorkOK /\ ReadsInv /\ (work \notin Keys => NothingRead)

LEMMA BackendKeepsReadsInv ==
  ASSUME ProviderInv, PrimaryReturns, BackendReadsInv, [BackendNext]_backendVars
  PROVE  BackendReadsInv'
<1> USE BackendAssumption
<1>1. work' = work /\ WorkOK'
  BY DEF BackendNext, backendVars, BackendReadsInv, WorkOK
<1>2. CASE work \notin Keys
  <2>1. UNCHANGED readsVars
    BY <1>2 DEF BackendNext, backendVars, ProviderStep, SubmissionStep
  <2> QED
    BY <1>1, <1>2, <2>1, NothingReadKeepsInv DEF BackendReadsInv
<1>3. CASE work \in Keys
  <2>1. ASSUME ReadStep(work) PROVE ReadsInv'
    BY <1>3, <2>1, CachedKeepsInv, JoinKeepsInv, StartKeepsInv, ServedKeepsInv,
       FailureKeepsInv, LookupFailureKeepsInv, TimeOutKeepsInv, VoteKeepsInv,
       ReadsTickKeepsInv, ReadsRestartKeepsInv DEF BackendReadsInv, ReadStep
  <2>2. ASSUME UNCHANGED <<providerVars, readsVars>> PROVE ReadsInv'
    <3>1. UNCHANGED <<readsVars, goodFor, stage, waited, missed>>
      BY <2>2 DEF providerVars, endpointVars, callVars
    <3>2. ReadsInv /\ \A c \in Calls : (\E k \in Keys : inFlight[k] = c) => UnderWay(c)
      BY ReadsAssumption DEF BackendReadsInv, ReadsInv, ReadsTypeOK, RequestsAreOwn
    <3> QED
      BY <3>1, <3>2, CallsGoOn DEF Unwell, UnderWay
  <2> QED
    BY <1>1, <1>3, <2>1, <2>2, ProviderStepKeepsReadsInv
       DEF BackendNext, backendVars, BackendReadsInv
<1> QED
  BY <1>2, <1>3

THEOREM ReadsInvariant == BackendSpec => []BackendReadsInv
<1>1. BackendInit => BackendReadsInv
  BY ReadsInitInv DEF BackendInit, BackendReadsInv, WorkOK
<1>2. ProviderInv /\ PrimaryReturns /\ BackendReadsInv /\ [BackendNext]_backendVars
         => BackendReadsInv'
  BY BackendKeepsReadsInv
<1> QED
  BY <1>1, <1>2, ProviderIsUsed, ProviderInvariant, ThePrimaryReturns, PTL DEF BackendSpec

\* For any readers, keys, calls and endpoints and every choice of the times: a value read
\* was on the chain less than the TTL ago, and an outage hides nothing for longer than a
\* lookup and EMPTY_TTL_MS after the provider is over it.
THEOREM AnswersStayRecent == BackendSpec => []AnswersAreRecent
<1>1. BackendReadsInv => AnswersAreRecent
  BY DEF BackendReadsInv, ReadsInv
<1> QED
  BY <1>1, ReadsInvariant, PTL

\* Every reader awaits a request whose call is under way.
THEOREM EveryReaderIsServed == BackendSpec => []ReadersAreServed
<1>1. BackendReadsInv => ReadersAreServed
  BY DEF BackendReadsInv, ReadsInv, ReadsTypeOK, RequestsAreOwn, ReadersAreServed
<1> QED
  BY <1>1, ReadsInvariant, PTL

-----------------------------------------------------------------------------
(* The smallest counterexample                                             *)

LEMMA SmallestSubset ==
  ASSUME NEW S, IsFiniteSet(S), NEW T, T \subseteq SUBSET S, T # {}
  PROVE  \E s \in T : \A r \in T : r \subseteq s => r = s
<1>1. T \subseteq FiniteSubsetsOf(S)
  BY FS_FiniteSubsetsOfFinite
<1>2. \E s \in T : \A r \in T : ~(<<r, s>> \in StrictSubsetOrdering(S))
  BY <1>1, FS_StrictSubsetOrderingWellFounded, WFMin
<1> QED
  BY <1>2 DEF StrictSubsetOrdering

LEMMA SmallestNumber ==
  ASSUME NEW T, T \subseteq Nat, T # {}
  PROVE  \E m \in T : \A n \in T : m <= n
<1> DEFINE less == OpToRel(<, Nat)
<1>1. IsWellFoundedOn(less, Nat)
  BY NatLessThanWellFounded, Zenon
<1>2. \A n, m \in Nat : n < m => <<n, m>> \in less
  BY DEF OpToRel
<1> HIDE DEF less
<1>3. PICK m \in T : \A n \in T : ~(<<n, m>> \in less)
  BY <1>1, WFMin, Zenon
<1>4. ASSUME NEW n \in T PROVE m <= n
  <2>1. m \in Nat /\ n \in Nat /\ ~(n < m)
    BY <1>2, <1>3
  <2> QED
    BY <2>1
<1> QED
  BY <1>4

-----------------------------------------------------------------------------
(* Sums                                                                    *)

Pick(s) == CHOOSE x \in s : TRUE

PartOf(f, g, s) == IF s = {} THEN 0 ELSE f[Pick(s)] + g[s \ {Pick(s)}]

LEMMA Picked == \A s : s # {} => Pick(s) \in s
BY DEF Pick

\* The sums of f over the subsets of S, as SumFunction computes them.
Sums(f, S) == CHOOSE g : g = [s \in SUBSET S |-> PartOf(f, g, s)]

LEMMA SumFunctionIsSum == ASSUME NEW f PROVE SumFunction(f) = Sums(f, DOMAIN f)[DOMAIN f]
BY DEF SumFunction, SumFunctionOnSet, FoldFunctionOnSet, MapThenFoldSet, Sums, PartOf, Pick

LEMMA SumsAreDefined ==
  ASSUME NEW S, IsFiniteSet(S), NEW f
  PROVE  Sums(f, S) = [s \in SUBSET S |-> PartOf(f, Sums(f, S), s)]
<1> DEFINE Level(n) == {s \in SUBSET S : Cardinality(s) <= n}
           Defined(n) == \E g : g = [s \in Level(n) |-> PartOf(f, g, s)]
           Bad == {n \in Nat : ~Defined(n)}
<1>1. \A s \in SUBSET S : IsFiniteSet(s) /\ Cardinality(s) \in Nat
  BY FS_Subset, FS_CardinalityType
<1>2. Defined(0)
  <2> DEFINE z == [s \in Level(0) |-> 0]
  <2>1. \A s \in Level(0) : s = {}
    BY <1>1, FS_EmptySet
  <2>2. z = [s \in Level(0) |-> PartOf(f, z, s)]
    BY <2>1 DEF PartOf
  <2> QED
    BY <2>2
<1>3. ASSUME NEW m \in Nat \ {0}, Defined(m - 1) PROVE Defined(m)
  <2>1. PICK g : g = [s \in Level(m - 1) |-> PartOf(f, g, s)]
    BY <1>3
  <2> DEFINE h == [s \in Level(m) |-> PartOf(f, g, s)]
  <2>2. ASSUME NEW s \in Level(m) PROVE PartOf(f, g, s) = PartOf(f, h, s)
    <3>1. CASE s = {}
      BY <3>1 DEF PartOf
    <3>2. CASE s # {}
      <4> DEFINE r == s \ {Pick(s)}
      <4>1. Cardinality(r) = Cardinality(s) - 1
        BY <1>1, <3>2, Picked, FS_RemoveElement
      <4>2. r \in Level(m - 1) /\ r \in Level(m)
        BY <1>1, <4>1
      <4>3. g[r] = PartOf(f, g, r) /\ h[r] = PartOf(f, g, r)
        BY <2>1, <4>2
      <4> QED
        BY <3>2, <4>3 DEF PartOf
    <3> QED
      BY <3>1, <3>2
  <2>3. h = [s \in Level(m) |-> PartOf(f, h, s)]
    BY <2>2
  <2> HIDE DEF h
  <2> QED
    BY <2>3
<1> HIDE DEF Defined
<1>4. Bad = {}
  <2> SUFFICES ASSUME Bad # {} PROVE FALSE
    OBVIOUS
  <2>1. Bad \subseteq Nat
    OBVIOUS
  <2>2. \E m \in Bad : \A n \in Bad : m <= n
    BY <2>1, SmallestNumber
  <2>3. PICK m \in Bad : \A n \in Bad : m <= n
    BY <2>2
  <2>4. m # 0 /\ m - 1 \in Nat /\ m - 1 \notin Bad
    BY <1>2, <2>3
  <2> QED
    BY <1>3, <2>3, <2>4
<1>5. Cardinality(S) \in Nat /\ Level(Cardinality(S)) = SUBSET S
  BY <1>1, FS_Subset, FS_CardinalityType
<1>6. Defined(Cardinality(S))
  BY <1>4, <1>5
<1>7. \E g : g = [s \in SUBSET S |-> PartOf(f, g, s)]
  BY <1>5, <1>6 DEF Defined
<1> QED
  BY <1>7 DEF Sums

\* A sum does not depend on the order of its parts.
LEMMA SumOfPart ==
  ASSUME NEW S, IsFiniteSet(S), NEW f \in [S -> Nat]
  PROVE  /\ Sums(f, S)[{}] = 0
         /\ \A s \in SUBSET S : Sums(f, S)[s] \in Nat
         /\ \A s \in SUBSET S : \A x \in s : Sums(f, S)[s] = f[x] + Sums(f, S)[s \ {x}]
<1> DEFINE g == Sums(f, S)
           Good(s) == g[s] \in Nat /\ \A x \in s : g[s] = f[x] + g[s \ {x}]
           Bad == {s \in SUBSET S : ~Good(s)}
<1>1. \A s \in SUBSET S : g[s] = PartOf(f, g, s)
  <2>1. g = [s \in SUBSET S |-> PartOf(f, g, s)]
    BY SumsAreDefined
  <2> HIDE DEF g
  <2> QED
    BY <2>1
<1> HIDE DEF g
<1>2. g[{}] = 0
  BY <1>1 DEF PartOf
<1>3. ASSUME NEW s \in SUBSET S, \A r \in SUBSET s : r # s => Good(r)
      PROVE  Good(s)
  <2>1. CASE s = {}
    BY <1>2, <2>1
  <2>2. CASE s # {}
    <3> DEFINE y == Pick(s)
    <3>1. y \in s /\ f[y] \in Nat
      BY <2>2, Picked
    <3>2. g[s] = f[y] + g[s \ {y}]
      BY <1>1, <2>2 DEF PartOf
    <3> HIDE DEF y
    <3>3. g[s \ {y}] \in Nat
      BY <1>3, <3>1
    <3>4. ASSUME NEW x \in s, x # y PROVE g[s] = f[x] + g[s \ {x}]
      <4> DEFINE rest == s \ {x, y}
      <4>1. rest = (s \ {y}) \ {x} /\ rest = (s \ {x}) \ {y} /\ f[x] \in Nat
        OBVIOUS
      <4>2. Good(s \ {y}) /\ x \in s \ {y}
        BY <1>3, <3>1, <3>4
      <4>3. Good(s \ {x}) /\ y \in s \ {x} /\ Good(rest)
        BY <1>3, <3>1, <3>4
      <4>4. g[s \ {y}] = f[x] + g[rest]
        BY <4>1, <4>2
      <4>5. g[s \ {x}] = f[y] + g[rest] /\ g[rest] \in Nat
        BY <4>1, <4>3
      <4> QED
        BY <3>1, <3>2, <4>1, <4>4, <4>5
    <3>5. g[s] \in Nat /\ g[s] = f[y] + g[s \ {y}]
      BY <3>1, <3>2, <3>3
    <3> QED
      BY <3>4, <3>5
  <2> QED
    BY <2>1, <2>2
<1> HIDE DEF Good
<1>4. Bad = {}
  <2> SUFFICES ASSUME Bad # {} PROVE FALSE
    OBVIOUS
  <2>1. PICK s \in Bad : \A r \in Bad : r \subseteq s => r = s
    <3>1. Bad \subseteq SUBSET S
      OBVIOUS
    <3> HIDE DEF Bad
    <3>2. \E s \in Bad : \A r \in Bad : r \subseteq s => r = s
      BY <3>1, SmallestSubset
    <3> QED
      BY <3>2
  <2> QED
    BY <1>3, <2>1
<1>5. \A s \in SUBSET S : Good(s)
  BY <1>4
<1> QED
  BY <1>2, <1>5 DEF Good, g

\* P holds the running sums of f over 0 .. w.
IsRunning(P, f, w) ==
    /\ P \in [0 .. w -> Nat] /\ P[0] = f[0]
    /\ \A n \in 1 .. w : P[n] = P[n - 1] + f[n]

Running(f, w) == [n \in 0 .. w |-> Sums(f, 0 .. w)[0 .. n]]

\* SumFunction is the last of the running sums.
LEMMA SumIsRunning ==
  ASSUME NEW w \in Nat, NEW f \in [0 .. w -> Nat]
  PROVE  IsRunning(Running(f, w), f, w) /\ SumFunction(f) = Running(f, w)[w]
<1> DEFINE g == Sums(f, 0 .. w)
<1>1. IsFiniteSet(0 .. w)
  BY FS_Interval
<1>2. /\ g[{}] = 0
      /\ \A s \in SUBSET (0 .. w) : g[s] \in Nat
      /\ \A s \in SUBSET (0 .. w) : \A x \in s : g[s] = f[x] + g[s \ {x}]
  BY <1>1, SumOfPart
<1>3. SumFunction(f) = g[0 .. w]
  BY SumFunctionIsSum
<1> HIDE DEF g
<1>4. Running(f, w) = [n \in 0 .. w |-> g[0 .. n]]
  BY DEF Running, g
<1>5. \A n \in 0 .. w : 0 .. n \in SUBSET (0 .. w) /\ g[0 .. n] \in Nat
  BY <1>2
<1>6. g[0 .. 0] = f[0]
  <2>1. (0 .. 0) \ {0} = {} /\ 0 .. 0 \in SUBSET (0 .. w) /\ 0 \in 0 .. 0
    OBVIOUS
  <2>2. \A x \in 0 .. 0 : g[0 .. 0] = f[x] + g[(0 .. 0) \ {x}]
    BY <1>2, <2>1
  <2>3. f[0] \in Nat
    OBVIOUS
  <2>4. g[0 .. 0] = f[0] + g[(0 .. 0) \ {0}]
    BY <2>2
  <2>5. g[(0 .. 0) \ {0}] = 0
    BY <1>2, <2>1, Zenon
  <2> QED
    BY <2>3, <2>4, <2>5
<1>7. \A n \in 1 .. w : g[0 .. n] = g[0 .. n - 1] + f[n]
  <2> TAKE n \in 1 .. w
  <2>1. (0 .. n) \ {n} = 0 .. n - 1 /\ 0 .. n \in SUBSET (0 .. w) /\ n \in 0 .. n
    OBVIOUS
  <2>2. f[n] \in Nat /\ g[0 .. n - 1] \in Nat
    BY <1>5
  <2>3. \A x \in 0 .. n : g[0 .. n] = f[x] + g[(0 .. n) \ {x}]
    BY <1>2, <2>1
  <2>4. g[0 .. n] = f[n] + g[(0 .. n) \ {n}]
    BY <2>1, <2>3, Zenon
  <2>5. g[0 .. n] = f[n] + g[0 .. n - 1]
    BY <2>1, <2>4, Zenon
  <2> QED
    BY <2>2, <2>5
<1> QED
  BY <1>3, <1>4, <1>5, <1>6, <1>7 DEF IsRunning

OneMore(f, h, w) == \A n \in 0 .. w : h[n] = IF n = 0 THEN f[0] + 1 ELSE f[n]
Shifted(f, h, w) == h[0] = 0 /\ \A n \in 1 .. w : h[n] = f[n - 1]
AllOneMore(P, Q, w) == \A n \in 0 .. w : Q[n] = P[n] + 1
AllZero(h, w) == \A n \in 0 .. w : h[n] = 0

\* One more at 0 is one more in every running sum.
LEMMA RunningAfterPass ==
  ASSUME NEW w \in Nat, NEW f \in [0 .. w -> Nat], NEW h, NEW P, NEW Q,
         IsRunning(P, f, w), IsRunning(Q, h, w), OneMore(f, h, w)
  PROVE  AllOneMore(P, Q, w)
<1> DEFINE Bad == {n \in 0 .. w : Q[n] # P[n] + 1}
<1>1. Q[0] = P[0] + 1 /\ P[0] \in Nat
  BY DEF IsRunning, OneMore, Shifted
<1>2. \A n \in 1 .. w : /\ Q[n] = Q[n - 1] + f[n] /\ P[n] = P[n - 1] + f[n]
                        /\ f[n] \in Nat /\ P[n - 1] \in Nat
  BY DEF IsRunning, OneMore, Shifted
<1>3. ASSUME NEW n \in 0 .. w, \A m \in Bad : n <= m PROVE n \notin Bad
  <2>1. CASE n = 0
    BY <1>1, <2>1
  <2>2. CASE n # 0
    <3>1. n - 1 \in 0 .. w /\ n \in 1 .. w /\ n - 1 \notin Bad
      BY <1>3, <2>2
    <3> QED
      BY <1>2, <3>1
  <2> QED
    BY <2>1, <2>2
<1>4. Bad \subseteq Nat /\ Bad \subseteq 0 .. w
  OBVIOUS
<1> HIDE DEF Bad
<1>5. Bad = {}
  BY <1>3, <1>4, SmallestNumber
<1> QED
  BY <1>5 DEF Bad, AllOneMore

\* After a shift by one, a running sum is the one before it.
LEMMA RunningAfterTick ==
  ASSUME NEW w \in Nat, NEW f \in [0 .. w -> Nat], NEW h, NEW P, NEW Q,
         IsRunning(P, f, w), IsRunning(Q, h, w), Shifted(f, h, w)
  PROVE  Shifted(P, Q, w)
<1> DEFINE Bad == {n \in 1 .. w : Q[n] # P[n - 1]}
<1>1. Q[0] = 0 /\ P[0] = f[0] /\ P[0] \in Nat
  BY DEF IsRunning, OneMore, Shifted
<1>2. \A n \in 1 .. w : Q[n] = Q[n - 1] + f[n - 1] /\ P[n] = P[n - 1] + f[n]
  BY DEF IsRunning, OneMore, Shifted
<1>3. ASSUME NEW n \in 1 .. w, \A m \in Bad : n <= m PROVE n \notin Bad
  <2>1. CASE n = 1
    BY <1>1, <1>2, <2>1
  <2>2. CASE n # 1
    <3>1. n - 1 \in 1 .. w /\ n - 1 \notin Bad
      BY <1>3, <2>2
    <3> QED
      BY <1>2, <3>1
  <2> QED
    BY <2>1, <2>2
<1>4. Bad \subseteq Nat /\ Bad \subseteq 1 .. w
  OBVIOUS
<1> HIDE DEF Bad
<1>5. Bad = {}
  BY <1>3, <1>4, SmallestNumber
<1> QED
  BY <1>1, <1>5 DEF Bad, Shifted

\* Running sums never decrease.
LEMMA RunningIncreases ==
  ASSUME NEW w \in Nat, NEW f \in [0 .. w -> Nat], NEW P, IsRunning(P, f, w)
  PROVE  \A n \in 0 .. w : P[n] <= P[w]
<1> DEFINE Bad == {d \in 0 .. w : ~(P[w - d] <= P[w])}
<1>1. \A n \in 0 .. w : P[n] \in Nat
  BY DEF IsRunning
<1>2. \A n \in 1 .. w : P[n] = P[n - 1] + f[n] /\ f[n] \in Nat
  BY DEF IsRunning
<1>3. ASSUME NEW d \in 0 .. w, \A m \in Bad : d <= m PROVE d \notin Bad
  <2>1. CASE d = 0
    BY <1>1, <2>1
  <2>2. CASE d # 0
    <3>1. d - 1 \in 0 .. w /\ d - 1 \notin Bad /\ w - d + 1 \in 1 .. w
      BY <1>3, <2>2
    <3>2. P[w - d + 1] <= P[w] /\ P[w - d + 1] = P[w - d] + f[w - d + 1]
      BY <1>2, <3>1
    <3> QED
      BY <1>1, <1>2, <3>1, <3>2
  <2> QED
    BY <2>1, <2>2
<1>4. Bad \subseteq Nat /\ Bad \subseteq 0 .. w
  OBVIOUS
<1> HIDE DEF Bad
<1>5. Bad = {}
  BY <1>3, <1>4, SmallestNumber
<1>6. \A n \in 0 .. w : w - n \in 0 .. w /\ w - (w - n) = n
  OBVIOUS
<1> QED
  BY <1>5, <1>6 DEF Bad

LEMMA RunningZero ==
  ASSUME NEW w \in Nat, NEW h, NEW P, IsRunning(P, h, w), AllZero(h, w)
  PROVE  P[w] = 0
<1> DEFINE Bad == {n \in 0 .. w : P[n] # 0}
<1>1. P[0] = 0 /\ \A n \in 1 .. w : P[n] = P[n - 1] + 0
  <2>1. 0 \in 0 .. w /\ \A n \in 1 .. w : n \in 0 .. w
    OBVIOUS
  <2> QED
    BY <2>1 DEF IsRunning, AllZero
<1>2. ASSUME NEW n \in 0 .. w, \A m \in Bad : n <= m PROVE n \notin Bad
  <2>1. CASE n # 0
    <3>1. n - 1 \in 0 .. w /\ n \in 1 .. w /\ n - 1 \notin Bad
      BY <1>2, <2>1
    <3> QED
      BY <1>1, <3>1
  <2> QED
    BY <1>1, <2>1
<1>3. Bad \subseteq Nat /\ Bad \subseteq 0 .. w
  OBVIOUS
<1> HIDE DEF Bad
<1>4. Bad = {}
  BY <1>2, <1>3, SmallestNumber
<1> QED
  BY <1>4 DEF Bad

-----------------------------------------------------------------------------
(* What a tier knows of a key                                              *)

Counts(t) == [count : 1 .. MaxOf[t] + 1, left : 0 .. WindowOf[t]]

Passes(t) == [0 .. WindowOf[t] -> Nat]

\* With running sums P of what tier t let pass: while a window is open its count is what
\* passed since it opened, and what passed before that, in the length of a window, came in
\* one earlier window.
Tallies(t, e, P) ==
    LET w == WindowOf[t] IN
    IF e = NoCount THEN P[0] = 0 /\ P[w] <= MaxOf[t]
    ELSE /\ P[w - e.left] = IF e.count <= MaxOf[t] THEN e.count ELSE MaxOf[t]
         /\ P[w] <= MaxOf[t] + P[w - e.left]

RunningOf(t, f) == Running(f, WindowOf[t])

LEMMA RunningOfIs ==
  ASSUME NEW t \in Tiers, NEW f \in Passes(t)
  PROVE  /\ WindowOf[t] \in Nat
         /\ IsRunning(RunningOf(t, f), f, WindowOf[t])
         /\ SumFunction(f) = RunningOf(t, f)[WindowOf[t]]
BY LimiterAssumption, SumIsRunning DEF RunningOf, Passes

LEMMA EntryIsCount ==
  ASSUME NEW t \in Tiers, NEW e \in Counts(t) \cup {NoCount}
  PROVE  /\ EntryAfter(t, e) \in Counts(t) /\ EntryAfter(t, e) # NoCount
         /\ e = NoCount => EntryAfter(t, e) = [count |-> 1, left |-> WindowOf[t]]
         /\ e # NoCount =>
               /\ EntryAfter(t, e).left = e.left
               /\ EntryAfter(t, e).count = IF e.count > MaxOf[t] THEN e.count ELSE e.count + 1
<1> USE LimiterAssumption
<1>1. NoCount \notin Counts(t)
  BY DEF Counts
<1>2. CASE e = NoCount
  BY <1>1, <1>2 DEF EntryAfter, Counts
<1>3. CASE e # NoCount
  <2> DEFINE c == IF e.count > MaxOf[t] THEN e.count ELSE e.count + 1
  <2>1. EntryAfter(t, e) = [e EXCEPT !.count = c] /\ e \in Counts(t)
    BY <1>3 DEF EntryAfter
  <2>2. c \in 1 .. MaxOf[t] + 1
    BY <2>1 DEF Counts
  <2> HIDE DEF c
  <2>3. [e EXCEPT !.count = c] \in Counts(t) /\ [e EXCEPT !.count = c].count = c
        /\ [e EXCEPT !.count = c].left = e.left
    BY <2>1, <2>2 DEF Counts
  <2> QED
    BY <1>1, <1>3, <2>1, <2>3 DEF c
<1> QED
  BY <1>2, <1>3

LEMMA TalliesAfterPass ==
  ASSUME NEW t \in Tiers, NEW e \in Counts(t) \cup {NoCount}, NEW f \in Passes(t),
         Tallies(t, e, RunningOf(t, f)), Allows(t, e)
  PROVE  Tallies(t, EntryAfter(t, e), RunningOf(t, [f EXCEPT ![0] = @ + 1]))
<1> USE LimiterAssumption
<1> DEFINE w == WindowOf[t]
           P == RunningOf(t, f)
           Q == RunningOf(t, [f EXCEPT ![0] = @ + 1])
           d == EntryAfter(t, e)
<1>1. w \in Nat /\ MaxOf[t] \in Nat \ {0} /\ 0 \in 0 .. w
  OBVIOUS
<1>2. [f EXCEPT ![0] = @ + 1] \in Passes(t)
  BY <1>1 DEF Passes
<1>3. IsRunning(P, f, w) /\ IsRunning(Q, [f EXCEPT ![0] = @ + 1], w)
  BY <1>2, RunningOfIs
<1>4. \A n \in 0 .. w : Q[n] = P[n] + 1 /\ P[n] \in Nat
  <2>1. \A n \in 0 .. w : Q[n] = P[n] + 1
    <3> DEFINE h == [f EXCEPT ![0] = @ + 1]
    <3>1. f \in [0 .. w -> Nat] /\ IsRunning(P, f, w) /\ IsRunning(Q, h, w)
      BY <1>3 DEF Passes
    <3>2. OneMore(f, h, w)
      BY <3>1 DEF OneMore
    <3> HIDE DEF P, Q, w, h
    <3>3. AllOneMore(P, Q, w)
      BY <1>1, <3>1, <3>2, RunningAfterPass
    <3> QED
      BY <3>3 DEF AllOneMore
  <2> QED
    BY <1>3, <2>1 DEF IsRunning
<1>5. d \in Counts(t) /\ d # NoCount /\ d.count <= MaxOf[t]
  BY EntryIsCount DEF Allows
<1>6. Tallies(t, e, P)
  OBVIOUS
<1> HIDE DEF P, Q, d, w
<1>7. CASE e = NoCount
  <2>1. d.count = 1 /\ d.left = w
    BY <1>7, EntryIsCount DEF d, w
  <2>2. P[0] = 0 /\ P[w] <= MaxOf[t]
    BY <1>6, <1>7 DEF Tallies, w
  <2>3. Q[w - d.left] = 1 /\ Q[w] = P[w] + 1 /\ P[w] \in Nat
    BY <1>1, <1>4, <2>1, <2>2
  <2>4. Tallies(t, d, Q)
    BY <1>1, <1>5, <2>1, <2>2, <2>3 DEF Tallies, w
  <2> QED
    BY <2>4 DEF d, Q
<1>8. CASE e # NoCount
  <2>1. e \in Counts(t) /\ e.count \in Nat /\ e.left \in 0 .. w
    BY <1>8 DEF Counts, w
  <2>2. d.left = e.left /\ d.count = IF e.count > MaxOf[t] THEN e.count ELSE e.count + 1
    BY <1>8, EntryIsCount DEF d
  <2>3. /\ P[w - e.left] = IF e.count <= MaxOf[t] THEN e.count ELSE MaxOf[t]
        /\ P[w] <= MaxOf[t] + P[w - e.left]
    BY <1>6, <1>8 DEF Tallies, w
  <2>4. e.count + 1 <= MaxOf[t] /\ d.count = e.count + 1
    BY <1>1, <1>5, <2>1, <2>2
  <2>5. w - e.left \in 0 .. w /\ w \in 0 .. w
    BY <1>1, <2>1
  <2>6. /\ Q[w - d.left] = d.count /\ Q[w] <= MaxOf[t] + Q[w - d.left]
    BY <1>1, <1>4, <2>1, <2>2, <2>3, <2>4, <2>5
  <2>7. Tallies(t, d, Q)
    BY <1>5, <2>6 DEF Tallies, w
  <2> QED
    BY <2>7 DEF d, Q
<1> QED
  BY <1>7, <1>8

LEMMA TalliesAfterRefusal ==
  ASSUME NEW t \in Tiers, NEW e \in Counts(t) \cup {NoCount}, NEW P,
         Tallies(t, e, P), ~Allows(t, e)
  PROVE  /\ Tallies(t, EntryAfter(t, e), P)
         /\ e # NoCount /\ e.count >= MaxOf[t]
<1> USE LimiterAssumption
<1> DEFINE d == EntryAfter(t, e)
<1>1. MaxOf[t] \in Nat \ {0}
  OBVIOUS
<1>2. d \in Counts(t) /\ d # NoCount /\ d.count > MaxOf[t]
  <2>1. d \in Counts(t) /\ d # NoCount
    BY EntryIsCount
  <2> QED
    BY <1>1, <2>1 DEF Allows, Counts
<1>3. e # NoCount
  BY <1>1, <1>2, EntryIsCount
<1>4. e.count \in Nat /\ d.left = e.left
      /\ d.count = IF e.count > MaxOf[t] THEN e.count ELSE e.count + 1
  BY <1>3, EntryIsCount DEF Counts
<1> HIDE DEF d
<1>5. e.count >= MaxOf[t]
  BY <1>1, <1>2, <1>4
<1>6. Tallies(t, d, P)
  BY <1>1, <1>2, <1>3, <1>4, <1>5 DEF Tallies
<1> QED
  BY <1>3, <1>5, <1>6 DEF d

AfterTick(t, e) == IF e = NoCount \/ e.left = 0 THEN NoCount ELSE [e EXCEPT !.left = @ - 1]

LEMMA TalliesAfterTick ==
  ASSUME NEW t \in Tiers, NEW e \in Counts(t) \cup {NoCount}, NEW f \in Passes(t),
         Tallies(t, e, RunningOf(t, f)),
         NEW h, h = [n \in 0 .. WindowOf[t] |-> IF n = 0 THEN 0 ELSE f[n - 1]]
  PROVE  /\ AfterTick(t, e) \in Counts(t) \cup {NoCount} /\ h \in Passes(t)
         /\ Tallies(t, AfterTick(t, e), RunningOf(t, h))
<1> USE LimiterAssumption
<1> DEFINE w == WindowOf[t]
           P == RunningOf(t, f)
           Q == RunningOf(t, h)
           d == AfterTick(t, e)
<1>1. w \in Nat /\ MaxOf[t] \in Nat \ {0} /\ 0 \in 0 .. w /\ f \in [0 .. w -> Nat]
  BY DEF Passes
<1>2. h \in Passes(t) /\ h = [n \in 0 .. w |-> IF n = 0 THEN 0 ELSE f[n - 1]]
  BY <1>1 DEF Passes
<1>3. IsRunning(P, f, w) /\ IsRunning(Q, h, w)
  BY <1>2, RunningOfIs
<1>4. Tallies(t, e, P)
  OBVIOUS
<1>5. NoCount \notin Counts(t)
  BY DEF Counts
<1> HIDE DEF P, Q, w, d
<1>6. Q[0] = 0 /\ \A n \in 1 .. w : Q[n] = P[n - 1]
  <2>1. Shifted(f, h, w)
    BY <1>1, <1>2 DEF Shifted
  <2>2. Shifted(P, Q, w)
    BY <1>1, <1>3, <2>1, RunningAfterTick
  <2> QED
    BY <2>2 DEF Shifted
<1>7. /\ \A n \in 0 .. w : P[n] \in Nat /\ P[n] <= P[w]
  BY <1>1, <1>3, RunningIncreases DEF IsRunning
<1>8. Q[w] <= P[w] /\ Q[w] \in Nat
  <2>1. CASE w = 0
    BY <1>6, <1>7, <2>1
  <2>2. CASE w # 0
    <3>1. w \in 1 .. w /\ w - 1 \in 0 .. w
      BY <1>1, <2>2
    <3> QED
      BY <1>6, <1>7, <3>1
  <2> QED
    BY <2>1, <2>2
<1>9. CASE e = NoCount \/ e.left = 0
  <2>1. P[w] <= MaxOf[t]
    <3>1. CASE e = NoCount
      BY <1>4, <3>1 DEF Tallies, w
    <3>2. CASE e # NoCount
      <4>1. e.left = 0 /\ e.count \in Nat
        BY <1>9, <3>2 DEF Counts
      <4>2. P[w - e.left] = IF e.count <= MaxOf[t] THEN e.count ELSE MaxOf[t]
        BY <1>4, <3>2 DEF Tallies, w
      <4> QED
        BY <1>1, <4>1, <4>2
    <3> QED
      BY <3>1, <3>2
  <2>2. d = NoCount
    BY <1>9 DEF AfterTick, d
  <2>3. Q[w] <= MaxOf[t]
    BY <1>1, <1>7, <1>8, <2>1
  <2>4. Tallies(t, d, Q) /\ d \in Counts(t) \cup {NoCount}
    BY <1>6, <2>2, <2>3 DEF Tallies, w
  <2> QED
    BY <1>2, <2>4 DEF d, Q
<1>10. CASE e # NoCount /\ e.left # 0
  <2>1. e \in Counts(t) /\ e.count \in 1 .. MaxOf[t] + 1 /\ e.left \in 1 .. w
    BY <1>1, <1>10 DEF Counts, w
  <2>2. d = [e EXCEPT !.left = e.left - 1]
    BY <1>10 DEF AfterTick, d
  <2>3. d \in Counts(t) /\ d.left = e.left - 1 /\ d.count = e.count
    <3> DEFINE l == e.left - 1
    <3>1. l \in 0 .. w
      BY <1>1, <2>1
    <3> HIDE DEF l
    <3>2. LET r == [e EXCEPT !.left = l]
          IN  r \in Counts(t) /\ r.left = l /\ r.count = e.count
      BY <2>1, <3>1 DEF Counts, w
    <3> QED
      BY <2>2, <3>2 DEF l
  <2>4. /\ P[w - e.left] = IF e.count <= MaxOf[t] THEN e.count ELSE MaxOf[t]
        /\ P[w] <= MaxOf[t] + P[w - e.left]
    BY <1>4, <1>10 DEF Tallies, w
  <2>5. Q[w - d.left] = P[w - e.left]
    <3>1. w - d.left \in 1 .. w /\ w - d.left - 1 = w - e.left
      BY <1>1, <2>1, <2>3
    <3> QED
      BY <1>6, <3>1
  <2>6. w - e.left \in 0 .. w /\ w \in 0 .. w
    BY <1>1, <2>1
  <2>7. /\ Q[w - d.left] = IF d.count <= MaxOf[t] THEN d.count ELSE MaxOf[t]
        /\ Q[w] <= MaxOf[t] + Q[w - d.left]
    BY <1>1, <1>7, <1>8, <2>3, <2>4, <2>5, <2>6
  <2>8. Tallies(t, d, Q) /\ d \in Counts(t) \cup {NoCount}
    BY <1>5, <2>3, <2>7 DEF Tallies, w
  <2> QED
    BY <1>2, <2>8 DEF d, Q
<1> QED
  BY <1>9, <1>10

LEMMA TalliesAtFirst ==
  ASSUME NEW t \in Tiers, NEW f, f = [n \in 0 .. WindowOf[t] |-> 0]
  PROVE  f \in Passes(t) /\ Tallies(t, NoCount, RunningOf(t, f))
<1> USE LimiterAssumption
<1> DEFINE w == WindowOf[t]
           P == RunningOf(t, f)
<1>1. w \in Nat /\ f \in Passes(t) /\ MaxOf[t] \in Nat \ {0}
  BY DEF Passes
<1>2. IsRunning(P, f, w) /\ f = [n \in 0 .. w |-> 0]
  BY <1>1, RunningOfIs
<1> HIDE DEF P, w
<1>3. P[w] = 0 /\ P[0] = 0
  <2>1. AllZero(f, w)
    BY <1>2 DEF AllZero
  <2>2. P[w] = 0
    BY <1>1, <1>2, <2>1, RunningZero
  <2> QED
    BY <1>1, <1>2, <2>1, <2>2 DEF IsRunning, AllZero
<1>4. Tallies(t, NoCount, P)
  BY <1>1, <1>3 DEF Tallies, w
<1> QED
  BY <1>1, <1>4 DEF P

-----------------------------------------------------------------------------
(* The limiter                                                             *)

LimiterTypeOK ==
    /\ DOMAIN counts = Tiers /\ DOMAIN passed = Tiers /\ DOMAIN blocked = Tiers
    /\ \A t \in Tiers :
          /\ counts[t] \in [LimitKeys -> Counts(t) \cup {NoCount}]
          /\ passed[t] \in [LimitKeys -> Passes(t)]
          /\ blocked[t] \subseteq LimitKeys

LimiterInv ==
    /\ LimiterTypeOK
    /\ \A t \in Tiers, k \in LimitKeys :
          /\ Tallies(t, counts[t][k], RunningOf(t, passed[t][k]))
          /\ k \in blocked[t] => counts[t][k] # NoCount /\ counts[t][k].count >= MaxOf[t]

LEMMA LimiterInitInv ==
  ASSUME LimiterInit
  PROVE  LimiterInv
<1>1. ASSUME NEW t \in Tiers
      PROVE  /\ counts[t] = [k \in LimitKeys |-> NoCount]
             /\ passed[t] = [k \in LimitKeys |-> [n \in 0 .. WindowOf[t] |-> 0]]
             /\ blocked[t] = {}
  BY DEF LimiterInit, NothingPassed
<1>2. ASSUME NEW t \in Tiers, NEW k \in LimitKeys
      PROVE  /\ passed[t][k] \in Passes(t)
             /\ Tallies(t, counts[t][k], RunningOf(t, passed[t][k]))
  <2>1. counts[t][k] = NoCount /\ passed[t][k] = [n \in 0 .. WindowOf[t] |-> 0]
    BY <1>1
  <2> QED
    BY <2>1, TalliesAtFirst
<1>3. LimiterTypeOK
  BY <1>1, <1>2 DEF LimiterTypeOK, LimiterInit
<1> QED
  BY <1>1, <1>2, <1>3 DEF LimiterInv

LEMMA LimiterStartInv == LimiterRestart => LimiterInv'
<1>1. LimiterRestart => LimiterInit'
  BY DEF LimiterRestart, LimiterInit
<1>2. LimiterInit => LimiterInv
  BY LimiterInitInv
<1> QED
  BY <1>1, <1>2, PTL

LEMMA LimiterTickKeepsInv ==
  ASSUME LimiterInv, LimiterTick
  PROVE  LimiterInv'
<1>1. ASSUME NEW t \in Tiers
      PROVE  /\ counts'[t] = [k \in LimitKeys |-> AfterTick(t, counts[t][k])]
             /\ passed'[t] = [k \in LimitKeys |-> [n \in 0 .. WindowOf[t] |->
                                IF n = 0 THEN 0 ELSE passed[t][k][n - 1]]]
             /\ blocked'[t] = {}
  BY DEF LimiterTick, AfterTick
<1>2. ASSUME NEW t \in Tiers, NEW k \in LimitKeys
      PROVE  /\ counts'[t][k] \in Counts(t) \cup {NoCount} /\ passed'[t][k] \in Passes(t)
             /\ Tallies(t, counts'[t][k], RunningOf(t, passed'[t][k]))
  <2>1. /\ counts'[t][k] = AfterTick(t, counts[t][k])
        /\ passed'[t][k] = [n \in 0 .. WindowOf[t] |-> IF n = 0 THEN 0 ELSE passed[t][k][n - 1]]
    BY <1>1
  <2>2. /\ counts[t][k] \in Counts(t) \cup {NoCount} /\ passed[t][k] \in Passes(t)
        /\ Tallies(t, counts[t][k], RunningOf(t, passed[t][k]))
    BY DEF LimiterInv, LimiterTypeOK
  <2> QED
    BY <2>1, <2>2, TalliesAfterTick
<1>3. LimiterTypeOK'
  BY <1>1, <1>2 DEF LimiterTypeOK, LimiterTick
<1> QED
  BY <1>1, <1>2, <1>3 DEF LimiterInv

\* A request meets some tiers, which let it pass but for the last of them.
LEMMA RequestKeepsInv ==
  ASSUME LimiterInv, NEW i \in Clients, NEW w \in Senders \cup {NoWallet},
         NEW prepare \in BOOLEAN, rateLimiter(i, w, prepare)
  PROVE  LimiterInv'
<1> USE LimiterAssumption
<1> DEFINE met == TiersOf(i, w, prepare)
           Refuses(n) == ~Allows(met[n][1], counts[met[n][1]][met[n][2]])
           refusing == {n \in DOMAIN met : Refuses(n) /\ \A j \in 1 .. n - 1 : ~Refuses(j)}
           Ends(n) == refusing # {} /\ n > Min(refusing)
           Reached(t, k) == \E n \in DOMAIN met : met[n] = <<t, k>> /\ ~Ends(n)
           RefusedBy(t, k) == \E n \in refusing : met[n] = <<t, k>>
<1>1. /\ counts' = [t \in Tiers |-> [k \in LimitKeys |->
            IF Reached(t, k) THEN EntryAfter(t, counts[t][k]) ELSE counts[t][k]]]
      /\ passed' = [t \in Tiers |-> [k \in LimitKeys |->
            IF Reached(t, k) /\ ~RefusedBy(t, k)
              THEN [passed[t][k] EXCEPT ![0] = @ + 1] ELSE passed[t][k]]]
      /\ blocked' = [t \in Tiers |->
            {k \in LimitKeys : RefusedBy(t, k) \/ k \in blocked[t]}]
  BY DEF rateLimiter
<1>2. Len(met) \in Nat /\ DOMAIN met = 1 .. Len(met)
  <2>1. met \in Seq(Tiers \X (LimitKeys \cup {NoWallet}))
    BY DEF TiersOf, Tiers, LimitKeys
  <2> HIDE DEF met
  <2> QED
    BY <2>1
<1> HIDE DEF met
<1>3. ASSUME NEW t \in Tiers, NEW k \in LimitKeys, RefusedBy(t, k)
      PROVE  ~Allows(t, counts[t][k])
  BY <1>3
<1>4. ASSUME NEW t \in Tiers, NEW k \in LimitKeys, Reached(t, k), ~RefusedBy(t, k)
      PROVE  Allows(t, counts[t][k])
  <2>1. PICK n \in DOMAIN met : met[n] = <<t, k>> /\ ~Ends(n)
    BY <1>4
  <2> SUFFICES ASSUME Refuses(n) PROVE FALSE
    BY <2>1
  <2> DEFINE before == {j \in 1 .. n - 1 : Refuses(j)}
  <2>2. n \in Nat /\ n \notin refusing
    <3> HIDE DEF refusing, Refuses, before
    <3>1. n \in Nat
      BY <1>2
    <3>2. n \notin refusing
      BY <1>4, <2>1
    <3> QED
      BY <3>1, <3>2
  <2>3. before # {} /\ before \subseteq Nat
    <3> HIDE DEF Refuses
    <3>1. n \in DOMAIN met /\ Refuses(n)
      BY <2>1
    <3>2. \E j \in 1 .. n - 1 : Refuses(j)
      BY <2>2, <3>1
    <3> QED
      BY <2>2, <3>2
  <2>4. PICK m \in before : \A j \in before : m <= j
    <3> HIDE DEF before
    <3> QED
      BY <2>3, SmallestNumber
  <2>5. m \in refusing /\ m < n /\ m \in Nat
    <3> HIDE DEF Refuses
    <3>1. m \in 1 .. n - 1 /\ Refuses(m) /\ n \in 1 .. Len(met) /\ Len(met) \in Nat
      BY <1>2, <2>4
    <3>2. m \in DOMAIN met /\ m < n /\ m \in Nat
      BY <1>2, <3>1
    <3>3. ASSUME NEW j \in 1 .. m - 1, Refuses(j) PROVE FALSE
      <4>1. j \in before /\ j < m /\ j \in Nat
        BY <3>1, <3>3
      <4> HIDE DEF before
      <4> QED
        BY <2>4, <3>2, <4>1
    <3> QED
      BY <3>1, <3>2, <3>3
  <2>6. \A j \in refusing : m <= j
    BY <1>2, <2>4, <2>5
  <2>7. Min(refusing) \in refusing /\ Min(refusing) <= m
    <3> HIDE DEF refusing
    <3> QED
      BY <2>5, <2>6 DEF Min
  <2>8. refusing \subseteq DOMAIN met
    OBVIOUS
  <2> HIDE DEF refusing, Refuses
  <2>9. Min(refusing) \in Nat
    BY <1>2, <2>7, <2>8
  <2>10. n > Min(refusing)
    <3> HIDE DEF before
    <3> QED
      BY <2>2, <2>5, <2>7, <2>9
  <2>11. refusing # {}
    BY <2>5
  <2> QED
    BY <2>1, <2>10, <2>11
<1> HIDE DEF Reached, RefusedBy
<1>5. ASSUME NEW t \in Tiers, NEW k \in LimitKeys
      PROVE  /\ counts'[t][k] \in Counts(t) \cup {NoCount} /\ passed'[t][k] \in Passes(t)
             /\ Tallies(t, counts'[t][k], RunningOf(t, passed'[t][k]))
             /\ k \in blocked'[t] =>
                   counts'[t][k] # NoCount /\ counts'[t][k].count >= MaxOf[t]
  <2> DEFINE e == counts[t][k]
             f == passed[t][k]
  <2>1. /\ e \in Counts(t) \cup {NoCount} /\ f \in Passes(t)
        /\ Tallies(t, e, RunningOf(t, f))
        /\ k \in blocked[t] => e # NoCount /\ e.count >= MaxOf[t]
        /\ MaxOf[t] \in Nat \ {0}
    BY DEF LimiterInv, LimiterTypeOK
  <2>2. /\ counts'[t][k] = IF Reached(t, k) THEN EntryAfter(t, e) ELSE e
        /\ passed'[t][k] = IF Reached(t, k) /\ ~RefusedBy(t, k)
                             THEN [f EXCEPT ![0] = @ + 1] ELSE f
        /\ k \in blocked'[t] <=> RefusedBy(t, k) \/ k \in blocked[t]
    BY <1>1
  <2> HIDE DEF e, f
  <2>3. /\ EntryAfter(t, e) \in Counts(t) /\ EntryAfter(t, e) # NoCount
        /\ e # NoCount /\ e.count >= MaxOf[t] => EntryAfter(t, e).count >= MaxOf[t]
    <3>1. EntryAfter(t, e) \in Counts(t) /\ EntryAfter(t, e) # NoCount
      BY <2>1, EntryIsCount
    <3>2. ASSUME e # NoCount, e.count >= MaxOf[t] PROVE EntryAfter(t, e).count >= MaxOf[t]
      <4>1. e.count \in Nat
        BY <2>1, <3>2 DEF Counts
      <4>2. EntryAfter(t, e).count = IF e.count > MaxOf[t] THEN e.count ELSE e.count + 1
        BY <2>1, <3>2, EntryIsCount
      <4> QED
        BY <2>1, <3>2, <4>1, <4>2
    <3> QED
      BY <3>1, <3>2
  <2>4. CASE Reached(t, k) /\ ~RefusedBy(t, k)
    <3>1. Tallies(t, EntryAfter(t, e), RunningOf(t, [f EXCEPT ![0] = @ + 1]))
      BY <1>4, <2>1, <2>4, TalliesAfterPass DEF e
    <3>2. [f EXCEPT ![0] = @ + 1] \in Passes(t)
      BY <2>1 DEF Passes
    <3> QED
      BY <2>1, <2>2, <2>3, <2>4, <3>1, <3>2
  <2>5. CASE Reached(t, k) /\ RefusedBy(t, k)
    <3>1. /\ Tallies(t, EntryAfter(t, e), RunningOf(t, f))
          /\ e # NoCount /\ e.count >= MaxOf[t]
      BY <1>3, <2>1, <2>5, TalliesAfterRefusal DEF e
    <3> QED
      BY <2>1, <2>2, <2>3, <2>5, <3>1
  <2>6. CASE ~Reached(t, k) /\ RefusedBy(t, k)
    <3>1. e # NoCount /\ e.count >= MaxOf[t]
      BY <1>3, <2>1, <2>6, TalliesAfterRefusal DEF e
    <3> QED
      BY <2>1, <2>2, <2>6, <3>1
  <2>7. CASE ~Reached(t, k) /\ ~RefusedBy(t, k)
    BY <2>1, <2>2, <2>7
  <2> QED
    BY <2>4, <2>5, <2>6, <2>7
<1>6. LimiterTypeOK'
  <2>1. ASSUME NEW t \in Tiers
        PROVE  /\ counts'[t] \in [LimitKeys -> Counts(t) \cup {NoCount}]
               /\ passed'[t] \in [LimitKeys -> Passes(t)]
               /\ blocked'[t] \subseteq LimitKeys
    <3>1. DOMAIN counts'[t] = LimitKeys /\ counts'[t] = [k \in LimitKeys |-> counts'[t][k]]
      BY <1>1
    <3>2. DOMAIN passed'[t] = LimitKeys /\ passed'[t] = [k \in LimitKeys |-> passed'[t][k]]
      BY <1>1
    <3>3. blocked'[t] \subseteq LimitKeys
      BY <1>1 DEF LimiterInv, LimiterTypeOK
    <3> QED
      BY <1>5, <3>1, <3>2, <3>3
  <2>2. DOMAIN counts' = Tiers /\ DOMAIN passed' = Tiers /\ DOMAIN blocked' = Tiers
    BY <1>1
  <2> QED
    BY <2>1, <2>2 DEF LimiterTypeOK, Counts, Passes
<1> QED
  BY <1>5, <1>6 DEF LimiterInv

LEMMA LimiterKeepsInv ==
  ASSUME LimiterInv, [LimiterNext]_limiterVars
  PROVE  LimiterInv'
<1>1. CASE UNCHANGED limiterVars
  BY <1>1 DEF limiterVars, LimiterInv, LimiterTypeOK
<1>2. CASE LimiterNext
  BY <1>2, RequestKeepsInv, LimiterTickKeepsInv, LimiterStartInv DEF LimiterNext
<1> QED
  BY <1>1, <1>2

LEMMA LimiterPromises == LimiterInv => BurstIsBounded /\ RefusalIsEarned
<1> SUFFICES ASSUME LimiterInv PROVE BurstIsBounded /\ RefusalIsEarned
  OBVIOUS
<1>1. ASSUME NEW t \in Tiers, NEW k \in LimitKeys
      PROVE  /\ PassedLately(t, k) <= 2 * MaxOf[t]
             /\ k \in blocked[t] => PassedLately(t, k) >= MaxOf[t]
  <2> DEFINE w == WindowOf[t]
             e == counts[t][k]
             P == RunningOf(t, passed[t][k])
  <2>1. /\ e \in Counts(t) \cup {NoCount} /\ passed[t][k] \in Passes(t) /\ Tallies(t, e, P)
        /\ k \in blocked[t] => e # NoCount /\ e.count >= MaxOf[t]
    BY DEF LimiterInv, LimiterTypeOK
  <2>2. w \in Nat /\ MaxOf[t] \in Nat \ {0}
    BY LimiterAssumption
  <2>3. IsRunning(P, passed[t][k], w) /\ PassedLately(t, k) = P[w]
    BY <2>1, RunningOfIs DEF PassedLately
  <2>4. passed[t][k] \in [0 .. w -> Nat]
    BY <2>1 DEF Passes
  <2> HIDE DEF P, e, w
  <2>5. \A n \in 0 .. w : P[n] \in Nat /\ P[n] <= P[w]
    BY <2>2, <2>3, <2>4, RunningIncreases DEF IsRunning
  <2>6. CASE e = NoCount
    <3>1. P[w] <= MaxOf[t] /\ P[w] \in Nat
      BY <2>1, <2>2, <2>5, <2>6 DEF Tallies, w
    <3> QED
      BY <2>1, <2>2, <2>3, <2>6, <3>1
  <2>7. CASE e # NoCount
    <3>1. e.count \in Nat /\ e.left \in 0 .. w
      BY <2>1, <2>7 DEF Counts, w
    <3>2. /\ P[w - e.left] = IF e.count <= MaxOf[t] THEN e.count ELSE MaxOf[t]
          /\ P[w] <= MaxOf[t] + P[w - e.left]
      BY <2>1, <2>7 DEF Tallies, w
    <3>3. w - e.left \in 0 .. w /\ w \in 0 .. w
      BY <2>2, <3>1
    <3>4. P[w] \in Nat /\ P[w - e.left] \in Nat /\ P[w - e.left] <= P[w]
      BY <2>5, <3>3
    <3> QED
      BY <2>1, <2>2, <2>3, <3>1, <3>2, <3>4
  <2> QED
    BY <2>6, <2>7
<1> QED
  BY <1>1 DEF BurstIsBounded, RefusalIsEarned, LimiterInv, LimiterTypeOK

-----------------------------------------------------------------------------
(* Theorems                                                                *)

\* With running sums of what was let pass, the counts of the open windows and of those
\* before them add up, in every state the limiter reaches by requests, ticks and restarts.
THEOREM LimiterInvariant == LimiterInit /\ [][LimiterNext]_limiterVars => []LimiterInv
<1>1. LimiterInit => LimiterInv
  BY LimiterInitInv
<1>2. LimiterInv /\ [LimiterNext]_limiterVars => LimiterInv'
  BY LimiterKeepsInv
<1> QED
  BY <1>1, <1>2, PTL

-----------------------------------------------------------------------------
(* The limiter beside them                                                 *)

THEOREM LimiterHolds == BackendSpec => []LimiterInv
<1>1. BackendInit => LimiterInit
  BY DEF BackendInit
<1>2. [BackendNext]_backendVars => [LimiterNext]_limiterVars
  BY DEF BackendNext, backendVars, limiterVars
<1> QED
  BY <1>1, <1>2, LimiterInvariant, PTL DEF BackendSpec

\* However requests, ticks and restarts follow one another, a tier lets pass at most twice
\* its limit in the length of a window.
THEOREM BurstsAreBounded == BackendSpec => []BurstIsBounded
BY LimiterHolds, LimiterPromises, PTL

\* A tier refuses only what has spent the limit within the last window.
THEOREM RefusalsAreEarned == BackendSpec => []RefusalIsEarned
BY LimiterHolds, LimiterPromises, PTL

-----------------------------------------------------------------------------
(* The queue of each wallet's requests                                     *)

\* A request that has not arrived has no response, and one that is refused is over.
ArrivalInv ==
    \A q \in Requests :
        /\ handler[q] = "absent" => response[q] = "none"
        /\ handler[q] = "refused" => response[q] = "closed"
        /\ response[q] = "sent" => handler[q] = "returned"

\* The tail of a chain is a pending request of its wallet.
TailInv == \A u \in Users : locks[u] # None => locks[u] \in Unanswered(u)

\* The depth may be too small, for finish and close both decrement it, but not too big.
DepthInv == \A u \in Users : queueDepth[u] <= Cardinality(Unanswered(u))

CountInv == TypeOK /\ ArrivalInv /\ TailInv /\ DepthInv

-----------------------------------------------------------------------------
LEMMA CountInit == Init => CountInv
<1> SUFFICES ASSUME Init PROVE CountInv
  OBVIOUS
<1>1. TypeOK /\ ArrivalInv /\ TailInv
  BY PipelineAssumption DEF Init, TypeOK, ArrivalInv, TailInv, Off
<1>2. DepthInv
  <2> SUFFICES ASSUME NEW u \in Users PROVE queueDepth[u] <= Cardinality(Unanswered(u))
    BY DEF DepthInv
  <2>1. Unanswered(u) = {}
    BY DEF Init, Unanswered
  <2>2. Cardinality(Unanswered(u)) = 0
    BY <2>1, FS_EmptySet
  <2> QED
    BY <2>2 DEF Init
<1> QED
  BY <1>1, <1>2 DEF CountInv

\* Unanswered requests are finitely many.
LEMMA UnansweredFinite ==
  ASSUME NEW u \in Users
  PROVE  IsFiniteSet(Unanswered(u)) /\ Cardinality(Unanswered(u)) \in Nat
BY PipelineAssumption, FS_Subset, FS_CardinalityType DEF Unanswered

\* What a step adds to or takes from the pending requests of a wallet.
LEMMA UnansweredGrows ==
  ASSUME NEW u \in Users, NEW q \in Requests, q \notin Unanswered(u),
         Unanswered(u)' = Unanswered(u) \cup {q}
  PROVE  Cardinality(Unanswered(u))' = Cardinality(Unanswered(u)) + 1
<1>1. IsFiniteSet(Unanswered(u))
  BY UnansweredFinite
<1>2. Cardinality(Unanswered(u) \cup {q}) = Cardinality(Unanswered(u)) + 1
  BY <1>1, FS_AddElement
<1> QED
  BY <1>2

LEMMA UnansweredShrinks ==
  ASSUME NEW u \in Users, NEW q \in Requests, q \in Unanswered(u),
         Unanswered(u)' = Unanswered(u) \ {q}
  PROVE  Cardinality(Unanswered(u))' = Cardinality(Unanswered(u)) - 1
<1>1. IsFiniteSet(Unanswered(u))
  BY UnansweredFinite
<1>2. Cardinality(Unanswered(u) \ {q}) = Cardinality(Unanswered(u)) - 1
  BY <1>1, FS_RemoveElement
<1> QED
  BY <1>2

\* A request arrives at the queue.
LEMMA EnqueueCounts ==
  ASSUME CountInv, NEW q \in Requests, Enqueue(q)
  PROVE  CountInv'
<1> USE PipelineAssumption
<1>1. TypeOK'
  <2>1. user[q] \in Users
    BY DEF CountInv, TypeOK, Enqueue
  <2>2. queueDepth' \in [Users -> 0 .. MaxQueueSize] /\ arrivals' \in Seq(Requests)
    BY <2>1 DEF CountInv, TypeOK, Enqueue
  <2>3. /\ previous' \in [Requests -> Requests \cup {None}]
        /\ locks' \in [Users -> Requests \cup {None}]
        /\ queueTimer' \in [Requests -> Off .. QueueTimeout]
    BY <2>1 DEF CountInv, TypeOK, Enqueue, Off
  <2>4. /\ handler' \in [Requests -> {"absent", "refused", "queued", "running", "returned"}]
        /\ response' \in [Requests -> {"none", "open", "sent", "closed"}]
        /\ UNCHANGED <<user, released, execTimer, timedOut, forced>>
    BY DEF CountInv, TypeOK, Enqueue, timeoutVars
  <2> QED
    BY <2>2, <2>3, <2>4 DEF CountInv, TypeOK
<1>2. ArrivalInv'
  BY DEF CountInv, TypeOK, ArrivalInv, Enqueue
<1>3. PICK w \in Users : w = user[q] /\ q \notin Unanswered(w)
  BY DEF CountInv, TypeOK, ArrivalInv, Enqueue, Unanswered
<1>4. Unanswered(w)' = Unanswered(w) \cup {q}
  BY <1>3 DEF CountInv, TypeOK, Enqueue, Unanswered
<1>5. \A u \in Users \ {w} : Unanswered(u)' = Unanswered(u)
  BY <1>3 DEF CountInv, TypeOK, Enqueue, Unanswered
<1>6. TailInv'
  BY <1>3, <1>4, <1>5 DEF CountInv, TypeOK, TailInv, Enqueue
<1>7. DepthInv'
  <2> SUFFICES ASSUME NEW u \in Users PROVE queueDepth'[u] <= Cardinality(Unanswered(u))'
    BY DEF DepthInv
  <2>1. CASE u = w
    <3>1. Cardinality(Unanswered(w))' = Cardinality(Unanswered(w)) + 1
      BY <1>3, <1>4, UnansweredGrows
    <3>2. queueDepth'[w] = queueDepth[w] + 1 /\ queueDepth[w] \in Nat
      BY <1>3 DEF CountInv, TypeOK, Enqueue
    <3> QED
      BY <2>1, <3>1, <3>2, UnansweredFinite DEF CountInv, DepthInv
  <2>2. CASE u # w
    BY <2>2, <1>3, <1>5 DEF CountInv, TypeOK, DepthInv, Enqueue
  <2> QED
    BY <2>1, <2>2
<1> QED
  BY <1>1, <1>2, <1>6, <1>7 DEF CountInv

\* A response is over, with or without an answer.
LEMMA CloseCounts ==
  ASSUME CountInv, NEW q \in Requests, NEW times \in 1 .. 2,
         response[q] \in {"open", "sent"}, CloseResponse(q, times),
         forced' \subseteq forced \cup {q}
  PROVE  CountInv'
<1> USE PipelineAssumption
<1>1. TypeOK'
  <2>1. CASE user[q] = Bypass
    BY <2>1 DEF CountInv, TypeOK, CloseResponse, lockVars, Off
  <2>2. CASE user[q] # Bypass
    <3>1. Release(q, times) /\ user[q] \in Users
      BY <2>2 DEF CountInv, TypeOK, CloseResponse
    <3>2. queueDepth' \in [Users -> 0 .. MaxQueueSize]
      BY <3>1 DEF CountInv, TypeOK, Release
    <3>3. /\ queueTimer' \in [Requests -> Off .. QueueTimeout]
          /\ locks' \in [Users -> Requests \cup {None}]
      BY <3>1 DEF CountInv, TypeOK, Release, Off
    <3> QED
      BY <3>1, <3>2, <3>3 DEF CountInv, TypeOK, CloseResponse, Release, Off
  <2> QED
    BY <2>1, <2>2
<1>2. ArrivalInv'
  BY DEF CountInv, TypeOK, ArrivalInv, CloseResponse
<1>3. \A u \in Users : u # user[q] => Unanswered(u)' = Unanswered(u)
  BY DEF CountInv, TypeOK, CloseResponse, Unanswered
<1>4. CASE user[q] = Bypass
  <2>1. \A u \in Users : Unanswered(u)' = Unanswered(u)
    BY <1>3, <1>4
  <2> QED
    BY <1>1, <1>2, <1>4, <2>1 DEF CountInv, TailInv, DepthInv, CloseResponse, lockVars
<1>5. CASE user[q] # Bypass
  <2>1. PICK w \in Users : w = user[q] /\ q \in Unanswered(w) /\ Release(q, times)
    BY <1>5 DEF CountInv, TypeOK, ArrivalInv, CloseResponse, Unanswered
  <2>2. Unanswered(w)' = Unanswered(w) \ {q}
    BY <2>1 DEF CountInv, TypeOK, CloseResponse, Unanswered
  <2>3. Cardinality(Unanswered(w))' = Cardinality(Unanswered(w)) - 1
    BY <2>1, <2>2, UnansweredShrinks
  <2>4. TailInv'
    BY <1>3, <2>1, <2>2 DEF CountInv, TypeOK, TailInv, Release
  <2>5. DepthInv'
    <3> SUFFICES ASSUME NEW u \in Users PROVE queueDepth'[u] <= Cardinality(Unanswered(u))'
      BY DEF DepthInv
    <3>1. CASE u = w
      <4>1. Cardinality(Unanswered(w)) \in Nat /\ Cardinality(Unanswered(w)) # 0
        BY <2>1, UnansweredFinite, FS_EmptySet
      <4>2. queueDepth'[w] = IF queueDepth[w] > times THEN queueDepth[w] - times ELSE 0
        BY <2>1 DEF CountInv, TypeOK, Release
      <4>3. queueDepth[w] \in Nat /\ queueDepth[w] <= Cardinality(Unanswered(w))
        BY DEF CountInv, TypeOK, DepthInv
      <4> QED
        BY <3>1, <2>3, <4>1, <4>2, <4>3
    <3>2. CASE u # w
      BY <3>2, <1>3, <2>1 DEF CountInv, TypeOK, DepthInv, Release
    <3> QED
      BY <3>1, <3>2
  <2> QED
    BY <1>1, <1>2, <2>4, <2>5 DEF CountInv
<1> QED
  BY <1>4, <1>5

\* The other steps leave the locks, the depth and the pending requests alone.
LEMMA OtherCounts ==
  ASSUME CountInv, TypeOK', ArrivalInv', UNCHANGED <<locks, queueDepth, user>>,
         \A u \in Users : Unanswered(u)' = Unanswered(u)
  PROVE  CountInv'
BY DEF CountInv, TailInv, DepthInv

LEMMA CountStep == CountInv /\ [Next]_vars => CountInv'
<1> SUFFICES ASSUME CountInv, [Next]_vars PROVE CountInv'
  OBVIOUS
<1> USE PipelineAssumption
<1>1. ASSUME NEW q \in Requests, ArriveBypassing(q) PROVE CountInv'
  <2>1. TypeOK' /\ ArrivalInv'
    BY <1>1 DEF CountInv, TypeOK, ArrivalInv, ArriveBypassing, RunHandler, lockVars, Off
  <2>2. \A u \in Users : Unanswered(u)' = Unanswered(u)
    BY <1>1 DEF CountInv, TypeOK, ArriveBypassing, RunHandler, Unanswered
  <2> QED
    BY <1>1, <2>1, <2>2, OtherCounts DEF ArriveBypassing, lockVars
<1>2. ASSUME NEW q \in Requests, Refuse(q) PROVE CountInv'
  <2>1. TypeOK' /\ ArrivalInv'
    BY <1>2 DEF CountInv, TypeOK, ArrivalInv, Refuse, lockVars, timeoutVars, Off
  <2>2. \A u \in Users : Unanswered(u)' = Unanswered(u)
    BY <1>2 DEF CountInv, TypeOK, ArrivalInv, Refuse, Unanswered
  <2> QED
    BY <1>2, <2>1, <2>2, OtherCounts DEF Refuse, lockVars
<1>3. ASSUME NEW q \in Requests, Enqueue(q) PROVE CountInv'
  BY <1>3, EnqueueCounts
<1>4. ASSUME NEW q \in Requests, Start(q) PROVE CountInv'
  <2>1. TypeOK' /\ ArrivalInv'
    BY <1>4 DEF CountInv, TypeOK, ArrivalInv, Start, RunHandler, lockVars, Off
  <2>2. \A u \in Users : Unanswered(u)' = Unanswered(u)
    BY <1>4 DEF CountInv, TypeOK, Start, RunHandler, Unanswered
  <2> QED
    BY <1>4, <2>1, <2>2, OtherCounts DEF Start, lockVars
<1>5. ASSUME NEW q \in Requests, Return(q) PROVE CountInv'
  <2>1. TypeOK' /\ ArrivalInv'
    BY <1>5 DEF CountInv, TypeOK, ArrivalInv, Return, GuardedJson, lockVars, timeoutVars, Off
  <2>2. \A u \in Users : Unanswered(u)' = Unanswered(u)
    BY <1>5 DEF CountInv, TypeOK, Return, GuardedJson, Unanswered
  <2> QED
    BY <1>5, <2>1, <2>2, OtherCounts DEF Return, lockVars
<1>6. ASSUME NEW q \in Requests, ExecutionDeadline(q) PROVE CountInv'
  <2>1. UNCHANGED response
    BY <1>6 DEF CountInv, TypeOK, ExecutionDeadline, GuardedJson
  <2>2. TypeOK' /\ ArrivalInv'
    BY <1>6, <2>1 DEF CountInv, TypeOK, ArrivalInv, ExecutionDeadline, lockVars, Off
  <2>3. \A u \in Users : Unanswered(u)' = Unanswered(u)
    BY <1>6, <2>1 DEF ExecutionDeadline, Unanswered
  <2> QED
    BY <1>6, <2>2, <2>3, OtherCounts DEF ExecutionDeadline, lockVars
<1>7. ASSUME NEW q \in Requests, QueueDeadline(q) PROVE CountInv'
  <2>1. TypeOK' /\ ArrivalInv'
    BY <1>7 DEF CountInv, TypeOK, ArrivalInv, QueueDeadline, timeoutVars, Off
  <2>2. \A u \in Users : Unanswered(u)' = Unanswered(u)
    BY <1>7 DEF QueueDeadline, Unanswered
  <2> QED
    BY <1>7, <2>1, <2>2, OtherCounts DEF QueueDeadline
<1>8. ASSUME NEW q \in Requests, Finish(q) PROVE CountInv'
  BY <1>8, CloseCounts DEF Finish
<1>9. ASSUME NEW q \in Requests, HangUp(q) PROVE CountInv'
  BY <1>9, CloseCounts DEF HangUp
<1>10. CASE Tick
  <2>1. TypeOK' /\ ArrivalInv'
    BY <1>10 DEF CountInv, TypeOK, ArrivalInv, Tick, Off
  <2>2. \A u \in Users : Unanswered(u)' = Unanswered(u)
    BY <1>10 DEF Tick, Unanswered
  <2> QED
    BY <1>10, <2>1, <2>2, OtherCounts DEF Tick
<1>11. CASE UNCHANGED vars
  <2>1. TypeOK' /\ ArrivalInv'
    BY <1>11 DEF CountInv, TypeOK, ArrivalInv, vars, lockVars, timeoutVars
  <2>2. \A u \in Users : Unanswered(u)' = Unanswered(u)
    BY <1>11 DEF vars, Unanswered
  <2> QED
    BY <1>11, <2>1, <2>2, OtherCounts DEF vars, lockVars
<1> QED
  BY <1>1, <1>2, <1>3, <1>4, <1>5, <1>6, <1>7, <1>8, <1>9, <1>10, <1>11 DEF Next

THEOREM Counting == Spec => []CountInv
BY CountInit, CountStep, PTL DEF Spec

\* The pipeline's variables keep their types; the depth of a queue never passes the
\* limit and never falls below 0, although a release decrements it twice.
THEOREM QueueTypeCorrect == Spec => []TypeOK
<1>1. CountInv => TypeOK
  BY DEF CountInv
<1> QED
  BY <1>1, Counting, PTL

\* A wallet with nothing pending leaves no entry in locks and queueDepth.
THEOREM MapsDrainHolds == Spec => []MapsDrain
<1>1. ASSUME CountInv, NEW u \in Users, Cardinality(Unanswered(u)) = 0
      PROVE  queueDepth[u] = 0
  BY <1>1, PipelineAssumption DEF CountInv, TypeOK, DepthInv
<1>2. CountInv => MapsDrain
  <2> SUFFICES ASSUME CountInv, NEW u \in Users, Unanswered(u) = {}
               PROVE  locks[u] = None /\ queueDepth[u] = 0
    BY DEF MapsDrain
  <2>1. Cardinality(Unanswered(u)) = 0
    BY FS_EmptySet
  <2>2. locks[u] = None
    BY DEF CountInv, TailInv
  <2> QED
    BY <1>1, <2>1, <2>2
<1> QED
  BY <1>2, Counting, PTL

\* serializeByUser refuses a request only when MaxQueueSize others are pending.
THEOREM RefusedOnlyWhenFullHolds == Spec => RefusedOnlyWhenFull
<1> DEFINE Honest(q) == handler[q] = "absent" /\ handler'[q] = "refused"
                          => Cardinality(Unanswered(user[q])) >= MaxQueueSize
<1>1. ASSUME CountInv, [Next]_vars, NEW q \in Requests PROVE Honest(q)
  <2> SUFFICES ASSUME handler[q] = "absent", handler'[q] = "refused"
               PROVE  Cardinality(Unanswered(user[q])) >= MaxQueueSize
    OBVIOUS
  <2>1. Refuse(q)
    <3>1. \E r \in Requests :
             \/ ArriveBypassing(r) \/ Refuse(r) \/ Enqueue(r) \/ Start(r) \/ Return(r)
             \/ handler' = handler
      BY <1>1 DEF Next, ExecutionDeadline, QueueDeadline, Finish, HangUp, CloseResponse, Tick,
                  vars
    <3> QED
      BY <1>1, <3>1 DEF CountInv, TypeOK, ArriveBypassing, RunHandler, Refuse, Enqueue, Start,
                        Return
  <2>2. PICK w \in Users : w = user[q] /\ queueDepth[w] >= MaxQueueSize
    BY <1>1, <2>1 DEF CountInv, TypeOK, Refuse
  <2>3. queueDepth[w] \in Nat /\ MaxQueueSize \in Nat /\ queueDepth[w] <= Cardinality(Unanswered(w))
    BY <1>1, PipelineAssumption DEF CountInv, TypeOK, DepthInv
  <2> QED
    BY <2>2, <2>3, UnansweredFinite
<1>2. CountInv /\ [Next]_vars => [\A q \in Requests : Honest(q)]_vars
  BY <1>1
<1> QED
  BY <1>2, Counting, PTL DEF Spec, RefusedOnlyWhenFull

-----------------------------------------------------------------------------
(* The order of arrival                                                    *)

ArrivedInv ==
    \A i \in 1 .. Len(arrivals) :
        user[arrivals[i]] \in Users /\ handler[arrivals[i]] \notin {"absent", "refused"}

\* A lock that was not given up was released by the answer of its handler.
ReleasedInv ==
    \A q \in released : q \in forced \/ (response[q] = "closed" /\ handler[q] = "returned")

\* Whoever takes `tail' for its predecessor waits for request q, or q is released.
Awaits(tail, q) == tail = q \/ (tail = None /\ q \in released)

\* The i-th arrival is the last one of wallet u, or i is 0 and u has had none.
IsLast(i, u) ==
    /\ \A k \in i + 1 .. Len(arrivals) : user[arrivals[k]] # u
    /\ i # 0 => user[arrivals[i]] = u /\ Awaits(locks[u], arrivals[i])

LastInv == \A u \in Users : \E i \in 0 .. Len(arrivals) : IsLast(i, u)

\* The i-th arrival is the one before the j-th of the same wallet, or i is 0.
IsBefore(i, j) ==
    /\ \A k \in i + 1 .. j - 1 : user[arrivals[k]] # user[arrivals[j]]
    /\ i # 0 => /\ user[arrivals[i]] = user[arrivals[j]]
                /\ Awaits(previous[arrivals[j]], arrivals[i])

ChainInv == \A j \in 1 .. Len(arrivals) : \E i \in 0 .. j - 1 : IsBefore(i, j)

OrderInv == ArrivedInv /\ ReleasedInv /\ LastInv /\ ChainInv /\ OvertakenOnlyWhenForced

LEMMA OrderInit == Init => OrderInv
<1> SUFFICES ASSUME Init PROVE OrderInv
  OBVIOUS
<1>1. Len(arrivals) = 0
  BY DEF Init
<1>2. LastInv
  BY <1>1 DEF LastInv, IsLast
<1> QED
  BY <1>1, <1>2 DEF Init, OrderInv, ArrivedInv, ReleasedInv, ChainInv, OvertakenOnlyWhenForced

\* A step that starts no request and adds none to the queue.
LEMMA OtherOrder ==
  ASSUME TypeOK, OrderInv, ReleasedInv',
         UNCHANGED <<arrivals, user, previous>>,
         released \subseteq released', forced \subseteq forced',
         \A u \in Users : locks'[u] = locks[u] \/ (locks'[u] = None /\ locks[u] \in released'),
         \A q \in Requests :
            /\ handler[q] \notin {"absent", "refused"} => handler'[q] \notin {"absent", "refused"}
            /\ handler[q] = "queued" => handler'[q] = "queued"
            /\ response[q] = "closed" => response'[q] = "closed"
  PROVE  OrderInv'
<1>1. \A i \in 1 .. Len(arrivals) : arrivals[i] \in Requests
  BY DEF TypeOK
<1>2. ArrivedInv'
  BY <1>1 DEF OrderInv, ArrivedInv
<1>3. LastInv'
  <2> SUFFICES ASSUME NEW u \in Users PROVE (\E i \in 0 .. Len(arrivals) : IsLast(i, u))'
    BY DEF LastInv
  <2>1. PICK i \in 0 .. Len(arrivals) : IsLast(i, u)
    BY DEF OrderInv, LastInv
  <2>2. i # 0 => Awaits(locks[u], arrivals[i])'
    BY <2>1 DEF IsLast, Awaits
  <2> QED
    BY <2>1, <2>2 DEF IsLast, Awaits
<1>4. ChainInv'
  BY DEF OrderInv, ChainInv, IsBefore, Awaits
<1>5. OvertakenOnlyWhenForced'
  BY <1>1 DEF OrderInv, OvertakenOnlyWhenForced
<1> QED
  BY <1>2, <1>3, <1>4, <1>5 DEF OrderInv

\* Request q starts when its predecessor is released: forced, or after it has run, in
\* which case whatever it overtook was overtaken for a reason.
LEMMA StartKeepsOrder ==
  ASSUME CountInv, OrderInv, NEW q \in Requests, Start(q)
  PROVE  OrderInv'
<1>1. \A i \in 1 .. Len(arrivals) : arrivals[i] \in Requests
  BY DEF CountInv, TypeOK
<1>2. /\ UNCHANGED <<arrivals, user, previous, released, forced, locks, response>>
      /\ handler' = [handler EXCEPT ![q] = "running"]
  BY DEF Start, RunHandler, lockVars
<1>3. ArrivedInv' /\ LastInv' /\ ChainInv'
  BY <1>1, <1>2 DEF CountInv, TypeOK, OrderInv, ArrivedInv, LastInv, IsLast, ChainInv, IsBefore,
                    Awaits
<1>4. ReleasedInv'
  BY <1>2 DEF CountInv, TypeOK, OrderInv, ReleasedInv, Start
<1>5. OvertakenOnlyWhenForced'
  <2> SUFFICES ASSUME NEW i \in 1 .. Len(arrivals), NEW j \in 1 .. Len(arrivals),
                      i < j, user[arrivals[i]] = user[arrivals[j]],
                      response[arrivals[i]] # "closed", handler'[arrivals[j]] # "queued"
               PROVE  \E k \in i .. j - 1 : arrivals[k] \in forced
                                            /\ user[arrivals[k]] = user[arrivals[i]]
    BY <1>2 DEF OvertakenOnlyWhenForced
  <2>1. CASE handler[arrivals[j]] # "queued"
    BY <2>1 DEF OrderInv, OvertakenOnlyWhenForced
  <2>2. CASE handler[arrivals[j]] = "queued"
    <3>1. arrivals[j] = q
      BY <1>1, <1>2, <2>2 DEF CountInv, TypeOK
    <3>2. PICK p \in 0 .. j - 1 : IsBefore(p, j)
      BY DEF OrderInv, ChainInv
    <3>3. p # 0 /\ i <= p /\ p \in 1 .. Len(arrivals)
      BY <3>2 DEF IsBefore
    <3>4. arrivals[p] \in released
      BY <1>1, <3>1, <3>2, <3>3, PipelineAssumption DEF IsBefore, Awaits, Start
    <3>5. user[arrivals[p]] = user[arrivals[i]]
      BY <3>2, <3>3 DEF IsBefore
    <3>6. CASE arrivals[p] \in forced
      BY <3>3, <3>5, <3>6
    <3>7. CASE arrivals[p] \notin forced
      <4>1. response[arrivals[p]] = "closed" /\ handler[arrivals[p]] = "returned"
        BY <3>4, <3>7 DEF OrderInv, ReleasedInv
      <4>2. i < p
        BY <3>3, <4>1
      <4>3. \E k \in i .. p - 1 : arrivals[k] \in forced /\ user[arrivals[k]] = user[arrivals[i]]
        BY <3>3, <3>5, <4>1, <4>2 DEF OrderInv, OvertakenOnlyWhenForced
      <4> QED
        BY <3>3, <4>3
    <3> QED
      BY <3>6, <3>7
  <2> QED
    BY <2>1, <2>2
<1> QED
  BY <1>3, <1>4, <1>5 DEF OrderInv

\* Request q joins the chain of its wallet behind the last arrival.
LEMMA EnqueueKeepsOrder ==
  ASSUME CountInv, OrderInv, NEW q \in Requests, Enqueue(q)
  PROVE  OrderInv'
<1>0. PICK n \in Nat : n = Len(arrivals)
  BY DEF CountInv, TypeOK
<1>1. /\ n = Len(arrivals) /\ \A i \in 1 .. n : arrivals[i] \in Requests
      /\ Len(arrivals') = n + 1 /\ arrivals'[n + 1] = q
      /\ \A i \in 1 .. n : arrivals'[i] = arrivals[i]
  BY <1>0 DEF CountInv, TypeOK, Enqueue
<1>2. PICK w \in Users : w = user[q]
  BY DEF CountInv, TypeOK, Enqueue
<1>3. /\ UNCHANGED <<user, released, forced>>
      /\ previous' = [previous EXCEPT ![q] = locks[w]]
      /\ locks' = [locks EXCEPT ![w] = q]
      /\ handler' = [handler EXCEPT ![q] = "queued"]
      /\ response' = [response EXCEPT ![q] = "open"]
      /\ handler[q] = "absent" /\ response[q] = "none"
  BY <1>2 DEF CountInv, ArrivalInv, Enqueue
<1>4. \A i \in 1 .. n : arrivals[i] # q
  BY <1>1, <1>3 DEF OrderInv, ArrivedInv
<1>5. ArrivedInv'
  <2> SUFFICES ASSUME NEW i \in 1 .. n + 1
               PROVE  /\ user[arrivals'[i]] \in Users
                      /\ handler'[arrivals'[i]] \notin {"absent", "refused"}
    BY <1>1, <1>3 DEF ArrivedInv
  <2>1. CASE i = n + 1
    BY <2>1, <1>1, <1>2, <1>3 DEF CountInv, TypeOK
  <2>2. CASE i \in 1 .. n
    BY <2>2, <1>1, <1>3, <1>4 DEF CountInv, TypeOK, OrderInv, ArrivedInv
  <2> QED
    BY <1>1, <2>1, <2>2
<1>6. ReleasedInv'
  BY <1>3 DEF CountInv, TypeOK, OrderInv, ReleasedInv
<1>7. LastInv'
  <2> SUFFICES ASSUME NEW u \in Users PROVE \E i \in 0 .. n + 1 : IsLast(i, u)'
    BY <1>1 DEF LastInv
  <2>1. CASE u = w
    <3>1. IsLast(n + 1, u)'
      BY <2>1, <1>1, <1>2, <1>3 DEF CountInv, TypeOK, IsLast, Awaits
    <3> QED
      BY <1>1, <3>1
  <2>2. CASE u # w
    <3>1. PICK i \in 0 .. n : IsLast(i, u)
      BY <1>1 DEF OrderInv, LastInv
    <3>2. \A k \in i + 1 .. n + 1 : user[arrivals'[k]] # u
      BY <3>1, <2>2, <1>1, <1>2 DEF IsLast
    <3>3. i # 0 => user[arrivals'[i]] = u /\ Awaits(locks[u], arrivals[i])'
      BY <3>1, <2>2, <1>1, <1>3 DEF CountInv, TypeOK, IsLast, Awaits
    <3>4. IsLast(i, u)'
      BY <3>2, <3>3, <1>1, <1>3 DEF IsLast
    <3> QED
      BY <1>1, <3>4
  <2> QED
    BY <2>1, <2>2
<1>8. ChainInv'
  <2> SUFFICES ASSUME NEW j \in 1 .. n + 1 PROVE \E i \in 0 .. j - 1 : IsBefore(i, j)'
    BY <1>1 DEF ChainInv
  <2>1. CASE j = n + 1
    <3>1. PICK i \in 0 .. n : IsLast(i, w)
      BY <1>1 DEF OrderInv, LastInv
    <3>2. \A k \in i + 1 .. n : user[arrivals'[k]] # user[arrivals'[n + 1]]
      BY <3>1, <1>1, <1>2 DEF IsLast
    <3>3. i # 0 => user[arrivals'[i]] = user[arrivals'[n + 1]]
                   /\ Awaits(previous[arrivals[n + 1]], arrivals[i])'
      BY <3>1, <1>1, <1>2, <1>3 DEF CountInv, TypeOK, IsLast, Awaits
    <3>4. IsBefore(i, j)'
      BY <2>1, <3>2, <3>3, <1>1, <1>3 DEF IsBefore
    <3> QED
      BY <1>1, <2>1, <3>4
  <2>2. CASE j \in 1 .. n
    <3>1. PICK i \in 0 .. j - 1 : IsBefore(i, j)
      BY <2>2, <1>1 DEF OrderInv, ChainInv
    <3>2. \A k \in i + 1 .. j - 1 : user[arrivals'[k]] # user[arrivals'[j]]
      BY <3>1, <2>2, <1>1 DEF IsBefore
    <3>3. i # 0 => user[arrivals'[i]] = user[arrivals'[j]]
                   /\ Awaits(previous[arrivals[j]], arrivals[i])'
      <4>1. previous'[arrivals'[j]] = previous[arrivals[j]]
        BY <2>2, <1>1, <1>3, <1>4 DEF CountInv, TypeOK
      <4>2. i # 0 => arrivals'[i] = arrivals[i] /\ arrivals'[j] = arrivals[j]
        BY <2>2, <1>1
      <4> QED
        BY <3>1, <4>1, <4>2, <1>3 DEF IsBefore, Awaits
    <3>4. IsBefore(i, j)'
      BY <3>2, <3>3, <1>3 DEF IsBefore
    <3> QED
      BY <3>4
  <2> QED
    BY <1>1, <2>1, <2>2
<1>9. OvertakenOnlyWhenForced'
  <2>0. Len(arrivals') = n + 1 /\ user' = user /\ forced' = forced
    BY <1>1, <1>3
  <2> SUFFICES ASSUME NEW i \in 1 .. n + 1, NEW j \in 1 .. n + 1, i < j,
                      user[arrivals'[i]] = user[arrivals'[j]],
                      response'[arrivals'[i]] # "closed", handler'[arrivals'[j]] # "queued"
               PROVE  \E k \in i .. j - 1 : arrivals'[k] \in forced
                                            /\ user[arrivals'[k]] = user[arrivals'[i]]
    BY <2>0 DEF OvertakenOnlyWhenForced
  <2>1. j \in 1 .. n /\ i \in 1 .. n
    <3>1. j # n + 1
      BY <1>1, <1>3 DEF CountInv, TypeOK
    <3> QED
      BY <3>1
  <2>2. /\ user[arrivals[i]] = user[arrivals[j]]
        /\ response[arrivals[i]] # "closed" /\ handler[arrivals[j]] # "queued"
    BY <2>1, <1>1, <1>3, <1>4 DEF CountInv, TypeOK
  <2>3. PICK k \in i .. j - 1 : arrivals[k] \in forced /\ user[arrivals[k]] = user[arrivals[i]]
    BY <2>1, <2>2, <1>1 DEF OrderInv, OvertakenOnlyWhenForced
  <2> QED
    BY <2>1, <2>3, <1>1
<1> QED
  BY <1>5, <1>6, <1>7, <1>8, <1>9 DEF OrderInv

\* A response that is over releases the lock, unless its request was not serialized.
LEMMA CloseKeepsOrder ==
  ASSUME CountInv, OrderInv, NEW q \in Requests, NEW times \in 1 .. 2,
         response[q] \in {"open", "sent"}, CloseResponse(q, times),
         \/ response[q] = "sent" /\ forced' = forced
         \/ forced' = forced \cup {q}
  PROVE  OrderInv'
<1>1. ReleasedInv'
  <2>1. released' \subseteq released \cup {q}
    BY DEF CloseResponse, Release, lockVars
  <2>2. q \in forced' \/ handler[q] = "returned"
    BY DEF CountInv, ArrivalInv
  <2> QED
    BY <2>1, <2>2 DEF CountInv, TypeOK, OrderInv, ReleasedInv, CloseResponse
<1>2. \A u \in Users : locks'[u] = locks[u] \/ (locks'[u] = None /\ locks[u] \in released')
  BY DEF CountInv, TypeOK, CloseResponse, Release, lockVars
<1>3. /\ UNCHANGED <<arrivals, user, previous, handler>>
      /\ released \subseteq released' /\ forced \subseteq forced'
  BY DEF CloseResponse, Release, lockVars
<1>4. \A r \in Requests : response[r] = "closed" => response'[r] = "closed"
  BY DEF CountInv, TypeOK, CloseResponse
<1> QED
  BY <1>1, <1>2, <1>3, <1>4, OtherOrder DEF CountInv

LEMMA OrderStep == CountInv /\ OrderInv /\ [Next]_vars => OrderInv'
<1> SUFFICES ASSUME CountInv, OrderInv, [Next]_vars PROVE OrderInv'
  OBVIOUS
<1>1. ASSUME NEW q \in Requests, ArriveBypassing(q) \/ Refuse(q) PROVE OrderInv'
  <2>1. /\ UNCHANGED <<arrivals, user, previous, released, forced, locks>>
        /\ handler[q] = "absent"
        /\ \A r \in Requests \ {q} : handler'[r] = handler[r] /\ response'[r] = response[r]
    BY <1>1 DEF CountInv, TypeOK, ArriveBypassing, RunHandler, Refuse, lockVars
  <2>2. ReleasedInv'
    <3>1. response[q] = "none"
      BY <2>1 DEF CountInv, ArrivalInv
    <3> QED
      BY <2>1, <3>1 DEF CountInv, TypeOK, OrderInv, ReleasedInv
  <2>3. response[q] # "closed"
    BY <2>1 DEF CountInv, ArrivalInv
  <2>4. \A r \in Requests :
            /\ handler[r] \notin {"absent", "refused"} => handler'[r] \notin {"absent", "refused"}
            /\ handler[r] = "queued" => handler'[r] = "queued"
            /\ response[r] = "closed" => response'[r] = "closed"
    BY <2>1, <2>3
  <2> QED
    BY <2>1, <2>2, <2>4, OtherOrder DEF CountInv
<1>2. ASSUME NEW q \in Requests, Enqueue(q) PROVE OrderInv'
  BY <1>2, EnqueueKeepsOrder
<1>3. ASSUME NEW q \in Requests, Start(q) PROVE OrderInv'
  BY <1>3, StartKeepsOrder
<1>4. ASSUME NEW q \in Requests, Return(q) PROVE OrderInv'
  <2>1. /\ UNCHANGED <<arrivals, user, previous, released, forced, locks>>
        /\ handler[q] = "running" /\ handler' = [handler EXCEPT ![q] = "returned"]
        /\ \A r \in Requests : response[r] = "closed" => response'[r] = "closed"
    BY <1>4 DEF CountInv, TypeOK, Return, GuardedJson, lockVars
  <2>2. ReleasedInv'
    BY <2>1 DEF CountInv, TypeOK, OrderInv, ReleasedInv
  <2> QED
    BY <2>1, <2>2, OtherOrder DEF CountInv, TypeOK
<1>5. ASSUME NEW q \in Requests, ExecutionDeadline(q) PROVE OrderInv'
  <2>1. UNCHANGED <<arrivals, user, previous, released, forced, locks, handler, response>>
    BY <1>5 DEF CountInv, TypeOK, ExecutionDeadline, GuardedJson, lockVars
  <2>2. ReleasedInv'
    BY <2>1 DEF OrderInv, ReleasedInv
  <2> QED
    BY <2>1, <2>2, OtherOrder DEF CountInv
<1>6. ASSUME NEW q \in Requests, QueueDeadline(q) PROVE OrderInv'
  <2>1. /\ UNCHANGED <<arrivals, user, previous, locks, handler, response>>
        /\ released' = released \cup {q} /\ forced' = forced \cup {q}
    BY <1>6 DEF QueueDeadline
  <2>2. ReleasedInv'
    BY <2>1 DEF OrderInv, ReleasedInv
  <2> QED
    BY <2>1, <2>2, OtherOrder DEF CountInv
<1>7. ASSUME NEW q \in Requests, Finish(q) PROVE OrderInv'
  BY <1>7, CloseKeepsOrder DEF Finish
<1>8. ASSUME NEW q \in Requests, HangUp(q) PROVE OrderInv'
  BY <1>8, CloseKeepsOrder DEF HangUp
<1>9. CASE Tick \/ UNCHANGED vars
  <2>1. UNCHANGED <<arrivals, user, previous, released, forced, locks, handler, response>>
    BY <1>9 DEF Tick, vars, lockVars
  <2>2. ReleasedInv'
    BY <2>1 DEF OrderInv, ReleasedInv
  <2> QED
    BY <2>1, <2>2, OtherOrder DEF CountInv
<1> QED
  BY <1>1, <1>2, <1>3, <1>4, <1>5, <1>6, <1>7, <1>8, <1>9 DEF Next

\* A request of a wallet overtakes an earlier one that is not yet answered only when a
\* lock was given up early between the two, for any number of requests and wallets.
THEOREM OvertakenOnlyWhenForcedHolds == Spec => []OvertakenOnlyWhenForced
<1>1. OrderInv => OvertakenOnlyWhenForced
  BY DEF OrderInv
<1> QED
  BY <1>1, OrderInit, OrderStep, Counting, PTL DEF Spec

=============================================================================
