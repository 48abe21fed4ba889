----------------------------- MODULE RateLimiter ------------------------------
(***************************************************************************)
(* The rate limiter in front of all routes (backend/src/middleware/        *)
(* rateLimiter.ts).  A request is counted in up to three tiers, by address *)
(* of the client, by wallet, and by either of them for the prepare-*       *)
(* endpoints; the first tier that refuses it ends the matter, and the      *)
(* counts of the tiers before stay.                                        *)
(***************************************************************************)
EXTENDS Naturals, Sequences, FiniteSetsExt, Functions

CONSTANTS
    Clients, Senders,   \* addresses of clients; wallets
    NoWallet,           \* of a request in which none is found
    NoCount,            \* no entry in a store
    WindowOf, MaxOf     \* tier -> its window and its limit

Tiers == {"ip", "user", "prepare"}
LimitKeys == Clients \cup Senders

ASSUME LimiterAssumption ==
    /\ NoWallet \notin LimitKeys /\ NoCount \notin [count : Nat, left : Nat]
    /\ WindowOf \in [Tiers -> Nat] /\ MaxOf \in [Tiers -> Nat \ {0}]

VARIABLES
    counts,     \* tier -> key -> [count, left], left the ticks to resetAt, or NoCount
    passed,     \* history: tier -> key -> ticks ago -> requests the tier let pass
    blocked     \* history: tier -> the keys it has refused during this tick

limiterVars == <<counts, passed, blocked>>

NothingPassed(t) == [k \in LimitKeys |-> [age \in 0 .. WindowOf[t] |-> 0]]

LimiterInit ==
    /\ counts = [t \in Tiers |-> [k \in LimitKeys |-> NoCount]]
    /\ passed = [t \in Tiers |-> NothingPassed(t)]
    /\ blocked = [t \in Tiers |-> {}]

-----------------------------------------------------------------------------
\* Mutant of EntryAfter: each request pushes the end of the window away.
EntrySliding(t, e) ==
    [count |-> IF e = NoCount THEN 1 ELSE IF e.count > MaxOf[t] THEN e.count ELSE e.count + 1,
     left |-> WindowOf[t]]

\* The entry after one more request; its count matters up to one more than the limit.
EntryAfter(t, e) ==
    IF e = NoCount THEN [count |-> 1, left |-> WindowOf[t]]
    ELSE [e EXCEPT !.count = IF @ > MaxOf[t] THEN @ ELSE @ + 1]

\* Mutant of Allows: the count is compared before it is incremented.
AllowsBefore(t, e) == e = NoCount \/ e.count <= MaxOf[t]

Allows(t, e) == EntryAfter(t, e).count <= MaxOf[t]

\* The tiers a request of wallet w from client i meets, each with the key it counts for.
TiersOf(i, w, prepare) ==
    <<<<"ip", i>>>>
    \o (IF w = NoWallet THEN <<>> ELSE <<<<"user", w>>>>)
    \o (IF prepare THEN <<<<"prepare", IF w = NoWallet THEN i ELSE w>>>> ELSE <<>>)

rateLimiter(i, w, prepare) ==
    LET met == TiersOf(i, w, prepare)
        Refuses(n) == ~Allows(met[n][1], counts[met[n][1]][met[n][2]])
        refusing == {n \in DOMAIN met : Refuses(n) /\ \A j \in 1 .. n - 1 : ~Refuses(j)}
        Ends(n) == refusing # {} /\ n > Min(refusing)      \* never reached
        Reached(t, k) == \E n \in DOMAIN met : met[n] = <<t, k>> /\ ~Ends(n)
        RefusedBy(t, k) == \E n \in refusing : met[n] = <<t, k>>
    IN  /\ counts' = [t \in Tiers |-> [k \in LimitKeys |->
              IF Reached(t, k) THEN EntryAfter(t, counts[t][k]) ELSE counts[t][k]]]
        /\ passed' = [t \in Tiers |-> [k \in LimitKeys |->
              IF Reached(t, k) /\ ~RefusedBy(t, k)
                THEN [passed[t][k] EXCEPT ![0] = @ + 1] ELSE passed[t][k]]]
        /\ blocked' = [t \in Tiers |->
              {k \in LimitKeys : RefusedBy(t, k) \/ k \in blocked[t]}]

\* An entry counts until its resetAt has passed, and whether the sweep has removed it
\* since makes no difference.
LimiterTick ==
    /\ counts' = [t \in Tiers |-> [k \in LimitKeys |->
          LET e == counts[t][k] IN
          IF e = NoCount \/ e.left = 0 THEN NoCount ELSE [e EXCEPT !.left = @ - 1]]]
    /\ passed' = [t \in Tiers |-> [k \in LimitKeys |-> [age \in 0 .. WindowOf[t] |->
          IF age = 0 THEN 0 ELSE passed[t][k][age - 1]]]]
    /\ blocked' = [t \in Tiers |-> {}]

\* The counts are in memory only.  What passed before no longer matters.
LimiterRestart ==
    /\ counts' = [t \in Tiers |-> [k \in LimitKeys |-> NoCount]]
    /\ passed' = [t \in Tiers |-> NothingPassed(t)]
    /\ blocked' = [t \in Tiers |-> {}]

LimiterNext ==
    \/ \E i \in Clients, w \in Senders \cup {NoWallet}, prepare \in BOOLEAN :
          rateLimiter(i, w, prepare)
    \/ LimiterTick
    \/ LimiterRestart

-----------------------------------------------------------------------------
(* Properties                                                              *)

\* What a tier let pass for key k during the last window.
PassedLately(t, k) == SumFunction(passed[t][k])

\* The windows do not slide, so a burst at the end of one and another at the start of the
\* next come together; more than that never passes in the length of a window.
BurstIsBounded ==
    \A t \in Tiers, k \in LimitKeys : PassedLately(t, k) <= 2 * MaxOf[t]

\* A tier refuses a client only if it has let its limit pass within the last window:
\* requests that are refused do not prolong the refusal, however many there are.
RefusalIsEarned ==
    \A t \in Tiers : \A k \in blocked[t] : PassedLately(t, k) >= MaxOf[t]
=============================================================================
