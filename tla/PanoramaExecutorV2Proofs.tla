---------------------- MODULE PanoramaExecutorV2Proofs ----------------------
(***************************************************************************)
(* Proofs about the executor for every set of users, protocols, beacons    *)
(* and operators, and whatever the contracts outside do: nothing is        *)
(* assumed of Pull, Dispatch and Sweep.                                    *)
(***************************************************************************)
EXTENDS PanoramaExecutorV2, TLAPS

\* A protocol with a beacon has the initializer arguments it was registered with.
Registered ==
    \A p \in Protocols : protocolBeacons[p] # NoAddress => protocolInitArgs[p] \in InitArgs

\* An adapter is the one its slot was created for.
InOwnSlot ==
    \A p \in Protocols, u \in Users :
        userAdapters[p][u] # NoAddress =>
            userAdapters[p][u].user = u /\ userAdapters[p][u].protocol = p

\* A removal unlocks RemovalDelay after it was scheduled.
UnlockAfterDelay ==
    \A p \in Protocols :
        pendingBeaconRemovals[p] # 0 => pendingBeaconRemovals[p] = scheduledAt[p] + RemovalDelay

Inv == TypeOK /\ Registered /\ InOwnSlot /\ UnlockAfterDelay

-----------------------------------------------------------------------------
(* One lemma per kind of step                                              *)

\* Initially nothing is registered.
LEMMA InitInv == ASSUME ExecutorAssumption PROVE Init => Inv
  BY DEF Init, Inv, TypeOK, Registered, InOwnSlot, UnlockAfterDelay, ExecutorAssumption

\* The adapter a call runs in is the user's own, the one that is there or a new one.
LEMMA AdapterOfSlot ==
  ASSUME ExecutorAssumption, Inv, NEW p \in Protocols, NEW u \in Users,
         AdapterFor(p, u) # NoAddress
  PROVE  /\ AdapterFor(p, u) \in Adapter
         /\ AdapterFor(p, u).user = u /\ AdapterFor(p, u).protocol = p
  <1>1. CASE userAdapters[p][u] # NoAddress
    BY <1>1 DEF AdapterFor, Inv, TypeOK, InOwnSlot
  <1>2. CASE userAdapters[p][u] = NoAddress
    <2>1. AdapterFor(p, u) = predictUserAdapter(p, u)
      BY <1>2 DEF AdapterFor
    <2>2. protocolBeacons[p] # NoAddress
      BY <2>1 DEF predictUserAdapter
    <2>3. protocolBeacons[p] \in Beacons /\ protocolInitArgs[p] \in InitArgs
      BY <2>2 DEF Inv, TypeOK, Registered
    <2>4. AdapterFor(p, u) = Create2(p, u)
      BY <2>1, <2>2 DEF predictUserAdapter
    <2> QED
      BY <2>3, <2>4 DEF Create2, Adapter
  <1> QED
    BY <1>1, <1>2

\* A routed call writes the slot of its user, and only if it was empty.
LEMMA RouteInv ==
  ASSUME ExecutorAssumption, Inv,
         NEW payer, NEW u \in Users, NEW p \in Protocols, NEW call, NEW payment, NEW deadline,
         Route(payer, u, p, call, payment, deadline)
  PROVE  Inv'
  <1> DEFINE a == AdapterFor(p, u)
  <1>1. a # NoAddress /\ userAdapters' = [userAdapters EXCEPT ![p][u] = a]
    BY DEF Route
  <1>2. a \in Adapter /\ a.user = u /\ a.protocol = p
    BY <1>1, AdapterOfSlot
  <1>3. UNCHANGED <<now, ownerVars, registryVars>>
    BY DEF Route
  <1> HIDE DEF a
  <1>4. TypeOK'
    BY <1>1, <1>2, <1>3 DEF Inv, TypeOK, ownerVars, registryVars
  <1>5. \A q \in Protocols, v \in Users :
           userAdapters'[q][v] = IF q = p /\ v = u THEN a ELSE userAdapters[q][v]
    BY <1>1 DEF Inv, TypeOK
  <1>6. InOwnSlot'
    BY <1>2, <1>5 DEF Inv, InOwnSlot
  <1>7. Registered' /\ UnlockAfterDelay'
    BY <1>3 DEF Inv, Registered, UnlockAfterDelay, registryVars
  <1> QED
    BY <1>4, <1>6, <1>7 DEF Inv

\* The owner's functions leave the adapters alone and set the removal times together.
LEMMA AdministerInv ==
  ASSUME ExecutorAssumption, Inv, Administer
  PROVE  Inv' /\ UNCHANGED userAdapters
  <1>1. PICK u \in Admins :
          \/ \E p \in Protocols :
                \/ \E beacon \in Beacons, initArgs \in InitArgs :
                      registerBeacon(u, p, beacon, initArgs)
                \/ scheduleBeaconRemoval(u, p)
                \/ executeBeaconRemoval(u, p)
                \/ cancelBeaconRemoval(u, p)
          \/ \E operator \in Operators, authorized \in BOOLEAN :
                setAuthorizedOperator(u, operator, authorized)
          \/ \E newOwner \in Candidates : proposeOwner(u, newOwner)
          \/ acceptOwnership(u)
          \/ \E token \in Tokens : emergencyWithdraw(u, token)
    BY DEF Administer
  <1>2. ASSUME NEW p \in Protocols, NEW beacon \in Beacons, NEW initArgs \in InitArgs,
               registerBeacon(u, p, beacon, initArgs)
        PROVE  Inv' /\ UNCHANGED userAdapters
    BY <1>2 DEF registerBeacon, RegistryOnly, ownerVars, Inv, TypeOK, Registered, InOwnSlot,
                UnlockAfterDelay
  <1>3. ASSUME NEW p \in Protocols, scheduleBeaconRemoval(u, p)
        PROVE  Inv' /\ UNCHANGED userAdapters
    BY <1>3 DEF scheduleBeaconRemoval, RegistryOnly, ownerVars, Inv, TypeOK, Registered,
                InOwnSlot, UnlockAfterDelay, ExecutorAssumption
  <1>4. ASSUME NEW p \in Protocols, executeBeaconRemoval(u, p)
        PROVE  Inv' /\ UNCHANGED userAdapters
    BY <1>4 DEF executeBeaconRemoval, RegistryOnly, ownerVars, Inv, TypeOK, Registered,
                InOwnSlot, UnlockAfterDelay
  <1>5. ASSUME NEW p \in Protocols, cancelBeaconRemoval(u, p)
        PROVE  Inv' /\ UNCHANGED userAdapters
    BY <1>5 DEF cancelBeaconRemoval, RegistryOnly, ownerVars, Inv, TypeOK, Registered,
                InOwnSlot, UnlockAfterDelay
  <1>6. ASSUME NEW operator \in Operators, NEW authorized \in BOOLEAN,
               setAuthorizedOperator(u, operator, authorized)
        PROVE  Inv' /\ UNCHANGED userAdapters
    BY <1>6 DEF setAuthorizedOperator, registryVars, Inv, TypeOK, Registered, InOwnSlot,
                UnlockAfterDelay
  <1>7. ASSUME NEW newOwner \in Candidates, proposeOwner(u, newOwner)
        PROVE  Inv' /\ UNCHANGED userAdapters
    BY <1>7 DEF proposeOwner, registryVars, Inv, TypeOK, Registered, InOwnSlot,
                UnlockAfterDelay, ExecutorAssumption
  <1>8. ASSUME acceptOwnership(u)
        PROVE  Inv' /\ UNCHANGED userAdapters
    BY <1>8 DEF acceptOwnership, registryVars, Inv, TypeOK, Registered, InOwnSlot,
                UnlockAfterDelay, ExecutorAssumption
  <1>9. ASSUME NEW token \in Tokens, emergencyWithdraw(u, token)
        PROVE  Inv' /\ UNCHANGED userAdapters
    BY <1>9 DEF emergencyWithdraw, ownerVars, registryVars, Inv, TypeOK, Registered,
                InOwnSlot, UnlockAfterDelay
  <1> QED
    BY <1>1, <1>2, <1>3, <1>4, <1>5, <1>6, <1>7, <1>8, <1>9

\* A step is a routed call or leaves every adapter where it is.
LEMMA StepInv ==
  ASSUME ExecutorAssumption, Inv, [Next]_vars
  PROVE  /\ Inv'
         /\ \/ UNCHANGED userAdapters
            \/ \E u \in Users, p \in Protocols : \E payer, call, payment, deadline :
                  Route(payer, u, p, call, payment, deadline)
  <1>1. CASE Tick
    BY <1>1 DEF Tick, ownerVars, registryVars, Inv, TypeOK, Registered, InOwnSlot,
                UnlockAfterDelay, ExecutorAssumption
  <1>2. CASE Environment
    BY <1>2 DEF Environment, ownerVars, registryVars, Inv, TypeOK, Registered, InOwnSlot,
                UnlockAfterDelay
  <1>3. CASE Operate
    <2>1. \E u \in Users, p \in Protocols : \E payer, call, payment, deadline :
             Route(payer, u, p, call, payment, deadline)
      BY <1>3 DEF Operate, execute, executeSwapFor
    <2> QED
      BY <2>1, RouteInv
  <1>4. CASE Administer
    BY <1>4, AdministerInv
  <1>5. CASE UNCHANGED vars
    BY <1>5 DEF vars, ownerVars, registryVars, Inv, TypeOK, Registered, InOwnSlot,
                UnlockAfterDelay
  <1> QED
    BY <1>1, <1>2, <1>3, <1>4, <1>5 DEF Next

-----------------------------------------------------------------------------
(* Theorems                                                                *)

\* The invariant holds whatever callers, owners and the contracts outside do.
THEOREM InvHolds == ASSUME ExecutorAssumption PROVE Spec => []Inv
  <1>1. Init => Inv
    BY InitInv
  <1>2. Inv /\ [Next]_vars => Inv'
    BY StepInv
  <1> QED
    BY <1>1, <1>2, PTL DEF Spec

\* Every variable of the executor keeps its type.
THEOREM TypeCorrect == ASSUME ExecutorAssumption PROVE Spec => []TypeOK
  <1>1. Inv => TypeOK
    BY DEF Inv
  <1> QED
    BY <1>1, InvHolds, PTL

\* README.md:31, "each user's positions are fully isolated": no two users, and no two
\* protocols of one user, ever share an adapter (PanoramaExecutorV2.sol:153).
THEOREM IsolationHolds == ASSUME ExecutorAssumption PROVE Spec => []Isolation
  <1>1. Inv => Isolation
    BY DEF Inv, InOwnSlot, Isolation
  <1> QED
    BY <1>1, InvHolds, PTL

\* No registration, removal or later call gives a user who has an adapter another one.
THEOREM AdapterIsForeverHolds == ASSUME ExecutorAssumption PROVE Spec => AdapterIsForever
  <1> DEFINE Kept == \A p \in Protocols, u \in Users :
               userAdapters[p][u] # NoAddress => userAdapters'[p][u] = userAdapters[p][u]
  <1>1. ASSUME Inv, [Next]_vars PROVE Kept
    <2>1. CASE UNCHANGED userAdapters
      BY <2>1
    <2>2. ASSUME NEW payer, NEW u \in Users, NEW p \in Protocols, NEW call, NEW payment,
                 NEW deadline, Route(payer, u, p, call, payment, deadline)
          PROVE  Kept
      BY <1>1, <2>2 DEF Route, AdapterFor, Inv, TypeOK
    <2> QED
      BY <1>1, <2>1, <2>2, StepInv
  <1>2. Inv /\ [Next]_vars => [Kept]_vars
    BY <1>1
  <1> QED
    BY <1>2, InvHolds, PTL DEF Spec, AdapterIsForever

\* PanoramaExecutorV2.sol:320: a beacon disappears only RemovalDelay after its removal was
\* last scheduled, and only if that was not cancelled.
THEOREM RemovalTimelockHolds == ASSUME ExecutorAssumption PROVE Spec => RemovalTimelock
  <1> DEFINE Delayed == \A p \in Protocols :
               protocolBeacons[p] # NoAddress /\ protocolBeacons'[p] = NoAddress =>
                 /\ pendingBeaconRemovals[p] # 0
                 /\ now - scheduledAt[p] >= RemovalDelay
  <1>1. ASSUME Inv, [Next]_vars PROVE [Delayed]_vars
    <2>1. ASSUME NEW p \in Protocols, protocolBeacons[p] # NoAddress,
                 protocolBeacons'[p] = NoAddress
          PROVE  \E u \in Admins : executeBeaconRemoval(u, p)
      BY <1>1, <2>1 DEF Next, Tick, Environment, Operate, execute, executeSwapFor, Route,
         Administer, registerBeacon, scheduleBeaconRemoval, executeBeaconRemoval,
         cancelBeaconRemoval, setAuthorizedOperator, proposeOwner, acceptOwnership,
         emergencyWithdraw, RegistryOnly, registryVars, vars, Inv, TypeOK, ExecutorAssumption
    <2>2. ASSUME NEW p \in Protocols, NEW u \in Admins, executeBeaconRemoval(u, p)
          PROVE  pendingBeaconRemovals[p] # 0 /\ now - scheduledAt[p] >= RemovalDelay
      BY <1>1, <2>2 DEF executeBeaconRemoval, Inv, TypeOK, UnlockAfterDelay, ExecutorAssumption
    <2> QED
      BY <2>1, <2>2
  <1> QED
    BY <1>1, InvHolds, PTL DEF Spec, RemovalTimelock
=============================================================================
