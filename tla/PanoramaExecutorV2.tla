------------------------- MODULE PanoramaExecutorV2 -------------------------
(***************************************************************************)
(* contracts/aerodrome/core/PanoramaExecutorV2.sol: the entry point that   *)
(* routes a user's call to the user's own adapter, a proxy it creates on   *)
(* first use behind the beacon registered for the protocol.                *)
(*                                                                         *)
(* The executor knows nothing of tokens and adapters, and neither does     *)
(* this module: world is whatever lies outside the executor, and three     *)
(* constant operators say what a call into it can lead to.  Each yields    *)
(* the set of worlds after the call; the empty set means that it reverts,  *)
(* and with it the transaction.  execute and executeSwapFor are            *)
(* nonReentrant and the adapters call back no registry function, so one    *)
(* external function is one action.                                        *)
(***************************************************************************)
EXTENDS Integers

CONSTANTS
    Users,              \* accounts with adapters
    Operators,          \* contracts the owner may authorise, the DCA vault
    Admins,             \* accounts that may own the executor
    Candidates,         \* those of them the owner considers
    NoAddress,          \* address(0)
    Protocols,          \* protocol identifiers
    Beacons, InitArgs,  \* what registerBeacon is called with
    RemovalDelay,       \* BEACON_REMOVAL_DELAY
    Horizon,            \* bound: the last block.timestamp considered
    Tokens,             \* ERC-20 tokens, and the native currency
    Calls, Payments,    \* the calls and the payments (token -> amount) callers send
    Worlds,             \* the states of everything outside
    Pull(_, _, _, _),   \* (world, from, to, payment): safeTransferFrom and msg.value
    Dispatch(_, _, _),  \* (adapter, call, world): adapter.call(action ++ data)
    Sweep(_, _, _)      \* (world, token, to): the executor's own balance

\* What the modules that instantiate this one assume of the constants.
ExecutorAssumption ==
    /\ NoAddress \notin Users \cup Operators \cup Admins \cup Beacons
    /\ Candidates \subseteq Admins
    /\ RemovalDelay \in Nat \ {0} /\ Horizon \in Nat

VARIABLES
    now,                                \* block.timestamp
    owner, pendingOwner,
    protocolBeacons, protocolInitArgs,  \* per protocol
    userAdapters,                       \* per protocol and user
    authorizedOperators,                \* the operators whose flag is set
    pendingBeaconRemovals,              \* per protocol the time of unlock, 0 = none
    scheduledAt,                        \* history: when that removal was scheduled
    world

registryVars == <<protocolBeacons, protocolInitArgs, pendingBeaconRemovals, scheduledAt>>
ownerVars == <<owner, pendingOwner, authorizedOperators>>
vars == <<now, ownerVars, registryVars, userAdapters, world>>

\* Mutant of Create2: the salt leaves the user out.
Create2OfProtocol(protocol, user) ==
    [user |-> CHOOSE u \in Users : TRUE, protocol |-> protocol,
     beacon |-> protocolBeacons[protocol], initArgs |-> protocolInitArgs[protocol]]

\* The address of a new proxy is a hash of the salt (user, protocol) and the creation
\* code (beacon, initializer arguments): different arguments, different addresses.
Create2(protocol, user) ==
    [user |-> user, protocol |-> protocol,
     beacon |-> protocolBeacons[protocol], initArgs |-> protocolInitArgs[protocol]]

Adapter == [user : Users, protocol : Protocols, beacon : Beacons, initArgs : InitArgs]

predictUserAdapter(protocol, user) ==
    IF protocolBeacons[protocol] = NoAddress THEN NoAddress ELSE Create2(protocol, user)

\* The adapter a call of this user runs in, existing or about to be created.
AdapterFor(protocol, user) ==
    IF userAdapters[protocol][user] # NoAddress
      THEN userAdapters[protocol][user]
      ELSE predictUserAdapter(protocol, user)

\* What a routed call can lead to: the payment moves into the adapter first.
Results(payer, adapter, call, payment) ==
    UNION {Dispatch(adapter, call, paid) : paid \in Pull(world, payer, adapter, payment)}

-----------------------------------------------------------------------------
Init ==
    /\ now \in 0 .. Horizon
    /\ owner \in Admins /\ pendingOwner = NoAddress
    /\ protocolBeacons = [p \in Protocols |-> NoAddress]
    /\ protocolInitArgs = [p \in Protocols |-> NoAddress]
    /\ userAdapters = [p \in Protocols |-> [u \in Users |-> NoAddress]]
    /\ authorizedOperators = {}
    /\ pendingBeaconRemovals = [p \in Protocols |-> 0]
    /\ scheduledAt = [p \in Protocols |-> 0]
    /\ world \in Worlds

Tick ==
    /\ now < Horizon
    /\ now' = now + 1
    /\ UNCHANGED <<ownerVars, registryVars, userAdapters, world>>

\* Everybody else: token transfers, approvals, trades.
Environment ==
    /\ world' \in Worlds
    /\ UNCHANGED <<now, ownerVars, registryVars, userAdapters>>

\* Mutant of Route: the adapter is created anew for every call.
RouteAnew(payer, user, protocol, call, payment, deadline) ==
    LET adapter == predictUserAdapter(protocol, user) IN
    /\ now <= deadline
    /\ adapter # NoAddress
    /\ userAdapters' = [userAdapters EXCEPT ![protocol][user] = adapter]
    /\ world' \in Results(payer, adapter, call, payment)
    /\ UNCHANGED <<now, ownerVars, registryVars>>

\* The common part of execute and executeSwapFor.
Route(payer, user, protocol, call, payment, deadline) ==
    LET adapter == AdapterFor(protocol, user) IN
    /\ now <= deadline
    /\ adapter # NoAddress
    /\ userAdapters' = [userAdapters EXCEPT ![protocol][user] = adapter]
    /\ world' \in Results(payer, adapter, call, payment)
    /\ UNCHANGED <<now, ownerVars, registryVars>>

execute(user, protocol, call, payment, deadline) ==
    Route(user, user, protocol, call, payment, deadline)

executeSwapFor(operator, user, protocol, call, payment, deadline) ==
    /\ operator \in authorizedOperators
    /\ Route(operator, user, protocol, call, payment, deadline)

-----------------------------------------------------------------------------
(* Administration                                                          *)

OnlyOwner(u) == u = owner

RegistryOnly == UNCHANGED <<now, ownerVars, userAdapters, world>>

\* A removal that was scheduled before stays scheduled.
registerBeacon(u, protocol, beacon, initArgs) ==
    /\ OnlyOwner(u)
    /\ beacon # NoAddress
    /\ protocolBeacons' = [protocolBeacons EXCEPT ![protocol] = beacon]
    /\ protocolInitArgs' = [protocolInitArgs EXCEPT ![protocol] = initArgs]
    /\ UNCHANGED <<pendingBeaconRemovals, scheduledAt>>
    /\ RegistryOnly

scheduleBeaconRemoval(u, protocol) ==
    /\ OnlyOwner(u)
    /\ protocolBeacons[protocol] # NoAddress
    /\ pendingBeaconRemovals' = [pendingBeaconRemovals EXCEPT ![protocol] = now + RemovalDelay]
    /\ scheduledAt' = [scheduledAt EXCEPT ![protocol] = now]
    /\ UNCHANGED <<protocolBeacons, protocolInitArgs>>
    /\ RegistryOnly

\* Mutant of executeBeaconRemoval: a removal that is not scheduled has unlocked.
executeBeaconRemovalUnscheduled(u, protocol) ==
    /\ OnlyOwner(u)
    /\ now >= pendingBeaconRemovals[protocol]
    /\ protocolBeacons' = [protocolBeacons EXCEPT ![protocol] = NoAddress]
    /\ pendingBeaconRemovals' = [pendingBeaconRemovals EXCEPT ![protocol] = 0]
    /\ scheduledAt' = [scheduledAt EXCEPT ![protocol] = 0]
    /\ UNCHANGED protocolInitArgs
    /\ RegistryOnly

executeBeaconRemoval(u, protocol) ==
    /\ OnlyOwner(u)
    /\ pendingBeaconRemovals[protocol] # 0
    /\ now >= pendingBeaconRemovals[protocol]
    /\ protocolBeacons' = [protocolBeacons EXCEPT ![protocol] = NoAddress]
    /\ pendingBeaconRemovals' = [pendingBeaconRemovals EXCEPT ![protocol] = 0]
    /\ scheduledAt' = [scheduledAt EXCEPT ![protocol] = 0]
    /\ UNCHANGED protocolInitArgs
    /\ RegistryOnly

cancelBeaconRemoval(u, protocol) ==
    /\ OnlyOwner(u)
    /\ pendingBeaconRemovals[protocol] # 0
    /\ pendingBeaconRemovals' = [pendingBeaconRemovals EXCEPT ![protocol] = 0]
    /\ scheduledAt' = [scheduledAt EXCEPT ![protocol] = 0]
    /\ UNCHANGED <<protocolBeacons, protocolInitArgs>>
    /\ RegistryOnly

setAuthorizedOperator(u, operator, authorized) ==
    /\ OnlyOwner(u)
    /\ operator # NoAddress
    /\ authorizedOperators' = IF authorized THEN authorizedOperators \cup {operator}
                                            ELSE authorizedOperators \ {operator}
    /\ UNCHANGED <<now, owner, pendingOwner, registryVars, userAdapters, world>>

proposeOwner(u, newOwner) ==
    /\ OnlyOwner(u)
    /\ newOwner # NoAddress
    /\ pendingOwner' = newOwner
    /\ UNCHANGED <<now, owner, authorizedOperators, registryVars, userAdapters, world>>

acceptOwnership(u) ==
    /\ u = pendingOwner
    /\ owner' = pendingOwner
    /\ pendingOwner' = NoAddress
    /\ UNCHANGED <<now, authorizedOperators, registryVars, userAdapters, world>>

\* emergencyWithdraw for the native currency, emergencyWithdrawERC20 for a token.
emergencyWithdraw(u, token) ==
    /\ OnlyOwner(u)
    /\ world' \in Sweep(world, token, owner)
    /\ UNCHANGED <<now, ownerVars, registryVars, userAdapters>>

-----------------------------------------------------------------------------
Operate ==
    \E user \in Users, protocol \in Protocols, call \in Calls,
       payment \in Payments, deadline \in 0 .. Horizon :
        \/ execute(user, protocol, call, payment, deadline)
        \/ \E operator \in Operators :
              executeSwapFor(operator, user, protocol, call, payment, deadline)

Administer ==
    \E u \in Admins :
        \/ \E protocol \in Protocols :
              \/ \E beacon \in Beacons, initArgs \in InitArgs :
                    registerBeacon(u, protocol, beacon, initArgs)
              \/ scheduleBeaconRemoval(u, protocol)
              \/ executeBeaconRemoval(u, protocol)
              \/ cancelBeaconRemoval(u, protocol)
        \/ \E operator \in Operators, authorized \in BOOLEAN :
              setAuthorizedOperator(u, operator, authorized)
        \/ \E newOwner \in Candidates : proposeOwner(u, newOwner)
        \/ acceptOwnership(u)
        \/ \E token \in Tokens : emergencyWithdraw(u, token)

Next == Tick \/ Environment \/ Operate \/ Administer

Spec == Init /\ [][Next]_vars

-----------------------------------------------------------------------------
(* Properties                                                              *)

\* Every variable holds a value of its Solidity type, and an adapter stands in the
\* slot of the user and the protocol it was made for.
TypeOK ==
    /\ now \in 0 .. Horizon
    /\ owner \in Admins /\ pendingOwner \in Admins \cup {NoAddress}
    /\ protocolBeacons \in [Protocols -> Beacons \cup {NoAddress}]
    /\ protocolInitArgs \in [Protocols -> InitArgs \cup {NoAddress}]
    /\ userAdapters \in [Protocols -> [Users -> Adapter \cup {NoAddress}]]
    /\ authorizedOperators \subseteq Operators
    /\ pendingBeaconRemovals \in [Protocols -> Nat]
    /\ scheduledAt \in [Protocols -> Nat]

\* README.md:31: "each user's positions are fully isolated".  No two users, and no two
\* protocols of one user, ever share an adapter, whatever beacons were registered,
\* removed and registered again in between.
Isolation ==
    \A p, q \in Protocols : \A u, v \in Users :
        /\ userAdapters[p][u] # NoAddress
        /\ userAdapters[p][u] = userAdapters[q][v]
        => p = q /\ u = v

\* The adapter, which holds the user's gauge and lending positions, is for ever: no
\* registration, removal or later call gives the user another one.
AdapterIsForever ==
    [][ \A p \in Protocols, u \in Users :
          userAdapters[p][u] # NoAddress => userAdapters'[p][u] = userAdapters[p][u] ]_vars

\* A beacon disappears only after a removal was scheduled for its protocol, not
\* cancelled since, and RemovalDelay has passed since the latest scheduling.
RemovalTimelock ==
    [][ \A p \in Protocols :
          protocolBeacons[p] # NoAddress /\ protocolBeacons'[p] = NoAddress =>
            /\ pendingBeaconRemovals[p] # 0
            /\ now - scheduledAt[p] >= RemovalDelay ]_vars
=============================================================================
