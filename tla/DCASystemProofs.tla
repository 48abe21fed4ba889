--------------------------- MODULE DCASystemProofs ---------------------------
(* What holds of vault, executor, adapters and pool together, for any      *)
(* number of accounts, orders, beacons and amounts.                        *)
EXTENDS DCASystem, TLAPS

-----------------------------------------------------------------------------
(* The registry                                                            *)

\* A beacon comes with its arguments, an adapter stands in its user's slot, and a removal
\* unlocks RemovalDelay after it was scheduled.
RegistryOK ==
    /\ now \in Nat
    /\ execOwner \in Address /\ execPendingOwner \in Address \cup {NoAddress}
    /\ protocolBeacons \in [{Aerodrome} -> Beacons \cup {NoAddress}]
    /\ protocolInitArgs \in [{Aerodrome} -> InitArgs \cup {NoAddress}]
    /\ userAdapters \in [{Aerodrome} -> [Users -> Adapters \cup {NoAddress}]]
    /\ pendingBeaconRemovals \in [{Aerodrome} -> Nat] /\ scheduledAt \in [{Aerodrome} -> Nat]
    /\ protocolBeacons[Aerodrome] # NoAddress => protocolInitArgs[Aerodrome] \in InitArgs
    /\ \A u \in Users : userAdapters[Aerodrome][u] # NoAddress =>
          userAdapters[Aerodrome][u].user = u
    /\ pendingBeaconRemovals[Aerodrome] # 0 =>
          pendingBeaconRemovals[Aerodrome] = scheduledAt[Aerodrome] + RemovalDelay

\* The executor starts with an empty registry.
LEMMA RegistryInit == Init => RegistryOK
BY SystemAssumption DEF Init, V!Init, RegistryOK

\* The adapter a call runs in is the user's own.
LEMMA OwnAdapter ==
  ASSUME RegistryOK, NEW u \in Users, Base!AdapterFor(Aerodrome, u) # NoAddress
  PROVE  /\ Base!AdapterFor(Aerodrome, u) \in Adapters
         /\ Base!AdapterFor(Aerodrome, u).user = u
<1>1. CASE userAdapters[Aerodrome][u] # NoAddress
  BY <1>1 DEF Base!AdapterFor, RegistryOK
<1>2. CASE userAdapters[Aerodrome][u] = NoAddress
  <2>1. Base!AdapterFor(Aerodrome, u) = Base!predictUserAdapter(Aerodrome, u)
    BY <1>2 DEF Base!AdapterFor
  <2>2. protocolBeacons[Aerodrome] # NoAddress
    BY <2>1 DEF Base!predictUserAdapter
  <2>3. protocolBeacons[Aerodrome] \in Beacons /\ protocolInitArgs[Aerodrome] \in InitArgs
    BY <2>2 DEF RegistryOK
  <2>4. Base!AdapterFor(Aerodrome, u) = Base!Create2(Aerodrome, u)
    BY <2>1, <2>2 DEF Base!predictUserAdapter
  <2> QED
    BY <2>3, <2>4 DEF Base!Create2, Adapters
<1> QED
  BY <1>1, <1>2

\* A routed call fills the slot of its user, if it was empty.
LEMMA RoutedRegistry ==
  ASSUME RegistryOK, NEW payer, NEW u \in Users, NEW call, NEW payment, NEW deadline,
         Base!Route(payer, u, Aerodrome, call, payment, deadline)
  PROVE  /\ RegistryOK'
         /\ \A v \in Users : userAdapters[Aerodrome][v] # NoAddress =>
               userAdapters'[Aerodrome][v] = userAdapters[Aerodrome][v]
         /\ UNCHANGED protocolBeacons
<1> DEFINE a == Base!AdapterFor(Aerodrome, u)
<1>1. a # NoAddress /\ userAdapters' = [userAdapters EXCEPT ![Aerodrome][u] = a]
  BY DEF Base!Route
<1>2. a \in Adapters /\ a.user = u
  BY <1>1, OwnAdapter
<1>3. userAdapters[Aerodrome][u] # NoAddress => a = userAdapters[Aerodrome][u]
  BY DEF Base!AdapterFor
<1>4. UNCHANGED <<now, Base!ownerVars, Base!registryVars>>
  BY DEF Base!Route
<1> HIDE DEF a
<1>5. /\ userAdapters' \in [{Aerodrome} -> [Users -> Adapters \cup {NoAddress}]]
      /\ \A v \in Users : userAdapters'[Aerodrome][v] =
            IF v = u THEN a ELSE userAdapters[Aerodrome][v]
  BY <1>1, <1>2 DEF RegistryOK
<1> QED
  BY <1>2, <1>3, <1>4, <1>5 DEF RegistryOK, Base!ownerVars, Base!registryVars

\* The owner's functions leave the adapters alone; only a removal that has waited ends a
\* beacon.
LEMMA AdministeredRegistry ==
  ASSUME RegistryOK, administerExecutor
  PROVE  /\ RegistryOK' /\ UNCHANGED userAdapters
         /\ protocolBeacons[Aerodrome] # NoAddress /\ protocolBeacons'[Aerodrome] = NoAddress =>
              /\ pendingBeaconRemovals[Aerodrome] # 0
              /\ now - scheduledAt[Aerodrome] >= RemovalDelay
<1> DEFINE Goal ==
      /\ RegistryOK' /\ UNCHANGED userAdapters
      /\ protocolBeacons[Aerodrome] # NoAddress /\ protocolBeacons'[Aerodrome] = NoAddress =>
              /\ pendingBeaconRemovals[Aerodrome] # 0
              /\ now - scheduledAt[Aerodrome] >= RemovalDelay
<1>0. /\ NoAddress \notin Address \cup Beacons /\ Candidates \subseteq Address
      /\ RemovalDelay \in Nat
  BY SystemAssumption DEF Base!ExecutorAssumption
<1>1. PICK u \in Address :
        \/ \E beacon \in Beacons, initArgs \in InitArgs :
              Base!registerBeacon(u, Aerodrome, beacon, initArgs)
        \/ Base!scheduleBeaconRemoval(u, Aerodrome)
        \/ Base!executeBeaconRemoval(u, Aerodrome)
        \/ Base!cancelBeaconRemoval(u, Aerodrome)
        \/ \E operator \in {Vault}, authorized \in BOOLEAN :
              Base!setAuthorizedOperator(u, operator, authorized)
        \/ \E newOwner \in Candidates : Base!proposeOwner(u, newOwner)
        \/ Base!acceptOwnership(u)
        \/ \E token \in {Usdc, Native} : Base!emergencyWithdraw(u, token)
  BY DEF administerExecutor, Base!Administer
<1>2. ASSUME NEW beacon \in Beacons, NEW initArgs \in InitArgs,
             Base!registerBeacon(u, Aerodrome, beacon, initArgs)
      PROVE  Goal
  BY <1>0, <1>2 DEF Base!registerBeacon, Base!RegistryOnly, Base!ownerVars, RegistryOK
<1>3. CASE Base!scheduleBeaconRemoval(u, Aerodrome)
  BY <1>0, <1>3 DEF Base!scheduleBeaconRemoval, Base!RegistryOnly, Base!ownerVars, RegistryOK
<1>4. CASE Base!executeBeaconRemoval(u, Aerodrome)
  BY <1>0, <1>4 DEF Base!executeBeaconRemoval, Base!RegistryOnly, Base!ownerVars, RegistryOK
<1>5. CASE Base!cancelBeaconRemoval(u, Aerodrome)
  BY <1>0, <1>5 DEF Base!cancelBeaconRemoval, Base!RegistryOnly, Base!ownerVars, RegistryOK
<1>6. ASSUME NEW operator, NEW authorized, Base!setAuthorizedOperator(u, operator, authorized)
      PROVE  Goal
  BY <1>0, <1>6 DEF Base!setAuthorizedOperator, Base!registryVars, RegistryOK
<1>7. ASSUME NEW newOwner \in Candidates, Base!proposeOwner(u, newOwner)
      PROVE  Goal
  BY <1>0, <1>7 DEF Base!proposeOwner, Base!registryVars, RegistryOK
<1>8. CASE Base!acceptOwnership(u)
  BY <1>0, <1>8 DEF Base!acceptOwnership, Base!registryVars, RegistryOK
<1>9. ASSUME NEW token, Base!emergencyWithdraw(u, token)
      PROVE  Goal
  BY <1>0, <1>9 DEF Base!emergencyWithdraw, Base!registryVars, Base!ownerVars, RegistryOK
<1> QED
  BY <1>1, <1>2, <1>3, <1>4, <1>5, <1>6, <1>7, <1>8, <1>9

-----------------------------------------------------------------------------
(* The orders                                                              *)

\* An order in use has an owner and trades tokens of the pool; a free place has counted
\* nothing.
OrdersOK ==
    /\ now \in Nat /\ nextOrderId \in Nat
    /\ orders \in [V!OrderIds -> V!Order]
    /\ history \in [V!OrderIds -> [asked : Nat, done : Nat, first : Nat]]
    /\ \A o \in V!OrderIds :
          /\ orders[o].owner # NoAddress =>
                /\ o < nextOrderId /\ orders[o].owner \in Address
                /\ orders[o].tokenIn \in Tokens /\ orders[o].tokenOut \in Tokens
          /\ o >= nextOrderId => history[o].done = 0

\* The vault starts without orders.
LEMMA OrdersInit == Init => OrdersOK
<1> SUFFICES ASSUME Init PROVE OrdersOK
  OBVIOUS
<1>1. V!NoOrder \in V!Order /\ V!NoOrder.owner = NoAddress
  BY DEF V!NoOrder, V!Order
<1> QED
  BY <1>1, SystemAssumption DEF Init, V!Init, OrdersOK

\* A counted swap leaves a history of an order.
LEMMA CountedSwap ==
  ASSUME NEW h \in [asked : Nat, done : Nat, first : Nat], now \in Nat
  PROVE  V!CountSwap(h) \in [asked : Nat, done : Nat, first : Nat]
<1> DEFINE d == h.done + 1
           f == IF h.done = 0 THEN now ELSE h.first
<1>1. d \in Nat /\ f \in Nat
  OBVIOUS
<1>2. V!CountSwap(h) = [h EXCEPT !.done = d, !.first = f]
  BY DEF V!CountSwap
<1> HIDE DEF d, f
<1> QED
  BY <1>1, <1>2

\* A change of one order that keeps whose it is and what it trades.
LEMMA OrderChanges ==
  ASSUME OrdersOK, NEW o \in V!OrderIds, NEW r \in V!Order,
         orders' = [orders EXCEPT ![o] = r], UNCHANGED <<now, nextOrderId>>,
         r.owner = orders[o].owner, r.tokenIn = orders[o].tokenIn,
         r.tokenOut = orders[o].tokenOut,
         \/ UNCHANGED history
         \/ history' = [history EXCEPT ![o] = V!CountSwap(history[o])] /\ r.owner # NoAddress
  PROVE  OrdersOK'
<1>1. /\ orders' \in [V!OrderIds -> V!Order]
      /\ \A q \in V!OrderIds : orders'[q] = IF q = o THEN r ELSE orders[q]
  BY DEF OrdersOK
<1>2. /\ history' \in [V!OrderIds -> [asked : Nat, done : Nat, first : Nat]]
      /\ \A q \in V!OrderIds :
            history'[q].done # history[q].done => q = o /\ r.owner # NoAddress
  <2>1. V!CountSwap(history[o]) \in [asked : Nat, done : Nat, first : Nat]
    BY CountedSwap DEF OrdersOK
  <2> QED
    BY <2>1 DEF OrdersOK
<1>3. o >= nextOrderId => r.owner = NoAddress
  BY SystemAssumption DEF OrdersOK, V!OrderIds
<1> QED
  BY <1>1, <1>2, <1>3 DEF OrdersOK

\* createOrder fills the next place, with nothing executed yet.
LEMMA CreatedOrders ==
  ASSUME OrdersOK, NEW u \in Address, NEW i \in Tokens, NEW j \in Tokens, NEW p \in Prices,
         NEW e \in Intervals, NEW l \in Limits, NEW n \in Deposits,
         V!createOrder(u, i, j, p, e, l, n)
  PROVE  OrdersOK' /\ \A o \in V!OrderIds : history'[o].done = history[o].done
<1> DEFINE r == [owner |-> u, tokenIn |-> i, tokenOut |-> j, amountPerSwap |-> p,
                 interval |-> e, lastExecuted |-> 0, remainingSwaps |-> l,
                 balance |-> n, active |-> TRUE]
           h == [asked |-> l, done |-> 0, first |-> 0]
           new == nextOrderId
<1>1. /\ p \in Nat /\ e \in Nat /\ l \in Nat /\ n \in Nat /\ MaxOrders \in Nat
      /\ NoAddress \notin Address
  BY SystemAssumption DEF Base!ExecutorAssumption
<1>2. r \in V!Order /\ h \in [asked : Nat, done : Nat, first : Nat]
  BY <1>1 DEF V!Order
<1>3. r.owner = u /\ r.tokenIn = i /\ r.tokenOut = j /\ h.done = 0
  OBVIOUS
<1>4. /\ new < MaxOrders /\ new \in Nat /\ now' = now /\ nextOrderId' = new + 1
      /\ orders' = [orders EXCEPT ![new] = r] /\ history' = [history EXCEPT ![new] = h]
  BY DEF V!createOrder, V!AdminUnchanged, OrdersOK
<1> HIDE DEF r, h
<1>5. new \in V!OrderIds
  BY <1>1, <1>4 DEF V!OrderIds
<1>6. /\ orders' \in [V!OrderIds -> V!Order]
      /\ history' \in [V!OrderIds -> [asked : Nat, done : Nat, first : Nat]]
      /\ \A o \in V!OrderIds :
            /\ orders'[o] = IF o = new THEN r ELSE orders[o]
            /\ history'[o] = IF o = new THEN h ELSE history[o]
  BY <1>2, <1>4, <1>5 DEF OrdersOK
<1>7. \A o \in V!OrderIds : o \in Nat
  BY <1>1 DEF V!OrderIds
<1>8. \A o \in V!OrderIds : history'[o].done = history[o].done
  BY <1>3, <1>5, <1>6 DEF OrdersOK
<1>9. now' \in Nat /\ nextOrderId' \in Nat
  BY <1>4 DEF OrdersOK
<1>10. ASSUME NEW o \in V!OrderIds, orders'[o].owner # NoAddress
       PROVE  /\ o < nextOrderId' /\ orders'[o].owner \in Address
              /\ orders'[o].tokenIn \in Tokens /\ orders'[o].tokenOut \in Tokens
  <2>1. CASE o = new
    BY <1>3, <1>4, <1>6, <2>1
  <2>2. CASE o # new
    <3>1. orders'[o] = orders[o]
      BY <1>6, <2>2
    <3> QED
      BY <1>4, <1>7, <1>10, <3>1 DEF OrdersOK
  <2> QED
    BY <2>1, <2>2
<1>11. ASSUME NEW o \in V!OrderIds, o >= nextOrderId'
       PROVE  history'[o].done = 0
  <2>1. o >= new
    BY <1>4, <1>7, <1>11
  <2> QED
    BY <1>8, <2>1 DEF OrdersOK
<1> QED
  BY <1>6, <1>8, <1>9, <1>10, <1>11 DEF OrdersOK

\* deposit, cancel and withdraw change one order's funds or flag and count nothing.
LEMMA TouchedOrders ==
  ASSUME OrdersOK, NEW u \in Address, NEW o \in V!OrderIds,
         \/ \E n \in Deposits : V!deposit(u, o, n)
         \/ V!cancel(u, o)
         \/ V!withdraw(u, o)
  PROVE  OrdersOK' /\ UNCHANGED history
<1>0. orders[o] \in V!Order /\ Deposits \subseteq Nat
  BY SystemAssumption DEF OrdersOK
<1>1. ASSUME NEW n \in Deposits, V!deposit(u, o, n)
      PROVE  OrdersOK' /\ UNCHANGED history
  <2> DEFINE r == [orders[o] EXCEPT !.balance = @ + n]
  <2>1. orders' = [orders EXCEPT ![o] = r] /\ UNCHANGED <<now, nextOrderId, history>>
    BY <1>1 DEF V!deposit, V!AdminUnchanged
  <2>2. /\ r \in V!Order /\ r.owner = orders[o].owner /\ r.tokenIn = orders[o].tokenIn
        /\ r.tokenOut = orders[o].tokenOut
    BY <1>0 DEF V!Order
  <2> HIDE DEF r
  <2> QED
    BY <2>1, <2>2, OrderChanges
<1>2. CASE V!cancel(u, o)
  <2> DEFINE r == [orders[o] EXCEPT !.active = FALSE]
  <2>1. orders' = [orders EXCEPT ![o] = r] /\ UNCHANGED <<now, nextOrderId, history>>
    BY <1>2 DEF V!cancel, V!AdminUnchanged
  <2>2. /\ r \in V!Order /\ r.owner = orders[o].owner /\ r.tokenIn = orders[o].tokenIn
        /\ r.tokenOut = orders[o].tokenOut
    BY <1>0 DEF V!Order
  <2> HIDE DEF r
  <2> QED
    BY <2>1, <2>2, OrderChanges
<1>3. CASE V!withdraw(u, o)
  <2> DEFINE r == [orders[o] EXCEPT !.balance = 0]
  <2>1. orders' = [orders EXCEPT ![o] = r] /\ UNCHANGED <<now, nextOrderId, history>>
    BY <1>3 DEF V!withdraw, V!AdminUnchanged
  <2>2. /\ r \in V!Order /\ r.owner = orders[o].owner /\ r.tokenIn = orders[o].tokenIn
        /\ r.tokenOut = orders[o].tokenOut
    BY <1>0 DEF V!Order
  <2> HIDE DEF r
  <2> QED
    BY <2>1, <2>2, OrderChanges
<1> QED
  BY <1>1, <1>2, <1>3

\* An executed order keeps its type, its owner and its tokens.
LEMMA SpentSwap ==
  ASSUME NEW r \in V!Order, now \in Nat, r.balance >= r.amountPerSwap
  PROVE  LET s == [V!SpendSwap(r) EXCEPT !.balance = @ - r.amountPerSwap,
                                         !.lastExecuted = now]
         IN  /\ s \in V!Order /\ s.owner = r.owner /\ s.tokenIn = r.tokenIn
             /\ s.tokenOut = r.tokenOut
<1> DEFINE n == IF r.remainingSwaps > 1 THEN r.remainingSwaps - 1 ELSE r.remainingSwaps
           b == r.active /\ r.remainingSwaps # 1
           q == [r EXCEPT !.remainingSwaps = n, !.active = b]
           k == r.balance - r.amountPerSwap
           s == [q EXCEPT !.balance = k, !.lastExecuted = now]
<1>1. n \in Nat /\ b \in BOOLEAN /\ k \in Nat
  BY DEF V!Order
<1>2. V!SpendSwap(r) = q
  BY DEF V!SpendSwap
<1> HIDE DEF n, b
<1>3. /\ q \in V!Order /\ q.owner = r.owner /\ q.tokenIn = r.tokenIn
      /\ q.tokenOut = r.tokenOut /\ q.balance = r.balance
  BY <1>1 DEF V!Order
<1> HIDE DEF q
<1>4. [V!SpendSwap(r) EXCEPT !.balance = @ - r.amountPerSwap, !.lastExecuted = now] = s
  BY <1>2, <1>3
<1> HIDE DEF k
<1>5. s \in V!Order /\ s.owner = q.owner /\ s.tokenIn = q.tokenIn /\ s.tokenOut = q.tokenOut
  BY <1>1, <1>3 DEF V!Order
<1> HIDE DEF s
<1> QED
  BY <1>3, <1>4, <1>5

\* execute counts one more swap of its order.
LEMMA ExecutedOrders ==
  ASSUME OrdersOK, NEW k, NEW o \in V!OrderIds, orders[o].owner # NoAddress,
         V!execute(k, o, 0)
  PROVE  OrdersOK' /\ history' = [history EXCEPT ![o] = V!CountSwap(history[o])]
<1> DEFINE r == orders[o]
           s == [V!SpendSwap(r) EXCEPT !.balance = @ - r.amountPerSwap, !.lastExecuted = now]
<1>1. r \in V!Order /\ r.balance >= r.amountPerSwap /\ now \in Nat
  BY DEF OrdersOK, V!execute
<1>2. /\ orders' = [orders EXCEPT ![o] = s] /\ UNCHANGED <<now, nextOrderId>>
      /\ history' = [history EXCEPT ![o] = V!CountSwap(history[o])]
  BY DEF V!execute, V!AdminUnchanged
<1>3. s \in V!Order /\ s.owner = r.owner /\ s.tokenIn = r.tokenIn /\ s.tokenOut = r.tokenOut
  BY <1>1, SpentSwap
<1> HIDE DEF s
<1>4. s.owner # NoAddress
  BY <1>3
<1> QED
  BY <1>2, <1>3, <1>4, OrderChanges
-----------------------------------------------------------------------------
(* Every step                                                              *)

\* What is not the executor owner's doing keeps beacons and adapters.
LEMMA RegistryStep ==
  ASSUME RegistryOK, OrdersOK, [Next]_vars
  PROVE  \/ administerExecutor
         \/ /\ RegistryOK' /\ UNCHANGED protocolBeacons
            /\ \A v \in Users : userAdapters[Aerodrome][v] # NoAddress =>
                  userAdapters'[Aerodrome][v] = userAdapters[Aerodrome][v]
<1> DEFINE Goal == /\ RegistryOK' /\ UNCHANGED protocolBeacons
                   /\ \A v \in Users : userAdapters[Aerodrome][v] # NoAddress =>
                         userAdapters'[Aerodrome][v] = userAdapters[Aerodrome][v]
<1>1. ASSUME UNCHANGED execVars, now' \in Nat
      PROVE  Goal
  BY <1>1 DEF execVars, RegistryOK
<1>2. now \in Nat /\ Traders \subseteq Users
  BY SystemAssumption DEF RegistryOK, Users
<1>3. CASE Tick
  <2>1. now' = now + 1 /\ UNCHANGED execVars
    BY <1>3 DEF Tick, V!Tick
  <2> QED
    BY <1>1, <1>2, <2>1
<1>4. ASSUME NEW u \in Traders, NEW pair, NEW price, NEW interval, NEW limit, NEW amount,
             createOrder(u, pair[1], pair[2], price, interval, limit, amount)
      PROVE  Goal
  <2>1. now' = now /\ UNCHANGED execVars
    BY <1>4 DEF createOrder, V!createOrder, V!AdminUnchanged
  <2> QED
    BY <1>1, <1>2, <2>1
<1>5. ASSUME NEW u \in Traders, NEW o \in V!OrderIds,
             \/ \E amount \in Deposits : deposit(u, o, amount)
             \/ cancel(u, o)
             \/ withdraw(u, o)
      PROVE  Goal
  <2>1. now' = now /\ UNCHANGED execVars
    BY <1>5 DEF deposit, V!deposit, cancel, V!cancel, withdraw, V!withdraw, V!AdminUnchanged
  <2> QED
    BY <1>1, <1>2, <2>1
<1>6. ASSUME NEW u \in Traders, NEW deadline, userCalls(u, deadline)
      PROVE  Goal
  BY <1>2, <1>6, RoutedRegistry DEF userCalls, Base!execute
<1>7. ASSUME NEW k, NEW o \in V!OrderIds, NEW deadline, execute(k, o, deadline)
      PROVE  Goal
  <2>1. orders[o].owner \in Users
    BY <1>7 DEF execute, OrdersOK, Users
  <2>2. PICK call, payment :
          Base!Route(Vault, orders[o].owner, Aerodrome, call, payment, deadline)
    BY <1>7 DEF execute, Base!executeSwapFor, ContextOf
  <2> QED
    BY <2>1, <2>2, RoutedRegistry
<1>8. CASE administerVault
  <2>1. now' = now /\ UNCHANGED execVars
    BY <1>8 DEF administerVault, V!Administer, V!proposeKeeper, V!proposeOwner,
      V!proposeExecutor, V!acceptKeeper, V!acceptExecutor, V!acceptOwnership
  <2> QED
    BY <1>1, <1>2, <2>1
<1>9. CASE UNCHANGED vars
  <2>1. now' = now /\ UNCHANGED execVars
    BY <1>9 DEF vars
  <2> QED
    BY <1>1, <1>2, <2>1
<1> QED
  BY <1>3, <1>4, <1>5, <1>6, <1>7, <1>8, <1>9 DEF Next

\* No step spoils an order.
LEMMA OrdersStep ==
  ASSUME RegistryOK', OrdersOK, [Next]_vars
  PROVE  OrdersOK'
<1>0. now' \in Nat /\ Traders \subseteq Address /\ Pairs \subseteq Tokens \X Tokens
  BY SystemAssumption DEF RegistryOK
<1>1. ASSUME UNCHANGED <<orders, nextOrderId, history>>
      PROVE  OrdersOK'
  BY <1>0, <1>1 DEF OrdersOK
<1>2. CASE Tick
  BY <1>1, <1>2 DEF Tick, V!Tick, V!orderVars
<1>3. ASSUME NEW u \in Traders, NEW pair \in Pairs, NEW price \in Prices,
             NEW interval \in Intervals, NEW limit \in Limits, NEW amount \in Deposits,
             createOrder(u, pair[1], pair[2], price, interval, limit, amount)
      PROVE  OrdersOK'
  <2>1. V!createOrder(u, pair[1], pair[2], price, interval, limit, amount)
    BY <1>3 DEF createOrder
  <2>2. u \in Address /\ pair[1] \in Tokens /\ pair[2] \in Tokens
    BY <1>0
  <2> QED
    BY <2>1, <2>2, CreatedOrders
<1>4. ASSUME NEW u \in Traders, NEW o \in V!OrderIds,
             \/ \E amount \in Deposits : deposit(u, o, amount)
             \/ cancel(u, o)
             \/ withdraw(u, o)
      PROVE  OrdersOK'
  <2>1. \/ \E amount \in Deposits : V!deposit(u, o, amount)
        \/ V!cancel(u, o)
        \/ V!withdraw(u, o)
    BY <1>4 DEF deposit, cancel, withdraw
  <2> QED
    BY <1>0, <2>1, TouchedOrders
<1>5. ASSUME NEW u, NEW deadline, userCalls(u, deadline)
      PROVE  OrdersOK'
  BY <1>1, <1>5 DEF userCalls, VaultIdle, vaultVars
<1>6. ASSUME NEW k, NEW o \in V!OrderIds, NEW deadline, execute(k, o, deadline)
      PROVE  OrdersOK'
  BY <1>6, ExecutedOrders DEF execute
<1>7. CASE administerVault
  BY <1>1, <1>7 DEF administerVault, V!Administer, V!proposeKeeper, V!proposeOwner,
    V!proposeExecutor, V!acceptKeeper, V!acceptExecutor, V!acceptOwnership, V!orderVars
<1>8. CASE administerExecutor
  BY <1>1, <1>8 DEF administerExecutor, VaultIdle, vaultVars
<1>9. CASE UNCHANGED vars
  BY <1>1, <1>9 DEF vars, vaultVars
<1> QED
  BY <1>2, <1>3, <1>4, <1>5, <1>6, <1>7, <1>8, <1>9 DEF Next

\* What the theorems rest on.
Reached == RegistryOK /\ OrdersOK

\* Registry and orders are sound in every reachable state.
LEMMA AlwaysReached == Spec => []Reached
<1>1. Init => Reached
  BY RegistryInit, OrdersInit DEF Reached
<1>2. Reached /\ [Next]_vars => Reached'
  BY RegistryStep, AdministeredRegistry, OrdersStep DEF Reached
<1> QED
  BY <1>1, <1>2, PTL DEF Spec

\* Whoever executes orders for an owner, registers and removes beacons and calls the
\* executor in whatever order, the owner's adapter stays the same.
THEOREM AdapterIsForeverHolds == Spec => AdapterIsForever
<1>1. Reached /\ [Next]_vars =>
        [ \A p \in {Aerodrome}, u \in Users :
            userAdapters[p][u] # NoAddress => userAdapters'[p][u] = userAdapters[p][u]
        ]_Base!vars
  BY RegistryStep, AdministeredRegistry DEF Reached
<1> QED
  BY <1>1, AlwaysReached, PTL DEF Spec, AdapterIsForever, Base!AdapterIsForever

-----------------------------------------------------------------------------
(* The delays                                                              *)

\* A pending keeper or owner of the vault is unlocked a full delay after the proposal.
DelaysOK ==
    /\ pendingKeeper \in Address \cup {NoAddress}
    /\ pendingOwner \in Address \cup {NoAddress}
    /\ proposedAt \in [keeper : Nat, owner : Nat, executor : Nat]
    /\ pendingKeeper # NoAddress => keeperChangeUnlockAt = proposedAt.keeper + AdminDelay
    /\ pendingOwner # NoAddress => ownershipTransferUnlockAt = proposedAt.owner + AdminDelay

\* A step exchanges keeper or owner for the pending one and in time.
InTime ==
    /\ keeper' # keeper => keeper' = pendingKeeper /\ now - proposedAt.keeper >= AdminDelay
    /\ owner' # owner => owner' = pendingOwner /\ now - proposedAt.owner >= AdminDelay

\* The vault's owner exchanges a role no earlier than its delay.
LEMMA AdministeredVault ==
  ASSUME DelaysOK, administerVault, now \in Nat
  PROVE  DelaysOK' /\ InTime
<1>0. /\ AdminDelay \in Nat /\ NoAddress \notin Address /\ Candidates \subseteq Address
      /\ proposedAt \in [keeper : Nat, owner : Nat, executor : Nat]
  BY SystemAssumption DEF Base!ExecutorAssumption, DelaysOK
<1>1. PICK u \in Address :
        \/ \E c \in Candidates : V!proposeKeeper(u, c) \/ V!proposeOwner(u, c)
        \/ \E e \in Executors : V!proposeExecutor(u, e)
        \/ V!acceptKeeper(u) \/ V!acceptExecutor(u) \/ V!acceptOwnership(u)
  BY DEF administerVault, V!Administer
<1>2. ASSUME NEW c \in Candidates, V!proposeKeeper(u, c)
      PROVE  DelaysOK' /\ InTime
  BY <1>0, <1>2 DEF DelaysOK, InTime, V!proposeKeeper, V!ownerVars, V!executorVars
<1>3. ASSUME NEW c \in Candidates, V!proposeOwner(u, c)
      PROVE  DelaysOK' /\ InTime
  BY <1>0, <1>3 DEF DelaysOK, InTime, V!proposeOwner, V!keeperVars, V!executorVars
<1>4. ASSUME NEW e, V!proposeExecutor(u, e)
      PROVE  DelaysOK' /\ InTime
  BY <1>0, <1>4 DEF DelaysOK, InTime, V!proposeExecutor, V!keeperVars, V!ownerVars
<1>5. CASE V!acceptKeeper(u)
  BY <1>0, <1>5 DEF DelaysOK, InTime, V!acceptKeeper, V!ownerVars, V!executorVars
<1>6. CASE V!acceptExecutor(u)
  BY <1>0, <1>6 DEF DelaysOK, InTime, V!acceptExecutor, V!ownerVars, V!keeperVars
<1>7. CASE V!acceptOwnership(u)
  BY <1>0, <1>7 DEF DelaysOK, InTime, V!acceptOwnership, V!keeperVars, V!executorVars
<1> QED
  BY <1>1, <1>2, <1>3, <1>4, <1>5, <1>6, <1>7

\* Nothing but the vault's own administration touches its roles.
LEMMA RolesStay ==
  ASSUME [Next]_vars, ~administerVault
  PROVE  UNCHANGED <<V!ownerVars, V!keeperVars, proposedAt>>
<1> USE DEF V!ownerVars, V!keeperVars, vaultVars
<1>1. CASE Tick
  BY <1>1 DEF Tick, V!Tick
<1>2. ASSUME NEW u, NEW pair, NEW price, NEW interval, NEW limit, NEW amount,
             createOrder(u, pair[1], pair[2], price, interval, limit, amount)
      PROVE  UNCHANGED <<V!ownerVars, V!keeperVars, proposedAt>>
  BY <1>2 DEF createOrder, V!createOrder, V!AdminUnchanged
<1>3. ASSUME NEW u, NEW o,
             \/ \E amount \in Deposits : deposit(u, o, amount)
             \/ cancel(u, o)
             \/ withdraw(u, o)
      PROVE  UNCHANGED <<V!ownerVars, V!keeperVars, proposedAt>>
  BY <1>3 DEF deposit, V!deposit, cancel, V!cancel, withdraw, V!withdraw, V!AdminUnchanged
<1>4. ASSUME NEW u, NEW deadline, userCalls(u, deadline)
      PROVE  UNCHANGED <<V!ownerVars, V!keeperVars, proposedAt>>
  BY <1>4 DEF userCalls, VaultIdle
<1>5. ASSUME NEW k, NEW o, NEW deadline, execute(k, o, deadline)
      PROVE  UNCHANGED <<V!ownerVars, V!keeperVars, proposedAt>>
  BY <1>5 DEF execute, V!execute, V!AdminUnchanged
<1>6. CASE administerExecutor
  BY <1>6 DEF administerExecutor, VaultIdle
<1>7. CASE UNCHANGED vars
  BY <1>7 DEF vars
<1> QED
  BY <1>1, <1>2, <1>3, <1>4, <1>5, <1>6, <1>7 DEF Next

\* Vault and registry administered side by side, each change waits for its own delay.
THEOREM ChangesAreDelayedHolds == Spec => ChangesAreDelayed
<1>1. Init => DelaysOK
  BY DEF Init, V!Init, DelaysOK
<1>2. Reached /\ DelaysOK /\ [Next]_vars => DelaysOK' /\ InTime
  BY AdministeredVault, RolesStay DEF Reached, RegistryOK, DelaysOK, InTime,
    V!ownerVars, V!keeperVars
<1>3. Reached /\ [Next]_vars =>
        [ \A p \in {Aerodrome} :
            protocolBeacons[p] # NoAddress /\ protocolBeacons'[p] = NoAddress =>
              /\ pendingBeaconRemovals[p] # 0
              /\ now - scheduledAt[p] >= RemovalDelay ]_Base!vars
  BY RegistryStep, AdministeredRegistry DEF Reached
<1>4. Reached /\ DelaysOK /\ [Next]_vars =>
        [ /\ keeper' # keeper =>
               keeper' = pendingKeeper /\ now - proposedAt.keeper >= AdminDelay
          /\ owner' # owner =>
               owner' = pendingOwner /\ now - proposedAt.owner >= AdminDelay ]_V!vars
  BY <1>2 DEF InTime
<1> QED
  BY <1>1, <1>2, <1>3, <1>4, AlwaysReached, PTL DEF Spec, ChangesAreDelayed,
    V!AdminTimelock, Base!RemovalTimelock

-----------------------------------------------------------------------------
(* Tokens                                                                  *)

Balances == [Accounts -> [AllTokens -> Nat]]

\* One entry of the balances is set.
LEMMA Update ==
  ASSUME NEW b \in Balances, NEW t \in AllTokens, NEW who \in Accounts, NEW n \in Nat
  PROVE  LET c == [b EXCEPT ![who][t] = n] IN
         /\ c \in Balances
         /\ c[who][t] = n
         /\ \A x \in Accounts, s \in AllTokens : x # who \/ s # t => c[x][s] = b[x][s]
<1> DEFINE row == [b[who] EXCEPT ![t] = n]
<1>1. /\ row \in [AllTokens -> Nat] /\ row[t] = n
      /\ \A s \in AllTokens : s # t => row[s] = b[who][s]
  BY DEF Balances
<1>2. [b EXCEPT ![who][t] = n] = [b EXCEPT ![who] = row]
  OBVIOUS
<1> HIDE DEF row
<1> QED
  BY <1>1, <1>2 DEF Balances

\* n of one token leave an account and m of one arrive at another.
Shifted(b, from, t, n, to, s, m) == [b EXCEPT ![from][t] = @ - n, ![to][s] = @ + m]

\* A covered transfer keeps the balances balances and touches two entries.
LEMMA Transfer ==
  ASSUME NEW b \in Balances, NEW t \in AllTokens, NEW s \in AllTokens,
         NEW from \in Accounts, NEW to \in Accounts, from # to,
         NEW n \in Nat, n <= b[from][t], NEW m \in Nat
  PROVE  LET c == Shifted(b, from, t, n, to, s, m) IN
         /\ c \in Balances
         /\ c[from][t] = b[from][t] - n /\ c[to][s] = b[to][s] + m
         /\ \A x \in Accounts, r \in AllTokens :
              <<x, r>> \notin {<<from, t>>, <<to, s>>} => c[x][r] = b[x][r]
<1> DEFINE b1 == [b EXCEPT ![from][t] = b[from][t] - n]
           k == b[to][s] + m
           b2 == [b1 EXCEPT ![to][s] = k]
<1>0. b[from][t] \in Nat /\ b[from][t] - n \in Nat /\ b[to][s] \in Nat
  BY DEF Balances
<1>1. /\ b1 \in Balances /\ b1[from][t] = b[from][t] - n
      /\ \A x \in Accounts, r \in AllTokens : x # from \/ r # t => b1[x][r] = b[x][r]
  BY <1>0, Update
<1>2. Shifted(b, from, t, n, to, s, m) = b2
  BY Zenon DEF Shifted
<1> HIDE DEF b1
<1>3. k \in Nat
  BY <1>0
<1> HIDE DEF k
<1>4. /\ b2 \in Balances /\ b2[to][s] = k
      /\ \A x \in Accounts, r \in AllTokens : x # to \/ r # s => b2[x][r] = b1[x][r]
  BY <1>1, <1>3, Update
<1> HIDE DEF b2
<1>5. /\ b2 \in Balances
      /\ b2[from][t] = b[from][t] - n /\ b2[to][s] = b[to][s] + m
      /\ \A x \in Accounts, r \in AllTokens :
              <<x, r>> \notin {<<from, t>>, <<to, s>>} => b2[x][r] = b[x][r]
  BY <1>0, <1>1, <1>4 DEF k
<1> QED
  BY <1>2, <1>5

\* The same on the balances of a world.
Changed(w, from, t, n, to, s, m) ==
    [w EXCEPT !.balance[from][t] = @ - n, !.balance[to][s] = @ + m]

\* Changing two entries changes the balances only.
LEMMA TwoEntries ==
  ASSUME NEW w \in Worlds, NEW from, NEW t, NEW n, NEW to, NEW s, NEW m
  PROVE  Changed(w, from, t, n, to, s, m)
           = [w EXCEPT !.balance = Shifted(w.balance, from, t, n, to, s, m)]
BY DEF Worlds, Shifted, Changed

\* A transfer that is covered leads to a world of the model again.
LEMMA Moved ==
  ASSUME NEW w \in Worlds, NEW t \in AllTokens, NEW from \in Accounts, NEW to \in Accounts,
         from # to, NEW n \in Nat, n <= w.balance[from][t]
  PROVE  /\ Move(w, t, from, to, n) \in Worlds
         /\ \A x \in Accounts, s \in AllTokens : x \notin {from, to} \/ s # t =>
               Move(w, t, from, to, n).balance[x][s] = w.balance[x][s]
<1> DEFINE b == w.balance
           c == Shifted(b, from, t, n, to, t, n)
<1>1. b \in Balances
  BY DEF Worlds, Balances
<1>2. /\ c \in Balances
      /\ \A x \in Accounts, s \in AllTokens :
           <<x, s>> \notin {<<from, t>>, <<to, t>>} => c[x][s] = b[x][s]
  BY <1>1, Transfer
<1>3. Move(w, t, from, to, n) = [w EXCEPT !.balance = c]
  BY DEF Worlds, Move, Shifted
<1> HIDE DEF c
<1>4. [w EXCEPT !.balance = c] \in Worlds /\ [w EXCEPT !.balance = c].balance = c
  BY <1>2 DEF Worlds, Balances
<1> QED
  BY <1>2, <1>3, <1>4

\* The pool never gives more than it has.
LEMMA PoolSuffices ==
  ASSUME NEW a \in Nat \ {0}, NEW in \in Nat, NEW out \in Nat
  PROVE  (a * out) \div (in + a) \in Nat /\ (a * out) \div (in + a) <= out
<1> DEFINE d == in + a
           p == a * out
           q == p \div d
<1>1. d \in Nat \ {0} /\ a <= d
  OBVIOUS
<1>2. p \in Nat
  OBVIOUS
<1>3. p <= d * out
  BY <1>1
<1> HIDE DEF d, p
<1>4. q \in Nat /\ q * d <= p
  BY <1>1, <1>2
<1> HIDE DEF q
<1>5. q <= out
  <2> SUFFICES ASSUME q >= out + 1 PROVE FALSE
    BY <1>4
  <2>1. q * d >= (out + 1) * d
    BY <1>1, <1>4
  <2>2. (out + 1) * d = d * out + d
    BY <1>1
  <2>3. q * d \in Int /\ d * out \in Int
    BY <1>1, <1>4
  <2> QED
    BY <1>1, <1>2, <1>3, <1>4, <2>1, <2>2, <2>3
<1> QED
  BY <1>4, <1>5 DEF d, p, q

\* An approval moves nothing.
LEMMA ApprovedWorld ==
  ASSUME NEW w \in Worlds, NEW payer \in Users, NEW S \in SUBSET AllTokens,
         NEW payment \in [S -> Nat]
  PROVE  /\ Approved(w, payer, payment) \in Worlds
         /\ Approved(w, payer, payment).balance = w.balance
<1>1. CASE payer # Vault
  BY <1>1 DEF Approved
<1>2. CASE payer = Vault
  <2> DEFINE row == [t \in AllTokens |->
                       IF t \in DOMAIN payment THEN payment[t] ELSE w.allowance[Vault][t]]
             al == [w.allowance EXCEPT ![Vault] = row]
  <2>1. w.allowance \in [Users -> [AllTokens -> Nat]] /\ Vault \in Users
    BY DEF Worlds, Users
  <2>2. row \in [AllTokens -> Nat]
    BY <2>1
  <2>3. Approved(w, payer, payment) = [w EXCEPT !.allowance = al]
    BY <1>2 DEF Approved, Worlds
  <2> HIDE DEF row
  <2>4. al \in [Users -> [AllTokens -> Nat]]
    BY <2>1, <2>2
  <2> HIDE DEF al
  <2> QED
    BY <2>3, <2>4 DEF Worlds
<1> QED
  BY <1>1, <1>2

\* What the executor pulls arrives in the adapter.
PaidInto(v, w, from, to, payment) ==
    \A x \in Accounts, s \in AllTokens :
        LET n == IF s \in DOMAIN payment THEN payment[s] ELSE 0 IN
        v.balance[x][s] = CASE x = from -> w.balance[x][s] - n
                            [] x = to -> w.balance[x][s] + n
                            [] OTHER -> w.balance[x][s]

\* A pull that does not revert does that, whatever was approved.
LEMMA Pulled ==
  ASSUME NEW w \in Worlds, NEW from \in Users, NEW to \in Adapters,
         NEW S \in SUBSET AllTokens, NEW payment \in [S -> Nat],
         NEW v \in PullApproved(w, from, to, payment)
  PROVE  v \in Worlds /\ PaidInto(v, w, from, to, payment)
<1> DEFINE a == Approved(w, from, payment)
           paid == {t \in DOMAIN payment : payment[t] > 0}
           Of(t) == IF t \in paid THEN payment[t] ELSE 0
           less == [t \in AllTokens |-> a.balance[from][t] - Of(t)]
           more == [t \in AllTokens |-> a.balance[to][t] + Of(t)]
           rest == [t \in AllTokens |-> IF t = Native THEN a.allowance[from][t]
                                        ELSE a.allowance[from][t] - Of(t)]
           b == [[a.balance EXCEPT ![from] = less] EXCEPT ![to] = more]
           al == [a.allowance EXCEPT ![from] = rest]
<1>1. a \in Worlds /\ a.balance = w.balance
  BY ApprovedWorld
<1>2. from \in Accounts /\ to \in Accounts /\ from # to
  BY SystemAssumption DEF Accounts
<1> HIDE DEF a
<1>3. /\ \A t \in paid : a.balance[from][t] >= payment[t]
      /\ \A t \in paid : t = Native \/ a.allowance[from][t] >= payment[t]
      /\ v = [a EXCEPT !.balance[from] = [t \in AllTokens |-> @[t] - Of(t)],
                       !.balance[to] = [t \in AllTokens |-> @[t] + Of(t)],
                       !.allowance[from] =
                          [t \in AllTokens |-> IF t = Native THEN @[t] ELSE @[t] - Of(t)]]
  BY DEF PullApproved, TransferFrom, Has, a
<1>4. /\ a.balance \in [Accounts -> [AllTokens -> Nat]]
      /\ a.allowance \in [Users -> [AllTokens -> Nat]]
  BY <1>1 DEF Worlds
<1>5. \A t \in AllTokens : Of(t) \in Nat /\ Of(t) = IF t \in S THEN payment[t] ELSE 0
  OBVIOUS
<1>6. v = [a EXCEPT !.balance = b, !.allowance = al]
  BY <1>1, <1>2, <1>3, <1>4 DEF Worlds
<1>7. /\ less \in [AllTokens -> Nat] /\ more \in [AllTokens -> Nat]
      /\ rest \in [AllTokens -> Nat]
  BY <1>2, <1>3, <1>4, <1>5
<1>8. \A t \in AllTokens : less[t] = a.balance[from][t] - Of(t)
                        /\ more[t] = a.balance[to][t] + Of(t)
  OBVIOUS
<1> HIDE DEF less, more, rest
<1>9. /\ b \in [Accounts -> [AllTokens -> Nat]] /\ al \in [Users -> [AllTokens -> Nat]]
      /\ \A x \in Accounts : b[x] = CASE x = from -> less [] x = to -> more
                                       [] OTHER -> a.balance[x]
  BY <1>2, <1>4, <1>7
<1> HIDE DEF b, al
<1>10. v \in Worlds /\ v.balance = b
  BY <1>1, <1>6, <1>9 DEF Worlds
<1> HIDE DEF Of
<1> QED
  BY <1>1, <1>2, <1>5, <1>8, <1>9, <1>10 DEF PaidInto

\* A swap takes the input from the adapter and gives some output to the recipient; no
\* account but these and the pool notices.
LEMMA Swapped ==
  ASSUME NEW w \in Worlds, NEW self \in Adapters, NEW i \in Tokens, NEW j \in Tokens,
         NEW n \in Nat, NEW to \in Address, NEW v \in SwapExact(w, self, i, j, n, 0, to)
  PROVE  /\ v \in Worlds /\ i # j
         /\ v.balance[self][i] = w.balance[self][i] - n
         /\ v.balance[to][j] > w.balance[to][j]
         /\ \A x \in Accounts \ {Pool}, s \in AllTokens :
              <<x, s>> \notin {<<self, i>>, <<to, j>>} => v.balance[x][s] = w.balance[x][s]
<1> DEFINE out == AmountOut(w, i, j, n)
           b1 == Shifted(w.balance, self, i, n, Pool, i, n)
           in == [w EXCEPT !.balance = b1]
           b2 == Shifted(b1, Pool, j, out, to, j, out)
<1>1. /\ i \in AllTokens /\ j \in AllTokens /\ Wrapped(i) = i /\ Wrapped(j) = j
      /\ self \in Accounts /\ to \in Accounts /\ Pool \in Accounts
      /\ self # Pool /\ to # Pool /\ to # self
  BY SystemAssumption DEF Tokens, AllTokens, Wrapped, Accounts, Users
<1>2. w.balance \in Balances
  BY DEF Worlds, Balances
<1>3. i # j /\ n > 0 /\ n <= w.balance[self][i] /\ out > 0
  BY <1>1, <1>2 DEF SwapExact, Has, Balances
<1>4. v = Changed(Changed(w, self, i, n, Pool, i, n), Pool, j, out, to, j, out)
  BY <1>1 DEF SwapExact, Changed
<1>5. out = (n * w.balance[Pool][j]) \div (w.balance[Pool][i] + n)
  BY <1>1 DEF AmountOut, Reserve
<1>6. w.balance[Pool][j] \in Nat /\ w.balance[Pool][i] \in Nat
  BY <1>1, <1>2 DEF Balances
<1>7. out \in Nat /\ out <= w.balance[Pool][j]
  <2> DEFINE ri == w.balance[Pool][i]
             rj == w.balance[Pool][j]
  <2>1. n \in Nat \ {0} /\ ri \in Nat /\ rj \in Nat /\ out = (n * rj) \div (ri + n)
    BY <1>3, <1>5, <1>6
  <2> HIDE DEF ri, rj
  <2> QED
    BY <2>1, PoolSuffices DEF rj
<1> HIDE DEF out
<1>8. /\ b1 \in Balances /\ b1[self][i] = w.balance[self][i] - n
      /\ \A x \in Accounts, s \in AllTokens :
            <<x, s>> \notin {<<self, i>>, <<Pool, i>>} => b1[x][s] = w.balance[x][s]
  BY <1>1, <1>2, <1>3, Transfer
<1>9. in = Changed(w, self, i, n, Pool, i, n)
  BY TwoEntries
<1> HIDE DEF b1
<1>10. in \in Worlds /\ in.balance = b1
  BY <1>8 DEF Worlds, Balances
<1> HIDE DEF in
<1>11. b1[Pool][j] = w.balance[Pool][j]
  BY <1>1, <1>3, <1>8
<1>12. /\ b2 \in Balances /\ b2[to][j] = b1[to][j] + out
       /\ \A x \in Accounts, s \in AllTokens :
            <<x, s>> \notin {<<Pool, j>>, <<to, j>>} => b2[x][s] = b1[x][s]
  BY <1>1, <1>7, <1>8, <1>11, Transfer
<1>13. v = Changed(in, Pool, j, out, to, j, out)
  BY <1>4, <1>9
<1>14. v = [in EXCEPT !.balance = b2]
  BY <1>10, <1>13, TwoEntries
<1> HIDE DEF b2
<1>15. v \in Worlds /\ v.balance = b2
  BY <1>10, <1>12, <1>14 DEF Worlds, Balances
<1>16. b2[self][i] = w.balance[self][i] - n
  BY <1>1, <1>8, <1>12
<1>17. b1[to][j] = w.balance[to][j] /\ w.balance[to][j] \in Nat
  BY <1>1, <1>2, <1>8 DEF Balances
<1>18. b2[to][j] > w.balance[to][j]
  <2>1. b2[to][j] = w.balance[to][j] + out
    BY <1>12, <1>17
  <2> QED
    BY <1>3, <1>7, <1>17, <2>1
<1>19. \A x \in Accounts \ {Pool}, s \in AllTokens :
         <<x, s>> \notin {<<self, i>>, <<to, j>>} => b2[x][s] = w.balance[x][s]
  BY <1>8, <1>12
<1> QED
  BY <1>3, <1>15, <1>16, <1>18, <1>19

\* A claim moves rewards into the recipient's account and nothing else.
LEMMA Rewarded ==
  ASSUME NEW w \in Worlds, NEW self \in Adapters, NEW to \in Address, NEW r, r.recipient = to,
         NEW v \in claimRewards(w, self, r)
  PROVE  /\ v \in Worlds
         /\ \A x \in Accounts \ {self, to} : \A s \in AllTokens :
               v.balance[x][s] = w.balance[x][s]
<1> DEFINE e == w.earned[self]
           k == w.balance[self][Aero] + e
           b == [w.balance EXCEPT ![self][Aero] = k]
           er == [w.earned EXCEPT ![self] = 0]
           paid == GaugeReward(w, self)
<1>1. /\ self \in Accounts /\ to \in Accounts /\ self # to /\ Aero \in AllTokens
  BY SystemAssumption DEF Accounts, Users, AllTokens
<1>2. /\ w.balance \in Balances /\ w.earned \in [Adapters -> Nat] /\ e \in Nat
      /\ w.balance[self][Aero] \in Nat
  BY <1>1 DEF Worlds, Balances
<1>3. paid = [w EXCEPT !.balance = b, !.earned = er]
  BY DEF GaugeReward, Worlds
<1>4. er \in [Adapters -> Nat]
  BY <1>2
<1>5. k \in Nat /\ k >= e /\ k - w.balance[self][Aero] = e
  BY <1>2
<1> HIDE DEF k
<1>6. /\ b \in Balances /\ b[self][Aero] = k
      /\ \A x \in Accounts, s \in AllTokens :
            x # self \/ s # Aero => b[x][s] = w.balance[x][s]
  BY <1>1, <1>2, <1>5, Update
<1> HIDE DEF b, er, paid, e
<1>7. paid \in Worlds /\ paid.balance = b
  BY <1>3, <1>4, <1>6 DEF Worlds, Balances
<1>8. v = Move(paid, Aero, self, to, e)
  BY <1>5, <1>6, <1>7 DEF claimRewards, paid
<1>9. e <= paid.balance[self][Aero]
  BY <1>2, <1>5, <1>6, <1>7
<1> QED
  BY <1>1, <1>2, <1>6, <1>7, <1>8, <1>9, Moved

\* Accounts start with what the constants give them.
LEMMA WorldInit == Init => world \in Worlds
<1> SUFFICES ASSUME Init PROVE world \in Worlds
  OBVIOUS
<1> DEFINE full == [NoTokens EXCEPT ![Usdc] = Wallet]
           pool == [NoTokens EXCEPT ![Weth] = PoolWeth, ![Usdc] = PoolUsdc]
           start(c) == CASE c \in Traders -> full [] c = Pool -> pool [] OTHER -> NoTokens
<1>1. Wallet \in Nat /\ PoolWeth \in Nat /\ PoolUsdc \in Nat
  BY SystemAssumption
<1>2. /\ NoTokens \in [AllTokens -> Nat] /\ full \in [AllTokens -> Nat]
      /\ pool \in [AllTokens -> Nat]
  BY <1>1 DEF NoTokens
<1>3. world = [balance |-> [c \in Accounts |-> start(c)],
               allowance |-> [u \in Users |-> NoTokens],
               supply |-> 1,
               staked |-> [a \in Adapters |-> 0], earned |-> [a \in Adapters |-> 0]]
  BY DEF Init
<1> HIDE DEF full, pool
<1>4. [c \in Accounts |-> start(c)] \in [Accounts -> [AllTokens -> Nat]]
  BY <1>2
<1> HIDE DEF start
<1> QED
  BY <1>2, <1>3, <1>4 DEF Worlds

\* An execution: the owner gains, the vault gets none of the output, and the adapter
\* and everybody else have what they had.
LEMMA ExecutedWorld ==
  ASSUME RegistryOK, OrdersOK, world \in Worlds, NEW k, NEW o \in V!OrderIds, NEW deadline,
         execute(k, o, deadline)
  PROVE  LET r == orders[o] IN
         /\ world' \in Worlds /\ r.owner \in Address /\ r.tokenOut \in AllTokens
         /\ world'.balance[r.owner][r.tokenOut] > world.balance[r.owner][r.tokenOut]
         /\ world'.balance[Vault][r.tokenOut] = world.balance[Vault][r.tokenOut]
         /\ \A c \in Accounts \ {r.owner, Vault, Pool}, s \in AllTokens :
               world'.balance[c][s] = world.balance[c][s]
<1> DEFINE r == orders[o]
           u == r.owner
           i == r.tokenIn
           j == r.tokenOut
           n == r.amountPerSwap
           payment == [t \in {i} |-> n]
           a == Base!AdapterFor(Aerodrome, u)
           call == SwapCall(r, k)
<1>1. /\ u \in Address /\ i \in Tokens /\ j \in Tokens /\ n \in Nat
  BY DEF execute, OrdersOK, V!Order
<1>2. /\ a # NoAddress
      /\ world' \in UNION {Dispatch(a, call, paid) :
                             paid \in PullApproved(world, Vault, a, payment)}
  BY DEF execute, Base!executeSwapFor, Base!Route, Base!Results, ContextOf
<1>3. /\ call.action = "swap" /\ call.tokenIn = i /\ call.tokenOut = j /\ call.amountIn = n
      /\ call.amountOutMin = 0 /\ call.recipient = u
  BY DEF SwapCall
<1>4. a \in Adapters /\ u \in Users
  BY <1>1, <1>2, OwnAdapter DEF Users
<1>5. /\ Vault \in Users /\ Tokens \subseteq AllTokens /\ u # Vault /\ a # Vault /\ a # u
      /\ a # Pool /\ Vault # Pool /\ u # Pool
      /\ u \in Accounts /\ a \in Accounts /\ Vault \in Accounts
  BY <1>1, <1>4, SystemAssumption DEF Users, Tokens, AllTokens, Accounts
<1>6. payment \in [{i} -> Nat] /\ {i} \in SUBSET AllTokens /\ payment[i] = n
  BY <1>1, <1>5
<1> HIDE DEF a, call, payment, i, j, n, u
<1>7. PICK paid \in PullApproved(world, Vault, a, payment) : world' \in Dispatch(a, call, paid)
  BY <1>2
<1>8. paid \in Worlds /\ PaidInto(paid, world, Vault, a, payment)
  BY <1>4, <1>5, <1>6, <1>7, Pulled
<1>9. /\ paid \in Worlds
      /\ \A x \in Accounts, s \in AllTokens :
           LET m == IF s = i THEN n ELSE 0 IN
           paid.balance[x][s] = CASE x = Vault -> world.balance[x][s] - m
                                  [] x = a -> world.balance[x][s] + m
                                  [] OTHER -> world.balance[x][s]
  BY <1>6, <1>8 DEF PaidInto
<1>10. world' \in SwapExact(paid, a, i, j, n, 0, u)
  BY <1>3, <1>7 DEF Dispatch, swap
<1>11. /\ world' \in Worlds /\ i # j
       /\ world'.balance[a][i] = paid.balance[a][i] - n
       /\ world'.balance[u][j] > paid.balance[u][j]
       /\ \A x \in Accounts \ {Pool}, s \in AllTokens :
            <<x, s>> \notin {<<a, i>>, <<u, j>>} =>
              world'.balance[x][s] = paid.balance[x][s]
  BY <1>1, <1>4, <1>9, <1>10, Swapped
<1>12. \A x \in Accounts, s \in AllTokens : world.balance[x][s] \in Nat
  BY DEF Worlds
<1>13. i \in AllTokens /\ j \in AllTokens
  BY <1>1, <1>5
<1>14. paid.balance[u][j] = world.balance[u][j]
  BY <1>5, <1>9, <1>12, <1>13
<1>15. world'.balance[Vault][j] = world.balance[Vault][j]
  BY <1>5, <1>9, <1>11, <1>12, <1>13
<1>16. ASSUME NEW c \in Accounts \ {u, Vault, Pool}, NEW s \in AllTokens
       PROVE  world'.balance[c][s] = world.balance[c][s]
  <2>1. CASE c = a /\ s = i
    BY <1>1, <1>5, <1>6, <1>9, <1>11, <1>12, <1>13, <2>1
  <2>2. CASE c = a /\ s # i
    BY <1>5, <1>9, <1>11, <1>12, <2>2
  <2>3. CASE c # a
    BY <1>5, <1>9, <1>11, <1>12, <2>3
  <2> QED
    BY <2>1, <2>2, <2>3
<1> QED
  BY <1>1, <1>11, <1>13, <1>14, <1>15, <1>16 DEF u, j

\* A claim of a user leaves the vault's tokens alone.
LEMMA CalledWorld ==
  ASSUME RegistryOK, world \in Worlds, NEW u \in Traders, NEW deadline, userCalls(u, deadline)
  PROVE  /\ world' \in Worlds
         /\ \A s \in AllTokens : world'.balance[Vault][s] = world.balance[Vault][s]
<1> DEFINE a == Base!AdapterFor(Aerodrome, u)
           call == [action |-> "claimRewards", recipient |-> u]
<1>1. /\ u \in Address /\ u \in Users /\ Vault \in Accounts /\ u # Vault
      /\ AllTokens \in SUBSET AllTokens
  BY SystemAssumption DEF Users, Accounts
<1>2. /\ a # NoAddress
      /\ world' \in UNION {Dispatch(a, call, paid) :
                             paid \in PullApproved(world, u, a, NoTokens)}
  BY DEF userCalls, Base!execute, Base!Route, Base!Results
<1>3. call.action = "claimRewards" /\ call.recipient = u
  OBVIOUS
<1>4. a \in Adapters /\ a # Vault
  BY <1>1, <1>2, OwnAdapter, SystemAssumption DEF Users
<1>5. /\ NoTokens \in [AllTokens -> Nat] /\ \A s \in AllTokens : NoTokens[s] = 0
  BY DEF NoTokens
<1> HIDE DEF a, call
<1>6. PICK paid \in PullApproved(world, u, a, NoTokens) : world' \in Dispatch(a, call, paid)
  BY <1>2
<1>7. paid \in Worlds /\ PaidInto(paid, world, u, a, NoTokens)
  BY <1>1, <1>4, <1>5, <1>6, Pulled
<1>8. \A s \in AllTokens : paid.balance[Vault][s] = world.balance[Vault][s]
  BY <1>1, <1>4, <1>7 DEF PaidInto
<1>9. world' \in claimRewards(paid, a, call)
  BY <1>3, <1>6 DEF Dispatch
<1>10. /\ world' \in Worlds
      /\ \A x \in Accounts \ {a, u} : \A s \in AllTokens :
            world'.balance[x][s] = paid.balance[x][s]
  BY <1>1, <1>3, <1>4, <1>7, <1>9, Rewarded
<1> QED
  BY <1>1, <1>4, <1>10, <1>8

\* So does the owner of the executor.
LEMMA SweptWorld ==
  ASSUME RegistryOK, world \in Worlds, administerExecutor
  PROVE  /\ world' \in Worlds
         /\ \A s \in AllTokens : world'.balance[Vault][s] = world.balance[Vault][s]
<1>1. \/ UNCHANGED world
      \/ \E token \in {Usdc, Native} :
            world' = Move(world, token, Executor, execOwner, world.balance[Executor][token])
  BY DEF administerExecutor, Base!Administer, Base!registerBeacon, Base!RegistryOnly,
    Base!scheduleBeaconRemoval, Base!executeBeaconRemoval, Base!cancelBeaconRemoval,
    Base!setAuthorizedOperator, Base!proposeOwner, Base!acceptOwnership,
    Base!emergencyWithdraw, Collect
<1>2. /\ Executor \in Accounts /\ execOwner \in Accounts /\ execOwner # Executor
      /\ Vault \in Accounts \ {Executor, execOwner}
      /\ {Usdc, Native} \subseteq AllTokens
  BY SystemAssumption DEF RegistryOK, Users, Accounts, AllTokens
<1>3. \A t \in AllTokens : world.balance[Executor][t] \in Nat
  BY <1>2 DEF Worlds
<1>4. ASSUME NEW token \in {Usdc, Native},
             world' = Move(world, token, Executor, execOwner, world.balance[Executor][token])
      PROVE  /\ world' \in Worlds
             /\ \A s \in AllTokens : world'.balance[Vault][s] = world.balance[Vault][s]
  <2> DEFINE n == world.balance[Executor][token]
  <2>1. token \in AllTokens /\ n \in Nat /\ n <= world.balance[Executor][token]
    BY <1>2, <1>3
  <2>2. world' = Move(world, token, Executor, execOwner, n)
    BY <1>4
  <2> HIDE DEF n
  <2> QED
    BY <1>2, <2>1, <2>2, Moved
<1> QED
  BY <1>1, <1>4

-----------------------------------------------------------------------------
(* Every step, once more                                                   *)

\* A deposit is covered by the depositor's balance.
LEMMA DepositedWorld ==
  ASSUME world \in Worlds, NEW u \in Address, NEW t \in Tokens, NEW n \in Nat,
         Has(world, t, u, n), world' = Move(world, t, u, Vault, n)
  PROVE  world' \in Worlds
<1>1. /\ u \in Accounts /\ Vault \in Accounts /\ u # Vault /\ t \in AllTokens
  BY SystemAssumption DEF Users, Accounts, Tokens, AllTokens
<1>2. n <= world.balance[u][t]
  BY <1>1 DEF Has, Worlds
<1> QED
  BY <1>1, <1>2, Moved

\* A withdrawal is covered by what the vault holds.
LEMMA WithdrawnWorld ==
  ASSUME world \in Worlds, OrdersOK, NEW u \in Address, NEW o \in V!OrderIds, withdraw(u, o)
  PROVE  world' \in Worlds
<1> DEFINE t == orders[o].tokenIn
           n == orders[o].balance
<1>1. /\ t \in Tokens /\ n \in Nat /\ world' = Move(world, t, Vault, u, n) /\ held[t] >= n
  BY SystemAssumption DEF withdraw, V!withdraw, OrdersOK, V!Order, Base!ExecutorAssumption
<1> HIDE DEF t, n
<1>2. /\ u \in Accounts /\ Vault \in Accounts /\ u # Vault /\ t \in AllTokens
  BY <1>1, SystemAssumption DEF Users, Accounts, Tokens, AllTokens
<1>3. n <= world.balance[Vault][t]
  BY <1>1, <1>2 DEF held, Worlds
<1> QED
  BY <1>1, <1>2, <1>3, Moved

\* No step overdraws an account.
LEMMA WorldStep ==
  ASSUME RegistryOK, OrdersOK, world \in Worlds, [Next]_vars
  PROVE  world' \in Worlds
<1>0. /\ Traders \subseteq Address /\ Pairs \subseteq Tokens \X Tokens /\ Deposits \subseteq Nat
      /\ NoAddress \notin Address
  BY SystemAssumption DEF Base!ExecutorAssumption
<1>1. ASSUME NEW u \in Traders, NEW pair \in Pairs, NEW price, NEW interval, NEW limit,
             NEW amount \in Deposits,
             createOrder(u, pair[1], pair[2], price, interval, limit, amount)
      PROVE  world' \in Worlds
  <2>1. u \in Address /\ pair[1] \in Tokens /\ amount \in Nat
    BY <1>0
  <2>2. /\ Has(world, pair[1], u, amount)
        /\ world' = Move(world, pair[1], u, Vault, amount)
    BY <1>1 DEF createOrder
  <2> QED
    BY <2>1, <2>2, DepositedWorld
<1>2. ASSUME NEW u \in Traders, NEW o \in V!OrderIds, NEW amount \in Deposits,
             deposit(u, o, amount)
      PROVE  world' \in Worlds
  <2>1. u \in Address /\ orders[o].tokenIn \in Tokens /\ amount \in Nat
    BY <1>0, <1>2 DEF deposit, OrdersOK
  <2>2. /\ Has(world, orders[o].tokenIn, u, amount)
        /\ world' = Move(world, orders[o].tokenIn, u, Vault, amount)
    BY <1>2 DEF deposit
  <2> QED
    BY <2>1, <2>2, DepositedWorld
<1>3. ASSUME NEW u \in Traders, NEW o \in V!OrderIds, withdraw(u, o)
      PROVE  world' \in Worlds
  BY <1>0, <1>3, WithdrawnWorld
<1>4. ASSUME NEW u \in Traders, NEW deadline, userCalls(u, deadline)
      PROVE  world' \in Worlds
  BY <1>4, CalledWorld
<1>5. ASSUME NEW k, NEW o \in V!OrderIds, NEW deadline, execute(k, o, deadline)
      PROVE  world' \in Worlds
  BY <1>5, ExecutedWorld
<1>6. CASE administerExecutor
  BY <1>6, SweptWorld
<1>7. ASSUME \/ Tick \/ administerVault \/ UNCHANGED vars
             \/ \E u \in Traders, o \in V!OrderIds : cancel(u, o)
      PROVE  world' \in Worlds
  BY <1>7 DEF Tick, administerVault, vars, cancel
<1> QED
  BY <1>1, <1>2, <1>3, <1>4, <1>5, <1>6, <1>7 DEF Next

\* No account of any token is ever overdrawn, and no allowance.
THEOREM NothingIsOverdrawn == Spec => [](world \in Worlds)
<1>1. Reached /\ world \in Worlds /\ [Next]_vars => (world \in Worlds)'
  BY WorldStep DEF Reached
<1> QED
  BY <1>1, WorldInit, AlwaysReached, PTL DEF Spec

\* Only an execution of the order makes it count one more.
LEMMA CountedByExecute ==
  ASSUME OrdersOK, [Next]_vars, NEW o \in V!OrderIds, history'[o].done # history[o].done
  PROVE  \E k \in Address, deadline \in Genesis .. Horizon : execute(k, o, deadline)
<1>0. Traders \subseteq Address /\ Pairs \subseteq Tokens \X Tokens
  BY SystemAssumption
<1>1. ASSUME NEW u \in Traders, NEW pair \in Pairs, NEW price \in Prices,
             NEW interval \in Intervals, NEW limit \in Limits, NEW amount \in Deposits,
             createOrder(u, pair[1], pair[2], price, interval, limit, amount)
      PROVE  FALSE
  <2>1. V!createOrder(u, pair[1], pair[2], price, interval, limit, amount)
    BY <1>1 DEF createOrder
  <2>2. u \in Address /\ pair[1] \in Tokens /\ pair[2] \in Tokens
    BY <1>0
  <2> QED
    BY <2>1, <2>2, CreatedOrders
<1>2. ASSUME NEW u \in Traders, NEW q \in V!OrderIds,
             \/ \E amount \in Deposits : deposit(u, q, amount)
             \/ cancel(u, q)
             \/ withdraw(u, q)
      PROVE  FALSE
  BY <1>2 DEF deposit, V!deposit, cancel, V!cancel, withdraw, V!withdraw
<1>3. ASSUME NEW u, NEW deadline, userCalls(u, deadline)
      PROVE  FALSE
  BY <1>3 DEF userCalls, VaultIdle, vaultVars
<1>4. ASSUME NEW k \in Address, NEW q \in V!OrderIds, NEW deadline \in Genesis .. Horizon,
             execute(k, q, deadline)
      PROVE  \E c \in Address, d \in Genesis .. Horizon : execute(c, o, d)
  <2>1. history' = [history EXCEPT ![q] = V!CountSwap(history[q])]
    BY <1>4 DEF execute, V!execute
  <2>2. q = o
    BY <2>1 DEF OrdersOK
  <2> QED
    BY <1>4, <2>2
<1>5. ASSUME Tick \/ administerVault \/ administerExecutor \/ UNCHANGED vars
      PROVE  FALSE
  BY <1>5 DEF Tick, V!Tick, V!orderVars, administerVault, V!Administer, V!proposeKeeper,
    V!proposeOwner, V!proposeExecutor, V!acceptKeeper, V!acceptExecutor, V!acceptOwnership,
    administerExecutor, VaultIdle, vaultVars, vars
<1> QED
  BY <1>1, <1>2, <1>3, <1>4, <1>5 DEF Next

\* Whoever the keeper is and whatever the adapter held before, an execution pays the
\* order's owner, and nobody but vault, pool and owner has more or less than before.
THEOREM OwnerIsServedHolds == Spec => OwnerIsServed
<1>1. ASSUME Reached, world \in Worlds, [Next]_vars
      PROVE  \A o \in V!OrderIds :
               history'[o].done # history[o].done =>
                 LET r == orders[o] IN
                 /\ world'.balance[r.owner][r.tokenOut] > world.balance[r.owner][r.tokenOut]
                 /\ world'.balance[Vault][r.tokenOut] = world.balance[Vault][r.tokenOut]
                 /\ \A c \in Accounts \ {r.owner, Vault, Pool} :
                       world'.balance[c] = world.balance[c]
  <2> SUFFICES ASSUME NEW o \in V!OrderIds, history'[o].done # history[o].done
               PROVE  LET r == orders[o] IN
                 /\ world'.balance[r.owner][r.tokenOut] > world.balance[r.owner][r.tokenOut]
                 /\ world'.balance[Vault][r.tokenOut] = world.balance[Vault][r.tokenOut]
                 /\ \A c \in Accounts \ {r.owner, Vault, Pool} :
                       world'.balance[c] = world.balance[c]
    OBVIOUS
  <2> DEFINE r == orders[o]
  <2>1. PICK k \in Address, deadline \in Genesis .. Horizon : execute(k, o, deadline)
    BY <1>1, CountedByExecute DEF Reached
  <2>2. /\ world' \in Worlds
        /\ world'.balance[r.owner][r.tokenOut] > world.balance[r.owner][r.tokenOut]
        /\ world'.balance[Vault][r.tokenOut] = world.balance[Vault][r.tokenOut]
        /\ \A c \in Accounts \ {r.owner, Vault, Pool}, s \in AllTokens :
               world'.balance[c][s] = world.balance[c][s]
    BY <1>1, <2>1, ExecutedWorld DEF Reached
  <2>3. \A c \in Accounts : /\ world.balance[c] \in [AllTokens -> Nat]
                            /\ world'.balance[c] \in [AllTokens -> Nat]
    BY <1>1, <2>2 DEF Worlds
  <2>4. ASSUME NEW c \in Accounts \ {r.owner, Vault, Pool}
        PROVE  world'.balance[c] = world.balance[c]
    <3> DEFINE f == world.balance[c]
               g == world'.balance[c]
    <3>1. f \in [AllTokens -> Nat] /\ g \in [AllTokens -> Nat]
      BY <2>3
    <3>2. \A s \in AllTokens : g[s] = f[s]
      BY <2>2
    <3> HIDE DEF f, g
    <3>3. g = f
      BY <3>1, <3>2
    <3> QED
      BY <3>3 DEF f, g
  <2> QED
    BY <2>2, <2>4
<1> QED
  BY <1>1, AlwaysReached, NothingIsOverdrawn, PTL DEF Spec, OwnerIsServed

\* Seen from the vault, the system is an environment DCAVault allows: every step is one
\* of the vault's, or leaves the vault and what it holds alone.
THEOREM SystemUsesVault == Spec => V!Spec
<1>1. Init => V!Init
  BY DEF Init
<1>2. ASSUME Reached, world \in Worlds, [Next]_vars
      PROVE  [V!Next]_V!vars
  <2>0. Traders \subseteq Address /\ Pairs \subseteq Tokens \X Tokens
    BY SystemAssumption
  <2> USE DEF V!Next, V!Trade
  <2>1. ASSUME NEW u \in Traders, NEW pair \in Pairs, NEW price \in Prices,
               NEW interval \in Intervals, NEW limit \in Limits, NEW amount \in Deposits,
               createOrder(u, pair[1], pair[2], price, interval, limit, amount)
        PROVE  V!Next
    <3>1. V!createOrder(u, pair[1], pair[2], price, interval, limit, amount)
      BY <2>1 DEF createOrder
    <3>2. u \in Address /\ pair[1] \in Tokens /\ pair[2] \in Tokens
      BY <2>0
    <3> QED
      BY <3>1, <3>2
  <2>2. ASSUME NEW u \in Traders, NEW o \in V!OrderIds,
               \/ \E amount \in Deposits : deposit(u, o, amount)
               \/ cancel(u, o)
               \/ withdraw(u, o)
        PROVE  V!Next
    BY <2>0, <2>2 DEF deposit, cancel, withdraw
  <2>3. ASSUME NEW k \in Address, NEW o \in V!OrderIds, NEW deadline, execute(k, o, deadline)
        PROVE  V!Next
    BY <2>3 DEF execute
  <2>4. CASE Tick
    BY <2>4 DEF Tick
  <2>5. CASE administerVault
    BY <2>5 DEF administerVault
  <2>6. ASSUME administerExecutor \/ \E u \in Traders, deadline \in Genesis .. Horizon :
                                        userCalls(u, deadline)
        PROVE  UNCHANGED V!vars
    <3>1. \A s \in AllTokens : world'.balance[Vault][s] = world.balance[Vault][s]
      BY <1>2, <2>6, SweptWorld, CalledWorld DEF Reached
    <3>2. held' = held
      BY <3>1 DEF held, Tokens, AllTokens
    <3>3. now' = now
      BY <2>6 DEF administerExecutor, Base!Administer, Base!registerBeacon, Base!RegistryOnly,
        Base!scheduleBeaconRemoval, Base!executeBeaconRemoval, Base!cancelBeaconRemoval,
        Base!setAuthorizedOperator, Base!proposeOwner, Base!acceptOwnership,
        Base!emergencyWithdraw, userCalls, Base!execute, Base!Route
    <3>4. UNCHANGED vaultVars
      BY <2>6 DEF administerExecutor, userCalls, VaultIdle
    <3> QED
      BY <3>2, <3>3, <3>4 DEF vaultVars, V!vars, V!orderVars, V!ownerVars, V!keeperVars,
        V!executorVars
  <2>7. CASE UNCHANGED vars
    BY <2>7 DEF vars, vaultVars, held, V!vars, V!orderVars, V!ownerVars, V!keeperVars,
      V!executorVars
  <2> HIDE DEF V!Next, V!Trade
  <2> QED
    BY <1>2, <2>1, <2>2, <2>3, <2>4, <2>5, <2>6, <2>7 DEF Next
<1> QED
  BY <1>1, <1>2, AlwaysReached, NothingIsOverdrawn, PTL DEF Spec, V!Spec
=============================================================================
