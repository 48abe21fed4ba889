--------------------------- MODULE DCABackendProofs ---------------------------
(* What the vault keeps and promises, and what the backend adds to it, its *)
(* bundles and the keeper's scan, for any number of users, orders, pairs   *)
(* and requests.  The theorems of the first part speak of the vault alone, *)
(* those of the second of the vault and the backend.                       *)
EXTENDS DCABackend, TLAPS

USE DEF OrderIds

\* Identifiers below nextOrderId hold an order that createOrder accepted, the
\* others hold the zero value of the mapping.
Registered ==
    \A o \in OrderIds :
        IF o < nextOrderId
        THEN /\ orders[o].owner \in Address
             /\ orders[o].tokenIn \in Tokens /\ orders[o].tokenOut \in Tokens
             /\ orders[o].amountPerSwap > 0 /\ orders[o].interval > 0
             /\ orders[o].interval <= MaxUint
        ELSE orders[o] = NoOrder /\ history[o] = [asked |-> 0, done |-> 0, first |-> 0]

-----------------------------------------------------------------------------
(* Type correctness                                                        *)

\* The part of the assumption that every step needs.
LEMMA Amounts ==
  /\ Prices \subseteq Nat /\ Intervals \subseteq Nat /\ Limits \subseteq Nat
  /\ Deposits \subseteq Nat /\ Outputs \subseteq Nat
  /\ MaxOrders \in Nat /\ Supply \in Nat
  BY VaultAssumption

USE Amounts

\* What the orders mapping holds for an unused id is a well-typed order.
LEMMA NoOrderType == NoOrder \in Order
  BY DEF NoOrder, Order

\* Spending a swap touches the counter and the flag of an order, nothing else.
LEMMA SpendSwapType ==
  ASSUME NEW r \in Order
  PROVE  /\ SpendSwap(r) \in Order
         /\ SpendSwap(r).owner = r.owner
         /\ SpendSwap(r).tokenIn = r.tokenIn
         /\ SpendSwap(r).tokenOut = r.tokenOut
         /\ SpendSwap(r).amountPerSwap = r.amountPerSwap
         /\ SpendSwap(r).interval = r.interval
         /\ SpendSwap(r).balance = r.balance
         /\ SpendSwap(r).remainingSwaps =
              IF r.remainingSwaps > 1 THEN r.remainingSwaps - 1 ELSE r.remainingSwaps
         /\ SpendSwap(r).active <=> r.active /\ r.remainingSwaps # 1
  <1> DEFINE n == IF r.remainingSwaps > 1 THEN r.remainingSwaps - 1 ELSE r.remainingSwaps
  <1> DEFINE b == r.active /\ r.remainingSwaps # 1
  <1>1. n \in Nat
    BY DEF Order
  <1>2. b \in BOOLEAN
    OBVIOUS
  <1>3. SpendSwap(r) = [r EXCEPT !.remainingSwaps = n, !.active = b]
    BY DEF SpendSwap
  <1>4. SpendSwap(r) \in Order
    <2> HIDE DEF n, b
    <2> QED BY <1>1, <1>2, <1>3 DEF Order
  <1>5. QED
    BY <1>4 DEF SpendSwap, Order

\* What a completed swap does to the order and to the vault's tokens: amountPerSwap
\* of tokenIn is gone, every other token balance is as it was.
LEMMA ExecuteEffect ==
  ASSUME OrdersTypeOK, Registered, NEW u \in Address, NEW o \in OrderIds,
         NEW arrived \in Outputs \cup {0}, execute(u, o, arrived)
  PROVE  LET r == orders[o]
             s == [SpendSwap(r) EXCEPT !.balance = @ - r.amountPerSwap,
                                       !.lastExecuted = now]
         IN
         /\ r \in Order /\ r.active /\ o < nextOrderId
         /\ r.tokenIn \in Tokens
         /\ r.balance >= r.amountPerSwap /\ held[r.tokenIn] >= r.amountPerSwap
         /\ s \in Order
         /\ s.owner = r.owner /\ s.tokenIn = r.tokenIn /\ s.tokenOut = r.tokenOut
         /\ s.amountPerSwap = r.amountPerSwap /\ s.interval = r.interval
         /\ s.balance = r.balance - r.amountPerSwap
         /\ s.lastExecuted = now
         /\ s.remainingSwaps =
              IF r.remainingSwaps > 1 THEN r.remainingSwaps - 1 ELSE r.remainingSwaps
         /\ s.active <=> r.remainingSwaps # 1
         /\ orders' = [orders EXCEPT ![o] = s]
         /\ held' = [held EXCEPT ![r.tokenIn] = held[r.tokenIn] - r.amountPerSwap]
  <1> DEFINE r == orders[o]
  <1> DEFINE s == [SpendSwap(r) EXCEPT !.balance = @ - r.amountPerSwap,
                                       !.lastExecuted = now]
  <1>1. r \in Order /\ r.active /\ r.balance >= r.amountPerSwap
    BY DEF OrdersTypeOK, execute
  <1>2. o < nextOrderId /\ r.tokenIn \in Tokens /\ r.tokenOut \in Tokens
    BY <1>1 DEF Registered, NoOrder
  <1>3. r.tokenIn # r.tokenOut /\ held[r.tokenIn] >= r.amountPerSwap
    BY DEF execute, SwapPossible
  <1>4. /\ s \in Order
        /\ s.owner = r.owner /\ s.tokenIn = r.tokenIn /\ s.tokenOut = r.tokenOut
        /\ s.amountPerSwap = r.amountPerSwap /\ s.interval = r.interval
        /\ s.balance = r.balance - r.amountPerSwap
        /\ s.lastExecuted = now
        /\ s.remainingSwaps =
              IF r.remainingSwaps > 1 THEN r.remainingSwaps - 1 ELSE r.remainingSwaps
        /\ s.active <=> r.remainingSwaps # 1
    <2> DEFINE q == SpendSwap(r)
    <2>1. /\ q \in Order
          /\ q.owner = r.owner /\ q.tokenIn = r.tokenIn /\ q.tokenOut = r.tokenOut
          /\ q.amountPerSwap = r.amountPerSwap /\ q.interval = r.interval
          /\ q.balance = r.balance
          /\ q.remainingSwaps =
               IF r.remainingSwaps > 1 THEN r.remainingSwaps - 1 ELSE r.remainingSwaps
          /\ q.active <=> r.active /\ r.remainingSwaps # 1
      BY <1>1, SpendSwapType
    <2>2. s = [q EXCEPT !.balance = @ - r.amountPerSwap, !.lastExecuted = now]
      OBVIOUS
    <2> HIDE DEF q, s, r
    <2>3. r.balance - r.amountPerSwap \in Nat
      BY <1>1 DEF Order
    <2>4. now \in Nat
      BY DEF OrdersTypeOK
    <2>5. QED
      BY <2>1, <2>2, <2>3, <2>4, <1>1 DEF Order
  <1>5. held' = [held EXCEPT ![r.tokenIn] = held[r.tokenIn] - r.amountPerSwap]
    <2> DEFINE after == AfterSwap(r, arrived)
    <2>1. held' = [after EXCEPT ![r.tokenOut] = @ - (after[r.tokenOut] - held[r.tokenOut])]
      BY DEF execute
    <2>2. held \in [Tokens -> Nat] /\ arrived \in Nat /\ r.amountPerSwap \in Nat
      BY <1>1 DEF OrdersTypeOK, Order
    <2>3. after \in [Tokens -> Int]
      BY <2>2, <1>2 DEF AfterSwap
    <2>4. \A t \in Tokens \ {r.tokenOut} :
            after[t] = IF t = r.tokenIn THEN held[t] - r.amountPerSwap ELSE held[t]
      BY <1>1, <1>2, <1>3 DEF AfterSwap, OrdersTypeOK, Order
    <2> HIDE DEF after, r
    <2>5. \A t \in Tokens :
            held'[t] = IF t = r.tokenIn THEN held[t] - r.amountPerSwap ELSE held[t]
      BY <2>1, <2>2, <2>3, <2>4, <1>2, <1>3
    <2>6. DOMAIN held' = Tokens /\ held' = [t \in Tokens |-> held'[t]]
      BY <2>1, <2>3
    <2>7. QED
      BY <2>2, <2>5, <2>6, <1>2
  <1>6. orders' = [orders EXCEPT ![o] = s]
    BY DEF execute
  <1>7. QED
    BY <1>1, <1>2, <1>3, <1>4, <1>5, <1>6

\* The constructor leaves every variable with a value of its type.
LEMMA InitType == Init => TypeOK /\ Registered
  BY NoOrderType, VaultAssumption DEF Init, TypeOK, OrdersTypeOK, AdminTypeOK, Registered

\* createOrder keeps the types: it fills the next free id, within the bounds.
LEMMA CreateType ==
  ASSUME OrdersTypeOK, Registered,
         NEW u \in Address, NEW tin \in Tokens, NEW tout \in Tokens,
         NEW price \in Prices, NEW interval \in Intervals, NEW limit \in Limits,
         NEW amount \in Deposits,
         createOrder(u, tin, tout, price, interval, limit, amount)
  PROVE  OrdersTypeOK' /\ Registered' /\ AdminUnchanged
  <1> DEFINE r == [owner |-> u, tokenIn |-> tin, tokenOut |-> tout,
                   amountPerSwap |-> price, interval |-> interval, lastExecuted |-> 0,
                   remainingSwaps |-> limit, balance |-> amount, active |-> TRUE]
  <1>1. r \in Order
    BY DEF Order
  <1>2. nextOrderId \in OrderIds /\ nextOrderId' = nextOrderId + 1
    BY DEF createOrder, OrdersTypeOK
  <1>3. /\ orders' = [orders EXCEPT ![nextOrderId] = r]
        /\ history' = [history EXCEPT ![nextOrderId] =
                        [asked |-> limit, done |-> 0, first |-> 0]]
        /\ userOrders' = [userOrders EXCEPT ![u] = Append(@, nextOrderId)]
        /\ held' = [held EXCEPT ![tin] = @ + amount]
        /\ held[tin] + amount <= Supply
        /\ price # 0 /\ interval # 0
        /\ AdminUnchanged
    BY DEF createOrder
  <1>4. orders' \in [OrderIds -> Order]
    BY <1>1, <1>2, <1>3 DEF OrdersTypeOK
  <1>5. history' \in [OrderIds -> [asked : Nat, done : Nat, first : Nat]]
    BY <1>2, <1>3 DEF OrdersTypeOK
  <1>6. held' \in [Tokens -> 0 .. Supply]
    <2>1. held \in [Tokens -> 0 .. Supply] /\ amount \in Nat
      BY DEF OrdersTypeOK
    <2>2. QED
      BY <2>1, <1>3
  <1>7. userOrders' \in [Address -> Seq(OrderIds)]
    <2>1. userOrders[u] \in Seq(OrderIds)
      BY DEF OrdersTypeOK
    <2>2. Append(userOrders[u], nextOrderId) \in Seq(OrderIds)
      BY <2>1, <1>2
    <2>3. QED
      BY <2>2, <1>3 DEF OrdersTypeOK
  <1>8. OrdersTypeOK'
    <2>1. now' = now
      BY <1>3 DEF AdminUnchanged
    <2>2. nextOrderId' \in 0 .. MaxOrders
      BY <1>2
    <2>3. QED
      BY <2>1, <2>2, <1>4, <1>5, <1>6, <1>7 DEF OrdersTypeOK
  <1>9. Registered'
    <2>1. ASSUME NEW o \in OrderIds, o # nextOrderId
          PROVE  /\ orders'[o] = orders[o] /\ history'[o] = history[o]
                 /\ o < nextOrderId' <=> o < nextOrderId
      BY <2>1, <1>2, <1>3 DEF OrdersTypeOK
    <2>2. orders'[nextOrderId] = r /\ nextOrderId < nextOrderId'
      BY <1>2, <1>3 DEF OrdersTypeOK
    <2>3. price > 0 /\ interval > 0 /\ interval <= MaxUint
      BY <1>3, VaultAssumption
    <2>4. QED
      BY <2>1, <2>2, <2>3 DEF Registered
  <1>10. QED
    BY <1>3, <1>8, <1>9

\* A step that rewrites one order, keeping its identity, keeps the types.
LEMMA TouchType ==
  ASSUME OrdersTypeOK, Registered, NEW o \in OrderIds, o < nextOrderId, NEW s \in Order,
         s.owner = orders[o].owner, s.tokenIn = orders[o].tokenIn,
         s.tokenOut = orders[o].tokenOut, s.interval = orders[o].interval,
         s.amountPerSwap = orders[o].amountPerSwap,
         orders' = [orders EXCEPT ![o] = s],
         history' \in [OrderIds -> [asked : Nat, done : Nat, first : Nat]],
         \A p \in OrderIds \ {o} : history'[p] = history[p],
         held' \in [Tokens -> 0 .. Supply],
         UNCHANGED <<now, nextOrderId, userOrders>>
  PROVE  OrdersTypeOK' /\ Registered'
  <1>1. orders' \in [OrderIds -> Order]
    BY DEF OrdersTypeOK
  <1>2. OrdersTypeOK'
    BY <1>1 DEF OrdersTypeOK
  <1>3. orders'[o] = s /\ \A p \in OrderIds \ {o} : orders'[p] = orders[p]
    BY DEF OrdersTypeOK
  <1>4. Registered'
    BY <1>3 DEF Registered
  <1>5. QED
    BY <1>2, <1>4

\* deposit keeps the types and the registration of ids.
LEMMA DepositType ==
  ASSUME OrdersTypeOK, Registered, NEW u \in Address, NEW o \in OrderIds,
         NEW amount \in Deposits, deposit(u, o, amount)
  PROVE  OrdersTypeOK' /\ Registered'
  <1> DEFINE s == [orders[o] EXCEPT !.balance = @ + amount]
  <1>1. orders[o] \in Order /\ orders[o].active /\ amount \in Nat
    BY DEF OrdersTypeOK, deposit
  <1>2. o < nextOrderId /\ orders[o].tokenIn \in Tokens
    BY <1>1 DEF Registered, NoOrder
  <1>3. /\ s \in Order
        /\ s.owner = orders[o].owner /\ s.tokenIn = orders[o].tokenIn
        /\ s.tokenOut = orders[o].tokenOut /\ s.interval = orders[o].interval
        /\ s.amountPerSwap = orders[o].amountPerSwap
    BY <1>1 DEF Order
  <1>4. held' \in [Tokens -> 0 .. Supply]
    BY <1>1, <1>2 DEF deposit, OrdersTypeOK
  <1>5. /\ orders' = [orders EXCEPT ![o] = s]
        /\ UNCHANGED <<now, nextOrderId, userOrders, history>>
    BY DEF deposit, AdminUnchanged
  <1>6. history' \in [OrderIds -> [asked : Nat, done : Nat, first : Nat]]
    BY <1>5 DEF OrdersTypeOK
  <1> HIDE DEF s
  <1>7. QED
    BY <1>2, <1>3, <1>4, <1>5, <1>6, TouchType

\* cancel keeps the types and the registration of ids.
LEMMA CancelType ==
  ASSUME OrdersTypeOK, Registered, NEW u \in Address, NEW o \in OrderIds, cancel(u, o)
  PROVE  OrdersTypeOK' /\ Registered'
  <1> DEFINE s == [orders[o] EXCEPT !.active = FALSE]
  <1>1. orders[o] \in Order /\ orders[o].active
    BY DEF OrdersTypeOK, cancel
  <1>2. o < nextOrderId
    BY <1>1 DEF Registered, NoOrder
  <1>3. /\ s \in Order
        /\ s.owner = orders[o].owner /\ s.tokenIn = orders[o].tokenIn
        /\ s.tokenOut = orders[o].tokenOut /\ s.interval = orders[o].interval
        /\ s.amountPerSwap = orders[o].amountPerSwap
    BY <1>1 DEF Order
  <1>4. /\ orders' = [orders EXCEPT ![o] = s]
        /\ UNCHANGED <<now, nextOrderId, userOrders, held, history>>
    BY DEF cancel, AdminUnchanged
  <1>5. /\ history' \in [OrderIds -> [asked : Nat, done : Nat, first : Nat]]
        /\ held' \in [Tokens -> 0 .. Supply]
    BY <1>4 DEF OrdersTypeOK
  <1> HIDE DEF s
  <1>6. QED
    BY <1>2, <1>3, <1>4, <1>5, TouchType

\* withdraw keeps the types: the vault's token balance does not underflow.
LEMMA WithdrawType ==
  ASSUME OrdersTypeOK, Registered, NEW u \in Address, NEW o \in OrderIds, withdraw(u, o)
  PROVE  OrdersTypeOK' /\ Registered'
  <1> DEFINE s == [orders[o] EXCEPT !.balance = 0]
  <1>1. orders[o] \in Order /\ orders[o].balance # 0
    BY DEF OrdersTypeOK, withdraw
  <1>2. o < nextOrderId /\ orders[o].tokenIn \in Tokens
    BY <1>1 DEF Registered, NoOrder
  <1>3. /\ s \in Order
        /\ s.owner = orders[o].owner /\ s.tokenIn = orders[o].tokenIn
        /\ s.tokenOut = orders[o].tokenOut /\ s.interval = orders[o].interval
        /\ s.amountPerSwap = orders[o].amountPerSwap
    BY <1>1 DEF Order
  <1>4. held' \in [Tokens -> 0 .. Supply]
    <2>1. orders[o].balance \in Nat
      BY <1>1 DEF Order
    <2>2. /\ held' = [held EXCEPT ![orders[o].tokenIn] = @ - orders[o].balance]
          /\ held[orders[o].tokenIn] >= orders[o].balance
      BY DEF withdraw
    <2>3. held \in [Tokens -> 0 .. Supply]
      BY DEF OrdersTypeOK
    <2> HIDE DEF s
    <2>4. QED
      BY <2>1, <2>2, <2>3, <1>2
  <1>5. /\ orders' = [orders EXCEPT ![o] = s]
        /\ UNCHANGED <<now, nextOrderId, userOrders, history>>
    BY DEF withdraw, AdminUnchanged
  <1>6. history' \in [OrderIds -> [asked : Nat, done : Nat, first : Nat]]
    BY <1>5 DEF OrdersTypeOK
  <1> HIDE DEF s
  <1>7. QED
    BY <1>2, <1>3, <1>4, <1>5, <1>6, TouchType

\* What a swap adds to the history of its order.
LEMMA CountSwapEffect ==
  ASSUME NEW h \in [asked : Nat, done : Nat, first : Nat], now \in Nat
  PROVE  /\ CountSwap(h) \in [asked : Nat, done : Nat, first : Nat]
         /\ CountSwap(h).asked = h.asked /\ CountSwap(h).done = h.done + 1
         /\ CountSwap(h).first = IF h.done = 0 THEN now ELSE h.first
  <1> DEFINE d == h.done + 1
             f == IF h.done = 0 THEN now ELSE h.first
  <1>1. d \in Nat /\ f \in Nat
    OBVIOUS
  <1>2. CountSwap(h) = [h EXCEPT !.done = d, !.first = f]
    BY DEF CountSwap
  <1> HIDE DEF d, f
  <1>3. /\ CountSwap(h) \in [asked : Nat, done : Nat, first : Nat]
        /\ CountSwap(h).asked = h.asked
        /\ CountSwap(h).done = d /\ CountSwap(h).first = f
    BY <1>1, <1>2
  <1>4. QED
    BY <1>3 DEF d, f

\* execute keeps the types: neither the order's balance nor the vault's underflows.
LEMMA ExecuteType ==
  ASSUME OrdersTypeOK, Registered, NEW u \in Address, NEW o \in OrderIds,
         NEW arrived \in Outputs \cup {0}, execute(u, o, arrived)
  PROVE  OrdersTypeOK' /\ Registered'
  <1> DEFINE r == orders[o]
  <1> DEFINE s == [SpendSwap(r) EXCEPT !.balance = @ - r.amountPerSwap,
                                       !.lastExecuted = now]
  <1>1. /\ r \in Order /\ o < nextOrderId
        /\ r.tokenIn \in Tokens /\ held[r.tokenIn] >= r.amountPerSwap
        /\ s \in Order
        /\ s.owner = r.owner /\ s.tokenIn = r.tokenIn /\ s.tokenOut = r.tokenOut
        /\ s.amountPerSwap = r.amountPerSwap /\ s.interval = r.interval
        /\ orders' = [orders EXCEPT ![o] = s]
        /\ held' = [held EXCEPT ![r.tokenIn] = held[r.tokenIn] - r.amountPerSwap]
    BY ExecuteEffect
  <1>2. r.amountPerSwap \in Nat
    BY <1>1 DEF Order
  <1>3. held' \in [Tokens -> 0 .. Supply]
    <2> HIDE DEF r, s
    <2> QED BY <1>1, <1>2 DEF OrdersTypeOK
  <1>4. /\ UNCHANGED <<now, nextOrderId, userOrders>>
        /\ history' = [history EXCEPT ![o] = CountSwap(history[o])]
    BY DEF execute, AdminUnchanged
  <1>5. history[o] \in [asked : Nat, done : Nat, first : Nat]
    BY DEF OrdersTypeOK
  <1>6. /\ history' \in [OrderIds -> [asked : Nat, done : Nat, first : Nat]]
        /\ \A p \in OrderIds \ {o} : history'[p] = history[p]
    <2> DEFINE h == CountSwap(history[o])
    <2>1. h \in [asked : Nat, done : Nat, first : Nat]
      BY <1>5, CountSwapEffect DEF OrdersTypeOK
    <2>2. history' = [history EXCEPT ![o] = h]
      BY <1>4
    <2> HIDE DEF h
    <2>3. history \in [OrderIds -> [asked : Nat, done : Nat, first : Nat]]
      BY DEF OrdersTypeOK
    <2>4. QED
      BY <2>1, <2>2, <2>3
  <1> HIDE DEF s
  <1>7. QED
    BY <1>1, <1>3, <1>4, <1>6, TouchType

\* Every function that touches orders keeps the types.
LEMMA TradeType ==
  ASSUME OrdersTypeOK, Registered, Trade
  PROVE  OrdersTypeOK' /\ Registered' /\ AdminUnchanged
  <1>1. AdminUnchanged
    <2>1. ASSUME NEW u \in Address, NEW o \in OrderIds, NEW arrived \in Outputs \cup {0},
                 execute(u, o, arrived)
          PROVE  AdminUnchanged
      BY <2>1 DEF execute
    <2>2. ASSUME NEW u \in Address, NEW o \in OrderIds, NEW amount \in Deposits,
                 deposit(u, o, amount)
          PROVE  AdminUnchanged
      BY <2>2 DEF deposit
    <2>3. ASSUME NEW u \in Address, NEW o \in OrderIds, cancel(u, o) \/ withdraw(u, o)
          PROVE  AdminUnchanged
      BY <2>3 DEF cancel, withdraw
    <2>4. QED
      BY <2>1, <2>2, <2>3, CreateType DEF Trade
  <1>2. OrdersTypeOK' /\ Registered'
    BY CreateType, DepositType, CancelType, WithdrawType, ExecuteType DEF Trade
  <1>3. QED
    BY <1>1, <1>2

\* Every function that administers the vault keeps the types.
LEMMA AdministerType ==
  ASSUME OrdersTypeOK, AdminTypeOK, Administer
  PROVE  AdminTypeOK' /\ UNCHANGED <<now, orderVars>>
  <1>1. PICK u \in Address :
          \/ \E c \in Candidates : proposeKeeper(u, c) \/ proposeOwner(u, c)
          \/ \E e \in Executors : proposeExecutor(u, e)
          \/ acceptKeeper(u) \/ acceptExecutor(u) \/ acceptOwnership(u)
    BY DEF Administer
  <1>2. now + AdminDelay \in Nat /\ now \in Nat
    BY VaultAssumption DEF OrdersTypeOK
  <1>3. ASSUME NEW c \in Candidates, proposeKeeper(u, c)
        PROVE  AdminTypeOK' /\ UNCHANGED <<now, orderVars>>
    BY <1>2, <1>3, VaultAssumption DEF AdminTypeOK, proposeKeeper, ownerVars, executorVars
  <1>4. ASSUME NEW c \in Candidates, proposeOwner(u, c)
        PROVE  AdminTypeOK' /\ UNCHANGED <<now, orderVars>>
    BY <1>2, <1>4, VaultAssumption DEF AdminTypeOK, proposeOwner, keeperVars, executorVars
  <1>5. ASSUME NEW e \in Executors, proposeExecutor(u, e)
        PROVE  AdminTypeOK' /\ UNCHANGED <<now, orderVars>>
    BY <1>2, <1>5, VaultAssumption DEF AdminTypeOK, proposeExecutor, ownerVars, keeperVars
  <1>6. CASE acceptKeeper(u)
    BY <1>6 DEF AdminTypeOK, acceptKeeper, ownerVars, executorVars
  <1>7. CASE acceptExecutor(u)
    BY <1>7 DEF AdminTypeOK, acceptExecutor, ownerVars, keeperVars
  <1>8. CASE acceptOwnership(u)
    BY <1>8 DEF AdminTypeOK, acceptOwnership, keeperVars, executorVars
  <1>9. QED
    BY <1>1, <1>3, <1>4, <1>5, <1>6, <1>7, <1>8

\* The variables hold values of their types in every reachable state, and an id
\* is in use exactly when createOrder assigned it.
THEOREM TypeCorrect == Spec => [](TypeOK /\ Registered)
  <1>1. Init => TypeOK /\ Registered
    BY InitType
  <1>2. TypeOK /\ Registered /\ [Next]_vars => (TypeOK /\ Registered)'
    <2> SUFFICES ASSUME OrdersTypeOK, AdminTypeOK, Registered, [Next]_vars
                 PROVE  OrdersTypeOK' /\ AdminTypeOK' /\ Registered'
      BY DEF TypeOK
    <2>1. CASE Tick
      BY <2>1 DEF Tick, OrdersTypeOK, AdminTypeOK, Registered, orderVars, ownerVars,
         keeperVars, executorVars
    <2>2. CASE Trade
      <3>1. OrdersTypeOK' /\ Registered' /\ AdminUnchanged
        BY <2>2, TradeType
      <3>2. AdminTypeOK'
        BY <3>1 DEF AdminUnchanged, AdminTypeOK, ownerVars, keeperVars, executorVars
      <3>3. QED
        BY <3>1, <3>2
    <2>3. CASE Administer
      <3>1. AdminTypeOK' /\ UNCHANGED <<now, orderVars>>
        BY <2>3, AdministerType
      <3>2. OrdersTypeOK' /\ Registered'
        BY <3>1 DEF OrdersTypeOK, Registered, orderVars
      <3>3. QED
        BY <3>1, <3>2
    <2>4. CASE UNCHANGED vars
      BY <2>4 DEF vars, OrdersTypeOK, AdminTypeOK, Registered, orderVars, ownerVars,
         keeperVars, executorVars
    <2>5. QED
      BY <2>1, <2>2, <2>3, <2>4 DEF Next
  <1>3. QED
    BY <1>1, <1>2, PTL DEF Spec

-----------------------------------------------------------------------------
(* The swap budget and the pace of an order                                *)

\* What a function of the contract may do to an order and its history, one order at
\* a time: open it, change its funds, close it, execute it, or leave it alone.
LEMMA TradeOrderEffect ==
  ASSUME OrdersTypeOK, Registered, Trade, NEW o \in OrderIds
  PROVE  \/ /\ o >= nextOrderId
            /\ orders'[o].remainingSwaps = history'[o].asked
            /\ history'[o].done = 0
            /\ orders'[o].lastExecuted = 0
            /\ orders'[o].interval \in 0 .. MaxUint
         \/ /\ history'[o] = history[o]
            /\ orders'[o].remainingSwaps = orders[o].remainingSwaps
            /\ orders'[o].lastExecuted = orders[o].lastExecuted
            /\ orders'[o].interval = orders[o].interval
            /\ orders'[o].active => orders[o].active
         \/ /\ orders[o].active
            /\ history'[o].asked = history[o].asked
            /\ history'[o].done = history[o].done + 1
            /\ history'[o].first = IF history[o].done = 0 THEN now ELSE history[o].first
            /\ orders'[o].remainingSwaps = IF orders[o].remainingSwaps > 1
                                            THEN orders[o].remainingSwaps - 1
                                            ELSE orders[o].remainingSwaps
            /\ orders'[o].active <=> orders[o].remainingSwaps # 1
            /\ orders'[o].interval = orders[o].interval
            /\ orders'[o].lastExecuted = now
            /\ now >= orders[o].lastExecuted + orders[o].interval
  <1> DEFINE Same == /\ history'[o] = history[o]
                     /\ orders'[o].remainingSwaps = orders[o].remainingSwaps
                     /\ orders'[o].lastExecuted = orders[o].lastExecuted
                     /\ orders'[o].interval = orders[o].interval
                     /\ orders'[o].active => orders[o].active
  <1>1. ASSUME NEW u \in Address, NEW tin \in Tokens, NEW tout \in Tokens,
               NEW price \in Prices, NEW interval \in Intervals, NEW limit \in Limits,
               NEW amount \in Deposits,
               createOrder(u, tin, tout, price, interval, limit, amount)
        PROVE  \/ /\ o >= nextOrderId
                  /\ orders'[o].remainingSwaps = history'[o].asked
                  /\ history'[o].done = 0
                  /\ orders'[o].lastExecuted = 0
                  /\ orders'[o].interval \in 0 .. MaxUint
               \/ Same
    <2> DEFINE s == [owner |-> u, tokenIn |-> tin, tokenOut |-> tout,
                     amountPerSwap |-> price, interval |-> interval, lastExecuted |-> 0,
                     remainingSwaps |-> limit, balance |-> amount, active |-> TRUE]
    <2>1. /\ orders' = [orders EXCEPT ![nextOrderId] = s]
          /\ history' = [history EXCEPT ![nextOrderId] =
                        [asked |-> limit, done |-> 0, first |-> 0]]
      BY <1>1 DEF createOrder
    <2>2. CASE o = nextOrderId
      <3>1. orders'[o] = s /\ history'[o] = [asked |-> limit, done |-> 0, first |-> 0]
        BY <2>1, <2>2 DEF OrdersTypeOK
      <3>2. interval \in 0 .. MaxUint
        BY VaultAssumption
      <3>3. QED
        BY <3>1, <3>2, <2>2 DEF OrdersTypeOK
    <2>3. CASE o # nextOrderId
      <3>1. orders'[o] = orders[o] /\ history'[o] = history[o]
        BY <2>1, <2>3 DEF OrdersTypeOK
      <3>2. QED
        BY <3>1
    <2>4. QED
      BY <2>2, <2>3
  <1>2. ASSUME NEW u \in Address, NEW p \in OrderIds, NEW amount \in Deposits,
               deposit(u, p, amount)
        PROVE  Same
    <2>1. orders' = [orders EXCEPT ![p] = [orders[p] EXCEPT !.balance = @ + amount]] /\ history' = history
      BY <1>2 DEF deposit
    <2>2. orders[p] \in Order /\ orders[o] \in Order
      BY DEF OrdersTypeOK
    <2>3. QED
      BY <2>1, <2>2 DEF OrdersTypeOK, Order
  <1>3. ASSUME NEW u \in Address, NEW p \in OrderIds, cancel(u, p)
        PROVE  Same
    <2>1. orders' = [orders EXCEPT ![p] = [orders[p] EXCEPT !.active = FALSE]] /\ history' = history
      BY <1>3 DEF cancel
    <2>2. orders[p] \in Order /\ orders[o] \in Order
      BY DEF OrdersTypeOK
    <2>3. QED
      BY <2>1, <2>2 DEF OrdersTypeOK, Order
  <1>4. ASSUME NEW u \in Address, NEW p \in OrderIds, withdraw(u, p)
        PROVE  Same
    <2>1. orders' = [orders EXCEPT ![p] = [orders[p] EXCEPT !.balance = 0]] /\ history' = history
      BY <1>4 DEF withdraw
    <2>2. orders[p] \in Order /\ orders[o] \in Order
      BY DEF OrdersTypeOK
    <2>3. QED
      BY <2>1, <2>2 DEF OrdersTypeOK, Order
  <1>5. ASSUME NEW u \in Address, NEW p \in OrderIds, p # o,
               NEW arrived \in Outputs \cup {0}, execute(u, p, arrived)
        PROVE  Same
    BY <1>5 DEF execute, OrdersTypeOK
  <1>6. ASSUME NEW u \in Address, NEW arrived \in Outputs \cup {0}, execute(u, o, arrived)
        PROVE  /\ orders[o].active
               /\ history'[o].asked = history[o].asked
               /\ history'[o].done = history[o].done + 1
               /\ history'[o].first = IF history[o].done = 0 THEN now ELSE history[o].first
               /\ orders'[o].remainingSwaps = IF orders[o].remainingSwaps > 1
                                               THEN orders[o].remainingSwaps - 1
                                               ELSE orders[o].remainingSwaps
               /\ orders'[o].active <=> orders[o].remainingSwaps # 1
               /\ orders'[o].interval = orders[o].interval
               /\ orders'[o].lastExecuted = now
               /\ now >= orders[o].lastExecuted + orders[o].interval
    <2> DEFINE r == orders[o]
    <2> DEFINE s == [SpendSwap(r) EXCEPT !.balance = @ - r.amountPerSwap,
                                         !.lastExecuted = now]
    <2>1. /\ r.active
          /\ s.interval = r.interval
          /\ s.lastExecuted = now
          /\ s.remainingSwaps =
                IF r.remainingSwaps > 1 THEN r.remainingSwaps - 1 ELSE r.remainingSwaps
          /\ s.active <=> r.remainingSwaps # 1
          /\ orders' = [orders EXCEPT ![o] = s]
      BY <1>6, ExecuteEffect
    <2>2. orders'[o] = s
      <3> HIDE DEF s
      <3> QED BY <2>1 DEF OrdersTypeOK
    <2>3. /\ history'[o].asked = history[o].asked
          /\ history'[o].done = history[o].done + 1
          /\ history'[o].first = IF history[o].done = 0 THEN now ELSE history[o].first
      <3>1. history' = [history EXCEPT ![o] = CountSwap(history[o])]
        BY <1>6 DEF execute
      <3>2. history'[o] = CountSwap(history[o])
        BY <3>1 DEF OrdersTypeOK
      <3>3. history[o] \in [asked : Nat, done : Nat, first : Nat] /\ now \in Nat
        BY DEF OrdersTypeOK
      <3>4. QED
        BY <3>2, <3>3, CountSwapEffect
    <2>4. now >= r.lastExecuted + r.interval
      BY <1>6 DEF execute, IntervalElapsed
    <2> HIDE DEF s
    <2>5. QED
      BY <2>1, <2>2, <2>3, <2>4
  <1> HIDE DEF Same
  <1>7. PICK u \in Address :
          \/ \E tin, tout \in Tokens, price \in Prices, interval \in Intervals,
                limit \in Limits, amount \in Deposits :
                createOrder(u, tin, tout, price, interval, limit, amount)
          \/ \E p \in OrderIds :
                \/ \E amount \in Deposits : deposit(u, p, amount)
                \/ cancel(u, p)
                \/ withdraw(u, p)
                \/ \E arrived \in Outputs \cup {0} : execute(u, p, arrived)
    BY DEF Trade
  <1>8. QED
    BY <1>1, <1>2, <1>3, <1>4, <1>5, <1>6, <1>7 DEF Same

\* However the functions of the contract are called, an order is never executed more
\* often than its owner asked for, and its counter never turns into "unlimited".
THEOREM SwapBudgetHolds == Spec => []SwapBudget
  <1>1. Init => SwapBudget
    BY NoOrderType DEF Init, SwapBudget, NoOrder
  <1>2. TypeOK /\ Registered /\ SwapBudget /\ [Next]_vars => SwapBudget'
    <2> SUFFICES ASSUME OrdersTypeOK, AdminTypeOK, Registered, SwapBudget, [Next]_vars
                 PROVE  SwapBudget'
      BY DEF TypeOK
    <2>1. CASE Trade
      <3> SUFFICES ASSUME NEW o \in OrderIds
                   PROVE  LET r == orders'[o]  h == history'[o] IN
                          /\ h.asked = 0 => r.remainingSwaps = 0
                          /\ h.asked > 0 =>
                               /\ r.remainingSwaps > 0
                               /\ h.done <= h.asked
                               /\ h.done < h.asked => h.done + r.remainingSwaps = h.asked
                               /\ h.done = h.asked => ~r.active
        BY DEF SwapBudget
      <3>1. /\ history[o].asked \in Nat /\ history[o].done \in Nat
            /\ orders[o].remainingSwaps \in Nat
        BY DEF OrdersTypeOK, Order
      <3>2. orders'[o].remainingSwaps \in Nat /\ history'[o].asked \in Nat
        BY <2>1, TradeType DEF OrdersTypeOK, Order
      <3>3. LET r == orders[o]  h == history[o] IN
            /\ h.asked = 0 => r.remainingSwaps = 0
            /\ h.asked > 0 =>
                 /\ r.remainingSwaps > 0
                 /\ h.done <= h.asked
                 /\ h.done < h.asked => h.done + r.remainingSwaps = h.asked
                 /\ h.done = h.asked => ~r.active
        BY DEF SwapBudget
      <3>4. QED
        BY <2>1, <3>1, <3>2, <3>3, TradeOrderEffect
    <2>2. CASE Tick
      BY <2>2 DEF Tick, orderVars, SwapBudget
    <2>3. CASE Administer
      BY <2>3, AdministerType DEF orderVars, SwapBudget
    <2>4. CASE UNCHANGED vars
      BY <2>4 DEF vars, orderVars, SwapBudget
    <2>5. QED
      BY <2>1, <2>2, <2>3, <2>4 DEF Next
  <1>3. QED
    BY <1>1, <1>2, TypeCorrect, PTL DEF Spec

\* k more swaps after the first need at least k * interval seconds: Pace is inductive,
\* because execute only runs an interval after the timestamp of the swap before.
THEOREM PaceHolds == Spec => []Pace
  <1>1. Init => Pace
    BY DEF Init, Pace
  <1>2. TypeOK /\ Registered /\ Pace /\ [Next]_vars => Pace'
    <2> SUFFICES ASSUME OrdersTypeOK, AdminTypeOK, Registered, Pace, [Next]_vars
                 PROVE  Pace'
      BY DEF TypeOK
    <2>1. CASE Trade
      <3>1. now' = now /\ now \in Nat
        BY <2>1, TradeType DEF AdminUnchanged, OrdersTypeOK
      <3> SUFFICES ASSUME NEW o \in OrderIds, history'[o].done >= 1
                   PROVE  /\ history'[o].first <= orders'[o].lastExecuted
                          /\ orders'[o].lastExecuted <= now
                          /\ (history'[o].done - 1) * orders'[o].interval
                                <= orders'[o].lastExecuted - history'[o].first
        BY <3>1 DEF Pace
      <3>2. /\ history[o].done \in Nat /\ history[o].first \in Nat
            /\ orders[o].interval \in Nat /\ orders[o].lastExecuted \in Nat
        BY DEF OrdersTypeOK, Order
      <3>3. history[o].done >= 1 =>
              /\ history[o].first <= orders[o].lastExecuted
              /\ orders[o].lastExecuted <= now
              /\ (history[o].done - 1) * orders[o].interval
                    <= orders[o].lastExecuted - history[o].first
        BY DEF Pace
      <3>4. CASE history'[o] = history[o]
        BY <2>1, <3>1, <3>2, <3>3, <3>4, TradeOrderEffect
      <3>5. CASE history'[o] # history[o]
        <4>1. /\ history'[o].done = history[o].done + 1
              /\ history'[o].first = IF history[o].done = 0 THEN now ELSE history[o].first
              /\ orders'[o].interval = orders[o].interval
              /\ orders'[o].lastExecuted = now
              /\ now >= orders[o].lastExecuted + orders[o].interval
          BY <2>1, <3>5, TradeOrderEffect
        <4>2. CASE history[o].done = 0
          <5>1. (history'[o].done - 1) * orders'[o].interval = 0
            BY <3>2, <4>1, <4>2
          <5>2. QED
            BY <3>1, <4>1, <4>2, <5>1
        <4>3. CASE history[o].done # 0
          <5>1. \A k, i \in Nat : k >= 1 => ((k + 1) - 1) * i = (k - 1) * i + i
            OBVIOUS
          <5>2. history[o].done >= 1
            BY <3>2, <4>3
          <5>3. (history'[o].done - 1) * orders'[o].interval
                  = (history[o].done - 1) * orders[o].interval + orders[o].interval
            BY <3>2, <4>1, <5>1, <5>2
          <5> DEFINE m == (history[o].done - 1) * orders[o].interval
          <5>4. m \in Int
            BY <3>2
          <5>5. /\ m <= orders[o].lastExecuted - history[o].first
                /\ history[o].first <= orders[o].lastExecuted
            BY <3>3, <5>2
          <5> HIDE DEF m
          <5>6. m + orders[o].interval <= now - history[o].first
            BY <3>1, <3>2, <4>1, <5>4, <5>5
          <5>7. history[o].first <= now
            BY <3>1, <3>2, <4>1, <5>5
          <5>8. history'[o].first = history[o].first /\ orders'[o].lastExecuted = now
            BY <4>1, <4>3
          <5>9. (history'[o].done - 1) * orders'[o].interval = m + orders[o].interval
            BY <5>3 DEF m
          <5>10. QED
            BY <3>1, <5>6, <5>7, <5>8, <5>9
        <4>4. QED
          BY <4>2, <4>3
      <3>6. QED
        BY <3>4, <3>5
    <2>2. CASE Tick
      <3>1. now' = now + 1 /\ now \in Nat /\ UNCHANGED <<orders, history>>
        BY <2>2 DEF Tick, orderVars, OrdersTypeOK
      <3>2. \A o \in OrderIds : orders[o].lastExecuted \in Nat
        BY DEF OrdersTypeOK, Order
      <3>3. QED
        BY <3>1, <3>2 DEF Pace
    <2>3. CASE Administer
      BY <2>3, AdministerType DEF orderVars, Pace
    <2>4. CASE UNCHANGED vars
      BY <2>4 DEF vars, orderVars, Pace
    <2>5. QED
      BY <2>1, <2>2, <2>3, <2>4 DEF Next
  <1>3. QED
    BY <1>1, <1>2, TypeCorrect, PTL DEF Spec

\* An order is created with lastExecuted 0; once it has run, its interval has passed.
RanAfterInterval ==
    /\ now <= Horizon
    /\ \A o \in OrderIds :
         /\ orders[o].interval <= MaxUint
         /\ orders[o].lastExecuted # 0 => orders[o].interval <= orders[o].lastExecuted
         /\ orders[o].lastExecuted <= now

\* The checked addition lastExecuted + interval never reverts, so an order with the
\* largest interval is not stuck in a view or in execute.
THEOREM NextExecutionFitsHolds == Spec => []NextExecutionFits
  <1>1. Init => RanAfterInterval
    BY VaultAssumption DEF Init, RanAfterInterval, NoOrder
  <1>2. TypeOK /\ Registered /\ RanAfterInterval /\ [Next]_vars => RanAfterInterval'
    <2> SUFFICES ASSUME OrdersTypeOK, AdminTypeOK, Registered, RanAfterInterval,
                        [Next]_vars
                 PROVE  RanAfterInterval'
      BY DEF TypeOK
    <2>1. CASE Trade
      <3>1. now' = now /\ now \in Nat /\ now <= Horizon
        BY <2>1, TradeType DEF AdminUnchanged, OrdersTypeOK, RanAfterInterval
      <3> SUFFICES ASSUME NEW o \in OrderIds
                   PROVE  /\ orders'[o].interval <= MaxUint
                          /\ orders'[o].lastExecuted # 0 =>
                               orders'[o].interval <= orders'[o].lastExecuted
                          /\ orders'[o].lastExecuted <= now
        BY <3>1 DEF RanAfterInterval
      <3>2. orders[o].lastExecuted \in Nat /\ orders[o].interval \in Nat
        BY DEF OrdersTypeOK, Order
      <3>3. /\ orders[o].interval <= MaxUint
            /\ orders[o].lastExecuted # 0 => orders[o].interval <= orders[o].lastExecuted
            /\ orders[o].lastExecuted <= now
        BY DEF RanAfterInterval
      <3>4. QED
        BY <2>1, <3>1, <3>2, <3>3, TradeOrderEffect, VaultAssumption
    <2>2. CASE Tick
      <3>1. /\ now' = now + 1 /\ now \in Nat /\ now < Horizon
            /\ UNCHANGED <<orders, history>>
        BY <2>2 DEF Tick, orderVars, OrdersTypeOK
      <3>2. \A o \in OrderIds : orders[o].lastExecuted \in Nat
        BY DEF OrdersTypeOK, Order
      <3>3. QED
        BY <3>1, <3>2, VaultAssumption DEF RanAfterInterval
    <2>3. CASE Administer
      BY <2>3, AdministerType DEF orderVars, RanAfterInterval
    <2>4. CASE UNCHANGED vars
      BY <2>4 DEF vars, orderVars, RanAfterInterval
    <2>5. QED
      BY <2>1, <2>2, <2>3, <2>4 DEF Next
  <1>3. TypeOK /\ RanAfterInterval => NextExecutionFits
    <2> SUFFICES ASSUME OrdersTypeOK, RanAfterInterval, NEW o \in OrderIds
                 PROVE  orders[o].lastExecuted + orders[o].interval <= MaxUint
      BY DEF TypeOK, NextExecutionFits
    <2>1. /\ orders[o].lastExecuted \in Nat /\ orders[o].interval \in Nat /\ now \in Nat
      BY DEF OrdersTypeOK, Order
    <2>2. QED
      BY <2>1, VaultAssumption DEF RanAfterInterval
  <1>4. QED
    BY <1>1, <1>2, <1>3, TypeCorrect, PTL DEF Spec

-----------------------------------------------------------------------------
(* Administration                                                          *)

\* A pending keeper or owner is unlocked a full delay after it was proposed.
UnlockAfterDelay ==
    /\ pendingKeeper # NoAddress =>
         keeperChangeUnlockAt = proposedAt.keeper + AdminDelay
    /\ pendingOwner # NoAddress =>
         ownershipTransferUnlockAt = proposedAt.owner + AdminDelay

\* Whoever proposes and accepts what in whatever order, keeper and owner change only
\* to the pending address and a full delay after that proposal.
THEOREM AdminTimelockHolds == Spec => AdminTimelock
  <1>1. Init => UnlockAfterDelay
    BY DEF Init, UnlockAfterDelay
  <1>2. ASSUME OrdersTypeOK, AdminTypeOK, UnlockAfterDelay, Administer
        PROVE  /\ UnlockAfterDelay'
               /\ keeper' # keeper =>
                    keeper' = pendingKeeper /\ now - proposedAt.keeper >= AdminDelay
               /\ owner' # owner =>
                    owner' = pendingOwner /\ now - proposedAt.owner >= AdminDelay
    <2> DEFINE Goal == /\ UnlockAfterDelay'
                       /\ keeper' # keeper =>
                            keeper' = pendingKeeper /\ now - proposedAt.keeper >= AdminDelay
                       /\ owner' # owner =>
                            owner' = pendingOwner /\ now - proposedAt.owner >= AdminDelay
    <2>1. PICK u \in Address :
            \/ \E c \in Candidates : proposeKeeper(u, c) \/ proposeOwner(u, c)
            \/ \E e \in Executors : proposeExecutor(u, e)
            \/ acceptKeeper(u) \/ acceptExecutor(u) \/ acceptOwnership(u)
      BY <1>2 DEF Administer
    <2>2. /\ now \in Nat /\ AdminDelay \in Nat /\ NoAddress \notin Address
          /\ proposedAt \in [keeper : Nat, owner : Nat, executor : Nat]
      BY <1>2, VaultAssumption DEF OrdersTypeOK, AdminTypeOK
    <2>3. ASSUME NEW c \in Candidates, proposeKeeper(u, c)
          PROVE  Goal
      BY <1>2, <2>2, <2>3 DEF UnlockAfterDelay, proposeKeeper, ownerVars, executorVars
    <2>4. ASSUME NEW c \in Candidates, proposeOwner(u, c)
          PROVE  Goal
      BY <1>2, <2>2, <2>4 DEF UnlockAfterDelay, proposeOwner, keeperVars, executorVars
    <2>5. ASSUME NEW e \in Executors, proposeExecutor(u, e)
          PROVE  Goal
      BY <1>2, <2>2, <2>5 DEF UnlockAfterDelay, proposeExecutor, keeperVars, ownerVars
    <2>6. CASE acceptKeeper(u)
      BY <1>2, <2>2, <2>6 DEF UnlockAfterDelay, acceptKeeper, ownerVars, executorVars
    <2>7. CASE acceptExecutor(u)
      BY <1>2, <2>2, <2>7 DEF UnlockAfterDelay, acceptExecutor, keeperVars, ownerVars
    <2>8. CASE acceptOwnership(u)
      BY <1>2, <2>2, <2>8 DEF UnlockAfterDelay, acceptOwnership, keeperVars, executorVars
    <2>9. QED
      BY <2>1, <2>3, <2>4, <2>5, <2>6, <2>7, <2>8
  <1>3. ASSUME OrdersTypeOK, Registered, UnlockAfterDelay, [Next]_vars, ~Administer
        PROVE  UnlockAfterDelay' /\ keeper' = keeper /\ owner' = owner
    <2>1. CASE Trade
      BY <1>3, <2>1, TradeType DEF AdminUnchanged, UnlockAfterDelay, ownerVars, keeperVars
    <2>2. CASE Tick
      BY <1>3, <2>2 DEF Tick, UnlockAfterDelay, ownerVars, keeperVars
    <2>3. CASE UNCHANGED vars
      BY <1>3, <2>3 DEF vars, UnlockAfterDelay, ownerVars, keeperVars
    <2>4. QED
      BY <1>3, <2>1, <2>2, <2>3 DEF Next
  <1>4. TypeOK /\ Registered /\ UnlockAfterDelay /\ [Next]_vars
        => /\ UnlockAfterDelay'
           /\ [ /\ keeper' # keeper =>
                     keeper' = pendingKeeper /\ now - proposedAt.keeper >= AdminDelay
                /\ owner' # owner =>
                     owner' = pendingOwner /\ now - proposedAt.owner >= AdminDelay ]_vars
    BY <1>2, <1>3 DEF TypeOK
  <1>5. QED
    BY <1>1, <1>4, TypeCorrect, PTL DEF Spec, AdminTimelock

-----------------------------------------------------------------------------
(* Solvency                                                                *)

\* Running totals follow a change by d of what one order is owed.
LEMMA ShiftedTotal ==
  ASSUME NEW t \in Tokens, NEW o \in OrderIds, NEW d \in Int,
         NEW sum \in [0 .. MaxOrders -> 0 .. Supply],
         RunningTotal(t, sum), sum[MaxOrders] = held[t],
         \A p \in OrderIds : Owed(p, t) \in Nat,
         Owed(o, t)' = Owed(o, t) + d, Owed(o, t)' \in Nat,
         \A p \in OrderIds \ {o} : Owed(p, t)' = Owed(p, t),
         held'[t] = held[t] + d, held'[t] \in 0 .. Supply
  PROVE  \E new \in [0 .. MaxOrders -> 0 .. Supply] :
           RunningTotal(t, new)' /\ new[MaxOrders] = held'[t]
  <1> DEFINE new == [i \in 0 .. MaxOrders |-> IF i > o THEN sum[i] + d ELSE sum[i]]
  <1>1. \A i \in 0 .. MaxOrders : sum[i] \in Nat
    OBVIOUS
  <1>2. /\ sum[0] = 0
        /\ \A p \in OrderIds : sum[p + 1] = sum[p] + Owed(p, t)
        /\ \A i, j \in 0 .. MaxOrders : i <= j => sum[i] <= sum[j]
    BY DEF RunningTotal
  <1>3. \A i \in 0 .. MaxOrders : i > o => sum[i] + d >= sum[o]
    <2> SUFFICES ASSUME NEW i \in 0 .. MaxOrders, i > o
                 PROVE  sum[i] + d >= sum[o]
      OBVIOUS
    <2>1. o + 1 \in 0 .. MaxOrders /\ o + 1 <= i /\ o \in 0 .. MaxOrders
      OBVIOUS
    <2>2. sum[i] >= sum[o + 1] /\ sum[o + 1] = sum[o] + Owed(o, t)
      BY <1>2, <2>1
    <2>3. QED
      BY <1>1, <2>1, <2>2
  <1>4. new \in [0 .. MaxOrders -> 0 .. Supply]
    <2> SUFFICES ASSUME NEW i \in 0 .. MaxOrders, i > o
                 PROVE  sum[i] + d \in 0 .. Supply
      BY <1>1
    <2>1. sum[i] <= sum[MaxOrders] /\ o \in 0 .. MaxOrders
      BY <1>2
    <2>2. sum[i] + d >= sum[o] /\ sum[o] \in Nat /\ sum[i] \in Nat
      BY <1>1, <1>3, <2>1
    <2>3. QED
      BY <2>1, <2>2
  <1>5. new[0] = 0 /\ new[MaxOrders] = held'[t]
    BY <1>2
  <1>6. ASSUME NEW p \in OrderIds
        PROVE  new[p + 1] = new[p] + Owed(p, t)'
    <2>1. p \in 0 .. MaxOrders /\ p + 1 \in 0 .. MaxOrders
      OBVIOUS
    <2>2. sum[p + 1] = sum[p] + Owed(p, t) /\ Owed(p, t) \in Nat /\ sum[p] \in Nat
      BY <1>1, <1>2, <2>1
    <2>3. CASE p = o
      BY <2>1, <2>2, <2>3
    <2>4. CASE p # o
      <3>1. Owed(p, t)' = Owed(p, t)
        BY <2>4
      <3>2. p + 1 > o <=> p > o
        BY <2>4
      <3>3. QED
        BY <2>1, <2>2, <3>1, <3>2
    <2>5. QED
      BY <2>3, <2>4
  <1>7. ASSUME NEW i \in 0 .. MaxOrders, NEW j \in 0 .. MaxOrders, i <= j
        PROVE  new[i] <= new[j]
    <2>1. sum[i] <= sum[j] /\ sum[i] \in Nat /\ sum[j] \in Nat
      BY <1>1, <1>2, <1>7
    <2>2. CASE i > o \/ ~(j > o)
      BY <2>1, <2>2, <1>7
    <2>3. CASE ~(i > o) /\ j > o
      <3>1. sum[i] <= sum[o] /\ sum[o] \in Nat
        BY <1>1, <1>2, <2>3
      <3>2. sum[j] + d >= sum[o]
        BY <1>3, <2>3
      <3>3. QED
        BY <2>1, <2>3, <3>1, <3>2
    <2>4. QED
      BY <2>2, <2>3
  <1> HIDE DEF new
  <1>8. RunningTotal(t, new)'
    BY <1>5, <1>6, <1>7 DEF RunningTotal
  <1>9. QED
    BY <1>4, <1>5, <1>8

\* Rewriting one order moves what it is owed by exactly what the vault's tokens move.
LEMMA OneOrderMoves ==
  ASSUME OrdersTypeOK, OrdersTypeOK', NEW t \in Tokens, NEW o \in OrderIds, NEW s \in Order,
         NEW d \in Int, orders' = [orders EXCEPT ![o] = s], s.tokenIn \in Tokens,
         orders[o].tokenIn = s.tokenIn \/ orders[o] = NoOrder,
         s.balance = orders[o].balance + d,
         held' = [held EXCEPT ![s.tokenIn] = held[s.tokenIn] + d]
  PROVE  \E p \in OrderIds, e \in Int :
           /\ Owed(p, t)' = Owed(p, t) + e
           /\ \A q \in OrderIds \ {p} : Owed(q, t)' = Owed(q, t)
           /\ held'[t] = held[t] + e
  <1> DEFINE e == IF s.tokenIn = t THEN d ELSE 0
  <1>1. orders'[o] = s /\ \A q \in OrderIds \ {o} : orders'[q] = orders[q]
    BY DEF OrdersTypeOK
  <1>2. \A q \in OrderIds \ {o} : Owed(q, t)' = Owed(q, t)
    BY <1>1 DEF Owed
  <1>3. held'[t] = held[t] + e
    BY DEF OrdersTypeOK
  <1>4. s.balance \in Nat /\ orders[o].balance \in Nat
    BY DEF OrdersTypeOK, Order
  <1>5. NoOrder.tokenIn = NoAddress /\ NoOrder.balance = 0 /\ NoAddress # t
    BY VaultAssumption DEF NoOrder
  <1>6. Owed(o, t)' = Owed(o, t) + e
    BY <1>1, <1>4, <1>5 DEF Owed
  <1>7. QED
    BY <1>2, <1>3, <1>6

\* Every call that moves tokens of the vault moves one order's balance along.
LEMMA TradeMovesTogether ==
  ASSUME OrdersTypeOK, Registered, Trade, NEW t \in Tokens
  PROVE  \E p \in OrderIds, e \in Int :
           /\ Owed(p, t)' = Owed(p, t) + e
           /\ \A q \in OrderIds \ {p} : Owed(q, t)' = Owed(q, t)
           /\ held'[t] = held[t] + e
  <1> DEFINE Goal == \E p \in OrderIds, e \in Int :
                       /\ Owed(p, t)' = Owed(p, t) + e
                       /\ \A q \in OrderIds \ {p} : Owed(q, t)' = Owed(q, t)
                       /\ held'[t] = held[t] + e
  <1>0. OrdersTypeOK'
    BY TradeType
  <1>1. ASSUME NEW u \in Address, NEW tin \in Tokens, NEW tout \in Tokens,
               NEW price \in Prices, NEW interval \in Intervals, NEW limit \in Limits,
               NEW amount \in Deposits,
               createOrder(u, tin, tout, price, interval, limit, amount)
        PROVE  Goal
    <2> DEFINE s == [owner |-> u, tokenIn |-> tin, tokenOut |-> tout,
                     amountPerSwap |-> price, interval |-> interval, lastExecuted |-> 0,
                     remainingSwaps |-> limit, balance |-> amount, active |-> TRUE]
    <2>1. s \in Order /\ s.tokenIn = tin /\ s.balance = amount
      BY DEF Order
    <2>2. nextOrderId \in OrderIds /\ orders[nextOrderId] = NoOrder
      BY <1>1 DEF createOrder, OrdersTypeOK, Registered
    <2>3. /\ orders' = [orders EXCEPT ![nextOrderId] = s]
          /\ held' = [held EXCEPT ![tin] = held[tin] + amount]
      BY <1>1 DEF createOrder
    <2>4. NoOrder.balance = 0 /\ amount \in Int
      BY DEF NoOrder
    <2> HIDE DEF s
    <2>5. s.balance = orders[nextOrderId].balance + amount
      BY <2>1, <2>2, <2>4
    <2> HIDE DEF Goal
    <2>6. QED
      BY <1>0, <2>1, <2>2, <2>3, <2>4, <2>5, OneOrderMoves DEF Goal
  <1>2. ASSUME NEW u \in Address, NEW o \in OrderIds, NEW amount \in Deposits,
               deposit(u, o, amount)
        PROVE  Goal
    <2> DEFINE s == [orders[o] EXCEPT !.balance = @ + amount]
    <2>1. orders[o] \in Order /\ orders[o].active /\ amount \in Nat
      BY <1>2 DEF OrdersTypeOK, deposit
    <2>2. orders[o].tokenIn \in Tokens
      BY <2>1 DEF Registered, NoOrder
    <2>3. s \in Order /\ s.tokenIn = orders[o].tokenIn
          /\ s.balance = orders[o].balance + amount
      BY <2>1 DEF Order
    <2>4. /\ orders' = [orders EXCEPT ![o] = s]
          /\ held' = [held EXCEPT ![orders[o].tokenIn] = held[orders[o].tokenIn] + amount]
      BY <1>2 DEF deposit
    <2>5. held' = [held EXCEPT ![s.tokenIn] = held[s.tokenIn] + amount]
      <3> HIDE DEF s
      <3> QED BY <2>3, <2>4
    <2>6. amount \in Int
      BY <2>1
    <2> HIDE DEF s, Goal
    <2>7. QED
      BY <1>0, <2>2, <2>3, <2>4, <2>5, <2>6, OneOrderMoves DEF Goal
  <1>3. ASSUME NEW u \in Address, NEW o \in OrderIds, cancel(u, o)
        PROVE  Goal
    <2>1. orders' = [orders EXCEPT ![o] = [orders[o] EXCEPT !.active = FALSE]] /\ held' = held
      BY <1>3 DEF cancel
    <2>2. \A q \in OrderIds : /\ orders[q] \in Order
                              /\ orders'[q].tokenIn = orders[q].tokenIn
                              /\ orders'[q].balance = orders[q].balance
      BY <2>1 DEF OrdersTypeOK, Order
    <2>3. \A q \in OrderIds : Owed(q, t)' = Owed(q, t) /\ Owed(q, t) \in Nat
      BY <2>2 DEF Owed, Order
    <2>4. held[t] \in Nat
      BY DEF OrdersTypeOK
    <2>5. /\ Owed(o, t)' = Owed(o, t) + 0
          /\ \A q \in OrderIds \ {o} : Owed(q, t)' = Owed(q, t)
          /\ held'[t] = held[t] + 0
      BY <2>1, <2>3, <2>4
    <2>6. QED
      BY <2>5
  <1>4. ASSUME NEW u \in Address, NEW o \in OrderIds, withdraw(u, o)
        PROVE  Goal
    <2> DEFINE s == [orders[o] EXCEPT !.balance = 0]
    <2> DEFINE d == 0 - orders[o].balance
    <2>1. orders[o] \in Order /\ orders[o].balance # 0 /\ orders[o].balance \in Nat
      BY <1>4 DEF OrdersTypeOK, withdraw, Order
    <2>2. orders[o].tokenIn \in Tokens
      BY <2>1 DEF Registered, NoOrder
    <2>3. s \in Order /\ s.tokenIn = orders[o].tokenIn /\ s.balance = 0
      BY <2>1 DEF Order
    <2>4. orders' = [orders EXCEPT ![o] = s]
      BY <1>4 DEF withdraw
    <2>5. held' = [held EXCEPT ![orders[o].tokenIn] = held[orders[o].tokenIn] + d]
      <3>1. held' = [held EXCEPT ![orders[o].tokenIn] = held[orders[o].tokenIn]
                                                         - orders[o].balance]
        BY <1>4 DEF withdraw
      <3>2. held[orders[o].tokenIn] \in Nat
        BY <2>2 DEF OrdersTypeOK
      <3>3. held[orders[o].tokenIn] + d = held[orders[o].tokenIn] - orders[o].balance
        BY <2>1, <3>2
      <3>4. QED
        BY <3>1, <3>3
    <2>6. d \in Int /\ s.balance = orders[o].balance + d
      BY <2>1, <2>3
    <2> HIDE DEF s, d, Goal
    <2>7. QED
      BY <1>0, <2>2, <2>3, <2>4, <2>5, <2>6, OneOrderMoves DEF Goal
  <1>5. ASSUME NEW u \in Address, NEW o \in OrderIds,
               NEW arrived \in Outputs \cup {0}, execute(u, o, arrived)
        PROVE  Goal
    <2> DEFINE r == orders[o]
    <2> DEFINE s == [SpendSwap(r) EXCEPT !.balance = @ - r.amountPerSwap,
                                         !.lastExecuted = now]
    <2> DEFINE d == 0 - r.amountPerSwap
    <2>1. /\ r \in Order /\ r.tokenIn \in Tokens /\ s \in Order
          /\ s.tokenIn = r.tokenIn
          /\ s.balance = r.balance - r.amountPerSwap
          /\ orders' = [orders EXCEPT ![o] = s]
          /\ held' = [held EXCEPT ![r.tokenIn] = held[r.tokenIn] - r.amountPerSwap]
      BY <1>5, ExecuteEffect
    <2> HIDE DEF s, r
    <2>2. r.amountPerSwap \in Nat /\ r.balance \in Nat /\ held[r.tokenIn] \in Nat
      BY <2>1 DEF Order, OrdersTypeOK
    <2>3. /\ d \in Int /\ s.balance = r.balance + d
          /\ held' = [held EXCEPT ![r.tokenIn] = held[r.tokenIn] + d]
      <3>1. /\ held[r.tokenIn] + d = held[r.tokenIn] - r.amountPerSwap
            /\ r.balance + d = r.balance - r.amountPerSwap
            /\ d \in Int
        BY <2>2
      <3> HIDE DEF d
      <3>2. held' = [held EXCEPT ![r.tokenIn] = held[r.tokenIn] + d]
        BY <2>1, <3>1
      <3>3. QED
        BY <2>1, <3>1, <3>2
    <2>4. held' = [held EXCEPT ![s.tokenIn] = held[s.tokenIn] + d]
      <3> HIDE DEF d
      <3> QED BY <2>1, <2>3
    <2>5. s.tokenIn \in Tokens /\ orders[o].tokenIn = s.tokenIn
          /\ s.balance = orders[o].balance + d
      BY <2>1, <2>3 DEF r
    <2> HIDE DEF d, Goal
    <2>6. QED
      BY <1>0, <2>1, <2>3, <2>4, <2>5, OneOrderMoves DEF Goal
  <1> HIDE DEF Goal
  <1>6. PICK u \in Address :
          \/ \E tin, tout \in Tokens, price \in Prices, interval \in Intervals,
                limit \in Limits, amount \in Deposits :
                createOrder(u, tin, tout, price, interval, limit, amount)
          \/ \E p \in OrderIds :
                \/ \E amount \in Deposits : deposit(u, p, amount)
                \/ cancel(u, p)
                \/ withdraw(u, p)
                \/ \E arrived \in Outputs \cup {0} : execute(u, p, arrived)
    BY DEF Trade
  <1>7. QED
    BY <1>1, <1>2, <1>3, <1>4, <1>5, <1>6 DEF Goal

\* For every token the vault owes exactly what it holds, for any number of orders,
\* users and tokens.
THEOREM SolvencyHolds == Spec => []Solvency
  <1>1. Init => Solvency
    <2> SUFFICES ASSUME Init, NEW t \in Tokens
                 PROVE  \E sum \in [0 .. MaxOrders -> 0 .. Supply] :
                          RunningTotal(t, sum) /\ sum[MaxOrders] = held[t]
      BY DEF Solvency
    <2> DEFINE sum == [i \in 0 .. MaxOrders |-> 0]
    <2>1. sum \in [0 .. MaxOrders -> 0 .. Supply] /\ sum[MaxOrders] = held[t]
      BY DEF Init
    <2>2. \A o \in OrderIds : Owed(o, t) = 0
      BY DEF Init, Owed, NoOrder
    <2>3. RunningTotal(t, sum)
      BY <2>2 DEF RunningTotal
    <2>4. QED
      BY <2>1, <2>3
  <1>2. TypeOK /\ Registered /\ Solvency /\ [Next]_vars => Solvency'
    <2> SUFFICES ASSUME OrdersTypeOK, AdminTypeOK, Registered, Solvency, [Next]_vars
                 PROVE  Solvency'
      BY DEF TypeOK
    <2>1. CASE Trade
      <3> SUFFICES ASSUME NEW t \in Tokens
                   PROVE  \E sum \in [0 .. MaxOrders -> 0 .. Supply] :
                            RunningTotal(t, sum)' /\ sum[MaxOrders] = held'[t]
        BY DEF Solvency
      <3>1. PICK sum \in [0 .. MaxOrders -> 0 .. Supply] :
              RunningTotal(t, sum) /\ sum[MaxOrders] = held[t]
        BY DEF Solvency
      <3>2. PICK o \in OrderIds, d \in Int :
              /\ Owed(o, t)' = Owed(o, t) + d
              /\ \A q \in OrderIds \ {o} : Owed(q, t)' = Owed(q, t)
              /\ held'[t] = held[t] + d
        BY <2>1, TradeMovesTogether
      <3>3. OrdersTypeOK'
        BY <2>1, TradeType
      <3>4. \A p \in OrderIds : Owed(p, t) \in Nat
        BY DEF Owed, OrdersTypeOK, Order
      <3>5. Owed(o, t)' \in Nat
        BY <3>3 DEF Owed, OrdersTypeOK, Order
      <3>6. held'[t] \in 0 .. Supply
        BY <3>3 DEF OrdersTypeOK
      <3>7. QED
        BY <3>1, <3>2, <3>4, <3>5, <3>6, ShiftedTotal
    <2>2. CASE UNCHANGED <<orders, held>>
      BY <2>2 DEF Solvency, RunningTotal, Owed
    <2>3. CASE Tick
      BY <2>2, <2>3 DEF Tick, orderVars
    <2>4. CASE Administer
      BY <2>2, <2>4, AdministerType DEF orderVars
    <2>5. CASE UNCHANGED vars
      BY <2>2, <2>5 DEF vars, orderVars
    <2>6. QED
      BY <2>1, <2>3, <2>4, <2>5 DEF Next
  <1>3. QED
    BY <1>1, <1>2, TypeCorrect, PTL DEF Spec

-----------------------------------------------------------------------------
(* The vault implements RecurringOrders                                    *)

\* One order as RecurringOrders sees it.
View(r) == [owner |-> r.owner, price |-> r.amountPerSwap, every |-> r.interval,
            licence |-> Licence(r), pot |-> r.balance, last |-> r.lastExecuted]

\* Only a closed order has no licence.
LEMMA LicenceOfOrder ==
  ASSUME NEW r \in Order
  PROVE  /\ Licence(r) \in Nat \cup {-1}
         /\ Licence(r) # 0 <=> r.active
  BY DEF Licence, Order

LEMMA OneEntry ==
  ASSUME NEW S, NEW f, NEW g, NEW o \in S, NEW v,
         f = [p \in S |-> f[p]], g = [p \in S |-> g[p]],
         g[o] = v, \A p \in S \ {o} : g[p] = f[p]
  PROVE  g = [f EXCEPT ![o] = v]
  <1>1. [f EXCEPT ![o] = v] = [p \in S |-> IF p = o THEN v ELSE f[p]]
    OBVIOUS
  <1>2. g = [p \in S |-> IF p = o THEN v ELSE f[p]]
    OBVIOUS
  <1>3. QED
    BY <1>1, <1>2

\* Rewriting one order rewrites one entry of the book.
LEMMA BookOfOneOrder ==
  ASSUME OrdersTypeOK, NEW o \in OrderIds, NEW s, orders' = [orders EXCEPT ![o] = s]
  PROVE  /\ Book[o] = View(orders[o])
         /\ Book'[o] = View(s)
         /\ Book' = [Book EXCEPT ![o] = View(s)]
  <1>1. Book = [p \in OrderIds |-> View(orders[p])]
    BY DEF Book, View
  <1>2. Book' = [p \in OrderIds |-> View(orders'[p])]
    BY DEF Book, View, Licence
  <1>3. orders'[o] = s /\ \A p \in OrderIds \ {o} : orders'[p] = orders[p]
    BY DEF OrdersTypeOK
  <1>4. Book[o] = View(orders[o]) /\ Book'[o] = View(s)
    BY <1>1, <1>2, <1>3
  <1>5. Book = [p \in OrderIds |-> Book[p]] /\ Book' = [p \in OrderIds |-> Book'[p]]
    BY <1>1, <1>2
  <1>6. \A p \in OrderIds \ {o} : Book'[p] = Book[p]
    BY <1>1, <1>2, <1>3
  <1>7. Book' = [Book EXCEPT ![o] = View(s)]
    BY <1>4, <1>5, <1>6, OneEntry
  <1>8. QED
    BY <1>4, <1>7

\* createOrder opens an order.
LEMMA CreateOpens ==
  ASSUME OrdersTypeOK, Registered,
         NEW u \in Address, NEW tin \in Tokens, NEW tout \in Tokens,
         NEW price \in Prices, NEW interval \in Intervals, NEW limit \in Limits,
         NEW amount \in Deposits,
         createOrder(u, tin, tout, price, interval, limit, amount)
  PROVE  Promise!Open(nextOrderId)
  <1> DEFINE r == [owner |-> u, tokenIn |-> tin, tokenOut |-> tout,
                   amountPerSwap |-> price, interval |-> interval, lastExecuted |-> 0,
                   remainingSwaps |-> limit, balance |-> amount, active |-> TRUE]
  <1>1. nextOrderId \in OrderIds /\ orders[nextOrderId] = NoOrder
    BY DEF createOrder, OrdersTypeOK, Registered
  <1>2. /\ orders' = [orders EXCEPT ![nextOrderId] = r] /\ now' = now
        /\ price # 0 /\ interval # 0 /\ amount # 0
    BY DEF createOrder, AdminUnchanged
  <1>3. View(NoOrder) = Promise!Blank
    BY DEF View, NoOrder, Licence, Promise!Blank
  <1>4. View(r) \in Promise!Opened
    BY <1>2 DEF View, Licence, Promise!Opened, Promise!Unlimited
  <1> HIDE DEF r
  <1>5. /\ Book[nextOrderId] = View(orders[nextOrderId]) /\ Book'[nextOrderId] = View(r)
        /\ Book' = [Book EXCEPT ![nextOrderId] = View(r)]
    BY <1>1, <1>2, BookOfOneOrder
  <1>6. QED
    BY <1>1, <1>2, <1>3, <1>4, <1>5 DEF Promise!Open

\* deposit funds one.
LEMMA DepositFunds ==
  ASSUME OrdersTypeOK, NEW u \in Address, NEW o \in OrderIds,
         NEW amount \in Deposits, deposit(u, o, amount)
  PROVE  Promise!Fund(o)
  <1> DEFINE s == [orders[o] EXCEPT !.balance = @ + amount]
  <1>1. orders[o] \in Order /\ orders[o].active /\ amount # 0 /\ amount \in Nat
    BY DEF OrdersTypeOK, deposit
  <1>2. orders' = [orders EXCEPT ![o] = s] /\ now' = now
    BY DEF deposit, AdminUnchanged
  <1>3. /\ View(s) = [View(orders[o]) EXCEPT !.pot = View(s).pot]
        /\ View(s).pot > View(orders[o]).pot
        /\ View(orders[o]).licence # 0
    BY <1>1, LicenceOfOrder DEF View, Order, Licence
  <1> HIDE DEF s
  <1>4. /\ Book[o] = View(orders[o]) /\ Book'[o] = View(s)
        /\ Book' = [Book EXCEPT ![o] = View(s)]
    BY <1>2, BookOfOneOrder
  <1>5. QED
    BY <1>2, <1>3, <1>4 DEF Promise!Fund

\* cancel closes one.
LEMMA CancelCloses ==
  ASSUME OrdersTypeOK, NEW u \in Address, NEW o \in OrderIds, cancel(u, o)
  PROVE  Promise!Close(o)
  <1> DEFINE s == [orders[o] EXCEPT !.active = FALSE]
  <1>1. orders[o] \in Order /\ orders[o].active
    BY DEF OrdersTypeOK, cancel
  <1>2. orders' = [orders EXCEPT ![o] = s] /\ now' = now
    BY DEF cancel, AdminUnchanged
  <1>3. /\ View(s) = [View(orders[o]) EXCEPT !.licence = 0]
        /\ View(orders[o]).licence # 0
    BY <1>1, LicenceOfOrder DEF View, Order, Licence
  <1> HIDE DEF s
  <1>4. /\ Book[o] = View(orders[o]) /\ Book'[o] = View(s)
        /\ Book' = [Book EXCEPT ![o] = View(s)]
    BY <1>2, BookOfOneOrder
  <1>5. QED
    BY <1>2, <1>3, <1>4 DEF Promise!Close

\* withdraw refunds one.
LEMMA WithdrawRefunds ==
  ASSUME OrdersTypeOK, NEW u \in Address, NEW o \in OrderIds, withdraw(u, o)
  PROVE  Promise!Refund(o)
  <1> DEFINE s == [orders[o] EXCEPT !.balance = 0]
  <1>1. orders[o] \in Order /\ orders[o].balance # 0
    BY DEF OrdersTypeOK, withdraw
  <1>2. orders' = [orders EXCEPT ![o] = s] /\ now' = now
    BY DEF withdraw, AdminUnchanged
  <1>3. /\ View(s) = [View(orders[o]) EXCEPT !.pot = 0]
        /\ View(orders[o]).pot > 0
    BY <1>1 DEF View, Order, Licence
  <1> HIDE DEF s
  <1>4. /\ Book[o] = View(orders[o]) /\ Book'[o] = View(s)
        /\ Book' = [Book EXCEPT ![o] = View(s)]
    BY <1>2, BookOfOneOrder
  <1>5. QED
    BY <1>2, <1>3, <1>4 DEF Promise!Refund

\* execute makes one swap: counter and flag together are the licence.
LEMMA ExecuteSwaps ==
  ASSUME OrdersTypeOK, Registered, NEW u \in Address, NEW o \in OrderIds,
         NEW arrived \in Outputs \cup {0}, execute(u, o, arrived)
  PROVE  Promise!Swap(o)
  <1> DEFINE r == orders[o]
  <1> DEFINE s == [SpendSwap(r) EXCEPT !.balance = @ - r.amountPerSwap,
                                       !.lastExecuted = now]
  <1>1. /\ r \in Order /\ r.active /\ r.balance >= r.amountPerSwap
        /\ s \in Order /\ s.owner = r.owner
        /\ s.amountPerSwap = r.amountPerSwap /\ s.interval = r.interval
        /\ s.balance = r.balance - r.amountPerSwap /\ s.lastExecuted = now
        /\ s.remainingSwaps =
              IF r.remainingSwaps > 1 THEN r.remainingSwaps - 1 ELSE r.remainingSwaps
        /\ s.active <=> r.remainingSwaps # 1
        /\ orders' = [orders EXCEPT ![o] = s]
    BY ExecuteEffect
  <1>2. now' = now
    BY DEF execute, AdminUnchanged
  <1>3. now - r.lastExecuted >= r.interval
    <2>1. now \in Nat /\ r.lastExecuted \in Nat /\ r.interval \in Nat
      BY <1>1 DEF OrdersTypeOK, Order
    <2>2. IntervalElapsed(r)
      BY DEF execute
    <2> HIDE DEF r, s
    <2>3. QED
      BY <2>1, <2>2 DEF IntervalElapsed
  <1> HIDE DEF r, s
  <1>4. Licence(s) = IF Licence(r) = -1 THEN -1 ELSE Licence(r) - 1
    BY <1>1 DEF Licence, Order
  <1>5. View(s) = [View(r) EXCEPT
                     !.pot = View(r).pot - View(r).price,
                     !.licence = IF View(r).licence = -1 THEN -1 ELSE View(r).licence - 1,
                     !.last = now]
    <2> DEFINE Views == [owner : Address \cup {NoAddress}, price : Nat, every : Nat,
                         licence : Int, pot : Nat, last : Nat]
    <2>1. View(r) \in Views /\ View(s) \in Views
      BY <1>1, LicenceOfOrder DEF View, Order
    <2>2. /\ View(s).owner = View(r).owner /\ View(s).price = View(r).price
          /\ View(s).every = View(r).every /\ View(s).last = now
          /\ View(s).pot = View(r).pot - View(r).price
          /\ View(s).licence =
               IF View(r).licence = -1 THEN -1 ELSE View(r).licence - 1
      BY <1>1, <1>4 DEF View
    <2>3. QED
      BY <2>1, <2>2
  <1>6. View(r).licence # 0 /\ View(r).pot >= View(r).price
        /\ now - View(r).last >= View(r).every
    BY <1>1, <1>3, LicenceOfOrder DEF View
  <1>7. Book[o] = View(r) /\ Book' = [Book EXCEPT ![o] = View(s)]
    BY <1>1, BookOfOneOrder DEF r
  <1>8. QED
    BY <1>2, <1>5, <1>6, <1>7 DEF Promise!Swap, Promise!Unlimited

\* The vault keeps the promise of RecurringOrders: every transaction of the contract is
\* one abstract operation on one order, or changes nothing an owner of an order sees.
THEOREM PromiseKept == Spec => KeepsPromise
  <1>1. Init => Promise!Init
    <2> SUFFICES ASSUME Init PROVE Promise!Init
      OBVIOUS
    <2>1. now \in Nat
      BY VaultAssumption DEF Init
    <2>2. Book = [o \in OrderIds |-> Promise!Blank]
      BY DEF Init, Book, NoOrder, Licence, Promise!Blank
    <2>3. QED
      BY <2>1, <2>2 DEF Promise!Init
  <1>2. ASSUME OrdersTypeOK, Registered, Trade
        PROVE  /\ now' = now
               /\ \E o \in OrderIds :
                    \/ Promise!Open(o) \/ Promise!Fund(o) \/ Promise!Close(o)
                    \/ Promise!Refund(o) \/ Promise!Swap(o)
    <2>1. now' = now
      BY <1>2, TradeType DEF AdminUnchanged
    <2>2. ASSUME NEW u \in Address, NEW tin \in Tokens, NEW tout \in Tokens,
                 NEW price \in Prices, NEW interval \in Intervals, NEW limit \in Limits,
                 NEW amount \in Deposits,
                 createOrder(u, tin, tout, price, interval, limit, amount)
          PROVE  nextOrderId \in OrderIds /\ Promise!Open(nextOrderId)
      <3>1. nextOrderId \in OrderIds
        BY <1>2, <2>2 DEF createOrder, OrdersTypeOK
      <3>2. Promise!Open(nextOrderId)
        BY <1>2, <2>2, CreateOpens
      <3>3. QED
        BY <3>1, <3>2
    <2>3. QED
      BY <1>2, <2>1, <2>2, DepositFunds, CancelCloses, WithdrawRefunds, ExecuteSwaps DEF Trade
  <1>3. ASSUME UNCHANGED <<now, orders>>
        PROVE  UNCHANGED <<Book, now>>
    BY <1>3 DEF Book, Licence
  <1>4. ASSUME OrdersTypeOK, Tick
        PROVE  Promise!Pass
    BY <1>4 DEF Tick, orderVars, Book, Licence, Promise!Pass, OrdersTypeOK
  <1>5. ASSUME OrdersTypeOK, AdminTypeOK, Registered, [Next]_vars
        PROVE  [Promise!Next]_<<Book, now>>
    <2>1. CASE Trade
      BY <1>2, <1>5, <2>1 DEF Promise!Next
    <2>2. CASE Tick
      BY <1>4, <1>5, <2>2 DEF Promise!Next
    <2>3. CASE Administer
      BY <1>3, <1>5, <2>3, AdministerType DEF orderVars
    <2>4. CASE UNCHANGED vars
      BY <1>3, <2>4 DEF vars, orderVars
    <2>5. QED
      BY <1>5, <2>1, <2>2, <2>3, <2>4 DEF Next
  <1>6. TypeOK /\ Registered /\ [Next]_vars => [Promise!Next]_<<Book, now>>
    BY <1>5 DEF TypeOK
  <1>7. QED
    BY <1>1, <1>6, TypeCorrect, PTL DEF Spec, KeepsPromise, Promise!Spec

-----------------------------------------------------------------------------
(* The scan                                                                *)

IsScan(s) == s = [next |-> s.next, active |-> s.active, found |-> s.found]

\* What is owed can be executed still, and what of it has been read was found; what was
\* found could be executed at some time of the scan.
ScanOK ==
    /\ scan.next \in 0 .. UpTo /\ IsScan(scan)
    /\ scan.found \subseteq ever
    /\ IF Scanning
         THEN /\ owed \subseteq Executable /\ owed \subseteq 0 .. UpTo - 1
              /\ owed \cap 0 .. scan.next - 1 \subseteq scan.found
              /\ Executable \subseteq ever
         ELSE owed \subseteq scan.found

LEMMA ScanInit == BackendInit => ScanOK
BY BackendAssumption DEF BackendInit, ScanOK, NoScan, IsScan, Scanning

LEMMA SameExecutable ==
  ASSUME UNCHANGED vars
  PROVE  Executable' = Executable
BY DEF vars, orderVars, Executable, isExecutable, IntervalElapsed

\* The vault moves on between two reads.
LEMMA ScanWaits ==
  ASSUME ScanOK, ScanGoesOn, Watch({})
  PROVE  ScanOK'
<1>1. CASE Scanning
  <2>1. scan' = scan /\ owed' = owed \cap Executable' /\ ever' = ever \cup Executable'
    BY <1>1 DEF ScanGoesOn, Watch
  <2> QED
    BY <1>1, <2>1 DEF ScanOK, Scanning, IsScan
<1>2. CASE ~Scanning
  <2>1. scan' = NoScan /\ owed' = {} /\ ever' = {}
    BY <1>2, BackendAssumption DEF ScanGoesOn, Watch, Scanning, NoScan
  <2> QED
    BY <2>1, BackendAssumption DEF ScanOK, Scanning, IsScan, NoScan
<1> QED
  BY <1>1, <1>2

\* An order is done with: it was found if it was owed.
LEMMA ScanMovesOn ==
  ASSUME ScanOK, Scanning, UNCHANGED vars, NEW found, NEW unread, Watch(unread),
         scan' = NextOrder(found),
         scan.found \subseteq found, found \subseteq scan.found \cup {scan.next},
         scan.next \in found => scan.next \in scan.found \cup Executable,
         scan.next \in owed \ unread => scan.next \in found
  PROVE  ScanOK'
<1>1. /\ scan'.next = scan.next + 1 /\ scan'.found = found /\ IsScan(scan')
      /\ owed' = (owed \cap Executable) \ unread /\ ever' = ever \cup Executable
      /\ Executable' = Executable
  BY SameExecutable DEF NextOrder, IsScan, Watch
<1>2. scan.next \in 0 .. UpTo - 1 /\ UpTo \in Nat
  BY BackendAssumption DEF ScanOK, Scanning
<1>3. scan'.next \in 0 .. UpTo
  BY <1>1, <1>2
<1>4. found \subseteq ever'
  BY <1>1 DEF ScanOK
<1>5. \A o \in owed' : o \in 0 .. scan.next => o \in found
  <2> TAKE o \in owed'
  <2>1. o \in owed \ unread
    BY <1>1
  <2>2. CASE o \in 0 .. scan.next - 1
    BY <2>1, <2>2 DEF ScanOK
  <2>3. CASE o = scan.next
    BY <2>1, <2>3
  <2> QED
    BY <1>2, <2>2, <2>3
<1>6. owed' \subseteq Executable' /\ owed' \subseteq 0 .. UpTo - 1 /\ Executable' \subseteq ever'
  BY <1>1 DEF ScanOK
<1>7. Scanning' <=> scan.next + 1 < UpTo
  BY <1>1 DEF Scanning
<1>8. CASE Scanning'
  <2>1. owed' \cap 0 .. scan'.next - 1 \subseteq scan'.found
    BY <1>1, <1>2, <1>5
  <2> QED
    BY <1>1, <1>3, <1>4, <1>6, <1>8, <2>1 DEF ScanOK
<1>9. CASE ~Scanning'
  <2>1. scan.next = UpTo - 1
    BY <1>2, <1>7, <1>9
  <2>2. owed' \subseteq scan'.found
    BY <1>1, <1>2, <1>5, <1>6, <2>1
  <2> QED
    BY <1>1, <1>3, <1>4, <1>9, <2>2 DEF ScanOK
<1> QED
  BY <1>8, <1>9

LEMMA ScanReads ==
  ASSUME ScanOK
  PROVE  /\ getExecutableOrders /\ Watch({}) => ScanOK'
         /\ readOrder /\ Watch({}) => ScanOK'
         /\ askExecutable /\ Watch({}) => ScanOK'
         /\ readFails /\ Watch({scan.next}) => ScanOK'
<1>0. Scanning => scan.next \in OrderIds
  BY BackendAssumption, VaultAssumption DEF ScanOK, Scanning, OrderIds
<1>1. ASSUME getExecutableOrders, Watch({}) PROVE ScanOK'
  <2>1. /\ scan' = [next |-> 0, active |-> FALSE, found |-> {}] /\ ~Scanning
        /\ Executable' = Executable
    BY <1>1, SameExecutable DEF getExecutableOrders, NoScan
  <2>2. CASE Scanning'
    <3>1. owed' = Executable \cap 0 .. UpTo - 1 /\ ever' = Executable
      BY <1>1, <2>1, <2>2 DEF Watch
    <3> QED
      BY <2>1, <2>2, <3>1, BackendAssumption DEF ScanOK, IsScan
  <2>3. CASE ~Scanning'
    <3>1. owed' = {} /\ ever' = {}
      BY <1>1, <2>1, <2>3 DEF Watch
    <3> QED
      BY <2>1, <2>3, <3>1, BackendAssumption DEF ScanOK, IsScan
  <2> QED
    BY <2>2, <2>3
<1>2. ASSUME readOrder, Watch({}) PROVE ScanOK'
  <2>1. Scanning /\ UNCHANGED vars
    BY <1>2 DEF readOrder
  <2>2. CASE orders[scan.next].active
    <3>1. scan' = [scan EXCEPT !.active = TRUE] /\ Executable' = Executable
      BY <1>2, <2>1, <2>2, SameExecutable DEF readOrder
    <3>2. scan'.next = scan.next /\ scan'.found = scan.found /\ IsScan(scan')
      BY <3>1 DEF ScanOK, IsScan
    <3>3. owed' = owed \cap Executable /\ ever' = ever \cup Executable
      BY <1>2, <2>1, <3>1 DEF Watch
    <3> QED
      BY <2>1, <3>1, <3>2, <3>3 DEF ScanOK, Scanning
  <2>3. CASE ~orders[scan.next].active
    <3>1. scan' = NextOrder(scan.found)
      BY <1>2, <2>3 DEF readOrder
    <3>2. scan.next \notin owed
      BY <2>1, <2>3 DEF ScanOK, Executable, isExecutable
    <3> QED
      BY <1>2, <2>1, <3>1, <3>2, ScanMovesOn
  <2> QED
    BY <2>2, <2>3
<1>3. ASSUME askExecutable, Watch({}) PROVE ScanOK'
  <2> DEFINE found == IF isExecutable(scan.next) THEN scan.found \cup {scan.next}
                      ELSE scan.found
  <2>1. Scanning /\ UNCHANGED vars /\ scan' = NextOrder(found)
    BY <1>3 DEF askExecutable
  <2>2. /\ scan.found \subseteq found /\ found \subseteq scan.found \cup {scan.next}
        /\ scan.next \in found => scan.next \in scan.found \cup Executable
    BY <1>0, <2>1 DEF Executable
  <2>3. scan.next \in owed => scan.next \in found
    BY <2>1 DEF ScanOK, Executable
  <2> HIDE DEF found
  <2> QED
    BY <1>3, <2>1, <2>2, <2>3, ScanMovesOn
<1>4. ASSUME readFails, Watch({scan.next}) PROVE ScanOK'
  <2>1. Scanning /\ UNCHANGED vars /\ scan' = NextOrder(scan.found)
    BY <1>4 DEF readFails
  <2> QED
    BY <1>4, <2>1, ScanMovesOn
<1> QED
  BY <1>1, <1>2, <1>3, <1>4

\* Whatever the backend and the wallets do, a scan goes on or begins, or its answer is taken.
LEMMA ScanStep == ScanOK /\ [BackendNext(Address, Tokens \X Tokens)]_backendVars => ScanOK'
<1> SUFFICES ASSUME ScanOK, [BackendNext(Address, Tokens \X Tokens)]_backendVars
             PROVE  ScanOK'
  OBVIOUS
<1>1. CASE UNCHANGED backendVars
  BY <1>1, SameExecutable DEF backendVars, ScanOK, Scanning
<1>2. CASE readFails /\ Watch({scan.next})
  BY <1>2, ScanReads
<1>3. CASE (getExecutableOrders \/ readOrder \/ askExecutable) /\ Watch({})
  BY <1>3, ScanReads
<1>4. CASE ScanGoesOn /\ Watch({})
  BY <1>4, ScanWaits
<1>5. ASSUME NEW u \in Address,
             \/ \E p \in Tokens \X Tokens, r \in Requests :
                   prepareCreateOrder(u, p[1], p[2], r[1], r[2], r[3], r[4])
             \/ \E o \in OrderIds :
                   \/ \E withdrawAfter \in BOOLEAN : prepareCancel(u, o, withdrawAfter)
                   \/ \E amount \in Deposits : topUp(u, o, amount)
                   \/ callDirectly(u, o)
             \/ sign(u)
             \/ reverts(u)
             \/ reject(u)
      PROVE  ScanGoesOn
  BY <1>5 DEF prepareCreateOrder, prepareCancel, topUp, callDirectly, sign, reverts, reject
<1>6. keeperExecutes \/ timePasses => ScanGoesOn
  BY DEF keeperExecutes, timePasses
<1> QED
  BY <1>1, <1>2, <1>3, <1>4, <1>5, <1>6 DEF BackendNext

\* However many orders there are, and whatever is executed, cancelled and topped up between
\* its reads: a scan lists every order that could be executed all along and was read, and
\* none that could not at any time.
THEOREM ScanIsCompleteHolds == BackendSpec => []ScanIsComplete
<1>1. ScanOK => ScanIsComplete
  BY DEF ScanOK, ScanIsComplete
<1> QED
  BY <1>1, ScanInit, ScanStep, PTL DEF BackendSpec

-----------------------------------------------------------------------------
(* The bundles                                                             *)

\* The transactions a bundle may consist of, with the arguments a client may pass.
Calls ==
    {Call("approve", a) : a \in Tokens \X Deposits}
    \cup {Call("createOrder", a) :
            a \in Tokens \X Tokens \X Prices \X Intervals \X Limits \X Deposits}
    \cup {Call("cancel", <<o>>) : o \in OrderIds}
    \cup {Call("withdraw", <<o>>) : o \in OrderIds}

Signings == {<<>>} \cup {<<x>> : x \in Calls} \cup {<<x, y>> : x \in Calls, y \in Calls}

Bundles == [steps : Signings, order : OrderIds \cup {0}, refund : BOOLEAN,
            late : Nat, end : Ends]

BundlesOK ==
    /\ keeper \in Address
    /\ bundle \in [Address -> Bundles]
    /\ \A u \in Address : bundle[u].end = "open" => bundle[u].steps # <<>>

LEMMA CallArguments ==
  ASSUME NEW x \in Calls
  PROVE  /\ x.call = "createOrder" =>
              /\ x.args[1] \in Tokens /\ x.args[2] \in Tokens /\ x.args[3] \in Prices
              /\ x.args[4] \in Intervals /\ x.args[5] \in Limits /\ x.args[6] \in Deposits
         /\ x.call \in {"cancel", "withdraw"} => x.args[1] \in OrderIds
BY DEF Calls, Call

LEMMA StepsLeft ==
  ASSUME NEW s \in Signings, s # <<>>
  PROVE  /\ Head(s) \in Calls
         /\ \/ s = <<Head(s)>> /\ Len(s) = 1
            \/ /\ Len(s) = 2 /\ Tail(s) \in Signings /\ Tail(s) = <<s[2]>>
               /\ s = <<Head(s), s[2]>>
<1>1. CASE \E x \in Calls : s = <<x>>
  BY <1>1
<1>2. ASSUME NEW x \in Calls, NEW y \in Calls, s = <<x, y>>
      PROVE  Head(s) = x /\ s[2] = y /\ Len(s) = 2 /\ Tail(s) = <<y>>
  BY <1>2
<1>3. CASE \E x, y \in Calls : s = <<x, y>>
  <2>1. PICK x \in Calls, y \in Calls : s = <<x, y>>
    BY <1>3
  <2>2. Head(s) = x /\ s[2] = y /\ Len(s) = 2 /\ Tail(s) = <<y>>
    BY <1>2, <2>1
  <2>3. <<y>> \in Signings
    BY DEF Signings
  <2> QED
    BY <2>1, <2>2, <2>3
<1> QED
  BY <1>1, <1>3 DEF Signings

\* What becomes of one bundle.
LEMMA BundleMoves ==
  ASSUME NEW b \in Bundles
  PROVE  /\ NoBundle \in Bundles
         /\ \A how \in Ends :
              LET c == [b EXCEPT !.steps = <<>>, !.end = how] IN
              /\ c \in Bundles /\ c.steps = <<>> /\ c.end = how
              /\ c.order = b.order /\ c.refund = b.refund /\ c.late = b.late
         /\ \A s \in Signings :
              LET c == [b EXCEPT !.steps = s] IN
              /\ c \in Bundles /\ c.steps = s
              /\ c.order = b.order /\ c.refund = b.refund /\ c.late = b.late /\ c.end = b.end
         /\ \A n \in Nat :
              LET c == [b EXCEPT !.late = n] IN
              /\ c \in Bundles /\ c.late = n /\ c.steps = b.steps
              /\ c.order = b.order /\ c.refund = b.refund /\ c.end = b.end
<1>1. <<>> \in Signings
  BY DEF Signings
<1>2. NoBundle \in Bundles
  BY <1>1 DEF NoBundle, Bundles, Ends
<1>3. ASSUME NEW how \in Ends
      PROVE  LET c == [b EXCEPT !.steps = <<>>, !.end = how] IN
             /\ c \in Bundles /\ c.steps = <<>> /\ c.end = how
             /\ c.order = b.order /\ c.refund = b.refund /\ c.late = b.late
  BY <1>1 DEF Bundles
<1>4. ASSUME NEW s \in Signings
      PROVE  LET c == [b EXCEPT !.steps = s] IN
             /\ c \in Bundles /\ c.steps = s
             /\ c.order = b.order /\ c.refund = b.refund /\ c.late = b.late /\ c.end = b.end
  BY DEF Bundles
<1>5. ASSUME NEW n \in Nat
      PROVE  LET c == [b EXCEPT !.late = n] IN
             /\ c \in Bundles /\ c.late = n /\ c.steps = b.steps
             /\ c.order = b.order /\ c.refund = b.refund /\ c.end = b.end
  BY DEF Bundles
<1> QED
  BY <1>2, <1>3, <1>4, <1>5

\* A new bundle.
LEMMA Offered ==
  ASSUME NEW s \in Signings, NEW o \in OrderIds \cup {0}, NEW refund \in BOOLEAN
  PROVE  LET c == Offer(s, o, refund) IN
         /\ c \in Bundles /\ c.steps = s /\ c.order = o /\ c.refund = refund
         /\ c.late = 0 /\ c.end = "open"
BY DEF Offer, Bundles, Ends

\* The end of a bundle.
LEMMA EndOfBundle ==
  ASSUME BundlesOK, NEW u \in Address, NEW how \in Ends, how # "open", Ended(u, how)
  PROVE  /\ bundle' \in [Address -> Bundles] /\ bundle'[u].end # "open"
         /\ \A v \in Address \ {u} : bundle'[v] = bundle[v]
         /\ ~bundle[u].refund => bundle'[u] = NoBundle
         /\ bundle[u].refund =>
              /\ bundle'[u].end = how /\ bundle'[u].order = bundle[u].order
              /\ bundle'[u].refund /\ bundle'[u].late = bundle[u].late
<1> DEFINE b == bundle[u]
           c == [b EXCEPT !.steps = <<>>, !.end = how]
<1>1. b \in Bundles /\ bundle \in [Address -> Bundles]
  BY DEF BundlesOK
<1>2. NoBundle \in Bundles /\ NoBundle.end # "open"
  BY <1>1, BundleMoves DEF NoBundle
<1>3. /\ c \in Bundles /\ c.end = how
      /\ c.order = b.order /\ c.refund = b.refund /\ c.late = b.late
  BY <1>1, BundleMoves
<1>4. bundle' = [bundle EXCEPT ![u] = IF b.refund THEN c ELSE NoBundle]
  BY DEF Ended
<1> HIDE DEF b, c
<1>5. /\ bundle' \in [Address -> Bundles]
      /\ bundle'[u] = IF b.refund THEN c ELSE NoBundle
      /\ \A v \in Address \ {u} : bundle'[v] = bundle[v]
  BY <1>1, <1>2, <1>3, <1>4
<1> QED
  BY <1>2, <1>3, <1>5 DEF b

\* What the vault sees of a step of the backend that is not a deposit.
NoDeposit ==
    \/ UNCHANGED vars
    \/ Tick
    \/ \E u \in Address, i, j \in Tokens, p \in Prices, e \in Intervals, l \in Limits,
          d \in Deposits : createOrder(u, i, j, p, e, l, d)
    \/ \E u \in Address, o \in OrderIds :
          \/ cancel(u, o)
          \/ withdraw(u, o)
          \/ \E arrived \in Outputs \cup {0} : execute(u, o, arrived)

LEMMA Sent ==
  ASSUME NEW u \in Address, NEW x \in Calls, Sends(u, x)
  PROVE  NoDeposit
<1> DEFINE a == x.args
<1>1. CASE x.call = "createOrder" /\ createOrder(u, a[1], a[2], a[3], a[4], a[5], a[6])
  BY <1>1, CallArguments DEF NoDeposit
<1>2. CASE x.call = "cancel" /\ cancel(u, a[1])
  BY <1>2, CallArguments DEF NoDeposit
<1>3. CASE x.call = "withdraw" /\ withdraw(u, a[1])
  BY <1>3, CallArguments DEF NoDeposit
<1> QED
  BY <1>1, <1>2, <1>3 DEF Sends, Approves, NoDeposit

\* An action of a user who is idle, with the bundle it leaves.
LEMMA Prepared ==
  ASSUME BundlesOK, NEW u \in Address,
         NEW s \in Signings, s # <<>>, NEW o \in OrderIds \cup {0}, NEW refund \in BOOLEAN,
         bundle' = [bundle EXCEPT ![u] = Offer(s, o, refund)], UNCHANGED keeper
  PROVE  BundlesOK'
<1> DEFINE c == Offer(s, o, refund)
<1>1. c \in Bundles /\ c.steps # <<>>
  BY Offered
<1> HIDE DEF c
<1>2. bundle' = [bundle EXCEPT ![u] = c] /\ bundle \in [Address -> Bundles]
  BY DEF c, BundlesOK
<1>3. /\ bundle' \in [Address -> Bundles] /\ bundle'[u] = c
      /\ \A v \in Address \ {u} : bundle'[v] = bundle[v]
  BY <1>1, <1>2
<1> QED
  BY <1>1, <1>3 DEF BundlesOK

LEMMA CreateSteps ==
  ASSUME BundlesOK, NEW u \in Address, NEW p \in Tokens \X Tokens, NEW r \in Requests,
         prepareCreateOrder(u, p[1], p[2], r[1], r[2], r[3], r[4])
  PROVE  /\ BundlesOK' /\ UNCHANGED vars
         /\ \A v \in Address \ {u} : bundle'[v] = bundle[v]
         /\ ~bundle'[u].refund /\ bundle'[u].end = "open"
<1> DEFINE approve == Call("approve", <<p[1], r[4]>>)
           create == Call("createOrder", <<p[1], p[2], r[1], r[2], r[3], r[4]>>)
           s == IF allowance[u][p[1]] < r[4] THEN <<approve, create>> ELSE <<create>>
<1>1. /\ p[1] \in Tokens /\ p[2] \in Tokens
      /\ r[1] \in Prices /\ r[2] \in Intervals /\ r[3] \in Limits /\ r[4] \in Deposits
  BY BackendAssumption
<1>2. approve \in Calls /\ create \in Calls
  BY <1>1 DEF Calls
<1>3. bundle' = [bundle EXCEPT ![u] = Offer(s, 0, FALSE)] /\ UNCHANGED vars
  BY DEF prepareCreateOrder
<1> HIDE DEF approve, create
<1>4. s \in Signings /\ s # <<>>
  BY <1>2 DEF Signings
<1> HIDE DEF s
<1>5. BundlesOK'
  BY <1>3, <1>4, Prepared DEF vars, keeperVars
<1>6. ~Offer(s, 0, FALSE).refund /\ Offer(s, 0, FALSE).end = "open"
  BY DEF Offer
<1> QED
  BY <1>3, <1>5, <1>6 DEF BundlesOK

cancelStep(o) == Call("cancel", <<o>>)
withdrawStep(o) == Call("withdraw", <<o>>)

LEMMA OneAfterOne ==
  ASSUME NEW S, NEW x \in S, NEW y \in S
  PROVE  <<x>> \o <<y>> = <<x, y>>
<1> DEFINE s == <<x>> \o <<y>>
<1>1. s \in Seq(S) /\ Len(s) = 2 /\ s[1] = x /\ s[2] = y
  OBVIOUS
<1> HIDE DEF s
<1>2. s = <<x, y>>
  BY <1>1
<1> QED
  BY <1>2 DEF s

LEMMA CancelSteps ==
  ASSUME BundlesOK, NEW u \in Address, NEW o \in OrderIds, NEW withdrawAfter \in BOOLEAN,
         prepareCancel(u, o, withdrawAfter)
  PROVE  /\ BundlesOK' /\ UNCHANGED vars /\ orders[o].owner = u
         /\ \A v \in Address \ {u} : bundle'[v] = bundle[v]
         /\ bundle'[u].refund = withdrawAfter /\ bundle'[u].end = "open"
         /\ bundle'[u].order = o /\ bundle'[u].late = 0
         /\ bundle'[u].steps = IF withdrawAfter /\ orders[o].balance > 0
                                 THEN <<cancelStep(o), withdrawStep(o)>> ELSE <<cancelStep(o)>>
<1> DEFINE s == IF withdrawAfter /\ orders[o].balance > 0
                  THEN <<cancelStep(o), withdrawStep(o)>> ELSE <<cancelStep(o)>>
<1>1. cancelStep(o) \in Calls /\ withdrawStep(o) \in Calls
  BY DEF Calls, cancelStep, withdrawStep
<1>2. s \in Signings /\ s # <<>>
  BY <1>1 DEF Signings
<1>3. <<cancelStep(o)>> \o (IF withdrawAfter THEN RefundSteps(o) ELSE <<>>) = s
  <2>1. <<cancelStep(o)>> \o <<>> = <<cancelStep(o)>>
    BY <1>1
  <2>3. <<cancelStep(o)>> \o <<withdrawStep(o)>> = <<cancelStep(o), withdrawStep(o)>>
    BY <1>1, OneAfterOne
  <2>2. RefundSteps(o) = IF orders[o].balance > 0 THEN <<withdrawStep(o)>> ELSE <<>>
    BY DEF RefundSteps, withdrawStep
  <2> QED
    BY <2>1, <2>2, <2>3
<1> HIDE DEF s
<1>4. /\ bundle' = [bundle EXCEPT ![u] = Offer(s, o, withdrawAfter)] /\ UNCHANGED vars
      /\ orders[o].owner = u
  BY <1>3 DEF prepareCancel, cancelStep
<1>5. BundlesOK'
  BY <1>2, <1>4, Prepared DEF vars, keeperVars
<1> DEFINE c == Offer(s, o, withdrawAfter)
<1>6. /\ c.steps = s /\ c.refund = withdrawAfter /\ c.end = "open" /\ c.order = o
      /\ c.late = 0
  BY <1>2, Offered
<1>7. bundle' = [bundle EXCEPT ![u] = c] /\ bundle \in [Address -> Bundles]
  BY <1>4 DEF BundlesOK
<1> HIDE DEF c
<1>8. bundle'[u] = c /\ \A v \in Address \ {u} : bundle'[v] = bundle[v]
  BY <1>7
<1> QED
  BY <1>4, <1>5, <1>6, <1>8 DEF s

LEMMA Signed ==
  ASSUME BundlesOK, NEW u \in Address, sign(u)
  PROVE  /\ BundlesOK' /\ NoDeposit
         /\ \A v \in Address \ {u} : bundle'[v] = bundle[v]
         /\ ~bundle[u].refund => ~bundle'[u].refund /\ bundle'[u].end \in {"none", "open"}
         /\ bundle[u].refund =>
              /\ bundle'[u].refund /\ bundle'[u].order = bundle[u].order
              /\ bundle'[u].late = bundle[u].late
              /\ IF Len(bundle[u].steps) = 1 THEN bundle'[u].end = "done"
                 ELSE bundle'[u].end = "open" /\ bundle'[u].steps = Tail(bundle[u].steps)
<1> DEFINE b == bundle[u]
<1>1. /\ b \in Bundles /\ bundle \in [Address -> Bundles]
      /\ b.end = "open" /\ b.steps # <<>> /\ b.steps \in Signings
  BY DEF BundlesOK, sign, Idle, Bundles
<1>2. Sends(u, Head(b.steps)) /\ Head(b.steps) \in Calls
  BY <1>1, StepsLeft DEF sign
<1>3. NoDeposit
  BY <1>2, Sent
<1>4. keeper' = keeper
  BY <1>2 DEF Sends, Approves, createOrder, cancel, withdraw, vars, AdminUnchanged, keeperVars
<1>5. CASE Len(b.steps) = 1
  <2>1. Ended(u, "done") /\ "done" \in Ends
    BY <1>5 DEF sign, Ends
  <2> QED
    BY <1>3, <1>4, <1>5, <2>1, EndOfBundle DEF BundlesOK, NoBundle
<1>6. CASE Len(b.steps) # 1
  <2> DEFINE c == [b EXCEPT !.steps = Tail(b.steps)]
  <2>1. bundle' = [bundle EXCEPT ![u] = c]
    BY <1>6 DEF sign
  <2>2. Tail(b.steps) \in Signings /\ Tail(b.steps) # <<>>
    <3> DEFINE s == b.steps
    <3>1. s \in Signings /\ s # <<>> /\ Len(s) # 1
      BY <1>1, <1>6
    <3> HIDE DEF s
    <3>2. Tail(s) \in Signings /\ Tail(s) = <<s[2]>>
      BY <3>1, StepsLeft
    <3> QED
      BY <3>2 DEF s
  <2>3. /\ c \in Bundles /\ c.steps = Tail(b.steps)
        /\ c.order = b.order /\ c.refund = b.refund /\ c.late = b.late /\ c.end = b.end
    BY <1>1, <2>2, BundleMoves
  <2> HIDE DEF c
  <2>4. /\ bundle' \in [Address -> Bundles] /\ bundle'[u] = c
        /\ \A v \in Address \ {u} : bundle'[v] = bundle[v]
    BY <1>1, <2>1, <2>3
  <2>5. BundlesOK'
    BY <1>4, <2>2, <2>3, <2>4 DEF BundlesOK
  <2> QED
    BY <1>1, <1>3, <1>6, <2>3, <2>4, <2>5
<1> QED
  BY <1>5, <1>6

LEMMA Reverted ==
  ASSUME BundlesOK, NEW u \in Address, reverts(u)
  PROVE  /\ BundlesOK' /\ UNCHANGED vars
         /\ \A v \in Address \ {u} : bundle'[v] = bundle[v]
         /\ ~bundle[u].refund => bundle'[u] = NoBundle
         /\ bundle[u].refund =>
              /\ bundle'[u].refund /\ bundle'[u].order = bundle[u].order
              /\ bundle'[u].late = bundle[u].late
              /\ bundle'[u].end = Head(bundle[u].steps).call
<1> DEFINE how == Head(bundle[u].steps).call
<1>1. how \in {"cancel", "withdraw"} /\ Ended(u, how) /\ UNCHANGED vars
  BY DEF reverts, Refuses
<1>2. how \in Ends /\ how # "open" /\ keeper' = keeper
  BY <1>1 DEF Ends, vars, keeperVars
<1> HIDE DEF how
<1>3. /\ bundle' \in [Address -> Bundles] /\ bundle'[u].end # "open"
      /\ \A v \in Address \ {u} : bundle'[v] = bundle[v]
      /\ ~bundle[u].refund => bundle'[u] = NoBundle
      /\ bundle[u].refund =>
           /\ bundle'[u].end = how /\ bundle'[u].order = bundle[u].order
           /\ bundle'[u].refund /\ bundle'[u].late = bundle[u].late
  BY <1>1, <1>2, EndOfBundle
<1> QED
  BY <1>1, <1>2, <1>3 DEF BundlesOK, how

LEMMA Rejected ==
  ASSUME BundlesOK, NEW u \in Address, reject(u)
  PROVE  /\ BundlesOK' /\ UNCHANGED vars
         /\ \A v \in Address \ {u} : bundle'[v] = bundle[v]
         /\ bundle'[u] = NoBundle
<1>1. bundle' = [bundle EXCEPT ![u] = NoBundle] /\ UNCHANGED vars
  BY DEF reject
<1>2. NoBundle \in Bundles /\ NoBundle.end # "open"
  BY BundleMoves DEF BundlesOK, NoBundle
<1> QED
  BY <1>1, <1>2 DEF BundlesOK, vars, keeperVars

LEMMA ToppedUp ==
  ASSUME BundlesOK, NEW u \in Address, NEW o \in OrderIds, NEW amount \in Deposits,
         topUp(u, o, amount)
  PROVE  /\ BundlesOK' /\ deposit(u, o, amount)
         /\ \A v \in Address \ {u} : bundle'[v] = bundle[v]
         /\ bundle'[u].steps = bundle[u].steps /\ bundle'[u].order = bundle[u].order
         /\ bundle'[u].refund = bundle[u].refund /\ bundle'[u].end = bundle[u].end
         /\ bundle[u].end = "open" /\ bundle[u].refund /\ bundle[u].order = o =>
              bundle'[u].late = bundle[u].late + amount
         /\ bundle'[u].late \in Nat
         /\ ~(bundle[u].end = "open" /\ bundle[u].refund /\ bundle[u].order = o) =>
              bundle'[u] = bundle[u]
<1> DEFINE b == bundle[u]
           n == IF ~Idle(u) /\ b.refund /\ b.order = o THEN b.late + amount ELSE b.late
           c == [b EXCEPT !.late = n]
<1>0. b \in Bundles /\ bundle \in [Address -> Bundles]
  BY DEF BundlesOK
<1>1. b \in Bundles /\ bundle \in [Address -> Bundles] /\ n \in Nat
  <2>1. b.late \in Nat /\ amount \in Nat
    BY <1>0, Amounts DEF Bundles
  <2> HIDE DEF b
  <2> QED
    BY <1>0, <2>1 DEF b
<1>2. bundle' = [bundle EXCEPT ![u] = c] /\ deposit(u, o, amount)
  BY DEF topUp
<1>3. keeper' = keeper
  BY <1>2 DEF deposit, AdminUnchanged, keeperVars
<1>4. /\ c \in Bundles /\ c.late = n /\ c.steps = b.steps
      /\ c.order = b.order /\ c.refund = b.refund /\ c.end = b.end
  BY <1>1, BundleMoves
<1>5. n = b.late => c = b
  BY <1>1 DEF Bundles
<1> HIDE DEF c
<1>6. /\ bundle' \in [Address -> Bundles] /\ bundle'[u] = c
      /\ \A v \in Address \ {u} : bundle'[v] = bundle[v]
  BY <1>1, <1>2, <1>4
<1>7. BundlesOK'
  BY <1>1, <1>3, <1>4, <1>6 DEF BundlesOK
<1> QED
  BY <1>1, <1>2, <1>4, <1>5, <1>6, <1>7 DEF Idle

LEMMA Elsewhere ==
  ASSUME BundlesOK,
         keeperExecutes \/ timePasses \/ \E u \in Address, o \in OrderIds : callDirectly(u, o)
  PROVE  BundlesOK' /\ NoDeposit /\ bundle' = bundle
<1>1. CASE keeperExecutes
  <2>1. PICK o \in OrderIds, arrived \in Outputs \cup {0} : execute(keeper, o, arrived)
    BY <1>1 DEF keeperExecutes
  <2>2. NoDeposit
    BY <2>1 DEF NoDeposit, BundlesOK
  <2>3. keeper' = keeper /\ bundle' = bundle
    BY <1>1, <2>1 DEF execute, AdminUnchanged, keeperVars, keeperExecutes
  <2> QED
    BY <2>2, <2>3 DEF BundlesOK
<1>2. CASE timePasses
  BY <1>2 DEF timePasses, NoDeposit, Tick, keeperVars, BundlesOK
<1>3. CASE \E u \in Address, o \in OrderIds : callDirectly(u, o)
  BY <1>3 DEF callDirectly, NoDeposit, cancel, withdraw, AdminUnchanged, keeperVars, BundlesOK
<1> QED
  BY <1>1, <1>2, <1>3

LEMMA ScanLeavesAlone ==
  ASSUME BundlesOK, getExecutableOrders \/ readOrder \/ askExecutable \/ readFails
                    \/ UNCHANGED backendVars
  PROVE  BundlesOK' /\ NoDeposit /\ bundle' = bundle
<1>1. UNCHANGED vars /\ bundle' = bundle
  BY DEF getExecutableOrders, readOrder, askExecutable, readFails, backendVars
<1> QED
  BY <1>1 DEF NoDeposit, vars, keeperVars, BundlesOK

\* Every step of the backend, seen from the vault and from the bundles.
LEMMA BundlesStep ==
  ASSUME BundlesOK, [BackendNext(Address, Tokens \X Tokens)]_backendVars
  PROVE  /\ BundlesOK'
         /\ \/ NoDeposit
            \/ \E u \in Address, o \in OrderIds, amount \in Deposits : topUp(u, o, amount)
<1>1. CASE \E u \in Address, p \in Tokens \X Tokens, r \in Requests :
              prepareCreateOrder(u, p[1], p[2], r[1], r[2], r[3], r[4])
  BY <1>1, CreateSteps DEF NoDeposit
<1>2. CASE \E u \in Address, o \in OrderIds, withdrawAfter \in BOOLEAN :
              prepareCancel(u, o, withdrawAfter)
  BY <1>2, CancelSteps DEF NoDeposit
<1>3. CASE \E u \in Address, o \in OrderIds, amount \in Deposits : topUp(u, o, amount)
  BY <1>3, ToppedUp
<1>4. CASE \E u \in Address : sign(u)
  BY <1>4, Signed
<1>5. CASE \E u \in Address : reverts(u)
  BY <1>5, Reverted DEF NoDeposit
<1>6. CASE \E u \in Address : reject(u)
  BY <1>6, Rejected DEF NoDeposit
<1>7. CASE keeperExecutes \/ timePasses \/ \E u \in Address, o \in OrderIds : callDirectly(u, o)
  BY <1>7, Elsewhere
<1>8. CASE getExecutableOrders \/ readOrder \/ askExecutable \/ readFails
           \/ UNCHANGED backendVars
  BY <1>8, ScanLeavesAlone
<1> QED
  BY <1>1, <1>2, <1>3, <1>4, <1>5, <1>6, <1>7, <1>8 DEF BackendNext

\* Every step is one the vault offers to whoever calls it.
LEMMA VaultStep ==
  ASSUME BundlesOK, [BackendNext(Address, Tokens \X Tokens)]_backendVars
  PROVE  [Next]_vars
<1>1. NoDeposit => [Next]_vars
  BY DEF NoDeposit, Next, Trade
<1>2. ASSUME NEW u \in Address, NEW o \in OrderIds, NEW amount \in Deposits,
             topUp(u, o, amount)
      PROVE  Next
  <2>1. deposit(u, o, amount)
    BY <1>2 DEF topUp
  <2> QED
    BY <2>1 DEF Next, Trade
<1> QED
  BY <1>1, <1>2, BundlesStep

LEMMA BundlesInit == BackendInit => BundlesOK
<1> SUFFICES ASSUME BackendInit PROVE BundlesOK
  OBVIOUS
<1>1. NoBundle \in Bundles /\ NoBundle.end # "open"
  <2>1. <<>> \in Signings
    BY DEF Signings
  <2> QED
    BY <2>1 DEF NoBundle, Bundles, Ends
<1>2. bundle = [u \in Address |-> NoBundle] /\ keeper \in Address
  BY DEF BackendInit, Init
<1> QED
  BY <1>1, <1>2 DEF BundlesOK

THEOREM BundlesAreWellFormed == BackendSpec => []BundlesOK
<1>1. BundlesOK /\ [BackendNext(Address, Tokens \X Tokens)]_backendVars => BundlesOK'
  BY BundlesStep
<1> QED
  BY <1>1, BundlesInit, PTL DEF BackendSpec

\* The backend is a client of the vault like any other: whatever bundles it prepares and
\* however they are signed, the vault takes only steps of its own specification, so what
\* is proved of DCAVault holds behind the backend too.
THEOREM BackendUsesVault == BackendSpec => Spec
<1>1. BackendInit => Init
  BY DEF BackendInit
<1>2. BundlesOK /\ [BackendNext(Address, Tokens \X Tokens)]_backendVars => [Next]_vars
  BY VaultStep
<1> QED
  BY <1>1, <1>2, BundlesAreWellFormed, PTL DEF BackendSpec, Spec

-----------------------------------------------------------------------------
(* Cancelling with refund                                                  *)

\* Only its owner's deposits can add to an order, and nothing reactivates it.
LEMMA OrderFalls ==
  ASSUME OrdersTypeOK, Registered, NEW o \in OrderIds, orders[o].owner \in Address, NoDeposit
  PROVE  /\ orders'[o].owner = orders[o].owner
         /\ orders'[o].active => orders[o].active
         /\ orders'[o].balance <= orders[o].balance
<1>0. orders \in [OrderIds -> Order] /\ orders[o] \in Order /\ o < nextOrderId
      /\ orders[o].balance \in Nat
  BY VaultAssumption DEF OrdersTypeOK, Registered, NoOrder, Order
<1>1. CASE orders' = orders
  BY <1>0, <1>1
<1>2. ASSUME NEW u \in Address, NEW i \in Tokens, NEW j \in Tokens, NEW p \in Prices,
             NEW e \in Intervals, NEW l \in Limits, NEW d \in Deposits,
             createOrder(u, i, j, p, e, l, d)
      PROVE  orders'[o] = orders[o]
  BY <1>0, <1>2 DEF createOrder
<1>3. ASSUME NEW u \in Address, NEW q \in OrderIds, cancel(u, q)
      PROVE  /\ orders'[o].owner = orders[o].owner
             /\ orders'[o].active => orders[o].active
             /\ orders'[o].balance = orders[o].balance
  BY <1>0, <1>3 DEF cancel, Order
<1>4. ASSUME NEW u \in Address, NEW q \in OrderIds, withdraw(u, q)
      PROVE  /\ orders'[o].owner = orders[o].owner
             /\ orders'[o].active = orders[o].active
             /\ orders'[o].balance <= orders[o].balance
  BY <1>0, <1>4 DEF withdraw, Order
<1>5. ASSUME NEW u \in Address, NEW q \in OrderIds, NEW arrived \in Outputs \cup {0},
             execute(u, q, arrived)
      PROVE  /\ orders'[o].owner = orders[o].owner
             /\ orders'[o].active => orders[o].active
             /\ orders'[o].balance <= orders[o].balance
  <2> DEFINE r == orders[q]
             s == [SpendSwap(r) EXCEPT !.balance = @ - r.amountPerSwap, !.lastExecuted = now]
  <2>1. /\ r \in Order /\ r.active /\ r.balance >= r.amountPerSwap
        /\ s.owner = r.owner /\ s.balance = r.balance - r.amountPerSwap
        /\ orders' = [orders EXCEPT ![q] = s]
    BY <1>5, ExecuteEffect
  <2> HIDE DEF s
  <2>2. CASE q = o
    <3>1. orders'[o] = s
      BY <1>0, <2>1, <2>2
    <3> QED
      BY <1>0, <2>1, <2>2, <3>1 DEF Order
  <2>3. CASE q # o
    BY <1>0, <2>1, <2>3
  <2> QED
    BY <2>2, <2>3
<1>6. (UNCHANGED vars \/ Tick) => orders' = orders
  BY DEF vars, orderVars, Tick
<1> QED
  BY <1>0, <1>1, <1>2, <1>3, <1>4, <1>5, <1>6 DEF NoDeposit

\* The vault holds what it owes an order.
LEMMA Covered ==
  ASSUME OrdersTypeOK, Registered, Solvency, NEW o \in OrderIds, orders[o].owner \in Address
  PROVE  held[orders[o].tokenIn] >= orders[o].balance
<1> DEFINE t == orders[o].tokenIn
<1>0. t \in Tokens
  <2>1. NoOrder.owner = NoAddress /\ NoAddress \notin Address
    BY VaultAssumption DEF NoOrder
  <2>2. orders[o] # NoOrder
    BY <2>1
  <2> QED
    BY <2>2 DEF Registered
<1>1. /\ t \in Tokens /\ o \in Nat /\ o + 1 \in 0 .. MaxOrders /\ o \in 0 .. MaxOrders
      /\ MaxOrders \in 0 .. MaxOrders /\ o + 1 <= MaxOrders
  BY <1>0, Amounts DEF OrderIds
<1>2. PICK sum \in [0 .. MaxOrders -> 0 .. Supply] :
         RunningTotal(t, sum) /\ sum[MaxOrders] = held[t]
  BY <1>1 DEF Solvency
<1>3. sum[o + 1] = sum[o] + orders[o].balance
  BY <1>2 DEF RunningTotal, Owed
<1>4. sum[o + 1] <= sum[MaxOrders]
  BY <1>1, <1>2 DEF RunningTotal
<1>5. sum[o] \in Nat /\ sum[o + 1] \in Nat /\ held[t] \in Nat /\ orders[o].balance \in Nat
  BY <1>1, <1>2, Amounts DEF OrdersTypeOK, Order
<1> HIDE DEF t
<1>6. sum[MaxOrders] = held[t]
  BY <1>2
<1>7. held[t] >= orders[o].balance
  BY <1>3, <1>4, <1>5, <1>6
<1> QED
  BY <1>7 DEF t

\* What u can rely on while a cancellation with refund is signed, and once it has ended:
\* the withdrawal is still to come, or nothing is left that u has not put there since.
RefundOK(u) ==
    LET b == bundle[u]  r == orders[b.order] IN
    IF b.refund
    THEN /\ b.order \in OrderIds /\ r.owner = u
         /\ \/ b.end = "open" /\ b.steps = <<cancelStep(b.order), withdrawStep(b.order)>>
            \/ b.end = "open" /\ b.steps = <<cancelStep(b.order)>> /\ r.balance <= b.late
            \/ b.end = "open" /\ b.steps = <<withdrawStep(b.order)>> /\ ~r.active
            \/ b.end = "cancel" /\ ~r.active
            \/ b.end \in {"done", "withdraw"} /\ ~r.active /\ r.balance <= b.late
    ELSE b.end \in {"none", "open"}

VaultOK == OrdersTypeOK /\ Registered /\ Solvency

LEMMA StepsAre ==
  ASSUME NEW u \in Address, NEW o \in OrderIds
  PROVE  /\ Sends(u, cancelStep(o)) => cancel(u, o)
         /\ Sends(u, withdrawStep(o)) => withdraw(u, o)
         /\ Refuses(u, cancelStep(o)) => orders[o].owner # u \/ ~orders[o].active
         /\ Refuses(u, withdrawStep(o)) =>
              \/ orders[o].owner # u
              \/ orders[o].balance = 0
              \/ ~(held[orders[o].tokenIn] >= orders[o].balance)
         /\ cancelStep(o).call = "cancel" /\ withdrawStep(o).call = "withdraw"
BY DEF Sends, Refuses, cancelStep, withdrawStep, Call

\* A step that leaves u's bundle alone.
LEMMA RefundWaits ==
  ASSUME OrdersTypeOK, OrdersTypeOK', Registered, BundlesOK, NEW u \in Address,
         RefundOK(u), NoDeposit, bundle'[u] = bundle[u]
  PROVE  RefundOK(u)'
<1> DEFINE b == bundle[u]
           r == orders[b.order]
           s == orders'[b.order]
<1>1. CASE b.refund
  <2>1. b.order \in OrderIds /\ r.owner = u /\ b \in Bundles
    BY <1>1 DEF RefundOK, BundlesOK
  <2>2. s.owner = r.owner /\ (s.active => r.active) /\ s.balance <= r.balance
    BY <2>1, OrderFalls
  <2>3. b.late \in Nat /\ r.balance \in Nat /\ s.balance \in Int
    <3>1. r \in Order /\ s \in Order
      BY <2>1 DEF OrdersTypeOK
    <3>2. b.late \in Nat
      BY <2>1 DEF Bundles
    <3> QED
      BY <3>1, <3>2 DEF Order
  <2> QED
    BY <1>1, <2>1, <2>2, <2>3 DEF RefundOK
<1>2. CASE ~b.refund
  BY <1>2 DEF RefundOK
<1> QED
  BY <1>1, <1>2

LEMMA SignedRefund ==
  ASSUME OrdersTypeOK, BundlesOK, NEW u \in Address, RefundOK(u), sign(u)
  PROVE  RefundOK(u)'
<1> DEFINE b == bundle[u]
           c == bundle'[u]
           o == b.order
           s == orders'[o]
<1>1. /\ ~b.refund => ~c.refund /\ c.end \in {"none", "open"}
      /\ b.refund =>
           /\ c.refund /\ c.order = b.order /\ c.late = b.late
           /\ IF Len(b.steps) = 1 THEN c.end = "done"
              ELSE c.end = "open" /\ c.steps = Tail(b.steps)
  BY Signed
<1>2. CASE ~b.refund
  BY <1>1, <1>2 DEF RefundOK
<1>3. CASE b.refund
  <2>1. /\ o \in OrderIds /\ orders[o].owner = u /\ b.end = "open"
        /\ Sends(u, Head(b.steps)) /\ b.late \in Nat
    BY <1>3 DEF RefundOK, sign, Idle, BundlesOK, Bundles
  <2>2. /\ orders \in [OrderIds -> Order] /\ orders[o] \in Order /\ orders[o].balance \in Nat
    BY <2>1 DEF OrdersTypeOK, Order
  <2>3. cancel(u, o) => s.owner = u /\ ~s.active /\ s.balance = orders[o].balance
    BY <2>1, <2>2 DEF cancel, Order
  <2>4. withdraw(u, o) => s.owner = u /\ s.active = orders[o].active /\ s.balance = 0
    BY <2>1, <2>2 DEF withdraw, Order
  <2>5. /\ Sends(u, cancelStep(o)) => cancel(u, o)
        /\ Sends(u, withdrawStep(o)) => withdraw(u, o)
    BY <2>1, StepsAre
  <2>6. CASE b.steps = <<cancelStep(o), withdrawStep(o)>>
    <3>1. /\ Head(b.steps) = cancelStep(o) /\ Tail(b.steps) = <<withdrawStep(o)>>
          /\ Len(b.steps) # 1
      BY <2>6
    <3> QED
      BY <1>1, <1>3, <2>1, <2>3, <2>5, <3>1 DEF RefundOK
  <2>7. CASE b.steps = <<cancelStep(o)>> /\ orders[o].balance <= b.late
    <3>1. Head(b.steps) = cancelStep(o) /\ Len(b.steps) = 1
      BY <2>7
    <3> QED
      BY <1>1, <1>3, <2>1, <2>3, <2>5, <2>7, <3>1 DEF RefundOK
  <2>8. CASE b.steps = <<withdrawStep(o)>> /\ ~orders[o].active
    <3>1. Head(b.steps) = withdrawStep(o) /\ Len(b.steps) = 1
      BY <2>8
    <3> QED
      BY <1>1, <1>3, <2>1, <2>4, <2>5, <2>8, <3>1 DEF RefundOK
  <2> QED
    BY <1>3, <2>1, <2>6, <2>7, <2>8 DEF RefundOK
<1> QED
  BY <1>2, <1>3

LEMMA RevertedRefund ==
  ASSUME OrdersTypeOK, Registered, Solvency, BundlesOK, NEW u \in Address, RefundOK(u),
         reverts(u)
  PROVE  RefundOK(u)'
<1> DEFINE b == bundle[u]
           c == bundle'[u]
           o == b.order
           how == Head(b.steps).call
<1>1. /\ ~b.refund => c = NoBundle
      /\ b.refund =>
           /\ c.refund /\ c.order = b.order /\ c.late = b.late
           /\ c.end = how
  BY Reverted
<1>2. CASE ~b.refund
  BY <1>1, <1>2 DEF RefundOK, NoBundle
<1>3. CASE b.refund
  <2>1. /\ o \in OrderIds /\ orders[o].owner = u /\ b.end = "open"
        /\ Refuses(u, Head(b.steps)) /\ b.late \in Nat /\ orders' = orders
    BY <1>3 DEF RefundOK, reverts, Idle, BundlesOK, Bundles, vars, orderVars
  <2>2. orders[o] \in Order /\ orders[o].balance \in Nat
    BY <2>1 DEF OrdersTypeOK, Order
  <2>3. /\ Refuses(u, cancelStep(o)) => ~orders[o].active
        /\ Refuses(u, withdrawStep(o)) => orders[o].balance = 0
        /\ cancelStep(o).call = "cancel" /\ withdrawStep(o).call = "withdraw"
    BY <2>1, StepsAre, Covered
  <2>4. CASE Head(b.steps) = cancelStep(o)
    BY <1>1, <1>3, <2>1, <2>3, <2>4 DEF RefundOK
  <2>5. CASE Head(b.steps) = withdrawStep(o) /\ ~orders[o].active
    BY <1>1, <1>3, <2>1, <2>2, <2>3, <2>5 DEF RefundOK
  <2>6. \/ b.steps = <<cancelStep(o), withdrawStep(o)>>
        \/ b.steps = <<cancelStep(o)>>
        \/ b.steps = <<withdrawStep(o)>> /\ ~orders[o].active
    BY <1>3, <2>1 DEF RefundOK
  <2> QED
    BY <2>4, <2>5, <2>6
<1> QED
  BY <1>2, <1>3

LEMMA ToppedUpRefund ==
  ASSUME OrdersTypeOK, BundlesOK, NEW v \in Address, RefundOK(v),
         NEW u \in Address, NEW o \in OrderIds, NEW amount \in Deposits, topUp(u, o, amount)
  PROVE  RefundOK(v)'
<1> DEFINE b == bundle[v]
           c == bundle'[v]
<1>1. /\ orders[o].owner = u /\ orders[o].active
      /\ orders' = [orders EXCEPT ![o].balance = @ + amount]
  BY ToppedUp DEF deposit
<1>2. orders \in [OrderIds -> Order] /\ amount \in Nat
  BY Amounts DEF OrdersTypeOK
<1>3. /\ orders'[o].owner = orders[o].owner /\ orders'[o].active = orders[o].active
      /\ orders'[o].balance = orders[o].balance + amount
      /\ \A q \in OrderIds \ {o} : orders'[q] = orders[q]
  BY <1>1, <1>2 DEF Order
<1>4. CASE ~b.refund
  <2>1. ~c.refund /\ c.end = b.end
    BY <1>4, ToppedUp
  <2> QED
    BY <1>4, <2>1 DEF RefundOK
<1>5. CASE b.refund /\ (v # u \/ b.order # o)
  <2>1. c = b
    BY <1>5, ToppedUp
  <2>2. orders'[b.order] = orders[b.order] /\ b.order \in OrderIds
    BY <1>1, <1>3, <1>5 DEF RefundOK
  <2> QED
    BY <1>5, <2>1, <2>2 DEF RefundOK
<1>6. CASE b.refund /\ v = u /\ b.order = o
  <2>1. /\ b.end = "open" /\ orders[o].balance \in Nat /\ b.late \in Nat
        /\ \/ b.steps = <<cancelStep(o), withdrawStep(o)>>
           \/ b.steps = <<cancelStep(o)>> /\ orders[o].balance <= b.late
    BY <1>1, <1>2, <1>6 DEF RefundOK, Order, BundlesOK, Bundles
  <2>2. /\ c.late = b.late + amount /\ c.steps = b.steps /\ c.order = o /\ c.refund
        /\ c.end = b.end
    BY <1>6, <2>1, ToppedUp
  <2> QED
    BY <1>1, <1>2, <1>3, <1>6, <2>1, <2>2 DEF RefundOK
<1> QED
  BY <1>4, <1>5, <1>6

LEMMA RefundStep ==
  ASSUME OrdersTypeOK, OrdersTypeOK', Registered, Solvency, BundlesOK,
         [BackendNext(Address, Tokens \X Tokens)]_backendVars,
         \A v \in Address : RefundOK(v)
  PROVE  \A v \in Address : RefundOK(v)'
<1> SUFFICES ASSUME NEW v \in Address
             PROVE  RefundOK(v)'
  OBVIOUS
<1>0. RefundOK(v)
  OBVIOUS
<1>1. ASSUME NEW u \in Address, NEW p \in Tokens \X Tokens, NEW r \in Requests,
             prepareCreateOrder(u, p[1], p[2], r[1], r[2], r[3], r[4])
      PROVE  RefundOK(v)'
  <2>1. CASE v = u
    BY <1>1, <2>1, CreateSteps DEF RefundOK
  <2>2. CASE v # u
    <3>1. NoDeposit /\ bundle'[v] = bundle[v]
      BY <1>1, <2>2, CreateSteps DEF NoDeposit
    <3> QED
      BY <1>0, <3>1, RefundWaits
  <2> QED
    BY <2>1, <2>2
<1>2. ASSUME NEW u \in Address, NEW o \in OrderIds, NEW withdrawAfter \in BOOLEAN,
             prepareCancel(u, o, withdrawAfter)
      PROVE  RefundOK(v)'
  <2>1. CASE v = u
    <3>1. /\ orders[o].owner = u /\ orders' = orders
          /\ bundle'[u].refund = withdrawAfter /\ bundle'[u].end = "open"
          /\ bundle'[u].order = o /\ bundle'[u].late = 0
          /\ bundle'[u].steps = IF withdrawAfter /\ orders[o].balance > 0
                                  THEN <<cancelStep(o), withdrawStep(o)>>
                                  ELSE <<cancelStep(o)>>
      BY <1>2, CancelSteps DEF vars, orderVars
    <3>2. orders[o].balance \in Nat
      BY DEF OrdersTypeOK, Order
    <3> QED
      BY <2>1, <3>1, <3>2 DEF RefundOK
  <2>2. CASE v # u
    <3>1. UNCHANGED vars
      BY <1>2, CancelSteps
    <3>2. bundle'[v] = bundle[v]
      BY <1>2, <2>2 DEF prepareCancel, BundlesOK
    <3>3. NoDeposit /\ bundle'[v] = bundle[v]
      BY <3>1, <3>2 DEF NoDeposit
    <3> QED
      BY <1>0, <3>3, RefundWaits
  <2> QED
    BY <2>1, <2>2
<1>3. ASSUME NEW u \in Address, NEW o \in OrderIds, NEW amount \in Deposits,
             topUp(u, o, amount)
      PROVE  RefundOK(v)'
  BY <1>0, <1>3, ToppedUpRefund
<1>4. ASSUME NEW u \in Address, sign(u)
      PROVE  RefundOK(v)'
  <2>1. CASE v = u
    BY <1>0, <1>4, <2>1, SignedRefund
  <2>2. CASE v # u
    <3>1. NoDeposit /\ bundle'[v] = bundle[v]
      BY <1>4, <2>2, Signed
    <3> QED
      BY <1>0, <3>1, RefundWaits
  <2> QED
    BY <2>1, <2>2
<1>5. ASSUME NEW u \in Address, reverts(u)
      PROVE  RefundOK(v)'
  <2>1. CASE v = u
    BY <1>0, <1>5, <2>1, RevertedRefund
  <2>2. CASE v # u
    <3>1. NoDeposit /\ bundle'[v] = bundle[v]
      BY <1>5, <2>2, Reverted DEF NoDeposit
    <3> QED
      BY <1>0, <3>1, RefundWaits
  <2> QED
    BY <2>1, <2>2
<1>6. ASSUME NEW u \in Address, reject(u)
      PROVE  RefundOK(v)'
  <2>1. CASE v = u
    BY <1>6, <2>1, Rejected DEF RefundOK, NoBundle
  <2>2. CASE v # u
    <3>1. NoDeposit /\ bundle'[v] = bundle[v]
      BY <1>6, <2>2, Rejected DEF NoDeposit
    <3> QED
      BY <1>0, <3>1, RefundWaits
  <2> QED
    BY <2>1, <2>2
<1>7. CASE \/ keeperExecutes
           \/ timePasses
           \/ \E u \in Address, o \in OrderIds : callDirectly(u, o)
  BY <1>0, <1>7, Elsewhere, RefundWaits
<1>8. CASE \/ getExecutableOrders
           \/ readOrder
           \/ askExecutable
           \/ readFails
           \/ UNCHANGED backendVars
  BY <1>0, <1>8, ScanLeavesAlone, RefundWaits
<1> QED
  BY <1>1, <1>2, <1>3, <1>4, <1>5, <1>6, <1>7, <1>8 DEF BackendNext

\* A cancellation with refund ends with an inactive order that holds at most what its
\* owner has deposited since the backend looked at it, whoever else uses the vault and
\* the backend meanwhile; only a cancellation that itself reverts may end otherwise.
THEOREM CancelPaysBackHolds == BackendSpec => []CancelPaysBack
<1> DEFINE Refunds == \A v \in Address : RefundOK(v)
<1>1. BackendInit => Refunds
  BY DEF BackendInit, RefundOK, NoBundle
<1>2. /\ (TypeOK /\ Registered) /\ (TypeOK /\ Registered)' /\ Solvency /\ BundlesOK /\ Refunds
      /\ [BackendNext(Address, Tokens \X Tokens)]_backendVars
      => Refunds'
  BY RefundStep DEF TypeOK
<1>3. BundlesOK /\ Refunds => CancelPaysBack
  BY DEF RefundOK, CancelPaysBack
<1>4. BackendSpec => [](TypeOK /\ Registered)
  BY BackendUsesVault, TypeCorrect, PTL
<1>5. BackendSpec => []Solvency
  BY BackendUsesVault, SolvencyHolds, PTL
<1> QED
  BY <1>1, <1>2, <1>3, <1>4, <1>5, BundlesAreWellFormed, PTL DEF BackendSpec
=============================================================================
