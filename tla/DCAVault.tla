------------------------------ MODULE DCAVault ------------------------------
(***************************************************************************)
(* contracts/aerodrome/core/DCAVault.sol: users deposit tokenIn into DCA   *)
(* orders, a keeper executes them at intervals, the owner of the contract  *)
(* administers keeper, executor and ownership in two steps.                *)
(*                                                                         *)
(* A transaction is atomic and nonReentrant covers every function that     *)
(* calls out, so one external function is one action.  A transaction that  *)
(* reverts changes nothing: its conditions are the guards of the action.   *)
(* The pools and the executor behind execute() are external: a swap either *)
(* fails, which reverts execute(), or pulls exactly the approved amount    *)
(* and delivers some tokenOut to the order's owner or to the vault.        *)
(*                                                                         *)
(* Two history variables, history and proposedAt, remember what the        *)
(* contract forgets; no action reads them.                                 *)
(***************************************************************************)
EXTENDS Integers, Sequences

CONSTANTS
    Address,        \* accounts that send transactions
    NoAddress,      \* address(0)
    Executors,      \* PanoramaExecutor deployments the vault may be pointed at
    Candidates,     \* accounts the owner considers for keeper and owner
    Tokens,         \* ERC-20 tokens
    Prices,         \* amountPerSwap values callers pass
    Intervals,      \* interval values callers pass
    Limits,         \* remainingSwaps values callers pass, 0 is unlimited
    Deposits,       \* depositAmount and amount values callers pass
    Outputs,        \* amounts of tokenOut a swap yields
    AdminDelay,     \* ADMIN_DELAY
    MaxUint,        \* type(uint256).max
    Genesis,        \* block.timestamp of the deployment
    Horizon,        \* bound: the last block.timestamp considered
    MaxOrders,      \* bound: how many orders are created
    Supply          \* bound: how much of a token the vault may hold

ASSUME VaultAssumption ==
    /\ NoAddress \notin Address \cup Executors \cup Tokens
    /\ Candidates \subseteq Address
    /\ Prices \subseteq Nat /\ Intervals \subseteq Nat
    /\ Limits \subseteq Nat /\ Deposits \subseteq Nat /\ Outputs \subseteq Nat
    /\ \A n \in Prices \cup Intervals \cup Limits \cup Deposits : n <= MaxUint
    /\ AdminDelay \in Nat \ {0} /\ MaxUint \in Nat
    /\ Genesis \in Nat \ {0} /\ Horizon \in Nat /\ Genesis <= Horizon
    /\ MaxOrders \in Nat /\ Supply \in Nat
    /\ 2 * Horizon <= MaxUint /\ Horizon + AdminDelay <= MaxUint
    /\ Supply <= MaxUint

VARIABLES
    now,                        \* block.timestamp
    orders, nextOrderId,        \* the orders mapping and its counter
    userOrders,                 \* _userOrders
    held,                       \* IERC20(token).balanceOf(vault), per token
    owner, pendingOwner, ownershipTransferUnlockAt,
    keeper, pendingKeeper, keeperChangeUnlockAt,
    executor, pendingExecutor,
    history,                    \* history, per order: swaps asked for and done, time of the first
    proposedAt                  \* history: when each pending role was proposed, 0 = none

orderVars == <<orders, nextOrderId, userOrders, held, history>>
ownerVars == <<owner, pendingOwner, ownershipTransferUnlockAt>>
keeperVars == <<keeper, pendingKeeper, keeperChangeUnlockAt>>
executorVars == <<executor, pendingExecutor>>
vars == <<now, orderVars, ownerVars, keeperVars, executorVars, proposedAt>>

OrderIds == 0 .. MaxOrders - 1

\* What the mapping holds for an id that was never assigned.
NoOrder == [owner |-> NoAddress, tokenIn |-> NoAddress, tokenOut |-> NoAddress,
            amountPerSwap |-> 0, interval |-> 0, lastExecuted |-> 0,
            remainingSwaps |-> 0, balance |-> 0, active |-> FALSE]

-----------------------------------------------------------------------------
Init ==
    /\ now = Genesis
    /\ orders = [o \in OrderIds |-> NoOrder]
    /\ nextOrderId = 0
    /\ userOrders = [u \in Address |-> <<>>]
    /\ held = [t \in Tokens |-> 0]
    /\ owner \in Address /\ pendingOwner = NoAddress
    /\ ownershipTransferUnlockAt = 0
    /\ keeper \in Address /\ pendingKeeper = NoAddress
    /\ keeperChangeUnlockAt = 0
    /\ executor \in Executors /\ pendingExecutor = NoAddress
    /\ history = [o \in OrderIds |-> [asked |-> 0, done |-> 0, first |-> 0]]
    /\ proposedAt = [keeper |-> 0, owner |-> 0, executor |-> 0]

Tick ==
    /\ now < Horizon
    /\ now' = now + 1
    /\ UNCHANGED <<orderVars, ownerVars, keeperVars, executorVars, proposedAt>>

-----------------------------------------------------------------------------
(* Orders                                                                  *)

AdminUnchanged == UNCHANGED <<now, ownerVars, keeperVars, executorVars, proposedAt>>

createOrder(u, tokenIn, tokenOut, amountPerSwap, interval, remainingSwaps, depositAmount) ==
    /\ nextOrderId < MaxOrders
    /\ held[tokenIn] + depositAmount <= Supply
    /\ amountPerSwap # 0
    /\ interval # 0
    /\ depositAmount # 0
    /\ orders' = [orders EXCEPT ![nextOrderId] =
                    [owner |-> u, tokenIn |-> tokenIn, tokenOut |-> tokenOut,
                     amountPerSwap |-> amountPerSwap, interval |-> interval,
                     lastExecuted |-> 0, remainingSwaps |-> remainingSwaps,
                     balance |-> depositAmount, active |-> TRUE]]
    /\ history' = [history EXCEPT ![nextOrderId] =
                    [asked |-> remainingSwaps, done |-> 0, first |-> 0]]
    /\ nextOrderId' = nextOrderId + 1
    /\ userOrders' = [userOrders EXCEPT ![u] = Append(@, nextOrderId)]
    /\ held' = [held EXCEPT ![tokenIn] = @ + depositAmount]
    /\ AdminUnchanged

deposit(u, o, amount) ==
    /\ orders[o].owner = u
    /\ amount # 0
    /\ orders[o].active
    /\ held[orders[o].tokenIn] + amount <= Supply
    /\ orders' = [orders EXCEPT ![o].balance = @ + amount]
    /\ held' = [held EXCEPT ![orders[o].tokenIn] = @ + amount]
    /\ UNCHANGED <<nextOrderId, userOrders, history>>
    /\ AdminUnchanged

cancel(u, o) ==
    /\ orders[o].owner = u
    /\ orders[o].active
    /\ orders' = [orders EXCEPT ![o].active = FALSE]
    /\ UNCHANGED <<nextOrderId, userOrders, held, history>>
    /\ AdminUnchanged

\* Mutant of withdraw: the balance is paid out and not cleared.
withdrawKeepingBalance(u, o) ==
    /\ orders[o].owner = u
    /\ orders[o].balance # 0
    /\ held[orders[o].tokenIn] >= orders[o].balance
    /\ held' = [held EXCEPT ![orders[o].tokenIn] = @ - orders[o].balance]
    /\ UNCHANGED <<orders, nextOrderId, userOrders, history>>
    /\ AdminUnchanged

\* The transfer reverts when the vault does not hold the balance it owes.
withdraw(u, o) ==
    /\ orders[o].owner = u
    /\ orders[o].balance # 0
    /\ held[orders[o].tokenIn] >= orders[o].balance
    /\ orders' = [orders EXCEPT ![o].balance = 0]
    /\ held' = [held EXCEPT ![orders[o].tokenIn] = @ - orders[o].balance]
    /\ UNCHANGED <<nextOrderId, userOrders, history>>
    /\ AdminUnchanged

\* Mutant of SpendSwap: the last swap leaves the counter at 0, which means unlimited.
SpendSwapToZero(r) ==
    [r EXCEPT !.remainingSwaps = IF @ > 0 THEN @ - 1 ELSE @]

\* The counter's encoding: 0 is unlimited, the last swap leaves the counter at 1
\* and deactivates the order instead.
SpendSwap(r) ==
    [r EXCEPT !.remainingSwaps = IF @ > 1 THEN @ - 1 ELSE @,
              !.active = @ /\ r.remainingSwaps # 1]

\* History: one more swap, the first of them now.
CountSwap(h) == [h EXCEPT !.done = @ + 1, !.first = IF h.done = 0 THEN now ELSE @]

\* Mutants of IntervalElapsed: only one of the two summands counts.
IntervalOfClock(r) == now >= r.interval
IntervalIgnored(r) == now >= r.lastExecuted

\* lastExecuted + interval is checked arithmetic: an overflow reverts.
IntervalElapsed(r) ==
    /\ r.lastExecuted + r.interval <= MaxUint
    /\ now >= r.lastExecuted + r.interval

\* External: no pool trades a token for itself, and the executor's transferFrom
\* needs the tokens to be there.
SwapPossible(r) ==
    /\ r.tokenIn # r.tokenOut
    /\ held[r.tokenIn] >= r.amountPerSwap

\* External: the balances of the vault when executeSwapFor returns.  The executor
\* pulled amountPerSwap, and `arrived' of tokenOut landed in the vault: 0 when the
\* adapter paid the recipient directly.
AfterSwap(r, arrived) ==
    [held EXCEPT ![r.tokenIn] = @ - r.amountPerSwap, ![r.tokenOut] = @ + arrived]

execute(k, o, arrived) ==
    LET r == orders[o]
        after == AfterSwap(r, arrived)
        amountOut == after[r.tokenOut] - held[r.tokenOut]
    IN  /\ k = keeper
        /\ r.active
        /\ IntervalElapsed(r)
        /\ r.balance >= r.amountPerSwap
        /\ SwapPossible(r)
        /\ orders' = [orders EXCEPT ![o] =
                        [SpendSwap(r) EXCEPT !.balance = @ - r.amountPerSwap,
                                             !.lastExecuted = now]]
        /\ held' = [after EXCEPT ![r.tokenOut] = @ - amountOut]
        /\ history' = [history EXCEPT ![o] = CountSwap(@)]
        /\ UNCHANGED <<nextOrderId, userOrders>>
        /\ AdminUnchanged

\* Mutant of isExecutable: funds are not looked at.
isExecutableUnfunded(o) == orders[o].active /\ IntervalElapsed(orders[o])

\* The view the keeper polls.
isExecutable(o) ==
    /\ orders[o].active
    /\ orders[o].balance >= orders[o].amountPerSwap
    /\ IntervalElapsed(orders[o])

-----------------------------------------------------------------------------
(* Administration                                                          *)

proposeKeeper(u, newKeeper) ==
    /\ u = owner
    /\ newKeeper # NoAddress
    /\ pendingKeeper' = newKeeper
    /\ keeperChangeUnlockAt' = now + AdminDelay
    /\ proposedAt' = [proposedAt EXCEPT !.keeper = now]
    /\ UNCHANGED <<now, orderVars, ownerVars, executorVars, keeper>>

\* Mutant of acceptKeeper: no delay.
acceptKeeperEarly(u) ==
    /\ u = pendingKeeper
    /\ keeper' = pendingKeeper
    /\ pendingKeeper' = NoAddress
    /\ keeperChangeUnlockAt' = 0
    /\ proposedAt' = [proposedAt EXCEPT !.keeper = 0]
    /\ UNCHANGED <<now, orderVars, ownerVars, executorVars>>

acceptKeeper(u) ==
    /\ u = pendingKeeper
    /\ now >= keeperChangeUnlockAt
    /\ keeper' = pendingKeeper
    /\ pendingKeeper' = NoAddress
    /\ keeperChangeUnlockAt' = 0
    /\ proposedAt' = [proposedAt EXCEPT !.keeper = 0]
    /\ UNCHANGED <<now, orderVars, ownerVars, executorVars>>

proposeExecutor(u, newExecutor) ==
    /\ u = owner
    /\ newExecutor # NoAddress
    /\ pendingExecutor' = newExecutor
    /\ proposedAt' = [proposedAt EXCEPT !.executor = now]
    /\ UNCHANGED <<now, orderVars, ownerVars, keeperVars, executor>>

\* Accepted by the owner, not by the proposed address, and without a delay.
acceptExecutor(u) ==
    /\ u = owner
    /\ pendingExecutor # NoAddress
    /\ executor' = pendingExecutor
    /\ pendingExecutor' = NoAddress
    /\ proposedAt' = [proposedAt EXCEPT !.executor = 0]
    /\ UNCHANGED <<now, orderVars, ownerVars, keeperVars>>

proposeOwner(u, newOwner) ==
    /\ u = owner
    /\ newOwner # NoAddress
    /\ pendingOwner' = newOwner
    /\ ownershipTransferUnlockAt' = now + AdminDelay
    /\ proposedAt' = [proposedAt EXCEPT !.owner = now]
    /\ UNCHANGED <<now, orderVars, keeperVars, executorVars, owner>>

acceptOwnership(u) ==
    /\ u = pendingOwner
    /\ now >= ownershipTransferUnlockAt
    /\ owner' = pendingOwner
    /\ pendingOwner' = NoAddress
    /\ ownershipTransferUnlockAt' = 0
    /\ proposedAt' = [proposedAt EXCEPT !.owner = 0]
    /\ UNCHANGED <<now, orderVars, keeperVars, executorVars>>

-----------------------------------------------------------------------------
Trade ==
    \/ \E u \in Address, tokenIn, tokenOut \in Tokens, price \in Prices,
          interval \in Intervals, limit \in Limits, amount \in Deposits :
          createOrder(u, tokenIn, tokenOut, price, interval, limit, amount)
    \/ \E u \in Address, o \in OrderIds :
          \/ \E amount \in Deposits : deposit(u, o, amount)
          \/ cancel(u, o)
          \/ withdraw(u, o)
          \/ \E arrived \in Outputs \cup {0} : execute(u, o, arrived)

Administer ==
    \E u \in Address :
        \/ \E c \in Candidates : proposeKeeper(u, c) \/ proposeOwner(u, c)
        \/ \E e \in Executors : proposeExecutor(u, e)
        \/ acceptKeeper(u) \/ acceptExecutor(u) \/ acceptOwnership(u)

Next == Tick \/ Trade \/ Administer

Spec == Init /\ [][Next]_vars

-----------------------------------------------------------------------------
(* Properties                                                              *)

Order == [owner : Address \cup {NoAddress},
          tokenIn : Tokens \cup {NoAddress}, tokenOut : Tokens \cup {NoAddress},
          amountPerSwap : Nat, interval : Nat, lastExecuted : Nat,
          remainingSwaps : Nat, balance : Nat, active : BOOLEAN]

OrdersTypeOK ==
    /\ now \in Nat
    /\ orders \in [OrderIds -> Order]
    /\ nextOrderId \in 0 .. MaxOrders
    /\ userOrders \in [Address -> Seq(OrderIds)]
    /\ held \in [Tokens -> 0 .. Supply]
    /\ history \in [OrderIds -> [asked : Nat, done : Nat, first : Nat]]

AdminTypeOK ==
    /\ owner \in Address /\ pendingOwner \in Address \cup {NoAddress}
    /\ keeper \in Address /\ pendingKeeper \in Address \cup {NoAddress}
    /\ ownershipTransferUnlockAt \in Nat /\ keeperChangeUnlockAt \in Nat
    /\ executor \in Executors /\ pendingExecutor \in Executors \cup {NoAddress}
    /\ proposedAt \in [keeper : Nat, owner : Nat, executor : Nat]

\* Every variable holds a value of its Solidity type; balances never underflow.
TypeOK == OrdersTypeOK /\ AdminTypeOK

\* What the vault owes order o in token t.
Owed(o, t) == IF orders[o].tokenIn = t THEN orders[o].balance ELSE 0

\* sum is a running total of what the vault owes in token t over the orders
\* below 0, 1, 2 ...: it starts at 0, adds each order in turn and never falls.
RunningTotal(t, sum) ==
    /\ sum[0] = 0
    /\ \A o \in OrderIds : sum[o + 1] = sum[o] + Owed(o, t)
    /\ \A i, j \in 0 .. MaxOrders : i <= j => sum[i] <= sum[j]

\* Solvency.  For every token the vault holds exactly the sum of the balances of
\* the orders that sell it: nothing is owed that is not there (createOrder,
\* deposit, withdraw and execute move the balance and the tokens together), and
\* nothing is left behind that nobody can withdraw (execute forwards whatever
\* tokenOut arrives).
Solvency ==
    \A t \in Tokens : \E sum \in [0 .. MaxOrders -> 0 .. Supply] :
        RunningTotal(t, sum) /\ sum[MaxOrders] = held[t]

\* An order created with remainingSwaps = n > 0 is executed at most n times, stops
\* being active with its n-th swap, and its counter never reaches 0, which execute
\* would take for "unlimited"; an order created unlimited stays unlimited.
SwapBudget ==
    \A o \in OrderIds :
        LET r == orders[o]  h == history[o] IN
        /\ h.asked = 0 => r.remainingSwaps = 0
        /\ h.asked > 0 =>
             /\ r.remainingSwaps > 0
             /\ h.done <= h.asked
             /\ h.done < h.asked => h.done + r.remainingSwaps = h.asked
             /\ h.done = h.asked => ~r.active

\* Swaps of an order are paced: the first may come at once, for lastExecuted starts at
\* 0, and from there on k more take at least k intervals, whatever the clock of the
\* chain reads and however execute, deposit, cancel and changes of keeper interleave.
Pace ==
    \A o \in OrderIds :
        LET r == orders[o]  h == history[o] IN
        h.done >= 1 =>
            /\ h.first <= r.lastExecuted /\ r.lastExecuted <= now
            /\ (h.done - 1) * r.interval <= r.lastExecuted - h.first

\* nextExecutionAt, isExecutable and execute add lastExecuted and interval in
\* uint256: the sum always fits, even for an order created with the largest interval.
NextExecutionFits ==
    \A o \in OrderIds : orders[o].lastExecuted + orders[o].interval <= MaxUint

\* isExecutable, which the keeper polls, tells the truth: it reports an order
\* exactly when the vault itself would let the keeper's execute through.
PollIsExact ==
    \A o \in OrderIds :
        orders[o].tokenIn # orders[o].tokenOut =>
            (isExecutable(o) <=> ENABLED execute(keeper, o, 0))

\* A new keeper or owner takes over only as the address that was pending, and no
\* earlier than AdminDelay after the proposal that made it pending.
AdminTimelock ==
    [][ /\ keeper' # keeper =>
             keeper' = pendingKeeper /\ now - proposedAt.keeper >= AdminDelay
        /\ owner' # owner =>
             owner' = pendingOwner /\ now - proposedAt.owner >= AdminDelay ]_vars

-----------------------------------------------------------------------------
(* Refinement                                                              *)

\* How many swaps an order may still make, decoded from counter and flag.
Licence(r) ==
    IF ~r.active THEN 0 ELSE IF r.remainingSwaps = 0 THEN -1 ELSE r.remainingSwaps

\* The orders as RecurringOrders sees them.
Book == [o \in OrderIds |->
          [owner |-> orders[o].owner, price |-> orders[o].amountPerSwap,
           every |-> orders[o].interval, licence |-> Licence(orders[o]),
           pot |-> orders[o].balance, last |-> orders[o].lastExecuted]]

Promise == INSTANCE RecurringOrders WITH
    Ids <- OrderIds, Owners <- Address, Nobody <- NoAddress, clock <- now, book <- Book

\* The vault implements RecurringOrders: every function of the contract is one of
\* the abstract operations on one order, or touches no order at all.
KeepsPromise == Promise!Spec
=============================================================================
