----------------------------- MODULE DCASystem ------------------------------
(***************************************************************************)
(* Recurring orders on Base end to end: DCAVault, the executor it calls,   *)
(* the adapter of the order's owner and the pool.  An execution is one     *)
(* transaction through all four.  Meanwhile the owners of both contracts   *)
(* administer them, and users call the executor on their own.              *)
(*                                                                         *)
(* The two contracts share the chain: its clock is the clock of both, and  *)
(* what the vault holds is its balance in the tokens of the world.         *)
(***************************************************************************)
EXTENDS AerodromeAdapterV2, Sequences

CONSTANTS
    \* accounts
    Address, Candidates, Vault, Executor, NoAddress,
    \* the vault's parameters
    Executors, Prices, Intervals, Limits, Deposits, AdminDelay, MaxUint, Supply,
    Genesis, Horizon, MaxOrders,
    \* the executor's parameters
    Aerodrome, Beacons, InitArgs, RemovalDelay,
    \* the users among the accounts, the Usdc each starts with, and what the pool has
    Traders, Wallet, PoolWeth, PoolUsdc,
    Pairs           \* the pairs of tokens orders are created for

VARIABLES
    now,
    \* DCAVault
    orders, nextOrderId, userOrders,
    owner, pendingOwner, ownershipTransferUnlockAt,
    keeper, pendingKeeper, keeperChangeUnlockAt, executor, pendingExecutor,
    history, proposedAt,
    \* PanoramaExecutorV2, whose owner is another one than the vault's
    execOwner, execPendingOwner, protocolBeacons, protocolInitArgs, userAdapters,
    authorizedOperators, pendingBeaconRemovals, scheduledAt,
    \* tokens and pool
    world

Tokens == {Weth, Usdc}

\* Whoever calls the executor may get an adapter, the vault like a user.
Users == Address \cup {Vault}

Adapters == [user : Users, protocol : {Aerodrome}, beacon : Beacons, initArgs : InitArgs]
Accounts == Users \cup {Executor, Pool} \cup Adapters

held == [t \in Tokens |-> world.balance[Vault][t]]

V == INSTANCE DCAVault WITH Outputs <- {}

\* The vault approves what it pays just before the executor pulls it.
Approved(w, payer, payment) ==
    IF payer # Vault THEN w
    ELSE [w EXCEPT !.allowance[Vault] = [t \in AllTokens |->
              IF t \in DOMAIN payment THEN payment[t] ELSE @[t]]]

PullApproved(w, from, to, payment) ==
    TransferFrom(Approved(w, from, payment), from, to, payment)

Collect(w, token, to) == {Move(w, token, Executor, to, w.balance[Executor][token])}

Worlds == [balance : [Accounts -> [AllTokens -> Nat]],
           allowance : [Users -> [AllTokens -> Nat]],
           supply : Nat, staked : [Adapters -> Nat], earned : [Adapters -> Nat]]

Base == INSTANCE PanoramaExecutorV2 WITH
    owner <- execOwner, pendingOwner <- execPendingOwner,
    Admins <- Address, Operators <- {Vault}, Protocols <- {Aerodrome},
    Tokens <- {Usdc, Native}, Calls <- {}, Payments <- {},
    Pull <- PullApproved, Sweep <- Collect

\* The contracts, the adapters and the users have different addresses, and so have tokens.
ASSUME SystemAssumption ==
    /\ Base!ExecutorAssumption
    /\ AdminDelay \in Nat \ {0} /\ Genesis \in Nat \ {0} /\ MaxOrders \in Nat
    /\ Prices \cup Intervals \cup Limits \cup Deposits \cup {Wallet, PoolWeth, PoolUsdc}
         \subseteq Nat
    /\ Traders \subseteq Address /\ Pairs \subseteq Tokens \X Tokens
    /\ Vault \notin Address /\ Executor # Pool
    /\ {Executor, Pool} \cap (Users \cup Adapters) = {} /\ Users \cap Adapters = {}
    /\ Weth # Usdc /\ {Weth, Usdc} \cap {Lp, Aero, Native} = {}

vaultVars == <<orders, nextOrderId, userOrders, owner, pendingOwner,
               ownershipTransferUnlockAt, keeper, pendingKeeper, keeperChangeUnlockAt,
               executor, pendingExecutor, history, proposedAt>>
execVars == <<execOwner, execPendingOwner, protocolBeacons, protocolInitArgs, userAdapters,
              authorizedOperators, pendingBeaconRemovals, scheduledAt>>
vars == <<now, vaultVars, execVars, world>>

NoTokens == [t \in AllTokens |-> 0]

-----------------------------------------------------------------------------
\* One account deploys both contracts and considers others as its successors and for
\* keeper; from then on the owners are independent.
Init ==
    /\ world = [balance |-> [c \in Accounts |->
                    CASE c \in Traders -> [NoTokens EXCEPT ![Usdc] = Wallet]
                      [] c = Pool -> [NoTokens EXCEPT ![Weth] = PoolWeth, ![Usdc] = PoolUsdc]
                      [] OTHER -> NoTokens],
                allowance |-> [u \in Users |-> NoTokens],
                supply |-> 1,
                staked |-> [a \in Adapters |-> 0], earned |-> [a \in Adapters |-> 0]]
    /\ V!Init
    /\ owner \notin Candidates /\ keeper \notin Candidates
    /\ execOwner = owner /\ execPendingOwner = NoAddress
    /\ protocolBeacons = [p \in {Aerodrome} |-> NoAddress]
    /\ protocolInitArgs = [p \in {Aerodrome} |-> NoAddress]
    /\ userAdapters = [p \in {Aerodrome} |-> [u \in Users |-> NoAddress]]
    /\ authorizedOperators = {}
    /\ pendingBeaconRemovals = [p \in {Aerodrome} |-> 0]
    /\ scheduledAt = [p \in {Aerodrome} |-> 0]

Tick ==
    /\ UNCHANGED world
    /\ V!Tick
    /\ UNCHANGED execVars

-----------------------------------------------------------------------------
(* The vault's functions; deposits and withdrawals move tokens             *)

createOrder(u, tokenIn, tokenOut, price, interval, limit, amount) ==
    /\ Has(world, tokenIn, u, amount)
    /\ world' = Move(world, tokenIn, u, Vault, amount)
    /\ V!createOrder(u, tokenIn, tokenOut, price, interval, limit, amount)
    /\ UNCHANGED execVars

deposit(u, o, amount) ==
    /\ orders[o].owner = u
    /\ Has(world, orders[o].tokenIn, u, amount)
    /\ world' = Move(world, orders[o].tokenIn, u, Vault, amount)
    /\ V!deposit(u, o, amount)
    /\ UNCHANGED execVars

cancel(u, o) ==
    /\ UNCHANGED world
    /\ V!cancel(u, o)
    /\ UNCHANGED execVars

withdraw(u, o) ==
    /\ orders[o].owner = u
    /\ world' = Move(world, orders[o].tokenIn, Vault, u, orders[o].balance)
    /\ V!withdraw(u, o)
    /\ UNCHANGED execVars

\* Mutant of SwapCall: the output goes to whoever calls.
SwapCallForCaller(r, caller) ==
    [action |-> "swap", tokenIn |-> r.tokenIn, tokenOut |-> r.tokenOut,
     amountIn |-> r.amountPerSwap, amountOutMin |-> 0, recipient |-> caller]

\* adapterData of execute, with the amountOutMin of a keeper that accepts any price.
SwapCall(r, caller) ==
    [action |-> "swap", tokenIn |-> r.tokenIn, tokenOut |-> r.tokenOut,
     amountIn |-> r.amountPerSwap, amountOutMin |-> 0, recipient |-> r.owner]

\* The vault acts in the adapter of the order's owner.
ContextOf(r) == r.owner

\* A vault pointed at another executor trades there, which is not modelled.
execute(k, o, deadline) ==
    LET r == orders[o] IN
    /\ executor = Executor
    /\ r.owner # NoAddress
    /\ Base!executeSwapFor(Vault, ContextOf(r), Aerodrome, SwapCall(r, k),
                           [t \in {r.tokenIn} |-> r.amountPerSwap], deadline)
    /\ V!execute(k, o, 0)

-----------------------------------------------------------------------------
(* The executor's                                                          *)

VaultIdle == UNCHANGED vaultVars

\* A call that moves no tokens: a claim with nothing earned.
userCalls(u, deadline) ==
    /\ Base!execute(u, Aerodrome, [action |-> "claimRewards", recipient |-> u],
                    NoTokens, deadline)
    /\ VaultIdle

administerVault ==
    /\ UNCHANGED world
    /\ V!Administer
    /\ UNCHANGED execVars

administerExecutor == Base!Administer /\ VaultIdle

Next ==
    \/ Tick
    \/ \E u \in Traders :
        \/ \E pair \in Pairs, price \in Prices, interval \in Intervals,
              limit \in Limits, amount \in Deposits :
              createOrder(u, pair[1], pair[2], price, interval, limit, amount)
        \/ \E o \in V!OrderIds :
              \/ \E amount \in Deposits : deposit(u, o, amount)
              \/ cancel(u, o)
              \/ withdraw(u, o)
        \/ \E deadline \in Genesis .. Horizon : userCalls(u, deadline)
    \/ \E k \in Address, o \in V!OrderIds, deadline \in Genesis .. Horizon :
          execute(k, o, deadline)
    \/ administerVault
    \/ administerExecutor

Spec == Init /\ [][Next]_vars

-----------------------------------------------------------------------------
(* Properties                                                              *)

\* An execution gives the whole output to the order's owner.  Every other account but
\* vault and pool, the keeper and the adapter among them, has what it had before.
OwnerIsServed ==
    [][ \A o \in V!OrderIds :
          history'[o].done # history[o].done =>
            LET r == orders[o] IN
            /\ world'.balance[r.owner][r.tokenOut] > world.balance[r.owner][r.tokenOut]
            /\ world'.balance[Vault][r.tokenOut] = world.balance[Vault][r.tokenOut]
            /\ \A c \in Accounts \ {r.owner, Vault, Pool} :
                  world'.balance[c] = world.balance[c] ]_vars

\* The adapter the vault acts in for an owner stays that owner's, while beacons and
\* arguments of the registry are exchanged underneath.
AdapterIsForever == Base!AdapterIsForever

\* The delays users can count on, while vault and registry are administered side by
\* side: keeper and owner of the vault change, and a beacon disappears, no earlier
\* than the delay after the proposal that counts.
ChangesAreDelayed == V!AdminTimelock /\ Base!RemovalTimelock
=============================================================================
