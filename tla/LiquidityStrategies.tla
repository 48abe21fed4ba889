------------------------ MODULE LiquidityStrategies -------------------------
(***************************************************************************)
(* The liquidity strategies on Base, from request to chain: the backend    *)
(* (modules/liquid-staking and modules/swap) reads the chain over several  *)
(* awaits and builds a bundle of unsigned steps, the user's wallet signs   *)
(* one step after the other, each a transaction that takes effect or       *)
(* reverts, and the executor routes it to the user's adapter.  Anything    *)
(* may happen between two reads, between the bundle and its signature, and *)
(* between two steps: other bundles of the same user, trades that move the *)
(* price, the DCA vault acting through the user's adapter, the             *)
(* administration of the executor, time.                                   *)
(***************************************************************************)
EXTENDS AerodromeAdapterV2, BundleBuilder, SequencesExt

CONSTANTS
    Users, Vault, Market, Executor,             \* accounts
    Admins, NoAddress, Aerodrome, Beacons, InitArgs, RemovalDelay, Horizon,
    Sessions,       \* requests to the backend, each for one user
    Requests,       \* what a session may ask for
    VaultSwaps,     \* amounts of the vault's swaps
    VaultClients,   \* the users it swaps for
    MarketTrades,   \* what other traders do: token in, token out, amount
    Deadline,       \* deadlineMinutes, in units of time
    Uncached,       \* no entry in adapterCache
    Funds,          \* the initial balances of every account that is not an adapter
    InitialStake,   \* per user, the LP an earlier bundle staked
    InitialReward   \* per user, what that stake has earned (bound: it earns no more)

VARIABLES
    now, owner, pendingOwner, protocolBeacons, protocolInitArgs, userAdapters,
    authorizedOperators, pendingBeaconRemovals, scheduledAt,    \* the executor
    world,                                      \* tokens, pool and gauge
    adapterCache,                               \* backend, per user
    userOf,                                     \* the wallet of a session
    session                                     \* what a session is doing

Adapters == [user : Users, protocol : {Aerodrome}, beacon : Beacons, initArgs : InitArgs]
Wallets == Users \cup {Vault, Market, Executor, Pool}
Accounts == Wallets \cup Adapters

\* Everything the contracts hold nothing of.
NoTokens == [t \in AllTokens |-> 0]

Worlds == [balance : [Accounts -> [AllTokens -> Nat]],
           allowance : [Users \cup {Vault} -> [AllTokens -> Nat]],
           supply : Nat \ {0}, staked : [Adapters -> Nat], earned : [Adapters -> Nat]]

Collect(w, token, to) == {Move(w, token, Executor, to, w.balance[Executor][token])}

Base == INSTANCE PanoramaExecutorV2 WITH
    Operators <- {Vault}, Candidates <- {}, Protocols <- {Aerodrome}, Tokens <- AllTokens,
    Calls <- {}, Payments <- {}, Pull <- TransferFrom, Sweep <- Collect

\* What bundles and other traders swap.
Traded == {Weth, Usdc, Native}

\* The contracts, the adapters and the users have different addresses, and so have tokens.
\* There is liquidity that stays in the pool, and nothing in the executor, at the start.
ASSUME StrategiesAssumption ==
    /\ Base!ExecutorAssumption /\ NoAddress \notin Adapters
    /\ slippageBps \in 0 .. 10000 /\ Deadline \in Nat
    /\ Requests \subseteq [kind : {"enter"}, a : Nat, b : Nat]
                     \cup [kind : {"exit"}, amount : Nat] \cup [kind : {"claim"}]
                     \cup [kind : {"swap"}, tokenIn : Traded, tokenOut : Traded, amountIn : Nat]
    /\ VaultSwaps \subseteq Nat /\ VaultClients \subseteq Users
    /\ MarketTrades \subseteq Traded \X Traded \X Nat
    /\ Weth # Usdc /\ {Weth, Usdc} \cap {Lp, Aero, Native} = {} /\ Lp \notin {Aero, Native}
    /\ Vault # Market /\ {Vault, Market} \cap {Executor, Pool} = {} /\ Executor # Pool
    /\ Users \cap {Vault, Market, Executor, Pool} = {} /\ Wallets \cap Adapters = {}
    /\ IsFiniteSet(Accounts)
    /\ Funds \in [Wallets -> [AllTokens -> Nat]] /\ Funds[Executor] = NoTokens
    /\ Funds[Pool][Weth] > 0 /\ Funds[Pool][Usdc] > 0 /\ Funds[Market][Lp] > 0
    /\ InitialStake \in [Users -> Nat] /\ InitialReward \in [Users -> Nat]

chainVars == <<now, owner, pendingOwner, authorizedOperators, protocolBeacons,
               protocolInitArgs, pendingBeaconRemovals, scheduledAt, userAdapters>>
vars == <<chainVars, world, adapterCache, userOf, session>>

-----------------------------------------------------------------------------
(* Bundles                                                                 *)

Call(call, payment, deadline) == ExecuteStep(Aerodrome, call, payment, deadline)

\* Mutant of StakeAmount: the stake step takes the quoted amount.
StakeAmountQuoted(lp) == lp

\* The slippage of the minimums, and once more.
StakeAmount(lp) == applySlippage(applySlippage(lp))

\* seen is what the backend has read for the bundle; allow the allowances per token.
EnterBundle(user, seen, allow) ==
    LET staking == StakeAmount(seen.lp) IN
    addApproveIfNeeded(Weth, allow[Weth], seen.a)
    \o addApproveIfNeeded(Usdc, allow[Usdc], seen.b)
    \o <<Call([action |-> "addLiquidity", amountA |-> seen.a, amountB |-> seen.b,
               minA |-> seen.minA, minB |-> seen.minB, recipient |-> user],
              [t \in {Weth, Usdc} |-> IF t = Weth THEN seen.a ELSE seen.b],
              seen.deadline)>>
    \o addApproveIfNeeded(Lp, allow[Lp], seen.lp)
    \o <<Call([action |-> "stake", amount |-> staking],
              Pay(Lp, staking), seen.deadline)>>

ExitBundle(user, seen, share) ==
    LET lpFromStaked == Min({seen.lp, seen.staked}) IN
    (IF lpFromStaked > 0
       THEN <<Call([action |-> "unstake", amount |-> lpFromStaked,
                    recipient |-> user], NoTokens, seen.deadline)>>
       ELSE <<>>)
    \o addApproveIfNeeded(Lp, seen.allowance, seen.lp)
    \o <<Call([action |-> "removeLiquidity", liquidity |-> seen.lp,
               minA |-> applySlippage(share.a), minB |-> applySlippage(share.b),
               recipient |-> user],
              Pay(Lp, seen.lp), seen.deadline)>>

ClaimBundle(user) ==
    <<Call([action |-> "claimRewards", recipient |-> user], NoTokens, now + Deadline)>>

SwapBundle(user, request, seen, allowance) ==
    (IF request.tokenIn = Native THEN <<>>
       ELSE addApproveIfNeeded(request.tokenIn, allowance, request.amountIn))
    \o <<Call([action |-> "swap", tokenIn |-> request.tokenIn,
               tokenOut |-> request.tokenOut, amountIn |-> request.amountIn,
               amountOutMin |-> seen.minB, recipient |-> user],
              Pay(request.tokenIn, request.amountIn), seen.deadline)>>

-----------------------------------------------------------------------------
Unread == [a |-> 0, b |-> 0, lp |-> 0, minA |-> 0, minB |-> 0,
           staked |-> 0, allowance |-> 0, deadline |-> 0]

Seen == [a : Nat, b : Nat, lp : Nat, minA : Nat, minB : Nat,
         staked : Nat, allowance : Nat, deadline : Nat]

Idle == [phase |-> "idle", request |-> NoAddress, adapter |-> NoAddress,
         seen |-> Unread, steps |-> <<>>]

Done == [Idle EXCEPT !.phase = "done"]

Init ==
    /\ now = 0
    /\ owner \in Admins /\ pendingOwner = NoAddress
    /\ protocolBeacons \in [{Aerodrome} -> Beacons]
    /\ protocolInitArgs \in [{Aerodrome} -> InitArgs]
    /\ userAdapters = [p \in {Aerodrome} |-> [u \in Users |->
           IF InitialStake[u] = 0 THEN NoAddress ELSE Base!predictUserAdapter(p, u)]]
    /\ authorizedOperators = {Vault}
    /\ pendingBeaconRemovals = [p \in {Aerodrome} |-> 0]
    /\ scheduledAt = [p \in {Aerodrome} |-> 0]
    /\ world = [balance |-> [c \in Accounts |-> IF c \in Adapters THEN NoTokens ELSE Funds[c]],
                allowance |-> [c \in Users \cup {Vault} |->
                    IF c = Vault THEN Funds[c] ELSE NoTokens],
                supply |-> SumFunction([c \in Wallets |-> Funds[c][Lp]])
                           + SumFunction(InitialStake),
                staked |-> [a \in Adapters |->
                    IF a = userAdapters[Aerodrome][a.user] THEN InitialStake[a.user] ELSE 0],
                earned |-> [a \in Adapters |->
                    IF a = userAdapters[Aerodrome][a.user] THEN InitialReward[a.user] ELSE 0]]
    /\ adapterCache = [u \in Users |-> Uncached]
    /\ userOf \in [Sessions -> Users]
    /\ session = [s \in Sessions |-> Idle]

\* The backend reads and computes: the chain does not change.
Backend(s, next) ==
    /\ session' = [session EXCEPT ![s] = next]
    /\ UNCHANGED <<chainVars, world, userOf>>

Reading(s, phase, see) == [session[s] EXCEPT !.phase = phase, !.seen = see]

Signing(s, steps) == [session[s] EXCEPT !.phase = "signing", !.adapter = NoAddress,
                                        !.seen = Unread, !.steps = steps]

At(s, phase) == session[s].phase = phase

Answers == {TRUE, FALSE}    \* whether an RPC read succeeds

Balance(s, t) == world.balance[userOf[s]][t]
Allowance(s, t) == world.allowance[userOf[s]][t]

\* A request arrives.
Begin(s) ==
    /\ At(s, "idle")
    /\ \E r \in Requests :
          Backend(s, [session[s] EXCEPT !.phase = r.kind, !.request = r])
    /\ UNCHANGED adapterCache

\* The process may give up at any await: prepare-enter times out, a read fails.
PreparationFails(s) ==
    /\ ~At(s, "idle") /\ ~At(s, "signing") /\ ~At(s, "done")
    /\ Backend(s, Done)
    /\ UNCHANGED adapterCache

-----------------------------------------------------------------------------
(* prepare-enter                                                           *)

\* The amounts are capped to the balances; a failed read leaves them as they are.
capToBalance(s) ==
    /\ At(s, "enter")
    /\ \E gotA, gotB \in Answers :
        LET r == session[s].request
            a == IF gotA THEN Min({r.a, Balance(s, Weth)}) ELSE r.a
            b == IF gotB THEN Min({r.b, Balance(s, Usdc)}) ELSE r.b
        IN  Backend(s, IF a = 0 \/ b = 0 THEN Done
                       ELSE Reading(s, "quote", [Unread EXCEPT !.a = a, !.b = b]))
    /\ UNCHANGED adapterCache

quoteAddLiquidity(s) ==
    /\ At(s, "quote")
    /\ LET seen == session[s].seen
           q == QuoteAdd(world, seen.a, seen.b)
       IN  Backend(s, IF q.lp = 0 THEN Done
                      ELSE Reading(s, "enterAllowances",
                             [seen EXCEPT !.lp = q.lp, !.minA = applySlippage(q.a),
                                          !.minB = applySlippage(q.b),
                                          !.deadline = now + Deadline]))
    /\ UNCHANGED adapterCache

\* A failed read counts as no allowance.
buildAerodromeAddLiquidityBundle(s) ==
    /\ At(s, "enterAllowances")
    /\ \E got \in SUBSET {Weth, Usdc, Lp} :
        LET allow == [t \in {Weth, Usdc, Lp} |-> IF t \in got THEN Allowance(s, t) ELSE 0]
        IN  Backend(s, Signing(s, EnterBundle(userOf[s], session[s].seen, allow)))
    /\ UNCHANGED adapterCache

-----------------------------------------------------------------------------
(* prepare-exit and prepare-claim                                          *)

\* What predictUserAdapter or the cache answers; a failed lookup is cached, too.
AdapterSeen(user) ==
    IF adapterCache[user] # Uncached THEN adapterCache[user]
    ELSE Base!predictUserAdapter(Aerodrome, user)

getUserAdapterAddress(s, phase) ==
    LET user == userOf[s] IN
    \E adapter \in {AdapterSeen(user)} \cup
                   (IF adapterCache[user] = Uncached THEN {NoAddress} ELSE {}) :
        /\ adapterCache' = [adapterCache EXCEPT ![user] = adapter]
        /\ Backend(s, [session[s] EXCEPT !.phase = phase, !.adapter = adapter])

lookupForExit(s) == At(s, "exit") /\ getUserAdapterAddress(s, "staked")
lookupForClaim(s) == At(s, "claim") /\ getUserAdapterAddress(s, "earned")

StakedBy(adapter) == IF adapter = NoAddress THEN 0 ELSE world.staked[adapter]

readStakedBalance(s) ==
    /\ At(s, "staked")
    /\ \E got \in Answers :
        Backend(s, Reading(s, "wallet",
            [Unread EXCEPT !.staked = IF got THEN StakedBy(session[s].adapter) ELSE 0]))
    /\ UNCHANGED adapterCache

\* amount 0 stands for the omitted amount: the full position.
readWalletLp(s) ==
    /\ At(s, "wallet")
    /\ \E got \in Answers :
        LET seen == session[s].seen
            amount == session[s].request.amount
            total == seen.staked + (IF got THEN Balance(s, Lp) ELSE 0)
            lpAmount == IF amount # 0 THEN amount ELSE total
        IN  Backend(s, IF lpAmount = 0 \/ lpAmount > total THEN Done
                       ELSE Reading(s, "exitAllowance",
                              [seen EXCEPT !.lp = lpAmount, !.deadline = now + Deadline]))
    /\ UNCHANGED adapterCache

readLpAllowance(s) ==
    /\ At(s, "exitAllowance")
    /\ \E got \in Answers :
        Backend(s, Reading(s, "reserves",
            [session[s].seen EXCEPT !.allowance = IF got THEN Allowance(s, Lp) ELSE 0]))
    /\ UNCHANGED adapterCache

buildExitBundle(s) ==
    /\ At(s, "reserves")
    /\ LET seen == session[s].seen
       IN  Backend(s, Signing(s, ExitBundle(userOf[s], seen, QuoteRemove(world, seen.lp))))
    /\ UNCHANGED adapterCache

\* Nothing earned, or the read failed: an error, no bundle.
executeClaimRewards(s) ==
    /\ At(s, "earned")
    /\ \E got \in Answers :
        LET adapter == session[s].adapter
            earned == IF got /\ adapter # NoAddress THEN world.earned[adapter] ELSE 0
        IN  Backend(s, IF earned = 0 THEN Done ELSE Signing(s, ClaimBundle(userOf[s])))
    /\ UNCHANGED adapterCache

-----------------------------------------------------------------------------
(* prepare-swap                                                            *)

getQuote(s) ==
    /\ At(s, "swap")
    /\ LET r == session[s].request
           out == AmountOut(world, r.tokenIn, r.tokenOut, r.amountIn)
       IN  Backend(s, Reading(s, "swapChecks",
               [Unread EXCEPT !.minB = applySlippage(out), !.deadline = now + Deadline]))
    /\ UNCHANGED adapterCache

\* A failed allowance read is no allowance, a failed balance read no check.
buildAerodromeSwapBundle(s) ==
    /\ At(s, "swapChecks")
    /\ \E gotAllowance, gotBalance \in Answers :
        LET r == session[s].request
            allowance == IF gotAllowance THEN Allowance(s, r.tokenIn) ELSE 0
            short == r.tokenIn # Native /\ gotBalance /\ Balance(s, r.tokenIn) < r.amountIn
        IN  Backend(s, IF short THEN Done
                       ELSE Signing(s, SwapBundle(userOf[s], r, session[s].seen, allowance)))
    /\ UNCHANGED adapterCache

-----------------------------------------------------------------------------
(* The wallet                                                              *)

NextStep(s) == Head(session[s].steps)

StepDone(s) ==
    LET rest == Tail(session[s].steps) IN
    session' = [session EXCEPT ![s] = IF rest = <<>> THEN Done ELSE [@ EXCEPT !.steps = rest]]

signApprove(s) ==
    /\ At(s, "signing") /\ NextStep(s).kind = "approve"
    /\ world' = [world EXCEPT !.allowance[userOf[s]][NextStep(s).token] = NextStep(s).amount]
    /\ StepDone(s)
    /\ UNCHANGED <<chainVars, adapterCache, userOf>>

signExecute(s) ==
    /\ At(s, "signing") /\ NextStep(s).kind = "execute"
    /\ Base!execute(userOf[s], NextStep(s).protocol, NextStep(s).call, NextStep(s).payment,
                    NextStep(s).deadline)
    /\ StepDone(s)
    /\ UNCHANGED <<adapterCache, userOf>>

\* The user rejects a step, or it reverts: the rest of the bundle is not signed.
abandonBundle(s) ==
    /\ At(s, "signing")
    /\ session' = [session EXCEPT ![s] = Done]
    /\ UNCHANGED <<chainVars, world, adapterCache, userOf>>

-----------------------------------------------------------------------------
(* Everybody else                                                          *)

BackendIdle == UNCHANGED <<adapterCache, userOf, session>>

CacheExpires(user) ==
    /\ adapterCache[user] # Uncached
    /\ adapterCache' = [adapterCache EXCEPT ![user] = Uncached]
    /\ UNCHANGED <<chainVars, world, userOf, session>>

\* DCAVault.execute, through the adapter of the order's owner and to its wallet.
VaultSwap(user, amount) ==
    /\ Base!executeSwapFor(Vault, user, Aerodrome,
           [action |-> "swap", tokenIn |-> Usdc, tokenOut |-> Weth, amountIn |-> amount,
            amountOutMin |-> 0, recipient |-> user],
           Pay(Usdc, amount), now)
    /\ BackendIdle

MarketTrade ==
    /\ \E t \in MarketTrades : world' \in SwapExact(world, Market, t[1], t[2], t[3], 0, Market)
    /\ UNCHANGED chainVars
    /\ BackendIdle

\* The owner registers and removes beacons.  (Operators, ownership and the emergency
\* withdrawals are left to DCASystem: no position depends on them.)
AdministerRegistry ==
    /\ \E u \in Admins :
        \/ \E beacon \in Beacons, initArgs \in InitArgs :
              Base!registerBeacon(u, Aerodrome, beacon, initArgs)
        \/ Base!scheduleBeaconRemoval(u, Aerodrome)
        \/ Base!executeBeaconRemoval(u, Aerodrome)
        \/ Base!cancelBeaconRemoval(u, Aerodrome)
    /\ BackendIdle

Next ==
    \/ \E s \in Sessions :
          \/ Begin(s) \/ PreparationFails(s)
          \/ capToBalance(s) \/ quoteAddLiquidity(s) \/ buildAerodromeAddLiquidityBundle(s)
          \/ lookupForExit(s) \/ readStakedBalance(s) \/ readWalletLp(s)
          \/ readLpAllowance(s) \/ buildExitBundle(s)
          \/ lookupForClaim(s) \/ executeClaimRewards(s)
          \/ getQuote(s) \/ buildAerodromeSwapBundle(s)
          \/ signApprove(s) \/ signExecute(s) \/ abandonBundle(s)
    \/ \E user \in Users : CacheExpires(user)
    \/ \E user \in VaultClients, amount \in VaultSwaps : VaultSwap(user, amount)
    \/ MarketTrade
    \/ Base!Tick /\ BackendIdle
    \/ AdministerRegistry

Spec == Init /\ [][Next]_vars

-----------------------------------------------------------------------------
(* Properties                                                              *)

Phases == {"idle", "enter", "exit", "claim", "swap", "quote", "enterAllowances", "staked",
           "wallet", "exitAllowance", "reserves", "earned", "swapChecks", "signing", "done"}

\* Every variable holds a value of its type: no balance, allowance or stake goes
\* below zero, and the pool is never emptied.
TypeOK ==
    /\ Base!TypeOK
    /\ world \in Worlds
    /\ Reserve(world, Weth) > 0 /\ Reserve(world, Usdc) > 0
    /\ adapterCache \in [Users -> Adapters \cup {NoAddress, Uncached}]
    /\ userOf \in [Sessions -> Users]
    /\ \A s \in Sessions :
        /\ session[s].phase \in Phases
        /\ session[s].adapter \in Adapters \cup {NoAddress}
        /\ session[s].seen \in Seen
        /\ At(s, "signing") <=> session[s].steps # <<>>

\* Adapters are passages: whatever is prepared, signed, interleaved or broken off, no
\* token stays in a proxy (where no function of the adapter could reach it again) nor
\* in the executor (where emergencyWithdraw would hand it to the owner).
ProxyKeepsNothing ==
    \A c \in Adapters \cup {Executor} : world.balance[c] = NoTokens

\* The liquidity a user owns, in the wallet and in the gauge.
Position(w, user) ==
    w.balance[user][Lp] +
    SumFunctionOnSet(w.staked, {a \in Adapters : a.user = user})

\* README.md:31, "each user's positions are fully isolated": a user's liquidity changes
\* only in a step of a bundle that user asked for and signed, whoever else trades,
\* enters, exits, administers the executor or, like the vault, uses the adapter.
OwnStepsOnly ==
    [][ \A u \in Users :
          Position(world', u) # Position(world, u) =>
            \E s \in Sessions : userOf[s] = u /\ At(s, "signing") /\ session'[s] # session[s] ]_vars

\* The worlds after a user signs a step.
AfterStep(user, w, st) ==
    LET adapter == Base!AdapterFor(Aerodrome, user)
        Execute(paid) == Dispatch(adapter, st.call, paid)
    IN  IF st.kind = "approve"
        THEN {[w EXCEPT !.allowance[user][st.token] = st.amount]}
        ELSE AndThen(TransferFrom(w, user, adapter, st.payment), Execute)

\* The worlds after a user signs these steps with nothing in between.
AfterSteps(user, steps) ==
    LET after[n \in 0 .. Len(steps)] ==
            IF n = 0 THEN {world}
            ELSE UNION {AfterStep(user, w, steps[n]) : w \in after[n - 1]}
    IN  after[Len(steps)]

\* No liquidity is trapped.  Whatever bundles were broken off, reverted, or overtaken by
\* another one before, a full exit prepared now and signed step by step takes out the
\* whole position, from gauge and wallet, unless it is too small to be worth a token or
\* the backend looks up no adapter, or another one than the user has.
ExitAlwaysWorks ==
    \A u \in Users :
        LET adapter == Base!AdapterFor(Aerodrome, u)
            total == Position(world, u)
            share == QuoteRemove(world, total)
            seen == [Unread EXCEPT !.lp = total, !.staked = StakedBy(adapter),
                                   !.allowance = world.allowance[u][Lp]]
        IN  /\ total > 0 /\ share.a > 0 /\ share.b > 0
            /\ AdapterSeen(u) = adapter /\ adapter # NoAddress
            => LET after == AfterSteps(u, ExitBundle(u, seen, share))
               IN  after # {} /\ \A w \in after : Position(w, u) = 0

\* aerodrome-add-liquidity.ts:111-115: the stake step's double slippage is a margin for
\* a price that moves between quote and execution.  Whenever the addLiquidity step still
\* passes its own minimums, it mints enough for the stake step that follows.
StakeStepFits ==
    [][ \A s \in Sessions :
          /\ At(s, "signing") /\ session'[s] # session[s] /\ world' # world
          /\ NextStep(s).kind = "execute" /\ NextStep(s).call.action = "addLiquidity"
          => Last(session[s].steps).call.amount <= world'.supply - world.supply ]_vars

=============================================================================
