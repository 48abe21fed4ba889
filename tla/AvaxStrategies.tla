-------------------------- MODULE AvaxStrategies ----------------------------
(***************************************************************************)
(* Lending, staking and swaps on Avalanche, from request to chain, in the  *)
(* manner of LiquidityStrategies: the backend (modules/avax-lending,       *)
(* avax-liquid-staking and avax-swap) reads the chain and builds a bundle, *)
(* the wallet signs its steps, the executor routes each to the user's      *)
(* adapter for the protocol.  In between other bundles, interest and       *)
(* trades change what was read.  Wallets also call the adapters' functions *)
(* the backend does not use, and the contracts all users share, which the  *)
(* adapters replace.                                                       *)
(*                                                                         *)
(* The executor's administration and the clock stand still here: they are  *)
(* the subject of DCASystem and LiquidityStrategies.                       *)
(***************************************************************************)
EXTENDS AvalancheProtocols, BundleBuilder, SequencesExt

CONSTANTS
    Users, Executor, Owner, Market,     \* accounts
    Lend, Swap,                         \* the shared contracts, accounts as well
    Benqi, TraderJoe, Savax,            \* protocol identifiers
    Beacon, Args, NoAddress,
    Sessions,       \* requests to the backend, or a wallet's own transactions
    Requests,       \* what a session may ask for
    MarketTrades,   \* what other traders do: path, amount
    MaxRate,        \* bound: interest accrues up to this rate
    Funds,          \* initial balances of the accounts that are not adapters
    Earlier,        \* the users who have a position
    Collateral,     \* its qTokens of qiAVAX, in the user's adapter
    Loan,           \* its debt at qiUSDC
    Unlocks,        \* the amounts of its unlock requests
    MaxRequests     \* bound: how many unlock requests are ever made

VARIABLES
    now, owner, pendingOwner, protocolBeacons, protocolInitArgs, userAdapters,
    authorizedOperators, pendingBeaconRemovals, scheduledAt,    \* the executor
    world,          \* tokens and protocols
    userOf,         \* the wallet of a session
    session         \* what a session is doing

chainVars == <<now, owner, pendingOwner, authorizedOperators, protocolBeacons,
               protocolInitArgs, pendingBeaconRemovals, scheduledAt, userAdapters>>
vars == <<chainVars, world, userOf, session>>

Protocols == {Benqi, TraderJoe, Savax}
Adapters == [user : Users, protocol : Protocols, beacon : {Beacon}, initArgs : {Args}]
Contracts == Markets \cup {Executor, Market, Lend, Swap, SAvax, JoeUsdc, JoeSAvax}
Accounts == Users \cup Adapters \cup Contracts
Borrowers == Adapters \cup {Lend}

BenqiLend == INSTANCE BenqiLendAdapter
Joe == INSTANCE TraderJoeAdapter
Staking == INSTANCE SAVAXAdapter
SharedLend == INSTANCE PanoramaLend
SharedSwap == INSTANCE PanoramaSwap

Dispatch(self, r, w) ==
    CASE self.protocol = Benqi -> BenqiLend!Dispatch(self, r, w)
      [] self.protocol = TraderJoe -> Joe!Dispatch(self, r, w)
      [] self.protocol = Savax -> Staking!Dispatch(self, r, w)

NoSweep(w, token, to) == {}

Base == INSTANCE PanoramaExecutorV2 WITH
    Operators <- {}, Admins <- {Owner}, Candidates <- {}, Beacons <- {Beacon},
    InitArgs <- {Args}, RemovalDelay <- 1, Horizon <- 0, Tokens <- AllTokens, Calls <- {},
    Payments <- {}, Worlds <- {}, Pull <- TransferFrom, Sweep <- NoSweep

\* What may be asked of the backend, and sent without it.
Traded == {Avax, Usdc, SAvax}
PreparedRequests ==
    [kind : {"supply", "redeem", "borrow", "repay"}, qToken : Markets, amount : Nat]
    \cup [kind : {"stake", "requestUnlock"}, amount : Nat]
    \cup [kind : {"redeemUnlock"}, index : Nat]
    \cup {r \in [kind : {"swap"}, tokenIn : Traded, tokenOut : Traded, amount : Nat] :
              r.tokenIn # r.tokenOut}
OwnRequests ==
    [kind : {"deposit", "withdraw"}, qToken : Markets, amount : Nat]
    \cup {r \in [kind : {"trade"}, tokenIn : {Usdc, SAvax}, tokenOut : Traded, amount : Nat] :
              r.tokenIn # r.tokenOut}
    \cup [kind : {"enterMarkets"}, qTokens : SUBSET Markets]
    \cup [kind : {"exitMarket"}, qToken : Markets]
LendCalls ==
    [action : {"supply", "redeem", "borrow", "repay"}, qToken : Markets, amount : Nat]
    \cup [action : {"supplyAVAX", "redeemAVAX", "borrowAVAX", "repayAVAX"}, amount : Nat]
SwapCalls ==
    [action : {"swapTokensForTokens", "swapAVAXForTokens", "swapTokensForAVAX"},
     path : Paths, amountIn : Nat, amountOutMin : Nat, deadline : Nat]
SharedRequests == [kind : {"shared"}, contract : {Lend}, call : LendCalls]
                  \cup [kind : {"shared"}, contract : {Swap}, call : SwapCalls]

\* Tokens, accounts and protocols have different addresses.  At the start nothing is in the
\* contracts of Panorama but the collateral of those who have a position.
ASSUME AvaxAssumption ==
    /\ Base!ExecutorAssumption /\ slippageBps \in 0 .. 10000
    /\ Scale \in Nat \ {0} /\ MaxRate \in Nat /\ Scale <= MaxRate /\ Earlier \subseteq Users
    /\ Requests \subseteq PreparedRequests \cup OwnRequests \cup SharedRequests
    /\ MarketTrades \subseteq Paths \X Nat
    /\ IsInjective(<<Avax, Usdc, SAvax, QiAvax, QiUsdc, JoeUsdc, JoeSAvax,
                     Executor, Market, Lend, Swap>>)
    /\ IsInjective(<<Benqi, TraderJoe, Savax>>)
    /\ Contracts \cap Users = {} /\ (Contracts \cup Users) \cap Adapters = {}
    /\ Funds \in [Contracts \cup Users -> [AllTokens -> Nat]]
    /\ \A c \in {Executor, Lend, Swap} : Funds[c] = NoTokens
    /\ Funds[JoeUsdc][Avax] > 0 /\ Funds[JoeUsdc][Usdc] > 0
    /\ Funds[JoeSAvax][Avax] > 0 /\ Funds[JoeSAvax][SAvax] > 0
    /\ Collateral \in Nat /\ Loan \in Nat
    /\ Unlocks \in Seq(Nat \ {0}) /\ MaxRequests \in Nat /\ Len(Unlocks) <= MaxRequests

-----------------------------------------------------------------------------
(* Bundles of the backend.  seen is what was read, allowance the last read *)

Direct(protocol, call, payment) == <<ExecuteStep(protocol, call, payment, now)>>

\* A call with native value.
Paid(protocol, call, amount) == Direct(protocol, call, Pay(Avax, amount))

\* A call for which the executor pulls tokens.
Pulled(protocol, call, token, amount, allowance) ==
    addApproveIfNeeded(token, allowance, amount)
    \o Direct(protocol, call, Pay(token, amount))

Unpaid(protocol, call) == Direct(protocol, call, NoTokens)

SupplyBundle(user, r, allowance) ==
    IF r.qToken = QiAvax
      THEN Paid(Benqi, [action |-> "supplyAVAX", value |-> r.amount, recipient |-> user],
                r.amount)
      ELSE Pulled(Benqi, [action |-> "supply", qToken |-> r.qToken, amount |-> r.amount,
                          recipient |-> user], Underlying(r.qToken), r.amount, allowance)

RedeemBundle(user, r, seen, allowance) ==
    Pulled(Benqi,
           IF r.qToken = QiAvax
             THEN [action |-> "redeemAVAX", qTokenAmount |-> seen.amount, recipient |-> user]
             ELSE [action |-> "redeem", qToken |-> r.qToken, qTokenAmount |-> seen.amount,
                   recipient |-> user],
           r.qToken, seen.amount, allowance)

BorrowBundle(user, r) ==
    Unpaid(Benqi, IF r.qToken = QiAvax
                    THEN [action |-> "borrowAVAX", amount |-> r.amount, recipient |-> user]
                    ELSE [action |-> "borrow", qToken |-> r.qToken, amount |-> r.amount,
                          recipient |-> user])

RepayBundle(r, allowance) ==
    IF r.qToken = QiAvax
      THEN Paid(Benqi, [action |-> "repayAVAX", value |-> r.amount], r.amount)
      ELSE Pulled(Benqi, [action |-> "repay", qToken |-> r.qToken, amount |-> r.amount],
                  Underlying(r.qToken), r.amount, allowance)

StakeBundle(user, r) ==
    Paid(Savax, [action |-> "stake", value |-> r.amount, recipient |-> user], r.amount)

RequestUnlockBundle(r, allowance) ==
    Pulled(Savax, [action |-> "requestUnlock", sAvaxAmount |-> r.amount],
           SAvax, r.amount, allowance)

RedeemUnlockBundle(user, r) ==
    Unpaid(Savax, [action |-> "redeem", unlockIndex |-> r.index, recipient |-> user])

SwapBundle(user, r, seen, allowance) ==
    LET call == [action |-> "swapWithPath", value |-> IF r.tokenIn = Avax THEN r.amount ELSE 0,
                 amountIn |-> r.amount, amountOutMin |-> seen.amount,
                 path |-> Joe!PathOf(r.tokenIn, r.tokenOut), recipient |-> user]
    IN  IF r.tokenIn = Avax THEN Paid(TraderJoe, call, r.amount)
                            ELSE Pulled(TraderJoe, call, r.tokenIn, r.amount, allowance)

\* What a wallet sends without the backend.
OwnCall(user, r) ==
    LET self == Base!AdapterFor(Benqi, user) IN
    CASE r.kind = "deposit" ->
            IF r.qToken = QiAvax
              THEN Paid(Benqi, [action |-> "supplyAVAX", value |-> r.amount, recipient |-> self],
                        r.amount)
              ELSE Pulled(Benqi, [action |-> "supply", qToken |-> r.qToken, amount |-> r.amount,
                                  recipient |-> self], Underlying(r.qToken), r.amount, 0)
      [] r.kind = "withdraw" ->
            Unpaid(Benqi, IF r.qToken = QiAvax
                THEN [action |-> "redeemAVAX", qTokenAmount |-> r.amount, recipient |-> user]
                ELSE [action |-> "redeem", qToken |-> r.qToken, qTokenAmount |-> r.amount,
                      recipient |-> user])
      [] r.kind = "enterMarkets" -> Unpaid(Benqi, [action |-> r.kind, qTokens |-> r.qTokens])
      [] r.kind = "exitMarket" -> Unpaid(Benqi, [action |-> r.kind, qToken |-> r.qToken])
      [] r.kind = "trade" ->
            Pulled(TraderJoe, [action |-> "swap", tokenIn |-> r.tokenIn, tokenOut |-> r.tokenOut,
                               amountIn |-> r.amount, amountOutMin |-> 0, recipient |-> user],
                   r.tokenIn, r.amount, 0)
      [] r.kind = "shared" -> <<r>>

-----------------------------------------------------------------------------
Unread == [rate |-> 0, held |-> 0, amount |-> 0]
Idle == [phase |-> "idle", request |-> NoAddress, seen |-> Unread, steps |-> <<>>]
Done == [Idle EXCEPT !.phase = "done"]

HasPosition(c, p) == c.user \in Earlier /\ c.protocol = p

Init ==
    LET Requested(c) == [i \in DOMAIN Unlocks |-> [id |-> i, amount |-> Unlocks[i], by |-> c]]
        Slots == [i \in DOMAIN Unlocks |-> [index |-> i - 1, id |-> i]]
    IN
    /\ now = 0 /\ owner = Owner /\ pendingOwner = NoAddress /\ authorizedOperators = {}
    /\ protocolBeacons = [p \in Protocols |-> Beacon]
    /\ protocolInitArgs = [p \in Protocols |-> Args]
    /\ pendingBeaconRemovals = [p \in Protocols |-> 0]
    /\ scheduledAt = [p \in Protocols |-> 0]
    /\ userAdapters = [p \in Protocols |-> [u \in Users |->
           IF u \in Earlier /\ p # TraderJoe THEN Base!predictUserAdapter(p, u) ELSE NoAddress]]
    /\ world = [
           balance |-> [c \in Accounts |->
               IF c \notin Adapters THEN Funds[c]
               ELSE IF HasPosition(c, Benqi) THEN [NoTokens EXCEPT ![QiAvax] = Collateral]
               ELSE NoTokens],
           allowance |-> [u \in Users |-> NoTokens],
           rate |-> [q \in Markets |-> Scale],
           debt |-> [c \in Borrowers |-> [q \in Markets |->
               IF c # Lend /\ q = QiUsdc /\ HasPosition(c, Benqi) THEN Loan ELSE 0]],
           entered |-> [c \in Borrowers |->
               IF c # Lend /\ HasPosition(c, Benqi) THEN Markets ELSE {}],
           requests |-> [c \in Adapters |-> IF HasPosition(c, Savax) THEN Requested(c) ELSE <<>>],
           slots |-> [c \in Adapters |-> IF HasPosition(c, Savax) THEN Slots ELSE <<>>],
           made |-> Len(Unlocks), cooled |-> 0, reordered |-> {}]
    /\ userOf \in [Sessions -> Users]
    /\ session = [s \in Sessions |-> Idle]

At(s, phase) == session[s].phase = phase

\* The backend reads and computes: the chain does not change.
Backend(s, next) ==
    /\ session' = [session EXCEPT ![s] = next]
    /\ UNCHANGED <<chainVars, world, userOf>>

Reading(s, phase, see) == [session[s] EXCEPT !.phase = phase, !.seen = see]

Signing(s, r, steps) == [session[s] EXCEPT !.phase = "signing", !.request = r, !.steps = steps]

Answers == {TRUE, FALSE}    \* whether an RPC read succeeds

Balance(s, t) == world.balance[userOf[s]][t]

\* The token the executor has to pull for a request, if any.
TokenOf(r) ==
    CASE r.kind \in {"supply", "repay"} -> Underlying(r.qToken)
      [] r.kind = "redeem" -> r.qToken
      [] r.kind = "requestUnlock" -> SAvax
      [] r.kind = "swap" -> r.tokenIn
      [] OTHER -> Avax

\* allowance is unused by the bundles that pull nothing.
Bundle(user, r, seen, allowance) ==
    CASE r.kind = "supply" -> SupplyBundle(user, r, allowance)
      [] r.kind = "redeem" -> RedeemBundle(user, r, seen, allowance)
      [] r.kind = "borrow" -> BorrowBundle(user, r)
      [] r.kind = "repay" -> RepayBundle(r, allowance)
      [] r.kind = "stake" -> StakeBundle(user, r)
      [] r.kind = "requestUnlock" -> RequestUnlockBundle(r, allowance)
      [] r.kind = "redeemUnlock" -> RedeemUnlockBundle(user, r)
      [] r.kind = "swap" -> SwapBundle(user, r, seen, allowance)
      [] OTHER -> OwnCall(user, r)

\* The allowance is read last, if the executor pulls anything.
ReadyToBuild(s, r, see) ==
    IF TokenOf(r) = Avax
      THEN [Signing(s, r, Bundle(userOf[s], r, see, 0)) EXCEPT !.seen = see]
      ELSE [Reading(s, "allowance", see) EXCEPT !.request = r]

\* A request arrives, or a wallet decides on a transaction of its own.
Begin(s) ==
    /\ At(s, "idle")
    /\ \E r \in Requests :
          Backend(s, IF r.kind \in {"redeem", "swap"}
                       THEN [session[s] EXCEPT !.phase = r.kind, !.request = r]
                       ELSE ReadyToBuild(s, r, Unread))

\* A read fails for good, or the process ends.
PreparationFails(s) ==
    /\ ~At(s, "idle") /\ ~At(s, "signing") /\ ~At(s, "done")
    /\ Backend(s, Done)

\* Mutant of qTokenAmount: the rate applied the wrong way round.
qTokenAmountInverted(r, seen) == Min({(r.amount * seen.rate) \div Scale, seen.held})

\* What the requested amount of the underlying is in qTokens, at most what is held.
qTokenAmount(r, seen) == Min({(r.amount * Scale) \div seen.rate, seen.held})

\* prepare-redeem reads the exchange rate and the balance at once: either may come first,
\* the conversion follows the second.
Derived(s, see) ==
    LET amount == qTokenAmount(session[s].request, see)
    IN  IF amount = 0 THEN Done
        ELSE ReadyToBuild(s, session[s].request, [see EXCEPT !.amount = amount])

readExchangeRate(s) ==
    LET see == [session[s].seen EXCEPT !.rate = world.rate[session[s].request.qToken]] IN
    \/ At(s, "redeem") /\ Backend(s, Reading(s, "balance", see))
    \/ At(s, "rate") /\ Backend(s, Derived(s, see))

readQTokenBalance(s) ==
    LET see == [session[s].seen EXCEPT !.held = Balance(s, session[s].request.qToken)] IN
    \/ At(s, "redeem") /\ Backend(s, Reading(s, "rate", see))
    \/ At(s, "balance") /\ Backend(s, Derived(s, see))

getQuoteWithHop(s) ==
    /\ At(s, "swap")
    /\ LET r == session[s].request
           out == Last(AmountsOut(world, Joe!PathOf(r.tokenIn, r.tokenOut), r.amount))
       IN  Backend(s, ReadyToBuild(s, r, [Unread EXCEPT !.amount = applySlippage(out)]))

\* A failed read counts as no allowance.
checkAllowance(s) ==
    /\ At(s, "allowance")
    /\ \E got \in Answers :
        LET r == session[s].request
            user == userOf[s]
            allowance == IF got THEN world.allowance[user][TokenOf(r)] ELSE 0
        IN  Backend(s, Signing(s, r, Bundle(user, r, session[s].seen, allowance)))

-----------------------------------------------------------------------------
(* The wallet                                                              *)

NextStep(s) == Head(session[s].steps)

StepDone(s) ==
    LET rest == Tail(session[s].steps) IN
    session' = [session EXCEPT ![s] = IF rest = <<>> THEN Done ELSE [@ EXCEPT !.steps = rest]]

signApprove(s) ==
    /\ At(s, "signing") /\ NextStep(s).kind = "approve"
    /\ world' = [world EXCEPT !.allowance[userOf[s]][NextStep(s).token] = NextStep(s).amount]
    /\ StepDone(s)
    /\ UNCHANGED <<chainVars, userOf>>

signExecute(s) ==
    /\ At(s, "signing") /\ NextStep(s).kind = "execute"
    /\ Base!execute(userOf[s], NextStep(s).protocol, NextStep(s).call, NextStep(s).payment,
                    NextStep(s).deadline)
    /\ world'.made <= MaxRequests
    /\ StepDone(s)
    /\ UNCHANGED userOf

signShared(s) ==
    /\ At(s, "signing") /\ NextStep(s).kind = "shared"
    /\ LET call == NextStep(s).call IN
       world' \in IF NextStep(s).contract = Lend
                    THEN SharedLend!Dispatch(userOf[s], call, world)
                    ELSE SharedSwap!Dispatch(userOf[s], now, call, world)
    /\ StepDone(s)
    /\ UNCHANGED <<chainVars, userOf>>

\* The user rejects a step, or it reverts: the rest of the bundle is not signed.
abandonBundle(s) ==
    /\ At(s, "signing")
    /\ session' = [session EXCEPT ![s] = Done]
    /\ UNCHANGED <<chainVars, world, userOf>>

-----------------------------------------------------------------------------
(* Everybody else                                                          *)

Elsewhere == UNCHANGED <<chainVars, userOf, session>>

AccrueInterest ==
    /\ \E q \in Markets : world.rate[q] < MaxRate /\ world' = Accrue(world, q)
    /\ Elsewhere

MarketTrade ==
    /\ \E t \in MarketTrades : world' \in SwapExact(world, Market, t[1], t[2], 0, Market)
    /\ Elsewhere

\* Time passes at sAVAX.
CoolDown ==
    /\ world.cooled < world.made
    /\ world' = [world EXCEPT !.cooled = @ + 1]
    /\ Elsewhere

Next ==
    \/ \E s \in Sessions :
          \/ Begin(s) \/ PreparationFails(s)
          \/ readExchangeRate(s) \/ readQTokenBalance(s)
          \/ getQuoteWithHop(s) \/ checkAllowance(s)
          \/ signApprove(s) \/ signExecute(s) \/ signShared(s) \/ abandonBundle(s)
    \/ AccrueInterest \/ MarketTrade \/ CoolDown

Spec == Init /\ [][Next]_vars

-----------------------------------------------------------------------------
(* Properties                                                              *)

Worlds ==
    [balance : [Accounts -> [AllTokens -> Nat]], allowance : [Users -> [AllTokens -> Nat]],
     rate : [Markets -> Scale .. MaxRate], debt : [Borrowers -> [Markets -> Nat]],
     entered : [Borrowers -> SUBSET Markets],
     requests : [Adapters -> Seq(Request(1 .. MaxRequests, Adapters))],
     slots : [Adapters -> Seq([index : Nat, id : 1 .. MaxRequests])],
     made : 0 .. MaxRequests, cooled : 0 .. MaxRequests, reordered : SUBSET Adapters]

\* What a session may have read.
Seen == [rate : Nat, held : Nat, amount : Nat]

Phases == {"idle", "redeem", "rate", "balance", "swap", "allowance", "signing", "done"}

\* Every variable holds a value of its type; no balance, debt or allowance goes below zero.
TypeOK ==
    /\ Base!TypeOK
    /\ world \in Worlds
    /\ userOf \in [Sessions -> Users]
    /\ \A s \in Sessions :
        /\ session[s].phase \in Phases
        /\ session[s].seen \in Seen
        /\ At(s, "signing") <=> session[s].steps # <<>>

\* Adapters and shared contracts are passages.  Nothing stays in them but the qTokens
\* users deposited as collateral in their own adapters; this is also why forwarding a
\* whole balance (redeemAVAX, all of PanoramaLend) never pays out somebody else's tokens.
ProxyKeepsNothing ==
    /\ \A c \in Adapters \cup {Executor, Lend, Swap}, t \in AllTokens :
          world.balance[c][t] > 0 => c \in Adapters /\ c.protocol = Benqi /\ t \in Markets
    /\ \A q \in Markets : world.debt[Lend][q] = 0

\* What a user has: tokens, collateral, debts and unlock requests.
Position(w, user) ==
    LET own == {c \in Adapters : c.user = user}
        PerAdapter(f) == [c \in own |-> f[c]]
    IN  <<w.balance[user], PerAdapter(w.balance), PerAdapter(w.debt), PerAdapter(w.entered),
          PerAdapter(w.requests), PerAdapter(w.slots)>>

\* README.md:31, "each user's positions are fully isolated": apart from interest, a
\* user's tokens, collateral, debts and unlock requests change only in a step that user
\* signed, also where the users share a lending or a swap contract.
OwnStepsOnly ==
    [][ \A u \in Users :
          world'.rate = world.rate /\ Position(world', u) # Position(world, u) =>
            \E s \in Sessions : userOf[s] = u /\ At(s, "signing") /\ session'[s] # session[s] ]_vars

\* prepare-redeem fixes the amount of qTokens when it reads the rate; interest may accrue
\* before that amount is signed.  The user then gets what was asked for, with at most the
\* interest since, and at least up to the rounding to a whole qToken, unless all that the
\* wallet was seen to hold was redeemed.
RedeemIsFair ==
    [][ \A s \in Sessions :
          /\ At(s, "signing") /\ session[s].request.kind = "redeem"
          /\ NextStep(s).kind = "execute" /\ session'[s] # session[s] /\ world' # world
          => LET r == session[s].request
                 seen == session[s].seen
                 t == Underlying(r.qToken)
                 got == world'.balance[userOf[s]][t] - world.balance[userOf[s]][t]
                 rate == world.rate[r.qToken]
             IN  /\ got * seen.rate <= r.amount * rate
                 /\ seen.amount = seen.held \/ (got + 1) * Scale + rate > r.amount * Scale ]_vars

\* The worlds after a user signs one step.
AfterStep(user, w, st) ==
    LET adapter == Base!AdapterFor(st.protocol, user)
        Execute(paid) == Dispatch(adapter, st.call, paid)
    IN  IF st.kind = "approve"
        THEN {[w EXCEPT !.allowance[user][st.token] = st.amount]}
        ELSE AndThen(TransferFrom(w, user, adapter, st.payment), Execute)

\* The worlds after a user signs these steps with nothing in between.
AfterSteps(user, steps) ==
    LET after[n \in 0 .. Len(steps)] ==
            IF n = 0 THEN {world}
            ELSE UNION {AfterStep(user, w, steps[n]) : w \in after[n - 1]}
    IN  after[Len(steps)]

RepayAll(user, q) ==
    LET debt == world.debt[Base!AdapterFor(Benqi, user)][q]
    IN  IF debt = 0 THEN <<>> ELSE RepayBundle([qToken |-> q, amount |-> debt], 0)

WithdrawAll(user, q) ==
    LET n == world.balance[Base!AdapterFor(Benqi, user)][q]
    IN  IF n = 0 THEN <<>> ELSE OwnCall(user, [kind |-> "withdraw", qToken |-> q, amount |-> n])

\* No collateral is trapped.  Whatever a user deposited, borrowed, entered, left or broke
\* off before, repaying the debts the wallet can pay and then withdrawing gives back all
\* collateral and leaves no debt, provided the markets have the cash.
UnwindAlwaysWorks ==
    \A u \in Users :
        LET a == Base!AdapterFor(Benqi, u)
            Back(q) == Worth(world, q, world.balance[a][q])
            Debt(q) == world.debt[a][q]
        IN  (\A q \in Markets : /\ world.balance[u][Underlying(q)] >= Debt(q)
                                /\ world.balance[q][Underlying(q)] >= Back(q))
            => LET after == AfterSteps(u, RepayAll(u, QiAvax) \o RepayAll(u, QiUsdc)
                                          \o WithdrawAll(u, QiAvax) \o WithdrawAll(u, QiUsdc))
               IN  /\ after # {}
                   /\ \A w \in after : \A q \in Markets :
                        /\ w.debt[a][q] = 0 /\ w.balance[a] = NoTokens
                        /\ w.balance[u][Underlying(q)] =
                             world.balance[u][Underlying(q)] - Debt(q) + Back(q)

\* SAVAXAdapter.sol:119-121: until a request other than the last was redeemed, every slot
\* of an adapter leads to the request it was made for.  (Afterwards sAVAX has moved its
\* last request, and a slot may lead to another request of the same user, or to none.)
SlotsExactUntilReordered ==
    \A c \in Adapters \ world.reordered :
        /\ Len(world.slots[c]) = Len(world.requests[c])
        /\ \A i \in DOMAIN world.slots[c] :
             LET slot == world.slots[c][i] IN
             /\ slot.index < Len(world.requests[c])
             /\ world.requests[c][slot.index + 1].id = slot.id
=============================================================================
