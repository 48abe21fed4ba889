# PanoramaBlock execution layer: specifications, checks and proofs

TLA+ specifications of the contracts in `contracts/` and of the backend in
`backend/src/`, model-checked with TLC and, for the contracts and the middleware at the
core, proved with TLAPS. Paths below are relative to the repository. The definitions keep the names of
the source; `PROJECT.json` ("map") gives for each of them the lines it models.

Contents: 1 the system, 2 the modules, 3 what is checked, 4 what is proved,
5 disagreements between code and documentation, 6 what is not modelled, 7 plan,
8 running it.

## 1. The system

Users never hand over keys. The backend reads the chain and answers a request with a
bundle of unsigned calls; the user's wallet signs them one by one; on chain the executor
routes each call to the user's own adapter, a proxy that holds the user's position in an
external protocol (Aerodrome on Base; BENQI and Trader Joe on Avalanche). Two kinds of
contract hold the funds of many users at once: the DCA vault (Base) and the shared
Avalanche contracts (`PanoramaLiquidStaking`, `PanoramaLend`, `PanoramaSwap`). Around
the bundles the backend keeps evidence records: what was prepared, which transactions the
wallet broadcast, and whether they are the prepared ones.

| Component | State | Operations | Talks to |
|---|---|---|---|
| `DCAVault.sol` | orders, per-user lists, token balances, keeper / executor / owner with pending successors | createOrder, deposit, cancel, withdraw, execute, isExecutable, propose/accept ×3 | executor (approve, executeSwapFor), tokens |
| `PanoramaExecutorV2.sol` | beacon and initializer arguments per protocol, adapter per protocol and user, operators, pending removals, owner | execute, executeSwapFor, registerBeacon, schedule / execute / cancelBeaconRemoval, setAuthorizedOperator, ownership, emergency withdrawals | adapters, tokens |
| `AerodromeAdapterV2.sol` | position in the gauge (external) | swap, addLiquidity, removeLiquidity, stake, unstake, claimRewards | router, pool, gauge |
| `SAVAXAdapter.sol`, `PanoramaLiquidStaking.sol` | slots: positions in sAVAX's list of unlock requests | stake, requestUnlock, redeem | sAVAX |
| `BenqiLendAdapter`, `PanoramaLend`, `TraderJoeAdapter`, `PanoramaSwap` | lending positions, none for swaps | supply, redeem, borrow, repay; swaps | qTokens, router |
| `serialize-by-user.ts`, `execution-timeout.ts` | promise chain and depth per wallet; timers | arrival, refusal, start, answer, hang-up, timers | every route |
| `transaction-evidence.service.ts`, `evidence-bound-preparation.service.ts` | records in a database gateway: one parent, one per step | intent, commitment, submit, verify, outcome, roll-up | gateway and RPC, one await each |
| `bridge-evidence.service.ts` | gateway records | begin / commit, of either side of a bridge | gateway |
| `user-identity-evidence.service.ts` | none; reads three tables | administrator's export of identities | gateway |
| `modules/liquid-staking`, `modules/swap`, `bundle-builder.ts`, `aerodrome-*.ts`, `config/protocols.ts` | adapter cache | prepare enter / exit / claim / swap | RPC reads, then the wallet |
| `modules/dca` | none | prepare create / cancel, scan for the keeper | RPC reads, then the wallet |
| `modules/avax-*` | none | prepare bundles | RPC reads, then the wallet |
| `rateLimiter.ts`, `chain.provider.ts`, `transactionStore.ts`, `cache.ts` | counters, health of RPC endpoints, stored transactions, cached values | limit, failover, store and poll, get / set | process, disk, RPC |

What is hard, and what correctness means, per component:

- **Vault.** All orders share one pool of tokens, and a counter uses 0 for "unlimited".
  The vault must owe what it holds, whatever the mix of calls; an order must be executed
  at most as often and as fast as asked; the keeper's poll must agree with `execute`;
  roles must change hands only after their delay.
- **Executor and adapters.** Adapters appear on first use, by users and by operators for
  them, while beacons come and go. Nobody may reach another user's position, no token may
  stay in a proxy, and a user's adapter must never be exchanged.
- **Strategies.** A bundle is built from several reads at different times and signed
  later, step by step, while prices, allowances and other bundles move. Steps may fail,
  but nothing may be lost or trapped.
- **Unlock slots.** sAVAX moves its last request into the place of a redeemed one; stored
  positions go stale.
- **Request pipeline.** One promise chain per wallet, three ways to release a lock
  (answer, hang-up, timer) and two timers. No overtaking, no leak, no starvation, honest
  refusals.
- **Evidence.** Read-compare-write over awaits without preconditions at the gateway; a
  failure between two calls. A status must be backed by records, "verified" must mean
  that the prepared calls were made, and a failure must stay repairable. Commits of one
  bridge race, and bulk exports page through tables that grow: what a client was told is
  committed must stay, and settled records must not be missed.
- **Process state.** Health of endpoints, caches, requests in flight, polls and counters
  live in one process that may stop at any time. A sick endpoint must be tried again, a
  stale or missing value must not be believed for long, a poll must not stop early, and
  nothing reported may be forgotten.

`PROJECT.json` ("hazards") lists the individual hazards with the properties that cover
them.

## 2. The modules

### DCA vault: `RecurringOrders`, `DCAVault`, `DCABackend`, their `...Proofs`, `MCDCABackend`

`RecurringOrders` is the abstract promise: an order is a pot with a licence to swap; a swap
takes one unit of the licence and one price, not before its time; the pot goes back to the
owner. It knows no counters, flags or zero encodings. `DCAVault` has one action per
external function and one variable per piece of storage; a function that reverts does
nothing, so its conditions are guards. The swap behind `execute` is external: it fails or
delivers some output. `history` (swaps asked for, swaps done and the time of the first) and `proposedAt` (when the
pending role was proposed) are history variables no action reads. `Book` is the refinement
mapping, `KeepsPromise` the refinement.

`DCABackend` extends the vault by `modules/dca`. `prepareCreateOrder` and `prepareCancel`
read the vault once and leave a `bundle`; the wallet then sends its steps (`sign`), one of
which may revert (`reverts`, when the vault `Refuses` it), or gives up (`reject`), while the keeper executes, the owner
tops up or calls the vault directly and time passes. The keeper's scan is one action per
await: `readOrder`, `askExecutable`, `readFails`. `late` (what the owner deposited after
the look), `owed` and `ever` (what an answer must, and may, contain) are history.

### Base system: `PanoramaExecutorV2`, `TokenTransfers`, `AerodromeProtocol`, `AerodromeAdapterV2`, `BundleBuilder`, `DCASystem`, `DCASystemProofs`, `LiquidityStrategies`, `LiquidityStrategiesProofs`

`PanoramaExecutorV2` models the executor over an arbitrary outside world: the constants
`Pull`, `Dispatch` and `Sweep` map a world to the set of worlds a call can lead to, the
empty set standing for a revert. The CREATE2 address of a proxy is the record of what is
hashed: user, protocol, beacon, arguments. `TokenTransfers` moves tokens between the
accounts of a world, and `BundleBuilder` has the steps a bundle consists of; both chains
use them. `AerodromeProtocol` is one volatile pool with
its LP token and gauge (external: constant product, no fee, rounding down), and
`AerodromeAdapterV2` the adapter's actions on it.

`DCASystem` instantiates the vault and the executor side by side: `held` is the vault's
balance in the tokens of the world, the clock is shared, and one execution is the vault's
action, the executor's `executeSwapFor`, the adapter's swap and the pool's trade in one
step. Both contracts are administered, by owners that become independent. A vault that
points to another executor executes nothing here (that deployment is not modelled). Users
call the executor on their own with calls that move no tokens; those that do are the
subject of the next module.

`LiquidityStrategies` follows a request from the backend to the chain: `Begin`, one action
per await of the use case (each read may fail the way the code tolerates), the bundle that
results, and the wallet that signs the steps one at a time, abandons them, or sees one
revert. In between come other sessions, trades, the vault using the user's adapter,
the administration of the registry, the clock, and the expiry of the adapter cache.

### Request pipeline: `SerializeByUser`

Node runs one callback at a time, so one callback is one action: the middleware on arrival
(`ArriveBypassing`, `Refuse`, `Enqueue`), the microtask after the predecessor's release
(`Start`), the handler's answer (`Return`), `finish` followed by `close` (`Finish`), `close`
alone (`HangUp`), and the timers. `GuardedJson` is the response method that
`execution-timeout.ts` patches. The proofs about the queue stand at the end of `BackendProofs`.

### Avalanche: `AvalancheProtocols`, `BenqiLendAdapter`, `TraderJoeAdapter`, `SAVAXAdapter`, `PanoramaLend`, `PanoramaSwap`, `AvaxStrategies`, `Avalanche`, `AvalancheProofs`, `MCAvalanche`

`AvalancheProtocols` is what lies outside (external): two BENQI markets with a rate each
and a comptroller that lends up to half of the collateral in the markets entered, two
Trader Joe pairs with AVAX, and sAVAX with its list of unlock requests. The adapters and
the two shared contracts are modules of operators: a function of a contract maps a world
to the worlds after it, the empty set standing for a revert. In an adapter the executor's
transfer has happened before; in `PanoramaLend` and `PanoramaSwap` the user calls the
contract, which pulls.

`AvaxStrategies` composes them with the executor of `PanoramaExecutorV2` and the backend,
in the way of `LiquidityStrategies`. `Begin` takes a request; `readExchangeRate`,
`readQTokenBalance`, `getQuoteWithHop` and `checkAllowance` are the awaits of the use
cases (the two reads of prepare-redeem run concurrently, so either order occurs); the
wallet signs or abandons. A wallet may also send what the backend never builds: deposits
of collateral into its own adapter, withdrawals, `enterMarkets`, `exitMarket`, `swap`, and
calls of the shared contracts. Interest, other traders and the cooldown of sAVAX move in
between. The executor's administration and the clock stand still here. `Avalanche` puts
the shared staking contract beside it: the two have separate accounts at sAVAX and cannot
notice each other, so a behaviour is about one of them.

### sAVAX staking, shared: `StakedAvax`, `PanoramaLiquidStaking`

`StakedAvax` has what the contracts see of BENQI: a list of unlock requests from which
`SwapAndPop` takes one by moving the last into its place. The shared contract (and
`SAVAXAdapter`, per user) keeps slots, positions in that list. A slot carries the identity
of its request as a history field, so that the properties can say which request a slot was
made for. A request stands for one unlock; exchange-rate arithmetic is abstracted to
shares.

### One record: `TransactionEvidence`, `TransactionEvidenceProofs`, `MCTransactionEvidence`

One gateway or RPC call is one action; `local` holds what a request has read so far and
`pc` the call it makes next. The requests are those of the avax-swap and the lending
controller, which differ in what they check before and in how they answer. The gateway or
the chain may fail at each call (`ReadFails`, `WriteFails`, `ChainFails`), and the process
may stop (`Stop`). `Matches`
compares what the chain says with what was prepared, abstracted to which prepared call a
transaction makes (`callOf`). `preparation` follows the boundary of
`evidence-bound-preparation.service.ts`: intent, bundle, commitment, reply. The status
derivation is `deriveEvidenceLifecycleStatus`, in the code's order. `keys` holds the
idempotency keys under which the parent has been written: a roll-up's key names the status it
writes (transaction-evidence.service.ts:1340), an outcome's the outcome (line 927), and
`PatchParent` lets the gateway apply a write whose key it has seen, or answer without
applying it. The keys of a step's writes name the step and its hash; a repetition of one of
them writes what the step holds already, so they are left out.

### Many records: `EvidenceRecords`, `UserIdentityEvidence`, `AdminExports`, `AdminExportsProofs`, `MCAdminExports`

`EvidenceRecords` has the writers (`beginAvaxBridgeEvidence`, the destination side,
`persistEvidenceIntent`, `persistPreparedEvidence` behind a commit or behind evidence-bound
preparation) and the bulk exports (`listPage`, then `exportRecord` for each record found).
A record is a parent and the rows of its steps; hashes stand for what is hashed. The
gateway sorts the rows of a listing by record and step: a row's `Rank` is the number of
rows before it, and `Page(skip)` the rows whose rank is at least `skip` and less than
`skip + Take`, which needs no sorted sequence.
`IntentCount` is what reading a bridge's intent yields for its number of steps: `NoCount`, as the
service stores it, or 0, as the test of the two phases mocks it. `UserIdentityEvidence` pages through
three tables at once while identities are registered and joins them. Its listings, unlike
those of the evidence records (transaction-evidence.service.ts:759-764), ask for no order
(user-identity-evidence.service.ts:130-134): a table is a set of rows, and each page is cut
out of an order that the gateway chooses anew (`Pages`). `AdminExports` puts
both behind the routes they share.

### Process: `ChainProvider`, `CachedReads`, `TransactionStore`, `RateLimiter`, `Backend`, `BackendProofs`, `MCBackend`

`ChainProvider` is the failover of one chain's provider: the primary with its health, then
all fallbacks at once; endpoints (external) go down and up. `CachedReads` (cache, requests
in flight, deadline of an adapter lookup) and `TransactionStore` (memory, file, polls) make
their calls through it. `RateLimiter` counts requests in three tiers. `Backend` composes
them at the restart of the process, which empties all of them and rereads the file. A behaviour is about
one kind of `work`, since the parts meet only in the provider. `BackendProofs` begins with the
provider by itself, goes on to the process and the limiter, and ends with the queue of
requests per wallet.

## 3. What is checked

| Run | Instance | Question |
|---|---|---|
| `dca_orders` | called directly: 2 accounts, 2 tokens, 2 orders, prices 0/2, intervals 0/2/largest uint, limits unlimited/2, time 3-5; through the backend: one of the accounts, one pair, one request | `Solvency`, `SwapBudget`, `Pace`, `NextExecutionFits`, `PollIsExact`, `KeepsPromise`, `CancelPaysBack`, `ScanIsComplete` |
| `dca_system` | 2 accounts, 1 order, 1 beacon and 2 initializer arguments, delays of 1, time 1-2 | `OwnerIsServed`, `AdapterIsForever`, `ChangesAreDelayed` |
| `strategies` | 2 users, one with an earlier position, 2 sessions, 5 requests, a trade and a vault swap, registry administration | `ProxyKeepsNothing`, `ExitAlwaysWorks`, `OwnStepsOnly`, `StakeStepFits` |
| `avalanche` | 2 users, one with 4 qiAVAX of collateral, a debt of 1 and 3 unlock requests, 2 sessions, 24 kinds of requests and calls, a trade, rates 1 and 3/2; or 2 users of the shared staking contract | `ProxyKeepsNothing`, `UnwindAlwaysWorks`, `RedeemIsFair`, `OwnStepsOnly`, `SlotsLeadToRequests` |
| `serialize_requests` | 3 requests with or without wallet, queue of 2, timers 1 and 2 | `OvertakenOnlyWhenForced`, `RefusedOnlyWhenFull`, `MapsDrain`, `EventuallyRun` |
| `evidence` | 2 steps, 2 hashes making any of the calls, 2 requests of any kind | `StatusIsBacked`, `NeverMerelyPrepared`, `FinalStatusIsCurrent`, `ExportIsBacked` |
| `evidence_records` | 4 requests among 10 kinds, 2 records, 2 wallets, pages of 2; 3 profiles, 3 wallets and a user, in pages of 2 | `PreparedAsReturned`, `ExportIsComplete`, `ExportSurvivesIntents`, `IdentitiesAreReported` |
| `backend` | 3 endpoints, 2 calls, 2 readers of a gauge or an adapter, 2 reports of one transaction, 3 keys of the limiter | `PrimaryReturns`, `FailsOnlyWithoutFallback`, `AnswersAreRecent`, `ReadersAreServed`, `RestartForgetsNothing`, `PendingIsPolled`, `BurstIsBounded`, `RefusalIsEarned` |
| `serialize_answer`, `staking_own_request`, `evidence_race`, `bridge_commit` | as above | the four documented statements of section 5, each refuted |

Every property has a mutant in `PROJECT.json`: a plausible bug in one definition under
which TLC finds the property violated on the same instance. The type invariant of each
module stands in the module; those of the vault, the executor, the strategies of both
chains, the pipeline, the evidence and the process are proved, each by itself or as part of an inductive invariant; no run
lists them.

**Bounds.** Every bound is a named constant: `Horizon` (time), `MaxOrders`, `Supply`,
`MaxStake`, `MaxRequests`, and the sets of amounts, accounts and requests. They are chosen
so that the interesting cases occur.

- Two orders of the same or of different owners, in the same or opposite direction, are
  what shared balances need; with limit 2 an order passes through 2, 1 and its last swap,
  and the interval `MaxUint` makes `lastExecuted + interval` reach the edge. The clock
  starts at 3, past the interval of 2, as a chain's clock is past every interval in use: the
  first swap may follow the creation at once, and the next has to wait until 5. Price 0 and interval 0 are the inputs `createOrder`
  must refuse.
- Through the backend one client trades one pair, with the one request of price 2, limit 2
  and deposit 3: one swap is paid in full and leaves 1, so a refund of whole swaps and of
  the balance differ. Both orders can be his, which is what a scan up to 2 needs.
  `Supply` 3 lets a top-up fall between the look and the withdrawal.
- `dca_orders` leaves administration idle (`OrdersSpec`): no order function touches a role.
  Administration is checked in `dca_system`, where a delay of 1 within two instants leaves
  room for propose, too early, accept and for schedule, cancel, reschedule.
- In `strategies` a slippage of 2500 bps is what a price move on a pool of 6/6 tokens can
  use up or leave, so both outcomes of each minimum occur; amounts of 1 to 4 suffice for
  partial exits and for rounding to zero. Deadline 0 makes the clock expire bundles.
  Rewards are a fixed initial amount that can be claimed once.
- Three requests and a queue of two are the least that overflow the queue; with
  timers of 1 and 2 either may fire first.
- In `avalanche` rates are in units of 1/`Scale` (2) and accrue once per market, up
  to `MaxRate` (3), so a qToken is worth 1 or 3/2 and both directions of rounding occur.
  The earlier position lets redemption, borrowing, repayment, refusals for want of
  collateral and the reordering of unlock requests occur within two sessions;
  `MaxRequests` leaves room for one more unlock request.
- Moving a last request into a gap needs three; four allow a second redemption over a
  stale slot.
- Two requests are the least that race, and two steps the least that make "some" differ
  from "all".
- In `evidence_records` two intents, a commit and an export, or an intent and three
  commits, are four requests; with pages of 2 a record of two steps fills a page, so that
  a record that sorts before it moves the rest. Of the identities, two profiles and two
  wallets fill a page exactly, and the third of either makes two pages, which may overlap or
  leave a row out. One wallet may come to have two users.
- In `backend` the deadline of a call, the recovery of an endpoint and the limiter's
  shortest window are one unit of time, so every order of two timers occurs; two fallbacks
  make "the first success" differ from "the last failure", and two readers are what joins.
  Two submissions of one hash are a resubmission.

Symmetry is used only between accounts, tokens, requests, calls or endpoints that a
configuration treats alike.
`serialize_requests` checks liveness and uses none. Deadlock is not checked (`CHECK_DEADLOCK
FALSE`) because the bounded instances end: time stops at `Horizon`, requests are answered,
sessions are done.

**Fairness.** Only `SerializeByUser` has a liveness property. `Fairness` is weak fairness of
what the Node process itself does: the passage of time, timers that are due, microtasks
whose promise is resolved and the events of a response that was sent. Nothing is assumed of
clients (a request need not arrive, nobody has to hang up) or of handlers (`Return` is not
fair: a handler may hang), and `EventuallyRun` holds all the same because the queue timer
releases the chain.

**The properties in words.** Each is stated above its definition. Some need context:

- `ExitAlwaysWorks` is a promise about recovery: in every reachable state, whatever was
  abandoned halfway, a full exit prepared now and signed without interruption takes out
  the whole position. It has two preconditions. The position is worth at least one unit of
  both tokens (otherwise the pool refuses), and the backend looks up an adapter, the one the
  user really has. The second fails after the beacon or its arguments changed:
  `predictUserAdapter` then names a proxy that does not exist, and the backend reports an
  empty position until it asks the contract's mapping.
- `UnwindAlwaysWorks` is the same promise for lending: in every reachable state, repaying
  all debts and then withdrawing all collateral succeeds in one go and leaves neither debt
  nor tokens in the adapter. It assumes that the wallet holds what it owes and that the
  markets have the cash.
- `RedeemIsFair` relates what a redemption pays to what was asked for at preparation: at
  most that amount grown by the interest since, and at least that amount up to the
  rounding to whole qTokens, unless everything the wallet was seen to hold was redeemed.
- `OvertakenOnlyWhenForced` and `SlotsLeadToRequests` say exactly how far a promise
  reaches that does not hold without exception (see section 5).
- `CancelPaysBack` permits what the owner deposited after the backend's look, and holds
  although the keeper spends in between, because `withdraw` with amount 0 takes the whole
  balance and not the one that was read.
- `ScanIsComplete` compares an answer with the whole time of the scan: it lists every order
  that was executable throughout and could be read, and none that never was.
- `ExportIsComplete` rests on the order of the pages: in the order of record and step a
  row that is added can only repeat rows on later pages. It takes settled records to be those
  prepared before the export began.
- `IdentitiesAreReported` says what is left without such an order. As long as wallets and
  users fit a page, no settled profile is reported with a wrong class; as long as the
  profiles do too, each is reported, once. Beyond a page (`PAGE_SIZE`, 1000 rows) two pages may
  repeat rows and miss others, even of a table that stands still, and a wallet that is missed
  or repeated changes a class; then the property says nothing, because nothing holds.
- `Pace` counts from an order's first execution: k more take at least k intervals. The first
  may follow the creation at once, because `lastExecuted` is 0 until then.
- `AnswersAreRecent` bounds the age of every value by the TTL, and the time after an
  outage during which "no adapter" is believed by a lookup and `EMPTY_TTL_MS`.
- `PrimaryReturns` says that a primary that has been well for a deadline and `Recovery` is
  asked first again, whatever late answers come in.
- `PendingIsPolled` and `RestartForgetsNothing` except what the code does not promise: a
  restart ends the polls, and a torn file loses its contents (section 5).
- `FinalStatusIsCurrent` is about quiescence: when no request is in flight, none broke and
  none overlapped, the parent's status is the one its records imply, unless the wallet
  reported an outcome of its own (partially-executed).

## 4. What is proved

`DCABackendProofs` proves of the vault's `Spec`, for all accounts, tokens, amounts, numbers of
orders and bounds that satisfy `VaultAssumption`:

| Theorem | Establishes |
|---|---|
| `TypeCorrect` | `Spec => []TypeOK` |
| `SolvencyHolds` | the vault holds exactly what it owes, for any number of orders |
| `SwapBudgetHolds` | an order limited to n is executed at most n times and never becomes unlimited |
| `PaceHolds` | from the first execution on, k more take at least k intervals, whatever the clock reads |
| `NextExecutionFitsHolds` | `lastExecuted + interval` never overflows |
| `AdminTimelockHolds` | keeper and owner change only to the pending address after the delay |
| `PromiseKept` | `Spec => KeepsPromise`: the vault implements `RecurringOrders` |

The argument. Types are not inductive alone: that a swap finds an order with an owner and a
positive price needs `Registered` (an id holds an accepted order exactly if it is below
`nextOrderId`). `SpendSwapType` and `ExecuteEffect` isolate the counter arithmetic, and one
lemma per function shows that it preserves the types. `Solvency` is a sum over all orders,
and a sum by recursion would need induction over data. It is stated instead through the
existence of running totals, and `ShiftedTotal`, `OneOrderMoves` and `TradeMovesTogether`
show that a step that moves one balance moves every later total by the same amount.
`SwapBudget` and `Pace` are inductive relative to the types; `CountedSwap` shows for `Pace` that
a swap that is not the first adds an interval to the time since the first. `NextExecutionFits` needs
`RanAfterInterval`: an order that has been executed has an interval that fits into the time
that has passed. `AdminTimelock` needs `UnlockAfterDelay`: a pending role unlocks
`AdminDelay` after `proposedAt`. The refinement has one lemma per function: through `Book` a
creation, top-up, cancellation, withdrawal and execution is the action of that name of
`RecurringOrders`, and everything else leaves the book as it is. It needs the types and
`Registered`, so that the flag, the counter and the zero encodings of a stored order mean
what `Book` takes them for.

Behind the backend, for `BackendSpec`, under `VaultAssumption` and `BackendAssumption`, for any users of the backend, any pairs, requests and allowances and any `upTo`:

| Theorem | Establishes |
|---|---|
| `BackendUsesVault` | `BackendSpec => Spec` of `DCAVault`: the theorems above hold behind the backend |
| `CancelPaysBackHolds` | `CancelPaysBack` |
| `ScanIsCompleteHolds` | `ScanIsComplete` |

`BundlesOK` says which transactions a bundle may consist of, so that each one signed is a
call `Next` of the vault allows. `RefundOK` follows a cancellation with refund: either the
withdrawal is still to come, or the order is as `late` says. It is kept because only its
owner's deposits can add to an order (`OrderFalls`), which need it to be active, and because
a withdrawal that reverts finds nothing to pay: by `SolvencyHolds` the vault has what it owes
(`Covered`). `ScanOK` says of the orders already passed that those still owed were found.

`PanoramaExecutorV2Proofs` proves under `ExecutorAssumption`, for any users, protocols and
beacons and with no assumption on what the contracts outside do:

| Theorem | Establishes |
|---|---|
| `TypeCorrect` | `Spec => []TypeOK` |
| `IsolationHolds` | no two users and no two protocols share an adapter |
| `AdapterIsForeverHolds` | a user's adapter is never exchanged |
| `RemovalTimelockHolds` | a beacon goes only after a scheduled, uncancelled removal has waited out its delay |

The invariant is the type invariant with three parts: `Registered` (a beacon comes with its
arguments), `InOwnSlot` (an adapter stands in the slot of the user and protocol that are
part of its address; this gives isolation) and `UnlockAfterDelay`.

`DCASystemProofs` proves of the two contracts, the adapters and the pool together, under
`SystemAssumption` (the addresses of users, contracts and adapters differ, and so do the
tokens; amounts are natural numbers):

| Theorem | Establishes |
|---|---|
| `AdapterIsForeverHolds` | `AdapterIsForever` |
| `ChangesAreDelayedHolds` | `ChangesAreDelayed` |
| `NothingIsOverdrawn` | `Spec => [](world \in Worlds)`: no balance and no allowance becomes negative |
| `OwnerIsServedHolds` | `OwnerIsServed`, for any orders, prices and reserves |
| `SystemUsesVault` | `Spec => V!Spec`: what the executor does to the vault's tokens is what `DCAVault` assumes of it |

`RegistryOK` and `OrdersOK` (together `Reached`) are the invariants of the executor's and the
vault's side. They depend on each other at one point: the adapter of an execution belongs to
the owner the order names, who must be an account the registry knows. `DelaysOK` is the
vault's `UnlockAfterDelay` again. The tokens are argued along one execution: what the executor
pulls arrives in the adapter (`Pulled`), the swap takes exactly that out of it and gives the
output to the recipient (`Swapped`), and a pool with a constant product never gives more than
it has (`PoolSuffices`), so the adapter ends with what it had. With `SystemUsesVault` every
theorem about the vault holds in the composition for constants that meet
`VaultAssumption` too: the vault is solvent in the tokens it really has.

`LiquidityStrategiesProofs` proves under `StrategiesAssumption` (the addresses of users,
contracts and adapters differ, and so do the tokens; requests ask for natural numbers; some
liquidity stays in the pool), for any number of users, sessions and requests, any slippage and
any trades:

| Theorem | Establishes |
|---|---|
| `TypeCorrect` | `Spec => []TypeOK`: no balance, stake, allowance or reward becomes negative, and the pool's divisions are by positive numbers |
| `ProxyKeepsNothingHolds` | `ProxyKeepsNothing` |
| `LiquidityHasHolders` | the supply of LP is what the wallets hold and the adapters have staked |
| `OwnStepsOnlyHolds` | `OwnStepsOnly` |
| `ExitAlwaysWorksHolds` | `ExitAlwaysWorks` |

`ProxyKeepsNothing` is about one instant between two transactions, its reasons lie all along
the way from the reads to the signature. `SessionsOK` says that each step a user is given
to sign is one of `Steps`: a call for the user as the recipient that pays in exactly what it
uses (`PaysForItself`), whatever was read, capped and rounded in between (`EnterTyped`,
`ExitTyped`, `SwapTyped`). One lemma per function of the adapter (`SwapSpends`, `AddSpends`,
`RemoveSpends`, ...) shows that a call takes its cost out of the adapter and leaves it nothing
else, the refunds of a liquidity deposit included, so what the executor pulled is gone after
the call (`Dispatched`, `RoutedWorld`). That the pool can divide, and never pays out its whole
reserve, needs `Sound`: reserves are positive, and the supply is the sum of what all hold
(`Holdings`), so a share is less than the whole as long as somebody else has some. A sum has
no recursion the provers follow; `SumChange` and the lemmas around it take the smallest
counterexample, as in `BackendProofs`. For `OwnStepsOnly` every action is shown to keep all
positions (`Untouched`), or all but that of the user who signs.

`ExitAlwaysWorks` is a promise about what would happen, so its proof runs the model forward
from any state of the invariant: `Runs` says that a list of steps leads from each world of
one set to some world, and to no world outside another set. Three lemmas follow the bundle
of an exit, the unstaking, the approval and the removal (`UnstakeLeads`, `ApproveLeads`,
`RemoveLeads`), `StepsThen` puts lists of steps one after the other, and `ExitLeads` adds up
what the position is at the end. It needs one more part of the invariant, `StakesOK`: only
the adapter in which calls of its user run has anything staked, so what the backend sees is
all there is. That the minimums a removal was prepared with are met at once is
`SlippageLess` and `SameShare`.

`AvalancheProofs` proves of `AvalancheSpec`, under `AvaxAssumption` (addresses and tokens
differ, requests are typed; at the start both sides of a pair have something, and the
executor and the shared contracts nothing) and `AvalancheAssumption`, for any
number of users, sessions and requests, any slippage and interest:

| Theorem | Establishes |
|---|---|
| `TypeCorrect` | `AvalancheSpec => []TypeOK`: no balance, debt or rate leaves its range, and no division is by zero |
| `ProxyKeepsNothingHolds` | `ProxyKeepsNothing` |
| `SlotsLeadToRequestsHolds` | `SlotsLeadToRequests`, for any length of the lists |
| `OwnStepsOnlyHolds` | `OwnStepsOnly` |
| `RedeemIsFairHolds` | `RedeemIsFair`, for any rates and amounts |
| `UnwindAlwaysWorksHolds` | `UnwindAlwaysWorks`, for any rates, debts and deposits |

The invariant has five parts. `RegistryOK`: a proxy in use is the user's own. `Sound`: the
world has its types, the Trader Joe pairs never run empty (a swap gives less than there is,
`PairSuffices`), and as long as an adapter has not taken a request from the middle of its
list, its slots lead to its requests, each to another (`SlotsOK`). `Clean`: the adapters
hold deposited qTokens and nothing else, the executor and the shared contracts nothing at
all. `SessionsOK`: the steps of a session pay for themselves, the rate it has read is at least
1 and at most the present one, and the amount of a redemption was computed from it.
`PoolInv` is what `Sound` says of slots, for the shared staking contract; there the slots of
all users together are as many as the requests, which keeps them a permutation. A lemma per
function of an adapter (`SupplySettles`, `RedeemSettles`, ...) and of a shared contract
(`LendSupply`, ...) shows that it leaves the world sound and clean and concerns its caller
only (`Served`). Everything else moves tokens between others (`Quiet`), so the worlds a user
sees before and after differ in what the user signed. `RedeemIsFair` follows from the
rounding of two divisions at two rates (`FairRounding`), the second of which is at least the
first because `SessionsOK` survives every interest.

`UnwindAlwaysWorks` is proved as the exit above, by running the model forward. `OnTheWay(u, R,
T)` is the set of worlds in which the debts of the markets `R` are repaid and the deposits of
the markets `T` are back, everything else of the user being as it was and the markets of the
other deposits holding the cash they held. An approval keeps such a world (`ApproveLeads`), a
repayment adds to `R` (`RepayLeads`), and with all debts gone a withdrawal adds to `T`
(`WithdrawLeads`): whoever owes nothing passes the health check (`Backed`), and a market that
has the cash pays (`RedeemPasses`). `Clean` is needed here too: what the adapter holds after a
redemption is what was redeemed, so the user gets exactly that. `RepayAllLeads` and
`WithdrawAllLeads` cover the bundles with and without an approval, and the empty ones;
`RunsLead` says that lists of steps that run are what the recursive function `AfterSteps`
computes.

`BackendProofs` proves first of `ProviderSpec` alone, under `ProviderAssumption`, for any
calls, fallbacks, timeout and recovery time:

| Theorem | Establishes |
|---|---|
| `ProviderTypes` | the provider's types |
| `ThePrimaryReturns` | `PrimaryReturns` |
| `FailureMeansNoFallback` | `FailsOnlyWithoutFallback` |

`ProviderInv` relates times: a failure that counts is at most a timeout younger than the
primary's last trouble (`FailuresAreRecent`, which needs that a call that may still fail
has waited that long), an endpoint that is down is one that every call under way has
missed (`DownIsNoticed`), and a fallback leaves a race only if the call missed it
(`RaceIsFair`).

Then it proves for `BackendSpec`, under the assumptions of
the parts and `BackendAssumption`:

| Theorem | Establishes |
|---|---|
| `ProviderIsUsed` | `BackendSpec => ProviderSpec`: reads and polls use the provider as it may be used |
| `ProviderPromisesHold` | `PrimaryReturns` and `FailsOnlyWithoutFallback` in the process |
| `AnswersStayRecent` | `AnswersAreRecent` |
| `EveryReaderIsServed` | `ReadersAreServed` |
| `ARestartForgetsNothing` | `RestartForgetsNothing` |
| `ThePendingIsPolled` | `PendingIsPolled` |
| `BurstsAreBounded` | `BurstIsBounded`, for any windows, limits and keys |
| `RefusalsAreEarned` | `RefusalIsEarned` |

`StoreInv` (theorem `StoreInvariant`) ties loops and records together: a loop polls a hash
that is recorded, belongs to no later submission than the record, and what it asked about is
no newer than the record; the loop of the last submission polls that hash. That is why an
older loop that ends cannot leave a pending record without a poll. `BackendReadsInv` (`ReadsInvariant`) says when what the
cache holds was last true, as a function of how long the entry has left, and how long ago a
lookup that met an outage began; every request in flight has a call of its own under way, and
readers wait for such requests only. It rests on `Timeout <= LookupTimeout`, part of
`ReadsAssumption`: in the code both are 3.5 s. With a longer RPC deadline a lookup that was
given up could still be under way in the provider, and the bound would be another.

`LimiterInv` (`LimiterInvariant`) says that in the window that is open the tier let through
exactly what the counter shows, up to the limit, and in the whole window before it at most
the limit; nothing older counts. These are sums over the last ticks. A sum over a set of any
size has no recursion the provers could follow, so the lemmas about it argue with the
smallest counterexample: if the claim failed for some set of ticks it would fail for one of
least size (well-foundedness of the natural numbers, a theorem of the library without an
operator parameter), and taking one tick out of that gives a smaller one.

At its end `BackendProofs` proves of the queue, under `PipelineAssumption`, for any finite set of requests,
any wallets, queue limit and timeouts:

| Theorem | Establishes |
|---|---|
| `QueueTypeCorrect` | `Spec => []TypeOK` |
| `MapsDrainHolds` | no entry of the maps outlives the last pending request of its wallet |
| `RefusedOnlyWhenFullHolds` | a refusal means that the wallet has `MaxQueueSize` pending requests |
| `OvertakenOnlyWhenForcedHolds` | a request starts before an earlier one only after that one's lock was given up |

`CountInv` adds to the types that the tail of a chain is pending (`TailInv`) and that the
depth never exceeds the pending requests (`DepthInv`): the double decrement makes it too
small, never too large, which is why refusals stay honest although the bound is not kept.
`OrderInv` recovers the chain of promises from the order of arrivals: each request waits
for the last earlier one of its wallet, or that one has been released, and a released
request has ended or was forced. That a starting request has overtaken nobody then
follows from its predecessor's.

`TransactionEvidenceProofs` proves under `EvidenceAssumption`, for any number of steps,
requests and hashes:

| Theorem | Establishes |
|---|---|
| `TypeCorrect` | `Spec => []TypeOK` |
| `NeverMerelyPreparedHolds` | `NeverMerelyPrepared` |
| `FinalStatusIsCurrentHolds` | `FinalStatusIsCurrent` |
| `StatusIsBackedHolds` | `StatusIsBacked`, as long as `Steady` |
| `ExportIsBackedHolds` | `ExportIsBacked`, as long as `Steady` |
| `ImmutableUnlessOverlapped` | a step keeps its hash as long as no two requests have overlapped |

`Steady` says that no step is offered two transactions (`OneTransactionPerStep`, which the
instance of the run `evidence` satisfies), or that no two requests have overlapped so far,
whatever the wallet broadcasts. One of the two is needed: in the run `evidence_race` two requests
that overlap change a hash. `SameHash` is what either gives: when a request is about to write
a hash, the step has that hash or none. `FlowInv` is about control: what a
request at a given call has done and read, that a hash is stored before the roll-up that
follows it, and that such a roll-up sees it. `EvidenceInv` adds that whatever a request has
read, or is about to write, is no more than the records hold: the view of a request is an
older state of records whose hashes, receipts and verdicts only grow. `SerialInv` describes
the states in which no two requests have overlapped: there the view of the one request under
way is the record, and otherwise the parent is what the records imply. A write that the
gateway ignores could break both claims about the parent. For `NeverMerelyPrepared` it does
not, because a key is known only after a first write, and that one took "prepared" away for
good (`WrittenForGood`). For `FinalStatusIsCurrent` the reason is `Written`: the statuses
derived from the records have a `Rank` that never falls (`GradeGrows`), so a roll-up's key
that is known was used when the records said the same, and the parent has had that status
since, unless the wallet reported a partial execution.

`AdminExportsProofs` proves for `AllSpec`, under `RecordsAssumption` and
`IdentitiesAssumption`:

| Theorem | Establishes |
|---|---|
| `WhatIsPreparedIsReturned` | `PreparedAsReturned` |
| `ExportsAreComplete` | `ExportIsComplete`, for any size of page |
| `ExportsSurviveIntents` | `ExportSurvivesIntents` |
| `IdentitiesAreReportedHolds` | `IdentitiesAreReported`, for any tables, size of page and order of the rows |

`RecordsInv` (`RecordsInvariant`) has three parts beside the types. `RowsAreApplied`: a row
belongs to a parent, and the rows of a key are those of the first commitment that bears it.
`KnowsItsRecord`: a request that has been told so finds what it sent. `LosesNothing`: of the
records that were settled when an export began, one is found, or all its rows have a rank of at
least `skip`. That part is the heart: ranks only grow, because rows are added and never
moved, so a row whose rank is below the end of the next page is on that page or was on an
earlier one, and when a page is not full there is no row of a higher rank, since the ranks
of the rows are the numbers below their count.

`IdentitiesInv` (`IdentitiesInvariant`) says that a list holds rows of its table, and if the
table fits a page each of them once; and that a state of the tables, `old`, exists in which
the export began, so that the list of a table that fits a page, once read, lies between `old`
and the table of now. No order of the rows is assumed. `ClassBetween` then gives the property: while
rows are added, the users and wallets that match a profile only become more and a
contradiction stays, so a class that is the same at both ends was the same in between.

**Only model-checked.** `EventuallyRun` (liveness under fairness) and `PollIsExact` (it says
when the keeper's call is `ENABLED`) are outside the prover's reach. `StakeStepFits` is about
the amounts of the instance: where the amounts deposited are tiny and the supply is large, a
trade can lower the liquidity minted while the rounded amounts stay what they were, so it
does not hold for all constants.

## 5. Disagreements between code and documentation

Each is a run that TLC refutes:

- `serialize_answer`: execution-timeout.ts:7-9 promises a 504; the timer sets the flag
  first, and the guard that swallows late answers swallows the 504.
- `staking_own_request`: PanoramaLiquidStaking.sol:24 says that redeem uses the caller's own
  slot; after sAVAX moved a request, the slot leads to another user's.
- `evidence_race`: avax-swap.routes.ts:166-167 calls the stored hash immutable; two
  submissions that both passed the comparison overwrite each other.
- `bridge_commit`: bridge-evidence-two-phase.test.ts:116 says that the second phase reloads
  the persisted intent and commits; reading an intent throws for want of `totalSteps`, so
  no bridge can be committed. The test replaces the read by one that yields no steps; the
  run `evidence_records` takes that reading to check what follows the commit.

Observations without a run of their own:

- README.md:48 promises a one-day delay and acceptance by the proposed address for keeper,
  executor and owner; `acceptExecutor` (DCAVault.sol:377) has neither. `ChangesAreDelayed`
  is about the other two.
- serialize-by-user.ts:11 bounds the queue; an ordinary answer emits `finish` and `close`,
  each decrements the depth (line 138), and more requests get in.
- Requests of one wallet are "processed one at a time" (serialize-by-user.ts:47-48), but a
  hang-up or the 30 s timer releases the lock while the handler runs; the property checked
  is the exact statement `OvertakenOnlyWhenForced`.
- After an out-of-order redemption the proxy's slot can point past the end of sAVAX's list
  (SAVAXAdapter.sol:119): the request stays with sAVAX until other slots are redeemed.
- For the same reason the slot number in a prepared redemption can mean another request of
  the same user by the time it is signed.
- BenqiLendAdapter.sol:74-75 says that qTokens stay in the proxy as collateral, but
  prepare-supply always names the user as the recipient (prepare-supply.usecase.ts:98) and
  the adapter forwards them. A borrowing prepared by the backend therefore succeeds only
  for users who deposited collateral by a call of their own, in the market they borrow
  from or one they entered themselves: `borrow` enters no other.
- PanoramaLend.sol:22 and :97 ask for collateral supplied through the contract, but its
  `supply` forwards all qTokens to the caller, so its `borrow` reverts.
- Redeeming an amount that is not a whole number of qTokens rounds down: asking for the
  whole underlying can leave one qToken in the wallet.
- `recordEvidenceExecutionOutcome` decides by what it read earlier and writes
  "partially-executed" over any status (transaction-evidence.service.ts:913), or
  "cancelled-before-submission" over a hash stored meanwhile; the next roll-up corrects it.
  Likewise a roll-up from a stale read can set a verified parent back until the next one. But
  the key of that next roll-up (line 1340) names only the status: if the parent has had the
  status before, a gateway that honours the key answers without correcting anything.
- `listAll` (user-identity-evidence.service.ts:130) pages without `orderBy`; beyond 1000 rows
  the export of identities may miss and repeat rows.
- `registerBeacon` leaves a scheduled removal in place (PanoramaExecutorV2.sol:300).
- An exit without an amount, "full position" (prepare-exit-strategy.usecase.ts:14), becomes
  partial when a balance read fails, because the failure counts as 0.
- The backend builds cancel-and-withdraw only for active orders
  (prepare-cancel-order.usecase.ts:31); an order that finished by itself keeps its leftover
  until its owner calls `withdraw` directly. For the same reason a bundle whose order ends
  before it is signed reverts at its first step.
- The keeper's scan looks at the first `upTo` ids, 100 unless told otherwise: active orders
  beyond it are not executed.
- get-portfolio.usecase.ts:54 and get-protocol-info.usecase.ts:51 fall back on a stale
  value, but `getCached` has just deleted the expired entry (cache.ts:25-27).
- aerodrome.service.ts:50 speaks of caching and retry; there is no retry.
- An adapter lookup that fails is cached as "no adapter" for 5 seconds. Its deadline of
  3.5 s is also that of one RPC call, so a primary that hangs always fails the lookup
  before a fallback is asked. A pool address of zero is cached for ten minutes.
- The health of fallbacks is written and never read; a call that reverts counts as a
  failure of its endpoint; and the failover wraps the last error, so `isAdapterMissingError`
  does not recognise what it looks for.
- rateLimiter.ts:5 calls the windows sliding; they are fixed (`BurstIsBounded` allows twice
  the limit). A request that a later tier refuses has been counted by the earlier ones.
- A torn `transactions.json` loads as no transactions at all, and the next submission
  overwrites it. Polls do not resume after a restart. Reporting a settled hash again makes
  it pending, and the poll of the first report writes into a record nobody reads.
- The services default to different tenants, `panorama-default` and `panorama`.

## 6. What is not modelled, and why

- Upgrades of beacons (`upgradeTo`) and of the vault's proxy replace code; nothing can be
  said of the code they bring.
- Tokens move exactly the amount asked for; fee-on-transfer and rebasing tokens are outside
  (with them DCAVault.sol:175 would credit more than arrives).
- Swap fees and stable pools: the pool is constant product without fee.
- The native-currency branch of swap bundles is in the model, but no request of the
  instances uses it.
- On Avalanche: WAVAX as a token of its own and the wrapping of AVAX, liquidations and
  moves of the oracle's prices, retries inside one read of `avax.service.ts` (a read
  succeeds or fails), the views of markets and positions.
- A PATCH that the backend gave up but the gateway applies later. The gateway itself is
  assumed: a transaction applies wholly or not at all, ids are unique, a
  repeated idempotency key of a commit is answered without effect.
- An endpoint that is up answers in time. How long a poll sleeps, and the limiter's sweep,
  which removes only what has no effect any more.
- Hashing and canonical encoding of evidence payloads, logging, HTTP parsing, validation of
  requests, market data beyond its caches, `getStale`.
- Executor V1 and adapter V1: they have the shape of V2 and hold earlier positions only.
  The front end, deployment scripts, vendored libraries.

## 7. Plan

1. Proofs: the magnitudes for which `StakeStepFits` holds.
2. Executor V1, and users who hold positions under both executors.
3. WAVAX and the native branch of swaps; moves of BENQI's prices.

## 8. Running it

    tlc -workers 2 -config DCABackend.cfg MCDCABackend
    tlapm DCABackendProofs.tla

`PROJECT.json` names the module and configuration of every run. Runs take between a second
and about three minutes; the proofs about half an hour (17672 obligations).
