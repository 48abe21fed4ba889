----------------------------- MODULE DCABackend -----------------------------
(***************************************************************************)
(* backend/src/modules/dca: what the backend adds to DCAVault.  It prepares *)
(* bundles of transactions that a wallet signs one after the other, and     *)
(* scans the vault for the keeper.  Both read the vault in one request and  *)
(* their result is used later, while the vault moves on: a keeper executes  *)
(* orders, owners call the vault without the backend, time passes.          *)
(*                                                                         *)
(* Wallets are external: a wallet sends the steps of a bundle in order and  *)
(* gives up at the first one that reverts or that its user rejects.         *)
(***************************************************************************)
EXTENDS DCAVault, FiniteSets

CONSTANTS
    Requests,       \* <<amountPerSwap, interval, remainingSwaps, depositAmount>> asked for
    Allowances,     \* what owners have approved to the vault beforehand
    UpTo            \* the upTo the keeper passes to the scan

ASSUME BackendAssumption ==
    /\ Requests \subseteq Prices \X Intervals \X Limits \X Deposits
    /\ Allowances \subseteq Nat
    /\ UpTo \in 0 .. MaxOrders

VARIABLES
    allowance,      \* IERC20(token).allowance(user, vault)
    bundle,         \* per user: the bundle being signed
    scan,           \* the keeper's request for executable orders
    owed, ever      \* history: orders executable throughout, at some time of, the scan

backendVars == <<vars, allowance, bundle, scan, owed, ever>>

NoBundle == [steps |-> <<>>, order |-> 0, refund |-> FALSE, late |-> 0, end |-> "none"]

\* Where a bundle stands: "open" while steps are left; a cancellation with refund is
\* "done" when all its steps ran, or ends with the call that reverted.
Ends == {"none", "open", "done", "cancel", "withdraw"}

Call(name, args) == [call |-> name, args |-> args]
Offer(steps, o, refund) ==
    [steps |-> steps, order |-> o, refund |-> refund, late |-> 0, end |-> "open"]

Idle(u) == bundle[u].end # "open"

\* What is kept of a bundle when it ends: nothing is said of those without refund.
Ended(u, how) ==
    bundle' = [bundle EXCEPT ![u] =
                 IF @.refund THEN [@ EXCEPT !.steps = <<>>, !.end = how] ELSE NoBundle]

NoScan == [next |-> UpTo, active |-> FALSE, found |-> {}]

Scanning == scan.next < UpTo
\* The keeper takes the answer; nothing of it is kept.
ScanGoesOn == scan' = IF Scanning THEN scan ELSE NoScan

BackendInit ==
    /\ Init
    /\ allowance \in [Address -> [Tokens -> Allowances]]
    /\ bundle = [u \in Address |-> NoBundle]
    /\ scan = NoScan
    /\ owed = {} /\ ever = {}

-----------------------------------------------------------------------------
(* Preparing a bundle reads the vault and changes nothing there.            *)

\* amountPerSwap divides depositAmount for the estimate: BigInt division by 0 throws.
prepareCreateOrder(u, tokenIn, tokenOut, amountPerSwap, interval, limit, depositAmount) ==
    /\ Idle(u)
    /\ amountPerSwap # 0
    /\ LET approve == Call("approve", <<tokenIn, depositAmount>>)
           create == Call("createOrder", <<tokenIn, tokenOut, amountPerSwap, interval,
                                           limit, depositAmount>>)
           steps == IF allowance[u][tokenIn] < depositAmount
                      THEN <<approve, create>> ELSE <<create>>
       IN  bundle' = [bundle EXCEPT ![u] = Offer(steps, 0, FALSE)]
    /\ UNCHANGED <<vars, allowance>> /\ ScanGoesOn

\* Mutant of RefundSteps: no step for less than the price of a swap.
RefundStepsWholeSwaps(o) ==
    IF orders[o].balance >= orders[o].amountPerSwap
      THEN <<Call("withdraw", <<o>>)>> ELSE <<>>

RefundSteps(o) ==
    IF orders[o].balance > 0 THEN <<Call("withdraw", <<o>>)>> ELSE <<>>

\* ORDER_UNAUTHORIZED and ORDER_INACTIVE are the other answers.
prepareCancel(u, o, withdrawAfter) ==
    /\ Idle(u)
    /\ orders[o].owner = u
    /\ orders[o].active
    /\ LET refund == IF withdrawAfter THEN RefundSteps(o) ELSE <<>>
           steps == <<Call("cancel", <<o>>)>> \o refund
       IN  bundle' = [bundle EXCEPT ![u] = Offer(steps, o, withdrawAfter)]
    /\ UNCHANGED <<vars, allowance>> /\ ScanGoesOn

-----------------------------------------------------------------------------
(* The wallet signs.                                                       *)

Approves(u, token, amount) ==
    /\ allowance' = [allowance EXCEPT ![u][token] = amount]
    /\ UNCHANGED vars

\* transferFrom needs the allowance and uses it up.
Pays(u, token, amount) ==
    /\ allowance[u][token] >= amount
    /\ allowance' = [allowance EXCEPT ![u][token] = @ - amount]

\* What the next transaction of u's bundle does on chain.
Sends(u, step) ==
    LET a == step.args IN
    \/ step.call = "approve" /\ Approves(u, a[1], a[2])
    \/ /\ step.call = "createOrder"
       /\ createOrder(u, a[1], a[2], a[3], a[4], a[5], a[6]) /\ Pays(u, a[1], a[6])
    \/ step.call = "cancel" /\ cancel(u, a[1]) /\ UNCHANGED allowance
    \/ step.call = "withdraw" /\ withdraw(u, a[1]) /\ UNCHANGED allowance

sign(u) ==
    /\ ~Idle(u)
    /\ Sends(u, Head(bundle[u].steps))
    /\ IF Len(bundle[u].steps) = 1 THEN Ended(u, "done")
       ELSE bundle' = [bundle EXCEPT ![u].steps = Tail(@)]
    /\ ScanGoesOn

\* The vault's conditions for a step of a cancellation are not met.
Refuses(u, step) ==
    LET r == orders[step.args[1]] IN
    \/ step.call = "cancel" /\ ~(r.owner = u /\ r.active)
    \/ step.call = "withdraw" /\ ~(r.owner = u /\ r.balance # 0 /\ held[r.tokenIn] >= r.balance)

\* The transaction reverts, and the wallet stops.  (Of a creation that reverts nothing is
\* kept, as if it had been rejected.)
reverts(u) ==
    /\ ~Idle(u)
    /\ Refuses(u, Head(bundle[u].steps))
    /\ Ended(u, Head(bundle[u].steps).call)
    /\ UNCHANGED <<vars, allowance>> /\ ScanGoesOn

\* The user closes the wallet.
reject(u) ==
    /\ ~Idle(u)
    /\ bundle' = [bundle EXCEPT ![u] = NoBundle]
    /\ UNCHANGED <<vars, allowance>> /\ ScanGoesOn

-----------------------------------------------------------------------------
(* Meanwhile, without the backend.                                         *)

keeperExecutes ==
    /\ \E o \in OrderIds, arrived \in Outputs \cup {0} : execute(keeper, o, arrived)
    /\ UNCHANGED <<allowance, bundle>> /\ ScanGoesOn

\* The owner calls the vault from elsewhere; `late' remembers what a deposit adds to
\* the order of the bundle u is signing.
topUp(u, o, amount) ==
    /\ deposit(u, o, amount)
    /\ Pays(u, orders[o].tokenIn, amount)
    /\ bundle' = [bundle EXCEPT ![u].late =
                    IF ~Idle(u) /\ bundle[u].refund /\ bundle[u].order = o THEN @ + amount ELSE @]
    /\ ScanGoesOn

callDirectly(u, o) ==
    /\ cancel(u, o) \/ withdraw(u, o)
    /\ UNCHANGED <<allowance, bundle>> /\ ScanGoesOn

timePasses == Tick /\ UNCHANGED <<allowance, bundle>> /\ ScanGoesOn

-----------------------------------------------------------------------------
(* The scan: order by order, first the record, then isExecutable.          *)

NextOrder(found) == [next |-> scan.next + 1, active |-> FALSE, found |-> found]

readOrder ==
    /\ Scanning /\ ~scan.active
    /\ scan' = IF orders[scan.next].active THEN [scan EXCEPT !.active = TRUE]
               ELSE NextOrder(scan.found)
    /\ UNCHANGED <<vars, allowance, bundle>>

\* Mutant of askExecutable: isExecutable is not asked for an order that was active.
askNothing ==
    /\ Scanning /\ scan.active
    /\ scan' = NextOrder(scan.found \cup {scan.next})
    /\ UNCHANGED <<vars, allowance, bundle>>

askExecutable ==
    /\ Scanning /\ scan.active
    /\ scan' = NextOrder(IF isExecutable(scan.next) THEN scan.found \cup {scan.next}
                         ELSE scan.found)
    /\ UNCHANGED <<vars, allowance, bundle>>

\* Either read throws: the order is skipped.
readFails ==
    /\ Scanning
    /\ scan' = NextOrder(scan.found)
    /\ UNCHANGED <<vars, allowance, bundle>>

getExecutableOrders ==
    /\ ~Scanning
    /\ scan' = [NoScan EXCEPT !.next = 0]
    /\ UNCHANGED <<vars, allowance, bundle>>

Executable == {o \in OrderIds : isExecutable(o)}

\* Two history variables follow a scan from its first read to its last; an order that
\* could not be read is not owed.
Watch(unread) ==
    IF Scanning THEN /\ owed' = (owed \cap Executable') \ unread
                     /\ ever' = ever \cup Executable'
    ELSE IF Scanning' THEN owed' = Executable \cap 0 .. UpTo - 1 /\ ever' = Executable
    ELSE owed' = {} /\ ever' = {}

-----------------------------------------------------------------------------
\* What happens while `clients' use the backend to trade the tokens of `pairs'.
BackendNext(clients, pairs) ==
    \/ /\ \/ \E u \in clients :
                \/ \E p \in pairs, r \in Requests :
                      prepareCreateOrder(u, p[1], p[2], r[1], r[2], r[3], r[4])
                \/ \E o \in OrderIds :
                      \/ \E withdrawAfter \in BOOLEAN : prepareCancel(u, o, withdrawAfter)
                      \/ \E amount \in Deposits : topUp(u, o, amount)
                      \/ callDirectly(u, o)
                \/ sign(u) \/ reverts(u) \/ reject(u)
          \/ keeperExecutes \/ timePasses
          \/ getExecutableOrders \/ readOrder \/ askExecutable
       /\ Watch({})
    \/ readFails /\ Watch({scan.next})

\* Anyone may use the backend to trade any pair.
BackendSpec == BackendInit /\ [][BackendNext(Address, Tokens \X Tokens)]_backendVars

-----------------------------------------------------------------------------
(* Properties                                                              *)

BackendTypeOK ==
    /\ allowance \in [Address -> [Tokens -> Nat]]
    /\ \A u \in Address : bundle[u].end \in Ends /\ bundle[u].order \in OrderIds
    /\ scan.next \in 0 .. UpTo
    /\ scan.found \cup owed \cup ever \subseteq OrderIds

\* A cancellation with refund that ran to its end, or stopped at the withdrawal,
\* leaves an order that no keeper can execute and that holds no more than its owner
\* has put there since: whatever the keeper spent, and whatever the owner called
\* directly, between the backend's one look at the order and the last signature.
\* Where `cancel' itself reverts the order had ended on its own.
CancelPaysBack ==
    \A u \in Address :
        LET b == bundle[u]  r == orders[b.order] IN
        /\ b.end = "cancel" => ~r.active
        /\ b.end \in {"done", "withdraw"} => ~r.active /\ r.balance <= b.late

\* The keeper's scan reads an order's record and its isExecutable at different times
\* and skips what fails to load; still an answer lists every order below upTo that
\* could be executed all along and was read, and none that could not at any time.
ScanIsComplete ==
    ~Scanning => owed \subseteq scan.found /\ scan.found \subseteq ever
=============================================================================
