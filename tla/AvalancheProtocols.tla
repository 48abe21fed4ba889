------------------------ MODULE AvalancheProtocols --------------------------
(***************************************************************************)
(* What lies outside Panorama's contracts on Avalanche (external): the     *)
(* lending markets of BENQI with their comptroller, two Trader Joe pairs   *)
(* and sAVAX, as contracts/avax/interfaces and test/avax/mocks describe    *)
(* them, and BENQI's checks, which follow Compound's.                      *)
(*                                                                         *)
(* A world is a record: balance and allowance as in TokenTransfers; rate   *)
(* of each market, the underlying in 1/Scale a qToken is worth; debt and   *)
(* entered markets of every borrower; requests, sAVAX's list of unlock     *)
(* requests of every account, slots, what the account's adapter remembers  *)
(* of it, and the counters made and cooled.  Prices are 1 for BENQI's      *)
(* oracle and for sAVAX, and those of constant-product pairs at Trader     *)
(* Joe.  A contract that holds tokens is an account under its own name.    *)
(* WAVAX is not told apart from the native Avax.                           *)
(***************************************************************************)
EXTENDS StakedAvax

CONSTANTS
    Avax, Usdc, SAvax,      \* tokens, Avax the native one
    QiAvax, QiUsdc,         \* BENQI's markets and their qTokens
    JoeUsdc, JoeSAvax,      \* Trader Joe's pairs of Usdc and of SAvax with Avax
    Scale

AllTokens == {Avax, Usdc, SAvax, QiAvax, QiUsdc}

INSTANCE TokenTransfers WITH Native <- Avax

NoTokens == [t \in AllTokens |-> 0]

-----------------------------------------------------------------------------
(* BENQI                                                                   *)

Markets == {QiAvax, QiUsdc}

\* qiAVAX has no underlying(): the ERC-20 functions revert on it.
HasUnderlying(q) == q # QiAvax
Underlying(q) == IF q = QiAvax THEN Avax ELSE Usdc

Worth(w, q, n) == (n * w.rate[q]) \div Scale

\* What an account may borrow against, of one market.
Backing(w, who, q) == IF q \in w.entered[who] THEN Worth(w, q, w.balance[who][q]) ELSE 0

\* Half of the collateral in the markets entered may be borrowed.
Healthy(w, who) ==
    2 * (w.debt[who][QiAvax] + w.debt[who][QiUsdc])
        <= Backing(w, who, QiAvax) + Backing(w, who, QiUsdc)

\* After qTokens left an account, by redemption or by transfer.
StillBacked(w, who, q) == q \in w.entered[who] => Healthy(w, who)

Mint(w, who, q, n) ==
    IF Has(w, Underlying(q), who, n)
    THEN {[Move(w, Underlying(q), who, q, n) EXCEPT !.balance[who][q] = @ + (n * Scale) \div w.rate[q]]}
    ELSE {}

Redeem(w, who, q, n) ==
    LET paid == Worth(w, q, n)
        after == [Move(w, Underlying(q), q, who, paid) EXCEPT !.balance[who][q] = @ - n]
    IN  IF Has(w, q, who, n) /\ Has(w, Underlying(q), q, paid) /\ StillBacked(after, who, q)
        THEN {after} ELSE {}

\* The transfer of a borrower's qTokens.
SendQTokens(w, q, from, to, n) ==
    LET after == Move(w, q, from, to, n)
    IN  IF Has(w, q, from, n) /\ StillBacked(after, from, q) THEN {after} ELSE {}

Borrow(w, who, q, n) ==
    LET after == [Move(w, Underlying(q), q, who, n) EXCEPT !.debt[who][q] = @ + n]
    IN  IF Has(w, Underlying(q), q, n) /\ Healthy(after, who) THEN {after} ELSE {}

RepayBorrow(w, who, q, n) ==
    IF Has(w, Underlying(q), who, n) /\ n <= w.debt[who][q]
    THEN {[Move(w, Underlying(q), who, q, n) EXCEPT !.debt[who][q] = @ - n]} ELSE {}

EnterMarkets(w, who, qs) == [w EXCEPT !.entered[who] = @ \cup qs]

\* Refused with an error code while the market is needed or owed to.
ExitMarket(w, who, q) ==
    LET after == [w EXCEPT !.entered[who] = @ \ {q}]
    IN  IF w.debt[who][q] = 0 /\ Healthy(after, who) THEN after ELSE w

\* Interest of one market: its qTokens gain value, its debts grow.
Accrue(w, q) ==
    LET Grown(n) == n + (n \div w.rate[q])
    IN  [w EXCEPT !.rate[q] = @ + 1,
                  !.debt = [who \in DOMAIN @ |-> [w.debt[who] EXCEPT ![q] = Grown(@)]]]

-----------------------------------------------------------------------------
(* Trader Joe: a path has one or two hops, each of them with Avax          *)

Pair(a, b) == IF SAvax \in {a, b} THEN JoeSAvax ELSE JoeUsdc

Paths == {<<Usdc, Avax>>, <<Avax, Usdc>>, <<SAvax, Avax>>, <<Avax, SAvax>>,
          <<Usdc, Avax, SAvax>>, <<SAvax, Avax, Usdc>>}

Out(w, a, b, n) ==
    (n * w.balance[Pair(a, b)][b]) \div (w.balance[Pair(a, b)][a] + n)

AmountsOut(w, path, n) ==
    LET first == Out(w, path[1], path[2], n)
    IN  IF Len(path) = 2 THEN <<n, first>> ELSE <<n, first, Out(w, path[2], path[3], first)>>

\* swapExact...For...: from the adapter through the pairs to the recipient.
SwapExact(w, from, path, n, amountOutMin, to) ==
    LET amounts == AmountsOut(w, path, n)
        hops == Len(path) - 1
        Account(i) == IF i <= hops THEN Pair(path[i], path[i + 1]) ELSE to
        paid == Move(w, path[1], from, Account(1), n)
        Pass(v, i) == Move(v, path[i + 1], Account(i), Account(i + 1), amounts[i + 1])
    IN  IF /\ Has(w, path[1], from, n) /\ amounts[Len(path)] >= amountOutMin
           /\ \A i \in DOMAIN amounts : amounts[i] > 0
        THEN {IF hops = 1 THEN Pass(paid, 1) ELSE Pass(Pass(paid, 1), 2)} ELSE {}

-----------------------------------------------------------------------------
(* sAVAX                                                                   *)

Submit(w, who, n) ==
    IF Has(w, Avax, who, n)
    THEN {[Move(w, Avax, who, SAvax, n) EXCEPT !.balance[who][SAvax] = @ + n]} ELSE {}

RequestUnlock(w, who, n) ==
    LET request == [id |-> w.made + 1, amount |-> n, by |-> who]
    IN  IF Has(w, SAvax, who, n)
        THEN {[Move(w, SAvax, who, SAvax, n) EXCEPT
                !.requests[who] = Append(@, request), !.made = @ + 1]} ELSE {}

\* The shares are burnt; a request that is not the last leaves its place to the last.
RedeemUnlocked(w, who, index) ==
    LET n == w.requests[who][index + 1].amount
    IN  IF /\ Redeemable(w.requests[who], index, w.cooled)
           /\ Has(w, Avax, SAvax, n) /\ Has(w, SAvax, SAvax, n)
        THEN {[Move(w, Avax, SAvax, who, n) EXCEPT
                !.balance[SAvax][SAvax] = @ - n,
                !.requests[who] = SwapAndPop(@, index),
                !.reordered = IF index + 1 < Len(w.requests[who]) THEN @ \cup {who} ELSE @]}
        ELSE {}
=============================================================================
