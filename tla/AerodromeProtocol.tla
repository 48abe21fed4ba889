------------------------- MODULE AerodromeProtocol --------------------------
(***************************************************************************)
(* What lies outside Panorama's contracts on Base (external): ERC-20       *)
(* tokens, one volatile Aerodrome pool of Weth and Usdc, its LP token and  *)
(* its gauge, as contracts/aerodrome/interfaces describes them.            *)
(*                                                                         *)
(* A world is a record: balance of every account in every token, allowance *)
(* of every user for the executor, supply of the LP token, what each       *)
(* account staked in the gauge and the rewards it earned there.  The       *)
(* pool's reserves are its own balances, with the constant-product price   *)
(* and no fee.  An operator that may revert yields a set of worlds, empty  *)
(* when it does.                                                           *)
(***************************************************************************)
EXTENDS Integers, FiniteSetsExt

CONSTANTS
    Weth, Usdc,     \* the tokens of the pool
    Lp,             \* its LP token
    Aero,           \* the gauge's reward token
    Native,         \* ether, which the router wraps into Weth
    Pool            \* the pool's account

AllTokens == {Weth, Usdc, Lp, Aero, Native}

Wrapped(t) == IF t = Native THEN Weth ELSE t

INSTANCE TokenTransfers

Reserve(w, t) == w.balance[Pool][t]

\* getAmountsOut: amountIn of one token of the pool for the other.
AmountOut(w, tokenIn, tokenOut, amountIn) ==
    LET in == Wrapped(tokenIn)  out == Wrapped(tokenOut)
    IN  (amountIn * Reserve(w, out)) \div (Reserve(w, in) + amountIn)

\* The router's swaps: the input comes out of `from', the output goes to `to'.
SwapExact(w, from, tokenIn, tokenOut, amountIn, amountOutMin, to) ==
    LET out == AmountOut(w, tokenIn, tokenOut, amountIn)
        \* Ether is wrapped on its way in and unwrapped on its way out.
        in == [w EXCEPT !.balance[from][tokenIn] = @ - amountIn,
                        !.balance[Pool][Wrapped(tokenIn)] = @ + amountIn]
    IN  IF /\ Wrapped(tokenIn) # Wrapped(tokenOut)
           /\ amountIn > 0 /\ Has(w, tokenIn, from, amountIn)
           /\ out > 0 /\ out >= amountOutMin
        THEN {[in EXCEPT !.balance[Pool][Wrapped(tokenOut)] = @ - out,
                         !.balance[to][tokenOut] = @ + out]}
        ELSE {}

\* quoteAddLiquidity: the largest amounts in the pool's proportion, and their LP.
QuoteAdd(w, amountA, amountB) ==
    LET bForA == (amountA * Reserve(w, Usdc)) \div Reserve(w, Weth)
        aForB == (amountB * Reserve(w, Weth)) \div Reserve(w, Usdc)
        a == IF bForA <= amountB THEN amountA ELSE aForB
        b == IF bForA <= amountB THEN bForA ELSE amountB
    IN  [a |-> a, b |-> b,
         lp |-> Min({(a * w.supply) \div Reserve(w, Weth), (b * w.supply) \div Reserve(w, Usdc)})]

\* The pool's share for an amount of LP.
QuoteRemove(w, lp) == [a |-> (lp * Reserve(w, Weth)) \div w.supply,
                       b |-> (lp * Reserve(w, Usdc)) \div w.supply]

AddToPool(w, from, amountA, amountB, minA, minB, to) ==
    LET q == QuoteAdd(w, amountA, amountB)
    IN  IF /\ q.lp > 0 /\ q.a >= minA /\ q.b >= minB
           /\ Has(w, Weth, from, q.a) /\ Has(w, Usdc, from, q.b)
        THEN {[Move(Move(w, Weth, from, Pool, q.a), Usdc, from, Pool, q.b) EXCEPT
                !.balance[to][Lp] = @ + q.lp, !.supply = @ + q.lp]}
        ELSE {}

RemoveFromPool(w, from, lp, minA, minB, to) ==
    LET q == QuoteRemove(w, lp)
    IN  IF /\ Has(w, Lp, from, lp) /\ q.a > 0 /\ q.b > 0 /\ q.a >= minA /\ q.b >= minB
        THEN {[Move(Move(w, Weth, Pool, to, q.a), Usdc, Pool, to, q.b) EXCEPT
                !.balance[from][Lp] = @ - lp, !.supply = @ - lp]}
        ELSE {}

\* The gauge.
GaugeDeposit(w, who, n) ==
    IF n > 0 /\ Has(w, Lp, who, n)
      THEN {[w EXCEPT !.balance[who][Lp] = @ - n, !.staked[who] = @ + n]} ELSE {}

GaugeWithdraw(w, who, n) ==
    IF n > 0 /\ w.staked[who] >= n
      THEN {[w EXCEPT !.balance[who][Lp] = @ + n, !.staked[who] = @ - n]} ELSE {}

GaugeReward(w, who) ==
    [w EXCEPT !.balance[who][Aero] = @ + w.earned[who], !.earned[who] = 0]
=============================================================================
