------------------------- MODULE AerodromeAdapterV2 -------------------------
(***************************************************************************)
(* contracts/aerodrome/adapters/AerodromeAdapterV2.sol: what the executor  *)
(* can call on a user's adapter.  The adapter has no state of its own but  *)
(* its configuration; each function maps a world to the worlds after it.   *)
(* self is the adapter, whose balance already holds what the executor      *)
(* pulled from the caller, and r the call with its arguments.              *)
(***************************************************************************)
EXTENDS AerodromeProtocol

swap(w, self, r) ==
    SwapExact(w, self, r.tokenIn, r.tokenOut, r.amountIn, r.amountOutMin, r.recipient)

\* Mutant of RefundIfExcess: what the router did not use stays in the adapter.
KeepExcess(w, t, self, desired, used, to) == {w}

RefundIfExcess(w, t, self, desired, used, to) ==
    IF desired <= used THEN {w}
    ELSE IF Has(w, t, self, desired - used) THEN {Move(w, t, self, to, desired - used)}
    ELSE {}

addLiquidity(w, self, r) ==
    LET used == QuoteAdd(w, r.amountA, r.amountB)
        RefundA(v) == RefundIfExcess(v, Weth, self, r.amountA, used.a, r.recipient)
        RefundB(v) == RefundIfExcess(v, Usdc, self, r.amountB, used.b, r.recipient)
    IN  AndThen(AndThen(
            AddToPool(w, self, r.amountA, r.amountB, r.minA, r.minB, r.recipient),
            RefundA), RefundB)

removeLiquidity(w, self, r) ==
    RemoveFromPool(w, self, r.liquidity, r.minA, r.minB, r.recipient)

stake(w, self, r) == GaugeDeposit(w, self, r.amount)

unstake(w, self, r) ==
    LET Forward(v) == {Move(v, Lp, self, r.recipient, r.amount)}
    IN  AndThen(GaugeWithdraw(w, self, r.amount), Forward)

\* Only what getReward paid is forwarded, not the adapter's balance.
claimRewards(w, self, r) ==
    LET paid == GaugeReward(w, self)
        rewardAmount == paid.balance[self][Aero] - w.balance[self][Aero]
    IN  {Move(paid, Aero, self, r.recipient, rewardAmount)}

\* adapter.call(bytes.concat(action, data)).
Dispatch(self, r, w) ==
    CASE r.action = "swap" -> swap(w, self, r)
      [] r.action = "addLiquidity" -> addLiquidity(w, self, r)
      [] r.action = "removeLiquidity" -> removeLiquidity(w, self, r)
      [] r.action = "stake" -> stake(w, self, r)
      [] r.action = "unstake" -> unstake(w, self, r)
      [] r.action = "claimRewards" -> claimRewards(w, self, r)
=============================================================================
