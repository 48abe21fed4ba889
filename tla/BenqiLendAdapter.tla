-------------------------- MODULE BenqiLendAdapter --------------------------
(***************************************************************************)
(* contracts/avax/adapters/BenqiLendAdapter.sol: a user's position at      *)
(* BENQI.  As in AerodromeAdapterV2, a function maps a world, in which the *)
(* adapter self already holds what the executor pulled from the caller and *)
(* the native value, to the worlds after it; r is the call.                *)
(***************************************************************************)
EXTENDS AvalancheProtocols

\* What self got of a token between w and v goes to the recipient.
Received(w, v, t, self) == v.balance[self][t] - w.balance[self][t]

ForwardMinted(w, v, q, self, to) ==
    IF to = self THEN {v} ELSE SendQTokens(v, q, self, to, Received(w, v, q, self))

supply(w, self, r) ==
    LET Forward(v) == ForwardMinted(w, v, r.qToken, self, r.recipient)
    IN  IF r.amount = 0 \/ ~HasUnderlying(r.qToken) THEN {}
        ELSE AndThen(Mint(w, self, r.qToken, r.amount), Forward)

\* Mutant of redeem: the underlying is not forwarded.
redeemOnly(w, self, r) == Redeem(w, self, r.qToken, r.qTokenAmount)

redeem(w, self, r) ==
    LET t == Underlying(r.qToken)
        Forward(v) == {Move(v, t, self, r.recipient, Received(w, v, t, self))}
    IN  IF r.qTokenAmount = 0 \/ ~HasUnderlying(r.qToken) THEN {}
        ELSE AndThen(Redeem(w, self, r.qToken, r.qTokenAmount), Forward)

\* enterMarkets and borrow: only the market borrowed from is entered.
BorrowFor(w, self, q, amount, to) ==
    LET Forward(v) == {Move(v, Underlying(q), self, to, amount)}
    IN  AndThen(Borrow(EnterMarkets(w, self, {q}), self, q, amount), Forward)

borrow(w, self, r) ==
    IF r.amount = 0 \/ ~HasUnderlying(r.qToken) THEN {}
    ELSE BorrowFor(w, self, r.qToken, r.amount, r.recipient)

\* Mutant of repay: a debt cannot be repaid to the last unit.
repayNeverAll(w, self, r) ==
    IF r.amount >= w.debt[self][r.qToken] THEN {}
    ELSE RepayBorrow(w, self, r.qToken, r.amount)

repay(w, self, r) ==
    IF r.amount = 0 \/ ~HasUnderlying(r.qToken) THEN {}
    ELSE RepayBorrow(w, self, r.qToken, r.amount)

supplyAVAX(w, self, r) ==
    LET Forward(v) == ForwardMinted(w, v, QiAvax, self, r.recipient)
    IN  IF r.value = 0 THEN {} ELSE AndThen(Mint(w, self, QiAvax, r.value), Forward)

\* The whole native balance is sent, not what redeem paid.
redeemAVAX(w, self, r) ==
    LET Forward(v) == {Move(v, Avax, self, r.recipient, v.balance[self][Avax])}
    IN  IF r.qTokenAmount = 0 THEN {}
        ELSE AndThen(Redeem(w, self, QiAvax, r.qTokenAmount), Forward)

borrowAVAX(w, self, r) ==
    IF r.amount = 0 THEN {} ELSE BorrowFor(w, self, QiAvax, r.amount, r.recipient)

repayAVAX(w, self, r) ==
    IF r.value = 0 THEN {} ELSE RepayBorrow(w, self, QiAvax, r.value)

enterMarkets(w, self, r) == {EnterMarkets(w, self, r.qTokens)}

exitMarket(w, self, r) == {ExitMarket(w, self, r.qToken)}

Dispatch(self, r, w) ==
    CASE r.action = "supply" -> supply(w, self, r)
      [] r.action = "redeem" -> redeem(w, self, r)
      [] r.action = "borrow" -> borrow(w, self, r)
      [] r.action = "repay" -> repay(w, self, r)
      [] r.action = "supplyAVAX" -> supplyAVAX(w, self, r)
      [] r.action = "redeemAVAX" -> redeemAVAX(w, self, r)
      [] r.action = "borrowAVAX" -> borrowAVAX(w, self, r)
      [] r.action = "repayAVAX" -> repayAVAX(w, self, r)
      [] r.action = "enterMarkets" -> enterMarkets(w, self, r)
      [] r.action = "exitMarket" -> exitMarket(w, self, r)
=============================================================================
