---------------------------- MODULE PanoramaLend ----------------------------
(***************************************************************************)
(* contracts/avax/lending/PanoramaLend.sol: the lending contract all users *)
(* share, which BenqiLendAdapter replaces.  The user calls it directly,    *)
(* having approved it; what a user redeems or mints is the contract's      *)
(* whole balance.  PanoramaLend (Lend) is itself the borrower at BENQI.    *)
(***************************************************************************)
EXTENDS AvalancheProtocols

CONSTANT Lend

\* safeTransferFrom(msg.sender, address(this), amount), or the native value.
Take(w, t, user, n) == IF Has(w, t, user, n) THEN {Move(w, t, user, Lend, n)} ELSE {}

PayAll(w, t, user) == {Move(w, t, Lend, user, w.balance[Lend][t])}

SupplyTo(w, user, q, amount) ==
    LET MintQ(v) == Mint(v, Lend, q, amount)
        Forward(v) == SendQTokens(v, q, Lend, user, v.balance[Lend][q])
    IN  AndThen(AndThen(Take(w, Underlying(q), user, amount), MintQ), Forward)

RedeemFor(w, user, q, n) ==
    LET RedeemQ(v) == Redeem(v, Lend, q, n)
        Forward(v) == PayAll(v, Underlying(q), user)
    IN  AndThen(AndThen(Take(w, q, user, n), RedeemQ), Forward)

BorrowFor(w, user, q, amount) ==
    LET Forward(v) == {Move(v, Underlying(q), Lend, user, amount)}
    IN  AndThen(Borrow(EnterMarkets(w, Lend, {q}), Lend, q, amount), Forward)

RepayFrom(w, user, q, amount) ==
    LET Repay(v) == RepayBorrow(v, Lend, q, amount)
    IN  AndThen(Take(w, Underlying(q), user, amount), Repay)

supply(w, user, r) ==
    IF r.amount = 0 \/ ~HasUnderlying(r.qToken) THEN {} ELSE SupplyTo(w, user, r.qToken, r.amount)

redeem(w, user, r) ==
    IF r.amount = 0 \/ ~HasUnderlying(r.qToken) THEN {} ELSE RedeemFor(w, user, r.qToken, r.amount)

borrow(w, user, r) ==
    IF r.amount = 0 \/ ~HasUnderlying(r.qToken) THEN {} ELSE BorrowFor(w, user, r.qToken, r.amount)

repay(w, user, r) ==
    IF r.amount = 0 \/ ~HasUnderlying(r.qToken) THEN {} ELSE RepayFrom(w, user, r.qToken, r.amount)

\* The native twins: the amount of supplyAVAX and repayAVAX is msg.value.
supplyAVAX(w, user, r) == IF r.amount = 0 THEN {} ELSE SupplyTo(w, user, QiAvax, r.amount)
redeemAVAX(w, user, r) == IF r.amount = 0 THEN {} ELSE RedeemFor(w, user, QiAvax, r.amount)
borrowAVAX(w, user, r) == IF r.amount = 0 THEN {} ELSE BorrowFor(w, user, QiAvax, r.amount)
repayAVAX(w, user, r) == IF r.amount = 0 THEN {} ELSE RepayFrom(w, user, QiAvax, r.amount)

Dispatch(user, r, w) ==
    CASE r.action = "supply" -> supply(w, user, r)
      [] r.action = "redeem" -> redeem(w, user, r)
      [] r.action = "borrow" -> borrow(w, user, r)
      [] r.action = "repay" -> repay(w, user, r)
      [] r.action = "supplyAVAX" -> supplyAVAX(w, user, r)
      [] r.action = "redeemAVAX" -> redeemAVAX(w, user, r)
      [] r.action = "borrowAVAX" -> borrowAVAX(w, user, r)
      [] r.action = "repayAVAX" -> repayAVAX(w, user, r)
=============================================================================
