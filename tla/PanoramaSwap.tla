---------------------------- MODULE PanoramaSwap ----------------------------
(***************************************************************************)
(* contracts/avax/core/PanoramaSwap.sol: the swap contract all users       *)
(* share, which TraderJoeAdapter replaces.  The user calls it directly,    *)
(* having approved it; the router pays the user.                           *)
(***************************************************************************)
EXTENDS AvalancheProtocols

CONSTANT Swap   \* the contract itself

\* The caller's input, or the native value, and the router's swap with it.
SwapFor(w, user, r) ==
    LET Route(v) == SwapExact(v, Swap, r.path, r.amountIn, r.amountOutMin, user)
        t == r.path[1]
    IN  IF Has(w, t, user, r.amountIn) THEN Route(Move(w, t, user, Swap, r.amountIn)) ELSE {}

Acceptable(now, r) == Len(r.path) >= 2 /\ r.amountIn # 0 /\ now <= r.deadline

swapTokensForTokens(w, now, user, r) ==
    IF Acceptable(now, r) THEN SwapFor(w, user, r) ELSE {}

swapAVAXForTokens(w, now, user, r) ==
    IF Acceptable(now, r) /\ r.path[1] = Avax THEN SwapFor(w, user, r) ELSE {}

swapTokensForAVAX(w, now, user, r) ==
    IF Acceptable(now, r) /\ r.path[Len(r.path)] = Avax THEN SwapFor(w, user, r) ELSE {}

Dispatch(user, now, r, w) ==
    CASE r.action = "swapTokensForTokens" -> swapTokensForTokens(w, now, user, r)
      [] r.action = "swapAVAXForTokens" -> swapAVAXForTokens(w, now, user, r)
      [] r.action = "swapTokensForAVAX" -> swapTokensForAVAX(w, now, user, r)
=============================================================================
