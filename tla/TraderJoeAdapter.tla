-------------------------- MODULE TraderJoeAdapter --------------------------
(***************************************************************************)
(* contracts/avax/adapters/TraderJoeAdapter.sol: swaps through a user's    *)
(* adapter, in the form of BenqiLendAdapter.  The router pays the          *)
(* recipient itself.                                                       *)
(***************************************************************************)
EXTENDS AvalancheProtocols

\* Through WAVAX, unless one side is WAVAX.
PathOf(tokenIn, tokenOut) ==
    IF Avax \in {tokenIn, tokenOut} THEN <<tokenIn, tokenOut>>
                                    ELSE <<tokenIn, Avax, tokenOut>>

swap(w, self, r) ==
    IF r.amountIn = 0 THEN {}
    ELSE SwapExact(w, self, PathOf(r.tokenIn, r.tokenOut), r.amountIn, r.amountOutMin, r.recipient)

\* A path from WAVAX without value asks for WAVAX tokens, which no adapter holds.
swapWithPath(w, self, r) ==
    IF Len(r.path) < 2 \/ r.amountIn = 0 \/ (r.path[1] = Avax /\ r.value = 0) THEN {}
    ELSE SwapExact(w, self, r.path, r.amountIn, r.amountOutMin, r.recipient)

Dispatch(self, r, w) ==
    CASE r.action = "swap" -> swap(w, self, r)
      [] r.action = "swapWithPath" -> swapWithPath(w, self, r)
=============================================================================
