---------------------------- MODULE MCDCASystem -----------------------------
(* An instance of DCASystem for TLC.                                       *)
EXTENDS DCASystem

UsdcToWeth == {<<Usdc, Weth>>}
=============================================================================
