------------------------------ MODULE Avalanche -------------------------------
(***************************************************************************)
(* The Avalanche side: wallets act through their proxies and the executor  *)
(* (AvaxStrategies), or stake through the shared contract they replace     *)
(* (PanoramaLiquidStaking).  At sAVAX the two have separate accounts, so   *)
(* neither can notice the other, and a behaviour is about one of them.     *)
(***************************************************************************)
EXTENDS AvaxStrategies

CONSTANTS
    Amounts, MaxStake       \* of the shared contract

ASSUME AvalancheAssumption == Amounts \subseteq Nat /\ MaxStake \in Nat

VARIABLES
    staked, shares, requests, made, cooled, _userUnlockIndices,
    paid, reordered,        \* the shared contract
    through                 \* what the behaviour is about

Pool == INSTANCE PanoramaLiquidStaking

poolVars == <<staked, shares, requests, made, cooled, _userUnlockIndices, paid, reordered>>
avalancheVars == <<vars, poolVars, through>>

AvalancheInit ==
    /\ Init
    /\ Pool!Init
    /\ through \in {"proxies", "shared contract"}

AvalancheNext ==
    /\ \/ through = "proxies" /\ Next /\ UNCHANGED poolVars
       \/ through = "shared contract" /\ Pool!Next /\ UNCHANGED vars
    /\ UNCHANGED through

AvalancheSpec == AvalancheInit /\ [][AvalancheNext]_avalancheVars

-----------------------------------------------------------------------------
(* Properties                                                              *)

\* As long as requests were only redeemed last in, first out, every slot of a proxy or of
\* a user of the shared contract leads to the request it was made for, and there are as
\* many slots as requests.  (Afterwards it need not: see OwnRequestOnly.)
SlotsLeadToRequests ==
    /\ SlotsExactUntilReordered
    /\ Pool!SlotsExactUntilReordered
    /\ Pool!SlotForEachRequest
=============================================================================
