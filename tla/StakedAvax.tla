----------------------------- MODULE StakedAvax -----------------------------
(***************************************************************************)
(* The part of BENQI's sAVAX contract the wrappers rely on (external; the  *)
(* interface is contracts/avax/interfaces/IStakedAvax.sol, the behaviour   *)
(* is that of test/avax/mocks/MockStakedAvax.sol).  An account has a list  *)
(* of unlock requests, addressed by position; redeeming one moves the last *)
(* request into its place.  Positions count from 0 in Solidity: contract   *)
(* index i is position i + 1 of the sequence.  The exchange rate is 1.     *)
(***************************************************************************)
EXTENDS Integers, Sequences, FiniteSets

\* An unlock request: its amount, and (history) a serial number and who it is for.
Request(ids, accounts) == [id : ids, amount : Nat \ {0}, by : accounts]

\* Swap with the last element and pop: how sAVAX, and the wrappers for their own
\* lists, remove the element at index.
SwapAndPop(list, index) ==
    [j \in 1 .. Len(list) - 1 |-> IF j = index + 1 THEN list[Len(list)] ELSE list[j]]

\* All requests cool down for the same time, so they become redeemable in the order
\* they were made: those with a serial number up to cooled are.
Redeemable(requests, index, cooled) ==
    /\ index < Len(requests)
    /\ requests[index + 1].id <= cooled
=============================================================================
