--------------------------- MODULE BundleBuilder ----------------------------
(***************************************************************************)
(* backend/src/shared/bundle-builder.ts: the steps a bundle consists of.   *)
(* A step is an approval of the executor or a call of its execute, with    *)
(* the payment the executor pulls, and the native value, as a function     *)
(* from tokens to amounts.                                                 *)
(***************************************************************************)
EXTENDS Integers, Sequences

CONSTANT slippageBps    \* slippage of every request

applySlippage(amount) == (amount * (10000 - slippageBps)) \div 10000

Pay(token, amount) == [t \in {token} |-> amount]

ApproveStep(token, amount) == [kind |-> "approve", token |-> token, amount |-> amount]

ExecuteStep(protocol, call, payment, deadline) ==
    [kind |-> "execute", protocol |-> protocol, call |-> call, payment |-> payment,
     deadline |-> deadline]

\* Mutant of addApproveIfNeeded: an allowance of any size will do.
ApproveIfNone(token, currentAllowance, required) ==
    IF currentAllowance = 0 THEN <<ApproveStep(token, required)>> ELSE <<>>

addApproveIfNeeded(token, currentAllowance, required) ==
    IF currentAllowance < required THEN <<ApproveStep(token, required)>> ELSE <<>>
=============================================================================
