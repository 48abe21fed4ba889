----------------------- MODULE MCTransactionEvidence ------------------------
(* Instances of TransactionEvidence for TLC: a bundle of two steps.        *)
EXTENDS TransactionEvidence, TLC

CONSTANTS hash0, hash1, one, two

Submit(s, h) == [op |-> "submit", step |-> s, hash |-> h]
Verify(s) == [op |-> "verify", step |-> s]
Outcome(o) == [op |-> "outcome", outcome |-> o]
Export == [op |-> "export"]

\* A wallet that broadcasts one transaction per step.
OneHashPerStep ==
    {Submit(0, hash0), Submit(1, hash1), Verify(0),
     Outcome("partially-executed"), Outcome("cancelled-before-submission"), Export}

\* A wallet that replaces the transaction of step 0.
Replacement == {Submit(0, hash0), Submit(0, hash1)}

Same == Permutations({one, two})
=============================================================================
