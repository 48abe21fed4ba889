------------------------------ MODULE MCBackend -------------------------------
(* An instance of Backend for TLC.                                         *)
EXTENDS Backend

CONSTANTS c1, c2, f1, f2, alice, bob

\* The window of prepare-* requests is the shortest, and the limit of an address the highest.
windows == [t \in Tiers |-> IF t = "prepare" THEN 1 ELSE 2]
limits == [t \in Tiers |-> IF t = "ip" THEN 3 ELSE IF t = "user" THEN 2 ELSE 1]

Same == Permutations({c1, c2}) \cup Permutations({f1, f2}) \cup Permutations({alice, bob})
=============================================================================
