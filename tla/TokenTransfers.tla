--------------------------- MODULE TokenTransfers ---------------------------
(***************************************************************************)
(* ERC-20 tokens and the native currency (external), as far as transfers   *)
(* go.  A world w is a record; w.balance is what every account has of      *)
(* every token, w.allowance what the executor may pull from a wallet.      *)
(***************************************************************************)
EXTENDS Integers

CONSTANTS
    AllTokens,      \* the tokens, the native currency among them
    Native          \* the native currency, which needs no allowance

Has(w, t, who, n) == w.balance[who][t] >= n

Move(w, t, from, to, n) ==
    [w EXCEPT !.balance[from][t] = @ - n, !.balance[to][t] = @ + n]

\* safeTransferFrom of every token paid, by the executor, and the native value.
TransferFrom(w, from, to, payment) ==
    LET paid == {t \in DOMAIN payment : payment[t] > 0}
        Allowed(t) == t = Native \/ w.allowance[from][t] >= payment[t]
        Of(t) == IF t \in paid THEN payment[t] ELSE 0
    IN  IF \A t \in paid : Has(w, t, from, payment[t]) /\ Allowed(t)
        THEN {[w EXCEPT
                !.balance[from] = [t \in AllTokens |-> @[t] - Of(t)],
                !.balance[to] = [t \in AllTokens |-> @[t] + Of(t)],
                !.allowance[from] = [t \in AllTokens |-> IF t = Native THEN @[t] ELSE @[t] - Of(t)]]}
        ELSE {}

\* The worlds f leads to from any of the worlds in ws.
AndThen(ws, f(_)) == UNION {f(w) : w \in ws}
=============================================================================
