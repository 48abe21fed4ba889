---------------------------- MODULE SAVAXAdapter ----------------------------
(***************************************************************************)
(* contracts/avax/adapters/SAVAXAdapter.sol: the per-user proxy that       *)
(* replaces PanoramaLiquidStaking, in the form of BenqiLendAdapter.  sAVAX *)
(* keeps a list of unlock requests per proxy, w.requests[self]; the proxy  *)
(* keeps its own list of positions in that list, w.slots[self], which is   *)
(* its _unlockIndices.  A slot's id is history: the request it is for.     *)
(***************************************************************************)
EXTENDS AvalancheProtocols

stake(w, self, r) ==
    LET Forward(v) ==
            IF r.recipient = self THEN {v} ELSE {Move(v, SAvax, self, r.recipient, r.value)}
    IN  IF r.value = 0 THEN {} ELSE AndThen(Submit(w, self, r.value), Forward)

\* Mutant of NewSlot: the count is read after the request was pushed.
NewSlotAfterPush(w, self) == [index |-> Len(w.requests[self]) + 1, id |-> w.made + 1]

\* The contract-level index is the length of the list before the request is pushed.
NewSlot(w, self) == [index |-> Len(w.requests[self]), id |-> w.made + 1]

requestUnlock(w, self, r) ==
    IF r.sAvaxAmount = 0 THEN {}
    ELSE {[v EXCEPT !.slots[self] = Append(@, NewSlot(w, self))] :
            v \in RequestUnlock(w, self, r.sAvaxAmount)}

\* The last slot takes the place of the one redeemed; what sAVAX paid is forwarded.
redeem(w, self, r) ==
    IF r.unlockIndex >= Len(w.slots[self]) THEN {}
    ELSE LET contractIndex == w.slots[self][r.unlockIndex + 1].index
             popped == [w EXCEPT !.slots[self] = SwapAndPop(@, r.unlockIndex)]
             Forward(v) == {Move(v, Avax, self, r.recipient,
                                 v.balance[self][Avax] - w.balance[self][Avax])}
         IN  AndThen(RedeemUnlocked(popped, self, contractIndex), Forward)

Dispatch(self, r, w) ==
    CASE r.action = "stake" -> stake(w, self, r)
      [] r.action = "requestUnlock" -> requestUnlock(w, self, r)
      [] r.action = "redeem" -> redeem(w, self, r)
=============================================================================
