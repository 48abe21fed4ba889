----------------------- MODULE PanoramaLiquidStaking ------------------------
(***************************************************************************)
(* contracts/avax/liquid-staking/PanoramaLiquidStaking.sol: one contract   *)
(* stakes, unlocks and redeems for all its users.  At sAVAX there is one   *)
(* list of unlock requests for the contract; the contract remembers, for   *)
(* each user, the positions of that user's requests in that list.          *)
(*                                                                         *)
(* A function is a transaction, so it is one action; what reverts is not a *)
(* step.  The fields id and by, and the variables paid and reordered, are  *)
(* history: no guard reads them.                                           *)
(***************************************************************************)
EXTENDS StakedAvax

CONSTANTS
    Users,
    Amounts,        \* amounts users stake and unlock, 0 among them
    MaxStake,       \* bound: how much a user stakes in total
    MaxRequests     \* bound: how many unlock requests are made

VARIABLES
    staked,         \* history: what each user has staked
    shares,         \* sAVAX in the wallet of each user
    requests,       \* sAVAX's list of unlock requests of this contract
    made,           \* how many requests were ever made
    cooled,         \* the requests 1 .. cooled have cooled down
    _userUnlockIndices,     \* user -> the list of [index, id] slots
    paid,           \* history: [id, amount, by, to] of each redeemed request
    reordered       \* history: a request other than the last was redeemed

vars == <<staked, shares, requests, made, cooled, _userUnlockIndices, paid, reordered>>

Init ==
    /\ staked = [u \in Users |-> 0]
    /\ shares = [u \in Users |-> 0]
    /\ requests = <<>>
    /\ made = 0
    /\ cooled = 0
    /\ _userUnlockIndices = [u \in Users |-> <<>>]
    /\ paid = {}
    /\ reordered = FALSE

stake(u, value) ==
    /\ value # 0
    /\ staked[u] + value <= MaxStake
    /\ staked' = [staked EXCEPT ![u] = @ + value]
    /\ shares' = [shares EXCEPT ![u] = @ + value]
    /\ UNCHANGED <<requests, made, cooled, _userUnlockIndices, paid, reordered>>

\* Mutant of NewSlot: the count is read after the request was pushed.
NewSlotAfterPush(id) == [index |-> Len(requests) + 1, id |-> id]

\* The contract-level index is the length of the list before the request is pushed.
NewSlot(id) == [index |-> Len(requests), id |-> id]

requestUnlock(u, amount) ==
    /\ amount # 0
    /\ shares[u] >= amount
    /\ made < MaxRequests
    /\ made' = made + 1
    /\ shares' = [shares EXCEPT ![u] = @ - amount]
    /\ requests' = Append(requests, [id |-> made', amount |-> amount, by |-> u])
    /\ _userUnlockIndices' = [_userUnlockIndices EXCEPT ![u] =
                                 Append(@, NewSlot(made'))]
    /\ UNCHANGED <<staked, cooled, paid, reordered>>

PopSlot(u, userUnlockIndex) ==
    [_userUnlockIndices EXCEPT ![u] = SwapAndPop(@, userUnlockIndex)]

redeem(u, userUnlockIndex) ==
    LET indices == _userUnlockIndices[u] IN
    /\ userUnlockIndex < Len(indices)
    /\ LET contractIndex == indices[userUnlockIndex + 1].index IN
       /\ Redeemable(requests, contractIndex, cooled)
       /\ _userUnlockIndices' = PopSlot(u, userUnlockIndex)
       /\ requests' = SwapAndPop(requests, contractIndex)
       /\ paid' = paid \cup {[request |-> requests[contractIndex + 1], to |-> u]}
       /\ reordered' = (reordered \/ contractIndex + 1 < Len(requests))
    /\ UNCHANGED <<staked, shares, made, cooled>>

\* Time passes at sAVAX.
CoolDown ==
    /\ cooled < made
    /\ cooled' = cooled + 1
    /\ UNCHANGED <<staked, shares, requests, made, _userUnlockIndices, paid, reordered>>

Next ==
    \/ \E u \in Users :
          \/ \E amount \in Amounts : stake(u, amount) \/ requestUnlock(u, amount)
          \/ \E slot \in 0 .. MaxRequests : redeem(u, slot)
    \/ CoolDown

Spec == Init /\ [][Next]_vars

-----------------------------------------------------------------------------
(* Properties                                                              *)

\* The users have, taken together, exactly as many slots as the contract has requests:
\* removing a slot and redeeming a request always go together.
SlotForEachRequest ==
    Cardinality(UNION {{u} \X DOMAIN _userUnlockIndices[u] : u \in Users}) = Len(requests)

\* As long as requests were only redeemed last in, first out, every slot leads to the
\* request it was made for.  (Afterwards it need not: see OwnRequestOnly.)
SlotsExactUntilReordered ==
    ~reordered =>
        \A u \in Users : \A s \in DOMAIN _userUnlockIndices[u] :
            LET slot == _userUnlockIndices[u][s] IN
            /\ slot.index < Len(requests)
            /\ requests[slot.index + 1].id = slot.id
            /\ requests[slot.index + 1].by = u

\* PanoramaLiquidStaking.sol:24: "redeem(userIndex) uses the caller's own slot - no
\* cross-user theft possible": whoever redeems is paid for a request of their own.
OwnRequestOnly ==
    \A p \in paid : p.request.by = p.to
=============================================================================
