--------------------------- MODULE AvalancheProofs ----------------------------
(***************************************************************************)
(* What the Avalanche contracts keep, for whom, and where the slots of     *)
(* unlock requests lead, for any number of users, sessions, requests and   *)
(* amounts.                                                                *)
(***************************************************************************)
EXTENDS Avalanche, FiniteSetTheorems, TLAPS

-----------------------------------------------------------------------------
(* Lists from which one element is popped                                  *)

\* Where the element at position j came from when the one at index was removed.
Source(list, index, j) == IF j = index + 1 THEN Len(list) ELSE j

\* The others stay, each of them once.
LEMMA Popped ==
  ASSUME NEW S, NEW list \in Seq(S), NEW index \in Nat, index < Len(list)
  PROVE  LET p == SwapAndPop(list, index) IN
         /\ p \in Seq(S) /\ Len(p) = Len(list) - 1
         /\ \A j \in 1 .. Len(p) :
              /\ Source(list, index, j) \in (1 .. Len(list)) \ {index + 1}
              /\ p[j] = list[Source(list, index, j)]
              /\ \A k \in 1 .. Len(p) :
                   j # k => Source(list, index, j) # Source(list, index, k)
<1> DEFINE n == Len(list)
           p == [j \in 1 .. n - 1 |-> IF j = index + 1 THEN list[n] ELSE list[j]]
<1>1. n \in Nat \ {0} /\ \A j \in 1 .. n : list[j] \in S
  OBVIOUS
<1>2. p = SwapAndPop(list, index)
  BY DEF SwapAndPop
<1>3. p \in [1 .. n - 1 -> S]
  BY <1>1
<1>4. p \in Seq(S) /\ Len(p) = n - 1
  BY <1>1, <1>3
<1>5. \A j \in 1 .. n - 1 : p[j] = IF j = index + 1 THEN list[n] ELSE list[j]
  OBVIOUS
<1> HIDE DEF p, n
<1>6. index + 1 <= n
  BY <1>1 DEF n
<1>7. \A j \in 1 .. n - 1 : p[j] = list[IF j = index + 1 THEN n ELSE j]
  BY <1>5
<1>8. \A j \in 1 .. n - 1 : Source(list, index, j) = IF j = index + 1 THEN n ELSE j
  BY DEF Source, n
<1>9. \A j \in 1 .. n - 1 : /\ p[j] = list[Source(list, index, j)]
                            /\ Source(list, index, j) \in (1 .. n) \ {index + 1}
                            /\ \A k \in 1 .. n - 1 :
                                 j # k => Source(list, index, j) # Source(list, index, k)
  BY <1>1, <1>6, <1>7, <1>8
<1> QED
  BY <1>2, <1>4, <1>9 DEF n

\* A list grown by one element.
LEMMA Appended ==
  ASSUME NEW S, NEW list \in Seq(S), NEW x \in S
  PROVE  /\ Append(list, x) \in Seq(S) /\ Len(Append(list, x)) = Len(list) + 1
         /\ Append(list, x)[Len(list) + 1] = x
         /\ \A i \in 1 .. Len(list) : Append(list, x)[i] = list[i]
OBVIOUS

-----------------------------------------------------------------------------
(* The shared contract                                                     *)

PoolSlots == UNION {{u} \X DOMAIN _userUnlockIndices[u] : u \in Users}

Slot == [index : Nat, id : Nat]

\* Every slot leads to its request, and no two to the same.
PoolExact ==
    /\ \A u \in Users : \A s \in DOMAIN _userUnlockIndices[u] :
         LET slot == _userUnlockIndices[u][s] IN
         /\ slot.index < Len(requests)
         /\ requests[slot.index + 1].id = slot.id
         /\ requests[slot.index + 1].by = u
    /\ \A u, v \in Users : \A i \in DOMAIN _userUnlockIndices[u] :
         \A j \in DOMAIN _userUnlockIndices[v] :
           _userUnlockIndices[u][i].index = _userUnlockIndices[v][j].index => u = v /\ i = j

PoolInv ==
    /\ requests \in Seq([id : Nat, amount : Nat, by : Users]) /\ made \in Nat
    /\ _userUnlockIndices \in [Users -> Seq(Slot)]
    /\ reordered \in BOOLEAN
    /\ IsFiniteSet(PoolSlots) /\ Cardinality(PoolSlots) = Len(requests)
    /\ ~reordered => PoolExact

\* There are no slots and no requests at the start.
LEMMA PoolInitInv == Pool!Init => PoolInv
<1> SUFFICES ASSUME Pool!Init PROVE PoolInv
  OBVIOUS
<1>1. /\ requests = <<>> /\ made = 0 /\ _userUnlockIndices = [u \in Users |-> <<>>]
      /\ reordered = FALSE
  BY DEF Pool!Init
<1>2. _userUnlockIndices \in [Users -> Seq(Slot)] /\ \A u \in Users : DOMAIN _userUnlockIndices[u] = {}
  BY <1>1
<1>3. PoolSlots = {}
  BY <1>2 DEF PoolSlots
<1>4. IsFiniteSet(PoolSlots) /\ Cardinality(PoolSlots) = 0
  BY <1>3, FS_EmptySet
<1>5. PoolExact
  BY <1>2 DEF PoolExact
<1>6. requests \in Seq([id : Nat, amount : Nat, by : Users]) /\ Len(requests) = 0
  BY <1>1
<1> QED
  BY <1>1, <1>2, <1>4, <1>5, <1>6 DEF PoolInv

\* A new request comes with a new slot.
LEMMA PoolRequestKeepsInv ==
  ASSUME PoolInv, NEW u \in Users, NEW amount \in Amounts, Pool!requestUnlock(u, amount)
  PROVE  PoolInv'
<1> DEFINE old == _userUnlockIndices
           slot == [index |-> Len(requests), id |-> made + 1]
           req == [id |-> made + 1, amount |-> amount, by |-> u]
           grown == Append(old[u], slot)
<1>1. /\ made' = made + 1 /\ requests' = Append(requests, req)
      /\ _userUnlockIndices' = [old EXCEPT ![u] = grown] /\ reordered' = reordered
  BY DEF Pool!requestUnlock, Pool!NewSlot
<1>2. /\ requests \in Seq([id : Nat, amount : Nat, by : Users]) /\ made \in Nat
      /\ old \in [Users -> Seq(Slot)] /\ old[u] \in Seq(Slot)
      /\ reordered \in BOOLEAN /\ amount \in Nat
  BY AvalancheAssumption DEF PoolInv
<1>3. slot \in Slot /\ req \in [id : Nat, amount : Nat, by : Users] /\ Len(requests) \in Nat
      /\ slot.index = Len(requests) /\ slot.id = req.id /\ req.by = u
  BY <1>2 DEF Slot
<1> HIDE DEF slot, req
<1>4. /\ requests' \in Seq([id : Nat, amount : Nat, by : Users])
      /\ Len(requests') = Len(requests) + 1 /\ requests'[Len(requests) + 1] = req
      /\ \A i \in 1 .. Len(requests) : requests'[i] = requests[i]
  BY <1>1, <1>2, <1>3, Appended
<1>5. /\ grown \in Seq(Slot) /\ Len(grown) = Len(old[u]) + 1 /\ grown[Len(old[u]) + 1] = slot
      /\ \A i \in 1 .. Len(old[u]) : grown[i] = old[u][i]
  BY <1>2, <1>3, Appended
<1> HIDE DEF grown
<1>6. /\ _userUnlockIndices' \in [Users -> Seq(Slot)] /\ _userUnlockIndices'[u] = grown
      /\ \A v \in Users \ {u} : _userUnlockIndices'[v] = old[v]
  BY <1>1, <1>2, <1>5
<1>7. /\ Len(old[u]) \in Nat /\ DOMAIN grown = 1 .. Len(old[u]) + 1
      /\ \A v \in Users : DOMAIN old[v] = 1 .. Len(old[v])
  BY <1>2, <1>5
<1>8. PoolSlots' = PoolSlots \cup {<<u, Len(old[u]) + 1>>} /\ <<u, Len(old[u]) + 1>> \notin PoolSlots
  <2>1. DOMAIN grown = DOMAIN old[u] \cup {Len(old[u]) + 1} /\ Len(old[u]) + 1 \notin DOMAIN old[u]
    BY <1>7
  <2> QED
    BY <1>6, <2>1 DEF PoolSlots
<1>9. IsFiniteSet(PoolSlots') /\ Cardinality(PoolSlots') = Len(requests')
  <2>1. IsFiniteSet(PoolSlots) /\ Cardinality(PoolSlots) = Len(requests)
    BY DEF PoolInv
  <2> DEFINE T == PoolSlots \cup {<<u, Len(old[u]) + 1>>}
  <2>2. IsFiniteSet(T) /\ Cardinality(T) = Cardinality(PoolSlots) + 1
    BY <1>8, <2>1, FS_AddElement
  <2> QED
    BY <1>4, <1>8, <2>1, <2>2
<1>10. ASSUME ~reordered PROVE PoolExact'
  <2>1. PoolExact
    BY <1>10 DEF PoolInv
  <2>2. \A v \in Users : \A i \in DOMAIN old[v] :
          /\ old[v][i].index \in Nat /\ old[v][i].index < Len(requests)
          /\ requests[old[v][i].index + 1].id = old[v][i].id
          /\ requests[old[v][i].index + 1].by = v
    <3>1. \A v \in Users : \A i \in DOMAIN old[v] : old[v][i] \in Slot
      BY <1>2
    <3> QED
      BY <2>1, <3>1 DEF PoolExact, Slot
  <2>3. ASSUME NEW v \in Users, NEW i \in DOMAIN _userUnlockIndices'[v]
        PROVE  LET new == _userUnlockIndices'[v][i] IN
               /\ new.index < Len(requests') /\ requests'[new.index + 1].id = new.id
               /\ requests'[new.index + 1].by = v
               /\ \/ i \in DOMAIN old[v] /\ new = old[v][i] /\ new.index < Len(requests)
                  \/ v = u /\ i = Len(old[u]) + 1 /\ new.index = Len(requests)
    <3>1. CASE i \in DOMAIN old[v]
      <4>1. _userUnlockIndices'[v][i] = old[v][i]
        BY <1>5, <1>6, <1>7, <3>1
      <4> DEFINE x == old[v][i]
                 k == x.index + 1
      <4>2. /\ k \in 1 .. Len(requests) /\ x.index < Len(requests)
            /\ requests[k].id = x.id /\ requests[k].by = v /\ x.index \in Nat
        BY <1>3, <2>2, <3>1
      <4> HIDE DEF x, k
      <4>3. requests'[k] = requests[k] /\ x.index < Len(requests')
        BY <1>3, <1>4, <4>2
      <4>4. _userUnlockIndices'[v][i] = x /\ requests'[x.index + 1].id = x.id
            /\ requests'[x.index + 1].by = v
        BY <4>1, <4>2, <4>3 DEF x, k
      <4>5. x = old[v][i]
        BY DEF x
      <4> QED
        BY <3>1, <4>2, <4>3, <4>4, <4>5
    <3>2. CASE i \notin DOMAIN old[v]
      <4>1. v = u /\ i = Len(old[u]) + 1
        BY <1>6, <1>7, <3>2
      <4>2. _userUnlockIndices'[v][i] = slot
        BY <1>5, <1>6, <4>1
      <4> QED
        BY <1>3, <1>4, <4>1, <4>2
    <3> QED
      BY <3>1, <3>2
  <2>4. ASSUME NEW v \in Users, NEW w \in Users, NEW i \in DOMAIN _userUnlockIndices'[v],
               NEW j \in DOMAIN _userUnlockIndices'[w],
               _userUnlockIndices'[v][i].index = _userUnlockIndices'[w][j].index
        PROVE  v = w /\ i = j
    <3>1. CASE i \in DOMAIN old[v] /\ _userUnlockIndices'[v][i] = old[v][i]
               /\ old[v][i].index < Len(requests)
      <4>1. j \in DOMAIN old[w] /\ _userUnlockIndices'[w][j] = old[w][j]
        BY <1>3, <2>3, <2>4, <3>1
      <4> QED
        BY <2>1, <2>4, <3>1, <4>1 DEF PoolExact
    <3>2. CASE v = u /\ i = Len(old[u]) + 1 /\ _userUnlockIndices'[v][i].index = Len(requests)
      BY <1>3, <2>3, <2>4, <3>2
    <3> QED
      BY <2>3, <3>1, <3>2
  <2> QED
    BY <2>3, <2>4 DEF PoolExact
<1> QED
  BY <1>1, <1>2, <1>4, <1>6, <1>9, <1>10 DEF PoolInv

\* Redeeming takes a request and the slot that led to it.
LEMMA PoolRedeemKeepsInv ==
  ASSUME PoolInv, NEW u \in Users, NEW pos \in Nat, Pool!redeem(u, pos)
  PROVE  PoolInv'
<1> DEFINE old == _userUnlockIndices
           list == old[u]
           at == list[pos + 1].index
           popped == SwapAndPop(list, pos)
           rest == SwapAndPop(requests, at)
           Request1 == [id : Nat, amount : Nat, by : Users]
<1>1. /\ pos < Len(list) /\ at < Len(requests)
      /\ _userUnlockIndices' = [old EXCEPT ![u] = popped] /\ requests' = rest
      /\ reordered' = (reordered \/ at + 1 < Len(requests)) /\ made' = made
  BY DEF Pool!redeem, Pool!PopSlot, Pool!SwapAndPop, Pool!Redeemable, SwapAndPop
<1>2. /\ requests \in Seq(Request1) /\ made \in Nat /\ reordered \in BOOLEAN
      /\ old \in [Users -> Seq(Slot)] /\ list \in Seq(Slot)
  BY DEF PoolInv
<1>3. list[pos + 1] \in Slot /\ at \in Nat
  <2>1. pos + 1 \in 1 .. Len(list)
    BY <1>1, <1>2
  <2>2. list[pos + 1] \in Slot
    BY <1>2, <2>1
  <2> QED
    BY <2>2 DEF Slot
<1> HIDE DEF list, at, Request1
<1>4. /\ popped \in Seq(Slot) /\ Len(popped) = Len(list) - 1
      /\ \A j \in 1 .. Len(popped) :
           /\ Source(list, pos, j) \in (1 .. Len(list)) \ {pos + 1}
           /\ popped[j] = list[Source(list, pos, j)]
           /\ \A k \in 1 .. Len(popped) :
                j # k => Source(list, pos, j) # Source(list, pos, k)
  <2>1. list \in Seq(Slot) /\ pos \in Nat /\ pos < Len(list) /\ popped = SwapAndPop(list, pos)
    BY <1>1, <1>2
  <2> HIDE DEF popped, Slot
  <2> QED
    BY <2>1, Popped
<1>5. /\ rest \in Seq(Request1) /\ Len(rest) = Len(requests) - 1
      /\ \A j \in 1 .. Len(rest) : rest[j] = requests[Source(requests, at, j)]
  BY <1>1, <1>2, <1>3, Popped
<1> HIDE DEF popped, rest
<1>6. /\ _userUnlockIndices' \in [Users -> Seq(Slot)] /\ _userUnlockIndices'[u] = popped
      /\ \A v \in Users \ {u} : _userUnlockIndices'[v] = old[v]
  BY <1>1, <1>2, <1>4
<1>7. /\ Len(list) \in Nat \ {0} /\ DOMAIN popped = 1 .. Len(list) - 1
      /\ \A v \in Users : DOMAIN old[v] = 1 .. Len(old[v])
  BY <1>1, <1>2, <1>4
<1>8. PoolSlots' = PoolSlots \ {<<u, Len(list)>>} /\ <<u, Len(list)>> \in PoolSlots
  <2>1. DOMAIN popped = DOMAIN old[u] \ {Len(list)} /\ Len(list) \in DOMAIN old[u]
    BY <1>7 DEF list
  <2> QED
    BY <1>6, <2>1 DEF PoolSlots
<1>9. IsFiniteSet(PoolSlots') /\ Cardinality(PoolSlots') = Len(requests')
  <2>1. IsFiniteSet(PoolSlots) /\ Cardinality(PoolSlots) = Len(requests)
    BY DEF PoolInv
  <2> DEFINE T == PoolSlots \ {<<u, Len(list)>>}
  <2>2. IsFiniteSet(T) /\ Cardinality(T) = Cardinality(PoolSlots) - 1
    BY <1>8, <2>1, FS_RemoveElement
  <2> QED
    BY <1>1, <1>5, <1>8, <2>1, <2>2
<1>10. ASSUME ~reordered' PROVE PoolExact'
  <2>1. PoolExact /\ ~reordered
    BY <1>1, <1>10 DEF PoolInv
  <2>2. Len(requests) = at + 1 /\ Len(requests') = at
    <3>1. ~(at + 1 < Len(requests))
      BY <1>1, <1>10, Zenon
    <3>2. Len(requests) \in Nat
      BY <1>2
    <3> QED
      BY <1>1, <1>3, <1>5, <3>1, <3>2
  <2>3. \A j \in 1 .. at : requests'[j] = requests[j]
    BY <1>1, <1>3, <1>5, <2>2 DEF Source
  <2> DEFINE From(v, i) == IF v = u THEN Source(list, pos, i) ELSE i
  <2>4. ASSUME NEW v \in Users, NEW i \in DOMAIN _userUnlockIndices'[v]
        PROVE  /\ From(v, i) \in DOMAIN old[v]
               /\ _userUnlockIndices'[v][i] = old[v][From(v, i)]
               /\ <<v, From(v, i)>> # <<u, pos + 1>>
    <3>1. CASE v = u
      BY <1>4, <1>6, <1>7, <3>1 DEF list
    <3>2. CASE v # u
      BY <1>6, <1>7, <3>2
    <3> QED
      BY <3>1, <3>2
  <2>5. ASSUME NEW v \in Users, NEW i \in DOMAIN _userUnlockIndices'[v],
               NEW j \in DOMAIN _userUnlockIndices'[v], From(v, i) = From(v, j)
        PROVE  i = j
    BY <1>4, <1>6, <1>7, <2>5
  <2> HIDE DEF From
  <2>6. \A v \in Users : \A i \in DOMAIN old[v] :
          /\ old[v][i].index \in Nat /\ old[v][i].index < Len(requests)
          /\ requests[old[v][i].index + 1].id = old[v][i].id
          /\ requests[old[v][i].index + 1].by = v
          /\ <<v, i>> # <<u, pos + 1>> => old[v][i].index # at
    <3>1. \A v \in Users : \A i \in DOMAIN old[v] : old[v][i] \in Slot
      BY <1>2
    <3>2. pos + 1 \in DOMAIN old[u] /\ old[u][pos + 1].index = at
      BY <1>1, <1>2 DEF at, list
    <3> QED
      BY <2>1, <3>1, <3>2 DEF PoolExact, Slot
  <2>7. ASSUME NEW v \in Users, NEW i \in DOMAIN _userUnlockIndices'[v]
        PROVE  LET slot == _userUnlockIndices'[v][i] IN
               /\ slot.index < Len(requests') /\ requests'[slot.index + 1].id = slot.id
               /\ requests'[slot.index + 1].by = v
    <3> DEFINE x == old[v][From(v, i)]
               k == x.index + 1
    <3>1. /\ x.index \in Nat /\ x.index < Len(requests) /\ x.index # at
          /\ requests[k].id = x.id /\ requests[k].by = v
      BY <2>4, <2>6
    <3>2. _userUnlockIndices'[v][i] = x
      BY <2>4
    <3> HIDE DEF x
    <3>3. k \in 1 .. at /\ x.index < Len(requests')
      BY <1>3, <2>2, <3>1
    <3>4. requests'[k] = requests[k]
      BY <2>3, <3>3
    <3> QED
      BY <3>1, <3>2, <3>3, <3>4
  <2>8. ASSUME NEW v \in Users, NEW w \in Users, NEW i \in DOMAIN _userUnlockIndices'[v],
               NEW j \in DOMAIN _userUnlockIndices'[w],
               _userUnlockIndices'[v][i].index = _userUnlockIndices'[w][j].index
        PROVE  v = w /\ i = j
    <3>1. v = w /\ From(v, i) = From(w, j)
      BY <2>1, <2>4, <2>8 DEF PoolExact
    <3> QED
      BY <2>5, <3>1
  <2> QED
    BY <2>7, <2>8 DEF PoolExact
<1> QED
  BY <1>1, <1>2, <1>5, <1>6, <1>9, <1>10 DEF PoolInv, Request1

\* Nothing else touches slots or requests.
LEMMA PoolKeepsInv ==
  ASSUME PoolInv, Pool!Next \/ UNCHANGED poolVars
  PROVE  PoolInv'
<1> DEFINE same == UNCHANGED <<requests, made, _userUnlockIndices, reordered>>
<1>1. ASSUME same PROVE PoolInv'
  BY <1>1 DEF PoolInv, PoolSlots, PoolExact
<1>2. ASSUME NEW u \in Users, NEW amount \in Amounts, Pool!stake(u, amount) PROVE PoolInv'
  BY <1>1, <1>2 DEF Pool!stake
<1>3. CASE Pool!CoolDown
  BY <1>1, <1>3 DEF Pool!CoolDown
<1>4. CASE UNCHANGED poolVars
  BY <1>1, <1>4 DEF poolVars
<1>5. \A i \in 0 .. MaxRequests : i \in Nat
  OBVIOUS
<1> HIDE DEF same
<1> QED
  BY <1>2, <1>3, <1>4, <1>5, PoolRequestKeepsInv, PoolRedeemKeepsInv DEF Pool!Next

\* The parts of the property that are about the shared contract.
LEMMA PoolPromises ==
  ASSUME PoolInv
  PROVE  Pool!SlotsExactUntilReordered /\ Pool!SlotForEachRequest
<1>1. Pool!SlotForEachRequest
  <2>1. Pool!Cardinality(PoolSlots) = Cardinality(PoolSlots)
    BY DEF Pool!Cardinality, Pool!IsFiniteSet, Cardinality, IsFiniteSet
  <2> QED
    BY <2>1 DEF PoolInv, PoolSlots, Pool!SlotForEachRequest
<1>2. ASSUME ~reordered PROVE PoolExact
  BY <1>2, Zenon DEF PoolInv
<1>3. Pool!SlotsExactUntilReordered
  BY <1>2, Zenon DEF PoolExact, Pool!SlotsExactUntilReordered
<1> QED
  BY <1>1, <1>3

-----------------------------------------------------------------------------
(* Accounts and tokens                                                     *)

Outside == Markets \cup {SAvax, JoeUsdc, JoeSAvax}

Panorama == Users \cup Adapters \cup {Executor, Lend, Swap}

\* The tokens are different ones, and the accounts, too.
LEMMA Distinct ==
  /\ Avax # Usdc /\ Avax # SAvax /\ Usdc # SAvax /\ QiAvax # QiUsdc
  /\ {Avax, Usdc, SAvax} \cap Markets = {}
  /\ AllTokens = {Avax, Usdc, SAvax} \cup Markets /\ Markets = {QiAvax, QiUsdc}
  /\ Accounts = Panorama \cup Outside \cup {Market}
  /\ Panorama \cap Outside = {} /\ Market \notin Panorama \cup Outside
  /\ {SAvax, JoeUsdc, JoeSAvax} \cap Markets = {} /\ JoeUsdc # JoeSAvax
  /\ SAvax \notin {JoeUsdc, JoeSAvax}
  /\ Users \cap (Adapters \cup {Executor, Lend, Swap}) = {}
  /\ Adapters \cap {Executor, Lend, Swap} = {}
  /\ Executor # Lend /\ Executor # Swap /\ Lend # Swap
  /\ Benqi # TraderJoe /\ Benqi # Savax /\ TraderJoe # Savax
<1> DEFINE names == <<Avax, Usdc, SAvax, QiAvax, QiUsdc, JoeUsdc, JoeSAvax,
                     Executor, Market, Lend, Swap>>
<1>1. \A i, j \in 1 .. 11 : names[i] = names[j] => i = j
  <2>1. IsInjective(names) /\ DOMAIN names = 1 .. 11
    BY AvaxAssumption
  <2> HIDE DEF names
  <2> QED
    BY <2>1 DEF IsInjective
<1>2. /\ names[1] = Avax /\ names[2] = Usdc /\ names[3] = SAvax /\ names[4] = QiAvax
      /\ names[5] = QiUsdc /\ names[6] = JoeUsdc /\ names[7] = JoeSAvax
      /\ names[8] = Executor /\ names[9] = Market /\ names[10] = Lend /\ names[11] = Swap
  OBVIOUS
<1> HIDE DEF names
<1>3. /\ Avax \notin {Usdc, SAvax, QiAvax, QiUsdc} /\ Usdc \notin {SAvax, QiAvax, QiUsdc}
      /\ SAvax \notin {QiAvax, QiUsdc} /\ QiAvax # QiUsdc
  BY <1>1, <1>2
<1>4. /\ {JoeUsdc, JoeSAvax, Executor, Market, Lend, Swap} \cap {SAvax, QiAvax, QiUsdc} = {}
      /\ JoeUsdc \notin {JoeSAvax, Executor, Market, Lend, Swap}
      /\ JoeSAvax \notin {Executor, Market, Lend, Swap}
  BY <1>1, <1>2
<1>5. /\ Executor \notin {Market, Lend, Swap} /\ Market \notin {Lend, Swap} /\ Lend # Swap
  BY <1>1, <1>2
<1>6. Benqi # TraderJoe /\ Benqi # Savax /\ TraderJoe # Savax
  <2> DEFINE ids == <<Benqi, TraderJoe, Savax>>
  <2>1. \A i, j \in 1 .. 3 : ids[i] = ids[j] => i = j
    <3>1. IsInjective(ids) /\ DOMAIN ids = 1 .. 3
      BY AvaxAssumption
    <3> HIDE DEF ids
    <3> QED
      BY <3>1 DEF IsInjective
  <2>2. ids[1] = Benqi /\ ids[2] = TraderJoe /\ ids[3] = Savax
    OBVIOUS
  <2> HIDE DEF ids
  <2> QED
    BY <2>1, <2>2
<1>7. Contracts \cap Users = {} /\ Contracts \cap Adapters = {} /\ Users \cap Adapters = {}
  <2>1. Contracts \cap Users = {}
    BY AvaxAssumption
  <2>2. (Contracts \cup Users) \cap Adapters = {}
    BY AvaxAssumption
  <2> QED
    BY <2>1, <2>2
<1>8. Contracts = Outside \cup {Executor, Lend, Swap, Market} /\ Markets = {QiAvax, QiUsdc}
  BY DEF Contracts, Outside, Markets
<1>9. AllTokens = {Avax, Usdc, SAvax} \cup Markets
  BY <1>8 DEF AllTokens
<1>10. Outside = {QiAvax, QiUsdc, SAvax, JoeUsdc, JoeSAvax}
  BY DEF Outside, Markets
<1>11. Accounts = Panorama \cup Outside \cup {Market}
  BY <1>8 DEF Accounts, Panorama
<1>12. Panorama \cap Outside = {} /\ Market \notin Panorama \cup Outside
  BY <1>4, <1>5, <1>7, <1>8, <1>10 DEF Panorama
<1> QED
  BY <1>3, <1>4, <1>5, <1>6, <1>7, <1>8, <1>9, <1>11, <1>12

-----------------------------------------------------------------------------
(* Transfers                                                               *)

Balances == [Accounts -> [AllTokens -> Nat]]

\* One entry of the balances is set.
LEMMA Update ==
  ASSUME NEW b \in Balances, NEW t \in AllTokens, NEW who \in Accounts, NEW n \in Nat
  PROVE  LET c == [b EXCEPT ![who][t] = n] IN
         /\ c \in Balances
         /\ c[who][t] = n
         /\ \A x \in Accounts \ {who} : c[x] = b[x]
         /\ \A s \in AllTokens \ {t} : c[who][s] = b[who][s]
<1> DEFINE row == [b[who] EXCEPT ![t] = n]
<1>1. /\ row \in [AllTokens -> Nat] /\ row[t] = n
      /\ \A s \in AllTokens : s # t => row[s] = b[who][s]
  BY DEF Balances
<1>2. [b EXCEPT ![who][t] = n] = [b EXCEPT ![who] = row]
  OBVIOUS
<1> HIDE DEF row
<1> QED
  BY <1>1, <1>2 DEF Balances

\* Only balances differ.
Rebalanced(v, w) == v.balance \in Balances /\ v = [w EXCEPT !.balance = v.balance]

\* Then everything else is the same.
LEMMA RebalancedWorld ==
  ASSUME NEW w \in Worlds, NEW v, Rebalanced(v, w)
  PROVE  /\ v \in Worlds /\ v.allowance = w.allowance /\ v.rate = w.rate /\ v.debt = w.debt
         /\ v.entered = w.entered /\ v.requests = w.requests /\ v.slots = w.slots
         /\ v.made = w.made /\ v.cooled = w.cooled /\ v.reordered = w.reordered
BY DEF Rebalanced, Worlds, Balances

\* Balances may change twice.
LEMMA RebalancedTwice ==
  ASSUME NEW w \in Worlds, NEW v, NEW u, Rebalanced(v, w), Rebalanced(u, v)
  PROVE  Rebalanced(u, w)
BY DEF Rebalanced, Worlds, Balances

\* An entry of the balances of a world is set.
LEMMA EntrySet ==
  ASSUME NEW w \in Worlds, NEW t \in AllTokens, NEW who \in Accounts, NEW n \in Nat
  PROVE  LET v == [w EXCEPT !.balance[who][t] = n] IN
         /\ Rebalanced(v, w) /\ v.balance[who][t] = n
         /\ \A x \in Accounts \ {who} : v.balance[x] = w.balance[x]
         /\ \A s \in AllTokens \ {t} : v.balance[who][s] = w.balance[who][s]
<1> DEFINE b == [w.balance EXCEPT ![who][t] = n]
           v == [w EXCEPT !.balance = b]
<1>1. w.balance \in Balances
  BY DEF Worlds, Balances
<1>2. /\ b \in Balances /\ b[who][t] = n
      /\ \A x \in Accounts \ {who} : b[x] = w.balance[x]
      /\ \A s \in AllTokens \ {t} : b[who][s] = w.balance[who][s]
  BY <1>1, Update
<1>3. [w EXCEPT !.balance[who][t] = n] = v
  BY DEF Worlds
<1> HIDE DEF b
<1>4. v.balance = b
  BY DEF Worlds
<1>5. Rebalanced(v, w)
  BY <1>2, <1>4 DEF Rebalanced
<1> HIDE DEF v
<1> QED
  BY <1>2, <1>3, <1>4, <1>5

\* n of a token leave one account and arrive at another.
Shift(v, w, t, from, to, n) ==
    /\ Rebalanced(v, w)
    /\ \A x \in Accounts \ {from, to} : v.balance[x] = w.balance[x]
    /\ \A s \in AllTokens \ {t} : /\ v.balance[from][s] = w.balance[from][s]
                                  /\ v.balance[to][s] = w.balance[to][s]
    /\ v.balance[from][t] = w.balance[from][t] - n
    /\ v.balance[to][t] = w.balance[to][t] + n

\* A covered transfer does that.
LEMMA Moved ==
  ASSUME NEW w \in Worlds, NEW t \in AllTokens, NEW from \in Accounts, NEW to \in Accounts,
         from # to, NEW n \in Nat, n <= w.balance[from][t]
  PROVE  Move(w, t, from, to, n) \in Worlds /\ Shift(Move(w, t, from, to, n), w, t, from, to, n)
<1> DEFINE m == w.balance[from][t] - n
           k == w.balance[to][t] + n
           v == [w EXCEPT !.balance[from][t] = m]
           u == [v EXCEPT !.balance[to][t] = k]
<1>1. m \in Nat /\ k \in Nat /\ w.balance[from][t] \in Nat /\ w.balance[to][t] \in Nat
  BY DEF Worlds
<1>2. Move(w, t, from, to, n) = u
  BY DEF Move, Worlds
<1> HIDE DEF m, k
<1>3. /\ Rebalanced(v, w) /\ v.balance[from][t] = m
      /\ \A x \in Accounts \ {from} : v.balance[x] = w.balance[x]
      /\ \A s \in AllTokens \ {t} : v.balance[from][s] = w.balance[from][s]
  BY <1>1, EntrySet
<1>4. v \in Worlds
  BY <1>3, RebalancedWorld
<1> HIDE DEF v
<1>5. /\ Rebalanced(u, v) /\ u.balance[to][t] = k
      /\ \A x \in Accounts \ {to} : u.balance[x] = v.balance[x]
      /\ \A s \in AllTokens \ {t} : u.balance[to][s] = v.balance[to][s]
  BY <1>1, <1>4, EntrySet
<1>6. Rebalanced(u, w) /\ u \in Worlds
  BY <1>3, <1>4, <1>5, RebalancedTwice, RebalancedWorld
<1> HIDE DEF u
<1>7. Shift(u, w, t, from, to, n)
  BY <1>3, <1>5, <1>6 DEF Shift, m, k
<1> QED
  BY <1>2, <1>6, <1>7

-----------------------------------------------------------------------------
(* BENQI and sAVAX                                                         *)

\* The quotient of a number of units and a rate.
LEMMA Quotient ==
  ASSUME NEW n \in Nat, NEW k \in Nat, NEW d \in Nat \ {0}
  PROVE  (n * k) \div d \in Nat
<1> DEFINE p == n * k
<1>1. p \in Nat
  OBVIOUS
<1> HIDE DEF p
<1>2. p \div d \in Nat
  BY <1>1
<1> QED
  BY <1>2 DEF p

\* Rates are positive, and so what qTokens are worth, and what is minted, are amounts.
LEMMA RatesTyped ==
  ASSUME NEW w \in Worlds, NEW q \in Markets
  PROVE  /\ w.rate[q] \in Nat \ {0} /\ Scale \in Nat \ {0}
         /\ \A n \in Nat : Worth(w, q, n) \in Nat /\ (n * Scale) \div w.rate[q] \in Nat
<1>1. w.rate[q] \in Nat \ {0} /\ Scale \in Nat \ {0}
  <2>1. w.rate[q] \in Scale .. MaxRate /\ Scale \in Nat \ {0} /\ MaxRate \in Nat
    BY AvaxAssumption DEF Worlds
  <2> QED
    BY <2>1
<1>2. ASSUME NEW n \in Nat PROVE Worth(w, q, n) \in Nat /\ (n * Scale) \div w.rate[q] \in Nat
  BY <1>1, Quotient DEF Worth
<1> QED
  BY <1>1, <1>2

\* n of token t are exchanged by an account for m of token s, or the other way round; other
\* accounts of Panorama do not notice.
Exchanged(v, w, who, other, t, n, s, m) ==
    /\ Rebalanced(v, w)
    /\ \A x \in Accounts \ {who, other} : v.balance[x] = w.balance[x]
    /\ \A r \in AllTokens \ {s, t} : v.balance[who][r] = w.balance[who][r]
    /\ v.balance[who][t] = w.balance[who][t] - n
    /\ v.balance[who][s] = w.balance[who][s] + m

\* Something is given to a contract, something else is credited.
LEMMA Bought ==
  ASSUME NEW w \in Worlds, NEW who \in Accounts, NEW other \in Accounts, who # other,
         NEW t \in AllTokens, NEW s \in AllTokens \ {t}, NEW n \in Nat, NEW m \in Nat,
         n <= w.balance[who][t],
         NEW v, v = [Move(w, t, who, other, n) EXCEPT !.balance[who][s] = @ + m]
  PROVE  v \in Worlds /\ Exchanged(v, w, who, other, t, n, s, m)
<1> DEFINE u == Move(w, t, who, other, n)
           k == u.balance[who][s] + m
           x == [u EXCEPT !.balance[who][s] = k]
<1>1. u \in Worlds /\ Shift(u, w, t, who, other, n)
  BY Moved
<1>2. v = x
  OBVIOUS
<1> HIDE DEF u
<1>3. u.balance[who][s] = w.balance[who][s] /\ w.balance[who][s] \in Nat /\ k \in Nat
  BY <1>1 DEF Shift, Worlds
<1> HIDE DEF k
<1>4. /\ Rebalanced(x, u) /\ x.balance[who][s] = k
      /\ \A y \in Accounts \ {who} : x.balance[y] = u.balance[y]
      /\ \A r \in AllTokens \ {s} : x.balance[who][r] = u.balance[who][r]
  BY <1>1, <1>3, EntrySet
<1> HIDE DEF x
<1>5. Rebalanced(x, w) /\ x \in Worlds
  BY <1>1, <1>4, RebalancedTwice, RebalancedWorld DEF Shift
<1>6. k = w.balance[who][s] + m
  BY <1>3 DEF k
<1> QED
  BY <1>1, <1>2, <1>4, <1>5, <1>6 DEF Shift, Exchanged

\* Something is burnt, something else is paid out by a contract.
LEMMA Sold ==
  ASSUME NEW w \in Worlds, NEW who \in Accounts, NEW other \in Accounts, who # other,
         NEW t \in AllTokens, NEW s \in AllTokens \ {t}, NEW n \in Nat, NEW m \in Nat,
         n <= w.balance[who][t], m <= w.balance[other][s],
         NEW v, v = [Move(w, s, other, who, m) EXCEPT !.balance[who][t] = @ - n]
  PROVE  v \in Worlds /\ Exchanged(v, w, who, other, t, n, s, m)
<1> DEFINE u == Move(w, s, other, who, m)
           k == u.balance[who][t] - n
           x == [u EXCEPT !.balance[who][t] = k]
<1>1. u \in Worlds /\ Shift(u, w, s, other, who, m)
  BY Moved
<1>2. v = x
  OBVIOUS
<1> HIDE DEF u
<1>3. u.balance[who][t] = w.balance[who][t] /\ w.balance[who][t] \in Nat /\ k \in Nat
  BY <1>1 DEF Shift, Worlds
<1> HIDE DEF k
<1>4. /\ Rebalanced(x, u) /\ x.balance[who][t] = k
      /\ \A y \in Accounts \ {who} : x.balance[y] = u.balance[y]
      /\ \A r \in AllTokens \ {t} : x.balance[who][r] = u.balance[who][r]
  BY <1>1, <1>3, EntrySet
<1> HIDE DEF x
<1>5. Rebalanced(x, w) /\ x \in Worlds
  BY <1>1, <1>4, RebalancedTwice, RebalancedWorld DEF Shift
<1>6. k = w.balance[who][t] - n
  BY <1>3 DEF k
<1> QED
  BY <1>1, <1>2, <1>4, <1>5, <1>6 DEF Shift, Exchanged

\* The underlying of a market is one of two tokens, and the market an account.
LEMMA MarketsTyped ==
  ASSUME NEW q \in Markets
  PROVE  /\ Underlying(q) \in {Avax, Usdc} /\ Underlying(q) \in AllTokens \ Markets
         /\ q \in AllTokens /\ q \in Outside /\ q \in Accounts
<1>1. Underlying(q) \in {Avax, Usdc}
  BY DEF Underlying
<1>2. q \in Outside
  BY DEF Outside
<1> QED
  BY <1>1, <1>2, Distinct

\* Balances are amounts.
LEMMA BalanceTyped ==
  ASSUME NEW w \in Worlds, NEW x \in Accounts, NEW t \in AllTokens
  PROVE  w.balance[x][t] \in Nat
BY DEF Worlds

\* A supply takes the underlying and gives qTokens.
LEMMA Minted ==
  ASSUME NEW w \in Worlds, NEW who \in Panorama, NEW q \in Markets, NEW n \in Nat,
         NEW v \in Mint(w, who, q, n)
  PROVE  /\ v \in Worlds
         /\ \E m \in Nat : Exchanged(v, w, who, q, Underlying(q), n, q, m)
<1> DEFINE m == (n * Scale) \div w.rate[q]
           t == Underlying(q)
<1>1. m \in Nat
  BY RatesTyped
<1>2. n <= w.balance[who][t] /\ v = [Move(w, t, who, q, n) EXCEPT !.balance[who][q] = @ + m]
  <2>1. w.balance[who][t] \in Nat
    BY BalanceTyped, MarketsTyped, Distinct
  <2> QED
    BY <2>1 DEF Mint, Has
<1>3. t \in AllTokens /\ q \in AllTokens \ {t} /\ q \in Accounts /\ who \in Accounts /\ who # q
  BY MarketsTyped, Distinct
<1> HIDE DEF m, t
<1>4. v \in Worlds /\ Exchanged(v, w, who, q, t, n, q, m)
  BY <1>1, <1>2, <1>3, Bought
<1> QED
  BY <1>1, <1>4 DEF t

\* A redemption the other way round, at what the qTokens are worth.
LEMMA Redeemed ==
  ASSUME NEW w \in Worlds, NEW who \in Panorama, NEW q \in Markets, NEW n \in Nat,
         NEW v \in Redeem(w, who, q, n)
  PROVE  /\ v \in Worlds /\ Worth(w, q, n) \in Nat
         /\ Exchanged(v, w, who, q, q, n, Underlying(q), Worth(w, q, n))
<1> DEFINE m == Worth(w, q, n)
           t == Underlying(q)
<1>1. m \in Nat
  BY RatesTyped
<1>2. /\ n <= w.balance[who][q] /\ m <= w.balance[q][t]
      /\ v = [Move(w, t, q, who, m) EXCEPT !.balance[who][q] = @ - n]
  <2>1. w.balance[who][q] \in Nat /\ w.balance[q][t] \in Nat
    BY BalanceTyped, MarketsTyped, Distinct
  <2> QED
    BY <1>1, <2>1 DEF Redeem, Has
<1>3. q \in AllTokens /\ t \in AllTokens \ {q} /\ q \in Accounts /\ who \in Accounts /\ who # q
  BY MarketsTyped, Distinct
<1> HIDE DEF m, t
<1>4. v \in Worlds /\ Exchanged(v, w, who, q, q, n, t, m)
  BY <1>1, <1>2, <1>3, Sold
<1> QED
  BY <1>1, <1>4 DEF t, m

\* qTokens change hands.
LEMMA SentQTokens ==
  ASSUME NEW w \in Worlds, NEW q \in Markets, NEW from \in Accounts, NEW to \in Accounts,
         from # to, NEW n \in Nat, NEW v \in SendQTokens(w, q, from, to, n)
  PROVE  v \in Worlds /\ Shift(v, w, q, from, to, n)
<1>1. w.balance[from][q] \in Nat /\ q \in AllTokens
  BY BalanceTyped, MarketsTyped
<1>2. n <= w.balance[from][q] /\ v = Move(w, q, from, to, n)
  BY <1>1 DEF SendQTokens, Has
<1> QED
  BY <1>1, <1>2, Moved

\* Staking takes Avax and gives sAVAX.
LEMMA Submitted ==
  ASSUME NEW w \in Worlds, NEW who \in Panorama, NEW n \in Nat, NEW v \in Submit(w, who, n)
  PROVE  v \in Worlds /\ Exchanged(v, w, who, SAvax, Avax, n, SAvax, n)
<1>1. /\ Avax \in AllTokens /\ SAvax \in AllTokens \ {Avax} /\ who \in Accounts
      /\ SAvax \in Accounts /\ who # SAvax
  BY Distinct DEF Outside
<1>2. w.balance[who][Avax] \in Nat
  BY <1>1 DEF Worlds
<1>3. n <= w.balance[who][Avax]
      /\ v = [Move(w, Avax, who, SAvax, n) EXCEPT !.balance[who][SAvax] = @ + n]
  BY <1>2 DEF Submit, Has
<1> QED
  BY <1>1, <1>3, Bought

-----------------------------------------------------------------------------
(* Sound worlds                                                            *)

\* Trader Joe's pairs are never emptied.
Liquid(b) ==
    /\ b[JoeUsdc][Avax] > 0 /\ b[JoeUsdc][Usdc] > 0
    /\ b[JoeSAvax][Avax] > 0 /\ b[JoeSAvax][SAvax] > 0

\* The slots of an adapter lead to its requests, no two of them to the same.
SlotsOK(requests1, slots1) ==
    /\ Len(slots1) = Len(requests1)
    /\ \A i \in DOMAIN slots1 : /\ slots1[i].index < Len(requests1)
                                /\ requests1[slots1[i].index + 1].id = slots1[i].id
    /\ \A i, j \in DOMAIN slots1 : slots1[i].index = slots1[j].index => i = j

Sound(w) ==
    /\ w \in Worlds
    /\ Liquid(w.balance)
    /\ \A a \in Adapters \ w.reordered : SlotsOK(w.requests[a], w.slots[a])

\* Positions at the protocols are the same, except perhaps one.
SameExcept(v, w, c) ==
    /\ \A x \in Borrowers \ {c} : v.debt[x] = w.debt[x] /\ v.entered[x] = w.entered[x]
    /\ \A x \in Adapters \ {c} : v.requests[x] = w.requests[x] /\ v.slots[x] = w.slots[x]
    /\ v.rate = w.rate

\* Account c acts, and pays account d: nobody else in Panorama notices.
After(v, w, c, d) ==
    /\ Sound(v)
    /\ \A x \in Panorama \ {c, d} : v.balance[x] = w.balance[x]
    /\ SameExcept(v, w, c)

\* And only tokens move.
Quiet(v, w, c, d) ==
    /\ Rebalanced(v, w) /\ Liquid(v.balance)
    /\ \A x \in Panorama \ {c, d} : v.balance[x] = w.balance[x]

\* One after the other.
LEMMA AfterTwice ==
  ASSUME NEW u, NEW v, NEW w, NEW c, NEW d, After(v, w, c, d), After(u, v, c, d)
  PROVE  After(u, w, c, d)
BY DEF After, SameExcept

\* One after the other.
LEMMA QuietTwice ==
  ASSUME NEW w \in Worlds, NEW v, NEW u, NEW c, NEW d, Quiet(v, w, c, d), Quiet(u, v, c, d)
  PROVE  Quiet(u, w, c, d)
BY RebalancedTwice DEF Quiet

\* A world stays sound when only tokens move.
LEMMA QuietSound ==
  ASSUME NEW w, Sound(w), NEW v, NEW c, NEW d, Quiet(v, w, c, d)
  PROVE  /\ Sound(v) /\ After(v, w, c, d) /\ v.debt = w.debt /\ v.entered = w.entered
         /\ v.requests = w.requests /\ v.slots = w.slots /\ v.rate = w.rate
<1>1. /\ v \in Worlds /\ v.rate = w.rate /\ v.debt = w.debt
      /\ v.entered = w.entered /\ v.requests = w.requests /\ v.slots = w.slots
      /\ v.reordered = w.reordered
  BY RebalancedWorld DEF Quiet, Sound
<1> QED
  BY <1>1 DEF Quiet, Sound, After, SameExcept

\* Accounts other than the pairs leave them alone.
LEMMA PairsStay ==
  ASSUME NEW v, NEW w, Liquid(w.balance), v.balance[JoeUsdc] = w.balance[JoeUsdc],
         v.balance[JoeSAvax] = w.balance[JoeSAvax]
  PROVE  Liquid(v.balance)
BY DEF Liquid

Insiders == Panorama \cup Markets \cup {SAvax}

\* A transfer among the accounts that are not pairs.
LEMMA ShiftQuiet ==
  ASSUME NEW w, Sound(w), NEW v, NEW t \in AllTokens, NEW from \in Insiders, NEW to \in Insiders,
         NEW n, Shift(v, w, t, from, to, n), NEW c, NEW d, {from, to} \cap Panorama \subseteq {c, d}
  PROVE  Quiet(v, w, c, d)
<1>1. {JoeUsdc, JoeSAvax} \subseteq Accounts \ {from, to} /\ Panorama \subseteq Accounts
  BY Distinct DEF Insiders, Outside
<1>2. Liquid(v.balance)
  BY <1>1, PairsStay DEF Shift, Sound
<1> QED
  BY <1>1, <1>2 DEF Shift, Quiet

\* An exchange with BENQI or sAVAX.
LEMMA ExchangeQuiet ==
  ASSUME NEW w, Sound(w), NEW v, NEW who \in Panorama, NEW other \in Markets \cup {SAvax},
         NEW t, NEW n, NEW s, NEW m, Exchanged(v, w, who, other, t, n, s, m), NEW d
  PROVE  Quiet(v, w, who, d)
<1>1. /\ {JoeUsdc, JoeSAvax} \subseteq Accounts \ {who, other} /\ Panorama \subseteq Accounts
      /\ other \notin Panorama
  BY Distinct DEF Outside
<1>2. Liquid(v.balance)
  BY <1>1, PairsStay DEF Exchanged, Sound
<1> QED
  BY <1>1, <1>2 DEF Exchanged, Quiet

\* Nothing happens.
LEMMA QuietSame ==
  ASSUME NEW w, Sound(w), NEW c, NEW d
  PROVE  Quiet(w, w, c, d) /\ After(w, w, c, d)
<1>1. Rebalanced(w, w)
  BY DEF Rebalanced, Sound, Worlds, Balances
<1> QED
  BY <1>1 DEF Quiet, After, SameExcept, Sound

-----------------------------------------------------------------------------
(* Trader Joe                                                              *)

Pairs == {JoeUsdc, JoeSAvax}

Hops == {<<Usdc, Avax>>, <<Avax, Usdc>>, <<SAvax, Avax>>, <<Avax, SAvax>>}

\* A pair gives less than it has for less than everything.
LEMMA PairSuffices ==
  ASSUME NEW R \in Nat \ {0}, NEW S \in Nat \ {0}, NEW n \in Nat, n < S
  PROVE  (n * R) \div S \in Nat /\ (n * R) \div S < R
<1> DEFINE p == n * R
           q == p \div S
<1>1. p \in Nat
  OBVIOUS
<1>2. p < S * R
  OBVIOUS
<1> HIDE DEF p
<1>3. q \in Nat /\ q * S <= p
  BY <1>1
<1> HIDE DEF q
<1>4. q < R
  <2> SUFFICES ASSUME q >= R PROVE FALSE
    BY <1>3
  <2>1. q * S >= R * S
    BY <1>3
  <2>2. R * S = S * R /\ q * S \in Int /\ S * R \in Int
    BY <1>3
  <2> QED
    BY <1>1, <1>2, <1>3, <2>1, <2>2
<1> QED
  BY <1>3, <1>4 DEF p, q

\* What a hop yields.
LEMMA HopPays ==
  ASSUME NEW w, Sound(w), NEW a, NEW b, <<a, b>> \in Hops, NEW n \in Nat
  PROVE  /\ a \in AllTokens /\ b \in AllTokens \ {a} /\ Pair(a, b) \in Pairs
         /\ Out(w, a, b, n) \in Nat /\ Out(w, a, b, n) < w.balance[Pair(a, b)][b]
<1> DEFINE P == Pair(a, b)
           R == w.balance[P][b]
           S == w.balance[P][a]
           T == S + n
<1>1. /\ a \in AllTokens /\ b \in AllTokens \ {a}
      /\ P \in Pairs /\ P \in Accounts
      /\ P = JoeUsdc => a \in {Avax, Usdc} /\ b \in {Avax, Usdc}
      /\ P = JoeSAvax => a \in {Avax, SAvax} /\ b \in {Avax, SAvax}
  BY Distinct DEF Hops, Pair, Pairs, Outside
<1>2. w \in Worlds /\ Liquid(w.balance)
  BY DEF Sound
<1>3. Out(w, a, b, n) = (n * R) \div T
  BY DEF Out
<1> HIDE DEF P
<1>4. R \in Nat /\ S \in Nat /\ R > 0 /\ S > 0
  BY <1>1, <1>2, BalanceTyped DEF Liquid, Pairs
<1> HIDE DEF R, S
<1>5. R \in Nat \ {0} /\ T \in Nat \ {0} /\ n < T
  BY <1>4
<1> HIDE DEF T
<1>6. (n * R) \div T \in Nat /\ (n * R) \div T < R
  BY <1>5, PairSuffices
<1> QED
  BY <1>1, <1>3, <1>6 DEF P, R

\* A transfer that leaves something in a pair keeps the pairs filled.
LEMMA ShiftLiquid ==
  ASSUME NEW w, w \in Worlds, Liquid(w.balance), NEW t \in AllTokens, NEW from \in Accounts,
         NEW to \in Accounts, from # to, NEW n \in Nat, from \in Pairs => n < w.balance[from][t],
         NEW v, Shift(v, w, t, from, to, n)
  PROVE  Liquid(v.balance)
<1>1. ASSUME NEW p \in Pairs, NEW s \in AllTokens, w.balance[p][s] > 0
      PROVE  v.balance[p][s] > 0
  <2>1. p \in Accounts /\ w.balance[p][s] \in Nat
    BY Distinct, BalanceTyped DEF Pairs, Outside
  <2>2. CASE p = from /\ s = t
    BY <1>1, <2>1, <2>2 DEF Shift
  <2>3. CASE p = to /\ s = t
    BY <1>1, <2>1, <2>3 DEF Shift
  <2>4. CASE p \in {from, to} /\ s # t
    BY <1>1, <2>4 DEF Shift
  <2>5. CASE p \notin {from, to}
    BY <1>1, <2>1, <2>5 DEF Shift
  <2> QED
    BY <2>2, <2>3, <2>4, <2>5
<1>2. JoeUsdc \in Pairs /\ JoeSAvax \in Pairs /\ {Avax, Usdc, SAvax} \subseteq AllTokens
  BY Distinct DEF Pairs
<1> QED
  BY <1>1, <1>2 DEF Liquid

\* n of a token are gone.
Debited(v, w, x, t, n) ==
    \A s \in AllTokens : v.balance[x][s] = w.balance[x][s] - (IF s = t THEN n ELSE 0)

\* The payer of a transfer.
LEMMA ShiftDebits ==
  ASSUME NEW w \in Worlds, NEW t \in AllTokens, NEW from \in Accounts, NEW to, NEW n,
         NEW v, Shift(v, w, t, from, to, n)
  PROVE  Debited(v, w, from, t, n)
<1>1. \A s \in AllTokens : w.balance[from][s] \in Nat
  BY BalanceTyped
<1> QED
  BY <1>1 DEF Shift, Debited

Traders == Panorama \cup {Market}

\* The first hop, to a trader or to the other pair.
LEMMA FirstHop ==
  ASSUME NEW w, Sound(w), NEW a, NEW b, <<a, b>> \in Hops, NEW n \in Nat,
         NEW from \in Traders, n <= w.balance[from][a], NEW to \in Accounts \ {Pair(a, b)},
         NEW v, v = Move(Move(w, a, from, Pair(a, b), n), b, Pair(a, b), to, Out(w, a, b, n))
  PROVE  /\ v \in Worlds /\ Rebalanced(v, w) /\ Liquid(v.balance)
         /\ \A x \in Accounts \ {from, to, Pair(a, b)} : v.balance[x] = w.balance[x]
         /\ from # to => Debited(v, w, from, a, n)
         /\ from # to => \A s \in AllTokens \ {b} : v.balance[to][s] = w.balance[to][s]
<1> DEFINE P == Pair(a, b)
           m == Out(w, a, b, n)
           u == Move(w, a, from, P, n)
           y == Move(u, b, P, to, m)
<1>1. /\ a \in AllTokens /\ b \in AllTokens \ {a} /\ P \in Pairs
      /\ m \in Nat /\ m < w.balance[P][b]
  BY HopPays
<1>2. P \in Accounts /\ from \in Accounts /\ from \notin Pairs /\ from # P
  BY <1>1, Distinct DEF Pairs, Outside, Traders
<1>3. w \in Worlds /\ Liquid(w.balance) /\ to \in Accounts /\ P # to /\ v = y
  BY DEF Sound
<1> HIDE DEF P, m
<1>4. u \in Worlds /\ Shift(u, w, a, from, P, n)
  BY <1>1, <1>2, <1>3, Moved
<1> HIDE DEF u
<1>5. Liquid(u.balance) /\ u.balance[P][b] = w.balance[P][b] /\ Debited(u, w, from, a, n)
  <2>1. Liquid(u.balance)
    BY <1>1, <1>2, <1>3, <1>4, ShiftLiquid
  <2>2. Debited(u, w, from, a, n)
    BY <1>1, <1>2, <1>3, <1>4, ShiftDebits
  <2> QED
    BY <1>1, <1>4, <2>1, <2>2 DEF Shift
<1>6. m <= u.balance[P][b] /\ m < u.balance[P][b]
  <2>1. w.balance[P][b] \in Nat
    BY <1>1, <1>2, <1>3, BalanceTyped
  <2> QED
    BY <1>1, <1>5, <2>1
<1>7. y \in Worlds /\ Shift(y, u, b, P, to, m)
  BY <1>1, <1>2, <1>3, <1>4, <1>6, Moved
<1> HIDE DEF y
<1>8. Liquid(y.balance)
  BY <1>1, <1>2, <1>3, <1>4, <1>5, <1>6, <1>7, ShiftLiquid
<1>9. Rebalanced(y, w)
  BY <1>3, <1>4, <1>7, RebalancedTwice DEF Shift
<1>10. \A x \in Accounts \ {from, to, P} : y.balance[x] = w.balance[x]
  BY <1>4, <1>7 DEF Shift
<1>11. ASSUME from # to PROVE Debited(y, w, from, a, n)
  <2>1. y.balance[from] = u.balance[from]
    BY <1>2, <1>7, <1>11 DEF Shift
  <2> QED
    BY <1>5, <2>1 DEF Debited
<1>12. ASSUME from # to PROVE \A s \in AllTokens \ {b} : y.balance[to][s] = w.balance[to][s]
  <2>1. u.balance[to] = w.balance[to]
    BY <1>3, <1>4, <1>12 DEF Shift
  <2> QED
    BY <1>7, <2>1 DEF Shift
<1> QED
  BY <1>3, <1>7, <1>8, <1>9, <1>10, <1>11, <1>12 DEF P

\* A swap takes the input from the payer and leaves everybody but the recipient alone.
LEMMA Swapped ==
  ASSUME NEW w, Sound(w), NEW from \in Traders, NEW to \in Traders, NEW path \in Paths,
         NEW n \in Nat, NEW least, NEW v \in SwapExact(w, from, path, n, least, to)
  PROVE  Quiet(v, w, from, to) /\ (from # to => Debited(v, w, from, path[1], n))
<1>1. /\ to \in Accounts /\ to \notin Pairs /\ from \in Accounts /\ from \notin Pairs
      /\ Panorama \subseteq Accounts /\ Panorama \cap Pairs = {}
  BY Distinct DEF Traders, Pairs, Outside
<1>2. w \in Worlds
  BY DEF Sound
<1>3. path[1] \in AllTokens /\ n <= w.balance[from][path[1]]
  <2>1. path[1] \in AllTokens
    BY Distinct DEF Paths
  <2>2. w.balance[from][path[1]] >= n
    BY DEF SwapExact, Has
  <2> QED
    BY <1>1, <1>2, <2>1, <2>2, BalanceTyped
<1>4. ASSUME NEW a, NEW b, path = <<a, b>>, <<a, b>> \in Hops
      PROVE  Quiet(v, w, from, to) /\ (from # to => Debited(v, w, from, a, n))
  <2>1. v = Move(Move(w, a, from, Pair(a, b), n), b, Pair(a, b), to, Out(w, a, b, n))
    BY <1>4 DEF SwapExact, AmountsOut
  <2>2. Pair(a, b) \in Pairs /\ path[1] = a
    BY <1>4, HopPays
  <2> QED
    BY <1>1, <1>3, <1>4, <2>1, <2>2, FirstHop DEF Quiet
<1>5. ASSUME NEW a, NEW b, NEW c, path = <<a, b, c>>, <<a, b>> \in Hops, <<b, c>> \in Hops,
             Pair(a, b) # Pair(b, c)
      PROVE  Quiet(v, w, from, to) /\ (from # to => Debited(v, w, from, a, n))
  <2> DEFINE P == Pair(a, b)
             Q == Pair(b, c)
             k == Out(w, a, b, n)
             m == Out(w, b, c, k)
             u == Move(Move(w, a, from, P, n), b, P, Q, k)
             y == Move(u, c, Q, to, m)
  <2>1. v = y /\ path[1] = a
    BY <1>5 DEF SwapExact, AmountsOut
  <2>2. P \in Pairs /\ Q \in Pairs /\ k \in Nat /\ c \in AllTokens \ {b}
    BY <1>5, HopPays
  <2>3. m \in Nat /\ m < w.balance[Q][c]
    BY <1>5, <2>2, HopPays
  <2>4. Q \in Accounts \ {P} /\ from # Q /\ Q # to
    BY <1>1, <1>5, <2>2, Distinct DEF Pairs, Outside
  <2>5. /\ u \in Worlds /\ Rebalanced(u, w) /\ Liquid(u.balance)
        /\ \A x \in Accounts \ {from, Q, P} : u.balance[x] = w.balance[x]
        /\ Debited(u, w, from, a, n)
        /\ \A s \in AllTokens \ {b} : u.balance[Q][s] = w.balance[Q][s]
    BY <1>3, <1>5, <2>1, <2>4, FirstHop
  <2> HIDE DEF u, P, Q, k, m
  <2>6. m <= u.balance[Q][c] /\ m < u.balance[Q][c]
    <3>1. w.balance[Q][c] \in Nat
      BY <1>2, <2>2, <2>4, BalanceTyped
    <3> QED
      BY <2>2, <2>3, <2>5, <3>1
  <2>7. y \in Worlds /\ Shift(y, u, c, Q, to, m)
    BY <1>1, <2>2, <2>3, <2>4, <2>5, <2>6, Moved
  <2> HIDE DEF y
  <2>8. Liquid(y.balance)
    BY <1>1, <2>2, <2>3, <2>4, <2>5, <2>6, <2>7, ShiftLiquid
  <2>9. Rebalanced(y, w)
    BY <1>2, <2>5, <2>7, RebalancedTwice DEF Shift
  <2>10. \A x \in Panorama \ {from, to} : y.balance[x] = w.balance[x]
    BY <1>1, <2>2, <2>5, <2>7 DEF Shift
  <2>11. ASSUME from # to PROVE Debited(y, w, from, a, n)
    <3>1. y.balance[from] = u.balance[from]
      BY <1>1, <2>4, <2>7, <2>11 DEF Shift
    <3> QED
      BY <2>5, <3>1 DEF Debited
  <2> QED
    BY <2>1, <2>8, <2>9, <2>10, <2>11 DEF Quiet
<1>6. CASE path \in Hops
  <2>1. PICK a, b \in AllTokens : path = <<a, b>>
    BY <1>6, Distinct DEF Hops
  <2> QED
    BY <1>4, <1>6, <2>1
<1>7. CASE path = <<Usdc, Avax, SAvax>>
  <2>1. /\ <<Usdc, Avax>> \in Hops /\ <<Avax, SAvax>> \in Hops
        /\ Pair(Usdc, Avax) # Pair(Avax, SAvax)
    BY Distinct DEF Hops, Pair
  <2>2. path[1] = Usdc
    BY <1>7
  <2> QED
    BY <1>5, <1>7, <2>1, <2>2
<1>8. CASE path = <<SAvax, Avax, Usdc>>
  <2>1. /\ <<SAvax, Avax>> \in Hops /\ <<Avax, Usdc>> \in Hops
        /\ Pair(SAvax, Avax) # Pair(Avax, Usdc)
    BY Distinct DEF Hops, Pair
  <2>2. path[1] = SAvax
    BY <1>8
  <2> QED
    BY <1>5, <1>8, <2>1, <2>2
<1> QED
  BY <1>6, <1>7, <1>8 DEF Paths, Hops

-----------------------------------------------------------------------------
(* Debts and collateral                                                    *)

\* n of a token came in.
Credited(v, w, x, t, n) ==
    \A s \in AllTokens : v.balance[x][s] = w.balance[x][s] + (IF s = t THEN n ELSE 0)

\* The debt of one borrower is set.
LEMMA DebtSet ==
  ASSUME NEW w, Sound(w), NEW who \in Borrowers, NEW q \in Markets, NEW k \in Nat,
         NEW v, v = [w EXCEPT !.debt[who][q] = k], NEW d
  PROVE  After(v, w, who, d) /\ v.balance = w.balance
<1> DEFINE row == [w.debt[who] EXCEPT ![q] = k]
           debts == [w.debt EXCEPT ![who] = row]
<1>1. w \in Worlds /\ w.debt \in [Borrowers -> [Markets -> Nat]]
  BY DEF Sound, Worlds
<1>2. row \in [Markets -> Nat]
  BY <1>1
<1>3. v = [w EXCEPT !.debt = debts]
  BY <1>1 DEF Worlds
<1> HIDE DEF row
<1>4. debts \in [Borrowers -> [Markets -> Nat]] /\ \A x \in Borrowers \ {who} : debts[x] = w.debt[x]
  BY <1>1, <1>2
<1> HIDE DEF debts
<1>5. /\ v \in Worlds /\ v.balance = w.balance /\ v.entered = w.entered /\ v.debt = debts
      /\ v.requests = w.requests /\ v.slots = w.slots /\ v.reordered = w.reordered
      /\ v.rate = w.rate
  BY <1>1, <1>3, <1>4 DEF Worlds
<1> QED
  BY <1>4, <1>5 DEF Sound, After, SameExcept

\* The markets entered by one borrower are set.
LEMMA EnteredSet ==
  ASSUME NEW w, Sound(w), NEW who \in Borrowers, NEW qs \in SUBSET Markets,
         NEW v, v = [w EXCEPT !.entered[who] = qs], NEW d
  PROVE  After(v, w, who, d) /\ v.balance = w.balance /\ v.debt = w.debt
<1> DEFINE all == [w.entered EXCEPT ![who] = qs]
<1>1. w \in Worlds /\ w.entered \in [Borrowers -> SUBSET Markets]
  BY DEF Sound, Worlds
<1>2. v = [w EXCEPT !.entered = all]
  BY <1>1 DEF Worlds
<1>3. all \in [Borrowers -> SUBSET Markets] /\ \A x \in Borrowers \ {who} : all[x] = w.entered[x]
  BY <1>1
<1> HIDE DEF all
<1>4. /\ v \in Worlds /\ v.balance = w.balance /\ v.entered = all /\ v.debt = w.debt
      /\ v.requests = w.requests /\ v.slots = w.slots /\ v.reordered = w.reordered
      /\ v.rate = w.rate
  BY <1>1, <1>2, <1>3 DEF Worlds
<1> QED
  BY <1>3, <1>4 DEF Sound, After, SameExcept

\* Entering markets.
LEMMA Entered ==
  ASSUME NEW w, Sound(w), NEW who \in Borrowers, NEW qs \in SUBSET Markets, NEW d
  PROVE  /\ After(EnterMarkets(w, who, qs), w, who, d)
         /\ EnterMarkets(w, who, qs).balance = w.balance
         /\ EnterMarkets(w, who, qs).debt = w.debt
<1>1. w.entered[who] \cup qs \in SUBSET Markets
  BY DEF Sound, Worlds
<1>2. EnterMarkets(w, who, qs) = [w EXCEPT !.entered[who] = w.entered[who] \cup qs]
  BY DEF EnterMarkets
<1> QED
  BY <1>1, <1>2, EnteredSet

\* Leaving one.
LEMMA Exited ==
  ASSUME NEW w, Sound(w), NEW who \in Borrowers, NEW q, NEW d
  PROVE  /\ After(ExitMarket(w, who, q), w, who, d)
         /\ ExitMarket(w, who, q).balance = w.balance
<1> DEFINE v == [w EXCEPT !.entered[who] = w.entered[who] \ {q}]
<1>1. w.entered[who] \ {q} \in SUBSET Markets
  BY DEF Sound, Worlds
<1>2. ExitMarket(w, who, q) \in {v, w}
  BY DEF ExitMarket
<1>3. After(v, w, who, d) /\ v.balance = w.balance
  <2>1. v = [w EXCEPT !.entered[who] = w.entered[who] \ {q}]
    OBVIOUS
  <2> HIDE DEF v
  <2> QED
    BY <1>1, <2>1, EnteredSet
<1>4. After(w, w, who, d)
  BY QuietSame
<1> HIDE DEF v
<1> QED
  BY <1>2, <1>3, <1>4

\* A borrower gets what is borrowed.
LEMMA Borrowed ==
  ASSUME NEW w, Sound(w), NEW who \in Borrowers, NEW q \in Markets, NEW n \in Nat,
         NEW v \in Borrow(w, who, q, n), NEW d
  PROVE  After(v, w, who, d) /\ Credited(v, w, who, Underlying(q), n)
<1> DEFINE t == Underlying(q)
           u == Move(w, t, q, who, n)
           k == u.debt[who][q] + n
<1>1. /\ t \in AllTokens /\ q \in Accounts /\ who \in Accounts /\ who # q
      /\ who \in Insiders /\ q \in Insiders /\ {q, who} \cap Panorama = {who}
  BY MarketsTyped, Distinct DEF Borrowers, Panorama, Insiders
<1>2. n <= w.balance[q][t] /\ v = [u EXCEPT !.debt[who][q] = u.debt[who][q] + n]
  <2>1. w.balance[q][t] \in Nat
    BY <1>1, BalanceTyped DEF Sound
  <2> QED
    BY <2>1 DEF Borrow, Has
<1> HIDE DEF t
<1>3. u \in Worlds /\ Shift(u, w, t, q, who, n)
  BY <1>1, <1>2, Moved DEF Sound
<1> HIDE DEF u
<1>4. Quiet(u, w, who, d)
  BY <1>1, <1>3, ShiftQuiet
<1>5. Sound(u) /\ After(u, w, who, d)
  BY <1>4, QuietSound
<1>6. k \in Nat
  BY <1>3 DEF Worlds
<1> HIDE DEF k
<1>7. v = [u EXCEPT !.debt[who][q] = k]
  BY <1>2 DEF k
<1>8. After(v, u, who, d) /\ v.balance = u.balance
  BY <1>5, <1>6, <1>7, DebtSet
<1>9. After(v, w, who, d)
  BY <1>5, <1>8, AfterTwice
<1>10. \A s \in AllTokens : w.balance[who][s] \in Nat
  BY <1>1, BalanceTyped DEF Sound
<1>11. Credited(v, w, who, t, n)
  BY <1>3, <1>8, <1>10 DEF Shift, Credited
<1> QED
  BY <1>9, <1>11 DEF t

\* A borrower pays what is repaid, at most what is owed.
LEMMA Repaid ==
  ASSUME NEW w, Sound(w), NEW who \in Borrowers, NEW q \in Markets, NEW n \in Nat,
         NEW v \in RepayBorrow(w, who, q, n), NEW d
  PROVE  /\ After(v, w, who, d) /\ Debited(v, w, who, Underlying(q), n)
         /\ n <= w.debt[who][q] /\ v.debt[who][q] = w.debt[who][q] - n
         /\ \A r \in Markets \ {q} : v.debt[who][r] = w.debt[who][r]
         /\ \A x \in Accounts \ {who, q} : v.balance[x] = w.balance[x]
         /\ v.balance[q][Underlying(q)] = w.balance[q][Underlying(q)] + n
<1> DEFINE t == Underlying(q)
           u == Move(w, t, who, q, n)
           k == u.debt[who][q] - n
<1>1. /\ t \in AllTokens /\ q \in Accounts /\ who \in Accounts /\ who # q
      /\ who \in Insiders /\ q \in Insiders /\ {q, who} \cap Panorama = {who}
  BY MarketsTyped, Distinct DEF Borrowers, Panorama, Insiders
<1>2. /\ n <= w.balance[who][t] /\ v = [u EXCEPT !.debt[who][q] = u.debt[who][q] - n]
      /\ n <= w.debt[who][q]
  <2>1. w.balance[who][t] \in Nat
    BY <1>1, BalanceTyped DEF Sound
  <2> QED
    BY <2>1 DEF RepayBorrow, Has
<1> HIDE DEF t
<1>3. u \in Worlds /\ Shift(u, w, t, who, q, n)
  BY <1>1, <1>2, Moved DEF Sound
<1> HIDE DEF u
<1>4. Quiet(u, w, who, d)
  BY <1>1, <1>3, ShiftQuiet
<1>5. Sound(u) /\ After(u, w, who, d) /\ u.debt = w.debt
  BY <1>4, QuietSound
<1>6. k \in Nat
  BY <1>2, <1>3, <1>5 DEF Worlds
<1> HIDE DEF k
<1>7. v = [u EXCEPT !.debt[who][q] = k]
  BY <1>2 DEF k
<1>8. After(v, u, who, d) /\ v.balance = u.balance
  BY <1>5, <1>6, <1>7, DebtSet
<1>9. After(v, w, who, d)
  BY <1>5, <1>8, AfterTwice
<1>10. \A s \in AllTokens : w.balance[who][s] \in Nat
  BY <1>1, BalanceTyped DEF Sound
<1>11. Debited(v, w, who, t, n)
  BY <1>3, <1>8, <1>10 DEF Shift, Debited
<1>12. /\ \A x \in Accounts \ {who, q} : v.balance[x] = w.balance[x]
       /\ v.balance[q][t] = w.balance[q][t] + n
  BY <1>3, <1>8 DEF Shift
<1>13. /\ v.debt[who][q] = w.debt[who][q] - n
       /\ \A r \in Markets \ {q} : v.debt[who][r] = w.debt[who][r]
  BY <1>5, <1>6, <1>7 DEF k, Sound, Worlds
<1> QED
  BY <1>2, <1>9, <1>11, <1>12, <1>13 DEF t

-----------------------------------------------------------------------------
(* Unlock requests                                                         *)

\* A request and its slot are added.
LEMMA SlotsGrow ==
  ASSUME NEW R, NEW S, NEW rs \in Seq(R), NEW ss \in Seq(S), SlotsOK(rs, ss),
         NEW r \in R, NEW s \in S, s.index = Len(rs), s.id = r.id,
         \A x \in S : x.index \in Nat
  PROVE  SlotsOK(Append(rs, r), Append(ss, s))
<1> DEFINE rs1 == Append(rs, r)
           ss1 == Append(ss, s)
<1>1. /\ Len(rs1) = Len(rs) + 1 /\ rs1[Len(rs) + 1] = r
      /\ \A i \in 1 .. Len(rs) : rs1[i] = rs[i]
  BY Appended
<1>2. /\ ss1 \in Seq(S) /\ Len(ss1) = Len(ss) + 1 /\ ss1[Len(ss) + 1] = s
      /\ \A i \in 1 .. Len(ss) : ss1[i] = ss[i]
  BY Appended
<1>3. Len(rs) \in Nat /\ Len(ss) \in Nat /\ DOMAIN ss1 = 1 .. Len(ss1) /\ DOMAIN ss = 1 .. Len(ss)
  BY <1>2
<1> HIDE DEF rs1, ss1
<1>4. \A i \in 1 .. Len(ss) : /\ ss[i].index \in Nat /\ ss[i].index < Len(rs)
                              /\ rs[ss[i].index + 1].id = ss[i].id
  BY <1>3 DEF SlotsOK
<1>5. ASSUME NEW i \in DOMAIN ss1
      PROVE  /\ ss1[i].index < Len(rs1) /\ rs1[ss1[i].index + 1].id = ss1[i].id
             /\ i \in 1 .. Len(ss) => ss1[i] = ss[i] /\ ss1[i].index < Len(rs)
             /\ i \notin 1 .. Len(ss) => i = Len(ss) + 1 /\ ss1[i].index = Len(rs)
  <2>1. CASE i = Len(ss) + 1
    BY <1>1, <1>2, <1>3, <2>1
  <2>2. CASE i # Len(ss) + 1
    <3>1. i \in 1 .. Len(ss)
      BY <1>2, <1>3, <2>2
    <3>2. ss1[i] = ss[i]
      BY <1>2, <3>1
    <3> DEFINE k == ss[i].index
    <3>3. k \in Nat /\ k < Len(rs) /\ rs[k + 1].id = ss[i].id
      BY <1>4, <3>1
    <3> HIDE DEF k
    <3>4. k + 1 \in 1 .. Len(rs) /\ k < Len(rs1)
      BY <1>1, <1>3, <3>3
    <3>5. rs1[k + 1] = rs[k + 1]
      BY <1>1, <3>4
    <3> QED
      BY <3>1, <3>2, <3>3, <3>4, <3>5 DEF k
  <2> QED
    BY <2>1, <2>2
<1>6. ASSUME NEW i \in DOMAIN ss1, NEW j \in DOMAIN ss1, ss1[i].index = ss1[j].index
      PROVE  i = j
  <2>1. \A k \in DOMAIN ss : \A l \in DOMAIN ss : ss[k].index = ss[l].index => k = l
    BY DEF SlotsOK
  <2> QED
    BY <1>3, <1>5, <1>6, <2>1
<1>7. Len(ss1) = Len(rs1)
  BY <1>1, <1>2 DEF SlotsOK
<1> QED
  BY <1>5, <1>6, <1>7 DEF SlotsOK, rs1, ss1

\* The last request goes, with the slot that leads to it.
LEMMA SlotsShrink ==
  ASSUME NEW R, NEW S, NEW rs \in Seq(R), NEW ss \in Seq(S), SlotsOK(rs, ss),
         \A x \in S : x.index \in Nat, NEW pos \in Nat, pos < Len(ss),
         NEW at, at = ss[pos + 1].index, at + 1 = Len(rs)
  PROVE  SlotsOK(SwapAndPop(rs, at), SwapAndPop(ss, pos))
<1> DEFINE rs1 == SwapAndPop(rs, at)
           ss1 == SwapAndPop(ss, pos)
<1>1. Len(rs) \in Nat /\ Len(ss) \in Nat /\ DOMAIN ss = 1 .. Len(ss) /\ pos + 1 \in 1 .. Len(ss)
  OBVIOUS
<1>2. at \in Nat /\ at < Len(rs)
  BY <1>1
<1>3. /\ Len(rs1) = Len(rs) - 1
      /\ \A j \in 1 .. Len(rs1) : rs1[j] = rs[Source(rs, at, j)]
  BY <1>2, Popped
<1>4. /\ ss1 \in Seq(S) /\ Len(ss1) = Len(ss) - 1
      /\ \A j \in 1 .. Len(ss1) :
           /\ Source(ss, pos, j) \in (1 .. Len(ss)) \ {pos + 1}
           /\ ss1[j] = ss[Source(ss, pos, j)]
           /\ \A k \in 1 .. Len(ss1) : j # k => Source(ss, pos, j) # Source(ss, pos, k)
  BY Popped
<1>5. DOMAIN ss1 = 1 .. Len(ss1)
  BY <1>4
<1> HIDE DEF rs1, ss1
<1>6. \A j \in 1 .. at : rs1[j] = rs[j] /\ Len(rs1) = at
  BY <1>1, <1>2, <1>3 DEF Source
<1>7. \A i \in 1 .. Len(ss) : /\ ss[i].index \in Nat /\ ss[i].index < Len(rs)
                              /\ rs[ss[i].index + 1].id = ss[i].id
                              /\ i # pos + 1 => ss[i].index # at
  BY <1>1 DEF SlotsOK
<1>8. ASSUME NEW j \in DOMAIN ss1
      PROVE  ss1[j].index < Len(rs1) /\ rs1[ss1[j].index + 1].id = ss1[j].id
  <2> DEFINE i == Source(ss, pos, j)
             k == ss[i].index
  <2>1. i \in (1 .. Len(ss)) \ {pos + 1} /\ ss1[j] = ss[i]
    BY <1>4, <1>5
  <2> HIDE DEF i
  <2>2. k \in Nat /\ k < Len(rs) /\ rs[k + 1].id = ss[i].id /\ k # at
    BY <1>7, <2>1
  <2> HIDE DEF k
  <2>3. k + 1 \in 1 .. at /\ Len(rs1) = at
    BY <1>1, <1>2, <1>3, <2>2
  <2>4. rs1[k + 1] = rs[k + 1]
    BY <1>6, <2>3
  <2> QED
    BY <1>2, <2>1, <2>2, <2>3, <2>4 DEF k
<1>9. ASSUME NEW i \in DOMAIN ss1, NEW j \in DOMAIN ss1, ss1[i].index = ss1[j].index
      PROVE  i = j
  <2>1. \A k \in DOMAIN ss : \A l \in DOMAIN ss : ss[k].index = ss[l].index => k = l
    BY DEF SlotsOK
  <2> DEFINE k == Source(ss, pos, i)
             l == Source(ss, pos, j)
  <2>2. k \in DOMAIN ss /\ l \in DOMAIN ss /\ ss1[i] = ss[k] /\ ss1[j] = ss[l]
    BY <1>1, <1>4, <1>5
  <2>3. i # j => k # l
    BY <1>4, <1>5
  <2> HIDE DEF k, l
  <2>4. k = l
    BY <1>9, <2>1, <2>2
  <2> QED
    BY <2>3, <2>4
<1>10. Len(ss1) = Len(rs1)
  BY <1>3, <1>4 DEF SlotsOK
<1> QED
  BY <1>8, <1>9, <1>10 DEF SlotsOK, rs1, ss1

\* A world in which tokens move and one account's requests change.
Requested(w, b, who, rs, ss, m, late) ==
    [w EXCEPT !.balance = b, !.requests = [w.requests EXCEPT ![who] = rs],
              !.slots = [w.slots EXCEPT ![who] = ss], !.made = m, !.reordered = late]

\* One that keeps slots and requests together.
Fitting(w, b, who, rs, ss, m, late) ==
    /\ rs \in Seq(Request(1 .. MaxRequests, Adapters))
    /\ ss \in Seq([index : Nat, id : 1 .. MaxRequests]) /\ m \in 0 .. MaxRequests
    /\ late \in SUBSET Adapters /\ w.reordered \subseteq late /\ late \subseteq w.reordered \cup {who}
    /\ who \notin late => SlotsOK(rs, ss)
    /\ b \in Balances /\ Liquid(b)

\* It is sound, too.
LEMMA UnlocksSet ==
  ASSUME NEW w, Sound(w), NEW who \in Adapters, NEW b, NEW rs, NEW ss, NEW m, NEW late,
         Fitting(w, b, who, rs, ss, m, late),
         NEW v, v = Requested(w, b, who, rs, ss, m, late)
  PROVE  Sound(v) /\ SameExcept(v, w, who) /\ v.balance = b
<1> DEFINE requests1 == [w.requests EXCEPT ![who] = rs]
           slots1 == [w.slots EXCEPT ![who] = ss]
<1>1. /\ w \in Worlds
      /\ w.requests \in [Adapters -> Seq(Request(1 .. MaxRequests, Adapters))]
      /\ w.slots \in [Adapters -> Seq([index : Nat, id : 1 .. MaxRequests])]
  BY DEF Sound, Worlds
<1>2. /\ rs \in Seq(Request(1 .. MaxRequests, Adapters))
      /\ ss \in Seq([index : Nat, id : 1 .. MaxRequests]) /\ m \in 0 .. MaxRequests
      /\ late \in SUBSET Adapters /\ w.reordered \subseteq late
      /\ late \subseteq w.reordered \cup {who} /\ who \notin late => SlotsOK(rs, ss)
      /\ b \in Balances /\ Liquid(b)
  BY DEF Fitting
<1>3. /\ requests1 \in [Adapters -> Seq(Request(1 .. MaxRequests, Adapters))]
      /\ requests1[who] = rs /\ \A x \in Adapters \ {who} : requests1[x] = w.requests[x]
  BY <1>1, <1>2
<1>4. /\ slots1 \in [Adapters -> Seq([index : Nat, id : 1 .. MaxRequests])]
      /\ slots1[who] = ss /\ \A x \in Adapters \ {who} : slots1[x] = w.slots[x]
  BY <1>1, <1>2
<1> HIDE DEF requests1, slots1
<1>5. v = [w EXCEPT !.balance = b, !.requests = requests1, !.slots = slots1, !.made = m,
                    !.reordered = late]
  BY DEF requests1, slots1, Requested
<1>6. /\ v \in Worlds /\ v.balance = b /\ v.requests = requests1 /\ v.slots = slots1
      /\ v.reordered = late /\ v.debt = w.debt /\ v.entered = w.entered /\ v.rate = w.rate
  BY <1>1, <1>3, <1>4, <1>5, <1>2 DEF Worlds, Balances
<1>7. \A a \in Adapters \ late : SlotsOK(requests1[a], slots1[a])
  <2> SUFFICES ASSUME NEW a \in Adapters \ late PROVE SlotsOK(requests1[a], slots1[a])
    OBVIOUS
  <2>1. CASE a = who
    <3>1. requests1[a] = rs /\ slots1[a] = ss /\ who \notin late
      BY <1>3, <1>4, <2>1
    <3>2. who \notin late => SlotsOK(rs, ss)
      BY DEF Fitting
    <3>3. SlotsOK(rs, ss)
      BY <3>1, <3>2, Zenon
    <3> QED
      BY <3>1, <3>3, Zenon
  <2>2. CASE a # who
    BY <1>3, <1>4, <1>2, <2>2 DEF Sound
  <2> QED
    BY <2>1, <2>2
<1> QED
  BY <1>3, <1>4, <1>6, <1>7, <1>2 DEF Sound, SameExcept

\* A slot for the request made next.
WithSlot(x, w, who) ==
    [x EXCEPT !.slots[who] = Append(@, [index |-> Len(w.requests[who]), id |-> w.made + 1])]

\* A transfer of sAVAX to sAVAX, a request and a slot for it.
LEMMA Unlocked ==
  ASSUME NEW w, Sound(w), NEW who \in Adapters, NEW n \in Nat \ {0},
         NEW x \in RequestUnlock(w, who, n), NEW v, v = WithSlot(x, w, who),
         v.made <= MaxRequests, NEW d
  PROVE  After(v, w, who, d) /\ Debited(v, w, who, SAvax, n) /\ v.debt = w.debt
<1> DEFINE u == Move(w, SAvax, who, SAvax, n)
           r == [id |-> w.made + 1, amount |-> n, by |-> who]
           s == [index |-> Len(w.requests[who]), id |-> w.made + 1]
           m == w.made + 1
           rs == Append(w.requests[who], r)
           ss == Append(w.slots[who], s)
<1>1. /\ SAvax \in AllTokens /\ SAvax \in Accounts /\ who \in Accounts /\ who # SAvax
      /\ who \in Insiders /\ SAvax \in Insiders /\ {who, SAvax} \cap Panorama \subseteq {who, d}
  BY Distinct DEF Insiders, Outside, Panorama
<1>2. /\ n <= w.balance[who][SAvax]
      /\ x = [u EXCEPT !.requests[who] = Append(@, r), !.made = @ + 1]
  <2>1. w.balance[who][SAvax] \in Nat
    BY <1>1, BalanceTyped DEF Sound
  <2> QED
    BY <2>1 DEF RequestUnlock, Has
<1>3. u \in Worlds /\ Shift(u, w, SAvax, who, SAvax, n)
  BY <1>1, <1>2, Moved DEF Sound
<1> HIDE DEF u
<1>4. Quiet(u, w, who, d)
  BY <1>1, <1>3, ShiftQuiet
<1>5. Sound(u) /\ After(u, w, who, d) /\ u.requests = w.requests /\ u.slots = w.slots /\ u.debt = w.debt
  BY <1>4, QuietSound
<1>6. u.made = w.made /\ u.reordered = w.reordered
  BY <1>3, RebalancedWorld DEF Shift, Sound
<1> HIDE DEF r, s
<1>7. v = [u EXCEPT !.requests = [u.requests EXCEPT ![who] = rs],
                    !.slots = [u.slots EXCEPT ![who] = ss], !.made = m]
  BY <1>2, <1>3, <1>5, <1>6 DEF Worlds, WithSlot, s
<1> HIDE DEF rs, ss, m
<1>8. /\ v = [u EXCEPT !.balance = u.balance, !.requests = [u.requests EXCEPT ![who] = rs],
                    !.slots = [u.slots EXCEPT ![who] = ss], !.made = m,
                    !.reordered = u.reordered]
      /\ v.made = m /\ v.debt = w.debt
  BY <1>3, <1>5, <1>7 DEF Worlds
<1>9. m \in 1 .. MaxRequests /\ MaxRequests \in Nat /\ w.made \in Nat
  <2>1. w.made \in 0 .. MaxRequests /\ MaxRequests \in Nat
    BY AvaxAssumption DEF Sound, Worlds
  <2> QED
    BY <1>8, <2>1 DEF m
<1>10. /\ w.requests[who] \in Seq(Request(1 .. MaxRequests, Adapters))
       /\ w.slots[who] \in Seq([index : Nat, id : 1 .. MaxRequests])
  BY DEF Sound, Worlds
<1>11. r \in Request(1 .. MaxRequests, Adapters) /\ s \in [index : Nat, id : 1 .. MaxRequests]
       /\ s.index = Len(w.requests[who]) /\ s.id = r.id
  BY <1>9, <1>10 DEF r, s, m, Request
<1>12. /\ rs \in Seq(Request(1 .. MaxRequests, Adapters))
       /\ ss \in Seq([index : Nat, id : 1 .. MaxRequests])
  BY <1>10, <1>11, Appended DEF rs, ss
<1>13. who \notin u.reordered => SlotsOK(rs, ss)
  <2>1. \A y \in [index : Nat, id : 1 .. MaxRequests] : y.index \in Nat
    OBVIOUS
  <2>2. who \notin u.reordered => SlotsOK(w.requests[who], w.slots[who])
    BY <1>6 DEF Sound
  <2> QED
    BY <1>10, <1>11, <2>1, <2>2, SlotsGrow DEF rs, ss
<1>14. u.balance \in Balances /\ Liquid(u.balance) /\ m \in 0 .. MaxRequests
       /\ u.reordered \in SUBSET Adapters
  BY <1>5, <1>9 DEF Sound, Worlds, Balances
<1>15. Sound(v) /\ SameExcept(v, u, who) /\ v.balance = u.balance
  <2>1. v = Requested(u, u.balance, who, rs, ss, m, u.reordered)
    BY <1>8 DEF Requested
  <2>2. Fitting(u, u.balance, who, rs, ss, m, u.reordered)
    BY <1>12, <1>13, <1>14 DEF Fitting
  <2> QED
    BY <1>5, <2>1, <2>2, UnlocksSet
<1>16. After(v, u, who, d)
  BY <1>15 DEF After
<1>17. After(v, w, who, d)
  BY <1>5, <1>16, AfterTwice
<1>18. Debited(v, w, who, SAvax, n)
  <2>1. Debited(u, w, who, SAvax, n)
    BY <1>1, <1>3, ShiftDebits DEF Sound
  <2> QED
    BY <1>15, <2>1 DEF Debited
<1> QED
  BY <1>8, <1>17, <1>18

\* A slot less.
WithoutSlot(w, who, pos) == [w EXCEPT !.slots[who] = SwapAndPop(@, pos)]

\* Who has redeemed another request than the last.
Late(w, who, at) ==
    IF at + 1 < Len(w.requests[who]) THEN w.reordered \cup {who} ELSE w.reordered

\* The staked tokens are paid out and the shares burnt.
PaidOut(w, who, k) ==
    LET u == Move(w, Avax, SAvax, who, k)
    IN  [u EXCEPT !.balance[SAvax][SAvax] = u.balance[SAvax][SAvax] - k]

\* Two worlds with the same balances have the same balances after the same transfer.
LEMMA SameMove ==
  ASSUME NEW w \in Worlds, NEW p \in Worlds, p.balance = w.balance, NEW t \in AllTokens,
         NEW from \in Accounts, NEW to \in Accounts, from # to, NEW k \in Nat,
         k <= w.balance[from][t]
  PROVE  LET m == Move(p, t, from, to, k)
             u == Move(w, t, from, to, k)
         IN  m.balance = u.balance /\ m = [p EXCEPT !.balance = u.balance]
<1> DEFINE m == Move(p, t, from, to, k)
           u == Move(w, t, from, to, k)
<1>1. u \in Worlds /\ Shift(u, w, t, from, to, k)
  BY Moved
<1>2. m \in Worlds /\ Shift(m, p, t, from, to, k)
  BY Moved
<1> HIDE DEF m, u
<1>3. \A x \in Accounts, s \in AllTokens : m.balance[x][s] = u.balance[x][s]
  BY <1>1, <1>2 DEF Shift
<1>4. m.balance \in Balances /\ u.balance \in Balances
  BY <1>1, <1>2 DEF Worlds, Balances
<1>5. m.balance = u.balance
  <2> DEFINE b == m.balance
             c == u.balance
  <2>1. b \in Balances /\ c \in Balances /\ \A x \in Accounts, s \in AllTokens : b[x][s] = c[x][s]
    BY <1>3, <1>4
  <2> HIDE DEF b, c
  <2>2. \A x \in Accounts : b[x] \in [AllTokens -> Nat] /\ c[x] \in [AllTokens -> Nat]
    BY <2>1 DEF Balances
  <2>3. \A x \in Accounts : b[x] = c[x]
    BY <2>1, <2>2
  <2>4. b = c
    BY <2>1, <2>3 DEF Balances
  <2> QED
    BY <2>4 DEF b, c
<1>6. m = [p EXCEPT !.balance = m.balance]
  BY <1>2 DEF Shift, Rebalanced
<1> QED
  BY <1>5, <1>6 DEF m, u

\* A redemption in these terms.
LEMMA RedeemedWorld ==
  ASSUME NEW w \in Worlds, NEW who \in Adapters, NEW pos \in Nat, pos < Len(w.slots[who]),
         NEW at \in Nat, NEW v, v \in RedeemUnlocked(WithoutSlot(w, who, pos), who, at)
  PROVE  LET k == w.requests[who][at + 1].amount IN
         /\ at < Len(w.requests[who]) /\ k \in Nat
         /\ w.balance[SAvax][Avax] >= k /\ w.balance[SAvax][SAvax] >= k
         /\ v = Requested(w, PaidOut(w, who, k).balance, who, SwapAndPop(w.requests[who], at),
                          SwapAndPop(w.slots[who], pos), w.made, Late(w, who, at))
<1> DEFINE p == WithoutSlot(w, who, pos)
           k == w.requests[who][at + 1].amount
           m == Move(p, Avax, SAvax, who, k)
           u == Move(w, Avax, SAvax, who, k)
           b1 == u.balance
           b2 == [b1 EXCEPT ![SAvax][SAvax] = @ - k]
           sl == [w.slots EXCEPT ![who] = SwapAndPop(w.slots[who], pos)]
           rq == [w.requests EXCEPT ![who] = SwapAndPop(w.requests[who], at)]
           late == Late(w, who, at)
<1>1. p = [w EXCEPT !.slots = sl]
  BY DEF WithoutSlot, Worlds
<1>2. sl \in [Adapters -> Seq([index : Nat, id : 1 .. MaxRequests])]
  <2>1. w.slots[who] \in Seq([index : Nat, id : 1 .. MaxRequests])
    BY DEF Worlds
  <2>2. SwapAndPop(w.slots[who], pos) \in Seq([index : Nat, id : 1 .. MaxRequests])
    BY <2>1, Popped
  <2> QED
    BY <2>2 DEF Worlds
<1> HIDE DEF sl
<1>3. p \in Worlds
  BY <1>1, <1>2 DEF Worlds
<1>4. p.requests = w.requests /\ p.balance = w.balance /\ p.reordered = w.reordered
  BY <1>1 DEF Worlds
<1>5. at < Len(w.requests[who]) /\ w.balance[SAvax][Avax] >= k /\ w.balance[SAvax][SAvax] >= k
  BY <1>4 DEF RedeemUnlocked, Redeemable, Has
<1>6. v = [m EXCEPT !.balance[SAvax][SAvax] = @ - k,
                     !.requests[who] = SwapAndPop(@, at),
                     !.reordered = IF at + 1 < Len(p.requests[who]) THEN @ \cup {who} ELSE @]
  BY <1>4 DEF RedeemUnlocked, Redeemable, Has
<1>7. k \in Nat
  <2>1. w.requests[who] \in Seq(Request(1 .. MaxRequests, Adapters))
    BY DEF Worlds
  <2>2. at + 1 \in 1 .. Len(w.requests[who])
    BY <1>5, <2>1
  <2>3. w.requests[who][at + 1] \in Request(1 .. MaxRequests, Adapters)
    BY <2>1, <2>2
  <2> QED
    BY <2>3 DEF Request
<1> HIDE DEF p, k
<1>8. /\ Avax \in AllTokens /\ SAvax \in AllTokens /\ SAvax \in Accounts /\ who \in Accounts
       /\ SAvax # who
  BY Distinct DEF Outside, Panorama
<1>9. k <= w.balance[SAvax][Avax] /\ k <= w.balance[SAvax][SAvax]
  <2>1. w.balance[SAvax][Avax] \in Nat /\ w.balance[SAvax][SAvax] \in Nat
    BY <1>8, BalanceTyped
  <2> QED
    BY <1>5, <1>7, <2>1
<1>10. m.balance = b1 /\ m = [p EXCEPT !.balance = b1]
  BY <1>4, <1>3, <1>7, <1>8, <1>9, SameMove
<1>11. u \in Worlds
  BY <1>7, <1>8, <1>9, Moved
<1> HIDE DEF m, u
<1>12. m = [w EXCEPT !.slots = sl, !.balance = b1]
  BY <1>1, <1>10 DEF Worlds
<1>13. m.requests = w.requests /\ m.reordered = w.reordered
  BY <1>12 DEF Worlds
<1> HIDE DEF b1
<1>14. v = [m EXCEPT !.balance = b2, !.requests = rq, !.reordered = late]
  BY <1>4, <1>12, <1>13, <1>10, <1>6 DEF Worlds, Late
<1>15. PaidOut(w, who, k).balance = b2
  BY <1>11 DEF PaidOut, Worlds, u, b1
<1> HIDE DEF b2, rq, late
<1>16. v = [w EXCEPT !.balance = b2, !.requests = rq, !.slots = sl, !.made = w.made,
                    !.reordered = late]
  BY <1>12, <1>14 DEF Worlds
<1> QED
  BY <1>5, <1>15, <1>16, <1>7, <1>9 DEF Requested, rq, sl, late, k

\* A redemption pays the account and keeps slots and requests together, unless it has taken
\* another request than the last.
LEMMA UnlockRedeemed ==
  ASSUME NEW w, Sound(w), NEW who \in Adapters, NEW pos \in Nat, pos < Len(w.slots[who]),
         NEW v \in RedeemUnlocked(WithoutSlot(w, who, pos), who, w.slots[who][pos + 1].index),
         NEW d
  PROVE  After(v, w, who, d) /\ \E k \in Nat : Credited(v, w, who, Avax, k)
<1> DEFINE at == w.slots[who][pos + 1].index
           k == w.requests[who][at + 1].amount
           rs == w.requests[who]
           ss == w.slots[who]
           rs1 == SwapAndPop(rs, at)
           ss1 == SwapAndPop(ss, pos)
           late == Late(w, who, at)
           u == Move(w, Avax, SAvax, who, k)
           y == PaidOut(w, who, k)
           R == Request(1 .. MaxRequests, Adapters)
           S == [index : Nat, id : 1 .. MaxRequests]
<1>1. w \in Worlds /\ rs \in Seq(R) /\ ss \in Seq(S) /\ w.reordered \in SUBSET Adapters
      /\ w.made \in 0 .. MaxRequests
  BY DEF Sound, Worlds
<1>2. at \in Nat
  <2>1. pos + 1 \in 1 .. Len(ss)
    BY <1>1
  <2> HIDE DEF ss, S
  <2>2. ss[pos + 1] \in S
    BY <1>1, <2>1
  <2> QED
    BY <2>2 DEF ss, S
<1>3. at = ss[pos + 1].index
  BY Zenon
<1> HIDE DEF at
<1>4. /\ at < Len(rs) /\ k \in Nat
      /\ w.balance[SAvax][Avax] >= k /\ w.balance[SAvax][SAvax] >= k
      /\ v = Requested(w, y.balance, who, rs1, ss1, w.made, late)
  <2>1. v \in RedeemUnlocked(WithoutSlot(w, who, pos), who, at)
    BY <1>3
  <2> QED
    BY <1>1, <1>2, <2>1, RedeemedWorld
<1>5. /\ Avax \in AllTokens /\ SAvax \in AllTokens \ {Avax} /\ SAvax \in Accounts
      /\ who \in Accounts /\ SAvax # who /\ who \in Insiders /\ SAvax \in Insiders
      /\ {SAvax, who} \cap Panorama \subseteq {who, d}
  BY Distinct DEF Outside, Panorama, Insiders
<1> HIDE DEF k
<1>6. u \in Worlds /\ Shift(u, w, Avax, SAvax, who, k)
  <2>1. w.balance[SAvax][Avax] \in Nat
    BY <1>1, <1>5, BalanceTyped
  <2>2. k <= w.balance[SAvax][Avax]
    BY <1>4, <2>1
  <2> QED
    BY <1>1, <1>4, <1>5, <2>2, Moved
<1>7. y = [u EXCEPT !.balance[SAvax][SAvax] = u.balance[SAvax][SAvax] - k]
  BY DEF PaidOut
<1> HIDE DEF u, y
<1>8. Quiet(u, w, who, d)
  BY <1>5, <1>6, ShiftQuiet
<1>9. Sound(u)
  BY <1>8, QuietSound
<1> DEFINE n == u.balance[SAvax][SAvax] - k
<1>10. n \in Nat
  <2>1. u.balance[SAvax][SAvax] = w.balance[SAvax][SAvax]
    BY <1>5, <1>6 DEF Shift
  <2>2. w.balance[SAvax][SAvax] \in Nat
    BY <1>1, <1>5, BalanceTyped
  <2> QED
    BY <1>4, <2>1, <2>2
<1>11. y = [u EXCEPT !.balance[SAvax][SAvax] = n]
  BY <1>7
<1> HIDE DEF n
<1>12. /\ Rebalanced(y, u) /\ \A x \in Accounts \ {SAvax} : y.balance[x] = u.balance[x]
  BY <1>5, <1>6, <1>10, <1>11, EntrySet
<1>13. y.balance \in Balances /\ Liquid(y.balance)
  <2>1. {JoeUsdc, JoeSAvax} \subseteq Accounts \ {SAvax}
    BY Distinct DEF Outside
  <2>2. y.balance[JoeUsdc] = u.balance[JoeUsdc] /\ y.balance[JoeSAvax] = u.balance[JoeSAvax]
    BY <1>12, <2>1
  <2> QED
    BY <1>9, <1>12, <2>2, PairsStay DEF Rebalanced, Sound
<1>14. rs1 \in Seq(R) /\ ss1 \in Seq(S)
  BY <1>1, <1>2, <1>4, Popped
<1>15. late \in SUBSET Adapters /\ w.reordered \subseteq late /\ late \subseteq w.reordered \cup {who}
  BY <1>1 DEF Late
<1>16. ASSUME who \notin late PROVE SlotsOK(rs1, ss1)
  <2>1. who \notin w.reordered /\ ~(at + 1 < Len(rs))
    BY <1>16 DEF Late
  <2>2. SlotsOK(rs, ss)
    BY <2>1 DEF Sound
  <2>3. at + 1 = Len(rs)
    BY <1>1, <1>2, <1>4, <2>1
  <2>4. \A x \in S : x.index \in Nat
    OBVIOUS
  <2> HIDE DEF rs, ss, R, S
  <2> QED
    BY <1>1, <1>3, <2>2, <2>3, <2>4, SlotsShrink DEF ss
<1>17. Fitting(w, y.balance, who, rs1, ss1, w.made, late)
  BY <1>1, <1>13, <1>14, <1>15, <1>16 DEF Fitting
<1> HIDE DEF rs1, ss1, late
<1>18. Sound(v) /\ SameExcept(v, w, who) /\ v.balance = y.balance
  BY <1>4, <1>17, UnlocksSet
<1>19. \A x \in Panorama \ {who, d} : v.balance[x] = w.balance[x]
  <2>1. SAvax \notin Panorama /\ Panorama \subseteq Accounts
    BY Distinct DEF Outside
  <2> QED
    BY <1>8, <1>12, <1>18, <2>1 DEF Quiet
<1>20. Credited(v, w, who, Avax, k)
  <2>1. \A s \in AllTokens : w.balance[who][s] \in Nat
    BY <1>1, <1>5, BalanceTyped
  <2>2. v.balance[who] = u.balance[who]
    BY <1>5, <1>12, <1>18
  <2> QED
    BY <1>6, <2>1, <2>2 DEF Shift, Credited
<1> QED
  BY <1>4, <1>18, <1>19, <1>20 DEF After

-----------------------------------------------------------------------------
(* The adapters' modules mean the same protocols                           *)

\* Those of the lending adapter.
LEMMA BenqiSame ==
  /\ \A w, t, a, b, n : BenqiLend!Move(w, t, a, b, n) = Move(w, t, a, b, n)
  /\ \A q : BenqiLend!Underlying(q) = Underlying(q)
  /\ \A q : BenqiLend!HasUnderlying(q) = HasUnderlying(q)
  /\ \A w, who, q, n : BenqiLend!Mint(w, who, q, n) = Mint(w, who, q, n)
  /\ \A w, who, q, n : BenqiLend!Redeem(w, who, q, n) = Redeem(w, who, q, n)
  /\ \A w, q, a, b, n : BenqiLend!SendQTokens(w, q, a, b, n) = SendQTokens(w, q, a, b, n)
  /\ \A w, who, q, n : BenqiLend!Borrow(w, who, q, n) = Borrow(w, who, q, n)
  /\ \A w, who, q, n : BenqiLend!RepayBorrow(w, who, q, n) = RepayBorrow(w, who, q, n)
  /\ \A w, who, qs : BenqiLend!EnterMarkets(w, who, qs) = EnterMarkets(w, who, qs)
  /\ \A w, who, q : BenqiLend!ExitMarket(w, who, q) = ExitMarket(w, who, q)
<1>1. ASSUME NEW w, NEW t, NEW a, NEW b, NEW n
      PROVE  BenqiLend!Move(w, t, a, b, n) = Move(w, t, a, b, n)
  BY Zenon DEF BenqiLend!Move, Move
<1>2. ASSUME NEW q
      PROVE  BenqiLend!Underlying(q) = Underlying(q)
  BY Zenon DEF BenqiLend!Underlying, Underlying
<1>3. ASSUME NEW q
      PROVE  BenqiLend!HasUnderlying(q) = HasUnderlying(q)
  BY Zenon DEF BenqiLend!HasUnderlying, HasUnderlying
<1>4. ASSUME NEW w, NEW who, NEW q, NEW n
      PROVE  BenqiLend!Mint(w, who, q, n) = Mint(w, who, q, n)
  BY Zenon DEF BenqiLend!Mint, Mint, BenqiLend!Has, Has, BenqiLend!Underlying, Underlying,
    BenqiLend!Move, Move
<1>5. ASSUME NEW w, NEW who, NEW q, NEW n
      PROVE  BenqiLend!Redeem(w, who, q, n) = Redeem(w, who, q, n)
  BY Zenon DEF BenqiLend!Redeem, Redeem, BenqiLend!Has, Has, BenqiLend!Underlying,
    Underlying, BenqiLend!Move, Move, BenqiLend!Worth, Worth, BenqiLend!StillBacked,
    StillBacked, BenqiLend!Healthy, Healthy, BenqiLend!Backing, Backing
<1>6. ASSUME NEW w, NEW q, NEW a, NEW b, NEW n
      PROVE  BenqiLend!SendQTokens(w, q, a, b, n) = SendQTokens(w, q, a, b, n)
  BY Zenon DEF BenqiLend!SendQTokens, SendQTokens, BenqiLend!Has, Has, BenqiLend!Move, Move,
    BenqiLend!Worth, Worth, BenqiLend!StillBacked, StillBacked, BenqiLend!Healthy, Healthy,
    BenqiLend!Backing, Backing
<1>7. ASSUME NEW w, NEW who, NEW q, NEW n
      PROVE  BenqiLend!Borrow(w, who, q, n) = Borrow(w, who, q, n)
  BY Zenon DEF BenqiLend!Borrow, Borrow, BenqiLend!Has, Has, BenqiLend!Underlying,
    Underlying, BenqiLend!Move, Move, BenqiLend!Worth, Worth, BenqiLend!Healthy, Healthy,
    BenqiLend!Backing, Backing
<1>8. ASSUME NEW w, NEW who, NEW q, NEW n
      PROVE  BenqiLend!RepayBorrow(w, who, q, n) = RepayBorrow(w, who, q, n)
  BY Zenon DEF BenqiLend!RepayBorrow, RepayBorrow, BenqiLend!Has, Has, BenqiLend!Underlying,
    Underlying, BenqiLend!Move, Move
<1>9. ASSUME NEW w, NEW who, NEW qs
      PROVE  BenqiLend!EnterMarkets(w, who, qs) = EnterMarkets(w, who, qs)
  BY Zenon DEF BenqiLend!EnterMarkets, EnterMarkets
<1>10. ASSUME NEW w, NEW who, NEW q
      PROVE  BenqiLend!ExitMarket(w, who, q) = ExitMarket(w, who, q)
  BY Zenon DEF BenqiLend!ExitMarket, ExitMarket, BenqiLend!Healthy, Healthy,
    BenqiLend!Backing, Backing, BenqiLend!Worth, Worth
<1> QED
  BY <1>1, <1>2, <1>3, <1>4, <1>5, <1>6, <1>7, <1>8, <1>9, <1>10, Zenon

\* Those of the staking adapter.
LEMMA StakingSame ==
  /\ \A w, t, a, b, n : Staking!Move(w, t, a, b, n) = Move(w, t, a, b, n)
  /\ \A list, i : Staking!SwapAndPop(list, i) = SwapAndPop(list, i)
  /\ \A w, who, n : Staking!Submit(w, who, n) = Submit(w, who, n)
  /\ \A w, who, n : Staking!RequestUnlock(w, who, n) = RequestUnlock(w, who, n)
  /\ \A w, who, i : Staking!RedeemUnlocked(w, who, i) = RedeemUnlocked(w, who, i)
<1>1. ASSUME NEW w, NEW t, NEW a, NEW b, NEW n
      PROVE  Staking!Move(w, t, a, b, n) = Move(w, t, a, b, n)
  BY Zenon DEF Staking!Move, Move
<1>2. ASSUME NEW list, NEW i
      PROVE  Staking!SwapAndPop(list, i) = SwapAndPop(list, i)
  BY Zenon DEF Staking!SwapAndPop, SwapAndPop
<1>3. ASSUME NEW w, NEW who, NEW n
      PROVE  Staking!Submit(w, who, n) = Submit(w, who, n)
  BY Zenon DEF Staking!Submit, Submit, Staking!Has, Has, Staking!Move, Move
<1>4. ASSUME NEW w, NEW who, NEW n
      PROVE  Staking!RequestUnlock(w, who, n) = RequestUnlock(w, who, n)
  BY Zenon DEF Staking!RequestUnlock, RequestUnlock, Staking!Has, Has, Staking!Move, Move
<1>5. ASSUME NEW w, NEW who, NEW i
      PROVE  Staking!RedeemUnlocked(w, who, i) = RedeemUnlocked(w, who, i)
  BY Zenon DEF Staking!RedeemUnlocked, RedeemUnlocked, Staking!Has, Has, Staking!Move, Move,
    Staking!Redeemable, Redeemable, Staking!SwapAndPop, SwapAndPop
<1> QED
  BY <1>1, <1>2, <1>3, <1>4, <1>5, Zenon

\* Those of the swap adapter.
LEMMA JoeSame ==
  /\ \A w, a, path, n, least, b : Joe!SwapExact(w, a, path, n, least, b) = SwapExact(w, a, path, n, least, b)
<1>1. ASSUME NEW w, NEW a, NEW path, NEW n, NEW least, NEW b
      PROVE  Joe!SwapExact(w, a, path, n, least, b) = SwapExact(w, a, path, n, least, b)
  BY Zenon DEF Joe!SwapExact, SwapExact, Joe!Has, Has, Joe!Move, Move, Joe!AmountsOut,
    AmountsOut, Joe!Out, Out, Joe!Pair, Pair
<1> QED
  BY <1>1, Zenon

\* Those of the lending contract all users share.
LEMMA SharedLendSame ==
  /\ \A w, t, a, b, n : SharedLend!Move(w, t, a, b, n) = Move(w, t, a, b, n)
  /\ \A w, t, a, n : SharedLend!Has(w, t, a, n) = Has(w, t, a, n)
  /\ \A q : SharedLend!Underlying(q) = Underlying(q)
  /\ \A q : SharedLend!HasUnderlying(q) = HasUnderlying(q)
  /\ \A w, who, q, n : SharedLend!Mint(w, who, q, n) = Mint(w, who, q, n)
  /\ \A w, who, q, n : SharedLend!Redeem(w, who, q, n) = Redeem(w, who, q, n)
  /\ \A w, q, a, b, n : SharedLend!SendQTokens(w, q, a, b, n) = SendQTokens(w, q, a, b, n)
  /\ \A w, who, q, n : SharedLend!Borrow(w, who, q, n) = Borrow(w, who, q, n)
  /\ \A w, who, q, n : SharedLend!RepayBorrow(w, who, q, n) = RepayBorrow(w, who, q, n)
  /\ \A w, who, qs : SharedLend!EnterMarkets(w, who, qs) = EnterMarkets(w, who, qs)
<1>1. ASSUME NEW w, NEW t, NEW a, NEW b, NEW n
      PROVE  SharedLend!Move(w, t, a, b, n) = Move(w, t, a, b, n)
  BY Zenon DEF SharedLend!Move, Move
<1>2. ASSUME NEW w, NEW t, NEW a, NEW n
      PROVE  SharedLend!Has(w, t, a, n) = Has(w, t, a, n)
  BY Zenon DEF SharedLend!Has, Has
<1>3. ASSUME NEW q
      PROVE  SharedLend!Underlying(q) = Underlying(q)
  BY Zenon DEF SharedLend!Underlying, Underlying
<1>4. ASSUME NEW q
      PROVE  SharedLend!HasUnderlying(q) = HasUnderlying(q)
  BY Zenon DEF SharedLend!HasUnderlying, HasUnderlying
<1>5. ASSUME NEW w, NEW who, NEW q, NEW n
      PROVE  SharedLend!Mint(w, who, q, n) = Mint(w, who, q, n)
  BY Zenon DEF SharedLend!Mint, Mint, SharedLend!Has, Has, SharedLend!Underlying,
    Underlying, SharedLend!Move, Move
<1>6. ASSUME NEW w, NEW who, NEW q, NEW n
      PROVE  SharedLend!Redeem(w, who, q, n) = Redeem(w, who, q, n)
  BY Zenon DEF SharedLend!Redeem, Redeem, SharedLend!Has, Has, SharedLend!Underlying,
    Underlying, SharedLend!Move, Move, SharedLend!Worth, Worth, SharedLend!StillBacked,
    StillBacked, SharedLend!Healthy, Healthy, SharedLend!Backing, Backing
<1>7. ASSUME NEW w, NEW q, NEW a, NEW b, NEW n
      PROVE  SharedLend!SendQTokens(w, q, a, b, n) = SendQTokens(w, q, a, b, n)
  BY Zenon DEF SharedLend!SendQTokens, SendQTokens, SharedLend!Has, Has, SharedLend!Move,
    Move, SharedLend!Worth, Worth, SharedLend!StillBacked, StillBacked, SharedLend!Healthy,
    Healthy, SharedLend!Backing, Backing
<1>8. ASSUME NEW w, NEW who, NEW q, NEW n
      PROVE  SharedLend!Borrow(w, who, q, n) = Borrow(w, who, q, n)
  BY Zenon DEF SharedLend!Borrow, Borrow, SharedLend!Has, Has, SharedLend!Underlying,
    Underlying, SharedLend!Move, Move, SharedLend!Worth, Worth, SharedLend!Healthy, Healthy,
    SharedLend!Backing, Backing
<1>9. ASSUME NEW w, NEW who, NEW q, NEW n
      PROVE  SharedLend!RepayBorrow(w, who, q, n) = RepayBorrow(w, who, q, n)
  BY Zenon DEF SharedLend!RepayBorrow, RepayBorrow, SharedLend!Has, Has,
    SharedLend!Underlying, Underlying, SharedLend!Move, Move
<1>10. ASSUME NEW w, NEW who, NEW qs
      PROVE  SharedLend!EnterMarkets(w, who, qs) = EnterMarkets(w, who, qs)
  BY Zenon DEF SharedLend!EnterMarkets, EnterMarkets
<1> QED
  BY <1>1, <1>2, <1>3, <1>4, <1>5, <1>6, <1>7, <1>8, <1>9, <1>10, Zenon

\* Those of the swap contract all users share.
LEMMA SharedSwapSame ==
  /\ \A w, t, a, b, n : SharedSwap!Move(w, t, a, b, n) = Move(w, t, a, b, n)
  /\ \A w, t, a, n : SharedSwap!Has(w, t, a, n) = Has(w, t, a, n)
  /\ \A w, a, path, n, least, b : SharedSwap!SwapExact(w, a, path, n, least, b) = SwapExact(w, a, path, n, least, b)
<1>1. ASSUME NEW w, NEW t, NEW a, NEW b, NEW n
      PROVE  SharedSwap!Move(w, t, a, b, n) = Move(w, t, a, b, n)
  BY Zenon DEF SharedSwap!Move, Move
<1>2. ASSUME NEW w, NEW t, NEW a, NEW n
      PROVE  SharedSwap!Has(w, t, a, n) = Has(w, t, a, n)
  BY Zenon DEF SharedSwap!Has, Has
<1>3. ASSUME NEW w, NEW a, NEW path, NEW n, NEW least, NEW b
      PROVE  SharedSwap!SwapExact(w, a, path, n, least, b) = SwapExact(w, a, path, n, least, b)
  BY Zenon DEF SharedSwap!SwapExact, SwapExact, SharedSwap!Has, Has, SharedSwap!Move, Move,
    SharedSwap!AmountsOut, AmountsOut, SharedSwap!Out, Out, SharedSwap!Pair, Pair
<1> QED
  BY <1>1, <1>2, <1>3, Zenon

-----------------------------------------------------------------------------
(* What a call of an adapter does                                          *)

\* The adapter has n of a token, and nothing else but deposited qTokens.
Funded(w, c, t, n) ==
    \A x \in AllTokens : \/ c.protocol = Benqi /\ x \in Markets
                         \/ w.balance[c][x] = IF x = t THEN n ELSE 0

\* It has passed everything on, and nobody but the user noticed.
Settled(v, w, c, d) == After(v, w, c, d) /\ Funded(v, c, Avax, 0)

\* The adapter of a user.
Own(p, u) == [user |-> u, protocol |-> p, beacon |-> Beacon, initArgs |-> Args]

\* It is one of the adapters.
LEMMA OwnTyped ==
  ASSUME NEW p \in Protocols, NEW u \in Users
  PROVE  /\ Own(p, u) \in Adapters /\ Own(p, u).user = u /\ Own(p, u).protocol = p
         /\ Own(p, u) \in Panorama /\ Own(p, u) \in Borrowers /\ u \in Panorama
         /\ Own(p, u) \in Accounts /\ u \in Accounts /\ Own(p, u) # u
         /\ Own(p, u) \in Insiders /\ u \in Insiders
         /\ Own(p, u) \in Traders /\ u \in Traders
<1>1. Own(p, u) \in Adapters /\ Own(p, u).user = u /\ Own(p, u).protocol = p
  BY DEF Own, Adapters
<1> QED
  BY <1>1, Distinct DEF Panorama, Borrowers, Insiders, Traders

\* What came in went out.
LEMMA Spent ==
  ASSUME NEW w, NEW v, NEW c, NEW t, NEW n \in Nat, Funded(w, c, t, n), Debited(v, w, c, t, n)
  PROVE  Funded(v, c, Avax, 0)
<1> SUFFICES ASSUME NEW x \in AllTokens, ~(c.protocol = Benqi /\ x \in Markets)
             PROVE  v.balance[c][x] = 0
  BY DEF Funded
<1>1. w.balance[c][x] = IF x = t THEN n ELSE 0
  BY DEF Funded
<1>2. v.balance[c][x] = w.balance[c][x] - (IF x = t THEN n ELSE 0)
  BY DEF Debited
<1> QED
  BY <1>1, <1>2

\* Something is passed on to the user.
LEMMA PassedOn ==
  ASSUME NEW w, Sound(w), NEW c \in Adapters, NEW d \in Users, NEW t \in AllTokens, NEW n \in Nat,
         Funded(w, c, t, n), n <= w.balance[c][t], NEW v, v = Move(w, t, c, d, n)
  PROVE  Settled(v, w, c, d) /\ v.balance[d][t] = w.balance[d][t] + n
<1>1. /\ c \in Accounts /\ d \in Accounts /\ c # d /\ c \in Insiders /\ d \in Insiders
      /\ {c, d} \cap Panorama \subseteq {c, d}
  BY Distinct DEF Panorama, Insiders
<1>2. Shift(v, w, t, c, d, n)
  BY <1>1, Moved DEF Sound
<1>3. After(v, w, c, d)
  BY <1>1, <1>2, ShiftQuiet, QuietSound
<1>4. Debited(v, w, c, t, n)
  BY <1>1, <1>2, ShiftDebits DEF Sound
<1> QED
  BY <1>2, <1>3, <1>4, Spent DEF Settled, Shift

\* First one, then the other.
LEMMA SettledAfter ==
  ASSUME NEW w, NEW x, NEW v, NEW c, NEW d, After(x, w, c, d), Settled(v, x, c, d)
  PROVE  Settled(v, w, c, d)
BY AfterTwice DEF Settled

\* A supply for the user, or for the adapter itself.
LEMMA SupplyOK ==
  ASSUME NEW w, Sound(w), NEW c \in Adapters, c.protocol = Benqi, NEW d \in Users,
         NEW to \in {c, d}, NEW q \in Markets, NEW n \in Nat, Funded(w, c, Underlying(q), n),
         NEW x \in Mint(w, c, q, n), NEW v,
         to = c => v = x, to # c => v \in SendQTokens(x, q, c, to, x.balance[c][q] - w.balance[c][q])
  PROVE  Settled(v, w, c, d)
<1> DEFINE t == Underlying(q)
<1>1. /\ c \in Panorama /\ c \in Accounts /\ d \in Accounts /\ c # d /\ q \in AllTokens
      /\ c \in Insiders /\ d \in Insiders /\ {c, d} \cap Panorama \subseteq {c, d}
      /\ t \in AllTokens \ Markets
  BY MarketsTyped, Distinct DEF Panorama, Insiders
<1> HIDE DEF t
<1>2. w \in Worlds
  BY DEF Sound
<1>3. PICK m \in Nat : x \in Worlds /\ Exchanged(x, w, c, q, t, n, q, m)
  BY <1>1, <1>2, Minted DEF t
<1>4. Sound(x) /\ After(x, w, c, d)
  BY <1>1, <1>3, ExchangeQuiet, QuietSound
<1>5. Funded(x, c, Avax, 0)
  <2> SUFFICES ASSUME NEW s \in AllTokens, s \notin Markets PROVE x.balance[c][s] = 0
    BY DEF Funded
  <2>1. w.balance[c][s] = IF s = t THEN n ELSE 0
    BY DEF Funded, t
  <2>2. CASE s = t
    BY <1>3, <2>1, <2>2 DEF Exchanged
  <2>3. CASE s # t
    BY <1>3, <2>1, <2>3 DEF Exchanged
  <2> QED
    BY <2>2, <2>3
<1>6. CASE to = c
  BY <1>4, <1>5, <1>6 DEF Settled
<1>7. CASE to # c
  <2>1. to = d
    BY <1>7
  <2> DEFINE k == x.balance[c][q] - w.balance[c][q]
  <2>2. k \in Nat
    <3>1. w.balance[c][q] \in Nat
      BY <1>1, <1>2, BalanceTyped
    <3> QED
      BY <1>3, <3>1 DEF Exchanged
  <2>3. v \in SendQTokens(x, q, c, d, k)
    BY <1>7, <2>1
  <2> HIDE DEF k
  <2>4. Shift(v, x, q, c, d, k)
    BY <1>1, <1>3, <2>2, <2>3, SentQTokens
  <2>5. After(v, x, c, d)
    BY <1>1, <1>4, <2>4, ShiftQuiet, QuietSound
  <2>6. Funded(v, c, Avax, 0)
    BY <1>5, <2>4 DEF Shift, Funded
  <2> QED
    BY <1>4, <2>5, <2>6, AfterTwice DEF Settled
<1> QED
  BY <1>6, <1>7

\* A redemption for the user.
LEMMA RedeemOK ==
  ASSUME NEW w, Sound(w), NEW c \in Adapters, c.protocol = Benqi, NEW d \in Users,
         NEW q \in Markets, NEW n \in Nat, Funded(w, c, Avax, 0),
         NEW x \in Redeem(w, c, q, n), NEW k,
         k \in {x.balance[c][Underlying(q)], x.balance[c][Underlying(q)] - w.balance[c][Underlying(q)]},
         NEW v, v = Move(x, Underlying(q), c, d, k)
  PROVE  /\ Settled(v, w, c, d)
         /\ v.balance[d][Underlying(q)] = w.balance[d][Underlying(q)] + Worth(w, q, n)
<1> DEFINE t == Underlying(q)
           m == Worth(w, q, n)
<1>1. /\ c \in Panorama /\ c \in Accounts /\ d \in Accounts \ {c, q} /\ d \in Panorama
      /\ q \in AllTokens /\ t \in AllTokens \ Markets
  BY MarketsTyped, Distinct DEF Panorama
<1>2. w \in Worlds
  BY DEF Sound
<1>3. x \in Worlds /\ m \in Nat /\ Exchanged(x, w, c, q, q, n, t, m)
  BY <1>1, <1>2, Redeemed
<1> HIDE DEF m
<1>4. Sound(x) /\ After(x, w, c, d)
  BY <1>1, <1>3, ExchangeQuiet, QuietSound
<1>5. w.balance[c][t] = 0 /\ x.balance[c][t] = m /\ k = m
  <2>1. w.balance[c][t] = 0
    BY <1>1 DEF Funded
  <2>2. x.balance[c][t] = m
    BY <1>3, <2>1 DEF Exchanged
  <2> QED
    BY <1>3, <2>1, <2>2
<1> HIDE DEF t
<1>6. Funded(x, c, t, m)
  <2> SUFFICES ASSUME NEW s \in AllTokens, s \notin Markets
               PROVE  x.balance[c][s] = IF s = t THEN m ELSE 0
    BY DEF Funded
  <2>1. CASE s = t
    BY <1>5, <2>1
  <2>2. CASE s # t
    <3>1. w.balance[c][s] = 0
      BY DEF Funded
    <3> QED
      BY <1>1, <1>3, <2>2, <3>1 DEF Exchanged
  <2> QED
    BY <2>1, <2>2
<1>7. m <= x.balance[c][t] /\ v = Move(x, t, c, d, m)
  BY <1>3, <1>5 DEF t
<1>8. Settled(v, x, c, d) /\ v.balance[d][t] = x.balance[d][t] + m
  BY <1>1, <1>3, <1>4, <1>6, <1>7, PassedOn
<1>9. x.balance[d][t] = w.balance[d][t]
  BY <1>1, <1>3 DEF Exchanged
<1> QED
  BY <1>4, <1>8, <1>9, SettledAfter DEF t, m

\* A loan for the user.
LEMMA BorrowOK ==
  ASSUME NEW w, Sound(w), NEW c \in Adapters, NEW d \in Users,
         NEW q \in Markets, NEW n \in Nat, Funded(w, c, Avax, 0),
         NEW x \in Borrow(EnterMarkets(w, c, {q}), c, q, n),
         NEW v, v = Move(x, Underlying(q), c, d, n)
  PROVE  Settled(v, w, c, d)
<1> DEFINE t == Underlying(q)
           y == EnterMarkets(w, c, {q})
<1>1. c \in Accounts /\ c \in Borrowers /\ {q} \in SUBSET Markets /\ t \in AllTokens \ Markets
  BY MarketsTyped, Distinct DEF Panorama, Borrowers
<1>2. After(y, w, c, d) /\ y.balance = w.balance /\ Sound(y)
  BY <1>1, Entered DEF After
<1> HIDE DEF y
<1>3. After(x, y, c, d) /\ Credited(x, y, c, t, n) /\ Sound(x)
  BY <1>1, <1>2, Borrowed DEF y, After
<1> HIDE DEF t
<1>4. Funded(x, c, t, n)
  <2> SUFFICES ASSUME NEW s \in AllTokens, ~(c.protocol = Benqi /\ s \in Markets)
               PROVE  x.balance[c][s] = IF s = t THEN n ELSE 0
    BY DEF Funded
  <2>1. w.balance[c][s] = 0
    BY DEF Funded
  <2>2. x.balance[c][s] = w.balance[c][s] + (IF s = t THEN n ELSE 0)
    BY <1>2, <1>3 DEF Credited
  <2> QED
    BY <2>1, <2>2
<1>5. n <= x.balance[c][t]
  BY <1>1, <1>4 DEF Funded
<1>6. v = Move(x, t, c, d, n)
  BY DEF t
<1>7. Settled(v, x, c, d)
  BY <1>1, <1>3, <1>4, <1>5, <1>6, PassedOn
<1> QED
  BY <1>2, <1>3, <1>7, AfterTwice, SettledAfter

\* A repayment of the adapter's debt.
LEMMA RepayOK ==
  ASSUME NEW w, Sound(w), NEW c \in Adapters, NEW d \in Users,
         NEW q \in Markets, NEW n \in Nat, Funded(w, c, Underlying(q), n),
         NEW v \in RepayBorrow(w, c, q, n)
  PROVE  Settled(v, w, c, d)
<1>1. c \in Borrowers
  BY DEF Borrowers
<1>2. After(v, w, c, d) /\ Debited(v, w, c, Underlying(q), n)
  BY <1>1, Repaid
<1> QED
  BY <1>2, Spent DEF Settled

-----------------------------------------------------------------------------
(* Every call of an adapter settles                                        *)

\* With what its user paid, a call leaves nothing in the adapter but deposited qTokens and
\* touches nobody else.
Settles(p, call, t, n, u) ==
    \A w, v : /\ Sound(w) /\ Funded(w, Own(p, u), t, n)
              /\ v \in Dispatch(Own(p, u), call, w) /\ v.made <= MaxRequests
              => Settled(v, w, Own(p, u), u)

\* A call reaches the adapter of the protocol.
LEMMA Dispatched ==
  ASSUME NEW u \in Users, NEW call, NEW w
  PROVE  /\ Dispatch(Own(Benqi, u), call, w) = BenqiLend!Dispatch(Own(Benqi, u), call, w)
         /\ Dispatch(Own(TraderJoe, u), call, w) = Joe!Dispatch(Own(TraderJoe, u), call, w)
         /\ Dispatch(Own(Savax, u), call, w) = Staking!Dispatch(Own(Savax, u), call, w)
<1>1. Benqi \in Protocols /\ TraderJoe \in Protocols /\ Savax \in Protocols
  BY DEF Protocols
<1>2. /\ Own(Benqi, u).protocol = Benqi /\ Own(TraderJoe, u).protocol = TraderJoe
      /\ Own(Savax, u).protocol = Savax
  BY <1>1, OwnTyped
<1>3. Benqi # TraderJoe /\ Benqi # Savax /\ TraderJoe # Savax
  BY Distinct
<1> QED
  BY <1>2, <1>3 DEF Dispatch

\* A supply.
LEMMA SupplySettles ==
  ASSUME NEW u \in Users, NEW q \in Markets, NEW n \in Nat, NEW to \in {u, Own(Benqi, u)},
         NEW call,
         \/ call = [action |-> "supply", qToken |-> q, amount |-> n, recipient |-> to]
         \/ q = QiAvax /\ call = [action |-> "supplyAVAX", value |-> n, recipient |-> to]
  PROVE  Settles(Benqi, call, Underlying(q), n, u)
<1> DEFINE c == Own(Benqi, u)
<1> SUFFICES ASSUME NEW w, NEW v, Sound(w), Funded(w, c, Underlying(q), n), v \in Dispatch(c, call, w)
             PROVE  Settled(v, w, c, u)
  BY DEF Settles
<1>1. c \in Adapters /\ c.protocol = Benqi /\ c # u
  BY OwnTyped DEF Protocols
<1>2. v \in BenqiLend!Dispatch(c, call, w)
  BY Dispatched
<1> HIDE DEF c
<1>3. v \in BenqiLend!supply(w, c, call) \/ v \in BenqiLend!supplyAVAX(w, c, call)
  BY <1>2 DEF BenqiLend!Dispatch
<1>4. PICK x \in BenqiLend!Mint(w, c, q, n) : v \in BenqiLend!ForwardMinted(w, x, q, c, to)
  <2>1. CASE call = [action |-> "supply", qToken |-> q, amount |-> n, recipient |-> to]
    <3>1. v \in BenqiLend!supply(w, c, call)
      BY <1>2, <2>1 DEF BenqiLend!Dispatch
    <3> QED
      BY <2>1, <3>1 DEF BenqiLend!supply, BenqiLend!AndThen
  <2>2. CASE q = QiAvax /\ call = [action |-> "supplyAVAX", value |-> n, recipient |-> to]
    <3>1. v \in BenqiLend!supplyAVAX(w, c, call)
      BY <1>2, <2>2 DEF BenqiLend!Dispatch
    <3> QED
      BY <2>2, <3>1 DEF BenqiLend!supplyAVAX, BenqiLend!AndThen
  <2> QED
    BY <2>1, <2>2
<1>5. x \in Mint(w, c, q, n)
  BY <1>4, BenqiSame
<1>6. /\ to = c => v = x
      /\ to # c => v \in SendQTokens(x, q, c, to, x.balance[c][q] - w.balance[c][q])
  BY <1>4, BenqiSame DEF BenqiLend!ForwardMinted, BenqiLend!Received
<1>7. to \in {c, u}
  BY DEF c
<1> QED
  BY <1>1, <1>5, <1>6, <1>7, SupplyOK

\* A redemption pays out what the qTokens are worth.
LEMMA RedeemPays ==
  ASSUME NEW u \in Users, NEW q \in Markets, NEW n \in Nat, NEW call,
         \/ call = [action |-> "redeem", qToken |-> q, qTokenAmount |-> n, recipient |-> u]
         \/ q = QiAvax /\ call = [action |-> "redeemAVAX", qTokenAmount |-> n, recipient |-> u],
         NEW w, NEW v, Sound(w), Funded(w, Own(Benqi, u), Avax, 0),
         v \in Dispatch(Own(Benqi, u), call, w)
  PROVE  /\ Settled(v, w, Own(Benqi, u), u)
         /\ v.balance[u][Underlying(q)] = w.balance[u][Underlying(q)] + Worth(w, q, n)
<1> DEFINE c == Own(Benqi, u)
           t == Underlying(q)
<1>1. c \in Adapters /\ c.protocol = Benqi
  BY OwnTyped DEF Protocols
<1>2. v \in BenqiLend!Dispatch(c, call, w)
  BY Dispatched
<1> HIDE DEF c
<1>3. t = BenqiLend!Underlying(q) /\ (q = QiAvax => t = Avax)
  BY BenqiSame DEF Underlying
<1> HIDE DEF t
<1>4. PICK x \in BenqiLend!Redeem(w, c, q, n) :
        v \in {BenqiLend!Move(x, t, c, u, k) :
                 k \in {x.balance[c][t], x.balance[c][t] - w.balance[c][t]}}
  <2>1. CASE call = [action |-> "redeem", qToken |-> q, qTokenAmount |-> n, recipient |-> u]
    <3>1. v \in BenqiLend!redeem(w, c, call)
      BY <1>2, <2>1 DEF BenqiLend!Dispatch
    <3>2. PICK x \in BenqiLend!Redeem(w, c, q, n) :
             v = BenqiLend!Move(x, t, c, u, x.balance[c][t] - w.balance[c][t])
      BY <1>3, <2>1, <3>1 DEF BenqiLend!redeem, BenqiLend!AndThen, BenqiLend!Received
    <3> QED
      BY <3>2
  <2>2. CASE q = QiAvax /\ call = [action |-> "redeemAVAX", qTokenAmount |-> n, recipient |-> u]
    <3>1. v \in BenqiLend!redeemAVAX(w, c, call)
      BY <1>2, <2>2 DEF BenqiLend!Dispatch
    <3>2. PICK x \in BenqiLend!Redeem(w, c, q, n) : v = BenqiLend!Move(x, t, c, u, x.balance[c][t])
      BY <1>3, <2>2, <3>1 DEF BenqiLend!redeemAVAX, BenqiLend!AndThen
    <3> QED
      BY <3>2
  <2> QED
    BY <2>1, <2>2
<1>5. x \in Redeem(w, c, q, n)
  BY <1>4, BenqiSame
<1>6. PICK k \in {x.balance[c][t], x.balance[c][t] - w.balance[c][t]} : v = Move(x, t, c, u, k)
  BY <1>4, BenqiSame
<1>7. Funded(w, c, Avax, 0)
  BY DEF c
<1>8. Settled(v, w, c, u) /\ v.balance[u][t] = w.balance[u][t] + Worth(w, q, n)
  BY <1>1, <1>5, <1>6, <1>7, RedeemOK DEF t
<1> QED
  BY <1>8 DEF c, t

\* A redemption without payment.
LEMMA RedeemSettles ==
  ASSUME NEW u \in Users, NEW q \in Markets, NEW n \in Nat, NEW call,
         \/ call = [action |-> "redeem", qToken |-> q, qTokenAmount |-> n, recipient |-> u]
         \/ q = QiAvax /\ call = [action |-> "redeemAVAX", qTokenAmount |-> n, recipient |-> u]
  PROVE  Settles(Benqi, call, Avax, 0, u)
BY RedeemPays DEF Settles

\* The qTokens that are redeemed come from the wallet.
LEMMA FundedByMarket ==
  ASSUME NEW w, NEW u \in Users, NEW q \in Markets, NEW n, Funded(w, Own(Benqi, u), q, n)
  PROVE  Funded(w, Own(Benqi, u), Avax, 0)
<1>1. Own(Benqi, u).protocol = Benqi
  BY OwnTyped DEF Protocols
<1> QED
  BY <1>1 DEF Funded

\* A loan.
LEMMA BorrowSettles ==
  ASSUME NEW u \in Users, NEW q \in Markets, NEW n \in Nat, NEW call,
         \/ call = [action |-> "borrow", qToken |-> q, amount |-> n, recipient |-> u]
         \/ q = QiAvax /\ call = [action |-> "borrowAVAX", amount |-> n, recipient |-> u]
  PROVE  Settles(Benqi, call, Avax, 0, u)
<1> DEFINE c == Own(Benqi, u)
           t == Underlying(q)
<1> SUFFICES ASSUME NEW w, NEW v, Sound(w), Funded(w, c, Avax, 0), v \in Dispatch(c, call, w)
             PROVE  Settled(v, w, c, u)
  BY DEF Settles
<1>1. c \in Adapters
  BY OwnTyped DEF Protocols
<1>2. v \in BenqiLend!Dispatch(c, call, w)
  BY Dispatched
<1> HIDE DEF c
<1>3. v \in BenqiLend!BorrowFor(w, c, q, n, u)
  <2>1. CASE call = [action |-> "borrow", qToken |-> q, amount |-> n, recipient |-> u]
    <3>1. v \in BenqiLend!borrow(w, c, call)
      BY <1>2, <2>1 DEF BenqiLend!Dispatch
    <3> QED
      BY <2>1, <3>1 DEF BenqiLend!borrow
  <2>2. CASE q = QiAvax /\ call = [action |-> "borrowAVAX", amount |-> n, recipient |-> u]
    <3>1. v \in BenqiLend!borrowAVAX(w, c, call)
      BY <1>2, <2>2 DEF BenqiLend!Dispatch
    <3> QED
      BY <2>2, <3>1 DEF BenqiLend!borrowAVAX
  <2> QED
    BY <2>1, <2>2
<1>4. PICK x \in BenqiLend!Borrow(BenqiLend!EnterMarkets(w, c, {q}), c, q, n) :
        v = BenqiLend!Move(x, BenqiLend!Underlying(q), c, u, n)
  BY <1>3 DEF BenqiLend!BorrowFor, BenqiLend!AndThen
<1>5. x \in Borrow(EnterMarkets(w, c, {q}), c, q, n) /\ v = Move(x, t, c, u, n)
  BY <1>4, BenqiSame
<1> QED
  BY <1>1, <1>5, BorrowOK

\* A repayment.
LEMMA RepaySettles ==
  ASSUME NEW u \in Users, NEW q \in Markets, NEW n \in Nat, NEW call,
         \/ call = [action |-> "repay", qToken |-> q, amount |-> n]
         \/ q = QiAvax /\ call = [action |-> "repayAVAX", value |-> n]
  PROVE  Settles(Benqi, call, Underlying(q), n, u)
<1> DEFINE c == Own(Benqi, u)
<1> SUFFICES ASSUME NEW w, NEW v, Sound(w), Funded(w, c, Underlying(q), n), v \in Dispatch(c, call, w)
             PROVE  Settled(v, w, c, u)
  BY DEF Settles
<1>1. c \in Adapters
  BY OwnTyped DEF Protocols
<1>2. v \in BenqiLend!Dispatch(c, call, w)
  BY Dispatched
<1> HIDE DEF c
<1>3. v \in BenqiLend!RepayBorrow(w, c, q, n)
  <2>1. CASE call = [action |-> "repay", qToken |-> q, amount |-> n]
    <3>1. v \in BenqiLend!repay(w, c, call)
      BY <1>2, <2>1 DEF BenqiLend!Dispatch
    <3> QED
      BY <2>1, <3>1 DEF BenqiLend!repay
  <2>2. CASE q = QiAvax /\ call = [action |-> "repayAVAX", value |-> n]
    <3>1. v \in BenqiLend!repayAVAX(w, c, call)
      BY <1>2, <2>2 DEF BenqiLend!Dispatch
    <3> QED
      BY <2>2, <3>1 DEF BenqiLend!repayAVAX
  <2> QED
    BY <2>1, <2>2
<1>4. v \in RepayBorrow(w, c, q, n)
  BY <1>3, BenqiSame
<1> QED
  BY <1>1, <1>4, RepayOK

\* A user enters markets or leaves one.
LEMMA MarketsSettle ==
  ASSUME NEW u \in Users, NEW call,
         \/ \E qs \in SUBSET Markets : call = [action |-> "enterMarkets", qTokens |-> qs]
         \/ \E q \in Markets : call = [action |-> "exitMarket", qToken |-> q]
  PROVE  Settles(Benqi, call, Avax, 0, u)
<1> DEFINE c == Own(Benqi, u)
<1> SUFFICES ASSUME NEW w, NEW v, Sound(w), Funded(w, c, Avax, 0), v \in Dispatch(c, call, w)
             PROVE  Settled(v, w, c, u)
  BY DEF Settles
<1>1. c \in Borrowers
  BY OwnTyped DEF Protocols
<1>2. v \in BenqiLend!Dispatch(c, call, w)
  BY Dispatched
<1> HIDE DEF c
<1>3. \/ \E qs \in SUBSET Markets : v = BenqiLend!EnterMarkets(w, c, qs)
      \/ \E q \in Markets : v = BenqiLend!ExitMarket(w, c, q)
  <2>1. ASSUME NEW qs \in SUBSET Markets, call = [action |-> "enterMarkets", qTokens |-> qs]
        PROVE  v = BenqiLend!EnterMarkets(w, c, qs)
    <3>1. v \in BenqiLend!enterMarkets(w, c, call)
      BY <1>2, <2>1 DEF BenqiLend!Dispatch
    <3> QED
      BY <2>1, <3>1 DEF BenqiLend!enterMarkets
  <2>2. ASSUME NEW q \in Markets, call = [action |-> "exitMarket", qToken |-> q]
        PROVE  v = BenqiLend!ExitMarket(w, c, q)
    <3>1. v \in BenqiLend!exitMarket(w, c, call)
      BY <1>2, <2>2 DEF BenqiLend!Dispatch
    <3> QED
      BY <2>2, <3>1 DEF BenqiLend!exitMarket
  <2> QED
    BY <2>1, <2>2
<1>4. After(v, w, c, u) /\ v.balance = w.balance
  <2>1. ASSUME NEW qs \in SUBSET Markets, v = EnterMarkets(w, c, qs)
        PROVE  After(v, w, c, u) /\ v.balance = w.balance
    BY <1>1, <2>1, Entered
  <2>2. ASSUME NEW q \in Markets, v = ExitMarket(w, c, q)
        PROVE  After(v, w, c, u) /\ v.balance = w.balance
    BY <1>1, <2>2, Exited
  <2> QED
    BY <1>3, <2>1, <2>2, BenqiSame
<1> QED
  BY <1>4 DEF Settled, Funded

\* A stake.
LEMMA StakeSettles ==
  ASSUME NEW u \in Users, NEW n \in Nat
  PROVE  Settles(Savax, [action |-> "stake", value |-> n, recipient |-> u], Avax, n, u)
<1> DEFINE c == Own(Savax, u)
           call == [action |-> "stake", value |-> n, recipient |-> u]
<1> SUFFICES ASSUME NEW w, NEW v, Sound(w), Funded(w, c, Avax, n), v \in Dispatch(c, call, w)
             PROVE  Settled(v, w, c, u)
  BY DEF Settles
<1>1. c \in Adapters /\ c.protocol = Savax /\ c # u /\ c \in Panorama
  BY OwnTyped DEF Protocols
<1>2. v \in Staking!Dispatch(c, call, w)
  BY Dispatched
<1> HIDE DEF c
<1>3. PICK x \in Staking!Submit(w, c, n) : v = Staking!Move(x, SAvax, c, u, n)
  <2>1. v \in Staking!stake(w, c, call)
    BY <1>2 DEF Staking!Dispatch
  <2> QED
    BY <1>1, <2>1 DEF Staking!stake, Staking!AndThen
<1>4. x \in Submit(w, c, n) /\ v = Move(x, SAvax, c, u, n)
  BY <1>3, StakingSame
<1>5. /\ x \in Worlds /\ Exchanged(x, w, c, SAvax, Avax, n, SAvax, n)
  BY <1>1, <1>4, Submitted DEF Sound
<1>6. Sound(x) /\ After(x, w, c, u)
  BY <1>1, <1>5, ExchangeQuiet, QuietSound
<1>7. c.protocol # Benqi /\ SAvax # Avax /\ SAvax \in AllTokens /\ Avax \in AllTokens
  BY <1>1, Distinct
<1>8. \A s \in AllTokens : w.balance[c][s] = IF s = Avax THEN n ELSE 0
  BY <1>7 DEF Funded
<1>9. \A s \in AllTokens : x.balance[c][s] = IF s = SAvax THEN n ELSE 0
  BY <1>5, <1>7, <1>8 DEF Exchanged
<1>10. Funded(x, c, SAvax, n) /\ n <= x.balance[c][SAvax]
  BY <1>7, <1>9 DEF Funded
<1>11. Settled(v, x, c, u)
  BY <1>1, <1>4, <1>6, <1>7, <1>10, PassedOn
<1> QED
  BY <1>6, <1>11, SettledAfter

\* A request to unlock.
LEMMA RequestUnlockSettles ==
  ASSUME NEW u \in Users, NEW n \in Nat
  PROVE  Settles(Savax, [action |-> "requestUnlock", sAvaxAmount |-> n], SAvax, n, u)
<1> DEFINE c == Own(Savax, u)
           call == [action |-> "requestUnlock", sAvaxAmount |-> n]
<1> SUFFICES ASSUME NEW w, NEW v, Sound(w), Funded(w, c, SAvax, n), v \in Dispatch(c, call, w),
                    v.made <= MaxRequests
             PROVE  Settled(v, w, c, u)
  BY DEF Settles
<1>1. c \in Adapters
  BY OwnTyped DEF Protocols
<1>2. v \in Staking!Dispatch(c, call, w)
  BY Dispatched
<1> HIDE DEF c
<1>3. v \in Staking!requestUnlock(w, c, call)
  BY <1>2 DEF Staking!Dispatch
<1>4. n # 0 /\ \E y \in Staking!RequestUnlock(w, c, n) : v = WithSlot(y, w, c)
  BY <1>3 DEF Staking!requestUnlock, Staking!NewSlot, WithSlot
<1>5. PICK x \in RequestUnlock(w, c, n) : v = WithSlot(x, w, c)
  BY <1>4, StakingSame
<1>6. After(v, w, c, u) /\ Debited(v, w, c, SAvax, n)
  BY <1>1, <1>4, <1>5, Unlocked
<1> QED
  BY <1>6, Spent DEF Settled

\* A redemption of an unlock request.
LEMMA RedeemUnlockSettles ==
  ASSUME NEW u \in Users, NEW i \in Nat
  PROVE  Settles(Savax, [action |-> "redeem", unlockIndex |-> i, recipient |-> u], Avax, 0, u)
<1> DEFINE c == Own(Savax, u)
           call == [action |-> "redeem", unlockIndex |-> i, recipient |-> u]
<1> SUFFICES ASSUME NEW w, NEW v, Sound(w), Funded(w, c, Avax, 0), v \in Dispatch(c, call, w)
             PROVE  Settled(v, w, c, u)
  BY DEF Settles
<1>1. c \in Adapters /\ c \in Accounts /\ c.protocol # Benqi
  BY OwnTyped, Distinct DEF Protocols
<1>2. v \in Staking!Dispatch(c, call, w)
  BY Dispatched
<1> HIDE DEF c
<1>3. v \in Staking!redeem(w, c, call)
  BY <1>2 DEF Staking!Dispatch
<1>4. i < Len(w.slots[c])
  <2>1. Len(w.slots[c]) \in Nat
    BY <1>1 DEF Sound, Worlds
  <2>2. i >= Len(w.slots[c]) => Staking!redeem(w, c, call) = {}
    BY Zenon DEF Staking!redeem
  <2>3. ~(i >= Len(w.slots[c]))
    BY <1>3, <2>2, Zenon
  <2> HIDE DEF call
  <2> QED
    BY <2>1, <2>3
<1>5. PICK x \in Staking!RedeemUnlocked([w EXCEPT !.slots[c] = Staking!SwapAndPop(@, i)], c, w.slots[c][i + 1].index) :
          v = Staking!Move(x, Avax, c, u, x.balance[c][Avax] - w.balance[c][Avax])
  BY <1>3 DEF Staking!redeem, Staking!AndThen
<1> DEFINE k == x.balance[c][Avax] - w.balance[c][Avax]
<1>6. /\ x \in RedeemUnlocked(WithoutSlot(w, c, i), c, w.slots[c][i + 1].index)
      /\ v = Move(x, Avax, c, u, k)
  BY <1>5, StakingSame DEF WithoutSlot
<1>7. After(x, w, c, u) /\ \E m \in Nat : Credited(x, w, c, Avax, m)
  BY <1>1, <1>4, <1>6, UnlockRedeemed
<1>8. Avax \in AllTokens
  BY Distinct
<1>9. \A s \in AllTokens : w.balance[c][s] = 0
  BY <1>1 DEF Funded
<1>10. k \in Nat /\ x.balance[c][Avax] = k /\ \A s \in AllTokens \ {Avax} : x.balance[c][s] = 0
  BY <1>7, <1>8, <1>9 DEF Credited
<1> HIDE DEF k
<1>11. Funded(x, c, Avax, k) /\ k <= x.balance[c][Avax]
  BY <1>8, <1>10 DEF Funded
<1>12. Settled(v, x, c, u)
  BY <1>1, <1>6, <1>7, <1>8, <1>10, <1>11, PassedOn DEF After
<1> QED
  BY <1>7, <1>12, SettledAfter

\* A swap along a path pays the user.
LEMMA TradeSettles ==
  ASSUME NEW u \in Users, NEW path \in Paths, NEW n \in Nat, NEW least, NEW call,
         \A w : Joe!Dispatch(Own(TraderJoe, u), call, w)
                  \subseteq Joe!SwapExact(w, Own(TraderJoe, u), path, n, least, u)
  PROVE  Settles(TraderJoe, call, path[1], n, u)
<1> DEFINE c == Own(TraderJoe, u)
<1> SUFFICES ASSUME NEW w, NEW v, Sound(w), Funded(w, c, path[1], n), v \in Dispatch(c, call, w)
             PROVE  Settled(v, w, c, u)
  BY DEF Settles
<1>1. c \in Traders /\ u \in Traders /\ c # u
  BY OwnTyped DEF Protocols
<1>2. v \in SwapExact(w, c, path, n, least, u)
  BY Dispatched, JoeSame
<1> HIDE DEF c
<1>3. Quiet(v, w, c, u) /\ Debited(v, w, c, path[1], n)
  BY <1>1, <1>2, Swapped
<1>4. After(v, w, c, u)
  BY <1>3, QuietSound
<1> QED
  BY <1>3, <1>4, Spent DEF Settled

\* The swaps of the backend.
LEMMA SwapWithPathSettles ==
  ASSUME NEW u \in Users, NEW path \in Paths, NEW n \in Nat, NEW least, NEW x,
         NEW call, call = [action |-> "swapWithPath", value |-> x, amountIn |-> n,
                           amountOutMin |-> least, path |-> path, recipient |-> u]
  PROVE  Settles(TraderJoe, call, path[1], n, u)
<1>1. \A w : Joe!Dispatch(Own(TraderJoe, u), call, w)
                  \subseteq Joe!SwapExact(w, Own(TraderJoe, u), path, n, least, u)
  BY DEF Joe!Dispatch, Joe!swapWithPath
<1> QED
  BY <1>1, TradeSettles

\* Those of a wallet of its own accord.
LEMMA SwapSettles ==
  ASSUME NEW u \in Users, NEW a \in Traded, NEW b \in Traded, a # b, NEW n \in Nat,
         NEW call, call = [action |-> "swap", tokenIn |-> a, tokenOut |-> b, amountIn |-> n,
                           amountOutMin |-> 0, recipient |-> u]
  PROVE  Settles(TraderJoe, call, a, n, u)
<1> DEFINE path == Joe!PathOf(a, b)
<1>1. path \in Paths /\ path[1] = a
  BY Distinct DEF Joe!PathOf, Paths, Traded
<1>2. \A w : Joe!Dispatch(Own(TraderJoe, u), call, w)
                  \subseteq Joe!SwapExact(w, Own(TraderJoe, u), path, n, 0, u)
  BY DEF Joe!Dispatch, Joe!swap
<1> QED
  BY <1>1, <1>2, TradeSettles

-----------------------------------------------------------------------------
(* The contracts all users share                                           *)

Empty(w, x) == \A t \in AllTokens : w.balance[x][t] = 0

\* It has n of a token and nothing else.
Only(w, x, t, n) == \A s \in AllTokens : w.balance[x][s] = IF s = t THEN n ELSE 0

\* Nothing owed.
NoDebt(w, x) == \A q \in Markets : w.debt[x][q] = 0

\* They are accounts of Panorama's.
LEMMA SharedTyped ==
  ASSUME NEW d \in Users, NEW x \in {Lend, Swap}
  PROVE  /\ x \in Panorama /\ x \in Accounts /\ x \in Insiders /\ x \in Traders /\ x # d
         /\ x \notin Adapters
         /\ d \in Panorama /\ d \in Accounts /\ d \in Insiders /\ d \in Traders
         /\ Lend \in Borrowers /\ Lend # Swap
BY Distinct DEF Panorama, Insiders, Traders, Borrowers

\* The user's payment arrives.
LEMMA TakenOK ==
  ASSUME NEW w, Sound(w), NEW d \in Users, NEW x \in {Lend, Swap}, Empty(w, x),
         NEW t \in AllTokens, NEW n \in Nat, n <= w.balance[d][t], NEW v, v = Move(w, t, d, x, n)
  PROVE  Quiet(v, w, x, d) /\ Only(v, x, t, n)
<1>1. /\ x \in Accounts /\ d \in Accounts /\ x # d /\ x \in Insiders /\ d \in Insiders
  BY SharedTyped
<1>2. Shift(v, w, t, d, x, n)
  BY <1>1, Moved DEF Sound
<1>3. Quiet(v, w, x, d)
  BY <1>1, <1>2, ShiftQuiet
<1> QED
  BY <1>2, <1>3 DEF Shift, Empty, Only

\* The whole of a token leaves for the user.
LEMMA GivenOK ==
  ASSUME NEW w, Sound(w), NEW d \in Users, NEW x \in {Lend, Swap}, NEW t \in AllTokens,
         NEW n \in Nat, Only(w, x, t, n), NEW v, Shift(v, w, t, x, d, n)
  PROVE  Quiet(v, w, x, d) /\ Empty(v, x)
<1>1. /\ x \in Accounts /\ d \in Accounts /\ x # d /\ x \in Insiders /\ d \in Insiders
  BY SharedTyped
<1>2. Quiet(v, w, x, d)
  BY <1>1, ShiftQuiet
<1>3. Debited(v, w, x, t, n)
  BY <1>1, ShiftDebits DEF Sound
<1> QED
  BY <1>2, <1>3 DEF Empty, Only, Debited

\* A supply through the shared contract.
LEMMA LendSupply ==
  ASSUME NEW w, Sound(w), Empty(w, Lend), NEW d \in Users, NEW q \in Markets, NEW n \in Nat,
         NEW v \in SharedLend!SupplyTo(w, d, q, n)
  PROVE  Quiet(v, w, Lend, d) /\ Empty(v, Lend)
<1> DEFINE t == Underlying(q)
           x == Move(w, t, d, Lend, n)
<1>1. /\ Lend \in Accounts /\ d \in Accounts /\ Lend # d /\ Lend \in Panorama
      /\ Lend \in {Lend, Swap}
  BY SharedTyped
<1>2. t \in AllTokens \ Markets /\ q \in AllTokens /\ q \in Accounts
  BY MarketsTyped
<1>3. Has(w, t, d, n) /\ \E y \in Mint(x, Lend, q, n) :
        v \in SendQTokens(y, q, Lend, d, y.balance[Lend][q])
  BY SharedLendSame DEF SharedLend!SupplyTo, SharedLend!Take, SharedLend!AndThen
<1> HIDE DEF t
<1>4. n <= w.balance[d][t]
  BY <1>1, <1>2, <1>3, BalanceTyped DEF Has, Sound
<1>5. Quiet(x, w, Lend, d) /\ Only(x, Lend, t, n)
  BY <1>1, <1>2, <1>4, TakenOK
<1>6. Sound(x)
  BY <1>5, QuietSound
<1> HIDE DEF x
<1>7. PICK y \in Mint(x, Lend, q, n) : v \in SendQTokens(y, q, Lend, d, y.balance[Lend][q])
  BY <1>3
<1>8. PICK m \in Nat : y \in Worlds /\ Exchanged(y, x, Lend, q, t, n, q, m)
  BY <1>1, <1>6, <1>7, Minted DEF Sound, t
<1>9. Quiet(y, x, Lend, d) /\ Sound(y)
  BY <1>1, <1>6, <1>8, ExchangeQuiet, QuietSound
<1>10. Only(y, Lend, q, m)
  <2>1. \A s \in AllTokens \ {q, t} : y.balance[Lend][s] = 0
    BY <1>5, <1>8 DEF Only, Exchanged
  <2>2. y.balance[Lend][t] = 0 /\ y.balance[Lend][q] = m
    BY <1>2, <1>5, <1>8 DEF Only, Exchanged
  <2> QED
    BY <1>2, <2>1, <2>2 DEF Only
<1>11. y.balance[Lend][q] = m
  BY <1>2, <1>10 DEF Only
<1>12. Shift(v, y, q, Lend, d, m)
  BY <1>1, <1>7, <1>8, <1>11, SentQTokens
<1>13. Quiet(v, y, Lend, d) /\ Empty(v, Lend)
  BY <1>1, <1>2, <1>9, <1>10, <1>12, GivenOK
<1>14. Quiet(y, w, Lend, d)
  BY <1>5, <1>9, QuietTwice DEF Sound
<1> QED
  BY <1>13, <1>14, QuietTwice DEF Sound

\* A redemption through it.
LEMMA LendRedeem ==
  ASSUME NEW w, Sound(w), Empty(w, Lend), NEW d \in Users, NEW q \in Markets, NEW n \in Nat,
         NEW v \in SharedLend!RedeemFor(w, d, q, n)
  PROVE  Quiet(v, w, Lend, d) /\ Empty(v, Lend)
<1> DEFINE t == Underlying(q)
           x == Move(w, q, d, Lend, n)
<1>1. /\ Lend \in Accounts /\ d \in Accounts /\ Lend # d /\ Lend \in Panorama
      /\ Lend \in {Lend, Swap}
  BY SharedTyped
<1>2. t \in AllTokens \ Markets /\ q \in AllTokens /\ q \in Accounts
  BY MarketsTyped
<1>3. Has(w, q, d, n) /\ \E y \in Redeem(x, Lend, q, n) : v = Move(y, t, Lend, d, y.balance[Lend][t])
  BY SharedLendSame DEF SharedLend!RedeemFor, SharedLend!Take, SharedLend!AndThen, SharedLend!PayAll
<1>4. n <= w.balance[d][q]
  BY <1>1, <1>2, <1>3, BalanceTyped DEF Has, Sound
<1>5. Quiet(x, w, Lend, d) /\ Only(x, Lend, q, n)
  BY <1>1, <1>2, <1>4, TakenOK
<1>6. Sound(x)
  BY <1>5, QuietSound
<1> HIDE DEF x
<1>7. PICK y \in Redeem(x, Lend, q, n) : v = Move(y, t, Lend, d, y.balance[Lend][t])
  BY <1>3
<1> DEFINE m == Worth(x, q, n)
<1>8. y \in Worlds /\ Exchanged(y, x, Lend, q, q, n, t, m) /\ m \in Nat
  BY <1>1, <1>6, <1>7, Redeemed DEF Sound
<1> HIDE DEF t, m
<1>9. Quiet(y, x, Lend, d) /\ Sound(y)
  BY <1>1, <1>6, <1>8, ExchangeQuiet, QuietSound
<1>10. Only(y, Lend, t, m)
  <2>1. \A s \in AllTokens \ {q, t} : y.balance[Lend][s] = 0
    BY <1>5, <1>8 DEF Only, Exchanged
  <2>2. y.balance[Lend][q] = 0 /\ y.balance[Lend][t] = m
    BY <1>2, <1>5, <1>8 DEF Only, Exchanged
  <2> QED
    BY <1>2, <2>1, <2>2 DEF Only
<1>11. y.balance[Lend][t] = m
  BY <1>2, <1>10 DEF Only
<1>12. Shift(v, y, t, Lend, d, m)
  BY <1>1, <1>2, <1>7, <1>8, <1>11, Moved
<1>13. Quiet(v, y, Lend, d) /\ Empty(v, Lend)
  BY <1>1, <1>2, <1>8, <1>9, <1>10, <1>12, GivenOK
<1>14. Quiet(y, w, Lend, d)
  BY <1>5, <1>9, QuietTwice DEF Sound
<1> QED
  BY <1>13, <1>14, QuietTwice DEF Sound

\* Nobody can borrow through it: it has no collateral.
LEMMA LendBorrow ==
  ASSUME NEW w, Sound(w), Empty(w, Lend), NoDebt(w, Lend), NEW d \in Users, NEW q \in Markets,
         NEW n \in Nat \ {0}
  PROVE  SharedLend!BorrowFor(w, d, q, n) = {}
<1> DEFINE e == EnterMarkets(w, Lend, {q})
           t == Underlying(q)
           x == Move(e, t, q, Lend, n)
           after == [x EXCEPT !.debt[Lend][q] = @ + n]
<1>1. Lend \in Borrowers /\ Lend \in Accounts /\ {q} \in SUBSET Markets
  BY SharedTyped DEF Borrowers, Accounts, Contracts
<1>2. After(e, w, Lend, Lend) /\ e.balance = w.balance /\ Sound(e) /\ e.debt = w.debt
  BY <1>1, Entered DEF After
<1> HIDE DEF e
<1>3. SUFFICES ASSUME NEW v \in Borrow(e, Lend, q, n) PROVE FALSE
  BY SharedLendSame DEF SharedLend!BorrowFor, SharedLend!AndThen, e
<1>4. Has(e, t, q, n) /\ Healthy(after, Lend)
  BY DEF Borrow
<1>5. t \in AllTokens \ Markets /\ q \in AllTokens /\ q \in Accounts /\ q # Lend
  BY MarketsTyped, Distinct DEF Panorama
<1> HIDE DEF t
<1>6. x \in Worlds /\ Shift(x, e, t, q, Lend, n)
  <2>1. e.balance[q][t] \in Nat
    BY <1>2, <1>5, BalanceTyped DEF Sound
  <2> QED
    BY <1>1, <1>2, <1>4, <1>5, <2>1, Moved DEF Has, Sound
<1>7. x.debt = e.debt
  BY <1>2, <1>6, RebalancedWorld DEF Shift, Sound
<1> HIDE DEF x
<1>8. \A m \in Markets : x.balance[Lend][m] = 0
  <2>1. \A m \in Markets : m \in AllTokens \ {t}
    BY <1>5, MarketsTyped
  <2> QED
    BY <1>1, <1>2, <1>5, <1>6, <2>1 DEF Shift, Empty
<1> DEFINE k == x.debt[Lend][q] + n
<1>9. k = n
  BY <1>2, <1>7 DEF NoDebt
<1> HIDE DEF k
<1>10. \A m \in Markets : (after.debt[Lend])[m] = IF m = q THEN n ELSE 0
  <2>1. after = [x EXCEPT !.debt = [x.debt EXCEPT ![Lend] = [x.debt[Lend] EXCEPT ![q] = k]]]
    BY <1>6 DEF Worlds, k
  <2>2. x.debt \in [Borrowers -> [Markets -> Nat]]
    BY <1>6 DEF Worlds
  <2>3. after.debt = [x.debt EXCEPT ![Lend] = [x.debt[Lend] EXCEPT ![q] = k]]
    BY <1>6, <2>1 DEF Worlds
  <2>4. \A m \in Markets : x.debt[Lend][m] = 0
    BY <1>2, <1>7 DEF NoDebt
  <2> HIDE DEF after
  <2> QED
    BY <1>1, <1>9, <2>2, <2>3, <2>4
<1>11. after.balance = x.balance /\ after.rate = x.rate
  BY <1>6 DEF Worlds
<1> HIDE DEF after
<1>12. \A m \in Markets : Backing(after, Lend, m) = 0
  <2> SUFFICES ASSUME NEW m \in Markets PROVE Backing(after, Lend, m) = 0
    OBVIOUS
  <2> DEFINE r == x.rate[m]
  <2>1. r \in Nat /\ Scale \in Nat \ {0}
    BY <1>6, RatesTyped
  <2>2. Worth(after, m, after.balance[Lend][m]) = (0 * r) \div Scale
    BY <1>8, <1>11 DEF Worth
  <2> HIDE DEF r
  <2>3. 0 * r = 0 /\ 0 \div Scale = 0
    BY <2>1
  <2> QED
    BY <2>2, <2>3 DEF Backing
<1>13. QiAvax \in Markets /\ QiUsdc \in Markets /\ QiAvax # QiUsdc /\ q \in {QiAvax, QiUsdc}
  BY Distinct
<1> QED
  BY <1>4, <1>10, <1>12, <1>13 DEF Healthy

\* So there is nothing to repay.
LEMMA LendRepay ==
  ASSUME NEW w, Sound(w), Empty(w, Lend), NoDebt(w, Lend), NEW d \in Users, NEW q \in Markets,
         NEW n \in Nat \ {0}
  PROVE  SharedLend!RepayFrom(w, d, q, n) = {}
<1> DEFINE t == Underlying(q)
           x == Move(w, t, d, Lend, n)
<1>1. SUFFICES ASSUME NEW v \in RepayBorrow(x, Lend, q, n), Has(w, t, d, n) PROVE FALSE
  BY SharedLendSame DEF SharedLend!RepayFrom, SharedLend!AndThen, SharedLend!Take
<1>2. d \in Accounts /\ t \in AllTokens
  BY SharedTyped, MarketsTyped
<1> HIDE DEF t
<1>3. n <= w.balance[d][t]
  BY <1>1, <1>2, BalanceTyped DEF Has, Sound
<1>4. Quiet(x, w, Lend, d)
  BY <1>2, <1>3, TakenOK
<1>5. x.debt = w.debt
  BY <1>4, QuietSound
<1>6. x.debt[Lend][q] = 0
  BY <1>5 DEF NoDebt
<1>7. n <= x.debt[Lend][q]
  BY <1>1 DEF RepayBorrow
<1> QED
  BY <1>6, <1>7

\* What the contract all users share does for a user, if anything.
LEMMA LendCalled ==
  ASSUME NEW w, Sound(w), Empty(w, Lend), NoDebt(w, Lend), NEW d \in Users,
         NEW call \in LendCalls, NEW v \in SharedLend!Dispatch(d, call, w)
  PROVE  Quiet(v, w, Lend, d) /\ Empty(v, Lend)
<1> DEFINE q == IF call.action \in {"supply", "redeem", "borrow", "repay"} THEN call.qToken ELSE QiAvax
           n == call.amount
<1>1. q \in Markets /\ n \in Nat
  BY DEF LendCalls, Markets
<1>2. \/ v \in SharedLend!SupplyTo(w, d, q, n)
      \/ v \in SharedLend!RedeemFor(w, d, q, n)
      \/ v \in SharedLend!BorrowFor(w, d, q, n) /\ n # 0
      \/ v \in SharedLend!RepayFrom(w, d, q, n) /\ n # 0
  <2>1. CASE call.action = "supply"
    BY <2>1 DEF SharedLend!Dispatch, SharedLend!supply
  <2>2. CASE call.action = "redeem"
    BY <2>2 DEF SharedLend!Dispatch, SharedLend!redeem
  <2>3. CASE call.action = "borrow"
    BY <2>3 DEF SharedLend!Dispatch, SharedLend!borrow
  <2>4. CASE call.action = "repay"
    BY <2>4 DEF SharedLend!Dispatch, SharedLend!repay
  <2>5. CASE call.action = "supplyAVAX"
    BY <2>5 DEF SharedLend!Dispatch, SharedLend!supplyAVAX
  <2>6. CASE call.action = "redeemAVAX"
    BY <2>6 DEF SharedLend!Dispatch, SharedLend!redeemAVAX
  <2>7. CASE call.action = "borrowAVAX"
    BY <2>7 DEF SharedLend!Dispatch, SharedLend!borrowAVAX
  <2>8. CASE call.action = "repayAVAX"
    BY <2>8 DEF SharedLend!Dispatch, SharedLend!repayAVAX
  <2> QED
    BY <2>1, <2>2, <2>3, <2>4, <2>5, <2>6, <2>7, <2>8 DEF LendCalls
<1> HIDE DEF q, n
<1>3. n # 0 => SharedLend!BorrowFor(w, d, q, n) = {} /\ SharedLend!RepayFrom(w, d, q, n) = {}
  BY <1>1, LendBorrow, LendRepay
<1> QED
  BY <1>1, <1>2, <1>3, LendSupply, LendRedeem

\* The same of the shared swap contract.
LEMMA SwapCalled ==
  ASSUME NEW w, Sound(w), Empty(w, Swap), NEW d \in Users, NEW call \in SwapCalls, NEW time,
         NEW v \in SharedSwap!Dispatch(d, time, call, w)
  PROVE  Quiet(v, w, Swap, d) /\ Empty(v, Swap)
<1> DEFINE path == call.path
           n == call.amountIn
           t == path[1]
           x == Move(w, t, d, Swap, n)
<1>1. path \in Paths /\ n \in Nat
  BY DEF SwapCalls
<1>2. v \in SharedSwap!SwapFor(w, d, call)
  <2>1. CASE call.action = "swapTokensForTokens"
    BY <2>1 DEF SharedSwap!Dispatch, SharedSwap!swapTokensForTokens
  <2>2. CASE call.action = "swapAVAXForTokens"
    BY <2>2 DEF SharedSwap!Dispatch, SharedSwap!swapAVAXForTokens
  <2>3. CASE call.action = "swapTokensForAVAX"
    BY <2>3 DEF SharedSwap!Dispatch, SharedSwap!swapTokensForAVAX
  <2> QED
    BY <2>1, <2>2, <2>3 DEF SwapCalls
<1>3. Has(w, t, d, n) /\ v \in SwapExact(x, Swap, path, n, call.amountOutMin, d)
  BY <1>2, SharedSwapSame DEF SharedSwap!SwapFor
<1>4. t \in AllTokens
  BY <1>1, Distinct DEF Paths
<1>5. Swap \in {Lend, Swap} /\ Swap \in Traders /\ d \in Traders /\ Swap # d /\ d \in Accounts
  BY SharedTyped
<1> HIDE DEF path, n, t
<1>6. n <= w.balance[d][t]
  BY <1>1, <1>3, <1>4, <1>5, BalanceTyped DEF Has, Sound
<1>7. Quiet(x, w, Swap, d) /\ Only(x, Swap, t, n)
  BY <1>1, <1>4, <1>5, <1>6, TakenOK
<1>8. Sound(x)
  BY <1>7, QuietSound
<1> HIDE DEF x
<1>9. Quiet(v, x, Swap, d) /\ Debited(v, x, Swap, t, n)
  BY <1>1, <1>3, <1>5, <1>8, Swapped DEF t
<1>10. Empty(v, Swap)
  BY <1>1, <1>7, <1>9 DEF Empty, Only, Debited
<1> QED
  BY <1>7, <1>9, <1>10, QuietTwice DEF Sound

-----------------------------------------------------------------------------
(* Clean worlds                                                            *)

\* Nothing stays in the contracts of Panorama but deposited qTokens.
Clean(w) ==
    /\ \A c \in Adapters : Funded(w, c, Avax, 0)
    /\ Empty(w, Executor) /\ Empty(w, Lend) /\ Empty(w, Swap)
    /\ NoDebt(w, Lend)

\* A step of one user: the others do not notice.
Served(v, w, u) ==
    /\ Sound(v) /\ Clean(v) /\ v.rate = w.rate
    /\ \A d \in Users \ {u} : v.balance[d] = w.balance[d]
    /\ \A a \in Adapters : a.user # u =>
          /\ v.balance[a] = w.balance[a] /\ v.debt[a] = w.debt[a] /\ v.entered[a] = w.entered[a]
          /\ v.requests[a] = w.requests[a] /\ v.slots[a] = w.slots[a]

\* A step through the user's adapter.
LEMMA SettledServed ==
  ASSUME NEW w, Clean(w), NEW p \in Protocols, NEW u \in Users, NEW v, Settled(v, w, Own(p, u), u)
  PROVE  Served(v, w, u)
<1> DEFINE c == Own(p, u)
<1>1. c \in Adapters /\ c.user = u
  BY OwnTyped
<1> HIDE DEF c
<1>2. After(v, w, c, u) /\ Funded(v, c, Avax, 0)
  BY DEF Settled, c
<1>3. /\ Users \subseteq Panorama /\ Adapters \subseteq Panorama
      /\ {Executor, Lend, Swap} \subseteq Panorama \ {c, u} /\ Users \cap Adapters = {}
      /\ Adapters \subseteq Borrowers /\ Lend \in Borrowers \ {c}
  BY <1>1, Distinct DEF Panorama, Borrowers
<1>4. \A x \in Panorama \ {c, u} : v.balance[x] = w.balance[x]
  BY <1>2 DEF After
<1>5. Clean(v)
  <2>1. Empty(v, Executor) /\ Empty(v, Lend) /\ Empty(v, Swap)
    BY <1>3, <1>4 DEF Clean, Empty
  <2>2. v.debt[Lend] = w.debt[Lend]
    BY <1>2, <1>3 DEF After, SameExcept
  <2>3. ASSUME NEW a \in Adapters PROVE Funded(v, a, Avax, 0)
    <3>1. CASE a = c
      BY <1>2, <3>1
    <3>2. CASE a # c
      <4>1. v.balance[a] = w.balance[a]
        BY <1>1, <1>3, <1>4, <3>2
      <4> QED
        BY <4>1 DEF Clean, Funded
    <3> QED
      BY <3>1, <3>2
  <2> QED
    BY <2>1, <2>2, <2>3 DEF Clean, NoDebt
<1>6. \A d \in Users \ {u} : v.balance[d] = w.balance[d]
  BY <1>1, <1>3, <1>4
<1>7. ASSUME NEW a \in Adapters, a.user # u
      PROVE  /\ v.balance[a] = w.balance[a] /\ v.debt[a] = w.debt[a] /\ v.entered[a] = w.entered[a]
             /\ v.requests[a] = w.requests[a] /\ v.slots[a] = w.slots[a]
  <2>1. a # c /\ a # u /\ a \in Panorama /\ a \in Borrowers
    BY <1>1, <1>3, <1>7
  <2> QED
    BY <1>2, <1>4, <2>1 DEF After, SameExcept
<1> QED
  BY <1>2, <1>5, <1>6, <1>7 DEF Served, After, SameExcept

\* A step through a shared contract.
LEMMA SharedServed ==
  ASSUME NEW w, Sound(w), Clean(w), NEW u \in Users, NEW x \in {Lend, Swap}, NEW v,
         Quiet(v, w, x, u), Empty(v, x)
  PROVE  Served(v, w, u)
<1>1. /\ Users \subseteq Panorama /\ Adapters \subseteq Panorama /\ Executor \in Panorama
      /\ {Lend, Swap} \subseteq Panorama /\ Users \cap Adapters = {} /\ x \notin Adapters
      /\ {Executor, Lend, Swap} \cap Users = {} /\ x \notin Users /\ x # Executor
  BY Distinct DEF Panorama
<1>2. \A y \in Panorama \ {x, u} : v.balance[y] = w.balance[y]
  BY DEF Quiet
<1>3. /\ Sound(v) /\ v.debt = w.debt /\ v.entered = w.entered /\ v.requests = w.requests
      /\ v.slots = w.slots /\ v.rate = w.rate
  BY QuietSound
<1>4. Clean(v)
  <2>1. Empty(v, Executor) /\ Empty(v, Lend) /\ Empty(v, Swap)
    BY <1>1, <1>2 DEF Clean, Empty
  <2>2. \A a \in Adapters : Funded(v, a, Avax, 0)
    BY <1>1, <1>2 DEF Clean, Funded
  <2> QED
    BY <1>3, <2>1, <2>2 DEF Clean, NoDebt
<1> QED
  BY <1>1, <1>2, <1>3, <1>4 DEF Served

-----------------------------------------------------------------------------
(* The executor pulls the payment and routes the call                      *)

\* A payment of n of a token, and of nothing else.
Pays(payment, t, n) ==
    /\ DOMAIN payment \subseteq AllTokens /\ t \in AllTokens /\ n \in Nat
    /\ \A s \in AllTokens : (IF s \in {r \in DOMAIN payment : payment[r] > 0} THEN payment[s] ELSE 0)
                              = IF s = t THEN n ELSE 0

\* Those of the bundles.
LEMMA PaymentOfOne ==
  ASSUME NEW t \in AllTokens, NEW n \in Nat
  PROVE  Pays(Pay(t, n), t, n)
BY DEF Pays, Pay

\* And none.
LEMMA PaymentOfNothing == Pays(NoTokens, Avax, 0)
<1>1. Avax \in AllTokens
  BY Distinct
<1> QED
  BY <1>1 DEF Pays, NoTokens

\* Allowances are spent.
LEMMA AllowanceSet ==
  ASSUME NEW w, Sound(w), NEW al \in [Users -> [AllTokens -> Nat]],
         NEW v, v = [w EXCEPT !.allowance = al]
  PROVE  /\ Sound(v) /\ v.balance = w.balance /\ v.debt = w.debt /\ v.entered = w.entered
         /\ v.requests = w.requests /\ v.slots = w.slots /\ v.rate = w.rate /\ v.made = w.made
<1>1. w \in Worlds
  BY DEF Sound
<1>2. /\ v \in Worlds /\ v.balance = w.balance /\ v.debt = w.debt /\ v.entered = w.entered
      /\ v.requests = w.requests /\ v.slots = w.slots /\ v.rate = w.rate
      /\ v.reordered = w.reordered /\ v.made = w.made
  BY <1>1 DEF Worlds
<1> QED
  BY <1>2 DEF Sound

\* What is pulled arrives in the adapter, which had nothing.
LEMMA PulledOK ==
  ASSUME NEW w, Sound(w), Clean(w), NEW u \in Users, NEW p \in Protocols,
         NEW payment, NEW t, NEW n, Pays(payment, t, n),
         NEW v \in TransferFrom(w, u, Own(p, u), payment)
  PROVE  /\ After(v, w, Own(p, u), u) /\ Funded(v, Own(p, u), t, n)
         /\ v.balance[u][t] = w.balance[u][t] - n
         /\ \A s \in AllTokens \ {t} : v.balance[u][s] = w.balance[u][s]
         /\ \A s \in AllTokens : v.balance[Own(p, u)][s] =
                                    w.balance[Own(p, u)][s] + IF s = t THEN n ELSE 0
         /\ \A y \in Accounts \ {u, Own(p, u)} : v.balance[y] = w.balance[y]
         /\ v.debt = w.debt
<1> DEFINE c == Own(p, u)
           owed == {s \in DOMAIN payment : payment[s] > 0}
           Of(s) == IF s \in owed THEN payment[s] ELSE 0
           less == [s \in AllTokens |-> w.balance[u][s] - Of(s)]
           more == [s \in AllTokens |-> w.balance[c][s] + Of(s)]
           rest == [s \in AllTokens |-> IF s = Avax THEN w.allowance[u][s]
                                        ELSE w.allowance[u][s] - Of(s)]
           b == [[w.balance EXCEPT ![u] = less] EXCEPT ![c] = more]
           al == [w.allowance EXCEPT ![u] = rest]
           x == [w EXCEPT !.balance = b]
<1>1. c \in Adapters /\ c \in Accounts /\ u \in Accounts /\ c # u /\ c \in Panorama /\ u \in Panorama
  BY OwnTyped
<1>2. /\ \A s \in owed : w.balance[u][s] >= payment[s]
      /\ \A s \in owed : s = Avax \/ w.allowance[u][s] >= payment[s]
      /\ v = [w EXCEPT !.balance[u] = [s \in AllTokens |-> @[s] - Of(s)],
                       !.balance[c] = [s \in AllTokens |-> @[s] + Of(s)],
                       !.allowance[u] =
                          [s \in AllTokens |-> IF s = Avax THEN @[s] ELSE @[s] - Of(s)]]
  BY DEF TransferFrom, Has
<1>3. w \in Worlds /\ w.balance \in Balances /\ w.allowance \in [Users -> [AllTokens -> Nat]]
  BY DEF Sound, Worlds, Balances
<1>4. \A s \in AllTokens : Of(s) \in Nat /\ Of(s) = IF s = t THEN n ELSE 0
  BY DEF Pays
<1>5. v = [w EXCEPT !.balance = b, !.allowance = al]
  BY <1>1, <1>2, <1>3 DEF Worlds, Balances
<1>6. less \in [AllTokens -> Nat] /\ more \in [AllTokens -> Nat] /\ rest \in [AllTokens -> Nat]
  BY <1>1, <1>2, <1>3, <1>4 DEF Balances
<1>7. \A s \in AllTokens : less[s] = w.balance[u][s] - Of(s) /\ more[s] = w.balance[c][s] + Of(s)
  OBVIOUS
<1> HIDE DEF less, more, rest, c
<1>8. /\ b \in Balances /\ al \in [Users -> [AllTokens -> Nat]]
      /\ b[u] = less /\ b[c] = more /\ \A y \in Accounts \ {u, c} : b[y] = w.balance[y]
  BY <1>1, <1>3, <1>6 DEF Balances
<1> HIDE DEF b, al
<1>9. Rebalanced(x, w) /\ x.balance = b
  BY <1>3, <1>8 DEF Rebalanced, Worlds, Balances
<1>10. Liquid(x.balance) /\ \A y \in Panorama \ {c, u} : x.balance[y] = w.balance[y]
  <2>1. {JoeUsdc, JoeSAvax} \subseteq Accounts \ {u, c} /\ Panorama \subseteq Accounts
    BY <1>1, Distinct DEF Outside
  <2> QED
    BY <1>8, <1>9, <2>1, PairsStay DEF Sound
<1>11. Quiet(x, w, c, u)
  BY <1>9, <1>10 DEF Quiet
<1>12. Sound(x) /\ After(x, w, c, u)
  BY <1>11, QuietSound
<1>13. v = [x EXCEPT !.allowance = al]
  BY <1>3, <1>5 DEF Worlds
<1> HIDE DEF x
<1>14. /\ Sound(v) /\ v.balance = b /\ v.debt = x.debt /\ v.entered = x.entered
       /\ v.requests = x.requests /\ v.slots = x.slots /\ v.rate = x.rate
  BY <1>8, <1>9, <1>12, <1>13, AllowanceSet
<1>15. After(v, w, c, u)
  BY <1>9, <1>12, <1>14 DEF After, SameExcept
<1>16. t \in AllTokens /\ \A s \in AllTokens : w.balance[u][s] \in Nat /\ w.balance[c][s] \in Nat
  BY <1>1, <1>3, BalanceTyped DEF Pays
<1>17. /\ v.balance[u][t] = w.balance[u][t] - n
       /\ \A s \in AllTokens \ {t} : v.balance[u][s] = w.balance[u][s]
  BY <1>4, <1>7, <1>8, <1>14, <1>16
<1>18. \A s \in AllTokens : v.balance[c][s] = w.balance[c][s] + IF s = t THEN n ELSE 0
  BY <1>4, <1>7, <1>8, <1>14
<1>19. Funded(w, c, Avax, 0) /\ n \in Nat
  BY <1>1 DEF Clean, Pays
<1>20. Funded(v, c, t, n)
  BY <1>16, <1>18, <1>19 DEF Funded
<1>21. v.debt = w.debt /\ \A y \in Accounts \ {u, c} : v.balance[y] = w.balance[y]
  BY <1>3, <1>8, <1>9, <1>14, RebalancedWorld
<1> QED
  BY <1>15, <1>17, <1>18, <1>20, <1>21 DEF c

-----------------------------------------------------------------------------
(* The registry                                                            *)

\* A user's slot for a protocol is empty or leads to the user's own adapter.
RegistryOK ==
    /\ Base!TypeOK
    /\ \A p \in Protocols : protocolBeacons[p] = Beacon /\ protocolInitArgs[p] = Args
    /\ \A p \in Protocols, u \in Users : userAdapters[p][u] \in {NoAddress, Own(p, u)}

\* What the instance of the executor's module calls an adapter.
LEMMA SameAdapters == Base!Adapter = Adapters
BY DEF Base!Adapter, Adapters

\* The adapter a call runs in is the user's own.
LEMMA OwnAdapter ==
  ASSUME RegistryOK, NEW p \in Protocols, NEW u \in Users
  PROVE  Base!AdapterFor(p, u) = Own(p, u) /\ Base!predictUserAdapter(p, u) = Own(p, u)
<1>1. Beacon # NoAddress
  BY AvaxAssumption DEF Base!ExecutorAssumption
<1>2. Base!predictUserAdapter(p, u) = Own(p, u)
  BY <1>1 DEF RegistryOK, Base!predictUserAdapter, Base!Create2, Own
<1> QED
  BY <1>2 DEF RegistryOK, Base!AdapterFor

\* At the start those who have a position have adapters.
LEMMA RegistryInit ==
  ASSUME Init
  PROVE  RegistryOK
<1>1. Beacon # NoAddress
  BY AvaxAssumption DEF Base!ExecutorAssumption
<1>2. /\ protocolBeacons = [p \in Protocols |-> Beacon]
      /\ protocolInitArgs = [p \in Protocols |-> Args]
      /\ userAdapters = [p \in Protocols |-> [u \in Users |->
           IF u \in Earlier /\ p # TraderJoe THEN Base!predictUserAdapter(p, u) ELSE NoAddress]]
      /\ now = 0 /\ owner = Owner /\ pendingOwner = NoAddress /\ authorizedOperators = {}
      /\ pendingBeaconRemovals = [p \in Protocols |-> 0] /\ scheduledAt = [p \in Protocols |-> 0]
  BY DEF Init
<1>3. \A p \in Protocols : protocolBeacons[p] = Beacon /\ protocolInitArgs[p] = Args
  BY <1>2
<1>4. \A p \in Protocols, u \in Users : Base!predictUserAdapter(p, u) = Own(p, u)
  BY <1>1, <1>3 DEF Base!predictUserAdapter, Base!Create2, Own
<1>5. \A p \in Protocols, u \in Users : userAdapters[p][u] \in {NoAddress, Own(p, u)}
  BY <1>2, <1>4
<1>6. userAdapters \in [Protocols -> [Users -> Adapters \cup {NoAddress}]]
  BY <1>2, <1>4, OwnTyped
<1>7. Base!TypeOK
  BY <1>2, <1>6, SameAdapters DEF Base!TypeOK
<1> QED
  BY <1>3, <1>5, <1>7 DEF RegistryOK

\* The registry stays as it is.
LEMMA RegistryStays ==
  ASSUME RegistryOK, UNCHANGED chainVars
  PROVE  RegistryOK'
BY DEF RegistryOK, chainVars, Base!TypeOK

\* A routed call serves its user, who has the adapter afterwards.
LEMMA Executed ==
  ASSUME RegistryOK, Sound(world), Clean(world), NEW p \in Protocols, NEW u \in Users,
         NEW call, NEW payment, NEW deadline, NEW t, NEW n, Pays(payment, t, n),
         Settles(p, call, t, n, u), Base!execute(u, p, call, payment, deadline),
         world'.made <= MaxRequests
  PROVE  RegistryOK' /\ Served(world', world, u)
<1> DEFINE a == Own(p, u)
<1>1. Base!Route(u, u, p, call, payment, deadline) /\ a = Base!AdapterFor(p, u)
  BY OwnAdapter DEF Base!execute
<1>2. /\ userAdapters' = [userAdapters EXCEPT ![p][u] = a]
      /\ world' \in Base!Results(u, a, call, payment)
      /\ UNCHANGED <<now, Base!ownerVars, Base!registryVars>>
  BY <1>1 DEF Base!Route
<1>3. PICK x \in TransferFrom(world, u, a, payment) : world' \in Dispatch(a, call, x)
  BY <1>2 DEF Base!Results
<1>4. After(x, world, a, u) /\ Funded(x, a, t, n)
  BY <1>3, PulledOK
<1>5. Settled(world', x, a, u)
  BY <1>3, <1>4 DEF Settles, After
<1>6. Served(world', world, u)
  BY <1>4, <1>5, SettledAfter, SettledServed
<1>7. a \in Adapters
  BY OwnTyped
<1>8. \A q \in Protocols, v \in Users : a = Own(q, v) \/ q # p \/ v # u
  OBVIOUS
<1> HIDE DEF a
<1>9. userAdapters \in [Protocols -> [Users -> Adapters \cup {NoAddress}]]
  BY SameAdapters DEF RegistryOK, Base!TypeOK
<1>10. /\ userAdapters' \in [Protocols -> [Users -> Adapters \cup {NoAddress}]]
       /\ \A q \in Protocols, v \in Users : userAdapters'[q][v] =
            IF q = p /\ v = u THEN a ELSE userAdapters[q][v]
  BY <1>2, <1>7, <1>9
<1>11. Base!TypeOK'
  BY <1>2, <1>10, SameAdapters DEF RegistryOK, Base!TypeOK, Base!ownerVars, Base!registryVars
<1>12. RegistryOK'
  BY <1>2, <1>8, <1>10, <1>11 DEF RegistryOK, Base!ownerVars, Base!registryVars
<1> QED
  BY <1>6, <1>12

-----------------------------------------------------------------------------
(* Everybody else, and the initial world                                   *)

\* Whether a world is clean is a matter of balances and the shared contract's debt.
LEMMA CleanSame ==
  ASSUME NEW w, Clean(w), NEW v, \A x \in Panorama : v.balance[x] = w.balance[x],
         v.debt[Lend] = w.debt[Lend]
  PROVE  Clean(v)
<1>1. Adapters \subseteq Panorama /\ {Executor, Lend, Swap} \subseteq Panorama
  BY DEF Panorama
<1> QED
  BY <1>1 DEF Clean, Funded, Empty, NoDebt

\* An approval concerns the user.
LEMMA Approved ==
  ASSUME NEW w, Sound(w), Clean(w), NEW u \in Users, NEW t \in AllTokens, NEW n \in Nat,
         NEW v, v = [w EXCEPT !.allowance[u][t] = n]
  PROVE  Served(v, w, u) /\ v.balance = w.balance /\ v.debt = w.debt
<1> DEFINE row == [w.allowance[u] EXCEPT ![t] = n]
           al == [w.allowance EXCEPT ![u] = row]
<1>1. w \in Worlds /\ w.allowance \in [Users -> [AllTokens -> Nat]]
  BY DEF Sound, Worlds
<1>2. row \in [AllTokens -> Nat] /\ v = [w EXCEPT !.allowance = al]
  BY <1>1 DEF Worlds
<1> HIDE DEF row
<1>3. al \in [Users -> [AllTokens -> Nat]]
  BY <1>1, <1>2
<1> HIDE DEF al
<1>4. /\ Sound(v) /\ v.balance = w.balance /\ v.debt = w.debt /\ v.entered = w.entered
      /\ v.requests = w.requests /\ v.slots = w.slots /\ v.rate = w.rate
  BY <1>2, <1>3, AllowanceSet
<1>5. Clean(v)
  BY <1>4, CleanSame
<1> QED
  BY <1>4, <1>5 DEF Served

\* Trades of others.
LEMMA MarketTraded ==
  ASSUME NEW w, Sound(w), Clean(w), NEW path \in Paths, NEW n \in Nat,
         NEW v \in SwapExact(w, Market, path, n, 0, Market)
  PROVE  Served(v, w, Market)
<1>1. Market \in Traders /\ Market \notin Panorama /\ Users \subseteq Panorama /\ Adapters \subseteq Panorama
  BY Distinct DEF Traders, Panorama
<1>2. Quiet(v, w, Market, Market)
  BY <1>1, Swapped
<1>3. /\ Sound(v) /\ v.debt = w.debt /\ v.entered = w.entered
      /\ v.requests = w.requests /\ v.slots = w.slots /\ v.rate = w.rate
  BY <1>2, QuietSound
<1>4. \A x \in Panorama : v.balance[x] = w.balance[x]
  BY <1>1, <1>2 DEF Quiet
<1>5. Clean(v)
  BY <1>3, <1>4, CleanSame
<1> QED
  BY <1>1, <1>3, <1>4, <1>5 DEF Served

\* Time.
LEMMA CooledDown ==
  ASSUME NEW w, Sound(w), Clean(w), w.cooled < w.made, NEW v, v = [w EXCEPT !.cooled = @ + 1]
  PROVE  Served(v, w, Market)
<1> DEFINE k == w.cooled + 1
<1>1. w \in Worlds
  BY DEF Sound
<1>2. k \in 0 .. MaxRequests /\ v = [w EXCEPT !.cooled = k]
  <2>1. w.cooled \in 0 .. MaxRequests /\ w.made \in 0 .. MaxRequests
    BY <1>1 DEF Worlds
  <2>2. MaxRequests \in Nat
    BY AvaxAssumption
  <2>3. k \in 0 .. MaxRequests
    BY <2>1, <2>2
  <2> QED
    BY <2>3
<1> HIDE DEF k
<1>3. /\ v \in Worlds /\ v.balance = w.balance /\ v.debt = w.debt /\ v.entered = w.entered
      /\ v.requests = w.requests /\ v.slots = w.slots /\ v.rate = w.rate
      /\ v.reordered = w.reordered
  BY <1>1, <1>2 DEF Worlds
<1>4. Sound(v)
  BY <1>3 DEF Sound
<1>5. Clean(v)
  BY <1>3, CleanSame
<1> QED
  BY <1>3, <1>4, <1>5 DEF Served

\* Interest.
LEMMA Accrued ==
  ASSUME NEW w, Sound(w), Clean(w), NEW q \in Markets, w.rate[q] < MaxRate,
         NEW v, v = Accrue(w, q)
  PROVE  /\ Sound(v) /\ Clean(v) /\ v.rate # w.rate
         /\ \A m \in Markets : w.rate[m] <= v.rate[m]
<1> DEFINE r == w.rate[q]
           rates == [w.rate EXCEPT ![q] = r + 1]
           More(k) == k + (k \div r)
           row(x) == [w.debt[x] EXCEPT ![q] = More(w.debt[x][q])]
           debts == [x \in Borrowers |-> row(x)]
<1>1. /\ w \in Worlds /\ w.rate \in [Markets -> Scale .. MaxRate]
      /\ w.debt \in [Borrowers -> [Markets -> Nat]] /\ DOMAIN w.debt = Borrowers
  BY DEF Sound, Worlds
<1>2. Scale \in Nat \ {0} /\ MaxRate \in Nat /\ r \in Nat \ {0}
  BY <1>1, RatesTyped, AvaxAssumption
<1>3. v = [w EXCEPT !.rate = rates, !.debt = debts]
  <2>1. v = [w EXCEPT !.rate[q] = w.rate[q] + 1,
                      !.debt = [x \in DOMAIN w.debt |-> [w.debt[x] EXCEPT
                          ![q] = w.debt[x][q] + (w.debt[x][q] \div w.rate[q])]]]
    BY DEF Accrue
  <2>2. v = [w EXCEPT !.rate = [w.rate EXCEPT ![q] = w.rate[q] + 1],
                      !.debt = [x \in DOMAIN w.debt |-> [w.debt[x] EXCEPT
                          ![q] = w.debt[x][q] + (w.debt[x][q] \div w.rate[q])]]]
    BY <2>1, Zenon
  <2> QED
    BY <1>1, <2>2, Zenon
<1>4. /\ rates \in [Markets -> Scale .. MaxRate] /\ rates # w.rate
      /\ \A m \in Markets : w.rate[m] <= rates[m]
  <2>1. \A m \in Markets : w.rate[m] \in Nat
    BY <1>1, <1>2
  <2>2. r + 1 \in Scale .. MaxRate
    BY <1>1, <1>2
  <2>3. rates \in [Markets -> Scale .. MaxRate] /\ rates[q] = r + 1
        /\ \A m \in Markets \ {q} : rates[m] = w.rate[m]
    BY <1>1, <2>2
  <2> HIDE DEF rates
  <2>4. \A m \in Markets : w.rate[m] <= rates[m]
    BY <2>1, <2>3
  <2> QED
    BY <1>2, <2>3, <2>4
<1> HIDE DEF rates
<1>5. ASSUME NEW k \in Nat PROVE More(k) \in Nat /\ (k = 0 => More(k) = 0)
  <2>1. k \div r \in Nat
    BY <1>2
  <2>2. 0 \div r = 0
    BY <1>2
  <2> QED
    BY <2>1, <2>2
<1> HIDE DEF More, r
<1>6. \A x \in Borrowers : row(x) \in [Markets -> Nat]
  BY <1>1, <1>5
<1>7. \A m \in Markets : row(Lend)[m] = 0
  <2>1. Lend \in Borrowers
    BY DEF Borrowers
  <2>2. \A m \in Markets : w.debt[Lend][m] = 0 /\ DOMAIN w.debt[Lend] = Markets
    BY <1>1, <2>1 DEF Clean, NoDebt
  <2> QED
    BY <1>1, <1>5, <2>1, <2>2
<1> HIDE DEF row
<1>8. debts \in [Borrowers -> [Markets -> Nat]] /\ debts[Lend] = row(Lend)
  BY <1>6 DEF Borrowers
<1> HIDE DEF debts
<1>9. /\ v \in Worlds /\ v.balance = w.balance /\ v.rate = rates /\ v.debt = debts
      /\ v.requests = w.requests /\ v.slots = w.slots /\ v.reordered = w.reordered
  BY <1>1, <1>3, <1>4, <1>8 DEF Worlds
<1>10. Sound(v)
  BY <1>9 DEF Sound
<1>11. Clean(v)
  BY <1>7, <1>8, <1>9 DEF Clean, NoDebt, Funded, Empty
<1> QED
  BY <1>4, <1>9, <1>10, <1>11

\* The pools have liquidity at the start.
LEMMA PoolsFunded ==
  /\ Funds[JoeUsdc][Avax] > 0 /\ Funds[JoeUsdc][Usdc] > 0
  /\ Funds[JoeSAvax][Avax] > 0 /\ Funds[JoeSAvax][SAvax] > 0
BY AvaxAssumption

\* The world at the start.
LEMMA WorldInit ==
  ASSUME Init
  PROVE  Sound(world) /\ Clean(world)
<1> DEFINE RequestsOf(c) == [i \in DOMAIN Unlocks |-> [id |-> i, amount |-> Unlocks[i], by |-> c]]
           Slots == [i \in DOMAIN Unlocks |-> [index |-> i - 1, id |-> i]]
           b == [c \in Accounts |->
               IF c \notin Adapters THEN Funds[c]
               ELSE IF HasPosition(c, Benqi) THEN [NoTokens EXCEPT ![QiAvax] = Collateral]
               ELSE NoTokens]
           al == [u \in Users |-> NoTokens]
           rates == [q \in Markets |-> Scale]
           debts == [c \in Borrowers |-> [q \in Markets |->
               IF c # Lend /\ q = QiUsdc /\ HasPosition(c, Benqi) THEN Loan ELSE 0]]
           in == [c \in Borrowers |-> IF c # Lend /\ HasPosition(c, Benqi) THEN Markets ELSE {}]
           rqs == [c \in Adapters |-> IF HasPosition(c, Savax) THEN RequestsOf(c) ELSE <<>>]
           sls == [c \in Adapters |-> IF HasPosition(c, Savax) THEN Slots ELSE <<>>]
           m == Len(Unlocks)
<1>1. world = [balance |-> b, allowance |-> al, rate |-> rates, debt |-> debts, entered |-> in,
               requests |-> rqs, slots |-> sls, made |-> m, cooled |-> 0, reordered |-> {}]
  BY Zenon DEF Init
<1>2. Collateral \in Nat /\ Loan \in Nat
  BY AvaxAssumption
<1>3. Funds \in [Contracts \cup Users -> [AllTokens -> Nat]]
  <2> DEFINE F == [Contracts \cup Users -> [AllTokens -> Nat]]
  <2>1. F = [Contracts \cup Users -> [AllTokens -> Nat]]
    OBVIOUS
  <2> HIDE DEF F
  <2>2. Funds \in F
    BY <2>1, AvaxAssumption, SMTT(60)
  <2> QED
    BY <2>1, <2>2
<1>4. /\ Unlocks \in Seq(Nat \ {0}) /\ MaxRequests \in Nat /\ Len(Unlocks) <= MaxRequests
  BY AvaxAssumption
<1>5. Scale \in Nat \ {0} /\ MaxRate \in Nat /\ Scale <= MaxRate
  BY AvaxAssumption
<1>6. NoTokens \in [AllTokens -> Nat] /\ \A t \in AllTokens : NoTokens[t] = 0
  BY DEF NoTokens
<1>7. QiAvax \in AllTokens /\ QiAvax \in Markets
  BY Distinct
<1>8. b \in [Accounts -> [AllTokens -> Nat]]
  <2>1. \A c \in Accounts \ Adapters : Funds[c] \in [AllTokens -> Nat]
    BY <1>3 DEF Accounts
  <2>2. [NoTokens EXCEPT ![QiAvax] = Collateral] \in [AllTokens -> Nat]
    BY <1>2, <1>6, <1>7
  <2> QED
    BY <1>6, <2>1, <2>2
<1>9. al \in [Users -> [AllTokens -> Nat]]
  BY <1>6
<1>10. rates \in [Markets -> Scale .. MaxRate]
  BY <1>5
<1>11. debts \in [Borrowers -> [Markets -> Nat]] /\ \A q \in Markets : debts[Lend][q] = 0
  BY <1>2 DEF Borrowers
<1>12. in \in [Borrowers -> SUBSET Markets]
  OBVIOUS
<1>13. m \in 0 .. MaxRequests /\ m \in Nat /\ DOMAIN Unlocks = 1 .. m
       /\ \A i \in 1 .. m : Unlocks[i] \in Nat \ {0}
  BY <1>4
<1>14. Slots \in Seq([index : Nat, id : 1 .. MaxRequests])
  <2> DEFINE S == [index : Nat, id : 1 .. MaxRequests]
             Of(i) == [index |-> i - 1, id |-> i]
  <2>1. \A i \in 1 .. m : Of(i) \in S
    BY <1>4, <1>13
  <2>2. Slots = [i \in 1 .. m |-> Of(i)]
    BY <1>13
  <2> HIDE DEF S, Of, m
  <2>3. Slots \in [1 .. m -> S]
    BY <2>1, <2>2
  <2>4. Slots \in Seq(S)
    BY <1>13, <2>3
  <2> QED
    BY <2>4 DEF S
<1>15. ASSUME NEW c \in Adapters
       PROVE  RequestsOf(c) \in Seq(Request(1 .. MaxRequests, Adapters))
  <2> DEFINE S == Request(1 .. MaxRequests, Adapters)
             Of(i) == [id |-> i, amount |-> Unlocks[i], by |-> c]
  <2>1. \A i \in 1 .. m : Of(i) \in S
    BY <1>4, <1>13 DEF Request
  <2>2. RequestsOf(c) = [i \in 1 .. m |-> Of(i)]
    BY <1>13
  <2> HIDE DEF S, Of, m
  <2>3. RequestsOf(c) \in [1 .. m -> S]
    BY <2>1, <2>2
  <2>4. RequestsOf(c) \in Seq(S)
    BY <1>13, <2>3
  <2> QED
    BY <2>4 DEF S
<1>16. ASSUME NEW c \in Adapters PROVE SlotsOK(RequestsOf(c), Slots)
  <2>1. Len(Slots) = m /\ Len(RequestsOf(c)) = m /\ DOMAIN Slots = 1 .. m
    BY <1>13, <1>14, <1>15
  <2>2. \A i \in 1 .. m : Slots[i].index = i - 1 /\ Slots[i].id = i /\ RequestsOf(c)[i].id = i
    BY <1>13
  <2> HIDE DEF Slots, RequestsOf, m
  <2>3. \A i \in 1 .. m : Slots[i].index + 1 = i /\ Slots[i].index < m
    BY <1>13, <2>2
  <2> QED
    BY <1>13, <2>1, <2>2, <2>3 DEF SlotsOK
<1>17. SlotsOK(<<>>, <<>>)
  BY DEF SlotsOK
<1> HIDE DEF Slots, RequestsOf, m
<1>18. /\ rqs \in [Adapters -> Seq(Request(1 .. MaxRequests, Adapters))]
       /\ sls \in [Adapters -> Seq([index : Nat, id : 1 .. MaxRequests])]
  <2> DEFINE R == Seq(Request(1 .. MaxRequests, Adapters))
             S == Seq([index : Nat, id : 1 .. MaxRequests])
  <2>1. <<>> \in R /\ <<>> \in S
    OBVIOUS
  <2>2. Slots \in S /\ \A c \in Adapters : RequestsOf(c) \in R
    BY <1>14, <1>15
  <2> HIDE DEF R, S
  <2>3. rqs \in [Adapters -> R] /\ sls \in [Adapters -> S]
    BY <2>1, <2>2
  <2> QED
    BY <2>3 DEF R, S
<1>19. \A c \in Adapters : SlotsOK(rqs[c], sls[c])
  BY <1>16, <1>17
<1>20. Liquid(b)
  <2>1. {JoeUsdc, JoeSAvax} \subseteq Accounts \ Adapters
    BY Distinct DEF Outside, Panorama
  <2>2. b[JoeUsdc] = Funds[JoeUsdc] /\ b[JoeSAvax] = Funds[JoeSAvax]
    BY <2>1
  <2> HIDE DEF b
  <2> QED
    BY <2>2, PoolsFunded DEF Liquid
<1>21. \A x \in {Executor, Lend, Swap} : \A t \in AllTokens : b[x][t] = 0
  <2>1. {Executor, Lend, Swap} \subseteq Accounts \ Adapters
    BY Distinct DEF Outside, Panorama
  <2>2. \A x \in {Executor, Lend, Swap} : Funds[x] = NoTokens
    <3>1. Funds[Executor] = NoTokens
      BY AvaxAssumption
    <3>2. Funds[Lend] = NoTokens
      BY AvaxAssumption
    <3>3. Funds[Swap] = NoTokens
      BY AvaxAssumption
    <3> QED
      BY <3>1, <3>2, <3>3
  <2>3. \A x \in {Executor, Lend, Swap} : b[x] = NoTokens
    BY <2>1, <2>2
  <2> HIDE DEF b
  <2> QED
    BY <1>6, <2>3
<1>22. \A c \in Adapters, t \in AllTokens : (c.protocol = Benqi /\ t \in Markets) \/ b[c][t] = 0
  <2> SUFFICES ASSUME NEW c \in Adapters, NEW t \in AllTokens, ~(c.protocol = Benqi /\ t \in Markets)
               PROVE  b[c][t] = 0
    OBVIOUS
  <2>1. b[c] = IF HasPosition(c, Benqi) THEN [NoTokens EXCEPT ![QiAvax] = Collateral] ELSE NoTokens
    BY Distinct DEF Panorama
  <2>2. CASE HasPosition(c, Benqi)
    <3>1. t # QiAvax
      BY <1>7, <2>2 DEF HasPosition
    <3>2. b[c] = [NoTokens EXCEPT ![QiAvax] = Collateral]
      BY <2>1, <2>2
    <3> HIDE DEF b
    <3> QED
      BY <1>6, <3>1, <3>2
  <2>3. CASE ~HasPosition(c, Benqi)
    BY <1>6, <2>1, <2>3
  <2> QED
    BY <2>2, <2>3
<1> HIDE DEF b, al, rates, debts, in, rqs, sls
<1>23. world \in Worlds
  <2>1. 0 \in 0 .. MaxRequests /\ {} \in SUBSET Adapters /\ m \in 0 .. MaxRequests
    BY <1>4, <1>13
  <2> DEFINE N == 0 .. MaxRequests
             R == Seq(Request(1 .. MaxRequests, Adapters))
             S == Seq([index : Nat, id : 1 .. MaxRequests])
             Rates == Scale .. MaxRate
  <2>2. 0 \in N /\ {} \in SUBSET Adapters /\ m \in N /\ rates \in [Markets -> Rates]
        /\ rqs \in [Adapters -> R] /\ sls \in [Adapters -> S]
    BY <2>1, <1>10, <1>18
  <2>3. debts \in [Borrowers -> [Markets -> Nat]]
    BY <1>11
  <2> HIDE DEF N, R, S, Rates
  <2>4. world \in [balance : [Accounts -> [AllTokens -> Nat]], allowance : [Users -> [AllTokens -> Nat]],
              rate : [Markets -> Rates], debt : [Borrowers -> [Markets -> Nat]],
              entered : [Borrowers -> SUBSET Markets], requests : [Adapters -> R],
              slots : [Adapters -> S], made : N, cooled : N, reordered : SUBSET Adapters]
    BY <1>1, <1>8, <1>9, <1>12, <2>2, <2>3
  <2> QED
    BY <2>4 DEF Worlds, N, R, S, Rates
<1>24. /\ world.balance = b /\ world.debt = debts /\ world.requests = rqs /\ world.slots = sls
  BY <1>1
<1>25. Sound(world)
  BY <1>19, <1>20, <1>23, <1>24 DEF Sound
<1>26. Clean(world)
  BY <1>11, <1>21, <1>22, <1>24 DEF Clean, Funded, Empty, NoDebt
<1> QED
  BY <1>25, <1>26

-----------------------------------------------------------------------------
(* Bundles                                                                 *)

\* A list followed by another one.
LEMMA Together ==
  ASSUME NEW S, NEW p \in Seq(S), NEW q \in Seq(S)
  PROVE  /\ p \o q \in Seq(S) /\ Len(p \o q) = Len(p) + Len(q)
         /\ \A i \in 1 .. Len(p) : (p \o q)[i] = p[i]
         /\ \A i \in 1 .. Len(q) : (p \o q)[Len(p) + i] = q[i]
<1>1. p \o q \in Seq(S) /\ Len(p \o q) = Len(p) + Len(q)
  OBVIOUS
<1>2. \A i \in 1 .. Len(p) : (p \o q)[i] = p[i]
  OBVIOUS
<1>3. ASSUME NEW i \in 1 .. Len(q) PROVE (p \o q)[Len(p) + i] = q[i]
  <2>1. Len(p) + i \in 1 .. Len(p) + Len(q) /\ Len(p) \in Nat /\ Len(p) + i > Len(p)
    OBVIOUS
  <2>2. (Len(p) + i) - Len(p) = i
    BY <2>1
  <2> QED
    BY <2>1, <2>2
<1> QED
  BY <1>1, <1>2, <1>3

\* Two lists of the same length with the same elements.
LEMMA SameList ==
  ASSUME NEW S, NEW p \in Seq(S), NEW q \in Seq(S), Len(p) = Len(q),
         \A i \in 1 .. Len(p) : p[i] = q[i]
  PROVE  p = q
OBVIOUS

\* Two lists of one.
LEMMA Joined ==
  ASSUME NEW a, NEW e
  PROVE  <<a>> \o <<e>> = <<a, e>> /\ <<>> \o <<e>> = <<e>>
<1> DEFINE S == {a, e}
<1>1. <<a>> \in Seq(S) /\ <<e>> \in Seq(S) /\ <<a, e>> \in Seq(S)
  OBVIOUS
<1>2. Len(<<a>>) = 1 /\ Len(<<e>>) = 1 /\ Len(<<a, e>>) = 2
  OBVIOUS
<1>3. <<a>> \o <<e>> \in Seq(S) /\ Len(<<a>> \o <<e>>) = 2
  BY <1>1, <1>2, Together
<1>4. (<<a>> \o <<e>>)[1] = a /\ (<<a>> \o <<e>>)[2] = e
  <2>1. \A i \in 1 .. 1 : (<<a>> \o <<e>>)[i] = <<a>>[i]
    BY <1>1, <1>2, Together
  <2>2. \A i \in 1 .. 1 : (<<a>> \o <<e>>)[1 + i] = <<e>>[i]
    BY <1>1, <1>2, Together
  <2>3. <<a>>[1] = a /\ <<e>>[1] = e /\ 1 \in 1 .. 1 /\ 1 + 1 = 2
    OBVIOUS
  <2> QED
    BY <2>1, <2>2, <2>3
<1>5. <<a, e>>[1] = a /\ <<a, e>>[2] = e
  OBVIOUS
<1> DEFINE z == <<a>> \o <<e>>
           v == <<a, e>>
<1>6. z \in Seq(S) /\ v \in Seq(S) /\ Len(z) = 2 /\ Len(v) = 2 /\ z[1] = v[1] /\ z[2] = v[2]
  BY <1>1, <1>2, <1>3, <1>4, <1>5
<1> HIDE DEF z, v, S
<1>7. z = v
  BY <1>6, SameList
<1>8. <<>> \o <<e>> = <<e>>
  OBVIOUS
<1> QED
  BY <1>7, <1>8 DEF v, z

Asked == PreparedRequests \cup OwnRequests \cup SharedRequests

Approval(a) == a.kind = "approve" /\ a.token \in AllTokens /\ a.amount \in Nat

\* A call that settles with what is paid for it.
Execution(u, e) ==
    /\ e.kind = "execute" /\ e.protocol \in Protocols
    /\ \E t, n : Pays(e.payment, t, n) /\ Settles(e.protocol, e.call, t, n, u)

Final(u, e) == Execution(u, e) \/ e \in SharedRequests

\* A bundle is a call, or an approval and a call.
Bundled(steps, e) == steps = <<e>> \/ \E a : Approval(a) /\ steps = <<a, e>>

RedeemCall(call, q, n, u) ==
    \/ call = [action |-> "redeem", qToken |-> q, qTokenAmount |-> n, recipient |-> u]
    \/ q = QiAvax /\ call = [action |-> "redeemAVAX", qTokenAmount |-> n, recipient |-> u]

\* The call that redeems what prepare-redeem computed.
RedeemStep(u, r, seen, e) ==
    /\ e.kind = "execute" /\ e.protocol = Benqi
    /\ Pays(e.payment, r.qToken, seen.amount)
    /\ RedeemCall(e.call, r.qToken, seen.amount, u)

\* A bundle for which the executor pulls tokens.
LEMMA PulledBundled ==
  ASSUME NEW u \in Users, NEW p \in Protocols, NEW call, NEW t \in AllTokens, NEW n \in Nat,
         Settles(p, call, t, n, u), NEW allowance
  PROVE  LET e == ExecuteStep(p, call, Pay(t, n), now)
         IN  Final(u, e) /\ Bundled(Pulled(p, call, t, n, allowance), e)
<1> DEFINE e == ExecuteStep(p, call, Pay(t, n), now)
           a == ApproveStep(t, n)
<1>1. e.kind = "execute" /\ e.protocol = p /\ e.call = call /\ e.payment = Pay(t, n)
  BY DEF ExecuteStep
<1>2. Execution(u, e)
  <2>1. Pays(e.payment, t, n) /\ Settles(e.protocol, e.call, t, n, u)
    BY <1>1, PaymentOfOne
  <2> HIDE DEF e
  <2> QED
    BY <1>1, <2>1 DEF Execution
<1>3. Approval(a)
  BY DEF Approval, ApproveStep
<1>4. Pulled(p, call, t, n, allowance) = addApproveIfNeeded(t, allowance, n) \o <<e>>
  BY DEF Pulled, Direct
<1>5. addApproveIfNeeded(t, allowance, n) \in {<<a>>, <<>>}
  BY DEF addApproveIfNeeded
<1> HIDE DEF e, a
<1>6. <<a>> \o <<e>> = <<a, e>> /\ <<>> \o <<e>> = <<e>>
  BY Joined
<1>7. Pulled(p, call, t, n, allowance) \in {<<a, e>>, <<e>>}
  BY <1>4, <1>5, <1>6
<1> QED
  BY <1>2, <1>3, <1>7 DEF Final, Bundled, e

\* One with native value.
LEMMA PaidBundled ==
  ASSUME NEW u \in Users, NEW p \in Protocols, NEW call, NEW n \in Nat,
         Settles(p, call, Avax, n, u)
  PROVE  \E e : Final(u, e) /\ Bundled(Paid(p, call, n), e)
<1> DEFINE e == ExecuteStep(p, call, Pay(Avax, n), now)
<1>1. e.kind = "execute" /\ e.protocol = p /\ e.call = call /\ e.payment = Pay(Avax, n)
  BY DEF ExecuteStep
<1>2. Paid(p, call, n) = <<e>>
  BY DEF Paid, Direct
<1>3. Avax \in AllTokens
  BY Distinct
<1>4. Pays(e.payment, Avax, n) /\ Settles(e.protocol, e.call, Avax, n, u)
  BY <1>1, <1>3, PaymentOfOne
<1> HIDE DEF e
<1> QED
  BY <1>1, <1>2, <1>4 DEF Final, Execution, Bundled

\* One without payment.
LEMMA UnpaidBundled ==
  ASSUME NEW u \in Users, NEW p \in Protocols, NEW call, Settles(p, call, Avax, 0, u)
  PROVE  \E e : Final(u, e) /\ Bundled(Unpaid(p, call), e)
<1> DEFINE e == ExecuteStep(p, call, NoTokens, now)
<1>1. e.kind = "execute" /\ e.protocol = p /\ e.call = call /\ e.payment = NoTokens
  BY DEF ExecuteStep
<1>2. Unpaid(p, call) = <<e>>
  BY DEF Unpaid, Direct
<1>3. Pays(e.payment, Avax, 0) /\ Settles(e.protocol, e.call, Avax, 0, u)
  BY <1>1, PaymentOfNothing
<1> HIDE DEF e
<1> QED
  BY <1>1, <1>2, <1>3 DEF Final, Execution, Bundled

\* What may be asked, kind by kind.
LEMMA AskedTyped ==
  ASSUME NEW r \in Asked
  PROVE  /\ r.kind \in {"supply", "redeem", "borrow", "repay", "deposit", "withdraw"} =>
               r.qToken \in Markets /\ r.amount \in Nat
         /\ r.kind \in {"stake", "requestUnlock"} => r.amount \in Nat
         /\ r.kind = "redeemUnlock" => r.index \in Nat
         /\ r.kind \in {"swap", "trade"} =>
               r.tokenIn \in Traded /\ r.tokenOut \in Traded \ {r.tokenIn} /\ r.amount \in Nat
         /\ r.kind = "enterMarkets" => r.qTokens \in SUBSET Markets
         /\ r.kind = "exitMarket" => r.qToken \in Markets
         /\ r.kind = "shared" => r \in SharedRequests
         /\ r.kind \in {"supply", "redeem", "borrow", "repay", "stake", "requestUnlock",
                        "redeemUnlock", "swap", "deposit", "withdraw", "trade", "enterMarkets",
                        "exitMarket", "shared"}
<1>1. CASE r \in PreparedRequests
  BY <1>1 DEF PreparedRequests
<1>2. CASE r \in OwnRequests
  BY <1>2 DEF OwnRequests, Traded
<1>3. CASE r \in SharedRequests
  BY <1>3 DEF SharedRequests
<1> QED
  BY <1>1, <1>2, <1>3 DEF Asked

\* A supply, for the user or for the adapter.
LEMMA SupplyBundled ==
  ASSUME NEW u \in Users, NEW q \in Markets, NEW n \in Nat, NEW to \in {u, Own(Benqi, u)},
         NEW allowance
  PROVE  \E e : Final(u, e) /\ Bundled(
           IF q = QiAvax
             THEN Paid(Benqi, [action |-> "supplyAVAX", value |-> n, recipient |-> to], n)
             ELSE Pulled(Benqi, [action |-> "supply", qToken |-> q, amount |-> n,
                                 recipient |-> to], Underlying(q), n, allowance), e)
<1>1. Benqi \in Protocols /\ Underlying(q) \in AllTokens /\ (q = QiAvax => Underlying(q) = Avax)
  BY MarketsTyped DEF Protocols, Underlying
<1>2. CASE q = QiAvax
  <2> DEFINE call == [action |-> "supplyAVAX", value |-> n, recipient |-> to]
  <2>1. Settles(Benqi, call, Avax, n, u)
    BY <1>1, <1>2, SupplySettles
  <2> HIDE DEF call
  <2>2. \E e : Final(u, e) /\ Bundled(Paid(Benqi, call, n), e)
    BY <1>1, <2>1, PaidBundled
  <2> QED
    BY <1>2, <2>2 DEF call
<1>3. CASE q # QiAvax
  <2> DEFINE call == [action |-> "supply", qToken |-> q, amount |-> n, recipient |-> to]
  <2>1. Settles(Benqi, call, Underlying(q), n, u)
    BY SupplySettles
  <2> HIDE DEF call
  <2>2. \E e : Final(u, e) /\ Bundled(Pulled(Benqi, call, Underlying(q), n, allowance), e)
    BY <1>1, <2>1, PulledBundled
  <2> QED
    BY <1>3, <2>2 DEF call
<1> QED
  BY <1>2, <1>3

\* A redemption with the qTokens of the wallet.
LEMMA RedeemBundled ==
  ASSUME NEW u \in Users, NEW r, r.qToken \in Markets, NEW seen, seen.amount \in Nat, NEW allowance
  PROVE  \E e : /\ Final(u, e) /\ Bundled(RedeemBundle(u, r, seen, allowance), e)
                /\ RedeemStep(u, r, seen, e)
<1> DEFINE q == r.qToken
           n == seen.amount
           call == IF q = QiAvax
             THEN [action |-> "redeemAVAX", qTokenAmount |-> n, recipient |-> u]
             ELSE [action |-> "redeem", qToken |-> q, qTokenAmount |-> n, recipient |-> u]
           e == ExecuteStep(Benqi, call, Pay(q, n), now)
<1>1. Benqi \in Protocols /\ q \in Markets /\ q \in AllTokens /\ n \in Nat
  BY MarketsTyped DEF Protocols
<1>2. RedeemBundle(u, r, seen, allowance) = Pulled(Benqi, call, q, n, allowance)
  BY DEF RedeemBundle
<1>3. RedeemCall(call, q, n, u)
  BY DEF RedeemCall
<1> HIDE DEF call, q, n
<1>4. Settles(Benqi, call, Avax, 0, u)
  BY <1>1, <1>3, RedeemSettles DEF RedeemCall
<1>5. Settles(Benqi, call, q, n, u)
  BY <1>1, <1>4, FundedByMarket DEF Settles
<1>6. Final(u, e) /\ Bundled(Pulled(Benqi, call, q, n, allowance), e)
  BY <1>1, <1>5, PulledBundled
<1>7. e.kind = "execute" /\ e.protocol = Benqi /\ e.call = call /\ e.payment = Pay(q, n)
  BY DEF ExecuteStep
<1> HIDE DEF e
<1>8. RedeemStep(u, r, seen, e)
  BY <1>1, <1>3, <1>7, PaymentOfOne DEF RedeemStep, q, n
<1> QED
  BY <1>2, <1>6, <1>8

\* A loan.
LEMMA BorrowBundled ==
  ASSUME NEW u \in Users, NEW r, r.qToken \in Markets, r.amount \in Nat
  PROVE  \E e : Final(u, e) /\ Bundled(BorrowBundle(u, r), e)
<1> DEFINE call == IF r.qToken = QiAvax
                     THEN [action |-> "borrowAVAX", amount |-> r.amount, recipient |-> u]
                     ELSE [action |-> "borrow", qToken |-> r.qToken, amount |-> r.amount,
                           recipient |-> u]
<1>1. Settles(Benqi, call, Avax, 0, u)
  BY BorrowSettles
<1>2. BorrowBundle(u, r) = Unpaid(Benqi, call) /\ Benqi \in Protocols
  BY DEF BorrowBundle, Protocols
<1> HIDE DEF call
<1> QED
  BY <1>1, <1>2, UnpaidBundled

\* A repayment.
LEMMA RepayBundled ==
  ASSUME NEW u \in Users, NEW r, r.qToken \in Markets, r.amount \in Nat, NEW allowance
  PROVE  \E e : Final(u, e) /\ Bundled(RepayBundle(r, allowance), e)
<1> DEFINE q == r.qToken
           n == r.amount
<1>1. Benqi \in Protocols /\ Underlying(q) \in AllTokens /\ (q = QiAvax => Underlying(q) = Avax)
  BY MarketsTyped DEF Protocols, Underlying
<1>2. CASE q = QiAvax
  <2> DEFINE call == [action |-> "repayAVAX", value |-> n]
  <2>1. Settles(Benqi, call, Avax, n, u) /\ RepayBundle(r, allowance) = Paid(Benqi, call, n)
    BY <1>1, <1>2, RepaySettles DEF RepayBundle
  <2> HIDE DEF call
  <2> QED
    BY <1>1, <2>1, PaidBundled
<1>3. CASE q # QiAvax
  <2> DEFINE call == [action |-> "repay", qToken |-> q, amount |-> n]
  <2>1. /\ Settles(Benqi, call, Underlying(q), n, u)
        /\ RepayBundle(r, allowance) = Pulled(Benqi, call, Underlying(q), n, allowance)
    BY <1>3, RepaySettles DEF RepayBundle
  <2> HIDE DEF call
  <2> QED
    BY <1>1, <2>1, PulledBundled
<1> QED
  BY <1>2, <1>3

\* Staking.
LEMMA StakeBundled ==
  ASSUME NEW u \in Users, NEW r, r.amount \in Nat
  PROVE  \E e : Final(u, e) /\ Bundled(StakeBundle(u, r), e)
<1> DEFINE call == [action |-> "stake", value |-> r.amount, recipient |-> u]
<1>1. Settles(Savax, call, Avax, r.amount, u)
  BY StakeSettles
<1>2. StakeBundle(u, r) = Paid(Savax, call, r.amount) /\ Savax \in Protocols
  BY DEF StakeBundle, Protocols
<1> HIDE DEF call
<1> QED
  BY <1>1, <1>2, PaidBundled

\* Asking for it back.
LEMMA RequestUnlockBundled ==
  ASSUME NEW u \in Users, NEW r, r.amount \in Nat, NEW allowance
  PROVE  \E e : Final(u, e) /\ Bundled(RequestUnlockBundle(r, allowance), e)
<1> DEFINE call == [action |-> "requestUnlock", sAvaxAmount |-> r.amount]
<1>1. Settles(Savax, call, SAvax, r.amount, u)
  BY RequestUnlockSettles
<1>2. /\ RequestUnlockBundle(r, allowance) = Pulled(Savax, call, SAvax, r.amount, allowance)
      /\ Savax \in Protocols /\ SAvax \in AllTokens
  BY Distinct DEF RequestUnlockBundle, Protocols
<1> HIDE DEF call
<1> QED
  BY <1>1, <1>2, PulledBundled

\* Getting it back.
LEMMA RedeemUnlockBundled ==
  ASSUME NEW u \in Users, NEW r, r.index \in Nat
  PROVE  \E e : Final(u, e) /\ Bundled(RedeemUnlockBundle(u, r), e)
<1> DEFINE call == [action |-> "redeem", unlockIndex |-> r.index, recipient |-> u]
<1>1. Settles(Savax, call, Avax, 0, u)
  BY RedeemUnlockSettles
<1>2. RedeemUnlockBundle(u, r) = Unpaid(Savax, call) /\ Savax \in Protocols
  BY DEF RedeemUnlockBundle, Protocols
<1> HIDE DEF call
<1> QED
  BY <1>1, <1>2, UnpaidBundled

\* A swap.
LEMMA SwapBundled ==
  ASSUME NEW u \in Users, NEW r, r.tokenIn \in Traded, r.tokenOut \in Traded \ {r.tokenIn},
         r.amount \in Nat, NEW seen, NEW allowance
  PROVE  \E e : Final(u, e) /\ Bundled(SwapBundle(u, r, seen, allowance), e)
<1> DEFINE n == r.amount
           t == r.tokenIn
           path == Joe!PathOf(t, r.tokenOut)
           call == [action |-> "swapWithPath", value |-> IF t = Avax THEN n ELSE 0,
                    amountIn |-> n, amountOutMin |-> seen.amount, path |-> path, recipient |-> u]
<1>1. path \in Paths /\ path[1] = t /\ t \in AllTokens /\ n \in Nat /\ TraderJoe \in Protocols
  BY Distinct DEF Joe!PathOf, Paths, Traded, Protocols
<1>2. SwapBundle(u, r, seen, allowance) =
         IF t = Avax THEN Paid(TraderJoe, call, n) ELSE Pulled(TraderJoe, call, t, n, allowance)
  BY DEF SwapBundle
<1> HIDE DEF path, t, n
<1>3. Settles(TraderJoe, call, path[1], n, u)
  BY <1>1, SwapWithPathSettles
<1> HIDE DEF call
<1>4. Settles(TraderJoe, call, t, n, u)
  BY <1>1, <1>3
<1>5. CASE t = Avax
  BY <1>1, <1>2, <1>4, <1>5, PaidBundled
<1>6. CASE t # Avax
  BY <1>1, <1>2, <1>4, <1>6, PulledBundled
<1> QED
  BY <1>5, <1>6

\* A withdrawal.
LEMMA WithdrawBundled ==
  ASSUME NEW u \in Users, NEW q \in Markets, NEW n \in Nat
  PROVE  \E e : Final(u, e) /\ Bundled(
           Unpaid(Benqi, IF q = QiAvax
                THEN [action |-> "redeemAVAX", qTokenAmount |-> n, recipient |-> u]
                ELSE [action |-> "redeem", qToken |-> q, qTokenAmount |-> n, recipient |-> u]), e)
<1> DEFINE call == IF q = QiAvax
                THEN [action |-> "redeemAVAX", qTokenAmount |-> n, recipient |-> u]
                ELSE [action |-> "redeem", qToken |-> q, qTokenAmount |-> n, recipient |-> u]
<1>1. Settles(Benqi, call, Avax, 0, u) /\ Benqi \in Protocols
  BY RedeemSettles DEF Protocols
<1> HIDE DEF call
<1>2. \E e : Final(u, e) /\ Bundled(Unpaid(Benqi, call), e)
  BY <1>1, UnpaidBundled
<1> QED
  BY <1>2 DEF call

\* What a wallet sends of its own accord.
LEMMA OwnBundled ==
  ASSUME RegistryOK, NEW u \in Users, NEW r \in Asked,
         r.kind \in {"deposit", "withdraw", "trade", "enterMarkets", "exitMarket", "shared"}
  PROVE  \E e : Final(u, e) /\ Bundled(OwnCall(u, r), e)
<1>1. Base!AdapterFor(Benqi, u) = Own(Benqi, u) /\ Benqi \in Protocols /\ TraderJoe \in Protocols
  BY OwnAdapter DEF Protocols
<1>2. CASE r.kind = "deposit"
  <2> DEFINE q == r.qToken
             n == r.amount
             to == Own(Benqi, u)
             steps == IF q = QiAvax
                        THEN Paid(Benqi, [action |-> "supplyAVAX", value |-> n, recipient |-> to], n)
                        ELSE Pulled(Benqi, [action |-> "supply", qToken |-> q, amount |-> n,
                                            recipient |-> to], Underlying(q), n, 0)
  <2>1. q \in Markets /\ n \in Nat /\ to \in {u, Own(Benqi, u)}
    BY <1>2, AskedTyped
  <2>2. OwnCall(u, r) = steps
    BY <1>1, <1>2 DEF OwnCall
  <2> HIDE DEF q, n, to
  <2>3. \E e : Final(u, e) /\ Bundled(steps, e)
    BY <2>1, SupplyBundled
  <2> HIDE DEF steps
  <2> QED
    BY <2>2, <2>3
<1>3. CASE r.kind = "withdraw"
  <2>1. r.qToken \in Markets /\ r.amount \in Nat
    BY <1>3, AskedTyped
  <2>2. OwnCall(u, r) = Unpaid(Benqi, IF r.qToken = QiAvax
                THEN [action |-> "redeemAVAX", qTokenAmount |-> r.amount, recipient |-> u]
                ELSE [action |-> "redeem", qToken |-> r.qToken, qTokenAmount |-> r.amount,
                      recipient |-> u])
    BY <1>3 DEF OwnCall
  <2> QED
    BY <2>1, <2>2, WithdrawBundled
<1>4. CASE r.kind = "trade"
  <2> DEFINE a == r.tokenIn
             b == r.tokenOut
             n == r.amount
             call == [action |-> "swap", tokenIn |-> a, tokenOut |-> b, amountIn |-> n,
                      amountOutMin |-> 0, recipient |-> u]
  <2>1. a \in Traded /\ b \in Traded /\ a # b /\ n \in Nat
    BY <1>4, AskedTyped
  <2>2. OwnCall(u, r) = Pulled(TraderJoe, call, a, n, 0)
    BY <1>4 DEF OwnCall
  <2>3. a \in AllTokens
    BY <2>1, Distinct DEF Traded
  <2> HIDE DEF a, b, n
  <2>4. Settles(TraderJoe, call, a, n, u)
    BY <2>1, SwapSettles
  <2> HIDE DEF call
  <2> QED
    BY <1>1, <2>1, <2>2, <2>3, <2>4, PulledBundled
<1>5. CASE r.kind = "enterMarkets"
  <2> DEFINE call == [action |-> "enterMarkets", qTokens |-> r.qTokens]
  <2>1. r.qTokens \in SUBSET Markets
    BY <1>5, AskedTyped
  <2>2. OwnCall(u, r) = Unpaid(Benqi, call)
    BY <1>5 DEF OwnCall
  <2>3. Settles(Benqi, call, Avax, 0, u)
    BY <2>1, MarketsSettle
  <2> HIDE DEF call
  <2> QED
    BY <1>1, <2>2, <2>3, UnpaidBundled
<1>6. CASE r.kind = "exitMarket"
  <2> DEFINE call == [action |-> "exitMarket", qToken |-> r.qToken]
  <2>1. r.qToken \in Markets
    BY <1>6, AskedTyped
  <2>2. OwnCall(u, r) = Unpaid(Benqi, call)
    BY <1>6 DEF OwnCall
  <2>3. Settles(Benqi, call, Avax, 0, u)
    BY <2>1, MarketsSettle
  <2> HIDE DEF call
  <2> QED
    BY <1>1, <2>2, <2>3, UnpaidBundled
<1>7. CASE r.kind = "shared"
  <2>1. OwnCall(u, r) = <<r>> /\ r \in SharedRequests
    BY <1>7, AskedTyped DEF OwnCall
  <2> QED
    BY <2>1 DEF Final, Bundled
<1> QED
  BY <1>2, <1>3, <1>4, <1>5, <1>6, <1>7

\* Every bundle of the backend or the wallet is an approval, if needed, and a call.
LEMMA BundleOK ==
  ASSUME RegistryOK, NEW u \in Users, NEW r \in Asked, NEW seen \in Seen, NEW allowance
  PROVE  \E e : /\ Final(u, e) /\ Bundled(Bundle(u, r, seen, allowance), e)
                /\ r.kind = "redeem" => RedeemStep(u, r, seen, e)
<1>1. CASE r.kind = "supply"
  <2>1. r.qToken \in Markets /\ r.amount \in Nat
    BY <1>1, AskedTyped
  <2>2. Bundle(u, r, seen, allowance) = SupplyBundle(u, r, allowance)
    BY <1>1 DEF Bundle
  <2>3. \E e : Final(u, e) /\ Bundled(SupplyBundle(u, r, allowance), e)
    BY <2>1, SupplyBundled DEF SupplyBundle
  <2> QED
    BY <1>1, <2>2, <2>3
<1>2. CASE r.kind = "redeem"
  <2>1. r.qToken \in Markets /\ seen.amount \in Nat
    BY <1>2, AskedTyped DEF Seen
  <2>2. Bundle(u, r, seen, allowance) = RedeemBundle(u, r, seen, allowance)
    BY <1>2 DEF Bundle
  <2> QED
    BY <2>1, <2>2, RedeemBundled
<1>3. CASE r.kind = "borrow"
  <2>1. r.qToken \in Markets /\ r.amount \in Nat
    BY <1>3, AskedTyped
  <2>2. Bundle(u, r, seen, allowance) = BorrowBundle(u, r)
    BY <1>3 DEF Bundle
  <2> QED
    BY <1>3, <2>1, <2>2, BorrowBundled
<1>4. CASE r.kind = "repay"
  <2>1. r.qToken \in Markets /\ r.amount \in Nat
    BY <1>4, AskedTyped
  <2>2. Bundle(u, r, seen, allowance) = RepayBundle(r, allowance)
    BY <1>4 DEF Bundle
  <2> QED
    BY <1>4, <2>1, <2>2, RepayBundled
<1>5. CASE r.kind = "stake"
  <2>1. r.amount \in Nat /\ Bundle(u, r, seen, allowance) = StakeBundle(u, r)
    BY <1>5, AskedTyped DEF Bundle
  <2> QED
    BY <1>5, <2>1, StakeBundled
<1>6. CASE r.kind = "requestUnlock"
  <2>1. r.amount \in Nat /\ Bundle(u, r, seen, allowance) = RequestUnlockBundle(r, allowance)
    BY <1>6, AskedTyped DEF Bundle
  <2> QED
    BY <1>6, <2>1, RequestUnlockBundled
<1>7. CASE r.kind = "redeemUnlock"
  <2>1. r.index \in Nat /\ Bundle(u, r, seen, allowance) = RedeemUnlockBundle(u, r)
    BY <1>7, AskedTyped DEF Bundle
  <2> QED
    BY <1>7, <2>1, RedeemUnlockBundled
<1>8. CASE r.kind = "swap"
  <2>1. r.tokenIn \in Traded /\ r.tokenOut \in Traded \ {r.tokenIn} /\ r.amount \in Nat
    BY <1>8, AskedTyped
  <2>2. Bundle(u, r, seen, allowance) = SwapBundle(u, r, seen, allowance)
    BY <1>8 DEF Bundle
  <2> QED
    BY <1>8, <2>1, <2>2, SwapBundled
<1>9. CASE r.kind \in {"deposit", "withdraw", "trade", "enterMarkets", "exitMarket", "shared"}
  <2>1. Bundle(u, r, seen, allowance) = OwnCall(u, r) /\ r.kind # "redeem"
    BY <1>9 DEF Bundle
  <2> QED
    BY <1>9, <2>1, OwnBundled
<1> QED
  BY <1>1, <1>2, <1>3, <1>4, <1>5, <1>6, <1>7, <1>8, <1>9, AskedTyped

-----------------------------------------------------------------------------
(* What was read, and what follows from it                                 *)

\* The smaller of two amounts.
LEMMA MinOfTwo ==
  ASSUME NEW a \in Nat, NEW b \in Nat
  PROVE  Min({a, b}) \in {a, b} /\ Min({a, b}) <= a /\ Min({a, b}) <= b
<1>1. \E x \in {a, b} : \A y \in {a, b} : x <= y
  <2>1. CASE a <= b
    BY <2>1
  <2>2. CASE ~(a <= b)
    BY <2>2
  <2> QED
    BY <2>1, <2>2
<1> QED
  BY <1>1 DEF Min

\* A quotient is an amount, and the largest that fits.
LEMMA QuotientFits ==
  ASSUME NEW n \in Nat, NEW k \in Nat, NEW d \in Nat \ {0}, NEW q, q = (n * k) \div d
  PROVE  q \in Nat /\ q * d <= n * k /\ n * k < q * d + d
<1> DEFINE p == n * k
<1>1. p \in Nat /\ q = p \div d
  OBVIOUS
<1> HIDE DEF p
<1>2. q \in Nat /\ q * d <= p /\ p < q * d + d
  <2>1. p \div d \in Nat /\ (p \div d) * d <= p /\ p < (p \div d) * d + d
    BY <1>1
  <2> QED
    BY <1>1, <2>1
<1> QED
  BY <1>2 DEF p

\* What prepare-redeem computes.
LEMMA AmountComputed ==
  ASSUME NEW r, r.amount \in Nat, NEW see \in Seen, see.rate # 0
  PROVE  LET n == qTokenAmount(r, see) IN
         /\ n \in Nat /\ n * see.rate <= r.amount * Scale
         /\ n = see.held \/ r.amount * Scale < n * see.rate + see.rate
<1> DEFINE k == (r.amount * Scale) \div see.rate
           n == qTokenAmount(r, see)
           d == see.rate
           a == r.amount
           h == see.held
<1>1. d \in Nat \ {0} /\ h \in Nat /\ a \in Nat /\ Scale \in Nat
  <2>1. Scale \in Nat
    BY AvaxAssumption
  <2> QED
    BY <2>1 DEF Seen
<1>2. k = (a * Scale) \div d
  OBVIOUS
<1>3. n = Min({k, h})
  BY DEF qTokenAmount
<1> HIDE DEF k, n, d, a, h
<1>4. k \in Nat /\ k * d <= a * Scale /\ a * Scale < k * d + d
  BY <1>1, <1>2, QuotientFits
<1>5. n \in {k, h} /\ n <= k
  BY <1>1, <1>3, <1>4, MinOfTwo
<1>6. n \in Nat /\ n * d <= k * d
  <2>1. n \in Nat
    BY <1>1, <1>4, <1>5
  <2> QED
    BY <1>1, <1>4, <1>5, <2>1
<1>7. n * d <= a * Scale
  <2> DEFINE x == n * d
             y == k * d
             z == a * Scale
  <2>1. x \in Nat /\ y \in Nat /\ z \in Nat /\ x <= y /\ y <= z
    BY <1>1, <1>4, <1>6
  <2> HIDE DEF x, y, z
  <2>2. x <= z
    BY <2>1
  <2> QED
    BY <2>2 DEF x, z
<1>8. n = h \/ a * Scale < n * d + d
  BY <1>4, <1>5
<1> QED
  BY <1>6, <1>7, <1>8 DEF n, d, a, h

\* The fairness of a redemption is a matter of two roundings.
LEMMA FairRounding ==
  ASSUME NEW n \in Nat, NEW a \in Nat, NEW sr \in Nat \ {0}, NEW rate \in Nat, sr <= rate,
         NEW scale \in Nat \ {0}, NEW got, got = (n * rate) \div scale,
         n * sr <= a * scale
  PROVE  /\ got \in Nat /\ got * sr <= a * rate
         /\ a * scale < n * sr + sr => (got + 1) * scale + rate > a * scale
<1>1. got \in Nat /\ got * scale <= n * rate /\ n * rate < got * scale + scale
  BY QuotientFits
<1>2. got * sr <= a * rate
  <2> SUFFICES ASSUME got * sr > a * rate PROVE FALSE
    BY <1>1
  <2> DEFINE x == got * sr
             y == a * rate
             z == n * sr
             b == a * scale
             g == got * scale
             c == n * rate
  <2>1. x \in Nat /\ y \in Nat /\ z \in Nat /\ b \in Nat /\ g \in Nat /\ c \in Nat
    BY <1>1
  <2>2. x * scale = g * sr /\ c * sr = z * rate /\ b * rate = y * scale
    BY <1>1
  <2>3. x > y /\ z <= b /\ g <= c
    BY <1>1
  <2> HIDE DEF x, y, z, b, g, c
  <2>4. x * scale > y * scale
    BY <2>1, <2>3
  <2>5. g * sr <= c * sr
    BY <2>1, <2>3
  <2>6. z * rate <= b * rate
    BY <2>1, <2>3
  <2> DEFINE x1 == x * scale
             y1 == y * scale
             c1 == c * sr
  <2>7. x1 \in Nat /\ y1 \in Nat /\ c1 \in Nat /\ x1 > y1 /\ x1 <= c1 /\ c1 <= y1
    BY <2>1, <2>2, <2>4, <2>5, <2>6
  <2> HIDE DEF x1, y1, c1
  <2> QED
    BY <2>7
<1>3. ASSUME a * scale < n * sr + sr PROVE (got + 1) * scale + rate > a * scale
  <2> DEFINE z == n * sr
             b == a * scale
             g == got * scale
             c == n * rate
             m == n + 1
  <2>1. z \in Nat /\ b \in Nat /\ g \in Nat /\ c \in Nat /\ m \in Nat
    BY <1>1
  <2>2. (got + 1) * scale = g + scale /\ m * sr = z + sr /\ m * rate = c + rate
    BY <1>1
  <2>3. m * sr <= m * rate
    <3> HIDE DEF m
    <3> QED
      BY <2>1
  <2>4. c < g + scale /\ b < z + sr
    BY <1>1, <1>3
  <2> HIDE DEF z, b, g, c, m
  <2> DEFINE s1 == m * sr
             r1 == m * rate
             e1 == (got + 1) * scale
  <2>5. s1 <= r1 /\ e1 = g + scale /\ s1 = z + sr /\ r1 = c + rate
    BY <2>2, <2>3
  <2> HIDE DEF s1, r1, e1
  <2>6. e1 + rate > b
    BY <2>1, <2>4, <2>5
  <2> QED
    BY <2>6 DEF e1, b
<1> QED
  BY <1>1, <1>2, <1>3

-----------------------------------------------------------------------------
(* Sessions                                                                *)

Row(p, r, see, st) == [phase |-> p, request |-> r, seen |-> see, steps |-> st]

\* What the actions change of it.
WithPhase(x, p) == [x EXCEPT !.phase = p]
WithSteps(x, st) == [x EXCEPT !.steps = st]
WithRequest(x, p, r) == [x EXCEPT !.phase = p, !.request = r]
WithSeen(x, p, see) == [x EXCEPT !.phase = p, !.seen = see]
ToRequest(x, r) == [x EXCEPT !.request = r]
WithBundle(x, p, r, st) == [x EXCEPT !.phase = p, !.request = r, !.steps = st]
ToSeen(x, see) == [x EXCEPT !.seen = see]

\* Each of them leads to what is written.
LEMMA RowChanged ==
  ASSUME NEW x, x = Row(x.phase, x.request, x.seen, x.steps), NEW p, NEW r, NEW see, NEW st
  PROVE  /\ WithPhase(x, p) = Row(p, x.request, x.seen, x.steps)
         /\ WithSteps(x, st) = Row(x.phase, x.request, x.seen, st)
         /\ WithRequest(x, p, r) = Row(p, r, x.seen, x.steps)
         /\ WithSeen(x, p, see) = Row(p, x.request, see, x.steps)
         /\ ToRequest(x, r) = Row(x.phase, r, x.seen, x.steps)
         /\ WithBundle(x, p, r, st) = Row(p, r, x.seen, st)
         /\ ToSeen(x, see) = Row(x.phase, x.request, see, x.steps)
<1> DEFINE P == {p, x.phase}
           R == {r, x.request}
           W == {see, x.seen}
           S == {st, x.steps}
           T == [phase : P, request : R, seen : W, steps : S]
<1>1. /\ p \in P /\ x.phase \in P /\ r \in R /\ x.request \in R /\ see \in W /\ x.seen \in W
      /\ st \in S /\ x.steps \in S
  OBVIOUS
<1> HIDE DEF P, R, W, S
<1>2. x \in T
  BY <1>1 DEF Row
<1>3. WithPhase(x, p) = Row(p, x.request, x.seen, x.steps)
  BY <1>1, <1>2 DEF Row, WithPhase
<1>4. WithSteps(x, st) = Row(x.phase, x.request, x.seen, st)
  BY <1>1, <1>2 DEF Row, WithSteps
<1>5. WithRequest(x, p, r) = Row(p, r, x.seen, x.steps)
  <2> DEFINE z == [x EXCEPT !.phase = p, !.request = r]
  <2>1. z \in T /\ z.phase = p /\ z.request = r /\ z.seen = x.seen /\ z.steps = x.steps
    BY <1>1, <1>2
  <2> HIDE DEF z
  <2>2. z = Row(p, r, x.seen, x.steps)
    BY <2>1 DEF Row
  <2> QED
    BY <2>2 DEF z, WithRequest
<1>6. WithSeen(x, p, see) = Row(p, x.request, see, x.steps)
  <2> DEFINE z == [x EXCEPT !.phase = p, !.seen = see]
  <2>1. z \in T /\ z.phase = p /\ z.request = x.request /\ z.seen = see /\ z.steps = x.steps
    BY <1>1, <1>2
  <2> HIDE DEF z
  <2>2. z = Row(p, x.request, see, x.steps)
    BY <2>1 DEF Row
  <2> QED
    BY <2>2 DEF z, WithSeen
<1>7. ToRequest(x, r) = Row(x.phase, r, x.seen, x.steps)
  BY <1>1, <1>2 DEF Row, ToRequest
<1>8. WithBundle(x, p, r, st) = Row(p, r, x.seen, st)
  <2> DEFINE z == [x EXCEPT !.phase = p, !.request = r, !.steps = st]
  <2>1. z \in T /\ z.phase = p /\ z.request = r /\ z.seen = x.seen /\ z.steps = st
    BY <1>1, <1>2
  <2> HIDE DEF z
  <2>2. z = Row(p, r, x.seen, st)
    BY <2>1 DEF Row
  <2> QED
    BY <2>2 DEF z, WithBundle
<1>9. ToSeen(x, see) = Row(x.phase, x.request, see, x.steps)
  BY <1>1, <1>2 DEF Row, ToSeen
<1> QED
  BY <1>3, <1>4, <1>5, <1>6, <1>7, <1>8, <1>9

\* A row is what is written in it.
LEMMA RowOf ==
  ASSUME NEW p, NEW r, NEW see, NEW st, NEW x, x = Row(p, r, see, st)
  PROVE  /\ x.phase = p /\ x.request = r /\ x.seen = see /\ x.steps = st
         /\ x = Row(x.phase, x.request, x.seen, x.steps)
BY DEF Row

\* The same of what was read.
LEMMA SeenChanged ==
  ASSUME NEW see \in Seen, NEW n \in Nat
  PROVE  /\ [see EXCEPT !.rate = n] \in Seen /\ [see EXCEPT !.rate = n].rate = n
         /\ [see EXCEPT !.rate = n].held = see.held
         /\ [see EXCEPT !.held = n] \in Seen /\ [see EXCEPT !.held = n].held = n
         /\ [see EXCEPT !.held = n].rate = see.rate
         /\ [see EXCEPT !.amount = n] \in Seen /\ [see EXCEPT !.amount = n].amount = n
         /\ [see EXCEPT !.amount = n].rate = see.rate /\ [see EXCEPT !.amount = n].held = see.held
BY DEF Seen

\* A rate that was read is not above the present one.
RateSeen(w, r, see) == see.rate \in Scale .. w.rate[r.qToken]

\* What is signed for a redemption was computed from what was read.
RedeemSeen(w, r, see) == RateSeen(w, r, see) /\ see.amount = qTokenAmount(r, see)

\* A bundle that is being signed, or what is left of it.
SignedFor(w, u, x) ==
    \E e : /\ Final(u, e) /\ Bundled(x.steps, e)
           /\ x.request.kind = "redeem" =>
                RedeemStep(u, x.request, x.seen, e) /\ RedeemSeen(w, x.request, x.seen)

\* A session is at work on what was asked for.
SessionOK(w, u, x) ==
    /\ x = Row(x.phase, x.request, x.seen, x.steps) /\ x.phase \in Phases /\ x.seen \in Seen
    /\ x.phase = "signing" <=> x.steps # <<>>
    /\ x.phase \in {"redeem", "rate", "balance", "swap", "allowance", "signing"} => x.request \in Asked
    /\ x.phase \in {"redeem", "rate", "balance"} => x.request.kind = "redeem"
    /\ x.phase = "swap" => x.request.kind = "swap"
    /\ x.phase = "balance" => RateSeen(w, x.request, x.seen)
    /\ x.phase = "allowance" /\ x.request.kind = "redeem" => RedeemSeen(w, x.request, x.seen)
    /\ x.phase = "signing" => SignedFor(w, u, x)

SessionsOK ==
    /\ userOf \in [Sessions -> Users] /\ DOMAIN session = Sessions
    /\ \A s \in Sessions : SessionOK(world, userOf[s], session[s])

\* Rates only grow.
Later(v, w) == Sound(w) /\ Sound(v) /\ \A q \in Markets : w.rate[q] <= v.rate[q]

\* So what happens in between does not matter.
LEMMA SessionLater ==
  ASSUME NEW w, NEW v, Later(v, w), NEW u, NEW x, SessionOK(w, u, x)
  PROVE  SessionOK(v, u, x)
<1>1. ASSUME NEW r \in Asked, r.kind = "redeem", NEW see, RateSeen(w, r, see)
      PROVE  RateSeen(v, r, see)
  <2>1. r.qToken \in Markets
    BY <1>1, AskedTyped
  <2>2. w.rate[r.qToken] \in Nat /\ v.rate[r.qToken] \in Nat /\ Scale \in Nat
    <3>1. Scale \in Nat
      BY AvaxAssumption
    <3>2. w.rate[r.qToken] \in Nat /\ v.rate[r.qToken] \in Nat
      BY <2>1, RatesTyped DEF Later, Sound
    <3> QED
      BY <3>1, <3>2
  <2>3. w.rate[r.qToken] <= v.rate[r.qToken]
    BY <2>1 DEF Later
  <2> QED
    BY <1>1, <2>2, <2>3 DEF RateSeen
<1>2. x.phase = "signing" => SignedFor(v, u, x)
  BY <1>1 DEF SessionOK, SignedFor, RedeemSeen
<1> QED
  BY <1>1, <1>2 DEF SessionOK, RedeemSeen

\* Nothing that is true of a rate today depends on the world but on its rates.
LEMMA SameLater ==
  ASSUME NEW w, Sound(w), NEW v, Sound(v), v.rate = w.rate
  PROVE  Later(v, w)
<1>1. \A q \in Markets : w.rate[q] \in Nat
  BY RatesTyped DEF Sound
<1> QED
  BY <1>1 DEF Later

\* What a session is doing may change to anything a session may do.
LEMMA SessionChange ==
  ASSUME SessionsOK, Later(world', world), NEW s \in Sessions, NEW x,
         SessionOK(world', userOf[s], x), session' = [session EXCEPT ![s] = x], userOf' = userOf
  PROVE  SessionsOK'
<1>1. DOMAIN session = Sessions
  BY DEF SessionsOK
<1>2. ASSUME NEW o \in Sessions PROVE SessionOK(world', userOf'[o], session'[o])
  <2>1. CASE o = s
    BY <1>1, <2>1
  <2>2. CASE o # s
    <3>1. session'[o] = session[o] /\ userOf'[o] = userOf[o] /\ SessionOK(world, userOf[o], session[o])
      BY <1>1, <2>2 DEF SessionsOK
    <3> QED
      BY <3>1, SessionLater
  <2> QED
    BY <2>1, <2>2
<1>3. DOMAIN session' = Sessions
  BY <1>1
<1> QED
  BY <1>2, <1>3 DEF SessionsOK

\* Or stay what it is.
LEMMA SessionsStay ==
  ASSUME SessionsOK, UNCHANGED <<userOf, session>>, Later(world', world)
  PROVE  SessionsOK'
BY SessionLater DEF SessionsOK

\* A session that is over.
LEMMA DoneOK ==
  ASSUME NEW w, NEW u
  PROVE  SessionOK(w, u, Done) /\ SessionOK(w, u, Idle) /\ Unread \in Seen
<1>1. Idle = Row("idle", NoAddress, Unread, <<>>)
  BY DEF Idle, Row
<1>2. Done = Row("done", NoAddress, Unread, <<>>)
  <2>1. Idle = Row(Idle.phase, Idle.request, Idle.seen, Idle.steps) /\ Idle.request = NoAddress
        /\ Idle.seen = Unread /\ Idle.steps = <<>>
    BY <1>1, RowOf
  <2>2. Done = WithPhase(Idle, "done")
    BY DEF Done, WithPhase
  <2> QED
    BY <2>1, <2>2, RowChanged
<1>3. Unread \in Seen
  BY DEF Unread, Seen
<1>4. ASSUME NEW p \in {"idle", "done"} PROVE SessionOK(w, u, Row(p, NoAddress, Unread, <<>>))
  <2> DEFINE x == Row(p, NoAddress, Unread, <<>>)
  <2>1. x.phase = p /\ x.request = NoAddress /\ x.seen = Unread /\ x.steps = <<>>
    BY DEF Row
  <2>2. x = Row(x.phase, x.request, x.seen, x.steps)
    BY <2>1
  <2> HIDE DEF x
  <2> QED
    BY <1>3, <2>1, <2>2 DEF SessionOK, Phases
<1> QED
  BY <1>1, <1>2, <1>3, <1>4

\* A session whose bundle was just built, or waits for the allowance.
LEMMA ReadyOK ==
  ASSUME RegistryOK, SessionsOK, NEW s \in Sessions, ~At(s, "signing"), NEW r \in Asked,
         NEW see \in Seen, r.kind = "redeem" => RedeemSeen(world, r, see)
  PROVE  SessionOK(world, userOf[s], ReadyToBuild(s, r, see))
<1> DEFINE x == session[s]
           u == userOf[s]
           y == ReadyToBuild(s, r, see)
<1>1. x = Row(x.phase, x.request, x.seen, x.steps) /\ x.steps = <<>> /\ u \in Users
  BY DEF SessionsOK, SessionOK, At
<1>2. CASE TokenOf(r) = Avax
  <2> DEFINE st == Bundle(u, r, see, 0)
  <2>1. y = Row("signing", r, see, st)
    <3>1. y = ToSeen(WithBundle(x, "signing", r, st), see)
      BY <1>2 DEF ReadyToBuild, Signing, ToSeen, WithBundle
    <3> DEFINE z == WithBundle(x, "signing", r, st)
    <3> HIDE DEF st, x, y
    <3>2. z = Row("signing", r, x.seen, st)
      BY <1>1, RowChanged
    <3>3. y = ToSeen(z, see)
      BY <3>1
    <3> HIDE DEF z
    <3>4. /\ z = Row(z.phase, z.request, z.seen, z.steps)
          /\ z.phase = "signing" /\ z.request = r /\ z.steps = st
      BY <3>2, RowOf
    <3>5. ToSeen(z, see) = Row(z.phase, z.request, see, z.steps)
      BY <3>4, RowChanged
    <3> QED
      BY <3>3, <3>4, <3>5
  <2>2. PICK e : /\ Final(u, e) /\ Bundled(st, e)
                 /\ r.kind = "redeem" => RedeemStep(u, r, see, e)
    BY <1>1, BundleOK
  <2>3. st # <<>>
    BY <2>2 DEF Bundled
  <2> HIDE DEF y, st, u
  <2>4. y.phase = "signing" /\ y.request = r /\ y.seen = see /\ y.steps = st
    BY <2>1 DEF Row
  <2>5. SignedFor(world, u, y)
    BY <2>2, <2>4 DEF SignedFor
  <2>6. SessionOK(world, u, y)
    BY <2>1, <2>3, <2>4, <2>5 DEF SessionOK, Phases
  <2> QED
    BY <2>6 DEF y, u
<1>3. CASE TokenOf(r) # Avax
  <2>1. y = Row("allowance", r, see, x.steps)
    <3>1. y = ToRequest(WithSeen(x, "allowance", see), r)
      BY <1>3 DEF ReadyToBuild, Reading, ToRequest, WithSeen
    <3> DEFINE z == WithSeen(x, "allowance", see)
    <3> HIDE DEF x, y
    <3>2. z = Row("allowance", x.request, see, x.steps)
      BY <1>1, RowChanged
    <3>3. y = ToRequest(z, r)
      BY <3>1
    <3> HIDE DEF z
    <3>4. /\ z = Row(z.phase, z.request, z.seen, z.steps)
          /\ z.phase = "allowance" /\ z.seen = see /\ z.steps = x.steps
      BY <3>2, RowOf
    <3>5. ToRequest(z, r) = Row(z.phase, r, z.seen, z.steps)
      BY <3>4, RowChanged
    <3> QED
      BY <3>3, <3>4, <3>5
  <2> HIDE DEF x, y, u
  <2>2. y.phase = "allowance" /\ y.request = r /\ y.seen = see /\ y.steps = <<>>
    BY <1>1, <2>1, RowOf
  <2>3. y = Row(y.phase, y.request, y.seen, y.steps)
    BY <2>1, RowOf
  <2>4. SessionOK(world, u, y)
    BY <2>2, <2>3 DEF SessionOK, Phases
  <2> QED
    BY <2>4 DEF y, u
<1> QED
  BY <1>2, <1>3

\* The backend's steps leave the chain alone.
LEMMA BackendOK ==
  ASSUME SessionsOK, Sound(world), NEW s \in Sessions, NEW x, Backend(s, x),
         SessionOK(world, userOf[s], x)
  PROVE  SessionsOK' /\ UNCHANGED <<chainVars, world, userOf>>
<1>1. UNCHANGED <<chainVars, world, userOf>> /\ session' = [session EXCEPT ![s] = x]
  BY DEF Backend
<1>2. Later(world', world)
  BY <1>1, SameLater
<1> QED
  BY <1>1, <1>2, SessionChange

\* A request is accepted.
LEMMA BeginOK ==
  ASSUME RegistryOK, SessionsOK, Sound(world), NEW s \in Sessions, Begin(s)
  PROVE  SessionsOK' /\ UNCHANGED <<chainVars, world, userOf>>
<1> DEFINE x == session[s]
           u == userOf[s]
<1>1. PICK r \in Requests :
         Backend(s, IF r.kind \in {"redeem", "swap"}
                      THEN [session[s] EXCEPT !.phase = r.kind, !.request = r]
                      ELSE ReadyToBuild(s, r, Unread))
  BY DEF Begin
<1>2. x.phase = "idle" /\ ~At(s, "signing")
  BY DEF Begin, At
<1>3. r \in Asked
  BY AvaxAssumption DEF Asked
<1>4. x = Row(x.phase, x.request, x.seen, x.steps) /\ x.steps = <<>> /\ x.seen \in Seen
  BY <1>2 DEF SessionsOK, SessionOK
<1>5. CASE r.kind \in {"redeem", "swap"}
  <2> DEFINE y == [session[s] EXCEPT !.phase = r.kind, !.request = r]
             see == x.seen
  <2>1. y = Row(r.kind, r, see, x.steps)
    <3>1. y = WithRequest(x, r.kind, r)
      BY DEF WithRequest
    <3> HIDE DEF x, y
    <3> QED
      BY <1>4, <3>1, RowChanged DEF see
  <2>2. Backend(s, y) /\ see \in Seen
    BY <1>1, <1>4, <1>5
  <2> HIDE DEF x, y, see
  <2>3. y.phase = r.kind /\ y.request = r /\ y.seen = see /\ y.steps = <<>>
    BY <1>4, <2>1, RowOf
  <2>4. y = Row(y.phase, y.request, y.seen, y.steps)
    BY <2>1, RowOf
  <2>5. SessionOK(world, userOf[s], y)
    BY <1>3, <1>5, <2>2, <2>3, <2>4 DEF SessionOK, Phases
  <2> QED
    BY <2>2, <2>5, BackendOK
<1>6. CASE r.kind \notin {"redeem", "swap"}
  <2> DEFINE y == ReadyToBuild(s, r, Unread)
  <2>1. SessionOK(world, userOf[s], y)
    BY <1>2, <1>3, <1>6, ReadyOK, DoneOK
  <2>2. Backend(s, y)
    BY <1>1, <1>6
  <2> HIDE DEF y
  <2> QED
    BY <2>1, <2>2, BackendOK
<1> QED
  BY <1>5, <1>6

\* Both reads of prepare-redeem are in.
LEMMA DerivedOK ==
  ASSUME RegistryOK, SessionsOK, Sound(world), NEW s \in Sessions, At(s, "rate") \/ At(s, "balance"),
         NEW see \in Seen, RateSeen(world, session[s].request, see)
  PROVE  SessionOK(world, userOf[s], Derived(s, see))
<1> DEFINE r == session[s].request
           n == qTokenAmount(r, see)
           last == [see EXCEPT !.amount = n]
<1>1. r \in Asked /\ r.kind = "redeem" /\ ~At(s, "signing") /\ r.amount \in Nat /\ r.qToken \in Markets
  <2>1. r \in Asked /\ r.kind = "redeem" /\ ~At(s, "signing")
    BY DEF SessionsOK, SessionOK, At
  <2> QED
    BY <2>1, AskedTyped
<1>2. see.rate # 0
  <2>1. Scale \in Nat \ {0}
    BY AvaxAssumption
  <2>2. world.rate[r.qToken] \in Nat
    BY <1>1, RatesTyped DEF Sound
  <2> QED
    BY <2>1, <2>2 DEF RateSeen
<1>3. n \in Nat
  BY <1>1, <1>2, AmountComputed
<1>4. CASE n = 0
  BY <1>4, DoneOK DEF Derived
<1>5. CASE n # 0
  <2>1. Derived(s, see) = ReadyToBuild(s, r, last)
    BY <1>5 DEF Derived
  <2>2. n = Min({(r.amount * Scale) \div see.rate, see.held})
    BY DEF qTokenAmount
  <2> HIDE DEF n
  <2>3. last \in Seen /\ last.amount = n /\ last.rate = see.rate /\ last.held = see.held
    BY <1>3, SeenChanged
  <2> HIDE DEF last
  <2>4. RateSeen(world, r, last)
    BY <2>3 DEF RateSeen
  <2>5. qTokenAmount(r, last) = n
    BY <2>2, <2>3 DEF qTokenAmount
  <2>6. RedeemSeen(world, r, last)
    BY <2>3, <2>4, <2>5 DEF RedeemSeen
  <2> HIDE DEF r
  <2>7. SessionOK(world, userOf[s], ReadyToBuild(s, r, last))
    BY <1>1, <2>3, <2>6, ReadyOK
  <2> QED
    BY <2>1, <2>7
<1> QED
  BY <1>4, <1>5

\* What was read is kept for the next step.
LEMMA ReadingOK ==
  ASSUME SessionsOK, Sound(world), NEW s \in Sessions, ~At(s, "signing"),
         session[s].request \in Asked, session[s].request.kind = "redeem",
         NEW p \in {"rate", "balance"}, NEW see \in Seen,
         p = "balance" => RateSeen(world, session[s].request, see),
         Backend(s, Reading(s, p, see))
  PROVE  SessionsOK' /\ UNCHANGED <<chainVars, world, userOf>>
<1> DEFINE x == session[s]
           r == session[s].request
           y == Reading(s, p, see)
<1>1. x = Row(x.phase, x.request, x.seen, x.steps) /\ x.steps = <<>>
  BY DEF SessionsOK, SessionOK, At
<1>2. y = WithSeen(x, p, see)
  BY DEF Reading, WithSeen
<1>3. Backend(s, y) /\ r = x.request /\ r \in Asked /\ r.kind = "redeem"
  OBVIOUS
<1> HIDE DEF x, y, r
<1>4. y = Row(p, r, see, x.steps)
  BY <1>1, <1>2, <1>3, RowChanged
<1>5. y.phase = p /\ y.request = r /\ y.seen = see /\ y.steps = <<>>
  BY <1>1, <1>4, RowOf
<1>6. y = Row(y.phase, y.request, y.seen, y.steps)
  BY <1>4, RowOf
<1>7. p = "balance" => RateSeen(world, r, see)
  BY DEF r
<1>8. SessionOK(world, userOf[s], y)
  BY <1>3, <1>5, <1>6, <1>7 DEF SessionOK, Phases
<1> QED
  BY <1>3, <1>8, BackendOK

\* The reads of prepare-redeem, in either order.
LEMMA ReadsOK ==
  ASSUME RegistryOK, SessionsOK, Sound(world), NEW s \in Sessions,
         readExchangeRate(s) \/ readQTokenBalance(s)
  PROVE  SessionsOK' /\ UNCHANGED <<chainVars, world, userOf>>
<1> DEFINE x == session[s]
           r == x.request
           rate == world.rate[r.qToken]
           held == Balance(s, r.qToken)
           dear == [x.seen EXCEPT !.rate = rate]
           full == [x.seen EXCEPT !.held = held]
<1>1. /\ x.phase \in {"redeem", "rate", "balance"} => r \in Asked /\ r.kind = "redeem"
      /\ x.seen \in Seen /\ userOf[s] \in Users
      /\ x.phase = "balance" => RateSeen(world, r, x.seen)
  BY DEF SessionsOK, SessionOK
<1>2. x.phase \in {"redeem", "rate", "balance"} /\ (At(s, x.phase)) /\ ~At(s, "signing")
  BY DEF readExchangeRate, readQTokenBalance, At
<1>3. r \in Asked /\ r.kind = "redeem" /\ r.qToken \in Markets
  BY <1>1, <1>2, AskedTyped
<1>4. rate \in Nat /\ rate \in Scale .. rate
  <2>1. world.rate[r.qToken] \in Scale .. MaxRate /\ Scale \in Nat \ {0} /\ MaxRate \in Nat
    <3>1. Scale \in Nat \ {0} /\ MaxRate \in Nat
      BY AvaxAssumption
    <3>2. world.rate \in [Markets -> Scale .. MaxRate]
      BY DEF Sound, Worlds
    <3> QED
      BY <1>3, <3>1, <3>2
  <2> HIDE DEF r
  <2> QED
    BY <2>1
<1>5. held \in Nat
  <2>1. r.qToken \in AllTokens /\ userOf[s] \in Accounts
    BY <1>1, <1>3, MarketsTyped DEF Accounts
  <2> QED
    BY <2>1, BalanceTyped DEF Balance, Sound
<1>6. dear \in Seen /\ RateSeen(world, r, dear)
  <2> HIDE DEF rate
  <2>1. dear \in Seen /\ dear.rate = rate
    BY <1>1, <1>4, SeenChanged
  <2> QED
    BY <1>4, <2>1 DEF RateSeen, rate
<1>7. full \in Seen /\ (x.phase = "balance" => RateSeen(world, r, full))
  <2> HIDE DEF held
  <2>1. full \in Seen /\ full.rate = x.seen.rate
    BY <1>1, <1>5, SeenChanged
  <2> QED
    BY <1>1, <2>1 DEF RateSeen
<1>8. \/ At(s, "redeem") /\ Backend(s, Reading(s, "balance", dear))
      \/ At(s, "rate") /\ Backend(s, Derived(s, dear))
      \/ At(s, "redeem") /\ Backend(s, Reading(s, "rate", full))
      \/ At(s, "balance") /\ Backend(s, Derived(s, full))
  BY DEF readExchangeRate, readQTokenBalance
<1>9. r = session[s].request /\ x.phase = session[s].phase
  OBVIOUS
<1> HIDE DEF dear, full, r, x
<1>10. CASE At(s, "redeem") /\ Backend(s, Reading(s, "balance", dear))
  BY <1>2, <1>3, <1>6, <1>9, <1>10, ReadingOK
<1>11. CASE At(s, "redeem") /\ Backend(s, Reading(s, "rate", full))
  BY <1>2, <1>3, <1>7, <1>9, <1>11, ReadingOK
<1>12. CASE At(s, "rate") /\ Backend(s, Derived(s, dear))
  <2>1. SessionOK(world, userOf[s], Derived(s, dear))
    BY <1>6, <1>9, <1>12, DerivedOK
  <2> QED
    BY <1>12, <2>1, BackendOK
<1>13. CASE At(s, "balance") /\ Backend(s, Derived(s, full))
  <2>1. SessionOK(world, userOf[s], Derived(s, full))
    BY <1>7, <1>9, <1>13, DerivedOK DEF At
  <2> QED
    BY <1>13, <2>1, BackendOK
<1> QED
  BY <1>8, <1>10, <1>11, <1>12, <1>13

\* Slippage leaves an amount an amount.
LEMMA SlippageTyped ==
  ASSUME NEW n \in Nat
  PROVE  applySlippage(n) \in Nat
<1> DEFINE p == n * (10000 - slippageBps)
<1>1. 10000 - slippageBps \in Nat
  BY AvaxAssumption
<1>2. p \in Nat
  BY <1>1
<1> HIDE DEF p
<1>3. p \div 10000 \in Nat
  BY <1>2
<1> QED
  BY <1>3 DEF applySlippage, p

\* A quote is an amount.
LEMMA QuoteTyped ==
  ASSUME NEW w, Sound(w), NEW path \in Paths, NEW n \in Nat
  PROVE  Last(AmountsOut(w, path, n)) \in Nat
<1> DEFINE first == Out(w, path[1], path[2], n)
           second == Out(w, path[2], path[3], first)
<1>1. <<path[1], path[2]>> \in Hops /\ (Len(path) # 2 => <<path[2], path[3]>> \in Hops)
  BY DEF Paths, Hops
<1>2. first \in Nat
  BY <1>1, HopPays
<1> HIDE DEF first
<1>3. Len(path) # 2 => second \in Nat
  BY <1>1, <1>2, HopPays
<1> HIDE DEF second
<1>4. AmountsOut(w, path, n) = IF Len(path) = 2 THEN <<n, first>> ELSE <<n, first, second>>
  BY DEF AmountsOut, first, second
<1>5. Last(<<n, first>>) = first /\ Last(<<n, first, second>>) = second
  BY DEF Last
<1> QED
  BY <1>2, <1>3, <1>4, <1>5

\* prepare-swap reads the quote.
LEMMA QuoteOK ==
  ASSUME RegistryOK, SessionsOK, Sound(world), NEW s \in Sessions, getQuoteWithHop(s)
  PROVE  SessionsOK' /\ UNCHANGED <<chainVars, world, userOf>>
<1> DEFINE r == session[s].request
           path == Joe!PathOf(r.tokenIn, r.tokenOut)
           n == applySlippage(Last(AmountsOut(world, path, r.amount)))
           see == [Unread EXCEPT !.amount = n]
           y == ReadyToBuild(s, r, see)
<1>1. At(s, "swap") /\ Backend(s, y)
  BY DEF getQuoteWithHop
<1>2. r \in Asked /\ r.kind = "swap" /\ ~At(s, "signing")
  BY <1>1 DEF SessionsOK, SessionOK, At
<1>3. r.tokenIn \in Traded /\ r.tokenOut \in Traded \ {r.tokenIn} /\ r.amount \in Nat
  BY <1>2, AskedTyped
<1>4. path \in Paths
  BY <1>3, Distinct DEF Joe!PathOf, Paths, Traded
<1> HIDE DEF path
<1>5. n \in Nat
  BY <1>3, <1>4, QuoteTyped, SlippageTyped
<1> HIDE DEF n
<1>6. see \in Seen
  BY <1>5, DoneOK, SeenChanged
<1> HIDE DEF see, r
<1>7. SessionOK(world, userOf[s], y)
  BY <1>2, <1>6, ReadyOK
<1> HIDE DEF y
<1> QED
  BY <1>1, <1>7, BackendOK

\* The allowance is read, or not.
LEMMA AllowanceOK ==
  ASSUME RegistryOK, SessionsOK, Sound(world), NEW s \in Sessions, checkAllowance(s)
  PROVE  SessionsOK' /\ UNCHANGED <<chainVars, world, userOf>>
<1> DEFINE x == session[s]
           r == session[s].request
           u == userOf[s]
           see == session[s].seen
<1>1. PICK got \in Answers :
         Backend(s, Signing(s, r, Bundle(u, r, see,
                    IF got THEN world.allowance[u][TokenOf(r)] ELSE 0)))
  BY DEF checkAllowance
<1> DEFINE allowance == IF got THEN world.allowance[u][TokenOf(r)] ELSE 0
           st == Bundle(u, r, see, allowance)
           y == Signing(s, r, st)
<1>2. /\ x = Row(x.phase, x.request, x.seen, x.steps) /\ r \in Asked /\ see \in Seen /\ u \in Users
      /\ r.kind = "redeem" => RedeemSeen(world, r, see)
  BY DEF SessionsOK, SessionOK, checkAllowance, At
<1>3. Backend(s, y) /\ see = x.seen
  BY <1>1
<1>4. y = WithBundle(x, "signing", r, st)
  BY DEF Signing, WithBundle
<1> HIDE DEF allowance
<1>5. PICK e : /\ Final(u, e) /\ Bundled(st, e)
               /\ r.kind = "redeem" => RedeemStep(u, r, see, e)
  BY <1>2, BundleOK
<1> HIDE DEF y, st, u, x, r, see
<1>6. st # <<>>
  BY <1>5 DEF Bundled
<1>7. y = Row("signing", r, see, st)
  BY <1>2, <1>3, <1>4, RowChanged
<1>8. /\ y.phase = "signing" /\ y.request = r /\ y.seen = see /\ y.steps = st
      /\ y = Row(y.phase, y.request, y.seen, y.steps)
  BY <1>7, RowOf
<1>9. SignedFor(world, u, y)
  BY <1>2, <1>5, <1>8 DEF SignedFor
<1>10. SessionOK(world, u, y)
  BY <1>2, <1>6, <1>8, <1>9 DEF SessionOK, Phases
<1> QED
  BY <1>3, <1>10, BackendOK DEF u

\* A preparation that fails is over, as is a bundle broken off.
LEMMA BrokenOff ==
  ASSUME SessionsOK, Sound(world), NEW s \in Sessions, PreparationFails(s) \/ abandonBundle(s)
  PROVE  SessionsOK' /\ UNCHANGED <<chainVars, world, userOf>>
<1>1. Backend(s, Done)
  BY DEF PreparationFails, abandonBundle, Backend
<1> QED
  BY <1>1, DoneOK, BackendOK

-----------------------------------------------------------------------------
(* The wallet's steps                                                      *)

\* The next step of a bundle is its call, and then it is the last one, or an approval.
LEMMA BundleRest ==
  ASSUME NEW steps, NEW e, Bundled(steps, e)
  PROVE  \/ Head(steps) = e /\ Tail(steps) = <<>>
         \/ Approval(Head(steps)) /\ Tail(steps) = <<e>> /\ steps # <<e>>
<1>1. CASE steps = <<e>>
  BY <1>1
<1>2. CASE \E a : Approval(a) /\ steps = <<a, e>>
  <2>1. PICK a : Approval(a) /\ steps = <<a, e>>
    BY <1>2
  <2>2. Head(steps) = a /\ Len(steps) = 2 /\ Len(<<e>>) = 1
    BY <2>1
  <2>3. Tail(steps) = <<e>>
    <3> DEFINE S == {a, e}
    <3>1. <<a, e>> \in Seq(S) /\ <<e>> \in Seq(S) /\ <<a, e>> # <<>>
      OBVIOUS
    <3>2. Tail(<<a, e>>) \in Seq(S) /\ Len(Tail(<<a, e>>)) = 1 /\ Tail(<<a, e>>)[1] = <<a, e>>[2]
      BY <3>1
    <3>3. <<a, e>>[2] = e /\ <<e>>[1] = e /\ Len(<<e>>) = 1
      OBVIOUS
    <3> DEFINE z == Tail(<<a, e>>)
               v == <<e>>
    <3>4. z \in Seq(S) /\ v \in Seq(S) /\ Len(z) = 1 /\ Len(v) = 1 /\ z[1] = v[1]
      BY <3>1, <3>2, <3>3
    <3> HIDE DEF z, v, S
    <3>5. z = v
      BY <3>4, SameList
    <3> QED
      BY <2>1, <3>5 DEF z, v
  <2> QED
    BY <2>1, <2>2, <2>3
<1> QED
  BY <1>1, <1>2 DEF Bundled

\* After a step the session goes on with the rest.
LEMMA StepDoneOK ==
  ASSUME SessionsOK, Later(world', world), NEW s \in Sessions, At(s, "signing"), StepDone(s),
         userOf' = userOf
  PROVE  SessionsOK' /\ session'[s] # session[s]
<1> DEFINE x == session[s]
           u == userOf[s]
           rest == Tail(x.steps)
           y == IF rest = <<>> THEN Done ELSE [x EXCEPT !.steps = rest]
<1>1. session' = [session EXCEPT ![s] = y] /\ DOMAIN session = Sessions
  BY DEF StepDone, SessionsOK
<1>2. SessionOK(world, u, x) /\ x.phase = "signing"
  BY DEF SessionsOK, At
<1>3. SessionOK(world', u, x)
  BY <1>2, SessionLater
<1>4. PICK e : /\ Final(u, e) /\ Bundled(x.steps, e)
               /\ x.request.kind = "redeem" =>
                    RedeemStep(u, x.request, x.seen, e) /\ RedeemSeen(world', x.request, x.seen)
  BY <1>2, <1>3 DEF SessionOK, SignedFor
<1>5. SessionOK(world', u, y) /\ y # x
  <2>1. CASE rest = <<>>
    <3>1. y = Done /\ Done.phase = "done"
      BY <2>1 DEF Done, Idle
    <3> HIDE DEF y
    <3> QED
      BY <1>2, <3>1, DoneOK
  <2>2. CASE rest # <<>>
    <3>1. rest = <<e>> /\ x.steps # <<e>>
      BY <1>4, <2>2, BundleRest
    <3>2. y = WithSteps(x, rest)
      BY <2>2 DEF WithSteps
    <3>3. rest # <<>>
      BY <2>2
    <3> HIDE DEF y, x, rest, u
    <3>4. y = Row(x.phase, x.request, x.seen, rest)
      BY <1>2, <3>2, RowChanged DEF SessionOK
    <3>5. /\ y.phase = "signing" /\ y.request = x.request /\ y.seen = x.seen /\ y.steps = rest
          /\ y = Row(y.phase, y.request, y.seen, y.steps)
      BY <1>2, <3>4, RowOf
    <3>6. Bundled(y.steps, e)
      BY <3>1, <3>5 DEF Bundled
    <3>7. SignedFor(world', u, y)
      BY <1>4, <3>5, <3>6 DEF SignedFor
    <3>8. SessionOK(world', u, y)
      BY <1>2, <1>3, <3>3, <3>5, <3>7 DEF SessionOK
    <3> QED
      BY <3>1, <3>5, <3>8
  <2> QED
    BY <2>1, <2>2
<1> HIDE DEF y
<1>6. SessionsOK'
  BY <1>1, <1>5, SessionChange
<1> QED
  BY <1>1, <1>5, <1>6

\* Who is served signed a step.
LEMMA ServedOK ==
  ASSUME SessionsOK, Sound(world), NEW s \in Sessions, At(s, "signing"), StepDone(s),
         userOf' = userOf, Served(world', world, userOf[s])
  PROVE  SessionsOK' /\ session'[s] # session[s]
<1>1. Later(world', world)
  BY SameLater DEF Served
<1> QED
  BY <1>1, StepDoneOK

\* The step that is next.
LEMMA NextOK ==
  ASSUME SessionsOK, NEW s \in Sessions, At(s, "signing")
  PROVE  /\ userOf[s] \in Users
         /\ \/ Approval(NextStep(s))
            \/ /\ Final(userOf[s], NextStep(s))
               /\ session[s].request.kind = "redeem" =>
                    /\ RedeemStep(userOf[s], session[s].request, session[s].seen, NextStep(s))
                    /\ RedeemSeen(world, session[s].request, session[s].seen)
                    /\ session[s].request \in Asked /\ session[s].seen \in Seen
<1> DEFINE x == session[s]
           u == userOf[s]
<1>1. SessionOK(world, u, x) /\ x.phase = "signing" /\ u \in Users
  BY DEF SessionsOK, At
<1>2. PICK e : /\ Final(u, e) /\ Bundled(x.steps, e)
               /\ x.request.kind = "redeem" =>
                    RedeemStep(u, x.request, x.seen, e) /\ RedeemSeen(world, x.request, x.seen)
  BY <1>1 DEF SessionOK, SignedFor
<1>3. Head(x.steps) = e \/ Approval(Head(x.steps))
  BY <1>2, BundleRest
<1>4. NextStep(s) = Head(x.steps) /\ x.request \in Asked /\ x.seen \in Seen
  BY <1>1 DEF NextStep, SessionOK
<1> QED
  BY <1>1, <1>2, <1>3, <1>4

\* An approval.
LEMMA ApproveOK ==
  ASSUME RegistryOK, SessionsOK, Sound(world), Clean(world), NEW s \in Sessions, signApprove(s)
  PROVE  SessionsOK' /\ RegistryOK' /\ session'[s] # session[s] /\ Served(world', world, userOf[s])
<1> DEFINE st == NextStep(s)
           u == userOf[s]
<1>1. /\ At(s, "signing") /\ st.kind = "approve" /\ StepDone(s) /\ UNCHANGED <<chainVars, userOf>>
      /\ world' = [world EXCEPT !.allowance[u][st.token] = st.amount]
  BY DEF signApprove
<1>2. u \in Users /\ (Approval(st) \/ Final(u, st))
  BY <1>1, NextOK
<1> HIDE DEF st, u
<1>3. Approval(st)
  BY <1>1, <1>2 DEF Final, Execution, SharedRequests
<1>4. Served(world', world, u)
  BY <1>1, <1>2, <1>3, Approved DEF Approval
<1> QED
  BY <1>1, <1>4, ServedOK, RegistryStays DEF u

\* A call through the executor.
LEMMA ExecuteOK ==
  ASSUME RegistryOK, SessionsOK, Sound(world), Clean(world), NEW s \in Sessions, signExecute(s)
  PROVE  SessionsOK' /\ RegistryOK' /\ session'[s] # session[s] /\ Served(world', world, userOf[s])
<1> DEFINE st == NextStep(s)
           u == userOf[s]
<1>1. /\ At(s, "signing") /\ st.kind = "execute" /\ StepDone(s) /\ userOf' = userOf
      /\ Base!execute(u, st.protocol, st.call, st.payment, st.deadline)
      /\ world'.made <= MaxRequests
  BY DEF signExecute
<1>2. u \in Users /\ (Approval(st) \/ Final(u, st))
  BY <1>1, NextOK
<1> HIDE DEF st, u
<1>3. Execution(u, st)
  BY <1>1, <1>2 DEF Final, Approval, SharedRequests
<1>4. PICK t, n : Pays(st.payment, t, n) /\ Settles(st.protocol, st.call, t, n, u)
  BY <1>3 DEF Execution
<1>5. st.protocol \in Protocols
  BY <1>3 DEF Execution
<1>6. RegistryOK' /\ Served(world', world, u)
  BY <1>1, <1>2, <1>4, <1>5, Executed
<1> QED
  BY <1>1, <1>6, ServedOK DEF u

\* A call of a contract all users share.
LEMMA SharedOK ==
  ASSUME RegistryOK, SessionsOK, Sound(world), Clean(world), NEW s \in Sessions, signShared(s)
  PROVE  SessionsOK' /\ RegistryOK' /\ session'[s] # session[s] /\ Served(world', world, userOf[s])
<1> DEFINE st == NextStep(s)
           u == userOf[s]
<1>1. /\ At(s, "signing") /\ st.kind = "shared" /\ StepDone(s) /\ UNCHANGED <<chainVars, userOf>>
      /\ world' \in IF st.contract = Lend THEN SharedLend!Dispatch(u, st.call, world)
                                          ELSE SharedSwap!Dispatch(u, now, st.call, world)
  BY DEF signShared
<1>2. u \in Users /\ (Approval(st) \/ Final(u, st))
  BY <1>1, NextOK
<1> HIDE DEF st, u
<1>3. st \in SharedRequests
  BY <1>1, <1>2 DEF Final, Execution, Approval
<1>4. Lend # Swap
  BY Distinct
<1>5. CASE st.contract = Lend
  <2>1. st.call \in LendCalls /\ world' \in SharedLend!Dispatch(u, st.call, world)
    BY <1>1, <1>3, <1>4, <1>5 DEF SharedRequests
  <2>2. Quiet(world', world, Lend, u) /\ Empty(world', Lend)
    BY <1>2, <2>1, LendCalled DEF Clean
  <2>3. Served(world', world, u)
    BY <1>2, <2>2, SharedServed
  <2> QED
    BY <1>1, <2>3, ServedOK, RegistryStays DEF u
<1>6. CASE st.contract # Lend
  <2>1. st.call \in SwapCalls /\ world' \in SharedSwap!Dispatch(u, now, st.call, world)
    BY <1>1, <1>3, <1>6 DEF SharedRequests
  <2>2. Quiet(world', world, Swap, u) /\ Empty(world', Swap)
    BY <1>2, <2>1, SwapCalled DEF Clean
  <2>3. Served(world', world, u)
    BY <1>2, <2>2, SharedServed
  <2> QED
    BY <1>1, <2>3, ServedOK, RegistryStays DEF u
<1> QED
  BY <1>5, <1>6

\* What a wallet gets for what prepare-redeem computed from what it saw.
Fair(r, see, got, rate) ==
    /\ got * see.rate <= r.amount * rate
    /\ see.amount = see.held \/ (got + 1) * Scale + rate > r.amount * Scale

\* It is fair.
LEMMA RedeemedFairly ==
  ASSUME RegistryOK, SessionsOK, Sound(world), Clean(world), NEW s \in Sessions, signExecute(s),
         session[s].request.kind = "redeem"
  PROVE  LET r == session[s].request
             t == Underlying(r.qToken)
         IN  Fair(r, session[s].seen, world'.balance[userOf[s]][t] - world.balance[userOf[s]][t],
                  world.rate[r.qToken])
<1> DEFINE st == NextStep(s)
           u == userOf[s]
           r == session[s].request
           see == session[s].seen
           q == r.qToken
           n == see.amount
           a == Own(Benqi, u)
           t == Underlying(q)
           rate == world.rate[q]
           got == world'.balance[u][t] - world.balance[u][t]
<1>1. /\ At(s, "signing") /\ st.kind = "execute"
      /\ Base!execute(u, st.protocol, st.call, st.payment, st.deadline)
  BY DEF signExecute
<1>2. /\ u \in Users /\ RedeemStep(u, r, see, st) /\ RedeemSeen(world, r, see)
      /\ r \in Asked /\ see \in Seen /\ r.kind = "redeem"
  <2>1. u \in Users /\ (Approval(st) \/ (/\ RedeemStep(u, r, see, st) /\ RedeemSeen(world, r, see)
                                         /\ r \in Asked /\ see \in Seen))
    BY <1>1, NextOK
  <2> HIDE DEF st, u, r, see
  <2>2. ~Approval(st)
    BY <1>1 DEF Approval
  <2> QED
    BY <2>1, <2>2 DEF r
<1> HIDE DEF st, u, r, see
<1>3. q \in Markets /\ r.amount \in Nat /\ q \in AllTokens /\ t \in AllTokens \ {q}
  <2>1. q \in Markets /\ r.amount \in Nat
    BY <1>2, AskedTyped
  <2> QED
    BY <2>1, Distinct DEF Underlying, Markets
<1>4. /\ st.protocol = Benqi /\ Pays(st.payment, q, n) /\ RedeemCall(st.call, q, n, u)
      /\ Benqi \in Protocols
  BY <1>2 DEF RedeemStep, Protocols
<1>5. n \in Nat /\ n = qTokenAmount(r, see) /\ see.rate \in Nat \ {0} /\ see.rate <= rate
      /\ rate \in Nat /\ Scale \in Nat \ {0}
  <2>1. Scale \in Nat \ {0}
    BY AvaxAssumption
  <2>2. rate \in Nat
    BY <1>3, RatesTyped DEF Sound
  <2>3. n \in Nat
    BY <1>2 DEF Seen
  <2>4. see.rate \in Scale .. rate /\ n = qTokenAmount(r, see)
    BY <1>2 DEF RedeemSeen, RateSeen
  <2> QED
    BY <2>1, <2>2, <2>3, <2>4
<1> HIDE DEF n, q
<1>6. PICK x \in TransferFrom(world, u, a, st.payment) : world' \in Dispatch(a, st.call, x)
  <2>1. Base!Route(u, u, Benqi, st.call, st.payment, st.deadline) /\ a = Base!AdapterFor(Benqi, u)
    BY <1>1, <1>2, <1>4, OwnAdapter DEF Base!execute
  <2>2. world' \in Base!Results(u, a, st.call, st.payment)
    BY <2>1 DEF Base!Route
  <2> QED
    BY <2>2 DEF Base!Results
<1>7. /\ After(x, world, a, u) /\ Funded(x, a, q, n)
      /\ \A y \in AllTokens \ {q} : x.balance[u][y] = world.balance[u][y]
  BY <1>2, <1>4, <1>6, PulledOK
<1>8. Sound(x) /\ x.rate = world.rate /\ x.balance[u][t] = world.balance[u][t]
  BY <1>3, <1>7 DEF After, SameExcept
<1>9. Funded(x, a, Avax, 0)
  BY <1>2, <1>3, <1>7, FundedByMarket
<1>10. world'.balance[u][t] = x.balance[u][t] + Worth(x, q, n)
  BY <1>2, <1>3, <1>4, <1>5, <1>6, <1>8, <1>9, RedeemPays DEF RedeemCall
<1>11. Worth(x, q, n) = (n * rate) \div Scale /\ Worth(x, q, n) \in Nat
  BY <1>3, <1>5, <1>8, RatesTyped DEF Worth, Sound
<1>12. world.balance[u][t] \in Nat
  BY <1>2, <1>3, BalanceTyped DEF Sound, Accounts
<1>13. got = (n * rate) \div Scale
  <2> DEFINE k == (n * rate) \div Scale
             b == world.balance[u][t]
  <2>1. k \in Nat /\ b \in Nat /\ world'.balance[u][t] = b + k
    BY <1>8, <1>10, <1>11, <1>12
  <2> HIDE DEF k, b
  <2>2. world'.balance[u][t] - b = k
    BY <2>1
  <2> QED
    BY <2>2 DEF b, k
<1>14. /\ n * see.rate <= r.amount * Scale
       /\ n = see.held \/ r.amount * Scale < n * see.rate + see.rate
  BY <1>2, <1>3, <1>5, AmountComputed
<1> HIDE DEF got, rate
<1>15. /\ got * see.rate <= r.amount * rate
       /\ r.amount * Scale < n * see.rate + see.rate => (got + 1) * Scale + rate > r.amount * Scale
  BY <1>3, <1>5, <1>13, <1>14, FairRounding
<1>16. Fair(r, see, got, rate)
  BY <1>14, <1>15 DEF Fair, n
<1> QED
  BY <1>16 DEF r, see, got, rate, q, t, u

-----------------------------------------------------------------------------
(* Steps signed one after the other                                        *)

\* Among natural numbers of a kind there is a smallest one.
LEMMA SmallestNumber ==
  ASSUME NEW T, T \subseteq Nat, T # {}
  PROVE  \E m \in T : \A n \in T : m <= n
<1> DEFINE less == OpToRel(<, Nat)
<1>1. IsWellFoundedOn(less, Nat)
  BY NatLessThanWellFounded, Zenon
<1>2. \A n, m \in Nat : n < m => <<n, m>> \in less
  BY DEF OpToRel
<1> HIDE DEF less
<1>3. PICK m \in T : \A n \in T : ~(<<n, m>> \in less)
  BY <1>1, WFMin, Zenon
<1>4. ASSUME NEW n \in T PROVE m <= n
  <2>1. m \in Nat /\ n \in Nat /\ ~(n < m)
    BY <1>2, <1>3
  <2> QED
    BY <2>1
<1> QED
  BY <1>4

\* Signed in a world of A, these steps pass and lead to worlds of B: there are sets of
\* worlds in between such that each step leads from one to the next.
Runs(u, A, p, B) ==
    \E W : /\ A \subseteq W[0] /\ W[Len(p)] \subseteq B
           /\ \A n \in 1 .. Len(p) : \A w \in W[n - 1] :
                 AfterStep(u, w, p[n]) # {} /\ AfterStep(u, w, p[n]) \subseteq W[n]

\* Nothing to sign.
LEMMA NoStep ==
  ASSUME NEW u, NEW A, NEW B, A \subseteq B
  PROVE  Runs(u, A, <<>>, B)
<1> DEFINE W == [n \in {0} |-> A]
<1>1. A \subseteq W[0] /\ W[Len(<<>>)] \subseteq B /\ 1 .. Len(<<>>) = {}
  OBVIOUS
<1> HIDE DEF W
<1> QED
  BY <1>1 DEF Runs

\* One step.
LEMMA OneStep ==
  ASSUME NEW u, NEW A, NEW B, NEW st,
         \A w \in A : AfterStep(u, w, st) # {} /\ AfterStep(u, w, st) \subseteq B
  PROVE  Runs(u, A, <<st>>, B)
<1> DEFINE W == [n \in {0, 1} |-> IF n = 0 THEN A ELSE B]
           p == <<st>>
<1>1. W[0] = A /\ W[1] = B
  OBVIOUS
<1>2. Len(p) = 1 /\ p[1] = st
  OBVIOUS
<1> HIDE DEF W, p
<1>3. ASSUME NEW n \in 1 .. Len(p), NEW w \in W[n - 1]
      PROVE  AfterStep(u, w, p[n]) # {} /\ AfterStep(u, w, p[n]) \subseteq W[n]
  <2>1. n = 1 /\ n - 1 = 0
    BY <1>2
  <2> QED
    BY <1>1, <1>2, <2>1
<1>4. W[Len(p)] = B
  BY <1>1, <1>2
<1>5. Runs(u, A, p, B)
  BY <1>1, <1>3, <1>4 DEF Runs
<1> QED
  BY <1>5 DEF p

\* First these steps, then those.
LEMMA StepsThen ==
  ASSUME NEW u, NEW A, NEW B, NEW C, NEW S, NEW p \in Seq(S), NEW q \in Seq(S),
         Runs(u, A, p, B), Runs(u, B, q, C)
  PROVE  Runs(u, A, p \o q, C)
<1>1. PICK V : /\ A \subseteq V[0] /\ V[Len(p)] \subseteq B
               /\ \A n \in 1 .. Len(p) : \A w \in V[n - 1] :
                    AfterStep(u, w, p[n]) # {} /\ AfterStep(u, w, p[n]) \subseteq V[n]
  BY DEF Runs
<1>2. PICK W : /\ B \subseteq W[0] /\ W[Len(q)] \subseteq C
               /\ \A n \in 1 .. Len(q) : \A w \in W[n - 1] :
                    AfterStep(u, w, q[n]) # {} /\ AfterStep(u, w, q[n]) \subseteq W[n]
  BY DEF Runs
<1> DEFINE j == Len(p)
           k == Len(q)
           r == p \o q
           X == [n \in 0 .. j + k |-> IF n < j THEN V[n] ELSE W[n - j]]
<1>3. /\ j \in Nat /\ k \in Nat /\ Len(r) = j + k
      /\ \A n \in 1 .. j : r[n] = p[n]
      /\ \A n \in j + 1 .. j + k : r[n] = q[n - j]
  OBVIOUS
<1>4. /\ \A n \in 0 .. j + k : n < j => X[n] = V[n]
      /\ \A n \in 0 .. j + k : n >= j => X[n] = W[n - j]
  BY <1>3
<1> HIDE DEF X, r, j, k
<1>5. A \subseteq X[0]
  <2>1. CASE j = 0
    <3>1. A \subseteq B /\ X[0] = W[0]
      BY <1>1, <1>3, <1>4, <2>1 DEF j
    <3> QED
      BY <1>2, <3>1
  <2>2. CASE j > 0
    BY <1>1, <1>3, <1>4, <2>2
  <2> QED
    BY <1>3, <2>1, <2>2
<1>6. X[Len(r)] \subseteq C
  <2>1. X[j + k] = W[k]
    BY <1>3, <1>4
  <2> QED
    BY <1>2, <1>3, <2>1 DEF k
<1>7. ASSUME NEW n \in 1 .. Len(r), NEW w \in X[n - 1]
      PROVE  AfterStep(u, w, r[n]) # {} /\ AfterStep(u, w, r[n]) \subseteq X[n]
  <2>1. CASE n <= j
    <3>1. n \in 1 .. j /\ n - 1 \in 0 .. j + k /\ n - 1 < j /\ n \in 0 .. j + k
      BY <1>3, <2>1
    <3>2. w \in V[n - 1] /\ r[n] = p[n]
      BY <1>3, <1>4, <3>1
    <3>3. AfterStep(u, w, p[n]) # {} /\ AfterStep(u, w, p[n]) \subseteq V[n]
      BY <1>1, <3>1, <3>2 DEF j
    <3>4. CASE n < j
      BY <1>4, <3>1, <3>2, <3>3, <3>4
    <3>5. CASE n = j
      <4>1. V[n] \subseteq W[0]
        BY <1>1, <1>2, <3>5 DEF j
      <4>2. X[n] = W[0]
        BY <1>3, <1>4, <3>1, <3>5
      <4> QED
        BY <3>2, <3>3, <4>1, <4>2
    <3> QED
      BY <1>3, <2>1, <3>4, <3>5
  <2>2. CASE n > j
    <3> DEFINE m == n - j
    <3>1. /\ m \in 1 .. k /\ n \in j + 1 .. j + k /\ n - 1 \in 0 .. j + k /\ n - 1 >= j
          /\ n \in 0 .. j + k /\ n >= j /\ n - 1 - j = m - 1
      BY <1>3, <2>2
    <3>2. w \in W[m - 1] /\ r[n] = q[m] /\ X[n] = W[m]
      <4>1. X[n - 1] = W[n - 1 - j] /\ X[n] = W[m]
        BY <1>4, <3>1
      <4>2. r[n] = q[m]
        BY <1>3, <3>1
      <4>3. X[n - 1] = W[m - 1]
        BY <3>1, <4>1
      <4> QED
        BY <4>1, <4>2, <4>3
    <3>3. AfterStep(u, w, q[m]) # {} /\ AfterStep(u, w, q[m]) \subseteq W[m]
      BY <1>2, <3>1, <3>2 DEF k
    <3> QED
      BY <3>2, <3>3
  <2> QED
    BY <1>3, <2>1, <2>2
<1>8. Runs(u, A, r, C)
  BY <1>5, <1>6, <1>7 DEF Runs
<1> QED
  BY <1>8 DEF r

\* The worlds after n of the steps.
AfterSome(u, f, p, n) ==
    IF n = 0 THEN {world} ELSE UNION {AfterStep(u, w, p[n]) : w \in f[n - 1]}

\* They are defined for any number of steps.
LEMMA StepsDefined ==
  ASSUME NEW u, NEW p, NEW k \in Nat
  PROVE  \E f : f = [n \in 0 .. k |-> AfterSome(u, f, p, n)]
<1> DEFINE Defined(m) == \E f : f = [n \in 0 .. m |-> AfterSome(u, f, p, n)]
           Bad == {m \in Nat : ~Defined(m)}
<1>1. Bad = {}
  <2> SUFFICES ASSUME Bad # {} PROVE FALSE
    OBVIOUS
  <2>1. \E m \in Bad : \A n \in Bad : m <= n
    <3>1. Bad \subseteq Nat
      OBVIOUS
    <3> HIDE DEF Bad
    <3> QED
      BY <3>1, SmallestNumber
  <2>2. PICK m \in Bad : \A n \in Bad : m <= n
    BY <2>1
  <2>3. m \in Nat /\ ~Defined(m)
    OBVIOUS
  <2>4. CASE m = 0
    <3> DEFINE f == [n \in 0 .. m |-> {world}]
    <3>1. \A n \in 0 .. m : AfterSome(u, f, p, n) = {world}
      BY <2>4 DEF AfterSome
    <3>2. f = [n \in 0 .. m |-> AfterSome(u, f, p, n)]
      BY <3>1
    <3> HIDE DEF f
    <3> QED
      BY <2>3, <3>2
  <2>5. CASE m # 0
    <3>1. m - 1 \in Nat /\ ~(m <= m - 1)
      BY <2>3, <2>5
    <3>2. Defined(m - 1)
      BY <2>2, <3>1
    <3>3. PICK g : g = [n \in 0 .. m - 1 |-> AfterSome(u, g, p, n)]
      BY <3>2
    <3> DEFINE f == [n \in 0 .. m |-> AfterSome(u, g, p, n)]
    <3>4. \A n \in 0 .. m - 1 : f[n] = g[n]
      BY <2>3, <3>3
    <3>5. \A n \in 0 .. m : AfterSome(u, f, p, n) = AfterSome(u, g, p, n)
      <4> HIDE DEF f
      <4> SUFFICES ASSUME NEW n \in 0 .. m
                   PROVE  AfterSome(u, f, p, n) = AfterSome(u, g, p, n)
        OBVIOUS
      <4>1. n # 0 => n - 1 \in 0 .. m - 1
        BY <2>3
      <4>2. n # 0 => f[n - 1] = g[n - 1]
        BY <3>4, <4>1
      <4> QED
        BY <4>2 DEF AfterSome
    <3>6. f = [n \in 0 .. m |-> AfterSome(u, f, p, n)]
      <4> DEFINE h == [n \in 0 .. m |-> AfterSome(u, f, p, n)]
      <4>1. f = h
        BY <3>5
      <4> QED
        BY <4>1
    <3> HIDE DEF f
    <3> QED
      BY <2>3, <3>6
  <2> QED
    BY <2>4, <2>5
<1> QED
  BY <1>1

\* Steps that pass one after the other pass together.
LEMMA RunsLead ==
  ASSUME NEW u, NEW S, NEW p \in Seq(S), NEW B, Runs(u, {world}, p, B)
  PROVE  AfterSteps(u, p) # {} /\ AfterSteps(u, p) \subseteq B
<1> DEFINE k == Len(p)
           F == CHOOSE f : f = [n \in 0 .. k |-> AfterSome(u, f, p, n)]
<1>1. k \in Nat
  OBVIOUS
<1>2. F = [n \in 0 .. k |-> AfterSome(u, F, p, n)]
  <2>1. \E f : f = [n \in 0 .. k |-> AfterSome(u, f, p, n)]
    <3> HIDE DEF k
    <3> QED
      BY <1>1, StepsDefined
  <2> QED
    BY <2>1, Zenon
<1>3. AfterSteps(u, p) = F[k]
  BY Zenon DEF AfterSteps, AfterSome
<1>4. PICK W : /\ {world} \subseteq W[0] /\ W[k] \subseteq B
               /\ \A n \in 1 .. k : \A w \in W[n - 1] :
                    AfterStep(u, w, p[n]) # {} /\ AfterStep(u, w, p[n]) \subseteq W[n]
  BY DEF Runs
<1> HIDE DEF F, k
<1>5. \A n \in 0 .. k : F[n] = AfterSome(u, F, p, n)
  BY <1>2
<1> DEFINE Bad == {n \in 0 .. k : ~(F[n] # {} /\ F[n] \subseteq W[n])}
<1>6. Bad = {}
  <2> SUFFICES ASSUME Bad # {} PROVE FALSE
    OBVIOUS
  <2>1. \E m \in Bad : \A n \in Bad : m <= n
    <3>1. Bad \subseteq Nat
      BY <1>1
    <3> HIDE DEF Bad
    <3> QED
      BY <3>1, SmallestNumber
  <2>2. PICK m \in Bad : \A n \in Bad : m <= n
    BY <2>1
  <2>3. m \in 0 .. k /\ ~(F[m] # {} /\ F[m] \subseteq W[m])
    OBVIOUS
  <2>4. m # 0
    <3>1. 0 \in 0 .. k
      BY <1>1
    <3>2. F[0] = {world}
      BY <1>5, <3>1 DEF AfterSome
    <3> QED
      BY <1>4, <2>3, <3>2
  <2>5. m - 1 \in 0 .. k /\ ~(m <= m - 1) /\ m \in 1 .. k
    BY <1>1, <2>3, <2>4
  <2>6. F[m - 1] # {} /\ F[m - 1] \subseteq W[m - 1]
    BY <2>2, <2>5
  <2>7. F[m] = UNION {AfterStep(u, w, p[m]) : w \in F[m - 1]}
    BY <1>5, <2>3, <2>4 DEF AfterSome
  <2>8. \A w \in F[m - 1] : AfterStep(u, w, p[m]) # {} /\ AfterStep(u, w, p[m]) \subseteq W[m]
    BY <1>4, <2>5, <2>6
  <2> QED
    BY <2>3, <2>6, <2>7, <2>8
<1>7. F[k] # {} /\ F[k] \subseteq W[k]
  BY <1>1, <1>6
<1> QED
  BY <1>3, <1>4, <1>7

-----------------------------------------------------------------------------
(* The way out                                                             *)

Owed(u, q) == world.debt[Own(Benqi, u)][q]
Deposited(u, q) == world.balance[Own(Benqi, u)][q]

\* A user on the way out of BENQI has repaid the debts in the markets R and has back what
\* was deposited in the markets T; the others have the cash they had.
OnTheWay(u, R, T) ==
    {w \in Worlds :
        /\ Sound(w) /\ Clean(w) /\ w.rate = world.rate
        /\ \A q \in Markets :
             /\ w.debt[Own(Benqi, u)][q] = IF q \in R THEN 0 ELSE Owed(u, q)
             /\ w.balance[Own(Benqi, u)][q] = IF q \in T THEN 0 ELSE Deposited(u, q)
             /\ w.balance[u][Underlying(q)] =
                    world.balance[u][Underlying(q)] - (IF q \in R THEN Owed(u, q) ELSE 0)
                        + (IF q \in T THEN Worth(world, q, Deposited(u, q)) ELSE 0)
             /\ q \notin T => w.balance[q][Underlying(q)] >= world.balance[q][Underlying(q)]}

\* The two markets have different underlyings.
LEMMA OtherUnderlying ==
  ASSUME NEW q \in Markets, NEW r \in Markets \ {q}
  PROVE  Underlying(r) # Underlying(q)
<1>1. QiAvax # QiUsdc /\ Avax # Usdc /\ Markets = {QiAvax, QiUsdc}
  BY Distinct
<1> QED
  BY <1>1 DEF Underlying

\* What a wallet has and the executor may take is taken.
LEMMA Pullable ==
  ASSUME NEW w \in Worlds, NEW u \in Users, NEW to, NEW t \in AllTokens, NEW n \in Nat,
         n <= w.balance[u][t], t = Avax \/ n <= w.allowance[u][t]
  PROVE  TransferFrom(w, u, to, Pay(t, n)) # {}
<1>1. u \in Accounts
  BY Distinct DEF Panorama
<1>2. w.balance[u][t] \in Nat /\ w.allowance[u][t] \in Nat
  BY <1>1 DEF Worlds
<1>3. \A s \in DOMAIN Pay(t, n) : s = t /\ Pay(t, n)[s] = n
  BY DEF Pay
<1>4. \A s \in DOMAIN Pay(t, n) :
        /\ Has(w, s, u, Pay(t, n)[s])
        /\ s = Avax \/ w.allowance[u][s] >= Pay(t, n)[s]
  BY <1>2, <1>3 DEF Has
<1> QED
  BY <1>4 DEF TransferFrom

\* Where there is nothing to pay, nothing is in the way.
LEMMA NothingToPull ==
  ASSUME NEW w, NEW u, NEW to
  PROVE  TransferFrom(w, u, to, NoTokens) # {}
<1>1. {t \in DOMAIN NoTokens : NoTokens[t] > 0} = {}
  BY DEF NoTokens
<1> QED
  BY <1>1 DEF TransferFrom

\* A call that is signed runs in the adapter of its user.
LEMMA StepRuns ==
  ASSUME RegistryOK, NEW u \in Users, NEW call, NEW payment, NEW deadline, NEW w, NEW B,
         TransferFrom(w, u, Own(Benqi, u), payment) # {},
         \A x \in TransferFrom(w, u, Own(Benqi, u), payment) :
            Dispatch(Own(Benqi, u), call, x) # {} /\ Dispatch(Own(Benqi, u), call, x) \subseteq B,
         NEW st, st = ExecuteStep(Benqi, call, payment, deadline)
  PROVE  AfterStep(u, w, st) # {} /\ AfterStep(u, w, st) \subseteq B
<1> DEFINE c == Own(Benqi, u)
           D(x) == Dispatch(c, call, x)
           X == TransferFrom(w, u, c, payment)
<1>1. /\ st.kind = "execute" /\ st.protocol = Benqi /\ st.call = call
      /\ st.payment = payment
  BY DEF ExecuteStep
<1>2. Base!AdapterFor(Benqi, u) = c
  BY OwnAdapter DEF Protocols
<1> HIDE DEF c
<1>3. AfterStep(u, w, st) = UNION {D(x) : x \in X}
  BY <1>1, <1>2 DEF AfterStep, AndThen
<1>4. X # {} /\ \A x \in X : D(x) # {} /\ D(x) \subseteq B
  BY DEF c
<1> HIDE DEF D, X
<1>5. PICK x \in X : D(x) # {}
  BY <1>4
<1>6. PICK v : v \in D(x)
  BY <1>5
<1>7. v \in AfterStep(u, w, st)
  BY <1>3, <1>5, <1>6
<1>8. ASSUME NEW y \in AfterStep(u, w, st) PROVE y \in B
  <2>1. PICK z \in X : y \in D(z)
    BY <1>3
  <2> QED
    BY <1>4, <2>1
<1> QED
  BY <1>7, <1>8

\* A repayment is BENQI's.
LEMMA RepayCalled ==
  ASSUME NEW u \in Users, NEW q \in Markets, NEW n \in Nat \ {0}, NEW call,
         \/ q # QiAvax /\ call = [action |-> "repay", qToken |-> q, amount |-> n]
         \/ q = QiAvax /\ call = [action |-> "repayAVAX", value |-> n],
         NEW w
  PROVE  Dispatch(Own(Benqi, u), call, w) = RepayBorrow(w, Own(Benqi, u), q, n)
<1> DEFINE c == Own(Benqi, u)
<1>1. Dispatch(c, call, w) = BenqiLend!Dispatch(c, call, w)
  BY Dispatched
<1> HIDE DEF c
<1>2. BenqiLend!Dispatch(c, call, w) = BenqiLend!RepayBorrow(w, c, q, n)
  <2>1. CASE q # QiAvax /\ call = [action |-> "repay", qToken |-> q, amount |-> n]
    <3>1. BenqiLend!Dispatch(c, call, w) = BenqiLend!repay(w, c, call)
      BY <2>1 DEF BenqiLend!Dispatch
    <3>2. BenqiLend!HasUnderlying(q)
      BY <2>1 DEF BenqiLend!HasUnderlying
    <3> QED
      BY <2>1, <3>1, <3>2 DEF BenqiLend!repay
  <2>2. CASE q = QiAvax /\ call = [action |-> "repayAVAX", value |-> n]
    <3>1. BenqiLend!Dispatch(c, call, w) = BenqiLend!repayAVAX(w, c, call)
      BY <2>2 DEF BenqiLend!Dispatch
    <3> QED
      BY <2>2, <3>1 DEF BenqiLend!repayAVAX
  <2> QED
    BY <2>1, <2>2
<1> QED
  BY <1>1, <1>2, BenqiSame DEF c

\* A debt the wallet can pay is repaid.
LEMMA RepayLeads ==
  ASSUME RegistryOK, NEW u \in Users, NEW q \in Markets, NEW R, q \notin R,
         NEW n \in Nat \ {0}, n = Owed(u, q), n <= world.balance[u][Underlying(q)],
         world \in Worlds, NEW call,
         \/ q # QiAvax /\ call = [action |-> "repay", qToken |-> q, amount |-> n]
         \/ q = QiAvax /\ call = [action |-> "repayAVAX", value |-> n],
         NEW deadline, NEW st, st = ExecuteStep(Benqi, call, Pay(Underlying(q), n), deadline),
         NEW w \in OnTheWay(u, R, {}),
         Underlying(q) = Avax \/ n <= w.allowance[u][Underlying(q)]
  PROVE  AfterStep(u, w, st) # {} /\ AfterStep(u, w, st) \subseteq OnTheWay(u, R \cup {q}, {})
<1> DEFINE c == Own(Benqi, u)
           t == Underlying(q)
<1>1. /\ c \in Adapters /\ c \in Accounts /\ c \in Borrowers /\ u \in Accounts /\ c # u
      /\ q \in Accounts \ {c, u} /\ Benqi \in Protocols
      /\ t \in AllTokens \ Markets /\ q \in AllTokens
  <2>1. Benqi \in Protocols
    BY DEF Protocols
  <2>2. c \in Panorama /\ u \in Panorama
    BY <2>1, OwnTyped
  <2> QED
    BY <2>1, <2>2, OwnTyped, MarketsTyped, Distinct
<1>2. /\ w \in Worlds /\ Sound(w) /\ Clean(w) /\ w.rate = world.rate
      /\ \A r \in Markets :
           /\ w.debt[c][r] = IF r \in R THEN 0 ELSE Owed(u, r)
           /\ w.balance[c][r] = Deposited(u, r)
           /\ w.balance[u][Underlying(r)] =
                world.balance[u][Underlying(r)] - (IF r \in R THEN Owed(u, r) ELSE 0)
           /\ w.balance[r][Underlying(r)] >= world.balance[r][Underlying(r)]
  <2>1. \A r \in Markets : Owed(u, r) \in Nat /\ world.balance[u][Underlying(r)] \in Nat
    BY <1>1, MarketsTyped DEF Worlds, Owed
  <2> QED
    BY <2>1 DEF OnTheWay
<1>3. w.balance[u][t] = world.balance[u][t] /\ w.debt[c][q] = n /\ world.balance[u][t] \in Nat
  <2>1. world.balance[u][t] \in Nat
    BY <1>1 DEF Worlds
  <2>2. w.debt[c][q] = n /\ w.balance[u][t] = world.balance[u][t] - 0
    BY <1>2
  <2> QED
    BY <2>1, <2>2
<1>4. TransferFrom(w, u, c, Pay(t, n)) # {}
  BY <1>1, <1>2, <1>3, Pullable
<1>5. ASSUME NEW x \in TransferFrom(w, u, c, Pay(t, n))
      PROVE  /\ Dispatch(c, call, x) # {}
             /\ Dispatch(c, call, x) \subseteq OnTheWay(u, R \cup {q}, {})
  <2>1. Pays(Pay(t, n), t, n)
    BY <1>1, PaymentOfOne
  <2>2. /\ After(x, w, c, u) /\ Funded(x, c, t, n) /\ x.debt = w.debt
        /\ x.balance[u][t] = w.balance[u][t] - n
        /\ \A s \in AllTokens \ {t} : x.balance[u][s] = w.balance[u][s]
        /\ \A s \in AllTokens : x.balance[c][s] = w.balance[c][s] + IF s = t THEN n ELSE 0
        /\ \A y \in Accounts \ {u, c} : x.balance[y] = w.balance[y]
    BY <1>1, <1>2, <2>1, PulledOK
  <2>3. Sound(x) /\ x \in Worlds
    BY <2>2 DEF After, Sound
  <2>4. Dispatch(c, call, x) = RepayBorrow(x, c, q, n)
    BY RepayCalled
  <2>5. RepayBorrow(x, c, q, n) # {}
    <3>1. x.balance[c][t] = w.balance[c][t] + n /\ w.balance[c][t] \in Nat
      BY <1>1, <1>2, <2>2 DEF Worlds
    <3>2. Has(x, t, c, n) /\ n <= x.debt[c][q]
      BY <1>3, <2>2, <3>1 DEF Has
    <3> QED
      BY <3>2 DEF RepayBorrow
  <2>6. ASSUME NEW v \in RepayBorrow(x, c, q, n)
        PROVE  v \in OnTheWay(u, R \cup {q}, {})
    <3>1. Settled(v, x, c, u)
      BY <1>1, <2>2, <2>3, RepayOK
    <3>2. Served(v, w, u)
      BY <1>1, <1>2, <2>2, <3>1, SettledAfter, SettledServed
    <3>3. /\ Debited(v, x, c, t, n) /\ v.debt[c][q] = x.debt[c][q] - n
          /\ \A r \in Markets \ {q} : v.debt[c][r] = x.debt[c][r]
          /\ \A y \in Accounts \ {c, q} : v.balance[y] = x.balance[y]
          /\ v.balance[q][t] = x.balance[q][t] + n
      BY <1>1, <2>3, Repaid
    <3>4. Sound(v) /\ Clean(v) /\ v.rate = world.rate /\ v \in Worlds
      BY <1>2, <3>2 DEF Served, Sound
    <3>5. ASSUME NEW r \in Markets
          PROVE  /\ v.debt[c][r] = IF r \in R \cup {q} THEN 0 ELSE Owed(u, r)
                 /\ v.balance[c][r] = Deposited(u, r)
                 /\ v.balance[u][Underlying(r)] =
                      world.balance[u][Underlying(r)]
                        - (IF r \in R \cup {q} THEN Owed(u, r) ELSE 0)
                 /\ v.balance[r][Underlying(r)] >= world.balance[r][Underlying(r)]
      <4>1. /\ r \in AllTokens /\ r # t /\ r \in Accounts \ {c, u}
            /\ Underlying(r) \in AllTokens
        BY <1>1, MarketsTyped, Distinct, OwnTyped
      <4>2. v.balance[c][r] = Deposited(u, r)
        <5>1. v.balance[c][r] = x.balance[c][r] /\ x.balance[c][r] = w.balance[c][r]
          <6>1. /\ v.balance[c][r] = x.balance[c][r] - 0 /\ x.balance[c][r] = w.balance[c][r] + 0
                /\ x.balance[c][r] \in Nat /\ w.balance[c][r] \in Nat
            <7>1. v.balance[c][r] = x.balance[c][r] - 0
              BY <3>3, <4>1 DEF Debited
            <7>2. x.balance[c][r] = w.balance[c][r] + 0
              BY <2>2, <4>1
            <7>3. x.balance[c][r] \in Nat /\ w.balance[c][r] \in Nat
              BY <1>1, <1>2, <2>3, <4>1 DEF Worlds
            <7> QED
              BY <7>1, <7>2, <7>3
          <6> QED
            BY <6>1
        <5> QED
          BY <1>2, <5>1
      <4>3. v.balance[u] = x.balance[u]
        BY <1>1, <3>3
      <4>4. CASE r = q
        <5>1. v.debt[c][r] = 0 /\ n \in Nat
          BY <1>3, <2>2, <3>3, <4>4
        <5>2. v.balance[u][t] = world.balance[u][t] - n
          BY <1>3, <2>2, <4>3
        <5>3. x.balance[q] = w.balance[q] /\ w.balance[q][t] \in Nat /\ world.balance[q][t] \in Nat
          BY <1>1, <1>2, <2>2 DEF Worlds
        <5>4. v.balance[q][t] >= world.balance[q][t]
          BY <1>2, <3>3, <5>3
        <5> QED
          BY <4>2, <4>4, <5>1, <5>2, <5>4
      <4>5. CASE r # q
        <5>1. Underlying(r) # t
          BY <4>5, OtherUnderlying
        <5>2. v.debt[c][r] = w.debt[c][r] /\ v.balance[r] = w.balance[r]
          BY <2>2, <3>3, <4>1, <4>5
        <5>3. v.balance[u][Underlying(r)] = w.balance[u][Underlying(r)]
          BY <2>2, <4>1, <4>3, <5>1
        <5> QED
          BY <1>2, <4>2, <4>5, <5>2, <5>3
      <4> QED
        BY <4>4, <4>5
    <3>6. \A r \in Markets : Owed(u, r) \in Nat /\ world.balance[u][Underlying(r)] \in Nat
      BY <1>1, MarketsTyped DEF Worlds, Owed
    <3> HIDE DEF t
    <3> QED
      BY <3>4, <3>5, <3>6 DEF OnTheWay
  <2> QED
    BY <2>4, <2>5, <2>6
<1> QED
  <2> DEFINE B == OnTheWay(u, R \cup {q}, {})
             payment == Pay(t, n)
  <2>1. \A x \in TransferFrom(w, u, c, payment) :
           Dispatch(c, call, x) # {} /\ Dispatch(c, call, x) \subseteq B
    BY <1>5
  <2>2. TransferFrom(w, u, c, payment) # {} /\ st = ExecuteStep(Benqi, call, payment, deadline)
    BY <1>4
  <2> HIDE DEF B, payment, t
  <2>3. AfterStep(u, w, st) # {} /\ AfterStep(u, w, st) \subseteq B
    BY <2>1, <2>2, StepRuns
  <2> QED
    BY <2>3 DEF B

\* So is an approval before it.
LEMMA ApproveLeads ==
  ASSUME NEW u \in Users, NEW q \in Markets, NEW R, NEW n \in Nat, NEW w \in OnTheWay(u, R, {})
  PROVE  /\ AfterStep(u, w, ApproveStep(Underlying(q), n)) # {}
         /\ AfterStep(u, w, ApproveStep(Underlying(q), n))
              \subseteq {v \in OnTheWay(u, R, {}) : n <= v.allowance[u][Underlying(q)]}
<1> DEFINE t == Underlying(q)
           v == [w EXCEPT !.allowance[u][t] = n]
<1>1. AfterStep(u, w, ApproveStep(t, n)) = {v}
  BY DEF AfterStep, ApproveStep
<1>2. t \in AllTokens /\ w \in Worlds /\ Sound(w) /\ Clean(w) /\ w.rate = world.rate
  BY MarketsTyped DEF OnTheWay
<1>3. v.allowance[u][t] = n
  BY <1>2 DEF Worlds
<1> HIDE DEF t
<1>4. Served(v, w, u) /\ v.balance = w.balance /\ v.debt = w.debt
  BY <1>2, Approved
<1> HIDE DEF v
<1>5. Sound(v) /\ Clean(v) /\ v \in Worlds /\ v.rate = world.rate
  BY <1>2, <1>4 DEF Served, Sound
<1>6. v \in OnTheWay(u, R, {}) /\ n <= v.allowance[u][t]
  BY <1>3, <1>4, <1>5 DEF OnTheWay
<1> QED
  BY <1>1, <1>6 DEF t

\* Who owes nothing may withdraw everything.
LEMMA Backed ==
  ASSUME NEW w \in Worlds, NEW c \in Adapters, NoDebt(w, c)
  PROVE  Healthy(w, c)
<1>1. c \in Accounts
  BY DEF Accounts
<1>2. ASSUME NEW q \in Markets PROVE Backing(w, c, q) \in Nat
  <2>1. w.balance[c][q] \in Nat
    BY <1>1, MarketsTyped, BalanceTyped
  <2> QED
    BY <2>1, RatesTyped DEF Backing
<1>3. Markets = {QiAvax, QiUsdc}
  BY Distinct
<1>4. w.debt[c][QiAvax] = 0 /\ w.debt[c][QiUsdc] = 0
  BY <1>3 DEF NoDebt
<1>5. Backing(w, c, QiAvax) \in Nat /\ Backing(w, c, QiUsdc) \in Nat
  BY <1>2, <1>3
<1> QED
  BY <1>4, <1>5 DEF Healthy

\* If the market has the cash.
LEMMA RedeemPasses ==
  ASSUME NEW w \in Worlds, NEW c \in Adapters, NoDebt(w, c), NEW q \in Markets, NEW n \in Nat,
         n <= w.balance[c][q], Worth(w, q, n) <= w.balance[q][Underlying(q)]
  PROVE  Redeem(w, c, q, n) # {}
<1> DEFINE t == Underlying(q)
           m == Worth(w, q, n)
           v == [Move(w, t, q, c, m) EXCEPT !.balance[c][q] = @ - n]
<1>1. /\ c \in Accounts /\ q \in Accounts /\ c # q /\ q \in AllTokens
      /\ t \in AllTokens \ {q}
  BY MarketsTyped, Distinct DEF Panorama
<1>2. m \in Nat /\ w.balance[q][t] \in Nat /\ w.balance[c][q] \in Nat
  BY <1>1, RatesTyped, BalanceTyped
<1>3. v \in Worlds /\ Exchanged(v, w, c, q, q, n, t, m)
  <2> HIDE DEF m, t
  <2>1. m <= w.balance[q][t]
    BY DEF m, t
  <2> HIDE DEF v
  <2> QED
    BY <1>1, <1>2, <2>1, Sold DEF v
<1>4. v.debt = w.debt
  BY <1>3, RebalancedWorld DEF Exchanged
<1> HIDE DEF v
<1>5. Healthy(v, c)
  BY <1>3, <1>4, Backed DEF NoDebt
<1>6. Has(w, q, c, n) /\ Has(w, t, q, m) /\ StillBacked(v, c, q)
  BY <1>2, <1>5 DEF Has, StillBacked
<1> QED
  BY <1>6 DEF Redeem, v

\* A withdrawal is a redemption whose proceeds go to the user.
LEMMA WithdrawCalled ==
  ASSUME NEW u \in Users, NEW q \in Markets, NEW n \in Nat \ {0}, NEW call,
         \/ /\ q # QiAvax
            /\ call = [action |-> "redeem", qToken |-> q, qTokenAmount |-> n, recipient |-> u]
         \/ /\ q = QiAvax
            /\ call = [action |-> "redeemAVAX", qTokenAmount |-> n, recipient |-> u],
         NEW w, Sound(w), Funded(w, Own(Benqi, u), Avax, 0)
  PROVE  LET c == Own(Benqi, u)
             t == Underlying(q)
         IN  Dispatch(c, call, w) =
               {Move(x, t, c, u, x.balance[c][t]) : x \in Redeem(w, c, q, n)}
<1> DEFINE c == Own(Benqi, u)
           t == Underlying(q)
           Z == {Move(x, t, c, u, x.balance[c][t]) : x \in Redeem(w, c, q, n)}
<1>1. Dispatch(c, call, w) = BenqiLend!Dispatch(c, call, w)
  BY Dispatched
<1>2. /\ c \in Accounts /\ c \in Panorama /\ c.protocol = Benqi /\ t \in AllTokens \ Markets
      /\ w \in Worlds
  BY OwnTyped, MarketsTyped DEF Protocols, Sound
<1>3. w.balance[c][t] = 0
  BY <1>2 DEF Funded
<1>4. ASSUME NEW x \in Redeem(w, c, q, n)
      PROVE  x.balance[c][t] - w.balance[c][t] = x.balance[c][t]
  <2>1. x \in Worlds
    BY <1>2, Redeemed
  <2>2. x.balance[c][t] \in Nat
    BY <1>2, <2>1 DEF Worlds
  <2> QED
    BY <1>3, <2>2
<1> HIDE DEF c
<1>5. BenqiLend!Dispatch(c, call, w) = Z
  <2>1. CASE q # QiAvax /\ call = [action |-> "redeem", qToken |-> q, qTokenAmount |-> n,
                                   recipient |-> u]
    <3>1. BenqiLend!Dispatch(c, call, w) = BenqiLend!redeem(w, c, call)
      BY <2>1 DEF BenqiLend!Dispatch
    <3>2. BenqiLend!HasUnderlying(q) /\ BenqiLend!Underlying(q) = t
      BY <2>1, BenqiSame DEF BenqiLend!HasUnderlying
    <3>3. BenqiLend!redeem(w, c, call) =
            UNION {{BenqiLend!Move(x, t, c, u, x.balance[c][t] - w.balance[c][t])} :
                     x \in BenqiLend!Redeem(w, c, q, n)}
      BY <2>1, <3>2 DEF BenqiLend!redeem, BenqiLend!AndThen, BenqiLend!Received
    <3>4. BenqiLend!redeem(w, c, call) =
            {Move(x, t, c, u, x.balance[c][t] - w.balance[c][t]) : x \in Redeem(w, c, q, n)}
      BY <3>3, BenqiSame
    <3>5. BenqiLend!redeem(w, c, call) = Z
      BY <1>4, <3>4
    <3> QED
      BY <3>1, <3>5
  <2>2. CASE q = QiAvax /\ call = [action |-> "redeemAVAX", qTokenAmount |-> n, recipient |-> u]
    <3>1. BenqiLend!Dispatch(c, call, w) = BenqiLend!redeemAVAX(w, c, call)
      BY <2>2 DEF BenqiLend!Dispatch
    <3>2. t = Avax
      BY <2>2 DEF Underlying
    <3>3. BenqiLend!redeemAVAX(w, c, call) =
            UNION {{BenqiLend!Move(x, t, c, u, x.balance[c][t])} :
                     x \in BenqiLend!Redeem(w, c, q, n)}
      BY <2>2, <3>2 DEF BenqiLend!redeemAVAX, BenqiLend!AndThen
    <3>4. BenqiLend!redeemAVAX(w, c, call) = Z
      BY <3>3, BenqiSame
    <3> QED
      BY <3>1, <3>4
  <2> QED
    BY <2>1, <2>2
<1> QED
  BY <1>1, <1>5 DEF c

\* What was deposited in a market can be withdrawn once nothing is owed.
LEMMA WithdrawLeads ==
  ASSUME RegistryOK, NEW u \in Users, NEW q \in Markets, NEW T, q \notin T,
         NEW n \in Nat \ {0}, n = Deposited(u, q), world \in Worlds,
         Worth(world, q, n) <= world.balance[q][Underlying(q)], NEW call,
         \/ /\ q # QiAvax
            /\ call = [action |-> "redeem", qToken |-> q, qTokenAmount |-> n, recipient |-> u]
         \/ /\ q = QiAvax
            /\ call = [action |-> "redeemAVAX", qTokenAmount |-> n, recipient |-> u],
         NEW deadline, NEW st, st = ExecuteStep(Benqi, call, NoTokens, deadline),
         NEW w \in OnTheWay(u, Markets, T)
  PROVE  /\ AfterStep(u, w, st) # {}
         /\ AfterStep(u, w, st) \subseteq OnTheWay(u, Markets, T \cup {q})
<1> DEFINE c == Own(Benqi, u)
           t == Underlying(q)
           m == Worth(world, q, n)
           B == OnTheWay(u, Markets, T \cup {q})
<1>1. /\ c \in Adapters /\ c \in Accounts /\ c \in Panorama /\ u \in Accounts /\ c # u
      /\ c \in Borrowers
      /\ q \in Accounts \ {c, u} /\ Benqi \in Protocols /\ c.protocol = Benqi
      /\ t \in AllTokens \ Markets /\ q \in AllTokens
  <2>1. Benqi \in Protocols
    BY DEF Protocols
  <2>2. c \in Panorama /\ u \in Panorama
    BY <2>1, OwnTyped
  <2> QED
    BY <2>1, <2>2, OwnTyped, MarketsTyped, Distinct
<1>2. /\ w \in Worlds /\ Sound(w) /\ Clean(w) /\ w.rate = world.rate
      /\ \A r \in Markets :
           /\ w.debt[c][r] = 0
           /\ w.balance[c][r] = IF r \in T THEN 0 ELSE Deposited(u, r)
           /\ w.balance[u][Underlying(r)] =
                world.balance[u][Underlying(r)] - Owed(u, r)
                  + (IF r \in T THEN Worth(world, r, Deposited(u, r)) ELSE 0)
           /\ r \notin T => w.balance[r][Underlying(r)] >= world.balance[r][Underlying(r)]
  BY DEF OnTheWay
<1>3. TransferFrom(w, u, c, NoTokens) # {}
  BY NothingToPull
<1>4. ASSUME NEW x \in TransferFrom(w, u, c, NoTokens)
      PROVE  Dispatch(c, call, x) # {} /\ Dispatch(c, call, x) \subseteq B
  <2>1. /\ After(x, w, c, u) /\ Funded(x, c, Avax, 0) /\ x.debt = w.debt
        /\ x.balance[u][Avax] = w.balance[u][Avax] - 0
        /\ \A s \in AllTokens \ {Avax} : x.balance[u][s] = w.balance[u][s]
        /\ \A s \in AllTokens : x.balance[c][s] = w.balance[c][s] + IF s = Avax THEN 0 ELSE 0
        /\ \A y \in Accounts \ {u, c} : x.balance[y] = w.balance[y]
    BY <1>1, <1>2, PaymentOfNothing, PulledOK
  <2>2. Sound(x) /\ x \in Worlds /\ x.rate = world.rate
    BY <1>2, <2>1 DEF After, Sound, SameExcept
  <2>3. \A s \in AllTokens : x.balance[u][s] = w.balance[u][s] /\ x.balance[c][s] = w.balance[c][s]
    <3>1. \A s \in AllTokens : w.balance[u][s] \in Nat /\ w.balance[c][s] \in Nat
      BY <1>1, <1>2, BalanceTyped
    <3> QED
      BY <2>1, <3>1
  <2>4. NoDebt(x, c)
    BY <1>2, <2>1 DEF NoDebt
  <2>5. Worth(x, q, n) = m
    BY <2>2 DEF Worth
  <2>6. x.balance[c][q] = n /\ m <= x.balance[q][t]
    <3>1. x.balance[q] = w.balance[q] /\ w.balance[q][t] \in Nat /\ world.balance[q][t] \in Nat
      BY <1>1, <1>2, <2>1, BalanceTyped
    <3>2. m \in Nat /\ m <= world.balance[q][t]
      BY RatesTyped
    <3>3. w.balance[q][t] >= world.balance[q][t]
      BY <1>2
    <3>4. m <= w.balance[q][t]
      BY <3>1, <3>2, <3>3
    <3> QED
      BY <1>1, <1>2, <2>3, <3>1, <3>4
  <2>7. Redeem(x, c, q, n) # {}
    BY <1>1, <2>2, <2>4, <2>5, <2>6, RedeemPasses
  <2>8. Dispatch(c, call, x) = {Move(y, t, c, u, y.balance[c][t]) : y \in Redeem(x, c, q, n)}
    BY <2>1, <2>2, WithdrawCalled
  <2>9. ASSUME NEW v \in Dispatch(c, call, x) PROVE v \in B
    <3>1. PICK y \in Redeem(x, c, q, n) : v = Move(y, t, c, u, y.balance[c][t])
      BY <2>8
    <3>2. y \in Worlds /\ m \in Nat /\ Exchanged(y, x, c, q, q, n, t, m)
      BY <1>1, <2>2, <2>5, Redeemed
    <3>3. x.balance[c][t] = 0 /\ y.balance[c][t] = m
      <4>1. x.balance[c][t] = 0
        BY <1>1, <2>1 DEF Funded
      <4> QED
        BY <3>2, <4>1 DEF Exchanged
    <3>4. Settled(v, x, c, u) /\ v.balance[u][t] = x.balance[u][t] + m
      BY <1>1, <2>1, <2>2, <2>5, <3>1, RedeemOK
    <3>5. Shift(v, y, t, c, u, m)
      BY <1>1, <3>1, <3>2, <3>3, Moved
    <3>6. v.debt = w.debt
      BY <2>1, <2>2, <3>2, <3>5, RebalancedWorld DEF Exchanged, Shift
    <3>7. Served(v, w, u)
      BY <1>1, <1>2, <2>1, <3>4, SettledAfter, SettledServed
    <3>8. Sound(v) /\ Clean(v) /\ v \in Worlds /\ v.rate = world.rate
      BY <1>2, <3>7 DEF Served, Sound
    <3>9. v.balance[c][q] = 0
      BY <1>1, <2>6, <3>2, <3>5 DEF Exchanged, Shift
    <3>10. \A r \in AllTokens \ {q, t} : v.balance[c][r] = w.balance[c][r]
      BY <1>1, <2>3, <3>2, <3>5 DEF Exchanged, Shift
    <3>11. \A s \in AllTokens \ {t} : v.balance[u][s] = w.balance[u][s]
      BY <1>1, <2>3, <3>2, <3>5 DEF Exchanged, Shift
    <3>12. \A z \in Accounts \ {c, u, q} : v.balance[z] = w.balance[z]
      BY <1>1, <2>1, <3>2, <3>5 DEF Exchanged, Shift
    <3>13. ASSUME NEW r \in Markets
           PROVE  /\ v.debt[c][r] = 0
                  /\ v.balance[c][r] = IF r \in T \cup {q} THEN 0 ELSE Deposited(u, r)
                  /\ v.balance[u][Underlying(r)] =
                       world.balance[u][Underlying(r)] - Owed(u, r)
                         + (IF r \in T \cup {q} THEN Worth(world, r, Deposited(u, r)) ELSE 0)
                  /\ r \notin T \cup {q} =>
                       v.balance[r][Underlying(r)] >= world.balance[r][Underlying(r)]
      <4>1. /\ r \in AllTokens /\ r # t /\ r \in Accounts \ {c, u} /\ Underlying(r) \in AllTokens
        BY <1>1, MarketsTyped, Distinct, OwnTyped
      <4>2. v.debt[c][r] = 0
        BY <1>2, <3>6
      <4>3. CASE r = q
        <5>1. w.balance[u][t] = world.balance[u][t] - Owed(u, q) + 0
          BY <1>2
        <5>2. v.balance[u][t] = w.balance[u][t] + m /\ w.balance[u][t] \in Nat
          BY <1>1, <1>2, <2>3, <3>4, BalanceTyped
        <5>3. Owed(u, q) \in Nat /\ world.balance[u][t] \in Nat
          BY <1>1, BalanceTyped DEF Owed, Worlds
        <5>4. v.balance[u][t] = world.balance[u][t] - Owed(u, q) + m
          BY <3>2, <5>1, <5>2, <5>3
        <5> QED
          BY <3>9, <4>2, <4>3, <5>4
      <4>4. CASE r # q
        <5>1. Underlying(r) # t
          BY <4>4, OtherUnderlying
        <5>2. v.balance[c][r] = w.balance[c][r] /\ v.balance[r] = w.balance[r]
          BY <3>10, <3>12, <4>1, <4>4
        <5>3. v.balance[u][Underlying(r)] = w.balance[u][Underlying(r)]
          BY <3>11, <4>1, <5>1
        <5> QED
          BY <1>2, <4>2, <4>4, <5>2, <5>3
      <4> QED
        BY <4>3, <4>4
    <3> QED
      BY <3>8, <3>13 DEF OnTheWay
  <2>10. Dispatch(c, call, x) # {}
    BY <2>7, <2>8
  <2> QED
    BY <2>9, <2>10
<1>5. \A x \in TransferFrom(w, u, c, NoTokens) :
        Dispatch(c, call, x) # {} /\ Dispatch(c, call, x) \subseteq B
  BY <1>4
<1> HIDE DEF B
<1>6. AfterStep(u, w, st) # {} /\ AfterStep(u, w, st) \subseteq B
  BY <1>3, <1>5, StepRuns
<1> QED
  BY <1>6 DEF B

\* What is taken out of a set of steps may be taken out of a larger one.
LEMMA MoreSteps ==
  ASSUME NEW S, NEW Z, S \subseteq Z, NEW p \in Seq(S)
  PROVE  p \in Seq(Z)
OBVIOUS

\* All of one debt.
LEMMA RepayAllLeads ==
  ASSUME RegistryOK, NEW u \in Users, NEW q \in Markets, NEW R, q \notin R, world \in Worlds,
         Owed(u, q) <= world.balance[u][Underlying(q)]
  PROVE  /\ Runs(u, OnTheWay(u, R, {}), RepayAll(u, q), OnTheWay(u, R \cup {q}, {}))
         /\ \E S : RepayAll(u, q) \in Seq(S)
<1> DEFINE t == Underlying(q)
           n == Owed(u, q)
           call == IF q = QiAvax THEN [action |-> "repayAVAX", value |-> n]
                   ELSE [action |-> "repay", qToken |-> q, amount |-> n]
           e == ExecuteStep(Benqi, call, Pay(t, n), now)
           a == ApproveStep(t, n)
           A == OnTheWay(u, R, {})
           M == {w \in A : n <= w.allowance[u][t]}
           B == OnTheWay(u, R \cup {q}, {})
           p == RepayAll(u, q)
<1>1. n \in Nat
  <2>1. Own(Benqi, u) \in Borrowers
    BY OwnTyped DEF Protocols
  <2> QED
    BY <2>1 DEF Owed, Worlds
<1>2. Base!AdapterFor(Benqi, u) = Own(Benqi, u)
  BY OwnAdapter DEF Protocols
<1>3. p = IF n = 0 THEN <<>> ELSE RepayBundle([qToken |-> q, amount |-> n], 0)
  BY <1>2 DEF RepayAll, Owed
<1>4. CASE n = 0
  <2>1. A \subseteq B
    BY <1>4 DEF OnTheWay
  <2>2. p = <<>>
    BY <1>3, <1>4
  <2> HIDE DEF A, B, p
  <2>3. Runs(u, A, <<>>, B) /\ <<>> \in Seq({a})
    BY <2>1, NoStep
  <2> QED
    BY <2>2, <2>3 DEF A, B, p
<1>5. CASE n # 0 /\ q = QiAvax
  <2>1. t = Avax
    BY <1>5 DEF Underlying
  <2>2. p = <<e>>
    BY <1>3, <1>5, <2>1 DEF RepayBundle, Paid, Direct
  <2>3. ASSUME NEW w \in A
        PROVE  AfterStep(u, w, e) # {} /\ AfterStep(u, w, e) \subseteq B
    <3>1. n \in Nat \ {0} /\ call = [action |-> "repayAVAX", value |-> n]
      BY <1>1, <1>5
    <3> HIDE DEF call
    <3> QED
      BY <1>5, <2>1, <3>1, RepayLeads
  <2> HIDE DEF A, B, p, e
  <2>4. Runs(u, A, <<e>>, B) /\ <<e>> \in Seq({e})
    BY <2>3, OneStep
  <2> QED
    BY <2>2, <2>4 DEF A, B, p
<1>6. CASE n # 0 /\ q # QiAvax
  <2>1. p = <<a>> \o <<e>>
    <3>1. p = addApproveIfNeeded(t, 0, n) \o <<e>>
      BY <1>3, <1>6 DEF RepayBundle, Pulled, Direct
    <3>2. 0 < n
      BY <1>1, <1>6
    <3> QED
      BY <3>1, <3>2 DEF addApproveIfNeeded
  <2>2. \A w \in A : AfterStep(u, w, a) # {} /\ AfterStep(u, w, a) \subseteq M
    BY <1>1, ApproveLeads
  <2>3. ASSUME NEW w \in M
        PROVE  AfterStep(u, w, e) # {} /\ AfterStep(u, w, e) \subseteq B
    <3>1. n \in Nat \ {0} /\ call = [action |-> "repay", qToken |-> q, amount |-> n]
      BY <1>1, <1>6
    <3>2. w \in A /\ n <= w.allowance[u][t]
      OBVIOUS
    <3> HIDE DEF call
    <3> QED
      BY <1>6, <3>1, <3>2, RepayLeads
  <2> HIDE DEF A, B, M, p, a, e
  <2>4. Runs(u, A, <<a>>, M) /\ Runs(u, M, <<e>>, B)
    BY <2>2, <2>3, OneStep
  <2>5. <<a>> \in Seq({a, e}) /\ <<e>> \in Seq({a, e})
    OBVIOUS
  <2>6. Runs(u, A, <<a>> \o <<e>>, B) /\ <<a>> \o <<e>> \in Seq({a, e})
    BY <2>4, <2>5, StepsThen, Together
  <2> QED
    BY <2>1, <2>6 DEF A, B, p
<1> QED
  BY <1>4, <1>5, <1>6

\* All of one deposit.
LEMMA WithdrawAllLeads ==
  ASSUME RegistryOK, NEW u \in Users, NEW q \in Markets, NEW T, q \notin T, world \in Worlds,
         Worth(world, q, Deposited(u, q)) <= world.balance[q][Underlying(q)]
  PROVE  /\ Runs(u, OnTheWay(u, Markets, T), WithdrawAll(u, q), OnTheWay(u, Markets, T \cup {q}))
         /\ \E S : WithdrawAll(u, q) \in Seq(S)
<1> DEFINE n == Deposited(u, q)
           call == IF q = QiAvax
                THEN [action |-> "redeemAVAX", qTokenAmount |-> n, recipient |-> u]
                ELSE [action |-> "redeem", qToken |-> q, qTokenAmount |-> n, recipient |-> u]
           e == ExecuteStep(Benqi, call, NoTokens, now)
           A == OnTheWay(u, Markets, T)
           B == OnTheWay(u, Markets, T \cup {q})
           p == WithdrawAll(u, q)
<1>1. n \in Nat
  BY OwnTyped, MarketsTyped, BalanceTyped DEF Deposited, Protocols
<1>2. Base!AdapterFor(Benqi, u) = Own(Benqi, u)
  BY OwnAdapter DEF Protocols
<1>3. p = IF n = 0 THEN <<>> ELSE <<e>>
  <2> DEFINE r == [kind |-> "withdraw", qToken |-> q, amount |-> n]
  <2>1. OwnCall(u, r) = Unpaid(Benqi, call)
    BY DEF OwnCall
  <2>2. OwnCall(u, r) = <<e>>
    BY <2>1 DEF Unpaid, Direct
  <2>3. p = IF n = 0 THEN <<>> ELSE OwnCall(u, r)
    BY <1>2 DEF WithdrawAll, Deposited
  <2> QED
    BY <2>2, <2>3
<1>4. CASE n = 0
  <2>1. Worth(world, q, n) = 0
    <3>1. world.rate[q] \in Nat /\ Scale \in Nat \ {0}
      BY RatesTyped
    <3>2. n * world.rate[q] = 0
      BY <1>4, <3>1
    <3>3. 0 \div Scale = 0
      BY <3>1
    <3> QED
      BY <3>2, <3>3 DEF Worth
  <2>2. A \subseteq B
    BY <1>4, <2>1 DEF OnTheWay
  <2>3. p = <<>>
    BY <1>3, <1>4
  <2> HIDE DEF A, B, p
  <2>4. Runs(u, A, <<>>, B) /\ <<>> \in Seq({e})
    BY <2>2, NoStep
  <2> QED
    BY <2>3, <2>4 DEF A, B, p
<1>5. CASE n # 0
  <2>1. p = <<e>>
    BY <1>3, <1>5
  <2>2. ASSUME NEW w \in A
        PROVE  AfterStep(u, w, e) # {} /\ AfterStep(u, w, e) \subseteq B
    <3>1. /\ n \in Nat \ {0}
          /\ \/ /\ q # QiAvax
                /\ call = [action |-> "redeem", qToken |-> q, qTokenAmount |-> n, recipient |-> u]
             \/ /\ q = QiAvax
                /\ call = [action |-> "redeemAVAX", qTokenAmount |-> n, recipient |-> u]
      BY <1>1, <1>5
    <3> HIDE DEF call
    <3> QED
      BY <3>1, WithdrawLeads
  <2> HIDE DEF A, B, p, e
  <2>3. Runs(u, A, <<e>>, B) /\ <<e>> \in Seq({e})
    BY <2>2, OneStep
  <2> QED
    BY <2>1, <2>3 DEF A, B, p
<1> QED
  BY <1>4, <1>5

\* Debts that can be paid and collateral that is there come back together.
LEMMA UnwindLeads ==
  ASSUME RegistryOK, Sound(world), Clean(world), NEW u \in Users,
         \A q \in Markets : /\ Owed(u, q) <= world.balance[u][Underlying(q)]
                            /\ Worth(world, q, Deposited(u, q)) <= world.balance[q][Underlying(q)],
         NEW steps, steps = RepayAll(u, QiAvax) \o RepayAll(u, QiUsdc)
                              \o WithdrawAll(u, QiAvax) \o WithdrawAll(u, QiUsdc)
  PROVE  AfterSteps(u, steps) # {} /\ AfterSteps(u, steps) \subseteq OnTheWay(u, Markets, Markets)
<1> DEFINE p1 == RepayAll(u, QiAvax)
           p2 == RepayAll(u, QiUsdc)
           p3 == WithdrawAll(u, QiAvax)
           p4 == WithdrawAll(u, QiUsdc)
           Way(R, T) == OnTheWay(u, R, T)
<1>1. RegistryOK /\ Sound(world) /\ Clean(world) /\ world \in Worlds
  BY DEF Sound
<1>2. QiAvax # QiUsdc /\ Markets = {QiAvax, QiUsdc} /\ Markets = {QiAvax} \cup {QiUsdc}
  BY Distinct
<1>3. world \in Way({}, {})
  <2>1. ASSUME NEW q \in Markets
        PROVE  world.balance[u][Underlying(q)] - 0 + 0 = world.balance[u][Underlying(q)]
    <3>1. u \in Accounts /\ Underlying(q) \in AllTokens
      BY OwnTyped, MarketsTyped DEF Protocols
    <3>2. world.balance[u][Underlying(q)] \in Nat
      BY <1>1, <3>1, BalanceTyped
    <3> QED
      BY <3>2
  <2>2. ASSUME NEW q \in Markets
        PROVE  world.balance[q][Underlying(q)] >= world.balance[q][Underlying(q)]
    <3>1. world.balance[q][Underlying(q)] \in Nat
      BY <1>1, MarketsTyped, BalanceTyped
    <3> QED
      BY <3>1
  <2> QED
    BY <1>1, <2>1, <2>2 DEF OnTheWay, Owed, Deposited
<1>4. /\ Runs(u, Way({}, {}), p1, Way({} \cup {QiAvax}, {}))
      /\ \E S : p1 \in Seq(S)
  BY <1>1, <1>2, RepayAllLeads
<1>5. /\ Runs(u, Way({QiAvax}, {}), p2, Way({QiAvax} \cup {QiUsdc}, {}))
      /\ \E S : p2 \in Seq(S)
  BY <1>1, <1>2, RepayAllLeads
<1>6. /\ Runs(u, Way(Markets, {}), p3, Way(Markets, {} \cup {QiAvax}))
      /\ \E S : p3 \in Seq(S)
  BY <1>1, <1>2, WithdrawAllLeads
<1>7. /\ Runs(u, Way(Markets, {QiAvax}), p4, Way(Markets, {QiAvax} \cup {QiUsdc}))
      /\ \E S : p4 \in Seq(S)
  BY <1>1, <1>2, WithdrawAllLeads
<1>8. PICK S : p1 \in Seq(S) /\ p2 \in Seq(S) /\ p3 \in Seq(S) /\ p4 \in Seq(S)
  <2> HIDE DEF p1, p2, p3, p4
  <2>1. PICK S1 : p1 \in Seq(S1)
    BY <1>4
  <2>2. PICK S2 : p2 \in Seq(S2)
    BY <1>5
  <2>3. PICK S3 : p3 \in Seq(S3)
    BY <1>6
  <2>4. PICK S4 : p4 \in Seq(S4)
    BY <1>7
  <2> DEFINE Z == S1 \cup S2 \cup S3 \cup S4
  <2>5. S1 \subseteq Z /\ S2 \subseteq Z /\ S3 \subseteq Z /\ S4 \subseteq Z
    OBVIOUS
  <2> HIDE DEF Z
  <2>6. p1 \in Seq(Z) /\ p2 \in Seq(Z) /\ p3 \in Seq(Z) /\ p4 \in Seq(Z)
    BY <2>1, <2>2, <2>3, <2>4, <2>5, MoreSteps
  <2> QED
    BY <2>6
<1> DEFINE W0 == Way({}, {})
           W1 == Way({QiAvax}, {})
           W2 == Way(Markets, {})
           W3 == Way(Markets, {QiAvax})
           W4 == Way(Markets, Markets)
<1>9. /\ Runs(u, W0, p1, W1) /\ Runs(u, W1, p2, W2)
      /\ Runs(u, W2, p3, W3) /\ Runs(u, W3, p4, W4) /\ {world} \subseteq W0
  <2>1. {} \cup {QiAvax} = {QiAvax}
    OBVIOUS
  <2> HIDE DEF p1, p2, p3, p4
  <2> QED
    BY <1>2, <1>3, <1>4, <1>5, <1>6, <1>7, <2>1
<1> HIDE DEF p1, p2, p3, p4, W0, W1, W2, W3, W4
<1>10. Runs(u, {world}, p1, W1)
  <2>1. ASSUME NEW W, W0 \subseteq W[0] PROVE {world} \subseteq W[0]
    BY <1>9, <2>1
  <2> QED
    BY <1>9, <2>1 DEF Runs
<1>11. Runs(u, {world}, p1 \o p2, W2) /\ p1 \o p2 \in Seq(S)
  BY <1>8, <1>9, <1>10, StepsThen, Together
<1>12. Runs(u, {world}, p1 \o p2 \o p3, W3) /\ p1 \o p2 \o p3 \in Seq(S)
  BY <1>8, <1>9, <1>11, StepsThen, Together
<1>13. Runs(u, {world}, p1 \o p2 \o p3 \o p4, W4) /\ p1 \o p2 \o p3 \o p4 \in Seq(S)
  BY <1>8, <1>9, <1>12, StepsThen, Together
<1>14. steps = p1 \o p2 \o p3 \o p4
  BY DEF p1, p2, p3, p4
<1>15. AfterSteps(u, steps) # {} /\ AfterSteps(u, steps) \subseteq W4
  BY <1>13, <1>14, RunsLead
<1> QED
  BY <1>15 DEF W4

-----------------------------------------------------------------------------
(* The theorems                                                            *)

Invariant == RegistryOK /\ SessionsOK /\ Sound(world) /\ Clean(world) /\ PoolInv

\* Unless interest accrues, whoever's position changes is signing a step.
OwnStep ==
    \A u \in Users :
        world'.rate = world.rate /\ Position(world', u) # Position(world, u) =>
            \E s \in Sessions : userOf[s] = u /\ At(s, "signing") /\ session'[s] # session[s]

\* A redemption that is signed is fair.
FairStep ==
    \A s \in Sessions :
        /\ At(s, "signing") /\ session[s].request.kind = "redeem"
        /\ NextStep(s).kind = "execute" /\ session'[s] # session[s] /\ world' # world
        => LET r == session[s].request
               t == Underlying(r.qToken)
           IN  Fair(r, session[s].seen, world'.balance[userOf[s]][t] - world.balance[userOf[s]][t],
                    world.rate[r.qToken])

\* It holds at the start.
LEMMA InvariantInit == AvalancheInit => Invariant
<1> SUFFICES ASSUME AvalancheInit PROVE Invariant
  OBVIOUS
<1>1. Init /\ Pool!Init
  BY DEF AvalancheInit
<1>2. userOf \in [Sessions -> Users] /\ session = [s \in Sessions |-> Idle]
  BY <1>1 DEF Init
<1>3. SessionsOK
  BY <1>2, DoneOK DEF SessionsOK
<1> QED
  BY <1>1, <1>3, RegistryInit, WorldInit, PoolInitInv DEF Invariant

\* A step that serves somebody else leaves a user's position alone.
LEMMA SamePosition ==
  ASSUME NEW w, NEW v, NEW d, Served(v, w, d), NEW u \in Users \ {d}
  PROVE  Position(v, u) = Position(w, u)
<1> DEFINE own == {c \in Adapters : c.user = u}
<1>1. v.balance[u] = w.balance[u]
  BY DEF Served
<1>2. \A c \in own : /\ v.balance[c] = w.balance[c] /\ v.debt[c] = w.debt[c]
                     /\ v.entered[c] = w.entered[c] /\ v.requests[c] = w.requests[c]
                     /\ v.slots[c] = w.slots[c]
  BY DEF Served
<1> HIDE DEF own
<1>3. /\ [c \in own |-> v.balance[c]] = [c \in own |-> w.balance[c]]
      /\ [c \in own |-> v.debt[c]] = [c \in own |-> w.debt[c]]
      /\ [c \in own |-> v.entered[c]] = [c \in own |-> w.entered[c]]
      /\ [c \in own |-> v.requests[c]] = [c \in own |-> w.requests[c]]
      /\ [c \in own |-> v.slots[c]] = [c \in own |-> w.slots[c]]
  BY <1>2
<1>4. \A x : Position(x, u) =
         <<x.balance[u], [c \in own |-> x.balance[c]], [c \in own |-> x.debt[c]],
           [c \in own |-> x.entered[c]], [c \in own |-> x.requests[c]], [c \in own |-> x.slots[c]]>>
  BY Zenon DEF Position, own
<1> QED
  BY <1>1, <1>3, <1>4

\* What a step does to the proxies' part of the invariant.
Step == /\ RegistryOK' /\ SessionsOK' /\ Sound(world)' /\ Clean(world)' /\ OwnStep

\* A step of somebody who is served.
LEMMA ServedStep ==
  ASSUME Invariant, RegistryOK', SessionsOK', NEW d, Served(world', world, d),
         d \in Users => \E s \in Sessions : userOf[s] = d /\ At(s, "signing") /\ session'[s] # session[s]
  PROVE  Step
<1>1. Sound(world)' /\ Clean(world)'
  BY DEF Served
<1>2. OwnStep
  BY SamePosition DEF OwnStep
<1> QED
  BY <1>1, <1>2 DEF Step

\* A step that is not about the chain.
LEMMA QuietStep ==
  ASSUME Invariant, SessionsOK', UNCHANGED <<chainVars, world>>
  PROVE  Step
<1>1. RegistryOK' /\ Sound(world)' /\ Clean(world)'
  BY RegistryStays DEF Invariant
<1> QED
  BY <1>1 DEF Step, OwnStep

\* Every step keeps it, and the positions of those who do not sign.
LEMMA InvariantStep ==
  ASSUME Invariant, [Next]_vars
  PROVE  Step
<1>1. RegistryOK /\ SessionsOK /\ Sound(world) /\ Clean(world)
  BY DEF Invariant
<1>2. ASSUME NEW s \in Sessions, Begin(s) PROVE Step
  BY <1>1, <1>2, BeginOK, QuietStep
<1>3. ASSUME NEW s \in Sessions, PreparationFails(s) \/ abandonBundle(s) PROVE Step
  BY <1>1, <1>3, BrokenOff, QuietStep
<1>4. ASSUME NEW s \in Sessions, readExchangeRate(s) \/ readQTokenBalance(s) PROVE Step
  BY <1>1, <1>4, ReadsOK, QuietStep
<1>5. ASSUME NEW s \in Sessions, getQuoteWithHop(s) PROVE Step
  BY <1>1, <1>5, QuoteOK, QuietStep
<1>6. ASSUME NEW s \in Sessions, checkAllowance(s) PROVE Step
  BY <1>1, <1>6, AllowanceOK, QuietStep
<1>7. ASSUME NEW s \in Sessions, signApprove(s) \/ signExecute(s) \/ signShared(s) PROVE Step
  <2>1. /\ SessionsOK' /\ RegistryOK' /\ session'[s] # session[s]
        /\ Served(world', world, userOf[s])
    BY <1>1, <1>7, ApproveOK, ExecuteOK, SharedOK
  <2>2. At(s, "signing")
    BY <1>7 DEF signApprove, signExecute, signShared
  <2> QED
    BY <2>1, <2>2, ServedStep
<1>8. Market \notin Users
  BY Distinct DEF Panorama
<1>9. ASSUME Served(world', world, Market), Elsewhere PROVE Step
  <2>1. RegistryOK' /\ Later(world', world) /\ UNCHANGED <<userOf, session>>
    BY <1>1, <1>9, RegistryStays, SameLater DEF Elsewhere, Served
  <2>2. SessionsOK'
    BY <1>1, <2>1, SessionsStay
  <2> QED
    BY <1>8, <1>9, <2>1, <2>2, ServedStep
<1>10. CASE AccrueInterest
  <2>1. PICK q \in Markets : world.rate[q] < MaxRate /\ world' = Accrue(world, q)
    BY <1>10 DEF AccrueInterest
  <2>2. /\ Sound(world') /\ Clean(world') /\ world'.rate # world.rate
        /\ \A m \in Markets : world.rate[m] <= world'.rate[m]
    BY <1>1, <2>1, Accrued
  <2>3. RegistryOK' /\ UNCHANGED <<userOf, session>>
    BY <1>1, <1>10, RegistryStays DEF AccrueInterest, Elsewhere
  <2>4. SessionsOK'
    BY <1>1, <2>2, <2>3, SessionsStay DEF Later
  <2> QED
    BY <2>2, <2>3, <2>4 DEF Step, OwnStep
<1>11. CASE MarketTrade
  <2>1. PICK t \in MarketTrades : world' \in SwapExact(world, Market, t[1], t[2], 0, Market)
    BY <1>11 DEF MarketTrade
  <2>2. t[1] \in Paths /\ t[2] \in Nat
    <3>1. t \in Paths \X Nat
      BY AvaxAssumption
    <3> QED
      BY <3>1
  <2>3. Served(world', world, Market)
    BY <1>1, <2>1, <2>2, MarketTraded
  <2> QED
    BY <1>9, <1>11, <2>3 DEF MarketTrade
<1>12. CASE CoolDown
  <2>1. Served(world', world, Market)
    BY <1>1, <1>12, CooledDown DEF CoolDown
  <2> QED
    BY <1>9, <1>12, <2>1 DEF CoolDown
<1>13. CASE UNCHANGED vars
  <2>1. UNCHANGED <<chainVars, world>> /\ UNCHANGED <<userOf, session>> /\ Later(world', world)
    BY <1>1, <1>13, SameLater DEF vars
  <2> QED
    BY <1>1, <2>1, SessionsStay, QuietStep
<1>14. CASE Next
  BY <1>2, <1>3, <1>4, <1>5, <1>6, <1>7, <1>10, <1>11, <1>12, <1>14 DEF Next
<1> QED
  BY <1>13, <1>14

\* Only a signed call does two things at once to a session and to the chain while a call is
\* the session's next step.
LEMMA OnlyExecuted ==
  ASSUME SessionsOK, [Next]_vars, NEW s \in Sessions, At(s, "signing"),
         NextStep(s).kind = "execute", session'[s] # session[s], world' # world
  PROVE  signExecute(s)
<1>1. DOMAIN session = Sessions
  BY DEF SessionsOK
<1>2. ASSUME NEW o \in Sessions, \E x : session' = [session EXCEPT ![o] = x] PROVE o = s
  BY <1>1, <1>2
<1>3. ~UNCHANGED vars /\ Next
  BY DEF vars
<1>4. ~AccrueInterest /\ ~MarketTrade /\ ~CoolDown
  BY DEF AccrueInterest, MarketTrade, CoolDown, Elsewhere
<1>5. ASSUME NEW o \in Sessions, NEW x, Backend(o, x) PROVE FALSE
  BY <1>5 DEF Backend
<1>6. PICK o \in Sessions :
         \/ Begin(o) \/ PreparationFails(o) \/ readExchangeRate(o) \/ readQTokenBalance(o)
         \/ getQuoteWithHop(o) \/ checkAllowance(o) \/ signApprove(o) \/ signExecute(o)
         \/ signShared(o) \/ abandonBundle(o)
  BY <1>3, <1>4 DEF Next
<1>7. ~Begin(o) /\ ~PreparationFails(o) /\ ~readExchangeRate(o) /\ ~readQTokenBalance(o)
  BY <1>5 DEF Begin, PreparationFails, readExchangeRate, readQTokenBalance
<1>8. ~getQuoteWithHop(o) /\ ~checkAllowance(o) /\ ~abandonBundle(o)
  BY <1>5 DEF getQuoteWithHop, checkAllowance, abandonBundle
<1>9. signApprove(o) \/ signShared(o) \/ signExecute(o)
  BY <1>6, <1>7, <1>8
<1>10. o = s
  BY <1>2, <1>9 DEF signApprove, signShared, signExecute, StepDone
<1>11. ~signApprove(s) /\ ~signShared(s)
  BY DEF signApprove, signShared
<1> QED
  BY <1>9, <1>10, <1>11

\* Whatever was prepared is redeemed fairly.
LEMMA FairAlways ==
  ASSUME Invariant, [Next]_vars
  PROVE  FairStep
<1> SUFFICES ASSUME NEW s \in Sessions, At(s, "signing"), session[s].request.kind = "redeem",
                    NextStep(s).kind = "execute", session'[s] # session[s], world' # world
             PROVE  LET r == session[s].request
                        t == Underlying(r.qToken)
                    IN  Fair(r, session[s].seen,
                             world'.balance[userOf[s]][t] - world.balance[userOf[s]][t],
                             world.rate[r.qToken])
  BY DEF FairStep
<1>1. signExecute(s)
  BY OnlyExecuted DEF Invariant
<1> QED
  BY <1>1, RedeemedFairly DEF Invariant

\* The proxies and the shared contract do not touch each other.
LEMMA AlwaysInvariant == AvalancheSpec => []Invariant
<1>1. ASSUME Invariant, [AvalancheNext]_avalancheVars PROVE Invariant'
  <2>1. [Next]_vars /\ (Pool!Next \/ UNCHANGED poolVars)
    BY <1>1 DEF AvalancheNext, avalancheVars
  <2>2. Step
    BY <1>1, <2>1, InvariantStep
  <2>3. PoolInv'
    BY <1>1, <2>1, PoolKeepsInv DEF Invariant
  <2> QED
    BY <2>2, <2>3 DEF Invariant, Step
<1>2. Invariant /\ [AvalancheNext]_avalancheVars => Invariant'
  BY <1>1
<1> QED
  BY <1>2, InvariantInit, PTL DEF AvalancheSpec

\* No balance, debt, allowance or rate leaves its range, and every session is in order.
THEOREM TypeCorrect == AvalancheSpec => []TypeOK
<1>1. Invariant => TypeOK
  <2> SUFFICES ASSUME Invariant PROVE TypeOK
    OBVIOUS
  <2>1. Base!TypeOK /\ world \in Worlds /\ userOf \in [Sessions -> Users]
    BY DEF Invariant, RegistryOK, Sound, SessionsOK
  <2>2. \A s \in Sessions : /\ session[s].phase \in Phases /\ session[s].seen \in Seen
                            /\ At(s, "signing") <=> session[s].steps # <<>>
    BY DEF Invariant, SessionsOK, SessionOK, At
  <2> QED
    BY <2>1, <2>2 DEF TypeOK
<1> QED
  BY <1>1, AlwaysInvariant, PTL

\* Until a request other than the last was redeemed, every slot leads to the request it
\* was made for, in the proxies and in the shared contract.
THEOREM SlotsLeadToRequestsHolds == AvalancheSpec => []SlotsLeadToRequests
<1>1. Invariant => SlotsLeadToRequests
  <2> SUFFICES ASSUME Invariant PROVE SlotsLeadToRequests
    OBVIOUS
  <2>1. SlotsExactUntilReordered
    BY DEF Invariant, Sound, SlotsOK, SlotsExactUntilReordered
  <2> QED
    BY <2>1, PoolPromises DEF Invariant, SlotsLeadToRequests
<1> QED
  BY <1>1, AlwaysInvariant, PTL

\* Whatever is prepared, signed, interleaved or broken off, nothing stays in an adapter, in
\* the executor or in a shared contract but the qTokens users deposited in their adapters.
THEOREM ProxyKeepsNothingHolds == AvalancheSpec => []ProxyKeepsNothing
<1>1. Invariant => ProxyKeepsNothing
  <2> SUFFICES ASSUME Invariant PROVE ProxyKeepsNothing
    OBVIOUS
  <2>1. Clean(world)
    BY DEF Invariant
  <2>2. \A c \in Adapters, t \in AllTokens :
          (c.protocol = Benqi /\ t \in Markets) \/ world.balance[c][t] = 0
    BY <2>1 DEF Clean, Funded
  <2>3. \A c \in {Executor, Lend, Swap}, t \in AllTokens : world.balance[c][t] = 0
    BY <2>1 DEF Clean, Empty
  <2> QED
    BY <2>1, <2>2, <2>3 DEF ProxyKeepsNothing, Clean, NoDebt
<1> QED
  BY <1>1, AlwaysInvariant, PTL

\* Apart from interest, what a user has changes only in a step that user signs, also where
\* users share a contract.
THEOREM OwnStepsOnlyHolds == AvalancheSpec => OwnStepsOnly
<1>1. ASSUME Invariant, [AvalancheNext]_avalancheVars PROVE OwnStep
  <2>1. [Next]_vars
    BY <1>1 DEF AvalancheNext, avalancheVars
  <2> QED
    BY <1>1, <2>1, InvariantStep DEF Step
<1>2. Invariant /\ [AvalancheNext]_avalancheVars => [OwnStep]_vars
  BY <1>1
<1>3. []Invariant /\ [][AvalancheNext]_avalancheVars => [][OwnStep]_vars
  BY <1>2, PTL
<1>4. AvalancheSpec => [][OwnStep]_vars
  BY <1>3, AlwaysInvariant, PTL DEF AvalancheSpec
<1> QED
  BY <1>4 DEF OwnStepsOnly, OwnStep

\* Whoever asked to redeem an amount gets it, with at most the interest since the rate was
\* read, and at least up to a rounding, unless all that the wallet was seen to hold is
\* redeemed.
THEOREM RedeemIsFairHolds == AvalancheSpec => RedeemIsFair
<1>1. ASSUME Invariant, [AvalancheNext]_avalancheVars PROVE FairStep
  <2>1. [Next]_vars
    BY <1>1 DEF AvalancheNext, avalancheVars
  <2> QED
    BY <1>1, <2>1, FairAlways
<1>2. Invariant /\ [AvalancheNext]_avalancheVars => [FairStep]_vars
  BY <1>1
<1>3. []Invariant /\ [][AvalancheNext]_avalancheVars => [][FairStep]_vars
  BY <1>2, PTL
<1>4. AvalancheSpec => [][FairStep]_vars
  BY <1>3, AlwaysInvariant, PTL DEF AvalancheSpec
<1> QED
  BY <1>4 DEF RedeemIsFair, FairStep, Fair

\* Whatever a user deposited, borrowed, entered, left or broke off before, repaying the
\* debts the wallet can pay and then withdrawing gives back all collateral and leaves no
\* debt, if the markets have the cash.
THEOREM UnwindAlwaysWorksHolds == AvalancheSpec => []UnwindAlwaysWorks
<1>1. Invariant => UnwindAlwaysWorks
  <2> SUFFICES ASSUME Invariant, NEW u \in Users,
                      \A q \in Markets :
                         /\ world.balance[u][Underlying(q)] >=
                              world.debt[Base!AdapterFor(Benqi, u)][q]
                         /\ world.balance[q][Underlying(q)] >=
                              Worth(world, q, world.balance[Base!AdapterFor(Benqi, u)][q])
               PROVE  LET a == Base!AdapterFor(Benqi, u)
                          after == AfterSteps(u, RepayAll(u, QiAvax) \o RepayAll(u, QiUsdc)
                                              \o WithdrawAll(u, QiAvax) \o WithdrawAll(u, QiUsdc))
                      IN  /\ after # {}
                          /\ \A w \in after : \A q \in Markets :
                               /\ w.debt[a][q] = 0 /\ w.balance[a] = NoTokens
                               /\ w.balance[u][Underlying(q)] =
                                    world.balance[u][Underlying(q)] - world.debt[a][q]
                                      + Worth(world, q, world.balance[a][q])
    BY DEF UnwindAlwaysWorks
  <2> DEFINE a == Base!AdapterFor(Benqi, u)
             steps == RepayAll(u, QiAvax) \o RepayAll(u, QiUsdc)
                        \o WithdrawAll(u, QiAvax) \o WithdrawAll(u, QiUsdc)
             after == AfterSteps(u, steps)
  <2>1. RegistryOK /\ a = Own(Benqi, u) /\ a \in Adapters /\ a \in Accounts /\ a \in Borrowers
        /\ u \in Accounts /\ world \in Worlds
    <3>1. Benqi \in Protocols /\ RegistryOK /\ world \in Worlds
      BY DEF Protocols, Invariant, Sound
    <3> QED
      BY <3>1, OwnAdapter, OwnTyped
  <2>2. \A q \in Markets : /\ Owed(u, q) = world.debt[a][q]
                           /\ Deposited(u, q) = world.balance[a][q]
    BY <2>1 DEF Owed, Deposited
  <2>3. ASSUME NEW q \in Markets
        PROVE  /\ Owed(u, q) <= world.balance[u][Underlying(q)]
               /\ Worth(world, q, Deposited(u, q)) <= world.balance[q][Underlying(q)]
    <3>1. /\ Owed(u, q) \in Nat /\ Deposited(u, q) \in Nat
          /\ world.balance[u][Underlying(q)] \in Nat
          /\ world.balance[q][Underlying(q)] \in Nat
      BY <2>1, <2>2, MarketsTyped, BalanceTyped DEF Worlds
    <3>2. Worth(world, q, Deposited(u, q)) \in Nat
      BY <2>1, <3>1, RatesTyped
    <3> QED
      BY <2>2, <3>1, <3>2
  <2>4. after # {} /\ after \subseteq OnTheWay(u, Markets, Markets)
    BY <2>3, UnwindLeads DEF Invariant
  <2>5. ASSUME NEW w \in after PROVE w.balance[a] = NoTokens
    <3>1. w \in Worlds /\ Clean(w) /\ \A q \in Markets : w.balance[a][q] = 0
      BY <2>1, <2>4 DEF OnTheWay
    <3>2. \A t \in AllTokens : w.balance[a][t] = 0
      BY <2>1, <3>1 DEF Clean, Funded
    <3>3. w.balance[a] \in [AllTokens -> Nat]
      BY <2>1, <3>1 DEF Worlds
    <3> QED
      BY <3>2, <3>3 DEF NoTokens
  <2>6. ASSUME NEW w \in after, NEW q \in Markets
        PROVE  /\ w.debt[a][q] = 0
               /\ w.balance[u][Underlying(q)] =
                    world.balance[u][Underlying(q)] - world.debt[a][q]
                      + Worth(world, q, world.balance[a][q])
    BY <2>1, <2>2, <2>4 DEF OnTheWay
  <2> QED
    BY <2>4, <2>5, <2>6
<1> QED
  BY <1>1, AlwaysInvariant, PTL
=============================================================================
