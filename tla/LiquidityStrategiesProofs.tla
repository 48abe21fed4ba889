---------------------- MODULE LiquidityStrategiesProofs -----------------------
(***************************************************************************)
(* What the liquidity strategies leave behind and to whom, for any number  *)
(* of users, sessions, requests and amounts, and any price of the pool.    *)
(*                                                                         *)
(* The provers have no induction whose statement is a parameter; where the *)
(* lemmas on sums need one, they take the smallest counterexample.         *)
(***************************************************************************)
EXTENDS LiquidityStrategies, FiniteSetTheorems, TLAPS

-----------------------------------------------------------------------------
(* Sums                                                                    *)

\* Among the subsets of a finite set there is a smallest one of a kind.
LEMMA SmallestSubset ==
  ASSUME NEW S, IsFiniteSet(S), NEW T, T \subseteq SUBSET S, T # {}
  PROVE  \E s \in T : \A r \in T : r \subseteq s => r = s
<1>1. T \subseteq FiniteSubsetsOf(S)
  BY FS_FiniteSubsetsOfFinite
<1>2. \E s \in T : \A r \in T : ~(<<r, s>> \in StrictSubsetOrdering(S))
  BY <1>1, FS_StrictSubsetOrderingWellFounded, WFMin
<1> QED
  BY <1>2 DEF StrictSubsetOrdering

\* Among natural numbers, too.
LEMMA SmallestNumber ==
  ASSUME NEW T, T \subseteq Nat, T # {}
  PROVE  \E m \in T : \A n \in T : m <= n
<1> DEFINE less == OpToRel(<, Nat)
<1>1. IsWellFoundedOn(less, Nat)
  BY NatLessThanWellFounded, Zenon
<1>2. \A n, m \in Nat : n < m => <<n, m>> \in less
  BY DEF OpToRel
<1> HIDE DEF less
<1>3. PICK m \in T : \A n \in T : ~(<<n, m>> \in less)
  BY <1>1, WFMin, Zenon
<1>4. ASSUME NEW n \in T PROVE m <= n
  <2>1. m \in Nat /\ n \in Nat /\ ~(n < m)
    BY <1>2, <1>3
  <2> QED
    BY <2>1
<1> QED
  BY <1>4

Pick(s) == CHOOSE x \in s : TRUE

PartOf(f, g, s) == IF s = {} THEN 0 ELSE f[Pick(s)] + g[s \ {Pick(s)}]

\* What is picked is an element.
LEMMA Picked == \A s : s # {} => Pick(s) \in s
BY DEF Pick

\* The sums of f over the subsets of S, as SumFunctionOnSet computes them.
Sums(f, S) == CHOOSE g : g = [s \in SUBSET S |-> PartOf(f, g, s)]

\* They are the sums of the community modules.
LEMMA SumFunctionIsSum ==
  ASSUME NEW f
  PROVE  /\ SumFunction(f) = Sums(f, DOMAIN f)[DOMAIN f]
         /\ \A S : SumFunctionOnSet(f, S) = Sums(f, S)[S]
BY DEF SumFunction, SumFunctionOnSet, FoldFunctionOnSet, MapThenFoldSet, Sums, PartOf, Pick

\* The sums satisfy their recursion.
LEMMA SumsAreDefined ==
  ASSUME NEW S, IsFiniteSet(S), NEW f
  PROVE  Sums(f, S) = [s \in SUBSET S |-> PartOf(f, Sums(f, S), s)]
<1> DEFINE Level(n) == {s \in SUBSET S : Cardinality(s) <= n}
           Defined(n) == \E g : g = [s \in Level(n) |-> PartOf(f, g, s)]
           Bad == {n \in Nat : ~Defined(n)}
<1>1. \A s \in SUBSET S : IsFiniteSet(s) /\ Cardinality(s) \in Nat
  BY FS_Subset, FS_CardinalityType
<1>2. Defined(0)
  <2> DEFINE z == [s \in Level(0) |-> 0]
  <2>1. \A s \in Level(0) : s = {}
    BY <1>1, FS_EmptySet
  <2>2. z = [s \in Level(0) |-> PartOf(f, z, s)]
    BY <2>1 DEF PartOf
  <2> QED
    BY <2>2
<1>3. ASSUME NEW m \in Nat \ {0}, Defined(m - 1) PROVE Defined(m)
  <2>1. PICK g : g = [s \in Level(m - 1) |-> PartOf(f, g, s)]
    BY <1>3
  <2> DEFINE h == [s \in Level(m) |-> PartOf(f, g, s)]
  <2>2. ASSUME NEW s \in Level(m) PROVE PartOf(f, g, s) = PartOf(f, h, s)
    <3>1. CASE s = {}
      BY <3>1 DEF PartOf
    <3>2. CASE s # {}
      <4> DEFINE r == s \ {Pick(s)}
      <4>1. Cardinality(r) = Cardinality(s) - 1
        BY <1>1, <3>2, Picked, FS_RemoveElement
      <4>2. r \in Level(m - 1) /\ r \in Level(m)
        BY <1>1, <4>1
      <4>3. g[r] = PartOf(f, g, r) /\ h[r] = PartOf(f, g, r)
        BY <2>1, <4>2
      <4> QED
        BY <3>2, <4>3 DEF PartOf
    <3> QED
      BY <3>1, <3>2
  <2>3. h = [s \in Level(m) |-> PartOf(f, h, s)]
    BY <2>2
  <2> HIDE DEF h
  <2> QED
    BY <2>3
<1> HIDE DEF Defined
<1>4. Bad = {}
  <2> SUFFICES ASSUME Bad # {} PROVE FALSE
    OBVIOUS
  <2>1. Bad \subseteq Nat
    OBVIOUS
  <2>2. \E m \in Bad : \A n \in Bad : m <= n
    BY <2>1, SmallestNumber
  <2>3. PICK m \in Bad : \A n \in Bad : m <= n
    BY <2>2
  <2>4. m # 0 /\ m - 1 \in Nat /\ m - 1 \notin Bad
    BY <1>2, <2>3
  <2> QED
    BY <1>3, <2>3, <2>4
<1>5. Cardinality(S) \in Nat /\ Level(Cardinality(S)) = SUBSET S
  BY <1>1, FS_Subset, FS_CardinalityType
<1>6. Defined(Cardinality(S))
  BY <1>4, <1>5
<1>7. \E g : g = [s \in SUBSET S |-> PartOf(f, g, s)]
  BY <1>5, <1>6 DEF Defined
<1> QED
  BY <1>7 DEF Sums

\* A function that has numbers on a set.
Counts(f, S) == \A x \in S : f[x] \in Nat

\* F gives the sums of f over the parts of S, whatever part is taken out first.
Adds(F, f, S) ==
    /\ F[{}] = 0
    /\ \A s \in SUBSET S : F[s] \in Nat
    /\ \A s \in SUBSET S : \A x \in s : F[s] = f[x] + F[s \ {x}]

\* A sum does not depend on the order of its parts.
LEMMA SumOfPart ==
  ASSUME NEW S, IsFiniteSet(S), NEW f, Counts(f, S)
  PROVE  Adds(Sums(f, S), f, S)
<1> DEFINE g == Sums(f, S)
           Good(s) == g[s] \in Nat /\ \A x \in s : g[s] = f[x] + g[s \ {x}]
           Bad == {s \in SUBSET S : ~Good(s)}
<1>1. \A s \in SUBSET S : g[s] = PartOf(f, g, s)
  <2>1. g = [s \in SUBSET S |-> PartOf(f, g, s)]
    BY SumsAreDefined
  <2> HIDE DEF g
  <2> QED
    BY <2>1
<1> HIDE DEF g
<1>2. g[{}] = 0
  BY <1>1 DEF PartOf
<1>3. ASSUME NEW s \in SUBSET S, \A r \in SUBSET s : r # s => Good(r)
      PROVE  Good(s)
  <2>1. CASE s = {}
    BY <1>2, <2>1
  <2>2. CASE s # {}
    <3> DEFINE y == Pick(s)
    <3>1. y \in s /\ f[y] \in Nat
      BY <2>2, Picked DEF Counts
    <3>2. g[s] = f[y] + g[s \ {y}]
      BY <1>1, <2>2 DEF PartOf
    <3> HIDE DEF y
    <3>3. g[s \ {y}] \in Nat
      BY <1>3, <3>1
    <3>4. ASSUME NEW x \in s, x # y PROVE g[s] = f[x] + g[s \ {x}]
      <4> DEFINE rest == s \ {x, y}
      <4>1. rest = (s \ {y}) \ {x} /\ rest = (s \ {x}) \ {y} /\ f[x] \in Nat
        BY DEF Counts
      <4>2. Good(s \ {y}) /\ x \in s \ {y}
        BY <1>3, <3>1, <3>4
      <4>3. Good(s \ {x}) /\ y \in s \ {x} /\ Good(rest)
        BY <1>3, <3>1, <3>4
      <4>4. g[s \ {y}] = f[x] + g[rest]
        BY <4>1, <4>2
      <4>5. g[s \ {x}] = f[y] + g[rest] /\ g[rest] \in Nat
        BY <4>1, <4>3
      <4> QED
        BY <3>1, <3>2, <4>1, <4>4, <4>5
    <3>5. g[s] \in Nat /\ g[s] = f[y] + g[s \ {y}]
      BY <3>1, <3>2, <3>3
    <3> QED
      BY <3>4, <3>5
  <2> QED
    BY <2>1, <2>2
<1> HIDE DEF Good
<1>4. Bad = {}
  <2> SUFFICES ASSUME Bad # {} PROVE FALSE
    OBVIOUS
  <2>1. PICK s \in Bad : \A r \in Bad : r \subseteq s => r = s
    <3>1. Bad \subseteq SUBSET S
      OBVIOUS
    <3> HIDE DEF Bad
    <3>2. \E s \in Bad : \A r \in Bad : r \subseteq s => r = s
      BY <3>1, SmallestSubset
    <3> QED
      BY <3>2
  <2> QED
    BY <1>3, <2>1
<1>5. \A s \in SUBSET S : Good(s)
  BY <1>4
<1> QED
  BY <1>2, <1>5 DEF Good, g, Adds

\* Two functions that agree on a set have the same sum over it.
LEMMA SameSum ==
  ASSUME NEW S, NEW T, IsFiniteSet(S), IsFiniteSet(T), NEW f, Counts(f, S),
         NEW g, Counts(g, T), NEW r, r \subseteq S \cap T, \A x \in r : f[x] = g[x]
  PROVE  Sums(f, S)[r] = Sums(g, T)[r]
<1> DEFINE F == Sums(f, S)
           G == Sums(g, T)
           Bad == {s \in SUBSET r : F[s] # G[s]}
<1>1. /\ F[{}] = 0 /\ \A s \in SUBSET S : F[s] \in Nat
      /\ \A s \in SUBSET S : \A x \in s : F[s] = f[x] + F[s \ {x}]
  <2>1. Adds(F, f, S)
    BY SumOfPart
  <2> HIDE DEF F
  <2> QED
    BY <2>1 DEF Adds
<1>2. /\ G[{}] = 0 /\ \A s \in SUBSET T : G[s] \in Nat
      /\ \A s \in SUBSET T : \A x \in s : G[s] = g[x] + G[s \ {x}]
  <2>1. Adds(G, g, T)
    BY SumOfPart
  <2> HIDE DEF G
  <2> QED
    BY <2>1 DEF Adds
<1> HIDE DEF F, G
<1>3. Bad = {}
  <2> SUFFICES ASSUME Bad # {} PROVE FALSE
    OBVIOUS
  <2>1. Bad \subseteq SUBSET r /\ IsFiniteSet(r)
    BY FS_Subset
  <2>2. \E s \in Bad : \A q \in Bad : q \subseteq s => q = s
    <3> HIDE DEF Bad
    <3> QED
      BY <2>1, SmallestSubset
  <2>3. PICK s \in Bad : \A q \in Bad : q \subseteq s => q = s
    BY <2>2
  <2>4. s # {} /\ s \subseteq r
    BY <1>1, <1>2
  <2>5. PICK x \in s : TRUE
    BY <2>4
  <2>6. s \ {x} \notin Bad
    BY <2>3, <2>5
  <2>7. F[s \ {x}] = G[s \ {x}]
    BY <2>4, <2>6
  <2>8. F[s] = f[x] + F[s \ {x}] /\ G[s] = g[x] + G[s \ {x}] /\ f[x] = g[x]
    BY <1>1, <1>2, <2>4, <2>5
  <2> QED
    BY <2>3, <2>7, <2>8
<1> QED
  BY <1>3 DEF F, G

\* One value changes, and the sum with it.
LEMMA SumChange ==
  ASSUME NEW S, IsFiniteSet(S), NEW f \in [S -> Nat], NEW g \in [S -> Nat], NEW x \in S,
         \A y \in S \ {x} : g[y] = f[y]
  PROVE  /\ SumFunction(f) \in Nat /\ SumFunction(g) \in Nat
         /\ SumFunction(g) + f[x] = SumFunction(f) + g[x]
<1> DEFINE F == Sums(f, S)
           G == Sums(g, S)
           rest == S \ {x}
<1>0. Counts(f, S) /\ Counts(g, S)
  BY DEF Counts
<1>1. SumFunction(f) = F[S] /\ SumFunction(g) = G[S]
  BY SumFunctionIsSum
<1>2. /\ \A s \in SUBSET S : F[s] \in Nat
      /\ \A s \in SUBSET S : \A y \in s : F[s] = f[y] + F[s \ {y}]
  <2>1. Adds(F, f, S)
    BY <1>0, SumOfPart
  <2> HIDE DEF F
  <2> QED
    BY <2>1 DEF Adds
<1>3. /\ \A s \in SUBSET S : G[s] \in Nat
      /\ \A s \in SUBSET S : \A y \in s : G[s] = g[y] + G[s \ {y}]
  <2>1. Adds(G, g, S)
    BY <1>0, SumOfPart
  <2> HIDE DEF G
  <2> QED
    BY <2>1 DEF Adds
<1>4. rest \subseteq S \cap S /\ \A y \in rest : f[y] = g[y]
  OBVIOUS
<1>5. F[rest] = G[rest]
  <2> HIDE DEF rest
  <2> QED
    BY <1>0, <1>4, SameSum
<1> HIDE DEF F, G
<1>6. F[S] = f[x] + F[rest] /\ G[S] = g[x] + G[rest] /\ F[rest] \in Nat
  BY <1>2, <1>3
<1>7. f[x] \in Nat /\ g[x] \in Nat
  OBVIOUS
<1> QED
  BY <1>1, <1>5, <1>6, <1>7

\* What two hold together is at most what all hold.
LEMMA SumOfTwo ==
  ASSUME NEW S, IsFiniteSet(S), NEW f \in [S -> Nat], NEW x \in S, NEW y \in S, x # y
  PROVE  SumFunction(f) >= f[x] + f[y]
<1> DEFINE F == Sums(f, S)
<1>0. Counts(f, S)
  BY DEF Counts
<1>1. SumFunction(f) = F[S]
  BY SumFunctionIsSum
<1>2. /\ \A s \in SUBSET S : F[s] \in Nat
      /\ \A s \in SUBSET S : \A z \in s : F[s] = f[z] + F[s \ {z}]
  <2>1. Adds(F, f, S)
    BY <1>0, SumOfPart
  <2> HIDE DEF F
  <2> QED
    BY <2>1 DEF Adds
<1> HIDE DEF F
<1>3. F[S] = f[x] + F[S \ {x}]
  BY <1>2
<1>4. F[S \ {x}] = f[y] + F[(S \ {x}) \ {y}]
  <2> DEFINE s == S \ {x}
  <2>1. s \in SUBSET S /\ y \in s
    OBVIOUS
  <2> HIDE DEF s
  <2>2. F[s] = f[y] + F[s \ {y}]
    BY <1>2, <2>1
  <2> QED
    BY <2>2 DEF s
<1>5. F[(S \ {x}) \ {y}] \in Nat
  BY <1>2
<1>6. f[x] \in Nat /\ f[y] \in Nat
  OBVIOUS
<1> QED
  BY <1>1, <1>3, <1>4, <1>5, <1>6

\* The sum over two disjoint sets.
LEMMA SumOfUnion ==
  ASSUME NEW S, IsFiniteSet(S), NEW f \in [S -> Nat], NEW r, NEW t,
         r \subseteq S, t \subseteq S, r \cap t = {}
  PROVE  Sums(f, S)[r \cup t] = Sums(f, S)[r] + Sums(f, S)[t]
<1> DEFINE F == Sums(f, S)
           Bad == {s \in SUBSET t : F[r \cup s] # F[r] + F[s]}
<1>0. Counts(f, S)
  BY DEF Counts
<1>1. /\ F[{}] = 0 /\ \A s \in SUBSET S : F[s] \in Nat
      /\ \A s \in SUBSET S : \A x \in s : F[s] = f[x] + F[s \ {x}]
  <2>1. Adds(F, f, S)
    BY <1>0, SumOfPart
  <2> HIDE DEF F
  <2> QED
    BY <2>1 DEF Adds
<1> HIDE DEF F
<1>2. Bad = {}
  <2> SUFFICES ASSUME Bad # {} PROVE FALSE
    OBVIOUS
  <2>1. Bad \subseteq SUBSET t /\ IsFiniteSet(t)
    BY FS_Subset
  <2>2. \E s \in Bad : \A q \in Bad : q \subseteq s => q = s
    <3> HIDE DEF Bad
    <3> QED
      BY <2>1, SmallestSubset
  <2>3. PICK s \in Bad : \A q \in Bad : q \subseteq s => q = s
    BY <2>2
  <2>4. s # {}
    <3>1. F[r] \in Nat /\ r \cup {} = r /\ F[{}] = 0
      BY <1>1
    <3>2. F[r \cup {}] = F[r] + F[{}]
      BY <3>1
    <3> QED
      BY <2>3, <3>2
  <2>5. PICK x \in s : TRUE
    BY <2>4
  <2>6. s \ {x} \notin Bad
    BY <2>3, <2>5
  <2>7. F[r \cup (s \ {x})] = F[r] + F[s \ {x}]
    BY <2>3, <2>6
  <2>8. (r \cup s) \ {x} = r \cup (s \ {x}) /\ r \cup s \in SUBSET S /\ x \in r \cup s
    BY <2>5
  <2>9. F[r \cup s] = f[x] + F[r \cup (s \ {x})]
    BY <1>1, <2>8
  <2>10. F[s] = f[x] + F[s \ {x}]
    BY <1>1, <2>5
  <2>11. /\ F[r] \in Nat /\ F[s \ {x}] \in Nat /\ f[x] \in Nat
    BY <1>1, <2>5
  <2> QED
    BY <2>3, <2>7, <2>9, <2>10, <2>11
<1> QED
  BY <1>2 DEF F

\* A sum in which nothing but one value counts.
LEMMA SumOfOne ==
  ASSUME NEW S, IsFiniteSet(S), NEW f \in [S -> Nat], NEW r \in SUBSET S, NEW n \in Nat,
         \/ n = 0 /\ \A x \in r : f[x] = 0
         \/ \E y \in r : f[y] = n /\ \A x \in r \ {y} : f[x] = 0
  PROVE  Sums(f, S)[r] = n
<1> DEFINE F == Sums(f, S)
           Bad == {s \in SUBSET r : (\A x \in s : f[x] = 0) /\ F[s] # 0}
<1>0. Counts(f, S)
  BY DEF Counts
<1>1. /\ F[{}] = 0 /\ \A s \in SUBSET S : F[s] \in Nat
      /\ \A s \in SUBSET S : \A x \in s : F[s] = f[x] + F[s \ {x}]
  <2>1. Adds(F, f, S)
    BY <1>0, SumOfPart
  <2> HIDE DEF F
  <2> QED
    BY <2>1 DEF Adds
<1> HIDE DEF F
<1>2. Bad = {}
  <2> SUFFICES ASSUME Bad # {} PROVE FALSE
    OBVIOUS
  <2>1. Bad \subseteq SUBSET r /\ IsFiniteSet(r)
    BY FS_Subset
  <2>2. \E s \in Bad : \A q \in Bad : q \subseteq s => q = s
    <3> HIDE DEF Bad
    <3> QED
      BY <2>1, SmallestSubset
  <2>3. PICK s \in Bad : \A q \in Bad : q \subseteq s => q = s
    BY <2>2
  <2>4. s # {}
    BY <1>1, <2>3
  <2>5. PICK x \in s : TRUE
    BY <2>4
  <2>6. s \ {x} \notin Bad
    BY <2>3, <2>5
  <2>7. F[s \ {x}] = 0 /\ f[x] = 0
    BY <2>3, <2>5, <2>6
  <2>8. F[s] = f[x] + F[s \ {x}]
    BY <1>1, <2>5
  <2> QED
    BY <2>3, <2>7, <2>8
<1>3. ASSUME NEW s \in SUBSET r, \A x \in s : f[x] = 0 PROVE F[s] = 0
  BY <1>2, <1>3
<1>4. CASE n = 0 /\ \A x \in r : f[x] = 0
  BY <1>3, <1>4 DEF F
<1>5. ASSUME NEW y \in r, f[y] = n, \A x \in r \ {y} : f[x] = 0 PROVE F[r] = n
  <2>1. F[r] = f[y] + F[r \ {y}]
    BY <1>1
  <2>2. F[r \ {y}] = 0
    BY <1>3, <1>5
  <2> QED
    BY <1>5, <2>1, <2>2
<1> QED
  BY <1>4, <1>5 DEF F

-----------------------------------------------------------------------------
(* Tokens                                                                  *)

Balances == [Accounts -> [AllTokens -> Nat]]

\* One entry of the balances is set.
LEMMA Update ==
  ASSUME NEW b \in Balances, NEW t \in AllTokens, NEW who \in Accounts, NEW n \in Nat
  PROVE  LET c == [b EXCEPT ![who][t] = n] IN
         /\ c \in Balances
         /\ c[who][t] = n
         /\ \A x \in Accounts, s \in AllTokens : x # who \/ s # t => c[x][s] = b[x][s]
<1> DEFINE row == [b[who] EXCEPT ![t] = n]
<1>1. /\ row \in [AllTokens -> Nat] /\ row[t] = n
      /\ \A s \in AllTokens : s # t => row[s] = b[who][s]
  BY DEF Balances
<1>2. [b EXCEPT ![who][t] = n] = [b EXCEPT ![who] = row]
  OBVIOUS
<1> HIDE DEF row
<1> QED
  BY <1>1, <1>2 DEF Balances

\* n of one token leave an account and m of one arrive at another.
Shifted(b, from, t, n, to, s, m) == [b EXCEPT ![from][t] = @ - n, ![to][s] = @ + m]

\* A covered transfer keeps the balances balances and touches two entries.
LEMMA Transfer ==
  ASSUME NEW b \in Balances, NEW t \in AllTokens, NEW s \in AllTokens,
         NEW from \in Accounts, NEW to \in Accounts, from # to,
         NEW n \in Nat, n <= b[from][t], NEW m \in Nat
  PROVE  LET c == Shifted(b, from, t, n, to, s, m) IN
         /\ c \in Balances
         /\ c[from][t] = b[from][t] - n /\ c[to][s] = b[to][s] + m
         /\ \A x \in Accounts, r \in AllTokens :
              <<x, r>> \notin {<<from, t>>, <<to, s>>} => c[x][r] = b[x][r]
<1> DEFINE b1 == [b EXCEPT ![from][t] = b[from][t] - n]
           k == b[to][s] + m
           b2 == [b1 EXCEPT ![to][s] = k]
<1>0. b[from][t] \in Nat /\ b[from][t] - n \in Nat /\ b[to][s] \in Nat
  BY DEF Balances
<1>1. /\ b1 \in Balances /\ b1[from][t] = b[from][t] - n
      /\ \A x \in Accounts, r \in AllTokens : x # from \/ r # t => b1[x][r] = b[x][r]
  BY <1>0, Update
<1>2. Shifted(b, from, t, n, to, s, m) = b2
  BY Zenon DEF Shifted
<1> HIDE DEF b1
<1>3. k \in Nat
  BY <1>0
<1> HIDE DEF k
<1>4. /\ b2 \in Balances /\ b2[to][s] = k
      /\ \A x \in Accounts, r \in AllTokens : x # to \/ r # s => b2[x][r] = b1[x][r]
  BY <1>1, <1>3, Update
<1> HIDE DEF b2
<1>5. /\ b2 \in Balances
      /\ b2[from][t] = b[from][t] - n /\ b2[to][s] = b[to][s] + m
      /\ \A x \in Accounts, r \in AllTokens :
              <<x, r>> \notin {<<from, t>>, <<to, s>>} => b2[x][r] = b[x][r]
  BY <1>0, <1>1, <1>4 DEF k
<1> QED
  BY <1>2, <1>5

-----------------------------------------------------------------------------
(* The liquidity tokens and who holds them                                 *)

\* What an account has in the wallet or the gauge.
Holdings(w) ==
    [c \in Accounts |-> w.balance[c][Lp] + (IF c \in Adapters THEN w.staked[c] ELSE 0)]

\* A world in which the pool can quote: it has reserves and liquidity that stays, and every
\* liquidity token has a holder.
Sound(w) ==
    /\ w \in Worlds
    /\ Reserve(w, Weth) > 0 /\ Reserve(w, Usdc) > 0
    /\ w.balance[Market][Lp] > 0
    /\ w.supply = SumFunction(Holdings(w))

\* Holdings are amounts.
LEMMA HoldingsTyped ==
  ASSUME NEW w \in Worlds
  PROVE  /\ Holdings(w) \in [Accounts -> Nat]
         /\ \A c \in Accounts : Holdings(w)[c] >= w.balance[c][Lp]
<1>1. \A c \in Accounts : w.balance[c][Lp] \in Nat
  BY DEF Worlds, AllTokens
<1>2. \A c \in Adapters : w.staked[c] \in Nat
  BY DEF Worlds
<1> QED
  BY <1>1, <1>2 DEF Holdings

\* Where nobody holds more or less liquidity than before, the supply still is what is held.
LEMMA SameHoldings ==
  ASSUME NEW w \in Worlds, NEW v \in Worlds,
         \A c \in Accounts : v.balance[c][Lp] = w.balance[c][Lp],
         \A a \in Adapters : v.staked[a] = w.staked[a]
  PROVE  Holdings(v) = Holdings(w)
BY DEF Holdings

\* Liquidity given out or taken back changes the supply by as much.
LEMMA HoldingsChange ==
  ASSUME NEW w \in Worlds, NEW v \in Worlds, NEW x \in Accounts,
         \A c \in Accounts \ {x} : Holdings(v)[c] = Holdings(w)[c]
  PROVE  /\ SumFunction(Holdings(v)) \in Nat /\ SumFunction(Holdings(w)) \in Nat
         /\ SumFunction(Holdings(v)) + Holdings(w)[x]
              = SumFunction(Holdings(w)) + Holdings(v)[x]
<1>1. Holdings(v) \in [Accounts -> Nat] /\ Holdings(w) \in [Accounts -> Nat]
  BY HoldingsTyped
<1>2. IsFiniteSet(Accounts)
  BY StrategiesAssumption
<1> QED
  BY <1>1, <1>2, SumChange

\* Liquidity that changes hands leaves the sum alone.
LEMMA HoldingsMove ==
  ASSUME NEW w \in Worlds, NEW v \in Worlds, NEW x \in Accounts, NEW y \in Accounts, x # y,
         \A c \in Accounts \ {x, y} : Holdings(v)[c] = Holdings(w)[c],
         Holdings(v)[x] + Holdings(v)[y] = Holdings(w)[x] + Holdings(w)[y]
  PROVE  SumFunction(Holdings(v)) = SumFunction(Holdings(w))
<1> DEFINE f == Holdings(w)
           g == Holdings(v)
           h == [f EXCEPT ![x] = g[x]]
<1>1. f \in [Accounts -> Nat] /\ g \in [Accounts -> Nat] /\ IsFiniteSet(Accounts)
  BY HoldingsTyped, StrategiesAssumption
<1> HIDE DEF f, g
<1>2. h \in [Accounts -> Nat] /\ h[x] = g[x] /\ \A c \in Accounts \ {x} : h[c] = f[c]
  BY <1>1
<1>3. \A c \in Accounts \ {y} : g[c] = h[c]
  <2>1. \A c \in Accounts \ {x, y} : g[c] = f[c]
    BY DEF f, g
  <2> QED
    BY <1>2, <2>1
<1> HIDE DEF h
<1>4. /\ SumFunction(f) \in Nat /\ SumFunction(h) \in Nat /\ SumFunction(g) \in Nat
      /\ SumFunction(h) + f[x] = SumFunction(f) + h[x]
      /\ SumFunction(g) + h[y] = SumFunction(h) + g[y]
  BY <1>1, <1>2, <1>3, SumChange
<1>5. h[y] = f[y] /\ g[x] + g[y] = f[x] + f[y]
  BY <1>2 DEF f, g
<1>6. f[x] \in Nat /\ f[y] \in Nat /\ g[x] \in Nat /\ g[y] \in Nat
  BY <1>1
<1>7. SumFunction(g) = SumFunction(f)
  BY <1>2, <1>4, <1>5, <1>6
<1> QED
  BY <1>7 DEF f, g

\* Nobody but the market holds all of the supply, for the market holds some.
LEMMA MoreThanHeld ==
  ASSUME NEW w, Sound(w), NEW x \in Accounts \ {Market}, NEW n \in Nat,
         n <= w.balance[x][Lp]
  PROVE  n < w.supply
<1> DEFINE f == Holdings(w)
<1>0. w \in Worlds
  BY DEF Sound
<1>1. /\ f \in [Accounts -> Nat] /\ \A c \in Accounts : f[c] >= w.balance[c][Lp]
      /\ IsFiniteSet(Accounts) /\ Market \in Accounts
  <2>1. f \in [Accounts -> Nat] /\ \A c \in Accounts : f[c] >= w.balance[c][Lp]
    BY <1>0, HoldingsTyped
  <2>2. IsFiniteSet(Accounts) /\ Market \in Accounts
    BY StrategiesAssumption DEF Accounts, Wallets
  <2> QED
    BY <2>1, <2>2
<1>2. w.balance[x][Lp] \in Nat /\ w.balance[Market][Lp] \in Nat /\ w.balance[Market][Lp] > 0
  BY <1>1 DEF Sound, Worlds, AllTokens
<1>3. w.supply = SumFunction(f)
  BY DEF Sound
<1> HIDE DEF f
<1>4. SumFunction(f) >= f[x] + f[Market]
  BY <1>1, SumOfTwo
<1>5. w.supply >= f[x] + f[Market] /\ f[x] >= w.balance[x][Lp] /\ f[Market] > 0
  BY <1>1, <1>2, <1>3, <1>4
<1>6. f[x] \in Nat /\ f[Market] \in Nat /\ w.supply \in Nat
  BY <1>1 DEF Sound, Worlds
<1> QED
  BY <1>2, <1>5, <1>6

-----------------------------------------------------------------------------
(* What the tokens, the pool and the gauge do to a world                   *)

\* The same on the balances of a world.
Changed(w, from, t, n, to, s, m) ==
    [w EXCEPT !.balance[from][t] = @ - n, !.balance[to][s] = @ + m]

\* Two entries of the balances differ, and nothing else of the world.
TwoEntries(v, w, from, t, n, to, s, m) ==
    /\ v.balance[from][t] = w.balance[from][t] - n /\ v.balance[to][s] = w.balance[to][s] + m
    /\ \A x \in Accounts, r \in AllTokens :
         <<x, r>> \notin {<<from, t>>, <<to, s>>} => v.balance[x][r] = w.balance[x][r]
    /\ v.staked = w.staked /\ v.supply = w.supply /\ v.allowance = w.allowance

\* The tokens are different ones, and the accounts are accounts.
LEMMA Distinct ==
  /\ {Weth, Usdc, Lp, Aero, Native} \subseteq AllTokens /\ Weth # Usdc
  /\ Lp \notin {Weth, Usdc, Aero, Native} /\ Traded \subseteq AllTokens \ {Lp}
  /\ Weth # Native /\ Usdc # Native
  /\ {Vault, Market, Executor, Pool} \subseteq Accounts /\ Users \subseteq Accounts
  /\ Adapters \subseteq Accounts
  /\ Pool \notin Users \cup Adapters \cup {Vault, Market, Executor}
  /\ Market \notin Users \cup Adapters \cup {Vault, Executor, Pool}
  /\ Executor \notin Users \cup Adapters \cup {Vault, Market, Pool}
  /\ Vault \notin Users \cup Adapters /\ Users \cap Adapters = {}
<1>1. /\ Weth # Usdc /\ {Weth, Usdc} \cap {Lp, Aero, Native} = {} /\ Lp \notin {Aero, Native}
  BY StrategiesAssumption
<1>2. /\ Vault # Market /\ {Vault, Market} \cap {Executor, Pool} = {} /\ Executor # Pool
      /\ Users \cap {Vault, Market, Executor, Pool} = {} /\ Wallets \cap Adapters = {}
  BY StrategiesAssumption
<1>3. /\ {Weth, Usdc, Lp, Aero, Native} \subseteq AllTokens /\ Weth # Usdc
      /\ Lp \notin {Weth, Usdc, Aero, Native} /\ Traded \subseteq AllTokens \ {Lp}
      /\ Weth # Native /\ Usdc # Native
  BY <1>1 DEF AllTokens, Traded
<1>4. /\ {Vault, Market, Executor, Pool} \subseteq Wallets /\ Users \subseteq Wallets
      /\ Accounts = Wallets \cup Adapters
  BY DEF Accounts, Wallets
<1>5. /\ Pool \notin Users \cup Adapters \cup {Vault, Market, Executor}
      /\ Market \notin Users \cup Adapters \cup {Vault, Executor, Pool}
      /\ Executor \notin Users \cup Adapters \cup {Vault, Market, Pool}
      /\ Vault \notin Users \cup Adapters /\ Users \cap Adapters = {}
  BY <1>2, <1>4
<1> QED
  BY <1>3, <1>4, <1>5

\* A covered change leads to a world again.
LEMMA ChangedWorld ==
  ASSUME NEW w \in Worlds, NEW t \in AllTokens, NEW s \in AllTokens,
         NEW from \in Accounts, NEW to \in Accounts, from # to,
         NEW n \in Nat, n <= w.balance[from][t], NEW m \in Nat
  PROVE  /\ Changed(w, from, t, n, to, s, m) \in Worlds
         /\ TwoEntries(Changed(w, from, t, n, to, s, m), w, from, t, n, to, s, m)
<1> DEFINE b == w.balance
           c == Shifted(b, from, t, n, to, s, m)
<1>1. b \in Balances
  BY DEF Worlds, Balances
<1>2. /\ c \in Balances
      /\ c[from][t] = b[from][t] - n /\ c[to][s] = b[to][s] + m
      /\ \A x \in Accounts, r \in AllTokens :
           <<x, r>> \notin {<<from, t>>, <<to, s>>} => c[x][r] = b[x][r]
  BY <1>1, Transfer
<1>3. Changed(w, from, t, n, to, s, m) = [w EXCEPT !.balance = c]
  BY DEF Worlds, Changed, Shifted
<1> HIDE DEF c
<1> DEFINE v == [w EXCEPT !.balance = c]
<1>4. /\ v \in Worlds /\ v.balance = c /\ v.staked = w.staked /\ v.supply = w.supply
      /\ v.allowance = w.allowance
  BY <1>2 DEF Worlds, Balances
<1> HIDE DEF v
<1> QED
  BY <1>2, <1>3, <1>4 DEF TwoEntries, v

\* As long as tokens other than the liquidity change hands and the pool is not emptied,
\* the world stays sound.
LEMMA ChangedSound ==
  ASSUME NEW w, Sound(w), NEW t \in AllTokens \ {Lp}, NEW s \in AllTokens \ {Lp},
         NEW from \in Accounts, NEW to \in Accounts, from # to,
         NEW n \in Nat, n <= w.balance[from][t], NEW m \in Nat,
         from = Pool => n < w.balance[from][t]
  PROVE  /\ Sound(Changed(w, from, t, n, to, s, m))
         /\ TwoEntries(Changed(w, from, t, n, to, s, m), w, from, t, n, to, s, m)
<1> DEFINE v == Changed(w, from, t, n, to, s, m)
<1>0. w \in Worlds
  BY DEF Sound
<1>1. v \in Worlds /\ TwoEntries(v, w, from, t, n, to, s, m)
  BY <1>0, ChangedWorld
<1> HIDE DEF v
<1>2. \A c \in Accounts : v.balance[c][Lp] = w.balance[c][Lp]
  BY <1>1, Distinct DEF TwoEntries
<1>3. Holdings(v) = Holdings(w)
  BY <1>0, <1>1, <1>2, SameHoldings DEF TwoEntries
<1>4. v.balance[Market][Lp] > 0 /\ v.supply = SumFunction(Holdings(v))
  BY <1>1, <1>2, <1>3, Distinct DEF Sound, TwoEntries
<1>5. ASSUME NEW r \in {Weth, Usdc} PROVE v.balance[Pool][r] > 0
  <2>1. /\ w.balance[Pool][r] \in Nat /\ w.balance[Pool][r] > 0
        /\ r \in AllTokens /\ Pool \in Accounts
    BY <1>0, Distinct DEF Sound, Worlds, Reserve
  <2>2. CASE from = Pool /\ r = t
    BY <1>1, <2>1, <2>2 DEF TwoEntries
  <2>3. CASE to = Pool /\ r = s
    BY <1>1, <2>1, <2>3 DEF TwoEntries
  <2>4. CASE <<Pool, r>> \notin {<<from, t>>, <<to, s>>}
    BY <1>1, <2>1, <2>4 DEF TwoEntries
  <2> QED
    BY <2>2, <2>3, <2>4
<1> QED
  BY <1>1, <1>4, <1>5 DEF Sound, Reserve, v

\* So does it when liquidity changes hands, but not that of market or pool.
LEMMA LiquidityMoved ==
  ASSUME NEW w, Sound(w), NEW from \in Accounts \ {Market, Pool},
         NEW to \in Accounts \ {Market, Pool}, from # to, NEW n \in Nat,
         n <= w.balance[from][Lp]
  PROVE  /\ Sound(Changed(w, from, Lp, n, to, Lp, n))
         /\ TwoEntries(Changed(w, from, Lp, n, to, Lp, n), w, from, Lp, n, to, Lp, n)
<1> DEFINE v == Changed(w, from, Lp, n, to, Lp, n)
<1>0. w \in Worlds /\ Lp \in AllTokens
  BY Distinct DEF Sound
<1>1. v \in Worlds /\ TwoEntries(v, w, from, Lp, n, to, Lp, n)
  BY <1>0, ChangedWorld
<1> HIDE DEF v
<1>2. /\ \A c \in Accounts \ {from, to} : v.balance[c][Lp] = w.balance[c][Lp]
      /\ \A r \in AllTokens : v.balance[Pool][r] = w.balance[Pool][r]
      /\ v.balance[from][Lp] = w.balance[from][Lp] - n
      /\ v.balance[to][Lp] = w.balance[to][Lp] + n
      /\ v.staked = w.staked /\ v.supply = w.supply
  BY <1>0, <1>1, Distinct DEF TwoEntries
<1>3. SumFunction(Holdings(v)) = SumFunction(Holdings(w))
  <2>1. \A c \in Accounts \ {from, to} : Holdings(v)[c] = Holdings(w)[c]
    BY <1>2 DEF Holdings
  <2>2. /\ w.balance[from][Lp] \in Nat /\ w.balance[to][Lp] \in Nat
        /\ \A a \in Adapters : w.staked[a] \in Nat
    BY <1>0 DEF Worlds
  <2>3. Holdings(v)[from] + Holdings(v)[to] = Holdings(w)[from] + Holdings(w)[to]
    BY <1>2, <2>2 DEF Holdings
  <2> QED
    BY <1>0, <1>1, <2>1, <2>3, HoldingsMove
<1> QED
  BY <1>0, <1>1, <1>2, <1>3, Distinct DEF Sound, Reserve, v

\* Liquidity given out to an account, for what has arrived in the pool.
Minted(w, to, n) == [w EXCEPT !.balance[to][Lp] = @ + n, !.supply = @ + n]

\* Liquidity taken back.
Burnt(w, from, n) == [w EXCEPT !.balance[from][Lp] = @ - n, !.supply = @ - n]

\* One account's liquidity tokens differ, and nothing else but the supply.
OneHolder(v, w, who, k) ==
    /\ v.balance[who][Lp] = k
    /\ \A x \in Accounts, r \in AllTokens :
         <<x, r>> # <<who, Lp>> => v.balance[x][r] = w.balance[x][r]
    /\ v.staked = w.staked

\* A change of one account's liquidity with the supply keeps the world sound.
LEMMA HolderChange ==
  ASSUME NEW w, Sound(w), NEW who \in Accounts \ {Market, Pool}, NEW k \in Nat,
         NEW supply \in Nat \ {0}, supply - w.supply = k - w.balance[who][Lp],
         NEW v, v = [w EXCEPT !.balance[who][Lp] = k, !.supply = supply]
  PROVE  Sound(v) /\ OneHolder(v, w, who, k)
<1> DEFINE b == [w.balance EXCEPT ![who][Lp] = k]
<1>0. w \in Worlds /\ w.balance \in Balances /\ Lp \in AllTokens
  BY Distinct DEF Sound, Worlds, Balances
<1>1. /\ b \in Balances /\ b[who][Lp] = k
      /\ \A x \in Accounts, s \in AllTokens : x # who \/ s # Lp => b[x][s] = w.balance[x][s]
  BY <1>0, Update
<1>2. v = [w EXCEPT !.balance = b, !.supply = supply]
  BY <1>0 DEF Worlds
<1> HIDE DEF b
<1>3. v \in Worlds /\ v.balance = b /\ v.staked = w.staked /\ v.supply = supply
  BY <1>0, <1>1, <1>2 DEF Worlds, Balances
<1>4. OneHolder(v, w, who, k)
  BY <1>1, <1>3 DEF OneHolder
<1>5. v.supply = SumFunction(Holdings(v))
  <2> DEFINE f == Holdings(w)
             g == Holdings(v)
  <2>1. \A c \in Accounts \ {who} : g[c] = f[c]
    BY <1>0, <1>4 DEF Holdings, OneHolder
  <2>2. /\ SumFunction(g) \in Nat /\ SumFunction(f) \in Nat
        /\ SumFunction(g) + f[who] = SumFunction(f) + g[who]
    BY <1>0, <1>3, <2>1, HoldingsChange
  <2>3. /\ w.balance[who][Lp] \in Nat /\ \A a \in Adapters : w.staked[a] \in Nat
        /\ w.supply \in Nat
    BY <1>0 DEF Worlds
  <2>4. g[who] - f[who] = k - w.balance[who][Lp]
    BY <1>4, <2>3 DEF Holdings, OneHolder
  <2>5. f[who] \in Nat /\ g[who] \in Nat
    BY <1>0, <1>3, HoldingsTyped
  <2>6. w.supply = SumFunction(f)
    BY DEF Sound
  <2> HIDE DEF f, g
  <2>7. supply = SumFunction(g)
    BY <2>2, <2>3, <2>4, <2>5, <2>6
  <2> QED
    BY <1>3, <2>7 DEF g
<1>6. /\ v.balance[Market][Lp] = w.balance[Market][Lp]
      /\ \A r \in AllTokens : v.balance[Pool][r] = w.balance[Pool][r]
  BY <1>0, <1>4, Distinct DEF OneHolder
<1> QED
  BY <1>3, <1>4, <1>5, <1>6, Distinct DEF Sound, Reserve

\* Minting keeps the world sound.
LEMMA MintSound ==
  ASSUME NEW w, Sound(w), NEW to \in Accounts \ {Market, Pool}, NEW n \in Nat
  PROVE  /\ Sound(Minted(w, to, n))
         /\ OneHolder(Minted(w, to, n), w, to, w.balance[to][Lp] + n)
<1> DEFINE k == w.balance[to][Lp] + n
           supply == w.supply + n
<1>1. w.balance[to][Lp] \in Nat /\ w.supply \in Nat \ {0}
  BY Distinct DEF Sound, Worlds
<1>2. k \in Nat /\ supply \in Nat \ {0} /\ supply - w.supply = k - w.balance[to][Lp]
  BY <1>1
<1>3. Minted(w, to, n) = [w EXCEPT !.balance[to][Lp] = k, !.supply = supply]
  BY DEF Minted
<1> HIDE DEF k, supply
<1>4. Sound(Minted(w, to, n)) /\ OneHolder(Minted(w, to, n), w, to, k)
  BY <1>2, <1>3, HolderChange
<1> QED
  BY <1>4 DEF k

\* Burning does, for nobody but the market holds everything.
LEMMA BurnSound ==
  ASSUME NEW w, Sound(w), NEW from \in Accounts \ {Market, Pool}, NEW n \in Nat,
         n <= w.balance[from][Lp]
  PROVE  /\ Sound(Burnt(w, from, n))
         /\ OneHolder(Burnt(w, from, n), w, from, w.balance[from][Lp] - n)
<1> DEFINE k == w.balance[from][Lp] - n
           supply == w.supply - n
<1>1. w.balance[from][Lp] \in Nat /\ w.supply \in Nat \ {0}
  BY Distinct DEF Sound, Worlds
<1>2. n < w.supply
  BY MoreThanHeld
<1>3. k \in Nat /\ supply \in Nat \ {0} /\ supply - w.supply = k - w.balance[from][Lp]
  BY <1>1, <1>2
<1>4. Burnt(w, from, n) = [w EXCEPT !.balance[from][Lp] = k, !.supply = supply]
  BY DEF Burnt
<1> HIDE DEF k, supply
<1>5. Sound(Burnt(w, from, n)) /\ OneHolder(Burnt(w, from, n), w, from, k)
  BY <1>3, <1>4, HolderChange
<1> QED
  BY <1>5 DEF k

\* An account has k in the wallet and n in the gauge.
Restaked(w, who, k, n) == [w EXCEPT !.balance[who][Lp] = k, !.staked[who] = n]

\* What an account puts into the gauge or takes out of it stays its own.
LEMMA StakeSound ==
  ASSUME NEW w, Sound(w), NEW who \in Adapters, NEW k \in Nat, NEW n \in Nat,
         k + n = w.balance[who][Lp] + w.staked[who],
         NEW v, v = Restaked(w, who, k, n)
  PROVE  /\ Sound(v) /\ v.balance[who][Lp] = k
         /\ \A x \in Accounts, r \in AllTokens :
              <<x, r>> # <<who, Lp>> => v.balance[x][r] = w.balance[x][r]
         /\ \A a \in Adapters \ {who} : v.staked[a] = w.staked[a]
         /\ v.staked[who] = n /\ v.supply = w.supply /\ v.allowance = w.allowance
<1> DEFINE b == [w.balance EXCEPT ![who][Lp] = k]
           st == [w.staked EXCEPT ![who] = n]
<1>0. /\ w \in Worlds /\ w.balance \in Balances /\ w.staked \in [Adapters -> Nat]
      /\ Lp \in AllTokens /\ who \in Accounts \ {Market, Pool}
  BY Distinct DEF Sound, Worlds, Balances
<1>1. /\ b \in Balances /\ b[who][Lp] = k
      /\ \A x \in Accounts, s \in AllTokens : x # who \/ s # Lp => b[x][s] = w.balance[x][s]
  BY <1>0, Update
<1>2. /\ st \in [Adapters -> Nat] /\ st[who] = n
      /\ \A a \in Adapters \ {who} : st[a] = w.staked[a]
  BY <1>0
<1>3. v = [w EXCEPT !.balance = b, !.staked = st]
  BY <1>0 DEF Worlds, Restaked
<1> HIDE DEF b, st
<1>4. /\ v \in Worlds /\ v.balance = b /\ v.staked = st /\ v.supply = w.supply
      /\ v.allowance = w.allowance
  BY <1>0, <1>1, <1>2, <1>3 DEF Worlds, Balances
<1>5. Holdings(v) = Holdings(w)
  <2>1. /\ w.balance[who][Lp] \in Nat /\ w.staked[who] \in Nat
    BY <1>0 DEF Balances
  <2>2. \A c \in Accounts : v.balance[c][Lp] + (IF c \in Adapters THEN v.staked[c] ELSE 0)
                           = w.balance[c][Lp] + (IF c \in Adapters THEN w.staked[c] ELSE 0)
    BY <1>0, <1>1, <1>2, <1>4, <2>1
  <2> QED
    BY <2>2, Zenon DEF Holdings
<1>6. /\ v.balance[Market][Lp] = w.balance[Market][Lp]
      /\ \A r \in AllTokens : v.balance[Pool][r] = w.balance[Pool][r]
  BY <1>0, <1>1, <1>4, Distinct
<1>7. Sound(v)
  BY <1>4, <1>5, <1>6, Distinct DEF Sound, Reserve
<1> QED
  BY <1>1, <1>2, <1>4, <1>7

-----------------------------------------------------------------------------
(* What a call of an adapter does                                          *)

\* The pool gives less than it has for less than everything.
LEMMA PoolSuffices ==
  ASSUME NEW R \in Nat \ {0}, NEW S \in Nat \ {0}, NEW n \in Nat, n < S
  PROVE  (n * R) \div S \in Nat /\ (n * R) \div S < R
<1> DEFINE p == n * R
           q == p \div S
<1>1. p \in Nat
  OBVIOUS
<1>2. p < S * R
  OBVIOUS
<1> HIDE DEF p
<1>3. q \in Nat /\ q * S <= p
  BY <1>1
<1> HIDE DEF q
<1>4. q < R
  <2> SUFFICES ASSUME q >= R PROVE FALSE
    BY <1>3
  <2>1. q * S >= R * S
    BY <1>3
  <2>2. R * S = S * R /\ q * S \in Int /\ S * R \in Int
    BY <1>3
  <2> QED
    BY <1>1, <1>2, <1>3, <2>1, <2>2
<1> QED
  BY <1>3, <1>4 DEF p, q

\* A sound world has reserves of both tokens.
LEMMA Reserves ==
  ASSUME NEW w, Sound(w), NEW t \in {Weth, Usdc}
  PROVE  w.balance[Pool][t] \in Nat \ {0}
BY Distinct DEF Sound, Worlds, Reserve

\* A swap takes the input from one account and gives the output to another, or the same;
\* no account but these and the pool notices, and no liquidity moves.
LEMMA Swapped ==
  ASSUME NEW w, Sound(w), NEW from \in Accounts \ {Pool}, NEW to \in Accounts \ {Pool},
         NEW i \in Traded, NEW j \in Traded, NEW n \in Nat, NEW least,
         NEW v \in SwapExact(w, from, i, j, n, least, to)
  PROVE  /\ Sound(v) /\ v.staked = w.staked
         /\ \A x \in Accounts : v.balance[x][Lp] = w.balance[x][Lp]
         /\ \A x \in Accounts \ {from, to, Pool}, r \in AllTokens :
              v.balance[x][r] = w.balance[x][r]
         /\ from # to => \A r \in AllTokens :
              v.balance[from][r] = w.balance[from][r] - (IF r = i THEN n ELSE 0)
<1> DEFINE wi == Wrapped(i)
           wj == Wrapped(j)
           out == AmountOut(w, i, j, n)
           in == Changed(w, from, i, n, Pool, wi, n)
<1>1. /\ wi \in {Weth, Usdc} /\ wj \in {Weth, Usdc}
      /\ i \in AllTokens \ {Lp} /\ j \in AllTokens \ {Lp}
      /\ wi \in AllTokens \ {Lp} /\ wj \in AllTokens \ {Lp}
      /\ Pool \in Accounts /\ Lp \in AllTokens
  BY Distinct DEF Wrapped, Traded
<1>2. w \in Worlds /\ w.balance[from][i] \in Nat
  BY <1>1 DEF Sound, Worlds
<1>3. wi # wj /\ n > 0 /\ n <= w.balance[from][i]
  BY <1>2 DEF SwapExact, Has
<1>4. v = Changed(in, Pool, wj, out, to, j, out)
  BY DEF SwapExact, Changed
<1>5. w.balance[Pool][wi] \in Nat \ {0} /\ w.balance[Pool][wj] \in Nat \ {0}
  BY <1>1, Reserves
<1>6. out = (n * w.balance[Pool][wj]) \div (w.balance[Pool][wi] + n)
  BY DEF AmountOut, Reserve
<1>7. out \in Nat /\ out < w.balance[Pool][wj]
  <2> DEFINE R == w.balance[Pool][wj]
             S == w.balance[Pool][wi] + n
  <2>1. R \in Nat \ {0} /\ S \in Nat \ {0} /\ n < S /\ out = (n * R) \div S
    BY <1>5, <1>6
  <2> HIDE DEF R, S, out
  <2>2. out \in Nat /\ out < R
    BY <2>1, PoolSuffices
  <2> QED
    BY <2>2 DEF R
<1> HIDE DEF out, wi, wj
<1>8. Sound(in) /\ TwoEntries(in, w, from, i, n, Pool, wi, n)
  BY <1>1, <1>3, ChangedSound
<1> HIDE DEF in
<1>9. in.balance[Pool][wj] = w.balance[Pool][wj]
  BY <1>1, <1>3, <1>8 DEF TwoEntries
<1>10. Sound(v) /\ TwoEntries(v, in, Pool, wj, out, to, j, out)
  <2>1. /\ out < in.balance[Pool][wj] /\ out <= in.balance[Pool][wj] /\ out \in Nat
    BY <1>5, <1>7, <1>9
  <2>2. to \in Accounts /\ Pool # to
    OBVIOUS
  <2>3. /\ Sound(Changed(in, Pool, wj, out, to, j, out))
        /\ TwoEntries(Changed(in, Pool, wj, out, to, j, out), in, Pool, wj, out, to, j, out)
    BY <1>1, <1>8, <2>1, <2>2, ChangedSound
  <2> QED
    BY <1>4, <2>3
<1>11. v.staked = w.staked
  BY <1>8, <1>10 DEF TwoEntries
<1>12. \A x \in Accounts : v.balance[x][Lp] = w.balance[x][Lp]
  BY <1>1, <1>8, <1>10 DEF TwoEntries
<1>13. \A x \in Accounts \ {from, to, Pool}, r \in AllTokens :
              v.balance[x][r] = w.balance[x][r]
  BY <1>1, <1>8, <1>10 DEF TwoEntries
<1>14. ASSUME from # to, NEW r \in AllTokens
       PROVE  v.balance[from][r] = w.balance[from][r] - (IF r = i THEN n ELSE 0)
  <2>1. v.balance[from][r] = in.balance[from][r]
    BY <1>1, <1>10, <1>14 DEF TwoEntries
  <2>2. w.balance[from][r] \in Nat
    BY <1>2 DEF Worlds
  <2>3. CASE r = i
    BY <1>8, <2>1, <2>3 DEF TwoEntries
  <2>4. CASE r # i
    BY <1>1, <1>8, <2>1, <2>2, <2>4 DEF TwoEntries
  <2> QED
    BY <2>3, <2>4
<1> QED
  BY <1>10, <1>11, <1>12, <1>13, <1>14

\* A call takes cost from the adapter and leaves the world sound; beside the adapter, the
\* recipient and the pool nobody notices, and no other adapter's stake changes.
Spends(v, w, self, cost, to) ==
    /\ Sound(v)
    /\ \A r \in AllTokens : v.balance[self][r] = w.balance[self][r] - cost[r]
    /\ \A x \in Accounts \ {self, to, Pool}, r \in AllTokens :
         v.balance[x][r] = w.balance[x][r]
    /\ \A a \in Adapters \ {self} : v.staked[a] = w.staked[a]

\* A payment as amounts of all tokens.
Cost(payment) == [r \in AllTokens |-> IF r \in DOMAIN payment THEN payment[r] ELSE 0]

\* n of one token.
LEMMA CostOfOne ==
  ASSUME NEW t, NEW n
  PROVE  \A r \in AllTokens : Cost(Pay(t, n))[r] = IF r = t THEN n ELSE 0
BY DEF Cost, Pay

\* The adapter forwards what it received, to a wallet.
LEMMA SwapSpends ==
  ASSUME NEW w, Sound(w), NEW self \in Adapters, NEW to \in Users,
         NEW i \in Traded, NEW j \in Traded, NEW n \in Nat, NEW least,
         NEW v \in SwapExact(w, self, i, j, n, least, to)
  PROVE  /\ Spends(v, w, self, Cost(Pay(i, n)), to)
         /\ v.staked = w.staked /\ \A x \in Accounts : v.balance[x][Lp] = w.balance[x][Lp]
<1>1. /\ self \in Accounts \ {Pool} /\ to \in Accounts \ {Pool} /\ self # to
  BY Distinct
<1>2. /\ Sound(v) /\ v.staked = w.staked
      /\ \A x \in Accounts : v.balance[x][Lp] = w.balance[x][Lp]
      /\ \A x \in Accounts \ {self, to, Pool}, r \in AllTokens :
              v.balance[x][r] = w.balance[x][r]
      /\ \A r \in AllTokens :
              v.balance[self][r] = w.balance[self][r] - (IF r = i THEN n ELSE 0)
  BY <1>1, Swapped
<1>3. \A r \in AllTokens : v.balance[self][r] = w.balance[self][r] - Cost(Pay(i, n))[r]
  BY <1>2, CostOfOne
<1> QED
  BY <1>2, <1>3 DEF Spends

\* What the executor pulls arrives in the adapter.
PaidInto(v, w, from, to, cost) ==
    /\ \A x \in Accounts \ {from, to}, r \in AllTokens : v.balance[x][r] = w.balance[x][r]
    /\ \A r \in AllTokens : /\ v.balance[from][r] = w.balance[from][r] - cost[r]
                            /\ v.balance[to][r] = w.balance[to][r] + cost[r]
    /\ v.staked = w.staked

\* A pull that does not revert does that.
LEMMA PulledWorld ==
  ASSUME NEW w \in Worlds, NEW from \in Users \cup {Vault}, NEW to \in Adapters,
         NEW S \in SUBSET AllTokens, NEW payment \in [S -> Nat],
         NEW v \in TransferFrom(w, from, to, payment)
  PROVE  v \in Worlds /\ PaidInto(v, w, from, to, Cost(payment)) /\ v.supply = w.supply
<1> DEFINE paid == {t \in DOMAIN payment : payment[t] > 0}
           Of(t) == IF t \in paid THEN payment[t] ELSE 0
           less == [t \in AllTokens |-> w.balance[from][t] - Of(t)]
           more == [t \in AllTokens |-> w.balance[to][t] + Of(t)]
           rest == [t \in AllTokens |-> IF t = Native THEN w.allowance[from][t]
                                        ELSE w.allowance[from][t] - Of(t)]
           b == [[w.balance EXCEPT ![from] = less] EXCEPT ![to] = more]
           al == [w.allowance EXCEPT ![from] = rest]
<1>1. from \in Accounts /\ to \in Accounts /\ from # to
  BY Distinct
<1>2. /\ \A t \in paid : w.balance[from][t] >= payment[t]
      /\ \A t \in paid : t = Native \/ w.allowance[from][t] >= payment[t]
      /\ v = [w EXCEPT !.balance[from] = [t \in AllTokens |-> @[t] - Of(t)],
                       !.balance[to] = [t \in AllTokens |-> @[t] + Of(t)],
                       !.allowance[from] =
                          [t \in AllTokens |-> IF t = Native THEN @[t] ELSE @[t] - Of(t)]]
  BY DEF TransferFrom, Has
<1>3. /\ w.balance \in [Accounts -> [AllTokens -> Nat]]
      /\ w.allowance \in [Users \cup {Vault} -> [AllTokens -> Nat]]
  BY DEF Worlds
<1>4. \A t \in AllTokens : Of(t) \in Nat /\ Of(t) = Cost(payment)[t]
  BY DEF Cost
<1>5. v = [w EXCEPT !.balance = b, !.allowance = al]
  BY <1>1, <1>2, <1>3 DEF Worlds
<1>6. /\ less \in [AllTokens -> Nat] /\ more \in [AllTokens -> Nat]
      /\ rest \in [AllTokens -> Nat]
  BY <1>1, <1>2, <1>3, <1>4
<1>7. \A t \in AllTokens : less[t] = w.balance[from][t] - Of(t)
                        /\ more[t] = w.balance[to][t] + Of(t)
  OBVIOUS
<1> HIDE DEF less, more, rest
<1>8. /\ b \in [Accounts -> [AllTokens -> Nat]] /\ al \in [Users \cup {Vault} -> [AllTokens -> Nat]]
      /\ b[from] = less /\ b[to] = more /\ \A x \in Accounts \ {from, to} : b[x] = w.balance[x]
  BY <1>1, <1>3, <1>6
<1> HIDE DEF b, al
<1>9. v \in Worlds /\ v.balance = b /\ v.staked = w.staked /\ v.supply = w.supply
  BY <1>5, <1>8 DEF Worlds
<1> HIDE DEF Of
<1> QED
  BY <1>4, <1>7, <1>8, <1>9 DEF PaidInto

\* And keeps the world sound.
LEMMA Pulled ==
  ASSUME NEW w, Sound(w), NEW from \in Users \cup {Vault}, NEW to \in Adapters,
         NEW S \in SUBSET AllTokens, NEW payment \in [S -> Nat],
         NEW v \in TransferFrom(w, from, to, payment)
  PROVE  Sound(v) /\ PaidInto(v, w, from, to, Cost(payment))
<1> DEFINE cost == Cost(payment)
<1>1. w \in Worlds
  BY DEF Sound
<1>2. v \in Worlds /\ PaidInto(v, w, from, to, cost) /\ v.supply = w.supply
  BY <1>1, PulledWorld
<1>3. \A r \in AllTokens : cost[r] \in Nat
  BY DEF Cost
<1> HIDE DEF cost
<1>4. /\ from \in Accounts /\ to \in Accounts /\ from # to /\ from \notin Adapters
      /\ Market \in Accounts \ {from, to} /\ Pool \in Accounts \ {from, to}
      /\ {Lp, Weth, Usdc} \subseteq AllTokens
  BY Distinct
<1>5. SumFunction(Holdings(v)) = SumFunction(Holdings(w))
  <2>1. \A c \in Accounts \ {from, to} : Holdings(v)[c] = Holdings(w)[c]
    BY <1>2, <1>4 DEF Holdings, PaidInto
  <2>2. /\ w.balance[from][Lp] \in Nat /\ w.balance[to][Lp] \in Nat /\ w.staked[to] \in Nat
    BY <1>1, <1>4 DEF Worlds
  <2>3. /\ v.balance[from][Lp] = w.balance[from][Lp] - cost[Lp]
        /\ v.balance[to][Lp] = w.balance[to][Lp] + cost[Lp]
        /\ v.staked[to] = w.staked[to] /\ cost[Lp] \in Nat
    BY <1>2, <1>3, <1>4 DEF PaidInto
  <2>4. Holdings(v)[from] + Holdings(v)[to] = Holdings(w)[from] + Holdings(w)[to]
    BY <1>4, <2>2, <2>3 DEF Holdings
  <2> QED
    BY <1>1, <1>2, <1>4, <2>1, <2>4, HoldingsMove
<1>6. /\ v.balance[Market][Lp] = w.balance[Market][Lp]
      /\ \A r \in AllTokens : v.balance[Pool][r] = w.balance[Pool][r]
  BY <1>2, <1>4 DEF PaidInto
<1>7. Sound(v)
  BY <1>2, <1>4, <1>5, <1>6 DEF Sound, Reserve
<1> QED
  BY <1>2, <1>7 DEF cost

\* The amount in proportion is no more than was offered.
LEMMA InProportion ==
  ASSUME NEW R1 \in Nat \ {0}, NEW R2 \in Nat \ {0}, NEW A \in Nat, NEW B \in Nat,
         ~((A * R2) \div R1 <= B)
  PROVE  (B * R1) \div R2 \in Nat /\ (B * R1) \div R2 <= A
<1> DEFINE p == A * R2
           q == p \div R1
           y == B * R1
           z == y \div R2
<1>1. p \in Nat /\ y \in Nat
  OBVIOUS
<1>2. q \in Nat /\ q * R1 <= p
  <2> HIDE DEF p
  <2> QED
    BY <1>1
<1>3. z \in Nat /\ z * R2 <= y
  <2> HIDE DEF y
  <2> QED
    BY <1>1
<1>4. q >= B + 1
  BY <1>2
<1> HIDE DEF q, z
<1>5. q * R1 >= (B + 1) * R1
  BY <1>2, <1>4
<1>6. (B + 1) * R1 = y + R1
  OBVIOUS
<1>7. y < p
  <2> HIDE DEF y, p
  <2>1. q * R1 \in Int
    BY <1>2
  <2> QED
    BY <1>1, <1>2, <1>5, <1>6, <2>1
<1>8. z <= A
  <2> SUFFICES ASSUME z >= A + 1 PROVE FALSE
    BY <1>3
  <2>1. z * R2 >= (A + 1) * R2
    BY <1>3
  <2>2. (A + 1) * R2 = p + R2
    OBVIOUS
  <2> HIDE DEF p, y
  <2>3. z * R2 \in Int
    BY <1>3
  <2> QED
    BY <1>1, <1>3, <1>7, <2>1, <2>2, <2>3
<1> QED
  BY <1>3, <1>8 DEF z, y

\* The smaller of two amounts is one of them.
LEMMA MinOfTwo ==
  ASSUME NEW a \in Nat, NEW b \in Nat
  PROVE  Min({a, b}) \in {a, b} /\ Min({a, b}) <= a /\ Min({a, b}) <= b
<1>1. \E x \in {a, b} : \A y \in {a, b} : x <= y
  <2>1. CASE a <= b
    BY <2>1
  <2>2. CASE b <= a
    BY <2>2
  <2> QED
    BY <2>1, <2>2
<1>2. Min({a, b}) \in {a, b} /\ \A y \in {a, b} : Min({a, b}) <= y
  BY <1>1 DEF Min
<1> QED
  BY <1>2

\* The router takes no more than it is offered.
LEMMA Quoted ==
  ASSUME NEW w, Sound(w), NEW A \in Nat, NEW B \in Nat
  PROVE  LET q == QuoteAdd(w, A, B)
         IN  q.a \in Nat /\ q.a <= A /\ q.b \in Nat /\ q.b <= B /\ q.lp \in Nat
<1> DEFINE R1 == w.balance[Pool][Weth]
           R2 == w.balance[Pool][Usdc]
           S == w.supply
           bForA == (A * R2) \div R1
           aForB == (B * R1) \div R2
           a == IF bForA <= B THEN A ELSE aForB
           b == IF bForA <= B THEN bForA ELSE B
           m == (a * S) \div R1
           n == (b * S) \div R2
<1>1. R1 \in Nat \ {0} /\ R2 \in Nat \ {0} /\ S \in Nat
  BY Reserves DEF Sound, Worlds
<1>2. QuoteAdd(w, A, B) = [a |-> a, b |-> b, lp |-> Min({m, n})]
  BY DEF QuoteAdd, Reserve
<1> HIDE DEF R1, R2, S
<1>3. bForA \in Nat
  <2> DEFINE p == A * R2
  <2>1. p \in Nat
    BY <1>1
  <2> HIDE DEF p
  <2>2. p \div R1 \in Nat
    BY <1>1, <2>1
  <2> QED
    BY <2>2 DEF p
<1>4. ~(bForA <= B) => aForB \in Nat /\ aForB <= A
  BY <1>1, InProportion
<1> HIDE DEF bForA, aForB
<1>5. a \in Nat /\ a <= A /\ b \in Nat /\ b <= B
  BY <1>3, <1>4
<1> HIDE DEF a, b
<1>6. m \in Nat /\ n \in Nat
  <2> DEFINE p == a * S
             r == b * S
  <2>1. p \in Nat /\ r \in Nat
    BY <1>1, <1>5
  <2> HIDE DEF p, r
  <2>2. p \div R1 \in Nat /\ r \div R2 \in Nat
    BY <1>1, <2>1
  <2> QED
    BY <2>2 DEF p, r
<1> HIDE DEF m, n
<1>7. Min({m, n}) \in Nat
  BY <1>6, MinOfTwo
<1> QED
  BY <1>2, <1>5, <1>7

\* Two calls after one another cost what both do.
LEMMA SpendsBoth ==
  ASSUME NEW u, NEW v, NEW w, Sound(w), NEW self \in Adapters, NEW to \in Users,
         NEW c \in [AllTokens -> Nat], NEW d \in [AllTokens -> Nat], NEW e,
         Spends(v, w, self, c, to), Spends(u, v, self, d, to),
         \A r \in AllTokens : e[r] = c[r] + d[r]
  PROVE  Spends(u, w, self, e, to)
<1>1. self \in Accounts /\ w \in Worlds
  BY Distinct DEF Sound
<1>2. ASSUME NEW r \in AllTokens PROVE u.balance[self][r] = w.balance[self][r] - e[r]
  <2>1. /\ v.balance[self][r] = w.balance[self][r] - c[r]
        /\ u.balance[self][r] = v.balance[self][r] - d[r]
    BY DEF Spends
  <2>2. w.balance[self][r] \in Nat /\ c[r] \in Nat /\ d[r] \in Nat
    BY <1>1 DEF Worlds
  <2> QED
    BY <2>1, <2>2
<1> QED
  BY <1>2 DEF Spends

\* One token goes to the pool or the recipient.
LEMMA MoveSpends ==
  ASSUME NEW w, Sound(w), NEW self \in Adapters, NEW to \in Users, NEW x \in {Pool, to},
         NEW t \in AllTokens \ {Lp}, NEW n \in Nat, n <= w.balance[self][t]
  PROVE  /\ Spends(Move(w, t, self, x, n), w, self, Cost(Pay(t, n)), to)
         /\ Move(w, t, self, x, n).staked = w.staked
<1> DEFINE v == Move(w, t, self, x, n)
           c == Cost(Pay(t, n))
<1>1. self \in Accounts \ {Pool} /\ x \in Accounts /\ self # x /\ w \in Worlds
  BY Distinct DEF Sound
<1>2. v = Changed(w, self, t, n, x, t, n)
  BY DEF Move, Changed
<1>3. Sound(v) /\ TwoEntries(v, w, self, t, n, x, t, n)
  BY <1>1, <1>2, ChangedSound
<1>4. \A r \in AllTokens : c[r] = IF r = t THEN n ELSE 0
  BY CostOfOne
<1> HIDE DEF v, c
<1>5. ASSUME NEW r \in AllTokens PROVE v.balance[self][r] = w.balance[self][r] - c[r]
  <2>1. w.balance[self][r] \in Nat
    BY <1>1 DEF Worlds
  <2> QED
    BY <1>1, <1>3, <1>4, <2>1 DEF TwoEntries
<1>6. Spends(v, w, self, c, to) /\ v.staked = w.staked
  BY <1>1, <1>3, <1>5 DEF Spends, TwoEntries
<1> QED
  BY <1>6 DEF v, c

\* A refund costs the adapter what it did not use.
LEMMA RefundSpends ==
  ASSUME NEW w, Sound(w), NEW self \in Adapters, NEW to \in Users,
         NEW t \in AllTokens \ {Lp}, NEW desired \in Nat, NEW used \in Nat, used <= desired,
         NEW v \in RefundIfExcess(w, t, self, desired, used, to)
  PROVE  Spends(v, w, self, Cost(Pay(t, desired - used)), to)
<1> DEFINE n == desired - used
<1>1. n \in Nat /\ w.balance[self][t] \in Nat /\ w \in Worlds
  BY Distinct DEF Sound, Worlds
<1>2. CASE desired <= used
  <2>1. v = w /\ n = 0
    BY <1>2 DEF RefundIfExcess
  <2>2. \A r \in AllTokens : Cost(Pay(t, n))[r] = 0
    BY <2>1, CostOfOne
  <2>3. \A r \in AllTokens : w.balance[self][r] \in Nat
    BY <1>1, Distinct DEF Worlds
  <2> HIDE DEF n
  <2>4. \A r \in AllTokens : w.balance[self][r] = w.balance[self][r] - Cost(Pay(t, n))[r]
    BY <2>2, <2>3
  <2>5. Spends(v, w, self, Cost(Pay(t, n)), to)
    BY <2>1, <2>4 DEF Spends
  <2> QED
    BY <2>5 DEF n
<1>3. CASE ~(desired <= used)
  <2>1. v = Move(w, t, self, to, n) /\ n <= w.balance[self][t]
    BY <1>1, <1>3 DEF RefundIfExcess, Has
  <2> HIDE DEF n
  <2>2. Spends(v, w, self, Cost(Pay(t, n)), to)
    BY <1>1, <2>1, MoveSpends
  <2> QED
    BY <2>2 DEF n
<1> QED
  BY <1>2, <1>3

\* What enters the pool and what comes back is what was paid.
LEMMA AddSpends ==
  ASSUME NEW w, Sound(w), NEW self \in Adapters, NEW to \in Users,
         NEW r, r.recipient = to, r.amountA \in Nat, r.amountB \in Nat,
         NEW v \in addLiquidity(w, self, r),
         NEW c, \A t \in AllTokens :
                  c[t] = IF t = Weth THEN r.amountA ELSE IF t = Usdc THEN r.amountB ELSE 0
  PROVE  Spends(v, w, self, c, to)
<1> DEFINE q == QuoteAdd(w, r.amountA, r.amountB)
           w1 == Move(w, Weth, self, Pool, q.a)
           w2 == Move(w1, Usdc, self, Pool, q.b)
           w3 == Minted(w2, to, q.lp)
           One(t, n) == Cost(Pay(t, n))
<1>1. /\ q.a \in Nat /\ q.a <= r.amountA /\ q.b \in Nat /\ q.b <= r.amountB /\ q.lp \in Nat
  BY Quoted
<1>2. /\ Weth \in AllTokens \ {Lp} /\ Usdc \in AllTokens \ {Lp} /\ Weth # Usdc
      /\ Lp \in AllTokens
      /\ to \in Accounts \ {Market, Pool} /\ self \in Accounts /\ self # to /\ w \in Worlds
  BY Distinct DEF Sound
<1>3. \A t, n : \A s \in AllTokens : One(t, n)[s] = IF s = t THEN n ELSE 0
  BY CostOfOne
<1>4. \A t, n : n \in Nat => One(t, n) \in [AllTokens -> Nat]
  BY DEF Cost, Pay
<1>5. /\ w.balance[self][Weth] >= q.a /\ w.balance[self][Usdc] >= q.b
      /\ \E w4 \in RefundIfExcess(w3, Weth, self, r.amountA, q.a, to) :
            v \in RefundIfExcess(w4, Usdc, self, r.amountB, q.b, to)
  <2> DEFINE ws == AddToPool(w, self, r.amountA, r.amountB, r.minA, r.minB, to)
             RA(x) == RefundIfExcess(x, Weth, self, r.amountA, q.a, to)
             RB(x) == RefundIfExcess(x, Usdc, self, r.amountB, q.b, to)
  <2>1. v \in UNION {RB(x) : x \in UNION {RA(y) : y \in ws}}
    BY DEF addLiquidity, AndThen
  <2>2. \A y \in ws : y = w3 /\ Has(w, Weth, self, q.a) /\ Has(w, Usdc, self, q.b)
    BY DEF AddToPool, Minted
  <2> HIDE DEF ws
  <2>3. PICK y \in ws : \E x \in RA(y) : v \in RB(x)
    BY <2>1
  <2>4. w.balance[self][Weth] \in Nat /\ w.balance[self][Usdc] \in Nat
    BY <1>2 DEF Worlds
  <2> QED
    BY <2>2, <2>3, <2>4 DEF Has
<1>6. PICK w4 \in RefundIfExcess(w3, Weth, self, r.amountA, q.a, to) :
        v \in RefundIfExcess(w4, Usdc, self, r.amountB, q.b, to)
  BY <1>5
<1> HIDE DEF q
<1>7. Spends(w1, w, self, One(Weth, q.a), to)
  BY <1>1, <1>2, <1>5, MoveSpends
<1> HIDE DEF w1
<1>8. Sound(w1) /\ w1.balance[self][Usdc] = w.balance[self][Usdc]
  <2>1. w1.balance[self][Usdc] = w.balance[self][Usdc] - One(Weth, q.a)[Usdc]
    BY <1>2, <1>7 DEF Spends
  <2>2. One(Weth, q.a)[Usdc] = 0 /\ w.balance[self][Usdc] \in Nat
    BY <1>2, <1>3 DEF Worlds
  <2> HIDE DEF One
  <2>3. w1.balance[self][Usdc] = w.balance[self][Usdc]
    BY <2>1, <2>2
  <2> QED
    BY <1>7, <2>3 DEF Spends
<1>9. Spends(w2, w1, self, One(Usdc, q.b), to)
  BY <1>1, <1>2, <1>5, <1>8, MoveSpends
<1> HIDE DEF w2
<1>10. Spends(w3, w2, self, One(Lp, 0), to)
  <2>1. Sound(w2) /\ w2 \in Worlds
    BY <1>9 DEF Spends, Sound
  <2>2. Sound(w3) /\ OneHolder(w3, w2, to, w2.balance[to][Lp] + q.lp)
    BY <1>1, <1>2, <2>1, MintSound
  <2>3. \A t \in AllTokens : One(Lp, 0)[t] = 0
    BY <1>3
  <2>4. \A t \in AllTokens : w2.balance[self][t] \in Nat
    BY <1>2, <2>1 DEF Worlds
  <2> HIDE DEF w3, One
  <2>5. \A t \in AllTokens : w3.balance[self][t] = w2.balance[self][t] - One(Lp, 0)[t]
    BY <1>2, <2>2, <2>3, <2>4 DEF OneHolder
  <2> QED
    BY <2>2, <2>5 DEF Spends, OneHolder
<1> HIDE DEF w3
<1>11. Spends(w4, w3, self, One(Weth, r.amountA - q.a), to)
  <2>1. Sound(w3)
    BY <1>10 DEF Spends
  <2> QED
    BY <1>1, <1>2, <1>6, <2>1, RefundSpends
<1>12. Spends(v, w4, self, One(Usdc, r.amountB - q.b), to)
  <2>1. Sound(w4)
    BY <1>11 DEF Spends
  <2> QED
    BY <1>1, <1>2, <1>6, <2>1, RefundSpends
<1>13. /\ One(Weth, q.a) \in [AllTokens -> Nat] /\ One(Usdc, q.b) \in [AllTokens -> Nat]
       /\ One(Lp, 0) \in [AllTokens -> Nat]
       /\ One(Weth, r.amountA - q.a) \in [AllTokens -> Nat]
       /\ One(Usdc, r.amountB - q.b) \in [AllTokens -> Nat]
  BY <1>1, <1>4
<1>14. /\ \A t \in AllTokens : One(Weth, q.a)[t] = IF t = Weth THEN q.a ELSE 0
       /\ \A t \in AllTokens : One(Usdc, q.b)[t] = IF t = Usdc THEN q.b ELSE 0
       /\ \A t \in AllTokens : One(Lp, 0)[t] = 0
       /\ \A t \in AllTokens :
            One(Weth, r.amountA - q.a)[t] = IF t = Weth THEN r.amountA - q.a ELSE 0
       /\ \A t \in AllTokens :
            One(Usdc, r.amountB - q.b)[t] = IF t = Usdc THEN r.amountB - q.b ELSE 0
  BY <1>3
<1> HIDE DEF One
<1> DEFINE c2 == [t \in AllTokens |-> One(Weth, q.a)[t] + One(Usdc, q.b)[t]]
           c3 == [t \in AllTokens |-> c2[t] + One(Lp, 0)[t]]
           c4 == [t \in AllTokens |-> c3[t] + One(Weth, r.amountA - q.a)[t]]
<1>15. /\ c2 \in [AllTokens -> Nat]
       /\ \A t \in AllTokens : c2[t] = One(Weth, q.a)[t] + One(Usdc, q.b)[t]
  BY <1>13
<1>16. Spends(w2, w, self, c2, to)
  BY <1>7, <1>9, <1>13, <1>15, SpendsBoth
<1> HIDE DEF c2
<1>17. /\ c3 \in [AllTokens -> Nat]
       /\ \A t \in AllTokens : c3[t] = c2[t] + One(Lp, 0)[t]
  BY <1>13, <1>15
<1>18. Spends(w3, w, self, c3, to)
  BY <1>10, <1>13, <1>15, <1>16, <1>17, SpendsBoth
<1> HIDE DEF c3
<1>19. /\ c4 \in [AllTokens -> Nat]
       /\ \A t \in AllTokens : c4[t] = c3[t] + One(Weth, r.amountA - q.a)[t]
  BY <1>13, <1>17
<1>20. Spends(w4, w, self, c4, to)
  BY <1>11, <1>13, <1>17, <1>18, <1>19, SpendsBoth
<1> HIDE DEF c4
<1>21. \A t \in AllTokens : c[t] = c4[t] + One(Usdc, r.amountB - q.b)[t]
  BY <1>1, <1>2, <1>14, <1>15, <1>17, <1>19
<1> QED
  BY <1>12, <1>13, <1>19, <1>20, <1>21, SpendsBoth

\* The pool's share goes to the recipient, the liquidity from the adapter.
LEMMA RemoveSpends ==
  ASSUME NEW w, Sound(w), NEW self \in Adapters, NEW to \in Users,
         NEW r, r.recipient = to, r.liquidity \in Nat,
         NEW v \in removeLiquidity(w, self, r)
  PROVE  /\ Spends(v, w, self, Cost(Pay(Lp, r.liquidity)), to)
         /\ v.staked = w.staked /\ v.balance[to][Lp] = w.balance[to][Lp]
<1> DEFINE n == r.liquidity
           A == w.balance[Pool][Weth]
           B == w.balance[Pool][Usdc]
           S == w.supply
           a == (n * A) \div S
           b == (n * B) \div S
           w1 == Changed(w, Pool, Weth, a, to, Weth, a)
           w2 == Changed(w1, Pool, Usdc, b, to, Usdc, b)
           c == Cost(Pay(Lp, n))
<1>1. /\ Weth \in AllTokens \ {Lp} /\ Usdc \in AllTokens \ {Lp} /\ Weth # Usdc
      /\ Lp \in AllTokens /\ Pool \in Accounts /\ Pool # to
      /\ to \in Accounts \ {Market, Pool} /\ self \in Accounts \ {Market, Pool}
      /\ self # to /\ w \in Worlds
  BY Distinct DEF Sound
<1>2. v = Burnt(w2, self, n) /\ n <= w.balance[self][Lp]
  <2>1. v = Burnt(w2, self, n) /\ Has(w, Lp, self, n)
    BY Zenon DEF removeLiquidity, RemoveFromPool, QuoteRemove, Burnt, Reserve, Move, Changed
  <2>2. w.balance[self][Lp] \in Nat
    BY <1>1 DEF Worlds
  <2> HIDE DEF w2
  <2>3. n <= w.balance[self][Lp]
    BY <2>1, <2>2 DEF Has
  <2> QED
    BY Zenon, <2>1, <2>3
<1>3. A \in Nat \ {0} /\ B \in Nat \ {0} /\ S \in Nat \ {0}
  BY Reserves, <1>1 DEF Worlds
<1>4. n < S
  BY <1>1, <1>2, MoreThanHeld
<1> HIDE DEF A, B, S
<1>5. a \in Nat /\ a < A /\ b \in Nat /\ b < B
  BY <1>3, <1>4, PoolSuffices
<1> HIDE DEF a, b
<1>6. Sound(w1) /\ TwoEntries(w1, w, Pool, Weth, a, to, Weth, a)
  <2>1. a < w.balance[Pool][Weth] /\ a <= w.balance[Pool][Weth]
    BY <1>3, <1>5 DEF A
  <2> QED
    BY <1>1, <1>5, <2>1, ChangedSound
<1> HIDE DEF w1
<1>7. Sound(w2) /\ TwoEntries(w2, w1, Pool, Usdc, b, to, Usdc, b)
  <2>1. w1.balance[Pool][Usdc] = B
    BY <1>1, <1>6 DEF TwoEntries, B
  <2>2. b < w1.balance[Pool][Usdc] /\ b <= w1.balance[Pool][Usdc]
    BY <1>3, <1>5, <2>1
  <2> QED
    BY <1>1, <1>5, <1>6, <2>2, ChangedSound
<1> HIDE DEF w2
<1>8. /\ \A x \in Accounts \ {to, Pool}, t \in AllTokens : w2.balance[x][t] = w.balance[x][t]
      /\ w2.staked = w.staked /\ w2.balance[to][Lp] = w.balance[to][Lp]
  BY <1>1, <1>6, <1>7 DEF TwoEntries
<1>9. Sound(v) /\ OneHolder(v, w2, self, w2.balance[self][Lp] - n)
  <2>1. n <= w2.balance[self][Lp]
    BY <1>1, <1>2, <1>8
  <2> QED
    BY <1>1, <1>2, <1>7, <2>1, BurnSound
<1>10. \A t \in AllTokens : c[t] = IF t = Lp THEN n ELSE 0
  BY CostOfOne
<1> HIDE DEF c, n
<1>11. ASSUME NEW t \in AllTokens PROVE v.balance[self][t] = w.balance[self][t] - c[t]
  <2>1. w.balance[self][t] \in Nat /\ w2.balance[self][t] = w.balance[self][t]
    BY <1>1, <1>8 DEF Worlds
  <2> QED
    BY <1>1, <1>9, <1>10, <2>1 DEF OneHolder
<1>12. Spends(v, w, self, c, to)
  BY <1>1, <1>8, <1>9, <1>11 DEF Spends, OneHolder
<1>13. v.staked = w.staked /\ v.balance[to][Lp] = w.balance[to][Lp]
  BY <1>1, <1>8, <1>9 DEF OneHolder
<1> QED
  BY <1>12, <1>13 DEF c, n

\* The gauge takes the liquidity from the adapter.
LEMMA StakeSpends ==
  ASSUME NEW w, Sound(w), NEW self \in Adapters, NEW to \in Users,
         NEW r, r.amount \in Nat, NEW v \in stake(w, self, r)
  PROVE  Spends(v, w, self, Cost(Pay(Lp, r.amount)), to)
<1> DEFINE n == r.amount
           k == w.balance[self][Lp] - n
           m == w.staked[self] + n
           c == Cost(Pay(Lp, n))
<1>1. /\ Lp \in AllTokens /\ self \in Accounts /\ w \in Worlds
      /\ w.balance[self][Lp] \in Nat /\ w.staked[self] \in Nat
  BY Distinct DEF Sound, Worlds
<1>2. /\ n <= w.balance[self][Lp]
      /\ v = Restaked(w, self, k, m)
  BY <1>1 DEF stake, GaugeDeposit, Has, Restaked
<1>3. k \in Nat /\ m \in Nat /\ k + m = w.balance[self][Lp] + w.staked[self]
  BY <1>1, <1>2
<1> HIDE DEF m
<1>4. \A t \in AllTokens : c[t] = IF t = Lp THEN n ELSE 0
  BY CostOfOne
<1> HIDE DEF c
<1>5. k = w.balance[self][Lp] - n
  OBVIOUS
<1> HIDE DEF k
<1>6. /\ Sound(v) /\ v.balance[self][Lp] = k
      /\ \A x \in Accounts, t \in AllTokens :
           <<x, t>> # <<self, Lp>> => v.balance[x][t] = w.balance[x][t]
      /\ \A a \in Adapters \ {self} : v.staked[a] = w.staked[a]
  BY <1>2, <1>3, StakeSound
<1>7. ASSUME NEW t \in AllTokens PROVE v.balance[self][t] = w.balance[self][t] - c[t]
  <2>1. w.balance[self][t] \in Nat
    BY <1>1 DEF Worlds
  <2> QED
    BY <1>1, <1>4, <1>5, <1>6, <2>1
<1>8. Spends(v, w, self, c, to)
  BY <1>6, <1>7 DEF Spends
<1> QED
  BY <1>8 DEF c

\* What the gauge gives back goes on to the recipient, and costs nothing.
LEMMA UnstakeSpends ==
  ASSUME NEW w, Sound(w), NEW self \in Adapters, NEW to \in Users,
         NEW r, r.recipient = to, r.amount \in Nat, NEW v \in unstake(w, self, r),
         NEW c, \A t \in AllTokens : c[t] = 0
  PROVE  /\ Spends(v, w, self, c, to)
         /\ v.staked[self] = w.staked[self] - r.amount
         /\ v.balance[to][Lp] = w.balance[to][Lp] + r.amount
         /\ \A t \in AllTokens : v.balance[Pool][t] = w.balance[Pool][t]
         /\ v.supply = w.supply /\ v.allowance = w.allowance
<1> DEFINE n == r.amount
           k == w.balance[self][Lp] + n
           m == w.staked[self] - n
           w1 == Restaked(w, self, k, m)
<1>1. /\ Lp \in AllTokens /\ self \in Accounts \ {Market, Pool} /\ w \in Worlds
      /\ to \in Accounts \ {Market, Pool} /\ self # to
      /\ w.balance[self][Lp] \in Nat /\ w.staked[self] \in Nat
  BY Distinct DEF Sound, Worlds
<1>2. n <= w.staked[self] /\ v = Move(w1, Lp, self, to, n)
  <2>1. /\ v \in UNION {{Move(x, Lp, self, to, n)} : x \in GaugeWithdraw(w, self, n)}
    BY DEF unstake, AndThen
  <2>2. \A x \in GaugeWithdraw(w, self, n) : x = w1 /\ w.staked[self] >= n
    BY DEF GaugeWithdraw, Restaked
  <2> HIDE DEF w1
  <2> QED
    BY <1>1, <2>1, <2>2
<1>3. /\ k \in Nat /\ m \in Nat /\ k + m = w.balance[self][Lp] + w.staked[self] /\ n <= k
      /\ m = w.staked[self] - n
  BY <1>1, <1>2
<1> HIDE DEF m
<1>4. k = w.balance[self][Lp] + n
  OBVIOUS
<1> HIDE DEF k
<1>5. /\ Sound(w1) /\ w1.balance[self][Lp] = k
      /\ \A x \in Accounts, t \in AllTokens :
           <<x, t>> # <<self, Lp>> => w1.balance[x][t] = w.balance[x][t]
      /\ \A a \in Adapters \ {self} : w1.staked[a] = w.staked[a]
      /\ w1.staked[self] = m /\ w1.supply = w.supply /\ w1.allowance = w.allowance
  BY <1>3, StakeSound
<1> HIDE DEF w1
<1>6. v = Changed(w1, self, Lp, n, to, Lp, n)
  BY <1>2 DEF Move, Changed
<1>7. Sound(v) /\ TwoEntries(v, w1, self, Lp, n, to, Lp, n)
  BY <1>1, <1>3, <1>5, <1>6, LiquidityMoved
<1>8. ASSUME NEW t \in AllTokens PROVE v.balance[self][t] = w.balance[self][t] - c[t]
  <2>1. w.balance[self][t] \in Nat
    BY <1>1 DEF Worlds
  <2>2. v.balance[self][t] = w.balance[self][t]
    BY <1>1, <1>4, <1>5, <1>7, <2>1 DEF TwoEntries
  <2> QED
    BY <2>1, <2>2
<1>9. Spends(v, w, self, c, to)
  BY <1>1, <1>5, <1>7, <1>8 DEF Spends, TwoEntries
<1>10. /\ v.staked[self] = m /\ v.balance[to][Lp] = w.balance[to][Lp] + n
       /\ \A t \in AllTokens : v.balance[Pool][t] = w.balance[Pool][t]
       /\ v.supply = w.supply /\ v.allowance = w.allowance
  BY <1>1, <1>5, <1>7, Distinct DEF TwoEntries
<1> QED
  BY <1>3, <1>9, <1>10

\* So does the reward.
LEMMA ClaimSpends ==
  ASSUME NEW w, Sound(w), NEW self \in Adapters, NEW to \in Users,
         NEW r, r.recipient = to, NEW v \in claimRewards(w, self, r),
         NEW c, \A t \in AllTokens : c[t] = 0
  PROVE  Spends(v, w, self, c, to)
<1> DEFINE n == w.earned[self]
           k == w.balance[self][Aero] + n
           b == [w.balance EXCEPT ![self][Aero] = k]
           e == [w.earned EXCEPT ![self] = 0]
           w1 == GaugeReward(w, self)
<1>1. /\ Aero \in AllTokens \ {Lp} /\ self \in Accounts \ {Market, Pool} /\ w \in Worlds
      /\ Lp \in AllTokens /\ Market \in Accounts /\ Pool \in Accounts
      /\ Weth \in AllTokens /\ Usdc \in AllTokens
      /\ w.balance[self][Aero] \in Nat /\ w.earned \in [Adapters -> Nat]
      /\ w.balance \in Balances
  BY Distinct DEF Sound, Worlds, Balances
<1>2. n \in Nat /\ k \in Nat /\ k = w.balance[self][Aero] + n
  BY <1>1
<1>0. GaugeReward(w, self) = [w EXCEPT !.balance[self][Aero] = k, !.earned[self] = 0]
  BY DEF GaugeReward
<1> HIDE DEF k, n
<1>3. /\ b \in Balances /\ b[self][Aero] = k
      /\ \A x \in Accounts, t \in AllTokens : x # self \/ t # Aero => b[x][t] = w.balance[x][t]
  BY <1>1, <1>2, Update
<1>4. e \in [Adapters -> Nat]
  BY <1>1
<1>5. w1 = [w EXCEPT !.balance = b, !.earned = e]
  BY <1>0, <1>1 DEF Worlds
<1>6. v = Move(w1, Aero, self, to, w1.balance[self][Aero] - w.balance[self][Aero])
  BY DEF claimRewards
<1> HIDE DEF w1, b, e
<1>7. w1 \in Worlds /\ w1.balance = b /\ w1.staked = w.staked /\ w1.supply = w.supply
  BY <1>1, <1>3, <1>4, <1>5 DEF Worlds, Balances
<1>8. \A x \in Accounts : w1.balance[x][Lp] = w.balance[x][Lp]
  BY <1>1, <1>3, <1>7
<1>9. Holdings(w1) = Holdings(w)
  BY <1>1, <1>7, <1>8, SameHoldings
<1>10. Sound(w1)
  <2>1. w1.balance[Pool][Weth] = w.balance[Pool][Weth]
        /\ w1.balance[Pool][Usdc] = w.balance[Pool][Usdc]
    BY <1>1, <1>3, <1>7
  <2> QED
    BY <1>1, <1>7, <1>8, <1>9, <2>1 DEF Sound, Reserve
<1>11. w1.balance[self][Aero] = k /\ k - w.balance[self][Aero] = n
  BY <1>1, <1>2, <1>3, <1>7
<1>12. v = Move(w1, Aero, self, to, n) /\ n <= w1.balance[self][Aero]
  BY <1>1, <1>2, <1>6, <1>11
<1>13. /\ Spends(v, w1, self, Cost(Pay(Aero, n)), to) /\ v.staked = w1.staked
  BY <1>1, <1>2, <1>10, <1>12, MoveSpends
<1>14. \A t \in AllTokens : Cost(Pay(Aero, n))[t] = IF t = Aero THEN n ELSE 0
  BY CostOfOne
<1>15. ASSUME NEW t \in AllTokens PROVE v.balance[self][t] = w.balance[self][t] - c[t]
  <2>1. w.balance[self][t] \in Nat
    BY <1>1 DEF Worlds
  <2>2. v.balance[self][t] = w1.balance[self][t] - (IF t = Aero THEN n ELSE 0)
    BY <1>13, <1>14 DEF Spends
  <2>3. w1.balance[self][t] = w.balance[self][t] + (IF t = Aero THEN n ELSE 0)
    BY <1>1, <1>2, <1>3, <1>7, <2>1
  <2> QED
    BY <1>2, <2>1, <2>2, <2>3
<1>16. \A x \in Accounts \ {self, to, Pool}, t \in AllTokens : v.balance[x][t] = w.balance[x][t]
  BY <1>3, <1>7, <1>13 DEF Spends
<1> QED
  BY <1>7, <1>13, <1>15, <1>16 DEF Spends

-----------------------------------------------------------------------------
(* Steps of bundles                                                        *)

SwapCalls(u) == [action : {"swap"}, tokenIn : Traded, tokenOut : Traded, amountIn : Nat,
                 amountOutMin : Nat, recipient : {u}]
AddCalls(u) == [action : {"addLiquidity"}, amountA : Nat, amountB : Nat, minA : Nat,
                minB : Nat, recipient : {u}]
RemoveCalls(u) == [action : {"removeLiquidity"}, liquidity : Nat, minA : Nat, minB : Nat,
                   recipient : {u}]
StakeCalls == [action : {"stake"}, amount : Nat]
UnstakeCalls(u) == [action : {"unstake"}, amount : Nat, recipient : {u}]
ClaimCalls(u) == [action : {"claimRewards"}, recipient : {u}]

\* What a user may be asked to call: everything is for the user.
AdapterCalls(u) == SwapCalls(u) \cup AddCalls(u) \cup RemoveCalls(u) \cup StakeCalls
                   \cup UnstakeCalls(u) \cup ClaimCalls(u)

\* What the adapter uses of a token in a call.
Uses(call, t) ==
    CASE call.action = "swap" -> IF t = call.tokenIn THEN call.amountIn ELSE 0
      [] call.action = "addLiquidity" ->
            IF t = Weth THEN call.amountA ELSE IF t = Usdc THEN call.amountB ELSE 0
      [] call.action = "removeLiquidity" -> IF t = Lp THEN call.liquidity ELSE 0
      [] call.action = "stake" -> IF t = Lp THEN call.amount ELSE 0
      [] OTHER -> 0

AmountsOf(S) == [S -> Nat]

Approvals == [kind : {"approve"}, token : AllTokens, amount : Nat]

Executions(u) == [kind : {"execute"}, protocol : {Aerodrome}, call : AdapterCalls(u),
                  payment : UNION {AmountsOf(S) : S \in SUBSET AllTokens}, deadline : Nat]

\* The step pays what its call uses, no more and no less.
PaysForItself(st) == \A t \in AllTokens : Cost(st.payment)[t] = Uses(st.call, t)

\* The steps a user is given to sign.
Steps(u) == Approvals \cup {st \in Executions(u) : PaysForItself(st)}

\* A call costs what it costs, however that is written.
LEMMA SameCost ==
  ASSUME NEW v, NEW w, NEW self, NEW to, NEW c, NEW d, Spends(v, w, self, c, to),
         \A t \in AllTokens : d[t] = c[t]
  PROVE  Spends(v, w, self, d, to)
BY DEF Spends

\* A call that pays for itself leaves no more and no less in the adapter than was there
\* before the payment.
LEMMA Dispatched ==
  ASSUME NEW w, Sound(w), NEW u \in Users, NEW self \in Adapters,
         NEW call \in AdapterCalls(u), NEW cost, \A t \in AllTokens : cost[t] = Uses(call, t),
         NEW v \in Dispatch(self, call, w)
  PROVE  Spends(v, w, self, cost, u)
<1>1. CASE call \in SwapCalls(u)
  <2>1. /\ call.action = "swap" /\ call.tokenIn \in Traded /\ call.tokenOut \in Traded
        /\ call.amountIn \in Nat /\ call.recipient = u
    BY <1>1 DEF SwapCalls
  <2>2. v \in SwapExact(w, self, call.tokenIn, call.tokenOut, call.amountIn,
                        call.amountOutMin, u)
    BY <2>1 DEF Dispatch, swap
  <2>3. Spends(v, w, self, Cost(Pay(call.tokenIn, call.amountIn)), u)
    BY <2>1, <2>2, SwapSpends
  <2>4. \A t \in AllTokens : cost[t] = IF t = call.tokenIn THEN call.amountIn ELSE 0
    BY <2>1 DEF Uses
  <2>5. \A t \in AllTokens : cost[t] = Cost(Pay(call.tokenIn, call.amountIn))[t]
    BY <2>4, CostOfOne
  <2> QED
    BY <2>3, <2>5, SameCost
<1>2. CASE call \in AddCalls(u)
  <2>1. /\ call.action = "addLiquidity" /\ call.amountA \in Nat /\ call.amountB \in Nat
        /\ call.recipient = u
    BY <1>2 DEF AddCalls
  <2>2. v \in addLiquidity(w, self, call)
    BY <2>1 DEF Dispatch
  <2>3. \A t \in AllTokens : cost[t] = IF t = Weth THEN call.amountA
                                       ELSE IF t = Usdc THEN call.amountB ELSE 0
    BY <2>1 DEF Uses
  <2> QED
    BY <2>1, <2>2, <2>3, AddSpends
<1>3. CASE call \in RemoveCalls(u)
  <2>1. /\ call.action = "removeLiquidity" /\ call.liquidity \in Nat /\ call.recipient = u
    BY <1>3 DEF RemoveCalls
  <2>2. v \in removeLiquidity(w, self, call)
    BY <2>1 DEF Dispatch
  <2>3. \A t \in AllTokens : cost[t] = IF t = Lp THEN call.liquidity ELSE 0
    BY <2>1 DEF Uses
  <2>4. \A t \in AllTokens : cost[t] = Cost(Pay(Lp, call.liquidity))[t]
    BY <2>3, CostOfOne
  <2> QED
    BY <2>1, <2>2, <2>4, RemoveSpends, SameCost
<1>4. CASE call \in StakeCalls
  <2>1. call.action = "stake" /\ call.amount \in Nat
    BY <1>4 DEF StakeCalls
  <2>2. v \in stake(w, self, call)
    BY <2>1 DEF Dispatch
  <2>3. \A t \in AllTokens : cost[t] = IF t = Lp THEN call.amount ELSE 0
    BY <2>1 DEF Uses
  <2>4. \A t \in AllTokens : cost[t] = Cost(Pay(Lp, call.amount))[t]
    BY <2>3, CostOfOne
  <2> QED
    BY <2>1, <2>2, <2>4, StakeSpends, SameCost
<1>5. CASE call \in UnstakeCalls(u)
  <2>1. call.action = "unstake" /\ call.amount \in Nat /\ call.recipient = u
    BY <1>5 DEF UnstakeCalls
  <2>2. v \in unstake(w, self, call)
    BY <2>1 DEF Dispatch
  <2>3. \A t \in AllTokens : cost[t] = 0
    BY <2>1 DEF Uses
  <2> QED
    BY <2>1, <2>2, <2>3, UnstakeSpends
<1>6. CASE call \in ClaimCalls(u)
  <2>1. call.action = "claimRewards" /\ call.recipient = u
    BY <1>6 DEF ClaimCalls
  <2>2. v \in claimRewards(w, self, call)
    BY <2>1 DEF Dispatch
  <2>3. \A t \in AllTokens : cost[t] = 0
    BY <2>1 DEF Uses
  <2> QED
    BY <2>1, <2>2, <2>3, ClaimSpends
<1> QED
  BY <1>1, <1>2, <1>3, <1>4, <1>5, <1>6 DEF AdapterCalls

\* Nothing is held by a proxy or the executor.
Passages(w) == \A c \in Adapters \cup {Executor}, t \in AllTokens : w.balance[c][t] = 0

\* Only these accounts, and of the stakes only one adapter's, are touched.
Touches(v, w, payer, u, self) ==
    /\ \A x \in Accounts \ {payer, u, self, Pool}, t \in AllTokens :
         v.balance[x][t] = w.balance[x][t]
    /\ \A a \in Adapters \ {self} : v.staked[a] = w.staked[a]

\* A routed call that pays for itself passes everything on.
LEMMA RoutedWorld ==
  ASSUME NEW w, Sound(w), Passages(w), NEW u \in Users, NEW payer \in {u, Vault},
         NEW self \in Adapters, NEW call \in AdapterCalls(u),
         NEW payment \in UNION {AmountsOf(S) : S \in SUBSET AllTokens},
         \A t \in AllTokens : Cost(payment)[t] = Uses(call, t),
         NEW paid \in TransferFrom(w, payer, self, payment),
         NEW v \in Dispatch(self, call, paid)
  PROVE  Sound(v) /\ Passages(v) /\ Touches(v, w, payer, u, self)
<1> DEFINE cost == Cost(payment)
<1>1. PICK S \in SUBSET AllTokens : payment \in [S -> Nat]
  BY DEF AmountsOf
<1>2. Sound(paid) /\ PaidInto(paid, w, payer, self, cost)
  BY <1>1, Pulled
<1>3. Spends(v, paid, self, cost, u)
  BY <1>2, Dispatched
<1>4. \A t \in AllTokens : cost[t] \in Nat
  BY <1>1 DEF Cost
<1> HIDE DEF cost
<1>5. /\ self \in Accounts /\ payer \in Accounts \ {self} /\ Executor \in Accounts
      /\ Adapters \subseteq Accounts
      /\ Executor \notin {payer, u, self, Pool}
      /\ Adapters \cap {payer, u, Pool} = {}
  BY Distinct
<1>6. Touches(v, w, payer, u, self)
  BY <1>2, <1>3 DEF Touches, PaidInto, Spends
<1>7. ASSUME NEW c \in Adapters \cup {Executor}, NEW t \in AllTokens
      PROVE  v.balance[c][t] = 0
  <2>1. CASE c = self
    <3>1. /\ paid.balance[self][t] = w.balance[self][t] + cost[t]
          /\ v.balance[self][t] = paid.balance[self][t] - cost[t]
          /\ w.balance[self][t] = 0
      BY <1>2, <1>3 DEF PaidInto, Spends, Passages
    <3> QED
      BY <1>4, <2>1, <3>1
  <2>2. CASE c # self
    BY <1>5, <1>6, <2>2 DEF Touches, Passages
  <2> QED
    BY <2>1, <2>2
<1> QED
  BY <1>3, <1>6, <1>7 DEF Spends, Passages

-----------------------------------------------------------------------------
(* The registry                                                            *)

\* Beside the types: a beacon comes with its arguments, and an adapter stands in the slot
\* of its user.
RegistryOK ==
    /\ Base!TypeOK
    /\ protocolBeacons[Aerodrome] # NoAddress => protocolInitArgs[Aerodrome] \in InitArgs
    /\ \A u \in Users : userAdapters[Aerodrome][u] # NoAddress =>
          userAdapters[Aerodrome][u].user = u

\* What the instance of the executor's module calls an adapter.
LEMMA SameAdapters == Base!Adapter = Adapters
BY DEF Base!Adapter, Adapters

\* At the start those who have a stake have an adapter.
LEMMA RegistryInit ==
  ASSUME Init
  PROVE  /\ RegistryOK
         /\ \A u \in Users : InitialStake[u] # 0 =>
               userAdapters[Aerodrome][u] \in Adapters /\ userAdapters[Aerodrome][u].user = u
<1>1. /\ NoAddress \notin Beacons /\ Horizon \in Nat
  BY StrategiesAssumption DEF Base!ExecutorAssumption
<1>2. /\ protocolBeacons \in [{Aerodrome} -> Beacons]
      /\ protocolInitArgs \in [{Aerodrome} -> InitArgs]
      /\ userAdapters = [p \in {Aerodrome} |-> [u \in Users |->
           IF InitialStake[u] = 0 THEN NoAddress ELSE Base!predictUserAdapter(p, u)]]
  BY DEF Init
<1>3. ASSUME NEW u \in Users
      PROVE  Base!predictUserAdapter(Aerodrome, u) \in Adapters
             /\ Base!predictUserAdapter(Aerodrome, u).user = u
  <2>1. Base!predictUserAdapter(Aerodrome, u) = Base!Create2(Aerodrome, u)
    BY <1>1, <1>2 DEF Base!predictUserAdapter
  <2>2. protocolBeacons[Aerodrome] \in Beacons /\ protocolInitArgs[Aerodrome] \in InitArgs
    BY <1>2
  <2> QED
    BY <2>1, <2>2 DEF Base!Create2, Adapters
<1>4. \A u \in Users : userAdapters[Aerodrome][u] =
         IF InitialStake[u] = 0 THEN NoAddress ELSE Base!predictUserAdapter(Aerodrome, u)
  BY <1>2
<1>5. userAdapters \in [{Aerodrome} -> [Users -> Adapters \cup {NoAddress}]]
  <2> DEFINE A == Adapters \cup {NoAddress}
             row(p) == [u \in Users |->
                IF InitialStake[u] = 0 THEN NoAddress ELSE Base!predictUserAdapter(p, u)]
  <2>1. row(Aerodrome) \in [Users -> A]
    BY <1>3
  <2>2. userAdapters = [p \in {Aerodrome} |-> row(p)]
    BY <1>2
  <2> HIDE DEF row, A
  <2>3. userAdapters \in [{Aerodrome} -> [Users -> A]]
    BY <2>1, <2>2
  <2> QED
    BY <2>3 DEF A
<1>6. Base!TypeOK
  <2>1. /\ now \in 0 .. Horizon /\ owner \in Admins /\ pendingOwner \in Admins \cup {NoAddress}
        /\ authorizedOperators \subseteq {Vault}
        /\ pendingBeaconRemovals \in [{Aerodrome} -> Nat] /\ scheduledAt \in [{Aerodrome} -> Nat]
    BY <1>1 DEF Init
  <2>2. /\ protocolBeacons \in [{Aerodrome} -> Beacons \cup {NoAddress}]
        /\ protocolInitArgs \in [{Aerodrome} -> InitArgs \cup {NoAddress}]
    BY <1>2
  <2> QED
    BY <1>5, <2>1, <2>2, SameAdapters DEF Base!TypeOK
<1>7. protocolInitArgs[Aerodrome] \in InitArgs
  BY <1>2
<1> QED
  BY <1>3, <1>4, <1>6, <1>7 DEF RegistryOK

\* The adapter a call runs in is the user's own.
LEMMA OwnAdapter ==
  ASSUME RegistryOK, NEW u \in Users, Base!AdapterFor(Aerodrome, u) # NoAddress
  PROVE  /\ Base!AdapterFor(Aerodrome, u) \in Adapters
         /\ Base!AdapterFor(Aerodrome, u).user = u
<1>0. /\ userAdapters \in [{Aerodrome} -> [Users -> Adapters \cup {NoAddress}]]
      /\ protocolBeacons \in [{Aerodrome} -> Beacons \cup {NoAddress}]
  BY SameAdapters DEF RegistryOK, Base!TypeOK
<1>1. CASE userAdapters[Aerodrome][u] # NoAddress
  BY <1>0, <1>1 DEF Base!AdapterFor, RegistryOK
<1>2. CASE userAdapters[Aerodrome][u] = NoAddress
  <2>1. Base!AdapterFor(Aerodrome, u) = Base!predictUserAdapter(Aerodrome, u)
    BY <1>2 DEF Base!AdapterFor
  <2>2. protocolBeacons[Aerodrome] # NoAddress
    BY <2>1 DEF Base!predictUserAdapter
  <2>3. protocolBeacons[Aerodrome] \in Beacons /\ protocolInitArgs[Aerodrome] \in InitArgs
    BY <1>0, <2>2 DEF RegistryOK
  <2>4. Base!AdapterFor(Aerodrome, u) = Base!Create2(Aerodrome, u)
    BY <2>1, <2>2 DEF Base!predictUserAdapter
  <2> QED
    BY <2>3, <2>4 DEF Base!Create2, Adapters
<1> QED
  BY <1>1, <1>2

\* So is the one the backend is told.
LEMMA PredictedAdapter ==
  ASSUME RegistryOK, NEW u \in Users
  PROVE  Base!predictUserAdapter(Aerodrome, u) \in Adapters \cup {NoAddress}
<1>1. protocolBeacons \in [{Aerodrome} -> Beacons \cup {NoAddress}]
  BY DEF RegistryOK, Base!TypeOK
<1>2. CASE protocolBeacons[Aerodrome] = NoAddress
  BY <1>2 DEF Base!predictUserAdapter
<1>3. CASE protocolBeacons[Aerodrome] # NoAddress
  <2>1. protocolBeacons[Aerodrome] \in Beacons /\ protocolInitArgs[Aerodrome] \in InitArgs
    BY <1>1, <1>3 DEF RegistryOK
  <2> QED
    BY <1>3, <2>1 DEF Base!predictUserAdapter, Base!Create2, Adapters
<1> QED
  BY <1>2, <1>3

\* The registry does not change.
LEMMA RegistryStays ==
  ASSUME RegistryOK, UNCHANGED chainVars
  PROVE  RegistryOK'
BY DEF RegistryOK, chainVars, Base!TypeOK

\* A routed call fills the slot of its user, if it was empty.
LEMMA RoutedRegistry ==
  ASSUME RegistryOK, NEW payer, NEW u \in Users, NEW call, NEW payment, NEW deadline,
         Base!Route(payer, u, Aerodrome, call, payment, deadline)
  PROVE  /\ RegistryOK'
         /\ Base!AdapterFor(Aerodrome, u) \in Adapters
         /\ Base!AdapterFor(Aerodrome, u).user = u
<1> DEFINE a == Base!AdapterFor(Aerodrome, u)
<1>1. a # NoAddress /\ userAdapters' = [userAdapters EXCEPT ![Aerodrome][u] = a]
  BY DEF Base!Route
<1>2. a \in Adapters /\ a.user = u
  BY <1>1, OwnAdapter
<1>3. UNCHANGED <<now, Base!ownerVars, Base!registryVars>>
  BY DEF Base!Route
<1> HIDE DEF a
<1>4. userAdapters \in [{Aerodrome} -> [Users -> Adapters \cup {NoAddress}]]
  BY SameAdapters DEF RegistryOK, Base!TypeOK
<1>5. /\ userAdapters' \in [{Aerodrome} -> [Users -> Adapters \cup {NoAddress}]]
      /\ \A v \in Users : userAdapters'[Aerodrome][v] =
            IF v = u THEN a ELSE userAdapters[Aerodrome][v]
  BY <1>1, <1>2, <1>4
<1>6. Base!TypeOK'
  BY <1>3, <1>5, SameAdapters DEF RegistryOK, Base!TypeOK, Base!ownerVars, Base!registryVars
<1>7. RegistryOK'
  BY <1>2, <1>3, <1>5, <1>6 DEF RegistryOK, Base!ownerVars, Base!registryVars
<1> QED
  BY <1>2, <1>7 DEF a

\* Only the adapter a call of its user runs in has a stake: no other one could take the
\* stake out again.
StakesOK ==
    \A a \in Adapters : world.staked[a] # 0 => userAdapters[Aerodrome][a.user] = a

\* Nothing about the stakes changes.
LEMMA StakesStay ==
  ASSUME StakesOK, world'.staked = world.staked, userAdapters' = userAdapters
  PROVE  StakesOK'
BY DEF StakesOK

\* A routed call may stake, but only through the adapter that stands in the slot.
LEMMA RoutedStakes ==
  ASSUME RegistryOK, StakesOK, NEW payer, NEW u \in Users, NEW call, NEW payment,
         NEW deadline, Base!Route(payer, u, Aerodrome, call, payment, deadline),
         Touches(world', world, payer, u, Base!AdapterFor(Aerodrome, u))
  PROVE  StakesOK'
<1> DEFINE self == Base!AdapterFor(Aerodrome, u)
<1>1. self # NoAddress /\ userAdapters' = [userAdapters EXCEPT ![Aerodrome][u] = self]
  BY DEF Base!Route
<1>2. self \in Adapters /\ self.user = u
  BY <1>1, OwnAdapter
<1>3. userAdapters[Aerodrome][u] # NoAddress => userAdapters[Aerodrome][u] = self
  BY DEF Base!AdapterFor
<1>4. \A a \in Adapters \ {self} : world'.staked[a] = world.staked[a]
  BY DEF Touches
<1> HIDE DEF self
<1>5. userAdapters \in [{Aerodrome} -> [Users -> Adapters \cup {NoAddress}]]
  BY SameAdapters DEF RegistryOK, Base!TypeOK
<1>6. \A v \in Users : userAdapters'[Aerodrome][v] =
         IF v = u THEN self ELSE userAdapters[Aerodrome][v]
  BY <1>1, <1>5
<1>7. NoAddress \notin Adapters
  BY StrategiesAssumption
<1>8. ASSUME NEW a \in Adapters, world'.staked[a] # 0
      PROVE  userAdapters'[Aerodrome][a.user] = a
  <2>1. a.user \in Users
    BY DEF Adapters
  <2>2. CASE a = self
    BY <1>2, <1>6, <2>2
  <2>3. CASE a # self
    <3>1. userAdapters[Aerodrome][a.user] = a
      BY <1>4, <1>8, <2>3 DEF StakesOK
    <3>2. a.user # u
      BY <1>3, <1>7, <2>3, <3>1
    <3> QED
      BY <1>6, <2>1, <3>1, <3>2
  <2> QED
    BY <2>2, <2>3
<1> QED
  BY <1>8 DEF StakesOK

\* The owner's functions and time leave the adapters and the world alone.
LEMMA AdministeredRegistry ==
  ASSUME RegistryOK, AdministerRegistry \/ (Base!Tick /\ BackendIdle)
  PROVE  RegistryOK' /\ UNCHANGED <<userAdapters, world, adapterCache, userOf, session>>
<1> DEFINE Goal == RegistryOK' /\ UNCHANGED <<userAdapters, world>>
<1>0. /\ NoAddress \notin Beacons /\ RemovalDelay \in Nat /\ Horizon \in Nat
  BY StrategiesAssumption DEF Base!ExecutorAssumption
<1>1. UNCHANGED <<adapterCache, userOf, session>>
  BY DEF AdministerRegistry, BackendIdle
<1>2. CASE Base!Tick
  <2>1. /\ now' = now + 1 /\ now < Horizon
        /\ UNCHANGED <<Base!ownerVars, Base!registryVars, userAdapters, world>>
    BY <1>2 DEF Base!Tick
  <2>2. now' \in 0 .. Horizon
    BY <1>0, <2>1 DEF RegistryOK, Base!TypeOK
  <2>3. /\ UNCHANGED <<owner, pendingOwner, authorizedOperators, userAdapters, world>>
        /\ UNCHANGED <<protocolBeacons, protocolInitArgs, pendingBeaconRemovals, scheduledAt>>
    BY <2>1 DEF Base!ownerVars, Base!registryVars
  <2>4. Base!TypeOK'
    BY <2>2, <2>3 DEF RegistryOK, Base!TypeOK
  <2>5. RegistryOK'
    BY <2>3, <2>4 DEF RegistryOK
  <2> QED
    BY <1>1, <2>3, <2>5
<1>3. ASSUME NEW u, NEW beacon \in Beacons, NEW initArgs \in InitArgs,
             Base!registerBeacon(u, Aerodrome, beacon, initArgs)
      PROVE  Goal
  BY <1>0, <1>3 DEF Base!registerBeacon, Base!RegistryOnly, Base!ownerVars, RegistryOK,
    Base!TypeOK
<1>4. ASSUME NEW u, Base!scheduleBeaconRemoval(u, Aerodrome)
      PROVE  Goal
  <2>1. now + RemovalDelay \in Nat /\ now \in Nat
    BY <1>0 DEF RegistryOK, Base!TypeOK
  <2> QED
    BY <1>4, <2>1 DEF Base!scheduleBeaconRemoval, Base!RegistryOnly, Base!ownerVars,
      RegistryOK, Base!TypeOK
<1>5. ASSUME NEW u, Base!executeBeaconRemoval(u, Aerodrome)
      PROVE  Goal
  BY <1>0, <1>5 DEF Base!executeBeaconRemoval, Base!RegistryOnly, Base!ownerVars, RegistryOK,
    Base!TypeOK
<1>6. ASSUME NEW u, Base!cancelBeaconRemoval(u, Aerodrome)
      PROVE  Goal
  BY <1>0, <1>6 DEF Base!cancelBeaconRemoval, Base!RegistryOnly, Base!ownerVars, RegistryOK,
    Base!TypeOK
<1>7. Goal
  BY <1>2, <1>3, <1>4, <1>5, <1>6 DEF AdministerRegistry
<1> QED
  BY <1>1, <1>7

-----------------------------------------------------------------------------
(* Bundles                                                                 *)

\* A list of steps followed by another one.
LEMMA Together ==
  ASSUME NEW S, NEW p \in Seq(S), NEW q \in Seq(S)
  PROVE  p \o q \in Seq(S) /\ (p # <<>> \/ q # <<>> => p \o q # <<>>)
<1>1. p \o q \in Seq(S) /\ Len(p \o q) = Len(p) + Len(q)
  OBVIOUS
<1>2. p # <<>> => Len(p) > 0
  OBVIOUS
<1>3. q # <<>> => Len(q) > 0
  OBVIOUS
<1>4. Len(p) \in Nat /\ Len(q) \in Nat
  OBVIOUS
<1>5. p \o q = <<>> => Len(p \o q) = 0
  OBVIOUS
<1> QED
  BY <1>1, <1>2, <1>3, <1>4, <1>5

\* A list of one step.
LEMMA Alone ==
  ASSUME NEW S, NEW x \in S
  PROVE  <<x>> \in Seq(S) /\ <<x>> # <<>>
OBVIOUS

\* Slippage leaves an amount an amount.
LEMMA SlippageTyped ==
  ASSUME NEW n \in Nat
  PROVE  applySlippage(n) \in Nat
<1> DEFINE p == n * (10000 - slippageBps)
<1>1. 10000 - slippageBps \in Nat
  BY StrategiesAssumption
<1>2. p \in Nat
  BY <1>1
<1> HIDE DEF p
<1>3. p \div 10000 \in Nat
  BY <1>2
<1> QED
  BY <1>3 DEF applySlippage, p

\* An approval is a step.
LEMMA ApproveTyped ==
  ASSUME NEW u, NEW t \in AllTokens, NEW current, NEW required \in Nat
  PROVE  addApproveIfNeeded(t, current, required) \in Seq(Steps(u))
<1>1. ApproveStep(t, required) \in Steps(u)
  BY DEF ApproveStep, Steps, Approvals
<1>2. <<ApproveStep(t, required)>> \in Seq(Steps(u)) /\ <<>> \in Seq(Steps(u))
  BY <1>1, Alone
<1> QED
  BY <1>2 DEF addApproveIfNeeded

\* A call is a step if it pays for itself.
LEMMA CallTyped ==
  ASSUME NEW u, NEW call \in AdapterCalls(u), NEW S \in SUBSET AllTokens,
         NEW payment \in [S -> Nat], NEW d \in Nat,
         \A t \in AllTokens : Cost(payment)[t] = Uses(call, t)
  PROVE  Call(call, payment, d) \in Steps(u)
<1> DEFINE st == Call(call, payment, d)
<1>1. payment \in UNION {AmountsOf(T) : T \in SUBSET AllTokens}
  BY DEF AmountsOf
<1>2. st \in Executions(u) /\ st.payment = payment /\ st.call = call
  BY <1>1 DEF Call, ExecuteStep, Executions
<1> HIDE DEF st
<1>3. PaysForItself(st)
  BY <1>2 DEF PaysForItself
<1> QED
  BY <1>2, <1>3 DEF Steps, st

\* What is paid of one token.
LEMMA PayTyped ==
  ASSUME NEW t \in AllTokens, NEW n \in Nat
  PROVE  {t} \in SUBSET AllTokens /\ Pay(t, n) \in [{t} -> Nat]
BY DEF Pay

\* Entering: what is added is paid, and so is what is staked.
LEMMA EnterTyped ==
  ASSUME NEW u \in Users, NEW seen \in Seen, NEW allow
  PROVE  EnterBundle(u, seen, allow) \in Seq(Steps(u)) \ {<<>>}
<1> DEFINE S == Steps(u)
           st == StakeAmount(seen.lp)
           add == [action |-> "addLiquidity", amountA |-> seen.a, amountB |-> seen.b,
                   minA |-> seen.minA, minB |-> seen.minB, recipient |-> u]
           both == [t \in {Weth, Usdc} |-> IF t = Weth THEN seen.a ELSE seen.b]
           sta == [action |-> "stake", amount |-> st]
           p1 == addApproveIfNeeded(Weth, allow[Weth], seen.a)
           p2 == addApproveIfNeeded(Usdc, allow[Usdc], seen.b)
           p3 == <<Call(add, both, seen.deadline)>>
           p4 == addApproveIfNeeded(Lp, allow[Lp], seen.lp)
           p5 == <<Call(sta, Pay(Lp, st), seen.deadline)>>
<1>1. /\ seen.a \in Nat /\ seen.b \in Nat /\ seen.lp \in Nat /\ seen.minA \in Nat
      /\ seen.minB \in Nat /\ seen.deadline \in Nat
  BY DEF Seen
<1>2. st \in Nat
  BY <1>1, SlippageTyped DEF StakeAmount
<1> HIDE DEF st
<1>3. /\ Weth \in AllTokens /\ Usdc \in AllTokens /\ Lp \in AllTokens /\ Weth # Usdc
  BY Distinct
<1>4. Call(add, both, seen.deadline) \in S
  <2>1. add \in AdapterCalls(u)
    BY <1>1 DEF AdapterCalls, AddCalls
  <2>2. {Weth, Usdc} \in SUBSET AllTokens /\ both \in [{Weth, Usdc} -> Nat]
    BY <1>1, <1>3
  <2>3. \A t \in AllTokens : Cost(both)[t] = Uses(add, t)
    BY <1>3 DEF Cost, Uses
  <2> HIDE DEF add, both
  <2> QED
    BY <1>1, <2>1, <2>2, <2>3, CallTyped
<1>5. Call(sta, Pay(Lp, st), seen.deadline) \in S
  <2>1. sta \in AdapterCalls(u)
    BY <1>2 DEF AdapterCalls, StakeCalls
  <2>2. \A t \in AllTokens : Uses(sta, t) = IF t = Lp THEN st ELSE 0
    BY DEF Uses
  <2>3. \A t \in AllTokens : Cost(Pay(Lp, st))[t] = Uses(sta, t)
    BY <2>2, CostOfOne
  <2>4. {Lp} \in SUBSET AllTokens /\ Pay(Lp, st) \in [{Lp} -> Nat]
    BY <1>2, <1>3, PayTyped
  <2> HIDE DEF sta
  <2> QED
    BY <1>1, <2>1, <2>3, <2>4, CallTyped
<1>6. p1 \in Seq(S) /\ p2 \in Seq(S) /\ p4 \in Seq(S)
  BY <1>1, <1>3, ApproveTyped
<1>7. p3 \in Seq(S) /\ p5 \in Seq(S) /\ p5 # <<>>
  BY <1>4, <1>5, Alone
<1>8. EnterBundle(u, seen, allow) = p1 \o p2 \o p3 \o p4 \o p5
  BY DEF EnterBundle, st
<1> HIDE DEF p1, p2, p3, p4, p5, S
<1>9. p1 \o p2 \o p3 \o p4 \o p5 \in Seq(S) /\ p1 \o p2 \o p3 \o p4 \o p5 # <<>>
  <2>1. p1 \o p2 \in Seq(S)
    BY <1>6, Together
  <2>2. p1 \o p2 \o p3 \in Seq(S)
    BY <1>7, <2>1, Together
  <2>3. p1 \o p2 \o p3 \o p4 \in Seq(S)
    BY <1>6, <2>2, Together
  <2> QED
    BY <1>7, <2>3, Together
<1> QED
  BY <1>8, <1>9 DEF S

\* Exiting: the liquidity that is removed is paid, and unstaking costs nothing.
LEMMA ExitTyped ==
  ASSUME NEW u \in Users, NEW seen \in Seen, NEW share, share.a \in Nat, share.b \in Nat
  PROVE  ExitBundle(u, seen, share) \in Seq(Steps(u)) \ {<<>>}
<1> DEFINE S == Steps(u)
           n == Min({seen.lp, seen.staked})
           un == [action |-> "unstake", amount |-> n, recipient |-> u]
           rem == [action |-> "removeLiquidity", liquidity |-> seen.lp,
                   minA |-> applySlippage(share.a), minB |-> applySlippage(share.b),
                   recipient |-> u]
           p1 == IF n > 0 THEN <<Call(un, NoTokens, seen.deadline)>> ELSE <<>>
           p2 == addApproveIfNeeded(Lp, seen.allowance, seen.lp)
           p3 == <<Call(rem, Pay(Lp, seen.lp), seen.deadline)>>
<1>1. /\ seen.lp \in Nat /\ seen.staked \in Nat /\ seen.deadline \in Nat
      /\ Lp \in AllTokens
  BY Distinct DEF Seen
<1>2. n \in Nat
  BY <1>1, MinOfTwo
<1>3. ExitBundle(u, seen, share) = p1 \o p2 \o p3
  BY DEF ExitBundle
<1> HIDE DEF n
<1>4. p1 \in Seq(S)
  <2>1. un \in AdapterCalls(u)
    BY <1>2 DEF AdapterCalls, UnstakeCalls
  <2>2. \A t \in AllTokens : Uses(un, t) = 0
    BY DEF Uses
  <2>3. \A t \in AllTokens : Cost(NoTokens)[t] = Uses(un, t)
    BY <2>2 DEF Cost, NoTokens
  <2>4. AllTokens \in SUBSET AllTokens /\ NoTokens \in [AllTokens -> Nat]
    BY DEF NoTokens
  <2> HIDE DEF un
  <2>5. Call(un, NoTokens, seen.deadline) \in S
    BY <1>1, <2>1, <2>3, <2>4, CallTyped
  <2>6. <<Call(un, NoTokens, seen.deadline)>> \in Seq(S)
    BY <2>5, Alone
  <2> QED
    BY <2>6
<1>5. p2 \in Seq(S)
  BY <1>1, ApproveTyped
<1>6. p3 \in Seq(S) /\ p3 # <<>>
  <2>1. applySlippage(share.a) \in Nat /\ applySlippage(share.b) \in Nat
    BY SlippageTyped
  <2>2. rem \in AdapterCalls(u)
    BY <1>1, <2>1 DEF AdapterCalls, RemoveCalls
  <2>3. \A t \in AllTokens : Uses(rem, t) = IF t = Lp THEN seen.lp ELSE 0
    BY DEF Uses
  <2>4. \A t \in AllTokens : Cost(Pay(Lp, seen.lp))[t] = Uses(rem, t)
    BY <2>3, CostOfOne
  <2>5. {Lp} \in SUBSET AllTokens /\ Pay(Lp, seen.lp) \in [{Lp} -> Nat]
    BY <1>1, PayTyped
  <2> HIDE DEF rem
  <2>6. Call(rem, Pay(Lp, seen.lp), seen.deadline) \in S
    BY <1>1, <2>2, <2>4, <2>5, CallTyped
  <2> QED
    BY <2>6, Alone
<1> HIDE DEF p1, p2, p3, S
<1>7. p1 \o p2 \in Seq(S)
  BY <1>4, <1>5, Together
<1>8. p1 \o p2 \o p3 \in Seq(S) /\ p1 \o p2 \o p3 # <<>>
  BY <1>6, <1>7, Together
<1> QED
  BY <1>3, <1>8 DEF S

\* Claiming costs nothing.
LEMMA ClaimTyped ==
  ASSUME NEW u \in Users, now + Deadline \in Nat
  PROVE  ClaimBundle(u) \in Seq(Steps(u)) \ {<<>>}
<1> DEFINE call == [action |-> "claimRewards", recipient |-> u]
<1>1. call \in AdapterCalls(u)
  BY DEF AdapterCalls, ClaimCalls
<1>2. \A t \in AllTokens : Uses(call, t) = 0
  BY DEF Uses
<1>3. \A t \in AllTokens : Cost(NoTokens)[t] = Uses(call, t)
  BY <1>2 DEF Cost, NoTokens
<1>4. AllTokens \in SUBSET AllTokens /\ NoTokens \in [AllTokens -> Nat]
  BY DEF NoTokens
<1>5. ClaimBundle(u) = <<Call(call, NoTokens, now + Deadline)>>
  BY DEF ClaimBundle
<1> HIDE DEF call
<1>6. Call(call, NoTokens, now + Deadline) \in Steps(u)
  BY <1>1, <1>3, <1>4, CallTyped
<1> QED
  BY <1>5, <1>6, Alone

SwapRequests == [kind : {"swap"}, tokenIn : Traded, tokenOut : Traded, amountIn : Nat]

\* A swap pays its input.
LEMMA SwapTyped ==
  ASSUME NEW u \in Users, NEW request \in SwapRequests, NEW seen \in Seen, NEW allowance
  PROVE  SwapBundle(u, request, seen, allowance) \in Seq(Steps(u)) \ {<<>>}
<1> DEFINE S == Steps(u)
           i == request.tokenIn
           n == request.amountIn
           call == [action |-> "swap", tokenIn |-> i, tokenOut |-> request.tokenOut,
                    amountIn |-> n, amountOutMin |-> seen.minB, recipient |-> u]
           p1 == IF i = Native THEN <<>> ELSE addApproveIfNeeded(i, allowance, n)
           p2 == <<Call(call, Pay(i, n), seen.deadline)>>
<1>1. /\ i \in Traded /\ i \in AllTokens /\ request.tokenOut \in Traded /\ n \in Nat
      /\ seen.minB \in Nat /\ seen.deadline \in Nat
  BY Distinct DEF SwapRequests, Seen
<1>2. SwapBundle(u, request, seen, allowance) = p1 \o p2
  BY DEF SwapBundle
<1>3. call \in AdapterCalls(u)
  BY <1>1 DEF AdapterCalls, SwapCalls
<1>4. \A t \in AllTokens : Uses(call, t) = IF t = i THEN n ELSE 0
  BY DEF Uses
<1>5. \A t \in AllTokens : Cost(Pay(i, n))[t] = Uses(call, t)
  BY <1>4, CostOfOne
<1>6. {i} \in SUBSET AllTokens /\ Pay(i, n) \in [{i} -> Nat]
  BY <1>1, PayTyped
<1> HIDE DEF call
<1>7. Call(call, Pay(i, n), seen.deadline) \in S
  BY <1>1, <1>3, <1>5, <1>6, CallTyped
<1>8. p2 \in Seq(S) /\ p2 # <<>>
  BY <1>7, Alone
<1>9. p1 \in Seq(S)
  BY <1>1, ApproveTyped
<1> HIDE DEF p1, p2, S
<1>10. p1 \o p2 \in Seq(S) /\ p1 \o p2 # <<>>
  BY <1>8, <1>9, Together
<1> QED
  BY <1>2, <1>10 DEF S

-----------------------------------------------------------------------------
(* Sessions                                                                *)

EnterRequests == [kind : {"enter"}, a : Nat, b : Nat]
ExitRequests == [kind : {"exit"}, amount : Nat]

Session(u) == [phase : Phases, request : Requests \cup {NoAddress},
               adapter : Adapters \cup {NoAddress}, seen : Seen, steps : Seq(Steps(u))]

\* There are steps to sign while they are being signed, and the request is the one the
\* phase belongs to.
InPhase(x) ==
    /\ x.phase = "signing" <=> x.steps # <<>>
    /\ x.phase = "enter" => x.request \in EnterRequests
    /\ x.phase \in {"exit", "staked", "wallet"} => x.request \in ExitRequests
    /\ x.phase \in {"swap", "swapChecks"} => x.request \in SwapRequests

\* Every session is at work for its user.
SessionsOK ==
    /\ userOf \in [Sessions -> Users]
    /\ session \in [Sessions -> UNION {Session(u) : u \in Users}]
    /\ \A s \in Sessions : session[s] \in Session(userOf[s]) /\ InPhase(session[s])

CacheOK == adapterCache \in [Users -> Adapters \cup {NoAddress, Uncached}]

\* What a session is doing may change to anything a session may do.
LEMMA SessionChange ==
  ASSUME SessionsOK, NEW s \in Sessions, NEW x, x \in Session(userOf[s]), InPhase(x),
         session' = [session EXCEPT ![s] = x], userOf' = userOf
  PROVE  SessionsOK'
<1>1. userOf[s] \in Users
  BY DEF SessionsOK
<1>2. x \in UNION {Session(u) : u \in Users}
  BY <1>1
<1>3. /\ session' \in [Sessions -> UNION {Session(u) : u \in Users}]
      /\ \A r \in Sessions : session'[r] = IF r = s THEN x ELSE session[r]
  BY <1>2 DEF SessionsOK
<1>4. ASSUME NEW r \in Sessions PROVE session'[r] \in Session(userOf'[r]) /\ InPhase(session'[r])
  BY <1>3 DEF SessionsOK
<1> QED
  BY <1>3, <1>4 DEF SessionsOK

\* The beginning and the end of a session.
LEMMA EndsTyped ==
  ASSUME NEW u
  PROVE  /\ Idle \in Session(u) /\ InPhase(Idle)
         /\ Done \in Session(u) /\ InPhase(Done)
<1>1. Unread \in Seen
  BY DEF Unread, Seen
<1>2. "idle" \in Phases /\ "done" \in Phases
  BY DEF Phases
<1>3. <<>> \in Seq(Steps(u))
  OBVIOUS
<1>4. Idle \in Session(u) /\ Idle.phase = "idle" /\ Idle.steps = <<>>
  BY <1>1, <1>2, <1>3 DEF Idle, Session
<1>5. Done \in Session(u) /\ Done.phase = "done" /\ Done.steps = <<>>
  BY <1>2, <1>4 DEF Done, Session
<1> QED
  BY <1>4, <1>5 DEF InPhase

\* A session reads on.
LEMMA ReadingTyped ==
  ASSUME SessionsOK, NEW s \in Sessions, ~At(s, "signing"), NEW see \in Seen,
         NEW phase \in Phases \ {"signing", "enter", "exit", "staked", "swap"},
         phase = "wallet" => session[s].request \in ExitRequests,
         phase = "swapChecks" => session[s].request \in SwapRequests
  PROVE  Reading(s, phase, see) \in Session(userOf[s]) /\ InPhase(Reading(s, phase, see))
<1> DEFINE x == session[s]
           y == [x EXCEPT !.phase = phase, !.seen = see]
<1>1. x \in Session(userOf[s]) /\ x.steps = <<>>
  BY DEF SessionsOK, InPhase, At
<1> HIDE DEF x
<1>2. y \in Session(userOf[s]) /\ y.phase = phase /\ y.request = x.request /\ y.steps = <<>>
  BY <1>1 DEF Session
<1>3. Reading(s, phase, see) = y
  BY DEF Reading, x
<1> HIDE DEF y
<1>4. InPhase(y)
  BY <1>2 DEF InPhase, x
<1> QED
  BY <1>2, <1>3, <1>4

\* A session has built its bundle.
LEMMA SigningTyped ==
  ASSUME SessionsOK, NEW s \in Sessions, NEW steps \in Seq(Steps(userOf[s])) \ {<<>>}
  PROVE  Signing(s, steps) \in Session(userOf[s]) /\ InPhase(Signing(s, steps))
<1> DEFINE x == session[s]
           y == [x EXCEPT !.phase = "signing", !.adapter = NoAddress, !.seen = Unread,
                          !.steps = steps]
<1>1. x \in Session(userOf[s])
  BY DEF SessionsOK
<1>2. Unread \in Seen
  BY DEF Unread, Seen
<1>3. "signing" \in Phases
  BY DEF Phases
<1> HIDE DEF x
<1>4. y \in Session(userOf[s]) /\ y.phase = "signing" /\ y.steps = steps
  BY <1>1, <1>2, <1>3 DEF Session
<1>5. Signing(s, steps) = y
  BY DEF Signing, x
<1> HIDE DEF y
<1>6. InPhase(y)
  BY <1>4 DEF InPhase
<1> QED
  BY <1>4, <1>5, <1>6

\* The backend is done with something.
LEMMA BackendStep ==
  ASSUME SessionsOK, NEW s \in Sessions, NEW x, Backend(s, x),
         x \in Session(userOf[s]) /\ InPhase(x)
  PROVE  SessionsOK' /\ UNCHANGED <<chainVars, world, userOf>>
BY SessionChange DEF Backend

\* What the backend reads of the chain are amounts.
LEMMA ReadAmounts ==
  ASSUME SessionsOK, world \in Worlds, NEW s \in Sessions, NEW t \in AllTokens
  PROVE  Balance(s, t) \in Nat /\ Allowance(s, t) \in Nat
<1>1. userOf[s] \in Users /\ userOf[s] \in Accounts
  BY Distinct DEF SessionsOK
<1> QED
  BY <1>1 DEF Balance, Allowance, Worlds

\* A request arrives.
LEMMA BeginOK ==
  ASSUME SessionsOK, NEW s \in Sessions, Begin(s)
  PROVE  SessionsOK' /\ UNCHANGED <<chainVars, world, userOf, adapterCache>>
<1>1. PICK r \in Requests : Backend(s, [session[s] EXCEPT !.phase = r.kind, !.request = r])
  BY DEF Begin
<1>2. Requests \subseteq EnterRequests \cup ExitRequests \cup [kind : {"claim"}]
                         \cup SwapRequests
  BY StrategiesAssumption DEF EnterRequests, ExitRequests, SwapRequests
<1>3. /\ r.kind \in {"enter", "exit", "claim", "swap"}
      /\ r.kind = "enter" => r \in EnterRequests
      /\ r.kind = "exit" => r \in ExitRequests
      /\ r.kind = "swap" => r \in SwapRequests
  BY <1>2 DEF EnterRequests, ExitRequests, SwapRequests
<1>4. r.kind \in Phases
  BY <1>3 DEF Phases
<1> DEFINE x == session[s]
           k == r.kind
           y == [x EXCEPT !.phase = k, !.request = r]
<1>5. x \in Session(userOf[s]) /\ x.steps = <<>>
  BY DEF Begin, SessionsOK, InPhase, At
<1>6. Backend(s, y)
  BY <1>1
<1> HIDE DEF x, k
<1>7. y \in Session(userOf[s]) /\ y.phase = k /\ y.request = r /\ y.steps = <<>>
  BY <1>4, <1>5 DEF Session, k
<1> HIDE DEF y
<1>8. InPhase(y)
  BY <1>3, <1>7 DEF InPhase, k
<1> QED
  BY <1>6, <1>7, <1>8, BackendStep DEF Begin

\* What the backend computes from the pool are amounts.
LEMMA Computed ==
  ASSUME Sound(world), NEW lp \in Nat
  PROVE  QuoteRemove(world, lp).a \in Nat /\ QuoteRemove(world, lp).b \in Nat
<1> DEFINE A == world.balance[Pool][Weth]
           B == world.balance[Pool][Usdc]
           S == world.supply
<1>1. A \in Nat \ {0} /\ B \in Nat \ {0} /\ S \in Nat \ {0}
  BY Reserves DEF Sound, Worlds
<1>2. QuoteRemove(world, lp) = [a |-> (lp * A) \div S, b |-> (lp * B) \div S]
  BY DEF QuoteRemove, Reserve
<1> HIDE DEF A, B, S
<1> DEFINE p == lp * A
           q == lp * B
<1>3. p \in Nat /\ q \in Nat
  BY <1>1
<1> HIDE DEF p, q
<1>4. p \div S \in Nat /\ q \div S \in Nat
  BY <1>1, <1>3
<1> QED
  BY <1>2, <1>4 DEF p, q

\* So is what a swap would give.
LEMMA OutTyped ==
  ASSUME Sound(world), NEW i \in Traded, NEW o \in Traded, NEW n \in Nat
  PROVE  AmountOut(world, i, o, n) \in Nat
<1> DEFINE A == world.balance[Pool][Wrapped(i)]
           B == world.balance[Pool][Wrapped(o)]
           p == n * B
           S == A + n
<1>1. Wrapped(i) \in {Weth, Usdc} /\ Wrapped(o) \in {Weth, Usdc}
  BY DEF Wrapped, Traded
<1>2. A \in Nat \ {0} /\ B \in Nat \ {0}
  BY <1>1, Reserves
<1>3. AmountOut(world, i, o, n) = p \div S
  BY DEF AmountOut, Reserve
<1> HIDE DEF A, B
<1>4. p \in Nat /\ S \in Nat \ {0}
  BY <1>2
<1> HIDE DEF p, S
<1>5. p \div S \in Nat
  BY <1>4
<1> QED
  BY <1>3, <1>5

\* Preparing to enter.
LEMMA EnterOK ==
  ASSUME SessionsOK, RegistryOK, Sound(world), NEW s \in Sessions,
         \/ PreparationFails(s) \/ capToBalance(s) \/ quoteAddLiquidity(s)
         \/ buildAerodromeAddLiquidityBundle(s)
  PROVE  SessionsOK' /\ UNCHANGED <<chainVars, world, userOf, adapterCache>>
<1> DEFINE Goal == SessionsOK' /\ UNCHANGED <<chainVars, world, userOf, adapterCache>>
           u == userOf[s]
           Ok(x) == x \in Session(u) /\ InPhase(x)
<1>1. world \in Worlds /\ u \in Users /\ session[s] \in Session(u) /\ InPhase(session[s])
  BY DEF Sound, SessionsOK
<1>2. Weth \in AllTokens /\ Usdc \in AllTokens
  BY Distinct
<1>3. ASSUME NEW x, Ok(x), Backend(s, x), UNCHANGED adapterCache PROVE Goal
  BY <1>3, BackendStep
<1>4. Ok(Done)
  BY EndsTyped
<1> HIDE DEF Ok
<1>5. CASE PreparationFails(s)
  BY <1>3, <1>4, <1>5 DEF PreparationFails
<1>6. CASE capToBalance(s)
  <2> DEFINE r == session[s].request
  <2>1. r.a \in Nat /\ r.b \in Nat /\ ~At(s, "signing")
    BY <1>1, <1>6 DEF capToBalance, At, InPhase, EnterRequests
  <2>2. Balance(s, Weth) \in Nat /\ Balance(s, Usdc) \in Nat
    BY <1>1, <1>2, ReadAmounts
  <2>3. PICK gotA, gotB \in Answers :
          LET a == IF gotA THEN Min({r.a, Balance(s, Weth)}) ELSE r.a
              b == IF gotB THEN Min({r.b, Balance(s, Usdc)}) ELSE r.b
          IN  Backend(s, IF a = 0 \/ b = 0 THEN Done
                         ELSE Reading(s, "quote", [Unread EXCEPT !.a = a, !.b = b]))
    BY <1>6 DEF capToBalance
  <2> DEFINE a == IF gotA THEN Min({r.a, Balance(s, Weth)}) ELSE r.a
             b == IF gotB THEN Min({r.b, Balance(s, Usdc)}) ELSE r.b
             see == [Unread EXCEPT !.a = a, !.b = b]
  <2>4. Backend(s, IF a = 0 \/ b = 0 THEN Done ELSE Reading(s, "quote", see))
    BY <2>3
  <2>5. a \in Nat /\ b \in Nat
    BY <2>1, <2>2, MinOfTwo
  <2> HIDE DEF a, b
  <2>6. see \in Seen
    BY <2>5 DEF Unread, Seen
  <2> HIDE DEF see
  <2>7. "quote" \in Phases
    BY DEF Phases
  <2>8. Ok(Reading(s, "quote", see))
    BY <2>1, <2>6, <2>7, ReadingTyped DEF Ok
  <2>9. UNCHANGED adapterCache
    BY <1>6 DEF capToBalance
  <2> HIDE DEF Goal
  <2>10. CASE a = 0 \/ b = 0
    BY <1>3, <1>4, <2>4, <2>9, <2>10 DEF Goal
  <2>11. CASE ~(a = 0 \/ b = 0)
    BY <1>3, <2>4, <2>8, <2>9, <2>11 DEF Goal
  <2> QED
    BY <2>10, <2>11
<1>7. CASE quoteAddLiquidity(s)
  <2> DEFINE seen == session[s].seen
             q == QuoteAdd(world, seen.a, seen.b)
             x == applySlippage(q.a)
             y == applySlippage(q.b)
             d == now + Deadline
             see == [seen EXCEPT !.lp = q.lp, !.minA = x, !.minB = y, !.deadline = d]
  <2>1. Backend(s, IF q.lp = 0 THEN Done ELSE Reading(s, "enterAllowances", see))
    BY <1>7 DEF quoteAddLiquidity
  <2>2. UNCHANGED adapterCache /\ ~At(s, "signing")
    BY <1>7 DEF quoteAddLiquidity, At
  <2>3. seen \in Seen
    BY <1>1 DEF Session
  <2>4. seen.a \in Nat /\ seen.b \in Nat
    BY <2>3 DEF Seen
  <2>5. q.lp \in Nat /\ q.a \in Nat /\ q.b \in Nat
    BY <2>4, Quoted
  <2>6. x \in Nat /\ y \in Nat
    BY <2>5, SlippageTyped
  <2>7. d \in Nat
    BY StrategiesAssumption DEF RegistryOK, Base!TypeOK, Base!ExecutorAssumption
  <2> HIDE DEF seen, q, x, y, d
  <2>8. see \in Seen
    BY <2>3, <2>5, <2>6, <2>7 DEF Seen
  <2> HIDE DEF see
  <2>9. "enterAllowances" \in Phases
    BY DEF Phases
  <2>10. Ok(Reading(s, "enterAllowances", see))
    BY <2>2, <2>8, <2>9, ReadingTyped DEF Ok
  <2> HIDE DEF Goal
  <2>11. CASE q.lp = 0
    BY <1>3, <1>4, <2>1, <2>2, <2>11 DEF Goal
  <2>12. CASE q.lp # 0
    BY <1>3, <2>1, <2>2, <2>10, <2>12 DEF Goal
  <2> QED
    BY <2>11, <2>12 DEF Goal
<1>8. CASE buildAerodromeAddLiquidityBundle(s)
  <2>1. PICK allow : Backend(s, Signing(s, EnterBundle(u, session[s].seen, allow)))
    BY <1>8 DEF buildAerodromeAddLiquidityBundle
  <2>2. session[s].seen \in Seen
    BY <1>1 DEF Session
  <2>3. Ok(Signing(s, EnterBundle(u, session[s].seen, allow)))
    BY <1>1, <2>2, EnterTyped, SigningTyped DEF Ok
  <2> QED
    BY <1>3, <1>8, <2>1, <2>3 DEF buildAerodromeAddLiquidityBundle
<1> QED
  BY <1>5, <1>6, <1>7, <1>8

\* The lookup of the adapter is cached, also when it fails.
LEMMA LookupOK ==
  ASSUME SessionsOK, CacheOK, RegistryOK, NEW s \in Sessions,
         \/ lookupForExit(s) \/ lookupForClaim(s)
  PROVE  SessionsOK' /\ CacheOK' /\ UNCHANGED <<chainVars, world, userOf>>
<1> DEFINE u == userOf[s]
           x == session[s]
<1>1. u \in Users /\ x \in Session(u) /\ InPhase(x)
  BY DEF SessionsOK
<1>2. PICK phase \in {"staked", "earned"} :
        /\ getUserAdapterAddress(s, phase)
        /\ At(s, IF phase = "staked" THEN "exit" ELSE "claim")
  BY DEF lookupForExit, lookupForClaim
<1>3. PICK adapter \in {AdapterSeen(u)} \cup
                       (IF adapterCache[u] = Uncached THEN {NoAddress} ELSE {}) :
        /\ adapterCache' = [adapterCache EXCEPT ![u] = adapter]
        /\ Backend(s, [session[s] EXCEPT !.phase = phase, !.adapter = adapter])
  BY <1>2 DEF getUserAdapterAddress
<1>4. AdapterSeen(u) \in Adapters \cup {NoAddress}
  BY <1>1, PredictedAdapter DEF AdapterSeen, CacheOK
<1>5. adapter \in Adapters \cup {NoAddress}
  BY <1>3, <1>4
<1>6. CacheOK'
  BY <1>1, <1>3, <1>5 DEF CacheOK
<1> DEFINE y == [x EXCEPT !.phase = phase, !.adapter = adapter]
<1>7. Backend(s, y)
  BY <1>3
<1>8. x.steps = <<>> /\ (phase = "staked" => x.request \in ExitRequests)
  BY <1>1, <1>2 DEF At, InPhase
<1>9. phase \in Phases
  BY DEF Phases
<1> HIDE DEF x
<1>10. y \in Session(u) /\ y.phase = phase /\ y.request = x.request /\ y.steps = <<>>
  BY <1>1, <1>5, <1>8, <1>9 DEF Session
<1> HIDE DEF y
<1>11. InPhase(y)
  BY <1>8, <1>10 DEF InPhase
<1> QED
  BY <1>6, <1>7, <1>10, <1>11, BackendStep

\* Preparing to exit or to claim.
LEMMA ExitOK ==
  ASSUME SessionsOK, RegistryOK, Sound(world), NEW s \in Sessions,
         \/ readStakedBalance(s) \/ readWalletLp(s) \/ readLpAllowance(s) \/ buildExitBundle(s)
         \/ executeClaimRewards(s)
  PROVE  SessionsOK' /\ UNCHANGED <<chainVars, world, userOf, adapterCache>>
<1> DEFINE Goal == SessionsOK' /\ UNCHANGED <<chainVars, world, userOf, adapterCache>>
           u == userOf[s]
           seen == session[s].seen
           d == now + Deadline
           Ok(x) == x \in Session(u) /\ InPhase(x)
<1>1. world \in Worlds /\ u \in Users /\ session[s] \in Session(u) /\ InPhase(session[s])
  BY DEF Sound, SessionsOK
<1>2. Lp \in AllTokens
  BY Distinct
<1>3. ASSUME NEW x, Ok(x), Backend(s, x), UNCHANGED adapterCache PROVE Goal
  BY <1>3, BackendStep
<1>4. Ok(Done)
  BY EndsTyped
<1> HIDE DEF Ok
<1>5. seen \in Seen
  BY <1>1 DEF Session
<1>6. d \in Nat
  BY StrategiesAssumption DEF RegistryOK, Base!TypeOK, Base!ExecutorAssumption
<1>7. Balance(s, Lp) \in Nat /\ Allowance(s, Lp) \in Nat
  BY <1>1, <1>2, ReadAmounts
<1>8. session[s].adapter \in Adapters \cup {NoAddress}
  BY <1>1 DEF Session
<1> HIDE DEF d
<1>9. CASE readStakedBalance(s)
  <2>1. PICK got \in Answers :
          Backend(s, Reading(s, "wallet",
            [Unread EXCEPT !.staked = IF got THEN StakedBy(session[s].adapter) ELSE 0]))
    BY <1>9 DEF readStakedBalance
  <2> DEFINE n == IF got THEN StakedBy(session[s].adapter) ELSE 0
             see == [Unread EXCEPT !.staked = n]
  <2>2. n \in Nat
    BY <1>1, <1>8 DEF StakedBy, Worlds
  <2>3. Backend(s, Reading(s, "wallet", see))
    BY <2>1
  <2> HIDE DEF n
  <2>4. see \in Seen
    BY <2>2 DEF Unread, Seen
  <2> HIDE DEF see
  <2>5. /\ "wallet" \in Phases /\ UNCHANGED adapterCache
        /\ session[s].request \in ExitRequests /\ ~At(s, "signing")
    BY <1>1, <1>9 DEF readStakedBalance, At, InPhase, Phases
  <2>6. Ok(Reading(s, "wallet", see))
    BY <2>4, <2>5, ReadingTyped DEF Ok
  <2> QED
    BY <1>3, <2>3, <2>5, <2>6
<1>10. CASE readWalletLp(s)
  <2> DEFINE amount == session[s].request.amount
  <2>1. PICK got \in Answers :
          LET total == seen.staked + (IF got THEN Balance(s, Lp) ELSE 0)
              lpAmount == IF amount # 0 THEN amount ELSE total
          IN  Backend(s, IF lpAmount = 0 \/ lpAmount > total THEN Done
                         ELSE Reading(s, "exitAllowance",
                                [seen EXCEPT !.lp = lpAmount, !.deadline = now + Deadline]))
    BY <1>10 DEF readWalletLp
  <2> DEFINE total == seen.staked + (IF got THEN Balance(s, Lp) ELSE 0)
             lpAmount == IF amount # 0 THEN amount ELSE total
             see == [seen EXCEPT !.lp = lpAmount, !.deadline = d]
             over == lpAmount = 0 \/ lpAmount > total
  <2>2. Backend(s, IF over THEN Done ELSE Reading(s, "exitAllowance", see))
    BY <2>1 DEF d
  <2>3. UNCHANGED adapterCache /\ ~At(s, "signing") /\ amount \in Nat
    BY <1>1, <1>10 DEF readWalletLp, At, InPhase, ExitRequests
  <2>4. lpAmount \in Nat
    BY <1>5, <1>7, <2>3 DEF Seen
  <2> HIDE DEF lpAmount, over, seen
  <2>5. see \in Seen
    BY <1>5, <1>6, <2>4 DEF Seen
  <2> HIDE DEF see
  <2>6. "exitAllowance" \in Phases
    BY DEF Phases
  <2>7. Ok(Reading(s, "exitAllowance", see))
    BY <2>3, <2>5, <2>6, ReadingTyped DEF Ok
  <2> HIDE DEF Goal
  <2>8. CASE over
    BY <1>3, <1>4, <2>2, <2>3, <2>8 DEF Goal
  <2>9. CASE ~over
    BY <1>3, <2>2, <2>3, <2>7, <2>9 DEF Goal
  <2> QED
    BY <2>8, <2>9
<1>11. CASE readLpAllowance(s)
  <2>1. PICK got \in Answers :
          Backend(s, Reading(s, "reserves",
            [seen EXCEPT !.allowance = IF got THEN Allowance(s, Lp) ELSE 0]))
    BY <1>11 DEF readLpAllowance
  <2> DEFINE n == IF got THEN Allowance(s, Lp) ELSE 0
             see == [seen EXCEPT !.allowance = n]
  <2>2. n \in Nat
    BY <1>7
  <2>3. Backend(s, Reading(s, "reserves", see))
    BY <2>1
  <2> HIDE DEF n, seen
  <2>4. see \in Seen
    BY <1>5, <2>2 DEF Seen
  <2> HIDE DEF see
  <2>5. "reserves" \in Phases /\ UNCHANGED adapterCache /\ ~At(s, "signing")
    BY <1>11 DEF readLpAllowance, At, Phases
  <2>6. Ok(Reading(s, "reserves", see))
    BY <2>4, <2>5, ReadingTyped DEF Ok
  <2> QED
    BY <1>3, <2>3, <2>5, <2>6
<1>12. CASE buildExitBundle(s)
  <2> DEFINE share == QuoteRemove(world, seen.lp)
  <2>1. Backend(s, Signing(s, ExitBundle(u, seen, share))) /\ UNCHANGED adapterCache
    BY <1>12 DEF buildExitBundle
  <2>2. seen.lp \in Nat
    BY <1>5 DEF Seen
  <2>3. share.a \in Nat /\ share.b \in Nat
    BY <2>2, Computed
  <2> HIDE DEF share, seen
  <2>4. Ok(Signing(s, ExitBundle(u, seen, share)))
    BY <1>1, <1>5, <2>3, ExitTyped, SigningTyped DEF Ok
  <2> QED
    BY <1>3, <2>1, <2>4
<1>13. CASE executeClaimRewards(s)
  <2>1. /\ Backend(s, Done) \/ Backend(s, Signing(s, ClaimBundle(u)))
        /\ UNCHANGED adapterCache
    BY <1>13 DEF executeClaimRewards
  <2>2. ClaimBundle(u) \in Seq(Steps(u)) \ {<<>>}
    BY <1>1, <1>6, ClaimTyped DEF d
  <2>3. Ok(Signing(s, ClaimBundle(u)))
    BY <2>2, SigningTyped DEF Ok
  <2> QED
    BY <1>3, <1>4, <2>1, <2>3
<1> QED
  BY <1>9, <1>10, <1>11, <1>12, <1>13

\* Preparing to swap.
LEMMA SwapOK ==
  ASSUME SessionsOK, RegistryOK, Sound(world), NEW s \in Sessions,
         \/ getQuote(s) \/ buildAerodromeSwapBundle(s)
  PROVE  SessionsOK' /\ UNCHANGED <<chainVars, world, userOf, adapterCache>>
<1> DEFINE Goal == SessionsOK' /\ UNCHANGED <<chainVars, world, userOf, adapterCache>>
           u == userOf[s]
           r == session[s].request
           d == now + Deadline
           Ok(x) == x \in Session(u) /\ InPhase(x)
<1>1. world \in Worlds /\ u \in Users /\ session[s] \in Session(u) /\ InPhase(session[s])
  BY DEF Sound, SessionsOK
<1>2. ASSUME NEW x, Ok(x), Backend(s, x), UNCHANGED adapterCache PROVE Goal
  BY <1>2, BackendStep
<1>3. Ok(Done)
  BY EndsTyped
<1> HIDE DEF Ok
<1>4. d \in Nat
  BY StrategiesAssumption DEF RegistryOK, Base!TypeOK, Base!ExecutorAssumption
<1>5. r \in SwapRequests /\ UNCHANGED adapterCache /\ ~At(s, "signing")
  BY <1>1 DEF InPhase, At, getQuote, buildAerodromeSwapBundle
<1>6. r.tokenIn \in Traded /\ r.tokenOut \in Traded /\ r.amountIn \in Nat
  BY <1>5 DEF SwapRequests
<1>7. CASE getQuote(s)
  <2> DEFINE out == AmountOut(world, r.tokenIn, r.tokenOut, r.amountIn)
             least == applySlippage(out)
             see == [Unread EXCEPT !.minB = least, !.deadline = d]
  <2>1. Backend(s, Reading(s, "swapChecks", see))
    BY <1>7 DEF getQuote
  <2>2. out \in Nat
    BY <1>6, OutTyped
  <2>3. least \in Nat
    BY <2>2, SlippageTyped
  <2> HIDE DEF least, d
  <2>4. see \in Seen
    BY <1>4, <2>3 DEF Unread, Seen
  <2> HIDE DEF see
  <2>5. "swapChecks" \in Phases
    BY DEF Phases
  <2>6. Ok(Reading(s, "swapChecks", see))
    BY <1>5, <2>4, <2>5, ReadingTyped DEF Ok
  <2> QED
    BY <1>2, <1>5, <2>1, <2>6
<1>8. CASE buildAerodromeSwapBundle(s)
  <2>1. \/ Backend(s, Done)
        \/ \E n : Backend(s, Signing(s, SwapBundle(u, r, session[s].seen, n)))
    BY <1>8 DEF buildAerodromeSwapBundle
  <2>2. session[s].seen \in Seen
    BY <1>1 DEF Session
  <2>3. ASSUME NEW n PROVE Ok(Signing(s, SwapBundle(u, r, session[s].seen, n)))
    BY <1>1, <1>5, <2>2, SwapTyped, SigningTyped DEF Ok
  <2> QED
    BY <1>2, <1>3, <1>5, <2>1, <2>3
<1> QED
  BY <1>7, <1>8

-----------------------------------------------------------------------------
(* Positions                                                               *)

\* A user's liquidity, in the wallet and in the gauge, is as before.
Kept(v, w, u) ==
    /\ v.balance[u][Lp] = w.balance[u][Lp]
    /\ \A a \in Adapters : a.user = u => v.staked[a] = w.staked[a]

\* Then the position is.
LEMMA SamePosition ==
  ASSUME NEW v \in Worlds, NEW w \in Worlds, NEW u \in Users, Kept(v, w, u)
  PROVE  Position(v, u) = Position(w, u)
<1> DEFINE A == {a \in Adapters : a.user = u}
           f == v.staked
           g == w.staked
<1>1. SumFunctionOnSet(f, A) = Sums(f, A)[A] /\ SumFunctionOnSet(g, A) = Sums(g, A)[A]
  BY SumFunctionIsSum
<1>2. IsFiniteSet(A)
  <2>1. IsFiniteSet(Accounts)
    BY StrategiesAssumption
  <2>2. A \subseteq Accounts
    BY DEF Accounts
  <2> QED
    BY <2>1, <2>2, FS_Subset
<1>3. Counts(f, A) /\ Counts(g, A)
  BY DEF Worlds, Counts
<1>4. A \subseteq A \cap A /\ \A a \in A : f[a] = g[a]
  BY DEF Kept
<1>5. v.balance[u][Lp] = w.balance[u][Lp]
  BY DEF Kept
<1>6. Position(v, u) = v.balance[u][Lp] + SumFunctionOnSet(f, A)
      /\ Position(w, u) = w.balance[u][Lp] + SumFunctionOnSet(g, A)
  BY DEF Position
<1> HIDE DEF A, f, g
<1>7. Sums(f, A)[A] = Sums(g, A)[A]
  BY <1>2, <1>3, <1>4, SameSum
<1> QED
  BY <1>1, <1>5, <1>6, <1>7

\* A world as all its users may rely on.
WorldOK == Sound(world) /\ Passages(world)

\* A step of everybody else: nobody's liquidity changes.
Untouched == WorldOK' /\ \A u \in Users : Kept(world', world, u)

\* Nothing happens to the world.
LEMMA WorldStays ==
  ASSUME WorldOK, UNCHANGED world
  PROVE  Untouched
BY DEF WorldOK, Untouched, Kept

\* An approval changes what may be pulled, and moves nothing.
LEMMA Approved ==
  ASSUME WorldOK, NEW u \in Users, NEW t \in AllTokens, NEW n \in Nat,
         world' = [world EXCEPT !.allowance[u][t] = n]
  PROVE  Untouched /\ world'.staked = world.staked
<1> DEFINE row == [world.allowance[u] EXCEPT ![t] = n]
           al == [world.allowance EXCEPT ![u] = row]
<1>1. world \in Worlds
  BY DEF WorldOK, Sound
<1>2. world.allowance[u] \in [AllTokens -> Nat]
  BY <1>1 DEF Worlds
<1>3. row \in [AllTokens -> Nat]
  BY <1>2
<1>4. world' = [world EXCEPT !.allowance = al]
  BY <1>1 DEF Worlds
<1> HIDE DEF row
<1>5. al \in [Users \cup {Vault} -> [AllTokens -> Nat]]
  BY <1>1, <1>3 DEF Worlds
<1> HIDE DEF al
<1>6. /\ world' \in Worlds /\ world'.balance = world.balance /\ world'.staked = world.staked
      /\ world'.supply = world.supply
  BY <1>1, <1>4, <1>5 DEF Worlds
<1>7. Holdings(world') = Holdings(world)
  BY <1>1, <1>6, SameHoldings
<1>8. Sound(world')
  BY <1>6, <1>7 DEF WorldOK, Sound, Reserve
<1>9. Passages(world') /\ \A x \in Users : Kept(world', world, x)
  BY <1>6 DEF WorldOK, Passages, Kept
<1> QED
  BY <1>6, <1>8, <1>9 DEF Untouched, WorldOK

\* The market trades for its own account.
LEMMA Traded1 ==
  ASSUME WorldOK, MarketTrade
  PROVE  Untouched /\ world'.staked = world.staked
<1>1. PICK t \in MarketTrades : world' \in SwapExact(world, Market, t[1], t[2], t[3], 0, Market)
  BY DEF MarketTrade
<1>2. t[1] \in Traded /\ t[2] \in Traded /\ t[3] \in Nat
  BY StrategiesAssumption
<1>3. Sound(world) /\ Passages(world)
  BY DEF WorldOK
<1>4. Market \in Accounts \ {Pool}
  BY Distinct
<1>5. /\ Sound(world') /\ world'.staked = world.staked
      /\ \A x \in Accounts : world'.balance[x][Lp] = world.balance[x][Lp]
      /\ \A x \in Accounts \ {Market, Pool}, r \in AllTokens :
           world'.balance[x][r] = world.balance[x][r]
  BY <1>1, <1>2, <1>3, <1>4, Swapped
<1>6. Adapters \cup {Executor} \subseteq Accounts \ {Market, Pool} /\ Users \subseteq Accounts
  BY Distinct
<1>7. Passages(world')
  BY <1>3, <1>5, <1>6 DEF Passages
<1>8. \A u \in Users : Kept(world', world, u)
  BY <1>5, <1>6 DEF Kept
<1> QED
  BY <1>5, <1>7, <1>8 DEF Untouched, WorldOK

\* A call through the executor that pays for itself, be it the user's or the vault's.
LEMMA RoutedOK ==
  ASSUME WorldOK, RegistryOK, StakesOK, NEW u \in Users, NEW payer \in {u, Vault},
         NEW call \in AdapterCalls(u),
         NEW payment \in UNION {AmountsOf(S) : S \in SUBSET AllTokens}, NEW deadline,
         \A t \in AllTokens : Cost(payment)[t] = Uses(call, t),
         Base!Route(payer, u, Aerodrome, call, payment, deadline)
  PROVE  /\ RegistryOK' /\ WorldOK' /\ StakesOK'
         /\ \A x \in Users \ {u} : Kept(world', world, x)
         /\ \E self \in Adapters :
              /\ self.user = u
              /\ \E paid \in TransferFrom(world, payer, self, payment) :
                   world' \in Dispatch(self, call, paid)
<1> DEFINE self == Base!AdapterFor(Aerodrome, u)
<1>1. RegistryOK' /\ self \in Adapters /\ self.user = u
  BY RoutedRegistry
<1>2. world' \in UNION {Dispatch(self, call, p) : p \in TransferFrom(world, payer, self, payment)}
  BY DEF Base!Route, Base!Results
<1> HIDE DEF self
<1>3. PICK paid \in TransferFrom(world, payer, self, payment) :
        world' \in Dispatch(self, call, paid)
  BY <1>2
<1>4. Sound(world') /\ Passages(world') /\ Touches(world', world, payer, u, self)
  BY <1>1, <1>3, RoutedWorld DEF WorldOK
<1>5. ASSUME NEW x \in Users \ {u} PROVE Kept(world', world, x)
  <2>1. x \in Accounts \ {payer, u, self, Pool} /\ Lp \in AllTokens
    BY <1>1, Distinct
  <2> QED
    BY <1>1, <1>4, <2>1 DEF Touches, Kept
<1>6. StakesOK'
  BY <1>4, RoutedStakes DEF self
<1> QED
  BY <1>1, <1>3, <1>4, <1>5, <1>6 DEF WorldOK

\* The vault's swap through a user's adapter leaves that user's liquidity alone, too.
LEMMA VaultSwapOK ==
  ASSUME WorldOK, RegistryOK, StakesOK, NEW u \in VaultClients, NEW n \in VaultSwaps,
         VaultSwap(u, n)
  PROVE  /\ RegistryOK' /\ StakesOK' /\ Untouched
         /\ UNCHANGED <<adapterCache, userOf, session>>
<1> DEFINE call == [action |-> "swap", tokenIn |-> Usdc, tokenOut |-> Weth, amountIn |-> n,
                    amountOutMin |-> 0, recipient |-> u]
           payment == Pay(Usdc, n)
<1>1. u \in Users /\ n \in Nat
  BY StrategiesAssumption
<1>2. Usdc \in AllTokens /\ Usdc # Lp /\ Lp \in AllTokens
  BY Distinct
<1>3. Weth \in Traded /\ Usdc \in Traded
  BY DEF Traded
<1>4. call \in AdapterCalls(u) /\ call \in SwapCalls(u)
  BY <1>1, <1>3 DEF AdapterCalls, SwapCalls
<1>5. \A t \in AllTokens : Uses(call, t) = IF t = Usdc THEN n ELSE 0
  BY DEF Uses
<1>6. \A t \in AllTokens : Cost(payment)[t] = IF t = Usdc THEN n ELSE 0
  BY CostOfOne
<1>7. payment \in [{Usdc} -> Nat] /\ {Usdc} \in SUBSET AllTokens
  BY <1>1, <1>2, PayTyped
<1>8. payment \in UNION {AmountsOf(S) : S \in SUBSET AllTokens}
  BY <1>7 DEF AmountsOf
<1>9. Base!Route(Vault, u, Aerodrome, call, payment, now)
  BY DEF VaultSwap, Base!executeSwapFor
<1>10. \A v, self, w : v \in Dispatch(self, call, w) => v \in SwapExact(w, self, Usdc, Weth, n, 0, u)
  BY DEF Dispatch, swap
<1> HIDE DEF call, payment
<1>11. \A t \in AllTokens : Cost(payment)[t] = Uses(call, t)
  BY <1>5, <1>6
<1>12. Vault \in {u, Vault}
  OBVIOUS
<1>13. /\ RegistryOK' /\ WorldOK' /\ StakesOK'
       /\ \A x \in Users \ {u} : Kept(world', world, x)
       /\ \E self \in Adapters :
              /\ self.user = u
              /\ \E paid \in TransferFrom(world, Vault, self, payment) :
                   world' \in Dispatch(self, call, paid)
  BY <1>1, <1>4, <1>8, <1>9, <1>11, <1>12, RoutedOK
<1>14. PICK self \in Adapters : \E paid \in TransferFrom(world, Vault, self, payment) :
                                   world' \in Dispatch(self, call, paid)
  BY <1>13
<1>15. PICK paid \in TransferFrom(world, Vault, self, payment) :
          world' \in Dispatch(self, call, paid)
  BY <1>14
<1>16. Sound(paid) /\ PaidInto(paid, world, Vault, self, Cost(payment))
  BY <1>7, <1>15, Pulled DEF WorldOK
<1>17. world' \in SwapExact(paid, self, Usdc, Weth, n, 0, u)
  BY <1>10, <1>15
<1>18. /\ world'.staked = paid.staked
       /\ \A x \in Accounts : world'.balance[x][Lp] = paid.balance[x][Lp]
  BY <1>1, <1>3, <1>16, <1>17, SwapSpends
<1>19. Kept(world', world, u)
  <2>1. u \in Accounts \ {Vault, self}
    BY <1>1, Distinct
  <2> QED
    BY <1>2, <1>16, <1>18, <2>1 DEF PaidInto, Kept
<1>20. UNCHANGED <<adapterCache, userOf, session>>
  BY DEF VaultSwap, BackendIdle
<1> QED
  BY <1>13, <1>19, <1>20 DEF Untouched

-----------------------------------------------------------------------------
(* The wallet                                                              *)

\* A signed step is no longer to be signed.
LEMMA StepDoneOK ==
  ASSUME SessionsOK, NEW s \in Sessions, At(s, "signing"), StepDone(s), userOf' = userOf
  PROVE  /\ SessionsOK' /\ session'[s] # session[s]
         /\ NextStep(s) \in Steps(userOf[s])
<1> DEFINE x == session[s]
           u == userOf[s]
           rest == Tail(x.steps)
           y == IF rest = <<>> THEN Done ELSE [x EXCEPT !.steps = rest]
<1>1. x \in Session(u) /\ x.phase = "signing" /\ x.steps # <<>> /\ InPhase(x)
  BY DEF SessionsOK, InPhase, At
<1>2. x.steps \in Seq(Steps(u))
  BY <1>1 DEF Session
<1>3. /\ rest \in Seq(Steps(u)) /\ Head(x.steps) \in Steps(u) /\ rest # x.steps
  <2> DEFINE p == x.steps
  <2>1. p \in Seq(Steps(u)) /\ p # <<>>
    BY <1>1, <1>2
  <2> HIDE DEF p
  <2>2. /\ Tail(p) \in Seq(Steps(u)) /\ Head(p) \in Steps(u) /\ Len(Tail(p)) = Len(p) - 1
        /\ Len(p) \in Nat
    BY <2>1
  <2>3. Tail(p) # p
    <3> SUFFICES ASSUME Tail(p) = p PROVE FALSE
      OBVIOUS
    <3>1. Len(Tail(p)) = Len(p)
      BY Zenon
    <3> DEFINE n == Len(Tail(p))
               m == Len(p)
    <3>2. n = m - 1 /\ m \in Nat /\ n = m
      BY <2>2, <3>1, Zenon
    <3> HIDE DEF n, m
    <3> QED
      BY <3>2
  <2> QED
    BY <2>2, <2>3 DEF p
<1>4. session' = [session EXCEPT ![s] = y]
  BY DEF StepDone
<1> HIDE DEF x, rest
<1>5. y \in Session(u) /\ InPhase(y) /\ y # x
  <2>1. CASE rest = <<>>
    <3>1. Done.phase = "done"
      BY DEF Done, Idle
    <3> QED
      BY <1>1, <2>1, <3>1, EndsTyped
  <2>2. CASE rest # <<>>
    <3> DEFINE z == [x EXCEPT !.steps = rest]
    <3>1. z \in Session(u) /\ z.phase = "signing" /\ z.steps = rest
      BY <1>1, <1>3 DEF Session
    <3>2. y = z
      BY <2>2
    <3> HIDE DEF z, y
    <3>3. InPhase(z)
      BY <2>2, <3>1 DEF InPhase
    <3> QED
      BY <1>3, <3>1, <3>2, <3>3
  <2> QED
    BY <2>1, <2>2
<1> HIDE DEF y
<1>6. SessionsOK'
  BY <1>4, <1>5, SessionChange
<1>7. session'[s] = y
  BY <1>4 DEF SessionsOK
<1> QED
  BY <1>3, <1>5, <1>6, <1>7 DEF NextStep, x

\* What a user signs concerns that user.
LEMMA SignedOK ==
  ASSUME SessionsOK, RegistryOK, StakesOK, WorldOK, NEW s \in Sessions,
         \/ signApprove(s) \/ signExecute(s) \/ abandonBundle(s)
  PROVE  /\ SessionsOK' /\ RegistryOK' /\ StakesOK' /\ WorldOK'
         /\ UNCHANGED <<adapterCache, userOf>>
         /\ At(s, "signing") /\ session'[s] # session[s]
         /\ \A x \in Users \ {userOf[s]} : Kept(world', world, x)
<1> DEFINE u == userOf[s]
           st == NextStep(s)
<1>1. u \in Users /\ At(s, "signing") /\ UNCHANGED <<adapterCache, userOf>>
  BY DEF SessionsOK, signApprove, signExecute, abandonBundle
<1>2. CASE signApprove(s)
  <2>1. SessionsOK' /\ session'[s] # session[s] /\ st \in Steps(u)
    BY <1>1, <1>2, StepDoneOK DEF signApprove
  <2>2. st.token \in AllTokens /\ st.amount \in Nat
    BY <1>2, <2>1 DEF signApprove, Steps, Approvals, Executions
  <2>3. world' = [world EXCEPT !.allowance[u][st.token] = st.amount] /\ UNCHANGED chainVars
    BY <1>2 DEF signApprove
  <2> HIDE DEF st
  <2>4. Untouched /\ world'.staked = world.staked
    BY <1>1, <2>2, <2>3, Approved
  <2>5. StakesOK'
    BY <2>3, <2>4, StakesStay DEF chainVars
  <2> QED
    BY <1>1, <2>1, <2>3, <2>4, <2>5, RegistryStays DEF Untouched
<1>3. CASE signExecute(s)
  <2>1. SessionsOK' /\ session'[s] # session[s] /\ st \in Steps(u)
    BY <1>1, <1>3, StepDoneOK DEF signExecute
  <2>2. st \in Executions(u) /\ PaysForItself(st)
    BY <1>3, <2>1 DEF signExecute, Steps, Approvals
  <2>3. /\ st.protocol = Aerodrome /\ st.call \in AdapterCalls(u)
        /\ st.payment \in UNION {AmountsOf(S) : S \in SUBSET AllTokens}
    BY <2>2 DEF Executions
  <2>4. Base!Route(u, u, st.protocol, st.call, st.payment, st.deadline)
    BY <1>3 DEF signExecute, Base!execute
  <2> HIDE DEF st
  <2>5. /\ RegistryOK' /\ StakesOK' /\ WorldOK'
        /\ \A x \in Users \ {u} : Kept(world', world, x)
    BY <1>1, <2>2, <2>3, <2>4, RoutedOK DEF PaysForItself
  <2> QED
    BY <1>1, <2>1, <2>5
<1>4. CASE abandonBundle(s)
  <2>1. session' = [session EXCEPT ![s] = Done] /\ UNCHANGED <<chainVars, world>>
    BY <1>4 DEF abandonBundle
  <2>2. SessionsOK'
    BY <1>1, <2>1, EndsTyped, SessionChange
  <2>3. session'[s] # session[s]
    <3>1. session'[s] = Done
      BY <2>1 DEF SessionsOK
    <3>2. Done.phase = "done"
      BY DEF Done, Idle
    <3> QED
      BY <1>1, <3>1, <3>2 DEF At
  <2>4. Untouched
    BY <2>1, WorldStays
  <2>5. StakesOK'
    BY <2>1, StakesStay DEF chainVars
  <2> QED
    BY <1>1, <2>1, <2>2, <2>3, <2>4, <2>5, RegistryStays DEF Untouched
<1> QED
  BY <1>2, <1>3, <1>4

-----------------------------------------------------------------------------
(* The start                                                               *)

\* The stakes by adapter and the stakes by user add up to the same.
LEMMA StakesByUser ==
  ASSUME NEW st \in [Adapters -> Nat], NEW by \in [Users -> Nat], NEW own,
         \A a \in Adapters : st[a] = IF a = own[a.user] THEN by[a.user] ELSE 0,
         \A u \in Users : by[u] # 0 => own[u] \in Adapters /\ own[u].user = u,
         IsFiniteSet(Adapters), IsFiniteSet(Users)
  PROVE  Sums(st, Adapters)[Adapters] = Sums(by, Users)[Users]
<1> DEFINE F == Sums(st, Adapters)
           G == Sums(by, Users)
           Of(T) == {a \in Adapters : a.user \in T}
           Bad == {T \in SUBSET Users : F[Of(T)] # G[T]}
<1>0. Counts(st, Adapters) /\ Counts(by, Users)
  BY DEF Counts
<1>1. Adds(F, st, Adapters)
  BY <1>0, SumOfPart
<1>2. Adds(G, by, Users)
  BY <1>0, SumOfPart
<1>3. ASSUME NEW u \in Users PROVE F[Of({u})] = by[u]
  <2> DEFINE n == by[u]
             r == Of({u})
  <2>1. n \in Nat /\ r \in SUBSET Adapters
    OBVIOUS
  <2>2. \A a \in r : st[a] = IF a = own[u] THEN n ELSE 0
    OBVIOUS
  <2>3. n # 0 => own[u] \in r
    OBVIOUS
  <2>4. \/ n = 0 /\ \A x \in r : st[x] = 0
        \/ \E y \in r : st[y] = n /\ \A x \in r \ {y} : st[x] = 0
    BY <2>2, <2>3
  <2> HIDE DEF n, r
  <2>5. F[r] = n
    BY <2>1, <2>4, SumOfOne
  <2> QED
    BY <2>5 DEF n, r
<1>4. ASSUME NEW T \in SUBSET Users, NEW u \in T
      PROVE  F[Of(T)] = F[Of({u})] + F[Of(T \ {u})]
  <2> DEFINE r == Of({u})
             t == Of(T \ {u})
  <2>1. r \subseteq Adapters /\ t \subseteq Adapters /\ r \cap t = {} /\ Of(T) = r \cup t
    OBVIOUS
  <2> HIDE DEF r, t, Of
  <2>2. F[r \cup t] = F[r] + F[t]
    BY <2>1, SumOfUnion
  <2> QED
    BY <2>1, <2>2 DEF r, t
<1>5. Of({}) = {} /\ Of(Users) = Adapters
  BY DEF Adapters
<1>6. \A T : Of(T) \in SUBSET Adapters
  OBVIOUS
<1> HIDE DEF F, G, Of
<1>7. /\ F[{}] = 0 /\ \A s \in SUBSET Adapters : F[s] \in Nat
  BY <1>1 DEF Adds
<1>8. /\ G[{}] = 0 /\ \A s \in SUBSET Users : G[s] \in Nat
      /\ \A s \in SUBSET Users : \A x \in s : G[s] = by[x] + G[s \ {x}]
  BY <1>2 DEF Adds
<1>9. Bad = {}
  <2> SUFFICES ASSUME Bad # {} PROVE FALSE
    OBVIOUS
  <2>1. Bad \subseteq SUBSET Users
    OBVIOUS
  <2>2. \E s \in Bad : \A q \in Bad : q \subseteq s => q = s
    <3> HIDE DEF Bad
    <3> QED
      BY <2>1, SmallestSubset
  <2>3. PICK s \in Bad : \A q \in Bad : q \subseteq s => q = s
    BY <2>2
  <2>4. s # {} /\ s \in SUBSET Users
    BY <1>5, <1>7, <1>8, <2>3
  <2>5. PICK x \in s : TRUE
    BY <2>4
  <2>6. s \ {x} \notin Bad
    BY <2>3, <2>5
  <2>7. F[Of(s \ {x})] = G[s \ {x}]
    BY <2>4, <2>6
  <2>8. F[Of(s)] = F[Of({x})] + F[Of(s \ {x})] /\ F[Of({x})] = by[x]
    BY <1>3, <1>4, <2>4, <2>5
  <2>9. G[s] = by[x] + G[s \ {x}]
    BY <1>8, <2>4, <2>5
  <2> QED
    BY <2>3, <2>7, <2>8, <2>9
<1>10. F[Of(Users)] = G[Users]
  BY <1>9
<1> QED
  BY <1>5, <1>10 DEF F, G

\* At the start every liquidity token is somebody's, and no proxy holds anything.
LEMMA WorldInit ==
  ASSUME Init
  PROVE  WorldOK
<1> DEFINE Lw == [c \in Wallets |-> Funds[c][Lp]]
           st == world.staked
           H == Holdings(world)
           K == SumFunction(Lw)
           L == SumFunction(InitialStake)
<1>1. /\ world = [balance |-> [c \in Accounts |-> IF c \in Adapters THEN NoTokens ELSE Funds[c]],
                allowance |-> [c \in Users \cup {Vault} |->
                    IF c = Vault THEN Funds[c] ELSE NoTokens],
                supply |-> K + L,
                staked |-> [a \in Adapters |->
                    IF a = userAdapters[Aerodrome][a.user] THEN InitialStake[a.user] ELSE 0],
                earned |-> [a \in Adapters |->
                    IF a = userAdapters[Aerodrome][a.user] THEN InitialReward[a.user] ELSE 0]]
  BY DEF Init
<1>2. /\ world.balance = [c \in Accounts |-> IF c \in Adapters THEN NoTokens ELSE Funds[c]]
      /\ world.allowance = [c \in Users \cup {Vault} |-> IF c = Vault THEN Funds[c] ELSE NoTokens]
      /\ world.supply = K + L
      /\ world.staked = [a \in Adapters |->
            IF a = userAdapters[Aerodrome][a.user] THEN InitialStake[a.user] ELSE 0]
      /\ world.earned = [a \in Adapters |->
            IF a = userAdapters[Aerodrome][a.user] THEN InitialReward[a.user] ELSE 0]
      /\ world = [balance |-> world.balance, allowance |-> world.allowance,
                  supply |-> world.supply, staked |-> world.staked, earned |-> world.earned]
  BY <1>1
<1>3. /\ Funds \in [Wallets -> [AllTokens -> Nat]] /\ Funds[Executor] = NoTokens
      /\ Funds[Pool][Weth] > 0 /\ Funds[Pool][Usdc] > 0 /\ Funds[Market][Lp] > 0
      /\ InitialStake \in [Users -> Nat] /\ InitialReward \in [Users -> Nat]
      /\ IsFiniteSet(Accounts) /\ Wallets \cap Adapters = {}
  BY StrategiesAssumption
<1>4. /\ Accounts = Wallets \cup Adapters /\ Users \subseteq Wallets
      /\ {Vault, Market, Executor, Pool} \subseteq Wallets
  BY DEF Accounts, Wallets
<1>5. IsFiniteSet(Wallets) /\ IsFiniteSet(Adapters) /\ IsFiniteSet(Users)
  BY <1>3, <1>4, FS_Subset
<1>6. Lw \in [Wallets -> Nat] /\ Lw[Market] > 0 /\ DOMAIN Lw = Wallets
  BY <1>3, <1>4, Distinct
<1>7. /\ st \in [Adapters -> Nat]
      /\ \A a \in Adapters : st[a] =
            IF a = userAdapters[Aerodrome][a.user] THEN InitialStake[a.user] ELSE 0
  <2>1. \A a \in Adapters : a.user \in Users
    BY DEF Adapters
  <2> QED
    BY <1>2, <1>3, <2>1
<1>8. world.earned \in [Adapters -> Nat]
  <2>1. \A a \in Adapters : a.user \in Users
    BY DEF Adapters
  <2> QED
    BY <1>2, <1>3, <2>1
<1>9. NoTokens \in [AllTokens -> Nat] /\ \A t \in AllTokens : NoTokens[t] = 0
  BY DEF NoTokens
<1>10. /\ world.balance \in [Accounts -> [AllTokens -> Nat]]
       /\ \A c \in Wallets : world.balance[c] = Funds[c]
       /\ \A a \in Adapters : world.balance[a] = NoTokens
  BY <1>2, <1>3, <1>4, <1>9
<1>11. world.allowance \in [Users \cup {Vault} -> [AllTokens -> Nat]]
  BY <1>2, <1>3, <1>4, <1>9
<1>12. K \in Nat /\ K > 0 /\ K = Sums(Lw, Wallets)[Wallets]
  <2> DEFINE F == Sums(Lw, Wallets)
  <2> HIDE DEF Lw
  <2>1. Counts(Lw, Wallets)
    BY <1>6 DEF Counts
  <2>2. Adds(F, Lw, Wallets)
    BY <1>5, <2>1, SumOfPart
  <2>3. K = F[Wallets]
    BY <1>6, SumFunctionIsSum
  <2> HIDE DEF F
  <2>4. F[Wallets] = Lw[Market] + F[Wallets \ {Market}] /\ F[Wallets \ {Market}] \in Nat
        /\ F[Wallets] \in Nat
    BY <1>4, <2>2 DEF Adds
  <2>5. Lw[Market] \in Nat
    BY <1>4, <1>6
  <2> HIDE DEF K
  <2>6. K \in Nat /\ K > 0
    BY <1>6, <2>3, <2>4, <2>5
  <2> QED
    BY <2>3, <2>6 DEF F
<1>13. L \in Nat /\ L = Sums(InitialStake, Users)[Users]
  <2> DEFINE F == Sums(InitialStake, Users)
  <2>1. Counts(InitialStake, Users) /\ DOMAIN InitialStake = Users
    BY <1>3 DEF Counts
  <2>2. Adds(F, InitialStake, Users)
    BY <1>5, <2>1, SumOfPart
  <2>3. L = F[Users]
    BY <2>1, SumFunctionIsSum
  <2> HIDE DEF F
  <2>4. F[Users] \in Nat
    BY <2>2 DEF Adds
  <2> QED
    BY <2>3, <2>4 DEF F
<1> HIDE DEF K, L, Lw
<1>14. world \in Worlds
  <2>1. world.supply \in Nat \ {0}
    BY <1>2, <1>12, <1>13
  <2> HIDE DEF st
  <2>2. world.staked \in [Adapters -> Nat]
    BY <1>7 DEF st
  <2> QED
    BY <1>2, <1>8, <1>10, <1>11, <2>1, <2>2 DEF Worlds
<1>15. H \in [Accounts -> Nat] /\ DOMAIN H = Accounts
  BY <1>14, HoldingsTyped
<1>16. /\ \A c \in Wallets : H[c] = Lw[c]
       /\ \A a \in Adapters : H[a] = st[a]
  <2>1. \A c \in Wallets : H[c] = world.balance[c][Lp] + 0
    BY <1>3, <1>4 DEF Holdings
  <2>2. \A c \in Wallets : world.balance[c][Lp] = Lw[c] /\ Lw[c] \in Nat
    BY <1>6, <1>10 DEF Lw
  <2>3. \A a \in Adapters : H[a] = world.balance[a][Lp] + st[a]
    BY <1>4 DEF Holdings
  <2>4. \A a \in Adapters : world.balance[a][Lp] = 0 /\ st[a] \in Nat
    BY <1>7, <1>9, <1>10, Distinct
  <2> HIDE DEF H, st
  <2> QED
    BY <2>1, <2>2, <2>3, <2>4
<1> HIDE DEF H
<1>17. SumFunction(H) = Sums(H, Accounts)[Accounts]
  BY <1>15, SumFunctionIsSum
<1>18. Sums(H, Accounts)[Wallets \cup Adapters]
         = Sums(H, Accounts)[Wallets] + Sums(H, Accounts)[Adapters]
  <2>1. Wallets \subseteq Accounts /\ Adapters \subseteq Accounts
    BY <1>4
  <2> QED
    BY <1>3, <1>15, <2>1, SumOfUnion
<1>19. Counts(H, Accounts) /\ Counts(Lw, Wallets) /\ Counts(st, Adapters)
  BY <1>6, <1>7, <1>15 DEF Counts
<1> HIDE DEF st
<1>20. Sums(H, Accounts)[Wallets] = Sums(Lw, Wallets)[Wallets]
  <2>1. Wallets \subseteq Accounts \cap Wallets
    BY <1>4
  <2> QED
    BY <1>3, <1>5, <1>16, <1>19, <2>1, SameSum
<1>21. Sums(H, Accounts)[Adapters] = Sums(st, Adapters)[Adapters]
  <2>1. Adapters \subseteq Accounts \cap Adapters
    BY <1>4
  <2> QED
    BY <1>3, <1>5, <1>16, <1>19, <2>1, SameSum
<1>22. Sums(st, Adapters)[Adapters] = Sums(InitialStake, Users)[Users]
  <2> DEFINE own == userAdapters[Aerodrome]
  <2>1. \A u \in Users : InitialStake[u] # 0 => own[u] \in Adapters /\ own[u].user = u
    BY RegistryInit
  <2>2. \A a \in Adapters : st[a] = IF a = own[a.user] THEN InitialStake[a.user] ELSE 0
    BY <1>7
  <2> HIDE DEF own
  <2> QED
    BY <1>3, <1>5, <1>7, <2>1, <2>2, StakesByUser
<1>23. world.supply = SumFunction(H)
  BY <1>2, <1>4, <1>12, <1>13, <1>17, <1>18, <1>20, <1>21, <1>22
<1>24. Sound(world)
  <2>1. /\ world.balance[Pool] = Funds[Pool] /\ world.balance[Market] = Funds[Market]
    BY <1>4, <1>10
  <2> QED
    BY <1>3, <1>14, <1>23, <2>1 DEF Sound, Reserve, H
<1>25. Passages(world)
  BY <1>3, <1>4, <1>9, <1>10 DEF Passages
<1> QED
  BY <1>24, <1>25 DEF WorldOK

-----------------------------------------------------------------------------
(* The invariant                                                           *)

Invariant == RegistryOK /\ CacheOK /\ SessionsOK /\ WorldOK /\ StakesOK

\* Whose liquidity changes is signing a step.
OwnStep ==
    \A u \in Users : Kept(world', world, u) \/
        \E s \in Sessions : userOf[s] = u /\ At(s, "signing") /\ session'[s] # session[s]

\* It holds at the start.
LEMMA InvariantInit == Init => Invariant
<1> SUFFICES ASSUME Init PROVE Invariant
  OBVIOUS
<1>1. CacheOK
  BY DEF Init, CacheOK
<1>2. userOf \in [Sessions -> Users] /\ session = [s \in Sessions |-> Idle]
  BY DEF Init
<1>3. \A s \in Sessions : session[s] \in Session(userOf[s]) /\ InPhase(session[s])
  BY <1>2, EndsTyped
<1>4. session \in [Sessions -> UNION {Session(u) : u \in Users}]
  BY <1>2, <1>3
<1>5. \A a \in Adapters : world.staked[a] =
         IF a = userAdapters[Aerodrome][a.user] THEN InitialStake[a.user] ELSE 0
  BY DEF Init
<1>6. StakesOK
  BY <1>5 DEF StakesOK
<1> QED
  BY <1>1, <1>2, <1>3, <1>4, <1>6, RegistryInit, WorldInit DEF Invariant, SessionsOK

\* And every step keeps it, and the liquidity of everybody but the signer.
LEMMA InvariantStep ==
  ASSUME Invariant, [Next]_vars
  PROVE  Invariant' /\ OwnStep
<1> DEFINE Goal == Invariant' /\ OwnStep
<1>1. RegistryOK /\ CacheOK /\ SessionsOK /\ WorldOK /\ StakesOK /\ Sound(world)
  BY DEF Invariant, WorldOK
<1>2. ASSUME SessionsOK', UNCHANGED <<chainVars, world, adapterCache>> PROVE Goal
  <2>1. CacheOK' /\ RegistryOK' /\ Untouched
    BY <1>1, <1>2, RegistryStays, WorldStays DEF CacheOK
  <2>2. StakesOK'
    BY <1>1, <1>2, StakesStay DEF chainVars
  <2> QED
    BY <1>2, <2>1, <2>2 DEF Invariant, OwnStep, Untouched
<1>3. ASSUME RegistryOK', StakesOK', Untouched, UNCHANGED <<adapterCache, userOf, session>>
      PROVE  Goal
  <2>1. CacheOK' /\ SessionsOK'
    BY <1>1, <1>3 DEF CacheOK, SessionsOK
  <2> QED
    BY <1>3, <2>1 DEF Invariant, OwnStep, Untouched
<1>4. ASSUME NEW s \in Sessions, Begin(s) PROVE Goal
  BY <1>1, <1>2, <1>4, BeginOK
<1>5. ASSUME NEW s \in Sessions,
             \/ PreparationFails(s) \/ capToBalance(s) \/ quoteAddLiquidity(s)
             \/ buildAerodromeAddLiquidityBundle(s)
      PROVE  Goal
  BY <1>1, <1>2, <1>5, EnterOK
<1>6. ASSUME NEW s \in Sessions, lookupForExit(s) \/ lookupForClaim(s) PROVE Goal
  <2>1. SessionsOK' /\ CacheOK' /\ UNCHANGED <<chainVars, world, userOf>>
    BY <1>1, <1>6, LookupOK
  <2>2. RegistryOK' /\ StakesOK' /\ Untouched
    BY <1>1, <2>1, RegistryStays, StakesStay, WorldStays DEF chainVars
  <2> QED
    BY <2>1, <2>2 DEF Invariant, OwnStep, Untouched
<1>7. ASSUME NEW s \in Sessions,
             \/ readStakedBalance(s) \/ readWalletLp(s) \/ readLpAllowance(s)
             \/ buildExitBundle(s) \/ executeClaimRewards(s)
      PROVE  Goal
  BY <1>1, <1>2, <1>7, ExitOK
<1>8. ASSUME NEW s \in Sessions, getQuote(s) \/ buildAerodromeSwapBundle(s) PROVE Goal
  BY <1>1, <1>2, <1>8, SwapOK
<1>9. ASSUME NEW s \in Sessions, signApprove(s) \/ signExecute(s) \/ abandonBundle(s)
      PROVE  Goal
  <2>1. /\ SessionsOK' /\ RegistryOK' /\ StakesOK' /\ WorldOK'
        /\ UNCHANGED <<adapterCache, userOf>>
        /\ At(s, "signing") /\ session'[s] # session[s]
        /\ \A x \in Users \ {userOf[s]} : Kept(world', world, x)
    BY <1>1, <1>9, SignedOK
  <2>2. CacheOK'
    BY <1>1, <2>1 DEF CacheOK
  <2>3. OwnStep
    BY <2>1 DEF OwnStep
  <2> QED
    BY <2>1, <2>2, <2>3 DEF Invariant
<1>10. ASSUME NEW u \in Users, CacheExpires(u) PROVE Goal
  <2>1. CacheOK' /\ UNCHANGED <<chainVars, world, userOf, session>>
    BY <1>1, <1>10 DEF CacheExpires, CacheOK
  <2>2. RegistryOK' /\ StakesOK' /\ Untouched
    BY <1>1, <2>1, RegistryStays, StakesStay, WorldStays DEF chainVars
  <2>3. SessionsOK'
    BY <1>1, <2>1 DEF SessionsOK
  <2> QED
    BY <2>1, <2>2, <2>3 DEF Invariant, OwnStep, Untouched
<1>11. ASSUME NEW u \in VaultClients, NEW n \in VaultSwaps, VaultSwap(u, n) PROVE Goal
  BY <1>1, <1>3, <1>11, VaultSwapOK
<1>12. CASE MarketTrade
  <2>1. UNCHANGED chainVars /\ UNCHANGED <<adapterCache, userOf, session>>
    BY <1>12 DEF MarketTrade, BackendIdle
  <2>2. Untouched /\ world'.staked = world.staked
    BY <1>1, <1>12, Traded1
  <2>3. RegistryOK' /\ StakesOK'
    BY <1>1, <2>1, <2>2, RegistryStays, StakesStay DEF chainVars
  <2> QED
    BY <1>3, <2>1, <2>2, <2>3
<1>13. CASE AdministerRegistry \/ (Base!Tick /\ BackendIdle)
  <2>1. RegistryOK' /\ UNCHANGED <<userAdapters, world, adapterCache, userOf, session>>
    BY <1>1, <1>13, AdministeredRegistry
  <2> QED
    BY <1>1, <1>3, <2>1, StakesStay, WorldStays
<1>14. CASE UNCHANGED vars
  <2>1. UNCHANGED chainVars /\ UNCHANGED world /\ UNCHANGED <<adapterCache, userOf, session>>
    BY <1>14 DEF vars
  <2>2. StakesOK'
    BY <1>1, <2>1, StakesStay DEF chainVars
  <2> QED
    BY <1>1, <1>3, <2>1, <2>2, RegistryStays, WorldStays
<1> HIDE DEF Goal
<1>15. CASE Next
  BY <1>4, <1>5, <1>6, <1>7, <1>8, <1>9, <1>10, <1>11, <1>12, <1>13, <1>15 DEF Next, Goal
<1> QED
  BY <1>14, <1>15 DEF Goal

\* They hold throughout.
LEMMA AlwaysInvariant == Spec => []Invariant
<1>1. Invariant /\ [Next]_vars => Invariant'
  BY InvariantStep
<1> QED
  BY <1>1, InvariantInit, PTL DEF Spec

-----------------------------------------------------------------------------
(* Steps signed one after the other                                        *)

\* Signed in a world of A, these steps pass and lead to worlds of B: there are sets of
\* worlds in between such that each step leads from one to the next.
Runs(u, A, p, B) ==
    \E W : /\ A \subseteq W[0] /\ W[Len(p)] \subseteq B
           /\ \A n \in 1 .. Len(p) : \A w \in W[n - 1] :
                 AfterStep(u, w, p[n]) # {} /\ AfterStep(u, w, p[n]) \subseteq W[n]

\* Nothing to sign.
LEMMA NoStep ==
  ASSUME NEW u, NEW A, NEW B, A \subseteq B
  PROVE  Runs(u, A, <<>>, B)
<1> DEFINE W == [n \in {0} |-> A]
<1>1. A \subseteq W[0] /\ W[Len(<<>>)] \subseteq B /\ 1 .. Len(<<>>) = {}
  OBVIOUS
<1> HIDE DEF W
<1> QED
  BY <1>1 DEF Runs

\* One step.
LEMMA OneStep ==
  ASSUME NEW u, NEW A, NEW B, NEW st,
         \A w \in A : AfterStep(u, w, st) # {} /\ AfterStep(u, w, st) \subseteq B
  PROVE  Runs(u, A, <<st>>, B)
<1> DEFINE W == [n \in {0, 1} |-> IF n = 0 THEN A ELSE B]
           p == <<st>>
<1>1. W[0] = A /\ W[1] = B
  OBVIOUS
<1>2. Len(p) = 1 /\ p[1] = st
  OBVIOUS
<1> HIDE DEF W, p
<1>3. ASSUME NEW n \in 1 .. Len(p), NEW w \in W[n - 1]
      PROVE  AfterStep(u, w, p[n]) # {} /\ AfterStep(u, w, p[n]) \subseteq W[n]
  <2>1. n = 1 /\ n - 1 = 0
    BY <1>2
  <2> QED
    BY <1>1, <1>2, <2>1
<1>4. W[Len(p)] = B
  BY <1>1, <1>2
<1>5. Runs(u, A, p, B)
  BY <1>1, <1>3, <1>4 DEF Runs
<1> QED
  BY <1>5 DEF p

\* First these steps, then those.
LEMMA StepsThen ==
  ASSUME NEW u, NEW A, NEW B, NEW C, NEW S, NEW p \in Seq(S), NEW q \in Seq(S),
         Runs(u, A, p, B), Runs(u, B, q, C)
  PROVE  Runs(u, A, p \o q, C)
<1>1. PICK V : /\ A \subseteq V[0] /\ V[Len(p)] \subseteq B
               /\ \A n \in 1 .. Len(p) : \A w \in V[n - 1] :
                    AfterStep(u, w, p[n]) # {} /\ AfterStep(u, w, p[n]) \subseteq V[n]
  BY DEF Runs
<1>2. PICK W : /\ B \subseteq W[0] /\ W[Len(q)] \subseteq C
               /\ \A n \in 1 .. Len(q) : \A w \in W[n - 1] :
                    AfterStep(u, w, q[n]) # {} /\ AfterStep(u, w, q[n]) \subseteq W[n]
  BY DEF Runs
<1> DEFINE j == Len(p)
           k == Len(q)
           r == p \o q
           X == [n \in 0 .. j + k |-> IF n < j THEN V[n] ELSE W[n - j]]
<1>3. /\ j \in Nat /\ k \in Nat /\ Len(r) = j + k
      /\ \A n \in 1 .. j : r[n] = p[n]
      /\ \A n \in j + 1 .. j + k : r[n] = q[n - j]
  OBVIOUS
<1>4. /\ \A n \in 0 .. j + k : n < j => X[n] = V[n]
      /\ \A n \in 0 .. j + k : n >= j => X[n] = W[n - j]
  BY <1>3
<1> HIDE DEF X, r, j, k
<1>5. A \subseteq X[0]
  <2>1. CASE j = 0
    <3>1. A \subseteq B /\ X[0] = W[0]
      BY <1>1, <1>3, <1>4, <2>1 DEF j
    <3> QED
      BY <1>2, <3>1
  <2>2. CASE j > 0
    BY <1>1, <1>3, <1>4, <2>2
  <2> QED
    BY <1>3, <2>1, <2>2
<1>6. X[Len(r)] \subseteq C
  <2>1. X[j + k] = W[k]
    BY <1>3, <1>4
  <2> QED
    BY <1>2, <1>3, <2>1 DEF k
<1>7. ASSUME NEW n \in 1 .. Len(r), NEW w \in X[n - 1]
      PROVE  AfterStep(u, w, r[n]) # {} /\ AfterStep(u, w, r[n]) \subseteq X[n]
  <2>1. CASE n <= j
    <3>1. n \in 1 .. j /\ n - 1 \in 0 .. j + k /\ n - 1 < j /\ n \in 0 .. j + k
      BY <1>3, <2>1
    <3>2. w \in V[n - 1] /\ r[n] = p[n]
      BY <1>3, <1>4, <3>1
    <3>3. AfterStep(u, w, p[n]) # {} /\ AfterStep(u, w, p[n]) \subseteq V[n]
      BY <1>1, <3>1, <3>2 DEF j
    <3>4. CASE n < j
      BY <1>4, <3>1, <3>2, <3>3, <3>4
    <3>5. CASE n = j
      <4>1. V[n] \subseteq W[0]
        BY <1>1, <1>2, <3>5 DEF j
      <4>2. X[n] = W[0]
        BY <1>3, <1>4, <3>1, <3>5
      <4> QED
        BY <3>2, <3>3, <4>1, <4>2
    <3> QED
      BY <1>3, <2>1, <3>4, <3>5
  <2>2. CASE n > j
    <3> DEFINE m == n - j
    <3>1. /\ m \in 1 .. k /\ n \in j + 1 .. j + k /\ n - 1 \in 0 .. j + k /\ n - 1 >= j
          /\ n \in 0 .. j + k /\ n >= j /\ n - 1 - j = m - 1
      BY <1>3, <2>2
    <3>2. w \in W[m - 1] /\ r[n] = q[m] /\ X[n] = W[m]
      <4>1. X[n - 1] = W[n - 1 - j] /\ X[n] = W[m]
        BY <1>4, <3>1
      <4>2. r[n] = q[m]
        BY <1>3, <3>1
      <4>3. X[n - 1] = W[m - 1]
        BY <3>1, <4>1
      <4> QED
        BY <4>1, <4>2, <4>3
    <3>3. AfterStep(u, w, q[m]) # {} /\ AfterStep(u, w, q[m]) \subseteq W[m]
      BY <1>2, <3>1, <3>2 DEF k
    <3> QED
      BY <3>2, <3>3
  <2> QED
    BY <1>3, <2>1, <2>2
<1>8. Runs(u, A, r, C)
  BY <1>5, <1>6, <1>7 DEF Runs
<1> QED
  BY <1>8 DEF r

\* What is said of the worlds before and after may be said otherwise.
LEMMA RunsWeaken ==
  ASSUME NEW u, NEW A, NEW B, NEW C, NEW p, Runs(u, A, p, B), B \subseteq C
  PROVE  Runs(u, A, p, C)
BY DEF Runs

\* The worlds after n of the steps.
AfterSome(u, f, p, n) ==
    IF n = 0 THEN {world} ELSE UNION {AfterStep(u, w, p[n]) : w \in f[n - 1]}

\* They are defined for any number of steps.
LEMMA StepsDefined ==
  ASSUME NEW u, NEW p, NEW k \in Nat
  PROVE  \E f : f = [n \in 0 .. k |-> AfterSome(u, f, p, n)]
<1> DEFINE Defined(m) == \E f : f = [n \in 0 .. m |-> AfterSome(u, f, p, n)]
           Bad == {m \in Nat : ~Defined(m)}
<1>1. Bad = {}
  <2> SUFFICES ASSUME Bad # {} PROVE FALSE
    OBVIOUS
  <2>1. \E m \in Bad : \A n \in Bad : m <= n
    <3>1. Bad \subseteq Nat
      OBVIOUS
    <3> HIDE DEF Bad
    <3> QED
      BY <3>1, SmallestNumber
  <2>2. PICK m \in Bad : \A n \in Bad : m <= n
    BY <2>1
  <2>3. m \in Nat /\ ~Defined(m)
    OBVIOUS
  <2>4. CASE m = 0
    <3> DEFINE f == [n \in 0 .. m |-> {world}]
    <3>1. \A n \in 0 .. m : AfterSome(u, f, p, n) = {world}
      BY <2>4 DEF AfterSome
    <3>2. f = [n \in 0 .. m |-> AfterSome(u, f, p, n)]
      BY <3>1
    <3> HIDE DEF f
    <3> QED
      BY <2>3, <3>2
  <2>5. CASE m # 0
    <3>1. m - 1 \in Nat /\ ~(m <= m - 1)
      BY <2>3, <2>5
    <3>2. Defined(m - 1)
      BY <2>2, <3>1
    <3>3. PICK g : g = [n \in 0 .. m - 1 |-> AfterSome(u, g, p, n)]
      BY <3>2
    <3> DEFINE f == [n \in 0 .. m |-> AfterSome(u, g, p, n)]
    <3>4. \A n \in 0 .. m - 1 : f[n] = g[n]
      BY <2>3, <3>3
    <3>5. \A n \in 0 .. m : AfterSome(u, f, p, n) = AfterSome(u, g, p, n)
      <4> HIDE DEF f
      <4> SUFFICES ASSUME NEW n \in 0 .. m
                   PROVE  AfterSome(u, f, p, n) = AfterSome(u, g, p, n)
        OBVIOUS
      <4>1. n # 0 => n - 1 \in 0 .. m - 1
        BY <2>3
      <4>2. n # 0 => f[n - 1] = g[n - 1]
        BY <3>4, <4>1
      <4> QED
        BY <4>2 DEF AfterSome
    <3>6. f = [n \in 0 .. m |-> AfterSome(u, f, p, n)]
      <4> DEFINE h == [n \in 0 .. m |-> AfterSome(u, f, p, n)]
      <4>1. f = h
        BY <3>5
      <4> QED
        BY <4>1
    <3> HIDE DEF f
    <3> QED
      BY <2>3, <3>6
  <2> QED
    BY <2>4, <2>5
<1> QED
  BY <1>1

\* Steps that pass one after the other pass together.
LEMMA RunsLead ==
  ASSUME NEW u, NEW S, NEW p \in Seq(S), NEW B, Runs(u, {world}, p, B)
  PROVE  AfterSteps(u, p) # {} /\ AfterSteps(u, p) \subseteq B
<1> DEFINE k == Len(p)
           F == CHOOSE f : f = [n \in 0 .. k |-> AfterSome(u, f, p, n)]
<1>1. k \in Nat
  OBVIOUS
<1>2. F = [n \in 0 .. k |-> AfterSome(u, F, p, n)]
  <2>1. \E f : f = [n \in 0 .. k |-> AfterSome(u, f, p, n)]
    <3> HIDE DEF k
    <3> QED
      BY <1>1, StepsDefined
  <2> QED
    BY <2>1, Zenon
<1>3. AfterSteps(u, p) = F[k]
  BY Zenon DEF AfterSteps, AfterSome
<1>4. PICK W : /\ {world} \subseteq W[0] /\ W[k] \subseteq B
               /\ \A n \in 1 .. k : \A w \in W[n - 1] :
                    AfterStep(u, w, p[n]) # {} /\ AfterStep(u, w, p[n]) \subseteq W[n]
  BY DEF Runs
<1> HIDE DEF F, k
<1>5. \A n \in 0 .. k : F[n] = AfterSome(u, F, p, n)
  BY <1>2
<1> DEFINE Bad == {n \in 0 .. k : ~(F[n] # {} /\ F[n] \subseteq W[n])}
<1>6. Bad = {}
  <2> SUFFICES ASSUME Bad # {} PROVE FALSE
    OBVIOUS
  <2>1. \E m \in Bad : \A n \in Bad : m <= n
    <3>1. Bad \subseteq Nat
      BY <1>1
    <3> HIDE DEF Bad
    <3> QED
      BY <3>1, SmallestNumber
  <2>2. PICK m \in Bad : \A n \in Bad : m <= n
    BY <2>1
  <2>3. m \in 0 .. k /\ ~(F[m] # {} /\ F[m] \subseteq W[m])
    OBVIOUS
  <2>4. m # 0
    <3>1. 0 \in 0 .. k
      BY <1>1
    <3>2. F[0] = {world}
      BY <1>5, <3>1 DEF AfterSome
    <3> QED
      BY <1>4, <2>3, <3>2
  <2>5. m - 1 \in 0 .. k /\ ~(m <= m - 1) /\ m \in 1 .. k
    BY <1>1, <2>3, <2>4
  <2>6. F[m - 1] # {} /\ F[m - 1] \subseteq W[m - 1]
    BY <2>2, <2>5
  <2>7. F[m] = UNION {AfterStep(u, w, p[m]) : w \in F[m - 1]}
    BY <1>5, <2>3, <2>4 DEF AfterSome
  <2>8. \A w \in F[m - 1] : AfterStep(u, w, p[m]) # {} /\ AfterStep(u, w, p[m]) \subseteq W[m]
    BY <1>4, <2>5, <2>6
  <2> QED
    BY <2>3, <2>6, <2>7, <2>8
<1>7. F[k] # {} /\ F[k] \subseteq W[k]
  BY <1>1, <1>6
<1> QED
  BY <1>3, <1>4, <1>7

-----------------------------------------------------------------------------
(* The way out                                                             *)

\* Slippage takes nothing less than nothing off.
LEMMA SlippageLess ==
  ASSUME NEW n \in Nat
  PROVE  applySlippage(n) \in Nat /\ applySlippage(n) <= n
<1> DEFINE m == 10000 - slippageBps
           p == n * m
<1>1. m \in Nat /\ m <= 10000
  BY StrategiesAssumption
<1> HIDE DEF m
<1>2. p \in Nat /\ p <= n * 10000
  BY <1>1
<1> HIDE DEF p
<1>3. p \div 10000 \in Nat /\ p \div 10000 <= n
  BY <1>2
<1> QED
  BY <1>3 DEF applySlippage, p, m

\* Who has a stake through one adapter only owns that and what is in the wallet.
LEMMA PositionOf ==
  ASSUME NEW w \in Worlds, NEW u \in Users, NEW self \in Adapters, self.user = u,
         \A a \in Adapters \ {self} : a.user = u => w.staked[a] = 0
  PROVE  Position(w, u) = w.balance[u][Lp] + w.staked[self]
<1> DEFINE A == {a \in Adapters : a.user = u}
           f == w.staked
           n == w.staked[self]
<1>1. SumFunctionOnSet(f, A) = Sums(f, A)[A]
  BY SumFunctionIsSum
<1>2. IsFiniteSet(Adapters) /\ IsFiniteSet(A)
  <2>1. IsFiniteSet(Accounts)
    BY StrategiesAssumption
  <2>2. A \subseteq Accounts /\ Adapters \subseteq Accounts
    BY DEF Accounts
  <2> QED
    BY <2>1, <2>2, FS_Subset
<1>3. f \in [Adapters -> Nat] /\ n \in Nat
  BY DEF Worlds
<1>4. self \in A /\ \A x \in A \ {self} : f[x] = 0
  OBVIOUS
<1>5. Position(w, u) = w.balance[u][Lp] + SumFunctionOnSet(f, A)
  BY DEF Position
<1> DEFINE g == [a \in A |-> f[a]]
<1>6. g \in [A -> Nat] /\ \A a \in A : g[a] = f[a]
  BY <1>3
<1> HIDE DEF A, f, g
<1>7. Sums(g, A)[A] = n
  <2>1. \E y \in A : g[y] = n /\ \A x \in A \ {y} : g[x] = 0
    BY <1>4, <1>6 DEF f
  <2> HIDE DEF n
  <2>2. A \in SUBSET A
    OBVIOUS
  <2> QED
    BY <1>2, <1>3, <1>6, <2>1, <2>2, SumOfOne
<1>8. Sums(f, A)[A] = Sums(g, A)[A]
  <2>1. Counts(f, A) /\ Counts(g, A)
    BY <1>6 DEF Counts
  <2>2. A \subseteq A \cap A
    OBVIOUS
  <2> QED
    BY <1>2, <1>6, <2>1, <2>2, SameSum
<1> QED
  BY <1>1, <1>5, <1>7, <1>8

\* Paying nothing changes nothing.
LEMMA NothingPulled ==
  ASSUME NEW w \in Worlds, NEW from \in Users, NEW to \in Adapters
  PROVE  TransferFrom(w, from, to, NoTokens) = {w}
<1> DEFINE paid == {t \in DOMAIN NoTokens : NoTokens[t] > 0}
           Of(t) == IF t \in paid THEN NoTokens[t] ELSE 0
           less == [t \in AllTokens |-> w.balance[from][t] - Of(t)]
           more == [t \in AllTokens |-> w.balance[to][t] + Of(t)]
           rest == [t \in AllTokens |-> IF t = Native THEN w.allowance[from][t]
                                        ELSE w.allowance[from][t] - Of(t)]
           b == [[w.balance EXCEPT ![from] = less] EXCEPT ![to] = more]
           al == [w.allowance EXCEPT ![from] = rest]
           v == [w EXCEPT !.balance[from] = [t \in AllTokens |-> @[t] - Of(t)],
                          !.balance[to] = [t \in AllTokens |-> @[t] + Of(t)],
                          !.allowance[from] =
                            [t \in AllTokens |-> IF t = Native THEN @[t] ELSE @[t] - Of(t)]]
<1>1. from \in Accounts /\ to \in Accounts /\ from # to
  BY Distinct
<1>2. paid = {} /\ \A t : Of(t) = 0
  BY DEF NoTokens
<1>3. /\ w.balance \in [Accounts -> [AllTokens -> Nat]]
      /\ w.allowance \in [Users \cup {Vault} -> [AllTokens -> Nat]]
  BY DEF Worlds
<1>4. TransferFrom(w, from, to, NoTokens) = {v}
  BY <1>2 DEF TransferFrom
<1>5. v = [w EXCEPT !.balance = b, !.allowance = al]
  BY <1>1, <1>3 DEF Worlds
<1> HIDE DEF paid
<1>6. less = w.balance[from] /\ more = w.balance[to] /\ rest = w.allowance[from]
  BY <1>1, <1>2, <1>3
<1>7. b = w.balance /\ al = w.allowance
  BY <1>1, <1>3, <1>6
<1> HIDE DEF b, al, v
<1>8. v = w
  BY <1>5, <1>7 DEF Worlds
<1> QED
  BY <1>4, <1>8

\* What a wallet has and the executor may take is taken.
LEMMA Pullable ==
  ASSUME NEW w \in Worlds, NEW from \in Users, NEW to, NEW n \in Nat,
         n <= w.balance[from][Lp], n <= w.allowance[from][Lp]
  PROVE  TransferFrom(w, from, to, Pay(Lp, n)) # {}
<1>1. w.balance[from][Lp] \in Nat /\ w.allowance[from][Lp] \in Nat
  BY Distinct DEF Worlds
<1>2. \A t \in DOMAIN Pay(Lp, n) : t = Lp /\ Pay(Lp, n)[t] = n
  BY DEF Pay
<1>3. \A t \in DOMAIN Pay(Lp, n) :
        /\ Has(w, t, from, Pay(Lp, n)[t])
        /\ w.allowance[from][t] >= Pay(Lp, n)[t]
  BY <1>1, <1>2 DEF Has
<1> QED
  BY <1>3 DEF TransferFrom

\* A user on the way out of the world x has k of liquidity in the wallet, of which the
\* executor may take q, and m staked through the user's adapter; the pool still is as in x.
OnTheWay(x, u, self, k, m, q) ==
    {w \in Worlds :
        /\ Sound(w)
        /\ w.balance[u][Lp] = k /\ w.allowance[u][Lp] >= q /\ w.staked[self] = m
        /\ \A a \in Adapters \ {self} : a.user = u => w.staked[a] = 0
        /\ w.balance[self][Lp] = 0
        /\ \A t \in AllTokens : w.balance[Pool][t] = x.balance[Pool][t]
        /\ w.supply = x.supply}

\* What the pool's share is on the way.
LEMMA SameShare ==
  ASSUME NEW v, NEW w, \A t \in AllTokens : v.balance[Pool][t] = w.balance[Pool][t],
         v.supply = w.supply, NEW n
  PROVE  QuoteRemove(v, n) = QuoteRemove(w, n)
<1>1. Reserve(v, Weth) = Reserve(w, Weth) /\ Reserve(v, Usdc) = Reserve(w, Usdc)
  BY Distinct DEF Reserve
<1> QED
  BY <1>1 DEF QuoteRemove

\* The stake is taken out of the gauge and arrives in the wallet.
LEMMA UnstakeLeads ==
  ASSUME NEW u \in Users, NEW self, self = Base!AdapterFor(Aerodrome, u), self \in Adapters,
         self.user = u, NEW x, NEW k \in Nat, NEW m \in Nat \ {0}, NEW q \in Nat, NEW d,
         NEW w \in OnTheWay(x, u, self, k, m, q),
         NEW st, st = Call([action |-> "unstake", amount |-> m, recipient |-> u], NoTokens, d)
  PROVE  /\ AfterStep(u, w, st) # {}
         /\ AfterStep(u, w, st) \subseteq OnTheWay(x, u, self, k + m, 0, q)
<1> DEFINE r == [action |-> "unstake", amount |-> m, recipient |-> u]
           w1 == [w EXCEPT !.balance[self][Lp] = @ + m, !.staked[self] = @ - m]
<1>1. /\ w \in Worlds /\ Sound(w) /\ w.balance[u][Lp] = k /\ w.allowance[u][Lp] >= q
      /\ w.staked[self] = m /\ w.balance[self][Lp] = 0 /\ w.supply = x.supply
      /\ \A a \in Adapters \ {self} : a.user = u => w.staked[a] = 0
      /\ \A t \in AllTokens : w.balance[Pool][t] = x.balance[Pool][t]
  BY DEF OnTheWay
<1>2. TransferFrom(w, u, self, NoTokens) = {w}
  BY <1>1, NothingPulled
<1>3. AfterStep(u, w, st) = unstake(w, self, r)
  <2>1. st.kind = "execute" /\ st.call = r /\ st.payment = NoTokens
    BY DEF Call, ExecuteStep
  <2>2. AfterStep(u, w, st) = UNION {Dispatch(self, r, y) : y \in {w}}
    BY <1>2, <2>1 DEF AfterStep, AndThen
  <2>3. Dispatch(self, r, w) = unstake(w, self, r)
    BY DEF Dispatch
  <2> QED
    BY <2>2, <2>3
<1>4. unstake(w, self, r) # {}
  <2>1. GaugeWithdraw(w, self, m) = {w1}
    BY <1>1 DEF GaugeWithdraw
  <2> HIDE DEF w1
  <2>2. unstake(w, self, r) = {Move(w1, Lp, self, u, m)}
    BY <2>1 DEF unstake, AndThen
  <2> QED
    BY <2>2
<1>5. ASSUME NEW v \in unstake(w, self, r) PROVE v \in OnTheWay(x, u, self, k + m, 0, q)
  <2> DEFINE c == [t \in AllTokens |-> 0]
  <2>1. r.recipient = u /\ r.amount = m /\ r.amount \in Nat /\ \A t \in AllTokens : c[t] = 0
    OBVIOUS
  <2> HIDE DEF r, c
  <2>2. /\ Spends(v, w, self, c, u)
        /\ v.staked[self] = w.staked[self] - r.amount
        /\ v.balance[u][Lp] = w.balance[u][Lp] + r.amount
        /\ \A t \in AllTokens : v.balance[Pool][t] = w.balance[Pool][t]
        /\ v.supply = w.supply /\ v.allowance = w.allowance
    BY <1>1, <2>1, UnstakeSpends
  <2>3. v.staked[self] = 0 /\ v.balance[u][Lp] = k + m
    BY <1>1, <2>1, <2>2
  <2>4. v.balance[self][Lp] = 0
    BY <1>1, <2>1, <2>2, Distinct DEF Spends
  <2>5. \A a \in Adapters \ {self} : a.user = u => v.staked[a] = 0
    BY <1>1, <2>2 DEF Spends
  <2>6. Sound(v) /\ v \in Worlds
    BY <2>2 DEF Spends, Sound
  <2> QED
    BY <1>1, <2>2, <2>3, <2>4, <2>5, <2>6 DEF OnTheWay
<1> QED
  BY <1>3, <1>4, <1>5

\* An approval lets the executor take what it names.
LEMMA ApproveLeads ==
  ASSUME NEW u \in Users, NEW self \in Adapters, NEW x, NEW k \in Nat, NEW m \in Nat,
         NEW q \in Nat, NEW n \in Nat, NEW w \in OnTheWay(x, u, self, k, m, q)
  PROVE  /\ AfterStep(u, w, ApproveStep(Lp, n)) # {}
         /\ AfterStep(u, w, ApproveStep(Lp, n)) \subseteq OnTheWay(x, u, self, k, m, n)
<1> DEFINE v == [w EXCEPT !.allowance[u][Lp] = n]
           row == [w.allowance[u] EXCEPT ![Lp] = n]
           al == [w.allowance EXCEPT ![u] = row]
<1>1. w \in Worlds /\ Sound(w) /\ Lp \in AllTokens
  BY Distinct DEF OnTheWay
<1>2. AfterStep(u, w, ApproveStep(Lp, n)) = {v}
  BY DEF AfterStep, ApproveStep
<1>3. w.allowance \in [Users \cup {Vault} -> [AllTokens -> Nat]]
  BY <1>1 DEF Worlds
<1>4. row \in [AllTokens -> Nat] /\ row[Lp] = n
  BY <1>1, <1>3
<1>5. v = [w EXCEPT !.allowance = al]
  BY <1>1 DEF Worlds
<1> HIDE DEF row
<1>6. al \in [Users \cup {Vault} -> [AllTokens -> Nat]] /\ al[u][Lp] = n
  BY <1>3, <1>4
<1> HIDE DEF al
<1>7. /\ v \in Worlds /\ v.balance = w.balance /\ v.staked = w.staked /\ v.supply = w.supply
      /\ v.allowance = al
  BY <1>1, <1>5, <1>6 DEF Worlds
<1> HIDE DEF v
<1>8. Holdings(v) = Holdings(w)
  BY <1>1, <1>7, SameHoldings
<1>9. Sound(v)
  BY <1>1, <1>7, <1>8 DEF Sound, Reserve
<1>10. v \in OnTheWay(x, u, self, k, m, n)
  BY <1>6, <1>7, <1>9 DEF OnTheWay
<1> QED
  BY <1>2, <1>10

\* The liquidity goes back into the pool, and nothing is left.
LEMMA RemoveLeads ==
  ASSUME NEW u \in Users, NEW self, self = Base!AdapterFor(Aerodrome, u), self \in Adapters,
         self.user = u, NEW x, NEW k \in Nat, NEW d, NEW share, share = QuoteRemove(x, k),
         share.a \in Nat \ {0}, share.b \in Nat \ {0},
         NEW w \in OnTheWay(x, u, self, k, 0, k),
         NEW st, st = Call([action |-> "removeLiquidity", liquidity |-> k,
                            minA |-> applySlippage(share.a), minB |-> applySlippage(share.b),
                            recipient |-> u], Pay(Lp, k), d)
  PROVE  /\ AfterStep(u, w, st) # {}
         /\ \A v \in AfterStep(u, w, st) : v \in Worlds /\ Position(v, u) = 0
<1> DEFINE r == [action |-> "removeLiquidity", liquidity |-> k,
                 minA |-> applySlippage(share.a), minB |-> applySlippage(share.b),
                 recipient |-> u]
           payment == Pay(Lp, k)
<1>1. /\ w \in Worlds /\ Sound(w) /\ w.balance[u][Lp] = k /\ w.allowance[u][Lp] >= k
      /\ w.staked[self] = 0 /\ w.balance[self][Lp] = 0 /\ w.supply = x.supply
      /\ \A a \in Adapters \ {self} : a.user = u => w.staked[a] = 0
      /\ \A t \in AllTokens : w.balance[Pool][t] = x.balance[Pool][t]
  BY DEF OnTheWay
<1>2. AfterStep(u, w, st) = UNION {removeLiquidity(p, self, r) :
                                     p \in TransferFrom(w, u, self, payment)}
  <2>1. st.kind = "execute" /\ st.call = r /\ st.payment = payment
    BY DEF Call, ExecuteStep
  <2>2. \A p : Dispatch(self, r, p) = removeLiquidity(p, self, r)
    BY DEF Dispatch
  <2> HIDE DEF r, payment
  <2>3. AfterStep(u, w, st) = UNION {Dispatch(self, r, p) :
                                       p \in TransferFrom(w, u, self, payment)}
    BY <2>1 DEF AfterStep, AndThen
  <2> QED
    BY <2>2, <2>3
<1>3. TransferFrom(w, u, self, payment) # {}
  <2>1. k <= w.balance[u][Lp] /\ k <= w.allowance[u][Lp]
    <3>1. w.allowance[u][Lp] \in Nat
      BY <1>1, Distinct DEF Worlds
    <3> QED
      BY <1>1, <3>1
  <2> QED
    BY <1>1, <2>1, Pullable
<1>4. /\ r.recipient = u /\ r.liquidity = k
      /\ r.minA \in Nat /\ r.minA <= share.a /\ r.minB \in Nat /\ r.minB <= share.b
  BY SlippageLess
<1>5. {Lp} \in SUBSET AllTokens /\ payment \in [{Lp} -> Nat]
  BY Distinct, PayTyped
<1>6. \A t \in AllTokens : Cost(payment)[t] = IF t = Lp THEN k ELSE 0
  BY CostOfOne
<1> HIDE DEF r, payment
<1>7. ASSUME NEW p \in TransferFrom(w, u, self, payment)
      PROVE  /\ Sound(p) /\ p.balance[u][Lp] = 0 /\ p.staked = w.staked
             /\ QuoteRemove(p, k) = share /\ p.balance[self][Lp] = k
  <2>1. Sound(p) /\ PaidInto(p, w, u, self, Cost(payment))
    BY <1>1, <1>5, Pulled
  <2>2. p.supply = w.supply
    BY <1>1, <1>5, PulledWorld
  <2>3. /\ p.balance[u][Lp] = 0 /\ p.balance[self][Lp] = k /\ p.staked = w.staked
    BY <1>1, <1>6, <2>1, Distinct DEF PaidInto
  <2>4. \A t \in AllTokens : p.balance[Pool][t] = x.balance[Pool][t]
    BY <1>1, <2>1, Distinct DEF PaidInto
  <2>5. QuoteRemove(p, k) = share
    BY <1>1, <2>2, <2>4, SameShare
  <2> QED
    BY <2>1, <2>3, <2>5
<1>8. ASSUME NEW p \in TransferFrom(w, u, self, payment)
      PROVE  removeLiquidity(p, self, r) # {}
  <2>1. /\ QuoteRemove(p, k).a > 0 /\ QuoteRemove(p, k).b > 0
        /\ QuoteRemove(p, k).a >= r.minA /\ QuoteRemove(p, k).b >= r.minB
    BY <1>4, <1>7
  <2>2. Has(p, Lp, self, k)
    BY <1>7 DEF Has
  <2> QED
    BY <1>4, <2>1, <2>2 DEF removeLiquidity, RemoveFromPool
<1>9. ASSUME NEW p \in TransferFrom(w, u, self, payment), NEW v \in removeLiquidity(p, self, r)
      PROVE  v \in Worlds /\ Position(v, u) = 0
  <2>1. /\ Sound(v) /\ v.staked = p.staked /\ v.balance[u][Lp] = p.balance[u][Lp]
    BY <1>4, <1>7, <1>9, RemoveSpends DEF Spends
  <2>2. v.balance[u][Lp] = 0 /\ v.staked = w.staked /\ v \in Worlds
    BY <1>7, <2>1 DEF Sound
  <2>3. Position(v, u) = v.balance[u][Lp] + v.staked[self]
    BY <1>1, <2>2, PositionOf
  <2> QED
    BY <1>1, <2>2, <2>3
<1> QED
  BY <1>2, <1>3, <1>8, <1>9

\* All of a user's stake is behind the adapter a call would run in.
LEMMA NoOtherStake ==
  ASSUME RegistryOK, StakesOK, WorldOK, NEW u \in Users, NEW self,
         self = Base!AdapterFor(Aerodrome, u), self # NoAddress
  PROVE  /\ self \in Adapters /\ self.user = u
         /\ \A a \in Adapters \ {self} : a.user = u => world.staked[a] = 0
<1>1. self \in Adapters /\ self.user = u
  BY OwnAdapter
<1>2. userAdapters[Aerodrome][u] # NoAddress => userAdapters[Aerodrome][u] = self
  BY DEF Base!AdapterFor
<1>3. NoAddress \notin Adapters
  BY StrategiesAssumption
<1> QED
  BY <1>1, <1>2, <1>3 DEF StakesOK

\* Unstaking in the world as it is.
LEMMA UnstakeNow ==
  ASSUME NEW u \in Users, NEW self, self = Base!AdapterFor(Aerodrome, u), self \in Adapters,
         self.user = u, NEW k \in Nat, NEW m \in Nat \ {0}, NEW q \in Nat,
         world \in OnTheWay(world, u, self, k, m, q),
         NEW un, un = Call([action |-> "unstake", amount |-> m, recipient |-> u], NoTokens, 0)
  PROVE  /\ AfterStep(u, world, un) # {}
         /\ AfterStep(u, world, un) \subseteq OnTheWay(world, u, self, k + m, 0, q)
BY UnstakeLeads

\* A full exit, signed step by step, leaves the user no liquidity.
LEMMA ExitLeads ==
  ASSUME Invariant, NEW u \in Users, NEW self, self = Base!AdapterFor(Aerodrome, u),
         self # NoAddress, NEW total, total = Position(world, u), total > 0,
         NEW share, share = QuoteRemove(world, total), share.a > 0, share.b > 0,
         NEW seen, seen = [Unread EXCEPT !.lp = total, !.staked = StakedBy(self),
                                         !.allowance = world.allowance[u][Lp]]
  PROVE  /\ AfterSteps(u, ExitBundle(u, seen, share)) # {}
         /\ \A w \in AfterSteps(u, ExitBundle(u, seen, share)) : Position(w, u) = 0
<1> DEFINE S == Steps(u)
           k == world.balance[u][Lp]
           m == world.staked[self]
           q == world.allowance[u][Lp]
           Way(i, j, l) == OnTheWay(world, u, self, i, j, l)
           B == {w \in Worlds : Position(w, u) = 0}
           un == Call([action |-> "unstake", amount |-> m, recipient |-> u], NoTokens, 0)
           rem == Call([action |-> "removeLiquidity", liquidity |-> total,
                        minA |-> applySlippage(share.a), minB |-> applySlippage(share.b),
                        recipient |-> u], Pay(Lp, total), 0)
           p1 == IF m > 0 THEN <<un>> ELSE <<>>
           p2 == addApproveIfNeeded(Lp, q, total)
           p3 == <<rem>>
<1>1. RegistryOK /\ StakesOK /\ WorldOK /\ Sound(world) /\ world \in Worlds /\ Passages(world)
  BY DEF Invariant, WorldOK, Sound
<1>2. /\ self \in Adapters /\ self.user = u
      /\ \A a \in Adapters \ {self} : a.user = u => world.staked[a] = 0
  BY <1>1, NoOtherStake
<1>3. k \in Nat /\ m \in Nat /\ q \in Nat
  BY <1>1, <1>2, Distinct DEF Worlds
<1>4. total = k + m /\ total \in Nat
  BY <1>1, <1>2, <1>3, PositionOf
<1>5. share.a \in Nat \ {0} /\ share.b \in Nat \ {0}
  <2> DEFINE A == Reserve(world, Weth)
             C == Reserve(world, Usdc)
             D == world.supply
  <2>1. A \in Nat /\ C \in Nat /\ D \in Nat \ {0}
    BY <1>1, Reserves DEF Reserve, Worlds
  <2>2. share.a = (total * A) \div D /\ share.b = (total * C) \div D
    BY DEF QuoteRemove
  <2> HIDE DEF A, C, D
  <2>3. total * A \in Nat /\ total * C \in Nat
    BY <1>4, <2>1
  <2>4. (total * A) \div D \in Nat /\ (total * C) \div D \in Nat
    BY <2>1, <2>3
  <2> QED
    BY <2>2, <2>4
<1>6. /\ seen.lp = total /\ seen.staked = m /\ seen.allowance = q /\ seen.deadline = 0
      /\ seen \in Seen
  BY <1>3, <1>4 DEF Unread, Seen, StakedBy
<1>7. ExitBundle(u, seen, share) = p1 \o p2 \o p3
  <2>1. Min({seen.lp, seen.staked}) = m
    <3>1. m <= total
      BY <1>3, <1>4
    <3> QED
      BY <1>3, <1>4, <1>6, <3>1, MinOfTwo
  <2> DEFINE n == Min({seen.lp, seen.staked})
             e1 == IF n > 0
                   THEN <<Call([action |-> "unstake", amount |-> n, recipient |-> u],
                               NoTokens, seen.deadline)>>
                   ELSE <<>>
             e2 == addApproveIfNeeded(Lp, seen.allowance, seen.lp)
             e3 == <<Call([action |-> "removeLiquidity", liquidity |-> seen.lp,
                           minA |-> applySlippage(share.a), minB |-> applySlippage(share.b),
                           recipient |-> u], Pay(Lp, seen.lp), seen.deadline)>>
  <2>2. ExitBundle(u, seen, share) = e1 \o e2 \o e3
    BY DEF ExitBundle
  <2>3. n = m
    BY <2>1
  <2> HIDE DEF n, m, q
  <2>4. e1 = p1 /\ e2 = p2 /\ e3 = p3
    BY <1>6, <2>3
  <2> HIDE DEF e1, e2, e3, p1, p2, p3
  <2> QED
    BY <2>2, <2>4
<1>8. world \in Way(k, m, q)
  BY <1>1, <1>2, <1>3, Distinct DEF OnTheWay, Passages
<1> HIDE DEF k, m, q
<1>9. Runs(u, {world}, p1, Way(total, 0, q)) /\ p1 \in Seq({un})
  <2>1. CASE m > 0
    <3>1. \A w \in {world} : AfterStep(u, w, un) # {}
                             /\ AfterStep(u, w, un) \subseteq Way(total, 0, q)
      <4>1. m \in Nat \ {0}
        BY <1>3, <2>1
      <4>2. un = Call([action |-> "unstake", amount |-> m, recipient |-> u], NoTokens, 0)
        OBVIOUS
      <4>3. world \in OnTheWay(world, u, self, k, m, q)
        BY <1>8
      <4> HIDE DEF un, rem, p1, p2, p3, B
      <4>4. /\ AfterStep(u, world, un) # {}
            /\ AfterStep(u, world, un) \subseteq OnTheWay(world, u, self, k + m, 0, q)
        BY <1>2, <1>3, <4>1, <4>2, <4>3, UnstakeNow
      <4> QED
        BY <1>4, <4>4
    <3> HIDE DEF un, Way
    <3>2. Runs(u, {world}, <<un>>, Way(total, 0, q))
      BY <3>1, OneStep
    <3> QED
      BY <2>1, <3>2
  <2>2. CASE ~(m > 0)
    <3>1. m = 0 /\ k = total
      BY <1>3, <1>4, <2>2
    <3>2. {world} \subseteq Way(total, 0, q)
      BY <1>8, <3>1
    <3>3. Runs(u, {world}, <<>>, Way(total, 0, q))
      BY <3>2, NoStep
    <3> QED
      BY <2>2, <3>3
  <2> QED
    BY <2>1, <2>2
<1>10. Runs(u, Way(total, 0, q), p2, Way(total, 0, total)) /\ p2 \in Seq({ApproveStep(Lp, total)})
  <2>1. CASE q < total
    <3>1. \A w \in Way(total, 0, q) :
             /\ AfterStep(u, w, ApproveStep(Lp, total)) # {}
             /\ AfterStep(u, w, ApproveStep(Lp, total)) \subseteq Way(total, 0, total)
      BY <1>2, <1>3, <1>4, ApproveLeads
    <3> HIDE DEF Way
    <3>2. Runs(u, Way(total, 0, q), <<ApproveStep(Lp, total)>>, Way(total, 0, total))
      BY <3>1, OneStep
    <3> QED
      BY <2>1, <3>2 DEF addApproveIfNeeded
  <2>2. CASE ~(q < total)
    <3>1. Way(total, 0, q) \subseteq Way(total, 0, total)
      <4>1. \A w \in Worlds : w.allowance[u][Lp] \in Nat
        BY Distinct DEF Worlds
      <4> QED
        BY <1>3, <1>4, <2>2, <4>1 DEF OnTheWay
    <3>2. Runs(u, Way(total, 0, q), <<>>, Way(total, 0, total))
      BY <3>1, NoStep
    <3> QED
      BY <2>2, <3>2 DEF addApproveIfNeeded
  <2> QED
    BY <2>1, <2>2
<1>11. Runs(u, Way(total, 0, total), p3, B) /\ p3 \in Seq({rem})
  <2>1. \A w \in Way(total, 0, total) :
           AfterStep(u, w, rem) # {} /\ AfterStep(u, w, rem) \subseteq B
    BY <1>2, <1>4, <1>5, RemoveLeads
  <2> HIDE DEF rem, Way, B
  <2> QED
    BY <2>1, OneStep
<1> DEFINE T == {un, ApproveStep(Lp, total), rem}
<1>12. p1 \in Seq(T) /\ p2 \in Seq(T) /\ p3 \in Seq(T)
  <2> DEFINE ap == ApproveStep(Lp, total)
  <2>1. p2 = IF q < total THEN <<ap>> ELSE <<>>
    BY DEF addApproveIfNeeded
  <2>2. un \in T /\ ap \in T /\ rem \in T
    OBVIOUS
  <2> HIDE DEF un, rem, ap, T
  <2>3. <<un>> \in Seq(T) /\ <<ap>> \in Seq(T) /\ <<rem>> \in Seq(T) /\ <<>> \in Seq(T)
    BY <2>2, Alone
  <2> HIDE DEF p2
  <2> QED
    BY <2>1, <2>3
<1> HIDE DEF p1, p2, p3, T, Way, B
<1>13. Runs(u, {world}, p1 \o p2, Way(total, 0, total)) /\ p1 \o p2 \in Seq(T)
  BY <1>9, <1>10, <1>12, StepsThen, Together
<1>14. Runs(u, {world}, p1 \o p2 \o p3, B) /\ p1 \o p2 \o p3 \in Seq(T)
  BY <1>11, <1>12, <1>13, StepsThen, Together
<1>15. AfterSteps(u, p1 \o p2 \o p3) # {} /\ AfterSteps(u, p1 \o p2 \o p3) \subseteq B
  BY <1>14, RunsLead
<1> QED
  BY <1>7, <1>15 DEF B

-----------------------------------------------------------------------------
(* The theorems                                                            *)

\* No balance, allowance or stake goes below zero, the pool is never emptied, and every
\* session is in order.
THEOREM TypeCorrect == Spec => []TypeOK
<1>1. Invariant => TypeOK
  <2> SUFFICES ASSUME Invariant PROVE TypeOK
    OBVIOUS
  <2>1. /\ Base!TypeOK /\ world \in Worlds
        /\ Reserve(world, Weth) > 0 /\ Reserve(world, Usdc) > 0
    BY DEF Invariant, RegistryOK, WorldOK, Sound
  <2>2. /\ adapterCache \in [Users -> Adapters \cup {NoAddress, Uncached}]
        /\ userOf \in [Sessions -> Users]
    BY DEF Invariant, CacheOK, SessionsOK
  <2>3. ASSUME NEW s \in Sessions
        PROVE  /\ session[s].phase \in Phases
               /\ session[s].adapter \in Adapters \cup {NoAddress}
               /\ session[s].seen \in Seen
               /\ At(s, "signing") <=> session[s].steps # <<>>
    <3>1. session[s] \in Session(userOf[s]) /\ InPhase(session[s])
      BY DEF Invariant, SessionsOK
    <3> QED
      BY <3>1 DEF Session, InPhase, At
  <2> QED
    BY <2>1, <2>2, <2>3 DEF TypeOK
<1> QED
  BY <1>1, AlwaysInvariant, PTL

\* Whatever is prepared, signed, interleaved or broken off, no token stays in a proxy or
\* in the executor.
THEOREM ProxyKeepsNothingHolds == Spec => []ProxyKeepsNothing
<1>1. Invariant => ProxyKeepsNothing
  <2> SUFFICES ASSUME Invariant, NEW c \in Adapters \cup {Executor}
               PROVE  world.balance[c] = NoTokens
    BY DEF ProxyKeepsNothing
  <2>1. world \in Worlds /\ c \in Accounts /\ \A t \in AllTokens : world.balance[c][t] = 0
    BY Distinct DEF Invariant, WorldOK, Sound, Passages
  <2>2. world.balance[c] \in [AllTokens -> Nat]
    BY <2>1 DEF Worlds
  <2> QED
    BY <2>1, <2>2 DEF NoTokens
<1> QED
  BY <1>1, AlwaysInvariant, PTL

\* All the liquidity there is belongs to somebody, in a wallet or through an adapter: the
\* supply is what is held and what is staked.
THEOREM LiquidityHasHolders == Spec => [](world.supply = SumFunction(Holdings(world)))
<1>1. Invariant => world.supply = SumFunction(Holdings(world))
  BY DEF Invariant, WorldOK, Sound
<1> QED
  BY <1>1, AlwaysInvariant, PTL

\* A user's liquidity changes only in a step of a bundle that user signs.
THEOREM OwnStepsOnlyHolds == Spec => OwnStepsOnly
<1> DEFINE Only == \A u \in Users : Position(world', u) # Position(world, u) =>
              \E s \in Sessions : userOf[s] = u /\ At(s, "signing") /\ session'[s] # session[s]
<1>1. ASSUME Invariant, [Next]_vars PROVE Only
  <2>1. Invariant' /\ OwnStep
    BY <1>1, InvariantStep
  <2>2. world \in Worlds /\ world' \in Worlds
    BY <1>1, <2>1 DEF Invariant, WorldOK, Sound
  <2>3. \A u \in Users : Kept(world', world, u) => Position(world', u) = Position(world, u)
    BY <2>2, SamePosition
  <2> QED
    BY <2>1, <2>3 DEF OwnStep
<1>2. Invariant /\ [Next]_vars => [Only]_vars
  BY <1>1
<1> HIDE DEF Only
<1>3. []Invariant /\ [][Next]_vars => [][Only]_vars
  BY <1>2, PTL
<1>4. Spec => [][Only]_vars
  BY <1>3, AlwaysInvariant, PTL DEF Spec
<1> QED
  BY <1>4 DEF OwnStepsOnly, Only

\* No liquidity is trapped: whatever was broken off, reverted or overtaken before, a full
\* exit prepared now and signed step by step takes out the whole position.
THEOREM ExitAlwaysWorksHolds == Spec => []ExitAlwaysWorks
<1>1. Invariant => ExitAlwaysWorks
  BY ExitLeads DEF ExitAlwaysWorks
<1> QED
  BY <1>1, AlwaysInvariant, PTL
=============================================================================
