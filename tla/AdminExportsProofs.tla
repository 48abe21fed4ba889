-------------------------- MODULE AdminExportsProofs ---------------------------
(* What the records of evidence and the bulk exports promise.              *)
EXTENDS AdminExports, FiniteSetTheorems, SequenceTheorems, TLAPS

-----------------------------------------------------------------------------
(* The records                                                             *)

Created(c, bundle) == {StepRow(c, i, bundle[i]) : i \in DOMAIN bundle}

Locals == [corr : Correlations \cup {None}, skip : Nat,
           todo : SUBSET Correlations, exported : SUBSET Correlations]

RecordsTypeOK ==
    /\ task \in [Requests -> Tasks]
    /\ parent \in [Correlations -> Parents \cup {None}]
    /\ IsFiniteSet(rows)
    /\ applied \subseteq Correlations \X Bundles
    /\ DOMAIN pc = Requests
    /\ local \in [Requests -> Locals]
    /\ DOMAIN due = Requests

Settled == {c \in Correlations : \E bundle \in Bundles : Key(c, bundle) \in applied}

\* What was applied is there, and all there is was applied, with one bundle for a record.
RowsAreApplied ==
    /\ \A c \in Correlations, bundle \in Bundles :
          Key(c, bundle) \in applied =>
             /\ OnAvalanche(bundle)
             /\ StepsOf(c) = Created(c, bundle)
             /\ parent[c] # None
             /\ parent[c].status = "prepared" /\ parent[c].total = Len(bundle)
    /\ \A row \in rows : row.corr \in Settled /\ row.chain = Avalanche
    /\ Prepared \subseteq Settled

Recording(r) == task[r].op \in {"commit", "prepare"}

\* Between its calls a request's record stays the one it is about.
KnowsItsRecord(r) ==
    /\ pc[r] \in {"idle", "reload", "transact", "reply"} \cup Answers
    /\ pc[r] = "reload" => task[r].op = "commit"
    /\ pc[r] \in {"reload", "transact", "reply", "done"} =>
          /\ OnAvalanche(task[r].bundle)
          /\ local[r].corr \in Correlations /\ parent[local[r].corr] # None
    /\ pc[r] \in {"transact", "reply", "done"} =>
          parent[local[r].corr].action = ActionOf(r)
    /\ pc[r] \in {"reply", "done"} => Key(local[r].corr, task[r].bundle) \in applied

Exporting(r) == task[r].op \in {"exportByWallet", "exportAdmin"}

\* What the export has still to list: it is found already, or comes on a later page.
IsToBeFound(r, row) == row.corr \in local[r].todo \/ Rank(row) >= local[r].skip

\* Wherever an export has got to, it has lost nothing of what was due.
LosesNothing(r) ==
    /\ pc[r] \in {"idle", "list", "export", "reply"} \cup Answers
    /\ due[r] \subseteq {c \in Settled : Wanted(r, c)}
    /\ local[r].todo \subseteq Settled
    /\ local[r].exported \subseteq {c \in Settled : Wanted(r, c)}
    /\ pc[r] = "idle" => local[r].skip = 0
    /\ pc[r] = "list" => \A row \in rows : row.corr \in due[r] => IsToBeFound(r, row)
    /\ pc[r] = "export" => due[r] \subseteq local[r].todo \cup local[r].exported
    /\ pc[r] \in {"reply", "done"} => due[r] \subseteq local[r].exported
    /\ pc[r] = "internal" => r \in broken

\* The other requests have one call at most before their answer.
OnlyAnswers(r) ==
    Recording(r) \/ Exporting(r) \/ pc[r] \in {"idle", "estate", "reply"} \cup Answers

RecordsInv ==
    /\ RecordsTypeOK
    /\ RowsAreApplied
    /\ \A r \in Requests :
          /\ Recording(r) => KnowsItsRecord(r)
          /\ Exporting(r) => LosesNothing(r)
          /\ OnlyAnswers(r)

-----------------------------------------------------------------------------
(* Ranks in the list                                                       *)

LEMMA SmallestNumber ==
  ASSUME NEW T, T \subseteq Nat, T # {}
  PROVE  \E m \in T : \A n \in T : m <= n
<1> DEFINE less == OpToRel(<, Nat)
<1>1. IsWellFoundedOn(less, Nat)
  BY NatLessThanWellFounded, Zenon
<1>2. \A n, m \in Nat : n < m => <<n, m>> \in less
  BY DEF OpToRel
<1> HIDE DEF less
<1>3. PICK m \in T : \A n \in T : ~(<<n, m>> \in less)
  BY <1>1, WFMin, Zenon
<1>4. ASSUME NEW n \in T PROVE m <= n
  <2>1. m \in Nat /\ n \in Nat /\ ~(n < m)
    BY <1>2, <1>3
  <2> QED
    BY <2>1
<1> QED
  BY <1>4

LEMMA RowsOnChain ==
  ASSUME RowsAreApplied
  PROVE  OnChain = rows
BY DEF RowsAreApplied, OnChain

\* The ids of the step records are in a strict order.
LEMMA BeforeOrders ==
  ASSUME RecordsTypeOK, RowsAreApplied, NEW x \in rows, NEW y \in rows
  PROVE  /\ x.corr \in Nat /\ x.at \in Nat
         /\ x # y => Before(x, y) \/ Before(y, x)
<1>0. /\ Correlations \subseteq Nat
      /\ \A bundle \in Bundles : \A i \in DOMAIN bundle : i \in Nat
  BY RecordsAssumption
<1>1. ASSUME NEW z \in rows
      PROVE  \E bundle \in Bundles : /\ Key(z.corr, bundle) \in applied
                                     /\ z \in Created(z.corr, bundle) /\ z.corr \in Correlations
  <2>1. PICK bundle \in Bundles : Key(z.corr, bundle) \in applied /\ z.corr \in Correlations
    BY <1>1 DEF RowsAreApplied, Settled
  <2>2. z \in Created(z.corr, bundle)
    BY <1>1, <2>1 DEF RowsAreApplied, StepsOf
  <2> QED
    BY <2>1, <2>2
<1>2. PICK bundle \in Bundles : Key(x.corr, bundle) \in applied /\ x \in Created(x.corr, bundle)
                                /\ x.corr \in Correlations
  BY <1>1
<1>3. ASSUME NEW z \in rows PROVE z.corr \in Nat /\ z.at \in Nat
  <2>1. PICK b \in Bundles : z \in Created(z.corr, b) /\ z.corr \in Correlations
    BY <1>1
  <2>2. PICK i \in DOMAIN b : z = StepRow(z.corr, i, b[i])
    BY <2>1 DEF Created
  <2>3. z.at = i
    BY <2>2 DEF StepRow
  <2> QED
    BY <1>0, <2>1, <2>3
<1>5. ASSUME x.corr = y.corr, x.at = y.at PROVE x = y
  <2>1. StepsOf(x.corr) = Created(x.corr, bundle)
    BY <1>2 DEF RowsAreApplied
  <2>2. y \in StepsOf(x.corr)
    BY <1>5 DEF StepsOf
  <2> QED
    BY <1>2, <1>5, <2>1, <2>2 DEF Created, StepRow
<1> QED
  BY <1>3, <1>5 DEF Before

LEMMA RankIsNumber ==
  ASSUME RecordsTypeOK, NEW row
  PROVE  Rank(row) \in Nat
<1>1. IsFiniteSet({x \in OnChain : Before(x, row)})
  BY FS_Subset DEF RecordsTypeOK, OnChain
<1> QED
  BY <1>1, FS_CardinalityType DEF Rank

LEMMA RankOrders ==
  ASSUME RecordsTypeOK, RowsAreApplied, NEW x \in rows, NEW y \in rows, Before(x, y)
  PROVE  Rank(x) < Rank(y)
<1> DEFINE below(z) == {w \in OnChain : Before(w, z)}
<1>1. OnChain = rows
  BY RowsOnChain
<1>2. below(x) \subseteq below(y)
  BY <1>1, BeforeOrders DEF Before
<1>3. x \in below(y) /\ x \notin below(x)
  BY <1>1, BeforeOrders DEF Before
<1>4. IsFiniteSet(below(y))
  BY <1>1, FS_Subset DEF RecordsTypeOK
<1>5. Rank(x) = Cardinality(below(x)) /\ Rank(y) = Cardinality(below(y))
  BY DEF Rank
<1> HIDE DEF below
<1>6. Cardinality(below(x)) <= Cardinality(below(y))
      /\ Cardinality(below(x)) # Cardinality(below(y))
  BY <1>2, <1>3, <1>4, FS_Subset
<1> QED
  BY <1>5, <1>6, RankIsNumber

\* The ranks below that of a row are those of other rows.
LEMMA RanksAreTaken ==
  ASSUME RecordsTypeOK, RowsAreApplied, NEW x \in rows, NEW j \in Nat, j <= Rank(x)
  PROVE  \E y \in rows : Rank(y) = j
<1> DEFINE high == {n \in Nat : n >= j /\ \E y \in rows : Rank(y) = n}
<1>1. Rank(x) \in high /\ high \subseteq Nat
  BY RankIsNumber
<1>2. PICK m \in high : \A n \in high : m <= n
  <2> HIDE DEF high
  <2> QED
    BY <1>1, SmallestNumber
<1>3. PICK y \in rows : Rank(y) = m
  BY <1>2
<1> DEFINE below == {z \in OnChain : Before(z, y)}
<1>4. below \subseteq rows /\ IsFiniteSet(below)
  BY RowsOnChain, FS_Subset DEF RecordsTypeOK
<1>5. ASSUME NEW z \in below PROVE Rank(z) \in 0 .. j - 1
  <2>1. Rank(z) < m /\ Rank(z) \in Nat
    BY <1>3, <1>4, <1>5, RankOrders, RankIsNumber
  <2> QED
    BY <1>2, <1>4, <1>5, <2>1
<1> DEFINE f == [z \in below |-> Rank(z)]
<1>6. f \in Injection(below, 0 .. j - 1)
  <2>1. ASSUME NEW z \in below, NEW w \in below, Rank(z) = Rank(w) PROVE z = w
    BY <1>4, <2>1, BeforeOrders, RankOrders, RankIsNumber
  <2> HIDE DEF below
  <2> QED
    BY <1>5, <2>1 DEF Injection, IsInjective
<1>7. IsFiniteSet(0 .. j - 1) /\ Cardinality(0 .. j - 1) = j
  BY FS_Interval
<1>8. Cardinality(below) <= j
  <2> HIDE DEF below, f
  <2> QED
    BY <1>6, <1>7, FS_Injection
<1>9. m = Cardinality(below)
  BY <1>3 DEF Rank
<1> QED
  BY <1>2, <1>3, <1>8, <1>9

\* A page with rows after it is full.
LEMMA PageIsFull ==
  ASSUME RecordsTypeOK, RowsAreApplied, NEW start \in Nat, NEW x \in rows,
         Rank(x) >= start + Take
  PROVE  ~(Cardinality(Page(start)) < Take)
<1> USE RecordsAssumption
<1> DEFINE ranks == start .. start + Take - 1
           f == [j \in ranks |-> CHOOSE y \in rows : Rank(y) = j]
<1>1. ASSUME NEW j \in ranks PROVE f[j] \in rows /\ Rank(f[j]) = j
  <2>1. j \in Nat /\ j <= Rank(x)
    BY RankIsNumber
  <2>2. \E y \in rows : Rank(y) = j
    BY <2>1, RanksAreTaken
  <2> QED
    BY <2>2
<1>2. Page(start) = {row \in rows : Rank(row) \in ranks}
  BY RowsOnChain DEF Page
<1>3. f \in Injection(ranks, Page(start))
  <2> HIDE DEF ranks
  <2>1. f \in [ranks -> Page(start)]
    BY <1>1, <1>2
  <2>2. \A i, j \in ranks : f[i] = f[j] => i = j
    <3> HIDE DEF f
    <3> QED
      BY <1>1
  <2> QED
    BY <2>1, <2>2 DEF Injection, IsInjective
<1>4. IsFiniteSet(Page(start)) /\ Cardinality(ranks) = Take
  <2>1. IsFiniteSet(Page(start))
    BY <1>2, FS_Subset DEF RecordsTypeOK
  <2> QED
    BY <2>1, FS_Interval
<1>5. Take <= Cardinality(Page(start)) /\ Cardinality(Page(start)) \in Nat
  <2> HIDE DEF f, ranks
  <2> QED
    BY <1>3, <1>4, FS_Injection, FS_CardinalityType
<1> QED
  BY <1>5

\* Records that are added push those in the list to later places only.
LEMMA RankGrows ==
  ASSUME IsFiniteSet(rows'), rows \subseteq rows', NEW row
  PROVE  Rank(row)' >= Rank(row)
<1> DEFINE below == {x \in OnChain : Before(x, row)}
           belowNext == {x \in OnChain' : Before(x, row)}
<1>1. below \subseteq belowNext /\ belowNext \subseteq rows'
  BY DEF OnChain
<1>2. IsFiniteSet(belowNext)
  BY <1>1, FS_Subset
<1>3. Rank(row) = Cardinality(below) /\ Rank(row)' = Cardinality(belowNext)
  BY DEF Rank, Before
<1> HIDE DEF below, belowNext
<1>4. IsFiniteSet(below) /\ Cardinality(below) <= Cardinality(belowNext)
  BY <1>1, <1>2, FS_Subset
<1> QED
  BY <1>2, <1>3, <1>4, FS_CardinalityType

-----------------------------------------------------------------------------
(* Steps                                                                   *)

\* What the gateway stores, it keeps, and it adds no rows to a record it has prepared.
StoreGrows ==
    /\ \A c \in Correlations : parent[c] # None =>
          /\ parent'[c] # None
          /\ parent'[c].action = parent[c].action /\ parent'[c].wallet = parent[c].wallet
    /\ applied \subseteq applied'
    /\ IsFiniteSet(rows') /\ rows \subseteq rows'
    /\ \A row \in rows' : row \in rows \/ row.corr \notin Settled

\* Nobody but request r moves.
OnlyMoves(r) ==
    /\ task' = task /\ broken \subseteq broken'
    /\ \A q \in Requests : q # r => pc'[q] = pc[q] /\ local'[q] = local[q] /\ due'[q] = due[q]

LEMMA OthersKeepTheirs ==
  ASSUME RecordsInv, StoreGrows, NEW r, OnlyMoves(r), NEW q \in Requests, q # r
  PROVE  /\ Recording(q)' => KnowsItsRecord(q)'
         /\ Exporting(q)' => LosesNothing(q)'
         /\ OnlyAnswers(q)'
<1> USE DEF RecordsInv
<1>1. /\ task' = task /\ pc'[q] = pc[q] /\ local'[q] = local[q] /\ due'[q] = due[q]
      /\ q \in broken => q \in broken'
      /\ local[q].skip \in Nat
  BY DEF OnlyMoves, RecordsTypeOK, Locals
<1>2. ASSUME Recording(q) PROVE KnowsItsRecord(q)'
  BY <1>1, <1>2 DEF KnowsItsRecord, StoreGrows, ActionOf, Recording, Key, Answers
<1>3. ASSUME Exporting(q) PROVE LosesNothing(q)'
  <2>1. LosesNothing(q)
    BY <1>3
  <2>2. ASSUME NEW c \in Settled PROVE c \in Settled' /\ (Wanted(q, c) => Wanted(q, c)')
    <3>1. parent[c] # None /\ c \in Correlations /\ c \in Settled'
      BY <2>2 DEF Settled, RowsAreApplied, StoreGrows, Key
    <3> QED
      BY <1>1, <3>1 DEF Wanted, StoreGrows
  <2>3. ASSUME pc[q] = "list", NEW row \in rows', row.corr \in due[q]
        PROVE  IsToBeFound(q, row)'
    <3>1. row \in rows
      BY <2>1, <2>3 DEF StoreGrows, LosesNothing
    <3>2. IsToBeFound(q, row)
      BY <2>1, <2>3, <3>1 DEF LosesNothing
    <3>3. Rank(row)' >= Rank(row) /\ Rank(row) \in Nat /\ Rank(row)' \in Nat
      <4>1. IsFiniteSet({x \in OnChain' : Before(x, row)})
        BY FS_Subset DEF StoreGrows, OnChain
      <4>2. Rank(row)' \in Nat
        BY <4>1, FS_CardinalityType DEF Rank, Before
      <4> QED
        BY <4>2, RankGrows, RankIsNumber DEF StoreGrows
    <3> QED
      BY <1>1, <3>2, <3>3 DEF IsToBeFound
  <2> QED
    BY <1>1, <2>1, <2>2, <2>3 DEF LosesNothing, Answers
<1> QED
  BY <1>1, <1>2, <1>3 DEF Recording, Exporting, OnlyAnswers, Answers

LEMMA StepKeepsInv ==
  ASSUME RecordsInv, StoreGrows, NEW r, OnlyMoves(r), RecordsTypeOK', RowsAreApplied',
         r \in Requests => /\ Recording(r) => KnowsItsRecord(r)'
                           /\ Exporting(r) => LosesNothing(r)'
                           /\ OnlyAnswers(r)'
  PROVE  RecordsInv'
<1>1. ASSUME NEW q \in Requests
      PROVE  /\ (Recording(q) => KnowsItsRecord(q))' /\ (Exporting(q) => LosesNothing(q))'
             /\ OnlyAnswers(q)'
  <2>1. CASE q = r
    BY <2>1 DEF OnlyMoves, Recording, Exporting
  <2>2. CASE q # r
    BY <2>2, OthersKeepTheirs
  <2> QED
    BY <2>1, <2>2
<1> QED
  BY <1>1 DEF RecordsInv

LEMMA StoreStays ==
  ASSUME RecordsInv, UNCHANGED store
  PROVE  StoreGrows /\ RowsAreApplied'
<1>1. StoreGrows
  BY DEF StoreGrows, store, RecordsInv, RecordsTypeOK
<1>2. RowsAreApplied'
  BY DEF RowsAreApplied, store, RecordsInv, Settled, StepsOf, Prepared
<1> QED
  BY <1>1, <1>2

\* A call that the gateway has no part in, or that changes nothing there.
LEMMA CallKeepsInv ==
  ASSUME RecordsInv, UNCHANGED store, NEW r, OnlyMoves(r), RecordsTypeOK',
         r \in Requests => /\ Recording(r) => KnowsItsRecord(r)'
                           /\ Exporting(r) => LosesNothing(r)'
                           /\ OnlyAnswers(r)'
  PROVE  RecordsInv'
BY StoreStays, StepKeepsInv

LEMMA IntentKeepsStore ==
  ASSUME RecordsInv, NEW r \in Requests, NEW next, task[r].op \in {"begin", "prepare"},
         persistEvidenceIntent(r, next)
  PROVE  /\ StoreGrows /\ RowsAreApplied'
         /\ parent' \in [Correlations -> Parents \cup {None}]
         /\ \E c \in Correlations :
               /\ local' = [local EXCEPT ![r].corr = c]
               /\ parent'[c] # None /\ parent'[c].action = ActionOf(r)
<1> USE RecordsAssumption DEF RecordsInv, RecordsTypeOK
<1> DEFINE new == [wallet |-> task[r].wallet, action |-> ActionOf(r),
                   status |-> "intent-recorded",
                   total |-> IF task[r].op = "prepare" THEN NoCount ELSE IntentCount]
<1>1. PICK c \in Correlations : /\ parent[c] = None /\ parent' = [parent EXCEPT ![c] = new]
                                /\ local' = [local EXCEPT ![r].corr = c]
  BY DEF persistEvidenceIntent
<1>2. new \in Parents
  <2>1. /\ task[r].wallet \in Wallets
        /\ task[r].op = "begin" => task[r].action \in Actions
    BY DEF Tasks
  <2>2. ActionOf(r) \in Actions \cup {Swap}
    BY <2>1 DEF ActionOf
  <2>3. (IF task[r].op = "prepare" THEN NoCount ELSE IntentCount) \in Nat \cup {NoCount}
    OBVIOUS
  <2> HIDE DEF RecordsTypeOK, RecordsInv
  <2> QED
    BY <2>1, <2>2, <2>3 DEF Parents
<1>3. new # None /\ new.action = ActionOf(r) /\ new.status # "prepared"
  BY <1>2
<1> HIDE DEF new
<1>4. /\ parent'[c] = new
      /\ \A d \in Correlations : d # c => parent'[d] = parent[d]
      /\ parent' \in [Correlations -> Parents \cup {None}]
      /\ UNCHANGED <<rows, applied>>
  BY <1>1, <1>2 DEF persistEvidenceIntent
<1>5. StoreGrows
  BY <1>1, <1>4 DEF StoreGrows
<1>6. Settled' = Settled /\ Prepared' \subseteq Prepared /\ c \notin Settled
  BY <1>1, <1>3, <1>4 DEF Settled, Prepared, RowsAreApplied
<1>7. RowsAreApplied'
  <2>1. ASSUME NEW d \in Correlations, NEW bundle \in Bundles, Key(d, bundle) \in applied
        PROVE  d # c
    BY <1>6, <2>1 DEF Settled
  <2>2. \A d \in Correlations : StepsOf(d)' = StepsOf(d)
    BY <1>4 DEF StepsOf
  <2> QED
    BY <1>4, <1>6, <2>1, <2>2 DEF RowsAreApplied, Key
<1> QED
  BY <1>1, <1>3, <1>4, <1>5, <1>7

LEMMA IntentKeepsInv ==
  ASSUME RecordsInv, NEW r \in Requests, pc[r] = "idle",
         NEW next, persistEvidenceIntent(r, next), UNCHANGED <<task, due, broken>>,
         \/ task[r].op = "begin" /\ next = "reply"
         \/ task[r].op = "prepare" /\ next = "transact"
  PROVE  RecordsInv'
<1> USE DEF RecordsInv, RecordsTypeOK
<1>1. StoreGrows /\ RowsAreApplied' /\ parent' \in [Correlations -> Parents \cup {None}]
  BY IntentKeepsStore
<1>2. PICK c \in Correlations : /\ local' = [local EXCEPT ![r].corr = c]
                                /\ parent'[c] # None /\ parent'[c].action = ActionOf(r)
  BY IntentKeepsStore
<1>3. pc' = [pc EXCEPT ![r] = next] /\ UNCHANGED <<rows, applied>>
  BY DEF persistEvidenceIntent, Goto
<1>4. local'[r].corr = c /\ \A q \in Requests : q # r => local'[q] = local[q]
  BY <1>2
<1>5. OnlyMoves(r)
  BY <1>3, <1>4 DEF OnlyMoves
<1>6. RecordsTypeOK'
  BY <1>1, <1>2, <1>3 DEF Locals
<1>7. Recording(r) => KnowsItsRecord(r)'
  <2>1. task[r].op = "prepare" => OnAvalanche(task[r].bundle)
    BY DEF Tasks
  <2> QED
    BY <1>2, <1>3, <1>4, <2>1 DEF Recording, KnowsItsRecord, ActionOf
<1>8. OnlyAnswers(r)'
  BY <1>3 DEF OnlyAnswers, Recording, Exporting, Answers
<1> QED
  BY <1>1, <1>5, <1>6, <1>7, <1>8, StepKeepsInv DEF Exporting

LEMMA CommitKeepsInv ==
  ASSUME RecordsInv, NEW r \in Requests, NEW kind, Commit(r, kind)
  PROVE  RecordsInv'
<1> USE DEF RecordsInv, RecordsTypeOK
<1>1. PICK c \in Correlations : parent[c] # None /\ local' = [local EXCEPT ![r].corr = c]
  BY DEF Commit
<1>2. /\ task[r].op = "commit" /\ pc'[r] \in {"reload", "refused"}
      /\ \A q \in Requests : q # r => pc'[q] = pc[q]
      /\ DOMAIN pc' = Requests /\ UNCHANGED <<task, store, due, broken>>
      /\ pc'[r] = "reload" => ValidCommit(r)
  BY DEF Commit, Goto
<1>3. local'[r].corr = c /\ \A q \in Requests : q # r => local'[q] = local[q]
  BY <1>1
<1>4. OnlyMoves(r) /\ RecordsTypeOK'
  BY <1>1, <1>2, <1>3 DEF OnlyMoves, store, Locals
<1>5. KnowsItsRecord(r)'
  BY <1>1, <1>2, <1>3 DEF KnowsItsRecord, ValidCommit, OnAvalanche, store, Answers
<1>6. Recording(r)' /\ OnlyAnswers(r)'
  BY <1>2 DEF Recording, OnlyAnswers
<1> QED
  BY <1>2, <1>4, <1>5, <1>6, CallKeepsInv DEF Exporting

LEMMA ReloadKeepsInv ==
  ASSUME RecordsInv, NEW r \in Requests, reloadIntent(r)
  PROVE  RecordsInv'
<1> USE DEF RecordsInv, RecordsTypeOK
<1>1. /\ pc[r] = "reload" /\ pc'[r] \in {"transact", "refused"}
      /\ \A q \in Requests : q # r => pc'[q] = pc[q]
      /\ DOMAIN pc' = Requests /\ UNCHANGED <<task, store, local, due, broken>>
      /\ pc'[r] = "transact" => Committable(parent[local[r].corr], task[r].action)
  BY DEF reloadIntent, Goto
<1>2. OnlyMoves(r) /\ RecordsTypeOK'
  BY <1>1 DEF OnlyMoves, store
<1>3. Recording(r) => KnowsItsRecord(r)'
  BY <1>1 DEF KnowsItsRecord, Committable, ActionOf, store, Answers
<1>4. ~Exporting(r) /\ Recording(r)
  BY <1>1 DEF LosesNothing, OnlyAnswers, Answers
<1>5. OnlyAnswers(r)'
  BY <1>1, <1>4 DEF OnlyAnswers, Recording
<1> QED
  BY <1>1, <1>2, <1>3, <1>4, <1>5, CallKeepsInv

LEMMA CreatedIsFinite ==
  ASSUME NEW c, NEW bundle \in Bundles
  PROVE  IsFiniteSet(Created(c, bundle))
<1> DEFINE n == Len(bundle)
           f == [i \in 1 .. n |-> StepRow(c, i, bundle[i])]
<1>1. n \in Nat /\ DOMAIN bundle = 1 .. n
  BY RecordsAssumption
<1> HIDE DEF n
<1>2. f \in Surjection(1 .. n, Created(c, bundle))
  BY <1>1 DEF Surjection, Created
<1>3. IsFiniteSet(1 .. n)
  BY <1>1, FS_Interval
<1> HIDE DEF f
<1> QED
  BY <1>2, <1>3, FS_Surjection

\* A bundle is recorded at once and only where there is none.
LEMMA BundleKeepsStore ==
  ASSUME RecordsInv, NEW c \in Correlations, NEW bundle \in Bundles, OnAvalanche(bundle),
         parent[c] # None,
         ~\E row \in rows, new \in Created(c, bundle) : row.corr = c /\ row.at = new.at,
         parent' = [parent EXCEPT ![c].status = "prepared", ![c].total = Len(bundle)],
         rows' = rows \cup Created(c, bundle),
         applied' = applied \cup {Key(c, bundle)}
  PROVE  StoreGrows /\ RowsAreApplied' /\ parent' \in [Correlations -> Parents \cup {None}]
<1> USE DEF RecordsInv, RecordsTypeOK
<1>0. /\ Len(bundle) \in Nat /\ DOMAIN bundle = 1 .. Len(bundle) /\ None \notin Parents
      /\ \A b \in Bundles : OnAvalanche(b) => 1 \in DOMAIN b
  BY RecordsAssumption DEF OnAvalanche
<1>1. PICK p \in Parents : p = parent[c]
  OBVIOUS
<1>2. PICK new \in Parents : /\ new = [p EXCEPT !.status = "prepared", !.total = Len(bundle)]
                             /\ new.status = "prepared" /\ new.total = Len(bundle)
                             /\ new.action = p.action /\ new.wallet = p.wallet
  <2> DEFINE new == [p EXCEPT !.status = "prepared", !.total = Len(bundle)]
  <2>1. new \in Parents
    BY <1>0 DEF Parents
  <2>2. /\ new.status = "prepared" /\ new.total = Len(bundle)
        /\ new.action = p.action /\ new.wallet = p.wallet
    BY DEF Parents
  <2> QED
    BY <2>1, <2>2
<1>3. /\ parent' = [parent EXCEPT ![c] = new]
      /\ parent'[c] = new /\ \A d \in Correlations : d # c => parent'[d] = parent[d]
  BY <1>1, <1>2
<1>4. c \notin Settled
  <2> SUFFICES ASSUME c \in Settled PROVE FALSE
    OBVIOUS
  <2>1. PICK b \in Bundles : Key(c, b) \in applied
    BY DEF Settled
  <2>2. StepRow(c, 1, b[1]) \in rows
    BY <1>0, <2>1 DEF RowsAreApplied, StepsOf, Created
  <2>3. StepRow(c, 1, bundle[1]) \in Created(c, bundle)
    BY <1>0 DEF Created
  <2> QED
    BY <2>2, <2>3 DEF StepRow
<1>5. \A row \in Created(c, bundle) : row.corr = c /\ row.chain = Avalanche
  BY DEF Created, StepRow, OnAvalanche
<1>6. IsFiniteSet(rows')
  BY CreatedIsFinite, FS_Union
<1>7. StoreGrows
  <2>1. ASSUME NEW d \in Correlations, parent[d] # None
        PROVE  parent'[d] # None /\ parent'[d].action = parent[d].action
               /\ parent'[d].wallet = parent[d].wallet
    <3>1. CASE d = c
      BY <1>0, <1>1, <1>2, <1>3, <3>1
    <3>2. CASE d # c
      BY <1>3, <2>1, <3>2
    <3> QED
      BY <3>1, <3>2
  <2>2. /\ applied \subseteq applied' /\ rows \subseteq rows'
        /\ \A row \in rows' : row \in rows \/ row.corr \notin Settled
    BY <1>4, <1>5
  <2> QED
    BY <1>6, <2>1, <2>2 DEF StoreGrows
<1>8. ASSUME NEW d \in Correlations, NEW b \in Bundles, Key(d, b) \in applied'
      PROVE  /\ OnAvalanche(b) /\ StepsOf(d)' = Created(d, b) /\ parent'[d] # None
             /\ parent'[d].status = "prepared" /\ parent'[d].total = Len(b)
  <2>1. CASE d = c
    <3>1. b = bundle
      BY <1>4, <1>8, <2>1 DEF Settled, Key
    <3>2. StepsOf(c)' = Created(c, bundle)
      BY <1>4, <1>5 DEF StepsOf, RowsAreApplied
    <3> QED
      BY <1>0, <1>2, <1>3, <2>1, <3>1, <3>2
  <2>2. CASE d # c
    <3>1. Key(d, b) \in applied
      BY <1>8, <2>2 DEF Key
    <3>2. StepsOf(d)' = StepsOf(d)
      BY <1>5, <2>2 DEF StepsOf
    <3> QED
      BY <1>3, <2>2, <3>1, <3>2 DEF RowsAreApplied
  <2> QED
    BY <2>1, <2>2
<1>9. Settled' = Settled \cup {c} /\ Prepared' \subseteq Settled'
  <2>1. Settled' = Settled \cup {c}
    BY DEF Settled, Key
  <2>2. Prepared' \subseteq Prepared \cup {c}
    BY <1>3 DEF Prepared
  <2> QED
    BY <2>1, <2>2 DEF RowsAreApplied
<1>10. RowsAreApplied'
  BY <1>5, <1>8, <1>9 DEF RowsAreApplied, Key
<1> QED
  BY <1>3, <1>7, <1>10

LEMMA TransactKeepsInv ==
  ASSUME RecordsInv, NEW r \in Requests, persistPreparedEvidence(r)
  PROVE  RecordsInv'
<1> USE DEF RecordsInv, RecordsTypeOK
<1> DEFINE c == local[r].corr
           bundle == task[r].bundle
           collides == \E row \in rows, new \in Created(c, bundle) : row.corr = c /\ row.at = new.at
<1>1. pc[r] = "transact" /\ Recording(r) /\ KnowsItsRecord(r) /\ ~Exporting(r)
  BY DEF persistPreparedEvidence, LosesNothing, OnlyAnswers, Answers, Exporting, Recording
<1>2. /\ c \in Correlations /\ bundle \in Bundles /\ OnAvalanche(bundle) /\ parent[c] # None
      /\ parent[c].action = ActionOf(r)
  BY <1>1 DEF KnowsItsRecord, Tasks, Recording
<1>3. /\ UNCHANGED <<task, local, due, broken>> /\ DOMAIN pc' = Requests
      /\ \A q \in Requests : q # r => pc'[q] = pc[q]
      /\ pc'[r] \in {"reply", "internal"}
  BY DEF persistPreparedEvidence, Goto
<1>4. OnlyMoves(r) /\ OnlyAnswers(r)'
  BY <1>1, <1>3 DEF OnlyMoves, OnlyAnswers, Recording
<1>5. CASE UNCHANGED store /\ (pc'[r] = "internal" \/ Key(c, bundle) \in applied)
  <2>1. KnowsItsRecord(r)' /\ RecordsTypeOK'
    BY <1>2, <1>3, <1>5 DEF KnowsItsRecord, ActionOf, store, Key, Answers
  <2> QED
    BY <1>1, <1>4, <1>5, <2>1, CallKeepsInv
<1>6. CASE /\ ~collides
           /\ parent' = [parent EXCEPT ![c].status = "prepared", ![c].total = Len(bundle)]
           /\ rows' = rows \cup Created(c, bundle)
           /\ applied' = applied \cup {Key(c, bundle)}
  <2> HIDE DEF c, bundle
  <2>1. StoreGrows /\ RowsAreApplied' /\ parent' \in [Correlations -> Parents \cup {None}]
    BY <1>2, <1>6, BundleKeepsStore
  <2>2. IsFiniteSet(rows') /\ applied' \subseteq Correlations \X Bundles
    BY <1>2, <1>6, <2>1 DEF StoreGrows, Key
  <2>3. RecordsTypeOK'
    BY <1>3, <2>1, <2>2
  <2>4. KnowsItsRecord(r)'
    <3>1. parent'[c] # None /\ parent'[c].action = ActionOf(r)'
      BY <1>2, <1>3, <2>1 DEF StoreGrows, ActionOf
    <3> QED
      BY <1>2, <1>3, <1>6, <3>1 DEF KnowsItsRecord, Key, Answers, c, bundle
  <2> QED
    BY <1>1, <1>4, <2>1, <2>3, <2>4, StepKeepsInv
<1>7. \/ UNCHANGED store /\ (pc'[r] = "internal" \/ Key(c, bundle) \in applied)
      \/ /\ ~collides
         /\ parent' = [parent EXCEPT ![c].status = "prepared", ![c].total = Len(bundle)]
         /\ rows' = rows \cup Created(c, bundle)
         /\ applied' = applied \cup {Key(c, bundle)}
  BY DEF persistPreparedEvidence, Goto, Created
<1> QED
  BY <1>5, <1>6, <1>7

LEMMA ReplyKeepsInv ==
  ASSUME RecordsInv, NEW r \in Requests, Reply(r)
  PROVE  RecordsInv'
<1> USE DEF RecordsInv, RecordsTypeOK
<1>1. /\ pc[r] = "reply" /\ pc'[r] = "done" /\ DOMAIN pc' = Requests
      /\ \A q \in Requests : q # r => pc'[q] = pc[q]
      /\ UNCHANGED <<task, store, local, due, broken>>
  BY DEF Reply, Goto
<1>2. OnlyMoves(r) /\ RecordsTypeOK' /\ OnlyAnswers(r)'
  BY <1>1 DEF OnlyMoves, store, OnlyAnswers, Answers
<1>3. Recording(r) => KnowsItsRecord(r)'
  BY <1>1 DEF KnowsItsRecord, ActionOf, store, Key, Answers
<1>4. Exporting(r) => LosesNothing(r)'
  BY <1>1 DEF LosesNothing, Settled, Wanted, store, Answers, Key
<1> QED
  BY <1>1, <1>2, <1>3, <1>4, CallKeepsInv

LEMMA FailKeepsInv ==
  ASSUME RecordsInv, NEW r \in Requests, Fail(r)
  PROVE  RecordsInv'
<1> USE DEF RecordsInv, RecordsTypeOK
<1>1. /\ pc'[r] = "internal" /\ DOMAIN pc' = Requests
      /\ \A q \in Requests : q # r => pc'[q] = pc[q]
      /\ broken' = broken \cup {r} /\ UNCHANGED <<task, store, local, due>>
  BY DEF Fail, Goto
<1>2. OnlyMoves(r) /\ RecordsTypeOK' /\ OnlyAnswers(r)'
  BY <1>1 DEF OnlyMoves, store, OnlyAnswers, Answers
<1>3. Recording(r) => KnowsItsRecord(r)'
  BY <1>1 DEF KnowsItsRecord, store, Answers
<1>4. Exporting(r) => LosesNothing(r)'
  BY <1>1 DEF LosesNothing, Settled, Wanted, store, Answers, Key
<1> QED
  BY <1>1, <1>2, <1>3, <1>4, CallKeepsInv

\* Exports change nothing at the gateway.
LEMMA ExportStepKeepsInv ==
  ASSUME RecordsInv, NEW r \in Requests, Exporting(r), OnlyMoves(r), UNCHANGED store,
         RecordsTypeOK',
         pc'[r] \in {"list", "export", "reply"} \cup Answers,
         due'[r] \subseteq {c \in Settled : Wanted(r, c)},
         local'[r].todo \subseteq Settled,
         local'[r].exported \subseteq {c \in Settled : Wanted(r, c)},
         pc'[r] = "list" => \A row \in rows : row.corr \in due'[r] =>
                               row.corr \in local'[r].todo \/ Rank(row) >= local'[r].skip,
         pc'[r] = "export" => due'[r] \subseteq local'[r].todo \cup local'[r].exported,
         pc'[r] \in {"reply", "done"} => due'[r] \subseteq local'[r].exported,
         pc'[r] = "internal" => r \in broken'
  PROVE  RecordsInv'
<1>1. /\ Settled' = Settled /\ rows' = rows
      /\ \A row : Rank(row)' = Rank(row)
      /\ \A c : Wanted(r, c)' <=> Wanted(r, c)
  BY DEF Settled, store, Rank, OnChain, Before, Wanted, OnlyMoves
<1>2. LosesNothing(r)'
  BY <1>1 DEF LosesNothing, IsToBeFound, Answers
<1>3. ~Recording(r) /\ OnlyAnswers(r)'
  BY DEF Recording, Exporting, OnlyAnswers, OnlyMoves
<1> QED
  BY <1>2, <1>3, CallKeepsInv

LEMMA StartKeepsInv ==
  ASSUME RecordsInv, NEW r \in Requests, pc[r] = "idle", Exporting(r),
         StartListing(r), UNCHANGED <<task, store, local, broken>>
  PROVE  RecordsInv'
<1> USE DEF RecordsInv, RecordsTypeOK
<1>1. /\ pc'[r] = "list" /\ DOMAIN pc' = Requests /\ DOMAIN due' = Requests
      /\ \A q \in Requests : q # r => pc'[q] = pc[q] /\ due'[q] = due[q]
      /\ due'[r] = {c \in Prepared : Wanted(r, c)}
      /\ UNCHANGED <<task, store, local, broken>>
  BY DEF StartListing, Goto
<1>2. OnlyMoves(r) /\ RecordsTypeOK'
  BY <1>1 DEF OnlyMoves, store
<1>3. /\ due'[r] \subseteq {c \in Settled : Wanted(r, c)}
      /\ local[r].todo \subseteq Settled
      /\ local[r].exported \subseteq {c \in Settled : Wanted(r, c)}
      /\ local[r].skip = 0
  BY <1>1 DEF RowsAreApplied, LosesNothing
<1>4. \A row \in rows : Rank(row) >= local[r].skip
  BY <1>3, RankIsNumber
<1> HIDE DEF RecordsInv, RecordsTypeOK
<1> QED
  BY <1>1, <1>2, <1>3, <1>4, ExportStepKeepsInv

\* What a page leaves out of the due has a place after it.
LEMMA PageKeepsInv ==
  ASSUME RecordsInv, NEW r \in Requests, listPage(r)
  PROVE  RecordsInv'
<1> USE DEF RecordsInv, RecordsTypeOK
<1> DEFINE page == Page(local[r].skip)
           found == {row.corr : row \in page}
<1>1. PICK l \in Locals : l = local[r]
  OBVIOUS
<1>2. PICK new \in Locals :
         /\ new = [l EXCEPT !.todo = l.todo \cup found, !.skip = l.skip + Take]
         /\ new.corr = l.corr /\ new.exported = l.exported
         /\ new.todo = l.todo \cup found /\ new.skip = l.skip + Take
  <2> DEFINE new == [l EXCEPT !.todo = l.todo \cup found, !.skip = l.skip + Take]
  <2>1. Take \in Nat /\ found \subseteq Correlations
    BY RecordsAssumption DEF RowsAreApplied, Settled, Page, OnChain
  <2> HIDE DEF found, RecordsInv, RecordsTypeOK
  <2>2. l.todo \cup found \subseteq Correlations /\ l.skip + Take \in Nat
    BY <2>1 DEF Locals
  <2>3. new \in Locals
    BY <2>2 DEF Locals
  <2>4. /\ new.corr = l.corr /\ new.exported = l.exported
        /\ new.todo = l.todo \cup found /\ new.skip = l.skip + Take
    BY DEF Locals
  <2> QED
    BY <2>3, <2>4
<1>3. /\ local' = [local EXCEPT ![r] = new]
      /\ local'[r] = new /\ \A q \in Requests : q # r => local'[q] = local[q]
  BY <1>1, <1>2 DEF listPage, Found
<1>4. /\ pc[r] = "list" /\ DOMAIN pc' = Requests
      /\ \A q \in Requests : q # r => pc'[q] = pc[q]
      /\ pc'[r] = IF Cardinality(page) < Take THEN "export" ELSE "list"
      /\ UNCHANGED <<task, store, due, broken>>
  BY DEF listPage, Found, Goto
<1>5. Exporting(r) /\ LosesNothing(r)
  BY <1>4 DEF KnowsItsRecord, OnlyAnswers, Answers
<1>6. OnlyMoves(r) /\ RecordsTypeOK'
  BY <1>2, <1>3, <1>4 DEF OnlyMoves, store
<1>7. found \subseteq Settled
  BY DEF RowsAreApplied, Page, OnChain
<1>8. ASSUME NEW row \in rows, row.corr \in due[r]
      PROVE  row.corr \in new.todo \/ Rank(row) >= new.skip
  <2>1. IsToBeFound(r, row)
    BY <1>4, <1>5, <1>8 DEF LosesNothing
  <2>2. Rank(row) \in Nat /\ l.skip \in Nat /\ Take \in Nat
    BY RankIsNumber, RecordsAssumption DEF Locals
  <2>3. CASE Rank(row) >= l.skip /\ Rank(row) < l.skip + Take
    <3>1. row \in page
      BY <1>1, <2>2, <2>3, RowsOnChain DEF Page
    <3> QED
      BY <1>2, <3>1
  <2> QED
    BY <1>1, <1>2, <2>1, <2>2, <2>3 DEF IsToBeFound
<1>9. pc'[r] = "export" => due[r] \subseteq new.todo \cup new.exported
  <2> SUFFICES ASSUME Cardinality(page) < Take, NEW c \in due[r] PROVE c \in new.todo
    BY <1>4
  <2>1. PICK bundle \in Bundles : Key(c, bundle) \in applied /\ c \in Correlations
    BY <1>5 DEF LosesNothing, Settled
  <2>2. PICK row \in rows : row.corr = c
    <3>1. OnAvalanche(bundle) /\ StepsOf(c) = Created(c, bundle)
      BY <2>1 DEF RowsAreApplied
    <3>2. 1 \in DOMAIN bundle
      BY <3>1, RecordsAssumption DEF OnAvalanche
    <3> QED
      BY <3>1, <3>2 DEF StepsOf, Created
  <2>3. ~(Rank(row) >= l.skip + Take)
    <3>1. l.skip \in Nat
      BY DEF Locals
    <3> QED
      BY <1>1, <3>1, PageIsFull
  <2> QED
    BY <1>2, <1>8, <2>2, <2>3
<1>10. /\ pc'[r] \in {"list", "export"} /\ due'[r] = due[r]
       /\ new.todo \subseteq Settled
       /\ new.exported \subseteq {c \in Settled : Wanted(r, c)}
       /\ due[r] \subseteq {c \in Settled : Wanted(r, c)}
  BY <1>1, <1>2, <1>4, <1>5, <1>7 DEF LosesNothing
<1> HIDE DEF RecordsInv, RecordsTypeOK
<1> QED
  BY <1>3, <1>4, <1>5, <1>6, <1>8, <1>9, <1>10, ExportStepKeepsInv

LEMMA RecordKeepsInv ==
  ASSUME RecordsInv, NEW r \in Requests, exportRecord(r)
  PROVE  RecordsInv'
<1> USE DEF RecordsInv, RecordsTypeOK
<1>1. PICK c \in local[r].todo :
         /\ local' = [local EXCEPT ![r].todo = @ \ {c},
                                   ![r].exported = IF Wanted(r, c) THEN @ \cup {c} ELSE @]
         /\ Goto(r, IF Wanted(r, c) /\ parent[c].total = NoCount THEN "internal" ELSE "export")
  BY DEF exportRecord
<1>2. pc[r] = "export" /\ UNCHANGED <<task, store, due, broken>>
  BY DEF exportRecord
<1>3. Exporting(r) /\ LosesNothing(r)
  BY <1>2 DEF KnowsItsRecord, OnlyAnswers, Answers
<1>4. c \in Settled /\ c \in Correlations /\ parent[c].total # NoCount
  <2>1. PICK bundle \in Bundles : Key(c, bundle) \in applied /\ c \in Correlations
    BY <1>3 DEF LosesNothing, Settled
  <2>2. parent[c].total \in Nat
    BY <2>1, RecordsAssumption DEF RowsAreApplied
  <2> QED
    BY <1>3, <2>1, <2>2, RecordsAssumption DEF LosesNothing
<1>5. /\ pc'[r] = "export" /\ DOMAIN pc' = Requests
      /\ \A q \in Requests : q # r => pc'[q] = pc[q]
  BY <1>1, <1>4 DEF Goto
<1> DEFINE gained == IF Wanted(r, c) THEN {c} ELSE {}
<1>6. PICK l \in Locals : l = local[r]
  OBVIOUS
<1>7. PICK new \in Locals :
         /\ new = [l EXCEPT !.todo = l.todo \ {c},
                            !.exported = IF Wanted(r, c) THEN l.exported \cup {c} ELSE l.exported]
         /\ new.todo = l.todo \ {c} /\ new.exported = l.exported \cup gained
  <2> DEFINE new == [l EXCEPT !.todo = l.todo \ {c},
                              !.exported = IF Wanted(r, c) THEN l.exported \cup {c}
                                           ELSE l.exported]
  <2> HIDE DEF RecordsInv, RecordsTypeOK
  <2>1. new \in Locals
    BY <1>4 DEF Locals
  <2>2. new.todo = l.todo \ {c} /\ new.exported = l.exported \cup gained
    BY DEF Locals
  <2> QED
    BY <2>1, <2>2
<1>8. /\ local' = [local EXCEPT ![r] = new]
      /\ local'[r] = new /\ \A q \in Requests : q # r => local'[q] = local[q]
  BY <1>1, <1>6, <1>7
<1>9. OnlyMoves(r) /\ RecordsTypeOK'
  BY <1>2, <1>5, <1>7, <1>8 DEF OnlyMoves, store
<1>10. /\ due'[r] \subseteq {d \in Settled : Wanted(r, d)}
       /\ new.todo \subseteq Settled
       /\ new.exported \subseteq {d \in Settled : Wanted(r, d)}
       /\ due'[r] \subseteq new.todo \cup new.exported
  BY <1>2, <1>3, <1>4, <1>6, <1>7 DEF LosesNothing
<1> HIDE DEF RecordsInv, RecordsTypeOK
<1> QED
  BY <1>2, <1>3, <1>5, <1>8, <1>9, <1>10, ExportStepKeepsInv

LEMMA ExportEndsKeepsInv ==
  ASSUME RecordsInv, NEW r \in Requests, bulkExport(r)
  PROVE  RecordsInv'
<1> USE DEF RecordsInv, RecordsTypeOK
<1>1. /\ pc[r] = "export" /\ pc'[r] = "reply" /\ DOMAIN pc' = Requests
      /\ \A q \in Requests : q # r => pc'[q] = pc[q]
      /\ local[r].todo = {} /\ UNCHANGED <<task, store, local, due, broken>>
  BY DEF bulkExport, Goto
<1>2. Exporting(r) /\ LosesNothing(r)
  BY <1>1 DEF KnowsItsRecord, OnlyAnswers, Answers
<1>3. OnlyMoves(r) /\ RecordsTypeOK'
  BY <1>1 DEF OnlyMoves, store
<1>4. /\ due'[r] \subseteq {c \in Settled : Wanted(r, c)}
      /\ local'[r].todo \subseteq Settled
      /\ local'[r].exported \subseteq {c \in Settled : Wanted(r, c)}
      /\ due'[r] \subseteq local'[r].exported
  BY <1>1, <1>2 DEF LosesNothing
<1> HIDE DEF RecordsInv, RecordsTypeOK
<1> QED
  BY <1>1, <1>2, <1>3, <1>4, ExportStepKeepsInv

LEMMA EstateKeepsInv ==
  ASSUME RecordsInv, NEW r \in Requests,
         exportUserEstateEvidenceAdmin(r) \/ EstateAnswer(r)
  PROVE  RecordsInv'
<1> USE DEF RecordsInv, RecordsTypeOK
<1>1. /\ pc[r] \in {"idle", "estate"} /\ pc'[r] \in {"estate"} \cup Answers
      /\ DOMAIN pc' = Requests
      /\ \A q \in Requests : q # r => pc'[q] = pc[q]
      /\ UNCHANGED <<task, store, local, due, broken>>
  BY DEF exportUserEstateEvidenceAdmin, EstateAnswer, Goto, Answers
<1>2. ~Recording(r) /\ ~Exporting(r)
  <2>1. CASE exportUserEstateEvidenceAdmin(r)
    BY <2>1 DEF exportUserEstateEvidenceAdmin, AboutIdentities, Recording, Exporting
  <2>2. CASE EstateAnswer(r)
    BY <2>2 DEF EstateAnswer, KnowsItsRecord, LosesNothing, Answers
  <2> QED
    BY <2>1, <2>2
<1>3. OnlyMoves(r) /\ RecordsTypeOK' /\ OnlyAnswers(r)'
  BY <1>1 DEF OnlyMoves, store, OnlyAnswers
<1> HIDE DEF RecordsInv, RecordsTypeOK
<1> QED
  BY <1>1, <1>2, <1>3, CallKeepsInv

LEMMA RecordsInitInv == Init => RecordsInv
<1> SUFFICES ASSUME Init PROVE RecordsInv
  OBVIOUS
<1>1. RecordsTypeOK
  <2>1. Idle \in Locals
    BY DEF Idle, Locals
  <2>2. IsFiniteSet({})
    BY FS_EmptySet
  <2> QED
    BY <2>1, <2>2, RecordsAssumption DEF Init, RecordsTypeOK
<1>2. RowsAreApplied
  BY DEF Init, RowsAreApplied, Settled, Prepared
<1>3. ASSUME NEW r \in Requests PROVE KnowsItsRecord(r) /\ LosesNothing(r) /\ OnlyAnswers(r)
  BY DEF Init, KnowsItsRecord, LosesNothing, OnlyAnswers, Idle
<1> QED
  BY <1>1, <1>2, <1>3 DEF RecordsInv

LEMMA NextKeepsInv ==
  ASSUME RecordsInv, Next
  PROVE  RecordsInv'
<1>1. PICK r \in Requests :
        \/ beginAvaxBridgeEvidence(r) \/ beginAvaxBridgeDestinationEvidence(r)
        \/ commitAvaxBridgeEvidence(r) \/ commitAvaxBridgeDestinationEvidence(r)
        \/ prepareEvidenceBoundBundle(r)
        \/ reloadIntent(r) \/ persistPreparedEvidence(r)
        \/ exportEvidenceByWallet(r) \/ exportEvidenceAdmin(r)
        \/ listPage(r) \/ exportRecord(r) \/ bulkExport(r)
        \/ Reply(r) \/ Fail(r)
  BY DEF Next
<1>2. ASSUME NEW kind, Begin(r, kind) PROVE RecordsInv'
  <2>1. CASE ValidPeer(task[r].action)
    BY <1>2, <2>1, IntentKeepsInv DEF Begin
  <2>2. CASE ~ValidPeer(task[r].action)
    <3>1. /\ task[r].op = "begin" /\ pc'[r] = "refused"
          /\ pc' = [pc EXCEPT ![r] = "refused"]
          /\ UNCHANGED <<task, store, local, due, broken>>
      BY <1>2, <2>2 DEF Begin, Goto, RecordsInv, RecordsTypeOK
    <3>2. OnlyMoves(r) /\ RecordsTypeOK' /\ OnlyAnswers(r)' /\ ~Recording(r) /\ ~Exporting(r)
      BY <3>1 DEF RecordsInv, RecordsTypeOK, OnlyMoves, OnlyAnswers, Answers, Recording,
         Exporting, store
    <3> QED
      BY <3>1, <3>2, CallKeepsInv
  <2> QED
    BY <2>1, <2>2
<1>3. CASE beginAvaxBridgeEvidence(r) \/ beginAvaxBridgeDestinationEvidence(r)
  BY <1>2, <1>3 DEF beginAvaxBridgeEvidence, beginAvaxBridgeDestinationEvidence
<1>4. CASE commitAvaxBridgeEvidence(r) \/ commitAvaxBridgeDestinationEvidence(r)
  BY <1>4, CommitKeepsInv DEF commitAvaxBridgeEvidence, commitAvaxBridgeDestinationEvidence
<1>5. CASE prepareEvidenceBoundBundle(r)
  BY <1>5, IntentKeepsInv DEF prepareEvidenceBoundBundle
<1>6. CASE exportEvidenceByWallet(r)
  BY <1>6, StartKeepsInv DEF exportEvidenceByWallet, Exporting
<1>7. CASE exportEvidenceAdmin(r)
  <2>1. CASE isPhase2EvidenceAdmin(task[r].wallet)
    BY <1>7, <2>1, StartKeepsInv DEF exportEvidenceAdmin, Exporting
  <2>2. CASE ~isPhase2EvidenceAdmin(task[r].wallet)
    <3>1. /\ task[r].op = "exportAdmin" /\ pc'[r] = "forbidden"
          /\ pc' = [pc EXCEPT ![r] = "forbidden"]
          /\ UNCHANGED <<task, store, local, due, broken>>
      BY <1>7, <2>2 DEF exportEvidenceAdmin, Goto, RecordsInv, RecordsTypeOK
    <3>2. OnlyMoves(r) /\ RecordsTypeOK' /\ Exporting(r)
      BY <3>1 DEF RecordsInv, RecordsTypeOK, OnlyMoves, Exporting, store
    <3>3. LosesNothing(r)
      BY <3>2 DEF RecordsInv
    <3> QED
      BY <3>1, <3>2, <3>3, ExportStepKeepsInv DEF LosesNothing, Answers
  <2> QED
    BY <2>1, <2>2
<1>8. CASE \/ reloadIntent(r) \/ persistPreparedEvidence(r)
           \/ listPage(r) \/ exportRecord(r) \/ bulkExport(r) \/ Reply(r) \/ Fail(r)
  BY <1>8, ReloadKeepsInv, TransactKeepsInv, PageKeepsInv, RecordKeepsInv, ExportEndsKeepsInv,
     ReplyKeepsInv, FailKeepsInv
<1> QED
  BY <1>1, <1>3, <1>4, <1>5, <1>6, <1>7, <1>8

LEMMA StutterKeepsInv ==
  ASSUME RecordsInv, UNCHANGED vars
  PROVE  RecordsInv'
<1>1. UNCHANGED <<task, store, pc, local, due, broken>>
  BY DEF vars
<1>2. RecordsTypeOK' /\ UNCHANGED store
  BY <1>1 DEF RecordsTypeOK, store, RecordsInv
<1>3. ASSUME NEW r \in Requests
      PROVE  /\ Recording(r)' => KnowsItsRecord(r)'
             /\ Exporting(r)' => LosesNothing(r)'
             /\ OnlyAnswers(r)'
  <2>1. PICK other : other # r
    <3>1. (IF r = 1 THEN 2 ELSE 1) # r
      OBVIOUS
    <3> QED
      BY <3>1
  <2>2. OnlyMoves(other) /\ StoreGrows
    BY <1>1, StoreStays DEF OnlyMoves
  <2> QED
    BY <2>1, <2>2, OthersKeepTheirs
<1> QED
  BY <1>2, <1>3, StoreStays DEF RecordsInv

\* In every state of every instance the gateway's rows are those that commitments and
\* preparations were told of, and no export has lost what was due.
THEOREM RecordsInvariant == AllSpec => []RecordsInv
<1>1. AllInit => RecordsInv
  BY RecordsInitInv DEF AllInit
<1>2. RecordsInv /\ [AllNext]_<<vars, estateVars>> => RecordsInv'
  BY NextKeepsInv, EstateKeepsInv, StutterKeepsInv DEF AllNext
<1> QED
  BY <1>1, <1>2, PTL DEF AllSpec

\* Whatever bundles, bridges and requests there are, a client that was told that its
\* transactions are committed finds these and no others in the record, for good.
THEOREM WhatIsPreparedIsReturned == AllSpec => []PreparedAsReturned
<1>1. RecordsInv => PreparedAsReturned
  BY DEF RecordsInv, PreparedAsReturned, RowsAreApplied, KnowsItsRecord, Recording, Created,
     RecordsTypeOK, Tasks
<1> QED
  BY <1>1, RecordsInvariant, PTL

\* However long the pages and whatever is prepared meanwhile, a bulk export misses no record
\* that was prepared when it began, and has none of another wallet.
THEOREM ExportsAreComplete == AllSpec => []ExportIsComplete
<1>1. RecordsInv => ExportIsComplete
  BY DEF RecordsInv, ExportIsComplete, LosesNothing, Exporting, Prepared, RowsAreApplied, Settled
<1> QED
  BY <1>1, RecordsInvariant, PTL

\* No intent without steps gets into a list, where it would fail the export.
THEOREM ExportsSurviveIntents == AllSpec => []ExportSurvivesIntents
<1>1. RecordsInv => ExportSurvivesIntents
  BY DEF RecordsInv, ExportSurvivesIntents, LosesNothing, Exporting
<1> QED
  BY <1>1, RecordsInvariant, PTL

-----------------------------------------------------------------------------
(* The class of a profile while tables grow                                *)

\* Every row of one list stands somewhere in another.
Within(s, t) == \A i \in 1 .. Len(s) : \E j \in 1 .. Len(t) : s[i] = t[j]

IdsAreUnique(t) == \A i, j \in 1 .. Len(t) : t[i].id = t[j].id => i = j

Refs(p, wallets) == Identity!ReferencedUserIds(p, wallets)
Users(p, wallets, users) == Identity!MatchedUsers(p, wallets, users)

LEMMA IntervalsAreFinite == \A n \in Nat : IsFiniteSet(1 .. n)
BY FS_Interval

LEMMA RefsAreFinite ==
  ASSUME NEW X, NEW p, NEW wallets \in Seq(X)
  PROVE  IsFiniteSet(Refs(p, wallets)) /\ Cardinality(Refs(p, wallets)) \in Nat
<1> DEFINE at == Identity!MatchedWallets(p, wallets)
           f == [i \in at |-> wallets[i].user]
<1>1. at \subseteq 1 .. Len(wallets) /\ Len(wallets) \in Nat
  BY DEF Identity!MatchedWallets
<1>2. f \in Surjection(at, Refs(p, wallets))
  BY DEF Surjection, Refs, Identity!ReferencedUserIds
<1> HIDE DEF at, f
<1>3. IsFiniteSet(at)
  BY <1>1, IntervalsAreFinite, FS_Subset
<1> QED
  BY <1>2, <1>3, FS_Surjection, FS_CardinalityType

\* The provers take the instance's Cardinality for an operator of its own.
LEMMA SameCardinality == \A S : Identity!Cardinality(S) = Cardinality(S)
BY DEF Identity!Cardinality, Cardinality

\* In a list that names no id twice, one user id matches one row or none.
LEMMA OneRowOfOneId ==
  ASSUME NEW X, NEW p, NEW wallets \in Seq(X), NEW Y, NEW users \in Seq(Y),
         IdsAreUnique(users), Cardinality(Refs(p, wallets)) = 1
  PROVE  Cardinality(Users(p, wallets, users)) = 1 <=> Users(p, wallets, users) # {}
<1> DEFINE U == Users(p, wallets, users)
<1>1. PICK id : Refs(p, wallets) = {id}
  BY RefsAreFinite, FS_Singleton
<1>2. ASSUME NEW i \in U, NEW j \in U PROVE i = j
  <2>1. /\ i \in DOMAIN users /\ users[i].id \in Refs(p, wallets)
        /\ j \in DOMAIN users /\ users[j].id \in Refs(p, wallets)
    BY DEF Users, Refs, Identity!MatchedUsers
  <2>2. users[i].id = users[j].id /\ DOMAIN users = 1 .. Len(users)
    BY <1>1, <2>1
  <2> QED
    BY <2>1, <2>2 DEF IdsAreUnique
<1>3. U \subseteq 1 .. Len(users) /\ Len(users) \in Nat
  BY DEF Users, Identity!MatchedUsers
<1> HIDE DEF U
<1>4. IsFiniteSet(U)
  BY <1>3, IntervalsAreFinite, FS_Subset
<1>5. CASE U = {}
  <2>1. Cardinality(U) = 0
    BY <1>5, FS_EmptySet
  <2> QED
    BY <1>5, <2>1 DEF U
<1>6. CASE U # {}
  <2>1. PICK i \in U : TRUE
    BY <1>6
  <2>2. U = {i}
    BY <1>2, <2>1
  <2>3. Cardinality(U) = 1
    BY <2>2, FS_Singleton
  <2> QED
    BY <1>6, <2>3 DEF U
<1> QED
  BY <1>5, <1>6

\* What decides the class: how many user ids the wallets name, whether a listed user has
\* one of them, and whether the tenants agree.
ClassOf(r, found, same) ==
    IF r > 1 THEN "ambiguous"
    ELSE IF ~(r = 1 /\ found) THEN "unresolved"
    ELSE IF same THEN "resolved" ELSE "tenantInconsistent"

LEMMA ClassIs ==
  ASSUME NEW X, NEW p, NEW wallets \in Seq(X), NEW Y, NEW users \in Seq(Y),
         IdsAreUnique(users)
  PROVE  Identity!Class(p, wallets, users) =
           ClassOf(Cardinality(Refs(p, wallets)), Users(p, wallets, users) # {},
                   Identity!TenantConsistent(p, wallets, users))
BY SameCardinality, OneRowOfOneId DEF ClassOf, Identity!Class, Identity!UniquelyResolved, Refs, Users

\* Rows that are added take neither wallets nor users from a profile.
LEMMA MatchesGrow ==
  ASSUME NEW X, NEW p, NEW v \in Seq(X), NEW w \in Seq(X), Within(v, w),
         NEW Y, NEW u \in Seq(Y), NEW t \in Seq(Y), Within(u, t)
  PROVE  /\ Cardinality(Refs(p, v)) <= Cardinality(Refs(p, w))
         /\ Users(p, v, u) # {} => Users(p, w, t) # {}
         /\ Identity!TenantConsistent(p, w, t) => Identity!TenantConsistent(p, v, u)
<1>0. /\ DOMAIN v = 1 .. Len(v) /\ DOMAIN w = 1 .. Len(w)
      /\ DOMAIN u = 1 .. Len(u) /\ DOMAIN t = 1 .. Len(t)
  OBVIOUS
<1>1. ASSUME NEW i \in Identity!MatchedWallets(p, v)
      PROVE  \E j \in Identity!MatchedWallets(p, w) : v[i] = w[j]
  BY <1>0 DEF Within, Identity!MatchedWallets
<1>2. Refs(p, v) \subseteq Refs(p, w)
  <2> SUFFICES ASSUME NEW x \in Refs(p, v) PROVE x \in Refs(p, w)
    OBVIOUS
  <2>1. PICK i \in Identity!MatchedWallets(p, v) : x = v[i].user
    BY DEF Refs, Identity!ReferencedUserIds
  <2>2. PICK j \in Identity!MatchedWallets(p, w) : v[i] = w[j]
    BY <1>1
  <2> QED
    BY <2>1, <2>2 DEF Refs, Identity!ReferencedUserIds
<1>3. ASSUME NEW i \in Users(p, v, u)
      PROVE  \E j \in Users(p, w, t) : u[i] = t[j]
  <2>1. i \in 1 .. Len(u) /\ u[i].id \in Refs(p, v)
    BY <1>0 DEF Users, Refs, Identity!MatchedUsers
  <2>2. PICK j \in 1 .. Len(t) : u[i] = t[j]
    BY <2>1 DEF Within
  <2> QED
    BY <1>0, <1>2, <2>1, <2>2 DEF Users, Refs, Identity!MatchedUsers
<1>4. Identity!TenantConsistent(p, w, t) => Identity!TenantConsistent(p, v, u)
  <2> SUFFICES ASSUME Identity!TenantConsistent(p, w, t),
                      NEW i \in Identity!MatchedWallets(p, v),
                      NEW k \in Identity!MatchedUsers(p, v, u)
               PROVE  v[i].tenant = p.tenant /\ v[i].tenant = u[k].tenant
    BY DEF Identity!TenantConsistent
  <2>1. PICK j \in Identity!MatchedWallets(p, w) : v[i] = w[j]
    BY <1>1
  <2>2. PICK l \in Identity!MatchedUsers(p, w, t) : u[k] = t[l]
    BY <1>3 DEF Users
  <2> QED
    BY <2>1, <2>2 DEF Identity!TenantConsistent
<1>5. Cardinality(Refs(p, v)) <= Cardinality(Refs(p, w))
  BY <1>2, RefsAreFinite, FS_Subset
<1>6. Users(p, v, u) # {} => Users(p, w, t) # {}
  BY <1>3
<1> QED
  BY <1>4, <1>5, <1>6

\* Between two moments at which it is the same, the class of a profile is no other.
LEMMA ClassBetween ==
  ASSUME NEW X, NEW Y, NEW p,
         NEW w1 \in Seq(X), NEW w2 \in Seq(X), NEW w3 \in Seq(X),
         NEW u1 \in Seq(Y), NEW u2 \in Seq(Y), NEW u3 \in Seq(Y),
         Within(w1, w2), Within(w2, w3), Within(u1, u2), Within(u2, u3),
         IdsAreUnique(u1), IdsAreUnique(u2), IdsAreUnique(u3),
         Identity!Class(p, w1, u1) = Identity!Class(p, w3, u3)
  PROVE  Identity!Class(p, w2, u2) = Identity!Class(p, w1, u1)
<1> DEFINE r1 == Cardinality(Refs(p, w1))
           r2 == Cardinality(Refs(p, w2))
           r3 == Cardinality(Refs(p, w3))
           f1 == Users(p, w1, u1) # {}
           f2 == Users(p, w2, u2) # {}
           f3 == Users(p, w3, u3) # {}
           same1 == Identity!TenantConsistent(p, w1, u1)
           same2 == Identity!TenantConsistent(p, w2, u2)
           same3 == Identity!TenantConsistent(p, w3, u3)
<1>1. r1 <= r2 /\ (f1 => f2) /\ (same2 => same1)
  <2>1. /\ Cardinality(Refs(p, w1)) <= Cardinality(Refs(p, w2))
        /\ Users(p, w1, u1) # {} => Users(p, w2, u2) # {}
        /\ Identity!TenantConsistent(p, w2, u2) => Identity!TenantConsistent(p, w1, u1)
    BY MatchesGrow, Zenon
  <2> QED
    BY <2>1
<1>2. r2 <= r3 /\ (f2 => f3) /\ (same3 => same2)
  <2>1. /\ Cardinality(Refs(p, w2)) <= Cardinality(Refs(p, w3))
        /\ Users(p, w2, u2) # {} => Users(p, w3, u3) # {}
        /\ Identity!TenantConsistent(p, w3, u3) => Identity!TenantConsistent(p, w2, u2)
    BY MatchesGrow, Zenon
  <2> QED
    BY <2>1
<1>3. r1 \in Nat /\ r2 \in Nat /\ r3 \in Nat
  BY RefsAreFinite
<1>4. /\ Identity!Class(p, w1, u1) = ClassOf(r1, f1, same1)
      /\ Identity!Class(p, w2, u2) = ClassOf(r2, f2, same2)
      /\ Identity!Class(p, w3, u3) = ClassOf(r3, f3, same3)
  BY ClassIs
<1> HIDE DEF r1, r2, r3, f1, f2, f3, same1, same2, same3
<1>5. ClassOf(r1, f1, same1) = ClassOf(r3, f3, same3)
  BY <1>4
<1>6. ClassOf(r2, f2, same2) = ClassOf(r1, f1, same1)
  <2>1. CASE r1 > 1
    BY <1>1, <1>3, <2>1 DEF ClassOf
  <2>2. CASE r1 <= 1 /\ ~(r1 = 1 /\ f1)
    <3>1. ~(r3 > 1) /\ ~(r3 = 1 /\ f3)
      BY <1>3, <1>5, <2>2 DEF ClassOf
    <3>2. ~(r2 > 1) /\ ~(r2 = 1 /\ f2)
      BY <1>2, <1>3, <3>1
    <3> QED
      BY <1>3, <2>2, <3>2 DEF ClassOf
  <2>3. CASE r1 = 1 /\ f1
    <3>1. r3 = 1 /\ f3 /\ (same1 <=> same3)
      BY <1>1, <1>2, <1>3, <1>5, <2>3 DEF ClassOf
    <3>2. r2 = 1 /\ f2 /\ (same1 <=> same2)
      BY <1>1, <1>2, <1>3, <2>3, <3>1
    <3> QED
      BY <2>3, <3>2 DEF ClassOf
  <2> QED
    BY <1>3, <2>1, <2>2, <2>3
<1> QED
  BY <1>4, <1>6

-----------------------------------------------------------------------------
(* The export of identities                                                *)

Entities == Identity!Entities

NoIdTwice(table) == \A x, y \in table : x.id = y.id => x = y

\* What a table holds stands in a list, or what a list holds in a table.
Has(list, table) == \A x \in table : \E i \in 1 .. Len(list) : list[i] = x
From(list, table) == \A i \in 1 .. Len(list) : list[i] \in table

\* Where the export began: each table has only grown since, and a table that fits a page
\* stands in its list with all it held then, once the page has been read.
BeganWith(old) ==
    /\ before = Identity!Classes(Identity!Listed(old))
    /\ \A e \in Entities :
          /\ old[e] \subseteq tables[e]
          /\ Identity!Fits(e) /\ skip[e] # 0 => Has(lists[e], old[e])

IdentitiesInv ==
    /\ DOMAIN tables = Entities /\ DOMAIN lists = Entities /\ DOMAIN skip = Entities
    /\ phase \in {"idle", "listing", "built", "failed"}
    /\ \A e \in Entities :
          /\ tables[e] \subseteq IdentityRows[e] /\ IsFiniteSet(tables[e])
          /\ NoIdTwice(tables[e])
          /\ lists[e] \in Seq(IdentityRows[e]) /\ From(lists[e], tables[e])
          /\ skip[e] \in Nat \cup {-1}
          /\ phase = "idle" => skip[e] = 0
          /\ phase = "built" => skip[e] = -1
          /\ Identity!Fits(e) =>
               \/ skip[e] = 0 /\ lists[e] = <<>>
               \/ skip[e] \in {-1, IdentityPage} /\ IdsAreUnique(lists[e])
    /\ phase \in {"listing", "built"} => \E old : BeganWith(old)
    /\ phase = "built" => classOf = Identity!Classes(lists)

LEMMA SmallerOfTwo ==
  ASSUME NEW a \in Int, NEW b \in Int
  PROVE  Identity!Min({a, b}) = IF a <= b THEN a ELSE b
BY DEF Identity!Min

\* A table written as a list: every row once.
LEMMA RowsInOrder ==
  ASSUME NEW X, NEW S \in SUBSET X, NEW inOrder \in [1 .. Cardinality(S) -> S],
         IsFiniteSet(S), \A i, j \in 1 .. Cardinality(S) : inOrder[i] = inOrder[j] => i = j
  PROVE  /\ inOrder \in Seq(X) /\ Len(inOrder) = Cardinality(S) /\ Cardinality(S) \in Nat
         /\ Has(inOrder, S) /\ From(inOrder, S)
         /\ NoIdTwice(S) => IdsAreUnique(inOrder)
<1> DEFINE n == Cardinality(S)
<1>1. n \in Nat
  BY FS_CardinalityType
<1>2. inOrder \in Seq(X) /\ Len(inOrder) = n
  <2> HIDE DEF n
  <2>1. inOrder \in [1 .. n -> X]
    BY DEF n
  <2>2. inOrder \in Seq(X) /\ DOMAIN inOrder = 1 .. n
    BY <1>1, <2>1
  <2> QED
    BY <1>1, <2>2
<1>3. inOrder \in Injection(1 .. n, S)
  BY DEF Injection, IsInjective
<1>4. Cardinality(1 .. n) = n
  BY <1>1, FS_Interval
<1>5. inOrder \in Surjection(1 .. n, S)
  BY <1>3, <1>4, FS_Injection
<1>6. Has(inOrder, S)
  BY <1>2, <1>5 DEF Surjection, Has
<1>7. From(inOrder, S)
  BY <1>2 DEF From
<1>8. ASSUME NoIdTwice(S) PROVE IdsAreUnique(inOrder)
  BY <1>2, <1>8 DEF NoIdTwice, IdsAreUnique
<1> QED
  BY <1>1, <1>2, <1>6, <1>7, <1>8

\* A table of the specification's Listed is such a list.
LEMMA TableAsList ==
  ASSUME NEW X, NEW S \in SUBSET X, IsFiniteSet(S)
  PROVE  /\ Identity!SetToSeq(S) \in Seq(X)
         /\ Has(Identity!SetToSeq(S), S) /\ From(Identity!SetToSeq(S), S)
         /\ NoIdTwice(S) => IdsAreUnique(Identity!SetToSeq(S))
<1> DEFINE n == Cardinality(S)
           Good(f) == \A i, j \in DOMAIN f : f[i] = f[j] => i = j
           inOrder == CHOOSE f \in [1 .. n -> S] : Good(f)
<1>1. \E f \in [1 .. n -> S] : Good(f)
  <2>1. ExistsBijection(1 .. n, S)
    BY FS_CardinalityType
  <2> QED
    BY <2>1 DEF ExistsBijection, Bijection, Injection, IsInjective
<1>2. inOrder \in [1 .. n -> S] /\ Good(inOrder)
  BY <1>1
<1>3. Identity!SetToSeq(S) = inOrder
  BY SameCardinality DEF Identity!SetToSeq, Identity!IsInjective
<1> HIDE DEF inOrder
<1>4. \A i, j \in 1 .. n : inOrder[i] = inOrder[j] => i = j
  BY <1>2
<1> QED
  BY <1>2, <1>3, <1>4, RowsInOrder

\* A page of any table lists rows of it; the first page of one that fits lists them all,
\* none twice, and a page after that nothing.
LEMMA PageOfTable ==
  ASSUME NEW X, NEW S \in SUBSET X, IsFiniteSet(S), NoIdTwice(S), NEW from \in Nat,
         NEW page \in Identity!Pages(S, from)
  PROVE  /\ page \in Seq(X) /\ From(page, S)
         /\ from = 0 /\ Cardinality(S) <= IdentityPage => Has(page, S) /\ IdsAreUnique(page)
         /\ from = IdentityPage /\ Cardinality(S) <= IdentityPage => page = <<>>
<1> DEFINE n == Cardinality(S)
<1>1. n \in Nat /\ IdentityPage \in Nat \ {0}
  BY FS_CardinalityType, IdentitiesAssumption
<1>2. PICK inOrder \in Bijection(1 .. n, S) :
         page = SubSeq(inOrder, from + 1, Identity!Min({from + IdentityPage, n}))
  BY SameCardinality DEF Identity!Pages, Identity!Bijection, Identity!Injection,
     Identity!Surjection, Identity!IsInjective, Bijection, Injection, Surjection, IsInjective
<1>3. /\ inOrder \in [1 .. n -> S]
      /\ \A i, j \in 1 .. n : inOrder[i] = inOrder[j] => i = j
  BY <1>2 DEF Bijection, Injection, IsInjective
<1>4. /\ inOrder \in Seq(X) /\ Len(inOrder) = n /\ Has(inOrder, S) /\ From(inOrder, S)
      /\ IdsAreUnique(inOrder)
  BY <1>3, RowsInOrder
<1> DEFINE last == IF from + IdentityPage <= n THEN from + IdentityPage ELSE n
<1>5. page = SubSeq(inOrder, from + 1, last) /\ last \in Nat /\ last <= n
  BY <1>1, <1>2, SmallerOfTwo
<1> HIDE DEF n
<1>6. CASE last < from + 1
  <2>1. page = <<>>
    BY <1>1, <1>4, <1>5, <1>6
  <2>2. from = 0 => n = 0
    BY <1>1, <1>6
  <2>3. n = 0 => S = {}
    BY FS_EmptySet DEF n
  <2> QED
    BY <2>1, <2>2, <2>3 DEF From, Has, IdsAreUnique, n
<1>7. CASE from + 1 <= last
  <2> DEFINE len == last - from
  <2>1. len \in Nat /\ \A i \in 1 .. len : from + i \in 1 .. n
    BY <1>1, <1>5, <1>7
  <2>2. \A i \in from + 1 .. last : inOrder[i] \in X
    <3>1. ASSUME NEW i \in from + 1 .. last PROVE i \in 1 .. n
      BY <1>1, <1>5, <3>1
    <3> QED
      BY <1>4, <3>1
  <2>3. /\ page \in Seq(X) /\ Len(page) = last - (from + 1) + 1
        /\ \A i \in 1 .. last - (from + 1) + 1 : page[i] = inOrder[(from + 1) + i - 1]
    <3> HIDE DEF last
    <3> QED BY <1>5, <1>7, <2>2, SubSeqProperties
  <2>4. Len(page) = len /\ \A i \in 1 .. len : page[i] = inOrder[from + i]
    <3> HIDE DEF last
    <3>1. last - (from + 1) + 1 = last - from /\ \A i \in Int : (from + 1) + i - 1 = from + i
      BY <1>5
    <3> QED
      BY <2>3, <3>1
  <2>5. From(page, S)
    BY <1>4, <2>1, <2>4 DEF From
  <2>6. CASE from = 0 /\ n <= IdentityPage
    <3>1. len = n
      BY <1>1, <2>6
    <3>2. Len(page) = Len(inOrder) /\ \A i \in 1 .. Len(inOrder) : page[i] = inOrder[i]
      BY <1>1, <1>4, <2>4, <2>6, <3>1
    <3>3. Has(page, S)
      BY <1>4, <3>2 DEF Has
    <3>4. IdsAreUnique(page)
      BY <1>4, <3>2 DEF IdsAreUnique
    <3> QED
      BY <1>1, <2>3, <2>5, <2>6, <3>3, <3>4
  <2>7. ~(from = IdentityPage /\ n <= IdentityPage)
    BY <1>1, <1>7
  <2> QED
    BY <2>3, <2>5, <2>6, <2>7 DEF n
<1>8. last < from + 1 \/ from + 1 <= last
  BY <1>5
<1> QED
  BY <1>6, <1>7, <1>8

LEMMA IdentitiesInitInv == Identity!Init => IdentitiesInv
<1> SUFFICES ASSUME Identity!Init PROVE IdentitiesInv
  OBVIOUS
<1> QED
  BY FS_EmptySet DEF Identity!Init, IdentitiesInv, Entities, NoIdTwice, From

LEMMA EstateStartKeepsInv ==
  ASSUME IdentitiesInv, Identity!exportUserIdentityEvidenceAdmin
  PROVE  IdentitiesInv'
<1> USE DEF Identity!exportUserIdentityEvidenceAdmin
<1>1. BeganWith(tables)'
  BY DEF BeganWith, IdentitiesInv
<1> QED
  BY <1>1 DEF IdentitiesInv, Identity!Fits

LEMMA RegisterKeepsInv ==
  ASSUME IdentitiesInv, NEW e \in Entities, NEW row \in IdentityRows[e],
         Identity!Register(e, row)
  PROVE  IdentitiesInv'
<1> USE DEF IdentitiesInv
<1>1. /\ tables'[e] = tables[e] \cup {row}
      /\ \A f \in Entities : f # e => tables'[f] = tables[f]
      /\ DOMAIN tables' = Entities
      /\ UNCHANGED <<lists, skip, phase, classOf, before>>
      /\ phase # "built"
      /\ \A other \in tables[e] : other.id # row.id
  BY DEF Identity!Register
<1>2. ASSUME NEW f \in Entities
      PROVE  /\ tables[f] \subseteq tables'[f] /\ tables'[f] \subseteq IdentityRows[f]
             /\ IsFiniteSet(tables'[f]) /\ NoIdTwice(tables'[f])
             /\ Identity!Fits(f)' => Identity!Fits(f)
  <2>1. CASE f = e
    <3>1. tables[f] \subseteq tables'[f] /\ tables'[f] \subseteq IdentityRows[f]
      BY <1>1, <2>1
    <3>2. IsFiniteSet(tables'[f])
      BY <1>1, <2>1, FS_AddElement
    <3>3. NoIdTwice(tables'[f])
      BY <1>1, <2>1 DEF NoIdTwice
    <3>4. /\ Cardinality(tables[f]) <= Cardinality(tables'[f])
          /\ Cardinality(tables[f]) \in Nat /\ Cardinality(tables'[f]) \in Nat
          /\ IdentityPage \in Nat
      BY <3>1, <3>2, FS_Subset, FS_CardinalityType, IdentitiesAssumption
    <3>5. Identity!Fits(f)' => Identity!Fits(f)
      BY <3>4, SameCardinality DEF Identity!Fits
    <3> QED
      BY <3>1, <3>2, <3>3, <3>5
  <2>2. CASE f # e
    BY <1>1, <2>2 DEF Identity!Fits
  <2> QED
    BY <2>1, <2>2
<1>3. ASSUME NEW old, BeganWith(old) PROVE BeganWith(old)'
  BY <1>1, <1>2, <1>3 DEF BeganWith
<1>4. \A f \in Entities : From(lists[f], tables'[f])
  BY <1>2 DEF From
<1> QED
  BY <1>1, <1>2, <1>3, <1>4

LEMMA EstatePageKeepsInv ==
  ASSUME IdentitiesInv, NEW e \in Entities, Identity!listPage(e)
  PROVE  IdentitiesInv'
<1>1. PICK page \in Identity!Pages(tables[e], skip[e]) :
         /\ lists' = [lists EXCEPT ![e] = @ \o page]
         /\ skip' = [skip EXCEPT ![e] =
                       IF Len(page) < IdentityPage THEN -1 ELSE skip[e] + IdentityPage]
  BY DEF Identity!listPage, Identity!NextSkip
<1>2. phase = "listing" /\ skip[e] >= 0 /\ UNCHANGED <<tables, phase, classOf, before>>
  BY DEF Identity!listPage, Identity!Listing
<1>3. /\ tables[e] \subseteq IdentityRows[e] /\ IsFiniteSet(tables[e]) /\ NoIdTwice(tables[e])
      /\ lists[e] \in Seq(IdentityRows[e]) /\ From(lists[e], tables[e]) /\ skip[e] \in Nat
      /\ Identity!Fits(e) =>
               \/ skip[e] = 0 /\ lists[e] = <<>>
               \/ skip[e] = IdentityPage /\ IdsAreUnique(lists[e])
      /\ IdentityPage \in Nat \ {0}
  BY <1>2, IdentitiesAssumption DEF IdentitiesInv
<1>4. /\ page \in Seq(IdentityRows[e]) /\ From(page, tables[e])
      /\ skip[e] = 0 /\ Identity!Fits(e) => Has(page, tables[e]) /\ IdsAreUnique(page)
      /\ skip[e] = IdentityPage /\ Identity!Fits(e) => page = <<>>
  BY <1>3, PageOfTable, SameCardinality DEF Identity!Fits
<1>5. /\ lists'[e] = lists[e] \o page
      /\ skip'[e] = IF Len(page) < IdentityPage THEN -1 ELSE skip[e] + IdentityPage
      /\ \A f \in Entities : f # e => lists'[f] = lists[f] /\ skip'[f] = skip[f]
      /\ DOMAIN lists' = Entities /\ DOMAIN skip' = Entities
  BY <1>1 DEF IdentitiesInv
<1>6. Len(page) \in Nat /\ Len(lists[e]) \in Nat
  BY <1>3, <1>4
<1>7. lists'[e] \in Seq(IdentityRows[e]) /\ From(lists'[e], tables[e])
  <2>0. /\ lists[e] \o page \in Seq(IdentityRows[e])
        /\ Len(lists[e] \o page) = Len(lists[e]) + Len(page)
        /\ \A i \in 1 .. Len(lists[e]) + Len(page) :
              (lists[e] \o page)[i] =
                 IF i <= Len(lists[e]) THEN lists[e][i] ELSE page[i - Len(lists[e])]
    BY <1>3, <1>4, ConcatProperties
  <2>1. /\ lists'[e] \in Seq(IdentityRows[e]) /\ Len(lists'[e]) = Len(lists[e]) + Len(page)
        /\ \A i \in 1 .. Len(lists[e]) + Len(page) :
              lists'[e][i] = IF i <= Len(lists[e]) THEN lists[e][i] ELSE page[i - Len(lists[e])]
    BY <1>5, <2>0
  <2>2. ASSUME NEW i \in 1 .. Len(lists[e]) + Len(page)
        PROVE  lists'[e][i] \in tables[e]
    <3>1. CASE i <= Len(lists[e])
      BY <1>3, <1>6, <2>1, <3>1 DEF From
    <3>2. CASE ~(i <= Len(lists[e]))
      <4>1. i - Len(lists[e]) \in 1 .. Len(page)
        BY <1>6, <3>2
      <4> QED
        BY <1>4, <2>1, <3>2, <4>1 DEF From
    <3> QED
      BY <3>1, <3>2
  <2> QED
    BY <2>1, <2>2 DEF From
<1>8. skip'[e] \in Nat \cup {-1}
  BY <1>3, <1>5
<1>9. ASSUME Identity!Fits(e)
      PROVE  /\ skip'[e] \in {-1, IdentityPage} /\ IdsAreUnique(lists'[e])
             /\ \A old : BeganWith(old) => Has(lists'[e], old[e])
  <2>1. CASE skip[e] = 0 /\ lists[e] = <<>>
    <3>1. lists'[e] = page
      BY <1>4, <1>5, <2>1
    <3>2. skip'[e] \in {-1, IdentityPage}
      BY <1>3, <1>5, <2>1
    <3> QED
      BY <1>4, <1>9, <2>1, <3>1, <3>2 DEF BeganWith, Has
  <2>2. CASE skip[e] = IdentityPage /\ IdsAreUnique(lists[e])
    <3>1. page = <<>> /\ Len(page) = 0
      BY <1>4, <1>9, <2>2
    <3>2. lists'[e] = lists[e]
      BY <1>3, <1>5, <3>1
    <3>3. skip'[e] = -1
      BY <1>3, <1>5, <3>1
    <3> QED
      BY <1>3, <1>9, <2>2, <3>2, <3>3 DEF BeganWith
  <2> QED
    BY <1>3, <1>9, <2>1, <2>2
<1>10. ASSUME NEW f \in Entities PROVE Identity!Fits(f)' = Identity!Fits(f)
  BY <1>2 DEF Identity!Fits
<1>11. ASSUME NEW old, BeganWith(old) PROVE BeganWith(old)'
  BY <1>2, <1>5, <1>9, <1>10, <1>11 DEF BeganWith
<1> QED
  BY <1>2, <1>5, <1>7, <1>8, <1>9, <1>10, <1>11 DEF IdentitiesInv

LEMMA EstateEndsKeepsInv ==
  ASSUME IdentitiesInv, Identity!buildUserIdentityEvidence \/ Identity!listFails
  PROVE  IdentitiesInv'
<1> USE DEF IdentitiesInv
<1>1. /\ UNCHANGED <<tables, lists, skip, before>> /\ phase = "listing"
      /\ phase' \in {"built", "failed"}
      /\ phase' = "built" => classOf' = Identity!Classes(lists) /\ Identity!Listing = {}
  BY DEF Identity!buildUserIdentityEvidence, Identity!listFails
<1>2. ASSUME phase' = "built", NEW e \in Entities PROVE skip[e] = -1
  BY <1>1, <1>2 DEF Identity!Listing, Entities
<1>3. \A old : BeganWith(old) => BeganWith(old)'
  BY <1>1 DEF BeganWith, Identity!Fits
<1>4. phase' = "built" => classOf' = Identity!Classes(lists')
  BY <1>1
<1>5. \A e \in Entities : Identity!Fits(e)' = Identity!Fits(e)
  BY <1>1 DEF Identity!Fits
<1> QED
  BY <1>1, <1>2, <1>3, <1>4, <1>5

LEMMA EstateNextKeepsInv ==
  ASSUME IdentitiesInv, [AllNext]_<<vars, estateVars>>
  PROVE  IdentitiesInv'
<1>1. CASE UNCHANGED estateVars
  <2>1. \A old : BeganWith(old) => BeganWith(old)'
    BY <1>1 DEF estateVars, BeganWith, Identity!Fits
  <2>2. \A e \in Entities : Identity!Fits(e)' = Identity!Fits(e)
    BY <1>1 DEF estateVars, Identity!Fits
  <2> QED
    BY <1>1, <2>1, <2>2 DEF estateVars, IdentitiesInv
<1>2. CASE Identity!Next
  <2>1. ASSUME NEW e \in Entities, Identity!listPage(e) PROVE IdentitiesInv'
    BY <2>1, EstatePageKeepsInv
  <2>2. ASSUME NEW e \in Entities, NEW row \in IdentityRows[e], Identity!Register(e, row)
        PROVE  IdentitiesInv'
    BY <2>2, RegisterKeepsInv
  <2>3. ASSUME Identity!listFails \/ Identity!buildUserIdentityEvidence PROVE IdentitiesInv'
    BY <2>3, EstateEndsKeepsInv
  <2> QED
    BY <1>2, <2>1, <2>2, <2>3 DEF Identity!Next, Entities
<1>3. CASE Identity!exportUserIdentityEvidenceAdmin
  BY <1>3, EstateStartKeepsInv
<1>4. UNCHANGED estateVars \/ Identity!Next \/ Identity!exportUserIdentityEvidenceAdmin
  BY DEF AllNext, exportUserEstateEvidenceAdmin, EstateAnswer, estateVars
<1> QED
  BY <1>1, <1>2, <1>3, <1>4

\* A record of a list of profiles stands for one of its rows.
LEMMA RecordsOfList ==
  ASSUME NEW ts, NEW X, ts["profiles"] \in Seq(X), NEW r \in Identity!Range(Identity!Classes(ts))
  PROVE  \E i \in 1 .. Len(ts["profiles"]) :
           /\ r.id = ts["profiles"][i].id
           /\ r = [id |-> ts["profiles"][i].id,
                   class |-> Identity!Class(ts["profiles"][i], ts["wallets"], ts["users"])]
<1>1. DOMAIN Identity!Classes(ts) = 1 .. Len(ts["profiles"])
  BY DEF Identity!Classes
<1>2. PICK i \in 1 .. Len(ts["profiles"]) : r = Identity!Classes(ts)[i]
  BY <1>1 DEF Identity!Range
<1> QED
  BY <1>1, <1>2 DEF Identity!Classes

\* The tables only grow, and a table that fits a page is read at one moment: a class that is
\* the same when the export begins and when it ends was the same for what the export joins.
LEMMA StableAreReported == IdentitiesInv => IdentitiesAreReported
<1> SUFFICES ASSUME IdentitiesInv, phase = "built",
                    Identity!Fits("wallets"), Identity!Fits("users")
             PROVE  /\ \A r \in Identity!Range(classOf), s \in Identity!Settled :
                          r.id = s.id => r = s
                    /\ Identity!Fits("profiles") =>
                         /\ \A i, j \in DOMAIN classOf : classOf[i].id = classOf[j].id => i = j
                         /\ Identity!Settled \subseteq Identity!Range(classOf)
  BY DEF IdentitiesAreReported, Identity!StableIdentitiesAreReported
<1>1. PICK old : BeganWith(old)
  BY DEF IdentitiesInv
<1> DEFINE first == Identity!Listed(old)
           final == Identity!Listed(tables)
<1>2. {"profiles", "wallets", "users"} = Entities
  BY DEF Entities, Identity!Entities
<1>3. ASSUME NEW e \in Entities
      PROVE  /\ tables[e] \subseteq IdentityRows[e] /\ IsFiniteSet(tables[e])
             /\ NoIdTwice(tables[e]) /\ From(lists[e], tables[e])
             /\ lists[e] \in Seq(IdentityRows[e])
             /\ old[e] \subseteq tables[e] /\ IsFiniteSet(old[e]) /\ NoIdTwice(old[e])
             /\ Identity!Fits(e) => Has(lists[e], old[e]) /\ IdsAreUnique(lists[e])
  <2>1. skip[e] = -1 /\ IdentityPage \in Nat
    BY IdentitiesAssumption DEF IdentitiesInv
  <2>2. /\ tables[e] \subseteq IdentityRows[e] /\ IsFiniteSet(tables[e])
        /\ NoIdTwice(tables[e]) /\ From(lists[e], tables[e])
        /\ lists[e] \in Seq(IdentityRows[e])
    BY DEF IdentitiesInv
  <2>3. old[e] \subseteq tables[e]
    BY <1>1 DEF BeganWith
  <2>4. IsFiniteSet(old[e]) /\ NoIdTwice(old[e])
    BY <2>2, <2>3, FS_Subset DEF NoIdTwice
  <2>5. Identity!Fits(e) => Has(lists[e], old[e]) /\ IdsAreUnique(lists[e])
    BY <1>1, <2>1 DEF BeganWith, IdentitiesInv
  <2> QED
    BY <2>2, <2>3, <2>4, <2>5
<1>4. ASSUME NEW e \in Entities
      PROVE  /\ first[e] \in Seq(IdentityRows[e]) /\ Has(first[e], old[e])
             /\ From(first[e], old[e]) /\ IdsAreUnique(first[e])
             /\ final[e] \in Seq(IdentityRows[e]) /\ Has(final[e], tables[e])
             /\ From(final[e], tables[e]) /\ IdsAreUnique(final[e])
  <2>1. first[e] = Identity!SetToSeq(old[e]) /\ final[e] = Identity!SetToSeq(tables[e])
    BY DEF Identity!Listed, Entities
  <2>2. old[e] \in SUBSET IdentityRows[e] /\ tables[e] \in SUBSET IdentityRows[e]
    BY <1>3
  <2> QED
    BY <1>3, <2>1, <2>2, TableAsList
<1> HIDE DEF first, final
<1>5. ASSUME NEW e \in Entities, Identity!Fits(e)
      PROVE  Within(first[e], lists[e]) /\ Within(lists[e], final[e])
  BY <1>3, <1>4, <1>5 DEF Within, Has, From
<1>6. /\ before = Identity!Classes(first) /\ classOf = Identity!Classes(lists)
      /\ Identity!Settled = Identity!Range(Identity!Classes(first))
                              \cap Identity!Range(Identity!Classes(final))
  BY <1>1 DEF BeganWith, IdentitiesInv, Identity!Settled, first, final
<1>7. ASSUME NEW s \in Identity!Settled
      PROVE  \E p \in old["profiles"] :
               /\ s.id = p.id
               /\ s = [id |-> p.id, class |-> Identity!Class(p, lists["wallets"], lists["users"])]
  <2>1. PICK i \in 1 .. Len(first["profiles"]) :
           /\ s.id = first["profiles"][i].id
           /\ s = [id |-> first["profiles"][i].id,
                   class |-> Identity!Class(first["profiles"][i], first["wallets"], first["users"])]
    BY <1>2, <1>4, <1>6, RecordsOfList
  <2>2. PICK j \in 1 .. Len(final["profiles"]) :
           /\ s.id = final["profiles"][j].id
           /\ s = [id |-> final["profiles"][j].id,
                   class |-> Identity!Class(final["profiles"][j], final["wallets"], final["users"])]
    BY <1>2, <1>4, <1>6, RecordsOfList
  <2> DEFINE p == first["profiles"][i]
             q == final["profiles"][j]
  <2>3. p \in old["profiles"] /\ q \in tables["profiles"] /\ p \in tables["profiles"]
    BY <1>2, <1>3, <1>4 DEF From
  <2>4. p = q
    BY <1>2, <1>3, <2>1, <2>2, <2>3 DEF NoIdTwice
  <2> HIDE DEF p, q
  <2>5. Identity!Class(p, first["wallets"], first["users"])
          = Identity!Class(p, final["wallets"], final["users"])
    BY <2>1, <2>2, <2>4 DEF p, q
  <2>6. /\ first["wallets"] \in Seq(IdentityRows["wallets"])
        /\ lists["wallets"] \in Seq(IdentityRows["wallets"])
        /\ final["wallets"] \in Seq(IdentityRows["wallets"])
        /\ Within(first["wallets"], lists["wallets"]) /\ Within(lists["wallets"], final["wallets"])
        /\ first["users"] \in Seq(IdentityRows["users"])
        /\ lists["users"] \in Seq(IdentityRows["users"])
        /\ final["users"] \in Seq(IdentityRows["users"])
        /\ Within(first["users"], lists["users"]) /\ Within(lists["users"], final["users"])
        /\ IdsAreUnique(first["users"]) /\ IdsAreUnique(lists["users"])
        /\ IdsAreUnique(final["users"])
    BY <1>2, <1>3, <1>4, <1>5
  <2>7. Identity!Class(p, lists["wallets"], lists["users"])
          = Identity!Class(p, first["wallets"], first["users"])
    BY <2>5, <2>6, ClassBetween
  <2> QED
    BY <2>1, <2>3, <2>7 DEF p
<1> DEFINE Q == lists["profiles"]
           Of(p) == [id |-> p.id, class |-> Identity!Class(p, lists["wallets"], lists["users"])]
<1>8. /\ DOMAIN classOf = 1 .. Len(Q) /\ Len(Q) \in Nat
      /\ \A i \in 1 .. Len(Q) : classOf[i] = Of(Q[i])
  BY <1>2, <1>3, <1>6 DEF Identity!Classes
<1>9. ASSUME NEW r \in Identity!Range(classOf), NEW s \in Identity!Settled, r.id = s.id
      PROVE  r = s
  <2>1. PICK i \in 1 .. Len(Q) : r = Of(Q[i])
    BY <1>8 DEF Identity!Range
  <2>2. PICK p \in old["profiles"] : s.id = p.id /\ s = Of(p)
    BY <1>7
  <2>3. Q[i] \in tables["profiles"] /\ p \in tables["profiles"] /\ NoIdTwice(tables["profiles"])
    BY <1>2, <1>3 DEF From
  <2>4. r.id = Q[i].id
    BY <2>1
  <2>5. Q[i] = p
    BY <1>9, <2>2, <2>3, <2>4 DEF NoIdTwice
  <2> QED
    BY <2>1, <2>2, <2>5
<1>10. ASSUME Identity!Fits("profiles"), NEW i \in DOMAIN classOf, NEW j \in DOMAIN classOf,
              classOf[i].id = classOf[j].id
       PROVE  i = j
  <2>1. i \in 1 .. Len(Q) /\ j \in 1 .. Len(Q) /\ IdsAreUnique(Q)
    BY <1>2, <1>3, <1>8, <1>10
  <2>2. \A p : Of(p).id = p.id
    OBVIOUS
  <2> HIDE DEF Of, Q
  <2>3. classOf[i].id = Q[i].id /\ classOf[j].id = Q[j].id
    BY <1>8, <2>1, <2>2
  <2> QED
    BY <1>10, <2>1, <2>3 DEF IdsAreUnique
<1>11. ASSUME Identity!Fits("profiles"), NEW s \in Identity!Settled
       PROVE  s \in Identity!Range(classOf)
  <2>1. PICK p \in old["profiles"] : s = Of(p)
    BY <1>7
  <2>2. PICK i \in 1 .. Len(Q) : Q[i] = p
    BY <1>2, <1>3, <1>11 DEF Has
  <2>3. classOf[i] = s /\ i \in DOMAIN classOf
    BY <1>8, <2>1, <2>2
  <2> QED
    BY <2>3 DEF Identity!Range
<1> QED
  BY <1>9, <1>10, <1>11

\* The inductive invariant of the export of identities.
THEOREM IdentitiesInvariant == AllSpec => []IdentitiesInv
<1>1. AllInit => IdentitiesInv
  BY IdentitiesInitInv DEF AllInit
<1>2. IdentitiesInv /\ [AllNext]_<<vars, estateVars>> => IdentitiesInv'
  BY EstateNextKeepsInv
<1> QED
  BY <1>1, <1>2, PTL DEF AllSpec

\* Whatever identities are registered while the three tables are read at different times, and
\* in whatever orders they are listed: as long as wallets and users fit a page, a profile whose
\* class is the same when the export begins and when it ends is reported with no other class,
\* and once, if the profiles fit a page too.
THEOREM IdentitiesAreReportedHolds == AllSpec => []IdentitiesAreReported
BY IdentitiesInvariant, StableAreReported, PTL
=============================================================================
