---------------------------- MODULE SystemProofs ----------------------------
(***************************************************************************)
(* For any trees, users, programs, amounts and remaining accounts: every   *)
(* leaf is hashed with the index it is appended at, and the SOL pool holds *)
(* exactly what the accounts that exist are worth and what was             *)
(* decompressed to the pool itself.                                        *)
(***************************************************************************)
EXTENDS CpiTest, SumTheorems, SequenceTheorems

\* The keys that an account may name as its owner, a fee payer's included.
Owner == User \cup Program \cup Payer

Leaf ==
    [tree : Tree, leaf_index : Nat, owner : Owner, lamports : Nat,
     address : Address \cup {None}, data : BOOLEAN]

SystemTypeOK ==
    /\ trees \in [Tree -> Seq(Leaf)]
    /\ nullified \subseteq Leaves
    /\ IsFiniteSet(Leaves)
    /\ sol_pool \in Nat
    /\ returned \in Nat

\* The accounts have addresses that were created.
AddressesKnown == \A l \in Leaves : l.address # None => l.address \in addresses

SInv == SystemTypeOK /\ HashedWhereAppended /\ PoolBacksAccounts /\ AddressesKnown

\* The step of AddressMoves.
Moves ==
    /\ \A l \in Leaves' \ Leaves :
        \/ l.address \in {None} \cup (addresses' \ addresses)
        \/ \E m \in nullified' \ nullified : l.address = m.address
    /\ AddressUnique /\ NoneLast(listed') => AddressUnique'

-----------------------------------------------------------------------------
\* The recursion of Batch is defined.
IsBatch(b, h, t) ==
    b = [j \in 0 .. Len(h) |->
            IF j = 0 THEN <<>>
            ELSE IF h[j].tree = t THEN Append(b[j - 1], h[j]) ELSE b[j - 1]]

\* Batch is the last value of its recursion.
LEMMA BatchExists ==
    ASSUME NEW h \in Seq(Leaf), NEW t
    PROVE  \E b : IsBatch(b, h, t) /\ Batch(h, t) = b[Len(h)]
<1> DEFINE n == Len(h)
           V == Seq(Leaf)
           x == <<>>
           F == [j \in 1 .. n |-> [v \in V |-> IF h[j].tree = t THEN Append(v, h[j]) ELSE v]]
<1>1. n \in Nat /\ \A j \in 1 .. n : h[j] \in Leaf
  BY LenProperties, ElementOfSeq
<1>2. x \in V /\ n \in Nat
  BY EmptySeq, LenProperties
<1>3. Rounds(F, n, V)
  BY <1>1, AppendProperties DEF Rounds
<1>4. PICK b : Computes(b, x, F, n, V)
  <2> HIDE DEF n, V, F, x
  <2> QED
    BY <1>2, <1>3, RecursionExists
<1>5. \A j \in 1 .. n : b[j] = IF h[j].tree = t THEN Append(b[j - 1], h[j]) ELSE b[j - 1]
  <2>1. TAKE j \in 1 .. n
  <2>2. b[j - 1] \in V /\ b[j] = F[j][b[j - 1]]
    <3> HIDE DEF n, V, F
    <3> QED
      BY <1>2, <1>4 DEF Computes
  <2> QED
    BY <2>2
<1>6. b = [j \in 0 .. n |->
            IF j = 0 THEN <<>>
            ELSE IF h[j].tree = t THEN Append(b[j - 1], h[j]) ELSE b[j - 1]]
  <2>1. \A j \in 0 .. n : b[j] = IF j = 0 THEN <<>>
            ELSE IF h[j].tree = t THEN Append(b[j - 1], h[j]) ELSE b[j - 1]
    <3>1. b[0] = <<>>
      BY <1>4 DEF Computes
    <3>2. \A j \in 0 .. n : j = 0 \/ j \in 1 .. n
      BY <1>2
    <3> HIDE DEF n, V, F
    <3> QED
      BY <1>5, <3>1, <3>2
  <2>2. b \in [0 .. n -> V]
    BY <1>4 DEF Computes
  <2> HIDE DEF V, F, n
  <2> QED
    BY <2>1, <2>2
<1>7. \E c : IsBatch(c, h, t)
  BY <1>6 DEF IsBatch
<1> DEFINE d == CHOOSE c : IsBatch(c, h, t)
<1>8. IsBatch(d, h, t)
  BY <1>7, Zenon
<1>9. Batch(h, t) = d[n]
  BY DEF Batch, IsBatch
<1> QED
  BY <1>8, <1>9

\* Those of the first m hashes that are for tree t.
Earlier(h, m, t) == {i \in 1 .. m : h[i].tree = t}

\* c holds them in their order: each at the place that its number among them gives.
Collects(c, h, m, t) ==
    /\ c \in Seq(Leaf)
    /\ Len(c) = Cardinality(Earlier(h, m, t))
    /\ \A k \in 1 .. Len(c) : \E j \in 1 .. m :
        c[k] = h[j] /\ h[j].tree = t /\ k = Cardinality(Earlier(h, j - 1, t)) + 1
    /\ \A j \in 1 .. m : h[j].tree = t => \E k \in 1 .. Len(c) : c[k] = h[j]

\* Every prefix of the hashes has finitely many for the tree.
LEMMA EarlierFinite ==
    ASSUME NEW h, NEW t, NEW m \in Nat
    PROVE  IsFiniteSet(Earlier(h, m, t)) /\ Cardinality(Earlier(h, m, t)) \in Nat
<1>1. IsFiniteSet(1 .. m)
  BY FS_Interval
<1>2. IsFiniteSet(Earlier(h, m, t))
  BY <1>1, FS_Subset DEF Earlier
<1> QED
  BY <1>2, FS_CardinalityType

\* One round of Batch.
LEMMA CollectsRound ==
    ASSUME NEW h \in Seq(Leaf), NEW t, NEW m \in 1 .. Len(h), NEW c, Collects(c, h, m - 1, t)
    PROVE  Collects(IF h[m].tree = t THEN Append(c, h[m]) ELSE c, h, m, t)
<1>1. Len(h) \in Nat /\ m - 1 \in Nat /\ h[m] \in Leaf
  BY LenProperties, ElementOfSeq
<1>2. /\ c \in Seq(Leaf) /\ Len(c) \in Nat
      /\ Len(c) = Cardinality(Earlier(h, m - 1, t))
  BY LenProperties DEF Collects
<1>3. \A j \in 1 .. m : j = m \/ j \in 1 .. m - 1
  BY <1>1
<1>4. CASE h[m].tree = t
  <2> DEFINE d == Append(c, h[m])
  <2>1. /\ d \in Seq(Leaf) /\ Len(d) = Len(c) + 1
        /\ \A i \in 1 .. Len(c) : d[i] = c[i]
        /\ d[Len(c) + 1] = h[m]
    BY <1>1, <1>2, AppendProperties
  <2> HIDE DEF d
  <2>2. Earlier(h, m, t) = Earlier(h, m - 1, t) \cup {m} /\ m \notin Earlier(h, m - 1, t)
    BY <1>1, <1>3, <1>4 DEF Earlier
  <2>3. Len(d) = Cardinality(Earlier(h, m, t))
    BY <1>1, <1>2, <2>1, <2>2, EarlierFinite, FS_AddElement
  <2>4. ASSUME NEW k \in 1 .. Len(d)
        PROVE  \E j \in 1 .. m :
                d[k] = h[j] /\ h[j].tree = t /\ k = Cardinality(Earlier(h, j - 1, t)) + 1
    <3>1. CASE k = Len(c) + 1
      BY <1>1, <1>2, <1>4, <2>1, <3>1
    <3>2. CASE k \in 1 .. Len(c)
      <4>1. PICK j \in 1 .. m - 1 :
                c[k] = h[j] /\ h[j].tree = t /\ k = Cardinality(Earlier(h, j - 1, t)) + 1
        BY <3>2 DEF Collects
      <4>2. j \in 1 .. m /\ d[k] = h[j]
        BY <1>1, <2>1, <3>2, <4>1
      <4> QED
        BY <4>1, <4>2
    <3> QED
      BY <1>2, <2>1, <3>1, <3>2
  <2>5. ASSUME NEW j \in 1 .. m, h[j].tree = t
        PROVE  \E k \in 1 .. Len(d) : d[k] = h[j]
    <3>1. CASE j = m
      BY <1>2, <2>1, <3>1
    <3>2. CASE j \in 1 .. m - 1
      <4>1. PICK k \in 1 .. Len(c) : c[k] = h[j]
        BY <2>5, <3>2 DEF Collects
      <4> QED
        BY <1>2, <2>1, <4>1
    <3> QED
      BY <1>3, <3>1, <3>2
  <2>6. Collects(d, h, m, t)
    BY <2>1, <2>3, <2>4, <2>5 DEF Collects
  <2> QED
    BY <1>4, <2>6 DEF d
<1>5. CASE h[m].tree # t
  <2>1. Earlier(h, m, t) = Earlier(h, m - 1, t)
    BY <1>1, <1>3, <1>5 DEF Earlier
  <2>2. \A j \in 1 .. m - 1 : j \in 1 .. m
    BY <1>1
  <2>3. \A j \in 1 .. m : h[j].tree = t => j \in 1 .. m - 1
    BY <1>3, <1>5
  <2>4. Collects(c, h, m, t)
    BY <1>2, <2>1, <2>2, <2>3 DEF Collects
  <2> QED
    BY <1>5, <2>4
<1> QED
  BY <1>4, <1>5

\* The batch of a tree holds the hashes for that tree, in their order.
LEMMA BatchCollects ==
    ASSUME NEW h \in Seq(Leaf), NEW t
    PROVE  Collects(Batch(h, t), h, Len(h), t)
<1> DEFINE n == Len(h)
<1>1. n \in Nat
  BY LenProperties
<1>2. PICK b : IsBatch(b, h, t) /\ Batch(h, t) = b[n]
  BY BatchExists
<1>3. /\ b[0] = <<>>
      /\ \A j \in 1 .. n : b[j] = IF h[j].tree = t THEN Append(b[j - 1], h[j]) ELSE b[j - 1]
  <2>1. 0 \in 0 .. n /\ \A j \in 1 .. n : j \in 0 .. n /\ j # 0
    BY <1>1
  <2> QED
    BY <1>2, <2>1 DEF IsBatch
<1> DEFINE Bad == {m \in 0 .. n : ~Collects(b[m], h, m, t)}
<1>4. SUFFICES ASSUME Bad # {} PROVE FALSE
  <2>1. n \in 0 .. n
    BY <1>1
  <2> QED
    BY <1>2, <2>1
<1>5. PICK m \in Bad : \A k \in Bad : m <= k
  <2>1. Bad \subseteq Nat
    BY <1>1
  <2> HIDE DEF Bad
  <2> QED
    BY <1>4, <2>1, LeastNumber
<1>6. m \in 0 .. n /\ ~Collects(b[m], h, m, t)
  OBVIOUS
<1>7. CASE m = 0
  <2>1. Earlier(h, 0, t) = {} /\ \A j : j \notin 1 .. 0
    BY DEF Earlier
  <2>2. <<>> \in Seq(Leaf) /\ Len(<<>>) = 0
    BY EmptySeq
  <2>3. Collects(<<>>, h, 0, t)
    BY <2>1, <2>2, FS_EmptySet DEF Collects
  <2> QED
    BY <1>3, <1>6, <1>7, <2>3
<1>8. CASE m # 0
  <2>1. m \in 1 .. n /\ m - 1 \in 0 .. n /\ ~(m <= m - 1)
    BY <1>1, <1>6, <1>8
  <2>2. m - 1 \notin Bad
    <3> HIDE DEF Bad
    <3> QED
      BY <1>5, <2>1
  <2>3. Collects(b[m - 1], h, m - 1, t)
    BY <2>1, <2>2
  <2>4. b[m] = IF h[m].tree = t THEN Append(b[m - 1], h[m]) ELSE b[m - 1]
    BY <1>3, <2>1
  <2> QED
    BY <1>6, <2>1, <2>3, <2>4, CollectsRound
<1> QED
  BY <1>7, <1>8

-----------------------------------------------------------------------------
\* The lamports of leaves, and what a set of leaves is worth.
Worth == [l \in Leaf |-> l.lamports]
Value(S) == SumFunctionOnSet(Worth, S)

\* A leaf is worth its lamports.
LEMMA WorthIsLamports ==
    ASSUME NEW l \in Leaf
    PROVE  Worth[l] = l.lamports /\ Worth[l] \in Nat
  BY DEF Worth, Leaf

\* The recursion of Total is defined.
IsTotal(s, a) == s = [i \in 0 .. Len(a) |-> IF i = 0 THEN 0 ELSE s[i - 1] + a[i].lamports]

\* Total is the last value of its recursion.
LEMMA TotalExists ==
    ASSUME NEW a, Len(a) \in Nat, \A i \in 1 .. Len(a) : a[i].lamports \in Nat
    PROVE  \E s : IsTotal(s, a) /\ Total(a) = s[Len(a)]
<1> DEFINE n == Len(a)
           F == [i \in 1 .. n |-> [v \in Nat |-> v + a[i].lamports]]
<1>1. n \in Nat /\ Rounds(F, n, Nat)
  BY DEF Rounds
<1>2. PICK b : Computes(b, 0, F, n, Nat)
  <2> HIDE DEF n, F
  <2> QED
    BY <1>1, RecursionExists
<1>3. b \in [0 .. n -> Nat] /\ b[0] = 0
  BY <1>2 DEF Computes
<1>4. ASSUME NEW i \in 1 .. n PROVE b[i] = b[i - 1] + a[i].lamports
  <2>1. b[i - 1] \in Nat /\ b[i] = F[i][b[i - 1]]
    <3> HIDE DEF n, F
    <3> QED
      BY <1>1, <1>2, <1>3 DEF Computes
  <2> QED
    BY <2>1
<1>5. IsTotal(b, a)
  <2>1. ASSUME NEW i \in 0 .. n
        PROVE  b[i] = IF i = 0 THEN 0 ELSE b[i - 1] + a[i].lamports
    <3>1. i = 0 \/ i \in 1 .. n
      BY <1>1
    <3> HIDE DEF n, F
    <3> QED
      BY <1>3, <1>4, <3>1
  <2> QED
    BY <1>3, <2>1 DEF IsTotal
<1> DEFINE d == CHOOSE c : IsTotal(c, a)
<1>6. IsTotal(d, a)
  BY <1>5, Zenon
<1>7. Total(a) = d[n]
  BY DEF Total, IsTotal
<1> QED
  BY <1>6, <1>7

\* The first m leaves.
First(h, m) == {h[i] : i \in 1 .. m}

\* The total of a list is the value of the set of leaves that have the same
\* lamports, if these are all different.
LEMMA TotalIsValue ==
    ASSUME NEW h \in Seq(Leaf), \A i, j \in 1 .. Len(h) : h[i] = h[j] => i = j,
           NEW a, Len(a) = Len(h), \A i \in 1 .. Len(h) : a[i].lamports = h[i].lamports
    PROVE  IsFiniteSet(First(h, Len(h))) /\ Total(a) = Value(First(h, Len(h)))
<1> DEFINE n == Len(h)
           Good(s, m) == IsFiniteSet(First(h, m)) /\ s[m] = Value(First(h, m))
<1>1. n \in Nat /\ Len(a) = n /\ \A i \in 1 .. n : h[i] \in Leaf
  BY LenProperties, ElementOfSeq
<1>2. \A i \in 1 .. n : a[i].lamports = Worth[h[i]] /\ Worth[h[i]] \in Nat
  BY <1>1, WorthIsLamports
<1>3. PICK s : IsTotal(s, a) /\ Total(a) = s[n]
  BY <1>1, <1>2, TotalExists
<1>4. /\ s[0] = 0
      /\ \A i \in 1 .. n : s[i] = s[i - 1] + a[i].lamports
  <2>1. 0 \in 0 .. n /\ \A i \in 1 .. n : i \in 0 .. n /\ i # 0
    BY <1>1
  <2> QED
    BY <1>1, <1>3, <2>1 DEF IsTotal
<1> DEFINE Bad == {m \in 0 .. n : ~Good(s, m)}
<1>5. SUFFICES ASSUME Bad # {} PROVE FALSE
  <2>1. n \in 0 .. n
    BY <1>1
  <2> QED
    BY <1>3, <2>1
<1>6. PICK m \in Bad : \A k \in Bad : m <= k
  <2>1. Bad \subseteq Nat
    BY <1>1
  <2> HIDE DEF Bad
  <2> QED
    BY <1>5, <2>1, LeastNumber
<1>7. m \in 0 .. n /\ ~Good(s, m)
  OBVIOUS
<1>8. CASE m = 0
  <2>1. First(h, 0) = {}
    BY DEF First
  <2>2. IsFiniteSet(First(h, 0)) /\ Value(First(h, 0)) = 0
    BY <2>1, FS_EmptySet, SumEmpty DEF Value
  <2> QED
    BY <1>4, <1>7, <1>8, <2>2
<1>9. CASE m # 0
  <2>1. m \in 1 .. n /\ m - 1 \in 0 .. n /\ ~(m <= m - 1)
    BY <1>1, <1>7, <1>9
  <2>2. m - 1 \notin Bad
    <3> HIDE DEF Bad
    <3> QED
      BY <1>6, <2>1
  <2>3. IsFiniteSet(First(h, m - 1)) /\ s[m - 1] = Value(First(h, m - 1))
    BY <2>1, <2>2
  <2>4. First(h, m) = First(h, m - 1) \cup {h[m]}
    <3>1. \A i : i \in 1 .. m <=> i \in 1 .. m - 1 \/ i = m
      BY <1>1, <2>1
    <3> QED
      BY <3>1 DEF First
  <2>5. h[m] \notin First(h, m - 1)
    <3>1. \A i \in 1 .. m - 1 : i \in 1 .. n /\ i # m
      BY <1>1, <2>1
    <3> QED
      BY <2>1, <3>1 DEF First
  <2>6. First(h, m) \ {h[m]} = First(h, m - 1) /\ h[m] \in First(h, m)
    BY <2>4, <2>5
  <2>7. IsFiniteSet(First(h, m))
    <3>1. IsFiniteSet(First(h, m - 1) \cup {h[m]})
      BY <2>3, FS_AddElement
    <3> QED
      BY <2>4, <3>1
  <2>8. \A l \in First(h, m) : Worth[l] \in Nat
    <3>1. \A i \in 1 .. m : i \in 1 .. n
      BY <1>1, <2>1
    <3> QED
      BY <1>2, <3>1 DEF First
  <2>9. Value(First(h, m)) = Worth[h[m]] + Value(First(h, m) \ {h[m]})
    BY <2>6, <2>7, <2>8, SumSplit DEF Value
  <2>10. Value(First(h, m - 1)) \in Nat
    <3>1. \A l \in First(h, m - 1) : Worth[l] \in Nat
      BY <2>4, <2>8
    <3> QED
      BY <2>3, <3>1, SumType DEF Value
  <2>11. s[m] = s[m - 1] + Worth[h[m]]
    BY <1>2, <1>4, <2>1
  <2>12. s[m] = Value(First(h, m))
    <3>1. Value(First(h, m)) = Worth[h[m]] + Value(First(h, m - 1))
      BY <2>6, <2>9
    <3>2. Worth[h[m]] \in Nat
      BY <1>2, <2>1
    <3> QED
      BY <2>3, <2>10, <2>11, <3>1, <3>2
  <2> QED
    BY <1>7, <2>7, <2>12
<1> QED
  BY <1>8, <1>9

-----------------------------------------------------------------------------
\* The outputs of an instruction, each for a tree among the remaining accounts.
OutputAccount ==
    [merkle_tree_index : Nat, owner : Owner, lamports : Nat,
     address : Address \cup {None}, data : BOOLEAN]

OutputsOK(outputs, remaining) ==
    /\ outputs \in Seq(OutputAccount)
    /\ \A j \in 1 .. Len(outputs) : outputs[j].merkle_tree_index + 1 \in 1 .. Len(remaining)

\* The hashes of the outputs are leaves, each with the fields it is hashed from.
LEMMA HashesType ==
    ASSUME trees \in [Tree -> Seq(Leaf)], NEW remaining \in Seq(Tree), NEW outputs,
           OutputsOK(outputs, remaining)
    PROVE  LET h == Hashes(outputs, remaining)
           IN  /\ h \in Seq(Leaf) /\ Len(h) = Len(outputs) /\ Len(h) \in Nat
               /\ \A j \in 1 .. Len(h) :
                    /\ h[j].tree = TreeAt(remaining, outputs[j].merkle_tree_index)
                    /\ h[j].leaf_index = LeafIndex(outputs, j, remaining)
                    /\ h[j].lamports = outputs[j].lamports
<1> DEFINE n == Len(outputs)
           h == Hashes(outputs, remaining)
<1>1. n \in Nat /\ DOMAIN outputs = 1 .. n /\ \A j \in 1 .. n : outputs[j] \in OutputAccount
  BY LenProperties, ElementOfSeq DEF OutputsOK
<1>2. ASSUME NEW j \in 1 .. n
      PROVE  /\ TreeAt(remaining, outputs[j].merkle_tree_index) \in Tree
             /\ LeafIndex(outputs, j, remaining) \in Nat
  <2> DEFINE t == TreeAt(remaining, outputs[j].merkle_tree_index)
             E == {i \in 1 .. j - 1 :
                    outputs[i].merkle_tree_index = outputs[j].merkle_tree_index}
  <2>1. t \in Tree
    BY <1>1, ElementOfSeq DEF TreeAt, OutputsOK
  <2>2. Len(trees[t]) \in Nat
    BY <2>1, LenProperties
  <2>3. IsFiniteSet(1 .. j - 1) /\ E \subseteq 1 .. j - 1
    <3>1. j - 1 \in Int /\ 1 \in Int
      BY <1>1
    <3>2. IsFiniteSet(1 .. j - 1)
      BY <3>1, FS_Interval
    <3> QED
      BY <3>2
  <2>4. Cardinality(E) \in Nat
    BY <2>3, FS_Subset, FS_CardinalityType
  <2>5. LeafIndex(outputs, j, remaining) = Len(trees[t]) + Cardinality(E)
    BY DEF LeafIndex
  <2> HIDE DEF t, E
  <2>6. LeafIndex(outputs, j, remaining) \in Nat
    BY <2>2, <2>4, <2>5
  <2> QED
    BY <2>1, <2>6 DEF t
<1>3. ASSUME NEW j \in 1 .. n
      PROVE  /\ h[j] \in Leaf
             /\ h[j].tree = TreeAt(remaining, outputs[j].merkle_tree_index)
             /\ h[j].leaf_index = LeafIndex(outputs, j, remaining)
             /\ h[j].lamports = outputs[j].lamports
  <2>1. h[j] = Hash(outputs[j], TreeAt(remaining, outputs[j].merkle_tree_index),
                    LeafIndex(outputs, j, remaining))
    BY <1>1 DEF Hashes, HashOf
  <2>2. /\ outputs[j].owner \in Owner /\ outputs[j].lamports \in Nat
        /\ outputs[j].address \in Address \cup {None} /\ outputs[j].data \in BOOLEAN
    BY <1>1 DEF OutputAccount
  <2> QED
    BY <1>2, <2>1, <2>2 DEF Hash, Leaf
<1>4. DOMAIN h = 1 .. n
  BY <1>1 DEF Hashes
<1>5. h \in [1 .. n -> Leaf]
  <2>1. h = [j \in 1 .. n |-> h[j]]
    BY <1>1 DEF Hashes
  <2> HIDE DEF h, n
  <2> QED
    BY <1>3, <2>1
<1> HIDE DEF h
<1>6. h \in Seq(Leaf)
  BY <1>1, <1>5, SeqDef
<1>7. Len(h) = n
  BY <1>1, <1>4, <1>6, LenProperties
<1> QED
  BY <1>1, <1>3, <1>6, <1>7 DEF h

\* The index an output is hashed with counts the outputs before it for the same tree.
LEMMA LeafIndexCounts ==
    ASSUME trees \in [Tree -> Seq(Leaf)], NEW remaining \in Seq(Tree), NEW outputs,
           OutputsOK(outputs, remaining), TreesOrdered(outputs, remaining),
           NEW h, h = Hashes(outputs, remaining), NEW j \in 1 .. Len(h)
    PROVE  h[j].leaf_index
            = Len(trees[h[j].tree]) + Cardinality(Earlier(h, j - 1, h[j].tree))
<1> DEFINE index(i) == outputs[i].merkle_tree_index
<1>1. /\ h \in Seq(Leaf) /\ Len(h) = Len(outputs) /\ Len(h) \in Nat
      /\ DOMAIN outputs = 1 .. Len(h)
      /\ \A i \in 1 .. Len(h) : h[i].tree = TreeAt(remaining, index(i))
      /\ h[j].leaf_index = LeafIndex(outputs, j, remaining)
  <2>1. outputs \in Seq(OutputAccount)
    BY Zenon DEF OutputsOK
  <2>2. DOMAIN outputs = 1 .. Len(outputs)
    BY <2>1, LenProperties
  <2>3. /\ h \in Seq(Leaf) /\ Len(h) = Len(outputs) /\ Len(h) \in Nat
        /\ \A i \in 1 .. Len(h) :
             /\ h[i].tree = TreeAt(remaining, outputs[i].merkle_tree_index)
             /\ h[i].leaf_index = LeafIndex(outputs, i, remaining)
    BY HashesType, Zenon
  <2> QED
    BY <2>2, <2>3, Zenon
<1>2. ASSUME NEW i \in 1 .. Len(h)
      PROVE  h[i].tree = h[j].tree <=> index(i) = index(j)
  <2>1. i \in DOMAIN outputs /\ j \in DOMAIN outputs
    BY <1>1
  <2>2. index(i) # index(j) => TreeAt(remaining, index(i)) # TreeAt(remaining, index(j))
    BY <2>1, Zenon DEF TreesOrdered
  <2>3. h[i].tree = TreeAt(remaining, index(i)) /\ h[j].tree = TreeAt(remaining, index(j))
    BY <1>1
  <2> QED
    BY <2>2, <2>3
<1>3. Earlier(h, j - 1, h[j].tree) = {i \in 1 .. j - 1 : index(i) = index(j)}
  <2>1. \A i \in 1 .. j - 1 : i \in 1 .. Len(h)
    BY <1>1
  <2> QED
    BY <1>2, <2>1 DEF Earlier
<1> QED
  BY <1>1, <1>3 DEF LeafIndex

\* No two outputs have the same hash.
LEMMA HashesDifferent ==
    ASSUME trees \in [Tree -> Seq(Leaf)], NEW remaining \in Seq(Tree), NEW outputs,
           OutputsOK(outputs, remaining), TreesOrdered(outputs, remaining),
           NEW h, h = Hashes(outputs, remaining),
           NEW i \in 1 .. Len(h), NEW j \in 1 .. Len(h), i < j
    PROVE  h[i] # h[j]
<1> DEFINE t == h[j].tree
<1>1. h \in Seq(Leaf) /\ Len(h) \in Nat /\ h[i] \in Leaf /\ h[j] \in Leaf
  BY HashesType, ElementOfSeq
<1>2. SUFFICES ASSUME h[i] = h[j] PROVE FALSE
  OBVIOUS
<1>3. Len(trees[t]) \in Nat
  BY <1>1, LenProperties DEF Leaf
<1>4. /\ h[i].leaf_index = Len(trees[t]) + Cardinality(Earlier(h, i - 1, t))
      /\ h[j].leaf_index = Len(trees[t]) + Cardinality(Earlier(h, j - 1, t))
  BY <1>2, LeafIndexCounts
<1>5. i - 1 \in Nat /\ j - 1 \in Nat
  BY <1>1
<1>6. /\ IsFiniteSet(Earlier(h, j - 1, t))
      /\ Cardinality(Earlier(h, i - 1, t)) \in Nat
      /\ Cardinality(Earlier(h, j - 1, t)) \in Nat
  BY <1>5, EarlierFinite
<1>7. Cardinality(Earlier(h, i - 1, t)) = Cardinality(Earlier(h, j - 1, t))
  BY <1>2, <1>3, <1>4, <1>6
<1>8. Earlier(h, i - 1, t) \subseteq Earlier(h, j - 1, t)
  BY <1>5 DEF Earlier
<1>9. Earlier(h, i - 1, t) = Earlier(h, j - 1, t)
  BY <1>6, <1>7, <1>8, FS_Subset
<1>10. i \in Earlier(h, j - 1, t) /\ i \notin Earlier(h, i - 1, t)
  BY <1>1, <1>2 DEF Earlier
<1> QED
  BY <1>9, <1>10

\* The leaves are those of the trees.
LEMMA LeavesOfTrees ==
    ASSUME trees \in [Tree -> Seq(Leaf)]
    PROVE  /\ \A l : l \in Leaves <=> \E t \in Tree : \E i \in 1 .. Len(trees[t]) : l = trees[t][i]
           /\ Leaves \subseteq Leaf
<1>1. \A t \in Tree : trees[t] \in Seq(Leaf) /\ DOMAIN trees[t] = 1 .. Len(trees[t])
  BY LenProperties
<1>2. \A l : l \in Leaves <=> \E t \in Tree : \E i \in 1 .. Len(trees[t]) : l = trees[t][i]
  BY <1>1 DEF Leaves, Range
<1>3. \A t \in Tree : \A i \in 1 .. Len(trees[t]) : trees[t][i] \in Leaf
  BY <1>1, ElementOfSeq
<1> QED
  BY <1>2, <1>3

\* The hashes for tree t, of h, come behind the leaves it has.
AppendsTo(t, h) ==
    LET b == Batch(h, t)
        n == Len(trees[t])
    IN  /\ trees'[t] \in Seq(Leaf) /\ n \in Nat
        /\ Len(b) \in Nat /\ Len(trees'[t]) = n + Len(b)
        /\ DOMAIN trees'[t] = 1 .. n + Len(b)
        /\ \A i \in 1 .. n : trees'[t][i] = trees[t][i]
        /\ \A i \in n + 1 .. n + Len(b) : trees'[t][i] = b[i - n]
        /\ Collects(b, h, Len(h), t)

\* What appending the outputs does to the trees.
LEMMA AppendedTree ==
    ASSUME trees \in [Tree -> Seq(Leaf)], NEW remaining \in Seq(Tree), NEW outputs,
           OutputsOK(outputs, remaining), append_outputs(outputs, remaining),
           NEW t \in Tree
    PROVE  AppendsTo(t, Hashes(outputs, remaining))
<1> DEFINE h == Hashes(outputs, remaining)
           b == Batch(h, t)
           n == Len(trees[t])
<1>1. h \in Seq(Leaf)
  BY HashesType
<1>2. Collects(b, h, Len(h), t)
  BY <1>1, BatchCollects
<1>3. b \in Seq(Leaf) /\ Len(b) \in Nat /\ trees[t] \in Seq(Leaf) /\ n \in Nat
  BY <1>2, LenProperties DEF Collects
<1>4. trees'[t] = trees[t] \o b
  BY DEF append_outputs, Appended
<1>5. /\ trees[t] \o b \in Seq(Leaf) /\ Len(trees[t] \o b) = n + Len(b)
      /\ \A i \in 1 .. n + Len(b) : (trees[t] \o b)[i] = IF i <= n THEN trees[t][i] ELSE b[i - n]
  BY <1>3, ConcatProperties
<1>6. /\ trees'[t] \in Seq(Leaf) /\ Len(trees'[t]) = n + Len(b)
      /\ \A i \in 1 .. n + Len(b) : trees'[t][i] = IF i <= n THEN trees[t][i] ELSE b[i - n]
  BY <1>4, <1>5
<1>7. DOMAIN trees'[t] = 1 .. n + Len(b)
  BY <1>6, LenProperties
<1> HIDE DEF b, n
<1>8. /\ \A i \in 1 .. n : trees'[t][i] = trees[t][i]
      /\ \A i \in n + 1 .. n + Len(b) : trees'[t][i] = b[i - n]
  <2>1. ASSUME NEW i \in 1 .. n PROVE trees'[t][i] = trees[t][i]
    <3>1. i \in 1 .. n + Len(b) /\ i <= n
      BY <1>3
    <3> QED
      BY <1>6, <3>1
  <2>2. ASSUME NEW i \in n + 1 .. n + Len(b) PROVE trees'[t][i] = b[i - n]
    <3>1. i \in 1 .. n + Len(b) /\ ~(i <= n)
      BY <1>3
    <3> QED
      BY <1>6, <3>1
  <2> QED
    BY <2>1, <2>2
<1> QED
  BY <1>2, <1>3, <1>6, <1>7, <1>8 DEF AppendsTo, b, n

\* The new leaves sit where they are hashed for, as the old ones do.
LEMMA AppendedWhereHashed ==
    ASSUME trees \in [Tree -> Seq(Leaf)], HashedWhereAppended,
           NEW remaining \in Seq(Tree), NEW outputs, OutputsOK(outputs, remaining),
           TreesOrdered(outputs, remaining), append_outputs(outputs, remaining)
    PROVE  trees' \in [Tree -> Seq(Leaf)] /\ HashedWhereAppended'
<1> DEFINE h == Hashes(outputs, remaining)
<1>1. trees' \in [Tree -> Seq(Leaf)]
  <2>1. trees' = [t \in Tree |-> trees[t] \o Batch(h, t)]
    BY DEF append_outputs, Appended
  <2>2. trees' = [t \in Tree |-> trees'[t]]
    BY <2>1
  <2>3. \A t \in Tree : trees'[t] \in Seq(Leaf)
    BY AppendedTree DEF AppendsTo
  <2> QED
    BY <2>2, <2>3
<1>2. ASSUME NEW t \in Tree, NEW i \in DOMAIN trees'[t]
      PROVE  trees'[t][i].tree = t /\ trees'[t][i].leaf_index = i - 1
  <2> DEFINE b == Batch(h, t)
             n == Len(trees[t])
  <2>1. /\ n \in Nat /\ Len(b) \in Nat
        /\ DOMAIN trees'[t] = 1 .. n + Len(b)
        /\ \A k \in 1 .. n : trees'[t][k] = trees[t][k]
        /\ \A k \in n + 1 .. n + Len(b) : trees'[t][k] = b[k - n]
        /\ Collects(b, h, Len(h), t)
    BY AppendedTree DEF AppendsTo
  <2>2. CASE i \in 1 .. n
    <3>1. i \in DOMAIN trees[t]
      BY <2>2, LenProperties
    <3> QED
      BY <2>1, <2>2, <3>1 DEF HashedWhereAppended
  <2>3. CASE i \in n + 1 .. n + Len(b)
    <3>1. trees'[t][i] = b[i - n]
      BY <2>1, <2>3
    <3>2. i - n \in 1 .. Len(b)
      BY <2>1, <2>3
    <3>3. PICK j \in 1 .. Len(h) :
            b[i - n] = h[j] /\ h[j].tree = t /\ i - n = Cardinality(Earlier(h, j - 1, t)) + 1
      <4> HIDE DEF b, h, n
      <4> QED
        BY <2>1, <3>2 DEF Collects
    <3>4. h[j].leaf_index = Len(trees[h[j].tree]) + Cardinality(Earlier(h, j - 1, h[j].tree))
      BY LeafIndexCounts
    <3>5. h[j].leaf_index = n + Cardinality(Earlier(h, j - 1, t))
      BY <3>3, <3>4
    <3>6. Cardinality(Earlier(h, j - 1, t)) = i - n - 1 /\ i \in Int
      <4>1. Len(h) \in Nat
        BY HashesType
      <4>2. j - 1 \in Nat
        BY <4>1
      <4>3. Cardinality(Earlier(h, j - 1, t)) \in Nat
        BY <4>2, EarlierFinite
      <4> HIDE DEF h, n
      <4> QED
        BY <2>1, <2>3, <3>3, <4>3
    <3>7. h[j].leaf_index = i - 1
      <4> HIDE DEF h, n
      <4> QED
        BY <2>1, <3>5, <3>6
    <3> QED
      BY <3>1, <3>3, <3>7
  <2>4. i \in 1 .. n \/ i \in n + 1 .. n + Len(b)
    <3> HIDE DEF b, n
    <3> QED
      BY <1>2, <2>1
  <2> QED
    BY <2>2, <2>3, <2>4
<1> QED
  BY <1>1, <1>2 DEF HashedWhereAppended

\* The leaves of the outputs are new, and are all that is added.
LEMMA AppendedLeaves ==
    ASSUME trees \in [Tree -> Seq(Leaf)], HashedWhereAppended,
           NEW remaining \in Seq(Tree), NEW outputs, OutputsOK(outputs, remaining),
           TreesOrdered(outputs, remaining), append_outputs(outputs, remaining),
           NEW h, h = Hashes(outputs, remaining)
    PROVE  /\ Leaves' = Leaves \cup First(h, Len(h))
           /\ Leaves \cap First(h, Len(h)) = {}
<1>0. \A t \in Tree : AppendsTo(t, h)
  BY AppendedTree
<1>1. /\ h \in Seq(Leaf) /\ Len(h) \in Nat
      /\ \A j \in 1 .. Len(h) : h[j] \in Leaf /\ h[j].tree \in Tree
  <2>1. h \in Seq(Leaf) /\ Len(h) \in Nat
    BY HashesType
  <2>2. \A j \in 1 .. Len(h) : h[j] \in Leaf
    BY <2>1, ElementOfSeq
  <2> QED
    BY <2>1, <2>2 DEF Leaf
<1>2. trees' \in [Tree -> Seq(Leaf)]
  BY AppendedWhereHashed
<1>3. \A l : l \in Leaves <=> \E t \in Tree : \E i \in 1 .. Len(trees[t]) : l = trees[t][i]
  BY LeavesOfTrees
<1>4. \A l : l \in Leaves' <=> \E t \in Tree : \E i \in 1 .. Len(trees'[t]) : l = trees'[t][i]
  <2>1. \A t \in Tree : DOMAIN trees'[t] = 1 .. Len(trees'[t])
    BY <1>2, LenProperties
  <2> QED
    BY <2>1 DEF Leaves, Range
<1>5. ASSUME NEW l \in Leaves' PROVE l \in Leaves \cup First(h, Len(h))
  <2>0. PICK t \in Tree : \E i \in 1 .. Len(trees'[t]) : l = trees'[t][i]
    BY <1>4
  <2>1. PICK i \in 1 .. Len(trees'[t]) : l = trees'[t][i]
    BY <2>0
  <2> DEFINE b == Batch(h, t)
             n == Len(trees[t])
  <2>2. /\ n \in Nat /\ Len(b) \in Nat /\ Len(trees'[t]) = n + Len(b)
        /\ \A k \in 1 .. n : trees'[t][k] = trees[t][k]
        /\ \A k \in n + 1 .. n + Len(b) : trees'[t][k] = b[k - n]
        /\ Collects(b, h, Len(h), t)
    BY <1>0 DEF AppendsTo
  <2>3. CASE i \in 1 .. n
    BY <1>3, <2>1, <2>2, <2>3
  <2>4. CASE i \in n + 1 .. n + Len(b)
    <3> HIDE DEF b, n
    <3>1. l = b[i - n] /\ i - n \in 1 .. Len(b)
      BY <2>1, <2>2, <2>4
    <3>2. PICK j \in 1 .. Len(h) : b[i - n] = h[j]
      BY <2>2, <3>1 DEF Collects
    <3> QED
      BY <3>1, <3>2 DEF First
  <2>5. i \in 1 .. n \/ i \in n + 1 .. n + Len(b)
    <3> HIDE DEF b, n
    <3> QED
      BY <2>2
  <2> QED
    BY <2>3, <2>4, <2>5
<1>6. ASSUME NEW l \in Leaves PROVE l \in Leaves'
  <2>0. PICK t \in Tree : \E i \in 1 .. Len(trees[t]) : l = trees[t][i]
    BY <1>3
  <2>1. PICK i \in 1 .. Len(trees[t]) : l = trees[t][i]
    BY <2>0
  <2>2. /\ Len(trees[t]) \in Nat /\ Len(Batch(h, t)) \in Nat
        /\ Len(trees'[t]) = Len(trees[t]) + Len(Batch(h, t))
        /\ \A k \in 1 .. Len(trees[t]) : trees'[t][k] = trees[t][k]
    BY <1>0 DEF AppendsTo
  <2>3. i \in 1 .. Len(trees'[t]) /\ l = trees'[t][i]
    BY <2>1, <2>2
  <2> QED
    BY <1>4, <2>3
<1>7. ASSUME NEW j \in 1 .. Len(h) PROVE h[j] \in Leaves' /\ h[j] \notin Leaves
  <2> DEFINE t == h[j].tree
             b == Batch(h, t)
             n == Len(trees[t])
  <2>1. t \in Tree
    BY <1>1
  <2>2. /\ n \in Nat /\ Len(b) \in Nat /\ Len(trees'[t]) = n + Len(b)
        /\ \A k \in n + 1 .. n + Len(b) : trees'[t][k] = b[k - n]
        /\ Collects(b, h, Len(h), t)
    BY <1>0, <2>1 DEF AppendsTo
  <2>3. h[j] \in Leaves'
    <3>1. PICK k \in 1 .. Len(b) : b[k] = h[j]
      BY <2>2 DEF Collects
    <3> HIDE DEF b, n
    <3>2. n + k \in n + 1 .. n + Len(b) /\ (n + k) - n = k /\ n + k \in 1 .. Len(trees'[t])
      BY <2>2
    <3>3. trees'[t][n + k] = h[j]
      BY <2>2, <3>1, <3>2
    <3> QED
      BY <1>4, <2>1, <3>2, <3>3
  <2>4. h[j].leaf_index >= n /\ h[j].leaf_index \in Nat
    <3>1. h[j].leaf_index = n + Cardinality(Earlier(h, j - 1, t))
      BY LeafIndexCounts
    <3>2. j - 1 \in Nat
      BY <1>1
    <3>3. Cardinality(Earlier(h, j - 1, t)) \in Nat
      BY <3>2, EarlierFinite
    <3> HIDE DEF t, n
    <3> QED
      BY <2>2, <3>1, <3>3
  <2>5. h[j] \notin Leaves
    <3>1. SUFFICES ASSUME NEW s \in Tree, NEW i \in 1 .. Len(trees[s]), h[j] = trees[s][i]
                   PROVE  FALSE
      BY <1>3
    <3>2. i \in DOMAIN trees[s] /\ Len(trees[s]) \in Nat
      BY LenProperties
    <3>3. trees[s][i].tree = s /\ trees[s][i].leaf_index = i - 1
      BY <3>2 DEF HashedWhereAppended
    <3>4. s = t /\ h[j].leaf_index = i - 1
      BY <3>1, <3>3
    <3>5. i - 1 < n
      BY <3>2, <3>4
    <3> HIDE DEF n
    <3> QED
      BY <2>2, <2>4, <3>2, <3>4, <3>5
  <2> QED
    BY <2>3, <2>5
<1> QED
  BY <1>5, <1>6, <1>7 DEF First

-----------------------------------------------------------------------------
\* What PoolBacksAccounts sums up is the value of the accounts that exist.
LEMMA SumIsValue ==
    ASSUME NEW S, IsFiniteSet(S), S \subseteq Leaf
    PROVE  SumFunctionOnSet([l \in S |-> l.lamports], S) = Value(S)
<1> DEFINE v == [l \in S |-> l.lamports]
<1>1. \A l \in S : v[l] = Worth[l]
  BY WorthIsLamports
<1> HIDE DEF v
<1>2. SumFunctionOnSet(v, S) = SumFunctionOnSet(Worth, S)
  BY <1>1, SumSame
<1> QED
  BY <1>2 DEF v, Value

\* The leaves of the inputs, as sum_check gets them.
Consumed(inputs) == [i \in DOMAIN inputs |-> inputs[i].leaf]

\* Inputs that are proved are different accounts that exist.
LEMMA InputsLive ==
    ASSUME SystemTypeOK, NEW remaining, NEW inputs, NEW program,
           InputsProvable(inputs, remaining, program),
           NEW c, c = Consumed(inputs), c \in Seq(Leaf)
    PROVE  /\ \A i, j \in 1 .. Len(c) : c[i] = c[j] => i = j
           /\ First(c, Len(c)) = {inputs[i].leaf : i \in DOMAIN inputs}
           /\ First(c, Len(c)) \subseteq Live
<1>1. DOMAIN c = 1 .. Len(c) /\ DOMAIN c = DOMAIN inputs
      /\ \A i \in DOMAIN inputs : c[i] = inputs[i].leaf /\ c[i] \in Leaf
  <2>1. DOMAIN c = 1 .. Len(c)
    BY LenProperties
  <2>2. DOMAIN c = DOMAIN inputs /\ \A i \in DOMAIN inputs : c[i] = inputs[i].leaf
    BY DEF Consumed
  <2>3. \A i \in 1 .. Len(c) : c[i] \in Leaf
    BY ElementOfSeq
  <2> QED
    BY <2>1, <2>2, <2>3
<1>2. \A i, j \in 1 .. Len(c) : c[i] = c[j] => i = j
  <2>1. IsInjective(c)
    BY DEF InputsProvable, Consumed
  <2> QED
    BY <1>1, <2>1, Zenon DEF IsInjective
<1>3. First(c, Len(c)) = {inputs[i].leaf : i \in DOMAIN inputs}
  BY <1>1 DEF First
<1>4. ASSUME NEW i \in DOMAIN inputs PROVE inputs[i].leaf \in Live
  <2> DEFINE l == inputs[i].leaf
  <2>1. l \in Range(trees[l.tree]) \ nullified
    BY DEF InputsProvable
  <2>2. l.tree \in Tree
    BY <1>1 DEF Leaf
  <2>3. l \in Leaves
    BY <2>1, <2>2 DEF Leaves
  <2> QED
    BY <2>1, <2>3 DEF Live
<1> QED
  BY <1>2, <1>3, <1>4

-----------------------------------------------------------------------------
\* Addresses that are taken

\* A sequence without the element at one position.
LEMMA RemovedElements ==
    ASSUME NEW S, NEW s \in Seq(S), NEW p \in 1 .. Len(s)
    PROVE  /\ RemoveAt(s, p) \in Seq(S) /\ Len(RemoveAt(s, p)) = Len(s) - 1
           /\ \A i \in 1 .. Len(s) - 1 : RemoveAt(s, p)[i] = IF i < p THEN s[i] ELSE s[i + 1]
<1> DEFINE n == Len(s)
           a == SubSeq(s, 1, p - 1)
           b == SubSeq(s, p + 1, n)
<1>1. n \in Nat /\ \A i \in 1 .. n : s[i] \in S
  BY LenProperties, ElementOfSeq
<1>2. p - 1 \in Int /\ p + 1 \in Int /\ n \in Int /\ 1 \in Int
  BY <1>1
<1>3. (\A i \in 1 .. p - 1 : s[i] \in S) /\ (\A i \in p + 1 .. n : s[i] \in S)
  BY <1>1
<1>4. /\ a \in Seq(S) /\ Len(a) = IF 1 <= p - 1 THEN (p - 1) - 1 + 1 ELSE 0
      /\ \A i \in 1 .. (p - 1) - 1 + 1 : a[i] = s[1 + i - 1]
  BY <1>2, <1>3, SubSeqProperties
<1>5. /\ b \in Seq(S) /\ Len(b) = IF p + 1 <= n THEN n - (p + 1) + 1 ELSE 0
      /\ \A i \in 1 .. n - (p + 1) + 1 : b[i] = s[(p + 1) + i - 1]
  BY <1>2, <1>3, SubSeqProperties
<1> HIDE DEF a, b
<1>6. Len(a) = p - 1 /\ \A i \in 1 .. p - 1 : a[i] = s[i]
  BY <1>1, <1>4
<1>7. Len(b) = n - p /\ \A i \in 1 .. n - p : b[i] = s[p + i]
  BY <1>1, <1>5
<1>8. /\ a \o b \in Seq(S) /\ Len(a \o b) = Len(a) + Len(b)
      /\ \A i \in 1 .. Len(a) + Len(b) : (a \o b)[i] = IF i <= Len(a) THEN a[i] ELSE b[i - Len(a)]
  BY <1>4, <1>5, ConcatProperties
<1>9. RemoveAt(s, p) = a \o b
  BY DEF RemoveAt, a, b
<1>10. Len(a \o b) = n - 1
  BY <1>1, <1>6, <1>7, <1>8
<1>11. ASSUME NEW i \in 1 .. n - 1
       PROVE  (a \o b)[i] = IF i < p THEN s[i] ELSE s[i + 1]
  <2>1. i \in 1 .. Len(a) + Len(b)
    BY <1>1, <1>6, <1>7
  <2>2. CASE i < p
    <3>1. i <= Len(a) /\ i \in 1 .. p - 1
      BY <1>1, <1>6, <2>2
    <3> QED
      BY <1>6, <1>8, <2>1, <2>2, <3>1
  <2>3. CASE ~(i < p)
    <3>1. ~(i <= Len(a)) /\ i - Len(a) \in 1 .. n - p /\ p + (i - Len(a)) = i + 1
      BY <1>1, <1>6, <2>3
    <3>2. (a \o b)[i] = b[i - Len(a)]
      BY <1>8, <2>1, <3>1
    <3>3. b[i - Len(a)] = s[p + (i - Len(a))]
      BY <1>7, <3>1
    <3> QED
      BY <2>3, <3>1, <3>2, <3>3
  <2> QED
    BY <2>2, <2>3
<1> QED
  BY <1>8, <1>9, <1>10, <1>11

\* A pool that has no None before an address, and no address twice.
Tidy(s) == NoneLast(s) /\ \A i, j \in DOMAIN s : s[i] = s[j] /\ s[i] # None => i = j

\* Where TakeAddress finds the address, and which position it removes.
LEMMA FoundPosition ==
    ASSUME NEW S, NEW pool \in Seq(S), NEW address \in Range(pool) \ {None}
    PROVE  \E k \in 1 .. Len(pool), p \in 1 .. Len(pool) :
            /\ pool[k] = address /\ TakeAddress(pool, address) = RemoveAt(pool, p)
            /\ NoneLast(pool) => p = k
<1> DEFINE n == Len(pool)
           Is(k) == pool[k] = address /\ \A i \in 1 .. k - 1 : pool[i] # address
           K == {k \in 1 .. n : pool[k] = address}
<1>1. n \in Nat /\ DOMAIN pool = 1 .. n
  BY LenProperties
<1>2. K # {} /\ K \subseteq Nat
  BY <1>1 DEF Range
<1>3. PICK m \in K : \A k \in K : m <= k
  <2> HIDE DEF K
  <2> QED
    BY <1>2, LeastNumber
<1>4. m \in DOMAIN pool /\ Is(m)
  <2>1. m \in 1 .. n /\ pool[m] = address
    OBVIOUS
  <2>2. ASSUME NEW i \in 1 .. m - 1 PROVE pool[i] # address
    <3>1. i \in 1 .. n /\ ~(m <= i)
      BY <1>1, <2>1
    <3>2. i \notin K
      <4> HIDE DEF K
      <4> QED
        BY <1>3, <3>1
    <3> QED
      BY <3>1, <3>2
  <2> QED
    BY <1>1, <2>1, <2>2
<1> DEFINE found == CHOOSE k \in DOMAIN pool : Is(k)
           P == {i \in 1 .. found : pool[i] # None}
<1>5. found \in DOMAIN pool /\ Is(found)
  <2> HIDE DEF Is
  <2> QED
    BY <1>4, Zenon
<1>6. TakeAddress(pool, address) = RemoveAt(pool, Cardinality(P))
  BY DEF TakeAddress
<1> HIDE DEF found
<1>7. found \in 1 .. n /\ pool[found] = address
  BY <1>1, <1>5
<1>8. IsFiniteSet(1 .. found) /\ Cardinality(1 .. found) = found
  BY <1>1, <1>7, FS_Interval
<1>9. IsFiniteSet(P) /\ Cardinality(P) \in Nat /\ Cardinality(P) <= found
  <2>1. P \subseteq 1 .. found
    OBVIOUS
  <2> HIDE DEF P
  <2> QED
    BY <1>8, <2>1, FS_Subset, FS_CardinalityType
<1>10. Cardinality(P) # 0
  <2>1. found \in P
    BY <1>7
  <2> HIDE DEF P
  <2> QED
    BY <1>9, <2>1, FS_EmptySet
<1>11. NoneLast(pool) => Cardinality(P) = found
  <2>1. HAVE NoneLast(pool)
  <2>2. \A i \in 1 .. found : i \in DOMAIN pool /\ pool[i] # None
    BY <1>1, <1>7, <2>1 DEF NoneLast
  <2>3. P = 1 .. found
    BY <2>2
  <2> QED
    BY <1>8, <2>3
<1>12. Cardinality(P) \in 1 .. n
  BY <1>1, <1>7, <1>9, <1>10
<1> HIDE DEF P
<1> QED
  BY <1>6, <1>7, <1>11, <1>12

\* An address that is taken leaves a part of the pool, without the address if
\* the pool is tidy.
LEMMA TakenPool ==
    ASSUME NEW S, NEW pool \in Seq(S), NEW address \in Range(pool) \ {None},
           NEW rest, rest = TakeAddress(pool, address)
    PROVE  /\ rest \in Seq(S)
           /\ Tidy(pool) => Tidy(rest) /\ Range(rest) \subseteq Range(pool) \ {address}
<1> DEFINE n == Len(pool)
<1>1. PICK k \in 1 .. n, p \in 1 .. n :
        /\ pool[k] = address /\ rest = RemoveAt(pool, p)
        /\ NoneLast(pool) => p = k
  BY FoundPosition
<1>2. /\ rest \in Seq(S) /\ Len(rest) = n - 1 /\ n \in Nat /\ DOMAIN pool = 1 .. n
      /\ \A i \in 1 .. n - 1 : rest[i] = IF i < p THEN pool[i] ELSE pool[i + 1]
  <2>1. n \in Nat /\ DOMAIN pool = 1 .. n
    BY LenProperties
  <2>2. /\ RemoveAt(pool, p) \in Seq(S) /\ Len(RemoveAt(pool, p)) = n - 1
        /\ \A i \in 1 .. n - 1 : RemoveAt(pool, p)[i] = IF i < p THEN pool[i] ELSE pool[i + 1]
    BY RemovedElements
  <2> HIDE DEF n
  <2> QED
    BY <1>1, <2>1, <2>2
<1>3. DOMAIN rest = 1 .. n - 1
  BY <1>2, LenProperties
<1>4. ASSUME Tidy(pool)
      PROVE  Tidy(rest) /\ Range(rest) \subseteq Range(pool) \ {address}
  <2>1. p = k /\ NoneLast(pool)
    BY <1>1, <1>4 DEF Tidy
  <2>2. /\ \A i, j \in 1 .. n : pool[i] = pool[j] /\ pool[i] # None => i = j
        /\ \A i, j \in 1 .. n : i < j /\ pool[i] = None => pool[j] = None
    BY <1>2, <1>4 DEF Tidy, NoneLast
  <2> DEFINE at(i) == IF i < k THEN i ELSE i + 1
  <2>3. \A i \in 1 .. n - 1 : at(i) \in 1 .. n /\ at(i) # k /\ rest[i] = pool[at(i)]
    BY <1>2, <2>1
  <2>4. /\ \A i, j \in 1 .. n - 1 : at(i) = at(j) => i = j
        /\ \A i, j \in 1 .. n - 1 : i < j => at(i) < at(j)
    BY <1>2
  <2> HIDE DEF at
  <2>5. Tidy(rest)
    <3>1. ASSUME NEW i \in 1 .. n - 1, NEW j \in 1 .. n - 1, rest[i] = rest[j], rest[i] # None
          PROVE  i = j
      <4>1. /\ at(i) \in 1 .. n /\ rest[i] = pool[at(i)]
            /\ at(j) \in 1 .. n /\ rest[j] = pool[at(j)]
        BY <2>3, Zenon
      <4>2. at(i) = at(j)
        BY <2>2, <3>1, <4>1, Zenon
      <4> QED
        BY <2>4, <4>2, Zenon
    <3>2. ASSUME NEW i \in 1 .. n - 1, NEW j \in 1 .. n - 1, i < j, rest[i] = None
          PROVE  rest[j] = None
      <4>1. /\ at(i) \in 1 .. n /\ rest[i] = pool[at(i)]
            /\ at(j) \in 1 .. n /\ rest[j] = pool[at(j)]
        BY <2>3, Zenon
      <4>2. at(i) < at(j)
        BY <2>4, <3>2, Zenon
      <4> QED
        BY <2>2, <3>2, <4>1, <4>2, Zenon
    <3> QED
      BY <1>3, <3>1, <3>2 DEF Tidy, NoneLast
  <2>6. Range(rest) \subseteq Range(pool) \ {address}
    <3>1. SUFFICES ASSUME NEW i \in 1 .. n - 1
                   PROVE  rest[i] \in Range(pool) \ {address}
      BY <1>3, Zenon DEF Range
    <3>2. at(i) \in 1 .. n /\ at(i) # k /\ rest[i] = pool[at(i)]
      BY <2>3, Zenon
    <3>3. pool[at(i)] # pool[k]
      BY <1>1, <2>2, <3>2, Zenon
    <3>4. pool[at(i)] \in Range(pool)
      BY <1>2, <3>2, Zenon DEF Range
    <3> QED
      BY <1>1, <3>2, <3>3, <3>4, Zenon
  <2> QED
    BY <2>5, <2>6
<1> QED
  BY <1>2, <1>4

\* The recursion of PoolAfter is defined.
IsPool(f, pool, outputs) ==
    f = [j \in 0 .. Len(outputs) |->
            IF j = 0 THEN pool
            ELSE IF outputs[j].address \in Range(f[j - 1]) \ {None}
                 THEN TakeAddress(f[j - 1], outputs[j].address)
                 ELSE f[j - 1]]

\* One round of it keeps a pool a pool: nothing new comes in, and a tidy pool
\* stays tidy.
Pools(pool) == {s \in Seq(Range(pool)) : Tidy(pool) => Tidy(s)}

TakeRound(v, address) == IF address \in Range(v) \ {None} THEN TakeAddress(v, address) ELSE v

\* Taking an address out of the pool adds nothing to it, and from a tidy pool
\* the address is gone.
LEMMA PoolRound ==
    ASSUME NEW pool, NEW v \in Pools(pool), NEW address
    PROVE  /\ TakeRound(v, address) \in Pools(pool)
           /\ Tidy(pool) =>
                Range(TakeRound(v, address)) \subseteq Range(v) \ ({address} \ {None})
<1> DEFINE S == Range(pool)
<1>1. v \in Seq(S) /\ (Tidy(pool) => Tidy(v))
  BY DEF Pools
<1>2. CASE address \in Range(v) \ {None}
  <2> DEFINE rest == TakeAddress(v, address)
  <2>1. /\ rest \in Seq(S)
        /\ Tidy(v) => Tidy(rest) /\ Range(rest) \subseteq Range(v) \ {address}
    BY <1>1, <1>2, TakenPool
  <2>2. TakeRound(v, address) = rest
    BY <1>2 DEF TakeRound
  <2> HIDE DEF rest
  <2> QED
    BY <1>1, <2>1, <2>2 DEF Pools
<1>3. CASE address \notin Range(v) \ {None}
  <2>1. TakeRound(v, address) = v
    BY <1>3 DEF TakeRound
  <2> QED
    BY <1>3, <2>1
<1> QED
  BY <1>2, <1>3

\* The pool of addresses changes output by output.
LEMMA PoolAfterRounds ==
    ASSUME NEW S, NEW pool \in Seq(S), NEW outputs, Len(outputs) \in Nat,
           NEW f, f = PoolAfter(pool, outputs)
    PROVE  /\ f[0] = pool /\ \A j \in 0 .. Len(outputs) : f[j] \in Pools(pool)
           /\ \A j \in 1 .. Len(outputs) : f[j] = TakeRound(f[j - 1], outputs[j].address)
<1> DEFINE n == Len(outputs)
           V == Pools(pool)
           F == [j \in 1 .. n |-> [v \in V |-> TakeRound(v, outputs[j].address)]]
<1>1. pool \in V
  <2>1. DOMAIN pool = 1 .. Len(pool) /\ Len(pool) \in Nat /\ pool \in [1 .. Len(pool) -> S]
    BY LenProperties
  <2>2. pool \in [1 .. Len(pool) -> Range(pool)]
    BY <2>1 DEF Range
  <2>3. pool \in Seq(Range(pool))
    BY <2>1, <2>2, SeqDef
  <2> QED
    BY <2>3 DEF Pools
<1>2. Rounds(F, n, V)
  BY PoolRound DEF Rounds
<1>3. \E g : IsPool(g, pool, outputs)
  <2>1. PICK g : Computes(g, pool, F, n, V)
    <3> HIDE DEF n, V, F
    <3>1. n \in Nat
      BY DEF n
    <3> QED
      BY <1>1, <1>2, <3>1, RecursionExists
  <2>2. g \in [0 .. n -> V] /\ g[0] = pool
    <3> HIDE DEF n, V, F
    <3> QED
      BY <2>1 DEF Computes
  <2>3. ASSUME NEW j \in 1 .. n PROVE g[j] = TakeRound(g[j - 1], outputs[j].address)
    <3>1. g[j] = F[j][g[j - 1]]
      <4> HIDE DEF n, V, F
      <4> QED
        BY <2>1, <2>3 DEF Computes
    <3>2. j - 1 \in 0 .. n
      OBVIOUS
    <3>3. g[j - 1] \in V
      <4> HIDE DEF n, V, F
      <4> QED
        BY <2>2, <3>2
    <3> HIDE DEF V
    <3> QED
      BY <3>1, <3>3
  <2> DEFINE body(j) == IF j = 0 THEN pool
                        ELSE IF outputs[j].address \in Range(g[j - 1]) \ {None}
                             THEN TakeAddress(g[j - 1], outputs[j].address)
                             ELSE g[j - 1]
  <2>4. \A j \in 0 .. n : g[j] = body(j)
    <3>1. \A j \in 0 .. n : j = 0 \/ j \in 1 .. n
      OBVIOUS
    <3> HIDE DEF V, F, n
    <3> QED
      BY <2>2, <2>3, <3>1 DEF TakeRound
  <2>5. g = [j \in 0 .. n |-> body(j)]
    <3> HIDE DEF V, F, body, n
    <3> QED
      BY <2>2, <2>4
  <2>6. IsPool(g, pool, outputs)
    BY <2>5 DEF IsPool
  <2> QED
    BY <2>6
<1>4. f = CHOOSE g : IsPool(g, pool, outputs)
  BY DEF PoolAfter, IsPool
<1>5. IsPool(f, pool, outputs)
  BY <1>3, <1>4, Zenon
<1>6. f[0] = pool /\ \A j \in 1 .. n : f[j] = TakeRound(f[j - 1], outputs[j].address)
  <2>1. 0 \in 0 .. n /\ \A j \in 1 .. n : j \in 0 .. n /\ j # 0
    OBVIOUS
  <2> HIDE DEF n
  <2>2. f = [j \in 0 .. n |->
            IF j = 0 THEN pool
            ELSE IF outputs[j].address \in Range(f[j - 1]) \ {None}
                 THEN TakeAddress(f[j - 1], outputs[j].address)
                 ELSE f[j - 1]]
    BY <1>5 DEF IsPool, n
  <2> QED
    BY <2>1, <2>2 DEF TakeRound
<1>7. \A j \in 0 .. n : f[j] \in V
  <2>1. \A j \in 1 .. n : f[j - 1] \in V => f[j] = F[j][f[j - 1]]
    BY <1>6
  <2>2. n \in Nat
    OBVIOUS
  <2> HIDE DEF n, V, F
  <2> QED
    BY <1>1, <1>2, <1>6, <2>1, <2>2, RecursionStays
<1> QED
  BY <1>6, <1>7

\* From a tidy pool no address is given to two outputs.
LEMMA AddressesDifferent ==
    ASSUME NEW S, NEW pool \in Seq(S), NEW outputs, Len(outputs) \in Nat,
           DOMAIN outputs = 1 .. Len(outputs), AddressesFound(pool, outputs),
           Tidy(pool)
    PROVE  \A i, j \in 1 .. Len(outputs) :
            i < j /\ outputs[j].address # None => outputs[i].address # outputs[j].address
<1> DEFINE n == Len(outputs)
           f == PoolAfter(pool, outputs)
           Gone(m) == \A i \in 1 .. m : outputs[i].address \notin Range(f[m]) \ {None}
           Bad == {m \in 0 .. n : ~Gone(m)}
<1>1. /\ f[0] = pool /\ \A j \in 0 .. n : f[j] \in Pools(pool)
      /\ \A j \in 1 .. n : f[j] = TakeRound(f[j - 1], outputs[j].address)
  <2>1. f = PoolAfter(pool, outputs)
    OBVIOUS
  <2> HIDE DEF f, Gone, Bad
  <2> QED
    BY ONLY <2>1, PoolAfterRounds, pool \in Seq(S), Len(outputs) \in Nat DEF n
<1>2. \A j \in 1 .. n : outputs[j].address # None => outputs[j].address \in Range(f[j - 1])
  BY DEF AddressesFound
<1> HIDE DEF f
<1>3. \A m \in 0 .. n : Gone(m)
  <2>1. SUFFICES ASSUME Bad # {} PROVE FALSE
    OBVIOUS
  <2>2. PICK m \in Bad : \A k \in Bad : m <= k
    <3>1. Bad \subseteq Nat
      OBVIOUS
    <3> HIDE DEF Bad
    <3> QED
      BY <2>1, <3>1, LeastNumber
  <2>3. m \in 0 .. n /\ ~Gone(m)
    OBVIOUS
  <2>4. m # 0
    BY <2>3
  <2>5. m \in 1 .. n /\ m - 1 \in 0 .. n /\ ~(m <= m - 1)
    BY <2>3, <2>4
  <2>6. m - 1 \notin Bad
    <3> HIDE DEF Bad
    <3> QED
      BY <2>2, <2>5
  <2>7. Gone(m - 1)
    BY <2>5, <2>6
  <2>8. Range(f[m]) \subseteq Range(f[m - 1]) \ ({outputs[m].address} \ {None})
    BY <1>1, <2>5, PoolRound
  <2>9. \A i \in 1 .. m : i = m \/ i \in 1 .. m - 1
    BY <2>5
  <2> QED
    BY <2>3, <2>7, <2>8, <2>9
<1>4. TAKE i, j \in 1 .. n
<1>5. SUFFICES ASSUME i < j, outputs[j].address # None PROVE outputs[i].address # outputs[j].address
  OBVIOUS
<1>6. j - 1 \in 0 .. n /\ i \in 1 .. j - 1
  BY <1>5
<1>7. outputs[i].address \notin Range(f[j - 1]) \ {None}
  BY <1>3, <1>6
<1> QED
  BY <1>2, <1>5, <1>7

\* An address that an output takes is in the pool.
LEMMA AddressesFromPool ==
    ASSUME NEW S, NEW pool \in Seq(S), NEW outputs, Len(outputs) \in Nat,
           DOMAIN outputs = 1 .. Len(outputs), AddressesFound(pool, outputs),
           NEW j \in 1 .. Len(outputs), outputs[j].address # None
    PROVE  outputs[j].address \in Range(pool)
<1> DEFINE f == PoolAfter(pool, outputs)
<1>1. \A k \in 0 .. Len(outputs) : f[k] \in Pools(pool)
  BY PoolAfterRounds
<1>2. outputs[j].address \in Range(f[j - 1])
  BY DEF AddressesFound
<1> HIDE DEF f
<1>3. f[j - 1] \in Seq(Range(pool))
  BY <1>1 DEF Pools
<1>4. DOMAIN f[j - 1] = 1 .. Len(f[j - 1]) /\ \A i \in 1 .. Len(f[j - 1]) : f[j - 1][i] \in Range(pool)
  BY <1>3, LenProperties, ElementOfSeq
<1>5. PICK i \in DOMAIN f[j - 1] : f[j - 1][i] = outputs[j].address
  BY <1>2 DEF Range
<1> QED
  BY <1>4, <1>5

-----------------------------------------------------------------------------
\* What moves between payer and pool is a number.
LEMMA CompressedType ==
    ASSUME NEW transfer \in Transfer
    PROVE  Compressed(transfer) \in Int /\ Returned(transfer) \in Nat
<1>1. CASE transfer = None
  BY <1>1 DEF Compressed, Returned
<1>2. CASE transfer # None
  <2>1. transfer.lamports \in Nat
    BY <1>2, SystemProgramAssumption DEF Transfer, Compress, Decompress
  <2> QED
    BY <1>2, <2>1 DEF Compressed, Returned
<1> QED
  BY <1>1, <1>2

\* An instruction that is executed preserves the invariant, but for addresses.
LEMMA ProcessPreserves ==
    ASSUME SInv, NEW ix, NEW program, process(ix, program),
           ix.remaining \in Seq(Tree), Consumed(ix.inputs) \in Seq(Leaf),
           OutputsOK(ix.outputs, ix.remaining), ix.transfer \in Transfer
    PROVE  SystemTypeOK' /\ HashedWhereAppended' /\ PoolBacksAccounts'
<1> DEFINE c == Consumed(ix.inputs)
           h == Hashes(ix.outputs, ix.remaining)
           In == First(c, Len(c))
           Out == First(h, Len(h))
<1>1. /\ trees \in [Tree -> Seq(Leaf)] /\ nullified \subseteq Leaves
      /\ IsFiniteSet(Leaves) /\ sol_pool \in Nat /\ returned \in Nat /\ HashedWhereAppended
  BY DEF SInv, SystemTypeOK
<1>2. /\ InputsProvable(ix.inputs, ix.remaining, program)
      /\ TreesOrdered(ix.outputs, ix.remaining)
      /\ sum_check(c, ix.outputs, ix.transfer)
      /\ Affordable(ix.transfer)
      /\ append_outputs(ix.outputs, ix.remaining)
      /\ nullified' = nullified \cup {ix.inputs[i].leaf : i \in DOMAIN ix.inputs}
      /\ sol_pool' = sol_pool + Compressed(ix.transfer) + Returned(ix.transfer)
      /\ returned' = returned + Returned(ix.transfer)
  BY DEF process, Commit, Valid, Appendable, insert_nullifiers, Nullified, Consumed,
         compress_or_decompress_lamports, PoolAfterTransfer
<1>3. trees' \in [Tree -> Seq(Leaf)] /\ HashedWhereAppended'
  BY <1>1, <1>2, AppendedWhereHashed
<1>4. /\ Leaves' = Leaves \cup Out /\ Leaves \cap Out = {}
  BY <1>1, <1>2, AppendedLeaves
<1>5. /\ IsFiniteSet(In) /\ Total(c) = Value(In)
      /\ In \subseteq Live /\ nullified' = nullified \cup In
  <2>1. /\ \A i, j \in 1 .. Len(c) : c[i] = c[j] => i = j
        /\ In = {ix.inputs[i].leaf : i \in DOMAIN ix.inputs}
        /\ In \subseteq Live
    <3>1. SystemTypeOK
      BY DEF SInv
    <3> HIDE DEF In
    <3> QED
      BY <1>2, <3>1, InputsLive DEF In
  <2>2. IsFiniteSet(In) /\ Total(c) = Value(In)
    <3> HIDE DEF c
    <3>1. c \in Seq(Leaf)
      BY DEF c
    <3> QED
      BY <2>1, <3>1, TotalIsValue
  <2> QED
    BY <1>2, <2>1, <2>2
<1>6. IsFiniteSet(Out) /\ Total(ix.outputs) = Value(Out) /\ Out \subseteq Leaf
  <2>1. /\ h \in Seq(Leaf) /\ Len(h) = Len(ix.outputs) /\ Len(h) \in Nat
        /\ \A j \in 1 .. Len(h) : h[j].lamports = ix.outputs[j].lamports
    BY <1>1, HashesType
  <2>2. \A i, j \in 1 .. Len(h) : i < j => h[i] # h[j]
    BY <1>1, <1>2, HashesDifferent
  <2> HIDE DEF h
  <2>3. \A i, j \in 1 .. Len(h) : h[i] = h[j] => i = j
    <3>1. TAKE i, j \in 1 .. Len(h)
    <3>2. i < j \/ j < i \/ i = j
      BY <2>1
    <3> QED
      BY <2>2, <3>2
  <2>4. IsFiniteSet(Out) /\ Total(ix.outputs) = Value(Out)
    BY <2>1, <2>3, TotalIsValue
  <2>5. Out \subseteq Leaf
    <3>1. \A j \in 1 .. Len(h) : h[j] \in Leaf
      BY <2>1, ElementOfSeq
    <3> QED
      BY <3>1 DEF First
  <2> QED
    BY <2>4, <2>5
<1> HIDE DEF In, Out, h, c
<1>7. /\ IsFiniteSet(Leaves') /\ nullified' \subseteq Leaves'
      /\ Live' = (Live \ In) \cup Out
  <2>1. IsFiniteSet(Leaves')
    BY <1>1, <1>4, <1>6, FS_Union
  <2>2. In \subseteq Leaves
    BY <1>5 DEF Live
  <2>3. nullified' \subseteq Leaves'
    BY <1>1, <1>4, <1>5, <2>2
  <2>4. Live' = Leaves' \ nullified'
    BY DEF Live
  <2> QED
    BY <1>1, <1>4, <1>5, <2>1, <2>2, <2>3, <2>4 DEF Live
<1>8. /\ IsFiniteSet(Live) /\ IsFiniteSet(Live \ In) /\ IsFiniteSet(Live')
      /\ Live \subseteq Leaf /\ Live' \subseteq Leaf
  <2>1. IsFiniteSet(Live) /\ Live \subseteq Leaf
    BY <1>1, FS_Subset, LeavesOfTrees DEF Live
  <2>2. IsFiniteSet(Live \ In)
    BY <2>1, FS_Difference
  <2>3. IsFiniteSet(Live')
    BY <1>6, <1>7, <2>2, FS_Union
  <2> QED
    BY <1>6, <1>7, <2>1, <2>2, <2>3
<1>9. Value(Live) = Value(Live \ In) + Value(In)
  <2>1. Live = (Live \ In) \cup In /\ (Live \ In) \cap In = {}
    BY <1>5
  <2>2. \A l \in (Live \ In) \cup In : Worth[l] \in Nat
    BY <1>8, <2>1, WorthIsLamports
  <2>3. Value((Live \ In) \cup In) = Value(Live \ In) + Value(In)
    BY <1>5, <1>8, <2>1, <2>2, SumUnion DEF Value
  <2> QED
    BY <2>1, <2>3
<1>10. Value(Live') = Value(Live \ In) + Value(Out)
  <2>1. (Live \ In) \cap Out = {}
    BY <1>4 DEF Live
  <2>2. \A l \in (Live \ In) \cup Out : Worth[l] \in Nat
    BY <1>6, <1>8, WorthIsLamports
  <2>3. Value((Live \ In) \cup Out) = Value(Live \ In) + Value(Out)
    BY <1>6, <1>8, <2>1, <2>2, SumUnion DEF Value
  <2> QED
    BY <1>7, <2>3
<1>11. Value(Live \ In) \in Nat /\ Value(In) \in Nat /\ Value(Out) \in Nat
  <2>1. \A l \in Leaf : Worth[l] \in Nat
    BY WorthIsLamports
  <2>2. Live \ In \subseteq Leaf /\ In \subseteq Leaf /\ Out \subseteq Leaf
    BY <1>5, <1>6, <1>8
  <2> QED
    BY <1>5, <1>6, <1>8, <2>1, <2>2, SumType DEF Value
<1>12. sol_pool = Value(Live) + returned
  BY <1>8, SumIsValue DEF SInv, PoolBacksAccounts
<1>13. Compressed(ix.transfer) \in Int /\ Returned(ix.transfer) \in Nat
  BY CompressedType
<1>14. Value(In) + Compressed(ix.transfer) = Value(Out)
  BY <1>2, <1>5, <1>6 DEF sum_check
<1>15. sol_pool' = Value(Live') + returned' /\ returned' \in Nat
  <2> DEFINE v == Value(Live')
             w == Compressed(ix.transfer)
             b == Returned(ix.transfer)
  <2>1. sol_pool' = sol_pool + w + b /\ returned' = returned + b
    BY <1>2
  <2>2. w \in Int /\ b \in Nat /\ sol_pool \in Nat /\ returned \in Nat
    BY <1>1, <1>13
  <2>3. v = Value(Live) + w
    BY <1>9, <1>10, <1>11, <1>13, <1>14
  <2>4. Value(Live) \in Nat
    BY <1>9, <1>11
  <2> HIDE DEF v, w, b
  <2>5. sol_pool' = v + returned' /\ returned' \in Nat
    BY <1>12, <2>1, <2>2, <2>3, <2>4
  <2> QED
    BY <2>5 DEF v
<1>16. PoolBacksAccounts'
  <2>1. SumFunctionOnSet([l \in Live' |-> l.lamports], Live') = Value(Live')
    BY <1>8, SumIsValue
  <2> QED
    BY <1>15, <2>1 DEF PoolBacksAccounts
<1>17. sol_pool' \in Nat
  BY <1>10, <1>11, <1>15
<1> QED
  BY <1>3, <1>7, <1>15, <1>16, <1>17 DEF SystemTypeOK

-----------------------------------------------------------------------------
\* The sequences that an instruction is made of are sequences.
LEMMA AtMostIsSeq ==
    ASSUME NEW S, NEW n, NEW s \in AtMost(S, n)
    PROVE  s \in Seq(S)
<1>1. PICK k \in 0 .. n : s \in [1 .. k -> S]
  BY DEF AtMost
<1>2. k \in Nat
  OBVIOUS
<1> QED
  BY <1>1, <1>2, SeqDef

\* The outputs of an instruction are for remaining accounts.
LEMMA OutputsType ==
    ASSUME NEW remaining \in Seq(Tree), NEW n, NEW S \in SUBSET Output(remaining),
           NEW outputs \in AtMost(S, n)
    PROVE  OutputsOK(outputs, remaining)
<1>1. DOMAIN remaining = 1 .. Len(remaining) /\ Len(remaining) \in Nat
  BY LenProperties
<1>2. ASSUME NEW o \in Output(remaining)
      PROVE  o \in OutputAccount /\ o.merkle_tree_index + 1 \in 1 .. Len(remaining)
  <2>1. PICK k \in DOMAIN remaining, a \in CompressedAccount :
            o = [merkle_tree_index |-> k - 1, owner |-> a.owner, lamports |-> a.lamports,
                 address |-> a.address, data |-> a.data]
    BY DEF Output
  <2>2. k \in 1 .. Len(remaining) /\ k - 1 \in Nat /\ (k - 1) + 1 = k
    BY <1>1
  <2>3. /\ a.owner \in Owner /\ a.lamports \in Nat
        /\ a.address \in Address \cup {None} /\ a.data \in BOOLEAN
    BY SystemProgramAssumption DEF CompressedAccount, Owner
  <2> QED
    BY <2>1, <2>2, <2>3 DEF OutputAccount
<1>3. outputs \in Seq(S)
  BY AtMostIsSeq
<1>4. \A j \in 1 .. Len(outputs) : outputs[j] \in Output(remaining)
  BY <1>3, ElementOfSeq
<1>5. outputs \in Seq(OutputAccount)
  <2>1. S \subseteq OutputAccount
    BY <1>2
  <2> QED
    BY <1>3, <2>1, SeqMonotonic
<1> QED
  BY <1>2, <1>4, <1>5 DEF OutputsOK

-----------------------------------------------------------------------------
\* The recursion of FlattenSeq is defined: a sequence of sequences over S
\* becomes a sequence over S.
IsFlat(f, seqs) ==
    f = [i \in 1 .. Len(seqs) |-> IF i = 1 THEN seqs[i] ELSE f[i - 1] \o seqs[i]]

\* FlattenSeq of sequences over S is a sequence over S.
LEMMA FlattenType ==
    ASSUME NEW S, NEW seqs \in Seq(Seq(S))
    PROVE  FlattenSeq(seqs) \in Seq(S)
<1> DEFINE n == Len(seqs)
           V == Seq(S)
           x == <<>>
           F == [j \in 1 .. n |-> [v \in V |-> v \o seqs[j]]]
<1>1. n \in Nat /\ \A j \in 1 .. n : seqs[j] \in V
  BY LenProperties, ElementOfSeq
<1>2. CASE n = 0
  <2>1. seqs = <<>>
    BY <1>2, EmptySeq
  <2>2. FlattenSeq(seqs) = seqs
    BY <1>2 DEF FlattenSeq
  <2> QED
    BY <2>1, <2>2, EmptySeq
<1>3. CASE n # 0
  <2>1. x \in V
    BY EmptySeq
  <2>2. Rounds(F, n, V)
    BY <1>1, ConcatProperties DEF Rounds
  <2>3. PICK g : Computes(g, x, F, n, V)
    <3> HIDE DEF n, V, F, x
    <3> QED
      BY <1>1, <2>1, <2>2, RecursionExists
  <2>4. /\ \A j \in 0 .. n : g[j] \in V
        /\ g[0] = <<>> /\ \A j \in 1 .. n : g[j] = g[j - 1] \o seqs[j]
    <3>1. g \in [0 .. n -> V] /\ g[0] = x /\ \A j \in 1 .. n : g[j] = F[j][g[j - 1]]
      <4> HIDE DEF n, V, F, x
      <4> QED
        BY <2>3 DEF Computes
    <3>2. \A j \in 1 .. n : j - 1 \in 0 .. n
      BY <1>1
    <3> QED
      BY <3>1, <3>2
  <2> DEFINE f == [j \in 1 .. n |-> g[j]]
  <2>5. IsFlat(f, seqs)
    <3>1. ASSUME NEW j \in 1 .. n
          PROVE  f[j] = IF j = 1 THEN seqs[j] ELSE f[j - 1] \o seqs[j]
      <4>1. CASE j = 1
        <5>1. g[1] = <<>> \o seqs[1]
          <6>1. 1 \in 1 .. n /\ 1 - 1 = 0
            BY <4>1
          <6>2. g[1] = g[1 - 1] \o seqs[1]
            BY <2>4, <6>1
          <6> QED
            BY <2>4, <6>1, <6>2
        <5>2. seqs[1] \in Seq(S)
          BY <1>1, <4>1
        <5>3. <<>> \o seqs[1] = seqs[1]
          BY <5>2, ConcatEmptySeq
        <5> QED
          BY <4>1, <5>1, <5>3
      <4>2. CASE j # 1
        <5>1. j - 1 \in 1 .. n
          BY <1>1, <4>2
        <5> QED
          BY <2>4, <4>2, <5>1
      <4> QED
        BY <4>1, <4>2
    <3> QED
      BY <3>1 DEF IsFlat
  <2>6. \E h : IsFlat(h, seqs)
    BY <2>5
  <2> DEFINE d == CHOOSE h : IsFlat(h, seqs)
  <2>7. IsFlat(d, seqs)
    BY <2>6, Zenon
  <2>8. FlattenSeq(seqs) = d[n]
    BY <1>3 DEF FlattenSeq, IsFlat
  <2> HIDE DEF d
  <2>9. \A j \in 1 .. n : d[j] = IF j = 1 THEN seqs[j] ELSE d[j - 1] \o seqs[j]
    BY <2>7 DEF IsFlat
  <2> DEFINE Bad == {m \in 1 .. n : d[m] \notin Seq(S)}
  <2>10. SUFFICES ASSUME Bad # {} PROVE FALSE
    BY <1>1, <1>3, <2>8
  <2>11. PICK m \in Bad : \A k \in Bad : m <= k
    <3>1. Bad \subseteq Nat
      BY <1>1
    <3> HIDE DEF Bad
    <3> QED
      BY <2>10, <3>1, LeastNumber
  <2>12. m \in 1 .. n /\ d[m] \notin Seq(S)
    OBVIOUS
  <2>13. CASE m = 1
    BY <1>1, <2>9, <2>12, <2>13
  <2>14. CASE m # 1
    <3>1. m - 1 \in 1 .. n /\ ~(m <= m - 1)
      BY <1>1, <2>12, <2>14
    <3>2. m - 1 \notin Bad
      <4> HIDE DEF Bad
      <4> QED
        BY <2>11, <3>1
    <3>3. d[m - 1] \in Seq(S) /\ seqs[m] \in Seq(S)
      BY <1>1, <2>12, <3>1, <3>2
    <3>4. d[m - 1] \o seqs[m] \in Seq(S)
      BY <3>3, ConcatProperties
    <3> QED
      BY <2>9, <2>12, <2>14, <3>4
  <2> QED
    BY <2>13, <2>14
<1> QED
  BY <1>2, <1>3

\* Every element of the flattened sequence is an element of one of the sequences.
LEMMA FlattenElements ==
    ASSUME NEW S, NEW seqs \in Seq(Seq(S))
    PROVE  /\ FlattenSeq(seqs) \in Seq(S)
           /\ \A i \in DOMAIN FlattenSeq(seqs) : \E k \in DOMAIN seqs : \E j \in DOMAIN seqs[k] :
                FlattenSeq(seqs)[i] = seqs[k][j]
<1> DEFINE R == {x \in S : \E k \in DOMAIN seqs : \E j \in DOMAIN seqs[k] : x = seqs[k][j]}
<1>1. Len(seqs) \in Nat /\ DOMAIN seqs = 1 .. Len(seqs)
  BY LenProperties
<1>2. ASSUME NEW k \in 1 .. Len(seqs) PROVE seqs[k] \in Seq(R)
  <2>1. seqs[k] \in Seq(S)
    BY <1>1, ElementOfSeq
  <2>2. DOMAIN seqs[k] = 1 .. Len(seqs[k]) /\ Len(seqs[k]) \in Nat
    BY <2>1, LenProperties
  <2>3. \A j \in 1 .. Len(seqs[k]) : seqs[k][j] \in R
    BY <1>1, <2>1, <2>2, ElementOfSeq
  <2>4. seqs[k] \in [1 .. Len(seqs[k]) -> R]
    <3>1. seqs[k] \in [1 .. Len(seqs[k]) -> S]
      BY <2>1, LenProperties
    <3> HIDE DEF R
    <3> QED
      BY <2>3, <3>1
  <2> HIDE DEF R
  <2> QED
    BY <2>2, <2>4, SeqDef
<1>3. seqs \in Seq(Seq(R))
  <2>1. seqs \in [1 .. Len(seqs) -> Seq(S)]
    BY LenProperties
  <2>2. seqs \in [1 .. Len(seqs) -> Seq(R)]
    <3> HIDE DEF R
    <3> QED
      BY <1>2, <2>1
  <2> DEFINE T == Seq(R)
             n == Len(seqs)
  <2>3. seqs \in [1 .. n -> T] /\ n \in Nat
    BY <1>1, <2>2
  <2> HIDE DEF T, n
  <2>4. seqs \in Seq(T)
    BY <2>3, SeqDef
  <2> QED
    BY <2>4 DEF T
<1>4. FlattenSeq(seqs) \in Seq(R)
  <2> HIDE DEF R
  <2> QED
    BY <1>3, FlattenType
<1>5. \A i \in DOMAIN FlattenSeq(seqs) : FlattenSeq(seqs)[i] \in R
  <2> HIDE DEF R
  <2> QED
    BY <1>4, LenProperties, ElementOfSeq
<1> QED
  BY <1>5, FlattenType

-----------------------------------------------------------------------------
\* The data of an instruction, and a part of it in the CPI context account.
InputAccount == [merkle_tree_index : Nat, leaf : Leaf]

InstructionData ==
    [inputs : Seq(InputAccount), outputs : Seq(OutputAccount), new_addresses : Seq(Address),
     transfer : Transfer, remaining : Seq(Tree)]

Part ==
    [inputs : Seq(InputAccount), outputs : Seq(OutputAccount), new_addresses : Seq(Address),
     by : Owner, payer : Payer]

\* The program that a part is from owns its inputs and its outputs with data.
PartOwned(p) ==
    /\ \A i \in DOMAIN p.inputs : p.inputs[i].leaf.owner = p.by
    /\ \A j \in DOMAIN p.outputs : p.outputs[j].data => p.outputs[j].owner = p.by

ContextOK(account) ==
    /\ account \in [fee_payer : Payer \cup {NoPayer}, context : Seq(Part)]
    /\ \A k \in DOMAIN account.context :
        PartOwned(account.context[k]) /\ account.context[k].payer = account.fee_payer

\* a is the sequence b, followed by elements of the sequences of the parts.
Extends(a, b, parts, field) ==
    \A i \in DOMAIN a :
        \/ \E j \in DOMAIN b : a[i] = b[j]
        \/ \E k \in DOMAIN parts : \E j \in DOMAIN parts[k][field] : a[i] = parts[k][field][j]

\* Concatenation behind the instruction's own sequence.
LEMMA GatherExtends ==
    ASSUME NEW S, NEW b \in Seq(S), NEW parts, NEW field, Len(parts) \in Nat,
           DOMAIN parts = 1 .. Len(parts), \A k \in DOMAIN parts : parts[k][field] \in Seq(S)
    PROVE  LET a == b \o FlattenSeq([k \in DOMAIN parts |-> parts[k][field]])
           IN  a \in Seq(S) /\ Extends(a, b, parts, field)
<1> DEFINE seqs == [k \in DOMAIN parts |-> parts[k][field]]
           c == FlattenSeq(seqs)
           a == b \o c
<1>1. seqs \in Seq(Seq(S)) /\ DOMAIN seqs = DOMAIN parts
  <2>1. seqs \in [1 .. Len(parts) -> Seq(S)]
    OBVIOUS
  <2> QED
    BY <2>1, SeqDef
<1>2. \A k \in DOMAIN parts : seqs[k] = parts[k][field]
  OBVIOUS
<1> HIDE DEF seqs
<1>3. /\ c \in Seq(S)
      /\ \A i \in DOMAIN c : \E k \in DOMAIN seqs : \E j \in DOMAIN seqs[k] : c[i] = seqs[k][j]
  BY <1>1, FlattenElements
<1> HIDE DEF c
<1>4. /\ Len(b) \in Nat /\ Len(c) \in Nat /\ DOMAIN b = 1 .. Len(b) /\ DOMAIN c = 1 .. Len(c)
  BY <1>3, LenProperties
<1>5. /\ a \in Seq(S) /\ Len(a) = Len(b) + Len(c)
      /\ \A i \in 1 .. Len(b) + Len(c) : a[i] = IF i <= Len(b) THEN b[i] ELSE c[i - Len(b)]
  BY <1>3, ConcatProperties
<1>6. DOMAIN a = 1 .. Len(b) + Len(c)
  BY <1>5, LenProperties
<1> HIDE DEF a
<1>7. Extends(a, b, parts, field)
  <2>1. SUFFICES ASSUME NEW i \in DOMAIN a
                 PROVE  \/ \E j \in DOMAIN b : a[i] = b[j]
                        \/ \E k \in DOMAIN parts : \E j \in DOMAIN parts[k][field] :
                            a[i] = parts[k][field][j]
    BY DEF Extends
  <2>2. CASE i <= Len(b)
    BY <1>4, <1>5, <1>6, <2>2
  <2>3. CASE ~(i <= Len(b))
    <3>1. i - Len(b) \in DOMAIN c /\ a[i] = c[i - Len(b)]
      BY <1>4, <1>5, <1>6, <2>3
    <3> QED
      BY <1>1, <1>2, <1>3, <3>1
  <2> QED
    BY <2>2, <2>3
<1> QED
  BY <1>5, <1>7 DEF a, c, seqs

\* What combine makes of an instruction and the cached parts.
LEMMA CombineType ==
    ASSUME NEW ix \in InstructionData, NEW parts \in Seq(Part),
           NEW all, all = combine(ix, parts)
    PROVE  /\ all \in InstructionData
           /\ Extends(all.inputs, ix.inputs, parts, "inputs")
           /\ Extends(all.outputs, ix.outputs, parts, "outputs")
<1>1. /\ Len(parts) \in Nat /\ DOMAIN parts = 1 .. Len(parts)
      /\ \A k \in DOMAIN parts : parts[k] \in Part
  BY LenProperties, ElementOfSeq
<1>2. \A k \in DOMAIN parts :
        /\ parts[k]["inputs"] \in Seq(InputAccount)
        /\ parts[k]["outputs"] \in Seq(OutputAccount)
        /\ parts[k]["new_addresses"] \in Seq(Address)
  BY <1>1 DEF Part
<1>3. /\ ix.inputs \in Seq(InputAccount) /\ ix.outputs \in Seq(OutputAccount)
      /\ ix.new_addresses \in Seq(Address)
  BY DEF InstructionData
<1> DEFINE ins == ix.inputs \o FlattenSeq([k \in DOMAIN parts |-> parts[k]["inputs"]])
           outs == ix.outputs \o FlattenSeq([k \in DOMAIN parts |-> parts[k]["outputs"]])
           new == ix.new_addresses \o FlattenSeq([k \in DOMAIN parts |-> parts[k]["new_addresses"]])
<1>4. ins \in Seq(InputAccount) /\ Extends(ins, ix.inputs, parts, "inputs")
  BY <1>1, <1>2, <1>3, GatherExtends
<1>5. outs \in Seq(OutputAccount) /\ Extends(outs, ix.outputs, parts, "outputs")
  BY <1>1, <1>2, <1>3, GatherExtends
<1>6. new \in Seq(Address)
  BY <1>1, <1>2, <1>3, GatherExtends
<1>7. all = [ix EXCEPT !.inputs = ins, !.outputs = outs, !.new_addresses = new]
  BY DEF combine
<1> HIDE DEF ins, outs, new
<1>8. /\ all \in InstructionData /\ all.inputs = ins /\ all.outputs = outs
  BY <1>4, <1>5, <1>6, <1>7 DEF InstructionData
<1> QED
  BY <1>4, <1>5, <1>8

-----------------------------------------------------------------------------
\* The inputs of an instruction are leaves with the indices of their trees.
LEMMA InputsType ==
    ASSUME trees \in [Tree -> Seq(Leaf)], NEW remaining \in Seq(Tree), NEW n,
           NEW S \in SUBSET Input(remaining), NEW inputs \in AtMost(S, n)
    PROVE  inputs \in Seq(InputAccount)
<1>1. inputs \in Seq(S)
  BY AtMostIsSeq
<1>2. ASSUME NEW i \in S PROVE i \in InputAccount
  <2>1. PICK l \in Leaves : /\ l.tree \in Range(remaining)
                            /\ i = [merkle_tree_index |-> TreeIndex(remaining, l.tree), leaf |-> l]
    BY DEF Input
  <2>2. DOMAIN remaining = 1 .. Len(remaining) /\ Len(remaining) \in Nat
    BY LenProperties
  <2>3. TreeIndex(remaining, l.tree) \in Nat
    <3>1. \E k \in DOMAIN remaining : remaining[k] = l.tree
      BY <2>1 DEF Range
    <3> DEFINE k == CHOOSE m \in DOMAIN remaining : remaining[m] = l.tree
    <3>2. k \in DOMAIN remaining
      BY <3>1, Zenon
    <3>3. TreeIndex(remaining, l.tree) = k - 1
      BY DEF TreeIndex
    <3> HIDE DEF k
    <3> QED
      BY <2>2, <3>2, <3>3
  <2>4. l \in Leaf
    BY LeavesOfTrees
  <2> QED
    BY <2>1, <2>3, <2>4 DEF InputAccount
<1>3. S \subseteq InputAccount
  BY <1>2
<1> QED
  BY <1>1, <1>3, SeqMonotonic

\* New addresses are a sequence of addresses.
LEMMA AddressesType ==
    ASSUME NEW n, NEW new_addresses \in AtMost(Address \ addresses, n)
    PROVE  new_addresses \in Seq(Address)
<1>1. new_addresses \in Seq(Address \ addresses)
  BY AtMostIsSeq
<1>2. Address \ addresses \subseteq Address
  OBVIOUS
<1> QED
  BY <1>1, <1>2, SeqMonotonic

\* The sequences of a typed instruction, as ProcessPreserves needs them.
LEMMA DataType ==
    ASSUME NEW ix \in InstructionData, IndicesExist(ix)
    PROVE  /\ ix.remaining \in Seq(Tree) /\ Consumed(ix.inputs) \in Seq(Leaf)
           /\ OutputsOK(ix.outputs, ix.remaining) /\ ix.transfer \in Transfer
<1>1. /\ ix.inputs \in Seq(InputAccount) /\ ix.outputs \in Seq(OutputAccount)
      /\ ix.remaining \in Seq(Tree) /\ ix.transfer \in Transfer
  BY DEF InstructionData
<1>2. Consumed(ix.inputs) \in Seq(Leaf)
  <2> DEFINE ins == ix.inputs
             n == Len(ins)
  <2>1. n \in Nat /\ DOMAIN ins = 1 .. n /\ \A i \in 1 .. n : ins[i] \in InputAccount
    BY <1>1, LenProperties, ElementOfSeq
  <2> HIDE DEF ins, n
  <2>2. \A i \in 1 .. n : ins[i].leaf \in Leaf
    BY <2>1 DEF InputAccount
  <2>3. Consumed(ins) \in [1 .. n -> Leaf]
    BY <2>1, <2>2 DEF Consumed
  <2>4. Consumed(ins) \in Seq(Leaf)
    BY <2>1, <2>3, SeqDef
  <2> QED
    BY <2>4 DEF ins
<1>3. OutputsOK(ix.outputs, ix.remaining)
  <2>1. /\ DOMAIN ix.outputs = 1 .. Len(ix.outputs)
        /\ DOMAIN ix.remaining = 1 .. Len(ix.remaining)
    BY <1>1, LenProperties
  <2> QED
    BY <1>1, <2>1 DEF IndicesExist, OutputsOK
<1> QED
  BY <1>1, <1>2, <1>3

\* A step that changes nothing.
LEMMA NothingMoves ==
    ASSUME SInv, UNCHANGED stateVars
    PROVE  SInv' /\ Moves
<1>1. UNCHANGED <<trees, nullified, addresses, sol_pool, returned>>
  BY DEF stateVars
<1>2. Leaves' = Leaves /\ Live' = Live
  BY <1>1 DEF Leaves, Live
<1>3. SInv'
  BY <1>1, <1>2 DEF SInv, SystemTypeOK, HashedWhereAppended, PoolBacksAccounts, AddressesKnown
<1>4. Moves
  BY <1>2 DEF Moves, AddressUnique
<1> QED
  BY <1>3, <1>4

\* The addresses of the inputs and the new ones: where accounts have different
\* ones, these are different too.
LEMMA AddressPool ==
    ASSUME SInv, NEW ix \in InstructionData, NEW program,
           InputsProvable(ix.inputs, ix.remaining, program), Consumed(ix.inputs) \in Seq(Leaf),
           AddressesNew(ix.new_addresses, program),
           NEW pool, pool = compressed_account_addresses(ix.inputs, ix.new_addresses)
    PROVE  /\ pool \in Seq(Address \cup {None})
           /\ \A a \in Range(pool) :
                \/ \E i \in DOMAIN ix.inputs : a = ix.inputs[i].leaf.address
                \/ a \in Range(ix.new_addresses)
           /\ AddressUnique /\ NoneLast(pool) => Tidy(pool)
<1> DEFINE ins == ix.inputs
           new == ix.new_addresses
           a == [i \in DOMAIN ins |-> ins[i].leaf.address]
           S == Address \cup {None}
<1>1. ins \in Seq(InputAccount) /\ new \in Seq(Address)
  BY DEF InstructionData
<1>2. /\ Len(ins) \in Nat /\ DOMAIN ins = 1 .. Len(ins)
      /\ \A i \in 1 .. Len(ins) : ins[i].leaf \in Leaf
  <2>1. Len(ins) \in Nat /\ DOMAIN ins = 1 .. Len(ins)
        /\ \A i \in 1 .. Len(ins) : ins[i] \in InputAccount
    BY <1>1, LenProperties, ElementOfSeq
  <2> HIDE DEF ins
  <2> QED
    BY <2>1 DEF InputAccount
<1>3. /\ Len(new) \in Nat /\ DOMAIN new = 1 .. Len(new)
      /\ \A i \in 1 .. Len(new) : new[i] \in Address
  BY <1>1, LenProperties, ElementOfSeq
<1>4. /\ \A i \in DOMAIN ins : ins[i].leaf \in Live
      /\ \A i, j \in DOMAIN ins : ins[i].leaf = ins[j].leaf => i = j
  <2>1. SystemTypeOK
    BY DEF SInv
  <2>2. /\ {ins[i].leaf : i \in DOMAIN ins} \subseteq Live
    BY <2>1, InputsLive
  <2>3. \A i, j \in DOMAIN ins : ins[i].leaf = ins[j].leaf => i = j
    BY DEF InputsProvable, IsInjective
  <2> HIDE DEF ins
  <2> QED
    BY <2>2, <2>3
<1>5. IsInjective(new) /\ \A i \in DOMAIN new : new[i] \notin addresses
  BY DEF AddressesNew
<1> HIDE DEF ins, new
<1>6. a \in Seq(S) /\ Len(a) = Len(ins) /\ new \in Seq(S)
      /\ \A i \in 1 .. Len(ins) : a[i] = ins[i].leaf.address
  <2>1. \A i \in 1 .. Len(ins) : ins[i].leaf.address \in S
    BY <1>2 DEF Leaf
  <2>2. a \in [1 .. Len(ins) -> S]
    <3> HIDE DEF S
    <3> QED
      BY <1>2, <2>1
  <2>3. a \in Seq(S)
    <3> HIDE DEF S, a
    <3> QED
      BY <1>2, <2>2, SeqDef
  <2>4. DOMAIN a = 1 .. Len(ins)
    BY <1>2
  <2>5. Len(a) = Len(ins)
    <3> HIDE DEF S, a
    <3> QED
      BY <1>2, <2>3, <2>4, LenProperties
  <2>6. new \in Seq(S)
    <3>1. Address \subseteq S
      OBVIOUS
    <3> HIDE DEF S
    <3> QED
      BY <1>1, <3>1, SeqMonotonic DEF new
  <2> QED
    BY <1>2, <2>3, <2>5, <2>6
<1>7. pool = a \o new
  BY DEF compressed_account_addresses, ins, new
<1> HIDE DEF a
<1> DEFINE n == Len(ins)
           m == Len(new)
<1>8. /\ pool \in Seq(S) /\ Len(pool) = n + m
      /\ \A i \in 1 .. n + m : pool[i] = IF i <= n THEN a[i] ELSE new[i - n]
  <2> HIDE DEF S
  <2>1. /\ a \o new \in Seq(S) /\ Len(a \o new) = Len(a) + Len(new)
        /\ \A i \in 1 .. Len(a) + Len(new) :
            (a \o new)[i] = IF i <= Len(a) THEN a[i] ELSE new[i - Len(a)]
    BY <1>6, ConcatProperties
  <2> QED
    BY <1>6, <1>7, <2>1
<1>9. DOMAIN pool = 1 .. n + m
  BY <1>8, LenProperties
<1>10. ASSUME NEW i \in 1 .. n + m
       PROVE  \/ i \in 1 .. n /\ pool[i] = ins[i].leaf.address
              \/ i - n \in 1 .. m /\ pool[i] = new[i - n] /\ i \notin 1 .. n
  BY <1>2, <1>3, <1>6, <1>8
<1>11. ASSUME NEW x \in Range(pool)
       PROVE  \/ \E i \in DOMAIN ins : x = ins[i].leaf.address
              \/ x \in Range(new)
  <2>1. PICK i \in 1 .. n + m : x = pool[i]
    BY <1>9 DEF Range
  <2> QED
    BY <1>2, <1>3, <1>10, <2>1 DEF Range
<1>12. ASSUME AddressUnique, NoneLast(pool)
       PROVE  Tidy(pool)
  <2>3. \A i \in DOMAIN ins : ins[i].leaf.address # None => ins[i].leaf.address \in addresses
    BY <1>4 DEF SInv, AddressesKnown, Live
  <2>4. \A i, j \in DOMAIN ins :
            ins[i].leaf.address = ins[j].leaf.address /\ ins[i].leaf.address # None => i = j
    BY <1>4, <1>12 DEF AddressUnique
  <2>5. \A i, j \in DOMAIN new : new[i] = new[j] => i = j
    BY <1>5 DEF IsInjective
  <2>6. \A i \in DOMAIN ins : \A j \in DOMAIN new :
            ins[i].leaf.address # None => ins[i].leaf.address # new[j]
    BY <1>5, <2>3
  <2>7. ASSUME NEW i \in 1 .. n + m, NEW j \in 1 .. n + m, pool[i] = pool[j], pool[i] # None
        PROVE  i = j
    <3>1. CASE i \in 1 .. n /\ j \in 1 .. n
      BY <1>2, <1>10, <2>4, <2>7, <3>1
    <3>2. CASE i \in 1 .. n /\ j \notin 1 .. n
      BY <1>2, <1>3, <1>10, <2>6, <2>7, <3>2
    <3>3. CASE i \notin 1 .. n /\ j \in 1 .. n
      BY <1>2, <1>3, <1>10, <2>6, <2>7, <3>3
    <3>4. CASE i \notin 1 .. n /\ j \notin 1 .. n
      <4>1. i - n \in DOMAIN new /\ j - n \in DOMAIN new /\ new[i - n] = new[j - n]
        BY <1>3, <1>10, <2>7, <3>4
      <4>2. i - n = j - n
        BY <2>5, <4>1
      <4> QED
        BY <1>2, <4>2
    <3> QED
      BY <3>1, <3>2, <3>3, <3>4
  <2> QED
    BY <1>9, <1>12, <2>7 DEF Tidy
<1> QED
  BY <1>8, <1>11, <1>12 DEF ins, new

\* An executed instruction gives addresses that exist, and moves those that
\* its inputs have to one account each.
LEMMA AddressesFollow ==
    ASSUME SInv, NEW ix \in InstructionData, NEW program, process(ix, program)
    PROVE  AddressesKnown' /\ Moves
<1> DEFINE pool == compressed_account_addresses(ix.inputs, ix.new_addresses)
           h == Hashes(ix.outputs, ix.remaining)
           outs == ix.outputs
           n == Len(outs)
<1>1. /\ IndicesExist(ix) /\ InputsProvable(ix.inputs, ix.remaining, program)
      /\ AddressesFound(pool, outs) /\ AddressesNew(ix.new_addresses, program)
      /\ TreesOrdered(outs, ix.remaining) /\ append_outputs(outs, ix.remaining)
      /\ nullified' = nullified \cup {ix.inputs[i].leaf : i \in DOMAIN ix.inputs}
      /\ addresses' = addresses \cup Range(ix.new_addresses) /\ listed' = pool
  BY DEF process, Commit, Valid, Appendable, insert_nullifiers, Nullified, insert_addresses, Inserted
<1>2. /\ ix.remaining \in Seq(Tree) /\ Consumed(ix.inputs) \in Seq(Leaf)
      /\ OutputsOK(outs, ix.remaining)
  BY <1>1, DataType
<1>3. /\ pool \in Seq(Address \cup {None})
      /\ \A x \in Range(pool) :
            \/ \E i \in DOMAIN ix.inputs : x = ix.inputs[i].leaf.address
            \/ x \in Range(ix.new_addresses)
      /\ AddressUnique /\ NoneLast(pool) => Tidy(pool)
  BY <1>1, <1>2, AddressPool
<1>4. n \in Nat /\ DOMAIN outs = 1 .. n
  BY <1>2, LenProperties DEF OutputsOK
<1>5. trees \in [Tree -> Seq(Leaf)] /\ HashedWhereAppended
  BY DEF SInv, SystemTypeOK
<1>6. Leaves' = Leaves \cup First(h, Len(h)) /\ Len(h) = n
  BY <1>1, <1>2, <1>5, AppendedLeaves, HashesType
<1>7. \A j \in 1 .. n : h[j].address = outs[j].address
  BY <1>4 DEF Hashes, HashOf, Hash
<1>8. \A i \in DOMAIN ix.inputs : ix.inputs[i].leaf \in Live
  <2>1. SystemTypeOK
    BY DEF SInv
  <2>2. {ix.inputs[i].leaf : i \in DOMAIN ix.inputs} \subseteq Live
    BY <1>1, <1>2, <2>1, InputsLive
  <2> QED
    BY <2>2
<1> HIDE DEF pool, h, outs
<1>9. \A l \in Leaves' \ Leaves : \E j \in 1 .. n : l = h[j]
  BY <1>6 DEF First
<1>10. ASSUME NEW j \in 1 .. n, h[j].address # None
       PROVE  \/ \E i \in DOMAIN ix.inputs : h[j].address = ix.inputs[i].leaf.address
              \/ h[j].address \in Range(ix.new_addresses)
  <2>1. outs[j].address \in Range(pool)
    BY <1>1, <1>3, <1>4, <1>7, <1>10, AddressesFromPool
  <2> QED
    BY <1>3, <1>7, <2>1
<1>11. AddressesKnown'
  <2>1. SUFFICES ASSUME NEW l \in Leaves', l.address # None PROVE l.address \in addresses'
    BY DEF AddressesKnown
  <2>2. CASE l \in Leaves
    BY <1>1, <2>1, <2>2 DEF SInv, AddressesKnown
  <2>3. CASE l \notin Leaves
    <3>1. PICK j \in 1 .. n : l = h[j]
      BY <1>9, <2>3
    <3>2. CASE \E i \in DOMAIN ix.inputs : h[j].address = ix.inputs[i].leaf.address
      BY <1>1, <1>8, <2>1, <3>1, <3>2 DEF SInv, AddressesKnown, Live
    <3>3. CASE h[j].address \in Range(ix.new_addresses)
      BY <1>1, <3>1, <3>3
    <3> QED
      BY <1>10, <2>1, <3>1, <3>2, <3>3
  <2> QED
    BY <2>2, <2>3
<1>12. ASSUME NEW l \in Leaves' \ Leaves
       PROVE  \/ l.address \in {None} \cup (addresses' \ addresses)
              \/ \E m \in nullified' \ nullified : l.address = m.address
  <2>1. PICK j \in 1 .. n : l = h[j]
    BY <1>9
  <2>2. CASE \E i \in DOMAIN ix.inputs : h[j].address = ix.inputs[i].leaf.address
    <3>1. \A i \in DOMAIN ix.inputs : ix.inputs[i].leaf \in nullified' \ nullified
      BY <1>1, <1>8 DEF Live
    <3> QED
      BY <2>1, <2>2, <3>1
  <2>3. CASE h[j].address \in Range(ix.new_addresses)
    BY <1>1, <2>1, <2>3 DEF AddressesNew, Range
  <2> QED
    BY <1>10, <2>1, <2>2, <2>3
<1>13. AddressUnique /\ NoneLast(listed') => AddressUnique'
  <2>1. SUFFICES ASSUME AddressUnique, NoneLast(pool)
                 PROVE  AddressUnique'
    BY <1>1
  <2>3. \A i, j \in 1 .. n : i < j /\ h[j].address # None => h[i].address # h[j].address
    <3>1. Tidy(pool)
      BY <1>3, <2>1
    <3>2. \A i, j \in 1 .. n :
            i < j /\ outs[j].address # None => outs[i].address # outs[j].address
      BY <1>1, <1>3, <1>4, <3>1, AddressesDifferent
    <3> QED
      BY <1>7, <3>2
  <2>4. \A l \in Live' : \/ /\ l \in Live
                             /\ \A i \in DOMAIN ix.inputs : l # ix.inputs[i].leaf
                          \/ \E j \in 1 .. n : l = h[j]
    <3>1. Live' = Leaves' \ nullified'
      BY DEF Live
    <3> QED
      BY <1>1, <1>9, <3>1 DEF Live
  <2>5. ASSUME NEW l \in Live, \A i \in DOMAIN ix.inputs : l # ix.inputs[i].leaf,
               NEW j \in 1 .. n, h[j].address # None
        PROVE  l.address # h[j].address
    <3>1. SUFFICES ASSUME l.address = h[j].address PROVE FALSE
      OBVIOUS
    <3>2. CASE \E i \in DOMAIN ix.inputs : h[j].address = ix.inputs[i].leaf.address
      BY <1>8, <2>1, <2>5, <3>1, <3>2 DEF AddressUnique
    <3>3. CASE h[j].address \in Range(ix.new_addresses)
      <4>1. l.address \in addresses
        BY <2>5, <3>1 DEF SInv, AddressesKnown, Live
      <4> QED
        BY <1>1, <3>1, <3>3, <4>1 DEF AddressesNew, Range
    <3> QED
      BY <1>10, <2>5, <3>2, <3>3
  <2>6. ASSUME NEW l \in Live', NEW k \in Live', l.address = k.address, l.address # None
        PROVE  l = k
    <3>1. CASE \E i \in 1 .. n : l = h[i]
      <4>1. PICK i \in 1 .. n : l = h[i]
        BY <3>1
      <4>2. CASE \E j \in 1 .. n : k = h[j]
        <5>1. PICK j \in 1 .. n : k = h[j]
          BY <4>2
        <5>2. i < j \/ j < i \/ i = j
          BY <1>4
        <5> QED
          BY <2>3, <2>6, <4>1, <5>1, <5>2
      <4>3. CASE k \in Live /\ \A j \in DOMAIN ix.inputs : k # ix.inputs[j].leaf
        BY <2>5, <2>6, <4>1, <4>3
      <4> QED
        BY <2>4, <4>2, <4>3
    <3>2. CASE l \in Live /\ \A i \in DOMAIN ix.inputs : l # ix.inputs[i].leaf
      <4>1. CASE \E j \in 1 .. n : k = h[j]
        BY <2>5, <2>6, <3>2, <4>1
      <4>2. CASE k \in Live
        BY <2>1, <2>6, <3>2, <4>2 DEF AddressUnique
      <4> QED
        BY <2>4, <4>1, <4>2
    <3> QED
      BY <2>4, <3>1, <3>2
  <2> QED
    BY <2>6 DEF AddressUnique
<1> QED
  BY <1>11, <1>12, <1>13 DEF Moves

\* What is consumed are inputs, what is created are outputs.
Effect(ix) ==
    /\ \A l \in nullified' \ nullified : \E i \in DOMAIN ix.inputs : l = ix.inputs[i].leaf
    /\ \A l \in Leaves' \ Leaves :
        \E j \in DOMAIN ix.outputs : l = Hash(ix.outputs[j], l.tree, l.leaf_index)

\* What process does, whoever invokes it: the invariant is preserved, addresses
\* move, inputs are consumed and outputs are created.
LEMMA ProcessEffect ==
    ASSUME SInv, NEW ix \in InstructionData, NEW program, process(ix, program)
    PROVE  SInv' /\ Moves /\ Effect(ix)
<1>1. IndicesExist(ix)
  BY DEF process, Valid
<1>2. /\ ix.remaining \in Seq(Tree) /\ Consumed(ix.inputs) \in Seq(Leaf)
      /\ OutputsOK(ix.outputs, ix.remaining) /\ ix.transfer \in Transfer
  BY <1>1, DataType
<1>3. SInv' /\ Moves
  BY <1>2, ProcessPreserves, AddressesFollow DEF SInv
<1> DEFINE h == Hashes(ix.outputs, ix.remaining)
<1>4. trees \in [Tree -> Seq(Leaf)] /\ HashedWhereAppended
  BY DEF SInv, SystemTypeOK
<1>5. /\ TreesOrdered(ix.outputs, ix.remaining)
      /\ append_outputs(ix.outputs, ix.remaining)
      /\ nullified' = nullified \cup {ix.inputs[i].leaf : i \in DOMAIN ix.inputs}
  BY DEF process, Commit, Valid, Appendable, insert_nullifiers, Nullified
<1>6. Leaves' = Leaves \cup First(h, Len(h))
  BY <1>2, <1>4, <1>5, AppendedLeaves
<1>7. Len(h) = Len(ix.outputs) /\ DOMAIN ix.outputs = 1 .. Len(h)
  <2>1. Len(h) = Len(ix.outputs)
    BY <1>2, <1>4, HashesType
  <2>2. ix.outputs \in Seq(OutputAccount)
    BY <1>2 DEF OutputsOK
  <2> HIDE DEF h
  <2> QED
    BY <2>1, <2>2, LenProperties
<1>8. \A j \in DOMAIN ix.outputs : h[j] = HashOf(ix.outputs, j, ix.remaining)
  BY DEF Hashes
<1> HIDE DEF h
<1>9. ASSUME NEW l \in Leaves' \ Leaves
      PROVE  \E j \in DOMAIN ix.outputs : l = Hash(ix.outputs[j], l.tree, l.leaf_index)
  <2>1. PICK j \in 1 .. Len(h) : l = h[j]
    BY <1>6 DEF First
  <2>2. l = HashOf(ix.outputs, j, ix.remaining) /\ j \in DOMAIN ix.outputs
    BY <1>7, <1>8, <2>1
  <2>3. l = Hash(ix.outputs[j], l.tree, l.leaf_index)
    BY <2>2 DEF HashOf, Hash
  <2> QED
    BY <2>2, <2>3
<1> QED
  BY <1>3, <1>5, <1>9 DEF Effect

-----------------------------------------------------------------------------
\* An instruction of a user preserves the invariant.
LEMMA InvokePreserves ==
    ASSUME SInv, Invoke
    PROVE  SInv' /\ Moves
<1>1. PICK remaining \in Remaining, authority \in User :
        \E inputs \in AtMost(Input(remaining), MaxAccounts),
           new_addresses \in AtMost(Address \ addresses, MaxNewAddresses),
           outputs \in AtMost({o \in Output(remaining) : ~o.data}, MaxAccounts),
           transfer \in Transfer :
            invoke(InvokeInstruction(inputs, outputs, new_addresses, transfer, remaining),
                   authority)
  BY Zenon DEF Invoke, InvokeWith
<1>2. PICK inputs \in AtMost(Input(remaining), MaxAccounts),
           new_addresses \in AtMost(Address \ addresses, MaxNewAddresses),
           outputs \in AtMost({o \in Output(remaining) : ~o.data}, MaxAccounts),
           transfer \in Transfer :
            invoke(InvokeInstruction(inputs, outputs, new_addresses, transfer, remaining),
                   authority)
  BY <1>1, Zenon
<1> DEFINE ix == InvokeInstruction(inputs, outputs, new_addresses, transfer, remaining)
<1>3. process(ix, None)
  BY <1>2, Zenon DEF invoke
<1>4. remaining \in Seq(Tree)
  BY SystemProgramAssumption
<1>5. inputs \in Seq(InputAccount)
  <2>1. Input(remaining) \in SUBSET Input(remaining)
    OBVIOUS
  <2> QED
    BY <1>4, <2>1, InputsType DEF SInv, SystemTypeOK
<1>6. outputs \in Seq(OutputAccount)
  <2>1. {o \in Output(remaining) : ~o.data} \in SUBSET Output(remaining)
    OBVIOUS
  <2>2. OutputsOK(outputs, remaining)
    BY <1>4, <2>1, OutputsType
  <2> QED
    BY <2>2 DEF OutputsOK
<1>7. new_addresses \in Seq(Address)
  BY AddressesType
<1>8. ix \in InstructionData
  BY <1>4, <1>5, <1>6, <1>7 DEF InvokeInstruction, InstructionData
<1> HIDE DEF ix
<1> QED
  BY <1>3, <1>8, ProcessEffect

\* There are no leaves at first.
LEMMA InitSInv == Init => SInv
<1>1. HAVE Init
<1>2. trees \in [Tree -> Seq(Leaf)]
  BY <1>1, EmptySeq DEF Init
<1>3. HashedWhereAppended /\ Leaves = {}
  <2>1. \A t \in Tree : trees[t] = <<>> /\ DOMAIN trees[t] = {}
    BY <1>1 DEF Init
  <2> QED
    BY <2>1 DEF HashedWhereAppended, Leaves, Range
<1>4. IsFiniteSet(Leaves) /\ nullified \subseteq Leaves /\ sol_pool = 0 /\ returned = 0
  BY <1>1, <1>3, FS_EmptySet DEF Init
<1>5. PoolBacksAccounts
  <2>1. Live = {}
    BY <1>3 DEF Live
  <2> QED
    BY <1>4, <2>1, SumEmpty DEF PoolBacksAccounts
<1> QED
  BY <1>2, <1>3, <1>4, <1>5 DEF SInv, SystemTypeOK, AddressesKnown

\* The invariant holds in every state of the system program.
THEOREM SystemInvariant == Spec => []SInv
<1>1. ASSUME SInv, [Invoke]_systemVars PROVE SInv'
  <2>1. CASE Invoke
    BY <1>1, <2>1, InvokePreserves
  <2>2. CASE UNCHANGED systemVars
    BY <1>1, <2>2, NothingMoves DEF systemVars
  <2> QED
    BY <1>1, <2>1, <2>2
<1> QED
  BY <1>1, InitSInv, PTL DEF Spec

\* create_cpi_accounts_and_instruction_data hashes every output with the tree
\* and the index at which the account-compression program appends it, however
\* many outputs and trees an instruction has.
THEOREM SystemHashedWhereAppended == Spec => []HashedWhereAppended
<1>1. SInv => HashedWhereAppended
  BY DEF SInv
<1> QED
  BY <1>1, SystemInvariant, PTL

\* sum_check and the transfer to or from the pool keep the pool equal to the
\* value of the accounts that exist and what was decompressed to the pool.
THEOREM SystemPoolBacksAccounts == Spec => []PoolBacksAccounts
<1>1. SInv => PoolBacksAccounts
  BY DEF SInv
<1> QED
  BY <1>1, SystemInvariant, PTL

\* check 3 of create_cpi_accounts_and_instruction_data: an output has an address
\* that the instruction consumes or creates; and an address moves to one output,
\* unless an account without an address is listed before it.
THEOREM SystemAddressMoves == Spec => AddressMoves
<1>1. ASSUME SInv, [Invoke]_systemVars PROVE [Moves]_systemVars
  BY <1>1, InvokePreserves
<1> QED
  BY <1>1, SystemInvariant, PTL DEF Spec, AddressMoves, Moves

-----------------------------------------------------------------------------
\* The program itself, or a part of the same fee payer, has contributed every
\* account that needs it.
PartsOfPayer ==
    {p \in Range(cpi_context_account.context) : p.payer = cpi_context_account.fee_payer}

Contributed(ix, program) ==
    /\ \A i \in DOMAIN ix.inputs :
        \/ ix.inputs[i].leaf.owner = program
        \/ \E p \in PartsOfPayer : /\ p.by = ix.inputs[i].leaf.owner
                                   /\ \E j \in DOMAIN p.inputs : p.inputs[j] = ix.inputs[i]
    /\ \A i \in DOMAIN ix.outputs : ix.outputs[i].data =>
        \/ ix.outputs[i].owner = program
        \/ \E p \in PartsOfPayer : /\ p.by = ix.outputs[i].owner
                                   /\ \E j \in DOMAIN p.outputs : p.outputs[j] = ix.outputs[i]

\* If the owners contributed what was executed, they consented to it.
LEMMA ContributedConsented ==
    ASSUME NEW ix, NEW program, Effect(ix), Contributed(ix, program), caller' = program
    PROVE  Consented
<1>1. ASSUME NEW l \in nullified' \ nullified
      PROVE  \/ l.owner = caller'
             \/ \E p \in PartsOfPayer : p.by = l.owner /\ \E i \in DOMAIN p.inputs : p.inputs[i].leaf = l
  <2>1. PICK i \in DOMAIN ix.inputs : l = ix.inputs[i].leaf
    BY DEF Effect
  <2>2. CASE l.owner = program
    BY <2>2
  <2>3. CASE l.owner # program
    <3>1. PICK p \in PartsOfPayer : /\ p.by = ix.inputs[i].leaf.owner
                                    /\ \E j \in DOMAIN p.inputs : p.inputs[j] = ix.inputs[i]
      BY <2>1, <2>3 DEF Contributed
    <3>2. PICK j \in DOMAIN p.inputs : p.inputs[j] = ix.inputs[i]
      BY <3>1
    <3>3. p.inputs[j].leaf = l
      BY <2>1, <3>2
    <3> QED
      BY <2>1, <3>1, <3>3
  <2> QED
    BY <2>2, <2>3
<1>2. ASSUME NEW l \in Leaves' \ Leaves, l.data
      PROVE  \/ l.owner = caller'
             \/ \E p \in PartsOfPayer :
                    /\ p.by = l.owner
                    /\ \E i \in DOMAIN p.outputs : l = Hash(p.outputs[i], l.tree, l.leaf_index)
  <2>1. PICK j \in DOMAIN ix.outputs : l = Hash(ix.outputs[j], l.tree, l.leaf_index)
    BY DEF Effect
  <2>2. l.owner = ix.outputs[j].owner /\ l.data = ix.outputs[j].data
    BY <2>1 DEF Hash
  <2>3. ix.outputs[j].data
    BY <1>2, <2>2, Zenon
  <2>4. CASE l.owner = program
    BY <2>4
  <2>5. CASE l.owner # program
    <3>1. PICK p \in PartsOfPayer : /\ p.by = ix.outputs[j].owner
                                    /\ \E i \in DOMAIN p.outputs : p.outputs[i] = ix.outputs[j]
      BY <2>2, <2>3, <2>5 DEF Contributed
    <3>2. PICK i \in DOMAIN p.outputs : p.outputs[i] = ix.outputs[j]
      BY <3>1
    <3>3. l = Hash(p.outputs[i], l.tree, l.leaf_index)
      BY <2>1, <3>2
    <3> QED
      BY <2>2, <3>1, <3>3
  <2> QED
    BY <2>4, <2>5
<1> QED
  BY <1>1, <1>2, Zenon DEF Consented, PartsOfPayer

\* A program that passes cpi_signer_checks owns what it contributes.
LEMMA OwnContribution ==
    ASSUME NEW ix \in InstructionData, NEW program, cpi_signer_checks(ix, program)
    PROVE  /\ \A i \in DOMAIN ix.inputs : ix.inputs[i].leaf.owner = program
           /\ \A j \in DOMAIN ix.outputs : ix.outputs[j].data => ix.outputs[j].owner = program
           /\ Contributed(ix, program)
<1>1. \A i \in DOMAIN ix.inputs : ix.inputs[i].leaf.owner = program
  BY DEF cpi_signer_checks
<1>2. \A j \in DOMAIN ix.outputs : ix.outputs[j].data => ix.outputs[j].owner = program
  BY DEF cpi_signer_checks
<1> QED
  BY <1>1, <1>2 DEF Contributed

\* Whoever executes the parts, their owners have contributed them.
LEMMA CombinedContribution ==
    ASSUME ContextOK(cpi_context_account), NEW ix \in InstructionData, NEW program,
           cpi_signer_checks(ix, program)
    PROVE  LET all == combine(ix, cpi_context_account.context)
           IN  all \in InstructionData /\ Contributed(all, program)
<1> DEFINE parts == cpi_context_account.context
           all == combine(ix, parts)
<1>1. parts \in Seq(Part)
  BY DEF ContextOK
<1>2. /\ all \in InstructionData
      /\ Extends(all.inputs, ix.inputs, parts, "inputs")
      /\ Extends(all.outputs, ix.outputs, parts, "outputs")
  BY <1>1, CombineType
<1>3. ASSUME NEW k \in DOMAIN parts
      PROVE  parts[k] \in PartsOfPayer /\ PartOwned(parts[k])
  BY DEF ContextOK, PartsOfPayer, Range
<1> HIDE DEF all
<1>4. ASSUME NEW i \in DOMAIN all.inputs
      PROVE  \/ all.inputs[i].leaf.owner = program
             \/ \E p \in PartsOfPayer : /\ p.by = all.inputs[i].leaf.owner
                                        /\ \E j \in DOMAIN p.inputs : p.inputs[j] = all.inputs[i]
  <2>1. CASE \E j \in DOMAIN ix.inputs : all.inputs[i] = ix.inputs[j]
    BY <2>1, OwnContribution
  <2>2. CASE \E k \in DOMAIN parts : \E j \in DOMAIN parts[k].inputs : all.inputs[i] = parts[k].inputs[j]
    <3>1. PICK k \in DOMAIN parts :
            \E j \in DOMAIN parts[k].inputs : all.inputs[i] = parts[k].inputs[j]
      BY <2>2
    <3>2. PICK j \in DOMAIN parts[k].inputs : all.inputs[i] = parts[k].inputs[j]
      BY <3>1
    <3>3. parts[k].by = all.inputs[i].leaf.owner
      BY <1>3, <3>2 DEF PartOwned
    <3> QED
      BY <1>3, <3>2, <3>3
  <2> QED
    BY <1>2, <2>1, <2>2 DEF Extends
<1>5. ASSUME NEW i \in DOMAIN all.outputs, all.outputs[i].data
      PROVE  \/ all.outputs[i].owner = program
             \/ \E p \in PartsOfPayer : /\ p.by = all.outputs[i].owner
                                        /\ \E j \in DOMAIN p.outputs : p.outputs[j] = all.outputs[i]
  <2>1. CASE \E j \in DOMAIN ix.outputs : all.outputs[i] = ix.outputs[j]
    <3>1. PICK j \in DOMAIN ix.outputs : all.outputs[i] = ix.outputs[j]
      BY <2>1
    <3>2. ix.outputs[j].data
      BY <1>5, <3>1
    <3> QED
      BY <3>1, <3>2, OwnContribution
  <2>2. CASE \E k \in DOMAIN parts : \E j \in DOMAIN parts[k].outputs : all.outputs[i] = parts[k].outputs[j]
    <3>1. PICK k \in DOMAIN parts :
            \E j \in DOMAIN parts[k].outputs : all.outputs[i] = parts[k].outputs[j]
      BY <2>2
    <3>2. PICK j \in DOMAIN parts[k].outputs : all.outputs[i] = parts[k].outputs[j]
      BY <3>1
    <3>3. parts[k].outputs[j].data
      BY <1>5, <3>2
    <3>4. parts[k].by = all.outputs[i].owner
      BY <1>3, <3>2, <3>3 DEF PartOwned
    <3> QED
      BY <1>3, <3>2, <3>4
  <2> QED
    BY <1>2, <2>1, <2>2 DEF Extends
<1> QED
  BY <1>2, <1>4, <1>5 DEF Contributed, all

-----------------------------------------------------------------------------
\* What is cached from an instruction that passed cpi_signer_checks.
LEMMA CleanedOwned ==
    ASSUME NEW ix \in InstructionData, NEW program \in Owner, NEW fee_payer \in Payer,
           cpi_signer_checks(ix, program), NEW part, part = Cleaned(ix, program, fee_payer)
    PROVE  part \in Part /\ PartOwned(part) /\ part.payer = fee_payer
<1>1. /\ part.inputs = ix.inputs /\ part.outputs = ix.outputs
      /\ part.by = program /\ part.payer = fee_payer
  BY DEF Cleaned
<1>2. part \in Part
  BY DEF Cleaned, Part, InstructionData
<1>3. PartOwned(part)
  BY <1>1, OwnContribution DEF PartOwned
<1> QED
  BY <1>1, <1>2, <1>3

\* An account that holds one part, and one that is empty.
LEMMA FirstPartOK ==
    ASSUME NEW part \in Part, PartOwned(part), NEW fee_payer \in Payer, part.payer = fee_payer
    PROVE  ContextOK([fee_payer |-> fee_payer, context |-> <<part>>])
<1>1. <<part>> \in Seq(Part) /\ DOMAIN <<part>> = {1} /\ <<part>>[1] = part
  OBVIOUS
<1> QED
  BY <1>1 DEF ContextOK

\* A context account that was reset is in order.
LEMMA EmptyContextOK == ContextOK([fee_payer |-> NoPayer, context |-> <<>>])
<1>1. <<>> \in Seq(Part) /\ DOMAIN <<>> = {}
  BY EmptySeq
<1> QED
  BY <1>1 DEF ContextOK

\* A further part of the same fee payer.
LEMMA NextPartOK ==
    ASSUME NEW account, ContextOK(account), NEW part \in Part, PartOwned(part),
           part.payer = account.fee_payer
    PROVE  ContextOK([account EXCEPT !.context = Append(@, part)])
<1> DEFINE c == account.context
           d == Append(c, part)
<1>1. /\ c \in Seq(Part) /\ account.fee_payer \in Payer \cup {NoPayer}
      /\ Len(c) \in Nat /\ DOMAIN c = 1 .. Len(c)
      /\ \A k \in DOMAIN c : PartOwned(c[k]) /\ c[k].payer = account.fee_payer
  BY LenProperties DEF ContextOK
<1>2. /\ d \in Seq(Part) /\ Len(d) = Len(c) + 1
      /\ \A i \in 1 .. Len(c) : d[i] = c[i]
      /\ d[Len(c) + 1] = part
  BY <1>1, AppendProperties
<1>3. DOMAIN d = 1 .. Len(c) + 1
  BY <1>2, LenProperties
<1>4. [account EXCEPT !.context = Append(@, part)] = [fee_payer |-> account.fee_payer, context |-> d]
  BY DEF ContextOK
<1> HIDE DEF c, d
<1>5. \A k \in DOMAIN d : PartOwned(d[k]) /\ d[k].payer = account.fee_payer
  <2>1. TAKE k \in DOMAIN d
  <2>2. k = Len(c) + 1 \/ k \in DOMAIN c
    BY <1>1, <1>3
  <2> QED
    BY <1>1, <1>2, <2>2
<1>6. ContextOK([fee_payer |-> account.fee_payer, context |-> d])
  BY <1>1, <1>2, <1>5 DEF ContextOK
<1> QED
  BY <1>4, <1>6

-----------------------------------------------------------------------------
\* The system program's invariant and that of the CPI context account.
ContextInv == ContextOK(cpi_context_account)

\* A step that neither consumes nor creates accounts.
LEMMA NothingConsented ==
    ASSUME UNCHANGED stateVars
    PROVE  Consented
<1>1. nullified' = nullified /\ Leaves' = Leaves
  BY DEF stateVars, Leaves
<1> QED
  BY <1>1 DEF Consented

\* Instructions of programs.
LEMMA CpiStep ==
    ASSUME SInv, ContextInv, NEW ix \in InstructionData, NEW program \in Program,
           \/ InvokeCpi(ix, program)
           \/ \E fee_payer \in Payer :
                \/ \E first_set_context \in BOOLEAN :
                    SetContext(ix, program, fee_payer, first_set_context)
                \/ ExecuteContext(ix, program, fee_payer)
    PROVE  SInv' /\ ContextInv' /\ Consented /\ Moves
<1>0. program \in Owner
  BY DEF Owner
<1>1. CASE InvokeCpi(ix, program)
  <2>1. /\ cpi_signer_checks(ix, program) /\ process(ix, program) /\ caller' = program
        /\ cpi_context_account' = cpi_context_account
    BY <1>1 DEF InvokeCpi
  <2>2. SInv' /\ Moves /\ Effect(ix)
    BY <2>1, ProcessEffect
  <2>3. Consented
    BY <2>1, <2>2, OwnContribution, ContributedConsented
  <2> QED
    BY <2>1, <2>2, <2>3 DEF ContextInv
<1>2. ASSUME NEW fee_payer \in Payer, NEW first_set_context \in BOOLEAN,
             SetContext(ix, program, fee_payer, first_set_context)
      PROVE  SInv' /\ ContextInv' /\ Consented /\ Moves
  <2> DEFINE part == Cleaned(ix, program, fee_payer)
  <2>1. /\ cpi_signer_checks(ix, program) /\ UNCHANGED systemVars
        /\ MaySet(fee_payer, first_set_context)
        /\ cpi_context_account' =
            IF first_set_context THEN [fee_payer |-> fee_payer, context |-> <<part>>]
            ELSE [cpi_context_account EXCEPT !.context = Append(@, part)]
    BY <1>2 DEF SetContext, set_cpi_context
  <2>2. part \in Part /\ PartOwned(part) /\ part.payer = fee_payer
    BY <1>0, <2>1, CleanedOwned
  <2> HIDE DEF part
  <2>3. ContextInv'
    <3>1. CASE first_set_context
      BY <2>1, <2>2, <3>1, FirstPartOK DEF ContextInv
    <3>2. CASE ~first_set_context
      <4>1. part.payer = cpi_context_account.fee_payer
        BY <2>1, <2>2, <3>2 DEF MaySet
      <4>2. ContextOK([cpi_context_account EXCEPT !.context = Append(@, part)])
        BY <2>2, <4>1, NextPartOK DEF ContextInv
      <4> QED
        BY <2>1, <3>2, <4>2 DEF ContextInv
    <3> QED
      BY <3>1, <3>2
  <2> QED
    BY <2>1, <2>3, NothingConsented, NothingMoves DEF systemVars
<1>3. ASSUME NEW fee_payer \in Payer, ExecuteContext(ix, program, fee_payer)
      PROVE  SInv' /\ ContextInv' /\ Consented /\ Moves
  <2> DEFINE all == combine(ix, cpi_context_account.context)
  <2>1. /\ cpi_signer_checks(ix, program) /\ process(all, program) /\ caller' = program
        /\ cpi_context_account' = [fee_payer |-> NoPayer, context |-> <<>>]
    BY <1>3 DEF ExecuteContext, execute_cpi_context
  <2>2. all \in InstructionData /\ Contributed(all, program)
    BY <2>1, CombinedContribution DEF ContextInv
  <2> HIDE DEF all
  <2>3. SInv' /\ Moves /\ Effect(all)
    BY <2>1, <2>2, ProcessEffect
  <2>4. Consented
    BY <2>1, <2>2, <2>3, ContributedConsented
  <2>5. ContextInv'
    BY <2>1, EmptyContextOK DEF ContextInv
  <2> QED
    BY <2>3, <2>4, <2>5
<1> QED
  BY <1>1, <1>2, <1>3

\* A call of the test program or of the token program.
CallOK(c) == c.ix \in InstructionData /\ c.invoking_program \in Owner /\ c.fee_payer \in Payer

\* invoke_cpi of any call preserves the invariant, with the consent of owners.
LEMMA CallStep ==
    ASSUME SInv, ContextInv, NEW c, CallOK(c), process_invoke_cpi(c)
    PROVE  SInv' /\ ContextInv' /\ Consented /\ Moves
<1> DEFINE ix == Executed(c)
           program == c.invoking_program
<1>1. /\ cpi_signer_checks(c.ix, program)
      /\ c.ix \in InstructionData /\ program \in Owner /\ c.fee_payer \in Payer
      /\ caller' = program
  BY DEF CallOK, process_invoke_cpi, InvokeCpiAccepts
<1>2. /\ Commit(ix)
      /\ insert_nullifiers(ix.inputs) /\ insert_addresses(ix.new_addresses)
      /\ append_outputs(ix.outputs, ix.remaining)
      /\ compress_or_decompress_lamports(ix.transfer)
  <2>1. Commit(ix)
    BY Zenon DEF process_invoke_cpi
  <2> HIDE DEF ix
  <2> QED
    BY <2>1 DEF Commit
<1>3. cpi_context_account' =
            IF Sets(c) THEN [fee_payer |-> c.fee_payer,
                             context |-> <<Cleaned(c.ix, program, c.fee_payer)>>]
            ELSE IF Executes(c) THEN [fee_payer |-> NoPayer, context |-> <<>>]
            ELSE cpi_context_account
  BY Zenon DEF process_invoke_cpi
<1>4. CASE Sets(c)
  <2>1. ix = InvokeInstruction(<<>>, <<>>, <<>>, None, c.ix.remaining)
    BY <1>4 DEF Executed
  <2>2. /\ ix.inputs = <<>> /\ ix.outputs = <<>> /\ ix.new_addresses = <<>> /\ ix.transfer = None
    BY <2>1 DEF InvokeInstruction
  <2> HIDE DEF ix
  <2>3. nullified' = nullified /\ addresses' = addresses
    BY <1>2, <2>2 DEF insert_nullifiers, Nullified, insert_addresses, Inserted, Range
  <2>4. sol_pool' = sol_pool /\ returned' = returned
    <3>1. Compressed(None) = 0 /\ Returned(None) = 0
      BY DEF Compressed, Returned
    <3>2. sol_pool \in Nat /\ returned \in Nat
      BY DEF SInv, SystemTypeOK
    <3>3. /\ sol_pool' = sol_pool + Compressed(None) + Returned(None)
          /\ returned' = returned + Returned(None)
      BY <1>2, <2>2 DEF compress_or_decompress_lamports, PoolAfterTransfer
    <3> QED
      BY <3>1, <3>2, <3>3
  <2>5. trees' = trees
    <3>1. Hashes(<<>>, ix.remaining) = <<>>
      BY DEF Hashes
    <3>2. ASSUME NEW t \in Tree PROVE trees[t] \o Batch(<<>>, t) = trees[t]
      <4>1. <<>> \in Seq(Leaf) /\ Len(<<>>) = 0
        BY EmptySeq
      <4>2. Collects(Batch(<<>>, t), <<>>, 0, t)
        BY <4>1, BatchCollects
      <4>3. Batch(<<>>, t) \in Seq(Leaf) /\ Len(Batch(<<>>, t)) = 0
        <5>1. Earlier(<<>>, 0, t) = {}
          BY DEF Earlier
        <5> QED
          BY <4>2, <5>1, FS_EmptySet DEF Collects
      <4>4. Batch(<<>>, t) = <<>>
        BY <4>3, EmptySeq
      <4>5. trees[t] \in Seq(Leaf)
        BY DEF SInv, SystemTypeOK
      <4> QED
        BY <4>4, <4>5, ConcatEmptySeq
    <3>3. trees \in [Tree -> Seq(Leaf)]
      BY DEF SInv, SystemTypeOK
    <3>4. trees' = [t \in Tree |-> trees[t] \o Batch(<<>>, t)]
      BY <1>2, <2>2, <3>1 DEF append_outputs, Appended
    <3> QED
      BY <3>2, <3>3, <3>4
  <2>6. UNCHANGED stateVars
    BY <2>3, <2>4, <2>5 DEF stateVars
  <2>7. ContextInv'
    BY <1>1, <1>3, <1>4, CleanedOwned, FirstPartOK DEF ContextInv
  <2> QED
    BY <2>6, <2>7, NothingConsented, NothingMoves
<1>5. CASE ~Sets(c) /\ Executes(c)
  <2>1. ix = combine(c.ix, cpi_context_account.context)
    BY <1>5 DEF Executed
  <2>2. ix \in InstructionData /\ Contributed(ix, program)
    BY <1>1, <2>1, CombinedContribution DEF ContextInv
  <2>3. Valid(ix, program)
    BY <1>5, <2>1 DEF process_invoke_cpi, InvokeCpiAccepts
  <2> HIDE DEF ix
  <2>4. process(ix, program)
    BY <1>2, <2>3 DEF process
  <2>5. SInv' /\ Moves /\ Effect(ix)
    BY <2>2, <2>4, ProcessEffect
  <2>6. Consented
    BY <1>1, <2>2, <2>5, ContributedConsented
  <2>7. ContextInv'
    BY <1>3, <1>5, EmptyContextOK DEF ContextInv
  <2> QED
    BY <2>5, <2>6, <2>7
<1>6. CASE ~Sets(c) /\ ~Executes(c)
  <2>1. ix = c.ix /\ c.cpi_context = None
    BY <1>6 DEF Executed, Sets, Executes
  <2>2. Valid(ix, program)
    BY <2>1 DEF process_invoke_cpi, InvokeCpiAccepts
  <2> HIDE DEF ix
  <2>3. process(ix, program)
    BY <1>2, <2>2 DEF process
  <2>4. SInv' /\ Moves /\ Effect(ix)
    BY <1>1, <2>1, <2>3, ProcessEffect
  <2>5. Consented
    BY <1>1, <2>1, <2>4, OwnContribution, ContributedConsented
  <2>6. ContextInv'
    BY <1>3, <1>6 DEF ContextInv
  <2> QED
    BY <2>4, <2>5, <2>6
<1> QED
  BY <1>4, <1>5, <1>6

-----------------------------------------------------------------------------
\* The calls of FailingCallsFail are refused, each by the check it is meant to
\* get around: no invariant is needed.
LEMMA FailingCreation ==
    ASSUME NEW self \in Program, NEW signer \in Payer, NEW t, NEW address,
           NEW mode \in CreatePdaMode \ {"ProgramIsSigner"}
    PROVE  ~InvokeCpiAccepts(process_create_pda(self, signer, t, address, mode))
<1> DEFINE pda == create_compressed_pda_data(address, self)
           ix == create_pda_instruction(t, address, pda)
           c == process_create_pda(self, signer, t, address, mode)
<1>1. signer # self
  BY CpiTestAssumption
<1>2. /\ pda = [merkle_tree_index |-> 0, owner |-> self, lamports |-> 0, address |-> address,
                data |-> TRUE]
      /\ ix = [inputs |-> <<>>, outputs |-> <<pda>>, new_addresses |-> <<address>>,
               transfer |-> None, remaining |-> <<t>>]
  BY DEF create_compressed_pda_data, create_pda_instruction, InvokeInstruction
<1>3. CASE mode = "ProgramIsNotSigner"
  <2>1. c.seed = "no_seeds" /\ c.invoking_program = self /\ c.authority = <<"keypair", signer>>
    BY <1>3 DEF process_create_pda, cpi_compressed_pda_transfer_as_non_program, CpiCall, keypair
  <2> HIDE DEF c
  <2>2. ~cpi_signer_check(c)
    BY <2>1 DEF cpi_signer_check, derive
  <2> QED
    BY <2>2 DEF InvokeCpiAccepts, c
<1>4. CASE mode # "ProgramIsNotSigner"
  <2>1. c = cpi_compressed_pda_transfer_as_program(self, signer, ix, mode)
    BY <1>4 DEF process_create_pda
  <2>2. /\ c.seed = IF mode = "InvalidSignerSeeds" THEN "cpi_signer1" ELSE "cpi_signer"
        /\ c.invoking_program = IF mode = "InvalidInvokingProgram" THEN signer ELSE self
        /\ c.authority = <<"cpi_signer", self>>
        /\ mode = "WriteToAccountNotOwned" =>
            c.ix = [ix EXCEPT !.outputs = <<[ix.outputs[1] EXCEPT !.owner = signer]>>]
        /\ mode = "NoData" =>
            c.ix = [ix EXCEPT !.outputs = <<[ix.outputs[1] EXCEPT !.data = FALSE]>>]
    <3> HIDE DEF ix, c
    <3> QED
      BY <2>1 DEF cpi_compressed_pda_transfer_as_program, CpiCall, derive
  <2> HIDE DEF c
  <2>3. CASE mode \in {"InvalidSignerSeeds", "InvalidInvokingProgram"}
    <3>1. ~cpi_signer_check(c)
      BY <1>1, <2>2, <2>3 DEF cpi_signer_check, derive
    <3> QED
      BY <3>1 DEF InvokeCpiAccepts, c
  <2>4. CASE mode = "WriteToAccountNotOwned"
    <3>1. c.ix.outputs = <<[pda EXCEPT !.owner = signer]>> /\ c.invoking_program = self
      <4> HIDE DEF ix, pda
      <4>1. ix.outputs = <<pda>>
        BY <1>2
      <4>2. "outputs" \in DOMAIN ix
        BY <1>2
      <4>3. ix.outputs[1] = pda
        BY <4>1
      <4> QED
        BY <2>2, <2>4, <4>2, <4>3
    <3>2. 1 \in DOMAIN c.ix.outputs /\ c.ix.outputs[1].data /\ c.ix.outputs[1].owner = signer
      BY <1>2, <3>1
    <3>3. ~cpi_signer_checks(c.ix, c.invoking_program)
      BY <1>1, <3>1, <3>2 DEF cpi_signer_checks
    <3> QED
      BY <3>3 DEF InvokeCpiAccepts, c
  <2>5. CASE mode = "NoData"
    <3>1. c.ix.outputs = <<[pda EXCEPT !.data = FALSE]>> /\ c.invoking_program = self
      <4> HIDE DEF ix, pda
      <4>1. ix.outputs = <<pda>>
        BY <1>2
      <4>2. "outputs" \in DOMAIN ix
        BY <1>2
      <4>3. ix.outputs[1] = pda
        BY <4>1
      <4> QED
        BY <2>2, <2>5, <4>2, <4>3
    <3>2. 1 \in DOMAIN c.ix.outputs /\ ~c.ix.outputs[1].data /\ c.ix.outputs[1].owner = self
      BY <1>2, <3>1
    <3>3. ~cpi_signer_checks(c.ix, c.invoking_program)
      BY <3>1, <3>2 DEF cpi_signer_checks
    <3> QED
      BY <3>3 DEF InvokeCpiAccepts, c
  <2> QED
    BY <1>4, <2>3, <2>4, <2>5 DEF CreatePdaMode
<1> QED
  BY <1>3, <1>4

\* The two uses of a CPI context are not None.
LEMMA ContextIsSome == Set # None /\ Execute # None /\ ~Execute.set_context
<1>1. Set \in [set_context : BOOLEAN, first_set_context : BOOLEAN]
  BY DEF Set
<1>2. Execute \in [set_context : BOOLEAN, first_set_context : BOOLEAN]
  BY DEF Execute
<1>3. ~Execute.set_context
  BY DEF Execute
<1> QED
  BY <1>1, <1>2, <1>3, CpiTestAssumption

\* The invalidations that the test expects to fail are refused.
LEMMA FailingInvalidation ==
    ASSUME NEW self \in Program, NEW token \in Program \ {self}, NEW signer \in Payer, NEW leaf, NEW mode, NEW c,
           c = process_invalidate_not_owned_compressed_account(self, token, signer, leaf, mode),
           \/ leaf.data /\ mode \in InvalidateMode \ {"NotOwnedCompressedAccount", "CpiContextEmpty"}
           \/ leaf.owner = token /\ mode = "NotOwnedCompressedAccount"
    PROVE  ~InvokeCpiAccepts(c)
<1>1. signer # self /\ token # self
  BY CpiTestAssumption
<1>2. Set # None
  BY ContextIsSome
<1>3. /\ c.seed = IF mode = "CpiContextInvalidSignerSeeds" THEN "cpi_signer1" ELSE "cpi_signer"
      /\ c.invoking_program = IF mode = "CpiContextInvalidInvokingProgram" THEN signer ELSE self
      /\ c.authority = <<"cpi_signer", self>>
      /\ c.ix.inputs = <<[merkle_tree_index |-> 0, leaf |-> leaf]>>
      /\ c.ix.outputs = IF mode = "CpiContextWriteToNotOwnedAccount"
                        THEN <<Successor(leaf, token)>> ELSE <<>>
  BY DEF process_invalidate_not_owned_compressed_account, CpiCall, derive,
         create_invalidate_not_owned_account_instruction, InvokeInstruction
<1>4. /\ mode = "CpiContextMissing" => c.cpi_context = None /\ c.account
      /\ mode = "CpiContextAccountMissing" => c.cpi_context = Set /\ ~c.account
  BY DEF process_invalidate_not_owned_compressed_account, CpiCall, derive,
         create_invalidate_not_owned_account_instruction, InvokeInstruction
<1>5. CASE mode \in {"CpiContextInvalidSignerSeeds", "CpiContextInvalidInvokingProgram"}
  <2>1. ~cpi_signer_check(c)
    BY <1>1, <1>3, <1>5 DEF cpi_signer_check, derive
  <2> QED
    BY <2>1 DEF InvokeCpiAccepts
<1>6. CASE mode \in {"CpiContextMissing", "CpiContextAccountMissing"}
  <2>1. ~ContextDefined(c)
    BY <1>2, <1>4, <1>6 DEF ContextDefined
  <2> QED
    BY <2>1 DEF InvokeCpiAccepts
<1>7. CASE mode = "CpiContextWriteToNotOwnedAccount"
  <2>1. /\ 1 \in DOMAIN c.ix.outputs /\ c.ix.outputs[1].data = leaf.data
        /\ c.ix.outputs[1].owner = token
    BY <1>3, <1>7 DEF Successor
  <2>2. c.ix.outputs[1].data
    BY <1>7, <2>1
  <2>3. ~cpi_signer_checks(c.ix, c.invoking_program)
    BY <1>1, <1>3, <1>7, <2>1, <2>2 DEF cpi_signer_checks
  <2> QED
    BY <2>3 DEF InvokeCpiAccepts
<1>8. CASE mode = "NotOwnedCompressedAccount"
  <2>1. 1 \in DOMAIN c.ix.inputs /\ c.ix.inputs[1].leaf.owner = token
    BY <1>3, <1>8
  <2>2. ~cpi_signer_checks(c.ix, c.invoking_program)
    BY <1>1, <1>3, <1>8, <2>1 DEF cpi_signer_checks
  <2> QED
    BY <2>2 DEF InvokeCpiAccepts
<1> QED
  BY <1>5, <1>6, <1>7, <1>8 DEF InvalidateMode

\* All calls that the test expects to fail are refused.
LEMMA FailingCallsAreRefused == FailingCallsFail
<1>1. SUFFICES ASSUME NEW self \in Program, NEW token \in Program \ {self}, NEW signer \in Payer
               PROVE  /\ \A c \in FailingCalls(self, token, signer) : ~InvokeCpiAccepts(c)
                      /\ \A leaf \in OwnedBy(self) :
                            cpi_context_account.fee_payer # signer =>
                                ~InvokeCpiAccepts(write_into_cpi_account(self, signer, leaf))
  BY Zenon DEF FailingCallsFail
<1>2. ASSUME NEW c \in FailingCalls(self, token, signer) PROVE ~InvokeCpiAccepts(c)
  <2>1. CASE \E t \in Tree, address \in Address \ addresses, mode \in CreatePdaMode \ {"ProgramIsSigner"} :
                c = process_create_pda(self, signer, t, address, mode)
    BY <2>1, FailingCreation
  <2>2. CASE \E leaf \in {l \in OwnedBy(self) : l.data},
                mode \in InvalidateMode \ {"NotOwnedCompressedAccount", "CpiContextEmpty"} :
                c = process_invalidate_not_owned_compressed_account(self, token, signer, leaf, mode)
    BY <2>2, FailingInvalidation
  <2>3. CASE \E leaf \in OwnedBy(token) :
                c = process_invalidate_not_owned_compressed_account(self, token, signer, leaf,
                                                                    "NotOwnedCompressedAccount")
    BY <2>3, FailingInvalidation DEF OwnedBy
  <2> QED
    BY <2>1, <2>2, <2>3 DEF FailingCalls
<1>3. ASSUME NEW leaf \in OwnedBy(self), cpi_context_account.fee_payer # signer
      PROVE  ~InvokeCpiAccepts(write_into_cpi_account(self, signer, leaf))
  <2> DEFINE c == write_into_cpi_account(self, signer, leaf)
  <2>1. c.cpi_context = Execute /\ c.fee_payer = signer
    BY DEF write_into_cpi_account, CpiCall
  <2> HIDE DEF c
  <2>2. Executes(c)
    BY <2>1, ContextIsSome DEF Executes
  <2>3. ~MayExecute(c.fee_payer)
    BY <1>3, <2>1 DEF MayExecute
  <2> QED
    BY <2>2, <2>3 DEF InvokeCpiAccepts, c
<1> QED
  BY <1>2, <1>3

-----------------------------------------------------------------------------
\* The instructions of other programs.
LEMMA CpiInstructionType ==
    ASSUME trees \in [Tree -> Seq(Leaf)], NEW ix \in CpiInstruction
    PROVE  ix \in InstructionData
<1>1. PICK remaining \in Remaining :
        ix \in [inputs : AtMost({i \in Input(remaining) : i.leaf \notin nullified}, MaxAccounts),
                outputs : AtMost(Output(remaining), MaxAccounts),
                new_addresses : AtMost(Address \ addresses, MaxNewAddresses),
                transfer : Transfer, remaining : {remaining}]
  BY DEF CpiInstruction
<1>2. remaining \in Seq(Tree)
  BY SystemProgramAssumption
<1>3. ix.inputs \in Seq(InputAccount)
  <2> DEFINE S == {i \in Input(remaining) : i.leaf \notin nullified}
  <2>1. ix.inputs \in AtMost(S, MaxAccounts) /\ S \in SUBSET Input(remaining)
    BY <1>1
  <2> HIDE DEF S
  <2> QED
    BY <1>2, <2>1, InputsType
<1>4. ix.outputs \in Seq(OutputAccount)
  <2>1. ix.outputs \in AtMost(Output(remaining), MaxAccounts)
    BY <1>1
  <2>2. OutputsOK(ix.outputs, remaining)
    BY <1>2, <2>1, OutputsType
  <2> QED
    BY <2>2 DEF OutputsOK
<1>5. ix.new_addresses \in Seq(Address)
  BY <1>1, AddressesType
<1>6. ix.transfer \in Transfer /\ ix.remaining \in Seq(Tree)
  BY <1>1, <1>2
<1>7. ix = [inputs |-> ix.inputs, outputs |-> ix.outputs, new_addresses |-> ix.new_addresses,
            transfer |-> ix.transfer, remaining |-> ix.remaining]
  BY <1>1
<1> QED
  BY <1>3, <1>4, <1>5, <1>6, <1>7 DEF InstructionData

\* An instruction with at most one input, output and address each.
LEMMA SmallInstruction ==
    ASSUME NEW inputs, inputs = <<>> \/ \E a \in InputAccount : inputs = <<a>>,
           NEW outputs, outputs = <<>> \/ \E o \in OutputAccount : outputs = <<o>>,
           NEW new_addresses, new_addresses = <<>> \/ \E a \in Address : new_addresses = <<a>>,
           NEW t \in Tree
    PROVE  InvokeInstruction(inputs, outputs, new_addresses, None, <<t>>) \in InstructionData
<1>1. /\ inputs \in Seq(InputAccount) /\ outputs \in Seq(OutputAccount)
      /\ new_addresses \in Seq(Address) /\ <<t>> \in Seq(Tree)
  <2>1. ASSUME NEW S, NEW a \in S PROVE <<a>> \in Seq(S)
    OBVIOUS
  <2>2. inputs \in Seq(InputAccount)
    BY <2>1, EmptySeq
  <2>3. outputs \in Seq(OutputAccount)
    BY <2>1, EmptySeq
  <2>4. new_addresses \in Seq(Address)
    BY <2>1, EmptySeq
  <2> QED
    BY <2>1, <2>2, <2>3, <2>4
<1>2. None \in Transfer
  BY DEF Transfer
<1> QED
  BY <1>1, <1>2 DEF InvokeInstruction, InstructionData

\* An instruction that consumes one account.
LEMMA ConsumingInstruction ==
    ASSUME NEW leaf \in Leaf, NEW outputs, outputs = <<>> \/ \E o \in OutputAccount : outputs = <<o>>
    PROVE  create_invalidate_not_owned_account_instruction(leaf, outputs) \in InstructionData
<1>1. [merkle_tree_index |-> 0, leaf |-> leaf] \in InputAccount
  BY DEF InputAccount
<1>2. leaf.tree \in Tree
  BY DEF Leaf
<1> QED
  BY <1>1, <1>2, SmallInstruction DEF create_invalidate_not_owned_account_instruction

\* The account that replaces a leaf is an output.
LEMMA SuccessorType ==
    ASSUME NEW leaf \in Leaf, NEW owner \in Owner
    PROVE  /\ Successor(leaf, owner) \in OutputAccount
           /\ [Successor(leaf, owner) EXCEPT !.lamports = leaf.lamports] \in OutputAccount
<1>1. /\ leaf.address \in Address \cup {None} /\ leaf.data \in BOOLEAN /\ leaf.lamports \in Nat
  BY DEF Leaf
<1> QED
  BY <1>1 DEF Successor, OutputAccount

\* The calls of the test program.
LEMMA CreationCall ==
    ASSUME NEW self \in Program, NEW signer \in Payer, NEW t \in Tree, NEW address \in Address
    PROVE  CallOK(process_create_pda(self, signer, t, address, "ProgramIsSigner"))
<1> DEFINE pda == create_compressed_pda_data(address, self)
           ix == create_pda_instruction(t, address, pda)
           c == process_create_pda(self, signer, t, address, "ProgramIsSigner")
<1>1. pda \in OutputAccount
  BY DEF create_compressed_pda_data, OutputAccount, Owner
<1>2. ix \in InstructionData
  <2> HIDE DEF pda
  <2> QED
    BY <1>1, SmallInstruction DEF create_pda_instruction
<1>3. c.ix = ix /\ c.invoking_program = self /\ c.fee_payer = signer
  BY DEF process_create_pda, cpi_compressed_pda_transfer_as_program, CpiCall
<1> HIDE DEF ix, c
<1> QED
  BY <1>2, <1>3 DEF CallOK, c, Owner

\* The invalidation of the test program is a call.
LEMMA InvalidationCall ==
    ASSUME NEW self \in Program, NEW token \in Program, NEW signer \in Payer, NEW leaf \in Leaf, NEW mode
    PROVE  CallOK(process_invalidate_not_owned_compressed_account(self, token, signer, leaf, mode))
<1> DEFINE outputs == IF mode = "CpiContextWriteToNotOwnedAccount"
                      THEN <<Successor(leaf, token)>> ELSE <<>>
           c == process_invalidate_not_owned_compressed_account(self, token, signer, leaf, mode)
<1>1. /\ c.ix = create_invalidate_not_owned_account_instruction(leaf, outputs)
      /\ c.invoking_program \in {self, signer} /\ c.fee_payer = signer
  BY DEF process_invalidate_not_owned_compressed_account, CpiCall
<1>2. Successor(leaf, token) \in OutputAccount
  BY SuccessorType DEF Owner
<1>3. c.ix \in InstructionData
  <2>1. outputs = <<>> \/ \E o \in OutputAccount : outputs = <<o>>
    BY <1>2
  <2> HIDE DEF outputs, c
  <2> QED
    BY <1>1, <2>1, ConsumingInstruction
<1> HIDE DEF c
<1> QED
  BY <1>1, <1>3 DEF CallOK, c, Owner

\* What the test has the token program do is a call.
LEMMA TokenCallOK ==
    ASSUME NEW token \in Program, NEW fee_payer \in Payer, NEW leaf \in Leaf
    PROVE  CallOK(TokenCall(token, fee_payer, leaf))
<1> DEFINE out == [Successor(leaf, token) EXCEPT !.lamports = leaf.lamports]
           c == TokenCall(token, fee_payer, leaf)
<1>1. /\ c.ix = create_invalidate_not_owned_account_instruction(leaf, <<out>>)
      /\ c.invoking_program = token /\ c.fee_payer = fee_payer
  BY DEF TokenCall, CpiCall
<1>2. out \in OutputAccount
  BY SuccessorType DEF Owner
<1> HIDE DEF out, c
<1>3. c.ix \in InstructionData
  BY <1>1, <1>2, ConsumingInstruction
<1> QED
  BY <1>1, <1>3 DEF CallOK, c, Owner

\* The write into the context account is a call.
LEMMA WriteCallOK ==
    ASSUME NEW self \in Program, NEW signer \in Payer, NEW leaf \in Leaf
    PROVE  CallOK(write_into_cpi_account(self, signer, leaf))
<1> DEFINE out == Successor(leaf, self)
           c == write_into_cpi_account(self, signer, leaf)
<1>1. /\ c.ix = create_invalidate_not_owned_account_instruction(leaf, <<out>>)
      /\ c.invoking_program = self /\ c.fee_payer = signer
  BY DEF write_into_cpi_account, CpiCall
<1>2. out \in OutputAccount
  BY SuccessorType DEF Owner
<1> HIDE DEF out, c
<1>3. c.ix \in InstructionData
  BY <1>1, <1>2, ConsumingInstruction
<1> QED
  BY <1>1, <1>3 DEF CallOK, c, Owner

-----------------------------------------------------------------------------
\* What waits for the second invocation of a transaction.
PendingInv == pending # None => CallOK(pending.call) /\ ContextOK(pending.before)

CpiInv == SInv /\ ContextInv /\ PendingInv

\* The transactions of the test program, up to the second invocation.
LEMMA CreatePdaStep ==
    ASSUME CpiInv, NEW self \in Program, create_compressed_pda(self)
    PROVE  CpiInv' /\ Consented /\ Moves
<1>1. PICK signer \in Payer, t \in Tree, address \in Address \ addresses, mode \in CreatePdaMode :
        /\ process_invoke_cpi(process_create_pda(self, signer, t, address, mode))
        /\ UNCHANGED pending
  BY Zenon DEF create_compressed_pda
<1>2. mode = "ProgramIsSigner"
  <2>1. InvokeCpiAccepts(process_create_pda(self, signer, t, address, mode))
    BY <1>1, Zenon DEF process_invoke_cpi
  <2> QED
    BY <2>1, FailingCreation
<1> DEFINE c == process_create_pda(self, signer, t, address, "ProgramIsSigner")
<1>3. process_invoke_cpi(c)
  BY <1>1, <1>2
<1>4. CallOK(c)
  BY CreationCall
<1> HIDE DEF c
<1>5. SInv' /\ ContextInv' /\ Consented /\ Moves
  BY <1>3, <1>4, CallStep DEF CpiInv
<1> QED
  BY <1>1, <1>5 DEF CpiInv, PendingInv

\* The transactions of the test program that consume accounts.
LEMMA InputAccountsStep ==
    ASSUME CpiInv, NEW self \in Program, NEW token \in Program \ {self},
           with_input_accounts(self, token)
    PROVE  CpiInv' /\ Consented /\ Moves
<1>0. \A program : OwnedBy(program) \subseteq Leaf
  BY LeavesOfTrees DEF CpiInv, SInv, SystemTypeOK, OwnedBy, Live
<1>1. PICK signer \in Payer :
        \/ \E leaf \in OwnedBy(self), mode \in InvalidateMode :
            /\ process_invoke_cpi(
                process_invalidate_not_owned_compressed_account(self, token, signer, leaf, mode))
            /\ UNCHANGED pending
        \/ \E leaf \in OwnedBy(self), token_leaf \in {l \in OwnedBy(token) : l.data},
              invalid_fee_payer \in Payer \ {signer}, mode \in TokenMode :
            cpi_context_tx(self, token, signer, invalid_fee_payer, leaf, token_leaf, mode)
  BY Zenon DEF with_input_accounts
<1>2. ASSUME NEW leaf \in OwnedBy(self), NEW mode \in InvalidateMode,
             process_invoke_cpi(
                process_invalidate_not_owned_compressed_account(self, token, signer, leaf, mode)),
             UNCHANGED pending
      PROVE  CpiInv' /\ Consented /\ Moves
  <2> DEFINE c == process_invalidate_not_owned_compressed_account(self, token, signer, leaf, mode)
  <2>1. CallOK(c)
    BY <1>0, InvalidationCall
  <2>2. process_invoke_cpi(c)
    BY <1>2
  <2> HIDE DEF c
  <2>3. SInv' /\ ContextInv' /\ Consented /\ Moves
    BY <2>1, <2>2, CallStep DEF CpiInv
  <2> QED
    BY <1>2, <2>3 DEF CpiInv, PendingInv
<1>3. ASSUME NEW leaf \in OwnedBy(self), NEW token_leaf \in {l \in OwnedBy(token) : l.data},
             NEW invalid_fee_payer \in Payer \ {signer}, NEW mode \in TokenMode,
             cpi_context_tx(self, token, signer, invalid_fee_payer, leaf, token_leaf, mode)
      PROVE  CpiInv' /\ Consented /\ Moves
  <2> DEFINE c == FirstCall(token, signer, invalid_fee_payer, token_leaf, mode)
             second == write_into_cpi_account(self, signer, leaf)
  <2>1. process_invoke_cpi(c) /\ pending' = [call |-> second, before |-> cpi_context_account]
    BY <1>3, Zenon DEF cpi_context_tx
  <2>2. CallOK(c)
    <3>1. \E payer \in Payer : c = TokenCall(token, payer, token_leaf)
      <4>1. CASE mode = "CpiContextFeePayerMismatch"
        BY <4>1 DEF FirstCall, cpi_compressed_token_transfer
      <4>2. CASE mode \in {"Approve", "Revoke"}
        BY <4>2 DEF FirstCall, cpi_compressed_token_approve_revoke
      <4>3. CASE mode \in {"Freeze", "Thaw"}
        BY <4>3 DEF FirstCall, cpi_compressed_token_freeze_or_thaw
      <4>4. CASE mode = "Burn"
        BY <4>4 DEF FirstCall, cpi_compressed_token_burn
      <4> HIDE DEF c
      <4> QED
        BY <4>1, <4>2, <4>3, <4>4 DEF TokenMode
    <3> HIDE DEF c
    <3> QED
      BY <1>0, <3>1, TokenCallOK
  <2>3. CallOK(second)
    BY <1>0, WriteCallOK
  <2> HIDE DEF c, second
  <2>4. SInv' /\ ContextInv' /\ Consented /\ Moves
    BY <2>1, <2>2, CallStep DEF CpiInv
  <2>5. PendingInv'
    <3>1. pending'.call = second /\ pending'.before = cpi_context_account
      BY <2>1
    <3> QED
      BY <2>3, <3>1 DEF PendingInv, CpiInv, ContextInv
  <2> QED
    BY <2>4, <2>5 DEF CpiInv
<1> QED
  BY <1>1, <1>2, <1>3

\* The second invocation: it is executed, or what the first has cached is gone.
LEMMA SecondStep ==
    ASSUME CpiInv, Second
    PROVE  CpiInv' /\ Consented /\ Moves
<1>1. CallOK(pending.call) /\ ContextOK(pending.before) /\ pending' = None
  BY DEF CpiInv, PendingInv, Second
<1>2. CASE InvokeCpiAccepts(pending.call)
  <2> DEFINE c == pending.call
  <2>1. process_invoke_cpi(c) /\ CallOK(c)
    BY <1>1, <1>2, Zenon DEF Second
  <2> HIDE DEF c
  <2>2. SInv' /\ ContextInv' /\ Consented /\ Moves
    BY <2>1, CallStep DEF CpiInv
  <2> QED
    BY <1>1, <2>2 DEF CpiInv, PendingInv
<1>3. CASE ~InvokeCpiAccepts(pending.call)
  <2>1. cpi_context_account' = pending.before /\ UNCHANGED systemVars
    BY <1>3, Zenon DEF Second
  <2>2. SInv' /\ Consented /\ Moves
    BY <2>1, NothingConsented, NothingMoves DEF CpiInv, systemVars
  <2>3. ContextInv'
    BY <1>1, <2>1 DEF ContextInv
  <2> QED
    BY <1>1, <2>2, <2>3 DEF CpiInv, PendingInv
<1> QED
  BY <1>2, <1>3

\* The transactions of all other programs.
LEMMA OtherProgramsStep ==
    ASSUME CpiInv, OtherPrograms
    PROVE  CpiInv' /\ Consented /\ Moves
<1>1. PICK ix \in CpiInstruction, program \in Program :
        \/ InvokeCpi(ix, program)
        \/ \E fee_payer \in Payer :
            \/ \E first_set_context \in BOOLEAN :
                SetContext(ix, program, fee_payer, first_set_context)
            \/ ExecuteContext(ix, program, fee_payer)
  <2> DEFINE S == {ix \in CpiInstruction :
                    /\ ix.new_addresses = <<>>
                    /\ \A j \in DOMAIN ix.outputs : ix.outputs[j].address = None}
  <2>1. CpiNextWith(S)
    BY DEF OtherPrograms
  <2>2. S \subseteq CpiInstruction
    OBVIOUS
  <2> HIDE DEF S
  <2> QED
    BY <2>1, <2>2, Zenon DEF CpiNextWith
<1>2. ix \in InstructionData
  BY CpiInstructionType DEF CpiInv, SInv, SystemTypeOK
<1>3. SInv' /\ ContextInv' /\ Consented /\ Moves
  BY <1>1, <1>2, CpiStep DEF CpiInv
<1>4. pending' = pending
  BY DEF OtherPrograms
<1> QED
  BY <1>3, <1>4 DEF CpiInv, PendingInv

\* Every step of a transaction keeps the invariant, with the owners' consent.
LEMMA TestStep ==
    ASSUME CpiInv, TestNext
    PROVE  CpiInv' /\ Consented /\ Moves
<1>1. CASE OtherPrograms
  BY <1>1, OtherProgramsStep
<1>2. ASSUME NEW self \in Program, NEW token \in Program \ {self},
             create_compressed_pda(self) \/ with_input_accounts(self, token)
      PROVE  CpiInv' /\ Consented /\ Moves
  BY <1>2, CreatePdaStep, InputAccountsStep
<1>3. CASE Second
  BY <1>3, SecondStep
<1> QED
  BY <1>1, <1>2, <1>3, Zenon DEF TestNext

\* The invariant holds whatever programs cache, execute or fail to execute.
THEOREM CpiInvariant == TestSpec => []CpiInv
<1>1. TestInit => CpiInv
  <2>1. HAVE TestInit
  <2>2. SInv
    BY <2>1, InitSInv DEF TestInit, CpiInit
  <2>3. ContextInv
    BY <2>1, EmptyContextOK DEF TestInit, CpiInit, ContextInv
  <2> QED
    BY <2>1, <2>2, <2>3 DEF TestInit, CpiInv, PendingInv
<1>2. ASSUME CpiInv, [TestNext]_testVars PROVE CpiInv'
  <2>1. CASE TestNext
    BY <1>2, <2>1, TestStep
  <2>2. CASE UNCHANGED testVars
    <3>1. UNCHANGED systemVars /\ UNCHANGED <<cpi_context_account, pending>>
      BY <2>2 DEF testVars, vars
    <3>2. SInv'
      BY <1>2, <3>1, NothingMoves DEF CpiInv, systemVars
    <3> QED
      BY <1>2, <3>1, <3>2 DEF CpiInv, ContextInv, PendingInv
  <2> QED
    BY <1>2, <2>1, <2>2
<1> QED
  BY <1>1, <1>2, PTL DEF TestSpec

\* cpi_signer_checks, made when a part is cached and when it is executed, and
\* the fee payer kept with the parts, are enough: nobody's accounts are
\* consumed, or written in somebody's name, without a contribution of the
\* owner in an instruction of the same fee payer.
THEOREM CpiOwnersConsent == TestSpec => OwnersConsent
<1>1. ASSUME CpiInv, [TestNext]_testVars PROVE [Consented /\ FailingCallsFail]_testVars
  <2>1. CASE TestNext
    BY <1>1, <2>1, TestStep, FailingCallsAreRefused
  <2>2. CASE UNCHANGED testVars
    BY <2>2
  <2> QED
    BY <1>1, <2>1, <2>2
<1> QED
  BY <1>1, CpiInvariant, PTL DEF TestSpec, OwnersConsent

\* The two invariants of the system program hold for the instructions of
\* programs too, and for those put together from cached parts.
THEOREM CpiAccounts == TestSpec => [](HashedWhereAppended /\ PoolBacksAccounts)
<1>1. CpiInv => HashedWhereAppended /\ PoolBacksAccounts
  BY DEF CpiInv, SInv
<1> QED
  BY <1>1, CpiInvariant, PTL

\* The same for the addresses of their accounts.
THEOREM CpiAddressMoves == TestSpec => AddressMoves
<1>1. ASSUME CpiInv, [TestNext]_testVars PROVE [Moves]_systemVars
  <2>1. CASE TestNext
    BY <1>1, <2>1, TestStep
  <2>2. CASE UNCHANGED testVars
    BY <2>2 DEF testVars, vars
  <2> QED
    BY <1>1, <2>1, <2>2
<1> QED
  BY <1>1, CpiInvariant, PTL DEF TestSpec, AddressMoves, Moves
=============================================================================
