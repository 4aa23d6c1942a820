-------------------------- MODULE MerkleTreeProofs --------------------------
(***************************************************************************)
(* Proofs about ConcurrentMerkleTree and IndexedMerkleTree, for trees of   *)
(* every height, with every canopy and all sizes of the ring buffers.      *)
(***************************************************************************)
EXTENDS IndexedMerkleTree, SumTheorems

-----------------------------------------------------------------------------
\* Levels and indices.

\* The size of a subtree doubles from level to level.
LEMMA Pow2Values ==
    /\ Pow2[0] = 1
    /\ \A n \in 0 .. Height + 1 : Pow2[n] \in Nat /\ Pow2[n] > 0
    /\ \A n \in 0 .. Height : Pow2[n + 1] = 2 * Pow2[n]
<1> DEFINE N == Height + 1
           V == Nat \ {0}
           F == [i \in 1 .. N |-> [x \in V |-> 2 * x]]
<1>1. /\ N \in Nat /\ N - 1 = Height
      /\ \A n \in 1 .. N : n - 1 \in 0 .. N
      /\ \A n \in 0 .. Height : n + 1 \in 1 .. N /\ n + 1 - 1 = n
  BY SizeConstraints
<1> HIDE DEF N
<1>2. PICK f : Computes(f, 1, F, N, V)
  <2>1. 1 \in V /\ Rounds(F, N, V)
    BY DEF Rounds
  <2> QED
    BY <1>1, <2>1, RecursionExists
<1>3. f \in [0 .. N -> V] /\ f[0] = 1
  BY <1>2 DEF Computes
<1>4. ASSUME NEW n \in 1 .. N PROVE f[n] = 2 * f[n - 1]
  <2>1. f[n] = F[n][f[n - 1]]
    BY <1>2 DEF Computes
  <2>2. f[n - 1] \in V
    BY <1>1, <1>3
  <2> QED
    BY <2>1, <2>2
<1>5. f = [n \in 0 .. N |-> IF n = 0 THEN 1 ELSE 2 * f[n - 1]]
  BY <1>1, <1>3, <1>4
<1>6. Pow2 = [n \in 0 .. N |-> IF n = 0 THEN 1 ELSE 2 * Pow2[n - 1]]
  BY <1>5 DEF Pow2, N
<1>7. Pow2[0] = 1 /\ \A n \in 0 .. Height : Pow2[n + 1] = 2 * Pow2[n]
  BY <1>1, <1>6
<1> DEFINE Good == {n \in 0 .. N : Pow2[n] \in Nat /\ Pow2[n] > 0}
<1>8. 0 \in Good
  BY <1>1, <1>7
<1>9. \A k \in 0 .. N - 1 : k \in Good => k + 1 \in Good
  BY <1>1, <1>7
<1>10. \A n \in 0 .. N : n \in Good
  <2> HIDE DEF Good
  <2> QED
    BY <1>1, <1>8, <1>9, NumberInduction
<1> QED
  BY <1>7, <1>10 DEF N

\* Shifting: one level more is one more division by two.
LEMMA AboveValues ==
    ASSUME NEW i \in Nat
    PROVE  /\ Above(i, 0) = i
           /\ \A l \in 0 .. Height : Above(i, l) \in Nat
           /\ \A l \in Level : Above(i, l + 1) = Above(i, l) \div 2
<1> DEFINE F == [l \in 1 .. Height |-> [x \in Nat |-> x \div 2]]
           IsShift(g) == g = [l \in 0 .. Height |-> IF l = 0 THEN i ELSE g[l - 1] \div 2]
<1>1. /\ Height \in Nat /\ \A n \in 1 .. Height : n - 1 \in 0 .. Height
      /\ \A n \in Level : n + 1 \in 1 .. Height /\ n + 1 - 1 = n /\ n \in 0 .. Height
      /\ Level = 0 .. Height - 1
  BY SizeConstraints DEF Level
<1>2. PICK g : Computes(g, i, F, Height, Nat)
  <2>1. Rounds(F, Height, Nat)
    BY DEF Rounds
  <2> QED
    BY <1>1, <2>1, RecursionExists
<1>3. g \in [0 .. Height -> Nat] /\ g[0] = i
  BY <1>2 DEF Computes
<1>4. ASSUME NEW n \in 1 .. Height PROVE g[n] = g[n - 1] \div 2
  <2>1. g[n] = F[n][g[n - 1]]
    BY <1>2 DEF Computes
  <2>2. g[n - 1] \in Nat
    BY <1>1, <1>3
  <2> QED
    BY <2>1, <2>2
<1>5. IsShift(g)
  BY <1>1, <1>3, <1>4
<1>6. PICK f : IsShift(f) /\ \A l : Above(i, l) = f[l]
  <2> DEFINE f == CHOOSE f : IsShift(f)
  <2>1. IsShift(f)
    BY <1>5
  <2>2. \A l : Above(i, l) = f[l]
    BY DEF Above
  <2> QED
    BY <2>1, <2>2
<1>7. f[0] = i /\ \A l \in Level : f[l + 1] = f[l] \div 2
  BY <1>1, <1>6
<1> DEFINE Good == {l \in 0 .. Height : f[l] \in Nat}
<1>8. 0 \in Good
  BY <1>1, <1>7
<1>9. \A k \in 0 .. Height - 1 : k \in Good => k + 1 \in Good
  BY <1>1, <1>7
<1>10. \A n \in 0 .. Height : n \in Good
  <2> HIDE DEF Good
  <2> QED
    BY <1>1, <1>8, <1>9, NumberInduction
<1> QED
  BY <1>6, <1>7, <1>10

\* Levels are numbers, and the level above a level is one of the tree.
LEMMA LevelFacts ==
    /\ Height \in Nat /\ Height > 0 /\ Level = 0 .. Height - 1
    /\ 0 \in Level /\ 0 \in 0 .. Height /\ Height \in 0 .. Height
    /\ \A l \in Level : /\ l \in Nat /\ l \in 0 .. Height /\ l + 1 \in 0 .. Height
                        /\ l + 1 \in Nat /\ l < Height
    /\ \A l \in 0 .. Height : Height - l \in 0 .. Height + 1
BY SizeConstraints DEF Level

\* A number and its half.
LEMMA Half ==
    ASSUME NEW x \in Nat
    PROVE  /\ x \div 2 \in Nat
           /\ x % 2 = 0 => x = 2 * (x \div 2)
           /\ x % 2 # 0 => x = 2 * (x \div 2) + 1
OBVIOUS

\* Shifting keeps the order.
LEMMA AboveMonotone ==
    ASSUME NEW i \in Nat, NEW j \in Nat, i <= j, NEW l \in 0 .. Height
    PROVE  Above(i, l) <= Above(j, l)
<1> DEFINE Good == {k \in 0 .. Height : Above(i, k) <= Above(j, k)}
<1>1. 0 \in Good
  BY AboveValues, LevelFacts
<1>2. ASSUME NEW k \in 0 .. Height - 1, k \in Good PROVE k + 1 \in Good
  <2>1. k \in Level /\ k + 1 \in 0 .. Height
    BY LevelFacts
  <2>2. /\ Above(i, k) \in Nat /\ Above(i, k + 1) = Above(i, k) \div 2
        /\ Above(j, k) \in Nat /\ Above(j, k + 1) = Above(j, k) \div 2
    BY <2>1, AboveValues, LevelFacts
  <2>3. Above(i, k) <= Above(j, k)
    BY <1>2
  <2>4. Above(i, k + 1) <= Above(j, k + 1)
    BY <2>2, <2>3
  <2> QED
    BY <2>1, <2>4
<1> HIDE DEF Good
<1>3. l \in Good
  BY <1>1, <1>2, NumberInduction, LevelFacts
<1> QED
  BY <1>3 DEF Good

\* Two indices whose paths have met stay together.
LEMMA AboveAgree ==
    ASSUME NEW i \in Nat, NEW j \in Nat, NEW k \in 0 .. Height, Above(i, k) = Above(j, k),
           NEW l \in 0 .. Height, k <= l
    PROVE  Above(i, l) = Above(j, l)
<1> DEFINE Good == {m \in 0 .. Height : k <= m => Above(i, m) = Above(j, m)}
<1>1. 0 \in Good
  BY LevelFacts
<1>2. ASSUME NEW m \in 0 .. Height - 1, m \in Good PROVE m + 1 \in Good
  <2>1. m \in Level /\ m + 1 \in 0 .. Height
    BY LevelFacts
  <2>2. Above(i, m + 1) = Above(i, m) \div 2 /\ Above(j, m + 1) = Above(j, m) \div 2
    BY <2>1, AboveValues
  <2>3. k <= m => Above(i, m) = Above(j, m)
    BY <1>2
  <2>4. k <= m + 1 => Above(i, m + 1) = Above(j, m + 1)
    BY <2>1, <2>2, <2>3
  <2> QED
    BY <2>1, <2>4
<1> HIDE DEF Good
<1>3. l \in Good
  BY <1>1, <1>2, NumberInduction, LevelFacts
<1> QED
  BY <1>3 DEF Good

\* The nodes of a level are numbered up to its size; the root is node 0.
LEMMA AboveBound ==
    ASSUME NEW i \in LeafIndex
    PROVE  /\ i \in Nat
           /\ \A l \in 0 .. Height : Above(i, l) \in 0 .. Pow2[Height - l] - 1
           /\ Above(i, Height) = 0
<1>1. i \in Nat /\ i < Pow2[Height]
  BY Pow2Values, LevelFacts DEF LeafIndex
<1> DEFINE Good == {k \in 0 .. Height : Above(i, k) < Pow2[Height - k]}
<1>2. 0 \in Good
  <2>1. Height - 0 = Height
    BY LevelFacts
  <2> QED
    BY <1>1, <2>1, AboveValues, LevelFacts
<1>3. ASSUME NEW k \in 0 .. Height - 1, k \in Good PROVE k + 1 \in Good
  <2>1. k \in Level /\ k + 1 \in 0 .. Height
    BY LevelFacts
  <2>2. Above(i, k) \in Nat /\ Above(i, k + 1) \in Nat /\ Above(i, k + 1) = Above(i, k) \div 2
    BY <1>1, <2>1, AboveValues, LevelFacts
  <2>3. Pow2[Height - k] = 2 * Pow2[Height - (k + 1)] /\ Pow2[Height - (k + 1)] \in Nat
    <3>1. Height - (k + 1) \in 0 .. Height /\ Height - (k + 1) \in 0 .. Height + 1
      BY LevelFacts
    <3>2. Height - (k + 1) + 1 = Height - k
      BY LevelFacts
    <3> QED
      BY <3>1, <3>2, Pow2Values
  <2>4. Above(i, k) < Pow2[Height - k]
    BY <1>3
  <2>5. Above(i, k + 1) < Pow2[Height - (k + 1)]
    BY <2>2, <2>3, <2>4
  <2> QED
    BY <2>1, <2>5
<1>4. \A l \in 0 .. Height : l \in Good
  <2> HIDE DEF Good
  <2> QED
    BY <1>2, <1>3, NumberInduction, LevelFacts
<1>5. ASSUME NEW l \in 0 .. Height PROVE Above(i, l) \in 0 .. Pow2[Height - l] - 1
  <2>1. Above(i, l) \in Nat /\ Above(i, l) < Pow2[Height - l] /\ Pow2[Height - l] \in Nat
    BY <1>1, <1>4, AboveValues, Pow2Values, LevelFacts
  <2> QED
    BY <2>1
<1>6. Above(i, Height) = 0
  <2>1. Above(i, Height) \in 0 .. Pow2[Height - Height] - 1
    BY <1>5, LevelFacts
  <2>2. Height - Height = 0
    BY LevelFacts
  <2> QED
    BY <2>1, <2>2, Pow2Values
<1> QED
  BY <1>1, <1>5, <1>6

\* The index behind the last leaf is a left child on every level.
LEMMA AboveFull ==
    \A l \in Level : IsLeft(Pow2[Height], l)
<1> DEFINE full == Pow2[Height]
           Good == {k \in 0 .. Height : Above(full, k) = Pow2[Height - k]}
<1>1. full \in Nat
  BY Pow2Values, LevelFacts
<1>2. 0 \in Good
  <2>1. Height - 0 = Height
    BY LevelFacts
  <2> QED
    BY <1>1, <2>1, AboveValues, LevelFacts
<1>3. ASSUME NEW k \in 0 .. Height - 1
      PROVE  /\ k \in Level /\ k + 1 \in 0 .. Height /\ Pow2[Height - (k + 1)] \in Nat
             /\ Pow2[Height - k] = 2 * Pow2[Height - (k + 1)]
  <2>1. Height - (k + 1) \in 0 .. Height /\ Height - (k + 1) \in 0 .. Height + 1
    BY LevelFacts
  <2>2. Height - (k + 1) + 1 = Height - k
    BY LevelFacts
  <2>3. k \in Level /\ k + 1 \in 0 .. Height
    BY LevelFacts
  <2> QED
    BY <2>1, <2>2, <2>3, Pow2Values
<1>4. ASSUME NEW k \in 0 .. Height - 1, k \in Good PROVE k + 1 \in Good
  <2>1. Above(full, k) = 2 * Pow2[Height - (k + 1)]
    BY <1>3, <1>4
  <2>2. Above(full, k + 1) = Above(full, k) \div 2
    BY <1>1, <1>3, AboveValues
  <2>3. Above(full, k + 1) = Pow2[Height - (k + 1)]
    BY <1>3, <2>1, <2>2
  <2> QED
    BY <1>3, <2>3
<1>5. \A l \in 0 .. Height : l \in Good
  <2> HIDE DEF Good
  <2> QED
    BY <1>2, <1>4, NumberInduction, LevelFacts
<1>6. ASSUME NEW l \in Level PROVE IsLeft(full, l)
  <2>1. l \in 0 .. Height - 1 /\ l \in 0 .. Height
    BY LevelFacts
  <2>2. Above(full, l) = 2 * Pow2[Height - (l + 1)] /\ Pow2[Height - (l + 1)] \in Nat
    BY <1>3, <1>5, <2>1
  <2> QED
    BY <2>2 DEF IsLeft
<1> QED
  BY <1>6

\* Below the first level at which it is a left child, an index carries over
\* when it is counted up; above, the path of the next index is its own.
LEMMA AboveNext ==
    ASSUME NEW i \in Nat, NEW s \in 0 .. Height, \A k \in 0 .. s - 1 : ~IsLeft(i, k)
    PROVE  /\ Above(i + 1, s) = Above(i, s) + 1
           /\ s \in Level /\ IsLeft(i, s)
                => \A l \in 0 .. Height : l > s => Above(i + 1, l) = Above(i, l)
<1> DEFINE Good == {k \in 0 .. s : Above(i + 1, k) = Above(i, k) + 1}
<1>1. s \in Nat /\ i + 1 \in Nat /\ s <= Height
  BY LevelFacts
<1>2. 0 \in Good
  BY <1>1, AboveValues
<1>3. ASSUME NEW k \in 0 .. s - 1, k \in Good PROVE k + 1 \in Good
  <2>1. k \in Level /\ k \in 0 .. Height /\ k + 1 \in 0 .. s
    BY <1>1, LevelFacts
  <2>2. /\ Above(i, k) \in Nat /\ Above(i, k + 1) = Above(i, k) \div 2
        /\ Above(i + 1, k + 1) = Above(i + 1, k) \div 2
    BY <1>1, <2>1, AboveValues
  <2>3. Above(i, k) % 2 # 0
    BY <1>3 DEF IsLeft
  <2>4. Above(i + 1, k) = Above(i, k) + 1
    BY <1>3
  <2>5. Above(i + 1, k + 1) = Above(i, k + 1) + 1
    BY <2>2, <2>3, <2>4
  <2> QED
    BY <2>1, <2>5
<1>4. Above(i + 1, s) = Above(i, s) + 1
  <2> HIDE DEF Good
  <2>1. s \in Good
    BY <1>1, <1>2, <1>3, NumberInduction
  <2> QED
    BY <2>1 DEF Good
<1>5. ASSUME s \in Level, IsLeft(i, s), NEW l \in 0 .. Height, l > s
      PROVE  Above(i + 1, l) = Above(i, l)
  <2>1. /\ Above(i, s) \in Nat /\ Above(i, s + 1) = Above(i, s) \div 2
        /\ Above(i + 1, s + 1) = Above(i + 1, s) \div 2
    BY <1>1, <1>5, AboveValues, LevelFacts
  <2>2. Above(i, s) % 2 = 0
    BY <1>5 DEF IsLeft
  <2>3. Above(i + 1, s + 1) = Above(i, s + 1)
    BY <1>4, <2>1, <2>2
  <2>4. s + 1 \in 0 .. Height /\ s + 1 <= l
    BY <1>1, <1>5, LevelFacts
  <2> QED
    BY <1>1, <1>5, <2>3, <2>4, AboveAgree
<1> QED
  BY <1>4, <1>5

\* An index with a right neighbour is a left child somewhere: the first such
\* level is the one at which an append that is not the last of a batch stops.
LEMMA FirstLeft ==
    ASSUME NEW i \in LeafIndex, i + 1 \in LeafIndex
    PROVE  \E l \in Level : IsLeft(i, l) /\ \A k \in 0 .. l - 1 : ~IsLeft(i, k)
<1> DEFINE Lefts == {l \in Level : IsLeft(i, l)}
<1>1. i \in Nat /\ Above(i, Height) = 0 /\ Above(i + 1, Height) = 0
  BY AboveBound
<1>2. Lefts # {}
  <2>1. SUFFICES ASSUME Lefts = {} PROVE FALSE
    OBVIOUS
  <2>2. \A k \in 0 .. Height - 1 : ~IsLeft(i, k)
    BY <2>1, LevelFacts
  <2>3. Above(i + 1, Height) = Above(i, Height) + 1
    BY <1>1, <2>2, AboveNext, LevelFacts
  <2> QED
    BY <1>1, <2>3
<1>3. Lefts \subseteq Nat
  BY LevelFacts
<1>4. PICK l \in Lefts : \A k \in Lefts : l <= k
  <2> HIDE DEF Lefts
  <2> QED
    BY <1>2, <1>3, LeastNumber
<1>5. ASSUME NEW k \in 0 .. l - 1 PROVE ~IsLeft(i, k)
  <2>1. l \in 0 .. Height - 1 /\ k \in Level /\ ~(l <= k)
    BY LevelFacts
  <2> QED
    BY <1>4, <2>1
<1> QED
  BY <1>4, <1>5

\* The paths of two leaves meet at one level.
LEMMA PathsMeet ==
    ASSUME NEW i \in LeafIndex, NEW j \in LeafIndex, i # j
    PROVE  \E l \in Level :
              /\ Above(i, l) # Above(j, l) /\ Above(i, l + 1) = Above(j, l + 1)
              /\ \A k \in Level : Above(i, k) # Above(j, k) /\ Above(i, k + 1) = Above(j, k + 1)
                    => k = l
<1> DEFINE Met == {k \in 0 .. Height : Above(i, k) = Above(j, k)}
<1>1. i \in Nat /\ j \in Nat /\ Above(i, Height) = Above(j, Height)
  BY AboveBound
<1>2. Met # {} /\ Met \subseteq Nat
  BY <1>1, LevelFacts
<1>3. PICK m \in Met : \A k \in Met : m <= k
  <2> HIDE DEF Met
  <2> QED
    BY <1>2, LeastNumber
<1>4. m # 0
  BY <1>1, AboveValues
<1>5. m - 1 \in Level /\ m - 1 + 1 = m /\ ~(m <= m - 1) /\ m - 1 \in 0 .. Height
  BY <1>4, LevelFacts
<1>6. Above(i, m - 1) # Above(j, m - 1) /\ Above(i, m) = Above(j, m)
  BY <1>3, <1>5
<1>7. ASSUME NEW k \in Level, Above(i, k) # Above(j, k), Above(i, k + 1) = Above(j, k + 1)
      PROVE  k = m - 1
  <2>1. k + 1 \in Met
    BY <1>7, LevelFacts
  <2>2. m <= k + 1
    BY <1>3, <2>1
  <2>3. ~(m <= k)
    BY <1>1, <1>6, <1>7, AboveAgree, LevelFacts
  <2>4. k \in Nat /\ m \in Nat
    BY LevelFacts
  <2> QED
    BY <2>2, <2>3, <2>4
<1> QED
  BY <1>5, <1>6, <1>7

-----------------------------------------------------------------------------
\* The nodes of a tree, paths and zero nodes.

\* The recursion of NodesOf is defined.
LEMMA NodesValues ==
    ASSUME NEW lvs
    PROVE  /\ NodesOf(lvs)[0] = lvs
           /\ \A l \in Level : \A j \in 0 .. Pow2[Height - (l + 1)] - 1 :
                NodesOf(lvs)[l + 1][j]
                    = <<NodesOf(lvs)[l][2 * j], NodesOf(lvs)[l][2 * j + 1]>>
<1> DEFINE G(l, x) == [j \in 0 .. Pow2[Height - l] - 1 |-> <<x[2 * j], x[2 * j + 1]>>]
           Is(f, n) == f = [l \in 0 .. n |-> IF l = 0 THEN lvs ELSE G(l, f[l - 1])]
           Good == {n \in 0 .. Height : \E f : Is(f, n)}
<1>1. 0 \in Good
  <2>1. Is([l \in 0 .. 0 |-> lvs], 0)
    OBVIOUS
  <2> QED
    BY <2>1, LevelFacts
<1>2. ASSUME NEW k \in 0 .. Height - 1, k \in Good PROVE k + 1 \in Good
  <2>1. PICK f : Is(f, k)
    BY <1>2
  <2>2. k \in Nat /\ k + 1 \in 0 .. Height
    BY LevelFacts
  <2> HIDE DEF G
  <2> DEFINE g == [l \in 0 .. k + 1 |-> IF l = k + 1 THEN G(k + 1, f[k]) ELSE f[l]]
  <2>3. Is(g, k + 1)
    BY <2>1, <2>2
  <2> QED
    BY <2>2, <2>3
<1>3. Height \in Good
  <2> HIDE DEF Good
  <2> QED
    BY <1>1, <1>2, NumberInduction, LevelFacts
<1>4. PICK f : Is(f, Height) /\ NodesOf(lvs) = f
  <2> DEFINE f == CHOOSE f : Is(f, Height)
  <2>1. Is(f, Height)
    BY <1>3
  <2>2. NodesOf(lvs) = f
    BY DEF NodesOf
  <2> QED
    BY <2>1, <2>2
<1>5. f[0] = lvs
  BY <1>4, LevelFacts
<1>6. ASSUME NEW l \in Level PROVE f[l + 1] = G(l + 1, f[l])
  <2> DEFINE m == l + 1
  <2>1. m \in 0 .. Height /\ m # 0 /\ m - 1 = l
    BY LevelFacts
  <2> HIDE DEF G, m
  <2>2. f[m] = IF m = 0 THEN lvs ELSE G(m, f[m - 1])
    BY <1>4, <2>1
  <2>3. f[m] = G(m, f[l])
    BY <2>1, <2>2
  <2> QED
    BY <2>3 DEF m
<1>7. ASSUME NEW l \in Level, NEW j \in 0 .. Pow2[Height - (l + 1)] - 1
      PROVE  f[l + 1][j] = <<f[l][2 * j], f[l][2 * j + 1]>>
  BY <1>6
<1> HIDE DEF Is
<1> QED
  BY <1>4, <1>5, <1>7

\* The children of a node are nodes of the level below.
LEMMA Children ==
    ASSUME NEW l \in Level, NEW j \in 0 .. Pow2[Height - (l + 1)] - 1
    PROVE  /\ 2 * j \in 0 .. Pow2[Height - l] - 1 /\ 2 * j + 1 \in 0 .. Pow2[Height - l] - 1
           /\ \A i \in LeafIndex :
                Above(i, l) = 2 * j \/ Above(i, l) = 2 * j + 1 => Above(i, l + 1) = j
<1>1. /\ Height - (l + 1) \in 0 .. Height /\ Height - (l + 1) \in 0 .. Height + 1
      /\ Height - (l + 1) + 1 = Height - l
  BY LevelFacts
<1>2. Pow2[Height - l] = 2 * Pow2[Height - (l + 1)] /\ Pow2[Height - (l + 1)] \in Nat
  BY <1>1, Pow2Values
<1>3. j \in Nat
  BY <1>2
<1>4. ASSUME NEW i \in LeafIndex, Above(i, l) = 2 * j \/ Above(i, l) = 2 * j + 1
      PROVE  Above(i, l + 1) = j
  <2>1. Above(i, l + 1) = Above(i, l) \div 2
    BY AboveBound, AboveValues
  <2> QED
    BY <1>3, <1>4, <2>1
<1> QED
  BY <1>2, <1>4

\* A node depends on the leaves below it only.
LEMMA NodesSame ==
    ASSUME NEW lvs, NEW lvs2, NEW l \in 0 .. Height, NEW j \in 0 .. Pow2[Height - l] - 1,
           \A i \in LeafIndex : Above(i, l) = j => lvs[i] = lvs2[i]
    PROVE  NodesOf(lvs)[l][j] = NodesOf(lvs2)[l][j]
<1> DEFINE Same(k, m) == \A i \in LeafIndex : Above(i, k) = m => lvs[i] = lvs2[i]
           Equal(k, m) == NodesOf(lvs)[k][m] = NodesOf(lvs2)[k][m]
           Good == {k \in 0 .. Height : \A m \in 0 .. Pow2[Height - k] - 1 :
                        Same(k, m) => Equal(k, m)}
<1>1. 0 \in Good
  <2>1. Height - 0 = Height
    BY LevelFacts
  <2>2. \A m \in LeafIndex : Above(m, 0) = m
    BY AboveBound, AboveValues
  <2>3. \A m \in 0 .. Pow2[Height - 0] - 1 : Same(0, m) => Equal(0, m)
    BY <2>1, <2>2, NodesValues DEF LeafIndex
  <2> QED
    BY <2>3, LevelFacts
<1>2. ASSUME NEW k \in 0 .. Height - 1, k \in Good PROVE k + 1 \in Good
  <2>1. k \in Level /\ k + 1 \in 0 .. Height
    BY LevelFacts
  <2>2. \A m \in 0 .. Pow2[Height - k] - 1 : Same(k, m) => Equal(k, m)
    BY <1>2
  <2>3. ASSUME NEW m \in 0 .. Pow2[Height - (k + 1)] - 1, Same(k + 1, m) PROVE Equal(k + 1, m)
    <3>1. Same(k, 2 * m) /\ Same(k, 2 * m + 1)
      BY <2>1, <2>3, Children
    <3>2. Equal(k, 2 * m) /\ Equal(k, 2 * m + 1)
      <4>1. 2 * m \in 0 .. Pow2[Height - k] - 1 /\ 2 * m + 1 \in 0 .. Pow2[Height - k] - 1
        BY <2>1, Children
      <4> HIDE DEF Same, Equal
      <4> QED
        BY <2>2, <3>1, <4>1
    <3> QED
      BY <2>1, <3>2, NodesValues
  <2> HIDE DEF Same, Equal
  <2> QED
    BY <2>1, <2>3
<1>3. l \in Good
  <2> HIDE DEF Good
  <2> QED
    BY <1>1, <1>2, NumberInduction, LevelFacts
<1> QED
  BY <1>3

\* H::zero_bytes: every level hashes the one below twice.
LEMMA ZeroValues ==
    /\ ZeroBytes[0] = Zero
    /\ \A l \in Level : ZeroBytes[l + 1] = <<ZeroBytes[l], ZeroBytes[l]>>
<1> DEFINE G(x) == <<x, x>>
           Is(f, n) == f = [l \in 0 .. n |-> IF l = 0 THEN Zero ELSE G(f[l - 1])]
           Good == {n \in 0 .. Height : \E f : Is(f, n)}
<1>1. 0 \in Good
  <2>1. Is([l \in 0 .. 0 |-> Zero], 0)
    OBVIOUS
  <2> QED
    BY <2>1, LevelFacts
<1>2. ASSUME NEW k \in 0 .. Height - 1, k \in Good PROVE k + 1 \in Good
  <2>1. PICK f : Is(f, k)
    BY <1>2
  <2>2. k \in Nat /\ k + 1 \in 0 .. Height
    BY LevelFacts
  <2> HIDE DEF G
  <2> DEFINE g == [l \in 0 .. k + 1 |-> IF l = k + 1 THEN G(f[k]) ELSE f[l]]
  <2>3. Is(g, k + 1)
    BY <2>1, <2>2
  <2> QED
    BY <2>2, <2>3
<1>3. Height \in Good
  <2> HIDE DEF Good
  <2> QED
    BY <1>1, <1>2, NumberInduction, LevelFacts
<1>4. Is(ZeroBytes, Height)
  <2>1. \E f : Is(f, Height)
    BY <1>3
  <2> QED
    BY <2>1 DEF ZeroBytes
<1>5. ASSUME NEW l \in Level PROVE ZeroBytes[l + 1] = G(ZeroBytes[l])
  <2> DEFINE m == l + 1
  <2>1. m \in 0 .. Height /\ m # 0 /\ m - 1 = l
    BY LevelFacts
  <2> HIDE DEF G, m
  <2>2. ZeroBytes[m] = IF m = 0 THEN Zero ELSE G(ZeroBytes[m - 1])
    BY <1>4, <2>1
  <2>3. ZeroBytes[m] = G(ZeroBytes[l])
    BY <2>1, <2>2
  <2> QED
    BY <2>3 DEF m
<1>6. ZeroBytes[0] = Zero
  BY <1>4, LevelFacts
<1> HIDE DEF Is
<1> QED
  BY <1>5, <1>6

\* A node over zero leaves is the zero node of its level.
LEMMA ZeroNodes ==
    ASSUME NEW lvs, NEW l \in 0 .. Height, NEW j \in 0 .. Pow2[Height - l] - 1,
           \A i \in LeafIndex : Above(i, l) = j => lvs[i] = Zero
    PROVE  NodesOf(lvs)[l][j] = ZeroBytes[l]
<1> DEFINE Empty(k, m) == \A i \in LeafIndex : Above(i, k) = m => lvs[i] = Zero
           IsZero(k, m) == NodesOf(lvs)[k][m] = ZeroBytes[k]
           Good == {k \in 0 .. Height : \A m \in 0 .. Pow2[Height - k] - 1 :
                        Empty(k, m) => IsZero(k, m)}
<1>1. 0 \in Good
  <2>1. Height - 0 = Height
    BY LevelFacts
  <2>2. \A m \in LeafIndex : Above(m, 0) = m
    BY AboveBound, AboveValues
  <2>3. \A m \in 0 .. Pow2[Height - 0] - 1 : Empty(0, m) => IsZero(0, m)
    BY <2>1, <2>2, NodesValues, ZeroValues DEF LeafIndex
  <2> QED
    BY <2>3, LevelFacts
<1>2. ASSUME NEW k \in 0 .. Height - 1, k \in Good PROVE k + 1 \in Good
  <2>1. k \in Level /\ k + 1 \in 0 .. Height
    BY LevelFacts
  <2>2. \A m \in 0 .. Pow2[Height - k] - 1 : Empty(k, m) => IsZero(k, m)
    BY <1>2
  <2>3. ASSUME NEW m \in 0 .. Pow2[Height - (k + 1)] - 1, Empty(k + 1, m) PROVE IsZero(k + 1, m)
    <3>1. Empty(k, 2 * m) /\ Empty(k, 2 * m + 1)
      BY <2>1, <2>3, Children
    <3>2. IsZero(k, 2 * m) /\ IsZero(k, 2 * m + 1)
      <4>1. 2 * m \in 0 .. Pow2[Height - k] - 1 /\ 2 * m + 1 \in 0 .. Pow2[Height - k] - 1
        BY <2>1, Children
      <4> HIDE DEF Empty, IsZero
      <4> QED
        BY <2>2, <3>1, <4>1
    <3> QED
      BY <2>1, <3>2, NodesValues, ZeroValues
  <2> HIDE DEF Empty, IsZero
  <2> QED
    BY <2>1, <2>3
<1>3. l \in Good
  <2> HIDE DEF Good
  <2> QED
    BY <1>1, <1>2, NumberInduction, LevelFacts
<1> QED
  BY <1>3

\* The recursion of PathOf is defined.
LEMMA PathValues ==
    ASSUME NEW leaf, NEW i, NEW proof
    PROVE  /\ PathOf(leaf, i, proof)[0] = leaf
           /\ \A l \in Level :
                PathOf(leaf, i, proof)[l + 1]
                    = compute_parent_node(PathOf(leaf, i, proof)[l], proof[l], i, l)
<1> DEFINE G(l, x) == compute_parent_node(x, proof[l - 1], i, l - 1)
           Is(f, n) == f = [l \in 0 .. n |-> IF l = 0 THEN leaf ELSE G(l, f[l - 1])]
           Good == {n \in 0 .. Height : \E f : Is(f, n)}
<1>1. 0 \in Good
  <2>1. Is([l \in 0 .. 0 |-> leaf], 0)
    OBVIOUS
  <2> QED
    BY <2>1, LevelFacts
<1>2. ASSUME NEW k \in 0 .. Height - 1, k \in Good PROVE k + 1 \in Good
  <2>1. PICK f : Is(f, k)
    BY <1>2
  <2>2. k \in Nat /\ k + 1 \in 0 .. Height
    BY LevelFacts
  <2> HIDE DEF G
  <2> DEFINE g == [l \in 0 .. k + 1 |-> IF l = k + 1 THEN G(k + 1, f[k]) ELSE f[l]]
  <2>3. Is(g, k + 1)
    BY <2>1, <2>2
  <2> QED
    BY <2>2, <2>3
<1>3. Height \in Good
  <2> HIDE DEF Good
  <2> QED
    BY <1>1, <1>2, NumberInduction, LevelFacts
<1>4. PICK f : Is(f, Height) /\ PathOf(leaf, i, proof) = f
  <2> DEFINE f == CHOOSE f : Is(f, Height)
  <2>1. Is(f, Height)
    BY <1>3
  <2>2. PathOf(leaf, i, proof) = f
    BY DEF PathOf
  <2> QED
    BY <2>1, <2>2
<1>5. f[0] = leaf
  BY <1>4, LevelFacts
<1>6. ASSUME NEW l \in Level PROVE f[l + 1] = compute_parent_node(f[l], proof[l], i, l)
  <2> DEFINE m == l + 1
  <2>1. m \in 0 .. Height /\ m # 0 /\ m - 1 = l
    BY LevelFacts
  <2> HIDE DEF G, m
  <2>2. f[m] = IF m = 0 THEN leaf ELSE G(m, f[m - 1])
    BY <1>4, <2>1
  <2>3. f[m] = G(m, f[l])
    BY <2>1, <2>2
  <2> QED
    BY <2>1, <2>3 DEF m, G
<1> HIDE DEF Is
<1> QED
  BY <1>4, <1>5, <1>6

\* A node above a leaf is the parent of the one below it and of its sibling.
LEMMA ParentNode ==
    ASSUME NEW lvs, NEW i \in LeafIndex, NEW l \in Level
    PROVE  /\ NodesOf(lvs)[l + 1][Above(i, l + 1)]
                = compute_parent_node(NodesOf(lvs)[l][Above(i, l)],
                                      NodesOf(lvs)[l][SiblingIndex(i, l)], i, l)
           /\ SiblingIndex(i, l) \in 0 .. Pow2[Height - l] - 1
<1> DEFINE a == Above(i, l)
           p == Above(i, l + 1)
<1>1. a \in Nat /\ p \in Nat /\ p = a \div 2
  BY AboveBound, AboveValues, LevelFacts
<1>2. p \in 0 .. Pow2[Height - (l + 1)] - 1
  BY AboveBound, LevelFacts
<1>3. NodesOf(lvs)[l + 1][p] = <<NodesOf(lvs)[l][2 * p], NodesOf(lvs)[l][2 * p + 1]>>
  BY <1>2, NodesValues
<1>4. 2 * p \in 0 .. Pow2[Height - l] - 1 /\ 2 * p + 1 \in 0 .. Pow2[Height - l] - 1
  BY <1>2, Children
<1>5. CASE IsLeft(i, l)
  <2>1. a % 2 = 0
    BY <1>5 DEF IsLeft
  <2>2. a = 2 * p
    BY <1>1, <2>1
  <2>3. SiblingIndex(i, l) = 2 * p + 1
    BY <1>5, <2>2 DEF SiblingIndex
  <2> HIDE DEF a, p
  <2> QED
    BY <1>3, <1>4, <1>5, <2>2, <2>3 DEF compute_parent_node, a, p
<1>6. CASE ~IsLeft(i, l)
  <2>1. a % 2 # 0
    BY <1>6 DEF IsLeft
  <2>2. a = 2 * p + 1
    BY <1>1, <2>1
  <2>3. SiblingIndex(i, l) = 2 * p
    BY <1>1, <1>6, <2>2 DEF SiblingIndex
  <2> QED
    BY <1>3, <1>4, <1>6, <2>2, <2>3 DEF compute_parent_node
<1> QED
  BY <1>5, <1>6

\* With the siblings of the tree, a path leads over the nodes of the tree.
LEMMA PathUp ==
    ASSUME NEW lvs, NEW i \in LeafIndex, NEW proof, NEW m \in 0 .. Height,
           \A k \in Level : k < m => proof[k] = NodesOf(lvs)[k][SiblingIndex(i, k)]
    PROVE  \A l \in 0 .. m : PathOf(lvs[i], i, proof)[l] = NodesOf(lvs)[l][Above(i, l)]
<1> DEFINE path == PathOf(lvs[i], i, proof)
           Good == {l \in 0 .. m : path[l] = NodesOf(lvs)[l][Above(i, l)]}
<1>1. m \in Nat /\ m <= Height
  BY LevelFacts
<1>2. 0 \in Good
  <2>1. Above(i, 0) = i
    BY AboveBound, AboveValues
  <2> QED
    BY <1>1, <2>1, PathValues, NodesValues
<1>3. ASSUME NEW k \in 0 .. m - 1, k \in Good PROVE k + 1 \in Good
  <2>1. k \in Level /\ k + 1 \in 0 .. m /\ k < m
    BY <1>1, LevelFacts
  <2>2. path[k + 1] = compute_parent_node(path[k], proof[k], i, k)
    BY <2>1, PathValues
  <2>3. path[k] = NodesOf(lvs)[k][Above(i, k)] /\ proof[k] = NodesOf(lvs)[k][SiblingIndex(i, k)]
    BY <1>3, <2>1
  <2>4. path[k + 1] = NodesOf(lvs)[k + 1][Above(i, k + 1)]
    BY <2>1, <2>2, <2>3, ParentNode
  <2> QED
    BY <2>1, <2>4
<1>4. \A l \in 0 .. m : l \in Good
  <2> HIDE DEF Good
  <2> QED
    BY <1>1, <1>2, <1>3, NumberInduction
<1> QED
  BY <1>4

\* Hashing is ideal: parents are equal only if their children are.
LEMMA SameParent ==
    ASSUME NEW a, NEW b, NEW c, NEW d, NEW i, NEW l,
           compute_parent_node(a, b, i, l) = compute_parent_node(c, d, i, l)
    PROVE  a = c /\ b = d
<1>1. CASE IsLeft(i, l)
  <2>1. <<a, b>> = <<c, d>>
    BY <1>1 DEF compute_parent_node
  <2> QED
    BY <2>1
<1>2. CASE ~IsLeft(i, l)
  <2>1. <<b, a>> = <<d, c>>
    BY <1>2 DEF compute_parent_node
  <2> QED
    BY <2>1
<1> QED
  BY <1>1, <1>2

\* validate_proof: a proof that leads to the root of the tree is a proof of
\* the leaf that is there, and consists of the siblings on the way.
LEMMA ProofSound ==
    ASSUME NEW lvs, NEW i \in LeafIndex, NEW leaf, NEW proof,
           compute_root(leaf, i, proof) = NodesOf(lvs)[Height][0]
    PROVE  /\ leaf = lvs[i]
           /\ \A l \in Level : proof[l] = NodesOf(lvs)[l][SiblingIndex(i, l)]
<1> DEFINE path == PathOf(leaf, i, proof)
           On(l) == path[l] = NodesOf(lvs)[l][Above(i, l)]
           Good == {k \in 0 .. Height : On(Height - k)}
<1>1. 0 \in Good
  <2>1. Height - 0 = Height
    BY LevelFacts
  <2>2. Above(i, Height) = 0
    BY AboveBound
  <2> QED
    BY <2>1, <2>2, LevelFacts DEF compute_root
<1>2. ASSUME NEW l \in Level, On(l + 1)
      PROVE  On(l) /\ proof[l] = NodesOf(lvs)[l][SiblingIndex(i, l)]
  <2>1. path[l + 1] = compute_parent_node(path[l], proof[l], i, l)
    BY PathValues
  <2>2. path[l + 1] = compute_parent_node(NodesOf(lvs)[l][Above(i, l)],
                                          NodesOf(lvs)[l][SiblingIndex(i, l)], i, l)
    BY <1>2, ParentNode
  <2> DEFINE b == NodesOf(lvs)[l][Above(i, l)]
             s == NodesOf(lvs)[l][SiblingIndex(i, l)]
  <2> HIDE DEF path, b, s
  <2>3. compute_parent_node(path[l], proof[l], i, l) = compute_parent_node(b, s, i, l)
    BY <2>1, <2>2 DEF b, s
  <2>4. path[l] = b /\ proof[l] = s
    BY <2>3, SameParent
  <2> QED
    BY <2>4 DEF b, s
<1>3. ASSUME NEW k \in 0 .. Height - 1, k \in Good PROVE k + 1 \in Good
  <2>1. Height - (k + 1) \in Level /\ Height - (k + 1) + 1 = Height - k /\ k + 1 \in 0 .. Height
    BY SizeConstraints DEF Level
  <2>2. On(Height - k)
    BY <1>3
  <2> HIDE DEF On
  <2>3. On(Height - (k + 1))
    BY <1>2, <2>1, <2>2
  <2> QED
    BY <2>1, <2>3
<1>4. \A k \in 0 .. Height : k \in Good
  <2> HIDE DEF Good
  <2> QED
    BY <1>1, <1>3, NumberInduction, LevelFacts
<1>5. ASSUME NEW l \in 0 .. Height PROVE On(l)
  <2>1. Height - l \in 0 .. Height /\ Height - (Height - l) = l
    BY LevelFacts
  <2>2. On(Height - (Height - l))
    <3> HIDE DEF On
    <3> QED
      BY <1>4, <2>1
  <2> HIDE DEF On
  <2> QED
    BY <2>1, <2>2
<1>6. leaf = lvs[i]
  <2>1. Above(i, 0) = i /\ On(0)
    BY <1>5, AboveBound, AboveValues, LevelFacts
  <2> QED
    BY <2>1, PathValues, NodesValues
<1>7. ASSUME NEW l \in Level PROVE proof[l] = NodesOf(lvs)[l][SiblingIndex(i, l)]
  <2>1. On(l + 1)
    <3> HIDE DEF On
    <3> QED
      BY <1>5, LevelFacts
  <2> QED
    BY <1>2, <2>1
<1> QED
  BY <1>6, <1>7

-----------------------------------------------------------------------------
\* Appending and updating leaves, without the canopy.

\* One leaf changes.
Changed(lvs, lvs2, n, leaf) ==
    lvs2[n] = leaf /\ \A i \in LeafIndex \ {n} : lvs2[i] = lvs[i]

\* The filled subtrees are the left siblings of the next leaf, and the leaves
\* from there on are zero.
Filled(t, lvs) ==
    \A l \in Level : ~IsLeft(t.next_index, l) =>
        t.filled_subtrees[l] = NodesOf(lvs)[l][Above(t.next_index, l) - 1]
Blank(t, lvs) == \A i \in LeafIndex : i >= t.next_index => lvs[i] = Zero
Appendable(t, lvs) ==
    /\ t.next_index \in 0 .. Pow2[Height] /\ DOMAIN t.filled_subtrees = Level
    /\ Filled(t, lvs) /\ Blank(t, lvs)

\* A path of nodes of the tree, from leaf i to the root.
PathIn(path, lvs, i) == \A l \in 0 .. Height : path[l] = NodesOf(lvs)[l][Above(i, l)]

\* A proof that consists of the siblings on the way.
ProofIn(proof, lvs, i) == \A l \in Level : proof[l] = NodesOf(lvs)[l][SiblingIndex(i, l)]

\* Nodes that are not above the changed leaf stay as they are.
LEMMA OtherNodes ==
    ASSUME NEW lvs, NEW lvs2, NEW n, NEW leaf, Changed(lvs, lvs2, n, leaf),
           NEW l \in 0 .. Height, NEW j \in 0 .. Pow2[Height - l] - 1, j # Above(n, l)
    PROVE  NodesOf(lvs2)[l][j] = NodesOf(lvs)[l][j]
<1>1. ASSUME NEW i \in LeafIndex, Above(i, l) = j PROVE lvs2[i] = lvs[i]
  BY <1>1 DEF Changed
<1> QED
  BY <1>1, NodesSame

\* Sibling indices.
LEMMA Siblings ==
    ASSUME NEW i \in LeafIndex, NEW l \in Level
    PROVE  /\ Above(i, l) \in Nat /\ SiblingIndex(i, l) # Above(i, l)
           /\ IsLeft(i, l) => SiblingIndex(i, l) = Above(i, l) + 1
           /\ ~IsLeft(i, l) => SiblingIndex(i, l) = Above(i, l) - 1
<1>1. Above(i, l) \in Nat
  BY AboveBound, AboveValues, LevelFacts
<1> QED
  BY <1>1 DEF SiblingIndex

\* The siblings with which a leaf is appended are those of the new tree.
LEMMA AppendSiblings ==
    ASSUME NEW t, NEW lvs, Appendable(t, lvs), t.next_index \in LeafIndex,
           NEW lvs2, NEW leaf, Changed(lvs, lvs2, t.next_index, leaf), NEW l \in Level
    PROVE  AppendProof(t)[l] = NodesOf(lvs2)[l][SiblingIndex(t.next_index, l)]
<1> DEFINE n == t.next_index
           s == SiblingIndex(n, l)
<1>1. n \in LeafIndex /\ n \in Nat /\ l \in 0 .. Height
  BY AboveBound, LevelFacts
<1>2. s \in 0 .. Pow2[Height - l] - 1 /\ s # Above(n, l) /\ Above(n, l) \in Nat
  BY <1>1, ParentNode, Siblings
<1>3. CASE IsLeft(n, l)
  <2>1. s = Above(n, l) + 1
    BY <1>1, <1>3, Siblings
  <2>2. ASSUME NEW i \in LeafIndex, Above(i, l) = s PROVE lvs2[i] = Zero
    <3>1. i \in Nat /\ Above(i, l) \in Nat
      BY AboveBound, AboveValues, LevelFacts
    <3>2. i > n
      <4>1. i <= n => Above(i, l) <= Above(n, l)
        BY <1>1, <3>1, AboveMonotone
      <4> QED
        BY <1>1, <1>2, <2>1, <2>2, <3>1, <4>1
    <3>3. i # n /\ i >= n
      BY <1>1, <3>1, <3>2
    <3> QED
      BY <3>3 DEF Changed, Appendable, Blank
  <2>3. NodesOf(lvs2)[l][s] = ZeroBytes[l]
    BY <1>1, <1>2, <2>2, ZeroNodes
  <2> QED
    BY <1>3, <2>3 DEF AppendProof
<1>4. CASE ~IsLeft(n, l)
  <2>1. s = Above(n, l) - 1
    BY <1>1, <1>4, Siblings
  <2>2. t.filled_subtrees[l] = NodesOf(lvs)[l][s]
    BY <1>4, <2>1 DEF Appendable, Filled
  <2>3. NodesOf(lvs2)[l][s] = NodesOf(lvs)[l][s]
    BY <1>1, <1>2, OtherNodes
  <2> QED
    BY <1>4, <2>2, <2>3 DEF AppendProof
<1> QED
  BY <1>3, <1>4

\* The path of an appended leaf is the one of the new tree.
LEMMA AppendPath ==
    ASSUME NEW t, NEW lvs, Appendable(t, lvs), t.next_index \in LeafIndex,
           NEW lvs2, NEW leaf, Changed(lvs, lvs2, t.next_index, leaf)
    PROVE  PathIn(PathOf(leaf, t.next_index, AppendProof(t)), lvs2, t.next_index)
<1>1. leaf = lvs2[t.next_index]
  BY DEF Changed
<1>2. \A k \in Level : k < Height =>
        AppendProof(t)[k] = NodesOf(lvs2)[k][SiblingIndex(t.next_index, k)]
  BY AppendSiblings
<1> QED
  BY <1>1, <1>2, PathUp, LevelFacts DEF PathIn

\* A batch goes on after a non-terminal leaf, so there is a level to stop at.
LEMMA LastLevelFacts ==
    ASSUME NEW n \in LeafIndex, NEW terminal \in BOOLEAN, ~terminal => n + 1 \in LeafIndex
    PROVE  /\ terminal => LastLevel(n, terminal) = Height
           /\ ~terminal => /\ LastLevel(n, terminal) \in Level
                           /\ IsLeft(n, LastLevel(n, terminal))
                           /\ \A k \in 0 .. LastLevel(n, terminal) - 1 : ~IsLeft(n, k)
<1>1. CASE terminal
  BY <1>1 DEF LastLevel
<1>2. CASE ~terminal
  <2> DEFINE First(l) == IsLeft(n, l) /\ \A k \in 0 .. l - 1 : ~IsLeft(n, k)
             last == CHOOSE l \in Level : First(l)
  <2>1. \E l \in Level : First(l)
    BY <1>2, FirstLeft
  <2>2. last \in Level /\ First(last)
    <3> HIDE DEF First
    <3> QED
      BY <2>1
  <2>3. LastLevel(n, terminal) = last
    BY <1>2 DEF LastLevel
  <2> HIDE DEF last
  <2> QED
    BY <1>2, <2>2, <2>3
<1> QED
  BY <1>1, <1>2

\* An appended leaf leaves a tree to which the next one can be appended.
LEMMA AppendFilled ==
    ASSUME NEW t, NEW lvs, Appendable(t, lvs), t.next_index \in LeafIndex,
           NEW lvs2, NEW leaf, Changed(lvs, lvs2, t.next_index, leaf),
           NEW terminal \in BOOLEAN, ~terminal => t.next_index + 1 \in LeafIndex
    PROVE  Appendable(AppendLeaf(t, leaf, terminal), lvs2)
<1> DEFINE n == t.next_index
           u == AppendLeaf(t, leaf, terminal)
           last == LastLevel(n, terminal)
           node == PathOf(leaf, n, AppendProof(t))
<1>1. n \in Nat /\ n < Pow2[Height] /\ Pow2[Height] \in Nat /\ n \in LeafIndex
  BY Pow2Values, LevelFacts DEF LeafIndex
<1>2. /\ u.next_index = n + 1 /\ DOMAIN u.filled_subtrees = Level
      /\ \A l \in Level : u.filled_subtrees[l] =
            IF IsLeft(n, l) /\ l <= last THEN node[l] ELSE t.filled_subtrees[l]
  BY DEF AppendLeaf
<1>3. u.next_index \in 0 .. Pow2[Height]
  BY <1>1, <1>2
<1>4. Blank(u, lvs2)
  <2>1. ASSUME NEW i \in LeafIndex, i >= n + 1 PROVE lvs2[i] = Zero
    <3>1. i \in Nat
      BY AboveBound
    <3>2. i # n /\ i >= n
      BY <1>1, <2>1, <3>1
    <3> QED
      BY <3>2 DEF Changed, Appendable, Blank
  <2> QED
    BY <1>2, <2>1 DEF Blank
<1>7. PathIn(node, lvs2, n)
  BY AppendPath
<1> HIDE DEF u, node
<1>5. ASSUME NEW l \in Level, ~IsLeft(n + 1, l)
      PROVE  u.filled_subtrees[l] = NodesOf(lvs2)[l][Above(n + 1, l) - 1]
  <2>1. n + 1 \in LeafIndex
    <3>1. n + 1 # Pow2[Height]
      BY <1>5, AboveFull
    <3> QED
      BY <1>1, <3>1 DEF LeafIndex
  <2>2. PICK s \in Level : IsLeft(n, s) /\ \A k \in 0 .. s - 1 : ~IsLeft(n, k)
    BY <1>1, <2>1, FirstLeft
  <2>3. s \in Nat /\ s \in 0 .. Height /\ l \in Nat /\ l \in 0 .. Height /\ s < Height
    BY LevelFacts
  <2>4. Above(n, l) \in Nat
    BY <1>1, <2>3, AboveValues
  <2>5. CASE l < s
    <3>1. \A k \in 0 .. l - 1 : ~IsLeft(n, k)
      BY <2>2, <2>3, <2>5
    <3>2. Above(n + 1, l) = Above(n, l) + 1
      BY <1>1, <2>3, <3>1, AboveNext
    <3>3. ~IsLeft(n, l)
      BY <2>2, <2>3, <2>5
    <3>4. Above(n, l) % 2 # 0 /\ Above(n + 1, l) % 2 # 0
      BY <1>5, <3>3 DEF IsLeft
    <3> QED
      BY <2>4, <3>2, <3>4
  <2>6. CASE l = s
    <3>1. Above(n + 1, l) = Above(n, l) + 1
      BY <1>1, <2>2, <2>3, <2>6, AboveNext
    <3>2. IsLeft(n, l) /\ l <= last
      <4>1. CASE terminal
        <5>1. last = Height
          BY <4>1 DEF LastLevel
        <5> HIDE DEF last
        <5> QED
          BY <2>2, <2>3, <2>6, <5>1, LevelFacts
      <4>2. CASE ~terminal
        <5>1. last \in Level /\ IsLeft(n, last) /\ \A k \in 0 .. last - 1 : ~IsLeft(n, k)
          BY <1>1, <2>1, <4>2, LastLevelFacts
        <5>2. last \in Nat
          BY <5>1, LevelFacts
        <5> HIDE DEF last
        <5>3. ~(last < s)
          BY <2>2, <2>3, <5>1, <5>2
        <5> QED
          BY <2>2, <2>3, <2>6, <5>2, <5>3
      <4> QED
        BY <4>1, <4>2
    <3>3. node[l] = NodesOf(lvs2)[l][Above(n, l)]
      BY <1>7, <2>3 DEF PathIn
    <3>4. u.filled_subtrees[l] = node[l]
      BY <1>2, <3>2
    <3>5. Above(n + 1, l) - 1 = Above(n, l)
      BY <2>4, <3>1
    <3> QED
      BY <3>3, <3>4, <3>5
  <2>7. CASE l > s
    <3>1. Above(n + 1, l) = Above(n, l)
      BY <1>1, <2>2, <2>3, <2>7, AboveNext
    <3>2. ~IsLeft(n, l)
      BY <1>5, <3>1 DEF IsLeft
    <3>3. u.filled_subtrees[l] = NodesOf(lvs)[l][Above(n, l) - 1]
      BY <1>2, <3>2 DEF Appendable, Filled
    <3>4. Above(n, l) - 1 = SiblingIndex(n, l) /\ SiblingIndex(n, l) # Above(n, l)
      BY <1>1, <3>2, Siblings
    <3>5. SiblingIndex(n, l) \in 0 .. Pow2[Height - l] - 1
      BY <1>1, ParentNode
    <3>6. NodesOf(lvs2)[l][SiblingIndex(n, l)] = NodesOf(lvs)[l][SiblingIndex(n, l)]
      BY <2>3, <3>4, <3>5, OtherNodes
    <3> QED
      BY <3>1, <3>3, <3>4, <3>6
  <2> QED
    BY <2>3, <2>5, <2>6, <2>7
<1>6. Filled(u, lvs2)
  BY <1>2, <1>5 DEF Filled
<1> QED
  BY <1>2, <1>3, <1>4, <1>6 DEF Appendable, u
-----------------------------------------------------------------------------
\* The canopy.

\* A power of two is at least as large as the smaller ones.
LEMMA Pow2Monotone ==
    ASSUME NEW a \in 0 .. Height + 1, NEW b \in 0 .. Height + 1, a <= b
    PROVE  Pow2[a] <= Pow2[b]
<1> DEFINE N == Height + 1
           Good == {n \in 0 .. N : a <= n => Pow2[a] <= Pow2[n]}
<1>1. N \in Nat /\ a \in 0 .. N /\ b \in 0 .. N /\ \A k \in 0 .. N - 1 : k \in 0 .. Height
  BY LevelFacts
<1>2. 0 \in Good
  <2>1. a <= 0 => a = 0
    BY <1>1
  <2> QED
    BY <1>1, <2>1, Pow2Values
<1>3. ASSUME NEW k \in 0 .. N - 1, k \in Good PROVE k + 1 \in Good
  <2>1. /\ k + 1 \in 0 .. N /\ k \in Nat /\ a \in Nat
        /\ Pow2[k + 1] = 2 * Pow2[k] /\ Pow2[k] \in Nat /\ Pow2[a] \in Nat
    BY <1>1, Pow2Values
  <2>2. a <= k => Pow2[a] <= Pow2[k]
    BY <1>3
  <2>3. a <= k + 1 => Pow2[a] <= Pow2[k + 1]
    BY <2>1, <2>2
  <2> QED
    BY <2>1, <2>3
<1> HIDE DEF Good, N
<1>4. b \in Good
  BY <1>1, <1>2, <1>3, NumberInduction
<1> QED
  BY <1>4 DEF Good

\* The positions of the canopy are the nodes of its levels, level by level.
CanopyDomain == 0 .. Pow2[CanopyDepth + 1] - 3

\* Positions of different levels lie apart.
LEMMA CanopyRange ==
    ASSUME NEW i \in LeafIndex, NEW l \in CanopyLevel
    PROVE  /\ l \in Level
           /\ CanopyIndex(i, l) \in Int /\ Above(i, l) \in Nat /\ Pow2[Height - l] \in Nat
           /\ CanopyIndex(i, l) + 2 = Pow2[Height - l] + Above(i, l)
           /\ CanopyIndex(i, l) + 2 < Pow2[Height - l + 1]
           /\ CanopyIndex(i, l) \in CanopyDomain
<1>1. /\ l \in Level /\ l \in 0 .. Height /\ l \in Nat
      /\ Height - l \in 0 .. Height /\ Height - l \in 0 .. Height + 1
      /\ Height - l + 1 \in 0 .. Height + 1 /\ Height - l + 1 <= CanopyDepth + 1
      /\ CanopyDepth + 1 \in 0 .. Height + 1 /\ Height - l >= 1 /\ 1 \in 0 .. Height + 1
      /\ 0 \in 0 .. Height /\ 0 + 1 = 1
  BY SizeConstraints DEF CanopyLevel, Level
<1>2. /\ Above(i, l) \in Nat /\ Above(i, l) < Pow2[Height - l] /\ Pow2[Height - l] \in Nat
      /\ Pow2[Height - l + 1] = 2 * Pow2[Height - l] /\ Pow2[CanopyDepth + 1] \in Nat
      /\ Pow2[1] = 2
  <2>1. Above(i, l) \in 0 .. Pow2[Height - l] - 1
    BY <1>1, AboveBound
  <2>2. Pow2[1] = 2
    BY <1>1, Pow2Values
  <2> QED
    BY <1>1, <2>1, <2>2, Pow2Values
<1>3. Pow2[1] <= Pow2[Height - l] /\ Pow2[Height - l + 1] <= Pow2[CanopyDepth + 1]
  BY <1>1, Pow2Monotone
<1> DEFINE p == Pow2[Height - l]
           a == Above(i, l)
           q == Pow2[Height - l + 1]
           d == Pow2[CanopyDepth + 1]
<1>4. CanopyIndex(i, l) = p + a - 2
  BY DEF CanopyIndex
<1> HIDE DEF p, a, q, d
<1>5. p \in Nat /\ a \in Nat /\ a < p /\ q = 2 * p /\ d \in Nat /\ 2 <= p /\ q <= d
  BY <1>2, <1>3 DEF p, a, q, d
<1>6. p + a - 2 \in Int /\ p + a - 2 + 2 = p + a /\ p + a < q /\ p + a - 2 \in 0 .. d - 3
  BY <1>5
<1> QED
  BY <1>1, <1>4, <1>5, <1>6 DEF p, a, q, d, CanopyDomain

\* Different nodes have different positions.
LEMMA CanopyInjective ==
    ASSUME NEW i \in LeafIndex, NEW l \in CanopyLevel, NEW j \in LeafIndex, NEW k \in CanopyLevel,
           CanopyIndex(i, l) = CanopyIndex(j, k)
    PROVE  l = k /\ Above(i, l) = Above(j, k)
<1>1. ASSUME NEW a \in LeafIndex, NEW x \in CanopyLevel, NEW b \in LeafIndex,
             NEW y \in CanopyLevel, x < y
      PROVE  CanopyIndex(a, x) # CanopyIndex(b, y)
  <2>1. /\ Height - y + 1 \in 0 .. Height + 1 /\ Height - x \in 0 .. Height + 1
        /\ Height - y + 1 <= Height - x
    BY <1>1, SizeConstraints DEF CanopyLevel
  <2>2. Pow2[Height - y + 1] <= Pow2[Height - x] /\ Pow2[Height - y + 1] \in Nat
    BY <2>1, Pow2Monotone, Pow2Values
  <2>3. /\ CanopyIndex(a, x) \in Int /\ CanopyIndex(b, y) \in Int
        /\ CanopyIndex(a, x) + 2 = Pow2[Height - x] + Above(a, x)
        /\ Above(a, x) \in Nat /\ Pow2[Height - x] \in Nat
        /\ CanopyIndex(b, y) + 2 < Pow2[Height - y + 1]
    BY CanopyRange
  <2> QED
    BY <2>2, <2>3
<1>2. l \in Int /\ k \in Int
  BY SizeConstraints DEF CanopyLevel
<1>3. l = k
  BY <1>1, <1>2
<1>4. /\ CanopyIndex(i, l) + 2 = Pow2[Height - l] + Above(i, l)
      /\ CanopyIndex(j, l) + 2 = Pow2[Height - l] + Above(j, l)
      /\ Above(i, l) \in Nat /\ Above(j, l) \in Nat /\ Pow2[Height - l] \in Nat
  BY <1>3, CanopyRange
<1> QED
  BY <1>3, <1>4

\* update_canopy, one entry: the nodes it has replace the cached ones.
LEMMA CanopyStep ==
    ASSUME NEW canopy, DOMAIN canopy = CanopyDomain, NEW entry, entry.index \in LeafIndex
    PROVE  /\ DOMAIN CanopyAfter(canopy, entry) = CanopyDomain
           /\ \A i \in LeafIndex, l \in CanopyLevel :
                CanopyAfter(canopy, entry)[CanopyIndex(i, l)] =
                    IF Above(i, l) = Above(entry.index, l) /\ l \in DOMAIN entry.path
                    THEN entry.path[l] ELSE canopy[CanopyIndex(i, l)]
<1>1. DOMAIN CanopyAfter(canopy, entry) = CanopyDomain
  BY DEF CanopyAfter
<1>2. ASSUME NEW i \in LeafIndex, NEW l \in CanopyLevel
      PROVE  CanopyAfter(canopy, entry)[CanopyIndex(i, l)] =
                IF Above(i, l) = Above(entry.index, l) /\ l \in DOMAIN entry.path
                THEN entry.path[l] ELSE canopy[CanopyIndex(i, l)]
  <2> DEFINE n == CanopyIndex(i, l)
             hit == {k \in CanopyLevel : CanopyIndex(entry.index, k) = n
                                         /\ k \in DOMAIN entry.path}
  <2>1. CanopyAfter(canopy, entry)[n]
          = IF hit = {} THEN canopy[n] ELSE entry.path[CHOOSE k \in hit : TRUE]
    BY CanopyRange DEF CanopyAfter
  <2>2. ASSUME NEW k \in hit PROVE k = l /\ Above(i, l) = Above(entry.index, l)
    BY CanopyInjective
  <2>3. CASE Above(i, l) = Above(entry.index, l) /\ l \in DOMAIN entry.path
    <3>1. CanopyIndex(entry.index, l) = n
      BY <2>3 DEF CanopyIndex
    <3>2. l \in hit
      BY <2>3, <3>1
    <3> HIDE DEF hit
    <3>3. (CHOOSE k \in hit : TRUE) \in hit
      BY <3>2
    <3>4. (CHOOSE k \in hit : TRUE) = l
      BY <2>2, <3>3
    <3> QED
      BY <2>1, <2>3, <3>2, <3>4
  <2>4. CASE ~(Above(i, l) = Above(entry.index, l) /\ l \in DOMAIN entry.path)
    <3>1. hit = {}
      BY <2>2, <2>4
    <3> QED
      BY <2>1, <2>4, <3>1
  <2> QED
    BY <2>3, <2>4
<1> QED
  BY <1>1, <1>2

-----------------------------------------------------------------------------
\* Ring buffers.

\* A vector with at least one element: it grows from the front, and wraps
\* around when it is full.
IsRing(vec, capacity) ==
    /\ \E S : vec.data \in Seq(S)
    /\ Len(vec.data) \in 1 .. capacity
    /\ vec.last_index \in 0 .. Len(vec.data) - 1
    /\ Len(vec.data) < capacity => vec.last_index = Len(vec.data) - 1

\* Positions in a ring.
LEMMA Wrap ==
    ASSUME NEW c \in Nat \ {0}, NEW b \in 0 .. c - 1, NEW k \in 0 .. c
    PROVE  /\ (b + k) % c = IF b + k >= c THEN b + k - c ELSE b + k
           /\ (b - k) % c = IF k > b THEN b - k + c ELSE b - k
OBVIOUS

\* push: the element becomes the newest one, the others stay where they are.
Pushed(vec, out, capacity, x) ==
    /\ IsRing(out, capacity)
    /\ out.last_index = (vec.last_index + 1) % capacity
    /\ vec.last_index \in 0 .. capacity - 1
    /\ Len(vec.data) \in Nat /\ Len(out.data) \in Nat /\ Len(vec.data) <= Len(out.data)
    /\ LastOf(out) = x
    /\ \A k \in 0 .. Len(out.data) - 1 :
        k # (vec.last_index + 1) % capacity =>
            k \in 0 .. Len(vec.data) - 1 /\ At(out, k) = At(vec, k)

\* Push adds one element behind the newest and leaves the others alone.
LEMMA PushRing ==
    ASSUME NEW vec, NEW capacity \in Nat \ {0}, NEW x, IsRing(vec, capacity)
    PROVE  Pushed(vec, Push(vec, capacity, x), capacity, x)
<1>1. PICK S : vec.data \in Seq(S)
  BY DEF IsRing
<1> DEFINE d == vec.data
           n == Len(d)
           T == S \cup {x}
           out == Push(vec, capacity, x)
<1>2. /\ n \in 1 .. capacity /\ vec.last_index \in 0 .. n - 1
      /\ n < capacity => vec.last_index = n - 1
      /\ d \in Seq(T) /\ x \in T /\ DOMAIN d = 1 .. n
  BY <1>1 DEF IsRing
<1>3. CASE n < capacity
  <2>1. out = [data |-> Append(d, x), first_index |-> 0, last_index |-> n]
    BY <1>3 DEF Push
  <2>2. out.data = Append(d, x) /\ out.last_index = n
    BY <2>1
  <2>3. n + 1 <= capacity /\ vec.last_index + 1 = n /\ (vec.last_index + 1) % capacity = n
    <3>1. vec.last_index + 1 = n /\ n \in 0 .. capacity - 1
      BY <1>2, <1>3
    <3> HIDE DEF n
    <3>2. n % capacity = n
      BY <3>1
    <3> QED
      BY <3>1, <3>2
  <2>4. Append(d, x) \in Seq(T) /\ Len(Append(d, x)) = n + 1 /\ Append(d, x)[n + 1] = x
    BY <1>2
  <2>5. \A k \in 1 .. n : Append(d, x)[k] = d[k]
    BY <1>2
  <2> HIDE DEF out, n
  <2>6. IsRing(out, capacity)
    BY <1>2, <2>2, <2>3, <2>4 DEF IsRing
  <2>7. ASSUME NEW k \in 0 .. Len(out.data) - 1, k # n
        PROVE  k \in 0 .. n - 1 /\ At(out, k) = At(vec, k)
    <3>1. k \in 0 .. n - 1 /\ k + 1 \in 1 .. n
      BY <1>2, <2>2, <2>4, <2>7
    <3> QED
      BY <2>2, <2>5, <3>1 DEF At
  <2>8. LastOf(out) = x
    BY <2>2, <2>4 DEF LastOf, At
  <2>9. vec.last_index \in 0 .. capacity - 1 /\ n \in Nat /\ Len(out.data) \in Nat /\ n <= Len(out.data)
    BY <1>2, <2>2, <2>4
  <2> QED
    BY <2>2, <2>3, <2>6, <2>7, <2>8, <2>9 DEF n, out, Pushed
<1>4. CASE ~(n < capacity)
  <2> DEFINE last == (vec.last_index + 1) % capacity
  <2>1. n = capacity /\ last \in 0 .. capacity - 1 /\ last + 1 \in 1 .. n
    BY <1>2, <1>4
  <2> HIDE DEF last
  <2>2. out.data = [d EXCEPT ![last + 1] = x] /\ out.last_index = last
    BY <1>4 DEF Push, last
  <2>3. /\ [d EXCEPT ![last + 1] = x] \in Seq(T) /\ Len([d EXCEPT ![last + 1] = x]) = n
        /\ [d EXCEPT ![last + 1] = x][last + 1] = x
        /\ \A k \in 1 .. n : k # last + 1 => [d EXCEPT ![last + 1] = x][k] = d[k]
    BY <1>2, <2>1
  <2> HIDE DEF out, n
  <2>4. IsRing(out, capacity)
    BY <2>1, <2>2, <2>3 DEF IsRing
  <2>5. ASSUME NEW k \in 0 .. Len(out.data) - 1, k # last
        PROVE  k \in 0 .. n - 1 /\ At(out, k) = At(vec, k)
    <3>1. k \in 0 .. n - 1 /\ k + 1 \in 1 .. n /\ k + 1 # last + 1
      BY <2>1, <2>2, <2>3, <2>5
    <3> QED
      BY <2>2, <2>3, <3>1 DEF At
  <2>6. LastOf(out) = x
    BY <2>2, <2>3 DEF LastOf, At
  <2>7. vec.last_index \in 0 .. capacity - 1 /\ n \in Nat /\ Len(out.data) \in Nat /\ n <= Len(out.data)
    BY <1>2, <2>1, <2>2, <2>3
  <2> QED
    BY <2>2, <2>4, <2>5, <2>6, <2>7 DEF n, last, out, Pushed
<1> QED
  BY <1>3, <1>4

\* The first element.
LEMMA PushFirst ==
    ASSUME NEW capacity \in Nat \ {0}, NEW x
    PROVE  /\ IsRing(Push(EmptyVec, capacity, x), capacity)
           /\ Push(EmptyVec, capacity, x).last_index = 0
           /\ Len(Push(EmptyVec, capacity, x).data) = 1
           /\ LastOf(Push(EmptyVec, capacity, x)) = x
<1>1. EmptyVec.data = <<>> /\ Len(EmptyVec.data) = 0
  BY DEF EmptyVec
<1>2. /\ Push(EmptyVec, capacity, x).data = Append(<<>>, x)
      /\ Push(EmptyVec, capacity, x).last_index = 0
  BY <1>1 DEF Push
<1>3. Append(<<>>, x) = <<x>> /\ <<x>> \in Seq({x}) /\ Len(<<x>>) = 1 /\ <<x>>[1] = x
  OBVIOUS
<1> DEFINE out == Push(EmptyVec, capacity, x)
<1> HIDE DEF out
<1>4. out.data \in Seq({x}) /\ Len(out.data) = 1 /\ out.data[1] = x /\ out.last_index = 0
  BY <1>2, <1>3 DEF out
<1>5. LastOf(out) = x /\ IsRing(out, capacity)
  BY <1>4 DEF IsRing, LastOf, At
<1> QED
  BY <1>4, <1>5 DEF out

\* IterFrom, from a position a few elements back, yields those elements.
Yields(iter, vec, capacity, b, m) ==
    Len(iter) = m /\ \A k \in 1 .. m : iter[k] = At(vec, (b + k) % capacity)

\* iter_from, from a position that m elements have followed, returns those m.
LEMMA IterValues ==
    ASSUME NEW vec, NEW capacity \in Nat \ {0}, NEW b \in 0 .. capacity - 1,
           NEW m \in 1 .. capacity, vec.last_index = (b + m) % capacity
    PROVE  Yields(IterFrom(vec, capacity, (b + 1) % capacity), vec, capacity, b, m)
<1> DEFINE first == (b + 1) % capacity
           count == ((vec.last_index - first) % capacity) + 1
<1>1. first = (IF b + 1 >= capacity THEN b + 1 - capacity ELSE b + 1)
      /\ vec.last_index = (IF b + m >= capacity THEN b + m - capacity ELSE b + m)
  BY Wrap
<1>2. count = m
  <2>1. /\ first \in 0 .. capacity - 1 /\ vec.last_index \in 0 .. capacity - 1
        /\ vec.last_index - first = m - 1 \/ vec.last_index - first = m - 1 - capacity
    BY <1>1
  <2> HIDE DEF first
  <2>2. (vec.last_index - first) % capacity = m - 1
    <3>1. (vec.last_index - first) % capacity =
            IF first > vec.last_index THEN vec.last_index - first + capacity
            ELSE vec.last_index - first
      BY <2>1, Wrap
    <3> QED
      BY <2>1, <3>1
  <2> QED
    BY <2>2
<1>3. ASSUME NEW k \in 1 .. m PROVE (first + k - 1) % capacity = (b + k) % capacity
  <2>1. first \in 0 .. capacity - 1 /\ k - 1 \in 0 .. capacity /\ k \in 0 .. capacity
    BY <1>1
  <2>2. (b + k) % capacity = IF b + k >= capacity THEN b + k - capacity ELSE b + k
    BY <2>1, Wrap
  <2>3. (first + (k - 1)) % capacity
          = IF first + (k - 1) >= capacity THEN first + (k - 1) - capacity ELSE first + (k - 1)
    <3> HIDE DEF first
    <3> QED
      BY <2>1, Wrap
  <2>4. first + k - 1 = first + (k - 1)
    BY <2>1
  <2> QED
    BY <1>1, <2>2, <2>3, <2>4
<1> DEFINE iter == IterFrom(vec, capacity, first)
<1>4. iter = [k \in 1 .. m |-> At(vec, (first + k - 1) % capacity)]
  <2> HIDE DEF first
  <2> QED
    BY <1>2 DEF IterFrom, count
<1>5. Len(iter) = m
  BY <1>4
<1>6. ASSUME NEW k \in 1 .. m PROVE iter[k] = At(vec, (b + k) % capacity)
  BY <1>3, <1>4
<1> QED
  BY <1>5, <1>6 DEF Yields

\* The fields of the struct.
IsTree(t) ==
    t = [next_index      |-> t.next_index,
         sequence_number |-> t.sequence_number,
         rightmost_leaf  |-> t.rightmost_leaf,
         filled_subtrees |-> t.filled_subtrees,
         changelog       |-> t.changelog,
         roots           |-> t.roots,
         canopy          |-> t.canopy]

\* A tree with another canopy.
Recached(t, u, canopy) ==
    /\ IsTree(u) /\ u.canopy = canopy
    /\ u.next_index = t.next_index /\ u.filled_subtrees = t.filled_subtrees
    /\ u.changelog = t.changelog /\ u.roots = t.roots
    /\ u.sequence_number = t.sequence_number
    /\ \A lvs : Appendable(t, lvs) => Appendable(u, lvs)

\* update_canopy changes nothing but the canopy.
LEMMA CanopyField ==
    ASSUME NEW t, IsTree(t), NEW canopy
    PROVE  Recached(t, [t EXCEPT !.canopy = canopy], canopy)
<1> DEFINE u == [t EXCEPT !.canopy = canopy]
<1>1. /\ u.canopy = canopy /\ u.next_index = t.next_index
      /\ u.filled_subtrees = t.filled_subtrees /\ u.changelog = t.changelog
      /\ u.roots = t.roots /\ u.sequence_number = t.sequence_number
      /\ u.rightmost_leaf = t.rightmost_leaf
  BY DEF IsTree
<1>2. IsTree(u)
  BY <1>1 DEF IsTree
<1> HIDE DEF u
<1>3. ASSUME NEW lvs, Appendable(t, lvs) PROVE Appendable(u, lvs)
  BY <1>1, <1>3 DEF Appendable, Filled, Blank
<1>4. Recached(t, u, canopy)
  BY <1>1, <1>2, <1>3 DEF Recached
<1> QED
  BY <1>4 DEF u

\* update_canopy applies the entries one after the other.
Cached(c, t, u, iter, m) ==
    /\ c[0] = t.canopy
    /\ \A k \in 1 .. m : c[k] = CanopyAfter(c[k - 1], iter[k])
    /\ Recached(t, u, c[m])

\* update_canopy applies the entries to the canopy one after the other.
LEMMA CanopyFold ==
    ASSUME NEW t, IsTree(t), NEW first, NEW m \in Nat,
           Len(IterFrom(t.changelog, ChangelogCapacity, first)) = m
    PROVE  \E c : Cached(c, t, update_canopy(t, first),
                         IterFrom(t.changelog, ChangelogCapacity, first), m)
<1> DEFINE entries == IterFrom(t.changelog, ChangelogCapacity, first)
           G(k, x) == CanopyAfter(x, entries[k])
           Is(f, n) == f = [k \in 0 .. n |-> IF k = 0 THEN t.canopy ELSE G(k, f[k - 1])]
           Good == {n \in 0 .. m : \E f : Is(f, n)}
<1>0. 0 \in 0 .. m /\ m \in 0 .. m
  OBVIOUS
<1>1. 0 \in Good
  <2>1. Is([l \in 0 .. 0 |-> t.canopy], 0)
    OBVIOUS
  <2> HIDE DEF Is
  <2> QED
    BY <1>0, <2>1
<1>2. ASSUME NEW k \in 0 .. m - 1, k \in Good PROVE k + 1 \in Good
  <2>1. PICK f : Is(f, k)
    BY <1>2
  <2>2. k \in Nat /\ k + 1 \in 0 .. m
    OBVIOUS
  <2> HIDE DEF G
  <2> DEFINE g == [l \in 0 .. k + 1 |-> IF l = k + 1 THEN G(k + 1, f[k]) ELSE f[l]]
  <2>3. Is(g, k + 1)
    BY <2>1, <2>2
  <2> QED
    BY <2>2, <2>3
<1>3. m \in Good
  <2> HIDE DEF Good
  <2> QED
    BY <1>0, <1>1, <1>2, NumberInduction
<1>4. PICK f : Is(f, m) /\ update_canopy(t, first) = [t EXCEPT !.canopy = f[m]]
  <2> DEFINE f == CHOOSE f : Is(f, m)
  <2>1. Is(f, m)
    BY <1>3
  <2>2. update_canopy(t, first) = [t EXCEPT !.canopy = f[m]]
    BY DEF update_canopy
  <2> QED
    BY <2>1, <2>2
<1>5. f[0] = t.canopy
  BY <1>4
<1>6. ASSUME NEW k \in 1 .. m PROVE f[k] = CanopyAfter(f[k - 1], entries[k])
  <2>1. k \in 0 .. m /\ k # 0
    OBVIOUS
  <2> HIDE DEF G
  <2>2. f[k] = G(k, f[k - 1])
    BY <1>4, <2>1
  <2> QED
    BY <2>2 DEF G
<1>7. Recached(t, update_canopy(t, first), f[m])
  <2> DEFINE x == f[m]
  <2>1. update_canopy(t, first) = [t EXCEPT !.canopy = x]
    BY <1>4
  <2> HIDE DEF x
  <2>2. Recached(t, [t EXCEPT !.canopy = x], x)
    BY CanopyField
  <2> QED
    BY <2>1, <2>2 DEF x
<1> HIDE DEF Is, entries
<1>8. Cached(f, t, update_canopy(t, first), entries, m)
  BY <1>5, <1>6, <1>7 DEF Cached
<1> QED
  BY <1>8 DEF entries

-----------------------------------------------------------------------------
\* append_batch.

\* append_batch_common appends the leaves one after the other.
Appends(f, end, t, batch, m) ==
    /\ f[0] = t
    /\ \A k \in 1 .. m : f[k] = AppendLeaf(f[k - 1], batch[k], end[k])
    /\ \A k \in 1 .. m : end[k] \in BOOLEAN /\ (end[k] <=> k = m)
    /\ AppendAll(t, batch) = f[m]

\* append_batch_common appends the leaves one after the other; only the last
\* is terminal.
LEMMA AppendFold ==
    ASSUME NEW t, NEW batch, NEW m \in Nat, Len(batch) = m
    PROVE  \E f, end : Appends(f, end, t, batch, m)
<1> DEFINE G(k, x) == AppendLeaf(x, batch[k], k = m)
           Is(f, n) == f = [k \in 0 .. n |-> IF k = 0 THEN t ELSE G(k, f[k - 1])]
           Good == {n \in 0 .. m : \E f : Is(f, n)}
<1>0. 0 \in 0 .. m /\ m \in 0 .. m
  OBVIOUS
<1>1. 0 \in Good
  <2>1. Is([l \in 0 .. 0 |-> t], 0)
    OBVIOUS
  <2> HIDE DEF Is
  <2> QED
    BY <1>0, <2>1
<1>2. ASSUME NEW k \in 0 .. m - 1, k \in Good PROVE k + 1 \in Good
  <2>1. PICK f : Is(f, k)
    BY <1>2
  <2>2. k \in Nat /\ k + 1 \in 0 .. m
    OBVIOUS
  <2> HIDE DEF G
  <2> DEFINE g == [l \in 0 .. k + 1 |-> IF l = k + 1 THEN G(k + 1, f[k]) ELSE f[l]]
  <2>3. Is(g, k + 1)
    BY <2>1, <2>2
  <2> QED
    BY <2>2, <2>3
<1>3. m \in Good
  <2> HIDE DEF Good
  <2> QED
    BY <1>0, <1>1, <1>2, NumberInduction
<1>4. PICK f : Is(f, m) /\ AppendAll(t, batch) = f[m]
  <2> DEFINE f == CHOOSE f : Is(f, m)
  <2>1. Is(f, m)
    BY <1>3
  <2>2. AppendAll(t, batch) = f[m]
    BY DEF AppendAll
  <2> QED
    BY <2>1, <2>2
<1>5. f[0] = t
  BY <1>4
<1>6. ASSUME NEW k \in 1 .. m PROVE f[k] = AppendLeaf(f[k - 1], batch[k], k = m)
  <2>1. k \in 0 .. m /\ k # 0
    OBVIOUS
  <2> HIDE DEF G
  <2>2. f[k] = G(k, f[k - 1])
    BY <1>4, <2>1
  <2> QED
    BY <2>2 DEF G
<1> HIDE DEF Is
<1> DEFINE end == [k \in 1 .. m |-> k = m]
<1>7. \A k \in 1 .. m : end[k] \in BOOLEAN /\ (end[k] <=> k = m) /\ end[k] = (k = m)
  BY Zenon
<1>8. \A k \in 1 .. m : f[k] = AppendLeaf(f[k - 1], batch[k], end[k])
  BY <1>6, <1>7, Zenon
<1> HIDE DEF end
<1>9. Appends(f, end, t, batch, m)
  BY <1>4, <1>5, <1>7, <1>8, Zenon DEF Appends
<1> QED
  BY <1>9

\* The changelog entry of an appended leaf.
EntryOf(t, leaf, terminal) ==
    [path  |-> [l \in {k \in Level : k <= LastLevel(t.next_index, terminal)} |->
                    PathOf(leaf, t.next_index, AppendProof(t))[l]],
     index |-> t.next_index]

\* It has nodes of the tree; those it does not have are above the next leaf
\* too, which is part of the same batch.
EntryIn(entry, lvs, n, terminal) ==
    /\ entry.index = n
    /\ \A l \in Level : l \in DOMAIN entry.path => entry.path[l] = NodesOf(lvs)[l][Above(n, l)]
    /\ \A l \in Level : l \notin DOMAIN entry.path =>
            ~terminal /\ Above(n + 1, l) = Above(n, l)

\* The changelog entry of an appended leaf holds nodes of the new tree; those
\* it leaves undefined are above the next leaf too.
LEMMA EntryFacts ==
    ASSUME NEW t, NEW lvs, Appendable(t, lvs), t.next_index \in LeafIndex,
           NEW lvs2, NEW leaf, Changed(lvs, lvs2, t.next_index, leaf),
           NEW terminal \in BOOLEAN, ~terminal => t.next_index + 1 \in LeafIndex
    PROVE  EntryIn(EntryOf(t, leaf, terminal), lvs2, t.next_index, terminal)
<1> DEFINE n == t.next_index
           e == EntryOf(t, leaf, terminal)
           last == LastLevel(n, terminal)
           node == PathOf(leaf, n, AppendProof(t))
<1>1. n \in LeafIndex /\ n \in Nat
  BY AboveBound
<1>2. PathIn(node, lvs2, n)
  BY AppendPath
<1>3. e.index = n /\ e.path = [l \in {k \in Level : k <= last} |-> node[l]]
  BY DEF EntryOf
<1> HIDE DEF e, node
<1>4. ASSUME NEW l \in Level, l \in DOMAIN e.path PROVE e.path[l] = NodesOf(lvs2)[l][Above(n, l)]
  BY <1>2, <1>3, <1>4, LevelFacts DEF PathIn
<1>5. ASSUME NEW l \in Level, l \notin DOMAIN e.path
      PROVE  ~terminal /\ Above(n + 1, l) = Above(n, l)
  <2>1. ~(l <= last)
    BY <1>3, <1>5
  <2>2. l \in Nat /\ l <= Height /\ l \in 0 .. Height
    BY LevelFacts
  <2>3. ~terminal
    BY <1>1, <2>1, <2>2, LastLevelFacts
  <2>4. last \in Level /\ IsLeft(n, last) /\ \A k \in 0 .. last - 1 : ~IsLeft(n, k)
    BY <1>1, <2>3, LastLevelFacts
  <2> HIDE DEF last
  <2>5. last \in 0 .. Height /\ last \in Nat
    BY <2>4, LevelFacts
  <2>6. Above(n + 1, l) = Above(n, l)
    BY <1>1, <2>1, <2>2, <2>4, <2>5, AboveNext
  <2> QED
    BY <2>3, <2>6
<1> QED
  BY <1>3, <1>4, <1>5 DEF EntryIn, e

\* The newest root is the one of the tree.
RootIn(t, lvs) == LastOf(t.roots) = NodesOf(lvs)[Height][0]

\* append_batch_common, one leaf.
LeafAppended(t, u, entry, lvs2, terminal) ==
    /\ IsTree(u) /\ Appendable(u, lvs2)
    /\ u.next_index = t.next_index + 1
    /\ u.canopy = t.canopy
    /\ u.changelog = Push(t.changelog, ChangelogCapacity, entry)
    /\ IsRing(u.roots, RootsCapacity)
    /\ terminal => RootIn(u, lvs2)

\* Appending a leaf leaves a tree to which the next one can be appended.
LEMMA AppendFacts ==
    ASSUME NEW t, NEW lvs, Appendable(t, lvs), t.next_index \in LeafIndex,
           IsRing(t.roots, RootsCapacity),
           NEW lvs2, NEW leaf, Changed(lvs, lvs2, t.next_index, leaf),
           NEW terminal \in BOOLEAN, ~terminal => t.next_index + 1 \in LeafIndex
    PROVE  LeafAppended(t, AppendLeaf(t, leaf, terminal), EntryOf(t, leaf, terminal),
                        lvs2, terminal)
<1> DEFINE n == t.next_index
           u == AppendLeaf(t, leaf, terminal)
           node == PathOf(leaf, n, AppendProof(t))
           root == IF terminal THEN node[Height] ELSE Zero
<1>1. IsTree(u)
  BY DEF AppendLeaf, IsTree
<1>2. u.next_index = n + 1 /\ u.canopy = t.canopy /\ u.roots = Push(t.roots, RootsCapacity, root)
  BY DEF AppendLeaf
<1>3. u.changelog = Push(t.changelog, ChangelogCapacity, EntryOf(t, leaf, terminal))
  BY DEF AppendLeaf, EntryOf
<1>4. Appendable(u, lvs2)
  BY AppendFilled
<1>5. PathIn(node, lvs2, n)
  BY AppendPath
<1>6. Above(n, Height) = 0
  BY AboveBound
<1> HIDE DEF node, u
<1>7. terminal => root = NodesOf(lvs2)[Height][0]
  BY <1>5, <1>6, LevelFacts DEF PathIn
<1> HIDE DEF root
<1>8. IsRing(u.roots, RootsCapacity) /\ LastOf(u.roots) = root
  BY <1>2, PushRing, SizeConstraints DEF Pushed
<1> QED
  BY <1>1, <1>2, <1>3, <1>4, <1>7, <1>8 DEF LeafAppended, u, RootIn

\* Different distances lead to different positions of a ring.
LEMMA WrapApart ==
    ASSUME NEW c \in Nat \ {0}, NEW b \in 0 .. c - 1, NEW k \in 0 .. c - 1
    PROVE  /\ (((b + k) % c) + 1) % c = (b + (k + 1)) % c
           /\ \A j \in 1 .. k : (b + j) % c # (b + (k + 1)) % c
<1>1. /\ (b + k) % c = IF b + k >= c THEN b + k - c ELSE b + k
      /\ (b + (k + 1)) % c = IF b + (k + 1) >= c THEN b + (k + 1) - c ELSE b + (k + 1)
      /\ \A j \in 1 .. k : (b + j) % c = IF b + j >= c THEN b + j - c ELSE b + j
  BY Wrap
<1> DEFINE p == (b + k) % c
           q == (b + (k + 1)) % c
<1>2. p \in 0 .. c - 1 /\ 1 \in 0 .. c
  BY <1>1
<1> HIDE DEF p
<1>3. (p + 1) % c = IF p + 1 >= c THEN p + 1 - c ELSE p + 1
  BY <1>2, Wrap
<1>4. (p + 1) % c = q
  BY <1>1, <1>3 DEF p
<1>5. ASSUME NEW j \in 1 .. k PROVE (b + j) % c # q
  BY <1>1
<1> QED
  BY <1>4, <1>5 DEF p

\* The leaves after the first k of a batch.
With(lvs, n, batch, k) ==
    [i \in LeafIndex |-> IF i \in n .. n + k - 1 THEN batch[i - n + 1] ELSE lvs[i]]

\* One more leaf of a batch changes one leaf.
LEMMA WithNext ==
    ASSUME NEW lvs, NEW n \in Nat, NEW batch, NEW k \in Nat, n + k \in LeafIndex
    PROVE  Changed(With(lvs, n, batch, k), With(lvs, n, batch, k + 1), n + k, batch[k + 1])
<1>1. \A i \in LeafIndex : i \in Nat
  BY AboveBound
<1>2. n + k \in n .. n + (k + 1) - 1 /\ n + k - n + 1 = k + 1
  OBVIOUS
<1>3. With(lvs, n, batch, k + 1)[n + k] = batch[k + 1]
  BY <1>2 DEF With
<1>4. ASSUME NEW i \in LeafIndex \ {n + k}
      PROVE  With(lvs, n, batch, k + 1)[i] = With(lvs, n, batch, k)[i]
  <2>1. i \in n .. n + k - 1 <=> i \in n .. n + (k + 1) - 1
    BY <1>1
  <2> QED
    BY <2>1 DEF With
<1> QED
  BY <1>3, <1>4 DEF Changed

\* The state of append_batch_common after k leaves.
Appended(f, t, lvs, batch, entries, k) ==
    /\ IsTree(f[k]) /\ f[k].next_index = t.next_index + k /\ f[k].canopy = t.canopy
    /\ Appendable(f[k], With(lvs, t.next_index, batch, k))
    /\ IsRing(f[k].roots, RootsCapacity)
    /\ IsRing(f[k].changelog, ChangelogCapacity)
    /\ f[k].changelog.last_index = (t.changelog.last_index + k) % ChangelogCapacity
    /\ \A j \in 1 .. k :
        LET p == (t.changelog.last_index + j) % ChangelogCapacity
        IN  /\ p \in 0 .. Len(f[k].changelog.data) - 1
            /\ At(f[k].changelog, p) = entries[j]

\* One round of append_batch_common.
LEMMA AppendStep ==
    ASSUME NEW f, NEW t, NEW lvs, NEW batch, NEW entries, NEW m \in 1 .. ChangelogCapacity,
           t.next_index \in Nat, t.next_index + m <= Pow2[Height],
           t.changelog.last_index \in 0 .. ChangelogCapacity - 1,
           NEW k \in 0 .. m - 1, Appended(f, t, lvs, batch, entries, k),
           NEW terminal \in BOOLEAN, terminal <=> k + 1 = m,
           f[k + 1] = AppendLeaf(f[k], batch[k + 1], terminal),
           entries[k + 1] = EntryOf(f[k], batch[k + 1], terminal)
    PROVE  /\ Appended(f, t, lvs, batch, entries, k + 1)
           /\ EntryIn(entries[k + 1], With(lvs, t.next_index, batch, k + 1),
                      t.next_index + k, terminal)
           /\ terminal => RootIn(f[k + 1], With(lvs, t.next_index, batch, k + 1))
<1> DEFINE n == t.next_index
           b == t.changelog.last_index
           c == ChangelogCapacity
           x == f[k]
           y == f[k + 1]
           leaf == batch[k + 1]
           old == With(lvs, n, batch, k)
           new == With(lvs, n, batch, k + 1)
           e == EntryOf(x, leaf, terminal)
<1>1. /\ k \in Nat /\ c \in Nat \ {0} /\ k \in 0 .. c - 1 /\ n + k \in Nat
      /\ n + k + 1 = n + (k + 1)
  BY SizeConstraints
<1>2. n + k \in LeafIndex /\ (~terminal => n + k + 1 \in LeafIndex)
  <2>1. Pow2[Height] \in Nat
    BY Pow2Values, LevelFacts
  <2> QED
    BY <1>1, <2>1 DEF LeafIndex
<1>3. /\ x.next_index = n + k /\ Appendable(x, old) /\ IsRing(x.roots, RootsCapacity)
      /\ IsRing(x.changelog, c) /\ x.changelog.last_index = (b + k) % c
      /\ x.canopy = t.canopy
  BY DEF Appended
<1>4. Changed(old, new, n + k, leaf)
  BY <1>1, <1>2, WithNext
<1>5. y = AppendLeaf(x, leaf, terminal) /\ e = entries[k + 1]
  OBVIOUS
<1> HIDE DEF old, new, leaf, x, y
<1>6. /\ Changed(old, new, x.next_index, leaf) /\ x.next_index \in LeafIndex
      /\ ~terminal => x.next_index + 1 \in LeafIndex
  BY <1>2, <1>3, <1>4
<1>10. EntryIn(e, new, x.next_index, terminal)
  BY <1>3, <1>5, <1>6, EntryFacts
<1>11. LeafAppended(x, y, e, new, terminal)
  BY <1>3, <1>5, <1>6, AppendFacts
<1> HIDE DEF e
<1>12. Pushed(x.changelog, y.changelog, c, e)
  BY <1>1, <1>3, <1>11, PushRing DEF LeafAppended
<1>7. y.changelog.last_index = (b + (k + 1)) % c
  <2>1. (((b + k) % c) + 1) % c = (b + (k + 1)) % c
    BY <1>1, WrapApart
  <2>2. y.changelog.last_index = (x.changelog.last_index + 1) % c
    BY <1>12 DEF Pushed
  <2> QED
    BY <1>3, <2>1, <2>2
<1>8. ASSUME NEW j \in 1 .. k + 1
      PROVE  /\ (b + j) % c \in 0 .. Len(y.changelog.data) - 1
             /\ At(y.changelog, (b + j) % c) = entries[j]
  <2>1. CASE j = k + 1
    <3>2. y.changelog.last_index \in 0 .. Len(y.changelog.data) - 1
      BY <1>12 DEF IsRing, Pushed
    <3> QED
      BY <1>5, <1>7, <1>12, <2>1, <3>2 DEF LastOf, Pushed
  <2>2. CASE j # k + 1
    <3>1. j \in 1 .. k
      BY <1>1, <2>2
    <3> DEFINE p == (b + j) % c
    <3>2. p \in 0 .. Len(x.changelog.data) - 1
          /\ At(x.changelog, p) = entries[j]
      BY <3>1 DEF Appended, x
    <3>3. p # (x.changelog.last_index + 1) % c
      <4>1. (b + j) % c # (b + (k + 1)) % c
        BY <1>1, <3>1, WrapApart
      <4>2. (x.changelog.last_index + 1) % c = y.changelog.last_index
        BY <1>12 DEF Pushed
      <4> QED
        BY <1>7, <4>1, <4>2
    <3> HIDE DEF p
    <3>5. p \in 0 .. Len(y.changelog.data) - 1
      BY <1>12, <3>2 DEF Pushed
    <3>6. At(y.changelog, p) = At(x.changelog, p)
      BY <1>3, <1>12, <3>3, <3>5 DEF Pushed
    <3> QED
      BY <3>2, <3>5, <3>6 DEF p
  <2> QED
    BY <2>1, <2>2
<1>9. Appended(f, t, lvs, batch, entries, k + 1)
  <2>1. y.next_index = n + (k + 1) /\ y.canopy = t.canopy
    BY <1>1, <1>3, <1>11 DEF LeafAppended
  <2> QED
    BY <1>7, <1>8, <1>11, <1>12, <2>1 DEF Appended, y, new, LeafAppended, Pushed
<1>13. EntryIn(e, new, n + k, terminal)
  BY <1>3, <1>10
<1> QED
  BY <1>5, <1>9, <1>11, <1>13 DEF y, new, LeafAppended

\* The cached node above leaf i is the node of the tree.
SlotIn(canopy, lvs, i, l) == canopy[CanopyIndex(i, l)] = NodesOf(lvs)[l][Above(i, l)]
CanopyIn(canopy, lvs) ==
    /\ DOMAIN canopy = CanopyDomain
    /\ \A i \in LeafIndex, l \in CanopyLevel : SlotIn(canopy, lvs, i, l)

\* What holds of the struct and the leaves it stands for.
TreeInv(t, lvs) ==
    /\ lvs = [i \in LeafIndex |-> lvs[i]]
    /\ IsTree(t) /\ Appendable(t, lvs)
    /\ IsRing(t.changelog, ChangelogCapacity) /\ IsRing(t.roots, RootsCapacity)
    /\ RootIn(t, lvs)
    /\ CanopyIn(t.canopy, lvs)

\* While the entries of a batch are applied, a cached node may be old only if
\* it is above the next leaf: an entry that follows has it.
HalfIn(canopy, lvs, n, more) ==
    /\ DOMAIN canopy = CanopyDomain
    /\ \A i \in LeafIndex, l \in CanopyLevel :
        SlotIn(canopy, lvs, i, l) \/ (more /\ Above(i, l) = Above(n, l))

\* Applying the entry of an appended leaf to the canopy.
LEMMA HalfStep ==
    ASSUME NEW canopy, NEW lvs, NEW lvs2, NEW n \in LeafIndex, NEW leaf,
           Changed(lvs, lvs2, n, leaf),
           NEW more \in BOOLEAN, HalfIn(canopy, lvs, n, more),
           NEW entry, NEW terminal \in BOOLEAN, EntryIn(entry, lvs2, n, terminal),
           NEW rest \in BOOLEAN, rest <=> ~terminal
    PROVE  HalfIn(CanopyAfter(canopy, entry), lvs2, n + 1, rest)
<1> DEFINE new == CanopyAfter(canopy, entry)
<1>1. /\ DOMAIN canopy = CanopyDomain /\ entry.index = n /\ entry.index \in LeafIndex
      /\ n \in Nat
  BY AboveBound DEF HalfIn, EntryIn
<1>2. DOMAIN new = CanopyDomain
  BY <1>1, CanopyStep
<1>3. ASSUME NEW i \in LeafIndex, NEW l \in CanopyLevel
      PROVE  SlotIn(new, lvs2, i, l) \/ (~terminal /\ Above(i, l) = Above(n + 1, l))
  <2> DEFINE hit == Above(i, l) = Above(n, l) /\ l \in DOMAIN entry.path
  <2>1. new[CanopyIndex(i, l)] = IF hit THEN entry.path[l] ELSE canopy[CanopyIndex(i, l)]
    BY <1>1, CanopyStep
  <2>2. l \in Level /\ l \in 0 .. Height
    BY CanopyRange, LevelFacts
  <2> HIDE DEF new
  <2>3. CASE hit
    <3>1. entry.path[l] = NodesOf(lvs2)[l][Above(n, l)]
      BY <2>2, <2>3 DEF EntryIn
    <3> QED
      BY <2>1, <2>3, <3>1 DEF SlotIn
  <2>4. CASE Above(i, l) = Above(n, l) /\ l \notin DOMAIN entry.path
    <3>1. ~terminal /\ Above(n + 1, l) = Above(n, l)
      BY <2>2, <2>4 DEF EntryIn
    <3> QED
      BY <2>4, <3>1
  <2>5. CASE Above(i, l) # Above(n, l)
    <3>1. SlotIn(canopy, lvs, i, l)
      BY <2>5 DEF HalfIn
    <3>2. Above(i, l) \in 0 .. Pow2[Height - l] - 1
      BY <2>2, AboveBound
    <3> DEFINE a == Above(i, l)
    <3>3. NodesOf(lvs2)[l][a] = NodesOf(lvs)[l][a]
      BY <2>2, <2>5, <3>2, OtherNodes
    <3>4. new[CanopyIndex(i, l)] = canopy[CanopyIndex(i, l)]
      BY <2>1, <2>5
    <3> QED
      BY <3>1, <3>3, <3>4 DEF SlotIn
  <2> QED
    BY <2>3, <2>4, <2>5
<1> HIDE DEF new
<1> QED
  BY <1>2, <1>3 DEF HalfIn, new

\* append_batch_common, leaf by leaf.
Stepwise(f, end, entries, t, lvs, batch, m) ==
    /\ Appends(f, end, t, batch, m)
    /\ \A k \in 0 .. m : Appended(f, t, lvs, batch, entries, k)
    /\ \A k \in 0 .. m - 1 : EntryIn(entries[k + 1], With(lvs, t.next_index, batch, k + 1),
                                    t.next_index + k, end[k + 1])
    /\ \A k \in 0 .. m - 1 : entries[k + 1] = EntryOf(f[k], batch[k + 1], end[k + 1])
    /\ RootIn(f[m], With(lvs, t.next_index, batch, m))

\* The rounds of append_batch_common, from the first leaf to the last.
LEMMA BatchSteps ==
    ASSUME NEW t, NEW lvs, TreeInv(t, lvs), NEW batch, NEW m \in 1 .. ChangelogCapacity,
           Len(batch) = m, t.next_index + m <= Pow2[Height]
    PROVE  \E f, end, entries : Stepwise(f, end, entries, t, lvs, batch, m)
<1> DEFINE n == t.next_index
           b == t.changelog.last_index
           c == ChangelogCapacity
           L(k) == With(lvs, n, batch, k)
<1>1. /\ c \in Nat \ {0} /\ m \in Nat /\ m # 0 /\ 0 \in 0 .. m /\ m \in 0 .. m
      /\ \A k \in 0 .. m - 1 : k \in Nat /\ k + 1 \in 1 .. m /\ k + 1 - 1 = k
  BY SizeConstraints
<1>2. /\ lvs = [i \in LeafIndex |-> lvs[i]] /\ IsTree(t) /\ Appendable(t, lvs)
      /\ IsRing(t.changelog, c) /\ IsRing(t.roots, RootsCapacity)
  BY DEF TreeInv
<1>3. n \in Nat /\ b \in 0 .. c - 1
  <2>1. n \in 0 .. Pow2[Height] /\ Pow2[Height] \in Nat
    BY <1>2, Pow2Values, LevelFacts DEF Appendable
  <2>2. b \in 0 .. Len(t.changelog.data) - 1 /\ Len(t.changelog.data) \in 1 .. c
    BY <1>2 DEF IsRing
  <2> QED
    BY <1>1, <2>1, <2>2
<1>4. PICK f, end : Appends(f, end, t, batch, m)
  BY <1>1, AppendFold
<1> DEFINE entries == [j \in 1 .. m |-> EntryOf(f[j - 1], batch[j], end[j])]
           Good == {k \in 0 .. m : Appended(f, t, lvs, batch, entries, k)}
<1>5. L(0) = lvs
  <2>1. \A i \in LeafIndex : i \notin n .. n + 0 - 1
    BY <1>3, AboveBound
  <2> QED
    BY <1>2, <2>1 DEF With
<1>6. 0 \in Good
  <2>1. n = n + 0 /\ b = (b + 0) % c /\ \A j \in 1 .. 0 : FALSE
    <3>0. 0 \in 0 .. c
      BY <1>1
    <3>1. (b + 0) % c = IF b + 0 >= c THEN b + 0 - c ELSE b + 0
      BY <1>1, <1>3, <3>0, Wrap
    <3> QED
      BY <1>1, <1>3, <3>1
  <2> QED
    BY <1>1, <1>2, <1>4, <1>5, <2>1 DEF Appended, Appends
<1>7. ASSUME NEW k \in 0 .. m - 1, k \in Good
      PROVE  /\ k + 1 \in Good /\ EntryIn(entries[k + 1], L(k + 1), n + k, end[k + 1])
             /\ k + 1 = m => RootIn(f[k + 1], L(k + 1))
  <2>1. /\ f[k + 1] = AppendLeaf(f[k], batch[k + 1], end[k + 1])
        /\ end[k + 1] \in BOOLEAN /\ (end[k + 1] <=> k + 1 = m)
        /\ entries[k + 1] = EntryOf(f[k], batch[k + 1], end[k + 1])
    BY <1>1, <1>4 DEF Appends
  <2>2. Appended(f, t, lvs, batch, entries, k)
    BY <1>7
  <2> HIDE DEF entries
  <2>3. /\ Appended(f, t, lvs, batch, entries, k + 1)
        /\ EntryIn(entries[k + 1], L(k + 1), n + k, end[k + 1])
        /\ end[k + 1] => RootIn(f[k + 1], L(k + 1))
    BY <1>3, <2>1, <2>2, AppendStep
  <2>4. k + 1 \in 0 .. m
    BY <1>1
  <2> QED
    BY <2>1, <2>3, <2>4
<1>8. \A k \in 0 .. m : k \in Good
  <2> HIDE DEF Good
  <2> QED
    BY <1>1, <1>6, <1>7, NumberInduction
<1>9. RootIn(f[m], L(m))
  <2>1. m - 1 \in 0 .. m - 1 /\ m - 1 + 1 = m /\ m - 1 \in 0 .. m
    BY <1>1
  <2> HIDE DEF Good, entries
  <2> QED
    BY <1>7, <1>8, <2>1
<1>10. \A k \in 0 .. m - 1 : EntryIn(entries[k + 1], L(k + 1), n + k, end[k + 1])
  <2>1. \A k \in 0 .. m - 1 : k \in 0 .. m
    BY <1>1
  <2> HIDE DEF Good, entries, L
  <2> QED
    BY <1>7, <1>8, <2>1
<1>11. \A k \in 0 .. m - 1 : entries[k + 1] = EntryOf(f[k], batch[k + 1], end[k + 1])
  BY <1>1
<1>12. \A k \in 0 .. m : Appended(f, t, lvs, batch, entries, k)
  BY <1>8
<1> HIDE DEF Good, entries
<1>13. Stepwise(f, end, entries, t, lvs, batch, m)
  BY <1>4, <1>9, <1>10, <1>11, <1>12 DEF Stepwise
<1> QED
  BY <1>13

\* append_batch_common: the tree stands for the old leaves and the batch.
LEMMA BatchInv ==
    ASSUME NEW t, NEW lvs, TreeInv(t, lvs), NEW batch, NEW m \in 1 .. ChangelogCapacity,
           Len(batch) = m, t.next_index + m <= Pow2[Height]
    PROVE  /\ TreeInv(append_batch(t, batch), With(lvs, t.next_index, batch, m))
           /\ append_batch(t, batch).next_index = t.next_index + m
<1> DEFINE n == t.next_index
           b == t.changelog.last_index
           c == ChangelogCapacity
           L(k) == With(lvs, n, batch, k)
<1>1. /\ c \in Nat \ {0} /\ m \in Nat /\ m # 0 /\ 0 \in 0 .. m /\ m \in 0 .. m
      /\ \A k \in 0 .. m - 1 : k \in Nat /\ k + 1 \in 1 .. m /\ k + 1 - 1 = k
  BY SizeConstraints
<1>2. /\ lvs = [i \in LeafIndex |-> lvs[i]] /\ IsTree(t) /\ Appendable(t, lvs)
      /\ IsRing(t.changelog, c) /\ IsRing(t.roots, RootsCapacity) /\ CanopyIn(t.canopy, lvs)
  BY DEF TreeInv
<1>3. n \in Nat /\ b \in 0 .. c - 1
  <2>1. n \in 0 .. Pow2[Height] /\ Pow2[Height] \in Nat
    BY <1>2, Pow2Values, LevelFacts DEF Appendable
  <2>2. b \in 0 .. Len(t.changelog.data) - 1 /\ Len(t.changelog.data) \in 1 .. c
    BY <1>2 DEF IsRing
  <2> QED
    BY <1>1, <2>1, <2>2
<1>4. PICK f, end, entries : Stepwise(f, end, entries, t, lvs, batch, m)
  BY BatchSteps
<1>5. L(0) = lvs
  <2>1. \A i \in LeafIndex : i \notin n .. n + 0 - 1
    BY <1>3, AboveBound
  <2> QED
    BY <1>2, <2>1 DEF With
<1>6. Appends(f, end, t, batch, m)
  BY <1>4 DEF Stepwise
<1>7. \A k \in 0 .. m - 1 : EntryIn(entries[k + 1], L(k + 1), n + k, end[k + 1])
  BY <1>4 DEF Stepwise
<1> DEFINE u == f[m]
           first == (b + 1) % c
           iter == IterFrom(u.changelog, c, first)
<1>9. Appended(f, t, lvs, batch, entries, m)
  BY <1>1, <1>4 DEF Stepwise
<1>10. RootIn(u, L(m))
  BY <1>4 DEF Stepwise
<1>11. /\ IsTree(u) /\ u.next_index = n + m /\ u.canopy = t.canopy /\ Appendable(u, L(m))
       /\ IsRing(u.roots, RootsCapacity) /\ IsRing(u.changelog, c)
       /\ u.changelog.last_index = (b + m) % c
       /\ \A j \in 1 .. m : At(u.changelog, (b + j) % c) = entries[j]
  BY <1>9 DEF Appended
<1> HIDE DEF u
<1>12. Len(iter) = m /\ \A k \in 1 .. m : iter[k] = entries[k]
  <2>1. Yields(iter, u.changelog, c, b, m)
    BY <1>1, <1>3, <1>11, IterValues
  <2> QED
    BY <1>11, <2>1 DEF Yields
<1>13. PICK d : Cached(d, u, update_canopy(u, first), iter, m)
  BY <1>1, <1>11, <1>12, CanopyFold
<1> DEFINE todo == [k \in 0 .. m |-> ~(k = m)]
           Partly == {k \in 0 .. m : HalfIn(d[k], L(k), n + k, todo[k])}
<1>14. \A k \in 0 .. m : todo[k] \in BOOLEAN /\ (todo[k] <=> k # m)
  BY Zenon
<1> HIDE DEF todo, iter, first
<1>15. 0 \in Partly
  <2>1. d[0] = t.canopy /\ n + 0 = n
    BY <1>3, <1>11, <1>13 DEF Cached
  <2>2. HalfIn(d[0], L(0), n + 0, todo[0])
    BY <1>2, <1>5, <2>1 DEF HalfIn, CanopyIn
  <2> QED
    BY <1>1, <2>2
<1>16. ASSUME NEW k \in 0 .. m - 1, k \in Partly PROVE k + 1 \in Partly
  <2>1. k \in 0 .. m /\ k + 1 \in 0 .. m /\ k + 1 \in 1 .. m /\ k \in Nat /\ n + k + 1 = n + (k + 1)
    BY <1>1, <1>3
  <2>2. n + k \in LeafIndex
    <3>1. Pow2[Height] \in Nat
      BY Pow2Values, LevelFacts
    <3> QED
      BY <1>1, <1>3, <2>1, <3>1 DEF LeafIndex
  <2>3. EntryIn(entries[k + 1], L(k + 1), n + k, end[k + 1])
    BY <1>7
  <2>4. Changed(L(k), L(k + 1), n + k, batch[k + 1])
    BY <1>3, <2>1, <2>2, WithNext
  <2>5. HalfIn(d[k], L(k), n + k, todo[k])
    BY <1>16
  <2>6. end[k + 1] \in BOOLEAN /\ todo[k] \in BOOLEAN /\ todo[k + 1] \in BOOLEAN
    BY <1>6, <1>14, <2>1 DEF Appends
  <2>7. todo[k + 1] <=> ~end[k + 1]
    BY <1>6, <1>14, <2>1 DEF Appends
  <2>8. d[k + 1] = CanopyAfter(d[k], entries[k + 1])
    BY <1>1, <1>12, <1>13, <2>1 DEF Cached
  <2> HIDE DEF L
  <2>9. HalfIn(CanopyAfter(d[k], entries[k + 1]), L(k + 1), n + k + 1, todo[k + 1])
    BY <2>2, <2>3, <2>4, <2>5, <2>6, <2>7, HalfStep
  <2>10. HalfIn(d[k + 1], L(k + 1), n + (k + 1), todo[k + 1])
    BY <2>1, <2>8, <2>9
  <2> QED
    BY <2>1, <2>10
<1>17. HalfIn(d[m], L(m), n + m, todo[m])
  <2>1. \A k \in 0 .. m : k \in Partly
    <3> HIDE DEF Partly
    <3> QED
      BY <1>1, <1>15, <1>16, NumberInduction
  <2> QED
    BY <1>1, <2>1
<1>18. CanopyIn(d[m], L(m))
  <2>1. ~todo[m]
    BY <1>1, <1>14
  <2> HIDE DEF L
  <2> QED
    BY <1>17, <2>1 DEF HalfIn, CanopyIn
<1> DEFINE w == append_batch(t, batch)
           x == d[m]
<1>19. w = update_canopy(u, first)
  BY <1>6 DEF append_batch, Appends, u, first
<1>20. Recached(u, w, x)
  BY <1>13, <1>19 DEF Cached
<1>21. L(m) = [i \in LeafIndex |-> L(m)[i]]
  BY DEF With
<1> HIDE DEF L, w, x
<1>22. TreeInv(w, L(m))
  BY <1>10, <1>11, <1>18, <1>20, <1>21 DEF TreeInv, x, Recached, RootIn
<1> QED
  BY <1>11, <1>20, <1>22 DEF w, L, Recached

-----------------------------------------------------------------------------
\* update_leaf_in_tree.

\* The proof of a leaf stays one when the leaf changes, and leads to the new
\* root.
LEMMA UpdatePath ==
    ASSUME NEW lvs, NEW lvs2, NEW i \in LeafIndex, NEW leaf, Changed(lvs, lvs2, i, leaf),
           NEW proof, ProofIn(proof, lvs, i)
    PROVE  PathIn(PathOf(leaf, i, proof), lvs2, i)
<1>1. ASSUME NEW l \in Level PROVE proof[l] = NodesOf(lvs2)[l][SiblingIndex(i, l)]
  <2> DEFINE s == SiblingIndex(i, l)
  <2>1. s \in 0 .. Pow2[Height - l] - 1 /\ s # Above(i, l) /\ l \in 0 .. Height
    BY ParentNode, Siblings, LevelFacts
  <2>2. NodesOf(lvs2)[l][s] = NodesOf(lvs)[l][s]
    BY <2>1, OtherNodes
  <2>3. proof[l] = NodesOf(lvs)[l][s]
    BY DEF ProofIn
  <2> QED
    BY <2>2, <2>3
<1>2. leaf = lvs2[i]
  BY DEF Changed
<1>3. Height \in 0 .. Height
  BY SizeConstraints
<1>4. \A l \in 0 .. Height : PathOf(lvs2[i], i, proof)[l] = NodesOf(lvs2)[l][Above(i, l)]
  BY <1>1, <1>3, PathUp
<1> QED
  BY <1>2, <1>4 DEF PathIn

\* intersection_index: the level at which the paths meet.
LEMMA Intersection ==
    ASSUME NEW i \in LeafIndex, NEW j \in LeafIndex, i # j, NEW entry, entry.index = i
    PROVE  /\ intersection_index(entry, j) \in Level
           /\ \A k \in Level :
                Above(i, k) # Above(j, k) /\ Above(i, k + 1) = Above(j, k + 1)
                    <=> k = intersection_index(entry, j)
<1> DEFINE Meet(l) == Above(i, l) # Above(j, l) /\ Above(i, l + 1) = Above(j, l + 1)
           x == CHOOSE l \in Level : Meet(l)
<1>1. PICK l \in Level : Meet(l) /\ \A k \in Level : Meet(k) => k = l
  BY PathsMeet
<1>2. x \in Level /\ Meet(x)
  <2> HIDE DEF Meet
  <2> QED
    BY <1>1
<1>3. intersection_index(entry, j) = x
  BY DEF intersection_index
<1> HIDE DEF x
<1>4. \A k \in Level : Meet(k) <=> k = x
  <2> HIDE DEF Meet
  <2> QED
    BY <1>1, <1>2
<1> QED
  BY <1>2, <1>3, <1>4

\* Two nodes with one parent are next to each other.
LEMMA Neighbours ==
    ASSUME NEW a \in Nat, NEW b \in Nat
    PROVE  /\ b % 2 # 0 /\ a = b - 1 => a # b /\ a \div 2 = b \div 2
           /\ a # b /\ a <= b /\ a \div 2 = b \div 2 => a = b - 1
OBVIOUS

\* The changed leaf is in one of the filled subtrees, whose hash is replaced.
SubtreesIn(subtrees, n, lvs) ==
    /\ DOMAIN subtrees = Level
    /\ \A l \in Level : ~IsLeft(n, l) => subtrees[l] = NodesOf(lvs)[l][Above(n, l) - 1]

\* After an update the filled subtrees are nodes of the new tree: those above
\* the updated leaf are replaced, the others do not contain it.
LEMMA UpdateFilled ==
    ASSUME NEW t, NEW lvs, Appendable(t, lvs), NEW lvs2, NEW i \in LeafIndex, i < t.next_index,
           NEW leaf, Changed(lvs, lvs2, i, leaf),
           NEW entry, EntryIn(entry, lvs2, i, TRUE)
    PROVE  SubtreesIn(SubtreesAfter(t, entry), t.next_index, lvs2)
<1> DEFINE n == t.next_index
           new == SubtreesAfter(t, entry)
<1>1. /\ n \in 0 .. Pow2[Height] /\ Pow2[Height] \in Nat /\ n \in Nat /\ i \in Nat
      /\ DOMAIN t.filled_subtrees = Level /\ entry.index = i
  <2>1. Pow2[Height] \in Nat /\ i \in Nat
    BY Pow2Values, LevelFacts, AboveBound
  <2>2. n \in 0 .. Pow2[Height] /\ DOMAIN t.filled_subtrees = Level /\ entry.index = i
    BY DEF Appendable, EntryIn
  <2> QED
    BY <2>1, <2>2
<1>2. CASE ~(n < Pow2[Height])
  <2>1. new = t.filled_subtrees
    BY <1>2 DEF SubtreesAfter
  <2>2. n = Pow2[Height]
    BY <1>1, <1>2
  <2> QED
    BY <1>1, <2>1, <2>2, AboveFull DEF SubtreesIn
<1>3. CASE n < Pow2[Height]
  <2> DEFINE x == intersection_index(entry, n)
  <2>1. n \in LeafIndex /\ i # n /\ i <= n
    BY <1>1, <1>3 DEF LeafIndex
  <2>2. /\ x \in Level
        /\ \A k \in Level :
            Above(i, k) # Above(n, k) /\ Above(i, k + 1) = Above(n, k + 1) <=> k = x
    BY <1>1, <2>1, Intersection
  <2>3. x \in DOMAIN entry.path
    BY <2>2 DEF EntryIn
  <2>4. new = [t.filled_subtrees EXCEPT ![x] = entry.path[x]]
    BY <1>3, <2>3 DEF SubtreesAfter, update_proof
  <2> HIDE DEF x, new
  <2>5. DOMAIN new = Level /\ \A l \in Level :
            new[l] = IF l = x THEN entry.path[l] ELSE t.filled_subtrees[l]
    BY <1>1, <2>2, <2>4
  <2>6. ASSUME NEW l \in Level, ~IsLeft(n, l)
        PROVE  new[l] = NodesOf(lvs2)[l][Above(n, l) - 1]
    <3> DEFINE a == Above(i, l)
               b == Above(n, l)
               s == SiblingIndex(n, l)
    <3>1. /\ l \in 0 .. Height /\ a \in Nat /\ b \in Nat /\ b % 2 # 0 /\ a <= b
          /\ Above(i, l + 1) = a \div 2 /\ Above(n, l + 1) = b \div 2
      <4>1. l \in 0 .. Height
        BY LevelFacts
      <4> QED
        BY <1>1, <2>1, <2>6, <4>1, AboveValues, AboveMonotone DEF IsLeft
    <3>2. s = b - 1 /\ s \in 0 .. Pow2[Height - l] - 1
      BY <2>1, <2>6, Siblings, ParentNode
    <3>3. l = x <=> a # b /\ a \div 2 = b \div 2
      BY <2>2, <3>1
    <3> HIDE DEF a, b, s
    <3>4. l = x <=> a = s
      BY <3>1, <3>2, <3>3, Neighbours
    <3>5. CASE a = s
      <4>1. new[l] = entry.path[l] /\ l \in DOMAIN entry.path
        BY <2>3, <2>5, <3>4, <3>5
      <4>2. entry.path[l] = NodesOf(lvs2)[l][Above(i, l)]
        BY <4>1 DEF EntryIn
      <4> QED
        BY <3>2, <3>5, <4>1, <4>2 DEF a, b
    <3>6. CASE a # s
      <4>1. new[l] = t.filled_subtrees[l]
        BY <2>5, <3>4, <3>6
      <4>2. t.filled_subtrees[l] = NodesOf(lvs)[l][s]
        BY <2>6, <3>2 DEF Appendable, Filled, b
      <4>3. NodesOf(lvs2)[l][s] = NodesOf(lvs)[l][s]
        BY <3>1, <3>2, <3>6, OtherNodes DEF a
      <4> QED
        BY <3>2, <4>1, <4>2, <4>3 DEF b
    <3> QED
      BY <3>5, <3>6
  <2> QED
    BY <2>5, <2>6 DEF new, SubtreesIn
<1> QED
  BY <1>2, <1>3

\* update_leaf_in_tree with a proof of the leaf: the tree stands for the
\* leaves with the new one.
LEMMA UpdateInv ==
    ASSUME NEW t, NEW lvs, TreeInv(t, lvs), NEW i \in LeafIndex, i < t.next_index,
           NEW leaf, NEW proof, ProofIn(proof, lvs, i)
    PROVE  /\ TreeInv(update_leaf_in_tree(t, leaf, i, proof), [lvs EXCEPT ![i] = leaf])
           /\ update_leaf_in_tree(t, leaf, i, proof).next_index = t.next_index
<1> DEFINE c == ChangelogCapacity
           b == t.changelog.last_index
           new == [lvs EXCEPT ![i] = leaf]
           node == PathOf(leaf, i, proof)
           entry == [path |-> [l \in Level |-> node[l]], index |-> i]
           last == t.next_index < Pow2[Height] /\ i >= current_index(t)
           subtrees == SubtreesAfter(t, entry)
           changelog == Push(t.changelog, c, entry)
           roots == Push(t.roots, RootsCapacity, node[Height])
           u == [next_index      |-> t.next_index,
                 sequence_number |-> t.sequence_number + 1,
                 rightmost_leaf  |-> IF last THEN leaf ELSE t.rightmost_leaf,
                 filled_subtrees |-> subtrees,
                 changelog       |-> changelog,
                 roots           |-> roots,
                 canopy          |-> t.canopy]
           w == update_leaf_in_tree(t, leaf, i, proof)
<1>1. /\ lvs = [k \in LeafIndex |-> lvs[k]] /\ IsTree(t) /\ Appendable(t, lvs)
      /\ IsRing(t.changelog, c) /\ IsRing(t.roots, RootsCapacity) /\ CanopyIn(t.canopy, lvs)
  BY DEF TreeInv
<1>2. c \in Nat \ {0} /\ RootsCapacity \in Nat \ {0} /\ 1 \in 1 .. c /\ 1 \in Nat
  BY SizeConstraints
<1>3. Changed(lvs, new, i, leaf) /\ new = [k \in LeafIndex |-> new[k]]
  BY <1>1 DEF Changed
<1>4. PathIn(node, new, i)
  <2> HIDE DEF new
  <2> QED
    BY <1>3, UpdatePath
<1>5. EntryIn(entry, new, i, TRUE)
  <2> HIDE DEF node, new
  <2>1. entry.index = i /\ DOMAIN entry.path = Level /\ \A l \in Level : entry.path[l] = node[l]
    OBVIOUS
  <2> HIDE DEF entry
  <2> QED
    BY <1>4, <2>1, LevelFacts DEF EntryIn, PathIn
<1>6. w = update_canopy(u, u.changelog.last_index)
  BY DEF update_leaf_in_tree
<1>7. /\ u.next_index = t.next_index /\ u.filled_subtrees = subtrees
      /\ u.changelog = changelog /\ u.roots = roots /\ u.canopy = t.canopy
  OBVIOUS
<1>8. IsTree(u)
  BY DEF IsTree
<1> HIDE DEF new, node, entry, last, subtrees, u, w
<1>9. Appendable(u, new)
  <2>1. SubtreesIn(subtrees, t.next_index, new)
    BY <1>1, <1>3, <1>5, UpdateFilled DEF subtrees
  <2>2. t.next_index \in 0 .. Pow2[Height] /\ Pow2[Height] \in Nat /\ i \in Nat
    BY <1>1, Pow2Values, LevelFacts, AboveBound DEF Appendable
  <2>3. ASSUME NEW k \in LeafIndex, k >= t.next_index PROVE new[k] = Zero
    <3>1. k # i
      BY <2>2, <2>3, AboveBound
    <3> QED
      BY <1>1, <1>3, <2>3, <3>1 DEF Appendable, Blank, Changed
  <2>4. Filled(u, new) /\ Blank(u, new)
    BY <1>7, <2>1, <2>3 DEF Filled, Blank, SubtreesIn
  <2> QED
    BY <1>7, <2>1, <2>2, <2>4 DEF Appendable, SubtreesIn
<1>10. IsRing(u.roots, RootsCapacity) /\ RootIn(u, new)
  <2>1. Above(i, Height) = 0
    BY AboveBound
  <2>2. node[Height] = NodesOf(new)[Height][0]
    BY <1>4, <2>1, LevelFacts DEF PathIn
  <2>3. Pushed(t.roots, u.roots, RootsCapacity, node[Height])
    BY <1>1, <1>2, <1>7, PushRing
  <2> QED
    BY <2>2, <2>3 DEF Pushed, RootIn
<1>11. Pushed(t.changelog, u.changelog, c, entry)
  BY <1>1, <1>2, <1>7, PushRing
<1>12. /\ IsRing(u.changelog, c) /\ b \in 0 .. c - 1
       /\ u.changelog.last_index = (b + 1) % c /\ At(u.changelog, (b + 1) % c) = entry
  BY <1>11 DEF Pushed, LastOf
<1> DEFINE first == u.changelog.last_index
           iter == IterFrom(u.changelog, c, first)
<1>13. Len(iter) = 1 /\ iter[1] = entry
  <2>1. Yields(iter, u.changelog, c, b, 1)
    BY <1>2, <1>12, IterValues
  <2> QED
    BY <1>2, <1>12, <2>1 DEF Yields
<1>14. PICK d : Cached(d, u, update_canopy(u, first), iter, 1)
  BY <1>2, <1>8, <1>13, CanopyFold
<1> HIDE DEF iter, first
<1>15. CanopyIn(d[1], new)
  <2>1. d[1] = CanopyAfter(t.canopy, entry)
    <3>1. 1 - 1 = 0 /\ 1 \in 1 .. 1
      OBVIOUS
    <3> QED
      BY <1>7, <1>13, <1>14, <3>1 DEF Cached
  <2>2. HalfIn(t.canopy, lvs, i, FALSE)
    BY <1>1 DEF CanopyIn, HalfIn
  <2>3. HalfIn(CanopyAfter(t.canopy, entry), new, i + 1, FALSE)
    BY <1>3, <1>5, <2>2, HalfStep
  <2> QED
    BY <2>1, <2>3 DEF HalfIn, CanopyIn
<1>16. Recached(u, w, d[1])
  BY <1>6, <1>14 DEF Cached, first
<1>17. TreeInv(w, new)
  BY <1>3, <1>8, <1>9, <1>10, <1>12, <1>15, <1>16 DEF TreeInv, Recached, RootIn
<1> QED
  BY <1>7, <1>16, <1>17 DEF w, new, Recached

-----------------------------------------------------------------------------
\* The concurrent Merkle tree.

\* new and init: all nodes are zero nodes.
LEMMA NewTreeInv ==
    TreeInv(NewTree, [i \in LeafIndex |-> Zero])
<1> DEFINE lvs == [i \in LeafIndex |-> Zero]
           t == NewTree
<1>1. ASSUME NEW l \in 0 .. Height, NEW j \in 0 .. Pow2[Height - l] - 1
      PROVE  NodesOf(lvs)[l][j] = ZeroBytes[l]
  <2>1. \A i \in LeafIndex : Above(i, l) = j => lvs[i] = Zero
    OBVIOUS
  <2> HIDE DEF lvs
  <2> QED
    BY <2>1, ZeroNodes
<1>2. lvs = [i \in LeafIndex |-> lvs[i]] /\ \A i \in LeafIndex : lvs[i] = Zero
  OBVIOUS
<1> HIDE DEF lvs
<1>3. IsTree(t) /\ t.next_index = 0
  BY DEF NewTree, IsTree
<1>4. Appendable(t, lvs)
  <2>1. ASSUME NEW l \in Level PROVE IsLeft(0, l)
    <3> DEFINE Good == {k \in 0 .. Height : Above(0, k) = 0}
    <3>1. 0 \in Good
      BY AboveValues, LevelFacts
    <3>2. ASSUME NEW k \in 0 .. Height - 1, k \in Good PROVE k + 1 \in Good
      <4>1. k \in Level /\ k + 1 \in 0 .. Height
        BY LevelFacts
      <4>2. Above(0, k + 1) = Above(0, k) \div 2 /\ Above(0, k) = 0
        BY <3>2, <4>1, AboveValues
      <4> QED
        BY <4>1, <4>2
    <3> HIDE DEF Good
    <3>3. l \in Good
      BY <3>1, <3>2, NumberInduction, LevelFacts
    <3> QED
      BY <3>3 DEF Good, IsLeft
  <2>2. DOMAIN t.filled_subtrees = Level
    BY DEF NewTree
  <2>3. 0 \in 0 .. Pow2[Height]
    BY Pow2Values, LevelFacts
  <2> HIDE DEF t
  <2> QED
    BY <1>2, <1>3, <2>1, <2>2, <2>3 DEF Appendable, Filled, Blank
<1>5. IsRing(t.changelog, ChangelogCapacity)
  <2> DEFINE e == [path |-> [i \in Level |-> ZeroBytes[i]], index |-> 0]
  <2>1. t.changelog = Push(EmptyVec, ChangelogCapacity, e)
    BY DEF NewTree
  <2> HIDE DEF e
  <2> QED
    BY <2>1, PushFirst, SizeConstraints
<1>6. IsRing(t.roots, RootsCapacity) /\ LastOf(t.roots) = ZeroBytes[Height]
  <2>1. t.roots = Push(EmptyVec, RootsCapacity, ZeroBytes[Height])
    BY DEF NewTree
  <2> QED
    BY <2>1, PushFirst, SizeConstraints
<1>7. RootIn(t, lvs)
  <2>1. Height - Height = 0 /\ 0 \in 0 .. Pow2[0] - 1
    BY Pow2Values, LevelFacts
  <2>2. NodesOf(lvs)[Height][0] = ZeroBytes[Height]
    BY <1>1, <2>1, LevelFacts
  <2> QED
    BY <1>6, <2>2 DEF RootIn
<1>8. CanopyIn(t.canopy, lvs)
  <2> DEFINE At2(n) == CHOOSE l \in CanopyLevel : \E i \in LeafIndex : CanopyIndex(i, l) = n
  <2>1. t.canopy = [n \in CanopyDomain |-> ZeroBytes[At2(n)]]
    BY DEF NewTree, CanopyDomain
  <2>2. ASSUME NEW i \in LeafIndex, NEW l \in CanopyLevel PROVE SlotIn(t.canopy, lvs, i, l)
    <3> DEFINE n == CanopyIndex(i, l)
               Has(k) == \E j \in LeafIndex : CanopyIndex(j, k) = n
    <3>1. Has(l) /\ \A k \in CanopyLevel : Has(k) => k = l
      BY CanopyInjective
    <3>2. At2(n) = l
      <4>1. At2(n) = CHOOSE k \in CanopyLevel : Has(k)
        OBVIOUS
      <4> HIDE DEF Has, At2
      <4> QED
        BY <3>1, <4>1
    <3>3. n \in CanopyDomain /\ l \in Level /\ l \in 0 .. Height
      BY CanopyRange, LevelFacts
    <3> HIDE DEF At2
    <3>4. t.canopy[n] = ZeroBytes[l]
      BY <2>1, <3>2, <3>3
    <3>5. NodesOf(lvs)[l][Above(i, l)] = ZeroBytes[l]
      BY <1>1, <3>3, AboveBound
    <3> QED
      BY <3>4, <3>5 DEF SlotIn
  <2>3. DOMAIN t.canopy = CanopyDomain
    BY <2>1
  <2> QED
    BY <2>2, <2>3 DEF CanopyIn
<1> HIDE DEF t
<1>9. TreeInv(t, lvs)
  BY <1>2, <1>3, <1>4, <1>5, <1>6, <1>7, <1>8 DEF TreeInv
<1> QED
  BY <1>9 DEF t, lvs

\* update: an accepted request has the leaf that is in the tree, and its
\* patched proof is a proof of it.
LEMMA AcceptedProof ==
    ASSUME NEW t, NEW lvs, TreeInv(t, lvs), NEW request, request.leaf_index \in Nat,
           Accepts(t, request)
    PROVE  /\ request.leaf_index \in LeafIndex /\ request.leaf_index < t.next_index
           /\ request.old_leaf = lvs[request.leaf_index]
           /\ ProofIn(FreshProof(t, request), lvs, request.leaf_index)
<1> DEFINE i == request.leaf_index
           proof == FreshProof(t, request)
           leaf == request.old_leaf
<1>1. i < t.next_index /\ t.next_index \in 0 .. Pow2[Height]
  BY DEF Accepts, MayUpdate, TreeInv, Appendable
<1>2. i \in LeafIndex
  <2>1. Pow2[Height] \in Nat
    BY Pow2Values, LevelFacts
  <2> QED
    BY <1>1, <2>1 DEF LeafIndex
<1>3. compute_root(leaf, i, proof) = NodesOf(lvs)[Height][0]
  BY DEF Accepts, TreeInv, RootIn
<1> HIDE DEF proof
<1>4. leaf = lvs[i] /\ ProofIn(proof, lvs, i)
  BY <1>2, <1>3, ProofSound DEF ProofIn
<1> QED
  BY <1>1, <1>2, <1>4 DEF proof

\* The inductive invariant: the struct matches the leaves, and what clients
\* have prepared are update instructions.
IsRequest(r) ==
    /\ r = [leaf_index      |-> r.leaf_index,
            old_leaf        |-> r.old_leaf,
            proof           |-> r.proof,
            changelog_index |-> r.changelog_index,
            sequence_number |-> r.sequence_number,
            touched         |-> r.touched]
    /\ r.leaf_index \in Nat
RequestsInv ==
    /\ DOMAIN requests = Client
    /\ \A c \in Client : requests[c] # None => IsRequest(requests[c])
ConcurrentInv == TreeInv(tree, leaves) /\ RequestsInv

\* A request that is marked as touched is still a request.
LEMMA Touched ==
    ASSUME NEW r, IsRequest(r), NEW x
    PROVE  IsRequest([r EXCEPT !.touched = x])
<1> DEFINE s == [r EXCEPT !.touched = x]
<1>1. /\ s.leaf_index = r.leaf_index /\ s.old_leaf = r.old_leaf /\ s.proof = r.proof
      /\ s.changelog_index = r.changelog_index /\ s.sequence_number = r.sequence_number
      /\ s.touched = x
  BY DEF IsRequest
<1>2. s = [leaf_index |-> r.leaf_index, old_leaf |-> r.old_leaf, proof |-> r.proof,
           changelog_index |-> r.changelog_index, sequence_number |-> r.sequence_number,
           touched |-> x]
  BY DEF IsRequest
<1> QED
  BY <1>1, <1>2 DEF IsRequest

\* A new tree satisfies the invariant.
LEMMA ConcurrentInit ==
    Init => ConcurrentInv
<1> SUFFICES ASSUME Init PROVE ConcurrentInv
  OBVIOUS
<1>1. TreeInv(tree, leaves)
  BY NewTreeInv DEF Init
<1>2. RequestsInv
  BY DEF Init, RequestsInv
<1> QED
  BY <1>1, <1>2 DEF ConcurrentInv

\* Every step of the tree and of its clients preserves the invariant.
LEMMA ConcurrentNext ==
    ConcurrentInv /\ [Next]_vars => ConcurrentInv'
<1> SUFFICES ASSUME ConcurrentInv, [Next]_vars PROVE ConcurrentInv'
  OBVIOUS
<1>1. TreeInv(tree, leaves) /\ RequestsInv
  BY DEF ConcurrentInv
<1>2. ASSUME NEW n \in 1 .. ChangelogCapacity, NEW batch \in [1 .. n -> LeafValue],
             AppendBatch(batch)
      PROVE  ConcurrentInv'
  <2>1. n \in Nat /\ Len(batch) = n /\ tree.next_index + n <= Pow2[Height]
    <3>1. n \in Nat
      BY SizeConstraints
    <3>2. Len(batch) = n
      BY <3>1
    <3>3. tree.next_index + n - 1 < Pow2[Height]
      BY <1>2, <3>2 DEF AppendBatch, BatchFits
    <3>4. tree.next_index \in Nat /\ Pow2[Height] \in Nat
      <4>1. tree.next_index \in 0 .. Pow2[Height] /\ Pow2[Height] \in Nat
        BY <1>1, Pow2Values, LevelFacts DEF TreeInv, Appendable
      <4> QED
        BY <4>1
    <3> QED
      BY <3>1, <3>2, <3>3, <3>4
  <2>2. TreeInv(append_batch(tree, batch), With(leaves, tree.next_index, batch, n))
    BY <1>1, <2>1, BatchInv
  <2>3. tree' = append_batch(tree, batch) /\ leaves' = With(leaves, tree.next_index, batch, n)
    BY <1>2, <2>1 DEF AppendBatch, With
  <2>4. requests' = requests
    BY <1>2 DEF AppendBatch
  <2> QED
    BY <1>1, <2>2, <2>3, <2>4 DEF ConcurrentInv, RequestsInv
<1>3. ASSUME NEW c \in Client, NEW i \in LeafIndex, FetchProof(c, i) PROVE ConcurrentInv'
  <2> DEFINE r == [leaf_index      |-> i,
                   old_leaf        |-> leaves[i],
                   proof           |-> [l \in Level \ CanopyLevel |->
                                          NodesOf(leaves)[l][SiblingIndex(i, l)]],
                   changelog_index |-> tree.changelog.last_index,
                   sequence_number |-> tree.sequence_number,
                   touched         |-> FALSE]
  <2>1. requests' = [requests EXCEPT ![c] = r] /\ tree' = tree /\ leaves' = leaves
    BY <1>3 DEF FetchProof
  <2>2. IsRequest(r)
    <3>1. i \in Nat
      BY AboveBound
    <3> QED
      BY <3>1 DEF IsRequest
  <2> HIDE DEF r
  <2>3. ASSUME NEW d \in Client, requests'[d] # None PROVE IsRequest(requests'[d])
    <3>1. requests'[d] = r \/ requests'[d] = requests[d]
      BY <1>1, <2>1 DEF RequestsInv
    <3> QED
      BY <1>1, <2>2, <2>3, <3>1 DEF RequestsInv
  <2> QED
    BY <1>1, <2>1, <2>3 DEF ConcurrentInv, RequestsInv
<1>4. ASSUME NEW c \in Client, NEW leaf \in Leaf, Update(c, leaf) PROVE ConcurrentInv'
  <2> DEFINE r == requests[c]
             i == requests[c].leaf_index
             proof == FreshProof(tree, requests[c])
  <2>1. r # None /\ Accepts(tree, r)
    BY <1>4 DEF Update
  <2>2. i \in Nat
    BY <1>1, <2>1 DEF RequestsInv, IsRequest
  <2>3. i \in LeafIndex /\ i < tree.next_index /\ ProofIn(proof, leaves, i)
    BY <1>1, <2>1, <2>2, AcceptedProof
  <2>4. tree' = update_leaf_in_tree(tree, leaf, i, proof) /\ leaves' = [leaves EXCEPT ![i] = leaf]
    BY <1>4 DEF Update
  <2> HIDE DEF proof
  <2>5. TreeInv(tree', leaves')
    BY <1>1, <2>3, <2>4, UpdateInv
  <2>6. ASSUME NEW d \in Client, requests'[d] # None PROVE IsRequest(requests'[d])
    <3> DEFINE x == requests[d].touched \/ requests[d].leaf_index = i
    <3>1. /\ requests[d] # None
          /\ requests'[d] = [requests[d] EXCEPT !.touched = x]
      BY <1>4, <2>6 DEF Update
    <3> DEFINE q == requests[d]
    <3>2. IsRequest(q)
      BY <1>1, <3>1 DEF RequestsInv
    <3>3. requests'[d] = [q EXCEPT !.touched = x]
      BY <3>1
    <3> HIDE DEF x, q
    <3>4. IsRequest([q EXCEPT !.touched = x])
      BY <3>2, Touched
    <3> QED
      BY <3>3, <3>4
  <2>7. DOMAIN requests' = Client
    BY <1>4 DEF Update
  <2> QED
    BY <2>5, <2>6, <2>7 DEF ConcurrentInv, RequestsInv
<1>5. ASSUME NEW c \in Client, UpdateFails(c) PROVE ConcurrentInv'
  <2>1. requests' = [requests EXCEPT ![c] = None] /\ tree' = tree /\ leaves' = leaves
    BY <1>5 DEF UpdateFails
  <2>2. ASSUME NEW d \in Client, requests'[d] # None PROVE IsRequest(requests'[d])
    <3>1. requests'[d] = requests[d]
      BY <1>1, <2>1, <2>2 DEF RequestsInv
    <3> QED
      BY <1>1, <2>2, <3>1 DEF RequestsInv
  <2> QED
    BY <1>1, <2>1, <2>2 DEF ConcurrentInv, RequestsInv
<1>6. CASE UNCHANGED vars
  BY <1>1, <1>6 DEF vars, ConcurrentInv, RequestsInv
<1> QED
  BY <1>2, <1>3, <1>4, <1>5, <1>6 DEF Next

\* ConcurrentInv is an invariant.
LEMMA ConcurrentAlways ==
    Spec => []ConcurrentInv
BY ConcurrentInit, ConcurrentNext, PTL DEF Spec

\* The newest root, and the nodes of the canopy, are those of the tree with all
\* appended leaves and all updates: append_batch and update_leaf_in_tree
\* recompute them from the filled subtrees and from a patched proof alone.
THEOREM RootsAndCanopyMatch ==
    Spec => []NodesMatchLeaves
<1>1. ConcurrentInv => NodesMatchLeaves
  <2> SUFFICES ASSUME ConcurrentInv PROVE NodesMatchLeaves
    OBVIOUS
  <2>1. LastOf(tree.roots) = NodesOf(leaves)[Height][0]
    BY DEF ConcurrentInv, TreeInv, RootIn
  <2>2. ASSUME NEW i \in LeafIndex, NEW l \in CanopyLevel
        PROVE  tree.canopy[CanopyIndex(i, l)] = NodesOf(leaves)[l][Above(i, l)]
    BY DEF ConcurrentInv, TreeInv, CanopyIn, SlotIn
  <2> QED
    BY <2>1, <2>2 DEF NodesMatchLeaves
<1> QED
  BY <1>1, ConcurrentAlways, PTL

\* An accepted update replaces the leaf the client meant to replace: whatever
\* the changelog did to its proof, validate_proof rejects every other leaf.
THEOREM UpdatesAreSound ==
    Spec => UpdateSound
<1>1. ConcurrentInv /\ [Next]_vars =>
        [\A c \in Client, new_leaf \in Leaf :
            Update(c, new_leaf) => leaves[requests[c].leaf_index] = requests[c].old_leaf]_vars
  <2> SUFFICES ASSUME ConcurrentInv, NEW c \in Client, NEW new_leaf \in Leaf,
                      Update(c, new_leaf)
               PROVE  leaves[requests[c].leaf_index] = requests[c].old_leaf
    OBVIOUS
  <2>1. requests[c] # None /\ Accepts(tree, requests[c]) /\ TreeInv(tree, leaves)
    BY DEF Update, ConcurrentInv
  <2>2. requests[c].leaf_index \in Nat
    BY <2>1 DEF ConcurrentInv, RequestsInv, IsRequest
  <2> QED
    BY <2>1, <2>2, AcceptedProof
<1> QED
  BY <1>1, ConcurrentAlways, PTL DEF Spec, UpdateSound

-----------------------------------------------------------------------------
\* Stale requests: what was pushed since a position.

\* changelog_entries: the elements behind a position, up to the newest one.
Behind(entries, vec, capacity, start, m) ==
    /\ Len(entries) = m /\ DOMAIN entries = 1 .. m
    /\ \A k \in 1 .. m : /\ (start + k) % capacity \in 0 .. Len(vec.data) - 1
                         /\ entries[k] = At(vec, (start + k) % capacity)

\* The entries behind a position are those written after it, as far as the
\* ring holds them.
LEMMA IterTail ==
    ASSUME NEW vec, NEW capacity \in Nat \ {0}, IsRing(vec, capacity),
           NEW start \in 0 .. Len(vec.data) - 1
    PROVE  /\ (vec.last_index - start) % capacity \in 0 .. capacity - 1
           /\ Behind(Tail(IterFrom(vec, capacity, start)), vec, capacity, start,
                     (vec.last_index - start) % capacity)
<1> DEFINE n == Len(vec.data)
           last == vec.last_index
           m == (last - start) % capacity
           iter == IterFrom(vec, capacity, start)
<1>1. /\ n \in 1 .. capacity /\ last \in 0 .. n - 1 /\ (n < capacity => last = n - 1)
      /\ start \in 0 .. capacity - 1 /\ last \in 0 .. capacity - 1
      /\ start \in 0 .. capacity /\ start \in 0 .. n - 1
  BY DEF IsRing
<1> HIDE DEF n, last
<1>2. m = IF start > last THEN last - start + capacity ELSE last - start
  BY <1>1, Wrap
<1> HIDE DEF m
<1>3. m \in 0 .. capacity - 1 /\ (n < capacity => m <= n - 1 - start)
  BY <1>1, <1>2
<1>4. iter = [k \in 1 .. m + 1 |-> At(vec, (start + k - 1) % capacity)]
  BY DEF IterFrom, m, last
<1> DEFINE S == {At(vec, (start + k - 1) % capacity) : k \in 1 .. m + 1}
<1>5. iter \in Seq(S) /\ Len(iter) = m + 1
  <2>1. m + 1 \in Nat /\ \A k \in 1 .. m + 1 : At(vec, (start + k - 1) % capacity) \in S
    BY <1>3
  <2> HIDE DEF S
  <2> QED
    BY <1>4, <2>1
<1>6. /\ Len(Tail(iter)) = m /\ DOMAIN Tail(iter) = 1 .. m
      /\ \A k \in 1 .. m : Tail(iter)[k] = iter[k + 1]
  <2>1. m + 1 \in Nat /\ m + 1 # 0 /\ m + 1 - 1 = m
    BY <1>3
  <2> HIDE DEF S, iter
  <2>2. iter # <<>>
    BY <1>5, <2>1
  <2>3. Len(Tail(iter)) = Len(iter) - 1
    BY <1>5, <2>2
  <2>4. \A k \in 1 .. Len(iter) - 1 : Tail(iter)[k] = iter[k + 1]
    BY <1>5, <2>2
  <2>5. Len(iter) - 1 = m
    BY <1>3, <1>5
  <2>6. Tail(iter) \in Seq(S)
    BY <1>5, <2>2
  <2>7. DOMAIN Tail(iter) = 1 .. Len(Tail(iter))
    BY <2>6
  <2> QED
    BY <2>3, <2>4, <2>5, <2>7
<1>7. ASSUME NEW k \in 1 .. m
      PROVE  Tail(iter)[k] = At(vec, (start + k) % capacity) /\ (start + k) % capacity \in 0 .. n - 1
  <2>1. k + 1 \in 1 .. m + 1 /\ start + (k + 1) - 1 = start + k /\ k \in 0 .. capacity
    BY <1>1, <1>3
  <2>2. iter[k + 1] = At(vec, (start + (k + 1) - 1) % capacity)
    BY <1>4, <2>1
  <2>3. (start + k) % capacity = IF start + k >= capacity THEN start + k - capacity ELSE start + k
    BY <1>1, <2>1, Wrap
  <2>4. (start + k) % capacity \in 0 .. n - 1
    BY <1>1, <1>3, <2>3
  <2> QED
    BY <1>6, <2>1, <2>2, <2>4
<1> HIDE DEF iter
<1> QED
  BY <1>3, <1>6, <1>7 DEF Behind, n, m, iter, last

\* The last lag elements of a ring, behind the position start.
Window(vec, capacity, start, lag, win) ==
    /\ lag \in Nat /\ lag < capacity
    /\ start \in 0 .. Len(vec.data) - 1
    /\ vec.last_index = (start + lag) % capacity
    /\ \A k \in 1 .. lag : /\ (start + k) % capacity \in 0 .. Len(vec.data) - 1
                           /\ win[k] = At(vec, (start + k) % capacity)

Extended(win, lag, x) == [k \in 1 .. lag + 1 |-> IF k = lag + 1 THEN x ELSE win[k]]

\* A push extends a window that is not full.
LEMMA WindowPush ==
    ASSUME NEW vec, NEW capacity \in Nat \ {0}, IsRing(vec, capacity),
           NEW start, NEW lag, NEW win, Window(vec, capacity, start, lag, win),
           NEW x, lag + 1 < capacity
    PROVE  /\ Window(Push(vec, capacity, x), capacity, start, lag + 1, Extended(win, lag, x))
           /\ IsRing(Push(vec, capacity, x), capacity)
<1> DEFINE c == capacity
           out == Push(vec, c, x)
           ext == Extended(win, lag, x)
<1>1. Pushed(vec, out, c, x)
  BY PushRing
<1> HIDE DEF out
<1>2. /\ lag \in Nat /\ lag + 1 \in Nat /\ lag \in 0 .. c - 1 /\ start \in 0 .. c - 1
      /\ start \in 0 .. Len(vec.data) - 1 /\ Len(vec.data) \in Nat /\ start \in Nat
  <2>1. /\ lag \in Nat /\ lag < c /\ start \in 0 .. Len(vec.data) - 1
        /\ Len(vec.data) \in 1 .. c
    BY DEF Window, IsRing
  <2> QED
    BY <2>1
<1>3. /\ IsRing(out, c) /\ out.last_index = (vec.last_index + 1) % c
      /\ Len(out.data) \in Nat /\ Len(vec.data) <= Len(out.data)
      /\ vec.last_index = (start + lag) % c
      /\ At(out, out.last_index) = x /\ out.last_index \in 0 .. Len(out.data) - 1
  BY <1>1 DEF Pushed, Window, LastOf, IsRing
<1>4. /\ out.last_index = (start + (lag + 1)) % c
      /\ \A j \in 1 .. lag : (start + j) % c # (start + (lag + 1)) % c
  BY <1>2, <1>3, WrapApart
<1>5. ASSUME NEW k \in 1 .. lag + 1
      PROVE  /\ (start + k) % c \in 0 .. Len(out.data) - 1
             /\ ext[k] = At(out, (start + k) % c)
  <2>1. CASE k = lag + 1
    BY <1>3, <1>4, <2>1 DEF Extended
  <2>2. CASE k # lag + 1
    <3> DEFINE p == (start + k) % c
    <3>1. k \in 1 .. lag
      BY <1>2, <2>2
    <3>2. p \in 0 .. Len(vec.data) - 1 /\ win[k] = At(vec, p) /\ p # (start + (lag + 1)) % c
      BY <1>4, <3>1 DEF Window
    <3> HIDE DEF p
    <3>3. p \in 0 .. Len(out.data) - 1
      BY <1>2, <1>3, <3>2
    <3>4. At(out, p) = At(vec, p)
      BY <1>1, <1>3, <1>4, <3>2, <3>3 DEF Pushed
    <3>5. ext[k] = win[k]
      BY <2>2 DEF Extended
    <3> QED
      BY <3>2, <3>3, <3>4, <3>5 DEF p
  <2> QED
    BY <2>1, <2>2
<1>6. start \in 0 .. Len(out.data) - 1
  BY <1>2, <1>3
<1> HIDE DEF ext
<1>7. Window(out, c, start, lag + 1, ext)
  BY <1>2, <1>3, <1>4, <1>5, <1>6 DEF Window
<1> QED
  BY <1>3, <1>7 DEF out, ext

\* Without anything pushed since, the window is empty.
LEMMA WindowEmpty ==
    ASSUME NEW vec, NEW capacity \in Nat \ {0}, IsRing(vec, capacity), NEW win
    PROVE  Window(vec, capacity, vec.last_index, 0, win)
<1>1. vec.last_index \in 0 .. Len(vec.data) - 1 /\ Len(vec.data) \in 1 .. capacity
  BY DEF IsRing
<1>2. vec.last_index \in 0 .. capacity - 1 /\ 0 \in 0 .. capacity
  BY <1>1
<1> DEFINE b == vec.last_index
<1> HIDE DEF b
<1>3. (b + 0) % capacity = IF b + 0 >= capacity THEN b + 0 - capacity ELSE b + 0
  BY <1>2, Wrap DEF b
<1>4. (b + 0) % capacity = b
  BY <1>2, <1>3 DEF b
<1> QED
  BY <1>1, <1>4 DEF Window, b

\* changelog_entries yields the window.
Listed(entries, vec, start, lag, win) ==
    /\ Len(entries) = lag /\ DOMAIN entries = 1 .. lag
    /\ \A k \in 1 .. lag : entries[k] = win[k]
    /\ start = vec.last_index <=> lag = 0

\* changelog_entries returns the window of a client.
LEMMA WindowEntries ==
    ASSUME NEW vec, NEW capacity \in Nat \ {0}, IsRing(vec, capacity),
           NEW start, NEW lag, NEW win, Window(vec, capacity, start, lag, win),
           NEW entries, entries = Tail(IterFrom(vec, capacity, start))
    PROVE  Listed(entries, vec, start, lag, win)
<1> DEFINE c == capacity
<1>1. /\ lag \in Nat /\ lag \in 0 .. c - 1 /\ lag \in 0 .. c /\ start \in 0 .. c - 1
      /\ start \in 0 .. Len(vec.data) - 1
      /\ vec.last_index = (start + lag) % c
  <2>1. /\ lag \in Nat /\ lag < c /\ start \in 0 .. Len(vec.data) - 1
        /\ Len(vec.data) \in 1 .. c /\ vec.last_index = (start + lag) % c
    BY DEF Window, IsRing
  <2> QED
    BY <2>1
<1>2. Behind(entries, vec, c, start, (vec.last_index - start) % c)
  BY <1>1, IterTail
<1> DEFINE p == (start + lag) % c
<1>3. p = IF start + lag >= c THEN start + lag - c ELSE start + lag
  BY <1>1, Wrap
<1>4. p \in 0 .. c - 1
  BY <1>1, <1>3
<1> HIDE DEF p
<1>5. (p - start) % c = IF start > p THEN p - start + c ELSE p - start
  <2>1. start \in 0 .. c
    BY <1>1
  <2> QED
    BY <1>4, <2>1, Wrap
<1>6. (p - start) % c = lag
  BY <1>1, <1>3, <1>4, <1>5
<1>7. p = start <=> lag = 0
  BY <1>1, <1>3
<1>8. vec.last_index = p
  BY <1>1 DEF p
<1>9. Behind(entries, vec, c, start, lag)
  BY <1>2, <1>6, <1>8
<1>10. /\ Len(entries) = lag /\ DOMAIN entries = 1 .. lag
       /\ \A k \in 1 .. lag : entries[k] = win[k]
  BY <1>9 DEF Behind, Window
<1> QED
  BY <1>7, <1>8, <1>10 DEF Listed

\* Two leaves meet above a level if the one is below the sibling of the other.
LEMMA SiblingMeets ==
    ASSUME NEW i \in LeafIndex, NEW j \in LeafIndex, NEW l \in Level
    PROVE  Above(j, l) # Above(i, l) /\ Above(j, l + 1) = Above(i, l + 1)
              <=> Above(j, l) = SiblingIndex(i, l)
<1> DEFINE a == Above(j, l)
           b == Above(i, l)
<1>1. /\ a \in Nat /\ b \in Nat /\ Above(j, l + 1) = a \div 2 /\ Above(i, l + 1) = b \div 2
  BY AboveBound, AboveValues, LevelFacts
<1>2. SiblingIndex(i, l) = IF b % 2 = 0 THEN b + 1 ELSE b - 1
  BY <1>1 DEF SiblingIndex, IsLeft
<1> HIDE DEF a, b
<1>3. a # b /\ a \div 2 = b \div 2 <=> a = IF b % 2 = 0 THEN b + 1 ELSE b - 1
  <2>1. CASE b % 2 = 0
    BY <1>1, <2>1
  <2>2. CASE b % 2 # 0
    BY <1>1, <2>2
  <2> QED
    BY <2>1, <2>2
<1> QED
  BY <1>1, <1>2, <1>3 DEF a, b

\* An entry that has the sibling, at a level, on the way from leaf i.
Hits(entry, i, l) == Above(entry.index, l) = SiblingIndex(i, l) /\ l \in DOMAIN entry.path
Missed(win, from, to, i, l) == \A k \in from .. to : ~Hits(win[k], i, l)

\* At a level, the proof together with the entries has the sibling: in the
\* newest entry that has one, else in the proof or in the canopy.
LevelFresh(win, lag, proof, lvs, i, l) ==
    /\ \A k \in 1 .. lag : Hits(win[k], i, l) /\ Missed(win, k + 1, lag, i, l)
            => win[k].path[l] = NodesOf(lvs)[l][SiblingIndex(i, l)]
    /\ Missed(win, 1, lag, i, l)
            => l \in CanopyLevel \/ proof[l] = NodesOf(lvs)[l][SiblingIndex(i, l)]

\* Within a batch, a level may be old if the next leaf is below the sibling.
HalfFresh(win, lag, proof, lvs, i, n, more) ==
    \A l \in Level : LevelFresh(win, lag, proof, lvs, i, l)
                     \/ (more /\ Above(n, l) = SiblingIndex(i, l))

\* Another entry brings a proof up to date with the leaf it is about, except
\* where it is undefined and the next entry has the node.
LEMMA FreshStep ==
    ASSUME NEW win, NEW lag \in Nat, NEW proof, NEW lvs, NEW lvs2, NEW i \in LeafIndex,
           NEW n \in LeafIndex, NEW leaf, Changed(lvs, lvs2, n, leaf),
           NEW more \in BOOLEAN, HalfFresh(win, lag, proof, lvs, i, n, more),
           NEW entry, NEW terminal \in BOOLEAN, EntryIn(entry, lvs2, n, terminal),
           NEW rest \in BOOLEAN, rest <=> ~terminal
    PROVE  HalfFresh(Extended(win, lag, entry), lag + 1, proof, lvs2, i, n + 1, rest)
<1> DEFINE ext == Extended(win, lag, entry)
           m == lag + 1
<1>1. /\ m \in Nat /\ \A k \in 1 .. m : k = m \/ (k \in 1 .. lag /\ k # m)
      /\ m \in 1 .. m /\ m \in 1 .. m /\ \A k \in 1 .. lag : m \in k + 1 .. m
      /\ \A k \in 1 .. lag : k \in 1 .. m /\ \A j \in k + 1 .. lag : j \in 1 .. lag /\ j \in k + 1 .. m
  OBVIOUS
<1>2. ext[m] = entry /\ \A k \in 1 .. lag : ext[k] = win[k]
  BY <1>1 DEF Extended
<1> HIDE DEF ext
<1>3. ASSUME NEW l \in Level
      PROVE  LevelFresh(ext, m, proof, lvs2, i, l)
             \/ (~terminal /\ Above(n + 1, l) = SiblingIndex(i, l))
  <2> DEFINE s == SiblingIndex(i, l)
  <2>0. entry.index = n
    BY DEF EntryIn
  <2>1. CASE Above(n, l) = s /\ l \in DOMAIN entry.path
    <3>1. Hits(ext[m], i, l)
      BY <1>2, <2>0, <2>1 DEF Hits
    <3>2. ext[m].path[l] = NodesOf(lvs2)[l][s]
      BY <1>2, <2>1 DEF EntryIn
    <3>3. ~Missed(ext, 1, m, i, l) /\ \A k \in 1 .. lag : ~Missed(ext, k + 1, m, i, l)
      BY <1>1, <3>1 DEF Missed
    <3> QED
      BY <1>1, <3>2, <3>3 DEF LevelFresh
  <2>2. CASE Above(n, l) = s /\ l \notin DOMAIN entry.path
    <3>1. ~terminal /\ Above(n + 1, l) = Above(n, l)
      BY <2>2 DEF EntryIn
    <3> QED
      BY <2>2, <3>1
  <2>3. CASE Above(n, l) # s
    <3>1. LevelFresh(win, lag, proof, lvs, i, l)
      BY <2>3 DEF HalfFresh
    <3>2. s \in 0 .. Pow2[Height - l] - 1 /\ l \in 0 .. Height
      BY ParentNode, LevelFacts
    <3>3. NodesOf(lvs2)[l][s] = NodesOf(lvs)[l][s]
      <4> HIDE DEF s
      <4> QED
        BY <2>3, <3>2, OtherNodes
    <3>4. ~Hits(ext[m], i, l) /\ \A k \in 1 .. lag : Hits(ext[k], i, l) <=> Hits(win[k], i, l)
      BY <1>2, <2>0, <2>3 DEF Hits
    <3>5. Missed(ext, 1, m, i, l) => Missed(win, 1, lag, i, l)
      BY <1>1, <3>4 DEF Missed
    <3>6. ASSUME NEW k \in 1 .. lag, Missed(ext, k + 1, m, i, l)
          PROVE  Missed(win, k + 1, lag, i, l)
      BY <1>1, <3>4, <3>6 DEF Missed
    <3>7. ASSUME NEW k \in 1 .. m, Hits(ext[k], i, l), Missed(ext, k + 1, m, i, l)
          PROVE  ext[k].path[l] = NodesOf(lvs2)[l][s]
      <4>1. k \in 1 .. lag
        BY <1>1, <3>4, <3>7
      <4>2. win[k].path[l] = NodesOf(lvs)[l][s]
        BY <3>1, <3>4, <3>6, <3>7, <4>1 DEF LevelFresh
      <4> QED
        BY <1>2, <3>3, <4>1, <4>2
    <3>8. ASSUME Missed(ext, 1, m, i, l)
          PROVE  l \in CanopyLevel \/ proof[l] = NodesOf(lvs2)[l][s]
      BY <3>1, <3>3, <3>5, <3>8 DEF LevelFresh
    <3> QED
      BY <3>7, <3>8 DEF LevelFresh
  <2> QED
    BY <2>1, <2>2, <2>3
<1> HIDE DEF m
<1>4. HalfFresh(ext, m, proof, lvs2, i, n + 1, rest)
  BY <1>3 DEF HalfFresh
<1> QED
  BY <1>4 DEF ext, m

\* FreshProof patches the levels one entry after the other.
Patching(f, t, request, entries, m) ==
    /\ f[0] = [l \in Level |->
                 IF l \in CanopyLevel THEN t.canopy[CanopySibling(request.leaf_index, l)]
                 ELSE request.proof[l]]
    /\ \A k \in 1 .. m : f[k] = update_proof(f[k - 1], entries[k], request.leaf_index)
    /\ FreshProof(t, request) = IF request.changelog_index = t.changelog.last_index
                                THEN f[0] ELSE f[m]

\* update_proof_from_changelog applies the entries one after the other.
LEMMA FreshFold ==
    ASSUME NEW t, NEW request, NEW m \in Nat, NEW entries,
           entries = changelog_entries(t, request.changelog_index), Len(entries) = m
    PROVE  \E f : Patching(f, t, request, entries, m)
<1> DEFINE full == [l \in Level |->
                      IF l \in CanopyLevel THEN t.canopy[CanopySibling(request.leaf_index, l)]
                      ELSE request.proof[l]]
           G(k, x) == update_proof(x, entries[k], request.leaf_index)
           Is(f, n) == f = [k \in 0 .. n |-> IF k = 0 THEN full ELSE G(k, f[k - 1])]
           Good == {n \in 0 .. m : \E f : Is(f, n)}
<1>0. 0 \in 0 .. m /\ m \in 0 .. m
  OBVIOUS
<1>1. 0 \in Good
  <2>1. Is([l \in 0 .. 0 |-> full], 0)
    <3> HIDE DEF full
    <3> QED
      OBVIOUS
  <2> HIDE DEF Is
  <2> QED
    BY <1>0, <2>1
<1>2. ASSUME NEW k \in 0 .. m - 1, k \in Good PROVE k + 1 \in Good
  <2>1. PICK f : Is(f, k)
    BY <1>2
  <2>2. k \in Nat /\ k + 1 \in 0 .. m
    OBVIOUS
  <2> HIDE DEF G, full
  <2> DEFINE g == [l \in 0 .. k + 1 |-> IF l = k + 1 THEN G(k + 1, f[k]) ELSE f[l]]
  <2>3. Is(g, k + 1)
    BY <2>1, <2>2
  <2> QED
    BY <2>2, <2>3
<1>3. m \in Good
  <2> HIDE DEF Good
  <2> QED
    BY <1>0, <1>1, <1>2, NumberInduction
<1>4. \E f : Is(f, m)
  BY <1>3
<1> DEFINE chosen == CHOOSE f : Is(f, m)
<1>5. Is(chosen, m)
  <2> HIDE DEF Is
  <2> QED
    BY <1>4
<1>6. FreshProof(t, request) = IF request.changelog_index = t.changelog.last_index
                               THEN full ELSE chosen[m]
  BY DEF FreshProof
<1> HIDE DEF chosen, full, G
<1>7. chosen[0] = full /\ \A k \in 1 .. m : chosen[k] = G(k, chosen[k - 1])
  BY <1>0, <1>5
<1>8. Patching(chosen, t, request, entries, m)
  BY <1>6, <1>7 DEF Patching, full, G
<1> QED
  BY <1>8

\* ChangelogEntry::update_proof, for the entry of another leaf.
Repaired(proof, out, entry, i) ==
    /\ DOMAIN out = Level
    /\ \A l \in Level : out[l] = IF Hits(entry, i, l) THEN entry.path[l] ELSE proof[l]

\* update_proof replaces the one sibling that the entry's path goes through.
LEMMA ProofRepair ==
    ASSUME NEW proof, DOMAIN proof = Level, NEW i \in LeafIndex, NEW entry,
           entry.index \in LeafIndex, entry.index # i, proof = [l \in Level |-> proof[l]]
    PROVE  /\ Repaired(proof, update_proof(proof, entry, i), entry, i)
           /\ update_proof(proof, entry, i) = [l \in Level |-> update_proof(proof, entry, i)[l]]
<1> DEFINE x == intersection_index(entry, i)
           out == update_proof(proof, entry, i)
<1>1. x \in Level /\ \A l \in Level : Above(entry.index, l) = SiblingIndex(i, l) <=> l = x
  <2>1. /\ x \in Level
        /\ \A l \in Level : Above(entry.index, l) # Above(i, l)
                            /\ Above(entry.index, l + 1) = Above(i, l + 1) <=> l = x
    BY Intersection
  <2> HIDE DEF x
  <2> QED
    BY <2>1, SiblingMeets
<1>2. out = IF x \notin DOMAIN entry.path THEN proof ELSE [proof EXCEPT ![x] = entry.path[x]]
  BY DEF update_proof
<1> HIDE DEF x, out
<1>3. out = [l \in Level |-> IF l = x /\ x \in DOMAIN entry.path THEN entry.path[l] ELSE proof[l]]
  <2>1. CASE x \in DOMAIN entry.path
    BY <1>1, <1>2, <2>1
  <2>2. CASE x \notin DOMAIN entry.path
    BY <1>2, <2>2
  <2> QED
    BY <2>1, <2>2
<1>4. ASSUME NEW l \in Level PROVE Hits(entry, i, l) <=> l = x /\ x \in DOMAIN entry.path
  BY <1>1 DEF Hits
<1>5. Repaired(proof, out, entry, i)
  BY <1>3, <1>4 DEF Repaired
<1>6. out = [l \in Level |-> out[l]]
  BY <1>3
<1> QED
  BY <1>5, <1>6 DEF out

\* Every node has a leaf below it.
LEMMA LeafBelow ==
    ASSUME NEW l \in 0 .. Height, NEW m \in 0 .. Pow2[Height - l] - 1
    PROVE  \E j \in LeafIndex : Above(j, l) = m
<1> DEFINE Good == {k \in 0 .. Height : \A a \in 0 .. Pow2[Height - k] - 1 :
                                            \E j \in LeafIndex : Above(j, k) = a}
<1>1. 0 \in Good
  <2>1. Height - 0 = Height /\ \A j \in LeafIndex : Above(j, 0) = j
    BY LevelFacts, AboveBound, AboveValues
  <2> QED
    BY <2>1, LevelFacts DEF LeafIndex
<1>2. ASSUME NEW k \in 0 .. Height - 1, k \in Good PROVE k + 1 \in Good
  <2>1. k \in Level /\ k + 1 \in 0 .. Height
    BY LevelFacts
  <2>2. ASSUME NEW a \in 0 .. Pow2[Height - (k + 1)] - 1
        PROVE  \E j \in LeafIndex : Above(j, k + 1) = a
    <3>1. 2 * a \in 0 .. Pow2[Height - k] - 1
      BY <2>1, Children
    <3>2. PICK j \in LeafIndex : Above(j, k) = 2 * a
      BY <1>2, <3>1
    <3>3. Above(j, k + 1) = a
      BY <2>1, <3>2, Children
    <3> QED
      BY <3>3
  <2> QED
    BY <2>1, <2>2
<1>3. \A k \in 0 .. Height : k \in Good
  <2> HIDE DEF Good
  <2> QED
    BY <1>1, <1>2, NumberInduction, LevelFacts
<1> QED
  BY <1>3

\* update_proof_from_canopy: the cached sibling is the sibling.
LEMMA CachedSibling ==
    ASSUME NEW canopy, NEW lvs, CanopyIn(canopy, lvs), NEW i \in LeafIndex, NEW l \in CanopyLevel
    PROVE  canopy[CanopySibling(i, l)] = NodesOf(lvs)[l][SiblingIndex(i, l)]
<1> DEFINE s == SiblingIndex(i, l)
<1>1. l \in Level /\ l \in 0 .. Height
  BY CanopyRange, LevelFacts
<1>2. s \in 0 .. Pow2[Height - l] - 1
  BY <1>1, ParentNode
<1> HIDE DEF s
<1>3. PICK j \in LeafIndex : Above(j, l) = s
  BY <1>1, <1>2, LeafBelow
<1>4. CanopyIndex(j, l) = CanopySibling(i, l)
  <2>1. Above(i, l) \in Nat /\ Pow2[Height - l] \in Nat
    BY CanopyRange
  <2>2. CanopyIndex(j, l) = Pow2[Height - l] + s - 2
    BY <1>3 DEF CanopyIndex
  <2>3. CanopyIndex(i, l) = Pow2[Height - l] + Above(i, l) - 2
    BY DEF CanopyIndex
  <2>4. CASE IsLeft(i, l)
    <3>1. s = Above(i, l) + 1 /\ CanopySibling(i, l) = CanopyIndex(i, l) + 1
      BY <2>4 DEF CanopySibling, SiblingIndex, s
    <3> QED
      BY <2>1, <2>2, <2>3, <3>1
  <2>5. CASE ~IsLeft(i, l)
    <3>1. s = Above(i, l) + (-1) /\ CanopySibling(i, l) = CanopyIndex(i, l) + (-1)
      BY <2>5 DEF CanopySibling, SiblingIndex, s
    <3> QED
      BY <2>1, <2>2, <2>3, <3>1
  <2> QED
    BY <2>4, <2>5
<1>5. canopy[CanopyIndex(j, l)] = NodesOf(lvs)[l][Above(j, l)]
  BY DEF CanopyIn, SlotIn
<1> QED
  BY <1>3, <1>4, <1>5 DEF s

\* After k entries, a level has the node of the newest one that has it.
LevelAt(f, win, i, l, k) ==
    \/ Missed(win, 1, k, i, l) /\ f[k][l] = f[0][l]
    \/ \E j \in 1 .. k : Hits(win[j], i, l) /\ Missed(win, j + 1, k, i, l)
                         /\ f[k][l] = win[j].path[l]

\* After all entries a level of the proof is what the last entry that reaches
\* it says, or what it was.
LEMMA LevelsAfter ==
    ASSUME NEW f, NEW win, NEW m \in Nat, NEW i \in LeafIndex,
           f[0] = [l \in Level |-> f[0][l]],
           \A k \in 1 .. m : win[k].index \in LeafIndex /\ win[k].index # i,
           \A k \in 1 .. m : f[k] = update_proof(f[k - 1], win[k], i)
    PROVE  \A l \in Level : LevelAt(f, win, i, l, m)
<1> DEFINE Good == {k \in 0 .. m : /\ f[k] = [l \in Level |-> f[k][l]]
                                   /\ \A l \in Level : LevelAt(f, win, i, l, k)}
<1>0. 0 \in 0 .. m /\ m \in 0 .. m
  OBVIOUS
<1>1. 0 \in Good
  <2>1. ASSUME NEW l \in Level PROVE LevelAt(f, win, i, l, 0)
    BY DEF LevelAt, Missed
  <2> QED
    BY <1>0, <2>1
<1>2. ASSUME NEW k \in 0 .. m - 1, k \in Good PROVE k + 1 \in Good
  <2> DEFINE q == k + 1
  <2>1. /\ k \in Nat /\ q \in 1 .. m /\ q \in 0 .. m /\ q - 1 = k /\ q \in 1 .. q
        /\ \A j \in 1 .. q : j = q \/ j \in 1 .. k
        /\ \A j \in 1 .. k : j \in 1 .. q /\ \A a \in j + 1 .. q : a = q \/ a \in j + 1 .. k
        /\ \A a \in q + 1 .. q : FALSE
    OBVIOUS
  <2> HIDE DEF q
  <2>2. /\ f[q] = update_proof(f[k], win[q], i) /\ f[k] = [l \in Level |-> f[k][l]]
        /\ win[q].index \in LeafIndex /\ win[q].index # i
        /\ \A l \in Level : LevelAt(f, win, i, l, k)
    BY <1>2, <2>1
  <2>3. DOMAIN f[k] = Level
    BY <2>2
  <2>4. Repaired(f[k], f[q], win[q], i) /\ f[q] = [l \in Level |-> f[q][l]]
    BY <2>2, <2>3, ProofRepair
  <2>5. ASSUME NEW l \in Level PROVE LevelAt(f, win, i, l, q)
    <3>1. CASE Hits(win[q], i, l)
      <4>1. f[q][l] = win[q].path[l]
        BY <2>4, <3>1 DEF Repaired
      <4>2. Missed(win, q + 1, q, i, l)
        BY <2>1 DEF Missed
      <4> QED
        BY <2>1, <3>1, <4>1, <4>2 DEF LevelAt
    <3>2. CASE ~Hits(win[q], i, l)
      <4>1. f[q][l] = f[k][l]
        BY <2>4, <3>2 DEF Repaired
      <4>2. LevelAt(f, win, i, l, k)
        BY <2>2
      <4>3. CASE Missed(win, 1, k, i, l) /\ f[k][l] = f[0][l]
        <5>1. Missed(win, 1, q, i, l)
          BY <2>1, <3>2, <4>3 DEF Missed
        <5> QED
          BY <4>1, <4>3, <5>1 DEF LevelAt
      <4>4. ASSUME NEW j \in 1 .. k, Hits(win[j], i, l), Missed(win, j + 1, k, i, l),
                   f[k][l] = win[j].path[l]
            PROVE  LevelAt(f, win, i, l, q)
        <5>1. Missed(win, j + 1, q, i, l)
          BY <2>1, <3>2, <4>4 DEF Missed
        <5> QED
          BY <2>1, <4>1, <4>4, <5>1 DEF LevelAt
      <4> QED
        BY <4>2, <4>3, <4>4 DEF LevelAt
    <3> QED
      BY <3>1, <3>2
  <2> QED
    BY <2>1, <2>4, <2>5 DEF q
<1>3. m \in Good
  <2> HIDE DEF Good
  <2> QED
    BY <1>0, <1>1, <1>2, NumberInduction
<1> QED
  BY <1>3

\* A proof of leaf i that was right lag changes ago, at a position of the
\* changelog, when no change since was one of leaf i.
FreshIn(vec, lvs, proof, start, i, lag, n, more) ==
    \E win : /\ Window(vec, ChangelogCapacity, start, lag, win)
             /\ \A k \in 1 .. lag : win[k].index \in LeafIndex /\ win[k].index # i
             /\ HalfFresh(win, lag, proof, lvs, i, n, more)

\* It is accepted.
LEMMA FreshAccepted ==
    ASSUME NEW t, NEW lvs, TreeInv(t, lvs), NEW request, NEW i, i = request.leaf_index,
           i \in LeafIndex, i < t.next_index, request.old_leaf = lvs[i],
           NEW lag, NEW n,
           FreshIn(t.changelog, lvs, request.proof, request.changelog_index, i, lag, n, FALSE)
    PROVE  Accepts(t, request)
<1> DEFINE vec == t.changelog
           c == ChangelogCapacity
           start == request.changelog_index
           entries == changelog_entries(t, start)
           proof == FreshProof(t, request)
<1>1. PICK win : /\ Window(vec, c, start, lag, win)
                 /\ \A k \in 1 .. lag : win[k].index \in LeafIndex /\ win[k].index # i
                 /\ HalfFresh(win, lag, request.proof, lvs, i, n, FALSE)
  BY DEF FreshIn
<1>2. /\ c \in Nat \ {0} /\ IsRing(vec, c) /\ lag \in Nat /\ CanopyIn(t.canopy, lvs)
      /\ RootIn(t, lvs)
  BY <1>1, SizeConstraints DEF TreeInv, Window
<1>3. entries = Tail(IterFrom(vec, c, start))
  BY DEF changelog_entries
<1> HIDE DEF entries
<1>4. /\ Len(entries) = lag /\ DOMAIN entries = 1 .. lag
      /\ \A k \in 1 .. lag : entries[k] = win[k]
      /\ start = vec.last_index <=> lag = 0
  <2>1. Listed(entries, vec, start, lag, win)
    BY <1>1, <1>2, <1>3, WindowEntries
  <2> QED
    BY <2>1 DEF Listed
<1>5. PICK f : Patching(f, t, request, entries, lag)
  BY <1>2, <1>4, FreshFold DEF entries
<1>6. proof = f[lag]
  BY <1>4, <1>5 DEF Patching
<1>7. /\ f[0] = [l \in Level |-> f[0][l]]
      /\ \A l \in Level : f[0][l] = IF l \in CanopyLevel THEN t.canopy[CanopySibling(i, l)]
                                    ELSE request.proof[l]
      /\ \A k \in 1 .. lag : f[k] = update_proof(f[k - 1], win[k], i)
  BY <1>4, <1>5 DEF Patching
<1>8. \A l \in Level : LevelAt(f, win, i, l, lag)
  BY <1>1, <1>2, <1>7, LevelsAfter
<1>9. ASSUME NEW l \in Level PROVE f[lag][l] = NodesOf(lvs)[l][SiblingIndex(i, l)]
  <2> DEFINE node == NodesOf(lvs)[l][SiblingIndex(i, l)]
  <2>1. LevelFresh(win, lag, request.proof, lvs, i, l)
    BY <1>1 DEF HalfFresh
  <2>2. CASE Missed(win, 1, lag, i, l) /\ f[lag][l] = f[0][l]
    <3>1. CASE l \in CanopyLevel
      BY <1>2, <1>7, <2>2, <3>1, CachedSibling
    <3>2. CASE l \notin CanopyLevel
      BY <1>7, <2>1, <2>2, <3>2 DEF LevelFresh
    <3> QED
      BY <3>1, <3>2
  <2>3. ASSUME NEW j \in 1 .. lag, Hits(win[j], i, l), Missed(win, j + 1, lag, i, l),
               f[lag][l] = win[j].path[l]
        PROVE  f[lag][l] = node
    BY <2>1, <2>3 DEF LevelFresh
  <2> QED
    BY <1>8, <2>2, <2>3 DEF LevelAt
<1>10. compute_root(request.old_leaf, i, proof) = LastOf(t.roots)
  <2>1. Height \in 0 .. Height /\ Above(i, Height) = 0
    BY LevelFacts, AboveBound
  <2>2. PathOf(lvs[i], i, f[lag])[Height] = NodesOf(lvs)[Height][Above(i, Height)]
    BY <1>9, <2>1, PathUp
  <2> QED
    BY <1>2, <1>6, <2>1, <2>2 DEF compute_root, RootIn
<1>11. MayUpdate(t, request)
  <2>1. start \in 0 .. Len(vec.data) - 1 /\ Len(vec.data) \in Nat
    <3>1. start \in 0 .. Len(vec.data) - 1 /\ Len(vec.data) \in 1 .. c
      BY <1>1, <1>2 DEF Window, IsRing
    <3> QED
      BY <1>2, <3>1
  <2>2. InBounds(vec, start)
    BY <2>1 DEF InBounds
  <2>3. ASSUME NEW e \in Range(entries) PROVE e.index # i
    <3>1. PICK k \in DOMAIN entries : e = entries[k]
      BY DEF Range
    <3> QED
      BY <1>1, <1>4, <3>1
  <2> QED
    BY <2>2, <2>3 DEF MayUpdate, entries
<1> QED
  BY <1>10, <1>11 DEF Accepts

\* A proof that was just read is up to date with the empty window.
LEMMA FreshNow ==
    ASSUME NEW t, NEW lvs, TreeInv(t, lvs), NEW i \in LeafIndex, NEW proof, NEW n,
           \A l \in Level \ CanopyLevel : proof[l] = NodesOf(lvs)[l][SiblingIndex(i, l)]
    PROVE  FreshIn(t.changelog, lvs, proof, t.changelog.last_index, i, 0, n, FALSE)
<1> DEFINE win == <<>>
<1> HIDE DEF win
<1>1. Window(t.changelog, ChangelogCapacity, t.changelog.last_index, 0, win)
  BY SizeConstraints, WindowEmpty DEF TreeInv
<1>2. \A k \in 1 .. 0 : FALSE
  OBVIOUS
<1>3. ASSUME NEW l \in Level PROVE LevelFresh(win, 0, proof, lvs, i, l)
  BY <1>2 DEF LevelFresh
<1>4. HalfFresh(win, 0, proof, lvs, i, n, FALSE)
  BY <1>3 DEF HalfFresh
<1> QED
  BY <1>1, <1>2, <1>4 DEF FreshIn

\* One change more.
LEMMA FreshPush ==
    ASSUME NEW vec, IsRing(vec, ChangelogCapacity), NEW lvs, NEW lvs2, NEW proof, NEW start,
           NEW i \in LeafIndex, NEW lag, NEW n \in LeafIndex, n # i, NEW more \in BOOLEAN,
           FreshIn(vec, lvs, proof, start, i, lag, n, more), lag + 1 < ChangelogCapacity,
           NEW leaf, Changed(lvs, lvs2, n, leaf),
           NEW entry, NEW terminal \in BOOLEAN, EntryIn(entry, lvs2, n, terminal),
           NEW rest \in BOOLEAN, rest <=> ~terminal
    PROVE  FreshIn(Push(vec, ChangelogCapacity, entry), lvs2, proof, start, i, lag + 1, n + 1, rest)
<1> DEFINE c == ChangelogCapacity
<1>1. PICK win : /\ Window(vec, c, start, lag, win)
                 /\ \A k \in 1 .. lag : win[k].index \in LeafIndex /\ win[k].index # i
                 /\ HalfFresh(win, lag, proof, lvs, i, n, more)
  BY DEF FreshIn
<1> DEFINE ext == Extended(win, lag, entry)
<1>2. c \in Nat \ {0} /\ lag \in Nat
  BY <1>1, SizeConstraints DEF Window
<1>3. Window(Push(vec, c, entry), c, start, lag + 1, ext)
  BY <1>1, <1>2, WindowPush
<1>4. HalfFresh(ext, lag + 1, proof, lvs2, i, n + 1, rest)
  BY <1>1, <1>2, FreshStep
<1>5. ASSUME NEW k \in 1 .. lag + 1 PROVE ext[k].index \in LeafIndex /\ ext[k].index # i
  <2>1. ext[k] = IF k = lag + 1 THEN entry ELSE win[k]
    BY DEF Extended
  <2>2. entry.index = n
    BY DEF EntryIn
  <2>3. k = lag + 1 \/ k \in 1 .. lag
    BY <1>2
  <2> HIDE DEF ext
  <2> QED
    BY <1>1, <2>1, <2>2, <2>3
<1> HIDE DEF ext
<1> QED
  BY <1>3, <1>4, <1>5 DEF FreshIn

\* A proof that is up to date is so whatever follows.
LEMMA FreshWeaken ==
    ASSUME NEW vec, NEW lvs, NEW proof, NEW start, NEW i, NEW lag, NEW n,
           FreshIn(vec, lvs, proof, start, i, lag, n, FALSE), NEW n2, NEW more \in BOOLEAN
    PROVE  FreshIn(vec, lvs, proof, start, i, lag, n2, more)
BY DEF FreshIn, HalfFresh

\* append_batch writes one entry per leaf.
LEMMA AppendFields ==
    ASSUME NEW t, NEW leaf, NEW terminal
    PROVE  /\ AppendLeaf(t, leaf, terminal).changelog
                = Push(t.changelog, ChangelogCapacity, EntryOf(t, leaf, terminal))
           /\ AppendLeaf(t, leaf, terminal).sequence_number = t.sequence_number + 1
BY DEF AppendLeaf, EntryOf

\* append_batch pushes the entries of its leaves, and no others.
LEMMA BatchPushes ==
    ASSUME NEW t, NEW lvs, TreeInv(t, lvs), t.sequence_number \in Nat,
           NEW batch, NEW m \in 1 .. ChangelogCapacity,
           Len(batch) = m, t.next_index + m <= Pow2[Height],
           NEW f, NEW end, NEW entries, Stepwise(f, end, entries, t, lvs, batch, m)
    PROVE  /\ append_batch(t, batch).changelog = f[m].changelog
           /\ append_batch(t, batch).sequence_number = t.sequence_number + m
           /\ f[0].changelog = t.changelog
           /\ \A k \in 0 .. m - 1 : f[k + 1].changelog
                                    = Push(f[k].changelog, ChangelogCapacity, entries[k + 1])
<1> DEFINE first == (t.changelog.last_index + 1) % ChangelogCapacity
           u == f[m]
           w == append_batch(t, batch)
<1>1. m \in Nat /\ 0 \in 0 .. m /\ m \in 0 .. m
      /\ \A k \in 0 .. m - 1 : k \in Nat /\ k + 1 \in 1 .. m /\ k + 1 - 1 = k /\ k + 1 \in 0 .. m
  BY SizeConstraints
<1>2. /\ f[0] = t /\ AppendAll(t, batch) = u
      /\ \A k \in 0 .. m - 1 : f[k + 1] = AppendLeaf(f[k], batch[k + 1], end[k + 1])
      /\ \A k \in 0 .. m - 1 : entries[k + 1] = EntryOf(f[k], batch[k + 1], end[k + 1])
  BY <1>1 DEF Stepwise, Appends
<1>3. ASSUME NEW k \in 0 .. m - 1
      PROVE  /\ f[k + 1].changelog = Push(f[k].changelog, ChangelogCapacity, entries[k + 1])
             /\ f[k + 1].sequence_number = f[k].sequence_number + 1
  BY <1>2, AppendFields
<1>4. u.sequence_number = t.sequence_number + m
  <2> DEFINE Good == {k \in 0 .. m : f[k].sequence_number = t.sequence_number + k}
  <2>1. 0 \in Good
    BY <1>1, <1>2
  <2>2. ASSUME NEW k \in 0 .. m - 1, k \in Good PROVE k + 1 \in Good
    <3>1. f[k].sequence_number = t.sequence_number + k /\ k \in Nat /\ k + 1 \in 0 .. m
      BY <1>1, <2>2
    <3>2. f[k + 1].sequence_number = f[k].sequence_number + 1
      BY <1>3
    <3>3. f[k + 1].sequence_number = t.sequence_number + (k + 1)
      BY <3>1, <3>2
    <3> QED
      BY <3>1, <3>3
  <2>3. m \in Good
    <3> HIDE DEF Good
    <3> QED
      BY <1>1, <2>1, <2>2, NumberInduction
  <2> QED
    BY <2>3
<1>5. w = update_canopy(u, first)
  BY <1>2 DEF append_batch
<1>6. IsTree(u)
  BY <1>1 DEF Stepwise, Appended
<1>7. w.changelog = u.changelog /\ w.sequence_number = u.sequence_number
  <2>1. PICK canopy : update_canopy(u, first) = [u EXCEPT !.canopy = canopy]
    BY DEF update_canopy
  <2> HIDE DEF u, w, first
  <2>2. Recached(u, w, canopy)
    BY <1>5, <1>6, <2>1, CanopyField
  <2> QED
    BY <2>2 DEF Recached
<1> QED
  BY <1>2, <1>3, <1>4, <1>7

\* A proof that is up to date with its window is so after a batch.
LEMMA BatchFresh ==
    ASSUME NEW t, NEW lvs, TreeInv(t, lvs), t.sequence_number \in Nat,
           NEW batch, NEW m \in 1 .. ChangelogCapacity,
           Len(batch) = m, t.next_index + m <= Pow2[Height],
           NEW i \in LeafIndex, i < t.next_index, NEW proof, NEW start, NEW lag, NEW x,
           FreshIn(t.changelog, lvs, proof, start, i, lag, x, FALSE), lag + m < ChangelogCapacity
    PROVE  FreshIn(append_batch(t, batch).changelog, With(lvs, t.next_index, batch, m),
                   proof, start, i, lag + m, t.next_index + m, FALSE)
<1> DEFINE n == t.next_index
           c == ChangelogCapacity
           L(k) == With(lvs, n, batch, k)
<1>1. PICK f, end, entries : Stepwise(f, end, entries, t, lvs, batch, m)
  BY BatchSteps
<1>2. /\ append_batch(t, batch).changelog = f[m].changelog
      /\ f[0].changelog = t.changelog
      /\ \A k \in 0 .. m - 1 : f[k + 1].changelog = Push(f[k].changelog, c, entries[k + 1])
  BY <1>1, BatchPushes
<1>3. /\ c \in Nat \ {0} /\ m \in Nat /\ 0 \in 0 .. m /\ m \in 0 .. m /\ lag \in Nat
      /\ \A k \in 0 .. m - 1 : k \in Nat /\ k + 1 \in 1 .. m /\ k \in 0 .. m /\ k + 1 \in 0 .. m
  BY SizeConstraints DEF FreshIn, Window
<1>4. n \in Nat /\ Pow2[Height] \in Nat /\ i \in Nat
  <2>1. n \in 0 .. Pow2[Height] /\ Pow2[Height] \in Nat
    BY Pow2Values, LevelFacts DEF TreeInv, Appendable
  <2> QED
    BY <2>1, AboveBound
<1>5. L(0) = lvs
  <2>1. \A j \in LeafIndex : j \notin n .. n + 0 - 1
    BY <1>4, AboveBound
  <2>2. lvs = [j \in LeafIndex |-> lvs[j]]
    BY DEF TreeInv
  <2> QED
    BY <2>1, <2>2 DEF With
<1> DEFINE todo == [k \in 0 .. m |-> ~(k = m)]
           Good == {k \in 0 .. m : FreshIn(f[k].changelog, L(k), proof, start, i, lag + k, n + k, todo[k])}
<1>6. \A k \in 0 .. m : todo[k] \in BOOLEAN /\ (todo[k] <=> k # m)
  BY Zenon
<1> HIDE DEF todo, L
<1>7. 0 \in Good
  <2>1. lag + 0 = lag /\ todo[0] \in BOOLEAN
    BY <1>3, <1>6
  <2> DEFINE vec == f[0].changelog
             more == todo[0]
             n2 == n + 0
  <2> HIDE DEF vec, more, n2
  <2>2. FreshIn(vec, lvs, proof, start, i, lag, x, FALSE)
    BY <1>2 DEF vec
  <2>3. FreshIn(vec, lvs, proof, start, i, lag, n2, more)
    BY <2>1, <2>2, FreshWeaken DEF more
  <2> QED
    BY <1>3, <1>5, <2>1, <2>3 DEF vec, more, n2
<1>8. ASSUME NEW k \in 0 .. m - 1, k \in Good PROVE k + 1 \in Good
  <2>1. /\ k \in Nat /\ k + 1 \in 1 .. m /\ k \in 0 .. m /\ k + 1 \in 0 .. m
        /\ n + k + 1 = n + (k + 1) /\ lag + k + 1 = lag + (k + 1) /\ lag + k + 1 < c
    BY <1>3, <1>4
  <2>2. n + k \in LeafIndex /\ n + k # i
    <3>1. n + m <= Pow2[Height] /\ i < n
      OBVIOUS
    <3> HIDE DEF n
    <3>2. n + k \in 0 .. Pow2[Height] - 1 /\ n + k # i
      BY <1>3, <1>4, <2>1, <3>1
    <3> QED
      BY <3>2 DEF LeafIndex
  <2>3. Changed(L(k), L(k + 1), n + k, batch[k + 1])
    BY <1>4, <2>1, <2>2, WithNext DEF L
  <2>4. EntryIn(entries[k + 1], L(k + 1), n + k, end[k + 1])
    BY <1>1 DEF Stepwise, L
  <2>5. end[k + 1] \in BOOLEAN /\ todo[k] \in BOOLEAN /\ todo[k + 1] \in BOOLEAN
        /\ (todo[k + 1] <=> ~end[k + 1])
    <3>1. end[k + 1] \in BOOLEAN /\ (end[k + 1] <=> k + 1 = m)
      BY <1>1, <2>1 DEF Stepwise, Appends
    <3>2. todo[k] \in BOOLEAN /\ todo[k + 1] \in BOOLEAN /\ (todo[k + 1] <=> k + 1 # m)
      BY <1>6, <2>1
    <3> QED
      BY <3>1, <3>2
  <2>6. IsRing(f[k].changelog, c)
    BY <1>1, <2>1 DEF Stepwise, Appended
  <2>7. FreshIn(f[k].changelog, L(k), proof, start, i, lag + k, n + k, todo[k])
    BY <1>8
  <2>8. FreshIn(Push(f[k].changelog, c, entries[k + 1]), L(k + 1), proof, start, i, lag + k + 1,
                n + k + 1, todo[k + 1])
    BY <2>1, <2>2, <2>3, <2>4, <2>5, <2>6, <2>7, FreshPush
  <2>9. FreshIn(f[k + 1].changelog, L(k + 1), proof, start, i, lag + (k + 1), n + (k + 1), todo[k + 1])
    BY <1>2, <2>1, <2>8
  <2> QED
    BY <2>1, <2>9
<1>9. m \in Good
  <2> HIDE DEF Good
  <2> QED
    BY <1>3, <1>7, <1>8, NumberInduction
<1>10. FreshIn(f[m].changelog, L(m), proof, start, i, lag + m, n + m, todo[m])
  BY <1>9
<1>11. todo[m] = FALSE
  BY <1>3, <1>6
<1> QED
  BY <1>2, <1>10, <1>11 DEF L

\* update_leaf_in_tree writes one entry.
EntryPushed(t, w, lvs2, j) ==
    \E entry : /\ EntryIn(entry, lvs2, j, TRUE)
               /\ w.changelog = Push(t.changelog, ChangelogCapacity, entry)

\* An update pushes one entry, with the nodes of the new tree.
LEMMA UpdatePushes ==
    ASSUME NEW t, NEW lvs, TreeInv(t, lvs), NEW j \in LeafIndex, j < t.next_index,
           NEW leaf, NEW proof2, ProofIn(proof2, lvs, j),
           NEW w, w = update_leaf_in_tree(t, leaf, j, proof2)
    PROVE  /\ w.sequence_number = t.sequence_number + 1
           /\ EntryPushed(t, w, [lvs EXCEPT ![j] = leaf], j)
<1> DEFINE c == ChangelogCapacity
           new == [lvs EXCEPT ![j] = leaf]
           node == PathOf(leaf, j, proof2)
           entry == [path |-> [l \in Level |-> node[l]], index |-> j]
           last == t.next_index < Pow2[Height] /\ j >= current_index(t)
           u == [next_index      |-> t.next_index,
                 sequence_number |-> t.sequence_number + 1,
                 rightmost_leaf  |-> IF last THEN leaf ELSE t.rightmost_leaf,
                 filled_subtrees |-> SubtreesAfter(t, entry),
                 changelog       |-> Push(t.changelog, c, entry),
                 roots           |-> Push(t.roots, RootsCapacity, node[Height]),
                 canopy          |-> t.canopy]
<1>1. lvs = [k \in LeafIndex |-> lvs[k]] /\ IsRing(t.changelog, c) /\ c \in Nat \ {0}
  BY SizeConstraints DEF TreeInv
<1>2. Changed(lvs, new, j, leaf)
  BY <1>1 DEF Changed
<1>3. PathIn(node, new, j)
  <2> HIDE DEF new
  <2> QED
    BY <1>2, UpdatePath
<1>4. EntryIn(entry, new, j, TRUE)
  <2> HIDE DEF node, new
  <2>1. entry.index = j /\ DOMAIN entry.path = Level /\ \A l \in Level : entry.path[l] = node[l]
    OBVIOUS
  <2> HIDE DEF entry
  <2> QED
    BY <1>3, <2>1, LevelFacts DEF EntryIn, PathIn
<1>5. w = update_canopy(u, u.changelog.last_index)
  BY DEF update_leaf_in_tree
<1>6. IsTree(u) /\ u.changelog = Push(t.changelog, c, entry)
      /\ u.sequence_number = t.sequence_number + 1
  BY DEF IsTree
<1> HIDE DEF new, node, entry, last, u
<1>7. w.changelog = u.changelog /\ w.sequence_number = u.sequence_number
  <2>1. PICK canopy : update_canopy(u, u.changelog.last_index) = [u EXCEPT !.canopy = canopy]
    BY DEF update_canopy
  <2>2. Recached(u, w, canopy)
    BY <1>5, <1>6, <2>1, CanopyField
  <2> QED
    BY <2>2 DEF Recached
<1> QED
  BY <1>4, <1>6, <1>7 DEF new, EntryPushed

\* Sequence numbers count the changes.
LEMMA UpdateCounts ==
    ASSUME NEW t, NEW lvs, TreeInv(t, lvs), NEW j \in LeafIndex, j < t.next_index,
           NEW leaf, NEW proof, ProofIn(proof, lvs, j),
           NEW w, w = update_leaf_in_tree(t, leaf, j, proof)
    PROVE  w.sequence_number = t.sequence_number + 1
<1>1. /\ w.sequence_number = t.sequence_number + 1
      /\ EntryPushed(t, w, [lvs EXCEPT ![j] = leaf], j)
  BY UpdatePushes
<1> QED
  BY <1>1

\* A batch counts as many changes as it has leaves.
LEMMA BatchCounts ==
    ASSUME NEW t, NEW lvs, TreeInv(t, lvs), t.sequence_number \in Nat,
           NEW batch, NEW m \in 1 .. ChangelogCapacity,
           Len(batch) = m, t.next_index + m <= Pow2[Height]
    PROVE  append_batch(t, batch).sequence_number = t.sequence_number + m
<1>1. PICK f, end, entries : Stepwise(f, end, entries, t, lvs, batch, m)
  BY BatchSteps
<1> QED
  BY <1>1, BatchPushes

\* A proof that is up to date with its window is so after an update of another
\* leaf.
LEMMA UpdateFresh ==
    ASSUME NEW t, NEW lvs, TreeInv(t, lvs), NEW j \in LeafIndex, j < t.next_index,
           NEW leaf, NEW proof2, ProofIn(proof2, lvs, j),
           NEW w, w = update_leaf_in_tree(t, leaf, j, proof2),
           NEW i \in LeafIndex, i # j, NEW proof, NEW start, NEW lag, NEW x,
           FreshIn(t.changelog, lvs, proof, start, i, lag, x, FALSE), lag + 1 < ChangelogCapacity
    PROVE  FreshIn(w.changelog, [lvs EXCEPT ![j] = leaf], proof, start, i, lag + 1, j + 1, FALSE)
<1> DEFINE c == ChangelogCapacity
           new == [lvs EXCEPT ![j] = leaf]
<1>1. lvs = [k \in LeafIndex |-> lvs[k]] /\ IsRing(t.changelog, c)
  BY DEF TreeInv
<1>2. Changed(lvs, new, j, leaf)
  BY <1>1 DEF Changed
<1>3. PICK entry : EntryIn(entry, new, j, TRUE) /\ w.changelog = Push(t.changelog, c, entry)
  <2>1. EntryPushed(t, w, new, j)
    BY UpdatePushes
  <2> QED
    BY <2>1 DEF EntryPushed
<1> HIDE DEF new
<1>4. FreshIn(t.changelog, lvs, proof, start, i, lag, j, FALSE)
  BY FreshWeaken
<1>5. FreshIn(Push(t.changelog, c, entry), new, proof, start, i, lag + 1, j + 1, FALSE)
  BY <1>1, <1>2, <1>3, <1>4, FreshPush
<1> QED
  BY <1>3, <1>5 DEF new

\* A request whose leaf has not been changed: its leaf is still there, and its
\* proof can be brought up to date as long as the changelog reaches back.
Survives(r, t, lvs) ==
    /\ r.leaf_index \in LeafIndex /\ r.leaf_index < t.next_index
    /\ r.sequence_number \in Nat /\ r.sequence_number <= t.sequence_number
    /\ ~r.touched => r.old_leaf = lvs[r.leaf_index]
    /\ ~r.touched /\ t.sequence_number - r.sequence_number < ChangelogCapacity =>
            FreshIn(t.changelog, lvs, r.proof, r.changelog_index, r.leaf_index,
                    t.sequence_number - r.sequence_number, 0, FALSE)
StaleInv ==
    /\ tree.sequence_number \in Nat
    /\ \A c \in Client : requests[c] # None => Survives(requests[c], tree, leaves)

\* A request survives a batch.
LEMMA SurvivesBatch ==
    ASSUME NEW t, NEW lvs, TreeInv(t, lvs), t.sequence_number \in Nat, NEW r, Survives(r, t, lvs),
           NEW batch, NEW m \in 1 .. ChangelogCapacity, Len(batch) = m,
           t.next_index + m <= Pow2[Height], NEW w, w = append_batch(t, batch),
           NEW lvs2, lvs2 = With(lvs, t.next_index, batch, m)
    PROVE  Survives(r, w, lvs2) /\ w.sequence_number \in Nat
<1> DEFINE i == r.leaf_index
           n == t.next_index
           lag == t.sequence_number - r.sequence_number
<1>1. /\ w.next_index = n + m /\ m \in Nat /\ n \in Nat
  <2>1. n \in 0 .. Pow2[Height] /\ Pow2[Height] \in Nat
    BY Pow2Values, LevelFacts DEF TreeInv, Appendable
  <2>2. w.next_index = n + m
    BY BatchInv
  <2> QED
    BY <2>1, <2>2
<1>2. w.sequence_number = t.sequence_number + m
  <2>1. PICK f, end, entries : Stepwise(f, end, entries, t, lvs, batch, m)
    BY BatchSteps
  <2> QED
    BY <2>1, BatchPushes
<1>3. /\ i \in LeafIndex /\ i < n /\ i \in Nat
      /\ r.sequence_number \in Nat /\ r.sequence_number <= t.sequence_number
  BY AboveBound DEF Survives
<1>4. lvs2[i] = lvs[i]
  <2>1. i \notin n .. n + m - 1
    BY <1>1, <1>3
  <2> QED
    BY <1>3, <2>1 DEF With
<1>5. /\ lag \in Nat /\ w.sequence_number - r.sequence_number = lag + m
      /\ w.sequence_number \in Nat /\ r.sequence_number <= w.sequence_number /\ i < w.next_index
  BY <1>1, <1>2, <1>3
<1>6. ASSUME ~r.touched, lag + m < ChangelogCapacity
      PROVE  FreshIn(w.changelog, lvs2, r.proof, r.changelog_index, i, lag + m, 0, FALSE)
  <2>1. lag < ChangelogCapacity
    BY <1>1, <1>5, <1>6, SizeConstraints
  <2>2. FreshIn(t.changelog, lvs, r.proof, r.changelog_index, i, lag, 0, FALSE)
    BY <1>6, <2>1 DEF Survives
  <2> HIDE DEF lag
  <2>3. FreshIn(w.changelog, lvs2, r.proof, r.changelog_index, i, lag + m, n + m, FALSE)
    BY <1>3, <1>6, <2>2, BatchFresh
  <2> QED
    BY <2>3, FreshWeaken
<1> QED
  BY <1>3, <1>4, <1>5, <1>6 DEF Survives

\* A request survives an update of another leaf.
LEMMA SurvivesUpdate ==
    ASSUME NEW t, NEW lvs, TreeInv(t, lvs), t.sequence_number \in Nat, NEW r, Survives(r, t, lvs),
           NEW j \in LeafIndex, j < t.next_index, NEW leaf, NEW proof, ProofIn(proof, lvs, j),
           NEW w, w = update_leaf_in_tree(t, leaf, j, proof),
           NEW lvs2, lvs2 = [lvs EXCEPT ![j] = leaf], ~r.touched => r.leaf_index # j
    PROVE  Survives(r, w, lvs2)
<1> DEFINE i == r.leaf_index
           lag == t.sequence_number - r.sequence_number
<1>1. w.next_index = t.next_index
  BY UpdateInv
<1>2. w.sequence_number = t.sequence_number + 1
  BY UpdatePushes
<1>3. /\ i \in LeafIndex /\ i < t.next_index
      /\ r.sequence_number \in Nat /\ r.sequence_number <= t.sequence_number
      /\ ~r.touched => r.old_leaf = lvs[i]
  BY DEF Survives
<1>4. ~r.touched => lvs2[i] = lvs[i]
  <2>1. lvs = [k \in LeafIndex |-> lvs[k]]
    BY DEF TreeInv
  <2> QED
    BY <1>3, <2>1
<1>5. /\ lag \in Nat /\ w.sequence_number - r.sequence_number = lag + 1
      /\ r.sequence_number <= w.sequence_number
  BY <1>2, <1>3
<1>6. ASSUME ~r.touched, lag + 1 < ChangelogCapacity
      PROVE  FreshIn(w.changelog, lvs2, r.proof, r.changelog_index, i, lag + 1, 0, FALSE)
  <2>1. lag < ChangelogCapacity
    BY <1>5, <1>6, SizeConstraints
  <2>2. FreshIn(t.changelog, lvs, r.proof, r.changelog_index, i, lag, 0, FALSE)
    BY <1>6, <2>1 DEF Survives
  <2> HIDE DEF lag
  <2>3. FreshIn(w.changelog, lvs2, r.proof, r.changelog_index, i, lag + 1, j + 1, FALSE)
    BY <1>3, <1>6, <2>2, UpdateFresh
  <2> QED
    BY <2>3, FreshWeaken
<1> QED
  BY <1>1, <1>3, <1>4, <1>5, <1>6 DEF Survives

\* Marking a request changes nothing else of it.
LEMMA TouchedBy ==
    ASSUME NEW r, IsRequest(r), NEW x, NEW q, q = [r EXCEPT !.touched = x]
    PROVE  /\ q.leaf_index = r.leaf_index /\ q.old_leaf = r.old_leaf /\ q.proof = r.proof
           /\ q.changelog_index = r.changelog_index /\ q.sequence_number = r.sequence_number
           /\ q.touched = x
BY DEF IsRequest

\* Without requests there is nothing to survive.
LEMMA StaleInit ==
    Init => StaleInv
<1> SUFFICES ASSUME Init PROVE StaleInv
  OBVIOUS
<1>1. tree.sequence_number = 0
  BY DEF Init, NewTree
<1>2. \A c \in Client : requests[c] = None
  BY DEF Init
<1> QED
  BY <1>1, <1>2 DEF StaleInv

\* Requests survive every step, until their lag reaches the capacity.
LEMMA StaleNext ==
    ConcurrentInv /\ StaleInv /\ [Next]_vars => StaleInv'
<1> SUFFICES ASSUME ConcurrentInv, StaleInv, [Next]_vars PROVE StaleInv'
  OBVIOUS
<1>1. TreeInv(tree, leaves) /\ RequestsInv /\ tree.sequence_number \in Nat
      /\ \A c \in Client : requests[c] # None => Survives(requests[c], tree, leaves)
  BY DEF ConcurrentInv, StaleInv
<1>2. ASSUME NEW m \in 1 .. ChangelogCapacity, NEW batch \in [1 .. m -> LeafValue],
             AppendBatch(batch)
      PROVE  StaleInv'
  <2>1. m \in Nat /\ Len(batch) = m /\ tree.next_index + m <= Pow2[Height]
    <3>1. m \in Nat
      BY SizeConstraints
    <3>2. Len(batch) = m
      BY <3>1
    <3>3. tree.next_index + m - 1 < Pow2[Height]
      BY <1>2, <3>2 DEF AppendBatch, BatchFits
    <3>4. tree.next_index \in Nat /\ Pow2[Height] \in Nat
      <4>1. tree.next_index \in 0 .. Pow2[Height] /\ Pow2[Height] \in Nat
        BY <1>1, Pow2Values, LevelFacts DEF TreeInv, Appendable
      <4> QED
        BY <4>1
    <3> QED
      BY <3>1, <3>2, <3>3, <3>4
  <2>2. tree' = append_batch(tree, batch) /\ leaves' = With(leaves, tree.next_index, batch, m)
        /\ requests' = requests
    BY <1>2, <2>1 DEF AppendBatch, With
  <2>3. tree'.sequence_number \in Nat
    <3>1. PICK f, end, entries : Stepwise(f, end, entries, tree, leaves, batch, m)
      BY <1>1, <2>1, BatchSteps
    <3>2. append_batch(tree, batch).sequence_number = tree.sequence_number + m
      BY <1>1, <2>1, <3>1, BatchPushes
    <3> QED
      BY <1>1, <2>1, <2>2, <3>2
  <2>4. ASSUME NEW c \in Client, requests[c] # None PROVE Survives(requests[c], tree', leaves')
    BY <1>1, <2>1, <2>2, <2>4, SurvivesBatch
  <2> QED
    BY <2>2, <2>3, <2>4 DEF StaleInv
<1>3. ASSUME NEW c \in Client, NEW i \in LeafIndex, FetchProof(c, i) PROVE StaleInv'
  <2> DEFINE r == [leaf_index      |-> i,
                   old_leaf        |-> leaves[i],
                   proof           |-> [l \in Level \ CanopyLevel |->
                                          NodesOf(leaves)[l][SiblingIndex(i, l)]],
                   changelog_index |-> tree.changelog.last_index,
                   sequence_number |-> tree.sequence_number,
                   touched         |-> FALSE]
  <2>1. requests' = [requests EXCEPT ![c] = r] /\ tree' = tree /\ leaves' = leaves
        /\ i < tree.next_index
    BY <1>3 DEF FetchProof
  <2>2. /\ r.leaf_index = i /\ r.old_leaf = leaves[i] /\ r.sequence_number = tree.sequence_number
        /\ r.changelog_index = tree.changelog.last_index
        /\ \A l \in Level \ CanopyLevel : r.proof[l] = NodesOf(leaves)[l][SiblingIndex(i, l)]
    OBVIOUS
  <2> HIDE DEF r
  <2>3. FreshIn(tree.changelog, leaves, r.proof, tree.changelog.last_index, i, 0, 0, FALSE)
    BY <1>1, <2>2, FreshNow
  <2>4. tree.sequence_number - tree.sequence_number = 0
        /\ tree.sequence_number <= tree.sequence_number
    BY <1>1
  <2>5. Survives(r, tree, leaves)
    BY <1>1, <2>1, <2>2, <2>3, <2>4 DEF Survives
  <2>6. ASSUME NEW d \in Client, requests'[d] # None PROVE Survives(requests'[d], tree, leaves)
    <3>1. requests'[d] = r \/ requests'[d] = requests[d]
      BY <1>1, <2>1 DEF RequestsInv
    <3> QED
      BY <1>1, <2>5, <2>6, <3>1
  <2> QED
    BY <1>1, <2>1, <2>6 DEF StaleInv
<1>4. ASSUME NEW c \in Client, NEW leaf \in Leaf, Update(c, leaf) PROVE StaleInv'
  <2> DEFINE i == requests[c].leaf_index
             proof == FreshProof(tree, requests[c])
  <2>1. requests[c] # None /\ Accepts(tree, requests[c])
    BY <1>4 DEF Update
  <2>2. i \in Nat
    BY <1>1, <2>1 DEF RequestsInv, IsRequest
  <2>3. i \in LeafIndex /\ i < tree.next_index /\ ProofIn(proof, leaves, i)
    BY <1>1, <2>1, <2>2, AcceptedProof
  <2>4. tree' = update_leaf_in_tree(tree, leaf, i, proof) /\ leaves' = [leaves EXCEPT ![i] = leaf]
    BY <1>4 DEF Update
  <2> HIDE DEF proof, i
  <2> DEFINE w == tree'
             lvs2 == leaves'
  <2>7. w = update_leaf_in_tree(tree, leaf, i, proof) /\ lvs2 = [leaves EXCEPT ![i] = leaf]
    BY <2>4
  <2> HIDE DEF w, lvs2
  <2>5. w.sequence_number \in Nat
    <3>1. w.sequence_number = tree.sequence_number + 1
      BY <1>1, <2>3, <2>7, UpdatePushes
    <3> QED
      BY <1>1, <3>1
  <2>6. ASSUME NEW d \in Client, requests'[d] # None PROVE Survives(requests'[d], tree', leaves')
    <3> DEFINE r == requests[d]
               q == requests'[d]
    <3>1. r # None /\ q = [r EXCEPT !.touched = r.touched \/ r.leaf_index = i]
      BY <1>4, <2>6 DEF Update, i
    <3>2. IsRequest(r) /\ Survives(r, tree, leaves)
      BY <1>1, <3>1 DEF RequestsInv
    <3> HIDE DEF r, q
    <3> DEFINE x == r.touched \/ r.leaf_index = i
    <3>6. ~x => ~r.touched /\ r.leaf_index # i
      OBVIOUS
    <3>7. q = [r EXCEPT !.touched = x]
      BY <3>1
    <3> HIDE DEF x
    <3>8. /\ q.leaf_index = r.leaf_index /\ q.old_leaf = r.old_leaf /\ q.proof = r.proof
          /\ q.changelog_index = r.changelog_index /\ q.sequence_number = r.sequence_number
          /\ q.touched = x
      BY <3>2, <3>7, TouchedBy
    <3>9. ~q.touched => ~x
      BY <3>8, Zenon
    <3>3. /\ q.leaf_index = r.leaf_index /\ q.old_leaf = r.old_leaf /\ q.proof = r.proof
          /\ q.changelog_index = r.changelog_index /\ q.sequence_number = r.sequence_number
          /\ ~q.touched => ~r.touched /\ r.leaf_index # i
      BY <3>6, <3>8, <3>9
    <3>4. Survives(q, tree, leaves)
      BY <3>2, <3>3 DEF Survives
    <3>5. Survives(q, w, lvs2)
      BY <1>1, <2>3, <2>7, <3>3, <3>4, SurvivesUpdate
    <3> QED
      BY <3>5 DEF q, w, lvs2
  <2> QED
    BY <2>5, <2>6 DEF StaleInv, w
<1>5. ASSUME NEW c \in Client, UpdateFails(c) PROVE StaleInv'
  <2>1. requests' = [requests EXCEPT ![c] = None] /\ tree' = tree /\ leaves' = leaves
    BY <1>5 DEF UpdateFails
  <2>2. ASSUME NEW d \in Client, requests'[d] # None PROVE requests'[d] = requests[d]
    BY <1>1, <2>1, <2>2 DEF RequestsInv
  <2> QED
    BY <1>1, <2>1, <2>2 DEF StaleInv
<1>6. CASE UNCHANGED vars
  BY <1>1, <1>6 DEF vars, StaleInv
<1> QED
  BY <1>2, <1>3, <1>4, <1>5, <1>6 DEF Next

\* A request survives the changes of other leaves: while the changelog reaches
\* back to the position at which its proof was read, update_proof_from_canopy
\* and update_proof_from_changelog turn it into a proof that is accepted.
THEOREM StaleRequestsSurvive ==
    Spec => []StaleRequestsAccepted
<1>1. ConcurrentInv /\ StaleInv => StaleRequestsAccepted
  <2> SUFFICES ASSUME ConcurrentInv, StaleInv, NEW c \in Client, requests[c] # None,
                      ~requests[c].touched,
                      tree.sequence_number - requests[c].sequence_number < ChangelogCapacity
               PROVE  Accepts(tree, requests[c])
    BY DEF StaleRequestsAccepted
  <2>1. TreeInv(tree, leaves) /\ Survives(requests[c], tree, leaves)
    BY DEF ConcurrentInv, StaleInv
  <2> DEFINE r == requests[c]
             lag == tree.sequence_number - r.sequence_number
  <2>2. /\ r.leaf_index \in LeafIndex /\ r.leaf_index < tree.next_index
        /\ r.old_leaf = leaves[r.leaf_index]
        /\ FreshIn(tree.changelog, leaves, r.proof, r.changelog_index, r.leaf_index, lag, 0, FALSE)
    BY <2>1 DEF Survives
  <2> HIDE DEF lag
  <2> QED
    BY <2>1, <2>2, FreshAccepted
<1>2. Spec => []StaleInv
  BY ConcurrentAlways, StaleInit, StaleNext, PTL DEF Spec
<1> QED
  BY <1>1, <1>2, ConcurrentAlways, PTL

-----------------------------------------------------------------------------
\* Patching an insertion.

\* An insertion of an address: patching keeps the address, and the new element
\* takes the successor of the low element it has.
IsInsertion(ins, v) ==
    /\ ins = [value           |-> v,
              next_index      |-> ins.low_element.next_index,
              low_element     |-> ins.low_element,
              low_next_value  |-> ins.low_next_value,
              proof           |-> ins.proof,
              changelog_index |-> ins.changelog_index,
              switched        |-> ins.switched]
    /\ ins.low_element = [index      |-> ins.low_element.index,
                          value      |-> ins.low_element.value,
                          next_index |-> ins.low_element.next_index]
    /\ ins.low_element.index \in Nat

\* The entries of the ring are about elements.
IsEntry(entry) == entry.element.index \in Nat

\* Patching an insertion with one entry leaves the address alone.
LEMMA PatchStep ==
    ASSUME NEW ins, NEW v, IsInsertion(ins, v), NEW entry, IsEntry(entry),
           NEW following, IsEntry(following)
    PROVE  IsInsertion(Patch(ins, entry, following), v)
<1>0. ins.value = v
  BY DEF IsInsertion
<1>1. CASE ins.switched
  <2>1. Patch(ins, entry, following) = [ins EXCEPT !.switched = FALSE]
    BY <1>1 DEF Patch
  <2> DEFINE out == [ins EXCEPT !.switched = FALSE]
  <2>2. out = [value           |-> v,
               next_index      |-> ins.low_element.next_index,
               low_element     |-> ins.low_element,
               low_next_value  |-> ins.low_next_value,
               proof           |-> ins.proof,
               changelog_index |-> ins.changelog_index,
               switched        |-> FALSE]
    <3> DEFINE lit == [value           |-> v,
                       next_index      |-> ins.low_element.next_index,
                       low_element     |-> ins.low_element,
                       low_next_value  |-> ins.low_next_value,
                       proof           |-> ins.proof,
                       changelog_index |-> ins.changelog_index,
                       switched        |-> ins.switched]
    <3>1. ins = lit
      BY DEF IsInsertion
    <3>2. ASSUME NEW x
          PROVE  [ins EXCEPT !.switched = x]
                    = [value           |-> v,
                       next_index      |-> ins.low_element.next_index,
                       low_element     |-> ins.low_element,
                       low_next_value  |-> ins.low_next_value,
                       proof           |-> ins.proof,
                       changelog_index |-> ins.changelog_index,
                       switched        |-> x]
      BY <3>1
    <3> QED
      BY <3>2, Zenon
  <2> HIDE DEF out
  <2>3. IsInsertion(out, v)
    BY <2>2 DEF IsInsertion
  <2> QED
    BY <2>1, <2>3 DEF out
<1>2. CASE ~ins.switched /\ entry.element.index # ins.low_element.index
  BY <1>2 DEF Patch
<1>3. ASSUME NEW out, NEW low, NEW a, NEW b, NEW c, NEW d, NEW x, NEW y, NEW z,
             x \in Nat, low = [index |-> x, value |-> y, next_index |-> z],
             out = [value |-> v, next_index |-> z, low_element |-> low, low_next_value |-> a,
                    proof |-> b, changelog_index |-> c, switched |-> d]
      PROVE  IsInsertion(out, v)
  BY <1>3 DEF IsInsertion
<1>4. CASE ~ins.switched /\ entry.element.index = ins.low_element.index
           /\ entry.element.next_value < ins.value
  <2> DEFINE out == SwitchLowElement(ins, entry, following)
             e == following.element
             low == [index |-> e.index, value |-> entry.element.next_value,
                     next_index |-> e.next_index]
  <2>1. Patch(ins, entry, following) = out
    BY <1>4 DEF Patch
  <2>2. out = [value |-> v, next_index |-> e.next_index, low_element |-> low,
               low_next_value |-> ins.low_next_value, proof |-> following.proof,
               changelog_index |-> following.changelog_index, switched |-> TRUE]
    BY <1>0 DEF SwitchLowElement, IndexedElement
  <2>3. IsInsertion(out, v)
    <3> HIDE DEF out
    <3> QED
      BY <1>3, <2>2 DEF IsEntry
  <2> QED
    BY <2>1, <2>3
<1>5. CASE ~ins.switched /\ entry.element.index = ins.low_element.index
           /\ ~(entry.element.next_value < ins.value)
  <2> DEFINE out == PatchLowElement(ins, entry)
             e == entry.element
             low == [index |-> e.index, value |-> e.value, next_index |-> e.next_index]
  <2>1. Patch(ins, entry, following) = out
    BY <1>5 DEF Patch
  <2>2. out = [value |-> v, next_index |-> e.next_index, low_element |-> low,
               low_next_value |-> e.next_value, proof |-> entry.proof,
               changelog_index |-> entry.changelog_index, switched |-> FALSE]
    BY <1>0 DEF PatchLowElement, IndexedElement
  <2>3. IsInsertion(out, v)
    <3> HIDE DEF out
    <3> QED
      BY <1>3, <2>2 DEF IsEntry
  <2> QED
    BY <2>1, <2>3
<1> QED
  BY <1>1, <1>2, <1>4, <1>5

\* patch_elements_and_proof applies the entries one after the other.
IsInsertRequest(r) ==
    /\ r.indexed_changelog_index \in Nat
    /\ r.low_element = [index      |-> r.low_element.index,
                        value      |-> r.low_element.value,
                        next_index |-> r.low_element.next_index]
    /\ r.low_element.index \in Nat

\* The indexed changelog: a ring of entries about elements.
IsChangelog(vec) ==
    /\ IsRing(vec, IndexedChangelogCapacity)
    /\ \A k \in 0 .. Len(vec.data) - 1 : IsEntry(At(vec, k))

Patches(f, r, entries, following, m) ==
    /\ f[0] = Insertion(r)
    /\ \A k \in 1 .. m : f[k] = Patch(f[k - 1], entries[k], following[k])
    /\ patch_elements_and_proof(r) = f[m]

\* patch_elements_and_proof applies the entries one after the other.
LEMMA PatchFold ==
    ASSUME NEW r, NEW m \in Nat, NEW entries,
           entries = Tail(IterFrom(indexed_changelog, IndexedChangelogCapacity,
                                   r.indexed_changelog_index)),
           Len(entries) = m, NEW following,
           following = [k \in 1 .. m |->
                At(indexed_changelog,
                   (r.indexed_changelog_index + k + 1) % Len(indexed_changelog.data))]
    PROVE  \E f : Patches(f, r, entries, following, m)
<1> DEFINE next(k) == At(indexed_changelog,
                         (r.indexed_changelog_index + k + 1) % Len(indexed_changelog.data))
           ents == Tail(IterFrom(indexed_changelog, IndexedChangelogCapacity,
                                   r.indexed_changelog_index))
           G(k, x) == Patch(x, ents[k], next(k))
           Is(f, n) == f = [k \in 0 .. n |-> IF k = 0 THEN Insertion(r) ELSE G(k, f[k - 1])]
           Good == {n \in 0 .. m : \E f : Is(f, n)}
<1>0. 0 \in 0 .. m /\ m \in 0 .. m
  OBVIOUS
<1>1. 0 \in Good
  <2>1. Is([l \in 0 .. 0 |-> Insertion(r)], 0)
    OBVIOUS
  <2> HIDE DEF Is
  <2> QED
    BY <1>0, <2>1
<1>2. ASSUME NEW k \in 0 .. m - 1, k \in Good PROVE k + 1 \in Good
  <2>1. PICK f : Is(f, k)
    BY <1>2
  <2>2. k \in Nat /\ k + 1 \in 0 .. m
    OBVIOUS
  <2> HIDE DEF G
  <2> DEFINE g == [l \in 0 .. k + 1 |-> IF l = k + 1 THEN G(k + 1, f[k]) ELSE f[l]]
  <2>3. Is(g, k + 1)
    BY <2>1, <2>2
  <2> QED
    BY <2>2, <2>3
<1>3. m \in Good
  <2> HIDE DEF Good
  <2> QED
    BY <1>0, <1>1, <1>2, NumberInduction
<1>4. PICK f : Is(f, m) /\ patch_elements_and_proof(r) = f[m]
  <2> DEFINE f == CHOOSE f : Is(f, m)
  <2>1. Is(f, m)
    BY <1>3
  <2>2. patch_elements_and_proof(r) = f[m]
    BY DEF patch_elements_and_proof
  <2> QED
    BY <2>1, <2>2
<1>5. f[0] = Insertion(r)
  BY <1>4
<1>6. ASSUME NEW k \in 1 .. m PROVE f[k] = Patch(f[k - 1], entries[k], following[k])
  <2>1. k \in 0 .. m /\ k # 0
    OBVIOUS
  <2>2. following[k] = next(k) /\ entries[k] = ents[k]
    OBVIOUS
  <2> HIDE DEF G
  <2>3. f[k] = G(k, f[k - 1])
    BY <1>4, <2>1
  <2> HIDE DEF next, ents
  <2> QED
    BY <2>2, <2>3 DEF G
<1> HIDE DEF Is
<1> QED
  BY <1>4, <1>5, <1>6 DEF Patches

\* Whatever patch_elements_and_proof finds, the address is the one requested.
LEMMA PatchInv ==
    ASSUME NEW r, IsInsertRequest(r), IsChangelog(indexed_changelog),
           InBounds(indexed_changelog, r.indexed_changelog_index)
    PROVE  IsInsertion(patch_elements_and_proof(r), r.value)
<1> DEFINE vec == indexed_changelog
           c == IndexedChangelogCapacity
           n == Len(vec.data)
           start == r.indexed_changelog_index
           m == (vec.last_index - start) % c
           entries == Tail(IterFrom(vec, c, start))
           following == [k \in 1 .. m |-> At(vec, (start + k + 1) % n)]
<1>1. c \in Nat \ {0} /\ IsRing(vec, c) /\ n \in Nat \ {0} /\ start \in 0 .. n - 1
  <2>1. c \in Nat \ {0} /\ IsRing(vec, c) /\ n \in 1 .. c /\ start \in Nat /\ start < n
    BY IndexedAssumption DEF IsChangelog, InBounds, IsInsertRequest, IsRing
  <2> QED
    BY <2>1
<1>2. m \in 0 .. c - 1 /\ Behind(entries, vec, c, start, m)
  BY <1>1, IterTail
<1>3. m \in Nat /\ Len(entries) = m
  BY <1>1, <1>2 DEF Behind
<1>4. ASSUME NEW k \in 1 .. m PROVE IsEntry(entries[k]) /\ IsEntry(following[k])
  <2>1. entries[k] = At(vec, (start + k) % c) /\ (start + k) % c \in 0 .. n - 1
    BY <1>2 DEF Behind
  <2>2. (start + k + 1) % n \in 0 .. n - 1
    BY <1>1, <1>3
  <2>3. following[k] = At(vec, (start + k + 1) % n)
    OBVIOUS
  <2> HIDE DEF following, entries
  <2> QED
    BY <2>1, <2>2, <2>3 DEF IsChangelog
<1>5. PICK f : Patches(f, r, entries, following, m)
  <2> HIDE DEF m
  <2> QED
    BY <1>3, PatchFold
<1> HIDE DEF entries, following, m
<1> DEFINE Good == {k \in 0 .. m : IsInsertion(f[k], r.value)}
<1>6. 0 \in Good
  <2>1. IsInsertion(Insertion(r), r.value)
    BY DEF IsInsertion, Insertion, IsInsertRequest
  <2> QED
    BY <1>3, <1>5, <2>1 DEF Patches
<1>7. ASSUME NEW k \in 0 .. m - 1, k \in Good PROVE k + 1 \in Good
  <2>1. k + 1 \in 1 .. m /\ k + 1 - 1 = k /\ k + 1 \in 0 .. m
    BY <1>3
  <2>2. f[k + 1] = Patch(f[k], entries[k + 1], following[k + 1])
    BY <1>5, <2>1 DEF Patches
  <2>3. IsInsertion(f[k], r.value)
    BY <1>7
  <2>4. IsInsertion(f[k + 1], r.value)
    BY <1>4, <2>1, <2>2, <2>3, PatchStep
  <2> QED
    BY <2>1, <2>4
<1>8. m \in Good
  <2> HIDE DEF Good
  <2>1. m \in 0 .. m
    BY <1>3
  <2> QED
    BY <1>3, <1>6, <1>7, <2>1, NumberInduction
<1> QED
  BY <1>5, <1>8 DEF Patches

-----------------------------------------------------------------------------
\* The sorted list.

Typed(lvs, n) ==
    \A i \in 0 .. n - 1 : /\ lvs[i].value \in Nat /\ lvs[i].value <= HighestAddress
                          /\ lvs[i].next_index \in 0 .. n - 1
                          /\ lvs[i].next_value \in Nat
Distinct(lvs, n) ==
    \A i, j \in 0 .. n - 1 : lvs[i].value = lvs[j].value => i = j
Linked(lvs, n) ==
    \A i \in 0 .. n - 1 : lvs[i].next_value = lvs[lvs[i].next_index].value
Ordered(lvs, n) ==
    \A i \in 0 .. n - 1 :
        IF lvs[i].value = HighestAddress THEN lvs[i].next_index = 0
        ELSE /\ lvs[i].value < lvs[i].next_value
             /\ \A j \in 0 .. n - 1 :
                    ~(lvs[i].value < lvs[j].value /\ lvs[j].value < lvs[i].next_value)
ListInv(lvs, n) ==
    /\ n \in Nat /\ n > 0 /\ lvs[0].value = 0
    /\ Typed(lvs, n) /\ Distinct(lvs, n) /\ Linked(lvs, n) /\ Ordered(lvs, n)

\* What InRange and the proof of the low leaf establish: the address lies
\* strictly between the low element and its successor, so it is new.
LEMMA Fresh ==
    ASSUME NEW lvs, NEW n, ListInv(lvs, n), NEW k \in 0 .. n - 1,
           NEW v \in Nat, v < HighestAddress, lvs[k].value < v,
           lvs[k].next_index # 0 => v < lvs[k].next_value
    PROVE  /\ lvs[k].value # HighestAddress /\ v < lvs[k].next_value
           /\ \A j \in 0 .. n - 1 : lvs[j].value # v
<1>1. /\ lvs[k].value \in Nat /\ lvs[k].next_index \in 0 .. n - 1 /\ HighestAddress \in Nat
      /\ lvs[k].next_value \in Nat
  BY IndexedAssumption DEF ListInv, Typed
<1>2. lvs[k].value # HighestAddress
  BY <1>1
<1>3. lvs[k].value < lvs[k].next_value
      /\ \A j \in 0 .. n - 1 : ~(lvs[k].value < lvs[j].value /\ lvs[j].value < lvs[k].next_value)
  BY <1>2 DEF ListInv, Ordered
<1>4. lvs[k].next_index # 0
  <2>1. lvs[k].next_value = lvs[lvs[k].next_index].value /\ lvs[0].value = 0
    BY DEF ListInv, Linked
  <2> QED
    BY <1>1, <1>3, <2>1
<1>5. v < lvs[k].next_value
  BY <1>4
<1> QED
  BY <1>2, <1>3, <1>5

\* The leaves after an insertion.
Inserted(lvs, lvs2, n, k, v) ==
    /\ lvs2[k].value = lvs[k].value /\ lvs2[k].next_index = n /\ lvs2[k].next_value = v
    /\ lvs2[n].value = v /\ lvs2[n].next_index = lvs[k].next_index
    /\ lvs2[n].next_value = lvs[k].next_value
    /\ \A i \in 0 .. n - 1 : i # k => lvs2[i] = lvs[i]

\* A sorted list stays sorted when an address is linked in behind an element
\* that is smaller and whose successor is larger.
LEMMA ListInsert ==
    ASSUME NEW lvs, NEW n, ListInv(lvs, n), NEW k \in 0 .. n - 1,
           NEW v \in Nat, v < HighestAddress, lvs[k].value < v,
           lvs[k].next_index # 0 => v < lvs[k].next_value,
           NEW lvs2, Inserted(lvs, lvs2, n, k, v)
    PROVE  ListInv(lvs2, n + 1)
<1>1. /\ lvs[k].value # HighestAddress /\ v < lvs[k].next_value
      /\ \A j \in 0 .. n - 1 : lvs[j].value # v
  BY Fresh
<1>2. n \in Nat /\ n > 0 /\ HighestAddress \in Nat /\ n + 1 \in Nat
  BY IndexedAssumption DEF ListInv
<1>3. ASSUME NEW i \in 0 .. n - 1
      PROVE  /\ lvs[i].value \in Nat /\ lvs[i].next_index \in 0 .. n - 1
             /\ lvs[i].next_value \in Nat /\ lvs[i].value <= HighestAddress
             /\ lvs2[i].value = lvs[i].value /\ i # n
  <2>1. i # n
    BY <1>2
  <2> QED
    BY <2>1 DEF ListInv, Typed, Inserted
<1>4. \A i \in 0 .. (n + 1) - 1 : i \in 0 .. n - 1 \/ i = n
  BY <1>2
<1>5. Typed(lvs2, n + 1)
  <2>1. ASSUME NEW i \in 0 .. n - 1
        PROVE  /\ lvs2[i].value \in Nat /\ lvs2[i].next_index \in 0 .. (n + 1) - 1
               /\ lvs2[i].next_value \in Nat /\ lvs2[i].value <= HighestAddress
    BY <1>2, <1>3 DEF Inserted
  <2>2. /\ lvs2[n].value \in Nat /\ lvs2[n].next_index \in 0 .. (n + 1) - 1
        /\ lvs2[n].next_value \in Nat /\ lvs2[n].value <= HighestAddress
    BY <1>2, <1>3 DEF Inserted
  <2> QED
    BY <1>4, <2>1, <2>2 DEF Typed
<1>6. Distinct(lvs2, n + 1)
  <2>1. ASSUME NEW i \in 0 .. n - 1, NEW j \in 0 .. n - 1, lvs2[i].value = lvs2[j].value
        PROVE  i = j
    BY <1>3, <2>1 DEF ListInv, Distinct
  <2>2. ASSUME NEW i \in 0 .. n - 1 PROVE lvs2[i].value # lvs2[n].value
    BY <1>1, <1>3 DEF Inserted
  <2> QED
    BY <1>4, <2>1, <2>2 DEF Distinct
<1>7. Linked(lvs2, n + 1)
  <2>1. ASSUME NEW i \in 0 .. n - 1 PROVE lvs2[i].next_value = lvs2[lvs2[i].next_index].value
    <3>1. CASE i = k
      BY <3>1 DEF Inserted
    <3>2. CASE i # k
      <4>1. lvs2[i] = lvs[i]
        BY <3>2 DEF Inserted
      <4>2. lvs[i].next_value = lvs[lvs[i].next_index].value
        BY DEF ListInv, Linked
      <4> QED
        BY <1>3, <4>1, <4>2
    <3> QED
      BY <3>1, <3>2
  <2>2. lvs2[n].next_value = lvs2[lvs2[n].next_index].value
    <3>1. lvs[k].next_value = lvs[lvs[k].next_index].value
      BY DEF ListInv, Linked
    <3> QED
      BY <1>3, <3>1 DEF Inserted
  <2> QED
    BY <1>4, <2>1, <2>2 DEF Linked
<1>8. Ordered(lvs2, n + 1)
  <2> DEFINE Good(i) == IF lvs2[i].value = HighestAddress THEN lvs2[i].next_index = 0
                        ELSE /\ lvs2[i].value < lvs2[i].next_value
                             /\ \A j \in 0 .. (n + 1) - 1 :
                                  ~(lvs2[i].value < lvs2[j].value
                                    /\ lvs2[j].value < lvs2[i].next_value)
  <2>1. ASSUME NEW i, lvs2[i].value # HighestAddress, lvs2[i].value < lvs2[i].next_value,
               \A j \in 0 .. n - 1 : ~(lvs2[i].value < lvs[j].value
                                       /\ lvs[j].value < lvs2[i].next_value),
               ~(lvs2[i].value < v /\ v < lvs2[i].next_value)
        PROVE  Good(i)
    <3>1. ASSUME NEW j \in 0 .. (n + 1) - 1
          PROVE ~(lvs2[i].value < lvs2[j].value /\ lvs2[j].value < lvs2[i].next_value)
      <4>1. CASE j \in 0 .. n - 1
        BY <1>3, <2>1, <4>1
      <4>2. CASE j = n
        BY <2>1, <4>2 DEF Inserted
      <4> QED
        BY <1>4, <4>1, <4>2
    <3> QED
      BY <2>1, <3>1
  <2>2. /\ lvs[k].value < lvs[k].next_value
        /\ \A j \in 0 .. n - 1 :
                ~(lvs[k].value < lvs[j].value /\ lvs[j].value < lvs[k].next_value)
    BY <1>1 DEF ListInv, Ordered
  <2>3. lvs[k].value \in Nat /\ lvs[k].next_value \in Nat
    BY <1>3
  <2>4. Good(k)
    <3>1. /\ lvs2[k].value = lvs[k].value /\ lvs2[k].next_value = v
      BY DEF Inserted
    <3>2. ASSUME NEW j \in 0 .. n - 1 PROVE ~(lvs[k].value < lvs[j].value /\ lvs[j].value < v)
      BY <1>1, <1>3, <2>2, <2>3
    <3> HIDE DEF Good
    <3> QED
      BY <1>1, <2>1, <2>3, <3>1, <3>2
  <2>5. Good(n)
    <3>1. lvs2[n].value = v /\ lvs2[n].next_value = lvs[k].next_value
      BY DEF Inserted
    <3>2. ASSUME NEW j \in 0 .. n - 1
          PROVE  ~(v < lvs[j].value /\ lvs[j].value < lvs[k].next_value)
      BY <1>3, <2>2, <2>3
    <3> HIDE DEF Good
    <3> QED
      BY <1>1, <1>2, <2>1, <3>1, <3>2
  <2>6. ASSUME NEW i \in 0 .. n - 1, i # k PROVE Good(i)
    <3>1. lvs2[i] = lvs[i]
      BY <2>6 DEF Inserted
    <3>2. CASE lvs[i].value = HighestAddress
      BY <3>1, <3>2 DEF ListInv, Ordered
    <3>3. CASE lvs[i].value # HighestAddress
      <4>1. /\ lvs[i].value < lvs[i].next_value
            /\ \A j \in 0 .. n - 1 :
                    ~(lvs[i].value < lvs[j].value /\ lvs[j].value < lvs[i].next_value)
        BY <3>3 DEF ListInv, Ordered
      <4>2. lvs[i].value # lvs[k].value
        BY <2>6 DEF ListInv, Distinct
      <4>3. ~(lvs[i].value < v /\ v < lvs[i].next_value)
        <5>1. /\ ~(lvs[i].value < lvs[k].value /\ lvs[k].value < lvs[i].next_value)
              /\ ~(lvs[k].value < lvs[i].value /\ lvs[i].value < lvs[k].next_value)
          BY <2>2, <4>1
        <5> QED
          BY <1>1, <1>3, <2>3, <4>2, <5>1
      <4> HIDE DEF Good
      <4> QED
        BY <2>1, <3>1, <3>3, <4>1, <4>3
    <3> QED
      BY <3>2, <3>3
  <2>7. \A i \in 0 .. (n + 1) - 1 : Good(i)
    <3> HIDE DEF Good
    <3> QED
      BY <1>4, <2>4, <2>5, <2>6
  <2> QED
    BY <2>7 DEF Ordered
<1>9. lvs2[0].value = 0
  BY <1>2, <1>3 DEF ListInv
<1> QED
  BY <1>2, <1>5, <1>6, <1>7, <1>8, <1>9 DEF ListInv

-----------------------------------------------------------------------------
\* The copy that is kept off chain.

ElementIn(e, lvs, i) ==
    e = [index |-> i, value |-> lvs[i].value, next_index |-> lvs[i].next_index]
ArrayIn(array, lvs, n) ==
    /\ array.current_node_index = n - 1
    /\ DOMAIN array.elements = 0 .. n - 1
    /\ \A i \in 0 .. n - 1 : ElementIn(array.elements[i], lvs, i)

\* The array of the copy has the elements of the leaves.
LEMMA ArrayFacts ==
    ASSUME NEW array, NEW lvs, NEW n, ListInv(lvs, n), ArrayIn(array, lvs, n),
           NEW i \in 0 .. n - 1
    PROVE  /\ array.elements[i].value = lvs[i].value
           /\ array.elements[i].next_index = lvs[i].next_index
           /\ array.elements[i].index = i
           /\ NextValue(array, array.elements[i]) = lvs[i].next_value
<1>1. /\ array.elements[i].value = lvs[i].value
      /\ array.elements[i].next_index = lvs[i].next_index
      /\ array.elements[i].index = i
  <2>1. ElementIn(array.elements[i], lvs, i)
    BY DEF ArrayIn
  <2> QED
    BY <2>1 DEF ElementIn
<1> DEFINE s == lvs[i].next_index
<1>2. s \in 0 .. n - 1 /\ lvs[i].next_value = lvs[s].value
  BY DEF ListInv, Typed, Linked
<1> HIDE DEF s
<1>3. array.elements[s].value = lvs[s].value
  <2>1. ElementIn(array.elements[s], lvs, s)
    BY <1>2 DEF ArrayIn
  <2> QED
    BY <2>1 DEF ElementIn
<1>4. NextValue(array, array.elements[i]) = array.elements[s].value
  BY <1>1 DEF NextValue, s
<1> QED
  BY <1>1, <1>2, <1>3, <1>4

\* There is one element between which and whose successor an address lies, and
\* find_low_element_index_for_nonexistent finds it.
LEMMA FindLow ==
    ASSUME NEW array, NEW lvs, NEW n, ListInv(lvs, n), ArrayIn(array, lvs, n),
           NEW v \in Nat, NEW k \in 0 .. n - 1, lvs[k].value < v, v < lvs[k].next_value
    PROVE  find_low_element_index_for_nonexistent(array, v) = k
<1> DEFINE low == {i \in DOMAIN array.elements :
                     array.elements[i].value < v /\ NextValue(array, array.elements[i]) > v}
<1>1. DOMAIN array.elements = 0 .. n - 1 /\ n \in Nat /\ HighestAddress \in Nat
  BY IndexedAssumption DEF ArrayIn, ListInv
<1>2. ASSUME NEW i \in 0 .. n - 1
      PROVE  i \in low <=> lvs[i].value < v /\ v < lvs[i].next_value
  <2>1. lvs[i].next_value \in Nat
    BY DEF ListInv, Typed
  <2>2. /\ array.elements[i].value = lvs[i].value
        /\ NextValue(array, array.elements[i]) = lvs[i].next_value
    BY ArrayFacts
  <2> QED
    BY <1>1, <2>1, <2>2
<1>3. k \in low
  BY <1>2
<1>4. ASSUME NEW i \in 0 .. n - 1, lvs[i].value < v, v < lvs[i].next_value
      PROVE  lvs[i].value # HighestAddress
  <2>1. lvs[i].value = HighestAddress => lvs[i].next_value = 0
    BY DEF ListInv, Linked, Ordered
  <2> QED
    BY <1>4, <2>1
<1>5. ASSUME NEW i \in low PROVE i = k
  <2>1. i \in 0 .. n - 1 /\ lvs[i].value < v /\ v < lvs[i].next_value
    BY <1>1, <1>2
  <2>2. /\ ~(lvs[i].value < lvs[k].value /\ lvs[k].value < lvs[i].next_value)
        /\ ~(lvs[k].value < lvs[i].value /\ lvs[i].value < lvs[k].next_value)
    BY <1>4, <2>1 DEF ListInv, Ordered
  <2>3. /\ lvs[i].value \in Nat /\ lvs[k].value \in Nat
        /\ lvs[i].next_value \in Nat /\ lvs[k].next_value \in Nat
    BY <2>1 DEF ListInv, Typed
  <2>4. lvs[i].value = lvs[k].value
    BY <2>1, <2>2, <2>3
  <2> QED
    BY <2>1, <2>4 DEF ListInv, Distinct
<1>6. low = {k}
  <2> HIDE DEF low
  <2> QED
    BY <1>3, <1>5
<1>7. find_low_element_index_for_nonexistent(array, v)
        = IF low = {} THEN array.highest_element_index ELSE Min(low)
  BY DEF find_low_element_index_for_nonexistent
<1> HIDE DEF low
<1>8. Min({k}) = k
  <2>1. k <= k
    BY <1>1
  <2> QED
    BY <2>1 DEF Min
<1> QED
  BY <1>6, <1>7, <1>8

\* Every address that is not in the list lies between two elements.
LEMMA LowExists ==
    ASSUME NEW lvs, NEW n, ListInv(lvs, n), NEW v \in Nat, v > 0, v < HighestAddress,
           \A i \in 0 .. n - 1 : lvs[i].value # v
    PROVE  \E k \in 0 .. n - 1 : lvs[k].value < v /\ v < lvs[k].next_value
<1> DEFINE Gaps == {v - lvs[i].value : i \in {j \in 0 .. n - 1 : lvs[j].value < v}}
<1>1. n \in Nat /\ 0 \in 0 .. n - 1 /\ lvs[0].value = 0 /\ HighestAddress \in Nat
  BY IndexedAssumption DEF ListInv
<1>2. \A i \in 0 .. n - 1 : lvs[i].value \in Nat /\ lvs[i].next_value \in Nat
                            /\ lvs[i].next_index \in 0 .. n - 1
  BY DEF ListInv, Typed
<1>3. Gaps # {} /\ Gaps \subseteq Nat
  <2>1. v - lvs[0].value \in Gaps
    BY <1>1
  <2>2. ASSUME NEW g \in Gaps PROVE g \in Nat
    <3>1. PICK i \in {j \in 0 .. n - 1 : lvs[j].value < v} : g = v - lvs[i].value
      OBVIOUS
    <3> QED
      BY <1>2, <3>1
  <2> HIDE DEF Gaps
  <2> QED
    BY <2>1, <2>2
<1>4. PICK g \in Gaps : \A h \in Gaps : g <= h
  <2> HIDE DEF Gaps
  <2> QED
    BY <1>3, LeastNumber
<1>5. PICK k \in 0 .. n - 1 : lvs[k].value < v /\ g = v - lvs[k].value
  OBVIOUS
<1> DEFINE s == lvs[k].next_index
<1>6. lvs[k].value # HighestAddress
  BY <1>1, <1>2, <1>5
<1>7. s \in 0 .. n - 1 /\ lvs[k].next_value = lvs[s].value /\ lvs[k].value < lvs[k].next_value
  BY <1>2, <1>6 DEF ListInv, Linked, Ordered
<1> HIDE DEF s
<1>8. ~(lvs[s].value < v)
  <2>1. SUFFICES ASSUME lvs[s].value < v PROVE FALSE
    OBVIOUS
  <2>2. v - lvs[s].value \in Gaps
    BY <1>7, <2>1
  <2>3. g <= v - lvs[s].value
    <3> HIDE DEF Gaps
    <3> QED
      BY <1>4, <2>2
  <2> HIDE DEF Gaps
  <2> QED
    BY <1>2, <1>5, <1>7, <2>3
<1>9. v < lvs[k].next_value
  BY <1>2, <1>7, <1>8
<1> QED
  BY <1>5, <1>9

\* append_with_low_element_index and the update of the reference tree.
Relayed(out, lvs, lvs2, n, k, v) ==
    /\ ArrayIn(out.indexed_array, lvs2, n + 1)
    /\ out.merkle_tree = lvs2
    /\ Inserted(lvs, lvs2, n, k, v)

\* The copy changes as the leaves do.
LEMMA RelayInv ==
    ASSUME NEW copy, NEW lvs, NEW n, ListInv(lvs, n), n \in LeafIndex,
           ArrayIn(copy.indexed_array, lvs, n), copy.merkle_tree = lvs,
           DOMAIN lvs = LeafIndex,
           NEW k \in 0 .. n - 1, NEW v, NEW a, NEW b, NEW lvs2,
           a = [value |-> lvs[k].value, next_index |-> n, next_value |-> v],
           b = [value |-> v, next_index |-> lvs[k].next_index, next_value |-> lvs[k].next_value],
           lvs2 = [lvs EXCEPT ![k] = a, ![n] = b]
    PROVE  Relayed(Relay(copy, k, v), lvs, lvs2, n, k, v)
<1> DEFINE arr == copy.indexed_array
           out == append_with_low_element_index(arr, k, v)
           bundle == new_element_with_low_element_index(arr, k, v)
           element == [index |-> n, value |-> v, next_index |-> lvs[k].next_index]
           low == [index |-> k, value |-> lvs[k].value, next_index |-> n]
<1>1. /\ n \in Nat /\ arr.current_node_index + 1 = n /\ k \in Nat /\ k # n
      /\ \A i \in 0 .. n - 1 : i \in LeafIndex
  <2>1. Pow2[Height] \in Nat
    BY Pow2Values, LevelFacts
  <2>2. n \in Nat /\ arr.current_node_index = n - 1
    BY DEF ListInv, ArrayIn
  <2> QED
    BY <2>1, <2>2 DEF LeafIndex
<1>2. /\ arr.elements[k] = [index |-> k, value |-> lvs[k].value, next_index |-> lvs[k].next_index]
      /\ arr.elements[k].next_index = lvs[k].next_index
  <2>1. ElementIn(arr.elements[k], lvs, k)
    BY DEF ArrayIn
  <2> QED
    BY <2>1 DEF ElementIn
<1>3. /\ lvs2[k] = a /\ lvs2[n] = b /\ \A i \in LeafIndex : i # k /\ i # n => lvs2[i] = lvs[i]
  BY <1>1
<1>4. Inserted(lvs, lvs2, n, k, v)
  BY <1>1, <1>3 DEF Inserted
<1>5. bundle.new_element = element
  BY <1>1, <1>2 DEF new_element_with_low_element_index, IndexedElement
<1>6. bundle.new_low_element = low
  <2> DEFINE x == arr.elements[k]
  <2>1. bundle.new_low_element = [x EXCEPT !.next_index = n]
    BY <1>1 DEF new_element_with_low_element_index
  <2>2. x = [index |-> k, value |-> lvs[k].value, next_index |-> lvs[k].next_index]
    BY <1>2
  <2> HIDE DEF x, bundle
  <2> QED
    BY <2>1, <2>2
<1>7. bundle.new_element_next_value = lvs[k].next_value
  <2>1. bundle.new_element_next_value = NextValue(arr, element)
    BY <1>1, <1>2 DEF new_element_with_low_element_index, IndexedElement
  <2>2. NextValue(arr, element) = NextValue(arr, arr.elements[k])
    BY <1>2 DEF NextValue
  <2> QED
    BY <2>1, <2>2, ArrayFacts
<1>8. Relay(copy, k, v).merkle_tree = lvs2
  <2>1. Relay(copy, k, v).merkle_tree = UpdateReference(lvs, bundle)
    BY DEF Relay
  <2> HIDE DEF bundle
  <2>2. /\ bundle.new_low_element.index = k /\ bundle.new_element.index = n
        /\ hash(bundle.new_low_element, bundle.new_element.value) = a
        /\ hash(bundle.new_element, bundle.new_element_next_value) = b
    BY <1>5, <1>6, <1>7 DEF hash
  <2> QED
    BY <2>1, <2>2 DEF UpdateReference
<1>9. Relay(copy, k, v).indexed_array = out
  BY DEF Relay
<1>10. /\ out.current_node_index = n
       /\ out.elements = [i \in 0 .. n |-> IF i = n THEN element ELSE IF i = k THEN low
                                           ELSE arr.elements[i]]
  <2>1. bundle.new_element.index = n
    BY <1>5
  <2> QED
    BY <1>5, <1>6, <2>1 DEF append_with_low_element_index
<1>11. ArrayIn(out, lvs2, n + 1)
  <2>1. (n + 1) - 1 = n /\ \A i \in 0 .. n : i = n \/ i \in 0 .. n - 1
    BY <1>1
  <2>2. ASSUME NEW i \in 0 .. n
        PROVE  ElementIn(out.elements[i], lvs2, i)
    <3> HIDE DEF out
    <3>1. CASE i = n
      BY <1>3, <1>10, <3>1 DEF ElementIn
    <3>2. CASE i # n /\ i = k
      BY <1>3, <1>10, <3>2 DEF ElementIn
    <3>3. CASE i # n /\ i # k
      <4>1. i \in 0 .. n - 1 /\ i \in LeafIndex
        BY <1>1, <2>1, <3>3
      <4>2. lvs2[i] = lvs[i] /\ out.elements[i] = arr.elements[i]
        BY <1>3, <1>10, <3>3, <4>1
      <4> QED
        BY <4>1, <4>2 DEF ArrayIn, ElementIn
    <3> QED
      BY <3>1, <3>2, <3>3
  <2>3. DOMAIN out.elements = 0 .. n
    BY <1>10
  <2> HIDE DEF out
  <2> QED
    BY <1>10, <2>1, <2>2, <2>3 DEF ArrayIn
<1> HIDE DEF out
<1> QED
  BY <1>4, <1>8, <1>9, <1>11 DEF Relayed

-----------------------------------------------------------------------------
\* Insertions.

\* The indexed changelog has entries about elements after another one.
LEMMA EntryPush ==
    ASSUME NEW vec, IsChangelog(vec), NEW x, IsEntry(x)
    PROVE  IsChangelog(Push(vec, IndexedChangelogCapacity, x))
<1> DEFINE c == IndexedChangelogCapacity
           out == Push(vec, c, x)
<1>1. Pushed(vec, out, c, x)
  BY IndexedAssumption, PushRing DEF IsChangelog
<1> HIDE DEF out
<1>2. ASSUME NEW k \in 0 .. Len(out.data) - 1 PROVE IsEntry(At(out, k))
  <2>1. CASE k = (vec.last_index + 1) % c
    BY <1>1, <2>1 DEF Pushed, LastOf
  <2>2. CASE k # (vec.last_index + 1) % c
    BY <1>1, <2>2 DEF Pushed, IsChangelog
  <2> QED
    BY <2>1, <2>2
<1> QED
  BY <1>1, <1>2 DEF IsChangelog, Pushed, out

\* The indexed changelog starts with an entry about an element.
LEMMA FirstEntry ==
    ASSUME NEW x, IsEntry(x)
    PROVE  IsChangelog(Push(EmptyVec, IndexedChangelogCapacity, x))
<1> DEFINE out == Push(EmptyVec, IndexedChangelogCapacity, x)
<1>1. /\ IsRing(out, IndexedChangelogCapacity) /\ Len(out.data) = 1 /\ out.last_index = 0
      /\ LastOf(out) = x
  BY IndexedAssumption, PushFirst
<1> HIDE DEF out
<1>2. ASSUME NEW k \in 0 .. Len(out.data) - 1 PROVE IsEntry(At(out, k))
  <2>1. k = out.last_index
    BY <1>1
  <2> QED
    BY <1>1, <2>1 DEF LastOf
<1> QED
  BY <1>1, <1>2 DEF IsChangelog, out

\* One leaf appended is a batch of one.
LEMMA WithOne ==
    ASSUME NEW lvs, lvs = [i \in LeafIndex |-> lvs[i]], NEW n \in LeafIndex, NEW batch
    PROVE  With(lvs, n, batch, 1) = [lvs EXCEPT ![n] = batch[1]]
<1>1. n \in Nat /\ \A i \in LeafIndex : i \in Nat
  BY AboveBound
<1>2. ASSUME NEW i \in LeafIndex
      PROVE  (IF i \in n .. n + 1 - 1 THEN batch[i - n + 1] ELSE lvs[i])
               = IF i = n THEN batch[1] ELSE lvs[i]
  <2>1. CASE i = n
    <3>1. i \in n .. n + 1 - 1 /\ i - n + 1 = 1
      BY <1>1, <2>1
    <3> QED
      BY <2>1, <3>1
  <2>2. CASE i # n
    BY <1>1, <2>2
  <2> QED
    BY <2>1, <2>2
<1>3. With(lvs, n, batch, 1) = [i \in LeafIndex |-> IF i = n THEN batch[1] ELSE lvs[i]]
  BY <1>2 DEF With
<1> QED
  BY <1>3

\* Appending one leaf.
LEMMA AppendOne ==
    ASSUME NEW t, NEW lvs, TreeInv(t, lvs), t.next_index \in LeafIndex, NEW x
    PROVE  /\ TreeInv(append_batch(t, <<x>>), [lvs EXCEPT ![t.next_index] = x])
           /\ append_batch(t, <<x>>).next_index = t.next_index + 1
           /\ t.sequence_number \in Nat =>
                append_batch(t, <<x>>).sequence_number = t.sequence_number + 1
<1> DEFINE n == t.next_index
           batch == <<x>>
<1>1. Len(batch) = 1 /\ batch[1] = x
  OBVIOUS
<1>2. 1 \in 1 .. ChangelogCapacity /\ 1 \in Nat
  BY SizeConstraints
<1>3. /\ n \in Nat /\ n + 1 <= Pow2[Height] /\ \A i \in LeafIndex : i \in Nat
  <2>1. Pow2[Height] \in Nat
    BY Pow2Values, LevelFacts
  <2> QED
    BY <2>1 DEF LeafIndex
<1> HIDE DEF batch
<1>4. With(lvs, n, batch, 1) = [lvs EXCEPT ![n] = x]
  <2>1. lvs = [i \in LeafIndex |-> lvs[i]] /\ n \in LeafIndex
    BY DEF TreeInv
  <2> HIDE DEF n
  <2>2. With(lvs, n, batch, 1) = [lvs EXCEPT ![n] = batch[1]]
    BY ONLY <2>1, WithOne
  <2> QED
    BY <1>1, <2>2
<1>5. /\ TreeInv(append_batch(t, batch), With(lvs, n, batch, 1))
      /\ append_batch(t, batch).next_index = n + 1
  BY <1>1, <1>2, <1>3, BatchInv
<1>6. t.sequence_number \in Nat => append_batch(t, batch).sequence_number = t.sequence_number + 1
  BY <1>1, <1>2, <1>3, BatchCounts
<1> QED
  BY <1>4, <1>5, <1>6 DEF batch

\* update changes the low leaf and appends the new one.
LEMMA ChangeAndAppend ==
    ASSUME NEW t, NEW lvs, TreeInv(t, lvs), t.next_index \in LeafIndex,
           NEW k \in LeafIndex, k < t.next_index, NEW proof, ProofIn(proof, lvs, k),
           NEW a, NEW b, NEW u, u = update_leaf_in_tree(t, a, k, proof)
    PROVE  /\ TreeInv(append_batch(u, <<b>>), [lvs EXCEPT ![k] = a, ![t.next_index] = b])
           /\ append_batch(u, <<b>>).next_index = t.next_index + 1
           /\ t.sequence_number \in Nat =>
                append_batch(u, <<b>>).sequence_number = t.sequence_number + 2
<1> DEFINE mid == [lvs EXCEPT ![k] = a]
<1>1. TreeInv(u, mid) /\ u.next_index = t.next_index
  BY UpdateInv
<1> HIDE DEF mid
<1>2. /\ TreeInv(append_batch(u, <<b>>), [mid EXCEPT ![u.next_index] = b])
      /\ append_batch(u, <<b>>).next_index = u.next_index + 1
      /\ u.sequence_number \in Nat =>
            append_batch(u, <<b>>).sequence_number = u.sequence_number + 1
  BY <1>1, AppendOne
<1>3. [mid EXCEPT ![u.next_index] = b] = [lvs EXCEPT ![k] = a, ![t.next_index] = b]
  BY <1>1 DEF mid
<1>4. u.sequence_number = t.sequence_number + 1
  BY UpdateCounts
<1>5. t.sequence_number \in Nat =>
        append_batch(u, <<b>>).sequence_number = t.sequence_number + 2
  BY <1>2, <1>4
<1> QED
  BY <1>1, <1>2, <1>3, <1>5

\* The inductive invariant: the struct and the copy match the leaves, which
\* form a list, and the requests are insertions of addresses.
InsertRequestsInv ==
    /\ requests = [c \in Client |-> requests[c]]
    /\ \A c \in Client : requests[c] # None =>
        IsInsertRequest(requests[c]) /\ requests[c].value \in Address
CopyInv ==
    /\ relayer.merkle_tree = leaves
    /\ ArrayIn(relayer.indexed_array, leaves, tree.next_index)
Records(lvs, n) ==
    \A i \in 0 .. n - 1 : lvs[i] = [value      |-> lvs[i].value,
                                   next_index |-> lvs[i].next_index,
                                   next_value |-> lvs[i].next_value]
IndexedInv ==
    /\ TreeInv(tree, leaves)
    /\ ListInv(leaves, tree.next_index) /\ Records(leaves, tree.next_index)
    /\ IsChangelog(indexed_changelog)
    /\ InsertRequestsInv
    /\ CopyInv

\* What an accepted insertion has established: it is about the element that is
\* on chain now, and the address lies between it and its successor.
AcceptedAt(ins, v, k, n) ==
    /\ ins.value = v /\ v \in Address /\ k = ins.low_element.index
    /\ k \in LeafIndex /\ k < n /\ k \in 0 .. n - 1 /\ n \in LeafIndex
    /\ ins.low_element = [index |-> k, value |-> leaves[k].value, next_index |-> leaves[k].next_index]
    /\ ins.next_index = leaves[k].next_index
    /\ ins.low_next_value = leaves[k].next_value
    /\ ProofIn(FreshProof(tree, LowLeafUpdate(ins)), leaves, k)
    /\ v \in Nat /\ v < HighestAddress
    /\ leaves[k].value < v
    /\ leaves[k].next_index # 0 => v < leaves[k].next_value

\* An insertion that update accepts is about an element of the tree, which is
\* the low element of the address.
LEMMA AcceptedInsertion ==
    ASSUME IndexedInv, NEW r, IsInsertRequest(r), r.value \in Address, AcceptsInsertion(r),
           NEW ins, ins = patch_elements_and_proof(r)
    PROVE  AcceptedAt(ins, r.value, ins.low_element.index, tree.next_index)
<1> DEFINE k == ins.low_element.index
           n == tree.next_index
           v == r.value
           req == LowLeafUpdate(ins)
<1>1. IsInsertion(ins, v)
  <2>1. IsChangelog(indexed_changelog)
    BY DEF IndexedInv
  <2>2. InBounds(indexed_changelog, r.indexed_changelog_index)
    BY DEF AcceptsInsertion
  <2> QED
    BY <2>1, <2>2, PatchInv
<1>2. /\ ins.value = v /\ ins.next_index = ins.low_element.next_index /\ k \in Nat
      /\ ins.low_element = [index |-> k, value |-> ins.low_element.value,
                            next_index |-> ins.low_element.next_index]
  BY <1>1 DEF IsInsertion
<1>3. InRange(ins) /\ Accepts(tree, req) /\ BatchFits(tree, <<None>>)
  BY DEF AcceptsInsertion
<1>4. /\ req.leaf_index = k
      /\ req.old_leaf = [value |-> ins.low_element.value, next_index |-> ins.low_element.next_index,
                         next_value |-> ins.low_next_value]
  BY DEF LowLeafUpdate, hash
<1> HIDE DEF req
<1>5. /\ k \in LeafIndex /\ k < n /\ req.old_leaf = leaves[k]
      /\ ProofIn(FreshProof(tree, req), leaves, k)
  <2>1. req.leaf_index \in Nat
    BY <1>2, <1>4
  <2> QED
    BY <1>3, <1>4, <2>1, AcceptedProof DEF IndexedInv
<1>6. /\ leaves[k].value = ins.low_element.value /\ leaves[k].next_index = ins.low_element.next_index
      /\ leaves[k].next_value = ins.low_next_value
  BY <1>4, <1>5
<1>7. n \in LeafIndex /\ k \in 0 .. n - 1
  <2>1. n \in 0 .. Pow2[Height] /\ Pow2[Height] \in Nat
    BY Pow2Values, LevelFacts DEF IndexedInv, TreeInv, Appendable
  <2>2. Len(<<None>>) = 1 /\ n + Len(<<None>>) - 1 < Pow2[Height]
    BY <1>3 DEF BatchFits
  <2>3. n < Pow2[Height]
    BY <2>1, <2>2
  <2> QED
    BY <1>2, <1>5, <2>1, <2>3 DEF LeafIndex
<1>8. v \in Nat /\ v < HighestAddress /\ v \in Address
  BY IndexedAssumption
<1>9. leaves[k].value < v /\ (leaves[k].next_index # 0 => v < leaves[k].next_value)
  <2>1. leaves[k].value \in Nat
    BY <1>7 DEF IndexedInv, ListInv, Typed
  <2>2. v > leaves[k].value /\ (leaves[k].next_index # 0 => v < leaves[k].next_value)
    BY <1>2, <1>3, <1>6 DEF InRange
  <2> QED
    BY <1>8, <2>1, <2>2
<1>10. ins.low_element = [index |-> k, value |-> leaves[k].value, next_index |-> leaves[k].next_index]
  BY <1>2, <1>6
<1> QED
  BY <1>2, <1>5, <1>6, <1>7, <1>8, <1>9, <1>10 DEF AcceptedAt, req

\* An element whose next_index is set.
LEMMA SetNextIndex ==
    ASSUME NEW e, NEW i, NEW v, NEW n, NEW m, e = [index |-> i, value |-> v, next_index |-> n]
    PROVE  [e EXCEPT !.next_index = m] = [index |-> i, value |-> v, next_index |-> m]
OBVIOUS

\* What the accepted insertion does.
LEMMA InsertStep ==
    ASSUME IndexedInv, NEW c \in Client, Insert(c)
    PROVE  /\ IndexedInv'
           /\ \E k \in 0 .. tree.next_index - 1 :
                Inserted(leaves, leaves', tree.next_index, k, requests[c].value)
           /\ \A j \in 0 .. tree.next_index - 1 : leaves[j].value # requests[c].value
           /\ tree'.next_index = tree.next_index + 1
           /\ requests[c].value \in Address
<1> DEFINE r == requests[c]
           v == r.value
           ins == patch_elements_and_proof(r)
           k == ins.low_element.index
           n == tree.next_index
           proof == FreshProof(tree, LowLeafUpdate(ins))
           a == hash(NewLowElement(ins), ins.value)
           b == hash(NewElement(ins), ins.low_next_value)
           u == update_leaf_in_tree(tree, a, k, proof)
           lvs2 == [leaves EXCEPT ![k] = a, ![n] = b]
<1>1. IsInsertRequest(r) /\ v \in Address /\ AcceptsInsertion(r)
  BY DEF Insert, IndexedInv, InsertRequestsInv
<1>2. AcceptedAt(ins, v, k, n)
  BY <1>1, AcceptedInsertion
<1>3. /\ tree' = append_batch(u, <<b>>)
      /\ leaves' = lvs2
      /\ PushEntries(
             IndexedChangelogEntry(NewLowElement(ins), ins.value, proof, u.changelog.last_index),
             IndexedChangelogEntry(NewElement(ins), ins.low_next_value, AppendProof(u),
                                   tree'.changelog.last_index))
  BY DEF Insert, update
<1>4. relayer' = RelayInsertion(relayer, r) /\ requests' = [requests EXCEPT ![c] = None]
  BY DEF Insert
<1> HIDE DEF ins
<1>5. /\ k \in LeafIndex /\ k < n /\ k \in 0 .. n - 1 /\ n \in LeafIndex
      /\ v \in Nat /\ v < HighestAddress /\ leaves[k].value < v
      /\ leaves[k].next_index # 0 => v < leaves[k].next_value
      /\ ins.value = v /\ ins.low_next_value = leaves[k].next_value
      /\ ins.next_index = leaves[k].next_index
      /\ ProofIn(proof, leaves, k)
  BY <1>2 DEF AcceptedAt
<1>6. NewLowElement(ins) = [index |-> k, value |-> leaves[k].value, next_index |-> n]
  BY <1>2, SetNextIndex DEF AcceptedAt, NewLowElement
<1>7. NewElement(ins) = [index |-> n, value |-> v, next_index |-> leaves[k].next_index]
  BY <1>5 DEF NewElement
<1>8. /\ a = [value |-> leaves[k].value, next_index |-> n, next_value |-> v]
      /\ b = [value |-> v, next_index |-> leaves[k].next_index, next_value |-> leaves[k].next_value]
  BY <1>5, <1>6, <1>7 DEF hash
<1> HIDE DEF a, b, proof
<1>9. TreeInv(tree', lvs2) /\ tree'.next_index = n + 1
  <2> DEFINE w == u
  <2> HIDE DEF w
  <2>1. /\ TreeInv(append_batch(w, <<b>>), [leaves EXCEPT ![k] = a, ![n] = b])
        /\ append_batch(w, <<b>>).next_index = n + 1
    <3>1. w = update_leaf_in_tree(tree, a, k, proof)
      BY DEF w
    <3>2. TreeInv(tree, leaves)
      BY DEF IndexedInv
    <3> QED
      BY <1>5, <3>1, <3>2, ChangeAndAppend
  <2> QED
    BY <1>3, <2>1 DEF w
<1>10. ListInv(leaves, n) /\ ArrayIn(relayer.indexed_array, leaves, n)
       /\ relayer.merkle_tree = leaves /\ DOMAIN leaves = LeafIndex
  <2>1. leaves = [i \in LeafIndex |-> leaves[i]]
    BY DEF IndexedInv, TreeInv
  <2> QED
    BY <2>1 DEF IndexedInv, CopyInv
<1>11. /\ ArrayIn(Relay(relayer, k, v).indexed_array, lvs2, n + 1)
       /\ Relay(relayer, k, v).merkle_tree = lvs2
       /\ Inserted(leaves, lvs2, n, k, v)
  <2>1. lvs2 = [leaves EXCEPT ![k] = a, ![n] = b]
    OBVIOUS
  <2> HIDE DEF lvs2, k, n, v
  <2>2. Relayed(Relay(relayer, k, v), leaves, lvs2, n, k, v)
    BY <1>5, <1>8, <1>10, <2>1, RelayInv
  <2> QED
    BY <2>2 DEF Relayed
<1>12. /\ v < leaves[k].next_value
       /\ \A j \in 0 .. n - 1 : leaves[j].value # v
  BY <1>5, <1>10, Fresh
<1>13. find_low_element_index_for_nonexistent(relayer.indexed_array, v) = k
  BY <1>5, <1>10, <1>12, FindLow
<1>14. relayer' = Relay(relayer, k, v)
  BY <1>4, <1>13 DEF RelayInsertion
<1>15. ListInv(lvs2, n + 1)
  <2> HIDE DEF lvs2
  <2> QED
    BY <1>5, <1>10, <1>11, ListInsert
<1>16. IsChangelog(indexed_changelog')
  <2> DEFINE x == IndexedChangelogEntry(NewLowElement(ins), ins.value, proof, u.changelog.last_index)
             y == IndexedChangelogEntry(NewElement(ins), ins.low_next_value, AppendProof(u),
                                        tree'.changelog.last_index)
  <2>0. k \in Nat /\ n \in Nat
    BY <1>5, AboveBound
  <2>1. IsEntry(x)
    BY <1>6, <2>0 DEF IsEntry, IndexedChangelogEntry
  <2>2. IsEntry(y)
    BY <1>7, <2>0 DEF IsEntry, IndexedChangelogEntry
  <2>3. PushEntries(x, y)
    BY <1>3
  <2> HIDE DEF x, y
  <2>4. IsChangelog(Push(indexed_changelog, IndexedChangelogCapacity, x))
    BY <2>1, EntryPush DEF IndexedInv
  <2> QED
    BY <2>2, <2>3, <2>4, EntryPush DEF PushEntries
<1>17. InsertRequestsInv'
  <2>1. requests = [d \in Client |-> requests[d]]
    BY DEF IndexedInv, InsertRequestsInv
  <2>2. requests' = [d \in Client |-> requests'[d]]
        /\ \A d \in Client : requests'[d] = None \/ requests'[d] = requests[d]
    BY <1>4, <2>1
  <2> QED
    BY <2>2 DEF IndexedInv, InsertRequestsInv, IsInsertRequest
<1>18. Records(lvs2, n + 1)
  <2>1. lvs2[k] = a /\ lvs2[n] = b /\ \A i \in LeafIndex : i # k /\ i # n => lvs2[i] = leaves[i]
    BY <1>5, <1>10
  <2>2. n \in Nat /\ \A i \in 0 .. (n + 1) - 1 : i = n \/ (i \in 0 .. n - 1 /\ i \in LeafIndex)
    <3>1. Pow2[Height] \in Nat
      BY Pow2Values, LevelFacts
    <3> QED
      BY <1>5, <3>1 DEF LeafIndex
  <2> HIDE DEF lvs2
  <2>3. ASSUME NEW i \in 0 .. (n + 1) - 1
        PROVE  lvs2[i] = [value      |-> lvs2[i].value,
                          next_index |-> lvs2[i].next_index,
                          next_value |-> lvs2[i].next_value]
    <3>1. CASE i = n
      BY <1>8, <2>1, <3>1
    <3>2. CASE i # n /\ i = k
      BY <1>8, <2>1, <3>2
    <3>3. CASE i # n /\ i # k
      BY <2>1, <2>2, <3>3 DEF IndexedInv, Records
    <3> QED
      BY <3>1, <3>2, <3>3
  <2> QED
    BY <2>3 DEF Records
<1> HIDE DEF lvs2
<1>19. IndexedInv'
  <2>1. /\ TreeInv(tree', leaves') /\ ListInv(leaves', tree'.next_index)
        /\ Records(leaves', tree'.next_index)
    BY <1>3, <1>9, <1>15, <1>18
  <2>2. CopyInv'
    BY <1>3, <1>9, <1>11, <1>14 DEF CopyInv
  <2> QED
    BY <1>16, <1>17, <2>1, <2>2 DEF IndexedInv
<1> QED
  BY <1>1, <1>3, <1>5, <1>9, <1>11, <1>12, <1>19

\* The array of init: 0 and the highest address.
LEMMA InitArrayFacts ==
    /\ InitArray.current_node_index = 1
    /\ DOMAIN InitArray.elements = 0 .. 1
    /\ InitArray.elements[0] = [index |-> 0, value |-> 0, next_index |-> 1]
    /\ InitArray.elements[1] = [index |-> 1, value |-> HighestAddress, next_index |-> 0]
    /\ hash_element(InitArray, 0) = [value |-> 0, next_index |-> 1, next_value |-> HighestAddress]
    /\ hash_element(InitArray, 1) = [value |-> HighestAddress, next_index |-> 0, next_value |-> 0]
<1> DEFINE H == HighestAddress
           D == Default
           e == D.elements[0]
<1>1. /\ e = [index |-> 0, value |-> 0, next_index |-> 0] /\ DOMAIN D.elements = {0}
      /\ D.current_node_index = 0 /\ D.highest_element_index = 0
  BY DEF Default, IndexedElement
<1>2. H \in Nat \ {0}
  BY IndexedAssumption
<1> HIDE DEF D
<1>3. e.value = 0 /\ e.next_index = 0 /\ NextValue(D, e) = 0
  BY <1>1 DEF NextValue
<1>4. find_low_element_index_for_nonexistent(D, H) = 0
  <2> DEFINE low == {i \in DOMAIN D.elements :
                       D.elements[i].value < H /\ NextValue(D, D.elements[i]) > H}
  <2>1. low = {}
    BY <1>1, <1>2, <1>3
  <2> HIDE DEF low
  <2>2. find_low_element_index_for_nonexistent(D, H)
          = IF low = {} THEN D.highest_element_index ELSE Min(low)
    BY DEF find_low_element_index_for_nonexistent, low
  <2> QED
    BY <1>1, <2>1, <2>2
<1> DEFINE bundle == new_element_with_low_element_index(D, 0, H)
           element == [index |-> 1, value |-> H, next_index |-> 0]
           low == [index |-> 0, value |-> 0, next_index |-> 1]
<1>5. D.current_node_index + 1 = 1
  BY <1>1
<1>6. [e EXCEPT !.next_index = 1] = low
  BY <1>1, SetNextIndex
<1>7. bundle.new_element = element /\ bundle.new_low_element = low
  BY <1>3, <1>5, <1>6 DEF new_element_with_low_element_index, IndexedElement
<1>8. bundle.new_element.index = 1
  BY <1>7
<1> HIDE DEF bundle, element, low
<1> DEFINE elements == [i \in 0 .. 1 |-> IF i = 1 THEN element ELSE IF i = 0 THEN low ELSE D.elements[i]]
<1>9. append_with_low_element_index(D, 0, H)
        = [elements              |-> elements,
           current_node_index    |-> 1,
           highest_element_index |-> IF D.elements[0].next_index = 0 THEN 1
                                     ELSE D.highest_element_index]
  BY <1>7, <1>8 DEF append_with_low_element_index, bundle
<1>10. InitArray = append_with_low_element_index(D, 0, H)
  BY <1>4 DEF InitArray, append, D
<1>11. elements[0] = low /\ elements[1] = element /\ DOMAIN elements = 0 .. 1
  OBVIOUS
<1> DEFINE arr == InitArray
<1> HIDE DEF arr, elements
<1>12. arr.elements = elements /\ arr.current_node_index = 1
  BY <1>9, <1>10 DEF arr
<1>13. arr.elements[0] = low /\ arr.elements[1] = element /\ DOMAIN arr.elements = 0 .. 1
  BY <1>11, <1>12
<1>14. /\ arr.elements[0] = [index |-> 0, value |-> 0, next_index |-> 1]
       /\ arr.elements[1] = [index |-> 1, value |-> H, next_index |-> 0]
  BY <1>13 DEF low, element
<1>15. NextValue(arr, arr.elements[0]) = H /\ NextValue(arr, arr.elements[1]) = 0
  BY <1>14 DEF NextValue
<1>16. /\ hash_element(arr, 0) = [value |-> 0, next_index |-> 1, next_value |-> H]
       /\ hash_element(arr, 1) = [value |-> H, next_index |-> 0, next_value |-> 0]
  BY <1>14, <1>15 DEF hash_element, hash
<1> QED
  BY <1>12, <1>13, <1>14, <1>16 DEF arr

\* The tree with the lowest and the highest element satisfies the invariant.
LEMMA IndexedInitInv ==
    IndexedInit => /\ IndexedInv
                   /\ tree.next_index = 2 /\ tree.sequence_number \in Nat
                   /\ leaves[0].value = 0 /\ leaves[1].value = HighestAddress
<1> SUFFICES ASSUME IndexedInit
             PROVE  /\ IndexedInv
                    /\ tree.next_index = 2 /\ tree.sequence_number \in Nat
                    /\ leaves[0].value = 0 /\ leaves[1].value = HighestAddress
  OBVIOUS
<1> DEFINE zero == [i \in LeafIndex |-> Zero]
           x == hash(Lowest, 0)
           inited == append_batch(NewTree, <<x>>)
           low == InitArray.elements[0]
           highest == InitArray.elements[1]
           a == hash(low, HighestAddress)
           b == hash(highest, 0)
           u == update_leaf_in_tree(inited, a, 0, ZeroBytes)
           added == append_batch(u, <<b>>)
           first == IndexedChangelogEntry(Lowest, 0, ZeroBytes, 0)
           second == IndexedChangelogEntry(low, HighestAddress, ZeroBytes, u.changelog.last_index)
           third == IndexedChangelogEntry(highest, 0, AppendProof(u), added.changelog.last_index)
           c == IndexedChangelogCapacity
           one == [zero EXCEPT ![0] = x]
<1>1. /\ tree = added
      /\ indexed_changelog = Push(Push(Push(Push(EmptyVec, c, first), c, first), c, second), c, third)
      /\ leaves = [i \in LeafIndex |-> IF i <= 1 THEN hash_element(InitArray, i) ELSE Zero]
      /\ relayer = [indexed_array |-> InitArray, merkle_tree |-> leaves]
      /\ requests = [d \in Client |-> None]
  BY DEF IndexedInit
<1>2. /\ 0 \in LeafIndex /\ 1 \in LeafIndex /\ \A i \in LeafIndex : i \in Nat
  <2>1. Height - 1 \in 0 .. Height + 1 /\ Height \in 0 .. Height + 1 /\ Height # 0
    BY SizeConstraints
  <2>2. Pow2[Height] = 2 * Pow2[Height - 1] /\ Pow2[Height - 1] \in Nat \ {0}
    BY <2>1, SizeConstraints, Pow2Values
  <2> QED
    BY <2>2 DEF LeafIndex
<1>3. InitArray.current_node_index = 1 /\ DOMAIN InitArray.elements = 0 .. 1
      /\ low = [index |-> 0, value |-> 0, next_index |-> 1]
      /\ highest = [index |-> 1, value |-> HighestAddress, next_index |-> 0]
  BY InitArrayFacts
<1>4. /\ a = [value |-> 0, next_index |-> 1, next_value |-> HighestAddress]
      /\ b = [value |-> HighestAddress, next_index |-> 0, next_value |-> 0]
  BY <1>3 DEF hash
<1>5. Lowest.index = 0
  BY DEF Lowest, Default, IndexedElement
<1>6. NewTree.next_index = 0 /\ NewTree.sequence_number = 0
  BY DEF NewTree
<1> HIDE DEF low, highest, a, b, x, first, second, third, zero
<1>7. TreeInv(inited, one) /\ inited.next_index = 1 /\ inited.sequence_number = 1
  <2>1. TreeInv(NewTree, zero)
    BY NewTreeInv DEF zero
  <2>2. NewTree.next_index \in LeafIndex
    BY <1>2, <1>6
  <2>3. /\ TreeInv(inited, [zero EXCEPT ![NewTree.next_index] = x])
        /\ inited.next_index = NewTree.next_index + 1
        /\ NewTree.sequence_number \in Nat =>
              inited.sequence_number = NewTree.sequence_number + 1
    BY <2>1, <2>2, AppendOne
  <2> HIDE DEF inited
  <2>4. inited.sequence_number = 1 /\ inited.next_index = 1
    <3>1. NewTree.sequence_number \in Nat /\ NewTree.sequence_number + 1 = 1
          /\ NewTree.next_index + 1 = 1
      BY <1>6
    <3> QED
      BY <2>3, <3>1
  <2>5. TreeInv(inited, one)
    BY <1>6, <2>3
  <2> QED
    BY <2>4, <2>5
<1>8. one[0] = x /\ \A i \in LeafIndex : i # 0 => one[i] = Zero
  BY <1>2 DEF zero
<1> HIDE DEF one, inited
<1>9. ProofIn(ZeroBytes, one, 0)
  <2>1. ASSUME NEW l \in Level PROVE ZeroBytes[l] = NodesOf(one)[l][SiblingIndex(0, l)]
    <3> DEFINE s == SiblingIndex(0, l)
    <3>1. s \in 0 .. Pow2[Height - l] - 1 /\ s # Above(0, l) /\ l \in 0 .. Height
      BY <1>2, ParentNode, Siblings, LevelFacts
    <3>2. ASSUME NEW i \in LeafIndex, Above(i, l) = s PROVE one[i] = Zero
      BY <1>8, <3>1, <3>2
    <3> HIDE DEF s
    <3>3. NodesOf(one)[l][s] = ZeroBytes[l]
      BY <3>1, <3>2, ZeroNodes
    <3> QED
      BY <3>3 DEF s
  <2> QED
    BY <2>1 DEF ProofIn
<1>10. /\ TreeInv(added, [one EXCEPT ![0] = a, ![1] = b]) /\ added.next_index = 2
       /\ added.sequence_number = 3
  <2> DEFINE w == u
  <2> HIDE DEF w
  <2>1. w = update_leaf_in_tree(inited, a, 0, ZeroBytes) /\ inited.next_index \in LeafIndex
        /\ 0 < inited.next_index
    BY <1>2, <1>7 DEF w
  <2>2. /\ TreeInv(append_batch(w, <<b>>), [one EXCEPT ![0] = a, ![inited.next_index] = b])
        /\ append_batch(w, <<b>>).next_index = inited.next_index + 1
        /\ inited.sequence_number \in Nat =>
              append_batch(w, <<b>>).sequence_number = inited.sequence_number + 2
    BY <1>2, <1>7, <1>9, <2>1, ChangeAndAppend
  <2> QED
    BY <1>7, <2>2 DEF w
<1>11. leaves = [one EXCEPT ![0] = a, ![1] = b]
  <2>1. one = [i \in LeafIndex |-> one[i]]
    BY <1>7 DEF TreeInv
  <2>2. hash_element(InitArray, 0) = a /\ hash_element(InitArray, 1) = b
    BY <1>4, InitArrayFacts
  <2> DEFINE new == [i \in LeafIndex |-> IF i = 1 THEN b ELSE IF i = 0 THEN a ELSE one[i]]
  <2>3. [one EXCEPT ![0] = a, ![1] = b] = new
    BY <2>1
  <2>4. ASSUME NEW i \in LeafIndex
        PROVE  (IF i <= 1 THEN hash_element(InitArray, i) ELSE Zero)
                 = IF i = 1 THEN b ELSE IF i = 0 THEN a ELSE one[i]
    BY <1>2, <1>8, <2>2
  <2>5. leaves = new
    BY <1>1, <2>4
  <2> QED
    BY <2>3, <2>5
<1>12. TreeInv(tree, leaves) /\ tree.next_index = 2 /\ tree.sequence_number \in Nat
  <2> HIDE DEF added
  <2>1. tree = added
    BY <1>1
  <2>2. tree.sequence_number = 3
    BY <1>10, <2>1
  <2>3. TreeInv(tree, leaves) /\ tree.next_index = 2
    BY <1>10, <1>11, <2>1
  <2> QED
    BY <2>2, <2>3
<1>13. leaves[0] = a /\ leaves[1] = b
  <2>1. hash_element(InitArray, 0) = a /\ hash_element(InitArray, 1) = b
    BY <1>4, InitArrayFacts
  <2> QED
    BY <1>1, <1>2, <2>1
<1>14. /\ leaves[0].value = 0 /\ leaves[0].next_index = 1 /\ leaves[0].next_value = HighestAddress
       /\ leaves[1].value = HighestAddress /\ leaves[1].next_index = 0 /\ leaves[1].next_value = 0
  BY <1>4, <1>13
<1>15. ListInv(leaves, 2)
  <2>1. \A i \in 0 .. 2 - 1 : i = 0 \/ i = 1
    OBVIOUS
  <2>2. HighestAddress \in Nat \ {0}
    BY IndexedAssumption
  <2>3. Typed(leaves, 2)
    BY <1>14, <2>1, <2>2 DEF Typed
  <2>4. Distinct(leaves, 2)
    BY <1>14, <2>1, <2>2 DEF Distinct
  <2>5. Linked(leaves, 2)
    BY <1>14, <2>1 DEF Linked
  <2>6. Ordered(leaves, 2)
    BY <1>14, <2>1, <2>2 DEF Ordered
  <2> QED
    BY <1>14, <2>3, <2>4, <2>5, <2>6 DEF ListInv
<1>16. IsChangelog(indexed_changelog)
  <2>1. IsEntry(first)
    BY <1>5 DEF IsEntry, first, IndexedChangelogEntry
  <2>2. IsEntry(second)
    BY <1>3 DEF IsEntry, second, IndexedChangelogEntry
  <2>3. IsEntry(third)
    BY <1>3 DEF IsEntry, third, IndexedChangelogEntry
  <2>4. IsChangelog(Push(EmptyVec, c, first))
    BY <2>1, FirstEntry
  <2>5. IsChangelog(Push(Push(EmptyVec, c, first), c, first))
    BY <2>1, <2>4, EntryPush
  <2>6. IsChangelog(Push(Push(Push(EmptyVec, c, first), c, first), c, second))
    BY <2>2, <2>5, EntryPush
  <2> QED
    BY <1>1, <2>3, <2>6, EntryPush
<1>17. InsertRequestsInv
  BY <1>1 DEF InsertRequestsInv
<1>18. CopyInv
  <2>1. \A i \in 0 .. 2 - 1 : i = 0 \/ i = 1
    OBVIOUS
  <2>2. relayer.merkle_tree = leaves /\ relayer.indexed_array = InitArray
    BY <1>1
  <2>3. ASSUME NEW i \in 0 .. 2 - 1 PROVE ElementIn(InitArray.elements[i], leaves, i)
    BY <1>3, <1>14, <2>1 DEF ElementIn, low, highest
  <2>4. ArrayIn(InitArray, leaves, 2)
    BY <1>3, <2>3 DEF ArrayIn
  <2> QED
    BY <1>12, <2>2, <2>4 DEF CopyInv
<1>19. Records(leaves, 2)
  <2>1. \A i \in 0 .. 2 - 1 : i = 0 \/ i = 1
    OBVIOUS
  <2> QED
    BY <1>4, <1>13, <2>1 DEF Records
<1> QED
  BY <1>12, <1>14, <1>15, <1>16, <1>17, <1>18, <1>19 DEF IndexedInv

\* Every step of the indexed tree and of its clients preserves the invariant.
LEMMA IndexedNextInv ==
    IndexedInv /\ [IndexedNext]_indexed_vars => IndexedInv'
<1> SUFFICES ASSUME IndexedInv, [IndexedNext]_indexed_vars PROVE IndexedInv'
  OBVIOUS
<1>0. requests = [c \in Client |-> requests[c]]
  BY DEF IndexedInv, InsertRequestsInv
<1>1. ASSUME NEW c \in Client, NEW value \in Address, NEW i \in LeafIndex,
             FetchLowElement(c, value, i)
      PROVE  IndexedInv'
  <2> DEFINE r == [value                   |-> value,
                   low_element             |-> [index      |-> i,
                                                value      |-> leaves[i].value,
                                                next_index |-> leaves[i].next_index],
                   low_next_value          |-> leaves[i].next_value,
                   proof                   |-> [l \in NetLevel |->
                                                  NodesOf(leaves)[l][SiblingIndex(i, l)]],
                   changelog_index         |-> tree.changelog.last_index,
                   indexed_changelog_index |-> indexed_changelog.last_index,
                   sequence_number         |-> tree.sequence_number]
  <2>1. requests' = [requests EXCEPT ![c] = r]
        /\ UNCHANGED <<tree, indexed_changelog, leaves, relayer>>
    BY <1>1 DEF FetchLowElement
  <2>2. i \in Nat /\ indexed_changelog.last_index \in Nat
    <3>1. indexed_changelog.last_index \in 0 .. Len(indexed_changelog.data) - 1
          /\ Len(indexed_changelog.data) \in 1 .. IndexedChangelogCapacity
      BY DEF IndexedInv, IsChangelog, IsRing
    <3> QED
      BY <3>1, AboveBound
  <2>3. r.value = value /\ r.indexed_changelog_index = indexed_changelog.last_index
        /\ r.low_element = [index      |-> i,
                            value      |-> leaves[i].value,
                            next_index |-> leaves[i].next_index]
    OBVIOUS
  <2> HIDE DEF r
  <2>4. IsInsertRequest(r) /\ r.value \in Address
    BY <2>2, <2>3 DEF IsInsertRequest
  <2>5. requests' = [d \in Client |-> requests'[d]]
        /\ \A d \in Client : requests'[d] = r \/ requests'[d] = requests[d]
    BY <1>0, <2>1
  <2>6. InsertRequestsInv'
    <3>1. ASSUME NEW d \in Client, requests'[d] # None
          PROVE  IsInsertRequest(requests'[d]) /\ requests'[d].value \in Address
      BY <2>4, <2>5, <3>1 DEF IndexedInv, InsertRequestsInv
    <3> QED
      BY <2>5, <3>1 DEF InsertRequestsInv, IsInsertRequest
  <2>7. CopyInv'
    BY <2>1 DEF IndexedInv, CopyInv
  <2> QED
    BY <2>1, <2>6, <2>7 DEF IndexedInv
<1>2. ASSUME NEW c \in Client, Insert(c) PROVE IndexedInv'
  BY <1>2, InsertStep
<1>3. ASSUME NEW c \in Client, InsertFails(c) PROVE IndexedInv'
  <2>1. requests' = [requests EXCEPT ![c] = None]
        /\ UNCHANGED <<tree, indexed_changelog, leaves, relayer>>
    BY <1>3 DEF InsertFails
  <2>2. requests' = [d \in Client |-> requests'[d]]
        /\ \A d \in Client : requests'[d] = None \/ requests'[d] = requests[d]
    BY <1>0, <2>1
  <2>3. InsertRequestsInv'
    BY <2>2 DEF IndexedInv, InsertRequestsInv, IsInsertRequest
  <2>4. CopyInv'
    BY <2>1 DEF IndexedInv, CopyInv
  <2> QED
    BY <2>1, <2>3, <2>4 DEF IndexedInv
<1>4. CASE UNCHANGED indexed_vars
  <2>1. UNCHANGED <<tree, indexed_changelog, leaves, requests, relayer>>
    BY <1>4 DEF indexed_vars
  <2>2. InsertRequestsInv' /\ CopyInv'
    BY <2>1 DEF IndexedInv, InsertRequestsInv, IsInsertRequest, CopyInv
  <2> QED
    BY <2>1, <2>2 DEF IndexedInv
<1> QED
  BY <1>1, <1>2, <1>3, <1>4 DEF IndexedNext

\* IndexedInv is an invariant.
LEMMA IndexedAlways ==
    IndexedSpec => []IndexedInv
BY IndexedInitInv, IndexedNextInv, PTL DEF IndexedSpec

\* Whatever the order in which insertions arrive and however old they are, the
\* elements of the address tree form one sorted list from 0 to the highest
\* address (indexed_merkle_tree.update with its patched low element).
THEOREM AddressesStaySorted ==
    IndexedSpec => []SortedList
<1>1. IndexedInv => SortedList
  <2> SUFFICES ASSUME IndexedInv, NEW i \in Elements
               PROVE  /\ leaves[i].next_value = leaves[leaves[i].next_index].value
                      /\ IF leaves[i].value = HighestAddress THEN leaves[i].next_index = 0
                         ELSE /\ leaves[i].value < leaves[i].next_value
                              /\ \A v \in Values : ~(leaves[i].value < v /\ v < leaves[i].next_value)
    BY DEF SortedList
  <2>1. i \in 0 .. tree.next_index - 1 /\ ListInv(leaves, tree.next_index)
    BY DEF Elements, IndexedInv
  <2>2. leaves[i].next_value = leaves[leaves[i].next_index].value
    BY <2>1 DEF ListInv, Linked
  <2>3. IF leaves[i].value = HighestAddress THEN leaves[i].next_index = 0
        ELSE /\ leaves[i].value < leaves[i].next_value
             /\ \A j \in Elements :
                    ~(leaves[i].value < leaves[j].value /\ leaves[j].value < leaves[i].next_value)
    BY <2>1 DEF ListInv, Ordered, Elements
  <2> QED
    BY <2>2, <2>3 DEF Values
<1> QED
  BY <1>1, IndexedAlways, PTL

\* The copy the foresters keep has the leaves of the tree on chain and finds
\* the low element of every address that is not in it (array.rs and
\* reference.rs against indexed_merkle_tree.update).
THEOREM CopiesFollow ==
    IndexedSpec => []CopyFollowsChain
<1>1. IndexedInv => CopyFollowsChain
  <2> SUFFICES ASSUME IndexedInv PROVE CopyFollowsChain
    OBVIOUS
  <2> DEFINE n == tree.next_index
             arr == relayer.indexed_array
  <2>1. /\ ListInv(leaves, n) /\ ArrayIn(arr, leaves, n) /\ relayer.merkle_tree = leaves
        /\ leaves = [i \in LeafIndex |-> leaves[i]] /\ n \in 0 .. Pow2[Height]
    BY DEF IndexedInv, CopyInv, TreeInv, Appendable
  <2>2. ASSUME NEW i \in Elements PROVE hash_element(arr, i) = leaves[i]
    <3>1. i \in 0 .. n - 1
      BY DEF Elements
    <3>2. /\ arr.elements[i].value = leaves[i].value
          /\ arr.elements[i].next_index = leaves[i].next_index
          /\ NextValue(arr, arr.elements[i]) = leaves[i].next_value
      BY <2>1, <3>1, ArrayFacts
    <3>3. leaves[i] = [value |-> leaves[i].value, next_index |-> leaves[i].next_index,
                       next_value |-> leaves[i].next_value]
      BY <3>1 DEF IndexedInv, Records
    <3> QED
      BY <3>2, <3>3 DEF hash_element, hash
  <2>3. ASSUME NEW v \in Address \ Values,
               NEW low, low = find_low_element_for_nonexistent(arr, v)
        PROVE  low.value < v /\ v < NextValue(arr, low)
    <3>1. v \in Nat /\ v > 0 /\ v < HighestAddress
      BY IndexedAssumption
    <3>2. \A i \in 0 .. n - 1 : leaves[i].value # v
      BY DEF Values, Elements
    <3>3. PICK k \in 0 .. n - 1 : leaves[k].value < v /\ v < leaves[k].next_value
      BY <2>1, <3>1, <3>2, LowExists
    <3>4. low = arr.elements[k]
      BY <2>1, <2>3, <3>1, <3>3, FindLow DEF find_low_element_for_nonexistent
    <3>5. arr.elements[k].value = leaves[k].value
          /\ NextValue(arr, arr.elements[k]) = leaves[k].next_value
      BY <2>1, ArrayFacts
    <3> QED
      BY <3>3, <3>4, <3>5
  <2> QED
    BY <2>1, <2>2, <2>3 DEF CopyFollowsChain
<1> QED
  BY <1>1, IndexedAlways, PTL

\* An address counts as often as it is in the list.
Held(a) == {i \in Elements : leaves[i].value = a}
Counts == [a \in Address |-> Cardinality(Held(a))]

\* An accepted insertion adds an address that was not there, once.
LEMMA CountsAfterInsert ==
    ASSUME IndexedInv, NEW c \in Client, Insert(c), NEW v, v = requests[c].value
    PROVE  /\ v \in Address /\ Counts[v] = 0
           /\ Counts' = [a \in Address |-> IF a \in {v} THEN Counts[a] + 1 ELSE Counts[a]]
<1> DEFINE n == tree.next_index
<1>1. PICK k \in 0 .. n - 1 : Inserted(leaves, leaves', n, k, v)
  BY InsertStep
<1>2. /\ \A j \in 0 .. n - 1 : leaves[j].value # v
      /\ tree'.next_index = n + 1 /\ v \in Address
  BY InsertStep
<1>3. n \in Nat
  BY DEF IndexedInv, ListInv
<1>4. /\ leaves'[n].value = v
      /\ \A i \in 0 .. n - 1 : leaves'[i].value = leaves[i].value
  BY <1>1 DEF Inserted
<1>5. Elements = 0 .. n - 1 /\ Elements' = 0 .. n /\ 0 .. n = (0 .. n - 1) \cup {n}
      /\ n \notin 0 .. n - 1
  <2>1. (n + 1) - 1 = n
    BY <1>3
  <2>2. Elements = 0 .. n - 1 /\ Elements' = 0 .. n
    BY <1>2, <2>1 DEF Elements
  <2> QED
    BY <1>3, <2>2
<1>6. Held(v) = {} /\ Counts[v] = 0
  <2>1. Held(v) = {}
    BY <1>2, <1>5 DEF Held
  <2> QED
    BY <1>2, <2>1, FS_EmptySet DEF Counts
<1>7. Held(v)' = {n} /\ Cardinality({n}) = 1
  <2>1. Held(v)' = {i \in 0 .. n : leaves'[i].value = v}
    BY <1>5 DEF Held
  <2>2. Held(v)' = {n}
    BY <1>2, <1>4, <1>5, <2>1
  <2> QED
    BY <2>2, FS_Singleton
<1>8. ASSUME NEW a \in Address, a # v PROVE Held(a)' = Held(a)
  <2>1. Held(a)' = {i \in 0 .. n : leaves'[i].value = a}
    BY <1>5 DEF Held
  <2>2. Held(a) = {i \in 0 .. n - 1 : leaves[i].value = a}
    BY <1>5 DEF Held
  <2> QED
    BY <1>4, <1>5, <1>8, <2>1, <2>2
<1>9. Counts' = [a \in Address |-> Cardinality(Held(a)')]
  BY DEF Counts
<1>10. ASSUME NEW a \in Address
       PROVE  Cardinality(Held(a)') = IF a \in {v} THEN Counts[a] + 1 ELSE Counts[a]
  <2>1. CASE a = v
    <3>1. Cardinality(Held(a)') = 1
      BY <1>7, <2>1
    <3> QED
      BY <1>6, <2>1, <3>1
  <2>2. CASE a # v
    <3>1. Counts[a] = Cardinality(Held(a))
      BY DEF Counts
    <3> QED
      BY <1>8, <2>2, <3>1
  <2> QED
    BY <2>1, <2>2
<1> QED
  BY <1>2, <1>6, <1>9, <1>10

\* The tree alone implements the set of addresses: an insertion that is
\* accepted creates an address that was not there, and none is lost or created
\* twice, however often requests for it are sent.
THEOREM AddressesInsertedOnce ==
    IndexedSpec => InsertedOnce
<1>1. IndexedInit => Counts = [a \in Address |-> 0]
  <2> SUFFICES ASSUME IndexedInit PROVE Counts = [a \in Address |-> 0]
    OBVIOUS
  <2>1. Elements = 0 .. 1 /\ leaves[0].value = 0 /\ leaves[1].value = HighestAddress
    BY IndexedInitInv DEF Elements
  <2>2. ASSUME NEW a \in Address PROVE Held(a) = {}
    <3>1. a # 0 /\ a # HighestAddress
      BY IndexedAssumption
    <3> QED
      BY <2>1, <3>1 DEF Held
  <2> QED
    BY <2>2, FS_EmptySet DEF Counts
<1>2. ASSUME IndexedInv, [IndexedNext]_indexed_vars
      PROVE  \/ \E news \in SUBSET {a \in Address : Counts[a] = 0} :
                    Counts' = [a \in Address |-> IF a \in news THEN Counts[a] + 1 ELSE Counts[a]]
             \/ Counts' = Counts
  <2>1. ASSUME NEW c \in Client, Insert(c)
        PROVE  \E news \in SUBSET {a \in Address : Counts[a] = 0} :
                    Counts' = [a \in Address |-> IF a \in news THEN Counts[a] + 1 ELSE Counts[a]]
    <3> DEFINE v == requests[c].value
    <3>1. v \in Address /\ Counts[v] = 0
          /\ Counts' = [a \in Address |-> IF a \in {v} THEN Counts[a] + 1 ELSE Counts[a]]
      BY <1>2, <2>1, CountsAfterInsert
    <3>2. {v} \in SUBSET {a \in Address : Counts[a] = 0}
      BY <3>1
    <3> QED
      BY <3>1, <3>2
  <2>2. CASE UNCHANGED <<tree, leaves>>
    BY <2>2 DEF Counts, Held, Elements
  <2>3. ASSUME NEW c \in Client, NEW value \in Address, NEW i \in LeafIndex,
               FetchLowElement(c, value, i)
        PROVE  UNCHANGED <<tree, leaves>>
    BY <2>3 DEF FetchLowElement
  <2>4. ASSUME NEW c \in Client, InsertFails(c) PROVE UNCHANGED <<tree, leaves>>
    BY <2>4 DEF InsertFails
  <2>5. CASE UNCHANGED indexed_vars
    BY <2>2, <2>5 DEF indexed_vars
  <2> QED
    BY <1>2, <2>1, <2>2, <2>3, <2>4, <2>5 DEF IndexedNext
<1>3. IndexedInit => Addresses!Init
  BY <1>1 DEF Addresses!Init, Counts, Held
<1>4. IndexedInv /\ [IndexedNext]_indexed_vars => Addresses!Create \/ Counts' = Counts
  BY <1>2 DEF Addresses!Create, Counts, Held
<1>5. IndexedInv /\ [IndexedNext]_indexed_vars
        => [Addresses!Create]_([a \in Address |->
                                 Cardinality({i \in Elements : leaves[i].value = a})])
  BY <1>4 DEF Counts, Held
<1> QED
  BY <1>3, <1>5, IndexedAlways, PTL DEF IndexedSpec, InsertedOnce, Addresses!Spec

-----------------------------------------------------------------------------
\* Stale insertions: what patch_elements_and_proof makes of a request.

\* An insertion that is about the low element as it is on chain now.
CurrentAt(ins, v, k, lvs, n) ==
    /\ ins = [value           |-> v,
              next_index      |-> lvs[k].next_index,
              low_element     |-> [index      |-> k,
                                   value      |-> lvs[k].value,
                                   next_index |-> lvs[k].next_index],
              low_next_value  |-> lvs[k].next_value,
              proof           |-> ins.proof,
              changelog_index |-> ins.changelog_index,
              switched        |-> FALSE]
    /\ k \in 0 .. n - 1 /\ lvs[k].value < v /\ v < lvs[k].next_value

\* The two entries that an insertion of w behind element j writes.
LowEntry(x, lvs, n, j, w) ==
    x.element = [index |-> j, value |-> lvs[j].value, next_index |-> n, next_value |-> w]
NewEntry(y, lvs, n, j, w) ==
    y.element = [index |-> n, value |-> w, next_index |-> lvs[j].next_index,
                 next_value |-> lvs[j].next_value]

\* After them the insertion is as it was, or has the low element and the proof
\* of the one or of the other.
PairPatched(out, ins, v, k, x, y, lvs2, n, j) ==
    \/ k # j /\ out = ins /\ CurrentAt(out, v, k, lvs2, n + 1)
    \/ /\ CurrentAt(out, v, j, lvs2, n + 1)
       /\ out.proof = x.proof /\ out.changelog_index = x.changelog_index
    \/ /\ CurrentAt(out, v, n, lvs2, n + 1)
       /\ out.proof = y.proof /\ out.changelog_index = y.changelog_index

\* patch_elements_and_proof follows an insertion of another address: where the
\* low element got a new successor it takes the entry of the low element, or,
\* if the successor is the new low element, the one of the successor.
LEMMA PatchPair ==
    ASSUME NEW lvs, NEW lvs2, NEW n, ListInv(lvs, n), NEW j \in 0 .. n - 1,
           NEW w \in Nat, Inserted(lvs, lvs2, n, j, w),
           NEW v \in Nat, v # w, NEW ins, NEW k, CurrentAt(ins, v, k, lvs, n),
           NEW x, LowEntry(x, lvs, n, j, w), NEW y, NEW z, NewEntry(y, lvs, n, j, w)
    PROVE  PairPatched(Patch(Patch(ins, x, y), y, z), ins, v, k, x, y, lvs2, n, j)
<1> DEFINE mid == Patch(ins, x, y)
           out == Patch(mid, y, z)
<1>1. /\ n \in Nat /\ k \in 0 .. n - 1 /\ k # n /\ j # n /\ n \in 0 .. (n + 1) - 1
      /\ k \in 0 .. (n + 1) - 1 /\ j \in 0 .. (n + 1) - 1
      /\ lvs[k].value < v /\ v < lvs[k].next_value
  <2>1. n \in Nat /\ k \in 0 .. n - 1 /\ lvs[k].value < v /\ v < lvs[k].next_value
    BY DEF ListInv, CurrentAt
  <2> QED
    BY <2>1
<1>2. /\ ins.value = v /\ ins.switched = FALSE /\ ins.low_element.index = k
      /\ ins.low_next_value = lvs[k].next_value
  BY DEF CurrentAt
<1>3. x.element.index = j /\ x.element.value = lvs[j].value /\ x.element.next_index = n
      /\ x.element.next_value = w
  BY DEF LowEntry
<1>4. y.element.index = n /\ y.element.value = w /\ y.element.next_index = lvs[j].next_index
  BY DEF NewEntry
<1>5. CASE k # j
  <2>1. mid = ins
    BY <1>2, <1>3, <1>5 DEF Patch
  <2>2. out = ins
    BY <1>1, <1>2, <1>4, <2>1 DEF Patch
  <2>3. lvs2[k] = lvs[k]
    BY <1>1, <1>5 DEF Inserted
  <2>4. CurrentAt(ins, v, k, lvs2, n + 1)
    BY <1>1, <2>3 DEF CurrentAt
  <2> QED
    BY <1>5, <2>2, <2>4 DEF PairPatched
<1>6. CASE k = j /\ ~(w < v)
  <2>1. mid = PatchLowElement(ins, x)
    BY <1>2, <1>3, <1>6 DEF Patch
  <2>2. mid = [value           |-> v,
               next_index      |-> n,
               low_element     |-> [index |-> j, value |-> lvs[j].value, next_index |-> n],
               low_next_value  |-> w,
               proof           |-> x.proof,
               changelog_index |-> x.changelog_index,
               switched        |-> FALSE]
    BY <1>2, <1>3, <2>1 DEF PatchLowElement, IndexedElement
  <2> HIDE DEF mid
  <2>3. mid.switched = FALSE /\ mid.low_element.index = j /\ mid.proof = x.proof
        /\ mid.changelog_index = x.changelog_index
    BY <2>2
  <2>4. out = mid
    BY <1>1, <1>4, <2>3 DEF Patch
  <2>5. lvs2[j].value = lvs[j].value /\ lvs2[j].next_index = n /\ lvs2[j].next_value = w
    BY DEF Inserted
  <2>6. v < w
    BY <1>6
  <2>7. CurrentAt(mid, v, j, lvs2, n + 1)
    BY <1>1, <1>6, <2>2, <2>3, <2>5, <2>6 DEF CurrentAt
  <2> QED
    BY <2>3, <2>4, <2>7 DEF PairPatched, mid
<1>7. CASE k = j /\ w < v
  <2>1. mid = SwitchLowElement(ins, x, y)
    BY <1>2, <1>3, <1>7 DEF Patch
  <2> DEFINE low == [index |-> n, value |-> w, next_index |-> lvs[j].next_index]
             lit(s) == [value           |-> v,
                        next_index      |-> lvs[j].next_index,
                        low_element     |-> low,
                        low_next_value  |-> lvs[j].next_value,
                        proof           |-> y.proof,
                        changelog_index |-> y.changelog_index,
                        switched        |-> s]
  <2>2. mid = lit(TRUE)
    BY <1>2, <1>3, <1>4, <1>7, <2>1 DEF SwitchLowElement, IndexedElement
  <2> HIDE DEF mid
  <2>3. mid.switched = TRUE
    BY <2>2
  <2>4. out = [mid EXCEPT !.switched = FALSE]
    BY <2>3 DEF Patch
  <2>5. [mid EXCEPT !.switched = FALSE] = lit(FALSE)
    <3> HIDE DEF low
    <3>1. ASSUME NEW s PROVE [mid EXCEPT !.switched = s] = lit(s)
      BY <2>2
    <3> QED
      BY <3>1, Zenon
  <2> HIDE DEF out
  <2>6. out = lit(FALSE)
    BY <2>4, <2>5
  <2>7. lvs2[n].value = w /\ lvs2[n].next_index = lvs[j].next_index
        /\ lvs2[n].next_value = lvs[j].next_value
    BY DEF Inserted
  <2>8. out.proof = y.proof /\ out.changelog_index = y.changelog_index
    BY <2>6
  <2>9. CurrentAt(out, v, n, lvs2, n + 1)
    BY <1>1, <1>7, <2>6, <2>7, <2>8 DEF CurrentAt
  <2> QED
    BY <2>8, <2>9 DEF PairPatched, out, mid
<1> QED
  BY <1>5, <1>6, <1>7

\* The entry behind the last one makes no difference after such a pair.
LEMMA PairEnds ==
    ASSUME NEW lvs, NEW n, ListInv(lvs, n), NEW j, NEW w, NEW v, NEW ins, NEW k,
           CurrentAt(ins, v, k, lvs, n), NEW x, LowEntry(x, lvs, n, j, w), NEW y,
           NewEntry(y, lvs, n, j, w), j \in 0 .. n - 1, NEW z, NEW z2
    PROVE  Patch(Patch(ins, x, y), y, z) = Patch(Patch(ins, x, y), y, z2)
<1> DEFINE mid == Patch(ins, x, y)
<1>1. k # n /\ j # n
  <2>1. n \in Nat /\ k \in 0 .. n - 1
    BY DEF ListInv, CurrentAt
  <2> QED
    BY <2>1
<1>2. ins.switched = FALSE /\ ins.low_element.index = k
  BY DEF CurrentAt
<1>3. y.element.index = n /\ x.element.index = j
  BY DEF LowEntry, NewEntry
<1>4. mid = ins \/ mid = SwitchLowElement(ins, x, y) \/ mid = PatchLowElement(ins, x)
  BY <1>2 DEF Patch
<1>5. mid.switched = TRUE \/ (mid.switched = FALSE /\ mid.low_element.index # n)
  <2>1. CASE mid = ins
    BY <1>1, <1>2, <2>1
  <2>2. CASE mid = SwitchLowElement(ins, x, y)
    BY <2>2 DEF SwitchLowElement
  <2>3. CASE mid = PatchLowElement(ins, x)
    <3> HIDE DEF mid
    <3> QED
      BY <1>1, <1>3, <2>3 DEF PatchLowElement, IndexedElement
  <2> HIDE DEF mid
  <2> QED
    BY <1>4, <2>1, <2>2, <2>3
<1> HIDE DEF mid
<1>6. Patch(mid, y, z) = Patch(mid, y, z2)
  BY <1>3, <1>5 DEF Patch
<1> QED
  BY <1>6 DEF mid
\* The patches along a window, whatever follows the newest entry.
PatchRun(f, r, win, lag) ==
    /\ f[0] = Insertion(r)
    /\ \A k \in 1 .. lag : \A z : (k < lag => z = win[k + 1]) => f[k] = Patch(f[k - 1], win[k], z)

\* Two entries more.
LEMMA RunPair ==
    ASSUME NEW f, NEW r, NEW win, NEW lag \in Nat, PatchRun(f, r, win, lag), NEW x, NEW y,
           \A z, z2 : Patch(Patch(f[lag], x, y), y, z) = Patch(Patch(f[lag], x, y), y, z2)
    PROVE  \E g : /\ PatchRun(g, r, Extended(Extended(win, lag, x), lag + 1, y), lag + 2)
                  /\ \A z : g[lag + 2] = Patch(Patch(f[lag], x, y), y, z)
<1> DEFINE ext == Extended(Extended(win, lag, x), lag + 1, y)
           p == Patch(f[lag], x, y)
           q == Patch(p, y, y)
           g == [k \in 0 .. lag + 2 |-> IF k = lag + 2 THEN q ELSE IF k = lag + 1 THEN p ELSE f[k]]
<1>1. /\ lag + 1 + 1 = lag + 2 /\ lag + 2 \in 0 .. lag + 2 /\ lag + 1 \in 0 .. lag + 2 /\ lag + 1 # lag + 2
      /\ \A k \in 0 .. lag : k \in 0 .. lag + 2 /\ k # lag + 1 /\ k # lag + 2
      /\ \A k \in 1 .. lag : k \in 1 .. lag + 1 /\ k \in 1 .. lag + 2 /\ k # lag + 1 /\ k # lag + 2
                             /\ k \in 0 .. lag /\ k - 1 \in 0 .. lag
      /\ lag + 1 \in 1 .. lag + 1 /\ lag + 1 \in 1 .. lag + 2 /\ lag + 2 \in 1 .. lag + 2
      /\ lag + 2 - 1 = lag + 1 /\ lag + 1 - 1 = lag /\ lag \in 0 .. lag
  OBVIOUS
<1>2. /\ ext[lag + 2] = y /\ ext[lag + 1] = x /\ \A k \in 1 .. lag : ext[k] = win[k]
  <2> DEFINE one == Extended(win, lag, x)
  <2>1. one[lag + 1] = x /\ \A k \in 1 .. lag : one[k] = win[k]
    BY <1>1 DEF Extended
  <2> HIDE DEF one
  <2>2. ext = Extended(one, lag + 1, y)
    BY DEF one
  <2>3. ext = [k \in 1 .. lag + 2 |-> IF k = lag + 2 THEN y ELSE one[k]]
    BY <1>1, <2>2 DEF Extended
  <2> HIDE DEF ext
  <2> QED
    BY <1>1, <2>1, <2>3
<1>3. g[lag + 2] = q /\ g[lag + 1] = p /\ \A k \in 0 .. lag : g[k] = f[k]
  <2> HIDE DEF p, q
  <2> QED
    BY <1>1
<1>4. \A z : q = Patch(p, y, z)
  OBVIOUS
<1> HIDE DEF ext, g
<1>5. ASSUME NEW k \in 1 .. lag + 2, NEW z, k < lag + 2 => z = ext[k + 1]
      PROVE  g[k] = Patch(g[k - 1], ext[k], z)
  <2>1. CASE k = lag + 2
    <3>1. g[k - 1] = p /\ ext[k] = y /\ g[k] = q
      BY <1>1, <1>2, <1>3, <2>1
    <3> HIDE DEF p, q
    <3> QED
      BY <1>4, <3>1
  <2>2. CASE k = lag + 1
    <3>1. z = y
      BY <1>1, <1>2, <1>5, <2>2
    <3>2. g[k - 1] = f[lag] /\ ext[k] = x /\ g[k] = p
      BY <1>1, <1>2, <1>3, <2>2
    <3> QED
      BY <3>1, <3>2
  <2>3. CASE k \in 1 .. lag
    <3>1. k < lag => z = win[k + 1]
      <4> SUFFICES ASSUME k < lag PROVE z = win[k + 1]
        OBVIOUS
      <4>1. k + 1 \in 1 .. lag /\ k < lag + 2
        BY <2>3
      <4> QED
        BY <1>2, <1>5, <4>1
    <3>2. f[k] = Patch(f[k - 1], win[k], z)
      BY <2>3, <3>1 DEF PatchRun
    <3>3. g[k] = f[k] /\ g[k - 1] = f[k - 1] /\ ext[k] = win[k]
      BY <1>1, <1>2, <1>3, <2>3
    <3> QED
      BY <3>2, <3>3
  <2>4. k = lag + 2 \/ k = lag + 1 \/ k \in 1 .. lag
    OBVIOUS
  <2> QED
    BY <2>1, <2>2, <2>3, <2>4
<1>6. g[0] = Insertion(r)
  BY <1>3 DEF PatchRun
<1>7. PatchRun(g, r, ext, lag + 2)
  BY <1>5, <1>6 DEF PatchRun
<1>8. \A z : g[lag + 2] = Patch(p, y, z)
  <2> HIDE DEF p, q
  <2> QED
    BY <1>3, <1>4
<1> QED
  BY <1>7, <1>8 DEF ext

\* The element that follows the one at a position, in a ring that grows or is
\* full, is the next one of the window.
LEMMA FollowingEntry ==
    ASSUME NEW vec, NEW capacity \in Nat \ {0}, IsRing(vec, capacity), NEW start, NEW lag, NEW win,
           Window(vec, capacity, start, lag, win), NEW k \in 1 .. lag, k < lag
    PROVE  At(vec, (start + k + 1) % Len(vec.data)) = win[k + 1]
<1> DEFINE n == Len(vec.data)
           c == capacity
<1>1. /\ lag \in Nat /\ lag < c /\ start \in 0 .. n - 1 /\ n \in 1 .. c /\ c \in Nat
      /\ vec.last_index = (start + lag) % c /\ vec.last_index \in 0 .. n - 1
      /\ n < c => vec.last_index = n - 1
  BY DEF Window, IsRing
<1>2. k + 1 \in 1 .. lag /\ start + (k + 1) = start + k + 1 /\ k + 1 \in 0 .. c /\ lag \in 0 .. c
      /\ start \in 0 .. c - 1
  BY <1>1
<1>3. win[k + 1] = At(vec, (start + (k + 1)) % c)
  BY <1>2 DEF Window
<1>4. CASE n = c
  BY <1>2, <1>3, <1>4
<1>5. CASE n < c
  <2> HIDE DEF n, c
  <2>1. (start + lag) % c = IF start + lag >= c THEN start + lag - c ELSE start + lag
    BY <1>2, Wrap DEF c
  <2>2. start + lag <= n - 1
    BY <1>1, <1>5, <2>1
  <2>3. start + k + 1 \in 0 .. n - 1 /\ start + k + 1 \in 0 .. c - 1
    BY <1>1, <1>5, <1>2, <2>2
  <2>4. (start + k + 1) % n = start + k + 1 /\ (start + k + 1) % c = start + k + 1
    BY <1>1, <1>5, <2>3
  <2> QED
    BY <1>2, <1>3, <2>4 DEF n
<1>6. n = c \/ n < c
  BY <1>1
<1> QED
  BY <1>4, <1>5, <1>6

\* patch_elements_and_proof is the end of the run.
LEMMA RunEnds ==
    ASSUME NEW r, IsRing(indexed_changelog, IndexedChangelogCapacity),
           NEW lag, NEW win, NEW f, PatchRun(f, r, win, lag),
           Window(indexed_changelog, IndexedChangelogCapacity, r.indexed_changelog_index, lag, win)
    PROVE  patch_elements_and_proof(r) = f[lag]
<1> DEFINE vec == indexed_changelog
           c == IndexedChangelogCapacity
           start == r.indexed_changelog_index
           entries == Tail(IterFrom(vec, c, start))
           following == [k \in 1 .. lag |-> At(vec, (start + k + 1) % Len(vec.data))]
<1>1. c \in Nat \ {0} /\ lag \in Nat
  BY IndexedAssumption DEF Window
<1>2. Listed(entries, vec, start, lag, win)
  BY <1>1, WindowEntries
<1>3. Len(entries) = lag /\ \A k \in 1 .. lag : entries[k] = win[k]
  BY <1>2 DEF Listed
<1>4. PICK h : Patches(h, r, entries, following, lag)
  BY <1>1, <1>3, PatchFold
<1>5. \A k \in 1 .. lag : k < lag => following[k] = win[k + 1]
  <2> SUFFICES ASSUME NEW k \in 1 .. lag, k < lag PROVE following[k] = win[k + 1]
    OBVIOUS
  <2> QED
    BY <1>1, FollowingEntry
<1> HIDE DEF entries, following
<1> DEFINE Good == {k \in 0 .. lag : h[k] = f[k]}
<1>6. 0 \in Good
  BY <1>1, <1>4 DEF Patches, PatchRun
<1>7. ASSUME NEW k \in 0 .. lag - 1, k \in Good PROVE k + 1 \in Good
  <2>1. k + 1 \in 1 .. lag /\ k + 1 - 1 = k /\ k + 1 \in 0 .. lag
    BY <1>1
  <2>2. h[k + 1] = Patch(h[k], entries[k + 1], following[k + 1])
    BY <1>4, <2>1 DEF Patches
  <2>3. f[k + 1] = Patch(f[k], win[k + 1], following[k + 1])
    BY <1>5, <2>1 DEF PatchRun
  <2> QED
    BY <1>3, <1>7, <2>1, <2>2, <2>3
<1>8. lag \in Good
  <2> HIDE DEF Good
  <2>1. lag \in 0 .. lag
    BY <1>1
  <2> QED
    BY <1>1, <1>6, <1>7, <2>1, NumberInduction
<1> QED
  BY <1>4, <1>8 DEF Patches
\* What update does to the tree: the low leaf j changes, then a leaf is
\* appended.
TreeUpdated(t, lvs, j, a, b, proof, u, w, mid, lvs2) ==
    /\ TreeInv(t, lvs) /\ t.sequence_number \in Nat /\ t.next_index \in LeafIndex
    /\ j \in LeafIndex /\ j < t.next_index /\ ProofIn(proof, lvs, j)
    /\ u = update_leaf_in_tree(t, a, j, proof)
    /\ w = append_batch(u, <<b>>)
    /\ mid = [lvs EXCEPT ![j] = a]
    /\ lvs2 = [lvs EXCEPT ![j] = a, ![t.next_index] = b]

\* The trees in between and after it.
Between(t, lvs, j, a, b, u, w, mid, lvs2) ==
    /\ TreeInv(u, mid) /\ u.next_index = t.next_index
    /\ TreeInv(w, lvs2) /\ w.next_index = t.next_index + 1
    /\ u.sequence_number = t.sequence_number + 1
    /\ w.sequence_number = t.sequence_number + 2
    /\ Changed(lvs, mid, j, a) /\ Changed(mid, lvs2, t.next_index, b)
    /\ \A i, p, start, lag, x :
        /\ i \in LeafIndex /\ i < t.next_index /\ lag + 1 < ChangelogCapacity
        /\ FreshIn(u.changelog, mid, p, start, i, lag, x, FALSE)
        => FreshIn(w.changelog, lvs2, p, start, i, lag + 1, 0, FALSE)

\* The struct follows the leaves, and proofs that are fresh in between are so
\* after the append.
LEMMA InBetween ==
    ASSUME NEW t, NEW lvs, NEW j, NEW a, NEW b, NEW proof, NEW u, NEW w, NEW mid, NEW lvs2,
           TreeUpdated(t, lvs, j, a, b, proof, u, w, mid, lvs2)
    PROVE  Between(t, lvs, j, a, b, u, w, mid, lvs2)
<1> DEFINE n == t.next_index
           batch == <<b>>
<1>1. /\ TreeInv(t, lvs) /\ t.sequence_number \in Nat /\ n \in LeafIndex
      /\ j \in LeafIndex /\ j < n /\ ProofIn(proof, lvs, j)
      /\ u = update_leaf_in_tree(t, a, j, proof)
      /\ w = append_batch(u, batch)
      /\ mid = [lvs EXCEPT ![j] = a] /\ lvs2 = [lvs EXCEPT ![j] = a, ![n] = b]
  BY DEF TreeUpdated
<1>2. TreeInv(u, mid) /\ u.next_index = n
  <2>1. TreeInv(t, lvs) /\ j \in LeafIndex /\ j < t.next_index /\ ProofIn(proof, lvs, j)
    BY <1>1
  <2>2. /\ TreeInv(update_leaf_in_tree(t, a, j, proof), [lvs EXCEPT ![j] = a])
        /\ update_leaf_in_tree(t, a, j, proof).next_index = t.next_index
    BY ONLY <2>1, UpdateInv
  <2> QED
    BY <1>1, <2>2
<1>3. u.sequence_number = t.sequence_number + 1
  <2>1. /\ TreeInv(t, lvs) /\ j \in LeafIndex /\ j < t.next_index /\ ProofIn(proof, lvs, j)
        /\ u = update_leaf_in_tree(t, a, j, proof)
    BY <1>1
  <2> QED
    BY ONLY <2>1, UpdateCounts
<1>4. TreeInv(w, lvs2) /\ w.next_index = n + 1
  <2>1. /\ TreeInv(t, lvs) /\ t.next_index \in LeafIndex /\ j \in LeafIndex /\ j < t.next_index
        /\ ProofIn(proof, lvs, j) /\ u = update_leaf_in_tree(t, a, j, proof)
    BY <1>1
  <2>2. /\ TreeInv(append_batch(u, <<b>>), [lvs EXCEPT ![j] = a, ![t.next_index] = b])
        /\ append_batch(u, <<b>>).next_index = t.next_index + 1
    BY ONLY <2>1, ChangeAndAppend
  <2> QED
    BY <1>1, <2>2
<1>5. lvs = [i \in LeafIndex |-> lvs[i]] /\ mid = [i \in LeafIndex |-> mid[i]]
  BY <1>1, <1>2 DEF TreeInv
<1>6. lvs2 = [mid EXCEPT ![n] = b]
  BY <1>1
<1>7. Changed(lvs, mid, j, a)
  BY <1>1, <1>5 DEF Changed
<1>8. Changed(mid, lvs2, n, b)
  BY <1>1, <1>5, <1>6 DEF Changed
<1>9. Len(batch) = 1 /\ batch[1] = b
  OBVIOUS
<1>10. 1 \in 1 .. ChangelogCapacity /\ n + 1 <= Pow2[Height] /\ u.sequence_number \in Nat
  <2>1. Pow2[Height] \in Nat
    BY Pow2Values, LevelFacts
  <2> QED
    BY <1>1, <1>3, <2>1, SizeConstraints DEF LeafIndex
<1> HIDE DEF batch
<1>11. With(mid, n, batch, 1) = lvs2
  <2>1. With(mid, n, batch, 1) = [mid EXCEPT ![n] = batch[1]]
    <3>1. mid = [i \in LeafIndex |-> mid[i]] /\ n \in LeafIndex
      BY <1>1, <1>5
    <3> HIDE DEF n
    <3> QED
      BY ONLY <3>1, WithOne
  <2> QED
    BY <1>6, <1>9, <2>1
<1>12. w.sequence_number = u.sequence_number + 1
  <2>1. /\ TreeInv(u, mid) /\ u.sequence_number \in Nat /\ 1 \in 1 .. ChangelogCapacity
        /\ Len(batch) = 1 /\ u.next_index + 1 <= Pow2[Height]
    BY <1>2, <1>9, <1>10
  <2>2. append_batch(u, batch).sequence_number = u.sequence_number + 1
    BY ONLY <2>1, BatchCounts
  <2> QED
    BY <1>1, <2>2
<1>13. w.sequence_number = t.sequence_number + 2
  BY <1>1, <1>3, <1>12
<1>14. ASSUME NEW i, NEW p, NEW start, NEW lag, NEW x, i \in LeafIndex, i < n,
              lag + 1 < ChangelogCapacity,
              FreshIn(u.changelog, mid, p, start, i, lag, x, FALSE)
       PROVE  FreshIn(w.changelog, lvs2, p, start, i, lag + 1, 0, FALSE)
  <2>1. FreshIn(append_batch(u, batch).changelog, With(mid, u.next_index, batch, 1), p, start, i,
                lag + 1, u.next_index + 1, FALSE)
    BY <1>2, <1>9, <1>10, <1>14, BatchFresh
  <2>2. FreshIn(w.changelog, lvs2, p, start, i, lag + 1, u.next_index + 1, FALSE)
    BY <1>1, <1>2, <1>11, <2>1
  <2> QED
    BY <2>2, FreshWeaken
<1> QED
  BY <1>2, <1>3, <1>4, <1>7, <1>8, <1>13, <1>14 DEF Between

\* A proof of another leaf stays fresh, two changes further behind.
OthersFresh(t, lvs, w, lvs2, j) ==
    \A i \in LeafIndex, lag \in Nat : \A p, start :
        /\ i < t.next_index /\ i # j /\ lag + 2 < ChangelogCapacity
        /\ FreshIn(t.changelog, lvs, p, start, i, lag, 0, FALSE)
        => FreshIn(w.changelog, lvs2, p, start, i, lag + 2, 0, FALSE)

\* Updating and appending leave other proofs fresh.
LEMMA OtherFresh ==
    ASSUME NEW t, NEW lvs, NEW j, NEW a, NEW b, NEW proof, NEW u, NEW w, NEW mid, NEW lvs2,
           TreeUpdated(t, lvs, j, a, b, proof, u, w, mid, lvs2)
    PROVE  OthersFresh(t, lvs, w, lvs2, j)
<1> SUFFICES ASSUME NEW i \in LeafIndex, NEW lag \in Nat, NEW p, NEW start,
                    i < t.next_index, i # j, lag + 2 < ChangelogCapacity,
                    FreshIn(t.changelog, lvs, p, start, i, lag, 0, FALSE)
             PROVE  FreshIn(w.changelog, lvs2, p, start, i, lag + 2, 0, FALSE)
  BY DEF OthersFresh
<1>1. /\ TreeInv(t, lvs) /\ j \in LeafIndex /\ j < t.next_index /\ ProofIn(proof, lvs, j)
      /\ u = update_leaf_in_tree(t, a, j, proof) /\ mid = [lvs EXCEPT ![j] = a]
  BY DEF TreeUpdated
<1>2. lag + 1 < ChangelogCapacity /\ lag + 1 + 1 = lag + 2
  BY SizeConstraints
<1>3. FreshIn(u.changelog, mid, p, start, i, lag + 1, j + 1, FALSE)
  BY <1>1, <1>2, UpdateFresh
<1> DEFINE m == lag + 1
<1> HIDE DEF m
<1>4. m + 1 < ChangelogCapacity /\ m + 1 = lag + 2
  BY <1>2 DEF m
<1>5. FreshIn(u.changelog, mid, p, start, i, m, j + 1, FALSE)
  BY <1>3 DEF m
<1>6. FreshIn(w.changelog, lvs2, p, start, i, m + 1, 0, FALSE)
  BY <1>4, <1>5, InBetween DEF Between
<1> QED
  BY <1>4, <1>6

\* The proof with which the low leaf was changed is fresh behind that change.
LEMMA LowFresh ==
    ASSUME NEW t, NEW lvs, NEW j, NEW a, NEW b, NEW proof, NEW u, NEW w, NEW mid, NEW lvs2,
           TreeUpdated(t, lvs, j, a, b, proof, u, w, mid, lvs2),
           1 < ChangelogCapacity, NEW p, \A l \in NetLevel : p[l] = proof[l]
    PROVE  FreshIn(w.changelog, lvs2, p, u.changelog.last_index, j, 1, 0, FALSE)
<1>1. j \in LeafIndex /\ j < t.next_index /\ ProofIn(proof, lvs, j)
  BY DEF TreeUpdated
<1>2. TreeInv(u, mid) /\ Changed(lvs, mid, j, a)
  BY InBetween DEF Between
<1>3. ASSUME NEW l \in Level \ CanopyLevel PROVE p[l] = NodesOf(mid)[l][SiblingIndex(j, l)]
  <2> DEFINE s == SiblingIndex(j, l)
  <2>1. s \in 0 .. Pow2[Height - l] - 1 /\ s # Above(j, l) /\ l \in 0 .. Height
    BY <1>1, ParentNode, Siblings, LevelFacts
  <2>2. NodesOf(mid)[l][s] = NodesOf(lvs)[l][s]
    BY <1>2, <2>1, OtherNodes
  <2>3. p[l] = NodesOf(lvs)[l][s]
    BY <1>1 DEF ProofIn, NetLevel
  <2> QED
    BY <2>2, <2>3
<1>4. FreshIn(u.changelog, mid, p, u.changelog.last_index, j, 0, 0, FALSE)
  BY <1>1, <1>2, <1>3, FreshNow
<1> DEFINE m == 0
<1>5. m + 1 = 1
  OBVIOUS
<1>6. FreshIn(u.changelog, mid, p, u.changelog.last_index, j, m, 0, FALSE)
  BY <1>4
<1> HIDE DEF m
<1>7. FreshIn(w.changelog, lvs2, p, u.changelog.last_index, j, m + 1, 0, FALSE)
  BY <1>1, <1>5, <1>6, InBetween DEF Between
<1> QED
  BY <1>5, <1>7

\* The proof with which the new leaf was appended is fresh.
LEMMA NewFresh ==
    ASSUME NEW t, NEW lvs, NEW j, NEW a, NEW b, NEW proof, NEW u, NEW w, NEW mid, NEW lvs2,
           TreeUpdated(t, lvs, j, a, b, proof, u, w, mid, lvs2),
           NEW p, \A l \in NetLevel : p[l] = AppendProof(u)[l]
    PROVE  FreshIn(w.changelog, lvs2, p, w.changelog.last_index, t.next_index, 0, 0, FALSE)
<1>1. t.next_index \in LeafIndex
  BY DEF TreeUpdated
<1>2. /\ TreeInv(w, lvs2) /\ Appendable(u, mid) /\ u.next_index = t.next_index
      /\ Changed(mid, lvs2, u.next_index, b)
  <2>1. Between(t, lvs, j, a, b, u, w, mid, lvs2)
    BY InBetween
  <2>2. TreeInv(w, lvs2) /\ TreeInv(u, mid)
    BY <2>1 DEF Between
  <2>3. u.next_index = t.next_index /\ Changed(mid, lvs2, t.next_index, b)
    BY <2>1 DEF Between
  <2>4. Appendable(u, mid)
    BY <2>2 DEF TreeInv
  <2> QED
    BY <2>2, <2>3, <2>4
<1>3. ASSUME NEW l \in Level \ CanopyLevel
      PROVE  p[l] = NodesOf(lvs2)[l][SiblingIndex(t.next_index, l)]
  <2>1. AppendProof(u)[l] = NodesOf(lvs2)[l][SiblingIndex(u.next_index, l)]
    BY <1>1, <1>2, AppendSiblings
  <2> QED
    BY <1>2, <2>1 DEF NetLevel
<1> QED
  BY <1>1, <1>2, <1>3, FreshNow
\* The entries carry the positions in the changelog of the tree at which their
\* proofs are fresh.
EntriesOf(x, y, lvs, n, j, v, proof, u, w) ==
    /\ LowEntry(x, lvs, n, j, v) /\ NewEntry(y, lvs, n, j, v)
    /\ \A l \in NetLevel : x.proof[l] = proof[l] /\ y.proof[l] = AppendProof(u)[l]
    /\ x.changelog_index = u.changelog.last_index
    /\ y.changelog_index = w.changelog.last_index

\* The insertion is about the low element as it is now, with a proof that can
\* be brought up to date.
Reached(ins, v, k, lag, t, lvs) ==
    /\ CurrentAt(ins, v, k, lvs, t.next_index)
    /\ \E m \in 0 .. lag :
        FreshIn(t.changelog, lvs, ins.proof, ins.changelog_index, k, m, 0, FALSE)

\* The entries of an insertion of another address lead on to the low element
\* after it.
LEMMA ReachedStep ==
    ASSUME NEW t, NEW lvs, NEW j, NEW a, NEW b, NEW proof, NEW u, NEW w, NEW mid, NEW lvs2,
           TreeUpdated(t, lvs, j, a, b, proof, u, w, mid, lvs2), ListInv(lvs, t.next_index),
           NEW val \in Nat, Inserted(lvs, lvs2, t.next_index, j, val), j \in 0 .. t.next_index - 1,
           NEW x, NEW y, EntriesOf(x, y, lvs, t.next_index, j, val, proof, u, w),
           NEW v \in Nat, v # val, NEW ins, NEW k, NEW lag \in Nat, lag + 2 < ChangelogCapacity,
           Reached(ins, v, k, lag, t, lvs), NEW z
    PROVE  \E i : Reached(Patch(Patch(ins, x, y), y, z), v, i, lag + 2, w, lvs2)
<1> DEFINE n == t.next_index
           out == Patch(Patch(ins, x, y), y, z)
<1>1. /\ CurrentAt(ins, v, k, lvs, n) /\ k \in 0 .. n - 1 /\ n \in Nat
      /\ LowEntry(x, lvs, n, j, val) /\ NewEntry(y, lvs, n, j, val)
  BY DEF Reached, CurrentAt, EntriesOf, ListInv
<1>2. PairPatched(out, ins, v, k, x, y, lvs2, n, j)
  <2> HIDE DEF n
  <2>1. ListInv(lvs, n) /\ Inserted(lvs, lvs2, n, j, val) /\ j \in 0 .. n - 1
    BY DEF n
  <2> QED
    BY <1>1, <2>1, PatchPair
<1>3. w.next_index = n + 1
  <2>1. Between(t, lvs, j, a, b, u, w, mid, lvs2)
    BY InBetween
  <2> QED
    BY <2>1 DEF Between
<1>4. PICK m \in 0 .. lag :
        FreshIn(t.changelog, lvs, ins.proof, ins.changelog_index, k, m, 0, FALSE)
  BY DEF Reached
<1>5. /\ m \in Nat /\ m + 2 \in 0 .. lag + 2 /\ 0 \in 0 .. lag + 2 /\ 1 \in 0 .. lag + 2
      /\ m + 2 < ChangelogCapacity /\ 1 < ChangelogCapacity
  BY SizeConstraints
<1>6. k \in LeafIndex /\ k < n
  <2>1. n \in LeafIndex /\ Pow2[Height] \in Nat
    BY Pow2Values, LevelFacts DEF TreeUpdated
  <2> QED
    BY <1>1, <2>1 DEF LeafIndex
<1>0. TreeUpdated(t, lvs, j, a, b, proof, u, w, mid, lvs2)
  OBVIOUS
<1> DEFINE p == out.proof
           pos == out.changelog_index
<1> HIDE DEF out, p, pos
<1>7. CASE k # j /\ out = ins /\ CurrentAt(out, v, k, lvs2, n + 1)
  <2>1. /\ FreshIn(t.changelog, lvs, p, pos, k, m, 0, FALSE) /\ k # j /\ m \in Nat
        /\ m + 2 < ChangelogCapacity /\ k \in LeafIndex /\ k < t.next_index
    BY <1>4, <1>5, <1>6, <1>7 DEF p, pos
  <2>2. FreshIn(w.changelog, lvs2, p, pos, k, m + 2, 0, FALSE)
    <3>1. OthersFresh(t, lvs, w, lvs2, j)
      BY ONLY <1>0, OtherFresh
    <3> QED
      BY ONLY <2>1, <3>1 DEF OthersFresh
  <2>3. Reached(out, v, k, lag + 2, w, lvs2)
    BY <1>3, <1>5, <1>7, <2>2 DEF Reached, p, pos
  <2> QED
    BY <2>3 DEF out
<1>8. CASE /\ CurrentAt(out, v, j, lvs2, n + 1)
           /\ out.proof = x.proof /\ out.changelog_index = x.changelog_index
  <2>1. (\A l \in NetLevel : p[l] = proof[l]) /\ 1 < ChangelogCapacity
    BY <1>5, <1>8 DEF EntriesOf, p
  <2>2. FreshIn(w.changelog, lvs2, p, u.changelog.last_index, j, 1, 0, FALSE)
    BY ONLY <1>0, <2>1, LowFresh
  <2>3. out.changelog_index = u.changelog.last_index
    BY <1>8 DEF EntriesOf
  <2>4. Reached(out, v, j, lag + 2, w, lvs2)
    BY <1>3, <1>5, <1>8, <2>2, <2>3 DEF Reached, p
  <2> QED
    BY <2>4 DEF out
<1>9. CASE /\ CurrentAt(out, v, n, lvs2, n + 1)
           /\ out.proof = y.proof /\ out.changelog_index = y.changelog_index
  <2>1. \A l \in NetLevel : p[l] = AppendProof(u)[l]
    BY <1>9 DEF EntriesOf, p
  <2>2. FreshIn(w.changelog, lvs2, p, w.changelog.last_index, t.next_index, 0, 0, FALSE)
    BY ONLY <1>0, <2>1, NewFresh
  <2>3. out.changelog_index = w.changelog.last_index
    BY <1>9 DEF EntriesOf
  <2>4. Reached(out, v, n, lag + 2, w, lvs2)
    BY <1>3, <1>5, <1>9, <2>2, <2>3 DEF Reached, p
  <2> QED
    BY <2>4 DEF out
<1> QED
  BY <1>2, <1>7, <1>8, <1>9 DEF PairPatched

\* A request whose address nobody has inserted can be patched: the indexed
\* changelog has what was written since, and patching with it reaches the low
\* element.
Patchable(r, t, lvs, vec, lag) ==
    \E win, f : /\ Window(vec, IndexedChangelogCapacity, r.indexed_changelog_index, lag, win)
                /\ PatchRun(f, r, win, lag)
                /\ \E k : Reached(f[lag], r.value, k, lag, t, lvs)

\* It still can after an insertion of another address.
LEMMA PatchableStep ==
    ASSUME NEW t, NEW lvs, NEW j, NEW a, NEW b, NEW proof, NEW u, NEW w, NEW mid, NEW lvs2,
           TreeUpdated(t, lvs, j, a, b, proof, u, w, mid, lvs2), ListInv(lvs, t.next_index),
           NEW val \in Nat, Inserted(lvs, lvs2, t.next_index, j, val), j \in 0 .. t.next_index - 1,
           NEW x, NEW y, EntriesOf(x, y, lvs, t.next_index, j, val, proof, u, w),
           NEW r, r.value \in Nat, r.value # val, NEW lag \in Nat,
           lag + 2 < ChangelogCapacity, lag + 2 < IndexedChangelogCapacity,
           NEW vec, IsRing(vec, IndexedChangelogCapacity), Patchable(r, t, lvs, vec, lag)
    PROVE  Patchable(r, w, lvs2, Push(Push(vec, IndexedChangelogCapacity, x),
                                      IndexedChangelogCapacity, y), lag + 2)
<1> DEFINE c == IndexedChangelogCapacity
           start == r.indexed_changelog_index
           one == Push(vec, c, x)
           two == Push(one, c, y)
<1>1. PICK win, f : /\ Window(vec, c, start, lag, win)
                    /\ PatchRun(f, r, win, lag)
                    /\ \E k : Reached(f[lag], r.value, k, lag, t, lvs)
  BY DEF Patchable
<1>2. PICK k : Reached(f[lag], r.value, k, lag, t, lvs)
  BY <1>1
<1>3. c \in Nat \ {0} /\ lag + 1 < c /\ (lag + 1) + 1 < c /\ (lag + 1) + 1 = lag + 2
  BY IndexedAssumption
<1> DEFINE ext == Extended(win, lag, x)
           ext2 == Extended(ext, lag + 1, y)
<1> HIDE DEF c
<1>4. Window(one, c, start, lag + 1, ext) /\ IsRing(one, c)
  <2>1. IsRing(vec, c)
    BY DEF c
  <2> QED
    BY <1>1, <1>3, <2>1, WindowPush
<1> HIDE DEF one, ext
<1>5. Window(two, c, start, (lag + 1) + 1, ext2)
  BY <1>3, <1>4, WindowPush
<1>6. ASSUME NEW z, NEW z2
      PROVE  Patch(Patch(f[lag], x, y), y, z) = Patch(Patch(f[lag], x, y), y, z2)
  <2>1. /\ CurrentAt(f[lag], r.value, k, lvs, t.next_index)
        /\ LowEntry(x, lvs, t.next_index, j, val) /\ NewEntry(y, lvs, t.next_index, j, val)
    BY <1>2 DEF Reached, EntriesOf
  <2> QED
    BY <2>1, PairEnds
<1>7. PICK g : /\ PatchRun(g, r, ext2, lag + 2)
               /\ \A z : g[lag + 2] = Patch(Patch(f[lag], x, y), y, z)
  <2>1. lag \in Nat /\ PatchRun(f, r, win, lag)
    BY <1>1
  <2>2. \A z, z2 : Patch(Patch(f[lag], x, y), y, z) = Patch(Patch(f[lag], x, y), y, z2)
    BY <1>6
  <2>3. \E g : /\ PatchRun(g, r, Extended(Extended(win, lag, x), lag + 1, y), lag + 2)
               /\ \A z : g[lag + 2] = Patch(Patch(f[lag], x, y), y, z)
    BY ONLY <2>1, <2>2, RunPair
  <2> QED
    BY <2>3 DEF ext
<1>8. \E i : Reached(Patch(Patch(f[lag], x, y), y, y), r.value, i, lag + 2, w, lvs2)
  BY <1>2, ReachedStep
<1>9. \E i : Reached(g[lag + 2], r.value, i, lag + 2, w, lvs2)
  BY <1>7, <1>8
<1>10. Window(two, c, start, lag + 2, ext2)
  BY <1>3, <1>5
<1> HIDE DEF two, ext2
<1>11. Patchable(r, w, lvs2, two, lag + 2)
  BY <1>7, <1>9, <1>10 DEF Patchable, c
<1> QED
  BY <1>11 DEF two, one, c
\* What Insert does to the tree, its leaves and the indexed changelog.
InsertedAt(j, a, b, proof, u, mid, x, y, v) ==
    /\ TreeUpdated(tree, leaves, j, a, b, proof, u, tree', mid, leaves')
    /\ j \in 0 .. tree.next_index - 1 /\ v \in Nat
    /\ Inserted(leaves, leaves', tree.next_index, j, v)
    /\ EntriesOf(x, y, leaves, tree.next_index, j, v, proof, u, tree')
    /\ indexed_changelog' = Push(Push(indexed_changelog, IndexedChangelogCapacity, x),
                                 IndexedChangelogCapacity, y)

\* update, in these terms.
LEMMA InsertEffect ==
    ASSUME IndexedInv, tree.sequence_number \in Nat, NEW c \in Client, Insert(c)
    PROVE  \E j, a, b, proof, u, mid, x, y :
                InsertedAt(j, a, b, proof, u, mid, x, y, requests[c].value)
<1> DEFINE r == requests[c]
           v == r.value
           ins == patch_elements_and_proof(r)
           j == ins.low_element.index
           n == tree.next_index
           proof == FreshProof(tree, LowLeafUpdate(ins))
           a == hash(NewLowElement(ins), ins.value)
           b == hash(NewElement(ins), ins.low_next_value)
           u == update_leaf_in_tree(tree, a, j, proof)
           mid == [leaves EXCEPT ![j] = a]
           x == IndexedChangelogEntry(NewLowElement(ins), ins.value, proof, u.changelog.last_index)
           y == IndexedChangelogEntry(NewElement(ins), ins.low_next_value, AppendProof(u),
                                      tree'.changelog.last_index)
<1>1. IsInsertRequest(r) /\ v \in Address /\ AcceptsInsertion(r)
  BY DEF Insert, IndexedInv, InsertRequestsInv
<1>2. AcceptedAt(ins, v, j, n)
  BY <1>1, AcceptedInsertion
<1>3. /\ tree' = append_batch(u, <<b>>)
      /\ leaves' = [leaves EXCEPT ![j] = a, ![n] = b]
      /\ PushEntries(x, y)
  BY DEF Insert, update
<1> HIDE DEF ins
<1>4. /\ j \in LeafIndex /\ j < n /\ j \in 0 .. n - 1 /\ n \in LeafIndex /\ v \in Nat
      /\ ins.value = v /\ ins.low_next_value = leaves[j].next_value
      /\ ins.next_index = leaves[j].next_index
      /\ ProofIn(proof, leaves, j)
  BY <1>2 DEF AcceptedAt
<1>5. NewLowElement(ins) = [index |-> j, value |-> leaves[j].value, next_index |-> n]
  BY <1>2, SetNextIndex DEF AcceptedAt, NewLowElement
<1>6. NewElement(ins) = [index |-> n, value |-> v, next_index |-> leaves[j].next_index]
  BY <1>4 DEF NewElement
<1>7. /\ a = [value |-> leaves[j].value, next_index |-> n, next_value |-> v]
      /\ b = [value |-> v, next_index |-> leaves[j].next_index, next_value |-> leaves[j].next_value]
  BY <1>4, <1>5, <1>6 DEF hash
<1> HIDE DEF a, b, proof
<1>8. x.element = [index |-> j, value |-> leaves[j].value, next_index |-> n, next_value |-> v]
  BY <1>4, <1>5 DEF IndexedChangelogEntry
<1>9. y.element = [index |-> n, value |-> v, next_index |-> leaves[j].next_index,
                   next_value |-> leaves[j].next_value]
  BY <1>4, <1>6 DEF IndexedChangelogEntry
<1>10. /\ \A l \in NetLevel : x.proof[l] = proof[l] /\ y.proof[l] = AppendProof(u)[l]
       /\ x.changelog_index = u.changelog.last_index
       /\ y.changelog_index = tree'.changelog.last_index
  <2> HIDE DEF u
  <2> QED
    BY DEF IndexedChangelogEntry
<1>11. u = update_leaf_in_tree(tree, a, j, proof) /\ mid = [leaves EXCEPT ![j] = a]
  OBVIOUS
<1>12. Inserted(leaves, leaves', n, j, v)
  <2>1. leaves = [i \in LeafIndex |-> leaves[i]]
    BY DEF IndexedInv, TreeInv
  <2>2. /\ leaves'[j] = a /\ leaves'[n] = b
        /\ \A i \in LeafIndex : i # j /\ i # n => leaves'[i] = leaves[i]
    BY <1>3, <1>4, <2>1
  <2>3. \A i \in 0 .. n - 1 : i # n /\ i \in LeafIndex
    <3>1. Pow2[Height] \in Nat
      BY Pow2Values, LevelFacts
    <3> QED
      BY <1>4, <3>1 DEF LeafIndex
  <2> QED
    BY <1>7, <2>2, <2>3 DEF Inserted
<1> HIDE DEF x, y, u, mid
<1>13. TreeUpdated(tree, leaves, j, a, b, proof, u, tree', mid, leaves')
  BY <1>3, <1>4, <1>11 DEF TreeUpdated, IndexedInv
<1>14. EntriesOf(x, y, leaves, n, j, v, proof, u, tree')
  BY <1>8, <1>9, <1>10 DEF EntriesOf, LowEntry, NewEntry
<1>15. InsertedAt(j, a, b, proof, u, mid, x, y, v)
  BY <1>3, <1>4, <1>12, <1>13, <1>14 DEF InsertedAt, PushEntries
<1> QED
  BY <1>15

\* A request that named the right low element and whose address is not in the
\* tree can be patched, as long as both changelogs reach back to it.
Wanted(r, lvs, n) ==
    /\ r.low_element.value < r.value /\ r.value < r.low_next_value
    /\ \A i \in 0 .. n - 1 : lvs[i].value # r.value
InsertionSurvives(r, t, lvs, vec) ==
    /\ r.sequence_number \in Nat /\ r.sequence_number <= t.sequence_number
    /\ /\ Wanted(r, lvs, t.next_index)
       /\ t.sequence_number - r.sequence_number < ChangelogCapacity
       /\ t.sequence_number - r.sequence_number < IndexedChangelogCapacity
       => Patchable(r, t, lvs, vec, t.sequence_number - r.sequence_number)
StaleInsertionsInv ==
    /\ tree.sequence_number \in Nat
    /\ \A c \in Client : requests[c] # None =>
            InsertionSurvives(requests[c], tree, leaves, indexed_changelog)

\* A request survives the insertion of another address.
LEMMA SurvivesInsertion ==
    ASSUME IndexedInv, tree.sequence_number \in Nat, NEW c \in Client, Insert(c),
           NEW r, r.value \in Nat, InsertionSurvives(r, tree, leaves, indexed_changelog)
    PROVE  InsertionSurvives(r, tree', leaves', indexed_changelog')
<1> DEFINE n == tree.next_index
           lag == tree.sequence_number - r.sequence_number
           v == requests[c].value
<1>1. PICK j, a, b, proof, u, mid, x, y : InsertedAt(j, a, b, proof, u, mid, x, y, v)
  BY InsertEffect
<1>2. /\ TreeUpdated(tree, leaves, j, a, b, proof, u, tree', mid, leaves')
      /\ j \in 0 .. n - 1 /\ v \in Nat /\ Inserted(leaves, leaves', n, j, v)
      /\ EntriesOf(x, y, leaves, n, j, v, proof, u, tree')
      /\ indexed_changelog' = Push(Push(indexed_changelog, IndexedChangelogCapacity, x),
                                   IndexedChangelogCapacity, y)
  BY <1>1 DEF InsertedAt
<1>3. tree'.sequence_number = tree.sequence_number + 2 /\ tree'.next_index = n + 1
  <2>1. Between(tree, leaves, j, a, b, u, tree', mid, leaves')
    BY <1>2, InBetween
  <2> QED
    BY <2>1 DEF Between
<1>4. /\ r.sequence_number \in Nat /\ r.sequence_number <= tree.sequence_number /\ lag \in Nat
      /\ tree'.sequence_number - r.sequence_number = lag + 2
      /\ r.sequence_number <= tree'.sequence_number
  BY <1>3 DEF InsertionSurvives
<1>5. ListInv(leaves, n) /\ IsRing(indexed_changelog, IndexedChangelogCapacity) /\ n \in Nat
  BY DEF IndexedInv, IsChangelog, ListInv
<1>6. ASSUME Wanted(r, leaves', n + 1), lag + 2 < ChangelogCapacity,
             lag + 2 < IndexedChangelogCapacity
      PROVE  Patchable(r, tree', leaves', indexed_changelog', lag + 2)
  <2>1. n \in 0 .. (n + 1) - 1 /\ \A i \in 0 .. n - 1 : i \in 0 .. (n + 1) - 1
    BY <1>5
  <2>2. r.value # v
    BY <1>2, <1>6, <2>1 DEF Wanted, Inserted
  <2>3. Wanted(r, leaves, n)
    <3>1. ASSUME NEW i \in 0 .. n - 1 PROVE leaves[i].value = leaves'[i].value
      BY <1>2 DEF Inserted
    <3> QED
      BY <1>6, <2>1, <3>1 DEF Wanted
  <2>4. lag < ChangelogCapacity /\ lag < IndexedChangelogCapacity
    BY <1>4, <1>6, SizeConstraints, IndexedAssumption
  <2>5. Patchable(r, tree, leaves, indexed_changelog, lag)
    BY <2>3, <2>4 DEF InsertionSurvives
  <2> DEFINE vec == indexed_changelog
  <2>6. Patchable(r, tree', leaves', Push(Push(vec, IndexedChangelogCapacity, x),
                                          IndexedChangelogCapacity, y), lag + 2)
    <3> HIDE DEF lag, v
    <3> QED
      BY <1>2, <1>4, <1>5, <1>6, <2>2, <2>5, PatchableStep
  <2> QED
    BY <1>2, <2>6
<1> HIDE DEF lag, n
<1> QED
  BY <1>3, <1>4, <1>6 DEF InsertionSurvives, n

\* A request that was just prepared has nothing to be patched with.
LEMMA SurvivesFetch ==
    ASSUME IndexedInv, tree.sequence_number \in Nat, NEW i \in LeafIndex, i < tree.next_index,
           NEW r, r.value \in Nat, r.sequence_number = tree.sequence_number,
           r.indexed_changelog_index = indexed_changelog.last_index,
           r.changelog_index = tree.changelog.last_index,
           r.low_element = [index      |-> i,
                            value      |-> leaves[i].value,
                            next_index |-> leaves[i].next_index],
           r.low_next_value = leaves[i].next_value,
           r.proof = [l \in NetLevel |-> NodesOf(leaves)[l][SiblingIndex(i, l)]]
    PROVE  InsertionSurvives(r, tree, leaves, indexed_changelog)
<1> DEFINE win == <<>>
           ins == Insertion(r)
           f == [k \in 0 .. 0 |-> ins]
<1>1. tree.sequence_number - r.sequence_number = 0 /\ r.sequence_number <= tree.sequence_number
  OBVIOUS
<1>2. Window(indexed_changelog, IndexedChangelogCapacity, r.indexed_changelog_index, 0, win)
  <2> HIDE DEF win
  <2> QED
    BY IndexedAssumption, WindowEmpty DEF IndexedInv, IsChangelog
<1>3. f[0] = ins
  OBVIOUS
<1>4. ins = [value           |-> r.value,
             next_index      |-> leaves[i].next_index,
             low_element     |-> [index      |-> i,
                                  value      |-> leaves[i].value,
                                  next_index |-> leaves[i].next_index],
             low_next_value  |-> leaves[i].next_value,
             proof           |-> r.proof,
             changelog_index |-> r.changelog_index,
             switched        |-> FALSE]
  BY DEF Insertion
<1> HIDE DEF ins, f, win
<1>5. ins.proof = r.proof /\ ins.changelog_index = r.changelog_index
  BY <1>4
<1>6. PatchRun(f, r, win, 0)
  <2>1. \A k \in 1 .. 0 : FALSE
    OBVIOUS
  <2> QED
    BY <1>3, <2>1 DEF PatchRun, ins
<1>7. ASSUME Wanted(r, leaves, tree.next_index)
      PROVE  Reached(ins, r.value, i, 0, tree, leaves)
  <2>1. tree.next_index \in Nat /\ i \in 0 .. tree.next_index - 1
    <3>1. tree.next_index \in Nat /\ i \in Nat
      BY AboveBound DEF IndexedInv, ListInv
    <3> QED
      BY <3>1
  <2>2. leaves[i].value < r.value /\ r.value < leaves[i].next_value
    BY <1>7 DEF Wanted
  <2>3. CurrentAt(ins, r.value, i, leaves, tree.next_index)
    BY <1>4, <1>5, <2>1, <2>2 DEF CurrentAt
  <2> DEFINE p == r.proof
  <2>4. \A l \in Level \ CanopyLevel : p[l] = NodesOf(leaves)[l][SiblingIndex(i, l)]
    BY DEF NetLevel
  <2> HIDE DEF p
  <2>5. FreshIn(tree.changelog, leaves, p, tree.changelog.last_index, i, 0, 0, FALSE)
    BY <2>4, FreshNow DEF IndexedInv
  <2>6. FreshIn(tree.changelog, leaves, ins.proof, ins.changelog_index, i, 0, 0, FALSE)
    BY <1>5, <2>5 DEF p
  <2>7. 0 \in 0 .. 0
    OBVIOUS
  <2> QED
    BY <2>3, <2>6, <2>7 DEF Reached
<1>8. Wanted(r, leaves, tree.next_index) => Patchable(r, tree, leaves, indexed_changelog, 0)
  BY <1>2, <1>3, <1>6, <1>7 DEF Patchable
<1> QED
  BY <1>1, <1>8 DEF InsertionSurvives

\* A request that can be patched is accepted.
LEMMA PatchableAccepted ==
    ASSUME IndexedInv, NEW r, r.value \in Nat, NEW lag, tree.next_index < Pow2[Height],
           Patchable(r, tree, leaves, indexed_changelog, lag)
    PROVE  AcceptsInsertion(r)
<1> DEFINE vec == indexed_changelog
           ins == patch_elements_and_proof(r)
           v == r.value
           n == tree.next_index
<1>1. PICK win, f : /\ Window(vec, IndexedChangelogCapacity, r.indexed_changelog_index, lag, win)
                    /\ PatchRun(f, r, win, lag)
                    /\ \E k : Reached(f[lag], v, k, lag, tree, leaves)
  BY DEF Patchable
<1>2. ins = f[lag]
  BY <1>1, RunEnds DEF IndexedInv, IsChangelog
<1> HIDE DEF ins
<1>3. PICK k : Reached(ins, v, k, lag, tree, leaves)
  BY <1>1, <1>2
<1>4. CurrentAt(ins, v, k, leaves, n)
  BY <1>3 DEF Reached
<1>5. /\ ins.value = v /\ ins.low_next_value = leaves[k].next_value
      /\ ins.low_element = [index |-> k, value |-> leaves[k].value,
                            next_index |-> leaves[k].next_index]
      /\ k \in 0 .. n - 1 /\ leaves[k].value < v /\ v < leaves[k].next_value
  BY <1>4 DEF CurrentAt
<1>6. n \in Nat /\ leaves[k].value \in Nat /\ k \in LeafIndex /\ k < n
  <2>1. n \in Nat /\ leaves[k].value \in Nat
    BY <1>5 DEF IndexedInv, ListInv, Typed
  <2>2. Pow2[Height] \in Nat
    BY Pow2Values, LevelFacts
  <2> QED
    BY <1>5, <2>1, <2>2 DEF LeafIndex
<1>7. InBounds(vec, r.indexed_changelog_index)
  <2>1. /\ r.indexed_changelog_index \in 0 .. Len(vec.data) - 1
        /\ Len(vec.data) \in 1 .. IndexedChangelogCapacity
    BY <1>1 DEF Window, IndexedInv, IsChangelog, IsRing
  <2> QED
    BY <2>1 DEF InBounds
<1>8. InRange(ins)
  BY <1>5, <1>6 DEF InRange
<1>9. BatchFits(tree, <<None>>)
  <2>1. Len(<<None>>) = 1 /\ <<None>> # <<>>
    OBVIOUS
  <2>2. n + 1 - 1 < Pow2[Height] /\ 1 <= ChangelogCapacity
    BY <1>6, SizeConstraints
  <2> QED
    BY <2>1, <2>2 DEF BatchFits
<1>10. Accepts(tree, LowLeafUpdate(ins))
  <2> DEFINE req == LowLeafUpdate(ins)
  <2>1. /\ req.leaf_index = k /\ req.proof = ins.proof /\ req.changelog_index = ins.changelog_index
        /\ req.old_leaf = [value |-> leaves[k].value, next_index |-> leaves[k].next_index,
                           next_value |-> leaves[k].next_value]
    BY <1>5 DEF LowLeafUpdate, hash
  <2> HIDE DEF req
  <2>2. req.old_leaf = leaves[k]
    BY <1>5, <2>1 DEF IndexedInv, Records
  <2>3. PICK m \in 0 .. lag :
            FreshIn(tree.changelog, leaves, ins.proof, ins.changelog_index, k, m, 0, FALSE)
    BY <1>3 DEF Reached
  <2>4. FreshIn(tree.changelog, leaves, req.proof, req.changelog_index, k, m, 0, FALSE)
    BY <2>1, <2>3
  <2>5. TreeInv(tree, leaves) /\ k = req.leaf_index
    BY <2>1 DEF IndexedInv
  <2>6. Accepts(tree, req)
    BY <1>6, <2>2, <2>4, <2>5, FreshAccepted
  <2> QED
    BY <2>6 DEF req
<1> QED
  BY <1>7, <1>8, <1>9, <1>10 DEF AcceptsInsertion, ins

\* Without requests there is nothing to survive.
LEMMA StaleInsertionsInit ==
    IndexedInit => StaleInsertionsInv
<1> SUFFICES ASSUME IndexedInit PROVE StaleInsertionsInv
  OBVIOUS
<1>1. \A c \in Client : requests[c] = None
  BY DEF IndexedInit
<1>2. tree.sequence_number \in Nat
  BY IndexedInitInv
<1> QED
  BY <1>1, <1>2 DEF StaleInsertionsInv

\* Requests survive every step.
LEMMA StaleInsertionsNext ==
    IndexedInv /\ StaleInsertionsInv /\ [IndexedNext]_indexed_vars => StaleInsertionsInv'
<1> SUFFICES ASSUME IndexedInv, StaleInsertionsInv, [IndexedNext]_indexed_vars
             PROVE  StaleInsertionsInv'
  OBVIOUS
<1>1. /\ tree.sequence_number \in Nat /\ requests = [c \in Client |-> requests[c]]
      /\ \A c \in Client : requests[c] # None =>
            /\ InsertionSurvives(requests[c], tree, leaves, indexed_changelog)
            /\ requests[c].value \in Nat
  BY IndexedAssumption DEF StaleInsertionsInv, IndexedInv, InsertRequestsInv
<1>2. ASSUME NEW c \in Client, NEW value \in Address, NEW i \in LeafIndex,
             FetchLowElement(c, value, i)
      PROVE  StaleInsertionsInv'
  <2> DEFINE r == [value                   |-> value,
                   low_element             |-> [index      |-> i,
                                                value      |-> leaves[i].value,
                                                next_index |-> leaves[i].next_index],
                   low_next_value          |-> leaves[i].next_value,
                   proof                   |-> [l \in NetLevel |->
                                                  NodesOf(leaves)[l][SiblingIndex(i, l)]],
                   changelog_index         |-> tree.changelog.last_index,
                   indexed_changelog_index |-> indexed_changelog.last_index,
                   sequence_number         |-> tree.sequence_number]
  <2>1. requests' = [requests EXCEPT ![c] = r] /\ i < tree.next_index
        /\ UNCHANGED <<tree, indexed_changelog, leaves>>
    BY <1>2 DEF FetchLowElement
  <2>2. /\ r.value = value /\ r.sequence_number = tree.sequence_number
        /\ r.indexed_changelog_index = indexed_changelog.last_index
        /\ r.changelog_index = tree.changelog.last_index
        /\ r.low_element = [index      |-> i,
                            value      |-> leaves[i].value,
                            next_index |-> leaves[i].next_index]
        /\ r.low_next_value = leaves[i].next_value
        /\ r.proof = [l \in NetLevel |-> NodesOf(leaves)[l][SiblingIndex(i, l)]]
    OBVIOUS
  <2> HIDE DEF r
  <2>3. r.value \in Nat
    BY <2>2, IndexedAssumption
  <2>4. InsertionSurvives(r, tree, leaves, indexed_changelog)
    BY <1>1, <2>1, <2>2, <2>3, SurvivesFetch
  <2>5. ASSUME NEW d \in Client, requests'[d] # None
        PROVE  InsertionSurvives(requests'[d], tree', leaves', indexed_changelog')
    <3>1. requests'[d] = r \/ requests'[d] = requests[d]
      BY <1>1, <2>1
    <3>2. InsertionSurvives(requests'[d], tree, leaves, indexed_changelog)
      BY <1>1, <2>4, <2>5, <3>1
    <3> QED
      BY <2>1, <3>2
  <2> QED
    BY <1>1, <2>1, <2>5 DEF StaleInsertionsInv
<1>3. ASSUME NEW c \in Client, Insert(c) PROVE StaleInsertionsInv'
  <2>1. requests' = [requests EXCEPT ![c] = None]
    BY <1>3 DEF Insert
  <2>2. ASSUME NEW d \in Client, requests'[d] # None
        PROVE  InsertionSurvives(requests'[d], tree', leaves', indexed_changelog')
    <3>1. requests'[d] = requests[d] /\ requests[d] # None
      BY <1>1, <2>1, <2>2
    <3> DEFINE q == requests[d]
    <3>2. InsertionSurvives(q, tree, leaves, indexed_changelog) /\ q.value \in Nat
      BY <1>1, <3>1
    <3> HIDE DEF q
    <3>3. InsertionSurvives(q, tree', leaves', indexed_changelog')
      BY <1>1, <1>3, <3>2, SurvivesInsertion
    <3> QED
      BY <3>1, <3>3 DEF q
  <2>3. tree'.sequence_number \in Nat
    <3>1. PICK j, a, b, proof, u, mid, x, y :
            InsertedAt(j, a, b, proof, u, mid, x, y, requests[c].value)
      BY <1>1, <1>3, InsertEffect
    <3>2. TreeUpdated(tree, leaves, j, a, b, proof, u, tree', mid, leaves')
      BY <3>1 DEF InsertedAt
    <3>3. Between(tree, leaves, j, a, b, u, tree', mid, leaves')
      BY <3>2, InBetween
    <3>4. tree'.sequence_number = tree.sequence_number + 2
      BY <3>3 DEF Between
    <3> QED
      BY <1>1, <3>4
  <2> QED
    BY <2>2, <2>3 DEF StaleInsertionsInv
<1>4. ASSUME NEW c \in Client, InsertFails(c) PROVE StaleInsertionsInv'
  <2>1. requests' = [requests EXCEPT ![c] = None]
        /\ UNCHANGED <<tree, indexed_changelog, leaves>>
    BY <1>4 DEF InsertFails
  <2>2. \A d \in Client : requests'[d] = None \/ requests'[d] = requests[d]
    BY <1>1, <2>1
  <2> QED
    BY <1>1, <2>1, <2>2 DEF StaleInsertionsInv
<1>5. CASE UNCHANGED indexed_vars
  <2>1. UNCHANGED <<tree, indexed_changelog, leaves, requests>>
    BY <1>5 DEF indexed_vars
  <2> QED
    BY <1>1, <2>1 DEF StaleInsertionsInv
<1> QED
  BY <1>2, <1>3, <1>4, <1>5 DEF IndexedNext

\* A forester that named the right low element is not made to start again by
\* the insertions of others: while both changelogs reach back to its request,
\* patch_elements_and_proof finds the element that is the low element now, with
\* a proof that the concurrent tree accepts, unless the address itself was
\* inserted, for every height, canopy and size of the changelogs.
THEOREM StaleInsertionsSurvive ==
    IndexedSpec => []StaleInsertionsAccepted
<1>1. IndexedInv /\ StaleInsertionsInv => StaleInsertionsAccepted
  <2> SUFFICES ASSUME IndexedInv, StaleInsertionsInv, NEW c \in Client, requests[c] # None,
                      requests[c].low_element.value < requests[c].value,
                      requests[c].value < requests[c].low_next_value,
                      requests[c].value \notin Values,
                      tree.sequence_number - requests[c].sequence_number < ChangelogCapacity,
                      tree.sequence_number - requests[c].sequence_number < IndexedChangelogCapacity,
                      tree.next_index < Pow2[Height]
               PROVE  AcceptsInsertion(requests[c])
    BY DEF StaleInsertionsAccepted
  <2> DEFINE r == requests[c]
             lag == tree.sequence_number - r.sequence_number
  <2>1. Wanted(r, leaves, tree.next_index)
    BY DEF Wanted, Values, Elements
  <2>2. r.value \in Nat
    BY IndexedAssumption DEF IndexedInv, InsertRequestsInv
  <2>3. Patchable(r, tree, leaves, indexed_changelog, lag)
    BY <2>1 DEF StaleInsertionsInv, InsertionSurvives
  <2> HIDE DEF r, lag
  <2>4. AcceptsInsertion(r)
    BY <2>2, <2>3, PatchableAccepted
  <2> QED
    BY <2>4 DEF r
<1>2. IndexedSpec => []StaleInsertionsInv
  BY IndexedAlways, StaleInsertionsInit, StaleInsertionsNext, PTL DEF IndexedSpec
<1> QED
  BY <1>1, <1>2, IndexedAlways, PTL
=============================================================================
