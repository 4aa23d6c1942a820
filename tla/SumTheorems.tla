---------------------------- MODULE SumTheorems ----------------------------
(***************************************************************************)
(* What the proofs need of SumFunctionOnSet, the sum of the values of a    *)
(* function over a finite set: it is zero for the empty set, and any       *)
(* element may be split off.  Induction is by a smallest counterexample,   *)
(* the well-foundedness of numbers and of finite sets.                     *)
(***************************************************************************)
EXTENDS Functions, FiniteSetTheorems, TLAPS

\* A set of natural numbers has a least element.
LEMMA LeastNumber ==
    ASSUME NEW T, T \subseteq Nat, T # {}
    PROVE  \E m \in T : \A k \in T : m <= k
<1>1. PICK m \in T : \A k \in T : ~(<<k, m>> \in OpToRel(<, Nat))
  BY NatLessThanWellFounded, WFMin
<1>2. OpToRel(<, Nat) = {ss \in Nat \X Nat : ss[1] < ss[2]}
  BY Zenon DEF OpToRel
<1>3. \A k \in T : ~(<<k, m>> \in {ss \in Nat \X Nat : ss[1] < ss[2]})
  BY <1>1, <1>2, Zenon
<1>4. ASSUME NEW k \in T PROVE m <= k
  <2>1. k \in Nat /\ m \in Nat
    OBVIOUS
  <2>2. ~(<<k, m>>[1] < <<k, m>>[2])
    BY <1>3, <2>1, Zenon
  <2> QED
    BY <2>1, <2>2
<1> QED
  BY <1>4

\* A set of subsets of a finite set has a minimal element.
LEMMA MinimalSet ==
    ASSUME NEW S, IsFiniteSet(S), NEW T, T \subseteq SUBSET S, T # {}
    PROVE  \E s \in T : \A t \in T : t \subseteq s => t = s
<1>1. T \subseteq FiniteSubsetsOf(S)
  BY FS_Subset DEF FiniteSubsetsOf
<1>2. PICK s \in T : \A t \in T : ~(<<t, s>> \in StrictSubsetOrdering(S))
  BY <1>1, FS_StrictSubsetOrderingWellFounded, WFMin
<1> QED
  BY <1>2 DEF StrictSubsetOrdering

-----------------------------------------------------------------------------
\* One round of the fold, and the function that the fold computes.
Some(s) == CHOOSE x \in s : TRUE
Round(w, g, s) == IF s = {} THEN 0 ELSE w[Some(s)] + g[s \ {Some(s)}]
Sums(w, g, D) == g = [s \in D |-> Round(w, g, s)]

\* The element that is split off is one of the set.
LEMMA SomeIsElement ==
    ASSUME NEW s, s # {}
    PROVE  Some(s) \in s
BY DEF Some

\* The fold is defined: there is a function that satisfies its recursion.
LEMMA SumsExist ==
    ASSUME NEW w, NEW S, IsFiniteSet(S)
    PROVE  \E g : Sums(w, g, SUBSET S)
<1> DEFINE D(n) == {s \in SUBSET S : Cardinality(s) <= n}
           Bad == {n \in Nat : ~\E g : Sums(w, g, D(n))}
<1>1. \A s \in SUBSET S : IsFiniteSet(s) /\ Cardinality(s) \in Nat /\ Cardinality(s) <= Cardinality(S)
  BY FS_Subset, FS_CardinalityType
<1>2. Bad = {}
  <2>1. SUFFICES ASSUME Bad # {} PROVE FALSE
    OBVIOUS
  <2>2. PICK n \in Bad : \A k \in Bad : n <= k
    <3>1. Bad \subseteq Nat
      OBVIOUS
    <3> HIDE DEF Bad
    <3> QED
      BY <2>1, <3>1, LeastNumber
  <2>3. \E g : Sums(w, g, D(n))
    <3>1. CASE n = 0
      <4>1. D(0) = {{}}
        BY <1>1, FS_EmptySet
      <4>2. Sums(w, [s \in {{}} |-> 0], {{}})
        BY DEF Sums, Round
      <4> QED
        BY <3>1, <4>1, <4>2
    <3>2. CASE n # 0
      <4>1. n \in Nat /\ n - 1 \in Nat /\ n - 1 \notin Bad
        <5>1. n \in Nat
          OBVIOUS
        <5>2. n - 1 \in Nat /\ ~(n <= n - 1)
          BY <3>2, <5>1
        <5> HIDE DEF Bad
        <5> QED
          BY <2>2, <5>1, <5>2
      <4>2. PICK g : Sums(w, g, D(n - 1))
        BY <4>1
      <4> DEFINE h == [s \in D(n) |-> Round(w, g, s)]
      <4>3. ASSUME NEW s \in D(n) PROVE Round(w, g, s) = Round(w, h, s)
        <5>1. CASE s = {}
          BY <5>1 DEF Round
        <5>2. CASE s # {}
          <6> DEFINE t == s \ {Some(s)}
          <6>1. Some(s) \in s
            BY <5>2, SomeIsElement
          <6>2. t \in SUBSET S /\ Cardinality(t) = Cardinality(s) - 1
            BY <1>1, <6>1, FS_RemoveElement
          <6>3. t \in D(n) /\ t \in D(n - 1)
            BY <1>1, <4>1, <6>2
          <6>4. g[t] = Round(w, g, t)
            BY <4>2, <6>3 DEF Sums
          <6>5. h[t] = Round(w, g, t)
            BY <6>3
          <6> QED
            BY <5>2, <6>4, <6>5 DEF Round
        <5> QED
          BY <5>1, <5>2
      <4>4. h = [s \in D(n) |-> Round(w, h, s)]
        BY <4>3
      <4> QED
        BY <4>4 DEF Sums
    <3> QED
      BY <3>1, <3>2
  <2> QED
    BY <2>2, <2>3
<1>3. Cardinality(S) \in Nat
  BY FS_CardinalityType
<1>4. D(Cardinality(S)) = SUBSET S
  BY <1>1
<1> QED
  BY <1>2, <1>3, <1>4

\* The sum is the value of such a function.
LEMMA SumValue ==
    ASSUME NEW w, NEW S, IsFiniteSet(S)
    PROVE  \E g : Sums(w, g, SUBSET S) /\ SumFunctionOnSet(w, S) = g[S]
<1> DEFINE g == CHOOSE h : h = [s \in SUBSET S |-> Round(w, h, s)]
<1>1. Sums(w, g, SUBSET S)
  BY SumsExist DEF Sums
<1>2. SumFunctionOnSet(w, S) = g[S]
  BY DEF SumFunctionOnSet, FoldFunctionOnSet, MapThenFoldSet, Round, Some
<1> QED
  BY <1>1, <1>2

\* The recursion determines the values, whatever the domain.
LEMMA SumsAgree ==
    ASSUME NEW w, NEW S, NEW T, IsFiniteSet(T), S \subseteq T, NEW g, NEW h,
           Sums(w, g, SUBSET S), Sums(w, h, SUBSET T)
    PROVE  g[S] = h[S]
<1> DEFINE Bad == {s \in SUBSET S : g[s] # h[s]}
<1>1. SUFFICES ASSUME Bad # {} PROVE FALSE
  OBVIOUS
<1>2. IsFiniteSet(S) /\ Bad \subseteq SUBSET S
  BY FS_Subset
<1>3. PICK s \in Bad : \A t \in Bad : t \subseteq s => t = s
  <2> HIDE DEF Bad
  <2> QED
    BY <1>1, <1>2, MinimalSet
<1>4. g[s] = Round(w, g, s) /\ h[s] = Round(w, h, s)
  BY DEF Sums
<1>5. CASE s = {}
  BY <1>4, <1>5 DEF Round
<1>6. CASE s # {}
  <2>1. Some(s) \in s
    BY <1>6, SomeIsElement
  <2>2. s \ {Some(s)} \in SUBSET S /\ s \ {Some(s)} # s
    BY <2>1
  <2>3. g[s \ {Some(s)}] = h[s \ {Some(s)}]
    BY <1>3, <2>2
  <2> QED
    BY <1>4, <1>6, <2>3 DEF Round
<1> QED
  BY <1>5, <1>6

\* The sum over the empty set is zero.
LEMMA SumEmpty ==
    ASSUME NEW w
    PROVE  SumFunctionOnSet(w, {}) = 0
<1>1. PICK g : Sums(w, g, SUBSET {}) /\ SumFunctionOnSet(w, {}) = g[{}]
  BY FS_EmptySet, SumValue
<1> QED
  BY <1>1 DEF Sums, Round

\* The fold splits off the element it chooses.
LEMMA SumRound ==
    ASSUME NEW w, NEW S, IsFiniteSet(S), S # {}
    PROVE  SumFunctionOnSet(w, S) = w[Some(S)] + SumFunctionOnSet(w, S \ {Some(S)})
<1> DEFINE T == S \ {Some(S)}
<1>1. PICK g : Sums(w, g, SUBSET S) /\ SumFunctionOnSet(w, S) = g[S]
  BY SumValue
<1>2. IsFiniteSet(T) /\ T \subseteq S
  BY FS_Subset
<1>3. PICK h : Sums(w, h, SUBSET T) /\ SumFunctionOnSet(w, T) = h[T]
  BY <1>2, SumValue
<1>4. h[T] = g[T]
  <2> HIDE DEF T
  <2> QED
    BY <1>1, <1>2, <1>3, SumsAgree
<1>5. g[S] = Round(w, g, S)
  BY <1>1 DEF Sums
<1> QED
  BY <1>1, <1>3, <1>4, <1>5 DEF Round

\* The sum of numbers is a number.
LEMMA SumType ==
    ASSUME NEW S, IsFiniteSet(S), NEW w, \A x \in S : w[x] \in Nat
    PROVE  SumFunctionOnSet(w, S) \in Nat
<1> DEFINE Bad == {s \in SUBSET S : SumFunctionOnSet(w, s) \notin Nat}
<1>1. SUFFICES ASSUME Bad # {} PROVE FALSE
  OBVIOUS
<1>2. Bad \subseteq SUBSET S
  OBVIOUS
<1>3. PICK s \in Bad : \A t \in Bad : t \subseteq s => t = s
  <2> HIDE DEF Bad
  <2> QED
    BY <1>1, <1>2, MinimalSet
<1>4. s # {}
  BY SumEmpty
<1>5. IsFiniteSet(s) /\ Some(s) \in s
  BY <1>4, FS_Subset, SomeIsElement
<1>6. SumFunctionOnSet(w, s) = w[Some(s)] + SumFunctionOnSet(w, s \ {Some(s)})
  BY <1>4, <1>5, SumRound
<1>7. s \ {Some(s)} \in SUBSET S /\ s \ {Some(s)} # s
  BY <1>5
<1>8. SumFunctionOnSet(w, s \ {Some(s)}) \in Nat
  BY <1>3, <1>7
<1>9. w[Some(s)] \in Nat
  BY <1>5
<1> QED
  BY <1>6, <1>8, <1>9

\* Any element may be split off.
LEMMA SumSplit ==
    ASSUME NEW S, IsFiniteSet(S), NEW w, \A x \in S : w[x] \in Nat, NEW x \in S
    PROVE  SumFunctionOnSet(w, S) = w[x] + SumFunctionOnSet(w, S \ {x})
<1> DEFINE Sum(s) == SumFunctionOnSet(w, s)
           Bad == {s \in SUBSET S : \E z \in s : Sum(s) # w[z] + Sum(s \ {z})}
<1>1. SUFFICES ASSUME Bad # {} PROVE FALSE
  OBVIOUS
<1>2. Bad \subseteq SUBSET S
  OBVIOUS
<1>3. PICK s \in Bad : \A t \in Bad : t \subseteq s => t = s
  <2> HIDE DEF Bad
  <2> QED
    BY <1>1, <1>2, MinimalSet
<1>4. PICK z \in s : Sum(s) # w[z] + Sum(s \ {z})
  OBVIOUS
<1> DEFINE y == Some(s)
<1>5. IsFiniteSet(s) /\ y \in s /\ s \in SUBSET S
  BY <1>4, FS_Subset, SomeIsElement
<1>6. Sum(s) = w[y] + Sum(s \ {y})
  BY <1>4, <1>5, SumRound
<1>7. y # z
  BY <1>4, <1>6
<1> HIDE DEF y
<1>8. s \ {y} \notin Bad /\ s \ {z} \notin Bad
  BY <1>3, <1>4, <1>5
<1>9. Sum(s \ {y}) = w[z] + Sum((s \ {y}) \ {z})
  <2>1. z \in s \ {y} /\ s \ {y} \in SUBSET S
    BY <1>5, <1>7
  <2> HIDE DEF Sum
  <2> QED
    BY <1>8, <2>1
<1>10. Sum(s \ {z}) = w[y] + Sum((s \ {z}) \ {y})
  <2>1. y \in s \ {z} /\ s \ {z} \in SUBSET S
    BY <1>5, <1>7
  <2> HIDE DEF Sum
  <2> QED
    BY <1>8, <2>1
<1>11. (s \ {y}) \ {z} = (s \ {z}) \ {y}
  OBVIOUS
<1>12. w[y] \in Nat /\ w[z] \in Nat /\ Sum((s \ {y}) \ {z}) \in Nat
  <2>1. (s \ {y}) \ {z} \subseteq S /\ IsFiniteSet((s \ {y}) \ {z})
    BY <1>5, FS_Subset
  <2>2. Sum((s \ {y}) \ {z}) \in Nat
    BY <2>1, SumType
  <2> QED
    BY <1>5, <2>2
<1> HIDE DEF Sum
<1> QED
  BY <1>4, <1>6, <1>9, <1>10, <1>11, <1>12

\* The sum depends only on the values in the set.
LEMMA SumSame ==
    ASSUME NEW S, IsFiniteSet(S), NEW v, NEW w, \A x \in S : v[x] = w[x]
    PROVE  SumFunctionOnSet(v, S) = SumFunctionOnSet(w, S)
<1> DEFINE Bad == {s \in SUBSET S : SumFunctionOnSet(v, s) # SumFunctionOnSet(w, s)}
<1>1. SUFFICES ASSUME Bad # {} PROVE FALSE
  OBVIOUS
<1>2. Bad \subseteq SUBSET S
  OBVIOUS
<1>3. PICK s \in Bad : \A t \in Bad : t \subseteq s => t = s
  <2> HIDE DEF Bad
  <2> QED
    BY <1>1, <1>2, MinimalSet
<1>4. s # {}
  BY SumEmpty
<1>5. IsFiniteSet(s) /\ Some(s) \in s
  BY <1>4, FS_Subset, SomeIsElement
<1>6. /\ SumFunctionOnSet(v, s) = v[Some(s)] + SumFunctionOnSet(v, s \ {Some(s)})
      /\ SumFunctionOnSet(w, s) = w[Some(s)] + SumFunctionOnSet(w, s \ {Some(s)})
  BY <1>4, <1>5, SumRound
<1>7. s \ {Some(s)} \in SUBSET S /\ s \ {Some(s)} # s
  BY <1>5
<1>8. SumFunctionOnSet(v, s \ {Some(s)}) = SumFunctionOnSet(w, s \ {Some(s)})
  BY <1>3, <1>7
<1>9. v[Some(s)] = w[Some(s)]
  BY <1>5
<1> QED
  BY <1>6, <1>8, <1>9

\* A change of one value changes the sum by as much.
LEMMA SumChange ==
    ASSUME NEW S, IsFiniteSet(S), NEW v, NEW w, NEW x \in S,
           \A y \in S : v[y] \in Nat /\ w[y] \in Nat,
           \A y \in S \ {x} : v[y] = w[y]
    PROVE  SumFunctionOnSet(w, S) + v[x] = SumFunctionOnSet(v, S) + w[x]
<1> DEFINE T == S \ {x}
<1>1. /\ SumFunctionOnSet(v, S) = v[x] + SumFunctionOnSet(v, T)
      /\ SumFunctionOnSet(w, S) = w[x] + SumFunctionOnSet(w, T)
  BY SumSplit
<1>2. IsFiniteSet(T)
  BY FS_Subset
<1>3. SumFunctionOnSet(v, T) = SumFunctionOnSet(w, T) /\ SumFunctionOnSet(v, T) \in Nat
  <2>1. \A y \in T : v[y] = w[y] /\ v[y] \in Nat
    OBVIOUS
  <2> HIDE DEF T
  <2> QED
    BY <1>2, <2>1, SumSame, SumType
<1> HIDE DEF T
<1> QED
  BY <1>1, <1>3

\* The sum of zeros is zero.
LEMMA SumZero ==
    ASSUME NEW S, IsFiniteSet(S), NEW w, \A x \in S : w[x] = 0
    PROVE  SumFunctionOnSet(w, S) = 0
<1> DEFINE Bad == {s \in SUBSET S : SumFunctionOnSet(w, s) # 0}
<1>1. SUFFICES ASSUME Bad # {} PROVE FALSE
  OBVIOUS
<1>2. Bad \subseteq SUBSET S
  OBVIOUS
<1>3. PICK s \in Bad : \A t \in Bad : t \subseteq s => t = s
  <2> HIDE DEF Bad
  <2> QED
    BY <1>1, <1>2, MinimalSet
<1>4. s # {}
  BY SumEmpty
<1>5. IsFiniteSet(s) /\ Some(s) \in s
  BY <1>4, FS_Subset, SomeIsElement
<1>6. SumFunctionOnSet(w, s) = w[Some(s)] + SumFunctionOnSet(w, s \ {Some(s)})
  BY <1>4, <1>5, SumRound
<1>7. s \ {Some(s)} \in SUBSET S /\ s \ {Some(s)} # s
  BY <1>5
<1>8. SumFunctionOnSet(w, s \ {Some(s)}) = 0 /\ w[Some(s)] = 0
  BY <1>3, <1>5, <1>7
<1> QED
  BY <1>6, <1>8

\* The sum over two sets that have nothing in common is the sum of the sums.
LEMMA SumUnion ==
    ASSUME NEW S, IsFiniteSet(S), NEW T, IsFiniteSet(T), S \cap T = {},
           NEW w, \A x \in S \cup T : w[x] \in Nat
    PROVE  SumFunctionOnSet(w, S \cup T) = SumFunctionOnSet(w, S) + SumFunctionOnSet(w, T)
<1> DEFINE Sum(s) == SumFunctionOnSet(w, s)
           Bad == {s \in SUBSET S : Sum(s \cup T) # Sum(s) + Sum(T)}
<1>1. SUFFICES ASSUME Bad # {} PROVE FALSE
  OBVIOUS
<1>2. Bad \subseteq SUBSET S
  OBVIOUS
<1>3. PICK s \in Bad : \A t \in Bad : t \subseteq s => t = s
  <2> HIDE DEF Bad
  <2> QED
    BY <1>1, <1>2, MinimalSet
<1>4. s \subseteq S /\ IsFiniteSet(s) /\ IsFiniteSet(s \cup T)
  BY FS_Subset, FS_Union
<1>5. Sum(T) \in Nat
  BY SumType
<1>6. CASE s = {}
  <2>1. Sum(s) = 0
    BY <1>6, SumEmpty
  <2>2. Sum(s \cup T) = Sum(T)
    <3>1. s \cup T = T
      BY <1>6
    <3> QED
      BY <3>1
  <2>3. Sum(s \cup T) # Sum(s) + Sum(T)
    BY <1>3
  <2> HIDE DEF Sum
  <2> QED
    BY <1>5, <2>1, <2>2, <2>3
<1>7. CASE s # {}
  <2>1. PICK x \in s : TRUE
    BY <1>7
  <2>2. s \ {x} \in SUBSET S /\ s \ {x} # s /\ s \ {x} \subseteq s
    BY <1>4
  <2>3. Sum((s \ {x}) \cup T) = Sum(s \ {x}) + Sum(T)
    BY <1>3, <2>2
  <2>4. Sum(s \cup T) = w[x] + Sum((s \cup T) \ {x})
    BY <1>4, SumSplit
  <2>5. Sum(s) = w[x] + Sum(s \ {x})
    BY <1>4, SumSplit
  <2>6. Sum((s \cup T) \ {x}) = Sum((s \ {x}) \cup T)
    <3>1. (s \cup T) \ {x} = (s \ {x}) \cup T
      BY <1>4
    <3> QED
      BY <3>1
  <2>7. Sum(s \ {x}) \in Nat /\ w[x] \in Nat
    <3>1. IsFiniteSet(s \ {x}) /\ \A y \in s \ {x} : w[y] \in Nat
      BY <1>4, FS_RemoveElement
    <3> QED
      BY <1>4, <3>1, SumType
  <2>8. Sum(s \cup T) # Sum(s) + Sum(T)
    BY <1>3
  <2> HIDE DEF Sum
  <2> QED
    BY <1>5, <2>3, <2>4, <2>5, <2>6, <2>7, <2>8
<1> QED
  BY <1>6, <1>7

-----------------------------------------------------------------------------
\* F gives the rounds of a recursion up to n, and f is what they compute from x.
Rounds(F, n, V) == F \in [1 .. n -> [V -> V]]
Computes(f, x, F, n, V) ==
    /\ f \in [0 .. n -> V] /\ f[0] = x
    /\ \A i \in 1 .. n : f[i] = F[i][f[i - 1]]

\* Recursion over the numbers up to n defines a function.
LEMMA RecursionExists ==
    ASSUME NEW V, NEW x \in V, NEW n \in Nat, NEW F, Rounds(F, n, V)
    PROVE  \E f : Computes(f, x, F, n, V)
<1> DEFINE Is(f, m) == f[0] = x /\ \A i \in 1 .. m : f[i] = F[i][f[i - 1]]
           Bad == {m \in 0 .. n : ~\E f \in [0 .. m -> V] : Is(f, m)}
<1>1. SUFFICES ASSUME Bad # {} PROVE FALSE
  <2>1. SUFFICES Bad = {} => \E f : Computes(f, x, F, n, V)
    OBVIOUS
  <2> HAVE Bad = {}
  <2>2. n \in 0 .. n
    OBVIOUS
  <2>3. PICK f \in [0 .. n -> V] : Is(f, n)
    BY <2>2
  <2> QED
    BY <2>3 DEF Computes
<1>2. Bad \subseteq Nat
  OBVIOUS
<1>3. PICK m \in Bad : \A k \in Bad : m <= k
  <2> HIDE DEF Bad
  <2> QED
    BY <1>1, <1>2, LeastNumber
<1>4. m \in 0 .. n /\ ~\E f \in [0 .. m -> V] : Is(f, m)
  OBVIOUS
<1>5. CASE m = 0
  <2> DEFINE f == [i \in 0 .. 0 |-> x]
  <2>1. f \in [0 .. m -> V] /\ Is(f, m)
    BY <1>5
  <2> QED
    BY <1>4, <2>1
<1>6. CASE m > 0
  <2>1. m - 1 \in 0 .. n /\ m - 1 \notin Bad
    <3>1. m - 1 \in 0 .. n /\ ~(m <= m - 1)
      BY <1>4, <1>6
    <3> HIDE DEF Bad
    <3> QED
      BY <1>3, <3>1
  <2>2. PICK f \in [0 .. m - 1 -> V] : Is(f, m - 1)
    BY <2>1
  <2> DEFINE g == [i \in 0 .. m |-> IF i = m THEN F[m][f[m - 1]] ELSE f[i]]
  <2>3. F[m] \in [V -> V] /\ f[m - 1] \in V
    BY <1>4, <1>6 DEF Rounds
  <2>4. g \in [0 .. m -> V]
    BY <1>4, <1>6, <2>3
  <2>5. Is(g, m)
    BY <1>4, <1>6, <2>2
  <2> QED
    BY <1>4, <2>4, <2>5
<1> QED
  BY <1>4, <1>5, <1>6

\* What a recursion computes stays where its rounds stay.
LEMMA RecursionStays ==
    ASSUME NEW V, NEW x \in V, NEW n \in Nat, NEW F, Rounds(F, n, V), NEW f, f[0] = x,
           \A i \in 1 .. n : f[i - 1] \in V => f[i] = F[i][f[i - 1]]
    PROVE  \A i \in 0 .. n : f[i] \in V
<1> DEFINE Bad == {m \in 0 .. n : f[m] \notin V}
<1>1. SUFFICES ASSUME Bad # {} PROVE FALSE
  OBVIOUS
<1>2. PICK m \in Bad : \A k \in Bad : m <= k
  <2>1. Bad \subseteq Nat
    OBVIOUS
  <2> HIDE DEF Bad
  <2> QED
    BY <1>1, <2>1, LeastNumber
<1>3. m \in 0 .. n /\ f[m] \notin V /\ m # 0
  OBVIOUS
<1>4. m \in 1 .. n /\ m - 1 \in 0 .. n /\ ~(m <= m - 1)
  BY <1>3
<1>5. m - 1 \notin Bad
  <2> HIDE DEF Bad
  <2> QED
    BY <1>2, <1>4
<1>6. f[m - 1] \in V
  BY <1>4, <1>5
<1>7. F[m][f[m - 1]] \in V
  BY <1>4, <1>6 DEF Rounds
<1> QED
  BY <1>3, <1>4, <1>6, <1>7

-----------------------------------------------------------------------------
\* Induction over the numbers up to n: a set with 0 that has the successors of
\* its elements has them all.
LEMMA NumberInduction ==
    ASSUME NEW n \in Nat, NEW Good, 0 \in Good,
           \A k \in 0 .. n - 1 : k \in Good => k + 1 \in Good
    PROVE  \A k \in 0 .. n : k \in Good
<1> DEFINE Bad == {k \in 0 .. n : k \notin Good}
<1>1. SUFFICES ASSUME Bad # {} PROVE FALSE
  OBVIOUS
<1>2. PICK m \in Bad : \A k \in Bad : m <= k
  <2>1. Bad \subseteq Nat
    OBVIOUS
  <2> HIDE DEF Bad
  <2> QED
    BY <1>1, <2>1, LeastNumber
<1>3. m \in 0 .. n /\ m \notin Good /\ m # 0
  OBVIOUS
<1>4. m - 1 \in 0 .. n - 1 /\ m - 1 \in 0 .. n /\ ~(m <= m - 1) /\ m - 1 + 1 = m
  BY <1>3
<1>5. m - 1 \notin Bad
  <2> HIDE DEF Bad
  <2> QED
    BY <1>2, <1>4
<1> QED
  BY <1>3, <1>4, <1>5
-----------------------------------------------------------------------------
\* Induction over the subsets of a finite set, one element at a time.
LEMMA SetInduction ==
    ASSUME NEW S, IsFiniteSet(S), NEW Good, {} \in Good,
           \A T \in SUBSET S, x \in S : T \in Good => T \cup {x} \in Good
    PROVE  S \in Good
<1> DEFINE Bad == {s \in SUBSET S : s \notin Good}
<1>1. SUFFICES ASSUME Bad # {} PROVE FALSE
  OBVIOUS
<1>2. PICK s \in Bad : \A t \in Bad : t \subseteq s => t = s
  <2>1. Bad \subseteq SUBSET S
    OBVIOUS
  <2> HIDE DEF Bad
  <2> QED
    BY <1>1, <2>1, MinimalSet
<1>3. s \in SUBSET S /\ s \notin Good /\ s # {}
  OBVIOUS
<1>4. PICK x \in s : TRUE
  BY <1>3
<1>5. s \ {x} \in SUBSET S /\ x \in S /\ (s \ {x}) \cup {x} = s
  BY <1>3
<1>6. s \ {x} \in Good
  BY <1>2, <1>5
<1> QED
  BY <1>3, <1>5, <1>6

\* An element that is added adds its value.
LEMMA SumAdd ==
    ASSUME NEW S, IsFiniteSet(S), NEW w, \A y \in S : w[y] \in Nat,
           NEW T \in SUBSET S, NEW x \in S, x \notin T
    PROVE  /\ SumFunctionOnSet(w, T \cup {x}) = w[x] + SumFunctionOnSet(w, T)
           /\ SumFunctionOnSet(w, T) \in Nat /\ w[x] \in Nat
<1> DEFINE U == T \cup {x}
<1>1. U \subseteq S /\ IsFiniteSet(U) /\ IsFiniteSet(T) /\ x \in U /\ U \ {x} = T
  BY FS_Subset
<1>2. \A y \in U : w[y] \in Nat
  BY <1>1
<1> HIDE DEF U
<1>3. SumFunctionOnSet(w, U) = w[x] + SumFunctionOnSet(w, U \ {x})
  BY <1>1, <1>2, SumSplit
<1>4. SumFunctionOnSet(w, T) \in Nat
  BY <1>1, SumType
<1> QED
  BY <1>1, <1>3, <1>4 DEF U

\* The sum of sums.
LEMMA SumPlus ==
    ASSUME NEW S, IsFiniteSet(S), NEW u, NEW v, NEW w,
           \A x \in S : v[x] \in Nat /\ w[x] \in Nat /\ u[x] = v[x] + w[x]
    PROVE  SumFunctionOnSet(u, S) = SumFunctionOnSet(v, S) + SumFunctionOnSet(w, S)
<1> DEFINE Sum(f, s) == SumFunctionOnSet(f, s)
           Good == {s \in SUBSET S : Sum(u, s) = Sum(v, s) + Sum(w, s)}
<1>1. {} \in Good
  BY SumEmpty
<1>2. ASSUME NEW T \in SUBSET S, NEW x \in S, T \in Good PROVE T \cup {x} \in Good
  <2>1. CASE x \in T
    <3>1. T \cup {x} = T
      BY <2>1
    <3> QED
      BY <1>2, <3>1, Zenon
  <2>2. CASE x \notin T
    <3>1. (\A y \in S : u[y] \in Nat) /\ (\A y \in S : v[y] \in Nat) /\ \A y \in S : w[y] \in Nat
      OBVIOUS
    <3>2. Sum(u, T \cup {x}) = u[x] + Sum(u, T)
      BY <2>2, <3>1, SumAdd
    <3>3. Sum(v, T \cup {x}) = v[x] + Sum(v, T) /\ Sum(v, T) \in Nat
      BY <2>2, <3>1, SumAdd
    <3>4. Sum(w, T \cup {x}) = w[x] + Sum(w, T) /\ Sum(w, T) \in Nat
      BY <2>2, <3>1, SumAdd
    <3>5. Sum(u, T) = Sum(v, T) + Sum(w, T)
      BY <1>2
    <3>6. T \cup {x} \in SUBSET S
      OBVIOUS
    <3>7. v[x] \in Nat /\ w[x] \in Nat /\ u[x] = v[x] + w[x]
      OBVIOUS
    <3> HIDE DEF Sum
    <3>8. Sum(u, T \cup {x}) = Sum(v, T \cup {x}) + Sum(w, T \cup {x})
      BY <3>2, <3>3, <3>4, <3>5, <3>7
    <3> QED
      BY <3>6, <3>8
  <2> QED
    BY <2>1, <2>2
<1>3. S \in Good
  <2> HIDE DEF Good
  <2> QED
    BY <1>1, <1>2, SetInduction
<1> QED
  BY <1>3

\* The values of a function on a finite set are finitely many.
LEMMA FiniteImage ==
    ASSUME NEW S, IsFiniteSet(S), NEW f
    PROVE  IsFiniteSet({f[x] : x \in S})
<1> DEFINE T == {f[x] : x \in S}
           g == [x \in S |-> f[x]]
<1>1. g \in Surjection(S, T)
  BY DEF Surjection
<1> HIDE DEF g, T
<1>2. IsFiniteSet(T)
  BY <1>1, FS_Surjection
<1> QED
  BY <1>2 DEF T

\* The sum of n times every value.
LEMMA SumTimes ==
    ASSUME NEW S, IsFiniteSet(S), NEW n \in Nat, NEW v, NEW w,
           \A x \in S : v[x] \in Nat /\ w[x] = v[x] * n
    PROVE  SumFunctionOnSet(w, S) = SumFunctionOnSet(v, S) * n
<1> DEFINE Sum(f, s) == SumFunctionOnSet(f, s)
           Good == {s \in SUBSET S : Sum(w, s) = Sum(v, s) * n}
<1>1. {} \in Good
  BY SumEmpty
<1>2. ASSUME NEW T \in SUBSET S, NEW x \in S, T \in Good PROVE T \cup {x} \in Good
  <2>1. CASE x \in T
    <3>1. T \cup {x} = T
      BY <2>1
    <3> QED
      BY <1>2, <3>1, Zenon
  <2>2. CASE x \notin T
    <3>1. (\A y \in S : v[y] \in Nat) /\ \A y \in S : w[y] \in Nat
      OBVIOUS
    <3>2. Sum(w, T \cup {x}) = w[x] + Sum(w, T)
      BY <2>2, <3>1, SumAdd
    <3>3. Sum(v, T \cup {x}) = v[x] + Sum(v, T) /\ Sum(v, T) \in Nat
      BY ONLY <2>2, <3>1, SumAdd, IsFiniteSet(S), T \in SUBSET S, x \in S
    <3>4. Sum(w, T) = Sum(v, T) * n
      BY <1>2
    <3>5. T \cup {x} \in SUBSET S
      OBVIOUS
    <3>6. v[x] \in Nat /\ w[x] = v[x] * n
      OBVIOUS
    <3> HIDE DEF Sum
    <3>7. (v[x] + Sum(v, T)) * n = v[x] * n + Sum(v, T) * n
      BY <3>3, <3>6
    <3>8. Sum(w, T \cup {x}) = Sum(v, T \cup {x}) * n
      BY <3>2, <3>3, <3>4, <3>6, <3>7
    <3> QED
      BY <3>5, <3>8
  <2> QED
    BY <2>1, <2>2
<1>3. S \in Good
  <2> HIDE DEF Good
  <2> QED
    BY <1>1, <1>2, SetInduction
<1> QED
  BY <1>3

\* The sum of ones counts the elements.
LEMMA SumOnes ==
    ASSUME NEW S, IsFiniteSet(S), NEW w, \A x \in S : w[x] = 1
    PROVE  SumFunctionOnSet(w, S) = Cardinality(S)
<1> DEFINE Sum(s) == SumFunctionOnSet(w, s)
           Good == {s \in SUBSET S : Sum(s) = Cardinality(s)}
<1>1. {} \in Good
  BY SumEmpty, FS_EmptySet
<1>2. ASSUME NEW T \in SUBSET S, NEW x \in S, T \in Good PROVE T \cup {x} \in Good
  <2>1. CASE x \in T
    <3>1. T \cup {x} = T
      BY <2>1
    <3> QED
      BY <1>2, <3>1, Zenon
  <2>2. CASE x \notin T
    <3>1. \A y \in S : w[y] \in Nat
      OBVIOUS
    <3>2. Sum(T \cup {x}) = w[x] + Sum(T)
      BY <2>2, <3>1, SumAdd
    <3>3. IsFiniteSet(T) /\ Cardinality(T) \in Nat
      BY FS_Subset, FS_CardinalityType
    <3>4. Cardinality(T \cup {x}) = Cardinality(T) + 1
      BY <2>2, <3>3, FS_AddElement
    <3>5. Sum(T) = Cardinality(T) /\ w[x] = 1 /\ T \cup {x} \in SUBSET S
      BY <1>2
    <3> HIDE DEF Sum
    <3>6. Sum(T \cup {x}) = Cardinality(T \cup {x})
      BY <3>2, <3>3, <3>4, <3>5
    <3> QED
      BY <3>5, <3>6
  <2> QED
    BY <2>1, <2>2
<1>3. S \in Good
  <2> HIDE DEF Good
  <2> QED
    BY <1>1, <1>2, SetInduction
<1> QED
  BY <1>3

\* The elements of S that f maps to b
FibreOf(f, S, b) == {x \in S : f[x] = b}

\* A sum may be taken class by class: w[b] is the sum of v over the elements
\* that f maps to b.
LEMMA SumFibres ==
    ASSUME NEW S, IsFiniteSet(S), NEW v, \A x \in S : v[x] \in Nat, NEW f,
           NEW R, IsFiniteSet(R), \A x \in S : f[x] \in R,
           NEW w, \A b \in R : w[b] = SumFunctionOnSet(v, FibreOf(f, S, b))
    PROVE  SumFunctionOnSet(w, R) = SumFunctionOnSet(v, S)
<1> DEFINE Sum(g, s) == SumFunctionOnSet(g, s)
           Fibre(b) == FibreOf(f, S, b)
           Over(Q) == {x \in S : f[x] \in Q}
           Good == {Q \in SUBSET R : Sum(w, Q) = Sum(v, Over(Q))}
<1>1. {} \in Good
  <2>1. Over({}) = {}
    OBVIOUS
  <2> QED
    BY <2>1, SumEmpty
<1>2. \A b \in R : w[b] \in Nat
  <2> TAKE b \in R
  <2>1. Fibre(b) \subseteq S /\ IsFiniteSet(Fibre(b)) /\ \A x \in Fibre(b) : v[x] \in Nat
    BY FS_Subset DEF FibreOf
  <2>2. w[b] = Sum(v, Fibre(b))
    OBVIOUS
  <2> HIDE DEF Fibre
  <2> QED
    BY <2>1, <2>2, SumType
<1>3. ASSUME NEW Q \in SUBSET R, NEW b \in R, Q \in Good PROVE Q \cup {b} \in Good
  <2>1. CASE b \in Q
    <3>1. Q \cup {b} = Q
      BY <2>1
    <3> QED
      BY <1>3, <3>1, Zenon
  <2>2. CASE b \notin Q
    <3>1. Sum(w, Q \cup {b}) = w[b] + Sum(w, Q) /\ Sum(w, Q) \in Nat
      BY <1>2, <2>2, SumAdd
    <3>2. /\ Over(Q \cup {b}) = Over(Q) \cup Fibre(b) /\ Over(Q) \cap Fibre(b) = {}
          /\ \A x \in Over(Q) \cup Fibre(b) : v[x] \in Nat
          /\ Over(Q) \subseteq S /\ Fibre(b) \subseteq S
      BY <2>2 DEF FibreOf
    <3>3. Sum(w, Q) = Sum(v, Over(Q)) /\ w[b] = Sum(v, Fibre(b)) /\ Q \cup {b} \in SUBSET R
      BY <1>3
    <3>4. w[b] \in Nat
      BY <1>2
    <3> HIDE DEF Over, Fibre
    <3>5. IsFiniteSet(Over(Q)) /\ IsFiniteSet(Fibre(b))
      BY <3>2, FS_Subset
    <3>6. Sum(v, Over(Q) \cup Fibre(b)) = Sum(v, Over(Q)) + Sum(v, Fibre(b))
      BY <3>2, <3>5, SumUnion
    <3>7. Sum(v, Over(Q \cup {b})) = Sum(v, Over(Q) \cup Fibre(b))
      BY <3>2
    <3> HIDE DEF Sum
    <3>8. Sum(w, Q \cup {b}) = Sum(v, Over(Q \cup {b}))
      BY <3>1, <3>3, <3>4, <3>6, <3>7
    <3> QED
      BY <3>3, <3>8
  <2> QED
    BY <2>1, <2>2
<1>4. R \in Good
  <2> HIDE DEF Good
  <2> QED
    BY <1>1, <1>3, SetInduction
<1>5. Over(R) = S
  OBVIOUS
<1> QED
  BY <1>4, <1>5
=============================================================================
