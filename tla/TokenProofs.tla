---------------------------- MODULE TokenProofs ----------------------------
(***************************************************************************)
(* The compressed tokens of every mint are backed by its pool, a delegate  *)
(* moves no more than what was delegated to it, and frozen accounts stay,  *)
(* for any holders, mints, authorities and amounts.                        *)
(***************************************************************************)
EXTENDS CompressedToken, SumTheorems, SequenceTheorems

-----------------------------------------------------------------------------
\* Bags of token accounts.

IsTokenBag(b) ==
    /\ b \in [DOMAIN b -> Nat \ {0}]
    /\ DOMAIN b \subseteq TokenAccount
    /\ IsFiniteSet(DOMAIN b)

\* How often an account is in a bag
Copies(b, a) == IF a \in DOMAIN b THEN b[a] ELSE 0

\* The accounts of a bag in S, and what they are worth
HeldIn(b, S) == Held(b, DOMAIN b \cap S)

\* What replacing ins by outs makes of a bag
Replaced(old, new, ins, outs) ==
    \A a \in TokenAccount : Copies(new, a) + Copies(ins, a) = Copies(old, a) + Copies(outs, a)

\* Copies are numbers.
LEMMA CopiesType ==
    ASSUME NEW b, IsTokenBag(b), NEW a
    PROVE  Copies(b, a) \in Nat
BY DEF IsTokenBag, Copies

\* The system program's replacement of the inputs by the outputs
LEMMA Execution ==
    ASSUME NEW old, IsTokenBag(old), NEW ins, IsTokenBag(ins), ins \sqsubseteq old,
           NEW outs, IsTokenBag(outs), NEW new, new = (old (-) ins) (+) outs
    PROVE  IsTokenBag(new) /\ Replaced(old, new, ins, outs)
<1>1. /\ DOMAIN ins \subseteq DOMAIN old
      /\ \A a \in DOMAIN ins : ins[a] <= old[a] /\ ins[a] \in Nat \ {0} /\ old[a] \in Nat \ {0}
  BY DEF \sqsubseteq, IsTokenBag
<1> DEFINE B == [a \in DOMAIN old |-> IF a \in DOMAIN ins THEN old[a] - ins[a] ELSE old[a]]
           D == {a \in DOMAIN B : B[a] > 0}
           rest == [a \in D |-> B[a]]
<1>2. old (-) ins = rest
  BY DEF (-)
<1>3. \A a \in TokenAccount : Copies(rest, a) + Copies(ins, a) = Copies(old, a)
  <2> TAKE a \in TokenAccount
  <2>1. CASE a \notin DOMAIN old
    BY <1>1, <2>1 DEF Copies
  <2>2. CASE a \in DOMAIN old /\ a \notin DOMAIN ins
    <3>1. old[a] \in Nat \ {0} /\ B[a] = old[a] /\ a \in D
      BY <2>2 DEF IsTokenBag
    <3> HIDE DEF B, D
    <3> QED
      BY <2>2, <3>1 DEF Copies
  <2>3. CASE a \in DOMAIN ins
    <3>1. /\ ins[a] <= old[a] /\ ins[a] \in Nat \ {0} /\ old[a] \in Nat \ {0}
          /\ a \in DOMAIN old /\ B[a] = old[a] - ins[a] /\ (a \in D <=> B[a] > 0)
      BY <1>1, <2>3
    <3> HIDE DEF B, D
    <3>2. CASE a \in D
      BY <2>3, <3>1, <3>2 DEF Copies
    <3>3. CASE a \notin D
      BY <2>3, <3>1, <3>3 DEF Copies
    <3> QED
      BY <3>2, <3>3
  <2> QED
    BY <2>1, <2>2, <2>3
<1>4. IsTokenBag(rest)
  <2>1. D \subseteq DOMAIN old /\ DOMAIN rest = D
    OBVIOUS
  <2>2. ASSUME NEW a \in D PROVE rest[a] \in Nat \ {0}
    <3>1. a \in DOMAIN old /\ B[a] > 0 /\ rest[a] = B[a] /\ old[a] \in Nat
      BY <2>1 DEF IsTokenBag
    <3>2. CASE a \in DOMAIN ins
      BY <1>1, <3>1, <3>2
    <3>3. CASE a \notin DOMAIN ins
      BY <3>1, <3>3
    <3> QED
      BY <3>2, <3>3
  <2>3. IsFiniteSet(D) /\ D \subseteq TokenAccount
    BY <2>1, FS_Subset DEF IsTokenBag
  <2> HIDE DEF D
  <2>4. rest \in [D -> Nat \ {0}]
    BY <2>2
  <2> QED
    BY <2>1, <2>3, <2>4 DEF IsTokenBag
<1> HIDE DEF rest
<1>5. new = [a \in DOMAIN rest \cup DOMAIN outs |-> Copies(rest, a) + Copies(outs, a)]
  BY <1>2 DEF (+), Copies
<1>6. /\ DOMAIN new = DOMAIN rest \cup DOMAIN outs
      /\ \A a \in DOMAIN new : new[a] = Copies(rest, a) + Copies(outs, a)
  BY <1>5
<1>7. IsTokenBag(new)
  <2>1. \A a \in DOMAIN new : new[a] \in Nat \ {0}
    BY <1>4, <1>6 DEF IsTokenBag, Copies
  <2>2. IsFiniteSet(DOMAIN new) /\ DOMAIN new \subseteq TokenAccount
    BY <1>4, <1>6, FS_Union DEF IsTokenBag
  <2>3. new \in [DOMAIN new -> Nat \ {0}]
    BY <1>5, <2>1
  <2> QED
    BY <2>2, <2>3 DEF IsTokenBag
<1>8. ASSUME NEW a \in TokenAccount
      PROVE  Copies(new, a) + Copies(ins, a) = Copies(old, a) + Copies(outs, a)
  <2>1. Copies(new, a) = Copies(rest, a) + Copies(outs, a)
    <3>1. CASE a \in DOMAIN new
      BY <1>6, <3>1 DEF Copies
    <3>2. CASE a \notin DOMAIN new
      BY <1>6, <3>2 DEF Copies
    <3> QED
      BY <3>1, <3>2
  <2>2. /\ Copies(rest, a) \in Nat /\ Copies(outs, a) \in Nat
        /\ Copies(ins, a) \in Nat /\ Copies(old, a) \in Nat
    BY <1>4, CopiesType
  <2> QED
    BY <1>3, <2>1, <2>2
<1> QED
  BY <1>7, <1>8 DEF Replaced

\* What the accounts of a bag in S are worth is a sum over any larger set.
LEMMA HeldOver ==
    ASSUME NEW b, IsTokenBag(b), NEW D, IsFiniteSet(D), D \subseteq TokenAccount,
           DOMAIN b \subseteq D, NEW S
    PROVE  /\ HeldIn(b, S) = SumFunctionOnSet([a \in D |-> Copies(b, a) * a.amount], D \cap S)
           /\ HeldIn(b, S) \in Nat
<1> DEFINE w == [a \in D |-> Copies(b, a) * a.amount]
           T == DOMAIN b \cap S
           U == (D \ DOMAIN b) \cap S
<1>1. IsFiniteSet(T) /\ IsFiniteSet(U) /\ T \cap U = {} /\ T \cup U = D \cap S
  BY FS_Subset
<1>2. \A a \in T : a \in D /\ a \in DOMAIN b /\ w[a] = b[a] * a.amount /\ Worth(b)[a] = b[a] * a.amount
  BY DEF Copies, Worth
<1>3. \A a \in D : w[a] \in Nat
  <2> TAKE a \in D
  <2>1. Copies(b, a) \in Nat /\ a.amount \in Nat
    BY CopiesType DEF TokenAccount
  <2> QED
    BY <2>1
<1>4. \A a \in U : w[a] = 0
  <2> TAKE a \in U
  <2>1. a \in D /\ Copies(b, a) = 0 /\ a.amount \in Nat
    BY DEF Copies, TokenAccount
  <2> QED
    BY <2>1
<1>5. HeldIn(b, S) = SumFunctionOnSet(Worth(b), T)
  BY DEF HeldIn, Held
<1>6. (\A a \in T \cup U : w[a] \in Nat) /\ \A a \in T : w[a] = Worth(b)[a]
  BY <1>1, <1>2, <1>3
<1>7. \A a \in T : Worth(b)[a] \in Nat
  BY <1>6
<1> HIDE DEF w, T, U
<1>8. SumFunctionOnSet(w, T \cup U) = SumFunctionOnSet(w, T) + SumFunctionOnSet(w, U)
  BY <1>1, <1>6, SumUnion
<1>9. SumFunctionOnSet(w, U) = 0
  BY <1>1, <1>4, SumZero
<1>10. SumFunctionOnSet(w, T) = SumFunctionOnSet(Worth(b), T)
  BY <1>1, <1>6, SumSame
<1>11. SumFunctionOnSet(Worth(b), T) \in Nat
  BY <1>1, <1>7, SumType
<1>12. SumFunctionOnSet(w, T \cup U) = HeldIn(b, S) /\ HeldIn(b, S) \in Nat
  BY <1>5, <1>8, <1>9, <1>10, <1>11
<1> QED
  BY <1>1, <1>12 DEF w

\* What a bag is worth is a number.
LEMMA HeldType ==
    ASSUME NEW b, IsTokenBag(b), NEW S
    PROVE  HeldIn(b, S) \in Nat
<1>1. IsFiniteSet(DOMAIN b) /\ DOMAIN b \subseteq TokenAccount
  BY DEF IsTokenBag
<1> QED
  BY <1>1, HeldOver

\* Replacing accounts changes what the accounts in S are worth by the
\* difference of what was replaced.
LEMMA HeldReplaced ==
    ASSUME NEW old, IsTokenBag(old), NEW ins, IsTokenBag(ins),
           NEW outs, IsTokenBag(outs), NEW new, IsTokenBag(new),
           Replaced(old, new, ins, outs), NEW S
    PROVE  HeldIn(new, S) + HeldIn(ins, S) = HeldIn(old, S) + HeldIn(outs, S)
<1> DEFINE D == DOMAIN old \cup DOMAIN ins \cup DOMAIN outs \cup DOMAIN new
           W(b) == [a \in D |-> Copies(b, a) * a.amount]
           u == [a \in D |-> W(new)[a] + W(ins)[a]]
           T == D \cap S
<1>1. /\ IsFiniteSet(D) /\ D \subseteq TokenAccount /\ IsFiniteSet(T) /\ T \subseteq D
      /\ DOMAIN old \subseteq D /\ DOMAIN ins \subseteq D
      /\ DOMAIN outs \subseteq D /\ DOMAIN new \subseteq D
  <2>1. IsFiniteSet(D)
    BY FS_Union DEF IsTokenBag
  <2> QED
    BY <2>1, FS_Subset DEF IsTokenBag
<1>2. /\ HeldIn(new, S) = SumFunctionOnSet(W(new), T)
      /\ HeldIn(ins, S) = SumFunctionOnSet(W(ins), T)
      /\ HeldIn(old, S) = SumFunctionOnSet(W(old), T)
      /\ HeldIn(outs, S) = SumFunctionOnSet(W(outs), T)
  <2> HIDE DEF D
  <2> QED
    BY <1>1, HeldOver
<1>3. \A a \in T : /\ W(new)[a] \in Nat /\ W(ins)[a] \in Nat /\ u[a] = W(new)[a] + W(ins)[a]
                   /\ W(old)[a] \in Nat /\ W(outs)[a] \in Nat /\ u[a] = W(old)[a] + W(outs)[a]
  <2> TAKE a \in T
  <2>1. /\ a \in D /\ a \in TokenAccount /\ a.amount \in Nat
        /\ Copies(new, a) \in Nat /\ Copies(ins, a) \in Nat
        /\ Copies(old, a) \in Nat /\ Copies(outs, a) \in Nat
    BY <1>1, CopiesType DEF TokenAccount
  <2>2. Copies(new, a) + Copies(ins, a) = Copies(old, a) + Copies(outs, a)
    BY <2>1 DEF Replaced
  <2>3. /\ W(new)[a] = Copies(new, a) * a.amount /\ W(ins)[a] = Copies(ins, a) * a.amount
        /\ W(old)[a] = Copies(old, a) * a.amount /\ W(outs)[a] = Copies(outs, a) * a.amount
        /\ u[a] = W(new)[a] + W(ins)[a]
    BY <2>1
  <2>4. /\ (Copies(new, a) + Copies(ins, a)) * a.amount = Copies(new, a) * a.amount + Copies(ins, a) * a.amount
        /\ (Copies(old, a) + Copies(outs, a)) * a.amount = Copies(old, a) * a.amount + Copies(outs, a) * a.amount
        /\ Copies(new, a) * a.amount \in Nat /\ Copies(ins, a) * a.amount \in Nat
        /\ Copies(old, a) * a.amount \in Nat /\ Copies(outs, a) * a.amount \in Nat
    BY <2>1
  <2> HIDE DEF W, u
  <2> QED
    BY <2>2, <2>3, <2>4
<1> HIDE DEF W, u, T
<1>4. SumFunctionOnSet(u, T) = SumFunctionOnSet(W(new), T) + SumFunctionOnSet(W(ins), T)
  BY <1>1, <1>3, SumPlus
<1>5. SumFunctionOnSet(u, T) = SumFunctionOnSet(W(old), T) + SumFunctionOnSet(W(outs), T)
  BY <1>1, <1>3, SumPlus
<1> QED
  BY <1>2, <1>4, <1>5

\* What a bag is worth in all
LEMMA AmountIsHeld ==
    ASSUME NEW b, IsTokenBag(b), NEW S, DOMAIN b \subseteq S
    PROVE  Amount(b) = HeldIn(b, S) /\ Amount(b) \in Nat
<1>1. DOMAIN b \cap S = DOMAIN b /\ DOMAIN Worth(b) = DOMAIN b
  BY DEF Worth
<1>2. Amount(b) = SumFunctionOnSet(Worth(b), DOMAIN b)
  BY <1>1, Zenon DEF Amount, SumFunction
<1>3. HeldIn(b, S) = SumFunctionOnSet(Worth(b), DOMAIN b)
  BY <1>1, Zenon DEF HeldIn, Held
<1> QED
  BY <1>2, <1>3, HeldType

\* Accounts outside S are worth nothing in S.
LEMMA NothingHeld ==
    ASSUME NEW b, NEW S, DOMAIN b \cap S = {}
    PROVE  HeldIn(b, S) = 0
BY SumEmpty DEF HeldIn, Held

-----------------------------------------------------------------------------
\* The outputs of an instruction.

\* The amounts of a list, and their sum
Amounts(s) == [i \in DOMAIN s |-> s[i].amount]
Total(s) == SumFunctionOnSet(Amounts(s), DOMAIN s)

TokenOutput == [owner : Holder, amount : Nat, lamports : Nat]
IsOutputList(outs) == \E n \in Nat : outs \in [1 .. n -> TokenOutput]

\* A list with amounts
IsPriced(s) == IsFiniteSet(DOMAIN s) /\ \A i \in DOMAIN s : s[i].amount \in Nat

\* The bag of a list is worth the sum of its amounts.
LEMMA ToBagAmount ==
    ASSUME NEW s, IsPriced(s)
    PROVE  Amount(ToBag(s)) = Total(s) /\ Total(s) \in Nat
<1> DEFINE S == DOMAIN s
           R == Range(s)
           w == Worth(ToBag(s))
           v == Amounts(s)
           Fibre(b) == FibreOf(s, S, b)
<1>1. R = {s[i] : i \in S} /\ DOMAIN ToBag(s) = R /\ DOMAIN w = R
  BY DEF ToBag, Worth, Range
<1>2. IsFiniteSet(S) /\ IsFiniteSet(R) /\ \A i \in S : s[i] \in R /\ v[i] \in Nat
  <2>1. IsFiniteSet(S)
    BY DEF IsPriced
  <2>2. IsFiniteSet(R)
    BY <1>1, <2>1, FiniteImage
  <2>3. \A i \in S : s[i] \in R
    BY <1>1
  <2>4. \A i \in S : v[i] \in Nat
    BY DEF IsPriced, Amounts
  <2> QED
    BY <2>1, <2>2, <2>3, <2>4
<1>3. ASSUME NEW b \in R PROVE w[b] = SumFunctionOnSet(v, Fibre(b))
  <2>1. w[b] = Cardinality(Fibre(b)) * b.amount
    BY <1>1 DEF Worth, ToBag, FibreOf
  <2>2. b.amount \in Nat
    BY <1>1 DEF IsPriced
  <2>3. Fibre(b) \subseteq S /\ IsFiniteSet(Fibre(b))
    BY <1>2, FS_Subset DEF FibreOf
  <2> DEFINE o == [i \in S |-> 1]
  <2>4. SumFunctionOnSet(o, Fibre(b)) = Cardinality(Fibre(b))
    <3>1. \A i \in Fibre(b) : o[i] = 1
      BY <2>3
    <3> HIDE DEF o, Fibre
    <3> QED
      BY <2>3, <3>1, SumOnes
  <2>5. SumFunctionOnSet(v, Fibre(b)) = SumFunctionOnSet(o, Fibre(b)) * b.amount
    <3>1. \A i \in Fibre(b) : o[i] \in Nat /\ v[i] = o[i] * b.amount
      <4> TAKE i \in Fibre(b)
      <4>1. i \in S /\ s[i] = b /\ o[i] = 1
        BY DEF FibreOf
      <4>2. v[i] = b.amount
        BY <4>1 DEF Amounts
      <4> QED
        BY <2>2, <4>1, <4>2
    <3> HIDE DEF o, Fibre, v
    <3> QED
      BY <2>2, <2>3, <3>1, SumTimes
  <2> QED
    BY <2>1, <2>4, <2>5
<1>4. SumFunctionOnSet(w, R) = SumFunctionOnSet(v, S)
  <2>2. /\ IsFiniteSet(S) /\ IsFiniteSet(R)
        /\ (\A i \in S : v[i] \in Nat) /\ \A i \in S : s[i] \in R
    BY <1>2
  <2>1. \A b \in R : w[b] = SumFunctionOnSet(v, FibreOf(s, S, b))
    BY <1>3
  <2> HIDE DEF w, v, R, S
  <2> QED
    BY ONLY <2>1, <2>2, SumFibres
<1>5. Amount(ToBag(s)) = SumFunctionOnSet(w, R)
  BY <1>1, Zenon DEF Amount, SumFunction
<1>6. SumFunctionOnSet(v, S) \in Nat
  BY <1>2, SumType
<1> QED
  BY <1>4, <1>5, <1>6 DEF Total

\* Lists of one and of two outputs
LEMMA ShortTotals ==
    ASSUME NEW a \in TokenOutput, NEW b \in TokenOutput
    PROVE  /\ IsOutputList(<<>>) /\ Total(<<>>) = 0
           /\ IsOutputList(<<a>>) /\ Total(<<a>>) = a.amount
           /\ IsOutputList(<<a, b>>) /\ Total(<<a, b>>) = a.amount + b.amount
<1>1. a.amount \in Nat /\ b.amount \in Nat
  BY DEF TokenOutput
<1>2. IsOutputList(<<>>) /\ Total(<<>>) = 0
  <2>1. DOMAIN <<>> = {} /\ DOMAIN <<>> = 1 .. 0 /\ <<>> \in [1 .. 0 -> TokenOutput]
    OBVIOUS
  <2> QED
    BY <2>1, SumEmpty DEF IsOutputList, Total
<1>3. IsOutputList(<<a>>) /\ Total(<<a>>) = a.amount
  <2>1. DOMAIN <<a>> = {1} /\ <<a>> \in [1 .. 1 -> TokenOutput]
    OBVIOUS
  <2>2. Amounts(<<a>>)[1] = a.amount
    BY <2>1 DEF Amounts
  <2> DEFINE w == Amounts(<<a>>)
  <2> HIDE DEF w
  <2>3. IsFiniteSet({1}) /\ (\A i \in {1} : w[i] \in Nat) /\ {1} \ {1} = {}
    BY <1>1, <2>2, FS_Singleton DEF w
  <2>4. SumFunctionOnSet(w, {1}) = w[1] + SumFunctionOnSet(w, {1} \ {1})
    BY <2>3, SumSplit
  <2>5. SumFunctionOnSet(w, {1}) = a.amount
    <3>1. w[1] = a.amount
      BY <2>2 DEF w
    <3>2. SumFunctionOnSet(w, {1} \ {1}) = 0
      BY <2>3, SumEmpty
    <3> QED
      BY <1>1, <2>4, <3>1, <3>2
  <2> QED
    BY <2>1, <2>5 DEF Total, IsOutputList, w
<1>4. IsOutputList(<<a, b>>) /\ Total(<<a, b>>) = a.amount + b.amount
  <2>1. DOMAIN <<a, b>> = {1, 2} /\ <<a, b>> \in [1 .. 2 -> TokenOutput]
    OBVIOUS
  <2>2. Amounts(<<a, b>>)[1] = a.amount /\ Amounts(<<a, b>>)[2] = b.amount
    BY <2>1 DEF Amounts
  <2> DEFINE w == Amounts(<<a, b>>)
  <2> HIDE DEF w
  <2>3. /\ IsFiniteSet({1, 2}) /\ IsFiniteSet({2}) /\ (\A i \in {1, 2} : w[i] \in Nat)
        /\ \A i \in {2} : w[i] \in Nat
    <3>1. IsFiniteSet({2}) /\ {1, 2} = {2} \cup {1}
      BY FS_Singleton
    <3>2. IsFiniteSet({1, 2})
      BY <3>1, FS_AddElement
    <3> QED
      BY <1>1, <2>2, <3>1, <3>2 DEF w
  <2>4. SumFunctionOnSet(w, {1, 2}) = w[1] + SumFunctionOnSet(w, {1, 2} \ {1})
    BY <2>3, SumSplit
  <2>5. SumFunctionOnSet(w, {2}) = w[2] + SumFunctionOnSet(w, {2} \ {2})
    BY <2>3, SumSplit
  <2>6. {1, 2} \ {1} = {2} /\ {2} \ {2} = {}
    OBVIOUS
  <2>7. SumFunctionOnSet(w, {1, 2}) = a.amount + b.amount
    <3>1. w[1] = a.amount /\ w[2] = b.amount
      BY <2>2 DEF w
    <3>2. SumFunctionOnSet(w, {2} \ {2}) = 0
      BY <2>6, SumEmpty
    <3>3. SumFunctionOnSet(w, {1, 2} \ {1}) = SumFunctionOnSet(w, {2})
      BY <2>6
    <3> QED
      BY <1>1, <2>4, <2>5, <3>1, <3>2, <3>3
  <2> QED
    BY <2>1, <2>7 DEF Total, IsOutputList, w
<1> QED
  BY <1>2, <1>3, <1>4

\* The bag of a list of accounts
LEMMA ListBag ==
    ASSUME NEW n \in Nat, NEW s \in [1 .. n -> TokenAccount], NEW b, b = ToBag(s)
    PROVE  IsTokenBag(b) /\ DOMAIN b = {s[i] : i \in 1 .. n}
<1>1. IsFiniteSet(1 .. n)
  BY FS_Interval
<1>2. DOMAIN s = 1 .. n /\ Range(s) = {s[i] : i \in 1 .. n}
  BY DEF Range
<1>3. DOMAIN b = {s[i] : i \in 1 .. n}
  BY <1>2 DEF ToBag
<1>4. IsFiniteSet(DOMAIN b)
  BY <1>1, <1>3, FiniteImage
<1>5. ASSUME NEW a \in DOMAIN b PROVE b[a] \in Nat \ {0}
  <2> DEFINE F == {i \in 1 .. n : s[i] = a}
  <2>1. b[a] = Cardinality(F)
    BY <1>2, <1>3 DEF ToBag
  <2>2. IsFiniteSet(F) /\ F # {}
    <3>1. F \subseteq 1 .. n
      OBVIOUS
    <3>2. IsFiniteSet(F)
      BY <1>1, <3>1, FS_Subset
    <3> QED
      BY <1>3, <3>2
  <2> HIDE DEF F
  <2> QED
    BY <2>1, <2>2, FS_EmptySet, FS_CardinalityType
<1>6. b \in [DOMAIN b -> Nat \ {0}]
  <2>1. b = [x \in Range(s) |-> Cardinality({i \in DOMAIN s : s[i] = x})]
    BY DEF ToBag
  <2>2. b = [x \in DOMAIN b |-> b[x]]
    BY <2>1
  <2> QED
    BY <1>5, <2>2
<1> QED
  BY <1>3, <1>4, <1>6 DEF IsTokenBag

\* The accounts created for the outputs: they are of the mint, not frozen,
\* belong to the owners of the outputs, and are worth what the outputs are.
LEMMA CreatedAccounts ==
    ASSUME NEW mint \in Mint, NEW outs, IsOutputList(outs),
           NEW delegate \in Holder \cup {None}, NEW is_delegate,
           NEW created, created = create_output_compressed_accounts(mint, outs, delegate, is_delegate)
    PROVE  /\ IsTokenBag(created)
           /\ \A a \in DOMAIN created : a.mint = mint /\ a.state = "Initialized"
           /\ Amount(created) = Total(outs) /\ Amount(ToBag(outs)) = Total(outs)
           /\ Total(outs) \in Nat
<1>1. PICK n \in Nat : outs \in [1 .. n -> TokenOutput]
  BY DEF IsOutputList
<1> DEFINE New(i) == TokenData(mint, outs[i].owner, outs[i].amount,
                               IF i \in is_delegate THEN delegate ELSE None, "Initialized",
                               outs[i].lamports)
           s == [i \in 1 .. n |-> New(i)]
<1>2. created = ToBag(s) /\ DOMAIN outs = 1 .. n
  BY <1>1 DEF create_output_compressed_accounts
<1>3. IsFiniteSet(1 .. n)
  BY FS_Interval
<1>4. \A i \in 1 .. n : /\ New(i) \in TokenAccount
                        /\ New(i).mint = mint /\ New(i).state = "Initialized"
                        /\ New(i).amount = outs[i].amount /\ outs[i].amount \in Nat
  <2> TAKE i \in 1 .. n
  <2>1. outs[i] \in TokenOutput
    BY <1>1
  <2> DEFINE d == IF i \in is_delegate THEN delegate ELSE None
  <2>2. d \in Holder \cup {None}
    OBVIOUS
  <2> HIDE DEF d
  <2> QED
    BY <2>1, <2>2 DEF TokenData, TokenAccount, TokenOutput, d
<1> HIDE DEF New
<1>5. /\ DOMAIN s = 1 .. n /\ Range(s) = {New(i) : i \in 1 .. n}
      /\ \A i \in 1 .. n : s[i] = New(i)
  BY DEF Range
<1>6. IsPriced(s) /\ IsPriced(outs)
  BY <1>2, <1>3, <1>4, <1>5 DEF IsPriced
<1>7. Amounts(s) = Amounts(outs) /\ Total(s) = Total(outs)
  <2>1. Amounts(s) = Amounts(outs)
    BY <1>2, <1>4, <1>5 DEF Amounts
  <2> QED
    BY <1>2, <1>5, <2>1 DEF Total
<1>8. Amount(created) = Total(outs) /\ Amount(ToBag(outs)) = Total(outs) /\ Total(outs) \in Nat
  BY <1>2, <1>6, <1>7, ToBagAmount
<1>9. IsTokenBag(created) /\ DOMAIN created = {New(i) : i \in 1 .. n}
  <2>1. s \in [1 .. n -> TokenAccount] /\ {s[i] : i \in 1 .. n} = {New(i) : i \in 1 .. n}
    BY <1>4, <1>5
  <2> HIDE DEF s
  <2> QED
    BY <1>2, <2>1, ListBag
<1>10. \A a \in DOMAIN created : a.mint = mint /\ a.state = "Initialized"
  BY <1>4, <1>9
<1> QED
  BY <1>8, <1>9, <1>10

-----------------------------------------------------------------------------
\* Freezing and thawing.

State == {"Initialized", "Frozen"}

\* S does not tell frozen accounts from others.
Blind(S) == \A a \in TokenAccount, state \in State : a \in S <=> Restated(a, state) \in S

\* Only the state changes.
LEMMA RestatedType ==
    ASSUME NEW a \in TokenAccount, NEW state \in State
    PROVE  /\ Restated(a, state) \in TokenAccount
           /\ Restated(a, state).amount = a.amount /\ Restated(a, state).mint = a.mint
           /\ Restated(a, state).owner = a.owner /\ Restated(a, state).delegate = a.delegate
BY DEF Restated, TokenAccount, State

\* The outputs of a freeze or thaw are the inputs in another state.
LEMMA RestatedAccounts ==
    ASSUME NEW ins, IsTokenBag(ins), NEW state \in State,
           NEW outs, outs = create_token_output_accounts(ins, state)
    PROVE  /\ IsTokenBag(outs)
           /\ \A b \in DOMAIN outs : \E a \in DOMAIN ins : b.mint = a.mint
           /\ \A S : Blind(S) => HeldIn(outs, S) = HeldIn(ins, S)
<1> DEFINE f == [a \in DOMAIN ins |-> Restated(a, state)]
           F(b) == {a \in DOMAIN ins : Restated(a, state) = b}
<1>1. /\ outs = [b \in DOMAIN outs |-> SumFunctionOnSet(ins, F(b))]
      /\ DOMAIN outs = {Restated(a, state) : a \in DOMAIN ins}
  BY DEF create_token_output_accounts
<1>2. /\ DOMAIN ins \subseteq TokenAccount /\ IsFiniteSet(DOMAIN ins)
      /\ \A a \in DOMAIN ins : ins[a] \in Nat \ {0}
  BY DEF IsTokenBag
<1>3. \A a \in DOMAIN ins : a \in TokenAccount /\ f[a] = Restated(a, state) /\ f[a] \in DOMAIN outs
  BY <1>1, <1>2
<1>4. IsFiniteSet(DOMAIN outs)
  <2>1. DOMAIN outs = {f[a] : a \in DOMAIN ins}
    BY <1>1
  <2> HIDE DEF f
  <2> QED
    BY <1>2, <2>1, FiniteImage
<1>5. \A b \in DOMAIN outs : F(b) \subseteq DOMAIN ins /\ IsFiniteSet(F(b)) /\ F(b) # {}
  BY <1>1, <1>2, FS_Subset
<1>6. ASSUME NEW b \in DOMAIN outs PROVE outs[b] \in Nat \ {0}
  <2>1. PICK a \in F(b) : TRUE
    BY <1>5
  <2>2. \A x \in F(b) : ins[x] \in Nat
    BY <1>2
  <2>3. outs[b] = SumFunctionOnSet(ins, F(b))
    BY <1>1
  <2>4. ins[a] \in Nat \ {0}
    BY <1>2
  <2> HIDE DEF F
  <2>5. SumFunctionOnSet(ins, F(b)) = ins[a] + SumFunctionOnSet(ins, F(b) \ {a})
    BY <1>5, <2>2, SumSplit
  <2>6. IsFiniteSet(F(b) \ {a}) /\ \A x \in F(b) \ {a} : ins[x] \in Nat
    BY <1>5, <2>2, FS_Subset
  <2>7. SumFunctionOnSet(ins, F(b) \ {a}) \in Nat
    BY <2>6, SumType
  <2> QED
    BY <2>3, <2>4, <2>5, <2>7
<1>7. IsTokenBag(outs)
  <2>1. DOMAIN outs \subseteq TokenAccount
    BY <1>1, <1>2, RestatedType
  <2>2. outs \in [DOMAIN outs -> Nat \ {0}]
    <3>1. outs = [b \in DOMAIN outs |-> outs[b]]
      BY <1>1
    <3> QED
      BY <1>6, <3>1
  <2> QED
    BY <1>4, <2>1, <2>2 DEF IsTokenBag
<1>8. \A b \in DOMAIN outs : \E a \in DOMAIN ins : b.mint = a.mint
  BY <1>1, <1>2, RestatedType
<1>9. ASSUME NEW S, Blind(S) PROVE HeldIn(outs, S) = HeldIn(ins, S)
  <2> DEFINE T == DOMAIN ins \cap S
             R == DOMAIN outs \cap S
             v == Worth(ins)
             w == Worth(outs)
  <2>1. IsFiniteSet(T) /\ IsFiniteSet(R)
    BY <1>2, <1>4, FS_Subset
  <2>2. \A a \in T : v[a] \in Nat
    <3> TAKE a \in T
    <3>1. a \in DOMAIN ins /\ ins[a] \in Nat /\ a.amount \in Nat
      BY <1>2 DEF TokenAccount
    <3>2. v[a] = ins[a] * a.amount
      BY <3>1 DEF Worth
    <3> QED
      BY <3>1, <3>2
  <2>3. \A a \in T : f[a] \in R
    <3> TAKE a \in T
    <3>1. a \in TokenAccount /\ f[a] = Restated(a, state) /\ f[a] \in DOMAIN outs
      BY <1>3
    <3>2. Restated(a, state) \in S
      BY <1>9, <3>1 DEF Blind
    <3> QED
      BY <3>1, <3>2
  <2>4. ASSUME NEW b \in R PROVE w[b] = SumFunctionOnSet(v, FibreOf(f, T, b))
    <3>1. FibreOf(f, T, b) = F(b)
      <4>1. ASSUME NEW a \in F(b) PROVE a \in S
        <5>1. a \in DOMAIN ins /\ Restated(a, state) = b /\ b \in S /\ a \in TokenAccount
          BY <1>2
        <5> QED
          BY <1>9, <5>1 DEF Blind
      <4> QED
        BY <1>3, <4>1 DEF FibreOf
    <3>2. b \in DOMAIN outs /\ w[b] = outs[b] * b.amount /\ outs[b] = SumFunctionOnSet(ins, F(b))
      BY <1>1 DEF Worth
    <3>3. b.amount \in Nat
      BY <1>7, <3>2 DEF IsTokenBag, TokenAccount
    <3>4. \A a \in F(b) : ins[a] \in Nat /\ v[a] = ins[a] * b.amount
      <4> TAKE a \in F(b)
      <4>1. a \in DOMAIN ins /\ a \in TokenAccount /\ Restated(a, state) = b /\ ins[a] \in Nat
        BY <1>2
      <4>2. a.amount = b.amount
        BY <4>1, RestatedType
      <4> QED
        BY <4>1, <4>2 DEF Worth
    <3>5. IsFiniteSet(F(b))
      BY <1>5, <3>2
    <3> HIDE DEF F, v, w, R
    <3>6. SumFunctionOnSet(v, F(b)) = SumFunctionOnSet(ins, F(b)) * b.amount
      BY <3>3, <3>4, <3>5, SumTimes
    <3> QED
      BY <3>1, <3>2, <3>6
  <2> HIDE DEF T, R, v, w, f
  <2>5. SumFunctionOnSet(w, R) = SumFunctionOnSet(v, T)
    BY <2>1, <2>2, <2>3, <2>4, SumFibres
  <2> QED
    BY <2>5 DEF HeldIn, Held, T, R, v, w
<1> QED
  BY <1>7, <1>8, <1>9

-----------------------------------------------------------------------------
\* The inductive invariant.

\* The state has its types: amounts are never negative.
TypeOK ==
    /\ IsTokenBag(accounts)
    /\ pool \in [Mint -> Nat \cup {None}]
    /\ spl \in [Mint -> [Holder \cup Admin -> Nat]]
    /\ supply \in [Mint -> Nat]
    /\ unsettled \in [Mint -> Int]

\* The accounts of a mint, those of an owner whose delegate is not in D, and
\* the SPL tokens of all signers
Class(m) == {a \in TokenAccount : a.mint = m}
Kept(m, h, D) == {a \in TokenAccount : a.mint = m /\ a.owner = h /\ a.delegate \notin D}
SplSum(s) == SumFunctionOnSet(s, Holder \cup Admin)

\* Who signed a part
Authorities(p) == {s[1] : s \in p.signed}

\* A part creates what it consumes and what was moved into the pools.
Conserves(p) ==
    \A m \in Mint : HeldIn(p.outs, Class(m)) = HeldIn(p.ins, Class(m)) + p.moved[m]

\* A part takes nothing from those who did not sign it but what they delegated
\* to those who did.
Respects(p) ==
    \A D : Authorities(p) \subseteq D =>
        \A m \in Mint, h \in Holder :
            h \notin D => HeldIn(p.outs, Kept(m, h, D)) >= HeldIn(p.ins, Kept(m, h, D))

\* A part touches frozen accounts of a mint only if its freeze authority signed.
IsFrozen(a, m) == a.mint = m /\ a.state = "Frozen"
LeavesFrozen(p) ==
    \A m \in Mint : FreezeAuthority[m] \notin Authorities(p) =>
        \A a \in DOMAIN p.ins \cup DOMAIN p.outs : ~IsFrozen(a, m)

PartOK(p) ==
    /\ IsTokenBag(p.ins) /\ IsTokenBag(p.outs) /\ p.moved \in [Mint -> Int]
    /\ Conserves(p) /\ Respects(p) /\ LeavesFrozen(p)

\* All parts that are cached together are signed for the fee payer of the
\* context, and a mint without a pool is in none that moves tokens.
ContextOK ==
    /\ PartOK(context.parts)
    /\ \A s \in context.parts.signed : s[2] = context.fee_payer
    /\ \A m \in Mint : pool[m] = None => context.parts.moved[m] = 0

IInv == TypeOK /\ PoolBacksTokens /\ ContextOK

\* held compressed tokens, u unsettled ones, p tokens in the pool, s in the
\* mint's supply and t in SPL accounts
Backs(held, u, p, s, t) ==
    /\ IF p = None THEN held = 0 /\ u = 0 ELSE p = held + u
    /\ s = held + u + t

\* The compressed tokens of a mint
LEMMA MintHeld ==
    ASSUME NEW b, IsTokenBag(b), NEW m
    PROVE  Held(b, OfMint(b, m)) = HeldIn(b, Class(m))
<1>1. OfMint(b, m) = DOMAIN b \cap Class(m)
  BY DEF OfMint, Class, IsTokenBag
<1> QED
  BY <1>1 DEF HeldIn

\* PoolBacksTokens in terms of the sums that the lemmas are about
LEMMA BackedTokens ==
    ASSUME IsTokenBag(accounts)
    PROVE  PoolBacksTokens <=>
           \A m \in Mint : Backs(HeldIn(accounts, Class(m)), unsettled[m], pool[m], supply[m],
                                 SplSum(spl[m]))
BY MintHeld, Zenon DEF PoolBacksTokens, Backs, SplSum

\* The inputs that an instruction names were hashed as the program did.
LEMMA NamedInputs ==
    ASSUME IsTokenBag(accounts), NEW cpi, NEW authority, NEW dt, NEW mint, NEW state,
           NEW ins \in Inputs(Source(cpi), authority, dt, mint, state)
    PROVE  /\ IsTokenBag(ins)
           /\ \A a \in DOMAIN ins : check_signer(a, authority, dt) /\ HashedAs(a, mint, state)
<1> DEFINE may == {a \in DOMAIN Source(cpi) :
                    check_signer(a, authority, dt) /\ HashedAs(a, mint, state)}
<1>1. DOMAIN Source(cpi) \subseteq TokenAccount
  BY CompressedTokenAssumption DEF Source, IsTokenBag
<1>2. PICK n \in 0 .. MaxInputs : \E list \in [1 .. n -> may] : ins = ToBag(list)
  BY DEF Inputs
<1>3. PICK list \in [1 .. n -> may] : ins = ToBag(list)
  BY <1>2
<1>4. n \in Nat
  BY CompressedTokenAssumption
<1>5. list \in [1 .. n -> TokenAccount] /\ \A i \in 1 .. n : list[i] \in may
  BY <1>1, <1>3
<1> HIDE DEF may
<1>6. IsTokenBag(ins) /\ DOMAIN ins = {list[i] : i \in 1 .. n}
  BY <1>3, <1>4, <1>5, ListBag
<1> QED
  BY <1>5, <1>6 DEF may

-----------------------------------------------------------------------------
\* Parts.

\* The empty bag is worth nothing, and taking it away changes nothing.
LEMMA EmptyInputs ==
    ASSUME NEW b, IsTokenBag(b)
    PROVE  /\ IsTokenBag(EmptyBag) /\ EmptyBag \sqsubseteq b
           /\ Amount(EmptyBag) = 0 /\ DOMAIN EmptyBag = {}
           /\ b (-) EmptyBag = b
<1>1. DOMAIN EmptyBag = {} /\ EmptyBag = [a \in {} |-> 1]
  BY DEF EmptyBag, SetToBag
<1>2. IsTokenBag(EmptyBag)
  BY <1>1, FS_EmptySet DEF IsTokenBag
<1>3. EmptyBag \sqsubseteq b
  BY <1>1 DEF \sqsubseteq
<1>4. Amount(EmptyBag) = 0
  <2>1. DOMAIN Worth(EmptyBag) = {}
    BY <1>1 DEF Worth
  <2> QED
    BY <2>1, SumEmpty DEF Amount, SumFunction
<1>5. b (-) EmptyBag = b
  <2> DEFINE B == [a \in DOMAIN b |-> IF a \in DOMAIN EmptyBag THEN b[a] - EmptyBag[a] ELSE b[a]]
  <2>1. B = b
    BY <1>1 DEF IsTokenBag
  <2>2. b (-) EmptyBag = [a \in {d \in DOMAIN B : B[d] > 0} |-> B[a]]
    BY DEF (-)
  <2> HIDE DEF B
  <2>3. {d \in DOMAIN b : b[d] > 0} = DOMAIN b
    BY DEF IsTokenBag
  <2> QED
    BY <2>1, <2>2, <2>3 DEF IsTokenBag
<1> QED
  BY <1>1, <1>2, <1>3, <1>4, <1>5

\* c is worth what a and b are.
Joins(a, b, c) ==
    /\ IsTokenBag(c) /\ DOMAIN c = DOMAIN a \cup DOMAIN b
    /\ \A S : HeldIn(c, S) = HeldIn(a, S) + HeldIn(b, S)

\* Two bags together are worth what both are.
LEMMA BagSum ==
    ASSUME NEW a, IsTokenBag(a), NEW b, IsTokenBag(b), NEW c, c = a (+) b
    PROVE  Joins(a, b, c)
<1>1. /\ IsTokenBag(EmptyBag) /\ EmptyBag \sqsubseteq a /\ DOMAIN EmptyBag = {}
      /\ a (-) EmptyBag = a
  BY EmptyInputs
<1>2. c = (a (-) EmptyBag) (+) b
  BY <1>1
<1>3. IsTokenBag(c) /\ Replaced(a, c, EmptyBag, b)
  BY <1>1, <1>2, Execution
<1>4. DOMAIN c = DOMAIN a \cup DOMAIN b
  BY DEF (+)
<1>5. ASSUME NEW S PROVE HeldIn(c, S) = HeldIn(a, S) + HeldIn(b, S)
  <2>1. HeldIn(c, S) + HeldIn(EmptyBag, S) = HeldIn(a, S) + HeldIn(b, S)
    BY <1>1, <1>3, HeldReplaced
  <2>2. HeldIn(EmptyBag, S) = 0
    BY <1>1, NothingHeld
  <2>3. HeldIn(c, S) \in Nat
    BY <1>3, HeldType
  <2> QED
    BY <2>1, <2>2, <2>3
<1> QED
  BY <1>3, <1>4, <1>5 DEF Joins

\* Nothing is a part.
LEMMA NoPartOK == PartOK(NoPart) /\ NoPart.signed = {} /\ \A m \in Mint : NoPart.moved[m] = 0
<1>1. /\ NoPart.signed = {} /\ NoPart.ins = EmptyBag /\ NoPart.outs = EmptyBag
      /\ NoPart.moved = [m \in Mint |-> 0]
  BY DEF NoPart, Part
<1>2. DOMAIN EmptyBag = {} /\ IsTokenBag(EmptyBag)
  <2>1. DOMAIN EmptyBag = {} /\ EmptyBag = [a \in {} |-> 1]
    BY DEF EmptyBag, SetToBag
  <2> QED
    BY <2>1, FS_EmptySet DEF IsTokenBag
<1>3. \A S : HeldIn(EmptyBag, S) = 0
  BY <1>2, NothingHeld
<1>4. Conserves(NoPart) /\ Respects(NoPart) /\ LeavesFrozen(NoPart)
  BY <1>1, <1>2, <1>3 DEF Conserves, Respects, LeavesFrozen
<1> QED
  BY <1>1, <1>2, <1>4 DEF PartOK

\* What combine puts together
LEMMA CombineOK ==
    ASSUME NEW p, PartOK(p), NEW q, PartOK(q), NEW r, r = combine(p, q)
    PROVE  /\ PartOK(r) /\ r.signed = p.signed \cup q.signed
           /\ \A m \in Mint : r.moved[m] = p.moved[m] + q.moved[m]
<1>1. /\ r.signed = p.signed \cup q.signed /\ r.ins = p.ins (+) q.ins /\ r.outs = p.outs (+) q.outs
      /\ r.moved = [m \in Mint |-> p.moved[m] + q.moved[m]]
  BY DEF combine, Part
<1>2. /\ IsTokenBag(p.ins) /\ IsTokenBag(p.outs) /\ p.moved \in [Mint -> Int]
      /\ IsTokenBag(q.ins) /\ IsTokenBag(q.outs) /\ q.moved \in [Mint -> Int]
      /\ Conserves(p) /\ Respects(p) /\ LeavesFrozen(p)
      /\ Conserves(q) /\ Respects(q) /\ LeavesFrozen(q)
  BY DEF PartOK
<1>3. /\ IsTokenBag(r.ins) /\ DOMAIN r.ins = DOMAIN p.ins \cup DOMAIN q.ins
      /\ \A S : HeldIn(r.ins, S) = HeldIn(p.ins, S) + HeldIn(q.ins, S)
  <2> DEFINE a == p.ins
             b == q.ins
             c == r.ins
  <2>1. IsTokenBag(a) /\ IsTokenBag(b) /\ c = a (+) b
    BY <1>1, <1>2
  <2> HIDE DEF a, b, c
  <2>2. Joins(a, b, c)
    BY ONLY <2>1, BagSum
  <2> QED
    BY <2>2 DEF Joins, a, b, c
<1>4. /\ IsTokenBag(r.outs) /\ DOMAIN r.outs = DOMAIN p.outs \cup DOMAIN q.outs
      /\ \A S : HeldIn(r.outs, S) = HeldIn(p.outs, S) + HeldIn(q.outs, S)
  <2> DEFINE a == p.outs
             b == q.outs
             c == r.outs
  <2>1. IsTokenBag(a) /\ IsTokenBag(b) /\ c = a (+) b
    BY <1>1, <1>2
  <2> HIDE DEF a, b, c
  <2>2. Joins(a, b, c)
    BY ONLY <2>1, BagSum
  <2> QED
    BY <2>2 DEF Joins, a, b, c
<1>5. /\ Authorities(p) \subseteq Authorities(r) /\ Authorities(q) \subseteq Authorities(r)
  BY <1>1 DEF Authorities
<1>6. r.moved \in [Mint -> Int] /\ \A m \in Mint : r.moved[m] = p.moved[m] + q.moved[m]
  BY <1>1, <1>2
<1>7. \A S : /\ HeldIn(p.ins, S) \in Nat /\ HeldIn(q.ins, S) \in Nat
             /\ HeldIn(p.outs, S) \in Nat /\ HeldIn(q.outs, S) \in Nat
  BY <1>2, HeldType
<1>8. Conserves(r)
  <2> SUFFICES ASSUME NEW m \in Mint
               PROVE  HeldIn(r.outs, Class(m)) = HeldIn(r.ins, Class(m)) + r.moved[m]
    BY DEF Conserves
  <2>1. /\ HeldIn(p.outs, Class(m)) = HeldIn(p.ins, Class(m)) + p.moved[m]
        /\ HeldIn(q.outs, Class(m)) = HeldIn(q.ins, Class(m)) + q.moved[m]
    BY <1>2 DEF Conserves
  <2>2. /\ HeldIn(r.ins, Class(m)) = HeldIn(p.ins, Class(m)) + HeldIn(q.ins, Class(m))
        /\ HeldIn(r.outs, Class(m)) = HeldIn(p.outs, Class(m)) + HeldIn(q.outs, Class(m))
    BY <1>3, <1>4
  <2>3. r.moved[m] = p.moved[m] + q.moved[m] /\ p.moved[m] \in Int /\ q.moved[m] \in Int
    BY <1>2, <1>6
  <2>4. /\ HeldIn(p.ins, Class(m)) \in Nat /\ HeldIn(q.ins, Class(m)) \in Nat
        /\ HeldIn(p.outs, Class(m)) \in Nat /\ HeldIn(q.outs, Class(m)) \in Nat
    BY <1>7
  <2> QED
    BY <2>1, <2>2, <2>3, <2>4
<1>9. Respects(r)
  <2> SUFFICES ASSUME NEW D, Authorities(r) \subseteq D, NEW m \in Mint, NEW h \in Holder, h \notin D
               PROVE  HeldIn(r.outs, Kept(m, h, D)) >= HeldIn(r.ins, Kept(m, h, D))
    BY DEF Respects
  <2> DEFINE S == Kept(m, h, D)
  <2>1. HeldIn(p.outs, S) >= HeldIn(p.ins, S) /\ HeldIn(q.outs, S) >= HeldIn(q.ins, S)
    BY <1>2, <1>5 DEF Respects
  <2> HIDE DEF S
  <2>2. /\ HeldIn(r.ins, S) = HeldIn(p.ins, S) + HeldIn(q.ins, S)
        /\ HeldIn(r.outs, S) = HeldIn(p.outs, S) + HeldIn(q.outs, S)
    BY <1>3, <1>4
  <2>3. /\ HeldIn(p.ins, S) \in Nat /\ HeldIn(q.ins, S) \in Nat
        /\ HeldIn(p.outs, S) \in Nat /\ HeldIn(q.outs, S) \in Nat
    BY <1>7
  <2>4. HeldIn(r.outs, S) >= HeldIn(r.ins, S)
    BY <2>1, <2>2, <2>3
  <2> QED
    BY <2>4 DEF S
<1>10. LeavesFrozen(r)
  BY <1>2, <1>3, <1>4, <1>5 DEF LeavesFrozen
<1> QED
  BY <1>1, <1>3, <1>4, <1>6, <1>8, <1>9, <1>10 DEF PartOK

\* What a part of one mint is worth
LEMMA OneMint ==
    ASSUME NEW mint \in Mint, NEW ins, IsTokenBag(ins), NEW outs, IsTokenBag(outs), NEW moved \in Int,
           \A a \in DOMAIN ins \cup DOMAIN outs : a.mint = mint,
           Amount(outs) = Amount(ins) + moved, NEW p, p.ins = ins, p.outs = outs,
           p.moved = Into(mint, moved)
    PROVE  Conserves(p) /\ p.moved \in [Mint -> Int]
<1>1. DOMAIN ins \subseteq Class(mint) /\ DOMAIN outs \subseteq Class(mint)
  BY DEF Class, IsTokenBag
<1>2. /\ Amount(ins) = HeldIn(ins, Class(mint)) /\ Amount(outs) = HeldIn(outs, Class(mint))
  BY <1>1, AmountIsHeld
<1>3. ASSUME NEW m \in Mint, m # mint
      PROVE  HeldIn(ins, Class(m)) = 0 /\ HeldIn(outs, Class(m)) = 0
  <2>1. DOMAIN ins \cap Class(m) = {} /\ DOMAIN outs \cap Class(m) = {}
    BY <1>1, <1>3 DEF Class
  <2> QED
    BY <2>1, NothingHeld
<1>4. /\ p.moved \in [Mint -> Int] /\ p.moved[mint] = moved
      /\ \A m \in Mint : m # mint => p.moved[m] = 0
  BY DEF Into
<1>5. ASSUME NEW m \in Mint PROVE HeldIn(p.outs, Class(m)) = HeldIn(p.ins, Class(m)) + p.moved[m]
  <2>1. CASE m = mint
    BY <1>2, <1>4, <2>1
  <2>2. CASE m # mint
    BY <1>3, <1>4, <2>2
  <2> QED
    BY <2>1, <2>2
<1> QED
  BY <1>4, <1>5 DEF Conserves

\* Who signed the part of an instruction
LEMMA OneAuthority ==
    ASSUME NEW authority, NEW payer, NEW p, p.signed = {<<authority, payer>>}
    PROVE  Authorities(p) = {authority}
<1>1. <<authority, payer>>[1] = authority
  OBVIOUS
<1>2. {s[1] : s \in {<<authority, payer>>}} = {<<authority, payer>>[1]}
  OBVIOUS
<1> QED
  BY <1>1, <1>2 DEF Authorities

\* The part p of an instruction, signed by its authority
IsPart(p, authority, payer, mint, moved) ==
    PartOK(p) /\ p.signed = {<<authority, payer>>} /\ p.moved = Into(mint, moved)

\* An instruction spends accounts that are not frozen, of its authority or
\* delegated to it, and creates accounts that are not frozen.
Spends(authority, mint, ins, outs, moved) ==
    /\ IsTokenBag(ins) /\ IsTokenBag(outs) /\ moved \in Int
    /\ \A a \in DOMAIN ins : /\ a.mint = mint /\ a.state = "Initialized"
                             /\ authority \in {a.owner, a.delegate}
    /\ \A a \in DOMAIN outs : a.mint = mint /\ a.state = "Initialized"
    /\ Amount(outs) = Amount(ins) + moved

LEMMA SpendPart ==
    ASSUME NEW mint \in Mint, NEW authority, NEW payer, NEW ins, NEW outs, NEW moved,
           Spends(authority, mint, ins, outs, moved),
           NEW p, p = Part({<<authority, payer>>}, ins, outs, Into(mint, moved))
    PROVE  IsPart(p, authority, payer, mint, moved)
<1> USE DEF Spends
<1>1. /\ p.signed = {<<authority, payer>>} /\ p.ins = ins /\ p.outs = outs
      /\ p.moved = Into(mint, moved)
  BY DEF Part
<1>2. Authorities(p) = {authority}
  BY <1>1, OneAuthority
<1>3. Conserves(p) /\ p.moved \in [Mint -> Int]
  BY <1>1, OneMint
<1>4. Respects(p)
  <2> SUFFICES ASSUME NEW D, Authorities(p) \subseteq D, NEW m \in Mint, NEW h \in Holder, h \notin D
               PROVE  HeldIn(p.outs, Kept(m, h, D)) >= HeldIn(p.ins, Kept(m, h, D))
    BY DEF Respects
  <2>1. DOMAIN ins \cap Kept(m, h, D) = {}
    BY <1>2 DEF Kept
  <2>2. HeldIn(p.ins, Kept(m, h, D)) = 0 /\ HeldIn(p.outs, Kept(m, h, D)) \in Nat
    BY <1>1, <2>1, NothingHeld, HeldType
  <2> QED
    BY <2>2
<1>5. LeavesFrozen(p)
  BY <1>1 DEF LeavesFrozen, IsFrozen
<1> QED
  BY <1>1, <1>3, <1>4, <1>5 DEF PartOK, IsPart

\* A mint's class, and what an owner keeps, do not tell frozen accounts from
\* others.
LEMMA BlindSets ==
    ASSUME NEW m, NEW h, NEW D
    PROVE  Blind(Class(m)) /\ Blind(Kept(m, h, D))
BY RestatedType DEF Blind, Class, Kept

\* An instruction of the freeze authority changes the state of accounts.
Restates(mint, ins, outs) ==
    /\ IsTokenBag(ins) /\ IsTokenBag(outs)
    /\ \A a \in DOMAIN ins \cup DOMAIN outs : a.mint = mint
    /\ \A S : Blind(S) => HeldIn(outs, S) = HeldIn(ins, S)

LEMMA RestatePart ==
    ASSUME NEW mint \in Mint, NEW payer, NEW ins, NEW outs, Restates(mint, ins, outs),
           NEW p, p = Part({<<FreezeAuthority[mint], payer>>}, ins, outs, Into(mint, 0))
    PROVE  IsPart(p, FreezeAuthority[mint], payer, mint, 0)
<1> USE DEF Restates
<1>1. /\ p.signed = {<<FreezeAuthority[mint], payer>>} /\ p.ins = ins /\ p.outs = outs
      /\ p.moved = Into(mint, 0)
  BY DEF Part
<1>2. Authorities(p) = {FreezeAuthority[mint]}
  BY <1>1, OneAuthority
<1>3. Conserves(p) /\ p.moved \in [Mint -> Int]
  <2>1. DOMAIN ins \subseteq Class(mint) /\ DOMAIN outs \subseteq Class(mint)
    BY DEF Class, IsTokenBag
  <2>2. /\ Amount(ins) = HeldIn(ins, Class(mint)) /\ Amount(outs) = HeldIn(outs, Class(mint))
        /\ Amount(ins) \in Nat
    BY <2>1, AmountIsHeld
  <2>3. Amount(outs) = Amount(ins) + 0
    BY <2>2, BlindSets
  <2> DEFINE zero == 0
  <2>4. zero \in Int /\ Amount(outs) = Amount(ins) + zero /\ p.moved = Into(mint, zero)
    BY <1>1, <2>3
  <2> HIDE DEF zero
  <2> QED
    BY <1>1, <2>4, OneMint
<1>4. Respects(p)
  <2> SUFFICES ASSUME NEW D, NEW m \in Mint, NEW h \in Holder
               PROVE  HeldIn(p.outs, Kept(m, h, D)) >= HeldIn(p.ins, Kept(m, h, D))
    BY DEF Respects
  <2>1. HeldIn(p.outs, Kept(m, h, D)) = HeldIn(p.ins, Kept(m, h, D))
    BY <1>1, BlindSets
  <2>2. HeldIn(p.ins, Kept(m, h, D)) \in Nat
    BY <1>1, HeldType
  <2> QED
    BY <2>1, <2>2
<1>5. LeavesFrozen(p)
  BY <1>1, <1>2 DEF LeavesFrozen, IsFrozen
<1> QED
  BY <1>1, <1>3, <1>4, <1>5 DEF PartOK, IsPart

-----------------------------------------------------------------------------
\* Steps.

\* moved SPL tokens of every mint go into its pool, out of the signers'
\* accounts or minted, or out of it.
Balanced(moved) ==
    /\ pool' \in [Mint -> Nat \cup {None}]
    /\ spl' \in [Mint -> [Holder \cup Admin -> Nat]]
    /\ supply' \in [Mint -> Nat]
    /\ \A m \in Mint :
        /\ IF pool[m] = None THEN pool'[m] = None /\ moved[m] = 0
           ELSE pool'[m] # None /\ pool'[m] = pool[m] + moved[m]
        /\ supply'[m] + SplSum(spl[m]) = supply[m] + SplSum(spl'[m]) + moved[m]

\* What DelegateBound and FrozenStays say of a step
DelegateStep ==
    \A m \in Mint, h \in Holder :
        h \notin signers' => Held(accounts', NotDelegated(accounts', m, h, signers'))
                                >= Held(accounts, NotDelegated(accounts, m, h, signers'))
FrozenStep ==
    \A m \in Mint :
        FreezeAuthority[m] \notin signers' => Frozen(accounts', m) = Frozen(accounts, m)

StepOK == IInv' /\ DelegateStep /\ FrozenStep

\* The accounts that an owner keeps
LEMMA KeptAccounts ==
    ASSUME NEW b, IsTokenBag(b), NEW m, NEW h, NEW D
    PROVE  Held(b, NotDelegated(b, m, h, D)) = HeldIn(b, Kept(m, h, D))
<1>1. NotDelegated(b, m, h, D) = DOMAIN b \cap Kept(m, h, D)
  BY DEF NotDelegated, OfMint, Kept, IsTokenBag
<1> QED
  BY <1>1 DEF HeldIn

\* A step that leaves the accounts alone
LEMMA AccountsStay ==
    ASSUME IsTokenBag(accounts), accounts' = accounts
    PROVE  DelegateStep /\ FrozenStep
<1>1. FrozenStep
  BY DEF FrozenStep
<1>2. ASSUME NEW m \in Mint, NEW h \in Holder
      PROVE  Held(accounts', NotDelegated(accounts', m, h, signers'))
                >= Held(accounts, NotDelegated(accounts, m, h, signers'))
  <2> DEFINE D == signers'
  <2>1. Held(accounts, NotDelegated(accounts, m, h, D)) = HeldIn(accounts, Kept(m, h, D))
    BY KeptAccounts
  <2>2. HeldIn(accounts, Kept(m, h, D)) \in Nat
    BY HeldType
  <2>3. Held(accounts', NotDelegated(accounts', m, h, D)) = Held(accounts, NotDelegated(accounts, m, h, D))
    OBVIOUS
  <2> QED
    BY <2>1, <2>2, <2>3
<1> QED
  BY <1>1, <1>2 DEF DelegateStep

\* Accounts outside what a step replaces stay.
LEMMA OthersStay ==
    ASSUME NEW old, IsTokenBag(old), NEW new, IsTokenBag(new), NEW ins, NEW outs,
           Replaced(old, new, ins, outs),
           NEW a \in TokenAccount, a \notin DOMAIN ins, a \notin DOMAIN outs
    PROVE  /\ a \in DOMAIN new <=> a \in DOMAIN old
           /\ a \in DOMAIN old => new[a] = old[a]
<1>1. Copies(ins, a) = 0 /\ Copies(outs, a) = 0
  BY DEF Copies
<1>2. Copies(new, a) \in Nat /\ Copies(old, a) \in Nat
  BY CopiesType
<1>3. Copies(new, a) = Copies(old, a)
  BY <1>1, <1>2 DEF Replaced
<1>4. /\ a \in DOMAIN old => Copies(old, a) = old[a] /\ old[a] # 0
      /\ a \notin DOMAIN old => Copies(old, a) = 0
  BY DEF Copies, IsTokenBag
<1>5. /\ a \in DOMAIN new => Copies(new, a) = new[a] /\ new[a] # 0
      /\ a \notin DOMAIN new => Copies(new, a) = 0
  BY DEF Copies, IsTokenBag
<1> QED
  BY <1>3, <1>4, <1>5

\* What replaces no frozen account of a mint leaves them alone.
LEMMA FrozenPart ==
    ASSUME NEW old, IsTokenBag(old), NEW new, IsTokenBag(new), NEW ins, NEW outs,
           Replaced(old, new, ins, outs), NEW m,
           \A a \in DOMAIN ins \cup DOMAIN outs : ~IsFrozen(a, m)
    PROVE  Frozen(new, m) = Frozen(old, m)
<1> DEFINE F(b) == {a \in OfMint(b, m) : a.state = "Frozen"}
<1>1. DOMAIN old \subseteq TokenAccount /\ DOMAIN new \subseteq TokenAccount
  BY DEF IsTokenBag
<1>2. ASSUME NEW a \in TokenAccount, a.mint = m, a.state = "Frozen"
      PROVE  /\ a \in DOMAIN new <=> a \in DOMAIN old
             /\ a \in DOMAIN old => new[a] = old[a]
  <2>1. a \notin DOMAIN ins /\ a \notin DOMAIN outs
    BY <1>2 DEF IsFrozen
  <2> QED
    BY <2>1, OthersStay
<1>3. F(new) = F(old)
  BY <1>1, <1>2 DEF OfMint
<1>4. \A a \in F(old) : new[a] = old[a]
  BY <1>1, <1>2 DEF OfMint
<1> QED
  BY <1>3, <1>4 DEF Frozen

\* What the execution of a part makes of the accounts
Settled(p) ==
    /\ IsTokenBag(accounts')
    /\ \A m \in Mint : HeldIn(accounts', Class(m)) = HeldIn(accounts, Class(m)) + p.moved[m]
    /\ DelegateStep /\ FrozenStep

LEMMA SettleEffect ==
    ASSUME IsTokenBag(accounts), NEW p, PartOK(p), p.ins \sqsubseteq accounts,
           accounts' = (accounts (-) p.ins) (+) p.outs, signers' = Authorities(p)
    PROVE  Settled(p)
<1> DEFINE ins == p.ins
           outs == p.outs
<1>1. /\ IsTokenBag(ins) /\ IsTokenBag(outs) /\ p.moved \in [Mint -> Int]
      /\ Conserves(p) /\ Respects(p) /\ LeavesFrozen(p)
  BY DEF PartOK
<1>2. ins \sqsubseteq accounts /\ accounts' = (accounts (-) ins) (+) outs
  OBVIOUS
<1> HIDE DEF ins, outs
<1>3. IsTokenBag(accounts') /\ Replaced(accounts, accounts', ins, outs)
  BY <1>1, <1>2, Execution
<1>4. ASSUME NEW S
      PROVE  /\ HeldIn(accounts', S) + HeldIn(ins, S) = HeldIn(accounts, S) + HeldIn(outs, S)
             /\ HeldIn(accounts', S) \in Nat /\ HeldIn(accounts, S) \in Nat
             /\ HeldIn(ins, S) \in Nat /\ HeldIn(outs, S) \in Nat
  BY <1>1, <1>3, HeldReplaced, HeldType
<1>5. ASSUME NEW m \in Mint
      PROVE  HeldIn(accounts', Class(m)) = HeldIn(accounts, Class(m)) + p.moved[m]
  <2>1. HeldIn(outs, Class(m)) = HeldIn(ins, Class(m)) + p.moved[m] /\ p.moved[m] \in Int
    BY <1>1 DEF Conserves, ins, outs
  <2>2. /\ HeldIn(accounts', Class(m)) + HeldIn(ins, Class(m))
            = HeldIn(accounts, Class(m)) + HeldIn(outs, Class(m))
        /\ HeldIn(accounts', Class(m)) \in Nat /\ HeldIn(accounts, Class(m)) \in Nat
        /\ HeldIn(ins, Class(m)) \in Nat /\ HeldIn(outs, Class(m)) \in Nat
    BY <1>4
  <2> QED
    BY <2>1, <2>2
<1>6. DelegateStep
  <2> SUFFICES ASSUME NEW m \in Mint, NEW h \in Holder, h \notin signers'
               PROVE  Held(accounts', NotDelegated(accounts', m, h, signers'))
                        >= Held(accounts, NotDelegated(accounts, m, h, signers'))
    BY DEF DelegateStep
  <2> DEFINE S == Kept(m, h, signers')
  <2>1. HeldIn(outs, S) >= HeldIn(ins, S)
    BY <1>1 DEF Respects, ins, outs
  <2>2. /\ Held(accounts', NotDelegated(accounts', m, h, signers')) = HeldIn(accounts', S)
        /\ Held(accounts, NotDelegated(accounts, m, h, signers')) = HeldIn(accounts, S)
    BY <1>3, KeptAccounts
  <2> HIDE DEF S
  <2>3. /\ HeldIn(accounts', S) + HeldIn(ins, S) = HeldIn(accounts, S) + HeldIn(outs, S)
        /\ HeldIn(accounts', S) \in Nat /\ HeldIn(accounts, S) \in Nat
        /\ HeldIn(ins, S) \in Nat /\ HeldIn(outs, S) \in Nat
    BY <1>4
  <2> QED
    BY <2>1, <2>2, <2>3
<1>7. FrozenStep
  <2> SUFFICES ASSUME NEW m \in Mint, FreezeAuthority[m] \notin signers'
               PROVE  Frozen(accounts', m) = Frozen(accounts, m)
    BY DEF FrozenStep
  <2>1. \A a \in DOMAIN ins \cup DOMAIN outs : ~IsFrozen(a, m)
    BY <1>1 DEF LeavesFrozen, ins, outs
  <2> QED
    BY <1>3, <2>1, FrozenPart
<1> QED
  BY <1>3, <1>5, <1>6, <1>7 DEF Settled

\* SPL sums are numbers.
LEMMA SplType ==
    ASSUME NEW s \in [Holder \cup Admin -> Nat]
    PROVE  SplSum(s) \in Nat
<1>1. IsFiniteSet(Holder \cup Admin) /\ \A h \in Holder \cup Admin : s[h] \in Nat
  BY CompressedTokenAssumption
<1> QED
  BY <1>1, SumType DEF SplSum

\* It is enough that the accounts and what is unsettled change by the SPL
\* tokens that move.
LEMMA Rebalance ==
    ASSUME TypeOK, PoolBacksTokens, NEW moved \in [Mint -> Int], Balanced(moved),
           IsTokenBag(accounts'), unsettled' \in [Mint -> Int],
           \A m \in Mint : HeldIn(accounts', Class(m)) + unsettled'[m]
                            = HeldIn(accounts, Class(m)) + unsettled[m] + moved[m],
           \A m \in Mint : pool[m] = None => HeldIn(accounts', Class(m)) = 0
    PROVE  TypeOK' /\ PoolBacksTokens'
<1>1. /\ IsTokenBag(accounts) /\ pool \in [Mint -> Nat \cup {None}]
      /\ spl \in [Mint -> [Holder \cup Admin -> Nat]] /\ supply \in [Mint -> Nat]
      /\ unsettled \in [Mint -> Int]
  BY DEF TypeOK
<1>2. TypeOK'
  BY DEF TypeOK, Balanced
<1>3. /\ pool' \in [Mint -> Nat \cup {None}]
      /\ spl' \in [Mint -> [Holder \cup Admin -> Nat]] /\ supply' \in [Mint -> Nat]
  BY DEF Balanced
<1>4. \A m \in Mint : Backs(HeldIn(accounts, Class(m)), unsettled[m], pool[m], supply[m],
                            SplSum(spl[m]))
  BY <1>1, BackedTokens
<1>5. ASSUME NEW m \in Mint
      PROVE  Backs(HeldIn(accounts', Class(m)), unsettled'[m], pool'[m], supply'[m], SplSum(spl'[m]))
  <2> DEFINE held == HeldIn(accounts, Class(m))
             held2 == HeldIn(accounts', Class(m))
             u == unsettled[m]
             u2 == unsettled'[m]
             p == pool[m]
             p2 == pool'[m]
             s == supply[m]
             s2 == supply'[m]
             t == SplSum(spl[m])
             t2 == SplSum(spl'[m])
             n == moved[m]
  <2>1. held \in Nat /\ held2 \in Nat
    BY <1>1, HeldType
  <2>2. t \in Nat /\ t2 \in Nat
    <3>1. spl[m] \in [Holder \cup Admin -> Nat] /\ spl'[m] \in [Holder \cup Admin -> Nat]
      BY <1>1, <1>3
    <3> QED
      BY <3>1, SplType
  <2>3. /\ u \in Int /\ u2 \in Int /\ p \in Nat \cup {None} /\ p2 \in Nat \cup {None}
        /\ s \in Nat /\ s2 \in Nat /\ n \in Int
    BY <1>1, <1>3
  <2>4. Backs(held, u, p, s, t)
    BY <1>4
  <2>5. held2 + u2 = held + u + n
    OBVIOUS
  <2>6. IF p = None THEN p2 = None /\ n = 0 /\ held2 = 0 ELSE p2 # None /\ p2 = p + n
    BY DEF Balanced
  <2>7. s2 + t = s + t2 + n
    BY DEF Balanced
  <2> HIDE DEF held, held2, u, u2, p, p2, s, s2, t, t2, n
  <2>8. Backs(held2, u2, p2, s2, t2)
    <3>1. s = held + u + t
      BY <2>4 DEF Backs
    <3>2. s2 = held2 + u2 + t2
      BY <2>1, <2>2, <2>3, <2>5, <2>7, <3>1
    <3>3. CASE p = None
      <4>1. held = 0 /\ u = 0 /\ p2 = None /\ n = 0 /\ held2 = 0
        BY <2>4, <2>6, <3>3 DEF Backs
      <4>2. u2 = 0
        BY <2>3, <2>5, <4>1
      <4> QED
        BY <3>2, <4>1, <4>2 DEF Backs
    <3>4. CASE p # None
      <4>1. p = held + u /\ p2 # None /\ p2 = p + n
        BY <2>4, <2>6, <3>4 DEF Backs
      <4>2. p2 = held2 + u2
        BY <2>1, <2>3, <2>5, <4>1
      <4> QED
        BY <3>2, <4>1, <4>2 DEF Backs
    <3> QED
      BY <3>3, <3>4
  <2> QED
    BY <2>8 DEF held2, u2, p2, s2, t2
<1>6. PoolBacksTokens'
  <2>1. \A m \in Mint : Held(accounts', OfMint(accounts', m)) = HeldIn(accounts', Class(m))
    BY MintHeld
  <2> QED
    BY <1>5, <2>1, Zenon DEF PoolBacksTokens, Backs, SplSum
<1> QED
  BY <1>2, <1>6

\* A part that is executed by itself
LEMMA DirectStep ==
    ASSUME IInv, NEW p, PartOK(p), Balanced(p.moved), p.ins \sqsubseteq accounts,
           accounts' = (accounts (-) p.ins) (+) p.outs, signers' = Authorities(p),
           context' = context, unsettled' = unsettled
    PROVE  StepOK
<1>1. /\ TypeOK /\ PoolBacksTokens /\ ContextOK /\ IsTokenBag(accounts)
      /\ unsettled \in [Mint -> Int]
  BY DEF IInv, TypeOK
<1>2. Settled(p)
  BY <1>1, SettleEffect
<1>3. /\ IsTokenBag(accounts') /\ p.moved \in [Mint -> Int]
      /\ \A m \in Mint : HeldIn(accounts', Class(m)) = HeldIn(accounts, Class(m)) + p.moved[m]
  BY <1>2 DEF Settled, PartOK
<1>4. \A m \in Mint : /\ HeldIn(accounts, Class(m)) \in Nat /\ unsettled[m] \in Int
                      /\ p.moved[m] \in Int
  BY <1>1, <1>3, HeldType
<1>5. \A m \in Mint : HeldIn(accounts', Class(m)) + unsettled'[m]
                        = HeldIn(accounts, Class(m)) + unsettled[m] + p.moved[m]
  BY <1>3, <1>4
<1>6. \A m \in Mint : pool[m] = None => HeldIn(accounts', Class(m)) = 0
  <2> TAKE m \in Mint
  <2> HAVE pool[m] = None
  <2>1. p.moved[m] = 0
    BY DEF Balanced
  <2>2. Backs(HeldIn(accounts, Class(m)), unsettled[m], pool[m], supply[m], SplSum(spl[m]))
    BY <1>1, BackedTokens
  <2>3. HeldIn(accounts, Class(m)) = 0
    BY <2>2 DEF Backs
  <2> QED
    BY <1>3, <2>1, <2>3
<1>7. TypeOK' /\ PoolBacksTokens'
  <2> DEFINE moved == p.moved
  <2>1. /\ moved \in [Mint -> Int] /\ Balanced(moved)
        /\ \A m \in Mint : HeldIn(accounts', Class(m)) + unsettled'[m]
                            = HeldIn(accounts, Class(m)) + unsettled[m] + moved[m]
    BY <1>3, <1>5
  <2>2. unsettled' \in [Mint -> Int]
    BY <1>1
  <2> HIDE DEF moved
  <2> QED
    BY <1>1, <1>3, <1>6, <2>1, <2>2, Rebalance
<1>8. ContextOK'
  <2>1. \A m \in Mint : pool'[m] = None => pool[m] = None
    BY DEF Balanced
  <2> QED
    BY <1>1, <2>1 DEF ContextOK
<1> QED
  BY <1>2, <1>7, <1>8 DEF StepOK, IInv, Settled

\* A part that is cached
LEMMA CacheStep ==
    ASSUME IInv, NEW cpi, NEW p, PartOK(p), Balanced(p.moved), \A s \in p.signed : s[2] = cpi.fee_payer,
           ~cpi.first_set_context => context.fee_payer = cpi.fee_payer, Cache(cpi, p)
    PROVE  StepOK
<1>1. /\ TypeOK /\ PoolBacksTokens /\ ContextOK /\ IsTokenBag(accounts)
      /\ unsettled \in [Mint -> Int]
  BY DEF IInv, TypeOK
<1> DEFINE parts == IF cpi.first_set_context THEN p ELSE combine(p, context.parts)
<1>2. /\ context' = [fee_payer |-> cpi.fee_payer, parts |-> parts]
      /\ unsettled' = [m \in Mint |-> unsettled[m] + p.moved[m]]
      /\ accounts' = accounts
  BY DEF Cache
<1>3. p.moved \in [Mint -> Int]
  BY DEF PartOK
<1>4. TypeOK' /\ PoolBacksTokens'
  <2> DEFINE moved == p.moved
  <2>1. moved \in [Mint -> Int] /\ Balanced(moved) /\ unsettled' \in [Mint -> Int]
    BY <1>1, <1>2, <1>3
  <2>2. ASSUME NEW m \in Mint
        PROVE  HeldIn(accounts', Class(m)) + unsettled'[m]
                = HeldIn(accounts, Class(m)) + unsettled[m] + moved[m]
    <3>1. unsettled'[m] = unsettled[m] + moved[m] /\ unsettled[m] \in Int /\ moved[m] \in Int
      BY <1>1, <1>2, <1>3
    <3>2. HeldIn(accounts', Class(m)) = HeldIn(accounts, Class(m)) /\ HeldIn(accounts, Class(m)) \in Nat
      BY <1>1, <1>2, HeldType
    <3> QED
      BY <3>1, <3>2
  <2>3. ASSUME NEW m \in Mint, pool[m] = None PROVE HeldIn(accounts', Class(m)) = 0
    <3>1. Backs(HeldIn(accounts, Class(m)), unsettled[m], pool[m], supply[m], SplSum(spl[m]))
      BY <1>1, BackedTokens
    <3> QED
      BY <1>2, <2>3, <3>1 DEF Backs
  <2>4. IsTokenBag(accounts')
    BY <1>1, <1>2
  <2> HIDE DEF moved
  <2> QED
    BY <1>1, <2>1, <2>2, <2>3, <2>4, Rebalance
<1>5. /\ PartOK(parts) /\ \A s \in parts.signed : s[2] = cpi.fee_payer
      /\ \A m \in Mint : pool'[m] = None => parts.moved[m] = 0
  <2>1. \A m \in Mint : pool'[m] = None => pool[m] = None /\ p.moved[m] = 0
    BY DEF Balanced
  <2>2. CASE cpi.first_set_context
    <3>1. parts = p
      BY <2>2
    <3> HIDE DEF parts
    <3> QED
      BY <2>1, <3>1
  <2>3. CASE ~cpi.first_set_context
    <3> DEFINE q == context.parts
    <3>1. parts = combine(p, q)
      BY <2>3
    <3>2. /\ PartOK(q) /\ (\A s \in q.signed : s[2] = cpi.fee_payer)
          /\ \A m \in Mint : pool[m] = None => q.moved[m] = 0
      BY <1>1, <2>3 DEF ContextOK
    <3> HIDE DEF parts, q
    <3>3. /\ PartOK(parts) /\ parts.signed = p.signed \cup q.signed
          /\ \A m \in Mint : parts.moved[m] = p.moved[m] + q.moved[m]
      BY <3>1, <3>2, CombineOK
    <3> QED
      BY <2>1, <3>2, <3>3
  <2> QED
    BY <2>2, <2>3
<1>6. ContextOK'
  <2> HIDE DEF parts
  <2>1. context'.fee_payer = cpi.fee_payer /\ context'.parts = parts
    BY <1>2
  <2> QED
    BY <1>5, <2>1 DEF ContextOK
<1>7. DelegateStep /\ FrozenStep
  BY <1>1, <1>2, AccountsStay
<1> QED
  BY <1>4, <1>6, <1>7 DEF StepOK, IInv

\* Who signed the parts that are executed
LEMMA PayersParts ==
    ASSUME NEW p, NEW payer, \A s \in p.signed : s[2] = payer
    PROVE  {s[1] : s \in {t \in p.signed : t[2] = payer}} = Authorities(p)
<1>1. {t \in p.signed : t[2] = payer} = p.signed
  OBVIOUS
<1> QED
  BY <1>1 DEF Authorities

\* A part that is executed together with what is cached
LEMMA ExecuteStep ==
    ASSUME IInv, NEW cpi, NEW p, PartOK(p), Balanced(p.moved), \A s \in p.signed : s[2] = cpi.fee_payer,
           context.fee_payer = cpi.fee_payer, Settle(cpi.fee_payer, combine(p, context.parts)),
           context' = [fee_payer |-> None, parts |-> NoPart],
           unsettled' = [m \in Mint |-> unsettled[m] - context.parts.moved[m]]
    PROVE  StepOK
<1> DEFINE q == context.parts
           r == combine(p, q)
<1>1. /\ TypeOK /\ PoolBacksTokens /\ ContextOK /\ IsTokenBag(accounts)
      /\ unsettled \in [Mint -> Int]
  BY DEF IInv, TypeOK
<1>2. /\ PartOK(q) /\ (\A s \in q.signed : s[2] = cpi.fee_payer)
      /\ \A m \in Mint : pool[m] = None => q.moved[m] = 0
  BY <1>1 DEF ContextOK
<1>3. /\ PartOK(r) /\ r.signed = p.signed \cup q.signed
      /\ \A m \in Mint : r.moved[m] = p.moved[m] + q.moved[m]
  <2>1. r = combine(p, q)
    OBVIOUS
  <2> HIDE DEF q, r
  <2> QED
    BY <1>2, <2>1, CombineOK
<1>4. Settle(cpi.fee_payer, r) /\ unsettled' = [m \in Mint |-> unsettled[m] - q.moved[m]]
  OBVIOUS
<1> HIDE DEF q, r
<1>5. /\ r.ins \sqsubseteq accounts /\ accounts' = (accounts (-) r.ins) (+) r.outs
      /\ signers' = Authorities(r)
  <2>1. \A s \in r.signed : s[2] = cpi.fee_payer
    BY <1>2, <1>3
  <2>2. {s[1] : s \in {t \in r.signed : t[2] = cpi.fee_payer}} = Authorities(r)
    BY <2>1, PayersParts
  <2> QED
    BY <1>4, <2>2 DEF Settle
<1>6. Settled(r)
  BY <1>1, <1>3, <1>5, SettleEffect
<1>7. /\ IsTokenBag(accounts') /\ p.moved \in [Mint -> Int] /\ q.moved \in [Mint -> Int]
      /\ \A m \in Mint : HeldIn(accounts', Class(m)) = HeldIn(accounts, Class(m)) + r.moved[m]
  BY <1>2, <1>6 DEF Settled, PartOK
<1>8. TypeOK' /\ PoolBacksTokens'
  <2> DEFINE moved == p.moved
  <2>1. moved \in [Mint -> Int] /\ Balanced(moved) /\ unsettled' \in [Mint -> Int]
    BY <1>1, <1>4, <1>7
  <2>2. ASSUME NEW m \in Mint
        PROVE  HeldIn(accounts', Class(m)) + unsettled'[m]
                = HeldIn(accounts, Class(m)) + unsettled[m] + moved[m]
    <3>1. /\ unsettled'[m] = unsettled[m] - q.moved[m] /\ unsettled[m] \in Int
          /\ p.moved[m] \in Int /\ q.moved[m] \in Int /\ r.moved[m] = p.moved[m] + q.moved[m]
      BY <1>1, <1>3, <1>4, <1>7
    <3>2. /\ HeldIn(accounts', Class(m)) = HeldIn(accounts, Class(m)) + r.moved[m]
          /\ HeldIn(accounts, Class(m)) \in Nat
      BY <1>1, <1>7, HeldType
    <3> QED
      BY <3>1, <3>2
  <2>3. ASSUME NEW m \in Mint, pool[m] = None PROVE HeldIn(accounts', Class(m)) = 0
    <3>1. Backs(HeldIn(accounts, Class(m)), unsettled[m], pool[m], supply[m], SplSum(spl[m]))
      BY <1>1, BackedTokens
    <3>2. HeldIn(accounts, Class(m)) = 0
      BY <2>3, <3>1 DEF Backs
    <3>3. p.moved[m] = 0 /\ q.moved[m] = 0
      BY <1>2, <2>3 DEF Balanced
    <3> QED
      BY <1>3, <1>7, <3>2, <3>3
  <2> HIDE DEF moved
  <2> QED
    BY <1>1, <1>7, <2>1, <2>2, <2>3, Rebalance
<1>9. ContextOK'
  <2>1. context'.fee_payer = None /\ context'.parts = NoPart
    OBVIOUS
  <2> QED
    BY <2>1, NoPartOK DEF ContextOK
<1> QED
  BY <1>6, <1>8, <1>9 DEF StepOK, IInv, Settled

\* process_invoke_cpi with a part whose tokens have moved
LEMMA InvokeStep ==
    ASSUME IInv, NEW cpi, NEW p, PartOK(p), Balanced(p.moved), \A s \in p.signed : s[2] = FeePayer(cpi),
           process_invoke_cpi(cpi, p)
    PROVE  StepOK
<1>1. CASE cpi = None
  <2>1. ~Caches(cpi) /\ FeePayer(cpi) = None
    BY <1>1 DEF Caches, FeePayer
  <2>2. Settle(None, p) /\ context' = context /\ unsettled' = unsettled
    BY <1>1, <2>1 DEF process_invoke_cpi
  <2>3. /\ p.ins \sqsubseteq accounts /\ accounts' = (accounts (-) p.ins) (+) p.outs
        /\ signers' = Authorities(p)
    <3>1. {s[1] : s \in {t \in p.signed : t[2] = None}} = Authorities(p)
      BY <2>1, PayersParts
    <3> QED
      BY <2>2, <3>1 DEF Settle
  <2> QED
    BY <2>2, <2>3, DirectStep
<1>2. CASE cpi # None /\ cpi.set_context
  <2>1. Caches(cpi) /\ FeePayer(cpi) = cpi.fee_payer
    BY <1>2 DEF Caches, FeePayer
  <2>2. Cache(cpi, p) /\ MayUse(cpi)
    BY <2>1 DEF process_invoke_cpi
  <2>3. ~cpi.first_set_context => context.fee_payer = cpi.fee_payer
    BY <1>2, <2>2 DEF MayUse
  <2> QED
    BY <2>1, <2>2, <2>3, CacheStep
<1>3. CASE cpi # None /\ ~cpi.set_context
  <2>1. ~Caches(cpi) /\ FeePayer(cpi) = cpi.fee_payer
    BY <1>3 DEF Caches, FeePayer
  <2>2. /\ Settle(cpi.fee_payer, combine(p, context.parts)) /\ MayUse(cpi)
        /\ context' = [fee_payer |-> None, parts |-> NoPart]
        /\ unsettled' = [m \in Mint |-> unsettled[m] - context.parts.moved[m]]
    BY <1>3, <2>1 DEF process_invoke_cpi
  <2>3. context.fee_payer = cpi.fee_payer
    BY <1>3, <2>2 DEF MayUse
  <2> QED
    BY <2>1, <2>2, <2>3, ExecuteStep
<1> QED
  BY <1>1, <1>2, <1>3

-----------------------------------------------------------------------------
\* The SPL tokens that an instruction moves.

\* The mint's pool, supply and SPL accounts become p, s and f.
SetsTo(mint, p, s, f) ==
    /\ p \in Nat /\ s \in Nat /\ f \in [Holder \cup Admin -> Nat]
    /\ pool' = [pool EXCEPT ![mint] = p]
    /\ supply' = [supply EXCEPT ![mint] = s]
    /\ spl' = [spl EXCEPT ![mint] = f]

\* An instruction that changes those of one mint
LEMMA BalancedChange ==
    ASSUME TypeOK, NEW mint \in Mint, pool[mint] # None, NEW moved \in Int, NEW p, NEW s, NEW f,
           SetsTo(mint, p, s, f), p = pool[mint] + moved,
           s + SplSum(spl[mint]) = supply[mint] + SplSum(f) + moved
    PROVE  Balanced(Into(mint, moved))
<1>1. /\ pool \in [Mint -> Nat \cup {None}] /\ spl \in [Mint -> [Holder \cup Admin -> Nat]]
      /\ supply \in [Mint -> Nat] /\ None \notin Nat
  BY CompressedTokenAssumption DEF TypeOK
<1>2. /\ pool' \in [Mint -> Nat \cup {None}] /\ spl' \in [Mint -> [Holder \cup Admin -> Nat]]
      /\ supply' \in [Mint -> Nat]
  BY <1>1 DEF SetsTo
<1> DEFINE w == Into(mint, moved)
<1>3. w[mint] = moved /\ \A m \in Mint : m # mint => w[m] = 0
  BY DEF Into
<1> HIDE DEF w
<1>4. ASSUME NEW m \in Mint
      PROVE  /\ IF pool[m] = None THEN pool'[m] = None /\ w[m] = 0
                ELSE pool'[m] # None /\ pool'[m] = pool[m] + w[m]
             /\ supply'[m] + SplSum(spl[m]) = supply[m] + SplSum(spl'[m]) + w[m]
  <2>1. CASE m = mint
    <3>1. pool'[m] = p /\ supply'[m] = s /\ spl'[m] = f /\ p \in Nat /\ w[m] = moved
      BY <1>1, <1>3, <2>1 DEF SetsTo
    <3>2. pool'[m] # None /\ pool'[m] = pool[m] + w[m]
      BY <1>1, <2>1, <3>1
    <3>3. supply'[m] + SplSum(spl[m]) = supply[m] + SplSum(spl'[m]) + w[m]
      BY <2>1, <3>1
    <3> QED
      BY <2>1, <3>2, <3>3
  <2>2. CASE m # mint
    <3>1. pool'[m] = pool[m] /\ supply'[m] = supply[m] /\ spl'[m] = spl[m] /\ w[m] = 0
      BY <1>1, <1>3, <2>2 DEF SetsTo
    <3>2. pool[m] \in Nat \cup {None} /\ supply[m] \in Nat /\ SplSum(spl[m]) \in Nat
      <4>1. spl[m] \in [Holder \cup Admin -> Nat]
        BY <1>1
      <4> QED
        BY <1>1, <4>1, SplType
    <3> HIDE DEF SplSum
    <3> QED
      BY <3>1, <3>2
  <2> QED
    BY <2>1, <2>2
<1> QED
  BY <1>2, <1>4 DEF Balanced, w

\* An instruction that moves no SPL tokens
LEMMA BalancedNothing ==
    ASSUME TypeOK, UNCHANGED <<pool, spl, supply>>, NEW moved, \A m \in Mint : moved[m] = 0
    PROVE  Balanced(moved)
<1>1. /\ pool \in [Mint -> Nat \cup {None}] /\ spl \in [Mint -> [Holder \cup Admin -> Nat]]
      /\ supply \in [Mint -> Nat]
  BY DEF TypeOK
<1>2. ASSUME NEW m \in Mint
      PROVE  /\ IF pool[m] = None THEN pool'[m] = None /\ moved[m] = 0
                ELSE pool'[m] # None /\ pool'[m] = pool[m] + moved[m]
             /\ supply'[m] + SplSum(spl[m]) = supply[m] + SplSum(spl'[m]) + moved[m]
  <2>1. pool'[m] = pool[m] /\ supply'[m] = supply[m] /\ spl'[m] = spl[m] /\ moved[m] = 0
    OBVIOUS
  <2>2. pool[m] \in Nat \cup {None} /\ supply[m] \in Nat /\ SplSum(spl[m]) \in Nat
    <3>1. spl[m] \in [Holder \cup Admin -> Nat]
      BY <1>1
    <3> QED
      BY <1>1, <3>1, SplType
  <2> QED
    BY <2>1, <2>2
<1> QED
  BY <1>1, <1>2 DEF Balanced

\* The tokens of a mint: t in SPL accounts
LEMMA Balance ==
    ASSUME IInv, NEW mint \in Mint, pool[mint] # None, NEW t, t = SplSum(spl[mint])
    PROVE  /\ t \in Nat /\ pool[mint] \in Nat /\ supply[mint] \in Nat
           /\ spl[mint] \in [Holder \cup Admin -> Nat]
           /\ supply[mint] = pool[mint] + t
<1>1. /\ IsTokenBag(accounts) /\ pool[mint] \in Nat /\ supply[mint] \in Nat
      /\ spl[mint] \in [Holder \cup Admin -> Nat]
  BY DEF IInv, TypeOK
<1>2. Backs(HeldIn(accounts, Class(mint)), unsettled[mint], pool[mint], supply[mint], t)
  BY <1>1, BackedTokens DEF IInv
<1>3. t \in Nat
  BY <1>1, SplType
<1> QED
  BY <1>1, <1>2, <1>3 DEF Backs

\* The SPL tokens after a change of one account
Put(s, h, n) == [s EXCEPT ![h] = n]

\* The sum of the SPL tokens changes by what the account gets or gives.
LEMMA SplChange ==
    ASSUME NEW s \in [Holder \cup Admin -> Nat], NEW h \in Holder \cup Admin, NEW n \in Nat
    PROVE  /\ Put(s, h, n) \in [Holder \cup Admin -> Nat]
           /\ SplSum(Put(s, h, n)) + s[h] = SplSum(s) + n
           /\ SplSum(Put(s, h, n)) \in Nat
<1> DEFINE S == Holder \cup Admin
           w == Put(s, h, n)
<1>1. w \in [S -> Nat] /\ w[h] = n /\ IsFiniteSet(S) /\ s \in [S -> Nat] /\ h \in S
  BY CompressedTokenAssumption DEF Put
<1>2. (\A y \in S : s[y] \in Nat /\ w[y] \in Nat) /\ \A y \in S \ {h} : s[y] = w[y]
  BY DEF Put
<1> HIDE DEF S, w
<1>3. SumFunctionOnSet(w, S) + s[h] = SumFunctionOnSet(s, S) + w[h]
  BY ONLY <1>1, <1>2, SumChange
<1>4. SumFunctionOnSet(w, S) \in Nat
  BY <1>1, <1>2, SumType
<1> QED
  BY <1>1, <1>3, <1>4 DEF SplSum, S, w

\* A compression, and a decompression, of the mint
IsCompression(c) ==
    c.is_compress /\ c.amount \in Nat
IsDecompression(c) ==
    ~c.is_compress /\ c.amount \in Nat /\ c.account \in Holder \cup {Pool}

\* What a transfer names is one of the two, with an amount that is a number.
LEMMA CompressionKinds ==
    ASSUME NEW h \in Holder, NEW m \in Mint, NEW ins,
           NEW c \in Compressions(h, m, ins), c # None, TypeOK
    PROVE  IsCompression(c) \/ IsDecompression(c)
<1>1. CASE c \in [is_compress : {TRUE}, amount : 1 .. spl[m][h], account : {h}]
  <2>1. c.is_compress = TRUE /\ c.amount \in 1 .. spl[m][h] /\ spl[m][h] \in Nat
    BY <1>1 DEF TypeOK
  <2>2. c.amount \in Nat
    BY <2>1
  <2>3. c.is_compress
    BY <2>1, Zenon
  <2> QED
    BY <2>2, <2>3, Zenon DEF IsCompression
<1>2. CASE c \in [is_compress : {FALSE}, amount : 1 .. MaxSupply, account : Holder \cup {Pool}]
  <2>1. c.is_compress = FALSE /\ c.amount \in 1 .. MaxSupply /\ c.account \in Holder \cup {Pool} /\ MaxSupply \in Nat
    BY <1>2, CompressedTokenAssumption
  <2>2. c.amount \in Nat
    BY <2>1
  <2>3. ~c.is_compress
    BY <2>1, Zenon
  <2> QED
    BY <2>1, <2>2, <2>3, Zenon DEF IsDecompression
<1> QED
  BY <1>1, <1>2 DEF Compressions

\* process_compression_or_decompression moves what sum_check counts.
LEMMA BalancedCompression ==
    ASSUME IInv, NEW h \in Holder, NEW mint \in Mint, NEW ins, NEW c \in Compressions(h, mint, ins),
           CompressionChecks(h, mint, c), process_compression(h, mint, c), supply' = supply
    PROVE  Balanced(Into(mint, Moved(c))) /\ Moved(c) \in Int
<1>1. /\ pool \in [Mint -> Nat \cup {None}] /\ supply \in [Mint -> Nat] /\ TypeOK
      /\ spl \in [Mint -> [Holder \cup Admin -> Nat]]
  BY DEF IInv, TypeOK
<1>2. supply' = [supply EXCEPT ![mint] = supply[mint]]
  BY <1>1
<1> DEFINE t == SplSum(spl[mint])
<1>3. CASE c = None
  <2>1. UNCHANGED <<pool, spl, supply>> /\ Moved(c) = 0
    BY <1>3 DEF process_compression, Moved
  <2> DEFINE w == Into(mint, Moved(c))
  <2>2. \A m \in Mint : w[m] = 0
    BY <2>1 DEF Into
  <2> HIDE DEF w
  <2>3. Balanced(w)
    BY <1>1, <2>1, <2>2, BalancedNothing
  <2> QED
    BY <2>1, <2>3 DEF w
<1>4. CASE c # None /\ IsCompression(c)
  <2>1. c.is_compress /\ c.amount \in Nat
    BY <1>4 DEF IsCompression
  <2>2. pool[mint] # None /\ spl[mint][h] >= c.amount
    BY <1>4, <2>1 DEF CompressionChecks
  <2>3. /\ t \in Nat /\ pool[mint] \in Nat /\ supply[mint] \in Nat
        /\ spl[mint] \in [Holder \cup Admin -> Nat]
    <3> HIDE DEF t
    <3> QED
      BY <2>2, Balance DEF t
  <2> DEFINE f == Put(spl[mint], h, spl[mint][h] - c.amount)
  <2>4. compress_spl_tokens(h, mint, c.amount)
    BY <1>4, <2>1 DEF process_compression
  <2>5. spl' = [spl EXCEPT ![mint] = f] /\ pool' = [pool EXCEPT ![mint] = pool[mint] + c.amount]
    BY <1>1, <2>4 DEF compress_spl_tokens, Put
  <2>6. spl[mint][h] - c.amount \in Nat /\ spl[mint][h] \in Nat /\ h \in Holder \cup Admin
    BY <2>1, <2>2, <2>3
  <2>7. /\ f \in [Holder \cup Admin -> Nat]
        /\ SplSum(f) + spl[mint][h] = t + (spl[mint][h] - c.amount) /\ SplSum(f) \in Nat
    BY <2>3, <2>6, SplChange
  <2> HIDE DEF f, t
  <2> DEFINE n == c.amount
  <2>8. n \in Int /\ pool[mint] + n \in Nat /\ supply[mint] + t = supply[mint] + SplSum(f) + n
    BY <2>1, <2>3, <2>6, <2>7
  <2>9. SetsTo(mint, pool[mint] + n, supply[mint], f)
    BY <1>2, <2>3, <2>5, <2>7, <2>8 DEF SetsTo
  <2>10. Moved(c) = n
    BY <1>4, <2>1 DEF Moved
  <2> HIDE DEF n
  <2>11. Balanced(Into(mint, n))
    BY <1>1, <2>2, <2>8, <2>9, BalancedChange DEF t
  <2> QED
    BY <2>8, <2>10, <2>11
<1>5. CASE c # None /\ IsDecompression(c)
  <2>1. ~c.is_compress /\ c.amount \in Nat /\ c.account \in Holder \cup {Pool}
    BY <1>5 DEF IsDecompression
  <2>2. /\ pool[mint] # None /\ pool[mint] >= c.amount /\ c.account # Pool /\ c.account \in Holder
    BY <1>5, <2>1 DEF CompressionChecks, RecipientAllowed
  <2>3. /\ t \in Nat /\ pool[mint] \in Nat /\ supply[mint] \in Nat
        /\ spl[mint] \in [Holder \cup Admin -> Nat]
    <3> HIDE DEF t
    <3> QED
      BY <2>2, Balance DEF t
  <2> DEFINE f == Put(spl[mint], c.account, spl[mint][c.account] + c.amount)
  <2>4. decompress_spl_tokens(c.account, mint, c.amount)
    BY <1>5, <2>1 DEF process_compression
  <2>5. spl' = [spl EXCEPT ![mint] = f] /\ pool' = [pool EXCEPT ![mint] = pool[mint] - c.amount]
    BY <1>1, <2>2, <2>4 DEF decompress_spl_tokens, Put
  <2>6. /\ spl[mint][c.account] + c.amount \in Nat /\ spl[mint][c.account] \in Nat
        /\ c.account \in Holder \cup Admin
    BY <2>1, <2>2, <2>3
  <2>7. /\ f \in [Holder \cup Admin -> Nat]
        /\ SplSum(f) + spl[mint][c.account] = t + (spl[mint][c.account] + c.amount)
        /\ SplSum(f) \in Nat
    BY <2>3, <2>6, SplChange
  <2> HIDE DEF f, t
  <2> DEFINE n == -c.amount
             p == pool[mint] - c.amount
  <2>8. /\ n \in Int /\ p \in Nat /\ p = pool[mint] + n
        /\ supply[mint] + t = supply[mint] + SplSum(f) + n
    BY <2>1, <2>2, <2>3, <2>6, <2>7
  <2>9. SetsTo(mint, p, supply[mint], f)
    BY <1>2, <2>3, <2>5, <2>7, <2>8 DEF SetsTo
  <2>10. Moved(c) = n
    BY <1>5, <2>1 DEF Moved
  <2> HIDE DEF n, p
  <2>11. Balanced(Into(mint, n))
    BY <1>1, <2>2, <2>8, <2>9, BalancedChange DEF t
  <2> QED
    BY <2>8, <2>10, <2>11
<1> QED
  BY <1>1, <1>3, <1>4, <1>5, CompressionKinds

-----------------------------------------------------------------------------
\* The instructions.

\* Instruction data names outputs.
LEMMA InstructionOutputs ==
    ASSUME NEW room, NEW amount, NEW lamports, NEW outs \in OutputsOf(room, amount, lamports)
    PROVE  IsOutputList(outs)
<1>1. PICK q \in Priced : outs = q[3]
  BY DEF OutputsOf
<1>2. PICK n \in 0 .. MaxOutputs : \E list \in [1 .. n -> Output] :
        q = <<Amount(ToBag(list)), Lamports(ToBag(list)), list>>
  BY DEF Priced
<1>3. outs \in [1 .. n -> Output]
  BY <1>1, <1>2
<1>4. MaxOutputs \in Nat /\ MaxSupply \in Nat /\ MaxLamports \in Nat
  BY CompressedTokenAssumption
<1>5. Output \subseteq TokenOutput /\ n \in Nat
  BY <1>4 DEF Output, TokenOutput
<1>6. outs \in [1 .. n -> TokenOutput]
  BY <1>3, <1>5
<1> QED
  BY <1>5, <1>6 DEF IsOutputList

\* Inputs of an owner or a delegate are spent, now or when the part is executed.
LEMMA SpentStep ==
    ASSUME IInv, NEW cpi, NEW authority \in Holder, NEW dt, NEW mint \in Mint,
           NEW ins \in Inputs(Source(cpi), authority, dt, mint, "Initialized"),
           NEW outs, IsOutputList(outs), NEW delegate \in Holder \cup {None}, NEW is_delegate,
           NEW created, created = create_output_compressed_accounts(mint, outs, delegate, is_delegate),
           NEW moved \in Int, Total(outs) = Amount(ins) + moved, Balanced(Into(mint, moved)),
           NEW change, Execute(cpi, authority, mint, ins, created, change, moved)
    PROVE  StepOK
<1>0. /\ mint \in Mint /\ IsOutputList(outs) /\ delegate \in Holder \cup {None}
      /\ created = create_output_compressed_accounts(mint, outs, delegate, is_delegate)
  OBVIOUS
<1>1. IsTokenBag(accounts)
  BY DEF IInv, TypeOK
<1>2. /\ IsTokenBag(ins)
      /\ \A a \in DOMAIN ins : check_signer(a, authority, dt) /\ HashedAs(a, mint, "Initialized")
  BY <1>1, NamedInputs
<1>3. /\ IsTokenBag(created)
      /\ \A a \in DOMAIN created : a.mint = mint /\ a.state = "Initialized"
      /\ Amount(created) = Total(outs)
  BY ONLY <1>0, CreatedAccounts
<1>4. \A a \in DOMAIN ins : /\ a.mint = mint /\ a.state = "Initialized"
                           /\ authority \in {a.owner, a.delegate}
  BY <1>2 DEF check_signer, HashedAs
<1> DEFINE payer == FeePayer(cpi)
           p == Part({<<authority, payer>>}, ins, created, Into(mint, moved))
<1>5. process_invoke_cpi(cpi, p) /\ p = Part({<<authority, payer>>}, ins, created, Into(mint, moved))
  BY DEF Execute
<1> HIDE DEF p, payer
<1>6. Amount(created) = Amount(ins) + moved
  BY <1>3
<1>7. PartOK(p) /\ p.signed = {<<authority, payer>>} /\ p.moved = Into(mint, moved)
  <2>1. Spends(authority, mint, ins, created, moved)
    BY <1>2, <1>3, <1>4, <1>6 DEF Spends
  <2>2. IsPart(p, authority, payer, mint, moved)
    BY <1>5, <2>1, SpendPart
  <2> QED
    BY <2>2 DEF IsPart
<1>8. (\A s \in p.signed : s[2] = FeePayer(cpi)) /\ Balanced(p.moved)
  BY <1>7 DEF payer
<1> QED
  BY <1>5, <1>7, <1>8, InvokeStep

\* create_token_pool
LEMMA CreatePoolStep ==
    ASSUME IInv, NEW h \in Holder, NEW m \in Mint, create_token_pool(m, h)
    PROVE  StepOK
<1>1. /\ IsTokenBag(accounts) /\ pool \in [Mint -> Nat \cup {None}]
      /\ spl \in [Mint -> [Holder \cup Admin -> Nat]] /\ supply \in [Mint -> Nat]
      /\ unsettled \in [Mint -> Int] /\ ContextOK
  BY DEF IInv, TypeOK
<1>2. /\ pool[m] = None /\ pool' = [pool EXCEPT ![m] = 0]
      /\ accounts' = accounts /\ spl' = spl /\ supply' = supply
      /\ context' = context /\ unsettled' = unsettled
  BY DEF create_token_pool
<1>3. TypeOK'
  BY <1>1, <1>2 DEF TypeOK
<1>4. \A n \in Mint : Backs(HeldIn(accounts, Class(n)), unsettled[n], pool[n], supply[n],
                            SplSum(spl[n]))
  BY <1>1, BackedTokens DEF IInv
<1>5. ASSUME NEW n \in Mint
      PROVE  Backs(HeldIn(accounts, Class(n)), unsettled[n], pool'[n], supply[n], SplSum(spl[n]))
  <2>1. CASE n = m
    <3>1. pool'[n] = 0 /\ pool[n] = None /\ None \notin Nat
      BY <1>1, <1>2, <2>1, CompressedTokenAssumption
    <3> QED
      BY <1>4, <3>1 DEF Backs
  <2>2. CASE n # m
    <3>1. pool'[n] = pool[n]
      BY <1>1, <1>2, <2>2
    <3> QED
      BY <1>4, <3>1
  <2> QED
    BY <2>1, <2>2
<1>6. PoolBacksTokens'
  <2>1. \A n \in Mint : Held(accounts', OfMint(accounts', n)) = HeldIn(accounts, Class(n))
    BY <1>1, <1>2, MintHeld
  <2> QED
    BY <1>2, <1>5, <2>1, Zenon DEF PoolBacksTokens, Backs, SplSum
<1>7. ContextOK'
  <2>1. \A n \in Mint : pool'[n] = None => pool[n] = None
    BY <1>1, <1>2
  <2> QED
    BY <1>1, <1>2, <2>1 DEF ContextOK
<1>8. DelegateStep /\ FrozenStep
  BY <1>1, <1>2, AccountsStay
<1> QED
  BY <1>3, <1>6, <1>7, <1>8 DEF IInv, StepOK

\* process_mint_to
LEMMA MintToStep ==
    ASSUME IInv, NEW authority, NEW mint \in Mint, NEW outs, IsOutputList(outs),
           process_mint_to(authority, mint, outs)
    PROVE  StepOK
<1> DEFINE created == create_output_compressed_accounts(mint, outs, None, {})
           amount == Amount(created)
           t == SplSum(spl[mint])
<1>1. IsTokenBag(accounts) /\ TypeOK /\ spl \in [Mint -> [Holder \cup Admin -> Nat]]
  BY DEF IInv, TypeOK
<1>2. /\ pool[mint] # None
      /\ pool' = [pool EXCEPT ![mint] = pool[mint] + amount]
      /\ supply' = [supply EXCEPT ![mint] = supply[mint] + amount]
      /\ spl' = spl
      /\ accounts' = accounts (+) created /\ signers' = {authority}
      /\ context' = context /\ unsettled' = unsettled
  BY DEF process_mint_to, mint_spl_to_pool_pda
<1>3. /\ IsTokenBag(created)
      /\ \A a \in DOMAIN created : a.mint = mint /\ a.state = "Initialized"
      /\ amount \in Nat
  <2> HIDE DEF created
  <2>1. /\ IsTokenBag(created)
        /\ \A a \in DOMAIN created : a.mint = mint /\ a.state = "Initialized"
        /\ Amount(created) = Total(outs) /\ Total(outs) \in Nat
    BY CreatedAccounts DEF created
  <2> QED
    BY <2>1
<1>4. /\ t \in Nat /\ pool[mint] \in Nat /\ supply[mint] \in Nat
      /\ spl[mint] \in [Holder \cup Admin -> Nat]
  <2> HIDE DEF t
  <2> QED
    BY <1>2, Balance DEF t
<1> HIDE DEF created, amount, t
<1>5. /\ IsTokenBag(EmptyBag) /\ EmptyBag \sqsubseteq accounts
      /\ Amount(EmptyBag) = 0 /\ DOMAIN EmptyBag = {}
      /\ accounts (-) EmptyBag = accounts
  BY <1>1, EmptyInputs
<1> DEFINE none == EmptyBag
           p == Part({<<authority, None>>}, none, created, Into(mint, amount))
<1>6. /\ PartOK(p) /\ p.signed = {<<authority, None>>} /\ p.moved = Into(mint, amount)
  <2>1. /\ IsTokenBag(none) /\ DOMAIN none = {} /\ amount \in Int /\ Amount(created) = Amount(none) + amount
    BY <1>3, <1>5 DEF amount
  <2>2. p = Part({<<authority, None>>}, none, created, Into(mint, amount))
    OBVIOUS
  <2> HIDE DEF p, none
  <2>3. Spends(authority, mint, none, created, amount)
    BY <1>3, <2>1 DEF Spends
  <2>4. IsPart(p, authority, None, mint, amount)
    BY <2>2, <2>3, SpendPart
  <2> QED
    BY <2>4 DEF IsPart
<1>7. p.ins = EmptyBag /\ p.outs = created
  BY DEF Part
<1>8. Balanced(Into(mint, amount))
  <2> DEFINE q == pool[mint] + amount
             s == supply[mint] + amount
             f == spl[mint]
  <2>1. spl' = [spl EXCEPT ![mint] = f]
    BY <1>1, <1>2
  <2>2. /\ q \in Nat /\ s \in Nat /\ q = pool[mint] + amount /\ amount \in Int
        /\ s + t = supply[mint] + t + amount
    BY <1>3, <1>4
  <2>3. SetsTo(mint, q, s, f)
    BY <1>2, <1>4, <2>1, <2>2 DEF SetsTo
  <2>4. s + SplSum(spl[mint]) = supply[mint] + SplSum(f) + amount
    BY <2>2 DEF t
  <2> HIDE DEF q, s, f
  <2> QED
    BY <1>1, <1>2, <2>2, <2>3, <2>4, BalancedChange
<1> HIDE DEF p
<1>9. Authorities(p) = {authority}
  BY <1>6, OneAuthority
<1>10. /\ p.ins \sqsubseteq accounts /\ accounts' = (accounts (-) p.ins) (+) p.outs
       /\ signers' = Authorities(p) /\ Balanced(p.moved)
  BY <1>2, <1>5, <1>6, <1>7, <1>8, <1>9
<1> QED
  BY <1>2, <1>6, <1>10, DirectStep

\* process_transfer
LEMMA TransferStep ==
    ASSUME IInv, NEW cpi, NEW h \in Holder, NEW mint \in Mint, NEW dt,
           NEW ins \in Inputs(Source(cpi), h, dt, mint, "Initialized"),
           NEW c \in Compressions(h, mint, ins),
           NEW outs, IsOutputList(outs), process_transfer(cpi, h, mint, ins, outs, dt, c)
    PROVE  StepOK
<1> DEFINE created == create_output_compressed_accounts(mint, outs, h, IsDelegate(dt))
           change == Lamports(ins) - Lamports(created)
           moved == Moved(c)
<1>1. /\ TransferChecks(h, mint, ins, outs, dt, c)
      /\ process_compression(h, mint, c)
      /\ Execute(cpi, h, mint, ins, created, change, moved)
      /\ supply' = supply
  BY DEF process_transfer
<1>2. CompressionChecks(h, mint, c) /\ Amount(ToBag(outs)) = Amount(ins) + moved
  BY <1>1 DEF TransferChecks, OutputSum
<1>3. Balanced(Into(mint, moved)) /\ moved \in Int
  BY <1>1, <1>2, BalancedCompression
<1>4. created = create_output_compressed_accounts(mint, outs, h, IsDelegate(dt)) /\ h \in Holder \cup {None}
  OBVIOUS
<1> HIDE DEF created, change, moved
<1>5. Amount(ToBag(outs)) = Total(outs)
  BY <1>4, CreatedAccounts
<1>6. Total(outs) = Amount(ins) + moved
  BY <1>2, <1>5
<1> QED
  BY <1>1, <1>3, <1>4, <1>6, SpentStep

\* The lamports of a bag are a number.
LEMMA LamportsType ==
    ASSUME NEW b, IsTokenBag(b)
    PROVE  Lamports(b) \in Nat
<1> DEFINE w == [a \in DOMAIN b |-> b[a] * a.lamports]
<1>1. IsFiniteSet(DOMAIN b) /\ DOMAIN w = DOMAIN b
  BY DEF IsTokenBag
<1>2. \A a \in DOMAIN b : w[a] \in Nat
  <2> TAKE a \in DOMAIN b
  <2>1. b[a] \in Nat /\ a.lamports \in Nat
    BY DEF IsTokenBag, TokenAccount
  <2> QED
    BY <2>1
<1>3. Lamports(b) = SumFunctionOnSet(w, DOMAIN b)
  BY <1>1, Zenon DEF Lamports, SumFunction
<1> HIDE DEF w
<1> QED
  BY <1>1, <1>2, <1>3, SumType

\* What a burn leaves
LEMMA BurnLeaves ==
    ASSUME NEW owner \in Holder, NEW ins, IsTokenBag(ins), NEW n \in Nat, n <= Amount(ins)
    PROVE  /\ IsOutputList(BurnOutputs(owner, ins, n))
           /\ Total(BurnOutputs(owner, ins, n)) = Amount(ins) - n
<1> DEFINE change == Amount(ins) - n
           out == [owner |-> owner, amount |-> change, lamports |-> Lamports(ins)]
<1>1. Amount(ins) \in Nat /\ Lamports(ins) \in Nat
  BY AmountIsHeld, LamportsType
<1>2. change \in Nat
  BY <1>1
<1> HIDE DEF change
<1>3. out \in TokenOutput /\ out.amount = change
  BY <1>1, <1>2 DEF TokenOutput
<1>4. BurnOutputs(owner, ins, n) = IF change > 0 \/ Lamports(ins) > 0 THEN <<out>> ELSE <<>>
  BY DEF BurnOutputs, change
<1> HIDE DEF out
<1>5. /\ IsOutputList(<<>>) /\ Total(<<>>) = 0
      /\ IsOutputList(<<out>>) /\ Total(<<out>>) = out.amount
  BY <1>3, ShortTotals
<1>6. CASE change > 0 \/ Lamports(ins) > 0
  <2>1. BurnOutputs(owner, ins, n) = <<out>>
    BY <1>4, <1>6
  <2> QED
    BY <1>3, <1>5, <2>1 DEF change
<1>7. CASE ~(change > 0 \/ Lamports(ins) > 0)
  <2>1. BurnOutputs(owner, ins, n) = <<>> /\ change = 0
    BY <1>2, <1>4, <1>7
  <2> QED
    BY <1>5, <2>1 DEF change
<1> QED
  BY <1>6, <1>7

\* process_burn
LEMMA BurnStep ==
    ASSUME IInv, NEW cpi, NEW h \in Holder, NEW mint \in Mint, NEW n \in Nat,
           NEW dt \in DelegatedTransfers(h),
           NEW ins \in Inputs(Source(cpi), h, dt, mint, "Initialized"),
           process_burn(cpi, h, mint, ins, n, dt)
    PROVE  StepOK
<1> DEFINE owner == IF dt = None THEN h ELSE dt.owner
           outs == BurnOutputs(owner, ins, n)
           created == create_output_compressed_accounts(mint, outs, h, IsDelegate(dt))
           moved == -n
           change == 0
           t == SplSum(spl[mint])
<1>1. /\ n <= Amount(ins)
      /\ burn_spl_from_pool_pda(mint, n)
      /\ Execute(cpi, h, mint, ins, created, change, moved)
  BY DEF process_burn
<1>2. owner \in Holder
  <2>1. CASE dt = None
    BY <2>1
  <2>2. CASE dt # None
    BY <2>2 DEF DelegatedTransfers
  <2> QED
    BY <2>1, <2>2
<1>3. /\ IsTokenBag(accounts) /\ IsTokenBag(ins) /\ h \in Holder \cup {None} /\ TypeOK
      /\ spl \in [Mint -> [Holder \cup Admin -> Nat]]
  BY NamedInputs DEF IInv, TypeOK
<1> HIDE DEF owner
<1>4. IsOutputList(outs) /\ Total(outs) = Amount(ins) - n
  BY <1>1, <1>2, <1>3, BurnLeaves
<1>5. Amount(ins) \in Nat
  BY <1>3, AmountIsHeld
<1>6. moved \in Int /\ Total(outs) = Amount(ins) + moved
  BY <1>4, <1>5
<1>7. created = create_output_compressed_accounts(mint, outs, h, IsDelegate(dt))
  OBVIOUS
<1> HIDE DEF outs, created, change
<1>8. Balanced(Into(mint, moved))
  <2> DEFINE q == pool[mint] - n
             s == supply[mint] - n
             f == spl[mint]
  <2>1. /\ pool[mint] # None /\ pool[mint] >= n
        /\ pool' = [pool EXCEPT ![mint] = q] /\ supply' = [supply EXCEPT ![mint] = s]
        /\ spl' = [spl EXCEPT ![mint] = f]
    BY <1>1, <1>3 DEF burn_spl_from_pool_pda
  <2>2. /\ t \in Nat /\ pool[mint] \in Nat /\ supply[mint] \in Nat
        /\ spl[mint] \in [Holder \cup Admin -> Nat] /\ supply[mint] = pool[mint] + t
    <3> HIDE DEF t
    <3> QED
      BY <2>1, Balance DEF t
  <2>3. q \in Nat /\ s \in Nat /\ q = pool[mint] + moved /\ s + t = supply[mint] + t + moved
    BY <2>1, <2>2
  <2>4. SetsTo(mint, q, s, f)
    BY <2>1, <2>2, <2>3 DEF SetsTo
  <2>5. s + SplSum(spl[mint]) = supply[mint] + SplSum(f) + moved
    BY <2>3
  <2> HIDE DEF q, s, f, moved
  <2> QED
    BY <1>3, <1>6, <2>1, <2>3, <2>4, <2>5, BalancedChange
<1> HIDE DEF moved
<1> QED
  BY <1>1, <1>3, <1>4, <1>6, <1>7, <1>8, SpentStep

\* A list of one and a list of one make a list of two.
LEMMA ConcatPair ==
    ASSUME NEW a, NEW b
    PROVE  <<a>> \o <<b>> = <<a, b>>
<1>1. <<a>> \in Seq({a, b}) /\ <<b>> \in Seq({a, b}) /\ <<a, b>> \in Seq({a, b})
  OBVIOUS
<1>2. <<a>> \o <<b>> \in Seq({a, b}) /\ Len(<<a>> \o <<b>>) = 2
  BY <1>1
<1>3. (<<a>> \o <<b>>)[1] = a /\ (<<a>> \o <<b>>)[2] = b
  BY <1>1
<1>4. Len(<<a, b>>) = 2 /\ <<a, b>>[1] = a /\ <<a, b>>[2] = b /\ 1 .. 2 = {1, 2}
  OBVIOUS
<1> DEFINE s == <<a>> \o <<b>>
           t == <<a, b>>
<1>5. /\ s \in Seq({a, b}) /\ t \in Seq({a, b}) /\ Len(s) = Len(t)
      /\ \A i \in 1 .. Len(s) : s[i] = t[i]
  BY <1>1, <1>2, <1>3, <1>4
<1> HIDE DEF s, t
<1>6. s = t
  BY <1>5, SeqEqual
<1> QED
  BY <1>6 DEF s, t

\* An instruction that moves no SPL tokens
LEMMA NothingInto ==
    ASSUME IInv, UNCHANGED <<pool, spl, supply>>, NEW mint
    PROVE  Balanced(Into(mint, 0))
<1> DEFINE w == Into(mint, 0)
<1>1. (\A m \in Mint : w[m] = 0) /\ TypeOK
  BY DEF Into, IInv
<1> HIDE DEF w
<1>2. Balanced(w)
  BY <1>1, BalancedNothing
<1> QED
  BY <1>2 DEF w

\* process_approve: the outputs are worth the inputs.
LEMMA ApproveStep ==
    ASSUME IInv, NEW cpi, NEW h \in Holder, NEW mint \in Mint,
           NEW ins \in Inputs(Source(cpi), h, None, mint, "Initialized"),
           NEW d \in Holder, NEW n \in Nat, NEW l \in Nat, process_approve(cpi, h, mint, ins, d, n, l)
    PROVE  StepOK
<1> DEFINE outs == ApproveOutputs(h, ins, n, l)
           created == create_output_compressed_accounts(mint, outs, d, {1})
           change == Amount(ins) - n
           rest == Lamports(ins) - l
           first == [owner |-> h, amount |-> n, lamports |-> l]
           second == [owner |-> h, amount |-> change, lamports |-> rest]
           zero == 0
           only == {1}
<1>1. /\ n <= Amount(ins) /\ l <= Lamports(ins)
      /\ Execute(cpi, h, mint, ins, created, zero, zero)
      /\ UNCHANGED <<pool, spl, supply>>
  BY DEF process_approve
<1>2. IsTokenBag(accounts) /\ IsTokenBag(ins) /\ d \in Holder \cup {None}
  BY NamedInputs DEF IInv, TypeOK
<1>3. Amount(ins) \in Nat /\ Lamports(ins) \in Nat
  BY <1>2, AmountIsHeld, LamportsType
<1>4. change \in Nat /\ rest \in Nat /\ n + change = Amount(ins)
  BY <1>1, <1>3
<1>5. outs = <<first>> \o (IF change > 0 \/ rest > 0 THEN <<second>> ELSE <<>>)
  BY DEF ApproveOutputs
<1> HIDE DEF outs, change, rest
<1>6. first \in TokenOutput /\ second \in TokenOutput /\ first.amount = n /\ second.amount = change
  BY <1>4 DEF TokenOutput
<1> HIDE DEF first, second
<1>7. /\ IsOutputList(<<first>>) /\ Total(<<first>>) = first.amount
      /\ IsOutputList(<<first, second>>) /\ Total(<<first, second>>) = first.amount + second.amount
  BY <1>6, ShortTotals
<1>8. IsOutputList(outs) /\ Total(outs) = Amount(ins)
  <2>1. CASE change > 0 \/ rest > 0
    <3>1. outs = <<first, second>>
      <4>1. outs = <<first>> \o <<second>>
        BY <1>5, <2>1
      <4>2. <<first>> \o <<second>> = <<first, second>>
        BY ConcatPair
      <4> QED
        BY <4>1, <4>2
    <3> QED
      BY <1>4, <1>6, <1>7, <3>1
  <2>2. CASE ~(change > 0 \/ rest > 0)
    <3>1. outs = <<first>> /\ change = 0
      BY <1>4, <1>5, <2>2
    <3> QED
      BY <1>4, <1>6, <1>7, <3>1
  <2> QED
    BY <2>1, <2>2
<1>9. created = create_output_compressed_accounts(mint, outs, d, only)
  OBVIOUS
<1>10. Balanced(Into(mint, zero)) /\ zero \in Int /\ Total(outs) = Amount(ins) + zero
  BY <1>1, <1>3, <1>8, NothingInto
<1> HIDE DEF created, zero, only
<1> QED
  BY <1>1, <1>2, <1>8, <1>9, <1>10, SpentStep

\* process_revoke
LEMMA RevokeStep ==
    ASSUME IInv, NEW cpi, NEW h \in Holder, NEW mint \in Mint,
           NEW ins \in Inputs(Source(cpi), h, None, mint, "Initialized"),
           process_revoke(cpi, h, mint, ins)
    PROVE  StepOK
<1> DEFINE out == [owner |-> h, amount |-> Amount(ins), lamports |-> Lamports(ins)]
           outs == RevokeOutputs(h, ins)
           created == create_output_compressed_accounts(mint, outs, None, {})
           zero == 0
           nobody == {}
<1>1. Execute(cpi, h, mint, ins, created, zero, zero) /\ UNCHANGED <<pool, spl, supply>>
  BY DEF process_revoke
<1>2. IsTokenBag(accounts) /\ IsTokenBag(ins) /\ None \in Holder \cup {None}
  BY NamedInputs DEF IInv, TypeOK
<1>3. Amount(ins) \in Nat /\ Lamports(ins) \in Nat
  BY <1>2, AmountIsHeld, LamportsType
<1>4. out \in TokenOutput /\ out.amount = Amount(ins) /\ outs = <<out>>
  BY <1>3 DEF TokenOutput, RevokeOutputs
<1> HIDE DEF out, outs
<1>5. IsOutputList(<<out>>) /\ Total(<<out>>) = out.amount
  BY <1>4, ShortTotals
<1>6. IsOutputList(outs) /\ Total(outs) = Amount(ins)
  BY <1>4, <1>5
<1>7. created = create_output_compressed_accounts(mint, outs, None, nobody)
  OBVIOUS
<1>8. Balanced(Into(mint, zero)) /\ zero \in Int /\ Total(outs) = Amount(ins) + zero
  BY <1>1, <1>3, <1>6, NothingInto
<1> HIDE DEF created, zero, nobody
<1> QED
  BY <1>1, <1>2, <1>6, <1>7, <1>8, SpentStep

\* process_freeze_or_thaw
LEMMA FreezeStep ==
    ASSUME IInv, NEW cpi, NEW authority, NEW owner \in Holder, NEW mint \in Mint, NEW state,
           NEW ins \in Inputs(Source(cpi), owner, None, mint, state), NEW new \in State,
           process_freeze_or_thaw(cpi, authority, mint, ins, new)
    PROVE  StepOK
<1> DEFINE outs == create_token_output_accounts(ins, new)
           payer == FeePayer(cpi)
           p == Part({<<FreezeAuthority[mint], payer>>}, ins, outs, Into(mint, 0))
<1>1. process_invoke_cpi(cpi, p) /\ UNCHANGED <<pool, spl, supply>>
  BY DEF process_freeze_or_thaw, Execute
<1>2. /\ IsTokenBag(accounts) /\ IsTokenBag(ins)
      /\ \A a \in DOMAIN ins : a.mint = mint
  BY NamedInputs DEF IInv, TypeOK, HashedAs
<1>3. /\ outs = create_token_output_accounts(ins, new)
      /\ p = Part({<<FreezeAuthority[mint], payer>>}, ins, outs, Into(mint, 0))
  OBVIOUS
<1> HIDE DEF outs, p, payer
<1>4. /\ IsTokenBag(outs)
      /\ \A b \in DOMAIN outs : \E a \in DOMAIN ins : b.mint = a.mint
      /\ \A S : Blind(S) => HeldIn(outs, S) = HeldIn(ins, S)
  BY <1>2, <1>3, RestatedAccounts
<1>5. \A a \in DOMAIN ins \cup DOMAIN outs : a.mint = mint
  BY <1>2, <1>4
<1>6. PartOK(p) /\ p.signed = {<<FreezeAuthority[mint], payer>>} /\ p.moved = Into(mint, 0)
  <2>1. Restates(mint, ins, outs)
    BY <1>2, <1>4, <1>5 DEF Restates
  <2>2. IsPart(p, FreezeAuthority[mint], payer, mint, 0)
    BY <1>3, <2>1, RestatePart
  <2> QED
    BY <2>2 DEF IsPart
<1>7. (\A s \in p.signed : s[2] = FeePayer(cpi)) /\ Balanced(p.moved)
  BY <1>1, <1>6, NothingInto DEF payer
<1> QED
  BY <1>1, <1>6, <1>7, InvokeStep

\* A part of another program
LEMMA OtherProgramStep ==
    ASSUME IInv, NEW cpi, process_invoke_cpi(cpi, NoPart), UNCHANGED <<pool, spl, supply>>
    PROVE  StepOK
<1> DEFINE p == NoPart
<1>1. /\ PartOK(p) /\ p.signed = {} /\ (\A m \in Mint : p.moved[m] = 0)
      /\ process_invoke_cpi(cpi, p) /\ TypeOK
  BY NoPartOK DEF IInv
<1> HIDE DEF p
<1>2. Balanced(p.moved)
  BY <1>1, BalancedNothing
<1>3. \A s \in p.signed : s[2] = FeePayer(cpi)
  BY <1>1
<1> QED
  BY <1>1, <1>2, <1>3, InvokeStep

-----------------------------------------------------------------------------
\* The theorems.

\* What the holders have in SPL accounts at first
LEMMA InitialSplSum ==
    ASSUME NEW s, s = [h \in Holder \cup Admin |-> IF h \in Holder THEN InitialSpl ELSE 0]
    PROVE  SplSum(s) = InitialSpl * Cardinality(Holder) /\ SplSum(s) \in Nat
<1> DEFINE R == Admin \ Holder
           o == [h \in Holder |-> 1]
<1>1. /\ InitialSpl \in Nat /\ IsFiniteSet(Holder \cup Admin)
      /\ Holder \cup R = Holder \cup Admin /\ Holder \cap R = {}
  BY CompressedTokenAssumption
<1>2. IsFiniteSet(Holder) /\ IsFiniteSet(R)
  BY <1>1, FS_Subset
<1>3. /\ \A h \in Holder \cup R : s[h] \in Nat
      /\ \A h \in R : s[h] = 0
      /\ \A h \in Holder : o[h] \in Nat /\ s[h] = o[h] * InitialSpl
      /\ \A h \in Holder : o[h] = 1
  BY <1>1
<1> HIDE DEF R, o
<1>4. SumFunctionOnSet(s, Holder \cup R) = SumFunctionOnSet(s, Holder) + SumFunctionOnSet(s, R)
  BY ONLY <1>1, <1>2, <1>3, SumUnion
<1>5. SumFunctionOnSet(s, R) = 0
  BY ONLY <1>2, <1>3, SumZero
<1>6. SumFunctionOnSet(s, Holder) = SumFunctionOnSet(o, Holder) * InitialSpl
  BY ONLY <1>1, <1>2, <1>3, SumTimes
<1>7. SumFunctionOnSet(o, Holder) = Cardinality(Holder)
  BY ONLY <1>2, <1>3, SumOnes
<1>8. Cardinality(Holder) \in Nat
  BY <1>2, FS_CardinalityType
<1>9. SplSum(s) = SumFunctionOnSet(s, Holder \cup R)
  BY <1>1 DEF SplSum
<1>10. SplSum(s) = Cardinality(Holder) * InitialSpl + 0
  BY <1>4, <1>5, <1>6, <1>7, <1>9
<1>11. Cardinality(Holder) * InitialSpl = InitialSpl * Cardinality(Holder) /\ InitialSpl * Cardinality(Holder) \in Nat
  BY <1>1, <1>8
<1> QED
  BY <1>10, <1>11

\* The initial state satisfies the invariant.
LEMMA InitIInv == Init => IInv
<1> SUFFICES ASSUME Init PROVE IInv
  OBVIOUS
<1> DEFINE s == [h \in Holder \cup Admin |-> IF h \in Holder THEN InitialSpl ELSE 0]
<1>1. /\ accounts = EmptyBag /\ pool = [m \in Mint |-> None] /\ spl = [m \in Mint |-> s]
      /\ supply = [m \in Mint |-> InitialSpl * Cardinality(Holder)]
      /\ context.fee_payer = None /\ context.parts = NoPart /\ unsettled = [m \in Mint |-> 0]
  BY DEF Init
<1>2. DOMAIN accounts = {} /\ IsTokenBag(accounts)
  <2>1. DOMAIN EmptyBag = {} /\ EmptyBag = [a \in {} |-> 1]
    BY DEF EmptyBag, SetToBag
  <2> QED
    BY <1>1, <2>1, FS_EmptySet DEF IsTokenBag
<1>3. InitialSpl \in Nat
  BY CompressedTokenAssumption
<1>4. s \in [Holder \cup Admin -> Nat]
  BY <1>3
<1>5. s = [h \in Holder \cup Admin |-> IF h \in Holder THEN InitialSpl ELSE 0]
  OBVIOUS
<1> HIDE DEF s
<1>6. SplSum(s) = InitialSpl * Cardinality(Holder) /\ SplSum(s) \in Nat
  BY <1>5, InitialSplSum
<1>7. TypeOK
  BY <1>1, <1>2, <1>4, <1>6 DEF TypeOK
<1>8. ASSUME NEW m \in Mint
      PROVE  Backs(HeldIn(accounts, Class(m)), unsettled[m], pool[m], supply[m], SplSum(spl[m]))
  <2>1. HeldIn(accounts, Class(m)) = 0
    BY <1>2, NothingHeld
  <2>2. pool[m] = None /\ supply[m] = SplSum(s) /\ spl[m] = s /\ unsettled[m] = 0
    BY <1>1, <1>6
  <2>3. SplSum(s) = 0 + 0 + SplSum(s)
    BY <1>6
  <2> QED
    BY <2>1, <2>2, <2>3 DEF Backs
<1>9. ContextOK
  BY <1>1, NoPartOK DEF ContextOK
<1> QED
  BY <1>2, <1>7, <1>8, <1>9, BackedTokens DEF IInv

\* Every step keeps the invariant and does what the action properties say.
LEMMA NextIInv == IInv /\ [Next]_vars => StepOK
<1> SUFFICES ASSUME IInv, [Next]_vars PROVE StepOK
  OBVIOUS
<1>1. CASE \E h \in Holder, m \in Mint : create_token_pool(m, h)
  BY <1>1, CreatePoolStep
<1>2. CASE MintTo
  <2>1. PICK authority \in Holder \cup Admin, m \in Mint :
            \E amount, lamports : \E outs \in OutputsOf(Room(None), amount, lamports) :
                process_mint_to(authority, m, outs)
    BY <1>2 DEF MintTo
  <2>2. PICK amount, lamports : \E outs \in OutputsOf(Room(None), amount, lamports) :
                process_mint_to(authority, m, outs)
    BY <2>1
  <2>3. PICK outs \in OutputsOf(Room(None), amount, lamports) : process_mint_to(authority, m, outs)
    BY <2>2
  <2> QED
    BY <2>3, InstructionOutputs, MintToStep
<1>3. CASE Transfer
  <2>1. PICK cpi \in Contexts, h \in Holder, m \in Mint : \E dt \in DelegatedTransfers(h) :
            \E ins \in Inputs(Source(cpi), h, dt, m, "Initialized") : \E c \in Compressions(h, m, ins) :
            \E amount, lamports : \E outs \in OutputsOf(Room(cpi), amount, lamports) :
                process_transfer(cpi, h, m, ins, outs, dt, c)
    BY <1>3 DEF Transfer
  <2>2. PICK dt \in DelegatedTransfers(h) :
            \E ins \in Inputs(Source(cpi), h, dt, m, "Initialized") : \E c \in Compressions(h, m, ins) :
            \E amount, lamports : \E outs \in OutputsOf(Room(cpi), amount, lamports) :
                process_transfer(cpi, h, m, ins, outs, dt, c)
    BY <2>1
  <2>3. PICK ins \in Inputs(Source(cpi), h, dt, m, "Initialized") :
            \E c \in Compressions(h, m, ins) :
            \E amount, lamports : \E outs \in OutputsOf(Room(cpi), amount, lamports) :
                process_transfer(cpi, h, m, ins, outs, dt, c)
    BY <2>2
  <2>4. PICK c \in Compressions(h, m, ins) :
            \E amount, lamports : \E outs \in OutputsOf(Room(cpi), amount, lamports) :
                process_transfer(cpi, h, m, ins, outs, dt, c)
    BY <2>3
  <2>5. PICK amount, lamports : \E outs \in OutputsOf(Room(cpi), amount, lamports) :
                process_transfer(cpi, h, m, ins, outs, dt, c)
    BY <2>4
  <2>6. PICK outs \in OutputsOf(Room(cpi), amount, lamports) : process_transfer(cpi, h, m, ins, outs, dt, c)
    BY <2>5
  <2> QED
    BY <2>6, InstructionOutputs, TransferStep
<1>4. CASE Burn
  <2>1. PICK cpi \in Contexts, h \in Holder, m \in Mint, n \in 0 .. MaxSupply : \E dt \in DelegatedTransfers(h) :
            \E ins \in Inputs(Source(cpi), h, dt, m, "Initialized") : process_burn(cpi, h, m, ins, n, dt)
    BY <1>4 DEF Burn
  <2>2. n \in Nat
    BY <2>1, CompressedTokenAssumption
  <2> QED
    BY <2>1, <2>2, BurnStep
<1>5. CASE Delegation
  <2>1. PICK cpi \in Contexts, h \in Holder, m \in Mint : \E ins \in Inputs(Source(cpi), h, None, m, "Initialized") :
            \/ \E d \in Holder, n \in 0 .. MaxSupply, l \in 0 .. MaxLamports :
                process_approve(cpi, h, m, ins, d, n, l)
            \/ process_revoke(cpi, h, m, ins)
    BY <1>5 DEF Delegation
  <2>2. PICK ins \in Inputs(Source(cpi), h, None, m, "Initialized") :
            \/ \E d \in Holder, n \in 0 .. MaxSupply, l \in 0 .. MaxLamports :
                process_approve(cpi, h, m, ins, d, n, l)
            \/ process_revoke(cpi, h, m, ins)
    BY <2>1
  <2>3. CASE process_revoke(cpi, h, m, ins)
    BY <2>3, RevokeStep
  <2>4. CASE \E d \in Holder, n \in 0 .. MaxSupply, l \in 0 .. MaxLamports :
                process_approve(cpi, h, m, ins, d, n, l)
    <3>1. PICK d \in Holder, n \in 0 .. MaxSupply, l \in 0 .. MaxLamports :
                process_approve(cpi, h, m, ins, d, n, l)
      BY <2>4
    <3>2. n \in Nat /\ l \in Nat
      BY <3>1, CompressedTokenAssumption
    <3> QED
      BY <3>1, <3>2, ApproveStep
  <2> QED
    BY <2>2, <2>3, <2>4
<1>6. CASE Freeze
  <2>1. PICK cpi \in Contexts, authority \in Holder \cup Admin, owner \in Holder, m \in Mint :
            \/ \E ins \in Inputs(Source(cpi), owner, None, m, "Initialized") :
                process_freeze_or_thaw(cpi, authority, m, ins, "Frozen")
            \/ \E ins \in Inputs(Source(cpi), owner, None, m, "Frozen") :
                process_freeze_or_thaw(cpi, authority, m, ins, "Initialized")
    BY <1>6 DEF Freeze
  <2>2. "Frozen" \in State /\ "Initialized" \in State
    BY DEF State
  <2> QED
    BY <2>1, <2>2, FreezeStep
<1>7. CASE OtherProgram
  <2>1. PICK cpi \in Contexts : process_invoke_cpi(cpi, NoPart) /\ UNCHANGED <<pool, spl, supply>>
    BY <1>7 DEF OtherProgram
  <2> QED
    BY <2>1, OtherProgramStep
<1>8. CASE UNCHANGED vars
  <2>1. /\ accounts' = accounts /\ pool' = pool /\ spl' = spl /\ supply' = supply
        /\ context' = context /\ unsettled' = unsettled
    BY <1>8 DEF vars
  <2>2. IInv'
    BY <2>1 DEF IInv, TypeOK, PoolBacksTokens, ContextOK
  <2>3. DelegateStep /\ FrozenStep
    BY <2>1, AccountsStay DEF IInv, TypeOK
  <2> QED
    BY <2>2, <2>3 DEF StepOK
<1> QED
  BY <1>1, <1>2, <1>3, <1>4, <1>5, <1>6, <1>7, <1>8 DEF Next

\* The invariant holds in every state.
LEMMA Invariance == Spec => []IInv
<1>1. IInv /\ [Next]_vars => IInv'
  BY NextIInv DEF StepOK
<1> QED
  BY <1>1, InitIInv, PTL DEF Spec

\* The pool of every mint holds exactly the tokens of its compressed accounts
\* and what cached instructions moved that were not executed, and the supply
\* is these and the SPL tokens, for any holders, fee payers, mints and amounts:
\* no mix of mint, transfer, compression, decompression, burn, delegation and
\* freeze, executed at once or cached in the CPI context, replaced, abandoned
\* or executed with other parts, creates or loses a token.
THEOREM PoolBacks == Spec => []PoolBacksTokens
<1>1. IInv => PoolBacksTokens
  BY DEF IInv
<1> QED
  BY <1>1, Invariance, PTL

\* Frozen accounts stay as they are until the freeze authority thaws them,
\* itself or by a part that it signed for the fee payer who executes it: inputs
\* are hashed as initialized, so neither their owner nor their delegate can
\* move, burn, delegate or revoke them, and no part of another fee payer is
\* ever executed.
THEOREM FrozenAccountsStay == Spec => FrozenStays
<1> DEFINE A == \A m \in Mint :
                FreezeAuthority[m] \notin signers' => Frozen(accounts', m) = Frozen(accounts, m)
<1>1. IInv /\ [Next]_vars => [A]_vars
  BY NextIInv DEF StepOK, FrozenStep
<1> QED
  BY <1>1, Invariance, PTL DEF Spec, FrozenStays

\* What a holder has not delegated to the signers of what an instruction
\* executes does not get less unless the holder is one of them: a delegate's
\* part consumes accounts delegated to it only, freezing changes no amount,
\* owner or delegate, and all parts that are executed together were signed for
\* the fee payer who executes them.
THEOREM DelegatesAreBounded == Spec => DelegateBound
<1> DEFINE A == \A m \in Mint, h \in Holder :
                h \notin signers' => Held(accounts', NotDelegated(accounts', m, h, signers'))
                                >= Held(accounts, NotDelegated(accounts, m, h, signers'))
<1>1. IInv /\ [Next]_vars => [A]_vars
  BY NextIInv DEF StepOK, DelegateStep
<1> QED
  BY <1>1, Invariance, PTL DEF Spec, DelegateBound
=============================================================================
