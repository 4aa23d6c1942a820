-------------------------- MODULE StateTreeProofs --------------------------
(***************************************************************************)
(* Every compressed account is consumed at most once, for every tree size, *)
(* root history, queue and batch size, provided that sequence_threshold is *)
(* at least the size of the root history.                                  *)
(*                                                                         *)
(* StaleRootsCovered alone is not inductive: it does not say how long the  *)
(* covering cell will stay valid.  Covered does: a root n pushes away from *)
(* being overwritten is covered by a cell that outlives these n pushes.    *)
(*                                                                         *)
(* The table behind the queue implements the expiring set, for every       *)
(* capacity, number of probes and threshold.  Its inductive invariant is   *)
(* HashSetIInv: a duplicate can be excluded only because every occupied    *)
(* bucket is reachable on its value's probe path (OnProbePath), which in   *)
(* turn holds because no bucket ever becomes empty again.                  *)
(***************************************************************************)
EXTENDS StateTree, HashSet, TLAPS

\* The cell p covers account i until slot r of the history is overwritten.
Covers(p, i, r) ==
    /\ queue[p] # None
    /\ queue[p].value = i
    /\ queue[p].sequence_number \in Nat
    /\ queue[p].sequence_number >= sequence_number + StepsTo(r) - RootsCapacity + 1 + Threshold

Covered == \A r \in RootSlot : \A i \in roots[r] \ live : \E p \in QueueSlot : Covers(p, i, r)

\* A leaf that has not been appended has not been consumed.
FreshUnconsumed == \A i \in Account : i >= next_index => consumed[i] = 0

IInv == TypeOK /\ PendingProcessable /\ Covered /\ FreshUnconsumed

-----------------------------------------------------------------------------
\* Arithmetic of the cyclic history: n pushes move the current slot forward by
\* n, and bring every slot they do not overwrite n steps closer.
LEMMA SlotAfterIsSlot ==
    ASSUME NEW n \in Nat, root_index \in RootSlot
    PROVE  SlotAfter(n) \in RootSlot
<1>1. root_index + n \in Nat /\ RootsCapacity \in Nat /\ RootsCapacity > 0
  BY StateTreeAssumption DEF RootSlot
<1>2. (root_index + n) % RootsCapacity \in 0 .. RootsCapacity - 1
  BY <1>1
<1> QED
  BY <1>2 DEF SlotAfter, RootSlot

\* Before a full turn of the history the modulus is a single subtraction.
LEMMA SlotAfterBeforeWrap ==
    ASSUME NEW n \in Nat, root_index \in RootSlot, n < RootsCapacity
    PROVE  SlotAfter(n) = IF root_index + n < RootsCapacity
                          THEN root_index + n
                          ELSE root_index + n - RootsCapacity
<1> DEFINE a == root_index + n
<1>1. /\ a \in Nat /\ RootsCapacity \in Nat /\ RootsCapacity > 0
      /\ a < 2 * RootsCapacity
  BY StateTreeAssumption DEF RootSlot
<1> HIDE DEF a
<1>2. CASE a < RootsCapacity
  BY <1>1, <1>2 DEF SlotAfter, a
<1>3. CASE a >= RootsCapacity
  <2> DEFINE q == a \div RootsCapacity
             m == a % RootsCapacity
  <2>1. q \in Int /\ m \in 0 .. RootsCapacity - 1 /\ a = RootsCapacity * q + m
    BY <1>1
  <2> HIDE DEF q, m
  <2>2. q = 1
    <3>1. ~(q <= 0)
      BY <1>1, <1>3, <2>1
    <3>2. ~(q >= 2)
      BY <1>1, <1>3, <2>1
    <3> QED
      BY <2>1, <3>1, <3>2
  <2>3. m = a - RootsCapacity
    BY <1>1, <2>1, <2>2
  <2>4. SlotAfter(n) = m
    BY DEF SlotAfter, a, m
  <2>5. ~(root_index + n < RootsCapacity)
    BY <1>1, <1>3 DEF a
  <2> QED
    BY <2>3, <2>4, <2>5, StateTreeAssumption DEF a, RootSlot
<1> QED
  BY <1>1, <1>2, <1>3 DEF a

\* A slot's distance is between 1 and the size of the history.
LEMMA StepsToRange ==
    ASSUME NEW r \in RootSlot, root_index \in RootSlot
    PROVE  StepsTo(r) \in 1 .. RootsCapacity
  BY StateTreeAssumption DEF StepsTo, RootSlot

\* A slot that n pushes leave alone comes n steps closer.
LEMMA SurvivingSlot ==
    ASSUME NEW n \in Nat, root_index \in RootSlot, root_index' = SlotAfter(n),
           NEW r \in RootSlot, r # SlotAfter(n), StepsTo(r) > n
    PROVE  StepsTo(r)' = StepsTo(r) - n
<1>1. n < RootsCapacity
  BY StepsToRange, StateTreeAssumption
<1>2. root_index' = IF root_index + n < RootsCapacity
                    THEN root_index + n
                    ELSE root_index + n - RootsCapacity
  BY <1>1, SlotAfterBeforeWrap
<1> QED
  BY <1>1, <1>2, StateTreeAssumption DEF StepsTo, RootSlot

\* An unmarked cell, and a cell that covers a stale root, are not free.
LEMMA UnmarkedNotFree ==
    ASSUME NEW p \in QueueSlot, Queue!Unmarked(p)
    PROVE  ~Queue!Free(p) /\ Queue!Present(queue[p].value)
  BY DEF Queue!Unmarked, Queue!Free, Queue!Present, Queue!IsValid

\* The threshold is larger than the history, so a covering cell is valid.
LEMMA CoverNotFree ==
    ASSUME TypeOK, NEW p \in QueueSlot, NEW i, NEW r \in RootSlot, Covers(p, i, r)
    PROVE  ~Queue!Free(p) /\ Queue!Present(i)
<1>1. StepsTo(r) \in 1 .. RootsCapacity
  BY StepsToRange DEF TypeOK
<1>2. queue[p].sequence_number > sequence_number
  BY <1>1, StateTreeAssumption DEF Covers, TypeOK
<1> QED
  BY <1>2 DEF Covers, Queue!Free, Queue!Present, Queue!IsValid

\* Covered implies the property the runs check.
LEMMA CoveredIsEnough == IInv => StaleRootsCovered
  BY CoverNotFree DEF IInv, Covered, StaleRootsCovered

-----------------------------------------------------------------------------
\* An input that is proved and not in the queue is a live account that no
\* transaction has consumed before.
LEMMA AcceptedIsUnspent ==
    ASSUME IInv, NEW inputs \in SUBSET Nat, ProofsVerify(inputs),
           \A i \in inputs : ~Queue!Present(i)
    PROVE  inputs \subseteq Unspent
<1> SUFFICES ASSUME NEW i \in inputs PROVE i \in live /\ i \notin Pending
  BY DEF Unspent
<1>1. i \in live
  BY CoveredIsEnough DEF ProofsVerify, StaleRootsCovered
<1>2. i \notin Pending
  BY UnmarkedNotFree DEF Pending
<1> QED
  BY <1>1, <1>2

\* What insert_nullifiers does to the cells.
LEMMA InsertedCells ==
    ASSUME TypeOK, NEW inputs \in SUBSET Nat, InsertNullifiers(inputs)
    PROVE  /\ queue' \in [QueueSlot -> Queue!Cell \cup {None}]
           /\ \A p \in QueueSlot : ~Queue!Free(p) => queue'[p] = queue[p]
           /\ \A p \in QueueSlot : queue'[p] = queue[p] \/
                \E i \in inputs : queue'[p] = Queue!NewCell(i)
           /\ \A i \in inputs : \E p \in QueueSlot : queue'[p] = Queue!NewCell(i)
           /\ \A p, q \in QueueSlot : \A i \in inputs :
                queue'[p] = Queue!NewCell(i) /\ queue'[q] = Queue!NewCell(i)
                  => p = q \/ queue[p] = Queue!NewCell(i) \/ queue[q] = Queue!NewCell(i)
<1>1. PICK slot \in [inputs -> QueueSlot] :
        /\ Injective(slot)
        /\ \A i \in inputs : Queue!Free(slot[i])
        /\ queue' = [p \in QueueSlot |->
                        IF \E i \in inputs : slot[i] = p
                        THEN Queue!NewCell(CHOOSE i \in inputs : slot[i] = p)
                        ELSE queue[p]]
  BY DEF InsertNullifiers, NotQueued
<1>2. \A i \in inputs : Queue!NewCell(i) \in Queue!Cell
  BY DEF Queue!NewCell, Queue!Cell
<1>3. \A p \in QueueSlot : \A i \in inputs :
        slot[i] = p => (CHOOSE j \in inputs : slot[j] = p) = i
  BY <1>1 DEF Injective
<1>4. \A i \in inputs : queue'[slot[i]] = Queue!NewCell(i)
  BY <1>1, <1>3
<1>5. \A p \in QueueSlot : (\A i \in inputs : slot[i] # p) => queue'[p] = queue[p]
  BY <1>1
<1>6. queue' \in [QueueSlot -> Queue!Cell \cup {None}]
  <2>1. \A p \in QueueSlot : queue'[p] \in Queue!Cell \cup {None}
    BY <1>2, <1>4, <1>5 DEF TypeOK
  <2> QED
    BY <1>1, <2>1
<1>7. \A p \in QueueSlot : ~Queue!Free(p) => queue'[p] = queue[p]
  BY <1>1, <1>5
<1>8. \A p, q \in QueueSlot : \A i \in inputs :
        queue'[p] = Queue!NewCell(i) /\ queue'[q] = Queue!NewCell(i)
          => p = q \/ queue[p] = Queue!NewCell(i) \/ queue[q] = Queue!NewCell(i)
  <2> SUFFICES ASSUME NEW p \in QueueSlot, NEW q \in QueueSlot, NEW i \in inputs,
                      queue'[p] = Queue!NewCell(i), queue'[q] = Queue!NewCell(i),
                      queue[p] # Queue!NewCell(i), queue[q] # Queue!NewCell(i)
               PROVE  p = q
    OBVIOUS
  <2>1. \A j \in inputs : Queue!NewCell(j) = Queue!NewCell(i) => j = i
    BY DEF Queue!NewCell
  <2>2. slot[i] = p
    BY <1>4, <1>5, <2>1
  <2>3. slot[i] = q
    BY <1>4, <1>5, <2>1
  <2> QED
    BY <2>2, <2>3
<1> QED
  BY <1>4, <1>5, <1>6, <1>7, <1>8

-----------------------------------------------------------------------------
\* Pushing n roots of a tree with leaves l keeps every stale root covered, if
\* each account the history still proves and l does not was covered before,
\* or its cell was marked by this very change.
LEMMA PushKeepsCovered ==
    ASSUME TypeOK, NEW n \in Nat \ {0}, PushRoots(n, live'),
           sequence_number' = sequence_number + n,
           NEW r \in RootSlot, NEW i, i \in roots'[r], i \notin live'
    PROVE  /\ i \in roots[r]
           /\ StepsTo(r)' = StepsTo(r) - n
           /\ StepsTo(r)' \in 1 .. RootsCapacity - 1
<1>1. SlotAfter(n) \in RootSlot
  BY SlotAfterIsSlot DEF TypeOK
<1>2. r # SlotAfter(n) /\ ~(StepsTo(r) <= n) /\ i \in roots[r]
  BY DEF PushRoots
<1>3. StepsTo(r) \in 1 .. RootsCapacity
  BY StepsToRange DEF TypeOK
<1>4. StepsTo(r)' = StepsTo(r) - n
  BY <1>1, <1>2, <1>3, SurvivingSlot DEF TypeOK, PushRoots
<1> QED
  BY <1>2, <1>3, <1>4, StateTreeAssumption

\* PushRoots keeps the types.
LEMMA PushTypes ==
    ASSUME TypeOK, NEW n \in Nat, NEW m \in Nat, m >= next_index,
           NEW l \in SUBSET (0 .. m - 1), PushRoots(n, l)
    PROVE  /\ roots' \in [RootSlot -> SUBSET (0 .. m - 1)]
           /\ root_index' \in RootSlot
<1>1. root_index' \in RootSlot
  BY SlotAfterIsSlot DEF TypeOK, PushRoots
<1>2. 0 .. next_index - 1 \subseteq 0 .. m - 1
  BY DEF TypeOK
<1>3. \A r \in RootSlot : roots[r] \subseteq 0 .. m - 1
  BY <1>2 DEF TypeOK
<1>4. \A r \in RootSlot : roots'[r] \in SUBSET (0 .. m - 1)
  BY <1>3 DEF PushRoots
<1> QED
  BY <1>1, <1>4 DEF PushRoots

\* The initial state.
LEMMA InitIInv == Init => IInv
<1> SUFFICES ASSUME Init PROVE IInv
  OBVIOUS
<1>1. TypeOK
  BY StateTreeAssumption DEF Init, TypeOK, RootSlot, Account
<1>2. PendingProcessable
  BY DEF Init, PendingProcessable, Pending, Queue!Unmarked
<1>3. Covered
  BY DEF Init, Covered
<1>4. FreshUnconsumed
  BY DEF Init, FreshUnconsumed
<1> QED
  BY <1>1, <1>2, <1>3, <1>4 DEF IInv

\* A transaction keeps the invariant.
LEMMA TransactIInv ==
    ASSUME IInv, NEW inputs \in SUBSET (0 .. next_index - 1),
           NEW n \in 0 .. ChangelogCapacity, Transact(inputs, n)
    PROVE  IInv'
<1>1. inputs \in SUBSET Nat /\ n \in Nat
  BY StateTreeAssumption
<1>2. TypeOK
  BY DEF IInv
<1>3. /\ InsertNullifiers(inputs) /\ ProofsVerify(inputs) /\ AppendLeaves(n)
      /\ \A i \in inputs : ~Queue!Present(i)
  BY DEF Transact, InsertNullifiers, NotQueued
<1>4. inputs \subseteq Unspent
  BY <1>1, <1>3, AcceptedIsUnspent
<1>5. live \subseteq live' /\ next_index' = next_index + n
      /\ sequence_number' = sequence_number + n /\ sequence_number \in Nat
  BY <1>2, <1>3 DEF AppendLeaves, NewLeaves, TypeOK
<1>6. TypeOK'
  <2>1. /\ next_index' \in 0 .. TreeCapacity /\ next_index' >= next_index
        /\ sequence_number' \in Nat
    BY <1>1, <1>2, <1>3, StateTreeAssumption DEF AppendLeaves, NewLeaves, TypeOK
  <2>2. live' \in SUBSET (0 .. next_index' - 1)
    BY <1>1, <1>2, <1>3 DEF AppendLeaves, NewLeaves, TypeOK
  <2>3. /\ roots' \in [RootSlot -> SUBSET (0 .. next_index' - 1)]
        /\ root_index' \in RootSlot
    <3>1. CASE n = 0
      BY <3>1, <1>2, <1>3, <1>5 DEF AppendLeaves, NewLeaves, TypeOK
    <3>2. CASE n # 0
      <4>1. PushRoots(n, live')
        BY <3>2, <1>3 DEF AppendLeaves, NewLeaves
      <4>2. next_index' \in Nat
        BY <2>1
      <4> QED
        BY <4>1, <4>2, <1>1, <1>2, <2>1, <2>2, PushTypes
    <3> QED
      BY <3>1, <3>2
  <2>4. queue' \in [QueueSlot -> Queue!Cell \cup {None}]
    BY <1>1, <1>2, <1>3, InsertedCells
  <2>5. consumed' \in [Account -> Nat]
    BY <1>2 DEF Transact, TypeOK
  <2> QED
    BY <2>1, <2>2, <2>3, <2>4, <2>5 DEF TypeOK, RootSlot, Queue!Cell, Account
<1>7. \A p \in QueueSlot : Queue!Unmarked(p)' =>
        \/ queue'[p] = queue[p] /\ Queue!Unmarked(p)
        \/ \E i \in inputs : queue'[p] = Queue!NewCell(i)
  BY <1>1, <1>2, <1>3, InsertedCells DEF Queue!Unmarked
<1>8. \A p \in QueueSlot : Queue!Unmarked(p) => queue'[p] = queue[p]
  BY <1>1, <1>2, <1>3, InsertedCells, UnmarkedNotFree
<1>9. PendingProcessable'
  <2>1. Pending' \subseteq live'
    <3> SUFFICES ASSUME NEW p \in QueueSlot, Queue!Unmarked(p)'
                 PROVE  queue'[p].value \in live'
      BY DEF Pending
    <3>1. CASE queue'[p] = queue[p] /\ Queue!Unmarked(p)
      BY <3>1, <1>5 DEF IInv, PendingProcessable, Pending
    <3>2. ASSUME NEW i \in inputs, queue'[p] = Queue!NewCell(i)
          PROVE  queue'[p].value \in live'
      BY <3>2, <1>4, <1>5 DEF Queue!NewCell, Unspent
    <3> QED
      BY <1>7, <3>1, <3>2
  <2>2. ASSUME NEW p \in QueueSlot, NEW q \in QueueSlot,
               Queue!Unmarked(p)', Queue!Unmarked(q)', queue'[p].value = queue'[q].value
        PROVE  p = q
    <3> DEFINE Old(x) == queue'[x] = queue[x] /\ Queue!Unmarked(x)
               Made(x) == \E i \in inputs : queue'[x] = Queue!NewCell(i)
    <3>1. CASE Old(p) /\ Old(q)
      BY <2>2, <3>1 DEF IInv, PendingProcessable
    <3>2. ASSUME NEW x \in QueueSlot, NEW y \in QueueSlot, Old(x), Made(y),
                 queue'[x].value = queue'[y].value
          PROVE  FALSE
      BY <3>2, <1>3, UnmarkedNotFree DEF Queue!NewCell
    <3>3. CASE ~Old(p) /\ ~Old(q) /\ Made(p) /\ Made(q)
      <4>1. PICK i \in inputs : queue'[p] = Queue!NewCell(i)
        BY <3>3
      <4>2. PICK j \in inputs : queue'[q] = Queue!NewCell(j)
        BY <3>3
      <4>3. i = j
        BY <2>2, <4>1, <4>2 DEF Queue!NewCell
      <4>4. ~(queue[p] = Queue!NewCell(i)) /\ ~(queue[q] = Queue!NewCell(i))
        BY <2>2, <3>3, <4>1, <4>2, <4>3 DEF Queue!Unmarked
      <4> QED
        BY <1>1, <1>2, <1>3, <4>1, <4>2, <4>3, <4>4, InsertedCells
    <3> QED
      BY <1>7, <2>2, <3>1, <3>2, <3>3
  <2> QED
    BY <2>1, <2>2 DEF PendingProcessable
<1>10. Covered'
  <2> SUFFICES ASSUME NEW r \in RootSlot, NEW i, i \in roots'[r], i \notin live'
               PROVE  \E p \in QueueSlot : Covers(p, i, r)'
    BY DEF Covered, RootSlot
  <2>1. /\ i \in roots[r] \ live
        /\ sequence_number' + StepsTo(r)' = sequence_number + StepsTo(r)
    <3>0. StepsTo(r) \in Int
      BY <1>2, StepsToRange DEF TypeOK
    <3>1. CASE n = 0
      BY <3>0, <3>1, <1>3, <1>5 DEF AppendLeaves, NewLeaves, StepsTo
    <3>2. CASE n # 0
      <4>1. PushRoots(n, live') /\ n \in Nat \ {0}
        BY <3>2, <1>1, <1>3 DEF AppendLeaves, NewLeaves
      <4>2. i \in roots[r] /\ StepsTo(r)' = StepsTo(r) - n
        BY <4>1, <1>2, <1>5, PushKeepsCovered
      <4> QED
        BY <3>0, <4>2, <1>1, <1>5
    <3> QED
      BY <3>1, <3>2
  <2>2. PICK p \in QueueSlot : Covers(p, i, r)
    BY <2>1 DEF IInv, Covered
  <2>3. queue'[p] = queue[p]
    BY <1>1, <1>2, <1>3, <2>2, InsertedCells, CoverNotFree
  <2>4. /\ sequence_number' \in Int /\ sequence_number \in Int
        /\ StepsTo(r)' \in Int /\ StepsTo(r) \in Int
    <3>1. root_index \in Int /\ root_index' \in Int /\ r \in Int /\ RootsCapacity \in Int
      BY <1>2, <1>6, StateTreeAssumption DEF TypeOK, RootSlot
    <3> QED
      BY <1>2, <1>6, <3>1 DEF TypeOK, StepsTo
  <2>5. sequence_number' + StepsTo(r)' - RootsCapacity + 1 + Threshold
          = sequence_number + StepsTo(r) - RootsCapacity + 1 + Threshold
    BY <2>1, <2>4, StateTreeAssumption
  <2>6. Covers(p, i, r)'
    BY <2>2, <2>3, <2>5 DEF Covers
  <2> QED
    BY <2>6
<1>11. FreshUnconsumed'
  <2> SUFFICES ASSUME NEW i \in Account, i >= next_index' PROVE consumed'[i] = 0
    BY DEF FreshUnconsumed, Account
  <2>1. i >= next_index /\ i \notin inputs
    BY <1>1, <1>2, <1>5, StateTreeAssumption DEF TypeOK, Account
  <2>2. consumed[i] = 0
    BY <2>1 DEF IInv, FreshUnconsumed
  <2> QED
    BY <2>1, <2>2 DEF Transact
<1> QED
  BY <1>6, <1>9, <1>10, <1>11 DEF IInv

\* What nullify_leaves does to the cells.
LEMMA MarkedCell ==
    ASSUME TypeOK, NEW p \in QueueSlot, NullifyLeaves(p)
    PROVE  /\ queue' \in [QueueSlot -> Queue!Cell \cup {None}]
           /\ \A q \in QueueSlot \ {p} : queue'[q] = queue[q]
           /\ queue'[p] \in Queue!Cell
           /\ queue'[p] # None
           /\ queue'[p].value = queue[p].value
           /\ queue'[p].sequence_number \in Nat
           /\ queue'[p].sequence_number = sequence_number' + Threshold
<1>1. queue[p] \in Queue!Cell
  BY DEF TypeOK, NullifyLeaves, MarkedWith, ZeroLeaf, Queue!Unmarked
<1>2. sequence_number' + Threshold \in Nat
  BY StateTreeAssumption DEF TypeOK, NullifyLeaves, MarkedWith, ZeroLeaf
<1>3. queue'[p] = [queue[p] EXCEPT !.sequence_number = sequence_number' + Threshold]
  BY DEF NullifyLeaves, MarkedWith, ZeroLeaf, TypeOK
<1>4. /\ queue'[p] \in Queue!Cell
      /\ queue'[p].value = queue[p].value
      /\ queue'[p].sequence_number = sequence_number' + Threshold
  BY <1>1, <1>2, <1>3 DEF Queue!Cell
<1>5. queue'[p] # None
  BY <1>4, StateTreeAssumption DEF Queue!Cell
<1>6. \A q \in QueueSlot \ {p} : queue'[q] = queue[q]
  BY DEF NullifyLeaves, MarkedWith, ZeroLeaf, TypeOK
<1>7. queue' \in [QueueSlot -> Queue!Cell \cup {None}]
  <2>1. \A q \in QueueSlot : queue'[q] \in Queue!Cell \cup {None}
    BY <1>4, <1>6 DEF TypeOK
  <2> QED
    BY <2>1 DEF NullifyLeaves, MarkedWith, ZeroLeaf, TypeOK
<1> QED
  BY <1>2, <1>4, <1>5, <1>6, <1>7

\* The forester's step keeps the invariant: the leaf it removes is covered by
\* the cell it marks, for as long as any root in the history contains it.
LEMMA NullifyIInv ==
    ASSUME IInv, NEW p \in QueueSlot, NullifyLeaves(p)
    PROVE  IInv'
<1>1. TypeOK
  BY DEF IInv
<1>2. /\ PushRoots(1, live') /\ live' = live \ {queue[p].value}
      /\ sequence_number' = sequence_number + 1 /\ sequence_number \in Nat
      /\ next_index' = next_index /\ next_index \in Nat
      /\ consumed' = consumed
      /\ Queue!Unmarked(p)
  BY <1>1 DEF NullifyLeaves, MarkedWith, ZeroLeaf, TypeOK
<1>3. TypeOK'
  <2>1. live' \in SUBSET (0 .. next_index' - 1)
    BY <1>1, <1>2 DEF TypeOK
  <2>2. /\ roots' \in [RootSlot -> SUBSET (0 .. next_index' - 1)]
        /\ root_index' \in RootSlot
    BY <1>1, <1>2, <2>1, PushTypes
  <2>3. queue' \in [QueueSlot -> Queue!Cell \cup {None}]
    BY <1>1, MarkedCell
  <2> QED
    BY <1>1, <1>2, <2>1, <2>2, <2>3 DEF TypeOK, RootSlot, Queue!Cell, Account
<1>4. ~Queue!Unmarked(p)'
  BY <1>1, MarkedCell, StateTreeAssumption DEF Queue!Unmarked
<1>5. \A q \in QueueSlot : Queue!Unmarked(q)' =>
        q # p /\ Queue!Unmarked(q) /\ queue'[q] = queue[q]
  BY <1>1, <1>4, MarkedCell DEF Queue!Unmarked
<1>6. PendingProcessable'
  <2>1. Pending' \subseteq live'
    <3> SUFFICES ASSUME NEW q \in QueueSlot, Queue!Unmarked(q)'
                 PROVE  queue'[q].value \in live'
      BY DEF Pending
    <3>1. q # p /\ Queue!Unmarked(q) /\ queue'[q] = queue[q]
      BY <1>5
    <3>2. queue[q].value \in live /\ queue[q].value # queue[p].value
      BY <3>1, <1>2 DEF IInv, PendingProcessable, Pending
    <3> QED
      BY <3>1, <3>2, <1>2
  <2>2. \A q, s \in QueueSlot :
          Queue!Unmarked(q)' /\ Queue!Unmarked(s)' /\ queue'[q].value = queue'[s].value
            => q = s
    BY <1>5 DEF IInv, PendingProcessable
  <2> QED
    BY <2>1, <2>2 DEF PendingProcessable
<1>7. Covered'
  <2> SUFFICES ASSUME NEW r \in RootSlot, NEW i, i \in roots'[r], i \notin live'
               PROVE  \E q \in QueueSlot : Covers(q, i, r)'
    BY DEF Covered, RootSlot
  <2>1. /\ i \in roots[r]
        /\ StepsTo(r)' = StepsTo(r) - 1
        /\ StepsTo(r)' \in 1 .. RootsCapacity - 1
    <3>1. 1 \in Nat \ {0}
      OBVIOUS
    <3> QED
      BY <1>1, <1>2, <3>1, PushKeepsCovered
  <2>2. StepsTo(r) \in Int /\ StepsTo(r)' \in Int
    BY <1>1, <2>1, StepsToRange, StateTreeAssumption DEF TypeOK
  <2>3. CASE i = queue[p].value
    <3>1. queue'[p].sequence_number
            >= sequence_number' + StepsTo(r)' - RootsCapacity + 1 + Threshold
      BY <1>1, <1>2, <2>1, MarkedCell, StateTreeAssumption
    <3>2. Covers(p, i, r)'
      BY <1>1, <2>3, <3>1, MarkedCell DEF Covers
    <3> QED
      BY <3>2
  <2>4. CASE i # queue[p].value
    <3>1. PICK q \in QueueSlot : Covers(q, i, r)
      BY <2>1, <2>4, <1>2 DEF IInv, Covered
    <3>2. q # p
      BY <3>1, <2>4 DEF Covers
    <3>3. queue'[q] = queue[q]
      BY <3>2, <1>1, MarkedCell
    <3>4. sequence_number' + StepsTo(r)' - RootsCapacity + 1 + Threshold
            = sequence_number + StepsTo(r) - RootsCapacity + 1 + Threshold
      BY <1>2, <2>1, <2>2, StateTreeAssumption
    <3>5. Covers(q, i, r)'
      BY <3>1, <3>3, <3>4 DEF Covers
    <3> QED
      BY <3>5
  <2> QED
    BY <2>3, <2>4
<1>8. FreshUnconsumed'
  BY <1>2 DEF IInv, FreshUnconsumed, Account
<1> QED
  BY <1>3, <1>6, <1>7, <1>8 DEF IInv

-----------------------------------------------------------------------------
\* The inductive invariant of the state tree and its nullifier queue.
THEOREM StateTreeInvariant == Spec => []IInv
<1>1. Init => IInv
  BY InitIInv
<1>2. IInv /\ [Next]_vars => IInv'
  <2> SUFFICES ASSUME IInv, [Next]_vars PROVE IInv'
    OBVIOUS
  <2>1. ASSUME NEW inputs \in SUBSET (0 .. next_index - 1),
               NEW n \in 0 .. ChangelogCapacity, Transact(inputs, n)
        PROVE  IInv'
    BY <2>1, TransactIInv
  <2>2. ASSUME NEW p \in QueueSlot, NullifyLeaves(p) PROVE IInv'
    BY <2>2, NullifyIInv
  <2>3. CASE UNCHANGED vars
    BY <2>3 DEF vars, IInv, TypeOK, PendingProcessable, Pending, Covered, Covers,
                StepsTo, RootSlot, Queue!Unmarked, Queue!Cell, FreshUnconsumed, Account
  <2> QED
    BY <2>1, <2>2, <2>3 DEF Next
<1> QED
  BY <1>1, <1>2, PTL DEF Spec

\* Types of the state tree and its queue.
THEOREM StateTreeTypeOK == Spec => []TypeOK
<1>1. IInv => TypeOK
  BY DEF IInv
<1> QED
  BY <1>1, StateTreeInvariant, PTL

\* Whatever the sizes, a nullified account that a root of the history still
\* proves is refused by the nullifier queue.
THEOREM StateTreeStaleRootsCovered == Spec => []StaleRootsCovered
  BY CoveredIsEnough, StateTreeInvariant, PTL

\* Every nullifier in the queue can be processed by the forester.
THEOREM StateTreePendingProcessable == Spec => []PendingProcessable
<1>1. IInv => PendingProcessable
  BY DEF IInv
<1> QED
  BY <1>1, StateTreeInvariant, PTL

\* A transaction is a step of the ledger that consumes unspent accounts.
LEMMA TransactIsLedgerStep ==
    ASSUME IInv, NEW inputs \in SUBSET (0 .. next_index - 1),
           NEW n \in 0 .. ChangelogCapacity, Transact(inputs, n)
    PROVE  SpentLedger!Transaction
<1>1. inputs \in SUBSET Nat /\ n \in Nat /\ TypeOK
  BY StateTreeAssumption DEF IInv
<1>2. /\ InsertNullifiers(inputs) /\ ProofsVerify(inputs) /\ AppendLeaves(n)
      /\ \A i \in inputs : ~Queue!Present(i)
  BY DEF Transact, InsertNullifiers, NotQueued
<1>3. inputs \subseteq Unspent
  BY <1>1, <1>2, AcceptedIsUnspent
<1>4. Pending' = Pending \cup inputs
  <2>1. \A p \in QueueSlot : Queue!Unmarked(p) =>
          queue'[p] = queue[p] /\ Queue!Unmarked(p)'
    <3>1. \A p \in QueueSlot : Queue!Unmarked(p) => queue'[p] = queue[p]
      BY <1>1, <1>2, InsertedCells, UnmarkedNotFree
    <3> QED
      BY <3>1 DEF Queue!Unmarked
  <2>2. \A i \in inputs : \E p \in QueueSlot :
          Queue!Unmarked(p)' /\ queue'[p].value = i
    <3>1. \A i \in inputs : /\ Queue!NewCell(i).value = i
                            /\ Queue!NewCell(i).sequence_number = None
                            /\ Queue!NewCell(i) # None
      BY <1>1, StateTreeAssumption DEF Queue!NewCell
    <3>2. \A i \in inputs : \E p \in QueueSlot : queue'[p] = Queue!NewCell(i)
      BY <1>1, <1>2, InsertedCells
    <3> QED
      BY <3>1, <3>2 DEF Queue!Unmarked
  <2>3. \A p \in QueueSlot : Queue!Unmarked(p)' =>
          \/ Queue!Unmarked(p) /\ queue'[p] = queue[p]
          \/ queue'[p].value \in inputs
    <3> SUFFICES ASSUME NEW p \in QueueSlot, Queue!Unmarked(p)',
                        queue'[p] # queue[p]
                 PROVE  queue'[p].value \in inputs
      BY DEF Queue!Unmarked
    <3>1. PICK i \in inputs : queue'[p] = Queue!NewCell(i)
      BY <1>1, <1>2, InsertedCells
    <3> QED
      BY <3>1 DEF Queue!NewCell
  <2>4. ASSUME NEW i \in Pending' PROVE i \in Pending \cup inputs
    <3>1. PICK p \in QueueSlot : Queue!Unmarked(p)' /\ i = queue'[p].value
      BY <2>4 DEF Pending
    <3> QED
      BY <3>1, <2>3 DEF Pending
  <2>5. ASSUME NEW i \in Pending PROVE i \in Pending'
    <3>1. PICK p \in QueueSlot : Queue!Unmarked(p) /\ i = queue[p].value
      BY <2>5 DEF Pending
    <3> QED
      BY <3>1, <2>1 DEF Pending
  <2>6. ASSUME NEW i \in inputs PROVE i \in Pending'
    BY <2>2, <2>6 DEF Pending
  <2> QED
    BY <2>4, <2>5, <2>6
<1>5. /\ live' = live \cup (next_index .. next_index + n - 1)
      /\ next_index' = next_index + n /\ next_index \in Nat
      /\ live \subseteq 0 .. next_index - 1
  BY <1>1, <1>2 DEF AppendLeaves, NewLeaves, TypeOK
<1>6. Pending \subseteq live /\ inputs \subseteq live
  BY <1>3 DEF IInv, PendingProcessable, Unspent
<1>7. Unspent' = (Unspent \ inputs) \cup (next_index .. next_index + n - 1)
  BY <1>1, <1>4, <1>5, <1>6 DEF Unspent
<1>8. next_index .. next_index + n - 1 \in SUBSET Account
  BY <1>1, <1>2, <1>5, StateTreeAssumption DEF AppendLeaves, Account
<1>9. \A i \in next_index .. next_index + n - 1 : i \notin Unspent /\ consumed[i] = 0
  BY <1>1, <1>5, <1>8 DEF Unspent, IInv, FreshUnconsumed
<1>10. consumed' = [i \in Account |-> IF i \in inputs THEN consumed[i] + 1 ELSE consumed[i]]
  BY DEF Transact
<1> HIDE DEF Unspent
<1> QED
  BY <1>3, <1>7, <1>8, <1>9, <1>10 DEF SpentLedger!Transaction

\* The forester's step changes nothing that the ledger shows.
LEMMA NullifyIsStutter ==
    ASSUME IInv, NEW p \in QueueSlot, NullifyLeaves(p)
    PROVE  Unspent' = Unspent /\ consumed' = consumed
<1>1. /\ TypeOK /\ Queue!Unmarked(p) /\ live' = live \ {queue[p].value}
      /\ consumed' = consumed
  BY DEF IInv, NullifyLeaves, MarkedWith, ZeroLeaf
<1>2. Pending' = Pending \ {queue[p].value}
  <2>1. ~Queue!Unmarked(p)'
    BY <1>1, MarkedCell, StateTreeAssumption DEF Queue!Unmarked
  <2>2. \A q \in QueueSlot \ {p} :
          queue'[q] = queue[q] /\ (Queue!Unmarked(q)' <=> Queue!Unmarked(q))
    BY <1>1, MarkedCell DEF Queue!Unmarked
  <2>3. \A q \in QueueSlot \ {p} : Queue!Unmarked(q) => queue[q].value # queue[p].value
    BY <1>1 DEF IInv, PendingProcessable
  <2> QED
    BY <2>1, <2>2, <2>3 DEF Pending
<1>3. queue[p].value \in Pending
  BY <1>1 DEF Pending
<1> QED
  BY <1>1, <1>2, <1>3 DEF Unspent

\* The protocol's promise: the state tree, its root history and its nullifier
\* queue implement the ledger in which every account is spent at most once.
THEOREM StateTreeSpendOnce == Spec => SpendOnce
<1>1. Init => SpentLedger!Init
  BY DEF Init, SpentLedger!Init, Unspent
<1>2. IInv /\ [Next]_vars => [SpentLedger!Next]_(SpentLedger!vars)
  <2> SUFFICES ASSUME IInv, [Next]_vars
               PROVE  SpentLedger!Next \/ UNCHANGED SpentLedger!vars
    OBVIOUS
  <2>1. ASSUME NEW inputs \in SUBSET (0 .. next_index - 1),
               NEW n \in 0 .. ChangelogCapacity, Transact(inputs, n)
        PROVE  SpentLedger!Next
    BY <2>1, TransactIsLedgerStep DEF SpentLedger!Next
  <2>2. ASSUME NEW p \in QueueSlot, NullifyLeaves(p)
        PROVE  UNCHANGED SpentLedger!vars
    BY <2>2, NullifyIsStutter DEF SpentLedger!vars
  <2>3. CASE UNCHANGED vars
    BY <2>3 DEF vars, SpentLedger!vars, Unspent, Pending, Queue!Unmarked
  <2> QED
    BY <2>1, <2>2, <2>3 DEF Next
<1> QED
  BY <1>1, <1>2, StateTreeInvariant, PTL
     DEF Spec, SpendOnce, SpentLedger!Spec

-----------------------------------------------------------------------------
\* The table behind the queue.

\* Every occupied bucket is on the probe sequence of its value, with no empty
\* bucket before it.
OnProbePath ==
    \A p \in Bucket : buckets[p] # None =>
        \E i \in Iteration :
            /\ probe_index(buckets[p].value, i) = p
            /\ \A j \in 0 .. i - 1 : Probed(buckets[p].value, j) # None

\* The inductive invariant.
HashSetIInv == HashSetTypeOK /\ OnProbePath /\ NoDuplicates

\* probe_index stays inside the array, as the comment "probe_index() ensures
\* the bounds" of find_element_index claims.
LEMMA ProbeInBounds ==
    ASSUME NEW v \in Value, NEW i \in Iteration
    PROVE  probe_index(v, i) \in Bucket
<1>1. v \in Nat /\ i \in Nat /\ Capacity \in Nat /\ Capacity > 0
  BY HashSetAssumption DEF Iteration
<1> DEFINE k == i + Capacity \div 10
<1>2. k \in Nat
  BY <1>1
<1>3. k * k \in Nat
  BY <1>2
<1> DEFINE n == v + k * k
<1>4. n \in Nat
  BY <1>1, <1>3
<1> HIDE DEF n
<1>5. n % Capacity \in 0 .. Capacity - 1
  BY <1>1, <1>4
<1> QED
  BY <1>5 DEF probe_index, Bucket, n, k

\* The initial table satisfies the invariant.
LEMMA HashSetInitIInv == HashSetInit => HashSetIInv
  BY HashSetAssumption DEF HashSetInit, HashSetIInv, HashSetTypeOK, OnProbePath, NoDuplicates, Bucket

\* A value that passed find_element_iter is in no valid bucket at all.
LEMMA FoundFreeIsAbsent ==
    ASSUME HashSetIInv, NEW v \in Value, NEW i \in Iteration, find_element_iter(v, i),
           NEW q \in Bucket, buckets[q] # None, buckets[q].value = v
    PROVE  ~is_valid(buckets[q], seq)
<1>1. PICK k \in Iteration : /\ probe_index(v, k) = q
                             /\ \A j \in 0 .. k - 1 : Probed(v, j) # None
  BY DEF HashSetIInv, OnProbePath
<1>2. SUFFICES ASSUME is_valid(buckets[q], seq) PROVE FALSE
  OBVIOUS
<1>3. Holds(v, k)
  BY <1>1, <1>2 DEF Holds, Probed
<1>4. Probed(v, i) = None
  BY <1>3 DEF find_element_iter
<1>5. i \in Int /\ k \in Int /\ i >= 0 /\ k >= 0
  BY HashSetAssumption DEF Iteration
<1>6. k < i
  <2>1. k # i
    BY <1>3, <1>4 DEF Holds
  <2>2. ~(i < k)
    BY <1>1, <1>4, <1>5
  <2> QED
    BY <2>1, <2>2, <1>5
<1>7. k \in 0 .. i - 1
  BY <1>5, <1>6
<1> QED
  BY <1>3, <1>4, <1>7 DEF find_element_iter

\* insert preserves the invariant.
LEMMA HashSetInsert ==
    ASSUME HashSetIInv, NEW v \in Value, insert(v)
    PROVE  HashSetIInv'
<1>1. PICK i \in Iteration :
        /\ find_element_iter(v, i)
        /\ buckets' = [buckets EXCEPT ![probe_index(v, i)] =
                            [value |-> v, sequence_number |-> None]]
  BY DEF insert
<1> DEFINE b == probe_index(v, i)
           c == [value |-> v, sequence_number |-> None]
<1>2. b \in Bucket
  BY ProbeInBounds
<1>3. c \in Cell /\ c # None
  BY HashSetAssumption DEF Cell
<1>4. seq' = seq /\ seq \in Nat /\ buckets \in [Bucket -> Cell \cup {None}]
  BY DEF insert, HashSetIInv, HashSetTypeOK
<1>5. /\ buckets'[b] = c
      /\ \A p \in Bucket \ {b} : buckets'[p] = buckets[p]
  BY <1>1, <1>2, <1>4
<1>6. \A p \in Bucket : buckets[p] # None => buckets'[p] # None
  BY <1>3, <1>5
<1>7. HashSetTypeOK'
  BY <1>1, <1>2, <1>3, <1>4 DEF HashSetTypeOK
<1>8. \A u \in Value, j \in Iteration : Probed(u, j) # None => buckets'[probe_index(u, j)] # None
  BY <1>6, ProbeInBounds DEF Probed
<1>9. OnProbePath'
  <2> SUFFICES ASSUME NEW p \in Bucket, buckets'[p] # None
               PROVE  \E k \in Iteration :
                        /\ probe_index(buckets'[p].value, k) = p
                        /\ \A j \in 0 .. k - 1 : buckets'[probe_index(buckets'[p].value, j)] # None
    BY DEF OnProbePath, Probed, probe_index, Bucket
  <2>1. CASE p = b
    <3>1. buckets'[p].value = v
      BY <2>1, <1>5
    <3>2. \A j \in 0 .. i - 1 : j \in Iteration /\ Probed(v, j) # None
      BY <1>1, HashSetAssumption DEF find_element_iter, Available, Iteration
    <3> QED
      BY <2>1, <3>1, <3>2, <1>8
  <2>2. CASE p # b
    <3>1. buckets'[p] = buckets[p] /\ buckets[p] # None /\ buckets[p].value \in Value
      BY <2>2, <1>4, <1>5 DEF Cell
    <3>2. PICK k \in Iteration :
            /\ probe_index(buckets[p].value, k) = p
            /\ \A j \in 0 .. k - 1 : Probed(buckets[p].value, j) # None
      BY <3>1 DEF HashSetIInv, OnProbePath
    <3>3. \A j \in 0 .. k - 1 : j \in Iteration
      BY HashSetAssumption DEF Iteration
    <3> QED
      BY <3>1, <3>2, <3>3, <1>8
  <2> QED
    BY <2>1, <2>2
<1>10. NoDuplicates'
  <2> SUFFICES ASSUME NEW p \in Bucket, NEW q \in Bucket,
                      buckets'[p] # None, is_valid(buckets'[p], seq),
                      buckets'[q] # None, is_valid(buckets'[q], seq),
                      buckets'[p].value = buckets'[q].value,
                      p # q
               PROVE  FALSE
    BY <1>4 DEF NoDuplicates, Bucket, is_valid
  <2>1. CASE p # b /\ q # b
    BY <2>1, <1>5 DEF HashSetIInv, NoDuplicates
  <2>2. CASE p = b
    <3>1. buckets[q] = buckets'[q] /\ buckets[q].value = v
      BY <2>2, <1>5
    <3> QED
      BY <3>1, <1>1, FoundFreeIsAbsent
  <2>3. CASE q = b
    <3>1. buckets[p] = buckets'[p] /\ buckets[p].value = v
      BY <2>3, <1>5
    <3> QED
      BY <3>1, <1>1, FoundFreeIsAbsent
  <2> QED
    BY <2>1, <2>2, <2>3
<1> QED
  BY <1>7, <1>9, <1>10 DEF HashSetIInv

\* Cells only change from valid to valid or from valid to expired when the
\* tree advances and when a bucket is marked, so both preserve the invariant.
LEMMA HashSetTreeStep ==
    ASSUME HashSetIInv, NEW s \in seq + 1 .. MaxSeq,
           \/ AdvanceTree(s)
           \/ \E p \in Bucket : mark_with_sequence_number(p, s)
    PROVE  HashSetIInv'
<1>1. seq \in Nat /\ s \in Nat /\ seq' = s /\ s > seq
  BY HashSetAssumption DEF HashSetIInv, HashSetTypeOK, AdvanceTree, mark_with_sequence_number, Expiry
<1>2. HashSetTypeOK'
  <2>1. CASE AdvanceTree(s)
    BY <1>1, <2>1 DEF HashSetIInv, HashSetTypeOK, AdvanceTree
  <2>2. ASSUME NEW p \in Bucket, mark_with_sequence_number(p, s) PROVE HashSetTypeOK'
    <3>1. s + Threshold \in Nat
      BY <1>1, HashSetAssumption
    <3>2. buckets[p] \in Cell
      BY <2>2 DEF HashSetIInv, HashSetTypeOK, mark_with_sequence_number, Expiry, get_unmarked_bucket
    <3>3. [buckets[p] EXCEPT !.sequence_number = s + Threshold] \in Cell
      BY <3>1, <3>2 DEF Cell
    <3> QED
      BY <2>2, <3>3, <1>1 DEF HashSetIInv, HashSetTypeOK, mark_with_sequence_number, Expiry
  <2> QED
    BY <2>1, <2>2
<1>3. \A p \in Bucket :
        /\ buckets'[p] = None <=> buckets[p] = None
        /\ buckets[p] # None =>
             /\ buckets'[p].value = buckets[p].value
             /\ is_valid(buckets'[p], s) => is_valid(buckets[p], seq)
  <2>1. CASE AdvanceTree(s)
    BY <1>1, <2>1 DEF HashSetIInv, HashSetTypeOK, AdvanceTree, is_valid, Cell
  <2>2. ASSUME NEW q \in Bucket, mark_with_sequence_number(q, s),
               NEW p \in Bucket
        PROVE  /\ buckets'[p] = None <=> buckets[p] = None
               /\ buckets[p] # None =>
                    /\ buckets'[p].value = buckets[p].value
                    /\ is_valid(buckets'[p], s) => is_valid(buckets[p], seq)
    <3>1. CASE p # q
      <4>1. buckets'[p] = buckets[p] /\ buckets[p] \in Cell \cup {None}
        BY <2>2, <3>1 DEF HashSetIInv, HashSetTypeOK, mark_with_sequence_number, Expiry
      <4> QED
        BY <1>1, <4>1 DEF is_valid, Cell
    <3>2. CASE p = q
      <4>1. /\ buckets[p] \in Cell /\ buckets[p].sequence_number = None
            /\ buckets[p] # None
        BY <2>2, <3>2 DEF HashSetIInv, HashSetTypeOK, mark_with_sequence_number, Expiry, get_unmarked_bucket
      <4>2. buckets'[p] = [buckets[p] EXCEPT !.sequence_number = s + Threshold]
        BY <2>2, <3>2 DEF HashSetIInv, HashSetTypeOK, mark_with_sequence_number, Expiry
      <4>3. buckets'[p] \in Cell /\ buckets'[p].value = buckets[p].value
        BY <4>1, <4>2, <1>1, HashSetAssumption DEF Cell
      <4>4. buckets'[p] # None
        BY <4>3, HashSetAssumption DEF Cell
      <4> QED
        BY <4>1, <4>3, <4>4 DEF is_valid
    <3> QED
      BY <3>1, <3>2
  <2> QED
    BY <2>1, <2>2
<1>4. OnProbePath'
  <2> SUFFICES ASSUME NEW p \in Bucket, buckets'[p] # None
               PROVE  \E k \in Iteration :
                        /\ probe_index(buckets'[p].value, k) = p
                        /\ \A j \in 0 .. k - 1 : buckets'[probe_index(buckets'[p].value, j)] # None
    BY DEF OnProbePath, Probed, probe_index, Bucket
  <2>1. buckets[p] # None /\ buckets'[p].value = buckets[p].value
    BY <1>3
  <2>2. buckets[p].value \in Value
    BY <2>1 DEF HashSetIInv, HashSetTypeOK, Cell
  <2>3. PICK k \in Iteration :
            /\ probe_index(buckets[p].value, k) = p
            /\ \A j \in 0 .. k - 1 : Probed(buckets[p].value, j) # None
    BY <2>1 DEF HashSetIInv, OnProbePath
  <2>4. \A j \in 0 .. k - 1 : probe_index(buckets[p].value, j) \in Bucket
    <3>1. \A j \in 0 .. k - 1 : j \in Iteration
      BY HashSetAssumption DEF Iteration
    <3> QED
      BY <2>2, <3>1, ProbeInBounds
  <2>5. \A j \in 0 .. k - 1 : buckets'[probe_index(buckets'[p].value, j)] # None
    BY <2>1, <2>3, <2>4, <1>3 DEF Probed
  <2> QED
    BY <2>1, <2>3, <2>5
<1>5. NoDuplicates'
  BY <1>1, <1>3 DEF HashSetIInv, NoDuplicates, Bucket, is_valid
<1> QED
  BY <1>2, <1>4, <1>5 DEF HashSetIInv

\* The invariant holds in every reachable state of the hash set.
THEOREM HashSetInvariant == HashSetSpec => []HashSetIInv
<1>1. HashSetInit => HashSetIInv
  BY HashSetInitIInv
<1>2. HashSetIInv /\ [HashSetNext]_HashSetVars => HashSetIInv'
  <2> SUFFICES ASSUME HashSetIInv, [HashSetNext]_HashSetVars PROVE HashSetIInv'
    OBVIOUS
  <2>1. ASSUME NEW v \in Value, insert(v) PROVE HashSetIInv'
    BY <2>1, HashSetInsert
  <2>2. ASSUME NEW p \in Bucket, NEW s \in seq + 1 .. MaxSeq,
               mark_with_sequence_number(p, s)
        PROVE  HashSetIInv'
    BY <2>2, HashSetTreeStep
  <2>3. ASSUME NEW s \in seq + 1 .. MaxSeq, AdvanceTree(s) PROVE HashSetIInv'
    BY <2>3, HashSetTreeStep
  <2>4. CASE UNCHANGED HashSetVars
    BY <2>4 DEF HashSetVars, HashSetIInv, HashSetTypeOK, OnProbePath, NoDuplicates, Probed,
                probe_index, is_valid, Bucket
  <2> QED
    BY <2>1, <2>2, <2>3, <2>4 DEF HashSetNext
<1> QED
  BY <1>1, <1>2, PTL DEF HashSetSpec

\* No value is in two valid buckets (HashSet::insert returns
\* ElementAlreadyExists instead).
THEOREM HashSetNoDuplicates == HashSetSpec => []NoDuplicates
<1>1. HashSetIInv => NoDuplicates
  BY DEF HashSetIInv
<1> QED
  BY <1>1, HashSetInvariant, PTL

\* contains answers for every value exactly whether a valid bucket holds it.
THEOREM HashSetLookupComplete == HashSetSpec => []LookupComplete
<1>1. HashSetIInv => LookupComplete
  <2> SUFFICES ASSUME HashSetIInv, NEW v \in Value
               PROVE  contains(v) <=> \E p \in Bucket :
                        /\ buckets[p] # None /\ buckets[p].value = v
                        /\ is_valid(buckets[p], seq)
    BY DEF LookupComplete
  <2>1. ASSUME contains(v)
        PROVE  \E p \in Bucket : /\ buckets[p] # None /\ buckets[p].value = v
                                 /\ is_valid(buckets[p], seq)
    BY <2>1, ProbeInBounds DEF contains, Holds, Probed
  <2>2. ASSUME NEW p \in Bucket, buckets[p] # None, buckets[p].value = v,
               is_valid(buckets[p], seq)
        PROVE  contains(v)
    BY <2>2 DEF HashSetIInv, OnProbePath, contains, Holds, Probed
  <2> QED
    BY <2>1, <2>2
<1> QED
  BY <1>1, HashSetInvariant, PTL

\* A successful insertion is an insertion of the abstract set: the value is in
\* no cell that is still valid, and the cell taken was empty or expired.
LEMMA InsertImplements ==
    ASSUME HashSetIInv, NEW v \in Value, insert(v)
    PROVE  Abstract!Insert
<1>1. PICK i \in Iteration :
        /\ find_element_iter(v, i)
        /\ buckets' = [buckets EXCEPT ![probe_index(v, i)] =
                            [value |-> v, sequence_number |-> None]]
  BY DEF insert
<1>2. probe_index(v, i) \in Bucket
  BY ProbeInBounds
<1>3. ~Abstract!Present(v)
  BY <1>1, FoundFreeIsAbsent DEF Abstract!Present, Abstract!IsValid, is_valid
<1>4. Abstract!Free(probe_index(v, i))
  BY <1>1 DEF find_element_iter, Available, Probed, is_valid,
              Abstract!Free, Abstract!IsValid
<1> QED
  BY <1>1, <1>2, <1>3, <1>4 DEF insert, Abstract!Insert, Abstract!NewCell

\* Every behaviour of the hash set is one of the expiring set: a nullifier or
\* an address the program has accepted stays refused until the tree's
\* sequence number has moved Threshold past the update that consumed it.
THEOREM HashSetImplementsExpiringSet == HashSetSpec => ImplementsExpiringSet
<1>1. HashSetInit => Abstract!Init
  BY DEF HashSetInit, Abstract!Init
<1>2. HashSetIInv /\ [HashSetNext]_HashSetVars => [Abstract!Next]_(Abstract!vars)
  <2> SUFFICES ASSUME HashSetIInv, [HashSetNext]_HashSetVars PROVE [Abstract!Next]_(Abstract!vars)
    OBVIOUS
  <2>1. ASSUME NEW v \in Value, insert(v) PROVE Abstract!Next
    BY <2>1, InsertImplements DEF Abstract!Next
  <2>2. ASSUME NEW s \in seq + 1 .. MaxSeq PROVE s \in Nat /\ s > seq
    BY HashSetAssumption DEF HashSetIInv, HashSetTypeOK
  <2>3. ASSUME NEW p \in Bucket, NEW s \in seq + 1 .. MaxSeq,
               mark_with_sequence_number(p, s)
        PROVE  Abstract!Next
    BY <2>2, <2>3 DEF mark_with_sequence_number, Expiry, get_unmarked_bucket,
                      Abstract!Next, Abstract!Mark, Abstract!Unmarked
  <2>4. ASSUME NEW s \in seq + 1 .. MaxSeq, AdvanceTree(s) PROVE Abstract!Next
    BY <2>2, <2>4 DEF AdvanceTree, Abstract!Next, Abstract!Advance
  <2>5. CASE UNCHANGED HashSetVars
    BY <2>5 DEF HashSetVars, Abstract!vars
  <2> QED
    BY <2>1, <2>3, <2>4, <2>5 DEF HashSetNext
<1> QED
  BY <1>1, <1>2, HashSetInvariant, PTL
     DEF HashSetSpec, ImplementsExpiringSet, Abstract!Spec
=============================================================================
