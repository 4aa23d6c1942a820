------------------------- MODULE AddressTreeProofs -------------------------
(***************************************************************************)
(* Every address is created at most once, for every tree, root history and *)
(* queue size, provided that sequence_threshold is at least the size of    *)
(* the root history.                                                       *)
(*                                                                         *)
(* As for the state tree, StaleRootsCovered is strengthened by how long    *)
(* the covering cell stays valid: until the root it covers is overwritten. *)
(***************************************************************************)
EXTENDS AddressTree, FiniteSetTheorems, TLAPS

\* Pushes until slot r of the history is overwritten, 1 .. RootsCapacity.
StepsTo(r) == IF r > root_index THEN r - root_index ELSE r - root_index + RootsCapacity

\* The cell p covers address a until slot r of the history is overwritten.
Covers(p, a, r) ==
    /\ queue[p] # None
    /\ queue[p].value = a
    /\ queue[p].sequence_number \in Nat
    /\ queue[p].sequence_number >= sequence_number + StepsTo(r) - RootsCapacity + 1 + Threshold

Covered ==
    \A r \in RootSlot : \A a \in roots[r] \cap inserted : \E p \in QueueSlot : Covers(p, a, r)

\* An address has been created once if it is in the queue or in the tree, and
\* not at all otherwise.
CreationsCounted ==
    \A a \in Address : creations[a] = IF a \in inserted \cup Pending THEN 1 ELSE 0

\* The inductive invariant.
IInv == TypeOK /\ PendingProcessable /\ Covered /\ CreationsCounted

-----------------------------------------------------------------------------
\* Every root number has a slot.
LEMMA SlotOfIsSlot ==
    ASSUME NEW n \in Nat
    PROVE  SlotOf(n) \in RootSlot
  BY AddressTreeAssumption DEF SlotOf, RootSlot

\* Up to a full turn of the history the modulus is a single subtraction.
LEMMA SlotOfBeforeWrap ==
    ASSUME NEW n \in Nat, root_index \in RootSlot, n <= RootsCapacity
    PROVE  SlotOf(root_index + n) = IF root_index + n < RootsCapacity
                                    THEN root_index + n
                                    ELSE root_index + n - RootsCapacity
<1> DEFINE a == root_index + n
<1>1. /\ a \in Nat /\ RootsCapacity \in Nat /\ RootsCapacity > 0
      /\ a < 2 * RootsCapacity
  BY AddressTreeAssumption DEF RootSlot
<1> HIDE DEF a
<1>2. CASE a < RootsCapacity
  <2>1. a % RootsCapacity = a
    BY <1>1, <1>2
  <2> QED
    BY <1>2, <2>1 DEF SlotOf, a
<1>3. CASE a >= RootsCapacity
  <2> DEFINE q == a \div RootsCapacity
             m == a % RootsCapacity
  <2>1. q \in Int /\ m \in 0 .. RootsCapacity - 1 /\ a = RootsCapacity * q + m
    BY <1>1
  <2> HIDE DEF q, m
  <2>2. ~(q <= 0)
    BY <1>1, <1>3, <2>1
  <2>3. ~(q >= 2)
    BY <1>1, <1>3, <2>1
  <2>4. q = 1
    BY <2>1, <2>2, <2>3
  <2>5. m = a - RootsCapacity
    BY <1>1, <2>1, <2>4
  <2>6. SlotOf(root_index + n) = m
    BY DEF SlotOf, a, m
  <2>7. ~(root_index + n < RootsCapacity)
    BY <1>1, <1>3 DEF a
  <2> QED
    BY <2>5, <2>6, <2>7, AddressTreeAssumption DEF a, RootSlot
<1> QED
  BY <1>1, <1>2, <1>3

\* A slot's distance is between 1 and the size of the history.
LEMMA StepsToRange ==
    ASSUME NEW r \in RootSlot, root_index \in RootSlot
    PROVE  StepsTo(r) \in 1 .. RootsCapacity
  BY AddressTreeAssumption DEF StepsTo, RootSlot

\* A slot that the two pushes of an insertion leave alone comes two steps
\* closer.
LEMMA SurvivingSlot ==
    ASSUME root_index \in RootSlot, root_index' = SlotOf(root_index + 2), NEW r \in RootSlot,
           r # SlotOf(root_index + 1), r # SlotOf(root_index + 2)
    PROVE  /\ StepsTo(r)' = StepsTo(r) - 2
           /\ StepsTo(r)' \in 1 .. RootsCapacity - 1
<1>1. RootsCapacity \in Nat \ {0} /\ root_index \in 0 .. RootsCapacity - 1
      /\ r \in 0 .. RootsCapacity - 1
  BY AddressTreeAssumption DEF RootSlot
<1>2. SlotOf(root_index + 1) = IF root_index + 1 < RootsCapacity
                               THEN root_index + 1 ELSE root_index + 1 - RootsCapacity
  BY <1>1, SlotOfBeforeWrap
<1>3. RootsCapacity >= 2
  BY <1>1, <1>2
<1>4. SlotOf(root_index + 2) = IF root_index + 2 < RootsCapacity
                               THEN root_index + 2 ELSE root_index + 2 - RootsCapacity
  BY <1>1, <1>3, SlotOfBeforeWrap
<1> QED
  BY <1>1, <1>2, <1>3, <1>4 DEF StepsTo

\* An unmarked cell, and a cell that covers a stale root, are not free.
LEMMA UnmarkedNotFree ==
    ASSUME NEW p \in QueueSlot, Queue!Unmarked(p)
    PROVE  ~Queue!Free(p) /\ Queue!Present(queue[p].value)
  BY DEF Queue!Unmarked, Queue!Free, Queue!Present, Queue!IsValid

\* The threshold is at least the history, so a covering cell is valid.
LEMMA CoverNotFree ==
    ASSUME TypeOK, NEW p \in QueueSlot, NEW a, NEW r \in RootSlot, Covers(p, a, r)
    PROVE  ~Queue!Free(p) /\ Queue!Present(a)
<1>1. StepsTo(r) \in 1 .. RootsCapacity
  BY StepsToRange DEF TypeOK
<1>2. queue[p].sequence_number > sequence_number
  BY <1>1, AddressTreeAssumption DEF Covers, TypeOK
<1> QED
  BY <1>2 DEF Covers, Queue!Free, Queue!Present, Queue!IsValid

\* Covered implies the property the runs check.
LEMMA CoveredIsEnough == IInv => StaleRootsCovered
  BY CoverNotFree DEF IInv, Covered, StaleRootsCovered

\* The cell of a new address is a cell, and unmarked.
LEMMA NewCellUnmarked ==
    ASSUME NEW a \in Address
    PROVE  /\ Queue!NewCell(a) \in Queue!Cell
           /\ Queue!NewCell(a) # None
           /\ Queue!NewCell(a).value = a
           /\ Queue!NewCell(a).sequence_number = None
<1>1. a \in Nat
  BY AddressTreeAssumption
<1>2. Queue!NewCell(a) \in [value : Nat, sequence_number : Nat \cup {None}]
  BY <1>1 DEF Queue!NewCell
<1> QED
  BY <1>2, AddressTreeAssumption DEF Queue!NewCell, Queue!Cell

-----------------------------------------------------------------------------
\* An address that is proved absent and not in the queue is new.
LEMMA AcceptedIsNew ==
    ASSUME IInv, NEW news \in SUBSET Address, ProofsVerify(news), NotQueued(news)
    PROVE  news \cap (inserted \cup Pending) = {}
<1> SUFFICES ASSUME NEW a \in news PROVE a \notin inserted /\ a \notin Pending
  OBVIOUS
<1>1. a \notin inserted
  BY CoveredIsEnough DEF ProofsVerify, NotQueued, StaleRootsCovered
<1>2. a \notin Pending
  BY UnmarkedNotFree DEF Pending, NotQueued
<1> QED
  BY <1>1, <1>2

\* What insert_addresses does to the cells.
LEMMA InsertedCells ==
    ASSUME TypeOK, NEW news \in SUBSET Address, InsertAddresses(news)
    PROVE  /\ queue' \in [QueueSlot -> Queue!Cell \cup {None}]
           /\ \A p \in QueueSlot : ~Queue!Free(p) => queue'[p] = queue[p]
           /\ \A p \in QueueSlot : queue'[p] = queue[p] \/
                \E a \in news : queue'[p] = Queue!NewCell(a)
           /\ \A a \in news : \E p \in QueueSlot : queue'[p] = Queue!NewCell(a)
           /\ \A p, q \in QueueSlot : \A a \in news :
                queue'[p] = Queue!NewCell(a) /\ queue'[q] = Queue!NewCell(a)
                  => p = q \/ queue[p] = Queue!NewCell(a) \/ queue[q] = Queue!NewCell(a)
<1>1. PICK slot \in [news -> QueueSlot] :
        /\ \A a, b \in news : slot[a] = slot[b] => a = b
        /\ \A a \in news : Queue!Free(slot[a])
        /\ queue' = [p \in QueueSlot |->
                        IF \E a \in news : slot[a] = p
                        THEN Queue!NewCell(CHOOSE a \in news : slot[a] = p)
                        ELSE queue[p]]
  BY DEF InsertAddresses
<1>2. \A p \in QueueSlot : \A a \in news :
        slot[a] = p => (CHOOSE b \in news : slot[b] = p) = a
  BY <1>1
<1>3. \A a \in news : queue'[slot[a]] = Queue!NewCell(a)
  BY <1>1, <1>2
<1>4. \A p \in QueueSlot : (\A a \in news : slot[a] # p) => queue'[p] = queue[p]
  BY <1>1
<1>5. queue' \in [QueueSlot -> Queue!Cell \cup {None}]
  <2>1. \A p \in QueueSlot : queue'[p] \in Queue!Cell \cup {None}
    BY <1>3, <1>4, NewCellUnmarked DEF TypeOK
  <2> QED
    BY <1>1, <2>1
<1>6. \A p \in QueueSlot : ~Queue!Free(p) => queue'[p] = queue[p]
  BY <1>1, <1>4
<1>7. \A p, q \in QueueSlot : \A a \in news :
        queue'[p] = Queue!NewCell(a) /\ queue'[q] = Queue!NewCell(a)
          => p = q \/ queue[p] = Queue!NewCell(a) \/ queue[q] = Queue!NewCell(a)
  <2> SUFFICES ASSUME NEW p \in QueueSlot, NEW q \in QueueSlot, NEW a \in news,
                      queue'[p] = Queue!NewCell(a), queue'[q] = Queue!NewCell(a),
                      queue[p] # Queue!NewCell(a), queue[q] # Queue!NewCell(a)
               PROVE  p = q
    OBVIOUS
  <2>1. \A b \in news : Queue!NewCell(b) = Queue!NewCell(a) => b = a
    BY DEF Queue!NewCell
  <2>2. slot[a] = p
    BY <1>3, <1>4, <2>1
  <2>3. slot[a] = q
    BY <1>3, <1>4, <2>1
  <2> QED
    BY <2>2, <2>3
<1> QED
  BY <1>3, <1>4, <1>5, <1>6, <1>7

\* Which cells are unmarked after the insertion of new addresses.
LEMMA UnmarkedAfterCreate ==
    ASSUME TypeOK, NEW news \in SUBSET Address, InsertAddresses(news)
    PROVE  /\ \A p \in QueueSlot : Queue!Unmarked(p) =>
                queue'[p] = queue[p] /\ Queue!Unmarked(p)'
           /\ \A p \in QueueSlot : Queue!Unmarked(p)' =>
                \/ queue'[p] = queue[p] /\ Queue!Unmarked(p)
                \/ \E a \in news : queue'[p] = Queue!NewCell(a)
           /\ Pending' = Pending \cup news
<1>1. \A p \in QueueSlot : Queue!Unmarked(p) => queue'[p] = queue[p] /\ Queue!Unmarked(p)'
  <2>1. \A p \in QueueSlot : Queue!Unmarked(p) => queue'[p] = queue[p]
    BY InsertedCells, UnmarkedNotFree
  <2> QED
    BY <2>1 DEF Queue!Unmarked
<1>2. \A p \in QueueSlot : Queue!Unmarked(p)' =>
        \/ queue'[p] = queue[p] /\ Queue!Unmarked(p)
        \/ \E a \in news : queue'[p] = Queue!NewCell(a)
  BY InsertedCells DEF Queue!Unmarked
<1>3. \A a \in news : \E p \in QueueSlot : Queue!Unmarked(p)' /\ queue'[p].value = a
  <2>1. \A a \in news : \E p \in QueueSlot : queue'[p] = Queue!NewCell(a)
    BY InsertedCells
  <2> QED
    BY <2>1, NewCellUnmarked DEF Queue!Unmarked
<1>4. ASSUME NEW a \in Pending' PROVE a \in Pending \cup news
  <2>1. PICK p \in QueueSlot : Queue!Unmarked(p)' /\ a = queue'[p].value
    BY <1>4 DEF Pending
  <2>2. CASE queue'[p] = queue[p] /\ Queue!Unmarked(p)
    BY <2>1, <2>2 DEF Pending
  <2>3. ASSUME NEW b \in news, queue'[p] = Queue!NewCell(b) PROVE a \in news
    BY <2>1, <2>3, NewCellUnmarked
  <2> QED
    BY <1>2, <2>1, <2>2, <2>3
<1>5. ASSUME NEW a \in Pending PROVE a \in Pending'
  <2>1. PICK p \in QueueSlot : Queue!Unmarked(p) /\ a = queue[p].value
    BY <1>5 DEF Pending
  <2> QED
    BY <2>1, <1>1 DEF Pending
<1>6. ASSUME NEW a \in news PROVE a \in Pending'
  BY <1>3, <1>6 DEF Pending
<1> QED
  BY <1>1, <1>2, <1>4, <1>5, <1>6

-----------------------------------------------------------------------------
\* The initial state.
LEMMA InitIInv == Init => IInv
<1> SUFFICES ASSUME Init PROVE IInv
  OBVIOUS
<1>1. TypeOK
  <2>1. root_index \in RootSlot
    BY SlotOfIsSlot DEF Init
  <2> QED
    BY <2>1 DEF Init, TypeOK, RootSlot
<1>2. Pending = {}
  BY DEF Init, Pending, Queue!Unmarked
<1>3. PendingProcessable
  BY <1>2 DEF Init, PendingProcessable, Queue!Unmarked
<1>4. Covered
  BY DEF Init, Covered
<1>5. CreationsCounted
  BY <1>2 DEF Init, CreationsCounted
<1> QED
  BY <1>1, <1>3, <1>4, <1>5 DEF IInv

\* A transaction keeps the invariant.
LEMMA CreateIInv ==
    ASSUME IInv, NEW news \in SUBSET Address, CreateAddresses(news)
    PROVE  IInv'
<1>1. /\ TypeOK /\ InsertAddresses(news) /\ ProofsVerify(news) /\ NotQueued(news)
      /\ UNCHANGED <<inserted, sequence_number, roots, root_index>>
  BY DEF IInv, CreateAddresses, InsertAddresses
<1>2. news \cap (inserted \cup Pending) = {}
  BY <1>1, AcceptedIsNew
<1>3. Pending' = Pending \cup news
  BY <1>1, UnmarkedAfterCreate
<1>4. TypeOK'
  <2>1. queue' \in [QueueSlot -> Queue!Cell \cup {None}]
    BY <1>1, InsertedCells
  <2>2. creations' \in [Address -> Nat]
    BY <1>1 DEF TypeOK, CreateAddresses
  <2> QED
    BY <1>1, <2>1, <2>2 DEF TypeOK, RootSlot, Queue!Cell
<1>5. PendingProcessable'
  <2>1. Pending' \cap inserted' = {}
    BY <1>1, <1>2, <1>3 DEF IInv, PendingProcessable
  <2>2. ASSUME NEW p \in QueueSlot, NEW q \in QueueSlot,
               Queue!Unmarked(p)', Queue!Unmarked(q)', queue'[p].value = queue'[q].value
        PROVE  p = q
    <3> DEFINE Old(x) == queue'[x] = queue[x] /\ Queue!Unmarked(x)
               Made(x) == \E a \in news : queue'[x] = Queue!NewCell(a)
    <3>1. (Old(p) \/ Made(p)) /\ (Old(q) \/ Made(q))
      BY <1>1, <2>2, UnmarkedAfterCreate
    <3>2. CASE Old(p) /\ Old(q)
      BY <2>2, <3>2 DEF IInv, PendingProcessable
    <3>3. ASSUME NEW x \in QueueSlot, NEW y \in QueueSlot, Old(x), Made(y),
                 queue'[x].value = queue'[y].value
          PROVE  FALSE
      <4>1. queue[x].value \in Pending
        BY <3>3 DEF Pending
      <4>2. queue'[y].value \in news
        BY <3>3, NewCellUnmarked
      <4> QED
        BY <1>2, <3>3, <4>1, <4>2
    <3>4. CASE ~Old(p) /\ ~Old(q) /\ Made(p) /\ Made(q)
      <4>1. PICK a \in news : queue'[p] = Queue!NewCell(a)
        BY <3>4
      <4>2. PICK b \in news : queue'[q] = Queue!NewCell(b)
        BY <3>4
      <4>3. a = b
        BY <2>2, <4>1, <4>2, NewCellUnmarked
      <4>4. ~(queue[p] = Queue!NewCell(a)) /\ ~(queue[q] = Queue!NewCell(a))
        BY <2>2, <3>4, <4>1, <4>2, <4>3 DEF Queue!Unmarked
      <4> QED
        BY <1>1, <4>1, <4>2, <4>3, <4>4, InsertedCells
    <3> QED
      BY <2>2, <3>1, <3>2, <3>3, <3>4
  <2> QED
    BY <2>1, <2>2 DEF PendingProcessable
<1>6. Covered'
  <2> SUFFICES ASSUME NEW r \in RootSlot, NEW a \in roots[r] \cap inserted
               PROVE  \E p \in QueueSlot : Covers(p, a, r)'
    BY <1>1 DEF Covered, RootSlot
  <2>1. PICK p \in QueueSlot : Covers(p, a, r)
    BY DEF IInv, Covered
  <2>2. queue'[p] = queue[p]
    BY <1>1, <2>1, InsertedCells, CoverNotFree
  <2>3. Covers(p, a, r)'
    BY <1>1, <2>1, <2>2 DEF Covers, StepsTo
  <2> QED
    BY <2>3
<1>7. CreationsCounted'
  <2> SUFFICES ASSUME NEW a \in Address
               PROVE  creations'[a] = IF a \in inserted' \cup Pending' THEN 1 ELSE 0
    BY DEF CreationsCounted
  <2>1. creations[a] = IF a \in inserted \cup Pending THEN 1 ELSE 0
    BY DEF IInv, CreationsCounted
  <2>2. creations'[a] = IF a \in news THEN creations[a] + 1 ELSE creations[a]
    BY DEF CreateAddresses
  <2> QED
    BY <1>1, <1>2, <1>3, <2>1, <2>2
<1> QED
  BY <1>4, <1>5, <1>6, <1>7 DEF IInv

\* What update_address_merkle_tree does to the cells.
LEMMA MarkedCell ==
    ASSUME TypeOK, NEW p \in QueueSlot, UpdateAddressMerkleTree(p)
    PROVE  /\ queue' \in [QueueSlot -> Queue!Cell \cup {None}]
           /\ \A q \in QueueSlot \ {p} : queue'[q] = queue[q]
           /\ queue[p].value \in Address
           /\ queue'[p] # None
           /\ queue'[p].value = queue[p].value
           /\ queue'[p].sequence_number \in Nat
           /\ queue'[p].sequence_number = sequence_number' + Threshold
<1>1. queue[p] \in Queue!Cell
  BY DEF TypeOK, UpdateAddressMerkleTree, Queue!Unmarked
<1>2. sequence_number' + Threshold \in Nat
  BY AddressTreeAssumption DEF TypeOK, UpdateAddressMerkleTree
<1>3. queue'[p] = [queue[p] EXCEPT !.sequence_number = sequence_number' + Threshold]
  BY DEF UpdateAddressMerkleTree, MarkedWith, TypeOK
<1>4. /\ queue'[p] \in Queue!Cell
      /\ queue'[p].value = queue[p].value
      /\ queue'[p].sequence_number = sequence_number' + Threshold
  BY <1>1, <1>2, <1>3 DEF Queue!Cell
<1>5. queue'[p] # None
  <2>1. queue'[p] \in [value : Nat, sequence_number : Nat \cup {None}]
    BY <1>4, AddressTreeAssumption DEF Queue!Cell
  <2> QED
    BY <2>1, AddressTreeAssumption
<1>6. \A q \in QueueSlot \ {p} : queue'[q] = queue[q]
  BY DEF UpdateAddressMerkleTree, TypeOK
<1>7. queue' \in [QueueSlot -> Queue!Cell \cup {None}]
  <2>1. \A q \in QueueSlot : queue'[q] \in Queue!Cell \cup {None}
    BY <1>4, <1>6 DEF TypeOK
  <2> QED
    BY <2>1 DEF UpdateAddressMerkleTree, TypeOK
<1>8. queue[p].value \in Address
  BY <1>1 DEF Queue!Cell
<1> QED
  BY <1>2, <1>4, <1>5, <1>6, <1>7, <1>8

\* The forester's step moves one address from the queue into the tree.
LEMMA UpdateMovesAddress ==
    ASSUME IInv, NEW p \in QueueSlot, UpdateAddressMerkleTree(p)
    PROVE  /\ \A q \in QueueSlot : Queue!Unmarked(q)' =>
                q # p /\ Queue!Unmarked(q) /\ queue'[q] = queue[q]
           /\ Pending' = Pending \ {queue[p].value}
           /\ queue[p].value \in Pending
<1>1. TypeOK /\ Queue!Unmarked(p)
  BY DEF IInv, UpdateAddressMerkleTree
<1>2. ~Queue!Unmarked(p)'
  BY <1>1, MarkedCell, AddressTreeAssumption DEF Queue!Unmarked
<1>3. \A q \in QueueSlot \ {p} :
        queue'[q] = queue[q] /\ (Queue!Unmarked(q)' <=> Queue!Unmarked(q))
  BY <1>1, MarkedCell DEF Queue!Unmarked
<1>4. \A q \in QueueSlot \ {p} : Queue!Unmarked(q) => queue[q].value # queue[p].value
  BY <1>1 DEF IInv, PendingProcessable
<1>5. Pending' = Pending \ {queue[p].value}
  BY <1>2, <1>3, <1>4 DEF Pending
<1>6. queue[p].value \in Pending
  BY <1>1 DEF Pending
<1> QED
  BY <1>2, <1>3, <1>5, <1>6

\* The forester's step keeps the invariant: the address it inserts is covered
\* by the cell it marks, for as long as a root in the history lacks it.
LEMMA UpdateIInv ==
    ASSUME IInv, NEW p \in QueueSlot, UpdateAddressMerkleTree(p)
    PROVE  IInv'
<1> DEFINE v == queue[p].value
<1>1. /\ TypeOK /\ PushRoots(v) /\ inserted' = inserted \cup {v}
      /\ sequence_number' = sequence_number + 2 /\ sequence_number \in Nat
      /\ creations' = creations
  BY DEF IInv, UpdateAddressMerkleTree, TypeOK
<1>2. v \in Address
  BY <1>1, MarkedCell
<1>3. v \in Pending /\ Pending' = Pending \ {v}
  BY UpdateMovesAddress
<1>4. /\ \A r \in RootSlot : \/ r = SlotOf(root_index + 2) /\ roots'[r] = AbsentAfter(v)
                             \/ r = SlotOf(root_index + 1) /\ roots'[r] = AbsentBetween(v)
                             \/ /\ r # SlotOf(root_index + 1) /\ r # SlotOf(root_index + 2)
                                /\ roots'[r] = roots[r]
      /\ root_index' = SlotOf(root_index + 2)
      /\ DOMAIN roots' = RootSlot
      /\ roots' = [r \in RootSlot |-> roots'[r]]
  BY <1>1 DEF PushRoots
<1>5. /\ AbsentAfter(v) \in SUBSET Address /\ AbsentAfter(v) \cap inserted' = {}
      /\ AbsentBetween(v) \in SUBSET AbsentAfter(v)
  BY <1>1 DEF AbsentAfter, AbsentBetween
<1>6. root_index \in Nat
  BY <1>1, AddressTreeAssumption DEF TypeOK, RootSlot
<1> HIDE DEF v
<1>7. TypeOK'
  <2>1. \A r \in RootSlot : roots'[r] \in SUBSET Address
    BY <1>1, <1>4, <1>5 DEF TypeOK
  <2>2. roots' \in [RootSlot -> SUBSET Address]
    BY <1>4, <2>1
  <2>3. root_index' \in RootSlot
    BY <1>4, <1>6, SlotOfIsSlot
  <2>4. queue' \in [QueueSlot -> Queue!Cell \cup {None}]
    BY <1>1, MarkedCell
  <2>5. inserted' \in SUBSET Address /\ sequence_number' \in Nat /\ creations' \in [Address -> Nat]
    BY <1>1, <1>2 DEF TypeOK
  <2> QED
    BY <2>2, <2>3, <2>4, <2>5 DEF TypeOK, RootSlot, Queue!Cell
<1>8. PendingProcessable'
  <2>1. Pending' \cap inserted' = {}
    BY <1>1, <1>3 DEF IInv, PendingProcessable
  <2>2. \A q, s \in QueueSlot :
          Queue!Unmarked(q)' /\ Queue!Unmarked(s)' /\ queue'[q].value = queue'[s].value
            => q = s
    BY UpdateMovesAddress DEF IInv, PendingProcessable
  <2> QED
    BY <2>1, <2>2 DEF PendingProcessable
<1>9. Covered'
  <2> SUFFICES ASSUME NEW r \in RootSlot, NEW a, a \in roots'[r], a \in inserted'
               PROVE  \E q \in QueueSlot : Covers(q, a, r)'
    BY DEF Covered, RootSlot
  <2>1. r # SlotOf(root_index + 1) /\ r # SlotOf(root_index + 2) /\ a \in roots[r]
    BY <1>4, <1>5
  <2>2. StepsTo(r)' = StepsTo(r) - 2 /\ StepsTo(r)' \in 1 .. RootsCapacity - 1
    BY <1>1, <1>4, <2>1, SurvivingSlot DEF TypeOK
  <2>3. StepsTo(r) \in Int /\ StepsTo(r)' \in Int
    BY <1>1, <2>2, StepsToRange, AddressTreeAssumption DEF TypeOK
  <2>4. CASE a = v
    <3>1. queue'[p].sequence_number
            >= sequence_number' + StepsTo(r)' - RootsCapacity + 1 + Threshold
      BY <1>1, <2>2, MarkedCell, AddressTreeAssumption
    <3>2. Covers(p, a, r)'
      BY <1>1, <2>4, <3>1, MarkedCell DEF Covers, v
    <3> QED
      BY <3>2
  <2>5. CASE a # v
    <3>1. PICK q \in QueueSlot : Covers(q, a, r)
      BY <1>1, <2>1, <2>5 DEF IInv, Covered
    <3>2. q # p
      BY <3>1, <2>5 DEF Covers, v
    <3>3. queue'[q] = queue[q]
      BY <1>1, <3>2, MarkedCell
    <3>4. sequence_number' + StepsTo(r)' - RootsCapacity + 1 + Threshold
            = sequence_number + StepsTo(r) - RootsCapacity + 1 + Threshold
      BY <1>1, <2>2, <2>3, AddressTreeAssumption
    <3>5. Covers(q, a, r)'
      BY <3>1, <3>3, <3>4 DEF Covers
    <3> QED
      BY <3>5
  <2> QED
    BY <2>4, <2>5
<1>10. CreationsCounted'
  <2>1. inserted' \cup Pending' = inserted \cup Pending
    BY <1>1, <1>3
  <2> QED
    BY <1>1, <2>1 DEF IInv, CreationsCounted
<1> QED
  BY <1>7, <1>8, <1>9, <1>10 DEF IInv

-----------------------------------------------------------------------------
\* The inductive invariant of the address tree and its queue.
THEOREM AddressTreeInvariant == Spec => []IInv
<1>1. Init => IInv
  BY InitIInv
<1>2. IInv /\ [Next]_vars => IInv'
  <2> SUFFICES ASSUME IInv, [Next]_vars PROVE IInv'
    OBVIOUS
  <2>1. ASSUME NEW news \in SUBSET Address, CreateAddresses(news) PROVE IInv'
    BY <2>1, CreateIInv
  <2>2. ASSUME NEW p \in QueueSlot, UpdateAddressMerkleTree(p) PROVE IInv'
    BY <2>2, UpdateIInv
  <2>3. CASE UNCHANGED vars
    BY <2>3 DEF vars, IInv, TypeOK, PendingProcessable, Pending, Covered, Covers, StepsTo,
                RootSlot, CreationsCounted, Queue!Unmarked, Queue!Cell
  <2> QED
    BY <2>1, <2>2, <2>3 DEF Next
<1> QED
  BY <1>1, <1>2, PTL DEF Spec

\* Types of the address tree and its queue.
THEOREM AddressTreeTypeOK == Spec => []TypeOK
<1>1. IInv => TypeOK
  BY DEF IInv
<1> QED
  BY <1>1, AddressTreeInvariant, PTL

\* Whatever the sizes, an address of the tree that a root of the history still
\* proves absent is refused by the address queue.
THEOREM AddressTreeStaleRootsCovered == Spec => []StaleRootsCovered
  BY CoveredIsEnough, AddressTreeInvariant, PTL

\* Every address in the queue can be inserted by the forester.
THEOREM AddressTreePendingProcessable == Spec => []PendingProcessable
<1>1. IInv => PendingProcessable
  BY DEF IInv
<1> QED
  BY <1>1, AddressTreeInvariant, PTL

\* The protocol's promise: no address is ever created twice.
THEOREM AddressTreeCreateOnce == Spec => CreateOnce
<1>1. Init => CreatedAddresses!Init
  BY DEF Init, CreatedAddresses!Init
<1>2. IInv /\ [Next]_vars => [CreatedAddresses!Create]_creations
  <2> SUFFICES ASSUME IInv, [Next]_vars
               PROVE  CreatedAddresses!Create \/ UNCHANGED creations
    OBVIOUS
  <2>1. ASSUME NEW news \in SUBSET Address, CreateAddresses(news)
        PROVE  CreatedAddresses!Create
    <3>1. news \cap (inserted \cup Pending) = {}
      BY <2>1, AcceptedIsNew DEF CreateAddresses, InsertAddresses
    <3>2. news \in SUBSET {a \in Address : creations[a] = 0}
      BY <3>1 DEF IInv, CreationsCounted
    <3> QED
      BY <2>1, <3>2 DEF CreateAddresses, CreatedAddresses!Create
  <2>2. ASSUME NEW p \in QueueSlot, UpdateAddressMerkleTree(p) PROVE UNCHANGED creations
    BY <2>2 DEF UpdateAddressMerkleTree
  <2>3. CASE UNCHANGED vars
    BY <2>3 DEF vars
  <2> QED
    BY <2>1, <2>2, <2>3 DEF Next
<1> QED
  BY <1>1, <1>2, AddressTreeInvariant, PTL DEF Spec, CreateOnce, CreatedAddresses!Spec

-----------------------------------------------------------------------------
\* The marks of the queue.  Every insertion advances the tree by two and marks
\* one cell, so that the marks are different and an even distance away from
\* the newest mark there can be.
Marked(p) == queue[p] # None /\ queue[p].sequence_number # None

MarksSpaced ==
    /\ \A p \in QueueSlot : Marked(p) =>
        \E k \in Nat : queue[p].sequence_number + 2 * k = sequence_number + Threshold
    /\ \A p, q \in QueueSlot :
        Marked(p) /\ Marked(q) /\ queue[p].sequence_number = queue[q].sequence_number => p = q

\* Marks that are still valid have one of the (Threshold + 1) \div 2 distances
\* that are left, so no more cells than that can be valid and marked.
LEMMA SpacedIsEnough ==
    ASSUME TypeOK, MarksSpaced
    PROVE  QueueNeverJams
<1> DEFINE K == (Threshold + 1) \div 2
<1>1. SUFFICES ASSUME Pending = {}, \A p \in QueueSlot : ~Queue!Free(p)
               PROVE  ~(2 * Cardinality(QueueSlot) > Threshold + 1)
  BY DEF QueueNeverJams
<1>2. /\ Threshold \in Nat /\ K \in Nat /\ 2 * K <= Threshold + 1
      /\ \A k \in Nat : 2 * k < Threshold => k \in 0 .. K - 1
  BY AddressTreeAssumption
<1> HIDE DEF K
<1>3. ASSUME NEW p \in QueueSlot
      PROVE  \E k \in 0 .. K - 1 :
                queue[p].sequence_number + 2 * k = sequence_number + Threshold
  <2>1. Marked(p)
    BY <1>1 DEF Marked, Pending, Queue!Unmarked, Queue!Free
  <2>2. PICK k \in Nat : queue[p].sequence_number + 2 * k = sequence_number + Threshold
    BY <2>1 DEF MarksSpaced
  <2>3. queue[p].sequence_number > sequence_number /\ queue[p].sequence_number \in Nat
    BY <1>1, <2>1 DEF Marked, Queue!Free, Queue!IsValid, TypeOK, Queue!Cell
  <2>4. 2 * k < Threshold
    BY <1>2, <2>2, <2>3 DEF TypeOK
  <2> QED
    BY <1>2, <2>2, <2>4
<1> DEFINE f == [p \in QueueSlot |-> CHOOSE k \in 0 .. K - 1 :
                    queue[p].sequence_number + 2 * k = sequence_number + Threshold]
<1>4. \A p \in QueueSlot :
        /\ f[p] \in 0 .. K - 1
        /\ queue[p].sequence_number + 2 * f[p] = sequence_number + Threshold
  BY <1>3
<1>5. f \in [QueueSlot -> 0 .. K - 1]
  BY <1>4
<1> HIDE DEF f
<1>6. ASSUME NEW p \in QueueSlot, NEW q \in QueueSlot, f[p] = f[q] PROVE p = q
  <2>1. Marked(p) /\ Marked(q)
    BY <1>1 DEF Marked, Pending, Queue!Unmarked, Queue!Free
  <2>2. queue[p].sequence_number \in Nat /\ queue[q].sequence_number \in Nat
    BY <2>1 DEF Marked, TypeOK, Queue!Cell
  <2>3. queue[p].sequence_number = queue[q].sequence_number
    BY <1>2, <1>4, <1>6, <2>2 DEF TypeOK
  <2> QED
    BY <2>1, <2>3 DEF MarksSpaced
<1>7. f \in Injection(QueueSlot, 0 .. K - 1)
  BY <1>5, <1>6 DEF Injection, IsInjective
<1>8. IsFiniteSet(0 .. K - 1) /\ Cardinality(0 .. K - 1) = K
  <2>1. 0 \in Int /\ K - 1 \in Int /\ (0 > K - 1 => K = 0) /\ (K - 1) - 0 + 1 = K
    BY <1>2
  <2> QED
    BY <2>1, FS_Interval
<1>9. IsFiniteSet(QueueSlot) /\ Cardinality(QueueSlot) <= K
  BY <1>7, <1>8, FS_Injection
<1>10. Cardinality(QueueSlot) \in Nat
  BY <1>9, FS_CardinalityType
<1> QED
  BY <1>2, <1>9, <1>10

\* A transaction takes free cells, and marks none.
LEMMA CreateSpaced ==
    ASSUME TypeOK, MarksSpaced, NEW news \in SUBSET Address, CreateAddresses(news)
    PROVE  MarksSpaced'
<1>1. InsertAddresses(news) /\ sequence_number' = sequence_number
  BY DEF CreateAddresses
<1>2. \A p \in QueueSlot : Marked(p)' => Marked(p) /\ queue'[p] = queue[p]
  <2>1. \A p \in QueueSlot : queue'[p] = queue[p] \/
            \E a \in news : queue'[p] = Queue!NewCell(a)
    BY <1>1, InsertedCells
  <2>2. \A a \in news : Queue!NewCell(a).sequence_number = None
    BY NewCellUnmarked
  <2> QED
    BY <2>1, <2>2 DEF Marked
<1> QED
  BY <1>1, <1>2 DEF MarksSpaced

\* The forester's mark is ahead of all others, and these fall back by two.
LEMMA UpdateSpaced ==
    ASSUME TypeOK, MarksSpaced, NEW p \in QueueSlot, UpdateAddressMerkleTree(p)
    PROVE  MarksSpaced'
<1>1. /\ sequence_number' = sequence_number + 2 /\ sequence_number \in Nat
      /\ Threshold \in Nat
  BY AddressTreeAssumption DEF UpdateAddressMerkleTree, TypeOK
<1>2. /\ \A q \in QueueSlot \ {p} : queue'[q] = queue[q]
      /\ queue'[p].sequence_number = sequence_number' + Threshold
  BY MarkedCell
<1>3. ASSUME NEW q \in QueueSlot \ {p}, Marked(q)'
      PROVE  /\ Marked(q) /\ queue'[q].sequence_number \in Nat
             /\ queue'[q].sequence_number < sequence_number' + Threshold
             /\ \E k \in Nat :
                    queue'[q].sequence_number + 2 * k = sequence_number' + Threshold
  <2>1. Marked(q) /\ queue'[q] = queue[q]
    BY <1>2, <1>3 DEF Marked
  <2>2. queue[q].sequence_number \in Nat
    BY <2>1 DEF Marked, TypeOK, Queue!Cell
  <2>3. PICK k \in Nat : queue[q].sequence_number + 2 * k = sequence_number + Threshold
    BY <2>1 DEF MarksSpaced
  <2>4. k + 1 \in Nat /\ queue[q].sequence_number + 2 * (k + 1) = sequence_number' + Threshold
    BY <1>1, <2>2, <2>3
  <2>5. queue[q].sequence_number < sequence_number' + Threshold
    BY <1>1, <2>2, <2>3
  <2> QED
    BY <2>1, <2>2, <2>4, <2>5
<1>4. ASSUME NEW q \in QueueSlot, Marked(q)'
      PROVE  \E k \in Nat : queue'[q].sequence_number + 2 * k = sequence_number' + Threshold
  <2>1. CASE q = p
    <3>1. 0 \in Nat /\ queue'[p].sequence_number + 2 * 0 = sequence_number' + Threshold
      BY <1>1, <1>2
    <3> QED
      BY <2>1, <3>1
  <2> QED
    BY <1>3, <1>4, <2>1
<1>5. ASSUME NEW q \in QueueSlot, NEW r \in QueueSlot, Marked(q)', Marked(r)',
             queue'[q].sequence_number = queue'[r].sequence_number
      PROVE  q = r
  <2>1. CASE q # p /\ r # p
    BY <1>2, <1>3, <1>5, <2>1 DEF MarksSpaced
  <2>2. CASE q = p /\ r # p
    BY <1>1, <1>2, <1>3, <1>5, <2>2
  <2>3. CASE q # p /\ r = p
    BY <1>1, <1>2, <1>3, <1>5, <2>3
  <2> QED
    BY <2>1, <2>2, <2>3
<1> QED
  BY <1>4, <1>5 DEF MarksSpaced

\* A queue with more than half of sequence_threshold in cells never fills up
\* with marked cells: as long as nothing waits for the forester, there is room.
THEOREM AddressTreeQueueNeverJams == Spec => []QueueNeverJams
<1>1. Init => MarksSpaced
  BY DEF Init, MarksSpaced, Marked
<1>2. TypeOK /\ MarksSpaced /\ [Next]_vars => MarksSpaced'
  <2> SUFFICES ASSUME TypeOK, MarksSpaced, [Next]_vars PROVE MarksSpaced'
    OBVIOUS
  <2>1. CASE UNCHANGED vars
    BY <2>1 DEF vars, MarksSpaced, Marked
  <2> QED
    BY <2>1, CreateSpaced, UpdateSpaced DEF Next
<1>3. TypeOK /\ MarksSpaced => QueueNeverJams
  BY SpacedIsEnough
<1> QED
  BY <1>1, <1>2, <1>3, AddressTreeTypeOK, PTL DEF Spec
=============================================================================
