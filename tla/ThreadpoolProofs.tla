--------------------------- MODULE ThreadpoolProofs ---------------------------
(***************************************************************************)
(* Facts about the ring and the workers of the thread pool (Threadpool)    *)
(* that the proofs about PoolLifecycle and BompParallel share.             *)
(***************************************************************************)
EXTENDS Threadpool, FiniteSetTheorems, TLAPS

-----------------------------------------------------------------------------
(* Lemmas about the ring's arithmetic and about counting workers.          *)

(* The i-th oldest entry, without the division.                            *)
LEMMA SlotIs ==
  ASSUME NEW h \in 0 .. QueueSize - 1, NEW i \in 0 .. QueueSize
  PROVE  /\ (h + i) % QueueSize
              = IF h + i < QueueSize THEN h + i ELSE h + i - QueueSize
         /\ (h + i) % QueueSize \in 0 .. QueueSize - 1
  <1>1. CASE h + i < QueueSize
    BY <1>1, QueueSizeAssumption
  <1>2. CASE h + i >= QueueSize
    BY <1>2, QueueSizeAssumption
  <1> QED
    BY <1>1, <1>2, QueueSizeAssumption

(* Entries of different age are different entries.                         *)
LEMMA SlotsDiffer ==
  ASSUME NEW h \in 0 .. QueueSize - 1,
         NEW i \in 0 .. QueueSize - 1, NEW j \in 0 .. QueueSize - 1, i # j
  PROVE  (h + i) % QueueSize # (h + j) % QueueSize
  <1>1. /\ (h + i) % QueueSize
             = IF h + i < QueueSize THEN h + i ELSE h + i - QueueSize
        /\ (h + j) % QueueSize
             = IF h + j < QueueSize THEN h + j ELSE h + j - QueueSize
    BY SlotIs, QueueSizeAssumption
  <1> QED
    BY <1>1, QueueSizeAssumption

(* Moving head on by one makes every entry one place younger.              *)
LEMMA SlotShift ==
  ASSUME NEW h \in 0 .. QueueSize - 1, NEW i \in 0 .. QueueSize - 1
  PROVE  (((h + 1) % QueueSize) + i) % QueueSize = (h + (i + 1)) % QueueSize
  <1> DEFINE g == (h + 1) % QueueSize
  <1>1. /\ g = IF h + 1 < QueueSize THEN h + 1 ELSE h + 1 - QueueSize
        /\ g \in 0 .. QueueSize - 1
    BY SlotIs, QueueSizeAssumption
  <1> HIDE DEF g
  <1> i \in 0 .. QueueSize
    BY QueueSizeAssumption
  <1>2. (g + i) % QueueSize
          = IF g + i < QueueSize THEN g + i ELSE g + i - QueueSize
    BY <1>1, SlotIs, QueueSizeAssumption
  <1>3. PICK k \in 0 .. QueueSize : k = i + 1
    BY QueueSizeAssumption
  <1>4. (h + k) % QueueSize
          = IF h + k < QueueSize THEN h + k ELSE h + k - QueueSize
    BY SlotIs
  <1>5. (g + i) % QueueSize = (h + (i + 1)) % QueueSize
    BY <1>1, <1>2, <1>3, <1>4, QueueSizeAssumption
  <1> QED
    BY <1>5 DEF g

(* There are finitely many workers.                                        *)
LEMMA WorkerCount ==
  /\ Cardinality(Workers) \in Nat
  /\ \A S \in SUBSET Workers :
       /\ IsFiniteSet(S)
       /\ Cardinality(S) \in Nat
       /\ Cardinality(S) = 0 <=> S = {}
  BY WorkersAssumption, FS_Subset, FS_CardinalityType, FS_EmptySet

(* started goes up by one with a new worker, and down with one that exits. *)
LEMMA CountWorker ==
  ASSUME NEW S \in SUBSET Workers, NEW w \in Workers
  PROVE  /\ w \notin S => Cardinality(S \cup {w}) = Cardinality(S) + 1
         /\ w \in S => Cardinality(S \ {w}) = Cardinality(S) - 1
  BY WorkerCount, FS_AddElement, FS_RemoveElement

(* A table of handles is a sequence of handles.                            *)
LEMMA HandleTable ==
  ASSUME NEW n \in Nat, NEW th \in [1 .. n -> Workers \cup {None}]
  PROVE  th \in Seq(Workers \cup {None})
  OBVIOUS

(* Moving tail on by one.                                                  *)
LEMMA TailShift ==
  ASSUME NEW h \in 0 .. QueueSize - 1, NEW c \in 0 .. QueueSize - 1
  PROVE  (((h + c) % QueueSize) + 1) % QueueSize = (h + (c + 1)) % QueueSize
  <1> DEFINE g == (h + c) % QueueSize
  <1>1. /\ g = IF h + c < QueueSize THEN h + c ELSE h + c - QueueSize
        /\ g \in 0 .. QueueSize - 1
    BY SlotIs, QueueSizeAssumption
  <1> HIDE DEF g
  <1> 1 \in 0 .. QueueSize
    BY QueueSizeAssumption
  <1>2. (g + 1) % QueueSize
          = IF g + 1 < QueueSize THEN g + 1 ELSE g + 1 - QueueSize
    BY <1>1, SlotIs, QueueSizeAssumption
  <1>3. PICK k \in 0 .. QueueSize : k = c + 1
    BY QueueSizeAssumption
  <1>4. (h + k) % QueueSize
          = IF h + k < QueueSize THEN h + k ELSE h + k - QueueSize
    BY SlotIs
  <1>5. (g + 1) % QueueSize = (h + (c + 1)) % QueueSize
    BY <1>1, <1>2, <1>3, <1>4, QueueSizeAssumption
  <1> QED
    BY <1>5 DEF g

(* What the proofs below use of Slot: its range, that it tells the entries *)
(* apart, and that tail is the slot after the last entry.                  *)
LEMMA SlotFacts ==
  ASSUME PoolTypeOK
  PROVE  /\ \A i \in 1 .. QueueSize : Slot(head, i) \in 0 .. QueueSize - 1
         /\ \A i, j \in 1 .. QueueSize : Slot(head, i) = Slot(head, j) => i = j
         /\ Slot(head, 1) = head
         /\ RingShape /\ count < QueueSize => tail = Slot(head, count + 1)
  <1> USE QueueSizeAssumption DEF PoolTypeOK
  <1>1. ASSUME NEW i \in 1 .. QueueSize
        PROVE  i - 1 \in 0 .. QueueSize - 1 /\ Slot(head, i) = (head + (i - 1)) % QueueSize
    BY DEF Slot
  <1>2. ASSUME NEW i \in 1 .. QueueSize
        PROVE  Slot(head, i) \in 0 .. QueueSize - 1
    <2> PICK k \in 0 .. QueueSize : k = i - 1
      OBVIOUS
    <2> QED
      BY <1>1, SlotIs
  <1>3. ASSUME NEW i \in 1 .. QueueSize, NEW j \in 1 .. QueueSize, Slot(head, i) = Slot(head, j)
        PROVE  i = j
    <2> PICK k \in 0 .. QueueSize - 1 : k = i - 1
      OBVIOUS
    <2> PICK l \in 0 .. QueueSize - 1 : l = j - 1
      OBVIOUS
    <2>1. Slot(head, i) = (head + k) % QueueSize /\ Slot(head, j) = (head + l) % QueueSize
      BY <1>1
    <2>2. k = l
      BY <1>3, <2>1, SlotsDiffer
    <2> QED
      BY <2>2
  <1>4. Slot(head, 1) = head
    BY DEF Slot
  <1>5. RingShape /\ count < QueueSize => tail = Slot(head, count + 1)
    BY DEF RingShape, Slot
  <1> QED
    BY <1>2, <1>3, <1>4, <1>5

-----------------------------------------------------------------------------
(* What adding and taking a task do to the ring                            *)

(* The ring after an accepted add: the old entries stay where they are,    *)
(* the new task is the youngest.                                           *)
LEMMA EnqueueRing ==
  ASSUME PoolTypeOK, RingShape, NEW t \in Tasks, Enqueue(t), count < QueueSize
  PROVE  /\ count' = count + 1 /\ count' \in 1 .. QueueSize
         /\ \A i \in 1 .. count : queue'[Slot(head, i)] = queue[Slot(head, i)]
         /\ queue'[Slot(head, count + 1)] = t
         /\ tail' = (head' + count') % QueueSize
         /\ tail' \in 0 .. QueueSize - 1
         /\ queue' \in [0 .. QueueSize - 1 -> Tasks \cup {None}]
  <1> USE QueueSizeAssumption DEF PoolTypeOK, Enqueue
  <1>1. count' = count + 1 /\ count' \in 1 .. QueueSize
    OBVIOUS
  <1>3. tail = Slot(head, count + 1) /\ count + 1 \in 1 .. QueueSize
    BY SlotFacts
  <1>4. ASSUME NEW i \in 1 .. count
        PROVE  queue'[Slot(head, i)] = queue[Slot(head, i)]
    <2>1. i \in 1 .. QueueSize /\ i # count + 1
      OBVIOUS
    <2>2. Slot(head, i) \in 0 .. QueueSize - 1 /\ Slot(head, i) # tail
      BY <1>3, <2>1, SlotFacts
    <2> QED
      BY <2>2
  <1>5. queue'[Slot(head, count + 1)] = t
    BY <1>3
  <1>6. tail' = (head + (count + 1)) % QueueSize
    <2>1. count \in 0 .. QueueSize - 1 /\ head \in 0 .. QueueSize - 1
      OBVIOUS
    <2>2. tail = (head + count) % QueueSize /\ tail' = (tail + 1) % QueueSize
      BY DEF RingShape
    <2> QED
      BY <2>1, <2>2, TailShift
  <1>7. tail' \in 0 .. QueueSize - 1
    OBVIOUS
  <1> QED
    BY <1>1, <1>4, <1>5, <1>6, <1>7

(* The ring after a worker took the oldest task: the others move up.       *)
LEMMA TakeRing ==
  ASSUME PoolTypeOK, RingShape, NEW w \in Workers, TakeTask(w)
  PROVE  /\ count \in 1 .. QueueSize /\ count' = count - 1
         /\ Slot(head, 1) = head /\ 1 \in 1 .. count
         /\ head' \in 0 .. QueueSize - 1
         /\ queue' = queue
         /\ \A i \in 1 .. count' : i + 1 \in 1 .. count
                                  /\ Slot(head', i) = Slot(head, i + 1)
         /\ tail' = (head' + count') % QueueSize
  <1> USE QueueSizeAssumption DEF PoolTypeOK, TakeTask
  <1>1. count \in 1 .. QueueSize /\ count' = count - 1
    OBVIOUS
  <1>2. Slot(head, 1) = head /\ 1 \in 1 .. count
    BY SlotFacts
  <1>3. head' = (head + 1) % QueueSize /\ head' \in 0 .. QueueSize - 1
    OBVIOUS
  <1>4. ASSUME NEW i \in 1 .. count'
        PROVE  i + 1 \in 1 .. count /\ Slot(head', i) = Slot(head, i + 1)
    <2>1. PICK k \in 0 .. QueueSize - 1 : i = k + 1
      <3>1. i - 1 \in 0 .. QueueSize - 1 /\ i = (i - 1) + 1
        OBVIOUS
      <3> QED
        BY <3>1
    <2>2. Slot(head', i) = (head' + k) % QueueSize
      BY <1>3, <2>1 DEF Slot
    <2>3. Slot(head, i + 1) = (head + (k + 1)) % QueueSize
      BY <2>1 DEF Slot
    <2>4. (head' + k) % QueueSize = (head + (k + 1)) % QueueSize
      BY <1>3, SlotShift
    <2> QED
      BY <1>1, <2>2, <2>3, <2>4
  <1>5. tail' = (head' + count') % QueueSize
    <2>1. PICK c \in 0 .. QueueSize - 1 : count = c + 1 /\ count' = c
      <3>1. count' \in 0 .. QueueSize - 1 /\ count = count' + 1
        OBVIOUS
      <3> QED
        BY <3>1
    <2>2. tail' = (head + (c + 1)) % QueueSize
      BY <2>1 DEF RingShape
    <2>3. (head' + c) % QueueSize = (head + (c + 1)) % QueueSize
      BY <1>3, SlotShift
    <2> QED
      BY <2>1, <2>2, <2>3
  <1> QED
    BY <1>1, <1>2, <1>3, <1>4, <1>5
=============================================================================
