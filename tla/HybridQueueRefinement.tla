----------------------- MODULE HybridQueueRefinement -----------------------
(***************************************************************************)
(* The hybrid queue implements the life cycle of its messages, for every   *)
(* word size, block size and number of messages.                           *)
(***************************************************************************)
EXTENDS HybridQueueProofs

----------------------------------------------------------------------------
(* What comes before x in the order R. *)
Before(S, R, x) == {y \in S : <<y, x>> \in R}

(***************************************************************************)
(* In a finite set with a strict total order, as many elements have fewer  *)
(* than k elements before them as the set has, up to k.                    *)
(***************************************************************************)
LEMMA FirstOnes ==
    ASSUME NEW S, IsFiniteSet(S), NEW R, NEW k \in Nat,
           \A x \in S : <<x, x>> \notin R,
           \A x, y \in S : x # y => <<x, y>> \in R \/ <<y, x>> \in R,
           \A x, y, z \in S : <<x, y>> \in R /\ <<y, z>> \in R => <<x, z>> \in R
    PROVE  Cardinality({x \in S : Cardinality(Before(S, R, x)) < k})
               = AtMost(Cardinality(S), k)
<1> DEFINE n == Cardinality(S)
           rank == [x \in S |-> Cardinality(Before(S, R, x))]
           first == {x \in S : Cardinality(Before(S, R, x)) < k}
           m == AtMost(n, k)
<1>1. n \in Nat /\ m \in Nat /\ m <= n /\ m <= k
  BY FS_CardinalityType DEF AtMost
<1>2. \A x \in S : /\ Before(S, R, x) \in SUBSET S /\ x \notin Before(S, R, x)
                   /\ IsFiniteSet(Before(S, R, x))
  BY FS_Subset DEF Before
<1>3. \A x \in S : Cardinality(Before(S, R, x)) \in 0 .. n - 1
  <2> TAKE x \in S
  <2>1. /\ Cardinality(Before(S, R, x)) \in Nat
        /\ Cardinality(Before(S, R, x)) <= n
        /\ Cardinality(Before(S, R, x)) # n
    BY <1>2, FS_Subset, FS_CardinalityType
  <2>2. QED
    BY <1>1, <2>1
<1>4. ASSUME NEW x \in S, NEW y \in S, <<x, y>> \in R
      PROVE  Cardinality(Before(S, R, x)) # Cardinality(Before(S, R, y))
  <2>1. Before(S, R, x) \in SUBSET Before(S, R, y) /\ x \in Before(S, R, y)
    BY <1>4 DEF Before
  <2>2. QED
    BY <1>2, <2>1, FS_Subset
<1>5. \A x, y \in S : Cardinality(Before(S, R, x)) = Cardinality(Before(S, R, y)) => x = y
  BY <1>4
<1>6. rank \in Injection(S, 0 .. n - 1)
  BY <1>3, <1>5 DEF Injection, IsInjective
<1>7. IsFiniteSet(0 .. n - 1) /\ Cardinality(0 .. n - 1) = n
  <2>1. 0 \in Int /\ n - 1 \in Int /\ (IF 0 > n - 1 THEN 0 ELSE n - 1 - 0 + 1) = n
    BY <1>1
  <2>2. QED
    BY <2>1, FS_Interval
<1>8. rank \in Surjection(S, 0 .. n - 1)
  <2> HIDE DEF rank
  <2>1. QED
    BY <1>6, <1>7, FS_Injection
<1>9. \A i \in 0 .. n - 1 : \E x \in S : Cardinality(Before(S, R, x)) = i
  BY <1>8 DEF Surjection
<1>10. [x \in first |-> Cardinality(Before(S, R, x))] \in Bijection(first, 0 .. m - 1)
  <2> DEFINE f == [x \in first |-> Cardinality(Before(S, R, x))]
  <2>1. \A x \in first : Cardinality(Before(S, R, x)) \in 0 .. m - 1
    BY <1>1, <1>3 DEF AtMost
  <2>2. \A i \in 0 .. m - 1 : \E x \in first : Cardinality(Before(S, R, x)) = i
    <3> TAKE i \in 0 .. m - 1
    <3>1. i \in 0 .. n - 1 /\ i < k
      BY <1>1
    <3>2. PICK x \in S : Cardinality(Before(S, R, x)) = i
      BY <1>9, <3>1
    <3>3. QED
      BY <3>1, <3>2
  <2>3. \A x, y \in first : Cardinality(Before(S, R, x)) = Cardinality(Before(S, R, y)) => x = y
    BY <1>5
  <2> HIDE DEF first, m
  <2>4. f \in Injection(first, 0 .. m - 1)
    BY <2>1, <2>3 DEF Injection, IsInjective
  <2>5. f \in Surjection(first, 0 .. m - 1)
    BY <2>1, <2>2 DEF Surjection
  <2>6. QED
    BY <2>4, <2>5 DEF Bijection
<1>11. IsFiniteSet(first)
  BY FS_Subset
<1>12. Cardinality(first) = Cardinality(0 .. m - 1)
  <2> HIDE DEF first, m
  <2>1. ExistsBijection(first, 0 .. m - 1)
    BY <1>10 DEF ExistsBijection
  <2>2. QED
    BY <1>11, <2>1, FS_Bijection
<1>13. Cardinality(0 .. m - 1) = m
  <2> HIDE DEF m
  <2>1. QED
    BY <1>1, FS_Interval
<1>14. QED
  BY <1>12, <1>13

(***************************************************************************)
(* deliver_sparse_masks hands out all that is sparse and ready, up to max: *)
(* every such message is in a flagged word of a listed block, and the list *)
(* orders the messages.                                                    *)
(***************************************************************************)
LEMMA SparseCount ==
    ASSUME NEW q \in Queues, NEW max \in Nat,
           IsFiniteSet(q.sparse_ready),
           q.sparse_word_mask = WordsOf(q.sparse_ready),
           ListsExactly(q.sparse_blocks, BlocksOf(q.sparse_ready))
    PROVE  Cardinality(SparseTake(q, max)) = AtMost(Cardinality(q.sparse_ready), max)
<1> DEFINE ready == q.sparse_ready
           list == q.sparse_blocks
           pos(s) == PositionIn(list, BlockOf(s))
           R == {p \in ready \X ready : ServedBefore(q, p[1], p[2])}
<1>1. list \in Seq(Nat) /\ Len(list) \in Nat /\ DOMAIN list = 1 .. Len(list)
      /\ ready \in SUBSET Nat
  BY DEF Queues
<1>2. SparseVisible(q) = ready
  BY DEF SparseVisible, ListsExactly, BlocksOf, WordsOf
<1>3. \A s \in ready : pos(s) \in Nat
  <2> TAKE s \in ready
  <2>1. BlockOf(s) \in Listed(list)
    BY DEF ListsExactly, BlocksOf
  <2>2. \E i \in DOMAIN list : list[i] = BlockOf(s)
    <3> HIDE DEF list
    <3>1. QED
      BY <2>1 DEF Listed
  <2>3. pos(s) \in DOMAIN list
    BY <2>2 DEF PositionIn
  <2>4. QED
    BY <1>1, <2>3
<1>4. \A s, t \in ready :
          <<s, t>> \in R <=> pos(s) < pos(t) \/ (pos(s) = pos(t) /\ s < t)
  BY DEF ServedBefore
<1>5. \A s \in ready : s \in Nat
  BY <1>1
<1> HIDE DEF R, pos
<1>6. /\ \A x \in ready : <<x, x>> \notin R
      /\ \A x, y \in ready : x # y => <<x, y>> \in R \/ <<y, x>> \in R
  BY <1>3, <1>4, <1>5
<1>7. \A x, y, z \in ready : <<x, y>> \in R /\ <<y, z>> \in R => <<x, z>> \in R
  BY <1>3, <1>4, <1>5
<1>8. \A x \in ready : Before(ready, R, x) = {t \in SparseVisible(q) : ServedBefore(q, t, x)}
  BY <1>2 DEF Before, R
<1>9. SparseTake(q, max) = {x \in ready : Cardinality(Before(ready, R, x)) < max}
  BY <1>2, <1>8 DEF SparseTake
<1> HIDE DEF ready
<1>10. IsFiniteSet(ready)
  BY DEF ready
<1>11. Cardinality({x \in ready : Cardinality(Before(ready, R, x)) < max})
           = AtMost(Cardinality(ready), max)
  BY <1>6, <1>7, <1>10, FirstOnes
<1>12. QED
  BY <1>9, <1>11 DEF ready

----------------------------------------------------------------------------
(* An interval has as many elements as it is long. *)
LEMMA IntervalSize ==
    ASSUME NEW a \in Nat, NEW n \in Nat
    PROVE  IsFiniteSet(a .. a + n - 1) /\ Cardinality(a .. a + n - 1) = n
<1>1. a \in Int /\ a + n - 1 \in Int
      /\ (IF a > a + n - 1 THEN 0 ELSE (a + n - 1) - a + 1) = n
  OBVIOUS
<1>2. QED
  BY <1>1, FS_Interval

(* The size of two sets that have nothing in common. *)
LEMMA DisjointSize ==
    ASSUME NEW S, IsFiniteSet(S), NEW T, IsFiniteSet(T), S \cap T = {}
    PROVE  /\ IsFiniteSet(S \cup T)
           /\ Cardinality(S \cup T) = Cardinality(S) + Cardinality(T)
<1>1. Cardinality(S \cap T) = 0
  BY FS_EmptySet
<1>2. Cardinality(S) \in Nat /\ Cardinality(T) \in Nat
  BY FS_CardinalityType
<1>3. IsFiniteSet(S \cup T) /\ Cardinality(S \cup T) = Cardinality(S) + Cardinality(T) - 0
  BY <1>1, FS_Union
<1>4. QED
  BY <1>2, <1>3

(* QueueLifecycle counts as this module does. *)
LEMMA SameCardinality ==
    \A S : Lifecycle!Cardinality(S) = Cardinality(S)
BY DEF Lifecycle!Cardinality, Cardinality

(* The messages that Lifecycle calls ready. *)
Ready(q) == SequentialReady(q) \cup q.sparse_ready

(* Lifecycle counts what was published; publish_contiguous appends to it. *)
LEMMA PublishStep ==
    ASSUME IInv, NEW count \in 0 .. MaxSeq, Publish(count)
    PROVE  [Lifecycle!Next]_Lifecycle!vars
<1> DEFINE head == queue.sequential_head
           tail == queue.next_seq
<1>1. /\ queue \in Queues /\ head \in Nat /\ tail \in Nat /\ head <= tail
      /\ queue.sequential_tail = tail /\ Delivered(queue) = 0 .. head - 1
      /\ count \in Nat
  BY Fields, MaxSeqAssumption DEF IInv, Conservation
<1>2. CASE count = 0
  <2>1. queue' = queue
    BY <1>2 DEF Publish, publish_contiguous
  <2>2. QED
    BY <2>1 DEF Lifecycle!vars, SequentialReady
<1>3. CASE count # 0
  <2>1. queue' = [queue EXCEPT !.next_seq = tail + count, !.sequential_tail = tail + count]
    BY <1>3 DEF Publish, publish_contiguous
  <2>2. /\ queue'.sequential_head = head /\ queue'.sequential_tail = tail + count
        /\ queue'.inflight = queue.inflight /\ queue'.acked = queue.acked
        /\ queue'.retry = queue.retry /\ queue'.sparse_ready = queue.sparse_ready
    BY <1>1, <2>1 DEF Queues
  <2>3. Lifecycle!published = tail
    <3>1. Ready(queue) \cup queue.inflight \cup queue.retry \cup queue.acked = 0 .. tail - 1
      <4>1. (head .. tail - 1) \cup (0 .. head - 1) = 0 .. tail - 1
        BY <1>1
      <4>2. QED
        BY <1>1, <4>1 DEF Ready, SequentialReady, Delivered
    <3>2. 0 + tail = tail
      BY <1>1
    <3>3. Cardinality(0 .. tail - 1) = tail
      BY <1>1, <3>2, IntervalSize
    <3>4. QED
      BY <3>1, <3>3, SameCardinality DEF Lifecycle!published, Ready
  <2>4. Ready(queue)' = Ready(queue) \cup (tail .. tail + count - 1)
    <3>1. head .. tail + count - 1 = (head .. tail - 1) \cup (tail .. tail + count - 1)
      BY <1>1
    <3>2. SequentialReady(queue)' = head .. tail + count - 1 /\ SequentialReady(queue) = head .. tail - 1
      BY <1>1, <2>2 DEF SequentialReady
    <3>3. QED
      BY <2>2, <3>1, <3>2 DEF Ready
  <2>5. count \in 1 .. MaxSeq
    BY <1>1, <1>3
  <2>6. Lifecycle!Publish
    BY <2>2, <2>3, <2>4, <2>5 DEF Lifecycle!Publish, Ready
  <2>7. QED
    BY <2>6 DEF Lifecycle!Next
<1>4. QED
  BY <1>2, <1>3

(* deliver hands out all that is ready, up to max. *)
LEMMA DeliverStep ==
    ASSUME IInv, NEW max \in 0 .. MaxSeq, Deliver(max)
    PROVE  [Lifecycle!Next]_Lifecycle!vars
<1> DEFINE n == SequentialCount(queue, max)
           head == queue.sequential_head
           tail == queue.sequential_tail
           range == head .. head + n - 1
           sparse == SparseTake(queue, max - n)
           handed == range \cup sparse
<1>1. /\ queue \in Queues /\ head \in Nat /\ tail \in Nat /\ head <= tail
      /\ max \in Nat /\ IsFiniteSet(queue.sparse_ready) /\ queue.sparse_ready \in SUBSET Nat
      /\ Delivered(queue) = 0 .. head - 1
  BY Fields, MaxSeqAssumption DEF IInv, Conservation
<1>2. n \in Nat /\ n = AtMost(tail - head, max) /\ max - n \in Nat /\ head + n <= tail
  BY <1>1 DEF SequentialCount, AtMost
<1>3. sparse \in SUBSET queue.sparse_ready
  BY DEF SparseTake, SparseVisible
<1>4. Cardinality(sparse) = AtMost(Cardinality(queue.sparse_ready), max - n)
  <2> HIDE DEF n
  <2>1. /\ queue.sparse_word_mask = WordsOf(queue.sparse_ready)
        /\ ListsExactly(queue.sparse_blocks, BlocksOf(queue.sparse_ready))
    BY DEF IInv, ValidateInvariants, validate_invariants
  <2>2. QED
    BY <1>1, <1>2, <2>1, SparseCount
<1>5. /\ queue'.sequential_head = head + n /\ queue'.sequential_tail = tail
      /\ queue'.inflight = queue.inflight \cup range \cup sparse
      /\ queue'.sparse_ready = queue.sparse_ready \ sparse
      /\ queue'.acked = queue.acked /\ queue'.retry = queue.retry
  BY <1>1 DEF Deliver, deliver, SequentialTake, Queues
<1> HIDE DEF n, sparse
<1>6. queue.sparse_ready \cap (head .. tail - 1) = {}
  <2>1. queue.sparse_ready \subseteq 0 .. head - 1
    BY <1>1 DEF Delivered
  <2>2. (0 .. head - 1) \cap (head .. tail - 1) = {}
    BY <1>1
  <2>3. QED
    BY <2>1, <2>2
<1>7. SequentialReady(queue) = head .. tail - 1 /\ range \subseteq head .. tail - 1
  BY <1>1, <1>2 DEF SequentialReady
<1>8. Ready(queue)' = Ready(queue) \ handed
  <2>1. (head .. tail - 1) \ range = head + n .. tail - 1
    BY <1>1, <1>2
  <2>2. SequentialReady(queue)' = head + n .. tail - 1
    BY <1>5 DEF SequentialReady
  <2> HIDE DEF range
  <2>3. QED
    BY <1>3, <1>5, <1>6, <1>7, <2>1, <2>2 DEF Ready
<1>9. handed \in SUBSET Ready(queue)
  BY <1>3, <1>7 DEF Ready
<1>10. Cardinality(Ready(queue)) = tail - head + Cardinality(queue.sparse_ready)
  <2> DEFINE d == tail - head
  <2>1. d \in Nat /\ head .. tail - 1 = head .. head + d - 1
    BY <1>1
  <2> HIDE DEF head, tail, d
  <2>2. IsFiniteSet(head .. tail - 1) /\ Cardinality(head .. tail - 1) = d
    BY <1>1, <2>1, IntervalSize
  <2>3. Cardinality((head .. tail - 1) \cup queue.sparse_ready)
            = Cardinality(head .. tail - 1) + Cardinality(queue.sparse_ready)
    BY <1>1, <1>6, <2>2, DisjointSize
  <2>4. QED
    BY <1>7, <2>2, <2>3 DEF Ready, d
<1>11. IsFiniteSet(handed) /\ Cardinality(handed) = n + Cardinality(sparse)
  <2>1. IsFiniteSet(range) /\ Cardinality(range) = n
    <3> HIDE DEF head
    <3>1. QED
      BY <1>1, <1>2, IntervalSize
  <2>2. IsFiniteSet(sparse)
    BY <1>1, <1>3, FS_Subset
  <2>3. range \cap sparse = {}
    BY <1>3, <1>6, <1>7
  <2> HIDE DEF range
  <2>4. QED
    BY <2>1, <2>2, <2>3, DisjointSize
<1>12. Cardinality(queue.sparse_ready) \in Nat
  BY <1>1, FS_CardinalityType
<1>13. Cardinality(handed) = AtMost(Cardinality(Ready(queue)), max)
  <2> HIDE DEF handed
  <2>1. QED
    BY <1>1, <1>2, <1>4, <1>10, <1>11, <1>12 DEF AtMost
<1> HIDE DEF range
<1>14. queue'.inflight = queue.inflight \cup handed
  BY <1>5
<1> HIDE DEF handed
<1>15. CASE max = 0
  <2>1. handed = {}
    BY <1>1, <1>10, <1>11, <1>12, <1>13, <1>15, FS_EmptySet DEF AtMost
  <2>2. QED
    BY <1>5, <1>8, <1>14, <2>1 DEF Lifecycle!vars, Ready
<1>16. CASE max # 0
  <2>1. max \in 1 .. MaxSeq
    BY <1>1, <1>16
  <2>2. Lifecycle!Deliver
    <3>1. Lifecycle!Cardinality(handed)
              = IF Lifecycle!Cardinality(Ready(queue)) <= max
                THEN Lifecycle!Cardinality(Ready(queue)) ELSE max
      BY <1>13, SameCardinality DEF AtMost
    <3>2. UNCHANGED <<queue.retry, queue.acked>>
      BY <1>5
    <3>3. QED
      BY <1>8, <1>9, <1>14, <2>1, <3>1, <3>2 DEF Lifecycle!Deliver, Ready
  <2>3. QED
    BY <2>2 DEF Lifecycle!Next
<1>17. QED
  BY <1>15, <1>16

(* Settling messages in flight. *)
LEMMA AckStep ==
    ASSUME IInv, NEW S \in SUBSET queue.inflight, queue' = AckBits(queue, S)
    PROVE  [Lifecycle!Next]_Lifecycle!vars
<1>1. /\ queue'.sequential_head = queue.sequential_head
      /\ queue'.sequential_tail = queue.sequential_tail
      /\ queue'.sparse_ready = queue.sparse_ready /\ queue'.retry = queue.retry
      /\ queue'.inflight = queue.inflight \ S /\ queue'.acked = queue.acked \cup S
  BY Fields DEF AckBits, Queues
<1>2. Lifecycle!Ack
  BY <1>1 DEF Lifecycle!Ack, SequentialReady
<1>3. QED
  BY <1>2 DEF Lifecycle!Next

(* Parking messages in flight for retry. *)
LEMMA NackStep ==
    ASSUME IInv, NEW S \in SUBSET queue.inflight, NEW blocks,
           queue' = RetryBits(queue, S, blocks)
    PROVE  [Lifecycle!Next]_Lifecycle!vars
<1>1. /\ queue'.sequential_head = queue.sequential_head
      /\ queue'.sequential_tail = queue.sequential_tail
      /\ queue'.sparse_ready = queue.sparse_ready /\ queue'.acked = queue.acked
      /\ queue'.inflight = queue.inflight \ S /\ queue'.retry = queue.retry \cup S
  BY Fields DEF RetryBits, Queues
<1>2. Lifecycle!Nack
  BY <1>1 DEF Lifecycle!Nack, SequentialReady
<1>3. QED
  BY <1>2 DEF Lifecycle!Next

(* Every parked message is in a listed block, so that all become ready. *)
LEMMA RetryStep ==
    ASSUME IInv, RetryAllNow
    PROVE  [Lifecycle!Next]_Lifecycle!vars
<1> DEFINE moved == {s \in queue.retry : BlockOf(s) \in Listed(queue.retry_blocks)}
<1>1. moved = queue.retry
  BY DEF IInv, ValidateInvariants, validate_invariants, ListsExactly, BlocksOf
<1>2. /\ queue'.sequential_head = queue.sequential_head
      /\ queue'.sequential_tail = queue.sequential_tail
      /\ queue'.inflight = queue.inflight /\ queue'.acked = queue.acked
      /\ queue'.sparse_ready = queue.sparse_ready \cup moved
      /\ queue'.retry = queue.retry \ moved
  BY Fields DEF RetryAllNow, retry_all_now, Queues
<1>3. Lifecycle!Retry
  BY <1>1, <1>2 DEF Lifecycle!Retry, SequentialReady
<1>4. QED
  BY <1>3 DEF Lifecycle!Next

Step == [Lifecycle!Next]_Lifecycle!vars

(* Every call is a step of the life cycle, or changes nothing of it. *)
LEMMA NextStep ==
    ASSUME IInv, [Next]_queue
    PROVE  Step
<1>0. queue' = queue => Step
  BY DEF Step, Lifecycle!vars, SequentialReady
<1>1. ASSUME NEW count \in 0 .. MaxSeq, Publish(count) PROVE Step
  BY <1>1, PublishStep DEF Step
<1>2. ASSUME NEW max \in 0 .. MaxSeq, Deliver(max) PROVE Step
  BY <1>2, DeliverStep DEF Step
<1>3. ASSUME NEW S \in SUBSET queue.inflight, queue' = AckBits(queue, S) PROVE Step
  BY <1>3, AckStep DEF Step
<1>4. ASSUME NEW S \in SUBSET queue.inflight, NEW blocks, queue' = RetryBits(queue, S, blocks)
      PROVE  Step
  BY <1>4, NackStep DEF Step
<1>5. ASSUME NEW start \in 0 .. MaxSeq, NEW len \in 0 .. MaxSeq, AckRange(start, len)
      PROVE  Step
  BY <1>3, <1>5 DEF AckRange, ack_range
<1>6. ASSUME NEW bits \in Masks, AckMask(bits) PROVE Step
  BY <1>3, <1>6 DEF AckMask, ack_mask
<1>7. ASSUME NEW seq \in 0 .. MaxSeq, AckId(seq) PROVE Step
  BY <1>0, <1>3, <1>7 DEF AckId, ack_id
<1>8. ASSUME NEW start \in 0 .. MaxSeq, NEW len \in 0 .. MaxSeq, NackRange(start, len)
      PROVE  Step
  BY <1>0, <1>4, <1>8 DEF NackRange, nack_range_to_retry
<1>9. ASSUME NEW bits \in Masks, NackMask(bits) PROVE Step
  BY <1>4, <1>9 DEF NackMask, nack_mask_to_retry
<1>10. CASE RetryAllNow
  BY <1>10, RetryStep DEF Step
<1>11. QED
  BY <1>0, <1>1, <1>2, <1>5, <1>6, <1>7, <1>8, <1>9, <1>10 DEF Next

(***************************************************************************)
(* The queue implements QueueLifecycle: whatever calls are made in         *)
(* whatever order, a message goes from ready to in flight, from there to   *)
(* acked for good or to retry, and back to ready; and a delivery hands out *)
(* all that is ready, up to max, though it only looks at listed blocks and *)
(* flagged words.                                                          *)
(***************************************************************************)
THEOREM QueueImplementsLifecycle == Spec => ImplementsLifecycle
<1>1. Init => Lifecycle!Init
  BY DEF Init, empty, Lifecycle!Init, SequentialReady
<1>2. IInv /\ [Next]_queue => [Lifecycle!Next]_Lifecycle!vars
  BY NextStep DEF Step
<1>3. QED
  BY <1>1, <1>2, IInvHolds, PTL DEF Spec, ImplementsLifecycle, Lifecycle!Spec
============================================================================
