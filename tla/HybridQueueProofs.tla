------------------------- MODULE HybridQueueProofs -------------------------
(***************************************************************************)
(* The invariants of HybridQueue hold for every word size, block size and  *)
(* number of messages.                                                     *)
(*                                                                         *)
(* None of them is inductive alone.  Conservation needs that delivery only *)
(* takes what is ready; ValidateInvariants needs Conservation, because the *)
(* bitsets must be finite for "fewer than max messages are served first"   *)
(* to be a number and because settled messages must be new to the bitset   *)
(* they enter; RedeliveryIsFlagged needs Conservation to know that what is *)
(* retried was delivered.  Their conjunction is inductive.                 *)
(***************************************************************************)
EXTENDS HybridQueueLemmas

IInv == TypeOK /\ ValidateInvariants /\ Conservation /\ RedeliveryIsFlagged

(* The types of the fields, and the finiteness of the bitsets. *)
LEMMA Fields ==
    ASSUME IInv
    PROVE  /\ queue \in Queues
           /\ queue.next_seq \in Nat
           /\ queue.sequential_head \in Nat
           /\ queue.sequential_tail \in Nat
           /\ queue.inflight \in SUBSET Nat
           /\ queue.acked \in SUBSET Nat
           /\ queue.retry \in SUBSET Nat
           /\ queue.sparse_ready \in SUBSET Nat
           /\ queue.redelivered \in SUBSET Nat
           /\ queue.retry_blocks \in Seq(Nat)
           /\ queue.sparse_blocks \in Seq(Nat)
           /\ IsFiniteSet(queue.sparse_ready)
<1>1. queue \in Queues
  BY DEF IInv, TypeOK
<1>2. queue.sequential_head \in Nat
  BY <1>1 DEF Queues
<1>3. queue.sparse_ready \in SUBSET (0 .. queue.sequential_head - 1)
  BY DEF IInv, Conservation, Delivered
<1>4. IsFiniteSet(0 .. queue.sequential_head - 1)
  BY <1>2, FS_Interval
<1>5. IsFiniteSet(queue.sparse_ready)
  BY <1>3, <1>4, FS_Subset
<1> QED
  BY <1>1, <1>5 DEF Queues

(* The words of a set of messages are numbers, and a union's are the union. *)
LEMMA WordsBlocks ==
    ASSUME NEW S \in SUBSET Nat, NEW T \in SUBSET Nat
    PROVE  /\ WordsOf(S) \in SUBSET Nat
           /\ WordsOf(S \cup T) = WordsOf(S) \cup WordsOf(T)
           /\ BlocksOf(S \cup T) = BlocksOf(S) \cup BlocksOf(T)
BY Location DEF WordsOf, BlocksOf

LEMMA InitIInv == Init => IInv
<1> SUFFICES ASSUME Init PROVE IInv
  OBVIOUS
<1>1. queue \in Queues
  BY DEF Init, empty, Queues
<1>2. TypeOK
  BY <1>1, MaxSeqAssumption DEF TypeOK, Init, empty
<1>3. WordsOf({}) = {} /\ BlocksOf({}) = {}
  BY DEF WordsOf, BlocksOf
<1>4. ValidateInvariants
  <2>1. /\ queue.next_seq = 0
        /\ queue.sequential_head = 0
        /\ queue.sequential_tail = 0
        /\ queue.inflight = {}
        /\ queue.acked = {}
        /\ queue.retry = {}
        /\ queue.sparse_ready = {}
        /\ queue.retry_word_mask = {}
        /\ queue.sparse_word_mask = {}
        /\ queue.retry_blocks = <<>>
        /\ queue.sparse_blocks = <<>>
    BY DEF Init, empty
  <2>2. /\ ListsExactly(queue.retry_blocks, BlocksOf(queue.retry))
        /\ ListsExactly(queue.sparse_blocks, BlocksOf(queue.sparse_ready))
    BY <1>3, <2>1 DEF ListsExactly, Listed
  <2> QED
    BY <1>3, <2>1, <2>2 DEF ValidateInvariants, validate_invariants
<1>5. Conservation /\ RedeliveryIsFlagged
  BY DEF Conservation, Delivered, RedeliveryIsFlagged, Init, empty
<1> QED
  BY <1>2, <1>4, <1>5 DEF IInv

(* Publishing only moves the tail. *)
LEMMA PublishIInv ==
    ASSUME IInv, NEW count \in 0 .. MaxSeq, Publish(count)
    PROVE  IInv'
<1> USE Fields
<1>1. CASE count = 0
  <2>1. queue' = queue
    BY <1>1 DEF Publish, publish_contiguous
  <2> QED
    BY <2>1 DEF IInv, TypeOK, ValidateInvariants, validate_invariants, Conservation, Delivered,
                RedeliveryIsFlagged
<1>2. CASE count # 0
  <2>1. queue' = [queue EXCEPT !.next_seq = queue.next_seq + count,
                               !.sequential_tail = queue.next_seq + count]
    BY <1>2 DEF Publish, publish_contiguous
  <2>2. count \in Nat /\ queue.next_seq + count <= MaxSeq
    BY MaxSeqAssumption DEF Publish
  <2>3. /\ queue'.next_seq = queue.next_seq + count
        /\ queue'.sequential_tail = queue.next_seq + count
        /\ queue'.sequential_head = queue.sequential_head
        /\ queue'.inflight = queue.inflight
        /\ queue'.acked = queue.acked
        /\ queue'.retry = queue.retry
        /\ queue'.sparse_ready = queue.sparse_ready
        /\ queue'.redelivered = queue.redelivered
        /\ queue'.retry_word_mask = queue.retry_word_mask
        /\ queue'.sparse_word_mask = queue.sparse_word_mask
        /\ queue'.retry_blocks = queue.retry_blocks
        /\ queue'.sparse_blocks = queue.sparse_blocks
    BY <2>1 DEF Queues
  <2>4. TypeOK'
    <3>1. queue.next_seq + count \in Nat
      BY <2>2
    <3>2. queue' \in Queues
      BY <2>1, <3>1 DEF Queues
    <3> QED
      BY <2>2, <2>3, <3>2 DEF TypeOK
  <2>5. queue.sequential_head <= queue.next_seq + count
    BY <2>2 DEF IInv, Conservation
  <2>6. ValidateInvariants'
    BY <2>2, <2>3, <2>5 DEF IInv, ValidateInvariants, validate_invariants
  <2>7. Conservation' /\ RedeliveryIsFlagged'
    BY <2>3, <2>5 DEF IInv, Conservation, Delivered, RedeliveryIsFlagged
  <2> QED
    BY <2>4, <2>6, <2>7 DEF IInv
<1> QED
  BY <1>1, <1>2

(***************************************************************************)
(* Delivery moves messages from the sequential range and from the sparse   *)
(* bitsets to inflight; SparseDelivery says that the list of sparse blocks *)
(* stays exact.                                                            *)
(***************************************************************************)
LEMMA DeliverIInv ==
    ASSUME IInv, NEW max \in 0 .. MaxSeq, Deliver(max)
    PROVE  IInv'
<1> DEFINE n    == SequentialCount(queue, max)
           head == queue.sequential_head
           range == head .. head + n - 1
           sparse == SparseTake(queue, max - n)
           left == queue.sparse_ready \ sparse
           list == DropServedBlocks(queue.sparse_blocks, BlocksOf(left))
<1>1. max \in Nat
  BY MaxSeqAssumption
<1>2. n \in Nat /\ head + n <= queue.sequential_tail /\ max - n \in Int
  BY <1>1, Fields DEF SequentialCount, AtMost, IInv, Conservation
<1>3. sparse \in SUBSET queue.sparse_ready
  BY DEF SparseTake, SparseVisible
<1>4. list \in Seq(Nat) /\ ListsExactly(list, BlocksOf(left))
  <2> HIDE DEF n
  <2>1. /\ queue.sparse_word_mask = WordsOf(queue.sparse_ready)
        /\ ListsExactly(queue.sparse_blocks, BlocksOf(queue.sparse_ready))
    BY DEF IInv, ValidateInvariants, validate_invariants
  <2> QED
    BY <1>2, <2>1, Fields, SparseDelivery
<1>5. queue' = [queue EXCEPT
                  !.sequential_head = head + n,
                  !.inflight = queue.inflight \cup range \cup sparse,
                  !.sparse_ready = left,
                  !.sparse_word_mask =
                      queue.sparse_word_mask \ (WordsOf(sparse) \ WordsOf(left)),
                  !.sparse_blocks = list]
  BY Fields DEF Deliver, deliver, SequentialTake, Queues
<1> HIDE DEF n, sparse, list
<1>6. queue.sparse_word_mask \ (WordsOf(sparse) \ WordsOf(left)) = WordsOf(left)
  <2>1. queue.sparse_word_mask = WordsOf(queue.sparse_ready)
    BY DEF IInv, ValidateInvariants, validate_invariants
  <2> QED
    BY <2>1, <1>3 DEF WordsOf
<1>7. /\ left \in SUBSET queue.sparse_ready
      /\ left \in SUBSET Nat
      /\ sparse \in SUBSET Nat
      /\ range \in SUBSET Nat
      /\ WordsOf(left) \in SUBSET Nat
  <2>1. range \in SUBSET Nat
    BY <1>2, Fields
  <2>2. left \in SUBSET queue.sparse_ready /\ left \in SUBSET Nat /\ sparse \in SUBSET Nat
    BY <1>3, Fields
  <2>3. WordsOf(left) \in SUBSET Nat
    <3> HIDE DEF left
    <3> QED
      BY <2>2, WordsBlocks
  <2> QED
    BY <2>1, <2>2, <2>3
<1>8. queue' = [queue EXCEPT
                  !.sequential_head = head + n,
                  !.inflight = queue.inflight \cup range \cup sparse,
                  !.sparse_ready = left,
                  !.sparse_word_mask = WordsOf(left),
                  !.sparse_blocks = list]
  BY <1>5, <1>6
<1>9. /\ queue'.next_seq = queue.next_seq
      /\ queue'.sequential_tail = queue.sequential_tail
      /\ queue'.sequential_head = head + n
      /\ queue'.inflight = queue.inflight \cup range \cup sparse
      /\ queue'.acked = queue.acked
      /\ queue'.retry = queue.retry
      /\ queue'.sparse_ready = left
      /\ queue'.redelivered = queue.redelivered
      /\ queue'.retry_word_mask = queue.retry_word_mask
      /\ queue'.sparse_word_mask = WordsOf(left)
      /\ queue'.retry_blocks = queue.retry_blocks
      /\ queue'.sparse_blocks = list
  BY <1>8, Fields DEF Queues
<1>10. TypeOK'
  <2>1. head + n \in Nat /\ queue.inflight \cup range \cup sparse \in SUBSET Nat
    <3>1. head + n \in Nat
      BY <1>2, Fields
    <3> HIDE DEF range
    <3> QED
      BY <3>1, <1>7, Fields
  <2>2. queue' \in Queues
    <3> HIDE DEF left, head, range
    <3> QED
      BY <1>4, <1>7, <1>8, <2>1, Fields DEF Queues
  <2> QED
    BY <2>2, <1>9 DEF IInv, TypeOK
<1>11. /\ queue.inflight \cap range = {}
       /\ queue.acked \cap range = {}
       /\ queue.retry \cap range = {}
       /\ queue.sparse_ready \cap range = {}
  <2>1. Delivered(queue) = 0 .. head - 1
    BY DEF IInv, Conservation
  <2>2. (0 .. head - 1) \cap range = {}
    BY Fields, <1>2
  <2> QED
    BY <2>1, <2>2 DEF Delivered
<1>12. /\ queue'.inflight \cap queue'.acked = {}
       /\ queue'.inflight \cap queue'.retry = {}
       /\ queue'.inflight \cap queue'.sparse_ready = {}
       /\ queue'.acked \cap queue'.retry = {}
       /\ queue'.acked \cap queue'.sparse_ready = {}
       /\ queue'.retry \cap queue'.sparse_ready = {}
  <2>1. /\ queue.inflight \cap queue.acked = {}
        /\ queue.inflight \cap queue.retry = {}
        /\ queue.inflight \cap queue.sparse_ready = {}
        /\ queue.acked \cap queue.retry = {}
        /\ queue.acked \cap queue.sparse_ready = {}
        /\ queue.retry \cap queue.sparse_ready = {}
    BY DEF IInv, Conservation
  <2> HIDE DEF range
  <2> QED
    BY <2>1, <1>3, <1>9, <1>11
<1>13. ValidateInvariants'
  <2>1. queue'.sequential_head <= queue'.sequential_tail /\ queue'.sequential_tail <= queue'.next_seq
    BY <1>2, <1>9 DEF IInv, ValidateInvariants, validate_invariants
  <2>2. /\ queue'.retry_word_mask = WordsOf(queue'.retry)
        /\ ListsExactly(queue'.retry_blocks, BlocksOf(queue'.retry))
    BY <1>9 DEF IInv, ValidateInvariants, validate_invariants
  <2>3. /\ queue'.sparse_word_mask = WordsOf(queue'.sparse_ready)
        /\ ListsExactly(queue'.sparse_blocks, BlocksOf(queue'.sparse_ready))
    BY <1>4, <1>9
  <2> QED
    BY <2>1, <2>2, <2>3, <1>12 DEF ValidateInvariants, validate_invariants
<1>14. Conservation'
  <2>1. Delivered(queue') = Delivered(queue) \cup range
    BY <1>3, <1>9 DEF Delivered
  <2>2. Delivered(queue) = 0 .. head - 1
    BY DEF IInv, Conservation
  <2>3. (0 .. head - 1) \cup range = 0 .. head + n - 1
    BY Fields, <1>2
  <2>4. Delivered(queue') = 0 .. queue'.sequential_head - 1
    <3>1. Delivered(queue') = 0 .. head + n - 1
      BY <2>1, <2>2, <2>3
    <3>2. queue'.sequential_head = head + n
      BY <1>9
    <3>3. head \in Nat /\ n \in Nat
      BY <1>2, Fields
    <3> HIDE DEF head
    <3> QED
      BY <3>1, <3>2, <3>3
  <2>5. queue'.sequential_head <= queue'.sequential_tail /\ queue'.sequential_tail = queue'.next_seq
    BY <1>2, <1>9 DEF IInv, Conservation
  <2> QED
    BY <2>4, <2>5, <1>12 DEF Conservation
<1>15. RedeliveryIsFlagged'
  <2>1. queue.redelivered \subseteq 0 .. head + n - 1
    BY <1>2, Fields DEF IInv, RedeliveryIsFlagged
  <2>2. queue.sparse_ready \subseteq queue.redelivered
    BY DEF IInv, RedeliveryIsFlagged
  <2>3. queue'.sparse_ready \subseteq queue'.redelivered
    BY <2>2, <1>7, <1>9
  <2>4. queue'.redelivered = queue.redelivered /\ queue'.sequential_head = head + n
    BY <1>9
  <2>5. queue'.redelivered \subseteq 0 .. queue'.sequential_head - 1
    <3>1. head \in Nat /\ n \in Nat
      BY <1>2, Fields
    <3> HIDE DEF head
    <3> QED
      BY <2>1, <2>4, <3>1
  <2> QED
    BY <2>3, <2>5 DEF RedeliveryIsFlagged
<1> QED
  BY <1>10, <1>13, <1>14, <1>15 DEF IInv

(* Settling messages in flight moves them to acked. *)
LEMMA AckIInv ==
    ASSUME IInv, NEW S \in SUBSET queue.inflight, queue' = AckBits(queue, S)
    PROVE  IInv'
<1>1. queue' = [queue EXCEPT !.inflight = queue.inflight \ S,
                             !.acked = queue.acked \cup S]
  BY Fields DEF AckBits, Queues
<1>2. /\ queue'.next_seq = queue.next_seq
      /\ queue'.sequential_tail = queue.sequential_tail
      /\ queue'.sequential_head = queue.sequential_head
      /\ queue'.inflight = queue.inflight \ S
      /\ queue'.acked = queue.acked \cup S
      /\ queue'.retry = queue.retry
      /\ queue'.sparse_ready = queue.sparse_ready
      /\ queue'.redelivered = queue.redelivered
      /\ queue'.retry_word_mask = queue.retry_word_mask
      /\ queue'.sparse_word_mask = queue.sparse_word_mask
      /\ queue'.retry_blocks = queue.retry_blocks
      /\ queue'.sparse_blocks = queue.sparse_blocks
  BY <1>1, Fields DEF Queues
<1>3. TypeOK'
  <2>1. queue.inflight \ S \in SUBSET Nat /\ queue.acked \cup S \in SUBSET Nat
    BY Fields
  <2>2. queue' \in Queues
    BY <1>1, <2>1, Fields DEF Queues
  <2> QED
    BY <2>2, <1>2 DEF IInv, TypeOK
<1>4. /\ queue'.inflight \cap queue'.acked = {}
      /\ queue'.inflight \cap queue'.retry = {}
      /\ queue'.inflight \cap queue'.sparse_ready = {}
      /\ queue'.acked \cap queue'.retry = {}
      /\ queue'.acked \cap queue'.sparse_ready = {}
      /\ queue'.retry \cap queue'.sparse_ready = {}
  BY <1>2 DEF IInv, Conservation
<1>5. ValidateInvariants'
  BY <1>2, <1>4 DEF IInv, ValidateInvariants, validate_invariants
<1>6. Delivered(queue') = Delivered(queue)
  BY <1>2 DEF Delivered
<1>7. Conservation'
  BY <1>2, <1>4, <1>6 DEF IInv, Conservation
<1>8. RedeliveryIsFlagged'
  BY <1>2 DEF IInv, RedeliveryIsFlagged
<1> QED
  BY <1>3, <1>5, <1>7, <1>8 DEF IInv

(* Replacing the fields that negative settlement writes keeps the types. *)
LEMMA RetryFields ==
    ASSUME NEW q \in Queues, NEW inflight \in SUBSET Nat, NEW retry \in SUBSET Nat,
           NEW words \in SUBSET Nat, NEW list \in Seq(Nat)
    PROVE  [q EXCEPT !.inflight = inflight, !.retry = retry,
                     !.retry_word_mask = words, !.retry_blocks = list] \in Queues
BY Zenon DEF Queues

(* Negative settlement moves messages in flight to retry; their blocks are *)
(* listed unless they were.                                                *)
LEMMA RetryIInv ==
    ASSUME IInv, NEW S \in SUBSET queue.inflight,
           NEW blocks \in Seq(Nat), ListsExactly(blocks, BlocksOf(S)),
           queue' = RetryBits(queue, S, blocks)
    PROVE  IInv'
<1> DEFINE list == ListUnlisted(queue.retry_blocks, blocks)
<1>0. S \in SUBSET Nat
  BY Fields
<1>1. /\ list \in Seq(Nat)
      /\ ListsExactly(list, BlocksOf(queue.retry \cup S))
  <2>1. ListsExactly(queue.retry_blocks, BlocksOf(queue.retry))
    BY DEF IInv, ValidateInvariants, validate_invariants
  <2>2. /\ list \in Seq(Nat)
        /\ ListsExactly(list, BlocksOf(queue.retry) \cup BlocksOf(S))
    BY <2>1, Fields, ListUnlistedLemma
  <2>3. BlocksOf(queue.retry \cup S) = BlocksOf(queue.retry) \cup BlocksOf(S)
    BY <1>0, Fields, WordsBlocks
  <2> QED
    BY <2>2, <2>3
<1>2. /\ queue.retry_word_mask \cup WordsOf(S) = WordsOf(queue.retry \cup S)
      /\ WordsOf(queue.retry \cup S) \in SUBSET Nat
  <2>1. queue.retry \cup S \in SUBSET Nat
    BY <1>0, Fields
  <2>2. WordsOf(queue.retry \cup S) = WordsOf(queue.retry) \cup WordsOf(S)
    BY <1>0, Fields, WordsBlocks
  <2> QED
    BY <2>1, <2>2, WordsBlocks DEF IInv, ValidateInvariants, validate_invariants
<1>3. queue' = [queue EXCEPT !.inflight = queue.inflight \ S,
                             !.retry = queue.retry \cup S,
                             !.retry_word_mask = WordsOf(queue.retry \cup S),
                             !.retry_blocks = list]
  BY <1>2, Fields DEF RetryBits, Queues
<1> HIDE DEF list
<1>4. /\ queue'.next_seq = queue.next_seq
      /\ queue'.sequential_tail = queue.sequential_tail
      /\ queue'.sequential_head = queue.sequential_head
      /\ queue'.inflight = queue.inflight \ S
      /\ queue'.acked = queue.acked
      /\ queue'.retry = queue.retry \cup S
      /\ queue'.sparse_ready = queue.sparse_ready
      /\ queue'.redelivered = queue.redelivered
      /\ queue'.retry_word_mask = WordsOf(queue.retry \cup S)
      /\ queue'.sparse_word_mask = queue.sparse_word_mask
      /\ queue'.retry_blocks = list
      /\ queue'.sparse_blocks = queue.sparse_blocks
  BY <1>3, Fields DEF Queues
<1>5. TypeOK'
  <2> DEFINE inflight == queue.inflight \ S
             retry == queue.retry \cup S
             words == WordsOf(retry)
  <2>1. /\ queue \in Queues
        /\ inflight \in SUBSET Nat /\ retry \in SUBSET Nat /\ words \in SUBSET Nat
        /\ list \in Seq(Nat)
    BY <1>0, <1>1, <1>2, Fields
  <2>2. queue' = [queue EXCEPT !.inflight = inflight, !.retry = retry,
                               !.retry_word_mask = words, !.retry_blocks = list]
    BY <1>3
  <2> HIDE DEF inflight, retry, words
  <2>3. [queue EXCEPT !.inflight = inflight, !.retry = retry,
                      !.retry_word_mask = words, !.retry_blocks = list] \in Queues
    BY <2>1, RetryFields, Zenon
  <2>4. queue' \in Queues
    BY <2>2, <2>3, Zenon
  <2> QED
    BY <2>4, <1>4 DEF IInv, TypeOK
<1>6. /\ queue'.inflight \cap queue'.acked = {}
      /\ queue'.inflight \cap queue'.retry = {}
      /\ queue'.inflight \cap queue'.sparse_ready = {}
      /\ queue'.acked \cap queue'.retry = {}
      /\ queue'.acked \cap queue'.sparse_ready = {}
      /\ queue'.retry \cap queue'.sparse_ready = {}
  BY <1>4 DEF IInv, Conservation
<1>7. ValidateInvariants'
  <2>1. /\ queue'.retry_word_mask = WordsOf(queue'.retry)
        /\ ListsExactly(queue'.retry_blocks, BlocksOf(queue'.retry))
    BY <1>1, <1>4
  <2> QED
    BY <1>4, <1>6, <2>1 DEF IInv, ValidateInvariants, validate_invariants
<1>8. Delivered(queue') = Delivered(queue)
  BY <1>4 DEF Delivered
<1>9. Conservation'
  BY <1>4, <1>6, <1>8 DEF IInv, Conservation
<1>10. RedeliveryIsFlagged'
  BY <1>4 DEF IInv, RedeliveryIsFlagged
<1> QED
  BY <1>5, <1>7, <1>9, <1>10 DEF IInv

(* retry_all_now empties the retry bitsets into the sparse ones. *)
LEMMA RetryAllIInv ==
    ASSUME IInv, RetryAllNow
    PROVE  IInv'
<1> DEFINE moved == queue.retry
           ready == queue.sparse_ready \cup moved
           list  == ListUnlisted(queue.sparse_blocks, queue.retry_blocks)
<1>1. /\ queue.retry_word_mask = WordsOf(moved)
      /\ queue.sparse_word_mask = WordsOf(queue.sparse_ready)
      /\ ListsExactly(queue.retry_blocks, BlocksOf(moved))
      /\ ListsExactly(queue.sparse_blocks, BlocksOf(queue.sparse_ready))
  BY DEF IInv, ValidateInvariants, validate_invariants
<1> DEFINE popped == Listed(queue.retry_blocks)
           bits   == {s \in queue.retry : BlockOf(s) \in popped}
           words  == {w \in queue.retry_word_mask : BlockOfWord(w) \in popped}
<1>2. popped = BlocksOf(moved)
  BY <1>1 DEF ListsExactly
<1>3. bits = moved
  BY <1>2 DEF BlocksOf
<1>4. words = queue.retry_word_mask
  <2>1. \A s \in moved : BlockOfWord(WordOf(s)) = BlockOf(s)
    BY Fields, Location
  <2> QED
    BY <1>1, <1>2, <2>1 DEF WordsOf, BlocksOf
<1>5. /\ list \in Seq(Nat)
      /\ ListsExactly(list, BlocksOf(ready))
  <2>1. /\ list \in Seq(Nat)
        /\ ListsExactly(list, BlocksOf(queue.sparse_ready) \cup BlocksOf(moved))
    BY <1>1, Fields, ListUnlistedLemma
  <2>2. BlocksOf(ready) = BlocksOf(queue.sparse_ready) \cup BlocksOf(moved)
    BY Fields, WordsBlocks
  <2> QED
    BY <2>1, <2>2
<1>6. /\ queue.sparse_word_mask \cup queue.retry_word_mask = WordsOf(ready)
      /\ WordsOf(ready) \in SUBSET Nat
      /\ ready \in SUBSET Nat
      /\ queue.redelivered \cup moved \in SUBSET Nat
  <2>1. ready \in SUBSET Nat /\ queue.redelivered \cup moved \in SUBSET Nat
    BY Fields
  <2>2. WordsOf(ready) = WordsOf(queue.sparse_ready) \cup WordsOf(moved)
    BY Fields, WordsBlocks
  <2>3. WordsOf(ready) \in SUBSET Nat
    <3> HIDE DEF ready
    <3> QED
      BY <2>1, WordsBlocks
  <2> QED
    BY <1>1, <2>1, <2>2, <2>3
<1>7. queue' = [queue EXCEPT !.retry = {},
                             !.sparse_ready = ready,
                             !.redelivered = queue.redelivered \cup moved,
                             !.retry_word_mask = {},
                             !.sparse_word_mask = WordsOf(ready),
                             !.retry_blocks = <<>>,
                             !.sparse_blocks = list]
  <2>1. queue' = [queue EXCEPT
                    !.retry = queue.retry \ bits,
                    !.sparse_ready = queue.sparse_ready \cup bits,
                    !.redelivered = queue.redelivered \cup bits,
                    !.retry_word_mask = queue.retry_word_mask \ words,
                    !.sparse_word_mask = queue.sparse_word_mask \cup words,
                    !.retry_blocks = <<>>,
                    !.sparse_blocks = list]
    BY Fields DEF RetryAllNow, retry_all_now, Queues
  <2>2. queue.retry \ bits = {} /\ queue.retry_word_mask \ words = {}
    BY <1>3, <1>4
  <2> HIDE DEF bits, words
  <2> QED
    BY <2>1, <2>2, <1>3, <1>4, <1>6
<1> HIDE DEF list
<1>8. /\ queue'.next_seq = queue.next_seq
      /\ queue'.sequential_tail = queue.sequential_tail
      /\ queue'.sequential_head = queue.sequential_head
      /\ queue'.inflight = queue.inflight
      /\ queue'.acked = queue.acked
      /\ queue'.retry = {}
      /\ queue'.sparse_ready = ready
      /\ queue'.redelivered = queue.redelivered \cup moved
      /\ queue'.retry_word_mask = {}
      /\ queue'.sparse_word_mask = WordsOf(ready)
      /\ queue'.retry_blocks = <<>>
      /\ queue'.sparse_blocks = list
  BY <1>7, Fields DEF Queues
<1>9. TypeOK'
  <2>1. queue' \in Queues
    <3>1. <<>> \in Seq(Nat) /\ {} \in SUBSET Nat
      OBVIOUS
    <3> HIDE DEF ready, moved, bits, words
    <3> QED
      BY <3>1, <1>5, <1>6, <1>7, Fields DEF Queues
  <2> QED
    BY <2>1, <1>8 DEF IInv, TypeOK
<1>10. /\ queue'.inflight \cap queue'.acked = {}
       /\ queue'.inflight \cap queue'.retry = {}
       /\ queue'.inflight \cap queue'.sparse_ready = {}
       /\ queue'.acked \cap queue'.retry = {}
       /\ queue'.acked \cap queue'.sparse_ready = {}
       /\ queue'.retry \cap queue'.sparse_ready = {}
  BY <1>8 DEF IInv, Conservation
<1>11. ValidateInvariants'
  <2>1. WordsOf({}) = {} /\ BlocksOf({}) = {}
    BY DEF WordsOf, BlocksOf
  <2>2. /\ queue'.retry_word_mask = WordsOf(queue'.retry)
        /\ queue'.sparse_word_mask = WordsOf(queue'.sparse_ready)
    BY <2>1, <1>8
  <2>3. ListsExactly(queue'.retry_blocks, BlocksOf(queue'.retry))
    BY <2>1, <1>8 DEF ListsExactly, Listed
  <2>4. ListsExactly(queue'.sparse_blocks, BlocksOf(queue'.sparse_ready))
    BY <1>5, <1>8
  <2> QED
    BY <1>8, <1>10, <2>2, <2>3, <2>4 DEF IInv, ValidateInvariants, validate_invariants
<1>12. Delivered(queue') = Delivered(queue)
  BY <1>8 DEF Delivered
<1>13. Conservation'
  BY <1>8, <1>10, <1>12 DEF IInv, Conservation
<1>14. RedeliveryIsFlagged'
  BY <1>8 DEF IInv, Conservation, Delivered, RedeliveryIsFlagged
<1> QED
  BY <1>9, <1>11, <1>13, <1>14 DEF IInv

(* The blocks of a mask of one word. *)
LEMMA MaskBlocks ==
    ASSUME NEW bits \in Masks
    PROVE  /\ <<BlockOf(CHOOSE s \in bits : TRUE)>> \in Seq(Nat)
           /\ ListsExactly(<<BlockOf(CHOOSE s \in bits : TRUE)>>, BlocksOf(bits))
<1> DEFINE t == CHOOSE s \in bits : TRUE
<1>1. bits \in SUBSET Nat /\ IsFiniteSet(bits) /\ bits # {}
  <2>1. bits \in SUBSET (0 .. MaxSeq - 1) /\ bits # {}
    BY DEF Masks
  <2>2. IsFiniteSet(0 .. MaxSeq - 1)
    BY MaxSeqAssumption, FS_Interval
  <2>3. IsFiniteSet(bits)
    BY <2>1, <2>2, FS_Subset
  <2> QED
    BY <2>1, <2>3, MaxSeqAssumption
<1>2. t \in bits
  BY <1>1
<1> HIDE DEF t
<1>3. Cardinality(WordsOf(bits)) = 1 /\ IsFiniteSet(WordsOf(bits))
  <2>1. IsFiniteSet(WordsOf(bits))
    <3> DEFINE word == [s \in bits |-> WordOf(s)]
    <3>1. word \in Surjection(bits, WordsOf(bits))
      BY DEF Surjection, WordsOf
    <3> HIDE DEF word
    <3> QED
      BY <1>1, <3>1, FS_Surjection
  <2> QED
    BY <2>1 DEF Masks
<1>4. PICK w : WordsOf(bits) = {w}
  BY <1>3, FS_Singleton
<1>5. \A s \in bits : WordOf(s) = w
  BY <1>4 DEF WordsOf
<1>6. \A s \in bits : BlockOf(s) = BlockOfWord(w)
  BY <1>1, <1>5, Location
<1>7. BlocksOf(bits) = {BlockOf(t)} /\ BlockOf(t) \in Nat
  <2>1. BlockOf(t) \in Nat
    BY <1>1, <1>2, Location
  <2> QED
    BY <2>1, <1>2, <1>6 DEF BlocksOf
<1>8. <<BlockOf(t)>> \in Seq(Nat) /\ ListsExactly(<<BlockOf(t)>>, {BlockOf(t)})
  BY <1>7 DEF ListsExactly, Listed
<1> QED
  BY <1>7, <1>8 DEF t

----------------------------------------------------------------------------
(* Every call preserves the conjunction. *)
LEMMA NextIInv ==
    ASSUME IInv, [Next]_queue
    PROVE  IInv'
<1>1. ASSUME NEW count \in 0 .. MaxSeq, Publish(count) PROVE IInv'
  BY <1>1, PublishIInv
<1>2. ASSUME NEW max \in 0 .. MaxSeq, Deliver(max) PROVE IInv'
  BY <1>2, DeliverIInv
<1>3. ASSUME NEW start \in 0 .. MaxSeq, NEW len \in 0 .. MaxSeq, AckRange(start, len)
      PROVE  IInv'
  BY <1>3, AckIInv DEF AckRange, ack_range
<1>4. ASSUME NEW bits \in Masks, AckMask(bits) PROVE IInv'
  BY <1>4, AckIInv DEF AckMask, ack_mask
<1>5. ASSUME NEW seq \in 0 .. MaxSeq, AckId(seq) PROVE IInv'
  <2>1. CASE seq >= queue.next_seq
    <3>1. queue' = queue
      BY <1>5, <2>1 DEF AckId, ack_id
    <3> QED
      BY <3>1 DEF IInv, TypeOK, ValidateInvariants, validate_invariants, Conservation, Delivered,
                  RedeliveryIsFlagged
  <2>2. CASE ~ (seq >= queue.next_seq)
    <3>1. {seq} \in SUBSET queue.inflight /\ queue' = AckBits(queue, {seq})
      BY <1>5, <2>2 DEF AckId, ack_id
    <3> QED
      BY <3>1, AckIInv
  <2> QED
    BY <2>1, <2>2
<1>6. ASSUME NEW start \in 0 .. MaxSeq, NEW len \in 0 .. MaxSeq, NackRange(start, len)
      PROVE  IInv'
  <2>1. CASE len = 0
    <3>1. queue' = queue
      BY <1>6, <2>1 DEF NackRange, nack_range_to_retry
    <3> QED
      BY <3>1 DEF IInv, TypeOK, ValidateInvariants, validate_invariants, Conservation, Delivered,
                  RedeliveryIsFlagged
  <2>2. CASE len # 0
    <3>1. start \in Nat /\ len \in Nat \ {0}
      BY <2>2, MaxSeqAssumption
    <3>2. /\ start .. start + len - 1 \in SUBSET queue.inflight
          /\ queue' = RetryBits(queue, start .. start + len - 1,
                                BlocksOfRange(start, len))
      BY <1>6, <2>2 DEF NackRange, nack_range_to_retry
    <3>3. /\ BlocksOfRange(start, len) \in Seq(Nat)
          /\ ListsExactly(BlocksOfRange(start, len),
                          BlocksOf(start .. start + len - 1))
      BY <3>1, BlocksOfRangeLemma
    <3> QED
      BY <3>2, <3>3, RetryIInv
  <2> QED
    BY <2>1, <2>2
<1>7. ASSUME NEW bits \in Masks, NackMask(bits) PROVE IInv'
  <2>1. /\ bits \in SUBSET queue.inflight
        /\ queue' = RetryBits(queue, bits, <<BlockOf(CHOOSE s \in bits : TRUE)>>)
    BY <1>7 DEF NackMask, nack_mask_to_retry
  <2> QED
    BY <2>1, MaskBlocks, RetryIInv
<1>8. CASE RetryAllNow
  BY <1>8, RetryAllIInv
<1>9. CASE UNCHANGED queue
  BY <1>9 DEF IInv, TypeOK, ValidateInvariants, validate_invariants, Conservation, Delivered,
              RedeliveryIsFlagged
<1> QED
  BY <1>1, <1>2, <1>3, <1>4, <1>5, <1>6, <1>7, <1>8, <1>9 DEF Next

(* The conjunction holds in every reachable state. *)
THEOREM IInvHolds == Spec => []IInv
<1>1. Init => IInv
  BY InitIInv
<1>2. IInv /\ [Next]_queue => IInv'
  BY NextIInv
<1> QED
  BY <1>1, <1>2, PTL DEF Spec

(* The fields keep the types of the HybridQueue struct. *)
THEOREM TypeCorrect == Spec => []TypeOK
<1>1. IInv => TypeOK
  BY DEF IInv
<1> QED
  BY <1>1, IInvHolds, PTL

(***************************************************************************)
(* validate_invariants accepts every state a sequence of public calls can  *)
(* reach: summaries and intrusive lists always agree with the bitsets.     *)
(***************************************************************************)
THEOREM AlwaysValid == Spec => []ValidateInvariants
<1>1. IInv => ValidateInvariants
  BY DEF IInv
<1> QED
  BY <1>1, IInvHolds, PTL

(***************************************************************************)
(* Publishing, delivering, settling and retrying in any order neither lose *)
(* nor duplicate a message: each is in exactly one state.                  *)
(***************************************************************************)
THEOREM NothingLost == Spec => []Conservation
<1>1. IInv => Conservation
  BY DEF IInv
<1> QED
  BY <1>1, IInvHolds, PTL

(***************************************************************************)
(* redelivered_mask is right about every message a delivery can hand out:  *)
(* set for the sparse ones, clear for those never delivered.               *)
(***************************************************************************)
THEOREM RedeliveryFlagCorrect == Spec => []RedeliveryIsFlagged
<1>1. IInv => RedeliveryIsFlagged
  BY DEF IInv
<1> QED
  BY <1>1, IInvHolds, PTL

(* No call takes a message out of acked. *)
THEOREM AckIsFinal == Spec => AckedIsFinal
<1>1. ASSUME IInv, [Next]_queue PROVE queue.acked \subseteq queue'.acked
  <2> USE Fields
  <2>1. ASSUME NEW S, queue' = AckBits(queue, S) PROVE queue.acked \subseteq queue'.acked
    BY <2>1 DEF AckBits, Queues
  <2>2. ASSUME NEW S, NEW blocks, queue' = RetryBits(queue, S, blocks)
        PROVE  queue.acked \subseteq queue'.acked
    BY <2>2 DEF RetryBits, Queues
  <2>3. ASSUME NEW count \in 0 .. MaxSeq, Publish(count)
        PROVE  queue.acked \subseteq queue'.acked
    BY <2>3 DEF Publish, publish_contiguous, Queues
  <2>4. ASSUME NEW max \in 0 .. MaxSeq, Deliver(max)
        PROVE  queue.acked \subseteq queue'.acked
    BY <2>4 DEF Deliver, deliver, Queues
  <2>5. CASE RetryAllNow
    BY <2>5 DEF RetryAllNow, retry_all_now, Queues
  <2>6. CASE UNCHANGED queue
    BY <2>6
  <2> QED
    BY <1>1, <2>1, <2>2, <2>3, <2>4, <2>5, <2>6
       DEF Next, AckRange, ack_range, AckMask, ack_mask, AckId, ack_id,
           NackRange, nack_range_to_retry, NackMask, nack_mask_to_retry
<1>2. IInv /\ [Next]_queue => [queue.acked \subseteq queue'.acked]_queue
  BY <1>1
<1> QED
  BY <1>2, IInvHolds, PTL DEF Spec, AckedIsFinal
============================================================================
