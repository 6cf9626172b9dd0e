-------------------------- MODULE HybridQueueLoops --------------------------
(***************************************************************************)
(* The loops of hybrid.rs as the code runs them, block by block and word   *)
(* by word, to be compared with the definitions of HybridQueue, which say  *)
(* at once what the loops end with.                                        *)
(***************************************************************************)
EXTENDS HybridQueue

BitsOfWord(w) == w * BitsPerWord .. (w + 1) * BitsPerWord - 1

RECURSIVE take_lowest_bits_local(_, _)
take_lowest_bits_local(word, max) ==
    IF word = {} \/ max = 0
    THEN {}
    ELSE LET low == CHOOSE s \in word : \A t \in word : s <= t
         IN  {low} \cup take_lowest_bits_local(word \ {low}, max - 1)

(* The loop over the words of one block of deliver_sparse_masks. *)
RECURSIVE ServeWords(_, _, _, _)
ServeWords(st, b, w, last) ==
    IF w > last \/ st.remaining = 0
    THEN st
    ELSE LET q         == st.queue
             available == q.sparse_ready \cap BitsOfWord(w)
             mask      == take_lowest_bits_local(available, st.remaining)
             cleared   == [q EXCEPT !.sparse_word_mask = @ \ {w}]
             served    == [q EXCEPT !.sparse_ready = @ \ mask,
                                    !.inflight = @ \cup mask,
                                    !.sparse_word_mask =
                                        IF available = mask THEN @ \ {w} ELSE @]
             step      == IF w \notin q.sparse_word_mask THEN st
                          ELSE IF available = {} THEN [st EXCEPT !.queue = cleared]
                          ELSE [queue     |-> served,
                                remaining |-> st.remaining - Cardinality(mask),
                                masks     |-> Append(st.masks, mask)]
         IN  ServeWords(step, b, w + 1, last)

RECURSIVE deliver_sparse_masks(_)
deliver_sparse_masks(st) ==
    IF st.remaining = 0 \/ st.queue.sparse_blocks = <<>>
    THEN st
    ELSE LET b      == Head(st.queue.sparse_blocks)
             first  == b * WordsPerBlock
             last   == first + WordsPerBlock - 1
             popped == [st EXCEPT !.queue.sparse_blocks = Tail(@)]
             served == ServeWords(popped, b, first, last)
         IN  deliver_sparse_masks(
                 IF served.queue.sparse_word_mask \cap (first .. last) # {}
                 THEN [served EXCEPT !.queue.sparse_blocks = <<b>> \o @]
                 ELSE served)

DeliverLoop(q, max) ==
    LET n == SequentialCount(q, max)
    IN  deliver_sparse_masks(
            [queue     |-> [q EXCEPT !.sequential_head = @ + n,
                                     !.inflight = @ \cup SequentialTake(q, max)],
             remaining |-> max - n,
             masks     |-> <<>>])

RECURSIVE RetryLoop(_)
RetryLoop(q) ==
    IF q.retry_blocks = <<>>
    THEN q
    ELSE LET b     == Head(q.retry_blocks)
             mine  == {s \in q.retry : BlockOf(s) = b}
             words == {w \in q.retry_word_mask : BlockOfWord(w) = b}
         IN  RetryLoop(
               [q EXCEPT
                  !.retry_blocks = Tail(@),
                  !.retry = @ \ mine,
                  !.sparse_ready = @ \cup mine,
                  !.redelivered = @ \cup mine,
                  !.retry_word_mask = @ \ words,
                  !.sparse_word_mask = @ \cup words,
                  !.sparse_blocks = IF b \in Listed(@) THEN @ ELSE Append(@, b)])

RECURSIVE NackLoop(_, _, _)
NackLoop(q, seq, end) ==
    IF seq >= end
    THEN q
    ELSE LET block_end == (BlockOf(seq) + 1) * MSGS_PER_BLOCK
             next      == AtMost(end, block_end)
             bits      == seq .. next - 1
         IN  NackLoop([q EXCEPT
                         !.inflight = @ \ bits,
                         !.retry = @ \cup bits,
                         !.retry_word_mask = @ \cup WordsOf(bits),
                         !.retry_blocks = IF BlockOf(seq) \in Listed(@) THEN @
                                          ELSE Append(@, BlockOf(seq))],
                      next, end)

(***************************************************************************)
(* In every reachable queue and for every bound, the block-by-block loop   *)
(* of deliver ends with the queue and the masks that deliver defines,      *)
(* order of the blocks pushed back to the front included.                  *)
(***************************************************************************)
DeliverLoopAgrees ==
    \A max \in 1 .. MaxSeq :
        LET run == DeliverLoop(queue, max)
        IN  /\ run.queue = deliver(queue, max)
            /\ run.masks = DeliveredMasks(queue, max)
            /\ max - run.remaining = DeliveredCount(queue, max)

(* The loops of retry_all_now and nack_range_to_retry end with the queues  *)
(* of HybridQueue, the order of the block lists included.                  *)
RetryLoopsAgree ==
    /\ RetryLoop(queue) = retry_all_now(queue)
    /\ \A start \in 0 .. MaxSeq, len \in 1 .. MaxSeq :
           start .. start + len - 1 \subseteq queue.inflight =>
               NackLoop(queue, start, start + len)
                   = nack_range_to_retry(queue, start, len)
=============================================================================
