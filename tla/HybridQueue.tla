---------------------------- MODULE HybridQueue ----------------------------
(***************************************************************************)
(* The hybrid range + block-bitset queue of aurum-core                     *)
(* (crates/aurum-core/src/queue/hybrid.rs).                                *)
(*                                                                         *)
(* Messages are sequence numbers.  A message that was never delivered sits *)
(* in the sequential range head .. tail-1; afterwards it is one bit in     *)
(* exactly one of the bitsets inflight, acked, retry and sparse of its     *)
(* block.  The bitsets of all blocks are kept here as sets of sequence     *)
(* numbers; the one-byte word summaries of all blocks as sets of word      *)
(* numbers; the two intrusive lists of blocks as sequences of block        *)
(* numbers.  A queue is a value and every method a function of it, so that *)
(* the modules of the consumer session and of the shard can compose them.  *)
(*                                                                         *)
(* The u64 counters of QueueStats are only ever reported and are left out. *)
(***************************************************************************)
EXTENDS Integers, Sequences, FiniteSets

CONSTANTS
    BitsPerWord,     \* 64 in the code
    WordsPerBlock,   \* 4 in the code
    MaxSeq           \* bound of the model: messages ever published

ASSUME BitsPerWordAssumption == BitsPerWord \in Nat \ {0}
ASSUME WordsPerBlockAssumption == WordsPerBlock \in Nat \ {0}
ASSUME MaxSeqAssumption == MaxSeq \in Nat

VARIABLE queue

MSGS_PER_BLOCK == BitsPerWord * WordsPerBlock

(* locate(seq): the block of a message; words are numbered through all blocks. *)
BlockOf(seq) == seq \div MSGS_PER_BLOCK
WordOf(seq) == seq \div BitsPerWord
BlockOfWord(w) == w \div WordsPerBlock

BlocksOf(S) == {BlockOf(s) : s \in S}
WordsOf(S) == {WordOf(s) : s \in S}

Listed(list) == {list[i] : i \in DOMAIN list}
PositionIn(list, b) == CHOOSE i \in DOMAIN list : list[i] = b

(* The k-th smallest number of S, and the elements of a list that are in S. *)
Nth(S, k) == CHOOSE i \in S : Cardinality({j \in S : j < i}) = k - 1

KeepIn(list, S) ==
    LET kept == {i \in DOMAIN list : list[i] \in S}
    IN  [k \in 1 .. Cardinality(kept) |-> list[Nth(kept, k)]]

(* The lesser of two naturals. *)
AtMost(n, max) == IF n <= max THEN n ELSE max

Queues ==
    [ next_seq         : Nat,
      sequential_head  : Nat,
      sequential_tail  : Nat,
      inflight         : SUBSET Nat,
      acked            : SUBSET Nat,
      retry            : SUBSET Nat,
      sparse_ready     : SUBSET Nat,
      redelivered      : SUBSET Nat,
      retry_word_mask  : SUBSET Nat,
      sparse_word_mask : SUBSET Nat,
      retry_blocks     : Seq(Nat),
      sparse_blocks    : Seq(Nat) ]

empty ==
    [ next_seq         |-> 0,
      sequential_head  |-> 0,
      sequential_tail  |-> 0,
      inflight         |-> {},
      acked            |-> {},
      retry            |-> {},
      sparse_ready     |-> {},
      redelivered      |-> {},
      retry_word_mask  |-> {},
      sparse_word_mask |-> {},
      retry_blocks     |-> <<>>,
      sparse_blocks    |-> <<>> ]

----------------------------------------------------------------------------
(* Operators named Mut... are wrong versions of the definition that follows *)
(* them; no behaviour uses them.                                           *)

(* Wrong: one sequence number too many. *)
MutPublishOneMore(q, count) ==
    [q EXCEPT !.next_seq = @ + count + 1, !.sequential_tail = q.next_seq + count + 1]

(* Publishing.  Publishing nothing returns early and changes nothing. *)
publish_contiguous(q, count) ==
    IF count = 0
    THEN q
    ELSE [q EXCEPT !.next_seq = q.next_seq + count,
                   !.sequential_tail = q.next_seq + count]

(* The published messages that were never delivered. *)
SequentialReady(q) == q.sequential_head .. q.sequential_tail - 1

----------------------------------------------------------------------------
(***************************************************************************)
(* Delivery.  The sequential range goes first; what is left of max is      *)
(* taken from the sparse bitsets.  deliver_sparse_masks pops blocks off    *)
(* the front of sparse_blocks and, within a block, takes the lowest bits   *)
(* of the words flagged in sparse_word_mask, until max is used up: message *)
(* s is taken iff fewer than max messages precede it in that order.        *)
(***************************************************************************)
SequentialCount(q, max) == AtMost(q.sequential_tail - q.sequential_head, max)

(* Wrong: the range includes its end. *)
MutTakeInclusive(q, max) ==
    q.sequential_head .. q.sequential_head + SequentialCount(q, max)

SequentialTake(q, max) ==
    q.sequential_head .. q.sequential_head + SequentialCount(q, max) - 1

SparseVisible(q) ==
    {s \in q.sparse_ready : /\ WordOf(s) \in q.sparse_word_mask
                            /\ BlockOf(s) \in Listed(q.sparse_blocks)}

ServedBefore(q, s, t) ==
    LET i == PositionIn(q.sparse_blocks, BlockOf(s))
        j == PositionIn(q.sparse_blocks, BlockOf(t))
    IN  i < j \/ (i = j /\ s < t)

SparseTake(q, max) ==
    {s \in SparseVisible(q) :
        Cardinality({t \in SparseVisible(q) : ServedBefore(q, t, s)}) < max}

(* Wrong: the block at which delivery stops goes to the back. *)
MutPushBack(list, left) ==
    LET some == KeepIn(list, left)
    IN  IF some = <<>> THEN some ELSE Tail(some) \o <<Head(some)>>

(* Blocks leave sparse_blocks from the front once nothing of them is left; *)
(* the block at which delivery stops is pushed back to the front.          *)
DropServedBlocks(list, left) ==
    LET n == CHOOSE k \in 0 .. Len(list) :
                 /\ \A i \in 1 .. k : list[i] \notin left
                 /\ k < Len(list) => list[k + 1] \in left
    IN  SubSeq(list, n + 1, Len(list))

deliver(q, max) ==
    LET sequential == SequentialTake(q, max)
        remaining  == max - SequentialCount(q, max)
        sparse     == SparseTake(q, remaining)
        left       == q.sparse_ready \ sparse
    IN  [q EXCEPT
           !.sequential_head = @ + SequentialCount(q, max),
           !.inflight = @ \cup sequential \cup sparse,
           !.sparse_ready = left,
           !.sparse_word_mask = @ \ (WordsOf(sparse) \ WordsOf(left)),
           !.sparse_blocks = DropServedBlocks(@, BlocksOf(left))]

(* What deliver reports: at most one range, then one mask per word touched *)
(* in serving order.  The bits of a mask are kept as messages.             *)
DeliveredRanges(q, max) ==
    IF SequentialCount(q, max) = 0
    THEN <<>>
    ELSE <<[start_seq |-> q.sequential_head, len |-> SequentialCount(q, max)]>>

DeliveredMasks(q, max) ==
    LET sparse == SparseTake(q, max - SequentialCount(q, max))
        words  == WordsOf(sparse)
        pos(w) == PositionIn(q.sparse_blocks, BlockOfWord(w))
        before(v, w) == pos(v) < pos(w) \/ (pos(v) = pos(w) /\ v < w)
        nth(i) == CHOOSE w \in words :
                      Cardinality({v \in words : before(v, w)}) = i - 1
    IN  [i \in 1 .. Cardinality(words) |->
            {s \in sparse : WordOf(s) = nth(i)}]

DeliveredCount(q, max) ==
    SequentialCount(q, max)
        + Cardinality(SparseTake(q, max - SequentialCount(q, max)))

----------------------------------------------------------------------------
(* Wrong: stores the mask into the acked word instead of adding it. *)
MutOverwriteWord(q, S) ==
    [q EXCEPT !.inflight = @ \ S,
              !.acked = {s \in @ : WordOf(s) \notin WordsOf(S)} \cup S]

(* Settlement.  None of the three ack entry points looks at inflight. *)
AckBits(q, S) ==
    [q EXCEPT !.inflight = @ \ S, !.acked = @ \cup S]

(* Wrong: takes the range to include its end. *)
MutAckInclusive(q, start, len) == AckBits(q, start .. start + len)

ack_range(q, start, len) == AckBits(q, start .. start + len - 1)

ack_mask(q, bits) == AckBits(q, bits)

ack_id(q, seq) == IF seq >= q.next_seq THEN q ELSE AckBits(q, {seq})

(* Wrong: does not look whether the block is linked. *)
MutListAgain(list, blocks) == list \o blocks

(* ensure_retry_listed / ensure_sparse_listed for blocks in this order. *)
ListUnlisted(list, blocks) ==
    list \o KeepIn(blocks, Listed(blocks) \ Listed(list))

RetryBits(q, S, blocks) ==
    [q EXCEPT !.inflight = @ \ S,
              !.retry = @ \cup S,
              !.retry_word_mask = @ \cup WordsOf(S),
              !.retry_blocks = ListUnlisted(@, blocks)]

(* Wrong: takes the end of the range for its last message. *)
MutBlocksToEnd(start, len) ==
    [i \in 1 .. 1 + BlockOf(start + len) - BlockOf(start) |-> BlockOf(start) + i - 1]

(* The blocks of a range, in the order in which the loop walks over them. *)
BlocksOfRange(start, len) ==
    [i \in 1 .. 1 + BlockOf(start + len - 1) - BlockOf(start) |->
        BlockOf(start) + i - 1]

nack_range_to_retry(q, start, len) ==
    IF len = 0
    THEN q
    ELSE RetryBits(q, start .. start + len - 1, BlocksOfRange(start, len))

(* A mask has at least one bit: every caller skips empty ones. *)
nack_mask_to_retry(q, bits) ==
    RetryBits(q, bits, <<BlockOf(CHOOSE s \in bits : TRUE)>>)

(* Wrong: forgets to mark the messages as redelivered. *)
MutRetryUnmarked(q) ==
    [q EXCEPT !.retry = {},
              !.sparse_ready = @ \cup q.retry,
              !.retry_word_mask = {},
              !.sparse_word_mask = @ \cup q.retry_word_mask,
              !.retry_blocks = <<>>,
              !.sparse_blocks = ListUnlisted(@, q.retry_blocks)]

(***************************************************************************)
(* Retry blocks are popped front to back; each block's retry bits become   *)
(* sparse ready and redelivered, its word summary moves over, and it is    *)
(* appended to sparse_blocks unless it is still listed there.              *)
(***************************************************************************)
retry_all_now(q) ==
    LET popped == Listed(q.retry_blocks)
        moved  == {s \in q.retry : BlockOf(s) \in popped}
        words  == {w \in q.retry_word_mask : BlockOfWord(w) \in popped}
    IN  [q EXCEPT
           !.retry = @ \ moved,
           !.sparse_ready = @ \cup moved,
           !.redelivered = @ \cup moved,
           !.retry_word_mask = @ \ words,
           !.sparse_word_mask = @ \cup words,
           !.retry_blocks = <<>>,
           !.sparse_blocks = ListUnlisted(@, q.retry_blocks)]

----------------------------------------------------------------------------
(***************************************************************************)
(* The queue under any caller that settles only what is in flight, as      *)
(* ConsumerSession does.                                                   *)
(***************************************************************************)
Init == queue = empty

Publish(count) ==
    /\ queue.next_seq + count <= MaxSeq
    /\ queue' = publish_contiguous(queue, count)

Deliver(max) == queue' = deliver(queue, max)

AckRange(start, len) ==
    /\ start .. start + len - 1 \subseteq queue.inflight
    /\ queue' = ack_range(queue, start, len)

AckMask(bits) ==
    /\ bits \subseteq queue.inflight
    /\ queue' = ack_mask(queue, bits)

AckId(seq) ==
    /\ seq \in queue.inflight \/ seq >= queue.next_seq
    /\ queue' = ack_id(queue, seq)

NackRange(start, len) ==
    /\ start .. start + len - 1 \subseteq queue.inflight
    /\ queue' = nack_range_to_retry(queue, start, len)

NackMask(bits) ==
    /\ bits \subseteq queue.inflight
    /\ queue' = nack_mask_to_retry(queue, bits)

RetryAllNow == queue' = retry_all_now(queue)

(* The non-empty masks of one word. *)
Masks == {bits \in SUBSET (0 .. MaxSeq - 1) :
             bits # {} /\ Cardinality(WordsOf(bits)) = 1}

Next ==
    \/ \E count \in 0 .. MaxSeq : Publish(count)
    \/ \E max \in 0 .. MaxSeq : Deliver(max)
    \/ \E start \in 0 .. MaxSeq, len \in 0 .. MaxSeq : AckRange(start, len)
    \/ \E bits \in Masks : AckMask(bits)
    \/ \E seq \in 0 .. MaxSeq : AckId(seq)
    \/ \E start \in 0 .. MaxSeq, len \in 0 .. MaxSeq : NackRange(start, len)
    \/ \E bits \in Masks : NackMask(bits)
    \/ RetryAllNow

Spec == Init /\ [][Next]_queue

----------------------------------------------------------------------------
(* The fields have the types of the struct; the model bounds next_seq. *)
TypeOK == queue \in Queues /\ queue.next_seq <= MaxSeq

(***************************************************************************)
(* validate_invariants: the range is in order, the bitsets are disjoint, a *)
(* word summary is set iff its word has a bit, and a block is on an        *)
(* intrusive list, once, iff it has a summary bit.                         *)
(***************************************************************************)
ListsExactly(list, S) ==
    /\ Listed(list) = S
    /\ \A i, j \in DOMAIN list : list[i] = list[j] => i = j

validate_invariants(q) ==
    /\ q.sequential_head <= q.sequential_tail
    /\ q.sequential_tail <= q.next_seq
    /\ q.inflight \cap q.acked = {}
    /\ q.inflight \cap q.retry = {}
    /\ q.inflight \cap q.sparse_ready = {}
    /\ q.acked \cap q.retry = {}
    /\ q.acked \cap q.sparse_ready = {}
    /\ q.retry \cap q.sparse_ready = {}
    /\ q.retry_word_mask = WordsOf(q.retry)
    /\ q.sparse_word_mask = WordsOf(q.sparse_ready)
    /\ ListsExactly(q.retry_blocks, BlocksOf(q.retry))
    /\ ListsExactly(q.sparse_blocks, BlocksOf(q.sparse_ready))

(***************************************************************************)
(* validate_invariants never reports a violation: "Every public operation  *)
(* must leave the queue in a valid state."                                 *)
(***************************************************************************)
ValidateInvariants == validate_invariants(queue)

(***************************************************************************)
(* No message is lost or doubled, whatever the order of the calls: every   *)
(* published message is in exactly one state and nothing else is in any    *)
(* (state.rs: ready + inflight + acked + retry = published).               *)
(***************************************************************************)
Delivered(q) == q.inflight \cup q.acked \cup q.retry \cup q.sparse_ready

Conservation ==
    /\ Delivered(queue) = 0 .. queue.sequential_head - 1
    /\ queue.sequential_head <= queue.sequential_tail
    /\ queue.sequential_tail = queue.next_seq
    /\ queue.inflight \cap queue.acked = {}
    /\ queue.inflight \cap queue.retry = {}
    /\ queue.inflight \cap queue.sparse_ready = {}
    /\ queue.acked \cap queue.retry = {}
    /\ queue.acked \cap queue.sparse_ready = {}
    /\ queue.retry \cap queue.sparse_ready = {}

(***************************************************************************)
(* The redelivered bit is never wrong about a message that is about to be  *)
(* delivered: sparse deliveries have been delivered before, sequential     *)
(* ones have not (redelivered_mask, read by deliver_from_queue).           *)
(***************************************************************************)
RedeliveryIsFlagged ==
    /\ queue.sparse_ready \subseteq queue.redelivered
    /\ queue.redelivered \subseteq 0 .. queue.sequential_head - 1

(* A settled message is settled for good: no call puts it back anywhere a  *)
(* later deliver could find it.                                            *)
AckedIsFinal == [][queue.acked \subseteq queue'.acked]_queue

(***************************************************************************)
(* The queue implements the life cycle of its messages (QueueLifecycle):   *)
(* in particular a delivery hands out all that is ready, up to max, though *)
(* it only looks at listed blocks and flagged words.                       *)
(***************************************************************************)
Lifecycle ==
    INSTANCE QueueLifecycle
        WITH ready <- SequentialReady(queue) \cup queue.sparse_ready,
             inflight <- queue.inflight,
             retry <- queue.retry,
             acked <- queue.acked

ImplementsLifecycle == Lifecycle!Spec
============================================================================
