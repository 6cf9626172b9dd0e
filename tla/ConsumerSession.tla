-------------------------- MODULE ConsumerSession --------------------------
(***************************************************************************)
(* Consumer sessions (crates/aurum-core/src/consumer/session.rs, credit.rs)*)
(* that share one queue.  A session hands out delivery tags, holds a       *)
(* window of unsettled tags and a prefetch credit; it translates tags back *)
(* into messages when the consumer settles them.                           *)
(***************************************************************************)
EXTENDS DeliveryWindow

CONSTANTS
    Consumers,
    Prefetches,   \* the prefetch limits consumers ask for; 0 is Unlimited
    MaxTag        \* bound of the model: delivery tags a session hands out

ASSUME PrefetchesAssumption == Prefetches \subseteq Nat /\ MaxTag \in Nat

VARIABLE sessions

FIRST == 1

NewSession(prefetch) ==
    [next_tag |-> FIRST, prefetch |-> prefetch, in_flight |-> 0,
     window |-> EmptyWindow, cancelled |-> FALSE]

----------------------------------------------------------------------------
(* Credit.  Unlimited is u32::MAX, more than any max a caller passes. *)
SaturatingSub(a, b) == IF a >= b THEN a - b ELSE 0

available(s, max) ==
    IF s.prefetch = 0 THEN max ELSE AtMost(SaturatingSub(s.prefetch, s.in_flight), max)

reserve(s, n) ==
    IF s.prefetch # 0 /\ s.in_flight + n > s.prefetch
    THEN s
    ELSE [s EXCEPT !.in_flight = @ + n]

(* Wrong: gives back one message, however many were settled. *)
MutReleaseOne(s, n) == [s EXCEPT !.in_flight = SaturatingSub(@, 1)]

release(s, n) == [s EXCEPT !.in_flight = SaturatingSub(@, n)]

----------------------------------------------------------------------------
(* Tagging what the queue delivered: ranges first, then masks. *)
TagRange(s, range) ==
    [s EXCEPT !.window = push_range(@, s.next_tag, range),
              !.next_tag = @ + range.len]

TagMask(s, bits) ==
    [s EXCEPT !.window = push_mask(@, s.next_tag, bits),
              !.next_tag = @ + Cardinality(bits)]

(* deliver_from_queue of a session that is not cancelled. *)
deliver_from_queue(s, q, max) ==
    LET limit  == available(s, max)
        n      == DeliveredCount(q, limit)
        ranged == FoldLeft(TagRange, s, DeliveredRanges(q, limit))
        tagged == FoldLeft(TagMask, ranged, DeliveredMasks(q, limit))
    IN  IF limit = 0 \/ n = 0
        THEN [session |-> s, queue |-> q, count |-> 0]
        ELSE [session |-> reserve(tagged, n), queue |-> deliver(q, limit), count |-> n]

----------------------------------------------------------------------------
(* Settlement. *)
apply_ack_batch(q, batch) ==
    FoldLeft(ack_mask,
             FoldLeft(LAMBDA p, r : ack_range(p, r.start_seq, r.len), q, batch.ranges),
             batch.masks)

apply_nack_batch(q, batch) ==
    FoldLeft(nack_mask_to_retry,
             FoldLeft(LAMBDA p, r : nack_range_to_retry(p, r.start_seq, r.len),
                      q, batch.ranges),
             batch.masks)

(* The checks made before the window is touched: a tag that was never      *)
(* handed out is InvalidDeliveryTag, one not in the window is              *)
(* DeliveryTagAlreadySettled.                                              *)
CanSettle(s, tag) ==
    /\ ~ s.cancelled
    /\ FIRST <= tag /\ tag < s.next_tag
    /\ contains_tag(s.window, tag)

Modes == {"one", "multiple"}
Reasons == {"requeue", "reject", "dead_letter"}

Settle(s, tag, mode) ==
    IF mode = "one" THEN settle_one(s.window, tag) ELSE settle_multiple(s.window, tag)

(* The batch goes to the queue, for retry or as acked, and its size back   *)
(* to the credit.                                                          *)
Apply(s, q, batch, requeue) ==
    [session |-> release(s, BatchCount(batch)),
     queue   |-> IF requeue THEN apply_nack_batch(q, batch) ELSE apply_ack_batch(q, batch),
     batch   |-> batch]

(* What settling r.batch leaves of the window. *)
ApplySettled(s, q, r, requeue) == Apply([s EXCEPT !.window = r.window], q, r.batch, requeue)

ack(s, q, tag, mode) == ApplySettled(s, q, Settle(s, tag, mode), FALSE)

(* What is requeued is parked for retry; what is rejected or dead-lettered *)
(* is acked.                                                               *)
nack(s, q, tag, mode, reason) ==
    ApplySettled(s, q, Settle(s, tag, mode), reason = "requeue")

(* Wrong: drops the window without settling its messages. *)
MutCancelDrops(s, q, requeue) ==
    [Apply([s EXCEPT !.window = EmptyWindow, !.cancelled = TRUE], q, drain_all(s.window), requeue)
        EXCEPT !.queue = IF requeue THEN @ ELSE q]

cancel(s, q, requeue) ==
    Apply([s EXCEPT !.window = EmptyWindow, !.cancelled = TRUE], q, drain_all(s.window), requeue)

----------------------------------------------------------------------------
(* Sessions that share one queue, each call one step. *)
vars == <<queue, sessions>>

SInit ==
    /\ queue = empty
    /\ sessions \in [Consumers -> {NewSession(p) : p \in Prefetches}]

(* What a call on the session of c leaves behind. *)
Leaves(c, r) ==
    /\ r.session.next_tag <= MaxTag + 1
    /\ queue' = r.queue
    /\ sessions' = [sessions EXCEPT ![c] = r.session]

PublishMessages(count) == Publish(count) /\ UNCHANGED sessions

DeliverFromQueue(c, max) ==
    /\ ~ sessions[c].cancelled
    /\ Leaves(c, deliver_from_queue(sessions[c], queue, max))

Ack(c, tag, mode) ==
    /\ CanSettle(sessions[c], tag)
    /\ Leaves(c, ack(sessions[c], queue, tag, mode))

Nack(c, tag, mode, reason) ==
    /\ CanSettle(sessions[c], tag)
    /\ Leaves(c, nack(sessions[c], queue, tag, mode, reason))

Cancel(c, requeue) == Leaves(c, cancel(sessions[c], queue, requeue))

Retry == RetryAllNow /\ UNCHANGED sessions

SNext ==
    \/ \E count \in 1 .. MaxSeq : PublishMessages(count)
    \/ \E c \in Consumers, max \in 1 .. MaxSeq : DeliverFromQueue(c, max)
    \/ \E c \in Consumers, tag \in 1 .. MaxTag, mode \in Modes : Ack(c, tag, mode)
    \/ \E c \in Consumers, tag \in 1 .. MaxTag, mode \in Modes, reason \in Reasons :
           Nack(c, tag, mode, reason)
    \/ \E c \in Consumers, requeue \in BOOLEAN : Cancel(c, requeue)
    \/ Retry

SSpec == SInit /\ [][SNext]_vars

----------------------------------------------------------------------------
(***************************************************************************)
(* The two counters kept beside the window never drift from it, through    *)
(* splits, partial masks and cancels, and the prefetch limit is never      *)
(* exceeded (deliver_from_queue drops the error of reserve).               *)
(***************************************************************************)
CreditMatchesWindow ==
    \A c \in Consumers :
        LET s == sessions[c]
        IN  /\ s.in_flight = Cardinality(WindowTags(s.window))
            /\ s.window.unacked = s.in_flight
            /\ s.prefetch # 0 => s.in_flight <= s.prefetch

(***************************************************************************)
(* The messages in flight are exactly those in some window, each in one    *)
(* window under one tag: every message in flight has one owner who can     *)
(* settle it, which is what makes the unchecked ack_range, ack_mask and    *)
(* nack calls of the queue safe.                                           *)
(***************************************************************************)
WindowsPartitionInflight ==
    LET held == {<<c, t>> \in Consumers \X (1 .. MaxTag) :
                     t \in WindowTags(sessions[c].window)}
        message(h) == WindowMap(sessions[h[1]].window)[h[2]]
    IN  /\ {message(h) : h \in held} = queue.inflight
        /\ \A g, h \in held : message(g) = message(h) => g = h

(* The queue's own invariants hold under the calls the sessions make. *)
QueueStaysValid == ValidateInvariants /\ Conservation /\ RedeliveryIsFlagged

(***************************************************************************)
(* A tag stands for the message it was handed out for until it is settled, *)
(* and "multiple" settles exactly the older unsettled tags: the segment    *)
(* windows implement the tag-by-tag ledger.                                *)
(***************************************************************************)
Ledger ==
    INSTANCE ConsumerLedger
        WITH ready <- SequentialReady(queue) \cup queue.sparse_ready,
             inflight <- queue.inflight,
             retry <- queue.retry,
             acked <- queue.acked,
             next_tag <- [c \in Consumers |-> sessions[c].next_tag],
             ledger <- [c \in Consumers |-> WindowMap(sessions[c].window)],
             prefetch <- [c \in Consumers |-> sessions[c].prefetch],
             live <- [c \in Consumers |-> ~ sessions[c].cancelled]

ImplementsLedger == Ledger!Spec
============================================================================
