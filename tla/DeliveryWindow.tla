--------------------------- MODULE DeliveryWindow ---------------------------
(***************************************************************************)
(* The window of unsettled deliveries of one consumer                      *)
(* (crates/aurum-core/src/consumer/window.rs and segment.rs): a deque of   *)
(* segments in tag order.  A range segment maps consecutive tags to        *)
(* consecutive messages.  A mask segment maps its tags, by rank, to the    *)
(* set bits of one word; it keeps its original bits and the set of ranks   *)
(* that are still unsettled.                                               *)
(*                                                                         *)
(* ack_one / nack_one and ack_multiple / nack_multiple differ only in the  *)
(* type of the batch they return; both are settle_one and settle_multiple. *)
(***************************************************************************)
EXTENDS HybridQueue, SequencesExt

RangeSegment(first_tag, start_seq, len) ==
    [kind |-> "range", first_tag |-> first_tag, start_seq |-> start_seq,
     len |-> len]

(* The bits of the original mask are the messages they stand for. *)
MaskSegment(first_tag, bits) ==
    [kind |-> "mask", first_tag |-> first_tag, bits |-> bits,
     ranks |-> 0 .. Cardinality(bits) - 1]

last_tag(seg) ==
    IF seg.kind = "range"
    THEN seg.first_tag + seg.len - 1
    ELSE seg.first_tag + Cardinality(seg.bits) - 1

(* The unsettled tags of a segment, and the message a tag stands for. *)
SegmentTags(seg) ==
    IF seg.kind = "range"
    THEN seg.first_tag .. last_tag(seg)
    ELSE {seg.first_tag + r : r \in seg.ranks}

bit_for_rank(bits, rank) == Nth(bits, rank + 1)

SeqOfTag(seg, tag) ==
    IF seg.kind = "range"
    THEN seg.start_seq + (tag - seg.first_tag)
    ELSE bit_for_rank(seg.bits, tag - seg.first_tag)

contains_tag(w, tag) == \E i \in DOMAIN w.segments : tag \in SegmentTags(w.segments[i])

EmptyWindow == [segments |-> <<>>, unacked |-> 0]

push_range(w, first_tag, range) ==
    [segments |-> Append(w.segments, RangeSegment(first_tag, range.start_seq, range.len)),
     unacked  |-> w.unacked + range.len]

push_mask(w, first_tag, bits) ==
    [segments |-> Append(w.segments, MaskSegment(first_tag, bits)),
     unacked  |-> w.unacked + Cardinality(bits)]

-----------------------------------------------------------------------------
(* Batches of messages to settle: ranges first, then masks. *)
EmptyBatch == [ranges |-> <<>>, masks |-> <<>>]

(* The messages of a mask segment that have one of these ranks. *)
BitsOfRanks(seg, ranks) == {bit_for_rank(seg.bits, r) : r \in ranks}

(* full_segment_to_ack / full_segment_to_nack: an empty mask adds nothing. *)
AddSegment(batch, seg) ==
    IF seg.kind = "range"
    THEN [batch EXCEPT !.ranges = Append(@, [start_seq |-> seg.start_seq, len |-> seg.len])]
    ELSE IF seg.ranks = {}
    THEN batch
    ELSE [batch EXCEPT !.masks = Append(@, BitsOfRanks(seg, seg.ranks))]

BatchCount(batch) ==
    FoldLeft(LAMBDA n, r : n + r.len, 0, batch.ranges)
        + FoldLeft(LAMBDA n, m : n + Cardinality(m), 0, batch.masks)

-----------------------------------------------------------------------------
(* Settling one tag: what is left of its segment takes the segment's place. *)
find_segment_idx(w, tag) ==
    CHOOSE i \in DOMAIN w.segments :
        /\ tag \in SegmentTags(w.segments[i])
        /\ \A j \in 1 .. i - 1 : tag \notin SegmentTags(w.segments[j])

NonEmptyRange(first_tag, start_seq, len) ==
    IF len = 0 THEN <<>> ELSE <<RangeSegment(first_tag, start_seq, len)>>

(* compute_one_action and apply_seg_action: remove, trim or split a range; *)
(* clear the rank of a mask, or remove the mask with its last rank.        *)
SegmentWithout(seg, tag) ==
    LET offset == tag - seg.first_tag
    IN  IF seg.kind = "range"
        THEN NonEmptyRange(seg.first_tag, seg.start_seq, offset)
                 \o NonEmptyRange(tag + 1, seg.start_seq + offset + 1,
                                  seg.len - offset - 1)
        ELSE IF seg.ranks = {offset} THEN <<>>
        ELSE <<[seg EXCEPT !.ranks = @ \ {offset}]>>

settle_one(w, tag) ==
    LET i   == find_segment_idx(w, tag)
        seg == w.segments[i]
        seq == SeqOfTag(seg, tag)
    IN  [window |->
            [segments |-> SubSeq(w.segments, 1, i - 1) \o SegmentWithout(seg, tag)
                              \o SubSeq(w.segments, i + 1, Len(w.segments)),
             unacked  |-> w.unacked - 1],
         batch  |->
            IF seg.kind = "range"
            THEN [EmptyBatch EXCEPT !.ranges = <<[start_seq |-> seq, len |-> 1]>>]
            ELSE [EmptyBatch EXCEPT !.masks = <<{seq}>>]]

(* Wrong: settles the tags before tag only. *)
MutUpToExclusive(seg, tag) ==
    IF seg.kind = "range"
    THEN [seg EXCEPT !.len = tag - seg.first_tag]
    ELSE [seg EXCEPT !.ranks = {r \in @ : r < tag - seg.first_tag}]

(* Wrong: leaves the rank of tag in a mask. *)
MutAfterInclusive(seg, tag) ==
    IF seg.kind = "range"
    THEN RangeSegment(tag + 1, SeqOfTag(seg, tag + 1), last_tag(seg) - tag)
    ELSE [seg EXCEPT !.ranks = {r \in @ : r >= tag - seg.first_tag}]

(* partial_segment_to_ack / partial_segment_to_nack: the part of a segment *)
(* up to and including tag, and the part after it.                         *)
SegmentUpTo(seg, tag) ==
    IF seg.kind = "range"
    THEN [seg EXCEPT !.len = tag - seg.first_tag + 1]
    ELSE [seg EXCEPT !.ranks = {r \in @ : r <= tag - seg.first_tag}]

SegmentAfter(seg, tag) ==
    IF seg.kind = "range"
    THEN RangeSegment(tag + 1, SeqOfTag(seg, tag + 1), last_tag(seg) - tag)
    ELSE [seg EXCEPT !.ranks = {r \in @ : r > tag - seg.first_tag}]

(***************************************************************************)
(* Settling a tag and all before it: segments whose last tag is not beyond *)
(* tag are popped, and the loop stops at the one that ends in tag;         *)
(* otherwise the next segment is cut after tag (a mask may be left with no *)
(* ranks, and stays in the deque).                                         *)
(***************************************************************************)
settle_multiple(w, tag) ==
    LET segs == w.segments
        n    == CHOOSE k \in 0 .. Len(segs) :
                    /\ \A i \in 1 .. k : last_tag(segs[i]) <= tag
                    /\ k < Len(segs) => last_tag(segs[k + 1]) > tag
        cut  == n < Len(segs) /\ (n > 0 => last_tag(segs[n]) # tag)
        done == SubSeq(segs, 1, n)
                    \o IF cut THEN <<SegmentUpTo(segs[n + 1], tag)>> ELSE <<>>
        rest == SubSeq(segs, n + 1, Len(segs))
        batch == FoldLeft(AddSegment, EmptyBatch, done)
    IN  [window |->
            [segments |-> IF cut THEN <<SegmentAfter(Head(rest), tag)>> \o Tail(rest)
                          ELSE rest,
             unacked  |-> w.unacked - BatchCount(batch)],
         batch  |-> batch]

drain_all(w) == FoldLeft(AddSegment, EmptyBatch, w.segments)

(* What the window stands for: a function from unsettled tags to messages. *)
WindowTags(w) == UNION {SegmentTags(w.segments[i]) : i \in DOMAIN w.segments}

WindowMap(w) ==
    [tag \in WindowTags(w) |->
        SeqOfTag(w.segments[find_segment_idx(w, tag)], tag)]
=============================================================================
