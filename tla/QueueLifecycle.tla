--------------------------- MODULE QueueLifecycle ---------------------------
(***************************************************************************)
(* What a queue of aurum-core promises about its messages, with no blocks, *)
(* bitsets or lists: the life cycle of MessageState                        *)
(* (crates/aurum-core/src/queue/state.rs).  A message is ready, then in    *)
(* flight, then acked for good or parked for retry; parked messages become *)
(* ready again together.  A delivery hands out as much as it may.  Which   *)
(* of the ready messages are handed out first is left open.                *)
(***************************************************************************)
EXTENDS Integers, FiniteSets

CONSTANT MaxSeq
VARIABLES ready, inflight, retry, acked

vars == <<ready, inflight, retry, acked>>

published == Cardinality(ready \cup inflight \cup retry \cup acked)

Init == ready = {} /\ inflight = {} /\ retry = {} /\ acked = {}

Publish ==
    /\ \E count \in 1 .. MaxSeq :
           ready' = ready \cup (published .. published + count - 1)
    /\ UNCHANGED <<inflight, retry, acked>>

Deliver ==
    \E max \in 1 .. MaxSeq, handed \in SUBSET ready :
        /\ Cardinality(handed) =
               IF Cardinality(ready) <= max THEN Cardinality(ready) ELSE max
        /\ ready' = ready \ handed
        /\ inflight' = inflight \cup handed
        /\ UNCHANGED <<retry, acked>>

Ack ==
    \E settled \in SUBSET inflight :
        /\ inflight' = inflight \ settled
        /\ acked' = acked \cup settled
        /\ UNCHANGED <<ready, retry>>

Nack ==
    \E parked \in SUBSET inflight :
        /\ inflight' = inflight \ parked
        /\ retry' = retry \cup parked
        /\ UNCHANGED <<ready, acked>>

Retry ==
    /\ ready' = ready \cup retry
    /\ retry' = {}
    /\ UNCHANGED <<inflight, acked>>

Next == Publish \/ Deliver \/ Ack \/ Nack \/ Retry

Spec == Init /\ [][Next]_vars
=============================================================================
