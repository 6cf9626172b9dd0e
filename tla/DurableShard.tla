---------------------------- MODULE DurableShard ----------------------------
(***************************************************************************)
(* The executor over append-only storage across restarts of the process    *)
(* (recover_queue_from_storage in crates/aurum-broker/src/in_memory/       *)
(* shard.rs, recover_ready_count in storage.rs, build_image in             *)
(* crates/aurum-storage/src/recovery/image.rs).  What was appended         *)
(* survives; the queue, the sessions and the map of payloads do not.       *)
(*                                                                         *)
(* Recovery publishes as many messages as the image has ready ones, so     *)
(* that messages get new sequence numbers.  Payload handles are fresh      *)
(* here and identify the messages; recovered, accepted, acked and          *)
(* confirmed are history variables that no step reads.                     *)
(***************************************************************************)
EXTENDS ShardExecutor

CONSTANT MaxRestarts   \* bound of the model

VARIABLES
    restarts,
    recovered,   \* the messages behind the sequence numbers of the last recovery
    accepted,    \* messages whose publish was not refused
    acked,       \* messages acked in memory, by whatever command
    confirmed    \* messages of a first delivery whose ack reported no error

durableVars == <<shardVars, restarts, recovered, accepted, acked, confirmed>>

(* The message that a sequence number of the queue stands for. *)
Identity(st) == Inserted(recovered, st.seq_payloads)

MessagesAt(f, S) == {f[s] : s \in S}

DurableInit ==
    /\ ShardInit
    /\ restarts = 0
    /\ recovered = EmptyMap
    /\ accepted = {} /\ acked = {} /\ confirmed = {}

(* What a step accepted and acked. *)
Record ==
    /\ accepted' = accepted \cup MessagesAt(state'.seq_payloads, DOMAIN state'.seq_payloads)
    /\ acked' = acked \cup MessagesAt(Identity(state'), queue'.acked)
    /\ UNCHANGED <<restarts, recovered>>

PublishFresh ==
    /\ \E count \in 1 .. MaxSeq, left \in Appends :
           exec_publish(count, [i \in 1 .. count |-> Cardinality(accepted) + i], left)
    /\ Record
    /\ UNCHANGED confirmed

AckDurably ==
    /\ \E c \in Consumers, items \in AckBatches, left \in Appends :
           exec_ack_batch(c, items, left)
    /\ Record
    /\ confirmed' = IF store'.health = "failed" THEN confirmed
                    ELSE confirmed \cup (acked' \ (acked \cup MessagesAt(Identity(state),
                                                                queue.redelivered)))

OtherCommand ==
    /\ \/ exec_declare_queue
       \/ \E c \in Consumers, prefetch \in Prefetches : exec_consume_start(c, prefetch)
       \/ \E c \in Consumers, items \in NackBatches : exec_nack_batch(c, items)
       \/ \E c \in Consumers, items \in RejectBatches : exec_reject_batch(c, items)
       \/ \E c \in Consumers, requeue \in BOOLEAN : exec_cancel(c, requeue)
    /\ Record
    /\ UNCHANGED confirmed

(* build_image: the indexed sequence numbers that are not settled. *)
build_image(st) == DOMAIN st.index \ st.settled

recover_queue_from_storage ==
    LET ready == build_image(store)
        n     == Cardinality(ready)
    IN  /\ queue' = publish_contiguous(empty, n)
        /\ state' = [declared |-> n > 0, consumers |-> <<>>, next_consumer_index |-> 0,
                     seq_payloads |-> EmptyMap]
        /\ recovered' = [s \in 0 .. n - 1 |-> store.index[Nth(ready, s + 1)]]

(* The process stops between two commands and is started again. *)
Restart ==
    /\ restarts < MaxRestarts
    /\ restarts' = restarts + 1
    /\ recover_queue_from_storage
    /\ sessions' = [c \in Consumers |-> Unregistered]
    /\ store' = [store EXCEPT !.health = "healthy"]
    /\ deliveries' = <<>>
    /\ UNCHANGED <<accepted, acked, confirmed>>

DurableNext == PublishFresh \/ AckDurably \/ OtherCommand \/ Restart

DurableSpec == DurableInit /\ [][DurableNext]_durableVars

-----------------------------------------------------------------------------
(* The messages in the queue that are not acked. *)
Kept == MessagesAt(Identity(state), (0 .. queue.next_seq - 1) \ queue.acked)

(***************************************************************************)
(* No accepted message is lost: recovery makes ready "all durable messages *)
(* that are not explicitly acked or dead-lettered".                        *)
(***************************************************************************)
UnackedSurvives == accepted \ acked \subseteq Kept

(***************************************************************************)
(* A message that was acked without an error does not come back after a    *)
(* restart, if it was acked on its first delivery (append_ack_ranges gets  *)
(* only the ranges of an ack, and redeliveries are masks).                 *)
(***************************************************************************)
ConfirmedAckIsFinal == confirmed \cap Kept = {}

(***************************************************************************)
(* Memory and disk never disagree in the dangerous direction before the    *)
(* first restart: every message the queue accepted is in the index, and    *)
(* the ledger settles none that the queue did not ack first.               *)
(***************************************************************************)
DiskCoversQueue ==
    restarts = 0 =>
        /\ 0 .. queue.next_seq - 1 = DOMAIN store.index
        /\ store.settled \subseteq queue.acked
=============================================================================
