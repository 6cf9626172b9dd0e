--------------------------- MODULE ShardExecutor ---------------------------
(***************************************************************************)
(* The single-shard executor                                               *)
(* (crates/aurum-broker/src/in_memory/shard.rs, registry.rs, storage.rs):  *)
(* command batches enter one at a time, each runs to its end, and what it  *)
(* delivered leaves as events.  The module follows one queue and the       *)
(* consumers of that queue; the other queues of a shard share nothing with *)
(* it.                                                                     *)
(*                                                                         *)
(* The registry of consumers is the session map: a consumer that is not    *)
(* registered has a cancelled session (exec_cancel cancels the session and *)
(* removes it in one step).                                                *)
(***************************************************************************)
EXTENDS ConsumerSession

CONSTANTS
    Handles,        \* payload handles that publish batches with records carry
    MaxPerCall,     \* 256 in the code: messages per deliver_from_queue
    MaxPasses,      \* 16 in the code: max_delivery_passes
    AckBatches,     \* the batches of commands consumers send
    NackBatches,
    RejectBatches,
    Durable         \* does the shard have durable storage?

ASSUME LoopBoundsAssumption ==
    MaxPerCall \in Nat \ {0} /\ MaxPasses \in Nat \ {0} /\ Handles \subseteq Nat

VARIABLES
    state,       \* QueueState: declared, consumers, next_consumer_index, seq_payloads
    store,       \* AppendOnlyShardStorage: health and what was appended
    deliveries   \* the delivery events of the last command

shardVars == <<queue, sessions, state, store, deliveries>>

EmptyMap == [x \in {} |-> 0]

(* f with the entries of g inserted. *)
Inserted(f, g) ==
    [x \in DOMAIN f \cup DOMAIN g |-> IF x \in DOMAIN g THEN g[x] ELSE f[x]]

Unregistered == [NewSession(0) EXCEPT !.cancelled = TRUE]
Registered == {c \in Consumers : ~ sessions[c].cancelled}

(* What a command works on; left is how many more appends the disk takes. *)
Shard(left) ==
    [queue |-> queue, sessions |-> sessions, state |-> state, store |-> store,
     deliveries |-> <<>>, left |-> left]

Becomes(sh) ==
    /\ \A c \in Consumers : sh.sessions[c].next_tag <= MaxTag + 1
    /\ queue' = sh.queue
    /\ sessions' = sh.sessions
    /\ state' = sh.state
    /\ store' = sh.store
    /\ deliveries' = sh.deliveries

(* A command that only reports an error: a queue or a consumer that is not *)
(* there, or is there already.                                             *)
Refused == deliveries' = <<>> /\ UNCHANGED <<queue, sessions, state, store>>

----------------------------------------------------------------------------
(***************************************************************************)
(* Events.  A range names the handle of its first message and leaves the   *)
(* others to be counted up from it; a mask names no handle and the         *)
(* receiver takes the sequence number for it (iter_handles).  A delivery   *)
(* has at most one range, so that no two ranges are ever merged.           *)
(***************************************************************************)
(* Wrong: the flag of a mask is lost. *)
MutEmitUnflagged(sh, c, seg) ==
    [consumer    |-> c,
     tags        |-> SegmentTags(seg),
     messages    |-> [t \in SegmentTags(seg) |-> SeqOfTag(seg, t)],
     handles     |-> [t \in SegmentTags(seg) |-> SeqOfTag(seg, t)],
     redelivered |-> FALSE]

emit_delivery(sh, c, seg) ==
    LET stored == sh.state.seq_payloads
    IN  IF seg.kind = "range"
        THEN [consumer    |-> c,
              tags        |-> SegmentTags(seg),
              messages    |-> [t \in SegmentTags(seg) |-> SeqOfTag(seg, t)],
              handles     |-> [t \in SegmentTags(seg) |->
                                  (IF seg.start_seq \in DOMAIN stored
                                   THEN stored[seg.start_seq]
                                   ELSE seg.start_seq) + (t - seg.first_tag)],
              redelivered |-> FALSE]
        ELSE [consumer    |-> c,
              tags        |-> SegmentTags(seg),
              messages    |-> [t \in SegmentTags(seg) |-> SeqOfTag(seg, t)],
              handles     |-> [t \in SegmentTags(seg) |-> SeqOfTag(seg, t)],
              redelivered |-> seg.bits \cap sh.queue.redelivered # {}]

(* One turn of the loop of deliver_consumer; delivering nothing ends it. *)
Handed(sh, c, r) ==
    LET segs == r.session.window.segments
        new  == SubSeq(segs, Len(sh.sessions[c].window.segments) + 1, Len(segs))
    IN  IF r.count = 0
        THEN sh
        ELSE [sh EXCEPT
                !.queue = r.queue,
                !.sessions[c] = r.session,
                !.deliveries = @ \o [i \in DOMAIN new |-> emit_delivery(sh, c, new[i])]]

DeliverTurn(sh, c) ==
    IF sh.sessions[c].cancelled
    THEN sh
    ELSE Handed(sh, c, deliver_from_queue(sh.sessions[c], sh.queue, MaxPerCall))

(* Every turn takes a message, so that MaxSeq turns run the loop to its end. *)
deliver_consumer(sh, c) ==
    FoldLeft(LAMBDA s, turn : DeliverTurn(s, c), sh, [turn \in 1 .. MaxSeq |-> turn])

(* One pass over the attached consumers, from next_consumer_index round. *)
Pass(sh) ==
    LET ids  == sh.state.consumers
        from == sh.state.next_consumer_index
    IN  FoldLeft(LAMBDA s, i : deliver_consumer(s, ids[((from + i - 1) % Len(ids)) + 1]),
                 sh, [i \in 1 .. Len(ids) |-> i])

(* A pass that delivers nothing is the last and leaves the index alone. *)
EndOfPass(sh, passed) ==
    IF passed.deliveries = sh.deliveries
    THEN sh
    ELSE [passed EXCEPT !.state.next_consumer_index = (@ + 1) % Len(sh.state.consumers)]

drive_queue(sh) ==
    IF sh.state.consumers = <<>>
    THEN sh
    ELSE FoldLeft(LAMBDA s, pass : EndOfPass(s, Pass(s)), sh, [pass \in 1 .. MaxPasses |-> pass])

----------------------------------------------------------------------------
(* Durable storage: one failed append makes it refuse all later ones. *)
EmptyStore ==
    [health |-> IF Durable THEN "healthy" ELSE "none",
     index |-> EmptyMap, settled |-> {}]

StoreFails(sh) == [sh EXCEPT !.store.health = "failed"]

(* append_publish writes the payloads, then the index entries. *)
append_publish(sh, entries) ==
    IF sh.left < 2
    THEN StoreFails(sh)
    ELSE [sh EXCEPT !.store.index = Inserted(@, entries), !.left = @ - 2]

(* Wrong: takes the end of the range for its last message. *)
MutAppendInclusive(sh, range) ==
    IF sh.store.health # "healthy" THEN sh
    ELSE IF sh.left = 0 THEN StoreFails(sh)
    ELSE [sh EXCEPT !.store.settled = @ \cup range.start_seq .. range.start_seq + range.len,
                    !.left = @ - 1]

(* Wrong: writes the record that ends before the last message. *)
MutAppendShort(sh, range) ==
    IF sh.store.health # "healthy" THEN sh
    ELSE IF sh.left = 0 THEN StoreFails(sh)
    ELSE [sh EXCEPT !.store.settled = @ \cup range.start_seq .. range.start_seq + range.len - 2,
                    !.left = @ - 1]

(* append_ack_ranges writes one record for each range. *)
AppendAckRange(sh, range) ==
    IF sh.store.health # "healthy" THEN sh
    ELSE IF sh.left = 0 THEN StoreFails(sh)
    ELSE [sh EXCEPT !.store.settled = @ \cup range.start_seq .. range.start_seq + range.len - 1,
                    !.left = @ - 1]

append_ack_ranges(sh, ranges) == FoldLeft(AppendAckRange, sh, ranges)

(* How many appends of a command succeed before the disk fails. *)
Appends == IF store.health = "healthy" THEN 0 .. MaxSeq + 1 ELSE {0}

----------------------------------------------------------------------------
(* Declare, publish, consume, credit. *)
exec_declare_queue ==
    /\ ~ state.declared
    /\ state' = [state EXCEPT !.declared = TRUE]
    /\ deliveries' = <<>>
    /\ UNCHANGED <<queue, sessions, store>>

(* The messages of a publish batch with and without records. *)
PayloadsOf(base, payloads) ==
    [s \in base .. base + Len(payloads) - 1 |-> payloads[s - base + 1]]

Placeholders(base, count) == [s \in base .. base + count - 1 |-> 0]

(* Wrong: publishes in memory whatever becomes of the append. *)
MutPublishRegardless(count, payloads, left) ==
    LET base   == queue.next_seq
        stored == IF store.health = "healthy"
                  THEN append_publish(Shard(left), PayloadsOf(base, payloads))
                  ELSE Shard(left)
    IN  /\ state.declared
        /\ base + count <= MaxSeq
        /\ Becomes(drive_queue(
               [stored EXCEPT
                   !.queue = publish_contiguous(@, count),
                   !.state.seq_payloads = Inserted(@, PayloadsOf(base, payloads))]))

exec_publish(count, payloads, left) ==
    LET base   == queue.next_seq
        stored == IF store.health = "none"
                  THEN Shard(left)
                  ELSE append_publish(Shard(left),
                           IF payloads = <<>> THEN Placeholders(base, count)
                           ELSE PayloadsOf(base, payloads))
    IN  /\ state.declared
        /\ base + count <= MaxSeq
        /\ IF store.health = "failed" \/ stored.store.health = "failed"
           THEN Becomes(StoreFails(Shard(left)))
           ELSE Becomes(drive_queue(
                    [stored EXCEPT
                        !.queue = publish_contiguous(@, count),
                        !.state.seq_payloads = Inserted(@, PayloadsOf(base, payloads))]))

(* Wrong: the new consumer is not driven. *)
MutConsumeIdle(c, prefetch) ==
    /\ state.declared
    /\ c \notin Registered
    /\ Becomes([Shard(0) EXCEPT !.sessions[c] = NewSession(prefetch),
                                !.state.consumers = Append(@, c)])

exec_consume_start(c, prefetch) ==
    /\ state.declared
    /\ c \notin Registered
    /\ Becomes(drive_queue(
           [Shard(0) EXCEPT !.sessions[c] = NewSession(prefetch),
                            !.state.consumers = Append(@, c)]))

(* The credit of the command is ignored. *)
exec_credit_update(c) ==
    /\ c \in Registered
    /\ Becomes(drive_queue(Shard(0)))

----------------------------------------------------------------------------
(***************************************************************************)
(* Settlement commands.  A command settles tags of the session; the result *)
(* counts what it settled and keeps the ranges for the ack ledger.         *)
(***************************************************************************)
NoCommandYet(sh) == [sh |-> sh, settled |-> 0, ranges |-> <<>>]

AfterTag(st, c, r) ==
    [sh      |-> [st.sh EXCEPT !.sessions[c] = r.session, !.queue = r.queue],
     settled |-> st.settled + BatchCount(r.batch),
     ranges  |-> st.ranges \o r.batch.ranges]

(* A tag that the session refuses is an error, and the next one is tried. *)
AckTag(st, c, item) ==
    IF CanSettle(st.sh.sessions[c], item.tag)
    THEN AfterTag(st, c, ack(st.sh.sessions[c], st.sh.queue, item.tag, item.mode))
    ELSE st

NackTag(st, c, item, reason) ==
    IF CanSettle(st.sh.sessions[c], item.tag)
    THEN AfterTag(st, c, nack(st.sh.sessions[c], st.sh.queue, item.tag, item.mode, reason))
    ELSE st

(* The tags a command settles.  A range settles everything up to its end.  *)
(* The loop over an ack mask counts the set bits and settles base,         *)
(* base + 1, ...; the loop over a nack mask looks at their positions.      *)
One(tag) == [tag |-> tag, mode |-> "one"]

TagOrRange(cmd) ==
    IF cmd.kind = "tag" THEN <<[tag |-> cmd.tag, mode |-> cmd.mode]>>
    ELSE <<[tag |-> cmd.end, mode |-> "multiple"]>>

AckTags(cmd) ==
    IF cmd.kind = "mask"
    THEN [i \in 1 .. Cardinality(cmd.bits) |-> One(cmd.base + i - 1)]
    ELSE TagOrRange(cmd)

(* Wrong: counts the bits of a mask, as the loop over an ack mask does. *)
MutNackCounts(cmd) == AckTags(cmd)

NackTags(cmd) ==
    IF cmd.kind = "mask"
    THEN [i \in 1 .. Cardinality(cmd.bits) |-> One(cmd.base + Nth(cmd.bits, i))]
    ELSE TagOrRange(cmd)

AckCommand(sh, c, cmd) ==
    FoldLeft(LAMBDA st, item : AckTag(st, c, item), NoCommandYet(sh), AckTags(cmd))

NackCommand(sh, c, cmd) ==
    FoldLeft(LAMBDA st, item : NackTag(st, c, item, cmd.reason), NoCommandYet(sh), NackTags(cmd))

(* The ack is applied in memory before it is appended to the ledger; when  *)
(* the append fails the command reports an error and counts nothing.       *)
Recorded(st, r, appended) ==
    [st EXCEPT !.sh = appended,
               !.settled = IF appended.store.health = "failed" THEN @ ELSE @ + r.settled]

RecordAck(st, r) == Recorded(st, r, append_ack_ranges(r.sh, r.ranges))

exec_ack_command(st, c, cmd) == RecordAck(st, AckCommand(st.sh, c, cmd))

CountNack(st, r) == [st EXCEPT !.sh = r.sh, !.settled = @ + r.settled]

exec_nack_command(st, c, cmd) == CountNack(st, NackCommand(st.sh, c, cmd))

exec_reject_command(st, c, cmd) ==
    CountNack(st, NackTag(NoCommandYet(st.sh), c, One(cmd.tag), cmd.reason))

(* The end of a batch: the queue is driven if anything was settled. *)
Finish(st) == Becomes(IF st.settled > 0 THEN drive_queue(st.sh) ELSE st.sh)

(* Wrong: the credit that acks gave back is not used. *)
MutAckIdle(c, items, left) ==
    /\ c \in Registered
    /\ Becomes(FoldLeft(LAMBDA s, cmd : exec_ack_command(s, c, cmd),
                        NoCommandYet(Shard(left)), items).sh)

exec_ack_batch(c, items, left) ==
    /\ c \in Registered
    /\ Finish(FoldLeft(LAMBDA s, cmd : exec_ack_command(s, c, cmd),
                       NoCommandYet(Shard(left)), items))

(* Whatever the reasons were, what is parked for retry becomes ready. *)
FinishNack(st) ==
    Finish(IF st.settled > 0 THEN [st EXCEPT !.sh.queue = retry_all_now(@)] ELSE st)

exec_nack_batch(c, items) ==
    /\ c \in Registered
    /\ FinishNack(FoldLeft(LAMBDA s, cmd : exec_nack_command(s, c, cmd),
                           NoCommandYet(Shard(0)), items))

exec_reject_batch(c, items) ==
    /\ c \in Registered
    /\ Finish(FoldLeft(LAMBDA s, cmd : exec_reject_command(s, c, cmd),
                       NoCommandYet(Shard(0)), items))

----------------------------------------------------------------------------
(* Wrong: leaves the index where it is. *)
MutDetachIndex(st, c) ==
    [st EXCEPT !.consumers = SelectSeq(@, LAMBDA d : d # c)]

(* Cancel: detach_consumer also resets an index that is out of range. *)
detach_consumer(st, c) ==
    LET left == SelectSeq(st.consumers, LAMBDA d : d # c)
    IN  [st EXCEPT !.consumers = left,
                   !.next_consumer_index = IF @ >= Len(left) THEN 0 ELSE @]

(* Wrong: forgets the session without cancelling it. *)
MutForget(c, requeue) ==
    /\ c \in Registered
    /\ Becomes([Shard(0) EXCEPT !.sessions[c] = Unregistered,
                                !.state = detach_consumer(@, c)])

AfterCancel(c, q) ==
    [Shard(0) EXCEPT !.queue = q, !.sessions[c] = Unregistered, !.state = detach_consumer(@, c)]

CancelDrives(sh, requeue) == Becomes(IF requeue THEN drive_queue(sh) ELSE sh)

exec_cancel(c, requeue) ==
    /\ c \in Registered
    /\ CancelDrives(AfterCancel(c, cancel(sessions[c], queue, requeue).queue), requeue)

(* The calls of an embedding program that are not commands. *)
deliver_pending == Becomes(drive_queue(Shard(0)))

retry_all_and_deliver ==
    Becomes(drive_queue([Shard(0) EXCEPT !.queue = retry_all_now(@)]))

----------------------------------------------------------------------------
ShardInit ==
    /\ queue = empty
    /\ sessions = [c \in Consumers |-> Unregistered]
    /\ state = [declared |-> FALSE, consumers |-> <<>>, next_consumer_index |-> 0,
                seq_payloads |-> EmptyMap]
    /\ store = EmptyStore
    /\ deliveries = <<>>

ExecPublish ==
    \E count \in 1 .. MaxSeq, left \in Appends :
        \E payloads \in {<<>>} \cup [1 .. count -> Handles] :
            exec_publish(count, payloads, left)

ShardNext ==
    \/ exec_declare_queue
    \/ ExecPublish
    \/ \E c \in Consumers, prefetch \in Prefetches : exec_consume_start(c, prefetch)
    \/ \E c \in Consumers : exec_credit_update(c)
    \/ \E c \in Consumers, items \in AckBatches, left \in Appends :
           exec_ack_batch(c, items, left)
    \/ \E c \in Consumers, items \in NackBatches : exec_nack_batch(c, items)
    \/ \E c \in Consumers, items \in RejectBatches : exec_reject_batch(c, items)
    \/ \E c \in Consumers, requeue \in BOOLEAN : exec_cancel(c, requeue)
    \/ Refused
    \/ deliver_pending
    \/ retry_all_and_deliver

ShardSpec == ShardInit /\ [][ShardNext]_shardVars

----------------------------------------------------------------------------
HasCredit(c) == c \in Registered /\ available(sessions[c], 1) > 0

(***************************************************************************)
(* The shard never sleeps on work: between commands no message is ready    *)
(* while an attached consumer has credit, whatever command came last and   *)
(* however few passes drive_queue may make.  Only a failed ledger append   *)
(* skips the drive (exec_ack_command returns the error after the credit    *)
(* was released).                                                          *)
(***************************************************************************)
WorkConserving ==
    store.health # "failed" =>
        \/ SequentialReady(queue) \cup queue.sparse_ready = {}
        \/ \A c \in Consumers : ~ HasCredit(c)

(***************************************************************************)
(* The queue's list of consumers and the registry name the same consumers, *)
(* each once, and the round-robin index is one of the list's, also after   *)
(* consumers left from the middle of it.                                   *)
(***************************************************************************)
RegistriesAgree ==
    LET ids == state.consumers
    IN  /\ ListsExactly(ids, Registered)
        /\ state.next_consumer_index \in 0 .. Len(ids)
        /\ ids # <<>> => state.next_consumer_index < Len(ids)

(***************************************************************************)
(* The sessions keep their books and own exactly the messages in flight,   *)
(* when they come and go and ids are used again.                           *)
(***************************************************************************)
SessionsStayValid ==
    CreditMatchesWindow /\ WindowsPartitionInflight /\ QueueStaysValid

(***************************************************************************)
(* What a command told a consumer is what the consumer's window holds: the *)
(* tag it was given settles that message, the redelivered flag is set      *)
(* exactly when the message was delivered before, and the first handle of  *)
(* a first delivery is the one that was published with the message.        *)
(***************************************************************************)
EventsMatchWindows ==
    \A i \in DOMAIN deliveries :
        LET d == deliveries[i]
        IN  \A t \in d.tags :
                /\ t \in WindowTags(sessions[d.consumer].window)
                /\ WindowMap(sessions[d.consumer].window)[t] = d.messages[t]
                /\ d.redelivered = (d.messages[t] \in queue.redelivered)
                /\ (~ d.redelivered /\ (\A u \in d.tags : t <= u)
                        /\ d.messages[t] \in DOMAIN state.seq_payloads) =>
                       d.handles[t] = state.seq_payloads[d.messages[t]]

(***************************************************************************)
(* A nack mask settles the tags base + i of its set bits i that are        *)
(* unsettled, and no others.                                               *)
(***************************************************************************)
MaskCommands ==
    [kind : {"mask"}, base : 1 .. MaxTag, bits : SUBSET (0 .. MaxSeq - 1) \ {{}},
     reason : {"requeue"}]

MaskTags(cmd) == {cmd.base + i : i \in cmd.bits}

NackMaskSettlesItsBits ==
    \A c \in Registered, cmd \in MaskCommands :
        WindowTags(NackCommand(Shard(0), c, cmd).sh.sessions[c].window)
            = WindowTags(sessions[c].window) \ MaskTags(cmd)

(* An ack mask: "each set bit i means ack the tag (base + i)". *)
AckMaskSettlesItsBits ==
    \A c \in Registered, cmd \in MaskCommands :
        WindowTags(AckCommand(Shard(0), c, cmd).sh.sessions[c].window)
            = WindowTags(sessions[c].window) \ MaskTags(cmd)
============================================================================
