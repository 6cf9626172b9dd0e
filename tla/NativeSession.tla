--------------------------- MODULE NativeSession ---------------------------
(***************************************************************************)
(* A connection of the native protocol: frames are cut out of what is read *)
(* (crates/aurum-protocol-native/src/codec), translated into commands      *)
(* (adapter/inbound.rs, session.rs), executed, and what the broker puts    *)
(* out is translated back into frames (adapter/outbound.rs), together with *)
(* what other connections left in the outbox (single_node/server.rs).      *)
(*                                                                         *)
(* The server sees what is in a frame only once it is whole, so that the   *)
(* peer's choice of a content is made when the frame is handed over.       *)
(*                                                                         *)
(* The broker is as ConsumerLedger has it, with what the shard answers:    *)
(* every consumer has the tags it has not settled.  ConsumerSession shows  *)
(* that the sessions of a shard implement that ledger.  Any command that   *)
(* drives the queue may hand out messages to any consumers.  The steps     *)
(* between the broker and the outbox are in BrokerService; as there, an id *)
(* is not used again once its consumer is cancelled.  Appends to the       *)
(* ledger succeed; DurableShard is about those that fail.                  *)
(***************************************************************************)
EXTENDS FrameStream, Integers, FiniteSets, Functions

CONSTANTS
    MaxId,          \* bound on consumer ids
    MaxTag,         \* bound on the tags a consumer is given
    MaxU64,         \* the largest number that a tag on the wire can have
    Prefetches,     \* 0 is unlimited
    OpBatches       \* the batches of operations that acks and nacks carry

ASSUME IdsAssumption ==
    /\ {MaxId, MaxTag, MaxU64} \subseteq Nat /\ MaxTag <= MaxU64
    /\ Prefetches \subseteq Nat

VARIABLES
    session,   \* NativeSessionState
    broker,    \* of every live consumer of this connection: its prefetch and tags
    ended,     \* the ids whose consumers were cancelled
    outbox,    \* the deliveries other connections' commands have pushed
    answer,    \* the frames that answer the last frame, until they are written
    told       \* what the peer's count of unsettled messages is, by consumer

nativeVars == <<streamVars, session, broker, ended, outbox, answer, told>>

Ids == 1 .. MaxId
NoMap == [x \in {} |-> 0]
With(f, x, y) == [z \in DOMAIN f \cup {x} |-> IF z = x THEN y ELSE f[z]]

----------------------------------------------------------------------------
(* What a frame can say.  "Unserved" is an operation that only servers     *)
(* send, or a body that does not decode, a publish whose payloads are not  *)
(* all in it included.  Dispositions, routes, payloads and their handles,  *)
(* names and stream ids pass through and are left out.                     *)
HelloBody == [op : {"Hello"}, major : {"same", "other"}]
ResolveRouteBody == [op : {"ResolveRoute"}, found : BOOLEAN]
PublishBatchBody == [op : {"PublishBatch"}, route : {"current", "stale"}]
ConsumeStartBody ==
    [op : {"ConsumeStart"}, hint : 0 .. MaxId, queue : {"declared", "unknown"},
     prefetch : Prefetches]
CreditUpdateBody == [op : {"CreditUpdate"}, consumer : Ids]
CancelConsumerBody == [op : {"CancelConsumer"}, consumer : Ids]
AckBatchBody == [op : {"AckBatch"}, consumer : Ids, ops : OpBatches]
NackBatchBody == [op : {"NackBatch"}, consumer : Ids, ops : OpBatches]

Contents ==
    HelloBody \cup ResolveRouteBody \cup PublishBatchBody \cup ConsumeStartBody
        \cup CreditUpdateBody \cup CancelConsumerBody \cup AckBatchBody \cup NackBatchBody
        \cup [op : {"Unserved"}]

ContentsOf(n) ==
    IF sent[n].len = 0 THEN [op : {"Heartbeat", "Unserved"}] ELSE Contents

----------------------------------------------------------------------------
(* NativeSessionState. *)
NewSession ==
    [hello_done |-> FALSE, next_consumer_id |-> 1, consumers |-> NoMap]

mark_hello(s) == [s EXCEPT !.hello_done = TRUE]

assign_consumer_id(s, hint) == IF hint = 0 THEN s.next_consumer_id ELSE hint

AfterAssign(s, hint) ==
    IF hint = 0 THEN [s EXCEPT !.next_consumer_id = @ + 1] ELSE s

(* Wrong: what is known of an id is not replaced. *)
MutRegister(s, id, prefetch) ==
    IF id \in DOMAIN s.consumers THEN s
    ELSE [s EXCEPT !.consumers = With(@, id, prefetch)]

(* Before the broker has agreed, and for good. *)
register_consumer(s, id, prefetch) == [s EXCEPT !.consumers = With(@, id, prefetch)]

----------------------------------------------------------------------------
(* Inbound: the command a frame is translated to, a frame that answers it  *)
(* at once, or an error.                                                   *)
Error == [kind |-> "error"]
Immediate(op) == [kind |-> "immediate", op |-> op]
Command(cmd) == [kind |-> "command", cmd |-> cmd]

(* checked_add: the last tag of a range must be a tag. *)
OpRefused(op) == op.kind = "Range" /\ (op.len = 0 \/ op.tag + op.len - 1 > MaxU64)

(* AckCommand and NackCommand, with what the shard makes of a range: all   *)
(* tags up to its end.                                                     *)
Settlement(op) ==
    IF op.kind = "Range" THEN [tag |-> op.tag + op.len - 1, mode |-> "multiple"]
    ELSE [tag |-> op.tag, mode |-> IF op.kind = "One" THEN "one" ELSE "multiple"]

Settlements(c) ==
    IF \E i \in DOMAIN c.ops : OpRefused(c.ops[i]) THEN Error
    ELSE Command([kind |-> "settle", consumer |-> c.consumer,
                  items |-> [i \in DOMAIN c.ops |-> Settlement(c.ops[i])]])

translate_hello(c) == IF c.major = "same" THEN Immediate("HelloOk") ELSE Error
heartbeat_ack == Immediate("HeartbeatAck")
translate_resolve_route(c) == Command([kind |-> "resolve", found |-> c.found])
translate_publish(c) == Command([kind |-> "publish", route |-> c.route])
translate_consume_start(s, c) ==
    Command([kind |-> "consume", consumer |-> assign_consumer_id(s, c.hint),
             queue |-> c.queue, prefetch |-> c.prefetch])
translate_credit(c) == Command([kind |-> "credit", consumer |-> c.consumer])
translate_cancel(c) == Command([kind |-> "cancel", consumer |-> c.consumer])
translate_ack(c) == Settlements(c)
translate_nack(c) == Settlements(c)

translate_frame(s, c) ==
    CASE c.op = "Hello" -> translate_hello(c)
      [] c.op = "Heartbeat" -> heartbeat_ack
      [] c.op = "ResolveRoute" -> translate_resolve_route(c)
      [] c.op = "PublishBatch" -> translate_publish(c)
      [] c.op = "ConsumeStart" -> translate_consume_start(s, c)
      [] c.op = "CreditUpdate" -> translate_credit(c)
      [] c.op = "AckBatch" -> translate_ack(c)
      [] c.op = "NackBatch" -> translate_nack(c)
      [] c.op = "CancelConsumer" -> translate_cancel(c)
      [] OTHER -> Error

(* What translating a frame leaves of the session. *)
SessionAfter(s, c) ==
    CASE c.op = "Hello" /\ c.major = "same" -> mark_hello(s)
      [] c.op = "ConsumeStart" ->
            register_consumer(AfterAssign(s, c.hint), assign_consumer_id(s, c.hint), c.prefetch)
      [] OTHER -> s

----------------------------------------------------------------------------
(* The broker.  An output is what ShardOutputBatch holds of the command;   *)
(* deliveries are sets of tags by consumer.                                *)
NoOutput ==
    [resolved |-> 0, confirms |-> 0, deliveries |-> NoMap, settlements |-> <<>>,
     started |-> {}, errors |-> 0]

Failed == [NoOutput EXCEPT !.errors = 1]

(* One settlement: the consumers, how many tags it settled, how many fail. *)
Settle(r, consumer, item) ==
    IF consumer \notin DOMAIN r.broker \/ item.tag \notin r.broker[consumer].unsettled
    THEN [r EXCEPT !.errors = @ + 1]
    ELSE LET tags == IF item.mode = "one" THEN {item.tag}
                     ELSE {t \in r.broker[consumer].unsettled : t <= item.tag}
         IN  [r EXCEPT !.broker[consumer].unsettled = @ \ tags,
                       !.settled = @ + Cardinality(tags)]

SettleAll(b, consumer, items) ==
    FoldLeft(LAMBDA r, item : Settle(r, consumer, item),
             [broker |-> b, settled |-> 0, errors |-> 0], items)

(* The consumers after a command, what it puts out, and whether it drives  *)
(* the queue.                                                              *)
Execute(b, cmd) ==
    LET Done(b2, output, drives) == [broker |-> b2, output |-> output, drives |-> drives]
    IN  CASE cmd.kind = "resolve" ->
               Done(b, IF cmd.found THEN [NoOutput EXCEPT !.resolved = 1] ELSE Failed, FALSE)
          [] cmd.kind = "publish" ->
               IF cmd.route = "stale" THEN Done(b, Failed, FALSE)
               ELSE Done(b, [NoOutput EXCEPT !.confirms = 1], TRUE)
          [] cmd.kind = "consume" ->
               IF cmd.queue = "unknown" \/ cmd.consumer \in DOMAIN b THEN Done(b, Failed, FALSE)
               ELSE Done(With(b, cmd.consumer,
                              [prefetch |-> cmd.prefetch, next_tag |-> 1, unsettled |-> {}]),
                         [NoOutput EXCEPT !.started = {cmd.consumer}], TRUE)
          [] cmd.kind = "credit" ->
               IF cmd.consumer \in DOMAIN b THEN Done(b, NoOutput, TRUE)
               ELSE Done(b, Failed, FALSE)
          [] cmd.kind = "cancel" ->
               IF cmd.consumer \notin DOMAIN b THEN Done(b, Failed, FALSE)
               ELSE Done(Restrict(b, DOMAIN b \ {cmd.consumer}), NoOutput, TRUE)
          [] cmd.kind = "settle" ->
               LET r == SettleAll(b, cmd.consumer, cmd.items)
               IN  Done(r.broker,
                        [NoOutput EXCEPT !.settlements =
                             IF r.settled = 0 THEN <<>>
                             ELSE <<[consumer |-> cmd.consumer, settled |-> r.settled]>>,
                         !.errors = r.errors],
                        r.settled > 0)

(* The tags that the broker can give to a consumer next. *)
CanHold(state, tags) ==
    state.prefetch # 0 => Cardinality(state.unsettled \cup tags) <= state.prefetch

NextTags(state) == {state.next_tag .. last : last \in state.next_tag - 1 .. MaxTag}

(* What driving the queue can hand out. *)
Handouts(b) ==
    {h \in [DOMAIN b -> UNION {NextTags(b[c]) : c \in DOMAIN b}] :
        \A c \in DOMAIN b : h[c] \in NextTags(b[c]) /\ CanHold(b[c], h[c])}

HandedOut(b, h) ==
    [c \in DOMAIN b |-> [b[c] EXCEPT !.next_tag = @ + Cardinality(h[c]),
                                     !.unsettled = @ \cup h[c]]]

----------------------------------------------------------------------------
(* Wrong: what other connections pushed replaces what was handed out. *)
MutMerge(output, pushed) ==
    IF pushed = NoMap THEN output ELSE [output EXCEPT !.deliveries = pushed]

(* The outbox holds deliveries only. *)
merge_output(output, pushed) ==
    [output EXCEPT !.deliveries =
        [c \in DOMAIN @ \cup DOMAIN pushed |->
            (IF c \in DOMAIN @ THEN @[c] ELSE {})
                \cup (IF c \in DOMAIN pushed THEN pushed[c] ELSE {})]]

(* The frames of an output.  A delivery batch has a descriptor for every   *)
(* tag, of ranges and masks; without any there is no frame.                *)
route_resolved_frame(correlation) == [op |-> "RouteResolved", correlation |-> correlation]

confirm_frame(correlation) == [op |-> "PublishConfirmBatch", correlation |-> correlation]

delivery_frame(consumer, tags) ==
    [op |-> "DeliveryBatch", correlation |-> 0, consumer |-> consumer, tags |-> tags]

settlement_frame(settlement) ==
    [op |-> "SettlementResultBatch", correlation |-> 0,
     consumer |-> settlement.consumer, settled |-> settlement.settled]

consumer_ok_frame(s, consumer, correlation) ==
    [op |-> "ConsumerOk", correlation |-> correlation, consumer |-> consumer,
     prefetch |-> s.consumers[consumer]]

error_frame(correlation) == [op |-> "ErrorFrame", correlation |-> correlation]

(* Every kind of output in turn; a delivery comes before the ConsumerOk of *)
(* the command that started its consumer.                                  *)
translate_outputs(s, output, correlation) ==
    LET d == output.deliveries
    IN  [i \in 1 .. output.resolved |-> route_resolved_frame(correlation)]
            \o [i \in 1 .. output.confirms |-> confirm_frame(correlation)]
            \o SetToSeq({delivery_frame(c, d[c]) : c \in {c \in DOMAIN d : d[c] # {}}})
            \o [i \in DOMAIN output.settlements |-> settlement_frame(output.settlements[i])]
            \o SetToSeq({consumer_ok_frame(s, c, correlation) :
                             c \in output.started \cap DOMAIN s.consumers})
            \o [i \in 1 .. output.errors |-> error_frame(correlation)]

(* What the peer counts: deliveries up, settlements down, of consumers     *)
(* that it has not cancelled.                                              *)
Count(counts, frame) ==
    CASE frame.op = "DeliveryBatch" ->
           [counts EXCEPT ![frame.consumer] = @ + Cardinality(frame.tags)]
      [] frame.op = "SettlementResultBatch" ->
           [counts EXCEPT ![frame.consumer] = @ - frame.settled]
      [] OTHER -> counts

Answer(frames) ==
    /\ answer' = frames
    /\ LET counts == FoldLeft(Count, told, frames)
       IN  told' = [c \in Ids |-> IF c \in ended' THEN 0 ELSE counts[c]]

----------------------------------------------------------------------------
(* execute_command and encode_output.  A push that lands after the command *)
(* and before the outbox is drained is like one before the command, or     *)
(* like a larger hand-out.                                                 *)
RunCommand(cmd, correlation) ==
    LET r == Execute(broker, cmd)
    IN  /\ ended' = ended \cup (DOMAIN broker \ DOMAIN r.broker)
        /\ \E h \in IF r.drives THEN Handouts(r.broker) ELSE {NoMap} :
               /\ broker' = IF r.drives THEN HandedOut(r.broker, h) ELSE r.broker
               /\ Answer(translate_outputs(session',
                             merge_output([r.output EXCEPT !.deliveries = h], outbox),
                             correlation))
        /\ outbox' = NoMap

native_error_frame(correlation) == error_frame(correlation)

on_frame(n, c) ==
    LET t == translate_frame(session, c)
    IN  /\ session' = SessionAfter(session, c)
        /\ c.op = "ConsumeStart" => LET id == assign_consumer_id(session, c.hint)
                                    IN  id \in Ids \ ended
        /\ IF t.kind = "command" THEN RunCommand(t.cmd, n)
           ELSE /\ UNCHANGED <<broker, outbox, ended>>
                /\ Answer(<<IF t.kind = "error" THEN native_error_frame(n)
                            ELSE [op |-> t.op, correlation |-> n]>>)

(* Wrong: a frame waits for the first byte of the next one. *)
MutDecoded(buf) == {n \in HeaderHere(buf) : Len(buf) > HeaderLen + sent[n].len}

(* The frame that is whole in the buffer, or none. *)
Decoded(buf) == {n \in HeaderHere(buf) : Len(buf) >= HeaderLen + sent[n].len}

DecodeFrame ==
    /\ busy
    /\ \E n \in Decoded(buffer) :
           /\ HandOver(n, SubSeq(buffer, HeaderLen + 1, HeaderLen + sent[n].len),
                       SubSeq(buffer, HeaderLen + sent[n].len + 1, Len(buffer)))
           /\ \E c \in ContentsOf(n) : on_frame(n, c)

(* Wrong: the bytes of a bad frame, and those read with it, are dropped. *)
MutNoFrame ==
    /\ busy /\ Decoded(buffer) = {}
    /\ Return(IF Len(buffer) >= HeaderLen /\ HeaderHere(buffer) = {} THEN <<>> ELSE buffer)
    /\ answer' = <<>>
    /\ UNCHANGED <<session, broker, ended, outbox, told>>

(* Not a whole frame, or a bad one: the bytes stay where they are, and the *)
(* answers are written.                                                    *)
NoFrame ==
    /\ busy /\ Decoded(buffer) = {}
    /\ Return(buffer)
    /\ answer' = <<>>
    /\ UNCHANGED <<session, broker, ended, outbox, told>>

(* Another connection's command drives the queue. *)
Push ==
    /\ \E h \in Handouts(broker) :
           /\ \E c \in DOMAIN h : h[c] # {}
           /\ broker' = HandedOut(broker, h)
           /\ outbox' = merge_output([NoOutput EXCEPT !.deliveries = h], outbox).deliveries
    /\ UNCHANGED <<streamVars, session, ended, answer, told>>

Init ==
    /\ StreamInit
    /\ session = NewSession
    /\ broker = NoMap /\ ended = {} /\ outbox = NoMap
    /\ answer = <<>>
    /\ told = [c \in Ids |-> 0]

Next ==
    \/ \E shape \in Shapes :
           Write(shape) /\ UNCHANGED <<session, broker, ended, outbox, answer, told>>
    \/ Read(buffer) /\ UNCHANGED <<session, broker, ended, outbox, answer, told>>
    \/ DecodeFrame
    \/ NoFrame
    \/ Push

Spec == Init /\ [][Next]_nativeVars

----------------------------------------------------------------------------
(***************************************************************************)
(* The number of messages that a peer believes a consumer has to settle,   *)
(* from the deliveries and the settlement results it was sent, and those   *)
(* that wait in its outbox, are what the broker counts for that consumer:  *)
(* neither a push of another connection, nor a batch that fails in part,   *)
(* nor a range that settles more than it names makes the two drift apart   *)
(* (execute_command, translate_outputs).                                   *)
(***************************************************************************)
WindowTold ==
    \A c \in DOMAIN broker :
        told[c] + Cardinality(IF c \in DOMAIN outbox THEN outbox[c] ELSE {})
            = Cardinality(broker[c].unsettled)

(***************************************************************************)
(* A ConsumerOk names a consumer that was started, with the prefetch the   *)
(* broker started it with, whatever the session had noted under that id    *)
(* before, of starts that the broker refused (register_consumer runs       *)
(* before the broker does).                                                *)
(***************************************************************************)
ConsumerOkIsTrue ==
    \A i \in DOMAIN answer :
        answer[i].op = "ConsumerOk" =>
            \/ /\ answer[i].consumer \in DOMAIN broker
               /\ broker[answer[i].consumer].prefetch = answer[i].prefetch
            \/ answer[i].consumer \in ended
============================================================================
