---------------------------- MODULE AmqpSession ----------------------------
(***************************************************************************)
(* The AMQP session of one connection (crates/aurum-protocol-amqp/src/     *)
(* session/amqp_session.rs, channel.rs, consumers.rs, translate/           *)
(* outbound.rs).  One action per kind of frame; frames arrive in any order *)
(* on any channel.  The broker behind AmqpBrokerPort answers in any way:   *)
(* what a route resolves to is in RoutingBroker, what consumers are        *)
(* delivered is in ShardExecutor.                                          *)
(*                                                                         *)
(* A handler that returns an error changes nothing; the server drops the   *)
(* rest of what it read, as if the peer had not sent it.  A body is its    *)
(* number of bytes.  The prefetch count, names and properties pass through *)
(* the session unchanged and are left out.                                 *)
(***************************************************************************)
EXTENDS Naturals, FiniteSets, Functions

CONSTANTS
    Channels,       \* channel numbers, 1 among them
    Publishers,     \* the channels on which the peer publishes
    Subscribers,    \* the channels on which the peer consumes
    ConsumerTags,
    MaxId,          \* bound on the consumers a channel starts
    DeliveryTags,
    Sizes,          \* of bodies and of body frames
    MaxHeaders,     \* bound on the headers sent for one publish
    MaxCloses       \* bound on the times a channel is closed

ASSUME ChannelsAssumption ==
    1 \in Channels /\ Publishers \subseteq Channels /\ Subscribers \subseteq Channels

ASSUME SizesAssumption == Sizes \subseteq Nat /\ MaxId \in Nat

VARIABLES
    connection,   \* phase of the connection
    channels,     \* AmqpChannelState of every channel that was ever opened
    closes,       \* how often each channel was closed (history)
    command       \* what the last frame made the broker do (history)

vars == <<connection, channels, closes, command>>

None == [kind |-> "none"]
NoMap == [x \in {} |-> 0]

(* f with x mapped to y; f without x. *)
With(f, x, y) == [z \in DOMAIN f \cup {x} |-> IF z = x THEN y ELSE f[z]]
Without(f, x) == Restrict(f, DOMAIN f \ {x})

NewChannel ==
    [phase |-> "Open", tag_to_id |-> NoMap, id_to_tag |-> NoMap, next_consumer_id |-> 0,
     delivery_consumers |-> NoMap, sent |-> {}, pending |-> None]

IsOpen(ch) == ch \in DOMAIN channels /\ channels[ch].phase = "Open"

----------------------------------------------------------------------------
(* What a handler does is a record of the session's new state, or part of  *)
(* it: connection, channels, closes, command.                              *)
Session == [connection |-> connection, channels |-> channels, closes |-> closes,
            command |-> None]

Becomes(s) ==
    /\ \A ch \in Channels : s.closes[ch] <= MaxCloses
    /\ connection' = s.connection
    /\ channels' = s.channels
    /\ closes' = s.closes
    /\ command' = s.command

Update(s, ch, state) == [s EXCEPT !.channels[ch] = state]

connection_close(s) == [s EXCEPT !.connection = "Closing"]

InPhase(s, ch, phase) ==
    IF ch \in DOMAIN s.channels
    THEN [s EXCEPT !.channels[ch].phase = phase,
                   !.closes[ch] = IF s.channels[ch].phase = "Open" THEN @ + 1 ELSE @]
    ELSE s

channel_close(s, ch) == InPhase(s, ch, "Closing")

(* The broker's answers: errors of either scope, and at most one delivery. *)
Answers ==
    [errors : SUBSET {"Connection", "Channel"},
     deliveries : {{}} \cup {{<<tag, id>>} : tag \in DeliveryTags, id \in 1 .. MaxId}]

(* The consumer that was sent a tag last, and the pairs that were sent. *)
Noted(state, deliveries) ==
    LET Tag == {d[1] : d \in deliveries}
        Of(tag) == CHOOSE id \in 1 .. MaxId : <<tag, id>> \in deliveries
        old == state.delivery_consumers
        new == [tag \in DOMAIN old \cup Tag |-> IF tag \in Tag THEN Of(tag) ELSE old[tag]]
    IN  [state EXCEPT !.delivery_consumers = new, !.sent = @ \cup deliveries]

(* A delivery goes to the channel of the frame that is answered. *)
encode_delivery_batches(s, ch, deliveries) ==
    IF ch \notin DOMAIN s.channels THEN s
    ELSE Update(s, ch, Noted(s.channels[ch], deliveries))

emit_broker_output(s, ch, answer) ==
    LET s1 == IF "Connection" \in answer.errors THEN connection_close(s) ELSE s
        s2 == IF "Channel" \in answer.errors THEN channel_close(s1, ch) ELSE s1
    IN  encode_delivery_batches(s2, ch, answer.deliveries)

----------------------------------------------------------------------------
(* Frames of the connection. *)
ProtocolHeader ==
    /\ connection = "AwaitProtocolHeader"
    /\ Becomes([Session EXCEPT !.connection = "AwaitStartOk"])

on_connection_method(method) ==
    /\ connection # "AwaitProtocolHeader"
    /\ Becomes(
         CASE method = "StartOk" ->
                IF connection = "AwaitStartOk"
                THEN [Session EXCEPT !.connection = "AwaitTuneOk"]
                ELSE connection_close(Session)
           [] method = "TuneOk" -> [Session EXCEPT !.connection = "AwaitOpen"]
           [] method = "Open" -> [Session EXCEPT !.connection = "Open"]
           [] method \in {"Close", "CloseOk"} -> [Session EXCEPT !.connection = "Closed"]
           [] OTHER -> connection_close(Session))

ConnectionMethods == {"StartOk", "TuneOk", "Open", "Close", "CloseOk", "Other"}

(* A method on a channel of a connection that is not open. *)
EarlyMethod ==
    /\ connection \notin {"AwaitProtocolHeader", "Open"}
    /\ Becomes(connection_close(Session))

----------------------------------------------------------------------------
(* Wrong: a channel that is opened again keeps its state. *)
MutReopen(ch) ==
    /\ connection = "Open"
    /\ Becomes(IF ch \in DOMAIN channels
               THEN [Session EXCEPT !.channels[ch].phase = "Open"]
               ELSE [Session EXCEPT !.channels = With(@, ch, NewChannel)])

(* Opening an open channel starts it anew. *)
ChannelOpen(ch) ==
    /\ connection = "Open"
    /\ Becomes([Session EXCEPT !.channels = With(@, ch, NewChannel)])

(* Close and CloseOk of the peer. *)
ChannelClosed(ch) ==
    /\ connection = "Open"
    /\ Becomes(InPhase(Session, ch, "Closed"))

(* Declarations, bindings, qos and confirm.select leave the session alone; *)
(* what the broker refuses or the session does not support closes the      *)
(* channel.                                                                *)
Refused(ch) ==
    /\ connection = "Open"
    /\ IsOpen(ch)
    /\ Becomes(channel_close(Session, ch))

(* A method that channels do not have, also on a channel that is closed. *)
Unexpected(ch) ==
    /\ connection = "Open"
    /\ Becomes(channel_close(Session, ch))

----------------------------------------------------------------------------
(* ConsumerTagMap::insert and remove. *)
insert(state, tag) ==
    IF tag \in DOMAIN state.tag_to_id THEN state
    ELSE LET id == state.next_consumer_id + 1
         IN  [state EXCEPT !.next_consumer_id = id,
                           !.tag_to_id = With(@, tag, id),
                           !.id_to_tag = With(@, id, tag)]

(* Wrong: the consumer stays behind as a first consumer of the channel. *)
MutRemove(state, tag) == [state EXCEPT !.tag_to_id = Without(@, tag)]

remove(state, tag) ==
    [state EXCEPT !.tag_to_id = Without(@, tag),
                  !.id_to_tag = Without(@, state.tag_to_id[tag])]

Consume(ch, tag, answer) ==
    /\ connection = "Open"
    /\ IsOpen(ch)
    /\ LET state == insert(channels[ch], tag)
       IN  /\ state.next_consumer_id <= MaxId
           /\ Becomes(emit_broker_output(Update(Session, ch, state), ch, answer))

(* The answer to a cancel is not looked at. *)
Cancel(ch, tag) ==
    /\ connection = "Open"
    /\ IsOpen(ch)
    /\ tag \in DOMAIN channels[ch].tag_to_id
    /\ Becomes(Update(Session, ch, remove(channels[ch], tag)))

(* Without a delivery of that tag, any consumer of the channel: the order  *)
(* of a hash map's keys decides.                                           *)
consumer_for_delivery_tag(ch, tag) ==
    IF tag \in DOMAIN channels[ch].delivery_consumers
    THEN {channels[ch].delivery_consumers[tag]}
    ELSE DOMAIN channels[ch].id_to_tag

(* Ack, nack and reject. *)
Settle(ch, tag, answer) ==
    /\ connection = "Open"
    /\ IsOpen(ch)
    /\ \E id \in consumer_for_delivery_tag(ch, tag) :
           Becomes(emit_broker_output(
                     [Session EXCEPT !.command =
                         [kind |-> "settle", consumer |-> id,
                          receivers |-> {d[2] : d \in {d \in channels[ch].sent : d[1] = tag}},
                          consumers |-> Range(channels[ch].tag_to_id)]],
                     ch, answer))

(* What other connections left in the outbox goes to channel 1. *)
push_broker_output(answer) ==
    /\ connection # "AwaitProtocolHeader"
    /\ answer.errors = {} /\ answer.deliveries # {}
    /\ Becomes(emit_broker_output(Session, 1, answer))

----------------------------------------------------------------------------
(* Content.  The number of headers and of earlier closes are history. *)
Publish(ch) ==
    /\ connection = "Open"
    /\ IsOpen(ch)
    /\ IF channels[ch].pending # None
       THEN Becomes(channel_close(Session, ch))
       ELSE Becomes([Session EXCEPT !.channels[ch].pending =
                        [kind |-> "content", expected |-> 0, body |-> 0,
                         headers |-> 0, closes |-> closes[ch]]])

(* The route is found, or not: then the publish is dropped, with a close   *)
(* of the channel if it was mandatory.                                     *)
complete_publish(s, ch) ==
    LET taken == [s EXCEPT !.channels[ch].pending = None]
        handed == [taken EXCEPT !.command = [kind |-> "publish", closes |-> closes[ch],
                                             content |-> s.channels[ch].pending]]
    IN  \/ Becomes(taken)
        \/ Becomes(channel_close(taken, ch))
        \/ \E answer \in Answers : Becomes(emit_broker_output(handed, ch, answer))

(* Header and body frames do not look at the connection's phase.  A header *)
(* of another class than basic closes the channel.                         *)
on_header_frame(ch, class, size) ==
    /\ connection # "AwaitProtocolHeader"
    /\ IsOpen(ch)
    /\ IF channels[ch].pending = None \/ class # "basic"
       THEN Becomes(channel_close(Session, ch))
       ELSE LET p == [channels[ch].pending EXCEPT !.expected = size, !.headers = @ + 1]
                s == [Session EXCEPT !.channels[ch].pending = p]
            IN  /\ p.headers <= MaxHeaders
                /\ IF size = 0 THEN complete_publish(s, ch) ELSE Becomes(s)

(* Wrong: a body that is longer than announced completes the publish. *)
MutBody(ch, size) ==
    /\ connection # "AwaitProtocolHeader"
    /\ IsOpen(ch)
    /\ IF channels[ch].pending = None
       THEN Becomes(channel_close(Session, ch))
       ELSE LET p == [channels[ch].pending EXCEPT !.body = @ + size]
                s == [Session EXCEPT !.channels[ch].pending = p]
            IN  IF p.body >= p.expected THEN complete_publish(s, ch) ELSE Becomes(s)

on_body_frame(ch, size) ==
    /\ connection # "AwaitProtocolHeader"
    /\ IsOpen(ch)
    /\ IF channels[ch].pending = None
       THEN Becomes(channel_close(Session, ch))
       ELSE LET p == [channels[ch].pending EXCEPT !.body = @ + size]
                s == [Session EXCEPT !.channels[ch].pending = p]
            IN  CASE p.body > p.expected -> Becomes(channel_close(s, ch))
                  [] p.body = p.expected -> complete_publish(s, ch)
                  [] OTHER -> Becomes(s)

----------------------------------------------------------------------------
Init ==
    /\ connection = "AwaitProtocolHeader"
    /\ channels = NoMap
    /\ closes = [ch \in Channels |-> 0]
    /\ command = None

Next ==
    \/ ProtocolHeader
    \/ \E method \in ConnectionMethods : on_connection_method(method)
    \/ EarlyMethod
    \/ \E ch \in Channels :
           ChannelOpen(ch) \/ ChannelClosed(ch) \/ Refused(ch) \/ Unexpected(ch)
    \/ \E ch \in Subscribers, tag \in ConsumerTags :
           Cancel(ch, tag) \/ \E answer \in Answers : Consume(ch, tag, answer)
    \/ \E ch \in Subscribers, tag \in DeliveryTags, answer \in Answers : Settle(ch, tag, answer)
    \/ \E answer \in Answers : push_broker_output(answer)
    \/ \E ch \in Publishers : Publish(ch)
    \/ \E ch \in Publishers, size \in Sizes :
           \/ \E class \in {"basic", "other"} : on_header_frame(ch, class, size)
           \/ on_body_frame(ch, size)

Spec == Init /\ [][Next]_vars

----------------------------------------------------------------------------
(***************************************************************************)
(* What reaches the broker is a whole message: its body has the size that  *)
(* its header announced, whatever frames came in between on whatever       *)
(* channels (on_body_frame).  The one exception is a second header that    *)
(* announces an empty body: it publishes what came before it.              *)
(***************************************************************************)
PublishedWhole ==
    command.kind = "publish" =>
        \/ command.content.body = command.content.expected
        \/ command.content.headers > 1 /\ command.content.expected = 0

(***************************************************************************)
(* A message that was begun before its channel was closed, by either side, *)
(* is never published after the channel was opened again.                  *)
(***************************************************************************)
NoStalePublish ==
    command.kind = "publish" => command.content.closes = command.closes

(***************************************************************************)
(* A settlement names a consumer that was sent this tag on this channel    *)
(* since the channel was opened.  For a tag that was never sent there, it  *)
(* names a consumer that the channel has and has not cancelled.            *)
(***************************************************************************)
SettlementNamesReceiver ==
    command.kind = "settle" =>
        command.consumer \in IF command.receivers # {} THEN command.receivers
                             ELSE command.consumers
============================================================================
