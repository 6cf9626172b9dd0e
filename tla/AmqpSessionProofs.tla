------------------------- MODULE AmqpSessionProofs -------------------------
(***************************************************************************)
(* What AmqpSession promises, for every set of channels, tags and sizes    *)
(* and every number of consumers, headers and closes.                      *)
(***************************************************************************)
EXTENDS AmqpSession, TLAPS

----------------------------------------------------------------------------
(* The inductive invariant, of the record that handlers work on.           *)

(* Every consumer tag has an id of its own, and id_to_tag has those ids. *)
ConsumersOK(c) ==
    /\ c.next_consumer_id \in Nat
    /\ \A t \in DOMAIN c.tag_to_id : c.tag_to_id[t] \in 1 .. c.next_consumer_id
    /\ \A t, u \in DOMAIN c.tag_to_id : c.tag_to_id[t] = c.tag_to_id[u] => t = u
    /\ DOMAIN c.id_to_tag = Range(c.tag_to_id)

(* The consumer noted for a tag was sent it; one is noted for every tag. *)
DeliveriesOK(c) ==
    /\ \A t \in DOMAIN c.delivery_consumers : <<t, c.delivery_consumers[t]>> \in c.sent
    /\ \A d \in c.sent : d[1] \in DOMAIN c.delivery_consumers

(* A message that is being assembled on an open channel was begun since    *)
(* the channel was opened; before its header it has no body.               *)
Pendings ==
    {None} \cup [kind : {"content"}, expected : Nat, body : Nat, headers : Nat, closes : Nat]

ContentOK(c, n) ==
    /\ c.pending \in Pendings
    /\ c.phase = "Open" /\ c.pending # None =>
           /\ c.pending.closes = n
           /\ c.pending.headers = 0 => c.pending.body = 0 /\ c.pending.expected = 0

IsChannel(c) ==
    c = [phase |-> c.phase, tag_to_id |-> c.tag_to_id, id_to_tag |-> c.id_to_tag,
         next_consumer_id |-> c.next_consumer_id,
         delivery_consumers |-> c.delivery_consumers, sent |-> c.sent,
         pending |-> c.pending]

ChannelOK(c, n) == IsChannel(c) /\ ConsumersOK(c) /\ DeliveriesOK(c) /\ ContentOK(c, n)

(* What the runs check of the last command. *)
CommandOK(c) ==
    /\ c.kind = "publish" =>
           /\ \/ c.content.body = c.content.expected
              \/ c.content.headers > 1 /\ c.content.expected = 0
           /\ c.content.closes = c.closes
    /\ c.kind = "settle" =>
           c.consumer \in IF c.receivers # {} THEN c.receivers ELSE c.consumers

SessionOK(s) ==
    /\ s = [connection |-> s.connection, channels |-> s.channels, closes |-> s.closes,
            command |-> s.command]
    /\ s.channels = [ch \in DOMAIN s.channels |-> s.channels[ch]]
    /\ DOMAIN s.channels \subseteq Channels
    /\ s.closes \in [Channels -> Nat]
    /\ \A ch \in DOMAIN s.channels : ChannelOK(s.channels[ch], s.closes[ch])
    /\ CommandOK(s.command)

IInv ==
    SessionOK([connection |-> connection, channels |-> channels, closes |-> closes,
               command |-> command])

----------------------------------------------------------------------------
(* The parts of handlers. *)

(* What a handler starts from; it has made no command yet. *)
LEMMA SessionIsOK ==
    IInv => SessionOK(Session)
BY DEF IInv, SessionOK, Session, CommandOK, None

(* A handler's result is the next state. *)
LEMMA BecomesKeeps ==
    ASSUME NEW s, SessionOK(s), Becomes(s)
    PROVE  IInv'
<1>1. [connection |-> connection', channels |-> channels', closes |-> closes',
       command |-> command'] = s
  BY DEF SessionOK, Becomes
<1>2. QED
  BY <1>1 DEF IInv

(* A channel's new state. *)
LEMMA UpdateKeeps ==
    ASSUME NEW s, SessionOK(s), NEW ch \in DOMAIN s.channels,
           NEW c, ChannelOK(c, s.closes[ch])
    PROVE  SessionOK(Update(s, ch, c))
<1> DEFINE r == Update(s, ch, c)
<1>1. /\ r = [connection |-> r.connection, channels |-> r.channels, closes |-> r.closes,
              command |-> r.command]
      /\ r.closes = s.closes /\ r.command = s.command
      /\ r.channels = [s.channels EXCEPT ![ch] = c]
  BY DEF SessionOK, Update
<1>2. /\ DOMAIN r.channels = DOMAIN s.channels
      /\ r.channels = [d \in DOMAIN r.channels |-> r.channels[d]]
      /\ \A d \in DOMAIN s.channels : r.channels[d] = IF d = ch THEN c ELSE s.channels[d]
  BY <1>1 DEF SessionOK
<1>3. \A d \in DOMAIN r.channels : ChannelOK(r.channels[d], r.closes[d])
  BY <1>1, <1>2 DEF SessionOK
<1>4. QED
  BY <1>1, <1>2, <1>3 DEF SessionOK

(* A connection-scoped error touches no channel. *)
LEMMA ConnectionCloseKeeps ==
    ASSUME NEW s, SessionOK(s)
    PROVE  SessionOK(connection_close(s))
BY DEF SessionOK, connection_close

(* A channel that leaves the phase Open, and is counted. *)
LEMMA InPhaseKeeps ==
    ASSUME NEW s, SessionOK(s), NEW ch \in Channels, NEW phase, phase # "Open"
    PROVE  SessionOK(InPhase(s, ch, phase))
<1>1. CASE ch \notin DOMAIN s.channels
  BY <1>1 DEF InPhase
<1>2. CASE ch \in DOMAIN s.channels
  <2> DEFINE r == InPhase(s, ch, phase)
             c == [s.channels[ch] EXCEPT !.phase = phase]
             n == IF s.channels[ch].phase = "Open" THEN s.closes[ch] + 1 ELSE s.closes[ch]
  <2>1. /\ r = [connection |-> r.connection, channels |-> r.channels, closes |-> r.closes,
                command |-> r.command]
        /\ r.command = s.command
        /\ r.channels = [s.channels EXCEPT ![ch] = c]
        /\ r.closes = [s.closes EXCEPT ![ch] = n]
    BY <1>2 DEF SessionOK, InPhase
  <2>2. /\ DOMAIN r.channels = DOMAIN s.channels
        /\ r.channels = [d \in DOMAIN r.channels |-> r.channels[d]]
        /\ \A d \in DOMAIN s.channels : r.channels[d] = IF d = ch THEN c ELSE s.channels[d]
    BY <2>1 DEF SessionOK
  <2>3. /\ r.closes \in [Channels -> Nat]
        /\ \A d \in Channels \ {ch} : r.closes[d] = s.closes[d]
    BY <2>1 DEF SessionOK
  <2>4. ChannelOK(c, r.closes[ch])
    <3>1. ChannelOK(s.channels[ch], s.closes[ch])
      BY <1>2 DEF SessionOK
    <3>2. /\ IsChannel(c) /\ c.phase = phase
          /\ c.tag_to_id = s.channels[ch].tag_to_id
          /\ c.id_to_tag = s.channels[ch].id_to_tag
          /\ c.next_consumer_id = s.channels[ch].next_consumer_id
          /\ c.delivery_consumers = s.channels[ch].delivery_consumers
          /\ c.sent = s.channels[ch].sent
          /\ c.pending = s.channels[ch].pending
      BY <3>1 DEF ChannelOK, IsChannel
    <3>3. ConsumersOK(c) /\ DeliveriesOK(c)
      BY <3>1, <3>2 DEF ChannelOK, ConsumersOK, DeliveriesOK
    <3>4. ContentOK(c, r.closes[ch])
      BY <3>1, <3>2 DEF ChannelOK, ContentOK
    <3>5. QED
      BY <3>2, <3>3, <3>4 DEF ChannelOK
  <2>5. \A d \in DOMAIN r.channels : ChannelOK(r.channels[d], r.closes[d])
    BY <2>2, <2>3, <2>4 DEF SessionOK
  <2>6. QED
    BY <2>1, <2>2, <2>3, <2>5 DEF SessionOK
<1>3. QED
  BY <1>1, <1>2

(* A channel-scoped error: the channel leaves the phase Open. *)
LEMMA ChannelCloseKeeps ==
    ASSUME NEW s, SessionOK(s), NEW ch \in Channels
    PROVE  SessionOK(channel_close(s, ch))
BY InPhaseKeeps DEF channel_close

Pairs == DeliveryTags \X (1 .. MaxId)

(* What the broker delivers are tags, each with a consumer's id. *)
LEMMA AnswersDeliverPairs ==
    ASSUME NEW answer \in Answers
    PROVE  answer.deliveries \subseteq Pairs
BY DEF Answers, Pairs

(* Deliveries are noted on a channel. *)
LEMMA EncodeKeeps ==
    ASSUME NEW s, SessionOK(s), NEW ch, NEW deliveries \in SUBSET Pairs
    PROVE  SessionOK(encode_delivery_batches(s, ch, deliveries))
<1>1. CASE ch \notin DOMAIN s.channels
  BY <1>1 DEF encode_delivery_batches
<1>2. CASE ch \in DOMAIN s.channels
  <2> DEFINE Tag == {d[1] : d \in deliveries}
             Of(tag) == CHOOSE id \in 1 .. MaxId : <<tag, id>> \in deliveries
             old == s.channels[ch]
             dc == [tag \in DOMAIN old.delivery_consumers \cup Tag |->
                       IF tag \in Tag THEN Of(tag) ELSE old.delivery_consumers[tag]]
             c == [old EXCEPT !.delivery_consumers = dc, !.sent = @ \cup deliveries]
  <2>1. encode_delivery_batches(s, ch, deliveries) = Update(s, ch, c)
    BY <1>2 DEF encode_delivery_batches, Noted
  <2>2. ChannelOK(old, s.closes[ch])
    BY <1>2 DEF SessionOK
  <2>3. \A tag \in Tag : <<tag, Of(tag)>> \in deliveries
    <3>1. SUFFICES ASSUME NEW tag \in Tag
                   PROVE  \E id \in 1 .. MaxId : <<tag, id>> \in deliveries
      OBVIOUS
    <3>2. PICK d \in deliveries : d[1] = tag
      OBVIOUS
    <3>3. d = <<d[1], d[2]>> /\ d[2] \in 1 .. MaxId
      BY DEF Pairs
    <3>4. QED
      BY <3>2, <3>3
  <2> HIDE DEF Of
  <2>4. /\ IsChannel(c)
        /\ c.phase = old.phase /\ c.pending = old.pending
        /\ c.tag_to_id = old.tag_to_id /\ c.id_to_tag = old.id_to_tag
        /\ c.next_consumer_id = old.next_consumer_id
        /\ c.delivery_consumers = dc /\ c.sent = old.sent \cup deliveries
    <3> DEFINE a == [old EXCEPT !.delivery_consumers = dc]
               sent == old.sent \cup deliveries
    <3>1. c = [a EXCEPT !.sent = sent]
      OBVIOUS
    <3> HIDE DEF dc, old, sent, c
    <3>2. /\ IsChannel(a)
          /\ a.phase = old.phase /\ a.pending = old.pending
          /\ a.tag_to_id = old.tag_to_id /\ a.id_to_tag = old.id_to_tag
          /\ a.next_consumer_id = old.next_consumer_id
          /\ a.delivery_consumers = dc
      BY <2>2 DEF ChannelOK, IsChannel
    <3> HIDE DEF a
    <3>3. QED
      BY <3>1, <3>2 DEF IsChannel, sent
  <2>5. DeliveriesOK(c)
    <3>1. \A t \in DOMAIN dc : <<t, dc[t]>> \in old.sent \cup deliveries
      BY <2>2, <2>3 DEF ChannelOK, DeliveriesOK
    <3>2. \A d \in old.sent \cup deliveries : d[1] \in DOMAIN dc
      BY <2>2 DEF ChannelOK, DeliveriesOK
    <3>3. QED
      BY <2>4, <3>1, <3>2 DEF DeliveriesOK
  <2>6. ConsumersOK(c) /\ ContentOK(c, s.closes[ch])
    BY <2>2, <2>4 DEF ChannelOK, ConsumersOK, ContentOK
  <2>7. ChannelOK(c, s.closes[ch])
    BY <2>4, <2>5, <2>6 DEF ChannelOK
  <2>8. QED
    BY <1>2, <2>1, <2>7, UpdateKeeps
<1>3. QED
  BY <1>1, <1>2

(* What the broker answers. *)
LEMMA EmitKeeps ==
    ASSUME NEW s, SessionOK(s), NEW ch \in Channels, NEW answer \in Answers
    PROVE  SessionOK(emit_broker_output(s, ch, answer))
<1> DEFINE s1 == IF "Connection" \in answer.errors THEN connection_close(s) ELSE s
           s2 == IF "Channel" \in answer.errors THEN channel_close(s1, ch) ELSE s1
<1>1. SessionOK(s1)
  BY ConnectionCloseKeeps
<1>2. SessionOK(s2)
  BY <1>1, ChannelCloseKeeps
<1>3. answer.deliveries \in SUBSET Pairs
  BY AnswersDeliverPairs
<1>4. SessionOK(encode_delivery_batches(s2, ch, answer.deliveries))
  BY <1>2, <1>3, EncodeKeeps
<1>5. QED
  BY <1>4 DEF emit_broker_output

(* A command is noted. *)
LEMMA CommandKeeps ==
    ASSUME NEW s, SessionOK(s), NEW c, CommandOK(c)
    PROVE  SessionOK([s EXCEPT !.command = c])
BY DEF SessionOK

(* A channel's new message, or the end of one. *)
LEMMA PendingKeeps ==
    ASSUME NEW s, SessionOK(s), NEW ch \in DOMAIN s.channels, NEW p \in Pendings,
           s.channels[ch].phase = "Open" /\ p # None =>
               /\ p.closes = s.closes[ch]
               /\ p.headers = 0 => p.body = 0 /\ p.expected = 0
    PROVE  SessionOK([s EXCEPT !.channels[ch].pending = p])
<1> DEFINE old == s.channels[ch]
           c == [old EXCEPT !.pending = p]
<1>1. [s EXCEPT !.channels[ch].pending = p] = Update(s, ch, c)
  BY DEF Update
<1>2. ChannelOK(old, s.closes[ch])
  BY DEF SessionOK
<1>3. /\ IsChannel(c)
      /\ c.phase = old.phase /\ c.pending = p
      /\ c.tag_to_id = old.tag_to_id /\ c.id_to_tag = old.id_to_tag
      /\ c.next_consumer_id = old.next_consumer_id
      /\ c.delivery_consumers = old.delivery_consumers /\ c.sent = old.sent
  BY <1>2 DEF ChannelOK, IsChannel
<1>4. ChannelOK(c, s.closes[ch])
  BY <1>2, <1>3 DEF ChannelOK, ConsumersOK, DeliveriesOK, ContentOK
<1>5. QED
  BY <1>1, <1>4, UpdateKeeps

(* A message that is complete goes to the broker, or nowhere. *)
LEMMA CompleteKeeps ==
    ASSUME NEW s, SessionOK(s), s.closes = closes, NEW ch \in DOMAIN s.channels,
           s.channels[ch].pending.closes = closes[ch],
           \/ s.channels[ch].pending.body = s.channels[ch].pending.expected
           \/ s.channels[ch].pending.headers > 1 /\ s.channels[ch].pending.expected = 0,
           complete_publish(s, ch)
    PROVE  IInv'
<1> DEFINE taken == [s EXCEPT !.channels[ch].pending = None]
           cmd == [kind |-> "publish", closes |-> closes[ch],
                   content |-> s.channels[ch].pending]
           handed == [taken EXCEPT !.command = cmd]
<1>1. ch \in Channels
  BY DEF SessionOK
<1>2. SessionOK(taken)
  <2>1. None \in Pendings
    BY DEF Pendings
  <2>2. QED
    BY <2>1, PendingKeeps
<1>3. SessionOK(channel_close(taken, ch))
  BY <1>1, <1>2, ChannelCloseKeeps
<1>4. CommandOK(cmd)
  BY DEF CommandOK
<1>5. SessionOK(handed)
  <2> HIDE DEF taken, cmd
  <2>1. QED
    BY <1>2, <1>4, CommandKeeps
<1>6. \A answer \in Answers : SessionOK(emit_broker_output(handed, ch, answer))
  BY <1>1, <1>5, EmitKeeps
<1>7. \/ Becomes(taken)
      \/ Becomes(channel_close(taken, ch))
      \/ \E answer \in Answers : Becomes(emit_broker_output(handed, ch, answer))
  BY DEF complete_publish
<1> HIDE DEF taken, handed
<1>8. QED
  BY <1>2, <1>3, <1>6, <1>7, BecomesKeeps

(* A channel that is opened. *)
LEMMA NewChannelIsOK ==
    ASSUME NEW n \in Nat
    PROVE  ChannelOK(NewChannel, n)
<1>1. DOMAIN NoMap = {} /\ Range(NoMap) = {}
  BY DEF NoMap, Range
<1>2. IsChannel(NewChannel) /\ ContentOK(NewChannel, n)
  BY DEF IsChannel, NewChannel, ContentOK, Pendings
<1>3. ConsumersOK(NewChannel) /\ DeliveriesOK(NewChannel)
  BY <1>1 DEF NewChannel, ConsumersOK, DeliveriesOK
<1>4. QED
  BY <1>2, <1>3 DEF ChannelOK

(* A channel is opened, for the first time or again. *)
LEMMA OpenKeeps ==
    ASSUME NEW s, SessionOK(s), NEW ch \in Channels
    PROVE  SessionOK([s EXCEPT !.channels = With(@, ch, NewChannel)])
<1> DEFINE f == With(s.channels, ch, NewChannel)
           r == [s EXCEPT !.channels = f]
<1>1. /\ DOMAIN f = DOMAIN s.channels \cup {ch}
      /\ f = [d \in DOMAIN f |-> f[d]]
      /\ \A d \in DOMAIN f : f[d] = IF d = ch THEN NewChannel ELSE s.channels[d]
  BY DEF With
<1> HIDE DEF f
<1>2. /\ r = [connection |-> r.connection, channels |-> r.channels, closes |-> r.closes,
              command |-> r.command]
      /\ r.channels = f /\ r.closes = s.closes /\ r.command = s.command
  BY DEF SessionOK
<1>3. s.closes[ch] \in Nat
  BY DEF SessionOK
<1>4. \A d \in DOMAIN f : ChannelOK(f[d], s.closes[d])
  BY <1>1, <1>3, NewChannelIsOK DEF SessionOK
<1>5. SessionOK(r)
  BY <1>1, <1>2, <1>4 DEF SessionOK
<1>6. QED
  BY <1>5 DEF f

(* Consumers that come and go on a channel. *)
LEMMA InsertKeeps ==
    ASSUME NEW c, NEW n, ChannelOK(c, n), NEW tag
    PROVE  ChannelOK(insert(c, tag), n)
<1>1. CASE tag \in DOMAIN c.tag_to_id
  BY <1>1 DEF insert
<1>2. CASE tag \notin DOMAIN c.tag_to_id
  <2> DEFINE id == c.next_consumer_id + 1
             f == With(c.tag_to_id, tag, id)
             g == With(c.id_to_tag, id, tag)
             a == [c EXCEPT !.next_consumer_id = id]
             b == [a EXCEPT !.tag_to_id = f]
             r == [b EXCEPT !.id_to_tag = g]
  <2>1. insert(c, tag) = r
    BY <1>2 DEF insert, ChannelOK, IsChannel
  <2>2. /\ DOMAIN f = DOMAIN c.tag_to_id \cup {tag}
        /\ \A t \in DOMAIN f : f[t] = IF t = tag THEN id ELSE c.tag_to_id[t]
        /\ DOMAIN g = DOMAIN c.id_to_tag \cup {id}
    BY DEF With
  <2>3. DOMAIN g = Range(f)
    BY <1>2, <2>2 DEF ChannelOK, ConsumersOK, Range
  <2>4. /\ id \in Nat
        /\ \A t \in DOMAIN f : f[t] \in 1 .. id
        /\ \A t, u \in DOMAIN f : f[t] = f[u] => t = u
    BY <1>2, <2>2 DEF ChannelOK, ConsumersOK
  <2> HIDE DEF f, g, id
  <2>5. /\ IsChannel(a)
        /\ a.next_consumer_id = id
        /\ a.phase = c.phase /\ a.pending = c.pending
        /\ a.delivery_consumers = c.delivery_consumers /\ a.sent = c.sent
    BY DEF ChannelOK, IsChannel
  <2> HIDE DEF a
  <2>6. /\ IsChannel(b)
        /\ b.next_consumer_id = id /\ b.tag_to_id = f
        /\ b.phase = c.phase /\ b.pending = c.pending
        /\ b.delivery_consumers = c.delivery_consumers /\ b.sent = c.sent
    BY <2>5 DEF IsChannel
  <2> HIDE DEF b
  <2>7. /\ IsChannel(r)
        /\ r.next_consumer_id = id /\ r.tag_to_id = f /\ r.id_to_tag = g
        /\ r.phase = c.phase /\ r.pending = c.pending
        /\ r.delivery_consumers = c.delivery_consumers /\ r.sent = c.sent
    BY <2>6 DEF IsChannel
  <2> HIDE DEF r
  <2>8. ConsumersOK(r)
    BY <2>3, <2>4, <2>7 DEF ConsumersOK
  <2>9. DeliveriesOK(r) /\ ContentOK(r, n)
    BY <2>7 DEF ChannelOK, DeliveriesOK, ContentOK
  <2>10. QED
    BY <2>1, <2>7, <2>8, <2>9 DEF ChannelOK
<1>3. QED
  BY <1>1, <1>2

(* A cancelled consumer takes its tag and its id with it. *)
LEMMA RemoveKeeps ==
    ASSUME NEW c, NEW n, ChannelOK(c, n), NEW tag \in DOMAIN c.tag_to_id
    PROVE  ChannelOK(remove(c, tag), n)
<1> DEFINE f == Without(c.tag_to_id, tag)
           g == Without(c.id_to_tag, c.tag_to_id[tag])
           a == [c EXCEPT !.tag_to_id = f]
           r == [a EXCEPT !.id_to_tag = g]
<1>1. remove(c, tag) = r
  BY DEF remove, ChannelOK, IsChannel
<1>2. /\ DOMAIN f = DOMAIN c.tag_to_id \ {tag}
      /\ \A t \in DOMAIN f : f[t] = c.tag_to_id[t]
      /\ DOMAIN g = DOMAIN c.id_to_tag \ {c.tag_to_id[tag]}
  BY DEF Without, Restrict
<1>3. DOMAIN g = Range(f)
  BY <1>2 DEF ChannelOK, ConsumersOK, Range
<1>4. /\ \A t \in DOMAIN f : f[t] \in 1 .. c.next_consumer_id
      /\ \A t, u \in DOMAIN f : f[t] = f[u] => t = u
  BY <1>2 DEF ChannelOK, ConsumersOK
<1> HIDE DEF f, g
<1>5. /\ IsChannel(a)
      /\ a.next_consumer_id = c.next_consumer_id /\ a.tag_to_id = f
      /\ a.phase = c.phase /\ a.pending = c.pending
      /\ a.delivery_consumers = c.delivery_consumers /\ a.sent = c.sent
  BY DEF ChannelOK, IsChannel
<1> HIDE DEF a
<1>6. /\ IsChannel(r)
      /\ r.next_consumer_id = c.next_consumer_id /\ r.tag_to_id = f /\ r.id_to_tag = g
      /\ r.phase = c.phase /\ r.pending = c.pending
      /\ r.delivery_consumers = c.delivery_consumers /\ r.sent = c.sent
  BY <1>5 DEF IsChannel
<1> HIDE DEF r
<1>7. ConsumersOK(r)
  BY <1>3, <1>4, <1>6 DEF ChannelOK, ConsumersOK
<1>8. DeliveriesOK(r) /\ ContentOK(r, n)
  BY <1>6 DEF ChannelOK, DeliveriesOK, ContentOK
<1>9. QED
  BY <1>1, <1>6, <1>7, <1>8 DEF ChannelOK

----------------------------------------------------------------------------
(* The frames. *)

(* The connection's frames touch no channel. *)
LEMMA ConnectionFrames ==
    IInv /\ (ProtocolHeader \/ EarlyMethod
               \/ \E method \in ConnectionMethods : on_connection_method(method)) => IInv'
<1> SUFFICES ASSUME IInv,
                    ProtocolHeader \/ EarlyMethod
                        \/ \E method \in ConnectionMethods : on_connection_method(method)
             PROVE  IInv'
  OBVIOUS
<1>1. SessionOK(Session)
  BY SessionIsOK
<1>2. \A phase : SessionOK([Session EXCEPT !.connection = phase])
  BY <1>1 DEF SessionOK, Session
<1>3. SessionOK(connection_close(Session))
  BY <1>1, ConnectionCloseKeeps
<1>4. CASE ProtocolHeader
  BY <1>2, <1>4, BecomesKeeps DEF ProtocolHeader
<1>5. CASE EarlyMethod
  BY <1>3, <1>5, BecomesKeeps DEF EarlyMethod
<1>6. ASSUME NEW method \in ConnectionMethods, on_connection_method(method)
      PROVE  IInv'
  <2>1. \/ \E phase : Becomes([Session EXCEPT !.connection = phase])
        \/ Becomes(connection_close(Session))
    BY <1>6 DEF on_connection_method, ConnectionMethods
  <2>2. QED
    BY <1>2, <1>3, <2>1, BecomesKeeps
<1>7. QED
  BY <1>4, <1>5, <1>6

(* The methods of class channel, and methods the session refuses. *)
LEMMA ChannelFrames ==
    ASSUME IInv, NEW ch \in Channels,
           ChannelOpen(ch) \/ ChannelClosed(ch) \/ Refused(ch) \/ Unexpected(ch)
    PROVE  IInv'
<1>1. SessionOK(Session)
  BY SessionIsOK
<1>2. CASE ChannelOpen(ch)
  <2>1. SessionOK([Session EXCEPT !.channels = With(@, ch, NewChannel)])
    BY <1>1, OpenKeeps
  <2>2. QED
    BY <1>2, <2>1, BecomesKeeps DEF ChannelOpen
<1>3. CASE ChannelClosed(ch)
  BY <1>1, <1>3, InPhaseKeeps, BecomesKeeps DEF ChannelClosed
<1>4. CASE Refused(ch) \/ Unexpected(ch)
  BY <1>1, <1>4, ChannelCloseKeeps, BecomesKeeps DEF Refused, Unexpected
<1>5. QED
  BY <1>2, <1>3, <1>4

(* An open channel, as the handlers that need one find it. *)
LEMMA OpenChannel ==
    ASSUME IInv, NEW ch, IsOpen(ch)
    PROVE  /\ ch \in DOMAIN Session.channels /\ ch \in Channels
           /\ Session.channels[ch] = channels[ch] /\ Session.closes = closes
           /\ ChannelOK(channels[ch], closes[ch]) /\ channels[ch].phase = "Open"
BY DEF IInv, SessionOK, Session, IsOpen

(* basic.consume and basic.cancel. *)
LEMMA ConsumerFrames ==
    ASSUME IInv, NEW ch \in Channels, NEW tag \in ConsumerTags,
           Cancel(ch, tag) \/ \E answer \in Answers : Consume(ch, tag, answer)
    PROVE  IInv'
<1>1. SessionOK(Session)
  BY SessionIsOK
<1>2. IsOpen(ch)
  BY DEF Cancel, Consume
<1>3. /\ ch \in DOMAIN Session.channels /\ Session.closes = closes
      /\ ChannelOK(channels[ch], closes[ch])
  BY <1>2, OpenChannel
<1>4. CASE Cancel(ch, tag)
  <2>1. ChannelOK(remove(channels[ch], tag), closes[ch])
    BY <1>3, <1>4, RemoveKeeps DEF Cancel
  <2>2. SessionOK(Update(Session, ch, remove(channels[ch], tag)))
    BY <1>1, <1>3, <2>1, UpdateKeeps
  <2>3. QED
    BY <1>4, <2>2, BecomesKeeps DEF Cancel
<1>5. ASSUME NEW answer \in Answers, Consume(ch, tag, answer)
      PROVE  IInv'
  <2> DEFINE s == Update(Session, ch, insert(channels[ch], tag))
  <2>1. ChannelOK(insert(channels[ch], tag), closes[ch])
    BY <1>3, InsertKeeps
  <2>2. SessionOK(s)
    BY <1>1, <1>3, <2>1, UpdateKeeps
  <2>3. Becomes(emit_broker_output(s, ch, answer))
    BY <1>5 DEF Consume
  <2> HIDE DEF s
  <2>4. QED
    BY <2>2, <2>3, EmitKeeps, BecomesKeeps
<1>6. QED
  BY <1>4, <1>5

(* A settlement names the consumer that was sent the tag. *)
LEMMA SettleFrames ==
    ASSUME IInv, NEW ch \in Channels, NEW tag \in DeliveryTags, NEW answer \in Answers,
           Settle(ch, tag, answer)
    PROVE  IInv'
<1> DEFINE receivers == {d[2] : d \in {d \in channels[ch].sent : d[1] = tag}}
           cmd(id) == [kind |-> "settle", consumer |-> id, receivers |-> receivers,
                       consumers |-> Range(channels[ch].tag_to_id)]
<1>1. SessionOK(Session)
  BY SessionIsOK
<1>2. ChannelOK(channels[ch], closes[ch])
  BY OpenChannel DEF Settle
<1>3. PICK id \in consumer_for_delivery_tag(ch, tag) :
          Becomes(emit_broker_output([Session EXCEPT !.command = cmd(id)], ch, answer))
  BY DEF Settle
<1>4. id \in IF receivers # {} THEN receivers ELSE Range(channels[ch].tag_to_id)
  <2>1. CASE tag \in DOMAIN channels[ch].delivery_consumers
    <3>1. <<tag, id>> \in channels[ch].sent
      BY <1>2, <1>3, <2>1 DEF consumer_for_delivery_tag, ChannelOK, DeliveriesOK
    <3>2. <<tag, id>>[1] = tag /\ <<tag, id>>[2] = id
      OBVIOUS
    <3>3. id \in receivers
      BY <3>1, <3>2
    <3>4. QED
      BY <3>3
  <2>2. CASE tag \notin DOMAIN channels[ch].delivery_consumers
    <3>1. receivers = {}
      BY <1>2, <2>2 DEF ChannelOK, DeliveriesOK
    <3>2. id \in Range(channels[ch].tag_to_id)
      BY <1>2, <1>3, <2>2 DEF consumer_for_delivery_tag, ChannelOK, ConsumersOK
    <3>3. QED
      BY <3>1, <3>2
  <2>3. QED
    BY <2>1, <2>2
<1> HIDE DEF receivers
<1>5. CommandOK(cmd(id))
  BY <1>4 DEF CommandOK
<1> HIDE DEF cmd
<1>6. SessionOK([Session EXCEPT !.command = cmd(id)])
  BY <1>1, <1>5, CommandKeeps
<1>7. SessionOK(emit_broker_output([Session EXCEPT !.command = cmd(id)], ch, answer))
  BY <1>6, EmitKeeps
<1>8. QED
  BY <1>3, <1>7, BecomesKeeps

(* What the broker sends by itself arrives on channel 1. *)
LEMMA PushedOutput ==
    ASSUME IInv, NEW answer \in Answers, push_broker_output(answer)
    PROVE  IInv'
<1>1. SessionOK(emit_broker_output(Session, 1, answer))
  BY SessionIsOK, EmitKeeps, ChannelsAssumption
<1>2. QED
  BY <1>1, BecomesKeeps DEF push_broker_output

(* basic.publish begins a message; within another it closes the channel. *)
LEMMA PublishFrames ==
    ASSUME IInv, NEW ch \in Channels, Publish(ch)
    PROVE  IInv'
<1> DEFINE p == [kind |-> "content", expected |-> 0, body |-> 0, headers |-> 0,
                 closes |-> closes[ch]]
<1>1. SessionOK(Session)
  BY SessionIsOK
<1>2. ch \in DOMAIN Session.channels /\ Session.closes = closes /\ closes[ch] \in Nat
  BY OpenChannel DEF Publish, IInv, SessionOK
<1>3. CASE channels[ch].pending # None
  BY <1>1, <1>3, ChannelCloseKeeps, BecomesKeeps DEF Publish
<1>4. CASE channels[ch].pending = None
  <2>1. p \in Pendings /\ p.closes = closes[ch] /\ p.body = 0 /\ p.expected = 0
    BY <1>2 DEF Pendings
  <2>2. Becomes([Session EXCEPT !.channels[ch].pending = p])
    BY <1>4 DEF Publish
  <2> HIDE DEF p
  <2>3. SessionOK([Session EXCEPT !.channels[ch].pending = p])
    BY <1>1, <1>2, <2>1, PendingKeeps
  <2>4. QED
    BY <2>2, <2>3, BecomesKeeps
<1>5. QED
  BY <1>3, <1>4

(* The message that is being assembled on an open channel. *)
LEMMA OpenContent ==
    ASSUME IInv, NEW ch, IsOpen(ch), channels[ch].pending # None
    PROVE  LET p == channels[ch].pending
           IN  /\ p \in [kind : {"content"}, expected : Nat, body : Nat, headers : Nat,
                          closes : Nat]
               /\ p.closes = closes[ch]
               /\ p.headers = 0 => p.body = 0 /\ p.expected = 0
BY OpenChannel DEF ChannelOK, ContentOK, Pendings

(* A header: a first one finds no body yet. *)
LEMMA HeaderFrames ==
    ASSUME IInv, NEW ch \in Channels, NEW class, NEW size \in Sizes,
           on_header_frame(ch, class, size)
    PROVE  IInv'
<1>1. SessionOK(Session) /\ size \in Nat
  BY SessionIsOK, SizesAssumption
<1>2. CASE channels[ch].pending = None \/ class # "basic"
  BY <1>1, <1>2, ChannelCloseKeeps, BecomesKeeps DEF on_header_frame
<1>3. CASE ~ (channels[ch].pending = None \/ class # "basic")
  <2> DEFINE old == channels[ch].pending
             p == [old EXCEPT !.expected = size, !.headers = @ + 1]
             s == [Session EXCEPT !.channels[ch].pending = p]
  <2>1. /\ ch \in DOMAIN Session.channels
        /\ Session.channels[ch] = channels[ch] /\ Session.closes = closes
    BY OpenChannel DEF on_header_frame
  <2>2. /\ old \in [kind : {"content"}, expected : Nat, body : Nat, headers : Nat, closes : Nat]
        /\ old.closes = closes[ch]
        /\ old.headers = 0 => old.body = 0 /\ old.expected = 0
    BY <1>3, OpenContent DEF on_header_frame
  <2>3. IF size = 0 THEN complete_publish(s, ch) ELSE Becomes(s)
    BY <1>3 DEF on_header_frame
  <2>4. /\ p \in Pendings
        /\ p.closes = closes[ch] /\ p.expected = size /\ p.body = old.body
        /\ p.headers = old.headers + 1 /\ p.headers # 0
    <3> DEFINE q == [old EXCEPT !.expected = size]
    <3>1. p = [q EXCEPT !.headers = @ + 1]
      BY <2>2
    <3> HIDE DEF old
    <3>2. /\ q \in [kind : {"content"}, expected : Nat, body : Nat, headers : Nat, closes : Nat]
          /\ q.closes = closes[ch] /\ q.expected = size /\ q.body = old.body
          /\ q.headers = old.headers
      BY <1>1, <2>2
    <3> HIDE DEF q, p
    <3>3. QED
      BY <3>1, <3>2, <2>2 DEF Pendings
  <2> HIDE DEF p
  <2>5. SessionOK(s)
    BY <1>1, <2>1, <2>4, PendingKeeps
  <2>6. s.closes = closes /\ ch \in DOMAIN s.channels /\ s.channels[ch].pending = p
    BY <1>1, <2>1 DEF Session, SessionOK, ChannelOK, IsChannel
  <2> HIDE DEF s
  <2>7. CASE size = 0
    <3>1. p.body = p.expected \/ (p.headers > 1 /\ p.expected = 0)
      BY <2>2, <2>4, <2>7
    <3>2. QED
      BY <2>3, <2>4, <2>5, <2>6, <2>7, <3>1, CompleteKeeps
  <2>8. CASE size # 0
    BY <2>3, <2>5, <2>8, BecomesKeeps
  <2>9. QED
    BY <2>7, <2>8
<1>4. QED
  BY <1>2, <1>3

Assembling(s, ch, p) == [s EXCEPT !.channels[ch].pending = p]

(* A channel that closes takes whatever was pending along. *)
LEMMA CloseWithPending ==
    ASSUME NEW s, SessionOK(s), NEW ch \in DOMAIN s.channels, NEW p
    PROVE  /\ ch \in DOMAIN channel_close(s, ch).channels
           /\ channel_close(s, ch).channels[ch].phase = "Closing"
           /\ channel_close(Assembling(s, ch, p), ch) = Assembling(channel_close(s, ch), ch, p)
<1> DEFINE r == channel_close(s, ch)
           t == Assembling(s, ch, p)
           u == channel_close(t, ch)
           w == Assembling(r, ch, p)
           c == s.channels[ch]
           n == IF c.phase = "Open" THEN s.closes[ch] + 1 ELSE s.closes[ch]
           closing == [c EXCEPT !.phase = "Closing"]
           given == [c EXCEPT !.pending = p]
<1>1. IsChannel(c)
  BY DEF SessionOK, ChannelOK
<1>2. /\ given.phase = c.phase /\ closing.phase = "Closing"
      /\ [given EXCEPT !.phase = "Closing"] = [closing EXCEPT !.pending = p]
  BY <1>1 DEF IsChannel
<1>3. r = [connection |-> s.connection, channels |-> [s.channels EXCEPT ![ch] = closing],
           closes |-> [s.closes EXCEPT ![ch] = n], command |-> s.command]
  BY DEF SessionOK, channel_close, InPhase
<1>4. t = [connection |-> s.connection, channels |-> [s.channels EXCEPT ![ch] = given],
           closes |-> s.closes, command |-> s.command]
  BY DEF SessionOK, Assembling
<1>5. ch \in DOMAIN r.channels /\ r.channels[ch] = closing
  BY <1>3 DEF SessionOK
<1>6. ch \in DOMAIN t.channels /\ t.channels[ch] = given
  BY <1>4 DEF SessionOK
<1> HIDE DEF r, t
<1>7. u = [connection |-> s.connection,
           channels |-> [s.channels EXCEPT ![ch] = [given EXCEPT !.phase = "Closing"]],
           closes |-> [s.closes EXCEPT ![ch] = n], command |-> s.command]
  <2> DEFINE x == [given EXCEPT !.phase = "Closing"]
             f == [s.channels EXCEPT ![ch] = given]
             v == [t EXCEPT !.channels = [f EXCEPT ![ch] = x]]
  <2>1. u = [v EXCEPT !.closes = [s.closes EXCEPT ![ch] = n]]
    BY <1>2, <1>4, <1>6 DEF channel_close, InPhase
  <2> HIDE DEF u, given, x, n
  <2>2. [f EXCEPT ![ch] = x] = [s.channels EXCEPT ![ch] = x]
    BY DEF SessionOK
  <2> HIDE DEF f
  <2>3. v = [connection |-> s.connection, channels |-> [s.channels EXCEPT ![ch] = x],
             closes |-> s.closes, command |-> s.command]
    BY <1>4, <2>2
  <2> HIDE DEF v
  <2>4. u = [connection |-> s.connection, channels |-> [s.channels EXCEPT ![ch] = x],
             closes |-> [s.closes EXCEPT ![ch] = n], command |-> s.command]
    BY <2>1, <2>3
  <2>5. QED
    BY <2>4 DEF x
<1>8. w = [connection |-> s.connection,
           channels |-> [s.channels EXCEPT ![ch] = [closing EXCEPT !.pending = p]],
           closes |-> [s.closes EXCEPT ![ch] = n], command |-> s.command]
  <2> DEFINE x == [closing EXCEPT !.pending = p]
             f == [s.channels EXCEPT ![ch] = closing]
  <2>1. w = [r EXCEPT !.channels = [f EXCEPT ![ch] = x]]
    BY <1>3, <1>5 DEF Assembling
  <2> HIDE DEF w, closing, x, n
  <2>2. [f EXCEPT ![ch] = x] = [s.channels EXCEPT ![ch] = x]
    BY DEF SessionOK
  <2> HIDE DEF f
  <2>3. w = [connection |-> s.connection, channels |-> [s.channels EXCEPT ![ch] = x],
             closes |-> [s.closes EXCEPT ![ch] = n], command |-> s.command]
    BY <1>3, <2>1, <2>2
  <2>4. QED
    BY <2>3 DEF x
<1>9. u = w /\ ch \in DOMAIN r.channels /\ r.channels[ch].phase = "Closing"
  BY <1>2, <1>5, <1>7, <1>8
<1>10. QED
  BY <1>9 DEF r, t

(* A part of a body.  On a channel that closes anything may be pending. *)
LEMMA BodyFrames ==
    ASSUME IInv, NEW ch \in Channels, NEW size \in Sizes, on_body_frame(ch, size)
    PROVE  IInv'
<1>1. SessionOK(Session) /\ size \in Nat
  BY SessionIsOK, SizesAssumption
<1>2. CASE channels[ch].pending = None
  BY <1>1, <1>2, ChannelCloseKeeps, BecomesKeeps DEF on_body_frame
<1>3. CASE channels[ch].pending # None
  <2> DEFINE old == channels[ch].pending
             p == [old EXCEPT !.body = @ + size]
             s == [Session EXCEPT !.channels[ch].pending = p]
  <2>1. /\ ch \in DOMAIN Session.channels
        /\ Session.channels[ch] = channels[ch] /\ Session.closes = closes
    BY OpenChannel DEF on_body_frame
  <2>2. /\ old \in [kind : {"content"}, expected : Nat, body : Nat, headers : Nat, closes : Nat]
        /\ old.closes = closes[ch]
        /\ old.headers = 0 => old.body = 0 /\ old.expected = 0
    BY <1>3, OpenContent DEF on_body_frame
  <2>3. /\ p \in Pendings
        /\ p.closes = closes[ch] /\ p.expected = old.expected
        /\ p.body = old.body + size /\ p.headers = old.headers
        /\ p.body \in Nat /\ p.expected \in Nat
    <3> HIDE DEF old
    <3>1. QED
      BY <1>1, <2>2 DEF Pendings
  <2>4. (CASE p.body > p.expected -> Becomes(channel_close(s, ch))
           [] p.body = p.expected -> complete_publish(s, ch)
           [] OTHER -> Becomes(s))
    BY <1>3 DEF on_body_frame
  <2> HIDE DEF p
  <2>5. CASE p.body > p.expected
    <3> DEFINE r == channel_close(Session, ch)
    <3>1. Becomes(channel_close(s, ch))
      <4> HIDE DEF s
      <4>1. QED
        BY <2>3, <2>4, <2>5
    <3>2. /\ SessionOK(r) /\ ch \in DOMAIN r.channels /\ r.channels[ch].phase = "Closing"
          /\ channel_close(s, ch) = [r EXCEPT !.channels[ch].pending = p]
      <4>1. SessionOK(r)
        BY <1>1, ChannelCloseKeeps
      <4>2. /\ ch \in DOMAIN r.channels /\ r.channels[ch].phase = "Closing"
            /\ channel_close(s, ch) = [r EXCEPT !.channels[ch].pending = p]
        <5>1. /\ ch \in DOMAIN r.channels /\ r.channels[ch].phase = "Closing"
              /\ channel_close(Assembling(Session, ch, p), ch) = Assembling(r, ch, p)
          BY <1>1, <2>1, CloseWithPending
        <5>2. QED
          BY <5>1 DEF Assembling
      <4>3. QED
        BY <4>1, <4>2
    <3> HIDE DEF r
    <3>3. SessionOK([r EXCEPT !.channels[ch].pending = p])
      BY <2>3, <3>2, PendingKeeps
    <3>4. QED
      BY <3>1, <3>2, <3>3, BecomesKeeps
  <2>6. CASE ~ (p.body > p.expected)
    <3>1. SessionOK(s)
      <4>1. p.headers = 0 => p.body = 0 /\ p.expected = 0
        <5> HIDE DEF old
        <5>1. QED
          BY <2>2, <2>3, <2>6
      <4>2. QED
        BY <1>1, <2>1, <2>3, <4>1, PendingKeeps
    <3>2. s.closes = closes /\ ch \in DOMAIN s.channels /\ s.channels[ch].pending = p
      BY <1>1, <2>1 DEF Session, SessionOK, ChannelOK, IsChannel
    <3> HIDE DEF s
    <3>3. p.body = p.expected => complete_publish(s, ch)
      BY <2>4, <2>6
    <3>4. p.body # p.expected => Becomes(s)
      BY <2>4, <2>6
    <3>5. QED
      BY <2>3, <3>1, <3>2, <3>3, <3>4, CompleteKeeps, BecomesKeeps
  <2>7. QED
    BY <2>5, <2>6
<1>4. QED
  BY <1>2, <1>3

----------------------------------------------------------------------------
(* The invariant holds at first, and every frame keeps it. *)
LEMMA InitiallyOK ==
    Init => IInv
<1> SUFFICES ASSUME Init PROVE IInv
  OBVIOUS
<1>1. channels = NoMap /\ DOMAIN NoMap = {} /\ NoMap = [x \in DOMAIN NoMap |-> NoMap[x]]
  BY DEF Init, NoMap
<1>2. closes \in [Channels -> Nat] /\ CommandOK(command)
  BY DEF Init, CommandOK, None
<1>3. QED
  BY <1>1, <1>2 DEF IInv, SessionOK

(* One case per frame, or push, of Next. *)
LEMMA EveryFrameKeeps ==
    IInv /\ [Next]_vars => IInv'
<1> SUFFICES ASSUME IInv, [Next]_vars PROVE IInv'
  OBVIOUS
<1>1. CASE ProtocolHeader \/ EarlyMethod
             \/ \E method \in ConnectionMethods : on_connection_method(method)
  BY <1>1, ConnectionFrames
<1>2. ASSUME NEW ch \in Channels,
             ChannelOpen(ch) \/ ChannelClosed(ch) \/ Refused(ch) \/ Unexpected(ch)
      PROVE  IInv'
  BY <1>2, ChannelFrames
<1>3. ASSUME NEW ch \in Subscribers, NEW tag \in ConsumerTags,
             Cancel(ch, tag) \/ \E answer \in Answers : Consume(ch, tag, answer)
      PROVE  IInv'
  BY <1>3, ConsumerFrames, ChannelsAssumption
<1>4. ASSUME NEW ch \in Subscribers, NEW tag \in DeliveryTags, NEW answer \in Answers,
             Settle(ch, tag, answer)
      PROVE  IInv'
  BY <1>4, SettleFrames, ChannelsAssumption
<1>5. ASSUME NEW answer \in Answers, push_broker_output(answer)
      PROVE  IInv'
  BY <1>5, PushedOutput
<1>6. ASSUME NEW ch \in Publishers, Publish(ch)
      PROVE  IInv'
  BY <1>6, PublishFrames, ChannelsAssumption
<1>7. ASSUME NEW ch \in Publishers, NEW size \in Sizes, NEW class \in {"basic", "other"},
             on_header_frame(ch, class, size)
      PROVE  IInv'
  BY <1>7, HeaderFrames, ChannelsAssumption
<1>8. ASSUME NEW ch \in Publishers, NEW size \in Sizes, on_body_frame(ch, size)
      PROVE  IInv'
  BY <1>8, BodyFrames, ChannelsAssumption
<1>9. CASE UNCHANGED vars
  BY <1>9 DEF IInv, vars
<1>10. QED
  BY <1>1, <1>2, <1>3, <1>4, <1>5, <1>6, <1>7, <1>8, <1>9 DEF Next

(***************************************************************************)
(* Whatever frames arrive, on whatever channels, in whatever order, and    *)
(* whatever the broker answers: consumer ids stay distinct, the consumer   *)
(* noted for a tag was sent it, and a message under assembly on an open    *)
(* channel was begun there since the channel was opened.                   *)
(***************************************************************************)
THEOREM SessionInvariant ==
    Spec => []IInv
<1>1. Init => IInv
  BY InitiallyOK
<1>2. IInv /\ [Next]_vars => IInv'
  BY EveryFrameKeeps
<1>3. QED
  BY <1>1, <1>2, PTL DEF Spec

(***************************************************************************)
(* on_header_frame and on_body_frame hand over only messages that have the *)
(* announced size, but for a second header that announces an empty body.   *)
(***************************************************************************)
THEOREM PublishesWholeMessages ==
    Spec => []PublishedWhole
<1>1. IInv => PublishedWhole
  BY DEF IInv, SessionOK, CommandOK, PublishedWhole
<1>2. QED
  BY <1>1, SessionInvariant, PTL

(***************************************************************************)
(* complete_publish never hands over a message that was begun before the   *)
(* channel was last closed, by either side.                                *)
(***************************************************************************)
THEOREM NeverPublishesStale ==
    Spec => []NoStalePublish
<1>1. IInv => NoStalePublish
  BY DEF IInv, SessionOK, CommandOK, NoStalePublish
<1>2. QED
  BY <1>1, SessionInvariant, PTL

(***************************************************************************)
(* basic.ack, basic.nack and basic.reject settle for a consumer that was   *)
(* sent the tag; for a tag that was never sent on the channel, for one of  *)
(* the consumers that the channel has.                                     *)
(***************************************************************************)
THEOREM SettlesForReceiver ==
    Spec => []SettlementNamesReceiver
<1>1. IInv => SettlementNamesReceiver
  BY DEF IInv, SessionOK, CommandOK, SettlementNamesReceiver
<1>2. QED
  BY <1>1, SessionInvariant, PTL
============================================================================
