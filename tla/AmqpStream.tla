----------------------------- MODULE AmqpStream -----------------------------
(***************************************************************************)
(* How AMQP frames are cut out of what a connection reads                  *)
(* (AmqpSession::receive_bytes, crates/aurum-protocol-amqp/src/wire/       *)
(* codec.rs).  The protocol header has been seen.  The codec keeps a       *)
(* frame's header between calls; the bytes that are left of a read when    *)
(* receive_bytes returns are dropped with its buffer.                      *)
(***************************************************************************)
EXTENDS FrameStream

VARIABLE frame_header   \* the codec's partial header: the frame it is of, or 0

amqpVars == <<streamVars, frame_header>>

(* A heartbeat has no body; other frames with an empty body are left out. *)
Heartbeat(n) == sent[n].len = 0

(* The codec waits with an incomplete frame's header in hand, but the      *)
(* header of a heartbeat is not kept.  An error ends receive_bytes too.    *)
decode ==
    /\ busy
    /\ IF frame_header # 0
       THEN LET len == sent[frame_header].len
            IN  IF Len(buffer) < len + TrailerLen
                THEN Return(<<>>) /\ UNCHANGED frame_header
                ELSE /\ frame_header' = 0
                     /\ IF \E n \in DOMAIN sent : buffer[len + 1] = End(n)
                        THEN HandOver(frame_header, SubSeq(buffer, 1, len),
                                      SubSeq(buffer, len + TrailerLen + 1, Len(buffer)))
                        ELSE Return(<<>>)
       ELSE \/ HeaderHere(buffer) = {} /\ Return(<<>>) /\ UNCHANGED frame_header
            \/ \E n \in HeaderHere(buffer) :
                   LET rest == SubSeq(buffer, HeaderLen + 1, Len(buffer))
                   IN  IF ~ Heartbeat(n)
                       THEN /\ frame_header' = n
                            /\ buffer' = rest
                            /\ UNCHANGED <<sent, taken, busy, handled>>
                       ELSE /\ UNCHANGED frame_header
                            /\ IF rest = <<>> THEN Return(<<>>)
                               ELSE HandOver(n, <<>>, Tail(rest))

Init == StreamInit /\ frame_header = 0

Next ==
    \/ \E shape \in Shapes : Write(shape) /\ UNCHANGED frame_header
    \/ Read(<<>>) /\ UNCHANGED frame_header
    \/ decode

Spec == Init /\ [][Next]_amqpVars
=============================================================================
