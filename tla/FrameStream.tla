---------------------------- MODULE FrameStream ----------------------------
(***************************************************************************)
(* Frames on a TCP connection.  The peer writes frames one after another;  *)
(* the server's thread reads as many bytes as happen to have arrived       *)
(* (crates/aurum-transport/src/tcp/connection.rs, server.rs), so that a    *)
(* read may end anywhere in a frame and may hold several.  What a protocol *)
(* does with what it reads is in NativeSession and AmqpStream.             *)
(*                                                                         *)
(* A frame is a header, a body and a trailer of a few units each; a unit   *)
(* stands for bytes between which no decision of the codecs lies, and is   *)
(* known by its place in all that the peer writes.  A header is bad when   *)
(* the codec refuses it: magic, version, flags, operation or length.       *)
(***************************************************************************)
EXTENDS Naturals, Sequences, SequencesExt

CONSTANTS
    BodyLens,       \* lengths of bodies, in units
    BadLens,        \* and of the bodies of frames with a bad header
    MaxFrames,      \* bound on the frames the peer writes
    HeaderLen,
    TrailerLen

ASSUME LengthsAssumption ==
    /\ BodyLens \cup BadLens \subseteq Nat
    /\ HeaderLen \in Nat \ {0}
    /\ {MaxFrames, TrailerLen} \subseteq Nat

VARIABLES
    sent,      \* the frames the peer has written
    taken,     \* how many of their units the server has read
    buffer,    \* what the server holds of them
    busy,      \* is the thread between reading and reading again?
    handled    \* the frames handed to the session

streamVars == <<sent, taken, buffer, busy, handled>>

Shapes == [len : BodyLens, good : {TRUE}] \cup [len : BadLens, good : {FALSE}]

(* The last unit of a frame, and its body. *)
End(n) ==
    n * (HeaderLen + TrailerLen) + FoldLeft(LAMBDA sum, f : sum + f.len, 0, SubSeq(sent, 1, n))

Body(n) == [i \in 1 .. sent[n].len |-> End(n - 1) + HeaderLen + i]

StreamInit ==
    /\ sent = <<>> /\ taken = 0 /\ buffer = <<>> /\ busy = FALSE /\ handled = <<>>

Write(shape) ==
    /\ Len(sent) < MaxFrames
    /\ sent' = Append(sent, shape)
    /\ UNCHANGED <<taken, buffer, busy, handled>>

(* A read returns at least one unit; they are put behind what was kept. *)
Read(kept) ==
    /\ ~ busy
    /\ busy' = TRUE
    /\ taken' \in taken + 1 .. End(Len(sent))
    /\ buffer' = kept \o [i \in 1 .. taken' - taken |-> taken + i]
    /\ UNCHANGED <<sent, handled>>

(* The frames whose header is at the start of this buffer and which the    *)
(* codec accepts: one, or none.  Units from the middle of a frame make no  *)
(* header.                                                                 *)
HeaderHere(buf) ==
    {n \in DOMAIN sent : Len(buf) >= HeaderLen /\ buf[1] = End(n - 1) + 1 /\ sent[n].good}

(* The session gets a frame: the header's number and the body's units. *)
HandOver(n, body, rest) ==
    /\ handled' = Append(handled, [header |-> n, body |-> body])
    /\ buffer' = rest
    /\ UNCHANGED <<sent, taken, busy>>

(* The thread goes back to reading. *)
Return(kept) ==
    /\ busy' = FALSE
    /\ buffer' = kept
    /\ UNCHANGED <<sent, taken, handled>>

----------------------------------------------------------------------------
(***************************************************************************)
(* The session is given exactly the frames that the peer wrote, whole and  *)
(* in their order, wherever the reads ended.                               *)
(***************************************************************************)
FramesInOrder ==
    \A n \in DOMAIN handled : handled[n] = [header |-> n, body |-> Body(n)]

(***************************************************************************)
(* When the thread goes back to reading, every frame that was read to its  *)
(* last byte has been handed to the session, unless a frame with a bad     *)
(* header stands before it: no frame waits for bytes of the next one.      *)
(***************************************************************************)
NoFrameWaits ==
    ~ busy =>
        \A n \in DOMAIN sent :
            (End(n) <= taken /\ \A i \in 1 .. n : sent[i].good) => n <= Len(handled)
=============================================================================
