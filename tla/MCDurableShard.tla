--------------------------- MODULE MCDurableShard ---------------------------
(* DurableShard for TLC: acks and requeues of single tags. *)
EXTENDS DurableShard

Tags == 1 .. MaxTag

MCAckBatches == {<<cmd>> : cmd \in [kind : {"tag"}, tag : Tags, mode : Modes]}
    \cup {<<[kind |-> "tag", tag |-> 3, mode |-> "one"],
            [kind |-> "tag", tag |-> 1, mode |-> "one"]>>}
MCNackBatches ==
    {<<cmd>> : cmd \in [kind : {"tag"}, tag : Tags, mode : {"one"}, reason : {"requeue"}]}
MCRejectBatches == {<<[tag |-> 1, reason |-> "reject"]>>}
=============================================================================
