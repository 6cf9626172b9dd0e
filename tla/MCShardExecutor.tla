-------------------------- MODULE MCShardExecutor --------------------------
(***************************************************************************)
(* ShardExecutor for TLC: the command batches that consumers send.         *)
(***************************************************************************)
EXTENDS ShardExecutor

Tags == 1 .. MaxTag

TagCommands == [kind : {"tag"}, tag : Tags, mode : Modes]
RangeCommands == [kind : {"range"}, start : {1, 2}, end : {2}]
AckMaskCommands == [kind : {"mask"}, base : {1}, bits : {{0, 2}}]

NackTagCommands ==
    [kind : {"tag"}, tag : Tags, mode : Modes, reason : {"requeue"}]
NackMaskCommands ==
    [kind : {"mask"}, base : {1}, bits : {{0, 2}}, reason : {"requeue", "dead_letter"}]
NackRangeCommands ==
    [kind : {"range"}, start : {1}, end : {2}, reason : {"reject"}]

(* One command of each kind, and two commands in one batch. *)
MCAckBatches ==
    {<<cmd>> : cmd \in TagCommands \cup RangeCommands \cup AckMaskCommands}
        \cup {<<[kind |-> "tag", tag |-> 3, mode |-> "one"],
                [kind |-> "tag", tag |-> 1, mode |-> "one"]>>}

MCNackBatches ==
    {<<cmd>> : cmd \in NackTagCommands \cup NackMaskCommands \cup NackRangeCommands}

MCRejectBatches ==
    {<<[tag |-> 1, reason |-> "reject"]>>}
        \cup {<<[tag |-> t, reason |-> "requeue"]>> : t \in Tags}

Symmetry == Permutations(Consumers)
============================================================================
