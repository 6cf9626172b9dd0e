-------------------------- MODULE MCNativeSession --------------------------
(* The batches of operations in the runs of NativeSession. *)
EXTENDS NativeSession

One(tag) == [kind |-> "One", tag |-> tag]
MultipleUpTo(tag) == [kind |-> "MultipleUpTo", tag |-> tag]
Range_(first, len) == [kind |-> "Range", tag |-> first, len |-> len]

(* Single operations; a range that starts late, an empty one and one past  *)
(* the largest number; batches whose second part fails.                    *)
Batches ==
    {<<One(1)>>, <<One(2)>>, <<MultipleUpTo(2)>>,
     <<Range_(2, 1)>>, <<Range_(1, 0)>>, <<Range_(2, MaxU64)>>,
     <<One(1), One(1)>>, <<One(2), Range_(1, 2)>>}
============================================================================
