---------------------------- MODULE MCIndexList ----------------------------
(* IndexList for TLC: two lists of one type and one with another tag. *)
EXTENDS IndexList

MCLists == {"a", "b", "c"}
MCTagOf == [l \in MCLists |-> IF l = "c" THEN "other" ELSE "same"]
=============================================================================
