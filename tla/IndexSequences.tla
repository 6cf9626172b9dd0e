--------------------------- MODULE IndexSequences ---------------------------
(***************************************************************************)
(* What IndexList promises (crates/aurum-intrusive/src/lib.rs): each list  *)
(* is a sequence of nodes and no node is in two of them.                   *)
(***************************************************************************)
EXTENDS Integers, Sequences, SequencesExt

CONSTANTS Nodes, Lists

VARIABLE seqs

Free == Nodes \ UNION {Range(seqs[l]) : l \in Lists}

Position(s, i) == CHOOSE p \in DOMAIN s : s[p] = i

Becomes(l, s) == seqs' = [seqs EXCEPT ![l] = s]

Init == seqs = [l \in Lists |-> <<>>]

PushBack(l, i) == i \in Free /\ Becomes(l, Append(seqs[l], i))

PushFront(l, i) == i \in Free /\ Becomes(l, <<i>> \o seqs[l])

InsertAfter(l, at, i) ==
    /\ at \in Range(seqs[l]) /\ i \in Free
    /\ Becomes(l, InsertAt(seqs[l], Position(seqs[l], at) + 1, i))

InsertBefore(l, at, i) ==
    /\ at \in Range(seqs[l]) /\ i \in Free
    /\ Becomes(l, InsertAt(seqs[l], Position(seqs[l], at), i))

Delete(l, i) == i \in Range(seqs[l]) /\ Becomes(l, Remove(seqs[l], i))

MoveToBack(l, i) ==
    /\ i \in Range(seqs[l])
    /\ Becomes(l, Append(Remove(seqs[l], i), i))

MoveToFront(l, i) ==
    /\ i \in Range(seqs[l])
    /\ Becomes(l, <<i>> \o Remove(seqs[l], i))

Concatenate(l, other) ==
    seqs' = [seqs EXCEPT ![l] = @ \o seqs[other], ![other] = <<>>]

Retain(l, keep) == Becomes(l, SelectSeq(seqs[l], LAMBDA i : i \in keep))

Next ==
    \E l \in Lists :
        \/ \E i \in Nodes : \/ PushBack(l, i) \/ PushFront(l, i) \/ Delete(l, i)
                            \/ MoveToBack(l, i) \/ MoveToFront(l, i)
        \/ \E at, i \in Nodes : InsertAfter(l, at, i) \/ InsertBefore(l, at, i)
        \/ \E other \in Lists \ {l} : Concatenate(l, other)
        \/ \E keep \in SUBSET Nodes : Retain(l, keep)

Spec == Init /\ [][Next]_seqs
=============================================================================
