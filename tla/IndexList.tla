----------------------------- MODULE IndexList -----------------------------
(***************************************************************************)
(* The intrusive doubly linked lists of crates/aurum-intrusive/src/lib.rs: *)
(* a list is a header (head, tail, len) and the links are in the nodes,    *)
(* which several lists share.  A link records the tag of the list that     *)
(* owns it; lists of the same type have the same tag.                      *)
(*                                                                         *)
(* As in the code an Option<Index> is a number, None being 0.  An          *)
(* operation takes and returns a pair [nodes, list].  The unchecked        *)
(* operations are called where their preconditions hold.                   *)
(***************************************************************************)
EXTENDS Integers, Sequences, FiniteSets, SequencesExt

CONSTANTS
    NodeCount,   \* length of the slice of nodes
    Lists,
    TagOf        \* [Lists -> tags]

ASSUME IndexListAssumption == NodeCount \in Nat

VARIABLES nodes, lists

vars == <<nodes, lists>>

None == 0
Nodes == 1 .. NodeCount

NoTag == "none"
Unlinked == [prev |-> None, next |-> None, state |-> NoTag]
NewList == [head |-> None, tail |-> None, len |-> 0]

link_between(link, tag, prev, next) ==
    [link EXCEPT !.prev = prev, !.next = next, !.state = tag]

is_linked(link) == link.state # NoTag

(***************************************************************************)
(* Iter: from head along next, at most len indices.                        *)
(***************************************************************************)
Iter(ns, list) ==
    LET at[k \in 1 .. list.len] == IF k = 1 THEN list.head
                                   ELSE IF at[k - 1] = None THEN None
                                   ELSE ns[at[k - 1]].next
    IN  SelectSeq([k \in 1 .. list.len |-> at[k]], LAMBDA i : i # None)

contains(ns, list, i) == \E k \in DOMAIN Iter(ns, list) : Iter(ns, list)[k] = i

-----------------------------------------------------------------------------
(* Insertion. *)

push_back(p, tag, i) ==
    LET old_tail == p.list.tail
        linked   == [p.nodes EXCEPT ![i] = link_between(@, tag, old_tail, None)]
        list     == [p.list EXCEPT !.tail = i, !.len = @ + 1]
    IN  IF old_tail = None
        THEN [nodes |-> linked, list |-> [list EXCEPT !.head = i]]
        ELSE [nodes |-> [linked EXCEPT ![old_tail].next = i], list |-> list]

push_front(p, tag, i) ==
    LET old_head == p.list.head
        linked   == [p.nodes EXCEPT ![i] = link_between(@, tag, None, old_head)]
        list     == [p.list EXCEPT !.head = i, !.len = @ + 1]
    IN  IF old_head = None
        THEN [nodes |-> linked, list |-> [list EXCEPT !.tail = i]]
        ELSE [nodes |-> [linked EXCEPT ![old_head].prev = i], list |-> list]

insert_after(p, tag, at, i) ==
    LET next == p.nodes[at].next
    IN  IF p.list.tail = at
        THEN push_back(p, tag, i)
        ELSE [nodes |-> [p.nodes EXCEPT ![i] = link_between(@, tag, at, next),
                                        ![at].next = i,
                                        ![next].prev = i],
              list |-> [p.list EXCEPT !.len = @ + 1]]

insert_before(p, tag, at, i) ==
    LET prev == p.nodes[at].prev
    IN  IF p.list.head = at
        THEN push_front(p, tag, i)
        ELSE [nodes |-> [p.nodes EXCEPT ![i] = link_between(@, tag, prev, at),
                                        ![prev].next = i,
                                        ![at].prev = i],
              list |-> [p.list EXCEPT !.len = @ + 1]]

-----------------------------------------------------------------------------
(* Removal and movement. *)

(* Wrong: the neighbour behind keeps its prev. *)
MutSpliceOut(p, i) ==
    LET prev == p.nodes[i].prev
        next == p.nodes[i].next
    IN  [nodes |-> IF prev = None THEN p.nodes ELSE [p.nodes EXCEPT ![prev].next = next],
         list |-> [p.list EXCEPT !.head = IF prev = None THEN next ELSE @,
                                 !.tail = IF next = None THEN prev ELSE @]]

splice_out(p, i) ==
    LET prev   == p.nodes[i].prev
        next   == p.nodes[i].next
        before == IF prev = None THEN p.nodes ELSE [p.nodes EXCEPT ![prev].next = next]
    IN  [nodes |-> IF next = None THEN before ELSE [before EXCEPT ![next].prev = prev],
         list |-> [p.list EXCEPT !.head = IF prev = None THEN next ELSE @,
                                 !.tail = IF next = None THEN prev ELSE @]]

(* Wrong: leaves the link marked. *)
MutUnlinkOnly(p, i) ==
    LET out == splice_out(p, i)
    IN  [nodes |-> out.nodes, list |-> [out.list EXCEPT !.len = @ - 1]]

unlink_known_member(p, i) ==
    LET out == splice_out(p, i)
    IN  [nodes |-> [out.nodes EXCEPT ![i] = Unlinked],
         list |-> [out.list EXCEPT !.len = @ - 1]]

pop_front(p) == IF p.list.head = None THEN p ELSE unlink_known_member(p, p.list.head)

pop_back(p) == IF p.list.tail = None THEN p ELSE unlink_known_member(p, p.list.tail)

remove(p, i) == IF is_linked(p.nodes[i]) THEN unlink_known_member(p, i) ELSE p

move_to_back(p, tag, i) ==
    LET old_tail == p.list.tail
        out      == splice_out(p, i)
    IN  IF old_tail = i
        THEN p
        ELSE [nodes |-> [out.nodes EXCEPT ![i] = link_between(@, tag, old_tail, None),
                                          ![old_tail].next = i],
              list |-> [out.list EXCEPT !.tail = i]]

move_to_front(p, tag, i) ==
    LET old_head == p.list.head
        out      == splice_out(p, i)
    IN  IF old_head = i
        THEN p
        ELSE [nodes |-> [out.nodes EXCEPT ![i] = link_between(@, tag, None, old_head),
                                          ![old_head].prev = i],
              list |-> [out.list EXCEPT !.head = i]]

(* The loop reads the next link before it resets this one. *)
clear(p) ==
    LET step(w, k) == [nodes |-> [w.nodes EXCEPT ![w.current] = Unlinked],
                       current |-> w.nodes[w.current].next]
        end == FoldLeft(step, [nodes |-> p.nodes, current |-> p.list.head],
                        [k \in 1 .. p.list.len |-> k])
    IN  [nodes |-> end.nodes, list |-> NewList]

(* The walk ends at a node without a next; NodeCount turns reach it. *)
retain(p, keep) ==
    LET step(w, k) ==
            IF w.current = None THEN w
            ELSE [pair    |-> IF w.current \in keep THEN w.pair
                              ELSE unlink_known_member(w.pair, w.current),
                  current |-> w.pair.nodes[w.current].next]
    IN  FoldLeft(step, [pair |-> p, current |-> p.list.head], [k \in Nodes |-> k]).pair

-----------------------------------------------------------------------------
(* The operations as actions on list l. *)
Pair(l) == [nodes |-> nodes, list |-> lists[l]]

Becomes(l, p) ==
    /\ nodes' = p.nodes
    /\ lists' = [lists EXCEPT ![l] = p.list]

check_insert_preconditions(i) == i \in Nodes /\ ~ is_linked(nodes[i])

(* Wrong: trusts the tag, which another list may have too. *)
MutTrustTag(l, i) == i \in Nodes /\ nodes[i].state = TagOf[l]

check_remove_preconditions(l, i) ==
    /\ i \in Nodes
    /\ is_linked(nodes[i])
    /\ nodes[i].state = TagOf[l]
    /\ contains(nodes, lists[l], i)

try_push_back(l, i) ==
    check_insert_preconditions(i) /\ Becomes(l, push_back(Pair(l), TagOf[l], i))

try_push_front(l, i) ==
    check_insert_preconditions(i) /\ Becomes(l, push_front(Pair(l), TagOf[l], i))

try_insert_after(l, at, i) ==
    /\ check_remove_preconditions(l, at) /\ check_insert_preconditions(i)
    /\ Becomes(l, insert_after(Pair(l), TagOf[l], at, i))

try_insert_before(l, at, i) ==
    /\ check_remove_preconditions(l, at) /\ check_insert_preconditions(i)
    /\ Becomes(l, insert_before(Pair(l), TagOf[l], at, i))

try_remove(l, i) ==
    check_remove_preconditions(l, i) /\ Becomes(l, unlink_known_member(Pair(l), i))

RemoveMember(l, i) ==
    /\ is_linked(nodes[i]) => contains(nodes, lists[l], i)
    /\ Becomes(l, remove(Pair(l), i))

MoveToBack(l, i) ==
    contains(nodes, lists[l], i) /\ Becomes(l, move_to_back(Pair(l), TagOf[l], i))

MoveToFront(l, i) ==
    contains(nodes, lists[l], i) /\ Becomes(l, move_to_front(Pair(l), TagOf[l], i))

(* append: both lists have the same type, and so the same tag. *)
append(l, other) ==
    LET a == lists[l]
        b == lists[other]
    IN  /\ l # other /\ TagOf[l] = TagOf[other]
        /\ IF b.len = 0 THEN UNCHANGED vars
           ELSE IF a.len = 0
           THEN /\ lists' = [lists EXCEPT ![l] = b, ![other] = NewList]
                /\ UNCHANGED nodes
           ELSE /\ nodes' = [nodes EXCEPT ![a.tail].next = b.head, ![b.head].prev = a.tail]
                /\ lists' = [lists EXCEPT
                                 ![l] = [a EXCEPT !.tail = b.tail, !.len = @ + b.len],
                                 ![other] = NewList]

Init ==
    /\ nodes = [i \in Nodes |-> Unlinked]
    /\ lists = [l \in Lists |-> NewList]

Next ==
    \E l \in Lists :
        \/ \E i \in Nodes :
               \/ try_push_back(l, i) \/ try_push_front(l, i)
               \/ try_remove(l, i) \/ RemoveMember(l, i)
               \/ MoveToBack(l, i) \/ MoveToFront(l, i)
        \/ \E at, i \in Nodes : try_insert_after(l, at, i) \/ try_insert_before(l, at, i)
        \/ Becomes(l, pop_front(Pair(l)))
        \/ Becomes(l, pop_back(Pair(l)))
        \/ Becomes(l, clear(Pair(l)))
        \/ \E keep \in SUBSET Nodes : Becomes(l, retain(Pair(l), keep))
        \/ \E other \in Lists : append(l, other)

Spec == Init /\ [][Next]_vars

-----------------------------------------------------------------------------
(***************************************************************************)
(* validate: the walk along fwd from one end meets linked nodes of the     *)
(* list's tag whose back links lead where it came from, len of them, and   *)
(* ends at the other end.                                                  *)
(***************************************************************************)
Walk(tag, from, fwd, back) ==
    LET step(w, k) ==
            IF w.current = None \/ ~ w.ok THEN w
            ELSE LET link == nodes[w.current]
                 IN  [ok |-> link.state = tag /\ link[back] = w.last,
                      current |-> link[fwd], last |-> w.current, count |-> w.count + 1]
    IN  FoldLeft(step, [ok |-> TRUE, current |-> from, last |-> None, count |-> 0],
                 [k \in 1 .. NodeCount + 1 |-> k])

validate_walk(list, tag, from, to, fwd, back) ==
    LET w == Walk(tag, from, fwd, back)
    IN  w.ok /\ w.current = None /\ w.last = to /\ w.count = list.len

validate(list, tag) ==
    IF list.len = 0
    THEN list.head = None /\ list.tail = None
    ELSE /\ list.head # None /\ list.tail # None /\ list.len <= NodeCount
         /\ validate_walk(list, tag, list.head, list.tail, "next", "prev")
         /\ validate_walk(list, tag, list.tail, list.head, "prev", "next")

(* No sequence of checked calls makes validate report an error. *)
ListsValidate == \A l \in Lists : validate(lists[l], TagOf[l])

(***************************************************************************)
(* The lists are the sequences of nodes they stand for, whatever was       *)
(* inserted, moved, spliced and cleared, and a checked call with a node of *)
(* another list of the same tag changes nothing.                           *)
(***************************************************************************)
AsSequences ==
    INSTANCE IndexSequences WITH seqs <- [l \in Lists |-> Iter(nodes, lists[l])]

ImplementsSequences == AsSequences!Spec

(***************************************************************************)
(* A link is marked exactly while its node is in a list, and then in one   *)
(* list only: an unmarked node can always be inserted again.               *)
(***************************************************************************)
LinkedIffListed ==
    \A i \in Nodes :
        Cardinality({l \in Lists : contains(nodes, lists[l], i)})
            = IF is_linked(nodes[i]) THEN 1 ELSE 0
=============================================================================
