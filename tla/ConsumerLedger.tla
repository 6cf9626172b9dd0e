--------------------------- MODULE ConsumerLedger ---------------------------
(***************************************************************************)
(* What consumer sessions promise, with no segments, ranks or credit       *)
(* counters: every consumer holds a ledger from the tags it has not        *)
(* settled to the messages they were handed out for, as the reference      *)
(* session of crates/aurum-core/src/consumer/model.rs keeps it.  Settling  *)
(* a tag settles the message it was handed out for and no other; settling  *)
(* "multiple" settles every older unsettled tag too.                       *)
(***************************************************************************)
EXTENDS Integers, FiniteSets

CONSTANTS Consumers, MaxSeq
VARIABLES ready, inflight, retry, acked, next_tag, ledger, prefetch, live

vars == <<ready, inflight, retry, acked, next_tag, ledger, prefetch, live>>

published == Cardinality(ready \cup inflight \cup retry \cup acked)

Restricted(f, S) == [t \in S |-> f[t]]
Messages(f) == {f[t] : t \in DOMAIN f}

Init ==
    /\ ready = {} /\ inflight = {} /\ retry = {} /\ acked = {}
    /\ next_tag = [c \in Consumers |-> 1]
    /\ ledger = [c \in Consumers |-> [t \in {} |-> 0]]
    /\ prefetch \in [Consumers -> Nat]
    /\ live = [c \in Consumers |-> TRUE]

Publish ==
    /\ \E count \in 1 .. MaxSeq :
           ready' = ready \cup (published .. published + count - 1)
    /\ UNCHANGED <<inflight, retry, acked, next_tag, ledger, prefetch, live>>

Deliver(c) ==
    /\ live[c]
    /\ \E handed \in SUBSET ready \ {{}} :
           LET n    == Cardinality(handed)
               tags == next_tag[c] .. next_tag[c] + n - 1
           IN  /\ prefetch[c] # 0 =>
                      n + Cardinality(DOMAIN ledger[c]) <= prefetch[c]
               /\ \E new \in [tags -> handed] :
                      /\ Messages(new) = handed
                      /\ ledger' = [ledger EXCEPT ![c] =
                             [t \in DOMAIN @ \cup tags |->
                                 IF t \in tags THEN new[t] ELSE @[t]]]
               /\ next_tag' = [next_tag EXCEPT ![c] = @ + n]
               /\ ready' = ready \ handed
               /\ inflight' = inflight \cup handed
    /\ UNCHANGED <<retry, acked, prefetch, live>>

(* Settle these tags: their messages are acked or parked for retry. *)
SettleTags(c, tags) ==
    LET messages == {ledger[c][t] : t \in tags}
    IN  /\ ledger' = [ledger EXCEPT ![c] = Restricted(@, DOMAIN @ \ tags)]
        /\ inflight' = inflight \ messages
        /\ \/ acked' = acked \cup messages /\ UNCHANGED retry
           \/ retry' = retry \cup messages /\ UNCHANGED acked
        /\ UNCHANGED <<ready, next_tag, prefetch>>

SettleOne(c) ==
    /\ \E tag \in DOMAIN ledger[c] : SettleTags(c, {tag})
    /\ UNCHANGED live

SettleMultiple(c) ==
    /\ \E tag \in DOMAIN ledger[c] :
           SettleTags(c, {t \in DOMAIN ledger[c] : t <= tag})
    /\ UNCHANGED live

Cancel(c) ==
    /\ SettleTags(c, DOMAIN ledger[c])
    /\ live' = [live EXCEPT ![c] = FALSE]

Retry ==
    /\ ready' = ready \cup retry
    /\ retry' = {}
    /\ UNCHANGED <<inflight, acked, next_tag, ledger, prefetch, live>>

Next ==
    \/ Publish
    \/ \E c \in Consumers :
           Deliver(c) \/ SettleOne(c) \/ SettleMultiple(c) \/ Cancel(c)
    \/ Retry

Spec == Init /\ [][Next]_vars
=============================================================================
