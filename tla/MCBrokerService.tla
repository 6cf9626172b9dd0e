-------------------------- MODULE MCBrokerService --------------------------
(* BrokerService for TLC: two connections with three consumer ids. *)
EXTENDS BrokerService

CONSTANTS a, b, c1, c2, c3

MCIdsOf == [conn \in Connections |-> IF conn = a THEN {c1} ELSE {c2, c3}]

\* One batch for both tags: what was not delivered yet is an error.
MCAckBatches == {[tag \in 1 .. 2 |-> [kind |-> "tag", tag |-> tag, mode |-> "one"]]}
============================================================================
