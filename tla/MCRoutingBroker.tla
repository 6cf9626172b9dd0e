--------------------------- MODULE MCRoutingBroker ---------------------------
(* Instances of RoutingBroker for TLC. *)
EXTENDS RoutingBroker

CONSTANTS x1, x2, q1, q2, q3

\* A broker whose configuration file has a direct exchange, and one with a
\* fanout exchange whose bindings fill a small queue set.
MCBootstraps ==
  { [exchanges |-> <<[name |-> x1, kind |-> "Direct"]>>, queues |-> <<q1>>,
     bindings |-> <<[exchange |-> x1, queue |-> q1, key |-> 1]>>],
    [exchanges |-> <<[name |-> x1, kind |-> "Fanout"]>>, queues |-> <<q1, q2>>,
     bindings |-> <<[exchange |-> x1, queue |-> q1, key |-> 0],
                    [exchange |-> x1, queue |-> q2, key |-> 0]>>] }

\* Every list of one to three bindings of a direct or a fanout exchange to two
\* queues, here or on another shard; repeated bindings included.
MCEmbedded ==
  UNION {{[version |-> 1, exchanges |-> <<[id |-> 1, name |-> x1, kind |-> kind]>>,
           bindings |-> [i \in 1..n |->
             [exchange_id |-> 1, queue_id |-> targets[i][2], shard |-> targets[i][1],
              key |-> IF kind = "Fanout" THEN 0 ELSE targets[i][3]]]] :
            kind \in {"Direct", "Fanout"},
            targets \in [1..n -> {0, 1} \X {1, 2} \X {0, 1}]} : n \in 1..3}

NoEmbedded == {}
=============================================================================
