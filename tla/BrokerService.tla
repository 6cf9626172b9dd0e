--------------------------- MODULE BrokerService ---------------------------
(***************************************************************************)
(* Connections as threads (crates/aurum-broker/src/single_node/service.rs, *)
(* registry.rs, server.rs).  Every connection has a thread that reads      *)
(* commands and executes each in separate steps: note consumers in the     *)
(* registry, execute on the broker, route what came out, take what others  *)
(* left in its outbox.  The broker, the registry and the outboxes have a   *)
(* lock each, and the threads interleave between the steps.                *)
(*                                                                         *)
(* The broker is the shard executor with one declared queue.  Nacks travel *)
(* as acks do and are left out.  An AMQP cancel throws away what came out  *)
(* of it for its own connection (Discarded).                               *)
(***************************************************************************)
EXTENDS ShardExecutor, Bags

CONSTANTS
    Connections,
    Amqp,        \* the connections that speak AMQP; the others are native
    IdsOf        \* the consumer ids that each connection's session assigns

ASSUME ConnectionsAssumption ==
    Amqp \subseteq Connections /\ IdsOf \in [Connections -> SUBSET Consumers]

VARIABLES
    registry,    \* ConnectionRegistry: by_consumer
    outboxes,    \* what is waiting for each connection
    thread,      \* where each connection's thread is
    received,    \* what each connection was sent: a bag of consumers and tags
    life         \* of each consumer id: unused, used, or ended

serviceVars == <<registry, outboxes, thread, received, life>>
allVars == <<shardVars, serviceVars>>

Nobody == "nobody"
Reading == [at |-> "read"]

Commands(conn) ==
    [kind : {"publish"}]
        \cup [kind : {"consume"}, consumer : IdsOf[conn], prefetch : Prefetches]
        \cup [kind : {"cancel"}, consumer : IdsOf[conn]]
        \cup [kind : {"ack"}, consumer : IdsOf[conn], items : AckBatches]

(* Publishes that are under way count against the bound on messages. *)
Publishing ==
    Cardinality({d \in Connections : thread[d].at = "execute" /\ thread[d].cmd.kind = "publish"})

(* A session does not use an id again after it was cancelled.  Any command *)
(* may name a consumer that was never started, and a consumer may be       *)
(* started twice.                                                          *)
Assigned(cmd) ==
    /\ cmd.kind = "publish" => queue.next_seq + Publishing < MaxSeq
    /\ cmd.kind = "consume" => life[cmd.consumer] # "ended"

----------------------------------------------------------------------------
(* Wrong: the consumer is not entered before it is started. *)
MutTrack(conn, cmd) ==
    IF cmd.kind = "cancel" THEN [registry EXCEPT ![cmd.consumer] = Nobody] ELSE registry

(* Wrong: the consumer is left in the registry when it is cancelled. *)
MutNeverUntrack(conn, cmd) ==
    IF cmd.kind = "consume" THEN [registry EXCEPT ![cmd.consumer] = conn] ELSE registry

track_consumers_from_shard(conn, cmd) ==
    CASE cmd.kind = "consume" -> [registry EXCEPT ![cmd.consumer] = conn]
      [] cmd.kind = "cancel"  -> [registry EXCEPT ![cmd.consumer] = Nobody]
      [] OTHER                -> registry

(* A frame arrives: execute_shard and execute_ingress up to the broker's lock. *)
Begin(conn, cmd) ==
    /\ thread[conn] = Reading
    /\ Assigned(cmd)
    /\ thread' = [thread EXCEPT ![conn] = [at |-> "execute", cmd |-> cmd]]
    /\ registry' = track_consumers_from_shard(conn, cmd)
    /\ life' = CASE cmd.kind = "consume" -> [life EXCEPT ![cmd.consumer] = "used"]
                 [] cmd.kind = "cancel"  -> [life EXCEPT ![cmd.consumer] =
                                                  IF @ = "used" THEN "ended" ELSE @]
                 [] OTHER                -> life
    /\ UNCHANGED <<shardVars, outboxes, received>>

(* Under the broker's lock. *)
Perform(cmd) ==
    \/ cmd.kind = "publish" /\ exec_publish(1, <<1>>, 0)
    \/ cmd.kind = "consume" /\ exec_consume_start(cmd.consumer, cmd.prefetch)
    \/ cmd.kind = "cancel" /\ exec_cancel(cmd.consumer, TRUE)
    \/ cmd.kind = "ack" /\ exec_ack_batch(cmd.consumer, cmd.items, 0)
    \/ cmd.kind = "consume" /\ cmd.consumer \in Registered /\ Refused
    \/ cmd.kind \in {"cancel", "ack"} /\ cmd.consumer \notin Registered /\ Refused

(* The result of an AMQP cancel is dropped, except what goes to others. *)
Discarded(conn, cmd) == conn \in Amqp /\ cmd.kind = "cancel"

Execute(conn) ==
    /\ thread[conn].at = "execute"
    /\ Perform(thread[conn].cmd)
    /\ thread' = [thread EXCEPT ![conn] =
                     [at |-> "route", out |-> deliveries',
                      discard |-> Discarded(conn, thread[conn].cmd)]]
    /\ UNCHANGED <<registry, outboxes, received, life>>

----------------------------------------------------------------------------
(* Deliveries as a bag of consumers and tags. *)
Entries(out) ==
    FoldLeft(LAMBDA b, d : b (+) SetToBag({d.consumer} \X d.tags), EmptyBag, out)

(* Wrong: what belongs to nobody is left behind. *)
MutTarget(d, source) == registry[d.consumer]

(* Deliveries of a consumer that nobody has go to the thread that has them. *)
Target(d, source) ==
    IF registry[d.consumer] = Nobody THEN source ELSE registry[d.consumer]

For(conn, out, source) == SelectSeq(out, LAMBDA d : Target(d, source) = conn)

Pushed(conn, out) ==
    [d \in Connections |->
        IF d # conn /\ For(d, out, conn) # <<>>
        THEN Append(outboxes[d], For(d, out, conn))
        ELSE outboxes[d]]

(* Registry and outboxes are both locked. *)
route_output(conn) ==
    /\ thread[conn].at = "route"
    /\ LET out == thread[conn].out
       IN  /\ outboxes' = Pushed(conn, out)
           /\ received' = IF thread[conn].discard
                          THEN received
                          ELSE [received EXCEPT ![conn] = @ (+) Entries(For(conn, out, conn))]
    /\ thread' = [thread EXCEPT ![conn] = [at |-> "drain"]]
    /\ UNCHANGED <<shardVars, registry, life>>

drain_connection_outputs(conn) ==
    /\ received' = [received EXCEPT ![conn] = @ (+) Entries(FlattenSeq(outboxes[conn]))]
    /\ outboxes' = [outboxes EXCEPT ![conn] = <<>>]
    /\ UNCHANGED <<shardVars, registry, life>>

(* The end of a native command, and of what AMQP read at once. *)
FinishRead(conn) ==
    /\ thread[conn].at = "drain"
    /\ drain_connection_outputs(conn)
    /\ thread' = [thread EXCEPT ![conn] = Reading]

(* The bytes that AMQP read hold another frame. *)
NextFrame(conn) ==
    /\ conn \in Amqp
    /\ thread[conn].at = "drain"
    /\ thread' = [thread EXCEPT ![conn] = Reading]
    /\ UNCHANGED <<shardVars, registry, outboxes, received, life>>

(* Wrong: a frame without a command, or a part of one, sends nothing. *)
MutHeartbeat(conn) ==
    /\ conn \in Amqp
    /\ thread[conn] = Reading
    /\ UNCHANGED allVars

(* AMQP bytes without a command: a heartbeat, or part of a frame. *)
Heartbeat(conn) ==
    /\ conn \in Amqp
    /\ thread[conn] = Reading
    /\ drain_connection_outputs(conn)
    /\ UNCHANGED thread

(* End of file or an error: the thread ends and cleans up nothing. *)
Disconnect(conn) ==
    /\ thread[conn] = Reading
    /\ thread' = [thread EXCEPT ![conn] = [at |-> "closed"]]
    /\ UNCHANGED <<shardVars, registry, outboxes, received, life>>

----------------------------------------------------------------------------
ServiceInit ==
    /\ ShardInit
    /\ registry = [c \in Consumers |-> Nobody]
    /\ outboxes = [conn \in Connections |-> <<>>]
    /\ thread = [conn \in Connections |-> Reading]
    /\ received = [conn \in Connections |-> EmptyBag]
    /\ life = [c \in Consumers |-> "unused"]

(* A configuration file or an earlier client declared the queue. *)
Declare == exec_declare_queue /\ UNCHANGED serviceVars

Work(conn) ==
    Execute(conn) \/ route_output(conn) \/ FinishRead(conn) \/ NextFrame(conn)

ServiceNext ==
    \/ Declare
    \/ \E conn \in Connections :
           \/ state.declared /\ \E cmd \in Commands(conn) : Begin(conn, cmd)
           \/ Work(conn)
           \/ Heartbeat(conn)
           \/ Disconnect(conn)

ServiceSpec == ServiceInit /\ [][ServiceNext]_allVars

(* No thread stays in the middle of a command for ever: every step of one  *)
(* is enabled until it is taken.  What AMQP read comes to its end, and     *)
(* AMQP peers send heartbeats as long as they are connected.               *)
Fairness ==
    \A conn \in Connections :
        /\ []<>(thread[conn].at \in {"read", "closed"})
        /\ SF_allVars(Heartbeat(conn))

FairServiceSpec == ServiceSpec /\ Fairness

----------------------------------------------------------------------------
Outputs(conn) == IF thread[conn].at = "route" THEN thread[conn].out ELSE <<>>

(* Copies of a consumer's tag: in a thread's hands, waiting, and sent. *)
Copies(c, tag) ==
    LET At(conn) == Entries(Outputs(conn) \o FlattenSeq(outboxes[conn])) (+) received[conn]
    IN  FoldSet(LAMBDA conn, n : n + CopiesIn(<<c, tag>>, At(conn)), 0, Connections)

(***************************************************************************)
(* Between the shard and the clients no delivery is lost and none is       *)
(* doubled, whatever the threads do in between: each tag that a session    *)
(* has given out is in exactly one place.                                  *)
(***************************************************************************)
DeliveredOnce ==
    \A c \in Registered : \A tag \in 1 .. sessions[c].next_tag - 1 : Copies(c, tag) = 1

(***************************************************************************)
(* What waits for a connection or was sent to it is for its own consumers. *)
(* Only a delivery that meets the cancel of its consumer can go astray.    *)
(***************************************************************************)
OwnersReceive ==
    \A conn \in Connections :
        \A e \in DOMAIN (received[conn] (+) Entries(FlattenSeq(outboxes[conn]))) :
            e[1] \in IdsOf[conn] \/ life[e[1]] = "ended"

(***************************************************************************)
(* The registry and the shard change in separate steps.  They agree about  *)
(* a consumer whenever its connection is not between the two, also while   *)
(* others are.                                                             *)
(***************************************************************************)
RegistryMatchesShard ==
    \A conn \in Connections : \A c \in IdsOf[conn] :
        thread[conn].at # "execute" => (registry[c] = conn <=> c \in Registered)

(***************************************************************************)
(* A message that the shard delivered to a consumer reaches the client,    *)
(* unless the consumer or the connection ends.                             *)
(***************************************************************************)
DeliveryArrives ==
    \A conn \in Amqp : \A c \in IdsOf[conn] : \A tag \in 1 .. MaxSeq :
        (c \in Registered /\ tag < sessions[c].next_tag)
            ~> (\/ BagIn(<<c, tag>>, received[conn])
                \/ life[c] = "ended"
                \/ thread[conn].at = "closed")
============================================================================
