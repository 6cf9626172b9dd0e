---------------------------- MODULE RoutingBroker ----------------------------
(* The routing side of the single-node broker: SingleNodeBroker keeps a       *)
(* RoutingConfig that AMQP control commands extend, recompiles the route      *)
(* table after every change, and InMemoryBroker publishes by route number.    *)
(* Publishers are channels of different connections.  A channel keeps a cache *)
(* of resolved routes, and its publish takes the broker's lock several times: *)
(* to read the table's version, to resolve, and to publish.  Control commands *)
(* of other connections come in between.                                      *)
EXTENDS RouteTable

CONSTANTS
  Channels,        \* publishing channels, each of a connection of its own
  ExchangeNames, QueueNames, Keys,
  Bootstraps,      \* routing sections of the configuration file
  Embedded,        \* routing configurations of programs that embed InMemoryBroker
  MaxExchanges, MaxBindings, MaxQueueId   \* bounds

VARIABLES
  single_node,       \* is this SingleNodeBroker, or InMemoryBroker embedded?
  config,            \* routing_config
  exchange_names, queue_names, next_exchange_id, next_queue_id,
  route_table,
  declared,          \* queues known to the shard
  route_cache,       \* of each channel
  pending,           \* of each channel: the publish under way
  out                \* what the last step reported

names == <<exchange_names, queue_names, next_exchange_id, next_queue_id>>
vars == <<single_node, config, names, route_table, declared, route_cache, pending, out>>

LocalShard == 0
Idle == [at |-> "idle"]
Quiet == [step |-> "none"]

\* The number of changes made to the configuration so far: two tables differ
\* in it exactly when one was rebuilt after the other.
Epoch == Len(config.exchanges) + Len(config.bindings)

-----------------------------------------------------------------------------
(* Control commands: SingleNodeBroker::handle_amqp_control *)

ExchangeDecl(id, name, kind) == [id |-> id, name |-> name, kind |-> kind]

KindOf(c, exchange_id) ==
  (CHOOSE e \in ToSet(c.exchanges) : e.id = exchange_id).kind

\* BindingDecl::direct and BindingDecl::fanout: a fanout binding has no key.
BindingDecl(c, exchange_id, queue_id, key) ==
  [exchange_id |-> exchange_id, queue_id |-> queue_id, shard |-> LocalShard,
   key |-> IF KindOf(c, exchange_id) = "Fanout" THEN 0 ELSE key]

\* The names, numbers and configuration a configuration file gives, or an
\* error for a binding of an unknown name.  Equal names share the last number.
NumberOf(seq, name) == CHOOSE i \in DOMAIN seq :
                         /\ seq[i] = name
                         /\ \A j \in DOMAIN seq : seq[j] = name => j <= i

bootstrap_routing(boot) ==
  LET xnames == [i \in DOMAIN boot.exchanges |-> boot.exchanges[i].name]
      exchanges == [i \in DOMAIN boot.exchanges |->
                      ExchangeDecl(i, boot.exchanges[i].name, boot.exchanges[i].kind)]
      c == [version |-> 1, exchanges |-> exchanges, bindings |-> <<>>]
  IN  [ok |-> \A b \in ToSet(boot.bindings) :
                b.exchange \in ToSet(xnames) /\ b.queue \in ToSet(boot.queues),
       exchange_names |-> [x \in ToSet(xnames) |-> NumberOf(xnames, x)],
       queue_names |-> [q \in ToSet(boot.queues) |-> NumberOf(boot.queues, q)],
       config |-> [c EXCEPT !.bindings =
                     [i \in DOMAIN boot.bindings |->
                        BindingDecl(c, NumberOf(xnames, boot.bindings[i].exchange),
                                    NumberOf(boot.queues, boot.bindings[i].queue),
                                    boot.bindings[i].key)]]]

\* A configuration that does not compile never gets as far as a broker.
Installed(c) ==
  /\ compile_error(c) = "None"
  /\ config = c
  /\ route_table = compile(c)
  /\ declared = {}
  /\ route_cache = [ch \in Channels |-> <<>>]
  /\ pending = [ch \in Channels |-> Idle]
  /\ out = Quiet

\* SingleNodeBroker::new
InitSingleNode ==
  \E boot \in Bootstraps :
    LET b == bootstrap_routing(boot)
    IN  /\ b.ok
        /\ single_node = TRUE
        /\ exchange_names = b.exchange_names
        /\ queue_names = b.queue_names
        /\ next_exchange_id = Len(boot.exchanges) + 1
        /\ next_queue_id = Len(boot.queues) + 1
        /\ Installed(b.config)

\* InMemoryBroker::with_route_table, on a table the program compiled.  Its
\* bindings may name any shard, and it never changes.
InitEmbedded ==
  \E c \in Embedded :
    /\ single_node = FALSE
    /\ exchange_names = compile(c).exchange_names
    /\ queue_names = <<>>
    /\ next_exchange_id = MaxExchanges + 1
    /\ next_queue_id = MaxQueueId + 1
    /\ Installed(c)

Init == InitSingleNode \/ InitEmbedded

\* recompile_routes keeps the version of the configuration, which never changes.
recompile_routes(c) ==
  /\ config' = c
  /\ route_table' = compile(c)

\* DeclareExchange always makes a new exchange; an older one of the same name
\* keeps its bindings and loses the name.
DeclareExchange(name, kind) ==
  /\ Len(config.exchanges) < MaxExchanges
  /\ exchange_names' = (name :> next_exchange_id) @@ exchange_names
  /\ next_exchange_id' = next_exchange_id + 1
  /\ recompile_routes([config EXCEPT !.exchanges =
                         Append(@, ExchangeDecl(next_exchange_id, name, kind))])
  /\ out' = Quiet
  /\ UNCHANGED <<queue_names, next_queue_id, declared, route_cache, pending>>

\* DeclareQueue with a name: an existing name keeps its number.
DeclareQueue(name) ==
  /\ name \in DOMAIN queue_names \/ next_queue_id <= MaxQueueId
  /\ IF name \in DOMAIN queue_names
     THEN /\ declared' = declared \cup {queue_names[name]}
          /\ UNCHANGED <<queue_names, next_queue_id>>
     ELSE /\ declared' = declared \cup {next_queue_id}
          /\ queue_names' = (name :> next_queue_id) @@ queue_names
          /\ next_queue_id' = next_queue_id + 1
  /\ out' = Quiet
  /\ UNCHANGED <<config, exchange_names, next_exchange_id, route_table, route_cache, pending>>

\* DeclareQueue without a name.  The name reported to the client is not
\* entered in queue_names.
DeclareAnonymousQueue ==
  /\ next_queue_id <= MaxQueueId
  /\ declared' = declared \cup {next_queue_id}
  /\ next_queue_id' = next_queue_id + 1
  /\ out' = Quiet
  /\ UNCHANGED <<config, exchange_names, next_exchange_id, queue_names, route_table,
                 route_cache, pending>>

\* BindQueue fails for an unknown exchange.  An unknown queue gets a number,
\* and is not declared.
BindQueue(queue, exchange, key) ==
  /\ exchange \in DOMAIN exchange_names
  /\ Len(config.bindings) < MaxBindings
  /\ queue \in DOMAIN queue_names \/ next_queue_id <= MaxQueueId
  /\ LET known == queue \in DOMAIN queue_names
         queue_id == IF known THEN queue_names[queue] ELSE next_queue_id
     IN  /\ queue_names' = (queue :> queue_id) @@ queue_names
         /\ next_queue_id' = IF known THEN next_queue_id ELSE next_queue_id + 1
         /\ recompile_routes([config EXCEPT !.bindings =
              Append(@, BindingDecl(config, exchange_names[exchange], queue_id, key))])
  /\ out' = Quiet
  /\ UNCHANGED <<exchange_names, next_exchange_id, declared, route_cache, pending>>

-----------------------------------------------------------------------------
(* Publishing: AmqpSession::complete_publish and InMemoryBroker *)

\* A wrong key: the exchange is left out.
MutCacheKey(exchange, key) == <<"any exchange", key>>

\* The cache is indexed by hashes of exchange and routing key, here taken to
\* be different for different names.
CacheKey(exchange, key) == <<exchange, key>>

CacheHit(ch, exchange, key) ==
  LET k == CacheKey(exchange, key)
  IN  k \in DOMAIN route_cache[ch] /\ route_cache[ch][k].version = route_table.version

\* The broker's lock is taken to read the version; the cache is the channel's.
StartPublish(ch, exchange, key) ==
  /\ pending[ch] = Idle
  /\ pending' = [pending EXCEPT ![ch] =
       IF CacheHit(ch, exchange, key)
       THEN [at |-> "publish", exchange |-> exchange, key |-> key,
             route |-> route_cache[ch][CacheKey(exchange, key)]]
       ELSE [at |-> "resolve", exchange |-> exchange, key |-> key]]
  /\ out' = Quiet
  /\ UNCHANGED <<config, names, route_table, declared, route_cache>>

\* resolve_amqp_route.  Without a route the publish ends: silently, or with
\* the channel closed when the mandatory flag is set.
Resolve(ch) ==
  /\ pending[ch].at = "resolve"
  /\ LET p == pending[ch]
         r == resolve_direct_by_name(route_table, p.exchange, p.key)
         route == [route_id |-> r.route_id, version |-> r.version, epoch |-> Epoch]
     IN  IF r.ok
         THEN /\ route_cache' = [route_cache EXCEPT ![ch] = (CacheKey(p.exchange, p.key) :> route) @@ @]
              /\ pending' = [pending EXCEPT ![ch] =
                   [at |-> "publish", exchange |-> p.exchange, key |-> p.key, route |-> route]]
              /\ out' = Quiet
         ELSE /\ pending' = [pending EXCEPT ![ch] = Idle]
              /\ out' = [step |-> "unroutable", exchange |-> p.exchange, key |-> p.key]
              /\ UNCHANGED route_cache
  /\ UNCHANGED <<config, names, route_table, declared>>

\* The targets of the set, in order; those of other shards are errors and the
\* loop goes on.
LocalQueues(targets) ==
  LET local == SelectSeq(targets, LAMBDA t : t.shard = LocalShard)
  IN  [i \in DOMAIN local |-> local[i].queue]

Foreign(targets) == Len(SelectSeq(targets, LAMBDA t : t.shard # LocalShard))

\* publish_by_route, with ensure_queue and publish_to_queue for each target.
PublishByRoute(ch) ==
  /\ pending[ch].at = "publish"
  /\ LET p == pending[ch]
         found == get_by_route_id(route_table, p.route.route_id, p.route.version)
         targets == IF found.ok THEN targets_vec(found.set) ELSE <<>>
         report == [step |-> "published", exchange |-> p.exchange, key |-> p.key,
                    epoch |-> p.route.epoch, queues |-> LocalQueues(targets),
                    foreign |-> Foreign(targets),
                    error |-> IF found.ok THEN "None" ELSE found.error]
     IN  /\ declared' = declared \cup ToSet(LocalQueues(targets))
         /\ out' = report
  /\ pending' = [pending EXCEPT ![ch] = Idle]
  /\ UNCHANGED <<config, names, route_table, route_cache>>

-----------------------------------------------------------------------------
Control ==
  /\ single_node
  /\ \/ \E name \in ExchangeNames, kind \in {"Direct", "Fanout"} : DeclareExchange(name, kind)
     \/ \E name \in QueueNames : DeclareQueue(name)
     \/ DeclareAnonymousQueue
     \/ \E queue \in QueueNames, exchange \in ExchangeNames, key \in Keys :
          BindQueue(queue, exchange, key)

Publishing ==
  \E ch \in Channels :
    \/ \E exchange \in ExchangeNames, key \in Keys : StartPublish(ch, exchange, key)
    \/ Resolve(ch)
    \/ PublishByRoute(ch)

Next == (Control \/ Publishing) /\ UNCHANGED single_node

Spec == Init /\ [][Next]_vars

-----------------------------------------------------------------------------
(* Properties *)

\* What a publish to an exchange should reach, straight from the bindings.
Bound(exchange, key) ==
  {QueueTarget(b) : b \in {c \in ToSet(config.bindings) :
      /\ exchange \in DOMAIN exchange_names
      /\ c.exchange_id = exchange_names[exchange]
      /\ KindOf(config, c.exchange_id) = "Fanout" \/ c.key = key}}

\* RouteCompiler::compile, resolve_direct and get_by_route_id together compute
\* the bindings: for every exchange and key, the route that resolves now is
\* accepted now and lists each bound target exactly once, and there is none
\* exactly when nothing is bound.  No sequence of control commands leads to a
\* configuration that the compiler refuses.
RoutesMatchBindings ==
  /\ compile_error(config) = "None"
  /\ \A exchange \in ExchangeNames, key \in Keys :
       LET r == resolve_direct_by_name(route_table, exchange, key)
           found == get_by_route_id(route_table, r.route_id, r.version)
           targets == targets_vec(found.set)
       IN  IF r.ok
           THEN /\ found.ok
                /\ ToSet(targets) = Bound(exchange, key)
                /\ Len(targets) = Cardinality(Bound(exchange, key))
           ELSE Bound(exchange, key) = {}

\* A publish whose route was resolved or cached since the last rebuild reaches
\* every bound queue of the broker's shard once, whatever other connections do
\* between its steps; bindings to other shards are reported as errors and do
\* not stop the others (publish_by_route).
PublishReachesBoundQueues ==
  out.step = "published" /\ out.epoch = Epoch =>
    LET bound == Bound(out.exchange, out.key)
        local == {t.queue : t \in {b \in bound : b.shard = LocalShard}}
    IN  /\ out.error = "None"
        /\ ToSet(out.queues) = local
        /\ Len(out.queues) = Cardinality(local)
        /\ out.foreign = Cardinality({b \in bound : b.shard # LocalShard})
        /\ local \subseteq declared

\* Strict stale policy: a publish through a route resolved before the table
\* was rebuilt is rejected, or at least reaches only bound queues.
StaleRouteNeverMisroutes ==
  out.step = "published" /\ out.epoch < Epoch =>
    \/ out.error = "RouteTableVersionMismatch"
    \/ \A q \in ToSet(out.queues) : [shard |-> LocalShard, queue |-> q] \in Bound(out.exchange, out.key)
=============================================================================
