----------------------------- MODULE RouteTable -----------------------------
(* Exchange routing (aurum-routing): RouteCompiler turns a list of           *)
(* exchanges and a list of bindings into an immutable RouteTable, in which a  *)
(* publisher looks up a route by exchange and routing key and later its       *)
(* targets by the route's number.                                             *)
(*                                                                            *)
(* Routing keys are natural numbers in the order of the strings (the compiler *)
(* walks a BTreeMap), 0 being the empty key.  Sequences count from 1 where    *)
(* the vectors of the code count from 0.                                      *)
EXTENDS Naturals, SequencesExt

CONSTANT SmallSetSize   \* targets that fit into a SmallQueueSet (4 in the code)

ASSUME SmallSetSizeAssumption == SmallSetSize \in Nat \ {0}

-----------------------------------------------------------------------------
(* Queue sets *)

QueueTarget(b) == [shard |-> b.shard, queue |-> b.queue_id]

TargetLess(a, b) ==
  \/ a.shard < b.shard
  \/ a.shard = b.shard /\ a.queue < b.queue

\* dedupe_targets: each target once, by shard and queue.
dedupe_targets(targets) == SetToSortSeq(ToSet(targets), TargetLess)

\* The representations of a queue set: QueueSetBuilder::build.
Filler == [shard |-> 0, queue |-> 0]

ShardsOf(targets) == {targets[i].shard : i \in DOMAIN targets}

SmallSet(targets) ==
  [set |-> "Small", len |-> Len(targets),
   targets |-> [i \in 1..SmallSetSize |->
                  IF i <= Len(targets) THEN targets[i] ELSE Filler]]

GroupOf(targets, s) ==
  LET mine == SelectSeq(targets, LAMBDA t : t.shard = s)
  IN  [shard |-> s, queues |-> [i \in DOMAIN mine |-> mine[i].queue]]

ShardGrouped(targets) ==
  LET shards == SetToSortSeq(ShardsOf(targets), <)
  IN  [set |-> "ShardGrouped",
       groups |-> [g \in DOMAIN shards |-> GroupOf(targets, shards[g])]]

\* A wrong build: a full small set also takes the first target that does not fit.
MutBuild(targets) ==
  CASE Len(targets) = 0 -> [set |-> "Empty"]
    [] Len(targets) = 1 -> [set |-> "One", target |-> targets[1]]
    [] Len(targets) > 1 /\ Len(targets) <= SmallSetSize + 1
         /\ Cardinality(ShardsOf(targets)) = 1 ->
         [SmallSet(targets) EXCEPT !.len = IF @ > SmallSetSize THEN SmallSetSize ELSE @]
    [] OTHER -> ShardGrouped(targets)

build(targets) ==
  CASE Len(targets) = 0 -> [set |-> "Empty"]
    [] Len(targets) = 1 -> [set |-> "One", target |-> targets[1]]
    [] Len(targets) \in 2..SmallSetSize /\ Cardinality(ShardsOf(targets)) = 1 ->
         SmallSet(targets)
    [] OTHER -> ShardGrouped(targets)

\* for_each_target, collected by targets_vec.
targets_vec(set) ==
  CASE set.set = "Empty" -> <<>>
    [] set.set = "One"   -> <<set.target>>
    [] set.set = "Small" -> SubSeq(set.targets, 1, set.len)
    [] set.set = "ShardGrouped" ->
         FlattenSeq([g \in DOMAIN set.groups |->
                       [i \in DOMAIN set.groups[g].queues |->
                          [shard |-> set.groups[g].shard,
                           queue |-> set.groups[g].queues[i]]]])

route_flags_for_entry(set, base) ==
  {base}
    \cup (IF set.set = "Empty" THEN {"UNROUTABLE"} ELSE {})
    \cup (IF set.set \in {"Small", "ShardGrouped"} THEN {"HAS_MULTIPLE_TARGETS"} ELSE {})

-----------------------------------------------------------------------------
(* The table and its compiler *)

new_empty(version) ==
  [version |-> version, exchanges |-> <<>>, route_entries |-> <<>>,
   queue_sets |-> <<>>, direct_index |-> <<>>, exchange_by_id |-> <<>>,
   exchange_names |-> <<>>]

\* A later exchange of the same name takes the name over.
push_exchange(t, exchange, name) ==
  [t EXCEPT !.exchange_names = (name :> exchange.id) @@ @,
            !.exchange_by_id = (exchange.id :> Len(t.exchanges) + 1) @@ @,
            !.exchanges = Append(@, exchange)]

\* push_route_entry gives the next number; every entry has generation 1.
NextRouteId(t) == [index |-> Len(t.route_entries) + 1, generation |-> 1]

push_route_entry(t, exchange_id, targets, base) ==
  LET set == build(targets)
  IN  [t EXCEPT !.queue_sets = Append(@, set),
                !.route_entries =
                  Append(@, [generation |-> 1, exchange_id |-> exchange_id,
                             queue_set_id |-> Len(t.queue_sets) + 1,
                             flags |-> route_flags_for_entry(set, base)])]

map_direct(t, exchange_id, key, route_id) ==
  [t EXCEPT !.direct_index = (<<exchange_id, key>> :> route_id) @@ @]

BindingsOf(exchange, config) ==
  SelectSeq(config.bindings, LAMBDA b : b.exchange_id = exchange.id)

TargetsOf(bindings) == [i \in DOMAIN bindings |-> QueueTarget(bindings[i])]

compile_direct(exchange, config, t) ==
  LET mine == BindingsOf(exchange, config)
      keys == SetToSortSeq({mine[i].key : i \in DOMAIN mine}, <)
      AddKey(acc, k) ==
        map_direct(
          push_route_entry(acc, exchange.id,
            dedupe_targets(TargetsOf(SelectSeq(mine, LAMBDA b : b.key = k))), "DIRECT"),
          exchange.id, k, NextRouteId(acc))
  IN  FoldLeft(AddKey,
        push_exchange(t, [id |-> exchange.id, kind |-> "Direct", fanout |-> 0],
                      exchange.name),
        keys)

compile_fanout(exchange, config, t) ==
  LET routed == push_route_entry(t, exchange.id,
                  dedupe_targets(TargetsOf(BindingsOf(exchange, config))), "FANOUT")
  IN  push_exchange(routed,
        [id |-> exchange.id, kind |-> "Fanout", fanout |-> NextRouteId(t).index],
        exchange.name)

CompileExchange(exchange, config, t) ==
  IF exchange.kind = "Direct"
  THEN compile_direct(exchange, config, t)
  ELSE compile_fanout(exchange, config, t)

\* What compile refuses, in the order of its checks; "None" when it compiles.
\* Topic and headers exchanges are refused as well, and are never declared.
compile_error(config) ==
  LET ids == {config.exchanges[i].id : i \in DOMAIN config.exchanges}
  IN  CASE config.exchanges = <<>> -> "EmptyConfig"
        [] config.exchanges # <<>> /\ Cardinality(ids) < Len(config.exchanges) ->
             "DuplicateExchangeId"
        [] \E i \in DOMAIN config.bindings : config.bindings[i].exchange_id \notin ids ->
             "ExchangeNotFound"
        [] OTHER -> "None"

compile(config) ==
  FoldLeft(LAMBDA t, exchange : CompileExchange(exchange, config, t),
           new_empty(config.version), config.exchanges)

-----------------------------------------------------------------------------
(* Lookups *)

Failed(error) == [ok |-> FALSE, error |-> error]

Resolved(t, index) ==
  LET entry == t.route_entries[index]
  IN  IF "UNROUTABLE" \in entry.flags
      THEN Failed("Unroutable")
      ELSE [ok |-> TRUE, version |-> t.version,
            route_id |-> [index |-> index, generation |-> entry.generation]]

resolve_direct(t, exchange_id, key) ==
  IF exchange_id \notin DOMAIN t.exchange_by_id
  THEN Failed("ExchangeNotFound")
  ELSE LET exchange == t.exchanges[t.exchange_by_id[exchange_id]]
       IN  CASE exchange.kind = "Fanout" -> Resolved(t, exchange.fanout)
             [] exchange.kind = "Direct" /\ <<exchange_id, key>> \in DOMAIN t.direct_index ->
                  Resolved(t, t.direct_index[<<exchange_id, key>>].index)
             [] OTHER -> Failed("Unroutable")

resolve_direct_by_name(t, name, key) ==
  IF name \notin DOMAIN t.exchange_names
  THEN Failed("ExchangeNotFound")
  ELSE resolve_direct(t, t.exchange_names[name], key)

get_by_route_id(t, route_id, expected_version) ==
  CASE t.version # expected_version -> Failed("RouteTableVersionMismatch")
    [] t.version = expected_version /\ route_id.index \notin DOMAIN t.route_entries ->
         Failed("RouteIdInvalid")
    [] OTHER ->
         LET entry == t.route_entries[route_id.index]
         IN  CASE entry.generation # route_id.generation -> Failed("RouteGenerationMismatch")
               [] entry.generation = route_id.generation /\ "UNROUTABLE" \in entry.flags ->
                    Failed("Unroutable")
               [] OTHER -> [ok |-> TRUE, set |-> t.queue_sets[entry.queue_set_id]]
=============================================================================
