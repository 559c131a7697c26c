------------------------------- MODULE Wiring -------------------------------
(***************************************************************************)
(* The image graph: what the statements of an image's phase record about   *)
(* slots, topics, publishers, subscriptions, driver paths, executors and   *)
(* vCPUs (sem), the checks on the finished graph, and the topic layouts    *)
(* and start plans lowered from it (ir).  The other modules of the project *)
(* assume what an accepted graph guarantees: one producer per topic, one   *)
(* executor behind a slot, one owner of a path and of an arena.            *)
(***************************************************************************)
EXTENDS Integers, Sequences, FiniteSets, SequencesExt

CONSTANT Phases  \* the parts of a phase: for each, the statement lists it may have
VARIABLE wi

None == "none"
Indices(s) == 1..Len(s)
Labels(nodes) == {nodes[i].label : i \in Indices(nodes)}
-----------------------------------------------------------------------------
(* What the statements record.                                             *)
EmptyGraph == [slots |-> <<>>, topics |-> <<>>, publishers |-> <<>>, subscriptions |-> <<>>, paths |-> <<>>,
               routes |-> <<>>, timers |-> <<>>, executors |-> <<>>, placements |-> <<>>]

(* A timer route is kept once per topic; its subscriber slots are merged.  *)
RecordTimerRoute(timers, s) ==
  LET at == {i \in Indices(timers) : timers[i].topic = s.topic}
  IN IF at = {} THEN Append(timers, [topic |-> s.topic, slots |-> {s.slot}])
     ELSE [timers EXCEPT ![CHOOSE i \in at : TRUE].slots = @ \cup {s.slot}]

RecordSubscription(g, s) ==
  [g EXCEPT !.topics = IF s.timer /\ s.topic \notin Labels(g.topics) THEN Append(@, [label |-> s.topic]) ELSE @,
            !.subscriptions = Append(@, [binding |-> s.binding, topic |-> s.topic, slot |-> s.slot]),
            !.timers = IF s.timer THEN RecordTimerRoute(@, s) ELSE @]

(* A route is recorded once per path and topic.                            *)
RecordInterruptTopicRoute(routes, route) ==
  IF \E i \in Indices(routes) : routes[i].path = route.path /\ routes[i].topic = route.topic
  THEN routes ELSE Append(routes, route)

RecordPath(g, s) ==
  [g EXCEPT !.paths = Append(@, [label |-> s.label, binding |-> s.binding, uses |-> s.uses, publishes |-> s.topic # None]),
            !.routes = IF s.topic = None THEN @
                       ELSE RecordInterruptTopicRoute(@, [path |-> s.label, binding |-> s.binding, topic |-> s.topic])]

(* A placement takes over the slot of the executor it names.               *)
RecordPlacement(g, s) ==
  LET e == CHOOSE i \in Indices(g.executors) : g.executors[i].binding = s.executor
  IN [g EXCEPT !.placements = Append(@, [vcpu |-> s.vcpu, executor |-> s.executor,
                                         slot |-> g.executors[e].slot, terminal |-> s.terminal])]

RecordGraphFromLet(g, s) ==
  CASE s.op = "slot" -> [g EXCEPT !.slots = Append(@, [label |-> s.label])]
    [] s.op = "topic" -> [g EXCEPT !.topics = Append(@, [label |-> s.label])]
    [] s.op = "publisher" -> [g EXCEPT !.publishers = Append(@, [binding |-> s.binding, topic |-> s.topic])]
    [] s.op = "subscription" -> RecordSubscription(g, s)
    [] s.op = "path" -> RecordPath(g, s)
    [] s.op = "executor" -> [g EXCEPT !.executors = Append(@, [binding |-> s.binding, slot |-> s.slot, fields |-> s.fields,
                                                              memory |-> s.memory, policy |-> s.policy])]
    [] s.op = "vcpu" -> RecordPlacement(g, s)
-----------------------------------------------------------------------------
(* The checks.                                                             *)
NoDuplicateLabels(nodes) == \A i, j \in Indices(nodes) : i # j => nodes[i].label # nodes[j].label
CheckDuplicateGraphLabels(g) ==
  /\ NoDuplicateLabels(g.slots) /\ NoDuplicateLabels(g.paths) /\ NoDuplicateLabels(g.topics)
  /\ Labels(g.slots) \cap Labels(g.paths) = {} /\ Labels(g.slots \o g.paths) \cap Labels(g.topics) = {}

Bound(g, slot) == {i \in Indices(g.executors) : g.executors[i].slot = slot}
Placed(g, slot) == {i \in Indices(g.placements) : g.placements[i].slot = slot}
CheckSlotBindingsAndPlacements(g) ==
  /\ \A i \in Indices(g.executors) : g.executors[i].slot \in Labels(g.slots) \cup {None}
  /\ Placed(g, None) = {}
  /\ \A i \in Indices(g.subscriptions) : g.subscriptions[i].slot \in Labels(g.slots)
  /\ \A l \in Labels(g.slots) : Cardinality(Bound(g, l)) = 1 /\ Cardinality(Placed(g, l)) = 1

Holds(e, nodes) == {i \in Indices(nodes) : nodes[i].binding \in e.fields}
CheckSubscriptionSlotBindings(g) ==
  \A i \in Indices(g.executors) : \A s \in Holds(g.executors[i], g.subscriptions) :
    g.executors[i].slot \in {None, g.subscriptions[s].slot}

CheckVcpuPlacements(g) ==
  LET p == g.placements
  IN /\ \A i \in Indices(p) : /\ i > 1 => ~p[i - 1].terminal
                              /\ p[i].terminal <=> p[i].vcpu = 0
                              /\ \A j \in Indices(p) : i # j => p[i].vcpu # p[j].vcpu
     /\ p # <<>> => \E i \in Indices(p) : p[i].vcpu = 0 /\ p[i].terminal

(* The fields and routes that produce into topic t.                        *)
FieldUses(g, t) ==
  {<<i, b>> \in Indices(g.executors) \X Indices(g.publishers) :
     b \in Holds(g.executors[i], g.publishers) /\ g.publishers[b].topic = t}
RouteUses(g, t) == {i \in Indices(g.routes) : g.routes[i].topic = t}
(* Variant: interrupt routes are not counted as producers.                 *)
CheckFieldPublishers(g) ==
  /\ \A b \in Indices(g.publishers) :
       Cardinality({i \in Indices(g.executors) : b \in Holds(g.executors[i], g.publishers)}) <= 1
  /\ \A t \in Labels(g.topics) : Cardinality(FieldUses(g, t)) <= 1
CheckPublisherBindings(g) ==
  /\ \A b \in Indices(g.publishers) :
       Cardinality({i \in Indices(g.executors) : b \in Holds(g.executors[i], g.publishers)}) <= 1
  /\ \A t \in Labels(g.topics) : Cardinality(FieldUses(g, t)) + Cardinality(RouteUses(g, t)) <= 1

(* An executor takes messages from the subscriptions it holds.             *)
CheckSubscriptionUses(g) ==
  \A i \in Indices(g.executors) : \A s \in Holds(g.executors[i], g.subscriptions) :
    g.executors[i].slot = g.subscriptions[s].slot

HasWakeSource(g, slot) == \/ \E i \in Indices(g.subscriptions) : g.subscriptions[i].slot = slot
                          \/ \E i \in Indices(g.timers) : slot \in g.timers[i].slots
CheckTopicPolicies(g) ==
  \A i \in Indices(g.executors) :
    g.executors[i].policy = "EventSleepPolicy" /\ g.executors[i].slot # None => HasWakeSource(g, g.executors[i].slot)

CheckExecutorMemoryOwners(g) ==
  \A i \in Indices(g.executors) :
    g.executors[i].memory # None => g.executors[i].slot \in {None, g.executors[i].memory}

CheckPublishingIdentities(g) ==
  \A i \in Indices(g.paths) : g.paths[i].publishes => \E r \in Indices(g.routes) : g.routes[r].binding = g.paths[i].binding

(* An executor owns the paths it holds and the paths inside them.          *)
PathsInside(g, held) == held \cup UNION {g.paths[p].uses : p \in {q \in Indices(g.paths) : g.paths[q].binding \in held}}
RECURSIVE Closure(_, _)
Closure(g, held) == IF PathsInside(g, held) = held THEN held ELSE Closure(g, PathsInside(g, held))
CheckExecutorWiring(g) ==
  \A p \in Indices(g.paths) :
    Cardinality({i \in Indices(g.executors) : g.paths[p].binding \in Closure(g, g.executors[i].fields)}) <= 1

CheckExecutorTopicGraph(g) ==
  /\ CheckDuplicateGraphLabels(g) /\ CheckSlotBindingsAndPlacements(g) /\ CheckSubscriptionSlotBindings(g)
  /\ CheckVcpuPlacements(g) /\ CheckPublisherBindings(g) /\ CheckSubscriptionUses(g) /\ CheckTopicPolicies(g)
  /\ CheckExecutorMemoryOwners(g) /\ CheckPublishingIdentities(g)
-----------------------------------------------------------------------------
(* Lowering.                                                               *)
ExecutorBySlot(g, slot) == CHOOSE i \in Bound(g, slot) : \A j \in Bound(g, slot) : i <= j
PublisherSlotsForTopic(g, t) == {g.executors[u[1]].slot : u \in FieldUses(g, t)} \ {None}

LowerTopicLayouts(g) ==
  [i \in Indices(g.topics) |->
     LET t == g.topics[i].label
         subs == SelectSeq(g.subscriptions, LAMBDA s : s.topic = t)
     IN [label |-> t, subscribers |-> [s \in Indices(subs) |-> subs[s].slot], producers |-> PublisherSlotsForTopic(g, t)]]

LowerVcpuStartPlans(g) ==
  [i \in Indices(g.placements) |->
     [vcpu |-> g.placements[i].vcpu, slot |-> g.placements[i].slot, terminal |-> g.placements[i].terminal,
      executor |-> g.executors[ExecutorBySlot(g, g.placements[i].slot)].binding]]
-----------------------------------------------------------------------------
Start == [phase |-> "record", part |-> 0, todo |-> <<>>, graph |-> EmptyGraph, topics |-> <<>>, starts |-> <<>>]
Init == wi = Start

(* The next part of the phase: any of its statement lists.                 *)
ReachPart ==
  /\ wi.phase = "record" /\ wi.todo = <<>> /\ wi.part < Len(Phases)
  /\ \E list \in Phases[wi.part + 1] : wi' = [wi EXCEPT !.part = @ + 1, !.todo = list]

RecordStatement ==
  /\ wi.phase = "record" /\ wi.todo # <<>>
  /\ wi' = [wi EXCEPT !.graph = RecordGraphFromLet(@, Head(wi.todo)), !.todo = Tail(@)]

(* A refused graph is not used any more.                                   *)
CheckGraph ==
  /\ wi.phase = "record" /\ wi.todo = <<>> /\ wi.part = Len(Phases)
  /\ wi' = IF CheckExecutorWiring(wi.graph) /\ CheckExecutorTopicGraph(wi.graph)
           THEN [wi EXCEPT !.phase = "accepted"] ELSE [Start EXCEPT !.phase = "refused"]

LowerGraph ==
  /\ wi.phase = "accepted"
  /\ wi' = [wi EXCEPT !.phase = "lowered", !.topics = LowerTopicLayouts(wi.graph), !.starts = LowerVcpuStartPlans(wi.graph)]

Next == ReachPart \/ RecordStatement \/ CheckGraph \/ LowerGraph
Spec == Init /\ [][Next]_wi
-----------------------------------------------------------------------------
Done == wi.phase \in {"refused", "lowered"}
Lowered == wi.phase = "lowered"
Executor(b) == CHOOSE e \in ToSet(wi.graph.executors) : e.binding = b
Started == {Executor(p.executor) : p \in ToSet(wi.starts)}
Resources(e) == (Closure(wi.graph, e.fields) \cap {p.binding : p \in ToSet(wi.graph.paths)}) \cup ({e.memory} \ {None})

(* A topic of a lowered image is written by one executor or by one         *)
(* interrupt route, never by two vCPUs or by a vCPU and a handler: what    *)
(* module Topic and the interrupt publisher take for granted.              *)
OneProducerPerTopic ==
  Lowered => \A t \in ToSet(wi.topics) :
    LET writers == {e \in Started : \E b \in Holds(e, wi.graph.publishers) : wi.graph.publishers[b].topic = t.label}
    IN /\ Cardinality(writers) + Cardinality(RouteUses(wi.graph, t.label)) <= 1
       /\ t.producers = {e.slot : e \in writers}

(* A start plan runs the executor the image placed, on a vCPU of its own,  *)
(* the bootstrap vCPU last; every cursor of a topic belongs to a slot that *)
(* exactly one plan runs, and only that plan's executor reads it; a        *)
(* sleeping executor is a subscriber of something that wakes it.           *)
PlansMatchTheImage ==
  Lowered =>
    /\ \A i \in Indices(wi.starts) :
         /\ wi.starts[i].executor = wi.graph.placements[i].executor
         /\ wi.starts[i].vcpu = 0 <=> i = Len(wi.starts)
         /\ \A j \in Indices(wi.starts) : i # j => wi.starts[i].vcpu # wi.starts[j].vcpu
    /\ \A t \in ToSet(wi.topics) : \A slot \in ToSet(t.subscribers) :
         /\ Cardinality({i \in Indices(wi.starts) : wi.starts[i].slot = slot}) = 1
         /\ \A e \in Started : \A s \in Holds(e, wi.graph.subscriptions) :
              wi.graph.subscriptions[s].topic = t.label /\ wi.graph.subscriptions[s].slot = slot => e.slot = slot
    /\ \A e \in Started : e.policy = "EventSleepPolicy" => \E t \in ToSet(wi.topics) : e.slot \in ToSet(t.subscribers)

(* No two executors that run share a driver path, at any depth, or an      *)
(* arena.                                                                  *)
ResourcesHaveOneOwner ==
  Lowered => \A d, e \in Started : d # e => Resources(d) \cap Resources(e) = {}
=============================================================================
