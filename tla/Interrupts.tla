----------------------------- MODULE Interrupts -----------------------------
(***************************************************************************)
(* The interrupt path of a generated image on the processor that takes the *)
(* device interrupts: the dispatch unit the compiler builds for every      *)
(* known vector, the topic publication and the bounded interrupt queue     *)
(* behind it, the end of interrupt, and the local APIC timer that is       *)
(* calibrated and armed at boot.                                           *)
(*                                                                         *)
(* A dispatch unit is the sequence of its steps.  A step runs with the     *)
(* processor's interrupts off and interleaves with the devices and with    *)
(* the owner of the queue, which takes entries on another processor (or,   *)
(* when it runs on this one, only between interrupts).                     *)
(*                                                                         *)
(* The state is one record:                                                *)
(*   cfg    the image: bindings, queue-only vectors, policy, timer routes  *)
(*   irr, isr     the local APIC's requested and in-service vectors        *)
(*   steps, vec   what is left of the unit that runs, and its vector       *)
(*   regs, stack  the register file and the interrupt stack                *)
(*   ev     the event storage of the bound path, 0 for no event            *)
(*   q, rd  the queue's memory, and the registers the push works with      *)
(*   topic  the slot being written and what was published, newest last     *)
(*   timer  the timer's registers and where its initialisation stands      *)
(*   raised, got, lost   events raised, delivered, refused by the policy   *)
(***************************************************************************)
EXTENDS Integers, Sequences, FiniteSets

CONSTANTS Configs,    \* images: [bindings, queued, policy, timers, near, period]
          QueueCapacity,   \* entries of the interrupt queue
          MaxEvents,  \* bound: interrupts a device raises
          MaxTicks,   \* bound: expiries of the timer
          CountMax    \* 2^32 - 1 in the code: the largest timer count

VARIABLE ic

Known == {"serial", "msi", "msix", "timer", "wake"}
Registers == <<"rax", "rcx", "rbx", "rbp", "r12">>
Original == [i \in DOMAIN Registers |-> Registers[i]]
Clobbered == [i \in DOMAIN Registers |-> "clobbered"]
Ints(s) == {s[i] : i \in DOMAIN s}

\* emitInterruptSave, emitInterruptRestore: pushes, and pops in reverse order.
Save == [i \in DOMAIN Registers |-> i]
\* Variant: the pops are in the order of the pushes.
RestoreInOrder == Save
Restore == [i \in DOMAIN Registers |-> Len(Registers) + 1 - i]

PublishSteps == <<"load_head", "store_slot_sequence", "store_payload", "store_head">>
TimerPublishSteps == <<"load_head", "store_payload", "store_slot_sequence", "store_head">>
PushSteps == <<"load_queue_head", "load_queue_tail", "compare", "store_entry", "store_tail", "wake_owner">>
Framed(body) == <<"save">> \o body \o <<"eoi", "restore", "iretq">>

\* The unit of a bound vector: event, publication, then its queue if it has one.
InterruptDispatchUnit(c, v) ==
    Framed(<<"receiver", "event", "test_some">> \o PublishSteps
             \o (IF v \in c.queued THEN PushSteps ELSE <<>>))
InterruptQueueOnlyUnit == Framed(PushSteps)
TimerUnit == Framed(TimerPublishSteps)
InterruptWakeUnit == Framed(<<>>)
InterruptTrapUnit == <<"halt">>

\* compileInterruptDispatchUnits and compileTimerUnits: what a vector runs.
DispatchUnit(c, v) ==
    IF v = "timer" /\ c.timers # <<>> THEN TimerUnit
    ELSE IF v = "wake" THEN InterruptWakeUnit
    ELSE IF v \in Ints(c.bindings) THEN InterruptDispatchUnit(c, v)
    ELSE IF v \in c.queued THEN InterruptQueueOnlyUnit
    ELSE InterruptTrapUnit

\* Two bindings or two timer routes of one vector stop the build.
Duplicates(s) == Cardinality(Ints(s)) < Len(s)
Compiles(c) == ~Duplicates(c.bindings) /\ ~Duplicates(c.timers)

EmptyQueue == [head |-> 0, tail |-> 0, overflow |-> FALSE, slots |-> [i \in 0 .. QueueCapacity - 1 |-> 0]]
EmptyTopic == [head |-> 0, sequence |-> 0, payload |-> 0, out |-> <<>>]
TimerOff == [pc |-> "divide", lvt |-> "masked", initial |-> 0, elapsed |-> 0, ticks |-> 0]

InterruptInit == \E c \in {x \in Configs : Compiles(x)} :
    ic = [cfg |-> c, irr |-> {}, isr |-> {}, steps |-> <<>>, vec |-> "none",
          regs |-> Original, stack |-> <<>>, ev |-> 0, q |-> EmptyQueue,
          rd |-> [head |-> 0, tail |-> 0, seq |-> 0], topic |-> [t \in {"event", "timer"} |-> EmptyTopic],
          timer |-> TimerOff, raised |-> 0, events |-> 0, pushing |-> 0, got |-> <<>>, lost |-> {},
          halted |-> FALSE]

(***************************************************************************)
(* Devices, the queue's owner.                                             *)
(***************************************************************************)
\* A device raises its vector; the local APIC holds one request per vector.
Raise(v) ==
    /\ ic.raised < MaxEvents
    /\ ic' = [ic EXCEPT !.raised = @ + 1, !.irr = @ \cup {v}]

\* The owner takes an entry (code outside the repository): near means that it
\* runs on this processor, so never inside a unit.
Take ==
    /\ ic.q.head < ic.q.tail
    /\ ic.cfg.near => ic.steps = <<>>
    /\ ic' = [ic EXCEPT !.got = Append(@, ic.q.slots[ic.q.head % QueueCapacity]), !.q.head = @ + 1]

(***************************************************************************)
(* emitTimerInit, one access of the local APIC at a time, with interrupts  *)
(* already enabled.                                                        *)
(***************************************************************************)
TimerPeriodUS(p) == IF p = 0 THEN 1 ELSE p
CalibrationUS == 4

\* The count for one period: elapsed * period / calibration, at least one.
InitialCount(elapsed, period) ==
    LET n == (elapsed * TimerPeriodUS(period)) \div CalibrationUS IN IF n = 0 THEN 1 ELSE n

\* Images whose owner of a queue that drops the oldest entry runs on the
\* processor of the handler, and whose period the timer can count.
ASSUME InterruptAssumption ==
    /\ QueueCapacity \in Nat \ {0} /\ CountMax \in Nat
    /\ \A c \in Configs : /\ c.near \in BOOLEAN
                          /\ c.policy = "drop_oldest" => c.near
                          /\ c.period \in Nat /\ 3 * TimerPeriodUS(c.period) <= CalibrationUS * CountMax

TimerStep ==
    /\ ic.cfg.timers # <<>> /\ ic.steps = <<>> /\ ~ic.halted /\ ic.timer.pc # "armed"
    /\ LET t == ic.timer
       IN ic' = [ic EXCEPT !.timer =
            CASE t.pc = "divide" -> [t EXCEPT !.pc = "mask"]
              [] t.pc = "mask" -> [t EXCEPT !.pc = "count", !.lvt = "masked"]
              [] t.pc = "count" -> [t EXCEPT !.pc = "sample", !.initial = CountMax]
              [] t.pc = "sample" -> [t EXCEPT !.pc = "program"]
              [] t.pc = "program" ->
                   [t EXCEPT !.pc = "unmask",
                             !.initial = InitialCount(t.elapsed, ic.cfg.period) % (CountMax + 1)]
              [] t.pc = "unmask" -> [t EXCEPT !.pc = "armed", !.lvt = "periodic"]]

\* Time passes while the calibration samples the count.
Elapse ==
    /\ ic.timer.pc = "program" /\ ic.timer.elapsed < 3
    /\ ic' = [ic EXCEPT !.timer.elapsed = @ + 1]

\* The count reaches zero: an interrupt unless the entry is masked.
Expire ==
    /\ ic.timer.initial # 0 /\ ic.timer.ticks < MaxTicks
    /\ ic' = [ic EXCEPT !.timer.ticks = @ + 1,
                        !.irr = IF ic.timer.lvt = "masked" THEN @ ELSE @ \cup {"timer"}]

(***************************************************************************)
(* The processor.                                                          *)
(***************************************************************************)
\* An interrupt is taken between instructions of the interrupted code.
Dispatch ==
    /\ ic.steps = <<>> /\ ~ic.halted /\ ic.isr = {}
    /\ \E v \in ic.irr :
         ic' = [ic EXCEPT !.irr = @ \ {v}, !.isr = {v}, !.vec = v, !.steps = DispatchUnit(ic.cfg, v)]

AtStep(s) == ic.steps # <<>> /\ Head(ic.steps) = s
StepOn(f) == ic' = [f EXCEPT !.steps = Tail(@)]
\* Variant: the jump goes past the end of interrupt as well.
SkipPastEOI(f) == ic' = [f EXCEPT !.steps = <<"restore", "iretq">>]

\* A jump past every step up to the end of interrupt.
SkipToEOI(f) ==
    ic' = [f EXCEPT !.steps = Tail(Framed(<<>>))]

SaveRegisters ==
    /\ AtStep("save")
    /\ StepOn([ic EXCEPT !.stack = [i \in DOMAIN Save |-> ic.regs[Save[i]]] \o @,
                          !.regs = Clobbered])
RestoreRegisters ==
    /\ AtStep("restore")
    /\ LET n == Len(Registers)
           pushed == SubSeq(ic.stack, 1, n)
       IN StepOn([ic EXCEPT
            !.regs = [i \in 1 .. n |-> pushed[n + 1 - (CHOOSE k \in 1 .. n : Restore[k] = i)]],
            !.stack = SubSeq(@, n + 1, Len(@))])

\* The path's receiver and its event function: an event or none.
LoadInterruptPathReceiver == AtStep("receiver") /\ StepOn(ic)
CallEvent ==
    /\ AtStep("event")
    /\ \/ StepOn([ic EXCEPT !.ev = ic.events + 1, !.events = @ + 1])
       \/ ic.vec = "serial" /\ StepOn([ic EXCEPT !.ev = 0])

\* A serial event that is None publishes nothing and queues nothing.
TestSome == /\ AtStep("test_some")
            /\ IF ic.vec = "serial" /\ ic.ev = 0 THEN SkipToEOI(ic) ELSE StepOn(ic)

\* emitInterruptTopicPublish and emitTimerPayloadPublish: the slot's sequence
\* number and payload in either order, then the head.
PublishedTopic == IF ic.vec = "timer" THEN "timer" ELSE "event"
TopicLoadHead == /\ AtStep("load_head")
                 /\ StepOn([ic EXCEPT !.rd.seq = ic.topic[PublishedTopic].head + 1])
TopicStoreSequence == /\ AtStep("store_slot_sequence")
                      /\ StepOn([ic EXCEPT !.topic[PublishedTopic].sequence = ic.rd.seq])
TopicStorePayload == /\ AtStep("store_payload")
                     /\ StepOn([ic EXCEPT !.topic[PublishedTopic].payload =
                                   IF ic.vec = "timer" THEN ic.rd.seq ELSE ic.ev])
TopicStoreHead ==
    /\ AtStep("store_head")
    /\ LET t == ic.topic[PublishedTopic]
       IN StepOn([ic EXCEPT !.topic[PublishedTopic] =
            [t EXCEPT !.head = ic.rd.seq, !.out = Append(@, <<t.sequence, t.payload>>)]])

\* emitInterruptQueuePushPayload, memory access by memory access.
QueueLoadHead == /\ AtStep("load_queue_head")
                 /\ StepOn([ic EXCEPT !.rd.head = ic.q.head, !.pushing = @ + 1])
QueueLoadTail == AtStep("load_queue_tail") /\ StepOn([ic EXCEPT !.rd.tail = ic.q.tail])

\* Variant: the ring counts as full one entry too late.
QueueFullLate == ic.rd.tail - ic.rd.head > QueueCapacity

\* The indices count up and their difference is the number of entries.
QueueFull == ic.rd.tail - ic.rd.head >= QueueCapacity

\* emitInterruptQueueFullPolicy: the newest entry is refused, the oldest is
\* given up by moving the head, or the machine stops.
QueueCompare ==
    /\ AtStep("compare")
    /\ IF ~QueueFull THEN StepOn(ic)
       ELSE CASE ic.cfg.policy = "drop_newest" ->
                   SkipToEOI([ic EXCEPT !.q.overflow = TRUE, !.lost = @ \cup {ic.pushing}])
              [] ic.cfg.policy = "drop_oldest" ->
                   StepOn([ic EXCEPT !.q.overflow = TRUE, !.q.head = ic.rd.head + 1,
                                      !.lost = @ \cup {ic.q.slots[ic.rd.head % QueueCapacity]}])
              [] OTHER -> ic' = [ic EXCEPT !.halted = TRUE, !.steps = <<>>]

\* emitInterruptQueueStoreEntry: the slot is the tail modulo the capacity.
QueueStoreEntry == /\ AtStep("store_entry")
                   /\ StepOn([ic EXCEPT !.q.slots[ic.rd.tail % QueueCapacity] = ic.pushing])
QueueStoreTail == AtStep("store_tail") /\ StepOn([ic EXCEPT !.q.tail = ic.rd.tail + 1])
\* The owner is woken by an interrupt of its own; here it needs no waking.
WakeOwner == AtStep("wake_owner") /\ StepOn(ic)

LocalApicEOI == AtStep("eoi") /\ StepOn([ic EXCEPT !.isr = {}])
Iretq == AtStep("iretq") /\ StepOn([ic EXCEPT !.vec = "none"])
Halt == AtStep("halt") /\ ic' = [ic EXCEPT !.halted = TRUE, !.steps = <<>>]

InterruptStep ==
    \/ Dispatch \/ SaveRegisters \/ RestoreRegisters \/ LoadInterruptPathReceiver \/ CallEvent
    \/ TestSome \/ TopicLoadHead \/ TopicStoreSequence \/ TopicStorePayload \/ TopicStoreHead
    \/ QueueLoadHead \/ QueueLoadTail \/ QueueCompare \/ QueueStoreEntry \/ QueueStoreTail
    \/ WakeOwner \/ LocalApicEOI \/ Iretq \/ Halt

InterruptNext == InterruptStep \/ TimerStep \/ Elapse \/ Expire \/ Take \/ \E v \in Known \ {"timer"} : Raise(v)

\* The processor runs; devices and the owner of the queue need not act.
InterruptSpec == InterruptInit /\ [][InterruptNext]_ic
InterruptFairSpec == InterruptSpec /\ WF_ic(InterruptStep) /\ WF_ic(TimerStep)

(***************************************************************************)
(* The inductive invariant.  Of a unit that runs it speaks through the     *)
(* step that comes next.                                                   *)
(***************************************************************************)
Topics == {"event", "timer"}
RegisterValues == Ints(Registers) \cup {"clobbered"}
StepNames ==
    {"save", "receiver", "event", "test_some", "load_head", "store_slot_sequence", "store_payload",
     "store_head", "load_queue_head", "load_queue_tail", "compare", "store_entry", "store_tail",
     "wake_owner", "eoi", "restore", "iretq", "halt"}
UnitVectors == Known \cup {"none"}
QueueRecords == [head : Nat, tail : Nat, overflow : BOOLEAN, slots : [0 .. QueueCapacity - 1 -> Nat]]
LoadedRecords == [head : Nat, tail : Nat, seq : Nat]
TopicRecords == [head : Nat, sequence : Nat, payload : Nat, out : Seq(Nat \X Nat)]
TimerRecords ==
    [pc : {"divide", "mask", "count", "sample", "program", "unmask", "armed"},
     lvt : {"masked", "periodic"}, initial : Nat, elapsed : 0 .. 3, ticks : Nat]
InterruptFields ==
    [cfg : Configs, irr : SUBSET Known, isr : SUBSET Known, steps : Seq(StepNames), vec : UnitVectors,
     regs : Seq(RegisterValues), stack : Seq(RegisterValues), ev : Nat, q : QueueRecords, rd : LoadedRecords,
     topic : [Topics -> TopicRecords], timer : TimerRecords, raised : Nat, events : Nat, pushing : Nat,
     got : Seq(Nat), lost : SUBSET Nat, halted : BOOLEAN]
InterruptTypeOK == ic \in InterruptFields

\* Which step follows which in a unit, and how a unit ends.
Ending == {<<"eoi", "restore">>, <<"restore", "iretq">>}
TimerFlow ==
    {<<"save", "load_head">>, <<"load_head", "store_payload">>, <<"store_payload", "store_slot_sequence">>,
     <<"store_slot_sequence", "store_head">>, <<"store_head", "eoi">>} \cup Ending
EventFlow ==
    {<<"save", "receiver">>, <<"save", "load_queue_head">>, <<"save", "eoi">>, <<"receiver", "event">>,
     <<"event", "test_some">>, <<"test_some", "load_head">>, <<"load_head", "store_slot_sequence">>,
     <<"store_slot_sequence", "store_payload">>, <<"store_payload", "store_head">>,
     <<"store_head", "load_queue_head">>, <<"store_head", "eoi">>,
     <<"load_queue_head", "load_queue_tail">>, <<"load_queue_tail", "compare">>, <<"compare", "store_entry">>,
     <<"store_entry", "store_tail">>, <<"store_tail", "wake_owner">>, <<"wake_owner", "eoi">>} \cup Ending
Flow(v) == IF v = "timer" THEN TimerFlow ELSE EventFlow
FlowsBy(s, flow) ==
    /\ \A i \in 1 .. Len(s) - 1 : <<s[i], s[i + 1]>> \in flow
    /\ s # <<>> => s[Len(s)] = "iretq" \/ s = <<"halt">>
StepsInv == FlowsBy(ic.steps, Flow(ic.vec))

NextStep == IF ic.steps = <<>> THEN "none" ELSE Head(ic.steps)

\* The timer raises nothing before it is armed, and then has its own unit.
TimerInv ==
    /\ "timer" \in ic.irr \cup ic.isr => ic.timer.pc = "armed"
    /\ ic.timer.lvt = "periodic" => ic.timer.pc = "armed"
    /\ ic.timer.pc # "divide" => ic.cfg.timers # <<>>
    /\ ic.timer.pc \in {"unmask", "armed"} => ic.timer.initial # 0

\* The registers are in the processor, or all on the interrupt stack.
RegistersInv ==
    IF ic.halted THEN ic.steps = <<>>
    ELSE IF NextStep \in {"none", "save", "halt", "iretq"}
    THEN ic.regs = Original /\ ic.stack = <<>> ELSE ic.stack = Original

\* What is published has the numbers 1, 2, ...; an event that was returned and
\* is not published yet has the next one.
PublishPoint == {"load_head", "store_slot_sequence", "store_payload", "store_head"}
PublishInv ==
    LET event == ic.topic["event"]  timer == ic.topic["timer"]  next == NextStep
        due == ic.ev = ic.events /\ ic.events = event.head + 1
        none == ic.events = event.head
    IN /\ \A t \in Topics : /\ ic.topic[t].head = Len(ic.topic[t].out)
                            /\ \A i \in DOMAIN ic.topic[t].out : ic.topic[t].out[i] = <<i, i>>
       /\ IF next = "test_some" THEN due \/ (ic.vec = "serial" /\ ic.ev = 0 /\ none)
          ELSE IF next \in PublishPoint /\ ic.vec # "timer" THEN due ELSE none
       /\ next \in PublishPoint \ {"load_head"} => ic.rd.seq = ic.topic[PublishedTopic].head + 1
       /\ ic.vec # "timer" => /\ next \in {"store_payload", "store_head"} => event.sequence = ic.rd.seq
                              /\ next = "store_head" => event.payload = ic.ev
       /\ ic.vec = "timer" => /\ next \in {"store_slot_sequence", "store_head"} => timer.payload = ic.rd.seq
                              /\ next = "store_head" => timer.sequence = ic.rd.seq

\* What the push has loaded of the ring is true when it is used.
RingInv ==
    LET next == NextStep
    IN /\ ic.q.tail - ic.q.head \in 0 .. QueueCapacity
       /\ next \in {"load_queue_tail", "compare"} => /\ ic.rd.head <= ic.q.head
                                                     /\ ic.cfg.near => ic.rd.head = ic.q.head
       /\ next \in {"compare", "store_entry", "store_tail"} => ic.rd.tail = ic.q.tail
       /\ next \in {"store_entry", "store_tail"} => ic.q.tail - ic.q.head < QueueCapacity
       /\ next = "store_tail" => ic.q.slots[ic.rd.tail % QueueCapacity] = ic.pushing

\* The entries in the ring and those taken are in order, and with those given
\* up they are all that was pushed.
QueueEntry(j) == ic.q.slots[j % QueueCapacity]
Waiting == ic.q.head .. ic.q.tail - 1
Pushed == IF NextStep \in {"load_queue_tail", "compare", "store_entry", "store_tail"}
          THEN ic.pushing - 1 ELSE ic.pushing
EntriesInv ==
    /\ Pushed \in Nat
    /\ \A j \in Waiting : QueueEntry(j) \in 1 .. Pushed
    /\ \A i, j \in Waiting : i < j => QueueEntry(i) < QueueEntry(j)
    /\ \A i \in DOMAIN ic.got : ic.got[i] \in 1 .. Pushed /\ \A j \in Waiting : ic.got[i] < QueueEntry(j)
    /\ \A i, j \in DOMAIN ic.got : i < j => ic.got[i] < ic.got[j]
    /\ ~ic.halted => \A n \in 1 .. Pushed : \/ n \in ic.lost
                                            \/ \E i \in DOMAIN ic.got : ic.got[i] = n
                                            \/ \E j \in Waiting : QueueEntry(j) = n
    /\ ic.lost # {} => ic.q.overflow

InterruptInv ==
    InterruptTypeOK /\ StepsInv /\ TimerInv /\ RegistersInv /\ PublishInv /\ RingInv /\ EntriesInv

(***************************************************************************)
(* Properties.                                                             *)
(***************************************************************************)
Increasing(s) == \A i, j \in DOMAIN s : i < j => s[i] < s[j]

\* The code an interrupt returns to finds every register as it left it and the
\* interrupt stack empty, whichever path the unit took.
RegistersPreserved ==
    ic.steps = <<>> /\ ~ic.halted => ic.regs = Original /\ ic.stack = <<>>

\* The owner gets entries in the order they were pushed, none twice, and an
\* entry that is neither delivered nor queued was given up by the policy with
\* the overflow flag set.
QueueInOrder ==
    LET waiting == [i \in 1 .. ic.q.tail - ic.q.head |-> ic.q.slots[(ic.q.head + i - 1) % QueueCapacity]]
        kept == ic.got \o waiting
    IN ~(\E i \in DOMAIN ic.steps : ic.steps[i] \in {"store_entry", "store_tail"}) /\ ~ic.halted =>
         /\ Increasing(kept)
         /\ 1 .. ic.pushing \subseteq Ints(kept) \cup ic.lost
         /\ ic.lost # {} => ic.q.overflow

\* The queue's memory holds at most its capacity, whatever the owner does
\* between the loads of head and tail and the store.
QueueBounded == ic.q.tail - ic.q.head \in 0 .. QueueCapacity

\* Every event a path returns is published once, in the order the interrupts
\* were taken, with the sequence number its head says; so is every timer tick.
EventsPublishedOnce ==
    \A t \in {"event", "timer"} :
      LET out == ic.topic[t].out
      IN /\ \A i \in DOMAIN out : out[i] = <<i, i>>
         /\ t = "event" /\ ic.steps = <<>> => Len(out) = ic.events

\* The timer interrupts only when it is armed, and then with a count that runs.
TimerQuietUntilArmed ==
    /\ "timer" \in ic.irr \cup ic.isr => ic.timer.pc = "armed"
    /\ ic.timer.pc = "armed" => ic.timer.initial # 0

\* What devices raise reaches its reader: a path's events are published once and
\* in order, a queue hands over its entries in order, within its capacity and
\* with every loss flagged, and the timer raises nothing before it is armed with
\* a running count.
EventsReachTheirReader ==
    InterruptInv /\ EventsPublishedOnce /\ QueueInOrder /\ QueueBounded /\ TimerQuietUntilArmed

\* An interrupt is being handled; it has been acknowledged, or the machine has
\* stopped.
InService == ic.isr # {}
InterruptEnded == ic.isr = {} \/ ic.halted
=============================================================================
