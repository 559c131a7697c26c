--------------------------- MODULE DeliveryProofs ---------------------------
(***************************************************************************)
(* How events and messages reach an executor.  The interrupt path of an    *)
(* image (entry, handler, event queue, interrupt topic, timer and the code *)
(* that takes the events), for every configuration of an image, capacity   *)
(* of the queue, number of events and ticks and width of a count.  And the *)
(* link between two executors, for every capacity and number of messages.  *)
(***************************************************************************)
EXTENDS Interrupts, CoreLink, TLAPS

-----------------------------------------------------------------------------
(* The interrupt path.                                                     *)

(* What is left of a unit after its first step still flows, and its next   *)
(* step is one that may follow.                                            *)
LEMMA FlowTail ==
  ASSUME NEW s \in Seq(StepNames), NEW flow, FlowsBy(s, flow), s # <<>>
  PROVE  /\ Tail(s) \in Seq(StepNames) /\ FlowsBy(Tail(s), flow)
         /\ Tail(s) = <<>> => Head(s) \in {"iretq", "halt"}
         /\ Tail(s) # <<>> => <<Head(s), Head(Tail(s))>> \in flow
<1>1. Tail(s) \in Seq(StepNames) /\ Len(Tail(s)) = Len(s) - 1 /\ Len(s) >= 1 /\ Len(s) \in Nat
    OBVIOUS
<1>2. \A i \in 1 .. Len(Tail(s)) : Tail(s)[i] = s[i + 1]
    OBVIOUS
<1>3. CASE Tail(s) = <<>>
  <2>a. Len(<<>>) = 0 OBVIOUS
  <2>b. Len(Tail(s)) = 0 BY <1>3, <2>a, Zenon
  <2>c. \A m \in Nat : 0 = m - 1 => m = 1 OBVIOUS
  <2>1. Len(s) = 1 BY <1>1, <2>b, <2>c, Zenon
  <2>2. s[Len(s)] = "iretq" \/ s = <<"halt">> BY Zenon DEF FlowsBy
  <2>3. Head(s) = s[1] OBVIOUS
  <2>4. Head(s) \in {"iretq", "halt"} BY <2>1, <2>2, <2>3
  <2>5. FlowsBy(Tail(s), flow) BY <1>3, <1>1, SMT DEF FlowsBy
  <2> QED BY <1>1, <1>3, <2>4, <2>5
<1>4. CASE Tail(s) # <<>>
  <2>a. \A t \in Seq(StepNames) : t # <<>> => Len(t) >= 1 OBVIOUS
  <2>b. Len(Tail(s)) >= 1 BY <1>1, <1>4, <2>a, Zenon
  <2>1. Len(s) > 1 BY <1>1, <2>b
  <2>c. Len(<<"halt">>) = 1 OBVIOUS
  <2>d. Len(s) # 1 BY <1>1, <2>1
  <2>2. s # <<"halt">> BY <2>c, <2>d, Zenon
  <2>3. s[Len(s)] = "iretq" BY <2>2, Zenon DEF FlowsBy
  <2>4. Tail(s)[Len(Tail(s))] = "iretq" BY <1>1, <1>2, <2>1, <2>3
  <2>5. \A i \in 1 .. Len(Tail(s)) - 1 : <<Tail(s)[i], Tail(s)[i + 1]>> \in flow
    <3> SUFFICES ASSUME NEW i \in 1 .. Len(Tail(s)) - 1 PROVE <<Tail(s)[i], Tail(s)[i + 1]>> \in flow
        OBVIOUS
    <3>1. i \in 1 .. Len(Tail(s)) /\ i + 1 \in 1 .. Len(Tail(s)) /\ i + 1 \in 1 .. Len(s) - 1 BY <1>1
    <3>2. <<s[i + 1], s[(i + 1) + 1]>> \in flow BY <3>1, Zenon DEF FlowsBy
    <3> QED BY <1>2, <3>1, <3>2, Zenon
  <2>6. FlowsBy(Tail(s), flow) BY <2>4, <2>5, Zenon DEF FlowsBy
  <2>7. <<s[1], s[2]>> \in flow
    <3>1. 1 \in 1 .. Len(s) - 1 BY <2>1
    <3>2. <<s[1], s[1 + 1]>> \in flow BY <3>1, Zenon DEF FlowsBy
    <3> QED BY <3>2
  <2>8. Head(s) = s[1] /\ Head(Tail(s)) = s[2] BY <1>2, <1>4, <1>1, <2>1
  <2> QED BY <1>1, <1>4, <2>6, <2>7, <2>8, Zenon
<1> QED BY <1>3, <1>4

(* The unit goes on to its next step.                                      *)
LEMMA Onward ==
  ASSUME InterruptInv, NEW x, AtStep(x), ic'.steps = Tail(ic.steps), ic'.vec = ic.vec
  PROVE  /\ StepsInv' /\ ic'.steps \in Seq(StepNames)
         /\ NextStep = x
         /\ ic'.steps = <<>> => NextStep' = "none" /\ x \in {"iretq", "halt"}
         /\ ic'.steps # <<>> => <<x, NextStep'>> \in Flow(ic.vec)
<1>1. /\ ic.steps \in Seq(StepNames) /\ ic.steps # <<>> /\ Head(ic.steps) = x /\ FlowsBy(ic.steps, Flow(ic.vec))
    BY Zenon DEF InterruptInv, InterruptTypeOK, InterruptFields, StepsInv, AtStep
<1>2. /\ Tail(ic.steps) \in Seq(StepNames) /\ FlowsBy(Tail(ic.steps), Flow(ic.vec))
      /\ Tail(ic.steps) = <<>> => Head(ic.steps) \in {"iretq", "halt"}
      /\ Tail(ic.steps) # <<>> => <<Head(ic.steps), Head(Tail(ic.steps))>> \in Flow(ic.vec)
    BY <1>1, FlowTail, Zenon
<1> QED BY <1>1, <1>2, Zenon DEF StepsInv, NextStep

(* Steps that leave a part of the state alone keep what is said of it.     *)
KeptRegisters == ic'.regs = ic.regs /\ ic'.stack = ic.stack /\ ic'.halted = ic.halted
KeptTopics == /\ ic'.topic = ic.topic /\ ic'.ev = ic.ev /\ ic'.events = ic.events /\ ic'.vec = ic.vec
              /\ ic'.rd.seq = ic.rd.seq
KeptRing == /\ ic'.q = ic.q /\ ic'.cfg = ic.cfg /\ ic'.pushing = ic.pushing
            /\ ic'.rd.head = ic.rd.head /\ ic'.rd.tail = ic.rd.tail
KeptEntries == /\ ic'.q = ic.q /\ ic'.got = ic.got /\ ic'.lost = ic.lost /\ ic'.pushing = ic.pushing
               /\ ic'.halted = ic.halted
InProcessor == {"none", "save", "halt", "iretq"}
TailLoaded == {"load_queue_tail", "compare", "store_entry", "store_tail"}
AtEvent == PublishPoint \cup {"test_some"}

(* Steps that leave the registers where they are.                          *)
LEMMA RegistersKept ==
  ASSUME InterruptInv, KeptRegisters, NextStep \in InProcessor <=> NextStep' \in InProcessor,
         ic'.steps = ic.steps \/ ic.steps # <<>>
  PROVE  RegistersInv'
  BY Zenon DEF InterruptInv, RegistersInv, KeptRegisters, InProcessor

(* Steps that leave the timer alone and request no tick.                   *)
LEMMA TimerKept ==
  ASSUME InterruptInv, ic'.timer = ic.timer, ic'.cfg = ic.cfg,
         "timer" \in ic'.irr \cup ic'.isr => "timer" \in ic.irr \cup ic.isr
  PROVE  TimerInv'
  BY Zenon DEF InterruptInv, TimerInv

(* Steps that publish nothing.                                             *)
LEMMA TopicsKept ==
  ASSUME InterruptInv, KeptTopics,
         NextStep = NextStep' \/ (NextStep \notin AtEvent /\ NextStep' \notin AtEvent)
  PROVE  PublishInv'
<1>1. PublishedTopic' = PublishedTopic BY Zenon DEF KeptTopics, PublishedTopic
<1>2. CASE NextStep = NextStep'
    BY <1>1, <1>2, Zenon DEF InterruptInv, PublishInv, KeptTopics
<1>3. CASE NextStep \notin AtEvent /\ NextStep' \notin AtEvent
    BY <1>1, <1>3, Zenon DEF InterruptInv, PublishInv, KeptTopics, AtEvent, PublishPoint
<1> QED BY <1>2, <1>3

(* Steps that leave the ring alone and use nothing loaded from it.         *)
LEMMA RingKept ==
  ASSUME InterruptInv, KeptRing, NextStep = NextStep' \/ NextStep' \notin TailLoaded
  PROVE  RingInv'
  BY Zenon DEF InterruptInv, RingInv, KeptRing, TailLoaded

(* The entries are the same, wherever their slots are.                     *)
LEMMA EntriesMoved ==
  ASSUME InterruptInv, Waiting' = Waiting, \A j \in Waiting : QueueEntry(j)' = QueueEntry(j), ic'.q.overflow = ic.q.overflow,
         ic'.got = ic.got, ic'.lost = ic.lost, ic'.halted = ic.halted, Pushed' = Pushed
  PROVE  EntriesInv'
<1>1. Pushed' \in Nat BY Zenon DEF InterruptInv, EntriesInv
<1>2. \A j \in Waiting' : QueueEntry(j)' \in 1 .. Pushed' BY Zenon DEF InterruptInv, EntriesInv
<1>3. \A i, j \in Waiting' : i < j => QueueEntry(i)' < QueueEntry(j)' BY Zenon DEF InterruptInv, EntriesInv
<1>a. /\ \A i \in DOMAIN ic.got : ic.got[i] \in 1 .. Pushed /\ \A j \in Waiting : ic.got[i] < QueueEntry(j)
      /\ \A i, j \in DOMAIN ic.got : i < j => ic.got[i] < ic.got[j]
    BY Zenon DEF InterruptInv, EntriesInv
<1>b. \A i \in DOMAIN ic'.got : ic'.got[i] \in 1 .. Pushed' /\ \A j \in Waiting' : ic'.got[i] < QueueEntry(j)'
    BY <1>a, Zenon
<1>c. \A i, j \in DOMAIN ic'.got : i < j => ic'.got[i] < ic'.got[j] BY <1>a, Zenon
<1>5. ASSUME ~ic'.halted, NEW n \in 1 .. Pushed'
      PROVE  \/ n \in ic'.lost
             \/ \E i \in DOMAIN ic'.got : ic'.got[i] = n
             \/ \E j \in Waiting' : QueueEntry(j)' = n
  <2>1. \/ n \in ic.lost
        \/ \E i \in DOMAIN ic.got : ic.got[i] = n
        \/ \E j \in Waiting : QueueEntry(j) = n
      BY <1>5, Zenon DEF InterruptInv, EntriesInv
  <2> QED BY <2>1, Zenon
<1>6. ic'.lost # {} => ic'.q.overflow BY Zenon DEF InterruptInv, EntriesInv
<1> QED BY <1>1, <1>2, <1>3, <1>b, <1>c, <1>5, <1>6, Zenon DEF EntriesInv

(* The queue is the same.                                                  *)
LEMMA EntriesSame ==
  ASSUME InterruptInv, ic'.q = ic.q, ic'.got = ic.got, ic'.lost = ic.lost, ic'.halted = ic.halted, Pushed' = Pushed
  PROVE  EntriesInv'
<1>1. Waiting' = Waiting /\ ic'.q.overflow = ic.q.overflow BY Zenon DEF Waiting
<1>2. \A j \in Waiting : QueueEntry(j)' = QueueEntry(j) BY Zenon DEF QueueEntry
<1> QED BY <1>1, <1>2, EntriesMoved, Zenon

(* The entry being pushed joins those waiting.                             *)
LEMMA EntriesGrow ==
  ASSUME InterruptInv, ic.q.tail \in Nat, Waiting' = Waiting \cup {ic.q.tail}, \A j \in Waiting : j < ic.q.tail,
         \A j : QueueEntry(j)' = QueueEntry(j), QueueEntry(ic.q.tail) = ic.pushing, ic'.q.overflow = ic.q.overflow,
         ic'.got = ic.got, ic'.lost = ic.lost, ic'.halted = ic.halted,
         Pushed \in Nat, Pushed' = ic.pushing, Pushed = ic.pushing - 1, ic.pushing \in Nat, Waiting \subseteq Nat
  PROVE  EntriesInv'
<1>1. /\ 1 .. Pushed \subseteq 1 .. ic.pushing /\ ic.pushing \in 1 .. ic.pushing
      /\ \A n \in 1 .. ic.pushing : n \in 1 .. Pushed \/ n = ic.pushing
      /\ \A n \in 1 .. Pushed : n < ic.pushing
    OBVIOUS
<1>2. /\ \A j \in Waiting : QueueEntry(j) \in 1 .. Pushed
      /\ \A i, j \in Waiting : i < j => QueueEntry(i) < QueueEntry(j)
      /\ \A i \in DOMAIN ic.got : ic.got[i] \in 1 .. Pushed /\ \A j \in Waiting : ic.got[i] < QueueEntry(j)
      /\ \A i, j \in DOMAIN ic.got : i < j => ic.got[i] < ic.got[j]
      /\ ic.lost # {} => ic.q.overflow
    BY Zenon DEF InterruptInv, EntriesInv
<1>3. \A j \in Waiting' : QueueEntry(j)' \in 1 .. Pushed' BY <1>1, <1>2, Zenon
<1>4. ASSUME NEW i \in Waiting', NEW j \in Waiting', i < j PROVE QueueEntry(i)' < QueueEntry(j)'
  <2>1. CASE j \in Waiting
    <3>1. i # ic.q.tail
      <4>1. j \in Nat /\ j < ic.q.tail BY <2>1, Zenon
      <4> QED BY <1>4, <4>1
    <3> QED BY <1>2, <1>4, <2>1, <3>1, Zenon
  <2>2. CASE j = ic.q.tail
    <3>1. i # ic.q.tail BY <1>4, <2>2
    <3> QED BY <1>1, <1>2, <1>4, <2>2, <3>1, Zenon
  <2> QED BY <2>1, <2>2, Zenon
<1>5. \A i \in DOMAIN ic'.got : ic'.got[i] \in 1 .. Pushed' /\ \A j \in Waiting' : ic'.got[i] < QueueEntry(j)'
    BY <1>1, <1>2, Zenon
<1>6. ASSUME ~ic'.halted, NEW n \in 1 .. Pushed'
      PROVE  \/ n \in ic'.lost
             \/ \E i \in DOMAIN ic'.got : ic'.got[i] = n
             \/ \E j \in Waiting' : QueueEntry(j)' = n
  <2>1. CASE n = ic.pushing BY <2>1, Zenon
  <2>2. CASE n \in 1 .. Pushed
    <3>1. \/ n \in ic.lost
          \/ \E i \in DOMAIN ic.got : ic.got[i] = n
          \/ \E j \in Waiting : QueueEntry(j) = n
        BY <1>6, <2>2, Zenon DEF InterruptInv, EntriesInv
    <3> QED BY <3>1, Zenon
  <2> QED BY <1>1, <2>1, <2>2, Zenon
<1> QED BY <1>2, <1>3, <1>4, <1>5, <1>6, Zenon DEF EntriesInv

(* The newest is refused.                                                  *)
LEMMA EntriesRefused ==
  ASSUME InterruptInv, Waiting' = Waiting, \A j : QueueEntry(j)' = QueueEntry(j), ic'.q.overflow,
         ic'.got = ic.got, ic'.lost = ic.lost \cup {ic.pushing}, ic'.halted = ic.halted,
         Pushed \in Nat, Pushed' = ic.pushing, Pushed = ic.pushing - 1, ic.pushing \in Nat
  PROVE  EntriesInv'
<1>1. /\ 1 .. Pushed \subseteq 1 .. ic.pushing
      /\ \A n \in 1 .. ic.pushing : n \in 1 .. Pushed \/ n = ic.pushing
    OBVIOUS
<1>2. /\ \A j \in Waiting : QueueEntry(j) \in 1 .. Pushed
      /\ \A i, j \in Waiting : i < j => QueueEntry(i) < QueueEntry(j)
      /\ \A i \in DOMAIN ic.got : ic.got[i] \in 1 .. Pushed /\ \A j \in Waiting : ic.got[i] < QueueEntry(j)
      /\ \A i, j \in DOMAIN ic.got : i < j => ic.got[i] < ic.got[j]
    BY Zenon DEF InterruptInv, EntriesInv
<1>3. \A j \in Waiting' : QueueEntry(j)' \in 1 .. Pushed' BY <1>1, <1>2, Zenon
<1>4. \A i, j \in Waiting' : i < j => QueueEntry(i)' < QueueEntry(j)' BY <1>2, Zenon
<1>5. \A i \in DOMAIN ic'.got : ic'.got[i] \in 1 .. Pushed' /\ \A j \in Waiting' : ic'.got[i] < QueueEntry(j)'
    BY <1>1, <1>2, Zenon
<1>6. ASSUME ~ic'.halted, NEW n \in 1 .. Pushed'
      PROVE  \/ n \in ic'.lost
             \/ \E i \in DOMAIN ic'.got : ic'.got[i] = n
             \/ \E j \in Waiting' : QueueEntry(j)' = n
  <2>1. CASE n = ic.pushing BY <2>1, Zenon
  <2>2. CASE n \in 1 .. Pushed
    <3>1. \/ n \in ic.lost
          \/ \E i \in DOMAIN ic.got : ic.got[i] = n
          \/ \E j \in Waiting : QueueEntry(j) = n
        BY <1>6, <2>2, Zenon DEF InterruptInv, EntriesInv
    <3> QED BY <3>1, Zenon
  <2> QED BY <1>1, <2>1, <2>2, Zenon
<1> QED BY <1>2, <1>3, <1>4, <1>5, <1>6, Zenon DEF EntriesInv

(* The oldest is given up.                                                 *)
LEMMA EntriesGivenUp ==
  ASSUME InterruptInv, NEW h \in Waiting, Waiting' = Waiting \ {h}, \A j : QueueEntry(j)' = QueueEntry(j), ic'.q.overflow,
         ic'.got = ic.got, ic'.lost = ic.lost \cup {QueueEntry(h)}, ic'.halted = ic.halted, Pushed' = Pushed
  PROVE  EntriesInv'
<1>2. /\ Pushed \in Nat /\ \A j \in Waiting : QueueEntry(j) \in 1 .. Pushed
      /\ \A i, j \in Waiting : i < j => QueueEntry(i) < QueueEntry(j)
      /\ \A i \in DOMAIN ic.got : ic.got[i] \in 1 .. Pushed /\ \A j \in Waiting : ic.got[i] < QueueEntry(j)
      /\ \A i, j \in DOMAIN ic.got : i < j => ic.got[i] < ic.got[j]
    BY Zenon DEF InterruptInv, EntriesInv
<1>3. \A j \in Waiting' : QueueEntry(j)' \in 1 .. Pushed' BY <1>2, Zenon
<1>4. \A i, j \in Waiting' : i < j => QueueEntry(i)' < QueueEntry(j)' BY <1>2, Zenon
<1>5. \A i \in DOMAIN ic'.got : ic'.got[i] \in 1 .. Pushed' /\ \A j \in Waiting' : ic'.got[i] < QueueEntry(j)'
    BY <1>2, Zenon
<1>6. ASSUME ~ic'.halted, NEW n \in 1 .. Pushed'
      PROVE  \/ n \in ic'.lost
             \/ \E i \in DOMAIN ic'.got : ic'.got[i] = n
             \/ \E j \in Waiting' : QueueEntry(j)' = n
  <2>1. \/ n \in ic.lost
        \/ \E i \in DOMAIN ic.got : ic.got[i] = n
        \/ \E j \in Waiting : QueueEntry(j) = n
      BY <1>6, Zenon DEF InterruptInv, EntriesInv
  <2>2. CASE \E j \in Waiting : QueueEntry(j) = n BY <2>2, Zenon
  <2> QED BY <2>1, <2>2, Zenon
<1> QED BY <1>2, <1>3, <1>4, <1>5, <1>6, Zenon DEF EntriesInv

(* The owner has taken the oldest.                                         *)
LEMMA EntriesTaken ==
  ASSUME InterruptInv, NEW h \in Waiting, Waiting' = Waiting \ {h}, \A j \in Waiting : j # h => h < j,
         \A j : QueueEntry(j)' = QueueEntry(j), ic'.q.overflow = ic.q.overflow, ic.got \in Seq(Nat), QueueEntry(h) \in Nat,
         ic'.got = Append(ic.got, QueueEntry(h)), ic'.lost = ic.lost, ic'.halted = ic.halted, Pushed' = Pushed
  PROVE  EntriesInv'
<1>2. /\ Pushed \in Nat /\ \A j \in Waiting : QueueEntry(j) \in 1 .. Pushed
      /\ \A i, j \in Waiting : i < j => QueueEntry(i) < QueueEntry(j)
      /\ \A i \in DOMAIN ic.got : ic.got[i] \in 1 .. Pushed /\ \A j \in Waiting : ic.got[i] < QueueEntry(j)
      /\ \A i, j \in DOMAIN ic.got : i < j => ic.got[i] < ic.got[j]
      /\ ic.lost # {} => ic.q.overflow
    BY Zenon DEF InterruptInv, EntriesInv
<1> DEFINE m == Len(ic.got)
           e == QueueEntry(h)
<1>a. e \in Nat OBVIOUS
<1> HIDE DEF e
<1>b. /\ m \in Nat /\ DOMAIN ic.got = 1 .. m /\ DOMAIN Append(ic.got, e) = 1 .. m + 1
      /\ Append(ic.got, e)[m + 1] = e /\ \A i \in 1 .. m : Append(ic.got, e)[i] = ic.got[i]
    BY <1>a
<1> HIDE DEF m
<1>c. \A i \in 1 .. m + 1 : i = m + 1 \/ (i \in 1 .. m /\ i # m + 1) BY <1>b
<1>d. ic'.got = Append(ic.got, e) BY Zenon DEF e
<1>3. \A j \in Waiting' : QueueEntry(j)' \in 1 .. Pushed' BY <1>2, Zenon
<1>4. \A i, j \in Waiting' : i < j => QueueEntry(i)' < QueueEntry(j)' BY <1>2, Zenon
<1>5. ASSUME NEW i \in 1 .. m + 1
      PROVE  ic'.got[i] \in 1 .. Pushed' /\ \A j \in Waiting' : ic'.got[i] < QueueEntry(j)'
  <2>1. CASE i = m + 1
    <3>1. ic'.got[i] = e BY <1>b, <1>d, <2>1, Zenon
    <3> QED BY <1>2, <3>1, Zenon DEF e
  <2>2. CASE i \in 1 .. m
    <3>1. ic'.got[i] = ic.got[i] /\ i \in DOMAIN ic.got BY <1>b, <1>d, <2>2, Zenon
    <3> QED BY <1>2, <3>1, Zenon
  <2> QED BY <1>c, <2>1, <2>2, Zenon
<1>6. ASSUME NEW i \in 1 .. m + 1, NEW j \in 1 .. m + 1, i < j PROVE ic'.got[i] < ic'.got[j]
  <2>1. i \in 1 .. m /\ ic'.got[i] = ic.got[i]
    <3>1. i \in 1 .. m BY <1>b, <1>6
    <3> QED BY <1>b, <1>d, <3>1, Zenon
  <2>2. CASE j = m + 1
    <3>1. ic'.got[j] = e BY <1>b, <1>d, <2>2, Zenon
    <3> QED BY <1>2, <1>b, <2>1, <3>1, Zenon DEF e
  <2>3. CASE j \in 1 .. m
    <3>1. ic'.got[j] = ic.got[j] BY <1>b, <1>d, <2>3, Zenon
    <3> QED BY <1>2, <1>6, <1>b, <2>1, <2>3, <3>1, Zenon
  <2> QED BY <1>c, <2>2, <2>3, Zenon
<1>7. ASSUME ~ic'.halted, NEW n \in 1 .. Pushed'
      PROVE  \/ n \in ic'.lost
             \/ \E i \in DOMAIN ic'.got : ic'.got[i] = n
             \/ \E j \in Waiting' : QueueEntry(j)' = n
  <2>1. \/ n \in ic.lost
        \/ \E i \in DOMAIN ic.got : ic.got[i] = n
        \/ \E j \in Waiting : QueueEntry(j) = n
      BY <1>7, Zenon DEF InterruptInv, EntriesInv
  <2>2. CASE \E i \in DOMAIN ic.got : ic.got[i] = n
    <3>1. PICK i \in 1 .. m : ic.got[i] = n BY <1>b, <2>2, Zenon
    <3>2. i \in 1 .. m + 1 BY <1>b
    <3>3. ic'.got[i] = n BY <1>b, <1>d, <3>1, Zenon
    <3> QED BY <1>b, <1>d, <3>2, <3>3, Zenon
  <2>3. CASE \E j \in Waiting : QueueEntry(j) = n
    <3>1. PICK j \in Waiting : QueueEntry(j) = n BY <2>3, Zenon
    <3>2. CASE j = h
      <4>1. ic'.got[m + 1] = n BY <1>b, <1>d, <3>1, <3>2, Zenon DEF e
      <4>2. m + 1 \in 1 .. m + 1 BY <1>b
      <4> QED BY <1>b, <1>d, <4>1, <4>2, Zenon
    <3>3. CASE j # h BY <3>1, <3>3, Zenon
    <3> QED BY <3>2, <3>3
  <2> QED BY <2>1, <2>2, <2>3, Zenon
<1>8. DOMAIN ic'.got = 1 .. m + 1 BY <1>b, <1>d, Zenon
<1> QED BY <1>2, <1>3, <1>4, <1>5, <1>6, <1>7, <1>8, Zenon DEF EntriesInv

(* Steps that leave the entries alone.                                     *)
LEMMA EntriesKept ==
  ASSUME InterruptInv, KeptEntries, NextStep \in TailLoaded <=> NextStep' \in TailLoaded
  PROVE  EntriesInv'
<1>1. Pushed' = Pushed BY Zenon DEF KeptEntries, Pushed, TailLoaded
<1> QED BY <1>1, EntriesSame, Zenon DEF KeptEntries

(* The machine stops: the entry being pushed need not be accounted for.    *)
LEMMA EntriesStopped ==
  ASSUME InterruptInv, ic'.q = ic.q, ic'.got = ic.got, ic'.lost = ic.lost, ic'.halted,
         Pushed' \in Nat, Pushed' = Pushed \/ Pushed' = Pushed + 1
  PROVE  EntriesInv'
<1>1. 1 .. Pushed \subseteq 1 .. Pushed'
  <2>1. Pushed \in Nat BY Zenon DEF InterruptInv, EntriesInv
  <2>2. \A m, n \in Nat : n = m \/ n = m + 1 => 1 .. m \subseteq 1 .. n OBVIOUS
  <2> QED BY <2>1, <2>2, Zenon
<1>2. \A j \in Waiting' : QueueEntry(j)' \in 1 .. Pushed'
    BY <1>1, Zenon DEF InterruptInv, EntriesInv, QueueEntry, Waiting
<1>3. \A i, j \in Waiting' : i < j => QueueEntry(i)' < QueueEntry(j)'
    BY Zenon DEF InterruptInv, EntriesInv, QueueEntry, Waiting
<1>4. /\ \A i \in DOMAIN ic'.got : ic'.got[i] \in 1 .. Pushed' /\ \A j \in Waiting' : ic'.got[i] < QueueEntry(j)'
      /\ \A i, j \in DOMAIN ic'.got : i < j => ic'.got[i] < ic'.got[j]
    BY <1>1, Zenon DEF InterruptInv, EntriesInv, QueueEntry, Waiting
<1>5. ic'.lost # {} => ic'.q.overflow BY Zenon DEF InterruptInv, EntriesInv
<1> QED BY <1>2, <1>3, <1>4, <1>5, Zenon DEF EntriesInv

(* Steps of a unit that leave the publications and the queue alone.        *)
LEMMA PlainStep ==
  ASSUME InterruptInv, InterruptTypeOK', NEW x \in {"receiver", "wake_owner", "eoi"}, AtStep(x),
         ic'.steps = Tail(ic.steps), KeptRegisters, KeptTopics, KeptRing, KeptEntries,
         ic'.timer = ic.timer, ic'.irr = ic.irr, ic'.isr \subseteq ic.isr
  PROVE  InterruptInv'
<1>1. /\ StepsInv' /\ NextStep = x
      /\ ic'.steps = <<>> => NextStep' = "none" /\ x \in {"iretq", "halt"}
      /\ ic'.steps # <<>> => <<x, NextStep'>> \in Flow(ic.vec)
    BY Onward, Zenon DEF KeptTopics
<1>2. NextStep' \in {"event", "eoi", "restore"}
    BY <1>1, Zenon DEF Flow, TimerFlow, EventFlow, Ending
<1>3. NextStep \notin InProcessor \cup TailLoaded \cup AtEvent /\ NextStep' \notin InProcessor \cup TailLoaded \cup AtEvent
    BY <1>1, <1>2, Zenon DEF InProcessor, TailLoaded, AtEvent, PublishPoint
<1>4. RegistersInv' BY <1>3, RegistersKept, Zenon DEF AtStep
<1>5. TimerInv' BY TimerKept, Zenon DEF KeptRing
<1>6. PublishInv' BY <1>3, TopicsKept, Zenon
<1>7. RingInv' BY <1>3, RingKept, Zenon
<1>8. EntriesInv' BY <1>3, EntriesKept, Zenon
<1> QED BY <1>1, <1>4, <1>5, <1>6, <1>7, <1>8 DEF InterruptInv

(* The state after a step that changes what is left of the unit and, in    *)
(* f, some other fields.                                                   *)
Carries(f) ==
  /\ ic'.cfg = f.cfg /\ ic'.irr = f.irr /\ ic'.isr = f.isr /\ ic'.vec = f.vec /\ ic'.regs = f.regs
  /\ ic'.stack = f.stack /\ ic'.ev = f.ev /\ ic'.q = f.q /\ ic'.rd = f.rd /\ ic'.topic = f.topic
  /\ ic'.timer = f.timer /\ ic'.raised = f.raised /\ ic'.events = f.events /\ ic'.pushing = f.pushing
  /\ ic'.got = f.got /\ ic'.lost = f.lost /\ ic'.halted = f.halted

(* A step of a unit changes the steps left, and what it says.              *)
LEMMA Stepped ==
  ASSUME NEW f \in InterruptFields, NEW s \in Seq(StepNames), ic' = [f EXCEPT !.steps = s]
  PROVE  InterruptTypeOK' /\ ic'.steps = s /\ Carries(f)
<1>0. [f EXCEPT !.steps = s] \in InterruptFields BY Zenon DEF InterruptFields
<1>1. InterruptTypeOK' BY <1>0, Zenon DEF InterruptTypeOK, InterruptFields
<1>2. ic'.steps = s BY Zenon DEF InterruptFields
<1>3. Carries(f) BY Zenon DEF InterruptFields, Carries
<1> QED BY <1>1, <1>2, <1>3

(* The next step of a unit is one that may follow the one taken.           *)
LEMMA SteppedOn ==
  ASSUME InterruptInv, NEW x, AtStep(x), NEW f \in InterruptFields, f.steps = ic.steps, StepOn(f)
  PROVE  /\ InterruptTypeOK' /\ ic'.steps = Tail(ic.steps) /\ Carries(f) /\ NextStep = x
         /\ f.vec = ic.vec => /\ StepsInv'
                              /\ ic'.steps = <<>> => NextStep' = "none" /\ x \in {"iretq", "halt"}
                              /\ ic'.steps # <<>> => <<x, NextStep'>> \in Flow(ic.vec)
<1>1. ic.steps \in Seq(StepNames) /\ ic.steps # <<>> /\ FlowsBy(ic.steps, Flow(ic.vec))
    BY Zenon DEF InterruptInv, InterruptTypeOK, InterruptFields, StepsInv, AtStep
<1>2. Tail(ic.steps) \in Seq(StepNames) BY <1>1, FlowTail, Zenon
<1>3. ic' = [f EXCEPT !.steps = Tail(ic.steps)] BY Zenon DEF StepOn
<1>4. InterruptTypeOK' /\ ic'.steps = Tail(ic.steps) /\ Carries(f) BY <1>2, <1>3, Stepped, Zenon
<1>5. NextStep = x BY Zenon DEF AtStep, NextStep
<1>6. f.vec = ic.vec => ic'.vec = ic.vec BY <1>4, Zenon DEF Carries
<1> QED BY <1>4, <1>5, <1>6, Onward, Zenon

(* Steps that change nothing the invariant speaks of, but the vector in    *)
(* service.                                                                *)
LEMMA PlainSteps ==
  ASSUME InterruptInv, LoadInterruptPathReceiver \/ WakeOwner \/ LocalApicEOI
  PROVE  InterruptInv'
<1>1. ic \in InterruptFields BY Zenon DEF InterruptInv, InterruptTypeOK
<1>2. CASE LoadInterruptPathReceiver \/ WakeOwner
  <2>1. PICK x \in {"receiver", "wake_owner"} : AtStep(x) /\ StepOn(ic)
      BY <1>2, Zenon DEF LoadInterruptPathReceiver, WakeOwner
  <2>2. InterruptTypeOK' /\ ic'.steps = Tail(ic.steps) /\ Carries(ic) BY <1>1, <2>1, SteppedOn, Zenon
  <2>3. x \in {"receiver", "wake_owner", "eoi"} BY <2>1
  <2>4. /\ KeptRegisters /\ KeptTopics /\ KeptRing /\ KeptEntries
        /\ ic'.timer = ic.timer /\ ic'.irr = ic.irr /\ ic'.isr \subseteq ic.isr
      BY <2>2, Zenon DEF Carries, KeptRegisters, KeptTopics, KeptRing, KeptEntries
  <2> QED BY <2>1, <2>2, <2>3, <2>4, PlainStep, Zenon
<1>3. CASE LocalApicEOI
  <2> DEFINE f == [ic EXCEPT !.isr = {}]
  <2>1. f \in InterruptFields /\ f.steps = ic.steps BY <1>1, Zenon DEF InterruptFields
  <2>2. AtStep("eoi") /\ StepOn(f) BY <1>3, Zenon DEF LocalApicEOI
  <2>3. InterruptTypeOK' /\ ic'.steps = Tail(ic.steps) /\ Carries(f) BY <2>1, <2>2, SteppedOn, Zenon
  <2>4. /\ KeptRegisters /\ KeptTopics /\ KeptRing /\ KeptEntries
        /\ ic'.timer = ic.timer /\ ic'.irr = ic.irr /\ ic'.isr = {}
      BY <1>1, <2>3, Zenon DEF InterruptFields, Carries, KeptRegisters, KeptTopics, KeptRing, KeptEntries
  <2> HIDE DEF f
  <2>5. ic'.isr \subseteq ic.isr BY <2>4
  <2> QED BY <2>2, <2>3, <2>4, <2>5, PlainStep
<1> QED BY <1>2, <1>3

(* The register file is a sequence of five, pushed from the first to the   *)
(* last and popped from the last to the first.                             *)
LEMMA FiveRegisters ==
  /\ DOMAIN Registers = 1 .. 5 /\ Len(Registers) = 5
  /\ Original \in Seq(RegisterValues) /\ Len(Original) = 5 /\ Clobbered \in Seq(RegisterValues)
  /\ DOMAIN Original = 1 .. 5
<1>1. DOMAIN Registers = 1 .. 5 /\ Len(Registers) = 5 BY DEF Registers
<1>2. \A i \in 1 .. 5 : Registers[i] \in RegisterValues BY <1>1, Zenon DEF RegisterValues, Ints
<1>a. "clobbered" \in RegisterValues BY Zenon DEF RegisterValues
<1>3. Original = [i \in 1 .. 5 |-> Registers[i]] /\ Clobbered = [i \in 1 .. 5 |-> "clobbered"]
    BY <1>1, Zenon DEF Original, Clobbered
<1>4. Original \in Seq(RegisterValues) /\ Len(Original) = 5 /\ DOMAIN Original = 1 .. 5 BY <1>2, <1>3
<1>5. Clobbered \in Seq(RegisterValues) BY <1>3, <1>a
<1> QED BY <1>1, <1>4, <1>5

(* The registers are saved in their order.                                 *)
LEMMA SavedAll == [i \in DOMAIN Save |-> Original[Save[i]]] \o <<>> = Original
<1>1. DOMAIN Save = 1 .. 5 /\ \A i \in 1 .. 5 : Save[i] = i BY FiveRegisters, Zenon DEF Save
<1>2. [i \in DOMAIN Save |-> Original[Save[i]]] = [i \in 1 .. 5 |-> Original[i]] BY <1>1, Zenon
<1>3. Original = [i \in 1 .. 5 |-> Original[i]] BY FiveRegisters, Zenon DEF Original
<1>4. \A s \in Seq(RegisterValues) : s \o <<>> = s OBVIOUS
<1> QED BY <1>2, <1>3, <1>4, FiveRegisters, Zenon

(* They are restored in the opposite order, and nothing else is on the     *)
(* stack.                                                                  *)
LEMMA RestoredAll ==
  LET n == Len(Registers)
      pushed == SubSeq(Original, 1, n)
  IN /\ [i \in 1 .. n |-> pushed[n + 1 - (CHOOSE k \in 1 .. n : Restore[k] = i)]] = Original
     /\ SubSeq(Original, n + 1, Len(Original)) = <<>>
<1>1. \A k \in 1 .. 5 : Restore[k] = 6 - k
  <2>1. Restore = [i \in 1 .. 5 |-> 5 + 1 - i] BY FiveRegisters, Zenon DEF Restore
  <2> QED BY <2>1
<1>2. SubSeq(Original, 1, 5) = Original BY FiveRegisters
<1>3. ASSUME NEW i \in 1 .. 5 PROVE Original[5 + 1 - (CHOOSE k \in 1 .. 5 : Restore[k] = i)] = Original[i]
  <2> DEFINE c == CHOOSE k \in 1 .. 5 : Restore[k] = i
  <2>1. 6 - i \in 1 .. 5 /\ 6 - (6 - i) = i OBVIOUS
  <2>2. Restore[6 - i] = i BY <1>1, <2>1, Zenon
  <2>3. c \in 1 .. 5 /\ Restore[c] = i BY <2>1, <2>2, Zenon
  <2>4. 6 - c = i BY <1>1, <2>3
  <2>5. \A m \in 1 .. 5 : 5 + 1 - m = 6 - m OBVIOUS
  <2> HIDE DEF c
  <2>6. Original[5 + 1 - c] = Original[i] BY <2>3, <2>4, <2>5, Zenon
  <2> QED BY <2>6 DEF c
<1>4. Original = [i \in 1 .. 5 |-> Original[i]] BY FiveRegisters, Zenon DEF Original
<1>5. SubSeq(Original, 5 + 1, 5) = <<>> BY FiveRegisters
<1>6. [i \in 1 .. 5 |-> Original[5 + 1 - (CHOOSE k \in 1 .. 5 : Restore[k] = i)]] = Original
    BY <1>3, <1>4, Zenon
<1>7. Len(Registers) = 5 /\ Len(Original) = 5 BY FiveRegisters, Zenon
<1> DEFINE Popped(n) == /\ [i \in 1 .. n |-> SubSeq(Original, 1, n)[n + 1 - (CHOOSE k \in 1 .. n : Restore[k] = i)]] = Original
                        /\ SubSeq(Original, n + 1, n) = <<>>
<1>8. Popped(5) BY <1>2, <1>5, <1>6, Zenon
<1> HIDE DEF Popped
<1>9. Popped(Len(Registers)) BY <1>7, <1>8, Zenon
<1> QED BY <1>7, <1>9, Zenon DEF Popped

(* The registers are saved.                                                *)
LEMMA SaveStep ==
  ASSUME InterruptInv, SaveRegisters
  PROVE  InterruptInv'
<1> DEFINE stack == [i \in DOMAIN Save |-> ic.regs[Save[i]]] \o ic.stack
           f == [ic EXCEPT !.stack = stack, !.regs = Clobbered]
<1>1. ic \in InterruptFields BY Zenon DEF InterruptInv, InterruptTypeOK
<1>2. AtStep("save") /\ StepOn(f) BY Zenon DEF SaveRegisters
<1>3. NextStep = "save" /\ ~ic.halted /\ ic.regs = Original /\ ic.stack = <<>>
    BY <1>2, Zenon DEF AtStep, NextStep, InterruptInv, RegistersInv
<1>4. stack = Original BY <1>3, SavedAll, Zenon
<1> HIDE DEF stack
<1>5. stack \in Seq(RegisterValues) /\ Clobbered \in Seq(RegisterValues) BY <1>4, FiveRegisters, Zenon
<1>6. f \in InterruptFields /\ f.steps = ic.steps /\ f.vec = ic.vec BY <1>1, <1>5, Zenon DEF InterruptFields
<1>7. /\ f.stack = stack /\ f.halted = ic.halted /\ f.topic = ic.topic /\ f.ev = ic.ev /\ f.events = ic.events
      /\ f.rd = ic.rd /\ f.q = ic.q /\ f.cfg = ic.cfg /\ f.pushing = ic.pushing /\ f.got = ic.got
      /\ f.lost = ic.lost /\ f.timer = ic.timer /\ f.irr = ic.irr /\ f.isr = ic.isr
    BY <1>1, Zenon DEF InterruptFields
<1> HIDE DEF f
<1>8. /\ InterruptTypeOK' /\ ic'.steps = Tail(ic.steps) /\ Carries(f) /\ StepsInv'
      /\ ic'.steps = <<>> => NextStep' = "none" /\ "save" \in {"iretq", "halt"}
      /\ ic'.steps # <<>> => <<"save", NextStep'>> \in Flow(ic.vec)
    BY <1>2, <1>6, SteppedOn, Zenon
<1>9. NextStep' \in {"load_head", "receiver", "load_queue_head", "eoi"} /\ (NextStep' = "load_head" => ic.vec = "timer")
    BY <1>8 DEF Flow, TimerFlow, EventFlow, Ending
<1>10. RegistersInv' BY <1>3, <1>4, <1>7, <1>8, <1>9, Zenon DEF RegistersInv, Carries
<1>11. TimerInv' BY <1>7, <1>8, TimerKept, Zenon DEF Carries
<1>12. PublishInv'
  <2>1. KeptTopics BY <1>6, <1>7, <1>8, Zenon DEF Carries, KeptTopics
  <2>2. CASE NextStep' # "load_head" BY <1>3, <1>9, <2>1, <2>2, TopicsKept, Zenon DEF AtEvent, PublishPoint
  <2>3. CASE NextStep' = "load_head"
      BY <1>3, <1>9, <2>1, <2>3, Zenon DEF InterruptInv, PublishInv, KeptTopics, PublishPoint
  <2> QED BY <2>2, <2>3
<1>13. RingInv' BY <1>7, <1>8, <1>9, RingKept, Zenon DEF Carries, KeptRing, TailLoaded
<1>14. EntriesInv' BY <1>3, <1>7, <1>8, <1>9, EntriesKept, Zenon DEF Carries, KeptEntries, TailLoaded
<1> QED BY <1>8, <1>10, <1>11, <1>12, <1>13, <1>14 DEF InterruptInv

(* The registers are restored.                                             *)
LEMMA RestoreStep ==
  ASSUME InterruptInv, RestoreRegisters
  PROVE  InterruptInv'
<1> DEFINE n == Len(Registers)
           regs == [i \in 1 .. n |-> SubSeq(ic.stack, 1, n)[n + 1 - (CHOOSE k \in 1 .. n : Restore[k] = i)]]
           stack == SubSeq(ic.stack, n + 1, Len(ic.stack))
           f == [ic EXCEPT !.regs = regs, !.stack = stack]
<1>1. ic \in InterruptFields BY Zenon DEF InterruptInv, InterruptTypeOK
<1>2. AtStep("restore") /\ StepOn(f) BY Zenon DEF RestoreRegisters
<1>3. NextStep = "restore" /\ ~ic.halted /\ ic.stack = Original
    BY <1>2, Zenon DEF AtStep, NextStep, InterruptInv, RegistersInv
<1>4. regs = Original /\ stack = <<>> BY <1>3, RestoredAll, Zenon
<1> HIDE DEF regs, stack
<1>a. <<>> \in Seq(RegisterValues) OBVIOUS
<1>5. regs \in Seq(RegisterValues) /\ stack \in Seq(RegisterValues) BY <1>4, <1>a, FiveRegisters, Zenon
<1>6. f \in InterruptFields /\ f.steps = ic.steps /\ f.vec = ic.vec BY <1>1, <1>5, Zenon DEF InterruptFields
<1>7. /\ f.stack = stack /\ f.regs = regs /\ f.halted = ic.halted /\ f.topic = ic.topic /\ f.ev = ic.ev
      /\ f.events = ic.events /\ f.rd = ic.rd /\ f.q = ic.q /\ f.cfg = ic.cfg /\ f.pushing = ic.pushing
      /\ f.got = ic.got /\ f.lost = ic.lost /\ f.timer = ic.timer /\ f.irr = ic.irr /\ f.isr = ic.isr
    BY <1>1, Zenon DEF InterruptFields
<1> HIDE DEF f
<1>8. /\ InterruptTypeOK' /\ ic'.steps = Tail(ic.steps) /\ Carries(f) /\ StepsInv'
      /\ ic'.steps = <<>> => NextStep' = "none" /\ "restore" \in {"iretq", "halt"}
      /\ ic'.steps # <<>> => <<"restore", NextStep'>> \in Flow(ic.vec)
    BY <1>2, <1>6, SteppedOn, Zenon
<1>9. NextStep' = "iretq" BY <1>8 DEF Flow, TimerFlow, EventFlow, Ending
<1>10. RegistersInv' BY <1>3, <1>4, <1>7, <1>8, <1>9, Zenon DEF RegistersInv, Carries
<1>11. TimerInv' BY <1>7, <1>8, TimerKept, Zenon DEF Carries
<1>12. PublishInv'
    BY <1>3, <1>6, <1>7, <1>8, <1>9, TopicsKept, Zenon DEF Carries, KeptTopics, AtEvent, PublishPoint
<1>13. RingInv' BY <1>7, <1>8, <1>9, RingKept, Zenon DEF Carries, KeptRing, TailLoaded
<1>14. EntriesInv' BY <1>3, <1>7, <1>8, <1>9, EntriesKept, Zenon DEF Carries, KeptEntries, TailLoaded
<1> QED BY <1>8, <1>10, <1>11, <1>12, <1>13, <1>14 DEF InterruptInv

(* The event function returns the next event, or none.                     *)
LEMMA EventStep ==
  ASSUME InterruptInv, CallEvent
  PROVE  InterruptInv'
<1>1. ic \in InterruptFields BY Zenon DEF InterruptInv, InterruptTypeOK
<1>a. ic.events \in Nat BY <1>1, Zenon DEF InterruptFields
<1>b. ic.events + 1 \in Nat /\ 0 \in Nat BY <1>a
<1>2. PICK e \in Nat, n \in Nat :
        /\ AtStep("event") /\ StepOn([ic EXCEPT !.ev = e, !.events = n])
        /\ (e = n /\ n = ic.events + 1) \/ (ic.vec = "serial" /\ e = 0 /\ n = ic.events)
  <2>1. CASE StepOn([ic EXCEPT !.ev = ic.events + 1, !.events = @ + 1])
      BY <1>b, <2>1, Zenon DEF CallEvent
  <2>2. CASE ic.vec = "serial" /\ StepOn([ic EXCEPT !.ev = 0])
    <3>1. [ic EXCEPT !.ev = 0] = [ic EXCEPT !.ev = 0, !.events = ic.events] BY <1>1, Zenon DEF InterruptFields
    <3> QED BY <1>a, <1>b, <2>2, <3>1, Zenon DEF CallEvent
  <2> QED BY <2>1, <2>2, Zenon DEF CallEvent
<1> DEFINE f == [ic EXCEPT !.ev = e, !.events = n]
<1>6. f \in InterruptFields /\ f.steps = ic.steps /\ f.vec = ic.vec BY <1>1, Zenon DEF InterruptFields
<1>7. /\ f.stack = ic.stack /\ f.regs = ic.regs /\ f.halted = ic.halted /\ f.topic = ic.topic /\ f.ev = e
      /\ f.events = n /\ f.rd = ic.rd /\ f.q = ic.q /\ f.cfg = ic.cfg /\ f.pushing = ic.pushing
      /\ f.got = ic.got /\ f.lost = ic.lost /\ f.timer = ic.timer /\ f.irr = ic.irr /\ f.isr = ic.isr
    BY <1>1, Zenon DEF InterruptFields
<1>c. StepOn(f) BY <1>2
<1> HIDE DEF f
<1>8. /\ InterruptTypeOK' /\ ic'.steps = Tail(ic.steps) /\ Carries(f) /\ StepsInv' /\ NextStep = "event"
      /\ ic'.steps = <<>> => NextStep' = "none" /\ "event" \in {"iretq", "halt"}
      /\ ic'.steps # <<>> => <<"event", NextStep'>> \in Flow(ic.vec)
    BY <1>2, <1>c, <1>6, SteppedOn, Zenon
<1>9. NextStep' = "test_some" BY <1>8 DEF Flow, TimerFlow, EventFlow, Ending
<1>10. RegistersInv' BY <1>2, <1>7, <1>8, <1>9, RegistersKept, Zenon DEF KeptRegisters, Carries, AtStep, InProcessor
<1>11. TimerInv' BY <1>7, <1>8, TimerKept, Zenon DEF Carries
<1>12. PublishInv'
  <2>1. /\ ic.events = ic.topic["event"].head
        /\ \A t \in Topics : /\ ic.topic[t].head = Len(ic.topic[t].out)
                             /\ \A i \in DOMAIN ic.topic[t].out : ic.topic[t].out[i] = <<i, i>>
      BY <1>8, Zenon DEF InterruptInv, PublishInv, PublishPoint
  <2>2. ic'.topic = ic.topic /\ ic'.vec = ic.vec /\ ic'.ev = e /\ ic'.events = n BY <1>6, <1>7, <1>8, Zenon DEF Carries
  <2>3. \/ ic'.ev = ic'.events /\ ic'.events = ic'.topic["event"].head + 1
        \/ ic'.vec = "serial" /\ ic'.ev = 0 /\ ic'.events = ic'.topic["event"].head
      BY <1>2, <2>1, <2>2, Zenon
  <2> QED BY <1>9, <2>1, <2>2, <2>3, Zenon DEF PublishInv, PublishPoint
<1>13. RingInv' BY <1>7, <1>8, <1>9, RingKept, Zenon DEF Carries, KeptRing, TailLoaded
<1>14. EntriesInv' BY <1>7, <1>8, <1>9, EntriesKept, Zenon DEF Carries, KeptEntries, TailLoaded
<1> QED BY <1>8, <1>10, <1>11, <1>12, <1>13, <1>14 DEF InterruptInv

(* The jump to the end of interrupt leaves a unit that flows.              *)
LEMMA SkippedToEOI ==
  ASSUME NEW f \in InterruptFields, SkipToEOI(f)
  PROVE  InterruptTypeOK' /\ Carries(f) /\ StepsInv' /\ NextStep' = "eoi" /\ ic'.steps # <<>>
<1> DEFINE s == <<"eoi", "restore", "iretq">>
<1>2. s \in Seq(StepNames) BY DEF StepNames
<1>1. Tail(Framed(<<>>)) = s
  <2>1. <<"save">> \o <<>> = <<"save">> OBVIOUS
  <2>2. ASSUME NEW t \in Seq(StepNames) PROVE Tail(<<"save">> \o t) = t
    <3>1. "save" \in StepNames BY DEF StepNames
    <3>2. \A S : \A x \in S : \A u \in Seq(S) : Tail(<<x>> \o u) = u BY SMTT(20)
    <3> QED BY <3>1, <3>2, Zenon
  <2> QED BY <1>2, <2>1, <2>2, Zenon DEF Framed
<1>3. ic' = [f EXCEPT !.steps = s] BY <1>1, Zenon DEF SkipToEOI
<1>4. Len(s) = 3 /\ s # <<>> /\ Head(s) = "eoi" /\ s[1] = "eoi" /\ s[2] = "restore" /\ s[3] = "iretq" OBVIOUS
<1> HIDE DEF s
<1>5. InterruptTypeOK' /\ ic'.steps = s /\ Carries(f) BY <1>2, <1>3, Stepped, Zenon
<1>6. <<"eoi", "restore">> \in Flow(ic'.vec) /\ <<"restore", "iretq">> \in Flow(ic'.vec)
    BY Zenon DEF Flow, TimerFlow, EventFlow, Ending
<1>7. \A i \in 1 .. 3 - 1 : i = 1 \/ (i = 2 /\ i + 1 = 3) OBVIOUS
<1>a. 1 + 1 = 2 OBVIOUS
<1>8. \A i \in 1 .. 3 - 1 : <<s[i], s[i + 1]>> \in Flow(ic'.vec) BY <1>4, <1>6, <1>7, <1>a, Zenon
<1>9. FlowsBy(s, Flow(ic'.vec)) BY <1>4, <1>8, Zenon DEF FlowsBy
<1> QED BY <1>4, <1>5, <1>9, Zenon DEF StepsInv, NextStep

(* A None of the serial path goes to the end of interrupt.                 *)
LEMMA TestStep ==
  ASSUME InterruptInv, TestSome
  PROVE  InterruptInv'
<1>1. ic \in InterruptFields BY Zenon DEF InterruptInv, InterruptTypeOK
<1>2. AtStep("test_some") /\ NextStep = "test_some" BY Zenon DEF TestSome, AtStep, NextStep
<1>3. CASE ~(ic.vec = "serial" /\ ic.ev = 0)
  <2>1. StepOn(ic) BY <1>3, Zenon DEF TestSome
  <2>2. /\ InterruptTypeOK' /\ Carries(ic) /\ StepsInv'
        /\ ic'.steps = <<>> => NextStep' = "none" /\ "test_some" \in {"iretq", "halt"}
        /\ ic'.steps # <<>> => <<"test_some", NextStep'>> \in Flow(ic.vec)
      BY <1>1, <1>2, <2>1, SteppedOn, Zenon
  <2>3. NextStep' = "load_head" /\ ic.vec # "timer" BY <2>2 DEF Flow, TimerFlow, EventFlow, Ending
  <2>4. KeptRegisters /\ KeptTopics /\ KeptRing /\ KeptEntries /\ ic'.timer = ic.timer /\ ic'.irr = ic.irr /\ ic'.isr = ic.isr
      BY <2>2, Zenon DEF Carries, KeptRegisters, KeptTopics, KeptRing, KeptEntries
  <2>5. RegistersInv' BY <1>2, <2>3, <2>4, RegistersKept, Zenon DEF AtStep, InProcessor
  <2>6. TimerInv' BY <2>4, TimerKept, Zenon DEF KeptRing
  <2>7. PublishInv'
      BY <1>2, <1>3, <2>3, <2>4, Zenon DEF InterruptInv, PublishInv, KeptTopics, PublishPoint
  <2>8. RingInv' BY <2>3, <2>4, RingKept, Zenon DEF TailLoaded
  <2>9. EntriesInv' BY <1>2, <2>3, <2>4, EntriesKept, Zenon DEF TailLoaded
  <2> QED BY <2>2, <2>5, <2>6, <2>7, <2>8, <2>9 DEF InterruptInv
<1>4. CASE ic.vec = "serial" /\ ic.ev = 0
  <2>1. SkipToEOI(ic) BY <1>4, Zenon DEF TestSome
  <2>2. InterruptTypeOK' /\ Carries(ic) /\ StepsInv' /\ NextStep' = "eoi" BY <1>1, <2>1, SkippedToEOI, Zenon
  <2>4. KeptRegisters /\ KeptTopics /\ KeptRing /\ KeptEntries /\ ic'.timer = ic.timer /\ ic'.irr = ic.irr /\ ic'.isr = ic.isr
      BY <2>2, Zenon DEF Carries, KeptRegisters, KeptTopics, KeptRing, KeptEntries
  <2>5. RegistersInv' BY <1>2, <2>2, <2>4, RegistersKept, Zenon DEF AtStep, InProcessor
  <2>6. TimerInv' BY <2>4, TimerKept, Zenon DEF KeptRing
  <2>7. ic.events = ic.topic["event"].head
    <3>1. \/ ic.ev = ic.events /\ ic.events = ic.topic["event"].head + 1
          \/ ic.vec = "serial" /\ ic.ev = 0 /\ ic.events = ic.topic["event"].head
        BY <1>2, Zenon DEF InterruptInv, PublishInv
    <3>a. ic.topic \in [Topics -> TopicRecords] /\ "event" \in Topics BY <1>1, Zenon DEF InterruptFields, Topics
    <3>2. ic.topic["event"].head \in Nat BY <3>a, Zenon DEF TopicRecords
    <3>3. \A h \in Nat : 0 # h + 1 OBVIOUS
    <3> QED BY <1>4, <3>1, <3>2, <3>3, Zenon
  <2>8. PublishInv'
      BY <1>2, <2>2, <2>4, <2>7, Zenon DEF InterruptInv, PublishInv, KeptTopics, PublishPoint
  <2>9. RingInv' BY <2>2, <2>4, RingKept, Zenon DEF TailLoaded
  <2>10. EntriesInv' BY <1>2, <2>2, <2>4, EntriesKept, Zenon DEF TailLoaded
  <2> QED BY <2>2, <2>5, <2>6, <2>8, <2>9, <2>10 DEF InterruptInv
<1> QED BY <1>3, <1>4

(* The unit is over, or the machine stops.                                 *)
LEMMA LastStep ==
  ASSUME InterruptInv, NEW f \in InterruptFields, NEW x \in {"iretq", "halt"}, AtStep(x), ic' = [f EXCEPT !.steps = <<>>],
         f.vec \in {ic.vec, "none"}, (f.halted = ic.halted /\ x = "iretq") \/ f.halted,
         f.stack = ic.stack /\ f.regs = ic.regs /\ f.topic = ic.topic /\ f.ev = ic.ev,
         f.events = ic.events /\ f.rd = ic.rd /\ f.q = ic.q /\ f.cfg = ic.cfg /\ f.pushing = ic.pushing,
         f.got = ic.got /\ f.lost = ic.lost /\ f.timer = ic.timer /\ f.irr = ic.irr /\ f.isr = ic.isr
  PROVE  InterruptInv'
<1>1. <<>> \in Seq(StepNames) OBVIOUS
<1>2. InterruptTypeOK' /\ ic'.steps = <<>> /\ Carries(f) BY <1>1, Stepped, Zenon
<1>3. NextStep = x /\ NextStep' = "none" /\ ic.steps # <<>> BY <1>2, Zenon DEF AtStep, NextStep
<1>4. StepsInv'
  <2>1. \A i \in 1 .. Len(<<>>) - 1 : FALSE OBVIOUS
  <2> QED BY <1>2, <2>1, Zenon DEF StepsInv, FlowsBy
<1>5. RegistersInv' BY <1>2, <1>3, Zenon DEF Carries, InterruptInv, RegistersInv
<1>6. TimerInv' BY <1>2, TimerKept, Zenon DEF Carries
<1>7. PublishInv'
  <2>1. /\ ic.events = ic.topic["event"].head
        /\ \A t \in Topics : /\ ic.topic[t].head = Len(ic.topic[t].out)
                             /\ \A i \in DOMAIN ic.topic[t].out : ic.topic[t].out[i] = <<i, i>>
      BY <1>3, Zenon DEF InterruptInv, PublishInv, PublishPoint
  <2>2. ic'.topic = ic.topic /\ ic'.events = ic.events BY <1>2, Zenon DEF Carries
  <2>3. NextStep' # "test_some" /\ NextStep' \notin PublishPoint /\ NextStep' \notin PublishPoint \ {"load_head"}
      BY <1>3, Zenon DEF PublishPoint
  <2>4. /\ NextStep' \notin {"store_payload", "store_head"} /\ NextStep' # "store_head"
        /\ NextStep' \notin {"store_slot_sequence", "store_head"}
      BY <1>3, Zenon
  <2>5. /\ \A t \in Topics : /\ ic'.topic[t].head = Len(ic'.topic[t].out)
                             /\ \A i \in DOMAIN ic'.topic[t].out : ic'.topic[t].out[i] = <<i, i>>
        /\ ic'.events = ic'.topic["event"].head
      BY <2>1, <2>2, Zenon
  <2> QED BY <2>3, <2>4, <2>5, Zenon DEF PublishInv
<1>8. RingInv' BY <1>2, <1>3, RingKept, Zenon DEF Carries, KeptRing, TailLoaded
<1>9. EntriesInv'
  <2>1. Pushed' = Pushed BY <1>2, <1>3, Zenon DEF Carries, Pushed
  <2>2. Pushed \in Nat BY Zenon DEF InterruptInv, EntriesInv
  <2>3. CASE f.halted = ic.halted
      BY <1>2, <1>3, <2>3, EntriesKept, Zenon DEF Carries, KeptEntries, TailLoaded
  <2>4. CASE f.halted
      BY <1>2, <2>1, <2>2, <2>4, EntriesStopped, Zenon DEF Carries
  <2> QED BY <2>3, <2>4
<1> QED BY <1>2, <1>4, <1>5, <1>6, <1>7, <1>8, <1>9 DEF InterruptInv

(* The unit returns, or the machine stops.                                 *)
LEMMA EndSteps ==
  ASSUME InterruptInv, Iretq \/ Halt
  PROVE  InterruptInv'
<1>1. ic \in InterruptFields BY Zenon DEF InterruptInv, InterruptTypeOK
<1>2. CASE Iretq
  <2> DEFINE f == [ic EXCEPT !.vec = "none"]
  <2>1. f \in InterruptFields /\ f.steps = ic.steps /\ f.vec = "none" BY <1>1, Zenon DEF InterruptFields, UnitVectors
  <2>2. /\ f.stack = ic.stack /\ f.regs = ic.regs /\ f.topic = ic.topic /\ f.ev = ic.ev
        /\ f.events = ic.events /\ f.rd = ic.rd /\ f.q = ic.q /\ f.cfg = ic.cfg /\ f.pushing = ic.pushing
        /\ f.got = ic.got /\ f.lost = ic.lost /\ f.timer = ic.timer /\ f.irr = ic.irr /\ f.isr = ic.isr
        /\ f.halted = ic.halted
      BY <1>1, Zenon DEF InterruptFields
  <2>3. AtStep("iretq") /\ StepOn(f) BY <1>2, Zenon DEF Iretq
  <2> HIDE DEF f
  <2>4. ic.steps \in Seq(StepNames) /\ ic.steps # <<>> /\ FlowsBy(ic.steps, Flow(ic.vec)) /\ Head(ic.steps) = "iretq"
      BY <1>1, <2>3, Zenon DEF InterruptInv, InterruptFields, StepsInv, AtStep
  <2>5. \A y : <<"iretq", y>> \notin Flow(ic.vec) BY DEF Flow, TimerFlow, EventFlow, Ending
  <2>6. Tail(ic.steps) = <<>> BY <2>4, <2>5, FlowTail, Zenon
  <2>7. ic' = [f EXCEPT !.steps = <<>>] BY <2>1, <2>3, <2>6, Zenon DEF StepOn
  <2> QED BY <2>1, <2>2, <2>3, <2>7, LastStep, Zenon
<1>3. CASE Halt
  <2> DEFINE f == [ic EXCEPT !.halted = TRUE]
  <2>1. f \in InterruptFields /\ f.vec = ic.vec BY <1>1, Zenon DEF InterruptFields
  <2>2. /\ f.stack = ic.stack /\ f.regs = ic.regs /\ f.topic = ic.topic /\ f.ev = ic.ev
        /\ f.events = ic.events /\ f.rd = ic.rd /\ f.q = ic.q /\ f.cfg = ic.cfg /\ f.pushing = ic.pushing
        /\ f.got = ic.got /\ f.lost = ic.lost /\ f.timer = ic.timer /\ f.irr = ic.irr /\ f.isr = ic.isr
        /\ f.halted = TRUE
      BY <1>1, Zenon DEF InterruptFields
  <2>3. AtStep("halt") BY <1>3, Zenon DEF Halt
  <2>4. ic' = [f EXCEPT !.steps = <<>>] BY <1>1, <1>3, Zenon DEF Halt, InterruptFields
  <2> HIDE DEF f
  <2> QED BY <2>1, <2>2, <2>3, <2>4, LastStep, Zenon
<1> QED BY <1>2, <1>3

(* A step of a publication leaves everything but the topic alone.          *)
LEMMA PublishStep ==
  ASSUME InterruptInv, NEW x \in PublishPoint, AtStep(x), NEW topic \in [Topics -> TopicRecords],
         NEW rd \in LoadedRecords, rd.head = ic.rd.head, rd.tail = ic.rd.tail,
         StepOn([ic EXCEPT !.rd = rd, !.topic = topic])
  PROVE  /\ InterruptTypeOK' /\ StepsInv' /\ TimerInv' /\ RegistersInv' /\ RingInv' /\ EntriesInv'
         /\ NextStep = x /\ ic'.rd = rd /\ ic'.topic = topic
         /\ ic'.ev = ic.ev /\ ic'.events = ic.events /\ ic'.vec = ic.vec
         /\ x = "load_head" => NextStep' = IF ic.vec = "timer" THEN "store_payload" ELSE "store_slot_sequence"
         /\ x = "store_slot_sequence" => NextStep' = IF ic.vec = "timer" THEN "store_head" ELSE "store_payload"
         /\ x = "store_payload" => NextStep' = IF ic.vec = "timer" THEN "store_slot_sequence" ELSE "store_head"
         /\ x = "store_head" => NextStep' \in {"load_queue_head", "eoi"}
<1> DEFINE f == [ic EXCEPT !.rd = rd, !.topic = topic]
<1>1. ic \in InterruptFields BY Zenon DEF InterruptInv, InterruptTypeOK
<1>2. f \in InterruptFields BY <1>1, Zenon DEF InterruptFields
<1>3. f.rd = rd /\ f.topic = topic /\ f.steps = ic.steps /\ f.vec = ic.vec BY <1>1, Zenon DEF InterruptFields
<1>4. /\ f.stack = ic.stack /\ f.regs = ic.regs /\ f.halted = ic.halted /\ f.ev = ic.ev
      /\ f.events = ic.events /\ f.q = ic.q /\ f.cfg = ic.cfg /\ f.pushing = ic.pushing
      /\ f.got = ic.got /\ f.lost = ic.lost /\ f.timer = ic.timer /\ f.irr = ic.irr /\ f.isr = ic.isr
    BY <1>1, Zenon DEF InterruptFields
<1>5. StepOn(f) BY Zenon
<1> HIDE DEF f
<1>6. /\ InterruptTypeOK' /\ Carries(f) /\ StepsInv' /\ NextStep = x
      /\ ic'.steps = <<>> => NextStep' = "none" /\ x \in {"iretq", "halt"}
      /\ ic'.steps # <<>> => <<x, NextStep'>> \in Flow(ic.vec)
    BY <1>2, <1>3, <1>5, SteppedOn, Zenon
<1>7. <<x, NextStep'>> \in Flow(ic.vec) BY <1>6, Zenon DEF PublishPoint
<1>8. x = "load_head" => NextStep' = IF ic.vec = "timer" THEN "store_payload" ELSE "store_slot_sequence"
    BY <1>7 DEF Flow, TimerFlow, EventFlow, Ending
<1>9. x = "store_slot_sequence" => NextStep' = IF ic.vec = "timer" THEN "store_head" ELSE "store_payload"
    BY <1>7 DEF Flow, TimerFlow, EventFlow, Ending
<1>10. x = "store_payload" => NextStep' = IF ic.vec = "timer" THEN "store_slot_sequence" ELSE "store_head"
    BY <1>7 DEF Flow, TimerFlow, EventFlow, Ending
<1>11. x = "store_head" => NextStep' \in {"load_queue_head", "eoi"}
    BY <1>7 DEF Flow, TimerFlow, EventFlow, Ending
<1>12. NextStep' \in PublishPoint \cup {"load_queue_head", "eoi"}
    BY <1>8, <1>9, <1>10, <1>11, Zenon DEF PublishPoint
<1>13. NextStep \notin InProcessor \cup TailLoaded /\ NextStep' \notin InProcessor \cup TailLoaded
    BY <1>6, <1>12 DEF PublishPoint, InProcessor, TailLoaded
<1>14. RegistersInv' BY <1>4, <1>6, <1>13, RegistersKept, Zenon DEF Carries, KeptRegisters, AtStep
<1>15. TimerInv' BY <1>4, <1>6, TimerKept, Zenon DEF Carries
<1>16. RingInv' BY <1>3, <1>4, <1>6, <1>13, RingKept, Zenon DEF Carries, KeptRing
<1>17. EntriesInv' BY <1>4, <1>6, <1>13, EntriesKept, Zenon DEF Carries, KeptEntries
<1>18. /\ ic'.rd = rd /\ ic'.topic = topic /\ ic'.ev = ic.ev /\ ic'.events = ic.events /\ ic'.vec = ic.vec
    BY <1>3, <1>4, <1>6, Zenon DEF Carries
<1> QED BY <1>6, <1>8, <1>9, <1>10, <1>11, <1>14, <1>15, <1>16, <1>17, <1>18, Zenon

(* The publication takes the number after the head's.                      *)
LEMMA LoadHeadStep ==
  ASSUME InterruptInv, TopicLoadHead
  PROVE  InterruptInv'
<1> DEFINE t == PublishedTopic
           n == ic.topic[t].head + 1
           rd == [ic.rd EXCEPT !.seq = n]
<1>1. ic \in InterruptFields BY Zenon DEF InterruptInv, InterruptTypeOK
<1>2. t \in Topics /\ ic.topic \in [Topics -> TopicRecords] /\ ic.rd \in LoadedRecords
    BY <1>1, Zenon DEF PublishedTopic, Topics, InterruptFields
<1>3. ic.topic[t].head \in Nat BY <1>2, Zenon DEF TopicRecords
<1>4. n \in Nat BY <1>3
<1>5. AtStep("load_head") /\ StepOn([ic EXCEPT !.rd = rd, !.topic = ic.topic])
  <2>1. [ic EXCEPT !.rd.seq = n] = [ic EXCEPT !.rd = rd, !.topic = ic.topic]
      BY <1>1, Zenon DEF InterruptFields
  <2> QED BY <2>1, Zenon DEF TopicLoadHead
<1> HIDE DEF n
<1>6. rd \in LoadedRecords /\ rd.head = ic.rd.head /\ rd.tail = ic.rd.tail /\ rd.seq = n
    BY <1>2, <1>4, Zenon DEF LoadedRecords
<1> HIDE DEF rd, t
<1>7. "load_head" \in PublishPoint BY DEF PublishPoint
<1>8. /\ InterruptTypeOK' /\ StepsInv' /\ TimerInv' /\ RegistersInv' /\ RingInv' /\ EntriesInv'
      /\ NextStep = "load_head" /\ ic'.rd = rd /\ ic'.topic = ic.topic
      /\ ic'.ev = ic.ev /\ ic'.events = ic.events /\ ic'.vec = ic.vec
      /\ NextStep' = IF ic.vec = "timer" THEN "store_payload" ELSE "store_slot_sequence"
    BY <1>2, <1>5, <1>6, <1>7, PublishStep, Zenon
<1>10. ic'.rd.seq = ic'.topic[PublishedTopic'].head + 1
    BY <1>6, <1>8, Zenon DEF n, t, PublishedTopic
<1>11. PublishInv'
    BY <1>8, <1>10, Zenon DEF InterruptInv, PublishInv, PublishPoint
<1> QED BY <1>8, <1>11 DEF InterruptInv

(* One field of the slot's topic.                                          *)
LEMMA TopicField ==
  ASSUME ic \in InterruptFields, NEW r \in TopicRecords
  PROVE  /\ PublishedTopic \in Topics /\ ic.topic[PublishedTopic] \in TopicRecords
         /\ [ic.topic EXCEPT ![PublishedTopic] = r] \in [Topics -> TopicRecords]
         /\ [ic.topic EXCEPT ![PublishedTopic] = r][PublishedTopic] = r
         /\ \A t \in Topics : t # PublishedTopic => [ic.topic EXCEPT ![PublishedTopic] = r][t] = ic.topic[t]
         /\ [ic EXCEPT !.rd = ic.rd, !.topic = [ic.topic EXCEPT ![PublishedTopic] = r]]
            = [ic EXCEPT !.topic[PublishedTopic] = r]
<1>1. PublishedTopic \in Topics BY Zenon DEF PublishedTopic, Topics
<1>2. ic.topic \in [Topics -> TopicRecords] BY Zenon DEF InterruptFields
<1>3. [ic EXCEPT !.rd = ic.rd, !.topic = [ic.topic EXCEPT ![PublishedTopic] = r]] = [ic EXCEPT !.topic[PublishedTopic] = r]
    BY Zenon DEF InterruptFields
<1> QED BY <1>1, <1>2, <1>3, Zenon

(* What is published before the head is stored, of either topic.           *)
LEMMA PublishedSoFar ==
  ASSUME InterruptInv, NextStep \in PublishPoint
  PROVE  /\ \A t \in Topics : /\ ic.topic[t].head = Len(ic.topic[t].out)
                              /\ \A i \in DOMAIN ic.topic[t].out : ic.topic[t].out[i] = <<i, i>>
         /\ ic.vec # "timer" => ic.ev = ic.events /\ ic.events = ic.topic["event"].head + 1
         /\ ic.vec = "timer" => ic.events = ic.topic["event"].head
         /\ NextStep # "load_head" => ic.rd.seq = ic.topic[PublishedTopic].head + 1
  BY Zenon DEF InterruptInv, PublishInv, PublishPoint

(* The number of an event or of a tick is stored in its slot.              *)
LEMMA StoreSequenceStep ==
  ASSUME InterruptInv, TopicStoreSequence
  PROVE  InterruptInv'
<1> DEFINE t == PublishedTopic
           r == [ic.topic[t] EXCEPT !.sequence = ic.rd.seq]
           topic == [ic.topic EXCEPT ![t] = r]
<1>1. ic \in InterruptFields BY Zenon DEF InterruptInv, InterruptTypeOK
<1>2. ic.rd \in LoadedRecords /\ ic.topic \in [Topics -> TopicRecords] /\ t \in Topics
    BY <1>1, Zenon DEF InterruptFields, PublishedTopic, Topics
<1>a. ic.rd.seq \in Nat /\ ic.topic[t] \in TopicRecords BY <1>2, Zenon DEF LoadedRecords
<1>3. /\ r \in TopicRecords /\ r.sequence = ic.rd.seq /\ r.head = ic.topic[t].head /\ r.payload = ic.topic[t].payload
      /\ r.out = ic.topic[t].out
    BY <1>a, Zenon DEF TopicRecords
<1>4. AtStep("store_slot_sequence") /\ StepOn([ic EXCEPT !.topic[t] = r])
    BY Zenon DEF TopicStoreSequence
<1> HIDE DEF r, t
<1>5. /\ topic \in [Topics -> TopicRecords] /\ topic[t] = r /\ (\A u \in Topics : u # t => topic[u] = ic.topic[u])
      /\ StepOn([ic EXCEPT !.rd = ic.rd, !.topic = topic])
    BY <1>1, <1>3, <1>4, TopicField, Zenon DEF t
<1> HIDE DEF topic
<1>6. "store_slot_sequence" \in PublishPoint BY DEF PublishPoint
<1>7. /\ InterruptTypeOK' /\ StepsInv' /\ TimerInv' /\ RegistersInv' /\ RingInv' /\ EntriesInv'
      /\ NextStep = "store_slot_sequence" /\ ic'.rd = ic.rd /\ ic'.topic = topic
      /\ ic'.ev = ic.ev /\ ic'.events = ic.events /\ ic'.vec = ic.vec
      /\ NextStep' = IF ic.vec = "timer" THEN "store_head" ELSE "store_payload"
    BY <1>2, <1>4, <1>5, <1>6, PublishStep, Zenon
<1>8. PublishedTopic' = t BY <1>7, Zenon DEF t, PublishedTopic
<1>9. ASSUME NEW u \in Topics PROVE topic[u].head = ic.topic[u].head /\ topic[u].out = ic.topic[u].out
    BY <1>3, <1>5, Zenon
<1>10. "event" \in Topics /\ "timer" \in Topics BY Zenon DEF Topics
<1>11. ic.vec = "timer" => ic.topic["timer"].payload = ic.rd.seq
    BY <1>7, Zenon DEF InterruptInv, PublishInv
<1>12. t = IF ic.vec = "timer" THEN "timer" ELSE "event" BY Zenon DEF t, PublishedTopic
<1>13. PublishInv'
  <2>1. \A u \in Topics : /\ ic'.topic[u].head = Len(ic'.topic[u].out)
                          /\ \A i \in DOMAIN ic'.topic[u].out : ic'.topic[u].out[i] = <<i, i>>
      BY <1>6, <1>7, <1>9, PublishedSoFar, Zenon
  <2>2. ic'.rd.seq = ic'.topic[PublishedTopic'].head + 1
      BY <1>2, <1>6, <1>7, <1>8, <1>9, PublishedSoFar, Zenon DEF t
  <2>3. CASE ic.vec = "timer"
    <3>1. ic'.events = ic'.topic["event"].head BY <1>6, <1>7, <1>9, <1>10, <2>3, PublishedSoFar, Zenon
    <3>2. ic'.topic["timer"].payload = ic'.rd.seq /\ ic'.topic["timer"].sequence = ic'.rd.seq
        BY <1>3, <1>5, <1>7, <1>11, <1>12, <2>3, Zenon
    <3> QED BY <1>7, <2>1, <2>2, <2>3, <3>1, <3>2, Zenon DEF PublishInv
  <2>4. CASE ic.vec # "timer"
    <3>1. ic'.ev = ic'.events /\ ic'.events = ic'.topic["event"].head + 1
        BY <1>6, <1>7, <1>9, <1>10, <2>4, PublishedSoFar, Zenon
    <3>2. ic'.topic["event"].sequence = ic'.rd.seq BY <1>3, <1>5, <1>7, <1>12, <2>4, Zenon
    <3> QED BY <1>7, <2>1, <2>2, <2>4, <3>1, <3>2, Zenon DEF PublishInv, PublishPoint
  <2> QED BY <2>3, <2>4
<1> QED BY <1>7, <1>13 DEF InterruptInv

(* The payload of an event or of a tick is stored in its slot.             *)
LEMMA StorePayloadStep ==
  ASSUME InterruptInv, TopicStorePayload
  PROVE  InterruptInv'
<1> DEFINE t == PublishedTopic
           v == IF ic.vec = "timer" THEN ic.rd.seq ELSE ic.ev
           r == [ic.topic[t] EXCEPT !.payload = v]
           topic == [ic.topic EXCEPT ![t] = r]
<1>1. ic \in InterruptFields BY Zenon DEF InterruptInv, InterruptTypeOK
<1>2. /\ ic.rd \in LoadedRecords /\ ic.topic \in [Topics -> TopicRecords] /\ t \in Topics
      /\ v \in Nat
    BY <1>1, Zenon DEF InterruptFields, LoadedRecords, PublishedTopic, Topics
<1>a. v = IF ic.vec = "timer" THEN ic.rd.seq ELSE ic.ev OBVIOUS
<1>4. AtStep("store_payload") /\ StepOn([ic EXCEPT !.topic[t] = r])
    BY Zenon DEF TopicStorePayload
<1> HIDE DEF v
<1>b. ic.topic[t] \in TopicRecords BY <1>2, Zenon
<1>3. /\ r \in TopicRecords /\ r.payload = v /\ r.head = ic.topic[t].head /\ r.sequence = ic.topic[t].sequence
      /\ r.out = ic.topic[t].out
    BY <1>2, <1>b, Zenon DEF TopicRecords
<1> HIDE DEF r, t
<1>5. /\ topic \in [Topics -> TopicRecords] /\ topic[t] = r /\ (\A u \in Topics : u # t => topic[u] = ic.topic[u])
      /\ StepOn([ic EXCEPT !.rd = ic.rd, !.topic = topic])
    BY <1>1, <1>3, <1>4, TopicField, Zenon DEF t
<1> HIDE DEF topic
<1>6. "store_payload" \in PublishPoint BY DEF PublishPoint
<1>7. /\ InterruptTypeOK' /\ StepsInv' /\ TimerInv' /\ RegistersInv' /\ RingInv' /\ EntriesInv'
      /\ NextStep = "store_payload" /\ ic'.rd = ic.rd /\ ic'.topic = topic
      /\ ic'.ev = ic.ev /\ ic'.events = ic.events /\ ic'.vec = ic.vec
      /\ NextStep' = IF ic.vec = "timer" THEN "store_slot_sequence" ELSE "store_head"
    BY <1>2, <1>4, <1>5, <1>6, PublishStep, Zenon
<1>8. PublishedTopic' = t BY <1>7, Zenon DEF t, PublishedTopic
<1>9. ASSUME NEW u \in Topics PROVE topic[u].head = ic.topic[u].head /\ topic[u].out = ic.topic[u].out
    BY <1>3, <1>5, Zenon
<1>10. "event" \in Topics /\ "timer" \in Topics BY Zenon DEF Topics
<1>11. ic.vec # "timer" => ic.topic["event"].sequence = ic.rd.seq
    BY <1>7, Zenon DEF InterruptInv, PublishInv
<1>12. t = IF ic.vec = "timer" THEN "timer" ELSE "event" BY Zenon DEF t, PublishedTopic
<1>13. PublishInv'
  <2>1. \A u \in Topics : /\ ic'.topic[u].head = Len(ic'.topic[u].out)
                          /\ \A i \in DOMAIN ic'.topic[u].out : ic'.topic[u].out[i] = <<i, i>>
      BY <1>6, <1>7, <1>9, PublishedSoFar, Zenon
  <2>2. ic'.rd.seq = ic'.topic[PublishedTopic'].head + 1
      BY <1>2, <1>6, <1>7, <1>8, <1>9, PublishedSoFar, Zenon DEF t
  <2>3. CASE ic.vec = "timer"
    <3>1. ic'.events = ic'.topic["event"].head BY <1>6, <1>7, <1>9, <1>10, <2>3, PublishedSoFar, Zenon
    <3>2. ic'.topic["timer"].payload = ic'.rd.seq BY <1>a, <1>3, <1>5, <1>7, <1>12, <2>3, Zenon
    <3> QED BY <1>7, <2>1, <2>2, <2>3, <3>1, <3>2, Zenon DEF PublishInv
  <2>4. CASE ic.vec # "timer"
    <3>1. ic'.ev = ic'.events /\ ic'.events = ic'.topic["event"].head + 1
        BY <1>6, <1>7, <1>9, <1>10, <2>4, PublishedSoFar, Zenon
    <3>2. ic'.topic["event"].sequence = ic'.rd.seq /\ ic'.topic["event"].payload = ic'.ev
        BY <1>a, <1>3, <1>5, <1>7, <1>11, <1>12, <2>4, Zenon
    <3> QED BY <1>7, <2>1, <2>2, <2>4, <3>1, <3>2, Zenon DEF PublishInv, PublishPoint
  <2> QED BY <2>3, <2>4
<1> QED BY <1>7, <1>13 DEF InterruptInv

(* The store of the head publishes the slot with the next number.          *)
LEMMA StoreHeadStep ==
  ASSUME InterruptInv, TopicStoreHead
  PROVE  InterruptInv'
<1> DEFINE t == PublishedTopic
           o == ic.topic[t]
           e == <<o.sequence, o.payload>>
           out == Append(o.out, e)
           r == [o EXCEPT !.head = ic.rd.seq, !.out = out]
           topic == [ic.topic EXCEPT ![t] = r]
<1>1. ic \in InterruptFields BY Zenon DEF InterruptInv, InterruptTypeOK
<1>2. /\ ic.rd \in LoadedRecords /\ ic.topic \in [Topics -> TopicRecords] /\ t \in Topics
      /\ o \in TopicRecords
    BY <1>1, Zenon DEF InterruptFields, PublishedTopic, Topics
<1>4. AtStep("store_head") /\ StepOn([ic EXCEPT !.topic[t] = r]) BY Zenon DEF TopicStoreHead
<1>a. NextStep = "store_head" /\ "store_head" \in PublishPoint
    BY <1>4, Zenon DEF AtStep, NextStep, PublishPoint
<1>10. "event" \in Topics /\ "timer" \in Topics BY Zenon DEF Topics
<1>12. t = IF ic.vec = "timer" THEN "timer" ELSE "event" BY Zenon DEF PublishedTopic
<1>b. ic.rd.seq = o.head + 1 /\ o.head = Len(o.out) /\ \A i \in DOMAIN o.out : o.out[i] = <<i, i>>
    BY <1>2, <1>a, PublishedSoFar, Zenon
<1>c. e = <<ic.rd.seq, ic.rd.seq>>
  <2>1. CASE ic.vec = "timer" BY <1>a, <1>12, <2>1, Zenon DEF InterruptInv, PublishInv
  <2>2. CASE ic.vec # "timer"
    <3>1. ic.topic["event"].sequence = ic.rd.seq /\ ic.topic["event"].payload = ic.ev
        BY <1>a, <2>2, Zenon DEF InterruptInv, PublishInv
    <3>2. ic.ev = ic.topic["event"].head + 1 BY <1>a, <2>2, PublishedSoFar, Zenon
    <3> QED BY <1>b, <1>12, <2>2, <3>1, <3>2, Zenon
  <2> QED BY <2>1, <2>2
<1>d. e \in Nat \X Nat BY <1>2, Zenon DEF TopicRecords
<1>e. o.out \in Seq(Nat \X Nat) /\ o.head \in Nat BY <1>2, Zenon DEF TopicRecords
<1> HIDE DEF e, o
<1>f. out \in Seq(Nat \X Nat) BY <1>d, <1>e
<1>g. Len(out) = ic.rd.seq /\ \A i \in DOMAIN out : out[i] = <<i, i>>
  <2>1. Len(out) = Len(o.out) + 1 /\ DOMAIN out = 1 .. Len(o.out) + 1 /\ out[Len(o.out) + 1] = e
      BY <1>d, <1>e
  <2>2. \A i \in 1 .. Len(o.out) : out[i] = o.out[i] /\ i \in DOMAIN o.out BY <1>d, <1>e
  <2>a. \A m \in Nat : \A i \in 1 .. m + 1 : i \in 1 .. m \/ i = m + 1 OBVIOUS
  <2>b. Len(o.out) \in Nat BY <1>e
  <2>3. \A i \in 1 .. Len(o.out) + 1 : i \in 1 .. Len(o.out) \/ i = Len(o.out) + 1 BY <2>a, <2>b, Zenon
  <2> HIDE DEF out
  <2> QED BY <1>b, <1>c, <2>1, <2>2, <2>3, Zenon
<1> HIDE DEF out
<1>3. r \in TopicRecords /\ r.head = ic.rd.seq /\ r.out = out
  <2>1. ic.rd.seq \in Nat BY <1>2, Zenon DEF LoadedRecords
  <2> QED BY <1>2, <1>f, <2>1, Zenon DEF TopicRecords
<1> HIDE DEF r, t
<1>5. /\ topic \in [Topics -> TopicRecords] /\ topic[t] = r /\ (\A u \in Topics : u # t => topic[u] = ic.topic[u])
      /\ StepOn([ic EXCEPT !.rd = ic.rd, !.topic = topic])
    BY <1>1, <1>3, <1>4, TopicField, Zenon DEF t
<1> HIDE DEF topic
<1>7. /\ InterruptTypeOK' /\ StepsInv' /\ TimerInv' /\ RegistersInv' /\ RingInv' /\ EntriesInv'
      /\ NextStep = "store_head" /\ ic'.rd = ic.rd /\ ic'.topic = topic
      /\ ic'.ev = ic.ev /\ ic'.events = ic.events /\ ic'.vec = ic.vec
      /\ NextStep' \in {"load_queue_head", "eoi"}
    BY <1>2, <1>4, <1>5, <1>a, PublishStep, Zenon
<1>13. PublishInv'
  <2>1. \A u \in Topics : /\ ic'.topic[u].head = Len(ic'.topic[u].out)
                          /\ \A i \in DOMAIN ic'.topic[u].out : ic'.topic[u].out[i] = <<i, i>>
    <3> SUFFICES ASSUME NEW u \in Topics
                 PROVE  topic[u].head = Len(topic[u].out) /\ \A i \in DOMAIN topic[u].out : topic[u].out[i] = <<i, i>>
        BY <1>7, Zenon
    <3>1. CASE u = t BY <1>3, <1>5, <1>g, <3>1, Zenon
    <3>2. CASE u # t BY <1>a, <1>5, <3>2, PublishedSoFar, Zenon
    <3> QED BY <3>1, <3>2
  <2>2. ic'.events = ic'.topic["event"].head
    <3>1. CASE ic.vec = "timer" BY <1>a, <1>5, <1>7, <1>10, <1>12, <3>1, PublishedSoFar, Zenon DEF t
    <3>2. CASE ic.vec # "timer"
        BY <1>a, <1>b, <1>3, <1>5, <1>7, <1>12, <3>2, PublishedSoFar, Zenon DEF t, o
    <3> QED BY <3>1, <3>2
  <2> QED BY <1>7, <2>1, <2>2, Zenon DEF PublishInv, PublishPoint
<1> QED BY <1>7, <1>13 DEF InterruptInv

(* A step of a push leaves everything but the queue and the loss alone.    *)
Pushing == {"load_queue_head", "load_queue_tail", "compare", "store_entry", "store_tail"}

QueueState(q, rd, n, l) == [ic EXCEPT !.q = q, !.rd = rd, !.pushing = n, !.lost = l]
IsQueueState(f, q, rd, n, l) ==
  /\ f \in InterruptFields /\ f.steps = ic.steps /\ f.vec = ic.vec
  /\ f.q = q /\ f.rd = rd /\ f.pushing = n /\ f.lost = l
  /\ f.stack = ic.stack /\ f.regs = ic.regs /\ f.halted = ic.halted /\ f.ev = ic.ev
  /\ f.events = ic.events /\ f.cfg = ic.cfg /\ f.got = ic.got /\ f.topic = ic.topic
  /\ f.timer = ic.timer /\ f.irr = ic.irr /\ f.isr = ic.isr

(* The fields of the state after a step of the push.                       *)
LEMMA QueueFields ==
  ASSUME ic \in InterruptFields, NEW q \in QueueRecords, NEW rd \in LoadedRecords, NEW n \in Nat, NEW l \in SUBSET Nat
  PROVE  IsQueueState(QueueState(q, rd, n, l), q, rd, n, l)
<1>1. [ic EXCEPT !.q = q, !.rd = rd, !.pushing = n, !.lost = l] \in InterruptFields
    BY Zenon DEF InterruptFields
<1> QED BY <1>1, Zenon DEF InterruptFields, QueueState, IsQueueState

QueueOutcome(x, q, rd, n, l) ==
  /\ InterruptTypeOK' /\ StepsInv' /\ TimerInv' /\ RegistersInv' /\ PublishInv'
  /\ ic'.q = q /\ ic'.rd = rd /\ ic'.pushing = n /\ ic'.lost = l /\ ic'.cfg = ic.cfg
  /\ ic'.got = ic.got /\ ic'.halted = ic.halted /\ NextStep = x
  /\ x = "load_queue_head" => NextStep' = "load_queue_tail"
  /\ x = "load_queue_tail" => NextStep' = "compare"
  /\ x = "compare" => NextStep' = "store_entry"
  /\ x = "store_entry" => NextStep' = "store_tail"
  /\ x = "store_tail" => NextStep' = "wake_owner"

(* A step of the push leaves registers, topics and timer alone.            *)
LEMMA QueueStep ==
  ASSUME InterruptInv, NEW x \in Pushing, AtStep(x), NEW q \in QueueRecords, NEW rd \in LoadedRecords,
         NEW n \in Nat, NEW l \in SUBSET Nat, rd.seq = ic.rd.seq,
         StepOn(QueueState(q, rd, n, l))
  PROVE  QueueOutcome(x, q, rd, n, l)
<1> DEFINE f == QueueState(q, rd, n, l)
<1>1. ic \in InterruptFields BY Zenon DEF InterruptInv, InterruptTypeOK
<1>a. IsQueueState(f, q, rd, n, l) BY <1>1, QueueFields, Zenon
<1>3. StepOn(f) BY Zenon
<1> HIDE DEF f
<1>2. /\ f \in InterruptFields /\ f.steps = ic.steps /\ f.vec = ic.vec
      /\ f.q = q /\ f.rd = rd /\ f.pushing = n /\ f.lost = l
      /\ f.stack = ic.stack /\ f.regs = ic.regs /\ f.halted = ic.halted /\ f.ev = ic.ev
      /\ f.events = ic.events /\ f.cfg = ic.cfg /\ f.got = ic.got /\ f.topic = ic.topic
      /\ f.timer = ic.timer /\ f.irr = ic.irr /\ f.isr = ic.isr
    BY <1>a, Zenon DEF IsQueueState
<1>6. /\ InterruptTypeOK' /\ Carries(f) /\ StepsInv' /\ NextStep = x
      /\ ic'.steps = <<>> => NextStep' = "none" /\ x \in {"iretq", "halt"}
      /\ ic'.steps # <<>> => <<x, NextStep'>> \in Flow(ic.vec)
    BY <1>2, <1>3, SteppedOn, Zenon
<1>7. <<x, NextStep'>> \in Flow(ic.vec) BY <1>6, Zenon DEF Pushing
<1>8. /\ x = "load_queue_head" => NextStep' = "load_queue_tail"
      /\ x = "load_queue_tail" => NextStep' = "compare"
    BY <1>7 DEF Flow, TimerFlow, EventFlow, Ending
<1>9. x = "compare" => NextStep' = "store_entry"
    BY <1>7 DEF Flow, TimerFlow, EventFlow, Ending
<1>10. /\ x = "store_entry" => NextStep' = "store_tail"
       /\ x = "store_tail" => NextStep' = "wake_owner"
    BY <1>7 DEF Flow, TimerFlow, EventFlow, Ending
<1>12. NextStep' \in Pushing \cup {"wake_owner"} BY <1>8, <1>9, <1>10, Zenon DEF Pushing
<1>13. NextStep \notin InProcessor \cup AtEvent /\ NextStep' \notin InProcessor \cup AtEvent
    BY <1>6, <1>12 DEF Pushing, PublishPoint, InProcessor, AtEvent
<1>14. RegistersInv' BY <1>2, <1>6, <1>13, RegistersKept, Zenon DEF Carries, KeptRegisters, AtStep
<1>15. TimerInv' BY <1>2, <1>6, TimerKept, Zenon DEF Carries
<1>16. PublishInv' BY <1>2, <1>6, <1>13, TopicsKept, Zenon DEF Carries, KeptTopics
<1>17. /\ ic'.q = q /\ ic'.rd = rd /\ ic'.pushing = n /\ ic'.lost = l /\ ic'.cfg = ic.cfg
       /\ ic'.got = ic.got /\ ic'.halted = ic.halted
    BY <1>2, <1>6, Zenon DEF Carries
<1> QED BY <1>6, <1>8, <1>9, <1>10, <1>14, <1>15, <1>16, <1>17, Zenon DEF QueueOutcome

(* The ring as the invariant's conjuncts use it.                           *)
LEMMA RingFacts ==
  ASSUME InterruptInv
  PROVE  /\ ic \in InterruptFields /\ ic.q \in QueueRecords /\ ic.rd \in LoadedRecords
         /\ ic.pushing \in Nat /\ ic.lost \in SUBSET Nat /\ ic.got \in Seq(Nat)
         /\ ic.q.head \in Nat /\ ic.q.tail \in Nat /\ ic.q.slots \in [0 .. QueueCapacity - 1 -> Nat]
         /\ ic.rd.head \in Nat /\ ic.rd.tail \in Nat /\ ic.rd.seq \in Nat
         /\ QueueCapacity \in Nat \ {0} /\ ic.q.head <= ic.q.tail /\ ic.q.tail - ic.q.head <= QueueCapacity
<1>1. ic \in InterruptFields BY Zenon DEF InterruptInv, InterruptTypeOK
<1>2. /\ ic.q \in QueueRecords /\ ic.rd \in LoadedRecords
      /\ ic.pushing \in Nat /\ ic.lost \in SUBSET Nat /\ ic.got \in Seq(Nat)
    BY <1>1, Zenon DEF InterruptFields
<1>3. /\ ic.q.head \in Nat /\ ic.q.tail \in Nat /\ ic.q.slots \in [0 .. QueueCapacity - 1 -> Nat]
      /\ ic.rd.head \in Nat /\ ic.rd.tail \in Nat /\ ic.rd.seq \in Nat
    BY <1>2, Zenon DEF QueueRecords, LoadedRecords
<1>4. ic.q.tail - ic.q.head \in 0 .. QueueCapacity BY Zenon DEF InterruptInv, RingInv
<1>5. QueueCapacity \in Nat \ {0} BY InterruptAssumption, Zenon
<1>6. ic.q.head <= ic.q.tail /\ ic.q.tail - ic.q.head <= QueueCapacity BY <1>3, <1>4, <1>5
<1> QED BY <1>1, <1>2, <1>3, <1>5, <1>6, Zenon

(* The push loads the head, then the tail.                                 *)
LEMMA LoadQueueHeadStep ==
  ASSUME InterruptInv, QueueLoadHead
  PROVE  InterruptInv'
<1> DEFINE rd == [ic.rd EXCEPT !.head = ic.q.head]
           n == ic.pushing + 1
<1>1. n \in Nat BY RingFacts
<1>2. rd \in LoadedRecords /\ rd.seq = ic.rd.seq /\ rd.head = ic.q.head BY RingFacts, Zenon DEF LoadedRecords
<1>3. AtStep("load_queue_head") /\ StepOn(QueueState(ic.q, rd, n, ic.lost))
  <2>1. [ic EXCEPT !.rd.head = ic.q.head, !.pushing = @ + 1]
        = QueueState(ic.q, rd, n, ic.lost)
      BY RingFacts, Zenon DEF InterruptFields, QueueState
  <2> QED BY <2>1, Zenon DEF QueueLoadHead
<1>4. "load_queue_head" \in Pushing BY DEF Pushing
<1>a. ic.q \in QueueRecords /\ ic.lost \in SUBSET Nat /\ ic.pushing \in Nat BY RingFacts, Zenon
<1> HIDE DEF rd, n
<1>b. QueueOutcome("load_queue_head", ic.q, rd, n, ic.lost) BY <1>1, <1>2, <1>3, <1>4, <1>a, QueueStep, Zenon
<1>5. /\ InterruptTypeOK' /\ StepsInv' /\ TimerInv' /\ RegistersInv' /\ PublishInv'
      /\ ic'.q = ic.q /\ ic'.rd = rd /\ ic'.pushing = n /\ ic'.lost = ic.lost /\ ic'.cfg = ic.cfg
      /\ ic'.got = ic.got /\ ic'.halted = ic.halted /\ NextStep = "load_queue_head"
      /\ NextStep' = "load_queue_tail"
    BY <1>b, Zenon DEF QueueOutcome
<1>6. RingInv'
  <2>1. ic'.q.tail - ic'.q.head \in 0 .. QueueCapacity BY <1>5, Zenon DEF InterruptInv, RingInv
  <2>2. ic'.rd.head = ic'.q.head BY <1>2, <1>5, Zenon
  <2>3. ic.q.head <= ic.q.head BY RingFacts
  <2> QED BY <1>5, <2>1, <2>2, <2>3, Zenon DEF RingInv
<1>7. EntriesInv'
  <2>1. Pushed' = Pushed
    <3>1. n - 1 = ic.pushing BY RingFacts DEF n
    <3> QED BY <1>5, <3>1, Zenon DEF Pushed
  <2> QED BY <1>5, <2>1, EntriesSame, Zenon
<1> QED BY <1>5, <1>6, <1>7 DEF InterruptInv

(* The push loads the tail.                                                *)
LEMMA LoadQueueTailStep ==
  ASSUME InterruptInv, QueueLoadTail
  PROVE  InterruptInv'
<1> DEFINE rd == [ic.rd EXCEPT !.tail = ic.q.tail]
<1>2. rd \in LoadedRecords /\ rd.seq = ic.rd.seq /\ rd.tail = ic.q.tail /\ rd.head = ic.rd.head
    BY RingFacts, Zenon DEF LoadedRecords
<1>3. AtStep("load_queue_tail") /\ StepOn(QueueState(ic.q, rd, ic.pushing, ic.lost))
  <2>1. [ic EXCEPT !.rd.tail = ic.q.tail]
        = QueueState(ic.q, rd, ic.pushing, ic.lost)
      BY RingFacts, Zenon DEF InterruptFields, QueueState
  <2> QED BY <2>1, Zenon DEF QueueLoadTail
<1>4. "load_queue_tail" \in Pushing BY DEF Pushing
<1>a. ic.q \in QueueRecords /\ ic.lost \in SUBSET Nat /\ ic.pushing \in Nat BY RingFacts, Zenon
<1> HIDE DEF rd
<1>b. QueueOutcome("load_queue_tail", ic.q, rd, ic.pushing, ic.lost) BY <1>2, <1>3, <1>4, <1>a, QueueStep, Zenon
<1>5. /\ InterruptTypeOK' /\ StepsInv' /\ TimerInv' /\ RegistersInv' /\ PublishInv'
      /\ ic'.q = ic.q /\ ic'.rd = rd /\ ic'.pushing = ic.pushing /\ ic'.lost = ic.lost /\ ic'.cfg = ic.cfg
      /\ ic'.got = ic.got /\ ic'.halted = ic.halted /\ NextStep = "load_queue_tail"
      /\ NextStep' = "compare"
    BY <1>b, Zenon DEF QueueOutcome
<1>6. RingInv'
  <2>1. /\ ic.q.tail - ic.q.head \in 0 .. QueueCapacity /\ ic.rd.head <= ic.q.head
        /\ ic.cfg.near => ic.rd.head = ic.q.head
      BY <1>5, Zenon DEF InterruptInv, RingInv
  <2> QED BY <1>2, <1>5, <2>1, Zenon DEF RingInv
<1>7. EntriesInv' BY <1>5, EntriesSame, Zenon DEF Pushed
<1> QED BY <1>5, <1>6, <1>7 DEF InterruptInv

(* Ring arithmetic: an index is a slot, and two indices less than the      *)
(* capacity apart are different slots.                                     *)
LEMMA RingSlot == \A n \in Nat : n % QueueCapacity \in 0 .. QueueCapacity - 1
<1>1. QueueCapacity \in Nat /\ QueueCapacity > 0 BY InterruptAssumption
<1> QED BY <1>1

(* Entries less than a ring apart have different slots.                    *)
LEMMA RingDistinct ==
  ASSUME NEW a \in Nat, NEW b \in Nat, a < b, b - a < QueueCapacity
  PROVE  a % QueueCapacity # b % QueueCapacity
<1> DEFINE K == QueueCapacity
           i == a \div K
           j == b \div K
           d == j - i
<1>1. K \in Nat /\ K > 0 BY InterruptAssumption
<1> HIDE DEF K
<1>2. i \in Int /\ j \in Int /\ a % K \in Int /\ b % K \in Int /\ a = K * i + (a % K) /\ b = K * j + (b % K)
    BY <1>1
<1> SUFFICES ASSUME a % K = b % K PROVE FALSE BY DEF K
<1>3. d \in Int /\ b - a = K * d BY <1>1, <1>2
<1>4. b - a < K BY DEF K
<1> HIDE DEF d
<1>5. CASE d <= 0
  <2>1. K * d <= 0 BY <1>1, <1>3, <1>5
  <2> QED BY <1>3, <2>1
<1>6. CASE d >= 1
  <2>1. K * d >= K BY <1>1, <1>3, <1>6
  <2> QED BY <1>1, <1>3, <1>4, <2>1
<1> QED BY <1>3, <1>5, <1>6

(* The window of waiting indices h .. t - 1 when its first one is gone.    *)
Window(h, t, r, K) ==
  /\ t - (h + 1) \in 0 .. K /\ t - (h + 1) < K
  /\ (h + 1) .. t - 1 = (h .. t - 1) \ {h} /\ h \in h .. t - 1
  /\ r <= h => r <= h + 1
  /\ \A j \in h .. t - 1 : j # h => h < j

(* The waiting entries when one is taken, given up or pushed.              *)
LEMMA WindowMoves ==
  ASSUME NEW h \in Nat, NEW t \in Nat, NEW r \in Nat, NEW K \in Nat, h < t, t - h \in 0 .. K
  PROVE  Window(h, t, r, K)
  BY DEF Window

(* The entry is stored in a slot no waiting entry uses.                    *)
LEMMA StoreEntryStep ==
  ASSUME InterruptInv, QueueStoreEntry
  PROVE  InterruptInv'
<1> DEFINE k == ic.rd.tail % QueueCapacity
           slots == [ic.q.slots EXCEPT ![k] = ic.pushing]
           q == [ic.q EXCEPT !.slots = slots]
<1>1. /\ ic \in InterruptFields /\ ic.q \in QueueRecords /\ ic.rd \in LoadedRecords /\ ic.pushing \in Nat
      /\ ic.lost \in SUBSET Nat /\ ic.q.slots \in [0 .. QueueCapacity - 1 -> Nat] /\ ic.rd.tail \in Nat
    BY RingFacts, Zenon
<1>2. k \in 0 .. QueueCapacity - 1 BY <1>1, RingSlot, Zenon
<1>3. AtStep("store_entry") /\ StepOn(QueueState(q, ic.rd, ic.pushing, ic.lost))
  <2>1. [ic EXCEPT !.q.slots[k] = ic.pushing] = QueueState(q, ic.rd, ic.pushing, ic.lost)
      BY <1>1, Zenon DEF InterruptFields, QueueState
  <2> QED BY <2>1, Zenon DEF QueueStoreEntry
<1> HIDE DEF k
<1>4. slots \in [0 .. QueueCapacity - 1 -> Nat] /\ slots[k] = ic.pushing /\ \A m \in 0 .. QueueCapacity - 1 : m # k => slots[m] = ic.q.slots[m]
    BY <1>1, <1>2, Zenon
<1> HIDE DEF slots
<1>5. q \in QueueRecords /\ q.slots = slots /\ q.head = ic.q.head /\ q.tail = ic.q.tail /\ q.overflow = ic.q.overflow
    BY <1>1, <1>4, Zenon DEF QueueRecords
<1> HIDE DEF q
<1>6. "store_entry" \in Pushing BY DEF Pushing
<1>7. QueueOutcome("store_entry", q, ic.rd, ic.pushing, ic.lost) BY <1>1, <1>3, <1>5, <1>6, QueueStep, Zenon
<1>8. /\ InterruptTypeOK' /\ StepsInv' /\ TimerInv' /\ RegistersInv' /\ PublishInv'
      /\ ic'.q = q /\ ic'.rd = ic.rd /\ ic'.pushing = ic.pushing /\ ic'.lost = ic.lost /\ ic'.cfg = ic.cfg
      /\ ic'.got = ic.got /\ ic'.halted = ic.halted /\ NextStep = "store_entry" /\ NextStep' = "store_tail"
    BY <1>7, Zenon DEF QueueOutcome
<1>9. /\ ic.q.tail - ic.q.head \in 0 .. QueueCapacity /\ ic.rd.tail = ic.q.tail
      /\ ic.q.tail - ic.q.head < QueueCapacity
    BY <1>8, Zenon DEF InterruptInv, RingInv
<1>10. RingInv' BY <1>4, <1>5, <1>8, <1>9, Zenon DEF RingInv, k
<1>11. Pushed' = Pushed BY <1>8, Zenon DEF Pushed
<1>12. Waiting' = Waiting BY <1>5, <1>8, Zenon DEF Waiting
<1>13. ASSUME NEW j \in Waiting PROVE QueueEntry(j)' = QueueEntry(j)
  <2>1. j \in Nat /\ j < ic.rd.tail /\ ic.rd.tail - j < QueueCapacity
    <3>1. /\ ic.q.head \in Nat /\ ic.q.tail \in Nat /\ QueueCapacity \in Nat BY RingFacts, Zenon
    <3>2. j \in ic.q.head .. ic.q.tail - 1 BY Zenon DEF Waiting
    <3> QED BY <1>9, <3>1, <3>2
  <2>2. j % QueueCapacity # k BY <1>1, <2>1, RingDistinct, Zenon DEF k
  <2>3. j % QueueCapacity \in 0 .. QueueCapacity - 1 BY <2>1, RingSlot, Zenon
  <2> QED BY <1>4, <1>5, <1>8, <2>2, <2>3, Zenon DEF QueueEntry
<1>14. EntriesInv' BY <1>5, <1>8, <1>11, <1>12, <1>13, EntriesMoved, Zenon
<1> QED BY <1>8, <1>10, <1>14 DEF InterruptInv

(* The store of the tail adds the newest entry.                            *)
LEMMA StoreTailStep ==
  ASSUME InterruptInv, QueueStoreTail
  PROVE  InterruptInv'
<1> DEFINE n == ic.rd.tail + 1
           q == [ic.q EXCEPT !.tail = n]
<1>1. /\ ic \in InterruptFields /\ ic.q \in QueueRecords /\ ic.rd \in LoadedRecords /\ ic.pushing \in Nat
      /\ ic.lost \in SUBSET Nat /\ ic.rd.tail \in Nat /\ ic.q.head \in Nat /\ ic.q.tail \in Nat /\ QueueCapacity \in Nat
    BY RingFacts, Zenon
<1>2. n \in Nat BY <1>1
<1>3. AtStep("store_tail") /\ StepOn(QueueState(q, ic.rd, ic.pushing, ic.lost))
  <2>1. [ic EXCEPT !.q.tail = n] = QueueState(q, ic.rd, ic.pushing, ic.lost)
      BY <1>1, Zenon DEF InterruptFields, QueueState
  <2> QED BY <2>1, Zenon DEF QueueStoreTail
<1>a. n = ic.rd.tail + 1 OBVIOUS
<1> HIDE DEF n
<1>5. q \in QueueRecords /\ q.slots = ic.q.slots /\ q.head = ic.q.head /\ q.tail = n /\ q.overflow = ic.q.overflow
    BY <1>1, <1>2, Zenon DEF QueueRecords
<1> HIDE DEF q
<1>6. "store_tail" \in Pushing BY DEF Pushing
<1>7. QueueOutcome("store_tail", q, ic.rd, ic.pushing, ic.lost) BY <1>1, <1>3, <1>5, <1>6, QueueStep, Zenon
<1>8. /\ InterruptTypeOK' /\ StepsInv' /\ TimerInv' /\ RegistersInv' /\ PublishInv'
      /\ ic'.q = q /\ ic'.rd = ic.rd /\ ic'.pushing = ic.pushing /\ ic'.lost = ic.lost /\ ic'.cfg = ic.cfg
      /\ ic'.got = ic.got /\ ic'.halted = ic.halted /\ NextStep = "store_tail" /\ NextStep' = "wake_owner"
    BY <1>7, Zenon DEF QueueOutcome
<1>9. /\ ic.q.tail - ic.q.head \in 0 .. QueueCapacity /\ ic.rd.tail = ic.q.tail
      /\ ic.q.tail - ic.q.head < QueueCapacity /\ ic.q.slots[ic.rd.tail % QueueCapacity] = ic.pushing
    BY <1>8, Zenon DEF InterruptInv, RingInv
<1>10. RingInv'
  <2>1. n - ic.q.head \in 0 .. QueueCapacity BY <1>1, <1>9, <1>a
  <2> QED BY <1>5, <1>8, <2>1, Zenon DEF RingInv
<1>11. Pushed = ic.pushing - 1 /\ Pushed' = ic.pushing /\ Pushed \in Nat
    BY <1>8, Zenon DEF Pushed, InterruptInv, EntriesInv
<1>12. Waiting' = Waiting \cup {ic.q.tail} /\ \A j \in Waiting : j < ic.q.tail
  <2>1. Waiting' = ic.q.head .. n - 1 BY <1>5, <1>8, Zenon DEF Waiting
  <2>2. n - 1 = ic.q.tail /\ ic.q.head <= ic.q.tail BY <1>1, <1>9, <1>a
  <2>3. \A h, t \in Nat : h <= t => h .. t = (h .. t - 1) \cup {t} OBVIOUS
  <2>4. Waiting' = (ic.q.head .. ic.q.tail - 1) \cup {ic.q.tail} BY <1>1, <2>1, <2>2, <2>3, Zenon
  <2>5. \A h, t \in Nat : \A j \in h .. t - 1 : j < t OBVIOUS
  <2> QED BY <1>1, <2>4, <2>5, Zenon DEF Waiting
<1>13. \A j : QueueEntry(j)' = QueueEntry(j) BY <1>5, <1>8, Zenon DEF QueueEntry
<1>14. QueueEntry(ic.q.tail) = ic.pushing BY <1>9, Zenon DEF QueueEntry
<1>b. Waiting \subseteq Nat BY <1>1 DEF Waiting
<1>15. EntriesInv' BY <1>1, <1>b, <1>5, <1>8, <1>11, <1>12, <1>13, <1>14, EntriesGrow, Zenon
<1> QED BY <1>8, <1>10, <1>15 DEF InterruptInv

(* The comparison: there is room, or the policy of a full queue.           *)
LEMMA AtCompare ==
  ASSUME InterruptInv, QueueCompare
  PROVE  /\ AtStep("compare") /\ NextStep = "compare" /\ ic.rd.tail = ic.q.tail /\ ic.rd.head <= ic.q.head
         /\ ic.cfg.near => ic.rd.head = ic.q.head
         /\ Pushed = ic.pushing - 1 /\ Pushed \in Nat
<1>1. AtStep("compare") /\ NextStep = "compare" BY Zenon DEF QueueCompare, AtStep, NextStep
<1> QED BY <1>1, Zenon DEF InterruptInv, RingInv, EntriesInv, Pushed

(* The push has found room.                                                *)
LEMMA RoomStep ==
  ASSUME InterruptInv, QueueCompare, ~QueueFull
  PROVE  InterruptInv'
<1>1. /\ ic \in InterruptFields /\ ic.q \in QueueRecords /\ ic.rd \in LoadedRecords /\ ic.pushing \in Nat
      /\ ic.lost \in SUBSET Nat /\ ic.rd.tail \in Nat /\ ic.rd.head \in Nat /\ ic.q.head \in Nat
      /\ ic.q.tail \in Nat /\ QueueCapacity \in Nat
    BY RingFacts, Zenon
<1>2. StepOn(QueueState(ic.q, ic.rd, ic.pushing, ic.lost))
  <2>1. ic = QueueState(ic.q, ic.rd, ic.pushing, ic.lost) BY <1>1, Zenon DEF InterruptFields, QueueState
  <2>2. StepOn(ic) BY Zenon DEF QueueCompare
  <2> QED BY <2>1, <2>2, Zenon
<1>3. "compare" \in Pushing BY DEF Pushing
<1>4. QueueOutcome("compare", ic.q, ic.rd, ic.pushing, ic.lost) BY <1>1, <1>2, <1>3, AtCompare, QueueStep, Zenon
<1>5. /\ InterruptTypeOK' /\ StepsInv' /\ TimerInv' /\ RegistersInv' /\ PublishInv'
      /\ ic'.q = ic.q /\ ic'.rd = ic.rd /\ ic'.pushing = ic.pushing /\ ic'.lost = ic.lost /\ ic'.cfg = ic.cfg
      /\ ic'.got = ic.got /\ ic'.halted = ic.halted /\ NextStep = "compare" /\ NextStep' = "store_entry"
    BY <1>4, Zenon DEF QueueOutcome
<1>6. ic.q.tail - ic.q.head \in 0 .. QueueCapacity BY Zenon DEF InterruptInv, RingInv
<1>7. ic.q.tail - ic.q.head < QueueCapacity
  <2>1. ~(ic.rd.tail - ic.rd.head >= QueueCapacity) BY Zenon DEF QueueFull
  <2> QED BY <1>1, <2>1, AtCompare
<1>8. RingInv' BY <1>5, <1>6, <1>7, AtCompare, Zenon DEF RingInv
<1>9. EntriesInv' BY <1>5, EntriesSame, Zenon DEF Pushed
<1> QED BY <1>5, <1>8, <1>9 DEF InterruptInv

(* A full ring gives up the new entry.                                     *)
LEMMA DropNewestStep ==
  ASSUME InterruptInv, QueueCompare, QueueFull, ic.cfg.policy = "drop_newest"
  PROVE  InterruptInv'
<1> DEFINE q == [ic.q EXCEPT !.overflow = TRUE]
           l == ic.lost \cup {ic.pushing}
           f == QueueState(q, ic.rd, ic.pushing, l)
<1>1. /\ ic \in InterruptFields /\ ic.q \in QueueRecords /\ ic.rd \in LoadedRecords /\ ic.pushing \in Nat
      /\ ic.lost \in SUBSET Nat
    BY RingFacts, Zenon
<1>2. q \in QueueRecords /\ q.overflow = TRUE /\ q.head = ic.q.head /\ q.tail = ic.q.tail /\ q.slots = ic.q.slots
    BY <1>1, Zenon DEF QueueRecords
<1>3. l \in SUBSET Nat BY <1>1, Zenon
<1>4. SkipToEOI(f)
  <2>1. [ic EXCEPT !.q.overflow = TRUE, !.lost = @ \cup {ic.pushing}] = f
      BY <1>1, Zenon DEF InterruptFields, QueueState
  <2>2. SkipToEOI([ic EXCEPT !.q.overflow = TRUE, !.lost = @ \cup {ic.pushing}])
      BY Zenon DEF QueueCompare
  <2> QED BY <2>1, <2>2, Zenon
<1>a. l = ic.lost \cup {ic.pushing} OBVIOUS
<1> HIDE DEF q, l
<1>5. IsQueueState(f, q, ic.rd, ic.pushing, l) BY <1>1, <1>2, <1>3, QueueFields, Zenon
<1> HIDE DEF f
<1>6. InterruptTypeOK' /\ Carries(f) /\ StepsInv' /\ NextStep' = "eoi"
    BY <1>4, <1>5, SkippedToEOI, Zenon DEF IsQueueState
<1>7. /\ KeptRegisters /\ KeptTopics /\ ic'.timer = ic.timer /\ ic'.irr = ic.irr /\ ic'.isr = ic.isr
      /\ ic'.cfg = ic.cfg /\ ic'.q = q /\ ic'.rd = ic.rd /\ ic'.pushing = ic.pushing /\ ic'.lost = l /\ ic'.got = ic.got
      /\ ic'.halted = ic.halted
    BY <1>5, <1>6, Zenon DEF IsQueueState, Carries, KeptRegisters, KeptTopics
<1>8. AtStep("compare") /\ NextStep = "compare" /\ Pushed = ic.pushing - 1 /\ Pushed \in Nat BY AtCompare, Zenon
<1>9. RegistersInv' BY <1>6, <1>7, <1>8, RegistersKept, Zenon DEF AtStep, InProcessor
<1>10. TimerInv' BY <1>7, TimerKept, Zenon
<1>11. PublishInv' BY <1>6, <1>7, <1>8, TopicsKept, Zenon DEF AtEvent, PublishPoint
<1>12. RingInv' BY <1>2, <1>6, <1>7, Zenon DEF InterruptInv, RingInv
<1>13. EntriesInv'
  <2>1. Waiting' = Waiting BY <1>2, <1>7, Zenon DEF Waiting
  <2>2. \A j : QueueEntry(j)' = QueueEntry(j) BY <1>2, <1>7, Zenon DEF QueueEntry
  <2>3. Pushed' = ic.pushing BY <1>6, <1>7, Zenon DEF Pushed
  <2> QED BY <1>1, <1>2, <1>7, <1>8, <1>a, <2>1, <2>2, <2>3, EntriesRefused, Zenon
<1> QED BY <1>6, <1>9, <1>10, <1>11, <1>12, <1>13 DEF InterruptInv

(* The oldest entry is given up by the processor that alone moves the head.*)
LEMMA DropOldestStep ==
  ASSUME InterruptInv, QueueCompare, QueueFull, ic.cfg.policy = "drop_oldest"
  PROVE  InterruptInv'
<1> DEFINE n == ic.rd.head + 1
           e == ic.q.slots[ic.rd.head % QueueCapacity]
           q == [ic.q EXCEPT !.overflow = TRUE, !.head = n]
           l == ic.lost \cup {e}
<1>1. /\ ic \in InterruptFields /\ ic.q \in QueueRecords /\ ic.rd \in LoadedRecords /\ ic.pushing \in Nat
      /\ ic.lost \in SUBSET Nat /\ ic.rd.tail \in Nat /\ ic.rd.head \in Nat /\ ic.q.head \in Nat
      /\ ic.q.tail \in Nat /\ QueueCapacity \in Nat \ {0} /\ ic.q.slots \in [0 .. QueueCapacity - 1 -> Nat]
      /\ ic.q.tail - ic.q.head <= QueueCapacity
    BY RingFacts, Zenon
<1>c. \A m \in Nat : m + 1 \in Nat OBVIOUS
<1>e. \A h, t, K \in Nat : t - h <= K /\ t - h >= K => t - h = K OBVIOUS
<1>f. QueueCapacity \in Nat /\ QueueCapacity # 0 BY <1>1, Zenon
<1>2. n \in Nat BY <1>1, <1>c, Zenon
<1>3. ic.rd.head % QueueCapacity \in 0 .. QueueCapacity - 1 BY <1>1, RingSlot, Zenon
<1>4. e \in Nat BY <1>1, <1>3, Zenon
<1>5. ic.cfg.near
  <2>1. ic.cfg \in Configs BY <1>1, Zenon DEF InterruptFields
  <2> QED BY <2>1, InterruptAssumption, Zenon
<1>6. /\ AtStep("compare") /\ ic.rd.tail = ic.q.tail /\ ic.rd.head = ic.q.head
    BY <1>5, AtCompare, Zenon
<1>7. StepOn(QueueState(q, ic.rd, ic.pushing, l))
  <2>1. [ic EXCEPT !.q.overflow = TRUE, !.q.head = n, !.lost = @ \cup {e}] = QueueState(q, ic.rd, ic.pushing, l)
      BY <1>1, Zenon DEF InterruptFields, QueueState
  <2>2. "drop_oldest" # "drop_newest" OBVIOUS
  <2>3. StepOn([ic EXCEPT !.q.overflow = TRUE, !.q.head = n, !.lost = @ \cup {e}])
      BY <2>2, Zenon DEF QueueCompare
  <2> QED BY <2>1, <2>3, Zenon
<1>a. l = ic.lost \cup {e} /\ n = ic.q.head + 1 BY <1>6, Zenon
<1>b. e = QueueEntry(ic.q.head) BY <1>6, Zenon DEF QueueEntry
<1> HIDE DEF e, n
<1>8. q \in QueueRecords /\ q.overflow = TRUE /\ q.head = n /\ q.tail = ic.q.tail /\ q.slots = ic.q.slots
    BY <1>1, <1>2, Zenon DEF QueueRecords
<1>9. l \in SUBSET Nat BY <1>1, <1>4, Zenon
<1> HIDE DEF q, l
<1>10. "compare" \in Pushing BY DEF Pushing
<1>11. QueueOutcome("compare", q, ic.rd, ic.pushing, l) BY <1>1, <1>6, <1>7, <1>8, <1>9, <1>10, QueueStep, Zenon
<1>12. /\ InterruptTypeOK' /\ StepsInv' /\ TimerInv' /\ RegistersInv' /\ PublishInv'
      /\ ic'.q = q /\ ic'.rd = ic.rd /\ ic'.pushing = ic.pushing /\ ic'.lost = l /\ ic'.cfg = ic.cfg
      /\ ic'.got = ic.got /\ ic'.halted = ic.halted /\ NextStep = "compare" /\ NextStep' = "store_entry"
    BY <1>11, Zenon DEF QueueOutcome
<1>13. ic.q.tail - ic.q.head = QueueCapacity
  <2>1. ic.rd.tail - ic.rd.head >= QueueCapacity BY Zenon DEF QueueFull
  <2> QED BY <1>1, <1>6, <1>e, <2>1, Zenon
<1>g. Window(ic.q.head, ic.q.tail, ic.rd.head, QueueCapacity)
  <2>1. ic.q.head \in Nat /\ ic.q.tail \in Nat /\ ic.rd.head \in Nat BY <1>1, Zenon
  <2>2. \A h, t, K \in Nat : t - h = K /\ K # 0 => h < t /\ t - h \in 0 .. K OBVIOUS
  <2>3. ic.q.head < ic.q.tail /\ ic.q.tail - ic.q.head \in 0 .. QueueCapacity BY <1>f, <1>13, <2>1, <2>2, Zenon
  <2> QED BY <1>f, <2>1, <2>3, WindowMoves, Zenon
<1>14. RingInv'
  <2> QED BY <1>6, <1>8, <1>12, <1>a, <1>g, Zenon DEF RingInv, Window
<1>15. EntriesInv'
  <2>1. Waiting' = n .. ic.q.tail - 1 BY <1>8, <1>12, Zenon DEF Waiting
  <2>2. n .. ic.q.tail - 1 = Waiting \ {ic.q.head} /\ ic.q.head \in Waiting BY <1>a, <1>g, Zenon DEF Waiting, Window
  <2>3. \A j : QueueEntry(j)' = QueueEntry(j) BY <1>8, <1>12, Zenon DEF QueueEntry
  <2>4. Pushed' = Pushed BY <1>12, Zenon DEF Pushed
  <2> QED BY <1>8, <1>12, <1>a, <1>b, <2>1, <2>2, <2>3, <2>4, EntriesGivenUp, Zenon
<1> QED BY <1>12, <1>14, <1>15 DEF InterruptInv

(* A full ring stops the machine.                                          *)
LEMMA StopStep ==
  ASSUME InterruptInv, QueueCompare, QueueFull, ic.cfg.policy \notin {"drop_newest", "drop_oldest"}
  PROVE  InterruptInv'
<1> DEFINE f == [ic EXCEPT !.halted = TRUE]
<1>1. ic \in InterruptFields BY RingFacts, Zenon
<1>2. f \in InterruptFields BY <1>1, Zenon DEF InterruptFields
<1>3. /\ f.stack = ic.stack /\ f.regs = ic.regs /\ f.topic = ic.topic /\ f.ev = ic.ev /\ f.vec = ic.vec
      /\ f.events = ic.events /\ f.rd = ic.rd /\ f.q = ic.q /\ f.cfg = ic.cfg /\ f.pushing = ic.pushing
      /\ f.got = ic.got /\ f.lost = ic.lost /\ f.timer = ic.timer /\ f.irr = ic.irr /\ f.isr = ic.isr
      /\ f.halted = TRUE
    BY <1>1, Zenon DEF InterruptFields
<1>4. ic' = [f EXCEPT !.steps = <<>>]
  <2>1. ic' = [ic EXCEPT !.halted = TRUE, !.steps = <<>>] BY Zenon DEF QueueCompare
  <2> QED BY <1>1, <2>1, Zenon DEF InterruptFields
<1> HIDE DEF f
<1>5. <<>> \in Seq(StepNames) OBVIOUS
<1>6. InterruptTypeOK' /\ ic'.steps = <<>> /\ Carries(f) BY <1>2, <1>4, <1>5, Stepped, Zenon
<1>7. NextStep' = "none" BY <1>6, Zenon DEF NextStep
<1>8. NextStep = "compare" /\ Pushed = ic.pushing - 1 /\ Pushed \in Nat BY AtCompare, Zenon
<1>9. StepsInv'
  <2>1. \A i \in 1 .. Len(<<>>) - 1 : FALSE OBVIOUS
  <2> QED BY <1>6, <2>1, Zenon DEF StepsInv, FlowsBy
<1>10. RegistersInv' BY <1>3, <1>6, Zenon DEF Carries, RegistersInv
<1>11. TimerInv' BY <1>3, <1>6, TimerKept, Zenon DEF Carries
<1>12. PublishInv' BY <1>3, <1>6, <1>7, <1>8, TopicsKept, Zenon DEF Carries, KeptTopics, AtEvent, PublishPoint
<1>13. RingInv' BY <1>3, <1>6, <1>7, RingKept, Zenon DEF Carries, KeptRing, TailLoaded
<1>14. EntriesInv'
  <2>1. Pushed' = ic.pushing BY <1>3, <1>6, <1>7, Zenon DEF Carries, Pushed
  <2>2. ic.pushing \in Nat BY RingFacts, Zenon
  <2>3. \A m \in Nat : m = (m - 1) + 1 OBVIOUS
  <2>4. Pushed' \in Nat /\ Pushed' = Pushed + 1 BY <1>8, <2>1, <2>2, <2>3, Zenon
  <2> QED BY <1>3, <1>6, <2>4, EntriesStopped, Zenon DEF Carries
<1> QED BY <1>6, <1>9, <1>10, <1>11, <1>12, <1>13, <1>14 DEF InterruptInv

(* The push compares what it loaded, under each policy.                    *)
LEMMA CompareStep ==
  ASSUME InterruptInv, QueueCompare
  PROVE  InterruptInv'
  BY RoomStep, DropNewestStep, DropOldestStep, StopStep, Zenon

(* The owner takes the oldest entry.                                       *)
LEMMA TakeStep ==
  ASSUME InterruptInv, Take
  PROVE  InterruptInv'
<1> DEFINE n == ic.q.head + 1
           e == ic.q.slots[ic.q.head % QueueCapacity]
           g == Append(ic.got, e)
           q == [ic.q EXCEPT !.head = n]
<1>1. /\ ic \in InterruptFields /\ ic.q \in QueueRecords /\ ic.got \in Seq(Nat) /\ ic.q.head \in Nat /\ ic.rd.head \in Nat
      /\ ic.q.tail \in Nat /\ QueueCapacity \in Nat \ {0} /\ ic.q.slots \in [0 .. QueueCapacity - 1 -> Nat]
    BY RingFacts, Zenon
<1>2. n \in Nat BY <1>1
<1>3. ic.q.head % QueueCapacity \in 0 .. QueueCapacity - 1 BY <1>1, RingSlot, Zenon
<1>4. e \in Nat BY <1>1, <1>3, Zenon
<1>5. /\ ic' = [ic EXCEPT !.got = g, !.q = q] /\ ic.q.head < ic.q.tail /\ (ic.cfg.near => ic.steps = <<>>)
    BY <1>1, Zenon DEF Take, InterruptFields
<1>a. g = Append(ic.got, QueueEntry(ic.q.head)) /\ e = QueueEntry(ic.q.head) /\ n = ic.q.head + 1 BY Zenon DEF QueueEntry
<1> HIDE DEF e, n
<1>6. g \in Seq(Nat) BY <1>1, <1>4
<1>7. q \in QueueRecords /\ q.head = n /\ q.tail = ic.q.tail /\ q.slots = ic.q.slots /\ q.overflow = ic.q.overflow
    BY <1>1, <1>2, Zenon DEF QueueRecords
<1> HIDE DEF q, g
<1>8. InterruptTypeOK'
  <2>1. [ic EXCEPT !.got = g, !.q = q] \in InterruptFields BY <1>1, <1>6, <1>7, Zenon DEF InterruptFields
  <2> QED BY <1>5, <2>1, Zenon DEF InterruptTypeOK, InterruptFields
<1>9. /\ ic'.got = g /\ ic'.q = q /\ ic'.steps = ic.steps /\ ic'.vec = ic.vec /\ ic'.cfg = ic.cfg /\ ic'.rd = ic.rd
      /\ ic'.pushing = ic.pushing /\ ic'.lost = ic.lost /\ ic'.timer = ic.timer /\ ic'.irr = ic.irr /\ ic'.isr = ic.isr
      /\ KeptRegisters /\ KeptTopics
    BY <1>1, <1>5, Zenon DEF InterruptFields, KeptRegisters, KeptTopics
<1>10. NextStep' = NextStep BY <1>9, Zenon DEF NextStep
<1>11. StepsInv' BY <1>9, Zenon DEF InterruptInv, StepsInv
<1>12. RegistersInv' BY <1>9, <1>10, RegistersKept, Zenon
<1>13. TimerInv' BY <1>9, TimerKept, Zenon
<1>14. PublishInv' BY <1>9, <1>10, TopicsKept, Zenon
<1>c. ic.q.tail - ic.q.head \in 0 .. QueueCapacity BY Zenon DEF InterruptInv, RingInv
<1>e. Window(ic.q.head, ic.q.tail, ic.rd.head, QueueCapacity)
  <2>1. QueueCapacity \in Nat /\ ic.q.head \in Nat /\ ic.q.tail \in Nat /\ ic.rd.head \in Nat BY <1>1, Zenon
  <2> QED BY <1>5, <1>c, <2>1, WindowMoves, Zenon
<1>d. /\ ic.q.tail - n \in 0 .. QueueCapacity /\ ic.q.tail - n < QueueCapacity
      /\ n .. ic.q.tail - 1 = Waiting \ {ic.q.head} /\ ic.q.head \in Waiting
      /\ ic.rd.head <= ic.q.head => ic.rd.head <= n
      /\ \A j \in Waiting : j # ic.q.head => ic.q.head < j
    BY <1>a, <1>e, Zenon DEF Waiting, Window
<1>15. RingInv'
  <2>1. ~ic.cfg.near \/ NextStep = "none" BY <1>5, Zenon DEF NextStep
  <2> QED BY <1>7, <1>9, <1>10, <1>d, <2>1, Zenon DEF InterruptInv, RingInv
<1>16. EntriesInv'
  <2>1. Waiting' = Waiting \ {ic.q.head} BY <1>7, <1>9, <1>d, Zenon DEF Waiting
  <2>2. \A j : QueueEntry(j)' = QueueEntry(j) BY <1>7, <1>9, Zenon DEF QueueEntry
  <2>3. Pushed' = Pushed BY <1>9, <1>10, Zenon DEF Pushed
  <2> QED BY <1>1, <1>4, <1>7, <1>9, <1>a, <1>d, <2>1, <2>2, <2>3, EntriesTaken, Zenon DEF KeptRegisters
<1> QED BY <1>8, <1>11, <1>12, <1>13, <1>14, <1>15, <1>16 DEF InterruptInv

(* Sequences of steps that flow from a first to a last one, and how two of *)
(* them are joined.                                                        *)
Chained(s, first, last, flow) ==
  /\ s \in Seq(StepNames) /\ s # <<>> /\ s[1] = first /\ s[Len(s)] = last
  /\ \A i \in 1 .. Len(s) - 1 : <<s[i], s[i + 1]>> \in flow

(* Two pieces of a unit, one after the other.                              *)
LEMMA Joined ==
  ASSUME NEW s, NEW t, NEW a, NEW b, NEW c, NEW d, NEW flow,
         Chained(s, a, b, flow), Chained(t, c, d, flow), <<b, c>> \in flow
  PROVE  Chained(s \o t, a, d, flow)
<1>1. /\ s \in Seq(StepNames) /\ s # <<>> /\ s[1] = a /\ s[Len(s)] = b
      /\ t \in Seq(StepNames) /\ t # <<>> /\ t[1] = c /\ t[Len(t)] = d
    BY Zenon DEF Chained
<1>2. /\ \A i \in 1 .. Len(s) - 1 : <<s[i], s[i + 1]>> \in flow
      /\ \A i \in 1 .. Len(t) - 1 : <<t[i], t[i + 1]>> \in flow
    BY Zenon DEF Chained
<1> DEFINE u == s \o t
           m == Len(s)
           n == Len(t)
<1>3. m \in Nat /\ n \in Nat /\ m >= 1 /\ n >= 1 BY <1>1
<1>4. u \in Seq(StepNames) /\ Len(u) = m + n BY <1>1
<1>5. (\A i \in 1 .. m : u[i] = s[i]) /\ \A i \in 1 .. n : u[m + i] = t[i] BY <1>1
<1> HIDE DEF u, m, n
<1>6. u # <<>> BY <1>3, <1>4
<1>7. u[1] = a /\ u[Len(u)] = d
  <2>1. 1 \in 1 .. m /\ n \in 1 .. n BY <1>3
  <2> QED BY <1>1, <1>4, <1>5, <2>1, Zenon DEF n
<1>8. ASSUME NEW i \in 1 .. m + n - 1 PROVE <<u[i], u[i + 1]>> \in flow
  <2>1. CASE i < m
    <3>1. i \in 1 .. m - 1 /\ i \in 1 .. m /\ i + 1 \in 1 .. m BY <1>3, <2>1
    <3> QED BY <1>2, <1>5, <3>1, Zenon DEF m
  <2>2. CASE i = m
    <3>1. i \in 1 .. m /\ 1 \in 1 .. n BY <1>3, <2>2
    <3>2. u[i] = b /\ u[i + 1] = c BY <1>1, <1>5, <2>2, <3>1, Zenon DEF m
    <3> QED BY <3>2
  <2>3. CASE i > m
    <3> DEFINE k == i - m
    <3>1. k \in 1 .. n - 1 /\ k \in 1 .. n /\ k + 1 \in 1 .. n /\ m + k = i /\ m + (k + 1) = i + 1 BY <1>3, <2>3
    <3> HIDE DEF k
    <3>2. u[m + k] = t[k] /\ u[m + (k + 1)] = t[k + 1] BY <1>5, <3>1, Zenon
    <3>3. u[i] = t[k] /\ u[i + 1] = t[k + 1] BY <3>1, <3>2, Zenon
    <3> QED BY <1>2, <3>1, <3>3, Zenon DEF n
  <2> QED BY <1>3, <2>1, <2>2, <2>3
<1>a. \A i \in 1 .. m + n - 1 : <<u[i], u[i + 1]>> \in flow BY <1>8
<1>c. \A x, y, l \in Int : l = x + y => l - 1 = x + y - 1 OBVIOUS
<1>d. Len(u) \in Int /\ m \in Int /\ n \in Int BY <1>3, <1>4
<1>b. Len(u) - 1 = m + n - 1 BY <1>4, <1>c, <1>d, Zenon
<1>9. \A i \in 1 .. Len(u) - 1 : <<u[i], u[i + 1]>> \in flow BY <1>a, <1>b, Zenon
<1>10. Chained(u, a, d, flow) BY <1>4, <1>6, <1>7, <1>9, Zenon DEF Chained
<1> QED BY <1>10, Zenon DEF u

(* The parts a unit is made of.                                           *)
LEMMA SaveChained ==
  ASSUME NEW flow
  PROVE  Chained(<<"save">>, "save", "save", flow)
<1> DEFINE s == <<"save">>
<1>1. s \in Seq(StepNames) /\ Len(s) = 1 /\ s # <<>> BY DEF StepNames
<1>2. s[1] = "save" OBVIOUS
<1> HIDE DEF s
<1>3. \A i \in 1 .. 1 - 1 : FALSE OBVIOUS
<1> QED BY <1>1, <1>2, <1>3, Zenon DEF Chained, s

(* The end of a unit.                                                      *)
LEMMA EndChained ==
  ASSUME NEW flow \in {TimerFlow, EventFlow}
  PROVE  Chained(<<"eoi", "restore", "iretq">>, "eoi", "iretq", flow)
<1> DEFINE s == <<"eoi", "restore", "iretq">>
<1>1. s \in Seq(StepNames) /\ Len(s) = 3 /\ s # <<>> BY DEF StepNames
<1>2. s[1] = "eoi" /\ s[2] = "restore" /\ s[3] = "iretq" OBVIOUS
<1> HIDE DEF s
<1>3. \A i \in 1 .. 3 - 1 : (i = 1 /\ i + 1 = 2) \/ (i = 2 /\ i + 1 = 3) OBVIOUS
<1>4. <<"eoi", "restore">> \in flow /\ <<"restore", "iretq">> \in flow
    BY Zenon DEF EventFlow, TimerFlow, Ending
<1>5. \A i \in 1 .. 3 - 1 : <<s[i], s[i + 1]>> \in flow BY <1>2, <1>3, <1>4, Zenon
<1> QED BY <1>1, <1>2, <1>5, Zenon DEF Chained, s

(* The publication of a tick.                                              *)
LEMMA TimerPublishChained ==
  Chained(TimerPublishSteps, "load_head", "store_head", TimerFlow)
<1> DEFINE s == <<"load_head", "store_payload", "store_slot_sequence", "store_head">>
<1>1. s \in Seq(StepNames) /\ Len(s) = 4 /\ s # <<>> BY DEF StepNames
<1>2. s[1] = "load_head" /\ s[2] = "store_payload" /\ s[3] = "store_slot_sequence" /\ s[4] = "store_head" OBVIOUS
<1> HIDE DEF s
<1>3. \A i \in 1 .. 4 - 1 : (i = 1 /\ i + 1 = 2) \/ (i = 2 /\ i + 1 = 3) \/ (i = 3 /\ i + 1 = 4) OBVIOUS
<1>4. <<"load_head", "store_payload">> \in TimerFlow /\ <<"store_payload", "store_slot_sequence">> \in TimerFlow /\ <<"store_slot_sequence", "store_head">> \in TimerFlow
    BY Zenon DEF EventFlow, TimerFlow, Ending
<1>5. \A i \in 1 .. 4 - 1 : <<s[i], s[i + 1]>> \in TimerFlow BY <1>2, <1>3, <1>4, Zenon
<1> QED BY <1>1, <1>2, <1>5, Zenon DEF Chained, s, TimerPublishSteps

(* The publication of an event.                                            *)
LEMMA PublishChained ==
  Chained(PublishSteps, "load_head", "store_head", EventFlow)
<1> DEFINE s == <<"load_head", "store_slot_sequence", "store_payload", "store_head">>
<1>1. s \in Seq(StepNames) /\ Len(s) = 4 /\ s # <<>> BY DEF StepNames
<1>2. s[1] = "load_head" /\ s[2] = "store_slot_sequence" /\ s[3] = "store_payload" /\ s[4] = "store_head" OBVIOUS
<1> HIDE DEF s
<1>3. \A i \in 1 .. 4 - 1 : (i = 1 /\ i + 1 = 2) \/ (i = 2 /\ i + 1 = 3) \/ (i = 3 /\ i + 1 = 4) OBVIOUS
<1>4. <<"load_head", "store_slot_sequence">> \in EventFlow /\ <<"store_slot_sequence", "store_payload">> \in EventFlow /\ <<"store_payload", "store_head">> \in EventFlow
    BY Zenon DEF EventFlow, TimerFlow, Ending
<1>5. \A i \in 1 .. 4 - 1 : <<s[i], s[i + 1]>> \in EventFlow BY <1>2, <1>3, <1>4, Zenon
<1> QED BY <1>1, <1>2, <1>5, Zenon DEF Chained, s, PublishSteps

(* The push.                                                               *)
LEMMA PushChained ==
  Chained(PushSteps, "load_queue_head", "wake_owner", EventFlow)
<1> DEFINE s == <<"load_queue_head", "load_queue_tail", "compare", "store_entry", "store_tail", "wake_owner">>
<1>1. s \in Seq(StepNames) /\ Len(s) = 6 /\ s # <<>> BY DEF StepNames
<1>2. s[1] = "load_queue_head" /\ s[2] = "load_queue_tail" /\ s[3] = "compare" /\ s[4] = "store_entry" /\ s[5] = "store_tail" /\ s[6] = "wake_owner" OBVIOUS
<1> HIDE DEF s
<1>3. \A i \in 1 .. 6 - 1 : (i = 1 /\ i + 1 = 2) \/ (i = 2 /\ i + 1 = 3) \/ (i = 3 /\ i + 1 = 4) \/ (i = 4 /\ i + 1 = 5) \/ (i = 5 /\ i + 1 = 6) OBVIOUS
<1>4. <<"load_queue_head", "load_queue_tail">> \in EventFlow /\ <<"load_queue_tail", "compare">> \in EventFlow /\ <<"compare", "store_entry">> \in EventFlow /\ <<"store_entry", "store_tail">> \in EventFlow /\ <<"store_tail", "wake_owner">> \in EventFlow
    BY Zenon DEF EventFlow, TimerFlow, Ending
<1>5. \A i \in 1 .. 6 - 1 : <<s[i], s[i + 1]>> \in EventFlow BY <1>2, <1>3, <1>4, Zenon
<1> QED BY <1>1, <1>2, <1>5, Zenon DEF Chained, s, PushSteps

(* The calls of the receiver and of the event function.                    *)
LEMMA ReceiveChained ==
  Chained(<<"receiver", "event", "test_some">>, "receiver", "test_some", EventFlow)
<1> DEFINE s == <<"receiver", "event", "test_some">>
<1>1. s \in Seq(StepNames) /\ Len(s) = 3 /\ s # <<>> BY DEF StepNames
<1>2. s[1] = "receiver" /\ s[2] = "event" /\ s[3] = "test_some" OBVIOUS
<1> HIDE DEF s
<1>3. \A i \in 1 .. 3 - 1 : (i = 1 /\ i + 1 = 2) \/ (i = 2 /\ i + 1 = 3) OBVIOUS
<1>4. <<"receiver", "event">> \in EventFlow /\ <<"event", "test_some">> \in EventFlow
    BY Zenon DEF EventFlow, TimerFlow, Ending
<1>5. \A i \in 1 .. 3 - 1 : <<s[i], s[i + 1]>> \in EventFlow BY <1>2, <1>3, <1>4, Zenon
<1> QED BY <1>1, <1>2, <1>5, Zenon DEF Chained, s

(* Every unit flows from its save to its return, or only halts.            *)
LEMMA FramedChained ==
  ASSUME NEW body, NEW a, NEW b, NEW flow \in {TimerFlow, EventFlow}, Chained(body, a, b, flow),
         <<"save", a>> \in flow, <<b, "eoi">> \in flow
  PROVE  Chained(Framed(body), "save", "iretq", flow)
<1>1. Chained(<<"save">>, "save", "save", flow) BY SaveChained, Zenon
<1>2. Chained(<<"save">> \o body, "save", b, flow) BY <1>1, Joined, Zenon
<1>3. Chained(<<"eoi", "restore", "iretq">>, "eoi", "iretq", flow) BY EndChained, Zenon
<1>4. Chained((<<"save">> \o body) \o <<"eoi", "restore", "iretq">>, "save", "iretq", flow) BY <1>2, <1>3, Joined, Zenon
<1> QED BY <1>4, Zenon DEF Framed

(* A piece with nothing after it.                                          *)
LEMMA NothingJoined ==
  ASSUME NEW s, NEW a, NEW b, NEW flow, Chained(s, a, b, flow)
  PROVE  s \o <<>> = s
<1>1. s \in Seq(StepNames) BY Zenon DEF Chained
<1>2. \A S : \A t \in Seq(S) : t \o <<>> = t OBVIOUS
<1> QED BY <1>1, <1>2, Zenon

(* Every unit the compiler emits is such a chain, or stops the machine.    *)
LEMMA UnitChained ==
  ASSUME NEW c, NEW v \in Known, v = "timer" => c.timers # <<>>
  PROVE  Chained(DispatchUnit(c, v), "save", "iretq", Flow(v)) \/ DispatchUnit(c, v) = <<"halt">>
<1>1. CASE v = "timer"
  <2>1. <<"save", "load_head">> \in TimerFlow /\ <<"store_head", "eoi">> \in TimerFlow BY Zenon DEF TimerFlow
  <2>2. Chained(TimerUnit, "save", "iretq", TimerFlow)
      BY <2>1, TimerPublishChained, FramedChained, Zenon DEF TimerUnit
  <2>3. DispatchUnit(c, v) = TimerUnit BY <1>1, Zenon DEF DispatchUnit
  <2> QED BY <1>1, <2>2, <2>3, Zenon DEF Flow
<1>2. CASE v # "timer"
  <2>1. Flow(v) = EventFlow BY <1>2, Zenon DEF Flow
  <2>2. /\ <<"save", "eoi">> \in EventFlow /\ <<"save", "receiver">> \in EventFlow /\ <<"save", "load_queue_head">> \in EventFlow
        /\ <<"test_some", "load_head">> \in EventFlow /\ <<"store_head", "load_queue_head">> \in EventFlow
        /\ <<"store_head", "eoi">> \in EventFlow /\ <<"wake_owner", "eoi">> \in EventFlow
      BY Zenon DEF EventFlow
  <2>3. Chained(InterruptWakeUnit, "save", "iretq", EventFlow)
    <3>1. Chained(<<"save">>, "save", "save", EventFlow) BY SaveChained, Zenon
    <3>2. Chained(<<"eoi", "restore", "iretq">>, "eoi", "iretq", EventFlow) BY EndChained, Zenon
    <3>3. <<"save">> \o <<>> = <<"save">> BY <3>1, NothingJoined, Zenon
    <3>4. Chained(<<"save">> \o <<"eoi", "restore", "iretq">>, "save", "iretq", EventFlow) BY <2>2, <3>1, <3>2, Joined, Zenon
    <3> QED BY <3>3, <3>4, Zenon DEF InterruptWakeUnit, Framed
  <2>4. Chained(InterruptQueueOnlyUnit, "save", "iretq", EventFlow)
      BY <2>2, PushChained, FramedChained, Zenon DEF InterruptQueueOnlyUnit
  <2>5. Chained(InterruptDispatchUnit(c, v), "save", "iretq", EventFlow)
    <3> DEFINE body == <<"receiver", "event", "test_some">> \o PublishSteps
    <3>1. Chained(body, "receiver", "store_head", EventFlow)
        BY <2>2, ReceiveChained, PublishChained, Joined, Zenon
    <3>2. body \o <<>> = body BY <3>1, NothingJoined, Zenon
    <3> HIDE DEF body
    <3>3. Chained(body \o PushSteps, "receiver", "wake_owner", EventFlow) BY <2>2, <3>1, PushChained, Joined, Zenon
    <3>4. CASE v \in c.queued
      <4>1. Chained(Framed(body \o PushSteps), "save", "iretq", EventFlow) BY <2>2, <3>3, FramedChained, Zenon
      <4>2. InterruptDispatchUnit(c, v) = Framed(body \o PushSteps) BY <3>4, Zenon DEF InterruptDispatchUnit, body
      <4> QED BY <4>1, <4>2, Zenon
    <3>5. CASE v \notin c.queued
      <4>1. Chained(Framed(body), "save", "iretq", EventFlow) BY <2>2, <3>1, FramedChained, Zenon
      <4>2. InterruptDispatchUnit(c, v) = Framed(body \o <<>>) BY <3>5, Zenon DEF InterruptDispatchUnit, body
      <4> QED BY <3>2, <4>1, <4>2, Zenon
    <3> QED BY <3>4, <3>5
  <2>6. DispatchUnit(c, v) \in {InterruptWakeUnit, InterruptDispatchUnit(c, v), InterruptQueueOnlyUnit, InterruptTrapUnit}
      BY <1>2, Zenon DEF DispatchUnit
  <2> QED BY <2>1, <2>3, <2>4, <2>5, <2>6, Zenon DEF InterruptTrapUnit
<1> QED BY <1>1, <1>2

(* An interrupt is taken: its unit is about to save the registers.         *)
LEMMA DispatchStep ==
  ASSUME InterruptInv, Dispatch
  PROVE  InterruptInv'
<1>1. ic \in InterruptFields BY Zenon DEF InterruptInv, InterruptTypeOK
<1>2. /\ ic.steps = <<>> /\ ~ic.halted /\ NextStep = "none" BY Zenon DEF Dispatch, NextStep
<1>3. PICK v \in ic.irr :
        ic' = [ic EXCEPT !.irr = @ \ {v}, !.isr = {v}, !.vec = v, !.steps = DispatchUnit(ic.cfg, v)]
    BY Zenon DEF Dispatch
<1> DEFINE s == DispatchUnit(ic.cfg, v)
           irr == ic.irr \ {v}
           f == [ic EXCEPT !.irr = irr, !.isr = {v}, !.vec = v]
<1>4. v \in Known BY <1>1, Zenon DEF InterruptFields
<1>5. "timer" \in ic.irr => ic.timer.pc = "armed" /\ ic.cfg.timers # <<>>
  <2>1. "armed" # "divide" OBVIOUS
  <2> QED BY <2>1, Zenon DEF InterruptInv, TimerInv
<1>6. Chained(s, "save", "iretq", Flow(v)) \/ s = <<"halt">> BY <1>4, <1>5, UnitChained, Zenon
<1>7. irr \in SUBSET Known /\ {v} \in SUBSET Known BY <1>1, <1>4, Zenon DEF InterruptFields
<1>8. "timer" \in irr => "timer" \in ic.irr OBVIOUS
<1> HIDE DEF s, irr
<1>9. s \in Seq(StepNames) /\ s # <<>> /\ s[1] \in {"save", "halt"} /\ FlowsBy(s, Flow(v))
  <2>1. CASE s = <<"halt">>
    <3>1. s \in Seq(StepNames) /\ s # <<>> /\ s[1] = "halt" BY <2>1 DEF StepNames
    <3>2. \A i \in 1 .. Len(<<"halt">>) - 1 : FALSE OBVIOUS
    <3> QED BY <2>1, <3>1, <3>2, Zenon DEF FlowsBy
  <2>2. CASE Chained(s, "save", "iretq", Flow(v)) BY <2>2, Zenon DEF Chained, FlowsBy
  <2> QED BY <1>6, <2>1, <2>2
<1>10. Head(s) = s[1] BY <1>9
<1>a. v \in UnitVectors BY <1>4, Zenon DEF UnitVectors
<1>11. f \in InterruptFields BY <1>1, <1>a, <1>7, Zenon DEF InterruptFields
<1>12. /\ f.stack = ic.stack /\ f.regs = ic.regs /\ f.topic = ic.topic /\ f.ev = ic.ev /\ f.vec = v /\ f.irr = irr
       /\ f.events = ic.events /\ f.rd = ic.rd /\ f.q = ic.q /\ f.cfg = ic.cfg /\ f.pushing = ic.pushing
       /\ f.got = ic.got /\ f.lost = ic.lost /\ f.timer = ic.timer /\ f.isr = {v} /\ f.halted = ic.halted
    BY <1>1, Zenon DEF InterruptFields
<1>13. ic' = [f EXCEPT !.steps = s] BY <1>1, <1>3, Zenon DEF InterruptFields, s, irr
<1> HIDE DEF f
<1>14. InterruptTypeOK' /\ ic'.steps = s /\ Carries(f) BY <1>9, <1>11, <1>13, Stepped, Zenon
<1>15. NextStep' \in {"save", "halt"} BY <1>9, <1>10, <1>14, Zenon DEF NextStep
<1>16. StepsInv' BY <1>9, <1>12, <1>14, Zenon DEF Carries, StepsInv
<1>17. RegistersInv' BY <1>2, <1>12, <1>14, <1>15, Zenon DEF InterruptInv, Carries, RegistersInv
<1>18. TimerInv'
  <2>1. "timer" \in ic'.irr \cup ic'.isr => "timer" \in ic.irr BY <1>8, <1>12, <1>14, Zenon DEF Carries
  <2> QED BY <1>12, <1>14, <2>1, TimerKept, Zenon DEF Carries
<1>19. PublishInv'
  <2>1. /\ ic.events = ic.topic["event"].head
        /\ \A t \in Topics : /\ ic.topic[t].head = Len(ic.topic[t].out)
                             /\ \A i \in DOMAIN ic.topic[t].out : ic.topic[t].out[i] = <<i, i>>
      BY <1>2, Zenon DEF InterruptInv, PublishInv, PublishPoint
  <2>2. ic'.topic = ic.topic /\ ic'.events = ic.events BY <1>12, <1>14, Zenon DEF Carries
  <2> QED BY <1>15, <2>1, <2>2, Zenon DEF PublishInv, PublishPoint
<1>20. RingInv' BY <1>12, <1>14, <1>15, RingKept, Zenon DEF Carries, KeptRing, TailLoaded
<1>21. EntriesInv' BY <1>2, <1>12, <1>14, <1>15, EntriesKept, Zenon DEF Carries, KeptEntries, TailLoaded
<1> QED BY <1>14, <1>16, <1>17, <1>18, <1>19, <1>20, <1>21 DEF InterruptInv

(* Steps of the devices and of the timer.                                  *)

(* Steps outside the processor: requests and the timer.                    *)
LEMMA OutsideStep ==
  ASSUME InterruptInv, NEW irr \in SUBSET Known, NEW t \in TimerRecords, NEW r \in Nat,
         ic' = [ic EXCEPT !.irr = irr, !.timer = t, !.raised = r],
         /\ "timer" \in irr \cup ic.isr => t.pc = "armed"
         /\ t.lvt = "periodic" => t.pc = "armed"
         /\ t.pc # "divide" => ic.cfg.timers # <<>>
         /\ t.pc \in {"unmask", "armed"} => t.initial # 0
  PROVE  InterruptInv'
<1>1. ic \in InterruptFields BY Zenon DEF InterruptInv, InterruptTypeOK
<1>2. InterruptTypeOK'
  <2>1. [ic EXCEPT !.irr = irr, !.timer = t, !.raised = r] \in InterruptFields
      BY <1>1, Zenon DEF InterruptFields
  <2> QED BY <2>1, Zenon DEF InterruptTypeOK, InterruptFields
<1>3. /\ ic'.irr = irr /\ ic'.isr = ic.isr /\ ic'.timer = t /\ ic'.cfg = ic.cfg /\ ic'.steps = ic.steps
      /\ KeptRegisters /\ KeptTopics /\ KeptRing /\ KeptEntries
    BY <1>1, Zenon DEF InterruptFields, KeptRegisters, KeptTopics, KeptRing, KeptEntries
<1>4. NextStep' = NextStep BY <1>3 DEF NextStep
<1>5. StepsInv' BY <1>3, Zenon DEF InterruptInv, StepsInv, KeptTopics
<1>6. RegistersInv' BY <1>3, <1>4, RegistersKept, Zenon
<1>7. TimerInv' BY <1>3, Zenon DEF TimerInv
<1>8. PublishInv' BY <1>3, <1>4, TopicsKept, Zenon
<1>9. RingInv' BY <1>3, <1>4, RingKept, Zenon
<1>10. EntriesInv' BY <1>3, <1>4, EntriesKept, Zenon
<1> QED BY <1>2, <1>5, <1>6, <1>7, <1>8, <1>9, <1>10 DEF InterruptInv

(* What the invariant says of the timer.                                   *)
LEMMA TimerFacts ==
  ASSUME InterruptInv
  PROVE  /\ ic \in InterruptFields /\ ic.irr \in SUBSET Known /\ ic.timer \in TimerRecords /\ ic.raised \in Nat
         /\ ic.timer.initial \in Nat /\ ic.timer.elapsed \in 0 .. 3 /\ ic.timer.ticks \in Nat
         /\ ic.timer.lvt \in {"masked", "periodic"} /\ ic.cfg \in Configs
         /\ "timer" \in ic.irr \cup ic.isr => ic.timer.pc = "armed"
         /\ ic.timer.lvt = "periodic" => ic.timer.pc = "armed"
         /\ ic.timer.pc # "divide" => ic.cfg.timers # <<>>
         /\ ic.timer.pc \in {"unmask", "armed"} => ic.timer.initial # 0
<1>1. ic \in InterruptFields BY Zenon DEF InterruptInv, InterruptTypeOK
<1>2. ic.irr \in SUBSET Known /\ ic.timer \in TimerRecords /\ ic.raised \in Nat /\ ic.cfg \in Configs
    BY <1>1, Zenon DEF InterruptFields
<1>3. /\ ic.timer.initial \in Nat /\ ic.timer.elapsed \in 0 .. 3 /\ ic.timer.ticks \in Nat
      /\ ic.timer.lvt \in {"masked", "periodic"}
    BY <1>2, Zenon DEF TimerRecords
<1>4. TimerInv BY Zenon DEF InterruptInv
<1> QED BY <1>1, <1>2, <1>3, <1>4, Zenon DEF TimerInv

(* A device raises its vector.                                             *)
LEMMA RaiseStep ==
  ASSUME InterruptInv, NEW v \in Known \ {"timer"}, Raise(v)
  PROVE  InterruptInv'
<1> DEFINE irr == ic.irr \cup {v}
           r == ic.raised + 1
<1>1. r \in Nat
  <2>1. ic.raised \in Nat BY TimerFacts, Zenon
  <2> QED BY <2>1
<1>2. irr \in SUBSET Known /\ ("timer" \in irr \cup ic.isr => "timer" \in ic.irr \cup ic.isr) BY TimerFacts, Zenon
<1>3. ic' = [ic EXCEPT !.irr = irr, !.timer = ic.timer, !.raised = r] BY TimerFacts, Zenon DEF Raise, InterruptFields
<1> HIDE DEF irr, r
<1> QED BY <1>1, <1>2, <1>3, TimerFacts, OutsideStep, Zenon

(* Time passes while the timer is calibrated.                              *)
LEMMA ElapseStep ==
  ASSUME InterruptInv, Elapse
  PROVE  InterruptInv'
<1> DEFINE n == ic.timer.elapsed + 1
           t == [ic.timer EXCEPT !.elapsed = n]
<1>1. n \in 0 .. 3
  <2>1. ic.timer.elapsed \in 0 .. 3 /\ ic.timer.elapsed < 3 BY TimerFacts, Zenon DEF Elapse
  <2> QED BY <2>1
<1>2. ic' = [ic EXCEPT !.irr = ic.irr, !.timer = t, !.raised = ic.raised] BY TimerFacts, Zenon DEF Elapse, InterruptFields
<1> HIDE DEF n
<1>3. t \in TimerRecords /\ t.pc = ic.timer.pc /\ t.lvt = ic.timer.lvt /\ t.initial = ic.timer.initial
    BY <1>1, TimerFacts, Zenon DEF TimerRecords
<1> HIDE DEF t
<1> QED BY <1>2, <1>3, TimerFacts, OutsideStep, Zenon

(* The count reaches zero.                                                 *)
LEMMA ExpireStep ==
  ASSUME InterruptInv, Expire
  PROVE  InterruptInv'
<1> DEFINE n == ic.timer.ticks + 1
           t == [ic.timer EXCEPT !.ticks = n]
           irr == IF ic.timer.lvt = "masked" THEN ic.irr ELSE ic.irr \cup {"timer"}
<1>1. n \in Nat
  <2>1. ic.timer.ticks \in Nat BY TimerFacts, Zenon
  <2> QED BY <2>1
<1>2. ic' = [ic EXCEPT !.irr = irr, !.timer = t, !.raised = ic.raised] BY TimerFacts, Zenon DEF Expire, InterruptFields
<1>3. irr \in SUBSET Known /\ ("timer" \in irr \cup ic.isr => ic.timer.pc = "armed")
  <2>1. CASE ic.timer.lvt = "masked" BY <2>1, TimerFacts, Zenon
  <2>2. CASE ic.timer.lvt # "masked" BY <2>2, TimerFacts, Zenon DEF Known
  <2> QED BY <2>1, <2>2
<1> HIDE DEF n, irr
<1>4. t \in TimerRecords /\ t.pc = ic.timer.pc /\ t.lvt = ic.timer.lvt /\ t.initial = ic.timer.initial
    BY <1>1, TimerFacts, Zenon DEF TimerRecords
<1> HIDE DEF t
<1> QED BY <1>2, <1>3, <1>4, TimerFacts, OutsideStep, Zenon

(* The count that is programmed fits the timer and is not zero.            *)
LEMMA CountRuns ==
  ASSUME NEW c \in Configs, NEW e \in 0 .. 3
  PROVE  InitialCount(e, c.period) % (CountMax + 1) \in Nat \ {0}
<1> DEFINE P == TimerPeriodUS(c.period)
           n == (e * P) \div CalibrationUS
<1>1. CountMax \in Nat /\ c.period \in Nat /\ 3 * P <= 4 * CountMax
    BY InterruptAssumption, Zenon DEF CalibrationUS
<1>2. P \in Nat /\ P >= 1 BY <1>1 DEF TimerPeriodUS
<1>3. InitialCount(e, c.period) = IF n = 0 THEN 1 ELSE n BY Zenon DEF InitialCount
<1>4. n = (e * P) \div 4 BY DEF CalibrationUS
<1> HIDE DEF P, n
<1>5. CountMax >= 1 BY <1>1, <1>2
<1>6. e * P \in Nat /\ e * P <= 4 * CountMax
  <2>1. CASE e = 0 BY <1>1, <1>2, <2>1
  <2>2. CASE e = 1 BY <1>1, <1>2, <2>2
  <2>3. CASE e = 2 BY <1>1, <1>2, <2>3
  <2>4. CASE e = 3 BY <1>1, <1>2, <2>4
  <2> QED BY <2>1, <2>2, <2>3, <2>4
<1>7. \A x, m \in Nat : x <= 4 * m => x \div 4 \in Nat /\ x \div 4 <= m OBVIOUS
<1>8. n \in Nat /\ n <= CountMax BY <1>1, <1>4, <1>6, <1>7, Zenon
<1>9. \A x, m \in Nat : x <= m => x % (m + 1) = x OBVIOUS
<1>10. 1 % (CountMax + 1) = 1 /\ n % (CountMax + 1) = n BY <1>1, <1>5, <1>8, <1>9
<1>11. CASE n = 0 BY <1>3, <1>10, <1>11
<1>12. CASE n # 0 BY <1>3, <1>8, <1>10, <1>12
<1> QED BY <1>11, <1>12

(* The initialisation of the timer.                                        *)
LEMMA TimerInitStep ==
  ASSUME InterruptInv, TimerStep
  PROVE  InterruptInv'
<1> DEFINE t == ic.timer
           count == InitialCount(t.elapsed, ic.cfg.period) % (CountMax + 1)
<1>1. ic.cfg.timers # <<>> /\ t.pc # "armed" BY Zenon DEF TimerStep
<1>2. t.lvt = "masked" /\ "timer" \notin ic.irr \cup ic.isr BY <1>1, TimerFacts, Zenon
<1>3. count \in Nat \ {0} BY TimerFacts, CountRuns, Zenon
<1>4. CountMax \in Nat BY InterruptAssumption, Zenon
<1> HIDE DEF count
<1>5. PICK p \in {"divide", "mask", "count", "sample", "program", "unmask", "armed"},
           l \in {"masked", "periodic"}, i \in Nat :
        /\ ic' = [ic EXCEPT !.timer = [t EXCEPT !.pc = p, !.lvt = l, !.initial = i]]
        /\ l = "periodic" => p = "armed"
        /\ p \in {"unmask", "armed"} => i # 0
  <2>0. t \in TimerRecords /\ t.initial \in Nat BY TimerFacts, Zenon
  <2>1. CASE t.pc = "divide"
    <3>1. ic' = [ic EXCEPT !.timer = [t EXCEPT !.pc = "mask"]] BY <2>1 DEF TimerStep
    <3>2. [t EXCEPT !.pc = "mask"] = [t EXCEPT !.pc = "mask", !.lvt = "masked", !.initial = t.initial]
        BY <1>2, <2>0, Zenon DEF TimerRecords
    <3> QED BY <2>0, <3>1, <3>2, Zenon
  <2>2. CASE t.pc = "mask"
    <3>1. ic' = [ic EXCEPT !.timer = [t EXCEPT !.pc = "count", !.lvt = "masked"]] BY <2>2 DEF TimerStep
    <3>2. [t EXCEPT !.pc = "count", !.lvt = "masked"] = [t EXCEPT !.pc = "count", !.lvt = "masked", !.initial = t.initial]
        BY <2>0, Zenon DEF TimerRecords
    <3> QED BY <2>0, <3>1, <3>2, Zenon
  <2>3. CASE t.pc = "count"
    <3>1. ic' = [ic EXCEPT !.timer = [t EXCEPT !.pc = "sample", !.initial = CountMax]] BY <2>3 DEF TimerStep
    <3>2. [t EXCEPT !.pc = "sample", !.initial = CountMax] = [t EXCEPT !.pc = "sample", !.lvt = "masked", !.initial = CountMax]
        BY <1>2, <2>0, Zenon DEF TimerRecords
    <3> QED BY <1>4, <3>1, <3>2, Zenon
  <2>4. CASE t.pc = "sample"
    <3>1. ic' = [ic EXCEPT !.timer = [t EXCEPT !.pc = "program"]] BY <2>4 DEF TimerStep
    <3>2. [t EXCEPT !.pc = "program"] = [t EXCEPT !.pc = "program", !.lvt = "masked", !.initial = t.initial]
        BY <1>2, <2>0, Zenon DEF TimerRecords
    <3> QED BY <2>0, <3>1, <3>2, Zenon
  <2>5. CASE t.pc = "program"
    <3>1. ic' = [ic EXCEPT !.timer = [t EXCEPT !.pc = "unmask", !.initial = count]] BY <2>5 DEF TimerStep, count
    <3>2. [t EXCEPT !.pc = "unmask", !.initial = count] = [t EXCEPT !.pc = "unmask", !.lvt = "masked", !.initial = count]
        BY <1>2, <2>0, Zenon DEF TimerRecords
    <3> QED BY <1>3, <3>1, <3>2, Zenon
  <2>6. CASE t.pc = "unmask"
    <3>1. ic' = [ic EXCEPT !.timer = [t EXCEPT !.pc = "armed", !.lvt = "periodic"]] BY <2>6 DEF TimerStep
    <3>2. [t EXCEPT !.pc = "armed", !.lvt = "periodic"] = [t EXCEPT !.pc = "armed", !.lvt = "periodic", !.initial = t.initial]
        BY <2>0, Zenon DEF TimerRecords
    <3>3. t.initial # 0 BY <2>6, TimerFacts, Zenon
    <3> QED BY <2>0, <3>1, <3>2, <3>3, Zenon
  <2>7. t.pc \in {"divide", "mask", "count", "sample", "program", "unmask", "armed"} BY <2>0, Zenon DEF TimerRecords
  <2> QED BY <1>1, <2>1, <2>2, <2>3, <2>4, <2>5, <2>6, <2>7, Zenon
<1> DEFINE u == [t EXCEPT !.pc = p, !.lvt = l, !.initial = i]
<1>6. u \in TimerRecords /\ u.pc = p /\ u.lvt = l /\ u.initial = i BY TimerFacts, Zenon DEF TimerRecords
<1>7. ic' = [ic EXCEPT !.irr = ic.irr, !.timer = u, !.raised = ic.raised] BY <1>5, TimerFacts, Zenon DEF InterruptFields
<1> HIDE DEF u, t
<1>8. /\ "timer" \in ic.irr \cup ic.isr => u.pc = "armed"
      /\ u.lvt = "periodic" => u.pc = "armed"
      /\ u.pc # "divide" => ic.cfg.timers # <<>>
      /\ u.pc \in {"unmask", "armed"} => u.initial # 0
    BY <1>1, <1>2, <1>5, <1>6, Zenon
<1>9. ic.irr \in SUBSET Known /\ ic.raised \in Nat BY TimerFacts, Zenon
<1> QED BY <1>6, <1>7, <1>8, <1>9, OutsideStep, Zenon

(* The image starts with everything empty and the timer off.               *)
LEMMA InterruptStart ==
  ASSUME InterruptInit
  PROVE  InterruptInv
<1>1. PICK c \in Configs :
        ic = [cfg |-> c, irr |-> {}, isr |-> {}, steps |-> <<>>, vec |-> "none",
              regs |-> Original, stack |-> <<>>, ev |-> 0, q |-> EmptyQueue,
              rd |-> [head |-> 0, tail |-> 0, seq |-> 0], topic |-> [t \in {"event", "timer"} |-> EmptyTopic],
              timer |-> TimerOff, raised |-> 0, events |-> 0, pushing |-> 0, got |-> <<>>, lost |-> {},
              halted |-> FALSE]
    BY Zenon DEF InterruptInit
<1>2. /\ ic.cfg = c /\ ic.irr = {} /\ ic.isr = {} /\ ic.steps = <<>> /\ ic.vec = "none" /\ ic.regs = Original
      /\ ic.stack = <<>> /\ ic.ev = 0 /\ ic.q = EmptyQueue /\ ic.rd = [head |-> 0, tail |-> 0, seq |-> 0]
      /\ ic.topic = [t \in Topics |-> EmptyTopic] /\ ic.timer = TimerOff /\ ic.raised = 0 /\ ic.events = 0
      /\ ic.pushing = 0 /\ ic.got = <<>> /\ ic.lost = {} /\ ic.halted = FALSE
    BY <1>1, Zenon DEF Topics
<1>3. NextStep = "none" BY <1>2, Zenon DEF NextStep
<1>4. InterruptTypeOK
  <2>1. 0 \in Nat /\ 0 \in 0 .. 3 OBVIOUS
  <2>2. <<>> \in Seq(StepNames) OBVIOUS
  <2>a. <<>> \in Seq(RegisterValues) OBVIOUS
  <2>b. <<>> \in Seq(Nat) OBVIOUS
  <2>c. <<>> \in Seq(Nat \X Nat) OBVIOUS
  <2>3. EmptyQueue \in QueueRecords BY <2>1, Zenon DEF EmptyQueue, QueueRecords
  <2>4. [t \in {"event", "timer"} |-> EmptyTopic] \in [Topics -> TopicRecords]
      BY <2>1, <2>c, Zenon DEF EmptyTopic, Topics, TopicRecords
  <2>5. TimerOff \in TimerRecords BY <2>1, Zenon DEF TimerOff, TimerRecords
  <2>6. Original \in Seq(RegisterValues) BY FiveRegisters, Zenon
  <2>7. [head |-> 0, tail |-> 0, seq |-> 0] \in LoadedRecords BY <2>1, Zenon DEF LoadedRecords
  <2>8. "none" \in UnitVectors BY Zenon DEF UnitVectors
  <2> QED BY <1>1, <2>8, <2>1, <2>2, <2>a, <2>b, <2>3, <2>4, <2>5, <2>6, <2>7, Zenon DEF InterruptTypeOK, InterruptFields
<1>5. StepsInv
  <2>1. \A i \in 1 .. Len(<<>>) - 1 : FALSE OBVIOUS
  <2> QED BY <1>2, <2>1, Zenon DEF StepsInv, FlowsBy
<1>6. TimerInv
  <2>a. ic.timer = TimerOff BY <1>2, Zenon
  <2>b. TimerOff.pc = "divide" /\ TimerOff.lvt = "masked" BY Zenon DEF TimerOff
  <2>1. ic.timer.pc = "divide" /\ ic.timer.lvt = "masked" BY <2>a, <2>b, Zenon
  <2> QED BY <1>2, <2>1, Zenon DEF TimerInv
<1>7. RegistersInv BY <1>2, <1>3, Zenon DEF RegistersInv
<1>8. PublishInv
  <2>a. ic.topic = [t \in Topics |-> EmptyTopic] BY <1>2, Zenon
  <2>b. EmptyTopic.head = 0 /\ EmptyTopic.out = <<>> BY Zenon DEF EmptyTopic
  <2>1. \A t \in Topics : ic.topic[t].head = 0 /\ ic.topic[t].out = <<>> BY <2>a, <2>b, Zenon
  <2>2. Len(<<>>) = 0 /\ \A i \in DOMAIN <<>> : FALSE OBVIOUS
  <2>3. ic.topic["event"].head = 0 BY <2>1, Zenon DEF Topics
  <2> QED BY <1>2, <1>3, <2>1, <2>2, <2>3, Zenon DEF PublishInv, PublishPoint
<1>9. ic.q.head = 0 /\ ic.q.tail = 0
  <2>1. ic.q = EmptyQueue BY <1>2, Zenon
  <2>2. EmptyQueue.head = 0 /\ EmptyQueue.tail = 0 BY Zenon DEF EmptyQueue
  <2> QED BY <2>1, <2>2, Zenon
<1>10. RingInv
  <2>1. QueueCapacity \in Nat BY InterruptAssumption, Zenon
  <2>2. 0 - 0 \in 0 .. QueueCapacity BY <2>1
  <2> QED BY <1>3, <1>9, <2>2, Zenon DEF RingInv
<1>11. EntriesInv
  <2>1. Pushed = 0 BY <1>2, <1>3, Zenon DEF Pushed
  <2>2. \A j \in 0 .. 0 - 1 : FALSE OBVIOUS
  <2>3. \A j \in Waiting : FALSE BY <1>9, <2>2, Zenon DEF Waiting
  <2>4. 0 \in Nat /\ (\A i \in DOMAIN <<>> : FALSE) /\ \A n \in 1 .. 0 : FALSE OBVIOUS
  <2>5. \A i \in DOMAIN ic.got : FALSE BY <1>2, <2>4, Zenon
  <2> QED BY <1>2, <2>1, <2>3, <2>4, <2>5, Zenon DEF EntriesInv
<1> QED BY <1>4, <1>5, <1>6, <1>7, <1>8, <1>10, <1>11 DEF InterruptInv

(* Nothing happens.                                                        *)
LEMMA InterruptStutters ==
  ASSUME InterruptInv, UNCHANGED ic
  PROVE  InterruptInv'
<1>1. ic' = ic OBVIOUS
<1>2. ic \in InterruptFields BY Zenon DEF InterruptInv, InterruptTypeOK
<1>3. ic' = [ic EXCEPT !.irr = ic.irr, !.timer = ic.timer, !.raised = ic.raised]
    BY <1>1, <1>2, Zenon DEF InterruptFields
<1> QED BY <1>3, TimerFacts, OutsideStep, Zenon

(* InterruptInv is inductive: it holds at the start and every step of the  *)
(* processor, the devices, the timer and the owner of the queue keeps it.  *)
THEOREM InterruptInvariant == InterruptSpec => []InterruptInv
<1>1. InterruptInit => InterruptInv BY InterruptStart
<1>2. InterruptInv /\ [InterruptNext]_ic => InterruptInv'
  <2> SUFFICES ASSUME InterruptInv, [InterruptNext]_ic PROVE InterruptInv' OBVIOUS
  <2>1. CASE UNCHANGED ic BY <2>1, InterruptStutters, Zenon
  <2>2. CASE InterruptStep
    <3>1. CASE Dispatch BY <3>1, DispatchStep, Zenon
    <3>2. CASE SaveRegisters BY <3>2, SaveStep, Zenon
    <3>3. CASE RestoreRegisters BY <3>3, RestoreStep, Zenon
    <3>4. CASE LoadInterruptPathReceiver \/ WakeOwner \/ LocalApicEOI BY <3>4, PlainSteps, Zenon
    <3>5. CASE CallEvent BY <3>5, EventStep, Zenon
    <3>6. CASE TestSome BY <3>6, TestStep, Zenon
    <3>7. CASE TopicLoadHead BY <3>7, LoadHeadStep, Zenon
    <3>8. CASE TopicStoreSequence BY <3>8, StoreSequenceStep, Zenon
    <3>9. CASE TopicStorePayload BY <3>9, StorePayloadStep, Zenon
    <3>10. CASE TopicStoreHead BY <3>10, StoreHeadStep, Zenon
    <3>11. CASE QueueLoadHead BY <3>11, LoadQueueHeadStep, Zenon
    <3>12. CASE QueueLoadTail BY <3>12, LoadQueueTailStep, Zenon
    <3>13. CASE QueueCompare BY <3>13, CompareStep, Zenon
    <3>14. CASE QueueStoreEntry BY <3>14, StoreEntryStep, Zenon
    <3>15. CASE QueueStoreTail BY <3>15, StoreTailStep, Zenon
    <3>16. CASE Iretq \/ Halt BY <3>16, EndSteps, Zenon
    <3> QED BY <2>2, <3>1, <3>2, <3>3, <3>4, <3>5, <3>6, <3>7, <3>8, <3>9, <3>10, <3>11, <3>12, <3>13, <3>14,
               <3>15, <3>16, Zenon DEF InterruptStep
  <2>3. CASE TimerStep BY <2>3, TimerInitStep, Zenon
  <2>4. CASE Elapse BY <2>4, ElapseStep, Zenon
  <2>5. CASE Expire BY <2>5, ExpireStep, Zenon
  <2>6. CASE Take BY <2>6, TakeStep, Zenon
  <2>7. CASE \E v \in Known \ {"timer"} : Raise(v) BY <2>7, RaiseStep, Zenon
  <2> QED BY <2>1, <2>2, <2>3, <2>4, <2>5, <2>6, <2>7, Zenon DEF InterruptNext
<1> QED BY <1>1, <1>2, PTL DEF InterruptSpec

(* What the properties say of the registers, of the publications and of    *)
(* the timer is in the invariant.                                          *)
LEMMA InterruptInvMeans ==
  ASSUME InterruptInv
  PROVE  RegistersPreserved /\ EventsPublishedOnce /\ QueueBounded /\ TimerQuietUntilArmed
<1>1. RegistersPreserved
  <2>1. ic.steps = <<>> => NextStep = "none" BY Zenon DEF NextStep
  <2> QED BY <2>1, Zenon DEF InterruptInv, RegistersInv, RegistersPreserved
<1>2. EventsPublishedOnce
  <2>1. ic.steps = <<>> => NextStep = "none" BY Zenon DEF NextStep
  <2>2. /\ \A t \in Topics : /\ ic.topic[t].head = Len(ic.topic[t].out)
                             /\ \A i \in DOMAIN ic.topic[t].out : ic.topic[t].out[i] = <<i, i>>
        /\ NextStep = "none" => ic.events = ic.topic["event"].head
      BY Zenon DEF InterruptInv, PublishInv, PublishPoint
  <2> QED BY <2>1, <2>2, Zenon DEF EventsPublishedOnce, Topics
<1>3. QueueBounded BY Zenon DEF InterruptInv, RingInv, QueueBounded
<1>4. TimerQuietUntilArmed BY Zenon DEF InterruptInv, TimerInv, TimerQuietUntilArmed
<1> QED BY <1>1, <1>2, <1>3, <1>4

(* Between the load of the tail and the store of the entry that store is   *)
(* still to come.                                                          *)
LEMMA StoreAhead ==
  ASSUME InterruptInv, NextStep \in TailLoaded
  PROVE  \E i \in DOMAIN ic.steps : ic.steps[i] \in {"store_entry", "store_tail"}
<1> DEFINE s == ic.steps
           n == Len(s)
<1>1. s \in Seq(StepNames) /\ FlowsBy(s, Flow(ic.vec)) /\ s # <<>>
  <2>1. "none" \notin TailLoaded BY DEF TailLoaded
  <2> QED BY <2>1, Zenon DEF InterruptInv, InterruptTypeOK, InterruptFields, StepsInv, NextStep
<1>2. n \in Nat /\ n >= 1 /\ DOMAIN s = 1 .. n BY <1>1
<1>3. s[1] = NextStep
  <2>1. Head(s) = s[1] BY <1>1
  <2> QED BY <1>1, <2>1, Zenon DEF NextStep
<1> HIDE DEF s
<1>4. \A i \in 1 .. n - 1 : <<s[i], s[i + 1]>> \in Flow(ic.vec) BY <1>1, Zenon DEF FlowsBy
<1>5. s[n] = "iretq" \/ s = <<"halt">> BY <1>1, Zenon DEF FlowsBy
<1>a. s # <<"halt">>
  <2>1. <<"halt">>[1] = "halt" /\ "halt" \notin TailLoaded BY DEF TailLoaded
  <2> QED BY <1>3, <2>1, Zenon
<1> HIDE DEF n
<1>6. \A i \in 1 .. n : s[i] # "iretq" => i \in 1 .. n - 1 /\ i + 1 \in 1 .. n
  <2> SUFFICES ASSUME NEW i \in 1 .. n, s[i] # "iretq" PROVE i \in 1 .. n - 1 /\ i + 1 \in 1 .. n OBVIOUS
  <2>1. i # n BY <1>5, <1>a, Zenon
  <2> QED BY <1>2, <2>1
<1>7. \A y : /\ <<"load_queue_tail", y>> \in Flow(ic.vec) => y = "compare"
             /\ <<"compare", y>> \in Flow(ic.vec) => y = "store_entry"
    BY DEF Flow, TimerFlow, EventFlow, Ending
<1>8. ASSUME NEW i \in 1 .. n, s[i] = "compare" PROVE \E j \in 1 .. n : s[j] = "store_entry"
  <2>1. i \in 1 .. n - 1 /\ i + 1 \in 1 .. n BY <1>6, <1>8, Zenon
  <2>2. s[i + 1] = "store_entry" BY <1>4, <1>7, <1>8, <2>1, Zenon
  <2> QED BY <2>1, <2>2, Zenon
<1>9. 1 \in 1 .. n BY <1>2
<1>10. CASE s[1] = "load_queue_tail"
  <2>1. 1 \in 1 .. n - 1 /\ 1 + 1 \in 1 .. n BY <1>6, <1>9, <1>10, Zenon
  <2>2. s[1 + 1] = "compare" BY <1>4, <1>7, <1>10, <2>1, Zenon
  <2> QED BY <1>2, <1>8, <2>1, <2>2, Zenon DEF s
<1>11. CASE s[1] = "compare" BY <1>2, <1>8, <1>9, <1>11, Zenon DEF s
<1>12. CASE s[1] \in {"store_entry", "store_tail"} BY <1>2, <1>9, <1>12, Zenon DEF s
<1> QED BY <1>3, <1>10, <1>11, <1>12 DEF TailLoaded

(* What the owner has and what waits for it, one after the other, are in    *)
(* the order of the pushes and with what was given up they are all of it.   *)
LEMMA QueueInOrderHolds ==
  ASSUME InterruptInv
  PROVE  QueueInOrder
<1> DEFINE room == ic.q.tail - ic.q.head
           waiting == [i \in 1 .. room |-> ic.q.slots[(ic.q.head + i - 1) % QueueCapacity]]
           kept == ic.got \o waiting
           n == Len(ic.got)
           at(k) == ic.q.head + k - 1
<1> SUFFICES ASSUME ~(\E i \in DOMAIN ic.steps : ic.steps[i] \in {"store_entry", "store_tail"}), ~ic.halted
             PROVE  /\ Increasing(kept)
                    /\ 1 .. ic.pushing \subseteq Ints(kept) \cup ic.lost
                    /\ ic.lost # {} => ic.q.overflow
    BY Zenon DEF QueueInOrder
<1>1. NextStep \notin TailLoaded BY StoreAhead, Zenon
<1>2. Pushed = ic.pushing BY <1>1, Zenon DEF Pushed, TailLoaded
<1>3. ic.got \in Seq(Nat) BY Zenon DEF InterruptInv, InterruptTypeOK, InterruptFields
<1>4. ic.q.head \in Nat /\ ic.q.tail \in Nat /\ QueueCapacity \in Nat \ {0}
  <2>1. ic.q \in QueueRecords BY Zenon DEF InterruptInv, InterruptTypeOK, InterruptFields
  <2> QED BY <2>1, InterruptAssumption, Zenon DEF QueueRecords
<1>5. room \in Nat BY <1>4, InterruptAssumption DEF InterruptInv, RingInv
<1>6. n \in Nat /\ DOMAIN ic.got = 1 .. n BY <1>3
<1>7. \A k \in 1 .. room : at(k) \in Waiting /\ waiting[k] = QueueEntry(at(k)) BY <1>4, <1>5 DEF Waiting, QueueEntry
<1>8. \A k \in 1 .. room : waiting[k] \in 1 .. Pushed BY <1>7, Zenon DEF InterruptInv, EntriesInv
<1>9. waiting \in Seq(1 .. Pushed) /\ Len(waiting) = room
  <2>1. waiting \in [1 .. room -> 1 .. Pushed] BY <1>8, Zenon
  <2>2. \A S : \A m \in Nat : \A f \in [1 .. m -> S] : f \in Seq(S) /\ Len(f) = m OBVIOUS
  <2> HIDE DEF waiting, room
  <2> QED BY <1>5, <2>1, <2>2, Zenon
<1> HIDE DEF waiting, room
<1>10. /\ DOMAIN kept = 1 .. n + room
       /\ \A i \in 1 .. n : kept[i] = ic.got[i]
       /\ \A i \in n + 1 .. n + room : kept[i] = waiting[i - n]
    BY <1>3, <1>5, <1>6, <1>9
<1> HIDE DEF kept, n
<1>11. Increasing(kept)
  <2> SUFFICES ASSUME NEW i \in 1 .. n + room, NEW j \in 1 .. n + room, i < j PROVE kept[i] < kept[j]
      BY <1>10, Zenon DEF Increasing
  <2>1. CASE i \in 1 .. n /\ j \in 1 .. n BY <1>6, <1>10, <2>1, Zenon DEF InterruptInv, EntriesInv
  <2>2. CASE i \in 1 .. n /\ j \in n + 1 .. n + room
    <3>1. j - n \in 1 .. room BY <1>5, <1>6, <2>2
    <3>2. ic.got[i] < QueueEntry(at(j - n)) BY <1>6, <1>7, <2>2, <3>1, Zenon DEF InterruptInv, EntriesInv
    <3> QED BY <1>7, <1>10, <2>2, <3>1, <3>2, Zenon
  <2>3. CASE i \in n + 1 .. n + room /\ j \in n + 1 .. n + room
    <3>1. i - n \in 1 .. room /\ j - n \in 1 .. room /\ at(i - n) < at(j - n) BY <1>4, <1>5, <1>6, <2>3
    <3>2. QueueEntry(at(i - n)) < QueueEntry(at(j - n)) BY <1>7, <3>1, Zenon DEF InterruptInv, EntriesInv
    <3> QED BY <1>7, <1>10, <2>3, <3>1, <3>2, Zenon
  <2> QED BY <1>5, <1>6, <2>1, <2>2, <2>3
<1>12. ASSUME NEW m \in 1 .. ic.pushing PROVE m \in Ints(kept) \cup ic.lost
  <2>1. CASE m \in ic.lost BY <2>1, Zenon
  <2>2. ASSUME NEW i \in DOMAIN ic.got, ic.got[i] = m PROVE m \in Ints(kept)
    <3>1. i \in 1 .. n + room /\ i \in 1 .. n BY <1>5, <1>6
    <3> QED BY <1>10, <2>2, <3>1, Zenon DEF Ints
  <2>3. ASSUME NEW j \in Waiting, QueueEntry(j) = m PROVE m \in Ints(kept)
    <3> DEFINE k == j - ic.q.head + 1
    <3>a. k \in 1 .. room /\ at(k) = j BY <1>4 DEF Waiting, room
    <3> HIDE DEF k
    <3>1. n + k \in 1 .. n + room /\ n + k \in n + 1 .. n + room /\ (n + k) - n = k BY <1>5, <1>6, <3>a
    <3>2. kept[n + k] = m BY <1>7, <1>10, <2>3, <3>a, <3>1, Zenon
    <3> QED BY <1>10, <3>1, <3>2, Zenon DEF Ints
  <2>4. \/ m \in ic.lost
        \/ \E i \in DOMAIN ic.got : ic.got[i] = m
        \/ \E j \in Waiting : QueueEntry(j) = m
      BY <1>2, Zenon DEF InterruptInv, EntriesInv
  <2> QED BY <2>1, <2>2, <2>3, <2>4, Zenon
<1>13. ic.lost # {} => ic.q.overflow BY Zenon DEF InterruptInv, EntriesInv
<1> QED BY <1>11, <1>12, <1>13, Zenon

(* The code an interrupt returns to finds every register as it left it and  *)
(* the interrupt stack empty, whichever path the dispatch unit took.        *)
THEOREM RegistersPreservedTheorem == InterruptSpec => []RegistersPreserved
<1>1. InterruptInv => RegistersPreserved BY InterruptInvMeans, Zenon
<1> QED BY <1>1, InterruptInvariant, PTL

(* The events of a bound path are published once and in order, the queue    *)
(* hands its entries over in order within its capacity and flags what it    *)
(* gives up, and the timer is quiet until it is armed with a running count: *)
(* for every capacity, any number of interrupts and all overflow policies.  *)
THEOREM EventsReachTheirReaderTheorem == InterruptSpec => []EventsReachTheirReader
<1>1. InterruptInv => EventsReachTheirReader
    BY InterruptInvMeans, QueueInOrderHolds, Zenon DEF EventsReachTheirReader
<1> QED BY <1>1, InterruptInvariant, PTL

-----------------------------------------------------------------------------
(* The link between two executors.                                        *)

USE CoreLinkAssumption

LinkFields == {"head", "tail", "occupied", "slots", "send", "sendTail", "sendOccupied", "next", "nextHead", "nextOccupied",
           "value", "sent", "got", "offered", "refusedEarly", "overlapped"}
Index == 0..(Capacity - 1)
LinkType ==
  /\ DOMAIN cl = LinkFields
  /\ cl.head \in Index /\ cl.tail \in Index /\ cl.sendTail \in Index /\ cl.nextHead \in Index
  /\ cl.occupied \in Nat /\ cl.sendOccupied \in Nat /\ cl.nextOccupied \in Nat /\ cl.offered \in Nat /\ cl.value \in Nat
  /\ cl.next # "idle" => cl.nextOccupied > 0
  /\ cl.slots \in [Index -> Nat] /\ cl.sent \in Seq(Nat) /\ cl.got \in Seq(Nat)

(* The slot i places behind position h of the ring.                        *)
At(h, i) == IF h + i < Capacity THEN h + i ELSE h + i - Capacity

(* The positions of the oldest value and of the next free slot: a call     *)
(* that has stored its new position, and not yet occupied, still counts    *)
(* from the old one.                                                       *)
First == IF cl.next = "done" THEN cl.nextHead ELSE cl.head
Free == IF cl.send = "done" THEN cl.sendTail ELSE cl.tail
Held == Len(cl.sent) - Len(cl.got)

(* Where the ends are in their calls.                                      *)
SendInv ==
  /\ cl.send # "idle" => cl.sendTail = Free
  /\ cl.send = "done" => cl.tail = Advance(cl.sendTail)
  /\ cl.send \in {"slot", "tail", "done"} => cl.sendOccupied = Held /\ Held < Capacity
  /\ cl.send \in {"tail", "done"} => cl.slots[cl.sendTail] = cl.offered
NextInv ==
  /\ cl.next = "done" => cl.head = Advance(cl.nextHead)
  /\ cl.next = "advance" => cl.nextHead = cl.head
  /\ cl.next # "idle" => cl.nextOccupied = Held /\ Held >= 1
  /\ cl.next \in {"advance", "done"} => cl.value = cl.sent[Len(cl.got) + 1]

(* The ring holds what was sent and not taken, oldest first.               *)
QueueInv ==
  /\ cl.send = "idle" \/ cl.next = "idle"
  /\ cl.refusedEarly = "no"
  /\ Held \in 0..Capacity /\ cl.occupied = Held /\ Free = At(First, Held)
  /\ \A i \in 1..Len(cl.got) : cl.got[i] = cl.sent[i]
  /\ \A i \in 0..(Held - 1) : cl.slots[At(First, i)] = cl.sent[Len(cl.got) + 1 + i]
LinkInv == LinkType /\ (cl.overlapped = "no" => SendInv /\ NextInv /\ QueueInv)

(* Positions of the ring.                                                  *)
LEMMA AdvanceInRing ==
  ASSUME NEW i \in Index
  PROVE  Advance(i) \in Index /\ Advance(i) = At(i, 1)
BY DEF Advance, Index, At

(* Different distances below the capacity are different positions.         *)
LEMMA AtApart ==
  ASSUME NEW h \in Index, NEW n \in 0..(Capacity - 1), NEW i \in 0..(n - 1)
  PROVE  At(h, i) \in Index /\ At(h, n) \in Index /\ At(h, i) # At(h, n)
BY DEF At, Index

(* Moving the start by one shortens every distance by one.                 *)
LEMMA AtShift ==
  ASSUME NEW h \in Index, NEW i \in 0..(Capacity - 1)
  PROVE  At(Advance(h), i) = At(h, i + 1)
BY DEF At, Index, Advance

(* What Append does to a sequence.                                         *)
LEMMA AppendFacts ==
  ASSUME NEW s \in Seq(Nat), NEW v \in Nat
  PROVE  /\ Len(s) \in Nat /\ Len(Append(s, v)) = Len(s) + 1 /\ Append(s, v)[Len(s) + 1] = v
         /\ \A i \in 1..Len(s) : Append(s, v)[i] = s[i]
OBVIOUS

(* The types of the positions and numbers derived from the state.          *)
LEMMA DerivedTypes ==
  ASSUME LinkType
  PROVE  First \in Index /\ Free \in Index /\ Len(cl.sent) \in Nat /\ Len(cl.got) \in Nat /\ Held \in Int
BY DEF LinkType, First, Free, Held

(* An empty ring satisfies LinkInv.                                        *)
LEMMA LinkInitially ==
  ASSUME LinkInit
  PROVE  LinkInv
BY DEF LinkInit, LinkInv, LinkType, LinkFields, Index, SendInv, NextInv, QueueInv, First, Free, Held, At

(* SendStart keeps LinkInv.                                                *)
LEMMA LinkSendStart ==
  ASSUME LinkInv, SendStart
  PROVE  LinkInv'
<1>1. LinkType'
  <2>1. /\ DOMAIN cl' = DOMAIN cl /\ cl'.head = cl.head /\ cl'.tail = cl.tail /\ cl'.occupied = cl.occupied
        /\ cl'.slots = cl.slots /\ cl'.send = "occupied" /\ cl'.sendTail = cl.tail /\ cl'.sendOccupied = cl.sendOccupied
        /\ cl'.next = cl.next /\ cl'.nextHead = cl.nextHead /\ cl'.nextOccupied = cl.nextOccupied /\ cl'.value = cl.value
        /\ cl'.sent = cl.sent /\ cl'.got = cl.got /\ cl'.offered = cl.offered + 1 /\ cl'.refusedEarly = cl.refusedEarly
    BY Zenon DEF LinkInv, SendStart, LinkType, LinkFields
  <2>2. LinkType BY Zenon DEF LinkInv
  <2>3. cl.offered + 1 \in Nat BY <2>2 DEF LinkType
  <2> QED BY <2>1, <2>2, <2>3, Zenon DEF LinkType
<1>2. ASSUME cl'.overlapped = "no" PROVE SendInv' /\ NextInv'
  BY <1>1, <1>2, Zenon DEF LinkInv, SendStart, Overlap, LinkType, LinkFields, Index, SendInv, NextInv, QueueInv, First, Free, Held, At, Advance
<1>3. ASSUME cl'.overlapped = "no" PROVE QueueInv'
  BY <1>1, <1>3 DEF LinkInv, SendStart, Overlap, LinkType, LinkFields, Index, SendInv, NextInv, QueueInv, First, Free, Held, At, Advance
<1> QED BY <1>1, <1>2, <1>3, Zenon DEF LinkInv

(* SendOccupied keeps LinkInv.                                             *)
LEMMA LinkSendOccupied ==
  ASSUME LinkInv, SendOccupied
  PROVE  LinkInv'
<1>1. LinkType' BY Zenon DEF LinkInv, SendOccupied, Refused, LinkType, LinkFields, Index
<1>2. ASSUME cl'.overlapped = "no" PROVE SendInv' /\ NextInv'
  BY <1>1, <1>2 DEF LinkInv, SendOccupied, Refused, LinkType, LinkFields, Index, SendInv, NextInv, QueueInv, First, Free, Held, At, Advance
<1>3. ASSUME cl'.overlapped = "no" PROVE QueueInv'
  BY <1>1, <1>3 DEF LinkInv, SendOccupied, Refused, LinkType, LinkFields, Index, SendInv, NextInv, QueueInv, First, Free, Held, At, Advance
<1> QED BY <1>1, <1>2, <1>3, Zenon DEF LinkInv

(* SendSlot keeps LinkInv.                                                 *)
LEMMA LinkSendSlot ==
  ASSUME LinkInv, SendSlot
  PROVE  LinkInv'
<1>1. LinkType' BY Zenon DEF LinkInv, SendSlot, LinkType, LinkFields, Index
<1>2. ASSUME cl'.overlapped = "no" PROVE SendInv' /\ NextInv'
  BY <1>1, <1>2, Zenon DEF LinkInv, SendSlot, LinkType, LinkFields, Index, SendInv, NextInv, QueueInv, First, Free, Held, At, Advance
<1>3. ASSUME cl'.overlapped = "no" PROVE QueueInv'
  <2>1. /\ cl'.slots = [cl.slots EXCEPT ![cl.sendTail] = cl.offered] /\ cl'.sent = cl.sent /\ cl'.got = cl.got
        /\ First' = First /\ Free' = Free /\ Held' = Held /\ cl'.occupied = cl.occupied /\ cl'.next = cl.next
        /\ cl'.refusedEarly = cl.refusedEarly
    BY <1>3, Zenon DEF SendSlot, LinkInv, LinkType, LinkFields, First, Free, Held
  <2>2. SendInv /\ QueueInv /\ LinkType /\ cl.send = "slot"
    BY <1>3, Zenon DEF LinkInv, LinkType, LinkFields, SendSlot
  <2>3. First \in Index /\ cl.sendTail = At(First, Held) /\ Held \in 0..(Capacity - 1)
    BY <2>2, DerivedTypes DEF SendInv, QueueInv
  <2>4. ASSUME NEW i \in 0..(Held - 1) PROVE cl'.slots[At(First, i)] = cl.slots[At(First, i)]
    BY <2>1, <2>2, <2>3, AtApart DEF LinkType
  <2> QED BY <2>1, <2>2, <2>4 DEF QueueInv
<1> QED BY <1>1, <1>2, <1>3, Zenon DEF LinkInv

(* SendTail keeps LinkInv.                                                 *)
LEMMA LinkSendTail ==
  ASSUME LinkInv, SendTail
  PROVE  LinkInv'
<1>1. LinkType' BY AdvanceInRing, Zenon DEF LinkInv, SendTail, LinkType, LinkFields
<1>2. ASSUME cl'.overlapped = "no" PROVE SendInv' /\ NextInv'
  BY <1>1, <1>2, Zenon DEF LinkInv, SendTail, Advance, LinkType, LinkFields, Index, SendInv, NextInv, QueueInv, First, Free, Held, At
<1>3. ASSUME cl'.overlapped = "no" PROVE QueueInv'
  BY <1>1, <1>3 DEF LinkInv, SendTail, Advance, LinkType, LinkFields, Index, SendInv, NextInv, QueueInv, First, Free, Held, At
<1> QED BY <1>1, <1>2, <1>3, Zenon DEF LinkInv

(* SendDone keeps LinkInv.                                                 *)
LEMMA LinkSendDone ==
  ASSUME LinkInv, SendDone
  PROVE  LinkInv'
<1>1. LinkType'
  <2>1. /\ DOMAIN cl' = DOMAIN cl /\ cl'.head = cl.head /\ cl'.tail = cl.tail /\ cl'.occupied = cl.sendOccupied + 1
        /\ cl'.slots = cl.slots /\ cl'.send = "idle" /\ cl'.sendTail = cl.sendTail /\ cl'.sendOccupied = cl.sendOccupied
        /\ cl'.next = cl.next /\ cl'.nextHead = cl.nextHead /\ cl'.nextOccupied = cl.nextOccupied /\ cl'.value = cl.value
        /\ cl'.sent = Append(cl.sent, cl.offered) /\ cl'.got = cl.got /\ cl'.offered = cl.offered
        /\ cl'.refusedEarly = cl.refusedEarly /\ cl'.overlapped = cl.overlapped
    BY Zenon DEF LinkInv, SendDone, LinkType, LinkFields
  <2>2. LinkType BY Zenon DEF LinkInv
  <2>3. cl.sendOccupied + 1 \in Nat BY <2>2 DEF LinkType
  <2>4. Append(cl.sent, cl.offered) \in Seq(Nat) BY <2>2 DEF LinkType
  <2> QED BY <2>1, <2>2, <2>3, <2>4, Zenon DEF LinkType
<1>2. ASSUME cl'.overlapped = "no" PROVE SendInv' /\ NextInv'
  BY <1>1, <1>2, Zenon DEF LinkInv, SendDone, Advance, LinkType, LinkFields, Index, SendInv, NextInv, QueueInv, First, Free, Held, At
<1>3. ASSUME cl'.overlapped = "no" PROVE QueueInv'
  <2>1. /\ cl'.slots = cl.slots /\ cl'.sent = Append(cl.sent, cl.offered) /\ cl'.got = cl.got /\ cl'.send = "idle"
        /\ cl'.occupied = cl.sendOccupied + 1 /\ cl'.next = cl.next /\ cl'.refusedEarly = cl.refusedEarly
        /\ First' = First /\ Free' = cl.tail
    BY <1>3, Zenon DEF SendDone, LinkInv, LinkType, LinkFields, First, Free
  <2>2. SendInv /\ QueueInv /\ LinkType /\ cl.send = "done"
    BY <1>3, Zenon DEF LinkInv, LinkType, LinkFields, SendDone
  <2>3. /\ First \in Index /\ cl.sendTail = At(First, Held) /\ Held \in 0..(Capacity - 1) /\ cl.slots[At(First, Held)] = cl.offered
        /\ cl.tail = Advance(At(First, Held)) /\ cl.sendOccupied = Held
    <3>1. cl.sendTail = Free /\ cl.tail = Advance(cl.sendTail) /\ cl.sendOccupied = Held /\ Held < Capacity
          /\ cl.slots[cl.sendTail] = cl.offered
      BY <2>2, Zenon DEF SendInv
    <3>2. Free = At(First, Held) /\ Held \in 0..Capacity BY <2>2, Zenon DEF QueueInv
    <3> QED BY <2>2, <3>1, <3>2, DerivedTypes
  <2>4. Held' = Held + 1 /\ Len(cl'.sent) = Len(cl.sent) + 1
    BY <2>1, <2>2 DEF Held, LinkType
  <2>5. Advance(At(First, Held)) = At(First, Held + 1)
    BY <2>3 DEF Advance, At, Index
  <2>6. ASSUME NEW i \in 0..Held PROVE cl.slots[At(First, i)] = cl'.sent[Len(cl.got) + 1 + i]
    <3>1. cl.sent \in Seq(Nat) /\ cl.offered \in Nat /\ Len(cl.got) \in Nat /\ Held = Len(cl.sent) - Len(cl.got)
      BY <2>2, DerivedTypes, Zenon DEF LinkType, Held
    <3>2. CASE i = Held
      <4>1. cl'.sent[Len(cl.sent) + 1] = cl.offered /\ Len(cl.sent) \in Nat BY <2>1, <3>1, AppendFacts
      <4>2. Len(cl.got) + 1 + Held = Len(cl.sent) + 1
        <5>1. \A a, b \in Nat : b + 1 + (a - b) = a + 1 OBVIOUS
        <5> QED BY <3>1, <4>1, <5>1, Zenon DEF Held
      <4> QED BY <2>3, <3>2, <4>1, <4>2, Zenon
    <3>3. CASE i # Held
      <4>1. cl.slots[At(First, i)] = cl.sent[Len(cl.got) + 1 + i]
        BY <2>2, <2>3, <3>3 DEF QueueInv
      <4>2. Len(cl.got) + 1 + i \in 1..Len(cl.sent)
        <5>1. Len(cl.sent) \in Nat BY <3>1
        <5>2. \A a, b \in Nat : \A h \in Int : \A j \in 0..h : h = a - b /\ j # h => b + 1 + j \in 1..a OBVIOUS
        <5>3. Held \in Int BY <2>3
        <5> QED BY <3>1, <3>3, <5>1, <5>2, <5>3, Zenon
      <4> QED BY <2>1, <3>1, <4>1, <4>2, AppendFacts
    <3> QED BY <3>2, <3>3, Zenon
  <2>7. \A i \in 1..Len(cl.got) : cl.got[i] = cl'.sent[i]
    <3>1. cl.sent \in Seq(Nat) /\ cl.offered \in Nat /\ Len(cl.got) <= Len(cl.sent) /\ Len(cl.got) \in Nat
      BY <2>2, DerivedTypes DEF LinkType, QueueInv, Held
    <3> QED BY <2>1, <2>2, <3>1, AppendFacts DEF QueueInv
  <2>8. \A i \in 0..(Held' - 1) : cl'.slots[At(First', i)] = cl'.sent[Len(cl'.got) + 1 + i]
    <3> SUFFICES ASSUME NEW i \in 0..(Held' - 1) PROVE cl'.slots[At(First', i)] = cl'.sent[Len(cl'.got) + 1 + i] BY Zenon
    <3>1. i \in 0..Held BY <2>3, <2>4
    <3> QED BY <2>1, <2>6, <3>1, Zenon
  <2>9. Free' = At(First', Held') /\ cl'.occupied = Held' /\ Held' \in 0..Capacity
    BY <2>1, <2>3, <2>4, <2>5
  <2> QED BY <2>1, <2>2, <2>7, <2>8, <2>9, Zenon DEF QueueInv
<1> QED BY <1>1, <1>2, <1>3, Zenon DEF LinkInv

(* NextStart keeps LinkInv.                                                *)
LEMMA LinkNextStart ==
  ASSUME LinkInv, NextStart
  PROVE  LinkInv'
<1>1. LinkType'
  <2>1. CASE cl.occupied = 0
    <3>1. /\ DOMAIN cl' = DOMAIN cl /\ cl'.head = cl.head /\ cl'.tail = cl.tail /\ cl'.occupied = cl.occupied
        /\ cl'.slots = cl.slots /\ cl'.send = cl.send /\ cl'.sendTail = cl.sendTail /\ cl'.sendOccupied = cl.sendOccupied
        /\ cl'.next = cl.next /\ cl'.nextHead = cl.nextHead /\ cl'.nextOccupied = cl.nextOccupied /\ cl'.value = cl.value
        /\ cl'.sent = cl.sent /\ cl'.got = cl.got /\ cl'.offered = cl.offered /\ cl'.refusedEarly = cl.refusedEarly
      BY <2>1, Zenon DEF LinkInv, NextStart, LinkType, LinkFields
    <3>2. LinkType BY Zenon DEF LinkInv
    <3> QED BY <3>1, <3>2, Zenon DEF LinkType
  <2>2. CASE cl.occupied # 0
    <3>1. /\ DOMAIN cl' = DOMAIN cl /\ cl'.head = cl.head /\ cl'.tail = cl.tail /\ cl'.occupied = cl.occupied
        /\ cl'.slots = cl.slots /\ cl'.send = cl.send /\ cl'.sendTail = cl.sendTail /\ cl'.sendOccupied = cl.sendOccupied
        /\ cl'.next = "slot" /\ cl'.nextHead = cl.nextHead /\ cl'.nextOccupied = cl.occupied /\ cl'.value = cl.value
        /\ cl'.sent = cl.sent /\ cl'.got = cl.got /\ cl'.offered = cl.offered /\ cl'.refusedEarly = cl.refusedEarly
      BY <2>2, Zenon DEF LinkInv, NextStart, LinkType, LinkFields
    <3>2. LinkType BY Zenon DEF LinkInv
    <3>3. cl.occupied > 0 BY <2>2, <3>2 DEF LinkType
    <3> QED BY <3>1, <3>2, <3>3, Zenon DEF LinkType
  <2> QED BY <2>1, <2>2, Zenon
<1>2. ASSUME cl'.overlapped = "no" PROVE SendInv' /\ NextInv'
  <2>1. cl.overlapped = "no" /\ cl.send = "idle" /\ cl'.send = "idle" /\ cl.next = "idle" /\ cl'.sent = cl.sent /\ cl'.got = cl.got
    BY <1>2, Zenon DEF NextStart, Overlap, LinkInv, LinkType, LinkFields
  <2>2. SendInv' BY <2>1, Zenon DEF SendInv
  <2>3. CASE cl.occupied = 0
    BY <2>1, <2>2, <2>3, Zenon DEF NextStart, LinkInv, LinkType, LinkFields, NextInv
  <2>4. CASE cl.occupied # 0
    <3>1. cl'.next = "slot" /\ cl'.nextOccupied = cl.occupied
      BY <2>4, Zenon DEF NextStart, LinkInv, LinkType, LinkFields
    <3>2. cl.occupied = Held /\ Held >= 1 /\ Held' = Held
      <4>1. QueueInv BY <2>1, Zenon DEF LinkInv
      <4>2. Held' = Held BY <2>1, Zenon DEF Held
      <4> QED BY <2>4, <4>1, <4>2 DEF QueueInv
    <3> QED BY <2>2, <3>1, <3>2, Zenon DEF NextInv
  <2> QED BY <2>3, <2>4, Zenon
<1>3. ASSUME cl'.overlapped = "no" PROVE QueueInv'
  <2>1. /\ cl.overlapped = "no" /\ cl.send = "idle" /\ cl'.send = "idle" /\ cl.next = "idle" /\ cl'.next \in {"idle", "slot"}
        /\ cl'.sent = cl.sent /\ cl'.got = cl.got /\ cl'.head = cl.head /\ cl'.tail = cl.tail /\ cl'.slots = cl.slots
        /\ cl'.occupied = cl.occupied /\ cl'.refusedEarly = cl.refusedEarly
    BY <1>3, Zenon DEF NextStart, Overlap, LinkInv, LinkType, LinkFields
  <2>2. First' = First /\ Free' = Free /\ Held' = Held BY <2>1, Zenon DEF First, Free, Held
  <2>3. QueueInv BY <2>1, Zenon DEF LinkInv
  <2> QED BY <2>1, <2>2, <2>3, Zenon DEF QueueInv
<1> QED BY <1>1, <1>2, <1>3, Zenon DEF LinkInv

(* NextSlot keeps LinkInv.                                                 *)
LEMMA LinkNextSlot ==
  ASSUME LinkInv, NextSlot
  PROVE  LinkInv'
<1>1. LinkType' BY Zenon DEF LinkInv, NextSlot, LinkType, LinkFields, Index
<1>2. ASSUME cl'.overlapped = "no" PROVE SendInv' /\ NextInv'
  <2>1. /\ cl'.sent = cl.sent /\ cl'.got = cl.got /\ cl'.next = "advance" /\ cl'.nextHead = cl.head /\ cl'.head = cl.head
        /\ cl'.nextOccupied = cl.nextOccupied /\ cl'.value = cl.slots[cl.head] /\ cl'.send = cl.send /\ Held' = Held
    BY Zenon DEF NextSlot, LinkInv, LinkType, LinkFields, Held
  <2>2. cl.send = "idle" /\ QueueInv /\ NextInv /\ LinkType /\ cl.next = "slot"
    BY <1>2, Zenon DEF NextSlot, LinkInv, LinkType, LinkFields, QueueInv
  <2>3. Held >= 1 /\ Held \in Nat /\ First = cl.head /\ At(First, 0) = cl.head
    BY <2>2 DEF NextInv, QueueInv, LinkType, First, At, Index
  <2>4. cl.slots[cl.head] = cl.sent[Len(cl.got) + 1]
    <3>1. cl.slots[At(First, 0)] = cl.sent[Len(cl.got) + 1 + 0] BY <2>2, <2>3 DEF QueueInv
    <3>2. Len(cl.got) + 1 + 0 = Len(cl.got) + 1 BY <2>2, DerivedTypes
    <3> QED BY <2>3, <3>1, <3>2, Zenon
  <2> QED BY <2>1, <2>2, <2>3, <2>4, Zenon DEF SendInv, NextInv
<1>3. ASSUME cl'.overlapped = "no" PROVE QueueInv'
  BY <1>1, <1>3 DEF LinkInv, NextSlot, LinkType, LinkFields, Index, SendInv, NextInv, QueueInv, First, Free, Held, At, Advance
<1> QED BY <1>1, <1>2, <1>3, Zenon DEF LinkInv

(* NextHead keeps LinkInv.                                                 *)
LEMMA LinkNextHead ==
  ASSUME LinkInv, NextHead
  PROVE  LinkInv'
<1>1. LinkType' BY AdvanceInRing, Zenon DEF LinkInv, NextHead, LinkType, LinkFields
<1>2. ASSUME cl'.overlapped = "no" PROVE SendInv' /\ NextInv'
  BY <1>1, <1>2, Zenon DEF LinkInv, NextHead, Advance, LinkType, LinkFields, Index, SendInv, NextInv, QueueInv, First, Free, Held, At
<1>3. ASSUME cl'.overlapped = "no" PROVE QueueInv'
  BY <1>1, <1>3 DEF LinkInv, NextHead, Advance, LinkType, LinkFields, Index, SendInv, NextInv, QueueInv, First, Free, Held, At
<1> QED BY <1>1, <1>2, <1>3, Zenon DEF LinkInv

(* NextDone keeps LinkInv.                                                 *)
LEMMA LinkNextDone ==
  ASSUME LinkInv, NextDone
  PROVE  LinkInv'
<1>1. LinkType'
  <2>1. /\ DOMAIN cl' = DOMAIN cl /\ cl'.head = cl.head /\ cl'.tail = cl.tail /\ cl'.sendTail = cl.sendTail /\ cl'.nextHead = cl.nextHead
        /\ cl'.occupied = cl.nextOccupied - 1 /\ cl'.sendOccupied = cl.sendOccupied /\ cl'.nextOccupied = cl.nextOccupied
        /\ cl'.offered = cl.offered /\ cl'.value = cl.value /\ cl'.next = "idle"
        /\ cl'.slots = cl.slots /\ cl'.sent = cl.sent /\ cl'.got = Append(cl.got, cl.value)
    BY Zenon DEF LinkInv, NextDone, LinkType, LinkFields
  <2>2. LinkType /\ cl.next # "idle" BY Zenon DEF LinkInv, NextDone
  <2>3. cl.nextOccupied - 1 \in Nat BY <2>2 DEF LinkType
  <2>4. Append(cl.got, cl.value) \in Seq(Nat) BY <2>2 DEF LinkType
  <2> QED BY <2>1, <2>2, <2>3, <2>4, Zenon DEF LinkType
<1>2. ASSUME cl'.overlapped = "no" PROVE SendInv' /\ NextInv'
  BY <1>1, <1>2, Zenon DEF LinkInv, NextDone, Advance, LinkType, LinkFields, Index, SendInv, NextInv, QueueInv, First, Free, Held, At
<1>3. ASSUME cl'.overlapped = "no" PROVE QueueInv'
  <2>1. /\ cl'.slots = cl.slots /\ cl'.got = Append(cl.got, cl.value) /\ cl'.sent = cl.sent /\ cl'.next = "idle"
        /\ cl'.occupied = cl.nextOccupied - 1 /\ cl'.send = cl.send /\ cl'.refusedEarly = cl.refusedEarly
        /\ First' = cl.head /\ Free' = Free
    BY <1>3, Zenon DEF NextDone, LinkInv, LinkType, LinkFields, First, Free
  <2>2. NextInv /\ QueueInv /\ LinkType /\ cl.next = "done"
    BY <1>3, Zenon DEF LinkInv, LinkType, LinkFields, NextDone
  <2>3. /\ First = cl.nextHead /\ First \in Index /\ Held \in 1..Capacity /\ cl.value = cl.sent[Len(cl.got) + 1]
        /\ cl.head = Advance(First) /\ cl.nextOccupied = Held /\ Free = At(First, Held)
    BY <2>2 DEF NextInv, QueueInv, LinkType, First
  <2>4. Held' = Held - 1 /\ Len(cl'.got) = Len(cl.got) + 1
    <3>1. cl.got \in Seq(Nat) /\ cl.value \in Nat /\ Len(cl.sent) \in Nat BY <2>2, DerivedTypes, Zenon DEF LinkType
    <3>2. Len(cl'.got) = Len(cl.got) + 1 /\ Len(cl.got) \in Nat BY <2>1, <3>1, AppendFacts
    <3> QED BY <2>1, <3>1, <3>2 DEF Held
  <2>5. \A i \in 0..(Capacity - 1) : At(cl.head, i) = At(First, i + 1)
    BY <2>3, AtShift, Zenon
  <2>6. \A i \in 0..(Held - 2) : cl.slots[At(First, i + 1)] = cl.sent[Len(cl.got) + 1 + (i + 1)]
    <3> SUFFICES ASSUME NEW i \in 0..(Held - 2) PROVE cl.slots[At(First, i + 1)] = cl.sent[Len(cl.got) + 1 + (i + 1)] BY Zenon
    <3>1. i + 1 \in 0..(Held - 1) BY <2>3
    <3> QED BY <2>2, <3>1, Zenon DEF QueueInv
  <2>7. \A i \in 1..Len(cl'.got) : cl'.got[i] = cl.sent[i]
    <3>1. cl.got \in Seq(Nat) /\ cl.value \in Nat BY <2>2, Zenon DEF LinkType
    <3> QED BY <2>1, <2>2, <2>3, <3>1, AppendFacts DEF QueueInv
  <2>8. \A i \in 0..(Held' - 1) : cl'.slots[At(First', i)] = cl'.sent[Len(cl'.got) + 1 + i]
    <3> SUFFICES ASSUME NEW i \in 0..(Held' - 1) PROVE cl'.slots[At(First', i)] = cl'.sent[Len(cl'.got) + 1 + i] BY Zenon
    <3>1. i \in 0..(Held - 2) /\ i \in 0..(Capacity - 1) BY <2>3, <2>4
    <3>2. Len(cl'.got) + 1 + i = Len(cl.got) + 1 + (i + 1)
      <4>1. Len(cl.got) \in Nat BY <2>2, DerivedTypes, Zenon
      <4>2. i \in Int BY <3>1
      <4>3. \A a \in Nat, b \in Int : a + 1 + 1 + b = a + 1 + (b + 1) OBVIOUS
      <4> QED BY <2>4, <4>1, <4>2, <4>3, Zenon
    <3> QED BY <2>1, <2>5, <2>6, <3>1, <3>2, Zenon
  <2>9. Free' = At(First', Held') /\ cl'.occupied = Held' /\ Held' \in 0..Capacity
    BY <2>1, <2>3, <2>4, <2>5
  <2> QED BY <2>1, <2>2, <2>7, <2>8, <2>9, Zenon DEF QueueInv
<1> QED BY <1>1, <1>2, <1>3, Zenon DEF LinkInv

(* Calls that do not overlap find a bounded queue, whatever its capacity:  *)
(* try_send and try_next deliver every accepted value once and in order.   *)
THEOREM LinkIsAQueue ==
  LinkSpec => []LinkInOrder
<1>1. LinkInit => LinkInv BY LinkInitially, Zenon
<1>2. LinkInv /\ [LinkNext]_cl => LinkInv'
  <2> SUFFICES ASSUME LinkInv, [LinkNext]_cl PROVE LinkInv' BY Zenon
  <2>1. CASE UNCHANGED cl
    BY <2>1, Zenon DEF LinkInv, LinkType, SendInv, NextInv, QueueInv, First, Free, Held
  <2>2. CASE LinkNext
    BY <2>2, LinkSendStart, LinkSendOccupied, LinkSendSlot, LinkSendTail, LinkSendDone,
       LinkNextStart, LinkNextSlot, LinkNextHead, LinkNextDone, Zenon DEF LinkNext
  <2> QED BY <2>1, <2>2, Zenon
<1>3. LinkInv => LinkInOrder
  <2> SUFFICES ASSUME LinkInv, cl.overlapped = "no"
              PROVE  /\ Len(cl.got) <= Len(cl.sent) /\ \A i \in 1..Len(cl.got) : cl.got[i] = cl.sent[i]
                     /\ cl.occupied = Len(cl.sent) - Len(cl.got) /\ cl.refusedEarly = "no"
    BY Zenon DEF LinkInOrder
  <2>1. LinkType /\ QueueInv BY Zenon DEF LinkInv
  <2>2. Len(cl.sent) - Len(cl.got) \in 0..Capacity /\ cl.occupied = Len(cl.sent) - Len(cl.got)
    BY <2>1, Zenon DEF QueueInv, Held
  <2> QED BY <2>1, <2>2, DerivedTypes DEF QueueInv
<1> QED BY <1>1, <1>2, <1>3, PTL DEF LinkSpec

HIDE CoreLinkAssumption
=============================================================================
