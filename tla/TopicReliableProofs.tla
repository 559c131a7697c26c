------------------------ MODULE TopicReliableProofs -------------------------
(***************************************************************************)
(* A reliable topic delivers every message once, in order and intact, and  *)
(* implements the bounded broadcast queue, for any number of subscribers,  *)
(* any depth and any store buffer capacity; in memory without store        *)
(* buffers its producer never halts for an advance that has already        *)
(* happened.                                                               *)
(***************************************************************************)
EXTENDS TopicProofs

(* What is in flight, as a load, a store and a flush see it.                  *)
LEMMA PendingLoad ==
  ASSUME MemoryOK, NEW c \in Cpu, NEW l \in DataLoc
  PROVE  \/ Load(c, l) = mem[l] /\ \A e \in Pending(c) : e.loc # l
         \/ \E e \in Pending(c) : e.loc = l /\ Load(c, l) = e.val
<1>1. l \in Loc
  BY Zenon DEF DataLoc
<1>2. CASE Own(c, l) = {} /\ Load(c, l) = mem[l]
  BY <1>2, Zenon DEF Own, Pending
<1>3. CASE \E i \in 1 .. Len(sb[c]) : sb[c][i].loc = l /\ Load(c, l) = sb[c][i].val
  BY <1>3, Zenon DEF Pending
<1> QED BY <1>1, <1>2, <1>3, LoadSource, Zenon

(* What the loads of the producer and of a subscriber return.                 *)
LEMMA ProducerView ==
  ASSUME TypeOK, DataInv
  PROVE  /\ Load(Producer, TopicHead) = Published
         /\ \A t \in Subscriber : Load(Producer, Cursor(t)) = mem[Cursor(t)]
<1>1. MemoryOK /\ Producer \in Cpu
  BY Cpus, Zenon DEF TypeOK
<1>2. Load(Producer, TopicHead) = Published
  <2>1. CASE Load(Producer, TopicHead) = mem[TopicHead] /\ \A e \in Pending(Producer) : e.loc # TopicHead
    BY <2>1, Zenon DEF DataInv, CursorOrder, Stored
  <2>2. CASE \E e \in Pending(Producer) : e.loc = TopicHead /\ Load(Producer, TopicHead) = e.val
    BY <2>2, Distinct, Zenon DEF DataInv, ProducerBuffer
  <2> QED BY <1>1, <2>1, <2>2, PendingLoad, DataLocations
<1>3. ASSUME NEW t \in Subscriber PROVE Load(Producer, Cursor(t)) = mem[Cursor(t)]
  <2>1. \A e \in Pending(Producer) : e.loc # Cursor(t)
    BY Distinct, Zenon DEF DataInv, ProducerBuffer
  <2> QED BY <1>1, <2>1, PendingLoad, DataLocations
<1> QED BY <1>2, <1>3, Zenon

LEMMA SubscriberView ==
  ASSUME TypeOK, DataInv, NEW s \in Subscriber
  PROVE  /\ Load(s, TopicHead) = mem[TopicHead]
         /\ Load(s, Cursor(s)) = Received(s)
         /\ \A n \in Int : /\ Load(s, SlotSeq(n % Depth)) = mem[SlotSeq(n % Depth)]
                           /\ Load(s, SlotValue(n % Depth)) = mem[SlotValue(n % Depth)]
<1>1. MemoryOK /\ s \in Cpu
  BY Cpus, Zenon DEF TypeOK
<1>2. \A e \in Pending(s) : e.loc = Cursor(s) /\ e.val = Received(s)
  BY Zenon DEF DataInv, SubscriberBuffer
<1>3. Load(s, TopicHead) = mem[TopicHead]
  BY <1>1, <1>2, PendingLoad, DataLocations, Distinct
<1>4. Load(s, Cursor(s)) = Received(s)
  <2>1. mem[Cursor(s)] = Received(s) \/ \E e \in Pending(s) : e.loc = Cursor(s)
    BY Zenon DEF DataInv, CursorOrder, Stored
  <2> QED BY <1>1, <1>2, <2>1, PendingLoad, DataLocations
<1>5. ASSUME NEW n \in Int
      PROVE  /\ Load(s, SlotSeq(n % Depth)) = mem[SlotSeq(n % Depth)]
             /\ Load(s, SlotValue(n % Depth)) = mem[SlotValue(n % Depth)]
  <2>1. SlotSeq(n % Depth) \in DataLoc /\ SlotValue(n % Depth) \in DataLoc
    BY DataLocations, Zenon
  <2>2. \A e \in Pending(s) : e.loc # SlotSeq(n % Depth) /\ e.loc # SlotValue(n % Depth)
    BY <1>2, Distinct, Zenon
  <2> QED BY <1>1, <2>1, <2>2, PendingLoad
<1> QED BY <1>3, <1>4, <1>5, Zenon

-----------------------------------------------------------------------------
LEMMA ScanStep ==
  ASSUME TypeOK, DataInv, MinCompare \/ MinReload
  PROVE  DataInv'
<1> DEFINE c == Load(Producer, Cursor(preg.ix))
           r == [preg EXCEPT !.min = c]
<1>1. /\ Published \in Nat /\ Depth \in Nat /\ preg.ix \in Subscriber /\ preg.ix \in Int
      /\ preg.min \in Int /\ preg \in ProducerRegisters /\ DOMAIN pc = Cpu
      /\ \A t \in Subscriber : t \in Int /\ mem[Cursor(t)] \in Int
  BY Numbers, DataLocations, Cpus, Zenon DEF TypeOK
<1>2. c = mem[Cursor(preg.ix)]
  BY <1>1, ProducerView, Zenon
<1>3. c \in Int /\ c >= Published - Depth
  BY <1>1, <1>2 DEF DataInv, CursorOrder
<1>4. r \in ProducerRegisters
  BY <1>1, <1>3, SetMin, Zenon
<1>5. r.seq = preg.seq /\ r.min = c /\ r.ix = preg.ix /\ r.call = preg.call /\ r.val = preg.val
  BY <1>1, Zenon DEF ProducerRegisters
<1>6. UNCHANGED <<mem, sb, sreg, log, recv>> /\ pc[Producer] \in {"min", "reload"}
  BY Zenon DEF MinCompare, MinReload
<1>7. Quiet
  BY <1>6, Zenon DEF Quiet, Pending
<1>8. preg.seq = Published /\ (preg.call = "publish" => preg.val \in Values)
  BY <1>6, Zenon DEF DataInv, RegisterInv
<1>9. \A t \in Subscriber :
        t < preg.ix /\ mem[Cursor(t)] = Published - Depth => preg.min = Published - Depth
  BY <1>6, Zenon DEF DataInv, ScanInv
<1> HIDE DEF c, r
<1>10. CASE MinCompare /\ preg.ix = 1 /\ MinDone(r)
  <2>1. \A t \in Subscriber : t <= preg.ix => t = preg.ix
    BY <1>10 DEF Subscriber
  <2>2. ScannedTo(r)
    BY <1>1, <1>2, <1>3, <1>5, <1>8, <2>1, SMTT(20) DEF ScannedTo
  <2> QED BY <1>4, <1>6, <1>7, <1>10, <2>2, MinDoneSafe, ProducerMove, SMTT(20)
<1>11. CASE MinCompare /\ preg.ix > 1 /\ preg.min <= c /\ MinDone(preg)
  <2>1. preg.min >= Published - Depth
    BY <1>6, <1>11 DEF DataInv, ScanInv
  <2>2. \A t \in Subscriber : t <= preg.ix => t < preg.ix \/ t = preg.ix
    BY <1>1
  <2>3. ScannedTo(preg)
    BY <1>1, <1>2, <1>3, <1>8, <1>9, <1>11, <2>1, <2>2, SMTT(20) DEF ScannedTo
  <2> QED BY <1>1, <1>6, <1>7, <1>11, <2>3, MinDoneSafe, ProducerMove, SMTT(20)
<1>12. CASE MinCompare /\ preg.ix > 1 /\ preg.min > c /\ Goto(Producer, "reload") /\ UNCHANGED preg
  <2>1. preg.min > Published - Depth
    BY <1>1, <1>3, <1>12
  <2>2. Published' = Published
    BY <1>6, Zenon DEF Published
  <2>3. pc'[Producer] = "reload" /\ \A s \in Subscriber : pc'[s] = pc[s]
    BY <1>1, <1>12, ProducerGoto, Zenon
  <2>4. ScanInv'
    BY <1>1, <1>6, <1>9, <1>12, <2>1, <2>2, <2>3, SMTT(20) DEF ScanInv
  <2>5. RegisterInv'
    BY <1>8, <1>12, <2>2, <2>3, Zenon DEF RegisterInv
  <2> QED BY <1>6, <1>7, <2>3, <2>4, <2>5, ProducerMove, SMTT(20)
<1>13. CASE MinReload
  <2>1. MinDone(r)
    BY <1>13, Zenon DEF MinReload, c, r
  <2>2. preg.ix > 1 /\ preg.min > Published - Depth
    BY <1>13 DEF MinReload, DataInv, ScanInv
  <2>3. \A t \in Subscriber : t <= preg.ix => t < preg.ix \/ t = preg.ix
    BY <1>1
  <2>4. ScannedTo(r)
    BY <1>1, <1>2, <1>3, <1>5, <1>8, <1>9, <2>2, <2>3, SMTT(20) DEF ScannedTo
  <2> QED BY <1>4, <1>6, <1>7, <2>1, <2>4, MinDoneSafe, ProducerMove, SMTT(20)
<1>14. MinCompare => \/ preg.ix = 1 /\ MinDone(r)
                     \/ preg.ix > 1 /\ preg.min <= c /\ MinDone(preg)
                     \/ preg.ix > 1 /\ preg.min > c /\ Goto(Producer, "reload") /\ UNCHANGED preg
  BY Zenon DEF MinCompare, c, r
<1> QED BY <1>10, <1>11, <1>12, <1>13, <1>14, SMTT(20)

(* Steps of the producer that neither scan nor fill a slot.                   *)
LEMMA ProducerQuietStep ==
  ASSUME TypeOK, DataInv, Reliable,
         \/ PublishLoadHead \/ PublishDisarm \/ TouchLoad \/ TouchStore \/ WakeSubscriber
         \/ RetryPublish \/ WaitForAdvance \/ ArmProducer
  PROVE  DataInv'
<1>1. /\ MemoryOK /\ DOMAIN pc = Cpu /\ Producer \in Cpu /\ preg \in ProducerRegisters
      /\ preg.ix \in Subscriber /\ preg.min \in Int /\ preg.seq \in Int
  BY Cpus, Numbers, Zenon DEF TypeOK
<1>2. UNCHANGED <<mem, sb>> => Quiet
  BY Zenon DEF Quiet, Pending
<1>3. UNCHANGED log => Published' = Published
  BY Zenon DEF Published
<1>4. CASE PublishLoadHead
  <2>1. PICK v \in Values : preg' = [preg EXCEPT !.seq = Load(Producer, TopicHead), !.val = v]
    BY <1>4, Zenon DEF PublishLoadHead
  <2>2. preg'.seq = Published /\ preg'.val = v /\ preg'.ix = preg.ix
    BY <1>1, <2>1, ProducerView, Zenon DEF ProducerRegisters
  <2>3. preg.ix = 1
    BY <1>4, ZenonT(30) DEF PublishLoadHead, DataInv, RegisterInv
  <2>4. pc'[Producer] = "min" /\ \A s \in Subscriber : pc'[s] = pc[s]
    BY <1>1, <1>4, ProducerGoto, ZenonT(30) DEF PublishLoadHead
  <2>5. UNCHANGED <<mem, sb, sreg, log, recv>> /\ pc[Producer] = "idle"
    BY <1>4, Zenon DEF PublishLoadHead
  <2>6. \A t \in Subscriber : ~(t < 1)
    BY DEF Subscriber
  <2>7. ScanInv'
    BY <2>2, <2>3, <2>4, <2>6, SMTT(20) DEF ScanInv
  <2>8. RegisterInv'
    BY <1>3, <2>2, <2>4, <2>5 DEF RegisterInv
  <2> QED BY <1>2, <2>4, <2>5, <2>7, <2>8, ProducerMove, SMTT(20)
<1>5. CASE PublishDisarm \/ TouchLoad \/ TouchStore \/ WakeSubscriber
  <2>1. UNCHANGED <<sreg, log, recv>> /\ pc[Producer] \in {"disarm", "touch", "store", "ipi"}
    BY <1>5, Zenon DEF PublishDisarm, TouchLoad, TouchStore, WakeSubscriber
  <2>2. Quiet
    <3>1. CASE TouchLoad \/ WakeSubscriber
      BY <1>2, <3>1, Zenon DEF TouchLoad, WakeSubscriber
    <3>2. CASE PublishDisarm
      BY <1>1, <3>2, StoreQuiet, DataLocations DEF PublishDisarm, Disarmed
    <3>3. CASE TouchStore
      <4>1. TouchedLine \in Loc \ DataLoc
        BY <1>1, DataLocations, Zenon DEF TouchedLine
      <4> QED BY <1>1, <3>3, <4>1, StoreQuiet, Zenon DEF TouchStore
    <3> QED BY <1>5, <3>1, <3>2, <3>3
  <2>3. /\ pc'[Producer] \in {"touch", "store", "ipi", "idle"}
        /\ \A s \in Subscriber : pc'[s] = pc[s]
    BY <1>1, <1>5, ProducerGoto, Zenon DEF PublishDisarm, TouchLoad, TouchStore, WakeSubscriber, TouchDone
  <2>4. pc'[Producer] = "idle" => preg'.ix = 1
    <3> SUFFICES ASSUME pc'[Producer] = "idle" PROVE preg'.ix = 1
      OBVIOUS
    <3>1. PICK r : TouchDone(r)
      BY <1>1, <1>5, ProducerGoto DEF PublishDisarm, TouchLoad, TouchStore, WakeSubscriber
    <3>2. preg' = DeadProducer
      BY <1>1, <3>1, ProducerGoto DEF TouchDone
    <3> QED BY <3>2, Zenon DEF DeadProducer
  <2>5. ScanInv' /\ RegisterInv'
    BY <2>3, <2>4, Zenon DEF ScanInv, RegisterInv
  <2> QED BY <2>1, <2>2, <2>3, <2>5, ProducerMove, SMTT(20)
<1>6. CASE RetryPublish
  <2>1. /\ UNCHANGED <<mem, sb, preg, sreg, log, recv>> /\ pc[Producer] = "full"
        /\ pc'[Producer] = "idle" /\ \A s \in Subscriber : pc'[s] = pc[s]
    BY <1>1, <1>6, ProducerGoto, Zenon DEF RetryPublish
  <2>2. ScanInv' /\ RegisterInv'
    BY <2>1, Zenon DEF ScanInv, RegisterInv, DataInv
  <2> QED BY <1>2, <2>1, <2>2, ProducerMove, Zenon
<1>7. CASE WaitForAdvance
  <2>1. /\ UNCHANGED <<mem, sb, sreg, log, recv>> /\ pc[Producer] = "full"
        /\ preg' = [preg EXCEPT !.seq = Load(Producer, TopicHead), !.call = "wait"]
        /\ pc'[Producer] = "min" /\ \A s \in Subscriber : pc'[s] = pc[s]
    BY <1>1, <1>7, ProducerGoto, Zenon DEF WaitForAdvance
  <2>2. preg'.seq = Published /\ preg'.ix = preg.ix /\ preg'.call = "wait"
    BY <1>1, <2>1, ProducerView, Zenon DEF ProducerRegisters
  <2>3. preg.ix = 1
    BY <2>1, Zenon DEF DataInv, RegisterInv
  <2>4. \A t \in Subscriber : ~(t < 1)
    BY DEF Subscriber
  <2>5. ScanInv'
    BY <2>1, <2>2, <2>3, <2>4 DEF ScanInv
  <2>6. RegisterInv'
    BY <1>3, <2>1, <2>2, Zenon DEF RegisterInv
  <2> QED BY <1>2, <2>1, <2>5, <2>6, ProducerMove, Zenon
<1>8. CASE ArmProducer
  <2>1. /\ UNCHANGED <<sreg, log, recv>> /\ pc[Producer] = "arm"
        /\ preg' = [preg EXCEPT !.min = 0, !.call = "armed"]
        /\ pc'[Producer] = "min" /\ \A s \in Subscriber : pc'[s] = pc[s]
    BY <1>1, <1>8, ProducerGoto, Zenon DEF ArmProducer
  <2>2. Quiet
    BY <1>1, <1>8, StoreQuiet, DataLocations, Zenon DEF ArmProducer
  <2>3. preg'.seq = preg.seq /\ preg'.ix = preg.ix /\ preg'.call = "armed"
    BY <1>1, <2>1, Zenon DEF ProducerRegisters
  <2>4. preg.ix = 1 /\ preg.seq = Published
    BY <2>1, Zenon DEF DataInv, RegisterInv
  <2>5. \A t \in Subscriber : ~(t < 1)
    BY DEF Subscriber
  <2>6. ScanInv'
    BY <2>1, <2>3, <2>4, <2>5 DEF ScanInv
  <2>7. RegisterInv'
    BY <1>3, <2>1, <2>3, <2>4, Zenon DEF RegisterInv
  <2> QED BY <2>1, <2>2, <2>6, <2>7, ProducerMove, Zenon
<1> QED BY <1>4, <1>5, <1>6, <1>7, <1>8, SMTT(20)

-----------------------------------------------------------------------------
(* Steps of a subscriber other than the delivery.                             *)
IdleLabel == {"next", "disarm", "pwait", "pstore", "pipi", "arm", "armstore", "wait", "hlt"}

(* A step that ends between two operations carries no register obligation.    *)
LEMMA SubscriberToIdle ==
  ASSUME TypeOK, DataInv, Quiet, UNCHANGED <<preg, log, recv>>,
         NEW s \in Subscriber, NEW label \in IdleLabel, Goto(s, label),
         \A t \in Subscriber : t # s => sreg'[t] = sreg[t]
  PROVE  DataInv'
<1>1. /\ pc'[s] = label /\ pc'[Producer] = pc[Producer]
      /\ \A t \in Subscriber : t # s => pc'[t] = pc[t]
  BY SubscriberGoto, Zenon DEF TypeOK
<1>2. SubscriberInv(s)'
  BY <1>1, Zenon DEF SubscriberInv, IdleLabel
<1> QED BY <1>1, <1>2, SubscriberMove, Zenon

LEMMA ReturnIdle ==
  ASSUME TypeOK, NEW s \in Subscriber, NEW some, Return(s, some)
  PROVE  /\ \E label \in IdleLabel : Goto(s, label)
         /\ \A t \in Subscriber : t # s => sreg'[t] = sreg[t]
BY Zenon DEF Return, IdleLabel, TypeOK

LEMMA SubscriberIdleStep ==
  ASSUME TypeOK, DataInv, NEW s \in Subscriber,
         \/ NextDisarm(s) \/ NextLoadProducerWaitline(s) \/ NextStoreProducerWaitline(s)
         \/ WakeProducer(s) \/ ArmLoadHead(s) \/ ArmStoreWaitline(s) \/ WaitIfArmed(s)
  PROVE  DataInv'
<1> DEFINE Others == \A t \in Subscriber : t # s => sreg'[t] = sreg[t]
<1>1. /\ MemoryOK /\ s \in Cpu /\ DOMAIN pc = Cpu
      /\ sreg \in [Subscriber -> SubscriberRegisters]
      /\ sreg[s].cursor \in Int /\ sreg[s].head \in Int
  BY Cpus, Zenon DEF TypeOK, SubscriberRegisters
<1>2. UNCHANGED <<mem, sb>> => Quiet
  BY Zenon DEF Quiet, Pending
<1>3. Waitline(s) \in Loc \ DataLoc /\ ProducerWaitline \in Loc \ DataLoc /\ Disarmed \in Int
  BY DataLocations DEF Disarmed
<1>4. CASE NextDisarm(s)
  <2>1. Quiet
    BY <1>1, <1>3, <1>4, StoreQuiet, Zenon DEF NextDisarm
  <2>2. (Goto(s, "pwait") /\ UNCHANGED sreg) \/ Return(s, sreg[s].some)
    BY <1>4, Zenon DEF NextDisarm
  <2>3. (\E label \in IdleLabel : Goto(s, label)) /\ Others
    BY <2>2, ReturnIdle, Zenon DEF IdleLabel
  <2> QED BY <1>4, <2>1, <2>3, SubscriberToIdle, Zenon DEF NextDisarm
<1>5. CASE NextLoadProducerWaitline(s)
  <2>1. (Goto(s, "pstore") /\ UNCHANGED sreg) \/ Return(s, sreg[s].some)
    BY <1>5, Zenon DEF NextLoadProducerWaitline
  <2>2. (\E label \in IdleLabel : Goto(s, label)) /\ Others
    BY <2>1, ReturnIdle, Zenon DEF IdleLabel
  <2> QED BY <1>2, <1>5, <2>2, SubscriberToIdle, Zenon DEF NextLoadProducerWaitline
<1>6. CASE NextStoreProducerWaitline(s)
  <2>1. Quiet
    BY <1>1, <1>3, <1>6, StoreQuiet, Zenon DEF NextStoreProducerWaitline
  <2>2. (\E label \in IdleLabel : Goto(s, label)) /\ Others
    BY <1>6, Zenon DEF NextStoreProducerWaitline, IdleLabel
  <2> QED BY <1>6, <2>1, <2>2, SubscriberToIdle, Zenon DEF NextStoreProducerWaitline
<1>7. CASE WakeProducer(s)
  <2>1. (\E label \in IdleLabel : Goto(s, label)) /\ Others
    BY <1>7, ReturnIdle, Zenon DEF WakeProducer
  <2> QED BY <1>2, <1>7, <2>1, SubscriberToIdle, Zenon DEF WakeProducer
<1>8. CASE ArmLoadHead(s)
  <2>1. (\E label \in IdleLabel : Goto(s, label)) /\ Others
    BY <1>1, <1>8, Zenon DEF ArmLoadHead, IdleLabel
  <2> QED BY <1>2, <1>8, <2>1, SubscriberToIdle, Zenon DEF ArmLoadHead
<1>9. CASE ArmStoreWaitline(s)
  <2>1. Quiet
    BY <1>1, <1>3, <1>9, StoreQuiet, Zenon DEF ArmStoreWaitline
  <2>2. (\E label \in IdleLabel : Goto(s, label)) /\ Others
    BY <1>1, <1>9, Zenon DEF ArmStoreWaitline, IdleLabel
  <2> QED BY <1>9, <2>1, <2>2, SubscriberToIdle, Zenon DEF ArmStoreWaitline
<1>10. CASE WaitIfArmed(s)
  <2>1. (\E label \in IdleLabel : Goto(s, label)) /\ Others
    BY <1>1, <1>10, Zenon DEF WaitIfArmed, IdleLabel
  <2> QED BY <1>2, <1>10, <2>1, SubscriberToIdle, Zenon DEF WaitIfArmed
<1> QED BY <1>4, <1>5, <1>6, <1>7, <1>8, <1>9, <1>10, Zenon

(* A subscriber that has fallen at most a ring behind finds its slot intact.  *)
LEMMA SlotIntact ==
  ASSUME TypeOK, DataInv, NEW s \in Subscriber, Received(s) < mem[TopicHead]
  PROVE  /\ Received(s) + 1 \in 1 .. Published
         /\ mem[SlotSeq(Received(s) % Depth)] = Received(s) + 1
         /\ mem[SlotValue(Received(s) % Depth)] = log[Received(s) + 1]
<1> DEFINE q == Received(s) + 1
<1>1. /\ Published \in Nat /\ Depth \in Nat /\ Received(s) \in Nat
      /\ mem[TopicHead] \in Int /\ mem[Cursor(s)] \in Int
  BY Numbers, DataLocations, Zenon
<1>2. /\ mem[TopicHead] <= Published /\ Published - Depth <= mem[Cursor(s)]
      /\ mem[Cursor(s)] <= Received(s)
  BY Zenon DEF DataInv, CursorOrder
<1>3. q \in 1 .. Published /\ q > Published - Depth /\ q - 1 = Received(s)
  BY <1>1, <1>2
<1>4. q = Published + 1 - Depth => pc[Producer] \notin {"value", "head"}
  <2> SUFFICES ASSUME q = Published + 1 - Depth, pc[Producer] \in {"value", "head"} PROVE FALSE
    OBVIOUS
  <2>1. mem[Cursor(s)] > Published - Depth
    BY Zenon DEF DataInv, ScanInv
  <2> QED BY <1>1, <1>2, <2>1
<1>5. /\ mem[SlotSeq((q - 1) % Depth)] = q
      /\ mem[SlotValue((q - 1) % Depth)] = log[q]
  <2> HIDE DEF q
  <2> QED BY <1>3, <1>4, Zenon DEF DataInv, SlotInv
<1> QED BY <1>3, <1>5, Zenon

LEMMA NextReadStep ==
  ASSUME TypeOK, DataInv, NEW s \in Subscriber,
         NextLoadHead(s) \/ NextLoadSeq(s) \/ NextCopyValue(s)
  PROVE  DataInv'
<1>1. /\ DOMAIN pc = Cpu /\ sreg \in [Subscriber -> SubscriberRegisters]
      /\ Received(s) \in Nat /\ mem[TopicHead] \in Int /\ s \in Cpu
  BY Cpus, Numbers, DataLocations, Zenon DEF TypeOK
<1>2. UNCHANGED <<mem, sb, preg, log, recv>>
  BY Zenon DEF NextLoadHead, NextLoadSeq, NextCopyValue
<1>3. Quiet /\ Received(s)' = Received(s) /\ Pending(s)' = Pending(s)
  BY <1>2, Zenon DEF Quiet, Pending, Received
<1>4. CASE NextLoadHead(s) /\ Return(s, FALSE)
  BY <1>2, <1>3, <1>4, ReturnIdle, SubscriberToIdle, Zenon
<1>5. CASE /\ Received(s) < mem[TopicHead] /\ Goto(s, "slot")
           /\ sreg' = [sreg EXCEPT ![s].cursor = Received(s), ![s].head = mem[TopicHead]]
  <2>1. sreg'[s].cursor = Received(s) /\ \A t \in Subscriber : t # s => sreg'[t] = sreg[t]
    BY <1>1, <1>5, Zenon DEF SubscriberRegisters
  <2>2. /\ pc'[s] = "slot" /\ pc'[Producer] = pc[Producer]
        /\ \A t \in Subscriber : t # s => pc'[t] = pc[t]
    BY <1>1, <1>5, SubscriberGoto, Zenon
  <2>3. SubscriberInv(s)'
    BY <1>2, <1>3, <1>5, <2>1, <2>2, Zenon DEF SubscriberInv
  <2> QED BY <1>2, <1>3, <2>1, <2>2, <2>3, SubscriberMove, Zenon
<1>6. CASE NextLoadSeq(s)
  <2>1. sreg[s].cursor = Received(s) /\ Received(s) < mem[TopicHead]
    BY <1>6, Zenon DEF NextLoadSeq, DataInv, SubscriberInv
  <2>2. Load(s, SlotSeq(sreg[s].cursor % Depth)) = sreg[s].cursor + 1
    BY <1>1, <2>1, SlotIntact, SubscriberView, SMTT(20)
  <2>3. sreg'[s].cursor = Received(s) + 1 /\ \A t \in Subscriber : t # s => sreg'[t] = sreg[t]
    BY <1>1, <1>6, <2>1, Zenon DEF NextLoadSeq, SubscriberRegisters
  <2>4. Goto(s, "copy")
    BY <1>6, <2>2, Zenon DEF NextLoadSeq
  <2>5. /\ pc'[s] = "copy" /\ pc'[Producer] = pc[Producer]
        /\ \A t \in Subscriber : t # s => pc'[t] = pc[t]
    BY <1>1, <2>4, SubscriberGoto, Zenon
  <2>6. SubscriberInv(s)'
    BY <1>2, <1>3, <2>1, <2>3, <2>5, Zenon DEF SubscriberInv
  <2> QED BY <1>2, <1>3, <2>3, <2>5, <2>6, SubscriberMove, Zenon
<1>7. CASE NextCopyValue(s)
  <2>1. sreg[s].cursor = Received(s) + 1 /\ Received(s) < mem[TopicHead]
    BY <1>7, Zenon DEF NextCopyValue, DataInv, SubscriberInv
  <2>2. sreg[s].cursor - 1 = Received(s)
    BY <1>1, <2>1, SMTT(20)
  <2>3. Load(s, SlotValue((sreg[s].cursor - 1) % Depth)) = log[Received(s) + 1]
    BY <1>1, <2>1, <2>2, SlotIntact, SubscriberView, SMTT(20)
  <2>4. /\ sreg'[s].cursor = sreg[s].cursor /\ sreg'[s].val = log[Received(s) + 1]
        /\ \A t \in Subscriber : t # s => sreg'[t] = sreg[t]
    BY <1>1, <1>7, <2>3, Zenon DEF NextCopyValue, SubscriberRegisters
  <2>5. /\ pc'[s] = "cursor" /\ pc'[Producer] = pc[Producer]
        /\ \A t \in Subscriber : t # s => pc'[t] = pc[t]
    BY <1>1, <1>7, SubscriberGoto, Zenon DEF NextCopyValue
  <2>6. Pending(s) = {}
    BY <1>7 DEF NextCopyValue, Fenced, Pending
  <2>7. SubscriberInv(s)'
    BY <1>2, <1>3, <2>1, <2>4, <2>5, <2>6, Zenon DEF SubscriberInv
  <2> QED BY <1>2, <1>3, <2>4, <2>5, <2>7, SubscriberMove, Zenon
<1>8. NextLoadHead(s) =>
        \/ Return(s, FALSE)
        \/ /\ Received(s) < mem[TopicHead] /\ Goto(s, "slot")
           /\ sreg' = [sreg EXCEPT ![s].cursor = Received(s), ![s].head = mem[TopicHead]]
  BY SubscriberView, Zenon DEF NextLoadHead
<1> QED BY <1>4, <1>5, <1>6, <1>7, <1>8, Zenon

LEMMA InterruptStep ==
  ASSUME TypeOK, DataInv, NEW c \in Cpu, Resume(c), UNCHANGED <<mem, sb, preg, sreg, log, recv>>
  PROVE  DataInv'
<1>1. Quiet /\ DOMAIN pc = Cpu
  BY Zenon DEF Quiet, Pending, TypeOK
<1>2. CASE UNCHANGED pc
  BY <1>1, <1>2, Stutter, Zenon
<1>3. CASE c = Producer /\ pc[Producer] = "hlt" /\ Goto(Producer, "idle")
  <2>1. pc'[Producer] = "idle" /\ \A s \in Subscriber : pc'[s] = pc[s]
    BY <1>1, <1>3, ProducerGoto, Zenon
  <2>2. preg.ix = 1
    BY <1>3, Zenon DEF DataInv, RegisterInv
  <2>3. ScanInv' /\ RegisterInv'
    BY <2>1, <2>2, Zenon DEF ScanInv, RegisterInv
  <2> QED BY <1>1, <1>3, <2>1, <2>3, ProducerMove, Zenon
<1>4. CASE c # Producer /\ Goto(c, "next")
  <2>1. c \in Subscriber
    BY <1>4, TopicAssumption DEF Cpu, Subscriber, Producer
  <2> QED BY <1>1, <1>4, <2>1, SubscriberToIdle, Zenon DEF IdleLabel
<1> QED BY <1>2, <1>3, <1>4, Zenon DEF Resume

-----------------------------------------------------------------------------
LEMMA DataInit == Init => DataInv
<1> SUFFICES ASSUME Init PROVE DataInv
  OBVIOUS
<1>1. /\ log = << >> /\ Published = 0 /\ \A s \in Subscriber : recv[s] = << >> /\ Received(s) = 0
  BY Zenon DEF Init, Published, Received
<1>2. pc[Producer] = "idle" /\ \A s \in Subscriber : pc[s] = "next"
  BY Cpus, Zenon DEF Init
<1>3. \A c \in Cpu : Pending(c) = {}
  BY DEF Init, Pending
<1>4. mem[TopicHead] = 0 /\ \A s \in Subscriber : mem[Cursor(s)] = 0
  <2>1. PICK low \in [Subscriber -> LowWords] : mem = [l \in Loc |-> InitialWord(l, low)]
    BY Zenon DEF Init
  <2> QED BY <2>1, Locations, Zenon DEF InitialWord, TopicHead, Cursor
<1>5. ProducerBuffer /\ \A s \in Subscriber : SubscriberBuffer(s)
  BY <1>3, Cpus, Zenon DEF ProducerBuffer, SubscriberBuffer
<1>6. CursorOrder
  BY <1>1, <1>4, TopicAssumption DEF CursorOrder, Stored
<1>7. ScanInv /\ RegisterInv /\ FillInv
  BY <1>2, Zenon DEF ScanInv, RegisterInv, FillInv, Init, DeadProducer
<1>8. SlotInv /\ ReliableDelivery
  BY <1>1 DEF SlotInv, ReliableDelivery, Published
<1>9. \A s \in Subscriber : SubscriberInv(s)
  BY <1>2, Zenon DEF SubscriberInv
<1> QED BY <1>5, <1>6, <1>7, <1>8, <1>9, Zenon DEF DataInv

LEMMA DataStep ==
  ASSUME Reliable, TypeOK, DataInv, [Next]_vars
  PROVE  DataInv'
<1>1. CASE ProducerStep
  BY <1>1, ScanStep, ProducerQuietStep, PublishStoreSeqStep, PublishStoreValueStep,
     PublishStoreHeadStep, Zenon DEF ProducerStep
<1>2. ASSUME NEW s \in Subscriber, SubscriberStep(s) PROVE DataInv'
  <2>1. ~NextSkipGap(s)
    BY Zenon DEF NextSkipGap, DataInv, SubscriberInv
  <2> QED BY <1>2, <2>1, NextReadStep, NextStoreCursorStep, SubscriberIdleStep, Zenon DEF SubscriberStep
<1>3. ASSUME NEW c \in Cpu, Flush(c) PROVE DataInv'
  BY <1>3, FlushStep, Zenon
<1>4. ASSUME NEW c \in Cpu, WakeInterrupt(c) \/ OtherInterrupt(c) PROVE DataInv'
  BY <1>4, InterruptStep, Zenon DEF WakeInterrupt, OtherInterrupt
<1>5. CASE UNCHANGED vars
  <2>1. Quiet /\ UNCHANGED <<pc, preg, sreg, log, recv>>
    BY <1>5, Zenon DEF vars, Quiet, Pending
  <2> QED BY <2>1, Stutter, Zenon
<1> QED BY <1>1, <1>2, <1>3, <1>4, <1>5, Zenon DEF Next

(* The inductive invariant of a reliable topic.                               *)
THEOREM ReliableInvariant == ASSUME Reliable PROVE Spec => []ReliableInv
<1>1. Init => ReliableInv
  BY TypeInit, DataInit, Zenon DEF ReliableInv
<1>2. ReliableInv /\ [Next]_vars => ReliableInv'
  BY TypeStep, DataStep, Zenon DEF ReliableInv
<1> QED BY <1>1, <1>2, PTL DEF Spec

(* try_publish and try_next of a reliable topic deliver to every subscriber   *)
(* exactly a prefix of what was published, once each, in order and intact.    *)
THEOREM ReliableDeliveryTheorem == ASSUME Reliable PROVE Spec => []ReliableDelivery
<1>1. ReliableInv => ReliableDelivery
  BY Zenon DEF ReliableInv, DataInv
<1> QED BY <1>1, ReliableInvariant, PTL

(* The gap branch of try_next is dead code for a reliable topic.              *)
THEOREM NeverGapTheorem == ASSUME Reliable PROVE Spec => []NeverGap
<1>1. ReliableInv => NeverGap
  BY Zenon DEF ReliableInv, DataInv, SubscriberInv, NeverGap
<1> QED BY <1>1, ReliableInvariant, PTL

(* Every step of the emitted code is a publication, a delivery or a stutter   *)
(* of the bounded broadcast queue.                                            *)
THEOREM ReliableRefinement == ASSUME Reliable PROVE Spec => ImplementsBroadcast
<1>1. Init => Queue!Init
  BY Zenon DEF Init, Queue!Init
<1>2. ReliableInv /\ [Next]_vars => [Queue!Next]_<<log, recv>>
  <2> SUFFICES ASSUME TypeOK, DataInv, [Next]_vars PROVE Queue!Next \/ UNCHANGED <<log, recv>>
    BY Zenon DEF ReliableInv
  <2>1. CASE PublishStoreHead
    <3>1. Queue!Publish
      BY <2>1, PublishStoreHeadStep, Zenon DEF Queue!Publish, Published, Received
    <3> QED BY <3>1, Zenon DEF Queue!Next
  <2>2. ASSUME NEW s \in Subscriber, NextStoreCursor(s)
        PROVE  Queue!Next
    <3>1. Queue!Deliver(s)
      BY <2>2, NextStoreCursorStep, Zenon DEF Queue!Deliver, Published, Received
    <3> QED BY <3>1, Zenon DEF Queue!Next
  <2>3. CASE ProducerStep /\ ~PublishStoreHead
    BY <2>3, Zenon DEF ProducerStep, PublishLoadHead, MinCompare, MinReload, PublishStoreSeq,
       PublishStoreValue, PublishDisarm, TouchLoad, TouchStore, WakeSubscriber, RetryPublish,
       WaitForAdvance, ArmProducer
  <2>4. ASSUME NEW s \in Subscriber, SubscriberStep(s), ~NextStoreCursor(s)
        PROVE  UNCHANGED <<log, recv>>
    BY <2>4, Zenon DEF SubscriberStep, NextLoadHead, NextLoadSeq, NextCopyValue, NextSkipGap, NextDisarm,
       NextLoadProducerWaitline, NextStoreProducerWaitline, WakeProducer, ArmLoadHead,
       ArmStoreWaitline, WaitIfArmed
  <2>5. ASSUME NEW c \in Cpu, Flush(c) \/ WakeInterrupt(c) \/ OtherInterrupt(c)
        PROVE  UNCHANGED <<log, recv>>
    BY <2>5, Zenon DEF Flush, WakeInterrupt, OtherInterrupt
  <2>6. CASE UNCHANGED vars
    BY <2>6, Zenon DEF vars
  <2> QED BY <2>1, <2>2, <2>3, <2>4, <2>5, <2>6, Zenon DEF Next
<1> QED BY <1>1, <1>2, ReliableInvariant, PTL DEF Spec, ImplementsBroadcast, Queue!Spec

(* The producer of a reliable topic that halts in wait_for_subscriber_advance  *)
(* faces a full ring, or a subscriber that has advanced is still on its way to *)
(* the producer's waitline: for any number of subscribers that advance while   *)
(* the producer scans, arms, scans again and halts.                            *)
THEOREM NoLostAdvanceTheorem ==
  ASSUME StoreBufferCap = 0, Reliable PROVE Spec => []NoLostAdvance
<1>1. Init => AdvanceInv
  BY AdvanceInit, Zenon
<1>2. ReliableInv /\ AdvanceInv /\ [Next]_vars => AdvanceInv'
  BY AdvanceStep, Zenon
<1>3. ReliableInv /\ AdvanceInv => NoLostAdvance
  BY AdvanceImplied, Zenon
<1> QED BY <1>1, <1>2, <1>3, ReliableInvariant, PTL DEF Spec

=============================================================================
