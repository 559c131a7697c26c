---------------------------- MODULE TopicProofs -----------------------------
(***************************************************************************)
(* Topics of both kinds, for any number of subscribers, ring depth and     *)
(* payload set: type correctness, whatever the capacity of the store       *)
(* buffers, and in memory without store buffers no wake-up of the first    *)
(* subscriber is lost.                                                     *)
(***************************************************************************)
EXTENDS TopicStepProofs, WellFoundedInduction

(* A non-empty set of buffer positions has a youngest element.             *)
LEMMA Youngest ==
  ASSUME NEW n \in Nat, NEW S \in SUBSET (1 .. n), S # {}
  PROVE  \E m \in S : \A j \in S : j <= m
<1> DEFINE Less == {p \in Nat \X Nat : p[1] < p[2]}
           T == {k \in Nat : \E i \in S : k = n - i}
<1>1. IsWellFoundedOn(Less, Nat)
  BY NatLessThanWellFounded, Zenon DEF OpToRel
<1>2. PICK i0 \in S : TRUE
  BY Zenon
<1>3. n - i0 \in T
  OBVIOUS
<1>4. T \subseteq Nat /\ T # {}
  BY <1>3, Zenon
<1> HIDE DEF T
<1>5. PICK x \in T : \A y \in T : ~(<<y, x>> \in Less)
  <2> HIDE DEF Less
  <2> QED BY <1>1, <1>4, WFMin, Zenon
<1>6. \A y \in T : x <= y
  <2> SUFFICES ASSUME NEW y \in T PROVE x <= y
    OBVIOUS
  <2>1. x \in Nat /\ y \in Nat
    BY <1>4, Zenon
  <2>2. ~(<<y, x>> \in Less)
    BY <1>5, Zenon
  <2>3. ~(y < x)
    BY <2>1, <2>2, Zenon
  <2> QED BY <2>1, <2>3
<1>7. PICK m \in S : x = n - m
  BY Zenon DEF T
<1>8. ASSUME NEW j \in S PROVE j <= m
  <2>1. n - j \in T
    BY DEF T
  <2> QED BY <1>6, <1>7, <2>1
<1> QED BY <1>8, Zenon

(* A load returns memory or one of the loader's own buffered stores to the  *)
(* same location.                                                           *)
LEMMA LoadSource ==
  ASSUME MemoryOK, NEW c \in Cpu, NEW l \in Loc
  PROVE  \/ Own(c, l) = {} /\ Load(c, l) = mem[l]
         \/ \E i \in 1 .. Len(sb[c]) : sb[c][i].loc = l /\ Load(c, l) = sb[c][i].val
<1>1. CASE Own(c, l) = {}
  BY <1>1, Zenon DEF Load
<1>2. CASE Own(c, l) # {}
  <2> DEFINE m == CHOOSE i \in Own(c, l) : \A j \in Own(c, l) : j <= i
  <2>1. Len(sb[c]) \in Nat /\ Own(c, l) \in SUBSET (1 .. Len(sb[c]))
    BY DEF Own, MemoryOK
  <2>2. \E i \in Own(c, l) : \A j \in Own(c, l) : j <= i
    BY <1>2, <2>1, Youngest, Zenon
  <2>3. m \in Own(c, l)
    BY <2>2, Zenon
  <2>4. m \in 1 .. Len(sb[c]) /\ sb[c][m].loc = l
    BY <2>3, Zenon DEF Own
  <2>5. Load(c, l) = sb[c][m].val
    BY <1>2, Zenon DEF Load
  <2> QED BY <2>4, <2>5, Zenon
<1> QED BY <1>1, <1>2, Zenon

LEMMA LoadType ==
  ASSUME MemoryOK, NEW c \in Cpu, NEW l \in Loc
  PROVE  Load(c, l) \in Int
<1>1. mem[l] \in Int
  BY Zenon DEF MemoryOK
<1> QED BY <1>1, LoadSource, BufferEntry

LEMMA StoreType ==
  ASSUME MemoryOK, NEW c \in Cpu, NEW l \in Loc, NEW v \in Int, Store(c, l, v)
  PROVE  MemoryOK'
<1> DEFINE e == [loc |-> l, val |-> v]
<1>1. e \in BufferedStore
  BY Zenon DEF BufferedStore
<1>2. CASE StoreBufferCap = 0 /\ mem' = [mem EXCEPT ![l] = v] /\ UNCHANGED sb
  BY <1>2, Zenon DEF MemoryOK
<1>3. CASE /\ Len(sb[c]) < StoreBufferCap
           /\ sb' = [sb EXCEPT ![c] = Append(@, e)]
           /\ UNCHANGED mem
  <2>1. sb[c] \in Seq(BufferedStore)
    BY Zenon DEF MemoryOK
  <2>2. Append(sb[c], e) \in Seq(BufferedStore) /\ Len(Append(sb[c], e)) = Len(sb[c]) + 1
    BY <1>1, <2>1
  <2>3. sb' \in [Cpu -> Seq(BufferedStore)]
    BY <1>3, <2>2, Zenon DEF MemoryOK
  <2>4. \A d \in Cpu : Len(sb'[d]) <= StoreBufferCap
    BY <1>3, <2>1, <2>2, TopicAssumption DEF MemoryOK
  <2> QED BY <1>3, <2>3, <2>4, Zenon DEF MemoryOK
<1> QED BY <1>2, <1>3, Zenon DEF Store

LEMMA FlushType ==
  ASSUME MemoryOK, NEW c \in Cpu, Flush(c)
  PROVE  MemoryOK'
<1>1. sb[c] \in Seq(BufferedStore) /\ sb[c] # << >>
  BY Zenon DEF MemoryOK, Flush
<1>2. Head(sb[c]) \in BufferedStore /\ Tail(sb[c]) \in Seq(BufferedStore)
      /\ Len(Tail(sb[c])) = Len(sb[c]) - 1
  BY <1>1
<1>3. mem' \in [Loc -> Int]
  BY <1>2, Zenon DEF MemoryOK, Flush, BufferedStore
<1>4. sb' \in [Cpu -> Seq(BufferedStore)]
  BY <1>2, Zenon DEF MemoryOK, Flush
<1>5. \A d \in Cpu : Len(sb'[d]) <= StoreBufferCap
  BY <1>1, <1>2, TopicAssumption DEF MemoryOK, Flush
<1> QED BY <1>3, <1>4, <1>5, Zenon DEF MemoryOK

(* Everything of TypeOK but the memory.                                     *)
ControlOK ==
  /\ DOMAIN pc = Cpu
  /\ pc[Producer] \in ProducerLabel
  /\ \A s \in Subscriber : pc[s] \in SubscriberLabel
  /\ irr \in [Cpu -> BOOLEAN]
  /\ preg \in ProducerRegisters
  /\ sreg \in [Subscriber -> SubscriberRegisters]
  /\ log \in Seq(Int)
  /\ recv \in [Subscriber -> Seq(Message)]

(* A producer step that only moves the producer and changes its registers.  *)
LEMMA ProducerControl ==
  ASSUME ControlOK, NEW label \in ProducerLabel, Goto(Producer, label),
         preg' \in ProducerRegisters, irr' \in [Cpu -> BOOLEAN],
         log' \in Seq(Int), UNCHANGED <<sreg, recv>>
  PROVE  ControlOK'
BY ProducerGoto, Zenon DEF ControlOK

LEMMA SubscriberControl ==
  ASSUME ControlOK, NEW s \in Subscriber, NEW label \in SubscriberLabel, Goto(s, label),
         sreg' \in [Subscriber -> SubscriberRegisters], irr' \in [Cpu -> BOOLEAN],
         recv' \in [Subscriber -> Seq(Message)], UNCHANGED <<preg, log>>
  PROVE  ControlOK'
<1>1. \A t \in Subscriber : pc'[t] \in SubscriberLabel
  BY SubscriberGoto, ZenonT(30) DEF ControlOK
<1> QED BY <1>1, SubscriberGoto, Zenon DEF ControlOK

LEMMA DeadRegisters ==
  /\ DeadProducer \in ProducerRegisters
  /\ \A phase \in {"drain", "recheck"} : DeadSubscriber(phase) \in SubscriberRegisters
BY Cpus DEF DeadProducer, DeadSubscriber, ProducerRegisters, SubscriberRegisters

LEMMA GateType ==
  ASSUME NEW r \in ProducerRegisters, Gate(r)
  PROVE  /\ \E label \in ProducerLabel : Goto(Producer, label)
         /\ preg' \in ProducerRegisters
<1>1. [r EXCEPT !.min = 0, !.ix = 1] \in ProducerRegisters
  <2> DEFINE q == [r EXCEPT !.min = 0]
  <2>1. 1 \in Subscriber
    BY Cpus, Zenon
  <2>2. q \in ProducerRegisters
    BY DEF ProducerRegisters
  <2>3. [q EXCEPT !.ix = 1] \in ProducerRegisters
    <3> HIDE DEF q
    <3> QED BY <2>1, <2>2, Zenon DEF ProducerRegisters
  <2>4. [r EXCEPT !.min = 0, !.ix = 1] = [q EXCEPT !.ix = 1]
    OBVIOUS
  <2> QED BY <2>3, <2>4, Zenon
<1>2. [r EXCEPT !.ix = 1] \in ProducerRegisters
  <2>1. 1 \in Subscriber
    BY Cpus, Zenon
  <2> QED BY <2>1, Zenon DEF ProducerRegisters
<1> QED BY <1>1, <1>2, DeadRegisters, Zenon DEF Gate, ProducerLabel

LEMMA MinDoneType ==
  ASSUME NEW r \in ProducerRegisters, MinDone(r)
  PROVE  /\ \E label \in ProducerLabel : Goto(Producer, label)
         /\ preg' \in ProducerRegisters
<1>1. CASE r.ix < NumSubscribers /\ Goto(Producer, "min") /\ preg' = [r EXCEPT !.ix = @ + 1]
  <2>1. r.ix + 1 \in Subscriber
    BY <1>1, Cpus, TopicAssumption DEF ProducerRegisters
  <2> QED BY <1>1, <2>1, Zenon DEF ProducerRegisters, ProducerLabel
<1>2. CASE Gate(r)
  BY <1>2, GateType, Zenon
<1> QED BY <1>1, <1>2, Zenon DEF MinDone

LEMMA TouchDoneType ==
  ASSUME NEW r \in ProducerRegisters, TouchDone(r)
  PROVE  /\ \E label \in ProducerLabel : Goto(Producer, label)
         /\ preg' \in ProducerRegisters
<1>1. r.ix # NumSubscribers => r.ix + 1 \in Subscriber
  BY Cpus, Zenon DEF ProducerRegisters
<1>2. r.ix # NumSubscribers => [r EXCEPT !.ix = @ + 1] \in ProducerRegisters
  BY <1>1, Zenon DEF ProducerRegisters
<1> QED BY <1>2, DeadRegisters, Zenon DEF TouchDone, ProducerLabel

LEMMA ReturnType ==
  ASSUME ControlOK, NEW s \in Subscriber, NEW some, Return(s, some)
  PROVE  /\ \E label \in SubscriberLabel : Goto(s, label)
         /\ sreg' \in [Subscriber -> SubscriberRegisters]
<1>1. sreg[s].phase \in {"drain", "recheck"}
  BY Zenon DEF ControlOK, SubscriberRegisters
<1>2. DeadSubscriber(sreg[s].phase) \in SubscriberRegisters
  BY <1>1, DeadRegisters, Zenon
<1>3. sreg' \in [Subscriber -> SubscriberRegisters]
  BY <1>2, Zenon DEF Return, ControlOK
<1> QED BY <1>3, Zenon DEF Return, SubscriberLabel

(* The register updates of the code keep the registers' types.              *)
LEMMA SetSeq ==
  ASSUME NEW r \in ProducerRegisters, NEW n \in Int, NEW m \in Int
  PROVE  [r EXCEPT !.seq = n] \in ProducerRegisters
BY Zenon DEF ProducerRegisters

LEMMA SetMin ==
  ASSUME NEW r \in ProducerRegisters, NEW n \in Int, NEW m \in Int
  PROVE  [r EXCEPT !.min = n] \in ProducerRegisters
BY Zenon DEF ProducerRegisters

LEMMA SetVal ==
  ASSUME NEW r \in ProducerRegisters, NEW n \in Int, NEW m \in Int
  PROVE  [r EXCEPT !.val = n] \in ProducerRegisters
BY Zenon DEF ProducerRegisters

LEMMA SetSeqVal ==
  ASSUME NEW r \in ProducerRegisters, NEW n \in Int, NEW m \in Int
  PROVE  [r EXCEPT !.seq = n, !.val = m] \in ProducerRegisters
<1> DEFINE q1 == [r EXCEPT !.seq = n]
<1> DEFINE q2 == [q1 EXCEPT !.val = m]
<1>1. q1 \in ProducerRegisters
  BY Zenon DEF ProducerRegisters
<1>2. q2 \in ProducerRegisters
  <2> HIDE DEF q1
  <2> QED BY <1>1, Zenon DEF ProducerRegisters
<1> QED BY <1>2, Zenon

LEMMA SetSeqWait ==
  ASSUME NEW r \in ProducerRegisters, NEW n \in Int, NEW m \in Int
  PROVE  [r EXCEPT !.seq = n, !.call = "wait"] \in ProducerRegisters
<1> DEFINE q1 == [r EXCEPT !.seq = n]
<1> DEFINE q2 == [q1 EXCEPT !.call = "wait"]
<1>1. q1 \in ProducerRegisters
  BY Zenon DEF ProducerRegisters
<1>2. q2 \in ProducerRegisters
  <2> HIDE DEF q1
  <2> QED BY <1>1, Zenon DEF ProducerRegisters
<1> QED BY <1>2, Zenon

LEMMA SetMinArmed ==
  ASSUME NEW r \in ProducerRegisters, NEW n \in Int, NEW m \in Int
  PROVE  [r EXCEPT !.min = n, !.call = "armed"] \in ProducerRegisters
<1> DEFINE q1 == [r EXCEPT !.min = n]
<1> DEFINE q2 == [q1 EXCEPT !.call = "armed"]
<1>1. q1 \in ProducerRegisters
  BY Zenon DEF ProducerRegisters
<1>2. q2 \in ProducerRegisters
  <2> HIDE DEF q1
  <2> QED BY <1>1, Zenon DEF ProducerRegisters
<1> QED BY <1>2, Zenon

LEMMA SetUnbased ==
  ASSUME NEW r \in ProducerRegisters, NEW n \in Int, NEW m \in Int
  PROVE  [r EXCEPT !.based = FALSE, !.seq = n] \in ProducerRegisters
<1> DEFINE q1 == [r EXCEPT !.based = FALSE]
<1> DEFINE q2 == [q1 EXCEPT !.seq = n]
<1>1. q1 \in ProducerRegisters
  BY Zenon DEF ProducerRegisters
<1>2. q2 \in ProducerRegisters
  <2> HIDE DEF q1
  <2> QED BY <1>1, Zenon DEF ProducerRegisters
<1> QED BY <1>2, Zenon

(* Every step of the producer preserves the types.                          *)
LEMMA ProducerTypeStep ==
  ASSUME MemoryOK, ControlOK, ProducerStep
  PROVE  MemoryOK' /\ ControlOK'
<1> USE Cpus, Locations
<1>1. preg \in ProducerRegisters /\ preg.seq \in Int /\ preg.min \in Int
      /\ preg.val \in Int /\ preg.ix \in Subscriber /\ log \in Seq(Int)
  BY Zenon DEF ControlOK, ProducerRegisters
<1>2. UNCHANGED <<mem, sb>> => MemoryOK'
  BY Zenon DEF MemoryOK
<1>3. irr \in [Cpu -> BOOLEAN]
  BY Zenon DEF ControlOK
<1>4. CASE PublishLoadHead
  <2>1. PICK v \in Values : preg' = [preg EXCEPT !.seq = Load(Producer, TopicHead), !.val = v]
    BY <1>4, Zenon DEF PublishLoadHead
  <2>2. preg' \in ProducerRegisters
    BY <1>1, <2>1, LoadType, SetSeqVal, TopicAssumption, Zenon
  <2> QED BY <1>1, <1>2, <1>3, <1>4, <2>2, ProducerControl, Zenon DEF PublishLoadHead, ProducerLabel
<1>5. CASE MinCompare
  <2> DEFINE c == Load(Producer, Cursor(preg.ix))
  <2>1. c \in Int
    BY <1>1, LoadType, Zenon
  <2>2. [preg EXCEPT !.min = c] \in ProducerRegisters
    BY <1>1, <2>1, SetMin, Zenon
  <2>3. UNCHANGED <<mem, sb, irr, sreg, log, recv>>
    BY <1>5, Zenon DEF MinCompare
  <2>4. \/ MinDone([preg EXCEPT !.min = c])
        \/ MinDone(preg)
        \/ Goto(Producer, "reload") /\ UNCHANGED preg
    BY <1>5, Zenon DEF MinCompare
  <2>5. /\ \E label \in ProducerLabel : Goto(Producer, label)
        /\ preg' \in ProducerRegisters
    <3> HIDE DEF c
    <3>1. CASE MinDone([preg EXCEPT !.min = c])
      BY <2>2, <3>1, MinDoneType, Zenon
    <3>2. CASE MinDone(preg)
      BY <1>1, <3>2, MinDoneType, Zenon
    <3>3. CASE Goto(Producer, "reload") /\ UNCHANGED preg
      BY <1>1, <3>3, Zenon DEF ProducerLabel
    <3> QED BY <2>4, <3>1, <3>2, <3>3, Zenon
  <2> QED BY <1>1, <1>2, <1>3, <2>3, <2>5, ProducerControl, Zenon
<1>6. CASE MinReload
  <2> DEFINE r == [preg EXCEPT !.min = Load(Producer, Cursor(preg.ix))]
  <2>1. r \in ProducerRegisters
    BY <1>1, LoadType, SetMin, Zenon
  <2>2. MinDone(r) /\ UNCHANGED <<mem, sb, irr, sreg, log, recv>>
    BY <1>6, Zenon DEF MinReload
  <2> HIDE DEF r
  <2> QED BY <1>1, <1>2, <1>3, <2>1, <2>2, MinDoneType, ProducerControl, SMTT(20)
<1>7. CASE PublishStoreSeq
  <2>1. MemoryOK'
    BY <1>1, <1>7, StoreType DEF PublishStoreSeq
  <2>2. preg' \in ProducerRegisters
    <3>1. preg.seq + 1 \in Int /\ preg' = [preg EXCEPT !.seq = preg.seq + 1]
      BY <1>1, <1>7 DEF PublishStoreSeq
    <3> QED BY ONLY <1>1, <3>1, SetSeq, Zenon
  <2> QED BY <1>1, <1>3, <1>7, <2>1, <2>2, ProducerControl, Zenon DEF PublishStoreSeq, ProducerLabel
<1>8. CASE PublishStoreValue
  <2>1. MemoryOK'
    BY <1>1, <1>8, StoreType DEF PublishStoreValue
  <2> QED BY <1>1, <1>3, <1>8, <2>1, ProducerControl, Zenon DEF PublishStoreValue, ProducerLabel
<1>9. CASE PublishStoreHead
  <2>1. MemoryOK'
    BY <1>1, <1>9, StoreType, Zenon DEF PublishStoreHead
  <2>2. preg' \in ProducerRegisters
    <3>1. 0 \in Int /\ preg' = [preg EXCEPT !.val = 0]
      BY <1>9 DEF PublishStoreHead
    <3> QED BY ONLY <1>1, <3>1, SetVal, Zenon
  <2>3. log' = Append(log, preg.val)
    BY <1>9, Zenon DEF PublishStoreHead
  <2> QED BY <1>1, <1>3, <1>9, <2>1, <2>2, ProducerControl, SMTT(20) DEF PublishStoreHead, ProducerLabel
<1>10. CASE PublishDisarm
  <2>1. MemoryOK'
    BY <1>10, StoreType DEF PublishDisarm, Disarmed
  <2> QED BY <1>1, <1>3, <1>10, <2>1, ProducerControl, Zenon DEF PublishDisarm, ProducerLabel
<1>11. CASE TouchLoad
  <2>1. TouchDone(preg) \/ (Goto(Producer, "store") /\ UNCHANGED preg)
    BY <1>11, Zenon DEF TouchLoad
  <2>2. /\ \E label \in ProducerLabel : Goto(Producer, label)
        /\ preg' \in ProducerRegisters
    BY <1>1, <2>1, TouchDoneType, Zenon DEF ProducerLabel
  <2> QED BY <1>1, <1>2, <1>3, <1>11, <2>2, ProducerControl, Zenon DEF TouchLoad
<1>12. CASE TouchStore
  <2>1. TouchedLine \in Loc
    BY <1>1, Zenon DEF TouchedLine
  <2>2. MemoryOK'
    BY <1>1, <1>12, <2>1, StoreType, Zenon DEF TouchStore
  <2> QED BY <1>1, <1>3, <1>12, <2>2, ProducerControl, Zenon DEF TouchStore, ProducerLabel
<1>13. CASE WakeSubscriber
  <2> DEFINE r == [preg EXCEPT !.based = FALSE, !.seq = IcrBusyMask]
  <2>1. r \in ProducerRegisters
    <3>1. IcrBusyMask \in Int
      BY DEF IcrBusyMask
    <3> QED BY ONLY <1>1, <3>1, SetUnbased, Zenon
  <2>2. TouchDone(r) /\ UNCHANGED <<mem, sb, sreg, log, recv>>
        /\ irr' \in [Cpu -> BOOLEAN]
    BY <1>3, <1>13, Zenon DEF WakeSubscriber
  <2> HIDE DEF r
  <2> QED BY <1>1, <1>2, <2>1, <2>2, TouchDoneType, ProducerControl, Zenon
<1>14. CASE RetryPublish
  BY <1>1, <1>2, <1>3, <1>14, ProducerControl, Zenon DEF RetryPublish, ProducerLabel
<1>15. CASE WaitForAdvance
  <2>1. preg' \in ProducerRegisters
    BY <1>1, <1>15, LoadType, SetSeqWait, Zenon DEF WaitForAdvance
  <2> QED BY <1>1, <1>2, <1>3, <1>15, <2>1, ProducerControl, Zenon DEF WaitForAdvance, ProducerLabel
<1>16. CASE ArmProducer
  <2>1. MemoryOK'
    BY <1>1, <1>16, StoreType, Zenon DEF ArmProducer
  <2>2. preg' \in ProducerRegisters
    <3>1. 0 \in Int /\ preg' = [preg EXCEPT !.min = 0, !.call = "armed"]
      BY <1>16 DEF ArmProducer
    <3> QED BY ONLY <1>1, <3>1, SetMinArmed, Zenon
  <2> QED BY <1>1, <1>3, <1>16, <2>1, <2>2, ProducerControl, Zenon DEF ArmProducer, ProducerLabel
<1> QED BY <1>4, <1>5, <1>6, <1>7, <1>8, <1>9, <1>10, <1>11, <1>12, <1>13, <1>14,
           <1>15, <1>16, SMTT(20) DEF ProducerStep

(* The register updates of the code keep the registers' types.              *)
LEMMA SetCursor ==
  ASSUME NEW r \in SubscriberRegisters, NEW n \in Int, NEW m \in Int
  PROVE  [r EXCEPT !.cursor = n] \in SubscriberRegisters
BY Zenon DEF SubscriberRegisters

LEMMA SetHead ==
  ASSUME NEW r \in SubscriberRegisters, NEW n \in Int, NEW m \in Int
  PROVE  [r EXCEPT !.head = n] \in SubscriberRegisters
BY Zenon DEF SubscriberRegisters

LEMMA SetCopied ==
  ASSUME NEW r \in SubscriberRegisters, NEW n \in Int, NEW m \in Int
  PROVE  [r EXCEPT !.val = n] \in SubscriberRegisters
BY Zenon DEF SubscriberRegisters

LEMMA SetDrain ==
  ASSUME NEW r \in SubscriberRegisters, NEW n \in Int, NEW m \in Int
  PROVE  [r EXCEPT !.phase = "drain"] \in SubscriberRegisters
BY Zenon DEF SubscriberRegisters

LEMMA SetCursorHead ==
  ASSUME NEW r \in SubscriberRegisters, NEW n \in Int, NEW m \in Int
  PROVE  [r EXCEPT !.cursor = n, !.head = m] \in SubscriberRegisters
<1> DEFINE q1 == [r EXCEPT !.cursor = n]
<1> DEFINE q2 == [q1 EXCEPT !.head = m]
<1>1. q1 \in SubscriberRegisters
  BY Zenon DEF SubscriberRegisters
<1>2. q2 \in SubscriberRegisters
  <2> HIDE DEF q1
  <2> QED BY <1>1, Zenon DEF SubscriberRegisters
<1> QED BY <1>2, Zenon

LEMMA SetSome ==
  ASSUME NEW r \in SubscriberRegisters, NEW n \in Int, NEW m \in Int
  PROVE  [r EXCEPT !.some = TRUE, !.head = n, !.val = m] \in SubscriberRegisters
<1> DEFINE q1 == [r EXCEPT !.some = TRUE]
<1> DEFINE q2 == [q1 EXCEPT !.head = n]
<1> DEFINE q3 == [q2 EXCEPT !.val = m]
<1>1. q1 \in SubscriberRegisters
  BY Zenon DEF SubscriberRegisters
<1>2. q2 \in SubscriberRegisters
  <2> HIDE DEF q1
  <2> QED BY <1>1, Zenon DEF SubscriberRegisters
<1>3. q3 \in SubscriberRegisters
  <2> HIDE DEF q2
  <2> QED BY <1>2, Zenon DEF SubscriberRegisters
<1> QED BY <1>3, Zenon

(* Every step of a subscriber preserves the types.                          *)
LEMMA SubscriberTypeStep ==
  ASSUME MemoryOK, ControlOK, NEW s \in Subscriber, SubscriberStep(s)
  PROVE  MemoryOK' /\ ControlOK'
<1> DEFINE r == sreg[s]
           Registers == sreg' \in [Subscriber -> SubscriberRegisters]
<1>1. r \in SubscriberRegisters /\ r.cursor \in Int /\ r.head \in Int /\ r.val \in Int
  BY Zenon DEF ControlOK, SubscriberRegisters
<1>2. sreg \in [Subscriber -> SubscriberRegisters] /\ irr \in [Cpu -> BOOLEAN]
      /\ recv \in [Subscriber -> Seq(Message)]
  BY Zenon DEF ControlOK
<1>3. UNCHANGED <<mem, sb>> => MemoryOK'
  BY Zenon DEF MemoryOK
<1>4. s \in Cpu /\ TopicHead \in Loc /\ ProducerWaitline \in Loc /\ Cursor(s) \in Loc
      /\ Waitline(s) \in Loc /\ 0 \in Int /\ Disarmed \in Int
  BY Cpus, Locations DEF Disarmed
<1>5. Load(s, Cursor(s)) \in Int /\ Load(s, TopicHead) \in Int
  BY <1>4, LoadType, Zenon
<1>6. \A q \in SubscriberRegisters : sreg' = [sreg EXCEPT ![s] = q] => Registers
  BY <1>2, Zenon
<1>7. \A some : Return(s, some) =>
        (\E label \in SubscriberLabel : Goto(s, label)) /\ Registers
  BY ReturnType, Zenon
<1> HIDE DEF r, Registers
<1>8. CASE NextLoadHead(s)
  <2>1. UNCHANGED <<mem, sb, irr, preg, log, recv>>
    BY <1>8, Zenon DEF NextLoadHead
  <2>2. \/ Return(s, FALSE)
        \/ /\ Goto(s, "slot")
           /\ sreg' = [sreg EXCEPT ![s] = [r EXCEPT !.cursor = Load(s, Cursor(s)),
                                                    !.head = Load(s, TopicHead)]]
    BY <1>2, <1>8, Zenon DEF NextLoadHead, r
  <2>3. (\E label \in SubscriberLabel : Goto(s, label)) /\ Registers
    BY <1>1, <1>5, <1>6, <1>7, <2>2, SetCursorHead, Zenon DEF SubscriberLabel
  <2> QED BY <1>2, <1>3, <2>1, <2>3, SubscriberControl, Zenon DEF Registers
<1>9. CASE NextLoadSeq(s)
  <2>1. r.cursor + 1 \in Int /\ sreg' = [sreg EXCEPT ![s] = [r EXCEPT !.cursor = r.cursor + 1]]
    BY <1>1, <1>2, <1>9 DEF NextLoadSeq, r
  <2>2. Registers
    BY <1>1, <1>6, <2>1, SetCursor, Zenon
  <2> QED BY <1>2, <1>3, <1>9, <2>2, SubscriberControl, Zenon DEF NextLoadSeq, SubscriberLabel, Registers
<1>10. CASE NextCopyValue(s)
  <2> DEFINE v == Load(s, SlotValue((r.cursor - 1) % Depth))
  <2>1. r.cursor - 1 \in Int
    BY <1>1
  <2>2. v \in Int
    BY <1>4, <2>1, Locations, LoadType, Zenon
  <2>3. sreg' = [sreg EXCEPT ![s] = [r EXCEPT !.val = v]]
    BY <1>2, <1>10, Zenon DEF NextCopyValue, r
  <2>4. Registers
    <3> HIDE DEF v
    <3> QED BY <1>1, <1>6, <2>2, <2>3, SetCopied, Zenon
  <2> QED BY <1>2, <1>3, <1>10, <2>4, SubscriberControl, Zenon DEF NextCopyValue, SubscriberLabel, Registers
<1>11. CASE NextStoreCursor(s)
  <2> DEFINE m == [seq |-> r.cursor, val |-> r.val]
  <2>1. MemoryOK'
    BY <1>1, <1>4, <1>11, StoreType, Zenon DEF NextStoreCursor, r
  <2>2. sreg' = [sreg EXCEPT ![s] = [r EXCEPT !.some = TRUE, !.head = 0, !.val = 0]]
    BY <1>2, <1>11, Zenon DEF NextStoreCursor, r
  <2>3. Registers
    BY <1>1, <1>4, <1>6, <2>2, SetSome, Zenon
  <2>4. m \in Message /\ recv' = [recv EXCEPT ![s] = Append(recv[s], m)]
    BY <1>1, <1>11, Zenon DEF NextStoreCursor, Message, r
  <2>5. recv' \in [Subscriber -> Seq(Message)]
    <3> HIDE DEF m
    <3>1. Append(recv[s], m) \in Seq(Message)
      BY <1>2, <2>4
    <3> QED BY <1>2, <2>4, <3>1, Zenon
  <2> QED BY <1>2, <1>11, <2>1, <2>3, <2>5, SubscriberControl, Zenon
          DEF NextStoreCursor, SubscriberLabel, Registers
<1>12. CASE NextSkipGap(s)
  <2>1. MemoryOK'
    BY <1>1, <1>4, <1>12, StoreType, Zenon DEF NextSkipGap, r
  <2>2. sreg' = [sreg EXCEPT ![s] = [r EXCEPT !.cursor = r.head, !.head = 0]]
    BY <1>2, <1>12, Zenon DEF NextSkipGap, r
  <2>3. Registers
    BY <1>1, <1>4, <1>6, <2>2, SetCursorHead, Zenon
  <2> QED BY <1>2, <1>12, <2>1, <2>3, SubscriberControl, Zenon DEF NextSkipGap, SubscriberLabel, Registers
<1>13. CASE NextDisarm(s)
  <2>1. MemoryOK'
    BY <1>4, <1>13, StoreType, Zenon DEF NextDisarm
  <2>2. (Goto(s, "pwait") /\ UNCHANGED sreg) \/ Return(s, sreg[s].some)
    BY <1>13, Zenon DEF NextDisarm
  <2>3. (\E label \in SubscriberLabel : Goto(s, label)) /\ Registers
    BY <1>2, <1>7, <2>2, Zenon DEF SubscriberLabel, Registers
  <2> QED BY <1>2, <1>13, <2>1, <2>3, SubscriberControl, Zenon DEF NextDisarm, Registers
<1>14. CASE NextLoadProducerWaitline(s)
  <2>1. (Goto(s, "pstore") /\ UNCHANGED sreg) \/ Return(s, sreg[s].some)
    BY <1>14, Zenon DEF NextLoadProducerWaitline
  <2>2. (\E label \in SubscriberLabel : Goto(s, label)) /\ Registers
    BY <1>2, <1>7, <2>1, Zenon DEF SubscriberLabel, Registers
  <2> QED BY <1>2, <1>3, <1>14, <2>2, SubscriberControl, Zenon DEF NextLoadProducerWaitline, Registers
<1>15. CASE NextStoreProducerWaitline(s)
  <2>1. MemoryOK'
    BY <1>1, <1>4, <1>15, StoreType, Zenon DEF NextStoreProducerWaitline, r
  <2> QED BY <1>2, <1>15, <2>1, SubscriberControl, Zenon DEF NextStoreProducerWaitline, SubscriberLabel
<1>16. CASE WakeProducer(s)
  <2>1. irr' \in [Cpu -> BOOLEAN]
    BY <1>2, <1>16, Cpus, Zenon DEF WakeProducer
  <2>2. (\E label \in SubscriberLabel : Goto(s, label)) /\ Registers
    BY <1>7, <1>16, Zenon DEF WakeProducer
  <2> QED BY <1>2, <1>3, <1>16, <2>1, <2>2, SubscriberControl, Zenon DEF WakeProducer, Registers
<1>17. CASE ArmLoadHead(s)
  <2>1. sreg' = [sreg EXCEPT ![s] = [r EXCEPT !.head = Load(s, TopicHead)]]
    BY <1>2, <1>17, Zenon DEF ArmLoadHead, r
  <2>2. Registers
    BY <1>1, <1>5, <1>6, <2>1, SetHead, Zenon
  <2> QED BY <1>2, <1>3, <1>17, <2>2, SubscriberControl, Zenon DEF ArmLoadHead, SubscriberLabel, Registers
<1>18. CASE ArmStoreWaitline(s)
  <2>1. MemoryOK'
    BY <1>1, <1>4, <1>18, StoreType, Zenon DEF ArmStoreWaitline, r
  <2>2. Registers
    BY <1>6, <1>18, DeadRegisters, Zenon DEF ArmStoreWaitline
  <2> QED BY <1>2, <1>18, <2>1, <2>2, SubscriberControl, Zenon DEF ArmStoreWaitline, SubscriberLabel, Registers
<1>19. CASE WaitIfArmed(s)
  <2>1. sreg' = [sreg EXCEPT ![s] = [r EXCEPT !.phase = "drain"]]
    BY <1>2, <1>19, Zenon DEF WaitIfArmed, r
  <2>2. Registers
    BY <1>1, <1>4, <1>6, <2>1, SetDrain, Zenon
  <2> QED BY <1>2, <1>3, <1>19, <2>2, SubscriberControl, Zenon DEF WaitIfArmed, SubscriberLabel, Registers
<1> QED BY <1>8, <1>9, <1>10, <1>11, <1>12, <1>13, <1>14, <1>15, <1>16, <1>17, <1>18,
           <1>19, Zenon DEF SubscriberStep

LEMMA ResumeControl ==
  ASSUME ControlOK, NEW c \in Cpu, Resume(c), irr' \in [Cpu -> BOOLEAN],
         UNCHANGED <<preg, sreg, log, recv>>
  PROVE  ControlOK'
<1>1. CASE UNCHANGED pc
  BY <1>1, Zenon DEF ControlOK
<1>2. CASE c = Producer /\ Goto(Producer, "idle")
  BY <1>2, ProducerControl, Zenon DEF ProducerLabel, ControlOK
<1>3. CASE c # Producer /\ Goto(c, "next")
  <2>1. c \in Subscriber
    BY <1>3, TopicAssumption DEF Cpu, Subscriber, Producer
  <2> QED BY <1>3, <2>1, SubscriberControl, Zenon DEF SubscriberLabel, ControlOK
<1> QED BY <1>1, <1>2, <1>3, Zenon DEF Resume

LEMMA TypeSplit == TypeOK <=> MemoryOK /\ ControlOK
BY Zenon DEF TypeOK, ControlOK

LEMMA TypeInit == Init => TypeOK
<1> SUFFICES ASSUME Init PROVE TypeOK
  OBVIOUS
<1>1. PICK low \in [Subscriber -> LowWords] : mem = [l \in Loc |-> InitialWord(l, low)]
  BY Zenon DEF Init
<1>2. \A l \in Loc : l[1] = "low" => l[2] \in Subscriber
  BY Zenon DEF Loc
<1>3. \A l \in Loc : InitialWord(l, low) \in Int
  BY <1>2, TopicAssumption DEF InitialWord, Disarmed
<1>4. mem \in [Loc -> Int]
  BY <1>1, <1>3, Zenon
<1>5. sb \in [Cpu -> Seq(BufferedStore)] /\ \A c \in Cpu : Len(sb[c]) <= StoreBufferCap
  BY TopicAssumption DEF Init
<1>6. MemoryOK
  BY <1>4, <1>5, Zenon DEF MemoryOK
<1>7. /\ DOMAIN pc = Cpu /\ pc[Producer] \in ProducerLabel
      /\ \A s \in Subscriber : pc[s] \in SubscriberLabel
  BY Cpus, Zenon DEF Init, ProducerLabel, SubscriberLabel
<1>8. preg \in ProducerRegisters /\ sreg \in [Subscriber -> SubscriberRegisters]
  BY DeadRegisters, Zenon DEF Init
<1>9. irr \in [Cpu -> BOOLEAN] /\ log \in Seq(Int) /\ recv \in [Subscriber -> Seq(Message)]
  BY DEF Init
<1> QED BY <1>6, <1>7, <1>8, <1>9, Zenon DEF TypeOK

LEMMA TypeStep == TypeOK /\ [Next]_vars => TypeOK'
<1> SUFFICES ASSUME MemoryOK, ControlOK, [Next]_vars
             PROVE  MemoryOK' /\ ControlOK'
  BY TypeSplit, Zenon DEF TypeOK, ControlOK
<1>1. CASE ProducerStep
  BY <1>1, ProducerTypeStep, Zenon
<1>2. ASSUME NEW s \in Subscriber, SubscriberStep(s) PROVE MemoryOK' /\ ControlOK'
  BY <1>2, SubscriberTypeStep, Zenon
<1>3. ASSUME NEW c \in Cpu, Flush(c) PROVE MemoryOK' /\ ControlOK'
  BY <1>3, FlushType, Zenon DEF Flush, ControlOK
<1>4. ASSUME NEW c \in Cpu, WakeInterrupt(c) PROVE MemoryOK' /\ ControlOK'
  <2>1. irr' \in [Cpu -> BOOLEAN]
    BY <1>4, Zenon DEF WakeInterrupt, ControlOK
  <2> QED BY <1>4, <2>1, ResumeControl, Zenon DEF WakeInterrupt, MemoryOK
<1>5. ASSUME NEW c \in Cpu, OtherInterrupt(c) PROVE MemoryOK' /\ ControlOK'
  <2>1. irr' \in [Cpu -> BOOLEAN]
    BY <1>5, Zenon DEF OtherInterrupt, ControlOK
  <2> QED BY <1>5, <2>1, ResumeControl, Zenon DEF OtherInterrupt, MemoryOK
<1>6. CASE UNCHANGED vars
  BY <1>6, Zenon DEF vars, MemoryOK, ControlOK
<1> QED BY <1>1, <1>2, <1>3, <1>4, <1>5, <1>6, Zenon DEF Next

(* Every register, store buffer and memory word keeps its type, for both      *)
(* topic kinds: the waitline, cursor and slot accesses the generator emits    *)
(* stay inside the topic's data object.                                       *)
THEOREM TypeCorrect == Spec => []TypeOK
<1>1. Init => TypeOK
  BY TypeInit, Zenon
<1>2. TypeOK /\ [Next]_vars => TypeOK'
  BY TypeStep, Zenon
<1> QED BY <1>1, <1>2, PTL DEF Spec

-----------------------------------------------------------------------------
(* The invariant of the first subscriber's sleep.                             *)
THEOREM WakeInvariant == ASSUME StoreBufferCap = 0 PROVE Spec => [](TypeOK /\ WakeInv)
<1>1. Init => TypeOK /\ WakeInv
  BY TypeInit, WakeInit, Zenon
<1>2. TypeOK /\ WakeInv /\ [Next]_vars => TypeOK' /\ WakeInv'
  BY TypeStep, WakeStep, Zenon
<1> QED BY <1>1, <1>2, PTL DEF Spec

(* The first subscriber of a topic of either kind never halts with a message  *)
(* to read: a publish that finds its waitline armed sends the wake, and one   *)
(* that comes before the line is armed is seen by the re-check after arm_wait. *)
(* The claim is about the first subscriber: the waitlines of the others are    *)
(* looked up at a lost address once a wake has been sent.                      *)
THEOREM FirstWakeupTheorem == ASSUME StoreBufferCap = 0 PROVE Spec => []NoLostWakeupOf(1)
<1>1. TypeOK /\ WakeInv => NoLostWakeupOf(1)
  BY WakeImplied, Zenon
<1> QED BY <1>1, WakeInvariant, PTL

(* So no subscriber of a topic with one subscriber does.                      *)
THEOREM NoLostWakeupTheorem ==
  ASSUME StoreBufferCap = 0, NumSubscribers = 1 PROVE Spec => []NoLostWakeup
<1>1. Subscriber = {1}
  BY DEF Subscriber
<1>2. NoLostWakeupOf(1) => NoLostWakeup
  BY <1>1, Zenon DEF NoLostWakeup
<1> QED BY <1>2, FirstWakeupTheorem, PTL

=============================================================================
