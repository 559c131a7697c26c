------------------------------- MODULE Topic -------------------------------
(***************************************************************************)
(* One single-producer multi-subscriber topic as the code generator emits  *)
(* it (compiler/codegen/x64.go), executed by the producer's vCPU and by    *)
(* one vCPU per subscriber.  Every action is the code between two accesses *)
(* to memory that another vCPU may also access, so that the interleavings  *)
(* are those of the emitted instructions.                                  *)
(*                                                                         *)
(* Memory is x86-TSO: a store enters the store buffer of its vCPU, the     *)
(* oldest buffered store reaches memory at any later time, a load is       *)
(* forwarded from the youngest buffered store of its own vCPU, and mfence  *)
(* waits until the buffer is empty.  StoreBufferCap = 0 is sequential      *)
(* consistency.                                                            *)
(*                                                                         *)
(* Abstractions: a payload is one word; sequence numbers are unbounded     *)
(* (they are 64 bits wide in the code); the monitor/mwait line that        *)
(* emitWakeSlot touches is left out (nothing here waits on it) but the     *)
(* mfence that follows the touch is kept.                                  *)
(***************************************************************************)
EXTENDS Integers, Sequences

CONSTANTS
  NumSubscribers,  \* subscribers are 1..NumSubscribers, in layout order
  Depth,           \* ring slots
  Reliable,        \* isReliableTopicKind(layout.Kind)
  Values,          \* payloads
  LowWords,        \* what the words at physical 0 + WaitlineOffset may hold
  StoreBufferCap,  \* entries of a vCPU's store buffer
  MaxPublish       \* bound on the number of published messages

Disarmed == -1     \* topicWaitlineDisarmed
IcrBusyMask == 4096  \* what emitWaitForIcrDelivery leaves in r10

Producer == 0
Subscriber == 1 .. NumSubscribers
Cpu == 0 .. NumSubscribers
Slot == 0 .. Depth - 1

ASSUME TopicAssumption ==
  /\ NumSubscribers \in Nat \ {0}
  /\ Depth \in Nat \ {0}
  /\ Reliable \in BOOLEAN
  /\ Values \subseteq Int
  /\ LowWords \subseteq Int
  /\ StoreBufferCap \in Nat
  /\ MaxPublish \in Nat

(***************************************************************************)
(* Shared memory locations.  Low(s) is the word a publish reads in place   *)
(* of the waitline of s once its base register no longer holds the topic's *)
(* address.                                                                *)
(***************************************************************************)
TopicHead == <<"head", 0>>
ProducerWaitline == <<"producer_waitline", 0>>
Cursor(s) == <<"cursor", s>>
Waitline(s) == <<"waitline", s>>
Low(s) == <<"low", s>>
SlotSeq(k) == <<"seq", k>>
SlotValue(k) == <<"value", k>>

Loc ==
  ({"head", "producer_waitline"} \X {0})
    \cup ({"cursor", "waitline", "low"} \X Subscriber)
    \cup ({"seq", "value"} \X Slot)

VARIABLES
  mem,      \* [Loc -> Int], what every vCPU sees
  sb,       \* sb[c]: the store buffer of vCPU c, oldest first
  pc,       \* pc[c]: where the code of vCPU c stands
  irr,      \* irr[c]: vCPU c has a pending wake interrupt (vector 0xF0)
  preg,     \* the producer's registers
  sreg,     \* sreg[s]: the registers of subscriber s
  log,      \* history: payloads in publication order
  recv      \* history: recv[s] is what try_next returned to s

vars == <<mem, sb, pc, irr, preg, sreg, log, recv>>

(***************************************************************************)
(* The memory operations of vCPU c.                                        *)
(***************************************************************************)
Own(c, l) == {i \in 1 .. Len(sb[c]) : sb[c][i].loc = l}

Load(c, l) ==
  IF Own(c, l) = {}
  THEN mem[l]
  ELSE sb[c][CHOOSE i \in Own(c, l) : \A j \in Own(c, l) : j <= i].val

Store(c, l, v) ==
  \/ /\ StoreBufferCap = 0
     /\ mem' = [mem EXCEPT ![l] = v]
     /\ UNCHANGED sb
  \/ /\ Len(sb[c]) < StoreBufferCap
     /\ sb' = [sb EXCEPT ![c] = Append(@, [loc |-> l, val |-> v])]
     /\ UNCHANGED mem

Fenced(c) == sb[c] = << >>

Flush(c) ==
  /\ sb[c] # << >>
  /\ mem' = [mem EXCEPT ![Head(sb[c]).loc] = Head(sb[c]).val]
  /\ sb' = [sb EXCEPT ![c] = Tail(@)]
  /\ UNCHANGED <<pc, irr, preg, sreg, log, recv>>

Goto(c, label) == pc' = [pc EXCEPT ![c] = label]

(* Registers are dead between two operations.                              *)
DeadProducer ==
  [seq |-> 0, min |-> 0, ix |-> 1, val |-> 0, based |-> TRUE, call |-> "publish"]
DeadSubscriber(phase) ==
  [cursor |-> 0, head |-> 0, val |-> 0, phase |-> phase, some |-> FALSE]

(***************************************************************************)
(* The topic's data object: every word zero, every waitline disarmed.      *)
(***************************************************************************)
InitialWord(l, low) ==
  CASE l[1] \in {"producer_waitline", "waitline"} -> Disarmed
    [] l[1] = "low" -> low[l[2]]
    [] OTHER -> 0

Init ==
  /\ \E low \in [Subscriber -> LowWords] :
       mem = [l \in Loc |-> InitialWord(l, low)]
  /\ sb = [c \in Cpu |-> << >>]
  /\ pc = [c \in Cpu |-> IF c = Producer THEN "idle" ELSE "next"]
  /\ irr = [c \in Cpu |-> FALSE]
  /\ preg = DeadProducer
  /\ sreg = [s \in Subscriber |-> DeadSubscriber("drain")]
  /\ log = << >>
  /\ recv = [s \in Subscriber |-> << >>]

(***************************************************************************)
(* publish (gap-detecting topic) and try_publish (reliable topic).         *)
(***************************************************************************)
PublishLoadHead ==
  /\ pc[Producer] = "idle"
  /\ Len(log) < MaxPublish
  /\ \E v \in Values :
       preg' = [preg EXCEPT !.seq = Load(Producer, TopicHead), !.val = v]
  /\ Goto(Producer, IF Reliable THEN "min" ELSE "seq")
  /\ UNCHANGED <<mem, sb, irr, sreg, log, recv>>

(* Variant: jump-if-above in place of jump-if-above-or-equal.               *)
FullAbove(r) == r.seq - r.min > Depth

Full(r) == r.seq - r.min >= Depth

(* The decision once the minimum is known.  try_publish returns TopicFull   *)
(* or fills the slot; wait_for_subscriber_advance returns or (after cli)    *)
(* arms; armed and still full it halts (sti; hlt), else it returns.         *)
Gate(r) ==
  \/ /\ r.call = "publish" /\ ~Full(r)
     /\ Goto(Producer, "seq")
     /\ preg' = [r EXCEPT !.min = 0, !.ix = 1]
  \/ /\ r.call = "publish" /\ Full(r)
     /\ Goto(Producer, "full")
     /\ preg' = DeadProducer
  \/ /\ r.call = "wait" /\ Full(r)
     /\ Goto(Producer, "arm")
     /\ preg' = [r EXCEPT !.ix = 1]
  \/ /\ r.call = "armed" /\ Full(r)
     /\ Goto(Producer, "hlt")
     /\ preg' = DeadProducer
  \/ /\ r.call # "publish" /\ ~Full(r)
     /\ Goto(Producer, "idle")
     /\ preg' = DeadProducer

(* emitReliableTopicMinCursor: each further cursor is read by the compare   *)
(* and, when smaller than the minimum so far, read again by the load.       *)
MinDone(r) ==
  \/ r.ix < NumSubscribers /\ Goto(Producer, "min") /\ preg' = [r EXCEPT !.ix = @ + 1]
  \/ r.ix = NumSubscribers /\ Gate(r)

(* Variant: the inverted branch keeps the larger cursor.                     *)
MinCompareInverted ==
  /\ pc[Producer] = "min"
  /\ LET c == Load(Producer, Cursor(preg.ix)) IN
       \/ preg.ix = 1 /\ MinDone([preg EXCEPT !.min = c])
       \/ preg.ix > 1 /\ preg.min >= c /\ MinDone(preg)
       \/ preg.ix > 1 /\ preg.min < c /\ Goto(Producer, "reload") /\ UNCHANGED preg
  /\ UNCHANGED <<mem, sb, irr, sreg, log, recv>>

MinCompare ==
  /\ pc[Producer] = "min"
  /\ LET c == Load(Producer, Cursor(preg.ix)) IN
       \/ preg.ix = 1 /\ MinDone([preg EXCEPT !.min = c])
       \/ preg.ix > 1 /\ preg.min <= c /\ MinDone(preg)
       \/ preg.ix > 1 /\ preg.min > c /\ Goto(Producer, "reload") /\ UNCHANGED preg
  /\ UNCHANGED <<mem, sb, irr, sreg, log, recv>>

MinReload ==
  /\ pc[Producer] = "reload"
  /\ MinDone([preg EXCEPT !.min = Load(Producer, Cursor(preg.ix))])
  /\ UNCHANGED <<mem, sb, irr, sreg, log, recv>>

PublishStoreSeq ==
  /\ pc[Producer] = "seq"
  /\ Store(Producer, SlotSeq(preg.seq % Depth), preg.seq + 1)
  /\ preg' = [preg EXCEPT !.seq = @ + 1]
  /\ Goto(Producer, "value")
  /\ UNCHANGED <<irr, sreg, log, recv>>

PublishStoreValue ==
  /\ pc[Producer] = "value"
  /\ Store(Producer, SlotValue((preg.seq - 1) % Depth), preg.val)
  /\ Goto(Producer, "head")
  /\ UNCHANGED <<irr, preg, sreg, log, recv>>

PublishStoreHead ==
  /\ pc[Producer] = "head"
  /\ Fenced(Producer)
  /\ Store(Producer, TopicHead, preg.seq)
  /\ log' = Append(log, preg.val)
  /\ preg' = [preg EXCEPT !.val = 0]
  /\ Goto(Producer, IF Reliable THEN "disarm" ELSE "touch")
  /\ UNCHANGED <<irr, sreg, recv>>

PublishDisarm ==
  /\ pc[Producer] = "disarm"
  /\ Store(Producer, ProducerWaitline, Disarmed)
  /\ Goto(Producer, "touch")
  /\ UNCHANGED <<irr, preg, sreg, log, recv>>

(* emitTouchSubscriberWaitlinesAndWake.  The first emitWakeSlot overwrites  *)
(* the base register (rax) and the sequence register (r10), and the         *)
(* subscribers after it are looked up with what it left there.              *)
TouchedLine == IF preg.based THEN Waitline(preg.ix) ELSE Low(preg.ix)

TouchDone(r) ==
  /\ preg' = IF r.ix = NumSubscribers THEN DeadProducer ELSE [r EXCEPT !.ix = @ + 1]
  /\ Goto(Producer, IF r.ix = NumSubscribers THEN "idle" ELSE "touch")

TouchLoad ==
  /\ pc[Producer] = "touch"
  /\ LET w == Load(Producer, TouchedLine) IN
       \/ w \in {Disarmed, preg.seq} /\ TouchDone(preg)
       \/ w \notin {Disarmed, preg.seq} /\ Goto(Producer, "store") /\ UNCHANGED preg
  /\ UNCHANGED <<mem, sb, irr, sreg, log, recv>>

TouchStore ==
  /\ pc[Producer] = "store"
  /\ Store(Producer, TouchedLine, preg.seq)
  /\ Goto(Producer, "ipi")
  /\ UNCHANGED <<irr, preg, sreg, log, recv>>

(* Variant: the waitline is touched and no IPI follows.                     *)
WakeSubscriberSilent ==
  /\ pc[Producer] = "ipi"
  /\ Fenced(Producer)
  /\ TouchDone(preg)
  /\ UNCHANGED <<mem, sb, irr, sreg, log, recv>>

WakeSubscriber ==
  /\ pc[Producer] = "ipi"
  /\ Fenced(Producer)
  /\ irr' = [irr EXCEPT ![preg.ix] = TRUE]
  /\ TouchDone([preg EXCEPT !.based = FALSE, !.seq = IcrBusyMask])
  /\ UNCHANGED <<mem, sb, sreg, log, recv>>

(***************************************************************************)
(* A full try_publish is retried at once or after waiting for an advance.  *)
(***************************************************************************)
RetryPublish ==
  /\ pc[Producer] = "full"
  /\ Goto(Producer, "idle")
  /\ UNCHANGED <<mem, sb, irr, preg, sreg, log, recv>>

WaitForAdvance ==
  /\ pc[Producer] = "full"
  /\ preg' = [preg EXCEPT !.seq = Load(Producer, TopicHead), !.call = "wait"]
  /\ Goto(Producer, "min")
  /\ UNCHANGED <<mem, sb, irr, sreg, log, recv>>

ArmProducer ==
  /\ pc[Producer] = "arm"
  /\ Store(Producer, ProducerWaitline, preg.min)
  /\ preg' = [preg EXCEPT !.min = 0, !.call = "armed"]
  /\ Goto(Producer, "min")
  /\ UNCHANGED <<irr, sreg, log, recv>>

ProducerStep ==
  \/ PublishLoadHead \/ MinCompare \/ MinReload
  \/ PublishStoreSeq \/ PublishStoreValue \/ PublishStoreHead \/ PublishDisarm
  \/ TouchLoad \/ TouchStore \/ WakeSubscriber
  \/ RetryPublish \/ WaitForAdvance \/ ArmProducer

(***************************************************************************)
(* try_next of subscriber s.                                               *)
(***************************************************************************)
(* What the executor loop does when try_next returns: a message keeps it    *)
(* polling, None ends the drain (then arm) or the re-check (then wait).     *)
Return(s, some) ==
  /\ Goto(s, IF some THEN "next"
             ELSE IF sreg[s].phase = "drain" THEN "arm" ELSE "wait")
  /\ sreg' = [sreg EXCEPT ![s] = DeadSubscriber(@.phase)]

(* The cursor is written by its own subscriber only. *)
NextLoadHead(s) ==
  /\ pc[s] = "next"
  /\ LET c == Load(s, Cursor(s))
         h == Load(s, TopicHead) IN
       \/ c >= h /\ Return(s, FALSE)
       \/ c < h /\ Goto(s, "slot") /\ sreg' = [sreg EXCEPT ![s].cursor = c, ![s].head = h]
  /\ UNCHANGED <<mem, sb, irr, preg, log, recv>>

NextLoadSeq(s) ==
  /\ pc[s] = "slot"
  /\ sreg' = [sreg EXCEPT ![s].cursor = @ + 1]
  /\ Goto(s, IF Load(s, SlotSeq(sreg[s].cursor % Depth)) = sreg[s].cursor + 1
             THEN "copy" ELSE "gap")
  /\ UNCHANGED <<mem, sb, irr, preg, log, recv>>

(* Variant: the slot of the incremented cursor.                             *)
NextCopyValueAhead(s) ==
  /\ pc[s] = "copy"
  /\ Fenced(s)
  /\ sreg' = [sreg EXCEPT ![s].val = Load(s, SlotValue(sreg[s].cursor % Depth))]
  /\ Goto(s, "cursor")
  /\ UNCHANGED <<mem, sb, irr, preg, log, recv>>

NextCopyValue(s) ==
  /\ pc[s] = "copy"
  /\ Fenced(s)
  /\ sreg' = [sreg EXCEPT ![s].val = Load(s, SlotValue((sreg[s].cursor - 1) % Depth))]
  /\ Goto(s, "cursor")
  /\ UNCHANGED <<mem, sb, irr, preg, log, recv>>

NextStoreCursor(s) ==
  /\ pc[s] = "cursor"
  /\ Store(s, Cursor(s), sreg[s].cursor)
  /\ recv' = [recv EXCEPT ![s] =
                Append(@, [seq |-> sreg[s].cursor, val |-> sreg[s].val])]
  /\ sreg' = [sreg EXCEPT ![s].some = TRUE, ![s].head = 0, ![s].val = 0]
  /\ Goto(s, "disarm")
  /\ UNCHANGED <<irr, preg, log>>

NextSkipGap(s) ==
  /\ pc[s] = "gap"
  /\ Store(s, Cursor(s), sreg[s].head)
  /\ sreg' = [sreg EXCEPT ![s].cursor = sreg[s].head, ![s].head = 0]
  /\ Goto(s, "disarm")
  /\ UNCHANGED <<irr, preg, log, recv>>

NextDisarm(s) ==
  /\ pc[s] = "disarm"
  /\ Store(s, Waitline(s), Disarmed)
  /\ \/ Reliable /\ Goto(s, "pwait") /\ UNCHANGED sreg
     \/ ~Reliable /\ Return(s, sreg[s].some)
  /\ UNCHANGED <<irr, preg, log, recv>>

(* emitWakeProducerSlots *)
NextLoadProducerWaitline(s) ==
  /\ pc[s] = "pwait"
  /\ LET w == Load(s, ProducerWaitline) IN
       \/ w \in {Disarmed, sreg[s].cursor} /\ Return(s, sreg[s].some)
       \/ w \notin {Disarmed, sreg[s].cursor} /\ Goto(s, "pstore") /\ UNCHANGED sreg
  /\ UNCHANGED <<mem, sb, irr, preg, log, recv>>

NextStoreProducerWaitline(s) ==
  /\ pc[s] = "pstore"
  /\ Store(s, ProducerWaitline, sreg[s].cursor)
  /\ Goto(s, "pipi")
  /\ UNCHANGED <<irr, preg, sreg, log, recv>>

WakeProducer(s) ==
  /\ pc[s] = "pipi"
  /\ Fenced(s)
  /\ irr' = [irr EXCEPT ![Producer] = TRUE]
  /\ Return(s, sreg[s].some)
  /\ UNCHANGED <<mem, sb, preg, log, recv>>

(***************************************************************************)
(* arm_wait, then the guarded wait the lowering makes of                   *)
(* "if is_wait_armed() { loop.wait() }": cli, the two loads, sti; hlt or   *)
(* sti.  The cursor is written by its own subscriber only.                 *)
(***************************************************************************)
ArmLoadHead(s) ==
  /\ pc[s] = "arm"
  /\ sreg' = [sreg EXCEPT ![s].head = Load(s, TopicHead)]
  /\ Goto(s, "armstore")
  /\ UNCHANGED <<mem, sb, irr, preg, log, recv>>

(* Variant: waits without the re-check.                                      *)
ArmStoreWaitlineUnchecked(s) ==
  /\ pc[s] = "armstore"
  /\ Store(s, Waitline(s), sreg[s].head)
  /\ sreg' = [sreg EXCEPT ![s] = DeadSubscriber("recheck")]
  /\ Goto(s, "wait")
  /\ UNCHANGED <<irr, preg, log, recv>>

ArmStoreWaitline(s) ==
  /\ pc[s] = "armstore"
  /\ Store(s, Waitline(s), sreg[s].head)
  /\ sreg' = [sreg EXCEPT ![s] = DeadSubscriber("recheck")]
  /\ Goto(s, "next")
  /\ UNCHANGED <<irr, preg, log, recv>>

WaitIfArmed(s) ==
  /\ pc[s] = "wait"
  /\ LET w == Load(s, Waitline(s)) IN
       Goto(s, IF w # Disarmed /\ Load(s, Cursor(s)) = w THEN "hlt" ELSE "next")
  /\ sreg' = [sreg EXCEPT ![s].phase = "drain"]
  /\ UNCHANGED <<mem, sb, irr, preg, log, recv>>

SubscriberStep(s) ==
  \/ NextLoadHead(s) \/ NextLoadSeq(s) \/ NextCopyValue(s)
  \/ NextStoreCursor(s) \/ NextSkipGap(s) \/ NextDisarm(s)
  \/ NextLoadProducerWaitline(s) \/ NextStoreProducerWaitline(s) \/ WakeProducer(s)
  \/ ArmLoadHead(s) \/ ArmStoreWaitline(s) \/ WaitIfArmed(s)

(***************************************************************************)
(* The wake vector's handler only acknowledges.  A halted vCPU resumes     *)
(* after it; a vCPU between cli and sti keeps the request pending.  Any     *)
(* other interrupt also ends a hlt.                                        *)
(***************************************************************************)
Masked(c) ==
  c = Producer /\ \/ pc[c] = "arm"
                  \/ preg.call = "armed" /\ pc[c] \in {"min", "reload"}

Resume(c) ==
  IF pc[c] = "hlt"
  THEN Goto(c, IF c = Producer THEN "idle" ELSE "next")
  ELSE UNCHANGED pc

WakeInterrupt(c) ==
  /\ irr[c]
  /\ ~Masked(c)
  /\ irr' = [irr EXCEPT ![c] = FALSE]
  /\ Resume(c)
  /\ UNCHANGED <<mem, sb, preg, sreg, log, recv>>

OtherInterrupt(c) ==
  /\ pc[c] = "hlt"
  /\ Resume(c)
  /\ UNCHANGED <<mem, sb, irr, preg, sreg, log, recv>>

Next ==
  \/ ProducerStep
  \/ \E s \in Subscriber : SubscriberStep(s)
  \/ \E c \in Cpu : Flush(c) \/ WakeInterrupt(c) \/ OtherInterrupt(c)

Spec == Init /\ [][Next]_vars

(* Every vCPU keeps executing, buffered stores drain and pending interrupts *)
(* are delivered.                                                            *)
FairSpec ==
  /\ Spec
  /\ WF_vars(ProducerStep)
  /\ \A s \in Subscriber : WF_vars(SubscriberStep(s))
  /\ \A c \in Cpu : WF_vars(Flush(c)) /\ WF_vars(WakeInterrupt(c))

-----------------------------------------------------------------------------
ProducerLabel ==
  {"idle", "min", "reload", "full", "arm", "hlt", "seq", "value",
   "head", "disarm", "touch", "store", "ipi"}

SubscriberLabel ==
  {"next", "slot", "copy", "cursor", "gap", "disarm", "pwait",
   "pstore", "pipi", "arm", "armstore", "wait", "hlt"}

ProducerRegisters ==
  [seq : Int, min : Int, ix : Subscriber, val : Int, based : BOOLEAN,
   call : {"publish", "wait", "armed"}]

SubscriberRegisters ==
  [cursor : Int, head : Int, val : Int, phase : {"drain", "recheck"}, some : BOOLEAN]

Message == [seq : Int, val : Int]
BufferedStore == [loc : Loc, val : Int]

MemoryOK ==
  /\ mem \in [Loc -> Int]
  /\ sb \in [Cpu -> Seq(BufferedStore)]
  /\ \A c \in Cpu : Len(sb[c]) <= StoreBufferCap

(* Every variable has its type; the store buffers respect their capacity.   *)
TypeOK ==
  /\ MemoryOK
  /\ DOMAIN pc = Cpu
  /\ pc[Producer] \in ProducerLabel
  /\ \A s \in Subscriber : pc[s] \in SubscriberLabel
  /\ irr \in [Cpu -> BOOLEAN]
  /\ preg \in ProducerRegisters
  /\ sreg \in [Subscriber -> SubscriberRegisters]
  /\ log \in Seq(Int)
  /\ recv \in [Subscriber -> Seq(Message)]

(* Reliable topic: every subscriber has received exactly a prefix of what    *)
(* was published, each message once, in order, with the payload that was     *)
(* published under its sequence number.                                      *)
ReliableDelivery ==
  \A s \in Subscriber :
    /\ Len(recv[s]) <= Len(log)
    /\ \A i \in 1 .. Len(recv[s]) : recv[s][i] = [seq |-> i, val |-> log[i]]

(* Reliable topic: no subscriber ever takes the gap branch, so no message is *)
(* dropped by moving a cursor to head.                                       *)
NeverGap == \A s \in Subscriber : pc[s] # "gap"

(* A subscriber halted without a pending wake has nothing to read, unless    *)
(* the publish of it is still on its way to the subscriber's waitline.       *)
Touching(s) ==
  /\ pc[Producer] \in {"disarm", "touch", "store", "ipi"}
  /\ preg.ix <= s

NoLostWakeupOf(s) ==
  pc[s] = "hlt" /\ ~irr[s] /\ ~Touching(s) => Load(s, Cursor(s)) >= mem[TopicHead]
NoLostWakeup == \A s \in Subscriber : NoLostWakeupOf(s)

(* A producer halted without a pending wake really faces a full ring, unless *)
(* a subscriber is still on its way to the producer's waitline.              *)
NoLostAdvance ==
  pc[Producer] = "hlt" /\ ~irr[Producer] =>
    \/ \E s \in Subscriber : mem[TopicHead] - mem[Cursor(s)] >= Depth
    \/ \E s \in Subscriber : pc[s] \in {"disarm", "pwait", "pstore", "pipi"}

(* Gap-detecting topic: a subscriber whose slot the publisher has not begun  *)
(* to overwrite when the payload has been copied receives what was published. *)
KeptUp(s) ==
  Len(log) + (IF pc[Producer] \in {"value", "head"} THEN 1 ELSE 0)
    < sreg[s].cursor + Depth

DeliveredWhileKeptUp ==
  \A s \in Subscriber :
    pc[s] = "cursor" /\ KeptUp(s) =>
      /\ sreg[s].cursor \in 1 .. Len(log)
      /\ sreg[s].val = log[sreg[s].cursor]

(* A cursor never moves back: no message is delivered twice or out of order, *)
(* also when a gap is skipped.                                               *)
CursorsAdvance == [][\A s \in Subscriber : mem'[Cursor(s)] >= mem[Cursor(s)]]_vars

(* A subscriber of a gap-detecting topic catches up with every publication.  *)
EventuallyCaughtUp ==
  \A s \in Subscriber : []<>(Load(s, Cursor(s)) >= mem[TopicHead])

(* Gap-detecting topic: what try_next returns under a sequence number is     *)
(* the payload published under that number.                                  *)
DeliveredAsPublished ==
  \A s \in Subscriber : \A i \in 1 .. Len(recv[s]) :
    recv[s][i].seq <= Len(log) /\ recv[s][i].val = log[recv[s][i].seq]

(* Every published message is eventually received by every subscriber.       *)
EventuallyDelivered ==
  \A s \in Subscriber : \A n \in 1 .. MaxPublish :
    (Len(log) >= n) ~> (Len(recv[s]) >= n)

-----------------------------------------------------------------------------
(* A reliable topic implements the bounded broadcast queue: the head store is *)
(* the publication, the cursor store the delivery.                            *)
Queue == INSTANCE Broadcast
           WITH Subscriber <- Subscriber, Depth <- Depth, Values <- Values, log <- log, recv <- recv
ImplementsBroadcast == Queue!Spec

-----------------------------------------------------------------------------
(***************************************************************************)
(* The inductive invariant behind ReliableDelivery.                        *)
(***************************************************************************)
Published == Len(log)
Received(s) == Len(recv[s])
Target == Published % Depth     \* the slot the next publication fills

(* The stores of c that matter for delivery and are still on their way.     *)
DataLoc == {l \in Loc : l[1] \in {"head", "cursor", "seq", "value"}}
Pending(c) == {e \in {sb[c][i] : i \in 1 .. Len(sb[c])} : e.loc \in DataLoc}

ProducerBuffer ==
  \A e \in Pending(Producer) :
    \/ e.loc = TopicHead /\ e.val = Published
    \/ /\ e.loc = SlotSeq(Target) /\ e.val = Published + 1
       /\ pc[Producer] \in {"value", "head"}
    \/ /\ e.loc = SlotValue(Target) /\ e.val = preg.val
       /\ pc[Producer] = "head"

SubscriberBuffer(s) ==
  \A e \in Pending(s) : e.loc = Cursor(s) /\ e.val = Received(s)

(* A store of v to l by c is in memory or on its way there.                  *)
Stored(c, l, v) == mem[l] = v \/ \E e \in Pending(c) : e.loc = l

(* Visible cursors trail the received counts, which trail the visible head,  *)
(* and no visible cursor is more than Depth behind the publisher.            *)
CursorOrder ==
  /\ mem[TopicHead] <= Published
  /\ Stored(Producer, TopicHead, Published)
  /\ \A s \in Subscriber :
       /\ Published - Depth <= mem[Cursor(s)]
       /\ mem[Cursor(s)] <= Received(s)
       /\ Received(s) <= mem[TopicHead]
       /\ Stored(s, Cursor(s), Received(s))

(* The minimum under computation can be larger than the true minimum, but     *)
(* never hides a subscriber that is a whole ring behind.                      *)
ScanInv ==
  /\ pc[Producer] \in {"min", "reload"} =>
       /\ preg.ix > 1 => preg.min >= Published - Depth
       /\ \A t \in Subscriber :
            t < preg.ix /\ mem[Cursor(t)] = Published - Depth
              => preg.min = Published - Depth
  /\ pc[Producer] = "reload" => preg.ix > 1 /\ preg.min > Published - Depth
  /\ pc[Producer] \in {"seq", "value", "head"} =>
       \A t \in Subscriber : mem[Cursor(t)] > Published - Depth

RegisterInv ==
  /\ pc[Producer] \in {"idle", "full", "hlt", "arm"} => preg.ix = 1
  /\ pc[Producer] \in {"min", "reload", "arm", "seq"} => preg.seq = Published
  /\ pc[Producer] \in {"value", "head"} => preg.seq = Published + 1
  /\ pc[Producer] \in {"min", "reload"} /\ preg.call = "publish" => preg.val \in Values
  /\ pc[Producer] \in {"seq", "value", "head"} => preg.val \in Values

FillInv ==
  /\ pc[Producer] \in {"value", "head"} =>
       Stored(Producer, SlotSeq(Target), Published + 1)
  /\ pc[Producer] = "head" => Stored(Producer, SlotValue(Target), preg.val)

(* Every retained message is intact in memory, except in the slot that is     *)
(* being refilled.                                                            *)
SlotInv ==
  \A q \in 1 .. Published :
    /\ q > Published - Depth
    /\ q = Published + 1 - Depth => pc[Producer] \notin {"value", "head"}
    => /\ mem[SlotSeq((q - 1) % Depth)] = q
       /\ mem[SlotValue((q - 1) % Depth)] = log[q]

SubscriberInv(s) ==
  /\ pc[s] # "gap"
  /\ pc[s] = "slot" => sreg[s].cursor = Received(s) /\ Received(s) < mem[TopicHead]
  /\ pc[s] \in {"copy", "cursor"} =>
       sreg[s].cursor = Received(s) + 1 /\ Received(s) < mem[TopicHead]
  /\ pc[s] = "cursor" => Pending(s) = {} /\ sreg[s].val = log[Received(s) + 1]

DataInv ==
  /\ ProducerBuffer
  /\ \A s \in Subscriber : SubscriberBuffer(s)
  /\ CursorOrder
  /\ ScanInv
  /\ RegisterInv
  /\ FillInv
  /\ SlotInv
  /\ \A s \in Subscriber : SubscriberInv(s)
  /\ ReliableDelivery

ReliableInv == TypeOK /\ DataInv

-----------------------------------------------------------------------------
(***************************************************************************)
(* The inductive invariants behind the wake-ups, for memory without store  *)
(* buffers.  WakeInv is about the first subscriber, the only one whose     *)
(* waitline is looked up with the topic's address after a wake.            *)
(***************************************************************************)
Publishing ==
  pc[Producer] \in {"idle", "min", "reload", "full", "arm", "hlt", "seq", "value", "head"}
WakingFirst(labels) == pc[Producer] \in labels /\ preg.ix = 1

(* Until the first waitline has been dealt with, the registers hold the     *)
(* topic's address and the head just published.                             *)
AddressInv ==
  /\ Publishing => preg.based /\ (pc[Producer] \notin {"min", "reload"} => preg.ix = 1)
  /\ ~Publishing /\ preg.ix = 1 => preg.based /\ preg.seq = mem[TopicHead]

(* A waitline that says its subscriber may sleep while there is a message is *)
(* about to be touched, and a subscriber asleep is woken or armed.           *)
SleepInv ==
  /\ pc[1] \in {"wait", "pwait", "pstore", "pipi"}
       /\ mem[Waitline(1)] # Disarmed /\ mem[Waitline(1)] = mem[Cursor(1)] /\ mem[Cursor(1)] < mem[TopicHead]
       => WakingFirst({"disarm", "touch", "store"})
  /\ pc[1] = "hlt" /\ ~irr[1] =>
       /\ WakingFirst({"ipi"}) \/ (mem[Waitline(1)] = mem[Cursor(1)] /\ mem[Cursor(1)] # Disarmed)
       /\ mem[Cursor(1)] < mem[TopicHead] => WakingFirst({"disarm", "touch", "store", "ipi"})

WakeInv == AddressInv /\ SleepInv

(* The producer waits for an advance: a cursor at Lag is a whole ring behind. *)
Lag == Published - Depth
Armed == pc[Producer] = "hlt" \/ (pc[Producer] \in {"min", "reload"} /\ preg.call = "armed")
Delivering(s) == pc[s] \in {"disarm", "pwait", "pstore", "pipi"}

(* What entitles the producer to halt: the ring is full, or somebody who has *)
(* advanced has still to look at its waitline, or the wake is there.         *)
MayHalt ==
  irr[Producer] \/ \E s \in Subscriber : mem[Cursor(s)] = Lag \/ Delivering(s)

(* What the producer's registers and label say about the ring.               *)
ArmingInv ==
  /\ pc[Producer] \in {"idle", "full", "hlt"} => preg.call = "publish"
  /\ pc[Producer] \in {"min", "reload"} /\ preg.ix > 1 => preg.min >= 0
  /\ pc[Producer] = "arm" => preg.min = Lag
  /\ pc[Producer] = "arm" \/ Armed => Lag >= 0

(* The waitline of an armed producer holds the minimum it waits to pass,     *)
(* until a subscriber has taken it and sends the wake.                       *)
ArmedInv ==
  Armed =>
    /\ mem[ProducerWaitline] = Lag \/ irr[Producer] \/ \E s \in Subscriber : pc[s] = "pipi"
    /\ pc[Producer] = "hlt" \/ (preg.ix > 1 /\ preg.min = Lag) => MayHalt

AdvanceInv ==
  /\ ArmingInv
  /\ ArmedInv
  /\ \A s \in Subscriber : Delivering(s) => sreg[s].cursor = mem[Cursor(s)]
=============================================================================
