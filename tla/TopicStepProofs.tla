-------------------------- MODULE TopicStepProofs ---------------------------
(***************************************************************************)
(* What the steps of a topic preserve.  First the data words of a reliable *)
(* topic: a step that leaves them alone, a store that leaves its buffer,   *)
(* and the stores of a publication and of a delivery, whether they         *)
(* complete at once or wait in a store buffer, preserve its data           *)
(* invariant.  Then the wake-ups, in memory without store buffers: every   *)
(* step preserves the invariant of the first subscriber's sleep, for both  *)
(* topic kinds, and that of the producer of a reliable topic that waits    *)
(* for its subscribers to advance.                                         *)
(***************************************************************************)
EXTENDS Topic, TLAPS

LEMMA Cpus ==
  /\ Producer \in Cpu /\ Subscriber \subseteq Cpu
  /\ \A s \in Subscriber : s # Producer /\ s \in Int
  /\ 1 \in Subscriber /\ NumSubscribers \in Subscriber
  /\ \A s \in Subscriber : s # NumSubscribers => s + 1 \in Subscriber
BY TopicAssumption DEF Producer, Cpu, Subscriber

LEMMA ProducerGoto ==
  ASSUME DOMAIN pc = Cpu, NEW label, Goto(Producer, label)
  PROVE  /\ DOMAIN pc' = Cpu /\ pc'[Producer] = label
         /\ \A s \in Subscriber : pc'[s] = pc[s]
BY Cpus, Zenon DEF Goto

LEMMA SubscriberGoto ==
  ASSUME DOMAIN pc = Cpu, NEW s \in Subscriber, NEW label, Goto(s, label)
  PROVE  /\ DOMAIN pc' = Cpu /\ pc'[s] = label /\ pc'[Producer] = pc[Producer]
         /\ \A t \in Subscriber : t # s => pc'[t] = pc[t]
BY Cpus, Zenon DEF Goto

LEMMA BufferEntry ==
  ASSUME MemoryOK, NEW c \in Cpu, NEW i \in 1 .. Len(sb[c])
  PROVE  sb[c][i].loc \in Loc /\ sb[c][i].val \in Int
<1>1. sb[c] \in Seq(BufferedStore)
  BY Zenon DEF MemoryOK
<1>2. sb[c][i] \in BufferedStore
  BY <1>1
<1> QED BY <1>2, Zenon DEF BufferedStore

(* The locations the code names are locations.                              *)
LEMMA Locations ==
  /\ TopicHead \in Loc /\ ProducerWaitline \in Loc
  /\ \A s \in Subscriber : Cursor(s) \in Loc /\ Waitline(s) \in Loc /\ Low(s) \in Loc
  /\ \A n \in Int : SlotSeq(n % Depth) \in Loc /\ SlotValue(n % Depth) \in Loc
<1>1. \A n \in Int : n % Depth \in Slot
  BY TopicAssumption DEF Slot
<1> QED BY <1>1, Zenon DEF Loc, TopicHead, ProducerWaitline, Cursor, Waitline, Low, SlotSeq, SlotValue

-----------------------------------------------------------------------------
(* Ring arithmetic: two sequence numbers less than Depth apart use different *)
(* slots.                                                                    *)
LEMMA ModDistinct ==
  ASSUME NEW a \in Nat, NEW b \in Nat, a < b, b - a < Depth
  PROVE  a % Depth # b % Depth
<1> DEFINE i == a \div Depth
           j == b \div Depth
           d == j - i
<1>1. Depth \in Nat /\ Depth > 0
  BY TopicAssumption
<1>2. i \in Int /\ j \in Int /\ a % Depth \in Int /\ b % Depth \in Int
      /\ a = Depth * i + (a % Depth) /\ b = Depth * j + (b % Depth)
  BY <1>1
<1> SUFFICES ASSUME a % Depth = b % Depth PROVE FALSE
  OBVIOUS
<1>3. d \in Int /\ b - a = Depth * d
  BY <1>1, <1>2
<1> HIDE DEF d
<1>4. CASE d <= 0
  <2>1. Depth * d <= 0
    BY <1>1, <1>3, <1>4
  <2> QED BY <1>3, <2>1
<1>5. CASE d >= 1
  <2>1. Depth * d >= Depth
    BY <1>1, <1>3, <1>5
  <2> QED BY <1>1, <1>3, <2>1
<1> QED BY <1>3, <1>4, <1>5

LEMMA SlotDistinct ==
  ASSUME NEW q \in Nat, NEW h \in Nat, q >= 1, q <= h, q > h + 1 - Depth
  PROVE  (q - 1) % Depth # h % Depth
<1>1. q - 1 \in Nat /\ q - 1 < h /\ h - (q - 1) < Depth
  BY TopicAssumption
<1> QED BY <1>1, ModDistinct, Zenon

LEMMA DataLocations ==
  /\ TopicHead \in DataLoc
  /\ \A s \in Subscriber : Cursor(s) \in DataLoc
  /\ \A n \in Int : SlotSeq(n % Depth) \in DataLoc /\ SlotValue(n % Depth) \in DataLoc
  /\ ProducerWaitline \in Loc \ DataLoc
  /\ \A s \in Subscriber : Waitline(s) \in Loc \ DataLoc /\ Low(s) \in Loc \ DataLoc
  /\ DataLoc \subseteq Loc
<1>1. /\ \A s : Cursor(s)[1] = "cursor" /\ Waitline(s)[1] = "waitline" /\ Low(s)[1] = "low"
      /\ \A k : SlotSeq(k)[1] = "seq" /\ SlotValue(k)[1] = "value"
      /\ TopicHead[1] = "head" /\ ProducerWaitline[1] = "producer_waitline"
  BY Zenon DEF TopicHead, ProducerWaitline, Cursor, Waitline, Low, SlotSeq, SlotValue
<1> QED BY <1>1, Locations, Zenon DEF DataLoc

LEMMA Distinct ==
  /\ \A s : TopicHead # Cursor(s)
  /\ \A k : TopicHead # SlotSeq(k) /\ TopicHead # SlotValue(k)
  /\ \A s, k : Cursor(s) # SlotSeq(k) /\ Cursor(s) # SlotValue(k)
  /\ \A j, k : SlotSeq(j) # SlotValue(k)
  /\ \A s, t : Cursor(s) = Cursor(t) => s = t
  /\ \A j, k : SlotSeq(j) = SlotSeq(k) => j = k
  /\ \A j, k : SlotValue(j) = SlotValue(k) => j = k
BY Zenon DEF TopicHead, Cursor, SlotSeq, SlotValue

-----------------------------------------------------------------------------
(* No data word changes and no data store is issued or completed.             *)
Quiet ==
  /\ \A l \in DataLoc : mem'[l] = mem[l]
  /\ \A c \in Cpu : Pending(c)' = Pending(c)

(* The data store of v to l by c is completed at once or becomes pending.     *)
Stores(c, l, v) ==
  \/ /\ mem'[l] = v
     /\ \A k \in DataLoc : k # l => mem'[k] = mem[k]
     /\ \A d \in Cpu : Pending(d)' = Pending(d)
  \/ /\ \A k \in DataLoc : mem'[k] = mem[k]
     /\ \A d \in Cpu : d # c => Pending(d)' = Pending(d)
     /\ Pending(c)' = Pending(c) \cup {[loc |-> l, val |-> v]}

(* A pending data store of c completes.                                       *)
Completes(c) ==
  \E e \in Pending(c) :
    /\ mem'[e.loc] = e.val
    /\ \A k \in DataLoc : k # e.loc => mem'[k] = mem[k]
    /\ \A d \in Cpu : d # c => Pending(d)' = Pending(d)
    /\ Pending(c)' \subseteq Pending(c)
    /\ \A f \in Pending(c) : f # e => f \in Pending(c)'

LEMMA AppendPending ==
  ASSUME MemoryOK, NEW c \in Cpu, NEW e \in BufferedStore,
         sb' = [sb EXCEPT ![c] = Append(sb[c], e)]
  PROVE  /\ \A d \in Cpu : d # c => Pending(d)' = Pending(d)
         /\ e.loc \in DataLoc => Pending(c)' = Pending(c) \cup {e}
         /\ e.loc \notin DataLoc => Pending(c)' = Pending(c)
<1> DEFINE All(b) == {b[i] : i \in 1 .. Len(b)}
<1>1. sb[c] \in Seq(BufferedStore) /\ sb'[c] = Append(sb[c], e)
      /\ \A d \in Cpu : d # c => sb'[d] = sb[d]
  BY Zenon DEF MemoryOK
<1>2. All(Append(sb[c], e)) = All(sb[c]) \cup {e}
  <2>1. Len(Append(sb[c], e)) = Len(sb[c]) + 1
        /\ Append(sb[c], e)[Len(sb[c]) + 1] = e
        /\ \A i \in 1 .. Len(sb[c]) : Append(sb[c], e)[i] = sb[c][i]
    BY <1>1
  <2>2. Len(sb[c]) \in Nat
    BY <1>1
  <2>3. ASSUME NEW x \in All(Append(sb[c], e)) PROVE x \in All(sb[c]) \cup {e}
    <3>1. PICK i \in 1 .. Len(sb[c]) + 1 : x = Append(sb[c], e)[i]
      BY <2>1, Zenon
    <3>2. i = Len(sb[c]) + 1 \/ i \in 1 .. Len(sb[c])
      BY <2>2
    <3> QED BY <2>1, <3>1, <3>2, Zenon
  <2>4. ASSUME NEW x \in All(sb[c]) PROVE x \in All(Append(sb[c], e))
    <3>1. PICK i \in 1 .. Len(sb[c]) : x = sb[c][i]
      OBVIOUS
    <3>2. i \in 1 .. Len(Append(sb[c], e)) /\ x = Append(sb[c], e)[i]
      BY <2>1, <2>2, <3>1
    <3> QED BY <3>2, Zenon
  <2>5. e \in All(Append(sb[c], e))
    <3>1. Len(sb[c]) + 1 \in 1 .. Len(Append(sb[c], e))
      BY <2>1, <2>2
    <3> QED BY <2>1, <3>1, Zenon
  <2> HIDE DEF All
  <2> QED BY <2>3, <2>4, <2>5, Zenon
<1>3. \A d \in Cpu : /\ Pending(d) = {f \in All(sb[d]) : f.loc \in DataLoc}
                     /\ Pending(d)' = {f \in All(sb'[d]) : f.loc \in DataLoc}
  BY Zenon DEF Pending
<1> HIDE DEF All
<1>4. \A d \in Cpu : d # c => Pending(d)' = Pending(d)
  BY <1>1, <1>3, Zenon
<1>5. Pending(c) = {f \in All(sb[c]) : f.loc \in DataLoc}
      /\ Pending(c)' = {f \in All(sb[c]) \cup {e} : f.loc \in DataLoc}
  BY <1>1, <1>2, <1>3, Zenon
<1>6. e.loc \in DataLoc => Pending(c)' = Pending(c) \cup {e}
  BY ONLY <1>5, Zenon
<1>7. e.loc \notin DataLoc => Pending(c)' = Pending(c)
  BY ONLY <1>5, Zenon
<1> QED BY <1>4, <1>6, <1>7, Zenon

LEMMA StoreQuiet ==
  ASSUME MemoryOK, NEW c \in Cpu, NEW l \in Loc \ DataLoc, NEW v \in Int, Store(c, l, v)
  PROVE  Quiet
<1>1. CASE mem' = [mem EXCEPT ![l] = v] /\ UNCHANGED sb
  BY <1>1, Zenon DEF MemoryOK, Quiet, Pending, DataLoc
<1>2. CASE sb' = [sb EXCEPT ![c] = Append(@, [loc |-> l, val |-> v])] /\ UNCHANGED mem
  <2> DEFINE e == [loc |-> l, val |-> v]
  <2>1. e \in BufferedStore /\ e.loc = l
    BY Zenon DEF BufferedStore
  <2>2. sb' = [sb EXCEPT ![c] = Append(sb[c], e)]
    BY <1>2, Zenon
  <2> HIDE DEF e
  <2> QED BY <1>2, <2>1, <2>2, AppendPending, Zenon DEF Quiet
<1> QED BY <1>1, <1>2, Zenon DEF Store

LEMMA StoreData ==
  ASSUME MemoryOK, NEW c \in Cpu, NEW l \in DataLoc, NEW v \in Int, Store(c, l, v)
  PROVE  Stores(c, l, v)
<1>0. l \in Loc
  BY Zenon DEF DataLoc
<1>1. CASE mem' = [mem EXCEPT ![l] = v] /\ UNCHANGED sb
  BY <1>0, <1>1, Zenon DEF MemoryOK, Stores, Pending, DataLoc
<1>2. CASE sb' = [sb EXCEPT ![c] = Append(@, [loc |-> l, val |-> v])] /\ UNCHANGED mem
  <2> DEFINE e == [loc |-> l, val |-> v]
  <2>1. e \in BufferedStore /\ e.loc = l
    BY <1>0, Zenon DEF BufferedStore
  <2>2. sb' = [sb EXCEPT ![c] = Append(sb[c], e)]
    BY <1>2, Zenon
  <2>3. /\ \A d \in Cpu : d # c => Pending(d)' = Pending(d)
        /\ Pending(c)' = Pending(c) \cup {e}
    <3> HIDE DEF e
    <3> QED BY <2>1, <2>2, AppendPending, Zenon
  <2> QED BY <1>2, <2>3, Zenon DEF Stores
<1> QED BY <1>1, <1>2, Zenon DEF Store

LEMMA StoreSummary ==
  ASSUME NEW c \in Cpu, NEW l \in DataLoc, NEW v, Stores(c, l, v)
  PROVE  /\ \A k \in DataLoc : k # l => mem'[k] = mem[k]
         /\ mem'[l] = v \/ mem'[l] = mem[l]
         /\ \A d \in Cpu : d # c => Pending(d)' = Pending(d)
         /\ Pending(c)' \subseteq Pending(c) \cup {[loc |-> l, val |-> v]}
         /\ Pending(c) \subseteq Pending(c)'
         /\ mem'[l] = v \/ [loc |-> l, val |-> v] \in Pending(c)'
<1> DEFINE e == [loc |-> l, val |-> v]
<1>1. CASE /\ mem'[l] = v
           /\ \A k \in DataLoc : k # l => mem'[k] = mem[k]
           /\ \A d \in Cpu : Pending(d)' = Pending(d)
  BY <1>1, Zenon
<1>2. CASE /\ \A k \in DataLoc : mem'[k] = mem[k]
           /\ \A d \in Cpu : d # c => Pending(d)' = Pending(d)
           /\ Pending(c)' = Pending(c) \cup {e}
  <2> HIDE DEF e
  <2>1. Pending(c)' \subseteq Pending(c) \cup {e} /\ Pending(c) \subseteq Pending(c)'
        /\ e \in Pending(c)'
    BY <1>2, Zenon
  <2> QED BY <1>2, <2>1, Zenon DEF e
<1> QED BY <1>1, <1>2, Zenon DEF Stores

LEMMA FlushData ==
  ASSUME MemoryOK, NEW c \in Cpu, Flush(c)
  PROVE  Quiet \/ Completes(c)
<1> DEFINE h == Head(sb[c])
           All(b) == {b[i] : i \in 1 .. Len(b)}
<1>1. sb[c] \in Seq(BufferedStore) /\ sb[c] # << >> /\ sb'[c] = Tail(sb[c])
      /\ \A d \in Cpu : d # c => sb'[d] = sb[d]
  BY Zenon DEF Flush, MemoryOK
<1>2. h = sb[c][1] /\ h \in BufferedStore /\ Len(sb[c]) \in Nat /\ Len(sb[c]) >= 1
      /\ Len(Tail(sb[c])) = Len(sb[c]) - 1
      /\ \A i \in 1 .. Len(Tail(sb[c])) : Tail(sb[c])[i] = sb[c][i + 1]
  BY <1>1
<1>3. h.loc \in Loc /\ mem'[h.loc] = h.val /\ \A k \in Loc : k # h.loc => mem'[k] = mem[k]
  BY <1>2, Zenon DEF Flush, MemoryOK, BufferedStore
<1>4. All(sb'[c]) \subseteq All(sb[c])
  <2> SUFFICES ASSUME NEW i \in 1 .. Len(Tail(sb[c])) PROVE Tail(sb[c])[i] \in All(sb[c])
    BY <1>1, Zenon
  <2>1. i + 1 \in 1 .. Len(sb[c])
    BY <1>2
  <2> QED BY <1>2, <2>1, Zenon
<1>5. \A f \in All(sb[c]) : f # h => f \in All(sb'[c])
  <2> SUFFICES ASSUME NEW i \in 1 .. Len(sb[c]), sb[c][i] # h PROVE sb[c][i] \in All(sb'[c])
    OBVIOUS
  <2>1. i # 1 /\ i - 1 \in 1 .. Len(Tail(sb[c])) /\ (i - 1) + 1 = i
    BY <1>2
  <2>2. Tail(sb[c])[i - 1] = sb[c][i]
    BY <1>2, <2>1, Zenon
  <2> QED BY <1>1, <2>1, <2>2, Zenon
<1>6. h \in All(sb[c])
  BY <1>2
<1>7. \A d \in Cpu : /\ Pending(d) = {f \in All(sb[d]) : f.loc \in DataLoc}
                     /\ Pending(d)' = {f \in All(sb'[d]) : f.loc \in DataLoc}
  BY Zenon DEF Pending
<1> HIDE DEF All, h
<1>8. CASE h.loc \in DataLoc
  <2>1. h \in Pending(c) /\ Pending(c)' \subseteq Pending(c)
    BY <1>4, <1>6, <1>7, <1>8, Zenon
  <2>2. \A f \in Pending(c) : f # h => f \in Pending(c)'
    BY <1>5, <1>7, Zenon
  <2>3. \A d \in Cpu : d # c => Pending(d)' = Pending(d)
    BY <1>1, <1>7, Zenon
  <2>4. \A k \in DataLoc : k # h.loc => mem'[k] = mem[k]
    BY <1>3, DataLocations, Zenon
  <2> QED BY <1>3, <2>1, <2>2, <2>3, <2>4, Zenon DEF Completes
<1>9. CASE h.loc \notin DataLoc
  <2>1. Pending(c)' = Pending(c)
    BY <1>4, <1>5, <1>7, <1>9, Zenon
  <2>2. \A d \in Cpu : d # c => Pending(d)' = Pending(d)
    BY <1>1, <1>7, Zenon
  <2>3. \A k \in DataLoc : mem'[k] = mem[k]
    BY <1>3, <1>9, DataLocations, Zenon
  <2> QED BY <2>1, <2>2, <2>3, Zenon DEF Quiet
<1> QED BY <1>8, <1>9, Zenon

-----------------------------------------------------------------------------
LEMMA Numbers ==
  ASSUME TypeOK
  PROVE  /\ Published \in Nat /\ Target \in Int /\ Depth \in Nat /\ Depth > 0
         /\ \A s \in Subscriber : Received(s) \in Nat
         /\ \A l \in DataLoc : mem[l] \in Int
         /\ preg.seq \in Int /\ preg.min \in Int /\ preg.val \in Int /\ preg.ix \in Subscriber
<1>1. Published \in Nat /\ Depth \in Nat /\ Depth > 0
  BY TopicAssumption DEF TypeOK, Published
<1>2. Target \in Int
  BY <1>1 DEF Target
<1>3. \A s \in Subscriber : Received(s) \in Nat
  BY DEF TypeOK, Received
<1>4. \A l \in DataLoc : mem[l] \in Int
  BY Zenon DEF TypeOK, MemoryOK, DataLoc
<1>5. preg.seq \in Int /\ preg.min \in Int /\ preg.val \in Int /\ preg.ix \in Subscriber
  BY Zenon DEF TypeOK, ProducerRegisters
<1> QED BY <1>1, <1>2, <1>3, <1>4, <1>5, Zenon

(* The steps that fill the target slot.                                       *)
LEMMA TargetLocations ==
  ASSUME TypeOK
  PROVE  /\ SlotSeq(Target) \in DataLoc /\ SlotValue(Target) \in DataLoc
         /\ \A q \in 1 .. Published :
              /\ SlotSeq((q - 1) % Depth) \in DataLoc
              /\ SlotValue((q - 1) % Depth) \in DataLoc
              /\ q > Published + 1 - Depth =>
                   /\ SlotSeq((q - 1) % Depth) # SlotSeq(Target)
                   /\ SlotValue((q - 1) % Depth) # SlotValue(Target)
<1>1. Published \in Nat
  BY Numbers, Zenon
<1>2. SlotSeq(Target) \in DataLoc /\ SlotValue(Target) \in DataLoc
  BY <1>1, DataLocations DEF Target
<1>3. ASSUME NEW q \in 1 .. Published
      PROVE  /\ SlotSeq((q - 1) % Depth) \in DataLoc
             /\ SlotValue((q - 1) % Depth) \in DataLoc
             /\ q > Published + 1 - Depth =>
                  /\ SlotSeq((q - 1) % Depth) # SlotSeq(Target)
                  /\ SlotValue((q - 1) % Depth) # SlotValue(Target)
  <2>1. q - 1 \in Int /\ q \in Nat /\ q >= 1 /\ q <= Published
    BY <1>1
  <2>2. q > Published + 1 - Depth => (q - 1) % Depth # Target
    BY <1>1, <2>1, SlotDistinct, Zenon DEF Target
  <2> QED BY <2>1, <2>2, DataLocations, Distinct, Zenon
<1> QED BY <1>2, <1>3, Zenon

(* Steps that leave the data alone.                                           *)
LEMMA QuietData ==
  ASSUME TypeOK, DataInv, Quiet, UNCHANGED <<log, recv>>
  PROVE  /\ Published' = Published /\ Target' = Target
         /\ \A s \in Subscriber : Received(s)' = Received(s)
         /\ \A s \in Subscriber : SubscriberBuffer(s)'
         /\ CursorOrder'
         /\ ReliableDelivery'
<1>1. Published' = Published /\ Target' = Target /\ \A s \in Subscriber : Received(s)' = Received(s)
  BY Zenon DEF Published, Target, Received
<1>2. \A s \in Subscriber : SubscriberBuffer(s)'
  BY <1>1, Cpus, Zenon DEF Quiet, SubscriberBuffer, DataInv
<1>3. CursorOrder'
  BY <1>1, Cpus, DataLocations DEF Quiet, CursorOrder, Stored, DataInv
<1>4. ReliableDelivery'
  BY Zenon DEF ReliableDelivery, DataInv
<1> QED BY <1>1, <1>2, <1>3, <1>4, Zenon

LEMMA QuietSlots ==
  ASSUME TypeOK, SlotInv, Quiet, UNCHANGED log,
         pc'[Producer] \in {"value", "head"} <=> pc[Producer] \in {"value", "head"}
  PROVE  SlotInv'
<1>1. Published' = Published /\ Published \in Nat
  BY Numbers, Zenon DEF Published
<1>2. \A q \in 1 .. Published : SlotSeq((q - 1) % Depth) \in DataLoc /\ SlotValue((q - 1) % Depth) \in DataLoc
  <2> SUFFICES ASSUME NEW q \in 1 .. Published
               PROVE  SlotSeq((q - 1) % Depth) \in DataLoc /\ SlotValue((q - 1) % Depth) \in DataLoc
    OBVIOUS
  <2>1. q - 1 \in Int
    BY <1>1
  <2> QED BY <2>1, DataLocations, Zenon
<1>3. \A q \in 1 .. Published : /\ mem'[SlotSeq((q - 1) % Depth)] = mem[SlotSeq((q - 1) % Depth)]
                                /\ mem'[SlotValue((q - 1) % Depth)] = mem[SlotValue((q - 1) % Depth)]
  BY <1>2, Zenon DEF Quiet
<1> QED BY <1>1, <1>3, Zenon DEF SlotInv

LEMMA ProducerMove ==
  ASSUME TypeOK, DataInv, Quiet, UNCHANGED <<sreg, log, recv>>,
         \A s \in Subscriber : pc'[s] = pc[s],
         pc[Producer] \notin {"value", "head"}, pc'[Producer] \notin {"value", "head"},
         ScanInv', RegisterInv'
  PROVE  DataInv'
<1>1. /\ Published' = Published /\ Target' = Target
      /\ \A s \in Subscriber : Received(s)' = Received(s)
      /\ \A s \in Subscriber : SubscriberBuffer(s)'
      /\ CursorOrder' /\ ReliableDelivery'
  BY QuietData, Zenon
<1>2. ProducerBuffer'
  BY <1>1, Cpus, Zenon DEF ProducerBuffer, DataInv, Quiet
<1>3. FillInv'
  BY Zenon DEF FillInv
<1>4. SlotInv'
  BY QuietSlots, Zenon DEF DataInv
<1>5. \A s \in Subscriber : SubscriberInv(s)'
  BY <1>1, Cpus, DataLocations DEF SubscriberInv, DataInv, Quiet
<1> QED BY <1>1, <1>2, <1>3, <1>4, <1>5, Zenon DEF DataInv

LEMMA SubscriberMove ==
  ASSUME TypeOK, DataInv, Quiet, UNCHANGED <<preg, log, recv>>,
         NEW s \in Subscriber, pc'[Producer] = pc[Producer],
         \A t \in Subscriber : t # s => pc'[t] = pc[t] /\ sreg'[t] = sreg[t],
         SubscriberInv(s)'
  PROVE  DataInv'
<1>1. /\ Published' = Published /\ Target' = Target
      /\ \A t \in Subscriber : Received(t)' = Received(t)
      /\ \A t \in Subscriber : SubscriberBuffer(t)'
      /\ CursorOrder' /\ ReliableDelivery'
  BY QuietData, Zenon
<1>2. ProducerBuffer'
  BY <1>1, Cpus, Zenon DEF ProducerBuffer, DataInv, Quiet
<1>3. FillInv'
  <2>1. SlotSeq(Target) \in DataLoc /\ SlotValue(Target) \in DataLoc
    BY Numbers, DataLocations DEF Target
  <2> QED BY <1>1, <2>1, Cpus, Zenon DEF FillInv, Stored, DataInv, Quiet
<1>4. SlotInv'
  BY QuietSlots, Zenon DEF DataInv
<1>5. ScanInv'
  BY <1>1, DataLocations, Zenon DEF ScanInv, DataInv, Quiet
<1>6. RegisterInv'
  BY <1>1, Zenon DEF RegisterInv, DataInv
<1>7. \A t \in Subscriber : SubscriberInv(t)'
  <2> SUFFICES ASSUME NEW t \in Subscriber, t # s PROVE SubscriberInv(t)'
    OBVIOUS
  <2> QED BY <1>1, Cpus, DataLocations DEF SubscriberInv, DataInv, Quiet
<1> QED BY <1>1, <1>2, <1>3, <1>4, <1>5, <1>6, <1>7, Zenon DEF DataInv

(* A step in which no vCPU moves and no data word or data store changes.      *)
LEMMA Stutter ==
  ASSUME TypeOK, DataInv, Quiet, UNCHANGED <<pc, preg, sreg, log, recv>>
  PROVE  DataInv'
<1>1. 1 \in Subscriber /\ 1 \in Cpu
  BY Cpus, Zenon
<1>2. /\ pc'[1] = pc[1] /\ sreg'[1] = sreg[1] /\ log' = log /\ Received(1)' = Received(1)
      /\ mem'[TopicHead] = mem[TopicHead] /\ Pending(1)' = Pending(1)
  BY <1>1, DataLocations, Zenon DEF Received, Quiet
<1>3. SubscriberInv(1)
  BY <1>1, Zenon DEF DataInv
<1>4. SubscriberInv(1)'
  BY <1>2, <1>3, Zenon DEF SubscriberInv
<1> QED BY <1>1, <1>4, SubscriberMove, Zenon

-----------------------------------------------------------------------------
(* The scan of the cursors and the decision on it.                            *)
ScannedTo(r) ==
  /\ r.seq = Published
  /\ r.min >= Published - Depth
  /\ \A t \in Subscriber :
       t <= r.ix /\ mem[Cursor(t)] = Published - Depth => r.min = Published - Depth
  /\ r.call = "publish" => r.val \in Values

LEMMA GateSafe ==
  ASSUME TypeOK, DataInv, NEW r \in ProducerRegisters, ScannedTo(r), r.ix = NumSubscribers,
         Gate(r), UNCHANGED <<mem, log>>
  PROVE  /\ ScanInv' /\ RegisterInv' /\ pc'[Producer] \notin {"value", "head"}
         /\ \A s \in Subscriber : pc'[s] = pc[s]
<1>1. /\ Published \in Nat /\ Depth \in Nat /\ Published' = Published /\ DOMAIN pc = Cpu
      /\ r.seq \in Int /\ r.min \in Int
      /\ \A t \in Subscriber : mem[Cursor(t)] \in Int
  BY Numbers, DataLocations, Zenon DEF TypeOK, Published, ProducerRegisters
<1>2. \A t \in Subscriber : t <= r.ix
  BY TopicAssumption DEF Subscriber
<1>3. ~Full(r) => \A t \in Subscriber : mem[Cursor(t)] > Published - Depth
  <2> SUFFICES ASSUME ~Full(r), NEW t \in Subscriber PROVE mem[Cursor(t)] > Published - Depth
    OBVIOUS
  <2>1. r.min > Published - Depth
    BY <1>1 DEF Full, ScannedTo
  <2>2. mem[Cursor(t)] # Published - Depth
    BY <1>1, <1>2, <2>1 DEF ScannedTo
  <2>3. mem[Cursor(t)] >= Published - Depth
    BY <1>1, Zenon DEF DataInv, CursorOrder
  <2> QED BY <1>1, <2>2, <2>3
<1>4. CASE /\ r.call = "publish" /\ ~Full(r)
           /\ Goto(Producer, "seq")
           /\ preg' = [r EXCEPT !.min = 0, !.ix = 1]
  <2>1. preg'.seq = r.seq /\ preg'.val = r.val
    BY <1>4, Zenon DEF ProducerRegisters
  <2> QED BY <1>1, <1>3, <1>4, <2>1, ProducerGoto DEF ScanInv, RegisterInv, ScannedTo
<1>5. CASE (Goto(Producer, "full") \/ Goto(Producer, "hlt") \/ Goto(Producer, "idle"))
           /\ preg' = DeadProducer
  <2>1. preg'.ix = 1
    BY <1>5, Zenon DEF DeadProducer
  <2> QED BY <1>1, <1>5, <2>1, ProducerGoto DEF ScanInv, RegisterInv
<1>6. CASE Goto(Producer, "arm") /\ preg' = [r EXCEPT !.ix = 1]
  <2>1. preg'.seq = r.seq /\ preg'.ix = 1
    BY <1>6, Zenon DEF ProducerRegisters
  <2> QED BY <1>1, <1>6, <2>1, ProducerGoto DEF ScanInv, RegisterInv, ScannedTo
<1> QED BY <1>4, <1>5, <1>6, Zenon DEF Gate

LEMMA MinDoneSafe ==
  ASSUME TypeOK, DataInv, NEW r \in ProducerRegisters, ScannedTo(r), MinDone(r),
         UNCHANGED <<mem, log>>
  PROVE  /\ ScanInv' /\ RegisterInv' /\ pc'[Producer] \notin {"value", "head"}
         /\ \A s \in Subscriber : pc'[s] = pc[s]
<1>1. CASE r.ix < NumSubscribers /\ Goto(Producer, "min") /\ preg' = [r EXCEPT !.ix = @ + 1]
  <2>1. /\ preg'.seq = r.seq /\ preg'.min = r.min /\ preg'.ix = r.ix + 1
        /\ preg'.call = r.call /\ preg'.val = r.val
    BY <1>1, Zenon DEF ProducerRegisters
  <2>2. Published' = Published /\ DOMAIN pc = Cpu /\ r.ix \in Int
        /\ \A t \in Subscriber : t \in Int
    BY Cpus, Zenon DEF Published, TypeOK, ProducerRegisters
  <2>3. \A t \in Subscriber : t < r.ix + 1 <=> t <= r.ix
    BY <2>2
  <2> QED BY <1>1, <2>1, <2>2, <2>3, ProducerGoto DEF ScanInv, RegisterInv, ScannedTo
<1>2. CASE r.ix = NumSubscribers /\ Gate(r)
  BY <1>2, GateSafe, Zenon
<1> QED BY <1>1, <1>2, Zenon DEF MinDone

-----------------------------------------------------------------------------
(* Stores reaching memory.                                                    *)
LEMMA StoredCompletes ==
  ASSUME NEW c \in Cpu, NEW l \in DataLoc, NEW v, NEW e \in Pending(c),
         Stored(c, l, v), \A f \in Pending(c) : f.loc = l => f.val = v,
         mem'[e.loc] = e.val, \A k \in DataLoc : k # e.loc => mem'[k] = mem[k],
         \A f \in Pending(c) : f # e => f \in Pending(c)'
  PROVE  mem'[l] = v \/ \E f \in Pending(c)' : f.loc = l
<1>1. CASE e.loc = l
  BY <1>1, Zenon
<1>2. CASE e.loc # l
  BY <1>2, Zenon DEF Stored
<1> QED BY <1>1, <1>2, Zenon

LEMMA ProducerCompletes ==
  ASSUME TypeOK, DataInv, Completes(Producer), UNCHANGED <<pc, preg, sreg, log, recv>>
  PROVE  DataInv'
<1>1. PICK e \in Pending(Producer) :
        /\ mem'[e.loc] = e.val
        /\ \A k \in DataLoc : k # e.loc => mem'[k] = mem[k]
        /\ \A d \in Cpu : d # Producer => Pending(d)' = Pending(d)
        /\ Pending(Producer)' \subseteq Pending(Producer)
        /\ \A f \in Pending(Producer) : f # e => f \in Pending(Producer)'
  BY Zenon DEF Completes
<1>2. /\ Producer \in Cpu /\ Published \in Nat /\ Depth \in Nat /\ mem[TopicHead] \in Int
      /\ \A s \in Subscriber : Received(s) \in Nat
      /\ SlotSeq(Target) \in DataLoc /\ SlotValue(Target) \in DataLoc /\ TopicHead \in DataLoc
  BY Cpus, Numbers, DataLocations, TargetLocations, Zenon
<1>3. /\ Published' = Published /\ Target' = Target
      /\ \A s \in Subscriber : Received(s)' = Received(s)
  BY Zenon DEF Published, Target, Received
<1>4. \/ e.loc = TopicHead /\ e.val = Published
      \/ /\ e.loc = SlotSeq(Target) /\ e.val = Published + 1
         /\ pc[Producer] \in {"value", "head"}
      \/ /\ e.loc = SlotValue(Target) /\ e.val = preg.val
         /\ pc[Producer] = "head"
  BY Zenon DEF DataInv, ProducerBuffer
<1>5. /\ \A f \in Pending(Producer) : f.loc = TopicHead => f.val = Published
      /\ \A f \in Pending(Producer) : f.loc = SlotSeq(Target) => f.val = Published + 1
      /\ \A f \in Pending(Producer) : f.loc = SlotValue(Target) => f.val = preg.val
  BY Distinct DEF DataInv, ProducerBuffer
<1>6. \A s \in Subscriber : mem'[Cursor(s)] = mem[Cursor(s)] /\ Pending(s)' = Pending(s)
  BY <1>1, <1>4, DataLocations, Distinct, Cpus
<1>7. mem'[TopicHead] = mem[TopicHead] \/ mem'[TopicHead] = Published
  BY <1>1, <1>2, <1>4, Distinct, Zenon
<1>8. mem[TopicHead] <= Published
  BY Zenon DEF DataInv, CursorOrder
<1>9. mem'[TopicHead] \in Int /\ mem'[TopicHead] >= mem[TopicHead] /\ mem'[TopicHead] <= Published
  BY <1>2, <1>7, <1>8
<1>10. ProducerBuffer'
  BY <1>1, <1>3, Zenon DEF ProducerBuffer, DataInv
<1>11. \A s \in Subscriber : SubscriberBuffer(s)'
  BY <1>3, <1>6, Zenon DEF SubscriberBuffer, DataInv
<1>12. CursorOrder'
  <2>1. Stored(Producer, TopicHead, Published)'
    <3>1. Stored(Producer, TopicHead, Published)
      BY Zenon DEF DataInv, CursorOrder
    <3> QED BY <1>1, <1>2, <1>3, <1>5, <3>1, StoredCompletes, Zenon DEF Stored
  <2>2. \A s \in Subscriber : Stored(s, Cursor(s), Received(s))'
    BY <1>3, <1>6, Zenon DEF Stored, DataInv, CursorOrder
  <2>3. \A s \in Subscriber : Received(s) <= mem'[TopicHead]
    BY <1>2, <1>9 DEF DataInv, CursorOrder
  <2> QED BY <1>3, <1>6, <1>9, <2>1, <2>2, <2>3, Zenon DEF CursorOrder, DataInv
<1>13. ScanInv'
  BY <1>3, <1>6, Zenon DEF ScanInv, DataInv
<1>14. RegisterInv'
  BY <1>3, Zenon DEF RegisterInv, DataInv
<1>15. FillInv'
  <2>1. pc[Producer] \in {"value", "head"} => Stored(Producer, SlotSeq(Target), Published + 1)'
    <3> SUFFICES ASSUME pc[Producer] \in {"value", "head"}
                 PROVE  Stored(Producer, SlotSeq(Target), Published + 1)'
      OBVIOUS
    <3>1. Stored(Producer, SlotSeq(Target), Published + 1)
      BY Zenon DEF DataInv, FillInv
    <3> QED BY <1>1, <1>2, <1>3, <1>5, <3>1, StoredCompletes, Zenon DEF Stored
  <2>2. pc[Producer] = "head" => Stored(Producer, SlotValue(Target), preg.val)'
    <3> SUFFICES ASSUME pc[Producer] = "head"
                 PROVE  Stored(Producer, SlotValue(Target), preg.val)'
      OBVIOUS
    <3>1. Stored(Producer, SlotValue(Target), preg.val)
      BY Zenon DEF DataInv, FillInv
    <3> QED BY <1>1, <1>2, <1>3, <1>5, <3>1, StoredCompletes DEF Stored
  <2> QED BY <2>1, <2>2, Zenon DEF FillInv
<1>16. SlotInv'
  <2> SUFFICES ASSUME NEW q \in 1 .. Published, q > Published - Depth,
                      q = Published + 1 - Depth => pc[Producer] \notin {"value", "head"}
               PROVE  /\ mem'[SlotSeq((q - 1) % Depth)] = q
                      /\ mem'[SlotValue((q - 1) % Depth)] = log[q]
    BY <1>3, Zenon DEF SlotInv
  <2>1. /\ mem[SlotSeq((q - 1) % Depth)] = q
        /\ mem[SlotValue((q - 1) % Depth)] = log[q]
    BY Zenon DEF SlotInv, DataInv
  <2>2. CASE e.loc = TopicHead
    BY <1>1, <2>1, <2>2, TargetLocations, Distinct, Zenon
  <2>3. CASE pc[Producer] \in {"value", "head"} /\ e.loc \in {SlotSeq(Target), SlotValue(Target)}
    <3>1. q > Published + 1 - Depth
      BY <1>2, <2>3
    <3> QED BY <1>1, <2>1, <2>3, <3>1, TargetLocations, Distinct
  <2> QED BY <1>4, <2>2, <2>3, Zenon
<1>17. \A s \in Subscriber : SubscriberInv(s)'
  <2> SUFFICES ASSUME NEW s \in Subscriber PROVE SubscriberInv(s)'
    OBVIOUS
  <2>1. Received(s) < mem[TopicHead] => Received(s) < mem'[TopicHead]
    BY <1>2, <1>9
  <2> QED BY <1>3, <1>6, <2>1 DEF SubscriberInv, DataInv
<1>18. ReliableDelivery'
  BY Zenon DEF ReliableDelivery, DataInv
<1> QED BY ONLY <1>10, <1>11, <1>12, <1>13, <1>14, <1>15, <1>16, <1>17, <1>18, Zenon DEF DataInv

LEMMA SubscriberCompletes ==
  ASSUME TypeOK, DataInv, NEW s \in Subscriber, Completes(s),
         UNCHANGED <<pc, preg, sreg, log, recv>>
  PROVE  DataInv'
<1>1. PICK e \in Pending(s) :
        /\ mem'[e.loc] = e.val
        /\ \A k \in DataLoc : k # e.loc => mem'[k] = mem[k]
        /\ \A d \in Cpu : d # s => Pending(d)' = Pending(d)
        /\ Pending(s)' \subseteq Pending(s)
        /\ \A f \in Pending(s) : f # e => f \in Pending(s)'
  BY Zenon DEF Completes
<1>2. /\ s \in Cpu /\ Producer \in Cpu /\ s # Producer /\ Published \in Nat /\ Depth \in Nat
      /\ \A t \in Subscriber : Received(t) \in Nat /\ mem[Cursor(t)] \in Int
  BY Cpus, Numbers, DataLocations, Zenon
<1>3. /\ Published' = Published /\ Target' = Target
      /\ \A t \in Subscriber : Received(t)' = Received(t)
  BY Zenon DEF Published, Target, Received
<1>4. e.loc = Cursor(s) /\ e.val = Received(s)
  BY Zenon DEF DataInv, SubscriberBuffer
<1>5. /\ mem'[TopicHead] = mem[TopicHead] /\ Pending(Producer)' = Pending(Producer)
      /\ \A t \in Subscriber : t # s => mem'[Cursor(t)] = mem[Cursor(t)] /\ Pending(t)' = Pending(t)
      /\ mem'[SlotSeq(Target)] = mem[SlotSeq(Target)]
      /\ mem'[SlotValue(Target)] = mem[SlotValue(Target)]
  BY <1>1, <1>2, <1>4, DataLocations, TargetLocations, Distinct, Cpus, Zenon
<1>6. /\ mem'[Cursor(s)] = Received(s)
      /\ mem[Cursor(s)] <= Received(s) /\ Published - Depth <= mem[Cursor(s)]
  BY <1>1, <1>4, Zenon DEF DataInv, CursorOrder
<1>7. \A t \in Subscriber : mem'[Cursor(t)] >= mem[Cursor(t)] /\ mem'[Cursor(t)] \in Int
  BY <1>2, <1>5, <1>6
<1>8. ProducerBuffer'
  BY <1>3, <1>5, Zenon DEF ProducerBuffer, DataInv
<1>9. \A t \in Subscriber : SubscriberBuffer(t)'
  BY <1>1, <1>3, <1>5, Zenon DEF SubscriberBuffer, DataInv
<1>10. CursorOrder'
  <2>1. Stored(Producer, TopicHead, Published)'
    BY <1>3, <1>5, Zenon DEF Stored, DataInv, CursorOrder
  <2>2. \A t \in Subscriber : Stored(t, Cursor(t), Received(t))'
    BY <1>3, <1>5, <1>6, Zenon DEF Stored, DataInv, CursorOrder
  <2>3. ASSUME NEW t \in Subscriber
        PROVE  /\ Published - Depth <= mem'[Cursor(t)]
               /\ mem'[Cursor(t)] <= Received(t)
               /\ Received(t) <= mem[TopicHead]
    <3>1. CASE t = s
      BY <1>2, <1>6, <3>1 DEF DataInv, CursorOrder
    <3>2. CASE t # s
      BY <1>5, <3>2, Zenon DEF DataInv, CursorOrder
    <3> QED BY <3>1, <3>2, Zenon
  <2>4. mem[TopicHead] <= Published
    BY Zenon DEF DataInv, CursorOrder
  <2> QED BY <1>3, <1>5, <2>1, <2>2, <2>3, <2>4, Zenon DEF CursorOrder
<1>11. ScanInv'
  <2>1. \A t \in Subscriber :
          /\ mem'[Cursor(t)] = Published - Depth => mem[Cursor(t)] = Published - Depth
          /\ mem[Cursor(t)] > Published - Depth => mem'[Cursor(t)] > Published - Depth
    <3> SUFFICES ASSUME NEW t \in Subscriber
                 PROVE  /\ mem'[Cursor(t)] = Published - Depth => mem[Cursor(t)] = Published - Depth
                        /\ mem[Cursor(t)] > Published - Depth => mem'[Cursor(t)] > Published - Depth
      OBVIOUS
    <3>1. mem[Cursor(t)] >= Published - Depth
      BY Zenon DEF DataInv, CursorOrder
    <3> QED BY <1>2, <1>7, <3>1
  <2> QED BY <1>3, <2>1, Zenon DEF ScanInv, DataInv
<1>12. RegisterInv'
  BY <1>3, Zenon DEF RegisterInv, DataInv
<1>13. FillInv'
  BY <1>3, <1>5, Zenon DEF FillInv, Stored, DataInv
<1>14. SlotInv'
  <2>1. \A q \in 1 .. Published :
           /\ mem'[SlotSeq((q - 1) % Depth)] = mem[SlotSeq((q - 1) % Depth)]
           /\ mem'[SlotValue((q - 1) % Depth)] = mem[SlotValue((q - 1) % Depth)]
    BY <1>1, <1>4, TargetLocations, Distinct, Zenon
  <2> QED BY <1>3, <2>1, Zenon DEF SlotInv, DataInv
<1>15. \A t \in Subscriber : SubscriberInv(t)'
  <2>1. Pending(s) = {} => Pending(s)' = {}
    BY <1>1, Zenon
  <2> QED BY <1>3, <1>5, <2>1 DEF SubscriberInv, DataInv
<1>16. ReliableDelivery'
  BY Zenon DEF ReliableDelivery, DataInv
<1> QED BY ONLY <1>8, <1>9, <1>10, <1>11, <1>12, <1>13, <1>14, <1>15, <1>16, Zenon DEF DataInv

LEMMA FlushStep ==
  ASSUME TypeOK, DataInv, NEW c \in Cpu, Flush(c)
  PROVE  DataInv'
<1>1. MemoryOK /\ UNCHANGED <<pc, preg, sreg, log, recv>>
  BY Zenon DEF TypeOK, Flush
<1>2. CASE Quiet
  BY <1>1, <1>2, Stutter, Zenon
<1>3. CASE Completes(c)
  <2>1. c = Producer \/ c \in Subscriber
    BY TopicAssumption DEF Cpu, Subscriber, Producer
  <2> QED BY <1>1, <1>3, <2>1, ProducerCompletes, SubscriberCompletes, Zenon
<1> QED BY <1>1, <1>2, <1>3, FlushData, Zenon
-----------------------------------------------------------------------------
LEMMA PublishStoreSeqStep ==
  ASSUME TypeOK, DataInv, PublishStoreSeq
  PROVE  DataInv'
<1> DEFINE l == SlotSeq(Target)
           e == [loc |-> l, val |-> Published + 1]
<1>1. /\ MemoryOK /\ Producer \in Cpu /\ DOMAIN pc = Cpu /\ Published \in Nat /\ Depth \in Nat
      /\ preg \in ProducerRegisters /\ preg.seq \in Int
  BY Cpus, Numbers, Zenon DEF TypeOK
<1>2. preg.seq = Published /\ pc[Producer] = "seq" /\ preg.val \in Values
      /\ \A t \in Subscriber : mem[Cursor(t)] > Published - Depth
  BY Zenon DEF PublishStoreSeq, DataInv, RegisterInv, ScanInv
<1>3. /\ UNCHANGED <<sreg, log, recv>> /\ Published' = Published /\ Target' = Target
      /\ \A s \in Subscriber : Received(s)' = Received(s)
      /\ pc'[Producer] = "value" /\ \A s \in Subscriber : pc'[s] = pc[s]
      /\ preg'.seq = Published + 1 /\ preg'.val = preg.val
  BY <1>1, <1>2, ProducerGoto, Zenon DEF PublishStoreSeq, Published, Target, Received, ProducerRegisters
<1>4. l \in DataLoc
  BY TargetLocations, Zenon
<1>5. Stores(Producer, l, Published + 1)
  <2>1. Store(Producer, l, Published + 1) /\ Published + 1 \in Int
    BY <1>1, <1>2 DEF PublishStoreSeq, Target
  <2> QED BY <1>1, <1>4, <2>1, StoreData, Zenon
<1>6. /\ \A k \in DataLoc : k # l => mem'[k] = mem[k]
      /\ \A d \in Cpu : d # Producer => Pending(d)' = Pending(d)
      /\ Pending(Producer)' \subseteq Pending(Producer) \cup {e}
      /\ Pending(Producer) \subseteq Pending(Producer)'
      /\ mem'[l] = Published + 1 \/ e \in Pending(Producer)'
  BY <1>1, <1>4, <1>5, StoreSummary
<1>7. /\ mem'[TopicHead] = mem[TopicHead]
      /\ \A s \in Subscriber : mem'[Cursor(s)] = mem[Cursor(s)] /\ Pending(s)' = Pending(s)
  BY <1>6, DataLocations, Distinct, Cpus, Zenon
<1>8. ProducerBuffer'
  <2> SUFFICES ASSUME NEW f \in Pending(Producer)'
               PROVE  \/ f.loc = TopicHead /\ f.val = Published
                      \/ f.loc = SlotSeq(Target) /\ f.val = Published + 1
    BY <1>3, Zenon DEF ProducerBuffer
  <2>1. CASE f \in Pending(Producer)
    BY <1>2, <2>1, Zenon DEF DataInv, ProducerBuffer
  <2>2. CASE f = e
    BY <2>2, Zenon
  <2> QED BY <1>6, <2>1, <2>2, Zenon
<1> HIDE DEF l
<1>9. \A s \in Subscriber : SubscriberBuffer(s)'
  BY <1>3, <1>7, Zenon DEF SubscriberBuffer, DataInv
<1>10. CursorOrder'
  <2>1. Stored(Producer, TopicHead, Published)'
    BY <1>3, <1>6, <1>7, Zenon DEF Stored, DataInv, CursorOrder
  <2>2. \A s \in Subscriber : Stored(s, Cursor(s), Received(s))'
    BY <1>3, <1>7, Zenon DEF Stored, DataInv, CursorOrder
  <2> QED BY <1>3, <1>7, <2>1, <2>2, Zenon DEF CursorOrder, DataInv
<1>11. ScanInv'
  BY <1>2, <1>3, <1>7, Zenon DEF ScanInv
<1>12. RegisterInv'
  BY <1>2, <1>3, Zenon DEF RegisterInv
<1>13. FillInv'
  BY <1>3, <1>6, Zenon DEF FillInv, Stored, l
<1>14. SlotInv'
  <2> SUFFICES ASSUME NEW q \in 1 .. Published, q > Published - Depth, q # Published + 1 - Depth
               PROVE  /\ mem'[SlotSeq((q - 1) % Depth)] = q
                      /\ mem'[SlotValue((q - 1) % Depth)] = log[q]
    BY <1>3, Zenon DEF SlotInv
  <2>1. q > Published + 1 - Depth
    BY <1>1
  <2>2. /\ mem'[SlotSeq((q - 1) % Depth)] = mem[SlotSeq((q - 1) % Depth)]
        /\ mem'[SlotValue((q - 1) % Depth)] = mem[SlotValue((q - 1) % Depth)]
    BY <1>6, <2>1, TargetLocations, Distinct, Zenon DEF l
  <2> QED BY <2>2, Zenon DEF SlotInv, DataInv
<1>15. \A s \in Subscriber : SubscriberInv(s)'
  BY <1>3, <1>7 DEF SubscriberInv, DataInv
<1>16. ReliableDelivery'
  BY <1>3, Zenon DEF ReliableDelivery, DataInv
<1> QED BY <1>8, <1>9, <1>10, <1>11, <1>12, <1>13, <1>14, <1>15, <1>16, Zenon DEF DataInv

LEMMA PublishStoreValueStep ==
  ASSUME TypeOK, DataInv, PublishStoreValue
  PROVE  DataInv'
<1> DEFINE l == SlotValue(Target)
           e == [loc |-> l, val |-> preg.val]
<1>1. /\ MemoryOK /\ Producer \in Cpu /\ DOMAIN pc = Cpu /\ Published \in Nat /\ Depth \in Nat
      /\ preg.seq \in Int /\ preg.val \in Int
  BY Cpus, Numbers, Zenon DEF TypeOK
<1>2. preg.seq = Published + 1 /\ pc[Producer] = "value" /\ preg.val \in Values
      /\ Stored(Producer, SlotSeq(Target), Published + 1)
      /\ \A t \in Subscriber : mem[Cursor(t)] > Published - Depth
  BY Zenon DEF PublishStoreValue, DataInv, RegisterInv, ScanInv, FillInv
<1>3. /\ UNCHANGED <<preg, sreg, log, recv>> /\ Published' = Published /\ Target' = Target
      /\ \A s \in Subscriber : Received(s)' = Received(s)
      /\ pc'[Producer] = "head" /\ \A s \in Subscriber : pc'[s] = pc[s]
  BY <1>1, ProducerGoto, Zenon DEF PublishStoreValue, Published, Target, Received
<1>4. l \in DataLoc /\ SlotSeq(Target) \in DataLoc
  BY TargetLocations, Zenon
<1>5. Stores(Producer, l, preg.val)
  <2>1. preg.seq - 1 = Published
    BY <1>1, <1>2
  <2>2. Store(Producer, l, preg.val)
    BY <2>1, Zenon DEF PublishStoreValue, Target
  <2> QED BY <1>1, <1>4, <2>2, StoreData, Zenon
<1>6. /\ \A k \in DataLoc : k # l => mem'[k] = mem[k]
      /\ \A d \in Cpu : d # Producer => Pending(d)' = Pending(d)
      /\ Pending(Producer)' \subseteq Pending(Producer) \cup {e}
      /\ Pending(Producer) \subseteq Pending(Producer)'
      /\ mem'[l] = preg.val \/ e \in Pending(Producer)'
  BY <1>1, <1>4, <1>5, StoreSummary
<1>7. /\ mem'[TopicHead] = mem[TopicHead]
      /\ mem'[SlotSeq(Target)] = mem[SlotSeq(Target)]
      /\ \A s \in Subscriber : mem'[Cursor(s)] = mem[Cursor(s)] /\ Pending(s)' = Pending(s)
  BY <1>4, <1>6, DataLocations, Distinct, Cpus, Zenon
<1>8. ProducerBuffer'
  <2> SUFFICES ASSUME NEW f \in Pending(Producer)'
               PROVE  \/ f.loc = TopicHead /\ f.val = Published
                      \/ f.loc = SlotSeq(Target) /\ f.val = Published + 1
                      \/ f.loc = SlotValue(Target) /\ f.val = preg.val
    BY <1>3, Zenon DEF ProducerBuffer
  <2>1. CASE f \in Pending(Producer)
    BY <1>2, <2>1, Zenon DEF DataInv, ProducerBuffer
  <2>2. CASE f = e
    BY <2>2, Zenon
  <2> QED BY <1>6, <2>1, <2>2, Zenon
<1> HIDE DEF l
<1>9. \A s \in Subscriber : SubscriberBuffer(s)'
  BY <1>3, <1>7, Zenon DEF SubscriberBuffer, DataInv
<1>10. CursorOrder'
  <2>1. Stored(Producer, TopicHead, Published)'
    BY <1>3, <1>6, <1>7, Zenon DEF Stored, DataInv, CursorOrder
  <2>2. \A s \in Subscriber : Stored(s, Cursor(s), Received(s))'
    BY <1>3, <1>7, Zenon DEF Stored, DataInv, CursorOrder
  <2> QED BY <1>3, <1>7, <2>1, <2>2, Zenon DEF CursorOrder, DataInv
<1>11. ScanInv'
  BY <1>2, <1>3, <1>7, Zenon DEF ScanInv
<1>12. RegisterInv'
  BY <1>2, <1>3, Zenon DEF RegisterInv
<1>13. FillInv'
  <2>1. Stored(Producer, SlotSeq(Target), Published + 1)'
    BY <1>2, <1>3, <1>6, <1>7, Zenon DEF Stored
  <2>2. Stored(Producer, SlotValue(Target), preg.val)'
    BY <1>3, <1>6, Zenon DEF Stored, l
  <2> QED BY <1>3, <2>1, <2>2, Zenon DEF FillInv
<1>14. SlotInv'
  <2> SUFFICES ASSUME NEW q \in 1 .. Published, q > Published - Depth, q # Published + 1 - Depth
               PROVE  /\ mem'[SlotSeq((q - 1) % Depth)] = q
                      /\ mem'[SlotValue((q - 1) % Depth)] = log[q]
    BY <1>3, Zenon DEF SlotInv
  <2>1. q > Published + 1 - Depth
    BY <1>1
  <2>2. /\ mem'[SlotSeq((q - 1) % Depth)] = mem[SlotSeq((q - 1) % Depth)]
        /\ mem'[SlotValue((q - 1) % Depth)] = mem[SlotValue((q - 1) % Depth)]
    BY <1>6, <2>1, TargetLocations, Distinct, Zenon DEF l
  <2> QED BY <2>2, Zenon DEF SlotInv, DataInv
<1>15. \A s \in Subscriber : SubscriberInv(s)'
  BY <1>3, <1>7 DEF SubscriberInv, DataInv
<1>16. ReliableDelivery'
  BY <1>3, Zenon DEF ReliableDelivery, DataInv
<1> QED BY <1>8, <1>9, <1>10, <1>11, <1>12, <1>13, <1>14, <1>15, <1>16, Zenon DEF DataInv

(* The head store: the publication.                                           *)
LEMMA PublishStoreHeadStep ==
  ASSUME TypeOK, DataInv, Reliable, PublishStoreHead
  PROVE  /\ DataInv'
         /\ \A s \in Subscriber : Published - Received(s) < Depth
         /\ preg.val \in Values /\ log' = Append(log, preg.val) /\ UNCHANGED recv
<1> DEFINE e == [loc |-> TopicHead, val |-> Published + 1]
<1>1. /\ MemoryOK /\ Producer \in Cpu /\ DOMAIN pc = Cpu /\ Published \in Nat /\ Depth \in Nat
      /\ preg \in ProducerRegisters /\ preg.val \in Int /\ log \in Seq(Int)
      /\ \A s \in Subscriber : Received(s) \in Nat /\ mem[Cursor(s)] \in Int
      /\ mem[TopicHead] \in Int
  BY Cpus, Numbers, DataLocations, Zenon DEF TypeOK
<1>2. preg.seq = Published + 1 /\ pc[Producer] = "head" /\ preg.val \in Values
      /\ \A t \in Subscriber : mem[Cursor(t)] > Published - Depth
  BY Zenon DEF PublishStoreHead, DataInv, RegisterInv, ScanInv
<1>3. Pending(Producer) = {}
  <2>1. sb[Producer] = << >>
    BY Zenon DEF PublishStoreHead, Fenced
  <2> QED BY <2>1 DEF Pending
<1>4. mem[SlotSeq(Target)] = Published + 1 /\ mem[SlotValue(Target)] = preg.val
  BY <1>2, <1>3, Zenon DEF DataInv, FillInv, Stored
<1>5. /\ UNCHANGED <<sreg, recv>> /\ log' = Append(log, preg.val)
      /\ \A s \in Subscriber : Received(s)' = Received(s)
      /\ pc'[Producer] = "disarm" /\ \A s \in Subscriber : pc'[s] = pc[s]
  BY <1>1, ProducerGoto, Zenon DEF PublishStoreHead, Received
<1>6. /\ Published' = Published + 1 /\ log'[Published + 1] = preg.val
      /\ \A q \in 1 .. Published : log'[q] = log[q]
  BY <1>1, <1>5 DEF Published
<1>7. Stores(Producer, TopicHead, Published + 1)
  <2>1. Store(Producer, TopicHead, Published + 1) /\ Published + 1 \in Int
    BY <1>1, <1>2 DEF PublishStoreHead
  <2> QED BY <1>1, <2>1, StoreData, DataLocations, Zenon
<1>8. /\ \A k \in DataLoc : k # TopicHead => mem'[k] = mem[k]
      /\ mem'[TopicHead] = Published + 1 \/ mem'[TopicHead] = mem[TopicHead]
      /\ \A d \in Cpu : d # Producer => Pending(d)' = Pending(d)
      /\ Pending(Producer)' \subseteq {e}
      /\ mem'[TopicHead] = Published + 1 \/ e \in Pending(Producer)'
  BY <1>1, <1>3, <1>7, StoreSummary, DataLocations
<1>9. \A s \in Subscriber : mem'[Cursor(s)] = mem[Cursor(s)] /\ Pending(s)' = Pending(s)
  BY <1>8, DataLocations, Distinct, Cpus, Zenon
<1>10. \A s \in Subscriber : /\ mem[Cursor(s)] <= Received(s)
                             /\ Received(s) <= mem[TopicHead]
                             /\ Stored(s, Cursor(s), Received(s))
  BY Zenon DEF DataInv, CursorOrder
<1>11. mem[TopicHead] <= Published
  BY Zenon DEF DataInv, CursorOrder
<1>12. ProducerBuffer'
  BY <1>6, <1>8 DEF ProducerBuffer
<1>13. \A s \in Subscriber : SubscriberBuffer(s)'
  BY <1>5, <1>9, Zenon DEF SubscriberBuffer, DataInv
<1>14. CursorOrder'
  <2>1. Stored(Producer, TopicHead, Published)'
    BY <1>6, <1>8, Zenon DEF Stored
  <2>2. \A s \in Subscriber : Stored(s, Cursor(s), Received(s))'
    BY <1>5, <1>9, <1>10, Zenon DEF Stored
  <2>3. mem'[TopicHead] <= Published + 1 /\ mem'[TopicHead] >= mem[TopicHead]
    BY <1>1, <1>8, <1>11
  <2>4. ASSUME NEW s \in Subscriber
        PROVE  /\ Published' - Depth <= mem'[Cursor(s)]
               /\ mem'[Cursor(s)] <= Received(s)'
               /\ Received(s)' <= mem'[TopicHead]
    <3>1. mem'[TopicHead] \in Int
      BY <1>1, <1>8
    <3>2. /\ Received(s)' = Received(s) /\ mem'[Cursor(s)] = mem[Cursor(s)]
          /\ Published' = Published + 1
          /\ mem[Cursor(s)] > Published - Depth
          /\ mem[Cursor(s)] <= Received(s) /\ Received(s) <= mem[TopicHead]
      BY <1>2, <1>5, <1>6, <1>9, <1>10, Zenon
    <3>3. /\ Received(s) \in Nat /\ mem[Cursor(s)] \in Int /\ mem[TopicHead] \in Int
          /\ Published \in Nat /\ Depth \in Nat
      BY <1>1, Zenon
    <3> QED BY ONLY <2>3, <3>1, <3>2, <3>3
  <2>5. mem'[TopicHead] <= Published'
    BY <1>6, <2>3, Zenon
  <2> QED BY ONLY <2>1, <2>2, <2>4, <2>5, Zenon DEF CursorOrder
<1>15. ScanInv' /\ RegisterInv' /\ FillInv'
  BY <1>5, Zenon DEF ScanInv, RegisterInv, FillInv
<1>16. SlotInv'
  <2> SUFFICES ASSUME NEW q \in 1 .. Published + 1, q > Published + 1 - Depth
               PROVE  /\ mem'[SlotSeq((q - 1) % Depth)] = q
                      /\ mem'[SlotValue((q - 1) % Depth)] = log'[q]
    <3>1. Published' = Published + 1 /\ Published \in Nat /\ Depth \in Nat
      BY <1>1, <1>6, Zenon
    <3> QED BY <3>1 DEF SlotInv
  <2>1. CASE q = Published + 1
    <3>1. q - 1 = Published
      BY <1>1, <2>1
    <3> QED BY <1>4, <1>6, <1>8, <2>1, <3>1, TargetLocations, Distinct, Zenon DEF Target
  <2>2. CASE q # Published + 1
    <3>1. q \in 1 .. Published /\ q > Published - Depth /\ q # Published + 1 - Depth
      BY <1>1, <2>2
    <3>2. /\ mem[SlotSeq((q - 1) % Depth)] = q
          /\ mem[SlotValue((q - 1) % Depth)] = log[q]
      BY <3>1, Zenon DEF SlotInv, DataInv
    <3> QED BY <1>6, <1>8, <3>1, <3>2, TargetLocations, Distinct, Zenon
  <2> QED BY <2>1, <2>2, Zenon
<1>17. \A s \in Subscriber : SubscriberInv(s)'
  <2> SUFFICES ASSUME NEW s \in Subscriber PROVE SubscriberInv(s)'
    OBVIOUS
  <2>1. mem'[TopicHead] >= mem[TopicHead] /\ mem'[TopicHead] \in Int
    BY <1>1, <1>8, <1>11
  <2>2. Received(s) < mem[TopicHead] => Received(s) < mem'[TopicHead]
    BY <1>1, <2>1
  <2>3. Received(s) < mem[TopicHead] => log'[Received(s) + 1] = log[Received(s) + 1]
    BY <1>1, <1>6, <1>11
  <2> QED BY <1>5, <1>9, <2>2, <2>3, Zenon DEF SubscriberInv, DataInv
<1>18. ReliableDelivery'
  <2> SUFFICES ASSUME NEW s \in Subscriber
               PROVE  /\ Received(s) <= Published + 1
                      /\ \A j \in 1 .. Received(s) : recv[s][j] = [seq |-> j, val |-> log'[j]]
    BY <1>5, <1>6, Zenon DEF ReliableDelivery, Received, Published
  <2>1. /\ Received(s) <= Published
        /\ \A j \in 1 .. Received(s) : recv[s][j] = [seq |-> j, val |-> log[j]]
    BY Zenon DEF ReliableDelivery, DataInv, Received, Published
  <2>2. \A j \in 1 .. Received(s) : j \in 1 .. Published
    BY <1>1, <2>1
  <2>3. \A j \in 1 .. Received(s) : log'[j] = log[j]
    BY <1>6, <2>2, Zenon
  <2>4. \A j \in 1 .. Received(s) : recv[s][j] = [seq |-> j, val |-> log'[j]]
    BY <2>1, <2>3, Zenon
  <2>5. Received(s) <= Published + 1
    BY <1>1, <2>1
  <2> QED BY <2>4, <2>5, Zenon
<1>19. \A s \in Subscriber : Published - Received(s) < Depth
  BY <1>1, <1>2, <1>10
<1>20. DataInv'
  BY ONLY <1>12, <1>13, <1>14, <1>15, <1>16, <1>17, <1>18, Zenon DEF DataInv
<1> QED BY <1>2, <1>5, <1>19, <1>20, Zenon

(* The cursor store: the delivery.                                            *)
LEMMA NextStoreCursorStep ==
  ASSUME TypeOK, DataInv, NEW s \in Subscriber, NextStoreCursor(s)
  PROVE  /\ DataInv'
         /\ Received(s) < Published /\ UNCHANGED log
         /\ recv' = [recv EXCEPT ![s] = Append(@, [seq |-> Received(s) + 1,
                                                   val |-> log[Received(s) + 1]])]
<1> DEFINE n == Received(s) + 1
           e == [loc |-> Cursor(s), val |-> n]
           m == [seq |-> n, val |-> log[n]]
<1>1. /\ MemoryOK /\ s \in Cpu /\ Producer \in Cpu /\ s # Producer /\ DOMAIN pc = Cpu
      /\ Published \in Nat /\ Depth \in Nat /\ mem[TopicHead] \in Int
      /\ \A t \in Subscriber : Received(t) \in Nat /\ mem[Cursor(t)] \in Int
      /\ recv \in [Subscriber -> Seq(Message)] /\ sreg \in [Subscriber -> SubscriberRegisters]
  BY Cpus, Numbers, DataLocations, Zenon DEF TypeOK
<1>2. /\ pc[s] = "cursor" /\ sreg[s].cursor = n /\ sreg[s].val = log[n]
      /\ Pending(s) = {} /\ Received(s) < mem[TopicHead]
  BY Zenon DEF NextStoreCursor, DataInv, SubscriberInv
<1>3. mem[TopicHead] <= Published /\ Received(s) < Published /\ n \in Nat
  BY <1>1, <1>2 DEF DataInv, CursorOrder
<1>4. mem[Cursor(s)] = Received(s)
  BY <1>2, Zenon DEF DataInv, CursorOrder, Stored
<1>5. /\ UNCHANGED <<preg, log>> /\ recv' = [recv EXCEPT ![s] = Append(@, m)]
      /\ pc'[s] = "disarm" /\ pc'[Producer] = pc[Producer]
      /\ \A t \in Subscriber : t # s => pc'[t] = pc[t] /\ sreg'[t] = sreg[t]
  BY <1>1, <1>2, SubscriberGoto, Zenon DEF NextStoreCursor
<1>6. m \in Message
  <2>1. n \in 1 .. Len(log) /\ log \in Seq(Int)
    BY <1>1, <1>3 DEF TypeOK, Published
  <2>2. log[n] \in Int
    BY <2>1
  <2> QED BY <1>3, <2>2 DEF Message
<1> HIDE DEF m
<1>7. /\ Received(s)' = n /\ recv'[s][n] = m
      /\ \A j \in 1 .. Received(s) : recv'[s][j] = recv[s][j]
      /\ \A t \in Subscriber : t # s => recv'[t] = recv[t] /\ Received(t)' = Received(t)
  BY <1>1, <1>5, <1>6 DEF Received
<1>8. Published' = Published /\ Target' = Target
  BY <1>5, Zenon DEF Published, Target
<1>9. Stores(s, Cursor(s), n)
  BY <1>1, <1>2, <1>3, StoreData, DataLocations, SMTT(20) DEF NextStoreCursor
<1>10. /\ \A k \in DataLoc : k # Cursor(s) => mem'[k] = mem[k]
       /\ mem'[Cursor(s)] = n \/ mem'[Cursor(s)] = mem[Cursor(s)]
       /\ \A d \in Cpu : d # s => Pending(d)' = Pending(d)
       /\ Pending(s)' \subseteq {e}
       /\ mem'[Cursor(s)] = n \/ e \in Pending(s)'
  BY <1>1, <1>2, <1>9, StoreSummary, DataLocations
<1> HIDE DEF n
<1>11. /\ mem'[TopicHead] = mem[TopicHead] /\ Pending(Producer)' = Pending(Producer)
       /\ \A t \in Subscriber : t # s => mem'[Cursor(t)] = mem[Cursor(t)] /\ Pending(t)' = Pending(t)
       /\ mem'[SlotSeq(Target)] = mem[SlotSeq(Target)]
       /\ mem'[SlotValue(Target)] = mem[SlotValue(Target)]
  BY <1>1, <1>10, DataLocations, TargetLocations, Distinct, Cpus, Zenon
<1>12. mem'[Cursor(s)] >= mem[Cursor(s)] /\ mem'[Cursor(s)] <= n /\ mem'[Cursor(s)] \in Int
  BY <1>1, <1>3, <1>4, <1>10 DEF n
<1>13. ProducerBuffer'
  BY <1>5, <1>8, <1>11, Zenon DEF ProducerBuffer, DataInv
<1>14. \A t \in Subscriber : SubscriberBuffer(t)'
  BY <1>7, <1>10, <1>11 DEF SubscriberBuffer, DataInv
<1>15. CursorOrder'
  <2>1. Stored(Producer, TopicHead, Published)'
    BY <1>8, <1>11, Zenon DEF Stored, DataInv, CursorOrder
  <2>2. \A t \in Subscriber : Stored(t, Cursor(t), Received(t))'
    BY <1>7, <1>10, <1>11 DEF Stored, DataInv, CursorOrder
  <2>3. ASSUME NEW t \in Subscriber
        PROVE  /\ Published - Depth <= mem'[Cursor(t)]
               /\ mem'[Cursor(t)] <= Received(t)'
               /\ Received(t)' <= mem[TopicHead]
    <3>1. CASE t = s
      BY <1>1, <1>2, <1>7, <1>12, <3>1 DEF DataInv, CursorOrder, n
    <3>2. CASE t # s
      BY <1>7, <1>11, <3>2, Zenon DEF DataInv, CursorOrder
    <3> QED BY <3>1, <3>2, Zenon
  <2> QED BY <1>3, <1>8, <1>11, <2>1, <2>2, <2>3, Zenon DEF CursorOrder
<1>16. ScanInv'
  <2>1. \A t \in Subscriber :
          /\ mem'[Cursor(t)] = Published - Depth => mem[Cursor(t)] = Published - Depth
          /\ mem[Cursor(t)] > Published - Depth => mem'[Cursor(t)] > Published - Depth
    <3> SUFFICES ASSUME NEW t \in Subscriber
                 PROVE  /\ mem'[Cursor(t)] = Published - Depth => mem[Cursor(t)] = Published - Depth
                        /\ mem[Cursor(t)] > Published - Depth => mem'[Cursor(t)] > Published - Depth
      OBVIOUS
    <3>1. mem[Cursor(t)] >= Published - Depth
      BY Zenon DEF DataInv, CursorOrder
    <3>2. mem'[Cursor(t)] >= mem[Cursor(t)] /\ mem'[Cursor(t)] \in Int
      BY <1>1, <1>11, <1>12, SMTT(20)
    <3> QED BY <1>1, <3>1, <3>2, SMTT(20)
  <2> QED BY <1>5, <1>8, <2>1, Zenon DEF ScanInv, DataInv
<1>17. RegisterInv'
  BY <1>5, <1>8, Zenon DEF RegisterInv, DataInv
<1>18. FillInv'
  BY <1>5, <1>8, <1>11, Zenon DEF FillInv, Stored, DataInv
<1>19. SlotInv'
  <2>1. \A q \in 1 .. Published :
           /\ mem'[SlotSeq((q - 1) % Depth)] = mem[SlotSeq((q - 1) % Depth)]
           /\ mem'[SlotValue((q - 1) % Depth)] = mem[SlotValue((q - 1) % Depth)]
    BY <1>10, TargetLocations, Distinct, Zenon
  <2> QED BY <1>5, <1>8, <2>1 DEF SlotInv, DataInv
<1>20. \A t \in Subscriber : SubscriberInv(t)'
  <2>1. SubscriberInv(s)'
    BY <1>5, Zenon DEF SubscriberInv
  <2>2. ASSUME NEW t \in Subscriber, t # s PROVE SubscriberInv(t)'
    BY <1>5, <1>7, <1>11, <2>2, SMTT(20) DEF SubscriberInv, DataInv
  <2> QED BY <2>1, <2>2, Zenon
<1>21. ReliableDelivery'
  <2>1. /\ Received(s)' <= Published
        /\ \A j \in 1 .. Received(s)' : recv'[s][j] = [seq |-> j, val |-> log[j]]
    <3>1. \A j \in 1 .. Received(s) : recv[s][j] = [seq |-> j, val |-> log[j]]
      BY Zenon DEF ReliableDelivery, DataInv, Received
    <3>2. \A j \in 1 .. n : j = n \/ j \in 1 .. Received(s)
      BY <1>1 DEF n
    <3>3. n <= Published
      BY <1>1, <1>3 DEF n
    <3> QED BY <1>7, <3>1, <3>2, <3>3, Zenon DEF m
  <2>2. ASSUME NEW t \in Subscriber, t # s
        PROVE  /\ Received(t)' <= Published
               /\ \A j \in 1 .. Received(t)' : recv'[t][j] = [seq |-> j, val |-> log[j]]
    BY <1>7, <2>2 DEF ReliableDelivery, DataInv, Received, Published
  <2>3. \A t \in Subscriber :
          /\ Received(t)' <= Published
          /\ \A j \in 1 .. Received(t)' : recv'[t][j] = [seq |-> j, val |-> log[j]]
    BY <2>1, <2>2, Zenon
  <2> QED BY <1>5, <2>3 DEF ReliableDelivery, Received, Published
<1>22. DataInv'
  BY <1>13, <1>14, <1>15, <1>16, <1>17, <1>18, <1>19, <1>20, <1>21, Zenon DEF DataInv
<1> QED BY <1>3, <1>5, <1>22, Zenon DEF m, n

-----------------------------------------------------------------------------
(* Without store buffers a load returns memory.                            *)
LEMMA Unbuffered ==
  ASSUME TypeOK, StoreBufferCap = 0, NEW c \in Cpu
  PROVE  sb[c] = << >> /\ \A l : Load(c, l) = mem[l]
<1>1. sb[c] \in Seq(BufferedStore) /\ Len(sb[c]) <= 0
  BY Zenon DEF TypeOK, MemoryOK
<1>2. sb[c] = << >> /\ Len(sb[c]) = 0
  BY <1>1
<1>3. \A l : Own(c, l) = {}
  BY <1>2 DEF Own
<1> QED BY <1>2, <1>3, Zenon DEF Load

(* Without store buffers a store changes its word at once and no other.    *)
LEMMA UnbufferedStore ==
  ASSUME TypeOK, StoreBufferCap = 0, NEW c \in Cpu, NEW l \in Loc, NEW v, Store(c, l, v)
  PROVE  mem'[l] = v /\ \A k \in Loc : k # l => mem'[k] = mem[k]
<1>1. ~(Len(sb[c]) < StoreBufferCap)
  <2>1. Len(sb[c]) = 0
    BY Unbuffered
  <2> QED BY <2>1
<1>2. mem' = [mem EXCEPT ![l] = v]
  BY <1>1, Zenon DEF Store
<1> QED BY <1>2, Zenon DEF TypeOK, MemoryOK

(* The words the wake-up protocol tells apart are different words.         *)
LEMMA WakeLocations ==
  /\ \A s, t : Waitline(s) = Waitline(t) => s = t
  /\ \A s, t : Cursor(s) = Cursor(t) => s = t
  /\ \A s : TopicHead # Waitline(s) /\ TopicHead # Cursor(s) /\ TopicHead # Low(s) /\ TopicHead # ProducerWaitline
  /\ \A s, t : Waitline(s) # Cursor(t) /\ Waitline(s) # Low(t) /\ Cursor(s) # Low(t)
  /\ \A s : ProducerWaitline # Waitline(s) /\ ProducerWaitline # Cursor(s)
  /\ \A s, k : /\ SlotSeq(k) # Waitline(s) /\ SlotSeq(k) # Cursor(s) /\ SlotSeq(k) # TopicHead
               /\ SlotValue(k) # Waitline(s) /\ SlotValue(k) # Cursor(s) /\ SlotValue(k) # TopicHead
               /\ SlotSeq(k) # ProducerWaitline /\ SlotValue(k) # ProducerWaitline
BY Zenon DEF TopicHead, ProducerWaitline, Cursor, Waitline, Low, SlotSeq, SlotValue

(* What a step leaves alone: the words the first subscriber's sleep depends *)
(* on, and the subscriber itself; and where the producer is then.            *)
WakeWords ==
  /\ mem'[Waitline(1)] = mem[Waitline(1)]
  /\ mem'[Cursor(1)] = mem[Cursor(1)]
  /\ mem'[TopicHead] = mem[TopicHead]
FirstSame == pc'[1] = pc[1] /\ irr'[1] = irr[1]
NotWakingFirst == Publishing \/ preg.ix # 1

(* A step that leaves the words, the first subscriber and its wake alone,  *)
(* while the producer is not on its way to the first waitline before or    *)
(* after, preserves the invariant.                                         *)
LEMMA WakeElsewhere ==
  ASSUME WakeInv, WakeWords, FirstSame, NotWakingFirst, NotWakingFirst', AddressInv'
  PROVE  WakeInv'
<1>1. ~WakingFirst({"disarm", "touch", "store"}) /\ ~WakingFirst({"ipi"}) /\ ~WakingFirst({"disarm", "touch", "store", "ipi"})
  BY Zenon DEF NotWakingFirst, Publishing, WakingFirst
<1>2. SleepInv'
  BY <1>1, Zenon DEF WakeInv, SleepInv, WakeWords, FirstSame
<1> QED BY <1>2, Zenon DEF WakeInv

(* So does a step that leaves the producer alone.                          *)
LEMMA WakeSame ==
  ASSUME WakeInv, WakeWords, FirstSame, pc'[Producer] = pc[Producer], preg' = preg
  PROVE  WakeInv'
<1>1. \A L : WakingFirst(L)' = WakingFirst(L)
  BY Zenon DEF WakingFirst
<1>2. SleepInv'
  BY <1>1, Zenon DEF WakeInv, SleepInv, WakeWords, FirstSame
<1>3. AddressInv'
  BY Zenon DEF WakeInv, AddressInv, Publishing, WakeWords
<1> QED BY <1>2, <1>3, Zenon DEF WakeInv

(* A first subscriber that neither sleeps nor decides to is owed nothing.  *)
LEMMA WakeAwake ==
  ASSUME WakeInv, mem'[TopicHead] = mem[TopicHead], pc'[1] \notin {"wait", "pwait", "pstore", "pipi", "hlt"},
         pc'[Producer] = pc[Producer], preg' = preg
  PROVE  WakeInv'
<1>1. SleepInv'
  BY Zenon DEF SleepInv
<1>2. AddressInv'
  BY Zenon DEF WakeInv, AddressInv, Publishing
<1> QED BY <1>1, <1>2, Zenon DEF WakeInv

(* A step of the producer before the head store.                           *)
LEMMA WakePublishing ==
  ASSUME TypeOK, WakeInv, WakeWords, NEW label, Goto(Producer, label), UNCHANGED irr, Publishing,
         label \in {"idle", "min", "reload", "full", "arm", "hlt", "seq", "value", "head"},
         preg'.based, label \in {"min", "reload"} \/ preg'.ix = 1
  PROVE  WakeInv'
<1>1. pc'[Producer] = label /\ FirstSame
  BY Cpus, ProducerGoto, Zenon DEF TypeOK, FirstSame
<1>2. Publishing' /\ AddressInv'
  BY <1>1, Zenon DEF Publishing, AddressInv
<1>3. NotWakingFirst /\ NotWakingFirst'
  BY <1>2, Zenon DEF NotWakingFirst
<1> QED BY <1>1, <1>2, <1>3, WakeElsewhere, Zenon

(* The decision after the scan leaves the topic's address in its register. *)
LEMMA GateShape ==
  ASSUME NEW r \in ProducerRegisters, r.based, Gate(r)
  PROVE  \E label \in {"idle", "full", "arm", "hlt", "seq"} : Goto(Producer, label) /\ preg'.based /\ preg'.ix = 1
<1>1. DeadProducer.ix = 1 /\ DeadProducer.based
  BY DEF DeadProducer
<1>2. [r EXCEPT !.min = 0, !.ix = 1].ix = 1 /\ [r EXCEPT !.min = 0, !.ix = 1].based
  BY DEF ProducerRegisters
<1>3. [r EXCEPT !.ix = 1].ix = 1 /\ [r EXCEPT !.ix = 1].based
  BY DEF ProducerRegisters
<1> QED BY <1>1, <1>2, <1>3, Zenon DEF Gate

(* So does a step of the scan.                                             *)
LEMMA MinDoneShape ==
  ASSUME NEW r \in ProducerRegisters, r.based, MinDone(r)
  PROVE  \E label \in {"idle", "full", "arm", "hlt", "seq", "min"} :
            Goto(Producer, label) /\ preg'.based /\ (label = "min" \/ preg'.ix = 1)
<1>1. [r EXCEPT !.ix = @ + 1].based
  BY DEF ProducerRegisters
<1> QED BY <1>1, GateShape, Zenon DEF MinDone

(* The steps of a publication up to the head store, and those of waiting   *)
(* for an advance.                                                         *)
LEMMA PublishWake ==
  ASSUME TypeOK, WakeInv, StoreBufferCap = 0,
         \/ PublishLoadHead \/ MinCompare \/ MinReload \/ PublishStoreSeq \/ PublishStoreValue
         \/ RetryPublish \/ WaitForAdvance \/ ArmProducer
  PROVE  WakeInv'
<1>1. preg \in ProducerRegisters /\ preg.seq \in Int /\ preg.ix \in Subscriber /\ mem \in [Loc -> Int]
  BY Zenon DEF TypeOK, MemoryOK, ProducerRegisters
<1>2. Publishing
  BY Zenon DEF Publishing, PublishLoadHead, MinCompare, MinReload, PublishStoreSeq, PublishStoreValue,
               RetryPublish, WaitForAdvance, ArmProducer
<1>3. preg.based /\ (pc[Producer] \notin {"min", "reload"} => preg.ix = 1)
  BY <1>2, Zenon DEF WakeInv, AddressInv
<1>4. WakeWords
  <2>1. CASE UNCHANGED mem
    BY <2>1, Zenon DEF WakeWords
  <2>2. ASSUME NEW l \in Loc, NEW v, Store(Producer, l, v), l # TopicHead, l # Cursor(1), l # Waitline(1)
        PROVE  WakeWords
    BY <2>2, Cpus, Locations, UnbufferedStore, Zenon DEF WakeWords
  <2>3. preg.seq - 1 \in Int
    BY <1>1
  <2>4. CASE PublishStoreSeq
    BY <1>1, <2>2, <2>4, Locations, WakeLocations, Zenon DEF PublishStoreSeq
  <2>5. CASE PublishStoreValue
    BY <2>2, <2>3, <2>5, Locations, WakeLocations, Zenon DEF PublishStoreValue
  <2>6. CASE ArmProducer
    BY <2>2, <2>6, Locations, WakeLocations, Zenon DEF ArmProducer
  <2> QED BY <2>1, <2>4, <2>5, <2>6, Zenon
          DEF PublishLoadHead, MinCompare, MinReload, RetryPublish, WaitForAdvance
<1>5. UNCHANGED irr
  BY Zenon DEF PublishLoadHead, MinCompare, MinReload, PublishStoreSeq, PublishStoreValue,
               RetryPublish, WaitForAdvance, ArmProducer
<1>6. \E label \in {"idle", "min", "reload", "full", "arm", "hlt", "seq", "value", "head"} :
         Goto(Producer, label) /\ preg'.based /\ (label \in {"min", "reload"} \/ preg'.ix = 1)
  <2>1. \A n, v : /\ [preg EXCEPT !.seq = n, !.val = v].ix = preg.ix /\ [preg EXCEPT !.seq = n, !.val = v].based = preg.based
                  /\ [preg EXCEPT !.seq = n].ix = preg.ix /\ [preg EXCEPT !.seq = n].based = preg.based
                  /\ [preg EXCEPT !.seq = n, !.call = "wait"].based = preg.based
                  /\ [preg EXCEPT !.min = n, !.call = "armed"].based = preg.based
                  /\ [preg EXCEPT !.min = n].based = preg.based
    BY <1>1 DEF ProducerRegisters
  <2>2. CASE PublishLoadHead
    <3>1. pc[Producer] = "idle" /\ Goto(Producer, IF Reliable THEN "min" ELSE "seq")
      BY <2>2, Zenon DEF PublishLoadHead
    <3>2. PICK v : preg' = [preg EXCEPT !.seq = Load(Producer, TopicHead), !.val = v]
      BY <2>2, Zenon DEF PublishLoadHead
    <3>3. preg'.based /\ preg'.ix = 1
      BY <1>3, <2>1, <3>1, <3>2, Zenon
    <3>4. Goto(Producer, "min") \/ Goto(Producer, "seq")
      BY <3>1, Zenon
    <3> QED BY <3>3, <3>4, Zenon
  <2>3. CASE MinCompare
    <3>1. Load(Producer, Cursor(preg.ix)) \in Int
      BY <1>1, Cpus, Locations, Unbuffered, Zenon
    <3>2. [preg EXCEPT !.min = Load(Producer, Cursor(preg.ix))] \in ProducerRegisters
      BY <1>1, <3>1, Zenon DEF ProducerRegisters
    <3> QED BY <1>1, <1>3, <2>1, <2>3, <3>2, MinDoneShape, Zenon DEF MinCompare
  <2>4. CASE MinReload
    <3>1. Load(Producer, Cursor(preg.ix)) \in Int
      BY <1>1, Cpus, Locations, Unbuffered, Zenon
    <3>2. [preg EXCEPT !.min = Load(Producer, Cursor(preg.ix))] \in ProducerRegisters
      BY <1>1, <3>1, Zenon DEF ProducerRegisters
    <3> QED BY <1>3, <2>1, <2>4, <3>2, MinDoneShape, Zenon DEF MinReload
  <2>5. CASE PublishStoreSeq
    BY <1>3, <2>1, <2>5, Zenon DEF PublishStoreSeq
  <2>6. CASE PublishStoreValue
    BY <1>3, <2>6, Zenon DEF PublishStoreValue
  <2>7. CASE RetryPublish
    BY <1>3, <2>7, Zenon DEF RetryPublish
  <2>8. CASE WaitForAdvance
    BY <1>3, <2>1, <2>8, Zenon DEF WaitForAdvance
  <2>9. CASE ArmProducer
    BY <1>3, <2>1, <2>9, Zenon DEF ArmProducer
  <2> QED BY <2>2, <2>3, <2>4, <2>5, <2>6, <2>7, <2>8, <2>9, Zenon
<1> QED BY <1>2, <1>4, <1>5, <1>6, WakePublishing, Zenon

(* After a waitline comes the next one, or the end of the publication.     *)
LEMMA TouchDoneShape ==
  ASSUME TypeOK, NEW r \in ProducerRegisters, TouchDone(r)
  PROVE  /\ pc'[1] = pc[1]
         /\ \/ Publishing' /\ preg'.ix = 1 /\ preg'.based
            \/ ~Publishing' /\ preg'.ix # 1
<1>1. DeadProducer.ix = 1 /\ DeadProducer.based
  BY DEF DeadProducer
<1>2. r.ix # NumSubscribers => [r EXCEPT !.ix = @ + 1].ix # 1
  BY TopicAssumption DEF ProducerRegisters, Subscriber
<1>3. pc'[1] = pc[1]
  BY Cpus, ProducerGoto, Zenon DEF TypeOK, TouchDone
<1>4. CASE r.ix = NumSubscribers
  <2>1. Goto(Producer, "idle") /\ preg' = DeadProducer
    BY <1>4, Zenon DEF TouchDone
  <2>2. pc'[Producer] = "idle"
    BY <2>1, ProducerGoto, Zenon DEF TypeOK
  <2> QED BY <1>1, <1>3, <2>1, <2>2, Zenon DEF Publishing
<1>5. CASE r.ix # NumSubscribers
  <2>1. Goto(Producer, "touch") /\ preg' = [r EXCEPT !.ix = @ + 1]
    BY <1>5, Zenon DEF TouchDone
  <2>2. pc'[Producer] = "touch"
    BY <2>1, ProducerGoto, Zenon DEF TypeOK
  <2> QED BY <1>2, <1>3, <1>5, <2>1, <2>2, Zenon DEF Publishing
<1> QED BY <1>4, <1>5, Zenon

(* The load of the first waitline: a disarmed line and one that holds the  *)
(* new head belong to a subscriber that does not sleep behind it.          *)
LEMMA TouchLoadWake ==
  ASSUME TypeOK, WakeInv, StoreBufferCap = 0, TouchLoad
  PROVE  WakeInv'
<1>1. WakeWords /\ UNCHANGED irr
  BY Zenon DEF TouchLoad, WakeWords
<1>2. preg \in ProducerRegisters /\ preg.ix \in Subscriber /\ ~Publishing
  BY Zenon DEF TypeOK, ProducerRegisters, TouchLoad, Publishing
<1>3. CASE TouchDone(preg)
  <2>1. /\ pc'[1] = pc[1] /\ FirstSame /\ NotWakingFirst' /\ AddressInv'
    BY <1>1, <1>2, <1>3, TouchDoneShape, Zenon DEF FirstSame, NotWakingFirst, AddressInv
  <2>2. CASE preg.ix # 1
    BY <1>1, <2>1, <2>2, WakeElsewhere, Zenon DEF NotWakingFirst
  <2>3. CASE preg.ix = 1
    <3>1. preg.based /\ preg.seq = mem[TopicHead] /\ pc[Producer] = "touch"
      BY <1>2, <2>3, Zenon DEF WakeInv, AddressInv, TouchLoad
    <3>2. TouchedLine = Waitline(1)
      BY <2>3, <3>1, Zenon DEF TouchedLine
    <3>3. CASE mem[Waitline(1)] \in {Disarmed, mem[TopicHead]}
      <4>1. mem[TopicHead] \in Int /\ ~(mem[TopicHead] < mem[TopicHead])
        BY Locations DEF TypeOK, MemoryOK
      <4>2. ~WakingFirst({"ipi"})
        BY <3>1, Zenon DEF WakingFirst
      <4>3. SleepInv'
        BY <1>1, <2>1, <3>3, <4>1, <4>2, Zenon DEF SleepInv, WakeInv, WakeWords, FirstSame
      <4> QED BY <2>1, <4>3, Zenon DEF WakeInv
    <3>4. CASE mem[Waitline(1)] \notin {Disarmed, mem[TopicHead]}
      <4>1. Goto(Producer, "store")
        BY <3>1, <3>2, <3>4, Cpus, Unbuffered, Zenon DEF TouchLoad
      <4>2. preg' = preg
        BY <3>1, <3>2, <3>4, Cpus, Unbuffered, Zenon DEF TouchLoad
      <4>3. pc'[Producer] = "store"
        BY <4>1, ProducerGoto, Zenon DEF TypeOK
      <4>4. ~Publishing' /\ preg'.ix = 1
        BY <2>3, <4>2, <4>3, Zenon DEF Publishing
      <4> QED BY <2>1, <4>4, Zenon DEF NotWakingFirst
    <3> QED BY <3>3, <3>4, Zenon
  <2> QED BY <2>2, <2>3, Zenon
<1>4. CASE Goto(Producer, "store") /\ UNCHANGED preg
  <2>1. pc'[Producer] = "store" /\ FirstSame /\ pc[Producer] = "touch"
    BY <1>1, <1>4, Cpus, ProducerGoto, Zenon DEF TypeOK, FirstSame, TouchLoad
  <2>2. AddressInv'
    BY <1>1, <1>2, <1>4, <2>1, Zenon DEF WakeInv, AddressInv, Publishing, WakeWords
  <2>3. SleepInv'
    BY <1>1, <1>4, <2>1, Zenon DEF WakeInv, SleepInv, WakingFirst, WakeWords, FirstSame
  <2> QED BY <2>2, <2>3, Zenon DEF WakeInv
<1> QED BY <1>3, <1>4, Zenon DEF TouchLoad

(* The head store is followed by a look at the first waitline.             *)
LEMMA PublishHeadWake ==
  ASSUME TypeOK, WakeInv, StoreBufferCap = 0, PublishStoreHead
  PROVE  WakeInv'
<1>1. Publishing /\ pc[Producer] = "head"
  BY Zenon DEF PublishStoreHead, Publishing
<1>2. preg.based /\ preg.ix = 1 /\ preg \in ProducerRegisters
  BY <1>1, Zenon DEF WakeInv, AddressInv, TypeOK
<1>3. preg'.based /\ preg'.ix = 1 /\ preg'.seq = preg.seq
  BY <1>2 DEF PublishStoreHead, ProducerRegisters
<1>4. /\ mem'[TopicHead] = preg.seq /\ mem'[Waitline(1)] = mem[Waitline(1)] /\ mem'[Cursor(1)] = mem[Cursor(1)]
  <2>1. Store(Producer, TopicHead, preg.seq)
    BY Zenon DEF PublishStoreHead
  <2>2. mem'[TopicHead] = preg.seq /\ \A k \in Loc : k # TopicHead => mem'[k] = mem[k]
    BY <2>1, Cpus, Locations, UnbufferedStore, Zenon
  <2> QED BY <2>2, Cpus, Locations, WakeLocations, Zenon
<1>5. Goto(Producer, "disarm") \/ Goto(Producer, "touch")
  BY Zenon DEF PublishStoreHead
<1>6. pc'[Producer] \in {"disarm", "touch"} /\ pc'[1] = pc[1] /\ irr' = irr
  BY <1>5, Cpus, ProducerGoto, Zenon DEF TypeOK, PublishStoreHead
<1>7. AddressInv'
  BY <1>3, <1>4, <1>6, Zenon DEF AddressInv, Publishing
<1>8. WakingFirst({"disarm", "touch", "store"})' /\ WakingFirst({"disarm", "touch", "store", "ipi"})'
  BY <1>3, <1>6, Zenon DEF WakingFirst
<1>9. ~WakingFirst({"ipi"})
  BY <1>1, Zenon DEF WakingFirst
<1>10. SleepInv'
  BY <1>4, <1>6, <1>8, <1>9, Zenon DEF SleepInv, WakeInv
<1> QED BY <1>7, <1>10, Zenon DEF WakeInv

(* Disarming the producer's own waitline.                                  *)
LEMMA DisarmWake ==
  ASSUME TypeOK, WakeInv, StoreBufferCap = 0, PublishDisarm
  PROVE  WakeInv'
<1>1. pc[Producer] = "disarm" /\ pc'[Producer] = "touch" /\ preg' = preg /\ FirstSame
  BY Cpus, ProducerGoto, Zenon DEF TypeOK, PublishDisarm, FirstSame
<1>2. WakeWords
  <2>1. Store(Producer, ProducerWaitline, Disarmed)
    BY Zenon DEF PublishDisarm
  <2>2. \A k \in Loc : k # ProducerWaitline => mem'[k] = mem[k]
    BY <2>1, Cpus, Locations, UnbufferedStore, Zenon
  <2> QED BY <2>2, Cpus, Locations, WakeLocations, Zenon DEF WakeWords
<1>3. AddressInv'
  BY <1>1, <1>2, Zenon DEF AddressInv, WakeInv, Publishing, WakeWords
<1>4. SleepInv'
  BY <1>1, <1>2, Zenon DEF SleepInv, WakeInv, WakingFirst, FirstSame, WakeWords
<1> QED BY <1>3, <1>4, Zenon DEF WakeInv

(* The store into the first waitline is followed by the wake interrupt.    *)
LEMMA TouchStoreWake ==
  ASSUME TypeOK, WakeInv, StoreBufferCap = 0, TouchStore
  PROVE  WakeInv'
<1>1. pc[Producer] = "store" /\ pc'[Producer] = "ipi" /\ preg' = preg /\ FirstSame
  BY Cpus, ProducerGoto, Zenon DEF TypeOK, TouchStore, FirstSame
<1>2. preg.ix \in Subscriber /\ TouchedLine \in Loc /\ mem \in [Loc -> Int]
  BY Locations, Zenon DEF TypeOK, ProducerRegisters, TouchedLine, MemoryOK
<1>3. mem'[TouchedLine] = preg.seq /\ \A k \in Loc : k # TouchedLine => mem'[k] = mem[k]
  BY <1>2, Cpus, UnbufferedStore, Zenon DEF TouchStore
<1>4. mem'[TopicHead] = mem[TopicHead] /\ mem'[Cursor(1)] = mem[Cursor(1)]
  BY <1>3, Cpus, Locations, WakeLocations, Zenon DEF TouchedLine
<1>5. AddressInv'
  BY <1>1, <1>4, Zenon DEF AddressInv, WakeInv, Publishing
<1>6. CASE preg.ix # 1
  <2>1. WakeWords
    <3>1. TouchedLine # Waitline(1) /\ Waitline(1) \in Loc
      BY <1>6, Cpus, Locations, WakeLocations, Zenon DEF TouchedLine
    <3> QED BY <1>3, <1>4, <3>1, Zenon DEF WakeWords
  <2>2. NotWakingFirst /\ NotWakingFirst'
    BY <1>1, <1>6, Zenon DEF NotWakingFirst
  <2> QED BY <1>1, <1>5, <2>1, <2>2, WakeElsewhere, Zenon
<1>7. CASE preg.ix = 1
  <2>1. preg.based /\ preg.seq = mem[TopicHead]
    BY <1>1, <1>7, Zenon DEF AddressInv, WakeInv, Publishing
  <2>2. mem'[Waitline(1)] = mem'[TopicHead]
    BY <1>3, <1>4, <1>7, <2>1, Zenon DEF TouchedLine
  <2>3. ~(mem'[TopicHead] < mem'[TopicHead])
    BY <1>2, <1>4, Locations
  <2>4. WakingFirst({"ipi"})' /\ WakingFirst({"disarm", "touch", "store", "ipi"})'
    BY <1>1, <1>7, Zenon DEF WakingFirst
  <2>5. SleepInv'
    BY <2>2, <2>3, <2>4, Zenon DEF SleepInv
  <2> QED BY <1>5, <2>5, Zenon DEF WakeInv
<1> QED BY <1>6, <1>7, Zenon

(* The wake interrupt is pending from here on.                             *)
LEMMA SendWake ==
  ASSUME TypeOK, WakeInv, WakeSubscriber
  PROVE  WakeInv'
<1> DEFINE r == [preg EXCEPT !.based = FALSE, !.seq = IcrBusyMask]
<1>1. WakeWords /\ TouchDone(r) /\ irr' = [irr EXCEPT ![preg.ix] = TRUE] /\ pc[Producer] = "ipi"
  BY Zenon DEF WakeSubscriber, WakeWords
<1>2. r \in ProducerRegisters /\ preg.ix \in Subscriber /\ irr \in [Cpu -> BOOLEAN]
  <2>1. preg \in ProducerRegisters /\ preg.ix \in Subscriber /\ irr \in [Cpu -> BOOLEAN]
    BY Zenon DEF TypeOK, ProducerRegisters
  <2>2. r \in ProducerRegisters
    <3> DEFINE q == [preg EXCEPT !.based = FALSE]
    <3>1. q \in ProducerRegisters /\ r = [q EXCEPT !.seq = IcrBusyMask]
      BY <2>1, Zenon DEF ProducerRegisters, r
    <3>2. IcrBusyMask \in Int
      BY DEF IcrBusyMask
    <3> HIDE DEF q
    <3> QED BY <3>1, <3>2, Zenon DEF ProducerRegisters
  <2> QED BY <2>1, <2>2, Zenon
<1> HIDE DEF r
<1>3. pc'[1] = pc[1] /\ NotWakingFirst' /\ AddressInv'
  BY <1>1, <1>2, TouchDoneShape, Zenon DEF NotWakingFirst, AddressInv
<1>4. CASE preg.ix # 1
  <2>1. irr'[1] = irr[1]
    BY <1>1, <1>2, <1>4, Cpus, Zenon
  <2> QED BY <1>1, <1>3, <1>4, <2>1, WakeElsewhere, Zenon DEF FirstSame, NotWakingFirst
<1>5. CASE preg.ix = 1
  <2>1. irr'[1]
    BY <1>1, <1>2, <1>5, Cpus, Zenon
  <2>2. ~WakingFirst({"disarm", "touch", "store"})
    BY <1>1, Zenon DEF WakingFirst
  <2>3. SleepInv'
    BY <1>1, <1>3, <2>1, <2>2, Zenon DEF SleepInv, WakeInv, WakeWords
  <2> QED BY <1>3, <2>3, Zenon DEF WakeInv
<1> QED BY <1>4, <1>5, Zenon

(* The first subscriber's words.                                           *)
LEMMA FirstLines ==
  /\ 1 \in Subscriber /\ 1 \in Cpu /\ 1 # Producer
  /\ TopicHead \in Loc /\ ProducerWaitline \in Loc /\ Cursor(1) \in Loc /\ Waitline(1) \in Loc
BY Cpus, Locations, Zenon

(* The steps of the first subscriber: it halts only when its waitline      *)
(* still holds its cursor, read after the re-check.                        *)
LEMMA FirstSubscriberWake ==
  ASSUME TypeOK, WakeInv, StoreBufferCap = 0, SubscriberStep(1)
  PROVE  WakeInv'
<1> USE FirstLines
<1>1. pc[1] \in SubscriberLabel /\ DOMAIN pc = Cpu /\ mem \in [Loc -> Int]
  BY Zenon DEF TypeOK, MemoryOK
<1>2. preg' = preg
  BY Zenon DEF SubscriberStep, NextLoadHead, NextLoadSeq, NextCopyValue, NextStoreCursor, NextSkipGap, NextDisarm,
               NextLoadProducerWaitline, NextStoreProducerWaitline, WakeProducer, ArmLoadHead, ArmStoreWaitline, WaitIfArmed
<1>3. \A label : Goto(1, label) => pc'[1] = label /\ pc'[Producer] = pc[Producer]
  BY <1>1, SubscriberGoto, Zenon
<1>4. \A some : Return(1, some) => pc'[1] \in {"next", "arm", "wait"} /\ pc'[Producer] = pc[Producer]
  BY <1>3, Zenon DEF Return
<1>5. \A L : preg' = preg /\ pc'[Producer] = pc[Producer] => WakingFirst(L)' = WakingFirst(L)
  BY Zenon DEF WakingFirst
<1>6. ASSUME pc'[Producer] = pc[Producer], WakeWords, SleepInv' PROVE WakeInv'
  BY <1>2, <1>6, Zenon DEF WakeInv, AddressInv, Publishing, WakeWords
<1>7. \A l \in Loc : \A v : Store(1, l, v) => mem'[l] = v /\ \A k \in Loc : k # l => mem'[k] = mem[k]
  BY UnbufferedStore, Zenon
<1>8. ASSUME pc'[Producer] = pc[Producer], mem'[TopicHead] = mem[TopicHead],
             pc'[1] \in {"next", "slot", "copy", "cursor", "gap", "disarm", "arm", "armstore"}
      PROVE  WakeInv'
  BY <1>2, <1>8, WakeAwake, Zenon
<1>9. ASSUME pc'[Producer] = pc[Producer], WakeWords, pc[1] \in {"pwait", "pstore", "pipi"},
             pc'[1] \in {"next", "arm", "wait", "pstore", "pipi"}
      PROVE  WakeInv'
  <2>1. SleepInv'
    BY <1>2, <1>5, <1>9, Zenon DEF SleepInv, WakeInv, WakeWords
  <2> QED BY <1>6, <1>9, <2>1, Zenon
<1>10. CASE NextLoadHead(1)
  <2>1. WakeWords
    BY <1>10, Zenon DEF NextLoadHead, WakeWords
  <2>2. CASE mem[Cursor(1)] >= mem[TopicHead] /\ Return(1, FALSE)
    <3>1. ~(mem[Cursor(1)] < mem[TopicHead])
      BY <1>1, <2>2
    <3>2. SleepInv'
      BY <1>4, <2>1, <2>2, <3>1, Zenon DEF SleepInv, WakeWords
    <3> QED BY <1>4, <1>6, <2>1, <2>2, <3>2, Zenon
  <2>3. CASE Goto(1, "slot")
    BY <1>3, <1>8, <2>1, <2>3, Zenon DEF WakeWords
  <2> QED BY <1>10, <2>2, <2>3, Unbuffered, Zenon DEF NextLoadHead
<1>11. CASE NextLoadSeq(1)
  BY <1>3, <1>8, <1>11, Zenon DEF NextLoadSeq
<1>12. CASE NextCopyValue(1)
  BY <1>3, <1>8, <1>12, Zenon DEF NextCopyValue
<1>13. CASE NextStoreCursor(1)
  BY <1>3, <1>7, <1>8, <1>13, WakeLocations, Zenon DEF NextStoreCursor
<1>14. CASE NextSkipGap(1)
  BY <1>3, <1>7, <1>8, <1>14, WakeLocations, Zenon DEF NextSkipGap
<1>15. CASE NextDisarm(1)
  <2>1. /\ mem'[Waitline(1)] = Disarmed /\ mem'[TopicHead] = mem[TopicHead]
        /\ pc'[Producer] = pc[Producer] /\ pc'[1] \in {"next", "arm", "wait", "pwait"}
    BY <1>3, <1>4, <1>7, <1>15, WakeLocations, Zenon DEF NextDisarm
  <2>2. SleepInv'
    BY <2>1, Zenon DEF SleepInv
  <2> QED BY <1>2, <2>1, <2>2, Zenon DEF WakeInv, AddressInv, Publishing
<1>16. CASE NextLoadProducerWaitline(1)
  <2>1. WakeWords
    BY <1>16, Zenon DEF NextLoadProducerWaitline, WakeWords
  <2> QED BY <1>3, <1>4, <1>9, <1>16, <2>1, Zenon DEF NextLoadProducerWaitline
<1>17. CASE NextStoreProducerWaitline(1)
  <2>1. WakeWords
    BY <1>7, <1>17, WakeLocations, Zenon DEF NextStoreProducerWaitline, WakeWords
  <2> QED BY <1>3, <1>9, <1>17, <2>1, Zenon DEF NextStoreProducerWaitline
<1>18. CASE WakeProducer(1)
  <2>1. WakeWords
    BY <1>18, Zenon DEF WakeProducer, WakeWords
  <2> QED BY <1>4, <1>9, <1>18, <2>1, Zenon DEF WakeProducer
<1>19. CASE ArmLoadHead(1)
  BY <1>3, <1>8, <1>19, Zenon DEF ArmLoadHead
<1>20. CASE ArmStoreWaitline(1)
  BY <1>3, <1>7, <1>8, <1>20, WakeLocations, Zenon DEF ArmStoreWaitline
<1>21. CASE WaitIfArmed(1)
  <2>1. WakeWords /\ pc[1] = "wait"
    BY <1>21, Zenon DEF WaitIfArmed, WakeWords
  <2>2. CASE mem[Waitline(1)] # Disarmed /\ mem[Cursor(1)] = mem[Waitline(1)] /\ Goto(1, "hlt")
    <3>1. mem[Cursor(1)] < mem[TopicHead] => WakingFirst({"disarm", "touch", "store"})
      BY <2>1, <2>2, Zenon DEF WakeInv, SleepInv
    <3>2. mem[Cursor(1)] < mem[TopicHead] => WakingFirst({"disarm", "touch", "store", "ipi"})'
      BY <1>2, <1>3, <2>2, <3>1, Zenon DEF WakingFirst
    <3>3. SleepInv'
      <4>1. pc'[1] = "hlt" /\ pc'[1] \notin {"wait", "pwait", "pstore", "pipi"}
        <5>1. pc'[1] = "hlt"
          BY <1>3, <2>2, Zenon
        <5> QED BY <5>1
      <4>2. mem'[Waitline(1)] = mem'[Cursor(1)] /\ mem'[Cursor(1)] # Disarmed
        BY <2>1, <2>2, Zenon DEF WakeWords
      <4> QED BY <2>1, <3>2, <4>1, <4>2, Zenon DEF SleepInv, WakeWords
    <3> QED BY <1>3, <1>6, <2>1, <2>2, <3>3, Zenon
  <2>3. CASE Goto(1, "next")
    BY <1>3, <1>8, <2>1, <2>3, Zenon DEF WakeWords
  <2> QED BY <1>21, <2>2, <2>3, Unbuffered, Zenon DEF WaitIfArmed
<1> QED BY <1>10, <1>11, <1>12, <1>13, <1>14, <1>15, <1>16, <1>17, <1>18, <1>19, <1>20, <1>21, Zenon DEF SubscriberStep

(* The other subscribers write none of its words.                          *)
LEMMA OtherSubscriberWake ==
  ASSUME TypeOK, WakeInv, StoreBufferCap = 0, NEW s \in Subscriber, s # 1, SubscriberStep(s)
  PROVE  WakeInv'
<1> USE FirstLines
<1>1. DOMAIN pc = Cpu /\ s \in Cpu /\ irr \in [Cpu -> BOOLEAN]
  BY Cpus, Zenon DEF TypeOK
<1>2. preg' = preg
  BY Zenon DEF SubscriberStep, NextLoadHead, NextLoadSeq, NextCopyValue, NextStoreCursor, NextSkipGap, NextDisarm,
               NextLoadProducerWaitline, NextStoreProducerWaitline, WakeProducer, ArmLoadHead, ArmStoreWaitline, WaitIfArmed
<1>3. irr'[1] = irr[1]
  <2>1. irr' = irr \/ irr' = [irr EXCEPT ![Producer] = TRUE]
    BY Zenon DEF SubscriberStep, NextLoadHead, NextLoadSeq, NextCopyValue, NextStoreCursor, NextSkipGap, NextDisarm,
               NextLoadProducerWaitline, NextStoreProducerWaitline, WakeProducer, ArmLoadHead, ArmStoreWaitline, WaitIfArmed
  <2> QED BY <1>1, <2>1, Zenon
<1>4. pc'[1] = pc[1] /\ pc'[Producer] = pc[Producer]
  <2>1. \E label : Goto(s, label)
    BY Zenon DEF SubscriberStep, NextLoadHead, NextLoadSeq, NextCopyValue, NextStoreCursor, NextSkipGap, NextDisarm,
               NextLoadProducerWaitline, NextStoreProducerWaitline, WakeProducer, ArmLoadHead, ArmStoreWaitline, WaitIfArmed, Return
  <2> QED BY <1>1, <2>1, SubscriberGoto, Zenon
<1>5. WakeWords
  <2>1. \/ mem' = mem
        \/ \E l \in {Cursor(s), Waitline(s), ProducerWaitline} : \E v : Store(s, l, v)
    BY Zenon DEF SubscriberStep, NextLoadHead, NextLoadSeq, NextCopyValue, NextStoreCursor, NextSkipGap, NextDisarm,
               NextLoadProducerWaitline, NextStoreProducerWaitline, WakeProducer, ArmLoadHead, ArmStoreWaitline, WaitIfArmed
  <2>2. ASSUME NEW l \in {Cursor(s), Waitline(s), ProducerWaitline}, NEW v, Store(s, l, v) PROVE WakeWords
    <3>1. l \in Loc /\ l # Cursor(1) /\ l # Waitline(1) /\ l # TopicHead
      <4>1. Cursor(s) \in Loc /\ Waitline(s) \in Loc /\ Cursor(s) # Cursor(1) /\ Waitline(s) # Waitline(1)
        BY Locations, WakeLocations, Zenon
      <4>2. CASE l = Cursor(s)
        BY <4>1, <4>2, WakeLocations, Zenon
      <4>3. CASE l = Waitline(s)
        BY <4>1, <4>3, WakeLocations, Zenon
      <4>4. CASE l = ProducerWaitline
        BY <4>4, WakeLocations, Zenon
      <4> QED BY <4>2, <4>3, <4>4, Zenon
    <3>2. \A k \in Loc : k # l => mem'[k] = mem[k]
      BY <1>1, <2>2, <3>1, UnbufferedStore, Zenon
    <3> QED BY <3>1, <3>2, Zenon DEF WakeWords
  <2> QED BY <2>1, <2>2, Zenon DEF WakeWords
<1> QED BY <1>2, <1>3, <1>4, <1>5, WakeSame, Zenon DEF FirstSame

(* The interrupts: a wake ends the halt it was sent for.                   *)
LEMMA InterruptWake ==
  ASSUME TypeOK, WakeInv, NEW c \in Cpu, WakeInterrupt(c) \/ OtherInterrupt(c)
  PROVE  WakeInv'
<1> USE FirstLines
<1>1. DOMAIN pc = Cpu /\ irr \in [Cpu -> BOOLEAN] /\ Producer \in Cpu
  BY Cpus, Zenon DEF TypeOK
<1>2. WakeWords /\ preg' = preg /\ Resume(c) /\ (irr' = irr \/ irr' = [irr EXCEPT ![c] = FALSE])
  BY Zenon DEF WakeInterrupt, OtherInterrupt, WakeWords
<1>3. CASE c = 1
  <2>1. pc'[Producer] = pc[Producer] /\ pc'[1] # "hlt" /\ (pc[1] # "hlt" => pc'[1] = pc[1]) /\ (pc[1] = "hlt" => pc'[1] = "next")
    <3>1. CASE pc[1] = "hlt"
      <4>1. Goto(1, "next")
        BY <1>2, <1>3, <3>1, Zenon DEF Resume
      <4>2. pc'[1] = "next" /\ pc'[Producer] = pc[Producer]
        BY <1>1, <4>1, SubscriberGoto, Zenon
      <4>3. pc'[1] # "hlt"
        BY <4>2
      <4> QED BY <3>1, <4>2, <4>3, Zenon
    <3>2. CASE pc[1] # "hlt"
      BY <1>2, <1>3, <3>2, Zenon DEF Resume
    <3> QED BY <3>1, <3>2, Zenon
  <2>2. \A L : WakingFirst(L)' = WakingFirst(L)
    BY <1>2, <2>1, Zenon DEF WakingFirst
  <2>3. SleepInv'
    BY <1>2, <2>1, <2>2, Zenon DEF SleepInv, WakeInv, WakeWords
  <2> QED BY <1>2, <2>1, <2>3, Zenon DEF WakeInv, AddressInv, Publishing, WakeWords
<1>4. CASE c # 1
  <2>1. irr'[1] = irr[1] /\ pc'[1] = pc[1]
    BY <1>1, <1>2, <1>4, Zenon DEF Resume, Goto
  <2>2. CASE pc'[Producer] = pc[Producer]
    BY <1>2, <2>1, <2>2, WakeSame, Zenon DEF FirstSame
  <2>3. CASE c = Producer /\ pc[Producer] = "hlt" /\ pc'[Producer] = "idle"
    <3>1. Publishing /\ Publishing'
      BY <2>3, Zenon DEF Publishing
    <3>2. AddressInv'
      BY <1>2, <2>3, <3>1, Zenon DEF WakeInv, AddressInv
    <3> QED BY <1>2, <2>1, <3>1, <3>2, WakeElsewhere, Zenon DEF FirstSame, NotWakingFirst
  <2>4. \/ pc'[Producer] = pc[Producer]
        \/ c = Producer /\ pc[Producer] = "hlt" /\ pc'[Producer] = "idle"
    BY <1>1, <1>2, Zenon DEF Resume, Goto
  <2> QED BY <2>2, <2>3, <2>4, Zenon
<1> QED BY <1>3, <1>4, Zenon

(* The initial state.                                                      *)
LEMMA WakeInit == Init => WakeInv
<1> SUFFICES ASSUME Init PROVE WakeInv
  OBVIOUS
<1>1. pc[Producer] = "idle" /\ pc[1] = "next" /\ preg = DeadProducer
  BY FirstLines, Cpus, Zenon DEF Init
<1>2. preg.based /\ preg.ix = 1
  BY <1>1 DEF DeadProducer
<1> QED BY <1>1, <1>2, Zenon DEF WakeInv, AddressInv, SleepInv, Publishing

(* Every step preserves the wake-up invariant.                             *)
LEMMA WakeStep ==
  ASSUME TypeOK, WakeInv, StoreBufferCap = 0, [Next]_vars
  PROVE  WakeInv'
<1>1. CASE ProducerStep
  BY <1>1, PublishWake, PublishHeadWake, DisarmWake, TouchLoadWake, TouchStoreWake, SendWake, Zenon DEF ProducerStep
<1>2. ASSUME NEW s \in Subscriber, SubscriberStep(s) PROVE WakeInv'
  BY <1>2, FirstSubscriberWake, OtherSubscriberWake, Zenon
<1>3. ASSUME NEW c \in Cpu, Flush(c) PROVE WakeInv'
  BY <1>3, Unbuffered, Zenon DEF Flush
<1>4. ASSUME NEW c \in Cpu, WakeInterrupt(c) \/ OtherInterrupt(c) PROVE WakeInv'
  BY <1>4, InterruptWake, Zenon
<1>5. CASE UNCHANGED vars
  BY <1>5, WakeSame, Zenon DEF vars, WakeWords, FirstSame
<1> QED BY <1>1, <1>2, <1>3, <1>4, <1>5, Zenon DEF Next

(* The invariant says what was meant.                                      *)
LEMMA WakeImplied ==
  ASSUME TypeOK, WakeInv, StoreBufferCap = 0
  PROVE  NoLostWakeupOf(1)
<1> SUFFICES ASSUME pc[1] = "hlt", ~irr[1], ~Touching(1) PROVE Load(1, Cursor(1)) >= mem[TopicHead]
  BY Zenon DEF NoLostWakeupOf
<1>1. ~WakingFirst({"disarm", "touch", "store", "ipi"})
  <2>1. preg.ix = 1 => preg.ix <= 1
    OBVIOUS
  <2> QED BY <2>1, Zenon DEF WakingFirst, Touching
<1>2. ~(mem[Cursor(1)] < mem[TopicHead])
  BY <1>1, Zenon DEF WakeInv, SleepInv
<1>3. Load(1, Cursor(1)) = mem[Cursor(1)] /\ mem[Cursor(1)] \in Int /\ mem[TopicHead] \in Int
  BY FirstLines, Unbuffered, Zenon DEF TypeOK, MemoryOK
<1> QED BY <1>2, <1>3

-----------------------------------------------------------------------------
(* What the delivery invariant says when no store is in flight.            *)
LEMMA RingFacts ==
  ASSUME ReliableInv, StoreBufferCap = 0
  PROVE  /\ Published \in Nat /\ Lag \in Int /\ Depth \in Nat /\ mem[TopicHead] = Published
         /\ \A t \in Subscriber : mem[Cursor(t)] \in Nat /\ Lag <= mem[Cursor(t)]
         /\ \A t \in Subscriber : pc[t] # "gap"
<1>1. Published \in Nat /\ Depth \in Nat /\ \A t \in Subscriber : Received(t) \in Nat
  <2>1. log \in Seq(Int) /\ \A t \in Subscriber : recv[t] \in Seq(Message)
    BY Zenon DEF ReliableInv, TypeOK
  <2> QED BY <2>1, TopicAssumption DEF Published, Received
<1>2. \A c \in Cpu : Pending(c) = {}
  <2> SUFFICES ASSUME NEW c \in Cpu PROVE Pending(c) = {}
    BY Zenon
  <2>1. Len(sb[c]) = 0
    <3>1. sb[c] = << >>
      BY Unbuffered, Zenon DEF ReliableInv
    <3> QED BY <3>1
  <2> QED BY <2>1 DEF Pending
<1>3. mem[TopicHead] = Published /\ \A t \in Subscriber : mem[Cursor(t)] = Received(t)
  BY <1>2, Cpus, Zenon DEF ReliableInv, DataInv, CursorOrder, Stored
<1>4. \A t \in Subscriber : Published - Depth <= mem[Cursor(t)] /\ pc[t] # "gap"
  BY Zenon DEF ReliableInv, DataInv, CursorOrder, SubscriberInv
<1>5. Lag \in Int
  BY <1>1 DEF Lag
<1> QED BY <1>1, <1>3, <1>4, <1>5, Zenon DEF Lag

(* A step that leaves the producer alone: what an armed producer is owed   *)
(* must survive it.                                                        *)
LEMMA AdvanceBySubscriber ==
  ASSUME AdvanceInv, UNCHANGED <<preg, log>>, pc'[Producer] = pc[Producer],
         \A t \in Subscriber : Delivering(t)' => sreg'[t].cursor = mem'[Cursor(t)],
         Armed => mem'[ProducerWaitline] = Lag \/ irr'[Producer] \/ \E t \in Subscriber : pc'[t] = "pipi",
         Armed /\ MayHalt => MayHalt'
  PROVE  AdvanceInv'
<1>1. Published' = Published /\ Lag' = Lag /\ Armed' = Armed
  BY Zenon DEF Published, Lag, Armed
<1>2. ArmingInv'
  BY <1>1, Zenon DEF ArmingInv, AdvanceInv
<1>3. ArmedInv'
  BY <1>1, Zenon DEF ArmedInv, AdvanceInv
<1> QED BY <1>2, <1>3, Zenon DEF AdvanceInv

(* A step of a producer that does not end in the scan, armed or halted.    *)
LEMMA AdvancePublishing ==
  ASSUME TypeOK, AdvanceInv, UNCHANGED sreg, NEW label, Goto(Producer, label),
         \A t \in Subscriber : mem'[Cursor(t)] = mem[Cursor(t)],
         label \notin {"min", "reload", "arm", "hlt"}, label \in {"idle", "full"} => preg'.call = "publish"
  PROVE  AdvanceInv'
<1>1. pc'[Producer] = label /\ \A t \in Subscriber : pc'[t] = pc[t]
  BY ProducerGoto, Zenon DEF TypeOK
<1>2. ~Armed' /\ ArmingInv'
  BY <1>1, Zenon DEF Armed, ArmingInv
<1> QED BY <1>1, <1>2, Zenon DEF AdvanceInv, ArmedInv, Delivering

(* A step of a subscriber that is not delivering before or after.          *)
LEMMA AdvanceElsewhere ==
  ASSUME TypeOK, AdvanceInv, NEW s \in Subscriber, NEW label, Goto(s, label), ~Delivering(s),
         label \notin {"disarm", "pwait", "pstore", "pipi"}, UNCHANGED <<preg, log, irr>>,
         \A t \in Subscriber : t # s => sreg'[t] = sreg[t],
         \A t \in Subscriber : mem'[Cursor(t)] = mem[Cursor(t)], mem'[ProducerWaitline] = mem[ProducerWaitline]
  PROVE  AdvanceInv'
<1>1. pc'[s] = label /\ pc'[Producer] = pc[Producer] /\ \A t \in Subscriber : t # s => pc'[t] = pc[t]
  BY SubscriberGoto, Zenon DEF TypeOK
<1>2. \A t \in Subscriber : Delivering(t)' => sreg'[t].cursor = mem'[Cursor(t)]
  BY <1>1, Zenon DEF Delivering, AdvanceInv
<1>3. Lag' = Lag
  BY Zenon DEF Lag, Published
<1>4. \A t \in Subscriber : Delivering(t) => Delivering(t)'
  BY <1>1, Zenon DEF Delivering
<1>5. \A t \in Subscriber : pc[t] = "pipi" => pc'[t] = "pipi"
  BY <1>1, Zenon DEF Delivering
<1>6. MayHalt => MayHalt'
  BY <1>3, <1>4, Zenon DEF MayHalt
<1> QED BY <1>1, <1>2, <1>5, <1>6, AdvanceBySubscriber, Zenon DEF AdvanceInv, ArmedInv

(* The steps of a subscriber: one that advances looks at the producer's    *)
(* waitline before it goes on, and leaves it alone only when it is         *)
(* disarmed or nobody waits for this advance.                              *)
LEMMA SubscriberAdvance ==
  ASSUME ReliableInv, AdvanceInv, StoreBufferCap = 0, Reliable, NEW s \in Subscriber, SubscriberStep(s)
  PROVE  AdvanceInv'
<1>1. TypeOK /\ DOMAIN pc = Cpu /\ s \in Cpu /\ Producer \in Cpu /\ s # Producer
      /\ sreg \in [Subscriber -> SubscriberRegisters] /\ irr \in [Cpu -> BOOLEAN] /\ mem \in [Loc -> Int]
  BY Cpus, Zenon DEF ReliableInv, TypeOK, MemoryOK
<1>2. /\ ProducerWaitline \in Loc /\ \A t \in Subscriber : Cursor(t) \in Loc /\ Waitline(t) \in Loc
  BY Locations, Zenon
<1>3. UNCHANGED <<preg, log>>
  BY Zenon DEF SubscriberStep, NextLoadHead, NextLoadSeq, NextCopyValue, NextStoreCursor, NextSkipGap, NextDisarm,
               NextLoadProducerWaitline, NextStoreProducerWaitline, WakeProducer, ArmLoadHead, ArmStoreWaitline, WaitIfArmed
<1>4. \A label : Goto(s, label) =>
         pc'[s] = label /\ pc'[Producer] = pc[Producer] /\ \A t \in Subscriber : t # s => pc'[t] = pc[t]
  BY <1>1, SubscriberGoto, Zenon
<1>5. \A some : Return(s, some) =>
         /\ \E label \in {"next", "arm", "wait"} : Goto(s, label)
         /\ \A t \in Subscriber : t # s => sreg'[t] = sreg[t]
  BY <1>1, Zenon DEF Return
<1>6. \A l \in Loc : \A v : Store(s, l, v) => mem'[l] = v /\ \A k \in Loc : k # l => mem'[k] = mem[k]
  BY <1>1, UnbufferedStore, Zenon
<1>7. Lag' = Lag
  BY <1>3, Zenon DEF Lag, Published
<1>8. \A t \in Subscriber : Delivering(t) => sreg[t].cursor = mem[Cursor(t)]
  BY Zenon DEF AdvanceInv
<1>9. ASSUME NEW label, Goto(s, label), label \in {"disarm", "pwait", "pstore", "pipi"},
             \A t \in Subscriber : t # s => sreg'[t] = sreg[t] /\ mem'[Cursor(t)] = mem[Cursor(t)],
             sreg'[s].cursor = mem'[Cursor(s)],
             label = "pipi" \/ (pc[s] # "pipi" /\ irr' = irr /\ mem'[ProducerWaitline] = mem[ProducerWaitline])
      PROVE  AdvanceInv'
  <2>1. pc'[s] = label /\ pc'[Producer] = pc[Producer] /\ \A t \in Subscriber : t # s => pc'[t] = pc[t]
    BY <1>4, <1>9, Zenon
  <2>2. \A t \in Subscriber : Delivering(t)' => sreg'[t].cursor = mem'[Cursor(t)]
    BY <1>8, <1>9, <2>1, Zenon DEF Delivering
  <2>3. MayHalt'
    BY <1>9, <2>1, Zenon DEF MayHalt, Delivering
  <2>4. Armed => mem'[ProducerWaitline] = Lag \/ irr'[Producer] \/ \E t \in Subscriber : pc'[t] = "pipi"
    BY <1>9, <2>1, Zenon DEF AdvanceInv, ArmedInv
  <2> QED BY <1>3, <2>1, <2>2, <2>3, <2>4, AdvanceBySubscriber, Zenon
<1>10. CASE NextLoadHead(s)
  <2>1. \E label \in {"next", "arm", "wait", "slot"} : Goto(s, label)
    BY <1>5, <1>10, Zenon DEF NextLoadHead
  <2>2. \A t \in Subscriber : t # s => sreg'[t] = sreg[t]
    BY <1>1, <1>5, <1>10, Zenon DEF NextLoadHead
  <2>3. ~Delivering(s) /\ UNCHANGED <<mem, irr>>
    BY <1>10, Zenon DEF NextLoadHead, Delivering
  <2> QED BY <1>1, <1>3, <2>1, <2>2, <2>3, AdvanceElsewhere, Zenon
<1>11. CASE NextLoadSeq(s)
  <2>1. \E label \in {"copy", "gap"} : Goto(s, label)
    BY <1>11, Zenon DEF NextLoadSeq
  <2>2. \A t \in Subscriber : t # s => sreg'[t] = sreg[t]
    BY <1>1, <1>11, Zenon DEF NextLoadSeq
  <2>3. ~Delivering(s) /\ UNCHANGED <<mem, irr>>
    BY <1>11, Zenon DEF NextLoadSeq, Delivering
  <2> QED BY <1>1, <1>3, <2>1, <2>2, <2>3, AdvanceElsewhere, Zenon
<1>12. CASE NextCopyValue(s)
  <2>1. Goto(s, "cursor") /\ \A t \in Subscriber : t # s => sreg'[t] = sreg[t]
    BY <1>1, <1>12, Zenon DEF NextCopyValue
  <2>2. ~Delivering(s) /\ UNCHANGED <<mem, irr>>
    BY <1>12, Zenon DEF NextCopyValue, Delivering
  <2> QED BY <1>1, <1>3, <2>1, <2>2, AdvanceElsewhere, Zenon
<1>13. CASE NextStoreCursor(s)
  <2>1. Goto(s, "disarm") /\ Store(s, Cursor(s), sreg[s].cursor) /\ pc[s] = "cursor" /\ irr' = irr
    BY <1>13, Zenon DEF NextStoreCursor
  <2>2. mem'[Cursor(s)] = sreg[s].cursor /\ \A k \in Loc : k # Cursor(s) => mem'[k] = mem[k]
    BY <1>2, <1>6, <2>1, Zenon
  <2>3. mem'[ProducerWaitline] = mem[ProducerWaitline] /\ \A t \in Subscriber : t # s => mem'[Cursor(t)] = mem[Cursor(t)]
    BY <1>2, <2>2, WakeLocations, Zenon
  <2>4. sreg'[s].cursor = sreg[s].cursor /\ \A t \in Subscriber : t # s => sreg'[t] = sreg[t]
    BY <1>1, <1>13 DEF NextStoreCursor, SubscriberRegisters
  <2> QED BY <1>9, <2>1, <2>2, <2>3, <2>4, Zenon
<1>14. CASE NextSkipGap(s)
  BY <1>14, RingFacts, Zenon DEF NextSkipGap
<1>15. CASE NextDisarm(s)
  <2>1. Goto(s, "pwait") /\ Store(s, Waitline(s), Disarmed) /\ pc[s] = "disarm" /\ UNCHANGED <<sreg, irr>>
    BY <1>15, Zenon DEF NextDisarm
  <2>2. \A k \in Loc : k # Waitline(s) => mem'[k] = mem[k]
    BY <1>2, <1>6, <2>1, Zenon
  <2>3. mem'[ProducerWaitline] = mem[ProducerWaitline] /\ \A t \in Subscriber : mem'[Cursor(t)] = mem[Cursor(t)]
    BY <1>2, <2>2, WakeLocations, Zenon
  <2>4. sreg[s].cursor = mem[Cursor(s)]
    BY <1>8, <2>1, Zenon DEF Delivering
  <2> QED BY <1>9, <2>1, <2>3, <2>4, Zenon
<1>16. CASE NextLoadProducerWaitline(s)
  <2>1. pc[s] = "pwait" /\ UNCHANGED <<mem, irr>> /\ sreg[s].cursor = mem[Cursor(s)]
    BY <1>8, <1>16, Zenon DEF NextLoadProducerWaitline, Delivering
  <2>2. CASE Goto(s, "pstore") /\ UNCHANGED sreg
    BY <1>9, <2>1, <2>2, Zenon
  <2>3. CASE mem[ProducerWaitline] \in {Disarmed, sreg[s].cursor} /\ Return(s, sreg[s].some)
    <3>1. PICK label \in {"next", "arm", "wait"} : Goto(s, label)
      BY <1>5, <2>3, Zenon
    <3>2. pc'[s] = label /\ pc'[Producer] = pc[Producer] /\ \A t \in Subscriber : t # s => pc'[t] = pc[t]
      BY <1>4, <3>1, Zenon
    <3>3. \A t \in Subscriber : Delivering(t)' => sreg'[t].cursor = mem'[Cursor(t)]
      BY <1>5, <1>8, <2>1, <2>3, <3>1, <3>2, Zenon DEF Delivering
    <3>4. \A t \in Subscriber : pc[t] = "pipi" => pc'[t] = "pipi"
      BY <2>1, <3>2, Zenon
    <3>5. Armed => mem'[ProducerWaitline] = Lag \/ irr'[Producer] \/ \E t \in Subscriber : pc'[t] = "pipi"
      BY <2>1, <3>4, Zenon DEF AdvanceInv, ArmedInv
    <3>6. Armed => MayHalt'
      <4>1. SUFFICES ASSUME Armed, ~irr[Producer], \A t \in Subscriber : pc[t] # "pipi" PROVE mem'[Cursor(s)] = Lag'
        BY <2>1, <3>4, Zenon DEF MayHalt, Delivering
      <4>2. mem[ProducerWaitline] = Lag
        BY <4>1, Zenon DEF AdvanceInv, ArmedInv
      <4>3. Lag >= 0 /\ Lag \in Int
        BY <4>1, RingFacts, Zenon DEF AdvanceInv, ArmingInv
      <4>4. Lag # Disarmed
        BY <4>3 DEF Disarmed
      <4> QED BY <1>7, <2>1, <2>3, <4>2, <4>4, Zenon
    <3> QED BY <1>3, <3>2, <3>3, <3>5, <3>6, AdvanceBySubscriber, Zenon
  <2> QED BY <1>1, <1>16, <2>2, <2>3, Unbuffered, Zenon DEF NextLoadProducerWaitline
<1>17. CASE NextStoreProducerWaitline(s)
  <2>1. Goto(s, "pipi") /\ Store(s, ProducerWaitline, sreg[s].cursor) /\ pc[s] = "pstore" /\ UNCHANGED sreg
    BY <1>17, Zenon DEF NextStoreProducerWaitline
  <2>2. \A k \in Loc : k # ProducerWaitline => mem'[k] = mem[k]
    BY <1>2, <1>6, <2>1, Zenon
  <2>3. \A t \in Subscriber : mem'[Cursor(t)] = mem[Cursor(t)]
    BY <1>2, <2>2, WakeLocations, Zenon
  <2>4. sreg[s].cursor = mem[Cursor(s)]
    BY <1>8, <2>1, Zenon DEF Delivering
  <2> QED BY <1>9, <2>1, <2>3, <2>4, Zenon
<1>18. CASE WakeProducer(s)
  <2>1. Return(s, sreg[s].some) /\ UNCHANGED mem /\ irr' = [irr EXCEPT ![Producer] = TRUE]
    BY <1>18, Zenon DEF WakeProducer
  <2>2. PICK label \in {"next", "arm", "wait"} : Goto(s, label)
    BY <1>5, <2>1, Zenon
  <2>3. pc'[s] = label /\ pc'[Producer] = pc[Producer] /\ \A t \in Subscriber : t # s => pc'[t] = pc[t]
    BY <1>4, <2>2, Zenon
  <2>4. \A t \in Subscriber : Delivering(t)' => sreg'[t].cursor = mem'[Cursor(t)]
    BY <1>5, <1>8, <2>1, <2>2, <2>3, Zenon DEF Delivering
  <2>5. irr'[Producer] /\ MayHalt'
    BY <1>1, <2>1, Zenon DEF MayHalt
  <2> QED BY <1>3, <2>3, <2>4, <2>5, AdvanceBySubscriber, Zenon
<1>19. CASE ArmLoadHead(s)
  <2>1. Goto(s, "armstore") /\ \A t \in Subscriber : t # s => sreg'[t] = sreg[t]
    BY <1>1, <1>19, Zenon DEF ArmLoadHead
  <2>2. ~Delivering(s) /\ UNCHANGED <<mem, irr>>
    BY <1>19, Zenon DEF ArmLoadHead, Delivering
  <2> QED BY <1>1, <1>3, <2>1, <2>2, AdvanceElsewhere, Zenon
<1>20. CASE ArmStoreWaitline(s)
  <2>1. Goto(s, "next") /\ Store(s, Waitline(s), sreg[s].head) /\ \A t \in Subscriber : t # s => sreg'[t] = sreg[t]
    BY <1>1, <1>20, Zenon DEF ArmStoreWaitline
  <2>2. ~Delivering(s) /\ UNCHANGED irr
    BY <1>20, Zenon DEF ArmStoreWaitline, Delivering
  <2>3. \A k \in Loc : k # Waitline(s) => mem'[k] = mem[k]
    BY <1>2, <1>6, <2>1, Zenon
  <2>4. mem'[ProducerWaitline] = mem[ProducerWaitline] /\ \A t \in Subscriber : mem'[Cursor(t)] = mem[Cursor(t)]
    BY <1>2, <2>3, WakeLocations, Zenon
  <2> QED BY <1>1, <1>3, <2>1, <2>2, <2>4, AdvanceElsewhere, Zenon
<1>21. CASE WaitIfArmed(s)
  <2>1. (\E label \in {"hlt", "next"} : Goto(s, label)) /\ \A t \in Subscriber : t # s => sreg'[t] = sreg[t]
    BY <1>1, <1>21, Zenon DEF WaitIfArmed
  <2>2. ~Delivering(s) /\ UNCHANGED <<mem, irr>>
    BY <1>21, Zenon DEF WaitIfArmed, Delivering
  <2> QED BY <1>1, <1>3, <2>1, <2>2, AdvanceElsewhere, Zenon
<1> QED BY <1>10, <1>11, <1>12, <1>13, <1>14, <1>15, <1>16, <1>17, <1>18, <1>19, <1>20, <1>21, Zenon DEF SubscriberStep

(* The producer stores no cursor.                                          *)
LEMMA CursorsKept ==
  ASSUME TypeOK, StoreBufferCap = 0, NEW l \in Loc, NEW v, Store(Producer, l, v), \A t \in Subscriber : l # Cursor(t)
  PROVE  /\ \A t \in Subscriber : mem'[Cursor(t)] = mem[Cursor(t)]
         /\ mem'[l] = v
<1>1. mem'[l] = v /\ \A k \in Loc : k # l => mem'[k] = mem[k]
  BY Cpus, UnbufferedStore, Zenon
<1> QED BY <1>1, Locations, Zenon

(* The steps of a publication after the scan.                              *)
LEMMA PublishingAdvance ==
  ASSUME ReliableInv, AdvanceInv, StoreBufferCap = 0, Reliable,
         \/ PublishStoreSeq \/ PublishStoreValue \/ PublishStoreHead \/ PublishDisarm
         \/ TouchLoad \/ TouchStore \/ WakeSubscriber \/ RetryPublish
  PROVE  AdvanceInv'
<1>1. TypeOK /\ preg \in ProducerRegisters /\ preg.seq \in Int /\ preg.ix \in Subscriber /\ preg.seq - 1 \in Int
  <2>1. TypeOK /\ preg \in ProducerRegisters
    BY Zenon DEF ReliableInv, TypeOK
  <2> QED BY <2>1 DEF ProducerRegisters
<1>2. UNCHANGED sreg
  BY Zenon DEF PublishStoreSeq, PublishStoreValue, PublishStoreHead, PublishDisarm, TouchLoad, TouchStore,
               WakeSubscriber, RetryPublish
<1>3. \A t \in Subscriber : mem'[Cursor(t)] = mem[Cursor(t)]
  <2>1. CASE UNCHANGED mem
    BY <2>1, Zenon
  <2>2. CASE PublishStoreSeq
    <3>1. SlotSeq(preg.seq % Depth) \in Loc /\ \A t \in Subscriber : SlotSeq(preg.seq % Depth) # Cursor(t)
      BY <1>1, Locations, WakeLocations, Zenon
    <3>2. \E v : Store(Producer, SlotSeq(preg.seq % Depth), v)
      BY <2>2, Zenon DEF PublishStoreSeq
    <3> QED BY <1>1, <3>1, <3>2, CursorsKept, Zenon
  <2>3. CASE PublishStoreValue
    <3>1. SlotValue((preg.seq - 1) % Depth) \in Loc /\ \A t \in Subscriber : SlotValue((preg.seq - 1) % Depth) # Cursor(t)
      BY <1>1, Locations, WakeLocations, Zenon
    <3>2. \E v : Store(Producer, SlotValue((preg.seq - 1) % Depth), v)
      BY <2>3, Zenon DEF PublishStoreValue
    <3> QED BY <1>1, <3>1, <3>2, CursorsKept, Zenon
  <2>4. CASE PublishStoreHead
    BY <1>1, <2>4, CursorsKept, Locations, WakeLocations, Zenon DEF PublishStoreHead
  <2>5. CASE PublishDisarm
    BY <1>1, <2>5, CursorsKept, Locations, WakeLocations, Zenon DEF PublishDisarm
  <2>6. CASE TouchStore
    <3>1. TouchedLine \in Loc /\ \A t \in Subscriber : TouchedLine # Cursor(t)
      BY <1>1, Locations, WakeLocations, Zenon DEF TouchedLine
    <3> QED BY <1>1, <2>6, <3>1, CursorsKept, Zenon DEF TouchStore
  <2> QED BY <2>1, <2>2, <2>3, <2>4, <2>5, <2>6, Zenon DEF TouchLoad, WakeSubscriber, RetryPublish
<1>4. \A r : TouchDone(r) => \/ Goto(Producer, "touch")
                             \/ Goto(Producer, "idle") /\ preg'.call = "publish"
  <2>1. DeadProducer.call = "publish"
    BY DEF DeadProducer
  <2>2. \A r : TouchDone(r) => \/ Goto(Producer, "touch")
                               \/ Goto(Producer, "idle") /\ preg' = DeadProducer
    BY Zenon DEF TouchDone
  <2> QED BY <2>1, <2>2, Zenon
<1>5. \E label \in {"idle", "seq", "value", "head", "disarm", "touch", "store", "ipi"} :
         Goto(Producer, label) /\ (label = "idle" => preg'.call = "publish")
  <2>1. RetryPublish => preg'.call = "publish"
    BY Zenon DEF RetryPublish, AdvanceInv, ArmingInv
  <2> QED BY <1>4, <2>1, Zenon
          DEF PublishStoreSeq, PublishStoreValue, PublishStoreHead, PublishDisarm, TouchLoad, TouchStore,
              WakeSubscriber, RetryPublish
<1> QED BY <1>1, <1>2, <1>3, <1>5, AdvancePublishing, Zenon

(* The end of the scan: armed and full, the minimum is a whole ring        *)
(* behind, and the producer may halt.                                      *)
LEMMA ScanAdvance ==
  ASSUME ReliableInv, AdvanceInv, StoreBufferCap = 0, pc[Producer] \in {"min", "reload"}, NEW r \in ProducerRegisters,
         MinDone(r), r.seq = preg.seq, r.call = preg.call, r.min >= Lag, r.min >= 0,
         Armed /\ r.min = Lag => MayHalt,
         UNCHANGED <<mem, irr, sreg, log>>
  PROVE  AdvanceInv'
<1>1. TypeOK /\ DOMAIN pc = Cpu
  BY Zenon DEF ReliableInv, TypeOK
<1>2. r.seq = Published /\ r.min \in Int /\ r.ix \in Subscriber /\ Published \in Nat /\ Depth \in Nat /\ Lag = Published - Depth
  BY RingFacts, Zenon DEF ReliableInv, DataInv, RegisterInv, ProducerRegisters, Lag
<1>3. Full(r) => r.min = Lag
  BY <1>2 DEF Full
<1>4. \A label : Goto(Producer, label) => pc'[Producer] = label /\ \A t \in Subscriber : pc'[t] = pc[t]
  BY <1>1, ProducerGoto, Zenon
<1>5. DeadProducer.call = "publish"
  BY DEF DeadProducer
<1>6. Lag' = Lag
  BY Zenon DEF Lag, Published
<1>7. ASSUME \A t \in Subscriber : pc'[t] = pc[t] PROVE MayHalt' = MayHalt
  BY <1>6, <1>7, Zenon DEF MayHalt, Delivering
<1>8. ASSUME NEW label, Goto(Producer, label)
      PROVE  \A t \in Subscriber : Delivering(t)' => sreg'[t].cursor = mem'[Cursor(t)]
  BY <1>4, <1>8, Zenon DEF Delivering, AdvanceInv
<1>9. Armed => /\ preg.call = "armed" /\ Lag >= 0
               /\ mem[ProducerWaitline] = Lag \/ irr[Producer] \/ \E t \in Subscriber : pc[t] = "pipi"
  BY Zenon DEF Armed, AdvanceInv, ArmingInv, ArmedInv
<1>10. preg.call = "armed" => Armed
  BY Zenon DEF Armed
<1>11. CASE r.ix < NumSubscribers /\ Goto(Producer, "min") /\ preg' = [r EXCEPT !.ix = @ + 1]
  <2>1. preg'.call = preg.call /\ preg'.min = r.min
    BY <1>11 DEF ProducerRegisters
  <2>2. pc'[Producer] = "min" /\ \A t \in Subscriber : pc'[t] = pc[t]
    BY <1>4, <1>11, Zenon
  <2>3. Armed' <=> Armed
    BY <1>9, <1>10, <2>1, <2>2, Zenon DEF Armed
  <2>4. ArmingInv'
    BY <1>6, <1>9, <2>1, <2>2, <2>3, Zenon DEF ArmingInv
  <2>5. ArmedInv'
    BY <1>6, <1>7, <1>9, <2>1, <2>2, <2>3, Zenon DEF ArmedInv
  <2> QED BY <1>8, <1>11, <2>4, <2>5, Zenon DEF AdvanceInv
<1>12. ASSUME NEW label, Goto(Producer, label), label \in {"seq", "full", "idle"}, label = "seq" \/ preg' = DeadProducer
       PROVE  AdvanceInv'
  BY <1>1, <1>5, <1>12, AdvancePublishing, Zenon
<1>13. CASE r.call = "wait" /\ Full(r) /\ Goto(Producer, "arm") /\ preg' = [r EXCEPT !.ix = 1]
  <2>1. preg'.min = Lag /\ Lag >= 0
    BY <1>3, <1>13 DEF ProducerRegisters
  <2>2. pc'[Producer] = "arm"
    BY <1>4, <1>13, Zenon
  <2>3. ~Armed' /\ ArmingInv'
    BY <1>6, <2>1, <2>2, Zenon DEF Armed, ArmingInv
  <2> QED BY <1>8, <1>13, <2>3, Zenon DEF AdvanceInv, ArmedInv
<1>14. CASE r.call = "armed" /\ Full(r) /\ Goto(Producer, "hlt") /\ preg' = DeadProducer
  <2>1. pc'[Producer] = "hlt" /\ \A t \in Subscriber : pc'[t] = pc[t]
    BY <1>4, <1>14, Zenon
  <2>2. Armed /\ MayHalt
    BY <1>3, <1>10, <1>14, Zenon
  <2>3. ArmingInv'
    BY <1>5, <1>6, <1>9, <1>14, <2>1, <2>2, Zenon DEF ArmingInv, Armed
  <2>4. ArmedInv'
    BY <1>6, <1>7, <1>9, <2>1, <2>2, Zenon DEF ArmedInv
  <2> QED BY <1>8, <1>14, <2>3, <2>4, Zenon DEF AdvanceInv
<1> QED BY <1>11, <1>12, <1>13, <1>14, Zenon DEF MinDone, Gate

(* The steps of the scan.                                                  *)
LEMMA CompareAdvance ==
  ASSUME ReliableInv, AdvanceInv, StoreBufferCap = 0, MinCompare \/ MinReload
  PROVE  AdvanceInv'
<1> DEFINE c == mem[Cursor(preg.ix)]
           r == [preg EXCEPT !.min = c]
<1>1. TypeOK /\ preg \in ProducerRegisters /\ preg.ix \in Subscriber /\ preg.min \in Int
  BY Zenon DEF ReliableInv, TypeOK, ProducerRegisters
<1>2. c \in Nat /\ Lag <= c /\ Lag \in Int
  BY <1>1, RingFacts, Zenon
<1>3. r \in ProducerRegisters /\ r.min = c /\ r.seq = preg.seq /\ r.call = preg.call
  <2>1. c \in Int
    BY <1>2
  <2> HIDE DEF c
  <2> QED BY <1>1, <2>1, Zenon DEF ProducerRegisters
<1>4. UNCHANGED <<mem, irr, sreg, log>> /\ pc[Producer] \in {"min", "reload"}
  BY Zenon DEF MinCompare, MinReload
<1>5. c = Lag => MayHalt
  BY <1>1, Zenon DEF MayHalt
<1>6. c >= Lag /\ c >= 0
  BY <1>2
<1>7. CASE MinDone(r)
  <2> HIDE DEF r, c
  <2> QED BY <1>3, <1>4, <1>5, <1>6, <1>7, ScanAdvance, Zenon
<1>8. CASE preg.ix > 1 /\ MinDone(preg)
  <2>1. preg.min >= Lag /\ preg.min >= 0
    BY <1>4, <1>8, Zenon DEF ReliableInv, DataInv, ScanInv, Lag, AdvanceInv, ArmingInv
  <2>2. Armed /\ preg.min = Lag => MayHalt
    BY <1>8, Zenon DEF AdvanceInv, ArmedInv
  <2> QED BY <1>1, <1>4, <1>8, <2>1, <2>2, ScanAdvance, Zenon
<1>9. CASE pc[Producer] = "min" /\ Goto(Producer, "reload") /\ UNCHANGED preg
  <2>1. pc'[Producer] = "reload" /\ \A t \in Subscriber : pc'[t] = pc[t]
    BY <1>1, <1>9, ProducerGoto, Zenon DEF TypeOK
  <2>2. Lag' = Lag
    BY <1>4, Zenon DEF Lag, Published
  <2>3. MayHalt' = MayHalt
    BY <1>4, <2>1, <2>2, Zenon DEF MayHalt, Delivering
  <2>4. Armed' = Armed
    BY <1>9, <2>1, Zenon DEF Armed
  <2>5. ArmingInv'
    BY <1>9, <2>1, <2>2, <2>4, Zenon DEF AdvanceInv, ArmingInv
  <2>6. ArmedInv'
    BY <1>4, <1>9, <2>1, <2>2, <2>3, <2>4, Zenon DEF AdvanceInv, ArmedInv
  <2> QED BY <1>4, <2>1, <2>5, <2>6, Zenon DEF AdvanceInv, Delivering
<1>10. Load(Producer, Cursor(preg.ix)) = c
  BY <1>1, Cpus, Unbuffered, Zenon
<1> QED BY <1>7, <1>8, <1>9, <1>10, Zenon DEF MinCompare, MinReload

(* The start of the scan, and the arming store: the waitline holds the     *)
(* minimum seen.                                                           *)
LEMMA ArmAdvance ==
  ASSUME ReliableInv, AdvanceInv, StoreBufferCap = 0, Reliable, PublishLoadHead \/ WaitForAdvance \/ ArmProducer
  PROVE  AdvanceInv'
<1>1. TypeOK /\ preg \in ProducerRegisters
  BY Zenon DEF ReliableInv, TypeOK
<1>2. UNCHANGED <<irr, sreg, log>> /\ Goto(Producer, "min") /\ pc[Producer] \in {"idle", "full", "arm"}
  BY Zenon DEF PublishLoadHead, WaitForAdvance, ArmProducer
<1>3. pc'[Producer] = "min" /\ \A t \in Subscriber : pc'[t] = pc[t]
  BY <1>1, <1>2, ProducerGoto, Zenon DEF TypeOK
<1>4. preg.ix = 1
  BY <1>2, Zenon DEF ReliableInv, DataInv, RegisterInv
<1>5. Lag' = Lag
  BY <1>2, Zenon DEF Lag, Published
<1>6. ASSUME preg'.ix = 1, \A t \in Subscriber : mem'[Cursor(t)] = mem[Cursor(t)],
             Armed' => Lag >= 0 /\ mem'[ProducerWaitline] = Lag
      PROVE  AdvanceInv'
  <2>1. ~(preg'.ix > 1) /\ pc'[Producer] # "hlt" /\ pc'[Producer] # "arm" /\ pc'[Producer] \notin {"idle", "full", "hlt"}
    BY <1>3, <1>6
  <2>2. ArmingInv'
    BY <1>5, <1>6, <2>1, Zenon DEF ArmingInv
  <2>3. ArmedInv'
    BY <1>5, <1>6, <2>1, Zenon DEF ArmedInv
  <2> QED BY <1>2, <1>3, <1>6, <2>2, <2>3, Zenon DEF AdvanceInv, Delivering
<1>7. CASE PublishLoadHead
  <2>1. PICK v : preg' = [preg EXCEPT !.seq = Load(Producer, TopicHead), !.val = v]
    BY <1>7, Zenon DEF PublishLoadHead
  <2>2. preg.call = "publish" /\ UNCHANGED mem
    BY <1>7, Zenon DEF PublishLoadHead, AdvanceInv, ArmingInv
  <2>3. preg'.ix = 1 /\ preg'.call = "publish"
    BY <1>1, <1>4, <2>1, <2>2 DEF ProducerRegisters
  <2>4. ~Armed'
    BY <1>3, <2>3 DEF Armed
  <2> QED BY <1>6, <2>2, <2>3, <2>4, Zenon
<1>8. CASE WaitForAdvance
  <2>1. preg' = [preg EXCEPT !.seq = Load(Producer, TopicHead), !.call = "wait"] /\ UNCHANGED mem
    BY <1>8, Zenon DEF WaitForAdvance
  <2>2. preg'.ix = 1 /\ preg'.call = "wait"
    BY <1>1, <1>4, <2>1 DEF ProducerRegisters
  <2>3. ~Armed'
    BY <1>3, <2>2 DEF Armed
  <2> QED BY <1>6, <2>1, <2>2, <2>3, Zenon
<1>9. CASE ArmProducer
  <2>1. Store(Producer, ProducerWaitline, preg.min) /\ preg' = [preg EXCEPT !.min = 0, !.call = "armed"] /\ pc[Producer] = "arm"
    BY <1>9, Zenon DEF ArmProducer
  <2>2. preg'.ix = 1
    BY <1>1, <1>4, <2>1 DEF ProducerRegisters
  <2>3. mem'[ProducerWaitline] = preg.min /\ \A t \in Subscriber : mem'[Cursor(t)] = mem[Cursor(t)]
    BY <1>1, <2>1, CursorsKept, Locations, WakeLocations, Zenon
  <2>4. preg.min = Lag /\ Lag >= 0
    BY <2>1, Zenon DEF AdvanceInv, ArmingInv
  <2> QED BY <1>6, <2>2, <2>3, <2>4, Zenon
<1> QED BY <1>7, <1>8, <1>9, Zenon

(* The interrupts: none ends the masked stretch between arming and         *)
(* halting.                                                                *)
LEMMA InterruptAdvance ==
  ASSUME TypeOK, AdvanceInv, NEW c \in Cpu, WakeInterrupt(c) \/ OtherInterrupt(c)
  PROVE  AdvanceInv'
<1>1. DOMAIN pc = Cpu /\ irr \in [Cpu -> BOOLEAN] /\ Producer \in Cpu
  BY Cpus, Zenon DEF TypeOK
<1>2. UNCHANGED <<mem, preg, sreg, log>> /\ Resume(c)
  BY Zenon DEF WakeInterrupt, OtherInterrupt
<1>3. CASE c = Producer
  <2>1. \A t \in Subscriber : pc'[t] = pc[t]
    BY <1>1, <1>2, <1>3, Cpus, Zenon DEF Resume, Goto
  <2>2. \/ pc[Producer] = "hlt" /\ pc'[Producer] = "idle"
        \/ pc[Producer] # "hlt" /\ pc'[Producer] = pc[Producer]
    BY <1>1, <1>2, <1>3, Zenon DEF Resume, Goto
  <2>3. pc[Producer] # "hlt" => ~Masked(Producer)
    BY <1>3, Zenon DEF WakeInterrupt, OtherInterrupt
  <2>4. ~Armed' /\ pc'[Producer] # "arm"
    <3>1. CASE pc'[Producer] = "idle"
      BY <3>1 DEF Armed
    <3>2. CASE pc[Producer] # "hlt" /\ pc'[Producer] = pc[Producer]
      BY <1>2, <2>3, <3>2, Zenon DEF Armed, Masked
    <3> QED BY <2>2, <3>1, <3>2, Zenon
  <2>5. ArmingInv'
    <3>1. CASE pc[Producer] = "hlt" /\ pc'[Producer] = "idle"
      <4>1. preg'.call = "publish"
        BY <1>2, <3>1, Zenon DEF AdvanceInv, ArmingInv
      <4>2. pc'[Producer] \notin {"min", "reload", "arm"}
        BY <3>1
      <4> QED BY <2>4, <4>1, <4>2, Zenon DEF ArmingInv
    <3>2. CASE pc'[Producer] = pc[Producer]
      BY <1>2, <2>4, <3>2, Zenon DEF AdvanceInv, ArmingInv
    <3> QED BY <2>2, <3>1, <3>2, Zenon
  <2> QED BY <1>2, <2>1, <2>4, <2>5, Zenon DEF AdvanceInv, ArmedInv, Delivering
<1>4. CASE c # Producer
  <2>1. pc'[Producer] = pc[Producer] /\ irr'[Producer] = irr[Producer]
    BY <1>1, <1>2, <1>4, Zenon DEF Resume, Goto, WakeInterrupt, OtherInterrupt
  <2>2. \A t \in Subscriber : pc'[t] = pc[t] \/ (pc[t] = "hlt" /\ pc'[t] = "next")
    BY <1>1, <1>2, <1>4, Cpus, Zenon DEF Resume, Goto
  <2>3. \A t \in Subscriber : Delivering(t)' = Delivering(t) /\ (pc[t] = "pipi" => pc'[t] = "pipi")
    <3> SUFFICES ASSUME NEW t \in Subscriber PROVE Delivering(t)' = Delivering(t) /\ (pc[t] = "pipi" => pc'[t] = "pipi")
      BY Zenon
    <3>1. CASE pc'[t] = pc[t]
      BY <3>1, Zenon DEF Delivering
    <3>2. CASE pc[t] = "hlt" /\ pc'[t] = "next"
      BY <3>2 DEF Delivering
    <3> QED BY <2>2, <3>1, <3>2, Zenon
  <2>4. MayHalt' = MayHalt
    BY <1>2, <2>1, <2>3, Zenon DEF MayHalt, Lag, Published
  <2> QED BY <1>2, <2>1, <2>3, <2>4, AdvanceBySubscriber, Zenon DEF AdvanceInv, ArmedInv
<1> QED BY <1>3, <1>4, Zenon

(* The initial state.                                                      *)
LEMMA AdvanceInit == Init => AdvanceInv
<1> SUFFICES ASSUME Init PROVE AdvanceInv
  OBVIOUS
<1>1. pc[Producer] = "idle" /\ preg = DeadProducer /\ \A t \in Subscriber : pc[t] = "next"
  BY Cpus, Zenon DEF Init
<1>2. preg.call = "publish"
  BY <1>1 DEF DeadProducer
<1>3. ~Armed
  BY <1>1 DEF Armed
<1>4. \A t \in Subscriber : ~Delivering(t)
  BY <1>1, Zenon DEF Delivering
<1>5. pc[Producer] \notin {"min", "reload", "arm"}
  BY <1>1
<1> QED BY <1>2, <1>3, <1>4, <1>5, Zenon DEF AdvanceInv, ArmingInv, ArmedInv

(* Every step preserves the invariant of waiting for an advance.           *)
LEMMA AdvanceStep ==
  ASSUME ReliableInv, AdvanceInv, StoreBufferCap = 0, Reliable, [Next]_vars
  PROVE  AdvanceInv'
<1>1. CASE ProducerStep
  BY <1>1, PublishingAdvance, CompareAdvance, ArmAdvance, Zenon DEF ProducerStep
<1>2. ASSUME NEW s \in Subscriber, SubscriberStep(s) PROVE AdvanceInv'
  BY <1>2, SubscriberAdvance, Zenon
<1>3. ASSUME NEW c \in Cpu, Flush(c) PROVE AdvanceInv'
  BY <1>3, Unbuffered, Zenon DEF Flush, ReliableInv
<1>4. ASSUME NEW c \in Cpu, WakeInterrupt(c) \/ OtherInterrupt(c) PROVE AdvanceInv'
  BY <1>4, InterruptAdvance, Zenon DEF ReliableInv
<1>5. CASE UNCHANGED vars
  <2>1. UNCHANGED <<preg, log, irr, mem, sreg, pc>>
    BY <1>5, Zenon DEF vars
  <2>2. MayHalt' = MayHalt
    BY <2>1, Zenon DEF MayHalt, Lag, Published, Delivering
  <2> QED BY <2>1, <2>2, AdvanceBySubscriber, Zenon DEF AdvanceInv, ArmedInv, Delivering
<1> QED BY <1>1, <1>2, <1>3, <1>4, <1>5, Zenon DEF Next

(* The invariant says what was meant.                                      *)
LEMMA AdvanceImplied ==
  ASSUME ReliableInv, AdvanceInv, StoreBufferCap = 0
  PROVE  NoLostAdvance
<1> SUFFICES ASSUME pc[Producer] = "hlt", ~irr[Producer], \A s \in Subscriber : ~Delivering(s)
             PROVE  \E s \in Subscriber : mem[TopicHead] - mem[Cursor(s)] >= Depth
  BY Zenon DEF NoLostAdvance, Delivering
<1>1. PICK s \in Subscriber : mem[Cursor(s)] = Lag
  BY Zenon DEF AdvanceInv, ArmedInv, Armed, MayHalt
<1>2. mem[TopicHead] - mem[Cursor(s)] >= Depth
  BY <1>1, RingFacts DEF Lag
<1> QED BY <1>2, Zenon
=============================================================================
