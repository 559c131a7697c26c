--------------------------- MODULE RuntimeProofs ----------------------------
(***************************************************************************)
(* The runtime below the topics.  The wait for an NVMe command, for every  *)
(* depth of the queue, range of identifiers, poll limit and number of      *)
(* commands.  The harness that boots an image, for every choice of options *)
(* and any amount of output.  Leaving the firmware, for every arena,       *)
(* buffer length, growth of the map and number of changes.  And the        *)
(* startup of the vCPUs, for any number of them and any poll limit.        *)
(***************************************************************************)
EXTENDS Boot, APStartup, NvmeCompletion, Runner, TLAPS

-----------------------------------------------------------------------------
(* Waiting for an NVMe command.                                            *)

(* Quotient and remainder.                                                   *)
LEMMA Division ==
  ASSUME NEW B \in Nat \ {0}, NEW a \in Nat
  PROVE  a % B \in 0..(B - 1) /\ a % B \in Nat /\ a \div B \in Nat /\ a = B * (a \div B) + (a % B)
OBVIOUS

(* Quotient and remainder are the only ones.                               *)
LEMMA DivisionUnique ==
  ASSUME NEW B \in Nat \ {0}, NEW q \in Nat, NEW r \in 0..(B - 1), NEW a, a = B * q + r
  PROVE  a % B = r /\ a \div B = q
OBVIOUS

(* Two numbers at most B apart with the same remainder are B apart.          *)
LEMMA Quotients ==
  ASSUME NEW B \in Nat \ {0}, NEW p \in Nat, NEW q \in Nat, NEW r \in Nat, NEW a, NEW b,
         a = B * p + r, b = B * q + r, a < b, b - a <= B
  PROVE  q = p + 1 /\ b - a = B
<1>1. B * (q - p) > 0 /\ B * (q - p) <= B
  OBVIOUS
<1>2. q = p + 1
  BY <1>1
<1> QED BY <1>2

(* The next number with the same remainder is one period on.               *)
LEMMA Period ==
  ASSUME NEW B \in Nat \ {0}, NEW a \in Nat, NEW b \in Nat, a < b, b - a <= B, a % B = b % B
  PROVE  b - a = B /\ b \div B = (a \div B) + 1
<1> DEFINE p == a \div B  q == b \div B  r == a % B
<1>1. a = B * p + r /\ p \in Nat /\ r \in Nat
  BY Division, Zenon
<1>2. b = B * q + r /\ q \in Nat
  BY Division, Zenon
<1> HIDE DEF p, q, r
<1>3. q = p + 1 /\ b - a = B
  BY <1>1, <1>2, Quotients
<1> QED BY <1>3, Zenon DEF p, q

(* Remainder and quotient of a sum.                                          *)
LEMMA Sums ==
  ASSUME NEW B \in Nat \ {0}, NEW p \in Nat, NEW q \in Nat, NEW r \in Nat, NEW s \in Nat, NEW i \in Nat, NEW a,
         a = B * p + r, r + i = B * q + s
  PROVE  a + i = B * (p + q) + s /\ p + q \in Nat
OBVIOUS

(* Advancing the remainder advances the number.                            *)
LEMMA Shift ==
  ASSUME NEW B \in Nat \ {0}, NEW a \in Nat, NEW i \in Nat
  PROVE  ((a % B) + i) % B = (a + i) % B /\ (a + i) \div B = (a \div B) + (((a % B) + i) \div B)
<1> DEFINE p == a \div B  r == a % B
<1>1. a = B * p + r /\ p \in Nat /\ r \in Nat
  BY Division, Zenon
<1> HIDE DEF p, r
<1>2. r + i \in Nat
  BY <1>1
<1> DEFINE q == (r + i) \div B  s == (r + i) % B
<1>3. r + i = B * q + s /\ q \in Nat /\ s \in 0..(B - 1) /\ s \in Nat
  BY <1>2, Division, Zenon
<1> HIDE DEF q, s
<1>4. a + i = B * (p + q) + s /\ p + q \in Nat
  BY <1>1, <1>3, Sums
<1>5. (a + i) % B = s /\ (a + i) \div B = p + q
  <2> DEFINE x == a + i  y == p + q
  <2>1. x = B * y + s /\ y \in Nat
    BY <1>4, Zenon
  <2> HIDE DEF x, y
  <2>2. x % B = s /\ x \div B = y
    BY <1>3, <2>1, DivisionUnique, Zenon
  <2> QED BY <2>2, Zenon DEF x, y
<1> QED BY <1>5, Zenon DEF p, q, r, s

-----------------------------------------------------------------------------
(* Where a reader stands after i more entries.                               *)
LEMMA PlaceAdvance ==
  ASSUME NEW n \in Nat, NEW i \in Nat
  PROVE  /\ AdvanceHead(PlaceHead(n), i) = PlaceHead(n + i)
         /\ AdvancePhase(PlaceHead(n), PlacePhase(n), i) = PlacePhase(n + i)
<1> DEFINE q == n \div QueueDepth  k == ((n % QueueDepth) + i) \div QueueDepth
<1>1. QueueDepth \in Nat \ {0}
  BY NvmeAssumption, Zenon
<1>2. ((n % QueueDepth) + i) % QueueDepth = (n + i) % QueueDepth /\ (n + i) \div QueueDepth = q + k
  BY <1>1, Shift, Zenon
<1>3. n % QueueDepth \in Nat /\ q \in Nat
  BY <1>1, Division, Zenon
<1>4. (n % QueueDepth) + i \in Nat
  BY <1>3
<1>5. k \in Nat
  BY <1>1, <1>4, Division, Zenon
<1> HIDE DEF q, k
<1>6. (IF k % 2 = 1 THEN ~(q % 2 = 0) ELSE q % 2 = 0) = ((q + k) % 2 = 0)
  BY <1>3, <1>5
<1> QED BY <1>2, <1>6, Zenon DEF AdvanceHead, AdvancePhase, PlaceHead, PlacePhase, q, k

(* Neighbouring entries are in different slots; the same slot a round later  *)
(* has the other phase.                                                      *)
LEMMA PlaceTypes ==
  ASSUME NEW n \in Nat
  PROVE  PlaceHead(n) \in QueueSlot /\ PlaceHead(n) <= n /\ (n < QueueDepth => PlaceHead(n) = n /\ PlacePhase(n))
<1>1. QueueDepth \in Nat \ {0}
  BY NvmeAssumption, Zenon
<1>2. n % QueueDepth \in 0..(QueueDepth - 1)
  BY <1>1, Division, Zenon
<1>3. n % QueueDepth <= n
  BY <1>1, Division
<1>4. n < QueueDepth => n % QueueDepth = n /\ n \div QueueDepth = 0
  BY <1>1
<1> QED BY <1>2, <1>3, <1>4 DEF PlaceHead, PlacePhase, QueueSlot

(* Two entries at most a lap apart share a slot only if they are one lap   *)
(* apart, and then their phases differ.                                    *)
LEMMA SameSlot ==
  ASSUME NEW a \in Nat, NEW b \in Nat, a < b, b - a <= QueueDepth, PlaceHead(a) = PlaceHead(b)
  PROVE  b - a = QueueDepth /\ PlacePhase(b) = ~PlacePhase(a)
<1>1. QueueDepth \in Nat \ {0}
  BY NvmeAssumption, Zenon
<1>2. b - a = QueueDepth /\ b \div QueueDepth = (a \div QueueDepth) + 1
  BY <1>1, Period, Zenon DEF PlaceHead
<1>3. a \div QueueDepth \in Nat
  BY <1>1, Division, Zenon
<1>4. (((a \div QueueDepth) + 1) % 2 = 0) = ~((a \div QueueDepth) % 2 = 0)
  BY <1>3
<1> QED BY <1>2, <1>4, Zenon DEF PlacePhase

(* Identifiers.                                                              *)
LEMMA IdTypes == ASSUME NEW n \in Nat \ {0} PROVE IdOf(n) \in 1..(IdSpace - 1) /\ IdOf(n) \in CommandId /\ IdOf(n) # 0
<1>1. IdSpace - 1 \in Nat \ {0} /\ n - 1 \in Nat
  BY NvmeAssumption
<1>2. (n - 1) % (IdSpace - 1) \in 0..(IdSpace - 1 - 1)
  BY <1>1, Division, Zenon
<1> QED BY <1>2, NvmeAssumption DEF IdOf, CommandId

(* The identifiers of commands follow each other.                          *)
LEMMA IdNext == ASSUME NEW n \in Nat \ {0} PROVE NextCommandId(IdOf(n)) = IdOf(n + 1)
<1> DEFINE M == IdSpace - 1
<1>1. M \in Nat \ {0} /\ n - 1 \in Nat /\ 1 \in Nat /\ IdSpace = M + 1 /\ M > 1
  BY NvmeAssumption
<1>2. (((n - 1) % M) + 1) % M = (n - 1 + 1) % M
  BY <1>1, Shift, Zenon
<1>3. (n - 1) % M \in 0..(M - 1)
  BY <1>1, Division, Zenon
<1> HIDE DEF M
<1>4. ASSUME NEW r \in 0..(M - 1) PROVE (IF (r + 1 + 1) % (M + 1) = 0 THEN 1 ELSE r + 1 + 1) = ((r + 1) % M) + 1
  <2>1. CASE r = M - 1
    BY <1>1, <2>1
  <2>2. CASE r < M - 1
    BY <1>1, <2>2
  <2> QED BY <1>1, <2>1, <2>2
<1>5. n - 1 + 1 = n + 1 - 1
  OBVIOUS
<1> QED BY <1>1, <1>2, <1>3, <1>4, <1>5 DEF NextCommandId, IdOf, M

(* Commands less than a round of identifiers apart have different ones.    *)
LEMMA IdDistinct ==
  ASSUME NEW a \in Nat \ {0}, NEW b \in Nat \ {0}, a <= b, b - a < IdSpace - 1, IdOf(a) = IdOf(b)
  PROVE  a = b
<1> DEFINE M == IdSpace - 1
<1>1. M \in Nat \ {0} /\ a - 1 \in Nat /\ b - 1 \in Nat
  BY NvmeAssumption
<1>2. (a - 1) % M \in Nat /\ (b - 1) % M \in Nat
  BY <1>1, Division, Zenon
<1>3. (a - 1) % M = (b - 1) % M
  BY <1>2 DEF IdOf
<1>4. a < b => a - 1 < b - 1 /\ (b - 1) - (a - 1) <= M /\ (b - 1) - (a - 1) # M
  BY <1>1
<1> HIDE DEF M
<1>5. ~(a < b)
  BY <1>1, <1>3, <1>4, Period, Zenon
<1> QED BY <1>5
-----------------------------------------------------------------------------
(* The number of entries written.                                            *)
LEMMA WrittenTypes ==
  ASSUME NvmeTypeOK, DeviceInv
  PROVE  /\ issued \in Nat /\ Written \in Nat
         /\ device.pending = 0 => Written = issued
         /\ device.pending # 0 => issued > 0 /\ Written = issued - 1
BY NvmeAssumption DEF NvmeTypeOK, DeviceInv, Written

(* The newest entries are where the device wrote them.                       *)
LEMMA EntryAt ==
  ASSUME NvmeTypeOK, DeviceInv, SlotsInv, NEW n \in 1..Written, n > Written - QueueDepth
  PROVE  HoldsEntry(PlaceHead(n - 1), n)
<1>1. Written \in Nat /\ n \in Nat /\ n - 1 \in Nat /\ n - 1 < Written /\ QueueDepth \in Nat
  BY WrittenTypes, NvmeAssumption
<1> DEFINE s == PlaceHead(n - 1)
<1>2. s \in QueueSlot /\ s <= n - 1
  BY <1>1, PlaceTypes, Zenon
<1>3. s \in Nat
  BY <1>2, NvmeAssumption DEF QueueSlot
<1> HIDE DEF s
<1>4. ~(s >= Written)
  BY <1>1, <1>2, <1>3
<1>5. PICK k \in 1..Written : HoldsEntry(s, k)
  BY <1>2, <1>4, Zenon DEF SlotsInv
<1>6. k > Written - QueueDepth /\ PlaceHead(k - 1) = s
  BY <1>5, Zenon DEF HoldsEntry
<1>7. k - 1 \in Nat /\ k \in Nat
  BY <1>1
<1>8. PlaceHead(k - 1) = PlaceHead(n - 1)
  BY <1>6, Zenon DEF s
<1>9. ~(k < n)
  <2> SUFFICES ASSUME k < n PROVE FALSE
    BY Zenon
  <2>1. k - 1 < n - 1 /\ (n - 1) - (k - 1) <= QueueDepth /\ (n - 1) - (k - 1) # QueueDepth
    BY <1>1, <1>6, <1>7
  <2> QED BY <1>1, <1>7, <1>8, <2>1, SameSlot, Zenon
<1>10. ~(n < k)
  <2> SUFFICES ASSUME n < k PROVE FALSE
    BY Zenon
  <2>1. n - 1 < k - 1 /\ (k - 1) - (n - 1) <= QueueDepth /\ (k - 1) - (n - 1) # QueueDepth
    BY <1>1, <1>6, <1>7
  <2> QED BY <1>1, <1>7, <1>8, <2>1, SameSlot, Zenon
<1>11. k = n
  BY <1>1, <1>7, <1>9, <1>10
<1> QED BY <1>5, <1>11, Zenon DEF s

(* The slot the device writes next holds no entry of this round.             *)
LEMMA EntryNext ==
  ASSUME NvmeTypeOK, DeviceInv, SlotsInv
  PROVE  (cq[PlaceHead(Written)].phase = PlacePhase(Written)) = FALSE
<1>1. Written \in Nat /\ QueueDepth \in Nat
  BY WrittenTypes, NvmeAssumption, Zenon
<1> DEFINE s == PlaceHead(Written)
<1>2. s \in QueueSlot /\ s <= Written /\ (Written < QueueDepth => s = Written /\ PlacePhase(Written))
  BY <1>1, PlaceTypes, Zenon
<1>3. s \in 0..(QueueDepth - 1)
  BY <1>2, NvmeAssumption, Zenon DEF QueueSlot
<1>4. CASE s >= Written /\ ~cq[s].phase
  <2>1. Written < QueueDepth
    BY <1>1, <1>3, <1>4
  <2>2. PlacePhase(Written)
    BY <1>2, <2>1, Zenon
  <2> QED BY <1>4, <2>2, Zenon
<1>5. ASSUME NEW n \in 1..Written, HoldsEntry(s, n) PROVE (cq[s].phase = PlacePhase(Written)) = FALSE
  <2>1. n - 1 \in Nat /\ n - 1 < Written
    BY <1>1
  <2>2. Written - (n - 1) <= QueueDepth /\ PlaceHead(n - 1) = s /\ cq[s].phase = PlacePhase(n - 1)
    BY <1>1, <1>5 DEF HoldsEntry
  <2>3. PlacePhase(Written) = ~PlacePhase(n - 1)
    BY <1>1, <2>1, <2>2, SameSlot, Zenon
  <2> QED BY <2>2, <2>3, Zenon DEF PlacePhase
<1> QED BY <1>2, <1>4, <1>5, Zenon DEF SlotsInv

(* The receiver drains what it is behind.                                    *)
LEMMA NewEntries ==
  ASSUME NvmeTypeOK, DeviceInv, SlotsInv, NEW lag \in 0..2, Behind(lag), NEW i \in 0..lag
  PROVE  /\ AdvanceHead(path.head, i) = PlaceHead(Written - lag + i)
         /\ AdvancePhase(path.head, path.phase, i) = PlacePhase(Written - lag + i)
         /\ i < lag => NewEntry(i) /\ HoldsEntry(AdvanceHead(path.head, i), Written - lag + i + 1)
         /\ i = lag => ~NewEntry(i)
<1>1. Written \in Nat /\ i \in Nat /\ Written - lag \in Nat /\ lag \in Nat
  BY WrittenTypes DEF Behind
<1> DEFINE p == Written - lag
<1>2. AdvanceHead(path.head, i) = PlaceHead(p + i) /\ AdvancePhase(path.head, path.phase, i) = PlacePhase(p + i)
  BY <1>1, PlaceAdvance, Zenon DEF Behind, StandsAt
<1>3. ASSUME i < lag PROVE NewEntry(i) /\ HoldsEntry(PlaceHead(p + i), p + i + 1)
  <2> DEFINE n == p + i + 1
  <2>1. n \in 1..Written /\ n > Written - QueueDepth /\ n - 1 = p + i
    BY <1>1, <1>3, NvmeAssumption
  <2> HIDE DEF n
  <2>2. HoldsEntry(PlaceHead(n - 1), n)
    BY <2>1, EntryAt, Zenon
  <2>3. HoldsEntry(PlaceHead(p + i), n)
    BY <2>1, <2>2, Zenon
  <2>4. cq[PlaceHead(p + i)].phase = PlacePhase(p + i)
    BY <2>1, <2>3, Zenon DEF HoldsEntry
  <2> QED BY <1>2, <2>3, <2>4, Zenon DEF NewEntry, n
<1>4. ASSUME i = lag PROVE ~NewEntry(i)
  <2>1. p + i = Written
    BY <1>1, <1>4
  <2> QED BY <1>2, <2>1, EntryNext, Zenon DEF NewEntry
<1> QED BY <1>2, <1>3, <1>4, Zenon

(* The receiver drains exactly the entries it is behind.                   *)
LEMMA DrainLag ==
  ASSUME NvmeTypeOK, DeviceInv, SlotsInv, NEW lag \in 0..2, Behind(lag)
  PROVE  DrainCount = lag
<1>1. lag \in 0..QueueDepth
  BY NvmeAssumption
<1>2. \A i \in 0..(lag - 1) : NewEntry(i)
  <2> TAKE i \in 0..(lag - 1)
  <2>1. i \in 0..lag /\ i < lag
    OBVIOUS
  <2> QED BY <2>1, NewEntries, Zenon
<1>3. ~NewEntry(lag)
  <2>1. lag \in 0..lag
    OBVIOUS
  <2> QED BY <2>1, NewEntries, Zenon
<1> DEFINE Is(n) == (\A i \in 0..(n - 1) : NewEntry(i)) /\ (n < QueueDepth => ~NewEntry(n))
<1>4. Is(lag)
  BY <1>2, <1>3, Zenon
<1>5. ASSUME NEW n \in 0..QueueDepth, Is(n) PROVE n = lag
  <2>1. ~(n < lag)
    <3> SUFFICES ASSUME n < lag PROVE FALSE
      BY Zenon
    <3>1. n < QueueDepth /\ n \in 0..(lag - 1)
      BY <1>1, NvmeAssumption
    <3> QED BY <1>2, <1>5, <3>1, Zenon
  <2>2. ~(lag < n)
    <3> SUFFICES ASSUME lag < n PROVE FALSE
      BY Zenon
    <3>1. lag \in 0..(n - 1)
      BY NvmeAssumption
    <3> QED BY <1>3, <1>5, <3>1, Zenon
  <2> QED BY <2>1, <2>2, NvmeAssumption
<1> HIDE DEF Is
<1>6. (CHOOSE n \in 0..QueueDepth : Is(n)) = lag
  BY <1>1, <1>4, <1>5, Zenon
<1> QED BY <1>6, Zenon DEF DrainCount, Is

(* The event of a drain names the newest entry and tells its outcome.      *)
LEMMA DrainedLag ==
  ASSUME NvmeTypeOK, DeviceInv, SlotsInv, NEW lag \in 0..2, Behind(lag)
  PROVE  /\ Drained(lag) \in CompletionInterrupt /\ Drained(lag).count = lag
         /\ lag > 0 => Written > 0 /\ Drained(lag).last = IdOf(Written) /\ (Drained(lag).failed \/ ~(completed < Written))
<1>1. Written \in Nat /\ (lag > 0 => Written > 0 /\ lag - 1 \in 0..lag /\ lag - 1 < lag /\ lag - 1 \in 0..(lag - 1)
                                  /\ Written - lag + (lag - 1) + 1 = Written)
  BY WrittenTypes DEF Behind
<1>2. lag > 0 => HoldsEntry(AdvanceHead(path.head, lag - 1), Written)
  <2> SUFFICES ASSUME lag > 0 PROVE HoldsEntry(AdvanceHead(path.head, lag - 1), Written)
    BY Zenon
  <2> DEFINE i == lag - 1
  <2>1. i \in 0..lag /\ i < lag
    BY <1>1, Zenon
  <2>2. HoldsEntry(AdvanceHead(path.head, i), Written - lag + i + 1)
    BY <2>1, NewEntries, Zenon
  <2> QED BY <1>1, <2>2, Zenon
<1>3. lag > 0 => cq[AdvanceHead(path.head, lag - 1)].command = IdOf(Written)
              /\ (cq[AdvanceHead(path.head, lag - 1)].failed <=> completed < Written)
  BY <1>2, Zenon DEF HoldsEntry
<1>4. Drained(lag).count = lag /\ (lag > 0 => Drained(lag).last = cq[AdvanceHead(path.head, lag - 1)].command)
      /\ Drained(lag).failed = (\E i \in 0..(lag - 1) : cq[AdvanceHead(path.head, i)].failed)
  BY DEF Drained
<1>5. lag \in 0..QueueDepth
  BY NvmeAssumption
<1>6. lag > 0 => IdOf(Written) \in CommandId
  BY <1>1, IdTypes
<1>7. (IF lag = 0 THEN 0 ELSE cq[AdvanceHead(path.head, lag - 1)].command) \in CommandId
  BY <1>3, <1>6, NvmeAssumption DEF CommandId
<1>8. Drained(lag) \in CompletionInterrupt
  BY <1>5, <1>7, Zenon DEF Drained, CompletionInterrupt
<1> QED BY <1>1, <1>3, <1>4, <1>8, Zenon
-----------------------------------------------------------------------------
(* The bounds on what is under way.                                          *)
LEMMA Rooms == Room \in {2, 3} /\ Room' \in {2, 3} /\ ((Fresh => Fresh') => Room <= Room')
<1>1. Room \in {2, 3} /\ Room' \in {2, 3}
  BY Zenon DEF Room
<1>2. CASE ~Fresh
  <2>1. Room = 2
    BY <1>2, Zenon DEF Room
  <2> QED BY <1>1, <2>1
<1>3. CASE Fresh'
  <2>1. Room' = 3
    BY <1>3, Zenon DEF Room
  <2> QED BY <1>1, <2>1
<1> QED BY <1>1, <1>2, <1>3, Zenon

(* What may still become an event, counted.                                *)
LEMMA Messaging == Messages \in 0..3 /\ ((device.pending # 0 => ~(vector /\ msi)) => Messages <= 2)
<1>1. One(vector) \in {0, 1} /\ One(msi) \in {0, 1} /\ One(device.pending # 0) \in {0, 1}
  BY Zenon DEF One
<1>2. ~vector \/ ~msi \/ device.pending = 0 => One(vector) = 0 \/ One(msi) = 0 \/ One(device.pending # 0) = 0
  BY Zenon DEF One
<1> QED BY <1>1, <1>2 DEF Messages

(* The invariant holds before the first command.                             *)
LEMMA InitNvme == NvmeInit => NvmeInv
<1> SUFFICES ASSUME NvmeInit PROVE NvmeInv
  BY Zenon
<1>1. PlaceHead(0) = 0 /\ PlacePhase(0) = TRUE /\ IdOf(1) = 1
  BY NvmeAssumption DEF PlaceHead, PlacePhase, IdOf
<1>2. Written = 0 /\ issued = 0 /\ completed = 0 /\ device.pending = 0 /\ events = <<>>
  BY Zenon DEF NvmeInit, Written
<1>3. NvmeTypeOK
  <2>1. 0 \in QueueSlot /\ 0 \in CommandId /\ 1 \in CommandId /\ 0 \in 0..MaxWaits /\ 0 \in 0..MaxCommands
    BY NvmeAssumption DEF QueueSlot, CommandId
  <2>2. cq \in [QueueSlot -> Entry]
    BY <2>1, Zenon DEF NvmeInit, Entry
  <2>3. completed \in 0..issued
    BY <1>2
  <2>4. device \in [tail : QueueSlot, phase : BOOLEAN, doorbell : QueueSlot, pending : CommandId]
    BY <2>1, Zenon DEF NvmeInit
  <2>5. storage \in [head : QueueSlot, phase : BOOLEAN, nextId : CommandId] /\ path \in [head : QueueSlot, phase : BOOLEAN]
    BY <2>1, Zenon DEF NvmeInit
  <2>6. cpu \in [pc : WaitLabel, sti : BOOLEAN, command : CommandId, wait : 0 .. MaxWaits]
    BY <2>1, Zenon DEF NvmeInit, WaitLabel
  <2>7. events \in Seq(CompletionInterrupt)
    BY <1>2
  <2> QED BY <2>1, <2>2, <2>3, <2>4, <2>5, <2>6, <2>7, Zenon DEF NvmeInit, NvmeTypeOK
<1>4. DeviceInv
  <2>1. device.tail = 0 /\ device.phase = TRUE /\ storage.nextId = 1 /\ cpu.pc = "idle"
    BY Zenon DEF NvmeInit
  <2>2. issued + 1 = 1 /\ ~(issued > 0)
    BY <1>2
  <2> QED BY <1>1, <1>2, <2>1, <2>2, Zenon DEF DeviceInv
<1>5. SlotsInv
  <2> SUFFICES ASSUME NEW s \in QueueSlot PROVE s >= Written /\ cq[s].command = 0 /\ ~cq[s].phase
    BY Zenon DEF SlotsInv
  <2>1. s >= Written
    BY <1>2, NvmeAssumption DEF QueueSlot
  <2> QED BY <2>1, Zenon DEF NvmeInit
<1>6. ReceiverInv
  <2>1. Behind(0)
    <3>1. path.head = 0 /\ path.phase = TRUE
      BY Zenon DEF NvmeInit
    <3>2. 0 <= Written /\ Written - 0 = 0 /\ ~(0 > 0) /\ 0 # 1 /\ 0 # 2
      BY <1>2
    <3> QED BY <1>1, <3>1, <3>2, Zenon DEF Behind, StandsAt
  <2> QED BY <2>1 DEF ReceiverInv
<1>7. BacklogInv /\ EventInv
  <2>1. ~vector /\ ~msi /\ Len(events) = 0
    BY <1>2, Zenon DEF NvmeInit
  <2>2. Messages = 0
    BY <1>2, <2>1 DEF Messages, One
  <2>3. Len(events) + Messages <= Room
    BY <2>1, <2>2, Rooms
  <2>4. 1..Len(events) = {}
    BY <2>1
  <2> QED BY <2>1, <2>3, <2>4, Zenon DEF BacklogInv, EventInv
<1>8. CommandInv
  BY <1>1, <1>2, Zenon DEF NvmeInit, CommandInv, StandsAt
<1> QED BY <1>3, <1>4, <1>5, <1>6, <1>7, <1>8, Zenon DEF NvmeInv

(* The age of an event when room is made.                                    *)
LEMMA Ages ==
  ASSUME NEW a \in Int, NEW m \in Int, NEW i \in Int, NEW x \in Int, NEW y \in Int
  PROVE  /\ x <= y /\ (a - m) + i <= x + 1 => (a - m) + i <= y + 1
         /\ x <= 3 /\ y >= 2 /\ (a - m) + (i + 1) <= x + 1 => (a - m) + i <= y + 1
OBVIOUS

(* Steps that leave the queue, the receiver or the events alone.             *)
LEMMA QueueFrame ==
  ASSUME SlotsInv, cq' = cq, Written' = Written, completed' = completed
  PROVE  SlotsInv'
BY Zenon DEF SlotsInv, HoldsEntry

(* Steps that leave the receiver alone, the message possibly moving on.    *)
LEMMA ReceiverFrame ==
  ASSUME ReceiverInv, path' = path, Written' = Written, device'.pending = device.pending, delayed' = delayed,
         vector => vector', msi => vector' \/ msi'
  PROVE  ReceiverInv'
<1>1. PICK lag \in 0..2 : Behind(lag)
  BY Zenon DEF ReceiverInv
<1>2. Behind(lag)'
  BY <1>1, Zenon DEF Behind, StandsAt
<1> QED BY <1>2, Zenon DEF ReceiverInv

(* Steps that leave the events alone.                                      *)
LEMMA EventFrame ==
  ASSUME EventInv, events' = events, delayed' = delayed, issued' = issued, Written' = Written,
         completed' = completed, device.doorbell = device.tail => device'.doorbell = device'.tail,
         Fresh => Fresh', NvmeTypeOK, DeviceInv
  PROVE  EventInv'
<1>0. issued \in Int /\ Written \in Int /\ Len(events) \in Int
  <2>1. events \in Seq(CompletionInterrupt)
    BY Zenon DEF NvmeTypeOK
  <2> QED BY <2>1, WrittenTypes
<1> SUFFICES ASSUME NEW i \in 1..Len(events), events[i].count > 0
             PROVE  (~delayed => events[i].count = 1) /\ \E m \in 1..Written : EventOf(i, m)'
  BY Zenon DEF EventInv
<1>1. PICK m \in 1..Written : EventOf(i, m)
  BY Zenon DEF EventInv
<1>2. EventOf(i, m)'
  <2>1. (issued - m) + i <= Room + 1
    BY <1>1, Zenon DEF EventOf
  <2>2. Room \in Int /\ Room' \in Int /\ Room <= Room'
    BY Rooms
  <2>3. (issued - m) + i <= Room' + 1
    <3>1. issued \in Int /\ m \in Int /\ i \in Int
      BY <1>0
    <3> QED BY <3>1, <2>1, <2>2, Ages, Zenon
  <2> QED BY <1>1, <2>3, Zenon DEF EventOf
<1> QED BY <1>2, Zenon DEF EventInv

(* Steps that leave the device's progress alone.                           *)
LEMMA WrittenFrame ==
  ASSUME device'.pending = device.pending, issued' = issued PROVE Written' = Written
BY Zenon DEF Written

(* The first event is taken: every other one moves up.                       *)
LEMMA EventTaken ==
  ASSUME NvmeTypeOK, DeviceInv, EventInv, BacklogInv, events # <<>>, events' = Tail(events),
         delayed' = delayed, issued' = issued, device'.pending = device.pending, completed' = completed,
         vector' = vector, msi' = msi, device.doorbell = device.tail => device'.doorbell = device'.tail
  PROVE  EventInv' /\ BacklogInv' /\ events' \in Seq(CompletionInterrupt)
<1>1. events \in Seq(CompletionInterrupt) /\ issued \in Nat /\ Written \in Nat
  BY WrittenTypes, Zenon DEF NvmeTypeOK
<1>2. Len(events') = Len(events) - 1 /\ events' \in Seq(CompletionInterrupt) /\ Len(events) \in Nat
      /\ \A i \in 1..Len(events') : events'[i] = events[i + 1] /\ i + 1 \in 1..Len(events)
  BY <1>1
<1>3. Written' = Written
  BY WrittenFrame, Zenon
<1>4. EventInv'
  <2> SUFFICES ASSUME NEW i \in 1..Len(events'), events'[i].count > 0
               PROVE  (~delayed => events'[i].count = 1) /\ \E m \in 1..Written : EventOf(i, m)'
    BY <1>3, Zenon DEF EventInv
  <2>1. events'[i] = events[i + 1] /\ i + 1 \in 1..Len(events)
    BY <1>2, Zenon
  <2>2. (~delayed => events[i + 1].count = 1) /\ \E m \in 1..Written : EventOf(i + 1, m)
    BY <2>1, Zenon DEF EventInv
  <2>3. PICK m \in 1..Written : EventOf(i + 1, m)
    BY <2>2, Zenon
  <2>4. (issued - m) + (i + 1) <= Room + 1
    BY <2>3, Zenon DEF EventOf
  <2>5. Room <= 3 /\ Room' >= 2 /\ Room \in Int /\ Room' \in Int
    BY Rooms
  <2>6. (issued - m) + i <= Room' + 1
    <3>1. issued \in Int /\ m \in Int /\ i \in Int
      BY <1>1, <1>2
    <3> QED BY <3>1, <2>4, <2>5, Ages, Zenon
  <2>7. EventOf(i, m)'
    BY <2>1, <2>3, <2>6, Zenon DEF EventOf
  <2> QED BY <2>1, <2>2, <2>7, Zenon
<1>5. Len(events') + Messages <= Room'
  <2>1. Len(events) + Messages <= Room
    BY Zenon DEF BacklogInv
  <2> QED BY <1>2, <2>1, Rooms, Messaging
<1>6. Messages' = Messages
  BY Zenon DEF Messages
<1>7. BacklogInv'
  BY <1>5, <1>6, Zenon DEF BacklogInv
<1> QED BY <1>2, <1>4, <1>7, Zenon

(* Steps that leave events and messages alone.                             *)
LEMMA BacklogFrame ==
  ASSUME BacklogInv, events' = events, delayed' = delayed, vector' = vector, msi' = msi,
         device'.pending = device.pending, Fresh => Fresh', NvmeTypeOK
  PROVE  BacklogInv'
<1>1. Len(events) \in Int
  <2>1. events \in Seq(CompletionInterrupt)
    BY Zenon DEF NvmeTypeOK
  <2> QED BY <2>1
<1>2. Messages' = Messages
  BY Zenon DEF Messages
<1>3. Len(events) + Messages <= Room
  BY Zenon DEF BacklogInv
<1>4. Messages \in Int /\ Room \in Int /\ Room' \in Int /\ Room <= Room'
  BY Rooms, Messaging
<1>5. Len(events) + Messages <= Room'
  BY <1>1, <1>3, <1>4
<1> QED BY <1>2, <1>5, Zenon DEF BacklogInv

(* A step of a wait that does not end it.                                    *)
LEMMA Waits ==
  ASSUME NvmeInv, UNCHANGED <<delayed, device, cq, msi, vector, storage, path, issued, completed>>,
         cpu.pc # "idle", cpu'.pc # "idle", cpu'.command = cpu.command,
         cpu' \in [pc : WaitLabel, sti : BOOLEAN, command : CommandId, wait : 0 .. MaxWaits],
         events' \in Seq(CompletionInterrupt), BacklogInv', EventInv'
  PROVE  NvmeInv'
<1>1. Written' = Written
  BY WrittenFrame, Zenon
<1>2. NvmeTypeOK'
  BY Zenon DEF NvmeInv, NvmeTypeOK
<1>3. DeviceInv'
  BY <1>1, Zenon DEF NvmeInv, DeviceInv
<1>4. SlotsInv' /\ ReceiverInv'
  BY <1>1, QueueFrame, ReceiverFrame, Zenon DEF NvmeInv
<1>5. CommandInv'
  BY <1>1, Zenon DEF NvmeInv, CommandInv, StandsAt
<1> QED BY <1>2, <1>3, <1>4, <1>5, Zenon DEF NvmeInv

(* Steps that only move the waiting vCPU on.                               *)
LEMMA Moves ==
  ASSUME NvmeInv, UNCHANGED <<delayed, device, cq, msi, vector, storage, path, events, issued, completed>>,
         cpu.pc # "idle", cpu'.pc # "idle", cpu'.command = cpu.command,
         cpu' \in [pc : WaitLabel, sti : BOOLEAN, command : CommandId, wait : 0 .. MaxWaits], Fresh => Fresh'
  PROVE  NvmeInv'
<1>1. Written' = Written
  BY WrittenFrame, Zenon
<1>2. BacklogInv' /\ events' \in Seq(CompletionInterrupt)
  BY BacklogFrame, Zenon DEF NvmeInv, NvmeTypeOK
<1>3. EventInv'
  BY <1>1, EventFrame, Zenon DEF NvmeInv
<1> QED BY <1>2, <1>3, Waits, Zenon

(* A step that ends a wait.                                                  *)
LEMMA Returns ==
  ASSUME NvmeInv, UNCHANGED <<delayed, cq, msi, vector, path, issued, completed>>, cpu' = Returned,
         device' \in [tail : QueueSlot, phase : BOOLEAN, doorbell : QueueSlot, pending : CommandId],
         device'.tail = device.tail, device'.phase = device.phase, device'.pending = device.pending,
         device'.doorbell = device.tail, completed = issued, cpu.pc # "idle",
         storage' \in [head : QueueSlot, phase : BOOLEAN, nextId : CommandId],
         storage'.nextId = storage.nextId, ~delayed => StandsAt(storage', issued),
         events' \in Seq(CompletionInterrupt), BacklogInv', EventInv'
  PROVE  NvmeInv'
<1>1. Written' = Written
  BY WrittenFrame, Zenon
<1>2. cpu' \in [pc : WaitLabel, sti : BOOLEAN, command : CommandId, wait : 0 .. MaxWaits]
      /\ cpu'.pc = "idle" /\ cpu'.sti = TRUE /\ cpu'.command = cpu.command
  BY Zenon DEF NvmeInv, NvmeTypeOK, Returned, WaitLabel
<1>3. NvmeTypeOK'
  BY <1>2, Zenon DEF NvmeInv, NvmeTypeOK
<1>4. DeviceInv'
  BY <1>1, <1>2, Zenon DEF NvmeInv, DeviceInv
<1>5. SlotsInv' /\ ReceiverInv'
  BY <1>1, QueueFrame, ReceiverFrame, Zenon DEF NvmeInv
<1>6. CommandInv'
  BY <1>1, <1>2, Zenon DEF NvmeInv, CommandInv, StandsAt
<1> QED BY <1>3, <1>4, <1>5, <1>6, Zenon DEF NvmeInv

(* The steps of a wait that only move the vCPU.                              *)
LEMMA BeginWaitStep == ASSUME NvmeInv, BeginWait PROVE NvmeInv'
<1>1. cpu' \in [pc : WaitLabel, sti : BOOLEAN, command : CommandId, wait : 0 .. MaxWaits]
      /\ cpu'.pc = "first_try" /\ cpu'.wait = 0 /\ cpu'.command = cpu.command
  <2>1. cpu \in [pc : WaitLabel, sti : BOOLEAN, command : CommandId, wait : 0 .. MaxWaits]
        /\ cpu' = [cpu EXCEPT !.pc = "first_try", !.sti = FALSE, !.wait = 0]
    BY Zenon DEF NvmeInv, NvmeTypeOK, BeginWait
  <2>2. 0 \in 0 .. MaxWaits /\ "first_try" \in WaitLabel
    BY NvmeAssumption DEF WaitLabel
  <2> HIDE DEF WaitLabel
  <2> QED BY <2>1, <2>2, Zenon
<1>2. Fresh' /\ cpu.pc # "idle"
  BY <1>1, Zenon DEF Fresh, BeginWait, Runs
<1> QED BY <1>1, <1>2, Moves, Zenon DEF BeginWait

(* A wakeup for another reason.                                            *)
LEMMA OtherWakeupStep == ASSUME NvmeInv, OtherWakeup PROVE NvmeInv'
<1>1. cpu' \in [pc : WaitLabel, sti : BOOLEAN, command : CommandId, wait : 0 .. MaxWaits]
      /\ cpu'.pc = "woken" /\ cpu'.command = cpu.command
  BY NvmeAssumption, Zenon DEF NvmeInv, NvmeTypeOK, OtherWakeup, WaitLabel
<1>2. ~Fresh /\ cpu.pc # "idle"
  BY Zenon DEF Fresh, OtherWakeup, Runs
<1> QED BY <1>1, <1>2, Moves, Zenon DEF OtherWakeup

(* Interrupts are disabled again after the hlt.                            *)
LEMMA CloseWindowStep == ASSUME NvmeInv, CloseWindow PROVE NvmeInv'
<1>1. cpu' \in [pc : WaitLabel, sti : BOOLEAN, command : CommandId, wait : 0 .. MaxWaits]
      /\ cpu'.pc = "second_try" /\ cpu'.command = cpu.command
  BY NvmeAssumption, Zenon DEF NvmeInv, NvmeTypeOK, CloseWindow, WaitLabel
<1>2. ~Fresh /\ cpu.pc # "idle"
  BY Zenon DEF Fresh, CloseWindow, Runs
<1> QED BY <1>1, <1>2, Moves, Zenon DEF CloseWindow

-----------------------------------------------------------------------------
(* io_head after n more entries.                                             *)
LEMMA SynchronizedTypes ==
  ASSUME NvmeTypeOK, NEW n \in Nat
  PROVE  /\ Synchronized(n) \in [head : QueueSlot, phase : BOOLEAN, nextId : CommandId]
         /\ Synchronized(n).nextId = storage.nextId
         /\ Synchronized(n).head = AdvanceHead(storage.head, n)
         /\ Synchronized(n).phase = AdvancePhase(storage.head, storage.phase, n)
<1>1. storage \in [head : QueueSlot, phase : BOOLEAN, nextId : CommandId]
  BY Zenon DEF NvmeTypeOK
<1> DEFINE h == AdvanceHead(storage.head, n)  f == AdvancePhase(storage.head, storage.phase, n)
<1>2. h \in QueueSlot
  <2>1. storage.head + n \in Nat /\ QueueDepth \in Nat \ {0}
    BY <1>1, NvmeAssumption DEF QueueSlot
  <2> QED BY <2>1, Division, Zenon DEF AdvanceHead, QueueSlot
<1>3. f \in BOOLEAN
  BY <1>1, Zenon DEF AdvancePhase
<1> HIDE DEF h, f
<1>4. ASSUME NEW r, r = [storage EXCEPT !.head = h, !.phase = f]
      PROVE  r \in [head : QueueSlot, phase : BOOLEAN, nextId : CommandId] /\ r.nextId = storage.nextId
             /\ r.head = h /\ r.phase = f
  BY <1>1, <1>2, <1>3, <1>4, Zenon
<1> QED BY <1>4, Zenon DEF Synchronized, h, f

(* The storage object moves on by one entry.                               *)
LEMMA SynchronizedPlace ==
  ASSUME NvmeTypeOK, NEW n \in Nat, StandsAt(storage, n)
  PROVE  StandsAt(Synchronized(1), n + 1)
<1>1. 1 \in Nat
  BY Zenon
<1>2. /\ Synchronized(1).head = AdvanceHead(storage.head, 1)
      /\ Synchronized(1).phase = AdvancePhase(storage.head, storage.phase, 1)
  BY <1>1, SynchronizedTypes, Zenon
<1>3. storage.head = PlaceHead(n) /\ storage.phase = PlacePhase(n)
  BY Zenon DEF StandsAt
<1>4. /\ AdvanceHead(PlaceHead(n), 1) = PlaceHead(n + 1)
      /\ AdvancePhase(PlaceHead(n), PlacePhase(n), 1) = PlacePhase(n + 1)
  BY <1>1, PlaceAdvance, Zenon
<1>5. StandsAt(Synchronized(1), n + 1) <=>
        Synchronized(1).head = PlaceHead(n + 1) /\ Synchronized(1).phase = PlacePhase(n + 1)
  BY Zenon DEF StandsAt
<1> QED BY <1>2, <1>3, <1>4, <1>5, Zenon

(* An event of the command waited for is that of the last command.           *)
LEMMA NewestEvent ==
  ASSUME NEW m \in Nat \ {0}, NEW i \in Nat \ {0}, m <= issued, issued \in Nat, (issued - m) + i <= Room + 1,
         IdOf(m) = IdOf(issued)
  PROVE  m = issued
<1>1. issued - m < IdSpace - 1 /\ issued \in Nat \ {0}
  BY NvmeAssumption, Rooms
<1> QED BY <1>1, IdDistinct, Zenon

(* What the vCPU does when try_next did not bring its event.                 *)
LEMMA NotYetTypes ==
  ASSUME NvmeTypeOK, cpu.pc \in {"first_try", "second_try"}
  PROVE  /\ NotYet \in [pc : WaitLabel, sti : BOOLEAN, command : CommandId, wait : 0 .. MaxWaits]
         /\ NotYet.pc # "idle" /\ NotYet.command = cpu.command
         /\ Panicked \in [pc : WaitLabel, sti : BOOLEAN, command : CommandId, wait : 0 .. MaxWaits]
         /\ Panicked.pc # "idle" /\ Panicked.command = cpu.command
<1>1. cpu \in [pc : WaitLabel, sti : BOOLEAN, command : CommandId, wait : 0 .. MaxWaits]
  BY Zenon DEF NvmeTypeOK
<1>2. "armed" \in WaitLabel /\ "first_try" \in WaitLabel /\ "panic" \in WaitLabel
  BY Zenon DEF WaitLabel
<1>3. cpu.wait + 1 < MaxWaits => cpu.wait + 1 \in 0 .. MaxWaits
  BY <1>1, NvmeAssumption
<1> HIDE DEF WaitLabel
<1>4. ASSUME NEW r, r = [cpu EXCEPT !.pc = "panic", !.sti = TRUE]
      PROVE  r \in [pc : WaitLabel, sti : BOOLEAN, command : CommandId, wait : 0 .. MaxWaits]
             /\ r.pc # "idle" /\ r.command = cpu.command
  BY <1>1, <1>2, <1>4, Zenon
<1>5. ASSUME NEW r, r = [cpu EXCEPT !.pc = "armed"]
      PROVE  r \in [pc : WaitLabel, sti : BOOLEAN, command : CommandId, wait : 0 .. MaxWaits]
             /\ r.pc # "idle" /\ r.command = cpu.command
  BY <1>1, <1>2, <1>5, Zenon
<1>6. ASSUME NEW r, NEW w \in 0 .. MaxWaits, r = [cpu EXCEPT !.pc = "first_try", !.wait = w]
      PROVE  r \in [pc : WaitLabel, sti : BOOLEAN, command : CommandId, wait : 0 .. MaxWaits]
             /\ r.pc # "idle" /\ r.command = cpu.command
  BY <1>1, <1>2, <1>6, Zenon
<1> QED BY <1>3, <1>4, <1>5, <1>6, Zenon DEF NotYet, Panicked

(* The waiter takes an event of the topic, or finds none.                  *)
LEMMA TryNextStep == ASSUME NvmeInv, TryNext PROVE NvmeInv'
<1>0. NvmeTypeOK /\ DeviceInv /\ BacklogInv /\ EventInv /\ CommandInv
  BY Zenon DEF NvmeInv
<1>1. cpu.pc \in {"first_try", "second_try"} /\ cpu.pc # "idle"
  BY Zenon DEF TryNext, Runs
<1>2. UNCHANGED <<delayed, device, cq, msi, vector, path, issued, completed>>
  BY Zenon DEF TryNext
<1>3. CASE events = <<>>
  <2>1. cpu' = NotYet /\ storage' = storage /\ events' = <<>>
    BY <1>3, Zenon DEF TryNext
  <2>2. events' \in Seq(CompletionInterrupt) /\ 1..Len(events') = {} /\ Len(events') = 0
    BY <2>1
  <2>3. Messages' = Messages
    BY <1>2, Zenon DEF Messages
  <2>4. Messages <= 2 /\ Messages \in Int
    <3>1. device.pending # 0 => ~(vector /\ msi)
      BY <1>0, Zenon DEF BacklogInv
    <3> QED BY <3>1, Messaging
  <2>5. Len(events') + Messages <= Room'
    BY <2>2, <2>4, Rooms
  <2>6. BacklogInv' /\ EventInv'
    BY <1>0, <1>2, <2>2, <2>3, <2>5, Zenon DEF BacklogInv, EventInv
  <2> QED BY <1>0, <1>1, <1>2, <2>1, <2>2, <2>6, NotYetTypes, Waits, Zenon
<1>4. CASE events # <<>>
  <2>1. events' = Tail(events)
    BY <1>4, Zenon DEF TryNext
  <2>2. EventInv' /\ BacklogInv' /\ events' \in Seq(CompletionInterrupt)
    BY <1>0, <1>2, <1>4, <2>1, EventTaken, Zenon
  <2>3. CASE cpu' \in {NotYet, Panicked} /\ storage' = storage
    BY <1>0, <1>1, <1>2, <2>2, <2>3, NotYetTypes, Waits, Zenon
  <2>4. CASE /\ ~Head(events).failed /\ Head(events).count > 0 /\ Head(events).last = cpu.command
             /\ cpu' = Returned /\ storage' = Synchronized(Head(events).count)
    <3>1. Head(events) = events[1] /\ 1 \in 1..Len(events)
      BY <1>0, <1>4 DEF NvmeTypeOK
    <3>2. (~delayed => events[1].count = 1) /\ \E m \in 1..Written : EventOf(1, m)
      BY <1>0, <2>4, <3>1, Zenon DEF EventInv
    <3>3. PICK m \in 1..Written : EventOf(1, m)
      BY <3>2, Zenon
    <3>4. issued \in Nat /\ Written \in Nat /\ Written <= issued /\ 1 \in Nat \ {0}
      BY <1>0, WrittenTypes
    <3>5. m \in Nat \ {0} /\ m <= issued /\ issued > 0
      BY <3>4
    <3>6. IdOf(m) = IdOf(issued)
      BY <1>0, <2>4, <3>1, <3>3, <3>5, Zenon DEF EventOf, DeviceInv
    <3>7. m = issued
      BY <3>3, <3>4, <3>5, <3>6, NewestEvent, Zenon DEF EventOf
    <3>8. device.doorbell = device.tail /\ completed = issued
      BY <2>4, <3>1, <3>3, <3>7, Zenon DEF EventOf
    <3>9. events[1].count \in Nat
      <4>1. events \in Seq(CompletionInterrupt)
        BY <1>0, Zenon DEF NvmeTypeOK
      <4>2. events[1] \in CompletionInterrupt
        BY <3>1, <4>1
      <4>3. events[1].count \in 0..QueueDepth
        BY <4>2, Zenon DEF CompletionInterrupt
      <4> QED BY <4>3, NvmeAssumption
    <3>10. storage' = Synchronized(events[1].count)
      BY <2>4, <3>1, Zenon
    <3>11. ~delayed => StandsAt(storage', issued)
      <4> SUFFICES ASSUME ~delayed PROVE StandsAt(storage', issued)
        BY Zenon
      <4>1. StandsAt(storage, issued - 1) /\ storage' = Synchronized(1)
        BY <1>0, <1>1, <3>2, <3>10, Zenon DEF CommandInv
      <4>2. issued - 1 \in Nat /\ issued - 1 + 1 = issued
        BY <3>4, <3>5
      <4>3. StandsAt(Synchronized(1), issued - 1 + 1)
        BY <1>0, <4>1, <4>2, SynchronizedPlace, Zenon
      <4> QED BY <4>1, <4>2, <4>3, Zenon
    <3>12. storage' \in [head : QueueSlot, phase : BOOLEAN, nextId : CommandId] /\ storage'.nextId = storage.nextId
      BY <1>0, <3>9, <3>10, SynchronizedTypes, Zenon
    <3>13. device' \in [tail : QueueSlot, phase : BOOLEAN, doorbell : QueueSlot, pending : CommandId]
      BY <1>0, <1>2, Zenon DEF NvmeTypeOK
    <3> QED BY <1>1, <1>2, <2>2, <2>4, <3>8, <3>11, <3>12, <3>13, Returns, Zenon
  <2> QED BY <1>4, <2>3, <2>4, Zenon DEF TryNext
<1> QED BY <1>3, <1>4, Zenon

(* The check after arming takes only the entry of the last command.          *)
LEMMA ResynchronizeStep == ASSUME NvmeInv, Resynchronize PROVE NvmeInv'
<1>0. NvmeTypeOK /\ DeviceInv /\ SlotsInv /\ BacklogInv /\ EventInv /\ CommandInv
  BY Zenon DEF NvmeInv
<1>1. cpu.pc = "armed" /\ cpu.pc # "idle" /\ ~Fresh
  BY Zenon DEF Resynchronize, Runs, Fresh
<1>2. UNCHANGED <<delayed, cq, msi, vector, path, events, issued, completed>>
  BY Zenon DEF Resynchronize
<1>3. CASE /\ cpu' = [cpu EXCEPT !.pc = "halted", !.sti = TRUE]
           /\ UNCHANGED <<storage, device>>
  <2>1. cpu \in [pc : WaitLabel, sti : BOOLEAN, command : CommandId, wait : 0 .. MaxWaits]
    BY <1>0, Zenon DEF NvmeTypeOK
  <2>2. cpu' = [cpu EXCEPT !.pc = "halted", !.sti = TRUE] /\ "halted" \in WaitLabel
    BY <1>3, Zenon DEF WaitLabel
  <2> HIDE DEF WaitLabel
  <2>3. cpu' \in [pc : WaitLabel, sti : BOOLEAN, command : CommandId, wait : 0 .. MaxWaits]
        /\ cpu'.pc # "idle" /\ cpu'.command = cpu.command
    BY <2>1, <2>2, Zenon
  <2> QED BY <1>1, <1>2, <1>3, <2>3, Moves, Zenon
<1>4. CASE /\ cq[storage.head].command = cpu.command /\ ~cq[storage.head].failed
           /\ storage' = Synchronized(1)
           /\ device' = [device EXCEPT !.doorbell = AdvanceHead(storage.head, 1)]
           /\ cpu' = Returned
  <2> DEFINE s == storage.head
  <2>1. s \in QueueSlot /\ 1 \in Nat
    BY <1>0, Zenon DEF NvmeTypeOK
  <2>2. issued \in Nat \ {0} /\ Written \in Nat /\ Written <= issued /\ issued <= Written + 1
    BY <1>0, <1>1, WrittenTypes DEF DeviceInv
  <2>3. cpu.command = IdOf(issued) /\ IdOf(issued) # 0
    BY <1>0, <2>2, IdTypes DEF DeviceInv
  <2>4. PICK n \in 1..Written : HoldsEntry(s, n)
    BY <1>0, <1>4, <2>1, <2>3, Zenon DEF SlotsInv
  <2>5. n > Written - QueueDepth /\ s = PlaceHead(n - 1) /\ IdOf(n) = IdOf(issued) /\ (cq[s].failed <=> completed < n)
    BY <1>4, <2>3, <2>4, Zenon DEF HoldsEntry
  <2>6. n \in Nat \ {0} /\ n <= issued /\ issued - n < IdSpace - 1 /\ n - 1 \in Nat
    BY <2>2, <2>5, NvmeAssumption
  <2>7. n = issued
    BY <2>2, <2>5, <2>6, IdDistinct, Zenon
  <2>8. completed = issued /\ Written = issued
    <3>1. ~(completed < issued)
      BY <1>4, <2>5, <2>7, Zenon
    <3>2. completed \in {issued, issued - 1}
      BY <1>0, Zenon DEF CommandInv
    <3> QED BY <2>2, <2>7, <3>1, <3>2
  <2>9. AdvanceHead(s, 1) = device.tail /\ AdvanceHead(s, 1) \in QueueSlot
    <3>1. n - 1 + 1 = Written
      BY <2>2, <2>7, <2>8
    <3>2. AdvanceHead(PlaceHead(n - 1), 1) = PlaceHead(n - 1 + 1)
      BY <2>1, <2>6, PlaceAdvance, Zenon
    <3>3. device.tail = PlaceHead(Written)
      BY <1>0, Zenon DEF DeviceInv
    <3>4. device.tail \in QueueSlot
      BY <1>0, Zenon DEF NvmeTypeOK
    <3> QED BY <2>5, <3>1, <3>2, <3>3, <3>4, Zenon
  <2>10. device' \in [tail : QueueSlot, phase : BOOLEAN, doorbell : QueueSlot, pending : CommandId]
         /\ device'.tail = device.tail /\ device'.phase = device.phase /\ device'.pending = device.pending
         /\ device'.doorbell = device.tail
    <3>1. device \in [tail : QueueSlot, phase : BOOLEAN, doorbell : QueueSlot, pending : CommandId]
      BY <1>0, Zenon DEF NvmeTypeOK
    <3>2. device' = [device EXCEPT !.doorbell = device.tail]
      BY <1>4, <2>9, Zenon
    <3> QED BY <3>1, <3>2, Zenon
  <2>11. storage' \in [head : QueueSlot, phase : BOOLEAN, nextId : CommandId] /\ storage'.nextId = storage.nextId
    BY <1>0, <1>4, <2>1, SynchronizedTypes, Zenon
  <2>12. ~delayed => StandsAt(storage', issued)
    <3> SUFFICES ASSUME ~delayed PROVE StandsAt(storage', issued)
      BY Zenon
    <3>1. StandsAt(storage, issued - 1)
      BY <1>0, <1>1, Zenon DEF CommandInv
    <3>2. issued - 1 \in Nat /\ issued - 1 + 1 = issued
      BY <2>2
    <3>3. StandsAt(Synchronized(1), issued - 1 + 1)
      BY <1>0, <3>1, <3>2, SynchronizedPlace, Zenon
    <3> QED BY <1>4, <3>2, <3>3, Zenon
  <2>13. Written' = Written
    BY <1>2, <2>10, WrittenFrame, Zenon
  <2>14. BacklogInv' /\ EventInv' /\ events' \in Seq(CompletionInterrupt)
    <3>1. device'.doorbell = device'.tail /\ device'.pending = device.pending
      BY <2>10, Zenon
    <3>2. BacklogInv'
      BY <1>0, <1>1, <1>2, <3>1, BacklogFrame, Zenon
    <3>3. EventInv'
      BY <1>0, <1>1, <1>2, <2>13, <3>1, EventFrame, Zenon
    <3> QED BY <1>0, <1>2, <3>2, <3>3, Zenon DEF NvmeTypeOK
  <2> QED BY <1>1, <1>2, <1>4, <2>8, <2>10, <2>11, <2>12, <2>14, Returns, Zenon
<1> QED BY <1>3, <1>4, Zenon DEF Resynchronize

(* An interrupt message arrives.                                             *)
LEMMA MessageArrivesStep == ASSUME NvmeInv, MessageArrives PROVE NvmeInv'
<1>0. NvmeTypeOK /\ DeviceInv /\ SlotsInv /\ ReceiverInv /\ BacklogInv /\ EventInv /\ CommandInv
  BY Zenon DEF NvmeInv
<1>1. UNCHANGED <<delayed, device, cq, storage, path, events, cpu, issued, completed>> /\ msi /\ msi' = FALSE /\ vector' = TRUE
  BY Zenon DEF MessageArrives
<1>2. Written' = Written /\ (Fresh => Fresh')
  BY <1>1, WrittenFrame, Zenon DEF Fresh
<1>3. NvmeTypeOK' /\ DeviceInv' /\ CommandInv'
  <2>1. NvmeTypeOK'
    BY <1>0, <1>1, Zenon DEF NvmeTypeOK
  <2>2. DeviceInv'
    BY <1>0, <1>1, <1>2, Zenon DEF DeviceInv
  <2>3. CommandInv'
    BY <1>0, <1>1, <1>2, Zenon DEF CommandInv, StandsAt
  <2> QED BY <2>1, <2>2, <2>3, Zenon
<1>4. SlotsInv' /\ ReceiverInv'
  BY <1>0, <1>1, <1>2, QueueFrame, ReceiverFrame, Zenon
<1>5. EventInv'
  BY <1>0, <1>1, <1>2, EventFrame, Zenon
<1>6. BacklogInv'
  <2>1. One(msi) = 1 /\ One(msi') = 0 /\ One(vector') = 1 /\ One(vector) \in {0, 1} /\ One(device.pending # 0) \in {0, 1}
    BY <1>1, Zenon DEF One
  <2>2. Messages' = One(vector') + One(msi') + One(device.pending # 0)
    BY <1>1, Zenon DEF Messages
  <2>3. Messages = One(vector) + One(msi) + One(device.pending # 0)
    BY Zenon DEF Messages
  <2>4. Messages' <= Messages /\ Messages \in Int /\ Messages' \in Int
    BY <2>1, <2>2, <2>3
  <2>5. Room' = Room
    BY <1>1, Zenon DEF Room, Fresh
  <2>6. Len(events') = Len(events) /\ Len(events) \in Int
    BY <1>0, <1>1 DEF NvmeTypeOK
  <2>7. Len(events) + Messages <= Room
    BY <1>0, Zenon DEF BacklogInv
  <2>8. Len(events') + Messages' <= Room'
    BY <2>4, <2>5, <2>6, <2>7, Rooms
  <2> QED BY <1>0, <1>1, <2>8, Zenon DEF BacklogInv
<1> QED BY <1>3, <1>4, <1>5, <1>6, Zenon DEF NvmeInv

(* The dispatch unit catches up with the device and publishes one event.     *)
LEMMA NvmeInterruptStep == ASSUME NvmeInv, Interrupt PROVE NvmeInv'
<1>0. NvmeTypeOK /\ DeviceInv /\ SlotsInv /\ ReceiverInv /\ BacklogInv /\ EventInv /\ CommandInv
  BY Zenon DEF NvmeInv
<1>1. PICK lag \in 0..2 : Behind(lag)
  BY <1>0, Zenon DEF ReceiverInv
<1>2. DrainCount = lag
  BY <1>0, <1>1, DrainLag, Zenon
<1>3. /\ UNCHANGED <<delayed, cq, msi, storage, issued, completed>> /\ vector /\ vector' = FALSE
      /\ path' = [head |-> AdvanceHead(path.head, lag), phase |-> AdvancePhase(path.head, path.phase, lag)]
      /\ device' = IF lag > 0 THEN [device EXCEPT !.doorbell = AdvanceHead(path.head, lag)] ELSE device
      /\ events' = Append(events, Drained(lag))
      /\ cpu' = IF cpu.pc = "halted" THEN [cpu EXCEPT !.pc = "woken"] ELSE cpu
  BY <1>2, Zenon DEF Interrupt, InterruptTaken
<1>4. issued \in Nat /\ Written \in Nat /\ Written <= issued /\ lag \in 0..lag /\ Written - lag + lag = Written
      /\ (device.pending = 0 => Written = issued) /\ (device.pending # 0 => Written = issued - 1)
  BY <1>0, WrittenTypes
<1>5. AdvanceHead(path.head, lag) = PlaceHead(Written) /\ AdvancePhase(path.head, path.phase, lag) = PlacePhase(Written)
  BY <1>0, <1>1, <1>4, NewEntries, Zenon
<1>6. device.tail = PlaceHead(Written) /\ device.phase = PlacePhase(Written)
  BY <1>0, Zenon DEF DeviceInv
<1>7. PlaceHead(Written) \in QueueSlot /\ PlacePhase(Written) \in BOOLEAN
  BY <1>4, PlaceTypes, Zenon DEF PlacePhase
<1>8. /\ device' \in [tail : QueueSlot, phase : BOOLEAN, doorbell : QueueSlot, pending : CommandId]
      /\ device'.tail = device.tail /\ device'.phase = device.phase /\ device'.pending = device.pending
      /\ lag > 0 => device'.doorbell = device'.tail
      /\ ~(lag > 0) => device' = device
  <2>1. device \in [tail : QueueSlot, phase : BOOLEAN, doorbell : QueueSlot, pending : CommandId]
    BY <1>0, Zenon DEF NvmeTypeOK
  <2>2. device' = IF lag > 0 THEN [device EXCEPT !.doorbell = device.tail] ELSE device
    BY <1>3, <1>5, <1>6, Zenon
  <2> QED BY <2>1, <2>2, Zenon
<1>9. /\ cpu' \in [pc : WaitLabel, sti : BOOLEAN, command : CommandId, wait : 0 .. MaxWaits]
      /\ cpu'.command = cpu.command /\ cpu'.sti = cpu.sti
      /\ (cpu'.pc = "idle") = (cpu.pc = "idle") /\ (Fresh => Fresh')
  <2>1. cpu \in [pc : WaitLabel, sti : BOOLEAN, command : CommandId, wait : 0 .. MaxWaits]
    BY <1>0, Zenon DEF NvmeTypeOK
  <2>2. CASE cpu.pc = "halted"
    <3>1. cpu' = [cpu EXCEPT !.pc = "woken"] /\ "woken" \in WaitLabel
      BY <1>3, <2>2, Zenon DEF WaitLabel
    <3>2. ~Fresh
      BY <2>2, Zenon DEF Fresh
    <3> HIDE DEF WaitLabel
    <3>3. /\ cpu' \in [pc : WaitLabel, sti : BOOLEAN, command : CommandId, wait : 0 .. MaxWaits]
          /\ cpu'.command = cpu.command /\ cpu'.sti = cpu.sti /\ cpu'.pc # "idle" /\ cpu.pc # "idle"
      BY <2>1, <2>2, <3>1, Zenon
    <3> QED BY <3>2, <3>3, Zenon
  <2>3. CASE cpu.pc # "halted"
    BY <1>3, <2>1, <2>3, Zenon DEF Fresh
  <2> QED BY <2>2, <2>3, Zenon
<1>10. Written' = Written
  BY <1>3, <1>8, WrittenFrame, Zenon
<1>11. /\ Drained(lag) \in CompletionInterrupt /\ Drained(lag).count = lag
       /\ lag > 0 => Written > 0 /\ Drained(lag).last = IdOf(Written) /\ (Drained(lag).failed \/ ~(completed < Written))
  BY <1>0, <1>1, DrainedLag, Zenon
<1>12. /\ events' \in Seq(CompletionInterrupt) /\ Len(events) \in Nat /\ Len(events') = Len(events) + 1
       /\ events'[Len(events) + 1] = Drained(lag)
       /\ \A i \in 1..Len(events) : events'[i] = events[i]
  <2>1. events \in Seq(CompletionInterrupt)
    BY <1>0, Zenon DEF NvmeTypeOK
  <2> HIDE DEF CompletionInterrupt
  <2>2. ASSUME NEW e \in CompletionInterrupt, events' = Append(events, e)
        PROVE  /\ events' \in Seq(CompletionInterrupt) /\ Len(events) \in Nat /\ Len(events') = Len(events) + 1
               /\ events'[Len(events) + 1] = e
               /\ \A i \in 1..Len(events) : events'[i] = events[i]
    BY <2>1, <2>2
  <2> QED BY <1>3, <1>11, <2>2, Zenon
<1>13. NvmeTypeOK'
  <2>1. path' \in [head : QueueSlot, phase : BOOLEAN]
    BY <1>3, <1>5, <1>7, Zenon
  <2> QED BY <1>0, <1>3, <1>8, <1>9, <1>12, <2>1, Zenon DEF NvmeTypeOK
<1>14. DeviceInv'
  BY <1>0, <1>3, <1>8, <1>9, <1>10, Zenon DEF DeviceInv
<1>15. SlotsInv'
  BY <1>0, <1>3, <1>10, QueueFrame, Zenon
<1>16. ReceiverInv'
  <2>1. path'.head = PlaceHead(Written) /\ path'.phase = PlacePhase(Written)
    BY <1>3, <1>5, Zenon
  <2>2. 0 <= Written /\ Written - 0 = Written /\ ~(0 > 0) /\ 0 # 1 /\ 0 # 2 /\ 0 \in 0..2
    BY <1>4
  <2>3. Behind(0)'
    BY <1>10, <2>1, <2>2, Zenon DEF Behind, StandsAt
  <2> QED BY <2>2, <2>3, Zenon DEF ReceiverInv
<1>17. Len(events) + 1 + One(msi) + One(device.pending # 0) <= Room
  <2>1. Len(events) + Messages <= Room
    BY <1>0, Zenon DEF BacklogInv
  <2>2. One(vector) = 1 /\ One(msi) \in {0, 1} /\ One(device.pending # 0) \in {0, 1}
    BY <1>3, Zenon DEF One
  <2>3. Messages = One(vector) + One(msi) + One(device.pending # 0)
    BY Zenon DEF Messages
  <2> QED BY <1>12, <2>1, <2>2, <2>3, Rooms
<1>18. BacklogInv'
  <2>1. Messages' = One(vector') + One(msi) + One(device.pending # 0)
    BY <1>3, <1>8, Zenon DEF Messages
  <2>2. One(vector') = 0 /\ One(msi) \in {0, 1} /\ One(device.pending # 0) \in {0, 1}
    BY <1>3, Zenon DEF One
  <2>3. Room <= Room' /\ Room \in Int /\ Room' \in Int
    BY <1>9, Rooms
  <2>4. Len(events') + Messages' <= Room'
    BY <1>12, <1>17, <2>1, <2>2, <2>3
  <2> QED BY <1>0, <1>3, <2>4, Zenon DEF BacklogInv
<1>19. EventInv'
  <2> SUFFICES ASSUME NEW i \in 1..Len(events'), events'[i].count > 0
               PROVE  (~delayed => events'[i].count = 1) /\ \E m \in 1..Written : EventOf(i, m)'
    BY <1>3, <1>10, Zenon DEF EventInv
  <2>0. Room <= Room' /\ Room \in Int /\ Room' \in Int /\ issued \in Int /\ Written \in Int /\ i \in Int
    BY <1>4, <1>9, <1>12, Rooms
  <2>1. CASE i \in 1..Len(events)
    <3>1. events'[i] = events[i]
      BY <1>12, <2>1, Zenon
    <3>2. (~delayed => events[i].count = 1) /\ \E m \in 1..Written : EventOf(i, m)
      BY <1>0, <2>1, <3>1, Zenon DEF EventInv
    <3>3. PICK m \in 1..Written : EventOf(i, m)
      BY <3>2, Zenon
    <3>4. (issued - m) + i <= Room' + 1
      <4>1. (issued - m) + i <= Room + 1
        BY <3>3, Zenon DEF EventOf
      <4>2. m \in Int
        BY <1>4
      <4> QED BY <2>0, <4>1, <4>2, Ages, Zenon
    <3>5. device.doorbell = device.tail => device'.doorbell = device'.tail
      BY <1>8, Zenon
    <3>6. EventOf(i, m)'
      BY <1>3, <3>1, <3>3, <3>4, <3>5, Zenon DEF EventOf
    <3> QED BY <3>1, <3>2, <3>6, Zenon
  <2>2. CASE i = Len(events) + 1
    <3>1. events'[i] = Drained(lag) /\ lag > 0
      BY <1>11, <1>12, <2>2, Zenon
    <3>2. lag = 1 \/ lag = 2
      BY <3>1
    <3>3. ~delayed => events'[i].count = 1
      BY <1>1, <1>11, <3>1, <3>2, Zenon DEF Behind
    <3>4. Written \in 1..Written
      BY <1>4, <1>11, <3>1
    <3>5. (issued - Written) + i <= Room' + 1
      <4>1. One(msi) \in {0, 1} /\ One(device.pending # 0) \in {0, 1} /\ (device.pending # 0 => One(device.pending # 0) = 1)
        BY Zenon DEF One
      <4>2. issued - Written <= One(device.pending # 0)
        BY <1>4, <4>1
      <4> HIDE DEF One
      <4> QED BY <1>12, <1>17, <2>0, <2>2, <4>1, <4>2
    <3>6. Written = issued => events'[i].failed \/ completed = issued
      <4>1. completed \in {issued, issued - 1}
        BY <1>0, Zenon DEF CommandInv
      <4>2. Written = issued /\ ~(completed < Written) => completed = issued
        BY <1>4, <4>1
      <4> QED BY <1>11, <3>1, <4>2, Zenon
    <3>7. EventOf(i, Written)'
      BY <1>3, <1>8, <1>10, <1>11, <3>1, <3>5, <3>6, Zenon DEF EventOf
    <3> QED BY <1>10, <3>3, <3>4, <3>7, Zenon
  <2>3. i \in 1..Len(events) \/ i = Len(events) + 1
    BY <1>12
  <2> QED BY <2>1, <2>2, <2>3, Zenon
<1>20. CommandInv'
  <2>1. device'.doorbell = device'.tail \/ device' = device
    BY <1>8, Zenon
  <2> QED BY <1>0, <1>3, <1>8, <1>9, <1>10, <2>1, Zenon DEF CommandInv, StandsAt
<1> QED BY <1>13, <1>14, <1>15, <1>16, <1>18, <1>19, <1>20, Zenon DEF NvmeInv

(* A command is issued when the one before it has been completed.            *)
LEMMA SubmitStep == ASSUME NvmeInv, Submit PROVE NvmeInv'
<1>0. NvmeTypeOK /\ DeviceInv /\ SlotsInv /\ ReceiverInv /\ BacklogInv /\ EventInv /\ CommandInv
  BY Zenon DEF NvmeInv
<1>1. /\ UNCHANGED <<delayed, cq, msi, vector, path, events, completed>>
      /\ cpu.pc = "idle" /\ issued < MaxCommands /\ issued' = issued + 1
      /\ storage' = [storage EXCEPT !.nextId = NextCommandId(storage.nextId)]
      /\ device' = [device EXCEPT !.pending = storage.nextId]
      /\ cpu' = [cpu EXCEPT !.pc = "submitted", !.command = storage.nextId]
  BY Zenon DEF Submit, Runs
<1>2. completed = issued /\ ~vector
  BY <1>0, <1>1, Zenon DEF CommandInv, Submit, Runs, InterruptTaken
<1>3. issued \in Nat /\ issued + 1 \in Nat \ {0} /\ issued + 1 + 1 \in Nat \ {0} /\ issued + 1 - 1 = issued
  BY <1>0, WrittenTypes
<1>4. device.pending = 0 /\ Written = issued
  <2>1. issued # issued - 1
    BY <1>3
  <2>2. device.pending = 0
    BY <1>0, <1>2, <2>1, Zenon DEF CommandInv
  <2> QED BY <2>2, Zenon DEF Written
<1> DEFINE id == IdOf(issued + 1)
<1>5. storage.nextId = id /\ id \in CommandId /\ id # 0 /\ NextCommandId(storage.nextId) = IdOf(issued + 1 + 1)
      /\ IdOf(issued + 1 + 1) \in CommandId
  BY <1>0, <1>3, IdTypes, IdNext, Zenon DEF DeviceInv
<1> HIDE DEF id
<1>6. /\ storage' \in [head : QueueSlot, phase : BOOLEAN, nextId : CommandId]
      /\ storage'.head = storage.head /\ storage'.phase = storage.phase /\ storage'.nextId = IdOf(issued + 1 + 1)
  <2>1. storage \in [head : QueueSlot, phase : BOOLEAN, nextId : CommandId]
    BY <1>0, Zenon DEF NvmeTypeOK
  <2>2. ASSUME NEW k \in CommandId, NEW r, r = [storage EXCEPT !.nextId = k]
        PROVE  r \in [head : QueueSlot, phase : BOOLEAN, nextId : CommandId]
               /\ r.head = storage.head /\ r.phase = storage.phase /\ r.nextId = k
    BY <2>1, <2>2, Zenon
  <2> QED BY <1>1, <1>5, <2>2, Zenon
<1>7. /\ device' \in [tail : QueueSlot, phase : BOOLEAN, doorbell : QueueSlot, pending : CommandId]
      /\ device'.tail = device.tail /\ device'.phase = device.phase /\ device'.doorbell = device.doorbell
      /\ device'.pending = id
  <2>1. device \in [tail : QueueSlot, phase : BOOLEAN, doorbell : QueueSlot, pending : CommandId]
    BY <1>0, Zenon DEF NvmeTypeOK
  <2>2. device' = [device EXCEPT !.pending = id]
    BY <1>1, <1>5, Zenon
  <2> QED BY <1>5, <2>1, <2>2, Zenon
<1>8. /\ cpu' \in [pc : WaitLabel, sti : BOOLEAN, command : CommandId, wait : 0 .. MaxWaits]
      /\ cpu'.pc = "submitted" /\ cpu'.command = id
  <2>1. cpu \in [pc : WaitLabel, sti : BOOLEAN, command : CommandId, wait : 0 .. MaxWaits]
    BY <1>0, Zenon DEF NvmeTypeOK
  <2>2. cpu' = [cpu EXCEPT !.pc = "submitted", !.command = id] /\ "submitted" \in WaitLabel
    BY <1>1, <1>5, Zenon DEF WaitLabel
  <2> HIDE DEF WaitLabel
  <2> QED BY <1>5, <2>1, <2>2, Zenon
<1>9. cpu'.pc # "idle"
  BY <1>8, Zenon
<1>10. Written' = Written /\ Written' = issued
  <2>1. Written' = issued' - 1
    BY <1>5, <1>7, Zenon DEF Written
  <2> QED BY <1>1, <1>3, <1>4, <2>1
<1>11. NvmeTypeOK'
  <2>1. issued' \in 0..MaxCommands /\ completed' \in 0..issued'
    BY <1>1, <1>2, <1>3, NvmeAssumption
  <2> QED BY <1>0, <1>1, <1>6, <1>7, <1>8, <2>1, Zenon DEF NvmeTypeOK
<1>12. DeviceInv'
  <2>1. issued' # 0
    BY <1>1, <1>3, Zenon
  <2> QED BY <1>0, <1>1, <1>6, <1>7, <1>8, <1>10, <2>1, Zenon DEF DeviceInv, id
<1>13. SlotsInv'
  BY <1>0, <1>1, <1>10, QueueFrame, Zenon
<1>14. ReceiverInv'
  <2>1. PICK lag \in 0..2 : Behind(lag)
    BY <1>0, Zenon DEF ReceiverInv
  <2>2. lag # 2
    BY <1>2, <2>1, Zenon DEF Behind
  <2>3. lag = 1 => delayed
    <3>1. lag = 1 => lag > 0
      OBVIOUS
    <3> QED BY <1>0, <1>2, <2>1, <3>1, Zenon DEF Behind, BacklogInv
  <2>4. Behind(lag)'
    BY <1>1, <1>10, <2>1, <2>2, <2>3, Zenon DEF Behind, StandsAt
  <2> QED BY <2>4, Zenon DEF ReceiverInv
<1>15. Room = 2 /\ Room' = 3
  <2>1. ~Fresh
    BY <1>1, Zenon DEF Fresh
  <2>2. Fresh'
    BY <1>8, Zenon DEF Fresh
  <2> QED BY <2>1, <2>2, Zenon DEF Room
<1>16. BacklogInv'
  <2>1. Messages' = One(vector) + One(msi) + One(id # 0)
    BY <1>1, <1>7, Zenon DEF Messages
  <2>2. Messages = One(vector) + One(msi) + One(device.pending # 0)
    BY Zenon DEF Messages
  <2>3. One(vector) \in {0, 1} /\ One(msi) \in {0, 1} /\ One(device.pending # 0) = 0 /\ One(id # 0) = 1
    BY <1>4, <1>5, Zenon DEF One
  <2>4. Len(events') = Len(events) /\ Len(events) \in Int
    BY <1>0, <1>1 DEF NvmeTypeOK
  <2>5. Len(events) + Messages <= Room
    BY <1>0, Zenon DEF BacklogInv
  <2>6. Len(events') + Messages' <= Room'
    BY <1>15, <2>1, <2>2, <2>3, <2>4, <2>5
  <2> QED BY <1>0, <1>1, <1>2, <2>6, Zenon DEF BacklogInv
<1>17. EventInv'
  <2> SUFFICES ASSUME NEW i \in 1..Len(events), events[i].count > 0
               PROVE  (~delayed => events[i].count = 1) /\ \E m \in 1..Written : EventOf(i, m)'
    BY <1>1, <1>10, Zenon DEF EventInv
  <2>1. (~delayed => events[i].count = 1) /\ \E m \in 1..Written : EventOf(i, m)
    BY <1>0, Zenon DEF EventInv
  <2>2. PICK m \in 1..Written : EventOf(i, m)
    BY <2>1, Zenon
  <2>3. (issued - m) + i <= Room + 1
    BY <2>2, Zenon DEF EventOf
  <2>4. (issued' - m) + i <= Room' + 1 /\ m # issued'
    <3>1. m \in Int /\ i \in Int
      BY <1>3, <1>4
    <3> QED BY <1>1, <1>3, <1>4, <1>15, <2>3, <3>1
  <2>5. EventOf(i, m)'
    BY <1>1, <2>2, <2>4, Zenon DEF EventOf
  <2> QED BY <2>1, <2>5, Zenon
<1>18. CommandInv'
  <2>1. completed' = issued' - 1 /\ issued' - 1 = issued
    BY <1>1, <1>2, <1>3
  <2>2. ~delayed => StandsAt(storage', issued)
    BY <1>0, <1>1, <1>6, Zenon DEF CommandInv, StandsAt
  <2>3. device'.doorbell = device'.tail
    BY <1>0, <1>1, <1>7, Zenon DEF CommandInv
  <2> QED BY <1>1, <1>9, <2>1, <2>2, <2>3, Zenon DEF CommandInv
<1> QED BY <1>11, <1>12, <1>13, <1>14, <1>16, <1>17, <1>18, Zenon DEF NvmeInv

(* A round of the queue later the slot is the same.                          *)
LEMMA RoundLater == ASSUME NEW a \in Nat PROVE PlaceHead(a + QueueDepth) = PlaceHead(a)
<1>1. QueueDepth \in Nat \ {0} /\ QueueDepth \in Nat
  BY NvmeAssumption, Zenon
<1>2. a % QueueDepth \in 0..(QueueDepth - 1)
  BY <1>1, Division, Zenon
<1>3. ASSUME NEW r \in 0..(QueueDepth - 1) PROVE (r + QueueDepth) % QueueDepth = r
  <2>1. r + QueueDepth = QueueDepth * 1 + r /\ 1 \in Nat
    BY <1>1
  <2> QED BY <1>1, <2>1, DivisionUnique
<1>4. ((a % QueueDepth) + QueueDepth) % QueueDepth = (a + QueueDepth) % QueueDepth
  BY <1>1, Shift, Zenon
<1> QED BY <1>2, <1>3, <1>4, Zenon DEF PlaceHead

(* The device writes the entry of the command under way.                     *)
LEMMA DeviceCompleteStep == ASSUME NvmeInv, DeviceComplete PROVE NvmeInv'
<1>0. NvmeTypeOK /\ DeviceInv /\ SlotsInv /\ ReceiverInv /\ BacklogInv /\ EventInv /\ CommandInv
  BY Zenon DEF NvmeInv
<1>1. PICK failed \in BOOLEAN :
        /\ device.pending # 0 /\ ~msi
        /\ cq' = [cq EXCEPT ![device.tail] =
                     [phase |-> device.phase, command |-> device.pending, failed |-> failed]]
        /\ device' = [device EXCEPT !.tail = AdvanceHead(device.tail, 1),
                                    !.phase = AdvancePhase(device.tail, device.phase, 1),
                                    !.pending = 0]
        /\ completed' = IF failed THEN completed ELSE completed + 1
        /\ IF delayed THEN msi' = TRUE /\ vector' = vector ELSE msi' = msi /\ vector' = TRUE
  BY Zenon DEF DeviceComplete
<1>2. UNCHANGED <<delayed, storage, path, events, cpu, issued>>
  BY Zenon DEF DeviceComplete
<1>3. Written \in Nat /\ issued \in Nat \ {0} /\ issued = Written + 1 /\ Written + 1 - 1 = Written /\ 1 \in Nat
      /\ Written + 1 \in Nat
  BY <1>0, <1>1, WrittenTypes
<1>4. completed = Written /\ completed' \in {Written, Written + 1} /\ (failed <=> completed' < Written + 1)
  <2>1. completed = issued - 1
    BY <1>0, <1>1, Zenon DEF CommandInv
  <2>2. completed = Written
    BY <1>3, <2>1
  <2>3. CASE failed
    <3>1. completed' = Written
      BY <1>1, <2>2, <2>3, Zenon
    <3> QED BY <1>3, <2>2, <2>3, <3>1
  <2>4. CASE ~failed
    <3>1. completed' = Written + 1
      BY <1>1, <2>2, <2>4, Zenon
    <3> QED BY <1>3, <2>2, <2>4, <3>1
  <2> QED BY <2>3, <2>4, Zenon
<1>5. cpu.pc # "idle"
  <2>1. completed # issued
    BY <1>3, <1>4
  <2> QED BY <1>0, <2>1, Zenon DEF CommandInv
<1>6. device.tail = PlaceHead(Written) /\ device.phase = PlacePhase(Written) /\ device.pending = IdOf(issued)
  <2>1. issued > 0
    BY <1>3
  <2> QED BY <1>0, <1>1, <2>1, Zenon DEF DeviceInv
<1>7. AdvanceHead(device.tail, 1) = PlaceHead(Written + 1) /\ AdvancePhase(device.tail, device.phase, 1) = PlacePhase(Written + 1)
  BY <1>3, <1>6, PlaceAdvance, Zenon
<1>8. PlaceHead(Written + 1) \in QueueSlot /\ PlacePhase(Written + 1) \in BOOLEAN /\ 0 \in CommandId
  <2>1. 0 \in CommandId
    BY NvmeAssumption DEF CommandId
  <2> QED BY <1>3, <2>1, PlaceTypes, Zenon DEF PlacePhase
<1>9. /\ device' \in [tail : QueueSlot, phase : BOOLEAN, doorbell : QueueSlot, pending : CommandId]
      /\ device'.tail = PlaceHead(Written + 1) /\ device'.phase = PlacePhase(Written + 1)
      /\ device'.pending = 0 /\ device'.doorbell = device.doorbell
  <2>1. device \in [tail : QueueSlot, phase : BOOLEAN, doorbell : QueueSlot, pending : CommandId]
    BY <1>0, Zenon DEF NvmeTypeOK
  <2>2. PICK h \in QueueSlot, f \in BOOLEAN : h = PlaceHead(Written + 1) /\ f = PlacePhase(Written + 1)
    BY <1>8, Zenon
  <2>3. device' = [device EXCEPT !.tail = h, !.phase = f, !.pending = 0]
    BY <1>1, <1>7, <2>2, Zenon
  <2>4. device' \in [tail : QueueSlot, phase : BOOLEAN, doorbell : QueueSlot, pending : CommandId]
        /\ device'.tail = h /\ device'.phase = f /\ device'.pending = 0 /\ device'.doorbell = device.doorbell
    BY <1>8, <2>1, <2>3, Zenon
  <2> QED BY <2>2, <2>4, Zenon
<1>10. Written' = Written + 1 /\ Written' = issued
  BY <1>2, <1>3, <1>9, Zenon DEF Written
<1>11. /\ cq' \in [QueueSlot -> Entry] /\ device.tail \in QueueSlot
       /\ cq'[device.tail].phase = PlacePhase(Written) /\ cq'[device.tail].command = IdOf(issued)
       /\ cq'[device.tail].failed = failed
       /\ \A s \in QueueSlot : s # device.tail => cq'[s] = cq[s]
  <2>1. cq \in [QueueSlot -> Entry] /\ device.tail \in QueueSlot /\ device.phase \in BOOLEAN /\ device.pending \in CommandId
    BY <1>0, Zenon DEF NvmeTypeOK
  <2> DEFINE e == [phase |-> device.phase, command |-> device.pending, failed |-> failed]
  <2>2. e \in Entry /\ e.phase = device.phase /\ e.command = device.pending /\ e.failed = failed
    BY <2>1, Zenon DEF Entry
  <2>3. cq' = [cq EXCEPT ![device.tail] = e]
    BY <1>1, Zenon
  <2> HIDE DEF e
  <2>4. cq' \in [QueueSlot -> Entry] /\ cq'[device.tail] = e /\ \A s \in QueueSlot : s # device.tail => cq'[s] = cq[s]
    BY <2>1, <2>2, <2>3, Zenon
  <2> QED BY <1>6, <2>1, <2>2, <2>4, Zenon
<1>12. NvmeTypeOK'
  <2>1. completed' \in 0..issued'
    BY <1>2, <1>3, <1>4
  <2>2. msi' \in BOOLEAN /\ vector' \in BOOLEAN
    BY <1>0, <1>1, Zenon DEF NvmeTypeOK
  <2> QED BY <1>0, <1>2, <1>9, <1>11, <2>1, <2>2, Zenon DEF NvmeTypeOK
<1>13. DeviceInv'
  <2>1. issued # 0
    BY <1>3, Zenon
  <2> QED BY <1>0, <1>2, <1>9, <1>10, <2>1, Zenon DEF DeviceInv
<1>14. SlotsInv'
  <2> SUFFICES ASSUME NEW s \in QueueSlot
               PROVE  \/ s >= Written + 1 /\ cq'[s].command = 0 /\ ~cq'[s].phase
                      \/ \E n \in 1..(Written + 1) : HoldsEntry(s, n)'
    BY <1>10, Zenon DEF SlotsInv
  <2>0. QueueDepth \in Nat \ {0} /\ s \in 0..(QueueDepth - 1)
    BY NvmeAssumption, Zenon DEF QueueSlot
  <2>1. CASE s = device.tail
    <3>1. Written + 1 \in 1..(Written + 1) /\ Written + 1 > Written + 1 - QueueDepth
      BY <1>3, <2>0
    <3>2. PICK n \in 1..(Written + 1) : n = Written + 1
      BY <3>1, Zenon
    <3>3. n - 1 = Written /\ n = issued /\ n > Written' - QueueDepth
      BY <1>3, <1>10, <2>0, <3>2
    <3>4. s = PlaceHead(n - 1) /\ cq'[s].phase = PlacePhase(n - 1) /\ cq'[s].command = IdOf(n)
      BY <1>6, <1>11, <2>1, <3>3, Zenon
    <3>5. cq'[s].failed <=> completed' < n
      BY <1>4, <1>11, <2>1, <3>2, Zenon
    <3>6. HoldsEntry(s, n)'
      BY <3>3, <3>4, <3>5, Zenon DEF HoldsEntry
    <3> QED BY <3>6, Zenon
  <2>2. CASE s # device.tail
    <3>1. cq'[s] = cq[s]
      BY <1>11, <2>2, Zenon
    <3>2. CASE s >= Written /\ cq[s].command = 0 /\ ~cq[s].phase
      <4>1. s # Written
        <5> SUFFICES ASSUME s = Written PROVE FALSE
          BY Zenon
        <5>1. Written < QueueDepth
          BY <2>0
        <5> QED BY <1>3, <1>6, <2>2, <5>1, PlaceTypes, Zenon
      <4>2. s >= Written + 1
        BY <1>3, <2>0, <3>2, <4>1
      <4> QED BY <3>1, <3>2, <4>2, Zenon
    <3>3. ASSUME NEW n \in 1..Written, HoldsEntry(s, n) PROVE \E k \in 1..(Written + 1) : HoldsEntry(s, k)'
      <4>1. n > Written - QueueDepth /\ s = PlaceHead(n - 1) /\ cq[s].phase = PlacePhase(n - 1)
            /\ cq[s].command = IdOf(n) /\ (cq[s].failed <=> completed < n)
        BY <3>3, Zenon DEF HoldsEntry
      <4>2. n \in Nat /\ n - 1 \in Nat /\ n \in 1..(Written + 1)
        BY <1>3
      <4>3. n - 1 + QueueDepth # Written
        BY <1>6, <2>2, <4>1, <4>2, RoundLater, Zenon
      <4>4. n > (Written + 1) - QueueDepth
        BY <1>3, <2>0, <4>1, <4>2, <4>3
      <4>5. ~(completed < n) /\ ~(completed' < n)
        BY <1>3, <1>4
      <4>6. HoldsEntry(s, n)'
        BY <1>10, <3>1, <4>1, <4>4, <4>5, Zenon DEF HoldsEntry
      <4> QED BY <4>2, <4>6, Zenon
    <3> QED BY <1>0, <3>2, <3>3, Zenon DEF SlotsInv
  <2> QED BY <2>1, <2>2, Zenon
<1>15. ReceiverInv'
  <2>1. PICK lag \in 0..2 : Behind(lag)
    BY <1>0, Zenon DEF ReceiverInv
  <2>2. lag # 2 /\ (lag = 1 => delayed)
    BY <1>1, <2>1, Zenon DEF Behind
  <2>3. lag = 1 => vector
    <3>1. lag = 1 => lag > 0
      OBVIOUS
    <3> QED BY <1>1, <2>1, <3>1, Zenon DEF Behind
  <2>4. StandsAt(path, Written - lag) /\ lag <= Written
    BY <2>1, Zenon DEF Behind
  <2>5. PICK k \in 0..2 : k <= Written + 1 /\ Written + 1 - k = Written - lag /\ (k = 2 => lag = 1)
    <3>1. lag + 1 \in 0..2 /\ lag + 1 <= Written + 1 /\ Written + 1 - (lag + 1) = Written - lag /\ (lag + 1 = 2 => lag = 1)
      BY <1>3, <2>2, <2>4
    <3> QED BY <3>1, Zenon
  <2>6. vector' \/ msi'
    BY <1>1, Zenon
  <2>7. k = 2 => vector' /\ delayed
    BY <1>1, <2>2, <2>3, <2>5, Zenon
  <2>8. Written' - k = Written - lag /\ k <= Written'
    <3>1. ASSUME NEW x \in Int, x = Written + 1 PROVE x - k = Written - lag /\ k <= x
      BY <1>3, <2>5, <3>1
    <3>2. Written' \in Int
      BY <1>3, <1>10
    <3> QED BY <1>10, <3>1, <3>2, Zenon
  <2>9. Behind(k)'
    <3>1. path'.head = PlaceHead(Written' - k) /\ path'.phase = PlacePhase(Written' - k)
      BY <1>2, <2>4, <2>8, Zenon DEF StandsAt
    <3>2. delayed' = delayed /\ device'.pending = 0
      BY <1>2, <1>9, Zenon
    <3> QED BY <2>6, <2>7, <2>8, <3>1, <3>2, Zenon DEF Behind, StandsAt
  <2> QED BY <2>5, <2>9, Zenon DEF ReceiverInv
<1>16. BacklogInv'
  <2>1. One(device.pending # 0) = 1 /\ One(device'.pending # 0) = 0 /\ One(msi) = 0
        /\ One(vector) \in {0, 1} /\ One(vector') \in {0, 1} /\ One(msi') \in {0, 1}
    BY <1>1, <1>9, Zenon DEF One
  <2>2. One(vector') = One(vector) \/ One(msi') = 0
    BY <1>1, Zenon DEF One
  <2>3. Messages = One(vector) + One(msi) + One(device.pending # 0)
        /\ Messages' = One(vector') + One(msi') + One(device'.pending # 0)
    BY Zenon DEF Messages
  <2>4. Messages' <= Messages /\ Messages \in Int /\ Messages' \in Int
    BY <2>1, <2>2, <2>3
  <2>5. Room' = Room
    BY <1>2, Zenon DEF Room, Fresh
  <2>6. Len(events') = Len(events) /\ Len(events) \in Int
    BY <1>0, <1>2 DEF NvmeTypeOK
  <2>7. Len(events) + Messages <= Room
    BY <1>0, Zenon DEF BacklogInv
  <2>8. Len(events') + Messages' <= Room'
    BY <2>4, <2>5, <2>6, <2>7, Rooms
  <2> QED BY <1>1, <1>2, <1>9, <2>8, Zenon DEF BacklogInv
<1>17. EventInv'
  <2> SUFFICES ASSUME NEW i \in 1..Len(events), events[i].count > 0
               PROVE  (~delayed => events[i].count = 1) /\ \E m \in 1..(Written + 1) : EventOf(i, m)'
    BY <1>2, <1>10, Zenon DEF EventInv
  <2>1. (~delayed => events[i].count = 1) /\ \E m \in 1..Written : EventOf(i, m)
    BY <1>0, Zenon DEF EventInv
  <2>2. PICK m \in 1..Written : EventOf(i, m)
    BY <2>1, Zenon
  <2>3. m # issued /\ m \in 1..(Written + 1)
    BY <1>3
  <2>4. Room' = Room
    BY <1>2, Zenon DEF Room, Fresh
  <2>5. EventOf(i, m)'
    BY <1>2, <2>2, <2>3, <2>4, Zenon DEF EventOf
  <2> QED BY <2>1, <2>3, <2>5, Zenon
<1>18. CommandInv'
  <2>1. completed' \in {issued', issued' - 1}
    BY <1>2, <1>3, <1>4
  <2>2. device.doorbell = PlaceHead(Written)
    BY <1>0, <1>1, <1>6, Zenon DEF CommandInv
  <2>3. Written' > 0 /\ Written' - 1 = Written
    BY <1>3, <1>10
  <2>4. device'.doorbell = PlaceHead(Written' - 1)
    BY <1>9, <2>2, <2>3, Zenon
  <2> QED BY <1>0, <1>2, <1>5, <1>9, <2>1, <2>3, <2>4, Zenon DEF CommandInv, StandsAt
<1> QED BY <1>12, <1>13, <1>14, <1>15, <1>16, <1>17, <1>18, Zenon DEF NvmeInv

-----------------------------------------------------------------------------
(* Steps of the parts beside the queue leave its state alone.                *)
LEMMA NvmeUnchanged == ASSUME NvmeInv, UNCHANGED nvmeVars PROVE NvmeInv'
<1>1. UNCHANGED <<delayed, device, cq, msi, vector, storage, path, events, cpu, issued, completed>>
  BY Zenon DEF nvmeVars
<1>2. NvmeTypeOK /\ DeviceInv /\ SlotsInv /\ ReceiverInv /\ BacklogInv /\ EventInv /\ CommandInv
  BY Zenon DEF NvmeInv
<1>3. Written' = Written /\ (Fresh => Fresh')
  BY <1>1, WrittenFrame, Zenon DEF Fresh
<1>4. NvmeTypeOK' /\ DeviceInv' /\ CommandInv'
  <2>1. NvmeTypeOK'
    BY <1>1, <1>2, Zenon DEF NvmeTypeOK
  <2>2. DeviceInv'
    BY <1>1, <1>2, <1>3, Zenon DEF DeviceInv
  <2>3. CommandInv'
    BY <1>1, <1>2, <1>3, Zenon DEF CommandInv, StandsAt
  <2> QED BY <2>1, <2>2, <2>3, Zenon
<1>5. SlotsInv' /\ ReceiverInv'
  BY <1>1, <1>2, <1>3, QueueFrame, ReceiverFrame, Zenon
<1>6. EventInv' /\ BacklogInv'
  <2>1. device'.pending = device.pending /\ (device.doorbell = device.tail => device'.doorbell = device'.tail)
    BY <1>1, Zenon
  <2>2. EventInv'
    BY <1>1, <1>2, <1>3, <2>1, EventFrame, Zenon
  <2>3. BacklogInv'
    BY <1>1, <1>2, <1>3, <2>1, BacklogFrame, Zenon
  <2> QED BY <2>2, <2>3, Zenon
<1> QED BY <1>4, <1>5, <1>6, Zenon DEF NvmeInv

(* The inductive invariant of waiting for NVMe commands                    *)
(* (wait_io_completion_interrupt, consume_io_completion and the receiver   *)
(* of NvmeIoPath), whatever the order of entries, messages, arming and     *)
(* hlt.                                                                    *)
THEOREM NvmeInvariant == NvmeSpec => []NvmeInv
<1>1. NvmeInv /\ [NvmeNext]_nvmeVars => NvmeInv'
  BY DeviceCompleteStep, MessageArrivesStep, SubmitStep, OtherWakeupStep, NvmeInterruptStep, BeginWaitStep,
     TryNextStep, ResynchronizeStep, CloseWindowStep, NvmeUnchanged, Zenon DEF NvmeNext, NvmeStep
<1> QED BY InitNvme, <1>1, PTL DEF NvmeSpec

(* A wait for an NVMe command returns only when the device has completed   *)
(* that very command, also when interrupts are late.                       *)
THEOREM ReturnsCompletedTheorem == NvmeSpec => []ReturnsCompleted
<1>1. NvmeInv => ReturnsCompleted
  BY Zenon DEF NvmeInv, CommandInv, ReturnsCompleted
<1> QED BY NvmeInvariant, <1>1, PTL

(* At most the newest entry is unacknowledged.                             *)
LEMMA Acknowledged == NvmeInv => AcknowledgedInTime
<1> SUFFICES ASSUME NvmeInv PROVE AcknowledgedInTime
  BY Zenon
<1>0. NvmeTypeOK /\ DeviceInv /\ CommandInv /\ Written \in Nat
  BY WrittenTypes, Zenon DEF NvmeInv
<1>1. QueueDepth \in Nat \ {0, 1} /\ QueueDepth \in Nat \ {0}
  BY NvmeAssumption, Zenon
<1>2. device.tail \in 0..(QueueDepth - 1) /\ device.doorbell \in 0..(QueueDepth - 1)
  BY <1>0, Zenon DEF NvmeTypeOK, QueueSlot
<1>3. CASE device.doorbell = device.tail
  <2>1. device.tail - device.doorbell = 0
    BY <1>2, <1>3
  <2>2. 0 % QueueDepth <= 1
    BY <1>1
  <2> QED BY <2>1, <2>2, Zenon DEF AcknowledgedInTime
<1>4. CASE Written > 0 /\ device.doorbell = PlaceHead(Written - 1)
  <2>1. Written - 1 \in Nat /\ 1 \in Nat /\ Written - 1 + 1 = Written
    BY <1>0, <1>4
  <2>2. device.tail = AdvanceHead(device.doorbell, 1)
    BY <1>0, <1>4, <2>1, PlaceAdvance, Zenon DEF DeviceInv
  <2>3. ASSUME NEW d \in 0..(QueueDepth - 1), NEW t \in 0..(QueueDepth - 1), t = (d + 1) % QueueDepth
        PROVE  (t - d) % QueueDepth <= 1
    <3>1. CASE d < QueueDepth - 1
      <4>1. t = d + 1
        BY <1>1, <2>3, <3>1
      <4> QED BY <1>1, <4>1
    <3>2. CASE d = QueueDepth - 1
      <4>1. t = 0
        BY <1>1, <2>3, <3>2
      <4>2. t - d = 1 - QueueDepth
        BY <1>1, <3>2, <4>1
      <4>3. (1 - QueueDepth) % QueueDepth = 1
        BY <1>1
      <4> QED BY <4>2, <4>3
    <3> QED BY <1>1, <3>1, <3>2
  <2> QED BY <1>2, <2>2, <2>3, Zenon DEF AcknowledgedInTime, AdvanceHead
<1> QED BY <1>0, <1>3, <1>4, Zenon DEF CommandInv

(* The completion queue is acknowledged in time, unwanted events do not    *)
(* pile up, and io_head stands where the device writes next as long as no  *)
(* interrupt is late.                                                      *)
THEOREM QueueInStepTheorem == NvmeSpec => []QueueInStep
<1>1. NvmeInv => HeadInStep
  <2> SUFFICES ASSUME NvmeInv, ~delayed, cpu.pc = "idle" PROVE storage.head = device.tail
    BY Zenon DEF HeadInStep
  <2>0. NvmeTypeOK /\ DeviceInv /\ CommandInv
    BY Zenon DEF NvmeInv
  <2>1. storage.head = PlaceHead(issued)
    BY <2>0, Zenon DEF CommandInv, StandsAt
  <2>2. completed = issued
    BY <2>0, Zenon DEF CommandInv
  <2>3. device.pending = 0
    <3>1. issued # issued - 1
      BY <2>0, WrittenTypes
    <3> QED BY <2>0, <2>2, <3>1, Zenon DEF CommandInv
  <2> QED BY <2>0, <2>1, <2>3, Zenon DEF DeviceInv, Written
<1>2. NvmeInv => BacklogBounded
  <2> SUFFICES ASSUME NvmeInv PROVE Len(events) <= 3
    BY Zenon DEF BacklogBounded
  <2>1. Len(events) + Messages <= Room /\ events \in Seq(CompletionInterrupt)
    BY Zenon DEF NvmeInv, BacklogInv, NvmeTypeOK
  <2>2. Len(events) \in Nat
    BY <2>1
  <2> QED BY <2>1, <2>2, Rooms, Messaging
<1>3. NvmeInv => QueueInStep
  BY <1>1, <1>2, Acknowledged, Zenon DEF NvmeInv, QueueInStep
<1> QED BY NvmeInvariant, <1>3, PTL

-----------------------------------------------------------------------------
(* Booting an image: qemu.Run.                                             *)

(* The values the steps store.                                             *)
LEMMA RunValues ==
  /\ "stage" \in RunPoints /\ "server" \in RunPoints /\ "socket" \in RunPoints /\ "start" \in RunPoints
  /\ "wait" \in RunPoints /\ "copy" \in RunPoints /\ "stop" \in RunPoints /\ "serial" \in RunPoints
  /\ "returned" \in RunPoints
  /\ "none" \in ServerStates /\ "up" \in ServerStates /\ "dead" \in ServerStates
  /\ "none" \in QemuStates /\ "up" \in QemuStates /\ "open" \in QemuStates /\ "dead" \in QemuStates
  /\ "none" \in ExitStates /\ "zero" \in ExitStates /\ "one" \in ExitStates /\ "killed" \in ExitStates
  /\ "none" \in ReaderStates /\ "opening" \in ReaderStates /\ "copying" \in ReaderStates
  /\ "done" \in ReaderStates
  /\ "none" \in SenderStates /\ "delay" \in SenderStates /\ "opening" \in SenderStates
  /\ "sent" \in SenderStates /\ "done" \in SenderStates
  /\ "live" \in ContextStates /\ "done" \in ContextStates /\ "nil" \in Results /\ "error" \in Results
  BY Zenon DEF RunPoints, ServerStates, QemuStates, ExitStates, ReaderStates, SenderStates,
               ContextStates, Results, Alive

(* Moving the first piece that is pending to the end of what is captured   *)
(* changes nothing of their concatenation.                                 *)
LEMMA MoveFirst ==
  ASSUME NEW s \in Seq(Pieces), NEW t \in Seq(Pieces), t # <<>>
  PROVE  /\ Append(s, Head(t)) \o Tail(t) = s \o t
         /\ Append(s, Head(t)) \in Seq(Pieces) /\ Tail(t) \in Seq(Pieces)
  BY SMTT(20)

(* A piece written at the end of what is pending is written at the end of  *)
(* the whole.                                                              *)
LEMMA WriteLast ==
  ASSUME NEW s \in Seq(Pieces), NEW t \in Seq(Pieces), NEW x \in Pieces
  PROVE  s \o Append(t, x) = Append(s \o t, x) /\ Append(t, x) \in Seq(Pieces)
  BY SMTT(20)

(* A channel's text is replaced.                                           *)
LEMMA TextReplaced ==
  ASSUME NEW f \in Texts, NEW c \in Channels, NEW v \in Seq(Pieces)
  PROVE  [f EXCEPT ![c] = v] \in Texts
  BY Zenon DEF Texts

(* With nothing pending, or nothing written, the capture is all there is.  *)
LEMMA NothingPending ==
  ASSUME NEW s \in Seq(Pieces), NEW t \in Seq(Pieces), t = <<>> \/ s \o t = <<>>
  PROVE  s \o t = s
<1>1. CASE t = <<>> BY <1>1, SMTT(20)
<1>2. CASE s \o t = <<>>
  <2>1. Len(s) + Len(t) = 0 BY <1>2, SMTT(20)
  <2>2. Len(s) = 0 BY <2>1, SMTT(20)
  <2>3. s = <<>> BY <2>2, SMTT(20)
  <2> QED BY <1>2, <2>3, Zenon
<1> QED BY <1>1, <1>2, Zenon

(* A return before QEMU was started.                                       *)
LEMMA ReturnEarly ==
  ASSUME RunnerInv, ReturnWith("error"), rn.pc \in {"stage", "server"} \/ (rn.pc = "start" /\ NeedsStdin)
  PROVE  RunnerInv'
<1>1. RunnerTypeOK' BY RunValues, Zenon DEF ReturnWith, RunnerInv, RunnerTypeOK, RunFields
<1>2. OutputInv' BY Zenon DEF ReturnWith, RunnerInv, RunnerTypeOK, RunFields, OutputInv
<1>3. QemuInv' /\ ReaderInv' /\ ServerInv'
    BY Zenon DEF ReturnWith, RunnerInv, RunnerTypeOK, RunFields, QemuInv, ReaderInv, ServerInv, NeedsStdin, Alive
<1>4. ErrorInv' /\ ResultIsOutcome'
    BY Zenon DEF ReturnWith, RunnerInv, RunnerTypeOK, RunFields, QemuInv, ReaderInv, ErrorInv, ResultIsOutcome, Alive
<1> QED BY <1>1, <1>2, <1>3, <1>4, Zenon DEF RunnerInv

(* The server's socket is waited for.                                      *)
LEMMA WaitSocketStep ==
  ASSUME RunnerInv, WaitForUnixSocket
  PROVE  RunnerInv'
<1>0. rn.pc = "socket" BY Zenon DEF WaitForUnixSocket
<1>1. CASE rn' = [rn EXCEPT !.pc = "start"]
  <2>1. RunnerTypeOK' BY <1>0, <1>1, RunValues, Zenon DEF RunnerInv, RunnerTypeOK, RunFields
  <2>2. OutputInv' BY <1>0, <1>1, Zenon DEF RunnerInv, RunnerTypeOK, RunFields, OutputInv
  <2>3. QemuInv' /\ ReaderInv' /\ ServerInv'
      BY <1>0, <1>1, Zenon DEF RunnerInv, RunnerTypeOK, RunFields, QemuInv, ReaderInv, ServerInv, NeedsStdin, Alive
  <2>4. ErrorInv' /\ ResultIsOutcome'
      BY <1>0, <1>1, Zenon DEF RunnerInv, RunnerTypeOK, RunFields, QemuInv, ReaderInv, ErrorInv, ResultIsOutcome, Alive
  <2> QED BY <2>1, <2>2, <2>3, <2>4, Zenon DEF RunnerInv
<1>2. CASE rn' = [rn EXCEPT !.pc = "returned", !.ctx = "done", !.err = "error", !.server = "dead"]
  <2>1. RunnerTypeOK' BY <1>0, <1>2, RunValues, Zenon DEF RunnerInv, RunnerTypeOK, RunFields
  <2>2. OutputInv' BY <1>0, <1>2, Zenon DEF RunnerInv, RunnerTypeOK, RunFields, OutputInv
  <2>3. QemuInv' /\ ReaderInv' /\ ServerInv'
      BY <1>0, <1>2, Zenon DEF RunnerInv, RunnerTypeOK, RunFields, QemuInv, ReaderInv, ServerInv, NeedsStdin, Alive
  <2>4. ErrorInv' /\ ResultIsOutcome'
      BY <1>0, <1>2, Zenon DEF RunnerInv, RunnerTypeOK, RunFields, QemuInv, ReaderInv, ErrorInv, ResultIsOutcome, Alive
  <2> QED BY <2>1, <2>2, <2>3, <2>4, Zenon DEF RunnerInv
<1> QED BY <1>1, <1>2, Zenon DEF WaitForUnixSocket

(* The image is staged.                                                    *)
LEMMA StageOn ==
  ASSUME RunnerInv, rn.pc = "stage", rn' = [rn EXCEPT !.pc = IF rn.opts.server THEN "server" ELSE "start"]
  PROVE  RunnerInv'
<1>1. RunnerTypeOK' BY RunValues, Zenon DEF RunnerInv, RunnerTypeOK, RunFields
<1>2. OutputInv' BY Zenon DEF RunnerInv, RunnerTypeOK, RunFields, OutputInv
<1>3. QemuInv' /\ ReaderInv' /\ ServerInv'
    BY Zenon DEF RunnerInv, RunnerTypeOK, RunFields, QemuInv, ReaderInv, ServerInv, NeedsStdin, Alive
<1>4. ErrorInv' /\ ResultIsOutcome'
    BY Zenon DEF RunnerInv, RunnerTypeOK, RunFields, QemuInv, ReaderInv, ErrorInv, ResultIsOutcome, Alive
<1> QED BY <1>1, <1>2, <1>3, <1>4, Zenon DEF RunnerInv

(* The server is started.                                                  *)
LEMMA ServerOn ==
  ASSUME RunnerInv, rn.pc = "server", rn' = [rn EXCEPT !.pc = "socket", !.server = "up"]
  PROVE  RunnerInv'
<1>1. RunnerTypeOK' BY RunValues, Zenon DEF RunnerInv, RunnerTypeOK, RunFields
<1>2. OutputInv' BY Zenon DEF RunnerInv, RunnerTypeOK, RunFields, OutputInv
<1>3. QemuInv' /\ ReaderInv' /\ ServerInv'
    BY Zenon DEF RunnerInv, RunnerTypeOK, RunFields, QemuInv, ReaderInv, ServerInv, NeedsStdin, Alive
<1>4. ErrorInv' /\ ResultIsOutcome'
    BY Zenon DEF RunnerInv, RunnerTypeOK, RunFields, QemuInv, ReaderInv, ErrorInv, ResultIsOutcome, Alive
<1> QED BY <1>1, <1>2, <1>3, <1>4, Zenon DEF RunnerInv

(* QEMU cannot be started.                                                 *)
LEMMA StartFails ==
  ASSUME RunnerInv, rn.pc = "start", rn' = [rn EXCEPT !.pc = "stop", !.err = "error"]
  PROVE  RunnerInv'
<1>1. RunnerTypeOK' BY RunValues, Zenon DEF RunnerInv, RunnerTypeOK, RunFields
<1>2. OutputInv' BY Zenon DEF RunnerInv, RunnerTypeOK, RunFields, OutputInv
<1>3. QemuInv' /\ ReaderInv' /\ ServerInv'
    BY Zenon DEF RunnerInv, RunnerTypeOK, RunFields, QemuInv, ReaderInv, ServerInv, NeedsStdin, Alive
<1>4. ErrorInv' /\ ResultIsOutcome'
    BY Zenon DEF RunnerInv, RunnerTypeOK, RunFields, QemuInv, ReaderInv, ErrorInv, ResultIsOutcome, Alive
<1> QED BY <1>1, <1>2, <1>3, <1>4, Zenon DEF RunnerInv

(* The fields a start of QEMU sets.                                        *)
LEMMA StartTyped ==
  ASSUME RunnerTypeOK, NEW r \in {"none", "opening"}, NEW s \in {"none", "delay"},
         rn' = [rn EXCEPT !.pc = "wait", !.qemu = "up", !.reader = r, !.sender = s]
  PROVE  RunnerTypeOK'
<1>1. r \in ReaderStates /\ s \in SenderStates BY RunValues, Zenon
<1> QED BY <1>1, RunValues, Zenon DEF RunnerTypeOK, RunFields

(* QEMU is started, with its reader and its sender.                        *)
LEMMA StartOn ==
  ASSUME RunnerInv, rn.pc = "start",
         rn' = [rn EXCEPT !.pc = "wait", !.qemu = "up",
                          !.reader = IF rn.opts.pipe THEN "opening" ELSE "none",
                          !.sender = IF rn.opts.input = "none" THEN "none" ELSE "delay"]
  PROVE  RunnerInv'
<1>1. RunnerTypeOK' BY StartTyped, Zenon DEF RunnerInv
<1>2. OutputInv' BY Zenon DEF RunnerInv, RunnerTypeOK, RunFields, OutputInv
<1>3. QemuInv' /\ ReaderInv' /\ ServerInv'
    BY Zenon DEF RunnerInv, RunnerTypeOK, RunFields, QemuInv, ReaderInv, ServerInv, NeedsStdin, Alive
<1>4. ErrorInv' /\ ResultIsOutcome'
    BY Zenon DEF RunnerInv, RunnerTypeOK, RunFields, QemuInv, ReaderInv, ErrorInv, ResultIsOutcome, Alive
<1> QED BY <1>1, <1>2, <1>3, <1>4, Zenon DEF RunnerInv

(* The process has ended.                                                  *)
LEMMA WaitProcessStep ==
  ASSUME RunnerInv, WaitProcess
  PROVE  RunnerInv'
<1>1. RunnerTypeOK' BY RunValues, Zenon DEF WaitProcess, RunnerInv, RunnerTypeOK, RunFields
<1>2. OutputInv' BY Zenon DEF WaitProcess, RunnerInv, RunnerTypeOK, RunFields, OutputInv
<1>3. QemuInv' /\ ReaderInv' /\ ServerInv'
    BY Zenon DEF WaitProcess, RunnerInv, RunnerTypeOK, RunFields, QemuInv, ReaderInv, ServerInv, NeedsStdin, Alive
<1>4. ErrorInv' /\ ResultIsOutcome'
    BY Zenon DEF WaitProcess, RunnerInv, RunnerTypeOK, RunFields, QemuInv, ReaderInv, ErrorInv, ResultIsOutcome, Alive
<1> QED BY <1>1, <1>2, <1>3, <1>4, Zenon DEF RunnerInv

(* All of the output has been copied: cmd.Wait returns.                    *)
LEMMA WaitOutputStep ==
  ASSUME RunnerInv, WaitOutput
  PROVE  RunnerInv'
<1>1. RunnerTypeOK' BY RunValues, Zenon DEF WaitOutput, RunnerInv, RunnerTypeOK, RunFields
<1>2. OutputInv' BY Zenon DEF WaitOutput, RunnerInv, RunnerTypeOK, RunFields, OutputInv
<1>3. QemuInv' /\ ReaderInv' /\ ServerInv'
    BY Zenon DEF WaitOutput, RunnerInv, RunnerTypeOK, RunFields, QemuInv, ReaderInv, ServerInv, NeedsStdin, Alive
<1>4. ErrorInv' /\ ResultIsOutcome'
    BY Zenon DEF WaitOutput, RunnerInv, RunnerTypeOK, RunFields, QemuInv, ReaderInv, ErrorInv, ResultIsOutcome, Alive
<1> QED BY <1>1, <1>2, <1>3, <1>4, Zenon DEF RunnerInv

(* The server is stopped.                                                  *)
LEMMA StopServerStep ==
  ASSUME RunnerInv, StopServer
  PROVE  RunnerInv'
<1>1. RunnerTypeOK' BY RunValues, Zenon DEF StopServer, RunnerInv, RunnerTypeOK, RunFields
<1>2. OutputInv' BY Zenon DEF StopServer, RunnerInv, RunnerTypeOK, RunFields, OutputInv
<1>3. QemuInv' /\ ReaderInv' /\ ServerInv'
    BY Zenon DEF StopServer, RunnerInv, RunnerTypeOK, RunFields, QemuInv, ReaderInv, ServerInv, NeedsStdin, Alive
<1>4. ErrorInv' /\ ResultIsOutcome'
    BY Zenon DEF StopServer, RunnerInv, RunnerTypeOK, RunFields, QemuInv, ReaderInv, ErrorInv, ResultIsOutcome, Alive
<1> QED BY <1>1, <1>2, <1>3, <1>4, Zenon DEF RunnerInv

(* The sender of the input moves on.                                       *)
LEMMA SendInputStep ==
  ASSUME RunnerInv, SendInput
  PROVE  RunnerInv'
<1>0. PICK s \in {"none", "delay", "opening", "sent", "done"} : rn' = [rn EXCEPT !.sender = s]
    BY Zenon DEF SendInput
<1>1. RunnerTypeOK' BY <1>0, RunValues, Zenon DEF RunnerInv, RunnerTypeOK, RunFields
<1>2. OutputInv' BY <1>0, Zenon DEF RunnerInv, RunnerTypeOK, RunFields, OutputInv
<1>3. QemuInv' /\ ReaderInv' /\ ServerInv'
    BY <1>0, Zenon DEF RunnerInv, RunnerTypeOK, RunFields, QemuInv, ReaderInv, ServerInv, NeedsStdin, Alive
<1>4. ErrorInv' /\ ResultIsOutcome'
    BY <1>0, Zenon DEF RunnerInv, RunnerTypeOK, RunFields, QemuInv, ReaderInv, ErrorInv, ResultIsOutcome, Alive
<1> QED BY <1>1, <1>2, <1>3, <1>4, Zenon DEF RunnerInv

(* The deadline ends the context.                                          *)
LEMMA DeadlineStep ==
  ASSUME RunnerInv, Deadline
  PROVE  RunnerInv'
<1>1. RunnerTypeOK' BY RunValues, Zenon DEF Deadline, RunnerInv, RunnerTypeOK, RunFields
<1>2. OutputInv' BY Zenon DEF Deadline, RunnerInv, RunnerTypeOK, RunFields, OutputInv
<1>3. QemuInv' /\ ReaderInv' /\ ServerInv'
    BY Zenon DEF Deadline, RunnerInv, RunnerTypeOK, RunFields, QemuInv, ReaderInv, ServerInv, NeedsStdin, Alive
<1>4. ErrorInv' /\ ResultIsOutcome'
    BY Zenon DEF Deadline, RunnerInv, RunnerTypeOK, RunFields, QemuInv, ReaderInv, ErrorInv, ResultIsOutcome, Alive
<1> QED BY <1>1, <1>2, <1>3, <1>4, Zenon DEF RunnerInv

(* The end of the context kills what is left.                              *)
LEMMA KillStep ==
  ASSUME RunnerInv, Kill
  PROVE  RunnerInv'
<1>0. rn.ctx = "done" BY Zenon DEF Kill
<1>1. CASE Unwaited
  <2>0. rn.pc = "wait" /\ rn' = [rn EXCEPT !.server = IF @ = "up" THEN "dead" ELSE @, !.qemu = "dead", !.exit = "killed"]
      BY <1>1, Zenon DEF Kill, Unwaited
  <2>1. RunnerTypeOK' BY <2>0, RunValues, Zenon DEF RunnerInv, RunnerTypeOK, RunFields
  <2>2. OutputInv' BY <2>0, Zenon DEF RunnerInv, RunnerTypeOK, RunFields, OutputInv
  <2>3. QemuInv' /\ ReaderInv' /\ ServerInv'
      BY <2>0, Zenon DEF RunnerInv, RunnerTypeOK, RunFields, QemuInv, ReaderInv, ServerInv, NeedsStdin, Alive
  <2>4. ErrorInv' /\ ResultIsOutcome'
      BY <2>0, Zenon DEF RunnerInv, RunnerTypeOK, RunFields, QemuInv, ReaderInv, ErrorInv, ResultIsOutcome, Alive
  <2> QED BY <2>1, <2>2, <2>3, <2>4, Zenon DEF RunnerInv
<1>2. CASE ~Unwaited
  <2>0. rn.server = "up" /\ rn' = [rn EXCEPT !.server = "dead", !.qemu = rn.qemu, !.exit = rn.exit]
      BY <1>2, Zenon DEF Kill
  <2>1. RunnerTypeOK' BY <2>0, RunValues, Zenon DEF RunnerInv, RunnerTypeOK, RunFields
  <2>2. OutputInv' BY <2>0, Zenon DEF RunnerInv, RunnerTypeOK, RunFields, OutputInv
  <2>3. QemuInv' /\ ReaderInv' /\ ServerInv'
      BY <2>0, Zenon DEF RunnerInv, RunnerTypeOK, RunFields, QemuInv, ReaderInv, ServerInv, NeedsStdin, Alive
  <2>4. ErrorInv' /\ ResultIsOutcome'
      BY <2>0, Zenon DEF RunnerInv, RunnerTypeOK, RunFields, QemuInv, ReaderInv, ErrorInv, ResultIsOutcome, Alive
  <2> QED BY <2>1, <2>2, <2>3, <2>4, Zenon DEF RunnerInv
<1> QED BY <1>1, <1>2, Zenon

(* QEMU opens the serial pipe.                                             *)
LEMMA OpenPipeStep ==
  ASSUME RunnerInv, OpenPipe
  PROVE  RunnerInv'
<1>1. RunnerTypeOK' BY RunValues, Zenon DEF OpenPipe, RunnerInv, RunnerTypeOK, RunFields, Alive
<1>2. OutputInv' BY Zenon DEF OpenPipe, RunnerInv, RunnerTypeOK, RunFields, OutputInv
<1>3. QemuInv' /\ ReaderInv' /\ ServerInv'
    BY Zenon DEF OpenPipe, RunnerInv, RunnerTypeOK, RunFields, QemuInv, ReaderInv, ServerInv, NeedsStdin, Alive
<1>4. ErrorInv' /\ ResultIsOutcome'
    BY Zenon DEF OpenPipe, RunnerInv, RunnerTypeOK, RunFields, QemuInv, ReaderInv, ErrorInv, ResultIsOutcome, Alive
<1> QED BY <1>1, <1>2, <1>3, <1>4, Zenon DEF RunnerInv

(* QEMU ends by itself.                                                    *)
LEMMA ExitStep ==
  ASSUME RunnerInv, NEW code \in {"zero", "one"}, Exit(code)
  PROVE  RunnerInv'
<1>0. code \in {"none", "zero", "one", "killed"} BY Zenon
<1>1. RunnerTypeOK' BY <1>0, RunValues, Zenon DEF Exit, RunnerInv, RunnerTypeOK, RunFields
<1>2. OutputInv' BY Zenon DEF Exit, RunnerInv, RunnerTypeOK, RunFields, OutputInv
<1>3. QemuInv' /\ ReaderInv' /\ ServerInv'
    BY Zenon DEF Exit, RunnerInv, RunnerTypeOK, RunFields, QemuInv, ReaderInv, ServerInv, NeedsStdin, Alive
<1>4. ErrorInv' /\ ResultIsOutcome'
    BY Zenon DEF Exit, RunnerInv, RunnerTypeOK, RunFields, QemuInv, ReaderInv, ErrorInv, ResultIsOutcome, Alive
<1> QED BY <1>1, <1>2, <1>3, <1>4, Zenon DEF RunnerInv

(* A piece moves from what is pending into a capture.                      *)
LEMMA WriteStep ==
  ASSUME RunnerInv, NEW c \in Channels, rn.pending[c] # <<>>, rn' = Write(c),
         c = "serial" => rn.reader = "copying"
  PROVE  RunnerInv'
<1> DEFINE text == Append(rn.captured[c], Head(rn.pending[c]))
           rest == Tail(rn.pending[c])
<1>0. /\ rn.captured \in Texts /\ rn.pending \in Texts
      /\ rn.ctx \in ContextStates
    BY Zenon DEF RunnerInv, RunnerTypeOK, RunFields
<1>1. rn.captured[c] \in Seq(Pieces) /\ rn.pending[c] \in Seq(Pieces)
    BY <1>0, Zenon DEF Texts
<1>2. /\ text \o rest = rn.captured[c] \o rn.pending[c]
      /\ text \in Seq(Pieces) /\ rest \in Seq(Pieces)
    BY <1>1, MoveFirst, Zenon
<1>3. PICK d \in ContextStates :
        /\ rn' = [rn EXCEPT !.captured[c] = text, !.pending[c] = rest, !.ctx = d]
        /\ rn.ctx = "done" => d = "done"
    BY <1>0, RunValues, Zenon DEF Write
<1> HIDE DEF text, rest
<1>4. /\ rn'.captured = [rn.captured EXCEPT ![c] = text] /\ rn'.pending = [rn.pending EXCEPT ![c] = rest]
      /\ rn'.opts = rn.opts /\ rn'.wrote = rn.wrote /\ rn'.pc = rn.pc /\ rn'.qemu = rn.qemu /\ rn'.ctx = d
      /\ rn'.reader = rn.reader /\ rn'.server = rn.server /\ rn'.err = rn.err /\ rn'.exit = rn.exit
    BY <1>3, SMT DEF RunnerInv, RunnerTypeOK, RunFields
<1>5. /\ rn'.captured \in Texts /\ rn'.pending \in Texts
  <2>1. [rn.captured EXCEPT ![c] = text] \in Texts BY <1>0, <1>2, TextReplaced, Zenon
  <2>2. [rn.pending EXCEPT ![c] = rest] \in Texts BY <1>0, <1>2, TextReplaced, Zenon
  <2> QED BY <1>4, <2>1, <2>2, Zenon
<1>6. RunnerTypeOK' BY <1>3, <1>4, <1>5, RunValues, Zenon DEF RunnerInv, RunnerTypeOK, RunFields
<1>7. ASSUME NEW e \in Channels
      PROVE  rn'.captured[e] \o rn'.pending[e] = rn'.wrote[e]
  <2>1. rn.captured[e] \o rn.pending[e] = rn.wrote[e] BY Zenon DEF RunnerInv, OutputInv
  <2>2. CASE e = c BY <1>0, <1>2, <1>4, <2>1, <2>2, Zenon DEF Texts
  <2>3. CASE e # c BY <1>0, <1>4, <2>1, <2>3, Zenon DEF Texts
  <2> QED BY <2>2, <2>3, Zenon
<1>8. OutputInv' BY <1>4, <1>7, Zenon DEF RunnerInv, OutputInv
<1>9. QemuInv' /\ ReaderInv'
    BY <1>0, <1>4, Zenon DEF RunnerInv, QemuInv, ReaderInv, Channels, Texts
<1>10. ServerInv'
    BY <1>3, <1>4, Zenon DEF RunnerInv, ServerInv, NeedsStdin
<1>11. ErrorInv' /\ ResultIsOutcome'
    BY <1>0, <1>4, Zenon DEF RunnerInv, ErrorInv, ResultIsOutcome, Channels, Texts
<1> QED BY <1>6, <1>8, <1>9, <1>10, <1>11, Zenon DEF RunnerInv

(* QEMU writes a piece.                                                    *)
LEMMA OutputStep ==
  ASSUME RunnerInv, NEW c \in Channels, NEW t \in Pieces, Output(c, t)
  PROVE  RunnerInv'
<1> DEFINE all == Append(rn.wrote[c], t)
           rest == Append(rn.pending[c], t)
<1>0. rn.wrote \in Texts /\ rn.pending \in Texts
    BY Zenon DEF RunnerInv, RunnerTypeOK, RunFields
<1>1. /\ rn.captured[c] \in Seq(Pieces) /\ rn.pending[c] \in Seq(Pieces) /\ rn.wrote[c] \in Seq(Pieces)
      /\ rn.captured[c] \o rn.pending[c] = rn.wrote[c]
    BY Zenon DEF RunnerInv, RunnerTypeOK, RunFields, Texts, OutputInv
<1>2. rn.captured[c] \o rest = all /\ rest \in Seq(Pieces) /\ all \in Seq(Pieces)
  <2>1. rest \in Seq(Pieces) /\ rn.captured[c] \o rest = Append(rn.captured[c] \o rn.pending[c], t)
      BY <1>1, WriteLast, Zenon
  <2>2. all \in Seq(Pieces) BY <1>1, WriteLast, Zenon
  <2> QED BY <1>1, <2>1, <2>2, Zenon
<1>3. rn' = [rn EXCEPT !.wrote[c] = all, !.pending[c] = rest]
    BY Zenon DEF Output
<1>4. rn.qemu \in Alive /\ (c = "serial" => rn.qemu = "open")
    BY Zenon DEF Output, Alive
<1> HIDE DEF all, rest
<1>5. /\ rn'.wrote = [rn.wrote EXCEPT ![c] = all] /\ rn'.pending = [rn.pending EXCEPT ![c] = rest]
      /\ rn'.opts = rn.opts /\ rn'.captured = rn.captured /\ rn'.pc = rn.pc /\ rn'.qemu = rn.qemu /\ rn'.ctx = rn.ctx
      /\ rn'.reader = rn.reader /\ rn'.server = rn.server /\ rn'.err = rn.err /\ rn'.exit = rn.exit
    BY <1>3, SMT DEF RunnerInv, RunnerTypeOK, RunFields
<1>6. /\ rn'.wrote \in Texts /\ rn'.pending \in Texts
  <2>1. [rn.wrote EXCEPT ![c] = all] \in Texts BY <1>0, <1>2, TextReplaced, Zenon
  <2>2. [rn.pending EXCEPT ![c] = rest] \in Texts BY <1>0, <1>2, TextReplaced, Zenon
  <2> QED BY <1>5, <2>1, <2>2, Zenon
<1>7. RunnerTypeOK' BY <1>3, <1>5, <1>6, RunValues, Zenon DEF RunnerInv, RunnerTypeOK, RunFields
<1>8. OutputInv'
  <2>1. ASSUME NEW e \in Channels
        PROVE  rn'.captured[e] \o rn'.pending[e] = rn'.wrote[e]
    <3>1. rn.captured[e] \o rn.pending[e] = rn.wrote[e] BY Zenon DEF RunnerInv, OutputInv
    <3>2. CASE e = c BY <1>0, <1>2, <1>5, <3>1, <3>2, Zenon DEF Texts
    <3>3. CASE e # c BY <1>0, <1>5, <3>1, <3>3, Zenon DEF Texts
    <3> QED BY <3>2, <3>3, Zenon
  <2>2. ~rn'.opts.pipe => rn'.wrote["serial"] = <<>>
      BY <1>0, <1>4, <1>5, Zenon DEF RunnerInv, OutputInv, QemuInv, Channels, Texts
  <2> QED BY <2>1, <2>2, Zenon DEF OutputInv
<1>9. QemuInv' /\ ReaderInv' /\ ServerInv'
    BY <1>4, <1>5, Zenon DEF RunnerInv, QemuInv, ReaderInv, ServerInv, NeedsStdin, Alive
<1>10. ErrorInv' /\ ResultIsOutcome'
    BY <1>4, <1>5, Zenon DEF RunnerInv, QemuInv, ErrorInv, ResultIsOutcome, Alive
<1> QED BY <1>7, <1>8, <1>9, <1>10, Zenon DEF RunnerInv

(* The caller returns: all of both outputs is in the captures.             *)
LEMMA FinishStep ==
  ASSUME RunnerInv, Finish
  PROVE  RunnerInv'
<1>0. /\ rn.pc = "serial" /\ rn.reader \in {"none", "done"}
      /\ rn' = [rn EXCEPT !.pc = "returned", !.ctx = "done", !.err = Result]
    BY Zenon DEF Finish, ReturnWith
<1>1. Result \in Results
    BY RunValues, Zenon DEF Result, RunnerInv, RunnerTypeOK, RunFields
<1>2. RunnerTypeOK' BY <1>0, <1>1, RunValues, Zenon DEF RunnerInv, RunnerTypeOK, RunFields
<1>3. OutputInv' BY <1>0, Zenon DEF RunnerInv, RunnerTypeOK, RunFields, OutputInv
<1>4. QemuInv' /\ ReaderInv' /\ ServerInv' /\ ErrorInv'
    BY <1>0, Zenon DEF RunnerInv, RunnerTypeOK, RunFields, QemuInv, ReaderInv, ServerInv, ErrorInv, Alive
<1>5. ASSUME rn.qemu # "none"
      PROVE  Result = "nil" <=> \/ rn.opts.want /\ Found(rn.wrote["out"] \o rn.wrote["serial"])
                                \/ rn.exit = "zero"
  <2>1. /\ rn.captured["out"] \in Seq(Pieces) /\ rn.pending["out"] \in Seq(Pieces)
        /\ rn.captured["serial"] \in Seq(Pieces) /\ rn.pending["serial"] \in Seq(Pieces)
      BY Zenon DEF RunnerInv, RunnerTypeOK, RunFields, Texts, Channels
  <2>2. /\ rn.captured["out"] \o rn.pending["out"] = rn.wrote["out"]
        /\ rn.captured["serial"] \o rn.pending["serial"] = rn.wrote["serial"]
      BY Zenon DEF RunnerInv, OutputInv, Channels
  <2>3. rn.pending["out"] = <<>> /\ (rn.err = "nil" <=> rn.exit = "zero")
      BY <1>0, <1>5, Zenon DEF RunnerInv, ErrorInv
  <2>4. rn.pending["serial"] = <<>> \/ rn.captured["serial"] \o rn.pending["serial"] = <<>>
      BY <1>0, <1>5, <2>2, Zenon DEF RunnerInv, ReaderInv, OutputInv
  <2>5. rn.captured["out"] = rn.wrote["out"] BY <2>1, <2>2, <2>3, NothingPending, Zenon
  <2>6. rn.captured["serial"] = rn.wrote["serial"] BY <2>1, <2>2, <2>4, NothingPending, Zenon
  <2>7. Text = rn.wrote["out"] \o rn.wrote["serial"] BY <2>5, <2>6, Zenon DEF Text
  <2> QED BY <2>3, <2>7, Zenon DEF Result
<1>6. ResultIsOutcome'
  <2>1. rn'.pc = "returned" /\ rn'.qemu = rn.qemu /\ rn'.err = Result /\ rn'.opts = rn.opts /\ rn'.wrote = rn.wrote /\ rn'.exit = rn.exit
      BY <1>0, Zenon DEF RunnerInv, RunnerTypeOK, RunFields
  <2> QED BY <1>5, <2>1, Zenon DEF ResultIsOutcome
<1> QED BY <1>2, <1>3, <1>4, <1>6, Zenon DEF RunnerInv

(* The reader opens its end of the pipe, or sees the last writer gone.     *)
LEMMA ReaderMoves ==
  ASSUME RunnerInv, NEW r \in {"copying", "done"}, rn' = [rn EXCEPT !.reader = r], rn.reader # "none",
         r = "done" => rn.pending["serial"] = <<>> /\ rn.qemu = "dead"
  PROVE  RunnerInv'
<1>1. rn'.reader = r /\ rn'.opts = rn.opts /\ rn'.pc = rn.pc /\ rn'.ctx = rn.ctx /\ rn'.err = rn.err /\ rn'.server = rn.server
      /\ rn'.qemu = rn.qemu /\ rn'.exit = rn.exit /\ rn'.wrote = rn.wrote /\ rn'.pending = rn.pending /\ rn'.captured = rn.captured
    BY Zenon DEF RunnerInv, RunnerTypeOK, RunFields
<1>2. r \in ReaderStates BY RunValues, Zenon
<1>3. RunnerTypeOK' BY <1>2, RunValues, Zenon DEF RunnerInv, RunnerTypeOK, RunFields
<1>4. OutputInv' BY <1>1, Zenon DEF RunnerInv, OutputInv
<1>5. QemuInv' /\ ReaderInv' /\ ServerInv'
    BY <1>1, Zenon DEF RunnerInv, QemuInv, ReaderInv, ServerInv, NeedsStdin
<1>6. ErrorInv' /\ ResultIsOutcome' BY <1>1, Zenon DEF RunnerInv, ErrorInv, ResultIsOutcome
<1> QED BY <1>3, <1>4, <1>5, <1>6, Zenon DEF RunnerInv

(* Every step of a boot preserves the invariant.                           *)
LEMMA RunnerStep ==
  ASSUME RunnerInv, RunnerNext
  PROVE  RunnerInv'
<1>1. CASE Stage
    BY <1>1, ReturnEarly, StageOn, Zenon DEF Stage
<1>2. CASE StartServer
    BY <1>2, ReturnEarly, ServerOn, Zenon DEF StartServer
<1>3. CASE StartQemu
    BY <1>3, ReturnEarly, StartFails, StartOn, Zenon DEF StartQemu
<1>4. CASE WaitForUnixSocket \/ WaitProcess \/ WaitOutput \/ StopServer \/ Finish
    BY <1>4, WaitSocketStep, WaitProcessStep, WaitOutputStep, StopServerStep, FinishStep, Zenon
<1>5. CASE CopyOutput
    BY <1>5, WriteStep, Zenon DEF CopyOutput, Channels
<1>6. CASE ReadSerial
  <2>1. CASE rn.reader = "copying" /\ rn.pending["serial"] # <<>> /\ rn' = Write("serial")
      BY <2>1, WriteStep, Zenon DEF Channels
  <2>2. CASE rn.reader = "opening" /\ rn' = [rn EXCEPT !.reader = "copying"]
      BY <2>2, ReaderMoves, Zenon
  <2>3. CASE /\ rn.reader = "copying" /\ rn.pending["serial"] = <<>> /\ rn.qemu = "dead"
             /\ rn' = [rn EXCEPT !.reader = "done"]
      BY <2>3, ReaderMoves, Zenon
  <2> QED BY <1>6, <2>1, <2>2, <2>3, Zenon DEF ReadSerial
<1>7. CASE SendInput \/ Deadline \/ Kill
    BY <1>7, SendInputStep, DeadlineStep, KillStep, Zenon
<1>8. CASE Qemu
    BY <1>8, OpenPipeStep, OutputStep, ExitStep, Zenon DEF Qemu
<1> QED BY <1>1, <1>2, <1>3, <1>4, <1>5, <1>6, <1>7, <1>8, Zenon DEF RunnerNext, Caller

(* Of qemu.Run, for every number of pieces QEMU writes and every set of    *)
(* options: the output is lost nowhere, the processes and the goroutines   *)
(* are where the place of the caller says, and the result is the outcome.  *)
THEOREM RunnerInvariant == RunnerSpec => []RunnerInv
<1>1. RunnerInit => RunnerInv
  <2> SUFFICES ASSUME RunnerInit PROVE RunnerInv
      BY Zenon
  <2>1. PICK o \in BootOptions :
          rn = [opts |-> o, pc |-> "stage", ctx |-> "live", err |-> "nil", server |-> "none",
                qemu |-> "none", exit |-> "none", reader |-> "none", sender |-> "none",
                wrote |-> NoText, pending |-> NoText, captured |-> NoText]
      BY Zenon DEF RunnerInit
  <2>2. <<>> \in Seq(Pieces) OBVIOUS
  <2>3. NoText \in Texts BY <2>2, Zenon DEF NoText, Texts
  <2>4. RunnerTypeOK BY <2>1, <2>3, RunValues, Zenon DEF RunnerTypeOK, RunFields
  <2>5. /\ rn.captured = NoText /\ rn.pending = NoText /\ rn.wrote = NoText /\ rn.pc = "stage"
        /\ rn.qemu = "none" /\ rn.reader = "none" /\ rn.server = "none"
      BY <2>1, Zenon
  <2>6. <<>> \o <<>> = <<>> OBVIOUS
  <2>7. OutputInv BY <2>5, <2>6, Zenon DEF OutputInv, NoText, Channels
  <2>8. QemuInv /\ ReaderInv /\ ServerInv /\ ErrorInv /\ ResultIsOutcome
      BY <2>5, Zenon DEF QemuInv, ReaderInv, ServerInv, ErrorInv, ResultIsOutcome
  <2> QED BY <2>4, <2>7, <2>8, Zenon DEF RunnerInv
<1>2. RunnerInv /\ [RunnerNext]_rn => RunnerInv'
  <2> SUFFICES ASSUME RunnerInv, [RunnerNext]_rn PROVE RunnerInv'
      BY Zenon
  <2>1. CASE RunnerNext BY <2>1, RunnerStep, Zenon
  <2>2. CASE UNCHANGED rn
      BY <2>2, Zenon DEF RunnerInv, RunnerTypeOK, OutputInv, QemuInv, ReaderInv, ServerInv, NeedsStdin, ErrorInv, ResultIsOutcome
  <2> QED BY <2>1, <2>2, Zenon
<1> QED BY <1>1, <1>2, PTL DEF RunnerSpec

(* The result of a boot is what QEMU did, and no process is left running,  *)
(* in every order of output, exit, deadline and kill (ResultTellsOutcome). *)
THEOREM ResultTellsOutcomeTheorem == RunnerSpec => []ResultTellsOutcome
<1>1. RunnerInv => ResultTellsOutcome
    BY Zenon DEF RunnerInv, QemuInv, ServerInv, ResultTellsOutcome, NothingLeftRunning
<1> QED BY <1>1, RunnerInvariant, PTL

-----------------------------------------------------------------------------
(* Leaving the firmware.                                                   *)

USE BootAssumption

BootFields == {"pc", "call", "want", "offset", "base", "length", "key", "size", "services", "finalKey", "finalSize", "paged"}
BootType ==
  /\ DOMAIN bt = BootFields
  /\ bt.want \in Nat /\ bt.offset \in Nat /\ bt.base \in Nat /\ bt.length \in Nat /\ bt.key \in Nat /\ bt.size \in Nat
  /\ bt.finalKey \in Int /\ bt.finalSize \in Nat /\ bt.paged \in Int

(* What holds while the map is fetched and the exit is tried: a fetched    *)
(* map is the current one or has an older key, and fits its buffer; behind *)
(* the exit nothing changes any more.                                      *)
BootInv ==
  /\ BootType
  /\ bt.offset <= ArenaLength /\ bt.base + bt.length <= ArenaLength
  /\ bt.finalKey <= bt.key
  /\ bt.pc = "exit" => bt.finalSize <= bt.length /\ (bt.finalKey = bt.key => bt.finalSize = bt.size)
  /\ bt.services \in {"on", "off"} /\ (bt.services = "off" <=> bt.pc \in {"own", "owned"})
  /\ bt.services = "off" => bt.finalKey = bt.key /\ bt.finalSize = bt.size /\ bt.finalSize <= bt.length
  /\ bt.paged # -1 => bt.services = "off" /\ bt.paged = bt.finalKey

(* The initial states of the transition satisfy BootInv.                   *)
LEMMA BootInitially ==
  ASSUME BootInit
  PROVE  BootInv
BY DEF BootInit, BootInv, BootType, BootFields

(* Every step of the image and of the firmware keeps BootInv.              *)
LEMMA BootStep ==
  ASSUME BootInv, [BootNext]_bt
  PROVE  BootInv'
<1>1. CASE ChangeMap
  BY <1>1 DEF ChangeMap, BootInv, BootType, BootFields
<1>2. CASE AllocateBuffer
  BY <1>2 DEF AllocateBuffer, BootInv, BootType, BootFields
<1>3. CASE GetMemoryMap
  BY <1>3 DEF GetMemoryMap, MapStatus, BufferTooSmall, Success, BootInv, BootType, BootFields
<1>4. CASE ExitBootServices
  BY <1>4, Zenon DEF ExitBootServices, ExitStatus, InvalidParameter, Success, BootInv, BootType, BootFields
<1>5. CASE OwnHardware
  BY <1>5, Zenon DEF OwnHardware, BootInv, BootType, BootFields
<1>6. CASE UNCHANGED bt
  BY <1>6, Zenon DEF BootInv, BootType, BootFields
<1> QED BY <1>1, <1>2, <1>3, <1>4, <1>5, <1>6, Zenon DEF BootNext, BootProgress

(* The image owns the hardware only with the map the firmware was left     *)
(* with, complete and inside the arena.                                    *)
THEOREM BootOwnsFinalMap ==
  BootSpec => []OwnedWithFinalMap
<1>1. BootInit => BootInv BY BootInitially, Zenon
<1>2. BootInv /\ [BootNext]_bt => BootInv' BY BootStep, Zenon
<1>3. BootInv => OwnedWithFinalMap BY Zenon DEF BootInv, BootType, OwnedWithFinalMap
<1> QED BY <1>1, <1>2, <1>3, PTL DEF BootSpec

HIDE BootAssumption
-----------------------------------------------------------------------------
(* Starting the vCPUs.                                                     *)

USE APStartupAssumption

(* The initial state satisfies the invariant.                                *)
LEMMA StartupInitially == StartupInit => StartupInv
<1> SUFFICES ASSUME StartupInit PROVE StartupInv
  BY Zenon
<1>1. StartupTypeOK
  BY DEF StartupInit, StartupTypeOK, HandoffSlot, Ap, Vcpu, ApLabel, BspRecord
<1>2. SlotsPatched
  BY Zenon DEF StartupInit, SlotsPatched, Sent
<1>3. ASSUME NEW v \in Ap PROVE IpisOrdered(v) /\ Loaded(v) /\ Ordered(v)
  BY <1>3 DEF StartupInit, IpisOrdered, Loaded, Ordered, Addressed, Signalled, Sent, Ap
<1> QED
  BY <1>1, <1>2, <1>3, Zenon DEF StartupInv

(* The vCPUs other than the bootstrap vCPU are vCPUs.                        *)
LEMMA ApVcpu == (\A v \in Ap : v \in Vcpu /\ v # 0) /\ 0 \in Vcpu
BY DEF Ap, Vcpu

(* Moving the bootstrap vCPU to another label changes its label only.        *)
LEMMA BspLabel ==
  ASSUME bsp \in BspRecord,
         NEW p \in HandoffSlot \cup {"prepare", "command", "init", "sipi", "sipi_again",
                              "poll", "trap", "enter", "run"},
         bsp' = [bsp EXCEPT !.pc = p]
  PROVE  bsp' \in BspRecord /\ bsp'.pc = p /\ bsp'.v = bsp.v
BY Zenon DEF BspRecord

(* The same when the poll count changes with the label.                      *)
LEMMA BspLabelPolls ==
  ASSUME bsp \in BspRecord,
         NEW p \in HandoffSlot \cup {"prepare", "command", "init", "sipi", "sipi_again",
                              "poll", "trap", "enter", "run"},
         NEW n \in 0 .. PollLimit,
         bsp' = [bsp EXCEPT !.pc = p, !.polls = n]
  PROVE  bsp' \in BspRecord /\ bsp'.pc = p /\ bsp'.v = bsp.v
BY Zenon DEF BspRecord

(* Resetting the ready word: v has not been addressed yet.                   *)
LEMMA PrepareStep ==
  ASSUME StartupInv, Prepare
  PROVE  StartupInv'
<1>1. /\ bsp \in BspRecord /\ bsp.v \in Ap /\ ready \in [Ap -> {0, 1}]
      /\ bsp.pc = "prepare"
  BY Zenon DEF StartupInv, StartupTypeOK, BspRecord, Prepare, BspGoto
<1>2. bsp' \in BspRecord /\ bsp'.pc = "entry" /\ bsp'.v = bsp.v
  BY <1>1, BspLabel, Zenon DEF Prepare, BspGoto, HandoffSlot
<1>3. StartupTypeOK'
  BY <1>1, <1>2, Zenon DEF StartupInv, StartupTypeOK, Prepare
<1>4. SlotsPatched'
  BY <1>1, <1>2, Zenon DEF SlotsPatched, Sent
<1>5. ASSUME NEW v \in Ap PROVE (IpisOrdered(v) /\ Loaded(v) /\ Ordered(v))'
  BY <1>1, <1>2, <1>5
     DEF StartupInv, IpisOrdered, Loaded, Ordered, Addressed, Signalled, Sent, Prepare
<1> QED
  BY <1>3, <1>4, <1>5, Zenon DEF StartupInv

(* Patching a slot: of the vCPUs that still load one, there is none.         *)
LEMMA PatchStep ==
  ASSUME StartupInv, Patch
  PROVE  StartupInv'
<1>1. /\ bsp \in BspRecord /\ bsp.v \in Ap /\ tramp \in [HandoffSlot -> Vcpu]
      /\ bsp.pc \in HandoffSlot
  BY Zenon DEF StartupInv, StartupTypeOK, BspRecord, Patch
<1>2. AfterPatch[bsp.pc] \in {"stack", "context", "ready", "command"}
  BY <1>1 DEF AfterPatch, HandoffSlot
<1>3. /\ bsp' \in BspRecord /\ bsp'.pc = AfterPatch[bsp.pc] /\ bsp'.v = bsp.v
  BY <1>1, <1>2, BspLabel, Zenon DEF Patch, BspGoto, HandoffSlot
<1>4. StartupTypeOK'
  <2>1. bsp.v \in Vcpu
    BY <1>1, ApVcpu, Zenon
  <2>2. tramp' \in [HandoffSlot -> Vcpu]
    BY <1>1, <2>1, Zenon DEF Patch
  <2> QED
    BY <1>3, <2>2, Zenon DEF StartupInv, StartupTypeOK, Patch
<1>5. SlotsPatched'
  <2>1. tramp' = [tramp EXCEPT ![bsp.pc] = bsp.v]
    BY Zenon DEF Patch
  <2>2. CASE bsp.pc = "entry"
    BY <1>1, <1>3, <2>1, <2>2 DEF SlotsPatched, Sent, HandoffSlot, AfterPatch
  <2>3. CASE bsp.pc = "stack"
    BY <1>1, <1>3, <2>1, <2>3 DEF StartupInv, SlotsPatched, Sent, HandoffSlot, AfterPatch
  <2>4. CASE bsp.pc = "context"
    BY <1>1, <1>3, <2>1, <2>4 DEF StartupInv, SlotsPatched, Sent, HandoffSlot, AfterPatch
  <2>5. CASE bsp.pc = "ready"
    BY <1>1, <1>3, <2>1, <2>5, Zenon DEF StartupInv, SlotsPatched, Sent, HandoffSlot, AfterPatch
  <2> QED
    BY <1>1, <2>2, <2>3, <2>4, <2>5, Zenon DEF HandoffSlot
<1>6. ASSUME NEW v \in Ap PROVE (IpisOrdered(v) /\ Loaded(v) /\ Ordered(v))'
  BY <1>1, <1>2, <1>3, <1>6
     DEF StartupInv, IpisOrdered, Loaded, Ordered, Addressed, Signalled, Sent, Patch, HandoffSlot
<1> QED
  BY <1>4, <1>5, <1>6, Zenon DEF StartupInv

(* Recording the destination of wakes.                                       *)
LEMMA StoreApicIdStep ==
  ASSUME StartupInv, StoreApicId
  PROVE  StartupInv'
<1>1. /\ bsp \in BspRecord /\ bsp.v \in Ap /\ command \in [Vcpu -> Vcpu]
      /\ bsp.pc = "command"
  BY Zenon DEF StartupInv, StartupTypeOK, BspRecord, StoreApicId, BspGoto
<1>2. bsp' \in BspRecord /\ bsp'.pc = "init" /\ bsp'.v = bsp.v
  BY <1>1, BspLabel, Zenon DEF StoreApicId, BspGoto, HandoffSlot
<1>3. command' \in [Vcpu -> Vcpu] /\ command'[bsp.v] = bsp.v
      /\ \A v \in Ap : v # bsp.v => command'[v] = command[v]
  BY <1>1, ApVcpu, Zenon DEF StoreApicId
<1>4. StartupTypeOK'
  BY <1>2, <1>3, Zenon DEF StartupInv, StartupTypeOK, StoreApicId
<1>5. SlotsPatched'
  BY <1>1, <1>2, Zenon DEF StartupInv, SlotsPatched, Sent, StoreApicId
<1>6. ASSUME NEW v \in Ap PROVE (IpisOrdered(v) /\ Loaded(v) /\ Ordered(v))'
  BY <1>1, <1>2, <1>3, <1>6
     DEF StartupInv, IpisOrdered, Loaded, Ordered, Addressed, Signalled, Sent, StoreApicId
<1> QED
  BY <1>4, <1>5, <1>6, Zenon DEF StartupInv

(* Entering the bootstrap executor.                                          *)
LEMMA EnterStep ==
  ASSUME StartupInv, Enter
  PROVE  StartupInv'
<1>1. /\ bsp \in BspRecord /\ bsp.v \in Ap /\ command \in [Vcpu -> Vcpu]
      /\ bsp.pc = "enter"
  BY Zenon DEF StartupInv, StartupTypeOK, BspRecord, Enter, BspGoto
<1>2. bsp' \in BspRecord /\ bsp'.pc = "run" /\ bsp'.v = bsp.v
  BY <1>1, BspLabel, Zenon DEF Enter, BspGoto, HandoffSlot
<1>3. command' \in [Vcpu -> Vcpu] /\ \A v \in Ap : command'[v] = command[v]
  BY <1>1, ApVcpu, Zenon DEF Enter
<1>4. StartupTypeOK'
  BY <1>2, <1>3, Zenon DEF StartupInv, StartupTypeOK, Enter
<1>5. SlotsPatched'
  BY <1>1, <1>2, Zenon DEF StartupInv, SlotsPatched, Sent, Enter
<1>6. ASSUME NEW v \in Ap PROVE (IpisOrdered(v) /\ Loaded(v) /\ Ordered(v))'
  BY <1>1, <1>2, <1>3, <1>6
     DEF StartupInv, IpisOrdered, Loaded, Ordered, Addressed, Signalled, Sent, Enter
<1> QED
  BY <1>4, <1>5, <1>6, Zenon DEF StartupInv

(* Sending INIT, when nothing is on its way to v and it is off, and SIPI.    *)
LEMMA SendIpiStep ==
  ASSUME StartupInv, SendIpi
  PROVE  StartupInv'
<1> DEFINE kind == IF bsp.pc = "init" THEN "init" ELSE "sipi"
<1>1. /\ bsp \in BspRecord /\ bsp.v \in Ap /\ ipi \in [Ap -> Seq({"init", "sipi"})]
      /\ bsp.pc \in {"init", "sipi", "sipi_again"} /\ kind \in {"init", "sipi"}
  BY Zenon DEF StartupInv, StartupTypeOK, BspRecord, SendIpi, AfterSend
<1>2. AfterSend[bsp.pc] \in {"sipi", "sipi_again", "poll"}
  BY <1>1 DEF AfterSend
<1>3. /\ bsp' \in BspRecord /\ bsp'.pc = AfterSend[bsp.pc] /\ bsp'.v = bsp.v
  <2>1. PollLimit \in 0 .. PollLimit
    OBVIOUS
  <2> QED
    BY <1>1, <1>2, <2>1, BspLabelPolls, Zenon DEF SendIpi
<1>4. /\ ipi' = [ipi EXCEPT ![bsp.v] = Append(@, kind)]
      /\ UNCHANGED <<tramp, ready, command, ap, loaded>>
  BY Zenon DEF SendIpi
<1>5. ipi[bsp.v] \in Seq({"init", "sipi"})
  BY <1>1, Zenon
<1>6. Append(ipi[bsp.v], kind) \in Seq({"init", "sipi"})
  BY <1>1, <1>5
<1>7. StartupTypeOK'
  BY <1>1, <1>3, <1>4, <1>6, Zenon DEF StartupInv, StartupTypeOK
<1>8. SlotsPatched'
  BY <1>1, <1>2, <1>3, <1>4, Zenon DEF StartupInv, SlotsPatched, Sent, HandoffSlot
<1>9. ASSUME NEW v \in Ap PROVE IpisOrdered(v)'
  <2>1. CASE v # bsp.v
    BY <1>1, <1>2, <1>3, <1>4, <1>9, <2>1, Zenon DEF StartupInv, IpisOrdered, Addressed, Sent
  <2>2. CASE v = bsp.v /\ bsp.pc = "init"
    <3>1. ap[v] = "off" /\ ipi[v] = << >>
      BY <1>1, <1>9, <2>2 DEF StartupInv, IpisOrdered, Addressed, Sent, Ap
    <3>2. ipi'[v] = <<"init">>
      BY <1>1, <1>4, <2>2, <3>1
    <3>3. Addressed(v)'
      BY <1>2, <1>3, <2>2, Zenon DEF Addressed, Sent
    <3> QED
      BY <1>4, <3>1, <3>2, <3>3 DEF IpisOrdered
  <2>3. CASE v = bsp.v /\ bsp.pc # "init"
    <3>1. ipi'[v] = Append(ipi[v], "sipi")
      BY <1>1, <1>4, <2>3, Zenon
    <3>2. \A i \in 1 .. Len(ipi'[v]) :
            ipi'[v][i] = "init" => i \in 1 .. Len(ipi[v]) /\ ipi[v][i] = "init"
      BY <1>5, <2>3, <3>1
    <3>3. Addressed(v)'
      BY <1>2, <1>3, <2>3, Zenon DEF Addressed, Sent
    <3> QED
      BY <1>4, <1>9, <3>2, <3>3, Zenon DEF StartupInv, IpisOrdered
  <2> QED
    BY <2>1, <2>2, <2>3, Zenon
<1>10. ASSUME NEW v \in Ap PROVE (Loaded(v) /\ Ordered(v))'
  BY <1>1, <1>2, <1>3, <1>4, <1>10
     DEF StartupInv, Loaded, Ordered, Addressed, Signalled, Sent
<1> QED
  BY <1>7, <1>8, <1>9, <1>10, Zenon DEF StartupInv

(* Polling: the bootstrap vCPU moves on once v has signalled.                *)
LEMMA PollReadyStep ==
  ASSUME StartupInv, PollReady
  PROVE  StartupInv'
<1>1. /\ bsp \in BspRecord /\ bsp.v \in Ap /\ bsp.pc = "poll"
      /\ bsp.polls \in 0 .. PollLimit
      /\ UNCHANGED <<tramp, ready, command, ipi, ap, loaded>>
  BY Zenon DEF StartupInv, StartupTypeOK, BspRecord, PollReady
<1>2. bsp.v \in Nat /\ NumAps \in Nat
  BY <1>1 DEF Ap
<1>3. CASE ready[bsp.v] = 1 /\ Started
  <2>1. Signalled(bsp.v)
    BY <1>1, <1>3, Zenon DEF StartupInv, Ordered
  <2>2. CASE bsp.v = NumAps
    <3>1. bsp' = [pc |-> "enter", v |-> bsp.v, polls |-> 0]
      BY <1>3, <2>2, Zenon DEF Started
    <3>2. StartupTypeOK'
      BY <1>1, <3>1 DEF StartupInv, StartupTypeOK, BspRecord
    <3>3. SlotsPatched'
      BY <1>1, <3>1, Zenon DEF StartupInv, SlotsPatched, Sent
    <3>4. ASSUME NEW v \in Ap PROVE (IpisOrdered(v) /\ Loaded(v) /\ Ordered(v))'
      BY <1>1, <1>2, <2>1, <2>2, <3>1, <3>4
         DEF StartupInv, IpisOrdered, Loaded, Ordered, Addressed, Signalled, Sent, Ap
    <3> QED
      BY <3>2, <3>3, <3>4, Zenon DEF StartupInv
  <2>3. CASE bsp.v # NumAps
    <3>1. bsp' = [pc |-> "prepare", v |-> bsp.v + 1, polls |-> 0]
      BY <1>3, <2>3, Zenon DEF Started
    <3>2. StartupTypeOK'
      <4>1. bsp.v + 1 \in Ap
        BY <1>1, <1>2, <2>3 DEF Ap
      <4>2. 0 \in 0 .. PollLimit
        OBVIOUS
      <4>3. bsp' \in BspRecord
        BY <3>1, <4>1, <4>2, Zenon DEF BspRecord
      <4> QED
        BY <1>1, <4>3, Zenon DEF StartupInv, StartupTypeOK
    <3>3. SlotsPatched'
      BY <1>1, <3>1, Zenon DEF SlotsPatched, Sent
    <3>4. ASSUME NEW v \in Ap PROVE (IpisOrdered(v) /\ Loaded(v) /\ Ordered(v))'
      BY <1>1, <1>2, <2>1, <2>3, <3>1, <3>4
         DEF StartupInv, IpisOrdered, Loaded, Ordered, Addressed, Signalled, Sent, Ap
    <3> QED
      BY <3>2, <3>3, <3>4, Zenon DEF StartupInv
  <2> QED
    BY <2>2, <2>3, Zenon
<1>4. CASE bsp.polls > 1 /\ bsp' = [bsp EXCEPT !.polls = @ - 1]
  <2>1. bsp' \in BspRecord /\ bsp'.pc = bsp.pc /\ bsp'.v = bsp.v
    BY <1>1, <1>4 DEF BspRecord
  <2>2. StartupTypeOK' /\ SlotsPatched'
    BY <1>1, <2>1, Zenon DEF StartupInv, StartupTypeOK, SlotsPatched
  <2>3. ASSUME NEW v \in Ap PROVE (IpisOrdered(v) /\ Loaded(v) /\ Ordered(v))'
    BY <1>1, <2>1, <2>3 DEF StartupInv, IpisOrdered, Loaded, Ordered, Addressed, Signalled
  <2> QED
    BY <2>2, <2>3, Zenon DEF StartupInv
<1>5. CASE bsp' = [bsp EXCEPT !.pc = "trap", !.polls = 0]
  <2>1. bsp' \in BspRecord /\ bsp'.pc = "trap" /\ bsp'.v = bsp.v
    <3>1. 0 \in 0 .. PollLimit
      OBVIOUS
    <3> QED
      BY <1>1, <1>5, <3>1, BspLabelPolls, Zenon
  <2>2. StartupTypeOK' /\ SlotsPatched'
    BY <1>1, <2>1, Zenon DEF StartupInv, StartupTypeOK, SlotsPatched, Sent
  <2>3. ASSUME NEW v \in Ap PROVE (IpisOrdered(v) /\ Loaded(v) /\ Ordered(v))'
    BY <1>1, <2>1, <2>3
       DEF StartupInv, IpisOrdered, Loaded, Ordered, Addressed, Signalled, Sent
  <2> QED
    BY <2>2, <2>3, Zenon DEF StartupInv
<1> QED
  BY <1>3, <1>4, <1>5, Zenon DEF PollReady

(* Taking an INIT or a SIPI: only one that is addressed has any, and INIT    *)
(* finds it off, so a vCPU is not restarted.                                 *)
LEMMA ReceiveIpiStep ==
  ASSUME StartupInv, NEW w \in Ap, ReceiveIpi(w)
  PROVE  StartupInv'
<1> DEFINE to == IF Head(ipi[w]) = "init" THEN "wait_for_sipi"
                 ELSE IF ap[w] = "wait_for_sipi" THEN "stack" ELSE ap[w]
<1>1. /\ ap \in [Ap -> ApLabel] /\ ipi \in [Ap -> Seq({"init", "sipi"})]
      /\ ap[w] \in ApLabel /\ ipi[w] \in Seq({"init", "sipi"}) /\ ipi[w] # << >>
      /\ UNCHANGED <<tramp, ready, command, bsp, loaded>>
  BY Zenon DEF StartupInv, StartupTypeOK, ReceiveIpi
<1>2. ipi' = [ipi EXCEPT ![w] = Tail(ipi[w])] /\ ap' = [ap EXCEPT ![w] = to]
  BY <1>1, Zenon DEF ReceiveIpi
<1>3. to \in ApLabel
  BY <1>1, Zenon DEF ApLabel
<1>4. /\ Len(ipi[w]) \in Nat \ {0} /\ Head(ipi[w]) = ipi[w][1]
      /\ Tail(ipi[w]) \in Seq({"init", "sipi"})
      /\ Len(Tail(ipi[w])) = Len(ipi[w]) - 1
      /\ \A i \in 1 .. Len(Tail(ipi[w])) : Tail(ipi[w])[i] = ipi[w][i + 1]
  BY <1>1
<1>5. Addressed(w) /\ IpisOrdered(w)
  BY <1>1, Zenon DEF StartupInv, IpisOrdered
<1>6. \A i \in 1 .. Len(Tail(ipi[w])) : Tail(ipi[w])[i] # "init"
  <2> SUFFICES ASSUME NEW i \in 1 .. Len(Tail(ipi[w])), Tail(ipi[w])[i] = "init"
               PROVE  FALSE
    BY Zenon
  <2>1. i + 1 \in 1 .. Len(ipi[w]) /\ i + 1 # 1 /\ ipi[w][i + 1] = "init"
    BY <1>4
  <2> QED
    BY <1>5, <2>1, Zenon DEF IpisOrdered
<1>7. Head(ipi[w]) = "init" => ap[w] = "off"
  BY <1>4, <1>5 DEF IpisOrdered
<1>8. /\ to \in {"wait_for_sipi", "stack"} \/ to = ap[w]
      /\ ap[w] \notin {"off", "wait_for_sipi"} => to = ap[w]
  BY <1>7, Zenon
<1> HIDE DEF to
<1>9. StartupTypeOK'
  BY <1>1, <1>2, <1>3, <1>4, Zenon DEF StartupInv, StartupTypeOK
<1>10. SlotsPatched'
  BY <1>1, Zenon DEF StartupInv, SlotsPatched
<1>11. ASSUME NEW v \in Ap PROVE (IpisOrdered(v) /\ Loaded(v) /\ Ordered(v))'
  <2>1. CASE v # w
    BY <1>1, <1>2, <1>11, <2>1, Zenon
       DEF StartupInv, IpisOrdered, Loaded, Ordered, Addressed, Signalled
  <2>2. CASE v = w
    <3>1. ipi'[w] = Tail(ipi[w]) /\ ap'[w] = to /\ Addressed(w)'
      BY <1>1, <1>2, <1>5, Zenon DEF Addressed
    <3>2. IpisOrdered(w)'
      BY <1>6, <3>1, Zenon DEF IpisOrdered
    <3>3. Loaded(w)'
      BY <1>1, <1>8, <3>1, Zenon DEF StartupInv, Loaded
    <3>4. Ordered(w)'
      BY <1>1, <1>8, <3>1, Zenon DEF StartupInv, Ordered, Signalled, Addressed
    <3> QED
      BY <2>2, <3>2, <3>3, <3>4, Zenon
  <2> QED
    BY <2>1, <2>2, Zenon
<1> QED
  BY <1>9, <1>10, <1>11, Zenon DEF StartupInv

(* A vCPU between its start and its ready signal is the one being started.   *)
LEMMA LoadingIsCurrent ==
  ASSUME StartupInv, NEW w \in Ap, ap[w] \in {"stack", "context", "ready", "signal"}
  PROVE  w = bsp.v /\ bsp.pc \in Sent
BY Zenon DEF StartupInv, IpisOrdered, Ordered, Addressed, Signalled

(* Loading a slot: before the signal it holds what belongs to the loader.    *)
LEMMA LoadSlotStep ==
  ASSUME StartupInv, NEW w \in Ap, LoadSlot(w)
  PROVE  StartupInv'
<1>1. /\ ap \in [Ap -> ApLabel] /\ ap[w] \in HandoffSlot
      /\ loaded \in [Ap -> [HandoffSlot -> Vcpu]] /\ loaded[w] \in [HandoffSlot -> Vcpu]
      /\ tramp \in [HandoffSlot -> Vcpu] /\ tramp[ap[w]] \in Vcpu
      /\ UNCHANGED <<tramp, ready, command, bsp, ipi>>
  BY Zenon DEF StartupInv, StartupTypeOK, LoadSlot
<1>2. /\ loaded' = [loaded EXCEPT ![w] = [loaded[w] EXCEPT ![ap[w]] = tramp[ap[w]]]]
      /\ ap' = [ap EXCEPT ![w] = AfterLoad[ap[w]]]
  BY <1>1, Zenon DEF LoadSlot
<1>3. /\ ap'[w] = AfterLoad[ap[w]]
      /\ \A x \in HandoffSlot : loaded'[w][x] = IF x = ap[w] THEN tramp[x] ELSE loaded[w][x]
      /\ \A v \in Ap : v # w => ap'[v] = ap[v] /\ loaded'[v] = loaded[v]
  BY <1>1, <1>2, Zenon
<1>4. AfterLoad[ap[w]] \in ApLabel
  BY <1>1 DEF HandoffSlot, AfterLoad, ApLabel
<1>5. StartupTypeOK' /\ SlotsPatched'
  BY <1>1, <1>2, <1>4, Zenon DEF StartupInv, StartupTypeOK, SlotsPatched
<1>6. ap[w] # "entry" => \A x \in HandoffSlot : tramp[x] = w
  BY <1>1, LoadingIsCurrent, Zenon DEF StartupInv, SlotsPatched, HandoffSlot
<1>7. ASSUME NEW v \in Ap PROVE (IpisOrdered(v) /\ Loaded(v) /\ Ordered(v))'
  <2>1. CASE v # w
    BY <1>1, <1>3, <1>7, <2>1
       DEF StartupInv, IpisOrdered, Loaded, Ordered, Addressed, Signalled
  <2>2. CASE v = w
    <3>1. IpisOrdered(w)'
      BY <1>1, <1>3, Zenon DEF StartupInv, IpisOrdered, Addressed, HandoffSlot
    <3>2. Loaded(w)'
      BY <1>1, <1>3, <1>6 DEF StartupInv, Loaded, AfterLoad, HandoffSlot
    <3>3. Ordered(w)'
      BY <1>1, <1>3 DEF StartupInv, Ordered, Signalled, Addressed, AfterLoad, HandoffSlot
    <3> QED
      BY <2>2, <3>1, <3>2, <3>3, Zenon
  <2> QED
    BY <2>1, <2>2, Zenon
<1> QED
  BY <1>5, <1>7, Zenon DEF StartupInv

(* Signalling: the ready word written is the vCPU's own.                     *)
LEMMA SignalReadyStep ==
  ASSUME StartupInv, NEW w \in Ap, SignalReady(w)
  PROVE  StartupInv'
<1>1. /\ ap \in [Ap -> ApLabel] /\ ap[w] = "signal"
      /\ ready \in [Ap -> {0, 1}] /\ loaded[w]["ready"] = w
      /\ UNCHANGED <<tramp, command, bsp, ipi, loaded>>
  BY Zenon DEF StartupInv, StartupTypeOK, SignalReady, Loaded
<1>2. ap' = [ap EXCEPT ![w] = "entry"] /\ ready' = [ready EXCEPT ![w] = 1]
  BY <1>1, Zenon DEF SignalReady
<1>3. StartupTypeOK' /\ SlotsPatched'
  BY <1>1, <1>2, Zenon DEF StartupInv, StartupTypeOK, SlotsPatched, ApLabel
<1>4. ASSUME NEW v \in Ap PROVE (IpisOrdered(v) /\ Loaded(v) /\ Ordered(v))'
  BY <1>1, <1>2, <1>4
     DEF StartupInv, IpisOrdered, Loaded, Ordered, Addressed, Signalled
<1> QED
  BY <1>3, <1>4, Zenon DEF StartupInv

-----------------------------------------------------------------------------
(* The startup protocol of vcpu_start.go keeps its inductive invariant.      *)
THEOREM StartupInvariant == StartupSpec => []StartupInv
<1>1. ASSUME StartupInv, [StartupNext]_startupVars PROVE StartupInv'
  <2>1. CASE BspStep
    BY <1>1, <2>1, PrepareStep, PatchStep, StoreApicIdStep, SendIpiStep, PollReadyStep,
       EnterStep, Zenon DEF BspStep
  <2>2. ASSUME NEW v \in Ap, ApStep(v) PROVE StartupInv'
    BY <1>1, <2>2, ReceiveIpiStep, LoadSlotStep, SignalReadyStep, Zenon DEF ApStep
  <2>3. CASE UNCHANGED startupVars
    BY <1>1, <2>3
       DEF StartupInv, StartupTypeOK, SlotsPatched, IpisOrdered, Loaded, Ordered, Addressed,
           Signalled, startupVars
  <2> QED
    BY <1>1, <2>1, <2>2, <2>3, Zenon DEF StartupNext
<1> QED
  BY <1>1, StartupInitially, PTL DEF StartupSpec

(* A vCPU that has signalled runs on its own stack with its own executor     *)
(* object, although the handoff slots are shared by all vCPUs.               *)
THEOREM HandoffTheorem == StartupSpec => []HandoffOwned
<1>1. StartupInv => HandoffOwned
  BY Zenon DEF StartupInv, Loaded, HandoffOwned, Signalled
<1> QED
  BY <1>1, StartupInvariant, PTL

(* The bootstrap vCPU never goes on with one executor fewer: emitVcpuStart   *)
(* returns only after the started vCPU has signalled.                        *)
THEOREM NoneSkippedTheorem == StartupSpec => []NoneSkipped
<1>1. StartupInv => NoneSkipped
  BY Zenon DEF StartupInv, Ordered, NoneSkipped
<1> QED
  BY <1>1, StartupInvariant, PTL

(* The destination of a running vCPU's wakes is recorded before it runs.     *)
THEOREM WakeDestinationTheorem == StartupSpec => []WakeDestinationKnown
<1>1. StartupInv => WakeDestinationKnown
  <2> SUFFICES ASSUME StartupInv, NEW v \in Ap, Signalled(v) PROVE command[v] = v
    BY Zenon DEF WakeDestinationKnown
  <2> QED
    BY Zenon DEF StartupInv, IpisOrdered, Ordered, Signalled
<1> QED
  BY <1>1, StartupInvariant, PTL
=============================================================================
