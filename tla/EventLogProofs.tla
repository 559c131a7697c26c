--------------------------- MODULE EventLogProofs ---------------------------
(***************************************************************************)
(* The append log (EventLog): its inductive invariant, and the theorems    *)
(* that acknowledged groups are recovered after any power loss, that what  *)
(* is recovered is whole, and that the projection's watermark is honest.   *)
(***************************************************************************)
EXTENDS EventLogScan, FiniteSetTheorems

(* Counting the completed writes suffices: when as many blocks are done as *)
(* the group has, all of them are.                                         *)
LEMMA AllDone ==
  ASSUME LogTypes, Layout, NEW k \in G, WritesOf(k), Cardinality(done[k]) >= Cardinality(LBAs(k))
  PROVE  inflight[k] = {} /\ \A p \in Positions(k) : LBAOf(p) \in done[k]
<1>1. DiskSlots \in Nat /\ LBAOf(DiskSlots) \in Nat
  BY LogConstants, Blocks, Zenon
<1>2. \A p \in Positions(k) : LBAOf(p) \in Nat /\ LBAOf(p) <= LBAOf(DiskSlots)
  <2> SUFFICES ASSUME NEW p \in Positions(k) PROVE LBAOf(p) \in Nat /\ LBAOf(p) <= LBAOf(DiskSlots)
    OBVIOUS
  <2>1. p \in Nat /\ p <= DiskSlots
    BY InSlots, LogConstants DEF Slots
  <2> QED BY <1>1, <2>1, Blocks, Zenon
<1>3. LBAs(k) \in SUBSET Nat /\ \A x \in LBAs(k) : x <= LBAOf(DiskSlots)
  BY <1>2, Zenon DEF LBAs
<1>4. IsFiniteSet(LBAs(k))
  BY <1>1, <1>3, FS_BoundedSetOfNaturals, Zenon
<1>5. done[k] \in SUBSET LBAs(k)
  BY Zenon DEF WritesOf
<1>6. Cardinality(done[k]) <= Cardinality(LBAs(k)) /\ IsFiniteSet(done[k])
  BY <1>4, <1>5, FS_Subset, Zenon
<1>7. Cardinality(done[k]) \in Nat /\ Cardinality(LBAs(k)) \in Nat
  BY <1>4, <1>6, FS_CardinalityType, Zenon
<1>8. Cardinality(LBAs(k)) = Cardinality(done[k])
  BY <1>6, <1>7
<1>9. LBAs(k) = done[k]
  BY <1>4, <1>5, <1>8, FS_Subset, Zenon
<1> QED BY <1>9, Zenon DEF WritesOf, LBAs

(* An acknowledgement preserves the invariant: everything it promises is   *)
(* on the medium.                                                          *)
LEMMA AckSound ==
  ASSUME LogTypes, NEW b, Sound(b), NEW k \in G, OnDurabilityCompleted(k)
  PROVE  LogTypes' /\ Sound(b)'
<1> USE DEF Sound
<1>1. /\ Still /\ UNCHANGED <<kept, inflight, done, flush, flushing, failed, cache, media>>
      /\ acked' = acked \cup {k}
  BY Zenon DEF OnDurabilityCompleted, Still, durability
<1>2. Live(k) /\ WritesOf(k) /\ DurableGroup(k)
  BY Zenon DEF OnDurabilityCompleted, Device, Durable
<1>3. k \notin failed /\ Cardinality(done[k]) >= Cardinality(LBAs(k)) /\ (Flushes => flush[k] = "done")
  BY Zenon DEF OnDurabilityCompleted, Acknowledged
<1>4. Stored(media') /\ Stored(cache') /\ Overwrites(media')
  BY <1>1, Zenon DEF Device, Overwrites
<1>5. LogTypes' /\ policy'.next = policy.next
  BY TypesAck, Zenon
<1>6. \A p \in Slots : cache'[p] # Blank => Live(cache'[p].group)
  BY <1>1, Zenon DEF Device
<1>9. ASSUME NEW j \in G, Live(j), j # k PROVE WritesOf(j)' /\ DurableGroup(j)'
  BY <1>1, <1>4, <1>9, SameGroup, Zenon DEF Device, Durable
<1>10. WritesOf(k)'
  BY <1>1, <1>2, StillFacts, Zenon DEF WritesOf
<1>11. DurableGroup(k)'
  <2>1. inflight[k] = {} /\ \A p \in Positions(k) : LBAOf(p) \in done[k]
    BY <1>2, <1>3, AllDone, Zenon
  <2>2. \A p \in Positions(k) : media[p] = Content(k, p)
    BY <1>2, <1>3, <2>1, Zenon DEF DurableGroup
  <2>3. /\ Positions(k)' = Positions(k) /\ Flushes' = Flushes
        /\ \A p : LBAOf(p)' = LBAOf(p) /\ Content(k, p)' = Content(k, p)
    BY <1>1, StillFacts, Zenon
  <2> QED BY <1>1, <1>2, <1>3, <2>1, <2>2, <2>3, Zenon DEF DurableGroup
<1>12. \A j \in GroupIds \ G : inflight'[j] = {} /\ done'[j] = {} /\ flush'[j] = "no" /\ flushing'[j] = {}
  BY <1>1, Zenon DEF Device
<1>13. Sound(b)'
  BY <1>1, <1>2, <1>4, <1>5, <1>6, <1>9, <1>10, <1>11, <1>12, SoundStep, Zenon
<1> QED BY <1>5, <1>13, Zenon

(* The inductive invariant: some slot b is the end of the last recovery,   *)
(* from which the groups alive follow.                                     *)
Base(b) == Sound(b) /\ Projected(b)
LogInv == LogTypes /\ \E b \in 0..DiskSlots : Base(b)

(* It holds of an empty log.                                               *)
LEMMA InitLog == LogInit => LogInv
<1> SUFFICES ASSUME LogInit PROVE LogInv
  OBVIOUS
<1> USE DEF LogInit
<1>1. PICK n \in LBASlots, fua \in BOOLEAN : dev = [perLBA |-> n, mode |-> SelectDurability(fua)]
  OBVIOUS
<1>2. G = {} /\ 0 \in 0..DiskSlots /\ 0 \in Slots /\ Blank \in Contents
  BY LogConstants DEF G, Slots, Blank, Contents
<1>3. LogTypes
  <2>1. dev \in [perLBA : LBASlots, mode : {"FUA", "WRITE_PLUS_FLUSH"}]
    BY <1>1, Zenon DEF SelectDurability
  <2>2. policy \in [next : 0..DiskSlots, open : 0..MaxBatchSlots, frontier : Slots]
    BY <1>2, LogConstants
  <2>3. groups \in Seq([epoch : Nat, first : Nat, last : Nat, consumed : Nat]) /\ Len(groups) <= MaxGroups
    BY LogConstants
  <2>4. /\ inflight \in [GroupIds -> SUBSET Nat] /\ done \in [GroupIds -> SUBSET Nat]
        /\ flush \in [GroupIds -> {"no", "sent", "done", "failed"}] /\ flushing \in [GroupIds -> SUBSET Slots]
    OBVIOUS
  <2>5. cache \in [Slots -> Contents] /\ media \in [Slots -> Contents]
    BY <1>2, Zenon
  <2>6. link \in Seq(G) /\ Len(link) <= LinkDepth
    BY LogConstants
  <2>7. proj \in [applied : SUBSET G, watermark : Nat, root : Nat] /\ epoch \in Nat
    OBVIOUS
  <2>8. failed \subseteq G /\ acked \subseteq G /\ published \subseteq G /\ kept \subseteq G
    OBVIOUS
  <2> QED BY <2>1, <2>2, <2>3, <2>4, <2>5, <2>6, <2>7, <2>8, Zenon DEF LogTypes
<1>4. Aligned(0)
  <2>1. dev.perLBA \in Nat \ {0}
    BY <1>3, BlockTypes, Zenon
  <2> QED BY <2>1 DEF Aligned
<1>5. Layout /\ Durable
  BY <1>2, Zenon DEF Layout, Durable
<1>6. Chain(0)
  BY <1>2, <1>4 DEF Chain
<1>7. \A p \in Slots : media[p] = Blank /\ cache[p] = Blank
  OBVIOUS
<1>8. Device
  <2>1. Stored(media) /\ Stored(cache)
    BY <1>3, <1>7, Zenon DEF Stored, LogTypes
  <2>2. \A k \in GroupIds : inflight[k] = {} /\ done[k] = {} /\ flush[k] = "no" /\ flushing[k] = {}
    OBVIOUS
  <2> QED BY <1>2, <1>7, <2>1, <2>2, Zenon DEF Device
<1>9. Visited(media, 0)
  BY VisitedStart, Zenon
<1>10. Kept(0)
  BY <1>2, Zenon DEF Kept
<1>11. Projected(0)
  BY DEF Projected
<1> QED BY <1>2, <1>3, <1>5, <1>6, <1>8, <1>9, <1>10, <1>11, Zenon DEF LogInv, Base, Sound

(* An append preserves it.                                                 *)
LEMMA EnqueueInv ==
  ASSUME LogTypes, NEW b, Base(b), NEW n \in GroupSizes, EnqueueAtomicGroup(n)
  PROVE  LogTypes' /\ Base(b)'
<1> USE DEF Base
<1>1. PICK k, c, f : k = Len(groups) + 1 /\ c = n + FinishBatch(dev.perLBA, n) /\ f = policy.next
  OBVIOUS
<1>2. Aligned(policy.next)
  BY Zenon DEF Sound, Chain
<1>3. LogTypes' /\ Sound(b)'
  BY <1>1, <1>2, EnqueueTypes, EnqueueSound, Zenon
<1>4. \A j \in G : groups'[j] = groups[j]
  BY <1>1, <1>2, EnqueueFacts, Zenon
<1>5. UNCHANGED <<dev, epoch, published, link, proj, acked, failed>>
  BY Zenon DEF EnqueueAtomicGroup, progress
<1>6. policy'.frontier = policy.frontier /\ policy.frontier \in Nat
  BY LogConstants DEF EnqueueAtomicGroup, LogTypes, Slots
<1>7. policy.frontier <= policy'.frontier
  BY <1>6
<1>8. Projected(b)'
  BY <1>4, <1>5, <1>6, <1>7, ProjectedStep, Zenon
<1> QED BY <1>3, <1>8, Zenon

(* The steps of the device preserve it.                                    *)
LEMMA DeviceInv ==
  ASSUME LogTypes, NEW b, Base(b), NEW k \in G,
         \/ \E l \in inflight[k] : CompleteWrite(k, l) \/ FailWrite(k, l)
         \/ SubmitFlush(k) \/ FlushDone(k) \/ FlushFailed(k)
  PROVE  LogTypes' /\ Base(b)'
<1> USE DEF Base
<1>1. LogTypes' /\ Sound(b)'
  BY WriteSound, FailSound, SubmitSound, FlushSound, FlushFailSound, Zenon
<1>2. UNCHANGED <<dev, groups, epoch, policy, published, link, proj, acked>> /\ failed \subseteq failed'
  <2>1. UNCHANGED <<dev, groups, epoch, policy, published, link, proj, acked>>
    BY Zenon DEF CompleteWrite, FailWrite, SubmitFlush, FlushDone, FlushFailed, progress
  <2>2. failed' = failed \/ failed' = failed \cup {k}
    BY Zenon DEF CompleteWrite, FailWrite, SubmitFlush, FlushDone, FlushFailed
  <2> QED BY <2>1, <2>2, Zenon
<1>3. policy.frontier <= policy'.frontier /\ policy'.frontier \in Nat
  BY <1>2, LogConstants, SMTT(20) DEF LogTypes, Slots
<1>4. Projected(b)'
  BY <1>2, <1>3, ProjectedStep, Zenon
<1> QED BY <1>1, <1>4, Zenon

(* An acknowledgement preserves it.                                        *)
LEMMA AckInv ==
  ASSUME LogTypes, NEW b, Base(b), NEW k \in G, OnDurabilityCompleted(k)
  PROVE  LogTypes' /\ Base(b)'
<1> USE DEF Base
<1>1. LogTypes' /\ Sound(b)'
  BY AckSound, Zenon
<1>2. UNCHANGED <<dev, groups, epoch, published, link, proj, failed>> /\ acked \subseteq acked'
  <2>1. UNCHANGED <<dev, groups, epoch, published, link, proj, failed>> /\ acked' = acked \cup {k}
    BY Zenon DEF OnDurabilityCompleted, durability
  <2> QED BY <2>1, Zenon
<1>3. policy.frontier <= policy'.frontier /\ policy'.frontier \in Nat
  <2>1. policy \in [next : 0..DiskSlots, open : 0..MaxBatchSlots, frontier : Slots] /\ Layout
    BY Zenon DEF LogTypes, Sound
  <2>2. FrontierAfter(k) \in Nat /\ policy.frontier \in Nat
    BY <2>1, FrontierTypes, LogConstants, SMTT(20) DEF Slots
  <2>3. policy' = [policy EXCEPT !.frontier = FrontierAfter(k), !.open = 0]
    BY Zenon DEF OnDurabilityCompleted
  <2>4. policy'.frontier = FrontierAfter(k)
    BY <2>1, <2>3, Zenon
  <2> QED BY <2>2, <2>4, GroupTypes, SMTT(20) DEF FrontierAfter
<1>4. Projected(b)'
  BY <1>2, <1>3, ProjectedStep, Zenon
<1> QED BY <1>1, <1>4, Zenon

(* Publication and projection preserve it.                                 *)
LEMMA QuietInv ==
  ASSUME LogTypes, NEW b, Base(b), (\E k \in G : PublishCommittedGroup(k)) \/ ApplyGroup \/ AdvanceProjection
  PROVE  LogTypes' /\ Base(b)'
<1> USE DEF Base
<1>1. LogTypes' /\ Still /\ policy'.next = policy.next
  BY TypesPublish, TypesApply, Zenon DEF Sound
<1>2. UNCHANGED <<durability, acked, kept, cache, media>>
  BY Zenon DEF PublishCommittedGroup, ApplyGroup, AdvanceProjection, progress
<1>3. Sound(b)'
  BY <1>1, <1>2, QuietSound, Zenon
<1>4. Projected(b)'
  BY PublishProjected, ApplyProjected, AdvanceProjected, Zenon
<1> QED BY <1>1, <1>3, <1>4, Zenon

(* A power failure and the recovery after it establish it anew.            *)
LEMMA RestartInv ==
  ASSUME LogTypes, NEW b, Base(b), NEW m \in CrashImages, Restart(m)
  PROVE  LogInv'
<1> USE DEF Base
<1>1. Layout /\ Device
  BY Zenon DEF Sound
<1>2. Stored(m) /\ Overwrites(m)
  BY <1>1, CrashFacts, Zenon
<1>3. PICK c : c = RecoverSlots(m).next
  OBVIOUS
<1>4. c \in 0..DiskSlots
  BY <1>1, <1>2, <1>3, RecoverFacts, Zenon
<1>5. LogTypes' /\ Sound(c)' /\ Projected(c)'
  BY <1>1, <1>2, <1>3, RestartTypes, RestartSound, RestartProjected, Zenon
<1> QED BY <1>4, <1>5, Zenon DEF LogInv, Base

(* A step of another component preserves it.                               *)
LEMMA StutterInv == ASSUME LogInv, UNCHANGED logVars PROVE LogInv'
<1>1. PICK b \in 0..DiskSlots : LogTypes /\ Base(b)
  BY Zenon DEF LogInv
<1> USE DEF Base
<1>2. /\ UNCHANGED <<dev, policy, groups, inflight, done, flush, flushing, failed>>
      /\ UNCHANGED <<acked, published, kept, cache, media, link, proj, epoch>>
  BY Zenon DEF logVars, durability, progress
<1>3. Still /\ policy'.next = policy.next /\ UNCHANGED <<durability, acked, kept, cache, media>>
  BY <1>2, Zenon DEF Still, durability
<1>4. Sound(b)'
  BY <1>1, <1>3, QuietSound, Zenon
<1>5. LogTypes'
  BY <1>1, <1>2, Zenon DEF LogTypes, G
<1>6. Projected(b)'
  BY <1>1, <1>2, Zenon DEF Projected, Live
<1> QED BY <1>4, <1>5, <1>6, Zenon DEF LogInv

(* Every step preserves it.                                                *)
LEMMA LogStep == ASSUME LogInv, [LogNext]_logVars PROVE LogInv'
<1>1. PICK b \in 0..DiskSlots : LogTypes /\ Base(b)
  BY Zenon DEF LogInv
<1>2. CASE \E n \in GroupSizes : EnqueueAtomicGroup(n)
  BY <1>1, <1>2, EnqueueInv, Zenon DEF LogInv
<1>3. ASSUME NEW k \in G,
             \/ \E l \in inflight[k] : CompleteWrite(k, l) \/ FailWrite(k, l)
             \/ SubmitFlush(k) \/ FlushDone(k) \/ FlushFailed(k)
      PROVE  LogInv'
  BY <1>1, <1>3, DeviceInv, Zenon DEF LogInv
<1>4. ASSUME NEW k \in G, OnDurabilityCompleted(k) PROVE LogInv'
  BY <1>1, <1>4, AckInv, Zenon DEF LogInv
<1>5. CASE (\E k \in G : PublishCommittedGroup(k)) \/ ApplyGroup \/ AdvanceProjection
  BY <1>1, <1>5, QuietInv, Zenon DEF LogInv
<1>6. CASE \E m \in CrashImages : Restart(m)
  BY <1>1, <1>6, RestartInv, Zenon
<1>7. CASE UNCHANGED logVars
  BY <1>7, StutterInv, Zenon
<1> QED BY <1>2, <1>3, <1>4, <1>5, <1>6, <1>7, Zenon DEF LogNext, G

(* The invariant of the append log holds for every geometry of the disk,   *)
(* every block size, any number of groups and of restarts.                 *)
THEOREM LogInvariant == LogSpec => []LogInv
<1>1. LogInv /\ [LogNext]_logVars => LogInv'
  BY LogStep, Zenon
<1> QED BY <1>1, InitLog, PTL DEF LogSpec

(* Whenever the power fails, RecoverSlots returns every acknowledged group *)
(* that follows no unacknowledged one: after any interleaving of writes    *)
(* and flushes of several groups, failed commands, and any number of       *)
(* restarts with appends in between.                                       *)
THEOREM AcknowledgedRecoveredTheorem == LogSpec => []AcknowledgedRecovered
<1>1. LogInv => AcknowledgedRecovered
  BY SoundRecovers, Zenon DEF LogInv, Base
<1> QED BY <1>1, LogInvariant, PTL

(* Recovery makes no torn group visible, no event ID is handed out twice   *)
(* among groups alive or recovered, and batch and link stay within their   *)
(* limits.                                                                 *)
THEOREM GroupsWholeTheorem == LogSpec => []GroupsWhole
<1>1. LogTypes => LogTypeOK
  BY Zenon DEF LogTypes, LogTypeOK, G
<1>2. LogInv => GroupsWhole
  BY <1>1, SoundWhole, SoundUnique, Zenon DEF LogInv, Base, GroupsWhole
<1> QED BY <1>2, LogInvariant, PTL

(* A projection root never passes the durable frontier, and everything     *)
(* acknowledged up to the watermark has been applied.                      *)
THEOREM WatermarkHonestTheorem == LogSpec => []WatermarkHonest
<1>1. LogInv => WatermarkHonest
  BY ProjectedHonest, Zenon DEF LogInv, Base
<1> QED BY <1>1, LogInvariant, PTL
=============================================================================
