------------------------------ MODULE EventLog ------------------------------
(***************************************************************************)
(* The append log: the writer's policy (storagefmt.WriterPolicy,           *)
(* wrela/storage/writer.wrela), the durability state of a write command    *)
(* sequence (nvmefmt.DurabilityState), recovery of the hot slots           *)
(* (storagefmt.RecoverSlots) and the projection fed with committed groups. *)
(*                                                                         *)
(* The device and the code that submits commands are not in the            *)
(* repository's library: they are modelled from how it is used.  A group's *)
(* logical blocks are written independently, complete in any order, and a  *)
(* block may reach the medium before its completion is seen.  A restart    *)
(* loses everything but the medium.                                        *)
(***************************************************************************)
EXTENDS Integers, Sequences, FiniteSets

CONSTANTS GroupSizes,        \* semantic events of a command
          DiskSlots,         \* slots of the hot region
          LBASlots,          \* slots per logical block a device may have
          MaxBatchSlots, MaxAtomicGroupSlots,
          LinkDepth,         \* capacity of the committed-group core link
          MaxGroups, MaxRestarts
ASSUME LogConstants ==
  /\ GroupSizes \subseteq Nat /\ DiskSlots \in Nat \ {0} /\ LBASlots \subseteq Nat \ {0}
  /\ MaxBatchSlots \in Nat /\ MaxAtomicGroupSlots \in Nat /\ LinkDepth \in Nat
  /\ MaxGroups \in Nat /\ MaxRestarts \in Nat

VARIABLES dev,      \* [perLBA, mode]: slots per block, durability mode
          policy,   \* [next, open, frontier]: WriterPolicy
          groups,   \* every group ever accepted: its epoch and event IDs
          inflight, done,   \* per group, blocks being written and written
          flush,            \* per group, its flush: "no", "sent", "done" or "failed"
          flushing,         \* per group, the slots its flush is to write
          failed, acked, published,  \* the groups that failed, were acknowledged, were published
          kept,     \* the groups of earlier epochs the last recovery returned
          cache,    \* slot -> content held in the volatile write cache, or Blank
          media,    \* slot -> content on the medium
          link,     \* committed groups on their way to the maintenance core
          proj,     \* [applied, watermark, root]: DirectoryProjection
          epoch     \* restarts so far
durability == <<inflight, done, flush, flushing, failed>>
progress == <<acked, published, kept>>
logVars == <<dev, policy, groups, durability, progress, cache, media, link, proj, epoch>>

Slots == 0..(DiskSlots - 1)
GroupIds == 1..MaxGroups
Blank == [kind |-> "blank", id |-> 0, len |-> 0, index |-> 0, group |-> 0]
Contents == [kind : {"blank", "event", "reserved"}, id : Nat, len : Nat, index : Nat, group : Nat]
-----------------------------------------------------------------------------
(* FinishBatch: the slots that fill up the last logical block.             *)
FinishBatch(perLBA, n) == IF n % perLBA = 0 THEN 0 ELSE perLBA - (n % perLBA)

(* EnqueueAtomicGroupWithReserved.                                         *)
Accepts(n, reserved) == n \in 1..MaxAtomicGroupSlots /\ n + reserved <= MaxBatchSlots
OpenAfter(open, consumed) == IF open + consumed <= MaxBatchSlots THEN open + consumed ELSE consumed

(* Where group k lies on the disk, and what it writes to slot p.           *)
LBAOf(p) == p \div dev.perLBA
EventSlots(k) == groups[k].first .. groups[k].last
Positions(k) == groups[k].first .. (groups[k].first + groups[k].consumed - 1)
LBAs(k) == {LBAOf(p) : p \in Positions(k)}
Content(k, p) ==
  IF p <= groups[k].last
  THEN [kind |-> "event", id |-> p, len |-> groups[k].last - groups[k].first + 1,
        index |-> p - groups[k].first, group |-> k]
  ELSE [kind |-> "reserved", id |-> p, len |-> 0, index |-> 0, group |-> k]

(* slotChecksumValid: a slot that was never written has no valid checksum; *)
(* blocks are written whole.                                               *)
SlotChecksumValid(s) == s.kind # "blank"
IsReservedEmptySlot(s) == s.kind = "reserved"

(* Member j of the group whose first slot is i: at its place and intact,   *)
(* and of that group.                                                      *)
Intact(m, i, j) == m[i + j].id = i + j /\ SlotChecksumValid(m[i + j])
Fits(m, i, j) == m[i + j].kind = "event" /\ m[i + j].len = m[i].len /\ m[i + j].index = j

(* Variant: the first slot speaks for its group.                           *)
WholeGroupByFirst(m, i) == Intact(m, i, 0) /\ Fits(m, i, 0)
WholeGroup(m, i) == \A j \in 0..(m[i].len - 1) : Intact(m, i, j) /\ Fits(m, i, j)

(* The turns of RecoverSlots' loop at slot i: a padding slot is skipped, a *)
(* whole group is made visible, and anything else ends the scan.           *)
Skips(m, i) == IsReservedEmptySlot(m[i]) /\ m[i].id = i
Placed(m, i) == m[i].len \in 1..MaxAtomicGroupSlots /\ i + m[i].len <= DiskSlots
Shows(m, i) == m[i].kind = "event" /\ m[i].id = i /\ Placed(m, i) /\ WholeGroup(m, i)
StopReason(m, i) ==
  CASE i = DiskSlots -> "CleanEOF"
    [] i < DiskSlots /\ (~SlotChecksumValid(m[i]) \/ m[i].id # i) -> "ChecksumMismatch"
    [] OTHER -> IF /\ Placed(m, i)
                   /\ \E j \in 0..(m[i].len - 1) :
                        ~Intact(m, i, j) /\ \A h \in 0..(j - 1) : Intact(m, i, h) /\ Fits(m, i, h)
                THEN "ChecksumMismatch" ELSE "IncompleteAtomicGroup"

(* RecoverSlots: the groups recovery makes visible (sets of slots), the    *)
(* last slot of the last one, where it goes on and why it stopped.         *)
Stopped(m, i) == [groups |-> {}, end |-> 0, next |-> i, stop |-> StopReason(m, i)]
Showing(i, end, rest) ==
  [groups |-> rest.groups \cup {i .. end}, end |-> IF rest.groups = {} THEN end ELSE rest.end,
   next |-> rest.next, stop |-> rest.stop]
Scan(m) ==
  LET scan[i \in 0..DiskSlots] ==
        IF i < DiskSlots /\ Skips(m, i) THEN scan[i + 1]
        ELSE IF i < DiskSlots /\ Shows(m, i) THEN Showing(i, i + m[i].len - 1, scan[i + m[i].len])
        ELSE Stopped(m, i)
  IN scan
RecoverSlots(m) == Scan(m)[0]
-----------------------------------------------------------------------------
(* SelectDurability: forced unit access when the controller has it.        *)
SelectDurability(fua) == IF fua THEN "FUA" ELSE "WRITE_PLUS_FLUSH"
Flushes == dev.mode = "WRITE_PLUS_FLUSH"

LogInit ==
  /\ \E n \in LBASlots, fua \in BOOLEAN : dev = [perLBA |-> n, mode |-> SelectDurability(fua)]
  /\ policy = [next |-> 0, open |-> 0, frontier |-> 0]
  /\ groups = <<>>
  /\ inflight = [k \in GroupIds |-> {}] /\ done = [k \in GroupIds |-> {}]
  /\ flush = [k \in GroupIds |-> "no"] /\ flushing = [k \in GroupIds |-> {}]
  /\ failed = {} /\ acked = {} /\ published = {} /\ kept = {}
  /\ cache = [p \in Slots |-> Blank] /\ media = [p \in Slots |-> Blank]
  /\ link = <<>> /\ proj = [applied |-> {}, watermark |-> 0, root |-> 0]
  /\ epoch = 0

(* A command appends n events: event IDs are assigned and one write per    *)
(* logical block is submitted.                                             *)
EnqueueAtomicGroup(n) ==
  LET reserved == FinishBatch(dev.perLBA, n)
      consumed == n + reserved
      first == policy.next
      k == Len(groups) + 1
  IN /\ Accepts(n, reserved)
     /\ k <= MaxGroups /\ first + consumed <= DiskSlots
     /\ groups' = Append(groups, [epoch |-> epoch, first |-> first, last |-> first + n - 1, consumed |-> consumed])
     /\ inflight' = [inflight EXCEPT ![k] = {LBAOf(p) : p \in first .. (first + consumed - 1)}]
     /\ policy' = [policy EXCEPT !.next = first + consumed, !.open = OpenAfter(@, consumed)]
     /\ UNCHANGED <<dev, done, flush, flushing, failed, progress, cache, media, link, proj, epoch>>

(* What the write of block l by group k leaves in a store.                 *)
Live(k) == groups[k].epoch = epoch
Put(store, k, l) ==
  [p \in Slots |-> IF p \in Positions(k) /\ LBAOf(p) = l THEN Content(k, p) ELSE store[p]]

(* CompleteWrite(ok): with FUA the block is on the medium, otherwise it    *)
(* may still be in the cache.                                              *)
CompleteWrite(k, l) ==
  /\ Live(k) /\ l \in inflight[k]
  /\ inflight' = [inflight EXCEPT ![k] = @ \ {l}] /\ done' = [done EXCEPT ![k] = @ \cup {l}]
  /\ IF Flushes THEN cache' = Put(cache, k, l) /\ UNCHANGED media
                ELSE media' = Put(media, k, l) /\ UNCHANGED cache
  /\ UNCHANGED <<dev, policy, groups, flush, flushing, failed, progress, link, proj, epoch>>
FailWrite(k, l) ==
  /\ Live(k) /\ l \in inflight[k]
  /\ inflight' = [inflight EXCEPT ![k] = @ \ {l}] /\ failed' = failed \cup {k}
  /\ media' \in {media, Put(media, k, l)}
  /\ UNCHANGED <<dev, policy, groups, done, flush, flushing, progress, cache, link, proj, epoch>>

(* The flush that follows the writes of a group, and CompleteFlush.        *)
SubmitFlush(k) ==
  /\ Flushes /\ Live(k) /\ flush[k] = "no"
  /\ inflight[k] = {} /\ k \notin failed
  /\ flush' = [flush EXCEPT ![k] = "sent"]
  /\ flushing' = [flushing EXCEPT ![k] = {p \in Slots : cache[p] # Blank}]
  /\ UNCHANGED <<dev, policy, groups, inflight, done, failed, progress, cache, media, link, proj, epoch>>
FlushDone(k) ==
  /\ Live(k) /\ flush[k] = "sent"
  /\ media' = [p \in Slots |-> IF p \in flushing[k] /\ cache[p] # Blank THEN cache[p] ELSE media[p]]
  /\ cache' = [p \in Slots |-> IF p \in flushing[k] THEN Blank ELSE cache[p]]
  /\ flush' = [flush EXCEPT ![k] = "done"]
  /\ UNCHANGED <<dev, policy, groups, inflight, done, flushing, failed, progress, link, proj, epoch>>
FlushFailed(k) ==
  /\ Live(k) /\ flush[k] = "sent"
  /\ flush' = [flush EXCEPT ![k] = "failed"] /\ failed' = failed \cup {k}
  /\ UNCHANGED <<dev, policy, groups, inflight, done, flushing, progress, cache, media, link, proj, epoch>>

(* Variant: the flush is not waited for.                                   *)
AcknowledgedUnflushed(k) == k \notin failed /\ Cardinality(done[k]) >= Cardinality(LBAs(k))

(* CommitToken.Acknowledged over the group's durability state.             *)
Acknowledged(k) ==
  /\ k \notin failed /\ Cardinality(done[k]) >= Cardinality(LBAs(k))
  /\ Flushes => flush[k] = "done"

(* OnDurabilityCompleted.                                                  *)
FrontierAfter(k) == IF policy.frontier < groups[k].last THEN groups[k].last ELSE policy.frontier
OnDurabilityCompleted(k) ==
  /\ Live(k) /\ k \notin acked /\ Acknowledged(k)
  /\ acked' = acked \cup {k}
  /\ policy' = [policy EXCEPT !.frontier = FrontierAfter(k), !.open = 0]
  /\ UNCHANGED <<dev, groups, durability, published, kept, cache, media, link, proj, epoch>>

(* publish_committed_group, called in log order; a full link is retried.   *)
PublishCommittedGroup(k) ==
  /\ Live(k) /\ k \in acked /\ k \notin published
  /\ \A j \in 1..(k - 1) : Live(j) => j \in published \cup failed
  /\ Len(link) < LinkDepth
  /\ link' = Append(link, k)
  /\ published' = published \cup {k}
  /\ policy' = [policy EXCEPT !.frontier = FrontierAfter(k)]
  /\ UNCHANGED <<dev, groups, durability, acked, kept, cache, media, proj, epoch>>

(* Variant: the watermark jumps to the durable frontier.                   *)
ApplyGroupAhead ==
  /\ link # <<>>
  /\ link' = Tail(link)
  /\ proj' = [proj EXCEPT !.applied = @ \cup {Head(link)}, !.watermark = policy.frontier]
  /\ UNCHANGED <<dev, policy, groups, durability, progress, cache, media, epoch>>

(* The maintenance core applies a committed group to the projection        *)
(* (DirectoryProjection.ApplyGroup).                                       *)
ApplyGroup ==
  /\ link # <<>>
  /\ link' = Tail(link)
  /\ proj' = [proj EXCEPT !.applied = @ \cup {Head(link)}, !.watermark = groups[Head(link)].last]
  /\ UNCHANGED <<dev, policy, groups, durability, progress, cache, media, epoch>>

(* ProjectionTruth.AcceptAdvance: a new projection root.                   *)
AcceptAdvance(through, frontier) == through <= frontier
AdvanceProjection ==
  /\ proj.applied # {} /\ proj.root # proj.watermark
  /\ AcceptAdvance(proj.watermark, policy.frontier)
  /\ proj' = [proj EXCEPT !.root = proj.watermark]
  /\ UNCHANGED <<dev, policy, groups, durability, progress, cache, media, link, epoch>>

(* What a power failure may leave on the medium: any of the blocks in      *)
(* flight or in the cache may have been written.                           *)
Writers(p) == {k \in 1..Len(groups) : Live(k) /\ p \in Positions(k) /\ LBAOf(p) \in inflight[k]}
Unwritten(p) == IF Writers(p) # {} THEN Content(CHOOSE k \in Writers(p) : TRUE, p) ELSE cache[p]
UnwrittenBlocks == {LBAOf(p) : p \in {q \in Slots : Unwritten(q) # Blank}}
CrashImage(blocks) ==
  [p \in Slots |-> IF LBAOf(p) \in blocks /\ Unwritten(p) # Blank THEN Unwritten(p) ELSE media[p]]
CrashImages == {CrashImage(blocks) : blocks \in SUBSET UnwrittenBlocks}

(* Power loss and restart: the medium is scanned, the writer goes on where *)
(* recovery stopped and the projection is rebuilt from what is visible.    *)
Recovered(k, m, r) == EventSlots(k) \in r.groups /\ \A p \in EventSlots(k) : m[p] = Content(k, p)
PolicyAfter(r) == [next |-> r.next, open |-> 0, frontier |-> r.end]

Restart(m) ==
  LET r == RecoverSlots(m)
  IN /\ epoch < MaxRestarts
     /\ epoch' = epoch + 1
     /\ media' = m
     /\ policy' = PolicyAfter(r)
     /\ inflight' = [k \in GroupIds |-> {}] /\ done' = [k \in GroupIds |-> {}]
     /\ flush' = [k \in GroupIds |-> "no"] /\ flushing' = [k \in GroupIds |-> {}]
     /\ failed' = {} /\ published' = {}
     /\ kept' = {k \in 1..Len(groups) : Recovered(k, m, r)}
     /\ cache' = [p \in Slots |-> Blank] /\ link' = <<>>
     /\ proj' = [applied |-> kept', watermark |-> r.end, root |-> r.end]
     /\ UNCHANGED <<dev, groups, acked>>

LogNext ==
  \/ \E n \in GroupSizes : EnqueueAtomicGroup(n)
  \/ \E k \in 1..Len(groups) :
       \/ \E l \in inflight[k] : CompleteWrite(k, l) \/ FailWrite(k, l)
       \/ SubmitFlush(k) \/ FlushDone(k) \/ FlushFailed(k)
       \/ OnDurabilityCompleted(k) \/ PublishCommittedGroup(k)
  \/ ApplyGroup \/ AdvanceProjection
  \/ \E m \in CrashImages : Restart(m)
LogSpec == LogInit /\ [][LogNext]_logVars
-----------------------------------------------------------------------------
(* Policy and projection stay in their types; the open batch never exceeds *)
(* the hard cap on a batch (STORAGE_MAX_BATCH_SLOTS).                      *)
LogTypeOK ==
  /\ policy \in [next : 0..DiskSlots, open : 0..MaxBatchSlots, frontier : Slots]
  /\ media \in [Slots -> Contents] /\ cache \in [Slots -> Contents]
  /\ Len(link) <= LinkDepth /\ proj.applied \subseteq 1..Len(groups)

(* Every group before k that was written between the same restarts is      *)
(* acknowledged, or was returned by the last recovery.                     *)
NoHoleBefore(k) ==
  \A j \in 1..(k - 1) : groups[j].epoch = groups[k].epoch => j \in acked \cup kept

(* An acknowledged group that follows no unacknowledged one is returned by *)
(* recovery whenever the power fails, also after later restarts and        *)
(* appends: its blocks are on the medium, none of them is overwritten, and *)
(* the scan reaches it.                                                    *)
AcknowledgedRecovered ==
  \A m \in CrashImages : LET r == RecoverSlots(m) IN
    \A k \in 1..Len(groups) : k \in acked /\ NoHoleBefore(k) => Recovered(k, m, r)

(* What recovery makes visible is whole: every slot of a visible group was *)
(* written, and slots written between the same restarts are of one group.  *)
VisibleGroupsWhole ==
  \A m \in CrashImages : \A s \in RecoverSlots(m).groups : \A p, q \in s :
    /\ m[p].kind = "event"
    /\ groups[m[p].group].epoch = groups[m[q].group].epoch => m[p].group = m[q].group

(* Two groups alive at once never share a slot, and event IDs are handed   *)
(* out upwards: a group recovered after a restart is never assigned again. *)
EventIDsUnique ==
  \A j, k \in 1..Len(groups) :
    j < k /\ (groups[j].epoch = groups[k].epoch \/ (j \in kept /\ Live(k)))
      => groups[j].first + groups[j].consumed <= groups[k].first

(* What recovery makes visible is whole and no slot or event ID belongs to *)
(* two groups alive at once; the open batch respects its cap and the link  *)
(* its capacity.                                                           *)
GroupsWhole == LogTypeOK /\ VisibleGroupsWhole /\ EventIDsUnique

(* The watermark of the projection is honest: everything acknowledged in   *)
(* this epoch up to it has been applied, and a root is never ahead of the  *)
(* durable frontier.                                                       *)
WatermarkHonest ==
  /\ proj.root <= policy.frontier
  /\ proj.applied # {} => \A k \in 1..Len(groups) :
       Live(k) /\ k \in acked /\ groups[k].last <= proj.watermark => k \in proj.applied
=============================================================================
