---------------------------- MODULE StorageFormat ---------------------------
(***************************************************************************)
(* The fixed formats of the storage: superblock selection, the region map, *)
(* packed segments with their sparse index, and the NVMe data commands     *)
(* (compiler/storagefmt, compiler/nvmefmt).  One behaviour is one call: sf *)
(* holds its arguments, then its result.                                   *)
(***************************************************************************)
EXTENDS Integers, Sequences, SequencesExt, FiniteSets

CONSTANTS Word,        \* 2^64: arithmetic on offsets is modulo Word
          DiskBytes,   \* StorageDiskBytes
          MaxTransferBlocks,  \* MaxPRPTransferBytes / logical block size
          FUABit,      \* 2^30
          Inputs       \* the calls to explore

VARIABLE sf            \* [call, result]; result = "none" before the call
-----------------------------------------------------------------------------

(* ChooseSuperblock: the newer of two valid copies; 0 stands for the error. *)
ChooseSuperblock(a, b) ==
  IF a.valid /\ b.valid /\ b.generation > a.generation THEN b.generation
  ELSE IF a.valid THEN a.generation
  ELSE IF b.valid THEN b.generation ELSE 0

(* Variant: an end that wraps around is not noticed.                       *)
ValidateRegionsWrapping(rs) ==
  LET ordered == SortSeq(rs, LAMBDA a, b : a.offset < b.offset)
      end(r) == (r.offset + r.size) % Word
      prevEnd(i) == IF i = 1 THEN 0 ELSE end(ordered[i - 1])
  IN \A i \in 1..Len(ordered) :
       ordered[i].size # 0 /\ ordered[i].offset >= prevEnd(i) /\ end(ordered[i]) <= DiskBytes

(* ValidateRegions: sorted by offset, no region is empty, overlaps its     *)
(* predecessor, wraps around or ends behind the disk.                      *)
ValidateRegions(rs) ==
  LET ordered == SortSeq(rs, LAMBDA a, b : a.offset < b.offset)
      end(r) == (r.offset + r.size) % Word
      prevEnd(i) == IF i = 1 THEN 0 ELSE end(ordered[i - 1])
  IN \A i \in 1..Len(ordered) :
       /\ ordered[i].size # 0 /\ ordered[i].offset >= prevEnd(i)
       /\ end(ordered[i]) >= ordered[i].offset /\ end(ordered[i]) <= DiskBytes

(* PackSlots: slots of variable length back to back (a header of one byte  *)
(* and the payload), with an index entry for every stride-th event ID.     *)
PackSlots(base, lengths, stride) ==
  LET step == IF stride = 0 THEN 1 ELSE stride
      offset[i \in 1..(Len(lengths) + 1)] == IF i = 1 THEN 0 ELSE offset[i - 1] + 1 + lengths[i - 1]
  IN [base |-> base, offsets |-> [i \in 1..Len(lengths) |-> offset[i]],
      index |-> [d \in {n \in 0..(Len(lengths) - 1) : n % step = 0} |-> offset[d + 1]]]

(* buildDataCommand and WriteCommandDword12.                               *)
BuildDataCommand(lba, count, fua) ==
  IF count = 0 \/ count > MaxTransferBlocks THEN [ok |-> FALSE, cdw10 |-> 0, cdw11 |-> 0, cdw12 |-> 0]
  ELSE [ok |-> TRUE, cdw10 |-> lba % 16, cdw11 |-> lba \div 16, cdw12 |-> (count - 1) + (IF fua THEN FUABit ELSE 0)]

-----------------------------------------------------------------------------
Result(c) ==
  CASE c.op = "superblock" -> ChooseSuperblock(c.a, c.b)
    [] c.op = "regions" -> ValidateRegions(c.regions)
    [] c.op = "pack" -> PackSlots(c.base, c.lengths, c.stride)
    [] c.op = "command" -> BuildDataCommand(c.lba, c.count, c.fua)

Init == \E c \in Inputs : sf = [call |-> c, done |-> FALSE, result |-> "none"]
Call == ~sf.done /\ sf' = [sf EXCEPT !.done = TRUE, !.result = Result(sf.call)]
Next == Call
Done(op) == sf.done /\ sf.call.op = op
-----------------------------------------------------------------------------
(* The region map is accepted exactly when its regions are not empty, lie  *)
(* on the disk and are pairwise disjoint, whatever their order; no sum of  *)
(* offset and size that wraps around is taken for a small one.             *)
RegionsDisjoint ==
  Done("regions") =>
    LET rs == sf.call.regions
        bytes(i) == rs[i].offset..(rs[i].offset + rs[i].size - 1)
    IN sf.result <=> /\ \A i \in 1..Len(rs) : rs[i].size > 0 /\ rs[i].offset + rs[i].size <= DiskBytes
                     /\ \A i, j \in 1..Len(rs) : i # j => bytes(i) \cap bytes(j) = {}

(* Starting from the closest index entry at or before an event and         *)
(* skipping whole slots finds that event in a packed segment.              *)
IndexFindsSlot ==
  Done("pack") =>
    LET p == sf.result
        near(d) == CHOOSE e \in DOMAIN p.index : e <= d /\ \A f \in DOMAIN p.index : f <= d => f <= e
        walk[d \in 0..(Len(sf.call.lengths) - 1)] ==
          IF near(d) = d THEN p.index[d] ELSE walk[d - 1] + 1 + sf.call.lengths[d]
    IN \A d \in 0..(Len(sf.call.lengths) - 1) : walk[d] = p.offsets[d + 1]

(* A device reads back from a command the block address and the count the  *)
(* caller gave: the FUA flag never spills into the count.                  *)
CommandDecodes ==
  Done("command") /\ sf.result.ok =>
    /\ sf.result.cdw11 * 16 + sf.result.cdw10 = sf.call.lba
    /\ (sf.result.cdw12 % FUABit) + 1 = sf.call.count
    /\ (sf.result.cdw12 >= FUABit) = sf.call.fua

(* Of two superblock copies the newest valid one is chosen, so a torn      *)
(* update of one copy falls back to the other.                             *)
NewestSuperblock ==
  Done("superblock") =>
    LET valid == {s \in {sf.call.a, sf.call.b} : s.valid}
    IN IF valid = {} THEN sf.result = 0
       ELSE \E s \in valid : sf.result = s.generation /\ \A t \in valid : t.generation <= s.generation
=============================================================================
