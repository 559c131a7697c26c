------------------------------ MODULE BlobStore -----------------------------
(***************************************************************************)
(* Blob extents: the free extent list (storagefmt.FreeExtentList and its   *)
(* image-side counterpart BlobExtentAllocator in wrela/storage/blob.wrela),*)
(* the truth of a blob with relocation proposals, and the orphan collector *)
(* that runs over the extents of a recovered image.                        *)
(***************************************************************************)
EXTENDS Integers, Sequences, FiniteSets, SequencesExt

CONSTANTS DiskBlocks,   \* blocks of the blob region, one free extent at first
          Capacity,     \* free extents the list can hold
          BlobIDs, MaxVersion

VARIABLES free,       \* the free extent list, sorted by start
          allocated,  \* extents handed out and not freed
          truth,      \* BlobTruth of every blob; version 0 is unpublished
          proposals,  \* relocation proposals made and not yet decided
          dropped     \* blocks the full list could not remember
blobVars == <<free, allocated, truth, proposals, dropped>>

Extent(s, n) == [start |-> s, count |-> n]
End(e) == e.start + e.count
Blocks(e) == e.start..(End(e) - 1)
NoExtent == Extent(0, 0)
-----------------------------------------------------------------------------
(* FreeExtentList.Allocate: first fit, cut from the front of the extent.   *)
FirstFit(l, n) == {i \in 1..Len(l) : l[i].count >= n /\ \A j \in 1..(i - 1) : l[j].count < n}
(* Variant: the rest keeps its length.                                     *)
AllocateUncut(l, n) ==
  IF n = 0 \/ FirstFit(l, n) = {} THEN [extent |-> NoExtent, list |-> l]
  ELSE LET i == CHOOSE j \in FirstFit(l, n) : TRUE
       IN [extent |-> Extent(l[i].start, n),
           list |-> IF l[i].count = n THEN RemoveAt(l, i) ELSE [l EXCEPT ![i].start = @ + n]]
Allocate(l, n) ==
  IF n = 0 \/ FirstFit(l, n) = {} THEN [extent |-> NoExtent, list |-> l]
  ELSE LET i == CHOOSE j \in FirstFit(l, n) : TRUE
       IN [extent |-> Extent(l[i].start, n),
           list |-> IF l[i].count = n THEN RemoveAt(l, i)
                    ELSE [l EXCEPT ![i] = Extent(@.start + n, @.count - n)]]

(* The pass that joins neighbours of a sorted list.                        *)
Coalesce(l) ==
  FoldLeft(LAMBDA acc, e : IF acc # <<>> /\ End(Last(acc)) = e.start
                           THEN [acc EXCEPT ![Len(acc)] = Extent(@.start, @.count + e.count)]
                           ELSE Append(acc, e), <<>>, l)

(* FreeExtentList.Free: add, sort, join, and forget what exceeds the       *)
(* capacity (the extents at the highest addresses).                        *)
Free(l, e) ==
  IF e.count = 0 \/ Capacity = 0 THEN l
  ELSE LET joined == Coalesce(SortSeq(Append(l, e), LAMBDA a, b : a.start < b.start))
       IN SubSeq(joined, 1, IF Len(joined) > Capacity THEN Capacity ELSE Len(joined))

(* BlobExtentAllocator.free: merge into the first neighbour, else insert   *)
(* in order; a full list forgets the freed extent itself.                  *)
Merges(l, e) == {i \in 1..Len(l) : End(e) = l[i].start \/ End(l[i]) = e.start}
(* Variant: a freed extent is put in its place and joins no neighbour.     *)
FreeInImageApart(l, e) ==
  LET at == Cardinality({j \in 1..Len(l) : l[j].start <= e.start}) + 1
  IN IF e.count = 0 \/ Len(l) >= Capacity THEN l ELSE InsertAt(l, at, e)
FreeInImage(l, e) ==
  LET i == CHOOSE j \in Merges(l, e) : \A k \in Merges(l, e) : j <= k
      at == Cardinality({j \in 1..Len(l) : l[j].start <= e.start}) + 1
  IN IF e.count = 0 THEN l
     ELSE IF Merges(l, e) # {}
     THEN Coalesce([l EXCEPT ![i] = Extent(IF End(e) = @.start THEN e.start ELSE @.start, @.count + e.count)])
     ELSE IF Len(l) >= Capacity THEN l
     ELSE Coalesce(InsertAt(l, at, e))

(* BlobTruth.AcceptRelocate.                                               *)
CanAcceptRelocate(t, p) == p.old = t.ref /\ p.version = t.version

(* Variant: the marks are not looked at.                                   *)
ReclaimableAll(extents, acknowledged) == extents

(* OrphanCollector: the allocated extents no acknowledged reference names. *)
Reclaimable(extents, acknowledged) == extents \ acknowledged
-----------------------------------------------------------------------------
BlocksOf(es) == UNION {Blocks(e) : e \in es}
Refs == {truth[b].ref : b \in {c \in BlobIDs : truth[c].version > 0}}

Init == /\ free = <<Extent(0, DiskBlocks)>> /\ allocated = {}
        /\ truth = [b \in BlobIDs |-> [ref |-> NoExtent, version |-> 0]]
        /\ proposals = {} /\ dropped = {}

(* write_blob, and the event that publishes the reference.                 *)
WriteBlob(b, n) ==
  LET a == Allocate(free, n)
  IN /\ truth[b].version = 0 /\ a.extent # NoExtent
     /\ free' = a.list /\ allocated' = allocated \cup {a.extent}
     /\ truth' \in {truth, [truth EXCEPT ![b] = [ref |-> a.extent, version |-> 1]]}
     /\ UNCHANGED <<proposals, dropped>>

(* A relocation copies the blob and proposes the new reference; any number *)
(* of proposals may be under way for one blob.                             *)
ProposeRelocate(b) ==
  LET a == Allocate(free, truth[b].ref.count)
  IN /\ truth[b].version \in 1..MaxVersion /\ a.extent # NoExtent
     /\ free' = a.list /\ allocated' = allocated \cup {a.extent}
     /\ proposals' = proposals \cup {[blob |-> b, old |-> truth[b].ref, new |-> a.extent, version |-> truth[b].version]}
     /\ UNCHANGED <<truth, dropped>>

(* AcceptRelocateBlob: accepted against the truth it observed, or refused. *)
AcceptRelocateBlob(p) ==
  /\ p \in proposals
  /\ proposals' = proposals \ {p}
  /\ truth' = IF CanAcceptRelocate(truth[p.blob], p)
              THEN [truth EXCEPT ![p.blob] = [ref |-> p.new, version |-> @.version + 1]] ELSE truth
  /\ UNCHANGED <<free, allocated, dropped>>

(* Orphan collection over a recovered image: nothing is under way, every   *)
(* published reference is marked, the rest is freed one by one.            *)
CollectOrphan(e) ==
  /\ proposals = {} /\ e \in Reclaimable(allocated, Refs)
  /\ free' = Free(free, e)
  /\ allocated' = allocated \ {e}
  /\ dropped' = dropped \cup ((BlocksOf(ToSet(free)) \cup Blocks(e)) \ BlocksOf(ToSet(Free(free, e))))
  /\ UNCHANGED <<truth, proposals>>

Next == \/ \E b \in BlobIDs : (\E n \in 1..2 : WriteBlob(b, n)) \/ ProposeRelocate(b)
        \/ \E p \in proposals : AcceptRelocateBlob(p)
        \/ \E e \in allocated : CollectOrphan(e)
Spec == Init /\ [][Next]_blobVars
-----------------------------------------------------------------------------
(* A block is free, in exactly one allocated extent, or forgotten by a     *)
(* full list: no block is handed out twice and none disappears otherwise.  *)
BlocksAccounted ==
  /\ \A d, e \in allocated : d # e => Blocks(d) \cap Blocks(e) = {}
  /\ \A i, j \in 1..Len(free) : i # j => Blocks(free[i]) \cap Blocks(free[j]) = {}
  /\ BlocksOf(allocated) \cap BlocksOf(ToSet(free)) = {}
  /\ BlocksOf(allocated) \cup BlocksOf(ToSet(free)) \cup dropped = 0..(DiskBlocks - 1)

(* The list stays sorted, joined and within its capacity, so first fit     *)
(* sees every run of free blocks as one extent.                            *)
FreeListCanonical ==
  /\ Len(free) <= Capacity
  /\ \A i \in 1..(Len(free) - 1) : End(free[i]) < free[i + 1].start
  /\ \A i \in 1..Len(free) : free[i].count > 0

(* Of the relocations that observed one version at most one is accepted:   *)
(* a published blob always refers to an allocated extent, and no two blobs *)
(* to the same one.                                                        *)
TruthOwnsExtent ==
  /\ Refs \subseteq allocated
  /\ \A a, b \in BlobIDs : a # b /\ truth[a].version > 0 /\ truth[b].version > 0 => truth[a].ref # truth[b].ref

(* The image's allocator and its host mirror free an extent alike as long  *)
(* as the list has room for it.                                            *)
MirrorsAgree ==
  Len(free) < Capacity => \A e \in allocated : Free(free, e) = FreeInImage(free, e)
=============================================================================
