----------------------------- MODULE MCStorage -----------------------------
(***************************************************************************)
(* The storage for model checking: the event log with its recovery, the    *)
(* blob store, and the formats on the disk.  A behaviour is one of one     *)
(* part; the variables of the others keep their initial values.            *)
(***************************************************************************)
EXTENDS EventLog

VARIABLES
  part,
  free, allocated, truth, proposals, dropped,
  sf

blobs == <<free, allocated, truth, proposals, dropped>>

Blobs == INSTANCE BlobStore
           WITH DiskBlocks <- 6, Capacity <- 2, BlobIDs <- {1, 2}, MaxVersion <- 2

(* The calls whose results are compared with what they promise: sums of    *)
(* offset and size that wrap around, indices of every stride, block        *)
(* addresses around the word boundary, and superblock copies of which one  *)
(* may be torn.                                                            *)
Superblocks == [valid : BOOLEAN, generation : 1 .. 3]
Regions == [offset : {0, 2, 5, 11, 15}, size : {0, 2, 3, 5, 14}]
Calls ==
  [op : {"superblock"}, a : Superblocks, b : Superblocks]
    \cup {[op |-> "regions", regions |-> <<r, s>>] : r \in Regions, s \in Regions}
    \cup [op : {"pack"}, lengths : UNION {[1 .. n -> 0 .. 2] : n \in 1 .. 4}, base : {7}, stride : 0 .. 3]
    \cup [op : {"command"}, lba : {0, 1, 15, 16, 17, 255}, count : 0 .. 5, fua : BOOLEAN]
Formats == INSTANCE StorageFormat
             WITH Word <- 16, DiskBytes <- 12, MaxTransferBlocks <- 4, FUABit <- 4, Inputs <- Calls

NoCall == [done |-> FALSE]
EmptyLog == LogInit /\ dev = [perLBA |-> 1, mode |-> "FUA"]

Init ==
  \/ part = "log" /\ LogInit /\ Blobs!Init /\ sf = NoCall
  \/ part = "blobs" /\ EmptyLog /\ Blobs!Init /\ sf = NoCall
  \/ part = "formats" /\ EmptyLog /\ Blobs!Init /\ Formats!Init

Next ==
  /\ \/ part = "log" /\ LogNext /\ UNCHANGED <<blobs, sf>>
     \/ part = "blobs" /\ Blobs!Next /\ UNCHANGED <<logVars, sf>>
     \/ part = "formats" /\ Formats!Next /\ UNCHANGED <<logVars, blobs>>
  /\ UNCHANGED part

Spec == Init /\ [][Next]_<<part, logVars, blobs, sf>>
-----------------------------------------------------------------------------
(* Every block is free, allocated once, or forgotten by a full list, and   *)
(* the free list is sorted, joined and within its capacity (BlobStore).    *)
BlocksAccounted == Blobs!BlocksAccounted /\ Blobs!FreeListCanonical
(* A published blob owns its extent (BlobStore).                           *)
TruthOwnsExtent == Blobs!TruthOwnsExtent
(* The image's allocator and its host mirror agree (BlobStore).            *)
MirrorsAgree == Blobs!MirrorsAgree

(* The calls on the disk's formats keep their promises: a region map is    *)
(* accepted exactly when it is sound, the sparse index leads to every slot *)
(* of a segment, a data command decodes to its arguments, and the newest   *)
(* valid superblock is chosen (StorageFormat).                             *)
FormatsHold ==
  part = "formats" =>
    /\ Formats!RegionsDisjoint /\ Formats!IndexFindsSlot
    /\ Formats!CommandDecodes /\ Formats!NewestSuperblock
=============================================================================
