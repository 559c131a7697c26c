-------------------------------- MODULE Boot --------------------------------
(***************************************************************************)
(* Leaving the firmware (wrela/platform/uefi/transition.wrela): memory_map *)
(* and exit_to_owned_hardware fetch the memory map into a buffer of the    *)
(* delegated arena, with a larger buffer when it does not fit, and leave   *)
(* boot services with the map's key, fetching the map again when the key   *)
(* is stale.  The firmware may change its map until it has been left.      *)
(***************************************************************************)
EXTENDS Integers

CONSTANTS ArenaLength, FirstLength, Slack,  \* 16384 and 4096 in the code
          MapSizes, MaxChanges              \* what the firmware's map may grow to, and how often it changes

ASSUME BootAssumption ==
  /\ ArenaLength \in Nat /\ FirstLength \in Nat /\ Slack \in Nat
  /\ MapSizes \subseteq Nat /\ MaxChanges \in Nat

VARIABLE bt

BufferTooSmall == "0x8000000000000005"
InvalidParameter == "0x8000000000000002"
Success == "0"

BootInit == \E s \in MapSizes :
          bt = [pc |-> "allocate", call |-> "memory_map", want |-> FirstLength, offset |-> 0, base |-> 0, length |-> 0,
                key |-> 0, size |-> s, services |-> "on", finalKey |-> -1, finalSize |-> 0, paged |-> -1]

(* External: the firmware allocates or frees memory for itself.            *)
ChangeMap ==
  /\ bt.services = "on" /\ bt.key < MaxChanges
  /\ \E s \in MapSizes : bt' = [bt EXCEPT !.key = @ + 1, !.size = s]

(* DelegatedMemory.allocate; BootPanic().fail does not return.             *)
AllocateBuffer ==
  /\ bt.pc = "allocate"
  /\ bt' = IF bt.want > ArenaLength - bt.offset THEN [bt EXCEPT !.pc = "panic"]
           ELSE [bt EXCEPT !.base = bt.offset, !.length = bt.want, !.offset = @ + bt.want, !.pc = "get"]

(* get_memory_map, and the loop that asks for a larger buffer.             *)
MapStatus == IF bt.size > bt.length THEN BufferTooSmall ELSE Success
GetMemoryMap ==
  /\ bt.pc = "get"
  /\ bt' = CASE MapStatus = BufferTooSmall -> [bt EXCEPT !.want = bt.size + Slack, !.pc = "allocate"]
             [] MapStatus = Success /\ bt.call = "memory_map" ->
                  [bt EXCEPT !.call = "exit_to_owned_hardware", !.want = FirstLength, !.pc = "allocate"]
             [] OTHER -> [bt EXCEPT !.finalKey = bt.key, !.finalSize = bt.size, !.pc = "exit"]

(* exit_boot_services: the firmware refuses any key but its current one.   *)
ExitStatus == IF bt.finalKey = bt.key THEN Success ELSE InvalidParameter
(* Variant: the answer is not looked at.                                   *)
ExitUnchecked ==
  /\ bt.pc = "exit"
  /\ bt' = [bt EXCEPT !.services = IF ExitStatus = Success THEN "off" ELSE "on", !.pc = "own"]
(* Variant: the refused key is tried again.                                *)
ExitSameKey ==
  /\ bt.pc = "exit"
  /\ bt' = IF ExitStatus = InvalidParameter THEN bt ELSE [bt EXCEPT !.services = "off", !.pc = "own"]
ExitBootServices ==
  /\ bt.pc = "exit"
  /\ bt' = IF ExitStatus = InvalidParameter THEN [bt EXCEPT !.pc = "get"] ELSE [bt EXCEPT !.services = "off", !.pc = "own"]

(* build_identity_paging and activate_owned_hardware.                      *)
OwnHardware == /\ bt.pc = "own"
       /\ bt' = [bt EXCEPT !.paged = bt.finalKey, !.pc = "owned"]

BootProgress == AllocateBuffer \/ GetMemoryMap \/ ExitBootServices \/ OwnHardware
BootNext == BootProgress \/ ChangeMap
BootSpec == BootInit /\ [][BootNext]_bt /\ WF_bt(BootProgress)
-----------------------------------------------------------------------------
(* The page tables are built after the firmware has let go, from a map     *)
(* that is complete and is the firmware's last, however often it changed   *)
(* between a fetch and the attempt to leave; the buffer it was written to  *)
(* lies inside the delegated arena.                                        *)
OwnedWithFinalMap ==
  /\ bt.base + bt.length <= ArenaLength
  /\ bt.paged # -1 => /\ bt.services = "off" /\ bt.paged = bt.key
                      /\ bt.finalSize = bt.size /\ bt.finalSize <= bt.length

(* The image owns the hardware, or has stopped on an exhausted arena: what *)
(* the two retry loops must come to.                                       *)
Settled == bt.pc \in {"owned", "panic"}
=============================================================================
