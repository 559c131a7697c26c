------------------------------ MODULE CoreLink ------------------------------
(***************************************************************************)
(* The ring between two executors (wrela/machine/x86_64/core_link.wrela).  *)
(* Its ends share the slots and three control words: head, tail and the    *)
(* number of occupied slots, which both ends read and write back.  Every   *)
(* access of try_send and of try_next is a step.  A call ends when its     *)
(* stores have reached memory.                                             *)
(***************************************************************************)
EXTENDS Integers, Sequences

CONSTANTS Capacity, MaxSends  \* the values sent are 1..MaxSends
ASSUME CoreLinkAssumption == Capacity \in Nat \ {0}

VARIABLE cl

LinkInit == cl = [head |-> 0, tail |-> 0, occupied |-> 0, slots |-> [i \in 0..(Capacity - 1) |-> 0],
              send |-> "idle", sendTail |-> 0, sendOccupied |-> 0,
              next |-> "idle", nextHead |-> 0, nextOccupied |-> 0, value |-> 0,
              sent |-> <<>>, got |-> <<>>, offered |-> 0, refusedEarly |-> "no", overlapped |-> "no"]

(* Variant: the ring is taken to be one slot shorter.                      *)
AdvanceShort(i) == IF i + 2 = Capacity THEN 0 ELSE IF i + 1 = Capacity THEN 0 ELSE i + 1
Advance(i) == IF i + 1 = Capacity THEN 0 ELSE i + 1
-----------------------------------------------------------------------------
(* Variables of the model only: did calls overlap, was a link with room    *)
(* called full.                                                            *)
Overlap(other) == IF other = "idle" THEN cl.overlapped ELSE "yes"
Refused == IF Len(cl.sent) - Len(cl.got) < Capacity THEN "yes" ELSE cl.refusedEarly

(* try_send.                                                               *)
SendStart ==
  /\ cl.send = "idle" /\ cl.offered < MaxSends
  /\ cl' = [cl EXCEPT !.send = "occupied", !.sendTail = cl.tail, !.offered = @ + 1, !.overlapped = Overlap(cl.next)]
SendOccupied ==
  /\ cl.send = "occupied"
  /\ cl' = IF cl.occupied >= Capacity THEN [cl EXCEPT !.send = "idle", !.refusedEarly = Refused]
           ELSE [cl EXCEPT !.send = "slot", !.sendOccupied = cl.occupied]
SendSlot ==
  /\ cl.send = "slot"
  /\ cl' = [cl EXCEPT !.slots = [@ EXCEPT ![cl.sendTail] = cl.offered], !.send = "tail"]
SendTail ==
  /\ cl.send = "tail"
  /\ cl' = [cl EXCEPT !.tail = Advance(cl.sendTail), !.send = "done"]
SendDone ==
  /\ cl.send = "done"
  /\ cl' = [cl EXCEPT !.occupied = cl.sendOccupied + 1, !.sent = Append(@, cl.offered), !.send = "idle"]

(* try_next.                                                               *)
NextStart ==
  /\ cl.next = "idle"
  /\ cl' = IF cl.occupied = 0 THEN [cl EXCEPT !.overlapped = Overlap(cl.send)]
           ELSE [cl EXCEPT !.next = "slot", !.nextOccupied = cl.occupied, !.overlapped = Overlap(cl.send)]
NextSlot ==
  /\ cl.next = "slot"
  /\ cl' = [cl EXCEPT !.nextHead = cl.head, !.value = cl.slots[cl.head], !.next = "advance"]
NextHead ==
  /\ cl.next = "advance"
  /\ cl' = [cl EXCEPT !.head = Advance(cl.nextHead), !.next = "done"]
NextDone ==
  /\ cl.next = "done" /\ Len(cl.got) < MaxSends
  /\ cl' = [cl EXCEPT !.occupied = cl.nextOccupied - 1, !.got = Append(@, cl.value), !.next = "idle"]

LinkNext == \/ SendStart \/ SendOccupied \/ SendSlot \/ SendTail \/ SendDone
        \/ NextStart \/ NextSlot \/ NextHead \/ NextDone
LinkSpec == LinkInit /\ [][LinkNext]_cl
-----------------------------------------------------------------------------
(* As long as no call of one end begins during a call of the other, the    *)
(* link is a bounded queue: values arrive once each and in order, whatever *)
(* is accepted and not yet taken is counted, and only a full link refuses. *)
(* Once calls overlap this is lost: occupied is read and written back.     *)
LinkInOrder ==
  cl.overlapped = "no" =>
    /\ Len(cl.got) <= Len(cl.sent) /\ \A i \in 1..Len(cl.got) : cl.got[i] = cl.sent[i]
    /\ cl.send = "idle" /\ cl.next = "idle" => cl.occupied = Len(cl.sent) - Len(cl.got)
    /\ cl.refusedEarly = "no"
=============================================================================
