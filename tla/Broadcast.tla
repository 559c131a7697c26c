----------------------------- MODULE Broadcast -----------------------------
(***************************************************************************)
(* What a reliable topic promises: a bounded broadcast queue.  Messages    *)
(* are published in one order; every subscriber receives that order,       *)
(* nothing skipped and nothing twice; a message is published only while    *)
(* every subscriber is fewer than Depth messages behind.                   *)
(***************************************************************************)
EXTENDS Integers, Sequences

CONSTANTS Subscriber, Depth, Values

VARIABLES
  log,      \* what has been published
  recv      \* recv[s]: what subscriber s has received

Init ==
  /\ log = << >>
  /\ recv = [s \in Subscriber |-> << >>]

Publish ==
  /\ \A s \in Subscriber : Len(log) - Len(recv[s]) < Depth
  /\ \E v \in Values : log' = Append(log, v)
  /\ UNCHANGED recv

Deliver(s) ==
  /\ Len(recv[s]) < Len(log)
  /\ recv' = [recv EXCEPT ![s] =
                Append(@, [seq |-> Len(@) + 1, val |-> log[Len(@) + 1]])]
  /\ UNCHANGED log

Next == Publish \/ \E s \in Subscriber : Deliver(s)

Spec == Init /\ [][Next]_<<log, recv>>
=============================================================================
