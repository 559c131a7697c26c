------------------------------ MODULE MCTopic ------------------------------
(* Topic for model checking.                                               *)
EXTENDS Topic

(* The protocol copies payloads and never inspects them: one distinct      *)
(* payload per message exposes every wrong, torn or repeated delivery.     *)
DistinctPayloads ==
  pc[Producer] = "idle" /\ pc'[Producer] \in {"min", "seq"}
    => preg'.val = Len(log) + 1

(* What physical memory may hold where a publish with a lost base register *)
(* reads: a word that looks disarmed, or any other word.                   *)
MCLowWords == {Disarmed, 0}
=============================================================================
