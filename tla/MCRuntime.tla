----------------------------- MODULE MCRuntime -----------------------------
(***************************************************************************)
(* The runtime of an image for model checking: a reliable topic between    *)
(* vCPUs with store buffers, starting the vCPUs, the link between two      *)
(* executors, leaving the firmware, waiting for NVMe commands, interrupt   *)
(* dispatch and the executor's arenas; and the harness that boots an       *)
(* image.  They share no state; a behaviour is one of one part, and the    *)
(* variables of the others keep their initial values.                      *)
(***************************************************************************)
EXTENDS MCTopic, APStartup, CoreLink, Boot, NvmeCompletion, Runner, Interrupts

VARIABLES
  part,     \* the part this behaviour is about
  st        \* the state of Frames

all == <<vars, startupVars, cl, bt, nvmeVars, rn, ic, part, st>>

(* What an image declares: a queued serial vector that drops the newest, a *)
(* timer on a core with its APIC near, a fatal queue for a vector without  *)
(* a binding, and two bindings of one vector.                              *)
Image(b, q, p, t, n) ==
  [bindings |-> b, queued |-> q, policy |-> p, timers |-> t, near |-> n, period |-> 3]
Images ==
  {Image(<<"serial">>, {"serial", "msi"}, "drop_newest", <<>>, FALSE),
   Image(<<"serial">>, {"serial"}, "drop_oldest", <<"timer">>, TRUE),
   Image(<<"msix">>, {"msi"}, "fatal", <<>>, FALSE),
   Image(<<"msi", "msi">>, {}, "fatal", <<>>, FALSE)}

(* Methods that keep their argument, return their receiver, or either.     *)
Bodies ==
  {<<<<"store", "self", "p">>, <<"return", "p">>>>, <<<<"return", "self">>>>,
   <<<<"return", "self">>, <<"return", "p">>>>}
Mem == INSTANCE Frames
         WITH fr <- st, Word <- 16, RootBase <- 4, RootLength <- 6, Lengths <- {1, 15},
              Aligns <- {0, 2}, Counts <- {2, 9}, Indices <- {1, 2}, ElementSize <- 2, ObjectSize <- 1,
              Methods <- Bodies, Shapes <- {}, MaxStatements <- 5, MaxFrames <- 2
Wrapped == INSTANCE Frames
         WITH fr <- st, Word <- 16, RootBase <- 4, RootLength <- 6, Lengths <- {1},
              Aligns <- {2}, Counts <- {2}, Indices <- {1}, ElementSize <- 2, ObjectSize <- 1,
              Methods <- Bodies, Shapes <- {"wrap"}, MaxStatements <- 6, MaxFrames <- 1

None == [kind |-> "none"]
Apart == Init /\ StartupInit /\ LinkInit /\ BootInit /\ NvmeInit /\ RunnerInit /\ InterruptInit
Settling == bt.size = 2  \* one of the firmware's first maps
Plain == rn.opts = [pipe |-> FALSE, server |-> FALSE, want |-> TRUE, input |-> "none"]
Unqueued == ic.cfg.policy = "fatal"
Idle == Apart /\ ~delayed /\ Settling /\ Plain /\ Unqueued

MCInit ==
  \/ part \in {"topic", "startup", "link"} /\ st = None /\ Idle
  \/ part = "boot" /\ st = None /\ Apart /\ ~delayed /\ Plain /\ Unqueued
  \/ part = "nvme" /\ st = None /\ Apart /\ Settling /\ Plain /\ Unqueued
  \/ part = "interrupts" /\ st = None /\ Apart /\ ~delayed /\ Settling /\ Plain
  \/ part = "frames" /\ Idle /\ Mem!Init
  \/ part = "runner" /\ st = None /\ Apart /\ ~delayed /\ Settling /\ Unqueued

Messaging(A) == part = "topic" /\ A /\ UNCHANGED <<startupVars, cl, bt, nvmeVars, rn, ic, part, st>>
Startup(A) == part = "startup" /\ A /\ UNCHANGED <<vars, cl, bt, nvmeVars, rn, ic, part, st>>
Linking(A) == part = "link" /\ A /\ UNCHANGED <<vars, startupVars, bt, nvmeVars, rn, ic, part, st>>
Booting(A) == part = "boot" /\ A /\ UNCHANGED <<vars, startupVars, cl, nvmeVars, rn, ic, part, st>>
Storage(A) == part = "nvme" /\ A /\ UNCHANGED <<vars, startupVars, cl, bt, rn, ic, part, st>>
Dispatching(A) == part = "interrupts" /\ A /\ UNCHANGED <<vars, startupVars, cl, bt, nvmeVars, rn, part, st>>
Executing(A) == part = "frames" /\ A /\ UNCHANGED <<vars, startupVars, cl, bt, nvmeVars, rn, ic, part>>
Running(A) == part = "runner" /\ A /\ UNCHANGED <<vars, startupVars, cl, bt, nvmeVars, ic, part, st>>

MCNext ==
  \/ Messaging(Next /\ DistinctPayloads)
  \/ Startup(StartupNext)
  \/ Linking(LinkNext)
  \/ Booting(BootNext)
  \/ Storage(NvmeNext)
  \/ Dispatching(InterruptNext)
  \/ Executing(Mem!Next)
  \/ Running(RunnerNext)

(* The fairness each part states for itself.                               *)
MCSpec ==
  /\ MCInit /\ [][MCNext]_all
  /\ WF_all(Startup(BspStep))
  /\ WF_all(Storage(DeviceComplete)) /\ WF_all(Storage(MessageArrives))
  /\ WF_all(Storage(NvmeStep))
  /\ WF_all(Dispatching(InterruptStep)) /\ WF_all(Dispatching(TimerStep))
  /\ WF_all(Booting(BootProgress))
  /\ WF_all(Running(Caller)) /\ WF_all(Running(CopyOutput)) /\ WF_all(Running(ReadSerial))
  /\ WF_all(Running(Deadline)) /\ WF_all(Running(Kill))

(* The behaviours of one part alone, for what a document says of it.       *)
EntrySpec == part = "startup" /\ st = None /\ Idle /\ [][MCNext]_all
LateInterruptSpec ==
  /\ part = "nvme" /\ st = None /\ Apart /\ Settling /\ Plain /\ Unqueued /\ [][MCNext]_all
  /\ WF_all(Storage(DeviceComplete)) /\ WF_all(Storage(MessageArrives))
  /\ WF_all(Storage(NvmeStep))
WrapSpec == part = "frames" /\ Idle /\ Mem!Init /\ [][Executing(Wrapped!Next)]_all
-----------------------------------------------------------------------------
(* The properties of Topic, APStartup, CoreLink and Boot are those modules'*)
(* own: ReliableInv, ReliableDelivery, ImplementsBroadcast, StartupInv,    *)
(* HandoffOwned, EntryOwned, LinkInOrder and OwnedWithFinalMap hold in     *)
(* every part of the run, as the variables of a part at rest do not move.  *)

(* Neither loop at boot runs for ever: the transition ends with the        *)
(* hardware owned or an exhausted arena, and starting the vCPUs with the   *)
(* bootstrap executor running or a trap, whatever the others answer.       *)
BootEnds ==
  (part \in {"startup", "boot"}) ~>
    ((part = "startup" /\ StartupSettled) \/ (part = "boot" /\ Settled))

(* An interrupt that is taken is acknowledged, or the machine has stopped: *)
(* no path through a unit leaves the local APIC blocked (Interrupts).      *)
EveryInterruptEnds ==
  (part = "interrupts" /\ InService) ~> (part = "interrupts" /\ InterruptEnded)

(* No accepted program keeps a value of an ended frame (Frames).           *)
NoValueOutlivesItsFrame == part = "frames" => Mem!NoValueOutlivesItsFrame
(* Live reservations do not overlap, open frames lie inside what their     *)
(* parents handed out, and an element access that does not trap stays in   *)
(* its array, with sums that wrap around too (Frames).                     *)
ArenasSound == part = "frames" => Mem!ReservationsDisjoint /\ Mem!FramesNest /\ Mem!AccessInside

(* A boot ends by its deadline at the latest, unless the serial pipe is    *)
(* opened when QEMU has gone (Runner).                                     *)
RunEnds == (part = "runner") ~> (part = "runner" /\ Ended)
=============================================================================
