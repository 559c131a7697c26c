----------------------------- MODULE APStartup -----------------------------
(***************************************************************************)
(* How the bootstrap vCPU (0) starts the other vCPUs one after the other   *)
(* and then enters its own executor (compiler/codegen/vcpu_start.go).      *)
(* All of them go through one trampoline page: before each INIT-SIPI-SIPI  *)
(* the bootstrap vCPU patches the page's handoff slots, and then polls the *)
(* started vCPU's ready word a bounded number of times.                    *)
(*                                                                         *)
(* Everything the slots can hold (a stack, an executor object, a start     *)
(* method, a ready word) belongs to one vCPU and is represented by its     *)
(* number.  The slots that are equal for all (local APIC base, IDT, page   *)
(* tables) are left out.  Each action accesses shared memory once.         *)
(***************************************************************************)
EXTENDS Integers, Sequences

CONSTANTS
  NumAps,     \* vCPUs other than 0, started in the order 1, 2, ...
  PollLimit   \* apStartupReadyPollLimit

ASSUME APStartupAssumption ==
  /\ NumAps \in Nat \ {0}
  /\ PollLimit \in Nat \ {0}

Ap == 1 .. NumAps
Vcpu == 0 .. NumAps

HandoffSlot == {"entry", "stack", "context", "ready"}

VARIABLES
  tramp,    \* [HandoffSlot -> Vcpu]: the handoff slots, 0 before the first patch
  ready,    \* [Ap -> {0, 1}]: the ready words
  command,  \* [Vcpu -> Vcpu]: the APIC ID other vCPUs send v's wakes to
  bsp,      \* the bootstrap vCPU: where it is, whom it starts, polls left
  ipi,      \* ipi[v]: INIT and SIPI on their way to v
  ap,       \* ap[v]: where v is
  loaded    \* loaded[v]: what v has loaded from the handoff slots

startupVars == <<tramp, ready, command, bsp, ipi, ap, loaded>>

StartupInit ==
  /\ tramp = [x \in HandoffSlot |-> 0]
  /\ ready = [v \in Ap |-> 0]
  /\ command = [v \in Vcpu |-> 0]
  /\ bsp = [pc |-> "prepare", v |-> 1, polls |-> 0]
  /\ ipi = [v \in Ap |-> << >>]
  /\ ap = [v \in Ap |-> "off"]
  /\ loaded = [v \in Ap |-> [x \in HandoffSlot |-> 0]]

(***************************************************************************)
(* emitVcpuStart of vCPU bsp.v.                                            *)
(***************************************************************************)
BspGoto(from, to) == bsp.pc = from /\ bsp' = [bsp EXCEPT !.pc = to]

Prepare ==
  /\ BspGoto("prepare", "entry")
  /\ ready' = [ready EXCEPT ![bsp.v] = 0]
  /\ UNCHANGED <<tramp, command, ipi, ap, loaded>>

AfterPatch == [entry |-> "stack", stack |-> "context", context |-> "ready", ready |-> "command"]

Patch ==
  /\ bsp.pc \in HandoffSlot
  /\ BspGoto(bsp.pc, AfterPatch[bsp.pc])
  /\ tramp' = [tramp EXCEPT ![bsp.pc] = bsp.v]
  /\ UNCHANGED <<ready, command, ipi, ap, loaded>>

StoreApicId ==
  /\ BspGoto("command", "init")
  /\ command' = [command EXCEPT ![bsp.v] = bsp.v]
  /\ UNCHANGED <<tramp, ready, ipi, ap, loaded>>

AfterSend == [init |-> "sipi", sipi |-> "sipi_again", sipi_again |-> "poll"]

(* Variant: the next vCPU is started without waiting for this one.           *)
SendIpiNoWait ==
  /\ bsp.pc \in DOMAIN AfterSend
  /\ ipi' = [ipi EXCEPT ![bsp.v] = Append(@, IF bsp.pc = "init" THEN "init" ELSE "sipi")]
  /\ bsp' = IF bsp.pc # "sipi_again"
            THEN [bsp EXCEPT !.pc = AfterSend[bsp.pc]]
            ELSE IF bsp.v = NumAps
                 THEN [bsp EXCEPT !.pc = "enter"]
                 ELSE [pc |-> "prepare", v |-> bsp.v + 1, polls |-> 0]
  /\ UNCHANGED <<tramp, ready, command, ap, loaded>>

SendIpi ==
  /\ bsp.pc \in DOMAIN AfterSend
  /\ ipi' = [ipi EXCEPT ![bsp.v] = Append(@, IF bsp.pc = "init" THEN "init" ELSE "sipi")]
  /\ bsp' = [bsp EXCEPT !.pc = AfterSend[bsp.pc], !.polls = PollLimit]
  /\ UNCHANGED <<tramp, ready, command, ap, loaded>>

Started ==
  bsp' = IF bsp.v = NumAps
         THEN [pc |-> "enter", v |-> bsp.v, polls |-> 0]
         ELSE [pc |-> "prepare", v |-> bsp.v + 1, polls |-> 0]

(* Variant: a timeout returns like a success.                                *)
PollReadyIgnored ==
  /\ bsp.pc = "poll"
  /\ \/ ready[bsp.v] = 1 /\ Started
     \/ ready[bsp.v] # 1 /\ bsp.polls > 1 /\ bsp' = [bsp EXCEPT !.polls = @ - 1]
     \/ ready[bsp.v] # 1 /\ bsp.polls = 1 /\ Started
  /\ UNCHANGED <<tramp, ready, command, ipi, ap, loaded>>

(* emitWaitForVcpuReady; _wrela_ap_startup_timeout halts for ever.           *)
PollReady ==
  /\ bsp.pc = "poll"
  /\ \/ ready[bsp.v] = 1 /\ Started
     \/ ready[bsp.v] # 1 /\ bsp.polls > 1 /\ bsp' = [bsp EXCEPT !.polls = @ - 1]
     \/ ready[bsp.v] # 1 /\ bsp.polls = 1 /\ bsp' = [bsp EXCEPT !.pc = "trap", !.polls = 0]
  /\ UNCHANGED <<tramp, ready, command, ipi, ap, loaded>>

(* emitVcpuEnter *)
Enter ==
  /\ BspGoto("enter", "run")
  /\ command' = [command EXCEPT ![0] = 0]
  /\ UNCHANGED <<tramp, ready, ipi, ap, loaded>>

BspStep == Prepare \/ Patch \/ StoreApicId \/ SendIpi \/ PollReady \/ Enter

(***************************************************************************)
(* vCPU v: INIT makes it wait for a SIPI, which starts the trampoline; a    *)
(* SIPI in any other state is ignored.                                     *)
(***************************************************************************)
ReceiveIpi(v) ==
  /\ ipi[v] # << >>
  /\ ipi' = [ipi EXCEPT ![v] = Tail(@)]
  /\ ap' = [ap EXCEPT ![v] =
              IF Head(ipi[v]) = "init" THEN "wait_for_sipi"
              ELSE IF @ = "wait_for_sipi" THEN "stack" ELSE @]
  /\ UNCHANGED <<tramp, ready, command, bsp, loaded>>

AfterLoad == [stack |-> "context", context |-> "ready", ready |-> "signal", entry |-> "run"]

(* The trampoline's loads from the handoff slots; the entry is the last one. *)
LoadSlot(v) ==
  /\ ap[v] \in HandoffSlot
  /\ loaded' = [loaded EXCEPT ![v][ap[v]] = tramp[ap[v]]]
  /\ ap' = [ap EXCEPT ![v] = AfterLoad[@]]
  /\ UNCHANGED <<tramp, ready, command, bsp, ipi>>

SignalReady(v) ==
  /\ ap[v] = "signal"
  /\ ready' = [ready EXCEPT ![loaded[v]["ready"]] = 1]
  /\ ap' = [ap EXCEPT ![v] = "entry"]
  /\ UNCHANGED <<tramp, command, bsp, ipi, loaded>>

ApStep(v) == ReceiveIpi(v) \/ LoadSlot(v) \/ SignalReady(v)

StartupNext == BspStep \/ \E v \in Ap : ApStep(v)

StartupSpec == StartupInit /\ [][StartupNext]_startupVars

(* The bootstrap vCPU keeps executing; any other vCPU may be slow, or answer  *)
(* nothing at all.                                                           *)
StartupFairSpec == StartupSpec /\ WF_startupVars(BspStep)

-----------------------------------------------------------------------------
ApLabel == {"off", "wait_for_sipi", "stack", "context", "ready", "signal", "entry", "run"}

BspRecord ==
  [pc : HandoffSlot \cup {"prepare", "command", "init", "sipi", "sipi_again", "poll",
                   "trap", "enter", "run"},
   v : Ap, polls : 0 .. PollLimit]

(* Every variable has its type.                                              *)
StartupTypeOK ==
  /\ tramp \in [HandoffSlot -> Vcpu]
  /\ ready \in [Ap -> {0, 1}]
  /\ command \in [Vcpu -> Vcpu]
  /\ bsp \in BspRecord
  /\ ipi \in [Ap -> Seq({"init", "sipi"})]
  /\ ap \in [Ap -> ApLabel]
  /\ loaded \in [Ap -> [HandoffSlot -> Vcpu]]

Signalled(v) == ap[v] \in {"entry", "run"}

(* A vCPU that has signalled its ready word runs on its own stack, with its  *)
(* own executor object: the handoff slots it loaded were its own, although   *)
(* all vCPUs share them.                                                     *)
HandoffOwned ==
  \A v \in Ap :
    Signalled(v) => loaded[v]["stack"] = v /\ loaded[v]["context"] = v /\ loaded[v]["ready"] = v

(* The bootstrap vCPU goes on only past vCPUs that have signalled: it never  *)
(* continues with one executor fewer.                                        *)
NoneSkipped ==
  \A v \in Ap : v < bsp.v \/ bsp.pc \in {"enter", "run"} => Signalled(v)

(* A vCPU whose executor can be waiting has the destination of its wakes     *)
(* recorded.                                                                 *)
WakeDestinationKnown == \A v \in Ap : Signalled(v) => command[v] = v

(* A vCPU calls the start method of its own executor.                        *)
EntryOwned == \A v \in Ap : ap[v] = "run" => loaded[v]["entry"] = v

(* The bootstrap vCPU has entered its executor or has trapped: where startup *)
(* must come to, whatever the other vCPUs do.                                *)
StartupSettled == bsp.pc \in {"run", "trap"}
-----------------------------------------------------------------------------
(***************************************************************************)
(* The inductive invariant behind HandoffOwned.                            *)
(***************************************************************************)
Sent == {"sipi", "sipi_again", "poll", "trap", "enter", "run"}

(* v has been sent its INIT.                                                 *)
Addressed(v) == v < bsp.v \/ (v = bsp.v /\ bsp.pc \in Sent)

(* From its INIT on, the slots hold what belongs to the vCPU being started.  *)
SlotsPatched ==
  /\ bsp.pc \in Sent \cup {"init", "command"} => \A x \in HandoffSlot : tramp[x] = bsp.v
  /\ bsp.pc \in {"stack", "context", "ready"} => tramp["entry"] = bsp.v
  /\ bsp.pc \in {"context", "ready"} => tramp["stack"] = bsp.v
  /\ bsp.pc = "ready" => tramp["context"] = bsp.v

(* A vCPU that is not addressed is off; INIT comes first and only once.      *)
IpisOrdered(v) ==
  /\ ~Addressed(v) => ap[v] = "off" /\ ipi[v] = << >>
  /\ \A i \in 1 .. Len(ipi[v]) : ipi[v][i] = "init" => i = 1 /\ ap[v] = "off"

Loaded(v) ==
  /\ ap[v] \in {"context", "ready", "signal", "entry", "run"} => loaded[v]["stack"] = v
  /\ ap[v] \in {"ready", "signal", "entry", "run"} => loaded[v]["context"] = v
  /\ ap[v] \in {"signal", "entry", "run"} => loaded[v]["ready"] = v

(* The bootstrap vCPU passes v, and its ready word is set, only after v has  *)
(* signalled.                                                                *)
Ordered(v) ==
  /\ ready[v] = 1 => Signalled(v)
  /\ v < bsp.v => Signalled(v)
  /\ bsp.pc \in {"enter", "run"} => Signalled(v)
  /\ Addressed(v) \/ (v = bsp.v /\ bsp.pc = "init") => command[v] = v

StartupInv ==
  /\ StartupTypeOK
  /\ SlotsPatched
  /\ \A v \in Ap : IpisOrdered(v) /\ Loaded(v) /\ Ordered(v)
=============================================================================
