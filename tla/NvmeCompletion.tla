---------------------------- MODULE NvmeCompletion ----------------------------
(***************************************************************************)
(* How an I/O command of NvmeDirectStorage is waited for                   *)
(* (wrela/machine/x86_64/nvme.wrela).                                      *)
(*                                                                         *)
(* The completion queue of the foreground queue pair has two readers on    *)
(* one vCPU, each with a head and a phase of its own:                      *)
(*   - the interrupt receiver of NvmeIoPath drains the queue and publishes *)
(*     what it drained as one NvmeCompletionInterrupt on a topic;          *)
(*   - wait_io_completion_interrupt looks at one entry itself after it has *)
(*     armed the topic, and otherwise takes the topic's events.            *)
(* Commands are issued one at a time (write_first_append: write, flush,    *)
(* read back).  A message-signalled interrupt is a write of the device     *)
(* that follows the write of the completion entry: it may reach the local  *)
(* APIC late (delayed), never after the device's next entry.               *)
(***************************************************************************)
EXTENDS Integers, Sequences

CONSTANTS
    QueueDepth,   \* entries of the completion queue
    IdSpace,      \* number of values of a command identifier (2^16 in the code)
    MaxWaits,     \* NVME_COMPLETION_TIMEOUT_POLLS
    MaxCommands   \* bound on the commands issued

(* Command identifiers outlast the queue and the events of four commands   *)
(* (65536 identifiers, NVME_FOREGROUND_IO_QUEUE_DEPTH is 256).             *)
ASSUME NvmeAssumption ==
    /\ QueueDepth \in Nat \ {0, 1}
    /\ IdSpace \in Nat /\ IdSpace > QueueDepth + 1 /\ IdSpace > 4
    /\ MaxWaits \in Nat \ {0} /\ MaxCommands \in Nat

VARIABLES
    delayed,     \* may the interrupt reach the APIC after the entry is visible?
    device,      \* [tail, phase, doorbell, pending]: where the device writes next,
                 \* the head it was told, and the command it works on (0: none)
    cq,          \* the entries of the completion queue
    msi,         \* an interrupt message is on its way
    vector,      \* the vector is requested in the local APIC
    storage,     \* [head, phase, nextId]: io_head, io_phase, next_command_id
    path,        \* [head, phase]: the NvmeCompletionQueue of NvmeIoPath
    events,      \* published events that the waiter has not taken
    cpu,         \* [pc, sti, command, wait] of the vCPU
    issued,      \* number of commands issued
    completed    \* number of commands the device completed without error

nvmeVars == <<delayed, device, cq, msi, vector, storage, path, events, cpu, issued, completed>>

QueueSlot == 0 .. QueueDepth - 1
CommandId == 0 .. IdSpace - 1
Entry == [phase : BOOLEAN, command : CommandId, failed : BOOLEAN]
CompletionInterrupt == [count : 0 .. QueueDepth, last : CommandId, failed : BOOLEAN]
WaitLabel == {"idle", "submitted", "first_try", "armed", "halted", "woken", "second_try", "panic"}

NvmeTypeOK ==
    /\ delayed \in BOOLEAN
    /\ device \in [tail : QueueSlot, phase : BOOLEAN, doorbell : QueueSlot, pending : CommandId]
    /\ cq \in [QueueSlot -> Entry]
    /\ msi \in BOOLEAN
    /\ vector \in BOOLEAN
    /\ storage \in [head : QueueSlot, phase : BOOLEAN, nextId : CommandId]
    /\ path \in [head : QueueSlot, phase : BOOLEAN]
    /\ events \in Seq(CompletionInterrupt)
    /\ cpu \in [pc : WaitLabel, sti : BOOLEAN, command : CommandId, wait : 0 .. MaxWaits]
    /\ issued \in 0 .. MaxCommands
    /\ completed \in 0 .. issued

(* initialize zeroes the queues; no entry exists when the first command is *)
(* issued, so synchronize_foreground_completion_head leaves the head at 0. *)
NvmeInit ==
    /\ delayed \in BOOLEAN
    /\ device = [tail |-> 0, phase |-> TRUE, doorbell |-> 0, pending |-> 0]
    /\ cq = [i \in QueueSlot |-> [phase |-> FALSE, command |-> 0, failed |-> FALSE]]
    /\ msi = FALSE
    /\ vector = FALSE
    /\ storage = [head |-> 0, phase |-> TRUE, nextId |-> 1]
    /\ path = [head |-> 0, phase |-> TRUE]
    /\ events = <<>>
    /\ cpu = [pc |-> "idle", sti |-> TRUE, command |-> 0, wait |-> 0]
    /\ issued = 0
    /\ completed = 0

-----------------------------------------------------------------------------
(* The queue arithmetic of both readers.                                   *)

(* advance: n entries on, the phase turning over at the end of the queue. *)
AdvanceHead(head, n) == (head + n) % QueueDepth
AdvancePhase(head, phase, n) == IF ((head + n) \div QueueDepth) % 2 = 1 THEN ~phase ELSE phase

(* allocate_command_id: 0 is skipped when the identifier wraps around. *)
NextCommandId(id) == IF (id + 1) % IdSpace = 0 THEN 1 ELSE id + 1

(* Is the i-th entry from the receiver's head a new one? *)
NewEntry(i) ==
    cq[AdvanceHead(path.head, i)].phase = AdvancePhase(path.head, path.phase, i)

(* NvmeCompletionQueue.drain: the new entries up to the first old one. *)
DrainCount ==
    CHOOSE n \in 0 .. QueueDepth :
        /\ \A i \in 0 .. n - 1 : NewEntry(i)
        /\ n < QueueDepth => ~NewEntry(n)

Drained(n) ==
    [count  |-> n,
     last   |-> IF n = 0 THEN 0 ELSE cq[AdvanceHead(path.head, n - 1)].command,
     failed |-> \E i \in 0 .. n - 1 : cq[AdvanceHead(path.head, i)].failed]

-----------------------------------------------------------------------------
(* The device and the interrupt message.                                   *)

(* The command is carried out and its entry written, unless the queue is   *)
(* full as far as the device knows.  The interrupt follows the entry.      *)
DeviceComplete ==
    \E failed \in BOOLEAN :
        /\ device.pending # 0
        /\ AdvanceHead(device.tail, 1) # device.doorbell
        /\ ~msi
        /\ cq' = [cq EXCEPT ![device.tail] =
                     [phase |-> device.phase, command |-> device.pending, failed |-> failed]]
        /\ device' = [device EXCEPT !.tail = AdvanceHead(device.tail, 1),
                                    !.phase = AdvancePhase(device.tail, device.phase, 1),
                                    !.pending = 0]
        /\ completed' = IF failed THEN completed ELSE completed + 1
        /\ IF delayed THEN msi' = TRUE /\ vector' = vector ELSE msi' = msi /\ vector' = TRUE
        /\ UNCHANGED <<delayed, storage, path, events, cpu, issued>>

MessageArrives ==
    /\ msi
    /\ msi' = FALSE
    /\ vector' = TRUE
    /\ UNCHANGED <<delayed, device, cq, storage, path, events, cpu, issued, completed>>

-----------------------------------------------------------------------------
(* The vCPU.  A requested interrupt is taken before the next instruction   *)
(* whenever interrupts are enabled.                                        *)

InterruptTaken == cpu.sti /\ vector
Runs(pc) == cpu.pc = pc /\ ~InterruptTaken

(* The dispatch unit of vector 0x50: the receiver drains the queue, writes *)
(* its doorbell if it drained anything, and the event, be it empty, is     *)
(* published.  A halted vCPU goes on after the hlt.                        *)
Interrupt ==
    LET n == DrainCount IN
    /\ InterruptTaken
    /\ vector' = FALSE
    /\ path' = [head |-> AdvanceHead(path.head, n), phase |-> AdvancePhase(path.head, path.phase, n)]
    /\ device' = IF n > 0 THEN [device EXCEPT !.doorbell = AdvanceHead(path.head, n)] ELSE device
    /\ events' = Append(events, Drained(n))
    /\ cpu' = IF cpu.pc = "halted" THEN [cpu EXCEPT !.pc = "woken"] ELSE cpu
    /\ UNCHANGED <<delayed, cq, msi, storage, issued, completed>>

(* submit_io_*: allocate the identifier, write the entry, ring the doorbell. *)
Submit ==
    /\ Runs("idle")
    /\ issued < MaxCommands
    /\ issued' = issued + 1
    /\ storage' = [storage EXCEPT !.nextId = NextCommandId(storage.nextId)]
    /\ device' = [device EXCEPT !.pending = storage.nextId]
    /\ cpu' = [cpu EXCEPT !.pc = "submitted", !.command = storage.nextId]
    /\ UNCHANGED <<delayed, cq, msi, vector, path, events, completed>>

(* wait_io_completion_interrupt, up to the first try_next. *)
BeginWait ==
    /\ Runs("submitted")
    /\ cpu' = [cpu EXCEPT !.pc = "first_try", !.sti = FALSE, !.wait = 0]
    /\ UNCHANGED <<delayed, device, cq, msi, vector, storage, path, events, issued, completed>>

Returned == [cpu EXCEPT !.pc = "idle", !.sti = TRUE]
Panicked == [cpu EXCEPT !.pc = "panic", !.sti = TRUE]

(* After the second try_next the loop goes round while wait is in range. *)
NotYet ==
    IF cpu.pc = "first_try" THEN [cpu EXCEPT !.pc = "armed"]
    ELSE IF cpu.wait + 1 < MaxWaits
    THEN [cpu EXCEPT !.pc = "first_try", !.wait = cpu.wait + 1]
    ELSE Panicked

(* Variant: io_head stays where it is when an event is taken. *)
SynchronizedNot(n) == storage

(* synchronize_io_completion_event: io_head moves by what was drained. *)
Synchronized(n) ==
    [storage EXCEPT !.head = AdvanceHead(storage.head, n),
                    !.phase = AdvancePhase(storage.head, storage.phase, n)]

(* Variant: the event of any command will do. *)
TryNextAnyCommand ==
    /\ Runs("first_try") \/ Runs("second_try")
    /\ IF events = <<>>
       THEN cpu' = NotYet /\ UNCHANGED <<storage, events>>
       ELSE LET event == Head(events) IN
            /\ events' = Tail(events)
            /\ IF event.failed
               THEN cpu' = Panicked /\ storage' = storage
               ELSE IF event.count > 0
               THEN cpu' = Returned /\ storage' = Synchronized(event.count)
               ELSE cpu' = NotYet /\ storage' = storage
    /\ UNCHANGED <<delayed, device, cq, msi, vector, path, issued, completed>>

(* Variant: the queue is looked at only when the topic was empty. *)
TryNextStaleHalts ==
    /\ Runs("first_try") \/ Runs("second_try")
    /\ IF events = <<>>
       THEN cpu' = NotYet /\ UNCHANGED <<storage, events>>
       ELSE LET event == Head(events) IN
            /\ events' = Tail(events)
            /\ IF event.failed
               THEN cpu' = Panicked /\ storage' = storage
               ELSE IF event.count > 0 /\ event.last = cpu.command
               THEN cpu' = Returned /\ storage' = Synchronized(event.count)
               ELSE cpu' = [cpu EXCEPT !.pc = "halted", !.sti = TRUE] /\ storage' = storage
    /\ UNCHANGED <<delayed, device, cq, msi, vector, path, issued, completed>>

(* One try_next of the loop and the handling of what it returns. *)
TryNext ==
    /\ Runs("first_try") \/ Runs("second_try")
    /\ IF events = <<>>
       THEN cpu' = NotYet /\ UNCHANGED <<storage, events>>
       ELSE LET event == Head(events) IN
            /\ events' = Tail(events)
            /\ IF event.failed
               THEN cpu' = Panicked /\ storage' = storage
               ELSE IF event.count > 0 /\ event.last = cpu.command
               THEN cpu' = Returned /\ storage' = Synchronized(event.count)
               ELSE cpu' = NotYet /\ storage' = storage
    /\ UNCHANGED <<delayed, device, cq, msi, vector, path, issued, completed>>

(* consume_io_completion, called after arm_wait: the entry at io_head is   *)
(* taken if it is new, of this command and without error.                  *)
Resynchronize ==
    LET entry == cq[storage.head] IN
    /\ Runs("armed")
    /\ IF entry.phase = storage.phase /\ entry.command = cpu.command /\ ~entry.failed
       THEN /\ storage' = Synchronized(1)
            /\ device' = [device EXCEPT !.doorbell = AdvanceHead(storage.head, 1)]
            /\ cpu' = Returned
       ELSE /\ cpu' = [cpu EXCEPT !.pc = "halted", !.sti = TRUE]
            /\ UNCHANGED <<storage, device>>
    /\ UNCHANGED <<delayed, cq, msi, vector, path, events, issued, completed>>

(* Another interrupt ends the hlt. *)
OtherWakeup ==
    /\ Runs("halted")
    /\ cpu' = [cpu EXCEPT !.pc = "woken"]
    /\ UNCHANGED <<delayed, device, cq, msi, vector, storage, path, events, issued, completed>>

(* The cli after the hlt. *)
CloseWindow ==
    /\ Runs("woken")
    /\ cpu' = [cpu EXCEPT !.pc = "second_try", !.sti = FALSE]
    /\ UNCHANGED <<delayed, device, cq, msi, vector, storage, path, events, issued, completed>>

NvmeStep == Interrupt \/ BeginWait \/ TryNext \/ Resynchronize \/ CloseWindow

NvmeNext == DeviceComplete \/ MessageArrives \/ Submit \/ OtherWakeup \/ NvmeStep

NvmeSpec == NvmeInit /\ [][NvmeNext]_nvmeVars

(* The device answers, messages arrive and the vCPU runs; nothing promises *)
(* a further command or another interrupt.                                 *)
NvmeFairSpec == NvmeSpec /\ WF_nvmeVars(DeviceComplete) /\ WF_nvmeVars(MessageArrives) /\ WF_nvmeVars(NvmeStep)

-----------------------------------------------------------------------------
(* Properties.                                                             *)

(* wait_io_completion_interrupt returns only when the device has completed *)
(* the command without error, however many events of earlier commands are  *)
(* still queued and although identifiers, slots and phases are used again. *)
ReturnsCompleted == cpu.pc = "idle" => completed = issued

(* Both readers acknowledge what they take: at most the newest entry is    *)
(* unacknowledged, so the device never finds its queue full.               *)
AcknowledgedInTime == (device.tail - device.doorbell) % QueueDepth <= 1

(* Events nobody waits for any more do not pile up: the topic (64 slots)   *)
(* never holds more than three, so try_next never meets a gap.             *)
BacklogBounded == Len(events) <= 3

(* When no message is late, io_head stands where the device writes next    *)
(* each time the wait returns, as the check after arming needs.            *)
HeadInStep == ~delayed /\ cpu.pc = "idle" => storage.head = device.tail

(* The device answered the command with an error. *)
CommandFailed == device.pending = 0 /\ completed < issued

(* When no message is late, the wait for a command that succeeds ends, in  *)
(* whatever order entry, interrupt, arming and hlt come.                   *)
PromptWaitEnds ==
    ~delayed => (cpu.pc = "submitted" ~> (cpu.pc \in {"idle", "panic"} \/ CommandFailed))

(* "Close a missed-edge race after arming but before entering hlt": the    *)
(* wait for a command that succeeds ends, also when a message is late.     *)
WaitEnds == cpu.pc = "submitted" ~> (cpu.pc \in {"idle", "panic"} \/ CommandFailed)

-----------------------------------------------------------------------------
(* The inductive invariant.                                                *)

(* Where a reader of the queue stands after n entries, and the identifier  *)
(* of the n-th command.                                                    *)
PlaceHead(n) == n % QueueDepth
PlacePhase(n) == (n \div QueueDepth) % 2 = 0
StandsAt(r, n) == r.head = PlaceHead(n) /\ r.phase = PlacePhase(n)
IdOf(n) == ((n - 1) % (IdSpace - 1)) + 1

(* The entries the device has written.                                     *)
Written == IF device.pending = 0 THEN issued ELSE issued - 1

DeviceInv ==
    /\ device.tail = PlaceHead(Written) /\ device.phase = PlacePhase(Written)
    /\ storage.nextId = IdOf(issued + 1)
    /\ issued = 0 => device.pending = 0 /\ cpu.pc = "idle"
    /\ issued > 0 => cpu.command = IdOf(issued) /\ device.pending \in {0, IdOf(issued)}

(* A slot of the queue is unused or holds one of the newest entries.       *)
HoldsEntry(s, n) ==
    /\ n > Written - QueueDepth /\ s = PlaceHead(n - 1)
    /\ cq[s].phase = PlacePhase(n - 1) /\ cq[s].command = IdOf(n)
    /\ cq[s].failed <=> completed < n
SlotsInv ==
    \A s \in QueueSlot :
        \/ s >= Written /\ cq[s].command = 0 /\ ~cq[s].phase
        \/ \E n \in 1 .. Written : HoldsEntry(s, n)

(* The receiver is at most two entries behind, with an interrupt to come.  *)
Behind(lag) ==
    /\ lag <= Written /\ StandsAt(path, Written - lag)
    /\ lag > 0 => vector \/ msi
    /\ lag = 1 /\ ~delayed => device.pending = 0
    /\ lag = 2 => vector /\ device.pending = 0 /\ delayed
ReceiverInv == \E lag \in 0 .. 2 : Behind(lag)

(* Messages, events and the command under way, which will become one.      *)
Fresh == cpu.pc = "submitted" \/ (cpu.pc = "first_try" /\ cpu.wait = 0)
Room == IF Fresh THEN 3 ELSE 2
One(b) == IF b THEN 1 ELSE 0
Messages == One(vector) + One(msi) + One(device.pending # 0)
BacklogInv ==
    /\ ~delayed => ~msi
    /\ device.pending # 0 => ~(vector /\ msi)
    /\ Len(events) + Messages <= Room

(* The i-th event is that of a recent command; if it is that of the last   *)
(* one, it tells the outcome.                                              *)
EventOf(i, m) ==
    /\ events[i].last = IdOf(m)
    /\ (issued - m) + i <= Room + 1
    /\ m = issued => device.doorbell = device.tail /\ (events[i].failed \/ completed = issued)
EventInv ==
    \A i \in 1 .. Len(events) :
        events[i].count > 0 =>
            /\ ~delayed => events[i].count = 1
            /\ \E m \in 1 .. Written : EventOf(i, m)

(* How far the command under way has come.                                 *)
CommandInv ==
    /\ completed \in {issued, issued - 1}
    /\ device.pending # 0 => completed = issued - 1
    /\ cpu.pc = "idle" => completed = issued /\ cpu.sti
    /\ ~delayed => StandsAt(storage, IF cpu.pc = "idle" THEN issued ELSE issued - 1)
    /\ device.doorbell = device.tail \/
          (Written > 0 /\ device.doorbell = PlaceHead(Written - 1) /\ device.pending = 0 /\ cpu.pc # "idle")

NvmeInv ==
    NvmeTypeOK /\ DeviceInv /\ SlotsInv /\ ReceiverInv /\ BacklogInv /\ EventInv /\ CommandInv

(* As long as no message is late, io_head is where the device writes next; *)
(* at most the newest entry is unacknowledged, unwanted events do not pile *)
(* up, and what makes this so holds at every step.                         *)
QueueInStep == NvmeInv /\ HeadInStep /\ AcknowledgedInTime /\ BacklogBounded

=============================================================================
