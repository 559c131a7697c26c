------------------------------- MODULE Runner -------------------------------
(***************************************************************************)
(* qemu.Run (compiler/qemu/run.go): the harness that boots an image and    *)
(* watches its output for a text that means success.  The caller, the      *)
(* goroutine that copies QEMU's output, the one that reads the serial      *)
(* pipe, the one that sends the input, the context with its deadline and   *)
(* the two processes it started all run at once.                           *)
(*                                                                         *)
(* The success text is written in two pieces, "h1" and "h2", which may be  *)
(* read one by one.                                                        *)
(***************************************************************************)
EXTENDS Integers, Sequences

CONSTANT MaxWrites   \* bound: pieces QEMU writes
VARIABLE rn

(* The options of a boot that the control depends on.                      *)
BootOptions == [pipe : BOOLEAN, server : BOOLEAN, want : BOOLEAN, input : {"none", "close", "keep"}]

Alive == {"up", "open"}  \* QEMU before and after it has opened the serial pipe
Channels == {"out", "serial"}
Pieces == {"h1", "h2"}   \* of the success text
NoText == [c \in Channels |-> <<>>]
Found(s) == \E i \in 1..(Len(s) - 1) : s[i] = "h1" /\ s[i + 1] = "h2"

RunnerInit == \E o \in BootOptions :
  rn = [opts |-> o, pc |-> "stage", ctx |-> "live", err |-> "nil", server |-> "none",
        qemu |-> "none", exit |-> "none", reader |-> "none", sender |-> "none",
        wrote |-> NoText, pending |-> NoText, captured |-> NoText]

(* An early return; the deferred cancel ends the context.                  *)
ReturnWith(e) == rn' = [rn EXCEPT !.pc = "returned", !.ctx = "done", !.err = e]
-----------------------------------------------------------------------------
(* The caller: staging the image and making the pipes may fail.            *)
Stage == /\ rn.pc = "stage"
         /\ ReturnWith("error") \/ rn' = [rn EXCEPT !.pc = IF rn.opts.server THEN "server" ELSE "start"]

StartServer == /\ rn.pc = "server"
               /\ ReturnWith("error") \/ rn' = [rn EXCEPT !.pc = "socket", !.server = "up"]

(* waitForUnixSocket: the socket answers, or the server is stopped.        *)
WaitForUnixSocket ==
  /\ rn.pc = "socket"
  /\ \/ rn.server = "up" /\ rn' = [rn EXCEPT !.pc = "start"]
     \/ rn' = [rn EXCEPT !.pc = "returned", !.ctx = "done", !.err = "error", !.server = "dead"]

(* Making the pipe for standard input may fail, which returns at once.     *)
(* cmd.Start fails also when the context has ended; the goroutines are     *)
(* started with the process.                                               *)
NeedsStdin == rn.opts.input # "none" /\ ~rn.opts.pipe
StartQemu ==
  /\ rn.pc = "start"
  /\ \/ NeedsStdin /\ ReturnWith("error")
     \/ rn' = [rn EXCEPT !.pc = "stop", !.err = "error"]
     \/ /\ rn.ctx = "live"
        /\ rn' = [rn EXCEPT !.pc = "wait", !.qemu = "up",
                            !.reader = IF rn.opts.pipe THEN "opening" ELSE "none",
                            !.sender = IF rn.opts.input = "none" THEN "none" ELSE "delay"]

(* cmd.Wait: the process has ended and is waited for, and then its output  *)
(* has been copied.                                                        *)
WaitProcess == rn.pc = "wait" /\ rn.qemu = "dead" /\ rn' = [rn EXCEPT !.pc = "copy"]
WaitOutput ==
  /\ rn.pc = "copy" /\ rn.pending["out"] = <<>>
  /\ rn' = [rn EXCEPT !.pc = "stop", !.err = IF rn.exit = "zero" THEN "nil" ELSE "error"]

StopServer == /\ rn.pc = "stop"
              /\ rn' = [rn EXCEPT !.pc = "serial", !.server = IF @ = "up" THEN "dead" ELSE @]

Text == rn.captured["out"] \o rn.captured["serial"]
Result == IF rn.opts.want /\ Found(Text) THEN "nil" ELSE rn.err
(* Variant: the serial output is taken as far as it has been read.         *)
FinishEarly == rn.pc = "serial" /\ ReturnWith(Result)
Finish == rn.pc = "serial" /\ rn.reader \in {"none", "done"} /\ ReturnWith(Result)

Caller == Stage \/ StartServer \/ WaitForUnixSocket \/ StartQemu \/ WaitProcess \/ WaitOutput \/ StopServer \/ Finish
-----------------------------------------------------------------------------
(* successCapture.Write: the text so far is searched, a match ends the     *)
(* context.                                                                *)
Write(c) == LET text == Append(rn.captured[c], Head(rn.pending[c]))
            IN [rn EXCEPT !.captured[c] = text, !.pending[c] = Tail(@),
                          !.ctx = IF rn.opts.want /\ Found(text) THEN "done" ELSE @]

(* The goroutine of os/exec that copies QEMU's output.                     *)
CopyOutput == rn.pending["out"] # <<>> /\ rn' = Write("out")

(* The reader of the serial pipe: opening it blocks until QEMU has opened  *)
(* it too, and it ends with the last writer.                               *)
ReadSerial ==
  \/ rn.reader = "opening" /\ rn.qemu = "open" /\ rn' = [rn EXCEPT !.reader = "copying"]
  \/ rn.reader = "copying" /\ rn.pending["serial"] # <<>> /\ rn' = Write("serial")
  \/ /\ rn.reader = "copying" /\ rn.pending["serial"] = <<>> /\ rn.qemu = "dead"
     /\ rn' = [rn EXCEPT !.reader = "done"]

(* The sender of the input: after the delay to the pipe or to QEMU's       *)
(* standard input, or not at all once the context has ended.               *)
SendInput ==
  \/ rn.sender = "delay" /\ rn.ctx = "done" /\ rn' = [rn EXCEPT !.sender = "done"]
  \/ rn.sender = "delay" /\ rn' = [rn EXCEPT !.sender = "opening"]
  \/ /\ rn.sender = "opening" /\ (rn.opts.pipe => rn.qemu = "open")
     /\ rn' = [rn EXCEPT !.sender = IF rn.opts.input = "keep" /\ rn.opts.pipe THEN "sent" ELSE "done"]
  \/ rn.sender = "sent" /\ rn.ctx = "done" /\ rn' = [rn EXCEPT !.sender = "done"]
-----------------------------------------------------------------------------
(* The context's deadline, and what os/exec does when the context ends.    *)
Deadline == rn.ctx = "live" /\ rn.pc \notin {"stage", "returned"} /\ rn' = [rn EXCEPT !.ctx = "done"]

(* Variant: the deadline does not reach the process.                       *)
KillNothing == rn.ctx = "done" /\ rn.server = "up" /\ rn' = [rn EXCEPT !.server = "dead"]
(* A process that has ended and is not yet waited for takes the kill too;  *)
(* os/exec then reports the end of the context whatever its status was.    *)
Unwaited == rn.pc = "wait" /\ rn.exit # "killed"
Kill ==
  /\ rn.ctx = "done" /\ (Unwaited \/ rn.server = "up")
  /\ rn' = [rn EXCEPT !.server = IF @ = "up" THEN "dead" ELSE @,
                      !.qemu = IF Unwaited THEN "dead" ELSE @,
                      !.exit = IF Unwaited THEN "killed" ELSE @]

(* External: QEMU opens the pipe, writes, and may end by itself.           *)
OpenPipe == rn.qemu = "up" /\ rn.opts.pipe /\ rn' = [rn EXCEPT !.qemu = "open"]
Output(c, t) ==
  /\ rn.qemu \in (IF c = "serial" THEN {"open"} ELSE Alive)
  /\ Len(rn.wrote["out"]) + Len(rn.wrote["serial"]) < MaxWrites
  /\ rn' = [rn EXCEPT !.wrote[c] = Append(@, t), !.pending[c] = Append(@, t)]
Exit(code) == rn.qemu \in Alive /\ rn' = [rn EXCEPT !.qemu = "dead", !.exit = code]
Qemu == OpenPipe \/ (\E c \in Channels, t \in Pieces : Output(c, t)) \/ \E code \in {"zero", "one"} : Exit(code)

RunnerNext == Caller \/ CopyOutput \/ ReadSerial \/ SendInput \/ Deadline \/ Kill \/ Qemu

(* Goroutines run, the deadline comes and a killed process dies; QEMU need *)
(* do nothing.                                                             *)
RunnerSpec == RunnerInit /\ [][RunnerNext]_rn
RunnerFairSpec ==
  /\ RunnerSpec /\ WF_rn(Caller) /\ WF_rn(CopyOutput) /\ WF_rn(ReadSerial) /\ WF_rn(Deadline) /\ WF_rn(Kill)
-----------------------------------------------------------------------------
(* Output is lost nowhere between QEMU and the captures, and QEMU writes to *)
(* the serial pipe only if there is one.                                   *)
OutputInv ==
  /\ \A c \in Channels : rn.captured[c] \o rn.pending[c] = rn.wrote[c]
  /\ ~rn.opts.pipe => rn.wrote["serial"] = <<>>

(* QEMU's life against the place of the caller.                            *)
QemuInv ==
  /\ rn.pc \in {"stage", "server", "socket", "start"} => rn.qemu = "none"
  /\ rn.pc = "wait" => rn.qemu # "none"
  /\ rn.pc = "copy" => rn.qemu = "dead"
  /\ rn.pc \in {"stop", "serial", "returned"} => rn.qemu \notin Alive
  /\ rn.qemu = "open" => rn.opts.pipe

(* The reader of the serial pipe has read all of it when it is done.       *)
ReaderInv ==
  /\ rn.qemu = "none" => rn.reader = "none"
  /\ rn.qemu # "none" /\ rn.reader = "none" => ~rn.opts.pipe
  /\ rn.reader = "done" => rn.qemu = "dead" /\ rn.pending["serial"] = <<>>

(* The server is up only between its start and StopServer, but for the     *)
(* return that leaves it to the context.                                   *)
ServerInv ==
  rn.server = "up" =>
    \/ rn.pc \in {"socket", "start", "wait", "copy", "stop"}
    \/ rn.pc = "returned" /\ NeedsStdin /\ rn.qemu = "none" /\ rn.ctx = "done"

(* What cmd.Wait returned, with all of the output in the capture.          *)
ErrorInv ==
  rn.pc \in {"stop", "serial"} /\ rn.qemu # "none" =>
    rn.pending["out"] = <<>> /\ (rn.err = "nil" <=> rn.exit = "zero")

(* No error exactly if the text was printed, or QEMU was seen to end with  *)
(* status zero.                                                            *)
ResultIsOutcome ==
  rn.pc = "returned" /\ rn.qemu # "none" =>
    (rn.err = "nil" <=> \/ rn.opts.want /\ Found(rn.wrote["out"] \o rn.wrote["serial"])
                        \/ rn.exit = "zero")

(* When Run has returned neither process is left, on every path out of it  *)
(* but one: without a pipe for standard input the server is left to the    *)
(* context's kill.                                                         *)
NothingLeftRunning ==
  rn.pc = "returned" => /\ rn.qemu \notin Alive
                        /\ rn.server = "up" => NeedsStdin /\ rn.qemu = "none" /\ rn.ctx = "done"

RunPoints == {"stage", "server", "socket", "start", "wait", "copy", "stop", "serial", "returned"}
ServerStates == {"none", "up", "dead"}
QemuStates == {"none", "dead"} \cup Alive
ExitStates == {"none", "zero", "one", "killed"}
ReaderStates == {"none", "opening", "copying", "done"}
SenderStates == {"none", "delay", "opening", "sent", "done"}
ContextStates == {"live", "done"}
Results == {"nil", "error"}
Texts == [Channels -> Seq(Pieces)]
RunFields ==
  [opts : BootOptions, pc : RunPoints, ctx : ContextStates, err : Results, server : ServerStates,
   qemu : QemuStates, exit : ExitStates, reader : ReaderStates, sender : SenderStates,
   wrote : Texts, pending : Texts, captured : Texts]
RunnerTypeOK == rn \in RunFields

RunnerInv ==
  RunnerTypeOK /\ OutputInv /\ QemuInv /\ ReaderInv /\ ServerInv /\ ErrorInv /\ ResultIsOutcome

(* The result of a boot says what QEMU did, whichever of the deadline, the *)
(* kill after a match, QEMU's own exit and the two readers came first, and *)
(* no process is left running.  (Text that is spread over the two outputs  *)
(* counts as printed; a status of zero that the kill overtook does not.)   *)
ResultTellsOutcome == RunnerInv /\ NothingLeftRunning

(* Run has returned, or waits for a reader that opened the serial pipe too *)
(* late: after QEMU had gone, with nobody left to open the other end.      *)
Ended == rn.pc = "returned" \/ (rn.reader = "opening" /\ rn.qemu = "dead")
=============================================================================
