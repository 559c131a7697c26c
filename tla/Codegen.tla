------------------------------ MODULE Codegen ------------------------------
(***************************************************************************)
(* compileFunction (compiler/codegen/x64.go): the structured operations of *)
(* a function become a sequence of instructions with labels and jumps,     *)
(* which a processor then executes.  The emitter walks the operations: an  *)
(* operation that contains others puts them, and the jumps and labels      *)
(* around them, in front of what is left to emit.  A straight-line         *)
(* operation is one instruction; what it does to values is the subject of  *)
(* Values.  Displacements are kept as the code keeps them, relative *)
(* to the instruction after the jump.                                      *)
(***************************************************************************)
EXTENDS Integers, Sequences, SequencesExt, FiniteSets, TLC

CONSTANTS Programs,    \* the functions to compile: sequences of blocks
          Outcomes     \* the outcomes of the conditions of an execution

VARIABLE cg   \* [phase, prog, outcomes, e (the Emitter), m (the processor),
              \*  r (the run the source prescribes)]
-----------------------------------------------------------------------------
(* The Emitter.  A label is its prefix and a number: newLabel numbers it   *)
(* by the labels bound so far.                                             *)
NewLabel(e, prefix) == <<prefix, Cardinality(DOMAIN e.labels)>>
Bind(l) == [op |-> "label", l |-> l]
Jump(k, v, l) == [op |-> "jump", k |-> k, v |-> v, l |-> l]
Plain(k, v) == [op |-> "emit", k |-> k, v |-> v]

(* emitConditionJumpMode: a constant condition jumps always or never.      *)
ConditionJump(cond, falseTarget) ==
  CASE cond.const = 0 -> <<Jump("jmp", "", falseTarget)>>
    [] cond.const = 1 -> <<>>
    [] OTHER -> <<Jump("jz", cond.v, falseTarget)>>

(* Variant: the then-part runs on into the else-part.                      *)
EmitIfFallingThrough(e, op) ==
  LET else == NewLabel(e, "if_else")
  IN op.cops \o ConditionJump(op.cond, else) \o op.then \o <<Bind(else)>> \o op.else

EmitIf(e, op) ==
  LET done == NewLabel(e, "if_done")
      else == NewLabel(e, "if_else")
  IN op.cops \o ConditionJump(op.cond, else) \o op.then \o <<Jump("jmp", "", done), Bind(else)>>
       \o op.else \o <<Bind(done)>>

EmitWhile(e, op) ==
  LET start == NewLabel(e, "while_start")
      done == NewLabel(e, "while_done")
  IN <<Bind(start)>> \o op.cops \o ConditionJump(op.cond, done) \o op.body
       \o <<Jump("jmp", "", start), Bind(done)>>

(* The labels are taken after the operations of the iterable.              *)
EmitForBytes(e, op) ==
  IF op.iops # <<>> THEN op.iops \o <<[op EXCEPT !.iops = <<>>]>>
  ELSE LET start == NewLabel(e, "for_bytes_start")
           done == NewLabel(e, "for_bytes_done")
       IN <<Plain("zero", op.i), Bind(start), Jump("jge", op.i, done)>> \o op.body
            \o <<Plain("inc", op.i), Jump("jmp", "", start), Bind(done)>>

(* The result register is 0 unless the tag matches.                        *)
EmitEnumVariantTest(e, op) ==
  LET done == NewLabel(e, "enum_variant_test_done")
  IN <<Plain("tag", ""), Jump("jne", "", done), Plain("one", ""), Bind(done), Plain("put", op.v)>>

(* Like it every check of the arenas: the trap is called on the failing    *)
(* path, the operation follows on the other.                               *)
EmitIndexBoundsCheck(e, op) ==
  LET trap == NewLabel(e, "index_bounds_trap")
      done == NewLabel(e, "index_bounds_ok")
  IN <<Plain("tag", ""), Jump("jne", "", trap), Jump("jmp", "", done), Bind(trap),
       Plain("trap", ""), Bind(done), Plain("act", op.v)>>

EmitBranch(op) == ConditionJump(op.cond, op.f) \o <<Jump("jmp", "", op.t)>>

(* compileFunction: the blocks in order, each with its label, and an       *)
(* epilogue unless a block returns at its top level.                       *)
HasReturn(blocks) == \E i \in DOMAIN blocks : \E j \in DOMAIN blocks[i].ops : blocks[i].ops[j].op = "return"
BlockOps(b) == <<Bind(<<b.label>>)>> \o b.ops
FunctionOps(blocks) ==
  FlattenSeq([i \in DOMAIN blocks |-> BlockOps(blocks[i])])
    \o IF HasReturn(blocks) THEN <<>> ELSE <<Plain("ret", "")>>
-----------------------------------------------------------------------------
(* The processor: the outcome of a test is the next of the outcomes, 0     *)
(* when they are used up.  A for loop runs over two bytes.                 *)
Length == 2
Processor == [pc |-> 1, in |-> 1, slot |-> <<>>, rax |-> 0, flag |-> 0, trace |-> <<>>]
Outcome(n) == IF n <= Len(cg.outcomes) THEN cg.outcomes[n] ELSE 0
Write(slot, v, x) == (v :> x) @@ slot

Init == \E p \in Programs :
          cg = [phase |-> "emit", prog |-> p, outcomes |-> <<>>, m |-> Processor,
                e |-> [todo |-> FunctionOps(p), code |-> <<>>, labels |-> <<>>, jumps |-> <<>>],
                r |-> [todo |-> p[1].ops, in |-> 1, slot |-> <<>>, trace |-> <<>>, end |-> "no"]]

Emitting(ops) == cg.phase = "emit" /\ cg.e.todo # <<>> /\ Head(cg.e.todo).op \in ops
Op == Head(cg.e.todo)
Expand(ops) == cg' = [cg EXCEPT !.e.todo = ops \o Tail(@)]
Emit(k, v) == [cg.e EXCEPT !.todo = Tail(@), !.code = Append(@, [k |-> k, v |-> v, rel |-> 0])]

EmitStructure == \/ Emitting({"if"}) /\ Expand(EmitIf(cg.e, Op))
                 \/ Emitting({"while"}) /\ Expand(EmitWhile(cg.e, Op))
                 \/ Emitting({"for"}) /\ Expand(EmitForBytes(cg.e, Op))
                 \/ Emitting({"test"}) /\ Expand(EmitEnumVariantTest(cg.e, Op))
                 \/ Emitting({"checked"}) /\ Expand(EmitIndexBoundsCheck(cg.e, Op))
                 \/ Emitting({"branch"}) /\ Expand(EmitBranch(Op))
EmitOp == \/ Emitting({"emit"}) /\ cg' = [cg EXCEPT !.e = Emit(Op.k, Op.v)]
          \/ Emitting({"act"}) /\ cg' = [cg EXCEPT !.e = Emit("act", Op.v)]
          \/ Emitting({"return"}) /\ cg' = [cg EXCEPT !.e = Emit("ret", "")]
          \/ Emitting({"compare"}) /\ Expand(<<Plain("tag", ""), Plain("put", Op.v)>>)
BindLabel == /\ Emitting({"label"})
             /\ cg' = [cg EXCEPT !.e = [@ EXCEPT !.todo = Tail(@), !.labels = Write(@, Op.l, Len(cg.e.code))]]
EmitJump == /\ Emitting({"jump"})
            /\ cg' = [cg EXCEPT !.e = [Emit(Op.k, Op.v) EXCEPT !.jumps = Append(@, [pos |-> Len(cg.e.code) + 1, target |-> Op.l])]]

(* resolveJumps: every recorded jump gets its displacement; a label that   *)
(* was never bound is a diagnostic.                                        *)
ResolveJumps ==
  /\ cg.phase = "emit" /\ cg.e.todo = <<>>
  /\ IF cg.e.jumps = <<>>
     THEN \E o \in Outcomes : cg' = [cg EXCEPT !.phase = "run", !.outcomes = o]
     ELSE LET f == Head(cg.e.jumps) IN
          IF f.target \in DOMAIN cg.e.labels
          THEN cg' = [cg EXCEPT !.e.jumps = Tail(@), !.e.code[f.pos].rel = cg.e.labels[f.target] - f.pos]
          ELSE cg' = [cg EXCEPT !.phase = "rejected"]
-----------------------------------------------------------------------------
Fetch(ks) == cg.phase = "run" /\ cg.m.pc \in DOMAIN cg.e.code /\ cg.e.code[cg.m.pc].k \in ks
I == cg.e.code[cg.m.pc]
Step(m) == cg' = [cg EXCEPT !.m = [m EXCEPT !.pc = @ + 1]]
JumpIf(c) == cg' = [cg EXCEPT !.m.pc = @ + 1 + (IF c THEN I.rel ELSE 0)]

ExecAct == Fetch({"act"}) /\ Step([cg.m EXCEPT !.trace = Append(@, I.v)])
ExecTag == Fetch({"tag"}) /\ LET bit == Outcome(cg.m.in) IN
             Step([cg.m EXCEPT !.in = @ + 1, !.flag = bit, !.rax = IF cg.e.code[cg.m.pc + 1].k = "put" THEN bit ELSE 0])
ExecOne == Fetch({"one"}) /\ Step([cg.m EXCEPT !.rax = 1])
ExecPut == Fetch({"put"}) /\ Step([cg.m EXCEPT !.slot = Write(@, I.v, cg.m.rax)])
ExecZero == Fetch({"zero"}) /\ Step([cg.m EXCEPT !.slot = Write(@, I.v, 0)])
ExecInc == Fetch({"inc"}) /\ Step([cg.m EXCEPT !.slot[I.v] = @ + 1])
ExecJump == \/ Fetch({"jmp"}) /\ JumpIf(TRUE)
            \/ Fetch({"jz"}) /\ JumpIf(cg.m.slot[I.v] = 0)
            \/ Fetch({"jne"}) /\ JumpIf(cg.m.flag = 0)
            \/ Fetch({"jge"}) /\ JumpIf(cg.m.slot[I.v] >= Length)
ExecHalt == Fetch({"ret", "trap"}) /\ cg' = [cg EXCEPT !.phase = I.k]
-----------------------------------------------------------------------------
(* What the source prescribes, read off the operations: an if is one of    *)
(* its branches, a loop its body and itself again.                         *)
Holds(cond) == IF cond.const \in {0, 1} THEN cond.const = 1 ELSE cg.r.slot[cond.v] = 1
Unfold(op) ==
  CASE op.op = "if" -> op.cops \o <<[op |-> "choose", cond |-> op.cond, t |-> op.then, f |-> op.else]>>
    [] op.op = "while" -> op.cops \o <<[op |-> "choose", cond |-> op.cond, t |-> op.body \o <<op>>, f |-> <<>>]>>
    [] op.op = "for" -> op.iops \o op.body \o op.body
    [] op.op = "choose" -> IF Holds(op.cond) THEN op.t ELSE op.f
    [] OTHER -> <<>>

Prescribe ==
  /\ cg.phase \in {"ret", "trap"} /\ cg.r.end = "no" /\ Len(cg.prog) = 1
  /\ LET op == IF cg.r.todo = <<>> THEN [op |-> "return"] ELSE Head(cg.r.todo)
         rest == [cg.r EXCEPT !.todo = Unfold(op) \o Tail(@)]
         bit == Outcome(cg.r.in)
     IN cg' = [cg EXCEPT !.r =
          CASE op.op = "return" -> [cg.r EXCEPT !.end = "ret"]
            [] op.op = "act" -> [rest EXCEPT !.trace = Append(@, op.v)]
            [] op.op \in {"test", "compare"} -> [rest EXCEPT !.in = @ + 1, !.slot = Write(@, op.v, bit)]
            [] op.op = "checked" -> IF bit = 0 THEN [cg.r EXCEPT !.end = "trap"]
                                    ELSE [rest EXCEPT !.in = @ + 1, !.trace = Append(@, op.v)]
            [] OTHER -> rest]

Next == \/ EmitStructure \/ EmitOp \/ BindLabel \/ EmitJump \/ ResolveJumps
        \/ ExecAct \/ ExecTag \/ ExecOne \/ ExecPut \/ ExecZero \/ ExecInc \/ ExecJump \/ ExecHalt
        \/ Prescribe

Spec == Init /\ [][Next]_cg /\ WF_cg(Next)
-----------------------------------------------------------------------------
(* The generated code performs the operations the source prescribes, in    *)
(* order, and ends as it does, whatever its conditions turn out to be:     *)
(* every jump of an if, a loop, a variant test or a bounds check lands     *)
(* behind the right part.                                                  *)
RunsAsWritten == cg.r.end # "no" => cg.m.trace = cg.r.trace /\ cg.phase = cg.r.end

(* Control leaves the function only through its epilogue or a trap: no     *)
(* jump lands outside the code and no path runs off its end.               *)
StaysInside == cg.phase = "run" => cg.m.pc \in DOMAIN cg.e.code

(* The function has returned or trapped, or was refused.                   *)
Done == cg.phase \in {"ret", "trap", "rejected"}
=============================================================================
