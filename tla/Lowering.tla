------------------------------ MODULE Lowering ------------------------------
(***************************************************************************)
(* A method's body from its checking to its operations: checkStmtList      *)
(* (compiler/sem/check.go, enum.go) decides which names a statement sees   *)
(* and whether control can leave the body at its end; lowerStmtList        *)
(* (compiler/ir/lower.go) turns the accepted body into operations.  The    *)
(* operations are then executed, and what they do is compared with what    *)
(* the source says.                                                        *)
(*                                                                         *)
(* An ir.Value is a pointer the lowering creates once per place, so it is  *)
(* named here by the path of that place.  Every value is a sequence of     *)
(* integers: a number is <<n>>, an enum value its variant and payload.     *)
(***************************************************************************)
EXTENDS Integers, Sequences, SequencesExt, TLC

CONSTANTS Bodies,      \* the method bodies
          Outcomes     \* what the calls of an execution return

VARIABLE lo   \* [phase, outcomes, m (the operations' run), s (the source's run)]

Params == {"p"}           \* besides self
Variants == {1, 2}        \* variant 2 carries a payload
-----------------------------------------------------------------------------
(* Scope: the names a statement sees.  A let defines in the scope it is    *)
(* in, a body gets a scope of its own.                                     *)
RECURSIVE Known(_, _)
Known(scope, x) ==
  CASE x.e = "name" -> x.n \in scope
    [] x.e = "bin" -> Known(scope, x.l) /\ Known(scope, x.r)
    [] x.e = "call" -> \A i \in DOMAIN x.args : Known(scope, x.args[i].value)
    [] OTHER -> TRUE

(* checkMatchStmt: no variant twice and all of them covered.               *)
Exhaustive(arms) == LET ks == {arms[i].k : i \in DOMAIN arms} IN 0 \in ks \/ Variants \subseteq ks
MatchFits(arms) == Exhaustive(arms) /\ \A i, j \in DOMAIN arms : arms[i].k = arms[j].k => i = j

(* checkStmt, the IfStmt: both branches have to end.                       *)
IfEnds(branches) == \A i \in DOMAIN branches : branches[i]

(* What checkStmt and checkStmtList return: control does not go on after   *)
(* the statement, after one of the statements.                             *)
RECURSIVE StmtTerminates(_), Terminates(_)
StmtTerminates(st) ==
  CASE st.s = "return" -> TRUE
    [] st.s = "if" -> IfEnds(<<Terminates(st.then), Terminates(st.else)>>)
    [] st.s = "while" -> st.x.e = "true"
    [] st.s = "with" -> Terminates(st.body)
    [] st.s = "match" -> Exhaustive(st.arms) /\ st.arms # <<>> /\ \A i \in DOMAIN st.arms : Terminates(st.arms[i].body)
    [] OTHER -> FALSE
Terminates(stmts) == \E i \in DOMAIN stmts : StmtTerminates(stmts[i])

(* What they report as errors: names out of scope, arms that do not fit.   *)
RECURSIVE CheckStmt(_, _), CheckList(_, _)
CheckStmt(scope, st) ==
  /\ st.s # "for" => Known(scope, st.x)
  /\ CASE st.s \in {"let", "do", "store", "return"} -> TRUE
       [] st.s = "assign" -> st.n \in scope
       [] st.s = "if" -> CheckList(scope, st.then) /\ CheckList(scope, st.else)
       [] st.s = "while" -> CheckList(scope, st.body)
       [] st.s \in {"for", "with"} -> CheckList(scope \cup {st.n}, st.body)
       [] st.s = "iflet" -> CheckList(scope \cup ToSet(st.binds), st.body)
       [] st.s = "match" ->
            MatchFits(st.arms) /\ \A i \in DOMAIN st.arms : CheckList(scope \cup ToSet(st.arms[i].binds), st.arms[i].body)
CheckList(scope, stmts) ==
  stmts # <<>> => /\ CheckStmt(scope, Head(stmts))
                  /\ CheckList(scope \cup (IF Head(stmts).s = "let" THEN {Head(stmts).n} ELSE {}), Tail(stmts))

(* checkMethods: the body is checked and a method with a result returns.   *)
Accepted(body) == CheckList(Params \cup {"self"}, body) /\ Terminates(body)
-----------------------------------------------------------------------------
(* lowerScope: what a name is bound to.  Later definitions hide earlier    *)
(* ones, those of an enclosing scope included.                             *)
Define(scope, n, v) == (n :> v) @@ scope
DefineAll(scope, names, vs) == FoldLeft(LAMBDA sc, i : Define(sc, names[i], vs[i]), scope, [i \in DOMAIN names |-> i])

(* lowerCallArgs: the arguments in the order of the callee's parameters.   *)
ArgFor(x, i) == x.args[CHOOSE j \in DOMAIN x.args : x.args[j].name = x.params[i]].value
Args(x) == [i \in DOMAIN x.params |-> ArgFor(x, i)]

(* The value of an expression: a name is the value it is bound to, with no *)
(* operation; any other expression is the operation at its place.          *)
Operand(scope, x, at) == IF x.e = "name" THEN scope[x.n] ELSE at
Operands(scope, xs, at) == [i \in DOMAIN xs |-> Operand(scope, xs[i], at \o <<10 + i>>)]

LowerConst(n, at) == <<[op |-> "const", v |-> at, value |-> <<n>>]>>
LowerCall(scope, x, at) == <<[op |-> "call", v |-> at, f |-> x.f, args |-> Operands(scope, Args(x), at)]>>
LowerVariant(scope, x, at) == <<[op |-> "construct", v |-> at, k |-> x.k, args |-> Operands(scope, x.args, at)]>>

(* lowerExpr: the operations of the operands, left to right, then its own. *)
RECURSIVE LowerExpr(_, _, _)
LowerExpr(scope, x, at) ==
  LET Each(xs) == FlattenSeq([i \in DOMAIN xs |-> LowerExpr(scope, xs[i], at \o <<10 + i>>)])
  IN CASE x.e = "name" -> <<>>
       [] x.e = "int" -> LowerConst(x.v, at)
       [] x.e = "true" -> LowerConst(1, at)
       [] x.e = "field" -> <<[op |-> "load", v |-> at, field |-> x.n]>>
       [] x.e = "bin" -> Each(<<x.l, x.r>>) \o <<[op |-> "add", v |-> at, args |-> Operands(scope, <<x.l, x.r>>, at)]>>
       [] x.e = "call" -> Each(Args(x)) \o LowerCall(scope, x, at)
       [] x.e = "variant" -> Each(x.args) \o LowerVariant(scope, x, at)

(* assignedNames: the names some assignment of the body writes, at any     *)
(* depth.                                                                  *)
RECURSIVE AssignedNames(_)
Inside(st) ==
  CASE st.s = "if" -> st.then \o st.else
    [] st.s = "match" -> FlattenSeq([i \in DOMAIN st.arms |-> st.arms[i].body])
    [] st.s \in {"while", "for", "with", "iflet"} -> st.body
    [] OTHER -> <<>>
AssignedNames(stmts) ==
  UNION {(IF stmts[i].s = "assign" THEN {stmts[i].n} ELSE {}) \cup AssignedNames(Inside(stmts[i])) : i \in DOMAIN stmts}

Copy(target, source) == [op |-> "copy", target |-> target, source |-> source]
If(cops, c, then, else) == [op |-> "if", cops |-> cops, c |-> c, then |-> then, else |-> else]

(* The LetStmt: a name that is assigned somewhere gets a Local and a copy, *)
(* any other one names the value itself.                                   *)
LetScope(scope, mutable, st, at) == Define(scope, st.n, IF st.n \in mutable THEN at \o <<0>> ELSE Operand(scope, st.x, at))
LowerLet(scope, mutable, st, at) ==
  LowerExpr(scope, st.x, at) \o (IF st.n \in mutable THEN <<Copy(at \o <<0>>, Operand(scope, st.x, at))>> ELSE <<>>)

(* Variant: only the innermost frame is ended.                             *)
LowerReturnInnermost(v, frames) ==
  (IF frames = <<>> THEN <<>> ELSE <<[op |-> "end", frame |-> Last(frames)]>>) \o <<[op |-> "return", v |-> v]>>
(* lowerReturn: the value, then every active frame ended, innermost first. *)
LowerReturn(v, frames) ==
  [i \in DOMAIN frames |-> [op |-> "end", frame |-> Reverse(frames)[i]]] \o <<[op |-> "return", v |-> v]>>

(* lowerPatternBindings: the payload fields an arm binds.                  *)
Extract(v, binds, at) == [i \in DOMAIN binds |-> [op |-> "extract", v |-> at \o <<i>>, of |-> v, field |-> i]]
Bound(scope, binds, at) == DefineAll(scope, binds, [i \in DOMAIN binds |-> at \o <<i>>])
Test(v, k, at) == [op |-> "test", v |-> at, of |-> v, k |-> k]

(* lowerIfLetStmt: one test, and the bindings before the body.             *)
LowerIfLet(v, st, body, at) ==
  <<If(<<Test(v, st.k, at \o <<4>>)>>, at \o <<4>>, Extract(v, st.binds, at \o <<5>>) \o body, <<>>)>>

RECURSIVE LowerStmt(_, _, _, _, _), LowerList(_, _, _, _, _), LowerArms(_, _, _, _, _, _)
LowerStmt(scope, mutable, frames, st, at) ==
  LET ops == LowerExpr(scope, st.x, at)
      v == Operand(scope, st.x, at)
      Body(sc, stmts, i) == LowerList(sc, mutable, frames, stmts, at \o <<i>>)
  IN CASE st.s = "assign" -> ops \o <<Copy(scope[st.n], v)>>
       [] st.s = "store" -> ops \o <<[op |-> "store", field |-> st.n, source |-> v]>>
       [] st.s = "do" -> ops
       [] st.s = "return" -> ops \o LowerReturn(v, frames)
       [] st.s = "while" -> <<[op |-> "while", cops |-> ops, c |-> v, body |-> Body(scope, st.body, 1)]>>
       [] st.s = "for" ->
            <<[op |-> "for", i |-> 0, v |-> at \o <<2>>, body |-> Body(Define(scope, st.n, at \o <<2>>), st.body, 1)]>>
       [] st.s = "if" -> <<If(ops, v, Body(scope, st.then, 1), Body(scope, st.else, 2))>>
       [] st.s = "match" -> ops \o LowerArms(scope, mutable, frames, v, st.arms, at \o <<3>>)
       [] st.s = "iflet" -> ops \o LowerIfLet(v, st, Body(Bound(scope, st.binds, at \o <<5>>), st.body, 1), at)
       [] st.s = "with" ->
            LET frame == [v |-> at \o <<6>>, name |-> st.n]
            IN ops \o <<[op |-> "begin", frame |-> frame]>>
                 \o LowerList(Define(scope, st.n, frame.v), mutable, Append(frames, frame), st.body, at \o <<1>>)
                 \o <<[op |-> "end", frame |-> frame]>>

(* lowerMatchArms: a chain of tests; a wildcard ends it.                   *)
LowerArms(scope, mutable, frames, v, arms, at) ==
  IF arms = <<>> THEN <<>>
  ELSE LET a == Head(arms)
           body == LowerList(Bound(scope, a.binds, at \o <<5>>), mutable, frames, a.body, at \o <<1>>)
       IN IF a.k = 0 THEN body
          ELSE <<If(<<Test(v, a.k, at \o <<4>>)>>, at \o <<4>>, Extract(v, a.binds, at \o <<5>>) \o body,
                    LowerArms(scope, mutable, frames, v, Tail(arms), at \o <<3>>))>>

LowerList(scope, mutable, frames, stmts, at) ==
  IF stmts = <<>> THEN <<>>
  ELSE LET here == at \o <<Len(stmts)>>
       IN IF Head(stmts).s = "let"
          THEN LowerLet(scope, mutable, Head(stmts), here)
                 \o LowerList(LetScope(scope, mutable, Head(stmts), here), mutable, frames, Tail(stmts), at)
          ELSE LowerStmt(scope, mutable, frames, Head(stmts), here) \o LowerList(scope, mutable, frames, Tail(stmts), at)

(* lowerMethodWithSymbol.                                                  *)
MethodScope == [n \in Params \cup {"self"} |-> IF n = "self" THEN <<-1>> ELSE <<-2>>]
LowerMethod(body) == LowerList(MethodScope, AssignedNames(body), <<>>, body, <<>>)
-----------------------------------------------------------------------------
(* Both runs share what is outside the method: the receiver's field, the   *)
(* results of the calls, and the trace of calls and frames.                *)
Junk == <<99>>
World == [fields |-> [f |-> <<4>>], in |-> 1, trace |-> <<>>, end |-> "no", result |-> <<>>]
Outcome(n) == IF n <= Len(lo.outcomes) THEN lo.outcomes[n] ELSE 0
Result(f, w) == CASE f = "get" -> <<Outcome(w.in)>>
                  [] f = "find" -> IF Outcome(w.in) = 1 THEN <<2, 5>> ELSE <<1>>
                  [] OTHER -> <<0>>
Called(w, f, args) ==
  [w EXCEPT !.in = IF f = "use" THEN @ ELSE @ + 1, !.trace = Append(@, <<f, args>>)]
Finished(w, v) == [w EXCEPT !.end = "returned", !.result = v]
Bytes == <<7, 8>>

Init == \E b \in Bodies :
          lo = [phase |-> "check", outcomes |-> <<>>,
                m |-> [todo |-> <<>>, slot |-> <<-2>> :> <<3>>, w |-> World],
                s |-> [todo |-> b, env |-> <<[p |-> <<3>>]>>, w |-> World]]

CheckMethod == /\ lo.phase = "check"
               /\ lo' = [lo EXCEPT !.phase = IF Accepted(lo.s.todo) THEN "lower" ELSE "rejected"]

Lower == /\ lo.phase = "lower"
         /\ lo' = [lo EXCEPT !.phase = "lowered", !.m.todo = LowerMethod(lo.s.todo)]

(* The method is called; what the calls it makes return is not its choice. *)
Enter == lo.phase = "lowered" /\ \E o \in Outcomes : lo' = [lo EXCEPT !.phase = "run", !.outcomes = o]

(* An operation reads the slots of its operands; a slot that was never     *)
(* written holds anything.                                                 *)
Slot(v) == IF v \in DOMAIN lo.m.slot THEN lo.m.slot[v] ELSE Junk
Slots(vs) == [i \in DOMAIN vs |-> Slot(vs[i])]

Running == lo.phase = "run" /\ lo.m.w.end = "no" /\ lo.m.todo # <<>>
Op == Head(lo.m.todo)
Put(v, x, m) == [m EXCEPT !.slot = (v :> x) @@ @]
Continue(m) == lo' = [lo EXCEPT !.m = m]

ExecValue ==
  /\ Running /\ Op.op \in {"const", "add", "load", "construct", "test", "extract", "copy"}
  /\ LET m == [lo.m EXCEPT !.todo = Tail(@)] IN Continue(
       CASE Op.op = "const" -> Put(Op.v, Op.value, m)
         [] Op.op = "add" -> Put(Op.v, <<Slot(Op.args[1])[1] + Slot(Op.args[2])[1]>>, m)
         [] Op.op = "load" -> Put(Op.v, lo.m.w.fields[Op.field], m)
         [] Op.op = "construct" -> Put(Op.v, <<Op.k>> \o FlattenSeq(Slots(Op.args)), m)
         [] Op.op = "test" -> Put(Op.v, <<IF Slot(Op.of)[1] = Op.k THEN 1 ELSE 0>>, m)
         [] Op.op = "extract" -> Put(Op.v, <<Slot(Op.of)[Op.field + 1]>>, m)
         [] Op.op = "copy" -> Put(Op.target, Slot(Op.source), m))
ExecEffect ==
  /\ Running /\ Op.op \in {"store", "call", "begin", "end", "return"}
  /\ LET m == [lo.m EXCEPT !.todo = Tail(@)] IN Continue(
       CASE Op.op = "store" -> [m EXCEPT !.w.fields[Op.field] = Slot(Op.source)]
         [] Op.op = "call" -> Put(Op.v, Result(Op.f, m.w), [m EXCEPT !.w = Called(@, Op.f, Slots(Op.args))])
         [] Op.op = "begin" -> [m EXCEPT !.w.trace = Append(@, <<"begin", Op.frame.name>>)]
         [] Op.op = "end" -> [m EXCEPT !.w.trace = Append(@, <<"end", Op.frame.name>>)]
         [] Op.op = "return" -> [todo |-> <<>>, slot |-> <<>>, w |-> Finished(m.w, Slot(Op.v))])
ExecBranch ==
  /\ Running /\ Op.op \in {"if", "while", "choose", "for"}
  /\ Continue(
       CASE Op.op = "if" -> [lo.m EXCEPT !.todo = Op.cops \o <<[Op EXCEPT !.op = "choose"]>> \o Tail(@)]
         [] Op.op = "while" -> [lo.m EXCEPT !.todo = Op.cops \o <<[op |-> "choose", c |-> Op.c, then |-> Op.body \o <<Op>>, else |-> <<>>]>> \o Tail(@)]
         [] Op.op = "choose" -> [lo.m EXCEPT !.todo = (IF Slot(Op.c) = <<0>> THEN Op.else ELSE Op.then) \o Tail(@)]
         [] Op.op = "for" -> IF Op.i = Len(Bytes) THEN [lo.m EXCEPT !.todo = Tail(@)]
                             ELSE Put(Op.v, <<Bytes[Op.i + 1]>>, [lo.m EXCEPT !.todo = Op.body \o <<[Op EXCEPT !.i = @ + 1]>> \o Tail(@)]))
-----------------------------------------------------------------------------
(* What the source says.  env is the stack of scopes, innermost last; an   *)
(* expression is evaluated from left to right, a call's arguments in the   *)
(* order of its parameters.                                                *)
ScopeOf(env, n) == CHOOSE i \in DOMAIN env : n \in DOMAIN env[i] /\ \A j \in (i + 1)..Len(env) : n \notin DOMAIN env[j]
RECURSIVE Eval(_, _, _), EvalAll(_, _, _)
Eval(x, env, w) ==
  CASE x.e = "name" -> <<env[ScopeOf(env, x.n)][x.n], w>>
    [] x.e = "int" -> <<<<x.v>>, w>>
    [] x.e = "true" -> <<<<1>>, w>>
    [] x.e = "field" -> <<w.fields[x.n], w>>
    [] x.e = "bin" -> LET l == Eval(x.l, env, w) r == Eval(x.r, env, l[2]) IN <<<<l[1][1] + r[1][1]>>, r[2]>>
    [] x.e = "variant" -> LET as == EvalAll(x.args, env, w) IN <<<<x.k>> \o FlattenSeq(as[1]), as[2]>>
    [] x.e = "call" ->
         LET as == EvalAll([i \in DOMAIN x.params |-> ArgFor(x, i)], env, w)
         IN <<Result(x.f, as[2]), Called(as[2], x.f, as[1])>>
EvalAll(xs, env, w) ==
  IF xs = <<>> THEN <<<<>>, w>>
  ELSE LET first == Eval(Head(xs), env, w) rest == EvalAll(Tail(xs), env, first[2])
       IN <<<<first[1]>> \o rest[1], rest[2]>>

(* A body runs in a scope of its own; leaving the body of a with ends its  *)
(* frame.                                                                  *)
Block(scope, stmts, frame) == <<[s |-> "enter", scope |-> scope]>> \o stmts \o <<[s |-> "leave", frame |-> frame]>>
Ends(frame) == IF frame = "" THEN <<>> ELSE <<<<"end", frame>>>>
EndsOf(todo) == FlattenSeq([i \in DOMAIN todo |-> IF todo[i].s = "leave" THEN Ends(todo[i].frame) ELSE <<>>])
Payload(v, binds) == [n \in ToSet(binds) |-> <<v[1 + CHOOSE i \in DOMAIN binds : binds[i] = n]>>]
Taken(v, arms) == arms[CHOOSE i \in DOMAIN arms : arms[i].k \in {0, v[1]} /\ \A j \in 1..(i - 1) : arms[j].k \notin {0, v[1]}]

Prescribed(st) ==
  LET rest == [lo.s EXCEPT !.todo = Tail(@)]
      r == Eval(st.x, lo.s.env, lo.s.w)
      Then(stmts) == [rest EXCEPT !.todo = stmts \o @, !.w = r[2]]
  IN CASE st.s = "let" -> [rest EXCEPT !.env[Len(lo.s.env)] = (st.n :> r[1]) @@ @, !.w = r[2]]
       [] st.s = "assign" -> [rest EXCEPT !.env[ScopeOf(lo.s.env, st.n)][st.n] = r[1], !.w = r[2]]
       [] st.s = "store" -> [rest EXCEPT !.w = [r[2] EXCEPT !.fields[st.n] = r[1]]]
       [] st.s = "do" -> Then(<<>>)
       [] st.s = "return" -> [rest EXCEPT !.w = Finished([r[2] EXCEPT !.trace = @ \o EndsOf(rest.todo)], r[1])]
       [] st.s = "if" -> Then(Block(<<>>, IF r[1] = <<0>> THEN st.else ELSE st.then, ""))
       [] st.s = "while" -> Then(IF r[1] = <<0>> THEN <<>> ELSE Block(<<>>, st.body, "") \o <<st>>)
       [] st.s = "for" -> [rest EXCEPT !.todo = FlattenSeq([i \in DOMAIN Bytes |-> Block(st.n :> <<Bytes[i]>>, st.body, "")]) \o @]
       [] st.s = "match" -> LET a == Taken(r[1], st.arms) IN Then(Block(Payload(r[1], a.binds), a.body, ""))
       [] st.s = "iflet" -> Then(IF r[1][1] = st.k THEN Block(Payload(r[1], st.binds), st.body, "") ELSE <<>>)
       [] st.s = "with" -> [rest EXCEPT !.todo = Block(st.n :> <<0>>, st.body, st.n) \o @, !.w.trace = Append(@, <<"begin", st.n>>)]
       [] st.s = "enter" -> [rest EXCEPT !.env = Append(@, st.scope)]
       [] st.s = "leave" -> [rest EXCEPT !.env = Front(@), !.w.trace = @ \o Ends(st.frame)]

Prescribe == /\ lo.phase = "run" /\ lo.m.w.end # "no" /\ lo.s.w.end = "no"
             /\ lo' = [lo EXCEPT !.s = Prescribed(Head(@.todo))]

Next == CheckMethod \/ Lower \/ Enter \/ ExecValue \/ ExecEffect \/ ExecBranch \/ Prescribe
Spec == Init /\ [][Next]_lo /\ WF_lo(Next)
-----------------------------------------------------------------------------
(* The operations of a method do what its source says: the same calls with *)
(* the same arguments, the same stores, the same frames begun and ended in *)
(* the same order on every path, and the same result, whatever the calls   *)
(* return and however names hide each other.                               *)
LoweredAsWritten == lo.s.w.end # "no" => lo.m.w = lo.s.w

(* A method with a result that the checker accepts returns one on every    *)
(* path: its operations never run out, which would leave the caller with   *)
(* whatever the result register holds.                                     *)
AcceptedMethodsReturn == lo.phase = "run" => lo.m.todo # <<>> \/ lo.m.w.end = "returned"

Done == lo.phase = "rejected" \/ lo.s.w.end # "no"
=============================================================================
