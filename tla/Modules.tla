------------------------------- MODULE Modules ------------------------------
(***************************************************************************)
(* Loading the modules a program imports (compiler/source/graph.go) and    *)
(* evaluating their constants and static assertions in the order of the    *)
(* imports (compiler/sem: checkConstDecls, evalConstExpr).                 *)
(*                                                                         *)
(* A program maps module names to files.  A file is its header's module    *)
(* name, its imports [path, names], its constants [name, expr] and the     *)
(* expressions of its static assertions.  Missing is the name of no file.  *)
(***************************************************************************)
EXTENDS Integers, Sequences, FiniteSets, SequencesExt, Bitwise

CONSTANTS Programs, Root,
          Bits   \* width of a constant, 64 in the code
VARIABLE md

Word == 2^Bits
None == "none"
Unevaluated == -1
Indices(s) == 1..Len(s)
File(m) == md.program[m]
Paths(f) == [i \in Indices(f.imports) |-> f.imports[i].path]
-----------------------------------------------------------------------------
(* LoadGraph: the root is loaded, then depth first what it imports.        *)
Init == \E p \in Programs :
  md = [program |-> p, pc |-> "load", want |-> Root, stack |-> <<>>, inProgress |-> {}, loaded |-> {},
        files |-> <<>>, code |-> None, done |-> {}, values |-> [m \in DOMAIN p |-> <<>>], copies |-> [m \in DOMAIN p |-> <<>>],
        walk |-> <<>>, next |-> 1, decl |-> 0]

Refuse(c) == md' = [md EXCEPT !.pc = "refused", !.code = c]

(* loadModule up to its loop over the imports.                             *)
LoadModule ==
  /\ md.pc = "load" /\ md.want # None
  /\ CASE md.want \notin DOMAIN md.program -> Refuse("SRC0003")
       [] md.want \in md.inProgress -> Refuse("SRC0004")
       [] md.want \in md.loaded -> md' = [md EXCEPT !.want = None]
       [] File(md.want).header # md.want -> Refuse(IF File(md.want).header \in md.loaded THEN "SRC0005" ELSE "SRC0002")
       [] OTHER -> md' = [md EXCEPT !.want = None, !.inProgress = @ \cup {md.want}, !.loaded = @ \cup {md.want},
                                    !.files = Append(@, md.want), !.stack = Append(@, [mod |-> md.want, next |-> 1])]

Top == Last(md.stack)
AtImport == md.pc = "load" /\ md.want = None /\ md.stack # <<>>
NextImport ==
  /\ AtImport /\ Top.next <= Len(File(Top.mod).imports)
  /\ md' = [md EXCEPT !.want = File(Top.mod).imports[Top.next].path, !.stack[Len(md.stack)].next = @ + 1]

LeaveModule ==
  /\ AtImport /\ Top.next > Len(File(Top.mod).imports)
  /\ md' = [md EXCEPT !.inProgress = @ \ {Top.mod}, !.stack = Front(@), !.pc = IF Len(md.stack) = 1 THEN "consts" ELSE @]
-----------------------------------------------------------------------------
(* Constants: a value of a module is [name |-> value] in values, its copy  *)
(* in an importing module in copies.  A result is a value or Unevaluated.  *)
Get(f, n) == IF n \in DOMAIN f THEN f[n] ELSE Unevaluated
Declares(s, m, n) == \E i \in Indices(s.program[m].consts) : s.program[m].consts[i].name = n

(* LookupConst: what the module declares hides what it imports.            *)
LookupConst(s, m, n) == IF Declares(s, m, n) THEN Get(s.values[m], n) ELSE Get(s.copies[m], n)

Truth(b) == IF b THEN 1 ELSE 0
Checked(n) == IF n < Word THEN n ELSE Unevaluated
(* The operators: overflow is refused, except that bits shifted out on the *)
(* left are dropped.                                                       *)
Arithmetic(op, l, r) ==
  CASE op = "+" -> Checked(l + r)
    [] op = "-" -> IF r > l THEN Unevaluated ELSE l - r
    [] op = "*" -> Checked(l * r)
    [] op = "<<" -> IF r >= Bits THEN Unevaluated ELSE (l * 2^r) % Word
    [] op = ">>" -> IF r >= Bits THEN Unevaluated ELSE l \div 2^r
    [] op = "&" -> l & r
    [] op = "|" -> l | r
    [] op = "==" -> Truth(l = r)
    [] op = "!=" -> Truth(l # r)
    [] op = "<" -> Truth(l < r)
    [] op = "<=" -> Truth(l <= r)
    [] op = ">" -> Truth(l > r)
    [] op = ">=" -> Truth(l >= r)
    [] OTHER -> Unevaluated

(* A number stands for a literal, a sizeof and an alignof: each of them    *)
(* yields a number or is refused.                                          *)
RECURSIVE EvalConstExpr(_, _, _)
EvalConstExpr(s, m, e) ==
  CASE e.op = "int" -> IF e.value < Word THEN e.value ELSE Unevaluated
    [] e.op = "name" -> LookupConst(s, m, e.name)
    [] OTHER -> IF EvalConstExpr(s, m, e.left) = Unevaluated \/ EvalConstExpr(s, m, e.right) = Unevaluated THEN Unevaluated
                ELSE Arithmetic(e.op, EvalConstExpr(s, m, e.left), EvalConstExpr(s, m, e.right))

(* Variant: the copies stay as the index made them, without values.        *)
RefreshNothing(s, m) == s
(* refreshConstImports: the values of the imported modules as they are.    *)
RefreshConstImports(s, m) ==
  LET imports == ToSet(s.program[m].imports)
      path(n) == (CHOOSE i \in imports : n \in ToSet(i.names)).path
  IN [s EXCEPT !.copies[m] = [n \in UNION {ToSet(i.names) : i \in imports} |-> Get(s.values[path(n)], n)]]

(* checkConstDecls starts with each file in turn that is not done yet;     *)
(* checkModuleConstDecls is run for the module on top of walk.  The graph  *)
(* has no cycle, so its guard against one never fires.                     *)
CheckConstDecls ==
  /\ md.pc = "consts" /\ md.walk = <<>> /\ md.next <= Len(md.files)
  /\ md' = [md EXCEPT !.walk = SelectSeq(<<md.files[md.next]>>, LAMBDA m : m \notin md.done), !.next = @ + 1]

Module == Last(md.walk)
Consts == File(Module).consts
InModule == md.pc = "consts" /\ md.walk # <<>>
(* First the imports that are not done, one by one, then a fresh copy of   *)
(* what they declare.                                                      *)
CheckImports ==
  LET todo == SelectSeq(Paths(File(Module)), LAMBDA p : p \notin md.done)
  IN /\ InModule /\ md.decl = 0
     /\ md' = IF todo # <<>> THEN [md EXCEPT !.walk = Append(@, Head(todo))]
              ELSE [RefreshConstImports(md, Module) EXCEPT !.decl = 1]

(* Then the module's own constants in order.  One without a value is       *)
(* reported (SEM0086 for an overflow, SEM0087 for a name without a value;  *)
(* one code stands for both) and the walk goes on.                         *)
CheckDecl ==
  /\ InModule /\ md.decl \in Indices(Consts)
  /\ LET c == Consts[md.decl]
         v == EvalConstExpr(md, Module, c.expr)
     IN md' = IF v = Unevaluated THEN [md EXCEPT !.code = "SEM0087", !.decl = @ + 1]
              ELSE [md EXCEPT !.values[Module] = (c.name :> v) @@ @, !.decl = @ + 1]

LeaveConsts ==
  /\ InModule /\ md.decl > Len(Consts)
  /\ md' = [RefreshConstImports(md, Module) EXCEPT !.done = @ \cup {Module}, !.walk = Front(@), !.decl = 0]

AssertFails(m, e) == EvalConstExpr(md, m, e) \in {Unevaluated, 0}
CheckStaticAsserts ==
  /\ md.pc = "consts" /\ md.walk = <<>> /\ md.next > Len(md.files)
  /\ IF md.code # None \/ \E m \in md.loaded : \E e \in ToSet(File(m).asserts) : AssertFails(m, e)
     THEN Refuse(IF md.code # None THEN md.code ELSE "SEM0089")
     ELSE md' = [md EXCEPT !.pc = "accepted"]

Next == LoadModule \/ NextImport \/ LeaveModule
        \/ CheckConstDecls \/ CheckImports \/ CheckDecl \/ LeaveConsts \/ CheckStaticAsserts
Done == md.pc \in {"accepted", "refused"}
-----------------------------------------------------------------------------
Imports(m) == IF m \in DOMAIN md.program THEN ToSet(Paths(File(m))) ELSE {}
RECURSIVE ReachedFrom(_)
ReachedFrom(ms) == LET more == ms \cup UNION {Imports(m) : m \in ms} IN IF more = ms THEN ms ELSE ReachedFrom(more)
Cyclic == \E m \in ReachedFrom({Root}) : m \in ReachedFrom(Imports(m))

(* Once loading is over the graph holds what the root imports directly or  *)
(* not, each module once, and no cycle; a cycle is reported only if there  *)
(* is one, so a module that two others import is no cycle.                 *)
GraphLoaded ==
  /\ md.pc \in {"consts", "accepted"} =>
       /\ ToSet(md.files) = ReachedFrom({Root}) /\ Len(md.files) = Cardinality(ToSet(md.files))
       /\ ~Cyclic
  /\ md.code = "SRC0004" => Cyclic

(* What an expression of a module means: names stand for the module's      *)
(* earlier constants (the first k) or for those it imports.                *)
Lifted(op, l, r) == IF l = Unevaluated \/ r = Unevaluated THEN Unevaluated ELSE
  CASE op = "+" -> l + r [] op = "-" -> l - r [] op = "*" -> l * r
    [] op = "<<" -> IF r < Bits THEN (l * 2^r) % Word ELSE Unevaluated
    [] op = ">>" -> IF r < Bits THEN l \div 2^r ELSE Unevaluated
    [] OTHER -> Arithmetic(op, l, r)
RECURSIVE Meaning(_, _, _)
Meaning(m, k, e) ==
  LET own == {i \in 1..k : File(m).consts[i].name = e.name}
      from == {i \in ToSet(File(m).imports) : e.name \in ToSet(i.names)}
      n == CASE e.op = "int" -> e.value
             [] e.op = "name" ->
                  IF Declares(md, m, e.name)
                  THEN IF own = {} THEN Unevaluated ELSE LET i == CHOOSE i \in own : TRUE IN Meaning(m, i - 1, File(m).consts[i].expr)
                  ELSE IF from = {} THEN Unevaluated
                  ELSE LET p == (CHOOSE i \in from : TRUE).path
                           i == CHOOSE i \in Indices(File(p).consts) : File(p).consts[i].name = e.name
                       IN Meaning(p, i - 1, File(p).consts[i].expr)
             [] OTHER -> Lifted(e.op, Meaning(m, k, e.left), Meaning(m, k, e.right))
  IN IF n \in 0..(Word - 1) THEN n ELSE Unevaluated

(* Whatever the order in which modules import each other: a program is     *)
(* accepted exactly if every constant has a meaning and every assertion    *)
(* holds, and then each constant has that value, in its module and         *)
(* wherever it is imported.                                                *)
ConstsAsWritten ==
  LET all == {<<m, i>> \in md.loaded \X (1..3) : i \in Indices(File(m).consts)}
      meaning(c) == Meaning(c[1], c[2] - 1, File(c[1]).consts[c[2]].expr)
      holds(m) == \A e \in ToSet(File(m).asserts) : Meaning(m, Len(File(m).consts), e) \notin {0, Unevaluated}
  IN /\ md.pc = "accepted" =>
          /\ \A c \in all : /\ meaning(c) # Unevaluated
                            /\ LookupConst(md, c[1], File(c[1]).consts[c[2]].name) = meaning(c)
          /\ \A m \in md.loaded : holds(m)
          /\ \A m \in md.loaded : \A i \in ToSet(File(m).imports) : \A n \in ToSet(i.names) :
               LookupConst(md, m, n) = LookupConst(md, i.path, n)
     /\ md.pc = "refused" /\ md.code \in {"SEM0087", "SEM0089"} =>
          (\E c \in all : meaning(c) = Unevaluated) \/ \E m \in md.loaded : ~holds(m)
=============================================================================
