------------------------------ MODULE Samples ------------------------------
(***************************************************************************)
(* The inputs the compiler's passes are run on: source texts, token        *)
(* alphabets, function bodies, value-building functions, asm methods and   *)
(* programs to link.                                                       *)
(***************************************************************************)
EXTENDS Integers, Sequences

(* Lexer: every text of up to four characters.                             *)
Characters == {"a", "0", "x", "9", " ", "\n", "/", "-", ">", "=", "\"", "\\", "#"}
Texts == UNION {[1..n -> Characters] : n \in 0..4}

(* Parser: where to start, over which tokens, up to which length.          *)
Start(rule, tokens, max) == [rule |-> rule, tokens |-> tokens, max |-> max]
TokenStreams ==
  {Start("expr0", {"x", "7", "+", "*", "<", ".", "(", ")", "newline"}, 6),
   Start("expr0", {"T", "<", ">", ">>", "(", ")"}, 6),
   Start("typeRef", {"T", "<", ">", ">>", ","}, 8),
   Start("expr0", {"T", "x", ".", "(", ")", "=", ",", "newline"}, 5),
   Start("expr0", {"sizeof", "alignof", "never", "s", "T", "(", ")"}, 5),
   Start("decl", {"class", "T", "x", ":", "{", "}", "newline", "fn", "(", ")", "self", ","}, 9),
   Start("decl", {"unique", "driver", "path", "x", "{", "}", "interrupt", "receiver", "->"}, 11),
   Start("decl", {"executor", "on", "x", ".", "interrupt", "(", ")", ":", "{", "}"}, 16),
   Start("decl", {"event", "x", "id", "7", "{", "}", "upcast", ":"}, 10),
   Start("eventLayout", {"layout", "7", "current", "{", "}", "x", ":", "="}, 9),
   Start("upcast", {"upcast", "7", "->", "{", "}", "x"}, 10),
   Start("decl", {"projection", "x", "id", "7", "{", "}", "layout", "upcast", "->", ":"}, 12),
   Start("decl", {"image", "x", "{", "}", "transitions", "->", ",", "phase", "(", ")"}, 12),
   Start("decl", {"trait", "x", "<", ">", "{", "}", "fn", "(", ")", "where", ":", ","}, 12),
   Start("decl", {"impl", "x", "for", "const", ":", "=", "7"}, 7),
   Start("decl", {"static_assert", "(", ")", ",", "message", "=", "s"}, 9),
   Start("decl", {"data", "x", "{", "}", "asm", "fn", "(", ")", ":", ";"}, 12),
   Start("module", {"module", "x", "use", "{", "}", "from", "newline", ",", "enum", "(", ")", ":"}, 10),
   Start("block", {"{", "}", "let", "x", "=", "return", "newline", "if", "else"}, 7),
   Start("block", {"{", "}", "x", "while", "for", "in", "with", "as"}, 8),
   Start("stmt", {"match", "x", "{", "}", "_", "=>", "."}, 10),
   Start("pattern", {"x", ".", "(", ")", "=", ",", "_"}, 12)}
-----------------------------------------------------------------------------
(* Code generator: bodies of structured operations.                        *)
Act(v) == [op |-> "act", v |-> v]
Ret == [op |-> "return"]
Checked == [op |-> "checked", v |-> "k"]
Unknown == [const |-> 2, v |-> "c"]
Constant(b) == [const |-> b, v |-> ""]
Compare == <<[op |-> "compare", v |-> "c"]>>
Test == <<[op |-> "test", v |-> "c"]>>
IfOp(cops, cond, then, else) == [op |-> "if", cops |-> cops, cond |-> cond, then |-> then, else |-> else]
WhileOp(cops, cond, body) == [op |-> "while", cops |-> cops, cond |-> cond, body |-> body]
ForOp(i, body) == [op |-> "for", iops |-> <<Act("s")>>, i |-> i, body |-> body]

Blocks == {<<>>, <<Act("a")>>, <<Act("a"), Ret>>}
Inner == {IfOp(c, Unknown, t, e) : c \in {Compare, Test}, t \in Blocks, e \in {<<>>, <<Act("b")>>}}
Loops == {WhileOp(c, Unknown, b) : c \in {Compare, Test}, b \in Blocks}
         \cup {ForOp("j", b) : b \in {<<Act("a")>>, <<Checked>>}}
Bodies == {<<x, Act("d")>> : x \in Inner \cup Loops} \cup {<<Checked>>}
Structured ==
  {WhileOp(Compare, Unknown, b) : b \in Bodies} \cup {ForOp("i", b) : b \in Bodies}
    \cup {IfOp(Test, Unknown, b, <<Act("e")>>) : b \in Bodies}
    \cup {IfOp(c, Unknown, <<Act("e")>>, b) : c \in {Compare, Test}, b \in Bodies}
    \cup {IfOp(Compare, Unknown, <<x, Act("d")>>, <<Act("e")>>) : x \in Loops}
    \cup {IfOp(<<>>, Constant(b), <<Act("e")>>, <<Act("f")>>) : b \in {0, 1}}
    \cup {WhileOp(<<>>, Constant(0), <<Act("e")>>), WhileOp(<<>>, Constant(1), <<Act("e"), Ret>>)}
(* An if on a comparison with a branching then-part.                       *)
NestedIf == {IfOp(Compare, Unknown, b, <<Act("e")>>) : b \in Bodies}

Function(x) == <<[label |-> "entry", ops |-> <<x, Act("z")>>]>>
BlockGraph(l, r) ==
  <<[label |-> "entry", ops |-> Compare \o <<[op |-> "branch", cond |-> Unknown, t |-> <<l>>, f |-> <<r>>]>>],
    [label |-> "l", ops |-> <<Act("l"), Ret>>], [label |-> "r", ops |-> <<Act("r"), Ret>>]>>
CodePrograms == {Function(x) : x \in Structured} \cup {BlockGraph("l", "r"), BlockGraph("l", "missing")}
NestedIfPrograms == {Function(x) : x \in NestedIf}
BranchOutcomes == [1..4 -> {0, 1}]
-----------------------------------------------------------------------------
(* Values: types 1..10, and pairs of a callee and its caller.              *)
FieldOf(n, t) == [name |-> n, type |-> t]
Type(kind, size, fields, variants) == [kind |-> kind, size |-> size, fields |-> fields, variants |-> variants]
Data(fields) == Type("data", 0, fields, <<>>)
Variant(fields) == [fields |-> fields]
TypeDecls ==
  <<Type("primitive", 1, <<>>, <<>>), Type("primitive", 8, <<>>, <<>>),
    Data(<<FieldOf("a", 1), FieldOf("b", 2)>>), Data(<<>>),
    Data(<<FieldOf("x", 1), FieldOf("p", 3), FieldOf("q", 3)>>), Data(<<FieldOf("n", 5), FieldOf("y", 2)>>),
    Type("enum", 0, <<>>, <<Variant(<<>>), Variant(<<FieldOf("v", 2)>>), Variant(<<FieldOf("v", 1), FieldOf("w", 1)>>)>>),
    Type("enum", 0, <<>>, <<Variant(<<>>), Variant(<<FieldOf("v", 3)>>)>>),
    Type("enum", 0, <<>>, <<Variant(<<>>), Variant(<<>>)>>)>>
Int8(v) == [op |-> "const", type |-> 1, value |-> v]
Int64(v) == [op |-> "const", type |-> 2, value |-> v]
Build(t, args) == [op |-> "construct", type |-> t, args |-> args]
Make(t, v, args) == [op |-> "variant", type |-> t, variant |-> v, args |-> args]
Get(t, of, f) == [op |-> "load", type |-> t, of |-> of, field |-> f]
Set(of, f, v) == [op |-> "store", type |-> 1, of |-> of, field |-> f, value |-> v]
Extract(t, of, f) == [op |-> "extract", type |-> t, of |-> of, field |-> f]
IsVariant(of, v) == [op |-> "test", type |-> 1, of |-> of, variant |-> v]
CallOf(t) == [op |-> "call", type |-> t]
Pair == <<Int8(11), Int64(12), Build(3, <<1, 2>>)>>
Node == Pair \o <<Int8(13), Build(3, <<4, 2>>), Build(5, <<1, 3, 5>>)>>
FunctionPairs ==
  {<<Pair, <<CallOf(3), Get(1, 1, "a"), Get(2, 1, "b"), Set(1, "b", 3)>>>>,
   <<<<Build(4, <<>>)>>, <<CallOf(4)>>>>,
   <<<<Int8(11)>>, <<CallOf(1)>>>>,
   <<Node, <<CallOf(5), Get(3, 1, "p"), Int8(21), Set(2, "a", 3), Set(1, "q", 2), Get(3, 1, "q"), Set(2, "a", 3)>>>>,
   <<Node \o <<Build(6, <<6, 2>>)>>,
     <<CallOf(6), Get(5, 1, "n"), Get(3, 2, "q"), Int64(22), Set(3, "b", 4), Set(2, "p", 3), Set(1, "n", 2), Int8(23), Set(2, "x", 8)>>>>,
   <<<<Int64(11), Make(7, 2, <<1>>)>>, <<CallOf(7), IsVariant(1, 2), IsVariant(1, 1), Extract(2, 1, <<2, "v">>)>>>>,
   <<<<Int8(11), Int8(12), Make(7, 3, <<1, 2>>)>>, <<CallOf(7), IsVariant(1, 3), Extract(1, 1, <<3, "w">>), Extract(1, 1, <<3, "v">>)>>>>,
   <<<<Make(9, 2, <<>>)>>, <<CallOf(9), IsVariant(1, 2)>>>>,
   <<Pair, <<CallOf(3), Make(8, 2, <<1>>), IsVariant(2, 2), Int8(21), Set(1, "a", 4), Extract(3, 2, <<2, "v">>), Set(6, "a", 4)>>>>}
(* A function that returns an enum value whose payload is a record.        *)
EnumReturns == {<<Pair \o <<Make(8, 2, <<3>>)>>, <<CallOf(8), IsVariant(1, 2), Extract(3, 1, <<2, "v">>)>>>>}
-----------------------------------------------------------------------------
(* Lowering: method bodies over a local x, a parameter p, a field f and    *)
(* calls.  No let names a variable that is assigned.                       *)
Name(n) == [e |-> "name", n |-> n]
Num(v) == [e |-> "int", v |-> v]
True == [e |-> "true"]
FieldF == [e |-> "field", n |-> "f"]
Add(l, r) == [e |-> "bin", l |-> l, r |-> r]
Call(f, params, args) == [e |-> "call", f |-> f, params |-> params, args |-> args]
Arg(n, x) == [name |-> n, value |-> x]
GetBit == Call("get", <<>>, <<>>)
Find == Call("find", <<>>, <<>>)
Some(x) == [e |-> "variant", k |-> 2, args |-> <<x>>]
Let(n, x) == [s |-> "let", n |-> n, x |-> x]
Assign(n, x) == [s |-> "assign", n |-> n, x |-> x]
StoreF(x) == [s |-> "store", n |-> "f", x |-> x]
Use(x) == [s |-> "do", x |-> Call("use", <<"a">>, <<Arg("a", x)>>)]
Return(x) == [s |-> "return", x |-> x]
IfStmt(x, t, e) == [s |-> "if", x |-> x, then |-> t, else |-> e]
WhileStmt(x, b) == [s |-> "while", x |-> x, body |-> b]
ForStmt(n, b) == [s |-> "for", n |-> n, body |-> b]
WithStmt(n, p, b) == [s |-> "with", n |-> n, x |-> Name(p), body |-> b]
MatchStmt(x, arms) == [s |-> "match", x |-> x, arms |-> arms]
Arm(k, binds, b) == [k |-> k, binds |-> binds, body |-> b]
IfLet(x, bind, b) == [s |-> "iflet", k |-> 2, binds |-> <<bind>>, x |-> x, body |-> b]

X == Name("x")
Simple ==
  {<<>>, <<Return(X)>>, <<Assign("x", Add(X, Name("p")))>>, <<Let("x", GetBit), Use(X)>>,
   <<Let("x", Num(1)), Assign("x", Add(X, GetBit)), Use(X)>>,
   <<Let("y", FieldF), StoreF(Add(X, Name("y"))), Assign("x", Name("y"))>>,
   <<Assign("p", Add(X, Num(1)))>>, <<Use(Name("y"))>>}
Swapped == <<[s |-> "do", x |-> Call("use", <<"a", "b">>, <<Arg("b", GetBit), Arg("a", FieldF)>>)],
             [s |-> "do", x |-> Call("two", <<"a", "b">>, <<Arg("b", GetBit), Arg("a", Find)>>)]>>
Bound == {<<Use(Name("w"))>>, <<Assign("x", Add(Name("w"), X)), Use(Name("w"))>>, <<Let("x", Name("w")), Use(X)>>,
          <<Assign("w", X), Use(Name("w"))>>, <<Return(Name("w"))>>}
Compounds ==
  {IfStmt(GetBit, t, e) : t \in Simple, e \in {<<>>, <<Return(Name("p"))>>}}
    \cup {WhileStmt(GetBit, b) : b \in Simple \cup {Swapped}}
    \cup {ForStmt("w", b) : b \in Bound \cup {<<Use(Name("y"))>>}}
    \cup {MatchStmt(Find, <<Arm(2, <<"w">>, b), Arm(k, <<>>, d)>>) : b \in Bound, k \in {0, 1, 2}, d \in {<<Return(X)>>, <<Assign("x", Num(6))>>}}
    \cup {MatchStmt(Some(X), <<Arm(1, <<>>, <<Return(X)>>), Arm(2, <<"w">>, b)>>) : b \in Bound}
    \cup {IfLet(Find, "w", b) : b \in Bound}
    \cup {WithStmt("a", "self", b) : b \in Simple}
Around(c) ==
  {<<c>>, <<WithStmt("b", "self", <<c, Use(X)>>)>>, <<WhileStmt(GetBit, <<c, Use(X)>>)>>,
   <<WithStmt("b", "self", <<WithStmt("a", "b", <<Use(X), c>>), Use(X)>>)>>,
   <<WhileStmt(True, <<IfStmt(GetBit, <<c>>, <<Return(Num(9))>>)>>)>>,
   <<IfLet(Some(X), "v", <<Assign("x", Name("v")), c, Use(Name("v"))>>)>>}
MethodBodies ==
  {<<Let("x", GetBit)>> \o b \o t : b \in UNION {Around(c) : c \in Compounds}, t \in {<<>>, <<Use(X), Return(Add(X, FieldF))>>}}
CallResults == [1..3 -> {0, 1}]
-----------------------------------------------------------------------------
(* Assembler: an operand with its width, 0 where it has none of its own.   *)
Named(s, w) == [o |-> [t |-> "name", s |-> s], w |-> w]
Self(f, w) == [o |-> [t |-> "self", f |-> f], w |-> w]
At(base, disp) == [o |-> [t |-> "mem", base |-> base, disp |-> disp], w |-> 0]
Literal(v) == [o |-> [t |-> "int", v |-> v], w |-> 0]
Statement(label, mn, ops) == [label |-> label, mn |-> mn, ops |-> [i \in DOMAIN ops |-> ops[i].o]]
Method(body) ==
  [params |-> <<[s |-> "a", w |-> 64], [s |-> "b", w |-> 32], [s |-> "c", w |-> 8], [s |-> "d", w |-> 16]>>,
   fields |-> [base |-> [offset |-> 0, w |-> 64], port |-> [offset |-> 8, w |-> 16], flags |-> [offset |-> 136, w |-> 32]],
   offsets |-> [length |-> 16], symbols |-> {"_wrela_trap"}, body |-> body]
Operands ==
  {Named("rax", 64), Named("rsp", 64), Named("r13", 64), Named("ecx", 32), Named("r9d", 32), Named("dx", 16),
   Named("r10w", 16), Named("al", 8), Named("sil", 8), Named("r11b", 8),
   Named("a", 64), Named("b", 32), Named("c", 8), Named("self", 64), Named("nothing", 64),
   Self("base", 64), Self("port", 16), Self("flags", 32), [o |-> [t |-> "member", base |-> "r12", f |-> "length"], w |-> 0]}
  \cup {At(b, d) : b \in {"rsp", "rbp", "r12", "r13"}, d \in {0, 127, -129}}
  \cup {Literal(v) : v \in {0, 127, 128, -129, 4000}}
(* Operands of one width, an immediate that fits an 8-bit one, and no      *)
(* immediate for a 16-bit word in memory.                                  *)
Fitting == {p \in Operands \X Operands :
              /\ 0 \in {p[1].w, p[2].w} \/ p[1].w = p[2].w
              /\ p[2].o.t = "int" => /\ p[1] # Self("port", 16)
                                     /\ p[1].w = 8 => p[2].o.v \in -128..255}
Rax == Named("rax", 64)
Dx == Named("dx", 16)
Methods ==
  {Method(<<Statement("", mn, p), Statement("", "ret", <<>>)>>) : mn \in {"mov", "add", "and", "sub", "cmp", "shr"}, p \in Fitting}
  \cup {Method(<<Statement("", mn, <<a>>), Statement("", "hlt", <<>>)>>) :
          mn \in {"push", "pop", "call", "lgdt", "lidt", "jmp", "nop"}, a \in {o \in Operands : o.w \in {0, 64}}}
  \cup {Method(<<Statement("", "mov", <<Named("cr3", 64), Rax>>), Statement("", "mov", <<Named("ds", 16), Named("ax", 16)>>),
                 Statement("", "mov", <<Named("rdx", 64), Named("cr3", 64)>>)>>),
        Method(<<Statement("", "out", <<Dx, Named("al", 8)>>), Statement("", "in", <<Named("eax", 32), Dx>>),
                 Statement("", "out", <<Dx, Named("ax", 16)>>), Statement("", "retfq", <<>>)>>)}
  \cup {Method(<<Statement("top", "cmp", <<Named("r8", 64), Literal(0)>>), Statement("", j, <<Named(t, 0)>>),
                 Statement("", "sub", <<Named("r8", 64), Literal(n)>>), Statement("", "jmp", <<Named("top", 0)>>),
                 Statement("done", "ret", <<>>)>>) :
          j \in {"jmp", "call", "je", "jne", "jb", "jbe", "jl", "jle", "jg", "jge"},
          t \in {"top", "done", "_wrela_trap", "missing"}, n \in {1, 200}}
-----------------------------------------------------------------------------
(* Image: programs to link, and the records of the entry adapter.          *)
Unit(s, n, c, r) == [sym |-> s, size |-> n, calls |-> c, refs |-> r]
Object(s, n, a) == [sym |-> s, size |-> n, align |-> a]
Program(m, n, callee, ref, rdata, entry) ==
  [units |-> <<Unit("main", m, <<<<0, callee>>>>, <<<<1, ref>>>>), Unit("helper", n, <<>>, <<<<0, "topic">>>>), Unit("trap", 1, <<>>, <<>>)>>,
   rdata |-> rdata, entry |-> entry,
   data |-> <<<<Object("state", 1, 1)>>, <<Object("topic", 2, 4)>>, <<Object("apic", 1, 2)>>>>]
Linked ==
  {Program(m, n, c, r, ro, "main") :
     m \in {2, 5}, n \in {1, 3}, c \in {"helper", "trap", "missing"}, r \in {"topic", "apic", "helper"},
     ro \in {<<>>, <<Object("text", 3, 1), Object("more", 2, 2)>>}}
  \cup {Program(4, 2, "main", "state", <<Object("text", 1, 1)>>, "none")}
RecordOf(n, s, f) == [name |-> n, size |-> s, align |-> 8, fields |-> f]
NoFields == [x \in {} |-> 0]
EntryRecords ==
  <<RecordOf("UefiHandle", 8, NoFields), RecordOf("UefiBootServices", 8, NoFields), RecordOf("UefiBootServicesCalls", 8, NoFields),
    RecordOf("DelegatedBytes", 16, NoFields), RecordOf("UefiMemoryMap", 24, [descriptors |-> 0]),
    RecordOf("DelegatedMemory", 32, [arena_base |-> 0, arena_length |-> 8, next_offset |-> 16, last_memory_map |-> 24]),
    RecordOf("DelegatedHardware", 32, [image_handle |-> 0, boot_services |-> 8, system_table |-> 16, delegated_memory |-> 24])>>
-----------------------------------------------------------------------------
(* Wiring: the parts of an image phase.                                    *)
Slot(l) == [op |-> "slot", label |-> l]
Topic(l) == [op |-> "topic", label |-> l]
Publisher(b, t) == [op |-> "publisher", binding |-> b, topic |-> t]
Subscription(b, t, s, timer) == [op |-> "subscription", binding |-> b, topic |-> t, slot |-> s, timer |-> timer]
Path(b, l, uses, t) == [op |-> "path", binding |-> b, label |-> l, uses |-> uses, topic |-> t]
Executor(b, s, f, m) ==
  [op |-> "executor", binding |-> b, slot |-> s, fields |-> f, memory |-> m,
   policy |-> IF "s1" \in f THEN "EventSleepPolicy" ELSE "HotPollPolicy"]
Place(v, e, terminal) == [op |-> "vcpu", vcpu |-> v, executor |-> e, terminal |-> terminal]
ImagePhases ==
  <<{<<Slot("a"), Slot("b")>>, <<Slot("a")>>, <<Slot("a"), Slot("a")>>},
    {<<Topic("t"), Publisher("p1", "t"), Publisher("p2", "t")>>, <<Topic("t"), Topic("u"), Publisher("p1", "t"), Publisher("p2", "u")>>,
     <<Topic("t"), Topic("t"), Publisher("p1", "t"), Publisher("p2", "t")>>, <<Topic("a"), Publisher("p1", "a")>>},
    {<<Subscription("s1", "t", "a", FALSE), Subscription("s2", "tick", x, TRUE), Subscription("s3", "tick", "a", TRUE)>> : x \in {"a", "b"}},
    {<<Path("d", "disk", {}, t), Path("n", "net", {"d"}, "none")>> : t \in {"none", "t"}},
    {<<Executor("e1", "a", f, m), Executor("e2", s, h, "none")>> :
       f \in {{}, {"p1", "s1"}, {"p2", "s3"}, {"n"}, {"p1", "p2"}, {"s2"}}, m \in {"none", "b"},
       s \in {"a", "b", "none"}, h \in {{}, {"p1"}, {"p2", "s2"}, {"d"}}}
    \cup {<<Executor("e1", "a", {"s1"}, "a"), Executor("e2", s, {}, "a")>> : s \in {"a", "b", "none"}},
    {<<Place(1, "e2", FALSE), Place(0, "e1", TRUE)>>, <<Place(0, "e1", TRUE), Place(1, "e2", FALSE)>>,
     <<Place(0, "e1", TRUE), Place(0, "e2", TRUE)>>, <<Place(1, "e1", FALSE), Place(0, "e2", TRUE)>>,
     <<Place(1, "e1", FALSE), Place(0, "e1", TRUE)>>, <<Place(0, "e1", TRUE)>>, <<Place(0, "e2", TRUE)>>, <<Place(1, "e1", FALSE)>>}>>
-----------------------------------------------------------------------------
(* Programs of up to three modules, r the root: imports in either order, a *)
(* module imported twice, cycles, a file missing or under another name,    *)
(* and constants that refer to constants imported, earlier and later.      *)
ConstInt(n) == [op |-> "int", value |-> n]
ConstName(x) == [op |-> "name", name |-> x]
ConstOp(op, l, r) == [op |-> op, left |-> l, right |-> r]
Import(m) == [path |-> m, names |-> IF m \in {"r", "x"} THEN <<>> ELSE <<m \o "1">>]
Const(x, e) == [name |-> x, expr |-> e]
Module(h, i, c, a) == [header |-> h, imports |-> i, consts |-> c, asserts |-> a]
Roots == {Module("r", i, <<Const("r1", ConstOp(op, ConstName("a1"), ConstName("b1")))>>, a) :
            i \in {<<Import("a")>>, <<Import("a"), Import("b")>>, <<Import("b"), Import("a")>>, <<Import("a"), Import("x")>>},
            op \in {"+", "-", "*", "<<", ">="}, a \in {<<>>, <<ConstOp("<", ConstName("r1"), ConstInt(12))>>}}
ModulesA == {Module("a", i, <<Const("a1", e)>>, <<>>) :
               i \in {<<>>, <<Import("b")>>, <<Import("r")>>}, e \in {ConstInt(3), ConstName("b1"), ConstOp("-", ConstName("b1"), ConstInt(3))}}
ModulesB == {Module(h, <<>>, <<Const("b1", ConstInt(9))>>, <<>>) : h \in {"a", "b"}}
            \cup {Module("b", i, c, <<>>) :
               i \in {<<>>, <<Import("a")>>},
               c \in {<<Const("b1", ConstName("b2")), Const("b2", ConstInt(2))>>, <<Const("b1", ConstName("a1"))>>,
                      <<Const("b2", ConstInt(2)), Const("b1", ConstOp("*", ConstName("b2"), ConstInt(2)))>>}}
ModulePrograms == {[m \in {"r", "a", "b"} |-> CASE m = "r" -> r [] m = "a" -> a [] m = "b" -> b] :
                     r \in Roots, a \in ModulesA, b \in ModulesB}
-----------------------------------------------------------------------------
(* Programs with generic types and traits: a recursive type, one that      *)
(* grows without end, bounds with and without arguments, implementations   *)
(* with and without parameters, before and after what they implement.      *)
G0(n) == [name |-> n, args |-> <<>>]
G1(n, a) == [name |-> n, args |-> <<a>>]
G2(n, a, b) == [name |-> n, args |-> <<a, b>>]
T0 == G0("T")
U64 == G0("U64")
Flag == G0("Bool")
GDecl(kind, n, params, where, fields, methods) ==
  [kind |-> kind, name |-> n, params |-> params, where |-> where, fields |-> fields, methods |-> methods]
GMethod(n, params, ret) == [name |-> n, params |-> params, ret |-> ret]
Where(x, t) == [param |-> x, trait |-> t]
GImpl(trait, for) == [kind |-> "impl", trait |-> trait, for |-> for]
GTraits == <<GDecl("trait", "Mark", <<>>, <<>>, <<>>, <<>>),
             GDecl("trait", "Conv", <<"T">>, <<>>, <<>>, <<GMethod("to", <<T0>>, T0)>>)>>
GTypes(bound, ret, main) ==
  <<GDecl("type", "Main", <<>>, <<>>, <<main>>, <<>>),
    GDecl("type", "Box", <<"T">>, bound, <<T0>>, <<GMethod("to", <<T0>>, T0)>>),
    GDecl("type", "Pair", <<"A", "B">>, <<>>, <<G0("B"), G1("Node", G0("A"))>>, <<>>),
    GDecl("type", "Node", <<"T">>, <<>>, <<G1("Node", T0), T0>>, <<GMethod("swap", <<>>, G2("Pair", T0, T0))>>),
    GDecl("type", "Grow", <<"T">>, <<>>, <<T0>>, IF main.name = "Grow" THEN <<GMethod("more", <<>>, G1("Grow", G1("Node", T0)))>> ELSE <<>>),
    GDecl("type", "Tag", <<"T">>, <<>>, <<U64>>, <<>>),
    GDecl("type", "Hold", <<"T">>, <<>>, <<G1("Tag", G1("Node", T0))>>, <<>>),
    GDecl("type", "Need", <<"T">>, <<Where("T", G1("Conv", U64))>>, <<T0>>, <<>>),
    GDecl("type", "Item", <<>>, <<>>, <<U64>>, <<GMethod("to", <<U64>>, ret)>>)>>
GImplLists == {SelectSeq(<<GImpl(G0("Mark"), U64), GImpl(G1("Conv", T0), G1("Box", T0)), GImpl(G1("Conv", U64), G0("Item"))>>,
                         LAMBDA i : i.for \in chosen) : chosen \in SUBSET {U64, G1("Box", T0), G0("Item")}}
              \cup {<<GImpl(G1("Conv", T0), G1("Box", T0)), GImpl(G1("Conv", U64), G1("Box", U64))>>, <<GImpl(G1("Conv", Flag), G1("Box", U64))>>}
GMains == {G1("Box", U64), G1("Box", G1("Box", U64)), G2("Pair", G1("Box", U64), Flag), G1("Hold", Flag), G1("Grow", U64),
           G1("Need", G1("Box", U64)), G1("Need", G1("Box", Flag)), G1("Need", G0("Item")), G1("Need", G1("Node", U64)),
           G2("Box", U64, U64), G1("Box", G0("Mark")), G1("Box", G0("Nope"))}
GenericPrograms ==
  UNION {{GTraits \o GTypes(b, r, m) \o i, i \o GTraits \o GTypes(b, r, m), GTypes(b, r, m) \o i \o GTraits} :
           b \in {<<>>, <<Where("T", G0("Mark"))>>}, m \in GMains, r \in {U64}, i \in GImplLists}
  \cup {GTraits \o GTypes(<<>>, Flag, G1("Need", G0("Item"))) \o i : i \in GImplLists}
=============================================================================
