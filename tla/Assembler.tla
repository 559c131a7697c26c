----------------------------- MODULE Assembler ------------------------------
(***************************************************************************)
(* Assembly methods: the body is parsed into instructions, parameters and  *)
(* fields are bound to registers and displacements, every instruction is   *)
(* encoded, and branches are fixed up (asm/parse.go, asm/encode.go,        *)
(* codegen/asm_method.go).  A statement is [label, mn, ops]; an operand as *)
(* written is a name, a field of self, a memory reference or a number.     *)
(* An option is a set of at most one element.                              *)
(***************************************************************************)
EXTENDS Integers, Sequences, SequencesExt, FiniteSetsExt

CONSTANT Methods   \* [params, fields, offsets, body]

VARIABLE am

(***************************************************************************)
(* Registers: number, width in bits, whether the name needs a REX prefix.  *)
(***************************************************************************)
Families ==
    <<<<"rax", "eax", "ax", "al">>, <<"rcx", "ecx", "cx", "cl">>, <<"rdx", "edx", "dx", "dl">>,
      <<"rbx", "ebx", "bx", "bl">>, <<"rsp", "esp", "sp", "spl">>, <<"rbp", "ebp", "bp", "bpl">>,
      <<"rsi", "esi", "si", "sil">>, <<"rdi", "edi", "di", "dil">>,
      <<"r8", "r8d", "r8w", "r8b">>, <<"r9", "r9d", "r9w", "r9b">>, <<"r10", "r10d", "r10w", "r10b">>,
      <<"r11", "r11d", "r11w", "r11b">>, <<"r12", "r12d", "r12w", "r12b">>, <<"r13", "r13d", "r13w", "r13b">>,
      <<"r14", "r14d", "r14w", "r14b">>, <<"r15", "r15d", "r15w", "r15b">>>>
Segments == [es |-> 0, ss |-> 2, ds |-> 3, fs |-> 4, gs |-> 5]

Reg(n, w, rex, kind) == [t |-> "reg", n |-> n, w |-> w, rex |-> rex, kind |-> kind]
Width(column) == <<64, 32, 16, 8>>[column]
LookupReg(name) ==
    {Reg(p[1] - 1, Width(p[2]), p[2] = 4 /\ p[1] \in 5 .. 8, "general") :
        p \in {q \in (1 .. 16) \X (1 .. 4) : Families[q[1]][q[2]] = name}}
    \cup {Reg(3, 64, FALSE, "control") : x \in {name} \cap {"cr3"}}
    \cup {Reg(Segments[x], 16, FALSE, "segment") : x \in {name} \cap DOMAIN Segments}
The(S) == CHOOSE x \in S : TRUE
RegOf(name) == The(LookupReg(name))

(***************************************************************************)
(* Parsing and binding.                                                    *)
(***************************************************************************)
Conditions == [je |-> \h84, jne |-> \h85, jb |-> \h82, jbe |-> \h86,
               jl |-> \h8C, jle |-> \h8E, jg |-> \h8F, jge |-> \h8D]
Branches == {"jmp", "call"} \cup DOMAIN Conditions
Plain == [hlt |-> <<\hF4>>, pause |-> <<\hF3, \h90>>, ret |-> <<\hC3>>, retfq |-> <<\h48, \hCB>>,
          iretq |-> <<\h48, \hCF>>, cli |-> <<\hFA>>, sti |-> <<\hFB>>]
ValidInstructions ==
    DOMAIN Plain \cup Branches
      \cup {"out", "in", "mov", "add", "and", "sub", "cmp", "shr", "push", "pop", "lgdt", "lidt"}

Mem(base, disp, w) == [t |-> "mem", base |-> base, disp |-> disp, w |-> w]
Imm(v) == [t |-> "imm", v |-> v]

\* A name is a register before it is a parameter, and a parameter before it
\* is a label; only a branch may name a label.
ParseOperand(m, mn, o) ==
    CASE o.t = "self" -> {[t |-> "field", f |-> o.f]}
      [] o.t = "mem" -> {Mem(b, o.disp, 0) : b \in LookupReg(o.base)}
      [] o.t = "member" -> {[t |-> "member", base |-> b, f |-> o.f] : b \in LookupReg(o.base)}
      [] o.t = "int" -> {Imm(o.v)}
      [] o.t = "name" ->
           IF LookupReg(o.s) # {} THEN LookupReg(o.s)
           ELSE IF o.s = "self" \/ \E i \in DOMAIN m.params : m.params[i].s = o.s
           THEN {[t |-> "param", s |-> o.s]}
           ELSE IF mn \in Branches THEN {[t |-> "label", s |-> o.s]} ELSE {}

\* self arrives in rdi, the parameters in the registers after it, each under
\* the name its type's width gives the register.
ArgRegs == <<8, 7, 3, 2, 9, 10>>
ParamReg(m, s) ==
    IF s = "self" THEN {RegOf("rdi")}
    ELSE UNION {LookupReg(Families[ArgRegs[i + 1]][CHOOSE c \in 1 .. 4 : Width(c) = m.params[i].w]) :
                  i \in {j \in DOMAIN m.params : m.params[j].s = s /\ j < Len(ArgRegs)}}
LowerBoundOperand(m, o) ==
    CASE o.t = "param" -> ParamReg(m, o.s)
      [] o.t = "field" -> {Mem(RegOf("rdi"), m.fields[f].offset, m.fields[f].w) : f \in {o.f} \cap DOMAIN m.fields}
      [] o.t = "member" -> {Mem(o.base, m.offsets[f], 0) : f \in {o.f} \cap DOMAIN m.offsets}
      [] OTHER -> {o}

(***************************************************************************)
(* Encoding.                                                               *)
(***************************************************************************)
NoReg == Reg(0, 0, FALSE, "none")
Low3(r) == r.n % 8
High(r) == r.n \div 8
Byte(v, i) == IF i < 4 THEN (v \div 256 ^ i) % 256 ELSE IF v < 0 THEN 255 ELSE 0
Bytes(v, n) == [i \in 1 .. n |-> Byte(v, i - 1)]

ModRM(mod, reg, rm) == 64 * mod + 8 * reg + rm
RexForOperand(wide, reg, rm) ==
    IF ~wide /\ High(reg) + High(rm) = 0 /\ ~reg.rex /\ ~rm.rex THEN <<>>
    ELSE <<64 + (IF wide THEN 8 ELSE 0) + 4 * High(reg) + High(rm)>>
\* Variant: rbp and r13 need no displacement.
EncodeMemDispShort(mem) ==
    IF mem.disp = 0 THEN <<0, <<>>>>
    ELSE IF mem.disp \in -128 .. 127 THEN <<1, Bytes(mem.disp, 1)>>
    ELSE <<2, Bytes(mem.disp, 4)>>
EncodeMemDisp(mem) ==
    IF mem.disp = 0 /\ Low3(mem.base) # 5 THEN <<0, <<>>>>
    ELSE IF mem.disp \in -128 .. 127 THEN <<1, Bytes(mem.disp, 1)>>
    ELSE <<2, Bytes(mem.disp, 4)>>
EncodeMemModRM(reg, mem) ==
    LET d == EncodeMemDisp(mem)
        rm == Low3(mem.base)
    IN <<ModRM(d[1], reg, rm)>> \o (IF rm = 4 THEN <<32 + rm>> ELSE <<>>) \o d[2]

Sized(w, rest) == IF w = 16 THEN <<\h66>> \o rest ELSE rest
DefaultWidth(a, b) == IF a # 0 THEN a ELSE b

EncodeMovRegReg(d, s) ==
    LET w == Max({d.w, s.w})
    IN Sized(w, RexForOperand(w = 64, d, s) \o <<IF w = 8 THEN \h8A ELSE \h8B, ModRM(3, Low3(d), Low3(s))>>)
EncodeMovRegImm(d, v) ==
    Sized(d.w, RexForOperand(d.w = 64, NoReg, d)
               \o <<(IF d.w = 8 THEN \hB0 ELSE \hB8) + Low3(d)>> \o Bytes(v, d.w \div 8))
EncodeMovMem(op, mem, r) ==
    LET w == DefaultWidth(mem.w, r.w)
    IN Sized(w, RexForOperand(w = 64, r, mem.base) \o <<IF w = 8 THEN op ELSE op + 1>>
                \o EncodeMemModRM(Low3(r), mem))
EncodeMovMemImm(mem, v) ==
    LET w == DefaultWidth(mem.w, 64)
    IN Sized(w, RexForOperand(w = 64, NoReg, mem.base) \o <<IF w = 8 THEN \hC6 ELSE \hC7>>
                \o EncodeMemModRM(0, mem) \o Bytes(v, IF w = 8 THEN 1 ELSE 4))

EncodeMov(d, s) ==
    CASE d.t = "reg" /\ d.kind = "segment" ->
           IF s.t = "reg" /\ s = RegOf("ax") THEN {<<\h8E, ModRM(3, Low3(d), Low3(s))>>} ELSE {}
      [] d.t = "reg" /\ d.kind = "control" ->
           IF s.t = "reg" THEN {<<\h0F, \h22, ModRM(3, Low3(d), Low3(s))>>} ELSE {}
      [] d.t = "reg" /\ s.t = "reg" ->
           {IF s.kind = "control" THEN <<\h0F, \h20, ModRM(3, Low3(s), Low3(d))>> ELSE EncodeMovRegReg(d, s)}
      [] d.t = "reg" /\ s.t = "imm" -> {EncodeMovRegImm(d, s.v)}
      [] d.t = "reg" /\ s.t = "mem" -> {EncodeMovMem(\h8A, s, d)}
      [] d.t = "mem" /\ s.t = "reg" -> {EncodeMovMem(\h88, d, s)}
      [] d.t = "mem" /\ s.t = "imm" -> {EncodeMovMemImm(d, s.v)}
      [] OTHER -> {}

\* Arithmetic has no eight-bit form; a small immediate takes the short one.
EncodeBinaryRegReg(op, d, s) ==
    LET w == Max({d.w, s.w})
    IN IF w = 8 THEN {}
       ELSE {Sized(w, RexForOperand(w = 64, s, d) \o <<op, ModRM(3, Low3(s), Low3(d))>>)}
EncodeBinaryRegMem(op, d, s) ==
    LET w == DefaultWidth(s.w, d.w)
    IN IF w = 8 THEN {}
       ELSE {Sized(w, RexForOperand(w = 64, d, s.base) \o <<op>> \o EncodeMemModRM(Low3(d), s))}
EncodeBinaryImm(ext, d, s) ==
    LET short == s.v \in -128 .. 127
        n == IF short THEN 1 ELSE IF d.w = 16 THEN 2 ELSE 4
    IN IF d.w = 8 THEN {}
       ELSE {Sized(d.w, RexForOperand(d.w = 64, NoReg, d)
                        \o <<IF short THEN \h83 ELSE \h81, ModRM(3, ext, Low3(d))>> \o Bytes(s.v, n))}
EncodeShiftImm(d, s) ==
    IF d.w = 8 \/ s.v \notin 0 .. 255 THEN {}
    ELSE {Sized(d.w, RexForOperand(d.w = 64, NoReg, d) \o <<\hC1, ModRM(3, 5, Low3(d)), s.v>>)}

RegRegOps == [add |-> \h01, and |-> \h21, cmp |-> \h39]
RegMemOps == [add |-> \h03, sub |-> \h2B, cmp |-> \h3B]
ImmOps == [add |-> 0, sub |-> 5, cmp |-> 7]
EncodeArithmetic(mn, d, s) ==
    CASE d.t # "reg" -> {}
      [] s.t = "reg" /\ mn \in DOMAIN RegRegOps -> EncodeBinaryRegReg(RegRegOps[mn], d, s)
      [] s.t = "mem" /\ mn \in DOMAIN RegMemOps -> EncodeBinaryRegMem(RegMemOps[mn], d, s)
      [] s.t = "imm" /\ mn \in DOMAIN ImmOps -> EncodeBinaryImm(ImmOps[mn], d, s)
      [] s.t = "imm" /\ mn = "shr" -> EncodeShiftImm(d, s)
      [] OTHER -> {}

Ports == {<<"out", "dx", "al", <<\hEE>>>>, <<"out", "dx", "ax", <<\h66, \hEF>>>>, <<"out", "dx", "eax", <<\hEF>>>>,
          <<"in", "al", "dx", <<\hEC>>>>, <<"in", "eax", "dx", <<\hED>>>>}
EncodePort(mn, d, s) ==
    {p[4] : p \in {q \in Ports : q[1] = mn /\ {d} = LookupReg(q[2]) /\ {s} = LookupReg(q[3])}}

EncodePushPop(mn, o) ==
    CASE o.t = "imm" -> IF mn = "push" /\ o.v \in -128 .. 127 THEN {<<\h6A>> \o Bytes(o.v, 1)} ELSE {}
      [] o.t = "reg" -> {RexForOperand(FALSE, NoReg, o) \o <<(IF mn = "push" THEN \h50 ELSE \h58) + Low3(o)>>}
      [] OTHER -> {}
EncodeDesc(ext, o) ==
    IF o.t # "mem" THEN {}
    ELSE {RexForOperand(o.w = 64, NoReg, o.base) \o <<\h0F, \h01>> \o EncodeMemModRM(ext, o)}
EncodeBranch(mn, o) ==
    CASE mn = "call" /\ o.t = "reg" -> {RexForOperand(FALSE, NoReg, o) \o <<\hFF, ModRM(3, 2, Low3(o))>>}
      [] mn = "call" /\ o.t = "mem" -> {RexForOperand(FALSE, NoReg, o.base) \o <<\hFF>> \o EncodeMemModRM(2, o)}
      [] o.t = "label" -> {(IF mn = "call" THEN <<\hE8>> ELSE IF mn = "jmp" THEN <<\hE9>>
                            ELSE <<\h0F, Conditions[mn]>>) \o Bytes(0, 4)}
      [] OTHER -> {}

EncodeInstruction(ins) ==
    LET ops == ins.ops
    IN CASE ins.mn = "" -> {<<>>}
         [] ins.mn \in DOMAIN Plain -> {Plain[ins.mn]}
         [] Len(ops) = 1 /\ ins.mn \in Branches -> EncodeBranch(ins.mn, ops[1])
         [] Len(ops) = 1 /\ ins.mn \in {"push", "pop"} -> EncodePushPop(ins.mn, ops[1])
         [] Len(ops) = 1 /\ ins.mn \in {"lgdt", "lidt"} -> EncodeDesc(IF ins.mn = "lgdt" THEN 2 ELSE 3, ops[1])
         [] Len(ops) = 2 /\ ins.mn = "mov" -> EncodeMov(ops[1], ops[2])
         [] Len(ops) = 2 /\ ins.mn \in {"in", "out"} -> EncodePort(ins.mn, ops[1], ops[2])
         [] Len(ops) = 2 /\ ins.mn \in {"add", "and", "sub", "cmp", "shr"} -> EncodeArithmetic(ins.mn, ops[1], ops[2])
         [] OTHER -> {}

(***************************************************************************)
(* The processor's reading of the bytes (external: the instruction formats *)
(* of x86-64 that the encoder uses), as <<mnemonic, operands, length>>.    *)
(***************************************************************************)
General(n, w) == <<"reg", n, w>>
Memory(n, disp, w) == <<"mem", n, disp, w>>
Value(v, w) == <<"imm", CASE w = 8 -> v % 256 [] w = 16 -> v % 65536 [] OTHER -> v>>

Signed(b, n) ==
    LET top == IF b[n] < 128 THEN b[n] ELSE b[n] - 256
    IN CASE n = 1 -> top [] n = 2 -> b[1] + 256 * top [] OTHER -> b[1] + 256 * b[2] + 65536 * b[3] + 16777216 * top

\* at is the address of the first byte of b.
Decode(b, at) ==
    LET sized == b[1] = \h66
        x == IF sized THEN 2 ELSE 1
        rex == IF b[x] \in 64 .. 79 THEN {b[x] - 64} ELSE {}
        o == x + Cardinality(rex)
        op == b[o]
        bit(v) == \E r \in rex : (r \div v) % 2 = 1
        high(v) == IF bit(v) THEN 8 ELSE 0
        w == IF bit(8) THEN 64 ELSE IF sized THEN 16 ELSE 32
        reg(n, width) == IF width = 8 /\ rex = {} /\ n \in 4 .. 7 THEN General(n + 12, 8) ELSE General(n, width)
        imm(i, n, width) == Value(Signed(SubSeq(b, i, i + n - 1), n), width)
        \* ModRM at byte i: the operand it names, the register field, the next byte.
        field(i) == (b[i] \div 8) % 8
        sib(i) == b[i] \div 64 # 3 /\ b[i] % 8 = 4
        disp(i) == LET j == IF sib(i) THEN i + 2 ELSE i + 1
                       n == <<0, 1, 4>>[b[i] \div 64 + 1]
                   IN <<IF n = 0 THEN 0 ELSE Signed(SubSeq(b, j, j + n - 1), n), j + n>>
        rm(i, width) ==
            IF b[i] \div 64 = 3 THEN reg((b[i] % 8) + high(1), width)
            ELSE IF b[i] \div 64 = 0 /\ b[i] % 8 = 5 THEN <<"relative">>
            ELSE Memory((IF sib(i) THEN b[i + 1] % 8 ELSE b[i] % 8) + high(1), disp(i)[1], width)
        after(i) == IF b[i] \div 64 = 3 THEN i + 1 ELSE disp(i)[2]
        rx(i, width) == reg(field(i) + high(4), width)
        near(mn, i) == <<mn, <<<<"to", at + i + 3 + Signed(SubSeq(b, i, i + 3), 4)>>>>, i + 3>>
        toRM(mn, width) == <<mn, <<rm(o + 1, width), rx(o + 1, width)>>, after(o + 1) - 1>>
        fromRM(mn, width) == <<mn, <<rx(o + 1, width), rm(o + 1, width)>>, after(o + 1) - 1>>
        group(n) == LET i == after(o + 1)
                    IN <<<<"add", "", "", "", "", "sub", "", "cmp">>[field(o + 1) + 1],
                         <<rm(o + 1, w), imm(i, n, w)>>, i + n - 1>>
    IN CASE \E mn \in DOMAIN Plain : IsPrefix(Plain[mn], b) ->
              LET mn == CHOOSE p \in DOMAIN Plain : IsPrefix(Plain[p], b) IN <<mn, <<>>, Len(Plain[mn])>>
         [] op = \hEE -> <<"out", <<General(2, 16), General(0, 8)>>, o>>
         [] op = \hEF -> <<"out", <<General(2, 16), General(0, w)>>, o>>
         [] op = \hEC -> <<"in", <<General(0, 8), General(2, 16)>>, o>>
         [] op = \hED -> <<"in", <<General(0, w), General(2, 16)>>, o>>
         [] op = \h88 -> toRM("mov", 8)
         [] op = \h89 -> toRM("mov", w)
         [] op = \h8A -> fromRM("mov", 8)
         [] op = \h8B -> fromRM("mov", w)
         [] op = \h8E -> <<"mov", <<<<"segment", field(o + 1)>>, rm(o + 1, 16)>>, after(o + 1) - 1>>
         [] op \in \hB0 .. \hB7 -> <<"mov", <<reg(op - \hB0 + high(1), 8), imm(o + 1, 1, 8)>>, o + 1>>
         [] op \in \hB8 .. \hBF ->
              <<"mov", <<reg(op - \hB8 + high(1), w), imm(o + 1, IF w = 16 THEN 2 ELSE 4, w)>>, o + w \div 8>>
         [] op = \hC6 -> <<"mov", <<rm(o + 1, 8), imm(after(o + 1), 1, 8)>>, after(o + 1)>>
         [] op = \hC7 -> LET n == IF w = 16 THEN 2 ELSE 4
                         IN <<"mov", <<rm(o + 1, w), imm(after(o + 1), n, w)>>, after(o + 1) + n - 1>>
         [] op = \h01 -> toRM("add", w) [] op = \h21 -> toRM("and", w) [] op = \h39 -> toRM("cmp", w)
         [] op = \h03 -> fromRM("add", w) [] op = \h2B -> fromRM("sub", w) [] op = \h3B -> fromRM("cmp", w)
         [] op = \h83 -> group(1)
         [] op = \h81 -> group(IF w = 16 THEN 2 ELSE 4)
         [] op = \hC1 -> <<"shr", <<rm(o + 1, w), Value(b[after(o + 1)], w)>>, after(o + 1)>>
         [] op \in \h50 .. \h57 -> <<"push", <<General(op - \h50 + high(1), 64)>>, o>>
         [] op \in \h58 .. \h5F -> <<"pop", <<General(op - \h58 + high(1), 64)>>, o>>
         [] op = \h6A -> <<"push", <<imm(o + 1, 1, 64)>>, o + 1>>
         [] op = \hE8 -> near("call", o + 1)
         [] op = \hE9 -> near("jmp", o + 1)
         [] op = \hFF -> <<"call", <<rm(o + 1, 64)>>, after(o + 1) - 1>>
         [] op = \h0F /\ b[o + 1] = \h20 -> <<"mov", <<rm(o + 2, 64), <<"control", field(o + 2)>>>>, o + 2>>
         [] op = \h0F /\ b[o + 1] = \h22 -> <<"mov", <<<<"control", field(o + 2)>>, rm(o + 2, 64)>>, o + 2>>
         [] op = \h0F /\ b[o + 1] = \h01 ->
              <<IF field(o + 2) = 2 THEN "lgdt" ELSE "lidt", <<rm(o + 2, 0)>>, after(o + 2) - 1>>
         [] op = \h0F /\ \E mn \in DOMAIN Conditions : Conditions[mn] = b[o + 1] ->
              near(CHOOSE mn \in DOMAIN Conditions : Conditions[mn] = b[o + 1], o + 2)
         [] OTHER -> <<"?", <<>>, 0>>

(***************************************************************************)
(* The passes over a method.                                               *)
(***************************************************************************)
Init == \E m \in Methods :
    am = [method |-> m, phase |-> "parse", k |-> 1, ins |-> <<>>, out |-> <<>>, starts |-> <<>>,
          labels |-> <<>>, fixups |-> <<>>, relocs |-> {}, refused |-> FALSE]

In(phase, n) == am.phase = phase /\ am.k <= n
Pass(phase, n, next) ==
    /\ am.phase = phase /\ am.k > n
    /\ am' = [am EXCEPT !.phase = IF am.refused THEN "refused" ELSE next, !.k = 1]

\* ParseBody: a label is an instruction of its own; every error is noted and
\* parsing goes on.
ParseStatement ==
    /\ In("parse", Len(am.method.body))
    /\ LET s == am.method.body[am.k]
           label == IF s.label = "" THEN <<>> ELSE <<[label |-> s.label, mn |-> "", ops |-> <<>>]>>
           ops == [i \in DOMAIN s.ops |-> ParseOperand(am.method, s.mn, s.ops[i])]
           bad == s.mn # "" /\ (s.mn \notin ValidInstructions \/ \E i \in DOMAIN ops : ops[i] = {})
           ins == IF bad \/ s.mn = "" THEN <<>>
                  ELSE <<[label |-> "", mn |-> s.mn, ops |-> [i \in DOMAIN ops |-> The(ops[i])]]>>
       IN am' = [am EXCEPT !.ins = @ \o label \o ins, !.k = @ + 1, !.refused = @ \/ bad]

\* lowerAsmMethodInstructions: an operand that names nothing ends the method.
BindInstruction ==
    /\ In("bind", Len(am.ins))
    /\ LET ops == [i \in DOMAIN am.ins[am.k].ops |-> LowerBoundOperand(am.method, am.ins[am.k].ops[i])]
       IN IF \E i \in DOMAIN ops : ops[i] = {} THEN am' = [am EXCEPT !.phase = "refused"]
          ELSE am' = [am EXCEPT !.k = @ + 1, !.ins[am.k].ops = [i \in DOMAIN ops |-> The(ops[i])]]

\* encode's loop: bytes are appended, labels bound, branches noted.
Encode ==
    /\ In("encode", Len(am.ins))
    /\ LET ins == am.ins[am.k]
           here == Len(am.out)
           code == EncodeInstruction(ins)
           branch == ins.mn \in Branches /\ code # {} /\ ins.ops[1].t = "label"
           end == here + Len(The(code))
       IN am' = [am EXCEPT
            !.k = @ + 1, !.starts = Append(@, here), !.refused = @ \/ code = {},
            !.out = IF code = {} THEN @ ELSE @ \o The(code),
            !.labels = IF ins.label = "" THEN @ ELSE Append(@, <<ins.label, here>>),
            !.fixups = IF branch THEN Append(@, [mn |-> ins.mn, at |-> end - 4, target |-> ins.ops[1].s, next |-> end])
                       ELSE @]

\* A later label of the same name replaces an earlier one; a call or a jump to
\* a symbol of the runtime is left to the linker.
Labelled(s) == {i \in DOMAIN am.labels : am.labels[i][1] = s}
Fixup ==
    /\ In("fixup", Len(am.fixups))
    /\ LET f == am.fixups[am.k]
           at == Labelled(f.target)
       IN IF at # {}
          THEN LET rel == am.labels[Max(at)][2] - f.next
               IN am' = [am EXCEPT !.k = @ + 1,
                    !.out = [i \in DOMAIN @ |-> IF i \in f.at + 1 .. f.at + 4 THEN Byte(rel, i - f.at - 1) ELSE @[i]]]
          ELSE IF f.mn \in {"call", "jmp"} /\ f.target \in am.method.symbols
          THEN am' = [am EXCEPT !.k = @ + 1, !.relocs = @ \cup {<<f.at, f.target>>}]
          ELSE am' = [am EXCEPT !.k = @ + 1, !.refused = TRUE]

Next ==
    \/ ParseStatement \/ Pass("parse", Len(am.method.body), "bind")
    \/ BindInstruction \/ Pass("bind", Len(am.ins), "encode")
    \/ Encode \/ Pass("encode", Len(am.ins), "fixup")
    \/ Fixup \/ Pass("fixup", Len(am.fixups), "done")

Spec == Init /\ [][Next]_am /\ WF_am(Next)

(***************************************************************************)
(* Properties.                                                             *)
(***************************************************************************)
\* What an instruction says: its operands at the width it works on, a label as
\* the address of the instruction behind it.
OperandWidth(ins) ==
    LET ws == {ins.ops[i].w : i \in {j \in DOMAIN ins.ops : ins.ops[j].t \in {"reg", "mem"}}} \ {0}
    IN IF ins.mn \in {"lgdt", "lidt"} THEN 0 ELSE IF ws = {} \/ ins.mn \in {"push", "call"} THEN 64 ELSE Max(ws)
Says(ins, o) ==
    CASE o.t = "reg" -> IF o.kind = "general" THEN General(o.n, o.w) ELSE <<o.kind, o.n>>
      [] o.t = "mem" -> Memory(o.base.n, o.disp, OperandWidth(ins))
      [] o.t = "imm" -> Value(o.v, OperandWidth(ins))
      [] o.t = "label" -> <<"to", am.starts[CHOOSE i \in DOMAIN am.ins : am.ins[i].label = o.s]>>

\* An assembled method is the one that was written: read from its first byte on,
\* the processor meets every instruction of the body, with its operands and
\* widths, each where the one before it ends; a branch goes to its label, and
\* one to the runtime has its displacement left to the linker.
AssemblesAsWritten ==
    am.phase = "done" => \A i \in DOMAIN am.ins :
      LET ins == am.ins[i]
          at == am.starts[i]
          d == Decode(SubSeq(am.out, at + 1, Len(am.out)), at)
      IN /\ i = Len(am.ins) \/ ins.mn = "" \/ am.starts[i + 1] = at + d[3]
         /\ ins.mn # "" =>
              /\ d[1] = ins.mn
              /\ IF \E r \in am.relocs : r[1] \in at .. at + d[3] - 1
                 THEN <<at + d[3] - 4, ins.ops[1].s>> \in am.relocs
                 ELSE d[2] = [k \in DOMAIN ins.ops |-> Says(ins, ins.ops[k])]

\* The method is assembled or refused.
Done == am.phase \in {"done", "refused"}
=============================================================================
