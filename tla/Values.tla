------------------------------- MODULE Values -------------------------------
(***************************************************************************)
(* Records, enums and calls in the generated code: the layout of types     *)
(* (ensureTypeInfo, compiler/ir/lower.go), the stack frame of a function   *)
(* (buildFrame, compiler/codegen/x64.go) and the code of the operations    *)
(* that build, copy, load, store and return values of these types.         *)
(* A cell of memory is a byte: byte i of the scalar v is <<v, i>>, and a   *)
(* load of n bytes returns v only when it finds the n bytes of v.          *)
(* A function is a sequence of operations; operation i defines value i.    *)
(***************************************************************************)
EXTENDS Integers, Sequences, FiniteSets, TLC

CONSTANTS Decls,      \* the types, each after the ones it uses
          FunctionPairs  \* pairs <<callee, caller>>; the caller calls the callee once

VARIABLE va   \* [fn, types (laid out so far), frames, side, k, mem, work, tree]

AlignUp(v, a) == IF v % a = 0 THEN v ELSE v + (a - (v % a))
MaxOf(S) == CHOOSE x \in S : \A y \in S : y <= x
-----------------------------------------------------------------------------
(* Types.  A record holds a handle for a field of kind data, and the       *)
(* storage of that field behind its own fields; an enum holds its tag and  *)
(* the fields of every variant from byte 8 on, data inline.                *)
IsHandle(kind) == kind \in {"data", "class", "enum"}
IsHandleRecord(kind) == kind \in {"data", "class"}

(* Where fields of these widths and alignments come to lie, from start on. *)
Offsets(start, widths, aligns) ==
  LET off[i \in 0..Len(widths)] ==
        IF i = 0 THEN start ELSE AlignUp(IF i = 1 THEN start ELSE off[i - 1] + widths[i - 1], aligns[i])
  IN off
EndOf(start, widths, aligns) ==
  IF widths = <<>> THEN start ELSE Offsets(start, widths, aligns)[Len(widths)] + widths[Len(widths)]

RecordInfo(d, infos) ==
  LET n == Len(d.fields)
      t(i) == d.fields[i].type
      kind(i) == Decls[t(i)].kind
      size == [i \in 1..n |-> IF IsHandleRecord(kind(i)) THEN 8 ELSE infos[t(i)].size]
      align == [i \in 1..n |-> IF IsHandleRecord(kind(i)) THEN 8 ELSE infos[t(i)].align]
      a == MaxOf({align[i] : i \in 1..n} \cup {1})
      own == IF n = 0 THEN 8 ELSE AlignUp(EndOf(0, size, align), a)
      stores == [i \in 1..n |-> IF kind(i) = "data" THEN infos[t(i)].storage ELSE 0]
      salign == [i \in 1..n |-> IF kind(i) = "data" THEN infos[t(i)].align ELSE 1]
  IN [size |-> own, align |-> IF n = 0 THEN 8 ELSE a,
      storage |-> AlignUp(EndOf(own, stores, salign), a),
      fields |-> [i \in 1..n |-> [name |-> d.fields[i].name, type |-> t(i), off |-> Offsets(0, size, align)[i], size |-> size[i],
                    soff |-> IF kind(i) = "data" THEN Offsets(own, stores, salign)[i] ELSE -1]]]

(* The fields of a variant from byte 8 on, each as wide as its storage.     *)
SemanticFieldLayout(v, fs, infos) ==
  LET width == [i \in DOMAIN fs |-> infos[fs[i].type].storage]
      align == [i \in DOMAIN fs |-> IF IsHandleRecord(Decls[fs[i].type].kind) THEN 8 ELSE infos[fs[i].type].align]
      a == MaxOf({align[i] : i \in DOMAIN fs} \cup {1})
      off == Offsets(8, width, align)
  IN [size |-> AlignUp(EndOf(8, width, align) - 8, a), align |-> a,
      fields |-> [i \in DOMAIN fs |-> [name |-> <<v, fs[i].name>>, type |-> fs[i].type,
                                      off |-> off[i], soff |-> off[i], size |-> width[i]]]]

EnumInfo(d, infos) ==
  LET vs == DOMAIN d.variants
      payload == [v \in vs |-> SemanticFieldLayout(v, d.variants[v].fields, infos)]
      a == MaxOf({payload[v].align : v \in vs} \cup {8})
      size == AlignUp(8 + MaxOf({payload[v].size : v \in vs} \cup {0}), a)
      all[v \in 0..Len(d.variants)] == IF v = 0 THEN <<>> ELSE all[v - 1] \o payload[v].fields
  IN [size |-> size, align |-> a, storage |-> size, fields |-> all[Len(d.variants)]]

TypeInfo(d, infos) ==
  CASE d.kind = "primitive" -> [size |-> d.size, align |-> d.size, storage |-> d.size, fields |-> <<>>]
    [] d.kind = "enum" -> EnumInfo(d, infos)
    [] OTHER -> RecordInfo(d, infos)

Types == va.types
Field(t, name) == LET fs == Types[t].fields IN fs[CHOOSE i \in DOMAIN fs : fs[i].name = name]
Kind(t) == Decls[t].kind
RepresentationSize(t) == IF IsHandle(Kind(t)) THEN 8 ELSE Types[t].size
-----------------------------------------------------------------------------
(* buildFrame: the hidden return pointer, then for every value its object  *)
(* storage, if it needs one, and its slot, downwards from rbp.             *)
(* Variant: a record is returned as a handle into the callee's frame.      *)
ShouldPassOnlyEnumReturn(t) == Kind(t) = "enum"
ShouldPassRecordReturn(t) == Kind(t) \in {"data", "enum"}
NeedsObjectSlot(op) ==
  CASE op.op \in {"construct", "variant"} -> TRUE
    [] op.op = "extract" -> IsHandle(Kind(op.type))
    [] op.op = "load" -> Kind(op.type) = "data"
    [] op.op = "call" -> ShouldPassRecordReturn(op.type)
    [] OTHER -> FALSE
ValueSize(op) == IF op.op = "test" THEN 1 ELSE IF op.op = "store" THEN 0 ELSE RepresentationSize(op.type)

BuildFrame(ops, returnType) ==
  LET object(i) == IF NeedsObjectSlot(ops[i]) THEN Types[ops[i].type].storage ELSE 0
      used[i \in 0..Len(ops)] == IF i = 0 THEN (IF ShouldPassRecordReturn(returnType) THEN 8 ELSE 0)
                                 ELSE used[i - 1] + object(i) + ValueSize(ops[i])
  IN [size |-> AlignUp(used[Len(ops)], 16),
      object |-> [i \in DOMAIN ops |-> -(used[i - 1] + object(i))],
      slot |-> [i \in DOMAIN ops |-> -used[i]]]
-----------------------------------------------------------------------------
(* The machine.  The callee's frame lies below the caller's, the saved rbp *)
(* and the return address between them.                                    *)
Top == 480
Torn == 999
Junk == 998
Ops(side) == IF side = "callee" THEN va.fn[1] ELSE va.fn[2]
Last(s) == s[Len(s)]
FrameOf(side) == va.frames[side]
CallerRbp == Top
CalleeRbp == Top - FrameOf("caller").size - 16
Rbp(side) == IF side = "callee" THEN CalleeRbp ELSE CallerRbp
SlotAt(side, i) == Rbp(side) + FrameOf(side).slot[i]
ObjectAt(side, i) == Rbp(side) + FrameOf(side).object[i]

Load(mem, a, n) == IF a \in DOMAIN mem /\ \A i \in 0..(n - 1) : a + i \in DOMAIN mem /\ mem[a + i] = <<mem[a][1], i>>
                   THEN mem[a][1] ELSE Torn
Store(mem, a, v, n) == [b \in DOMAIN mem |-> IF b \in a..(a + n - 1) THEN <<v, b - a>> ELSE mem[b]]
Zero(mem, a, n) == [b \in DOMAIN mem |-> IF b \in a..(a + n - 1) THEN <<0, (b - a) % 8>> ELSE mem[b]]
Copy(mem, src, dst, n) == [b \in DOMAIN mem |-> IF b \in dst..(dst + n - 1) /\ src + b - dst \in DOMAIN mem
                                                THEN mem[src + b - dst]
                                                ELSE IF b \in dst..(dst + n - 1) THEN <<Junk, b>> ELSE mem[b]]

(* emitValueAddress: a handle is followed, anything else is its slot.      *)
Handle(side, i) == Load(va.mem, SlotAt(side, i), 8)
ValueAddress(side, i) == IF IsHandle(Kind(Ops(side)[i].type)) THEN Handle(side, i) ELSE SlotAt(side, i)

(* The work of an operation: copies of objects still to make, and the slot *)
(* that finally receives the handle of the object.                         *)
DeepCopy(t, src, dst) == [k |-> "object", type |-> t, src |-> src, dst |-> dst]
SetHandle(a, v) == [k |-> "handle", src |-> v, dst |-> a, type |-> 0]
Scalar(n, src, dst) == [k |-> "scalar", type |-> n, src |-> src, dst |-> dst]
Clear(n, dst) == [k |-> "zero", type |-> n, src |-> 0, dst |-> dst]
Follow(w) == [w EXCEPT !.k = "follow"]
Publish(side, i) == <<SetHandle(SlotAt(side, i), ObjectAt(side, i))>>

(* emitDeepCopyObjectToAddressAsType: the bytes, then for every nested     *)
(* record a new handle and a copy of what the source's handle refers to.   *)
Nested(t) == SelectSeq(Types[t].fields, LAMBDA f : Kind(f.type) = "data" /\ f.soff >= 0)
NestedCopies(w) ==
  LET fs == Nested(w.type)
      part[i \in 0..Len(fs)] == IF i = 0 THEN <<>>
        ELSE part[i - 1] \o <<SetHandle(w.dst + fs[i].off, w.dst + fs[i].soff),
                              Follow(DeepCopy(fs[i].type, w.src + fs[i].off, w.dst + fs[i].soff))>>
  IN part[Len(fs)]

(* emitCopyValueToStackRange and its like for a field at address dst.      *)
PutField(side, f, i, dst) ==
  IF IsHandle(Kind(Ops(side)[i].type)) /\ f.size # 8
  THEN Scalar(f.size, ValueAddress(side, i), dst)
  ELSE Scalar(RepresentationSize(Ops(side)[i].type), SlotAt(side, i), dst)

PutRecordField(side, f, i, base) ==
  IF Kind(f.type) = "data"
  THEN <<SetHandle(base + f.off, base + f.soff), DeepCopy(f.type, ValueAddress(side, i), base + f.soff)>>
  ELSE <<PutField(side, f, i, base + f.off)>>

PutPayload(side, f, i, base) ==
  IF Kind(f.type) = "data" THEN <<DeepCopy(f.type, ValueAddress(side, i), base + f.soff)>>
  ELSE <<PutField(side, f, i, base + f.soff)>>

PutAll(n, put(_)) == LET part[j \in 0..n] == IF j = 0 THEN <<>> ELSE part[j - 1] \o put(j) IN part[n]

EmitConstruct(side, i, op) ==
  <<Clear(Types[op.type].storage, ObjectAt(side, i))>>
    \o PutAll(Len(op.args), LAMBDA j : PutRecordField(side, Types[op.type].fields[j], op.args[j], ObjectAt(side, i)))
    \o Publish(side, i)

EmitEnumConstruct(side, i, op) ==
  <<Clear(Types[op.type].storage, ObjectAt(side, i)), SetHandle(ObjectAt(side, i), op.variant - 1)>>
    \o PutAll(Len(op.args), LAMBDA j :
         PutPayload(side, Field(op.type, <<op.variant, Decls[op.type].variants[op.variant].fields[j].name>>), op.args[j], ObjectAt(side, i)))
    \o Publish(side, i)

EmitFieldLoad(side, i, op) ==
  LET f == Field(Ops(side)[op.of].type, op.field)
      a == ValueAddress(side, op.of) + f.off
  IN IF Kind(op.type) = "data" THEN <<Follow(DeepCopy(op.type, a, ObjectAt(side, i)))>> \o Publish(side, i)
     ELSE <<Scalar(RepresentationSize(op.type), a, SlotAt(side, i))>>

EmitFieldStore(side, op) == PutRecordField(side, Field(Ops(side)[op.of].type, op.field), op.value, ValueAddress(side, op.of))

EmitEnumPayloadExtract(side, i, op) ==
  LET f == Field(Ops(side)[op.of].type, op.field)
      a == ValueAddress(side, op.of) + f.soff
  IN IF Kind(f.type) = "data" THEN <<DeepCopy(op.type, a, ObjectAt(side, i))>> \o Publish(side, i)
     ELSE <<Scalar(f.size, a, SlotAt(side, i))>>

(* emitReturn copies the record to the hidden pointer the caller passed,   *)
(* which emitCall then stores as the result of the call.                   *)
EmitReturn(t, i, c) ==
  IF ShouldPassRecordReturn(t)
  THEN <<DeepCopy(t, ValueAddress("callee", i), ObjectAt("caller", c))>> \o Publish("caller", c)
  ELSE <<Scalar(RepresentationSize(t), SlotAt("callee", i), SlotAt("caller", c))>>
-----------------------------------------------------------------------------
(* What the operations mean: tree[side][i] is the value i denotes.         *)
Tree(side, i) == va.tree[side][i]
Updated(side, i, v) == [va.tree EXCEPT ![side] = (i :> v) @@ @]
Args(side, op) == [j \in DOMAIN op.args |-> Tree(side, op.args[j])]
FieldIndex(t, name) == CHOOSE j \in DOMAIN Types[t].fields : Types[t].fields[j].name = name
PayloadIndex(t, name) == CHOOSE j \in DOMAIN Decls[t].variants[name[1]].fields : Decls[t].variants[name[1]].fields[j].name = name[2]

Begin(side, work, tree) == va' = [va EXCEPT !.work = work, !.tree = tree, !.k = @ + 1]
At(side, kind) == va.side = side /\ va.work = <<>> /\ va.k \in DOMAIN Ops(side) /\ Ops(side)[va.k].op = kind
Op(side) == Ops(side)[va.k]

Init == \E fn \in FunctionPairs :
          va = [fn |-> fn, types |-> <<>>, frames |-> <<>>, side |-> "layout", k |-> 1, work |-> <<>>,
                mem |-> [a \in 0..(Top - 1) |-> <<Junk, a>>], tree |-> [callee |-> <<>>, caller |-> <<>>]]

EnsureTypeInfo ==
  /\ va.side = "layout" /\ Len(va.types) < Len(Decls)
  /\ va' = [va EXCEPT !.types = Append(@, TypeInfo(Decls[Len(@) + 1], @))]
EnterFunction ==
  /\ va.side = "layout" /\ Len(va.types) = Len(Decls)
  /\ va' = [va EXCEPT !.side = "callee",
                      !.frames = [callee |-> BuildFrame(va.fn[1], Last(va.fn[1]).type), caller |-> BuildFrame(va.fn[2], 1)]]

Const(side) == At(side, "const") /\ LET op == Op(side) IN
  va' = [va EXCEPT !.mem = Store(@, SlotAt(side, va.k), op.value, Types[op.type].size), !.tree = Updated(side, va.k, op.value), !.k = @ + 1]
Construct(side) == At(side, "construct") /\ LET op == Op(side) IN
  Begin(side, EmitConstruct(side, va.k, op), Updated(side, va.k, Args(side, op)))
EnumConstruct(side) == At(side, "variant") /\ LET op == Op(side) IN
  Begin(side, EmitEnumConstruct(side, va.k, op), Updated(side, va.k, <<op.variant, Args(side, op)>>))
FieldLoad(side) == At(side, "load") /\ LET op == Op(side) IN
  Begin(side, EmitFieldLoad(side, va.k, op), Updated(side, va.k, Tree(side, op.of)[FieldIndex(Ops(side)[op.of].type, op.field)]))
FieldStore(side) == At(side, "store") /\ LET op == Op(side) IN
  Begin(side, EmitFieldStore(side, op),
        Updated(side, op.of, [Tree(side, op.of) EXCEPT ![FieldIndex(Ops(side)[op.of].type, op.field)] = Tree(side, op.value)]))
EnumVariantTest(side) == At(side, "test") /\ LET op == Op(side) IN
  va' = [va EXCEPT !.mem = Store(@, SlotAt(side, va.k), IF Load(@, ValueAddress(side, op.of), 8) = op.variant - 1 THEN 1 ELSE 0, 1),
                   !.tree = Updated(side, va.k, IF Tree(side, op.of)[1] = op.variant THEN 1 ELSE 0), !.k = @ + 1]
EnumPayloadExtract(side) == At(side, "extract") /\ LET op == Op(side) IN
  Begin(side, EmitEnumPayloadExtract(side, va.k, op), Updated(side, va.k, Tree(side, op.of)[2][PayloadIndex(Ops(side)[op.of].type, op.field)]))

(* The callee ends with its last value as the result; the caller begins    *)
(* with the call.  What was below the caller's frame is then overwritten.  *)
Return == /\ va.side = "callee" /\ va.work = <<>> /\ va.k > Len(va.fn[1])
          /\ LET n == Len(va.fn[1]) IN
             va' = [va EXCEPT !.work = EmitReturn(va.fn[1][n].type, n, 1), !.tree = Updated("caller", 1, Tree("callee", n)),
                              !.side = "returning"]
Resume == /\ va.side = "returning" /\ va.work = <<>>
          /\ va' = [va EXCEPT !.side = "caller", !.k = 2,
                              !.mem = [a \in DOMAIN @ |-> IF a < CalleeRbp + 16 THEN <<Junk, a>> ELSE @[a]]]

CopyStep ==
  /\ va.work # <<>>
  /\ LET w == Head(va.work)
         src == IF w.k = "follow" THEN Load(va.mem, w.src, 8) ELSE w.src
         n == CASE w.k \in {"object", "follow"} -> Types[w.type].storage [] w.k = "handle" -> 8 [] OTHER -> w.type
     IN va' = [va EXCEPT
          !.work = (IF w.k \in {"object", "follow"} THEN NestedCopies([w EXCEPT !.src = src]) ELSE <<>>) \o Tail(@),
          !.mem = CASE w.k = "handle" -> Store(@, w.dst, w.src, 8)
                    [] w.k = "zero" -> Zero(@, w.dst, n)
                    [] OTHER -> Copy(@, src, w.dst, n)]

Next == \/ EnsureTypeInfo \/ EnterFunction \/ CopyStep \/ Return \/ Resume
        \/ \E side \in {"callee", "caller"} :
             \/ Const(side) \/ Construct(side) \/ EnumConstruct(side) \/ FieldLoad(side) \/ FieldStore(side)
             \/ EnumVariantTest(side) \/ EnumPayloadExtract(side)

Spec == Init /\ [][Next]_va /\ WF_va(Next)
-----------------------------------------------------------------------------
(* How a value of type t lies in memory, read back through its handles.    *)
RECURSIVE Stored(_, _)
Stored(t, a) ==
  LET fs == Types[t].fields IN
  CASE Kind(t) = "primitive" -> Load(va.mem, a, Types[t].size)
    [] Kind(t) = "enum" ->
         LET tag == Load(va.mem, a, 8) IN
         IF tag \notin 0..(Len(Decls[t].variants) - 1) THEN <<Torn>>
         ELSE <<tag + 1, [j \in DOMAIN Decls[t].variants[tag + 1].fields |->
                 LET f == Field(t, <<tag + 1, Decls[t].variants[tag + 1].fields[j].name>>) IN Stored(f.type, a + f.soff)]>>
    [] OTHER -> [j \in DOMAIN fs |-> IF Kind(fs[j].type) = "data" THEN Stored(fs[j].type, Load(va.mem, a + fs[j].off, 8))
                                     ELSE Stored(fs[j].type, a + fs[j].off)]

(* Every value of the running function is in memory what it means: it was  *)
(* built, copied, loaded, stored or returned without losing a field, and   *)
(* changing one value changes no other, even after the frame of the callee *)
(* that built it has been overwritten.                                     *)
ValuesIntact ==
  va.work = <<>> /\ va.side \in {"callee", "caller"} =>
    \A i \in DOMAIN va.tree[va.side] : Stored(Ops(va.side)[i].type, ValueAddress(va.side, i)) = Tree(va.side, i)

(* The storage and the slots of a frame do not overlap, stay inside it,    *)
(* and the frame keeps the stack 16-byte aligned for the next call.        *)
FrameSound ==
  va.frames # <<>> => \A side \in {"callee", "caller"} :
    LET f == FrameOf(side)
        ops == Ops(side)
        slot(i) == f.slot[i]..(f.slot[i] + ValueSize(ops[i]) - 1)
        object(i) == IF NeedsObjectSlot(ops[i]) THEN f.object[i]..(f.object[i] + Types[ops[i].type].storage - 1) ELSE {}
    IN /\ f.size % 16 = 0
       /\ \A i \in DOMAIN ops : slot(i) \cup object(i) \subseteq -f.size..-1 /\ slot(i) \cap object(i) = {}
       /\ \A i, j \in DOMAIN ops : i # j => (slot(i) \cup object(i)) \cap (slot(j) \cup object(j)) = {}

(* The caller has executed its last operation.                             *)
Done == va.side = "caller" /\ va.work = <<>> /\ va.k > Len(va.fn[2])
=============================================================================
