------------------------------- MODULE Frames -------------------------------
(***************************************************************************)
(* Executor memory: the bump arenas that generated code carves frames and  *)
(* reservations from, together with the lifetime analysis that decides     *)
(* which programs may use them.                                            *)
(*                                                                         *)
(* A behaviour is one straight-line program, checked and run statement by  *)
(* statement: a statement is taken only if the lifetime analysis accepts   *)
(* it, and its effect on memory is that of the code the compiler emits.    *)
(* Addresses are words of a machine whose arithmetic wraps at Word.        *)
(*                                                                         *)
(* The state is one record:                                                *)
(*   arenas  the arena records, root first, one per open frame after it    *)
(*   parents the lexical parent of every frame scope pushed so far         *)
(*   objs    every object made so far; lo = hi = 0 is one on the stack     *)
(*   vars    the local names in scope, with the arena depth declaring them *)
(*   touch   the element range the last slot or slice operation addressed  *)
(*   status  run, or how the program ended: trap, returned                 *)
(***************************************************************************)
EXTENDS Integers, Sequences

CONSTANTS Word,        \* 2^64 in the code: the modulus of address arithmetic
          RootBase, RootLength,  \* the executor's own arena
          Lengths, Aligns, Counts, Indices,  \* operands of the statements
          ElementSize, ObjectSize,  \* storage sizes of a slot element, a Box
          Methods,     \* bodies of the methods a program may call
          Shapes,      \* the statement shapes of Shape the programs may use
          MaxStatements, MaxFrames  \* bounds of a program

VARIABLE fr

Root == [kind |-> "root", scope |-> 0]
FrameLife(s) == [kind |-> "frame", scope |-> s]

\* The lifetimes that end with a frame.
IsScopedLifetime(l) == l.kind \in {"frame", "cache_lookup", "cache_copy"}

\* A scope and the scopes its frame was claimed from.
Lineage(parents, s) ==
    LET up[t \in 0 .. Len(parents)] == IF t = 0 THEN {} ELSE {t} \cup up[parents[t]]
    IN up[s]

\* Whether a value may end before the place it would be stored in.
LifetimeShorterThan(parents, value, target) ==
    /\ IsScopedLifetime(value)
    /\ ~ /\ target.kind = "frame"
         /\ value.scope \in Lineage(parents, target.scope)

StricterSameScope(a, b) ==
    LET kinds == {a.kind, b.kind}
    IN CASE "cache_copy" \in kinds -> [a EXCEPT !.kind = "cache_copy"]
         [] "cache_lookup" \in kinds -> [a EXCEPT !.kind = "cache_lookup"]
         [] OTHER -> a

\* Variant: the first part decides.
CombineLifetimeOfFirst(parents, current, next) == {current}

\* The lifetimes a value made of two parts may be given; none is an error.
CombineLifetime(parents, current, next) ==
    LET forth == ~LifetimeShorterThan(parents, current, next)
        back  == ~LifetimeShorterThan(parents, next, current)
    IN CASE ~IsScopedLifetime(next) -> {current}
         [] ~IsScopedLifetime(current) -> {next}
         [] current.scope = next.scope -> {StricterSameScope(current, next)}
         [] forth /\ ~back -> {next}
         [] back /\ ~forth -> {current}
         [] forth /\ back -> {StricterSameScope(current, next)}
         [] OTHER -> {}

(***************************************************************************)
(* Method summaries.  A body is a sequence of <<"store", target, value>>   *)
(* and <<"return", value>> over the receiver and one parameter, whose      *)
(* lifetimes are unrelated scopes of their own while the body is checked.  *)
(***************************************************************************)
\* What a return adds to a summary: a second, different source is an error.
RecordReturnLifetime(sum, v) ==
    IF sum.ret \in {"none", v} THEN [sum EXCEPT !.ret = v] ELSE [sum EXCEPT !.invalid = TRUE]

\* A store between unrelated lifetimes becomes a requirement on the caller.
RecordLifetimeRequirement(sum, t, v) ==
    IF t = v THEN sum ELSE [sum EXCEPT !.needs = @ \cup {<<v, t>>}]

MethodSummary(body) ==
    LET sum[i \in 0 .. Len(body)] ==
          IF i = 0 THEN [ret |-> "none", needs |-> {}, invalid |-> FALSE]
          ELSE CASE body[i][1] = "return" -> RecordReturnLifetime(sum[i - 1], body[i][2])
                 [] OTHER -> RecordLifetimeRequirement(sum[i - 1], body[i][2], body[i][3])
    IN sum[Len(body)]

(***************************************************************************)
(* The emitted code's arithmetic.                                          *)
(***************************************************************************)
PowerOfTwo(n) == \E k \in 0 .. 6 : n = 2 ^ k

\* emitArenaBump: the extents it may return; none is a call of the trap.
Bump(arena, length, align) ==
    LET next == ((arena.next + align - 1) \div align) * align
    IN IF /\ align # 0 /\ PowerOfTwo(align)
          /\ arena.next + (align - 1) < Word
          /\ next + length < Word
          /\ next + length <= arena.length
          /\ arena.base + next < Word
       THEN {[lo |-> arena.base + next, hi |-> arena.base + next + length]}
       ELSE {}

\* Variant: the carry of the addition is not looked at.
FrameBeginWrapping(parent, length) ==
    {c \in {[base |-> parent.base + parent.next, length |-> length, next |-> 0,
             saved |-> parent.next]} :
       (parent.next + length) % Word <= parent.length}

\* emitFrameBegin: the child arenas it may set up.
FrameBegin(parent, length) ==
    {c \in {[base |-> parent.base + parent.next, length |-> length, next |-> 0,
             saved |-> parent.next]} :
       /\ parent.next + length < Word
       /\ parent.next + length <= parent.length
       /\ parent.base + parent.next < Word}

\* emitFrameEnd: the parent's offset goes back to where the frame began; what
\* lies above it is no longer reserved.
FrameEnd(f) ==
    LET child == f.arenas[Len(f.arenas)]
        parent == f.arenas[child.parent]
        above(o) == o.hi > parent.base + child.saved /\ o.lo < parent.base + parent.length
    IN [f EXCEPT !.arenas = SubSeq([@ EXCEPT ![child.parent].next = child.saved], 1, Len(@) - 1),
                 !.objs = [o \in DOMAIN @ |->
                             [@[o] EXCEPT !.live = @ /\ ~above(f.objs[o])]],
                 !.vars = SelectSeq(@, LAMBDA v : v.depth < Len(f.arenas))]

\* A return ends every open frame, innermost first, before it leaves.
EndAllFrames(f) ==
    LET ended[n \in 0 .. Len(f.arenas) - 1] == IF n = 0 THEN f ELSE FrameEnd(ended[n - 1])
    IN ended[Len(f.arenas) - 1]

Init == fr = [arenas |-> <<[base |-> RootBase, length |-> RootLength, next |-> 0,
                            saved |-> 0, parent |-> 1, scope |-> 0]>>,
              parents |-> <<>>, objs |-> <<>>, vars |-> <<>>, touch |-> {},
              status |-> "run", count |-> 0]

(***************************************************************************)
(* Statements.                                                             *)
(***************************************************************************)
Names == DOMAIN fr.vars
Arenas == DOMAIN fr.arenas
ArenaLifetime(a) == IF a = 1 THEN Root ELSE FrameLife(fr.arenas[a].scope)
Innermost(a) == \A b \in Arenas : b # a => fr.arenas[b].parent # a \/ b = 1
Live(v) == fr.vars[v].life
Fits(value, target) == ~LifetimeShorterThan(fr.parents, value, target)

\* One shape of statement the lifetime analysis accepts but does not track:
\* programs use it only if Shapes has it.
Shape(s, uses) == uses => s \in Shapes

Statement == fr.status = "run" /\ fr.count < MaxStatements
Goes(f) == fr' = [f EXCEPT !.count = @ + 1]
Trap == Goes([fr EXCEPT !.status = "trap"])

\* let name = object: a new object and a name for it.
Let(f, type, life, extent, fields) ==
    [f EXCEPT !.objs = Append(@, [type |-> type, life |-> life, lo |-> extent.lo, hi |-> extent.hi,
                                  fields |-> fields, live |-> TRUE]),
              !.vars = Append(@, [type |-> type, life |-> life, obj |-> Len(f.objs) + 1,
                                  depth |-> Len(f.arenas)])]
Stack == [lo |-> 0, hi |-> 0]

\* let name = an object that exists: a handle is copied, not the object.
Alias(f, type, life, o) ==
    [f EXCEPT !.vars = Append(@, [type |-> type, life |-> life, obj |-> o, depth |-> Len(f.arenas)])]

\* The values a field may hold, and a store to one through a name: the name's
\* lifetime stands for the object's, which may be a longer one.
IsValue(u) == fr.vars[u].type \in {"bytes", "box"}
MayStore(v) == /\ fr.vars[v].type = "box"
               /\ Shape("through", fr.objs[fr.vars[v].obj].life # Live(v))

\* The arena record after a bump that returned the extent e.
Bumped(a, e) == [fr EXCEPT !.arenas[a].next = e.hi - fr.arenas[a].base]

\* with a.frame(length) as child {
With(a, length) ==
    /\ Statement /\ Len(fr.parents) < MaxFrames
    /\ LET new == FrameBegin(fr.arenas[a], length)
           id == Len(fr.parents) + 1
       IN IF new = {} THEN Trap
          ELSE \E c \in new :
            Goes([fr EXCEPT
              !.parents = Append(@, fr.arenas[a].scope),
              !.arenas = Append([@ EXCEPT ![a].next = @ + length],
                [base |-> c.base, length |-> c.length, next |-> c.next, saved |-> c.saved,
                 parent |-> a, scope |-> id])])

\* } of the innermost with.
EndWith == Statement /\ Len(fr.arenas) > 1 /\ Goes(FrameEnd(fr))

\* let v = a.reserve(length, align); an alignment computed at run time may be
\* anything.
Reserve(a, length, align) ==
    /\ Statement /\ Shape("outer", ~Innermost(a))
    /\ LET at == Bump(fr.arenas[a], length, align)
       IN IF at = {} THEN Trap
          ELSE \E e \in at :
            Goes(Let(Bumped(a, e), "bytes", ArenaLifetime(a), e, {}))

\* let v = a.reserve_array(T, count): count * size is checked before the bump.
ReserveArray(a, count) ==
    /\ Statement /\ Shape("outer", ~Innermost(a))
    /\ LET bytes == count * ElementSize
           at == IF bytes < Word THEN Bump(fr.arenas[a], bytes, 1) ELSE {}
       IN IF at = {} THEN Trap
          ELSE \E e \in at :
            Goes(Let(Bumped(a, e), "slots", ArenaLifetime(a), e, {}))

\* let v = a.place(Box(field = u)).
Place(a, u) ==
    /\ Statement /\ IsValue(u) /\ Shape("outer", ~Innermost(a))
    /\ \E life \in CombineLifetime(fr.parents, Root, Live(u)) : Fits(life, ArenaLifetime(a))
    /\ LET at == Bump(fr.arenas[a], ObjectSize, 1)
       IN IF at = {} THEN Trap
          ELSE \E e \in at :
            Goes(Let(Bumped(a, e),
                     "box", ArenaLifetime(a), e, {fr.vars[u].obj}))

\* let v = cache.get_bytes(key, into = a): a record whose bytes are a copy in
\* the frame a.
Lookup(a) ==
    /\ Statement /\ a > 1 /\ Shape("outer", ~Innermost(a))
    /\ LET at == Bump(fr.arenas[a], ObjectSize, 1)
           life == [kind |-> "cache_lookup", scope |-> fr.arenas[a].scope]
       IN IF at = {} THEN Trap
          ELSE \E e \in at :
            Goes(Let([Bumped(a, e) EXCEPT !.objs = Append(@,
                        [type |-> "bytes", life |-> life, lo |-> e.lo, hi |-> e.hi,
                         fields |-> {}, live |-> TRUE])],
                     "lookup", life, Stack, {Len(fr.objs) + 1}))

\* let v = Pair(left = u, right = w), a data record of two values.
Construct(u, w) ==
    /\ Statement /\ IsValue(u) /\ IsValue(w)
    /\ \E one \in CombineLifetime(fr.parents, Root, Live(u)) :
         \E life \in CombineLifetime(fr.parents, one, Live(w)) :
           Goes(Let(fr, "pair", life, Stack, {fr.vars[u].obj, fr.vars[w].obj}))

\* let v = Option.Some(value = u): a variant's lifetime is always the root's.
Wrap(u) ==
    /\ Statement /\ IsValue(u)
    /\ Shape("wrap", IsScopedLifetime(Live(u)))
    /\ Goes(Let(fr, "option", Root, Stack, {fr.vars[u].obj}))

\* if let Option.Some(value: v) = u: the binding has no lifetime of its own.
Unwrap(u) ==
    /\ Statement /\ fr.vars[u].type = "option"
    /\ \E o \in fr.objs[fr.vars[u].obj].fields : Goes(Alias(fr, fr.objs[o].type, Root, o))

\* let v = u.field: the lifetime of the base, a cache copy for a lookup's bytes.
LetField(u) ==
    /\ Statement /\ fr.vars[u].type # "option"
    /\ \E o \in fr.objs[fr.vars[u].obj].fields :
         Goes(Alias(fr, fr.objs[o].type,
                    [Live(u) EXCEPT !.kind = IF @ = "cache_lookup" THEN "cache_copy" ELSE @], o))

\* v = u.
Assign(v, u) ==
    /\ Statement /\ fr.vars[v].type = fr.vars[u].type
    /\ Fits(Live(u), Live(v))
    /\ Goes([fr EXCEPT !.vars[v].obj = fr.vars[u].obj])

\* v.field = u.
AssignField(v, u) ==
    /\ Statement /\ MayStore(v) /\ IsValue(u)
    /\ Fits(Live(u), Live(v))
    /\ Goes([fr EXCEPT !.objs[fr.vars[v].obj].fields = {fr.vars[u].obj}])

\* let r = v.method(u): the body runs, the summary gives the result's lifetime
\* and the requirements the arguments must meet.
Call(m, v, u) ==
    LET sum == MethodSummary(m)
        arg(x) == IF x = "self" THEN v ELSE u
        run[i \in 0 .. Len(m)] ==
          IF i = 0 THEN fr
          ELSE IF m[i][1] = "return" THEN run[i - 1]
          ELSE [run[i - 1] EXCEPT !.objs[fr.vars[arg(m[i][2])].obj].fields = {fr.vars[arg(m[i][3])].obj}]
    IN /\ Statement /\ IsValue(v) /\ IsValue(u)
       /\ \A i \in DOMAIN m : m[i][1] = "store" => MayStore(arg(m[i][2]))
       /\ ~sum.invalid
       /\ \A n \in sum.needs : Fits(Live(arg(n[1])), Live(arg(n[2])))
       /\ IF sum.ret = "none" THEN Goes(run[Len(m)])
          ELSE Goes(Alias(run[Len(m)], fr.vars[arg(sum.ret)].type,
                          Live(arg(sum.ret)), fr.vars[arg(sum.ret)].obj))

\* return u: no frame's value may leave; every open frame is ended.
Return(u) ==
    /\ Statement /\ ~IsScopedLifetime(Live(u))
    /\ Goes([EndAllFrames(fr) EXCEPT !.vars = <<fr.vars[u]>>, !.status = "returned"])

\* The extent of element i of a slots or slice value.
ElementAt(v, i) ==
    LET o == fr.objs[fr.vars[v].obj]
        n == (o.hi - o.lo) \div ElementSize
    IN {e \in {[lo |-> o.lo + i * ElementSize, hi |-> o.lo + (i + 1) * ElementSize, obj |-> fr.vars[v].obj]} :
          i < n /\ i * ElementSize < Word}

\* v.write(i, value), v.set(i, value), v.get(i): the same address computation.
Access(type, v, i) ==
    /\ Statement /\ fr.vars[v].type = type
    /\ LET at == ElementAt(v, i)
       IN IF at = {} THEN Trap ELSE \E e \in at : Goes([fr EXCEPT !.touch = {e}])
SlotWrite(v, i) == Access("slots", v, i)
SliceSet(v, i) == Access("slice", v, i)

\* let s = v.fill(value): every element is written; the slice it returns is an
\* assembly method's result, which the analysis gives the root's lifetime.
SlotFill(v) ==
    /\ Statement /\ fr.vars[v].type = "slots"
    /\ Shape("fill", IsScopedLifetime(Live(v)))
    /\ LET o == fr.objs[fr.vars[v].obj]
       IN Goes(Alias([fr EXCEPT !.touch = {[lo |-> o.lo, hi |-> o.hi, obj |-> fr.vars[v].obj]}],
                     "slice", Root, fr.vars[v].obj))

Next ==
    \/ \E a \in Arenas : \/ \E n \in Lengths : With(a, n) \/ \E al \in Aligns : Reserve(a, n, al)
                         \/ \E n \in Counts : ReserveArray(a, n)
                         \/ \E u \in Names : Place(a, u)
                         \/ Lookup(a)
    \/ EndWith
    \/ \E u \in Names : \/ Wrap(u) \/ Unwrap(u) \/ LetField(u) \/ Return(u) \/ SlotFill(u)
                        \/ \E i \in Indices : SlotWrite(u, i) \/ SliceSet(u, i)
                        \/ \E v \in Names : \/ Assign(v, u) \/ AssignField(v, u) \/ Construct(v, u)
                                            \/ \E m \in Methods : Call(m, v, u)

Spec == Init /\ [][Next]_fr

(***************************************************************************)
(* Properties.                                                             *)
(***************************************************************************)
\* The objects a name leads to, through the fields of the objects.
Reachable(v) ==
    LET o1 == fr.vars[v].obj
        n[k \in 0 .. Len(fr.objs)] ==
          IF k = 0 THEN {o1} ELSE n[k - 1] \cup UNION {fr.objs[o].fields : o \in n[k - 1]}
    IN n[Len(fr.objs)]

\* A name still in scope, and the value a function returns, lead only to
\* memory that is still reserved: no accepted assignment, constructor, call or
\* return carries a frame's value past the frame's end, whatever the nesting.
NoValueOutlivesItsFrame ==
    \A v \in Names : \A o \in Reachable(v) : fr.objs[o].live

\* Reservations that are still live never overlap, in one arena or in two:
\* a frame is carved out of its parent and rewound, a bump never wraps.
ReservationsDisjoint ==
    \A o, p \in DOMAIN fr.objs :
      LET x == fr.objs[o]  y == fr.objs[p]
      IN o < p /\ x.live /\ y.live /\ x.lo < x.hi /\ y.lo < y.hi /\ x.hi > 0 /\ y.hi > 0
         => x.hi <= y.lo \/ y.hi <= x.lo

\* An open frame lies inside what its parent has handed out, and an arena
\* never hands out more than it has, with lengths that wrap included.
FramesNest ==
    \A a \in Arenas :
      LET r == fr.arenas[a]  p == fr.arenas[r.parent]
      IN /\ r.next <= r.length
         /\ r.base + r.length <= RootBase + RootLength
         /\ a > 1 => r.base >= p.base /\ r.base + r.length <= p.base + p.next

\* An element access that does not trap addresses its own array only.
AccessInside ==
    \A t \in fr.touch : fr.objs[t.obj].lo <= t.lo /\ t.hi <= fr.objs[t.obj].hi
=============================================================================
