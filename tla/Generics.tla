------------------------------ MODULE Generics ------------------------------
(***************************************************************************)
(* The index of a program's types (compiler/sem/symbols.go: BuildIndex):   *)
(* declarations in the order of their modules, implementations of traits   *)
(* (trait.go) and the instantiations of generic types (generic.go).        *)
(*                                                                         *)
(* A type is its name and its arguments.  A declaration is of kind "type", *)
(* "trait" or "impl"; a type has fields (for an enum those of all its      *)
(* variants), a type and a trait have methods [name, params, ret].         *)
(* Methods with type parameters of their own are left out, and so are      *)
(* names declared twice and what does not look at types: interrupt         *)
(* receivers, handlers, the image.                                         *)
(***************************************************************************)
EXTENDS Integers, Sequences, FiniteSets, SequencesExt, FiniteSetsExt

CONSTANTS Programs,
          MaxDepth   \* maxGenericInstantiationDepth, 64 in the code
VARIABLE gn

None == "none"
Primitives == {"U64", "Bool"}
Type(n, args) == [name |-> n, args |-> args]
Indices(s) == 1..Len(s)
Named(p) == {i \in Indices(p) : p[i].kind # "impl"}
Known(p) == Primitives \cup {p[i].name : i \in Named(p)}
Decl(p, n) == p[CHOOSE i \in Named(p) : p[i].name = n]
Params(p, n) == IF n \in Primitives THEN <<>> ELSE Decl(p, n).params
IsTrait(p, n) == n \notin Primitives /\ Decl(p, n).kind = "trait"

(* The instantiations a type mentions, itself included.                    *)
RECURSIVE Parts(_)
Parts(t) == UNION {Parts(t.args[i]) : i \in Indices(t.args)} \cup (IF t.args = <<>> THEN {} ELSE {t})
PartsOf(ts) == UNION {Parts(t) : t \in ts}
RECURSIVE TypeArgumentDepth(_)
TypeArgumentDepth(t) ==
  IF t.args = <<>> THEN 0
  ELSE 1 + CHOOSE d \in {TypeArgumentDepth(t.args[i]) : i \in Indices(t.args)} :
             \A i \in Indices(t.args) : TypeArgumentDepth(t.args[i]) <= d

(* substituteType, for a function from parameter names to types.           *)
RECURSIVE SubstituteType(_, _)
SubstituteType(t, subst) ==
  IF t.args = <<>> THEN (IF t.name \in DOMAIN subst THEN subst[t.name] ELSE t)
  ELSE Type(t.name, [i \in Indices(t.args) |-> SubstituteType(t.args[i], subst)])
SubstitutionFor(p, t) ==
  LET params == Params(p, t.name)
  IN [x \in ToSet(params) |-> t.args[CHOOSE i \in Indices(params) : params[i] = x]]

Signature(m) == ToSet(m.params) \cup {m.ret}
SubstituteMethod(m, subst) ==
  [m EXCEPT !.params = [i \in Indices(@) |-> SubstituteType(@[i], subst)], !.ret = SubstituteType(@, subst)]
SubstituteAll(ts, subst) == [i \in Indices(ts) |-> SubstituteType(ts[i], subst)]
SubstituteMethods(ms, subst) == [i \in Indices(ms) |-> SubstituteMethod(ms[i], subst)]
-----------------------------------------------------------------------------
(* lookupTypeRef: what is wrong with a type as it is written.  A type that *)
(* is unknown as a whole is passed over in silence.                        *)
RECURSIVE RefError(_, _, _, _, _)
RefError(p, t, params, inTypeArg, allowTrait) ==
  IF t.name \in params THEN (IF t.args = <<>> THEN None ELSE "SEM0077")
  ELSE IF t.name \notin Known(p) THEN (IF inTypeArg THEN "SEM0078" ELSE "unresolved")
  ELSE IF IsTrait(p, t.name) /\ ~allowTrait THEN "SEM0097"
  ELSE IF Len(Params(p, t.name)) # Len(t.args) THEN "SEM0077"
  ELSE LET wrong == {i \in Indices(t.args) : RefError(p, t.args[i], params, TRUE, FALSE) # None}
       IN IF wrong = {} THEN None
          ELSE RefError(p, t.args[CHOOSE i \in wrong : \A j \in wrong : i <= j], params, TRUE, FALSE)

(* registerInstantiation, for all of ts: a type too deep is complete at    *)
(* once, without members.                                                  *)
Fresh(t) == [state |-> IF TypeArgumentDepth(t) > MaxDepth THEN "complete" ELSE "new", fields |-> <<>>, methods |-> <<>>]
RegisterInstantiations(s, ts) ==
  [s EXCEPT !.inst = [t \in DOMAIN @ \cup ts |-> IF t \in DOMAIN s.inst THEN s.inst[t] ELSE Fresh(t)],
            !.diags = @ \cup (IF \E t \in ts : TypeArgumentDepth(t) > MaxDepth THEN {"SEM0098"} ELSE {})]
Registered == {t \in DOMAIN gn.inst : TypeArgumentDepth(t) <= MaxDepth}
-----------------------------------------------------------------------------
(* freeImplTypeParams: names without arguments that are not declared.      *)
RECURSIVE FreeImplTypeParams(_, _)
FreeImplTypeParams(p, t) ==
  IF t.args = <<>> THEN {t.name} \ Known(p) ELSE UNION {FreeImplTypeParams(p, t.args[i]) : i \in Indices(t.args)}

(* matchImplPattern: the shapes agree, and every parameter of the pattern  *)
(* is bound to one type.                                                   *)
RECURSIVE Shape(_, _, _)
Shape(pattern, t, params) ==
  \/ pattern.args = <<>> /\ pattern.name \in params
  \/ /\ pattern.name = t.name /\ Len(pattern.args) = Len(t.args)
     /\ \A i \in Indices(t.args) : Shape(pattern.args[i], t.args[i], params)
RECURSIVE Bound(_, _, _)
Bound(pattern, t, params) ==
  IF pattern.args = <<>> THEN (IF pattern.name \in params THEN {<<pattern.name, t>>} ELSE {})
  ELSE UNION {Bound(pattern.args[i], t.args[i], params) : i \in Indices(t.args)}
OneEach(bound) == \A b, c \in bound : b[1] = c[1] => b[2] = c[2]
MatchImplPattern(impl, trait, for) ==
  /\ Shape(impl.trait, trait, impl.params) /\ Shape(impl.for, for, impl.params)
  /\ OneEach(Bound(impl.trait, trait, impl.params) \cup Bound(impl.for, for, impl.params))
ImplsOverlap(l, r) == MatchImplPattern(l, r.trait, r.for) \/ MatchImplPattern(r, l.trait, l.for)
HasImpl(s, trait, for) == \E i \in s.impls : MatchImplPattern(i, trait, for)

(* methodSignatureMatches (self is left out of the parameters).            *)
MethodSignatureMatches(have, want) == have.params = want.params /\ have.ret = want.ret

(* The methods a name has in the index so far.                             *)
MethodsSoFar(s, n) == IF n \in s.indexed THEN Decl(s.program, n).methods ELSE <<>>
InstanceMethods(s, t) == SubstituteMethods(MethodsSoFar(s, t.name), SubstitutionFor(s.program, t))
(* validateImplSignatures: nothing is said of a trait that comes later.    *)
SignaturesWrong(s, impl) ==
  \E want \in ToSet(InstanceMethods(s, impl.trait)) :
    LET named == SelectSeq(InstanceMethods(s, impl.for), LAMBDA m : m.name = want.name)
    IN named = <<>> \/ ~MethodSignatureMatches(Head(named), want)
-----------------------------------------------------------------------------
Init == \E p \in Programs :
  gn = [program |-> p, pc |-> "index", next |-> 1, indexed |-> {}, impls |-> {}, inst |-> <<>>,
        diags |-> {}, pass |-> 0, before |-> 0, todo |-> <<>>]

AtDecl(kinds) == gn.pc = "index" /\ gn.next <= Len(gn.program) /\ gn.program[gn.next].kind \in kinds
Here == gn.program[gn.next]
Errors(es) == es \ {None, "unresolved"}

(* The types a declaration mentions, and which of them may be traits.      *)
Members(d) == ToSet(d.fields) \cup UNION {Signature(m) : m \in ToSet(d.methods)}
Traits(d) == {b.trait : b \in ToSet(d.where)}

(* A type or a trait: bounds, fields and methods are looked up.            *)
IndexType ==
  LET error(t) == RefError(gn.program, t, ToSet(Here.params), FALSE, t \in Traits(Here))
      types == Members(Here) \cup Traits(Here)
  IN /\ AtDecl({"type", "trait"})
     /\ gn' = [RegisterInstantiations(gn, PartsOf({t \in types : error(t) = None})) EXCEPT
                 !.diags = @ \cup Errors({error(t) : t \in types}), !.indexed = @ \cup {Here.name}, !.next = @ + 1]

(* processImpl.                                                            *)
IndexImpl ==
  LET params == FreeImplTypeParams(gn.program, Here.trait) \cup FreeImplTypeParams(gn.program, Here.for)
      errors == {RefError(gn.program, Here.trait, params, FALSE, TRUE), RefError(gn.program, Here.for, params, FALSE, FALSE)}
      impl == [trait |-> Here.trait, for |-> Here.for, params |-> params]
      overlap == \E i \in gn.impls : ImplsOverlap(i, impl)
      used == {Here.trait, Here.for} \cup UNION {Signature(m) : m \in ToSet(InstanceMethods(gn, Here.trait) \o InstanceMethods(gn, Here.for))}
  IN /\ AtDecl({"impl"})
     /\ gn' = IF errors # {None} THEN [gn EXCEPT !.diags = @ \cup Errors(errors), !.next = @ + 1]
              ELSE [RegisterInstantiations(gn, PartsOf(used)) EXCEPT
                      !.impls = @ \cup {impl}, !.next = @ + 1,
                      !.diags = @ \cup (IF overlap THEN {"SEM0083"} ELSE IF SignaturesWrong(gn, impl) THEN {"SEM0082"} ELSE {})]
-----------------------------------------------------------------------------
(* CompleteGenericInstantiations: passes over what is registered, until    *)
(* one registers nothing.  Sorting the keys is some fixed order.           *)
Start(t) == [do |-> "start", type |-> t]
Incomplete == {t \in Registered : gn.inst[t].state # "complete"}
StartPass ==
  /\ gn.pc = "pass" \/ (gn.pc = "index" /\ gn.next > Len(gn.program))
  /\ gn' = IF gn.pass >= MaxDepth THEN [gn EXCEPT !.pc = "refused", !.diags = @ \cup {"SEM0098"}]
           ELSE [gn EXCEPT !.pc = "complete", !.pass = @ + 1, !.before = Cardinality(Registered),
                           !.todo = FoldSet(LAMBDA t, todo : Append(todo, Start(t)), <<>>, Incomplete)]

AtStep(do) == gn.pc = "complete" /\ gn.todo # <<>> /\ Head(gn.todo).do = do
This == Head(gn.todo).type
Base == Decl(gn.program, This.name)
Subst == SubstitutionFor(gn.program, This)
SubstitutedBounds == [i \in Indices(Base.where) |-> [param |-> Base.where[i].param, trait |-> SubstituteType(Base.where[i].trait, Subst)]]

(* completeInstantiation down to the members: they are substituted, which  *)
(* registers what they instantiate, and completed before the type is.      *)
SubstituteMembers ==
  LET fields == SubstituteAll(Base.fields, Subst)
      methods == SubstituteMethods(Base.methods, Subst)
      used == ToSet(fields) \cup UNION {Signature(m) : m \in ToSet(methods)} \cup {SubstitutedBounds[i].trait : i \in Indices(SubstitutedBounds)}
      members == fields \o FlattenSeq([i \in Indices(methods) |-> <<methods[i].ret>> \o methods[i].params])
      generic == SelectSeq(members, LAMBDA t : t.args # <<>>)
  IN /\ AtStep("start")
     /\ gn' = IF gn.inst[This].state # "new" THEN [gn EXCEPT !.todo = Tail(@)]
              ELSE [RegisterInstantiations(gn, PartsOf(used)) EXCEPT
                      !.inst[This] = [state |-> "visiting", fields |-> fields, methods |-> methods],
                      !.todo = [i \in Indices(generic) |-> Start(generic[i])] \o <<[do |-> "finish", type |-> This]>> \o Tail(@)]

(* checkConcreteBounds, and the type is complete.                          *)
CheckConcreteBounds ==
  LET missing == {i \in Indices(SubstitutedBounds) : ~HasImpl(gn, SubstitutedBounds[i].trait, Subst[SubstitutedBounds[i].param])}
  IN /\ AtStep("finish")
     /\ gn' = [gn EXCEPT !.inst[This].state = "complete", !.todo = Tail(@),
                         !.diags = @ \cup (IF missing # {} THEN {"SEM0081"} ELSE {})]

Verdict == IF gn.diags = {} THEN "accepted" ELSE "refused"
(* Variant: one pass is all.                                               *)
EndOnlyPass == gn.pc = "complete" /\ gn.todo = <<>> /\ gn' = [gn EXCEPT !.pc = Verdict]
EndPass ==
  /\ gn.pc = "complete" /\ gn.todo = <<>>
  /\ gn' = [gn EXCEPT !.pc = IF Cardinality(Registered) = gn.before THEN Verdict ELSE "pass"]

Next == IndexType \/ IndexImpl \/ StartPass \/ SubstituteMembers \/ CheckConcreteBounds \/ EndPass
Done == gn.pc \in {"accepted", "refused"}
-----------------------------------------------------------------------------
(* What a program instantiates: what its declarations mention, and what    *)
(* the members and bounds of an instantiation mention.                     *)
Mentioned(d) == IF d.kind = "impl" THEN {d.trait, d.for} ELSE Members(d) \cup Traits(d)
FromInstance(t) ==
  LET d == Decl(gn.program, t.name)
  IN IF TypeArgumentDepth(t) > MaxDepth THEN {}
     ELSE PartsOf({SubstituteType(u, SubstitutionFor(gn.program, t)) : u \in Members(d) \cup Traits(d)})
RECURSIVE Closure(_)
Closure(ts) == LET more == ts \cup UNION {FromInstance(t) : t \in ts} IN IF more = ts THEN ts ELSE Closure(more)
Needed == Closure(PartsOf(UNION {Mentioned(d) : d \in ToSet(gn.program)}))

(* Refused for this, with every type well formed.                          *)
Refused(code) == gn.pc = "refused" /\ code \in gn.diags /\ gn.diags \cap {"SEM0077", "SEM0078", "SEM0097"} = {}

(* In an accepted program every instantiation that is needed, however      *)
(* indirectly, is in the index and complete, with the members of its       *)
(* generic type for its arguments, and there is no other; a program is     *)
(* found too deep only if a type it needs is.                              *)
InstantiationsComplete ==
  /\ gn.pc = "accepted" =>
       /\ DOMAIN gn.inst = Needed
       /\ \A t \in Needed :
            LET d == Decl(gn.program, t.name)
                subst == SubstitutionFor(gn.program, t)
            IN gn.inst[t] = [state |-> "complete", fields |-> SubstituteAll(d.fields, subst), methods |-> SubstituteMethods(d.methods, subst)]
  /\ Refused("SEM0098") => \E t \in Needed : TypeArgumentDepth(t) > MaxDepth

(* An implementation covers a trait and a type if some types for its       *)
(* parameters make it that of exactly these two.                           *)
Arguments == Needed \cup UNION {ToSet(t.args) : t \in Needed} \cup {Type(n, <<>>) : n \in Known(gn.program)}
Covers(impl, trait, for) ==
  \E subst \in [impl.params -> Arguments] : SubstituteType(impl.trait, subst) = trait /\ SubstituteType(impl.for, subst) = for
Uncovered(t) ==
  LET subst == SubstitutionFor(gn.program, t)
  IN \E b \in ToSet(Decl(gn.program, t.name).where) :
       ~\E i \in gn.impls : Covers(i, SubstituteType(b.trait, subst), subst[b.param])

(* In an accepted program the arguments of every instantiation satisfy the *)
(* bounds of the generic type; a bound is reported only if one does not.   *)
BoundsHold ==
  /\ gn.pc = "accepted" => \A t \in Needed : ~Uncovered(t)
  /\ Refused("SEM0081") => \E t \in Needed : Uncovered(t)

(* For an implementation that comes after its trait and its type: in an    *)
(* accepted program the type has the trait's methods, with the signatures  *)
(* the trait's arguments give them, whatever the implementation's          *)
(* parameters stand for; and only then is a mismatch reported.             *)
InOrder(i) == \A j \in Named(gn.program) : gn.program[j].name \in {gn.program[i].trait.name, gn.program[i].for.name} => j < i
Implements(d, subst) ==
  LET methods(t) == LET u == SubstituteType(t, subst)
                    IN IF u.name \in Primitives THEN {}
                       ELSE {SubstituteMethod(m, SubstitutionFor(gn.program, u)) : m \in ToSet(Decl(gn.program, u.name).methods)}
  IN methods(d.trait) \subseteq methods(d.for)
ImplsMatchTraits ==
  LET impls == {i \in Indices(gn.program) : gn.program[i].kind = "impl"}
      free(d) == FreeImplTypeParams(gn.program, d.trait) \cup FreeImplTypeParams(gn.program, d.for)
      right(d) == \A subst \in [free(d) -> {Type(n, <<>>) : n \in Primitives}] : Implements(d, subst)
  IN /\ gn.pc = "accepted" => \A i \in impls : InOrder(i) => right(gn.program[i])
     /\ Refused("SEM0082") => \E i \in impls : InOrder(i) => ~right(gn.program[i])
=============================================================================
