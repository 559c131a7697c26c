------------------------------- MODULE Parser -------------------------------
(***************************************************************************)
(* The recursive-descent parser (compiler/parse/parser.go, expr.go) as a   *)
(* machine that executes its functions.  A function is a sequence of       *)
(* instructions, one for each thing it does with the token stream; a call  *)
(* replaces itself by the callee's instructions, so ps.todo is what is     *)
(* left to do of every function on the call stack.  The first diagnostic   *)
(* ends the parse, as it does in the code.                                 *)
(*                                                                         *)
(* A token is a string: a keyword or an operator is itself, "x" is a       *)
(* lower-case and "T" an upper-case identifier, "7" an integer, "s" a      *)
(* string; "self", "id", "layout", ... are identifiers whose text the      *)
(* parser looks at.  Tokens are chosen when they are first looked at, so   *)
(* TLC explores every token stream over the alphabet of a start.           *)
(***************************************************************************)
EXTENDS Integers, Sequences, SequencesExt

CONSTANT Starts  \* [rule, tokens, max]: where to start, the alphabet, the length

VARIABLE ps      \* [start, toks, idx, todo, out, status]

Contextual == {"self", "id", "layout", "upcast", "current", "as", "message", "_"}
Identifiers == {"x", "T"} \cup Contextual

IsNameToken(t) == t \in Identifiers \cup {"image", "path", "event", "projection"}
IsExpressionNameToken(t) == IsNameToken(t) \/ t \in {"interrupt", "start", "executor"}
StartsUpper(t) == t = "T"
Separators == {"newline", ";"}

Precedence(t) ==
  CASE t \in {".", "("} -> 90       [] t \in {"*", "/", "%"} -> 80
    [] t \in {"+", "-"} -> 70       [] t \in {"<<", ">>"} -> 60
    [] t \in {"<", "<=", ">", ">="} -> 50 [] t \in {"==", "!="} -> 40
    [] t = "&" -> 30 [] t = "^" -> 20 [] t = "|" -> 10 [] OTHER -> -1
-----------------------------------------------------------------------------
(* Instructions.                                                           *)
T(k) == <<"consume", k>>            \* consume(k): the next token must be k
Name == <<"name">>                  \* expectIdentifier
Take == <<"next">>                   \* next(): take a token already looked at
Skip == <<"skip">>                  \* skipSeparators
Not(k) == <<"not", k>>              \* a diagnostic when the next token is k
Opt(k, r) == <<"opt", k, r>>        \* if match(k) then r
Unless(k, r) == <<"unless", k, r>>  \* r when the next token is not k
While(k, r) == <<"while", k, r>>    \* for peek() == k { r }
Case(r) == <<"case", r>>            \* a switch over the next token
C(r) == <<"call", r>>
Expr(p) == <<"expr", p>>            \* parseExpr(p)

(* The loop over the members of a body: separators are skipped, the loop   *)
(* ends before a token of stop, and where strict is TRUE two members on    *)
(* one line are an error unless the first one ends in a brace.             *)
Members(stop, strict, r) == <<"members", stop, strict, r>>
Body(r) == <<T("{"), Members({"}", "EOF"}, FALSE, r), T("}")>>
StrictBody(r) == <<T("{"), Members({"}", "EOF"}, TRUE, r), T("}")>>

ParseModule == <<Skip, T("module"), C("dottedName"), Skip, While("use", "import"),
                 Members({"EOF"}, FALSE, "decl"), <<"accept">>>>
ParseImport == <<Take, T("{"), Skip, Unless("}", "importNames"), T("}"), T("from"), C("dottedName"), Skip>>
ImportNames == <<Skip, Name, Skip, Opt(",", "importMore")>>

ParseDecl(t) ==
  CASE t = "unique" -> <<Take, Case("uniqueDecl")>>
    [] t = "driver" -> <<Take, Case("driver")>>
    [] t \in {"data", "class", "enum", "trait", "impl", "executor", "image", "event",
              "projection", "const", "static_assert"} -> <<C(t)>>
    [] OTHER -> <<<<"error">>>>
UniqueDecl(t) == CASE t = "class" -> <<C("class")>>
                   [] t = "driver" -> <<Take, Not("path"), C("driverDecl")>>
                   [] OTHER -> <<<<"error">>>>
Driver(t) == IF t = "path" THEN <<Take, C("driverPath")>> ELSE <<C("driverDecl")>>

ParseEnumDecl == <<Take, Name, C("typeParams")>> \o Body("variant")
EnumVariant == <<Name, Opt("(", "variantFields"), Opt(",", "nothing")>>
ParseFieldListUntil == <<Skip, Case("variantFields")>>
VariantFields(t) == IF t = ")" THEN <<Take>> ELSE <<C("field"), Skip, Case("variantRest")>>
VariantRest(t) == CASE t = "," -> <<Take, Skip, Not(")"), C("variantFields")>>
                    [] t = ")" -> <<Take>> [] OTHER -> <<<<"error">>>>

ParseConstDecl == <<Take, Name, T(":"), C("typeRef"), T("="), Expr(0)>>
ParseStaticAssertDecl == <<Take, T("("), Expr(0), T(","), T("message"), T("="), T("s"), T(")")>>

ParseEventDecl == <<Take, Name, T("id"), T("7")>> \o Body("eventMember")
EventMember(t) == CASE t = "layout" -> <<C("eventLayout"), Skip>>
                    [] t = "upcast" -> <<C("upcast"), Skip>> [] OTHER -> <<C("field"), Skip>>
ParseEventLayoutDecl == <<T("layout"), T("7"), Opt("current", "nothing")>> \o Body("layoutField")
ParseEventLayoutField == <<Name, T(":"), C("typeRef"), Opt("=", "expr0"), Skip>>
ParseLayoutUpcastDecl == <<T("upcast"), T("7"), T("->"), T("7")>> \o Body("mapping")
UpcastMapping == <<Name, T("->"), Name, Skip>>

ParseProjectionDecl == <<Take, Name, T("id"), T("7")>> \o Body("projectionMember")
ProjectionMember(t) == CASE t = "layout" -> <<C("projectionLayout"), Skip>>
                         [] t = "upcast" -> <<C("upcast"), Skip>> [] OTHER -> <<<<"error">>>>
ParseProjectionLayoutDecl == <<T("layout"), T("7"), Opt("current", "nothing"), C("fieldContainer")>>

ParseDataDecl == <<Take, Name, C("typeParams"), C("where")>> \o StrictBody("classMember")
ParseClassDecl == ParseDataDecl
ParseDriverDecl == <<Name, C("typeParams"), C("where")>> \o StrictBody("classMember")
ParseDriverPathDecl == <<Name>> \o StrictBody("pathMember")
ParseExecutorDecl == <<Take, Name>> \o StrictBody("executorMember")

(* parseCompositeMembers: only an identifier starts a field here.          *)
CompositeMember(kind, t) ==
  CASE t \in {"asm", "start", "fn"} -> <<C("method")>>
    [] t = "interrupt" /\ kind = "path" -> <<C("interruptEvent")>>
    [] t = "on" /\ kind = "executor" -> <<C("onHandler")>>
    [] t \in Identifiers -> <<C("field")>>
    [] OTHER -> <<<<"error">>>>

ParseInterruptEventDecl == <<Take, T("receiver"), T("->"), C("typeRef"), C("block")>>
ParseOnHandlerDecl == <<Take, Name, T("."), T("interrupt"), T("("), Name, T(":"), C("typeRef"), T(")"), C("block")>>
ParseFieldContainer == StrictBody("field")
ParseFieldDecl == <<Name, T(":"), C("typeRef")>>

ParseImageDecl == <<Take, Name>> \o Body("imageMember")
ImageMember(t) == CASE t = "transitions" -> <<C("transitions"), Skip>>
                    [] t = "phase" -> <<C("phase"), Skip>> [] OTHER -> <<<<"error">>>>
ParseTransitions == <<Take>> \o Body("transition")
Transition == <<Name, T("->"), Name, Opt(",", "nothing"), Skip>>
ParsePhaseDecl == <<Take, Name, T("("), C("params"), T(")"), T("->"), C("typeRef"), C("block")>>

ParseMethodDecl(t) ==
  CASE t = "asm" -> <<Take, T("fn"), C("signature"), C("asmBody")>>
    [] t = "start" -> <<Take, T("fn"), C("signature"), C("block")>>
    [] OTHER -> <<T("fn"), C("signature"), C("block")>>
Signature == <<Name, C("typeParams"), T("("), C("params"), T(")"), C("where"), Opt("->", "typeRef")>>
ParseTraitDecl == <<Take, Name, C("typeParams")>> \o Body("traitMethod")
ParseTraitMethodDecl == <<T("fn"), C("signature"), Skip>>
ParseImplDecl == <<Take, C("typeRef"), T("for"), C("typeRef")>>

(* Only the first parameter may be a bare self.                            *)
ParseParams == <<Skip, Unless(")", "firstParam")>>
FirstParam(t) == IF t = "self" THEN <<Take, Case("afterSelf")>> ELSE <<C("param")>>
AfterSelf(t) == IF t = ":" THEN <<C("paramType")>> ELSE <<Skip, Opt(",", "moreParams")>>
Param == <<Skip, Name, C("paramType")>>
ParamType == <<T(":"), C("typeRef"), Skip, Opt(",", "moreParams")>>
MoreParams == <<Skip, Not(")"), C("param")>>

ParseIfLetStmt == <<Take, C("pattern"), T("="), Expr(0), C("block")>>
ParseLetStmt == <<Take, Name, T("="), Expr(0)>>
ParseReturnStmt == <<Take, Skip, Case("returned")>>
ParseMatchStmt == <<Take, Expr(0)>> \o Body("arm")
ParseWhileStmt == <<Take, Expr(0), C("block")>>
ParseForStmt == <<Take, Name, T("in"), Expr(0), C("block")>>
ParseWithStmt == <<Take, Expr(0), T("as"), Name, C("block")>>
ParseExprOrAssignStmt == <<Expr(0), Opt("=", "expr0")>>
ParseStmt(t) ==
  CASE t = "let" -> ParseLetStmt [] t = "return" -> ParseReturnStmt [] t = "if" -> <<Take, Case("if")>>
    [] t = "match" -> ParseMatchStmt [] t = "while" -> ParseWhileStmt [] t = "for" -> ParseForStmt
    [] t = "with" -> ParseWithStmt [] t = "asm" -> <<<<"error">>>> [] OTHER -> ParseExprOrAssignStmt
Returned(t) == IF t \in {"}", "EOF"} THEN <<>> ELSE <<Expr(0)>>
ParseIfStmt(t) == IF t = "let" THEN ParseIfLetStmt ELSE <<Expr(0), C("block"), Opt("else", "block")>>
MatchArm == <<C("pattern"), T("=>"), C("block")>>
ParseBlockStmts == <<T("{"), Members({"}", "EOF"}, FALSE, "stmt"), T("}")>>

ParsePattern(t) == IF t = "_" THEN <<Take>> ELSE <<Name, T("."), Name, Opt("(", "bindings")>>
Bindings == <<C("binding"), T(")")>>
Binding == <<Name, T("="), Name, Opt(",", "moreBindings")>>
MoreBindings == <<Skip, C("binding")>>

(* captureAsmBody counts braces and looks at nothing else.                 *)
CaptureAsmBody == <<T("{"), <<"asm", 1>>>>

ParseDottedName == <<Name, While(".", "dotted")>>
ParseTypeName(t) == IF t = "never" THEN <<Take>> ELSE <<C("dottedName")>>
ParseTypeRef == <<Case("typeName"), Opt("<", "typeArgs")>>
TypeArgs == <<C("typeArg"), <<"greater">>>>
TypeArg == <<C("typeRef"), Skip, Opt(",", "moreTypeArgs")>>
MoreTypeArgs == <<Skip, C("typeArg")>>
ParseTypeParams == <<Opt("<", "typeParamList")>>
TypeParamList == <<C("typeParam"), T(">")>>
TypeParam == <<Name, Skip, Opt(",", "moreTypeParams")>>
MoreTypeParams == <<Skip, C("typeParam")>>
ParseWhereClause == <<Opt("where", "bound")>>
Bound == <<Name, T(":"), C("typeRef"), Skip, Opt(",", "moreBounds")>>
MoreBounds == <<Skip, C("bound")>>

ParseNamedArgs == <<Skip, Unless(")", "arg")>>
Arg == <<Skip, <<"argName">>, Expr(0), Skip, Opt(",", "moreArgs")>>
MoreArgs == <<Skip, Not(")"), C("arg")>>
Call == <<C("namedArgs"), T(")")>>
-----------------------------------------------------------------------------
(* The functions by name.                                                  *)
Rule(r) ==
  CASE r = "module" -> ParseModule [] r = "import" -> ParseImport
    [] r = "importNames" -> ImportNames [] r = "importMore" -> <<Skip, C("importNames")>>
    [] r = "decl" -> <<Case("decl")>> [] r = "enum" -> ParseEnumDecl [] r = "variant" -> EnumVariant
    [] r = "variantFields" -> ParseFieldListUntil [] r = "const" -> ParseConstDecl
    [] r = "static_assert" -> ParseStaticAssertDecl [] r = "event" -> ParseEventDecl
    [] r = "eventMember" -> <<Case("eventMember")>> [] r = "eventLayout" -> ParseEventLayoutDecl
    [] r = "layoutField" -> ParseEventLayoutField [] r = "upcast" -> ParseLayoutUpcastDecl
    [] r = "mapping" -> UpcastMapping [] r = "projection" -> ParseProjectionDecl
    [] r = "projectionMember" -> <<Case("projectionMember")>>
    [] r = "projectionLayout" -> ParseProjectionLayoutDecl [] r = "data" -> ParseDataDecl
    [] r = "class" -> ParseClassDecl [] r = "driverDecl" -> ParseDriverDecl
    [] r = "driverPath" -> ParseDriverPathDecl [] r = "executor" -> ParseExecutorDecl
    [] r \in {"classMember", "pathMember", "executorMember"} -> <<Case(r)>>
    [] r = "interruptEvent" -> ParseInterruptEventDecl [] r = "onHandler" -> ParseOnHandlerDecl
    [] r = "fieldContainer" -> ParseFieldContainer [] r = "field" -> ParseFieldDecl
    [] r = "image" -> ParseImageDecl [] r = "imageMember" -> <<Case("imageMember")>>
    [] r = "transitions" -> ParseTransitions [] r = "transition" -> Transition
    [] r = "phase" -> ParsePhaseDecl [] r = "method" -> <<Case("method")>> [] r = "signature" -> Signature
    [] r = "trait" -> ParseTraitDecl [] r = "traitMethod" -> ParseTraitMethodDecl
    [] r = "impl" -> ParseImplDecl [] r = "params" -> ParseParams [] r = "firstParam" -> <<Skip, Case("firstParam")>>
    [] r = "param" -> Param [] r = "paramType" -> ParamType [] r = "moreParams" -> MoreParams
    [] r = "stmt" -> <<Case("stmt"), Skip>> [] r = "arm" -> MatchArm [] r = "block" -> ParseBlockStmts
    [] r = "pattern" -> <<Case("pattern")>> [] r = "bindings" -> Bindings [] r = "binding" -> Binding
    [] r = "moreBindings" -> MoreBindings [] r = "asmBody" -> CaptureAsmBody
    [] r = "dottedName" -> ParseDottedName [] r = "dotted" -> <<Take, Name>>
    [] r = "typeRef" -> ParseTypeRef [] r = "typeArgs" -> TypeArgs [] r = "typeArg" -> TypeArg
    [] r = "moreTypeArgs" -> MoreTypeArgs [] r = "typeParams" -> ParseTypeParams
    [] r = "typeParamList" -> TypeParamList [] r = "typeParam" -> TypeParam
    [] r = "moreTypeParams" -> MoreTypeParams [] r = "where" -> ParseWhereClause [] r = "bound" -> Bound
    [] r = "moreBounds" -> MoreBounds [] r = "namedArgs" -> ParseNamedArgs [] r = "arg" -> Arg
    [] r = "moreArgs" -> MoreArgs [] r = "expr0" -> <<Expr(0)>> [] r = "nothing" -> <<>>

Branch(r, t) ==
  CASE r = "decl" -> ParseDecl(t) [] r = "uniqueDecl" -> UniqueDecl(t) [] r = "driver" -> Driver(t)
    [] r = "variantFields" -> VariantFields(t) [] r = "variantRest" -> VariantRest(t)
    [] r = "eventMember" -> EventMember(t) [] r = "projectionMember" -> ProjectionMember(t)
    [] r = "classMember" -> CompositeMember("class", t) [] r = "pathMember" -> CompositeMember("path", t)
    [] r = "executorMember" -> CompositeMember("executor", t) [] r = "imageMember" -> ImageMember(t)
    [] r = "method" -> ParseMethodDecl(t) [] r = "firstParam" -> FirstParam(t)
    [] r = "afterSelf" -> AfterSelf(t) [] r = "stmt" -> ParseStmt(t) [] r = "returned" -> Returned(t)
    [] r = "if" -> ParseIfStmt(t) [] r = "pattern" -> ParsePattern(t) [] r = "typeName" -> ParseTypeName(t)
-----------------------------------------------------------------------------
Ended(p) == p.toks # <<>> /\ Last(p.toks) = "EOF"
PeekN(n) == IF ps.idx + n < Len(ps.toks) THEN ps.toks[ps.idx + n + 1] ELSE "EOF"
Peek == PeekN(0)
Known(n) == ps.idx + n < Len(ps.toks) \/ Ended(ps)
Previous == IF ps.idx = 0 THEN Peek ELSE ps.toks[ps.idx]

(* looksLikeGenericConstructor: from the '<' after a type name to its      *)
(* closing '>', which must be followed by '('; "more" when the answer      *)
(* depends on tokens not yet chosen.                                       *)
LooksLikeGenericConstructor ==
  LET opens(i) == IF i + 1 > Len(ps.toks) THEN "more" ELSE IF ps.toks[i + 1] = "(" THEN "yes" ELSE "no"
      scan[i \in 1..(Len(ps.toks) + 1), d \in -2..(Len(ps.toks) + 1)] ==
        IF i > Len(ps.toks) THEN "more"
        ELSE CASE ps.toks[i] = "<" -> scan[i + 1, d + 1]
               [] ps.toks[i] = ">" -> IF d = 1 THEN opens(i) ELSE scan[i + 1, d - 1]
               [] ps.toks[i] = ">>" -> IF d \in {1, 2} THEN opens(i) ELSE scan[i + 1, d - 2]
               [] ps.toks[i] \in {"EOF", "newline", ";", "}"} -> "no"
               [] OTHER -> scan[i + 1, d]
  IN scan[ps.idx + 2, 0]

(* How parsePrimary reads an identifier, tok = PeekN(0).                   *)
VariantAhead == PeekN(1) = "." /\ StartsUpper(Peek) /\ StartsUpper(PeekN(2)) /\ PeekN(3) = "("
PrimaryKnown ==
  \/ Peek \notin Identifiers
  \/ /\ Known(1)
     /\ (PeekN(1) = "." /\ StartsUpper(Peek)) => Known(2) /\ (StartsUpper(PeekN(2)) => Known(3))
     /\ (PeekN(1) = "<" /\ StartsUpper(Peek)) => LooksLikeGenericConstructor # "more"
IsPlainName ==
  /\ Peek \in Identifiers
  /\ IF PeekN(1) = "<" THEN ~StartsUpper(Peek) \/ LooksLikeGenericConstructor = "no"
                       ELSE PeekN(1) # "(" /\ ~VariantAhead
-----------------------------------------------------------------------------
Do(op) == ps.status = "run" /\ ps.todo # <<>> /\ Head(ps.todo)[1] = op
Op == Head(ps.todo)
Rest == Tail(ps.todo)
Ready == CASE Op[1] = "argName" -> Known(0) /\ (IsExpressionNameToken(Peek) => Known(1))
           [] Op[1] = "climb" -> Known(0) /\ (Peek = "newline" => Known(1))
           [] Op[1] = "primary" -> Known(0) /\ PrimaryKnown
           [] Op[1] \in {"call", "expr", "emit", "error"} -> TRUE
           [] OTHER -> Known(0)

Init == \E s \in Starts : ps = [start |-> s, toks |-> <<>>, idx |-> 0, out |-> <<>>, status |-> "run",
                                todo |-> IF s.rule = "module" THEN ParseModule ELSE <<C(s.rule), <<"accept">>>>]

Continue(todo) == ps' = [ps EXCEPT !.todo = todo]
Advance(todo) == ps' = [ps EXCEPT !.todo = todo, !.idx = IF @ < Len(ps.toks) THEN @ + 1 ELSE @]
Fail == ps' = [ps EXCEPT !.status = "error"]

(* The lexer's next token, chosen when the parser first looks at it.       *)
LexToken == /\ ps.status = "run" /\ ~Ready
            /\ \E t \in {"EOF"} \cup (IF Len(ps.toks) < ps.start.max THEN ps.start.tokens ELSE {}) :
                 ps' = [ps EXCEPT !.toks = Append(@, t)]

Consume == Do("consume") /\ Ready /\ IF Peek = Op[2] THEN Advance(Rest) ELSE Fail
ExpectIdentifier == Do("name") /\ Ready /\ IF IsNameToken(Peek) THEN Advance(Rest) ELSE Fail
NextToken == Do("next") /\ Ready /\ Advance(Rest)
SkipSeparators == Do("skip") /\ Ready /\ IF Peek \in Separators THEN Advance(ps.todo) ELSE Continue(Rest)
Refuse == Do("not") /\ Ready /\ IF Peek = Op[2] THEN Fail ELSE Continue(Rest)
Match == Do("opt") /\ Ready /\ IF Peek = Op[2] THEN Advance(<<C(Op[3])>> \o Rest) ELSE Continue(Rest)
UnlessNext == Do("unless") /\ Ready /\ Continue(IF Peek = Op[2] THEN Rest ELSE <<C(Op[3])>> \o Rest)
WhileNext == Do("while") /\ Ready /\ Continue(IF Peek = Op[2] THEN <<C(Op[3])>> \o ps.todo ELSE Rest)
Switch == Do("case") /\ Ready /\ Continue(Branch(Op[2], Peek) \o Rest)
Enter == Do("call") /\ Continue(Rule(Op[2]) \o Rest)
Diagnose == Do("error") /\ Fail

(* One turn of a member loop: separators, then the end or a member.        *)
(* Variant: a separator is looked at and not taken.                        *)
NextMemberStuck ==
  /\ Do("members") /\ Ready
  /\ IF Peek \in Separators THEN Continue(ps.todo)
     ELSE IF Peek \in Op[2] THEN Continue(Rest)
     ELSE IF Op[3] /\ Previous \notin Separators \cup {"{", "}"} THEN Fail
     ELSE Continue(<<C(Op[4])>> \o ps.todo)

NextMember ==
  /\ Do("members") /\ Ready
  /\ IF Peek \in Separators THEN Advance(ps.todo)
     ELSE IF Peek \in Op[2] THEN Continue(Rest)
     ELSE IF Op[3] /\ Previous \notin Separators \cup {"{", "}"} THEN Fail
     ELSE Continue(<<C(Op[4])>> \o ps.todo)

CaptureAsm ==
  /\ Do("asm") /\ Ready
  /\ LET depth == Op[2] + (IF Peek = "{" THEN 1 ELSE IF Peek = "}" THEN -1 ELSE 0)
     IN IF Peek = "EOF" THEN Fail ELSE Advance(IF depth = 0 THEN Rest ELSE <<<<"asm", depth>>>> \o Rest)

(* '>>' closes two type argument lists: the token is cut in two.           *)
ConsumeTypeGreater ==
  /\ Do("greater") /\ Ready
  /\ CASE Peek = ">" -> Advance(Rest)
       [] Peek = ">>" -> ps' = [ps EXCEPT !.todo = Rest, !.idx = @ + 1,
                                  !.toks = SubSeq(@, 1, ps.idx) \o <<">", ">">> \o SubSeq(@, ps.idx + 2, Len(@))]
       [] OTHER -> Fail

ArgName == /\ Do("argName") /\ Ready
           /\ Continue(IF IsExpressionNameToken(Peek) /\ PeekN(1) = "=" THEN <<Take, Take>> \o Rest ELSE Rest)

ParseExpr == Do("expr") /\ Continue(<<<<"primary">>, <<"climb", Op[2]>>>> \o Rest)
Leaf == ps' = [ps EXCEPT !.todo = Rest, !.idx = @ + 1, !.out = Append(@, <<"leaf", ps.idx + 1>>)]
ParsePrimary ==
  /\ Do("primary") /\ Ready
  /\ CASE Peek \in {"7", "s", "true", "false"} \/ IsPlainName -> Leaf
       [] Peek = "(" -> Advance(<<Expr(0), T(")")>> \o Rest)
       [] Peek \in {"sizeof", "alignof"} -> Advance(<<T("("), C("typeRef"), T(")"), <<"emit", "leaf", ps.idx + 1>>>> \o Rest)
       [] Peek \in Identifiers \cup {"never"} -> Continue(<<C("typeRef"), <<"constructor", ps.idx + 1>>>> \o Rest)
       [] OTHER -> Fail

(* After the type of a constructor: its arguments, or nothing.             *)
Constructor ==
  /\ Do("constructor") /\ Ready
  /\ CASE Peek = "(" -> Advance(Call \o <<<<"emit", "call", Op[2]>>>> \o Rest)
       [] Previous = ">" -> Fail
       [] OTHER -> Continue(<<<<"emit", "leaf", Op[2]>>>> \o Rest)

(* The loop of parseExpr: a selector, a binary operator or the end.        *)
Climb ==
  /\ Do("climb") /\ Ready
  /\ CASE Peek = "newline" /\ PeekN(1) = "." -> Advance(<<<<"climbOn", Op[2]>>>> \o Rest)
       [] OTHER -> Continue(<<<<"climbOn", Op[2]>>>> \o Rest)
(* Variant: the right operand takes operators of the same precedence.      *)
ClimbOnRight ==
  /\ Do("climbOn") /\ Ready
  /\ LET prec == Precedence(Peek)
     IN IF prec < 0 \/ prec < Op[2] THEN Continue(Rest)
        ELSE IF Peek = "." THEN Advance(<<<<"selector">>, <<"method", ps.idx + 1>>, <<"climb", Op[2]>>>> \o Rest)
        ELSE Advance(<<Expr(prec), <<"emit", "op", ps.idx + 1>>, <<"climb", Op[2]>>>> \o Rest)
ClimbOn ==
  /\ Do("climbOn") /\ Ready
  /\ LET prec == Precedence(Peek)
     IN IF prec < 0 \/ prec < Op[2] THEN Continue(Rest)
        ELSE IF Peek = "." THEN Advance(<<<<"selector">>, <<"method", ps.idx + 1>>, <<"climb", Op[2]>>>> \o Rest)
        ELSE Advance(<<Expr(prec + 1), <<"emit", "op", ps.idx + 1>>, <<"climb", Op[2]>>>> \o Rest)
Selector == Do("selector") /\ Ready /\ IF IsExpressionNameToken(Peek) THEN Advance(Rest) ELSE Fail
MethodCall == /\ Do("method") /\ Ready
              /\ IF Peek = "(" THEN Advance(Call \o <<<<"emit", "call", Op[2]>>>> \o Rest)
                               ELSE Continue(<<<<"emit", "field", Op[2]>>>> \o Rest)
Emit == Do("emit") /\ ps' = [ps EXCEPT !.todo = Rest, !.out = Append(@, <<Op[2], Op[3]>>)]

Accept == Do("accept") /\ Ready /\ ps' = [ps EXCEPT !.status = "ok", !.todo = <<>>]

Next == \/ LexToken \/ Consume \/ ExpectIdentifier \/ NextToken \/ SkipSeparators \/ Refuse \/ Match
        \/ UnlessNext \/ WhileNext \/ Switch \/ Enter \/ Diagnose \/ NextMember \/ CaptureAsm
        \/ ConsumeTypeGreater \/ ArgName \/ ParseExpr \/ ParsePrimary \/ Constructor \/ Climb \/ ClimbOn
        \/ Selector \/ MethodCall \/ Emit \/ Accept
Spec == Init /\ [][Next]_ps /\ WF_ps(Next)
-----------------------------------------------------------------------------
(* The token stream is accepted or refused.                                *)
Done == ps.status # "run"
Consumed == SubSeq(ps.toks, 1, ps.idx)
(* The '(' that parseExpr took for a binary operator (precedence gives it  *)
(* one): they open nothing.                                                *)
ParenOperators == {e[2] : e \in {x \in ToSet(ps.out) : x[1] = "op" /\ ps.toks[x[2]] = "("}}

(* Every bracket an accepted stream opens is closed by its own kind, in    *)
(* order, whichever functions consumed them (an asm body counts braces     *)
(* only, and a '(' taken for an operator opens nothing).                   *)
Nested(s, opens, closes) ==
  LET depth[i \in 0..Len(s)] == IF i = 0 THEN 0
        ELSE depth[i - 1] + (IF i \in opens THEN 1 ELSE IF i \in closes THEN -1 ELSE 0)
  IN depth[Len(s)] = 0 /\ \A i \in 1..Len(s) : depth[i] >= 0
Balanced ==
  ps.status = "ok" =>
    LET at(k) == {i \in 1..ps.idx : ps.toks[i] = k}
    IN /\ Nested(Consumed, at("{"), at("}"))
       /\ "asm" \in ps.start.tokens \/ Nested(Consumed, at("(") \ ParenOperators, at(")"))

(* The tree of an expression: the operator of lowest precedence outside    *)
(* parentheses, the last of them, is applied last.                         *)
RECURSIVE Postfix(_, _, _)
Postfix(s, i, j) ==
  LET depth(k) == Cardinality({m \in i..k : s[m] = "("}) - Cardinality({m \in i..k : s[m] = ")"})
      ops == {k \in i..j : depth(k) = 0 /\ Precedence(s[k]) \in 0..89}
      root == CHOOSE k \in ops : \A m \in ops :
                 Precedence(s[k]) < Precedence(s[m]) \/ (Precedence(s[k]) = Precedence(s[m]) /\ m <= k)
  IN IF ops # {} THEN Postfix(s, i, root - 1) \o Postfix(s, root + 1, j) \o <<<<"op", root>>>>
     ELSE IF j - i >= 2 /\ s[j - 1] = "." THEN Postfix(s, i, IF s[j - 2] = "newline" THEN j - 3 ELSE j - 2) \o <<<<"field", j - 1>>>>
     ELSE IF s[i] = "(" THEN Postfix(s, i + 1, j - 1)
     ELSE <<<<"leaf", i>>>>
PrecedenceRespected ==
  (/\ ps.status = "ok" /\ ps.start.rule = "expr0" /\ ParenOperators = {}
   /\ \A e \in ToSet(ps.out) : e[1] # "call")
  => ps.out = Postfix(Consumed, 1, ps.idx)

=============================================================================
