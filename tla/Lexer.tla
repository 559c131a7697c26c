------------------------------- MODULE Lexer -------------------------------
(***************************************************************************)
(* lex.All (compiler/lex/lexer.go): one action per way an iteration of its *)
(* loop can end.  A character is a one-character string that stands for    *)
(* its class: "a" a letter or "_", "0" the digit zero, "9" another digit,  *)
(* "x" the letter of a hexadecimal prefix, "#" a character that starts no  *)
(* token.  Positions are those of the code, so src[i] is CharAt(i).        *)
(***************************************************************************)
EXTENDS Integers, Sequences

CONSTANT Sources       \* the source texts the lexer is run on

VARIABLE lx            \* [src, i, toks, ds, done]

Letters == {"a", "x"}
Digits == {"0", "9"}
Whitespace == {" "}
SingleCharTokens == {">", "=", "-", "/", ";"}
TwoCharOperators == {<<"-", ">">>, <<"=", ">">>, <<"=", "=">>, <<">", "=">>, <<">", ">">>}

Size == Len(lx.src)
CharAt(p) == lx.src[p + 1]
IdentContinue(c) == c \in Letters \cup Digits

(* src[i] is c, and there is such a character.                             *)
At(p, c) == p < Size /\ CharAt(p) = c

(* The loops that run over the characters satisfying a test: the first     *)
(* position from p on that is outside the set C, or the end.               *)
Span(p, C) == CHOOSE e \in p..Size : /\ \A q \in p..(e - 1) : CharAt(q) \in C
                                     /\ e = Size \/ CharAt(e) \notin C

IsLineComment(p) == At(p, "/") /\ At(p + 1, "/")
TwoCharOperatorAt(p) == p + 1 < Size /\ <<CharAt(p), CharAt(p + 1)>> \in TwoCharOperators

LexIdent(p) == Span(p, Letters \cup Digits)

(* A hexadecimal literal may have no digit after its prefix.               *)
LexInt(p) == IF At(p, "0") /\ At(p + 1, "x") THEN Span(p + 2, Digits \cup {"a"})
                                             ELSE Span(p, Digits)

(* The end of a string that starts at p, and whether it is terminated: a   *)
(* backslash takes the next character with it, whatever that is.           *)
LexString(p) ==
  LET end[q \in 0..(Size + 1)] ==
        IF q >= Size THEN <<Size, FALSE>>
        ELSE IF CharAt(q) = "\\" THEN end[IF q + 1 >= Size THEN Size ELSE q + 2]
        ELSE IF CharAt(q) = "\"" THEN <<q + 1, TRUE>>
        ELSE IF CharAt(q) = "\n" THEN <<q, FALSE>>
        ELSE end[q + 1]
  IN end[p + 1]

Tok(kind, from, to) == [kind |-> kind, from |-> from, to |-> to]
More(p) == ~lx.done /\ lx.i < Size /\ p
Advance(to, tok) == lx' = [lx EXCEPT !.i = to, !.toks = @ \o tok]

Init == \E s \in Sources : lx = [src |-> s, i |-> 0, toks |-> <<>>, ds |-> {}, done |-> FALSE]

SkipWhitespace == More(CharAt(lx.i) \in Whitespace) /\ Advance(lx.i + 1, <<>>)

LexNewline == More(CharAt(lx.i) = "\n") /\ Advance(lx.i + 1, <<Tok("newline", lx.i, lx.i + 1)>>)

SkipComment ==
  /\ More(IsLineComment(lx.i))
  /\ Advance(CHOOSE e \in lx.i..Size : /\ e = Size \/ CharAt(e) = "\n"
                                       /\ \A q \in lx.i..(e - 1) : CharAt(q) # "\n", <<>>)

LexOperator ==
  /\ More(~IsLineComment(lx.i))
  /\ \/ TwoCharOperatorAt(lx.i) /\ Advance(lx.i + 2, <<Tok("two", lx.i, lx.i + 2)>>)
     \/ /\ ~TwoCharOperatorAt(lx.i) /\ CharAt(lx.i) \in SingleCharTokens
        /\ Advance(lx.i + 1, <<Tok("one", lx.i, lx.i + 1)>>)

(* An unterminated string is reported and still becomes a token.           *)
LexStringLiteral ==
  /\ More(CharAt(lx.i) = "\"")
  /\ LET end == LexString(lx.i)
     IN lx' = [lx EXCEPT !.i = end[1], !.toks = Append(@, Tok("string", lx.i, end[1])),
                         !.ds = IF end[2] THEN @ ELSE @ \cup {<<lx.i, end[1]>>}]

LexNumber == More(CharAt(lx.i) \in Digits) /\ Advance(LexInt(lx.i), <<Tok("int", lx.i, LexInt(lx.i))>>)

LexName == More(CharAt(lx.i) \in Letters) /\ Advance(LexIdent(lx.i), <<Tok("ident", lx.i, LexIdent(lx.i))>>)

(* Variant: an invalid character is skipped without a diagnostic.          *)
LexInvalidSilently == More(CharAt(lx.i) \in {"#", "\\"}) /\ Advance(lx.i + 1, <<>>)

LexInvalid ==
  /\ More(CharAt(lx.i) \in {"#", "\\"})
  /\ lx' = [lx EXCEPT !.i = @ + 1, !.ds = @ \cup {<<lx.i, lx.i + 1>>}]

LexEOF ==
  /\ ~lx.done /\ lx.i >= Size
  /\ lx' = [lx EXCEPT !.toks = Append(@, Tok("eof", Size, Size)), !.done = TRUE]

Next == \/ SkipWhitespace \/ LexNewline \/ SkipComment \/ LexOperator \/ LexStringLiteral
        \/ LexNumber \/ LexName \/ LexInvalid \/ LexEOF

Spec == Init /\ [][Next]_lx /\ WF_lx(Next)
-----------------------------------------------------------------------------
Covered(p) == \E k \in DOMAIN lx.toks : lx.toks[k].from <= p /\ p < lx.toks[k].to
Comment(p) == \E q \in 0..p : /\ IsLineComment(q) /\ ~Covered(q)
                              /\ \A r \in q..p : CharAt(r) # "\n"

(* All drops no text silently: its tokens lie one after the other, and a   *)
(* character before the scan position that belongs to no token is white    *)
(* space, part of a comment, or the subject of a diagnostic.               *)
Tiles ==
  /\ \A k \in 1..(Len(lx.toks) - 1) : lx.toks[k].to <= lx.toks[k + 1].from
  /\ \A p \in 0..(lx.i - 1) :
       Covered(p) \/ CharAt(p) \in Whitespace \/ Comment(p) \/ <<p, p + 1>> \in lx.ds

(* Every token is as long as it can be: a name or a number is not followed *)
(* by a character that would continue it, and a one-character token not by *)
(* one that would complete an operator or start a comment.                 *)
LongestMatch ==
  \A k \in DOMAIN lx.toks : LET t == lx.toks[k] IN
    t.to < Size =>
      CASE t.kind = "ident" -> ~IdentContinue(CharAt(t.to))
        [] t.kind = "int" -> CharAt(t.to) \notin Digits
        [] t.kind = "one" -> /\ <<CharAt(t.from), CharAt(t.to)>> \notin TwoCharOperators
                             /\ ~IsLineComment(t.from)
        [] OTHER -> TRUE

(* The EOF token has been appended.                                        *)
Done == lx.done
=============================================================================
