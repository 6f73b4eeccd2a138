--------------------------- MODULE ExpressionPrinter ---------------------------
(***************************************************************************)
(* The way of an expression through the compiler: the type eraser          *)
(* (internal/transformers/typeeraser.go) leaves a partially emitted        *)
(* expression where a type stood, and the printer (internal/printer) puts  *)
(* back the parentheses that are needed.  What it writes is read again by  *)
(* the scanner and the parser of Expressions.                              *)
(***************************************************************************)
EXTENDS Expressions

-----------------------------------------------------------------------------
(* The type eraser                                                         *)

\* SkipOuterExpressions of anything but assertions.
RECURSIVE Inner(_)
Inner(t) == IF t.kind \in {"paren", "nonNull", "partial"} THEN Inner(t.kids[1]) ELSE t

\* Parentheses go with the type they were there for.
RECURSIVE Erase(_)
Erase(t) ==
  IF t.kind \in Typed \/ (t.kind = "paren" /\ Inner(t.kids[1]).kind \in Assertions)
  THEN Tree("partial", "", <<Erase(t.kids[1])>>)
  ELSE [t EXCEPT !.kids = [i \in DOMAIN t.kids |-> Erase(t.kids[i])]]

-----------------------------------------------------------------------------
(* The printer.  Tokens that no space is written between may grow together *)
(* when they are read.                                                     *)

Space == " "
Written(op) == <<Space, op, Space>>

\* getLiteralKindOfBinaryPlusOperand
RECURSIVE LiteralKind(_)
LiteralKind(u) ==
  LET t == Skipped(u) IN
  IF t.kind \in {"number", "string"} THEN t.kind
  ELSE IF t.kind = "binary" /\ t.op = "+" /\ LiteralKind(t.kids[1]) = LiteralKind(t.kids[2]) THEN LiteralKind(t.kids[1])
  ELSE "unknown"

\* getBinaryExpressionPrecedence
LeftPrecedence(t) ==
  CASE t.op = "=" -> P.LeftHandSide
    [] t.op = "??" -> IF IsBinary(t.kids[1], "??") THEN P.Coalesce ELSE P.BitwiseOR
    [] t.op = "**" -> P.Update
    [] OTHER -> Precedence(t)

RightPrecedence(t) ==
  CASE t.op = "??" -> P.BitwiseOR
    [] t.op = "||" -> P.LogicalAND
    [] t.op = "&&" -> P.BitwiseOR
    [] t.op \in {"==", "!="} -> P.Relational
    [] t.op = "<" -> P.Shift
    [] t.op = "<<" -> P.Additive
    [] t.op \in {"+", "-"} ->
         IF t.op = "+" /\ IsBinary(t.kids[2], "+") /\ LiteralKind(t.kids[1]) # "unknown" /\ LiteralKind(t.kids[1]) = LiteralKind(t.kids[2])
         THEN P.Additive ELSE P.Multiplicative
    [] t.op \in {"*", "/"} -> IF t.op = "*" /\ IsBinary(t.kids[2], "*") THEN P.Multiplicative ELSE P.Exponentiation
    [] OTHER -> Precedence(t)

\* Between a sign and a prefix expression of that sign.
SignSpace(t) ==
  LET operand == t.kids[1] IN
  IF operand.kind = "prefix" /\ t.op \in {"+", "-"} /\ operand.op \in {t.op, t.op \o t.op}
  THEN <<Space>> ELSE <<>>

MemberOf(t) == IF t.chain THEN P.OptionalChain ELSE P.Member

\* emitCallee: new C and C() are told from new C().
Callee(t) == IF t.kind = "call" /\ Skipped(t.kids[1]).kind = "new" /\ Skipped(t.kids[1]).op = "" THEN P.Parentheses ELSE MemberOf(t)
NewCallee(t) == IF Skipped(t.kids[1]).kind = "call" THEN P.Parentheses ELSE P.Member

Dots(t) == IF t.question THEN <<"?.">> ELSE IF Skipped(t.kids[1]).kind = "number" THEN <<".", ".">> ELSE <<".">>
Question(t) == IF t.question THEN <<"?.">> ELSE <<>>

BodyPrecedence(body) == IF Leftmost(body).kind = "object" THEN P.Parentheses ELSE P.Yield
TestPrecedence(t) == IF IsBinary(t, "??") THEN P.Coalesce ELSE P.LogicalOR

\* emitExpression.  Without "adds" no parentheses are added: the text of a tree that the
\* parser made.
RECURSIVE Emit(_, _, _)
Emit(t, precedence, adds) ==
  LET kid(i, p) == Emit(t.kids[i], p, adds)
      rest(open, p, close) == <<open>> \o (IF Len(t.kids) = 2 THEN kid(2, p) ELSE <<>>) \o <<close>>
      text ==
        CASE t.kind \in Primaries -> <<t.op>>
          [] t.kind = "paren" -> <<"(">> \o kid(1, P.Comma) \o <<")">>
          [] t.kind = "partial" -> kid(1, precedence)
          [] t.kind = "binary" -> kid(1, LeftPrecedence(t)) \o Written(t.op) \o kid(2, RightPrecedence(t))
          [] t.kind = "conditional" ->
               kid(1, TestPrecedence(t.kids[1])) \o Written("?") \o kid(2, P.Yield) \o Written(":") \o kid(3, P.Yield)
          [] t.kind = "arrow" -> <<"x">> \o Written("=>") \o kid(1, BodyPrecedence(t.kids[1]))
          [] t.kind = "yield" -> IF t.kids = <<>> THEN <<"yield">> ELSE <<"yield", Space>> \o kid(1, P.Yield)
          [] t.kind = "spread" -> <<"...">> \o kid(1, P.Yield)
          [] t.kind = "prefix" -> <<t.op>> \o SignSpace(t) \o kid(1, P.Unary)
          [] t.kind \in UnaryKeywords -> <<t.kind, Space>> \o kid(1, P.Unary)
          [] t.kind = "postfix" -> kid(1, P.LeftHandSide) \o <<t.op>>
          [] t.kind = "property" -> kid(1, MemberOf(t)) \o Dots(t) \o <<"x">>
          [] t.kind = "element" -> kid(1, MemberOf(t)) \o Question(t) \o rest("[", P.Comma, "]")
          [] t.kind = "call" -> kid(1, Callee(t)) \o Question(t) \o rest("(", P.Spread, ")")
          [] t.kind = "new" -> <<"new", Space>> \o kid(1, NewCallee(t)) \o IF t.op = "args" THEN rest("(", P.Spread, ")") ELSE <<>>
          [] t.kind = "template" -> kid(1, P.Member) \o <<Space, "text">>
          [] t.kind = "assertion" -> <<"<", "T", ">">> \o kid(1, P.Update)
          [] t.kind \in {"as", "satisfies"} -> kid(1, P.Relational) \o Written(t.kind) \o <<"T">>
          [] t.kind = "nonNull" -> kid(1, P.Member) \o <<"!">>
  IN  IF adds /\ t.kind # "partial" /\ Precedence(t) < precedence THEN <<"(">> \o text \o <<")">> ELSE text

\* emitExpressionStatement
InvokesFunction(t) == Skipped(t).kind = "call" /\ Skipped(Skipped(t).kids[1]).kind \in {"function", "arrow"}
StatementPrecedence(t) ==
  IF InvokesFunction(t) \/ Leftmost(t).kind \in {"function", "object"} THEN P.Parentheses ELSE P.Comma

EmitStatement(t) == Emit(t, StatementPrecedence(t), TRUE)
PlainText(t) == Emit(t, P.Comma, FALSE)

-----------------------------------------------------------------------------
(* The scanner reads as much as it can as one token.                       *)

Signs == {"+", "-"}
Twice(sign) == sign \o sign

Scanned(read, token) ==
  LET last == IF read = <<>> THEN Space ELSE Last(read) IN
  CASE last \in Signs /\ token = last -> Append(Front(read), Twice(last))
    [] last \in Signs /\ token = Twice(last) -> Front(read) \o <<Twice(last), last>>
    [] last = "1" /\ token = "." -> Append(Front(read), "1.")
    [] OTHER -> Append(read, token)

Scan(text) == SelectSeq(FoldLeft(Scanned, <<>>, text), LAMBDA token : token # Space)

-----------------------------------------------------------------------------
(* What a tree means: types and parentheses mean nothing, and the operands *)
(* of an operator the printer takes for associative may be grouped anew.   *)

Transparent == Typed \cup {"paren", "partial"}

Regroups(op, kids) ==
  op \in {",", "|", "^", "&", "*"} \/ (op = "+" /\ LiteralKind(kids[1]) # "unknown" /\ LiteralKind(kids[1]) = LiteralKind(kids[2]))

RECURSIVE Meaning(_)
Meaning(t) ==
  LET kids == [i \in DOMAIN t.kids |-> Meaning(t.kids[i])]
      operands(k) == IF k.kind = "binary" /\ k.op = t.op THEN k.kids ELSE <<k>>
  IN  IF t.kind \in Transparent THEN kids[1]
      ELSE IF t.kind = "binary" /\ (Regroups(t.op, t.kids))
      THEN Tree("binary", t.op, operands(kids[1]) \o operands(kids[2]))
      ELSE [t EXCEPT !.kids = kids]

\* checkGrammarNullishCoalesceWithLogicalExpression: ?? takes no bare || or && as an operand.
RECURSIVE Mixes(_)
Mixes(t) ==
  \/ t.kind = "binary" /\ t.op = "??" /\ \E kid \in ToSet(t.kids) : kid.kind = "binary" /\ kid.op \in {"||", "&&"}
  \/ t.kind = "binary" /\ t.op \in {"||", "&&"} /\ \E kid \in ToSet(t.kids) : kid.kind = "binary" /\ kid.op = "??"
  \/ \E kid \in ToSet(t.kids) : Mixes(kid)

MeansTheSame(text, t) ==
  LET r == ParseStatement(Scan(text)) IN r.at # 0 /\ ~Mixes(r.tree) /\ Meaning(r.tree) = Meaning(t)
================================================================================
