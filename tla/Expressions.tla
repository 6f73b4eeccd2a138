------------------------------ MODULE Expressions ------------------------------
(***************************************************************************)
(* Expressions as trees and as tokens: the precedences of internal/ast     *)
(* (precedence.go) and the expression parser of internal/parser.  Names,   *)
(* literals, types, function bodies and template texts are single tokens.  *)
(* Every expression is one of an async generator's, so that await and      *)
(* yield are keywords.                                                     *)
(***************************************************************************)
EXTENDS Integers, Sequences, SequencesExt

-----------------------------------------------------------------------------
(* Trees.  "op" is an operator, a literal's text, or "args" of a new       *)
(* expression that has an argument list; "chain" is NodeFlagsOptionalChain *)
(* and "question" tells that there is a ?. token.                          *)

Tree(kind, op, kids) == [kind |-> kind, op |-> op, kids |-> kids, chain |-> FALSE, question |-> FALSE]
Leaf(kind, text) == Tree(kind, text, <<>>)
Access(kind, kids, question, chain) == [kind |-> kind, op |-> "", kids |-> kids, chain |-> chain, question |-> question]

Assertions == {"assertion", "as", "satisfies"}
Typed == Assertions \cup {"nonNull"}
UnaryKeywords == {"typeof", "void", "delete", "await"}
Primaries == {"identifier", "number", "string", "object", "function"}

\* Variant: an expression is what it looks like.
SkippedVariant(t) == t

\* SkipPartiallyEmittedExpressions.
RECURSIVE Skipped(_)
Skipped(t) == IF t.kind = "partial" THEN Skipped(t.kids[1]) ELSE t

IsBinary(t, op) == Skipped(t).kind = "binary" /\ Skipped(t).op = op

\* GetLeftmostExpression, not stopping at calls.
RECURSIVE Leftmost(_)
Leftmost(t) ==
  IF t.kind \in {"postfix", "binary", "conditional", "template", "call", "as", "element", "property", "nonNull", "partial", "satisfies"}
  THEN Leftmost(t.kids[1]) ELSE t

-----------------------------------------------------------------------------
(* Precedences                                                             *)

P == [Comma |-> 0, Spread |-> 1, Yield |-> 2, Assignment |-> 3, Conditional |-> 4, Coalesce |-> 5, LogicalOR |-> 6,
      LogicalAND |-> 7, BitwiseOR |-> 8, BitwiseXOR |-> 9, BitwiseAND |-> 10, Equality |-> 11, Relational |-> 12,
      Shift |-> 13, Additive |-> 14, Multiplicative |-> 15, Exponentiation |-> 16, Unary |-> 17, Update |-> 18,
      LeftHandSide |-> 19, OptionalChain |-> 20, Member |-> 21, Primary |-> 22, Parentheses |-> 23, Invalid |-> -1]

\* GetBinaryOperatorPrecedence, Invalid for a token that is no such operator.
BinaryOperatorPrecedence(op) ==
  CASE op = "??" -> P.Coalesce
    [] op = "||" -> P.LogicalOR
    [] op = "&&" -> P.LogicalAND
    [] op = "|" -> P.BitwiseOR
    [] op = "^" -> P.BitwiseXOR
    [] op = "&" -> P.BitwiseAND
    [] op \in {"==", "!="} -> P.Equality
    [] op \in {"<", "as", "satisfies"} -> P.Relational
    [] op = "<<" -> P.Shift
    [] op \in {"+", "-"} -> P.Additive
    [] op \in {"*", "/"} -> P.Multiplicative
    [] op = "**" -> P.Exponentiation
    [] OTHER -> P.Invalid

\* GetExpressionPrecedence, with GetOperatorPrecedence.
Precedence(t) ==
  CASE t.kind = "spread" -> P.Spread
    [] t.kind = "yield" -> P.Yield
    [] t.kind = "arrow" -> P.Assignment
    [] t.kind = "conditional" -> P.Conditional
    [] t.kind = "binary" -> IF t.op = "," THEN P.Comma ELSE IF t.op = "=" THEN P.Assignment ELSE BinaryOperatorPrecedence(t.op)
    [] t.kind \in {"assertion", "nonNull", "prefix"} \cup UnaryKeywords -> P.Unary
    [] t.kind = "postfix" -> P.Update
    [] t.kind \in {"property", "element", "call"} -> IF t.chain THEN P.OptionalChain ELSE P.Member
    [] t.kind = "new" -> IF t.op = "args" THEN P.Member ELSE P.LeftHandSide
    [] t.kind = "template" -> P.Member
    [] t.kind \in {"as", "satisfies"} -> P.Relational
    [] t.kind \in Primaries -> P.Primary
    [] t.kind = "paren" -> P.Parentheses
    [] OTHER -> P.Invalid

-----------------------------------------------------------------------------
(* The parser.  A result is a tree and the index of the token after it;    *)
(* where the parser reports a syntax error, the model's is Failed.         *)

Failed == [at |-> 0, tree |-> Leaf("identifier", "")]
Read(at, tree) == [at |-> at, tree |-> tree]
Token(s, i) == IF i \in DOMAIN s THEN s[i] ELSE "end"

\* A tree made of a result, if there is one, "more" tokens after it.
Made(r, more, tree) == IF r.at = 0 THEN Failed ELSE Read(r.at + more, tree)

\* The result is followed by the token.
Then(s, r, token, tree) == IF r.at = 0 \/ Token(s, r.at) # token THEN Failed ELSE Read(r.at + 1, tree)

IsLeftHandSide(t) == t.kind \in {"property", "element", "call", "new", "template", "paren", "nonNull"} \cup Primaries

\* tryReparseOptionalChain: an optional chain goes on through non-null assertions.
RECURSIVE InChain(_)
InChain(t) == t.chain \/ (t.kind = "nonNull" /\ InChain(t.kids[1]))

\* Variant: only what the ?. is applied to is of the chain.
ReflaggedVariant(t) == t

RECURSIVE Reflagged(_)
Reflagged(t) == IF t.kind = "nonNull" /\ InChain(t) THEN [t EXCEPT !.chain = TRUE, !.kids = <<Reflagged(t.kids[1])>>] ELSE t

Accessed(kind, t, rest, question) == Access(kind, <<Reflagged(t)>> \o rest, question, question \/ InChain(t))

\* The functions of the parser call one another: Parse is all of them.
RECURSIVE Parse(_, _, _, _)
From(i) == Read(i, Leaf("identifier", ""))
ParseExpression(s, i) == Parse("expression", s, From(i), 0)
CommaRest(s, left) == Parse("commas", s, left, 0)
ParseAssignment(s, i) == Parse("assignment", s, From(i), 0)
ParseBinary(s, i, precedence) == Parse("binary", s, From(i), precedence)
BinaryRest(s, precedence, left) == Parse("operators", s, left, precedence)
ParseUnary(s, i) == Parse("unary", s, From(i), 0)
ParseSimpleUnary(s, i) == Parse("simple unary", s, From(i), 0)
ParseUpdate(s, i) == Parse("update", s, From(i), 0)
ParseLeftHandSide(s, i) == Parse("left hand side", s, From(i), 0)
MemberRest(s, left, allowChain) == Parse(IF allowChain THEN "members in a chain" ELSE "members", s, left, 0)
CallRest(s, left) == Parse("calls", s, left, 0)
ParsePrimary(s, i) == Parse("primary", s, From(i), 0)

\* parseExpression
Expression(s, i) == CommaRest(s, ParseAssignment(s, i))

Comma(s, left) ==
  IF left.at = 0 \/ Token(s, left.at) # "," THEN left
  ELSE LET right == ParseAssignment(s, left.at + 1)
       IN  CommaRest(s, Made(right, 0, Tree("binary", ",", <<left.tree, right.tree>>)))

\* parseConditionalExpressionRest
ConditionalRest(s, left) ==
  IF left.at = 0 \/ Token(s, left.at) # "?" THEN left
  ELSE LET yes == ParseAssignment(s, left.at + 1)
           no == ParseAssignment(s, yes.at + 1)
       IN  IF yes.at = 0 \/ Token(s, yes.at) # ":" THEN Failed
           ELSE Made(no, 0, Tree("conditional", "", <<left.tree, yes.tree, no.tree>>))

\* The tokens an expression can begin with.
StartsExpression(token) ==
  token \in {"x", "1", "1.", "s", "{}", "function", "(", "<", "new", "+", "-", "!", "++", "--", "yield"} \cup UnaryKeywords

\* parseYieldExpression
ParseYield(s, i) ==
  IF ~StartsExpression(Token(s, i + 1)) THEN Read(i + 1, Leaf("yield", ""))
  ELSE LET r == ParseAssignment(s, i + 1) IN Made(r, 0, Tree("yield", "", <<r.tree>>))

\* parseSimpleArrowFunctionExpression; a body that begins with a brace is a block.
ArrowRest(s, i) ==
  IF Token(s, i) = "{}" THEN Failed
  ELSE LET body == ParseAssignment(s, i) IN Made(body, 0, Tree("arrow", "", <<body.tree>>))

AssignmentRest(s, left) ==
  IF left.at = 0 THEN Failed
  ELSE IF left.tree.kind = "identifier" /\ Token(s, left.at) = "=>" THEN ArrowRest(s, left.at + 1)
  ELSE IF IsLeftHandSide(left.tree) /\ Token(s, left.at) = "="
       THEN LET right == ParseAssignment(s, left.at + 1)
            IN  Made(right, 0, Tree("binary", "=", <<left.tree, right.tree>>))
  ELSE ConditionalRest(s, left)

\* parseAssignmentExpressionOrHigher
AssignmentExpression(s, i) ==
  IF Token(s, i) = "yield" THEN ParseYield(s, i) ELSE AssignmentRest(s, ParseBinary(s, i, P.Comma))

\* parseBinaryExpressionOrHigher
Binary(s, i, precedence) == BinaryRest(s, precedence, ParseUnary(s, i))

\* Whether an operator is taken at a precedence: ** is right associative.
Takes(op, precedence) ==
  IF op = "**" THEN BinaryOperatorPrecedence(op) >= precedence ELSE BinaryOperatorPrecedence(op) > precedence

\* parseBinaryExpressionRest
OperatorsRest(s, precedence, left) ==
  LET op == Token(s, left.at) IN
  IF left.at = 0 \/ ~Takes(op, precedence) THEN left
  ELSE IF op \in {"as", "satisfies"}
  THEN IF Token(s, left.at + 1) # "T" THEN Failed
       ELSE BinaryRest(s, precedence, Read(left.at + 2, Tree(op, "", <<left.tree>>)))
  ELSE LET right == ParseBinary(s, left.at + 1, BinaryOperatorPrecedence(op))
       IN  BinaryRest(s, precedence, Made(right, 0, Tree("binary", op, <<left.tree, right.tree>>)))

SimpleUnaryStart == {"+", "-", "!", "<"} \cup UnaryKeywords

\* parseUnaryExpressionOrHigher: a unary expression is an error before **.
UnaryExpression(s, i) ==
  IF Token(s, i) \in SimpleUnaryStart
  THEN LET r == ParseSimpleUnary(s, i) IN IF Token(s, r.at) = "**" THEN Failed ELSE r
  ELSE LET r == ParseUpdate(s, i) IN IF Token(s, r.at) = "**" THEN BinaryRest(s, P.Exponentiation, r) ELSE r

\* parseSimpleUnaryExpression
SimpleUnary(s, i) ==
  LET token == Token(s, i)
      at == IF token = "<" THEN i + 3 ELSE i + 1
      r == ParseSimpleUnary(s, at)
  IN  CASE token \in {"+", "-", "!"} -> Made(r, 0, Tree("prefix", token, <<r.tree>>))
        [] token \in UnaryKeywords -> Made(r, 0, Tree(token, "", <<r.tree>>))
        [] token = "<" -> IF Token(s, i + 1) = "T" /\ Token(s, i + 2) = ">"
                          THEN Made(r, 0, Tree("assertion", "", <<r.tree>>)) ELSE Failed
        [] OTHER -> ParseUpdate(s, i)

\* parseUpdateExpression
UpdateExpression(s, i) ==
  IF Token(s, i) \in {"++", "--"}
  THEN LET r == ParseLeftHandSide(s, i + 1) IN Made(r, 0, Tree("prefix", Token(s, i), <<r.tree>>))
  ELSE LET r == ParseLeftHandSide(s, i)
       IN  IF Token(s, r.at) \in {"++", "--"} THEN Read(r.at + 1, Tree("postfix", Token(s, r.at), <<r.tree>>)) ELSE r

\* parseLeftHandSideExpressionOrHigher
LeftHandSide(s, i) == CallRest(s, ParsePrimary(s, i))

\* parseMemberExpressionRest.  An element's argument follows its bracket.
Member(s, left, allowChain) ==
  LET token == Token(s, left.at)
      question == allowChain /\ token = "?." /\ Token(s, left.at + 1) \in {"x", "["}
      at == IF question THEN left.at + 1 ELSE left.at
      argument == ParseExpression(s, at + 1)
  IN  IF left.at = 0 THEN Failed
      ELSE IF (question /\ Token(s, at) = "x") \/ token = "."
      THEN IF ~question /\ Token(s, at + 1) # "x" THEN Failed
           ELSE MemberRest(s, Read(IF question THEN at + 1 ELSE at + 2, Accessed("property", left.tree, <<>>, question)), allowChain)
      ELSE IF Token(s, at) = "["
      THEN MemberRest(s, Then(s, argument, "]", Accessed("element", left.tree, <<argument.tree>>, question)), allowChain)
      ELSE IF token = "text" THEN MemberRest(s, Read(left.at + 1, Tree("template", "", <<left.tree>>)), allowChain)
      ELSE IF token = "!" THEN MemberRest(s, Read(left.at + 1, Tree("nonNull", "", <<left.tree>>)), allowChain)
      ELSE left

\* parseArgumentList, of at most one argument: the argument follows the callee.
ParseArguments(s, i) ==
  IF Token(s, i) # "(" THEN Failed
  ELSE IF Token(s, i + 1) = ")" THEN Read(i + 2, Tree("list", "", <<>>))
  ELSE IF Token(s, i + 1) = "..."
       THEN LET r == ParseAssignment(s, i + 2) IN Then(s, r, ")", Tree("list", "", <<Tree("spread", "", <<r.tree>>)>>))
  ELSE LET r == ParseAssignment(s, i + 1) IN Then(s, r, ")", Tree("list", "", <<r.tree>>))

\* parseCallExpressionRest
Call(s, first) ==
  LET left == MemberRest(s, first, TRUE)
      question == Token(s, left.at) = "?."
      at == IF question THEN left.at + 1 ELSE left.at
      arguments == ParseArguments(s, at)
  IN  IF left.at = 0 THEN Failed
      ELSE IF Token(s, at) = "("
      THEN CallRest(s, Made(arguments, 0, Accessed("call", left.tree, arguments.tree.kids, question)))
      ELSE IF question THEN Failed ELSE left

\* parseNewExpressionOrNewDotTarget
NewRest(s, callee) ==
  IF callee.at = 0 \/ Token(s, callee.at) = "?." THEN Failed
  ELSE IF Token(s, callee.at) = "("
       THEN LET r == ParseArguments(s, callee.at) IN Made(r, 0, Tree("new", "args", <<callee.tree>> \o r.tree.kids))
  ELSE Read(callee.at, Tree("new", "", <<callee.tree>>))

\* parsePrimaryExpression
PrimaryExpression(s, i) ==
  LET token == Token(s, i) IN
  CASE token = "x" -> Read(i + 1, Leaf("identifier", "x"))
    [] token \in {"1", "1."} -> Read(i + 1, Leaf("number", "1"))
    [] token = "s" -> Read(i + 1, Leaf("string", "s"))
    [] token = "{}" -> Read(i + 1, Leaf("object", "{}"))
    [] token = "function" -> Read(i + 1, Leaf("function", "function"))
    [] token = "(" -> LET r == ParseExpression(s, i + 1) IN Then(s, r, ")", Tree("paren", "", <<r.tree>>))
    [] token = "new" -> NewRest(s, MemberRest(s, ParsePrimary(s, i + 1), FALSE))
    [] OTHER -> Failed

Parse(rule, s, left, precedence) ==
  CASE rule = "expression" -> Expression(s, left.at)
    [] rule = "commas" -> Comma(s, left)
    [] rule = "assignment" -> AssignmentExpression(s, left.at)
    [] rule = "binary" -> Binary(s, left.at, precedence)
    [] rule = "operators" -> OperatorsRest(s, precedence, left)
    [] rule = "unary" -> UnaryExpression(s, left.at)
    [] rule = "simple unary" -> SimpleUnary(s, left.at)
    [] rule = "update" -> UpdateExpression(s, left.at)
    [] rule = "left hand side" -> LeftHandSide(s, left.at)
    [] rule = "members in a chain" -> Member(s, left, TRUE)
    [] rule = "members" -> Member(s, left, FALSE)
    [] rule = "calls" -> Call(s, left)
    [] rule = "primary" -> PrimaryExpression(s, left.at)

\* An expression statement, all of the tokens: a brace begins a block, function a declaration.
ParseStatement(s) ==
  IF Token(s, 1) \in {"{}", "function"} THEN Failed
  ELSE LET r == ParseExpression(s, 1) IN IF r.at = Len(s) + 1 THEN r ELSE Failed
================================================================================
