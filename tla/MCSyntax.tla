------------------------------- MODULE MCSyntax -------------------------------
(***************************************************************************)
(* Every expression of a few levels, as the input of the compiler: one     *)
(* state for each.                                                         *)
(***************************************************************************)
EXTENDS ExpressionPrinter

CONSTANT Operators  \* the binary operators

VARIABLES
  input,  \* the expression
  level,  \* its operators, one within the other
  way     \* by which of the two actions it grows

\* An assignment's target.
Target(t) == t.kind = "identifier" \/ (t.kind \in {"property", "element"} /\ ~t.chain)

RECURSIVE Suspends(_)
Suspends(t) == t.kind \in {"yield", "await"} \/ \E kid \in ToSet(t.kids) : Suspends(kid)

\* What can stand in the text of a program.
Valid(t) ==
  /\ t.kind = "binary" /\ t.op = "=" => Target(t.kids[1])
  /\ t.op \in {"++", "--"} => Target(t.kids[1])
  /\ t.kind = "arrow" => ~Suspends(t.kids[1])

\* A chain begins with a ?. and goes on through what it is applied to.
Chains(kind, kids) ==
  {Access(kind, kids, q, TRUE) : q \in {TRUE, kids[1].chain} \ {FALSE}} \cup {Access(kind, kids, FALSE, FALSE)}
  \cup IF kids[1].chain THEN {Access(kind, kids, FALSE, TRUE)} ELSE {}

\* The expressions of one operator that has the operands kids.
Level(operators, kids) ==
  {t \in
    CASE Len(kids) = 1 ->
           {Tree(kind, "", kids) : kind \in UnaryKeywords \cup {"arrow", "yield", "template", "new"}} \cup
           {Tree("prefix", op, kids) : op \in {"+", "-", "!", "++", "--"}} \cup
           {Tree("postfix", op, kids) : op \in {"++", "--"}} \cup {Tree("new", "args", kids)} \cup
           Chains("property", kids) \cup Chains("call", kids)
      [] Len(kids) = 2 ->
           {Tree("binary", op, kids) : op \in operators} \cup Chains("element", kids) \cup
           LET arguments == {kids, <<kids[1], Tree("spread", "", <<kids[2]>>)>>}
           IN  {Tree("new", "args", k) : k \in arguments} \cup UNION {Chains("call", k) : k \in arguments}
      [] Len(kids) = 3 -> {Tree("conditional", "", kids)} :
   Valid(t)}

\* Lists of one to three operands, one of which is t; the others are small.
Among(t, small) ==
  {<<t>>} \cup {<<t, s>> : s \in small} \cup {<<s, t>> : s \in small} \cup
  UNION {{<<t, s, s>>, <<s, t, s>>, <<s, s, t>>} : s \in small}

X == Leaf("identifier", "x")
One == Leaf("number", "1")
Leaves == {X, One, Leaf("string", "s"), Leaf("object", "{}"), Leaf("function", "function"), Leaf("yield", "")}

\* Every operator with every operator as an operand.
Operate ==
  /\ level = 0 \/ (level = 1 /\ way = "operate")
  /\ \E kids \in Among(input, {X} \cup (IF input = One \/ input.op = "+" THEN {One} ELSE {})) : input' \in Level(Operators, kids)
  /\ level' = level + 1
  /\ way' = "operate"

\* Longer ways down to what the expression begins with.
Begin ==
  /\ level = 0 \/ (level < 3 /\ way = "begin")
  /\ input' \in
       {t \in Chains("property", <<input>>) \cup Chains("call", <<input>>) \cup
              {Tree("new", op, <<input>>) : op \in {"", "args"}} \cup
              {Tree(kind, "", <<input>>) : kind \in {"template", "arrow"}} \cup
              {Tree("prefix", "-", <<input>>)} \cup {Tree("binary", op, <<input, X>>) : op \in {",", "-"}} :
        Valid(t)}
  /\ level' = level + 1
  /\ way' = "begin"

SyntaxInit == input \in Leaves /\ level = 0 /\ way = "any"
SyntaxNext == Operate \/ Begin

-----------------------------------------------------------------------------
(* The source: every operand that is not a name or a literal is cast,      *)
(* (operand as T), or, where the chain goes on, asserted not to be null.   *)

RECURSIVE Cast(_)
Cast(t) ==
  LET operand(i) ==
        LET kid == t.kids[i]
            goesOn == i = 1 /\ t.chain /\ kid.chain
            cast(u) == LET inner == IF Precedence(u) < P.Relational THEN Tree("paren", "", <<Cast(u)>>) ELSE Cast(u)
                       IN  Tree("paren", "", <<Tree("as", "", <<inner>>)>>)
        IN  IF kid.kind \in {"identifier", "number", "string"} THEN kid
            ELSE IF kid.kind = "spread" THEN [kid EXCEPT !.kids = <<cast(kid.kids[1])>>]
            ELSE IF goesOn THEN [Tree("nonNull", "", <<Cast(kid)>>) EXCEPT !.chain = TRUE]
            ELSE cast(kid)
  IN  [t EXCEPT !.kids = [i \in DOMAIN t.kids |-> operand(i)]]

\* Two shapes that the code prints wrongly, so that the properties leave them out: a sign before
\* (-x as T), which lost its parentheses (-(-x as T) is printed --x, since emitPrefixUnaryExpression
\* does not skip what is partially emitted); and a new of what only begins with a call, for which
\* no parentheses are added.
RECURSIVE CallsWithin(_)
CallsWithin(t) ==
  \/ t.kind = "call"
  \/ t.kind \in {"property", "element", "template", "partial"} /\ CallsWithin(t.kids[1])

RECURSIVE GoesWrong(_)
GoesWrong(t) ==
  \/ t.kind = "new" /\ CallsWithin(t.kids[1]) /\ Skipped(t.kids[1]).kind # "call"
  \/ /\ t.kind = "prefix" /\ t.kids[1].kind = "partial"
     /\ SignSpace([t EXCEPT !.kids = <<Skipped(t.kids[1])>>]) # <<>>
  \/ \E kid \in ToSet(t.kids) : GoesWrong(kid)

-----------------------------------------------------------------------------

\* The parser reads from a cast expression's text the tree it is the text of: what is parenthesized,
\* what an operator applies to and where an optional chain ends are as they were written.
SourceIsRead ==
  level > 0 => LET r == ParseStatement(Scan(PlainText(Cast(input)))) IN r.at # 0 /\ r.tree = Cast(input)

\* The text the printer writes of a tree without parentheses, as the transformers make them, is
\* read as that tree: parentheses and spaces are put wherever the text would mean something else.
PrintKeepsMeaning == level > 0 => GoesWrong(input) \/ MeansTheSame(EmitStatement(input), input)

\* An expression means without its types what it meant with them: the parentheses that go with a
\* cast are put back where they are needed.
ErasureKeepsMeaning ==
  LET emitted == Erase(Cast(input)) IN level > 0 => GoesWrong(emitted) \/ MeansTheSame(EmitStatement(emitted), input)

\* What is emitted means what was written, from a tree and from a text.
EmitKeepsMeaning == PrintKeepsMeaning /\ ErasureKeepsMeaning
=============================================================================
