------------------------------ MODULE FlowGraph ------------------------------
(***************************************************************************)
(* The control flow graph that internal/binder builds of one function body *)
(* while it walks the statements.  The program is chosen as the walk goes: *)
(* at each place a statement can stand, any statement may.  Beside the     *)
(* graph runs what the language says: whether control can get to that      *)
(* place, with both outcomes of a condition that is not a literal, and     *)
(* with an exception anywhere in a try block.                              *)
(***************************************************************************)
EXTENDS Integers, Sequences, FiniteSets

CONSTANTS
  Kinds,          \* the kinds of statements programs are made of
  Conditions,     \* of "true", "false", "narrowing", "plain"
  MaxStatements,  \* bound on the statements of a program
  MaxDepth,       \* bound on their nesting
  MaxClauses      \* bound on the clauses of a switch

FlowAssumption ==
  /\ Kinds \subseteq {"plain", "assign", "fail", "return", "throw", "break", "continue", "if", "while",
                      "do", "for", "forof", "switch", "try", "label", "block"}
  /\ Conditions \subseteq {"true", "false", "narrowing", "plain"}
  /\ {MaxStatements, MaxDepth, MaxClauses} \subseteq Nat

VARIABLES
  flows,         \* the flow nodes made so far; a node is named by its index
  currentFlow,
  returnTarget, exceptionTarget,   \* currentReturnTarget and currentExceptionTarget, or 0
  frames,        \* the statements being bound, the innermost last
  statements,    \* the flow node of each statement bound, and whether control gets there
  live,          \* control can get to the current place
  jumps,         \* the jumps made by statements control can get to
  blocked,       \* a jump was stopped by a finally block that does not end
  phase          \* "bind", then "check"

binderVars == <<flows, currentFlow, returnTarget, exceptionTarget, frames>>
semanticVars == <<statements, live, jumps, blocked>>
flowVars == <<binderVars, semanticVars, phase>>

Unreachable == 1
Start == 2
Nil == 0

-----------------------------------------------------------------------------
(* Flow nodes.  "ante" is the antecedent of a node that has one, "list"    *)
(* the antecedents of a label, last added first, or those a ReduceLabel    *)
(* puts in the place of "target"'s.                                        *)

Node(kind, ante, list, target) == [kind |-> kind, ante |-> ante, list |-> list, target |-> target, refs |-> 0]
Label(kind) == Node(kind, Nil, <<>>, Nil)

\* setFlowNodeReferenced: from the second reference on a node is Shared.
Referenced(fs, n) == [fs EXCEPT ![n].refs = IF @ < 2 THEN @ + 1 ELSE @]
Shared(n) == flows[n].refs = 2

Has(seq, x) == \E i \in DOMAIN seq : seq[i] = x

\* Variant: the label is not asked whether it has the antecedent, and the new one is the last.
AddAntecedentVariant(fs, label, n) ==
  IF fs[n].kind = "unreachable" THEN fs
  ELSE Referenced([fs EXCEPT ![label].list = Append(@, n)], n)

AddAntecedent(fs, label, n) ==
  IF fs[n].kind = "unreachable" \/ Has(fs[label].list, n) THEN fs
  ELSE Referenced([fs EXCEPT ![label].list = <<n>> \o @], n)

FinishLabel(fs, label) ==
  CASE Len(fs[label].list) = 0 -> Unreachable
    [] Len(fs[label].list) = 1 -> fs[label].list[1]
    [] OTHER -> label

\* createFlowMutation: an exception may come after it, and find the variable changed.
Mutated(fs, n) ==
  LET made == Append(Referenced(fs, n), Node("assignment", n, <<>>, Nil))
  IN  IF exceptionTarget = Nil THEN made ELSE AddAntecedent(made, exceptionTarget, Len(made))

\* createFlowCondition, and the label it leads to.
Branch(fs, n, condition, outcome, label) ==
  CASE fs[n].kind = "unreachable" \/ condition = (IF outcome THEN "false" ELSE "true") -> fs
    [] condition = "narrowing" ->
         LET made == Append(Referenced(fs, n), Node("condition", n, <<>>, Nil)) IN AddAntecedent(made, label, Len(made))
    [] OTHER -> AddAntecedent(fs, label, n)

\* bindCondition of an expression without logical operators.
Condition(fs, n, condition, trueLabel, falseLabel) ==
  Branch(Branch(fs, n, condition, TRUE, trueLabel), n, condition, FALSE, falseLabel)

MayBe(outcome, condition) == condition # (IF outcome THEN "false" ELSE "true")

-----------------------------------------------------------------------------
Depth == Len(frames)
Top == frames[Depth]
Push(frame) == frames' = Append(frames, frame)
Pop == frames' = SubSeq(frames, 1, Depth - 1)

\* A statement may stand here: the statement of a label is one, everything else has a list.
Place == phase = "bind" /\ Len(statements) < MaxStatements /\ (Depth > 0 /\ Top.kind = "label" => Top.count = Len(statements))

\* bindChildren notes the flow of the statement.
Note == statements' = Append(statements, [flow |-> currentFlow, live |-> live])

Stands(kind) == Place /\ kind \in Kinds /\ flows[currentFlow].kind # "unreachable" /\ Note /\ UNCHANGED phase

\* The body of a statement begins, with the current flow at start.
Opens(kind) == Stands(kind) /\ Depth < MaxDepth /\ UNCHANGED <<returnTarget, exceptionTarget, jumps, blocked>>

Init ==
  /\ flows = <<Label("unreachable"), Label("start"), Label("branch")>>
  /\ currentFlow = Start
  /\ returnTarget \in {Nil, 3}     \* a constructor has one, other functions do not
  /\ exceptionTarget = Nil
  /\ frames = <<>> /\ statements = <<>>
  /\ live = TRUE /\ jumps = {} /\ blocked = FALSE
  /\ phase = "bind"

-----------------------------------------------------------------------------
(* Statements without a body.                                              *)

\* checkUnreachable: nothing in dead code has flow nodes of its own.
BindDead ==
  /\ Place /\ flows[currentFlow].kind = "unreachable"
  /\ Note
  /\ UNCHANGED <<binderVars, live, jumps, blocked, phase>>

BindPlain ==
  /\ Stands("plain")
  /\ UNCHANGED <<binderVars, live, jumps, blocked>>

BindAssign ==
  /\ Stands("assign")
  /\ flows' = Mutated(flows, currentFlow)
  /\ currentFlow' = Len(flows) + 1
  /\ UNCHANGED <<returnTarget, exceptionTarget, frames, live, jumps, blocked>>

\* A call of a function that returns never: the binder does not know that, the checker does.
BindFail ==
  /\ Stands("fail")
  /\ flows' = Append(Referenced(flows, currentFlow), Node("call", currentFlow, <<>>, Nil))
  /\ currentFlow' = Len(flows) + 1
  /\ live' = FALSE
  /\ UNCHANGED <<returnTarget, exceptionTarget, frames, jumps, blocked>>

Leaves(target) ==
  /\ jumps' = IF live THEN jumps \cup {target} ELSE jumps
  /\ live' = FALSE
  /\ currentFlow' = Unreachable
  /\ UNCHANGED <<returnTarget, exceptionTarget, frames, blocked>>

BindReturn ==
  /\ Stands("return")
  /\ flows' = IF returnTarget = Nil THEN flows ELSE AddAntecedent(flows, returnTarget, currentFlow)
  /\ Leaves(<<"return", 0>>)

BindThrow ==
  /\ Stands("throw")
  /\ UNCHANGED flows
  /\ Leaves(<<"throw", 0>>)

Loops == {d \in 1..Depth : frames[d].kind \in {"while", "do", "for", "forof"}}
Breakable == Loops \cup {d \in 1..Depth : frames[d].kind = "switch"}
Labels == {d \in 1..Depth : frames[d].kind = "label"}
LastOf(S) == {d \in S : \A e \in S : e <= d}

\* Without a label to the innermost loop or switch, with one to any label.
BindBreak ==
  /\ Stands("break")
  /\ \E d \in LastOf(Breakable) \cup Labels :
       /\ flows' = AddAntecedent(flows, frames[d].post, currentFlow)
       /\ Leaves(<<"break", d>>)

\* A label's continue target is that of the loop it stands directly before.
LabelledLoops == {d \in Loops : d > 1 /\ frames[d-1].kind = "label"}

BindContinue ==
  /\ Stands("continue")
  /\ \E d \in LastOf(Loops) \cup LabelledLoops :
       /\ flows' = AddAntecedent(flows, frames[d].again, currentFlow)
       /\ Leaves(<<"continue", d>>)

-----------------------------------------------------------------------------
(* Statements with a body: an action where it begins and one where it ends *)

Made(n) == Len(flows) + n

Loop(kind, condition, again, post) ==
  [kind |-> kind, condition |-> condition, top |-> currentFlow, again |-> again, back |-> again, post |-> post, entry |-> live]

EndsWith(isLive, d) ==
  /\ live' = (isLive \/ <<"break", d>> \in jumps)
  /\ jumps' = jumps \ {<<"break", d>>, <<"continue", d>>}

\* The innermost statement's list of statements is over.
Closes(kind) == phase = "bind" /\ Depth > 0 /\ Top.kind = kind /\ UNCHANGED <<statements, phase>>

BeginIf ==
  /\ Opens("if")
  /\ \E c \in Conditions :
       LET fs == Condition(flows \o <<Label("branch"), Label("branch"), Label("branch")>>, currentFlow, c, Made(1), Made(2))
       IN  /\ flows' = fs /\ currentFlow' = FinishLabel(fs, Made(1))
           /\ Push([kind |-> "then", els |-> Made(2), post |-> Made(3), elseLive |-> live /\ MayBe(FALSE, c)])
           /\ live' = (live /\ MayBe(TRUE, c))

EndThen ==
  /\ Closes("then")
  /\ flows' = AddAntecedent(flows, Top.post, currentFlow)
  /\ currentFlow' = FinishLabel(flows, Top.els)
  /\ frames' = [frames EXCEPT ![Depth] = [kind |-> "else", post |-> Top.post, thenLive |-> live]]
  /\ live' = Top.elseLive
  /\ UNCHANGED <<returnTarget, exceptionTarget, jumps, blocked>>

EndElse ==
  /\ Closes("else")
  /\ flows' = AddAntecedent(flows, Top.post, currentFlow)
  /\ currentFlow' = FinishLabel(flows', Top.post)
  /\ live' = (live \/ Top.thenLive)
  /\ Pop /\ UNCHANGED <<returnTarget, exceptionTarget, jumps, blocked>>

\* while and for: the loop label is before the condition.
BeginWhile ==
  \E kind \in {"while", "for"} :
    /\ Opens(kind)
    /\ \E c \in Conditions :
         LET fs == Condition(flows \o <<Label("loop"), Label("branch"), Label("branch")>>, Made(1), c, Made(2), Made(3))
         IN  /\ flows' = fs /\ currentFlow' = FinishLabel(fs, Made(2))
             /\ Push(Loop(kind, c, Made(1), Made(3)))
             /\ live' = (live /\ MayBe(TRUE, c))

\* Variant: the way round is added last, and is what the walk follows.
CloseLoopVariant(fs, n) == AddAntecedent(AddAntecedent(fs, Top.again, Top.top), Top.again, n)

\* The way round is added first, the way in last: it is the head of the label's list.
CloseLoop(fs, n) == AddAntecedent(AddAntecedent(fs, Top.again, n), Top.again, Top.top)

EndWhile ==
  /\ Closes("while")
  /\ flows' = CloseLoop(flows, currentFlow)
  /\ currentFlow' = FinishLabel(flows', Top.post)
  /\ EndsWith(Top.entry /\ MayBe(FALSE, Top.condition), Depth)
  /\ Pop /\ UNCHANGED <<returnTarget, exceptionTarget, blocked>>

\* The incrementor assigns, if control gets there.
EndFor ==
  /\ Closes("for")
  /\ flows' = IF flows[currentFlow].kind = "unreachable" THEN CloseLoop(flows, currentFlow)
              ELSE CloseLoop(Mutated(flows, currentFlow), Len(flows) + 1)
  /\ currentFlow' = FinishLabel(flows', Top.post)
  /\ EndsWith(Top.entry /\ MayBe(FALSE, Top.condition), Depth)
  /\ Pop /\ UNCHANGED <<returnTarget, exceptionTarget, blocked>>

\* for in and for of: the loop may end before the variable is assigned.
BeginForOf ==
  /\ Opens("forof")
  /\ LET labels == flows \o <<Label("loop"), Label("branch")>>
         fs == Mutated(AddAntecedent(labels, Made(2), Made(1)), Made(1))
     IN  flows' = fs /\ currentFlow' = Len(labels) + 1
  /\ Push(Loop("forof", "plain", Made(1), Made(2)))
  /\ UNCHANGED live

EndForOf ==
  /\ Closes("forof")
  /\ flows' = CloseLoop(flows, currentFlow)
  /\ currentFlow' = FinishLabel(flows', Top.post)
  /\ EndsWith(Top.entry, Depth)
  /\ Pop /\ UNCHANGED <<returnTarget, exceptionTarget, blocked>>

BeginDo ==
  /\ Opens("do")
  /\ flows' = flows \o <<Label("loop"), Label("branch"), Label("branch")>>
  /\ currentFlow' = Made(1)
  /\ \E c \in Conditions : Push([Loop("do", c, Made(2), Made(3)) EXCEPT !.back = Made(1)])
  /\ UNCHANGED live

EndDo ==
  /\ Closes("do")
  /\ LET fs == AddAntecedent(flows, Top.again, currentFlow)
         test == FinishLabel(fs, Top.again)
     IN  /\ flows' = AddAntecedent(Condition(fs, test, Top.condition, Top.back, Top.post), Top.back, Top.top)
         /\ currentFlow' = FinishLabel(flows', Top.post)
  /\ EndsWith((live \/ <<"continue", Depth>> \in jumps) /\ MayBe(FALSE, Top.condition), Depth)
  /\ Pop /\ UNCHANGED <<returnTarget, exceptionTarget, blocked>>

BeginLabelled ==
  /\ Opens("label")
  /\ flows' = Append(flows, Label("branch"))
  /\ Push([kind |-> "label", post |-> Made(1), count |-> Len(statements) + 1])
  /\ UNCHANGED <<currentFlow, live>>

EndLabelled ==
  /\ Closes("label") /\ Len(statements) > Top.count
  /\ flows' = AddAntecedent(flows, Top.post, currentFlow)
  /\ currentFlow' = FinishLabel(flows', Top.post)
  /\ EndsWith(live, Depth)
  /\ Pop /\ UNCHANGED <<returnTarget, exceptionTarget, blocked>>

\* A block, where it is of interest: after a label.
BeginBlock ==
  /\ Opens("block") /\ Depth > 0 /\ Top.kind = "label"
  /\ Push([kind |-> "block"])
  /\ UNCHANGED <<flows, currentFlow, live>>

EndBlock ==
  /\ Closes("block")
  /\ Pop /\ UNCHANGED <<flows, currentFlow, returnTarget, exceptionTarget, live, jumps, blocked>>

-----------------------------------------------------------------------------
(* switch.  Clauses without statements are bound with the next one that has *)
(* some, as one clause; full says that the last clause had statements.     *)

BeginSwitch ==
  /\ Opens("switch")
  /\ flows' = Append(flows, Label("branch"))
  /\ \E narrowing \in BOOLEAN :
       Push([kind |-> "switch", post |-> Made(1), pre |-> currentFlow, narrowing |-> narrowing, entry |-> live,
             hasDefault |-> FALSE, clauses |-> 0, full |-> TRUE])
  /\ UNCHANGED <<currentFlow, live>>

\* What falls through is where the last clause ended; before the first, nothing does.
BeginClause ==
  /\ phase = "bind" /\ Depth > 0 /\ Top.kind = "switch" /\ Top.full /\ Top.clauses < MaxClauses /\ UNCHANGED <<statements, phase>>
  /\ LET clause == Append(Referenced(flows, Top.pre), Node("switchClause", Top.pre, <<>>, Nil))
         fs == Append(IF Top.narrowing THEN clause ELSE flows, Label("branch"))
         pre == IF Top.narrowing THEN Len(clause) ELSE Top.pre
         through == IF Top.clauses = 0 THEN Unreachable ELSE currentFlow
     IN  /\ flows' = AddAntecedent(AddAntecedent(fs, Len(fs), pre), Len(fs), through)
         /\ currentFlow' = FinishLabel(flows', Len(fs))
  /\ \E default \in BOOLEAN :
       frames' = Append([frames EXCEPT ![Depth].clauses = @ + 1, ![Depth].hasDefault = @ \/ default], [kind |-> "clause", first |-> Len(statements)])
  /\ live' = (Top.entry \/ (Top.clauses > 0 /\ live))
  /\ UNCHANGED <<returnTarget, exceptionTarget, jumps, blocked>>

EndClause ==
  /\ Closes("clause")
  /\ frames' = [SubSeq(frames, 1, Depth - 1) EXCEPT ![Depth - 1].full = Len(statements) > Top.first]
  /\ UNCHANGED <<flows, currentFlow, returnTarget, exceptionTarget, live, jumps, blocked>>

EndSwitch ==
  /\ Closes("switch")
  /\ LET fs == AddAntecedent(flows, Top.post, currentFlow)
         unmatched == Append(Referenced(fs, Top.pre), Node("switchClause", Top.pre, <<>>, Nil))
     IN  flows' = IF Top.hasDefault THEN fs ELSE AddAntecedent(unmatched, Top.post, Len(unmatched))
  /\ currentFlow' = FinishLabel(flows', Top.post)
  /\ EndsWith(live \/ (Top.entry /\ ~Top.hasDefault), Depth)
  /\ Pop /\ UNCHANGED <<returnTarget, exceptionTarget, blocked>>

-----------------------------------------------------------------------------
(* try, with a catch clause, a finally block or both.                      *)

BeginTry ==
  /\ Stands("try") /\ Depth < MaxDepth
  /\ \E has \in {[catch |-> c, finally |-> f] : c \in BOOLEAN, f \in BOOLEAN} :
       /\ has.catch \/ has.finally
       /\ flows' = AddAntecedent(flows \o <<Label("branch"), Label("branch"), Label("branch")>>, Made(3), currentFlow)
       /\ Push([kind |-> "try", has |-> has, normal |-> Made(1), return |-> Made(2), exception |-> Made(3),
                outerReturn |-> returnTarget, outerException |-> exceptionTarget,
                label |-> Nil, entry |-> live, ends |-> FALSE, before |-> jumps, inside |-> {}])
       /\ returnTarget' = IF has.finally THEN Made(2) ELSE returnTarget
       /\ exceptionTarget' = Made(3)
  /\ UNCHANGED <<currentFlow, live, jumps, blocked>>

\* Where the try or catch part ends: what follows is the catch clause, the finally block, or
\* the statement after.
AfterPart(fs, end) ==
  /\ returnTarget' = Top.outerReturn /\ exceptionTarget' = Top.outerException
  /\ IF Top.has.finally
     THEN LET into == fs[Top.normal].list \o fs[Top.exception].list \o fs[Top.return].list IN
          /\ flows' = Append(fs, Node("branch", Nil, into, Nil))
          /\ currentFlow' = Len(fs) + 1
          /\ frames' = [frames EXCEPT ![Depth] = [Top EXCEPT !.kind = "finally", !.label = Len(fs) + 1,
                                                             !.ends = end, !.inside = jumps]]
          /\ live' = Top.entry /\ jumps' = Top.before
     ELSE /\ flows' = fs /\ currentFlow' = FinishLabel(fs, Top.normal)
          /\ Pop /\ live' = end /\ UNCHANGED jumps
  /\ UNCHANGED blocked

EndTry ==
  /\ Closes("try")
  /\ LET fs == AddAntecedent(flows, Top.normal, currentFlow)
         start == FinishLabel(fs, Top.exception)
         made == Append(fs, Label("branch"))
     IN  IF Top.has.catch
         THEN /\ flows' = AddAntecedent(made, Len(made), start)
              /\ currentFlow' = start
              /\ frames' = [frames EXCEPT ![Depth] = [Top EXCEPT !.kind = "catch", !.exception = Len(made), !.ends = live]]
              /\ exceptionTarget' = Len(made)
              /\ live' = Top.entry
              /\ UNCHANGED <<returnTarget, jumps, blocked>>
         ELSE AfterPart(fs, live)

EndCatch ==
  /\ Closes("catch")
  /\ AfterPart(AddAntecedent(flows, Top.normal, currentFlow), live \/ Top.ends)

ReduceLabel(list) == Node("reduce", currentFlow, list, Top.label)

\* The jumps from inside go on when the finally block ends.
EndFinally ==
  /\ Closes("finally")
  /\ LET returns == flows[Top.return].list
         exceptions == flows[Top.exception].list
         normals == flows[Top.normal].list
         through(fs, target, list) ==
           IF target = Nil \/ list = <<>> THEN fs
           ELSE LET made == Append(fs, ReduceLabel(list)) IN AddAntecedent(made, target, Len(made))
         jumped == through(through(flows, returnTarget, returns), exceptionTarget, exceptions)
     IN  IF flows[currentFlow].kind = "unreachable" THEN currentFlow' = Unreachable /\ UNCHANGED flows
         ELSE IF normals = <<>> THEN currentFlow' = Unreachable /\ flows' = jumped
         ELSE flows' = Append(jumped, ReduceLabel(normals)) /\ currentFlow' = Len(jumped) + 1
  /\ live' = (live /\ Top.ends)
  /\ jumps' = IF live THEN jumps \cup Top.inside ELSE jumps
  /\ blocked' = (blocked \/ (~live /\ \E j \in Top.inside \ Top.before : j[1] \in {"break", "continue"}))
  /\ Pop /\ UNCHANGED <<returnTarget, exceptionTarget>>

\* The end of the body is where an implicit return is; a return target collects it and the
\* returns, and what follows an immediately invoked function comes after that.
EndBody ==
  /\ phase = "bind" /\ frames = <<>> /\ statements # <<>>
  /\ phase' = "check"
  /\ flows' = IF returnTarget = Nil THEN flows ELSE AddAntecedent(flows, returnTarget, currentFlow)
  /\ currentFlow' = IF returnTarget = Nil THEN currentFlow ELSE FinishLabel(flows', returnTarget)
  /\ statements' = statements \o <<[flow |-> currentFlow, live |-> live],
                                   [flow |-> currentFlow', live |-> live \/ (returnTarget # Nil /\ <<"return", 0>> \in jumps)]>>
  /\ UNCHANGED <<returnTarget, exceptionTarget, frames, live, jumps, blocked>>

-----------------------------------------------------------------------------
Bind == \/ BindDead \/ BindPlain \/ BindAssign \/ BindFail \/ BindReturn \/ BindThrow \/ BindBreak \/ BindContinue
        \/ BeginIf \/ EndThen \/ EndElse \/ BeginWhile \/ EndWhile \/ EndFor \/ BeginForOf \/ EndForOf
        \/ BeginDo \/ EndDo \/ BeginLabelled \/ EndLabelled \/ BeginBlock \/ EndBlock
        \/ BeginSwitch \/ BeginClause \/ EndClause \/ EndSwitch \/ BeginTry \/ EndTry \/ EndCatch \/ EndFinally
        \/ EndBody
==============================================================================
