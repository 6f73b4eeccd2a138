----------------------------- MODULE Reachability -----------------------------
(***************************************************************************)
(* The checker's isReachableFlowNode (internal/checker/flow.go) on the     *)
(* graphs of FlowGraph: a walk back from a flow node, over all antecedents *)
(* of a branch and the first of a loop, which remembers the answers of     *)
(* shared nodes and the last answer.  The walk is recursive; its stack is  *)
(* a variable here.                                                        *)
(***************************************************************************)
EXTENDS FlowGraph

CONSTANT AnyOrder   \* whether statements are asked about in any order, or in that of the text

VARIABLES
  walks,                       \* the active calls of the worker, the innermost last
  result,                      \* what the innermost call that ended returned
  reduceLabels,                \* f.reduceLabels
  flowNodeReachable,           \* the cache of shared nodes
  lastFlowNode, lastFlowNodeReachable,
  asking,                      \* the statement asked about, 0 if none
  answers                      \* what was found of each statement

walkVars == <<walks, result, reduceLabels>>
cacheVars == <<flowNodeReachable, lastFlowNode, lastFlowNodeReachable>>
vars == <<flowVars, walkVars, cacheVars, asking, answers>>

Walk(flow, noCacheCheck) == [at |-> "walk", flow |-> flow, noCacheCheck |-> noCacheCheck]
Below == SubSeq(walks, 1, Len(walks) - 1)
Call == walks[Len(walks)]
Running(at) == walks # <<>> /\ Call.at = at /\ UNCHANGED <<flowVars, asking, answers>>

\* Kinds a walk goes back over.
Passed == {"assignment", "condition", "switchClause"}

\* getBranchLabelAntecedents: the last ReduceLabel met for this label counts.
Antecedents(n) ==
  LET about == {i \in DOMAIN reduceLabels : reduceLabels[i].target = n}
      last == CHOOSE i \in about : \A j \in about : j <= i
  IN  IF about = {} THEN flows[n].list ELSE reduceLabels[last].list

InitCheck ==
  /\ walks = <<>> /\ result = "none" /\ reduceLabels = <<>>
  /\ flowNodeReachable = <<>>
  /\ lastFlowNode = Nil /\ lastFlowNodeReachable = FALSE
  /\ asking = 0 /\ answers = <<>>

\* checkSourceElement asks about each statement, functionHasImplicitReturn about the end.
Ask ==
  /\ phase = "check" /\ walks = <<>> /\ result = "none"
  /\ asking' \in DOMAIN statements \ DOMAIN answers
  /\ AnyOrder \/ asking' = Cardinality(DOMAIN answers) + 1
  /\ walks' = <<Walk(statements[asking'].flow, FALSE)>>
  /\ UNCHANGED <<flowVars, result, reduceLabels, cacheVars, answers>>

Says(b) == IF b THEN "yes" ELSE "no"
Returns(b) == walks' = Below /\ result' = Says(b)

WalkRemembered ==
  /\ Running("walk") /\ Call.flow = lastFlowNode
  /\ Returns(lastFlowNodeReachable)
  /\ UNCHANGED <<reduceLabels, cacheVars>>

\* A shared node: the cache's answer, or one that is computed to be stored.
WalkShared ==
  /\ Running("walk") /\ Call.flow # lastFlowNode /\ Shared(Call.flow) /\ ~Call.noCacheCheck
  /\ Len(walks) <= 3 * Len(flows)   \* deeper than any walk that ends
  /\ IF Call.flow \in DOMAIN flowNodeReachable THEN Returns(flowNodeReachable[Call.flow])
     ELSE walks' = Append(Below, [at |-> "store", flow |-> Call.flow]) \o <<Walk(Call.flow, TRUE)>> /\ UNCHANGED result
  /\ UNCHANGED <<reduceLabels, cacheVars>>

Worked == Running("walk") /\ Call.flow # lastFlowNode /\ (Shared(Call.flow) => Call.noCacheCheck)
On(kinds) == Worked /\ flows[Call.flow].kind \in kinds

WalkPast ==
  /\ On(Passed)
  /\ walks' = Append(Below, Walk(flows[Call.flow].ante, FALSE))
  /\ UNCHANGED <<result, reduceLabels, cacheVars>>

\* The calls of this model are of functions that return never.
WalkEnds ==
  /\ On({"call", "start", "unreachable"})
  /\ Returns(flows[Call.flow].kind = "start")
  /\ UNCHANGED <<reduceLabels, cacheVars>>

WalkBranch ==
  /\ On({"branch"})
  /\ walks' = Append(Below, [at |-> "list", list |-> Antecedents(Call.flow)])
  /\ result' = "no"
  /\ UNCHANGED <<reduceLabels, cacheVars>>

WalkLoop ==
  /\ On({"loop"})
  /\ IF flows[Call.flow].list = <<>> THEN Returns(FALSE)
     ELSE walks' = Append(Below, Walk(Head(flows[Call.flow].list), FALSE)) /\ UNCHANGED result
  /\ UNCHANGED <<reduceLabels, cacheVars>>

\* "Cache is unreliable once we start adjusting labels": the last answer is forgotten.
WalkReduce ==
  /\ On({"reduce"})
  /\ lastFlowNode' = Nil
  /\ reduceLabels' = Append(reduceLabels, flows[Call.flow])
  /\ walks' = Append(Below, [at |-> "unreduce"]) \o <<Walk(flows[Call.flow].ante, FALSE)>>
  /\ UNCHANGED <<result, flowNodeReachable, lastFlowNodeReachable>>

\* The next antecedent of a branch, unless one was reachable.
NextAntecedent ==
  /\ Running("list")
  /\ IF result = "yes" \/ Call.list = <<>> THEN walks' = Below /\ UNCHANGED result
     ELSE /\ walks' = Append(Below, [at |-> "list", list |-> Tail(Call.list)]) \o <<Walk(Head(Call.list), FALSE)>>
          /\ UNCHANGED result
  /\ UNCHANGED <<reduceLabels, cacheVars>>

Store ==
  /\ Running("store")
  /\ walks' = Below
  /\ flowNodeReachable' = [n \in DOMAIN flowNodeReachable \cup {Call.flow} |->
                             IF n = Call.flow THEN result = "yes" ELSE flowNodeReachable[n]]
  /\ UNCHANGED <<result, reduceLabels, lastFlowNode, lastFlowNodeReachable>>

\* Variant: what a ReduceLabel said of a label is not taken back.
UnreduceVariant ==
  /\ Running("unreduce")
  /\ walks' = Below
  /\ UNCHANGED <<result, reduceLabels, cacheVars>>

Unreduce ==
  /\ Running("unreduce")
  /\ walks' = Below
  /\ reduceLabels' = SubSeq(reduceLabels, 1, Len(reduceLabels) - 1)
  /\ UNCHANGED <<result, cacheVars>>

\* isReachableFlowNode returns, and remembers.
Answer ==
  /\ walks = <<>> /\ result # "none"
  /\ lastFlowNode' = statements[asking].flow /\ lastFlowNodeReachable' = (result = "yes")
  /\ answers' = [i \in DOMAIN answers \cup {asking} |-> IF i = asking THEN result = "yes" ELSE answers[i]]
  /\ result' = "none" /\ asking' = 0
  /\ UNCHANGED <<flowVars, walks, reduceLabels, flowNodeReachable>>

Checking == \/ Ask \/ WalkRemembered \/ WalkShared \/ WalkPast \/ WalkEnds \/ WalkBranch \/ WalkLoop \/ WalkReduce
            \/ NextAntecedent \/ Store \/ Unreduce \/ Answer

Next == (Bind /\ UNCHANGED <<walkVars, cacheVars, asking, answers>>) \/ Checking

Spec == Init /\ InitCheck /\ [][Next]_vars /\ WF_vars(Checking)

-----------------------------------------------------------------------------
TypeOK ==
  /\ \A n \in DOMAIN flows : flows[n].ante \in 0..Len(flows) /\ flows[n].refs \in 0..2
  /\ currentFlow \in DOMAIN flows
  /\ walks = <<>> => reduceLabels = <<>>
  /\ Len(reduceLabels) = Cardinality({i \in DOMAIN walks : walks[i].at = "unreduce"})

\* Code that control can get to is never reported as unreachable (checker.go's
\* checkSourceElementWorker), whatever was asked before.
ReachableIsNotReported ==
  \A i \in DOMAIN answers : statements[i].live => answers[i]

\* Nor does the binder say so, of any place.
LiveFlowsOn == live => flows[currentFlow].kind # "unreachable"

\* A call that never returns and the end of a finally block in one program: the answers
\* remembered of labels are then not those of the labels as ReduceLabel adjusts them.
Adjusted == \E n, m \in DOMAIN flows : flows[n].kind = "reduce" /\ flows[m].kind = "call"

\* What control cannot get to is found out (checker.go's checkSourceElementWorker), unless a
\* finally block that does not end stands in the way of a break or continue: the binder
\* draws those past it.
UnreachableIsFound ==
  ~blocked /\ ~Adjusted => \A i \in DOMAIN answers : answers[i] => statements[i].live

\* Every question is answered: no walk goes round a loop.
WalksEnd == phase = "check" ~> Cardinality(DOMAIN answers) = Len(statements)
==============================================================================
