----------------------------- MODULE MCWorkGroups -----------------------------
(***************************************************************************)
(* Both implementations of core.WorkGroup, one of which a behaviour is     *)
(* about: the parallel group or the one of --singleThreaded.               *)
(***************************************************************************)
EXTENDS ParallelWorkGroup, Sequences

VARIABLES group, fns, emptied, phase, current, ran

S == INSTANCE SingleThreadedWorkGroup WITH done <- emptied

singleVars == <<fns, emptied, phase, current, ran>>
groupVars == <<vars, group, singleVars>>

GroupsInit == Init /\ S!Init /\ group \in {"parallel", "single"}

GroupsNext ==
  \/ group = "parallel" /\ Next /\ UNCHANGED <<group, singleVars>>
  \/ group = "single" /\ S!Next /\ UNCHANGED <<group, vars>>

\* Some goroutine that can run does, and a closure returns: less than what the groups' own Fairness asks for.
Step ==
  \/ \E g \in Goroutines : QueueAdd(g)
  \/ \E t \in Tasks : Begin(t) \/ Return(t)
  \/ WaitReturns \/ StoreDone

GroupsFairness ==
  /\ WF_vars(group = "parallel" /\ Step)
  /\ WF_singleVars(group = "single" /\ (S!Pop \/ S!Return \/ S!StopDraining))

\* The sequential group implements the same fork-join promise.
SingleImplementsForkJoin == S!ImplementsForkJoin

\* RunAndWait returns, whichever group it is.
BothReturn == RunAndWaitReturns /\ S!RunAndWaitReturns
=============================================================================
