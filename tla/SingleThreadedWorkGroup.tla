----------------------- MODULE SingleThreadedWorkGroup -----------------------
(***************************************************************************)
(* core.singleThreadedWorkGroup (internal/core/workgroup.go), the group    *)
(* that --singleThreaded selects: Queue pushes on a stack of functions and *)
(* RunAndWait pops and runs them until the stack is empty.  One goroutine  *)
(* uses the group, so each call is one step; a closure is several steps,   *)
(* because it may queue others before it returns. A definition whose       *)
(* comment begins with "Variant" is the next one with a plausible bug.     *)
(***************************************************************************)
EXTENDS Sequences, SequencesExt

CONSTANTS Tasks,    \* the closures passed to Queue
          NoTask    \* no closure is running

VARIABLES fns,      \* w.fns
          done,     \* w.done
          phase,    \* "queueing", "draining" (inside RunAndWait) or "returned"
          current,  \* the closure RunAndWait is running
          ran       \* the closures that have returned, in order

vars == <<fns, done, phase, current, ran>>

Init ==
    /\ fns = <<>>
    /\ done = FALSE
    /\ phase = "queueing"
    /\ current = NoTask
    /\ ran = <<>>

Known(t) == t \in ToSet(fns) \cup ToSet(ran) \cup {current}

\* Called by the owner before RunAndWait, or by the closure that runs.
Queue(t) ==
    /\ phase = "queueing" \/ current # NoTask
    /\ ~Known(t)
    /\ ~done
    /\ fns' = Append(fns, t)
    /\ UNCHANGED <<done, phase, current, ran>>

CallRunAndWait ==
    /\ phase = "queueing"
    /\ phase' = "draining"
    /\ UNCHANGED <<fns, done, current, ran>>

\* pop returned a function: run it.
Pop ==
    /\ phase = "draining"
    /\ current = NoTask
    /\ fns # <<>>
    /\ current' = Last(fns)
    /\ fns' = Front(fns)
    /\ UNCHANGED <<done, phase, ran>>

Return ==
    /\ current # NoTask
    /\ ran' = Append(ran, current)
    /\ current' = NoTask
    /\ UNCHANGED <<fns, done, phase>>

\* Variant: RunAndWait runs one function only.
StopWhileQueued ==
    /\ phase = "draining"
    /\ current = NoTask
    /\ phase' = "returned"
    /\ done' = TRUE
    /\ UNCHANGED <<fns, current, ran>>

\* pop returned nil: the deferred done.Store(true) and the return.
StopDraining ==
    /\ phase = "draining"
    /\ current = NoTask
    /\ fns = <<>>
    /\ phase' = "returned"
    /\ done' = TRUE
    /\ UNCHANGED <<fns, current, ran>>

Next ==
    \/ \E t \in Tasks : Queue(t)
    \/ CallRunAndWait
    \/ Pop
    \/ Return
    \/ StopDraining

Spec == Init /\ [][Next]_vars

\* RunAndWait's loop keeps going and every closure returns.
Fairness == WF_vars(Pop) /\ WF_vars(Return) /\ WF_vars(StopDraining)

FairSpec == Spec /\ Fairness

-----------------------------------------------------------------------------
TypeOK ==
    /\ fns \in Seq(Tasks)
    /\ done \in BOOLEAN
    /\ phase \in {"queueing", "draining", "returned"}
    /\ current \in Tasks \cup {NoTask}
    /\ ran \in Seq(Tasks)

Abstract == INSTANCE ForkJoin WITH
    queued   <- {t \in Tasks : Known(t)},
    finished <- ToSet(ran),
    waiting  <- phase # "queueing",
    joined   <- phase = "returned"

\* The sequential group keeps the same promise as the parallel one: whatever
\* the closures queue, RunAndWait returns only after all of them (workgroup.go:13).
ImplementsForkJoin == Abstract!Spec

\* RunAndWait returns: each closure is run once, so the stack empties.
RunAndWaitReturns == phase = "draining" ~> phase = "returned" /\ done

(***************************************************************************)
(* Why it holds: the inductive invariant.                                  *)
(***************************************************************************)
\* A closure is on the stack, or running, or has returned, and on the stack once.
EachInOnePlace ==
    /\ \A i, j \in DOMAIN fns : fns[i] = fns[j] => i = j
    /\ ToSet(fns) \cap ToSet(ran) = {}
    /\ current \notin ToSet(fns) \cup ToSet(ran)

IInv == TypeOK /\ EachInOnePlace /\ (current # NoTask => phase = "draining")
=============================================================================
