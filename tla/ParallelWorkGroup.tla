-------------------------- MODULE ParallelWorkGroup --------------------------
(***************************************************************************)
(* core.parallelWorkGroup (internal/core/workgroup.go): a sync.WaitGroup   *)
(* and an atomic flag.  Queue loads the flag, then adds to the wait group, *)
(* then starts a goroutine: another goroutine may run between the load and *)
(* the add, so the two are separate steps here.                            *)
(*                                                                         *)
(* The callers of Queue are the goroutine that owns the group, up to its   *)
(* call of RunAndWait, and the closures themselves: fileloader.go and      *)
(* program.go use it in no other way, and the interface forbids a call     *)
(* after RunAndWait has returned.                                          *)
(*                                                                         *)
(* A definition whose comment begins with "Variant" is the one after it    *)
(* with a plausible bug; it is used only to see that the properties below  *)
(* tell the two apart.                                                     *)
(***************************************************************************)
EXTENDS Integers, FiniteSets

CONSTANTS Tasks,    \* the closures passed to Queue
          Main,     \* the goroutine that owns the group
          NoTask    \* "not inside Queue"

ASSUME TasksAssumption == IsFiniteSet(Tasks) /\ Main \notin Tasks /\ NoTask \notin Tasks

VARIABLES pc,       \* where each goroutine is
          arg,      \* the closure a goroutine is passing to Queue
          counter,  \* w.wg
          done,     \* w.done
          panicked  \* Queue found done set

vars == <<pc, arg, counter, done, panicked>>

Goroutines == Tasks \cup {Main}

Init ==
    /\ pc = [g \in Goroutines |-> IF g = Main THEN "running" ELSE "idle"]
    /\ arg = [g \in Goroutines |-> NoTask]
    /\ counter = 0
    /\ done = FALSE
    /\ panicked = FALSE

\* A closure nobody has passed to Queue yet.
Fresh(t) == pc[t] = "idle" /\ \A g \in Goroutines : arg[g] # t

\* Queue, up to and including done.Load().
QueueCheck(g, t) ==
    /\ pc[g] = "running"
    /\ Fresh(t)
    /\ IF done
       THEN panicked' = TRUE /\ UNCHANGED <<pc, arg>>
       ELSE /\ pc' = [pc EXCEPT ![g] = "adding"]
            /\ arg' = [arg EXCEPT ![g] = t]
            /\ UNCHANGED panicked
    /\ UNCHANGED <<counter, done>>

\* Variant: the closure is started without wg.Add(1).
QueueAddUncounted(g) ==
    /\ pc[g] = "adding"
    /\ pc' = [pc EXCEPT ![g] = "running", ![arg[g]] = "spawned"]
    /\ arg' = [arg EXCEPT ![g] = NoTask]
    /\ UNCHANGED <<counter, done, panicked>>

\* wg.Add(1) and the go statement.
QueueAdd(g) ==
    /\ pc[g] = "adding"
    /\ counter' = counter + 1
    /\ pc' = [pc EXCEPT ![g] = "running", ![arg[g]] = "spawned"]
    /\ arg' = [arg EXCEPT ![g] = NoTask]
    /\ UNCHANGED <<done, panicked>>

Begin(t) ==
    /\ pc[t] = "spawned"
    /\ pc' = [pc EXCEPT ![t] = "running"]
    /\ UNCHANGED <<arg, counter, done, panicked>>

\* Variant: the closure returns without wg.Done().
ReturnUncounted(t) ==
    /\ pc[t] = "running"
    /\ pc' = [pc EXCEPT ![t] = "finished"]
    /\ UNCHANGED <<arg, counter, done, panicked>>

\* The closure returns and its deferred wg.Done() runs.
Return(t) ==
    /\ pc[t] = "running"
    /\ pc' = [pc EXCEPT ![t] = "finished"]
    /\ counter' = counter - 1
    /\ UNCHANGED <<arg, done, panicked>>

\* Variant: done.Store(true) is not deferred.
CallStoringDone ==
    /\ pc[Main] = "running"
    /\ pc' = [pc EXCEPT ![Main] = "waiting"]
    /\ done' = TRUE
    /\ UNCHANGED <<arg, counter, panicked>>

\* The owner calls RunAndWait.
CallRunAndWait ==
    /\ pc[Main] = "running"
    /\ pc' = [pc EXCEPT ![Main] = "waiting"]
    /\ UNCHANGED <<arg, counter, done, panicked>>

\* Variant: wg.Wait() does not wait.
WaitReturnsAtOnce ==
    /\ pc[Main] = "waiting"
    /\ pc' = [pc EXCEPT ![Main] = "returning"]
    /\ UNCHANGED <<arg, counter, done, panicked>>

\* wg.Wait() lets the owner go on.
WaitReturns ==
    /\ pc[Main] = "waiting"
    /\ counter = 0
    /\ pc' = [pc EXCEPT ![Main] = "returning"]
    /\ UNCHANGED <<arg, counter, done, panicked>>

\* The deferred done.Store(true).
StoreDone ==
    /\ pc[Main] = "returning"
    /\ pc' = [pc EXCEPT ![Main] = "returned"]
    /\ done' = TRUE
    /\ UNCHANGED <<arg, counter, panicked>>

Next ==
    \/ \E g \in Goroutines : QueueAdd(g) \/ \E t \in Tasks : QueueCheck(g, t)
    \/ \E t \in Tasks : Begin(t) \/ Return(t)
    \/ CallRunAndWait
    \/ WaitReturns
    \/ StoreDone

Spec == Init /\ [][Next]_vars

\* The Go scheduler runs every runnable goroutine, and a closure returns.
Fairness ==
    /\ \A g \in Goroutines : WF_vars(QueueAdd(g))
    /\ \A t \in Tasks : WF_vars(Begin(t)) /\ WF_vars(Return(t))
    /\ WF_vars(WaitReturns)
    /\ WF_vars(StoreDone)

FairSpec == Spec /\ Fairness

-----------------------------------------------------------------------------
Outstanding == {t \in Tasks : pc[t] \in {"spawned", "running", "adding"}}

TypeOK ==
    /\ pc \in [Goroutines -> {"idle", "spawned", "running", "adding", "finished",
                              "waiting", "returning", "returned"}]
    /\ arg \in [Goroutines -> Tasks \cup {NoTask}]
    /\ counter \in Int
    /\ done \in BOOLEAN
    /\ panicked \in BOOLEAN

\* "RunAndWait runs all queued functions, blocking until they have all
\* completed" (workgroup.go:13): once the wait is over no closure is
\* outstanding and none is about to be added, however the closures queue others.
JoinedMeansAllRan ==
    pc[Main] \in {"returning", "returned"} =>
        /\ Outstanding = {}
        /\ \A g \in Goroutines : pc[g] # "adding"

\* A closure that queues another from inside the group never meets the panic
\* of workgroup.go:33, although it loads the flag without holding a lock.
QueueNeverPanics == ~panicked

\* The contract of sync.WaitGroup: Add never raises the counter from zero
\* while the owner is inside Wait.
AddNeverRacesWait ==
    pc[Main] = "waiting" /\ counter = 0 => \A g \in Goroutines : pc[g] # "adding"

\* The owner and the closures go through different control points.
Places ==
    /\ pc[Main] \in {"running", "adding", "waiting", "returning", "returned"}
    /\ \A t \in Tasks : pc[t] \in {"idle", "spawned", "running", "adding", "finished"}

\* The counter is the number of closures started and not yet returned.
CounterExact == counter = Cardinality(Outstanding)

\* A closure that is being queued is in the hands of one caller, and idle.
HandOff ==
    /\ \A g \in Goroutines : pc[g] = "adding" <=> arg[g] # NoTask
    /\ \A g \in Goroutines : arg[g] # NoTask => pc[arg[g]] = "idle"
    /\ \A g, h \in Goroutines : arg[g] = arg[h] /\ arg[g] # NoTask => g = h

\* Past the wait nothing is outstanding, and only then is the flag set.
JoinQuiet ==
    /\ pc[Main] \in {"returning", "returned"} => Outstanding = {}
    /\ done => pc[Main] = "returned"

\* The inductive invariant.
IInv == TypeOK /\ Places /\ CounterExact /\ HandOff /\ JoinQuiet /\ QueueNeverPanics

-----------------------------------------------------------------------------
Abstract == INSTANCE ForkJoin WITH
    queued   <- {t \in Tasks : pc[t] # "idle"},
    finished <- {t \in Tasks : pc[t] = "finished"},
    waiting  <- pc[Main] \in {"waiting", "returning", "returned"},
    joined   <- pc[Main] \in {"returning", "returned"}

\* The group implements the fork-join promise.
ImplementsForkJoin == Abstract!Spec

\* RunAndWait returns once it is called: no closure can leave the counter up.
RunAndWaitReturns == pc[Main] = "waiting" ~> pc[Main] = "returned"
=============================================================================
