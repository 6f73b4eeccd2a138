------------------------------ MODULE ForkJoin ------------------------------
(***************************************************************************)
(* What core.WorkGroup promises its callers (internal/core/workgroup.go,   *)
(* the comments of the interface): functions may be queued before          *)
(* RunAndWait and by functions that run, and RunAndWait returns only when  *)
(* every one of them has completed.                                        *)
(***************************************************************************)
CONSTANT Tasks          \* the closures that may be passed to Queue

VARIABLES queued,       \* closures handed to Queue so far
          finished,     \* closures that have returned
          waiting,      \* RunAndWait has been called
          joined        \* RunAndWait has returned

vars == <<queued, finished, waiting, joined>>

Init ==
    /\ queued = {}
    /\ finished = {}
    /\ waiting = FALSE
    /\ joined = FALSE

\* After RunAndWait has been called only a closure that still runs can queue.
Queue(t) ==
    /\ t \notin queued
    /\ waiting => queued # finished
    /\ queued' = queued \cup {t}
    /\ UNCHANGED <<finished, waiting, joined>>

Finish(t) ==
    /\ t \in queued \ finished
    /\ finished' = finished \cup {t}
    /\ UNCHANGED <<queued, waiting, joined>>

CallRunAndWait ==
    /\ ~waiting
    /\ waiting' = TRUE
    /\ UNCHANGED <<queued, finished, joined>>

Join ==
    /\ waiting
    /\ ~joined
    /\ queued = finished
    /\ joined' = TRUE
    /\ UNCHANGED <<queued, finished, waiting>>

Next ==
    \/ \E t \in Tasks : Queue(t) \/ Finish(t)
    \/ CallRunAndWait
    \/ Join

Spec == Init /\ [][Next]_vars

Fairness == (\A t \in Tasks : WF_vars(Finish(t))) /\ WF_vars(Join)

FairSpec == Spec /\ Fairness
=============================================================================
