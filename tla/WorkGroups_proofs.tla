--------------------------- MODULE WorkGroups_proofs ---------------------------
(***************************************************************************)
(* Safety of both implementations of core.WorkGroup, for any finite set of *)
(* closures.  Of the parallel one: the inductive invariant IInv, the three *)
(* safety properties it implies, and the refinement of the fork-join       *)
(* promise.  Of the one of --singleThreaded: the same refinement.          *)
(***************************************************************************)
EXTENDS MCWorkGroups, FiniteSetTheorems, TLAPS

-----------------------------------------------------------------------------
(***************************************************************************)
(* The parallel group.                                                     *)
(***************************************************************************)

\* The set the counter counts is finite, as any subset of Tasks.
LEMMA OutstandingFinite == IsFiniteSet(Outstanding) /\ Cardinality(Outstanding) \in Nat
<1>1. Outstanding \in SUBSET Tasks
  BY DEF Outstanding
<1>2. IsFiniteSet(Outstanding)
  BY <1>1, TasksAssumption, FS_Subset
<1> QED BY <1>2, FS_CardinalityType

\* The group starts in a state of the invariant: nothing queued, counter zero.
LEMMA InitIInv == Init => IInv
<1> SUFFICES ASSUME Init PROVE IInv
  OBVIOUS
<1> USE TasksAssumption DEF Init, Goroutines
<1>1. TypeOK
  <2>1. /\ pc \in [Goroutines -> {"running", "idle"}]
        /\ arg \in [Goroutines -> Tasks \cup {NoTask}]
    OBVIOUS
  <2>2. counter \in Int
    OBVIOUS
  <2>3. done \in BOOLEAN /\ panicked \in BOOLEAN
    BY Zenon
  <2> QED BY <2>1, <2>2, <2>3 DEF TypeOK
<1>2. Outstanding = {}
  BY DEF Outstanding
<1>3. CounterExact
  BY <1>2, FS_EmptySet DEF CounterExact
<1>4. Places /\ HandOff /\ JoinQuiet /\ QueueNeverPanics
  BY <1>2 DEF Places, HandOff, JoinQuiet, QueueNeverPanics
<1> QED BY <1>1, <1>3, <1>4 DEF IInv

\* Loading the flag: the caller runs, so it is the owner before RunAndWait or an
\* outstanding closure, and in both cases the flag is still down.
LEMMA QueueCheckIInv ==
  ASSUME IInv, NEW g \in Goroutines, NEW t \in Tasks, QueueCheck(g, t)
  PROVE  IInv'
<1> USE TasksAssumption DEF IInv, Goroutines
<1>1. ~done
  <2>1. CASE g = Main
    BY <2>1 DEF QueueCheck, JoinQuiet
  <2>2. CASE g \in Tasks
    BY <2>2 DEF QueueCheck, JoinQuiet, Outstanding
  <2> QED BY <2>1, <2>2
<1>2. /\ pc[g] = "running" /\ pc[t] = "idle" /\ t # g
      /\ \A h \in Goroutines : arg[h] # t
      /\ pc' = [pc EXCEPT ![g] = "adding"]
      /\ arg' = [arg EXCEPT ![g] = t]
      /\ UNCHANGED <<counter, done, panicked>>
  BY <1>1 DEF QueueCheck, Fresh
<1>3. TypeOK'
  BY <1>2 DEF TypeOK
<1>4. Places'
  BY <1>2 DEF Places, TypeOK
<1>5. Outstanding' = Outstanding
  BY <1>2 DEF Outstanding, TypeOK
<1>6. CounterExact'
  BY <1>2, <1>5 DEF CounterExact
<1>7. HandOff'
  BY <1>2 DEF HandOff, TypeOK
<1>8. JoinQuiet' /\ QueueNeverPanics'
  BY <1>2, <1>5, <1>1 DEF JoinQuiet, QueueNeverPanics, TypeOK
<1> QED BY <1>3, <1>4, <1>6, <1>7, <1>8

\* Adding to the wait group: the counter and the outstanding closures grow by
\* one, and the owner is not past the wait.
LEMMA QueueAddIInv ==
  ASSUME IInv, NEW g \in Goroutines, QueueAdd(g)
  PROVE  IInv'
<1> USE TasksAssumption DEF IInv, Goroutines
<1> DEFINE t == arg[g]
<1>1. /\ pc[g] = "adding" /\ t \in Tasks /\ t # g /\ pc[t] = "idle"
      /\ pc' = [pc EXCEPT ![g] = "running", ![t] = "spawned"]
      /\ arg' = [arg EXCEPT ![g] = NoTask]
      /\ counter' = counter + 1
      /\ UNCHANGED <<done, panicked>>
  BY DEF QueueAdd, HandOff, TypeOK
<1> HIDE DEF t
<1>2. TypeOK'
  BY <1>1 DEF TypeOK
<1>3. Places'
  BY <1>1 DEF Places, TypeOK
<1>4. Outstanding' = Outstanding \cup {t} /\ t \notin Outstanding
  BY <1>1 DEF Outstanding, TypeOK
<1>5. CounterExact'
  BY <1>1, <1>4, OutstandingFinite, FS_AddElement DEF CounterExact
<1>6. HandOff'
  BY <1>1 DEF HandOff, TypeOK, t
<1>7. pc[Main] \notin {"returning", "returned"}
  <2>1. CASE g = Main
    BY <1>1, <2>1
  <2>2. CASE g \in Tasks
    BY <1>1, <2>2 DEF JoinQuiet, Outstanding
  <2> QED BY <2>1, <2>2
<1>8. JoinQuiet' /\ QueueNeverPanics'
  BY <1>1, <1>7 DEF JoinQuiet, QueueNeverPanics, TypeOK
<1> QED BY <1>2, <1>3, <1>5, <1>6, <1>8

\* Scheduling a started goroutine changes nothing the counter counts.
LEMMA BeginIInv ==
  ASSUME IInv, NEW t \in Tasks, Begin(t)
  PROVE  IInv'
<1> USE TasksAssumption DEF IInv, Goroutines, Begin
<1>1. TypeOK' /\ Places'
  BY DEF TypeOK, Places
<1>2. Outstanding' = Outstanding
  BY DEF Outstanding, TypeOK
<1>3. CounterExact'
  BY <1>2 DEF CounterExact
<1>4. HandOff'
  BY DEF HandOff, TypeOK
<1>5. JoinQuiet' /\ QueueNeverPanics'
  BY <1>2 DEF JoinQuiet, QueueNeverPanics, TypeOK
<1> QED BY <1>1, <1>3, <1>4, <1>5

\* A closure that returns leaves the counter and the outstanding set together.
LEMMA ReturnIInv ==
  ASSUME IInv, NEW t \in Tasks, Return(t)
  PROVE  IInv'
<1> USE TasksAssumption DEF IInv, Goroutines, Return
<1>1. TypeOK' /\ Places'
  BY DEF TypeOK, Places
<1>2. Outstanding' = Outstanding \ {t} /\ t \in Outstanding
  BY DEF Outstanding, TypeOK
<1>3. CounterExact'
  BY <1>2, OutstandingFinite, FS_RemoveElement DEF CounterExact
<1>4. HandOff'
  BY DEF HandOff, TypeOK
<1>5. JoinQuiet' /\ QueueNeverPanics'
  BY <1>2 DEF JoinQuiet, QueueNeverPanics, TypeOK
<1> QED BY <1>1, <1>3, <1>4, <1>5

\* The three steps of the owner: the wait opens only on counter zero, which is
\* where the outstanding set is known to be empty.
LEMMA OwnerIInv ==
  ASSUME IInv, CallRunAndWait \/ WaitReturns \/ StoreDone
  PROVE  IInv'
<1> USE TasksAssumption DEF IInv, Goroutines, CallRunAndWait, WaitReturns, StoreDone
<1>1. TypeOK' /\ Places'
  BY DEF TypeOK, Places
<1>2. Outstanding' = Outstanding
  BY DEF Outstanding, TypeOK
<1>3. CounterExact'
  BY <1>2 DEF CounterExact
<1>4. HandOff'
  BY DEF HandOff, TypeOK
<1>5. ASSUME pc'[Main] \in {"returning", "returned"}
      PROVE  Outstanding = {}
  <2>1. CASE WaitReturns
    BY <2>1, OutstandingFinite, FS_EmptySet DEF CounterExact
  <2>2. CASE StoreDone
    BY <2>2 DEF JoinQuiet
  <2>3. CASE CallRunAndWait
    BY <2>3, <1>5 DEF TypeOK
  <2> QED BY <2>1, <2>2, <2>3
<1>6. JoinQuiet' /\ QueueNeverPanics'
  BY <1>2, <1>5 DEF JoinQuiet, QueueNeverPanics, TypeOK
<1> QED BY <1>1, <1>3, <1>4, <1>6

\* Every step of the group keeps the invariant.
LEMMA NextIInv == IInv /\ [Next]_vars => IInv'
<1> SUFFICES ASSUME IInv, [Next]_vars PROVE IInv'
  OBVIOUS
<1>1. ASSUME NEW g \in Goroutines, QueueAdd(g) PROVE IInv'
  BY <1>1, QueueAddIInv
<1>2. ASSUME NEW g \in Goroutines, NEW t \in Tasks, QueueCheck(g, t) PROVE IInv'
  BY <1>2, QueueCheckIInv
<1>3. ASSUME NEW t \in Tasks, Begin(t) PROVE IInv'
  BY <1>3, BeginIInv
<1>4. ASSUME NEW t \in Tasks, Return(t) PROVE IInv'
  BY <1>4, ReturnIInv
<1>5. ASSUME CallRunAndWait \/ WaitReturns \/ StoreDone PROVE IInv'
  BY <1>5, OwnerIInv
<1>6. CASE UNCHANGED vars
  BY <1>6 DEF vars, IInv, TypeOK, Places, CounterExact, HandOff, JoinQuiet,
              QueueNeverPanics, Outstanding
<1> QED BY <1>1, <1>2, <1>3, <1>4, <1>5, <1>6 DEF Next

\* The inductive invariant holds in every reachable state.
THEOREM GroupInvariant == Spec => []IInv
  BY InitIInv, NextIInv, PTL DEF Spec

\* RunAndWait returns only after every queued closure has completed, the promise
\* of workgroup.go:13, for any number of closures that queue one another.
THEOREM JoinWaitsForAll == Spec => []JoinedMeansAllRan
<1>1. IInv => JoinedMeansAllRan
  BY TasksAssumption DEF IInv, JoinQuiet, JoinedMeansAllRan, Outstanding, Goroutines
<1> QED BY <1>1, GroupInvariant, PTL

\* The unlocked load of the flag in Queue is safe: no closure of the group can
\* meet the panic "Queue called after RunAndWait returned".
THEOREM QueueIsSafe == Spec => []QueueNeverPanics
<1>1. IInv => QueueNeverPanics
  BY DEF IInv
<1> QED BY <1>1, GroupInvariant, PTL

\* The group respects the contract of sync.WaitGroup: no Add from zero while the
\* owner waits.
THEOREM AddIsOrdered == Spec => []AddNeverRacesWait
<1>1. ASSUME IInv, pc[Main] = "waiting", counter = 0 PROVE \A g \in Goroutines : pc[g] # "adding"
  <2>1. Outstanding = {}
    BY <1>1, OutstandingFinite, FS_EmptySet DEF IInv, CounterExact
  <2> QED BY <1>1, <2>1 DEF Outstanding, Goroutines
<1>2. IInv => AddNeverRacesWait
  BY <1>1 DEF AddNeverRacesWait
<1> QED BY <1>2, GroupInvariant, PTL

-----------------------------------------------------------------------------
\* The group's initial state is one of the fork-join promise.
LEMMA InitRefines == Init => Abstract!Init
  BY TasksAssumption DEF Init, Abstract!Init, Goroutines

\* Every step of the group is a step of the promise or leaves it unchanged.
LEMMA NextRefines == IInv /\ [Next]_vars => [Abstract!Next]_Abstract!vars
<1> SUFFICES ASSUME IInv, [Next]_vars PROVE [Abstract!Next]_Abstract!vars
  OBVIOUS
<1> USE TasksAssumption DEF IInv, TypeOK, Places, Goroutines
<1> DEFINE Q == {t \in Tasks : pc[t] # "idle"}
           F == {t \in Tasks : pc[t] = "finished"}
           W == pc[Main] \in {"waiting", "returning", "returned"}
           J == pc[Main] \in {"returning", "returned"}
<1>1. ASSUME NEW g \in Goroutines, NEW t \in Tasks, QueueCheck(g, t)
      PROVE  UNCHANGED Abstract!vars
  <2>1. pc[g] = "running" /\ (pc' = pc \/ pc' = [pc EXCEPT ![g] = "adding"])
    BY <1>1 DEF QueueCheck
  <2>2. Q' = Q /\ F' = F /\ W' = W /\ J' = J
    BY <2>1
  <2> QED BY <2>2 DEF Abstract!vars
<1>2. ASSUME NEW g \in Goroutines, QueueAdd(g)
      PROVE  \E t \in Tasks : Abstract!Queue(t)
  <2>1. /\ pc[g] = "adding" /\ arg[g] \in Tasks /\ arg[g] # g /\ pc[arg[g]] = "idle"
        /\ pc' = [pc EXCEPT ![g] = "running", ![arg[g]] = "spawned"]
    BY <1>2 DEF QueueAdd, HandOff
  <2>2. Q' = Q \cup {arg[g]} /\ arg[g] \notin Q /\ F' = F
    BY <2>1
  <2>3. W' = W /\ J' = J
    BY <2>1
  <2>4. W => Q # F
    <3>1. CASE g = Main
      BY <3>1, <2>1
    <3>2. CASE g \in Tasks
      BY <3>2, <2>1
    <3> QED BY <3>1, <3>2
  <2>5. PICK t \in Tasks : t = arg[g]
    BY <2>1
  <2>6. Abstract!Queue(t)
    BY <2>2, <2>3, <2>4, <2>5 DEF Abstract!Queue
  <2> QED BY <2>6
<1>3. ASSUME NEW t \in Tasks, Begin(t)
      PROVE  UNCHANGED Abstract!vars
  <2>1. Q' = Q /\ F' = F /\ W' = W /\ J' = J
    BY <1>3 DEF Begin
  <2> QED BY <2>1 DEF Abstract!vars
<1>4. ASSUME NEW t \in Tasks, Return(t)
      PROVE  Abstract!Finish(t)
  <2>1. Q' = Q /\ F' = F \cup {t} /\ t \in Q \ F /\ W' = W /\ J' = J
    BY <1>4 DEF Return
  <2> QED BY <2>1 DEF Abstract!Finish
<1>5. ASSUME CallRunAndWait
      PROVE  Abstract!CallRunAndWait
  <2>1. Q' = Q /\ F' = F /\ J' = J /\ ~W /\ W' = TRUE
    BY <1>5 DEF CallRunAndWait
  <2> QED BY <2>1 DEF Abstract!CallRunAndWait
<1>6. ASSUME WaitReturns
      PROVE  Abstract!Join
  <2>1. Outstanding = {}
    BY <1>6, OutstandingFinite, FS_EmptySet DEF WaitReturns, CounterExact
  <2>2. Q = F
    BY <2>1 DEF Outstanding
  <2>3. Q' = Q /\ F' = F /\ W /\ W' = W /\ ~J /\ J' = TRUE
    BY <1>6 DEF WaitReturns
  <2> QED BY <2>2, <2>3 DEF Abstract!Join
<1>7. ASSUME StoreDone
      PROVE  UNCHANGED Abstract!vars
  <2>1. Q' = Q /\ F' = F /\ W' = W /\ J' = J
    BY <1>7 DEF StoreDone
  <2> QED BY <2>1 DEF Abstract!vars
<1>8. CASE UNCHANGED vars
  BY <1>8 DEF vars, Abstract!vars
<1> QED
  BY <1>1, <1>2, <1>3, <1>4, <1>5, <1>6, <1>7, <1>8 DEF Next, Abstract!Next

\* The parallel group implements the fork-join promise (its safety part; that
\* RunAndWait returns is model-checked).
THEOREM GroupImplementsForkJoin == Spec => ImplementsForkJoin
  BY InitRefines, NextRefines, GroupInvariant, PTL DEF Spec, ImplementsForkJoin, Abstract!Spec

-----------------------------------------------------------------------------
(***************************************************************************)
(* The group of --singleThreaded.                                          *)
(***************************************************************************)
\* What a sequence of closures has in it, and after a push or a pop.
LEMMA Pushed ==
  ASSUME NEW s \in Seq(Tasks), NEW t \in Tasks
  PROVE  /\ Append(s, t) \in Seq(Tasks) /\ S!ToSet(Append(s, t)) = S!ToSet(s) \cup {t}
         /\ S!ToSet(s) \subseteq Tasks
<1>1. Append(s, t) \in Seq(Tasks) /\ S!ToSet(s) \subseteq Tasks
  BY DEF S!ToSet
<1>2. S!ToSet(Append(s, t)) \subseteq S!ToSet(s) \cup {t}
  BY DEF S!ToSet
<1>3. t \in S!ToSet(Append(s, t))
  <2>1. Append(s, t)[Len(s) + 1] = t /\ Len(s) + 1 \in DOMAIN Append(s, t)
    OBVIOUS
  <2> QED BY <2>1 DEF S!ToSet
<1>4. ASSUME NEW i \in DOMAIN s PROVE s[i] \in S!ToSet(Append(s, t))
  <2>1. Append(s, t)[i] = s[i] /\ i \in DOMAIN Append(s, t)
    OBVIOUS
  <2> QED BY <2>1 DEF S!ToSet
<1> QED BY <1>1, <1>2, <1>3, <1>4 DEF S!ToSet

\* A pop takes the last closure, and the rest stay where they are.
LEMMA Popped ==
  ASSUME NEW s \in Seq(Tasks), s # <<>>
  PROVE  /\ S!Front(s) \in Seq(Tasks) /\ S!Last(s) \in Tasks
         /\ S!ToSet(s) = S!ToSet(S!Front(s)) \cup {S!Last(s)}
         /\ \A i \in DOMAIN S!Front(s) : i \in DOMAIN s /\ i # Len(s) /\ S!Front(s)[i] = s[i]
<1>1. Len(s) \in Nat \ {0} /\ DOMAIN s = 1..Len(s) /\ S!Last(s) = s[Len(s)]
  BY DEF S!Last
<1>2. /\ S!Front(s) \in Seq(Tasks) /\ DOMAIN S!Front(s) = 1..(Len(s) - 1)
      /\ \A i \in 1..(Len(s) - 1) : S!Front(s)[i] = s[i]
  BY <1>1 DEF S!Front
<1>3. \A i \in DOMAIN S!Front(s) : i \in DOMAIN s /\ i # Len(s) /\ S!Front(s)[i] = s[i]
  BY <1>1, <1>2
<1>4. \A i \in DOMAIN s : i = Len(s) \/ i \in DOMAIN S!Front(s)
  BY <1>1, <1>2
<1>5. S!ToSet(s) = S!ToSet(S!Front(s)) \cup {S!Last(s)}
  BY <1>1, <1>3, <1>4 DEF S!ToSet
<1> QED BY <1>1, <1>2, <1>3, <1>5

\* Nothing is queued.
LEMMA SingleInit == S!Init => S!IInv /\ S!Abstract!Init
<1> SUFFICES ASSUME S!Init PROVE S!IInv /\ S!Abstract!Init
  OBVIOUS
<1>1. S!ToSet(fns) = {} /\ S!ToSet(ran) = {} /\ fns \in Seq(Tasks) /\ ran \in Seq(Tasks) /\ DOMAIN fns = {}
  BY DEF S!Init, S!ToSet
<1>2. S!IInv
  BY <1>1 DEF S!Init, S!IInv, S!TypeOK, S!EachInOnePlace
<1>3. S!Abstract!Init
  BY <1>1, TasksAssumption DEF S!Init, S!Abstract!Init, S!Known
<1> QED BY <1>2, <1>3

\* Whoever queues runs, so not everything queued has returned.
LEMMA SingleQueue ==
  ASSUME S!IInv, NEW t \in Tasks, S!Queue(t)
  PROVE  S!IInv' /\ S!Abstract!Queue(t)
<1> USE TasksAssumption
<1>1. /\ phase = "queueing" \/ current # NoTask
      /\ t \notin S!ToSet(fns) /\ t \notin S!ToSet(ran) /\ t # current
      /\ fns' = Append(fns, t) /\ UNCHANGED <<emptied, phase, current, ran>>
  BY DEF S!Queue, S!Known
<1>2. fns \in Seq(Tasks) /\ ran \in Seq(Tasks) /\ current \in Tasks \cup {NoTask} /\ S!EachInOnePlace
  BY DEF S!IInv, S!TypeOK
<1>3. fns' \in Seq(Tasks) /\ S!ToSet(fns') = S!ToSet(fns) \cup {t}
  BY <1>1, <1>2, Pushed
<1>4. \A i, j \in DOMAIN fns' : fns'[i] = fns'[j] => i = j
  <2>1. \A i \in DOMAIN fns' : (i \in DOMAIN fns /\ fns'[i] = fns[i]) \/ (i = Len(fns) + 1 /\ fns'[i] = t)
    BY <1>1, <1>2
  <2>2. \A i \in DOMAIN fns : fns[i] # t
    BY <1>1 DEF S!ToSet
  <2> QED BY <1>2, <2>1, <2>2 DEF S!EachInOnePlace
<1>5. S!EachInOnePlace'
  <2>1. S!ToSet(ran)' = S!ToSet(ran) /\ S!ToSet(fns)' = S!ToSet(fns')
    BY <1>1 DEF S!ToSet
  <2> QED BY <1>1, <1>2, <1>3, <1>4, <2>1 DEF S!EachInOnePlace
<1>6. S!IInv'
  BY <1>1, <1>3, <1>5 DEF S!IInv, S!TypeOK
<1>7. /\ ~S!Known(t)
      /\ {u \in Tasks : S!Known(u)}' = {u \in Tasks : S!Known(u)} \cup {t}
      /\ S!ToSet(ran') = S!ToSet(ran)
  BY <1>1, <1>3 DEF S!Known
<1>8. phase # "queueing" => {u \in Tasks : S!Known(u)} # S!ToSet(ran)
  BY <1>1, <1>2 DEF S!Known, S!EachInOnePlace
<1>9. S!Abstract!Queue(t)
  BY <1>1, <1>7, <1>8 DEF S!Abstract!Queue
<1> QED BY <1>6, <1>9

\* Popping moves a closure from the stack to the one that runs; for the promise nothing happens.
LEMMA SinglePop ==
  ASSUME S!IInv, S!Pop
  PROVE  S!IInv' /\ UNCHANGED S!Abstract!vars
<1> USE TasksAssumption
<1>1. /\ phase = "draining" /\ current = NoTask /\ fns # <<>>
      /\ current' = S!Last(fns) /\ fns' = S!Front(fns) /\ UNCHANGED <<emptied, phase, ran>>
  BY DEF S!Pop
<1>2. fns \in Seq(Tasks) /\ ran \in Seq(Tasks) /\ S!EachInOnePlace
  BY DEF S!IInv, S!TypeOK
<1>3. /\ fns' \in Seq(Tasks) /\ current' \in Tasks
      /\ S!ToSet(fns) = S!ToSet(fns') \cup {current'}
      /\ \A i \in DOMAIN fns' : i \in DOMAIN fns /\ i # Len(fns) /\ fns'[i] = fns[i]
  BY <1>1, <1>2, Popped
<1>4. current' \notin S!ToSet(fns')
  <2>1. current' = fns[Len(fns)] /\ Len(fns) \in DOMAIN fns
    BY <1>1, <1>2 DEF S!Last
  <2> QED BY <1>2, <1>3, <2>1 DEF S!ToSet, S!EachInOnePlace
<1>5. S!EachInOnePlace'
  <2>1. \A i, j \in DOMAIN fns' : fns'[i] = fns'[j] => i = j
    BY <1>2, <1>3 DEF S!EachInOnePlace
  <2>2. S!ToSet(ran)' = S!ToSet(ran) /\ S!ToSet(fns)' = S!ToSet(fns')
    BY <1>1 DEF S!ToSet
  <2> QED BY <1>2, <1>3, <1>4, <2>1, <2>2 DEF S!EachInOnePlace
<1>6. S!IInv'
  BY <1>1, <1>3, <1>5 DEF S!IInv, S!TypeOK
<1>7. {u \in Tasks : S!Known(u)}' = {u \in Tasks : S!Known(u)} /\ S!ToSet(ran)' = S!ToSet(ran)
  <2>1. \A u \in Tasks : S!Known(u)' <=> S!Known(u)
    BY <1>1, <1>3 DEF S!Known, S!ToSet
  <2> QED BY <1>1, <2>1 DEF S!ToSet
<1>8. UNCHANGED S!Abstract!vars
  BY <1>1, <1>7 DEF S!Abstract!vars
<1> QED BY <1>6, <1>8

\* The closure that runs returns.
LEMMA SingleReturn ==
  ASSUME S!IInv, S!Return
  PROVE  S!IInv' /\ \E t \in Tasks : S!Abstract!Finish(t)
<1> USE TasksAssumption
<1>1. PICK t \in Tasks : t = current
  BY DEF S!IInv, S!TypeOK, S!Return
<1>2. ran' = Append(ran, t) /\ current' = NoTask /\ UNCHANGED <<fns, emptied, phase>>
  BY <1>1 DEF S!Return
<1>3. fns \in Seq(Tasks) /\ ran \in Seq(Tasks) /\ S!EachInOnePlace
  BY DEF S!IInv, S!TypeOK
<1>4. /\ ran' \in Seq(Tasks) /\ S!ToSet(ran') = S!ToSet(ran) \cup {t} /\ S!ToSet(fns') = S!ToSet(fns)
      /\ S!ToSet(fns) \subseteq Tasks /\ S!ToSet(ran') \subseteq Tasks
  BY <1>2, <1>3, Pushed
<1>5. S!EachInOnePlace'
  <2>1. S!ToSet(ran)' = S!ToSet(ran') /\ S!ToSet(fns)' = S!ToSet(fns')
    BY DEF S!ToSet
  <2> QED BY <1>1, <1>2, <1>3, <1>4, <2>1 DEF S!EachInOnePlace
<1>6. S!IInv'
  BY <1>2, <1>4, <1>5 DEF S!IInv, S!TypeOK
<1>7. {u \in Tasks : S!Known(u)}' = {u \in Tasks : S!Known(u)} /\ S!ToSet(ran)' = S!ToSet(ran) \cup {t}
  <2>1. \A u \in Tasks : S!Known(u)' <=> S!Known(u)
    BY <1>1, <1>2, <1>4 DEF S!Known, S!ToSet
  <2> QED BY <1>4, <2>1 DEF S!ToSet
<1>8. S!Known(t) /\ t \notin S!ToSet(ran)
  BY <1>1, <1>3 DEF S!Known, S!EachInOnePlace
<1>9. S!Abstract!Finish(t)
  BY <1>2, <1>7, <1>8 DEF S!Abstract!Finish
<1> QED BY <1>6, <1>9

\* The owner waits, and comes back when the stack is empty and nothing runs.
LEMMA SingleOwner ==
  ASSUME S!IInv, S!CallRunAndWait \/ S!StopDraining
  PROVE  S!IInv' /\ (S!Abstract!CallRunAndWait \/ S!Abstract!Join)
<1> USE TasksAssumption
<1>1. /\ UNCHANGED <<fns, current, ran>> /\ emptied' \in BOOLEAN
      /\ \/ phase = "queueing" /\ phase' = "draining"
         \/ phase = "draining" /\ phase' = "returned" /\ current = NoTask /\ fns = <<>>
  BY DEF S!CallRunAndWait, S!StopDraining, S!IInv, S!TypeOK
<1>2. S!IInv'
  BY <1>1 DEF S!IInv, S!TypeOK, S!EachInOnePlace, S!ToSet
<1>3. {u \in Tasks : S!Known(u)}' = {u \in Tasks : S!Known(u)} /\ S!ToSet(ran)' = S!ToSet(ran)
  BY <1>1 DEF S!Known, S!ToSet
<1>4. CASE phase = "queueing" /\ phase' = "draining"
  BY <1>2, <1>3, <1>4 DEF S!Abstract!CallRunAndWait
<1>5. CASE phase = "draining" /\ phase' = "returned" /\ current = NoTask /\ fns = <<>>
  <2>1. S!ToSet(ran) \subseteq Tasks
    BY DEF S!IInv, S!TypeOK, S!ToSet
  <2>2. {u \in Tasks : S!Known(u)} = S!ToSet(ran)
    BY <1>5, <2>1 DEF S!Known, S!ToSet
  <2> QED BY <1>2, <1>3, <1>5, <2>2 DEF S!Abstract!Join
<1> QED BY <1>1, <1>4, <1>5

\* The group of --singleThreaded implements the fork-join promise too.
THEOREM SingleGroupImplementsForkJoin == S!Spec => SingleImplementsForkJoin
<1>1. S!IInv /\ [S!Next]_S!vars => S!IInv' /\ [S!Abstract!Next]_S!Abstract!vars
  <2> SUFFICES ASSUME S!IInv, [S!Next]_S!vars PROVE S!IInv' /\ [S!Abstract!Next]_S!Abstract!vars
    OBVIOUS
  <2>1. CASE UNCHANGED S!vars
    BY <2>1 DEF S!vars, S!IInv, S!TypeOK, S!EachInOnePlace, S!Abstract!vars, S!Known, S!ToSet
  <2>2. CASE S!Next
    BY <2>2, SingleQueue, SinglePop, SingleReturn, SingleOwner DEF S!Next, S!Abstract!Next
  <2> QED BY <2>1, <2>2
<1> QED BY <1>1, SingleInit, PTL DEF S!Spec, SingleImplementsForkJoin, S!ImplementsForkJoin, S!Abstract!Spec
===============================================================================
