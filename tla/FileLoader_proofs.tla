-------------------------- MODULE FileLoader_proofs --------------------------
(***************************************************************************)
(* The loading half of compiler.fileLoader for every set of files and      *)
(* every graph of references, cyclic ones and repeated references          *)
(* included: the inductive invariant, that the walk starts on a complete   *)
(* and deduplicated graph, and that no file is parsed twice.               *)
(***************************************************************************)
EXTENDS FileLoader, SequenceTheorems, TLAPS

\* The list of slots made for an owner is a sequence of tasks, one an entry.
LEMMA SlotsType ==
  ASSUME program \in Inputs, NEW o \in Owners
  PROVE  /\ RefsOf(o) \in Seq(Refs)
         /\ Slots(o) \in Seq(Tasks)
         /\ Len(Slots(o)) = Len(RefsOf(o))
         /\ \A i \in 1..Len(Slots(o)) : Slots(o)[i] = Slot(o, i)
<1>1. program \in [roots : Seq(Refs), refs : [FileNames -> Seq(Refs)]]
  BY InputAssumption
<1>2. RefsOf(o) \in Seq(Refs)
  BY <1>1 DEF RefsOf, Owners
<1>3. Len(RefsOf(o)) \in Nat
  BY <1>2, LenProperties
<1>4. \A i \in 1..Len(RefsOf(o)) : Slot(o, i) \in Tasks
  BY <1>3 DEF Tasks, Slot
<1>5. Slots(o) \in Seq(Tasks) /\ Len(Slots(o)) = Len(RefsOf(o))
  BY <1>3, <1>4 DEF Slots
<1> QED BY <1>2, <1>5 DEF Slots

\* What an entry refers to is a file.
LEMMA EntryFile ==
  ASSUME program \in Inputs, NEW o \in Owners, NEW i \in 1..Len(RefsOf(o))
  PROVE  RefsOf(o)[i].file \in FileNames
<1>1. RefsOf(o)[i] \in Refs
  BY SlotsType, ElementOfSeq
<1> QED BY <1>1 DEF Refs

\* The loader starts in a state of the invariant: only the roots have slots.
LEMMA InitIInv == LoaderInit => LoaderInv
<1> SUFFICES ASSUME LoaderInit PROVE LoaderInv
  OBVIOUS
<1> USE InputAssumption
<1>1. program \in Inputs /\ Main \in Owners
  BY DEF LoaderInit, Owners
<1>2. /\ Slots(Main) \in Seq(Tasks)
      /\ Len(Slots(Main)) = Len(RefsOf(Main))
      /\ \A i \in 1..Len(Slots(Main)) : Slots(Main)[i] = Slot(Main, i)
  BY <1>1, SlotsType DEF LoaderTypeOK
<1>3. /\ subTasks \in [Owners -> Seq(Tasks)]
      /\ subTasks[Main] = Slots(Main)
      /\ \A f \in FileNames : subTasks[f] = <<>>
  BY <1>1, <1>2 DEF LoaderInit, Owners
<1>4. LoaderTypeOK
  BY <1>3 DEF LoaderInit, LoaderTypeOK
<1>5. SlotsComplete
  BY <1>2, <1>3 DEF LoaderInit, SlotsComplete, Owners
<1>6. SlotsCanonical
  <2> SUFFICES ASSUME NEW o \in Owners, NEW i \in 1..Len(subTasks[o])
               PROVE  subTasks[o][i] = Slot(o, i) /\ ~(i < next[o])
    BY DEF SlotsCanonical
  <2>1. next[o] = 1
    BY DEF LoaderInit
  <2>2. o = Main
    BY <1>3 DEF Owners
  <2> QED BY <1>2, <1>3, <2>1, <2>2
<1>7. StoredStarted
  BY DEF LoaderInit, StoredStarted, Owners
<1>8. LoadFinished /\ PassedAreStored
  BY DEF LoaderInit, LoadFinished, PassedAreStored
<1> QED BY <1>4, <1>5, <1>6, <1>7, <1>8 DEF LoaderInv

\* What an iteration of startTasks knows of the slot it looks at.
LEMMA SlotReached ==
  ASSUME LoaderInv, NEW o \in Owners, Starting(o), next[o] <= Len(subTasks[o])
  PROVE  /\ next[o] \in 1..Len(subTasks[o])
         /\ Len(subTasks[o]) = Len(RefsOf(o))
         /\ subTasks[o][next[o]] = Slot(o, next[o])
         /\ Slot(o, next[o]) \in Tasks
         /\ RefsOf(o)[next[o]].file \in FileNames
         /\ FileOf(subTasks[o][next[o]]) = RefsOf(o)[next[o]].file
<1> USE DEF LoaderInv
<1>1. subTasks[o] \in Seq(Tasks) /\ next[o] \in Nat \ {0}
  BY DEF LoaderTypeOK
<1>2. next[o] \in 1..Len(subTasks[o])
  BY <1>1, LenProperties
<1>3. Len(subTasks[o]) = Len(RefsOf(o))
  BY DEF SlotsComplete, Starting
<1>4. subTasks[o][next[o]] = Slot(o, next[o])
  BY <1>1, <1>2 DEF SlotsCanonical
<1>5. Slot(o, next[o]) \in Tasks
  BY <1>1 DEF Tasks, Slot
<1>6. RefsOf(o)[next[o]].file \in FileNames
  BY <1>2, <1>3, EntryFile DEF LoaderTypeOK
<1>7. FileOf(subTasks[o][next[o]]) = RefsOf(o)[next[o]].file
  BY <1>4 DEF FileOf, Ref, Slot
<1> QED BY <1>2, <1>3, <1>4, <1>5, <1>6, <1>7

\* LoadOrStore finds a task: the slot is redirected to it.
LEMMA ReuseIInv ==
  ASSUME LoaderInv, NEW o \in Owners, StartNext(o),
         stored[RefsOf(o)[next[o]].file] # NoTask
  PROVE  LoaderInv'
<1> DEFINE k == next[o]
           f == RefsOf(o)[k].file
<1>1. /\ k \in 1..Len(subTasks[o]) /\ Len(subTasks[o]) = Len(RefsOf(o))
      /\ f \in FileNames /\ FileOf(subTasks[o][k]) = f /\ Starting(o)
  BY SlotReached DEF StartNext
<1>2. /\ subTasks' = [subTasks EXCEPT ![o][k] = stored[f]]
      /\ next' = [next EXCEPT ![o] = k + 1]
      /\ UNCHANGED <<program, stored, phase, metadata, loader>>
  BY <1>1 DEF StartNext
<1> USE DEF LoaderInv
<1>3. stored[f] \in Tasks /\ subTasks[o] \in Seq(Tasks) /\ k \in Nat
  BY <1>1 DEF LoaderTypeOK
<1>4. /\ [subTasks[o] EXCEPT ![k] = stored[f]] \in Seq(Tasks)
      /\ Len([subTasks[o] EXCEPT ![k] = stored[f]]) = Len(subTasks[o])
      /\ \A j \in 1..Len(subTasks[o]) :
            [subTasks[o] EXCEPT ![k] = stored[f]][j] = IF j = k THEN stored[f] ELSE subTasks[o][j]
  BY <1>1, <1>3, ExceptSeq
<1> HIDE DEF k, f
<1>5. /\ \A q \in Owners : Len(subTasks'[q]) = Len(subTasks[q]) /\ subTasks'[q] \in Seq(Tasks)
      /\ \A q \in Owners : \A j \in 1..Len(subTasks[q]) :
            subTasks'[q][j] = IF q = o /\ j = k THEN stored[f] ELSE subTasks[q][j]
      /\ \A q \in Owners : next'[q] = IF q = o THEN k + 1 ELSE next[q]
      /\ \A q \in Owners : RefsOf(q)' = RefsOf(q)
      /\ subTasks' \in [Owners -> Seq(Tasks)]
  BY <1>2, <1>4 DEF LoaderTypeOK, RefsOf
<1>6. LoaderTypeOK'
  BY <1>2, <1>3, <1>5 DEF LoaderTypeOK
<1>7. SlotsComplete'
  BY <1>2, <1>5 DEF SlotsComplete
<1>8. SlotsCanonical'
  <2> SUFFICES ASSUME NEW q \in Owners, NEW j \in 1..Len(subTasks[q])
               PROVE  subTasks'[q][j] = IF j < next'[q] THEN stored[RefsOf(q)[j].file] ELSE Slot(q, j)
    BY <1>2, <1>5 DEF SlotsCanonical
  <2>1. subTasks[q][j] = IF j < next[q] THEN stored[RefsOf(q)[j].file] ELSE Slot(q, j)
    BY DEF SlotsCanonical
  <2>2. j \in Nat /\ next[q] \in Nat /\ (q = o => next[q] = k)
    BY DEF LoaderTypeOK, k
  <2>3. CASE q = o /\ j = k
    BY <1>3, <1>5, <2>3 DEF f
  <2>4. CASE ~(q = o /\ j = k)
    BY <1>3, <1>5, <2>1, <2>2, <2>4
  <2> QED BY <2>3, <2>4
<1>9. StoredStarted'
  <2>1. \A g \in FileNames : phase[g] \in {"idle", "queued", "done"} => g # o
    <3> SUFFICES ASSUME NEW g \in FileNames, g = o PROVE phase[g] = "starting"
      OBVIOUS
    <3> QED BY <1>1, InputAssumption DEF Starting
  <2>2. FileNames \subseteq Owners
    BY DEF Owners
  <2> QED BY <1>2, <1>5, <2>1, <2>2 DEF StoredStarted
<1>10. LoadFinished'
  <2>1. Main \in Owners
    BY DEF Owners
  <2>2. o = Main => loader = "starting"
    BY <1>1 DEF Starting
  <2> QED BY <1>2, <1>5, <2>1, <2>2 DEF LoadFinished
<1>11. PassedAreStored'
  <2> SUFFICES ASSUME NEW q \in Owners, NEW j \in 1..Len(RefsOf(q)), j < next'[q]
               PROVE  stored[RefsOf(q)[j].file] # NoTask
    BY <1>2, <1>5 DEF PassedAreStored
  <2>1. j \in Nat /\ next[q] \in Nat /\ (q = o => next[q] = k)
    BY DEF LoaderTypeOK, k
  <2>2. CASE q = o /\ j = k
    BY <2>2 DEF f, k
  <2>3. CASE ~(q = o /\ j = k)
    BY <1>3, <1>5, <2>1, <2>3 DEF PassedAreStored
  <2> QED BY <2>2, <2>3
<1> QED BY <1>6, <1>7, <1>8, <1>9, <1>10, <1>11

\* LoadOrStore stores the slot's own task, which is then started.
LEMMA StoreIInv ==
  ASSUME LoaderInv, NEW o \in Owners, StartNext(o),
         stored[RefsOf(o)[next[o]].file] = NoTask
  PROVE  LoaderInv'
<1> DEFINE k == next[o]
           f == RefsOf(o)[k].file
<1>1. /\ k \in 1..Len(subTasks[o]) /\ Len(subTasks[o]) = Len(RefsOf(o))
      /\ f \in FileNames /\ FileOf(subTasks[o][k]) = f /\ Starting(o)
      /\ subTasks[o][k] = Slot(o, k) /\ Slot(o, k) \in Tasks
  BY SlotReached DEF StartNext
<1>2. /\ stored' = [stored EXCEPT ![f] = Slot(o, k)]
      /\ phase' = [phase EXCEPT ![f] = "queued"]
      /\ next' = [next EXCEPT ![o] = k + 1]
      /\ UNCHANGED <<program, subTasks, metadata, loader>>
  BY <1>1 DEF StartNext
<1> USE DEF LoaderInv
<1>3. Slot(o, k) # NoTask
  BY <1>1, InputAssumption DEF Tasks
<1>4. stored[f] = NoTask /\ phase[f] = "idle" /\ metadata[f] = "idle" /\ next[f] = 1
  BY <1>1 DEF StoredStarted
<1>5. f # o
  BY <1>1, <1>4, InputAssumption DEF Starting
<1> HIDE DEF k, f
<1>6. /\ \A q \in Owners : next'[q] = IF q = o THEN k + 1 ELSE next[q]
      /\ \A g \in FileNames : stored'[g] = IF g = f THEN Slot(o, k) ELSE stored[g]
      /\ \A g \in FileNames : phase'[g] = IF g = f THEN "queued" ELSE phase[g]
      /\ \A q \in Owners : RefsOf(q)' = RefsOf(q)
      /\ k \in Nat
  BY <1>1, <1>2 DEF LoaderTypeOK, RefsOf
<1>7. LoaderTypeOK'
  BY <1>1, <1>2, <1>6 DEF LoaderTypeOK
<1>8. SlotsComplete'
  BY <1>2, <1>6, InputAssumption, <1>4 DEF SlotsComplete, Owners
<1>9. SlotsCanonical'
  <2> SUFFICES ASSUME NEW q \in Owners, NEW j \in 1..Len(subTasks[q])
               PROVE  subTasks[q][j] = IF j < next'[q] THEN stored'[RefsOf(q)[j].file] ELSE Slot(q, j)
    BY <1>2, <1>6 DEF SlotsCanonical
  <2>1. subTasks[q][j] = IF j < next[q] THEN stored[RefsOf(q)[j].file] ELSE Slot(q, j)
    BY DEF SlotsCanonical
  <2>2. j \in Nat /\ next[q] \in Nat /\ (q = o => next[q] = k)
    BY DEF LoaderTypeOK, k
  <2>3. CASE q = o /\ j = k
    BY <1>1, <1>6, <2>3 DEF f
  <2>4. CASE ~(q = o /\ j = k) /\ j < next[q]
    <3>1. q = Main \/ phase[q] \in {"starting", "done"}
      <4>1. CASE q = Main
        BY <4>1
      <4>2. CASE q \in FileNames
        BY <4>2, <2>4, <2>2 DEF StoredStarted, LoaderTypeOK
      <4> QED BY <4>1, <4>2 DEF Owners
    <3>2. j \in 1..Len(RefsOf(q))
      BY <3>1 DEF SlotsComplete
    <3>3. RefsOf(q)[j].file \in FileNames
      BY <3>2, EntryFile DEF LoaderTypeOK
    <3>4. stored[RefsOf(q)[j].file] # NoTask
      BY <2>4, <3>2 DEF PassedAreStored
    <3> QED BY <1>4, <1>6, <2>1, <2>2, <2>4, <3>3, <3>4
  <2>5. CASE ~(q = o /\ j = k) /\ ~(j < next[q])
    BY <1>6, <2>1, <2>2, <2>5
  <2> QED BY <2>3, <2>4, <2>5
<1>10. StoredStarted'
  <2>1. \A g \in FileNames : phase[g] \in {"idle", "queued", "done"} => g # o
    <3> SUFFICES ASSUME NEW g \in FileNames, g = o PROVE phase[g] = "starting"
      OBVIOUS
    <3> QED BY <1>1, InputAssumption DEF Starting
  <2>2. FileNames \subseteq Owners
    BY DEF Owners
  <2> QED BY <1>2, <1>3, <1>4, <1>5, <1>6, <2>1, <2>2 DEF StoredStarted
<1>11. LoadFinished'
  <2>1. Main \in Owners
    BY DEF Owners
  <2>2. o = Main => loader = "starting"
    BY <1>1 DEF Starting
  <2>3. loader \notin {"collecting", "done"}
    <3>1. o # Main => o \in FileNames /\ phase[o] = "starting"
      BY <1>1 DEF Starting, Owners
    <3> QED BY <2>2, <3>1 DEF LoadFinished
  <2> QED BY <1>2, <1>6, <2>1, <2>2, <2>3 DEF LoadFinished
<1>12. PassedAreStored'
  <2> SUFFICES ASSUME NEW q \in Owners, NEW j \in 1..Len(RefsOf(q)), j < next'[q]
               PROVE  stored'[RefsOf(q)[j].file] # NoTask
    BY <1>2, <1>6 DEF PassedAreStored
  <2>1. j \in Nat /\ next[q] \in Nat /\ (q = o => next[q] = k)
    BY DEF LoaderTypeOK, k
  <2>2. RefsOf(q)[j].file \in FileNames
    BY EntryFile DEF LoaderTypeOK
  <2>3. CASE q = o /\ j = k
    BY <1>1, <1>3, <1>6, <2>3 DEF f, k
  <2>4. CASE ~(q = o /\ j = k)
    <3>1. stored[RefsOf(q)[j].file] # NoTask
      BY <1>6, <2>1, <2>4 DEF PassedAreStored
    <3> QED BY <1>3, <1>6, <2>2, <3>1
  <2> QED BY <2>3, <2>4
<1> QED BY <1>7, <1>8, <1>9, <1>10, <1>11, <1>12

\* The closure builds the slots of its file, none of which is passed yet.
LEMMA ParseIInv ==
  ASSUME LoaderInv, NEW f \in FileNames, Parse(f)
  PROVE  LoaderInv'
<1> USE DEF LoaderInv, Parse
<1>1. f \in Owners /\ f # Main
  BY InputAssumption DEF Owners
<1>2. /\ Slots(f) \in Seq(Tasks) /\ Len(Slots(f)) = Len(RefsOf(f))
      /\ \A i \in 1..Len(Slots(f)) : Slots(f)[i] = Slot(f, i)
  BY <1>1, SlotsType DEF LoaderTypeOK
<1>3. next[f] = 1
  BY DEF StoredStarted
<1>4. /\ \A q \in Owners : subTasks'[q] = IF q = f THEN Slots(f) ELSE subTasks[q]
      /\ \A q \in Owners : RefsOf(q)' = RefsOf(q)
  BY <1>1 DEF LoaderTypeOK, RefsOf
<1>5. LoaderTypeOK'
  BY <1>1, <1>2 DEF LoaderTypeOK
<1>6. SlotsComplete'
  BY <1>2, <1>4 DEF SlotsComplete, LoaderTypeOK, Owners
<1>7. SlotsCanonical'
  <2> SUFFICES ASSUME NEW q \in Owners, NEW j \in 1..Len(subTasks'[q])
               PROVE  subTasks'[q][j] =
                          IF j < next[q] THEN stored[RefsOf(q)[j].file] ELSE Slot(q, j)
    BY <1>4 DEF SlotsCanonical
  <2>1. CASE q = f
    BY <1>2, <1>3, <1>4, <2>1
  <2>2. CASE q # f
    BY <1>4, <2>2 DEF SlotsCanonical
  <2> QED BY <2>1, <2>2
<1>8. StoredStarted'
  BY <1>4, <1>1 DEF StoredStarted, LoaderTypeOK, Owners
<1>9. LoadFinished'
  BY <1>1, <1>4 DEF LoadFinished, LoaderTypeOK, Owners
<1>10. PassedAreStored'
  BY <1>4 DEF PassedAreStored
<1> QED BY <1>5, <1>6, <1>7, <1>8, <1>9, <1>10

\* The steps that only move a closure or the main goroutine on.
LEMMA EndParseIInv ==
  ASSUME LoaderInv, NEW f \in FileNames, EndParse(f)
  PROVE  LoaderInv'
<1> USE DEF LoaderInv, EndParse
<1>1. \A q \in Owners : RefsOf(q)' = RefsOf(q)
  BY DEF RefsOf
<1>2. LoaderTypeOK' /\ SlotsCanonical' /\ PassedAreStored'
  BY <1>1 DEF LoaderTypeOK, SlotsCanonical, PassedAreStored
<1>3. SlotsComplete'
  BY <1>1 DEF SlotsComplete, LoaderTypeOK, Owners
<1>4. StoredStarted'
  BY DEF StoredStarted, LoaderTypeOK
<1>5. LoadFinished'
  BY DEF LoadFinished, LoaderTypeOK
<1> QED BY <1>2, <1>3, <1>4, <1>5

\* The metadata closure ends.
LEMMA LoadMetaDataIInv ==
  ASSUME LoaderInv, NEW f \in FileNames, LoadMetaData(f)
  PROVE  LoaderInv'
<1> USE DEF LoaderInv, LoadMetaData
<1>1. \A q \in Owners : RefsOf(q)' = RefsOf(q)
  BY DEF RefsOf
<1>2. LoaderTypeOK' /\ SlotsComplete' /\ SlotsCanonical' /\ PassedAreStored'
  BY <1>1 DEF LoaderTypeOK, SlotsComplete, SlotsCanonical, PassedAreStored
<1>3. StoredStarted' /\ LoadFinished'
  BY DEF StoredStarted, LoadFinished, LoaderTypeOK
<1> QED BY <1>2, <1>3

\* The main goroutine leaves its loop, the wait and the walk.
LEMMA MainIInv ==
  ASSUME LoaderInv, CallRunAndWait \/ Join \/ Visit \/ Yield \/ Finish
  PROVE  LoaderInv'
<1> USE DEF LoaderInv
<1>1. UNCHANGED tasking
  BY DEF CallRunAndWait, Join, Visit, Yield, Finish
<1>2. /\ loader' \in {"starting", "waiting", "collecting", "done"}
      /\ loader' # "starting" => next[Main] > Len(subTasks[Main])
      /\ loader' \in {"collecting", "done"} =>
           \A f \in FileNames : phase[f] \in {"idle", "done"} /\ metadata[f] \in {"idle", "done"}
  BY DEF CallRunAndWait, Join, Visit, Yield, Finish, LoadFinished, LoaderTypeOK
<1>3. LoaderTypeOK'
  BY <1>1, <1>2 DEF tasking, LoaderTypeOK
<1>4. SlotsComplete'
  BY <1>1 DEF tasking, SlotsComplete, RefsOf
<1>5. SlotsCanonical'
  BY <1>1 DEF tasking, SlotsCanonical, RefsOf
<1>6. StoredStarted'
  BY <1>1 DEF tasking, StoredStarted
<1>7. PassedAreStored'
  BY <1>1 DEF tasking, PassedAreStored, RefsOf
<1>8. LoadFinished'
  BY <1>1, <1>2 DEF tasking, LoadFinished
<1> QED BY <1>3, <1>4, <1>5, <1>6, <1>7, <1>8

\* Every step of the loader keeps the invariant.
LEMMA NextIInv == LoaderInv /\ [LoaderNext]_loaderVars => LoaderInv'
<1> SUFFICES ASSUME LoaderInv, [LoaderNext]_loaderVars PROVE LoaderInv'
  OBVIOUS
<1>1. ASSUME NEW o \in Owners, StartNext(o) PROVE LoaderInv'
  BY <1>1, ReuseIInv, StoreIInv
<1>2. ASSUME NEW f \in FileNames, Parse(f) PROVE LoaderInv'
  BY <1>2, ParseIInv
<1>3. ASSUME NEW f \in FileNames, EndParse(f) PROVE LoaderInv'
  BY <1>3, EndParseIInv
<1>4. ASSUME NEW f \in FileNames, LoadMetaData(f) PROVE LoaderInv'
  BY <1>4, LoadMetaDataIInv
<1>5. ASSUME CallRunAndWait \/ Join \/ Visit \/ Yield \/ Finish PROVE LoaderInv'
  BY <1>5, MainIInv
<1>6. CASE UNCHANGED loaderVars
  BY <1>6 DEF loaderVars, tasking, LoaderInv, LoaderTypeOK, SlotsComplete, SlotsCanonical, StoredStarted,
              LoadFinished, PassedAreStored, RefsOf
<1> QED BY <1>1, <1>2, <1>3, <1>4, <1>5, <1>6 DEF LoaderNext

\* The inductive invariant holds in every reachable state.
THEOREM LoaderInvariant == LoaderSpec => []LoaderInv
  BY InitIInv, NextIInv, PTL DEF LoaderSpec

\* The walk of collectTasks never meets a reference whose file is not loaded, nor
\* a slot that still holds a task which lost the race to be stored.
THEOREM WalkSeesWholeGraph == LoaderSpec => []LoadedBeforeCollecting
<1>1. LoaderInv => LoadedBeforeCollecting
  <2> SUFFICES ASSUME LoaderInv, loader \in {"collecting", "done"}, NEW o \in Owners,
                      o = Main \/ stored[o] # NoTask, NEW i \in 1..Len(RefsOf(o))
               PROVE  LET f == RefsOf(o)[i].file
                      IN  phase[f] = "done" /\ metadata[f] = "done" /\ subTasks[o][i] = stored[f]
    BY DEF LoadedBeforeCollecting
  <2> USE DEF LoaderInv
  <2>1. o # Main => o \in FileNames /\ phase[o] = "done"
    BY DEF LoadFinished, StoredStarted, Owners
  <2>2. Len(subTasks[o]) = Len(RefsOf(o)) /\ next[o] > Len(subTasks[o])
    BY <2>1 DEF SlotsComplete, LoadFinished, StoredStarted, Owners
  <2>3. Len(RefsOf(o)) \in Nat /\ next[o] \in Nat
    BY SlotsType, LenProperties DEF LoaderTypeOK
  <2>4. i < next[o]
    BY <2>2, <2>3
  <2>5. RefsOf(o)[i].file \in FileNames
    BY EntryFile DEF LoaderTypeOK
  <2>6. stored[RefsOf(o)[i].file] # NoTask
    BY <2>4 DEF PassedAreStored
  <2>7. subTasks[o][i] = stored[RefsOf(o)[i].file]
    BY <2>2, <2>4 DEF SlotsCanonical
  <2>8. phase[RefsOf(o)[i].file] = "done"
    BY <2>5, <2>6 DEF LoadFinished, StoredStarted
  <2>9. metadata[RefsOf(o)[i].file] = "done"
    BY <2>5, <2>8 DEF LoadFinished, StoredStarted
  <2> QED BY <2>7, <2>8, <2>9
<1> QED BY <1>1, LoaderInvariant, PTL

\* LoadOrStore makes the loader parse each file once, in every schedule.
THEOREM EachFileParsedOnce == LoaderSpec => ParsedOnce
<1> DEFINE Once == \A f \in FileNames :
                      stored[f] # NoTask =>
                          /\ stored'[f] = stored[f]
                          /\ phase'[f] = "queued" => phase[f] = "queued"
<1>1. ASSUME LoaderInv, LoaderNext PROVE Once
  <2>1. ASSUME NEW o \in Owners, StartNext(o) PROVE Once
    <3> DEFINE g == FileOf(subTasks[o][next[o]])
    <3>1. g \in FileNames
      BY <1>1, <2>1, SlotReached DEF StartNext
    <3>2. \/ UNCHANGED <<stored, phase>>
          \/ /\ stored[g] = NoTask
             /\ stored' = [stored EXCEPT ![g] = subTasks[o][next[o]]]
             /\ phase' = [phase EXCEPT ![g] = "queued"]
      BY <2>1 DEF StartNext
    <3> HIDE DEF g
    <3> QED BY <1>1, <3>1, <3>2 DEF LoaderInv, LoaderTypeOK
  <2>2. ASSUME NEW f \in FileNames, Parse(f) PROVE Once
    BY <1>1, <2>2 DEF Parse, LoaderInv, LoaderTypeOK
  <2>3. ASSUME NEW f \in FileNames, EndParse(f) PROVE Once
    BY <1>1, <2>3 DEF EndParse, LoaderInv, LoaderTypeOK
  <2>4. ASSUME NEW f \in FileNames, LoadMetaData(f) PROVE Once
    BY <2>4 DEF LoadMetaData
  <2>5. ASSUME CallRunAndWait \/ Join \/ Visit \/ Yield \/ Finish PROVE Once
    BY <2>5 DEF CallRunAndWait, Join, Visit, Yield, Finish, tasking
  <2> QED BY <1>1, <2>1, <2>2, <2>3, <2>4, <2>5 DEF LoaderNext
<1>2. ASSUME UNCHANGED loaderVars PROVE Once
  BY <1>2 DEF loaderVars, tasking
<1>3. LoaderInv /\ [LoaderNext]_loaderVars => [Once]_loaderVars
  BY <1>1, <1>2
<1> QED BY <1>3, LoaderInvariant, PTL DEF LoaderSpec, ParsedOnce
=============================================================================
