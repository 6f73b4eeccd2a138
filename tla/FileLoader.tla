------------------------------ MODULE FileLoader ------------------------------
(***************************************************************************)
(* compiler.fileLoader (internal/compiler/fileloader.go): the parse tasks  *)
(* that load a program's files concurrently, and the walk that puts them   *)
(* in order once they have all been loaded.                                *)
(*                                                                         *)
(* A task is one *parseTask.  It is named by the slot it was created for,  *)
(* <<owner, i>>: the i-th root, or the i-th reference of the file "owner". *)
(* startTasks replaces it in that slot by the task that was stored first   *)
(* under the same file name.  What a file refers to, after resolution, is  *)
(* an input: program.refs[f] lists the references in the order in which    *)
(* parseTask.start adds them as subtasks.                                  *)
(*                                                                         *)
(* The work group is used as ParallelWorkGroup shows it may be: closures   *)
(* run in any order and RunAndWait returns after all of them.  A           *)
(* definition whose comment begins with "Variant" is the next one with a   *)
(* plausible bug; the specification does not use it.                       *)
(***************************************************************************)
EXTENDS Integers, Sequences, SequencesExt

CONSTANTS
    FileNames,    \* normalized file names
    Inputs,       \* the inputs: records [roots, refs]
    LibPriority,  \* getDefaultLibFilePriority
    Main,         \* the goroutine of processAllProgramFiles, owner of rootTasks
    NoTask        \* no task is stored under a name

Owners == FileNames \cup {Main}

\* A reference names a file and says whether it is to a library.
Refs == [file : FileNames, lib : BOOLEAN]

ASSUME InputAssumption ==
    /\ Main \notin FileNames
    /\ LibPriority \in [FileNames -> Nat]
    /\ Inputs \subseteq [roots : Seq(Refs), refs : [FileNames -> Seq(Refs)]]
    /\ NoTask \notin Owners \X Nat

VARIABLES
    program,   \* the input being loaded
    stored,    \* tasksByFileName
    phase,     \* how far the parse closure of the task stored for a file is
    metadata,  \* how far the metadata closure of that task is
    subTasks,  \* the slots: rootTasks for Main, subTasks for the stored tasks
    next,      \* the index startTasks has reached in each list of slots
    loader,    \* what processAllProgramFiles is doing
    stack,     \* the activations of collectTasksWorker
    seen,      \* the tasks collectTasksWorker has entered
    order,     \* the tasks it has yielded
    files      \* processedFiles.files

tasking == <<program, stored, phase, metadata, subTasks, next>>
walking == <<stack, seen, order>>
loaderVars == <<tasking, loader, walking, files>>

RefsOf(o) == IF o = Main THEN program.roots ELSE program.refs[o]

Ref(task) == RefsOf(task[1])[task[2]]
FileOf(task) == Ref(task).file

\* The task made for the i-th entry of owner o.
Slot(o, i) == <<o, i>>

Slots(o) == [i \in 1..Len(RefsOf(o)) |-> Slot(o, i)]

\* A task whose closure ran has a file; one that lost the race has not.
HasFile(task) == stored[FileOf(task)] = task

LoaderInit ==
    /\ program \in Inputs
    /\ stored = [f \in FileNames |-> NoTask]
    /\ phase = [f \in FileNames |-> "idle"]
    /\ metadata = [f \in FileNames |-> "idle"]
    /\ subTasks = [o \in Owners |-> IF o = Main THEN Slots(Main) ELSE <<>>]
    /\ next = [o \in Owners |-> 1]
    /\ loader = "starting"
    /\ stack = <<>>
    /\ seen = {}
    /\ order = <<>>
    /\ files = <<>>

\* Owner o is inside startTasks.
Starting(o) == IF o = Main THEN loader = "starting" ELSE phase[o] = "starting"

\* Variant: tasks[i] = loadedTask is missing.
StartNextKeepingTask(o) ==
    /\ Starting(o)
    /\ next[o] <= Len(subTasks[o])
    /\ LET task == subTasks[o][next[o]]
           f    == FileOf(task)
       IN  IF stored[f] # NoTask THEN UNCHANGED <<stored, phase>>
           ELSE /\ stored' = [stored EXCEPT ![f] = task]
                /\ phase' = [phase EXCEPT ![f] = "queued"]
    /\ next' = [next EXCEPT ![o] = next[o] + 1]
    /\ UNCHANGED <<program, metadata, subTasks, loader, walking, files>>

\* Variant: Store for LoadOrStore.
StartNextStoring(o) ==
    /\ Starting(o)
    /\ next[o] <= Len(subTasks[o])
    /\ LET task == subTasks[o][next[o]]
       IN  /\ stored' = [stored EXCEPT ![FileOf(task)] = task]
           /\ phase' = [phase EXCEPT ![FileOf(task)] = "queued"]
    /\ next' = [next EXCEPT ![o] = next[o] + 1]
    /\ UNCHANGED <<program, metadata, subTasks, loader, walking, files>>

\* One iteration of startTasks: LoadOrStore, then reuse the loaded task or
\* start the stored one, which queues its closure.
StartNext(o) ==
    /\ Starting(o)
    /\ next[o] <= Len(subTasks[o])
    /\ LET task == subTasks[o][next[o]]
           f    == FileOf(task)
       IN  \/ /\ stored[f] # NoTask
              /\ subTasks' = [subTasks EXCEPT ![o][next[o]] = stored[f]]
              /\ UNCHANGED <<stored, phase>>
           \/ /\ stored[f] = NoTask
              /\ stored' = [stored EXCEPT ![f] = task]
              /\ phase' = [phase EXCEPT ![f] = "queued"]
              /\ UNCHANGED subTasks
    /\ next' = [next EXCEPT ![o] = next[o] + 1]
    /\ UNCHANGED <<program, metadata, loader, walking, files>>

\* The closure of start, up to its call of startTasks: parse the file, queue
\* the metadata closure, resolve the references into fresh subtasks.
Parse(f) ==
    /\ phase[f] = "queued"
    /\ phase' = [phase EXCEPT ![f] = "starting"]
    /\ metadata' = [metadata EXCEPT ![f] = "queued"]
    /\ subTasks' = [subTasks EXCEPT ![f] = Slots(f)]
    /\ UNCHANGED <<program, stored, next, loader, walking, files>>

\* Variant: the loop of startTasks waits for one task too many.
EndParseLate(f) ==
    /\ phase[f] = "starting"
    /\ next[f] > Len(subTasks[f]) + 1
    /\ phase' = [phase EXCEPT ![f] = "done"]
    /\ UNCHANGED <<program, stored, metadata, subTasks, next, loader, walking, files>>

\* The closure returns from startTasks and ends.
EndParse(f) ==
    /\ phase[f] = "starting"
    /\ next[f] > Len(subTasks[f])
    /\ phase' = [phase EXCEPT ![f] = "done"]
    /\ UNCHANGED <<program, stored, metadata, subTasks, next, loader, walking, files>>

\* The closure that calls loadSourceFileMetaData.
LoadMetaData(f) ==
    /\ metadata[f] = "queued"
    /\ metadata' = [metadata EXCEPT ![f] = "done"]
    /\ UNCHANGED <<program, stored, phase, subTasks, next, loader, walking, files>>

CallRunAndWait ==
    /\ loader = "starting"
    /\ next[Main] > Len(subTasks[Main])
    /\ loader' = "waiting"
    /\ UNCHANGED <<tasking, walking, files>>

\* Variant: the metadata closures are not in the work group.
JoinWithoutMetadata ==
    /\ loader = "waiting"
    /\ \A f \in FileNames : phase[f] \in {"idle", "done"}
    /\ loader' = "collecting"
    /\ stack' = <<[owner |-> Main, at |-> 1]>>
    /\ UNCHANGED <<tasking, seen, order, files>>

\* RunAndWait returns and collectTasks starts on the roots.
Join ==
    /\ loader = "waiting"
    /\ \A f \in FileNames : phase[f] \in {"idle", "done"} /\ metadata[f] \in {"idle", "done"}
    /\ loader' = "collecting"
    /\ stack' = <<[owner |-> Main, at |-> 1]>>
    /\ UNCHANGED <<tasking, seen, order, files>>

Top == Last(stack)
Advance(s) == [s EXCEPT ![Len(s)].at = @ + 1]

\* collectTasksWorker looks at the next task of the list it is on: skip one it
\* has seen, enter the list of one it has not (an unstarted task has no list).
Visit ==
    /\ loader = "collecting"
    /\ stack # <<>>
    /\ Top.at <= Len(subTasks[Top.owner])
    /\ LET task == subTasks[Top.owner][Top.at]
       IN  IF task \in seen \/ ~HasFile(task)
           THEN stack' = Advance(stack) /\ seen' = seen \cup {task}
           ELSE /\ stack' = Append(stack, [owner |-> FileOf(task), at |-> 1])
                /\ seen' = seen \cup {task}
    /\ UNCHANGED <<tasking, loader, order, files>>

\* The list of a task is exhausted: yield the task, go on in the list above.
Yield ==
    /\ loader = "collecting"
    /\ Len(stack) > 1
    /\ Top.at > Len(subTasks[Top.owner])
    /\ order' = Append(order, stored[Top.owner])
    /\ stack' = Advance(Front(stack))
    /\ UNCHANGED <<tasking, loader, seen, files>>

\* The walk is over: libraries first, by priority, then the other files.
Finish ==
    /\ loader = "collecting"
    /\ Len(stack) = 1
    /\ Top.at > Len(subTasks[Main])
    /\ LET libs   == SelectSeq(order, LAMBDA t : Ref(t).lib)
           others == SelectSeq(order, LAMBDA t : ~Ref(t).lib)
           before(t, u) == LibPriority[FileOf(t)] < LibPriority[FileOf(u)]
           sorted == SortSeq(libs, before) \o others
       IN  files' = [i \in 1..Len(sorted) |-> FileOf(sorted[i])]
    /\ stack' = <<>>
    /\ loader' = "done"
    /\ UNCHANGED <<tasking, seen, order>>

LoaderNext ==
    \/ \E o \in Owners : StartNext(o)
    \/ \E f \in FileNames : Parse(f) \/ EndParse(f) \/ LoadMetaData(f)
    \/ CallRunAndWait
    \/ Join
    \/ Visit
    \/ Yield
    \/ Finish

LoaderSpec == LoaderInit /\ [][LoaderNext]_loaderVars

\* Every goroutine is scheduled until it ends.
Fairness ==
    /\ \A o \in Owners : WF_loaderVars(StartNext(o))
    /\ \A f \in FileNames :
           WF_loaderVars(Parse(f)) /\ WF_loaderVars(EndParse(f)) /\ WF_loaderVars(LoadMetaData(f))
    /\ WF_loaderVars(CallRunAndWait \/ Join \/ Visit \/ Yield \/ Finish)

FairSpec == LoaderSpec /\ Fairness

-----------------------------------------------------------------------------
Tasks == Owners \X Nat

LoaderTypeOK ==
    /\ program \in Inputs
    /\ stored \in [FileNames -> Tasks \cup {NoTask}]
    /\ phase \in [FileNames -> {"idle", "queued", "starting", "done"}]
    /\ metadata \in [FileNames -> {"idle", "queued", "done"}]
    /\ subTasks \in [Owners -> Seq(Tasks)]
    /\ next \in [Owners -> Nat \ {0}]
    /\ loader \in {"starting", "waiting", "collecting", "done"}

\* A list of slots is created whole, and startTasks never changes its length.
SlotsComplete ==
    \A o \in Owners :
        (o = Main \/ phase[o] \in {"starting", "done"}) =>
            Len(subTasks[o]) = Len(RefsOf(o))

\* Before startTasks reaches a slot it holds the task made for it, and after
\* that the task stored for the file, the same one in every list.
SlotsCanonical ==
    \A o \in Owners : \A i \in 1..Len(subTasks[o]) :
        subTasks[o][i] = IF i < next[o] THEN stored[RefsOf(o)[i].file] ELSE Slot(o, i)

\* What was stored is a task for that file, and its closure was queued.
StoredStarted ==
    \A f \in FileNames :
        /\ phase[f] = "idle" <=> stored[f] = NoTask
        /\ phase[f] \in {"idle", "queued"} <=> metadata[f] = "idle"
        /\ phase[f] \in {"idle", "queued"} => next[f] = 1
        /\ phase[f] = "done" => next[f] > Len(subTasks[f])

\* The loops of Main and of the ended closures have gone over all their slots,
\* and past the join no closure is left.
LoadFinished ==
    /\ loader # "starting" => next[Main] > Len(subTasks[Main])
    /\ loader \in {"collecting", "done"} =>
           \A f \in FileNames : phase[f] \in {"idle", "done"} /\ metadata[f] \in {"idle", "done"}

\* Every slot startTasks has passed names a file that is stored.
PassedAreStored ==
    \A o \in Owners : \A i \in 1..Len(RefsOf(o)) :
        i < next[o] => stored[RefsOf(o)[i].file] # NoTask

\* The inductive invariant.
LoaderInv ==
    /\ LoaderTypeOK
    /\ SlotsComplete
    /\ SlotsCanonical
    /\ StoredStarted
    /\ LoadFinished
    /\ PassedAreStored

\* When the walk begins, the roots are loaded, and so is everything a loaded
\* file refers to, with its metadata: no schedule of the closures leaves a hole
\* in the graph the walk reads without a lock (fileloader.go:82-95).
LoadedBeforeCollecting ==
    loader \in {"collecting", "done"} =>
        \A o \in Owners :
            o = Main \/ stored[o] # NoTask =>
                \A i \in 1..Len(RefsOf(o)) :
                    LET f == RefsOf(o)[i].file
                    IN  phase[f] = "done" /\ metadata[f] = "done" /\ subTasks[o][i] = stored[f]

\* A file is stored, queued and parsed once, whoever refers to it and in
\* whatever order the references are reached (the LoadOrStore of startTasks).
ParsedOnce ==
    [][\A f \in FileNames :
           stored[f] # NoTask =>
               /\ stored'[f] = stored[f]
               /\ phase'[f] = "queued" => phase[f] = "queued"]_loaderVars

\* Once it has stored a task processAllProgramFiles returns, whatever cycles the references form.
LoadingEnds == (\E f \in FileNames : stored[f] # NoTask) ~> loader = "done"
=============================================================================
