------------------------------- MODULE Watcher -------------------------------
(***************************************************************************)
(* tsc --watch: internal/execute's watcher.  Each cycle reads the config   *)
(* again, builds a program, compares the times of its files with those of  *)
(* the cycle before, and compiles and emits when one differs.  Nothing     *)
(* holds the disk still: the user writes between any two of these steps,   *)
(* also between the read of a file and the look at its time.               *)
(***************************************************************************)
EXTENDS Naturals, FiniteSets

CONSTANTS
  SourceFiles,    \* source files the config may list
  MaxWrites,      \* bound on the writes and deletes of one file
  MaxConfigs      \* bound on the changes of the config file

WatcherAssumption == MaxWrites \in Nat /\ MaxConfigs \in Nat

VARIABLES
  disk,           \* version of each file, Missing if it is not there
  written,        \* the last version given to each file: the clock of its times
  config,         \* the config file: readable or not, and which version
  step,           \* what doCycle is doing
  options,        \* version of the config that was parsed last (w.options)
  fileNames,      \* the files it lists
  configModified,
  program,        \* version of each file the program was built from
  currState, prevModified,  \* version each file had when it was statted; Missing if none
  filesModified,
  outputs         \* version each file was last emitted from

envVars == <<disk, written, config>>
watcherVars == <<envVars, step, options, fileNames, configModified, program, currState,
                prevModified, filesModified, outputs>>

Missing == 0
Nothing == [f \in SourceFiles |-> Missing]
Present == {f \in SourceFiles : disk[f] # Missing}

WatcherInit ==
  /\ written \in [SourceFiles -> {0, 1}] /\ disk = written
  /\ config = [ok |-> TRUE, version |-> 1]
  /\ step = "sleep" /\ options = 1
  /\ fileNames = {} /\ configModified = FALSE
  /\ program = Nothing /\ currState = Nothing /\ prevModified = Nothing
  /\ filesModified = FALSE /\ outputs = Nothing

-----------------------------------------------------------------------------
(* The user.                                                               *)

Write ==
  /\ \E f \in SourceFiles :
       /\ written[f] < MaxWrites
       /\ written' = [written EXCEPT ![f] = @ + 1]
       /\ disk' = [disk EXCEPT ![f] = written[f] + 1]
  /\ UNCHANGED <<config, step, options, fileNames, configModified, program, currState,
                 prevModified, filesModified, outputs>>

Delete ==
  /\ \E f \in Present : disk' = [disk EXCEPT ![f] = Missing]
  /\ UNCHANGED <<written, config, step, options, fileNames, configModified, program,
                 currState, prevModified, filesModified, outputs>>

\* The config file changes, disappears or comes back.
EditConfig ==
  /\ config.version < MaxConfigs
  /\ \E ok \in BOOLEAN : config' = [ok |-> ok, version |-> config.version + 1]
  /\ UNCHANGED <<disk, written, step, options, fileNames, configModified, program, currState,
                 prevModified, filesModified, outputs>>

-----------------------------------------------------------------------------
(* doCycle.                                                                *)

\* Variant: the options are compared by what they say.
ReadConfigVariant ==
  /\ step = "sleep" /\ config.ok
  /\ configModified' = (configModified \/ options # config.version)
  /\ options' = config.version
  /\ fileNames' = Present
  /\ step' = "build" /\ program' = Nothing
  /\ UNCHANGED <<envVars, currState, prevModified, filesModified, outputs>>

\* hasErrorsInTsConfig: an unreadable config ends the cycle with nothing changed.  The parsed
\* options are compared by pointer, and a parse allocates: they always differ.
ReadConfig ==
  /\ step = "sleep" /\ config.ok
  /\ configModified' = TRUE
  /\ options' = config.version
  /\ fileNames' = Present
  /\ step' = "build" /\ program' = Nothing
  /\ UNCHANGED <<envVars, currState, prevModified, filesModified, outputs>>

\* NewProgram reads the files, in whatever order; one that is gone is not in the program.
LoadFile ==
  /\ step = "build"
  /\ \E f \in fileNames :
       /\ program' = [program EXCEPT ![f] = disk[f]]
       /\ fileNames' = fileNames \ {f}
  /\ UNCHANGED <<envVars, step, options, configModified, currState, prevModified, filesModified, outputs>>

\* hasBeenModified starts: the files to look at are those of the program.
StartCompare ==
  /\ step = "build" /\ fileNames = {}
  /\ step' = "compare"
  /\ fileNames' = {f \in SourceFiles : program[f] # Missing}
  /\ currState' = Nothing /\ filesModified' = configModified
  /\ UNCHANGED <<envVars, options, configModified, program, prevModified, outputs>>

\* One Stat.  A file that is gone is skipped and stays in prevModified.
StatFile ==
  /\ step = "compare"
  /\ \E f \in fileNames :
       /\ fileNames' = fileNames \ {f}
       /\ IF disk[f] = Missing THEN UNCHANGED <<currState, filesModified, prevModified>>
          ELSE /\ currState' = [currState EXCEPT ![f] = disk[f]]
               /\ filesModified' = (filesModified \/ disk[f] # prevModified[f])
               /\ prevModified' = IF filesModified THEN prevModified ELSE [prevModified EXCEPT ![f] = Missing]
  /\ UNCHANGED <<envVars, step, options, configModified, program, outputs>>

\* Variant: that the config was modified is not forgotten.
EndCompareVariant ==
  /\ step = "compare" /\ fileNames = {}
  /\ step' = IF filesModified \/ prevModified # Nothing THEN "emit" ELSE "sleep"
  /\ prevModified' = currState
  /\ UNCHANGED <<envVars, options, fileNames, configModified, program, currState, filesModified, outputs>>

\* What is left in prevModified was deleted.
EndCompare ==
  /\ step = "compare" /\ fileNames = {}
  /\ step' = IF filesModified \/ prevModified # Nothing THEN "emit" ELSE "sleep"
  /\ prevModified' = currState
  /\ configModified' = FALSE
  /\ UNCHANGED <<envVars, options, fileNames, program, currState, filesModified, outputs>>

\* Variant: the outputs of files that are gone go with them.
EmitVariant ==
  /\ step = "emit"
  /\ step' = "sleep"
  /\ outputs' = program
  /\ UNCHANGED <<envVars, options, fileNames, configModified, program, currState, prevModified, filesModified>>

\* compileAndEmit: an output for every file; those of files that are gone stay.
Emit ==
  /\ step = "emit"
  /\ step' = "sleep"
  /\ outputs' = [f \in SourceFiles |-> IF program[f] # Missing THEN program[f] ELSE outputs[f]]
  /\ UNCHANGED <<envVars, options, fileNames, configModified, program, currState, prevModified, filesModified>>

Cycle == ReadConfig \/ LoadFile \/ StartCompare \/ StatFile \/ EndCompare \/ Emit

WatcherNext == Write \/ Delete \/ EditConfig \/ Cycle

\* start loops for ever; a user need do nothing.
WatcherSpec == WatcherInit /\ [][WatcherNext]_watcherVars /\ WF_watcherVars(Cycle)

-----------------------------------------------------------------------------
\* Outside hasBeenModified no modification is pending but that of the config; the times kept
\* are times the files had.
WatcherTypeOK ==
  /\ disk \in [SourceFiles -> Nat] /\ written \in [SourceFiles -> Nat]
  /\ program \in [SourceFiles -> Nat] /\ outputs \in [SourceFiles -> Nat]
  /\ currState \in [SourceFiles -> Nat] /\ prevModified \in [SourceFiles -> Nat]
  /\ config \in [ok : BOOLEAN, version : Nat] /\ options \in Nat
  /\ step \in {"sleep", "build", "compare", "emit"}
  /\ fileNames \subseteq SourceFiles
  /\ configModified \in BOOLEAN /\ filesModified \in BOOLEAN
  /\ step = "sleep" => ~configModified
  /\ \A f \in SourceFiles : {program[f], currState[f], prevModified[f], outputs[f]} \subseteq 0..written[f]

\* An output is never replaced by one of an older text (watch.go's doCycle).
OutputsNeverGoBack == [][\A f \in SourceFiles : outputs'[f] >= outputs[f]]_outputs

\* However the writes fall between the steps of the cycles, in the end every file on the disk
\* has an output of its last text, unless the config stays unreadable (watcher.go's
\* hasBeenModified, which takes the times after the texts were read).
OutputsCatchUp == <>[](config.ok => \A f \in Present : outputs[f] = disk[f])

(***************************************************************************)
(* Why types are kept and outputs never go back: the inductive invariant.  *)
(***************************************************************************)
\* A file that is there has the last version it was given.
DiskIsLast == \A f \in SourceFiles : disk[f] \in {Missing, written[f]}

\* What a cycle has read is no older than what the cycles before it emitted.
ProgramIsNotOld == \A f \in SourceFiles : step # "sleep" /\ program[f] # Missing => outputs[f] <= program[f]

\* A change of the config is pending only until the files are compared.
ConfigIsCompared == step = "emit" => ~configModified

WatcherInv == WatcherTypeOK /\ DiskIsLast /\ ProgramIsNotOld /\ ConfigIsCompared
==============================================================================
