---------------------------- MODULE ProjectService ----------------------------
(***************************************************************************)
(* project.Service with its ScriptInfos, Projects and DocumentRegistry     *)
(* (internal/project/service.go, scriptinfo.go, project.go,                *)
(* documentregistry.go): what the language server keeps about open files   *)
(* and the programs it rebuilds lazily when they change.                   *)
(*                                                                         *)
(* The server runs one handler at a time, so an action is a whole handler, *)
(* written as the effect its calls have, in order, on a record of the      *)
(* service's state.  Between handlers the disk changes on its own: the     *)
(* service is not told, it reads the disk when it has to.  A panic ends    *)
(* the process (nothing recovers it).                                      *)
(*                                                                         *)
(* Left out: dynamic ("^/...") files, project roots given at open (the     *)
(* server passes none, so there is one inferred project), symlinks,        *)
(* deferred deletion (no caller asks for it) and compiler options (all     *)
(* projects share registry keys; DocumentRegistry.tla has the keys).       *)
(*                                                                         *)
(* A definition whose comment begins with "Variant" is the next one with a *)
(* plausible bug; the specification does not use it.                       *)
(***************************************************************************)
EXTENDS Integers, Sequences, FiniteSets, SequencesExt

CONSTANTS
    FileOrder,   \* the files, in the order a config lists the files it includes
    ConfigOf,    \* the nearest tsconfig.json of each file's directory, or Nil
    Inferred,    \* the unrooted inferred project
    Texts,       \* what a file may contain
    Blank,       \* the empty text
    Imports,     \* the files a text imports
    ConfigTexts, \* what a tsconfig may say: records [files, include]
    MaxVersion,  \* bound on the versions of ScriptInfos
    Nil          \* nil, "not in the map", "not on the disk"

Files == ToSet(FileOrder)
Configs == {ConfigOf[f] : f \in Files} \ {Nil}
Projects == Configs \cup {Inferred}

\* The elements of seq that are in S, in order.
Select(seq, S) == FoldLeft(LAMBDA chosen, x : IF x \in S THEN Append(chosen, x) ELSE chosen, <<>>, seq)

Documents == [text : Texts \cup {Blank}, version : Nat]
Programs == UNION {[fs -> Documents] : fs \in SUBSET Files}
InfoRecords == [text : Texts \cup {Blank}, version : Nat, open : BOOLEAN, pending : BOOLEAN, matches : BOOLEAN,
                containing : Seq(Projects)]
ProjectRecords == [dirty : BOOLEAN, reloadConfig : BOOLEAN, roots : Seq(Files), program : Programs \cup {Nil}]
DocumentRecords == [source : Documents, refs : Nat \ {0}]

ASSUME ServiceAssumption ==
    /\ FileOrder \in Seq(Files) /\ \A i, j \in DOMAIN FileOrder : FileOrder[i] = FileOrder[j] => i = j
    /\ Inferred \notin Configs
    /\ Nil \notin Texts \cup {Blank} \cup Nat \cup Projects
    /\ Nil \notin InfoRecords \cup ProjectRecords \cup DocumentRecords
    /\ \A fs \in SUBSET Files : Nil \notin [fs -> Documents]
    /\ Imports \in [Texts \cup {Blank} -> SUBSET Files]
    /\ ConfigTexts \subseteq [files : SUBSET Files, include : SUBSET Files]
    /\ MaxVersion \in Nat

VARIABLES
    disk,          \* the text of each file on the disk
    config,        \* what each tsconfig.json on the disk says
    buffer,        \* the client's text of each file it has open
    infos,         \* s.scriptInfos
    lastVersions,  \* s.filenameToScriptInfoVersion
    openFiles,     \* the keys of s.openFiles
    projects,      \* s.configuredProjects and s.unrootedInferredProject
    docs,          \* s.documentRegistry
    panic          \* the panic that ended the server, or "none"

world == <<disk, config, buffer>>
service == <<infos, lastVersions, openFiles, projects, docs, panic>>
vars == <<world, service>>

Panics == {"nil pointer", "already a root", "no config file", "script info not found",
           "not attached", "file not found"}

\* What a handler works on.
Service == [infos |-> infos, lastVersions |-> lastVersions, openFiles |-> openFiles,
            projects |-> projects, docs |-> docs, panic |-> panic]

States == [infos : [Files -> InfoRecords \cup {Nil}], lastVersions : [Files -> Nat \cup {Nil}],
           openFiles : SUBSET Files, projects : [Projects -> ProjectRecords \cup {Nil}],
           docs : [Files -> DocumentRecords \cup {Nil}], panic : Panics \cup {"none"}]

\* The files of project p's program.
Held(S, p) ==
    IF S.projects[p] = Nil THEN {}
    ELSE IF S.projects[p].program = Nil THEN {}
    ELSE DOMAIN S.projects[p].program

Panic(S, why) == [S EXCEPT !.panic = why]

Panicked(S) == S.panic # "none"

\* The rest of a handler, unless it has panicked.
Then(S, rest(_)) == IF Panicked(S) THEN S ELSE rest(S)

\* The handler ends in state S; the world is as it was.
Become(S) ==
    /\ panic' = S.panic
    /\ IF Panicked(S)
       THEN UNCHANGED <<infos, lastVersions, openFiles, projects, docs>>
       ELSE /\ infos' = S.infos
            /\ lastVersions' = S.lastVersions
            /\ openFiles' = S.openFiles
            /\ projects' = S.projects
            /\ docs' = S.docs

NewProject == [dirty |-> TRUE, reloadConfig |-> FALSE, roots |-> <<>>, program |-> Nil]

Init ==
    /\ disk \in [Files -> Texts \cup {Nil}]
    /\ config \in [Configs -> ConfigTexts \cup {Nil}]
    /\ infos = [f \in Files |-> Nil]
    /\ lastVersions = [f \in Files |-> Nil]
    /\ openFiles = {}
    /\ projects = [p \in Projects |-> Nil]
    /\ docs = [f \in Files |-> Nil]
    /\ panic = "none"
    /\ buffer = [f \in Files |-> Nil]

-----------------------------------------------------------------------------
(* ScriptInfo *)

\* setText
SetText(info, text) == [info EXCEPT !.text = text, !.version = @ + 1]

\* markAsDirty
MarkDirty(S, p) == [S EXCEPT !.projects[p].dirty = TRUE]

\* Variant: only the first of the projects is marked.
MarkFirstDirty(S, f) ==
    IF S.infos[f].containing = <<>> THEN S ELSE MarkDirty(S, S.infos[f].containing[1])

\* markContainingProjectsAsDirty
MarkContainingDirty(S, f) == FoldLeft(MarkDirty, S, S.infos[f].containing)

\* isOrphan, of an info and of the projects that contain it
IsOrphan(S, f) ==
    \A p \in ToSet(S.infos[f].containing) : p = Inferred /\ S.projects[p].roots = <<>>

IsRoot(S, p, f) == f \in ToSet(S.projects[p].roots)

\* attachToProject and detachFromProject
Attach(S, f, p) ==
    IF p \in ToSet(S.infos[f].containing) THEN S
    ELSE [S EXCEPT !.infos[f].containing = Append(@, p)]

Detach(S, f, p) ==
    [S EXCEPT !.infos[f].containing = Select(@, Projects \ {p})]

\* Variant: the version of a deleted info is not remembered.
NewInfoFromZero(S, f, text) ==
    [text |-> text, version |-> IF text = Blank THEN 0 ELSE 1, open |-> FALSE,
     pending |-> FALSE, matches |-> text # Blank, containing |-> <<>>]

\* NewScriptInfo and, when it is made from the disk, SetTextFromDisk; a version
\* remembered from a deleted info goes on where it stopped.
NewInfo(S, f, text) ==
    [text       |-> text,
     version    |-> IF S.lastVersions[f] # Nil THEN S.lastVersions[f] + 1
                    ELSE IF text = Blank THEN 0 ELSE 1,
     open       |-> FALSE,
     pending    |-> FALSE,
     matches    |-> text # Blank,
     containing |-> <<>>]

Create(S, f, text) ==
    [S EXCEPT !.infos[f] = NewInfo(S, f, text), !.lastVersions[f] = Nil]

\* getOrCreateScriptInfoNotOpenedByClient; the info stays nil if there is no file.
GetOrCreateInfo(S, f) ==
    IF S.infos[f] # Nil \/ disk[f] = Nil THEN S ELSE Create(S, f, disk[f])

\* Variant: the client's text is ignored when the info was read from the disk.
OpenTrustingDisk(S, f, text) ==
    LET opened == [S EXCEPT !.infos[f].open = TRUE, !.infos[f].pending = FALSE]
    IN  IF text = S.infos[f].text \/ S.infos[f].matches THEN opened
        ELSE MarkContainingDirty([opened EXCEPT !.infos[f] = SetText(opened.infos[f], text)], f)

\* open
OpenInfo(S, f, text) ==
    LET info   == S.infos[f]
        opened == [S EXCEPT !.infos[f].open = TRUE, !.infos[f].pending = FALSE]
    IN  IF text = info.text THEN opened
        ELSE MarkContainingDirty(
                 [opened EXCEPT !.infos[f] = [SetText(@, text) EXCEPT !.matches = FALSE]], f)

\* close
CloseInfo(S, f, fileExists) ==
    LET closed == [S EXCEPT !.infos[f].open = FALSE]
    IN  IF fileExists /\ ~S.infos[f].pending /\ ~S.infos[f].matches
        THEN MarkContainingDirty([closed EXCEPT !.infos[f].pending = TRUE], f)
        ELSE closed

-----------------------------------------------------------------------------
(* Project *)

\* addRoot
AddRoot(S, p, f) ==
    IF IsRoot(S, p, f) THEN Panic(S, "already a root")
    ELSE MarkDirty(Attach([S EXCEPT !.projects[p].roots = Append(@, f)], f, p), p)

\* removeFile's switch: the inferred project gives the root up, a configured one
\* keeps it until its config is read again.
Unroot(S, p, f) ==
    IF ~IsRoot(S, p, f) THEN S
    ELSE IF p = Inferred
         THEN [S EXCEPT !.projects[p].roots = Select(@, Files \ {f})]
         ELSE [S EXCEPT !.projects[p].reloadConfig = TRUE]

\* Variant: the inferred project keeps the root.
RemoveFileNotRoot(S, p, f, detach) == MarkDirty(IF detach THEN Detach(S, f, p) ELSE S, p)

\* Variant: the project is not marked dirty.
RemoveFileQuietly(S, p, f, detach) ==
    IF detach THEN Detach(Unroot(S, p, f), f, p) ELSE Unroot(S, p, f)

\* removeFile
RemoveFile(S, p, f, detach) ==
    MarkDirty(IF detach THEN Detach(Unroot(S, p, f), f, p) ELSE Unroot(S, p, f), p)

\* The file names of the parsed config: those it lists, and those it includes
\* that exist.
ConfigFileNames(c) ==
    Select(FileOrder, config[c].files \cup {f \in config[c].include : disk[f] # Nil})

\* A listed file that has no info is a nil pointer.
AddListed(S, c, f) ==
    Then(GetOrCreateInfo(S, f),
         LAMBDA T : IF T.infos[f] = Nil THEN Panic(T, "nil pointer")
                    ELSE IF IsRoot(T, c, f) THEN T
                    ELSE AddRoot(T, c, f))

\* The loop over the keys of the ordered map, which shrinks under the loop when a
\* key is deleted from it.
PruneAt(S, c, names, i) ==
    LET roots == S.projects[c].roots
    IN  IF i > Len(roots) THEN S
        ELSE IF roots[i] \in ToSet(names) THEN S
        ELSE IF S.infos[roots[i]] # Nil THEN RemoveFile(S, c, roots[i], TRUE)
        ELSE [S EXCEPT !.projects[c].roots = RemoveAt(@, i)]

Places(seq) == [i \in 1..Len(seq) |-> i]

Prune(S, c, names) ==
    IF Len(S.projects[c].roots) <= Len(names) THEN S
    ELSE FoldLeft(LAMBDA T, i : PruneAt(T, c, names, i), S, Places(S.projects[c].roots))

\* setRootFiles
SetRootFiles(S, c, names) ==
    Then(FoldLeft(LAMBDA T, f : AddListed(T, c, f), S, names),
         LAMBDA T : Prune(T, c, names))

\* LoadConfig; both callers panic on its error.
LoadConfig(S, c) ==
    IF config[c] = Nil THEN Panic(S, "no config file")
    ELSE MarkDirty(SetRootFiles(S, c, ConfigFileNames(c)), c)

\* AcquireDocument for a file of the program being built, which releases the
\* document that project p's old program had.
Acquire(S, p, f) ==
    LET info   == S.infos[f]
        doc    == S.docs[f]
        old    == S.projects[p].program
        parsed == [text |-> info.text, version |-> info.version]
        source == IF doc # Nil /\ doc.source.version = info.version THEN doc.source ELSE parsed
        refs   == (IF doc = Nil THEN 0 ELSE doc.refs) + 1
                      - (IF old # Nil /\ f \in DOMAIN old THEN 1 ELSE 0)
    IN  [S EXCEPT !.docs[f] = IF refs = 0 THEN Nil ELSE [source |-> source, refs |-> refs]]

\* Variant: the document is removed one reference too late.
ReleaseLate(S, f) ==
    IF S.docs[f] = Nil THEN S
    ELSE IF S.docs[f].refs = 0 THEN [S EXCEPT !.docs[f] = Nil]
    ELSE [S EXCEPT !.docs[f].refs = @ - 1]

\* ReleaseDocument
Release(S, f) ==
    IF S.docs[f] = Nil THEN S
    ELSE IF S.docs[f].refs = 1 THEN [S EXCEPT !.docs[f] = Nil]
    ELSE [S EXCEPT !.docs[f].refs = @ - 1]

\* GetSourceFile: the file's info, attached to the project, and its document.
GetSourceFile(S, p, f) == Acquire(Attach(GetOrCreateInfo(S, f), f, p), p, f)

SetOrder(fs) == Select(FileOrder, fs)

\* A round of the loader: whatever the files loaded import, as far as it exists.
LoadImports(loaded, p) ==
    LET imported == UNION {Imports[loaded.state.docs[f].source.text] : f \in loaded.files}
        new == {g \in imported \ loaded.files : disk[g] # Nil}
    IN  [state |-> FoldLeft(LAMBDA T, f : GetSourceFile(T, p, f), loaded.state, SetOrder(new)),
         files |-> loaded.files \cup new]

EndBuild(loaded, p) ==
    [loaded.state EXCEPT !.projects[p].program =
        [f \in loaded.files |-> loaded.state.docs[f].source]]

\* updateProgram with NewProgram: the roots that have an info, then what they
\* import (one round per file is enough).
UpdateProgram(S, p) ==
    LET roots == {f \in ToSet(S.projects[p].roots) : S.infos[f] # Nil}
        start == [state |-> FoldLeft(LAMBDA T, f : GetSourceFile(T, p, f), S, SetOrder(roots)),
                  files |-> roots]
    IN  EndBuild(FoldLeft(LAMBDA loaded, f : LoadImports(loaded, p), start, FileOrder), p)

ReloadConfig(S, p) ==
    IF p \in Configs /\ S.projects[p].reloadConfig
    THEN [LoadConfig(S, p) EXCEPT !.projects[p].reloadConfig = FALSE]
    ELSE S

ReleaseDropped(S, p, old) ==
    FoldLeft(Release, S,
             SetOrder(IF old = Nil THEN {} ELSE DOMAIN old \ DOMAIN S.projects[p].program))

\* updateGraph
UpdateGraph(S, p) ==
    Then(ReloadConfig(S, p),
         LAMBDA T : ReleaseDropped([UpdateProgram(T, p) EXCEPT !.projects[p].dirty = FALSE],
                                   p, T.projects[p].program))

\* updateIfDirty
UpdateIfDirty(S, p) == IF ~Panicked(S) /\ S.projects[p].dirty THEN UpdateGraph(S, p) ELSE S

-----------------------------------------------------------------------------
(* Service *)

\* for _, project := range info.containingProjects { step(project) }, where a
\* step may detach projects: the loop goes over the array the slice had, in
\* which what is left moves up and the place freed at the end is nil.
Visit(S, f, i, step(_, _)) ==
    IF Panicked(S) THEN S
    ELSE IF i > Len(S.infos[f].containing) THEN Panic(S, "nil pointer")
    ELSE step(S, S.infos[f].containing[i])

EachContaining(S, f, step(_, _)) ==
    FoldLeft(LAMBDA T, i : Visit(T, f, i, step), S, Places(S.infos[f].containing))

\* assignOrphanScriptInfoToInferredProject
AssignToInferred(S, f) ==
    LET created == IF S.projects[Inferred] = Nil
                   THEN [S EXCEPT !.projects[Inferred] = NewProject] ELSE S
    IN  Then(AddRoot(created, Inferred, f), LAMBDA T : UpdateGraph(T, Inferred))

AssignIfOrphan(S, f) == IF IsOrphan(S, f) THEN AssignToInferred(S, f) ELSE S

\* tryFindDefaultConfiguredProjectForOpenScriptInfo: the project of the nearest
\* config is created if need be, and loaded at every open.
LoadNearest(S, f) ==
    LET c == ConfigOf[f]
    IN  IF c = Nil THEN S
        ELSE IF config[c] = Nil THEN S
        ELSE LoadConfig(IF S.projects[c] = Nil
                        THEN [S EXCEPT !.projects[c] = NewProject] ELSE S, c)

\* assignProjectToOpenedScriptInfo
AssignProject(S, f) ==
    Then(Then(LoadNearest(S, f), LAMBDA T : EachContaining(T, f, UpdateIfDirty)),
         LAMBDA T : AssignIfOrphan(T, f))

Forget(S, f) ==
    [FoldLeft(LAMBDA T, p : RemoveFile(T, p, f, FALSE), S, S.infos[f].containing) EXCEPT
        !.infos[f] = Nil, !.lastVersions[f] = S.infos[f].version]

UpdateChanged(S, p) == UpdateIfDirty(MarkDirty(S, p), p)

\* handleDeletedFile: the containing projects are updated while the info is still
\* there, then the info leaves them and is forgotten, all but its version.
DeleteInfo(S, f) ==
    Then(EachContaining(S, f, UpdateChanged), LAMBDA T : Forget(T, f))

\* Variant: the default configured project is not asked for.
DefaultProjectFirst(S, f) ==
    LET configured == Select(S.infos[f].containing, Configs)
    IN  IF S.infos[f].containing = <<>> THEN Nil
        ELSE IF configured # <<>> THEN configured[1]
        ELSE S.infos[f].containing[1]

\* getDefaultProjectForScript; Nil for its panic.
DefaultProject(S, f) ==
    LET containing == S.infos[f].containing
        configured == Select(containing, Configs)
        \* findDefaultConfiguredProject is asked at the first configured project
        \* that is not the last of the list
        c     == ConfigOf[f]
        known == IF c # Nil /\ config[c] # Nil /\ S.projects[c] # Nil THEN c ELSE Nil
        asked == \E i \in 1..Len(containing) - 1 : containing[i] \in Configs
    IN  IF Len(containing) = 0 THEN Nil
        ELSE IF Len(containing) = 1 THEN containing[1]
        ELSE IF asked /\ known # Nil THEN known
        ELSE IF configured # <<>> THEN configured[1]
        ELSE containing[1]

UpdateLive(S, p) == IF S.projects[p] = Nil THEN S ELSE UpdateIfDirty(S, p)

\* ensureProjectForOpenFiles
EnsureOpenFile(S, f) ==
    IF Panicked(S) THEN S
    ELSE IF S.infos[f] = Nil THEN Panic(S, "script info not found")
    ELSE AssignIfOrphan(S, f)

\* ensureProjectStructureUpToDate, for an order of the configured projects and
\* one of the open files.
EnsureStructure(S, configOrder, openOrder) ==
    IF \A p \in Projects : S.projects[p] # Nil => ~S.projects[p].dirty THEN S
    ELSE Then(FoldLeft(UpdateLive, S, Append(configOrder, Inferred)),
              LAMBDA T : UpdateLive(FoldLeft(EnsureOpenFile, T, openOrder), Inferred))

\* getProgramAndFile
GetProgramAndFile(S, p, f) ==
    Then(UpdateIfDirty(S, p),
         LAMBDA T : IF f \in DOMAIN T.projects[p].program THEN T ELSE Panic(T, "file not found"))

-----------------------------------------------------------------------------
(* The handlers *)

WithinBound ==
    \A f \in Files :
        /\ infos[f] # Nil => infos[f].version < MaxVersion
        /\ lastVersions[f] # Nil => lastVersions[f] < MaxVersion

Running == panic = "none" /\ WithinBound

\* didOpen: Service.OpenFile. A client opens a file once before it closes it.
OpenFile(f, text) ==
    /\ Running
    /\ buffer[f] = Nil
    /\ LET known == IF infos[f] # Nil THEN Service
                    ELSE [Create(Service, f, Blank) EXCEPT !.infos[f].matches = FALSE]
       IN  Become(AssignProject([OpenInfo(known, f, text) EXCEPT !.openFiles = @ \cup {f}], f))
    /\ buffer' = [buffer EXCEPT ![f] = text]
    /\ UNCHANGED <<disk, config>>

\* didChange: Service.ChangeFile, one edit, which sets the text even when it is
\* the same.
ChangeFile(f, text) ==
    /\ Running
    /\ buffer[f] # Nil
    /\ Become(IF infos[f] = Nil THEN Panic(Service, "script info not found")
              ELSE MarkContainingDirty([Service EXCEPT !.infos[f] = SetText(infos[f], text)], f))
    /\ buffer' = [buffer EXCEPT ![f] = text]
    /\ UNCHANGED <<disk, config>>

\* The client writes its text to the disk and sends didSave: Service.MarkFileSaved
\* with ScriptInfo.SetTextFromDisk, which marks no project dirty.
SaveFile(f) ==
    /\ Running
    /\ buffer[f] # Nil
    /\ disk' = [disk EXCEPT ![f] = buffer[f]]
    /\ Become(IF infos[f] = Nil \/ infos[f].text = buffer[f] THEN Service
              ELSE [Service EXCEPT !.infos[f] =
                       [SetText(infos[f], buffer[f]) EXCEPT !.matches = TRUE]])
    /\ UNCHANGED <<config, buffer>>

\* A closed file is no root of the inferred project.
Leave(S, p, f) == IF p = Inferred /\ IsRoot(S, p, f) THEN RemoveFile(S, p, f, TRUE) ELSE S

\* didClose: Service.CloseFile
CloseFile(f) ==
    /\ Running
    /\ buffer[f] # Nil
    /\ LET fileExists == disk[f] # Nil
           leave(T, p) == Leave(T, p, f)
           removed(T) == [T EXCEPT !.openFiles = @ \ {f}]
       IN  Become(IF infos[f] = Nil THEN Service
                  ELSE Then(EachContaining(CloseInfo(Service, f, fileExists), f, leave),
                            LAMBDA T : IF fileExists THEN removed(T) ELSE DeleteInfo(removed(T), f)))
    /\ buffer' = [buffer EXCEPT ![f] = Nil]
    /\ UNCHANGED <<disk, config>>

\* A language feature asked of an open file: Service.EnsureDefaultProjectForFile,
\* then LanguageService.getProgramAndFile. Go ranges over maps in any order.
Request(f) ==
    /\ Running
    /\ buffer[f] # Nil
    /\ \E configOrder \in SetToSeqs(Configs), openOrder \in SetToSeqs(openFiles) :
          LET settled == infos[f] # Nil /\ ~IsOrphan(Service, f)
              answer(S) ==
                  IF S.infos[f] = Nil THEN Panic(S, "not attached")
                  ELSE IF DefaultProject(S, f) = Nil THEN Panic(S, "not attached")
                  ELSE GetProgramAndFile(S, DefaultProject(S, f), f)
          IN  Become(Then(IF settled THEN Service ELSE EnsureStructure(Service, configOrder, openOrder),
                          answer))
    /\ UNCHANGED world

\* The world changes behind the service's back.
DiskChange(f, text) ==
    /\ panic = "none"
    /\ disk[f] # text
    /\ disk' = [disk EXCEPT ![f] = text]
    /\ UNCHANGED <<config, buffer, service>>

ConfigChange(c, text) ==
    /\ panic = "none"
    /\ config[c] # text
    /\ config' = [config EXCEPT ![c] = text]
    /\ UNCHANGED <<disk, buffer, service>>

Handler ==
    \E f \in Files :
        \/ \E text \in Texts : OpenFile(f, text) \/ ChangeFile(f, text)
        \/ SaveFile(f)
        \/ CloseFile(f)
        \/ Request(f)

Outside ==
    \/ \E f \in Files, text \in Texts \cup {Nil} : DiskChange(f, text)
    \/ \E c \in Configs, text \in ConfigTexts \cup {Nil} : ConfigChange(c, text)

Next == Handler \/ Outside

Spec == Init /\ [][Next]_vars

-----------------------------------------------------------------------------
(* What the service promises, while it is alive *)

TypeOK ==
    /\ disk \in [Files -> Texts \cup {Nil}]
    /\ config \in [Configs -> ConfigTexts \cup {Nil}]
    /\ buffer \in [Files -> Texts \cup {Nil}]
    /\ Service \in States

Live(p) == projects[p] # Nil

ProgramFiles(p) == Held(Service, p)

\* What a client has open, the service has open, with the client's text, whatever
\* the disk says: "the document's truth is now managed by the client".
ClientTextIsServed ==
    panic = "none" =>
        /\ openFiles = {f \in Files : buffer[f] # Nil}
        /\ \A f \in openFiles : infos[f] # Nil /\ infos[f].open /\ infos[f].text = buffer[f]
        /\ \A f \in Files \ openFiles : infos[f] # Nil => ~infos[f].open

\* A project that is not dirty was built from the script infos as they are: each
\* root that belongs to it is in its program, and each file of the program is still
\* attached (a change of it would mark the project) at the version parsed. (A root
\* that does not belong to the project any more may stay behind: see SetRootFiles.)
CleanProgramIsCurrent ==
    \A p \in Projects : Live(p) /\ ~projects[p].dirty =>
        /\ \A f \in ToSet(projects[p].roots) :
              infos[f] # Nil /\ p \in ToSet(infos[f].containing) => f \in ProgramFiles(p)
        /\ \A f \in ProgramFiles(p) :
              /\ infos[f] # Nil
              /\ p \in ToSet(infos[f].containing)
              /\ projects[p].program[f] = [text |-> infos[f].text, version |-> infos[f].version]

\* The number the registry compares to decide that a document is up to date never
\* names two texts of a file, also when the info was deleted and made again.
VersionIdentifiesText ==
    \A f \in Files : infos[f] # Nil =>
        /\ docs[f] # Nil /\ docs[f].source.version = infos[f].version =>
              docs[f].source.text = infos[f].text
        /\ \A p \in Projects : f \in ProgramFiles(p) =>
              projects[p].program[f].version <= infos[f].version

\* The registry counts a document once for each program that has the file, and
\* keeps no other.
DocumentsAreCounted ==
    \A f \in Files :
        LET holders == {p \in Projects : f \in ProgramFiles(p)}
        IN  IF holders = {} THEN docs[f] = Nil
            ELSE docs[f] # Nil /\ docs[f].refs = Cardinality(holders)

\* The inferred project's roots are files that are open and that belong to it: it
\* dies out as they are closed, and no file is made its root twice.
InferredRootsAreOpen ==
    /\ Live(Inferred) =>
         \A f \in ToSet(projects[Inferred].roots) :
             f \in openFiles /\ infos[f] # Nil /\ Inferred \in ToSet(infos[f].containing)
    /\ panic \notin {"already a root", "script info not found"}

\* Until a config is loaded every open file has the inferred project or, when that
\* has lost its roots, will be given one by the next request: no file is left with
\* nothing while the service says that nothing changed. (Later it may be: opening
\* a file that a config has also updates the inferred project it was in.)
OrphansAreNoticed ==
    panic = "none" /\ (\A c \in Configs : ~Live(c)) =>
        \A f \in openFiles : IsOrphan(Service, f) =>
            \E p \in Projects : Live(p) /\ projects[p].dirty

-----------------------------------------------------------------------------
(* Why it holds *)

Refs(S, f) == IF S.docs[f] = Nil THEN 0 ELSE S.docs[f].refs

ProgramsWith(S, f) == {p \in Projects : f \in Held(S, p)}

\* A document has a reference for each program that has the file.
Counted(S) == \A f \in Files : Refs(S, f) = Cardinality(ProgramsWith(S, f))

InferredRoots(S) == IF S.projects[Inferred] = Nil THEN {} ELSE ToSet(S.projects[Inferred].roots)

\* A file belongs to projects that exist, and the inferred project's roots are open files that
\* belong to it, whatever is being built.
Sound(S) ==
    /\ S \in States
    /\ S.panic \notin {"already a root", "script info not found"}
    /\ \A f \in Files : S.infos[f] # Nil =>
          \A p \in ToSet(S.infos[f].containing) : S.projects[p] # Nil
    /\ \A f \in InferredRoots(S) :
          f \in S.openFiles /\ S.infos[f] # Nil /\ Inferred \in ToSet(S.infos[f].containing)

\* The version of a file's info, or of the one it had.
Version(S, f) ==
    IF S.infos[f] # Nil THEN S.infos[f].version
    ELSE IF S.lastVersions[f] # Nil THEN S.lastVersions[f] ELSE -1

\* No document and no program has a version of a file that is still to come, and a
\* document of the info's version has its text.
Versioned(S) ==
    \A f \in Files :
        /\ S.docs[f] # Nil =>
              /\ S.docs[f].source.version <= Version(S, f)
              /\ S.infos[f] # Nil /\ S.docs[f].source.version = S.infos[f].version =>
                    S.docs[f].source.text = S.infos[f].text
        /\ \A p \in Projects : f \in Held(S, p) => S.projects[p].program[f].version <= Version(S, f)

\* Project p's program is what the infos say: of a project that is not dirty.
UpToDate(S, p) ==
    /\ \A f \in ToSet(S.projects[p].roots) :
          S.infos[f] # Nil /\ p \in ToSet(S.infos[f].containing) => f \in Held(S, p)
    /\ \A f \in Held(S, p) :
          /\ S.infos[f] # Nil
          /\ p \in ToSet(S.infos[f].containing)
          /\ S.projects[p].program[f] = [text |-> S.infos[f].text, version |-> S.infos[f].version]

Current(S, p) == S.projects[p] # Nil /\ ~S.projects[p].dirty => UpToDate(S, p)

Fresh(S) == Versioned(S) /\ \A p \in Projects : Current(S, p)

\* No project has been made for a config.
Alone(S) == \A c \in Configs : S.projects[c] = Nil

\* While that is so, the open files belong to the inferred project, which is dirty
\* if it has no root.
Noticed(S) ==
    Alone(S) =>
        /\ \A f \in S.openFiles : S.infos[f] # Nil /\ Inferred \in ToSet(S.infos[f].containing)
        /\ S.openFiles # {} => InferredRoots(S) # {} \/ S.projects[Inferred].dirty

IInv ==
    /\ TypeOK /\ Sound(Service) /\ Counted(Service) /\ Fresh(Service) /\ Noticed(Service)
    /\ ClientTextIsServed

-----------------------------------------------------------------------------
(* What comments, assertions and tests say, and the code does not keep *)

\* getProgramAndFile asserts that the default project's program has the file the
\* client asked about: panic("file not found") is not meant to be reached.
AskedFileIsInProgram == panic # "file not found"

\* The CloseFile tests ("delete a file, close it, recreate it", service_test.go:135 and :162): the
\* service has no script info for a file that was gone from the disk when it was closed, whatever
\* projects had it.  CloseFile goes over containingProjects while removeFile detaches projects from
\* the same slice.
ClosedIsForgotten ==
    [][\A f \in Files : buffer[f] # Nil /\ buffer'[f] = Nil /\ disk[f] = Nil => infos'[f] = Nil]_vars
=============================================================================
