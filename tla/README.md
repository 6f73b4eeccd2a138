# TLA+ models of typescript-go

This directory holds TLA+ modules that model parts of the TypeScript compiler,
language server and API server under `src/`, TLC configurations that check them
on small instances, and TLAPS proofs of the main safety properties of the
concurrent core for every instance. `PROJECT.json` lists the parts of the system,
the runs, the source lines each definition stands for, the hazards and the
theorems.

## The system

| part | state | operations | hard part | module |
|---|---|---|---|---|
| work group (`core/workgroup.go`) | wait group and done flag, or a stack of functions | `Queue`, `RunAndWait` | functions queue functions while the owner waits | `ParallelWorkGroup`, `SingleThreadedWorkGroup` |
| file loader (`compiler/fileloader.go`) | tasks by file name, each task's subtasks, file, metadata | `startTasks`, `start`, `collectTasks`, `sortLibs` | many goroutines discover the same files; the walk afterwards takes no lock | `FileLoader` |
| document registry (`project/documentregistry.go`) | reference counted entries by options, path and kind | `AcquireDocument`, `ReleaseDocument` | counts under concurrent loading, staleness by version | `DocumentRegistry` |
| project service (`project/service.go`, `scriptinfo.go`, `project.go`) | script infos, open files, configured and inferred projects, versions of deleted infos | `OpenFile`, `ChangeFile`, `MarkFileSaved`, `CloseFile`, `EnsureDefaultProjectForFile` | lazy rebuilding, files that change behind it, projects that come and go | `ProjectService` |
| LSP server (`lsp/server.go`), positions (`ls/converters.go`, `linemap.go`) | initialization parameters, the service, the encoding | message loop and handlers, conversions | order of messages; two ways to count in one text | `LspServer`, `TextPositions` |
| API server (`api/`, `_packages/api`) | handles of projects, files, symbols, types on both sides | requests, callbacks to the client | calls inside requests over one stream; handles that outlive their object | `ApiServer` |
| watcher (`execute/watcher.go`) | modification times of the last build | one cycle per tick | writes during a build | `Watcher` |
| cached file system (`vfs/cachedvfs`) | answers of the file system under it | queries, `ClearCache` | an old answer stored after a clear | `CachedFS` |
| module resolver (`compiler/module`) | caches by directory and by name | resolve | caches filled by many goroutines must not be seen in the answers | `ResolutionCaches` |
| binder's flow graph (`binder/binder.go`), reachability (`checker/flow.go`) | flow nodes, labels, the current flow | a walk over the statements; a walk back over the graph | `finally` is shared by all ways through it; answers are cached | `FlowGraph`, `Reachability` |
| expressions: parser, type eraser, printer | - | text to tree to text | precedence, associativity, tokens that run together | `Expressions`, `ExpressionPrinter` |
| type relations (`checker/relater.go`) | cache of answers, keys whose answer is assumed | compare two types | circles; an answer under an assumption that fails later | `Relater` |
| exports and aliases (`checker/checker.go`) | resolved aliases, exports of modules, which are types only | resolve an alias, collect exports | circles, whoever asks first, the order of Go maps | `ModuleExports` |
| program, checker pool, emitter (`compiler/program.go`, `emitter.go`) | bound files, one checker per group of files | bind, check, emit in parallel | results in a fixed order whatever the schedule | - |
| the other phases and helpers | syntax trees and symbols | pure functions of their input | size, not interleaving | - |

How they meet: the LSP server runs one handler at a time and calls the project
service. The service marks projects dirty when a script info changes, and
rebuilds a program when a request asks for it. The rebuilding runs the file
loader, whose goroutines call back into the project (`GetSourceFile`), which
creates script infos, attaches them and acquires documents; they share the
resolver's caches. After the build the project releases the documents that the
new program no longer has. The API server runs the same loader, whose goroutines
read files by calling the client back. The watcher builds a program per cycle.
Inside a program a file goes from parser to binder to checker to transformers
to printer.

## What is modelled

### Work groups: `ForkJoin`, `ParallelWorkGroup`, `SingleThreadedWorkGroup`

`ForkJoin` is what the comments of the `WorkGroup` interface promise: functions
are queued by the owner before `RunAndWait` or by functions that run, and
`RunAndWait` returns when all have completed. `ParallelWorkGroup` has one
control point per goroutine and splits `Queue` between the load of the flag and
`wg.Add`, where another goroutine may run. `SingleThreadedWorkGroup` is the
stack that `--singleThreaded` selects. Both are shown to implement `ForkJoin`
under a refinement mapping (`ImplementsForkJoin`).

### The file loader: `FileLoader`, `MCFileLoader`

A `*parseTask` is named by the slot that made it, a pair of an owner and an
index; `tasksByFileName` maps a file to the slot stored first. One iteration of
`startTasks` is one step, the parse closure is a step up to its `startTasks`,
the metadata closure is a step, so all schedules of all closures are covered.
The work group appears as what the modules above show it to be: the join waits
for every closure. The walk (`collectTasksWorker`) is a stack of activations;
`Finish` sorts the libraries. What a file refers to once names are resolved is
an input. `MCFileLoader` compares the resulting order with a recursive
depth-first walk (`WalkOrder`).

### The document registry: `DocumentRegistry`, `MCDocumentRegistry`

One file, several programs that hold it, two option sets. `AcquireDocument`
is broken into the map lookup, the version read without the lock, the lock, the
read and the write of the count; likewise the release. `MayOverlap` says which
calls may run at the same time: none for the pass run (the loader loads a path
once per program and updates run one at a time), any two for the run where two
names denote the same file.

### The project service: `ProjectService`, `MCProjectService`

An action is a whole LSP handler with every call it makes. The service's state is
a record that the calls transform in order, so early returns, marks, attachments,
releases and panics happen where they do in the code. A panic ends the server,
which is what happens (nothing recovers it). Around the service are the disk,
the `tsconfig.json` files and the client's buffers. `EachContaining` is the Go
loop over `containingProjects` when its body shrinks that slice: what is left
moves up and the freed place is nil. `CloseFile` meets it when a file belongs to
the inferred project and to a configured one, which a file does that was opened
before its config existed: `ClosedIsForgotten`, and the run `ProjectServiceClosed`.

`MCProject` puts the registry, the service in a quiet workspace, the cached file
system and the loader into one run; they share no state. In its workspace no
project is ever detached, so `NeverPanics` there is about the default project of
a file that several projects have, and not about that loop.

### The cached file system: `CachedFS`

One path, five maps. A question is three steps (look up, ask the file system,
store) and `ClearCache` clears one map per step. `OnlyStraddlersAreStale` bounds
the harm: after a clear, only an answer that was under way may be old.

### The LSP server and positions: `LspServer`, `TextPositions`

A client that keeps to the protocol, one document, messages that travel in order.
`TextPositions` holds texts as sequences of characters that differ in their width
in bytes and in UTF-16 units, with both conversions of `converters.go` and the
line starts of `linemap.go`. The client counts on its own text; the server
converts, cuts and must end with the same text. A request is made at a place of
the client's text, and a position the server cannot convert is a panic.
`PositionsAgreeInsideLines` says what the two have in common: the client's
positions are understood, the server's come back as themselves, and a place
inside a line has one position. The start of a line after the first has two: the
server gives it as a place after the end of the line before, which the protocol
has no position for (`PositionsAreOnTheirLine`, the run `Positions`).

### The API server: `ApiServer`

Both ends of the byte stream: the client blocks in a request and answers calls
meanwhile; the server's loader goroutines call back under `callbackMu`. The
handles of the server and the client's `ObjectRegistry` are two maps that must
agree whatever is released or loaded again when. A request names its project,
which the server looks up; it may also fail for what it asks (no such file, no
token there), and a failure says which of the two it is, so that
`LiveObjectsResolve` can say that live objects are never refused as unknown.
`EndsForAReason` says what may end the process: the client has gone, or a
callback of the client failed.

### The watcher: `Watcher`

`doCycle` at the granularity of one read of the disk, with an editor that
writes, deletes and breaks the config in between.

`MCTsgo` is the program `tsgo` in one of its three roles, `api`, `lsp` and `tsc --watch`, or the work groups in which each of them loads a program.

### Flow graph and reachability: `FlowGraph`, `Reachability`

`FlowGraph` is the binder walking the statements of one function body. The
program is chosen as the walk goes, so a run covers every program within the
bounds. Beside the graph goes what the language says of control
(`live`, `jumps`). `Reachability` is the checker's walk with its caches, its
recursion as a stack. The properties compare the two in both directions.

### Expressions: `Expressions`, `ExpressionPrinter`, `MCSyntax`

Trees, tokens, the expression parser by precedence, the type eraser and the
printer. `MCSyntax` makes every expression of a few levels an initial state or a
growth of one, and compares the tree that is read with the one that was written,
and what is printed with what it means.

### Resolution caches: `ResolutionCaches`

One bare module name, several directories, goroutines that resolve it. The
answer must not depend on who asked before (`CacheIsTransparent`).

### Assignability: `Relater`, `MCTypes`

`isRelatedTo` as the code runs it: a record goes through the comparison, with the
cache, the keys whose answer is still assumed, the two stacks and the overflow
flag. Two calls are actions, `isTypeRelatedTo` and `checkTypeRelatedTo` (which
reports errors, compares failed pairs again, and looks at more members of a
union). `Assignable` is the definition the cache is measured by, the largest
relation that its pairs keep. `MCTypes` holds the programs. A type that is on the
stack three times stops a comparison; the comment at `relater.go:757` says that this
may answer yes wrongly for types that differ only further down, and the run's
types are not that deep.

### Exports and aliases: `ModuleExports`, `MCModules`

What a module exports and what an import or export specifier stands for, resolved on
demand: `links` is what the checker has remembered, and an action is one question
(`checkAliasSymbol`, `checkExternalModuleExports`, `getTypeOnlyAliasDeclaration`), of
which there may be any number in any order. A Go map is gone over in one of
`Orders`. `Ways` is what the language says, a search of the declarations without
memory. `MCModules` holds the programs: three modules that lead to each other by
name and by `export *`, two names that may stand for each other, default exports.

## Runs

| run | shows |
|---|---|
| `Project` | the registry with 3 programs, 2 option sets and 2 edits; the service with two configured projects, where only the client changes files: no handler panics; the cached file system with 2 askers; the loader over graphs of 3 files, with one library and with two, in all schedules: everything is loaded before the walk, once, in the order of a depth-first walk, and loading ends |
| `ProjectService` | 2 files, one config in 3 variants, both changing: the client's text is served, clean projects are current, versions tell texts apart, documents are counted, inferred roots are open, and before a config is loaded no open file is left without a project unnoticed |
| `Tsgo` | work groups with 4 closures, parallel and single threaded: safety, refinement and termination of the join; `api` with 2 projects, of all the files and of one, and 2 loads, of one project or of both; `lsp` with texts of 2 characters of 4 kinds; `tsc --watch` with 2 files and 2 writes each |
| `Compiler` | every expression of two levels of 11 operators and all other forms, read, printed and read again; every program of two statements: flow graph and reachability; the resolver's caches with 3 directories and 2 goroutines; 160 programs of three interfaces that refer to each other, every order of questions about them; 648 programs of up to four modules, every order of questions about their exports |
| `ProjectServiceAsked` (violation) | an open file that an importer lent to the inferred project is lost with the import; the next request panics |
| `DocumentRegistryTwoNames` (violation) | the increment without the lock loses a reference when two names denote one file |
| `TextSync` (violation) | two changes in one `didChange` are both converted against the text before the first |
| `CompilerNodeModules` (violation) | the cache by name answers for directories that have a nearer package |
| `CompilerFinally` (violation) | asked about out of order, a statement of a `finally` block is found unreachable |
| `CompilerOverloads` (violation) | the success of the second overload records what the failed first one had assumed |
| `ProjectServiceClosed` (violation) | `CloseFile` panics in its loop over the projects of a file that it takes out of one of them |
| `Positions` (violation) | the server gives the start of a line as a place after the end of the line before |

Parts that share no state are put in one run: a variable chosen at the start
(`part`, `command`, `about`) tells which part the behaviour is about, the others
stay in one initial state, so the state spaces add up and do not multiply.

Bounds. Four closures give a chain of three, a fan of three, and a diamond of
who queues whom. Three files give cycles, a file reached by two routes at once,
two ordinary files whose order the first reference decides, and two libraries
that the ranks reorder. Three holders let an entry go from two holders to none
and back while another holder comes. Two files are an importer and an imported
file, two projects are enough to share a document and to disagree about a file;
`MaxVersion` bounds edits only, and `WithinBound` is the guard that says so. Two loads are a project and another one, or
a project that is loaded again over its handle. Of
the texts one has an import and the other none. A blank text, with which an info
starts at version 0 and not 1, is among them in every workspace but that of
`ProjectService`, where files read from the disk are then edited. Texts of two
characters hold an empty line, a `\r\n`, a character of two units beside one of
one unit, and a lone `\r`. Two statements (three with their bodies) nest every
kind of statement in every other; three were checked beside the runs with the
kinds `fail return break while try` and with all kinds and the conditions `true`
and narrowing, without another result. Expressions have two operators one within
the other on either side; with all operators and with a third level the same
properties held.

Fairness. The work groups and the loader assume that every runnable goroutine
runs (Go's scheduler preempts) and that a closure returns, as a task body
without blocking calls does; in the run `Project` the loader is even given less, namely that
some goroutine of it goes on while one can (`MCSpec`). `LspServer` assumes that the server reads on
(`Server`), `ApiServer` that each goroutine that can go on does, that the client
answers the calls it receives (its loop does nothing else while it waits) and
that the stream delivers; `Watcher` that the ticker goes on (`Cycle`);
`Reachability` that the checker's walk goes on. The clients and the user need
not do anything. The project service's properties are safety properties.

`CHECK_DEADLOCK FALSE` is given where the system stops: after the join, after the
load, after a panic, when the client is gone, at the end of a program, or when
the bound on edits, writes or requests is reached.

Each passing property has a mutant: a "Variant" operator, defined just before the
definition it stands for, that holds a plausible bug which the property tells apart.

## Theorems

Eight modules of proofs. Each holds for every value of the constants that meets the
named assumptions: any finite set of closures, any files, references, configs,
texts and imports, any goroutines, any number of edits.

### Work groups (`WorkGroups_proofs`)

- `GroupInvariant`: `IInv` is inductive. `JoinedMeansAllRan` alone is not: one
  needs that the counter is the number of outstanding closures (`CounterExact`),
  which in turn needs that a closure being queued is idle and in one caller's hands
  (`HandOff`). A closure inside `Queue` is itself outstanding, so the
  counter is above zero while anything can be added: that is the whole argument
  of why the unlocked flag is safe.
- `JoinWaitsForAll`, `QueueIsSafe`, `AddIsOrdered`: consequences of it.
- `GroupImplementsForkJoin`, `SingleGroupImplementsForkJoin`: initial states and
  steps of both groups map to those of `ForkJoin`. For the stack of the
  single-threaded one, `EachInOnePlace` says that a closure is on the stack once
  or has been run.

### File loader (`FileLoader_proofs`)

- `LoaderInvariant`: `LoaderInv` of the loader: slots before the index of
  `startTasks` hold the stored task of their file, those after it their own.
- `WalkSeesWholeGraph`, `EachFileParsedOnce`.

### Document registry (`DocumentRegistry_proofs`)

- `RegistryInvariant`: `IInv` of the registry when calls come one at a time and
  script infos have the parsed file's kind (`Sequential`). `RefCountExact` says
  nothing inside a call, so it is strengthened to `Counted`: at every step an
  entry's count is the number of references to its key, which are the documents
  programs hold and the one just acquired that will replace one of them. A
  count of zero is allowed only while the call that stored the entry has not
  counted itself. `OneCall` and what a call knows at each place (`Knows`) carry
  the count from its read to its write; `Distinct` (an entry has one key) keeps
  a step from touching the count of another key.
- `CountsAreExact`, `CurrentVersionIsReturned`: consequences of it. `DocumentRegistryTwoNames` shows that without `Sequential` the first fails.

### Project service (`ProjectService_proofs`, `FoldInduction`)

- `ServiceInvariant`: `IInv` is inductive: `TypeOK`, `Sound`, `Counted`, `Fresh`, `Noticed`
  and `ClientTextIsServed`. None of them is by itself. That the inferred
  project's roots are open files is only kept when they also belong to it (`Sound`):
  the loop of `CloseFile` goes over the projects a file belongs to, and a root it
  did not come by would stay behind. The count of a document (`Counted`) is
  wrong while a program is built: `Counting` says that the new program's files and
  the old one's have a reference each, `updateGraph` ends with the old ones
  released. `Fresh` is `Versioned` (no document or program has a version that is
  still to come, and a document of the info's version has its text) and `Current` of each
  project. It too is broken while a program is built, and `updateGraph` takes it from
  the files parsed so far to the whole program; a document is used again only if its
  version is the info's, which is where `Current` needs `Versioned`. The version
  of a deleted info is remembered, so `Version` grows over the deletion.
  `Noticed` is about the time before a config is loaded (`Alone`): the open
  files belong to the inferred project, which is dirty if it has no root. No step but the
  closing of a file takes it out of a project or from the roots (`Firm`); that step marks
  the project; and a request that finds no project dirty ends with a root (`Rooted`).
  A panic half way changes nothing, since a handler's state is kept
  only when it ends.
- The argument goes operator by operator: a lemma for each says that it takes a sound
  state to a sound state and what it leaves alone (`Grows`, `Keeps`, `Calm`).
- A loop is `FoldLeft` of its body, and what holds after every round is a matter
  of induction. The library's induction theorems have an operator as a parameter, which
  no prover here can put in. `FoldInduction` has the body and the invariant as its
  `CONSTANTS` instead, and there is one `INSTANCE` of it for each of the thirteen
  loops; `NaturalInduction`, which it asks for, is proved from the well-foundedness
  of finite sets.
- `ServiceTypeOK`, `ClientTextServed`, `DocumentsCounted`, `InferredRootsOpen`,
  `CleanProgramsCurrent`, `VersionsIdentifyText`, `OrphansNoticed`: consequences of it. That the inferred
  roots are open says that two of the code's panics are not reached.
- `CleanProgramIsCurrent` first asked for every root of a clean project, which held in the
  run. The proof did not go through: in a workspace of four files `setRootFiles`, which
  walks a map that shrinks under it, leaves a root behind whose info comes back later without
  belonging to the project (see the known gaps). It now speaks of the roots that belong to it.
- `OrphansAreNoticed` asks for no loaded config. Without that it is false, in a workspace of
  three files (see the known gaps) that the runs, with two, do not have.

### API server and language server (`Servers_proofs`)

- `ApiInvariant`: `ApiInv` is inductive. `AnswersReachTheirCaller` is not: one needs
  that `callbackMu` has the one caller whose question is on the stream
  (`MutexHolds`), and that there is one message on the streams or none
  (`StreamsAgree`), with what an answer on its way may say.
- `ApiTypesOK`, `AnswersReachTheirCallers`, `NothingIsLeft`, `LiveObjectsAreKnown`,
  `EndsOnlyForAReason`: consequences.
- `ClientIsUnderstood`, `ServerIsUnderstood`, `ServerCountsAsClient`: both conversions of `converters.go`, in
  any text and in both encodings. `Bytes` and `Units` are sums of widths, so they
  grow, and a boundary is of one place; a line has as its number how many lines start
  before it, which the binary search finds again (`LinesInOrder`), unless the place is the
  start of one.
- `LspInvariant`: `LspInv` is inductive for `MaxBatch <= 1`. That the texts are the same
  when nothing is on its way says nothing in between: `TextsOnTheWay` says that
  there is a sequence of texts, from the server's to the client's, each of which the next
  message leads to, so no handler fails on its way. A client appends to it, the
  server drops its first. `Starting` and `ServiceComesFirst` keep the messages
  before `initialize` and `initialized` from finding no service. With two changes in one
  `didChange` `EditsAgree` is false for the second: `TextSync`.
- `LspTypesOK`, `TextsAgree`, `EditorCannotCrash`, `PositionsAlwaysAgreeInsideLines`:
  consequences.

### Resolution caches (`ResolutionCaches_proofs`)

- `MapsInvariant`: the caches that goroutines create without looking again are
  finitely many, which bounds what identifies them.
- `EntriesInvariant`, `CachesAreTransparent`: each entry is what a search without
  caches finds, because a search that goes up leaves in each directory it passed what
  the directory it stopped at has. This is so while no package has scripts and no
  types (`"js" \notin PackageKinds`): with one the theorem is false, and the run
  `CompilerNodeModules` shows how.

### File system (`FileSystem_proofs`)

- `CacheInvariant`, `StaleStraddle` of `CachedFS`: `ClearCache` goes from map to
  map, so the invariant says what the maps it has passed can hold (`Passed`) and
  what a question on its way has seen (`OnTheWay`).
- `WatcherTypesOK`, `OutputsOnlyAdvance` of `Watcher`: a program is never older than
  the outputs it replaces (`ProgramIsNotOld`), although the disk is not held still.

### Assumptions

`TasksAssumption` (finitely many closures, distinct names), `InputAssumption`
(priorities are numbers, references name files), `RegistryAssumption` (finitely
many holders, `Nil` is none of the values), `ServiceAssumption` (finitely many
files, each listed once; `Nil` is none of the values; imports and configs name
files), `ApiAssumption` (a project's files are files; handles of different
kinds differ, since they begin with different letters), `LspAssumption` (the
characters are of five kinds, by width and line end), `CachesAssumption` (the
directories above a directory are directories; finitely many goroutines) and
`CachedAssumption` (the questions asked are those of the five maps).

### What stays with TLC

- Liveness, and what needs `ENABLED`: `BothReturn`, `LoadingEnds`, `EveryRequestIsAnswered`,
  `OutputsCatchUp`, `WalksEnd`.
- What is computed by `RECURSIVE` operators, in whose modules no prover works:
  `OrderIsSequential` (the walk of `collectFiles`), `RelationIsTrue`,
  `ExportsAreTheLanguages`, `SourceIsRead`, `EmitKeepsMeaning`.
- `NeverPanics` holds in the workspace of `MCProject`, whose disk is quiet and whose files have
  a config each, and not in general, so it is no theorem of the service.
- `ReachabilityIsTrue` (a graph search against paths of any length), and the types
  of the modules that have no proof.

## Not modelled

Of the compiler's phases the models hold the parts where a rule has to agree with
another: what is printed with what is read, what the binder builds with what
control does, a cache with what it caches. The rest (the grammar, the
rules of types, the transformers, the diagnostics and their wording) is functions over
trees of unbounded size: a model would be a second implementation, and TLC
would see only trees of a few nodes. Message formats are serialization.
In the project service: dynamic files, project roots given at open (the server
passes none), symlinks, deferred deletion (no caller), the two fields that only
logging reads. In the loader: the maps of resolutions and synthetic imports, which
are filled from the same walk. In the LSP server: cancellation and progress,
which the code does not have either. The components' notes in `PROJECT.json` say
what else is left out, part by part.

## Known gaps of the code

Seen while modelling; the models reproduce the first ones without a run of their own.

- `getDefaultProjectForScript` may return a configured project that has lost the
  file; `setRootFiles` keeps the roots a configured project no longer lists, and so
  a project that is not dirty can have a root whose script info came back without
  belonging to it (four files: two deleted roots lose their infos, the loop of
  `setRootFiles` removes one and skips the other, whose file returns and is loaded
  by another project), so `CleanProgramIsCurrent` asks for the roots that belong to it;
  the registry's key is taken from the script info when acquiring and from the
  parsed file when releasing (`InfoKind` and `FileKind` of `DocumentRegistry`),
  so entries leak where the two kinds differ.
- An open file that the inferred project has only because a root of it imports the file,
  when that root is closed, is given a root of its own by the next request, since the project is
  dirty. If a file that a config has, and that the root imported too, is opened in
  between, the loop of `assignProjectToOpenedScriptInfo` updates the inferred project as
  well: it is clean, has no root, and the next request about the file panics. So
  `OrphansAreNoticed` speaks of the time before a config is loaded.
- A file closed without saving keeps the client's text (`scriptinfo.go:80`).
- A file that is referred to both as a library and by path is placed by the
  schedule (`fileloader.go:163`); `OrderIsSequential` speaks of the others.
- `exit` does not end the process, and notifications before `initialize` are
  answered with an error that has no id; a second `initialized` replaces the
  service. A client that sends `didOpen` before `initialized` makes the server
  dereference a nil service; the protocol forbids it, and `LspServer`'s client keeps to it.
- `createWatcher` without a config file dereferences nil, and `start` the
  interval of absent watch options.
- A nil answer of `Stat` is stored by `cachedvfs` as such and the second question
  panics; only tests use `cachedvfs`.
- In the API server `Project.Close` is empty, types are never stored so that
  releasing one fails, and script infos are never read again. `dispose` of the
  client's objects does not ask whether they are disposed already: a second one, after
  the project was loaded again, releases the handle of the new object (`api.ts:64`).
  `ApiServer`'s client disposes of an object once.
- `emitPrefixUnaryExpression` does not skip what is partially emitted (`printer.go:2629`):
  `-(-x as T)` is printed `--x`. `EmitKeepsMeaning` leaves the shape out, as the next one.
- `emitNewExpression` looks only at the outermost node of a callee: one that
  begins with a call is printed without parentheses.
- An expression is printed from its tree: `,` `|` `^` `&` `*` and `+` of
  literals are regrouped as if they were associative, which `*` and `+` of
  floating point numbers are not. Meaning, in the models, is up to that.
- `export type * from "c"; export * from "b"` lets a value through that `b` re-exports
  with `export type { x } from "c"`: `nonTypeOnlyNames` of `getExportsOfModuleWorker`
  takes every own name of `b`. A module visited first by `export type *` and then by
  `export *` loses its mark only for its own names. `MCModules` has no `export type *`.
- With `export *` of two modules one of which has been visited already, a name of both
  that stands for two things is not reported; and comparing two names may report
  an alias as circular that leads back to the module in which they are compared.
