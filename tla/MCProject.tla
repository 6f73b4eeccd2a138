------------------------------ MODULE MCProject ------------------------------
(***************************************************************************)
(* What the language service keeps and how a program is loaded: the        *)
(* document registry that goroutines share; the project service in a small *)
(* workspace of two files, one of which the other may import, each in a    *)
(* directory with a config; the cached file system; the loader.  A         *)
(* behaviour is about one of them.                                         *)
(***************************************************************************)
EXTENDS DocumentRegistry, CachedFS, MCFileLoader

CONSTANTS helper, other, c1, c2, blank, user, inferred

VARIABLES
  about,   \* "registry", "configured", "files" or "loading"
  disk, config, buffer, infos, lastVersions, openFiles, projects, docs, panic

\* user imports helper
ImportsOf == [t \in {blank, user} |-> IF t = user THEN {helper} ELSE {}]
Includes(S) == [files |-> {}, include |-> S]

\* A tsconfig.json in the directory of each file.
EachItsOwn == [x \in {helper, other} |-> IF x = helper THEN c1 ELSE c2]
Own(of) == Includes({x \in {helper, other} : EachItsOwn[x] = of})
Con == INSTANCE ProjectService WITH
  FileOrder <- <<helper, other>>, ConfigOf <- EachItsOwn, Inferred <- inferred,
  Texts <- {blank, user}, Blank <- blank, Imports <- ImportsOf, ConfigTexts <- {Own(c1), Own(c2)}, MaxVersion <- 3

ASSUME CachedAssumption

serviceVars == <<disk, config, buffer, infos, lastVersions, openFiles, projects, docs, panic>>
MCVars == <<about, vars, serviceVars, cachedVars, loaderVars>>

\* The configured workspace stays as it is: every file is on the disk and each tsconfig.json
\* includes the files of its directory.
MCInit ==
  /\ Init /\ CachedInit /\ LoaderInit
  /\ about \in {"registry", "configured", "files", "loading"} /\ Con!Init
  /\ \A x \in {helper, other} : (disk[x] # Nil) = (about = "configured")
  /\ \A x \in {c1, c2} : config[x] = Own(x)
  /\ about # "loading" => program = CHOOSE p \in Inputs : TRUE

MCNext ==
  /\ UNCHANGED about
  /\ \/ about = "registry" /\ Next /\ UNCHANGED <<serviceVars, cachedVars, loaderVars>>
     \/ about = "configured" /\ Con!Handler /\ UNCHANGED <<vars, cachedVars, loaderVars>>
     \/ about = "files" /\ CachedNext /\ UNCHANGED <<vars, serviceVars, loaderVars>>
     \/ about = "loading" /\ LoaderNext /\ UNCHANGED <<vars, serviceVars, cachedVars>>

\* Some goroutine of the loader that can run does: less than what the loader's own Fairness asks for.
MCSpec == MCInit /\ [][MCNext]_MCVars /\ WF_loaderVars(about = "loading" /\ LoaderNext)

-----------------------------------------------------------------------------
\* In a workspace that only the client changes no handler panics: every request is answered from a
\* program that has the file. (Where projects are detached CloseFile does panic: ClosedIsForgotten.)
NeverPanics == about = "configured" => panic = "none"
=============================================================================
