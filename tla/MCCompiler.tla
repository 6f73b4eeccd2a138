------------------------------ MODULE MCCompiler ------------------------------
(***************************************************************************)
(* Parts of the compiler that share no state, one of which a behaviour is  *)
(* about: expressions on their way from text to text; the flow graph of a  *)
(* function and the questions about it; the caches of module resolution;   *)
(* types that refer to each other and the cache of how they are related;    *)
(* what modules export and imports stand for.                              *)
(***************************************************************************)
EXTENDS ResolutionCaches, MCSyntax, MCTypes, MCModules

CONSTANTS
  Parts,         \* of "syntax", "flow", "caches", "types", "exports"
  Graphs, Asked, DepthLimit  \* of Relater

VARIABLES
  part,
  flows, currentFlow, returnTarget, exceptionTarget, frames, statements, live, jumps, blocked, phase,
  walks, result, reduceLabels, flowNodeReachable, lastFlowNode, lastFlowNodeReachable, asking, answers,
  decl, relation, overflowed,
  exports, stars, links

F == INSTANCE Reachability WITH
  Kinds <- {"plain", "assign", "fail", "return", "throw", "break", "continue", "if", "while", "do", "for", "forof",
            "switch", "try", "label", "block"},
  Conditions <- {"true", "false", "narrowing", "plain"},
  MaxStatements <- 2, MaxDepth <- 3, MaxClauses <- 2,
  AnyOrder <- FALSE

\* A workspace in the middle of three directories.
Directories == {<<>>, <<"a">>, <<"a", "b">>}

WorkingDirectory == <<"a">>

R == INSTANCE Relater

E == INSTANCE ModuleExports WITH Programs <- ModulePrograms, Orders <- ExportOrders

ASSUME F!FlowAssumption /\ CachesAssumption

syntaxVars == <<input, level, way>>
flowVars == <<flows, currentFlow, returnTarget, exceptionTarget, frames, statements, live, jumps, blocked, phase,
              walks, result, reduceLabels, flowNodeReachable, lastFlowNode, lastFlowNodeReachable, asking, answers>>
typeVars == <<decl, relation, overflowed>>
exportVars == <<exports, stars, links>>
MCVars == <<part, syntaxVars, flowVars, vars, typeVars, exportVars>>

\* The parts a behaviour is not about stay in one initial state.
AtRest ==
  /\ part # "syntax" => input = X
  /\ part # "flow" => returnTarget = 0
  /\ part # "caches" => package = [d \in Dirs |-> "none"]
  /\ part # "types" => decl = CHOOSE d \in Graphs : TRUE
  /\ part # "exports" => exports = <<>> /\ stars = <<>> /\ links = E!Links(<<>>)

MCInit ==
  part \in Parts /\ AtRest /\ SyntaxInit /\ F!Init /\ F!InitCheck /\ Init /\ R!Init /\ (part = "exports" => E!Init)

MCNext ==
  /\ UNCHANGED part
  /\ \/ part = "syntax" /\ SyntaxNext /\ UNCHANGED <<flowVars, vars, typeVars, exportVars>>
     \/ part = "flow" /\ F!Next /\ UNCHANGED <<syntaxVars, vars, typeVars, exportVars>>
     \/ part = "caches" /\ Next /\ UNCHANGED <<syntaxVars, flowVars, typeVars, exportVars>>
     \/ part = "types" /\ R!Next /\ UNCHANGED <<syntaxVars, flowVars, vars, exportVars>>
     \/ part = "exports" /\ E!Next /\ UNCHANGED <<syntaxVars, flowVars, vars, typeVars>>

MCSpec == MCInit /\ [][MCNext]_MCVars /\ WF_flowVars(part = "flow" /\ F!Checking)

-----------------------------------------------------------------------------
\* The state of the flow graph and of the walks, and that of the caches, are of their types.
TypesOK ==
  /\ part = "flow" => F!TypeOK
  /\ part = "caches" => TypeOK
  /\ part = "types" => R!TypeOK
  /\ part = "exports" => E!TypeOK

\* Code that control can get to is not reported as unreachable, by the binder or by the checker,
\* and code that control cannot get to is found out: see Reachability.
ReachabilityIsTrue == part = "flow" => F!ReachableIsNotReported /\ F!LiveFlowsOn /\ F!UnreachableIsFound

\* Every question about the flow graph is answered: see Reachability.
WalksEnd == F!WalksEnd

\* What is remembered of exports and imports is what the language says: see ModuleExports.
ExportsAreTheLanguages == part = "exports" => E!ExportsAreTheLanguages

\* The cache of assignability holds no answer that rests on a failed assumption: see Relater.
RelationIsTrue == part = "types" => R!CacheIsTrue
=============================================================================
