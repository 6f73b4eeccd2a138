------------------------------- MODULE MCTsgo -------------------------------
(***************************************************************************)
(* The program tsgo as cmd/tsgo/main.go starts it: "tsgo api", "tsgo lsp"  *)
(* or "tsgo tsc --watch"; and the work groups in which all of them load    *)
(* programs.  A behaviour is about one of them.                            *)
(***************************************************************************)
EXTENDS MCWorkGroups, ApiServer, Watcher, LspServer

CONSTANTS p1, f1

VARIABLE command

\* A project of all the files and projects of one of them.
Loaded == [p \in Projects |-> IF p = p1 THEN Files ELSE {f1}]

ASSUME LspAssumption /\ ApiAssumption /\ WatcherAssumption

MCVars == <<command, groupVars, lspVars, apiVars, watcherVars>>

\* The others stay in one initial state.
AtRest ==
  /\ command # "build" => group = "single"
  /\ command # "lsp" => ~offered
  /\ command # "tsc" => disk = Nothing

MCInit == command \in {"api", "lsp", "tsc", "build"} /\ ApiInit /\ LspInit /\ WatcherInit /\ GroupsInit /\ AtRest

MCNext ==
  /\ UNCHANGED command
  /\ \/ command = "api" /\ ApiNext /\ UNCHANGED <<groupVars, lspVars, watcherVars>>
     \/ command = "lsp" /\ LspNext /\ UNCHANGED <<groupVars, apiVars, watcherVars>>
     \/ command = "tsc" /\ WatcherNext /\ UNCHANGED <<groupVars, lspVars, apiVars>>
     \/ command = "build" /\ GroupsNext /\ UNCHANGED <<lspVars, apiVars, watcherVars>>

\* What is not run takes no step: its part of the state is at rest.
MCSpec ==
  /\ MCInit /\ [][MCNext]_MCVars
  /\ WF_lspVars(command = "lsp" /\ Server)
  /\ WF_apiVars(command = "api" /\ ReceiveAnswer)
  /\ WF_apiVars(command = "api" /\ AnswerCall)
  /\ WF_apiVars(command = "api" /\ Running /\ Handling)
  /\ \A c \in Callers : WF_apiVars(command = "api" /\ Running /\ Reading(c))
  /\ WF_watcherVars(command = "tsc" /\ Cycle)
  /\ GroupsFairness

-----------------------------------------------------------------------------
\* The state of the language server, of the API server and of the watcher is of its type.
TypesOK == LspTypeOK /\ ApiTypeOK /\ WatcherTypeOK

\* Every request to the API server, and every one to the language server, is answered: see
\* ApiServer and LspServer.
EveryRequestIsAnswered == RequestsAreAnswered /\ RequestsAnswered
=============================================================================
