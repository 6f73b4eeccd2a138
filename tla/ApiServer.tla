------------------------------ MODULE ApiServer ------------------------------
(***************************************************************************)
(* The API server of internal/api over its one byte stream.  A JavaScript  *)
(* client (src/_packages/api) sends a request and blocks until the answer; *)
(* while the server loads a project, its goroutines send calls back over   *)
(* the same stream to read files, and the blocked client answers them.     *)
(* callbackMu keeps each call and its answer together.  The server names   *)
(* projects, symbols and types with handles, and so does the client's      *)
(* ObjectRegistry: the two maps must agree.                                *)
(***************************************************************************)
EXTENDS Naturals, Sequences, FiniteSets

CONSTANTS
  Projects,     \* config files; a project's handle is made from its name
  Files,        \* source files
  FilesOf,      \* the files a project's program loads
  Symbols,      \* symbols the client may ask for
  Types,        \* types of those symbols
  Runner,         \* the goroutine of Run, which reads the config file itself
  MaxLoads      \* bound on the number of loadProject requests

None == "none"           \* no text: the file is not found, or not read yet

ApiAssumption ==
  /\ FilesOf \in [Projects -> SUBSET Files]
  /\ Runner \notin Files
  /\ None \notin Files \cup {Runner}
  \* A handle begins with a letter for what it names.
  /\ Projects \cap Symbols = {} /\ Projects \cap Types = {} /\ Symbols \cap Types = {}
  /\ MaxLoads \in Nat

\* One loader goroutine per file; Runner reads the config.
Callers == Files \cup {Runner}

Handles == Projects \cup Symbols \cup Types

VARIABLES
  toServer, toClient,   \* the two directions of the stream, oldest first
  open,                 \* the client still has its end open
  serving,              \* what Run is doing: "read", "config", "load", "stopped"
  request,              \* the request being served
  caller,               \* control point of each caller of ReadFile
  callbackMu,           \* who holds the mutex
  enabled,              \* enabledCallbacks has CallbackReadFile
  scriptInfos,          \* the text of each file read so far, and who it is from
  handles,              \* the keys of the maps projects and symbols (types stays empty)
  waiting,              \* the client is blocked in requestSync
  objects,              \* handles of the client's live objects
  told,                 \* what the client last answered about each file
  loads                 \* loadProject requests so far

serverVars == <<serving, request, caller, callbackMu, enabled, scriptInfos, handles>>
clientVars == <<open, waiting, objects, told, loads>>
apiVars == <<toServer, toClient, serverVars, clientVars>>

Disk == "disk"           \* the text the real file system has
Answers == {"text", "null", "empty", "error"}
CallbackLists == {"readFile", "unknown", "known and unknown"}

\* Why a request failed: a handle the server does not have, or anything else (None).
NotFound == "not found"

\* project is the project a request is made of, if it is.
ApiRequest(method, project, arg) == [kind |-> "request", method |-> method, project |-> project, arg |-> arg]

ApiInit ==
  /\ toServer = <<>> /\ toClient = <<>>
  /\ open = TRUE /\ waiting = FALSE /\ objects = {} /\ loads = 0
  /\ told = [c \in Callers |-> None]
  /\ serving = "read" /\ request = ApiRequest(None, None, None)
  /\ caller = [c \in Callers |-> "idle"]
  /\ callbackMu = None /\ enabled = FALSE
  /\ scriptInfos = [f \in Files |-> None]
  /\ handles = {}

-----------------------------------------------------------------------------
(* The client: one request at a time, from objects it has not disposed.    *)

Send(method, project, arg) ==
  /\ open /\ ~waiting
  /\ waiting' = TRUE
  /\ toServer' = Append(toServer, ApiRequest(method, project, arg))
  /\ UNCHANGED <<toClient, serverVars, open, objects, told>>

\* new Client(options): the keys of options.fs are the callbacks.
Configure ==
  /\ \E list \in CallbackLists : Send("configure", None, list)
  /\ loads = 0
  /\ UNCHANGED loads

LoadOrReload ==
  /\ loads < MaxLoads
  /\ \E p \in Projects : Send("loadProject", None, p)
  /\ loads' = loads + 1

\* getSymbolAtPosition and getTypeOfSymbol of a project: ensureNotDisposed is asked of the
\* project and of the symbol, which may be another project's.
Ask ==
  /\ \E p \in objects \cap Projects :
       \/ Send("getSymbol", p, None)
       \/ \E s \in objects \cap Symbols : Send("getType", p, s)
  /\ UNCHANGED loads

\* ObjectRegistry.release: the object leaves the map before the request is sent.
Dispose ==
  /\ open /\ ~waiting
  /\ \E o \in objects :
       /\ objects' = objects \ {o}
       /\ toServer' = Append(toServer, ApiRequest("release", None, o))
  /\ waiting' = TRUE
  /\ UNCHANGED <<toClient, serverVars, open, told, loads>>

\* A message arrives at the blocked client: the answer of its request ends the wait. An
\* answer without data makes no object, a failure is thrown.
ReceiveAnswer ==
  /\ toClient # <<>> /\ Head(toClient).kind \in {"response", "failure"}
  /\ toClient' = Tail(toClient)
  /\ waiting' = FALSE
  /\ objects' = IF Head(toClient).kind = "response" /\ Head(toClient).method \in {"loadProject", "getSymbol", "getType"}
                THEN objects \cup ({Head(toClient).arg} \ {None}) ELSE objects
  /\ UNCHANGED <<toServer, serverVars, open, told, loads>>

AnswerOf(a) == [kind |-> IF a = "error" THEN "callError" ELSE "callResponse", method |-> "readFile", arg |-> a]

\* A call runs the registered callback, whatever it returns or throws.
AnswerCall ==
  /\ open /\ waiting
  /\ toClient # <<>> /\ Head(toClient).kind = "call"
  /\ \E a \in Answers :
       /\ told' = [told EXCEPT ![Head(toClient).arg] = a]
       /\ toServer' = Append(toServer, AnswerOf(a))
  /\ toClient' = Tail(toClient)
  /\ UNCHANGED <<serverVars, open, waiting, objects, loads>>

\* The client process ends, whatever it was waiting for.
Close ==
  /\ open' = FALSE
  /\ open
  /\ UNCHANGED <<toServer, toClient, serverVars, waiting, objects, told, loads>>

-----------------------------------------------------------------------------
(* The server.                                                             *)

Reply(kind, arg) ==
  toClient' = Append(toClient, [kind |-> kind, method |-> request'.method, arg |-> arg])

\* Run: readRequest("") fails at the end of the stream, or on what is no request.
ReadFails ==
  /\ serving = "read"
  /\ \/ toServer = <<>> /\ ~open
     \/ toServer # <<>> /\ Head(toServer).kind # "request"
  /\ serving' = "stopped"
  /\ UNCHANGED <<toServer, toClient, request, caller, callbackMu, enabled, scriptInfos, handles, clientVars>>

\* Taking the next request off the stream; the handler follows in the same step.
Take(method) ==
  /\ serving = "read"
  /\ toServer # <<>> /\ Head(toServer).kind = "request" /\ Head(toServer).method = method
  /\ toServer' = Tail(toServer)
  /\ request' = Head(toServer)

\* handleConfigure enables the callbacks in order and stops at one it does not know.
HandleConfigure ==
  /\ Take("configure")
  /\ enabled' = (enabled \/ request'.arg \in {"readFile", "known and unknown"})
  /\ Reply(IF request'.arg = "readFile" THEN "response" ELSE "failure", None)
  /\ UNCHANGED <<serving, caller, callbackMu, scriptInfos, handles, clientVars>>

\* LoadProject begins with LoadConfig, which reads the config file.
HandleLoad ==
  /\ Take("loadProject")
  /\ serving' = "config"
  /\ caller' = [caller EXCEPT ![Runner] = "reading"]
  /\ UNCHANGED <<toClient, callbackMu, enabled, scriptInfos, handles, clientVars>>

\* Variant: the symbol is answered and not stored.
HandleGetSymbolVariant ==
  /\ Take("getSymbol")
  /\ IF request'.project \notin handles THEN Reply("failure", NotFound)
     ELSE Reply("failure", None) \/ \E s \in Symbols \cup {None} : Reply("response", s)
  /\ UNCHANGED <<serving, caller, callbackMu, enabled, scriptInfos, handles, clientVars>>

\* GetSymbolAtPosition of a known project: an error when the program has no such file or
\* no token is there, nothing when the token has no symbol, and else its symbol, stored.
HandleGetSymbol ==
  /\ Take("getSymbol")
  /\ IF request'.project \notin handles THEN Reply("failure", NotFound) /\ UNCHANGED handles
     ELSE \/ Reply("failure", None) /\ UNCHANGED handles
          \/ Reply("response", None) /\ UNCHANGED handles
          \/ \E s \in Symbols : handles' = handles \cup {s} /\ Reply("response", s)
  /\ UNCHANGED <<serving, caller, callbackMu, enabled, scriptInfos, clientVars>>

\* GetTypeOfSymbol of a known project and symbol makes a handle of the type, if there is
\* one, and stores it nowhere.
HandleGetType ==
  /\ Take("getType")
  /\ IF {request'.project, request'.arg} \subseteq handles
     THEN \E t \in Types \cup {None} : Reply("response", t)
     ELSE Reply("failure", NotFound)
  /\ UNCHANGED <<serving, caller, callbackMu, enabled, scriptInfos, handles, clientVars>>

HandleRelease ==
  /\ Take("release")
  /\ handles' = handles \ {request'.arg}
  /\ IF request'.arg \in handles THEN Reply("response", None) ELSE Reply("failure", NotFound)
  /\ UNCHANGED <<serving, caller, callbackMu, enabled, scriptInfos, clientVars>>

-----------------------------------------------------------------------------
(* ReadFile, by Runner for the config and by a loader goroutine for a file.  *)

\* Where ReadFile's text comes from, given the client's answer.
Read(a) == CASE a = "text" -> "text" [] a = "null" -> None [] a = "empty" -> Disk

\* The read is over: getOrCreateScriptInfo keeps a text it got.
EndRead(c, text) ==
  /\ caller' = [caller EXCEPT ![c] = IF c = Runner /\ text = None THEN "failed" ELSE "done"]
  /\ scriptInfos' = IF c \in Files THEN [scriptInfos EXCEPT ![c] = text] ELSE scriptInfos

ReadLocally(c) ==
  /\ caller[c] = "reading" /\ ~enabled
  /\ \E text \in {Disk, None} : EndRead(c, text)
  /\ UNCHANGED <<toServer, toClient, serving, request, callbackMu, enabled, handles, clientVars>>

\* Variant: call does not take the mutex.
LockVariant(c) ==
  /\ caller[c] = "reading" /\ enabled
  /\ caller' = [caller EXCEPT ![c] = "locked"]
  /\ UNCHANGED <<toServer, toClient, serving, request, callbackMu, enabled, scriptInfos, handles, clientVars>>

Lock(c) ==
  /\ caller[c] = "reading" /\ enabled
  /\ callbackMu = None
  /\ callbackMu' = c
  /\ caller' = [caller EXCEPT ![c] = "locked"]
  /\ UNCHANGED <<toServer, toClient, serving, request, enabled, scriptInfos, handles, clientVars>>

CallOf(c) == [kind |-> "call", method |-> "readFile", arg |-> c]

WriteCall(c) ==
  /\ caller[c] = "locked"
  /\ caller' = [caller EXCEPT ![c] = "asked"]
  /\ toClient' = Append(toClient, CallOf(c))
  /\ UNCHANGED <<toServer, serving, request, callbackMu, enabled, scriptInfos, handles, clientVars>>

\* Variant: the mutex is not released.
ReadAnswerVariant(c) ==
  /\ caller[c] = "asked"
  /\ toServer # <<>> /\ Head(toServer).kind = "callResponse"
  /\ toServer' = Tail(toServer)
  /\ EndRead(c, Read(Head(toServer).arg))
  /\ UNCHANGED <<toClient, serving, request, callbackMu, enabled, handles, clientVars>>

ReadAnswer(c) ==
  /\ caller[c] = "asked"
  /\ toServer # <<>> /\ Head(toServer).kind = "callResponse"
  /\ toServer' = Tail(toServer)
  /\ callbackMu' = None
  /\ EndRead(c, Read(Head(toServer).arg))
  /\ UNCHANGED <<toClient, serving, request, enabled, handles, clientVars>>

\* Any error of call is a panic of its goroutine, which nothing recovers.
CallPanics(c) ==
  /\ caller[c] = "asked"
  /\ \/ toServer = <<>> /\ ~open
     \/ toServer # <<>> /\ Head(toServer).kind # "callResponse"
  /\ serving' = "stopped"
  /\ UNCHANGED <<toServer, toClient, request, caller, callbackMu, enabled, scriptInfos, handles, clientVars>>

-----------------------------------------------------------------------------
(* LoadProject around its reads.                                           *)

ConfigFails ==
  /\ serving = "config" /\ caller[Runner] = "failed"
  /\ serving' = "read" /\ caller' = [caller EXCEPT ![Runner] = "idle"]
  /\ toClient' = Append(toClient, [kind |-> "failure", method |-> request.method, arg |-> None])
  /\ UNCHANGED <<toServer, request, callbackMu, enabled, scriptInfos, handles, clientVars>>

\* NewProgram: a goroutine for each file; only those without a script info read.
StartLoading ==
  /\ serving = "config" /\ caller[Runner] = "done"
  /\ serving' = "load"
  /\ caller' = [c \in Callers |->
       IF c \in FilesOf[request.arg] /\ scriptInfos[c] = None THEN "reading" ELSE "idle"]
  /\ UNCHANGED <<toServer, toClient, request, callbackMu, enabled, scriptInfos, handles, clientVars>>

\* Variant: the work group is not waited for.
EndLoadVariant ==
  /\ serving = "load"
  /\ serving' = "read" /\ caller' = [c \in Callers |-> "idle"]
  /\ handles' = handles \cup {request.arg}
  /\ toClient' = Append(toClient, [kind |-> "response", method |-> request.method, arg |-> request.arg])
  /\ UNCHANGED <<toServer, request, callbackMu, enabled, scriptInfos, clientVars>>

\* The work group has joined; the project is stored over one of the same name.
EndLoad ==
  /\ serving = "load" /\ \A c \in Callers : caller[c] \in {"idle", "done"}
  /\ serving' = "read" /\ caller' = [c \in Callers |-> "idle"]
  /\ handles' = handles \cup {request.arg}
  /\ toClient' = Append(toClient, [kind |-> "response", method |-> request.method, arg |-> request.arg])
  /\ UNCHANGED <<toServer, request, callbackMu, enabled, scriptInfos, clientVars>>

-----------------------------------------------------------------------------
Running == serving # "stopped"

Reading(c) == ReadLocally(c) \/ Lock(c) \/ WriteCall(c) \/ ReadAnswer(c) \/ CallPanics(c)

Handling == \/ HandleConfigure \/ HandleLoad \/ HandleGetSymbol \/ HandleGetType \/ HandleRelease
            \/ ConfigFails \/ StartLoading \/ EndLoad \/ ReadFails

Client == Configure \/ LoadOrReload \/ Ask \/ Dispose \/ ReceiveAnswer \/ AnswerCall \/ Close

ApiNext == Client \/ (Running /\ Handling) \/ (Running /\ \E c \in Callers : Reading(c))

ApiFairness ==
  /\ WF_apiVars(ReceiveAnswer) /\ WF_apiVars(AnswerCall)
  /\ WF_apiVars(Running /\ Handling)
  /\ \A c \in Callers : WF_apiVars(Running /\ Reading(c))

ApiSpec == ApiInit /\ [][ApiNext]_apiVars /\ ApiFairness

-----------------------------------------------------------------------------
\* What the client sends, and the server.
RequestMessage ==
  [kind : {"request"}, method : {"configure", "loadProject", "getSymbol", "getType", "release"},
   project : Projects \cup {None}, arg : Handles \cup CallbackLists \cup {None}]
ClientMessage == RequestMessage \cup {AnswerOf(a) : a \in Answers}
ServerMessage ==
  {CallOf(c) : c \in Callers} \cup
  [kind : {"response", "failure"}, method : {"configure", "loadProject", "getSymbol", "getType", "release"},
   arg : Handles \cup {None, NotFound}]

StateTypeOK ==
  /\ open \in BOOLEAN /\ waiting \in BOOLEAN /\ enabled \in BOOLEAN
  /\ serving \in {"read", "config", "load", "stopped"}
  /\ told \in [Callers -> Answers \cup {None}]
  /\ caller \in [Callers -> {"idle", "reading", "locked", "asked", "done", "failed"}]
  /\ callbackMu \in Callers \cup {None}
  /\ scriptInfos \in [Files -> {"text", Disk, None}]
  /\ handles \subseteq Projects \cup Symbols
  /\ objects \subseteq Handles

ApiTypeOK == toServer \in Seq(ClientMessage) /\ toClient \in Seq(ServerMessage) /\ StateTypeOK

\* The text of a script info is what the client said of that very file: with many
\* goroutines calling over one stream no answer goes to another's question
\* (server.go's call under callbackMu, api.go's getOrCreateScriptInfo).
AnswersReachTheirCaller ==
  \A f \in Files :
    scriptInfos[f] # None /\ told[f] # None => scriptInfos[f] = Read(told[f])

\* Between requests nothing of the last one is left: no goroutine reads, nobody holds
\* the mutex, and no call or answer of it is on the stream, so the next message
\* Run reads is a request (server.go's Run stops on anything else).
QuietBetweenRequests ==
  serving = "read" =>
    /\ callbackMu = None /\ \A c \in Callers : caller[c] = "idle"
    /\ \A i \in DOMAIN toServer : toServer[i].kind = "request"
    /\ \A i \in DOMAIN toClient : toClient[i].kind # "call"

\* The client's live projects and symbols are all known to the server, through reloads and
\* disposals, so that no request is refused for a handle the server does not have, but the
\* release of a type, which GetTypeOfSymbol never stores (api.go's maps of handles and
\* objectRegistry.ts). Any request may fail for what it asks.
LiveObjectsResolve ==
  /\ objects \ Types \subseteq handles
  /\ \A i \in DOMAIN toClient : toClient[i].kind = "failure" /\ toClient[i].arg = NotFound =>
       toClient[i].method = "release" /\ request.arg \in Types

\* The process ends only because the client has gone or because a callback of the client
\* failed, and not in the middle of a question that is still to be answered (server.go's
\* Run and the panics of its file system).
EndsForAReason ==
  serving = "stopped" /\ open => toClient = <<>> /\ \E c \in Callers : told[c] = "error"

\* A request is answered, unless the server ends: callers take turns at the mutex, a
\* blocked client serves their calls, and every lock is given back.
RequestsAreAnswered == waiting ~> (~waiting \/ ~Running)

(***************************************************************************)
(* Why it holds: the inductive invariant.                                  *)
(***************************************************************************)
\* The mutex has the one caller whose question is on the stream or goes there next; callers
\* are at work only while a project loads, Runner first and the loader goroutines after it.
MutexHolds ==
  /\ \A c \in Callers : caller[c] \in {"locked", "asked"} <=> callbackMu = c
  /\ serving = "read" => \A c \in Callers : caller[c] = "idle"
  /\ serving = "config" => \A c \in Files : caller[c] = "idle"
  /\ serving \in {"config", "load"} => request.method = "loadProject" /\ request.arg \in Projects

\* A file is read while it has no text, and asked about only since the callbacks are enabled.
ReadsAreNew ==
  /\ \A f \in Files : caller[f] \in {"reading", "locked", "asked"} => scriptInfos[f] = None
  /\ \A c \in Callers : told[c] # None \/ caller[c] \in {"locked", "asked"} => enabled

\* A request that can be answered: the handles in it are known.
CanBeAnswered(m) ==
  /\ m \in RequestMessage
  /\ \/ m.method = "configure" /\ m.arg \in CallbackLists
     \/ m.method = "loadProject" /\ m.arg \in Projects
     \/ m.method = "getSymbol" /\ m.project \in handles
     \/ m.method = "getType" /\ {m.project, m.arg} \subseteq handles
     \/ m.method = "release" /\ m.arg \in (handles \cup Types) \ objects

\* An answer: a handle the server knows or no data, or one of the failures there may be.
IsAnswer(m) ==
  /\ m \in ServerMessage
  /\ \/ m.kind = "response" /\ m.method \in {"configure", "release"}
     \/ m.kind = "response" /\ m.arg \in handles \cup Types \cup {None}
     \/ m.kind = "failure" /\ m.arg # NotFound
     \/ m.kind = "failure" /\ m.method = "release" /\ request.arg \in Types

Alone(stream) == stream # <<>> /\ stream = <<Head(stream)>>

\* Run waits for a request, or it met the end of the stream.
Listening == serving = "read" \/ (serving = "stopped" /\ ~open)

\* The one message that is on the stream, if any, and in which direction.
StreamsAgree ==
  \/ /\ ~waiting /\ Listening
     /\ toServer = <<>> /\ toClient = <<>>
  \/ /\ waiting /\ serving = "read"
     /\ toClient = <<>> /\ Alone(toServer) /\ CanBeAnswered(Head(toServer))
  \/ /\ waiting /\ Listening
     /\ toServer = <<>> /\ Alone(toClient) /\ IsAnswer(Head(toClient))
  \/ /\ waiting /\ serving # "read"
     /\ \/ toServer = <<>> /\ toClient = <<>> /\ \A c \in Callers : caller[c] # "asked"
        \/ \E c \in Callers :
             /\ caller[c] = "asked"
             /\ \/ toServer = <<>> /\ toClient = <<CallOf(c)>>
                \/ toClient = <<>> /\ toServer = <<AnswerOf(told[c])>> /\ told[c] # None

ObjectsAreKnown == objects \subseteq handles \cup Types

ApiInv ==
  /\ StateTypeOK /\ MutexHolds /\ ReadsAreNew /\ AnswersReachTheirCaller /\ StreamsAgree /\ ObjectsAreKnown
  /\ EndsForAReason
==============================================================================
