---------------------------- MODULE Servers_proofs ----------------------------
(***************************************************************************)
(* The two servers of tsgo.                                                *)
(*                                                                         *)
(* The API server and its client over one stream, for any projects, files, *)
(* symbols and types, any number of loads and loader goroutines: which     *)
(* message may be on the stream, whose question an answer is of, and that  *)
(* the two maps of objects agree.                                          *)
(*                                                                         *)
(* The language server and its editor, for texts of any length, any number *)
(* of messages and requests and either encoding: the server looks where    *)
(* the editor points, so that an edit has one result, gives its own places *)
(* the editor's positions but for the starts of lines, and the messages on *)
(* their way lead from the server's text to the editor's.                  *)
(***************************************************************************)
EXTENDS ApiServer, LspServer, FiniteSetTheorems, WellFoundedInduction, TLAPS


-----------------------------------------------------------------------------
(***************************************************************************)
(* Streams of one message.                                                 *)
(***************************************************************************)
\* What an empty stream holds after a message was put on it.
LEMMA OneMessage ==
  ASSUME NEW m
  PROVE  /\ Append(<<>>, m) = <<m>> /\ <<m>> # <<>> /\ Head(<<m>>) = m /\ Tail(<<m>>) = <<>>
         /\ DOMAIN <<m>> = {1} /\ <<m>>[1] = m
OBVIOUS

\* A stream of one message is empty when that is taken.
LEMMA AloneFacts ==
  ASSUME NEW s, Alone(s)
  PROVE  Tail(s) = <<>> /\ s # <<>> /\ DOMAIN s = {1} /\ s[1] = Head(s)
<1>1. PICK m : s = <<m>>
  BY DEF Alone
<1> QED BY <1>1, OneMessage

\* And a message put on an empty stream is alone there.
LEMMA AppendAlone ==
  ASSUME NEW m
  PROVE  Alone(Append(<<>>, m)) /\ Head(Append(<<>>, m)) = m
BY OneMessage DEF Alone

\* Run finds a request that can be answered.
LEMMA Requested ==
  ASSUME ApiInv, serving = "read", toServer # <<>>
  PROVE  /\ waiting /\ toClient = <<>> /\ Alone(toServer) /\ Tail(toServer) = <<>>
         /\ CanBeAnswered(Head(toServer)) /\ Head(toServer).kind = "request"
BY AloneFacts DEF ApiInv, StreamsAgree, CanBeAnswered, RequestMessage

\* The caller that has asked: its question is on the stream, or the client's answer to it.
LEMMA Asked ==
  ASSUME ApiInv, Running, NEW c \in Callers, caller[c] = "asked"
  PROVE  /\ waiting /\ serving \in {"config", "load"} /\ callbackMu = c /\ enabled
         /\ \A d \in Callers : caller[d] \in {"locked", "asked"} => d = c
         /\ \/ toServer = <<>> /\ toClient = <<CallOf(c)>>
            \/ toClient = <<>> /\ toServer = <<AnswerOf(told[c])>> /\ told[c] # None
<1>1. callbackMu = c /\ enabled /\ \A d \in Callers : caller[d] \in {"locked", "asked"} => d = c
  BY DEF ApiInv, MutexHolds, ReadsAreNew
<1>2. serving \in {"config", "load"}
  BY DEF ApiInv, StateTypeOK, MutexHolds, Running
<1> QED BY <1>1, <1>2 DEF ApiInv, StreamsAgree, Listening

\* While a project loads and nobody has asked, there is nothing on the stream.
LEMMA Silent ==
  ASSUME ApiInv, serving \in {"config", "load"}, \A c \in Callers : caller[c] # "asked"
  PROVE  waiting /\ toServer = <<>> /\ toClient = <<>>
BY DEF ApiInv, StreamsAgree, Listening

-----------------------------------------------------------------------------
(***************************************************************************)
(* The client's steps.                                                     *)
(***************************************************************************)
\* The stream is empty, the server reads, the objects are known and nobody loads.
LEMMA InitIInv == ApiAssumption /\ ApiInit => ApiInv
<1> SUFFICES ASSUME ApiAssumption, ApiInit PROVE ApiInv
  OBVIOUS
<1>1. StateTypeOK /\ MutexHolds
  BY DEF ApiInit, StateTypeOK, MutexHolds, ApiAssumption, Callers
<1>2. ReadsAreNew /\ AnswersReachTheirCaller /\ StreamsAgree /\ ObjectsAreKnown /\ EndsForAReason
  BY DEF ApiInit, ReadsAreNew, AnswersReachTheirCaller, StreamsAgree, Listening, ObjectsAreKnown, EndsForAReason, Callers
<1> QED BY <1>1, <1>2 DEF ApiInv

\* The client puts a request on the empty stream.
LEMMA SendIInv ==
  ASSUME ApiInv, NEW method, NEW project, NEW arg, Send(method, project, arg),
         CanBeAnswered(ApiRequest(method, project, arg))
  PROVE  ApiInv'
<1> DEFINE m == ApiRequest(method, project, arg)
<1>1. toServer = <<>> /\ toClient = <<>> /\ serving = "read"
  BY DEF ApiInv, StreamsAgree, Listening, Send
<1>2. Alone(toServer') /\ Head(toServer') = m /\ toClient' = <<>>
  BY <1>1, AppendAlone DEF Send
<1>3. CanBeAnswered(m)'
  BY DEF CanBeAnswered, Send, serverVars
<1>4. StreamsAgree'
  BY <1>1, <1>2, <1>3 DEF StreamsAgree, Send, serverVars
<1>5. StateTypeOK' /\ MutexHolds' /\ ReadsAreNew' /\ AnswersReachTheirCaller' /\ ObjectsAreKnown' /\ EndsForAReason'
  BY <1>1 DEF ApiInv, StateTypeOK, MutexHolds, ReadsAreNew, AnswersReachTheirCaller, ObjectsAreKnown, EndsForAReason,
              Send, serverVars
<1> QED BY <1>4, <1>5 DEF ApiInv

\* The client asks only of what it has the objects for, and the server knows those.
LEMMA RequestsIInv ==
  ASSUME ApiAssumption, ApiInv, Configure \/ LoadOrReload \/ Ask
  PROVE  ApiInv'
<1>1. CASE Configure
  <2>1. PICK list \in CallbackLists : Send("configure", None, list)
    BY <1>1 DEF Configure
  <2>2. CanBeAnswered(ApiRequest("configure", None, list))
    BY DEF CanBeAnswered, RequestMessage, ApiRequest
  <2> QED BY <2>1, <2>2, SendIInv
<1>2. CASE LoadOrReload
  <2>1. PICK p \in Projects : Send("loadProject", None, p)
    BY <1>2 DEF LoadOrReload
  <2>2. CanBeAnswered(ApiRequest("loadProject", None, p))
    BY DEF CanBeAnswered, RequestMessage, ApiRequest, Handles
  <2> QED BY <2>1, <2>2, SendIInv
<1>3. CASE Ask
  <2>1. PICK p \in objects \cap Projects :
          \/ Send("getSymbol", p, None)
          \/ \E s \in objects \cap Symbols : Send("getType", p, s)
    BY <1>3 DEF Ask
  <2>2. p \in handles /\ \A s \in objects \cap Symbols : s \in handles
    BY DEF ApiInv, ObjectsAreKnown, ApiAssumption
  <2>3. CanBeAnswered(ApiRequest("getSymbol", p, None))
    BY <2>2 DEF CanBeAnswered, RequestMessage, ApiRequest
  <2>4. ASSUME NEW s \in objects \cap Symbols PROVE CanBeAnswered(ApiRequest("getType", p, s))
    BY <2>2 DEF CanBeAnswered, RequestMessage, ApiRequest, Handles
  <2> QED BY <2>1, <2>3, <2>4, SendIInv
<1> QED BY <1>1, <1>2, <1>3

\* An object leaves the client's map before the server's.
LEMMA DisposeIInv ==
  ASSUME ApiInv, Dispose
  PROVE  ApiInv'
<1>1. PICK o \in objects :
        /\ objects' = objects \ {o}
        /\ toServer' = Append(toServer, ApiRequest("release", None, o))
  BY DEF Dispose
<1> DEFINE m == ApiRequest("release", None, o)
<1>2. toServer = <<>> /\ toClient = <<>> /\ serving = "read" /\ serving' = "read" /\ waiting' /\ toClient' = toClient
  BY DEF ApiInv, StreamsAgree, Listening, Dispose, serverVars
<1>3. Alone(toServer') /\ Head(toServer') = m /\ toClient' = <<>>
  BY <1>1, <1>2, AppendAlone
<1>4. CanBeAnswered(m)'
  <2>1. o \in handles \cup Types /\ o \in Handles /\ o \notin objects' /\ handles' = handles
    BY <1>1 DEF ApiInv, ObjectsAreKnown, StateTypeOK, Dispose, serverVars
  <2> QED BY <2>1 DEF CanBeAnswered, RequestMessage, ApiRequest
<1>5. StreamsAgree'
  BY <1>2, <1>3, <1>4 DEF StreamsAgree
<1>6. StateTypeOK' /\ MutexHolds' /\ ReadsAreNew' /\ AnswersReachTheirCaller' /\ ObjectsAreKnown' /\ EndsForAReason'
  BY <1>1, <1>2 DEF ApiInv, StateTypeOK, MutexHolds, ReadsAreNew, AnswersReachTheirCaller, ObjectsAreKnown,
                    EndsForAReason, Dispose, serverVars
<1> QED BY <1>5, <1>6 DEF ApiInv

\* The answer ends the wait; an object it is about is one the server knows.
LEMMA ReceiveAnswerIInv ==
  ASSUME ApiInv, ReceiveAnswer
  PROVE  ApiInv'
<1> DEFINE m == Head(toClient)
<1>1. toServer = <<>> /\ Alone(toClient) /\ IsAnswer(m) /\ Listening
  BY OneMessage DEF ApiInv, StreamsAgree, ReceiveAnswer, CallOf
<1> ~(serving = "stopped" /\ open)
  BY <1>1 DEF Listening
<1>2. toClient' = <<>> /\ toServer' = <<>> /\ ~waiting' /\ Listening'
  BY <1>1, AloneFacts DEF ReceiveAnswer, Listening, serverVars
<1>3. objects' \subseteq objects \cup handles \cup Types
  BY <1>1 DEF ReceiveAnswer, IsAnswer
<1>4. StreamsAgree'
  BY <1>2 DEF StreamsAgree
<1>5. ObjectsAreKnown' /\ objects' \subseteq Handles
  BY <1>3 DEF ApiInv, ObjectsAreKnown, StateTypeOK, Handles, ReceiveAnswer, serverVars
<1>6. StateTypeOK' /\ MutexHolds' /\ ReadsAreNew' /\ AnswersReachTheirCaller' /\ EndsForAReason'
  BY <1>5 DEF ApiInv, StateTypeOK, MutexHolds, ReadsAreNew, AnswersReachTheirCaller, EndsForAReason, ReceiveAnswer, serverVars
<1> QED BY <1>4, <1>5, <1>6 DEF ApiInv

\* The client answers the caller that has asked, which has no text yet.
LEMMA AnswerCallIInv ==
  ASSUME ApiInv, AnswerCall
  PROVE  ApiInv'
<1>1. PICK c \in Callers : caller[c] = "asked" /\ toServer = <<>> /\ toClient = <<CallOf(c)>> /\ serving # "read"
  BY OneMessage DEF ApiInv, StreamsAgree, IsAnswer, ServerMessage, AnswerCall
<1>2. Head(toClient).arg = c /\ Tail(toClient) = <<>>
  BY <1>1, OneMessage DEF CallOf
<1>3. PICK a \in Answers : told' = [told EXCEPT ![c] = a] /\ toServer' = <<AnswerOf(a)>>
  BY <1>1, <1>2, OneMessage DEF AnswerCall
<1>4. toClient' = <<>> /\ waiting' /\ UNCHANGED <<serverVars, open, waiting, objects>>
  BY <1>2 DEF AnswerCall
<1>5. told'[c] = a /\ a # None /\ \A d \in Callers \ {c} : told'[d] = told[d]
  BY <1>3 DEF ApiInv, StateTypeOK, Answers, None
<1>6. StreamsAgree'
  BY <1>1, <1>3, <1>4, <1>5 DEF StreamsAgree, serverVars
<1>7. StateTypeOK'
  BY <1>3, <1>4 DEF ApiInv, StateTypeOK, serverVars
<1>8. MutexHolds' /\ ObjectsAreKnown' /\ EndsForAReason'
  BY <1>1, <1>4 DEF ApiInv, MutexHolds, ObjectsAreKnown, EndsForAReason, AnswerCall, serverVars
<1>9. ReadsAreNew'
  BY <1>1, <1>4, <1>5 DEF ApiInv, ReadsAreNew, serverVars
<1>10. AnswersReachTheirCaller'
  BY <1>1, <1>4, <1>5 DEF ApiInv, ReadsAreNew, AnswersReachTheirCaller, serverVars, Callers
<1> QED BY <1>6, <1>7, <1>8, <1>9, <1>10 DEF ApiInv

\* The client may end whatever is on the stream.
LEMMA CloseIInv ==
  ASSUME ApiInv, Close
  PROVE  ApiInv'
<1>1. StreamsAgree'
  BY DEF ApiInv, StreamsAgree, Listening, CanBeAnswered, IsAnswer, Close, serverVars
<1>2. StateTypeOK' /\ MutexHolds' /\ ReadsAreNew' /\ AnswersReachTheirCaller' /\ ObjectsAreKnown' /\ EndsForAReason'
  BY DEF ApiInv, StateTypeOK, MutexHolds, ReadsAreNew, AnswersReachTheirCaller, ObjectsAreKnown, EndsForAReason, Close, serverVars
<1> QED BY <1>1, <1>2 DEF ApiInv

-----------------------------------------------------------------------------
(***************************************************************************)
(* The server's steps.                                                     *)
(***************************************************************************)
\* Run stops only at the end of the stream: what it finds there is a request.
LEMMA ReadFailsIInv ==
  ASSUME ApiInv, ReadFails
  PROVE  ApiInv'
<1>1. serving = "read" /\ toServer = <<>> /\ ~open
  BY Requested DEF ReadFails
<1>2. StreamsAgree'
  BY <1>1 DEF ApiInv, StreamsAgree, Listening, Alone, IsAnswer, ReadFails, clientVars
<1>3. StateTypeOK' /\ MutexHolds' /\ ReadsAreNew' /\ AnswersReachTheirCaller' /\ ObjectsAreKnown' /\ EndsForAReason'
  BY <1>1 DEF ApiInv, StateTypeOK, MutexHolds, ReadsAreNew, AnswersReachTheirCaller, ObjectsAreKnown, EndsForAReason,
              ReadFails, clientVars
<1> QED BY <1>2, <1>3 DEF ApiInv

\* A request is taken: what it needs is known, and while Run reads nobody loads.
LEMMA TakeFacts ==
  ASSUME ApiInv, NEW method, Take(method)
  PROVE  /\ serving = "read" /\ waiting /\ toClient = <<>> /\ toServer' = <<>>
         /\ callbackMu = None /\ \A c \in Callers : caller[c] = "idle"
         /\ \E m \in RequestMessage : request' = m /\ CanBeAnswered(m) /\ m.method = method
<1>1. serving = "read" /\ toServer # <<>> /\ request' = Head(toServer) /\ toServer' = Tail(toServer)
      /\ Head(toServer).method = method
  BY DEF Take
<1>2. callbackMu = None /\ \A c \in Callers : caller[c] = "idle"
  BY <1>1 DEF ApiInv, MutexHolds, StateTypeOK
<1> QED BY <1>1, <1>2, Requested DEF CanBeAnswered

\* A handler that replies at once leaves Run waiting for the next request.
LEMMA HandledIInv ==
  ASSUME ApiInv, NEW method, Take(method), NEW m, request' = m, NEW kind, NEW arg, Reply(kind, arg),
         IsAnswer([kind |-> kind, method |-> m.method, arg |-> arg])',
         UNCHANGED <<serving, caller, callbackMu, scriptInfos, clientVars>>,
         enabled' \in BOOLEAN, enabled => enabled',
         handles' \subseteq Projects \cup Symbols, ObjectsAreKnown'
  PROVE  ApiInv'
<1> DEFINE a == [kind |-> kind, method |-> m.method, arg |-> arg]
<1>1. toServer' = <<>> /\ serving = "read" /\ waiting /\ toClient = <<>>
  BY TakeFacts
<1>2. Alone(toClient') /\ Head(toClient') = a
  BY <1>1, AppendAlone DEF Reply
<1>3. StreamsAgree'
  BY <1>1, <1>2 DEF StreamsAgree, Listening, clientVars
<1>4. StateTypeOK' /\ MutexHolds' /\ ReadsAreNew' /\ AnswersReachTheirCaller' /\ EndsForAReason'
  BY <1>1 DEF ApiInv, StateTypeOK, MutexHolds, ReadsAreNew, AnswersReachTheirCaller, EndsForAReason, clientVars
<1> QED BY <1>3, <1>4 DEF ApiInv

\* configure: the callbacks, which are never disabled.
LEMMA HandleConfigureIInv ==
  ASSUME ApiInv, HandleConfigure
  PROVE  ApiInv'
<1>1. PICK m \in RequestMessage : request' = m /\ CanBeAnswered(m) /\ m.method = "configure"
  BY TakeFacts DEF HandleConfigure
<1>2. PICK kind \in {"response", "failure"} : Reply(kind, None)
  BY DEF HandleConfigure
<1>3. IsAnswer([kind |-> kind, method |-> m.method, arg |-> None])'
  BY <1>1, <1>2 DEF IsAnswer, ServerMessage, None, NotFound
<1>4. Take("configure") /\ UNCHANGED <<serving, caller, callbackMu, scriptInfos, clientVars, handles>>
  BY DEF HandleConfigure
<1>5. enabled' \in BOOLEAN /\ (enabled => enabled')
  BY DEF HandleConfigure
<1>6. handles' \subseteq Projects \cup Symbols /\ ObjectsAreKnown'
  BY <1>4 DEF ApiInv, StateTypeOK, ObjectsAreKnown, clientVars
<1> QED BY <1>1, <1>2, <1>3, <1>4, <1>5, <1>6, HandledIInv

\* getSymbol: the project is known; what is answered is an error, nothing, or a symbol that is
\* stored first.
LEMMA HandleGetSymbolIInv ==
  ASSUME ApiInv, HandleGetSymbol
  PROVE  ApiInv'
<1>1. PICK m \in RequestMessage : request' = m /\ CanBeAnswered(m) /\ m.method = "getSymbol"
  BY TakeFacts DEF HandleGetSymbol
<1>2. m.project \in handles
  BY <1>1 DEF CanBeAnswered
<1>3. Take("getSymbol") /\ UNCHANGED <<serving, caller, callbackMu, scriptInfos, clientVars, enabled>>
  BY DEF HandleGetSymbol
<1>4. enabled' \in BOOLEAN /\ (enabled => enabled')
  BY <1>3 DEF ApiInv, StateTypeOK
<1>5. CASE \E kind \in {"response", "failure"} : Reply(kind, None) /\ handles' = handles
  <2>1. PICK kind \in {"response", "failure"} : Reply(kind, None) /\ handles' = handles
    BY <1>5
  <2>2. IsAnswer([kind |-> kind, method |-> m.method, arg |-> None])'
    BY <1>1, <2>1 DEF IsAnswer, ServerMessage, None, NotFound
  <2>3. handles' \subseteq Projects \cup Symbols /\ ObjectsAreKnown'
    BY <1>3, <2>1 DEF ApiInv, StateTypeOK, ObjectsAreKnown, clientVars
  <2> QED BY <1>1, <1>3, <1>4, <2>1, <2>2, <2>3, HandledIInv
<1>6. CASE \E s \in Symbols : handles' = handles \cup {s} /\ Reply("response", s)
  <2>1. PICK s \in Symbols : handles' = handles \cup {s} /\ Reply("response", s)
    BY <1>6
  <2>2. IsAnswer([kind |-> "response", method |-> m.method, arg |-> s])'
    BY <1>1, <2>1 DEF IsAnswer, ServerMessage, Handles
  <2>3. handles' \subseteq Projects \cup Symbols /\ ObjectsAreKnown'
    BY <1>3, <2>1 DEF ApiInv, StateTypeOK, ObjectsAreKnown, clientVars
  <2> QED BY <1>1, <1>3, <1>4, <2>1, <2>2, <2>3, HandledIInv
<1> QED BY <1>1, <1>2, <1>5, <1>6 DEF HandleGetSymbol

\* getType: the project and the symbol are known; the type is answered and not stored.
LEMMA HandleGetTypeIInv ==
  ASSUME ApiInv, HandleGetType
  PROVE  ApiInv'
<1>1. PICK m \in RequestMessage : request' = m /\ CanBeAnswered(m) /\ m.method = "getType"
  BY TakeFacts DEF HandleGetType
<1>2. {m.project, m.arg} \subseteq handles
  BY <1>1 DEF CanBeAnswered
<1>3. PICK t \in Types \cup {None} : Reply("response", t)
  BY <1>1, <1>2 DEF HandleGetType
<1>4. Take("getType") /\ UNCHANGED <<serving, caller, callbackMu, scriptInfos, clientVars, enabled, handles>>
  BY DEF HandleGetType
<1>5. IsAnswer([kind |-> "response", method |-> m.method, arg |-> t])'
  BY <1>1, <1>3 DEF IsAnswer, ServerMessage, Handles
<1>6. enabled' \in BOOLEAN /\ (enabled => enabled')
  BY <1>4 DEF ApiInv, StateTypeOK
<1>7. handles' \subseteq Projects \cup Symbols /\ ObjectsAreKnown'
  BY <1>4 DEF ApiInv, StateTypeOK, ObjectsAreKnown, clientVars
<1> QED BY <1>1, <1>3, <1>4, <1>5, <1>6, <1>7, HandledIInv

\* release: refused only for a type; no live object of the client is forgotten.
LEMMA HandleReleaseIInv ==
  ASSUME ApiInv, HandleRelease
  PROVE  ApiInv'
<1>1. PICK m \in RequestMessage : request' = m /\ CanBeAnswered(m) /\ m.method = "release"
  BY TakeFacts DEF HandleRelease
<1>2. m.arg \in (handles \cup Types) \ objects
  BY <1>1 DEF CanBeAnswered
<1>3. /\ handles' = handles \ {m.arg} /\ Take("release")
      /\ UNCHANGED <<serving, caller, callbackMu, scriptInfos, clientVars, enabled>>
  BY <1>1 DEF HandleRelease
<1>4. PICK kind \in {"response", "failure"}, arg \in {None, NotFound} : Reply(kind, arg) /\ (kind = "failure" => m.arg \in Types)
  BY <1>1, <1>2 DEF HandleRelease
<1>5. IsAnswer([kind |-> kind, method |-> m.method, arg |-> arg])'
  BY <1>1, <1>4 DEF IsAnswer, ServerMessage
<1>6. enabled' \in BOOLEAN /\ (enabled => enabled')
  BY <1>3 DEF ApiInv, StateTypeOK
<1>7. handles' \subseteq Projects \cup Symbols /\ ObjectsAreKnown'
  BY <1>2, <1>3 DEF ApiInv, StateTypeOK, ObjectsAreKnown, clientVars
<1> QED BY <1>1, <1>3, <1>4, <1>5, <1>6, <1>7, HandledIInv

\* loadProject: Runner begins to read; there is nothing on the stream.
LEMMA HandleLoadIInv ==
  ASSUME ApiAssumption, ApiInv, HandleLoad
  PROVE  ApiInv'
<1>1. /\ waiting /\ toClient = <<>> /\ toServer' = <<>> /\ callbackMu = None /\ \A c \in Callers : caller[c] = "idle"
      /\ request'.method = "loadProject" /\ request'.arg \in Projects
  <2>1. PICK m \in RequestMessage : request' = m /\ CanBeAnswered(m) /\ m.method = "loadProject"
    BY TakeFacts DEF HandleLoad
  <2>2. m.arg \in Projects
    BY <2>1 DEF CanBeAnswered
  <2> QED BY <2>1, <2>2, TakeFacts DEF HandleLoad
<1>2. /\ serving' = "config" /\ caller' = [caller EXCEPT ![Runner] = "reading"]
      /\ UNCHANGED <<toClient, callbackMu, enabled, scriptInfos, handles, open, waiting, objects, told>>
  BY DEF HandleLoad, clientVars
<1>3. Runner \in Callers /\ None \notin Callers /\ Runner \notin Files /\ Files \subseteq Callers
  BY DEF ApiAssumption, Callers
<1>4. /\ caller' \in [Callers -> {"idle", "reading", "locked", "asked", "done", "failed"}]
      /\ \A c \in Callers : caller'[c] \in {"idle", "reading"} /\ (c # Runner => caller'[c] = "idle")
  BY <1>1, <1>2, <1>3 DEF ApiInv, StateTypeOK
<1>5. StateTypeOK' /\ ObjectsAreKnown' /\ AnswersReachTheirCaller' /\ EndsForAReason'
  BY <1>2, <1>4 DEF ApiInv, StateTypeOK, ObjectsAreKnown, AnswersReachTheirCaller, EndsForAReason
<1>6. MutexHolds'
  BY <1>1, <1>2, <1>3, <1>4 DEF MutexHolds
<1>7. ReadsAreNew'
  BY <1>2, <1>3, <1>4 DEF ApiInv, ReadsAreNew
<1>8. StreamsAgree'
  BY <1>1, <1>2, <1>4 DEF StreamsAgree
<1> QED BY <1>5, <1>6, <1>7, <1>8 DEF ApiInv

-----------------------------------------------------------------------------
(***************************************************************************)
(* ReadFile's steps.                                                       *)
(***************************************************************************)
\* Whoever reads, the project loads, and only Runner reads before the program is made.
LEMMA AtWork ==
  ASSUME ApiAssumption, ApiInv, Running, NEW c \in Callers, caller[c] # "idle"
  PROVE  /\ serving \in {"config", "load"}
         /\ serving = "config" => c = Runner
         /\ None \notin Callers /\ Runner \notin Files
BY DEF ApiAssumption, ApiInv, StateTypeOK, MutexHolds, Running, Callers

\* One caller goes on and the others stay: only the mutex is left to see to.
LEMMA WorkMutexHolds ==
  ASSUME ApiAssumption, ApiInv, Running, NEW c \in Callers, caller[c] # "idle",
         serving' = serving, request' = request,
         \A d \in Callers : d # c => caller'[d] = caller[d],
         \A d \in Callers : caller'[d] \in {"locked", "asked"} <=> callbackMu' = d
  PROVE  MutexHolds'
<1>1. serving \in {"config", "load"} /\ (serving = "config" => c = Runner) /\ Runner \notin Files
  BY AtWork
<1>2. Files \subseteq Callers
  BY DEF Callers
<1> QED BY <1>1, <1>2 DEF ApiInv, MutexHolds

\* A step that asks nothing and answers nothing leaves the streams in agreement.
LEMMA StreamsKept ==
  ASSUME ApiInv, UNCHANGED <<toServer, toClient, serving, request, handles, open, waiting, objects, told>>,
         \A d \in Callers : caller[d] = "asked" <=> caller'[d] = "asked"
  PROVE  StreamsAgree'
<1>1. \A m : (CanBeAnswered(m) => CanBeAnswered(m)') /\ (IsAnswer(m) => IsAnswer(m)')
  BY DEF CanBeAnswered, IsAnswer
<1>2. ASSUME serving = "read" \/ Listening PROVE StreamsAgree'
  BY <1>1, <1>2 DEF ApiInv, StreamsAgree, Listening
<1> QED BY <1>2 DEF ApiInv, StreamsAgree, Listening

\* A read of the disk, which no callback replaces: the client was never asked.
LEMMA ReadLocallyIInv ==
  ASSUME ApiAssumption, ApiInv, Running, NEW c \in Callers, ReadLocally(c)
  PROVE  ApiInv'
<1>1. PICK text \in {Disk, None} : EndRead(c, text)
  BY DEF ReadLocally
<1>2. PICK p \in {"failed", "done"} : caller' = [caller EXCEPT ![c] = p]
  BY <1>1 DEF EndRead
<1>3. /\ caller[c] = "reading" /\ ~enabled
      /\ UNCHANGED <<toServer, toClient, serving, request, callbackMu, enabled, handles, open, waiting, objects, told>>
  BY DEF ReadLocally, clientVars
<1>4. \A d \in Callers : caller'[d] = IF d = c THEN p ELSE caller[d]
  BY <1>2 DEF ApiInv, StateTypeOK
<1>5. scriptInfos' \in [Files -> {"text", Disk, None}] /\ \A f \in Files \ {c} : scriptInfos'[f] = scriptInfos[f]
  BY <1>1 DEF EndRead, ApiInv, StateTypeOK
<1>6. StateTypeOK'
  BY <1>2, <1>3, <1>5 DEF ApiInv, StateTypeOK
<1>7. MutexHolds'
  <2>1. \A d \in Callers : caller'[d] \in {"locked", "asked"} <=> callbackMu' = d
    BY <1>3, <1>4 DEF ApiInv, MutexHolds
  <2>2. \A d \in Callers : d # c => caller'[d] = caller[d]
    BY <1>4
  <2> QED BY <1>3, <2>1, <2>2, WorkMutexHolds
<1>8. ReadsAreNew' /\ AnswersReachTheirCaller' /\ ObjectsAreKnown' /\ EndsForAReason'
  <2>1. \A f \in Files : told'[f] # None => scriptInfos'[f] = scriptInfos[f] /\ told'[f] = told[f]
    BY <1>3, <1>5 DEF ApiInv, ReadsAreNew, Callers
  <2>2. AnswersReachTheirCaller'
    BY <1>3, <2>1 DEF ApiInv, AnswersReachTheirCaller
  <2>3. ReadsAreNew'
    BY <1>3, <1>4, <1>5 DEF ApiInv, ReadsAreNew, Callers
  <2> QED BY <1>3, <2>2, <2>3 DEF ApiInv, ObjectsAreKnown, EndsForAReason, Running
<1>9. StreamsAgree'
  <2>1. \A d \in Callers : caller[d] = "asked" <=> caller'[d] = "asked"
    BY <1>3, <1>4
  <2> QED BY <1>3, <2>1, StreamsKept
<1> QED BY <1>6, <1>7, <1>8, <1>9 DEF ApiInv

\* The mutex is free and taken.
LEMMA LockIInv ==
  ASSUME ApiAssumption, ApiInv, Running, NEW c \in Callers, Lock(c)
  PROVE  ApiInv'
<1>1. /\ caller[c] = "reading" /\ enabled /\ callbackMu = None /\ callbackMu' = c
      /\ caller' = [caller EXCEPT ![c] = "locked"]
      /\ UNCHANGED <<toServer, toClient, serving, request, enabled, scriptInfos, handles, open, waiting, objects, told>>
  BY DEF Lock, clientVars
<1>2. \A d \in Callers : caller'[d] = IF d = c THEN "locked" ELSE caller[d]
  BY <1>1 DEF ApiInv, StateTypeOK
<1>3. StateTypeOK'
  BY <1>1 DEF ApiInv, StateTypeOK
<1>4. MutexHolds'
  <2>1. \A d \in Callers : callbackMu # d
    BY <1>1, AtWork
  <2>2. \A d \in Callers : caller'[d] \in {"locked", "asked"} <=> callbackMu' = d
    BY <1>1, <1>2, <2>1 DEF ApiInv, MutexHolds
  <2>3. \A d \in Callers : d # c => caller'[d] = caller[d]
    BY <1>2
  <2> QED BY <1>1, <2>2, <2>3, WorkMutexHolds
<1>5. ReadsAreNew' /\ AnswersReachTheirCaller' /\ ObjectsAreKnown' /\ EndsForAReason'
  BY <1>1, <1>2 DEF ApiInv, ReadsAreNew, AnswersReachTheirCaller, ObjectsAreKnown, EndsForAReason,
     Running, Callers
<1>6. StreamsAgree'
  <2>1. \A d \in Callers : caller[d] = "asked" <=> caller'[d] = "asked"
    BY <1>1, <1>2
  <2> QED BY <1>1, <2>1, StreamsKept
<1> QED BY <1>3, <1>4, <1>5, <1>6 DEF ApiInv

\* The holder of the mutex puts its question on the empty stream.
LEMMA WriteCallIInv ==
  ASSUME ApiAssumption, ApiInv, Running, NEW c \in Callers, WriteCall(c)
  PROVE  ApiInv'
<1>1. /\ caller[c] = "locked" /\ caller' = [caller EXCEPT ![c] = "asked"]
      /\ UNCHANGED <<toServer, serving, request, callbackMu, enabled, scriptInfos, handles, open, waiting, objects, told>>
  BY DEF WriteCall, clientVars
<1>2. \A d \in Callers : caller'[d] = IF d = c THEN "asked" ELSE caller[d]
  BY <1>1 DEF ApiInv, StateTypeOK
<1>3. waiting /\ toServer = <<>> /\ toClient = <<>> /\ serving # "read"
  <2>1. serving \in {"config", "load"}
    BY <1>1, AtWork
  <2>2. \A d \in Callers : caller[d] # "asked"
    BY <1>1 DEF ApiInv, MutexHolds
  <2> QED BY <2>1, <2>2, Silent
<1>4. toClient' = <<CallOf(c)>>
  BY <1>3, OneMessage DEF WriteCall
<1>5. StateTypeOK'
  BY <1>1 DEF ApiInv, StateTypeOK
<1>6. MutexHolds'
  <2>1. \A d \in Callers : caller'[d] \in {"locked", "asked"} <=> callbackMu' = d
    BY <1>1, <1>2 DEF ApiInv, MutexHolds
  <2>2. \A d \in Callers : d # c => caller'[d] = caller[d]
    BY <1>2
  <2> QED BY <1>1, <2>1, <2>2, WorkMutexHolds
<1>7. ReadsAreNew' /\ AnswersReachTheirCaller' /\ ObjectsAreKnown' /\ EndsForAReason'
  BY <1>1, <1>2 DEF ApiInv, ReadsAreNew, AnswersReachTheirCaller, ObjectsAreKnown, EndsForAReason,
     Running, Callers
<1>8. StreamsAgree'
  BY <1>1, <1>2, <1>3, <1>4 DEF StreamsAgree
<1> QED BY <1>5, <1>6, <1>7, <1>8 DEF ApiInv

\* The answer on the stream is the client's to this very caller.
LEMMA ReadAnswerIInv ==
  ASSUME ApiAssumption, ApiInv, Running, NEW c \in Callers, ReadAnswer(c)
  PROVE  ApiInv'
<1>1. /\ caller[c] = "asked" /\ toServer # <<>> /\ Head(toServer).kind = "callResponse"
      /\ toServer' = Tail(toServer) /\ callbackMu' = None /\ EndRead(c, Read(Head(toServer).arg))
      /\ UNCHANGED <<toClient, serving, request, enabled, handles, open, waiting, objects, told>>
  BY DEF ReadAnswer, clientVars
<1>2. /\ waiting /\ serving \in {"config", "load"} /\ callbackMu = c /\ toClient = <<>>
      /\ toServer = <<AnswerOf(told[c])>> /\ \A d \in Callers : caller[d] \in {"locked", "asked"} => d = c
  BY <1>1, Asked
<1>3. toServer' = <<>> /\ Head(toServer).arg = told[c] /\ told[c] \in {"text", "null", "empty"}
  <2>1. Head(toServer) = AnswerOf(told[c]) /\ Tail(toServer) = <<>>
    BY <1>2, OneMessage
  <2>2. told[c] # "error" /\ told[c] \in Answers \cup {None} /\ told[c] # None
    BY <1>1, <1>2, <2>1, Asked, OneMessage DEF AnswerOf, ApiInv, StateTypeOK
  <2> QED BY <1>1, <2>1, <2>2 DEF AnswerOf, Answers
<1>4. Read(told[c]) \in {"text", Disk, None}
  BY <1>3 DEF Read
<1>5. PICK p \in {"failed", "done"} : caller' = [caller EXCEPT ![c] = p]
  BY <1>1 DEF EndRead
<1>6. \A d \in Callers : caller'[d] = IF d = c THEN p ELSE caller[d]
  BY <1>5 DEF ApiInv, StateTypeOK
<1>7. /\ scriptInfos' \in [Files -> {"text", Disk, None}]
      /\ \A f \in Files : scriptInfos'[f] = IF f = c THEN Read(told[f]) ELSE scriptInfos[f]
  BY <1>1, <1>3, <1>4 DEF EndRead, ApiInv, StateTypeOK
<1>8. StateTypeOK'
  BY <1>1, <1>5, <1>7 DEF ApiInv, StateTypeOK
<1>9. MutexHolds'
  <2>1. \A d \in Callers : callbackMu' # d
    BY <1>1, AtWork
  <2>2. \A d \in Callers : caller'[d] \in {"locked", "asked"} <=> callbackMu' = d
    BY <1>2, <1>6, <2>1
  <2>3. \A d \in Callers : d # c => caller'[d] = caller[d]
    BY <1>6
  <2> QED BY <1>1, <2>2, <2>3, WorkMutexHolds
<1>10. ReadsAreNew' /\ AnswersReachTheirCaller' /\ ObjectsAreKnown' /\ EndsForAReason'
  BY <1>1, <1>6, <1>7 DEF ApiInv, ReadsAreNew, AnswersReachTheirCaller, ObjectsAreKnown, EndsForAReason,
     Running, Callers
<1>11. StreamsAgree'
  BY <1>1, <1>2, <1>3, <1>6 DEF StreamsAgree
<1> QED BY <1>8, <1>9, <1>10, <1>11 DEF ApiInv

\* The process is gone in the middle of a question.
LEMMA CallPanicsIInv ==
  ASSUME ApiInv, Running, NEW c \in Callers, CallPanics(c)
  PROVE  ApiInv'
<1>1. /\ caller[c] = "asked" /\ serving' = "stopped"
      /\ UNCHANGED <<toServer, toClient, request, caller, callbackMu, enabled, scriptInfos, handles, open, waiting,
                     objects, told>>
  BY DEF CallPanics, clientVars
<1>2. StreamsAgree'
  BY <1>1, Asked DEF StreamsAgree
<1>3. StateTypeOK' /\ MutexHolds' /\ ReadsAreNew' /\ AnswersReachTheirCaller' /\ ObjectsAreKnown'
  BY <1>1 DEF ApiInv, StateTypeOK, MutexHolds, ReadsAreNew, AnswersReachTheirCaller, ObjectsAreKnown
<1>4. EndsForAReason'
  <2>1. CASE toServer = <<>>
    BY <1>1, <2>1 DEF EndsForAReason, CallPanics
  <2>2. CASE toServer # <<>>
    <3>1. toClient = <<>> /\ toServer = <<AnswerOf(told[c])>>
      BY <1>1, <2>2, Asked
    <3>2. Head(toServer) = AnswerOf(told[c]) /\ Head(toServer).kind # "callResponse"
      BY <2>2, <3>1, OneMessage DEF CallPanics
    <3>3. told[c] = "error"
      BY <3>2 DEF AnswerOf
    <3> QED BY <1>1, <3>1, <3>3 DEF EndsForAReason
  <2> QED BY <2>1, <2>2
<1> QED BY <1>2, <1>3, <1>4 DEF ApiInv

-----------------------------------------------------------------------------
(***************************************************************************)
(* LoadProject's steps.                                                    *)
(***************************************************************************)
\* LoadProject has its answer: everyone is done, and it is alone on the stream.
LEMMA AnsweredIInv ==
  ASSUME ApiInv, serving \in {"config", "load"}, serving' = "read",
         \A c \in Callers : caller[c] \in {"idle", "done", "failed"}, caller' = [c \in Callers |-> "idle"],
         NEW m, IsAnswer(m)', toClient' = Append(toClient, m),
         handles \subseteq handles', handles' \subseteq Projects \cup Symbols,
         UNCHANGED <<toServer, request, callbackMu, enabled, scriptInfos, open, waiting, objects, told>>
  PROVE  ApiInv'
<1>1. waiting /\ toServer = <<>> /\ toClient = <<>>
  BY Silent
<1>2. Alone(toClient') /\ Head(toClient') = m
  BY <1>1, AppendAlone
<1>3. StreamsAgree'
  BY <1>1, <1>2 DEF StreamsAgree, Listening
<1>4. \A c \in Callers : callbackMu # c
  BY DEF ApiInv, MutexHolds
<1>5. StateTypeOK' /\ MutexHolds'
  BY <1>4 DEF ApiInv, StateTypeOK, MutexHolds
<1>6. ReadsAreNew' /\ AnswersReachTheirCaller' /\ ObjectsAreKnown' /\ EndsForAReason'
  BY DEF ApiInv, ReadsAreNew, AnswersReachTheirCaller, ObjectsAreKnown, EndsForAReason, Callers
<1> QED BY <1>3, <1>5, <1>6 DEF ApiInv

\* The config cannot be read.
LEMMA ConfigFailsIInv ==
  ASSUME ApiAssumption, ApiInv, ConfigFails
  PROVE  ApiInv'
<1> PICK m : m = [kind |-> "failure", method |-> request.method, arg |-> None]
  OBVIOUS
<1>1. /\ serving = "config" /\ serving' = "read" /\ caller[Runner] = "failed" /\ caller' = [caller EXCEPT ![Runner] = "idle"]
      /\ toClient' = Append(toClient, m)
      /\ UNCHANGED <<toServer, request, callbackMu, enabled, scriptInfos, handles, open, waiting, objects, told>>
  BY DEF ConfigFails, clientVars
<1>2. /\ \A c \in Callers : caller[c] \in {"idle", "done", "failed"}
      /\ caller' = [c \in Callers |-> "idle"]
  BY <1>1 DEF ApiInv, StateTypeOK, MutexHolds, Callers
<1>3. IsAnswer(m)'
  BY <1>1 DEF ApiInv, MutexHolds, IsAnswer, ServerMessage, None, NotFound
<1>4. handles' \subseteq Projects \cup Symbols /\ handles \subseteq handles'
  BY <1>1 DEF ApiInv, StateTypeOK
<1> QED BY <1>1, <1>2, <1>3, <1>4, AnsweredIInv

\* The config was read; the files without a text are read next.
LEMMA StartLoadingIInv ==
  ASSUME ApiAssumption, ApiInv, StartLoading
  PROVE  ApiInv'
<1>1. /\ serving = "config" /\ serving' = "load" /\ caller[Runner] = "done"
      /\ UNCHANGED <<toServer, toClient, request, callbackMu, enabled, scriptInfos, handles, open, waiting, objects, told>>
  BY DEF StartLoading, clientVars
<1>2. request.method = "loadProject" /\ request.arg \in Projects /\ FilesOf[request.arg] \subseteq Files
  BY <1>1 DEF ApiInv, MutexHolds, ApiAssumption
<1>3. \A c \in Callers : caller[c] \in {"idle", "done"}
  BY <1>1 DEF ApiInv, MutexHolds, Callers
<1>4. /\ caller' \in [Callers -> {"idle", "reading"}]
      /\ \A f \in Files : caller'[f] = "reading" => scriptInfos[f] = None
  BY DEF StartLoading, Callers
<1>5. waiting /\ toServer = <<>> /\ toClient = <<>>
  BY <1>1, <1>3, Silent
<1>6. \A c \in Callers : caller'[c] \in {"idle", "reading"}
  BY <1>4
<1>7. StateTypeOK'
  BY <1>1, <1>4 DEF ApiInv, StateTypeOK
<1>8. MutexHolds'
  <2>1. \A c \in Callers : callbackMu # c
    BY <1>3 DEF ApiInv, MutexHolds
  <2> QED BY <1>1, <1>2, <1>6, <2>1 DEF MutexHolds
<1>9. ReadsAreNew' /\ AnswersReachTheirCaller' /\ ObjectsAreKnown' /\ EndsForAReason'
  BY <1>1, <1>4, <1>6 DEF ApiInv, ReadsAreNew, AnswersReachTheirCaller, ObjectsAreKnown, EndsForAReason, Callers
<1>10. StreamsAgree'
  BY <1>1, <1>5, <1>6 DEF StreamsAgree
<1> QED BY <1>7, <1>8, <1>9, <1>10 DEF ApiInv

\* All files are read: the project is stored and answered.
LEMMA EndLoadIInv ==
  ASSUME ApiInv, EndLoad
  PROVE  ApiInv'
<1> PICK m : m = [kind |-> "response", method |-> request.method, arg |-> request.arg]
  OBVIOUS
<1>1. /\ serving = "load" /\ serving' = "read" /\ caller' = [c \in Callers |-> "idle"]
      /\ \A c \in Callers : caller[c] \in {"idle", "done", "failed"}
      /\ toClient' = Append(toClient, m) /\ handles' = handles \cup {request.arg}
      /\ UNCHANGED <<toServer, request, callbackMu, enabled, scriptInfos, open, waiting, objects, told>>
  BY DEF EndLoad, clientVars
<1>2. request.method = "loadProject" /\ request.arg \in Projects
  BY <1>1 DEF ApiInv, MutexHolds
<1>3. IsAnswer(m)'
  BY <1>1, <1>2 DEF IsAnswer, ServerMessage, Handles
<1>4. handles' \subseteq Projects \cup Symbols /\ handles \subseteq handles'
  BY <1>1, <1>2 DEF ApiInv, StateTypeOK
<1> QED BY <1>1, <1>3, <1>4, AnsweredIInv

-----------------------------------------------------------------------------
(***************************************************************************)
(* The theorems.                                                           *)
(***************************************************************************)
\* ApiInv is kept.
LEMMA NextIInv ==
  ASSUME ApiAssumption, ApiInv, [ApiNext]_apiVars
  PROVE  ApiInv'
<1>1. CASE UNCHANGED apiVars
  BY <1>1 DEF apiVars, serverVars, clientVars, ApiInv, StateTypeOK, MutexHolds, ReadsAreNew, AnswersReachTheirCaller,
              StreamsAgree, Listening, CanBeAnswered, IsAnswer, ObjectsAreKnown, EndsForAReason
<1>2. CASE Client
  BY <1>2, RequestsIInv, DisposeIInv, ReceiveAnswerIInv, AnswerCallIInv, CloseIInv DEF Client
<1>3. CASE Handling
  BY <1>3, HandleConfigureIInv, HandleLoadIInv, HandleGetSymbolIInv, HandleGetTypeIInv, HandleReleaseIInv,
     ConfigFailsIInv, StartLoadingIInv, EndLoadIInv, ReadFailsIInv DEF Handling
<1>4. CASE Running /\ \E c \in Callers : Reading(c)
  BY <1>4, ReadLocallyIInv, LockIInv, WriteCallIInv, ReadAnswerIInv, CallPanicsIInv DEF Reading
<1> QED BY <1>1, <1>2, <1>3, <1>4 DEF ApiNext

\* ApiInv always holds of the server and its client.
THEOREM ApiInvariant == ApiAssumption => (ApiSpec => []ApiInv)
<1> SUFFICES ASSUME ApiAssumption PROVE ApiSpec => []ApiInv
  OBVIOUS
<1>1. ApiInit => ApiInv
  BY InitIInv
<1>2. ApiInv /\ [ApiNext]_apiVars => ApiInv'
  BY NextIInv
<1> QED BY <1>1, <1>2, PTL DEF ApiSpec

\* The state of the server and of its client is always of its types.
THEOREM ApiTypesOK == ApiAssumption => (ApiSpec => []ApiTypeOK)
<1> SUFFICES ASSUME ApiAssumption PROVE ApiSpec => []ApiTypeOK
  OBVIOUS
<1>1. \A S : <<>> \in Seq(S) /\ \A m \in S : <<m>> \in Seq(S)
  OBVIOUS
<1>2. ASSUME ApiInv PROVE ApiTypeOK
  <2>1. \A c \in Callers : CallOf(c) \in ServerMessage /\ (told[c] # None => AnswerOf(told[c]) \in ClientMessage)
    BY <1>2 DEF ClientMessage, ServerMessage, ApiInv, StateTypeOK
  <2>2. \A S, s : Alone(s) /\ Head(s) \in S => s \in Seq(S)
    BY <1>1 DEF Alone
  <2>3. toServer \in Seq(ClientMessage)
    BY <1>1, <1>2, <2>1, <2>2 DEF ApiInv, StreamsAgree, CanBeAnswered, ClientMessage
  <2>4. toClient \in Seq(ServerMessage)
    BY <1>1, <1>2, <2>1, <2>2 DEF ApiInv, StreamsAgree, IsAnswer
  <2> QED BY <1>2, <2>3, <2>4 DEF ApiInv, ApiTypeOK
<1> QED BY <1>2, ApiInvariant, PTL

\* However many goroutines call back over the one stream: the text of a file is what the client
\* said of that very file.
THEOREM AnswersReachTheirCallers == ApiAssumption => (ApiSpec => []AnswersReachTheirCaller)
<1>1. ApiInv => AnswersReachTheirCaller
  BY DEF ApiInv
<1> QED BY <1>1, ApiInvariant, PTL

\* Between requests nothing of the last one is left: no reader, no mutex held, and no call or
\* answer of it on the stream that Run would take for a request.
THEOREM NothingIsLeft == ApiAssumption => (ApiSpec => []QuietBetweenRequests)
<1>1. ASSUME ApiInv PROVE QuietBetweenRequests
  <2>1. ASSUME serving = "read" PROVE callbackMu = None /\ \A c \in Callers : caller[c] = "idle"
    BY <1>1, <2>1 DEF ApiInv, MutexHolds, StateTypeOK
  <2>2. ASSUME serving = "read" PROVE \A i \in DOMAIN toServer : toServer[i].kind = "request"
    <3>1. CASE toServer = <<>>
      BY <3>1
    <3>2. CASE toServer # <<>>
      BY <1>1, <2>2, <3>2, Requested, AloneFacts
    <3> QED BY <3>1, <3>2
  <2>3. ASSUME serving = "read" PROVE \A i \in DOMAIN toClient : toClient[i].kind # "call"
    <3>1. toClient = <<>> \/ (Alone(toClient) /\ IsAnswer(Head(toClient)))
      BY <1>1, <2>3 DEF ApiInv, StreamsAgree
    <3> QED BY <3>1, AloneFacts DEF IsAnswer
  <2> QED BY <2>1, <2>2, <2>3 DEF QuietBetweenRequests
<1> QED BY <1>1, ApiInvariant, PTL

\* Whatever the client loads again, asks for and disposes of: its live projects and symbols are
\* known to the server, and only the release of a type is refused for an unknown handle.
THEOREM LiveObjectsAreKnown == ApiAssumption => (ApiSpec => []LiveObjectsResolve)
<1>1. ASSUME ApiInv PROVE LiveObjectsResolve
  <2>1. \/ toClient = <<>> \/ (Alone(toClient) /\ IsAnswer(Head(toClient)))
        \/ \E c \in Callers : toClient = <<CallOf(c)>>
    BY <1>1 DEF ApiInv, StreamsAgree
  <2>2. ASSUME NEW i \in DOMAIN toClient, toClient[i].kind = "failure"
        PROVE  Alone(toClient) /\ IsAnswer(toClient[i])
    BY <2>1, <2>2, AloneFacts, OneMessage DEF CallOf
  <2> QED BY <1>1, <2>2 DEF ApiInv, ObjectsAreKnown, LiveObjectsResolve, IsAnswer
<1> QED BY <1>1, ApiInvariant, PTL

\* The process ends only because the client has gone or a callback of it failed.
THEOREM EndsOnlyForAReason == ApiAssumption => (ApiSpec => []EndsForAReason)
<1>1. ApiInv => EndsForAReason
  BY DEF ApiInv
<1> QED BY <1>1, ApiInvariant, PTL

-----------------------------------------------------------------------------
(***************************************************************************)
(* The language server.  Induction over numbers, for texts and queues.     *)
(***************************************************************************)
\* A set of numbers that is not empty has a least one ...
LEMMA Least ==
  ASSUME NEW X \in SUBSET Nat, X # {}
  PROVE  \E m \in X : \A x \in X : m <= x
<1>1. PICK N \in X : TRUE
  OBVIOUS
<1> DEFINE T == {0..x : x \in X \cap 0..N}
<1>2. T \subseteq FiniteSubsetsOf(0..N) /\ T # {}
  <2>1. ASSUME NEW x \in X \cap 0..N PROVE 0..x \in FiniteSubsetsOf(0..N)
    <3>1. IsFiniteSet(0..x)
      BY FS_Interval
    <3>2. 0..x \in SUBSET (0..N)
      OBVIOUS
    <3> QED BY <3>1, <3>2 DEF FiniteSubsetsOf
  <2> QED BY <1>1, <2>1
<1>3. PICK t \in T : \A u \in T : <<u, t>> \notin StrictSubsetOrdering(0..N)
  <2> HIDE DEF T
  <2> QED BY <1>2, FS_StrictSubsetOrderingWellFounded, WFMin
<1>4. PICK m \in X \cap 0..N : t = 0..m
  BY <1>3
<1>5. ASSUME NEW x \in X, x < m PROVE FALSE
  <2>1. <<0..x, 0..m>> \in (SUBSET (0..N)) \X (SUBSET (0..N)) /\ 0..x \in T
    BY <1>4, <1>5
  <2>2. 0..x \subseteq 0..m /\ 0..x # 0..m
    BY <1>4, <1>5
  <2>3. <<0..x, 0..m>> \in StrictSubsetOrdering(0..N)
    BY <2>1, <2>2, Zenon DEF StrictSubsetOrdering
  <2> QED BY <1>3, <1>4, <2>1, <2>3
<1> QED BY <1>4, <1>5

\* ... so that a set that has 0, and each successor of a number it has, has them all.
LEMMA NaturalInduction == \A X : 0 \in X /\ (\A k \in Nat : k \in X => k + 1 \in X) => Nat \subseteq X
<1> SUFFICES ASSUME NEW X, 0 \in X, \A k \in Nat : k \in X => k + 1 \in X, Nat \ X # {} PROVE FALSE
  OBVIOUS
<1>1. PICK m \in Nat \ X : \A x \in Nat \ X : m <= x
  BY Least
<1>2. m - 1 \in Nat /\ m - 1 \in X
  BY <1>1
<1> QED BY <1>1, <1>2


\* A set of numbers that is not empty and has a bound has a greatest one, which is the library's Max.
LEMMA MaxOf ==
  ASSUME NEW X \in SUBSET Nat, X # {}, NEW b \in Nat, \A x \in X : x <= b
  PROVE  Max(X) \in X /\ \A x \in X : x <= Max(X)
<1> DEFINE D == {b - x : x \in X}
<1>1. D \in SUBSET Nat /\ D # {}
  <2>1. \A x \in X : b - x \in Nat
    OBVIOUS
  <2>2. \E x : x \in X
    OBVIOUS
  <2> QED BY <2>1, <2>2
<1>2. PICK d \in D : \A e \in D : d <= e
  <2> HIDE DEF D
  <2> QED BY <1>1, Least
<1>3. PICK x \in X : d = b - x
  BY <1>2
<1>4. \A y \in X : x >= y
  <2> TAKE y \in X
  <2>1. b - y \in D
    OBVIOUS
  <2>2. d <= b - y
    <3> HIDE DEF D
    <3> QED BY <1>2, <2>1
  <2> QED BY <1>3, <2>2
<1>5. Max(X) \in X /\ \A y \in X : Max(X) >= y
  BY <1>3, <1>4 DEF Max
<1> QED BY <1>5

-----------------------------------------------------------------------------
(***************************************************************************)
(* Texts.  Bytes and Units are sums of widths.                             *)
(***************************************************************************)
\* f has the sums of the first widths.
Sums(f, w, n) == f[0] = 0 /\ \A i \in 1..n : f[i] = f[i-1] + w[i]

LEMMA SumsExist ==
  ASSUME NEW n \in Nat, NEW w \in [1..n -> Nat]
  PROVE  \E f \in [0..n -> Nat] : Sums(f, w, n)
<1> DEFINE K == {k \in Nat : k <= n => \E f \in [0..k -> Nat] : Sums(f, w, k)}
<1>1. 0 \in K
  <2> DEFINE f == [i \in 0..0 |-> 0]
  <2>1. f \in [0..0 -> Nat] /\ Sums(f, w, 0)
    BY DEF Sums
  <2> HIDE DEF f
  <2> QED BY <2>1
<1>2. ASSUME NEW k \in Nat, k \in K PROVE k + 1 \in K
  <2> SUFFICES ASSUME k + 1 <= n PROVE \E f \in [0..(k + 1) -> Nat] : Sums(f, w, k + 1)
    OBVIOUS
  <2>1. PICK f \in [0..k -> Nat] : Sums(f, w, k)
    BY <1>2
  <2> DEFINE g == [i \in 0..(k + 1) |-> IF i = k + 1 THEN f[k] + w[k + 1] ELSE f[i]]
  <2>2. g \in [0..(k + 1) -> Nat]
    BY <2>1
  <2>3. g[0] = 0
    BY <2>1 DEF Sums
  <2>4. ASSUME NEW i \in 1..(k + 1) PROVE g[i] = g[i-1] + w[i]
    <3>1. CASE i = k + 1
      <4>1. g[k] = f[k] /\ g[k + 1] = f[k] + w[k + 1]
        OBVIOUS
      <4> HIDE DEF g
      <4> QED BY <3>1, <4>1
    <3>2. CASE i # k + 1
      <4>1. i \in 1..k /\ g[i] = f[i] /\ g[i-1] = f[i-1]
        BY <3>2
      <4> QED BY <2>1, <4>1 DEF Sums
    <3> QED BY <3>1, <3>2
  <2>5. Sums(g, w, k + 1)
    <3> HIDE DEF g
    <3> QED BY <2>3, <2>4 DEF Sums
  <2> HIDE DEF g
  <2> QED BY <2>2, <2>5
<1>3. Nat \subseteq K
  <2> HIDE DEF K
  <2> QED BY <1>1, <1>2, NaturalInduction
<1> QED BY <1>3

\* There is one such function.
LEMMA SumsUnique ==
  ASSUME NEW n \in Nat, NEW m \in 0..n, NEW w, NEW f, NEW g, Sums(f, w, n), Sums(g, w, m)
  PROVE  \A k \in 0..m : f[k] = g[k]
<1> DEFINE K == {k \in Nat : k <= m => f[k] = g[k]}
<1>1. 0 \in K
  BY DEF Sums
<1>2. ASSUME NEW k \in Nat, k \in K PROVE k + 1 \in K
  <2> SUFFICES ASSUME k + 1 <= m PROVE f[k + 1] = g[k + 1]
    OBVIOUS
  <2>1. k + 1 \in 1..n /\ k + 1 \in 1..m /\ f[k] = g[k] /\ (k + 1) - 1 = k
    BY <1>2
  <2>2. f[k + 1] = f[(k + 1) - 1] + w[k + 1] /\ g[k + 1] = g[(k + 1) - 1] + w[k + 1]
    BY <2>1 DEF Sums
  <2> QED BY <2>1, <2>2
<1>3. Nat \subseteq K
  <2> HIDE DEF K
  <2> QED BY <1>1, <1>2, NaturalInduction
<1> QED BY <1>3

\* Sums of widths that are not zero grow.
LEMMA SumsGrow ==
  ASSUME NEW n \in Nat, NEW w \in [1..n -> Nat \ {0}], NEW f \in [0..n -> Nat], Sums(f, w, n)
  PROVE  \A i, j \in 0..n : i < j => f[i] < f[j]
<1> SUFFICES ASSUME NEW i \in 0..n PROVE \A j \in 0..n : i < j => f[i] < f[j]
  OBVIOUS
<1> DEFINE K == {k \in Nat : i + k + 1 <= n => f[i] < f[i + k + 1]}
<1>0. ASSUME NEW j \in 1..n PROVE f[j - 1] < f[j]
  <2>1. f[j] = f[j - 1] + w[j] /\ w[j] \in Nat \ {0} /\ f[j - 1] \in Nat
    BY DEF Sums
  <2> QED BY <2>1
<1>1. 0 \in K
  <2> SUFFICES ASSUME i + 0 + 1 <= n PROVE f[i] < f[i + 0 + 1]
    OBVIOUS
  <2>1. i + 0 + 1 = i + 1 /\ i + 1 \in 1..n /\ (i + 1) - 1 = i
    OBVIOUS
  <2> QED BY <1>0, <2>1
<1>2. ASSUME NEW k \in Nat, k \in K PROVE k + 1 \in K
  <2> SUFFICES ASSUME i + (k + 1) + 1 <= n PROVE f[i] < f[i + (k + 1) + 1]
    OBVIOUS
  <2>1. i + (k + 1) + 1 \in 1..n /\ (i + (k + 1) + 1) - 1 = i + k + 1 /\ i + k + 1 \in 0..n
    OBVIOUS
  <2>2. f[i + k + 1] < f[i + (k + 1) + 1] /\ f[i] < f[i + k + 1]
    BY <1>0, <1>2, <2>1
  <2>3. f[i] \in Nat /\ f[i + k + 1] \in Nat /\ f[i + (k + 1) + 1] \in Nat
    BY <2>1
  <2> QED BY <2>2, <2>3
<1>3. Nat \subseteq K
  <2> HIDE DEF K
  <2> QED BY <1>1, <1>2, NaturalInduction
<1>4. ASSUME NEW j \in 0..n, i < j PROVE f[i] < f[j]
  <2>1. j - i - 1 \in Nat /\ i + (j - i - 1) + 1 = j
    BY <1>4
  <2>2. j - i - 1 \in K
    <3> HIDE DEF K
    <3> QED BY <1>3, <2>1
  <2> QED BY <2>1, <2>2
<1> QED BY <1>4

\* Sums of ones count.
LEMMA SumsOfOnes ==
  ASSUME NEW n \in Nat, NEW w, NEW f, Sums(f, w, n), \A i \in 1..n : w[i] = 1
  PROVE  \A k \in 0..n : f[k] = k
<1> DEFINE K == {k \in Nat : k <= n => f[k] = k}
<1>1. 0 \in K
  BY DEF Sums
<1>2. ASSUME NEW k \in Nat, k \in K PROVE k + 1 \in K
  <2> SUFFICES ASSUME k + 1 <= n PROVE f[k + 1] = k + 1
    OBVIOUS
  <2>1. k + 1 \in 1..n /\ f[k] = k /\ (k + 1) - 1 = k
    BY <1>2
  <2>2. f[k + 1] = f[(k + 1) - 1] + w[k + 1] /\ w[k + 1] = 1
    BY <2>1 DEF Sums
  <2> QED BY <2>1, <2>2
<1>3. Nat \subseteq K
  <2> HIDE DEF K
  <2> QED BY <1>1, <1>2, NaturalInduction
<1> QED BY <1>3

\* Bytes sums the widths of Width8.
LEMMA BytesSums ==
  ASSUME NEW t, NEW n \in Nat
  PROVE  \E f \in [0..n -> Nat] : /\ Sums(f, [i \in 1..n |-> Width8(t[i])], n)
                                 /\ \A m \in 0..n : Bytes(t, m) = f[m]
<1> DEFINE w(m) == [i \in 1..m |-> Width8(t[i])]
           IsB(g, m) == g = [i \in 0..m |-> IF i = 0 THEN 0 ELSE g[i-1] + Width8(t[i])]
<1>1. PICK f \in [0..n -> Nat] : Sums(f, w(n), n)
  <2>1. w(n) \in [1..n -> Nat]
    BY DEF Width8
  <2> HIDE DEF w
  <2> QED BY <2>1, SumsExist
<1>2. ASSUME NEW m \in 0..n PROVE Bytes(t, m) = f[m]
  <2>1. \E g : IsB(g, m)
    <3> DEFINE g == [i \in 0..m |-> f[i]]
    <3>1. ASSUME NEW i \in 0..m PROVE g[i] = IF i = 0 THEN 0 ELSE g[i-1] + Width8(t[i])
      <4>1. g[i] = f[i] /\ (i # 0 => g[i-1] = f[i-1] /\ i \in 1..n)
        OBVIOUS
      <4>2. f[0] = 0 /\ (i # 0 => f[i] = f[i-1] + Width8(t[i]))
        BY <1>1 DEF Sums
      <4> HIDE DEF g
      <4> QED BY <4>1, <4>2
    <3>2. g = [i \in 0..m |-> g[i]]
      OBVIOUS
    <3> HIDE DEF g
    <3>3. IsB(g, m)
      BY <3>1, <3>2
    <3> HIDE DEF IsB
    <3> QED BY <3>3
  <2>2. Bytes(t, m) = (CHOOSE g : IsB(g, m))[m]
    BY DEF Bytes
  <2>3. PICK g : g = (CHOOSE h : IsB(h, m)) /\ IsB(g, m)
    <3> HIDE DEF IsB
    <3> QED BY <2>1
  <2>4. Sums(g, w(n), m)
    <3>1. g = [i \in 0..m |-> IF i = 0 THEN 0 ELSE g[i-1] + Width8(t[i])]
      BY <2>3
    <3>2. \A i \in 0..m : g[i] = IF i = 0 THEN 0 ELSE g[i-1] + Width8(t[i])
      BY ONLY <3>1
    <3>3. \A i \in 1..m : i \in 0..m /\ i # 0 /\ w(n)[i] = Width8(t[i])
      OBVIOUS
    <3>4. 0 \in 0..m
      OBVIOUS
    <3> HIDE DEF w
    <3> QED BY <3>2, <3>3, <3>4 DEF Sums
  <2>5. f[m] = g[m]
    <3> HIDE DEF w
    <3> QED BY <1>1, <2>4, SumsUnique
  <2> HIDE DEF IsB
  <2> QED BY <2>2, <2>3, <2>5
<1> QED BY <1>1, <1>2

\* Units sums the widths of Width16.
LEMMA UnitsSums ==
  ASSUME NEW t, NEW n \in Nat
  PROVE  \E f \in [0..n -> Nat] : /\ Sums(f, [i \in 1..n |-> Width16(t[i])], n)
                                 /\ \A m \in 0..n : Units(t, m) = f[m]
<1> DEFINE w(m) == [i \in 1..m |-> Width16(t[i])]
           IsB(g, m) == g = [i \in 0..m |-> IF i = 0 THEN 0 ELSE g[i-1] + Width16(t[i])]
<1>1. PICK f \in [0..n -> Nat] : Sums(f, w(n), n)
  <2>1. w(n) \in [1..n -> Nat]
    BY DEF Width16
  <2> HIDE DEF w
  <2> QED BY <2>1, SumsExist
<1>2. ASSUME NEW m \in 0..n PROVE Units(t, m) = f[m]
  <2>1. \E g : IsB(g, m)
    <3> DEFINE g == [i \in 0..m |-> f[i]]
    <3>1. ASSUME NEW i \in 0..m PROVE g[i] = IF i = 0 THEN 0 ELSE g[i-1] + Width16(t[i])
      <4>1. g[i] = f[i] /\ (i # 0 => g[i-1] = f[i-1] /\ i \in 1..n)
        OBVIOUS
      <4>2. f[0] = 0 /\ (i # 0 => f[i] = f[i-1] + Width16(t[i]))
        BY <1>1 DEF Sums
      <4> HIDE DEF g
      <4> QED BY <4>1, <4>2
    <3>2. g = [i \in 0..m |-> g[i]]
      OBVIOUS
    <3> HIDE DEF g
    <3>3. IsB(g, m)
      BY <3>1, <3>2
    <3> HIDE DEF IsB
    <3> QED BY <3>3
  <2>2. Units(t, m) = (CHOOSE g : IsB(g, m))[m]
    BY DEF Units
  <2>3. PICK g : g = (CHOOSE h : IsB(h, m)) /\ IsB(g, m)
    <3> HIDE DEF IsB
    <3> QED BY <2>1
  <2>4. Sums(g, w(n), m)
    <3>1. g = [i \in 0..m |-> IF i = 0 THEN 0 ELSE g[i-1] + Width16(t[i])]
      BY <2>3
    <3>2. \A i \in 0..m : g[i] = IF i = 0 THEN 0 ELSE g[i-1] + Width16(t[i])
      BY ONLY <3>1
    <3>3. \A i \in 1..m : i \in 0..m /\ i # 0 /\ w(n)[i] = Width16(t[i])
      OBVIOUS
    <3>4. 0 \in 0..m
      OBVIOUS
    <3> HIDE DEF w
    <3> QED BY <3>2, <3>3, <3>4 DEF Sums
  <2>5. f[m] = g[m]
    <3> HIDE DEF w
    <3> QED BY <1>1, <2>4, SumsUnique
  <2> HIDE DEF IsB
  <2> QED BY <2>2, <2>3, <2>5
<1> QED BY <1>1, <1>2

\* What comes of it: numbers that grow from 0, and count when every character is one byte.
LEMMA TextSums ==
  ASSUME NEW t, Len(t) \in Nat, DOMAIN t = 1..Len(t)
  PROVE  /\ \A n \in 0..Len(t) : Bytes(t, n) \in Nat /\ Units(t, n) \in Nat
         /\ Bytes(t, 0) = 0 /\ Units(t, 0) = 0
         /\ \A m, n \in 0..Len(t) : m < n => Bytes(t, m) < Bytes(t, n) /\ Units(t, m) < Units(t, n)
         /\ AsciiOnly(t) => \A n \in 0..Len(t) : Bytes(t, n) = n /\ Units(t, n) = n
<1> DEFINE n == Len(t)
           w8 == [i \in 1..n |-> Width8(t[i])]
           w16 == [i \in 1..n |-> Width16(t[i])]
<1>0. n \in Nat
  OBVIOUS
<1>1. PICK f \in [0..n -> Nat] : Sums(f, w8, n) /\ \A m \in 0..n : Bytes(t, m) = f[m]
  BY <1>0, BytesSums
<1>2. PICK g \in [0..n -> Nat] : Sums(g, w16, n) /\ \A m \in 0..n : Units(t, m) = g[m]
  BY <1>0, UnitsSums
<1>3. w8 \in [1..n -> Nat \ {0}] /\ w16 \in [1..n -> Nat \ {0}]
  BY DEF Width8, Width16
<1>4. ASSUME AsciiOnly(t) PROVE \A i \in 1..n : w8[i] = 1 /\ w16[i] = 1
  BY <1>4 DEF AsciiOnly, Width8, Width16
<1> HIDE DEF w8, w16
<1>5. \A i, j \in 0..n : i < j => f[i] < f[j] /\ g[i] < g[j]
  BY <1>0, <1>1, <1>2, <1>3, SumsGrow
<1>6. AsciiOnly(t) => \A k \in 0..n : f[k] = k /\ g[k] = k
  BY <1>0, <1>1, <1>2, <1>4, SumsOfOnes
<1>7. 0 \in 0..n /\ f[0] = 0 /\ g[0] = 0
  BY <1>0, <1>1, <1>2 DEF Sums
<1> HIDE DEF n
<1>8. \A m \in 0..n : Bytes(t, m) \in Nat /\ Units(t, m) \in Nat
  BY <1>1, <1>2
<1>9. \A m, k \in 0..n : m < k => Bytes(t, m) < Bytes(t, k) /\ Units(t, m) < Units(t, k)
  BY <1>1, <1>2, <1>5
<1>10. AsciiOnly(t) => \A m \in 0..n : Bytes(t, m) = m /\ Units(t, m) = m
  BY <1>1, <1>2, <1>6
<1> QED BY <1>1, <1>2, <1>7, <1>8, <1>9, <1>10 DEF n
\* A boundary is of one place.
LEMMA PlaceOf ==
  ASSUME NEW C, NEW t \in Seq(C), NEW n \in 0..Len(t)
  PROVE  /\ \A m \in 0..Len(t) : Bytes(t, m) = Bytes(t, n) => m = n
         /\ CharsBefore(t, Bytes(t, n)) = n
<1>1. Len(t) \in Nat /\ DOMAIN t = 1..Len(t)
  OBVIOUS
<1>2. ASSUME NEW m \in 0..Len(t), Bytes(t, m) = Bytes(t, n) PROVE m = n
  <2>1. Bytes(t, m) \in Nat /\ (m < n => Bytes(t, m) < Bytes(t, n)) /\ (n < m => Bytes(t, n) < Bytes(t, m))
    BY <1>1, TextSums
  <2> QED BY <1>2, <2>1
<1> QED BY <1>2 DEF CharsBefore

-----------------------------------------------------------------------------
(***************************************************************************)
(* Lines.  The number of a line is how many lines start before it.         *)
(***************************************************************************)
StartsBefore(t, pos) == {r \in LineStarts(t) : r < pos}
Line(t, pos) == Cardinality(StartsBefore(t, pos))

\* A line starts at a place of the text.
LEMMA LineStartsFacts ==
  ASSUME NEW C, NEW t \in Seq(C)
  PROVE  /\ 0 \in LineStarts(t) /\ LineStarts(t) \in SUBSET Nat /\ IsFiniteSet(LineStarts(t))
         /\ \A s \in LineStarts(t) : \E m \in 0..Len(t) : s = Bytes(t, m)
<1>1. Len(t) \in Nat /\ DOMAIN t = 1..Len(t)
  OBVIOUS
<1>2. ASSUME NEW s \in LineStarts(t) PROVE \E m \in 0..Len(t) : s = Bytes(t, m)
  <2>1. Bytes(t, 0) = 0 /\ 0 \in 0..Len(t) /\ 1..Len(t) \subseteq 0..Len(t)
    BY <1>1, TextSums
  <2> QED BY <2>1 DEF LineStarts
<1>3. ASSUME NEW s \in LineStarts(t) PROVE s \in Nat /\ s <= ByteLen(t) /\ ByteLen(t) \in Nat
  <2>1. PICK m \in 0..Len(t) : s = Bytes(t, m)
    BY <1>2
  <2>2. Len(t) \in 0..Len(t)
    BY <1>1
  <2>3. Bytes(t, m) \in Nat /\ Bytes(t, Len(t)) \in Nat /\ (m < Len(t) => Bytes(t, m) < Bytes(t, Len(t)))
    BY <1>1, <2>2, TextSums
  <2> QED BY <1>1, <2>1, <2>3 DEF ByteLen
<1>4. 0 \in LineStarts(t)
  BY DEF LineStarts
<1>5. LineStarts(t) \in SUBSET Nat
  BY <1>3
<1>6. ByteLen(t) \in Nat /\ \A s \in LineStarts(t) : s <= ByteLen(t)
  BY <1>3, <1>4
<1>7. IsFiniteSet(LineStarts(t))
  BY <1>5, <1>6, FS_BoundedSetOfNaturals
<1> QED BY <1>2, <1>4, <1>5, <1>7

\* Later lines have greater numbers, all of them less than the number of lines.
LEMMA LinesInOrder ==
  ASSUME NEW C, NEW t \in Seq(C), NEW s \in LineStarts(t)
  PROVE  /\ Line(t, s) \in Nat /\ Cardinality(LineStarts(t)) \in Nat
         /\ Line(t, s) < Cardinality(LineStarts(t))
         /\ \A r \in LineStarts(t) : s < r => Line(t, s) < Line(t, r)
         /\ LineStart(t, Line(t, s)) = s
<1> DEFINE L == LineStarts(t)
<1>1. L \in SUBSET Nat /\ IsFiniteSet(L) /\ s \in L
  BY LineStartsFacts
<1>2. ASSUME NEW B \in SUBSET L, NEW r \in L, StartsBefore(t, r) \subseteq B, r \in B
      PROVE  Line(t, r) \in Nat /\ Cardinality(B) \in Nat /\ Line(t, r) < Cardinality(B)
  <2> DEFINE A == StartsBefore(t, r)
  <2>1. A \in SUBSET B /\ r \notin A /\ IsFiniteSet(B)
    <3>1. r \notin A
      BY <1>1 DEF StartsBefore
    <3> QED BY <1>1, <1>2, <3>1, FS_Subset
  <2>2. IsFiniteSet(A) /\ Cardinality(A) <= Cardinality(B) /\ (Cardinality(B) = Cardinality(A) => B = A)
    <3> HIDE DEF A
    <3> QED BY <2>1, FS_Subset
  <2>3. Cardinality(A) \in Nat /\ Cardinality(B) \in Nat
    <3> HIDE DEF A
    <3> QED BY <2>1, <2>2, FS_CardinalityType
  <2>4. Cardinality(A) # Cardinality(B)
    BY <1>2, <2>1, <2>2
  <2> HIDE DEF A
  <2>5. Cardinality(A) < Cardinality(B)
    BY <2>2, <2>3, <2>4
  <2> QED BY <2>3, <2>5 DEF Line, A
<1>3. Line(t, s) \in Nat /\ Cardinality(L) \in Nat /\ Line(t, s) < Cardinality(L)
  BY <1>1, <1>2 DEF StartsBefore
<1>4. ASSUME NEW q \in L, NEW r \in L, q < r PROVE Line(t, q) < Line(t, r) /\ Line(t, q) \in Nat /\ Line(t, r) \in Nat
  <2>1. StartsBefore(t, r) \in SUBSET L /\ StartsBefore(t, q) \subseteq StartsBefore(t, r) /\ q \in StartsBefore(t, r)
    BY <1>1, <1>4 DEF StartsBefore
  <2> QED BY <1>2, <2>1 DEF Line
<1>5. \A r \in L : Line(t, r) = Line(t, s) => r = s
  <2> SUFFICES ASSUME NEW r \in L, Line(t, r) = Line(t, s), r # s PROVE FALSE
    OBVIOUS
  <2>1. r < s \/ s < r
    BY <1>1
  <2> QED BY <1>1, <1>4, <2>1
<1>6. LineStart(t, Line(t, s)) = CHOOSE r \in L : Line(t, r) = Line(t, s)
  BY DEF LineStart, Line, StartsBefore
<1>7. LineStart(t, Line(t, s)) = s
  BY <1>1, <1>5, <1>6
<1> QED BY <1>1, <1>3, <1>4, <1>7

\* The line of a place: the last that starts there or before.
LineStartOf(t, n) == Max({r \in LineStarts(t) : r <= Bytes(t, n)})

LEMMA LineOfPlace ==
  ASSUME NEW C, NEW t \in Seq(C), NEW n \in 0..Len(t)
  PROVE  /\ LineStartOf(t, n) \in LineStarts(t) /\ LineStartOf(t, n) <= Bytes(t, n)
         /\ \A r \in LineStarts(t) : r <= Bytes(t, n) => r <= LineStartOf(t, n)
         /\ CharsBefore(t, LineStartOf(t, n)) \in 0..n
         /\ LineStartOf(t, n) = Bytes(t, CharsBefore(t, LineStartOf(t, n)))
<1> DEFINE X == {r \in LineStarts(t) : r <= Bytes(t, n)}
<1>1. Len(t) \in Nat /\ DOMAIN t = 1..Len(t)
  OBVIOUS
<1>2. Bytes(t, n) \in Nat /\ \A m \in 0..Len(t) : m > n => Bytes(t, m) > Bytes(t, n) /\ Bytes(t, m) \in Nat
  BY <1>1, TextSums
<1>3. X \in SUBSET Nat /\ 0 \in X /\ \A r \in X : r <= Bytes(t, n)
  BY <1>2, LineStartsFacts
<1>4. Max(X) \in X /\ \A r \in X : r <= Max(X)
  <2> HIDE DEF X
  <2> QED BY <1>2, <1>3, MaxOf
<1>5. PICK m \in 0..Len(t) : Max(X) = Bytes(t, m)
  BY <1>4, LineStartsFacts
<1>6. m <= n
  BY <1>2, <1>4, <1>5
<1>7. CharsBefore(t, Max(X)) = m
  BY <1>5, PlaceOf
<1> QED BY <1>1, <1>4, <1>5, <1>6, <1>7 DEF LineStartOf

-----------------------------------------------------------------------------
(***************************************************************************)
(* Positions.                                                              *)
(***************************************************************************)
\* What FromLineAndCharacter makes of a line and of the characters between its start and a
\* place: that place.
LEMMA FromLine ==
  ASSUME NEW C, NEW t \in Seq(C), NEW enc, NEW n \in 0..Len(t), NEW m \in 0..n,
         Bytes(t, m) \in LineStarts(t), NEW char,
         char = IF AsciiOnly(t) \/ enc = "utf8" THEN Bytes(t, n) - Bytes(t, m) ELSE Units(t, n) - Units(t, m)
  PROVE  FromLineAndCharacter(t, enc, [line |-> Line(t, Bytes(t, m)), character |-> char]) = Bytes(t, n)
<1> DEFINE p == [line |-> Line(t, Bytes(t, m)), character |-> char]
<1>1. Len(t) \in Nat /\ DOMAIN t = 1..Len(t) /\ m \in 0..Len(t)
  OBVIOUS
<1>2. LineStart(t, p.line) = Bytes(t, m) /\ ~(p.line >= Cardinality(LineStarts(t)))
  BY LinesInOrder
<1>3. CASE AsciiOnly(t) \/ enc = "utf8"
  <2>1. FromLineAndCharacter(t, enc, p) = Bytes(t, m) + (Bytes(t, n) - Bytes(t, m))
    BY <1>2, <1>3 DEF FromLineAndCharacter
  <2>2. Bytes(t, m) \in Nat /\ Bytes(t, n) \in Nat
    BY <1>1, TextSums
  <2> QED BY <2>1, <2>2
<1>4. CASE ~(AsciiOnly(t) \/ enc = "utf8")
  <2> DEFINE fits == {k \in m..Len(t) : Units(t, k) - Units(t, m) <= char}
  <2>1. \A k \in 0..Len(t) : Units(t, k) \in Nat /\ (n < k => Units(t, n) < Units(t, k))
    BY <1>1, TextSums
  <2>2. n \in fits /\ fits \in SUBSET Nat
    BY <1>1, <1>4, <2>1
  <2>3. \A k \in fits : k <= n
    <3> SUFFICES ASSUME NEW k \in fits, n < k PROVE FALSE
      BY <2>2
    <3>1. k \in 0..Len(t) /\ Units(t, k) - Units(t, m) <= Units(t, n) - Units(t, m)
      BY <1>4, <2>2
    <3> QED BY <1>1, <2>1, <3>1
  <2>4. Max(fits) = n
    <3> HIDE DEF fits
    <3>1. n \in Nat /\ n \in fits /\ fits \in SUBSET Nat /\ \A k \in fits : k <= n
      BY <2>2, <2>3
    <3>2. Max(fits) \in fits /\ \A k \in fits : k <= Max(fits)
      BY <3>1, MaxOf
    <3>3. Max(fits) \in Nat /\ Max(fits) <= n /\ n <= Max(fits)
      BY <3>1, <3>2
    <3> QED BY <3>1, <3>3
  <2>5. ScanUnits(t, Bytes(t, m), char) = Bytes(t, Max(fits))
    BY <1>1, PlaceOf DEF ScanUnits
  <2> HIDE DEF fits
  <2>6. FromLineAndCharacter(t, enc, p) = ScanUnits(t, Bytes(t, m), char)
    BY <1>2, <1>4 DEF FromLineAndCharacter
  <2> QED BY <2>4, <2>5, <2>6
<1> QED BY <1>3, <1>4

\* The server looks where the client points, at every place and in each encoding.
THEOREM ClientIsUnderstood ==
  ASSUME NEW C, NEW t \in Seq(C), NEW enc, NEW n \in 0..Len(t)
  PROVE  FromLineAndCharacter(t, enc, ClientPosition(t, enc, n)) = Bytes(t, n)
<1> DEFINE s == LineStartOf(t, n)
           m == CharsBefore(t, s)
           char == IF enc = "utf8" THEN Bytes(t, n) - s ELSE Units(t, n) - Units(t, m)
<1>1. s \in LineStarts(t) /\ m \in 0..n /\ s = Bytes(t, m)
  BY LineOfPlace
<1>2. ClientPosition(t, enc, n) = [line |-> Line(t, s), character |-> char]
  BY DEF ClientPosition, Line, StartsBefore, LineStartOf
<1>3. Len(t) \in Nat /\ DOMAIN t = 1..Len(t) /\ m \in 0..Len(t)
  BY <1>1
<1>4. AsciiOnly(t) => Bytes(t, n) - s = Units(t, n) - Units(t, m)
  <2>1. AsciiOnly(t) => Bytes(t, n) = n /\ Units(t, n) = n /\ Bytes(t, m) = m /\ Units(t, m) = m
    BY <1>3, TextSums
  <2> QED BY <1>1, <2>1
<1>5. char = IF AsciiOnly(t) \/ enc = "utf8" THEN Bytes(t, n) - Bytes(t, m) ELSE Units(t, n) - Units(t, m)
  BY <1>1, <1>4
<1> HIDE DEF s, m, char
<1>6. FromLineAndCharacter(t, enc, [line |-> Line(t, Bytes(t, m)), character |-> char]) = Bytes(t, n)
  BY <1>1, <1>5, FromLine
<1> QED BY <1>1, <1>2, <1>6

\* The server counts from the last line that starts before the place, or from 0 when none does.
LEMMA ServerLine ==
  ASSUME NEW C, NEW t \in Seq(C), NEW enc, NEW n \in 0..Len(t)
  PROVE  \E k \in 0..n :
           /\ Bytes(t, k) \in LineStarts(t)
           /\ \A r \in LineStarts(t) : r < Bytes(t, n) => r <= Bytes(t, k)
           /\ ToLineAndCharacter(t, enc, Bytes(t, n)) =
                [line |-> Line(t, Bytes(t, k)),
                 character |-> IF AsciiOnly(t) \/ enc = "utf8" THEN Bytes(t, n) - Bytes(t, k)
                               ELSE Units(t, n) - Units(t, k)]
<1> DEFINE pos == Bytes(t, n)
           X == StartsBefore(t, pos)
           line == Max({0, Cardinality(X) - 1})
           start == LineStart(t, line)
           m == CharsBefore(t, start)
           char == IF AsciiOnly(t) \/ enc = "utf8" THEN pos - start ELSE Units(t, n) - Units(t, m)
<1>1. Len(t) \in Nat /\ DOMAIN t = 1..Len(t) /\ pos \in Nat
  <2>1. Len(t) \in Nat /\ DOMAIN t = 1..Len(t)
    OBVIOUS
  <2> QED BY <2>1, TextSums
<1>2. \E k \in 0..n : /\ Bytes(t, k) \in LineStarts(t) /\ line = Line(t, Bytes(t, k))
                     /\ \A r \in LineStarts(t) : r < pos => r <= Bytes(t, k)
  <2>1. LineStarts(t) \in SUBSET Nat /\ 0 \in LineStarts(t) /\ IsFiniteSet(LineStarts(t)) /\ Bytes(t, 0) = 0
    BY <1>1, LineStartsFacts, TextSums
  <2>2. CASE pos = 0
    <3>1. X = {}
      BY <2>1, <2>2 DEF StartsBefore
    <3>2. Cardinality(X) = 0
      BY <3>1, FS_EmptySet
    <3>3. line = 0
      <4>1. \A x \in {0, -1} : (\A y \in {0, -1} : x >= y) <=> x = 0
        OBVIOUS
      <4>2. Max({0, -1}) = 0
        BY <4>1 DEF Max
      <4> QED BY <3>2, <4>2
    <3>4. Line(t, Bytes(t, 0)) = 0
      BY <2>1, <2>2, <3>2 DEF Line
    <3> QED BY <1>1, <2>1, <2>2, <3>3, <3>4
  <2>3. CASE pos # 0
    <3>1. X \in SUBSET Nat /\ 0 \in X /\ \A r \in X : r <= pos
      BY <1>1, <2>1, <2>3 DEF StartsBefore
    <3>2. PICK s : s = Max(X)
      OBVIOUS
    <3>3. s \in X /\ \A r \in X : r <= s
      <4> HIDE DEF X
      <4> QED BY <1>1, <3>1, <3>2, MaxOf
    <3>4. StartsBefore(t, s) = X \ {s} /\ s \in LineStarts(t) /\ s < pos
      BY <1>1, <2>1, <3>3 DEF StartsBefore
    <3>5. IsFiniteSet(X) /\ X \subseteq LineStarts(t)
      BY <2>1, FS_Subset DEF StartsBefore
    <3>6. Line(t, s) = Cardinality(X) - 1
      <4> HIDE DEF X
      <4>1. Cardinality(X \ {s}) = Cardinality(X) - 1
        BY <3>3, <3>5, FS_RemoveElement
      <4> QED BY <3>4, <4>1 DEF Line
    <3>7. line = Line(t, s)
      <4> DEFINE k == Line(t, s)
      <4>1. k \in Nat
        BY <3>4, LinesInOrder
      <4> HIDE DEF k
      <4>2. \A x \in {0, k} : (\A y \in {0, k} : x >= y) <=> x = k
        BY <4>1
      <4>3. Max({0, k}) = k
        BY <4>2 DEF Max
      <4> QED BY <3>6, <4>3 DEF k
    <3>8. PICK k \in 0..Len(t) : s = Bytes(t, k)
      BY <3>4, LineStartsFacts
    <3>9. k <= n
      <4>1. n < k => pos < s
        BY <1>1, <3>8, TextSums
      <4> QED BY <1>1, <2>1, <3>4, <4>1
    <3>10. \A r \in LineStarts(t) : r < pos => r <= s
      BY <3>3 DEF StartsBefore
    <3> QED BY <1>1, <3>4, <3>7, <3>8, <3>9, <3>10
  <2> QED BY <2>2, <2>3
<1>3. PICK k \in 0..n : /\ Bytes(t, k) \in LineStarts(t) /\ line = Line(t, Bytes(t, k))
                       /\ \A r \in LineStarts(t) : r < pos => r <= Bytes(t, k)
  BY <1>2
<1>4. start = Bytes(t, k) /\ m = k
  BY <1>1, <1>3, LinesInOrder, PlaceOf
<1>5. ToLineAndCharacter(t, enc, pos) = [line |-> line, character |-> char]
  BY PlaceOf DEF ToLineAndCharacter, StartsBefore
<1>6. char = IF AsciiOnly(t) \/ enc = "utf8" THEN Bytes(t, n) - Bytes(t, k) ELSE Units(t, n) - Units(t, k)
  BY <1>4
<1> HIDE DEF line, char
<1> QED BY <1>3, <1>5, <1>6

\* A position the server makes is of the place it was made of.
THEOREM ServerIsUnderstood ==
  ASSUME NEW C, NEW t \in Seq(C), NEW enc, NEW n \in 0..Len(t)
  PROVE  FromLineAndCharacter(t, enc, ToLineAndCharacter(t, enc, Bytes(t, n))) = Bytes(t, n)
<1> DEFINE char(k) == IF AsciiOnly(t) \/ enc = "utf8" THEN Bytes(t, n) - Bytes(t, k) ELSE Units(t, n) - Units(t, k)
<1>1. PICK k \in 0..n :
        /\ Bytes(t, k) \in LineStarts(t)
        /\ ToLineAndCharacter(t, enc, Bytes(t, n)) = [line |-> Line(t, Bytes(t, k)), character |-> char(k)]
  BY ServerLine
<1>2. \A c : c = char(k) =>
        FromLineAndCharacter(t, enc, [line |-> Line(t, Bytes(t, k)), character |-> c]) = Bytes(t, n)
  BY <1>1, FromLine
<1> HIDE DEF char
<1> QED BY <1>1, <1>2

\* It is the client's position of the place, unless a line after the first starts there.
THEOREM ServerCountsAsClient ==
  ASSUME NEW C, NEW t \in Seq(C), NEW enc, NEW n \in 0..Len(t), Bytes(t, n) \notin LineStarts(t) \ {0}
  PROVE  ToLineAndCharacter(t, enc, Bytes(t, n)) = ClientPosition(t, enc, n)
<1> DEFINE s == LineStartOf(t, n)
           m == CharsBefore(t, s)
<1>1. Len(t) \in Nat /\ DOMAIN t = 1..Len(t)
  OBVIOUS
<1>2. /\ s \in LineStarts(t) /\ s <= Bytes(t, n) /\ m \in 0..n /\ s = Bytes(t, m)
      /\ \A r \in LineStarts(t) : r <= Bytes(t, n) => r <= s
  BY LineOfPlace
<1>3. PICK k \in 0..n :
        /\ Bytes(t, k) \in LineStarts(t)
        /\ \A r \in LineStarts(t) : r < Bytes(t, n) => r <= Bytes(t, k)
        /\ ToLineAndCharacter(t, enc, Bytes(t, n)) =
             [line |-> Line(t, Bytes(t, k)),
              character |-> IF AsciiOnly(t) \/ enc = "utf8" THEN Bytes(t, n) - Bytes(t, k)
                            ELSE Units(t, n) - Units(t, k)]
  BY ServerLine
<1>4. ClientPosition(t, enc, n) =
        [line |-> Line(t, s), character |-> IF enc = "utf8" THEN Bytes(t, n) - s ELSE Units(t, n) - Units(t, m)]
  BY DEF ClientPosition, Line, StartsBefore, LineStartOf
<1> HIDE DEF s, m
<1>5. k \in 0..Len(t) /\ m \in 0..Len(t)
  BY <1>1, <1>2
<1>6. /\ Bytes(t, k) \in Nat /\ Bytes(t, n) \in Nat /\ s \in Nat
      /\ k < n => Bytes(t, k) < Bytes(t, n)
  BY <1>1, <1>2, <1>5, TextSums
<1>7. Bytes(t, k) = s
  <2>1. Bytes(t, k) <= Bytes(t, n)
    BY <1>1, <1>3, <1>6
  <2>2. s <= Bytes(t, k)
    BY <1>2, <1>3, <1>6
  <2> QED BY <1>2, <1>3, <1>6, <2>1, <2>2
<1>8. k = m
  BY <1>2, <1>5, <1>7, PlaceOf
<1>9. AsciiOnly(t) => Bytes(t, n) - s = Units(t, n) - Units(t, m)
  BY <1>1, <1>2, <1>5, TextSums
<1> QED BY <1>2, <1>3, <1>4, <1>7, <1>8, <1>9

\* A change whose positions are in order has its places in order.
LEMMA PlacesInOrder ==
  ASSUME NEW C, NEW t \in Seq(C), NEW enc, NEW m \in 0..Len(t), NEW n \in 0..Len(t), NEW a, NEW b,
         a = ClientPosition(t, enc, m), b = ClientPosition(t, enc, n),
         a.line < b.line \/ (a.line = b.line /\ a.character <= b.character)
  PROVE  m <= n
<1> SUFFICES ASSUME n < m PROVE FALSE
  OBVIOUS
<1> DEFINE s(k) == LineStartOf(t, k)
           c(k) == CharsBefore(t, s(k))
<1>1. Len(t) \in Nat /\ DOMAIN t = 1..Len(t)
  OBVIOUS
<1>2. /\ s(m) \in LineStarts(t) /\ s(n) \in LineStarts(t) /\ s(m) \in Nat /\ s(n) \in Nat
      /\ c(m) \in 0..Len(t) /\ c(n) \in 0..Len(t)
  <2>1. ASSUME NEW k \in 0..Len(t) PROVE s(k) \in LineStarts(t) /\ s(k) \in Nat /\ c(k) \in 0..Len(t)
    <3>1. s(k) \in LineStarts(t) /\ c(k) \in 0..k
      BY LineOfPlace
    <3>2. s(k) \in Nat
      BY <3>1, LineStartsFacts
    <3> HIDE DEF s, c
    <3> QED BY <1>1, <3>1, <3>2
  <2> HIDE DEF s, c
  <2> QED BY <2>1
<1>3. /\ Bytes(t, m) \in Nat /\ Bytes(t, n) \in Nat /\ Bytes(t, n) < Bytes(t, m)
      /\ Units(t, m) \in Nat /\ Units(t, n) \in Nat /\ Units(t, n) < Units(t, m)
      /\ Units(t, c(m)) \in Nat /\ Units(t, c(n)) \in Nat
  <2> HIDE DEF c
  <2> QED BY <1>1, <1>2, TextSums
<1>4. s(n) <= s(m)
  BY <1>2, <1>3, LineOfPlace
<1>5. /\ a.line = Line(t, s(m)) /\ b.line = Line(t, s(n))
      /\ a.character = IF enc = "utf8" THEN Bytes(t, m) - s(m) ELSE Units(t, m) - Units(t, c(m))
      /\ b.character = IF enc = "utf8" THEN Bytes(t, n) - s(n) ELSE Units(t, n) - Units(t, c(n))
  BY DEF ClientPosition, Line, StartsBefore, LineStartOf
<1>6. CASE s(n) = s(m)
  <2>1. c(n) = c(m) /\ a.character <= b.character
    <3>1. a.line = b.line /\ a.line \in Nat
      BY <1>2, <1>5, <1>6, LinesInOrder
    <3> QED BY <1>6, <3>1
  <2>2. /\ a.character = IF enc = "utf8" THEN Bytes(t, m) - s(m) ELSE Units(t, m) - Units(t, c(m))
        /\ b.character = IF enc = "utf8" THEN Bytes(t, n) - s(m) ELSE Units(t, n) - Units(t, c(m))
    <3> HIDE DEF s
    <3> QED BY <1>5, <1>6
  <2> HIDE DEF s, c
  <2> QED BY <1>2, <1>3, <2>1, <2>2
<1>7. CASE s(n) # s(m)
  <2>1. Line(t, s(n)) < Line(t, s(m)) /\ Line(t, s(n)) \in Nat /\ Line(t, s(m)) \in Nat
    <3>1. s(n) < s(m)
      BY <1>2, <1>4, <1>7
    <3> HIDE DEF s
    <3> QED BY <1>2, <3>1, LinesInOrder
  <2> HIDE DEF s
  <2> QED BY <1>5, <2>1
<1> QED BY <1>6, <1>7
-----------------------------------------------------------------------------
(***************************************************************************)
(* Changes.                                                                *)
(***************************************************************************)
LEMMA TextIsSequence ==
  ASSUME LspAssumption, NEW t \in Texts
  PROVE  t \in Seq(Chars) /\ t # Closed /\ t # OutOfRange
<1>1. PICK n \in 0..MaxText : t \in [1..n -> Chars]
  BY DEF Texts
<1>2. n \in Nat
  BY <1>1 DEF LspAssumption
<1>3. t \in Seq(Chars)
  BY <1>1, <1>2
<1>4. ASSUME NEW x, t = <<x>> PROVE x \in Chars
  BY <1>3, <1>4
<1>5. "closed" \notin Chars /\ "out of range" \notin Chars
  BY DEF LspAssumption, Ascii, Accented, Emoji, LF, CR
<1> QED BY <1>3, <1>4, <1>5 DEF Closed, OutOfRange

\* A round of ChangeFile's loop, and what there is before and after the only one.
ApplyChange(ctx, now, c) == IF now = OutOfRange THEN now ELSE Splice(now, c.from, c.to, c.text)
Applied(c, k, now) == (k = 0 => now = c.before) /\ (k = 1 => now = c.after)

Changing == INSTANCE FoldInduction WITH step <- ApplyChange, Inv <- Applied

LEMMA OneChange ==
  ASSUME NEW t, NEW enc, t # OutOfRange, NEW c
  PROVE  Changed(t, enc, <<c>>) = Splice(t, Converted(t, enc, c).from, Converted(t, enc, c).to, Converted(t, enc, c).text)
<1> DEFINE x == Converted(t, enc, c)
           seq == [i \in DOMAIN <<c>> |-> Converted(t, enc, <<c>>[i])]
           b == [before |-> t, after |-> Splice(t, x.from, x.to, x.text)]
<1>1. seq \in Seq({x}) /\ Len(seq) = 1 /\ seq[1] = x
  <2> HIDE DEF x
  <2>1. DOMAIN <<c>> = 1..1 /\ <<c>>[1] = c
    OBVIOUS
  <2>2. seq = <<x>>
    BY <2>1 DEF x
  <2> HIDE DEF seq
  <2> QED BY <2>2
<1>2. Changed(t, enc, <<c>>) = Changing!Over(t, t, seq)
  BY DEF Changed, ApplyChange, FoldLeft, MapThenFoldSet, Max, Changing!Over, Changing!IsRun, Changing!Last
<1> HIDE DEF seq, x
<1>3. Applied(b, 0, t)
  BY DEF Applied
<1>4. \A k \in 0..(Len(seq) - 1) : \A T : Applied(b, k, T) => Applied(b, k + 1, ApplyChange(t, T, seq[k + 1]))
  <2> SUFFICES ASSUME NEW T, Applied(b, 0, T) PROVE Applied(b, 1, ApplyChange(t, T, x))
    BY <1>1
  <2>1. T = t
    BY DEF Applied
  <2>2. ApplyChange(t, t, x) = b.after
    BY DEF ApplyChange
  <2> QED BY <2>1, <2>2 DEF Applied
<1> HIDE DEF b
<1>5. Applied(b, Len(seq), Changing!Over(t, t, seq))
  BY <1>1, <1>3, <1>4, NaturalInduction, Changing!LoopReaches DEF Changing!Induction
<1>6. Changing!Over(t, t, seq) = b.after
  BY <1>1, <1>5 DEF Applied
<1> QED BY <1>2, <1>6 DEF b, x

\* A part is cut out where the client said.
LEMMA SpliceAtPlaces ==
  ASSUME NEW C, NEW t \in Seq(C), NEW n \in 0..Len(t), NEW m \in 0..n, NEW new
  PROVE  Splice(t, Bytes(t, m), Bytes(t, n), new) = SubSeq(t, 1, m) \o new \o SubSeq(t, n + 1, Len(t))
<1>1. Len(t) \in Nat /\ DOMAIN t = 1..Len(t) /\ m \in 0..Len(t)
  OBVIOUS
<1>2. Bytes(t, m) \in Nat /\ Bytes(t, n) \in Nat /\ (m < n => Bytes(t, m) < Bytes(t, n))
  BY <1>1, TextSums
<1>3. ~(Bytes(t, m) > Bytes(t, n))
  <2>1. CASE m < n
    BY <1>2, <2>1
  <2>2. CASE m = n
    BY <1>2, <2>2
  <2> QED BY <1>1, <2>1, <2>2
<1>4. {Bytes(t, m), Bytes(t, n)} \cap Boundaries(t) = {Bytes(t, m), Bytes(t, n)}
  BY <1>1 DEF Boundaries
<1>5. CharsBefore(t, Bytes(t, m)) = m /\ CharsBefore(t, Bytes(t, n)) = n
  BY <1>1, PlaceOf
<1> QED BY <1>3, <1>4, <1>5 DEF Splice

\* An edit of the client has on the server the result it had with the client.
LEMMA EditsAgree ==
  ASSUME LspAssumption, NEW t \in Texts, NEW e \in WellFormed(t)
  PROVE  Changed(t, encoding, <<e.change>>) = e.result
<1>1. t \in Seq(Chars) /\ t # OutOfRange
  BY TextIsSequence
<1>2. /\ e \in Edits(t)
      /\ \/ e.change.start.line < e.change.end.line
         \/ e.change.start.line = e.change.end.line /\ e.change.start.character <= e.change.end.character
  BY DEF WellFormed
<1>3. PICK m \in ClientPlaces(t), n \in ClientPlaces(t), new \in {s \in Texts : Len(s) <= 1} :
         e = Edit(t, m, n, new)
  BY <1>2 DEF Edits
<1>4. m \in 0..Len(t) /\ n \in 0..Len(t)
  BY DEF ClientPlaces
<1> DEFINE a == ClientPosition(t, encoding, m)
           b == ClientPosition(t, encoding, n)
<1>5. e.change.whole = FALSE /\ e.change.start = a /\ e.change.end = b /\ e.change.text = new
  BY <1>3 DEF Edit, Partial
<1>6. m <= n
  <2>1. a.line < b.line \/ (a.line = b.line /\ a.character <= b.character)
    BY <1>2, <1>5
  <2> HIDE DEF a, b
  <2>2. a = ClientPosition(t, encoding, m) /\ b = ClientPosition(t, encoding, n)
    BY DEF a, b
  <2> QED BY <1>1, <1>4, <2>1, <2>2, PlacesInOrder
<1>7. FromLineAndCharacter(t, encoding, a) = Bytes(t, m) /\ FromLineAndCharacter(t, encoding, b) = Bytes(t, n)
  BY <1>1, <1>4, ClientIsUnderstood
<1> HIDE DEF a, b
<1>8. Converted(t, encoding, e.change) = [from |-> Bytes(t, m), to |-> Bytes(t, n), text |-> new]
  BY <1>5, <1>7 DEF Converted
<1>9. Splice(t, Bytes(t, m), Bytes(t, n), new) = e.result
  <2>1. m \in 0..n
    BY <1>4, <1>6
  <2> QED BY <1>1, <1>3, <1>4, <2>1, SpliceAtPlaces DEF Edit
<1> QED BY <1>1, <1>8, <1>9, OneChange

\* And so has a change of all of the text.
LEMMA WholeAgrees ==
  ASSUME LspAssumption, NEW t \in Texts, NEW new \in Texts
  PROVE  Changed(t, encoding, <<Whole(new)>>) = new
<1>1. t \in Seq(Chars) /\ t # OutOfRange /\ new \in Seq(Chars)
  BY TextIsSequence
<1>2. Len(t) \in Nat /\ DOMAIN t = 1..Len(t) /\ Len(t) \in 0..Len(t) /\ 0 \in 0..Len(t)
  BY <1>1
<1>3. Converted(t, encoding, Whole(new)) = [from |-> Bytes(t, 0), to |-> Bytes(t, Len(t)), text |-> new]
  <2>1. Bytes(t, 0) = 0
    BY <1>2, TextSums
  <2> QED BY <2>1 DEF Converted, Whole, ByteLen
<1>4. Splice(t, Bytes(t, 0), Bytes(t, Len(t)), new) = SubSeq(t, 1, 0) \o new \o SubSeq(t, Len(t) + 1, Len(t))
  BY <1>1, <1>2, SpliceAtPlaces
<1>5. SubSeq(t, 1, 0) = <<>> /\ SubSeq(t, Len(t) + 1, Len(t)) = <<>>
  BY <1>1, <1>2
<1>6. <<>> \o new \o <<>> = new
  BY <1>1
<1> QED BY <1>1, <1>3, <1>4, <1>5, <1>6, OneChange
-----------------------------------------------------------------------------
(***************************************************************************)
(* Queues of messages.                                                     *)
(***************************************************************************)
LEMMA OwnElements ==
  ASSUME NEW X, NEW u \in Seq(X)
  PROVE  u \in Seq(ToSet(u))
<1>1. Len(u) \in Nat /\ DOMAIN u = 1..Len(u) /\ u = [i \in 1..Len(u) |-> u[i]]
  OBVIOUS
<1>2. \A i \in 1..Len(u) : u[i] \in ToSet(u)
  BY <1>1 DEF ToSet
<1> QED BY <1>1, <1>2

\* u is s with m behind it.
IsPut(s, m, u) ==
  /\ u \in Seq(ToSet(u)) /\ Len(s) \in Nat /\ Len(u) = Len(s) + 1 /\ u # <<>>
  /\ DOMAIN s = 1..Len(s) /\ DOMAIN u = 1..(Len(s) + 1)
  /\ u[Len(s) + 1] = m /\ \A i \in 1..Len(s) : u[i] = s[i]

LEMMA Put ==
  ASSUME NEW s, s \in Seq(ToSet(s)), NEW m
  PROVE  IsPut(s, m, Append(s, m))
<1> DEFINE X == ToSet(s) \cup {m}
           u == Append(s, m)
<1>1. s \in Seq(X) /\ m \in X
  BY DEF ToSet
<1> HIDE DEF X
<1>2. /\ u \in Seq(X) /\ Len(s) \in Nat /\ Len(u) = Len(s) + 1 /\ u # <<>>
      /\ DOMAIN s = 1..Len(s) /\ DOMAIN u = 1..(Len(s) + 1)
      /\ u[Len(s) + 1] = m /\ \A i \in 1..Len(s) : u[i] = s[i]
  BY <1>1
<1> HIDE DEF u
<1>3. u \in Seq(ToSet(u))
  BY <1>2, OwnElements
<1>4. IsPut(s, m, u)
  BY <1>2, <1>3 DEF IsPut
<1> QED BY <1>4 DEF u

LEMMA Took ==
  ASSUME NEW s, s \in Seq(ToSet(s)), s # <<>>, NEW u, u = Tail(s)
  PROVE  /\ u \in Seq(ToSet(u)) /\ Len(s) \in Nat \ {0} /\ Len(u) = Len(s) - 1
         /\ DOMAIN s = 1..Len(s) /\ DOMAIN u = 1..(Len(s) - 1) /\ (Len(s) = 1 => u = <<>>)
         /\ Head(s) = s[1] /\ \A i \in 1..(Len(s) - 1) : u[i] = s[i + 1]
<1>1. /\ u \in Seq(ToSet(s)) /\ Len(s) \in Nat \ {0} /\ Len(u) = Len(s) - 1
      /\ DOMAIN s = 1..Len(s) /\ DOMAIN u = 1..(Len(s) - 1) /\ (Len(s) = 1 => u = <<>>)
      /\ Head(s) = s[1] /\ \A i \in 1..(Len(s) - 1) : u[i] = s[i + 1]
  OBVIOUS
<1>2. u \in Seq(ToSet(u))
  BY <1>1, OwnElements
<1> QED BY <1>1, <1>2
-----------------------------------------------------------------------------
(***************************************************************************)
(* Messages on their way.                                                  *)
(***************************************************************************)
QueueInv == LspTypeOK /\ fromEditor \in Seq(ToSet(fromEditor)) /\ ~crashed /\ RequestsPending

\* The client sends m.
Sends(m) ==
  /\ Len(fromEditor) < MaxInFlight /\ fromEditor' = Append(fromEditor, m)
  /\ \/ m.id = Notification /\ sent' = sent
     \/ m.id = sent + 1 /\ sent' = sent + 1 /\ sent < MaxRequests
  /\ UNCHANGED lspServerVars
  /\ buffer' \in Texts \cup {Closed}

\* The server takes the first message and answers it or not.
Takes ==
  /\ fromEditor # <<>> /\ fromEditor' = Tail(fromEditor)
  /\ UNCHANGED <<sent, offered, buffer, clientState>>
  /\ UNCHANGED replies \/ Answer(Id)
  /\ ~crashed'

\* A new request has a new number.
LEMMA SendKeepsQueue ==
  ASSUME LspAssumption, QueueInv, NEW m, Sends(m)
  PROVE  QueueInv'
<1> DEFINE n == Len(fromEditor)
<1>1. /\ fromEditor' \in Seq(ToSet(fromEditor')) /\ n \in Nat /\ Len(fromEditor') = n + 1
      /\ DOMAIN fromEditor = 1..n /\ DOMAIN fromEditor' = 1..(n + 1)
      /\ fromEditor'[n + 1] = m /\ \A i \in 1..n : fromEditor'[i] = fromEditor[i]
  <2>1. fromEditor \in Seq(ToSet(fromEditor)) /\ fromEditor' = Append(fromEditor, m)
    BY DEF QueueInv, Sends
  <2>2. IsPut(fromEditor, m, fromEditor')
    BY <2>1, Put
  <2> QED BY <2>2 DEF IsPut
<1>2. MaxInFlight \in Nat /\ MaxRequests \in Nat
  BY DEF LspAssumption
<1> HIDE DEF n
<1>3. LspTypeOK'
  <2>1. n < MaxInFlight
    BY DEF Sends, n
  <2> QED BY <1>1, <1>2, <2>1 DEF QueueInv, LspTypeOK, Sends, lspServerVars
<1>4. RequestsPending'
  <2>1. sent \in 0..MaxRequests /\ sent' \in sent..MaxRequests /\ replies' = replies
    BY <1>2 DEF QueueInv, RequestsPending, Sends, lspServerVars
  <2>2. \A i \in 1..n : fromEditor[i].id \in 0..sent
    BY <1>1 DEF QueueInv, RequestsPending
  <2>3. m.id = 0 \/ (m.id = sent' /\ sent' = sent + 1 /\ replies[m.id] = 0)
    <3>1. \A id \in (sent + 1)..MaxRequests : replies[id] = 0
      BY DEF QueueInv, RequestsPending
    <3>2. m.id = 0 \/ (m.id = sent + 1 /\ sent' = sent + 1 /\ sent < MaxRequests)
      BY DEF Sends, Notification
    <3> QED BY <1>2, <2>1, <3>1, <3>2
  <2>4. ASSUME NEW i \in 1..(n + 1)
        PROVE  /\ fromEditor'[i].id \in 0..sent'
               /\ fromEditor'[i].id # 0 =>
                    /\ replies'[fromEditor'[i].id] = 0
                    /\ \A j \in 1..(n + 1) : fromEditor'[j].id = fromEditor'[i].id => j = i
    <3>1. CASE i \in 1..n
      <4>1. fromEditor'[i] = fromEditor[i] /\ fromEditor[i].id \in 0..sent
        BY <1>1, <2>2, <3>1
      <4>2. fromEditor[i].id # 0 =>
              /\ replies[fromEditor[i].id] = 0
              /\ \A j \in 1..n : fromEditor[j].id = fromEditor[i].id => j = i
        BY <1>1, <3>1 DEF QueueInv, RequestsPending, Notification
      <4>3. fromEditor[i].id # 0 => m.id # fromEditor[i].id
        BY <2>1, <2>3, <4>1
      <4>4. \A j \in 1..(n + 1) : j \in 1..n \/ j = n + 1
        BY <1>1
      <4> QED BY <1>1, <2>1, <4>1, <4>2, <4>3, <4>4
    <3>2. CASE i = n + 1
      <4>1. fromEditor'[i] = m
        BY <1>1, <3>2
      <4>2. m.id \in 0..sent' /\ (m.id # 0 => replies'[m.id] = 0)
        BY <2>1, <2>3
      <4>3. ASSUME m.id # 0, NEW j \in 1..n PROVE fromEditor'[j].id # m.id
        BY <1>1, <2>1, <2>2, <2>3, <4>3
      <4>4. \A j \in 1..(n + 1) : j \in 1..n \/ j = i
        BY <1>1, <3>2
      <4> QED BY <4>1, <4>2, <4>3, <4>4
    <3> QED BY <1>1, <3>1, <3>2
  <2>5. \A id \in (sent' + 1)..MaxRequests : replies'[id] = 0
    <3>1. \A id \in (sent + 1)..MaxRequests : replies[id] = 0
      BY DEF QueueInv, RequestsPending
    <3>2. CASE sent' = sent
      BY <2>1, <3>1, <3>2
    <3>3. CASE sent' = sent + 1
      <4>1. \A id \in (sent + 1 + 1)..MaxRequests : replies[id] = 0
        BY <1>2, <2>1, <3>1
      <4> QED BY <2>1, <3>3, <4>1
    <3> QED BY <3>2, <3>3 DEF Sends
  <2>6. sent' \in 0..MaxRequests
    BY <2>1
  <2> QED BY <1>1, <2>4, <2>5, <2>6 DEF RequestsPending, Notification
<1> QED BY <1>1, <1>3, <1>4 DEF QueueInv, Sends, lspServerVars

\* An answered request was on its way, and is no longer.
LEMMA TakeKeepsQueue ==
  ASSUME LspAssumption, QueueInv, Takes, info' \in Texts \cup {Closed}, service' \in {"nil", "live", "closed"}
  PROVE  QueueInv'
<1> DEFINE n == Len(fromEditor)
           h == fromEditor[1]
<1>1. /\ fromEditor' \in Seq(ToSet(fromEditor')) /\ n \in Nat \ {0} /\ Len(fromEditor') = n - 1
      /\ DOMAIN fromEditor = 1..n /\ DOMAIN fromEditor' = 1..(n - 1)
      /\ Head(fromEditor) = h /\ \A i \in 1..(n - 1) : fromEditor'[i] = fromEditor[i + 1]
  BY Took DEF QueueInv, Takes
<1>2. MaxInFlight \in Nat /\ MaxRequests \in Nat
  BY DEF LspAssumption
<1> HIDE DEF n
<1>3. sent' = sent /\ sent \in 0..MaxRequests
  BY DEF QueueInv, RequestsPending, Takes
<1>4. h.id \in 0..sent /\ (h.id # 0 => replies[h.id] = 0 /\ \A j \in 1..n : fromEditor[j].id = h.id => j = 1)
  <2>1. 1 \in 1..n
    BY <1>1
  <2> QED BY <1>1, <2>1 DEF QueueInv, RequestsPending, Notification
<1>5. replies \in [1..MaxRequests -> 0..1]
  BY DEF QueueInv, LspTypeOK
<1>6. /\ replies' \in [1..MaxRequests -> 0..1]
      /\ \A id \in 1..MaxRequests : id # h.id => replies'[id] = replies[id]
  <2>1. replies' = replies \/ (h.id # 0 /\ replies' = [replies EXCEPT ![h.id] = @ + 1])
    BY <1>1 DEF Takes, Answer, Id, Notification
  <2>2. CASE replies' = replies
    BY <1>5, <2>2
  <2>3. CASE h.id # 0 /\ replies' = [replies EXCEPT ![h.id] = @ + 1]
    <3>1. replies[h.id] = 0 /\ h.id \in 1..MaxRequests
      BY <1>2, <1>3, <1>4, <2>3
    <3> HIDE DEF h
    <3>2. replies' = [replies EXCEPT ![h.id] = 1]
      BY <2>3, <3>1
    <3> QED BY <1>5, <3>1, <3>2
  <2> QED BY <2>1, <2>2, <2>3
<1>7. RequestsPending'
  <2>1. ASSUME NEW i \in 1..(n - 1)
        PROVE  /\ fromEditor'[i].id \in 0..sent'
               /\ fromEditor'[i].id # 0 =>
                    /\ replies'[fromEditor'[i].id] = 0
                    /\ \A j \in 1..(n - 1) : fromEditor'[j].id = fromEditor'[i].id => j = i
    <3>1. i + 1 \in 1..n /\ i + 1 # 1 /\ \A j \in 1..(n - 1) : j + 1 \in 1..n /\ (j + 1 = i + 1 => j = i)
      BY <1>1
    <3>2. /\ fromEditor[i + 1].id \in 0..sent
          /\ fromEditor[i + 1].id # 0 =>
               /\ replies[fromEditor[i + 1].id] = 0
               /\ \A j \in 1..n : fromEditor[j].id = fromEditor[i + 1].id => j = i + 1
      BY <1>1, <3>1 DEF QueueInv, RequestsPending, Notification
    <3>3. fromEditor[i + 1].id # 0 => fromEditor[i + 1].id # h.id
      BY <1>4, <3>1
    <3>4. fromEditor[i + 1].id # 0 => fromEditor[i + 1].id \in 1..MaxRequests
      BY <1>2, <1>3, <3>2
    <3> HIDE DEF h
    <3> QED BY <1>1, <1>3, <1>6, <3>1, <3>2, <3>3, <3>4
  <2>2. \A id \in (sent' + 1)..MaxRequests : replies'[id] = 0
    <3> TAKE id \in (sent' + 1)..MaxRequests
    <3>1. id \in (sent + 1)..MaxRequests /\ id # h.id /\ id \in 1..MaxRequests
      BY <1>2, <1>3, <1>4
    <3> QED BY <1>6, <3>1 DEF QueueInv, RequestsPending
  <2> QED BY <1>1, <1>3, <2>1, <2>2 DEF RequestsPending, Notification
<1>8. LspTypeOK'
  <2>1. n <= MaxInFlight
    BY DEF QueueInv, LspTypeOK, n
  <2>2. n - 1 <= MaxInFlight
    BY <1>1, <1>2, <2>1
  <2> HIDE DEF h
  <2> QED BY <1>1, <1>6, <2>2 DEF QueueInv, LspTypeOK, Takes
<1> QED BY <1>1, <1>7, <1>8 DEF QueueInv, Takes
-----------------------------------------------------------------------------
(***************************************************************************)
(* Once the server has started.                                            *)
(***************************************************************************)
\* A message that leads from the client's last text to its next may be sent.
LEMMA StartedSend ==
  ASSUME LspAssumption, QueueInv, Started, NEW m, Sends(m), m.method \notin {"initialize", "initialized"},
         Leads(encoding, buffer, m, buffer'), clientState' \in {"ready", "shut", "gone"}
  PROVE  LspInv'
<1> DEFINE n == Len(fromEditor)
           T == Texts \cup {Closed}
<1>1. fromEditor \in Seq(ToSet(fromEditor)) /\ fromEditor' = Append(fromEditor, m)
  BY DEF QueueInv, Sends
<1>2. IsPut(fromEditor, m, fromEditor')
  BY <1>1, Put
<1>3. /\ n \in Nat /\ Len(fromEditor') = n + 1 /\ fromEditor' # <<>> /\ (fromEditor # <<>> => n # 0)
      /\ DOMAIN fromEditor = 1..n /\ DOMAIN fromEditor' = 1..(n + 1)
      /\ fromEditor'[n + 1] = m /\ \A i \in 1..n : fromEditor'[i] = fromEditor[i]
  BY <1>1, <1>2 DEF IsPut
<1>4. UNCHANGED <<initializeParams, service, encoding, info>> /\ buffer' \in T
  BY DEF Sends, lspServerVars
<1> HIDE DEF n, T
<1>5. \A i \in 1..(n + 1) : i \in 1..n \/ i = n + 1
  BY <1>3
<1>6. ServiceComesFirst'
  <2>1. service = "nil" => n # 0
    BY <1>3 DEF Started, ServiceComesFirst
  <2>2. ASSUME NEW i \in 1..(n + 1)
        PROVE  /\ fromEditor'[i].method # "initialize"
               /\ fromEditor'[i].method = "initialized" <=> service = "nil" /\ i = 1
    <3>1. CASE i \in 1..n
      BY <1>3, <3>1 DEF Started, ServiceComesFirst
    <3>2. CASE i = n + 1
      <4>1. fromEditor'[i] = m /\ ~(service = "nil" /\ i = 1)
        BY <1>3, <2>1, <3>2
      <4> QED BY <4>1
    <3> QED BY <1>5, <3>1, <3>2
  <2> QED BY <1>3, <1>4, <2>2 DEF ServiceComesFirst
<1>7. TextsOnTheWay'
  <2>1. PICK texts \in [0..n -> T] :
          texts[0] = info /\ texts[n] = buffer /\ \A i \in 1..n : Leads(encoding, texts[i-1], fromEditor[i], texts[i])
    BY <1>3 DEF Started, TextsOnTheWay, n, T
  <2> DEFINE new == [i \in 0..(n + 1) |-> IF i = n + 1 THEN buffer' ELSE texts[i]]
  <2>2. new \in [0..(n + 1) -> T] /\ new[0] = info /\ new[n + 1] = buffer'
    BY <1>3, <1>4, <2>1
  <2>3. ASSUME NEW i \in 1..(n + 1) PROVE Leads(encoding, new[i-1], fromEditor'[i], new[i])
    <3>1. CASE i \in 1..n
      <4>1. new[i-1] = texts[i-1] /\ new[i] = texts[i] /\ fromEditor'[i] = fromEditor[i]
        BY <1>3, <3>1
      <4> QED BY <2>1, <3>1, <4>1
    <3>2. CASE i = n + 1
      <4>1. new[n] = buffer /\ (n + 1) - 1 = n
        BY <1>3, <2>1
      <4> HIDE DEF new
      <4> QED BY <1>3, <2>2, <3>2, <4>1
    <3> QED BY <1>5, <3>1, <3>2
  <2> HIDE DEF new
  <2> QED BY <1>3, <1>4, <2>2, <2>3 DEF TextsOnTheWay, T
<1>8. QueueInv'
  BY SendKeepsQueue
<1> QED BY <1>4, <1>6, <1>7, <1>8 DEF LspInv, QueueInv, Started

\* The first message leads to a text; a handler that makes that text of the server's keeps the rest
\* of the way.
LEMMA StartedTake ==
  ASSUME LspAssumption, QueueInv, Started, fromEditor # <<>>
  PROVE  \E next \in Texts \cup {Closed} :
           /\ Leads(encoding, info, Head(fromEditor), next)
           /\ Takes /\ info' = next /\ service' \in {"live", "closed"} /\ UNCHANGED <<initializeParams, encoding>>
                => LspInv'
<1> DEFINE n == Len(fromEditor)
           T == Texts \cup {Closed}
           u == Tail(fromEditor)
<1>1. fromEditor \in Seq(ToSet(fromEditor))
  BY DEF QueueInv
<1>2. /\ n \in Nat \ {0} /\ Len(u) = n - 1 /\ DOMAIN fromEditor = 1..n /\ DOMAIN u = 1..(n - 1)
      /\ Head(fromEditor) = fromEditor[1] /\ \A i \in 1..(n - 1) : u[i] = fromEditor[i + 1]
  BY <1>1, Took
<1> HIDE DEF n, T, u
<1>3. PICK texts \in [0..n -> T] :
        texts[0] = info /\ texts[n] = buffer /\ \A i \in 1..n : Leads(encoding, texts[i-1], fromEditor[i], texts[i])
  BY <1>2 DEF Started, TextsOnTheWay, n, T
<1>4. Leads(encoding, info, Head(fromEditor), texts[1]) /\ texts[1] \in T
  <2>1. 1 \in 1..n /\ 1 - 1 = 0 /\ 1 \in 0..n
    BY <1>2
  <2> QED BY <1>2, <1>3, <2>1
<1>5. ASSUME Takes, info' = texts[1], service' \in {"live", "closed"}, UNCHANGED <<initializeParams, encoding>>
      PROVE  LspInv'
  <2>1. fromEditor' = u /\ UNCHANGED <<buffer, clientState>>
    BY <1>5 DEF Takes, u
  <2>2. \A i \in 1..(n - 1) : i + 1 \in 1..n /\ i + 1 # 1
    BY <1>2
  <2>3. ServiceComesFirst'
    <3>1. \A i \in 1..(n - 1) : u[i].method # "initialize" /\ u[i].method # "initialized"
      BY <1>2, <2>2 DEF Started, ServiceComesFirst
    <3>2. service' # "nil"
      BY <1>5
    <3> QED BY <1>2, <2>1, <3>1, <3>2 DEF ServiceComesFirst
  <2>4. TextsOnTheWay'
    <3> DEFINE new == [i \in 0..(n - 1) |-> texts[i + 1]]
    <3>1. new \in [0..(n - 1) -> T] /\ new[0] = info' /\ new[n - 1] = buffer
      BY <1>2, <1>3, <1>5
    <3>2. ASSUME NEW i \in 1..(n - 1) PROVE Leads(encoding, new[i-1], u[i], new[i])
      <4>1. new[i-1] = texts[i] /\ new[i] = texts[i+1] /\ u[i] = fromEditor[i + 1] /\ (i + 1) - 1 = i
        BY <1>2
      <4>2. Leads(encoding, texts[(i + 1) - 1], fromEditor[i + 1], texts[i + 1])
        BY <1>3, <2>2
      <4> QED BY <4>1, <4>2
    <3> HIDE DEF new
    <3> QED BY <1>2, <1>5, <2>1, <3>1, <3>2 DEF TextsOnTheWay, T
  <2>5. QueueInv'
    <3>1. info' \in Texts \cup {Closed} /\ service' \in {"nil", "live", "closed"}
      BY <1>4, <1>5 DEF T
    <3> QED BY <1>5, <3>1, TakeKeepsQueue
  <2> QED BY <1>5, <2>1, <2>3, <2>4, <2>5 DEF LspInv, QueueInv, Started
<1> QED BY <1>4, <1>5 DEF T

\* The first message is the one that makes the service, or there is a service.
LEMMA FirstMessage ==
  ASSUME QueueInv, Started, fromEditor # <<>>
  PROVE  /\ initializeParams /\ Head(fromEditor).method # "initialize"
         /\ Head(fromEditor).method = "initialized" <=> service = "nil"
<1>1. fromEditor \in Seq(ToSet(fromEditor))
  BY DEF QueueInv
<1>2. 1 \in DOMAIN fromEditor /\ Head(fromEditor) = fromEditor[1]
  BY <1>1
<1> QED BY <1>2 DEF Started, ServiceComesFirst

\* No handler of a started server fails, and each makes the text that its message leads to.
LEMMA ServerStarted ==
  ASSUME LspAssumption, QueueInv, Started, Server
  PROVE  LspInv'
<1>1. fromEditor # <<>> /\ ~crashed /\ fromEditor' = Tail(fromEditor) /\ UNCHANGED <<sent, offered, buffer, clientState>>
  BY DEF Server, RefuseUninitialized, HandleInitialize, HandleInitialized, HandleDidOpen, HandleDidChange,
         HandleDidSave, HandleDidClose, HandleHover, HandleUnknown, HandleShutdown, HandleExit, WithService, ReadMessage
<1> DEFINE h == Head(fromEditor)
<1>2. initializeParams /\ h.method # "initialize" /\ (h.method = "initialized" <=> service = "nil")
  BY <1>1, FirstMessage
<1>3. PICK next \in Texts \cup {Closed} :
        /\ Leads(encoding, info, h, next)
        /\ Takes /\ info' = next /\ service' \in {"live", "closed"} /\ UNCHANGED <<initializeParams, encoding>>
             => LspInv'
  BY <1>1, StartedTake
<1>4. next # OutOfRange
  <2>1. Closed # OutOfRange
    BY DEF Closed, OutOfRange
  <2> QED BY <2>1, TextIsSequence
<1>5. service \in {"nil", "live", "closed"}
  BY DEF QueueInv, LspTypeOK
<1> SUFFICES /\ UNCHANGED replies \/ Answer(Id)
             /\ ~crashed' /\ info' = next /\ service' \in {"live", "closed"} /\ UNCHANGED <<initializeParams, encoding>>
  BY <1>1, <1>3 DEF Takes
<1>6. CASE RefuseUninitialized
  BY <1>2, <1>6 DEF RefuseUninitialized
<1>7. CASE HandleInitialize
  BY <1>2, <1>7 DEF HandleInitialize, ReadMessage
<1>8. CASE HandleInitialized
  BY <1>1, <1>2, <1>3, <1>8 DEF HandleInitialized, ReadMessage, Leads
<1>9. CASE HandleDidOpen
  BY <1>1, <1>2, <1>3, <1>5, <1>9 DEF HandleDidOpen, WithService, ReadMessage, Leads, Body
<1>10. CASE HandleDidChange
  BY <1>1, <1>2, <1>3, <1>4, <1>5, <1>10 DEF HandleDidChange, WithService, ReadMessage, Leads, Body
<1>11. CASE HandleDidSave
  BY <1>1, <1>2, <1>3, <1>5, <1>11 DEF HandleDidSave, WithService, ReadMessage, Leads, Body
<1>12. CASE HandleDidClose
  BY <1>1, <1>2, <1>3, <1>5, <1>12 DEF HandleDidClose, WithService, ReadMessage, Leads
<1>13. CASE HandleHover
  BY <1>1, <1>2, <1>3, <1>5, <1>13 DEF HandleHover, WithService, ReadMessage, Leads, Body
<1>14. CASE HandleUnknown
  BY <1>1, <1>2, <1>3, <1>5, <1>14 DEF HandleUnknown, ReadMessage, Leads
<1>15. CASE HandleShutdown
  BY <1>1, <1>2, <1>3, <1>5, <1>15 DEF HandleShutdown, WithService, ReadMessage, Leads
<1>16. CASE HandleExit
  BY <1>1, <1>2, <1>3, <1>5, <1>16 DEF HandleExit, ReadMessage, Leads
<1> QED BY <1>6, <1>7, <1>8, <1>9, <1>10, <1>11, <1>12, <1>13, <1>14, <1>15, <1>16 DEF Server

\* A place the client points at is on a line of the text.
LEMMA PlaceHasLine ==
  ASSUME LspAssumption, NEW t \in Texts, NEW enc, NEW n \in ClientPlaces(t)
  PROVE  FromLineAndCharacter(t, enc, ClientPosition(t, enc, n)) # BadLine
<1>1. t \in Seq(Chars) /\ n \in 0..Len(t)
  BY TextIsSequence DEF ClientPlaces
<1>2. Len(t) \in Nat /\ DOMAIN t = 1..Len(t)
  BY <1>1
<1>3. Bytes(t, n) \in Nat
  BY <1>1, <1>2, TextSums
<1>4. Bytes(t, n) # BadLine
  BY <1>3 DEF BadLine
<1> QED BY <1>1, <1>4, ClientIsUnderstood

\* Whatever the client sends leads from its text to its next.
LEMMA EditorStarted ==
  ASSUME LspAssumption, MaxBatch <= 1, QueueInv, Started, Editor
  PROVE  LspInv'
<1>1. clientState \notin {"start", "wait"} /\ buffer \in Texts \cup {Closed} /\ sent \in Nat /\ MaxBatch \in Nat
  BY DEF Started, QueueInv, LspTypeOK, RequestsPending, LspAssumption
<1>2. ASSUME NEW method, NEW body, Notify(method, body), buffer' \in Texts \cup {Closed}
      PROVE  Sends(LspMessage(method, Notification, body))
  BY <1>2 DEF Notify, Sends, LspMessage
<1>3. ASSUME NEW method, NEW body, Request(method, body)
      PROVE  Sends(LspMessage(method, sent + 1, body)) /\ buffer' = buffer
  BY <1>1, <1>3 DEF Request, Sends, LspMessage
<1>4. \A t \in Texts : t # Closed
  BY TextIsSequence
<1>5. CASE SendOpen
  <2> DEFINE m == LspMessage("didOpen", Notification, buffer')
  <2>1. Notify("didOpen", buffer') /\ buffer = Closed /\ buffer' \in Texts /\ clientState = "ready" /\ clientState' = clientState
    BY <1>5 DEF SendOpen
  <2>2. Sends(m)
    BY <2>1, <1>2
  <2>3. m.method = "didOpen" /\ m.body = buffer'
    BY DEF LspMessage
  <2> HIDE DEF m
  <2>4. Leads(encoding, buffer, m, buffer')
    BY <2>1, <2>3 DEF Leads
  <2> QED BY <2>1, <2>2, <2>3, <2>4, StartedSend
<1>6. CASE SendChange
  <2>1. clientState = "ready" /\ clientState' = "ready" /\ buffer # Closed /\ buffer \in Texts
    BY <1>1, <1>6 DEF SendChange
  <2>2. \E c : Notify("didChange", <<c>>) /\ buffer' \in Texts /\ Changed(buffer, encoding, <<c>>) = buffer'
    <3>1. ASSUME NEW e \in WellFormed(buffer), e.result \in Texts, buffer' = e.result, Notify("didChange", <<e.change>>)
          PROVE  \E c : Notify("didChange", <<c>>) /\ buffer' \in Texts /\ Changed(buffer, encoding, <<c>>) = buffer'
      BY <2>1, <3>1, EditsAgree
    <3>2. ASSUME NEW t \in Texts, buffer' = t, Notify("didChange", <<Whole(t)>>)
          PROVE  \E c : Notify("didChange", <<c>>) /\ buffer' \in Texts /\ Changed(buffer, encoding, <<c>>) = buffer'
      BY <2>1, <3>2, WholeAgrees
    <3>3. ~(MaxBatch > 1)
      BY <1>1
    <3> QED BY <1>6, <3>1, <3>2, <3>3 DEF SendChange
  <2>3. PICK c : Notify("didChange", <<c>>) /\ buffer' \in Texts /\ Changed(buffer, encoding, <<c>>) = buffer'
    BY <2>2
  <2> DEFINE m == LspMessage("didChange", Notification, <<c>>)
  <2>4. Sends(m)
    BY <2>3, <1>2
  <2>5. m.method = "didChange" /\ m.body = <<c>>
    BY DEF LspMessage
  <2> HIDE DEF m
  <2>6. Leads(encoding, buffer, m, buffer')
    BY <2>1, <2>3, <2>5 DEF Leads
  <2> QED BY <2>1, <2>4, <2>5, <2>6, StartedSend
<1>7. CASE SendSave
  <2> DEFINE m == LspMessage("didSave", Notification, buffer)
  <2>1. Notify("didSave", buffer) /\ buffer # Closed /\ buffer' = buffer /\ clientState = "ready" /\ clientState' = clientState
    BY <1>7 DEF SendSave
  <2>2. Sends(m)
    BY <1>1, <2>1, <1>2
  <2>3. m.method = "didSave" /\ m.body = buffer
    BY DEF LspMessage
  <2> HIDE DEF m
  <2>4. Leads(encoding, buffer, m, buffer')
    BY <2>1, <2>3 DEF Leads
  <2> QED BY <2>1, <2>2, <2>3, <2>4, StartedSend
<1>8. CASE SendClose
  <2> DEFINE m == LspMessage("didClose", Notification, <<>>)
  <2>1. Notify("didClose", <<>>) /\ buffer # Closed /\ buffer' = Closed /\ clientState = "ready" /\ clientState' = clientState
    BY <1>8 DEF SendClose
  <2>2. Sends(m)
    BY <2>1, <1>2
  <2>3. m.method = "didClose"
    BY DEF LspMessage
  <2> HIDE DEF m
  <2>4. Leads(encoding, buffer, m, buffer')
    BY <2>1, <2>3 DEF Leads
  <2> QED BY <2>1, <2>2, <2>3, <2>4, StartedSend
<1>9. ASSUME NEW method \in {"hover", "completion", "shutdown"}, NEW body, Request(method, body),
             method = "hover" => buffer # Closed /\ FromLineAndCharacter(buffer, encoding, body) # BadLine,
             clientState' \in {"ready", "shut", "gone"}
      PROVE  LspInv'
  <2> DEFINE m == LspMessage(method, sent + 1, body)
  <2>1. Sends(m) /\ buffer' = buffer
    BY <1>3, <1>9
  <2>2. m.method = method /\ m.body = body
    BY DEF LspMessage
  <2> HIDE DEF m
  <2>3. Leads(encoding, buffer, m, buffer') /\ m.method \notin {"initialize", "initialized"}
    BY <1>9, <2>1, <2>2 DEF Leads
  <2> QED BY <1>9, <2>1, <2>3, StartedSend
<1>10. ASSUME NEW method \in {"cancelRequest", "exit"}, Notify(method, <<>>), buffer' = buffer,
              clientState' \in {"ready", "shut", "gone"}
       PROVE  LspInv'
  <2> DEFINE m == LspMessage(method, Notification, <<>>)
  <2>1. Sends(m)
    BY <1>1, <1>2, <1>10
  <2>2. m.method = method
    BY DEF LspMessage
  <2> HIDE DEF m
  <2>3. Leads(encoding, buffer, m, buffer') /\ m.method \notin {"initialize", "initialized"}
    BY <1>10, <2>1, <2>2 DEF Leads
  <2> QED BY <1>10, <2>1, <2>3, StartedSend
<1>11. CASE SendRequest
  <2>1. clientState = "ready" /\ clientState' = "ready"
    BY <1>11 DEF SendRequest
  <2>2. ASSUME buffer # Closed, NEW n \in ClientPlaces(buffer), Request("hover", ClientPosition(buffer, encoding, n))
        PROVE  LspInv'
    <3>1. FromLineAndCharacter(buffer, encoding, ClientPosition(buffer, encoding, n)) # BadLine
      BY <1>1, <2>2, PlaceHasLine
    <3> QED BY <1>9, <2>1, <2>2, <3>1
  <2> QED BY <1>9, <1>10, <1>11, <2>1, <2>2 DEF SendRequest
<1>12. CASE SendShutdown
  BY <1>9, <1>12 DEF SendShutdown
<1>13. CASE SendExit
  BY <1>10, <1>13 DEF SendExit
<1>14. ~SendEarly /\ ~SendInitialize /\ ~SendInitialized
  BY <1>1 DEF SendEarly, SendInitialize, SendInitialized
<1> QED BY <1>5, <1>6, <1>7, <1>8, <1>11, <1>12, <1>13, <1>14 DEF Editor

-----------------------------------------------------------------------------
(***************************************************************************)
(* Until it has.                                                           *)
(***************************************************************************)
\* The client waits for the answer to initialize, which is the last thing it sent.
LEMMA EditorStarting ==
  ASSUME LspAssumption, QueueInv, Starting, Editor
  PROVE  LspInv'
<1> DEFINE n == Len(fromEditor)
<1>1. buffer = Closed /\ info = Closed /\ service = "nil" /\ clientState \in {"start", "wait"} /\ sent \in Nat
  BY DEF Starting, QueueInv, RequestsPending
<1>2. fromEditor \in Seq(ToSet(fromEditor))
  BY DEF QueueInv
<1>3. n \in Nat /\ DOMAIN fromEditor = 1..n /\ (fromEditor # <<>> => n # 0)
  BY <1>2
<1>4. ASSUME NEW m, fromEditor' = Append(fromEditor, m)
      PROVE  /\ Len(fromEditor') = n + 1 /\ fromEditor' # <<>> /\ DOMAIN fromEditor' = 1..(n + 1)
             /\ fromEditor'[n + 1] = m /\ \A i \in 1..n : fromEditor'[i] = fromEditor[i]
  <2>1. IsPut(fromEditor, m, fromEditor')
    BY <1>2, <1>4, Put
  <2> QED BY <2>1 DEF IsPut
<1> HIDE DEF n
<1>5. ASSUME NEW method, Request(method, <<>>)
      PROVE  /\ Sends(LspMessage(method, sent + 1, <<>>)) /\ UNCHANGED <<buffer, info, service, initializeParams, crashed>>
             /\ sent' = sent + 1 /\ fromEditor' = Append(fromEditor, LspMessage(method, sent + 1, <<>>))
  BY <1>1, <1>5 DEF Request, Sends, LspMessage, lspServerVars
<1>6. \A i \in 1..(n + 1) : i \in 1..n \/ i = n + 1
  BY <1>3
<1>7. CASE SendEarly
  <2> DEFINE m == LspMessage("completion", sent + 1, <<>>)
  <2>1. clientState = "start" /\ clientState' = "start" /\ Request("completion", <<>>)
    BY <1>7 DEF SendEarly
  <2>2. Sends(m) /\ UNCHANGED <<buffer, info, service, initializeParams>> /\ fromEditor' = Append(fromEditor, m)
    BY <1>5, <2>1
  <2>3. m.method = "completion"
    BY DEF LspMessage
  <2> HIDE DEF m
  <2>4. ~initializeParams /\ \A i \in 1..n : fromEditor[i].method = "completion"
    BY <1>3, <2>1 DEF Starting
  <2>5. \A i \in 1..(n + 1) : fromEditor'[i].method = "completion"
    BY <1>4, <1>6, <2>2, <2>3, <2>4
  <2>6. Starting'
    BY <1>1, <1>4, <2>1, <2>2, <2>4, <2>5 DEF Starting
  <2> QED BY <2>2, <2>6, SendKeepsQueue DEF LspInv, QueueInv
<1>8. CASE SendInitialize
  <2> DEFINE m == LspMessage("initialize", sent + 1, <<>>)
  <2>1. clientState = "start" /\ clientState' = "wait" /\ Request("initialize", <<>>)
    BY <1>8 DEF SendInitialize
  <2>2. /\ Sends(m) /\ UNCHANGED <<buffer, info, service, initializeParams>> /\ fromEditor' = Append(fromEditor, m)
        /\ sent' = sent + 1
    BY <1>5, <2>1
  <2>3. m.method = "initialize" /\ m.id = sent + 1
    BY DEF LspMessage
  <2> HIDE DEF m
  <2>4. ~initializeParams /\ \A i \in 1..n : fromEditor[i].method = "completion"
    BY <1>3, <2>1 DEF Starting
  <2>5. /\ Len(fromEditor') = n + 1 /\ fromEditor' # <<>> /\ DOMAIN fromEditor' = 1..(n + 1)
        /\ fromEditor'[n + 1] = m /\ \A i \in 1..n : fromEditor'[i] = fromEditor[i]
    BY <1>4, <2>2
  <2>6. ASSUME NEW i \in 1..(n + 1)
        PROVE  IF i = n + 1 THEN fromEditor'[i].method = "initialize" /\ fromEditor'[i].id = sent'
               ELSE fromEditor'[i].method = "completion"
    <3>1. CASE i = n + 1
      BY <2>2, <2>3, <2>5, <3>1
    <3>2. CASE i \in 1..n
      BY <1>3, <2>4, <2>5, <3>2
    <3> QED BY <1>6, <3>1, <3>2
  <2>7. sent' > 0
    BY <1>1, <2>2
  <2>8. Starting'
    BY <1>1, <2>1, <2>2, <2>4, <2>5, <2>6, <2>7 DEF Starting
  <2> QED BY <2>2, <2>8, SendKeepsQueue DEF LspInv, QueueInv
<1>9. CASE SendInitialized
  <2> DEFINE m == LspMessage("initialized", Notification, <<>>)
  <2>1. clientState = "wait" /\ replies[sent] > 0 /\ clientState' = "ready" /\ Notify("initialized", <<>>) /\ buffer' = buffer
    BY <1>9 DEF SendInitialized
  <2>2. initializeParams /\ fromEditor = <<>>
    <3> SUFFICES ASSUME fromEditor # <<>>, sent > 0, fromEditor[n].id = sent PROVE FALSE
      BY <1>3, <2>1 DEF Starting, n
    <3>1. n \in 1..n
      BY <1>3
    <3>2. replies[sent] = 0
      BY <1>1, <1>3, <3>1 DEF QueueInv, RequestsPending, Notification
    <3> QED BY <2>1, <3>2
  <2>3. Sends(m) /\ fromEditor' = Append(fromEditor, m) /\ UNCHANGED <<buffer, info, service, initializeParams>>
    BY <1>1, <2>1 DEF Notify, Sends, LspMessage, lspServerVars
  <2>4. m.method = "initialized"
    BY DEF LspMessage
  <2> HIDE DEF m
  <2>5. n = 0
    BY <2>2 DEF n
  <2>6. Len(fromEditor') = 1 /\ fromEditor' # <<>> /\ DOMAIN fromEditor' = 1..1 /\ fromEditor'[1] = m
    <3>1. 0 + 1 = 1
      OBVIOUS
    <3> QED BY <1>4, <2>3, <2>5, <3>1
  <2>7. ServiceComesFirst'
    BY <1>1, <2>3, <2>4, <2>6 DEF ServiceComesFirst
  <2>8. TextsOnTheWay'
    <3> DEFINE new == [i \in 0..1 |-> Closed]
    <3>1. new \in [0..1 -> Texts \cup {Closed}] /\ new[0] = info' /\ new[1] = buffer'
      BY <1>1, <2>3
    <3>2. \A i \in 1..1 : i = 1 /\ i - 1 = 0
      OBVIOUS
    <3>3. Leads(encoding', new[0], m, new[1])
      BY <2>4 DEF Leads
    <3> HIDE DEF new
    <3> QED BY <2>6, <3>1, <3>2, <3>3 DEF TextsOnTheWay
  <2>9. Started'
    BY <2>1, <2>2, <2>3, <2>7, <2>8 DEF Started
  <2> QED BY <2>3, <2>9, SendKeepsQueue DEF LspInv, QueueInv
<1> QED BY <1>1, <1>7, <1>8, <1>9
        DEF Editor, SendOpen, SendChange, SendSave, SendClose, SendRequest, SendShutdown, SendExit

\* The server refuses what comes before initialize, and takes that.
LEMMA ServerStarting ==
  ASSUME LspAssumption, QueueInv, Starting, Server
  PROVE  LspInv'
<1> DEFINE n == Len(fromEditor)
           u == Tail(fromEditor)
<1>1. fromEditor # <<>> /\ ~crashed /\ fromEditor' = u /\ UNCHANGED <<sent, offered, buffer, clientState>>
  BY DEF Server, RefuseUninitialized, HandleInitialize, HandleInitialized, HandleDidOpen, HandleDidChange,
         HandleDidSave, HandleDidClose, HandleHover, HandleUnknown, HandleShutdown, HandleExit, WithService, ReadMessage
<1>2. ~initializeParams /\ buffer = Closed /\ info = Closed /\ service = "nil"
  BY <1>1 DEF Starting
<1>3. fromEditor \in Seq(ToSet(fromEditor))
  BY DEF QueueInv
<1>4. /\ n \in Nat \ {0} /\ Len(u) = n - 1 /\ DOMAIN fromEditor = 1..n /\ DOMAIN u = 1..(n - 1) /\ (n = 1 => u = <<>>)
      /\ Head(fromEditor) = fromEditor[1] /\ \A i \in 1..(n - 1) : u[i] = fromEditor[i + 1]
  BY <1>1, <1>3, Took
<1>5. 1 \in 1..n /\ \A i \in 1..(n - 1) : i + 1 \in 1..n
  BY <1>4
<1>6. CASE RefuseUninitialized
  <2>1. fromEditor[1].method # "initialize" /\ Answer(Id) /\ UNCHANGED <<initializeParams, service, info, crashed>>
    BY <1>4, <1>6 DEF RefuseUninitialized, ReadMessage
  <2>2. Takes
    BY <1>1, <2>1 DEF Takes
  <2>3. QueueInv'
    BY <1>2, <2>1, <2>2, TakeKeepsQueue
  <2>4. Starting'
    <3>1. CASE clientState = "start"
      <4>1. \A i \in 1..(n - 1) : u[i].method = "completion"
        BY <1>4, <1>5, <3>1 DEF Starting
      <4> HIDE DEF u
      <4> QED BY <1>1, <1>2, <1>4, <2>1, <3>1, <4>1 DEF Starting
    <3>2. CASE clientState = "wait"
      <4>1. sent > 0 /\ \A i \in 1..n :
                          IF i = n THEN fromEditor[i].method = "initialize" /\ fromEditor[i].id = sent
                          ELSE fromEditor[i].method = "completion"
        BY <1>1, <1>4, <3>2 DEF Starting
      <4>2. n # 1
        BY <1>5, <2>1, <4>1
      <4> HIDE DEF n, u
      <4>3. ASSUME NEW i \in 1..(n - 1)
            PROVE  IF i = n - 1 THEN u[i].method = "initialize" /\ u[i].id = sent ELSE u[i].method = "completion"
        <5>1. u[i] = fromEditor[i + 1] /\ i + 1 \in 1..n /\ (i + 1 = n <=> i = n - 1)
          BY <1>4, <1>5
        <5> QED BY <4>1, <5>1
      <4>4. u # <<>>
        BY <1>4, <4>2
      <4> QED BY <1>1, <1>2, <1>4, <2>1, <3>2, <4>1, <4>3, <4>4 DEF Starting
    <3> QED BY <3>1, <3>2 DEF Starting
  <2> QED BY <2>3, <2>4 DEF LspInv, QueueInv
<1>7. CASE HandleInitialize
  <2>1. /\ fromEditor[1].method = "initialize" /\ Answer(Id) /\ initializeParams' = TRUE
        /\ UNCHANGED <<service, info, crashed>>
    BY <1>2, <1>4, <1>7 DEF HandleInitialize, ReadMessage
  <2>2. clientState = "wait" /\ n = 1
    BY <1>2, <1>4, <1>5, <2>1 DEF Starting
  <2>3. Takes
    BY <1>1, <2>1 DEF Takes
  <2>4. QueueInv'
    BY <1>2, <2>1, <2>3, TakeKeepsQueue
  <2>5. Starting'
    BY <1>1, <1>2, <1>4, <2>1, <2>2 DEF Starting
  <2> QED BY <2>4, <2>5 DEF LspInv, QueueInv
<1> QED BY <1>2, <1>6, <1>7
        DEF Server, HandleInitialized, HandleDidOpen, HandleDidChange, HandleDidSave, HandleDidClose, HandleHover,
            HandleUnknown, HandleShutdown, HandleExit, WithService

-----------------------------------------------------------------------------
(***************************************************************************)
(* The theorems.                                                           *)
(***************************************************************************)
LEMMA LspInitIInv == LspAssumption /\ LspInit => LspInv
<1> SUFFICES ASSUME LspAssumption, LspInit PROVE LspInv
  OBVIOUS
<1>1. MaxRequests \in Nat /\ MaxInFlight \in Nat
  BY DEF LspAssumption
<1>2. fromEditor \in Seq(ToSet(fromEditor)) /\ Len(fromEditor) = 0 /\ DOMAIN fromEditor = {}
  BY DEF LspInit
<1>3. LspTypeOK
  BY <1>1, <1>2 DEF LspInit, LspTypeOK
<1>4. RequestsPending
  BY <1>1, <1>2 DEF LspInit, RequestsPending
<1>5. Starting
  BY <1>2 DEF LspInit, Starting
<1> QED BY <1>2, <1>3, <1>4, <1>5 DEF LspInit, LspInv

\* LspInv is kept.
LEMMA LspNextIInv ==
  ASSUME LspAssumption, MaxBatch <= 1, LspInv, [LspNext]_lspVars
  PROVE  LspInv'
<1>1. QueueInv /\ (Starting \/ Started)
  BY DEF LspInv, QueueInv
<1>2. CASE UNCHANGED lspVars
  BY <1>2 DEF lspVars, LspInv, LspTypeOK, RequestsPending, Starting, Started, ServiceComesFirst, TextsOnTheWay
<1>3. CASE Editor
  BY <1>1, <1>3, EditorStarted, EditorStarting
<1>4. CASE Server
  BY <1>1, <1>4, ServerStarted, ServerStarting
<1> QED BY <1>2, <1>3, <1>4 DEF LspNext

\* LspInv always holds of the server and an editor that sends one change in a didChange.
THEOREM LspInvariant == LspAssumption /\ MaxBatch <= 1 => (LspSpec => []LspInv)
<1> SUFFICES ASSUME LspAssumption, MaxBatch <= 1 PROVE LspSpec => []LspInv
  OBVIOUS
<1>1. LspInit => LspInv
  BY LspInitIInv
<1>2. LspInv /\ [LspNext]_lspVars => LspInv'
  BY LspNextIInv
<1> QED BY <1>1, <1>2, PTL DEF LspSpec

\* The types of the server and of the queue; in particular no request is answered twice.
THEOREM LspTypesOK == LspAssumption /\ MaxBatch <= 1 => (LspSpec => []LspTypeOK)
<1>1. LspInv => LspTypeOK
  BY DEF LspInv
<1> QED BY <1>1, LspInvariant, PTL

\* When the server has read what the editor sent, it has the editor's text.
THEOREM TextsAgree == LspAssumption /\ MaxBatch <= 1 => (LspSpec => []ServerTextIsClientText)
<1>1. ASSUME LspInv PROVE ServerTextIsClientText
  <2> SUFFICES ASSUME fromEditor = <<>>, clientState = "ready" PROVE info = buffer
    BY DEF ServerTextIsClientText
  <2>1. TextsOnTheWay
    BY <1>1 DEF LspInv, Starting, Started
  <2>2. Len(fromEditor) = 0
    OBVIOUS
  <2> QED BY <2>1, <2>2 DEF TextsOnTheWay
<1> QED BY <1>1, LspInvariant, PTL

\* No message of the editor makes the server panic.
THEOREM EditorCannotCrash == LspAssumption /\ MaxBatch <= 1 => (LspSpec => []ClientCannotCrash)
<1>1. LspInv => ClientCannotCrash
  BY DEF LspInv, ClientCannotCrash
<1> QED BY <1>1, LspInvariant, PTL

\* In every text and in both encodings the client's positions are understood, the server's come
\* back as themselves, and they are the client's wherever no line after the first starts. (At the
\* start of such a line they are not: PositionsAreOnTheirLine is violated.)
THEOREM PositionsAlwaysAgreeInsideLines ==
  LspAssumption /\ MaxBatch <= 1 => (LspSpec => []PositionsAgreeInsideLines)
<1> SUFFICES ASSUME LspAssumption, MaxBatch <= 1 PROVE LspSpec => []PositionsAgreeInsideLines
  OBVIOUS
<1>1. ASSUME LspInv PROVE PositionsAgreeInsideLines
  <2> SUFFICES ASSUME info # Closed PROVE PositionsAgreeInsideLines
    BY DEF PositionsAgreeInsideLines, PositionsComeBack, ClientPositionsAreUnderstood, ServerPositionsAreTheClients
  <2>1. info \in Texts
    BY <1>1 DEF LspInv, LspTypeOK
  <2>2. info \in Seq(Chars) /\ ClientPlaces(info) \subseteq 0..Len(info)
    BY <1>1, <2>1, TextIsSequence DEF ClientPlaces
  <2>3. PositionsComeBack
    <3>1. ASSUME NEW pos \in Boundaries(info)
          PROVE  FromLineAndCharacter(info, encoding, ToLineAndCharacter(info, encoding, pos)) = pos
      <4>1. PICK n \in 0..Len(info) : pos = Bytes(info, n)
        BY DEF Boundaries
      <4> QED BY <2>2, <4>1, ServerIsUnderstood
    <3> QED BY <3>1 DEF PositionsComeBack
  <2>4. ClientPositionsAreUnderstood
    BY <2>2, ClientIsUnderstood DEF ClientPositionsAreUnderstood
  <2>5. ServerPositionsAreTheClients
    BY <2>2, ServerCountsAsClient DEF ServerPositionsAreTheClients
  <2> QED BY <2>3, <2>4, <2>5 DEF PositionsAgreeInsideLines
<1> QED BY <1>1, LspInvariant, PTL
===============================================================================
