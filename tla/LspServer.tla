------------------------------ MODULE LspServer ------------------------------
(***************************************************************************)
(* The message loop of internal/lsp and one text document.  The client     *)
(* keeps to the order of the protocol: initialize, its answer, initialized,*)
(* then the rest, and shutdown at the end.  Messages travel in order and   *)
(* the server handles one at a time.  The client counts positions on its   *)
(* own text; the server must end up with the same text.                    *)
(***************************************************************************)
EXTENDS TextPositions, SequencesExt

CONSTANTS
  Chars,         \* characters of the texts
  MaxText,       \* bound on the length of a text
  MaxBatch,      \* bound on the changes of one didChange
  MaxInFlight,   \* bound on messages the server has not read yet
  MaxRequests    \* bound on the requests

LspAssumption ==
  /\ Chars \subseteq {Ascii, Accented, Emoji, LF, CR}
  /\ {MaxText, MaxBatch, MaxInFlight, MaxRequests} \subseteq Nat

VARIABLES
  fromEditor,        \* messages in flight, oldest first
  replies,           \* for each request, how often it was answered
  sent,              \* number of requests sent
  offered,           \* the client offers UTF-8
  buffer,            \* the client's text, or Closed
  clientState,       \* "start", "wait", "ready", "shut", "gone"
  initializeParams,  \* the server has had initialize
  service,           \* projectService: "nil", "live" or "closed"
  encoding,          \* positionEncoding
  info,              \* text of the document's script info, or Closed when there is none
  crashed            \* the process died of a panic

lspVars == <<fromEditor, replies, sent, offered, buffer, clientState,
             initializeParams, service, encoding, info, crashed>>

Closed == <<"closed">>
Texts == UNION {[1..n -> Chars] : n \in 0..MaxText}
Notification == 0

LspInit ==
  /\ fromEditor = <<>> /\ sent = 0 /\ replies = [id \in 1..MaxRequests |-> 0]
  /\ offered \in BOOLEAN /\ buffer = Closed /\ clientState = "start"
  /\ initializeParams = FALSE /\ service = "nil" /\ encoding = "utf16"
  /\ info = Closed /\ crashed = FALSE

lspServerVars == <<initializeParams, service, encoding, info, crashed, replies>>

-----------------------------------------------------------------------------
(* The client.                                                             *)

LspMessage(method, id, body) == [method |-> method, id |-> id, body |-> body]

Notify(method, body) ==
  /\ Len(fromEditor) < MaxInFlight
  /\ fromEditor' = Append(fromEditor, LspMessage(method, Notification, body))
  /\ UNCHANGED <<sent, offered, lspServerVars>>

Request(method, body) ==
  /\ Len(fromEditor) < MaxInFlight /\ sent < MaxRequests
  /\ sent' = sent + 1
  /\ fromEditor' = Append(fromEditor, LspMessage(method, sent + 1, body))
  /\ UNCHANGED <<offered, buffer, lspServerVars>>

\* A request too early is refused, and the client tries no further before initialize.
SendEarly == clientState = "start" /\ sent = 0 /\ Request("completion", <<>>) /\ UNCHANGED clientState

SendInitialize == clientState = "start" /\ Request("initialize", <<>>) /\ clientState' = "wait"

SendInitialized ==
  /\ clientState = "wait" /\ replies[sent] > 0
  /\ clientState' = "ready"
  /\ Notify("initialized", <<>>) /\ UNCHANGED buffer

SendOpen ==
  /\ clientState = "ready" /\ buffer = Closed
  /\ buffer' \in Texts
  /\ Notify("didOpen", buffer') /\ UNCHANGED clientState

\* One change: a part of the text between two places, or all of it.
Partial(t, m, n, new) ==
  [whole |-> FALSE, start |-> ClientPosition(t, encoding, m), end |-> ClientPosition(t, encoding, n), text |-> new]
Whole(new) == [whole |-> TRUE, text |-> new]

\* The texts and changes one user action can make of t.
Edit(t, m, n, new) ==
  [result |-> SubSeq(t, 1, m) \o new \o SubSeq(t, n + 1, Len(t)), change |-> Partial(t, m, n, new)]
Edits(t) ==
  {Edit(t, m, n, new) : m \in ClientPlaces(t), n \in ClientPlaces(t), new \in {s \in Texts : Len(s) <= 1}}

WellFormed(t) ==
  {e \in Edits(t) : e.change.start.line < e.change.end.line
                    \/ (e.change.start.line = e.change.end.line /\ e.change.start.character <= e.change.end.character)}

SendChange ==
  /\ clientState = "ready" /\ buffer # Closed
  /\ \/ \E e \in WellFormed(buffer) :
          /\ e.result \in Texts /\ e.result # buffer
          /\ \/ buffer' = e.result /\ Notify("didChange", <<e.change>>)
             \/ /\ MaxBatch > 1
                /\ \E e2 \in WellFormed(e.result) :
                     /\ e2.result \in Texts
                     /\ buffer' = e2.result /\ Notify("didChange", <<e.change, e2.change>>)
     \/ \E t \in Texts : buffer' = t /\ Notify("didChange", <<Whole(t)>>)
  /\ UNCHANGED clientState

SendSave == clientState = "ready" /\ buffer # Closed /\ Notify("didSave", buffer) /\ UNCHANGED <<buffer, clientState>>

SendClose ==
  /\ clientState = "ready" /\ buffer # Closed
  /\ buffer' = Closed /\ Notify("didClose", <<>>) /\ UNCHANGED clientState

\* A language request about a place of the open document, one the server does not know,
\* a notification it does not know.
SendRequest ==
  /\ clientState = "ready" /\ UNCHANGED clientState
  /\ \/ buffer # Closed /\ \E n \in ClientPlaces(buffer) : Request("hover", ClientPosition(buffer, encoding, n))
     \/ Request("completion", <<>>)
     \/ Notify("cancelRequest", <<>>) /\ UNCHANGED buffer

SendShutdown == clientState = "ready" /\ Request("shutdown", <<>>) /\ clientState' = "shut"

SendExit ==
  /\ clientState = "shut" /\ clientState' = "gone"
  /\ Notify("exit", <<>>) /\ UNCHANGED buffer

-----------------------------------------------------------------------------
(* The server: Run reads a message and runs its handler.                   *)

ReadMessage(method) ==
  /\ ~crashed /\ fromEditor # <<>> /\ Head(fromEditor).method = method
  /\ fromEditor' = Tail(fromEditor)
  /\ UNCHANGED <<sent, offered, buffer, clientState>>

Answer(id) == replies' = IF id = Notification THEN replies ELSE [replies EXCEPT ![id] = @ + 1]

Body == Head(fromEditor).body
Id == Head(fromEditor).id

\* Before initialize every other message is refused, notifications too.
RefuseUninitialized ==
  /\ ~initializeParams
  /\ \E m \in {"initialized", "didOpen", "didChange", "didSave", "didClose", "hover", "completion",
               "cancelRequest", "shutdown", "exit"} : ReadMessage(m)
  /\ Answer(Id)
  /\ UNCHANGED <<initializeParams, service, encoding, info, crashed>>

HandleInitialize ==
  /\ ReadMessage("initialize")
  /\ IF initializeParams THEN UNCHANGED <<initializeParams, encoding>>
     ELSE initializeParams' = TRUE /\ encoding' = IF offered THEN "utf8" ELSE "utf16"
  /\ Answer(Id)
  /\ UNCHANGED <<service, info, crashed>>

HandleInitialized ==
  /\ initializeParams /\ ReadMessage("initialized")
  /\ service' = "live" /\ info' = Closed
  /\ UNCHANGED <<replies, initializeParams, encoding, crashed>>

\* A handler that needs the service: a nil one is a panic.
WithService(method, new, ok) ==
  /\ initializeParams /\ ReadMessage(method)
  /\ IF service # "nil" /\ ok THEN info' = new /\ UNCHANGED crashed
     ELSE crashed' = TRUE /\ UNCHANGED info
  /\ UNCHANGED <<initializeParams, encoding>>

HandleDidOpen == WithService("didOpen", Body, TRUE) /\ UNCHANGED <<replies, service>>

HandleDidSave ==
  /\ WithService("didSave", IF info = Closed THEN Closed ELSE Body, TRUE)
  /\ UNCHANGED <<replies, service>>

\* With the file on no disk the info goes with its close.
HandleDidClose == WithService("didClose", Closed, TRUE) /\ UNCHANGED <<replies, service>>

\* The positions of a change as bytes of the text it is converted against.
Converted(t, enc, change) ==
  IF change.whole THEN [from |-> 0, to |-> ByteLen(t), text |-> change.text]
  ELSE [from |-> FromLineAndCharacter(t, enc, change.start),
        to |-> FromLineAndCharacter(t, enc, change.end), text |-> change.text]

\* ChangeFile applies the changes in order, each to the result of the one before;
\* all of them were converted against the text from before the first.
Changed(t, enc, changes) ==
  LET Apply(now, c) == IF now = OutOfRange THEN now ELSE Splice(now, c.from, c.to, c.text)
  IN  FoldLeft(Apply, t, [i \in DOMAIN changes |-> Converted(t, enc, changes[i])])

HandleDidChange ==
  /\ IF info = Closed
     THEN WithService("didChange", Closed, TRUE)   \* sendError(req.ID, ErrRequestFailed)
     ELSE LET new == Changed(info, encoding, Body) IN
          /\ WithService("didChange", new, new # OutOfRange)
  /\ UNCHANGED <<replies, service>>

\* A request needs a project that has the file: EnsureDefaultProjectForFile of a closed file
\* panics, and so does the conversion of a position on no line. (ProvideHover's panic on a
\* file its program does not have is ProjectService's AskedFileIsInProgram.)
HandleHover ==
  /\ WithService("hover", info, info # Closed /\ FromLineAndCharacter(info, encoding, Body) # BadLine)
  /\ IF crashed' THEN UNCHANGED replies ELSE Answer(Id)
  /\ UNCHANGED service

HandleUnknown ==
  /\ initializeParams
  /\ ReadMessage("completion") \/ ReadMessage("cancelRequest")
  /\ Answer(Id)
  /\ UNCHANGED <<initializeParams, service, encoding, info, crashed>>

\* Service.Close closes the log; nothing else changes, and exit ends nothing.
HandleShutdown ==
  /\ WithService("shutdown", info, TRUE)
  /\ IF crashed' THEN UNCHANGED <<replies, service>> ELSE Answer(Id) /\ service' = "closed"

HandleExit ==
  /\ initializeParams /\ ReadMessage("exit")
  /\ UNCHANGED <<replies, initializeParams, service, encoding, info, crashed>>

-----------------------------------------------------------------------------
Editor == \/ SendEarly \/ SendInitialize \/ SendInitialized \/ SendOpen \/ SendChange \/ SendSave \/ SendClose
          \/ SendRequest \/ SendShutdown \/ SendExit

Server == \/ RefuseUninitialized \/ HandleInitialize \/ HandleInitialized \/ HandleDidOpen \/ HandleDidChange
          \/ HandleDidSave \/ HandleDidClose \/ HandleHover \/ HandleUnknown \/ HandleShutdown \/ HandleExit

LspNext == Editor \/ Server

LspSpec == LspInit /\ [][LspNext]_lspVars /\ WF_lspVars(Server)

-----------------------------------------------------------------------------
LspTypeOK ==
  /\ Len(fromEditor) <= MaxInFlight
  /\ replies \in [1..MaxRequests -> 0..1]
  /\ buffer \in Texts \cup {Closed} /\ info \in Texts \cup {Closed}
  /\ service \in {"nil", "live", "closed"}

\* When everything the client sent is handled the server has the client's text: each change
\* was converted against the text it was made on (server.go's handleDidChange).
ServerTextIsClientText ==
  fromEditor = <<>> /\ ~crashed /\ clientState = "ready" => info = buffer

\* A client that keeps to the protocol never brings the server down: no nil service, no
\* position outside the text.
ClientCannotCrash == ~crashed

\* The server's positions come back as themselves, at every place of the text and in both
\* encodings (converters.go, in both directions).
PositionsComeBack ==
  info # Closed => \A pos \in Boundaries(info) :
    FromLineAndCharacter(info, encoding, ToLineAndCharacter(info, encoding, pos)) = pos

\* Where the client points is where the server looks.
ClientPositionsAreUnderstood ==
  info # Closed => \A n \in ClientPlaces(info) :
    FromLineAndCharacter(info, encoding, ClientPosition(info, encoding, n)) = Bytes(info, n)

\* The server gives a place the position the client gives it, except the start of a line after
\* the first, which it gives as a place after the end of the line before.
ServerPositionsAreTheClients ==
  info # Closed => \A n \in ClientPlaces(info) :
    Bytes(info, n) \notin LineStarts(info) \ {0} =>
      ToLineAndCharacter(info, encoding, Bytes(info, n)) = ClientPosition(info, encoding, n)

\* What positions of either side are to the other: the client's are always understood, the
\* server's come back as themselves, and are the client's own but for the starts of lines
\* (converters.go, in both directions and both encodings).
PositionsAgreeInsideLines == PositionsComeBack /\ ClientPositionsAreUnderstood /\ ServerPositionsAreTheClients

\* A position the server sends (a diagnostic's, a definition's) denotes to the client the
\* place the server meant. Nothing of the protocol denotes the place after a line's end
\* characters but the start of the next line (lsp_generated.go's Position).
PositionsAreOnTheirLine ==
  info # Closed => \A n \in ClientPlaces(info) :
    Denotes(info, encoding, ToLineAndCharacter(info, encoding, Bytes(info, n))) = n

Answered(id) == replies[id] = 1

\* Every request is answered, and once (LspTypeOK says not twice).
RequestsAnswered == (\E id \in 1..sent : ~Answered(id)) ~> (crashed \/ \A id \in 1..sent : Answered(id))

(***************************************************************************)
(* Why it holds: the inductive invariant, for one change at a time.        *)
(***************************************************************************)
\* A request on its way has a number of its own, under which nothing was answered yet.
RequestsPending ==
  /\ sent \in 0..MaxRequests
  /\ \A i \in DOMAIN fromEditor :
       /\ fromEditor[i].id \in 0..sent
       /\ fromEditor[i].id # Notification =>
            /\ replies[fromEditor[i].id] = 0
            /\ \A j \in DOMAIN fromEditor : fromEditor[j].id = fromEditor[i].id => j = i
  /\ \A id \in (sent + 1)..MaxRequests : replies[id] = 0

\* Until the client knows that the server is there: initialize is the last message, and the
\* server reads nothing after it before the client has the answer.
Starting ==
  /\ buffer = Closed /\ info = Closed /\ service = "nil"
  /\ \/ /\ clientState = "start" /\ ~initializeParams
        /\ \A i \in DOMAIN fromEditor : fromEditor[i].method = "completion"
     \/ /\ clientState = "wait" /\ ~initializeParams /\ fromEditor # <<>> /\ sent > 0
        /\ \A i \in DOMAIN fromEditor :
             IF i = Len(fromEditor) THEN fromEditor[i].method = "initialize" /\ fromEditor[i].id = sent
             ELSE fromEditor[i].method = "completion"
     \/ clientState = "wait" /\ initializeParams /\ fromEditor = <<>>

\* The first message a started server reads is the one that makes its service.
ServiceComesFirst ==
  /\ service = "nil" => fromEditor # <<>>
  /\ \A i \in DOMAIN fromEditor :
       /\ fromEditor[i].method # "initialize"
       /\ fromEditor[i].method = "initialized" <=> service = "nil" /\ i = 1

\* What a message makes of the server's text, when its handler does not fail on that text.
Leads(enc, text, m, next) ==
  \/ m.method = "initialized" /\ text = Closed /\ next = Closed
  \/ m.method = "didOpen" /\ text = Closed /\ next = m.body
  \/ m.method = "didChange" /\ text # Closed /\ next = Changed(text, enc, m.body)
  \/ m.method = "didSave" /\ text # Closed /\ m.body = text /\ next = text
  \/ m.method = "didClose" /\ text # Closed /\ next = Closed
  \/ m.method = "hover" /\ text # Closed /\ FromLineAndCharacter(text, enc, m.body) # BadLine /\ next = text
  \/ m.method \in {"completion", "cancelRequest", "shutdown", "exit"} /\ next = text

\* The messages on their way lead from the server's text to the client's.
TextsOnTheWay ==
  \E texts \in [0..Len(fromEditor) -> Texts \cup {Closed}] :
    /\ texts[0] = info /\ texts[Len(fromEditor)] = buffer
    /\ \A i \in DOMAIN fromEditor : Leads(encoding, texts[i-1], fromEditor[i], texts[i])

Started == clientState \in {"ready", "shut", "gone"} /\ initializeParams /\ ServiceComesFirst /\ TextsOnTheWay

LspInv ==
  /\ LspTypeOK /\ fromEditor \in Seq(ToSet(fromEditor)) /\ ~crashed
  /\ RequestsPending
  /\ Starting \/ Started
==============================================================================
