------------------------------- MODULE RpcCall -------------------------------
(***************************************************************************)
(* One RPC over WebsocketTransport (packages/ddc/src/transports), with the *)
(* TimeoutInterceptor before it and the method of FileApi, DagApi or CnsApi*)
(* that makes the call behind it.                                          *)
(*                                                                         *)
(* A call has four promises: headers, message, status and trailers, and a  *)
(* duplex one has a stream of messages instead of the second.  A promise   *)
(* is Open until it is settled, once, with Ok or with the code of an       *)
(* RpcError.                                                               *)
(*                                                                         *)
(* The node, the socket and the client of @improbable-eng/grpc-web are     *)
(* external: headers come first, and may already carry a status; messages  *)
(* follow; the end comes at most once and nothing comes after it.  The     *)
(* node may also say nothing more at any moment.                           *)
(***************************************************************************)
EXTENDS Naturals

CONSTANTS
    Codes,       \* the codes a node fails a call with
    MaxChunks,   \* bound: chunks of a piece
    MaxMessages  \* bound: messages of a duplex call

ASSUME RpcAssumption ==
    /\ Codes \subseteq STRING /\ Codes \cap {"open", "ok", "CANCELLED"} = {}
    /\ MaxChunks \in Nat /\ MaxMessages \in Nat

Open == "open"
Ok == "ok"
Cancelled == "CANCELLED"  \* the error of the timer
Lost == "UNKNOWN"         \* the end of a socket without an answer

VARIABLES
    kind,       \* "unary" | "clientStreaming" | "duplex"
    socket,     \* "open" | "headed" | "ended" | "closed"
    inHeaders,  \* the status that came with the headers, Ok without one
    header, message, status, trailer,  \* the promises
    stream,     \* duplex: the stream of messages, until it is closed
    queued,     \* duplex: messages that have come and are not read
    timer,      \* "none" | "armed" | "stopped" | "fired"
    caller,     \* "headers" | "sending" | "reading" | "response" | "done"
    outcome,    \* of the method of the API
    sent, arrived, \* chunks sent; messages that have come
    told        \* history: codes the caller has been told, in any way

promises == <<header, message, status, trailer, stream>>
callVars == <<kind, socket, inHeaders, promises, queued, timer, caller, outcome, sent,
              arrived, told>>

(* The methods of the three services, by the kind of their calls. *)
FileApiClient == [putRawPiece |-> "clientStreaming", putMultipartPiece |-> "unary",
                  getFile |-> "duplex"]
DagApiClient == [put |-> "unary", get |-> "unary"]
CnsApiClient == [put |-> "unary", get |-> "unary"]
Kinds == {FileApiClient[f] : f \in DOMAIN FileApiClient}
         \cup {DagApiClient[f] : f \in DOMAIN DagApiClient}
         \cup {CnsApiClient[f] : f \in DOMAIN CnsApiClient}

IsFailure(p) == p \notin {Open, Ok}

(* Deferred.resolvePending and rejectPending. *)
Pending(p, value) == IF p = Open THEN value ELSE p

-----------------------------------------------------------------------------
(* The interceptor's timer starts before the call; a unary call is given the
   time as an option, which this transport does not use. *)
InitCall ==
    /\ kind \in Kinds
    /\ socket = "open" /\ inHeaders = Ok
    /\ header = Open /\ status = Open /\ trailer = Open
    /\ message = Open
    /\ stream = Open
    /\ queued = 0 /\ sent = 0 /\ arrived = 0
    /\ timer = IF kind = "unary" THEN "none" ELSE "armed"
    /\ caller = IF kind = "unary" THEN "response" ELSE "headers"
    /\ outcome = Open
    /\ told = {}

EmitError_NotTheMessage(e) ==
    /\ header' = Pending(header, e)
    /\ status' = Pending(status, e)
    /\ trailer' = Pending(trailer, e)
    /\ stream' = Pending(stream, e)
    /\ told' = told \cup {e}
    /\ UNCHANGED message

EmitError(e) ==
    /\ header' = Pending(header, e)
    /\ message' = Pending(message, e)
    /\ status' = Pending(status, e)
    /\ trailer' = Pending(trailer, e)
    /\ stream' = Pending(stream, e)
    /\ told' = told \cup {e}

(* The settled headers stop the timer, before anything else can happen. *)
StopTimer_WhenResolved ==
    timer' = IF timer = "armed" /\ header' = Ok THEN "stopped" ELSE timer

StopTimer ==
    timer' = IF timer = "armed" /\ header' # Open THEN "stopped" ELSE timer

(* client.onHeaders: a status other than OK rejects the headers, and nothing
   else yet.  grpc.unary keeps the headers for its end. *)
OnHeaders_AnyStatus(s) ==
    /\ socket = "open"
    /\ socket' = "headed"
    /\ inHeaders' = s
    /\ header' = IF kind = "unary" THEN header ELSE Pending(header, Ok)
    /\ told' = IF s = Ok THEN told ELSE told \cup {s}
    /\ StopTimer
    /\ UNCHANGED <<kind, message, status, trailer, stream, queued, caller, outcome, sent,
                   arrived>>

OnHeaders(s) ==
    /\ socket = "open"
    /\ socket' = "headed"
    /\ inHeaders' = s
    /\ header' = IF kind = "unary" THEN header ELSE Pending(header, s)
    /\ told' = IF s = Ok THEN told ELSE told \cup {s}
    /\ StopTimer
    /\ UNCHANGED <<kind, message, status, trailer, stream, queued, caller, outcome, sent,
                   arrived>>

(* client.onMessage *)
OnMessage ==
    /\ socket = "headed" /\ inHeaders = Ok
    /\ arrived < (IF kind = "duplex" THEN MaxMessages ELSE 1)
    /\ arrived' = arrived + 1
    /\ \/ kind = "duplex" /\ queued' = queued + 1 /\ UNCHANGED message
       \/ kind = "clientStreaming" /\ message' = Pending(message, Ok) /\ UNCHANGED queued
       \/ kind = "unary" /\ UNCHANGED <<message, queued>>
    /\ UNCHANGED <<kind, socket, inHeaders, header, status, trailer, stream, timer, caller,
                   outcome, sent, told>>

(* client.onEnd of a streaming call. *)
StreamEnds(code) ==
    /\ kind # "unary"
    /\ \/ code # Ok /\ EmitError(code)
       \/ /\ code = Ok
          /\ status' = Pending(status, Ok)
          /\ trailer' = Pending(trailer, Ok)
          /\ stream' = Pending(stream, Ok)
          /\ UNCHANGED <<header, message, told>>

(* onEnd of grpc.unary: the status says how the call ended, and only the
   message is rejected with it. *)
UnaryEnds(code) ==
    /\ kind = "unary"
    /\ header' = Pending(header, Ok)
    /\ trailer' = Pending(trailer, Ok)
    /\ status' = Pending(status, Ok)
    /\ message' = IF code # Ok THEN Pending(message, code)
                  ELSE IF arrived > 0 THEN Pending(message, Ok) ELSE message
    /\ told' = IF code = Ok THEN told ELSE told \cup {code}
    /\ UNCHANGED stream

(* The end: what the node says of the call it has answered, the status of the
   headers again, or a socket that is gone. *)
OnEnd(code) ==
    /\ socket \in {"open", "headed"}
    /\ \/ code = Lost
       \/ socket = "headed" /\ inHeaders = Ok
       \/ socket = "headed" /\ inHeaders # Ok /\ code = inHeaders
    /\ socket' = "ended"
    /\ StreamEnds(code) \/ UnaryEnds(code)
    /\ StopTimer
    /\ UNCHANGED <<kind, inHeaders, queued, caller, outcome, sent, arrived>>

(* The timer of the interceptor aborts the call with its own error, and the
   abort closes the client. *)
TimerFires ==
    /\ timer = "armed"
    /\ timer' = "fired"
    /\ EmitError(Cancelled)
    /\ socket' = "closed"
    /\ UNCHANGED <<kind, inHeaders, queued, caller, outcome, sent, arrived>>

-----------------------------------------------------------------------------
(* The method of the API. *)
Moves(to) ==
    /\ caller' = to
    /\ UNCHANGED <<kind, socket, inHeaders, promises, timer, arrived, told>>

Settles(o) == Moves("done") /\ outcome' = o /\ UNCHANGED <<queued, sent>>

(* putRawPiece and getFile wait for the headers. *)
AwaitHeaders ==
    /\ caller = "headers" /\ header # Open
    /\ \/ IsFailure(header) /\ Settles(header)
       \/ /\ header = Ok
          /\ Moves(IF kind = "duplex" THEN "reading" ELSE "sending")
          /\ UNCHANGED <<outcome, queued, sent>>

(* putRawPiece: Promise.race of the status and the chunk that is sent. *)
SendChunk ==
    /\ caller = "sending" /\ sent < MaxChunks
    /\ \/ IsFailure(status) /\ Settles(status)
       \/ /\ ~IsFailure(status)
          /\ Moves("sending") /\ sent' = sent + 1 /\ UNCHANGED <<outcome, queued>>

CompleteRequests ==
    /\ caller = "sending"
    /\ Moves("response")
    /\ UNCHANGED <<outcome, queued, sent>>

(* putRawPiece waits for the message; a unary method for all four promises,
   and rejects with the first that does. *)
AwaitResponse ==
    /\ caller = "response"
    /\ \/ IsFailure(message) /\ Settles(message)
       \/ /\ message = Ok
          /\ kind = "unary" => {header, status, trailer} = {Ok}
          /\ Settles(Ok)

(* getFile: the messages that have come before the stream ends are read
   first; then the requests are completed, unless the call is over. *)
ReadMessage ==
    /\ caller = "reading"
    /\ \/ queued > 0 /\ Moves("reading") /\ queued' = queued - 1 /\ UNCHANGED <<outcome, sent>>
       \/ queued = 0 /\ stream # Open /\ Settles(stream)

CallerStep ==
    AwaitHeaders \/ SendChunk \/ CompleteRequests \/ AwaitResponse \/ ReadMessage

NodeStep ==
    \/ \E s \in Codes \cup {Ok} : OnHeaders(s)
    \/ OnMessage
    \/ \E c \in Codes \cup {Ok, Lost} : OnEnd(c)

NextCall == CallerStep \/ NodeStep \/ TimerFires

(* The SDK goes on with what has come, a body has its chunks, and a timer
   that runs fires; the node and the socket owe nothing. *)
CallSpec ==
    /\ InitCall /\ [][NextCall]_callVars
    /\ WF_callVars(CallerStep) /\ WF_callVars(TimerFires)

-----------------------------------------------------------------------------
(* A status the node sends in place of an answer is the one the caller gets,
   for a piece as for a file: not the code the connection ends with after it
   (WebsocketTransport.ts:105-113, 188-196), and no other failure is made up:
   every rejection is a code the node, the socket or the timer gave. *)
NodeStatusIsReported ==
    IsFailure(outcome) =>
        /\ outcome \in told
        /\ kind # "unary" /\ inHeaders # Ok => outcome = inHeaders

(* The timer ends only calls that have not been answered: one whose headers
   have come, with any status, is never cancelled by it, however long it runs
   (TimeoutInterceptor.ts:73-98). *)
AnsweredIsNotTimedOut ==
    timer = "fired" => socket = "closed" /\ header = Cancelled /\ arrived = 0

(* A streaming call to a node that never answers is ended by the timer, even
   if nothing could be sent (TimeoutInterceptor.ts:29-36, 67-71). *)
TimerEndsSilence == kind # "unary" ~> header # Open

(* The end of a call, whatever its code, the failure of a socket and the timer
   reach the caller: no method waits for a promise nobody will settle, the one
   exception being an end without the message it should have had
   (WebsocketTransport.ts:90-95, 119-126, 285-309). *)
EndReachesCaller ==
    socket \in {"ended", "closed"} ~>
        \/ caller = "done"
        \/ message = Open /\ status = Ok /\ arrived = 0 /\ kind # "duplex"

(* Whatever ends a call before or after its headers, be it only the timer of a
   node that says nothing, the method that made the call does not hang. *)
NoCallHangs == TimerEndsSilence /\ EndReachesCaller
=============================================================================
