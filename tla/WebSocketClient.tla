--------------------------- MODULE WebSocketClient ---------------------------
(***************************************************************************)
(* The tunnel client (src/tunnel/src/websocket/WebSocketClient.ts): one    *)
(* subscription to open(request).                                          *)
(*                                                                         *)
(* forward: a local TCP server; each accepted socket c gets a websocket to *)
(* /forward, and the two are piped together.                               *)
(* reverse: a control websocket to /reverse; each "NewConnection:id"       *)
(* message opens a local TCP socket, and once it connects a websocket to   *)
(* /connect, and pipes the two.                                            *)
(*                                                                         *)
(* Conns are the accepted sockets (forward) or the announced ids          *)
(* (reverse); tcp[c] and ws[c] are the local socket and the tunnel         *)
(* websocket of c.  Remote closes and socket errors are events of the      *)
(* environment.  A websocket that close() was called on, or that failed,   *)
(* is "closing" until the ws library emits 'close'.  The observer follows  *)
(* rxjs: after error() or complete() it ignores later calls, and           *)
(* unsubscribing runs the teardown the subscribe function returned.        *)
(***************************************************************************)
CONSTANTS Conns

Directions == {"forward", "reverse"}
TcpStates == {"none", "connecting", "open", "errored", "destroyed"}
WsStates == {"none", "connecting", "open", "closing", "closed"}

VARIABLES
    direction,  \* request.direction
    obs,        \* the subscriber: "active", "errored", "completed", "unsubscribed"
    server,     \* forward: the local server, "listening" or "failed"
    control,    \* reverse: the control websocket; "crashed" when the process died
    tcp,        \* tcp[c]: the local socket of c
    ws          \* ws[c]: the tunnel websocket of c

vars == <<direction, obs, server, control, tcp, ws>>

TypeOK ==
    /\ direction \in Directions
    /\ obs \in {"active", "errored", "completed", "unsubscribed"}
    /\ server \in {"none", "listening", "failed"}
    /\ control \in {"none", "connecting", "open", "closed", "crashed"}
    /\ tcp \in [Conns -> TcpStates]
    /\ ws \in [Conns -> WsStates]

\* observer.error and observer.complete: ignored once the subscriber stopped.
Error == obs' = IF obs = "active" THEN "errored" ELSE obs
Complete == obs' = IF obs = "active" THEN "completed" ELSE obs

\* socket.destroy(): a socket its own error destroyed stays marked "errored".
Destroy(c) == tcp' = [tcp EXCEPT ![c] = IF @ = "errored" THEN @ ELSE "destroyed"]

\* websocket.close(): a CONNECTING socket is aborted, an open one starts the
\* closing handshake; either way 'close' follows.
CloseWs(c) == ws' = [ws EXCEPT ![c] = IF @ \in {"connecting", "open"} THEN "closing" ELSE @]

Running == control # "crashed"

\* forwardRequest's subscribe function: server.listen(request.localPort).
ForwardSubscribe == server = "listening" /\ control = "none"

\* reverseRequest's subscribe function: the control websocket to /reverse.
ReverseSubscribe == server = "none" /\ control = "connecting"

\* open(request) dispatches on request.direction; the consumer subscribes.
Init ==
    /\ direction \in Directions
    /\ obs = "active"
    /\ IF direction = "forward" THEN ForwardSubscribe ELSE ReverseSubscribe
    /\ tcp = [c \in Conns |-> "none"]
    /\ ws = [c \in Conns |-> "none"]

-----------------------------------------------------------------------------
(* forwardRequest *)

\* The server's connection listener: a websocket to /forward for c.
Accept(c) ==
    /\ direction = "forward" /\ server = "listening" /\ tcp[c] = "none"
    /\ tcp' = [tcp EXCEPT ![c] = "open"]
    /\ ws' = [ws EXCEPT ![c] = "connecting"]
    /\ UNCHANGED <<direction, obs, server, control>>

\* ws 'open': wrap, pipe, observer.next({type: 'connected'}).
ForwardOpen(c) ==
    /\ direction = "forward" /\ ws[c] = "connecting"
    /\ ws' = [ws EXCEPT ![c] = "open"]
    /\ UNCHANGED <<direction, obs, server, control, tcp>>

\* The wrapped stream's 'error': c.destroy(), observer.error(); the
\* websocket itself is left to the wrapper.
WsStreamError(c) ==
    /\ direction = "forward" /\ ws[c] = "open"
    /\ Destroy(c) /\ Error
    /\ UNCHANGED <<direction, server, control, ws>>

\* ws 'error': c.destroy(), observer.error(); 'close' follows.
ForwardWsError(c) ==
    /\ direction = "forward" /\ ws[c] \in {"connecting", "open"}
    /\ ws' = [ws EXCEPT ![c] = "closing"]
    /\ Destroy(c) /\ Error
    /\ UNCHANGED <<direction, server, control>>

\* c 'error' (the socket is destroyed by its error): ws.close(), observer.error().
ClientSocketError(c) ==
    /\ direction = "forward" /\ tcp[c] = "open"
    /\ tcp' = [tcp EXCEPT ![c] = "errored"]
    /\ CloseWs(c) /\ Error
    /\ UNCHANGED <<direction, server, control>>

\* server 'error': observer.error(); the server no longer listens.
ServerError ==
    /\ direction = "forward" /\ server = "listening"
    /\ server' = "failed" /\ Error
    /\ UNCHANGED <<direction, control, tcp, ws>>

-----------------------------------------------------------------------------
(* reverseRequest *)

ControlOpen ==
    /\ control = "connecting"
    /\ control' = "open"
    /\ UNCHANGED <<direction, obs, server, tcp, ws>>

\* The server closes the control websocket; there is no 'close' listener.
ControlClose ==
    /\ control = "open"
    /\ control' = "closed"
    /\ UNCHANGED <<direction, obs, server, tcp, ws>>

\* The control websocket has no 'error' listener: the emitter throws and
\* the process ends.
ControlError ==
    /\ control \in {"connecting", "open"}
    /\ control' = "crashed"
    /\ UNCHANGED <<direction, obs, server, tcp, ws>>

\* 'message' "NewConnection:id": connect to localHost:localPort.
NewConnection(c) ==
    /\ Running /\ control = "open" /\ tcp[c] = "none"
    /\ tcp' = [tcp EXCEPT ![c] = "connecting"]
    /\ UNCHANGED <<direction, obs, server, control, ws>>

\* The connect callback: a websocket to /connect for the id.
LocalConnected(c) ==
    /\ Running /\ direction = "reverse" /\ tcp[c] = "connecting"
    /\ tcp' = [tcp EXCEPT ![c] = "open"]
    /\ ws' = [ws EXCEPT ![c] = "connecting"]
    /\ UNCHANGED <<direction, obs, server, control>>

\* client 'open': wrap, pipe, observer.next({type: 'connected'}).
ClientOpen(c) ==
    /\ Running /\ direction = "reverse" /\ ws[c] = "connecting"
    /\ ws' = [ws EXCEPT ![c] = "open"]
    /\ UNCHANGED <<direction, obs, server, control, tcp>>

\* client 'error': observer.error(), tcp.destroy(), client.close().
ClientError(c) ==
    /\ Running /\ direction = "reverse" /\ ws[c] \in {"connecting", "open"}
    /\ Error /\ Destroy(c)
    /\ ws' = [ws EXCEPT ![c] = "closing"]
    /\ UNCHANGED <<direction, server, control>>

\* tcp 'error', connecting or connected: observer.error(), tcp.destroy().
LocalSocketError(c) ==
    /\ Running /\ direction = "reverse" /\ tcp[c] \in {"connecting", "open"}
    /\ tcp' = [tcp EXCEPT ![c] = "errored"]
    /\ Error
    /\ UNCHANGED <<direction, server, control, ws>>

-----------------------------------------------------------------------------
(* Both directions *)

\* The server closes the tunnel websocket of c.
RemoteClose(c) ==
    /\ Running /\ ws[c] = "open"
    /\ ws' = [ws EXCEPT ![c] = "closing"]
    /\ UNCHANGED <<direction, obs, server, control, tcp>>

\* ws 'close'. forward: c.destroy(), observer.complete(); reverse has no
\* 'close' listener.
Closed(c) ==
    /\ Running /\ ws[c] = "closing"
    /\ ws' = [ws EXCEPT ![c] = "closed"]
    /\ IF direction = "forward"
       THEN Destroy(c) /\ Complete
       ELSE UNCHANGED <<tcp, obs>>
    /\ UNCHANGED <<direction, server, control>>

\* The consumer unsubscribes.  Observable.create was given no teardown, so
\* nothing is closed.
Unsubscribe ==
    /\ Running /\ obs = "active"
    /\ obs' = "unsubscribed"
    /\ UNCHANGED <<direction, server, control, tcp, ws>>

Next ==
    \/ ServerError \/ ControlOpen \/ ControlClose \/ ControlError \/ Unsubscribe
    \/ \E c \in Conns :
        \/ Accept(c) \/ ForwardOpen(c) \/ WsStreamError(c) \/ ForwardWsError(c)
        \/ ClientSocketError(c)
        \/ NewConnection(c) \/ LocalConnected(c) \/ ClientOpen(c) \/ ClientError(c)
        \/ LocalSocketError(c)
        \/ RemoteClose(c) \/ Closed(c)

\* The ws library always ends a closing handshake, by its close timer if the
\* peer does not answer: 'close' is eventually emitted.
Spec == Init /\ [][Next]_vars /\ \A c \in Conns : WF_vars(Closed(c))


-----------------------------------------------------------------------------
(* Properties *)

\* Nothing the subscription opened is listening or open any more.
Released ==
    /\ server # "listening"
    /\ control \notin {"connecting", "open"}
    /\ \A c \in Conns : ws[c] \in {"none", "closed"}

(* Once the consumer unsubscribes from open(), the subscription eventually *)
(* releases what it opened: the forward server stops accepting, the        *)
(* control and tunnel websockets are closed.                               *)
UnsubscribeReleases == obs = "unsubscribed" ~> Released

=============================================================================
