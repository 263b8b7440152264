-------------------------- MODULE MCWebSocketClient --------------------------
EXTENDS WebSocketClient

CONSTANTS c1, c2

\* Two accepted sockets (forward) or two announced ids (reverse): enough
\* for one tunnel to fail while another is open.
MCConns == {c1, c2}

=============================================================================
