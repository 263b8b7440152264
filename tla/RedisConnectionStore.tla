------------------------- MODULE RedisConnectionStore -------------------------
(***************************************************************************)
(* The Redis implementation of ApiaryConnectionStore                       *)
(* (src/casual-apiary-redis/src/RedisConnectionStore.ts).                  *)
(*                                                                         *)
(* Every store method is an async function that issues one Redis command   *)
(* per `await`.  Redis executes each command atomically, but nothing makes *)
(* a method atomic: the handlers of one device connection (its join, leave,*)
(* rate-limit and disconnect messages) may run their commands interleaved. *)
(* A call in flight is a record in handler[c][l]: connection c's lane l.   *)
(* Lanes = 1 is a caller that serialises the store calls of a connection;  *)
(* Lanes = 2 lets two calls of one connection overlap.                     *)
(*                                                                         *)
(* Redis keys are abstracted to the set of their hash fields; the JSON     *)
(* values are left out (no property reads them).                           *)
(***************************************************************************)
EXTENDS Naturals, FiniteSets

CONSTANTS
    Conns,        \* server-created connection ids
    Namespaces,   \* namespaces a device can join
    Lanes,        \* store calls of one connection that may be in flight at once
    RateTimes,    \* timeMs values passed to setConnectionRateLimitExceededTime
    NULL

ASSUME Lanes \in Nat \ {0}
ASSUME NULL \notin RateTimes \cup Namespaces

VARIABLES
    connections,  \* fields of /{g}/connections
    nsConns,      \* nsConns[n]: fields of /{g}/namespace_connections/{n}
    connNs,       \* connNs[c]: fields of /{g}/connections/{c}
    connNsTTL,    \* /{g}/connections/{c} carries an expiry set by EXPIRE
    rateLimit,    \* value of /{g}/rate_limited/{c}, NULL when the key is absent
    rateTTL,      \* /{g}/rate_limited/{c} carries an expiry
    phase,        \* the device connection: "new", "open" or "closed"
    handler       \* handler[c][l]: the store call running in lane l of c

\* The keys the store writes (connectionsKey, namespaceConnectionsKey,
\* connectionIdKey, connectionRateLimitKey) with their expiries.
redis == <<connections, nsConns, connNs, connNsTTL, rateLimit, rateTTL>>
vars == <<redis, phase, handler>>

Ops == {"saveNamespaceConnection", "deleteNamespaceConnection",
        "clearConnection", "expireConnection",
        "setConnectionRateLimitExceededTime"}

Idle == [op |-> "idle", pc |-> "done", ns |-> NULL, t |-> NULL, todo |-> {}]

Call == [op : Ops, pc : {"hsetNamespace", "hsetConnection", "hdelNamespace",
                         "hdelConnection", "hkeys", "hdelNamespaces", "del",
                         "expire", "set", "expireRate", "delRate"},
         ns : Namespaces \cup {NULL}, t : RateTimes \cup {NULL},
         todo : SUBSET Namespaces]
    \cup {Idle}

Lane == 1..Lanes

TypeOK ==
    /\ connections \subseteq Conns
    /\ nsConns \in [Namespaces -> SUBSET Conns]
    /\ connNs \in [Conns -> SUBSET Namespaces]
    /\ connNsTTL \in [Conns -> BOOLEAN]
    /\ rateLimit \in [Conns -> RateTimes \cup {NULL}]
    /\ rateTTL \in [Conns -> BOOLEAN]
    /\ phase \in [Conns -> {"new", "open", "closed"}]
    /\ handler \in [Conns -> [Lane -> Call]]

Init ==
    /\ connections = {}
    /\ nsConns = [n \in Namespaces |-> {}]
    /\ connNs = [c \in Conns |-> {}]
    /\ connNsTTL = [c \in Conns |-> FALSE]
    /\ rateLimit = [c \in Conns |-> NULL]
    /\ rateTTL = [c \in Conns |-> FALSE]
    /\ phase = [c \in Conns |-> "new"]
    /\ handler = [c \in Conns |-> [l \in Lane |-> Idle]]

-----------------------------------------------------------------------------
(* Redis semantics the methods rely on.  HSET keeps a key's expiry; an     *)
(* HDEL that empties a hash deletes the key and with it the expiry.        *)

WriteConnNs(c, fields) ==
    /\ connNs' = [connNs EXCEPT ![c] = fields]
    /\ connNsTTL' = [connNsTTL EXCEPT ![c] = @ /\ fields # {}]

\* The call in lane l of c moves to pc, or ends when pc is "done".
Goto(c, l, pc) ==
    handler' = [handler EXCEPT ![c][l] =
                    IF pc = "done" THEN Idle ELSE [@ EXCEPT !.pc = pc]]

At(c, l, pc) == handler[c][l].pc = pc

Begin(c, l, call) ==
    /\ phase[c] = "open"
    /\ handler[c][l] = Idle
    /\ handler' = [handler EXCEPT ![c][l] = call]

-----------------------------------------------------------------------------
(* saveConnection: one HSET, issued by the connect handler.                *)
saveConnection(c) ==
    /\ phase[c] = "new"
    /\ connections' = connections \cup {c}
    /\ phase' = [phase EXCEPT ![c] = "open"]
    /\ UNCHANGED <<nsConns, connNs, connNsTTL, rateLimit, rateTTL, handler>>

(* saveNamespaceConnection: HSET namespace_connections/{ns}, then HSET     *)
(* connections/{connectionId}.                                             *)
CallSaveNamespaceConnection(c, l, n) ==
    /\ Begin(c, l, [Idle EXCEPT !.op = "saveNamespaceConnection",
                                !.pc = "hsetNamespace", !.ns = n])
    /\ UNCHANGED <<redis, phase>>

SaveHsetNamespace(c, l) ==
    LET n == handler[c][l].ns IN
    /\ At(c, l, "hsetNamespace")
    /\ nsConns' = [nsConns EXCEPT ![n] = @ \cup {c}]
    /\ Goto(c, l, "hsetConnection")
    /\ UNCHANGED <<connections, connNs, connNsTTL, rateLimit, rateTTL, phase>>

\* (mutant) the second HSET is left out: connections/{c} never learns n.
SaveHsetConnectionSkipped(c, l) ==
    /\ At(c, l, "hsetConnection")
    /\ Goto(c, l, "done")
    /\ UNCHANGED <<redis, phase>>

SaveHsetConnection(c, l) ==
    LET n == handler[c][l].ns IN
    /\ At(c, l, "hsetConnection")
    /\ connNs' = [connNs EXCEPT ![c] = @ \cup {n}]
    /\ Goto(c, l, "done")
    /\ UNCHANGED <<connections, nsConns, connNsTTL, rateLimit, rateTTL, phase>>

(* deleteNamespaceConnection: HDEL namespace_connections/{ns}, then HDEL   *)
(* connections/{connectionId}.                                             *)
CallDeleteNamespaceConnection(c, l, n) ==
    /\ Begin(c, l, [Idle EXCEPT !.op = "deleteNamespaceConnection",
                                !.pc = "hdelNamespace", !.ns = n])
    /\ UNCHANGED <<redis, phase>>

DeleteHdelNamespace(c, l) ==
    LET n == handler[c][l].ns IN
    /\ At(c, l, "hdelNamespace")
    /\ nsConns' = [nsConns EXCEPT ![n] = @ \ {c}]
    /\ Goto(c, l, "hdelConnection")
    /\ UNCHANGED <<connections, connNs, connNsTTL, rateLimit, rateTTL, phase>>

DeleteHdelConnection(c, l) ==
    LET n == handler[c][l].ns IN
    /\ At(c, l, "hdelConnection")
    /\ WriteConnNs(c, connNs[c] \ {n})
    /\ Goto(c, l, "done")
    /\ UNCHANGED <<connections, nsConns, rateLimit, rateTTL, phase>>

(* clearConnection and expireConnection, issued by the disconnect handler: *)
(* HKEYS connections/{connectionId}; one HDEL per namespace found, all in  *)
(* flight together (Promise.all, so in any order); HDEL connections; then  *)
(* DEL (clear) or EXPIRE 10 (expire) connections/{connectionId}.           *)
Disconnect(c, l, op) ==
    /\ op \in {"clearConnection", "expireConnection"}
    /\ Begin(c, l, [Idle EXCEPT !.op = op, !.pc = "hkeys"])
    /\ phase' = [phase EXCEPT ![c] = "closed"]
    /\ UNCHANGED redis

\* (mutant) HVALS instead of HKEYS: the stored DeviceNamespaceConnection
\* values come back instead of the namespace names.
HkeysReadsValues(c, l) ==
    /\ At(c, l, "hkeys")
    /\ handler' = [handler EXCEPT
                      ![c][l].todo = {[connectionId |-> c, namespace |-> n] :
                                          n \in connNs[c]},
                      ![c][l].pc = "hdelNamespaces"]
    /\ UNCHANGED <<redis, phase>>

Hkeys(c, l) ==
    /\ At(c, l, "hkeys")
    /\ handler' = [handler EXCEPT ![c][l].todo = connNs[c],
                                  ![c][l].pc = "hdelNamespaces"]
    /\ UNCHANGED <<redis, phase>>

\* (mutant) the HDEL names connectionIdKey instead of namespaceConnectionsKey.
HdelNamespaceWrongKey(c, l) ==
    /\ At(c, l, "hdelNamespaces")
    /\ \E n \in handler[c][l].todo :
          /\ WriteConnNs(c, connNs[c] \ {n})
          /\ handler' = [handler EXCEPT ![c][l].todo = @ \ {n}]
    /\ UNCHANGED <<connections, nsConns, rateLimit, rateTTL, phase>>

HdelNamespace(c, l) ==
    /\ At(c, l, "hdelNamespaces")
    /\ \E n \in handler[c][l].todo :
          /\ nsConns' = [nsConns EXCEPT ![n] = @ \ {c}]
          /\ handler' = [handler EXCEPT ![c][l].todo = @ \ {n}]
    /\ UNCHANGED <<connections, connNs, connNsTTL, rateLimit, rateTTL, phase>>

HdelConnections(c, l) ==
    /\ At(c, l, "hdelNamespaces")
    /\ handler[c][l].todo = {}
    /\ connections' = connections \ {c}
    /\ Goto(c, l, IF handler[c][l].op = "clearConnection" THEN "del" ELSE "expire")
    /\ UNCHANGED <<nsConns, connNs, connNsTTL, rateLimit, rateTTL, phase>>

DelConnectionKey(c, l) ==
    /\ At(c, l, "del")
    /\ WriteConnNs(c, {})
    /\ Goto(c, l, "done")
    /\ UNCHANGED <<connections, nsConns, rateLimit, rateTTL, phase>>

\* EXPIRE on a key that does not exist does nothing.
\* (mutant) EXPIRE is sent for connectionsKey, which the call has already
\* emptied of c, so connections/{c} keeps no expiry.
ExpireWrongKey(c, l) ==
    /\ At(c, l, "expire")
    /\ Goto(c, l, "done")
    /\ UNCHANGED <<redis, phase>>

ExpireConnectionKey(c, l) ==
    /\ At(c, l, "expire")
    /\ connNsTTL' = [connNsTTL EXCEPT ![c] = connNs[c] # {}]
    /\ Goto(c, l, "done")
    /\ UNCHANGED <<connections, nsConns, connNs, rateLimit, rateTTL, phase>>

(* setConnectionRateLimitExceededTime: DEL when timeMs is null, otherwise  *)
(* SET (which drops any expiry) and then EXPIRE 100.                       *)
CallSetRateLimit(c, l, t) ==
    /\ Begin(c, l, [Idle EXCEPT !.op = "setConnectionRateLimitExceededTime",
                                !.pc = IF t = NULL THEN "delRate" ELSE "set",
                                !.t = t])
    /\ UNCHANGED <<redis, phase>>

RateSet(c, l) ==
    /\ At(c, l, "set")
    /\ rateLimit' = [rateLimit EXCEPT ![c] = handler[c][l].t]
    /\ rateTTL' = [rateTTL EXCEPT ![c] = FALSE]
    /\ Goto(c, l, "expireRate")
    /\ UNCHANGED <<connections, nsConns, connNs, connNsTTL, phase>>

\* (mutant) the EXPIRE after SET is not issued.
RateExpireSkipped(c, l) ==
    /\ At(c, l, "expireRate")
    /\ Goto(c, l, "done")
    /\ UNCHANGED <<redis, phase>>

RateExpire(c, l) ==
    /\ At(c, l, "expireRate")
    /\ rateTTL' = [rateTTL EXCEPT ![c] = rateLimit[c] # NULL]
    /\ Goto(c, l, "done")
    /\ UNCHANGED <<connections, nsConns, connNs, connNsTTL, rateLimit, phase>>

RateDel(c, l) ==
    /\ At(c, l, "delRate")
    /\ rateLimit' = [rateLimit EXCEPT ![c] = NULL]
    /\ rateTTL' = [rateTTL EXCEPT ![c] = FALSE]
    /\ Goto(c, l, "done")
    /\ UNCHANGED <<connections, nsConns, connNs, connNsTTL, phase>>

(* Redis removes a key once its expiry has passed.                         *)
ConnectionKeyExpires(c) ==
    /\ connNsTTL[c]
    /\ WriteConnNs(c, {})
    /\ UNCHANGED <<connections, nsConns, rateLimit, rateTTL, phase, handler>>

RateKeyExpires(c) ==
    /\ rateTTL[c]
    /\ rateLimit' = [rateLimit EXCEPT ![c] = NULL]
    /\ rateTTL' = [rateTTL EXCEPT ![c] = FALSE]
    /\ UNCHANGED <<connections, nsConns, connNs, connNsTTL, phase, handler>>

-----------------------------------------------------------------------------
(* Read-only methods, as the values they return.                           *)
getConnection(c) == IF c \in connections THEN c ELSE NULL
getConnectionsByNamespace(n) == nsConns[n]
getNamespaceConnection(c, n) == IF c \in nsConns[n] THEN c ELSE NULL
countConnectionsByNamespace(n) == Cardinality(nsConns[n])
getConnections(c) == connNs[c]
countConnections == Cardinality(connections)
getConnectionRateLimitExceededTime(c) == rateLimit[c]

-----------------------------------------------------------------------------
\* A step of a call already in flight: the awaited Redis command completes.
Step(c, l) ==
    \/ SaveHsetNamespace(c, l)
    \/ SaveHsetConnection(c, l)
    \/ DeleteHdelNamespace(c, l)
    \/ DeleteHdelConnection(c, l)
    \/ Hkeys(c, l)
    \/ HdelNamespace(c, l)
    \/ HdelConnections(c, l)
    \/ DelConnectionKey(c, l)
    \/ ExpireConnectionKey(c, l)
    \/ RateSet(c, l)
    \/ RateExpire(c, l)
    \/ RateDel(c, l)

\* A handler of connection c starts a store call in lane l.
Start(c, l) ==
    \/ \E n \in Namespaces : CallSaveNamespaceConnection(c, l, n)
    \/ \E n \in Namespaces : CallDeleteNamespaceConnection(c, l, n)
    \/ \E op \in {"clearConnection", "expireConnection"} : Disconnect(c, l, op)
    \/ \E t \in RateTimes \cup {NULL} : CallSetRateLimit(c, l, t)

Next ==
    \E c \in Conns :
        \/ saveConnection(c)
        \/ \E l \in Lane : Start(c, l) \/ Step(c, l)
        \/ ConnectionKeyExpires(c)
        \/ RateKeyExpires(c)

(* Every awaited Redis command eventually completes, and Redis eventually  *)
(* removes an expired key.  Starting a call is up to the device, so it is  *)
(* not fair.                                                               *)
Fairness ==
    \A c \in Conns :
        /\ \A l \in Lane : WF_vars(Step(c, l))
        /\ WF_vars(ConnectionKeyExpires(c))
        /\ WF_vars(RateKeyExpires(c))

Spec == Init /\ [][Next]_vars /\ Fairness

-----------------------------------------------------------------------------
Quiet(c) == \A l \in Lane : handler[c][l] = Idle

(* After a device connection has been closed and its disconnect call has   *)
(* returned (and no other call of it is running), getConnectionsByNamespace*)
(* lists it under no namespace and countConnections does not count it: the *)
(* promise ApiaryConnectionStore makes for clearConnection and             *)
(* expireConnection.                                                       *)
DisconnectedForgotten ==
    \A c \in Conns :
        phase[c] = "closed" /\ Quiet(c) =>
            /\ getConnection(c) = NULL
            /\ \A n \in Namespaces : c \notin getConnectionsByNamespace(n)

(* Every field a namespace hash holds for a quiet connection is also       *)
(* recorded under connections/{c}, the key clearConnection and             *)
(* expireConnection read to find the namespaces to delete it from: a field *)
(* missing there is never cleaned up.                                      *)
NamespaceIndexed ==
    \A c \in Conns : \A n \in Namespaces :
        Quiet(c) /\ c \in nsConns[n] => n \in connNs[c]

(* Whenever no rate-limit call of c is running, a rate-limit key that      *)
(* exists carries an expiry, so a rate limit never sticks forever.         *)
RateLimitExpires ==
    \A c \in Conns :
        Quiet(c) /\ rateLimit[c] # NULL => rateTTL[c]

(* Every key the store keeps for a device connection is eventually gone    *)
(* once the connection has closed.                                         *)
Forgotten(c) ==
    /\ c \notin connections
    /\ \A n \in Namespaces : c \notin nsConns[n]
    /\ connNs[c] = {}
    /\ rateLimit[c] = NULL

EventuallyForgotten ==
    \A c \in Conns : phase[c] = "closed" ~> Forgotten(c)

(* ApiaryConnectionStore.expireConnection's comment: after the call "the   *)
(* connection will still be present in getConnection() (until the         *)
(* connection expires)".                                                   *)
ExpiredStillPresent ==
    \A c \in Conns : connNsTTL[c] => getConnection(c) # NULL

=============================================================================
