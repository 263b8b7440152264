--------------------------- MODULE ConnectableAuxVM ---------------------------
(***************************************************************************)
(* ConnectableAuxVM (src/aux-vm-browser/vm/ConnectableAuxVM.ts) and the    *)
(* sub channels of the remote AuxChannel it is connected to over a         *)
(* MessagePort.  The remote side adds and removes sub channels and calls   *)
(* the listeners registered by init; the port delivers those callbacks in  *)
(* order.  _handleAddedSubChannel awaits getInfo and getChannel before it  *)
(* stores the sub VM; _handleRemovedSubChannel runs to its end at once.    *)
(*                                                                         *)
(* A sub channel instance is numbered by its creation; remote[id] is the   *)
(* instance the remote channel holds under id (0: none).                   *)
(***************************************************************************)
EXTENDS Naturals, Sequences

CONSTANTS
    ChannelIds,     \* sub channel ids
    MaxSubChannels, \* sub channel instances the remote creates in a behaviour
    NULL

VARIABLES
    remote,      \* remote[id]: the remote's sub channel instance under id
    created,     \* instances created so far
    port,        \* callbacks sent over the port and not yet run
    adds,        \* _handleAddedSubChannel calls waiting on an await
    subVMMap,    \* _subVMMap: id -> instance of the stored sub VM (0: none)
    announced,   \* sub VMs emitted on subVMAdded and not on subVMRemoved
    listening,   \* init's registerListeners has resolved
    proxy,       \* _proxy: the wrapped port, or NULL
    released,    \* unsubscribe has released the proxy
    lastCall     \* what the last proxied call (setUser, sendEvents, ...) did

vars == <<remote, created, port, adds, subVMMap, announced, listening, proxy,
          released, lastCall>>

Instances == 1..MaxSubChannels
Callbacks == [kind : {"added"}, id : ChannelIds, inst : Instances] \cup
             [kind : {"removed"}, id : ChannelIds]
AddCall == [id : ChannelIds, inst : Instances, pc : {"getInfo", "getChannel"}]

TypeOK ==
    /\ remote \in [ChannelIds -> 0..MaxSubChannels]
    /\ created \in 0..MaxSubChannels
    /\ port \in Seq(Callbacks)
    /\ adds \subseteq AddCall
    /\ subVMMap \in [ChannelIds -> 0..MaxSubChannels]
    /\ announced \subseteq (ChannelIds \X Instances)
    /\ listening \in BOOLEAN /\ released \in BOOLEAN
    /\ proxy \in {"wrapped", NULL}
    /\ lastCall \in {NULL, "null", "resolved", "threw"}

\* The constructor: wrap(port) gives the proxy, the map is empty.
Init ==
    /\ remote = [id \in ChannelIds |-> 0]
    /\ created = 0
    /\ port = <<>>
    /\ adds = {}
    /\ subVMMap = [id \in ChannelIds |-> 0]
    /\ announced = {}
    /\ listening = FALSE
    /\ proxy = "wrapped"
    /\ released = FALSE
    /\ lastCall = NULL

-----------------------------------------------------------------------------
\* init: registerListeners resolves and the remote starts calling back.
init ==
    /\ ~listening
    /\ listening' = TRUE
    /\ UNCHANGED <<remote, created, port, adds, subVMMap, announced, proxy, released, lastCall>>

\* unsubscribe: the subscription's teardown calls _proxy[releaseProxy]();
\* _proxy keeps its value.
unsubscribe ==
    /\ ~released
    /\ released' = TRUE
    /\ UNCHANGED <<remote, created, port, adds, subVMMap, announced, listening, proxy,
                   lastCall>>

\* A proxied method (setUser, setGrant, sendEvents, shout, formulaBatch,
\* forkAux, exportBots, export, getTags): `if (!this._proxy) return null`,
\* then the call through the proxy, which throws once the proxy is released.
ProxiedCall ==
    /\ lastCall' = CASE proxy = NULL -> "null"
                     [] released     -> "threw"
                     [] OTHER        -> "resolved"
    /\ UNCHANGED <<remote, created, port, adds, subVMMap, announced, listening, proxy,
                   released>>

(* The remote channel creates or disposes of a sub channel and calls the   *)
(* matching listener, whose call is queued on the port.                    *)
RemoteAddSubChannel(id) ==
    /\ listening
    /\ remote[id] = 0
    /\ created < MaxSubChannels
    /\ created' = created + 1
    /\ remote' = [remote EXCEPT ![id] = created + 1]
    /\ port' = Append(port, [kind |-> "added", id |-> id, inst |-> created + 1])
    /\ UNCHANGED <<adds, subVMMap, announced, listening, proxy, released, lastCall>>

RemoteRemoveSubChannel(id) ==
    /\ listening
    /\ remote[id] # 0
    /\ remote' = [remote EXCEPT ![id] = 0]
    /\ port' = Append(port, [kind |-> "removed", id |-> id])
    /\ UNCHANGED <<created, adds, subVMMap, announced, listening, proxy, released, lastCall>>

(* _handleAddedSubChannel runs up to its first await: getInfo is sent.     *)
HandleAddedSubChannel ==
    /\ port # <<>> /\ Head(port).kind = "added"
    /\ adds' = adds \cup {[id |-> Head(port).id, inst |-> Head(port).inst,
                           pc |-> "getInfo"]}
    /\ port' = Tail(port)
    /\ UNCHANGED <<remote, created, subVMMap, announced, listening, proxy, released, lastCall>>

GetInfoResolves(a) ==
    /\ a.pc = "getInfo"
    /\ adds' = (adds \ {a}) \cup {[a EXCEPT !.pc = "getChannel"]}
    /\ UNCHANGED <<remote, created, port, subVMMap, announced, listening, proxy,
                   released, lastCall>>

(* getChannel resolves: the sub VM is stored under its id, replacing any   *)
(* sub VM stored there, and emitted on subVMAdded.                         *)
GetChannelResolves(a) ==
    /\ a.pc = "getChannel"
    /\ adds' = adds \ {a}
    /\ subVMMap' = [subVMMap EXCEPT ![a.id] = a.inst]
    /\ announced' = announced \cup {<<a.id, a.inst>>}
    /\ UNCHANGED <<remote, created, port, listening, proxy, released, lastCall>>

(* _handleRemovedSubChannel: if a sub VM is stored under the id, delete it *)
(* and emit it on subVMRemoved; otherwise do nothing.                      *)
HandleRemovedSubChannel ==
    LET id == Head(port).id IN
    /\ port # <<>> /\ Head(port).kind = "removed"
    /\ port' = Tail(port)
    /\ IF subVMMap[id] # 0
       THEN /\ subVMMap' = [subVMMap EXCEPT ![id] = 0]
            /\ announced' = announced \ {<<id, subVMMap[id]>>}
       ELSE UNCHANGED <<subVMMap, announced>>
    /\ UNCHANGED <<remote, created, adds, listening, proxy, released, lastCall>>

Next ==
    \/ init
    \/ unsubscribe
    \/ ProxiedCall
    \/ \E id \in ChannelIds : RemoteAddSubChannel(id) \/ RemoteRemoveSubChannel(id)
    \/ HandleAddedSubChannel
    \/ HandleRemovedSubChannel
    \/ \E a \in adds : GetInfoResolves(a) \/ GetChannelResolves(a)

(* The port delivers every message and every awaited proxy call resolves.  *)
Fairness ==
    /\ WF_vars(HandleAddedSubChannel)
    /\ WF_vars(HandleRemovedSubChannel)
    /\ \A id \in ChannelIds, i \in Instances, pc \in {"getInfo", "getChannel"} :
          LET a == [id |-> id, inst |-> i, pc |-> pc] IN
          WF_vars(a \in adds /\ (GetInfoResolves(a) \/ GetChannelResolves(a)))

Spec == Init /\ [][Next]_vars /\ Fairness

-----------------------------------------------------------------------------
\* Nothing is in flight between the remote channel and the VM.
Settled == port = <<>> /\ adds = {}

(* Once every callback has been handled, the VM holds a sub VM for exactly *)
(* the sub channels the remote channel has, and the sub VMs announced on   *)
(* subVMAdded and not withdrawn on subVMRemoved are those.                 *)
SubVMsMatchChannels ==
    Settled =>
        /\ subVMMap = remote
        /\ announced = {<<id, remote[id]>> : id \in {i \in ChannelIds : remote[i] # 0}}

=============================================================================
