-------------------------- MODULE DebugObjectManager --------------------------
(***************************************************************************)
(* The DebugObjectManager namespace (src/aux-server/aux-web/shared/scene/  *)
(* debugobjectmanager/DebugObjectManager.ts): debug objects taken from     *)
(* one object pool per kind, each kept until its kill time, and given back *)
(* to its pool by update or removeAll.  The render loop calls update and   *)
(* render; game code calls the draw functions; keys '1' and '2' toggle     *)
(* useDepth and enabled inside update.                                     *)
(*                                                                         *)
(* The pools (ObjectPool, not in the repository) are modelled as what      *)
(* init and the draw and restore calls need: retrieve hands out a free     *)
(* object, or a new one when none is free; restore takes it back.  Time is *)
(* counted in ticks; _time.timeSinceStart is the tick of the last update.  *)
(***************************************************************************)
EXTENDS Naturals, FiniteSets

CONSTANTS
    StartSize,   \* objects initializePool makes for each pool (10 in the code)
    Durations,   \* durations passed to the draw functions
    MaxTime,     \* the clock stops here, and no object outlives it
    MaxDraws     \* draw calls in a behaviour

Pools == {"box3helper_pool", "pointhelper_pool", "linehelper_pool",
          "arrowhelper_pool"}

VARIABLES
    initialized, enabled, useDepth,
    now,           \* the clock
    time,          \* _time.timeSinceStart
    debugObjects,  \* _debugObjects, each with the serial of its draw call
    free,          \* free[p]: objects pool p holds
    made,          \* made[p]: objects pool p has ever made
    draws          \* draw calls made so far

vars == <<initialized, enabled, useDepth, now, time, debugObjects, free, made, draws>>

DebugObject == [serial : 1..MaxDraws, poolId : Pools, killTime : 0..MaxTime]

TypeOK ==
    /\ initialized \in BOOLEAN /\ enabled \in BOOLEAN /\ useDepth \in BOOLEAN
    /\ now \in 0..MaxTime /\ time \in 0..now
    /\ debugObjects \subseteq DebugObject
    /\ free \in [Pools -> 0..(StartSize + MaxDraws)]
    /\ made \in [Pools -> 0..(StartSize + MaxDraws)]
    /\ draws \in 0..MaxDraws

\* The module's variables before init: enabled = true, useDepth = false.
Init ==
    /\ initialized = FALSE /\ enabled = TRUE /\ useDepth = FALSE
    /\ now = 0 /\ time = 0
    /\ debugObjects = {}
    /\ free = [p \in Pools |-> 0] /\ made = [p \in Pools |-> 0]
    /\ draws = 0

-----------------------------------------------------------------------------
\* The objects of os that belong to pool p.
OfPool(os, p) == Cardinality({o \in os : o.poolId = p})

\* pool.restore(o.object3D) for every object of os.
RestoreAll(os) == free' = [p \in Pools |-> free[p] + OfPool(os, p)]

\* init: returns at once when already initialized.
init ==
    /\ ~initialized
    /\ initialized' = TRUE
    /\ time' = 0 /\ now' = 0
    /\ debugObjects' = {}
    /\ free' = [p \in Pools |-> StartSize] /\ made' = [p \in Pools |-> StartSize]
    /\ UNCHANGED <<enabled, useDepth, draws>>

\* (mutant) _debugObjects is not emptied after the restores.
removeAllKeeps ==
    /\ initialized
    /\ RestoreAll(debugObjects)
    /\ UNCHANGED <<initialized, enabled, useDepth, now, time, debugObjects, made, draws>>

removeAll ==
    /\ initialized
    /\ RestoreAll(debugObjects)
    /\ debugObjects' = {}
    /\ UNCHANGED <<initialized, enabled, useDepth, now, time, made, draws>>

\* The objects update restores at time t.
Expired(t) == {o \in debugObjects : o.killTime <= t}

(* update: when enabled, _time.update() and the restore of every object    *)
(* whose kill time has come; then the key toggles, read after the expiry.  *)
update ==
    /\ initialized
    /\ \E key1, key2 \in BOOLEAN :
          /\ useDepth' = (useDepth # key1)
          /\ enabled' = (enabled # key2)
    /\ IF enabled
       THEN /\ time' = now
            /\ RestoreAll(Expired(now))
            /\ debugObjects' = debugObjects \ Expired(now)
       ELSE UNCHANGED <<time, free, debugObjects>>
    /\ UNCHANGED <<initialized, now, made, draws>>

\* render draws the debug scene; it changes no state the model keeps.
render ==
    /\ initialized /\ enabled
    /\ UNCHANGED vars

(* A draw function (drawBox3, drawPoint, drawLine, drawArrow) after its    *)
(* early returns: retrieve from pool p, add to the scene, and push the     *)
(* object with killTime = _time.timeSinceStart + duration.                 *)
Draw(p, duration) ==
    /\ initialized /\ enabled
    /\ draws < MaxDraws /\ time + duration <= MaxTime
    /\ IF free[p] > 0
       THEN free' = [free EXCEPT ![p] = @ - 1] /\ UNCHANGED made
       ELSE made' = [made EXCEPT ![p] = @ + 1] /\ UNCHANGED free
    /\ draws' = draws + 1
    /\ debugObjects' = debugObjects \cup
                          {[serial |-> draws + 1, poolId |-> p, killTime |-> time + duration]}
    /\ UNCHANGED <<initialized, enabled, useDepth, now, time>>

drawBox3(d) == Draw("box3helper_pool", d)
drawPoint(d) == Draw("pointhelper_pool", d)

\* (mutant) drawLine records the point helper pool as the object's pool.
drawLineWrongPool(d) ==
    /\ initialized /\ enabled
    /\ draws < MaxDraws /\ time + d <= MaxTime
    /\ IF free["linehelper_pool"] > 0
       THEN free' = [free EXCEPT !["linehelper_pool"] = @ - 1] /\ UNCHANGED made
       ELSE made' = [made EXCEPT !["linehelper_pool"] = @ + 1] /\ UNCHANGED free
    /\ draws' = draws + 1
    /\ debugObjects' = debugObjects \cup
                          {[serial |-> draws + 1, poolId |-> "pointhelper_pool",
                            killTime |-> time + d]}
    /\ UNCHANGED <<initialized, enabled, useDepth, now, time>>

drawLine(d) == Draw("linehelper_pool", d)
drawArrow(d) == Draw("arrowhelper_pool", d)

\* The clock advances.
Tick ==
    /\ initialized /\ now < MaxTime
    /\ now' = now + 1
    /\ UNCHANGED <<initialized, enabled, useDepth, time, debugObjects, free, made, draws>>

Next ==
    \/ init \/ removeAll \/ update \/ render \/ Tick
    \/ \E d \in Durations : drawBox3(d) \/ drawPoint(d) \/ drawLine(d) \/ drawArrow(d)

(* The render loop calls update every frame, and the clock runs.  Draws,   *)
(* removeAll and key presses are up to the game code and the user.         *)
Spec == Init /\ [][Next]_vars /\ WF_vars(update) /\ WF_vars(Tick)

-----------------------------------------------------------------------------
(* Every object a pool has made is either free in the pool or held by      *)
(* exactly one active debug object of that pool: update and removeAll      *)
(* never restore an object twice, nor to another pool.                     *)
PoolBalance ==
    \A p \in Pools : free[p] + OfPool(debugObjects, p) = made[p]

=============================================================================
