---------------------------- MODULE EntityStore ----------------------------
(***************************************************************************)
(* What World promises of the entities it stores, with no chunk, row or    *)
(* archetype in sight: every live handle has its components, and what is   *)
(* done to one entity is seen by no other.                                 *)
(***************************************************************************)
EXTENDS Integers

CONSTANTS Handle, Components, Values, Disabled, EnableAble, ChangeAble

VARIABLES
  store,   \* the components of every live handle
  tick

vars == <<store, tick>>

Stamp(c) == IF c \in ChangeAble THEN tick ELSE 0

Fresh(c, v) ==
  [value |-> v, enabled |-> ~ (c \in EnableAble /\ v \in Disabled),
   added |-> Stamp(c), changed |-> Stamp(c)]

Init ==
  /\ store = [h \in {} |-> << >>]
  /\ tick = 1

Spawn(h, values) ==
  /\ h \notin DOMAIN store
  /\ store' = [g \in DOMAIN store \cup {h} |->
                 IF g = h THEN [c \in DOMAIN values |-> Fresh(c, values[c])]
                          ELSE store[g]]

Despawn(h) ==
  /\ h \in DOMAIN store
  /\ store' = [g \in DOMAIN store \ {h} |-> store[g]]

(* A component the entity already has keeps its enable bit and its added   *)
(* tick, whichever archetype the entity moves to.                          *)
Put(h, values) ==
  /\ h \in DOMAIN store
  /\ store' = [store EXCEPT ![h] =
       [c \in DOMAIN @ \cup DOMAIN values |->
          IF c \in DOMAIN values \ DOMAIN @ THEN Fresh(c, values[c])
          ELSE IF c \in DOMAIN values
          THEN [value |-> values[c], enabled |-> @[c].enabled,
                added |-> @[c].added, changed |-> Stamp(c)]
          ELSE @[c]]]

Take(h, cs) ==
  /\ h \in DOMAIN store
  /\ cs \subseteq DOMAIN store[h]
  /\ store' = [store EXCEPT ![h] = [c \in DOMAIN @ \ cs |-> @[c]]]

SetEnabled(h, c, enabled) ==
  /\ h \in DOMAIN store
  /\ c \in DOMAIN store[h] \cap EnableAble
  /\ store' = [store EXCEPT ![h][c].enabled = enabled]

Bundles == UNION {[cs -> Values] : cs \in (SUBSET Components) \ {{}}}

Operate ==
  \E h \in Handle :
    \/ \E values \in Bundles : Spawn(h, values) \/ Put(h, values)
    \/ Despawn(h)
    \/ \E cs \in SUBSET Components : Take(h, cs)
    \/ \E c \in Components, on \in BOOLEAN : SetEnabled(h, c, on)

AdvanceTick == tick' = tick + 1

Next == \/ Operate /\ UNCHANGED tick
        \/ AdvanceTick /\ UNCHANGED store

Spec == Init /\ [][Next]_vars
=============================================================================
