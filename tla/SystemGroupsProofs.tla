------------------------- MODULE SystemGroupsProofs -------------------------
(***************************************************************************)
(* For any components, systems and size of a group: the check of scopes    *)
(* keeps parallel jobs, the parameters of a system and the elements of a   *)
(* query off each other's columns, and turns away nothing but races.       *)
(***************************************************************************)
EXTENDS SystemGroups, TLAPS

(* What the checks made so far guarantee, in terms of scopes.              *)
Checked ==
  /\ \A k, l \in DOMAIN items : k # l => ~ Touch(items[k], items[l])
  /\ \A k, l \in DOMAIN building : k < l => ~ ConflictsWith(building[k], building[l])
  /\ \A s \in DOMAIN specs : \A k, l \in DOMAIN specs[s] :
       k < l => ~ ConflictsWith(specs[s][k], specs[s][l])
  /\ group # NoGroup => GroupCanParallel(group)

IInv == TypeOK /\ Checked
----------------------------------------------------------------------------
(* Scopes.                                                                 *)

(* access_scope.rs, conflicts_with: where two queries could race there is  *)
(* a conflict.                                                             *)
LEMMA RacesConflict ==
  ASSUME NEW s, NEW t, Races(s, t)
  PROVE  ConflictsWith(s, t) /\ ConflictsWith(t, s)
BY DEF Races, ConflictsWith, MatchesArchetypesDisjointFrom, CollideWith, Touch,
       BelongTo, Required, Intersects

(* And where there is a conflict they race on the archetype of all they    *)
(* ask for, if they walk anything.                                         *)
LEMMA ConflictRaces ==
  ASSUME NEW s \in Scope, NEW t \in Scope, ConflictsWith(s, t),
         WalksSomething(s), WalksSomething(t)
  PROVE  Races(s, t)
<1> DEFINE arch == Required(s) \cup Required(t)
<1>1. arch \in SUBSET Components
  BY DEF Scope, Required
<1>2. BelongTo(s, arch) /\ BelongTo(t, arch)
  BY DEF BelongTo, WalksSomething, ConflictsWith, MatchesArchetypesDisjointFrom,
         Intersects, Required
<1>3. Touch(s, t)
  BY DEF ConflictsWith, CollideWith, Touch, Intersects, Required
<1> QED BY <1>1, <1>2, <1>3 DEF Races

(* extend: an element that does not collide with a query does not touch    *)
(* any of its elements.                                                    *)
LEMMA NoCollisionNoTouch ==
  ASSUME NEW q, NEW e, NEW part, ~ CollideWith(q, e),
         part.read \subseteq q.read, part.write \subseteq q.write
  PROVE  ~ Touch(part, e) /\ ~ Touch(e, part)
BY DEF CollideWith, Touch, Intersects, Required

LEMMA ElementsAreScopes == Elements \subseteq Scope
BY DEF Elements, ReadsComponent, WritesComponent, LacksComponent, Default, Scope

(* What the provers need of Append.                                        *)
LEMMA AppendFacts ==
  ASSUME NEW S, NEW s \in Seq(S), NEW e \in S
  PROVE  /\ Append(s, e) \in Seq(S)
         /\ Len(s) \in Nat
         /\ DOMAIN s = 1..Len(s)
         /\ DOMAIN Append(s, e) = 1..(Len(s) + 1)
         /\ \A k \in 1..Len(s) : Append(s, e)[k] = s[k]
         /\ Append(s, e)[Len(s) + 1] = e
OBVIOUS
----------------------------------------------------------------------------
(* The invariant.                                                          *)

LEMMA InitIInv == Init => IInv
<1> SUFFICES ASSUME Init PROVE IInv
  OBVIOUS
<1>1. Default \in Scope
  BY DEF Default, Scope
<1>2. TypeOK
  BY <1>1 DEF Init, TypeOK, Default
<1>3. Checked
  BY DEF Init, Checked
<1> QED BY <1>2, <1>3 DEF IInv

(* A rejected system leaves nothing behind.                                *)
LEMMA RejectedStep ==
  ASSUME IInv, Rejected, UNCHANGED <<specs, group, running>>
  PROVE  IInv'
<1>1. Default \in Scope
  BY DEF Default, Scope
<1>2. TypeOK'
  BY <1>1 DEF IInv, TypeOK, Rejected, NextQuery, Default
<1>3. Checked'
  BY DEF IInv, Checked, Rejected, NextQuery, GroupCanParallel
<1> QED BY <1>2, <1>3 DEF IInv

LEMMA ExtendStep ==
  ASSUME IInv, NEW element \in Elements, Extend(element)
  PROVE  IInv'
<1>1. CASE CollideWith(query, element)
  BY <1>1, RejectedStep DEF Extend
<1>2. CASE ~ CollideWith(query, element)
  <2>1. /\ query' = Union(query, element)
        /\ items' = Append(items, element)
        /\ UNCHANGED <<building, specs, group, running>>
    BY <1>2 DEF Extend
  <2>2. element \in Scope /\ items \in Seq(Scope) /\ query \in Scope
    BY ElementsAreScopes DEF IInv, TypeOK
  <2>3. /\ items' \in Seq(Scope)
        /\ Len(items) \in Nat
        /\ DOMAIN items = 1..Len(items)
        /\ DOMAIN items' = 1..(Len(items) + 1)
        /\ \A k \in 1..Len(items) : items'[k] = items[k]
        /\ items'[Len(items) + 1] = element
    BY <2>1, <2>2, AppendFacts
  <2>4. TypeOK'
    <3>1. query' \in Scope
      BY <2>1, <2>2 DEF Union, Scope
    <3>2. /\ query'.read    = query.read \cup element.read
          /\ query'.write   = query.write \cup element.write
          /\ query'.exclude = query.exclude \cup element.exclude
      BY <2>1 DEF Union
    <3>3. query'.read = UNION {items'[k].read : k \in DOMAIN items'}
      <4>1. {items'[k].read : k \in DOMAIN items'} =
              {items[k].read : k \in DOMAIN items} \cup {element.read}
        BY <2>3
      <4>2. query.read = UNION {items[k].read : k \in DOMAIN items}
        BY DEF IInv, TypeOK
      <4> QED BY <3>2, <4>1, <4>2
    <3>4. query'.write = UNION {items'[k].write : k \in DOMAIN items'}
      <4>1. {items'[k].write : k \in DOMAIN items'} =
              {items[k].write : k \in DOMAIN items} \cup {element.write}
        BY <2>3
      <4>2. query.write = UNION {items[k].write : k \in DOMAIN items}
        BY DEF IInv, TypeOK
      <4> QED BY <3>2, <4>1, <4>2
    <3>5. query'.exclude = UNION {items'[k].exclude : k \in DOMAIN items'}
      <4>1. {items'[k].exclude : k \in DOMAIN items'} =
              {items[k].exclude : k \in DOMAIN items} \cup {element.exclude}
        BY <2>3
      <4>2. query.exclude = UNION {items[k].exclude : k \in DOMAIN items}
        BY DEF IInv, TypeOK
      <4> QED BY <3>2, <4>1, <4>2
    <3> QED BY <2>1, <2>3, <3>1, <3>3, <3>4, <3>5 DEF IInv, TypeOK
  <2>5. ASSUME NEW k \in DOMAIN items', NEW l \in DOMAIN items', k # l
        PROVE  ~ Touch(items'[k], items'[l])
    <3>1. ASSUME NEW m \in DOMAIN items
          PROVE  ~ Touch(items[m], element) /\ ~ Touch(element, items[m])
      <4>1. items[m].read \subseteq query.read /\ items[m].write \subseteq query.write
        BY <3>1 DEF IInv, TypeOK
      <4> QED BY <1>2, <4>1, NoCollisionNoTouch
    <3>2. CASE k \in DOMAIN items /\ l \in DOMAIN items
      BY <2>3, <2>5, <3>2 DEF IInv, Checked
    <3>3. CASE k = Len(items) + 1
      BY <2>3, <2>5, <3>1, <3>3
    <3>4. CASE l = Len(items) + 1
      BY <2>3, <2>5, <3>1, <3>4
    <3> QED BY <2>3, <2>5, <3>2, <3>3, <3>4
  <2>6. Checked'
    BY <2>1, <2>5 DEF IInv, Checked, GroupCanParallel
  <2> QED BY <2>4, <2>6 DEF IInv
<1> QED BY <1>1, <1>2

LEMMA PushStep ==
  ASSUME IInv, Push
  PROVE  IInv'
<1>1. CASE ~ FitsIn(building, query)
  BY <1>1, RejectedStep DEF Push
<1>2. CASE FitsIn(building, query)
  <2>1. /\ building' = Append(building, query)
        /\ NextQuery
        /\ UNCHANGED <<specs, group, running>>
    BY <1>2 DEF Push
  <2>2. building \in Seq(Scope) /\ query \in Scope
    BY DEF IInv, TypeOK
  <2>3. /\ building' \in Seq(Scope)
        /\ Len(building) \in Nat
        /\ DOMAIN building = 1..Len(building)
        /\ DOMAIN building' = 1..(Len(building) + 1)
        /\ \A k \in 1..Len(building) : building'[k] = building[k]
        /\ building'[Len(building) + 1] = query
    BY <2>1, <2>2, AppendFacts
  <2>4. TypeOK'
    <3>1. Default \in Scope
      BY DEF Default, Scope
    <3> QED BY <2>1, <2>3, <3>1 DEF IInv, TypeOK, NextQuery, Default
  <2>5. ASSUME NEW k \in DOMAIN building', NEW l \in DOMAIN building', k < l
        PROVE  ~ ConflictsWith(building'[k], building'[l])
    <3>1. k \in DOMAIN building
      BY <2>3, <2>5
    <3>2. CASE l \in DOMAIN building
      BY <2>3, <2>5, <3>1, <3>2 DEF IInv, Checked
    <3>3. CASE l = Len(building) + 1
      BY <1>2, <2>3, <3>1, <3>3 DEF FitsIn
    <3> QED BY <2>3, <2>5, <3>2, <3>3
  <2>6. Checked'
    BY <2>1, <2>5 DEF IInv, Checked, GroupCanParallel, NextQuery
  <2> QED BY <2>4, <2>6 DEF IInv
<1> QED BY <1>1, <1>2

(* A system that is registered later changes no group taken before.        *)
LEMMA RegisterStep ==
  ASSUME IInv, NEW s \in Systems, Register(s)
  PROVE  IInv'
<1>1. /\ s \notin DOMAIN specs
      /\ specs' = [t \in DOMAIN specs \cup {s} |-> IF t = s THEN building ELSE specs[t]]
      /\ building' = << >>
      /\ UNCHANGED <<query, items, group, running>>
  BY DEF Register
<1>2. /\ DOMAIN specs' = DOMAIN specs \cup {s}
      /\ specs'[s] = building
      /\ \A t \in DOMAIN specs : specs'[t] = specs[t]
  BY <1>1
<1>3. TypeOK'
  <2>1. specs' \in [DOMAIN specs' -> Seq(Scope)]
    BY <1>1, <1>2 DEF IInv, TypeOK
  <2>2. group' = NoGroup \/ group' \in [Jobs -> DOMAIN specs']
    BY <1>1, <1>2 DEF IInv, TypeOK
  <2> QED BY <1>1, <1>2, <2>1, <2>2 DEF IInv, TypeOK
<1>4. group' # NoGroup => GroupCanParallel(group)'
  BY <1>1, <1>2 DEF IInv, TypeOK, Checked, GroupCanParallel
<1>5. \A t \in DOMAIN specs' : \A k, l \in DOMAIN specs'[t] :
        k < l => ~ ConflictsWith(specs'[t][k], specs'[t][l])
  BY <1>2 DEF IInv, Checked
<1>6. Checked'
  BY <1>1, <1>4, <1>5 DEF IInv, Checked
<1> QED BY <1>3, <1>6 DEF IInv

LEMMA NextStep ==
  ASSUME IInv, [Next]_vars
  PROVE  IInv'
<1>1. ASSUME NEW element \in Elements, Extend(element)
      PROVE  IInv'
  BY <1>1, ExtendStep
<1>2. CASE Push
  BY <1>2, PushStep
<1>3. ASSUME NEW s \in Systems, Register(s)
      PROVE  IInv'
  BY <1>3, RegisterStep
<1>4. ASSUME NEW g \in [Jobs -> DOMAIN specs], AddSystemParallel(g)
      PROVE  IInv'
  <2>1. TypeOK'
    BY <1>4 DEF IInv, TypeOK, AddSystemParallel
  <2>2. Checked'
    BY <1>4 DEF IInv, Checked, AddSystemParallel, GroupCanParallel
  <2> QED BY <2>1, <2>2 DEF IInv
<1>5. CASE RunSystemGroup
  BY <1>5 DEF IInv, TypeOK, Checked, RunSystemGroup, GroupCanParallel
<1>6. ASSUME NEW i \in Jobs, EndJob(i)
      PROVE  IInv'
  BY <1>6 DEF IInv, TypeOK, Checked, EndJob, GroupCanParallel
<1>7. CASE UNCHANGED vars
  BY <1>7 DEF vars, IInv, TypeOK, Checked, GroupCanParallel
<1> QED BY <1>1, <1>2, <1>3, <1>4, <1>5, <1>6, <1>7 DEF Next

(* The inductive invariant of registering, grouping and running.           *)
THEOREM Invariant == Spec => []IInv
BY InitIInv, NextStep, PTL DEF Spec
----------------------------------------------------------------------------
(* query/mod.rs and system.rs: a query asks for exactly what its elements  *)
(* ask for, whichever of them were turned away, and a group names systems  *)
(* that are registered.                                                    *)
THEOREM TypeCorrect == Spec => []TypeOK
<1>1. IInv => TypeOK
  BY DEF IInv
<1> QED BY <1>1, Invariant, PTL

(* access_scope.rs: the elements of a query and the parameters of a system *)
(* never hold a column one of them writes.                                 *)
THEOREM SystemsDontAlias == Spec => []NothingAliases
<1>1. ASSUME IInv PROVE NothingAliases
  <2>1. ASSUME NEW p, NEW k \in DOMAIN p, NEW l \in DOMAIN p, k # l, p \in Seq(Scope),
               \A i, j \in DOMAIN p : i < j => ~ ConflictsWith(p[i], p[j])
        PROVE  ~ Races(p[k], p[l])
    <3>1. k < l \/ l < k
      BY <2>1
    <3> QED BY <2>1, <3>1, RacesConflict
  <2>2. /\ building \in Seq(Scope)
        /\ \A s \in DOMAIN specs : specs[s] \in Seq(Scope)
    BY <1>1 DEF IInv, TypeOK
  <2> QED BY <1>1, <2>1, <2>2 DEF IInv, Checked, NothingAliases
<1> QED BY <1>1, Invariant, PTL

(* scheduler.rs, run_system_group: jobs that run at the same time never    *)
(* reach the same column of an archetype unless both only read.            *)
THEOREM ParallelJobsDontRace == Spec => []JobsDontRace
<1>1. ASSUME IInv PROVE JobsDontRace
  <2> SUFFICES ASSUME NEW i \in running, NEW j \in running, i # j,
                      NEW k \in DOMAIN specs[group[i]], NEW l \in DOMAIN specs[group[j]]
               PROVE  ~ Races(specs[group[i]][k], specs[group[j]][l])
    BY DEF JobsDontRace
  <2>1. i \in Jobs /\ j \in Jobs /\ GroupCanParallel(group)
    BY <1>1 DEF IInv, TypeOK, Checked
  <2>2. i < j \/ j < i
    BY <2>1 DEF Jobs
  <2>3. \/ ~ ConflictsWith(specs[group[i]][k], specs[group[j]][l])
        \/ ~ ConflictsWith(specs[group[j]][l], specs[group[i]][k])
    BY <2>1, <2>2 DEF GroupCanParallel, CanParallelWith
  <2> QED BY <2>3, RacesConflict
<1> QED BY <1>1, Invariant, PTL

(* access_scope.rs, matches_archetypes_disjoint_from: nothing is turned    *)
(* away but what would race on some archetype.                             *)
THEOREM RejectsOnlyRaces == Spec => []OnlyRacesRejected
<1>1. ASSUME IInv PROVE OnlyRacesRejected
  <2>1. ASSUME ~ FitsIn(building, query), AllWalk(Append(building, query))
        PROVE  \E k \in DOMAIN building : Races(building[k], query)
    <3>1. building \in Seq(Scope) /\ query \in Scope
      BY <1>1 DEF IInv, TypeOK
    <3>2. PICK k \in DOMAIN building : ConflictsWith(building[k], query)
      BY <2>1 DEF FitsIn
    <3>3. building[k] \in Scope /\ WalksSomething(building[k]) /\ WalksSomething(query)
      BY <2>1, <3>1, AppendFacts DEF AllWalk
    <3> QED BY <3>1, <3>2, <3>3, ConflictRaces
  <2>2. ASSUME NEW s \in DOMAIN specs, NEW t \in DOMAIN specs,
               ~ CanParallelWith(specs[s], specs[t]), AllWalk(specs[s]), AllWalk(specs[t])
        PROVE  \E k \in DOMAIN specs[s], l \in DOMAIN specs[t] : Races(specs[s][k], specs[t][l])
    <3>1. specs[s] \in Seq(Scope) /\ specs[t] \in Seq(Scope)
      BY <1>1 DEF IInv, TypeOK
    <3>2. PICK k \in DOMAIN specs[s], l \in DOMAIN specs[t] :
            ConflictsWith(specs[s][k], specs[t][l])
      BY <2>2 DEF CanParallelWith
    <3>3. /\ specs[s][k] \in Scope /\ WalksSomething(specs[s][k])
          /\ specs[t][l] \in Scope /\ WalksSomething(specs[t][l])
      BY <2>2, <3>1, AppendFacts DEF AllWalk
    <3> QED BY <3>2, <3>3, ConflictRaces
  <2> QED BY <2>1, <2>2 DEF OnlyRacesRejected
<1> QED BY <1>1, Invariant, PTL
=============================================================================
