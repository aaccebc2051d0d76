---------------------------- MODULE SystemGroups ----------------------------
(***************************************************************************)
(* How a scheduler decides which systems may run at once                   *)
(* (src/src/schedule/system_spec.rs, scheduler.rs) and the jobs it runs.   *)
(* A system is registered parameter by parameter, a query element by       *)
(* element; a group of registered systems is checked pair by pair; then    *)
(* its jobs run with nothing between them.                                 *)
(***************************************************************************)
EXTENDS AccessScope, FiniteSets

CONSTANTS
  Systems,     \* the types of systems, the key of SystemSpecs
  GroupLen,    \* how many systems the group holds
  MaxParams,   \* bound: how many parameters there are, of all systems
  MaxItems     \* bound: how many elements a query has

ASSUME GroupsAssumption == GroupLen \in Nat \ {0} /\ MaxParams \in Nat /\ MaxItems \in Nat

Jobs == 1..GroupLen

VARIABLES
  query,      \* the scope of the parameter that is being read
  items,      \* history: the scopes of its elements
  building,   \* AccessScopes::scopes of the system that is being registered
  specs,      \* SystemSpecs::specs
  group,      \* ScheduleStep::Parallel, once add_system_parallel took it
  running     \* jobs of run_indexed that have not ended; nothing orders them

vars == <<query, items, building, specs, group, running>>

NoGroup == << >>

Init ==
  /\ query = Default
  /\ items = << >>
  /\ building = << >>
  /\ specs = [s \in {} |-> << >>]
  /\ group = NoGroup
  /\ running = {}

----------------------------------------------------------------------------
NextQuery == query' = Default /\ items' = << >>

(* register panics, and nothing of the system is kept.                     *)
Rejected ==
  /\ building' = << >>
  /\ NextQuery

(* AccessScope::extend with the next element of a query.                   *)
Extend(element) ==
  /\ DOMAIN specs # Systems
  /\ Len(items) < MaxItems
  /\ \/ /\ CollideWith(query, element)
        /\ Rejected
     \/ /\ ~ CollideWith(query, element)
        /\ query' = Union(query, element)
        /\ items' = Append(items, element)
        /\ UNCHANGED building
  /\ UNCHANGED <<specs, group, running>>

(* Bug: a parameter is compared with the one before it alone.              *)
FitsIn_LastOnly(scopes, scope) ==
  \A k \in DOMAIN scopes : k = Len(scopes) => ~ ConflictsWith(scopes[k], scope)

FitsIn(scopes, scope) == \A k \in DOMAIN scopes : ~ ConflictsWith(scopes[k], scope)

Params == UNION {{s} \X DOMAIN specs[s] : s \in DOMAIN specs}

(* AccessScopes::push with a query that has all of its elements.           *)
Push ==
  /\ items # << >>
  /\ Cardinality(Params) + Len(building) < MaxParams
  /\ \/ /\ ~ FitsIn(building, query)
        /\ Rejected
     \/ /\ FitsIn(building, query)
        /\ building' = Append(building, query)
        /\ NextQuery
  /\ UNCHANGED <<specs, group, running>>

(* SystemSpecs::register keeps the scopes under the type of the system.    *)
Register(s) ==
  /\ items = << >>
  /\ s \notin DOMAIN specs
  /\ specs' = [t \in DOMAIN specs \cup {s} |-> IF t = s THEN building ELSE specs[t]]
  /\ building' = << >>
  /\ UNCHANGED <<query, items, group, running>>

(* Bug: parameters are compared place by place.                            *)
CanParallelWith_PlaceByPlace(a, b) ==
  \A k \in DOMAIN a \cap DOMAIN b : ~ ConflictsWith(a[k], b[k])

CanParallelWith(a, b) == \A k \in DOMAIN a, l \in DOMAIN b : ~ ConflictsWith(a[k], b[l])

(* Bug: a system is compared with the next one of the group alone.         *)
GroupCanParallel_Neighbours(g) ==
  \A i, j \in Jobs : j = i + 1 => CanParallelWith(specs[g[i]], specs[g[j]])

(* check_group_can_parallel. A system may be in the group twice.           *)
GroupCanParallel(g) ==
  \A i, j \in Jobs : i < j => CanParallelWith(specs[g[i]], specs[g[j]])

(* add_system_parallel.                                                    *)
AddSystemParallel(g) ==
  /\ group = NoGroup
  /\ GroupCanParallel(g)
  /\ group' = g
  /\ UNCHANGED <<query, items, building, specs, running>>

(* run_system_group, which returns when every job has ended.               *)
RunSystemGroup ==
  /\ group # NoGroup
  /\ running = {}
  /\ running' = Jobs
  /\ UNCHANGED <<query, items, building, specs, group>>

EndJob(i) ==
  /\ i \in running
  /\ running' = running \ {i}
  /\ UNCHANGED <<query, items, building, specs, group>>

Next ==
  \/ \E element \in Elements : Extend(element)
  \/ Push
  \/ \E s \in Systems : Register(s)
  \/ \E g \in [Jobs -> DOMAIN specs] : AddSystemParallel(g)
  \/ RunSystemGroup
  \/ \E i \in Jobs : EndJob(i)

Spec == Init /\ [][Next]_vars
----------------------------------------------------------------------------
(* Scopes where scopes belong, the one of a query that of its elements,    *)
(* and a group of registered systems.                                      *)
TypeOK ==
  /\ query \in Scope
  /\ query.read    = UNION {items[k].read : k \in DOMAIN items}
  /\ query.write   = UNION {items[k].write : k \in DOMAIN items}
  /\ query.exclude = UNION {items[k].exclude : k \in DOMAIN items}
  /\ items \in Seq(Scope)
  /\ building \in Seq(Scope)
  /\ DOMAIN specs \subseteq Systems
  /\ specs \in [DOMAIN specs -> Seq(Scope)]
  /\ group = NoGroup \/ group \in [Jobs -> DOMAIN specs]
  /\ running \subseteq Jobs
  /\ running # {} => group # NoGroup

(* One of the two writes a column the other holds.                         *)
Touch(s, t) == Intersects(s.write, Required(t)) \/ Intersects(t.write, Required(s))

(* They do so on the rows of one archetype, if it were to exist.           *)
Races(s, t) ==
  \E arch \in SUBSET Components : BelongTo(s, arch) /\ BelongTo(t, arch) /\ Touch(s, t)

(* The elements of one query share its row, and the parameters of one      *)
(* system are all alive while it runs: no two of them reach the same       *)
(* column of the same archetype unless both only read (access_scope.rs,    *)
(* extend and push).                                                       *)
NothingAliases ==
  /\ \A k, l \in DOMAIN items : k # l => ~ Touch(items[k], items[l])
  /\ \A k, l \in DOMAIN building : k # l => ~ Races(building[k], building[l])
  /\ \A s \in DOMAIN specs : \A k, l \in DOMAIN specs[s] :
       k # l => ~ Races(specs[s][k], specs[s][l])

(* Two jobs that run at the same time never reach the same column of an    *)
(* archetype unless both only read, whichever archetypes there are and     *)
(* whichever systems the group repeats (scheduler.rs, run_system_group).   *)
JobsDontRace ==
  \A i, j \in running : i # j =>
    \A k \in DOMAIN specs[group[i]], l \in DOMAIN specs[group[j]] :
      ~ Races(specs[group[i]][k], specs[group[j]][l])

(* A query that leaves out what it asks for walks nothing.                 *)
WalksSomething(s) == ~ Intersects(s.exclude, Required(s))

AllWalk(scopes) == \A k \in DOMAIN scopes : WalksSomething(scopes[k])

(* Only races are turned away: where a parameter does not fit, or two      *)
(* systems may not be in one group, some archetype would have them race,   *)
(* "the union of both requirements" (access_scope.rs,                      *)
(* matches_archetypes_disjoint_from), unless a query walks nothing at all. *)
OnlyRacesRejected ==
  /\ ~ FitsIn(building, query) /\ AllWalk(Append(building, query)) =>
       \E k \in DOMAIN building : Races(building[k], query)
  /\ \A s, t \in DOMAIN specs :
       ~ CanParallelWith(specs[s], specs[t]) /\ AllWalk(specs[s]) /\ AllWalk(specs[t]) =>
         \E k \in DOMAIN specs[s], l \in DOMAIN specs[t] : Races(specs[s][k], specs[t][l])
=============================================================================
