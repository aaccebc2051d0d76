--------------------------- MODULE QueryRegistry ---------------------------
(***************************************************************************)
(* The world's registries around WorldStorage: components, archetypes and  *)
(* queries by the index they were registered at, the sets of component ids *)
(* that name an archetype, and the list of archetypes every query keeps    *)
(* (src/src/world/mod.rs, query_spec.rs, arch_spec.rs, src/src/utils.rs,   *)
(* src/src/query/access_scope.rs). WorldStorage finds an archetype by its  *)
(* components; here it is found as the code does, by ids.                  *)
(*   an element  one parameter of a query's tuple: what it does to the     *)
(*               column of c ("read", "write", "exclude" for Without, or   *)
(*               "entity" for the handle, which has no column) and the     *)
(*               enable bit it asks for ("none", "enabled", "disabled");   *)
(*   a query     the sequence of its elements, which is T::TYPE_ID.        *)
(***************************************************************************)
EXTENDS WorldStorage, ComponentBitSet, SequenceValueHashMap

CONSTANT Tuples   \* the T: TArchetype of the program, as its descriptors

ASSUME TuplesAssumption == Tuples \subseteq Seq(Components) \ {<< >>}

Seqs == INSTANCE SequencesExt
Sets == INSTANCE FiniteSetsExt

VARIABLES
  component_counter,         \* World::component_counter, id by component
  arch_specs,                \* the registry's view of World::archetypes
  component_set_counter,     \* archetype id by set of component ids
  query_counter,             \* World::query_counter, spec by query
  global_archetype_version

registries == <<component_counter, arch_specs, component_set_counter,
                query_counter, global_archetype_version>>

RegistryInit ==
  /\ Init
  /\ component_counter = EmptyMap
  /\ arch_specs = EmptyMap
  /\ component_set_counter = [ids \in {} |-> 0]
  /\ query_counter = EmptyMap
  /\ global_archetype_version = 1

----------------------------------------------------------------------------
(* Components and archetypes.                                              *)

(* component_id_for.                                                       *)
WithComponent(counter, c) == GetOrInsert(counter, c, c)

IdsOf(counter, cs) == {IndexOf(counter, c) : c \in cs}

(* build_component_bit_set.                                                *)
BitSetOf(ids) == Sets!FoldSet(LAMBDA id, words : InsertId(words, id), EmptyBitSet, ids)

(* register_archetype_spec, unless the set of ids has its archetype.       *)
WithArchSpec(reg, cs) ==
  LET ids == IdsOf(component_counter', cs)
      id  == Len(reg.specs.values) + 1
  IN
  IF ids \in DOMAIN reg.ids
  THEN reg
  ELSE [specs |-> Insert(reg.specs, id, [components |-> cs, component_bit_set |-> BitSetOf(ids)]),
        ids   |-> [k \in DOMAIN reg.ids \cup {ids} |-> IF k = ids THEN id ELSE reg.ids[k]]]

SetOf(t) == Seqs!ToSet(t)

ValuesOf(t) == [SetOf(t) -> Values]

(* An operation on T looks archetypes up in this order. The first is that  *)
(* of T, whose descriptors may name components nobody has seen.            *)
Register(t, lookups) ==
  /\ component_counter' = Seqs!FoldLeft(WithComponent, component_counter, t)
  /\ LET reg == Seqs!FoldLeft(WithArchSpec,
                              [specs |-> arch_specs, ids |-> component_set_counter], lookups)
     IN
     /\ arch_specs' = reg.specs
     /\ component_set_counter' = reg.ids
     /\ global_archetype_version' =
          global_archetype_version + Len(reg.specs.values) - Len(arch_specs.values)
  /\ UNCHANGED query_counter

----------------------------------------------------------------------------
(* The operations of World, with the archetypes each one looks up.         *)
RegisterStep(t) ==
  /\ RegisterSingleton(SetOf(t)) \/ \E allow \in BOOLEAN : RegisterArchetype(SetOf(t), allow)
  /\ Register(t, <<SetOf(t)>>)

SingletonStep(t) ==
  /\ \E values \in ValuesOf(t) : TryCreateSingleton(values)
  /\ Register(t, <<SetOf(t)>>)

EnableStep(e, c) ==
  /\ \E enabled \in BOOLEAN : SetEnabled(e, c, enabled)
  /\ UNCHANGED registries

CreateStep(t) ==
  /\ \E values \in ValuesOf(t) : TryCreate(values)
  /\ Register(t, <<SetOf(t)>>)

DestroyStep(e) == TryDestroy(e) /\ UNCHANGED registries

(* get_or_create_add_edge.                                                 *)
AddStep(e, t) ==
  LET src == SpecOf(e).arch  added == SetOf(t) IN
  /\ \E values \in ValuesOf(t) : TryAddComponent(e, values)
  /\ Register(t, IF ContainsAnyComponentOf(src, added) THEN <<added>>
                  ELSE <<added, SetOfPair(src, added)>>)

MergeStep(e, t) ==
  /\ \E values \in ValuesOf(t) : TryMergeComponent(e, values)
  /\ Register(t, <<SetOf(t), SetOfPair(SpecOf(e).arch, SetOf(t))>>)

(* get_or_create_remove_edge.                                              *)
RemoveStep(e, t) ==
  LET src == SpecOf(e).arch  removed == SetOf(t) IN
  /\ TryRemoveComponent(e, removed)
  /\ Register(t, IF ContainsAllComponentsOf(src, removed)
                  THEN <<removed, SetOfAExcludeB(src, removed)>> ELSE <<removed>>)

(* What Cmd reaches, in place or at a sync point.                          *)
CmdStep ==
  \E t \in Tuples :
    \/ CreateStep(t)
    \/ \E e \in Entity : AddStep(e, t) \/ MergeStep(e, t) \/ RemoveStep(e, t) \/ DestroyStep(e)

(* What the owner of the world adds to that.                               *)
OwnerStep ==
  \/ \E t \in Tuples : RegisterStep(t) \/ SingletonStep(t)
  \/ \E e \in Entity : \E c \in Components : EnableStep(e, c)

----------------------------------------------------------------------------
(* Queries.                                                                *)
Elements == [access : {"read", "write", "exclude", "entity"}, c : Components,
             filter : {"none", "enabled", "disabled"}]

EmptyScope == [read |-> EmptyBitSet, write |-> EmptyBitSet, exclude |-> EmptyBitSet]

BitsCollide(s, t) ==
  \/ Intersects(s.read, t.write)
  \/ Intersects(s.write, t.read)
  \/ Intersects(s.write, t.write)

Extended(s, t) ==
  [read    |-> UnionWith(s.read, t.read),
   write   |-> UnionWith(s.write, t.write),
   exclude |-> UnionWith(s.exclude, t.exclude)]

(* access_scope of the next element of a tuple, and its extend: a refused  *)
(* tuple asks no further element.                                          *)
WithElement(acc, el) ==
  LET counter == WithComponent(acc.components, el.c)
      scope   == [EmptyScope EXCEPT ![el.access] = InsertId(EmptyBitSet, IndexOf(counter, el.c))]
  IN
  IF acc.refused \/ el.access = "entity"
  THEN acc
  ELSE [components |-> counter,
        scope      |-> Extended(acc.scope, scope),
        refused    |-> BitsCollide(acc.scope, scope)]

ScopeOf(counter, q) ==
  Seqs!FoldLeft(WithElement, [components |-> counter, scope |-> EmptyScope, refused |-> FALSE], q)

(* belong_to.                                                              *)
SpecBelongs(scope, spec) ==
  /\ ContainsAll(spec.component_bit_set, scope.read)
  /\ ContainsAll(spec.component_bit_set, scope.write)
  /\ ~ Intersects(spec.component_bit_set, scope.exclude)

(* Indices in increasing order: the k-th has k - 1 of them below it.       *)
InOrder(indices) ==
  [k \in 1..Cardinality(indices) |->
     CHOOSE i \in indices : Cardinality({j \in indices : j < i}) = k - 1]

(* build_archetype_which_contains.                                         *)
ArchetypesWhichContain(scope) ==
  InOrder({i \in DOMAIN arch_specs.values : SpecBelongs(scope, arch_specs.values[i])})

FreshSpec(scope) ==
  [access_scope |-> scope,
   archetypes   |-> ArchetypesWhichContain(scope),
   version      |-> global_archetype_version]

(* Bug: only the version of a stale list is renewed.                       *)
Refreshed_KeepsList(queries, q) ==
  [queries EXCEPT !.values[IndexOf(queries, q)].version = global_archetype_version]

(* Bug: a known query is taken as it is, however old its list.             *)
Refreshed_TakesStale(queries, q) == queries

Refreshed(queries, q) ==
  IF ValueOf(queries, q).version = global_archetype_version
  THEN queries
  ELSE Insert(queries, q, FreshSpec(ValueOf(queries, q).access_scope))

(* prepare_query_src_access, on the components and the queries.            *)
PrepareQuery(reg, q) ==
  LET asked == ScopeOf(reg.components, q) IN
  IF ContainsKey(reg.queries, q)
  THEN [reg EXCEPT !.queries = Refreshed(@, q)]
  ELSE [components |-> asked.components,
        queries    |-> IF asked.refused THEN reg.queries
                       ELSE Insert(reg.queries, q, FreshSpec(asked.scope))]

(* query_src_access answers.                                               *)
Usable(q) ==
  /\ ContainsKey(query_counter, q)
  /\ ValueOf(query_counter, q).version = global_archetype_version

ArchIndices(q) == ValueOf(query_counter, q).archetypes

----------------------------------------------------------------------------
(* The set of an archetype decides whether a query walks it, whatever ids  *)
(* its components got.                                                     *)
NamedAs(q, access) == {q[i].c : i \in {k \in DOMAIN q : q[k].access = access}}

Selects(q, cs) ==
  /\ NamedAs(q, "read") \cup NamedAs(q, "write") \subseteq cs
  /\ NamedAs(q, "exclude") \cap cs = {}

(* The registries stay in lockstep: an index never moves, an id names one  *)
(* set of components and a set one id, and both name the archetypes that   *)
(* the structural operations find by their components.                     *)
RegistriesAgree ==
  /\ \A map \in {component_counter, arch_specs, query_counter} : InLockstep(map)
  /\ {arch_specs.values[i].components : i \in DOMAIN arch_specs.values} = DOMAIN archetypes
  /\ Len(arch_specs.values) = Cardinality(DOMAIN archetypes)
  /\ \A i \in DOMAIN arch_specs.values :
       LET spec == arch_specs.values[i]  ids == IdsOf(component_counter, spec.components) IN
       /\ component_set_counter[ids] = i
       /\ Ids(spec.component_bit_set) = ids
  /\ global_archetype_version = 1 + Len(arch_specs.values)

(* The list a query keeps is exact for the archetypes there were at its    *)
(* version, in their order, although ids, bit sets of different lengths    *)
(* and an arbitrary order of registration stand between the two: query     *)
(* iteration reads columns of these archetypes without asking again.       *)
CacheExact ==
  \A q \in DOMAIN query_counter.indices :
    LET spec == ValueOf(query_counter, q) IN
    spec.archetypes =
      InOrder({i \in 1..(spec.version - 1) : Selects(q, arch_specs.values[i].components)})
=============================================================================
