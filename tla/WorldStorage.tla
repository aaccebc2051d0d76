---------------------------- MODULE WorldStorage ----------------------------
(***************************************************************************)
(* World's structural operations (src/src/world/mod.rs): an entity spec    *)
(* per slot, the archetypes by their set of components, and every call     *)
(* that creates, destroys or moves a row. All of them take &mut World, so  *)
(* each is one action, its failing paths included: an operation that is    *)
(* refused may have registered an archetype on the way.                    *)
(*                                                                         *)
(* component_set_counter makes the archetype id and the set of components  *)
(* one to one, so an archetype is named by its set here. The edge caches   *)
(* only remember what WithArchetype computes: archetypes are never removed *)
(* and keep their components, so a cached edge leads where a new one would.*)
(***************************************************************************)
EXTENDS EntitySlots, Archetype, FiniteSets

CONSTANTS
  Values,       \* what a component can hold
  MaxTick       \* bound of the model on the world's tick

ASSUME StorageAssumption == MaxTick \in Nat \ {0} /\ Disabled \subseteq Values

VARIABLES
  entities,               \* EntityAllocator: Seq of EntitySpec
  free_entities,
  retired_entity_slots,
  archetypes,             \* World::archetypes, by set of components
  tick                    \* World::tick

vars == <<entities, free_entities, retired_entity_slots, archetypes, tick>>

(* A component set and values for it: the T of the generic operations.     *)
ComponentSets == (SUBSET Components) \ {{}}
Bundles == UNION {[cs -> Values] : cs \in ComponentSets}

EntitySpec(version, arch, at) ==
  [version |-> version, has_value |-> TRUE,
   arch |-> arch, chunk |-> at.chunk, row |-> at.row]

NewEmptySpec ==
  [version |-> INITIALIZE_VERSION, has_value |-> FALSE,
   arch |-> {}, chunk |-> 1, row |-> 1]

SlotsAfterNew ==
  IF free_entities # << >> THEN entities ELSE Append(entities, NewEmptySpec)

Init ==
  /\ entities = << >>
  /\ free_entities = << >>
  /\ retired_entity_slots = 0
  /\ archetypes = [cs \in {} |-> NewArchetype(FALSE, TRUE)]
  /\ tick = 1

(* create_archetype_id: a known set of components keeps its archetype,     *)
(* whatever kind is asked for.                                             *)
WithArchetype(known, cs, new) ==
  [k \in DOMAIN known \cup {cs} |-> IF k \in DOMAIN known THEN known[k] ELSE new]

Chunked(allow) == NewArchetype(FALSE, allow)
Singleton      == NewArchetype(TRUE, FALSE)

(* The sets of components the archetypes of a pair are made from.          *)
SetOfPair(a, b)               == a \cup b
SetOfAExcludeB(a, b)          == a \ b
ContainsAnyComponentOf(a, b)  == a \cap b # {}
ContainsAllComponentsOf(a, b) == b \subseteq a

(* get_or_create_archetype_id, with DEFAULT_ARCHETYPE_CFG.                 *)
GetOrCreate(known, cs) == WithArchetype(known, cs, Chunked(TRUE))

----------------------------------------------------------------------------
(* try_register_archetype and try_register_singleton: asked for the other  *)
(* kind of a known set they fail, and change nothing.                      *)
RegisterArchetype(cs, allow) ==
  /\ archetypes' = WithArchetype(archetypes, cs, Chunked(allow))
  /\ UNCHANGED <<entities, free_entities, retired_entity_slots, tick>>

RegisterSingleton(cs) ==
  /\ archetypes' = WithArchetype(archetypes, cs, Singleton)
  /\ UNCHANGED <<entities, free_entities, retired_entity_slots, tick>>

(* The row of a new entity e, and its spec.                                *)
PushNew(known, slots, e, values) ==
  LET cs == DOMAIN values IN
  /\ archetypes' = [known EXCEPT ![cs] =
                      Push(@, [e |-> e, cells |-> NewCells(values, tick)])]
  /\ entities' = [slots EXCEPT ![e.idx] =
                    EntitySpec(e.version, cs, NextRow(known[cs]))]

(* try_create takes a slot first. On a singleton that already holds its    *)
(* entity create_components_for returns early, and the slot stays taken.   *)
TryCreate(values) ==
  LET known == GetOrCreate(archetypes, DOMAIN values) IN
  /\ CanAllocate(entities, free_entities)
  /\ free_entities' = FreeAfterNew(free_entities)
  /\ \/ /\ CanTakeARow(known[DOMAIN values])
        /\ PushNew(known, SlotsAfterNew, NextEntity(entities, free_entities), values)
     \/ /\ ~ CanTakeARow(known[DOMAIN values])
        /\ archetypes' = known
        /\ entities' = SlotsAfterNew
  /\ UNCHANGED <<retired_entity_slots, tick>>

(* Bug: try_create_singleton takes a slot before it asks the archetype.    *)
TryCreateSingleton_SlotFirst(values) ==
  LET known == WithArchetype(archetypes, DOMAIN values, Singleton)
      a     == known[DOMAIN values]
  IN
  /\ CanAllocate(entities, free_entities)
  /\ free_entities' = FreeAfterNew(free_entities)
  /\ \/ /\ a.is_singleton /\ CanTakeARow(a)
        /\ PushNew(known, SlotsAfterNew, NextEntity(entities, free_entities), values)
     \/ /\ ~ (a.is_singleton /\ CanTakeARow(a))
        /\ archetypes' = known
        /\ entities' = SlotsAfterNew
  /\ UNCHANGED <<retired_entity_slots, tick>>

(* try_create_singleton asks the archetype before it takes a slot.         *)
TryCreateSingleton(values) ==
  LET known == WithArchetype(archetypes, DOMAIN values, Singleton)
      a     == known[DOMAIN values]
      ready == /\ a.is_singleton
               /\ CanTakeARow(a)
               /\ CanAllocate(entities, free_entities)
  IN
  /\ \/ /\ ready
        /\ free_entities' = FreeAfterNew(free_entities)
        /\ PushNew(known, SlotsAfterNew, NextEntity(entities, free_entities), values)
     \/ /\ ~ ready
        /\ archetypes' = known
        /\ UNCHANGED <<entities, free_entities>>
  /\ UNCHANGED <<retired_entity_slots, tick>>

----------------------------------------------------------------------------
SpecOf(e) == entities[e.idx]
RowsAround(e) == archetypes[SpecOf(e).arch].chunks[SpecOf(e).chunk]
CellsOf(e) == RowsAround(e)[SpecOf(e).row].cells

(* Bug: nobody tells the spec of the row that was swapped in.              *)
UpdateEntityIndices_Forgotten(rows, r) == entities

(* update_entity_indices: the entity of the last row, if it is another     *)
(* one, now sits in the row that was vacated.                              *)
UpdateEntityIndices(rows, r) ==
  IF r = Len(rows)
  THEN entities
  ELSE [entities EXCEPT ![rows[Len(rows)].e.idx].row = r]

(* take_and_write_from and take_and_remove_from: the row of e leaves its   *)
(* archetype for dst, with the cells given.                                *)
MoveRow(known, e, dst, cells) ==
  LET spec == SpecOf(e) IN
  /\ archetypes' =
       [known EXCEPT ![dst] = Push(@, [e |-> e, cells |-> cells]),
                     ![spec.arch] = RemoveAt(@, spec.chunk, spec.row)]
  /\ entities' =
       [UpdateEntityIndices(RowsAround(e), spec.row) EXCEPT ![e.idx] =
          EntitySpec(e.version, dst, NextRow(known[dst]))]

(* Bug: only the archetype that is left is asked.                          *)
MayChange_SourceOnly(known, src, dst) == known[src].allow_structure_change

(* check_structure_change.                                                 *)
MayChange(known, src, dst) ==
  known[src].allow_structure_change /\ known[dst].allow_structure_change

TryDestroy(e) ==
  LET spec == SpecOf(e) IN
  /\ Exists(entities, e)
  /\ archetypes' = [archetypes EXCEPT ![spec.arch] = RemoveAt(@, spec.chunk, spec.row)]
  /\ entities' = EntitiesAfterErase(UpdateEntityIndices(RowsAround(e), spec.row), e)
  /\ free_entities' = FreeAfterErase(entities, free_entities, e)
  /\ retired_entity_slots' = RetiredAfterErase(entities, retired_entity_slots, e)
  /\ UNCHANGED tick

(* Refused when e has one of the components already, or an archetype on    *)
(* either side is locked.                                                  *)
TryAddComponent(e, values) ==
  LET src   == SpecOf(e).arch
      added == DOMAIN values
      dst   == SetOfPair(src, added)
      with1 == GetOrCreate(archetypes, added)
      with2 == GetOrCreate(with1, dst)
  IN
  /\ Exists(entities, e)
  /\ \/ /\ ContainsAnyComponentOf(src, added)
        /\ archetypes' = with1
        /\ UNCHANGED entities
     \/ /\ ~ ContainsAnyComponentOf(src, added)
        /\ ~ MayChange(with2, src, dst)
        /\ archetypes' = with2
        /\ UNCHANGED entities
     \/ /\ ~ ContainsAnyComponentOf(src, added)
        /\ MayChange(with2, src, dst)
        /\ MoveRow(with2, e, dst, MergedCells(CellsOf(e), values, tick))
  /\ UNCHANGED <<free_entities, retired_entity_slots, tick>>

(* Overwrites in place when e has every component already, locked or not.  *)
TryMergeComponent(e, values) ==
  LET spec == SpecOf(e)
      src  == spec.arch
      dst  == SetOfPair(src, DOMAIN values)
      known == GetOrCreate(GetOrCreate(archetypes, DOMAIN values), dst)
      cells == MergedCells(CellsOf(e), values, tick)
  IN
  /\ Exists(entities, e)
  /\ \/ /\ dst = src
        /\ archetypes' = [known EXCEPT ![src].chunks[spec.chunk][spec.row].cells = cells]
        /\ UNCHANGED entities
     \/ /\ dst # src
        /\ ~ MayChange(known, src, dst)
        /\ archetypes' = known
        /\ UNCHANGED entities
     \/ /\ dst # src
        /\ MayChange(known, src, dst)
        /\ MoveRow(known, e, dst, cells)
  /\ UNCHANGED <<free_entities, retired_entity_slots, tick>>

TryRemoveComponent(e, removed) ==
  LET src   == SpecOf(e).arch
      dst   == SetOfAExcludeB(src, removed)
      with1 == GetOrCreate(archetypes, removed)
      with2 == GetOrCreate(with1, dst)
  IN
  /\ Exists(entities, e)
  /\ \/ /\ ~ ContainsAllComponentsOf(src, removed)
        /\ archetypes' = with1
        /\ UNCHANGED entities
     \/ /\ ContainsAllComponentsOf(src, removed)
        /\ ~ MayChange(with2, src, dst)
        /\ archetypes' = with2
        /\ UNCHANGED entities
     \/ /\ ContainsAllComponentsOf(src, removed)
        /\ MayChange(with2, src, dst)
        /\ MoveRow(with2, e, dst, RemainingCells(CellsOf(e), removed))
  /\ UNCHANGED <<free_entities, retired_entity_slots, tick>>

----------------------------------------------------------------------------
(* What a query over the world writes: a value, or an enable bit.          *)
WriteCell(e, c, cell) ==
  LET spec == SpecOf(e) IN
  /\ archetypes' = [archetypes EXCEPT
       ![spec.arch].chunks[spec.chunk][spec.row].cells[c] = cell]
  /\ UNCHANGED <<entities, free_entities, retired_entity_slots, tick>>

WriteComponent(e, c, value) ==
  /\ Exists(entities, e)
  /\ c \in SpecOf(e).arch
  /\ WriteCell(e, c, ReplaceAt(CellsOf(e)[c], c, value, tick))

SetEnabled(e, c, enabled) ==
  /\ Exists(entities, e)
  /\ c \in SpecOf(e).arch \cap EnableAble
  /\ WriteCell(e, c, SetEnabledAt(CellsOf(e)[c], enabled))

(* create_query_since and every step of a scheduler advance the tick.      *)
AdvanceTick ==
  /\ tick < MaxTick
  /\ tick' = tick + 1
  /\ UNCHANGED <<entities, free_entities, retired_entity_slots, archetypes>>

Next ==
  \/ \E cs \in ComponentSets :
       \/ \E allow \in BOOLEAN : RegisterArchetype(cs, allow)
       \/ RegisterSingleton(cs)
  \/ \E values \in Bundles : TryCreate(values) \/ TryCreateSingleton(values)
  \/ \E e \in Entity :
       \/ TryDestroy(e)
       \/ \E values \in Bundles : TryAddComponent(e, values) \/ TryMergeComponent(e, values)
       \/ \E cs \in ComponentSets : TryRemoveComponent(e, cs)
       \/ \E c \in Components :
            \/ \E value \in Values : WriteComponent(e, c, value)
            \/ \E enabled \in BOOLEAN : SetEnabled(e, c, enabled)
  \/ AdvanceTick

Spec == Init /\ [][Next]_vars
----------------------------------------------------------------------------
Cell == [value : Values, enabled : BOOLEAN, added : 0..MaxTick, changed : 0..MaxTick]

IsRow(cs, row) ==
  /\ row.e \in Entity
  /\ DOMAIN row.cells = cs
  /\ \A c \in cs : /\ row.cells[c] \in Cell
                   /\ c \notin ChangeAble => row.cells[c].changed = Untracked

(* Type correctness: specs, archetypes and the rows of every chunk, whose  *)
(* cells are the components of their archetype.                            *)
TypeOK ==
  /\ Len(entities) <= MaxSlots
  /\ \A i \in DOMAIN entities :
       /\ entities[i].version \in 1..MaxVersion
       /\ entities[i].has_value \in BOOLEAN
       /\ entities[i].has_value => entities[i].arch \in DOMAIN archetypes
  /\ free_entities \in Seq(DOMAIN entities)
  /\ retired_entity_slots \in 0..MaxSlots
  /\ DOMAIN archetypes \subseteq SUBSET Components
  /\ \A cs \in DOMAIN archetypes :
       /\ archetypes[cs].is_singleton => ~ archetypes[cs].allow_structure_change
       /\ archetypes[cs].free_chunks_stored \subseteq DOMAIN archetypes[cs].chunks
       /\ \A chunk \in DOMAIN archetypes[cs].chunks :
            \A r \in DOMAIN archetypes[cs].chunks[chunk] :
              IsRow(cs, archetypes[cs].chunks[chunk][r])
  /\ tick \in 1..MaxTick

Live == {e \in Entity : Exists(entities, e)}

(* The spec of every live entity names a row that holds its handle, and    *)
(* every row below a chunk's len holds the handle of a live entity whose   *)
(* spec names it, whatever was swapped into it: what World reads without a *)
(* check (get_unchecked).                                                  *)
RowsMatchSpecs ==
  /\ \A e \in Live :
       /\ SpecOf(e).chunk \in DOMAIN archetypes[SpecOf(e).arch].chunks
       /\ SpecOf(e).row \in DOMAIN RowsAround(e)
       /\ RowsAround(e)[SpecOf(e).row].e = e
  /\ \A cs \in DOMAIN archetypes : \A chunk \in DOMAIN archetypes[cs].chunks :
       \A r \in DOMAIN archetypes[cs].chunks[chunk] :
         LET e == archetypes[cs].chunks[chunk][r].e IN
         /\ Exists(entities, e)
         /\ SpecOf(e) = EntitySpec(e.version, cs, [chunk |-> chunk, row |-> r])

(* A chunk is queued as free exactly while it has room, and once: queued   *)
(* while full it would be written beyond its end, dropped from the queue   *)
(* its room would be lost (issue #44). So no chunk holds more rows than    *)
(* its layout has room for, and a singleton has one chunk of one row, by   *)
(* whichever operation the row came.                                       *)
FreeChunksExact ==
  \A cs \in DOMAIN archetypes :
    LET a == archetypes[cs] IN
    /\ a.free_chunks_stored = {chunk \in DOMAIN a.chunks : ~ IsFull(a, chunk)}
    /\ a.free_chunks_stored = {a.free_chunks[k] : k \in DOMAIN a.free_chunks}
    /\ Len(a.free_chunks) = Cardinality(a.free_chunks_stored)
    /\ \A chunk \in DOMAIN a.chunks : Len(a.chunks[chunk]) <= MaxLen(a)
    /\ a.is_singleton => Len(a.chunks) <= 1

(* An archetype keeps its kind and its lock for good, and an entity never  *)
(* leaves or enters a locked archetype by a structure change, through add, *)
(* merge or remove (apis/mod.rs, allow_structure_change).                  *)
LocksHold ==
  [][/\ \A cs \in DOMAIN archetypes :
          /\ cs \in DOMAIN archetypes'
          /\ archetypes'[cs].is_singleton = archetypes[cs].is_singleton
          /\ archetypes'[cs].allow_structure_change = archetypes[cs].allow_structure_change
     /\ \A e \in Live :
          LET src == SpecOf(e).arch  dst == entities'[e.idx].arch IN
          Exists(entities', e) /\ dst # src =>
            \A cs \in {src, dst} : archetypes'[cs].allow_structure_change]_vars

(* Slots that are neither in use, queued for recycling nor retired.        *)
LostSlots ==
  Len(entities) - Cardinality({i \in DOMAIN entities : entities[i].has_value})
    - Len(free_entities) - retired_entity_slots

(* A slot falls out of account by one operation only, a create refused by  *)
(* a singleton that holds its entity, which loses the slot it took and     *)
(* changes nothing else (mod.rs:303, against what mod.rs:262 says of it).  *)
OnlyRefusedCreateLoses ==
  [][LostSlots' # LostSlots =>
       /\ LostSlots' = LostSlots + 1
       /\ \E cs \in DOMAIN archetypes : ~ CanTakeARow(archetypes[cs])
       /\ archetypes' = archetypes
       /\ entities' = SlotsAfterNew
       /\ free_entities' = FreeAfterNew(free_entities)]_vars

Store == INSTANCE EntityStore
           WITH Handle <- Entity, store <- [e \in Live |-> CellsOf(e)]

(* Chunks, rows and archetypes implement a map from live handles to their  *)
(* components: creating, destroying or moving one entity changes no value, *)
(* enable bit or tick of another, and a component an entity keeps keeps    *)
(* its own.                                                                *)
StoresEntities == Store!Spec
=============================================================================
