---------------------------- MODULE EntitySlots ----------------------------
(***************************************************************************)
(* The data structure of EntityAllocator (src/src/world/entity_allocator.rs)*)
(* and Entity (src/src/entity.rs), as operators on its two containers:     *)
(*   entities       the Vec<EntitySpec>: what each slot holds;             *)
(*   free_entities  the VecDeque<usize> of slots to recycle, oldest first. *)
(* An Entity is the pair of a slot and a version. Slot i of the Vec is     *)
(* entities[i + 1] here: sequences start at 1.                             *)
(* The operators only read and write the fields version and has_value of a *)
(* slot; a module that also keeps the row of the entity adds fields.       *)
(***************************************************************************)
EXTENDS Integers, Sequences

CONSTANTS
  MaxSlots,    \* Entity::MAX_IDX + 1: the slots a 40 bit index can name
  MaxVersion   \* Entity::MAX_VERSION: the versions one slot can spend

ASSUME SlotsAssumption == /\ MaxSlots \in Nat \ {0}
                          /\ MaxVersion \in Nat \ {0}

Entity == [idx : 1..MaxSlots, version : 1..MaxVersion]

INITIALIZE_VERSION == 1

Slot == [version : 1..MaxVersion, has_value : BOOLEAN]

NewEmptySlot == [version |-> INITIALIZE_VERSION, has_value |-> FALSE]

FreshEntity(i) == [idx |-> i, version |-> INITIALIZE_VERSION]

(* Bug: the version is not advanced when a slot is recycled.               *)
RecycledEntity_SameVersion(entities, i) == [idx |-> i, version |-> entities[i].version]

RecycledEntity(entities, i) == [idx |-> i, version |-> entities[i].version + 1]

(* new_entity_unlocked fails only where Entity::new does: the index space  *)
(* is used up and no slot waits to be recycled.                            *)
CanAllocate(entities, free_entities) ==
  \/ free_entities # << >>
  \/ Len(entities) < MaxSlots

(* The handle new_entity_unlocked returns. A recycled slot keeps its old   *)
(* version: only update_entity_spec writes the new one.                    *)
NextEntity(entities, free_entities) ==
  IF free_entities # << >>
  THEN RecycledEntity(entities, Head(free_entities))
  ELSE FreshEntity(Len(entities) + 1)

EntitiesAfterNew(entities, free_entities) ==
  IF free_entities # << >> THEN entities ELSE Append(entities, NewEmptySlot)

(* Bug: the slot is read off the queue but left in it.                     *)
FreeAfterNew_Peek(free_entities) == free_entities

FreeAfterNew(free_entities) ==
  IF free_entities # << >> THEN Tail(free_entities) ELSE free_entities

(* Bug: any handle of an occupied slot passes for its entity.              *)
Exists_AnyVersion(entities, e) ==
  /\ e.idx \in 1..Len(entities)
  /\ entities[e.idx].has_value

(* World::exists: the slot is there, holds a value, and of this version.   *)
Exists(entities, e) ==
  /\ e.idx \in 1..Len(entities)
  /\ entities[e.idx].has_value
  /\ entities[e.idx].version = e.version

(* erase_entity: whatever e's version is, it is the slot that is cleared,  *)
(* then queued for recycling or, out of versions, retired.                 *)
EntitiesAfterErase(entities, e) == [entities EXCEPT ![e.idx].has_value = FALSE]

(* Bug: off by one, the last version is recycled once more.                *)
IsSpent_OffByOne(entities, e) == entities[e.idx].version > MaxVersion

IsSpent(entities, e) == entities[e.idx].version >= MaxVersion

FreeAfterErase(entities, free_entities, e) ==
  IF IsSpent(entities, e) THEN free_entities ELSE Append(free_entities, e.idx)

(* Bug: a retired slot is dropped without being counted.                   *)
RetiredAfterErase_Uncounted(entities, retired, e) == retired

RetiredAfterErase(entities, retired, e) ==
  IF IsSpent(entities, e) THEN retired + 1 ELSE retired
=============================================================================
