-------------------------- MODULE EntityAllocator --------------------------
(***************************************************************************)
(* EntityAllocator and the queues of pre-allocated entities its workers    *)
(* keep (src/src/world/entity_allocator.rs, src/src/world/worker_spec.rs). *)
(* One action per method. Each is atomic: the main thread calls through    *)
(* &mut self, a worker holds write_lock, and the two never overlap.        *)
(*                                                                         *)
(* What the allocator is owed by its callers is part of the model:         *)
(* update_entity_spec is called for a handle that was handed out and is    *)
(* not written yet, and erase_entity for an entity that exists. Module     *)
(* CmdBuffer models the callers that break this.                           *)
(***************************************************************************)
EXTENDS EntitySlots, FiniteSets

CONSTANTS
  Workers,              \* the threads that keep pre-allocated entities
  PreAllocatedAmount    \* PRE_ALLOCATED_ENTITIES_AMOUNT

ASSUME PreAllocAssumption == PreAllocatedAmount \in Nat \ {0}

VARIABLES
  entities,               \* Seq(Slot)
  free_entities,          \* slots waiting to be recycled, oldest first
  retired_entity_slots,   \* how many slots ran out of versions
  pre_allocated,          \* WorkerSpec::pre_allocated_entities of each worker
  outstanding,            \* handles handed out whose slot is not written yet
  issued                  \* history: how often each handle was handed out

vars == <<entities, free_entities, retired_entity_slots, pre_allocated,
          outstanding, issued>>

Init ==
  /\ entities = << >>
  /\ free_entities = << >>
  /\ retired_entity_slots = 0
  /\ pre_allocated = [w \in Workers |-> << >>]
  /\ outstanding = {}
  /\ issued = [e \in Entity |-> 0]

HandOut(e) ==
  /\ outstanding' = outstanding \cup {e}
  /\ issued' = [issued EXCEPT ![e] = @ + 1]

----------------------------------------------------------------------------
(* new_entity, on the main thread.                                         *)
NewEntity ==
  /\ CanAllocate(entities, free_entities)
  /\ HandOut(NextEntity(entities, free_entities))
  /\ entities' = EntitiesAfterNew(entities, free_entities)
  /\ free_entities' = FreeAfterNew(free_entities)
  /\ UNCHANGED <<retired_entity_slots, pre_allocated>>

Least(m, n) == IF m <= n THEN m ELSE n

(* How many of `amount` handles pre_allocate_entities takes from the free  *)
(* list, and how many new slots it opens. Where the index space ends the   *)
(* loop returns early and leaves the handles it already pushed in dst.     *)
Recycled(amount) == Least(amount, Len(free_entities))
Opened(amount)   == Least(amount - Recycled(amount), MaxSlots - Len(entities))

(* Bug: new slots are numbered as if none had been recycled before them.   *)
PreAllocatedEntities_Skipping(amount) ==
  [k \in 1..(Recycled(amount) + Opened(amount)) |->
     IF k <= Recycled(amount)
     THEN RecycledEntity(entities, free_entities[k])
     ELSE FreshEntity(Len(entities) + k)]

PreAllocatedEntities(amount) ==
  [k \in 1..(Recycled(amount) + Opened(amount)) |->
     IF k <= Recycled(amount)
     THEN RecycledEntity(entities, free_entities[k])
     ELSE FreshEntity(Len(entities) + k - Recycled(amount))]

(* pre_allocate_entities, called by a worker that has run out of handles:  *)
(* the whole loop runs under write_lock.                                   *)
PreAllocateEntities(w) ==
  /\ pre_allocated[w] = << >>
  /\ pre_allocated' =
       [pre_allocated EXCEPT ![w] = PreAllocatedEntities(PreAllocatedAmount)]
  /\ entities' = [i \in 1..(Len(entities) + Opened(PreAllocatedAmount)) |->
                    IF i <= Len(entities) THEN entities[i] ELSE NewEmptySlot]
  /\ free_entities' = SubSeq(free_entities, Recycled(PreAllocatedAmount) + 1,
                             Len(free_entities))
  /\ UNCHANGED <<retired_entity_slots, outstanding, issued>>

(* Cmd::try_create on a worker pops the front of its own queue.            *)
TakePreAllocated(w) ==
  /\ pre_allocated[w] # << >>
  /\ HandOut(Head(pre_allocated[w]))
  /\ pre_allocated' = [pre_allocated EXCEPT ![w] = Tail(@)]
  /\ UNCHANGED <<entities, free_entities, retired_entity_slots>>

(* Bug: the slot keeps the version of the entity it held before.           *)
UpdateEntitySpec_OldVersion(e) ==
  /\ e \in outstanding
  /\ outstanding' = outstanding \ {e}
  /\ entities' = [entities EXCEPT ![e.idx].has_value = TRUE]
  /\ UNCHANGED <<free_entities, retired_entity_slots, pre_allocated, issued>>

(* update_entity_spec, once the row of a new entity is written.            *)
UpdateEntitySpec(e) ==
  /\ e \in outstanding
  /\ outstanding' = outstanding \ {e}
  /\ entities' = [entities EXCEPT ![e.idx] =
                    [version |-> e.version, has_value |-> TRUE]]
  /\ UNCHANGED <<free_entities, retired_entity_slots, pre_allocated, issued>>

(* erase_entity, at the end of World::try_destroy.                         *)
EraseEntity(e) ==
  /\ Exists(entities, e)
  /\ entities' = EntitiesAfterErase(entities, e)
  /\ free_entities' = FreeAfterErase(entities, free_entities, e)
  /\ retired_entity_slots' = RetiredAfterErase(entities, retired_entity_slots, e)
  /\ UNCHANGED <<pre_allocated, outstanding, issued>>

Next ==
  \/ NewEntity
  \/ \E w \in Workers : PreAllocateEntities(w) \/ TakePreAllocated(w)
  \/ \E e \in Entity : UpdateEntitySpec(e) \/ EraseEntity(e)

Spec == Init /\ [][Next]_vars
----------------------------------------------------------------------------
(* Type correctness of the allocator's containers and of the history.      *)
TypeOK ==
  /\ entities \in Seq(Slot)
  /\ Len(entities) <= MaxSlots
  /\ free_entities \in Seq(1..MaxSlots)
  /\ retired_entity_slots \in Nat
  /\ pre_allocated \in [Workers -> Seq(Entity)]
  /\ outstanding \in SUBSET Entity
  /\ issued \in [Entity -> Nat]

(* No handle is ever handed out a second time, by the main thread or by    *)
(* any worker's queue, however slots were recycled in between: the promise *)
(* a stale copy of a handle relies on (entity.rs, Entity).                 *)
IssuedOnce == \A e \in Entity : issued[e] <= 1

Pooled(e) == \E w \in Workers : \E k \in DOMAIN pre_allocated[w] : pre_allocated[w][k] = e

IsFree(i) == \E k \in DOMAIN free_entities : free_entities[k] = i

(* Every place a slot waits in names a slot that exists, and a slot queued *)
(* to be recycled has a version left to spend: what new_entity_unlocked    *)
(* only asserts in debug builds.                                           *)
SlotsKnown ==
  /\ \A i \in 1..MaxSlots : IsFree(i) =>
       i \in DOMAIN entities /\ entities[i].version < MaxVersion
  /\ \A e \in Entity : e \in outstanding \/ Pooled(e) => e.idx \in DOMAIN entities

(* A slot is in one place at a time: queued to recycle, in one worker's    *)
(* queue, handed out and unwritten, or live. Held twice, two entities      *)
(* would share a slot.                                                     *)
HeldOnce ==
  /\ \A j, k \in DOMAIN free_entities : free_entities[j] = free_entities[k] => j = k
  /\ \A v, w \in Workers : \A j \in DOMAIN pre_allocated[v], k \in DOMAIN pre_allocated[w] :
       pre_allocated[v][j].idx = pre_allocated[w][k].idx => v = w /\ j = k
  /\ \A d, e \in outstanding : d.idx = e.idx => d = e
  /\ \A e \in Entity : Pooled(e) => \A d \in outstanding : d.idx # e.idx
  /\ \A e \in Entity : e \in outstanding \/ Pooled(e) => ~ IsFree(e.idx)
  /\ \A i \in DOMAIN entities : entities[i].has_value =>
       /\ ~ IsFree(i)
       /\ \A e \in Entity : e \in outstanding \/ Pooled(e) => e.idx # i

(* A handle given out later on a slot carries a higher version than every  *)
(* handle given out before: what is still queued in a worker is newer than *)
(* what anybody has seen, and what a slot to recycle last held was given   *)
(* out. Why IssuedOnce holds; the proof is by induction on this, HeldOnce  *)
(* and SlotsKnown together.                                                *)
VersionsAdvance ==
  /\ \A e \in Entity : issued[e] > 0 =>
       /\ e.idx \in DOMAIN entities
       /\ IsFree(e.idx) \/ entities[e.idx].has_value => e.version <= entities[e.idx].version
       /\ \A d \in Entity : d.idx = e.idx =>
            /\ Pooled(d) => e.version < d.version
            /\ d \in outstanding => e.version <= d.version
  /\ \A e \in Entity : e \in outstanding \/ Exists(entities, e) => issued[e] > 0

(* The slots nobody holds any more are exactly the retired ones: none is   *)
(* dropped without being counted, and none is counted while in use.        *)
Held(i) ==
  \/ entities[i].has_value
  \/ IsFree(i)
  \/ \E e \in Entity : e.idx = i /\ (e \in outstanding \/ Pooled(e))

RetiredAreCounted ==
  retired_entity_slots = Cardinality({i \in DOMAIN entities : ~ Held(i)})

(* The life of a handle as EntityLifecycle states it, read off the slots.  *)
StatusOf(e) ==
  CASE issued[e] = 0                               -> "unissued"
    [] issued[e] # 0 /\ e \in outstanding          -> "pending"
    [] issued[e] # 0 /\ e \notin outstanding
         /\ Exists(entities, e)                    -> "live"
    [] OTHER                                       -> "dead"

Lifecycle == INSTANCE EntityLifecycle
               WITH Handle <- Entity, status <- [e \in Entity |-> StatusOf(e)]

(* Every handle lives the life EntityLifecycle describes: exists() turns   *)
(* true once, at the write of its row, and false for good at its erase.    *)
HandlesLiveOnce == Lifecycle!Spec
=============================================================================
