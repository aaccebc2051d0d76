----------------------- MODULE EntityAllocatorProofs -----------------------
(***************************************************************************)
(* For any number of slots, versions and workers and any pre-allocation    *)
(* amount: the containers of EntityAllocator stay well typed, a slot is    *)
(* never held twice, and no handle is handed out twice.                    *)
(***************************************************************************)
EXTENDS EntityAllocator, SequenceTheorems, FiniteSetTheorems, TLAPS

IInv == TypeOK /\ IssuedOnce /\ SlotsKnown /\ HeldOnce /\ VersionsAdvance
----------------------------------------------------------------------------
(* Type correctness: every method keeps the containers well typed, given   *)
(* that a recycled slot has a version left (SlotsKnown).                   *)

(* What the provers need of a sequence: its members, its first, the rest.  *)
LEMMA SeqFacts ==
  ASSUME NEW S, NEW s \in Seq(S)
  PROVE  /\ Len(s) \in Nat
         /\ DOMAIN s = 1..Len(s)
         /\ \A k \in DOMAIN s : s[k] \in S
         /\ s # << >> => /\ Len(s) > 0
                        /\ Head(s) = s[1]
                        /\ Tail(s) \in Seq(S)
                        /\ Len(Tail(s)) = Len(s) - 1
                        /\ \A k \in DOMAIN Tail(s) : Tail(s)[k] = s[k + 1]
OBVIOUS

(* TypeOK, element by element.                                             *)
LEMMA TypeFacts ==
  ASSUME TypeOK
  PROVE  /\ Len(entities) \in 0..MaxSlots
         /\ DOMAIN entities = 1..Len(entities)
         /\ \A i \in DOMAIN entities : /\ entities[i].version \in 1..MaxVersion
                                       /\ entities[i].has_value \in BOOLEAN
         /\ Len(free_entities) \in Nat
         /\ DOMAIN free_entities = 1..Len(free_entities)
         /\ \A k \in DOMAIN free_entities : free_entities[k] \in 1..MaxSlots
         /\ \A w \in Workers : /\ pre_allocated[w] \in Seq(Entity)
                               /\ Len(pre_allocated[w]) \in Nat
                               /\ DOMAIN pre_allocated[w] = 1..Len(pre_allocated[w])
<1>1. entities \in Seq(Slot) /\ Len(entities) <= MaxSlots
  BY DEF TypeOK
<1>2. /\ Len(entities) \in Nat
      /\ DOMAIN entities = 1..Len(entities)
      /\ \A i \in DOMAIN entities : entities[i] \in Slot
  BY <1>1, SeqFacts
<1>3. /\ Len(free_entities) \in Nat
      /\ DOMAIN free_entities = 1..Len(free_entities)
      /\ \A k \in DOMAIN free_entities : free_entities[k] \in 1..MaxSlots
  BY SeqFacts DEF TypeOK
<1>4. \A w \in Workers : /\ pre_allocated[w] \in Seq(Entity)
                         /\ Len(pre_allocated[w]) \in Nat
                         /\ DOMAIN pre_allocated[w] = 1..Len(pre_allocated[w])
  BY SeqFacts DEF TypeOK
<1> QED
  BY <1>1, <1>2, <1>3, <1>4, SlotsAssumption DEF Slot

(* An empty allocator is well typed.                                       *)
LEMMA TypeInit == Init => TypeOK
BY SlotsAssumption DEF Init, TypeOK, Entity

(* new_entity_unlocked returns a handle: a recycled slot has a version left.*)
LEMMA NextEntityType ==
  ASSUME TypeOK, SlotsKnown, CanAllocate(entities, free_entities)
  PROVE  NextEntity(entities, free_entities) \in Entity
<1>1. CASE free_entities # << >>
  <2>1. 1 \in DOMAIN free_entities /\ Head(free_entities) = free_entities[1]
    BY <1>1, SeqFacts DEF TypeOK
  <2>2. Head(free_entities) \in 1..MaxSlots
    BY <2>1, TypeFacts
  <2>3. /\ Head(free_entities) \in DOMAIN entities
        /\ entities[Head(free_entities)].version < MaxVersion
    BY <2>1, <2>2 DEF SlotsKnown, IsFree
  <2>4. entities[Head(free_entities)].version \in 1..MaxVersion
    BY <2>3, TypeFacts
  <2>5. entities[Head(free_entities)].version + 1 \in 1..MaxVersion
    BY <2>3, <2>4, SlotsAssumption
  <2> QED
    BY <1>1, <2>2, <2>5 DEF NextEntity, RecycledEntity, Entity
<1>2. CASE free_entities = << >>
  <2>1. Len(entities) + 1 \in 1..MaxSlots
    BY <1>2, TypeFacts, SlotsAssumption DEF CanAllocate
  <2> QED
    BY <1>2, <2>1, SlotsAssumption
    DEF NextEntity, FreshEntity, Entity, INITIALIZE_VERSION
<1> QED BY <1>1, <1>2

(* EntitySpec::new_empty_slot is a slot.                                   *)
LEMMA NewEmptySlotType == NewEmptySlot \in Slot
BY SlotsAssumption DEF NewEmptySlot, Slot, INITIALIZE_VERSION

(* pre_allocate_entities opens slots only once the free list is empty, and *)
(* never beyond the index space.                                           *)
LEMMA AmountsTaken ==
  ASSUME TypeOK
  PROVE  /\ Recycled(PreAllocatedAmount) \in 0..Len(free_entities)
         /\ Opened(PreAllocatedAmount) \in 0..(MaxSlots - Len(entities))
         /\ Opened(PreAllocatedAmount) > 0 =>
              Recycled(PreAllocatedAmount) = Len(free_entities)
BY TypeFacts, SlotsAssumption, PreAllocAssumption DEF Recycled, Opened, Least

(* pre_allocate_entities fills a worker's queue with handles.              *)
LEMMA PreAllocatedType ==
  ASSUME TypeOK, SlotsKnown
  PROVE  PreAllocatedEntities(PreAllocatedAmount) \in Seq(Entity)
<1> DEFINE r == Recycled(PreAllocatedAmount)
           o == Opened(PreAllocatedAmount)
<1>1. r \in 0..Len(free_entities) /\ o \in 0..(MaxSlots - Len(entities))
  BY AmountsTaken
<1>2. /\ r \in Nat /\ o \in Nat /\ Len(entities) \in Nat
      /\ r + o \in Nat
  BY <1>1, TypeFacts, SlotsAssumption
<1>3. ASSUME NEW k \in 1..(r + o), k <= r
      PROVE  RecycledEntity(entities, free_entities[k]) \in Entity
  <2>1. k \in DOMAIN free_entities
    BY <1>1, <1>2, <1>3, TypeFacts
  <2>2. /\ free_entities[k] \in 1..MaxSlots
        /\ free_entities[k] \in DOMAIN entities
        /\ entities[free_entities[k]].version < MaxVersion
    BY <2>1, TypeFacts DEF SlotsKnown, IsFree
  <2>3. entities[free_entities[k]].version \in 1..MaxVersion
    BY <2>2, TypeFacts
  <2>4. entities[free_entities[k]].version + 1 \in 1..MaxVersion
    BY <2>2, <2>3, SlotsAssumption
  <2> QED BY <2>2, <2>4 DEF RecycledEntity, Entity
<1>4. ASSUME NEW k \in 1..(r + o), ~(k <= r)
      PROVE  FreshEntity(Len(entities) + k - r) \in Entity
  <2>1. Len(entities) + k - r \in 1..MaxSlots
    <3> HIDE DEF r, o
    <3> QED BY <1>1, <1>2, <1>4, SlotsAssumption
  <2> QED BY <2>1, SlotsAssumption DEF FreshEntity, Entity, INITIALIZE_VERSION
<1>5. PreAllocatedEntities(PreAllocatedAmount) \in [1..(r + o) -> Entity]
  BY <1>3, <1>4 DEF PreAllocatedEntities
<1> QED
  <2> HIDE DEF r, o
  <2> QED BY <1>2, <1>5
----------------------------------------------------------------------------
(* The invariant, action by action.                                        *)

(* It holds of an empty allocator.                                         *)
LEMMA InitIInv == Init => IInv
<1> SUFFICES ASSUME Init PROVE IInv
  OBVIOUS
<1>1. TypeOK
  BY TypeInit
<1>2. /\ \A e \in Entity : issued[e] = 0
      /\ \A w \in Workers : pre_allocated[w] = << >>
      /\ free_entities = << >> /\ entities = << >> /\ outstanding = {}
  BY DEF Init
<1>3. /\ \A i : ~ IsFree(i)
      /\ \A e : ~ Pooled(e)
      /\ \A e : ~ Exists(entities, e)
  BY <1>2 DEF IsFree, Pooled, Exists
<1> QED
  BY <1>1, <1>2, <1>3 DEF IInv, IssuedOnce, SlotsKnown, HeldOnce, VersionsAdvance

(* UpdateEntitySpec: the outstanding handle e becomes the live one.        *)
LEMMA UpdateStep ==
  ASSUME IInv, NEW e \in Entity, UpdateEntitySpec(e)
  PROVE  IInv'
<1> USE DEF IInv
<1>1. /\ e \in outstanding
      /\ outstanding' = outstanding \ {e}
      /\ free_entities' = free_entities
      /\ pre_allocated' = pre_allocated
      /\ issued' = issued
      /\ retired_entity_slots' = retired_entity_slots
      /\ entities' = [entities EXCEPT ![e.idx] = [version |-> e.version, has_value |-> TRUE]]
  BY DEF UpdateEntitySpec
<1>2. e.idx \in DOMAIN entities /\ e.version \in 1..MaxVersion
  BY <1>1 DEF SlotsKnown, Entity
<1>3. /\ entities' \in Seq(Slot)
      /\ Len(entities') = Len(entities)
      /\ DOMAIN entities' = DOMAIN entities
      /\ entities'[e.idx] = [version |-> e.version, has_value |-> TRUE]
      /\ \A i \in DOMAIN entities : i # e.idx => entities'[i] = entities[i]
  <2>1. entities \in Seq(Slot)
    BY DEF TypeOK
  <2>2. [version |-> e.version, has_value |-> TRUE] \in Slot
    BY <1>2 DEF Slot
  <2> QED BY <1>1, <1>2, <2>1, <2>2
<1>4. TypeOK'
  BY <1>1, <1>3 DEF TypeOK
<1>5. /\ \A i : IsFree(i)' <=> IsFree(i)
      /\ \A d : Pooled(d)' <=> Pooled(d)
  BY <1>1 DEF IsFree, Pooled
<1>6. /\ ~ IsFree(e.idx)
      /\ \A d \in Entity : Pooled(d) => d.idx # e.idx
      /\ \A d \in outstanding' : d.idx # e.idx
  BY <1>1 DEF HeldOnce
<1>7. IssuedOnce'
  BY <1>1 DEF IssuedOnce
<1>8. SlotsKnown'
  BY <1>1, <1>3, <1>5, <1>6 DEF SlotsKnown
<1>9. HeldOnce'
  <2>1. \A i \in DOMAIN entities' : entities'[i].has_value =>
          /\ ~ IsFree(i)
          /\ \A d \in Entity : (d \in outstanding' \/ Pooled(d)) => d.idx # i
    <3>1. ASSUME NEW i \in DOMAIN entities, entities'[i].has_value, i # e.idx
          PROVE  entities[i].has_value
      BY <1>3, <3>1
    <3> QED BY <1>1, <1>3, <1>6, <3>1 DEF HeldOnce
  <2> QED
    BY <1>1, <1>5, <2>1 DEF HeldOnce
<1>10. VersionsAdvance'
  <2>1. ASSUME NEW d \in Entity, issued[d] > 0
        PROVE  /\ d.idx \in DOMAIN entities'
               /\ IsFree(d.idx) \/ entities'[d.idx].has_value =>
                    d.version <= entities'[d.idx].version
    <3>1. CASE d.idx = e.idx
      BY <1>1, <1>2, <1>3, <2>1, <3>1 DEF VersionsAdvance
    <3>2. CASE d.idx # e.idx
      BY <1>3, <2>1, <3>2 DEF VersionsAdvance
    <3> QED BY <3>1, <3>2
  <2>2. ASSUME NEW d \in Entity, d \in outstanding' \/ Exists(entities', d)
        PROVE  issued[d] > 0
    <3>1. CASE d.idx = e.idx
      <4>1. d \notin outstanding'
        BY <1>6, <3>1
      <4>2. d.version = e.version
        BY <1>3, <2>2, <3>1, <4>1 DEF Exists
      <4>3. d = e
        BY <3>1, <4>2 DEF Entity
      <4> QED BY <1>1, <4>3 DEF VersionsAdvance
    <3>2. CASE d.idx # e.idx
      <4>1. d \in outstanding \/ Exists(entities, d)
        BY <1>1, <1>3, <2>2, <3>2 DEF Exists
      <4> QED BY <4>1 DEF VersionsAdvance
    <3> QED BY <3>1, <3>2
  <2> QED
    BY <1>1, <1>5, <2>1, <2>2 DEF VersionsAdvance
<1> QED BY <1>4, <1>7, <1>8, <1>9, <1>10

(* EraseEntity: the slot of a live entity is queued for recycling, unless  *)
(* it is out of versions.                                                  *)
LEMMA EraseStep ==
  ASSUME IInv, NEW e \in Entity, EraseEntity(e)
  PROVE  IInv'
<1> USE DEF IInv
<1>1. /\ Exists(entities, e)
      /\ e.idx \in DOMAIN entities /\ e.idx \in 1..MaxSlots
      /\ entities[e.idx].has_value
      /\ entities[e.idx].version = e.version
  BY TypeFacts DEF EraseEntity, Exists, Entity
<1>2. /\ outstanding' = outstanding
      /\ pre_allocated' = pre_allocated
      /\ issued' = issued
      /\ entities' = [entities EXCEPT ![e.idx].has_value = FALSE]
      /\ retired_entity_slots' \in {retired_entity_slots, retired_entity_slots + 1}
  BY DEF EraseEntity, EntitiesAfterErase, RetiredAfterErase
<1>3. /\ entities' \in Seq(Slot)
      /\ Len(entities') = Len(entities)
      /\ DOMAIN entities' = DOMAIN entities
      /\ ~ entities'[e.idx].has_value
      /\ entities'[e.idx].version = entities[e.idx].version
      /\ \A i \in DOMAIN entities : i # e.idx => entities'[i] = entities[i]
  <2>1. entities \in Seq(Slot) /\ entities[e.idx] \in Slot
    BY <1>1, SeqFacts DEF TypeOK
  <2>2. [entities[e.idx] EXCEPT !.has_value = FALSE] \in Slot
    BY <2>1 DEF Slot
  <2> QED BY <1>1, <1>2, <2>1, <2>2 DEF Slot
<1>4. \/ /\ free_entities' = free_entities
      \/ /\ free_entities' = Append(free_entities, e.idx)
         /\ entities[e.idx].version < MaxVersion
  <2>1. entities[e.idx].version \in 1..MaxVersion
    BY <1>1, TypeFacts
  <2> QED
    BY <2>1, SlotsAssumption DEF EraseEntity, FreeAfterErase, IsSpent
<1>5. /\ free_entities' \in Seq(1..MaxSlots)
      /\ \A i : IsFree(i)' => IsFree(i) \/ (i = e.idx /\ entities[i].version < MaxVersion)
      /\ \A j, k \in DOMAIN free_entities' : free_entities'[j] = free_entities'[k] => j = k
  <2>1. CASE free_entities' = free_entities
    BY <2>1 DEF IsFree, TypeOK, HeldOnce
  <2>2. CASE /\ free_entities' = Append(free_entities, e.idx)
             /\ entities[e.idx].version < MaxVersion
    <3>1. free_entities \in Seq(1..MaxSlots)
      BY DEF TypeOK
    <3>2. /\ free_entities' \in Seq(1..MaxSlots)
          /\ Len(free_entities) \in Nat
          /\ DOMAIN free_entities = 1..Len(free_entities)
          /\ DOMAIN free_entities' = 1..(Len(free_entities) + 1)
          /\ \A k \in 1..Len(free_entities) : free_entities'[k] = free_entities[k]
          /\ free_entities'[Len(free_entities) + 1] = e.idx
      BY <1>1, <2>2, <3>1
    <3>3. ~ IsFree(e.idx)
      BY <1>1 DEF HeldOnce
    <3>4. \A k \in DOMAIN free_entities : free_entities[k] # e.idx
      BY <3>3 DEF IsFree
    <3>5. \A i : IsFree(i)' => IsFree(i) \/ i = e.idx
      BY <3>2 DEF IsFree
    <3>6. \A j, k \in 1..Len(free_entities) : free_entities[j] = free_entities[k] => j = k
      BY <3>2 DEF HeldOnce
    <3>7. \A j, k \in DOMAIN free_entities' : free_entities'[j] = free_entities'[k] => j = k
      BY <3>2, <3>4, <3>6
    <3> QED BY <2>2, <3>2, <3>5, <3>7
  <2> QED BY <1>4, <2>1, <2>2
<1>6. \A d : Pooled(d)' <=> Pooled(d)
  BY <1>2 DEF Pooled
<1>7. TypeOK'
  BY <1>2, <1>3, <1>5 DEF TypeOK
<1>8. IssuedOnce'
  BY <1>2 DEF IssuedOnce
<1>9. SlotsKnown'
  BY <1>1, <1>2, <1>3, <1>5, <1>6 DEF SlotsKnown
<1>10. HeldOnce'
  <2>1. \A d \in Entity : d \in outstanding \/ Pooled(d) => d.idx # e.idx
    BY <1>1 DEF HeldOnce
  <2>2. \A i \in DOMAIN entities' : entities'[i].has_value => i # e.idx /\ entities[i].has_value
    BY <1>3
  <2>3. \A d \in Entity : d \in outstanding \/ Pooled(d) => ~ IsFree(d.idx)'
    BY <1>5, <2>1 DEF HeldOnce
  <2>4. \A i \in DOMAIN entities' : entities'[i].has_value => ~ IsFree(i)'
    BY <1>3, <1>5, <2>2 DEF HeldOnce
  <2> QED
    BY <1>2, <1>3, <1>5, <1>6, <2>2, <2>3, <2>4 DEF HeldOnce
<1>11. VersionsAdvance'
  <2>1. ASSUME NEW d \in Entity, issued[d] > 0
        PROVE  /\ d.idx \in DOMAIN entities'
               /\ IsFree(d.idx)' \/ entities'[d.idx].has_value =>
                    d.version <= entities'[d.idx].version
    <3>1. CASE d.idx = e.idx
      BY <1>1, <1>3, <2>1, <3>1 DEF VersionsAdvance
    <3>2. CASE d.idx # e.idx
      BY <1>3, <1>5, <2>1, <3>2 DEF VersionsAdvance
    <3> QED BY <3>1, <3>2
  <2>2. \A d \in Entity : Exists(entities', d) => Exists(entities, d)
    BY <1>3 DEF Exists
  <2> QED
    BY <1>2, <1>6, <2>1, <2>2 DEF VersionsAdvance
<1> QED BY <1>7, <1>8, <1>9, <1>10, <1>11

(* Handing out e changes the history of e alone.                           *)
LEMMA HandOutFacts ==
  ASSUME TypeOK, NEW e \in Entity, HandOut(e)
  PROVE  /\ outstanding' = outstanding \cup {e}
         /\ outstanding' \in SUBSET Entity
         /\ issued' \in [Entity -> Nat]
         /\ issued'[e] = issued[e] + 1
         /\ \A d \in Entity : d # e => issued'[d] = issued[d]
         /\ \A d \in Entity : issued[d] \in Nat
BY DEF HandOut, TypeOK

(* A handle e that nobody has seen and whose slot nobody holds is handed   *)
(* out: what NewEntity and TakePreAllocated share. The slot it names is    *)
(* in no other place afterwards, and e is newer than every handle issued   *)
(* for that slot.                                                          *)
LEMMA HandOutStep ==
  ASSUME IInv, NEW e \in Entity, HandOut(e), TypeOK',
         DOMAIN entities \subseteq DOMAIN entities',
         \A i \in DOMAIN entities : entities'[i] = entities[i],
         \A i \in DOMAIN entities' : entities'[i].has_value => i \in DOMAIN entities,
         \A i : IsFree(i)' => IsFree(i),
         \A j, k \in DOMAIN free_entities' : free_entities'[j] = free_entities'[k] => j = k,
         \A d : Pooled(d)' => Pooled(d),
         \A v, w \in Workers :
           \A j \in DOMAIN pre_allocated'[v], k \in DOMAIN pre_allocated'[w] :
             pre_allocated'[v][j].idx = pre_allocated'[w][k].idx => v = w /\ j = k,
         e.idx \in DOMAIN entities',
         ~ entities'[e.idx].has_value,
         ~ IsFree(e.idx)',
         \A d \in Entity : Pooled(d)' => d.idx # e.idx,
         \A d \in outstanding : d.idx # e.idx,
         \A d \in Entity : issued[d] > 0 /\ d.idx = e.idx => d.version < e.version
  PROVE  IInv'
<1> USE DEF IInv
<1>1. /\ outstanding' = outstanding \cup {e}
      /\ issued'[e] = issued[e] + 1
      /\ \A d \in Entity : d # e => issued'[d] = issued[d]
      /\ \A d \in Entity : issued[d] \in Nat
  BY HandOutFacts
<1>2. e.version \in Nat /\ \A d \in Entity : d.version \in Nat
  BY DEF Entity
<1>3. issued[e] = 0
  BY <1>1, <1>2
<1>4. \A d \in Entity : issued'[d] > 0 => d = e \/ issued[d] > 0
  BY <1>1
<1>5. IssuedOnce'
  BY <1>1, <1>3 DEF IssuedOnce
<1>6. SlotsKnown'
  BY <1>1 DEF SlotsKnown
<1>7. HeldOnce'
  <2>1. \A i \in DOMAIN entities' : entities'[i].has_value => i # e.idx /\ entities[i].has_value
    OBVIOUS
  <2>2. \A d \in Entity : d \in outstanding' \/ Pooled(d)' => ~ IsFree(d.idx)'
    BY <1>1 DEF HeldOnce
  <2>3. \A i \in DOMAIN entities' : entities'[i].has_value =>
          /\ ~ IsFree(i)'
          /\ \A d \in Entity : d \in outstanding' \/ Pooled(d)' => d.idx # i
    BY <1>1, <2>1 DEF HeldOnce
  <2>4. \A d, f \in outstanding' : d.idx = f.idx => d = f
    BY <1>1 DEF HeldOnce
  <2>5. \A d \in Entity : Pooled(d)' => \A f \in outstanding' : f.idx # d.idx
    BY <1>1 DEF HeldOnce
  <2> QED BY <2>2, <2>3, <2>4, <2>5 DEF HeldOnce
<1>8. VersionsAdvance'
  <2>1. ASSUME NEW d \in Entity, issued'[d] > 0
        PROVE  /\ d.idx \in DOMAIN entities'
               /\ IsFree(d.idx)' \/ entities'[d.idx].has_value =>
                    d.version <= entities'[d.idx].version
    <3>1. CASE d = e
      BY <3>1
    <3>2. CASE d # e
      BY <1>4, <2>1, <3>2 DEF VersionsAdvance
    <3> QED BY <3>1, <3>2
  <2>2. ASSUME NEW d \in Entity, issued'[d] > 0, NEW f \in Entity, f.idx = d.idx
        PROVE  /\ Pooled(f)' => d.version < f.version
               /\ f \in outstanding' => d.version <= f.version
    <3>1. CASE d = e
      BY <1>1, <1>2, <2>2, <3>1
    <3>2. CASE d # e
      <4>1. issued[d] > 0
        BY <1>4, <2>2, <3>2
      <4>2. f \in outstanding' => d.version <= f.version
        BY <1>1, <1>2, <2>2, <4>1 DEF VersionsAdvance
      <4> QED BY <2>2, <4>1, <4>2 DEF VersionsAdvance
    <3> QED BY <3>1, <3>2
  <2>3. ASSUME NEW d \in Entity, d \in outstanding' \/ Exists(entities', d)
        PROVE  issued'[d] > 0
    <3>1. CASE d = e
      BY <1>1, <3>1
    <3>2. CASE d # e
      <4>1. d \in outstanding \/ Exists(entities, d)
        <5>1. Exists(entities', d) => Exists(entities, d)
          <6>1. DOMAIN entities' = 1..Len(entities') /\ DOMAIN entities = 1..Len(entities)
            BY TypeFacts, SeqFacts DEF TypeOK
          <6> QED BY <6>1 DEF Exists
        <5> QED BY <1>1, <2>3, <3>2, <5>1
      <4> QED BY <1>1, <3>2, <4>1 DEF VersionsAdvance
    <3> QED BY <3>1, <3>2
  <2> QED BY <2>1, <2>2, <2>3 DEF VersionsAdvance
<1> QED BY <1>5, <1>6, <1>7, <1>8

(* NewEntity: the oldest slot to recycle, or else a slot never used.       *)
LEMMA NewEntityStep ==
  ASSUME IInv, NewEntity
  PROVE  IInv'
<1> USE DEF IInv
<1>1. /\ CanAllocate(entities, free_entities)
      /\ HandOut(NextEntity(entities, free_entities))
      /\ entities' = EntitiesAfterNew(entities, free_entities)
      /\ free_entities' = FreeAfterNew(free_entities)
      /\ pre_allocated' = pre_allocated
      /\ retired_entity_slots' = retired_entity_slots
  BY DEF NewEntity
<1>2. PICK e \in Entity : e = NextEntity(entities, free_entities)
  BY <1>1, NextEntityType
<1>3. \A d : Pooled(d)' <=> Pooled(d)
  BY <1>1 DEF Pooled
<1>4. /\ outstanding' \in SUBSET Entity
      /\ issued' \in [Entity -> Nat]
  BY <1>1, <1>2, HandOutFacts
<1>5. CASE free_entities # << >>
  <2>1. /\ entities' = entities
        /\ free_entities' = Tail(free_entities)
        /\ e = RecycledEntity(entities, Head(free_entities))
    BY <1>1, <1>2, <1>5 DEF EntitiesAfterNew, FreeAfterNew, NextEntity
  <2>2. /\ free_entities' \in Seq(1..MaxSlots)
        /\ DOMAIN free_entities = 1..Len(free_entities)
        /\ Len(free_entities) \in Nat /\ Len(free_entities) > 0
        /\ DOMAIN free_entities' = 1..(Len(free_entities) - 1)
        /\ \A k \in DOMAIN free_entities' : free_entities'[k] = free_entities[k + 1]
        /\ Head(free_entities) = free_entities[1]
    BY <1>5, <2>1, SeqFacts DEF TypeOK
  <2>3. /\ e.idx = free_entities[1] /\ e.idx \in 1..MaxSlots
        /\ e.version = entities[e.idx].version + 1
        /\ IsFree(e.idx)
    BY <1>2, <2>1, <2>2 DEF RecycledEntity, IsFree, Entity
  <2>4. \A i : IsFree(i)' => IsFree(i) /\ i # e.idx
    <3>1. ASSUME NEW k \in DOMAIN free_entities'
          PROVE  k + 1 \in DOMAIN free_entities /\ k + 1 # 1
      BY <2>2
    <3>2. \A k \in DOMAIN free_entities : k # 1 => free_entities[k] # e.idx
      BY <2>2, <2>3 DEF HeldOnce
    <3> QED BY <2>2, <3>1, <3>2 DEF IsFree
  <2>5. \A j, k \in DOMAIN free_entities' : free_entities'[j] = free_entities'[k] => j = k
    <3> SUFFICES ASSUME NEW j \in DOMAIN free_entities', NEW k \in DOMAIN free_entities',
                        free_entities'[j] = free_entities'[k]
                 PROVE  j = k
      OBVIOUS
    <3>1. j + 1 \in DOMAIN free_entities /\ k + 1 \in DOMAIN free_entities
      BY <2>2
    <3>2. free_entities[j + 1] = free_entities[k + 1]
      BY <2>2
    <3>3. j + 1 = k + 1
      BY <3>1, <3>2 DEF HeldOnce
    <3> QED BY <2>2, <3>3
  <2>6. TypeOK'
    BY <1>1, <1>4, <2>1, <2>2 DEF TypeOK
  <2>7. /\ e.idx \in DOMAIN entities
        /\ entities[e.idx].version \in 1..MaxVersion
        /\ ~ entities[e.idx].has_value
    BY <2>3, TypeFacts DEF SlotsKnown, HeldOnce
  <2>8. \A d \in Entity : issued[d] > 0 /\ d.idx = e.idx => d.version < e.version
    <3> SUFFICES ASSUME NEW d \in Entity, issued[d] > 0, d.idx = e.idx
                 PROVE  d.version < e.version
      OBVIOUS
    <3>1. d.version <= entities[e.idx].version /\ d.version \in Nat
      BY <2>3 DEF VersionsAdvance, Entity
    <3> QED BY <2>3, <2>7, <3>1
  <2>9. /\ \A d \in Entity : Pooled(d) => d.idx # e.idx
        /\ \A d \in outstanding : d.idx # e.idx
    BY <2>3 DEF HeldOnce, TypeOK
  <2>10. \A v, w \in Workers :
           \A j \in DOMAIN pre_allocated'[v], k \in DOMAIN pre_allocated'[w] :
             pre_allocated'[v][j].idx = pre_allocated'[w][k].idx => v = w /\ j = k
    BY <1>1 DEF HeldOnce
  <2> QED
    BY <1>1, <1>2, <1>3, <2>1, <2>4, <2>5, <2>6, <2>7, <2>8, <2>9, <2>10, HandOutStep
<1>6. CASE free_entities = << >>
  <2>1. /\ entities' = Append(entities, NewEmptySlot)
        /\ free_entities' = free_entities
        /\ e = FreshEntity(Len(entities) + 1)
        /\ Len(entities) < MaxSlots
    BY <1>1, <1>2, <1>6 DEF EntitiesAfterNew, FreeAfterNew, NextEntity, CanAllocate
  <2>2. entities \in Seq(Slot) /\ Len(entities) \in Nat /\ DOMAIN entities = 1..Len(entities)
    BY TypeFacts DEF TypeOK
  <2>3. /\ entities' \in Seq(Slot)
        /\ Len(entities') = Len(entities) + 1
        /\ DOMAIN entities' = 1..(Len(entities) + 1)
        /\ \A i \in DOMAIN entities : entities'[i] = entities[i]
        /\ entities'[Len(entities) + 1] = NewEmptySlot
    BY <2>1, <2>2, NewEmptySlotType
  <2>4. TypeOK'
    <3>1. Len(entities') <= MaxSlots
      BY <2>1, <2>2, <2>3, SlotsAssumption
    <3> QED BY <1>1, <1>4, <2>1, <2>3, <3>1 DEF TypeOK
  <2>5. /\ e.idx = Len(entities) + 1
        /\ e.idx \in DOMAIN entities' /\ e.idx \notin DOMAIN entities
        /\ ~ entities'[e.idx].has_value
    BY <2>1, <2>2, <2>3 DEF FreshEntity, NewEmptySlot
  <2>6. \A i \in DOMAIN entities' : entities'[i].has_value => i \in DOMAIN entities
    BY <2>2, <2>3, <2>5
  <2>7. /\ \A d \in Entity : Pooled(d) => d.idx # e.idx
        /\ \A d \in outstanding : d.idx # e.idx
        /\ \A d \in Entity : issued[d] > 0 => d.idx # e.idx
    BY <2>5 DEF SlotsKnown, VersionsAdvance, TypeOK
  <2>8. ~ IsFree(e.idx)'
    BY <1>6, <2>1 DEF IsFree
  <2>9. \A i : IsFree(i)' => IsFree(i)
    BY <2>1 DEF IsFree
  <2>10. \A j, k \in DOMAIN free_entities' : free_entities'[j] = free_entities'[k] => j = k
    BY <2>1 DEF HeldOnce
  <2>11. \A v, w \in Workers :
           \A j \in DOMAIN pre_allocated'[v], k \in DOMAIN pre_allocated'[w] :
             pre_allocated'[v][j].idx = pre_allocated'[w][k].idx => v = w /\ j = k
    BY <1>1 DEF HeldOnce
  <2>12. DOMAIN entities \subseteq DOMAIN entities'
    BY <2>2, <2>3
  <2>13. \A d \in Entity : issued[d] > 0 /\ d.idx = e.idx => d.version < e.version
    BY <2>7
  <2>14. \A d \in Entity : Pooled(d)' => d.idx # e.idx
    BY <1>3, <2>7
  <2>15. \A i \in DOMAIN entities : entities'[i] = entities[i]
    BY <2>3
  <2>16. \A d : Pooled(d)' => Pooled(d)
    BY <1>3
  <2>17. HandOut(e)
    BY <1>1, <1>2
  <2>18. e.idx \in DOMAIN entities' /\ ~ entities'[e.idx].has_value
    BY <2>5
  <2>19. \A d \in outstanding : d.idx # e.idx
    BY <2>7
  <2> QED
    BY <1>2, <2>4, <2>6, <2>18, <2>19, <2>8, <2>9, <2>10, <2>11, <2>12, <2>13, <2>14,
       <2>15, <2>16, <2>17, HandOutStep
<1> QED BY <1>5, <1>6

(* TakePreAllocated: the front of a worker's queue.                        *)
LEMMA TakeStep ==
  ASSUME IInv, NEW w \in Workers, TakePreAllocated(w)
  PROVE  IInv'
<1> USE DEF IInv
<1>1. /\ pre_allocated[w] # << >>
      /\ HandOut(Head(pre_allocated[w]))
      /\ pre_allocated' = [pre_allocated EXCEPT ![w] = Tail(@)]
      /\ entities' = entities
      /\ free_entities' = free_entities
      /\ retired_entity_slots' = retired_entity_slots
  BY DEF TakePreAllocated
<1>2. /\ pre_allocated[w] \in Seq(Entity)
      /\ pre_allocated \in [Workers -> Seq(Entity)]
  BY DEF TypeOK
<1>3. /\ Len(pre_allocated[w]) \in Nat /\ Len(pre_allocated[w]) > 0
      /\ DOMAIN pre_allocated[w] = 1..Len(pre_allocated[w])
      /\ Head(pre_allocated[w]) = pre_allocated[w][1]
      /\ 1 \in DOMAIN pre_allocated[w]
      /\ pre_allocated[w][1] \in Entity
  BY <1>1, <1>2, SeqFacts
<1>4. /\ Tail(pre_allocated[w]) \in Seq(Entity)
      /\ DOMAIN Tail(pre_allocated[w]) = 1..(Len(pre_allocated[w]) - 1)
      /\ \A k \in DOMAIN Tail(pre_allocated[w]) :
           Tail(pre_allocated[w])[k] = pre_allocated[w][k + 1]
  BY <1>1, <1>2, SeqFacts
<1>5. PICK e \in Entity : e = pre_allocated[w][1]
  BY <1>3
<1>6. HandOut(e)
  BY <1>1, <1>3, <1>5
<1>7. /\ pre_allocated' \in [Workers -> Seq(Entity)]
      /\ pre_allocated'[w] = Tail(pre_allocated[w])
      /\ \A v \in Workers : v # w => pre_allocated'[v] = pre_allocated[v]
  BY <1>1, <1>2, <1>4
<1>8. TypeOK'
  <2>1. outstanding' \in SUBSET Entity /\ issued' \in [Entity -> Nat]
    BY <1>6, HandOutFacts
  <2> QED BY <1>1, <1>7, <2>1 DEF TypeOK
<1>9. Pooled(e)
  BY <1>3, <1>5 DEF Pooled
(* What is left of every queue: the same handles, one place further up in  *)
(* the queue of w.                                                         *)
<1>10. ASSUME NEW v \in Workers, NEW j \in DOMAIN pre_allocated'[v]
       PROVE  /\ j \in Nat
              /\ (IF v = w THEN j + 1 ELSE j) \in DOMAIN pre_allocated[v]
              /\ pre_allocated'[v][j] = pre_allocated[v][IF v = w THEN j + 1 ELSE j]
  <2>1. CASE v = w
    <3>1. j \in 1..(Len(pre_allocated[w]) - 1)
      BY <1>4, <1>7, <2>1
    <3>2. j + 1 \in 1..Len(pre_allocated[w]) /\ j \in Nat
      BY <1>3, <3>1
    <3> QED BY <1>3, <1>4, <1>7, <2>1, <3>1, <3>2
  <2>2. CASE v # w
    <3>1. j \in DOMAIN pre_allocated[v] /\ pre_allocated'[v] = pre_allocated[v]
      BY <1>7, <2>2
    <3>2. j \in Nat
      BY <3>1, TypeFacts
    <3> QED BY <2>2, <3>1, <3>2
  <2> QED BY <2>1, <2>2
<1>11. \A v, u \in Workers :
         \A j \in DOMAIN pre_allocated'[v], k \in DOMAIN pre_allocated'[u] :
           pre_allocated'[v][j].idx = pre_allocated'[u][k].idx => v = u /\ j = k
  <2> SUFFICES ASSUME NEW v \in Workers, NEW u \in Workers,
                      NEW j \in DOMAIN pre_allocated'[v], NEW k \in DOMAIN pre_allocated'[u],
                      pre_allocated'[v][j].idx = pre_allocated'[u][k].idx
               PROVE  v = u /\ j = k
    OBVIOUS
  <2>1. v = u /\ (IF v = w THEN j + 1 ELSE j) = (IF u = w THEN k + 1 ELSE k)
    BY <1>10 DEF HeldOnce
  <2> QED BY <1>10, <2>1
<1>12. \A d : Pooled(d)' => Pooled(d)
  BY <1>10 DEF Pooled
<1>13. ASSUME NEW d \in Entity, Pooled(d)'
       PROVE  d.idx # e.idx
  <2>a. PICK v \in Workers : \E j \in DOMAIN pre_allocated'[v] : pre_allocated'[v][j] = d
    BY <1>13 DEF Pooled
  <2>1. PICK j \in DOMAIN pre_allocated'[v] : pre_allocated'[v][j] = d
    BY <2>a
  <2>2. /\ (IF v = w THEN j + 1 ELSE j) \in DOMAIN pre_allocated[v]
        /\ d = pre_allocated[v][IF v = w THEN j + 1 ELSE j]
        /\ j \in Nat /\ j # 0
    BY <1>4, <1>7, <1>10, <2>1, TypeFacts
  <2>3. CASE d.idx = e.idx
    <3>1. v = w /\ (IF v = w THEN j + 1 ELSE j) = 1
      BY <1>3, <1>5, <2>2, <2>3 DEF HeldOnce
    <3> QED BY <2>2, <3>1
  <2> QED BY <2>3
<1>14. /\ e.idx \in DOMAIN entities
       /\ ~ entities[e.idx].has_value
       /\ ~ IsFree(e.idx)
       /\ \A d \in outstanding : d.idx # e.idx
       /\ \A d \in Entity : issued[d] > 0 /\ d.idx = e.idx => d.version < e.version
  BY <1>9 DEF SlotsKnown, HeldOnce, VersionsAdvance
<1>15. \A i : IsFree(i)' <=> IsFree(i)
  BY <1>1 DEF IsFree
<1>16. \A j, k \in DOMAIN free_entities' : free_entities'[j] = free_entities'[k] => j = k
  BY <1>1 DEF HeldOnce
<1> HIDE DEF IInv
<1> QED
  BY <1>1, <1>6, <1>8, <1>11, <1>12, <1>13, <1>14, <1>15, <1>16, HandOutStep

(* PreAllocateEntities, position by position: the loop took the first r    *)
(* slots of the free list and opened o new ones.                           *)
PreAllocation(w, r, o) ==
  /\ r \in 0..Len(free_entities)
  /\ o \in 0..(MaxSlots - Len(entities))
  /\ o > 0 => r = Len(free_entities)
  /\ pre_allocated' \in [Workers -> Seq(Entity)]
  /\ \A v \in Workers : v # w => pre_allocated'[v] = pre_allocated[v]
  /\ DOMAIN pre_allocated'[w] = 1..(r + o)
  /\ \A k \in 1..(r + o) : pre_allocated'[w][k] =
       IF k <= r THEN RecycledEntity(entities, free_entities[k])
                 ELSE FreshEntity(Len(entities) + k - r)
  /\ entities' \in Seq(Slot)
  /\ Len(entities') = Len(entities) + o
  /\ DOMAIN entities' = 1..(Len(entities) + o)
  /\ \A i \in DOMAIN entities : i \in DOMAIN entities' /\ entities'[i] = entities[i]
  /\ \A i \in DOMAIN entities' : i \notin DOMAIN entities => entities'[i] = NewEmptySlot
  /\ free_entities' \in Seq(1..MaxSlots)
  /\ DOMAIN free_entities' = 1..(Len(free_entities) - r)
  /\ \A k \in DOMAIN free_entities' :
       k + r \in DOMAIN free_entities /\ free_entities'[k] = free_entities[k + r]

(* Dropping the first r members of a sequence.                             *)
LEMMA DropFacts ==
  ASSUME NEW S, NEW s \in Seq(S), NEW r \in 0..Len(s)
  PROVE  /\ SubSeq(s, r + 1, Len(s)) \in Seq(S)
         /\ DOMAIN SubSeq(s, r + 1, Len(s)) = 1..(Len(s) - r)
         /\ \A k \in DOMAIN SubSeq(s, r + 1, Len(s)) :
              k + r \in DOMAIN s /\ SubSeq(s, r + 1, Len(s))[k] = s[k + r]
<1>1. Len(s) \in Nat /\ DOMAIN s = 1..Len(s)
  OBVIOUS
<1>2. /\ SubSeq(s, r + 1, Len(s)) \in Seq(S)
      /\ Len(SubSeq(s, r + 1, Len(s))) =
           IF r + 1 <= Len(s) THEN Len(s) - (r + 1) + 1 ELSE 0
      /\ \A i \in 1..(Len(s) - (r + 1) + 1) : SubSeq(s, r + 1, Len(s))[i] = s[r + 1 + i - 1]
  <2>1. r + 1 \in Int /\ Len(s) \in Int
    BY <1>1
  <2>2. \A i \in (r + 1)..Len(s) : s[i] \in S
    BY <1>1
  <2> QED BY <2>1, <2>2, SubSeqProperties
<1>3. Len(SubSeq(s, r + 1, Len(s))) = Len(s) - r
  <2>1. \A n \in Nat : \A q \in 0..n :
          (IF q + 1 <= n THEN n - (q + 1) + 1 ELSE 0) = n - q
    OBVIOUS
  <2> QED BY <1>1, <1>2, <2>1
<1>4. DOMAIN SubSeq(s, r + 1, Len(s)) = 1..(Len(s) - r)
  BY <1>2, <1>3
<1>5. ASSUME NEW k \in 1..(Len(s) - r)
      PROVE  k + r \in DOMAIN s /\ SubSeq(s, r + 1, Len(s))[k] = s[k + r]
  <2>1. k + r \in 1..Len(s) /\ r + 1 + k - 1 = k + r
    BY <1>1
  <2>2. k \in 1..(Len(s) - (r + 1) + 1)
    BY <1>1
  <2>3. SubSeq(s, r + 1, Len(s))[k] = s[r + 1 + k - 1]
    BY <1>2, <2>2
  <2> QED BY <1>1, <2>1, <2>3
<1> QED BY <1>2, <1>4, <1>5

(* pre_allocate_entities does what PreAllocation says.                     *)
LEMMA PreAllocateFacts ==
  ASSUME IInv, NEW w \in Workers, PreAllocateEntities(w)
  PROVE  \E r, o \in Nat : PreAllocation(w, r, o)
<1>a. PICK r : r = Recycled(PreAllocatedAmount)
  OBVIOUS
<1>b. PICK o : o = Opened(PreAllocatedAmount)
  OBVIOUS
<1>1. /\ r \in 0..Len(free_entities)
      /\ o \in 0..(MaxSlots - Len(entities))
      /\ o > 0 => r = Len(free_entities)
  BY AmountsTaken, <1>a, <1>b DEF IInv
<1>2. /\ Len(entities) \in Nat /\ DOMAIN entities = 1..Len(entities)
      /\ Len(free_entities) \in Nat /\ DOMAIN free_entities = 1..Len(free_entities)
      /\ \A i \in DOMAIN entities : entities[i] \in Slot
      /\ free_entities \in Seq(1..MaxSlots)
  BY TypeFacts, SeqFacts DEF IInv, TypeOK
<1>c. Len(entities) \in Nat /\ Len(free_entities) \in Nat
  BY <1>2
<1>3. r \in Nat /\ o \in Nat
  BY <1>1, <1>c, SlotsAssumption
<1>4. /\ pre_allocated' = [pre_allocated EXCEPT ![w] = PreAllocatedEntities(PreAllocatedAmount)]
      /\ entities' = [i \in 1..(Len(entities) + o) |->
                        IF i <= Len(entities) THEN entities[i] ELSE NewEmptySlot]
      /\ free_entities' = SubSeq(free_entities, r + 1, Len(free_entities))
  BY <1>a, <1>b DEF PreAllocateEntities
<1>5. /\ pre_allocated' \in [Workers -> Seq(Entity)]
      /\ \A v \in Workers : v # w => pre_allocated'[v] = pre_allocated[v]
      /\ pre_allocated'[w] = PreAllocatedEntities(PreAllocatedAmount)
  <2>1. PreAllocatedEntities(PreAllocatedAmount) \in Seq(Entity)
    BY PreAllocatedType DEF IInv
  <2>2. pre_allocated \in [Workers -> Seq(Entity)]
    BY DEF IInv, TypeOK
  <2> QED BY <1>4, <2>1, <2>2
<1>6. /\ DOMAIN pre_allocated'[w] = 1..(r + o)
      /\ \A k \in 1..(r + o) : pre_allocated'[w][k] =
           IF k <= r THEN RecycledEntity(entities, free_entities[k])
                     ELSE FreshEntity(Len(entities) + k - r)
  BY <1>5, <1>a, <1>b DEF PreAllocatedEntities
<1>7. /\ entities' \in Seq(Slot)
      /\ Len(entities') = Len(entities) + o
      /\ DOMAIN entities' = 1..(Len(entities) + o)
  <2>1. \A i \in 1..(Len(entities) + o) :
          (IF i <= Len(entities) THEN entities[i] ELSE NewEmptySlot) \in Slot
    BY <1>2, <1>3, NewEmptySlotType
  <2>2. entities' \in [1..(Len(entities) + o) -> Slot]
    BY <1>4, <2>1
  <2> QED BY <1>2, <1>3, <2>2
<1>8. /\ \A i \in DOMAIN entities : i \in DOMAIN entities' /\ entities'[i] = entities[i]
      /\ \A i \in DOMAIN entities' : i \notin DOMAIN entities => entities'[i] = NewEmptySlot
  BY <1>2, <1>3, <1>4
<1>9. /\ free_entities' \in Seq(1..MaxSlots)
      /\ DOMAIN free_entities' = 1..(Len(free_entities) - r)
      /\ \A k \in DOMAIN free_entities' :
           k + r \in DOMAIN free_entities /\ free_entities'[k] = free_entities[k + r]
  BY <1>1, <1>2, <1>4, DropFacts
<1> QED BY <1>1, <1>3, <1>5, <1>6, <1>7, <1>8, <1>9 DEF PreAllocation

(* A handle pre_allocate_entities took is on a slot nobody holds: one it   *)
(* just left the free list with, one version up, or one it just opened.    *)
LEMMA PreAllocatedHandle ==
  ASSUME IInv, NEW w \in Workers, PreAllocateEntities(w),
         NEW k \in DOMAIN pre_allocated'[w],
         NEW d, d = pre_allocated'[w][k]
  PROVE  /\ d \in Entity
         /\ d.idx \in DOMAIN entities'
         /\ ~ entities'[d.idx].has_value
         /\ ~ IsFree(d.idx)'
         /\ \/ IsFree(d.idx) /\ d.version = entities[d.idx].version + 1
            \/ d.idx \notin DOMAIN entities
<1>1. PICK r \in Nat, o \in Nat : PreAllocation(w, r, o)
  BY PreAllocateFacts
<1>2. /\ r \in 0..Len(free_entities)
      /\ o \in 0..(MaxSlots - Len(entities))
      /\ o > 0 => r = Len(free_entities)
  BY <1>1 DEF PreAllocation
<1>3. /\ DOMAIN pre_allocated'[w] = 1..(r + o)
      /\ \A j \in 1..(r + o) : pre_allocated'[w][j] =
           IF j <= r THEN RecycledEntity(entities, free_entities[j])
                     ELSE FreshEntity(Len(entities) + j - r)
  BY <1>1 DEF PreAllocation
<1>4. /\ Len(entities) \in Nat /\ DOMAIN entities = 1..Len(entities)
      /\ Len(free_entities) \in Nat /\ DOMAIN free_entities = 1..Len(free_entities)
      /\ \A j \in DOMAIN free_entities : free_entities[j] \in 1..MaxSlots
  BY TypeFacts DEF IInv
<1>5. d \in Entity
  <2>1. pre_allocated'[w] \in Seq(Entity)
    BY <1>1 DEF PreAllocation
  <2> QED BY <2>1
<1>6. k \in 1..(r + o) /\ k \in Nat
  BY <1>3
<1>9. /\ DOMAIN entities' = 1..(Len(entities) + o)
      /\ \A i \in DOMAIN entities : i \in DOMAIN entities' /\ entities'[i] = entities[i]
      /\ \A i \in DOMAIN entities' : i \notin DOMAIN entities => entities'[i] = NewEmptySlot
  BY <1>1 DEF PreAllocation
<1>10. /\ DOMAIN free_entities' = 1..(Len(free_entities) - r)
       /\ \A j \in DOMAIN free_entities' :
            j + r \in DOMAIN free_entities /\ free_entities'[j] = free_entities[j + r]
  BY <1>1 DEF PreAllocation
<1>11. Len(entities) \in Nat /\ Len(free_entities) \in Nat
  BY <1>4
<1>7. CASE k <= r
  <2>0. k \in 1..Len(free_entities)
    BY <1>2, <1>6, <1>7, <1>11
  <2>a. k \in DOMAIN free_entities
    BY <1>4, <2>0
  <2>1. d = RecycledEntity(entities, free_entities[k])
    BY <1>3, <1>6, <1>7
  <2>2. /\ d.idx = free_entities[k]
        /\ d.version = entities[d.idx].version + 1
        /\ IsFree(d.idx)
        /\ d.idx \in 1..MaxSlots
    BY <1>4, <2>a, <2>1 DEF RecycledEntity, IsFree
  <2>3. d.idx \in DOMAIN entities /\ ~ entities[d.idx].has_value
    BY <2>2 DEF IInv, SlotsKnown, HeldOnce
  <2>4. ~ IsFree(d.idx)'
    <3>1. ASSUME NEW j \in DOMAIN free_entities', free_entities'[j] = d.idx
          PROVE  FALSE
      <4>1. j + r = k
        BY <1>10, <2>a, <2>2, <3>1 DEF IInv, HeldOnce
      <4>2. j \in 1..(Len(free_entities) - r)
        BY <1>10
      <4> QED BY <1>4, <1>6, <1>7, <4>1, <4>2
    <3> QED BY <3>1 DEF IsFree
  <2> QED BY <1>9, <1>5, <2>2, <2>3, <2>4
<1>8. CASE ~ (k <= r)
  <2>0. d = FreshEntity(Len(entities) + k - r)
    BY <1>3, <1>6, <1>8
  <2>1. d.idx = Len(entities) + k - r
    BY <2>0 DEF FreshEntity
  <2>2. /\ d.idx \in DOMAIN entities' /\ d.idx \notin DOMAIN entities
    BY <1>9, <1>4, <1>6, <1>8, <2>1
  <2>3. ~ entities'[d.idx].has_value
    BY <1>9, <2>2 DEF NewEmptySlot
  <2>4. o > 0 /\ r = Len(free_entities)
    BY <1>2, <1>6, <1>8
  <2>5. ~ IsFree(d.idx)'
    BY <1>10, <1>4, <2>4 DEF IsFree
  <2> QED BY <1>5, <2>2, <2>3, <2>5
<1> QED BY <1>7, <1>8

(* One call of pre_allocate_entities takes every slot once.                *)
LEMMA PreAllocatedDistinct ==
  ASSUME IInv, NEW w \in Workers, PreAllocateEntities(w),
         NEW j \in DOMAIN pre_allocated'[w], NEW k \in DOMAIN pre_allocated'[w],
         pre_allocated'[w][j].idx = pre_allocated'[w][k].idx
  PROVE  j = k
<1>1. PICK r \in Nat, o \in Nat : PreAllocation(w, r, o)
  BY PreAllocateFacts
<1>2. r \in 0..Len(free_entities)
  BY <1>1 DEF PreAllocation
<1>3. /\ Len(entities) \in Nat /\ DOMAIN entities = 1..Len(entities)
      /\ Len(free_entities) \in Nat /\ DOMAIN free_entities = 1..Len(free_entities)
      /\ \A i \in DOMAIN free_entities : free_entities[i] \in 1..MaxSlots
  BY TypeFacts DEF IInv
<1>4. /\ DOMAIN pre_allocated'[w] = 1..(r + o)
      /\ \A i \in 1..(r + o) : pre_allocated'[w][i] =
           IF i <= r THEN RecycledEntity(entities, free_entities[i])
                     ELSE FreshEntity(Len(entities) + i - r)
  BY <1>1 DEF PreAllocation
<1>5. ASSUME NEW i \in 1..(r + o), i <= r
      PROVE  /\ i \in DOMAIN free_entities
             /\ pre_allocated'[w][i].idx = free_entities[i]
             /\ free_entities[i] \in DOMAIN entities
  <2>1. i \in 1..Len(free_entities)
    <3>1. Len(free_entities) \in Nat
      BY <1>3
    <3> QED BY <1>2, <1>5, <3>1
  <2>2. i \in DOMAIN free_entities
    BY <1>3, <2>1
  <2>3. pre_allocated'[w][i] = RecycledEntity(entities, free_entities[i])
    BY <1>4, <1>5
  <2>4. free_entities[i] \in DOMAIN entities
    BY <1>3, <2>2 DEF IInv, SlotsKnown, IsFree
  <2> QED BY <2>2, <2>3, <2>4 DEF RecycledEntity
<1>6. ASSUME NEW i \in 1..(r + o), ~ (i <= r)
      PROVE  /\ pre_allocated'[w][i].idx = Len(entities) + i - r
             /\ pre_allocated'[w][i].idx \notin DOMAIN entities
  <2>1. pre_allocated'[w][i] = FreshEntity(Len(entities) + i - r)
    BY <1>4, <1>6
  <2>2. pre_allocated'[w][i].idx = Len(entities) + i - r
    BY <2>1 DEF FreshEntity
  <2>3. Len(entities) + i - r \notin 1..Len(entities)
    BY <1>3, <1>6
  <2> QED BY <1>3, <2>2, <2>3
<1>7. j \in 1..(r + o) /\ k \in 1..(r + o)
  BY <1>4
<1>8. CASE j <= r /\ k <= r
  BY <1>5, <1>7, <1>8 DEF IInv, HeldOnce
<1>9. CASE ~ (j <= r) /\ ~ (k <= r)
  <2>1. Len(entities) + j - r = Len(entities) + k - r
    BY <1>6, <1>7, <1>9
  <2> QED BY <1>3, <1>7, <2>1
<1>10. CASE j <= r /\ ~ (k <= r)
  BY <1>5, <1>6, <1>7, <1>10
<1>11. CASE ~ (j <= r) /\ k <= r
  BY <1>5, <1>6, <1>7, <1>11
<1> QED BY <1>8, <1>9, <1>10, <1>11

(* PreAllocateEntities: nothing is handed out, and every handle taken is   *)
(* on a slot of its own.                                                   *)
LEMMA PreAllocateStep ==
  ASSUME IInv, NEW w \in Workers, PreAllocateEntities(w)
  PROVE  IInv'
<1>1. /\ outstanding' = outstanding
      /\ issued' = issued
      /\ retired_entity_slots' = retired_entity_slots
      /\ pre_allocated[w] = << >>
  BY DEF PreAllocateEntities
<1>2. PICK r \in Nat, o \in Nat : PreAllocation(w, r, o)
  BY PreAllocateFacts
<1>3. /\ pre_allocated' \in [Workers -> Seq(Entity)]
      /\ \A v \in Workers : v # w => pre_allocated'[v] = pre_allocated[v]
      /\ DOMAIN pre_allocated'[w] = 1..(r + o)
  BY <1>2 DEF PreAllocation
<1>4. /\ \A i \in DOMAIN entities : i \in DOMAIN entities' /\ entities'[i] = entities[i]
      /\ \A i \in DOMAIN entities' : i \notin DOMAIN entities => entities'[i] = NewEmptySlot
  BY <1>2 DEF PreAllocation
<1>5. /\ free_entities' \in Seq(1..MaxSlots)
      /\ \A k \in DOMAIN free_entities' :
           k + r \in DOMAIN free_entities /\ free_entities'[k] = free_entities[k + r]
      /\ DOMAIN free_entities' \subseteq Nat
  BY <1>2, SeqFacts DEF PreAllocation
<1>6. TypeOK'
  <2>1. /\ entities' \in Seq(Slot)
        /\ Len(entities') = Len(entities) + o
        /\ o \in 0..(MaxSlots - Len(entities))
    BY <1>2 DEF PreAllocation
  <2>2. Len(entities) \in Nat
    BY TypeFacts DEF IInv
  <2>3. Len(entities') <= MaxSlots
    BY <2>1, <2>2, SlotsAssumption
  <2> QED BY <1>1, <1>3, <1>5, <2>1, <2>3 DEF IInv, TypeOK
<1>7. /\ \A i : IsFree(i)' => IsFree(i)
      /\ \A j, k \in DOMAIN free_entities' : free_entities'[j] = free_entities'[k] => j = k
  <2>1. ASSUME NEW j \in DOMAIN free_entities', NEW k \in DOMAIN free_entities',
               free_entities'[j] = free_entities'[k]
        PROVE  j = k
    <3>1. j + r = k + r
      BY <1>5, <2>1 DEF IInv, HeldOnce
    <3>2. j \in Nat /\ k \in Nat
      BY <1>5
    <3> QED BY <3>1, <3>2
  <2>2. \A i : IsFree(i)' => IsFree(i)
    BY <1>5 DEF IsFree
  <2> QED BY <2>1, <2>2
<1>8. ASSUME NEW d \in Entity, Pooled(d)', ~ Pooled(d)
      PROVE  \E k \in DOMAIN pre_allocated'[w] : pre_allocated'[w][k] = d
  BY <1>3, <1>8 DEF Pooled
<1>9. ASSUME NEW d \in Entity, Pooled(d)', ~ Pooled(d)
      PROVE  /\ d.idx \in DOMAIN entities'
             /\ ~ entities'[d.idx].has_value
             /\ ~ IsFree(d.idx)'
             /\ \/ IsFree(d.idx) /\ d.version = entities[d.idx].version + 1
                \/ d.idx \notin DOMAIN entities
  <2>1. PICK k \in DOMAIN pre_allocated'[w] : d = pre_allocated'[w][k]
    BY <1>8, <1>9
  <2> QED BY <2>1, PreAllocatedHandle
<1>10. IssuedOnce'
  BY <1>1 DEF IInv, IssuedOnce
<1>11. SlotsKnown'
  BY <1>1, <1>4, <1>7, <1>9 DEF IInv, SlotsKnown
(* A handle taken and one another worker already had are apart.            *)
<1>12. ASSUME NEW u \in Workers, u # w,
              NEW j \in DOMAIN pre_allocated'[w], NEW k \in DOMAIN pre_allocated'[u]
       PROVE  pre_allocated'[w][j].idx # pre_allocated'[u][k].idx
  <2>1. PICK d \in Entity : d = pre_allocated'[w][j]
    BY PreAllocatedHandle
  <2>2. IsFree(d.idx) \/ d.idx \notin DOMAIN entities
    BY <2>1, PreAllocatedHandle
  <2>3. /\ pre_allocated'[u] = pre_allocated[u]
        /\ k \in DOMAIN pre_allocated[u]
        /\ pre_allocated[u] \in Seq(Entity)
    BY <1>3, <1>12 DEF IInv, TypeOK
  <2>4. PICK f \in Entity : f = pre_allocated[u][k]
    BY <2>3
  <2>5. Pooled(f)
    BY <2>3, <2>4 DEF Pooled
  <2>6. f.idx \in DOMAIN entities /\ ~ IsFree(f.idx)
    BY <2>5 DEF IInv, SlotsKnown, HeldOnce
  <2> QED BY <2>1, <2>2, <2>3, <2>4, <2>6
<1>13. ASSUME NEW v \in Workers, NEW u \in Workers,
              NEW j \in DOMAIN pre_allocated'[v], NEW k \in DOMAIN pre_allocated'[u],
              pre_allocated'[v][j].idx = pre_allocated'[u][k].idx
       PROVE  v = u /\ j = k
  <2>1. CASE v = w /\ u = w
    BY <1>13, <2>1, PreAllocatedDistinct
  <2>2. CASE v = w /\ u # w
    BY <1>12, <1>13, <2>2
  <2>3. CASE v # w /\ u = w
    BY <1>12, <1>13, <2>3
  <2>4. CASE v # w /\ u # w
    <3>1. /\ pre_allocated'[v] = pre_allocated[v]
          /\ pre_allocated'[u] = pre_allocated[u]
      BY <1>3, <2>4
    <3>2. pre_allocated[v][j].idx = pre_allocated[u][k].idx
      BY <1>13, <3>1
    <3> QED BY <1>13, <3>1, <3>2 DEF IInv, HeldOnce
  <2> QED BY <2>1, <2>2, <2>3, <2>4
<1>14. HeldOnce'
  <2>1. \A d, f \in outstanding' : d.idx = f.idx => d = f
    BY <1>1 DEF IInv, HeldOnce
  <2>2. ASSUME NEW d \in Entity, Pooled(d)', NEW f \in outstanding'
        PROVE  f.idx # d.idx
    <3>1. f \in outstanding /\ f \in Entity
      BY <1>1, <2>2 DEF IInv, TypeOK
    <3>2. f.idx \in DOMAIN entities /\ ~ IsFree(f.idx)
      BY <3>1 DEF IInv, SlotsKnown, HeldOnce
    <3>3. CASE Pooled(d)
      BY <3>1, <3>3 DEF IInv, HeldOnce
    <3>4. CASE ~ Pooled(d)
      BY <1>9, <2>2, <3>2, <3>4
    <3> QED BY <3>3, <3>4
  <2>3. ASSUME NEW d \in Entity, d \in outstanding' \/ Pooled(d)'
        PROVE  ~ IsFree(d.idx)'
    <3>1. CASE d \in outstanding \/ Pooled(d)
      BY <1>7, <3>1 DEF IInv, HeldOnce
    <3>2. CASE ~ (d \in outstanding \/ Pooled(d))
      BY <1>1, <1>9, <2>3, <3>2
    <3> QED BY <3>1, <3>2
  <2>4. ASSUME NEW i \in DOMAIN entities', entities'[i].has_value
        PROVE  /\ i \in DOMAIN entities /\ entities[i].has_value
               /\ ~ IsFree(i)'
    <3>1. i \in DOMAIN entities
      BY <1>4, <2>4 DEF NewEmptySlot
    <3> QED BY <1>4, <1>7, <2>4, <3>1 DEF IInv, HeldOnce
  <2>5. ASSUME NEW i \in DOMAIN entities', entities'[i].has_value,
               NEW d \in Entity, d \in outstanding' \/ Pooled(d)'
        PROVE  d.idx # i
    <3>1. i \in DOMAIN entities /\ entities[i].has_value
      BY <2>4, <2>5
    <3>2. CASE d \in outstanding \/ Pooled(d)
      BY <3>1, <3>2 DEF IInv, HeldOnce
    <3>3. CASE ~ (d \in outstanding \/ Pooled(d))
      BY <1>1, <1>9, <2>5, <3>3
    <3> QED BY <3>2, <3>3
  <2> QED BY <1>7, <1>13, <2>1, <2>2, <2>3, <2>4, <2>5 DEF HeldOnce
<1>15. VersionsAdvance'
  <2>1. ASSUME NEW d \in Entity, issued'[d] > 0
        PROVE  /\ d.idx \in DOMAIN entities'
               /\ IsFree(d.idx)' \/ entities'[d.idx].has_value =>
                    d.version <= entities'[d.idx].version
    BY <1>1, <1>4, <1>7, <2>1 DEF IInv, VersionsAdvance
  <2>2. ASSUME NEW d \in Entity, issued'[d] > 0, NEW f \in Entity, f.idx = d.idx
        PROVE  /\ Pooled(f)' => d.version < f.version
               /\ f \in outstanding' => d.version <= f.version
    <3>1. f \in outstanding' => d.version <= f.version
      BY <1>1, <2>2 DEF IInv, VersionsAdvance
    <3>2. ASSUME Pooled(f)' PROVE d.version < f.version
      <4>1. CASE Pooled(f)
        BY <1>1, <2>2, <4>1 DEF IInv, VersionsAdvance
      <4>2. CASE ~ Pooled(f)
        <5>1. d.idx \in DOMAIN entities
          BY <1>1, <2>2 DEF IInv, VersionsAdvance
        <5>2. IsFree(f.idx) /\ f.version = entities[f.idx].version + 1
          BY <1>9, <2>2, <3>2, <4>2, <5>1
        <5>3. d.version <= entities[d.idx].version
          BY <1>1, <2>2, <5>2 DEF IInv, VersionsAdvance
        <5>4. entities[d.idx].version \in Nat /\ d.version \in Nat
          BY <5>1, TypeFacts DEF IInv, Entity
        <5> QED BY <2>2, <5>2, <5>3, <5>4
      <4> QED BY <4>1, <4>2
    <3> QED BY <3>1, <3>2
  <2>3. ASSUME NEW d \in Entity, d \in outstanding' \/ Exists(entities', d)
        PROVE  issued'[d] > 0
    <3>1. /\ DOMAIN entities' = 1..Len(entities')
          /\ DOMAIN entities = 1..Len(entities)
      BY <1>6, SeqFacts DEF IInv, TypeOK
    <3>2. Exists(entities', d) => Exists(entities, d)
      BY <1>4, <3>1 DEF Exists, NewEmptySlot
    <3> QED BY <1>1, <2>3, <3>2 DEF IInv, VersionsAdvance
  <2> QED BY <2>1, <2>2, <2>3 DEF VersionsAdvance
<1> QED BY <1>6, <1>10, <1>11, <1>14, <1>15 DEF IInv

(* Every action keeps the invariant, and so does a stuttering step.        *)
LEMMA NextStep ==
  ASSUME IInv, [Next]_vars
  PROVE  IInv'
<1>1. CASE NewEntity
  BY <1>1, NewEntityStep
<1>2. ASSUME NEW w \in Workers, PreAllocateEntities(w) PROVE IInv'
  BY <1>2, PreAllocateStep
<1>3. ASSUME NEW w \in Workers, TakePreAllocated(w) PROVE IInv'
  BY <1>3, TakeStep
<1>4. ASSUME NEW e \in Entity, UpdateEntitySpec(e) PROVE IInv'
  BY <1>4, UpdateStep
<1>5. ASSUME NEW e \in Entity, EraseEntity(e) PROVE IInv'
  BY <1>5, EraseStep
<1>6. CASE UNCHANGED vars
  <2>1. \A i : IsFree(i)' <=> IsFree(i)
    BY <1>6 DEF vars, IsFree
  <2>2. \A d : Pooled(d)' <=> Pooled(d)
    BY <1>6 DEF vars, Pooled
  <2> QED
    BY <1>6, <2>1, <2>2
    DEF vars, IInv, TypeOK, IssuedOnce, SlotsKnown, HeldOnce, VersionsAdvance, Exists
<1> QED BY <1>1, <1>2, <1>3, <1>4, <1>5, <1>6 DEF Next

(* In every reachable state: well typed containers, every slot known and   *)
(* held once, versions that only advance, and hence no handle issued twice.*)
THEOREM Invariant == Spec => []IInv
BY InitIInv, NextStep, PTL DEF Spec

(* entity_allocator.rs keeps its containers well typed, whatever the number*)
(* of slots, versions and workers.                                         *)
THEOREM TypeCorrect == Spec => []TypeOK
<1>1. IInv => TypeOK
  BY DEF IInv
<1> QED BY Invariant, <1>1, PTL

(* entity.rs: a handle is never reissued, through the main thread or any   *)
(* worker's queue, for any number of slots, versions and workers.          *)
THEOREM NeverReissued == Spec => []IssuedOnce
<1>1. IInv => IssuedOnce
  BY DEF IInv
<1> QED BY Invariant, <1>1, PTL

(* No slot is ever queued twice, in two workers' queues, or queued while   *)
(* an entity lives in it.                                                  *)
THEOREM SlotsHeldOnce == Spec => []HeldOnce
<1>1. IInv => HeldOnce
  BY DEF IInv
<1> QED BY Invariant, <1>1, PTL
(* Every place a slot waits in names a slot that exists, and what waits to *)
(* be recycled has a version left: what new_entity_unlocked only asserts   *)
(* in debug builds.                                                        *)
THEOREM SlotsAreKnown == Spec => []SlotsKnown
<1>1. IInv => SlotsKnown
  BY DEF IInv
<1> QED BY Invariant, <1>1, PTL

(* entity.rs: a handle given out later on a slot is newer than every handle*)
(* given out before on it, whichever queue it waited in.                   *)
THEOREM VersionsOnlyAdvance == Spec => []VersionsAdvance
<1>1. IInv => VersionsAdvance
  BY DEF IInv
<1> QED BY Invariant, <1>1, PTL
----------------------------------------------------------------------------
(* Retired slots. The methods other than erase_entity pass a slot from one *)
(* holder to another; erase_entity queues it or counts it.                 *)
Unheld == {i \in DOMAIN entities : ~ Held(i)}

(* A handle that is queued in a worker or handed out.                      *)
Taken(e) == e \in outstanding \/ Pooled(e)

LEMMA UnheldFinite ==
  ASSUME IInv
  PROVE  IsFiniteSet(Unheld)
<1>1. DOMAIN entities = 1..Len(entities) /\ Len(entities) \in Nat
  BY TypeFacts, SlotsAssumption DEF IInv
<1>2. IsFiniteSet(1..Len(entities))
  BY <1>1, FS_Interval
<1>3. Unheld \in SUBSET (1..Len(entities))
  BY <1>1 DEF Unheld
<1> QED BY <1>2, <1>3, FS_Subset

(* Where every slot keeps being held or not, and new slots are held, the   *)
(* unheld ones stay the same.                                              *)
LEMMA UnheldKept ==
  ASSUME DOMAIN entities \subseteq DOMAIN entities',
         \A i \in DOMAIN entities : Held(i)' <=> Held(i),
         \A i \in DOMAIN entities' : i \notin DOMAIN entities => Held(i)'
  PROVE  Unheld' = Unheld
BY DEF Unheld

(* new_entity hands out the slot it took off the free list or opened.      *)
LEMMA NewEntityUnheld ==
  ASSUME IInv, NewEntity
  PROVE  Unheld' = Unheld
<1>1. PICK e \in Entity : e = NextEntity(entities, free_entities)
  BY NextEntityType DEF IInv, NewEntity
<1>2. /\ outstanding' = outstanding \cup {e}
      /\ pre_allocated' = pre_allocated
      /\ entities' = EntitiesAfterNew(entities, free_entities)
      /\ free_entities' = FreeAfterNew(free_entities)
  BY <1>1 DEF NewEntity, HandOut
<1>3. \A d : Pooled(d)' <=> Pooled(d)
  BY <1>2 DEF Pooled
<1>4. /\ DOMAIN entities = 1..Len(entities) /\ Len(entities) \in Nat
      /\ entities \in Seq(Slot)
  BY TypeFacts, SlotsAssumption DEF IInv, TypeOK
<1>5. CASE free_entities # << >>
  <2>1. /\ entities' = entities
        /\ free_entities' = Tail(free_entities)
        /\ e = RecycledEntity(entities, Head(free_entities))
    BY <1>1, <1>2, <1>5 DEF EntitiesAfterNew, FreeAfterNew, NextEntity
  <2>2. /\ DOMAIN free_entities = 1..Len(free_entities)
        /\ Len(free_entities) \in Nat /\ Len(free_entities) > 0
        /\ DOMAIN free_entities' = 1..(Len(free_entities) - 1)
        /\ \A k \in DOMAIN free_entities' : free_entities'[k] = free_entities[k + 1]
        /\ Head(free_entities) = free_entities[1]
    BY <1>5, <2>1, SeqFacts DEF IInv, TypeOK
  <2>3. e.idx = free_entities[1] /\ IsFree(e.idx)
    BY <2>1, <2>2 DEF RecycledEntity, IsFree
  <2>4. ASSUME NEW i, i # e.idx
        PROVE  IsFree(i)' <=> IsFree(i)
    <3>1. ASSUME NEW k \in DOMAIN free_entities, free_entities[k] = i
          PROVE  k - 1 \in DOMAIN free_entities' /\ free_entities'[k - 1] = i
      <4>1. k # 1
        BY <2>3, <2>4, <3>1
      <4>2. k - 1 \in DOMAIN free_entities' /\ (k - 1) + 1 = k
        BY <2>2, <4>1
      <4> QED BY <2>2, <3>1, <4>2
    <3>2. ASSUME NEW k \in DOMAIN free_entities', free_entities'[k] = i
          PROVE  k + 1 \in DOMAIN free_entities /\ free_entities[k + 1] = i
      BY <2>2, <3>2
    <3> QED BY <3>1, <3>2 DEF IsFree
  <2>5. \A i \in DOMAIN entities : Held(i)' <=> Held(i)
    BY <1>2, <1>3, <2>1, <2>3, <2>4 DEF Held
  <2> QED BY <2>1, <2>5, UnheldKept
<1>6. CASE free_entities = << >>
  <2>1. /\ entities' = Append(entities, NewEmptySlot)
        /\ free_entities' = free_entities
        /\ e.idx = Len(entities) + 1
    BY <1>1, <1>2, <1>6 DEF EntitiesAfterNew, FreeAfterNew, NextEntity, FreshEntity
  <2>2. /\ DOMAIN entities' = 1..(Len(entities) + 1)
        /\ \A i \in 1..Len(entities) : entities'[i] = entities[i]
    BY <1>4, <2>1, NewEmptySlotType
  <2>3. \A i \in DOMAIN entities : Held(i)' <=> Held(i)
    BY <1>2, <1>3, <1>4, <2>1, <2>2 DEF Held, IsFree
  <2>4. \A i \in DOMAIN entities' : i \notin DOMAIN entities => i = e.idx
    BY <1>4, <2>1, <2>2
  <2> QED BY <1>2, <1>4, <2>2, <2>3, <2>4, UnheldKept DEF Held
<1> QED BY <1>5, <1>6

(* A worker hands out what it had queued.                                  *)
LEMMA TakeUnheld ==
  ASSUME IInv, NEW w \in Workers, TakePreAllocated(w)
  PROVE  Unheld' = Unheld
<1>1. /\ pre_allocated[w] # << >>
      /\ outstanding' = outstanding \cup {Head(pre_allocated[w])}
      /\ pre_allocated' = [pre_allocated EXCEPT ![w] = Tail(@)]
      /\ entities' = entities
      /\ free_entities' = free_entities
      /\ pre_allocated \in [Workers -> Seq(Entity)]
  BY DEF TakePreAllocated, HandOut, IInv, TypeOK
<1>2. /\ Len(pre_allocated[w]) \in Nat
      /\ DOMAIN pre_allocated[w] = 1..Len(pre_allocated[w])
      /\ Head(pre_allocated[w]) = pre_allocated[w][1]
      /\ 1 \in DOMAIN pre_allocated[w]
      /\ DOMAIN Tail(pre_allocated[w]) = 1..(Len(pre_allocated[w]) - 1)
      /\ \A k \in DOMAIN Tail(pre_allocated[w]) :
           Tail(pre_allocated[w])[k] = pre_allocated[w][k + 1]
  BY <1>1, SeqFacts
<1>3. /\ pre_allocated'[w] = Tail(pre_allocated[w])
      /\ \A v \in Workers : v # w => pre_allocated'[v] = pre_allocated[v]
  BY <1>1
<1>4. ASSUME NEW d
      PROVE  Taken(d)' <=> Taken(d)
  <2>1. ASSUME NEW k \in DOMAIN pre_allocated[w], pre_allocated[w][k] = d, k # 1
        PROVE  k - 1 \in DOMAIN pre_allocated'[w] /\ pre_allocated'[w][k - 1] = d
    <3>1. k - 1 \in DOMAIN Tail(pre_allocated[w]) /\ (k - 1) + 1 = k
      BY <1>2, <2>1
    <3> QED BY <1>2, <1>3, <2>1, <3>1
  <2>2. ASSUME NEW k \in DOMAIN pre_allocated'[w], pre_allocated'[w][k] = d
        PROVE  k + 1 \in DOMAIN pre_allocated[w] /\ pre_allocated[w][k + 1] = d
    BY <1>2, <1>3, <2>2
  <2>3. ASSUME Taken(d) PROVE Taken(d)'
    BY <1>1, <1>2, <1>3, <2>1, <2>3 DEF Taken, Pooled
  <2>4. ASSUME Taken(d)' PROVE Taken(d)
    BY <1>1, <1>2, <1>3, <2>2, <2>4 DEF Taken, Pooled
  <2> QED BY <2>3, <2>4
<1>5. \A i : IsFree(i)' <=> IsFree(i)
  BY <1>1 DEF IsFree
<1>6. \A i \in DOMAIN entities : Held(i)' <=> Held(i)
  BY <1>1, <1>4, <1>5 DEF Held, Taken
<1> QED BY <1>1, <1>6, UnheldKept

(* pre_allocate_entities queues what it took off the free list or opened.  *)
LEMMA PreAllocateUnheld ==
  ASSUME IInv, NEW w \in Workers, PreAllocateEntities(w)
  PROVE  Unheld' = Unheld
<1>1. outstanding' = outstanding /\ pre_allocated[w] = << >>
  BY DEF PreAllocateEntities
<1>2. PICK r \in Nat, o \in Nat : PreAllocation(w, r, o)
  BY PreAllocateFacts
<1>3. /\ \A v \in Workers : v # w => pre_allocated'[v] = pre_allocated[v]
      /\ DOMAIN pre_allocated'[w] = 1..(r + o)
      /\ \A k \in 1..(r + o) : pre_allocated'[w][k] =
           IF k <= r THEN RecycledEntity(entities, free_entities[k])
                     ELSE FreshEntity(Len(entities) + k - r)
      /\ DOMAIN entities' = 1..(Len(entities) + o)
      /\ \A i \in DOMAIN entities : i \in DOMAIN entities' /\ entities'[i] = entities[i]
      /\ DOMAIN free_entities' = 1..(Len(free_entities) - r)
      /\ \A k \in DOMAIN free_entities' :
           k + r \in DOMAIN free_entities /\ free_entities'[k] = free_entities[k + r]
      /\ r \in 0..Len(free_entities)
  BY <1>2 DEF PreAllocation
<1>4. /\ DOMAIN entities = 1..Len(entities) /\ Len(entities) \in Nat
      /\ DOMAIN free_entities = 1..Len(free_entities) /\ Len(free_entities) \in Nat
  BY TypeFacts, SlotsAssumption DEF IInv
<1>5. ASSUME NEW k \in 1..(r + o), NEW d, d = pre_allocated'[w][k]
      PROVE  Pooled(d)' /\ d \in Entity
  <2>1. k \in DOMAIN pre_allocated'[w]
    BY <1>3
  <2>2. Pooled(d)'
    BY <1>5, <2>1 DEF Pooled
  <2> QED BY <1>5, <2>1, <2>2, PreAllocatedHandle
<1>6. ASSUME NEW d, Pooled(d)
      PROVE  Pooled(d)'
  <2>1. PICK v \in Workers : \E k \in DOMAIN pre_allocated[v] : pre_allocated[v][k] = d
    BY <1>6 DEF Pooled
  <2>2. v # w
    BY <1>1, <2>1
  <2>3. pre_allocated'[v] = pre_allocated[v]
    BY <1>3, <2>2
  <2> QED BY <2>1, <2>3 DEF Pooled
<1>7. ASSUME NEW d, Pooled(d)'
      PROVE  Pooled(d) \/ IsFree(d.idx) \/ d.idx \notin DOMAIN entities
  <2>1. CASE Pooled(d)
    BY <2>1
  <2>2. CASE \E k \in DOMAIN pre_allocated'[w] : pre_allocated'[w][k] = d
    BY <2>2, PreAllocatedHandle
  <2> QED BY <1>3, <1>7, <2>1, <2>2 DEF Pooled
<1>8. ASSUME NEW i, IsFree(i)
      PROVE  IsFree(i)' \/ \E d \in Entity : d.idx = i /\ Pooled(d)'
  <2>1. PICK k \in DOMAIN free_entities : free_entities[k] = i
    BY <1>8 DEF IsFree
  <2>2. CASE k <= r
    <3>1. k \in 1..(r + o)
      BY <1>4, <2>2
    <3>2. PICK d : d = pre_allocated'[w][k]
      OBVIOUS
    <3>3. d = RecycledEntity(entities, i)
      BY <1>3, <2>1, <2>2, <3>1, <3>2
    <3>4. d.idx = i
      BY <3>3 DEF RecycledEntity
    <3> QED BY <1>5, <3>1, <3>2, <3>4
  <2>3. CASE ~ (k <= r)
    <3>1. k - r \in DOMAIN free_entities' /\ (k - r) + r = k
      BY <1>3, <1>4, <2>3
    <3>2. free_entities'[k - r] = i
      BY <1>3, <2>1, <3>1
    <3> QED BY <3>1, <3>2 DEF IsFree
  <2> QED BY <2>2, <2>3
<1>9. \A i : IsFree(i)' => IsFree(i)
  BY <1>3 DEF IsFree
<1>10. ASSUME NEW i \in DOMAIN entities'
       PROVE  i \notin DOMAIN entities => Held(i)'
  <2> SUFFICES ASSUME i \notin DOMAIN entities PROVE Held(i)'
    OBVIOUS
  <2>1. /\ i - Len(entities) + r \in 1..(r + o)
        /\ ~ (i - Len(entities) + r <= r)
        /\ Len(entities) + (i - Len(entities) + r) - r = i
    BY <1>3, <1>4
  <2>2. pre_allocated'[w][i - Len(entities) + r] = FreshEntity(i)
    BY <1>3, <2>1
  <2>3. FreshEntity(i).idx = i
    BY DEF FreshEntity
  <2>4. FreshEntity(i) \in Entity /\ Pooled(FreshEntity(i))'
    BY <1>5, <2>1, <2>2
  <2> QED BY <2>3, <2>4 DEF Held
<1>11. ASSUME NEW i \in DOMAIN entities
       PROVE  Held(i)' <=> Held(i)
  <2>1. ASSUME Held(i) PROVE Held(i)'
    BY <1>1, <1>3, <1>6, <1>8, <2>1 DEF Held
  <2>2. ASSUME Held(i)' PROVE Held(i)
    BY <1>1, <1>3, <1>7, <1>9, <2>2 DEF Held
  <2> QED BY <2>1, <2>2
<1> QED BY <1>3, <1>10, <1>11, UnheldKept

(* update_entity_spec: the slot that was handed out now holds its entity.  *)
LEMMA UpdateUnheld ==
  ASSUME IInv, NEW e \in Entity, UpdateEntitySpec(e)
  PROVE  Unheld' = Unheld
<1>1. /\ e \in outstanding
      /\ outstanding' = outstanding \ {e}
      /\ entities' = [entities EXCEPT ![e.idx] = [version |-> e.version, has_value |-> TRUE]]
      /\ free_entities' = free_entities
      /\ pre_allocated' = pre_allocated
  BY DEF UpdateEntitySpec
<1>2. e.idx \in DOMAIN entities
  BY <1>1 DEF IInv, SlotsKnown
<1>3. /\ DOMAIN entities' = DOMAIN entities
      /\ entities'[e.idx].has_value
      /\ \A i \in DOMAIN entities : i # e.idx => entities'[i] = entities[i]
  BY <1>1, <1>2
<1>4. /\ \A i : IsFree(i)' <=> IsFree(i)
      /\ \A d : Pooled(d)' <=> Pooled(d)
  BY <1>1 DEF IsFree, Pooled
<1>5. Held(e.idx) /\ Held(e.idx)'
  BY <1>1, <1>3 DEF Held
<1>6. ASSUME NEW i \in DOMAIN entities, i # e.idx
      PROVE  Held(i)' <=> Held(i)
  BY <1>1, <1>3, <1>4, <1>6 DEF Held
<1> QED BY <1>3, <1>5, <1>6, UnheldKept

(* erase_entity queues the slot, or counts it as it leaves it to nobody.   *)
LEMMA EraseUnheld ==
  ASSUME IInv, NEW e \in Entity, EraseEntity(e)
  PROVE  IF IsSpent(entities, e)
         THEN /\ e.idx \notin Unheld
              /\ Unheld' = Unheld \cup {e.idx}
         ELSE Unheld' = Unheld
<1>1. /\ Exists(entities, e)
      /\ entities' = [entities EXCEPT ![e.idx].has_value = FALSE]
      /\ free_entities' = FreeAfterErase(entities, free_entities, e)
      /\ pre_allocated' = pre_allocated
      /\ outstanding' = outstanding
  BY DEF EraseEntity, EntitiesAfterErase
<1>2. /\ DOMAIN entities = 1..Len(entities)
      /\ entities \in Seq(Slot)
      /\ free_entities \in Seq(1..MaxSlots)
      /\ Len(free_entities) \in Nat
      /\ DOMAIN free_entities = 1..Len(free_entities)
      /\ e.idx \in 1..MaxSlots
  BY TypeFacts DEF IInv, TypeOK, Entity
<1>3. /\ e.idx \in DOMAIN entities
      /\ entities[e.idx].has_value
      /\ entities[e.idx] \in Slot
  BY <1>1, <1>2 DEF Exists
<1>4. /\ DOMAIN entities' = DOMAIN entities
      /\ ~ entities'[e.idx].has_value
      /\ \A i \in DOMAIN entities : i # e.idx => entities'[i] = entities[i]
  BY <1>1, <1>3 DEF Slot
<1>5. \A d : Pooled(d)' <=> Pooled(d)
  BY <1>1 DEF Pooled
<1>6. /\ Held(e.idx)
      /\ ~ IsFree(e.idx)
      /\ \A d \in Entity : Taken(d) => d.idx # e.idx
  BY <1>3 DEF Held, Taken, IInv, HeldOnce
<1>7. CASE IsSpent(entities, e)
  <2>1. free_entities' = free_entities
    BY <1>1, <1>7 DEF FreeAfterErase
  <2>2. \A i : IsFree(i)' <=> IsFree(i)
    BY <2>1 DEF IsFree
  <2>3. ~ Held(e.idx)'
    BY <1>1, <1>4, <1>5, <1>6, <2>2 DEF Held, Taken
  <2>4. \A i \in DOMAIN entities : i # e.idx => (Held(i)' <=> Held(i))
    BY <1>1, <1>4, <1>5, <2>2 DEF Held
  <2> QED BY <1>3, <1>4, <1>6, <1>7, <2>3, <2>4 DEF Unheld
<1>8. CASE ~ IsSpent(entities, e)
  <2>1. free_entities' = Append(free_entities, e.idx)
    BY <1>1, <1>8 DEF FreeAfterErase
  <2>2. /\ DOMAIN free_entities' = 1..(Len(free_entities) + 1)
        /\ free_entities'[Len(free_entities) + 1] = e.idx
        /\ \A k \in 1..Len(free_entities) : free_entities'[k] = free_entities[k]
    BY <1>2, <2>1
  <2>3. IsFree(e.idx)'
    BY <1>2, <2>2 DEF IsFree
  <2>4. \A i : i # e.idx => (IsFree(i)' <=> IsFree(i))
    BY <1>2, <2>2 DEF IsFree
  <2>5. \A i \in DOMAIN entities : Held(i)' <=> Held(i)
    BY <1>1, <1>4, <1>5, <1>6, <2>3, <2>4 DEF Held
  <2> QED BY <1>4, <1>8, <2>5, UnheldKept
<1> QED BY <1>7, <1>8

(* entity_allocator.rs, erase_entity: retired_entity_slots counts exactly  *)
(* the slots nobody can get hold of any more.                              *)
THEOREM RetiredCounted == Spec => []RetiredAreCounted
<1>1. Init => RetiredAreCounted
  <2>1. Init => {i \in DOMAIN entities : ~ Held(i)} = {}
    BY DEF Init
  <2> QED BY <2>1, FS_EmptySet DEF Init, RetiredAreCounted
<1>2. ASSUME IInv, RetiredAreCounted, [Next]_vars
      PROVE  RetiredAreCounted'
  <2>1. retired_entity_slots = Cardinality(Unheld) /\ IsFiniteSet(Unheld)
    BY <1>2, UnheldFinite DEF RetiredAreCounted, Unheld
  <2> SUFFICES retired_entity_slots' = Cardinality(Unheld')
    BY DEF RetiredAreCounted, Unheld
  <2>2. CASE NewEntity
    BY <1>2, <2>1, <2>2, NewEntityUnheld DEF NewEntity
  <2>3. ASSUME NEW w \in Workers, PreAllocateEntities(w)
        PROVE  retired_entity_slots' = Cardinality(Unheld')
    BY <1>2, <2>1, <2>3, PreAllocateUnheld DEF PreAllocateEntities
  <2>4. ASSUME NEW w \in Workers, TakePreAllocated(w)
        PROVE  retired_entity_slots' = Cardinality(Unheld')
    BY <1>2, <2>1, <2>4, TakeUnheld DEF TakePreAllocated
  <2>5. ASSUME NEW e \in Entity, UpdateEntitySpec(e)
        PROVE  retired_entity_slots' = Cardinality(Unheld')
    BY <1>2, <2>1, <2>5, UpdateUnheld DEF UpdateEntitySpec
  <2>6. ASSUME NEW e \in Entity, EraseEntity(e)
        PROVE  retired_entity_slots' = Cardinality(Unheld')
    <3>1. retired_entity_slots' = RetiredAfterErase(entities, retired_entity_slots, e)
      BY <2>6 DEF EraseEntity
    <3>2. CASE IsSpent(entities, e)
      <4>1. e.idx \notin Unheld /\ Unheld' = Unheld \cup {e.idx}
        BY <1>2, <2>6, <3>2, EraseUnheld
      <4>2. Cardinality(Unheld \cup {e.idx}) = Cardinality(Unheld) + 1
        BY <2>1, <4>1, FS_AddElement
      <4> QED BY <2>1, <3>1, <3>2, <4>1, <4>2 DEF RetiredAfterErase
    <3>3. CASE ~ IsSpent(entities, e)
      BY <1>2, <2>1, <2>6, <3>1, <3>3, EraseUnheld DEF RetiredAfterErase
    <3> QED BY <3>2, <3>3
  <2>7. CASE UNCHANGED vars
    BY <2>1, <2>7 DEF vars, Unheld, Held, IsFree, Pooled
  <2> QED BY <1>2, <2>2, <2>3, <2>4, <2>5, <2>6, <2>7 DEF Next
<1> QED BY <1>1, <1>2, Invariant, PTL DEF Spec
----------------------------------------------------------------------------
(* EntityAllocator implements EntityLifecycle.                             *)

(* One handle changes, the others keep their status: a step of the life    *)
(* cycle.                                                                  *)
LEMMA ChangeFacts ==
  ASSUME NEW e \in Entity, NEW from, NEW to,
         StatusOf(e) = from, StatusOf(e)' = to,
         \A d \in Entity : d # e => StatusOf(d)' = StatusOf(d)
  PROVE  Lifecycle!Change(e, from, to)
<1>1. [d \in Entity |-> StatusOf(d)]' = [[d \in Entity |-> StatusOf(d)] EXCEPT ![e] = to]
  OBVIOUS
<1> QED BY <1>1 DEF Lifecycle!Change

(* Handing out a handle issues it, and changes no other handle.            *)
LEMMA IssueMaps ==
  ASSUME IInv, IInv', NEW e \in Entity, HandOut(e),
         \A d \in Entity : Exists(entities, d)' <=> Exists(entities, d)
  PROVE  Lifecycle!Issue(e)
<1>1. /\ outstanding' = outstanding \cup {e}
      /\ issued'[e] = issued[e] + 1
      /\ \A d \in Entity : d # e => issued'[d] = issued[d]
      /\ \A d \in Entity : issued[d] \in Nat
  BY HandOutFacts DEF IInv
<1>2. issued'[e] <= 1
  BY DEF IInv, IssuedOnce
<1>3. issued[e] = 0 /\ issued'[e] # 0
  BY <1>1, <1>2
<1>4. StatusOf(e) = "unissued" /\ StatusOf(e)' = "pending"
  BY <1>1, <1>3 DEF StatusOf
<1>5. \A d \in Entity : d # e => StatusOf(d)' = StatusOf(d)
  BY <1>1 DEF StatusOf
<1> QED BY <1>4, <1>5, ChangeFacts DEF Lifecycle!Issue, Lifecycle!Unissued, Lifecycle!Pending

(* Which entities exist is untouched by the methods that only move slots   *)
(* that hold no value.                                                     *)
LEMMA ExistsKept ==
  ASSUME IInv, IInv',
         \A i \in DOMAIN entities : i \in DOMAIN entities' /\ entities'[i] = entities[i],
         \A i \in DOMAIN entities' : i \notin DOMAIN entities => ~ entities'[i].has_value
  PROVE  \A d \in Entity : Exists(entities, d)' <=> Exists(entities, d)
<1>1. /\ DOMAIN entities = 1..Len(entities)
      /\ DOMAIN entities' = 1..Len(entities')
  BY SeqFacts DEF IInv, TypeOK
<1> QED BY <1>1 DEF Exists

(* NewEntity issues the handle it returns.                                 *)
LEMMA NewEntityMaps ==
  ASSUME IInv, IInv', NewEntity
  PROVE  \E e \in Entity : Lifecycle!Issue(e)
<1>1. PICK e \in Entity : e = NextEntity(entities, free_entities)
  BY NextEntityType DEF IInv, NewEntity
<1>2. HandOut(e)
  BY <1>1 DEF NewEntity
<1>3. entities' = entities \/ entities' = Append(entities, NewEmptySlot)
  BY DEF NewEntity, EntitiesAfterNew
<1>4. /\ \A i \in DOMAIN entities : i \in DOMAIN entities' /\ entities'[i] = entities[i]
      /\ \A i \in DOMAIN entities' : i \notin DOMAIN entities => ~ entities'[i].has_value
  <2>1. CASE entities' = entities
    BY <2>1
  <2>2. CASE entities' = Append(entities, NewEmptySlot)
    <3>1. entities \in Seq(Slot) /\ Len(entities) \in Nat /\ DOMAIN entities = 1..Len(entities)
      BY TypeFacts DEF IInv, TypeOK
    <3>2. /\ DOMAIN entities' = 1..(Len(entities) + 1)
          /\ \A i \in 1..Len(entities) : entities'[i] = entities[i]
          /\ entities'[Len(entities) + 1] = NewEmptySlot
      BY <2>2, <3>1, NewEmptySlotType
    <3> QED BY <3>1, <3>2 DEF NewEmptySlot
  <2> QED BY <1>3, <2>1, <2>2
<1> QED BY <1>2, <1>4, ExistsKept, IssueMaps

(* TakePreAllocated issues the front of the worker's queue.                *)
LEMMA TakeMaps ==
  ASSUME IInv, IInv', NEW w \in Workers, TakePreAllocated(w)
  PROVE  \E e \in Entity : Lifecycle!Issue(e)
<1>1. pre_allocated[w] \in Seq(Entity) /\ pre_allocated[w] # << >>
  BY DEF TakePreAllocated, IInv, TypeOK
<1>2. PICK e \in Entity : e = Head(pre_allocated[w])
  BY <1>1
<1>3. HandOut(e) /\ entities' = entities
  BY <1>2 DEF TakePreAllocated
<1> QED BY <1>3, ExistsKept, IssueMaps

(* PreAllocateEntities shows no handle to anybody.                         *)
LEMMA PreAllocateMaps ==
  ASSUME IInv, IInv', NEW w \in Workers, PreAllocateEntities(w)
  PROVE  UNCHANGED [e \in Entity |-> StatusOf(e)]
<1>1. /\ outstanding' = outstanding
      /\ issued' = issued
  BY DEF PreAllocateEntities
<1>2. PICK r \in Nat, o \in Nat : PreAllocation(w, r, o)
  BY PreAllocateFacts
<1>3. \A d \in Entity : Exists(entities, d)' <=> Exists(entities, d)
  BY <1>2, ExistsKept DEF PreAllocation, NewEmptySlot
<1> QED BY <1>1, <1>3 DEF StatusOf

(* UpdateEntitySpec brings the handle to life.                             *)
LEMMA UpdateMaps ==
  ASSUME IInv, IInv', NEW e \in Entity, UpdateEntitySpec(e)
  PROVE  Lifecycle!Write(e)
<1>1. /\ e \in outstanding
      /\ outstanding' = outstanding \ {e}
      /\ issued' = issued
      /\ entities' = [entities EXCEPT ![e.idx] = [version |-> e.version, has_value |-> TRUE]]
  BY DEF UpdateEntitySpec
<1>2. /\ e.idx \in DOMAIN entities
      /\ ~ entities[e.idx].has_value
      /\ issued[e] # 0
  BY <1>1 DEF IInv, SlotsKnown, HeldOnce, VersionsAdvance
<1>3. /\ DOMAIN entities = 1..Len(entities)
      /\ DOMAIN entities' = 1..Len(entities')
      /\ DOMAIN entities' = DOMAIN entities
      /\ entities'[e.idx] = [version |-> e.version, has_value |-> TRUE]
      /\ \A i \in DOMAIN entities : i # e.idx => entities'[i] = entities[i]
  BY <1>1, <1>2, SeqFacts DEF IInv, TypeOK
<1>4. Exists(entities, e)'
  BY <1>2, <1>3 DEF Exists
<1>5. StatusOf(e) = "pending" /\ StatusOf(e)' = "live"
  BY <1>1, <1>2, <1>4 DEF StatusOf
<1>6. ASSUME NEW d \in Entity, d # e
      PROVE  StatusOf(d)' = StatusOf(d)
  <2>1. Exists(entities, d)' <=> Exists(entities, d)
    <3>1. CASE d.idx # e.idx
      BY <1>3, <3>1 DEF Exists
    <3>2. CASE d.idx = e.idx
      <4>1. d.version # e.version
        BY <1>6, <3>2 DEF Entity
      <4> QED BY <1>2, <1>3, <3>2, <4>1 DEF Exists
    <3> QED BY <3>1, <3>2
  <2> QED BY <1>1, <1>6, <2>1 DEF StatusOf
<1> QED BY <1>5, <1>6, ChangeFacts DEF Lifecycle!Write, Lifecycle!Pending, Lifecycle!Live

(* EraseEntity ends the handle's life.                                     *)
LEMMA EraseMaps ==
  ASSUME IInv, IInv', NEW e \in Entity, EraseEntity(e)
  PROVE  Lifecycle!Destroy(e)
<1>1. /\ Exists(entities, e)
      /\ outstanding' = outstanding
      /\ issued' = issued
      /\ entities' = [entities EXCEPT ![e.idx].has_value = FALSE]
  BY DEF EraseEntity, EntitiesAfterErase
<1>2. /\ e.idx \in DOMAIN entities
      /\ issued[e] # 0
      /\ e \notin outstanding
  BY <1>1 DEF IInv, Exists, HeldOnce, VersionsAdvance
<1>3. /\ DOMAIN entities = 1..Len(entities)
      /\ DOMAIN entities' = 1..Len(entities')
      /\ DOMAIN entities' = DOMAIN entities
      /\ entities[e.idx] \in Slot
  BY <1>1, <1>2, SeqFacts DEF IInv, TypeOK
<1>4. /\ ~ entities'[e.idx].has_value
      /\ \A i \in DOMAIN entities : i # e.idx => entities'[i] = entities[i]
  BY <1>1, <1>2, <1>3 DEF Slot
<1>5. StatusOf(e) = "live" /\ StatusOf(e)' = "dead"
  BY <1>1, <1>2, <1>4 DEF StatusOf, Exists
<1>6. ASSUME NEW d \in Entity, d # e
      PROVE  StatusOf(d)' = StatusOf(d)
  <2>1. Exists(entities, d)' <=> Exists(entities, d)
    <3>1. CASE d.idx # e.idx
      BY <1>3, <1>4, <3>1 DEF Exists
    <3>2. CASE d.idx = e.idx
      <4>1. d.version # e.version
        BY <1>6, <3>2 DEF Entity
      <4> QED BY <1>1, <1>4, <3>2, <4>1 DEF Exists
    <3> QED BY <3>1, <3>2
  <2> QED BY <1>1, <2>1 DEF StatusOf
<1> QED BY <1>5, <1>6, ChangeFacts DEF Lifecycle!Destroy, Lifecycle!Live, Lifecycle!Dead

(* entity.rs: exists() turns true once, when the row of a handle is        *)
(* written, and false for good when the entity is erased, whatever is      *)
(* recycled and pre-allocated in between.                                  *)
THEOREM ImplementsLifecycle == Spec => HandlesLiveOnce
<1>1. Init => Lifecycle!Init
  <2>1. Init => \A e \in Entity : StatusOf(e) = "unissued"
    BY DEF Init, StatusOf
  <2> QED BY <2>1 DEF Lifecycle!Init, Lifecycle!Unissued
<1>2. ASSUME IInv, IInv', [Next]_vars
      PROVE  [Lifecycle!Next]_[e \in Entity |-> StatusOf(e)]
  <2>1. CASE NewEntity
    BY <1>2, <2>1, NewEntityMaps DEF Lifecycle!Next
  <2>2. ASSUME NEW w \in Workers, PreAllocateEntities(w)
        PROVE  UNCHANGED [e \in Entity |-> StatusOf(e)]
    BY <1>2, <2>2, PreAllocateMaps
  <2>3. ASSUME NEW w \in Workers, TakePreAllocated(w)
        PROVE  Lifecycle!Next
    BY <1>2, <2>3, TakeMaps DEF Lifecycle!Next
  <2>4. ASSUME NEW e \in Entity, UpdateEntitySpec(e)
        PROVE  Lifecycle!Next
    BY <1>2, <2>4, UpdateMaps DEF Lifecycle!Next
  <2>5. ASSUME NEW e \in Entity, EraseEntity(e)
        PROVE  Lifecycle!Next
    BY <1>2, <2>5, EraseMaps DEF Lifecycle!Next
  <2>6. CASE UNCHANGED vars
    <3>1. \A d \in Entity : StatusOf(d)' = StatusOf(d)
      BY <2>6 DEF vars, StatusOf, Exists
    <3> QED BY <3>1
  <2> QED BY <1>2, <2>1, <2>2, <2>3, <2>4, <2>5, <2>6 DEF Next
<1> QED BY <1>1, <1>2, Invariant, PTL DEF Spec, HandlesLiveOnce, Lifecycle!Spec
=============================================================================
