------------------------- MODULE MCEntityAllocator -------------------------
(***************************************************************************)
(* EntityAllocator on a few slots and versions. Both run out, so nothing   *)
(* else needs a bound.                                                     *)
(***************************************************************************)
EXTENDS EntityAllocator

(* What pre_allocate_entities does, one new_entity_unlocked at a time.     *)
AllocateLoop[n \in 0..PreAllocatedAmount] ==
  IF n = 0
  THEN [entities |-> entities, free |-> free_entities, dst |-> << >>]
  ELSE LET s == AllocateLoop[n - 1] IN
       IF CanAllocate(s.entities, s.free)
       THEN [entities |-> EntitiesAfterNew(s.entities, s.free),
             free     |-> FreeAfterNew(s.free),
             dst      |-> Append(s.dst, NextEntity(s.entities, s.free))]
       ELSE s

(* The closed form of PreAllocateEntities is the loop of                   *)
(* entity_allocator.rs in every reachable state, the states where the free *)
(* list or the index space gives out halfway included.                     *)
PreAllocateIsTheLoop ==
  [][\A w \in Workers : PreAllocateEntities(w) =>
       LET s == AllocateLoop[PreAllocatedAmount] IN
       /\ entities' = s.entities
       /\ free_entities' = s.free
       /\ pre_allocated'[w] = s.dst]_vars
=============================================================================
