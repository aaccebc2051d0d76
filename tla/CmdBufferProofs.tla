-------------------------- MODULE CmdBufferProofs --------------------------
(***************************************************************************)
(* For any number of threads, slots, versions and handles pre-allocated at *)
(* a time, for callers that keep to CarefulDestroy and without singletons: *)
(* no slot has two holders across threads, parallel computations and sync  *)
(* points, a handle lives once, no create or destroy fails at a sync point *)
(* and none destroys another entity than it names.                         *)
(*                                                                         *)
(* Rows and archetypes are WorldStorageProofs' business: IInv is kept by   *)
(* every step. What is left of the world is what its slots hold: a step    *)
(* leaves it alone (SlotsStay), fills one (SlotFilled) or erases one       *)
(* (SlotErased).                                                           *)
(***************************************************************************)
EXTENDS CmdBuffer, WorldStorageProofs, SequenceTheorems

Careful == CarefulDestroys /\ WithoutSingletons

Commands ==
  [op : {"create", "destroy"} \cup Ops, e : Entity, values : Bundles \cup {NoValues}]

InBuffer(b, k, op, e) ==
  /\ k \in DOMAIN b
  /\ b[k].op = op
  /\ b[k].e = e

CmdAt(t, k, op, e) == InBuffer(cmd_buffer[t], k, op, e)

(* A slot that nothing holds: it exists, is empty and not queued.          *)
Spare(i) ==
  /\ i \in DOMAIN entities
  /\ ~ entities[i].has_value
  /\ ~ IsFree(i)

BuffersOK ==
  /\ phase \in {"main", "parallel", "flush"}
  /\ workers \in Seq(Threads)
  /\ pre_allocated \in [Threads -> Seq(Entity)]
  /\ cmd_buffer \in [Threads -> Seq(Commands)]
  /\ issued \subseteq Entity
  /\ \A t \in Threads : \A k \in DOMAIN cmd_buffer[t] :
       /\ cmd_buffer[t][k].e \in issued
       /\ cmd_buffer[t][k].op # "destroy" => cmd_buffer[t][k].values \in Bundles
  /\ \A t \in Threads : cmd_buffer[t] # << >> => \E k \in DOMAIN workers : workers[k] = t

(* A slot is promised once, to a handle of a worker's queue or to a        *)
(* recorded create, and is kept spare for it.                              *)
PromisedOnce ==
  /\ \A s, t \in Threads : \A j \in DOMAIN pre_allocated[s], k \in DOMAIN pre_allocated[t] :
       pre_allocated[s][j].idx = pre_allocated[t][k].idx => s = t /\ j = k
  /\ \A s, t \in Threads : \A j, k : \A d, e \in Entity :
       CmdAt(s, j, "create", d) /\ CmdAt(t, k, "create", e) /\ d.idx = e.idx => s = t /\ j = k
  /\ \A s, t \in Threads : \A j \in DOMAIN pre_allocated[s] : \A k : \A e \in Entity :
       CmdAt(t, k, "create", e) => pre_allocated[s][j].idx # e.idx

PromisedSpare ==
  /\ \A t \in Threads : \A k \in DOMAIN pre_allocated[t] : Spare(pre_allocated[t][k].idx)
  /\ \A t \in Threads : \A k : \A e \in Entity : CmdAt(t, k, "create", e) => Spare(e.idx)

(* A recorded destroy finds its entity: it is alive, or created by a       *)
(* command before it in the same buffer; and no other one destroys it.     *)
DestroysFind ==
  \A t \in Threads : \A k : \A e \in Entity : CmdAt(t, k, "destroy", e) =>
    /\ Exists(entities, e) \/ \E j \in 1..(k - 1) : CmdAt(t, j, "create", e)
    /\ \A s \in Threads : \A j : CmdAt(s, j, "destroy", e) => s = t /\ j = k

(* What was issued on a slot is not above the version the slot has while   *)
(* it is live or queued, and below what the slot is promised to.           *)
VersionsRise ==
  /\ \A g \in issued :
       /\ g.idx \in DOMAIN entities
       /\ entities[g.idx].has_value \/ IsFree(g.idx) => g.version <= entities[g.idx].version
       /\ \A t \in Threads : \A k \in DOMAIN pre_allocated[t] :
            pre_allocated[t][k].idx = g.idx => g.version < pre_allocated[t][k].version
       /\ \A t \in Threads : \A k : \A e \in Entity :
            CmdAt(t, k, "create", e) /\ e.idx = g.idx /\ e # g => g.version < e.version
  /\ \A e \in Entity : Exists(entities, e) => e \in issued

NoSingletons(archs) == \A cs \in DOMAIN archs : ~ archs[cs].is_singleton

CInv ==
  /\ IInv
  /\ NoSingletons(archetypes)
  /\ BuffersOK
  /\ PromisedOnce
  /\ PromisedSpare
  /\ DestroysFind
  /\ VersionsRise
----------------------------------------------------------------------------
(* Kinds of archetypes.                                                    *)

(* NoSingletons, with what an update of an archetype needs to know of it.  *)
Chunky(archs) ==
  \A cs \in DOMAIN archs : "is_singleton" \in DOMAIN archs[cs] /\ ~ archs[cs].is_singleton

(* An update of another field.                                             *)
LEMMA OtherField ==
  ASSUME NEW a, "is_singleton" \in DOMAIN a, NEW f \in {"chunks", "free_chunks", "free_chunks_stored"},
         NEW v
  PROVE  /\ "is_singleton" \in DOMAIN [a EXCEPT ![f] = v]
         /\ [a EXCEPT ![f] = v].is_singleton = a.is_singleton
OBVIOUS

(* push and swap_remove_at leave the kind of the archetype alone.          *)
LEMMA KindStays ==
  ASSUME NEW a, "is_singleton" \in DOMAIN a, NEW row, NEW c, NEW r, NEW rows
  PROVE  /\ "is_singleton" \in DOMAIN CacheFreeChunk(a, c)
         /\ CacheFreeChunk(a, c).is_singleton = a.is_singleton
         /\ "is_singleton" \in DOMAIN Push(a, row)
         /\ Push(a, row).is_singleton = a.is_singleton
         /\ "is_singleton" \in DOMAIN RemoveAt(a, c, r)
         /\ RemoveAt(a, c, r).is_singleton = a.is_singleton
<1>1. ASSUME NEW b, "is_singleton" \in DOMAIN b, NEW d
      PROVE  /\ "is_singleton" \in DOMAIN CacheFreeChunk(b, d)
             /\ CacheFreeChunk(b, d).is_singleton = b.is_singleton
  BY <1>1 DEF CacheFreeChunk
<1>2. /\ "is_singleton" \in DOMAIN Push(a, row)
      /\ Push(a, row).is_singleton = a.is_singleton
  <2>1. PICK taken : taken = TakeAFreeChunkIdx(a)
    OBVIOUS
  <2>2. "is_singleton" \in DOMAIN taken /\ taken.is_singleton = a.is_singleton
    BY <2>1 DEF TakeAFreeChunkIdx
  <2>3. PICK d, more : d = FreeChunkIdx(a) /\ more = [taken EXCEPT !.chunks[d] = Append(@, row)]
    OBVIOUS
  <2>4. "is_singleton" \in DOMAIN more /\ more.is_singleton = taken.is_singleton
    BY <2>2, <2>3
  <2>5. Push(a, row) = CacheUnlessFull(more, d)
    BY <2>1, <2>3 DEF Push
  <2> QED BY <1>1, <2>2, <2>4, <2>5 DEF CacheUnlessFull
<1>3. /\ "is_singleton" \in DOMAIN RemoveAt(a, c, r)
      /\ RemoveAt(a, c, r).is_singleton = a.is_singleton
  <2>1. PICK less : less = [a EXCEPT !.chunks[c] = SwapRemoveAt(@, r)]
    OBVIOUS
  <2>2. "is_singleton" \in DOMAIN less /\ less.is_singleton = a.is_singleton
    BY <2>1
  <2>3. RemoveAt(a, c, r) = CacheFreeChunk(less, c)
    BY <2>1 DEF RemoveAt
  <2> QED BY <1>1, <2>2, <2>3
<1> QED BY <1>1, <1>2, <1>3

(* What commands do to the archetypes.                                     *)
LEMMA ChunkyFacts ==
  ASSUME NEW archs, Chunky(archs)
  PROVE  /\ \A cs : Chunky(GetOrCreate(archs, cs))
         /\ \A cs, row : Chunky([archs EXCEPT ![cs] = Push(@, row)])
         /\ \A cs, c, r : Chunky([archs EXCEPT ![cs] = RemoveAt(@, c, r)])
         /\ \A cs, c, r, cells : Chunky([archs EXCEPT ![cs].chunks[c][r].cells = cells])
<1>1. ASSUME NEW cs PROVE Chunky(GetOrCreate(archs, cs))
  BY DEF Chunky, GetOrCreate, WithArchetype, Chunked, NewArchetype
<1>2. ASSUME NEW cs, NEW row PROVE Chunky([archs EXCEPT ![cs] = Push(@, row)])
  BY KindStays DEF Chunky
<1>3. ASSUME NEW cs, NEW c, NEW r PROVE Chunky([archs EXCEPT ![cs] = RemoveAt(@, c, r)])
  BY KindStays DEF Chunky
<1>4. ASSUME NEW cs, NEW c, NEW r, NEW cells
      PROVE  Chunky([archs EXCEPT ![cs].chunks[c][r].cells = cells])
  BY DEF Chunky
<1> QED BY <1>1, <1>2, <1>3, <1>4

(* The types of archetypes are part of the invariant.                      *)
LEMMA ChunkyIsTyped ==
  ASSUME IInv
  PROVE  NoSingletons(archetypes) <=> Chunky(archetypes)
<1>1. \A cs \in DOMAIN archetypes : archetypes[cs] \in ArchetypesOf(Rows(cs))
  BY DEF IInv, WorldOK, ArchetypesOK
<1> QED BY <1>1 DEF NoSingletons, Chunky, ArchetypesOf
----------------------------------------------------------------------------
(* What a step of the world does to its slots.                             *)

SlotsStay ==
  /\ DOMAIN entities' = DOMAIN entities
  /\ \A i \in DOMAIN entities : /\ entities'[i].has_value <=> entities[i].has_value
                                /\ entities'[i].version = entities[i].version
  /\ free_entities' = free_entities

SlotFilled(e) ==
  /\ e.idx \in DOMAIN entities => ~ entities[e.idx].has_value
  /\ DOMAIN entities' = DOMAIN entities \cup {e.idx}
  /\ entities'[e.idx].has_value
  /\ entities'[e.idx].version = e.version
  /\ \A i \in DOMAIN entities : i # e.idx =>
       /\ entities'[i].has_value <=> entities[i].has_value
       /\ entities'[i].version = entities[i].version
  /\ \A i : IsFree(i)' <=> IsFree(i) /\ i # e.idx

SlotErased(e) ==
  /\ Exists(entities, e)
  /\ DOMAIN entities' = DOMAIN entities
  /\ ~ entities'[e.idx].has_value
  /\ entities'[e.idx].version = e.version
  /\ \A i \in DOMAIN entities : i # e.idx =>
       /\ entities'[i].has_value <=> entities[i].has_value
       /\ entities'[i].version = entities[i].version
  /\ \A i : i # e.idx => (IsFree(i)' <=> IsFree(i))

(* Chunky archetypes are never asked for more room than they have.         *)
LEMMA ChunkyTakesRows ==
  ASSUME NEW archs, Chunky(archs), NEW cs
  PROVE  /\ cs \in DOMAIN GetOrCreate(archs, cs)
         /\ CanTakeARow(GetOrCreate(archs, cs)[cs])
<1>1. Chunky(GetOrCreate(archs, cs))
  BY ChunkyFacts
<1>2. cs \in DOMAIN GetOrCreate(archs, cs)
  BY DEF GetOrCreate, WithArchetype
<1> QED BY <1>1, <1>2 DEF Chunky, CanTakeARow

(* The row of an entity moves, and so do two archetypes.                   *)
LEMMA MoveRowChunky ==
  ASSUME NEW known, Chunky(known), NEW e, NEW dst, NEW cells, MoveRow(known, e, dst, cells)
  PROVE  Chunky(archetypes')
<1>1. ASSUME NEW cs \in DOMAIN known
      PROVE  \/ archetypes'[cs] = known[cs]
             \/ archetypes'[cs] = Push(known[cs], [e |-> e, cells |-> cells])
             \/ archetypes'[cs] = RemoveAt(known[cs], SpecOf(e).chunk, SpecOf(e).row)
  BY DEF MoveRow
<1>2. DOMAIN archetypes' = DOMAIN known
  BY DEF MoveRow
<1> QED BY <1>1, <1>2, KindStays DEF Chunky

(* A live entity whose cells changed stays in its slot.                    *)
LEMMA ChangedStays ==
  ASSUME IInv, IInv', NEW e \in Entity, NEW cells, Refused \/ Changed(e, cells),
         free_entities' = free_entities
  PROVE  SlotsStay
<1>1. /\ DOMAIN entities = 1..Len(entities)
      /\ DOMAIN entities' = 1..Len(entities')
  BY SpecFacts DEF IInv, WorldOK
<1>2. CASE Refused
  BY <1>2 DEF Refused, SlotsStay
<1>3. CASE Changed(e, cells)
  <2>1. /\ Len(entities') = Len(entities)
        /\ OthersKept(entities, archetypes, entities', archetypes', e.idx)
        /\ entities'[e.idx].has_value /\ entities'[e.idx].version = e.version
        /\ entities[e.idx].has_value /\ entities[e.idx].version = e.version
    BY <1>3 DEF Changed, Unseen, Holds, Exists
  <2> QED BY <1>1, <2>1 DEF SlotsStay, OthersKept
<1> QED BY <1>2, <1>3

(* try_add_component, try_merge_component and try_remove_component.        *)
LEMMA CallStep ==
  ASSUME IInv, NoSingletons(archetypes), NEW op, NEW e \in Entity, NEW values \in Bundles,
         Call(op, e, values)
  PROVE  /\ IInv'
         /\ NoSingletons(archetypes)'
         /\ SlotsStay
         /\ Exists(entities, e)
<1>a. Chunky(archetypes)
  BY ChunkyIsTyped
<1>1. PICK cs : cs = DOMAIN values /\ cs \in ComponentSets
  BY BundleFacts
<1>2. CASE TryAddComponent(e, values)
  <2>1. IInv' /\ (Refused \/ Changed(e, MergedCells(CellsOf(e), values, tick)))
    BY <1>2, TryAddComponentStep
  <2>2. free_entities' = free_entities /\ Exists(entities, e)
    BY <1>2 DEF TryAddComponent
  <2>3. SlotsStay
    BY <2>1, <2>2, ChangedStays
  <2>4. PICK with1, with2, dst, cells :
          /\ with1 = GetOrCreate(archetypes, cs) /\ dst = SpecOf(e).arch \cup cs
          /\ with2 = GetOrCreate(with1, dst) /\ cells = MergedCells(CellsOf(e), values, tick)
    OBVIOUS
  <2>5. Chunky(with1)
    BY <1>a, <2>4, ChunkyFacts
  <2>6. Chunky(with2)
    BY <2>4, <2>5, ChunkyFacts
  <2>7. archetypes' = with1 \/ archetypes' = with2 \/ MoveRow(with2, e, dst, cells)
    BY <1>1, <1>2, <2>4 DEF TryAddComponent, SetOfPair
  <2>8. Chunky(archetypes')
    BY <2>5, <2>6, <2>7, MoveRowChunky
  <2> QED BY <2>1, <2>2, <2>3, <2>8 DEF NoSingletons, Chunky
<1>3. CASE TryMergeComponent(e, values)
  <2>1. IInv' /\ (Refused \/ Changed(e, MergedCells(CellsOf(e), values, tick)))
    BY <1>3, TryMergeComponentStep
  <2>2. free_entities' = free_entities /\ Exists(entities, e)
    BY <1>3 DEF TryMergeComponent
  <2>3. SlotsStay
    BY <2>1, <2>2, ChangedStays
  <2>4. PICK with1, with2, dst, cells, src, c, r :
          /\ with1 = GetOrCreate(archetypes, cs) /\ dst = SpecOf(e).arch \cup cs
          /\ with2 = GetOrCreate(with1, dst) /\ cells = MergedCells(CellsOf(e), values, tick)
          /\ src = SpecOf(e).arch /\ c = SpecOf(e).chunk /\ r = SpecOf(e).row
    OBVIOUS
  <2>5. Chunky(with1)
    BY <1>a, <2>4, ChunkyFacts
  <2>6. Chunky(with2)
    BY <2>4, <2>5, ChunkyFacts
  <2>7. \/ archetypes' = with2
        \/ MoveRow(with2, e, dst, cells)
        \/ archetypes' = [with2 EXCEPT ![src].chunks[c][r].cells = cells]
    BY <1>1, <1>3, <2>4 DEF TryMergeComponent, SetOfPair
  <2>9. Chunky([with2 EXCEPT ![src].chunks[c][r].cells = cells])
    BY <2>6, ChunkyFacts
  <2>8. Chunky(archetypes')
    BY <2>6, <2>7, <2>9, MoveRowChunky, Zenon
  <2> QED BY <2>1, <2>2, <2>3, <2>8 DEF NoSingletons, Chunky
<1>4. CASE TryRemoveComponent(e, cs)
  <2>1. IInv' /\ (Refused \/ Changed(e, RemainingCells(CellsOf(e), cs)))
    BY <1>1, <1>4, TryRemoveComponentStep
  <2>2. free_entities' = free_entities /\ Exists(entities, e)
    BY <1>4 DEF TryRemoveComponent
  <2>3. SlotsStay
    BY <2>1, <2>2, ChangedStays
  <2>4. PICK with1, with2, dst, cells :
          /\ with1 = GetOrCreate(archetypes, cs) /\ dst = SpecOf(e).arch \ cs
          /\ with2 = GetOrCreate(with1, dst) /\ cells = RemainingCells(CellsOf(e), cs)
    OBVIOUS
  <2>5. Chunky(with1)
    BY <1>a, <2>4, ChunkyFacts
  <2>6. Chunky(with2)
    BY <2>4, <2>5, ChunkyFacts
  <2>7. archetypes' = with1 \/ archetypes' = with2 \/ MoveRow(with2, e, dst, cells)
    BY <1>4, <2>4 DEF TryRemoveComponent, SetOfAExcludeB
  <2>8. Chunky(archetypes')
    BY <2>5, <2>6, <2>7, MoveRowChunky
  <2> QED BY <2>1, <2>2, <2>3, <2>8 DEF NoSingletons, Chunky
<1> QED BY <1>1, <1>2, <1>3, <1>4 DEF Call
(* What others see of a filled slot.                                       *)
LEMMA FilledFacts ==
  ASSUME IInv, IInv', NEW e \in Entity, NEW cells, Unseen(e.idx), Absent(entities, e),
         Holds(entities', archetypes', e, cells),
         DOMAIN entities' = DOMAIN entities \cup {e.idx},
         \A i : IsFree(i)' <=> IsFree(i) /\ i # e.idx
  PROVE  SlotFilled(e)
BY DEF SlotFilled, Unseen, OthersKept, Holds, Absent

(* try_create on the main thread: no archetype refuses the row, and the    *)
(* slot taken was queued or is new.                                        *)
LEMMA TryCreateFills ==
  ASSUME IInv, NoSingletons(archetypes), NEW values \in Bundles, TryCreate(values),
         NEW e, e = NextEntity(entities, free_entities)
  PROVE  /\ IInv'
         /\ NoSingletons(archetypes)'
         /\ e \in Entity
         /\ SlotFilled(e)
         /\ Newer(e)
         /\ e.idx \in DOMAIN entities => IsFree(e.idx)
<1>1. PICK known, slots, free, cs :
        /\ cs = DOMAIN values
        /\ known = GetOrCreate(archetypes, cs)
        /\ slots = SlotsAfterNew /\ free = FreeAfterNew(free_entities)
  OBVIOUS
<1>2. Grown(known) /\ cs \in DOMAIN known
  BY <1>1, GrownNone, GetOrCreateFacts, BundleFacts
<1>3. Chunky(archetypes) /\ Chunky(known) /\ CanTakeARow(known[cs])
  <2>1. Chunky(archetypes)
    BY ChunkyIsTyped
  <2> QED BY <1>1, <2>1, ChunkyFacts, ChunkyTakesRows
<1>4. /\ CanAllocate(entities, free_entities)
      /\ free_entities' = free
      /\ tick' = tick
      /\ PushNew(known, SlotsAfterNew, e, values)
  BY <1>1, <1>3 DEF TryCreate
<1>5. /\ IInv' /\ e \in Entity /\ Unseen(e.idx) /\ Absent(entities, e) /\ Newer(e)
      /\ Holds(entities', archetypes', e, NewCells(values, tick))
  BY <1>1, <1>2, <1>3, <1>4, PushNewFacts
<1>6. /\ e.idx \in DOMAIN slots
      /\ \A j \in DOMAIN entities : j \in DOMAIN slots
      /\ \A j \in DOMAIN slots : j \notin DOMAIN entities => j = e.idx
      /\ \A k \in DOMAIN free : free[k] # e.idx
  BY <1>1, <1>4, SlotTaken
<1>7. DOMAIN entities' = DOMAIN entities \cup {e.idx}
  <2>1. DOMAIN entities' = DOMAIN slots
    BY <1>1, <1>4 DEF PushNew
  <2> QED BY <1>6, <2>1
<1>8. /\ \A i : IsFree(i)' <=> IsFree(i) /\ i # e.idx
      /\ e.idx \in DOMAIN entities => IsFree(e.idx)
  <2>1. CASE free_entities = << >>
    <3>1. free = << >> /\ e = FreshEntity(Len(entities) + 1)
      BY <1>1, <2>1 DEF FreeAfterNew, NextEntity
    <3>2. e.idx \notin DOMAIN entities
      BY <3>1, EntitiesFacts DEF FreshEntity
    <3> QED BY <1>4, <2>1, <3>1, <3>2 DEF IsFree
  <2>2. CASE free_entities # << >>
    <3>1. free = Tail(free_entities) /\ e = RecycledEntity(entities, Head(free_entities))
      BY <1>1, <2>2 DEF FreeAfterNew, NextEntity
    <3>2. free_entities \in Seq(Nat)
      BY DEF IInv, FreeSlots
    <3>3. /\ Len(free_entities) \in Nat /\ Len(free_entities) > 0
          /\ DOMAIN free_entities = 1..Len(free_entities)
          /\ Head(free_entities) = free_entities[1]
          /\ DOMAIN free = 1..(Len(free_entities) - 1)
          /\ \A k \in DOMAIN free : free[k] = free_entities[k + 1]
      BY <2>2, <3>1, <3>2, SeqFacts
    <3>4. e.idx = free_entities[1] /\ 1 \in DOMAIN free_entities
      BY <3>1, <3>3 DEF RecycledEntity
    <3>5. ASSUME NEW i, IsFree(i), i # e.idx PROVE IsFree(i)'
      <4>1. PICK k \in DOMAIN free_entities : free_entities[k] = i
        BY <3>5 DEF IsFree
      <4>2. k # 1
        BY <3>4, <3>5, <4>1
      <4>3. k - 1 \in DOMAIN free /\ free[k - 1] = free_entities[(k - 1) + 1]
        BY <3>3, <4>2
      <4>4. (k - 1) + 1 = k
        BY <3>3
      <4> QED BY <1>4, <4>1, <4>3, <4>4 DEF IsFree
    <3>6. ASSUME NEW i, IsFree(i)' PROVE IsFree(i) /\ i # e.idx
      <4>1. PICK k \in DOMAIN free : free[k] = i
        BY <1>4, <3>6 DEF IsFree
      <4>2. k + 1 \in DOMAIN free_entities /\ free_entities[k + 1] = i
        BY <3>3, <4>1
      <4> QED BY <1>6, <4>1, <4>2 DEF IsFree
    <3>7. IsFree(e.idx)
      BY <3>4 DEF IsFree
    <3> QED BY <3>5, <3>6, <3>7
  <2> QED BY <2>1, <2>2
<1>9. SlotFilled(e)
  BY <1>5, <1>7, <1>8, FilledFacts
<1>10. Chunky(archetypes')
  <2>1. PICK row : row = [e |-> e, cells |-> NewCells(values, tick)]
    OBVIOUS
  <2>2. archetypes' = [known EXCEPT ![cs] = Push(@, row)]
    BY <1>1, <1>4, <2>1 DEF PushNew
  <2> QED BY <1>3, <2>2, ChunkyFacts
<1> QED BY <1>5, <1>8, <1>9, <1>10 DEF NoSingletons, Chunky

(* try_destroy.                                                            *)
LEMMA TryDestroyErases ==
  ASSUME IInv, NoSingletons(archetypes), NEW e \in Entity, TryDestroy(e)
  PROVE  /\ IInv'
         /\ NoSingletons(archetypes)'
         /\ SlotErased(e)
<1>1. IInv' /\ Destroyed(e)
  BY TryDestroyStep
<1>2. /\ DOMAIN entities = 1..Len(entities)
      /\ DOMAIN entities' = 1..Len(entities')
  BY <1>1, SpecFacts DEF IInv, WorldOK
<1>3. ASSUME NEW i, i # e.idx PROVE IsFree(i)' <=> IsFree(i)
  <2>1. free_entities' = free_entities \/ free_entities' = Append(free_entities, e.idx)
    BY DEF TryDestroy, FreeAfterErase
  <2>2. CASE free_entities' = free_entities
    BY <2>2 DEF IsFree
  <2>3. CASE free_entities' = Append(free_entities, e.idx)
    <3>1. free_entities \in Seq(Nat) /\ e.idx \in Nat
      BY SlotsAssumption DEF IInv, FreeSlots, Entity
    <3>2. /\ Len(free_entities) \in Nat
          /\ DOMAIN free_entities = 1..Len(free_entities)
          /\ DOMAIN free_entities' = 1..(Len(free_entities) + 1)
          /\ \A k \in DOMAIN free_entities : free_entities'[k] = free_entities[k]
          /\ free_entities'[Len(free_entities) + 1] = e.idx
      BY <2>3, <3>1, SeqFacts, AppendFacts
    <3>3. \A k \in DOMAIN free_entities' : k \in DOMAIN free_entities \/ k = Len(free_entities) + 1
      BY <3>2
    <3>4. \A k \in DOMAIN free_entities : k \in DOMAIN free_entities'
      BY <3>2
    <3> QED BY <1>3, <3>2, <3>3, <3>4 DEF IsFree
  <2> QED BY <2>1, <2>2, <2>3
<1>4. SlotErased(e)
  <2>1. /\ Exists(entities, e)
        /\ OthersKept(entities, archetypes, entities', archetypes', e.idx)
        /\ Len(entities') = Len(entities)
        /\ e.idx \in DOMAIN entities'
        /\ ~ entities'[e.idx].has_value
        /\ entities'[e.idx].version = e.version
    BY <1>1 DEF Destroyed, Unseen, Absent
  <2> QED BY <1>2, <1>3, <2>1 DEF SlotErased, OthersKept
<1>5. Chunky(archetypes')
  <2>1. PICK cs, c, r : cs = SpecOf(e).arch /\ c = SpecOf(e).chunk /\ r = SpecOf(e).row
    OBVIOUS
  <2>2. archetypes' = [archetypes EXCEPT ![cs] = RemoveAt(@, c, r)]
    BY <2>1 DEF TryDestroy
  <2>3. Chunky(archetypes)
    BY ChunkyIsTyped
  <2> QED BY <2>2, <2>3, ChunkyFacts
<1> QED BY <1>1, <1>4, <1>5 DEF NoSingletons, Chunky

(* The create command writes the row of a handle given out before.         *)
LEMMA RunCreateFills ==
  ASSUME IInv, NoSingletons(archetypes), NEW e \in Entity, Spare(e.idx),
         NEW values \in Bundles, RunCreate(e, values)
  PROVE  /\ IInv'
         /\ NoSingletons(archetypes)'
         /\ SlotFilled(e)
         /\ Goes
<1>1. PICK known, cs, cells :
        /\ cs = DOMAIN values
        /\ known = GetOrCreate(archetypes, cs)
        /\ cells = NewCells(values, tick)
  OBVIOUS
<1>2. Grown(known) /\ cs \in DOMAIN known
  BY <1>1, GrownNone, GetOrCreateFacts, BundleFacts
<1>3. Chunky(archetypes) /\ Chunky(known) /\ CanTakeARow(known[cs])
  <2>1. Chunky(archetypes)
    BY ChunkyIsTyped
  <2> QED BY <1>1, <2>1, ChunkyFacts, ChunkyTakesRows
<1>4. /\ free_entities' = free_entities /\ tick' = tick
      /\ archetypes' = [known EXCEPT ![cs] = Push(@, [e |-> e, cells |-> cells])]
      /\ entities' = [entities EXCEPT ![e.idx] = EntitySpec(e.version, cs, NextRow(known[cs]))]
      /\ Goes
  BY <1>1, <1>3 DEF RunCreate, PushNew
<1>5. /\ e.idx \in DOMAIN entities
      /\ ~ entities[e.idx].has_value
      /\ \A k \in DOMAIN free_entities : free_entities[k] # e.idx
  BY DEF Spare, IsFree
<1>6. cells \in CellsFor(cs) /\ cs \in SUBSET Components
  BY <1>1, NewCellsType, BundleFacts DEF IInv
<1>7. WorldOK(entities, known)
  BY <1>2 DEF Grown
<1>8. EntitySpec(e.version, cs, NextRow(known[cs])) \in EntitySpecs
  <2>1. known[cs] \in ArchetypesOf(Rows(cs)) /\ Sound(known[cs])
    BY <1>2, <1>7 DEF WorldOK, ArchetypesOK
  <2>2. [e |-> e, cells |-> cells] \in Rows(cs)
    BY <1>6 DEF Rows
  <2>3. NextRow(known[cs]).chunk \in Nat /\ NextRow(known[cs]).row \in Nat
    BY <1>3, <2>1, <2>2, PushFacts
  <2>4. e.version \in 1..MaxVersion
    BY DEF Entity
  <2> QED BY <1>6, <2>3, <2>4 DEF EntitySpec, EntitySpecs
<1>9. entities \in Seq(EntitySpecs)
  BY DEF IInv, WorldOK
<1>10. /\ entities' \in Seq(EntitySpecs)
       /\ DOMAIN entities' = DOMAIN entities
       /\ Len(entities') = Len(entities)
       /\ entities'[e.idx] = EntitySpec(e.version, cs, NextRow(known[cs]))
       /\ \A j \in DOMAIN entities : j # e.idx => entities'[j] = entities[j]
  BY <1>4, <1>5, <1>8, <1>9, ReplaceFacts
<1>11. RowAdded(entities, known, e, cs, cells, entities', archetypes')
  BY <1>2, <1>3, <1>4, <1>5, <1>6, <1>10 DEF RowAdded
<1>12. /\ WorldOK(entities', archetypes')
       /\ OthersKept(entities, known, entities', archetypes', e.idx)
  BY <1>7, <1>11, AddRowFacts
<1>13. FreeSlots(entities', free_entities)
  BY <1>5, <1>12, FreeSlotsKept DEF IInv
<1>14. IInv'
  BY <1>4, <1>10, <1>12, <1>13 DEF IInv
<1>15. SlotFilled(e)
  BY <1>4, <1>5, <1>10 DEF SlotFilled, EntitySpec, IsFree
<1>16. Chunky(archetypes')
  <2>1. PICK row : row = [e |-> e, cells |-> cells]
    OBVIOUS
  <2>2. archetypes' = [known EXCEPT ![cs] = Push(@, row)]
    BY <1>4, <2>1
  <2> QED BY <1>3, <2>2, ChunkyFacts
<1> QED BY <1>4, <1>14, <1>15, <1>16 DEF NoSingletons, Chunky
----------------------------------------------------------------------------
(* pre_allocate_entities, as the world sees it.                            *)

(* The handles a worker out of handles gets, and the slots it leaves: the  *)
(* first r queued ones are taken, then o new ones opened.                  *)
Taken(hs, r, o) ==
  /\ r \in 0..Len(free_entities)
  /\ o \in 0..(MaxSlots - Len(entities))
  /\ o > 0 => r = Len(free_entities)
  /\ hs = [k \in 1..(r + o) |->
              IF k <= r THEN RecycledEntity(entities, free_entities[k])
                        ELSE FreshEntity(Len(entities) + k - r)]
  /\ entities' = [i \in 1..(Len(entities) + o) |->
                    IF i <= Len(entities) THEN entities[i] ELSE NewEmptySpec]
  /\ free_entities' = SubSeq(free_entities, r + 1, Len(free_entities))

(* The part that is EntityAllocator's definition.                          *)
LEMMA TakenFacts ==
  ASSUME IInv, NEW t \in Threads, pre_allocated[t] = << >>, PreAllocate(t),
         NEW hs, hs = Handles(t)
  PROVE  \E r, o \in Nat : /\ Taken(hs, r, o)
                           /\ r + o <= PreAllocatedAmount
<1>1. /\ Len(entities) \in Nat /\ Len(entities) <= MaxSlots
      /\ Len(free_entities) \in Nat
  BY EntitiesFacts, SeqFacts DEF IInv, FreeSlots
<1>2. PICK r, o : /\ r = Allocator!Recycled(PreAllocatedAmount)
                  /\ o = Allocator!Opened(PreAllocatedAmount)
  OBVIOUS
<1>3. PreAllocatedAmount \in Nat /\ MaxSlots \in Nat
  BY CmdAssumption, SlotsAssumption
<1>4. r = IF PreAllocatedAmount <= Len(free_entities)
          THEN PreAllocatedAmount ELSE Len(free_entities)
  BY <1>2 DEF Allocator!Recycled, Allocator!Least
<1>5. o = IF PreAllocatedAmount - r <= MaxSlots - Len(entities)
          THEN PreAllocatedAmount - r ELSE MaxSlots - Len(entities)
  BY <1>2 DEF Allocator!Opened, Allocator!Least
<1>6. /\ r \in Nat /\ o \in Nat
      /\ r \in 0..Len(free_entities)
      /\ o \in 0..(MaxSlots - Len(entities))
      /\ o > 0 => r = Len(free_entities)
      /\ r + o <= PreAllocatedAmount
  <2>1. PICK n, m, used, queued : /\ n = PreAllocatedAmount /\ m = MaxSlots
                                  /\ used = Len(entities) /\ queued = Len(free_entities)
    OBVIOUS
  <2>2. /\ n \in Nat /\ m \in Nat /\ used \in Nat /\ queued \in Nat /\ used <= m
        /\ r = IF n <= queued THEN n ELSE queued
        /\ o = IF n - r <= m - used THEN n - r ELSE m - used
    BY <1>1, <1>3, <1>4, <1>5, <2>1
  <2>3. /\ r \in Nat /\ r <= queued /\ r <= n /\ (r = n \/ r = queued)
    BY <2>2
  <2>4. o \in Nat /\ o <= m - used /\ o <= n - r
    BY <2>2, <2>3
  <2>5. r \in 0..queued /\ o \in 0..(m - used) /\ (o > 0 => r = queued) /\ r + o <= n
    BY <2>2, <2>3, <2>4
  <2> QED BY <2>1, <2>3, <2>4, <2>5
<1>7. hs = [k \in 1..(r + o) |->
              IF k <= r THEN RecycledEntity(entities, free_entities[k])
                        ELSE FreshEntity(Len(entities) + k - r)]
  BY <1>2 DEF Handles, Allocator!PreAllocatedEntities, Allocator!RecycledEntity, RecycledEntity,
              Allocator!FreshEntity, FreshEntity, Allocator!INITIALIZE_VERSION, INITIALIZE_VERSION
<1>8. /\ entities' = [i \in 1..(Len(entities) + o) |->
                        IF i <= Len(entities) THEN entities[i] ELSE NewEmptySpec]
      /\ free_entities' = SubSeq(free_entities, r + 1, Len(free_entities))
  BY <1>2 DEF PreAllocate
<1>9. Taken(hs, r, o)
  BY <1>6, <1>7, <1>8 DEF Taken
<1> QED BY <1>6, <1>9

(* A queue without its first r members.                                    *)
LEMMA DropFacts ==
  ASSUME NEW S, NEW s \in Seq(S), NEW r \in 0..Len(s)
  PROVE  /\ SubSeq(s, r + 1, Len(s)) \in Seq(S)
         /\ DOMAIN SubSeq(s, r + 1, Len(s)) = 1..(Len(s) - r)
         /\ \A k \in DOMAIN SubSeq(s, r + 1, Len(s)) :
              k + r \in DOMAIN s /\ SubSeq(s, r + 1, Len(s))[k] = s[k + r]
<1>1. Len(s) \in Nat /\ DOMAIN s = 1..Len(s)
  OBVIOUS
<1>2. /\ SubSeq(s, r + 1, Len(s)) \in Seq(S)
      /\ Len(SubSeq(s, r + 1, Len(s))) =
           IF r + 1 <= Len(s) THEN Len(s) - (r + 1) + 1 ELSE 0
      /\ \A i \in 1..(Len(s) - (r + 1) + 1) : SubSeq(s, r + 1, Len(s))[i] = s[r + 1 + i - 1]
  <2>1. r + 1 \in Int /\ Len(s) \in Int
    BY <1>1
  <2>2. \A i \in (r + 1)..Len(s) : s[i] \in S
    BY <1>1
  <2> QED BY <2>1, <2>2, SubSeqProperties
<1>3. Len(SubSeq(s, r + 1, Len(s))) = Len(s) - r
  <2>1. \A n \in Nat : \A q \in 0..n :
          (IF q + 1 <= n THEN n - (q + 1) + 1 ELSE 0) = n - q
    OBVIOUS
  <2> QED BY <1>1, <1>2, <2>1
<1>4. DOMAIN SubSeq(s, r + 1, Len(s)) = 1..(Len(s) - r)
  BY <1>2, <1>3
<1>5. ASSUME NEW k \in 1..(Len(s) - r)
      PROVE  k + r \in DOMAIN s /\ SubSeq(s, r + 1, Len(s))[k] = s[k + r]
  <2>1. k + r \in 1..Len(s) /\ r + 1 + k - 1 = k + r
    BY <1>1
  <2>2. k \in 1..(Len(s) - (r + 1) + 1)
    BY <1>1
  <2>3. SubSeq(s, r + 1, Len(s))[k] = s[r + 1 + k - 1]
    BY <1>2, <2>2
  <2> QED BY <1>1, <2>1, <2>3
<1> QED BY <1>2, <1>4, <1>5

(* The slots that are left.                                                *)
LEMMA TakenSlots ==
  ASSUME IInv, NEW hs, NEW r \in Nat, NEW o \in Nat, Taken(hs, r, o),
         UNCHANGED <<archetypes, tick>>
  PROVE  /\ IInv'
         /\ DOMAIN entities' = 1..(Len(entities) + o)
         /\ \A i \in DOMAIN entities : i \in DOMAIN entities' /\ entities'[i] = entities[i]
         /\ \A i \in DOMAIN entities' : i \notin DOMAIN entities => ~ entities'[i].has_value
         /\ DOMAIN free_entities' = 1..(Len(free_entities) - r)
         /\ \A k \in DOMAIN free_entities' :
              k + r \in DOMAIN free_entities /\ free_entities'[k] = free_entities[k + r]
<1>1. /\ entities \in Seq(EntitySpecs)
      /\ Len(entities) \in Nat /\ Len(entities) <= MaxSlots
      /\ DOMAIN entities = 1..Len(entities)
      /\ \A i \in DOMAIN entities : entities[i] \in EntitySpecs
      /\ MaxSlots \in Nat
  BY EntitiesFacts, SlotsAssumption
<1>2. /\ free_entities \in Seq(Nat)
      /\ Len(free_entities) \in Nat
      /\ DOMAIN free_entities = 1..Len(free_entities)
      /\ \A k \in DOMAIN free_entities : free_entities[k] \in Nat
  BY SeqFacts DEF IInv, FreeSlots
<1>3. /\ r \in 0..Len(free_entities)
      /\ o \in 0..(MaxSlots - Len(entities))
      /\ entities' = [i \in 1..(Len(entities) + o) |->
                        IF i <= Len(entities) THEN entities[i] ELSE NewEmptySpec]
      /\ free_entities' = SubSeq(free_entities, r + 1, Len(free_entities))
  BY DEF Taken
<1>4. NewEmptySpec \in EntitySpecs /\ ~ NewEmptySpec.has_value
  BY SlotsAssumption DEF NewEmptySpec, EntitySpecs, INITIALIZE_VERSION
<1>5. /\ DOMAIN entities' = 1..(Len(entities) + o)
      /\ \A i \in DOMAIN entities : i \in DOMAIN entities' /\ entities'[i] = entities[i]
      /\ \A i \in DOMAIN entities' : i \notin DOMAIN entities => entities'[i] = NewEmptySpec
  BY <1>1, <1>3
<1>6. Len(entities) + o \in Nat /\ Len(entities) + o <= MaxSlots
  BY <1>1, <1>3
<1>7. entities' \in Seq(EntitySpecs) /\ Len(entities') = Len(entities) + o
  <2>1. entities' \in [1..(Len(entities) + o) -> EntitySpecs]
    BY <1>1, <1>3, <1>4, <1>5
  <2> QED BY <1>6, <2>1
<1>8. /\ free_entities' \in Seq(Nat)
      /\ DOMAIN free_entities' = 1..(Len(free_entities) - r)
      /\ \A k \in DOMAIN free_entities' :
           k + r \in DOMAIN free_entities /\ free_entities'[k] = free_entities[k + r]
  <2>1. /\ free_entities' \in Seq(Nat)
        /\ DOMAIN free_entities' = 1..(Len(free_entities) - r)
        /\ \A k \in DOMAIN free_entities' :
             k + r \in DOMAIN free_entities /\ free_entities'[k] = free_entities[k + r]
    BY <1>2, <1>3, DropFacts
  <2>2. DOMAIN free_entities' = 1..Len(free_entities')
    BY <2>1, SeqFacts
  <2> QED BY <1>2, <1>3, <2>1, <2>2
<1>9. WorldOK(entities', archetypes')
  <2>1. WorldOK(entities, archetypes)
    BY DEF IInv
  <2>2. \A i \in DOMAIN entities' : i \notin DOMAIN entities => ~ entities'[i].has_value
    BY <1>4, <1>5
  <2>3. WorldOK(entities', archetypes)
    BY <1>5, <1>7, <2>1, <2>2, EmptySlotFacts
  <2> QED BY <2>3
<1>10. FreeSlots(entities', free_entities')
  <2>1. /\ \A k \in DOMAIN free_entities : /\ free_entities[k] \in DOMAIN entities
                                           /\ ~ entities[free_entities[k]].has_value
                                           /\ entities[free_entities[k]].version < MaxVersion
        /\ \A j, k \in DOMAIN free_entities : free_entities[j] = free_entities[k] => j = k
    BY DEF IInv, FreeSlots
  <2>2. ASSUME NEW j \in DOMAIN free_entities', NEW k \in DOMAIN free_entities',
               free_entities'[j] = free_entities'[k]
        PROVE  j = k
    <3>1. j + r = k + r
      BY <1>8, <2>1, <2>2
    <3>2. j \in Nat /\ k \in Nat
      BY <1>8
    <3> QED BY <3>1, <3>2
  <2> QED BY <1>5, <1>8, <2>1, <2>2 DEF FreeSlots
<1>11. IInv'
  BY <1>6, <1>7, <1>9, <1>10 DEF IInv
<1> QED BY <1>4, <1>5, <1>8, <1>11

(* The handles: of spare slots, each another one, and newer than whatever  *)
(* was in the slot before.                                                 *)
LEMMA TakenHandles ==
  ASSUME IInv, NEW hs, NEW r \in Nat, NEW o \in Nat, Taken(hs, r, o),
         UNCHANGED <<archetypes, tick>>
  PROVE  /\ hs \in Seq(Entity)
         /\ \A k \in DOMAIN hs : /\ Spare(hs[k].idx)'
                                 /\ hs[k].idx \in DOMAIN entities =>
                                      /\ IsFree(hs[k].idx)
                                      /\ hs[k].version = entities[hs[k].idx].version + 1
         /\ \A j, k \in DOMAIN hs : hs[j].idx = hs[k].idx => j = k
<1>1. /\ Len(entities) \in Nat /\ DOMAIN entities = 1..Len(entities)
      /\ \A i \in DOMAIN entities : /\ i \in 1..MaxSlots
                                    /\ entities[i].version \in 1..MaxVersion
      /\ MaxSlots \in Nat /\ MaxVersion \in Nat \ {0}
  BY EntitiesFacts, SlotsAssumption
<1>2. /\ Len(free_entities) \in Nat
      /\ DOMAIN free_entities = 1..Len(free_entities)
      /\ \A k \in DOMAIN free_entities : /\ free_entities[k] \in DOMAIN entities
                                         /\ ~ entities[free_entities[k]].has_value
                                         /\ entities[free_entities[k]].version < MaxVersion
      /\ \A j, k \in DOMAIN free_entities : free_entities[j] = free_entities[k] => j = k
  BY SeqFacts DEF IInv, FreeSlots
<1>3. /\ r \in 0..Len(free_entities)
      /\ o \in 0..(MaxSlots - Len(entities))
      /\ o > 0 => r = Len(free_entities)
      /\ DOMAIN hs = 1..(r + o)
      /\ \A k \in 1..(r + o) : hs[k] =
           IF k <= r THEN RecycledEntity(entities, free_entities[k])
                     ELSE FreshEntity(Len(entities) + k - r)
  BY DEF Taken
<1>4. /\ DOMAIN entities' = 1..(Len(entities) + o)
      /\ \A i \in DOMAIN entities : i \in DOMAIN entities' /\ entities'[i] = entities[i]
      /\ \A i \in DOMAIN entities' : i \notin DOMAIN entities => ~ entities'[i].has_value
      /\ DOMAIN free_entities' = 1..(Len(free_entities) - r)
      /\ \A k \in DOMAIN free_entities' :
           k + r \in DOMAIN free_entities /\ free_entities'[k] = free_entities[k + r]
  BY TakenSlots
<1>5. ASSUME NEW k \in DOMAIN hs, k <= r
      PROVE  /\ hs[k] \in Entity
             /\ k \in DOMAIN free_entities
             /\ hs[k].idx = free_entities[k]
             /\ hs[k].idx \in DOMAIN entities
             /\ Spare(hs[k].idx)'
             /\ IsFree(hs[k].idx)
             /\ hs[k].version = entities[hs[k].idx].version + 1
  <2>1. k \in Nat /\ k \in DOMAIN free_entities
    BY <1>2, <1>3, <1>5
  <2>2. PICK i : i = free_entities[k]
    OBVIOUS
  <2>3. i \in DOMAIN entities /\ ~ entities[i].has_value /\ entities[i].version < MaxVersion
    BY <1>2, <2>1, <2>2
  <2>4. hs[k] = [idx |-> i, version |-> entities[i].version + 1]
    BY <1>3, <1>5, <2>2 DEF RecycledEntity
  <2>5. entities[i].version + 1 \in 1..MaxVersion /\ i \in 1..MaxSlots
    BY <1>1, <2>3
  <2>6. ~ IsFree(i)'
    <3>1. ASSUME NEW j \in DOMAIN free_entities', free_entities'[j] = i PROVE FALSE
      <4>1. j + r = k
        BY <1>2, <1>4, <2>1, <2>2, <3>1
      <4>2. j \in Nat /\ j > 0
        BY <1>4
      <4> QED BY <1>5, <2>1, <4>1, <4>2
    <3> QED BY <3>1 DEF IsFree
  <2>7. i \in DOMAIN entities' /\ ~ entities'[i].has_value
    BY <1>4, <2>3
  <2> QED BY <2>1, <2>2, <2>3, <2>4, <2>5, <2>6, <2>7 DEF Entity, Spare, IsFree
<1>6. ASSUME NEW k \in DOMAIN hs, ~ (k <= r)
      PROVE  /\ hs[k] \in Entity
             /\ hs[k].idx = Len(entities) + k - r
             /\ hs[k].idx \notin DOMAIN entities
             /\ Spare(hs[k].idx)'
  <2>1. PICK i : i = Len(entities) + k - r
    OBVIOUS
  <2>2. k \in Nat /\ k \in 1..(r + o)
    BY <1>3
  <2>3. i \in 1..MaxSlots /\ i \notin 1..Len(entities) /\ i \in 1..(Len(entities) + o)
    BY <1>1, <1>3, <1>6, <2>1, <2>2
  <2>4. hs[k] = [idx |-> i, version |-> 1]
    BY <1>3, <1>6, <2>1, <2>2 DEF FreshEntity, INITIALIZE_VERSION
  <2>5. i \in DOMAIN entities' /\ ~ entities'[i].has_value
    BY <1>1, <1>4, <2>3
  <2>6. ~ IsFree(i)'
    BY <1>1, <1>2, <1>4, <2>3 DEF IsFree
  <2> QED BY <1>1, <2>1, <2>3, <2>4, <2>5, <2>6 DEF Entity, Spare
<1>7. hs \in Seq(Entity)
  <2>1. r + o \in Nat
    OBVIOUS
  <2>2. \A k \in 1..(r + o) : hs[k] \in Entity
    BY <1>3, <1>5, <1>6
  <2>3. hs = [k \in 1..(r + o) |-> hs[k]]
    BY DEF Taken
  <2> QED BY <2>1, <2>2, <2>3
<1>8. ASSUME NEW j \in DOMAIN hs, NEW k \in DOMAIN hs, hs[j].idx = hs[k].idx PROVE j = k
  <2>1. j \in Nat /\ k \in Nat
    BY <1>3
  <2>2. CASE j <= r /\ k <= r
    BY <1>2, <1>5, <1>8, <2>2
  <2>3. CASE ~ (j <= r) /\ ~ (k <= r)
    <3>1. Len(entities) + j - r = Len(entities) + k - r
      BY <1>6, <1>8, <2>3
    <3> QED BY <1>1, <2>1, <3>1
  <2>4. CASE j <= r /\ ~ (k <= r)
    BY <1>5, <1>6, <1>8, <2>4
  <2>5. CASE ~ (j <= r) /\ k <= r
    BY <1>5, <1>6, <1>8, <2>5
  <2> QED BY <2>2, <2>3, <2>4, <2>5
<1> QED BY <1>5, <1>6, <1>7, <1>8
----------------------------------------------------------------------------
(* What a step of a buffer does to the commands in it.                     *)

LEMMA CommandRecorded ==
  ASSUME BuffersOK, NEW t \in Threads, NEW cmd \in Commands,
         cmd_buffer' = [cmd_buffer EXCEPT ![t] = Append(@, cmd)],
         NEW last, last = Len(cmd_buffer[t]) + 1
  PROVE  /\ cmd_buffer' \in [Threads -> Seq(Commands)]
         /\ last \in Nat \ {0}
         /\ DOMAIN cmd_buffer[t] = 1..(last - 1)
         /\ DOMAIN cmd_buffer'[t] = 1..last
         /\ cmd_buffer'[t][last] = cmd
         /\ \A k \in DOMAIN cmd_buffer[t] : cmd_buffer'[t][k] = cmd_buffer[t][k]
         /\ \A s \in Threads : s # t => cmd_buffer'[s] = cmd_buffer[s]
<1>1. cmd_buffer \in [Threads -> Seq(Commands)]
  BY DEF BuffersOK
<1>2. PICK b : b = cmd_buffer[t]
  OBVIOUS
<1>3. b \in Seq(Commands) /\ Len(b) \in Nat /\ DOMAIN b = 1..Len(b)
  BY <1>1, <1>2, SeqFacts
<1>4. /\ Append(b, cmd) \in Seq(Commands)
      /\ Len(Append(b, cmd)) = Len(b) + 1
      /\ \A k \in 1..Len(b) : Append(b, cmd)[k] = b[k]
      /\ Append(b, cmd)[Len(b) + 1] = cmd
  BY <1>3, AppendProperties
<1>5. DOMAIN Append(b, cmd) = 1..(Len(b) + 1)
  BY <1>4, SeqFacts
<1>6. /\ cmd_buffer'[t] = Append(b, cmd)
      /\ \A s \in Threads : s # t => cmd_buffer'[s] = cmd_buffer[s]
      /\ cmd_buffer' \in [Threads -> Seq(Commands)]
  BY <1>1, <1>2, <1>4
<1>7. last \in Nat \ {0} /\ last - 1 = Len(b)
  BY <1>2, <1>3
<1> QED BY <1>2, <1>3, <1>4, <1>5, <1>6, <1>7

(* One more command at the end of a buffer.                                *)
LEMMA AppendedAt ==
  ASSUME NEW b \in Seq(Commands), NEW cmd \in Commands, NEW last, last = Len(b) + 1
  PROVE  /\ \A k, o, d : InBuffer(Append(b, cmd), k, o, d) <=>
              InBuffer(b, k, o, d) \/ (k = last /\ cmd.op = o /\ cmd.e = d)
         /\ \A k, o, d : InBuffer(b, k, o, d) => k \in 1..(last - 1)
<1>1. /\ Append(b, cmd) \in Seq(Commands)
      /\ Len(Append(b, cmd)) = Len(b) + 1
      /\ \A k \in 1..Len(b) : Append(b, cmd)[k] = b[k]
      /\ Append(b, cmd)[Len(b) + 1] = cmd
  BY AppendProperties
<1>2. Len(b) \in Nat /\ DOMAIN b = 1..Len(b) /\ DOMAIN Append(b, cmd) = 1..last
  BY <1>1, SeqFacts
<1>3. /\ \A k : k \in 1..last <=> k \in 1..Len(b) \/ k = last
      /\ last \notin 1..Len(b)
      /\ last - 1 = Len(b)
  BY <1>2
<1>4. ASSUME NEW k, NEW o, NEW d
      PROVE  InBuffer(Append(b, cmd), k, o, d) <=>
               InBuffer(b, k, o, d) \/ (k = last /\ cmd.op = o /\ cmd.e = d)
  <2>1. CASE k \in 1..Len(b)
    BY <1>1, <1>2, <1>3, <2>1 DEF InBuffer
  <2>2. CASE k = last
    BY <1>1, <1>2, <1>3, <2>2 DEF InBuffer
  <2>3. CASE k \notin 1..last
    BY <1>2, <1>3, <2>3 DEF InBuffer
  <2> QED BY <1>3, <2>1, <2>2, <2>3
<1> QED BY <1>2, <1>3, <1>4 DEF InBuffer

(* The first command of a buffer is taken off.                             *)
LEMMA TakenOff ==
  ASSUME BuffersOK, NEW t \in Threads, cmd_buffer[t] # << >>,
         cmd_buffer' = [cmd_buffer EXCEPT ![t] = Tail(@)]
  PROVE  /\ cmd_buffer' \in [Threads -> Seq(Commands)]
         /\ 1 \in DOMAIN cmd_buffer[t]
         /\ Head(cmd_buffer[t]) = cmd_buffer[t][1]
         /\ \A k \in DOMAIN cmd_buffer'[t] :
              /\ k \in Nat \ {0}
              /\ k + 1 \in DOMAIN cmd_buffer[t]
              /\ cmd_buffer'[t][k] = cmd_buffer[t][k + 1]
         /\ \A k \in DOMAIN cmd_buffer[t] :
              k \in Nat \ {0} /\ (k # 1 => k - 1 \in DOMAIN cmd_buffer'[t])
         /\ \A s \in Threads : s # t => cmd_buffer'[s] = cmd_buffer[s]
<1>1. cmd_buffer \in [Threads -> Seq(Commands)]
  BY DEF BuffersOK
<1>2. PICK b : b = cmd_buffer[t]
  OBVIOUS
<1>3. /\ b \in Seq(Commands) /\ Len(b) \in Nat /\ Len(b) > 0
      /\ DOMAIN b = 1..Len(b)
      /\ Head(b) = b[1]
      /\ Tail(b) \in Seq(Commands)
      /\ DOMAIN Tail(b) = 1..(Len(b) - 1)
      /\ \A k \in DOMAIN Tail(b) : Tail(b)[k] = b[k + 1]
  BY <1>1, <1>2, SeqFacts
<1>4. /\ cmd_buffer'[t] = Tail(b)
      /\ \A s \in Threads : s # t => cmd_buffer'[s] = cmd_buffer[s]
      /\ cmd_buffer' \in [Threads -> Seq(Commands)]
  BY <1>1, <1>2, <1>3
<1>5. /\ 1 \in 1..Len(b)
      /\ \A k \in 1..(Len(b) - 1) : k \in Nat \ {0} /\ k + 1 \in 1..Len(b)
      /\ \A k \in 1..Len(b) : k \in Nat \ {0} /\ (k # 1 => k - 1 \in 1..(Len(b) - 1))
  BY <1>3
<1> QED BY <1>2, <1>3, <1>4, <1>5

(* The first command of a buffer is taken off: the places go down by one.  *)
LEMMA TailAt ==
  ASSUME NEW b \in Seq(Commands), b # << >>
  PROVE  /\ \A k, o, d : InBuffer(Tail(b), k, o, d) =>
              k \in Nat \ {0} /\ InBuffer(b, k + 1, o, d)
         /\ \A k, o, d : InBuffer(b, k, o, d) =>
              k \in Nat \ {0} /\ (k # 1 => InBuffer(Tail(b), k - 1, o, d))
<1>1. /\ Len(b) \in Nat /\ Len(b) > 0
      /\ DOMAIN b = 1..Len(b)
      /\ DOMAIN Tail(b) = 1..(Len(b) - 1)
      /\ \A k \in DOMAIN Tail(b) : Tail(b)[k] = b[k + 1]
  BY SeqFacts
<1>2. ASSUME NEW k, NEW o, NEW d, InBuffer(Tail(b), k, o, d)
      PROVE  k \in Nat \ {0} /\ InBuffer(b, k + 1, o, d)
  BY <1>1, <1>2 DEF InBuffer
<1>3. ASSUME NEW k, NEW o, NEW d, InBuffer(b, k, o, d)
      PROVE  k \in Nat \ {0} /\ (k # 1 => InBuffer(Tail(b), k - 1, o, d))
  <2>1. k \in 1..Len(b) /\ k \in Nat \ {0}
    BY <1>1, <1>3 DEF InBuffer
  <2>2. ASSUME k # 1 PROVE InBuffer(Tail(b), k - 1, o, d)
    <3>1. k - 1 \in DOMAIN Tail(b) /\ (k - 1) + 1 = k
      BY <1>1, <2>1, <2>2
    <3>2. Tail(b)[k - 1] = b[k]
      BY <1>1, <3>1
    <3> QED BY <1>3, <3>1, <3>2 DEF InBuffer
  <2> QED BY <2>1, <2>2
<1> QED BY <1>2, <1>3
----------------------------------------------------------------------------
(* What a step does to who is alive and what is spare: the entities in     *)
(* gone die, those in made come to life on slots of their own, and no slot *)
(* comes into use otherwise.                                               *)
Moves(gone, made) ==
  /\ DOMAIN entities \subseteq DOMAIN entities'
  /\ \A d \in Entity :
       Exists(entities', d) <=> (Exists(entities, d) /\ d \notin gone) \/ d \in made
  /\ \A i : Spare(i) /\ (\A d \in made : d.idx # i) => Spare(i)'
  /\ \A i \in DOMAIN entities :
       (\A d \in made : d.idx # i) /\ (entities'[i].has_value \/ IsFree(i)') =>
         /\ entities[i].has_value \/ IsFree(i)
         /\ entities'[i].version = entities[i].version
  /\ \A d \in made : d.idx \in DOMAIN entities' /\ entities'[d.idx].version = d.version

LEMMA ExistsAt ==
  ASSUME NEW S, NEW slots \in Seq(S)
  PROVE  \A e : Exists(slots, e) <=> /\ e.idx \in DOMAIN slots
                                     /\ slots[e.idx].has_value
                                     /\ slots[e.idx].version = e.version
BY SeqFacts DEF Exists

LEMMA SameEntity ==
  ASSUME NEW d \in Entity, NEW e \in Entity, d.idx = e.idx, d.version = e.version
  PROVE  d = e
BY DEF Entity

LEMMA StayMoves ==
  ASSUME IInv, IInv', SlotsStay
  PROVE  Moves({}, {})
<1>1. entities \in Seq(EntitySpecs) /\ entities' \in Seq(EntitySpecs)
  BY DEF IInv, WorldOK
<1>2. \A e : Exists(entities, e) <=> /\ e.idx \in DOMAIN entities
                                     /\ entities[e.idx].has_value
                                     /\ entities[e.idx].version = e.version
  BY <1>1, ExistsAt
<1>3. \A e : Exists(entities', e) <=> /\ e.idx \in DOMAIN entities'
                                      /\ entities'[e.idx].has_value
                                      /\ entities'[e.idx].version = e.version
  BY <1>1, ExistsAt
<1>4. \A i : IsFree(i)' <=> IsFree(i)
  BY DEF SlotsStay, IsFree
<1>5. \A d \in Entity : Exists(entities', d) <=> Exists(entities, d)
  BY <1>2, <1>3 DEF SlotsStay
<1>6. \A i : Spare(i) => Spare(i)'
  BY <1>4 DEF SlotsStay, Spare
<1> QED BY <1>4, <1>5, <1>6 DEF Moves, SlotsStay

LEMMA EraseMoves ==
  ASSUME IInv, IInv', NEW e \in Entity, SlotErased(e)
  PROVE  Moves({e}, {})
<1>1. entities \in Seq(EntitySpecs) /\ entities' \in Seq(EntitySpecs)
  BY DEF IInv, WorldOK
<1>2. \A d : Exists(entities, d) <=> /\ d.idx \in DOMAIN entities
                                     /\ entities[d.idx].has_value
                                     /\ entities[d.idx].version = d.version
  BY <1>1, ExistsAt
<1>3. \A d : Exists(entities', d) <=> /\ d.idx \in DOMAIN entities'
                                      /\ entities'[d.idx].has_value
                                      /\ entities'[d.idx].version = d.version
  BY <1>1, ExistsAt
<1>4. /\ Exists(entities, e)
      /\ DOMAIN entities' = DOMAIN entities
      /\ ~ entities'[e.idx].has_value
      /\ entities'[e.idx].version = e.version
      /\ \A i \in DOMAIN entities : i # e.idx =>
           /\ entities'[i].has_value <=> entities[i].has_value
           /\ entities'[i].version = entities[i].version
      /\ \A i : i # e.idx => (IsFree(i)' <=> IsFree(i))
  BY DEF SlotErased
<1>5. e.idx \in DOMAIN entities /\ entities[e.idx].has_value /\ entities[e.idx].version = e.version
  BY <1>2, <1>4
<1>6. ASSUME NEW d \in Entity
      PROVE  Exists(entities', d) <=> Exists(entities, d) /\ d # e
  <2>1. CASE d.idx = e.idx
    <3>1. Exists(entities, d) => d = e
      BY <1>2, <1>5, <2>1, SameEntity
    <3> QED BY <1>3, <1>4, <2>1, <3>1
  <2>2. CASE d.idx # e.idx
    BY <1>2, <1>3, <1>4, <2>2
  <2> QED BY <2>1, <2>2
<1>7. \A i : Spare(i) => Spare(i)'
  BY <1>4, <1>5 DEF Spare
<1>8. \A i \in DOMAIN entities : entities'[i].has_value \/ IsFree(i)' =>
        /\ entities[i].has_value \/ IsFree(i)
        /\ entities'[i].version = entities[i].version
  BY <1>4, <1>5
<1> QED BY <1>4, <1>6, <1>7, <1>8 DEF Moves

LEMMA FillMoves ==
  ASSUME IInv, IInv', NEW e \in Entity, SlotFilled(e)
  PROVE  Moves({}, {e})
<1>1. entities \in Seq(EntitySpecs) /\ entities' \in Seq(EntitySpecs)
  BY DEF IInv, WorldOK
<1>2. \A d : Exists(entities, d) <=> /\ d.idx \in DOMAIN entities
                                     /\ entities[d.idx].has_value
                                     /\ entities[d.idx].version = d.version
  BY <1>1, ExistsAt
<1>3. \A d : Exists(entities', d) <=> /\ d.idx \in DOMAIN entities'
                                      /\ entities'[d.idx].has_value
                                      /\ entities'[d.idx].version = d.version
  BY <1>1, ExistsAt
<1>4. /\ e.idx \in DOMAIN entities => ~ entities[e.idx].has_value
      /\ DOMAIN entities' = DOMAIN entities \cup {e.idx}
      /\ entities'[e.idx].has_value
      /\ entities'[e.idx].version = e.version
      /\ \A i \in DOMAIN entities : i # e.idx =>
           /\ entities'[i].has_value <=> entities[i].has_value
           /\ entities'[i].version = entities[i].version
      /\ \A i : IsFree(i)' <=> IsFree(i) /\ i # e.idx
  BY DEF SlotFilled
<1>5. ASSUME NEW d \in Entity
      PROVE  Exists(entities', d) <=> Exists(entities, d) \/ d = e
  <2>1. CASE d.idx = e.idx
    <3>1. d.version = e.version => d = e
      BY <2>1, SameEntity
    <3> QED BY <1>2, <1>3, <1>4, <2>1, <3>1
  <2>2. CASE d.idx # e.idx
    BY <1>2, <1>3, <1>4, <2>2
  <2> QED BY <2>1, <2>2
<1>6. \A i : Spare(i) /\ e.idx # i => Spare(i)'
  BY <1>4 DEF Spare
<1>7. \A i \in DOMAIN entities : e.idx # i /\ (entities'[i].has_value \/ IsFree(i)') =>
        /\ entities[i].has_value \/ IsFree(i)
        /\ entities'[i].version = entities[i].version
  BY <1>4
<1> QED BY <1>4, <1>5, <1>6, <1>7 DEF Moves
----------------------------------------------------------------------------
(* The main thread, and the ends of parallel computations and sync points: *)
(* the buffers stay as they are.                                           *)
LEMMA MainKeeps ==
  ASSUME CInv, IInv', NoSingletons(archetypes)',
         NEW gone, gone \subseteq Entity, NEW made, made \subseteq Entity, Moves(gone, made),
         UNCHANGED <<workers, pre_allocated, cmd_buffer>>,
         phase' \in {"main", "parallel", "flush"},
         issued' = issued \cup made,
         \A d \in gone : \A s \in Threads : \A k : ~ CmdAt(s, k, "destroy", d),
         \A c, d \in made : c = d,
         \A d \in made : /\ ~ Spare(d.idx)
                         /\ \A g \in issued : g.idx = d.idx => g.version <= d.version
  PROVE  CInv'
<1>1. \A s, k, op, e : CmdAt(s, k, op, e)' <=> CmdAt(s, k, op, e)
  BY DEF CmdAt
<1>2. BuffersOK'
  BY DEF CInv, BuffersOK
<1>3. PromisedOnce'
  BY <1>1 DEF CInv, PromisedOnce
<1>4. \A i : Spare(i) => Spare(i)' /\ \A d \in made : d.idx # i
  BY DEF Moves
<1>5. PromisedSpare'
  <2>1. ASSUME NEW t \in Threads, NEW k \in DOMAIN pre_allocated'[t]
        PROVE  Spare(pre_allocated[t][k].idx)'
    BY <1>4 DEF CInv, PromisedSpare
  <2>2. ASSUME NEW t \in Threads, NEW k, NEW e \in Entity, CmdAt(t, k, "create", e)'
        PROVE  Spare(e.idx)'
    BY <1>1, <1>4, <2>2 DEF CInv, PromisedSpare
  <2> QED BY <2>1, <2>2 DEF PromisedSpare
<1>6. DestroysFind'
  <2>1. SUFFICES ASSUME NEW t \in Threads, NEW k, NEW e \in Entity, CmdAt(t, k, "destroy", e)'
                 PROVE  /\ Exists(entities', e) \/ \E j \in 1..(k - 1) : CmdAt(t, j, "create", e)'
                        /\ \A s \in Threads : \A j : CmdAt(s, j, "destroy", e)' => s = t /\ j = k
    BY DEF DestroysFind
  <2>2. /\ Exists(entities, e) \/ \E j \in 1..(k - 1) : CmdAt(t, j, "create", e)
        /\ \A s \in Threads : \A j : CmdAt(s, j, "destroy", e) => s = t /\ j = k
    BY <1>1, <2>1 DEF CInv, DestroysFind
  <2>3. e \notin gone
    BY <1>1, <2>1
  <2> QED BY <1>1, <2>2, <2>3 DEF Moves
<1>7. VersionsRise'
  <2>1. ASSUME NEW g \in issued'
        PROVE  /\ g.idx \in DOMAIN entities'
               /\ entities'[g.idx].has_value \/ IsFree(g.idx)' =>
                    g.version <= entities'[g.idx].version
               /\ \A t \in Threads : \A k \in DOMAIN pre_allocated'[t] :
                    pre_allocated'[t][k].idx = g.idx => g.version < pre_allocated'[t][k].version
               /\ \A t \in Threads : \A k : \A e \in Entity :
                    CmdAt(t, k, "create", e)' /\ e.idx = g.idx /\ e # g => g.version < e.version
    <3>1. g \in issued \/ g \in made
      OBVIOUS
    <3>2. CASE g \in issued
      <4>1. /\ g.idx \in DOMAIN entities
            /\ entities[g.idx].has_value \/ IsFree(g.idx) => g.version <= entities[g.idx].version
            /\ \A t \in Threads : \A k \in DOMAIN pre_allocated[t] :
                 pre_allocated[t][k].idx = g.idx => g.version < pre_allocated[t][k].version
            /\ \A t \in Threads : \A k : \A e \in Entity :
                 CmdAt(t, k, "create", e) /\ e.idx = g.idx /\ e # g => g.version < e.version
        BY <3>2 DEF CInv, VersionsRise
      <4>2. CASE \A d \in made : d.idx # g.idx
        BY <1>1, <4>1, <4>2 DEF Moves
      <4>3. CASE \E d \in made : d.idx = g.idx
        <5>1. PICK d \in made : d.idx = g.idx
          BY <4>3
        <5>2. g.version <= d.version /\ entities'[g.idx].version = d.version
          BY <3>2, <5>1 DEF Moves
        <5> QED BY <1>1, <4>1, <5>2 DEF Moves
      <4> QED BY <4>2, <4>3
    <3>3. CASE g \in made
      <4>1. ~ Spare(g.idx) /\ g.version \in Int
        BY <3>3 DEF Entity
      <4>2. g.idx \in DOMAIN entities' /\ entities'[g.idx].version = g.version
        BY <3>3 DEF Moves
      <4>3. /\ \A t \in Threads : \A k \in DOMAIN pre_allocated[t] : pre_allocated[t][k].idx # g.idx
            /\ \A t \in Threads : \A k : \A e \in Entity : CmdAt(t, k, "create", e) => e.idx # g.idx
        BY <4>1 DEF CInv, PromisedSpare
      <4> QED BY <1>1, <4>1, <4>2, <4>3
    <3> QED BY <3>1, <3>2, <3>3
  <2>2. \A e \in Entity : Exists(entities', e) => e \in issued'
    BY DEF CInv, VersionsRise, Moves
  <2> QED BY <2>1, <2>2 DEF VersionsRise
<1> QED BY <1>2, <1>3, <1>5, <1>6, <1>7 DEF CInv

(* A step that moves nobody.                                               *)
LEMMA NobodyMoves ==
  ASSUME IInv, UNCHANGED worldVars
  PROVE  IInv' /\ Moves({}, {}) /\ (NoSingletons(archetypes) => NoSingletons(archetypes)')
<1>1. IInv'
  BY DEF worldVars, vars, IInv
<1>2. SlotsStay
  BY DEF worldVars, vars, SlotsStay
<1> QED BY <1>1, <1>2, StayMoves DEF worldVars, vars

(* Whether a command is recorded, by its place.                            *)
LEMMA RecordedFacts ==
  ASSUME NEW op, NEW e
  PROVE  Recorded(op, e) = {t \in Threads : \E k : CmdAt(t, k, op, e)}
BY DEF Recorded, CmdAt, InBuffer

(* A call outside a parallel computation: it ends the life of one entity   *)
(* whose end nobody has recorded, or begins that of a new one, or neither. *)
MainMoves(gone, made) ==
  /\ Moves(gone, made)
  /\ issued' = issued \cup made
  /\ \/ gone = {} /\ made = {}
     \/ /\ made = {}
        /\ \E e \in Entity :
             /\ gone = {e}
             /\ Exists(entities, e)
             /\ \A s \in Threads : \A k : ~ CmdAt(s, k, "destroy", e)
     \/ /\ gone = {}
        /\ \E e \in Entity :
             /\ made = {e}
             /\ ~ Spare(e.idx)
             /\ \A g \in issued : g.idx = e.idx => g.version < e.version

LEMMA MainThreadStep ==
  ASSUME Careful, CInv, MainThread
  PROVE  /\ IInv' /\ NoSingletons(archetypes)'
         /\ \E gone, made : MainMoves(gone, made)
<1>a. IInv /\ NoSingletons(archetypes) /\ CarefulDestroys /\ WithoutSingletons
  BY DEF CInv, Careful
<1>1. ASSUME NEW e \in Entity, TryDestroy(e), CarefulDestroy(e, {}), UNCHANGED issued
      PROVE  IInv' /\ NoSingletons(archetypes)' /\ MainMoves({e}, {})
  <2>1. IInv' /\ NoSingletons(archetypes)' /\ SlotErased(e)
    BY <1>a, <1>1, TryDestroyErases
  <2>2. Moves({e}, {})
    BY <1>a, <2>1, EraseMoves
  <2>3. \A s \in Threads : \A k : ~ CmdAt(s, k, "destroy", e)
    BY <1>a, <1>1, RecordedFacts DEF CarefulDestroy
  <2>4. issued' = issued \cup {}
    BY <1>1
  <2> QED BY <2>1, <2>2, <2>3, <2>4 DEF MainMoves, SlotErased
<1>2. ASSUME NEW e \in Entity, NEW op \in Ops, NEW values \in Bundles, Call(op, e, values),
             UNCHANGED issued
      PROVE  IInv' /\ NoSingletons(archetypes)' /\ MainMoves({}, {})
  <2>1. IInv' /\ NoSingletons(archetypes)' /\ SlotsStay
    BY <1>a, <1>2, CallStep
  <2>2. Moves({}, {})
    BY <1>a, <2>1, StayMoves
  <2>3. issued' = issued \cup {}
    BY <1>2
  <2> QED BY <2>1, <2>2, <2>3 DEF MainMoves
<1>3. ASSUME NEW values \in Bundles, CreateNow(values)
      PROVE  IInv' /\ NoSingletons(archetypes)' /\ \E e : MainMoves({}, {e})
  <2>1. PICK e : e = NextEntity(entities, free_entities)
    OBVIOUS
  <2>2. /\ IInv' /\ NoSingletons(archetypes)'
        /\ e \in Entity
        /\ SlotFilled(e)
        /\ Newer(e)
        /\ e.idx \in DOMAIN entities => IsFree(e.idx)
    BY <1>a, <1>3, <2>1, TryCreateFills DEF CreateNow
  <2>3. Moves({}, {e})
    BY <1>a, <2>2, FillMoves
  <2>4. Exists(entities', e)
    BY <2>2, <2>3 DEF Moves
  <2>5. issued' = issued \cup {e}
    BY <1>3, <2>1, <2>4 DEF CreateNow
  <2>6. ~ Spare(e.idx)
    BY <2>2 DEF Spare
  <2>7. ASSUME NEW g \in issued, g.idx = e.idx PROVE g.version < e.version
    <3>1. e.idx \in DOMAIN entities /\ g.version <= entities[e.idx].version /\ g \in Entity
      BY <2>2, <2>7 DEF CInv, VersionsRise, BuffersOK
    <3>2. entities[e.idx].version < e.version /\ entities[e.idx].version \in Int
      BY <1>a, <2>2, <3>1, EntitiesFacts DEF Newer
    <3>3. g.version \in Int /\ e.version \in Int
      BY <2>2, <3>1 DEF Entity
    <3> QED BY <3>1, <3>2, <3>3
  <2>8. MainMoves({}, {e})
    BY <2>2, <2>3, <2>5, <2>6, <2>7 DEF MainMoves
  <2> QED BY <2>2, <2>8
<1> QED BY <1>a, <1>1, <1>2, <1>3 DEF MainThread, CallNow

LEMMA MainThreadKeeps ==
  ASSUME Careful, CInv, MainThread
  PROVE  CInv'
<1>1. IInv' /\ NoSingletons(archetypes)'
  BY MainThreadStep
<1>2. PICK gone, made : MainMoves(gone, made)
  BY MainThreadStep
<1>3. /\ phase' \in {"main", "parallel", "flush"}
      /\ UNCHANGED <<workers, pre_allocated, cmd_buffer>>
  BY DEF MainThread
<1>4. /\ gone \subseteq Entity /\ made \subseteq Entity
      /\ Moves(gone, made) /\ issued' = issued \cup made
      /\ \A d \in gone : \A s \in Threads : \A k : ~ CmdAt(s, k, "destroy", d)
      /\ \A c, d \in made : c = d
      /\ \A d \in made : ~ Spare(d.idx)
  BY <1>2 DEF MainMoves
<1>5. \A d \in made : \A g \in issued : g.idx = d.idx => g.version <= d.version
  <2>1. ASSUME NEW d \in made, NEW g \in issued, g.idx = d.idx PROVE g.version <= d.version
    <3>1. g.version < d.version
      BY <1>2, <2>1 DEF MainMoves
    <3>2. g.version \in Int /\ d.version \in Int
      BY <1>4 DEF CInv, BuffersOK, Entity
    <3> QED BY <3>1, <3>2
  <2> QED BY <2>1
<1> QED BY <1>1, <1>3, <1>4, <1>5, MainKeeps
----------------------------------------------------------------------------
(* A worker.                                                               *)

(* What a worker may hand out: handles of spare slots, promised to nobody  *)
(* else, each another one and newer than all that was issued on its slot.  *)
Handout(t, hs) ==
  /\ hs \in Seq(Entity)
  /\ \A k \in DOMAIN hs : /\ Spare(hs[k].idx)'
                          /\ \A g \in issued : g.idx = hs[k].idx => g.version < hs[k].version
                          /\ \A s \in Threads : \A j \in DOMAIN pre_allocated[s] :
                               pre_allocated[s][j].idx = hs[k].idx => s = t
                          /\ \A s \in Threads : \A j : \A e \in Entity :
                               CmdAt(s, j, "create", e) => e.idx # hs[k].idx
  /\ \A j, k \in DOMAIN hs : hs[j].idx = hs[k].idx => j = k

LEMMA TakenMoves ==
  ASSUME IInv, NEW hs, NEW r \in Nat, NEW o \in Nat, Taken(hs, r, o),
         UNCHANGED <<archetypes, tick>>
  PROVE  Moves({}, {})
<1>1. /\ IInv'
      /\ \A i \in DOMAIN entities : i \in DOMAIN entities' /\ entities'[i] = entities[i]
      /\ \A i \in DOMAIN entities' : i \notin DOMAIN entities => ~ entities'[i].has_value
      /\ \A k \in DOMAIN free_entities' :
           k + r \in DOMAIN free_entities /\ free_entities'[k] = free_entities[k + r]
  BY TakenSlots
<1>2. \A i : IsFree(i)' => IsFree(i)
  BY <1>1 DEF IsFree
<1>3. entities \in Seq(EntitySpecs) /\ entities' \in Seq(EntitySpecs)
  BY <1>1 DEF IInv, WorldOK
<1>4. \A e : Exists(entities, e) <=> /\ e.idx \in DOMAIN entities
                                     /\ entities[e.idx].has_value
                                     /\ entities[e.idx].version = e.version
  BY <1>3, ExistsAt
<1>5. \A e : Exists(entities', e) <=> /\ e.idx \in DOMAIN entities'
                                      /\ entities'[e.idx].has_value
                                      /\ entities'[e.idx].version = e.version
  BY <1>3, ExistsAt
<1>6. \A d \in Entity : Exists(entities', d) <=> Exists(entities, d)
  BY <1>1, <1>4, <1>5
<1>7. \A i : Spare(i) => Spare(i)'
  BY <1>1, <1>2 DEF Spare
<1> QED BY <1>1, <1>2, <1>6, <1>7 DEF Moves

LEMMA HandlesStep ==
  ASSUME CInv, NEW t \in Threads, PreAllocate(t), UNCHANGED <<archetypes, tick>>,
         NEW hs, hs = Handles(t)
  PROVE  /\ IInv' /\ NoSingletons(archetypes)'
         /\ Moves({}, {})
         /\ Handout(t, hs)
<1>a. IInv /\ NoSingletons(archetypes)'
  BY DEF CInv
<1>1. CASE pre_allocated[t] # << >>
  <2>1. hs = pre_allocated[t] /\ UNCHANGED <<entities, free_entities>>
    BY <1>1 DEF Handles, PreAllocate
  <2>2. IInv' /\ SlotsStay
    BY <1>a, <2>1 DEF IInv, SlotsStay
  <2>3. Moves({}, {})
    BY <1>a, <2>2, StayMoves
  <2>4. hs \in Seq(Entity)
    BY <2>1 DEF CInv, BuffersOK
  <2>5. ASSUME NEW k \in DOMAIN hs
        PROVE  /\ Spare(hs[k].idx)'
               /\ \A g \in issued : g.idx = hs[k].idx => g.version < hs[k].version
               /\ \A s \in Threads : \A j \in DOMAIN pre_allocated[s] :
                    pre_allocated[s][j].idx = hs[k].idx => s = t
               /\ \A s \in Threads : \A j : \A e \in Entity :
                    CmdAt(s, j, "create", e) => e.idx # hs[k].idx
    <3>1. Spare(hs[k].idx)'
      BY <2>1, <2>3 DEF CInv, PromisedSpare, Moves
    <3>2. \A g \in issued : g.idx = hs[k].idx => g.version < hs[k].version
      BY <2>1 DEF CInv, VersionsRise
    <3>3. \A s \in Threads : \A j \in DOMAIN pre_allocated[s] :
            pre_allocated[s][j].idx = hs[k].idx => s = t
      BY <2>1 DEF CInv, PromisedOnce
    <3>4. \A s \in Threads : \A j : \A e \in Entity :
            CmdAt(s, j, "create", e) => e.idx # hs[k].idx
      BY <2>1 DEF CInv, PromisedOnce
    <3> QED BY <3>1, <3>2, <3>3, <3>4
  <2>6. \A j, k \in DOMAIN hs : hs[j].idx = hs[k].idx => j = k
    BY <2>1 DEF CInv, PromisedOnce
  <2> QED BY <1>a, <2>2, <2>3, <2>4, <2>5, <2>6 DEF Handout
<1>2. CASE pre_allocated[t] = << >>
  <2>1. PICK r \in Nat, o \in Nat : Taken(hs, r, o)
    BY <1>a, <1>2, TakenFacts
  <2>2. IInv' /\ Moves({}, {})
    BY <1>a, <2>1, TakenSlots, TakenMoves
  <2>3. /\ hs \in Seq(Entity)
        /\ \A k \in DOMAIN hs : /\ Spare(hs[k].idx)'
                                /\ hs[k].idx \in DOMAIN entities =>
                                     /\ IsFree(hs[k].idx)
                                     /\ hs[k].version = entities[hs[k].idx].version + 1
        /\ \A j, k \in DOMAIN hs : hs[j].idx = hs[k].idx => j = k
    BY <1>a, <2>1, TakenHandles
  <2>4. ASSUME NEW k \in DOMAIN hs
        PROVE  /\ \A g \in issued : g.idx = hs[k].idx => g.version < hs[k].version
               /\ \A s \in Threads : \A j \in DOMAIN pre_allocated[s] :
                    pre_allocated[s][j].idx = hs[k].idx => s = t
               /\ \A s \in Threads : \A j : \A e \in Entity :
                    CmdAt(s, j, "create", e) => e.idx # hs[k].idx
    <3>1. ~ Spare(hs[k].idx)
      BY <2>3 DEF Spare
    <3>2. ASSUME NEW g \in issued, g.idx = hs[k].idx PROVE g.version < hs[k].version
      <4>1. g.idx \in DOMAIN entities /\ g \in Entity
        BY DEF CInv, VersionsRise, BuffersOK
      <4>2. IsFree(g.idx) /\ hs[k].version = entities[g.idx].version + 1
        BY <2>3, <3>2, <4>1
      <4>3. g.version <= entities[g.idx].version
        BY <4>2 DEF CInv, VersionsRise
      <4>4. g.version \in Int /\ entities[g.idx].version \in Int
        BY <1>a, <4>1, EntitiesFacts DEF Entity
      <4> QED BY <4>2, <4>3, <4>4
    <3>3. \A s \in Threads : \A j \in DOMAIN pre_allocated[s] :
            pre_allocated[s][j].idx # hs[k].idx
      BY <3>1 DEF CInv, PromisedSpare
    <3>4. \A s \in Threads : \A j : \A e \in Entity :
            CmdAt(s, j, "create", e) => e.idx # hs[k].idx
      BY <3>1 DEF CInv, PromisedSpare
    <3> QED BY <3>2, <3>3, <3>4
  <2> QED BY <1>a, <2>2, <2>3, <2>4 DEF Handout
<1> QED BY <1>1, <1>2

(* A thread with a command is registered by its call.                      *)
LEMMA WarmUpFacts ==
  ASSUME workers \in Seq(Threads), NEW t \in Threads, WarmUp(t)
  PROVE  /\ workers' \in Seq(Threads)
         /\ \E k \in DOMAIN workers' : workers'[k] = t
         /\ \A s \in Threads : (\E k \in DOMAIN workers : workers[k] = s) =>
              \E k \in DOMAIN workers' : workers'[k] = s
<1>1. CASE \E k \in DOMAIN workers : workers[k] = t
  BY <1>1 DEF WarmUp
<1>2. CASE ~ \E k \in DOMAIN workers : workers[k] = t
  <2>1. workers' = Append(workers, t)
    BY <1>2 DEF WarmUp
  <2>2. /\ workers' \in Seq(Threads)
        /\ Len(workers') = Len(workers) + 1
        /\ \A k \in 1..Len(workers) : workers'[k] = workers[k]
        /\ workers'[Len(workers) + 1] = t
    BY <2>1, AppendProperties
  <2>3. /\ DOMAIN workers = 1..Len(workers) /\ Len(workers) \in Nat
        /\ DOMAIN workers' = 1..(Len(workers) + 1)
    BY <2>2, SeqFacts
  <2>4. Len(workers) + 1 \in DOMAIN workers' /\ \A k \in DOMAIN workers : k \in DOMAIN workers'
    BY <2>3
  <2> QED BY <2>2, <2>3, <2>4
<1> QED BY <1>1, <1>2

(* A command at the end of the buffer of a worker.                         *)
RecordedLast(t, last, cmd) ==
  /\ \A s \in Threads : \A k, o, d :
       CmdAt(s, k, o, d)' <=>
         \/ CmdAt(s, k, o, d)
         \/ s = t /\ k = last /\ cmd.op = o /\ cmd.e = d
  /\ \A k, o, d : CmdAt(t, k, o, d) => k \in 1..(last - 1)

LEMMA RecordStep ==
  ASSUME BuffersOK, NEW t \in Threads, NEW cmd \in Commands, WarmUp(t),
         cmd_buffer' = [cmd_buffer EXCEPT ![t] = Append(@, cmd)],
         NEW last, last = Len(cmd_buffer[t]) + 1,
         phase' = phase, pre_allocated' \in [Threads -> Seq(Entity)],
         issued' \subseteq Entity, issued \subseteq issued', cmd.e \in issued',
         cmd.op # "destroy" => cmd.values \in Bundles
  PROVE  BuffersOK' /\ RecordedLast(t, last, cmd)
<1>1. /\ cmd_buffer' \in [Threads -> Seq(Commands)]
      /\ last \in Nat \ {0}
      /\ DOMAIN cmd_buffer[t] = 1..(last - 1)
      /\ DOMAIN cmd_buffer'[t] = 1..last
      /\ cmd_buffer'[t][last] = cmd
      /\ \A k \in DOMAIN cmd_buffer[t] : cmd_buffer'[t][k] = cmd_buffer[t][k]
      /\ \A s \in Threads : s # t => cmd_buffer'[s] = cmd_buffer[s]
  BY CommandRecorded
<1>2. RecordedLast(t, last, cmd)
  <2>1. PICK b : b = cmd_buffer[t]
    OBVIOUS
  <2>2. b \in Seq(Commands)
    BY <2>1 DEF BuffersOK
  <2>3. /\ \A k, o, d : InBuffer(Append(b, cmd), k, o, d) <=>
             InBuffer(b, k, o, d) \/ (k = last /\ cmd.op = o /\ cmd.e = d)
        /\ \A k, o, d : InBuffer(b, k, o, d) => k \in 1..(last - 1)
    BY <2>1, <2>2, AppendedAt
  <2>4. cmd_buffer'[t] = Append(b, cmd)
    BY <2>1 DEF BuffersOK
  <2> QED BY <1>1, <2>1, <2>3, <2>4 DEF CmdAt, RecordedLast
<1>3. BuffersOK'
  <2>1. /\ workers' \in Seq(Threads)
        /\ \E k \in DOMAIN workers' : workers'[k] = t
        /\ \A s \in Threads : (\E k \in DOMAIN workers : workers[k] = s) =>
             \E k \in DOMAIN workers' : workers'[k] = s
    BY WarmUpFacts DEF BuffersOK
  <2>2. \A s \in Threads : cmd_buffer'[s] # << >> => \E k \in DOMAIN workers' : workers'[k] = s
    BY <1>1, <2>1 DEF BuffersOK
  <2>3. ASSUME NEW s \in Threads, NEW k \in DOMAIN cmd_buffer'[s]
        PROVE  /\ cmd_buffer'[s][k].e \in issued'
               /\ cmd_buffer'[s][k].op # "destroy" => cmd_buffer'[s][k].values \in Bundles
    <3>1. CASE s = t /\ k = last
      BY <1>1, <3>1
    <3>2. CASE s = t /\ k # last
      <4>1. k \in DOMAIN cmd_buffer[s] /\ cmd_buffer'[s][k] = cmd_buffer[s][k]
        BY <1>1, <3>2
      <4> QED BY <4>1 DEF BuffersOK
    <3>3. CASE s # t
      BY <1>1, <3>3 DEF BuffersOK
    <3> QED BY <3>1, <3>2, <3>3
  <2> QED BY <1>1, <2>1, <2>2, <2>3 DEF BuffersOK
<1> QED BY <1>2, <1>3

(* try_destroy and the others, recorded.                                   *)
LEMMA RecordOnKeeps ==
  ASSUME Careful, CInv, NEW t \in Threads, NEW e \in Entity,
         NEW op, op \in Ops \cup {"destroy"},
         NEW values, values \in Bundles \/ (op = "destroy" /\ values = NoValues),
         RecordOn(t, e, op, values)
  PROVE  CInv'
<1>a. PICK last : last = Len(cmd_buffer[t]) + 1
  OBVIOUS
<1>1. PICK cmd : cmd = [op |-> op, e |-> e, values |-> values]
  OBVIOUS
<1>2. /\ e \in issued
      /\ op = "destroy" => CarefulDestroy(e, {t})
      /\ WarmUp(t)
      /\ cmd_buffer' = [cmd_buffer EXCEPT ![t] = Append(@, cmd)]
      /\ UNCHANGED phase /\ UNCHANGED worldVars
      /\ UNCHANGED <<pre_allocated, issued>>
  BY <1>1 DEF RecordOn, Record
<1>3. /\ cmd \in Commands
      /\ cmd.op = op /\ cmd.e = e /\ cmd.values = values
      /\ op # "create"
      /\ op # "destroy" => values \in Bundles
  BY <1>1, CmdAssumption DEF Commands
<1>4. BuffersOK /\ workers \in Seq(Threads) /\ IInv /\ NoSingletons(archetypes)
  BY DEF CInv, BuffersOK
<1>5. IInv' /\ NoSingletons(archetypes)' /\ Moves({}, {})
  BY <1>2, <1>4, NobodyMoves
<1>6. BuffersOK' /\ RecordedLast(t, last, cmd)
  <2>1. /\ pre_allocated' \in [Threads -> Seq(Entity)]
        /\ issued' \subseteq Entity /\ issued \subseteq issued' /\ cmd.e \in issued'
        /\ cmd.op # "destroy" => cmd.values \in Bundles
    BY <1>2, <1>3, <1>4 DEF BuffersOK
  <2> QED BY <1>a, <1>2, <1>3, <1>4, <2>1, RecordStep
<1>7. /\ \A s \in Threads : \A k, o, d :
           CmdAt(s, k, o, d)' <=>
             \/ CmdAt(s, k, o, d)
             \/ s = t /\ k = last /\ cmd.op = o /\ cmd.e = d
      /\ \A k, o, d : CmdAt(t, k, o, d) => k \in 1..(last - 1)
  BY <1>6 DEF RecordedLast
<1>8. \A s \in Threads : \A k, d : CmdAt(s, k, "create", d)' <=> CmdAt(s, k, "create", d)
  BY <1>3, <1>7
<1>9. PromisedOnce'
  BY <1>2, <1>8 DEF CInv, PromisedOnce
<1>10. PromisedSpare'
  <2>1. \A i : Spare(i) => Spare(i)'
    BY <1>5 DEF Moves
  <2> QED BY <1>2, <1>8, <2>1 DEF CInv, PromisedSpare
<1>11. DestroysFind'
  <2>1. ASSUME NEW s \in Threads, NEW k, NEW d \in Entity, CmdAt(s, k, "destroy", d)
        PROVE  /\ Exists(entities', d) \/ \E j \in 1..(k - 1) : CmdAt(s, j, "create", d)'
               /\ ~ (op = "destroy" /\ e = d)
               /\ \A u \in Threads : \A j : CmdAt(u, j, "destroy", d) => u = s /\ j = k
    <3>1. op = "destroy" => e # d
      BY <1>2, <2>1, RecordedFacts DEF CarefulDestroy, Careful
    <3> QED BY <1>5, <1>8, <2>1, <3>1 DEF CInv, DestroysFind, Moves
  <2>2. ASSUME op = "destroy"
        PROVE  /\ Exists(entities', e) \/ \E j \in 1..(last - 1) : CmdAt(t, j, "create", e)'
               /\ \A u \in Threads : \A j : ~ CmdAt(u, j, "destroy", e)
    <3>1. /\ \A u \in Threads : \A j : ~ CmdAt(u, j, "destroy", e)
          /\ Exists(entities, e) \/ \E j : CmdAt(t, j, "create", e)
      BY <1>2, <2>2, RecordedFacts DEF CarefulDestroy, Careful
    <3> QED BY <1>5, <1>7, <1>8, <3>1 DEF Moves
  <2>3. SUFFICES ASSUME NEW s \in Threads, NEW k, NEW d \in Entity, CmdAt(s, k, "destroy", d)'
                 PROVE  /\ Exists(entities', d) \/ \E j \in 1..(k - 1) : CmdAt(s, j, "create", d)'
                        /\ \A u \in Threads : \A j : CmdAt(u, j, "destroy", d)' => u = s /\ j = k
    BY DEF DestroysFind
  <2>4. CASE CmdAt(s, k, "destroy", d)
    BY <1>3, <1>7, <2>1, <2>4
  <2>5. CASE s = t /\ k = last /\ op = "destroy" /\ e = d
    BY <1>3, <1>7, <2>2, <2>5
  <2> QED BY <1>3, <1>7, <2>3, <2>4, <2>5
<1>12. VersionsRise'
  <2>1. ASSUME NEW g \in issued
        PROVE  /\ g.idx \in DOMAIN entities'
               /\ entities'[g.idx].has_value \/ IsFree(g.idx)' =>
                    g.version <= entities'[g.idx].version
    BY <1>5 DEF CInv, VersionsRise, Moves
  <2>2. \A d \in Entity : Exists(entities', d) => d \in issued
    BY <1>5 DEF CInv, VersionsRise, Moves
  <2> QED BY <1>2, <1>8, <2>1, <2>2 DEF CInv, VersionsRise
<1> QED BY <1>5, <1>6, <1>9, <1>10, <1>11, <1>12 DEF CInv

(* The handles in the queues after a step, against the commands and the    *)
(* handles issued before it.                                               *)
QueuesKept ==
  /\ pre_allocated' \in [Threads -> Seq(Entity)]
  /\ \A s, u \in Threads : \A j \in DOMAIN pre_allocated'[s], k \in DOMAIN pre_allocated'[u] :
       pre_allocated'[s][j].idx = pre_allocated'[u][k].idx => s = u /\ j = k
  /\ \A s, u \in Threads : \A j \in DOMAIN pre_allocated'[s] : \A k : \A e \in Entity :
       CmdAt(u, k, "create", e) => pre_allocated'[s][j].idx # e.idx
  /\ (\A s \in Threads : \A k \in DOMAIN pre_allocated[s] :
       Spare(pre_allocated[s][k].idx))'
  /\ \A g \in issued : \A s \in Threads : \A k \in DOMAIN pre_allocated'[s] :
       pre_allocated'[s][k].idx = g.idx => g.version < pre_allocated'[s][k].version

(* The queue of a worker is what is left of its handout.                   *)
LEMMA QueueKeeps ==
  ASSUME CInv, NEW t \in Threads, Moves({}, {}), NEW hs, Handout(t, hs),
         NEW rest \in Seq(Entity), NEW off \in Nat,
         \A k \in DOMAIN rest : k + off \in DOMAIN hs /\ rest[k] = hs[k + off],
         pre_allocated' = [pre_allocated EXCEPT ![t] = rest]
  PROVE  QueuesKept
<1>1. /\ pre_allocated \in [Threads -> Seq(Entity)]
      /\ pre_allocated'[t] = rest
      /\ \A s \in Threads : s # t => pre_allocated'[s] = pre_allocated[s]
      /\ pre_allocated' \in [Threads -> Seq(Entity)]
  BY DEF CInv, BuffersOK
<1>2. \A k \in DOMAIN rest : k \in Nat
  BY SeqFacts
<1>3. ASSUME NEW s \in Threads, NEW j \in DOMAIN pre_allocated'[s],
             NEW d, d = pre_allocated'[s][j]
      PROVE  /\ \A u \in Threads : \A k : \A e \in Entity : CmdAt(u, k, "create", e) => d.idx # e.idx
             /\ Spare(d.idx)'
             /\ \A g \in issued : d.idx = g.idx => g.version < d.version
  <2>1. CASE s = t
    <3>1. j + off \in DOMAIN hs /\ d = hs[j + off]
      BY <1>1, <1>3, <2>1
    <3> QED BY <3>1 DEF Handout
  <2>2. CASE s # t
    <3>1. j \in DOMAIN pre_allocated[s] /\ d = pre_allocated[s][j]
      BY <1>1, <1>3, <2>2
    <3>2. \A u \in Threads : \A k : \A e \in Entity : CmdAt(u, k, "create", e) => d.idx # e.idx
      BY <3>1 DEF CInv, PromisedOnce
    <3>3. Spare(d.idx)'
      BY <3>1 DEF CInv, PromisedSpare, Moves
    <3>4. \A g \in issued : d.idx = g.idx => g.version < d.version
      BY <3>1 DEF CInv, VersionsRise
    <3> QED BY <3>2, <3>3, <3>4
  <2> QED BY <2>1, <2>2
<1>4. ASSUME NEW s \in Threads, NEW u \in Threads,
             NEW j \in DOMAIN pre_allocated'[s], NEW k \in DOMAIN pre_allocated'[u],
             pre_allocated'[s][j].idx = pre_allocated'[u][k].idx
      PROVE  s = u /\ j = k
  <2>1. CASE s = t /\ u = t
    <3>1. /\ j + off \in DOMAIN hs /\ rest[j] = hs[j + off]
          /\ k + off \in DOMAIN hs /\ rest[k] = hs[k + off]
      BY <1>1, <2>1
    <3>2. j + off = k + off
      BY <1>1, <1>4, <2>1, <3>1 DEF Handout
    <3>3. j \in Nat /\ k \in Nat
      BY <1>1, <1>2, <2>1
    <3> QED BY <2>1, <3>2, <3>3
  <2>2. CASE s = t /\ u # t
    <3>1. /\ j + off \in DOMAIN hs /\ rest[j] = hs[j + off]
          /\ k \in DOMAIN pre_allocated[u] /\ pre_allocated'[u][k] = pre_allocated[u][k]
      BY <1>1, <2>2
    <3> QED BY <1>1, <1>4, <2>2, <3>1 DEF Handout
  <2>3. CASE s # t /\ u = t
    <3>1. /\ k + off \in DOMAIN hs /\ rest[k] = hs[k + off]
          /\ j \in DOMAIN pre_allocated[s] /\ pre_allocated'[s][j] = pre_allocated[s][j]
      BY <1>1, <2>3
    <3> QED BY <1>1, <1>4, <2>3, <3>1 DEF Handout
  <2>4. CASE s # t /\ u # t
    BY <1>1, <1>4, <2>4 DEF CInv, PromisedOnce
  <2> QED BY <2>1, <2>2, <2>3, <2>4
<1>5. (\A s \in Threads : \A k \in DOMAIN pre_allocated[s] : Spare(pre_allocated[s][k].idx))'
  BY <1>3
<1>6. \A s, u \in Threads : \A j \in DOMAIN pre_allocated'[s] : \A k : \A e \in Entity :
        CmdAt(u, k, "create", e) => pre_allocated'[s][j].idx # e.idx
  BY <1>3
<1>7. \A g \in issued : \A s \in Threads : \A k \in DOMAIN pre_allocated'[s] :
        pre_allocated'[s][k].idx = g.idx => g.version < pre_allocated'[s][k].version
  BY <1>3
<1> QED BY <1>1, <1>4, <1>5, <1>6, <1>7 DEF QueuesKept

(* A create that fails leaves its handles in the queue.                    *)
LEMMA CreateFailsKeeps ==
  ASSUME CInv, NEW t \in Threads, CreateFails(t)
  PROVE  CInv' /\ Moves({}, {})
<1>1. PICK hs : hs = Handles(t)
  OBVIOUS
<1>2. /\ WarmUp(t) /\ PreAllocate(t)
      /\ pre_allocated' = [pre_allocated EXCEPT ![t] = hs]
      /\ UNCHANGED <<archetypes, tick, phase, cmd_buffer, issued>>
  BY <1>1 DEF CreateFails
<1>3. IInv' /\ NoSingletons(archetypes)' /\ Moves({}, {}) /\ Handout(t, hs)
  BY <1>1, <1>2, HandlesStep
<1>4. hs \in Seq(Entity) /\ \A k \in DOMAIN hs : k + 0 \in DOMAIN hs /\ hs[k] = hs[k + 0]
  <2>1. hs \in Seq(Entity)
    BY <1>3 DEF Handout
  <2>2. \A k \in DOMAIN hs : k + 0 = k
    BY <2>1, SeqFacts
  <2> QED BY <2>1, <2>2
<1>5. QueuesKept
  BY <1>2, <1>3, <1>4, QueueKeeps
<1>6. \A s, k, o, d : CmdAt(s, k, o, d)' <=> CmdAt(s, k, o, d)
  BY <1>2 DEF CmdAt
<1>7. BuffersOK'
  <2>1. workers \in Seq(Threads)
    BY DEF CInv, BuffersOK
  <2>2. /\ workers' \in Seq(Threads)
        /\ \A s \in Threads : (\E k \in DOMAIN workers : workers[k] = s) =>
             \E k \in DOMAIN workers' : workers'[k] = s
    BY <1>2, <2>1, WarmUpFacts
  <2> QED BY <1>2, <1>5, <2>2 DEF CInv, BuffersOK, QueuesKept
<1>8. PromisedOnce'
  <2>1. \A s, u \in Threads : \A j, k : \A d, e \in Entity :
          CmdAt(s, j, "create", d)' /\ CmdAt(u, k, "create", e)' /\ d.idx = e.idx => s = u /\ j = k
    BY <1>6 DEF CInv, PromisedOnce
  <2>2. \A s, u \in Threads : \A j \in DOMAIN pre_allocated'[s] : \A k : \A e \in Entity :
          CmdAt(u, k, "create", e)' => pre_allocated'[s][j].idx # e.idx
    BY <1>5, <1>6 DEF QueuesKept
  <2> QED BY <1>5, <2>1, <2>2 DEF PromisedOnce, QueuesKept
<1>9. PromisedSpare'
  <2>1. \A s \in Threads : \A k : \A e \in Entity : CmdAt(s, k, "create", e)' => Spare(e.idx)'
    BY <1>3, <1>6 DEF CInv, PromisedSpare, Moves
  <2> QED BY <1>5, <2>1 DEF PromisedSpare, QueuesKept
<1>10. DestroysFind'
  BY <1>3, <1>6 DEF CInv, DestroysFind, Moves
<1>11. VersionsRise'
  <2>1. ASSUME NEW g \in issued
        PROVE  /\ g.idx \in DOMAIN entities'
               /\ entities'[g.idx].has_value \/ IsFree(g.idx)' =>
                    g.version <= entities'[g.idx].version
               /\ \A s \in Threads : \A k : \A e \in Entity :
                    CmdAt(s, k, "create", e)' /\ e.idx = g.idx /\ e # g => g.version < e.version
    BY <1>3, <1>6 DEF CInv, VersionsRise, Moves
  <2>2. \A d \in Entity : Exists(entities', d) => d \in issued
    BY <1>3 DEF CInv, VersionsRise, Moves
  <2> QED BY <1>2, <1>5, <2>1, <2>2 DEF VersionsRise, QueuesKept
<1> QED BY <1>3, <1>7, <1>8, <1>9, <1>10, <1>11 DEF CInv

(* A create that goes on takes the first handle, which is a new one.       *)
LEMMA RecordCreateHandle ==
  ASSUME CInv, NEW t \in Threads, NEW values, RecordCreate(t, values),
         NEW hs, hs = Handles(t), NEW e, e = Head(hs)
  PROVE  /\ IInv' /\ NoSingletons(archetypes)' /\ Moves({}, {}) /\ Handout(t, hs)
         /\ 1 \in DOMAIN hs /\ e = hs[1] /\ e \in Entity
         /\ Tail(hs) \in Seq(Entity)
         /\ \A k \in DOMAIN Tail(hs) : k + 1 \in DOMAIN hs /\ Tail(hs)[k] = hs[k + 1] /\ k \in Nat \ {0}
         /\ e \notin issued
<1>1. PreAllocate(t) /\ UNCHANGED <<archetypes, tick>> /\ ~ PreAllocationFails(t)
  BY DEF RecordCreate
<1>2. IInv' /\ NoSingletons(archetypes)' /\ Moves({}, {}) /\ Handout(t, hs)
  BY <1>1, HandlesStep
<1>3. hs \in Seq(Entity)
  BY <1>2 DEF Handout
<1>4. hs # << >>
  <2>1. CASE pre_allocated[t] # << >>
    BY <2>1 DEF Handles
  <2>2. CASE pre_allocated[t] = << >>
    <3>1. ~ (Len(hs) < PreAllocatedAmount) /\ PreAllocatedAmount \in Nat \ {0}
      BY <1>1, <2>2, CmdAssumption DEF PreAllocationFails
    <3>2. Len(hs) # 0
      BY <1>3, <3>1
    <3> QED BY <3>2
  <2> QED BY <2>1, <2>2
<1>5. /\ Len(hs) \in Nat /\ Len(hs) > 0
      /\ DOMAIN hs = 1..Len(hs)
      /\ \A k \in DOMAIN hs : hs[k] \in Entity
      /\ Head(hs) = hs[1]
      /\ Tail(hs) \in Seq(Entity)
      /\ DOMAIN Tail(hs) = 1..(Len(hs) - 1)
      /\ \A k \in DOMAIN Tail(hs) : Tail(hs)[k] = hs[k + 1]
  BY <1>3, <1>4, SeqFacts
<1>6. 1 \in DOMAIN hs /\ \A k \in DOMAIN Tail(hs) : k + 1 \in DOMAIN hs /\ k \in Nat \ {0}
  BY <1>5
<1>7. e \notin issued
  <2>1. e \in issued => e.version < e.version
    BY <1>2, <1>5, <1>6 DEF Handout
  <2>2. e \in Entity
    BY <1>5, <1>6
  <2>3. e.version \in Int
    BY <2>2 DEF Entity
  <2> QED BY <2>1, <2>3
<1> QED BY <1>2, <1>5, <1>6, <1>7

(* Its command is the last of the buffer then.                             *)
LEMMA RecordCreateRecords ==
  ASSUME CInv, NEW t \in Threads, NEW values \in Bundles, RecordCreate(t, values),
         NEW last, last = Len(cmd_buffer[t]) + 1,
         NEW e, e = Head(Handles(t)),
         NEW cmd \in Commands, cmd.op = "create", cmd.e = e, cmd.values = values,
         cmd_buffer' = [cmd_buffer EXCEPT ![t] = Append(@, cmd)]
  PROVE  QueuesKept /\ BuffersOK' /\ RecordedLast(t, last, cmd)
<1>b. PICK hs : hs = Handles(t)
  OBVIOUS
<1>1. /\ Moves({}, {}) /\ Handout(t, hs) /\ e \in Entity
      /\ Tail(hs) \in Seq(Entity)
      /\ \A k \in DOMAIN Tail(hs) : k + 1 \in DOMAIN hs /\ Tail(hs)[k] = hs[k + 1]
  BY <1>b, RecordCreateHandle
<1>2. /\ WarmUp(t)
      /\ phase' = phase
      /\ pre_allocated' = [pre_allocated EXCEPT ![t] = Tail(hs)]
      /\ issued' = issued \cup {e}
  BY <1>b DEF RecordCreate, Record
<1>3. QueuesKept
  BY <1>1, <1>2, QueueKeeps
<1>4. BuffersOK' /\ RecordedLast(t, last, cmd)
  <2>1. BuffersOK /\ pre_allocated' \in [Threads -> Seq(Entity)]
    BY <1>3 DEF CInv, QueuesKept
  <2>2. issued' \subseteq Entity /\ issued \subseteq issued' /\ cmd.e \in issued'
    BY <1>1, <1>2, <2>1 DEF BuffersOK
  <2>3. (cmd.op # "destroy" => cmd.values \in Bundles) /\ WarmUp(t) /\ phase' = phase
    BY <1>2
  <2> QED BY <2>1, <2>2, <2>3, RecordStep
<1> QED BY <1>3, <1>4

LEMMA RecordCreateKeeps ==
  ASSUME CInv, NEW t \in Threads, NEW values \in Bundles, RecordCreate(t, values)
  PROVE  CInv'
<1>a. PICK last : last = Len(cmd_buffer[t]) + 1
  OBVIOUS
<1>b. PICK hs : hs = Handles(t)
  OBVIOUS
<1>c. PICK e : e = Head(hs)
  OBVIOUS
<1>d. PICK cmd : cmd = [op |-> "create", e |-> e, values |-> values]
  OBVIOUS
<1>1. /\ IInv' /\ NoSingletons(archetypes)' /\ Moves({}, {}) /\ Handout(t, hs)
      /\ 1 \in DOMAIN hs /\ e = hs[1] /\ e \in Entity
      /\ Tail(hs) \in Seq(Entity)
      /\ \A k \in DOMAIN Tail(hs) : k + 1 \in DOMAIN hs /\ Tail(hs)[k] = hs[k + 1] /\ k \in Nat \ {0}
      /\ e \notin issued
  BY <1>b, <1>c, RecordCreateHandle
<1>2. /\ cmd_buffer' = [cmd_buffer EXCEPT ![t] = Append(@, cmd)]
      /\ pre_allocated' = [pre_allocated EXCEPT ![t] = Tail(hs)]
      /\ issued' = issued \cup {e}
  BY <1>b, <1>c, <1>d DEF RecordCreate, Record
<1>3. cmd \in Commands /\ cmd.op = "create" /\ cmd.e = e /\ cmd.values = values
  BY <1>1, <1>d DEF Commands
<1>4. QueuesKept /\ BuffersOK' /\ RecordedLast(t, last, cmd)
  <2>1. e = Head(Handles(t)) /\ cmd_buffer' = [cmd_buffer EXCEPT ![t] = Append(@, cmd)]
    BY <1>b, <1>c, <1>2
  <2> QED BY <1>a, <1>3, <2>1, RecordCreateRecords
<1>5. \A s \in Threads : \A k \in DOMAIN pre_allocated'[s] : pre_allocated'[s][k].idx # e.idx
  <2>1. pre_allocated \in [Threads -> Seq(Entity)]
    BY DEF CInv, BuffersOK
  <2>2. SUFFICES ASSUME NEW s \in Threads, NEW k \in DOMAIN pre_allocated'[s],
                        pre_allocated'[s][k].idx = e.idx
                 PROVE  FALSE
    OBVIOUS
  <2>3. CASE s = t
    <3>1. pre_allocated'[s] = Tail(hs)
      BY <1>2, <2>1, <2>3
    <3>2. k + 1 \in DOMAIN hs /\ hs[k + 1].idx = hs[1].idx /\ k \in Nat \ {0}
      BY <1>1, <2>2, <3>1
    <3>3. k + 1 = 1
      BY <1>1, <3>2 DEF Handout
    <3> QED BY <3>2, <3>3
  <2>4. CASE s # t
    <3>1. k \in DOMAIN pre_allocated[s] /\ pre_allocated[s][k].idx = hs[1].idx
      BY <1>1, <1>2, <2>1, <2>2, <2>4
    <3> QED BY <1>1, <2>4, <3>1 DEF Handout
  <2> QED BY <2>3, <2>4
<1>6. /\ \A s \in Threads : \A k, d :
           CmdAt(s, k, "create", d)' <=>
             \/ CmdAt(s, k, "create", d)
             \/ s = t /\ k = last /\ d = e
      /\ \A s \in Threads : \A k, d : CmdAt(s, k, "destroy", d)' <=> CmdAt(s, k, "destroy", d)
  <2>1. \A s \in Threads : \A k, o, d :
          CmdAt(s, k, o, d)' <=>
            \/ CmdAt(s, k, o, d)
            \/ s = t /\ k = last /\ cmd.op = o /\ cmd.e = d
    BY <1>4 DEF RecordedLast
  <2> QED BY <1>3, <2>1
<1>7. /\ Spare(e.idx)'
      /\ \A s \in Threads : \A j : \A d \in Entity : CmdAt(s, j, "create", d) => d.idx # e.idx
      /\ \A g \in issued : g.idx = e.idx => g.version < e.version
  BY <1>1 DEF Handout
<1>8. PromisedOnce'
  <2>1. \A s, u \in Threads : \A j, k : \A c, d \in Entity :
          CmdAt(s, j, "create", c)' /\ CmdAt(u, k, "create", d)' /\ c.idx = d.idx => s = u /\ j = k
    <3>1. SUFFICES ASSUME NEW s \in Threads, NEW u \in Threads, NEW j, NEW k,
                          NEW c \in Entity, NEW d \in Entity,
                          CmdAt(s, j, "create", c)', CmdAt(u, k, "create", d)', c.idx = d.idx
                   PROVE  s = u /\ j = k
      OBVIOUS
    <3>2. CASE CmdAt(s, j, "create", c) /\ CmdAt(u, k, "create", d)
      BY <3>1, <3>2 DEF CInv, PromisedOnce
    <3>3. CASE ~ CmdAt(s, j, "create", c)
      BY <1>6, <1>7, <3>1, <3>3
    <3>4. CASE ~ CmdAt(u, k, "create", d)
      BY <1>6, <1>7, <3>1, <3>4
    <3> QED BY <3>2, <3>3, <3>4
  <2>2. \A s, u \in Threads : \A j \in DOMAIN pre_allocated'[s] : \A k : \A d \in Entity :
          CmdAt(u, k, "create", d)' => pre_allocated'[s][j].idx # d.idx
    BY <1>4, <1>5, <1>6 DEF QueuesKept
  <2> QED BY <1>4, <2>1, <2>2 DEF PromisedOnce, QueuesKept
<1>9. PromisedSpare'
  <2>1. \A i : Spare(i) => Spare(i)'
    BY <1>1 DEF Moves
  <2>2. ASSUME NEW s \in Threads, NEW k, NEW d \in Entity, CmdAt(s, k, "create", d)'
        PROVE  Spare(d.idx)'
    BY <1>6, <1>7, <2>1, <2>2 DEF CInv, PromisedSpare
  <2> QED BY <1>4, <2>2 DEF PromisedSpare, QueuesKept
<1>10. DestroysFind'
  <2>1. SUFFICES ASSUME NEW s \in Threads, NEW k, NEW d \in Entity, CmdAt(s, k, "destroy", d)'
                 PROVE  /\ Exists(entities', d) \/ \E j \in 1..(k - 1) : CmdAt(s, j, "create", d)'
                        /\ \A u \in Threads : \A j : CmdAt(u, j, "destroy", d)' => u = s /\ j = k
    BY DEF DestroysFind
  <2>2. /\ Exists(entities, d) \/ \E j \in 1..(k - 1) : CmdAt(s, j, "create", d)
        /\ \A u \in Threads : \A j : CmdAt(u, j, "destroy", d) => u = s /\ j = k
    BY <1>6, <2>1 DEF CInv, DestroysFind
  <2> QED BY <1>1, <1>6, <2>2 DEF Moves
<1>11. VersionsRise'
  <2>1. ASSUME NEW g \in issued
        PROVE  /\ g.idx \in DOMAIN entities'
               /\ entities'[g.idx].has_value \/ IsFree(g.idx)' =>
                    g.version <= entities'[g.idx].version
               /\ \A s \in Threads : \A k : \A d \in Entity :
                    CmdAt(s, k, "create", d) /\ d.idx = g.idx /\ d # g => g.version < d.version
    BY <1>1 DEF CInv, VersionsRise, Moves
  <2>2. \A d \in Entity : Exists(entities', d) => d \in issued
    BY <1>1 DEF CInv, VersionsRise, Moves
  <2>3. ASSUME NEW g \in issued
        PROVE  \A s \in Threads : \A k : \A d \in Entity :
                 CmdAt(s, k, "create", d)' /\ d.idx = g.idx /\ d # g => g.version < d.version
    BY <1>6, <1>7, <2>1
  <2>4. /\ e.idx \in DOMAIN entities'
        /\ ~ entities'[e.idx].has_value /\ ~ IsFree(e.idx)'
        /\ \A s \in Threads : \A k : \A d \in Entity :
             CmdAt(s, k, "create", d)' /\ d.idx = e.idx => d = e
    BY <1>6, <1>7 DEF Spare
  <2> QED BY <1>2, <1>4, <1>5, <2>1, <2>2, <2>3, <2>4 DEF VersionsRise, QueuesKept
<1> QED BY <1>1, <1>4, <1>8, <1>9, <1>10, <1>11 DEF CInv
----------------------------------------------------------------------------
(* A sync point.                                                           *)

(* The order of the numbers, as a relation.                                *)
LessThan == {pair \in Nat \X Nat : pair[1] < pair[2]}

(* A set of numbers that is not empty has a least one.                     *)
LEMMA LeastNumber ==
  ASSUME NEW N \in SUBSET Nat, N # {}
  PROVE  \E k \in N : \A n \in N : k <= n
<1>1. IsWellFoundedOn(LessThan, Nat)
  BY NatLessThanWellFounded, Zenon DEF OpToRel, LessThan
<1>2. PICK k \in N : \A n \in N : ~ (<<n, k>> \in LessThan)
  BY <1>1, WFMin
<1>3. ASSUME NEW n \in N PROVE k <= n
  <2>1. ~ (<<n, k>> \in LessThan) /\ n \in Nat /\ k \in Nat
    BY <1>2
  <2> QED BY <2>1 DEF LessThan
<1> QED BY <1>3

(* There is a next command while any is waiting.                           *)
LEMMA CurrentFacts ==
  ASSUME BuffersOK, Waiting # {}, NEW t, t = Current
  PROVE  t \in Threads /\ cmd_buffer[t] # << >>
<1>1. DOMAIN workers = 1..Len(workers) /\ \A k \in DOMAIN workers : workers[k] \in Threads
  BY SeqFacts DEF BuffersOK
<1>2. Waiting \in SUBSET Nat /\ Waiting \subseteq DOMAIN workers
  BY <1>1 DEF Waiting
<1>3. \E k \in Waiting : \A j \in Waiting : k <= j
  BY <1>2, LeastNumber
<1>4. PICK k : k = CHOOSE i \in Waiting : \A j \in Waiting : i <= j
  OBVIOUS
<1>5. k \in Waiting
  BY <1>3, <1>4
<1>6. t = workers[k]
  BY <1>4 DEF Current
<1> QED BY <1>1, <1>2, <1>5, <1>6 DEF Waiting

(* Nobody is disturbed by the command that is run but the one it names.    *)
LEMMA RunKeeps ==
  ASSUME CInv, NEW t \in Threads, cmd_buffer[t] # << >>,
         cmd_buffer' = [cmd_buffer EXCEPT ![t] = Tail(@)],
         NEW o, NEW e, InBuffer(cmd_buffer[t], 1, o, e), e \in issued,
         UNCHANGED <<workers, pre_allocated, issued>>,
         phase' \in {"main", "parallel", "flush"},
         IInv', NoSingletons(archetypes)',
         NEW gone, gone = IF o = "destroy" THEN {e} ELSE {},
         NEW made, made = IF o = "create" THEN {e} ELSE {},
         Moves(gone, made)
  PROVE  CInv'
<1>a. BuffersOK /\ e \in Entity
  BY DEF CInv, BuffersOK
<1>1. CmdAt(t, 1, o, e)
  BY DEF CmdAt
<1>2. PICK b : b = cmd_buffer[t]
  OBVIOUS
<1>3. b \in Seq(Commands) /\ b # << >>
  BY <1>a, <1>2 DEF BuffersOK
<1>4. /\ cmd_buffer'[t] = Tail(b)
      /\ \A s \in Threads : s # t => cmd_buffer'[s] = cmd_buffer[s]
  BY <1>a, <1>2 DEF BuffersOK
<1>5. /\ \A k, p, d : InBuffer(Tail(b), k, p, d) =>
           k \in Nat \ {0} /\ InBuffer(b, k + 1, p, d)
      /\ \A k, p, d : InBuffer(b, k, p, d) =>
           k \in Nat \ {0} /\ (k # 1 => InBuffer(Tail(b), k - 1, p, d))
  BY <1>3, TailAt
<1>6. ASSUME NEW s \in Threads, NEW k, NEW p, NEW d, CmdAt(s, k, p, d)'
      PROVE  \E q : /\ CmdAt(s, q, p, d)
                    /\ s = t => k \in Nat \ {0} /\ q = k + 1
                    /\ s # t => q = k
  <2>1. CASE s = t
    BY <1>2, <1>4, <1>5, <1>6, <2>1 DEF CmdAt
  <2>2. CASE s # t
    BY <1>4, <1>6, <2>2 DEF CmdAt
  <2> QED BY <2>1, <2>2
<1>7. ASSUME NEW s \in Threads, NEW k, NEW p, NEW d, CmdAt(s, k, p, d)
      PROVE  /\ s # t => CmdAt(s, k, p, d)'
             /\ s = t => k \in Nat \ {0} /\ (k # 1 => CmdAt(s, k - 1, p, d)')
  <2>1. CASE s = t
    BY <1>2, <1>4, <1>5, <1>7, <2>1 DEF CmdAt
  <2>2. CASE s # t
    BY <1>4, <1>7, <2>2 DEF CmdAt
  <2> QED BY <2>1, <2>2
<1>8. BuffersOK'
  <2>1. /\ cmd_buffer' \in [Threads -> Seq(Commands)]
        /\ \A k \in DOMAIN cmd_buffer'[t] : /\ k + 1 \in DOMAIN cmd_buffer[t]
                                            /\ cmd_buffer'[t][k] = cmd_buffer[t][k + 1]
    BY <1>a, TakenOff
  <2>2. ASSUME NEW s \in Threads
        PROVE  /\ \A k \in DOMAIN cmd_buffer'[s] :
                    /\ cmd_buffer'[s][k].e \in issued
                    /\ cmd_buffer'[s][k].op # "destroy" => cmd_buffer'[s][k].values \in Bundles
               /\ cmd_buffer'[s] # << >> => \E k \in DOMAIN workers : workers[k] = s
    <3>1. CASE s = t
      BY <1>a, <2>1, <3>1 DEF BuffersOK
    <3>2. CASE s # t
      BY <1>a, <1>4, <3>2 DEF BuffersOK
    <3> QED BY <3>1, <3>2
  <2> QED BY <1>a, <2>1, <2>2 DEF BuffersOK
<1>9. ASSUME NEW s \in Threads, NEW k, NEW d \in Entity, CmdAt(s, k, "create", d)'
      PROVE  \A c \in made : c.idx # d.idx
  <2>1. SUFFICES ASSUME NEW c \in made, c.idx = d.idx PROVE FALSE
    OBVIOUS
  <2>2. c = e /\ CmdAt(t, 1, "create", e)
    BY <1>1, <2>1
  <2>3. PICK q : /\ CmdAt(s, q, "create", d)
                 /\ s = t => k \in Nat \ {0} /\ q = k + 1
    BY <1>6, <1>9
  <2>4. s = t /\ q = 1
    BY <1>a, <2>1, <2>2, <2>3 DEF CInv, PromisedOnce
  <2> QED BY <2>3, <2>4
<1>10. ASSUME NEW s \in Threads, NEW j, NEW c, NEW u \in Threads, NEW k, NEW d, NEW p,
              CmdAt(s, j, p, c)', CmdAt(u, k, p, d)',
              \A i, l : CmdAt(s, i, p, c) /\ CmdAt(u, l, p, d) => s = u /\ i = l
       PROVE  s = u /\ j = k
  <2>1. PICK i : /\ CmdAt(s, i, p, c)
                 /\ s = t => j \in Nat \ {0} /\ i = j + 1
                 /\ s # t => i = j
    BY <1>6, <1>10
  <2>2. PICK l : /\ CmdAt(u, l, p, d)
                 /\ u = t => k \in Nat \ {0} /\ l = k + 1
                 /\ u # t => l = k
    BY <1>6, <1>10
  <2>3. s = u /\ i = l
    BY <1>10, <2>1, <2>2
  <2>4. CASE s = t
    BY <2>1, <2>2, <2>3, <2>4
  <2>5. CASE s # t
    BY <2>1, <2>2, <2>3, <2>5
  <2> QED BY <2>3, <2>4, <2>5
<1>11. PromisedOnce'
  <2>1. ASSUME NEW s \in Threads, NEW u \in Threads, NEW j, NEW k, NEW c \in Entity, NEW d \in Entity,
               CmdAt(s, j, "create", c)', CmdAt(u, k, "create", d)', c.idx = d.idx
        PROVE  s = u /\ j = k
    <3>1. \A i, l : CmdAt(s, i, "create", c) /\ CmdAt(u, l, "create", d) => s = u /\ i = l
      BY <2>1 DEF CInv, PromisedOnce
    <3> QED BY <1>10, <2>1, <3>1
  <2>2. ASSUME NEW s \in Threads, NEW u \in Threads, NEW j \in DOMAIN pre_allocated[s],
               NEW k, NEW d \in Entity, CmdAt(u, k, "create", d)'
        PROVE  pre_allocated[s][j].idx # d.idx
    <3>1. PICK q : CmdAt(u, q, "create", d)
      BY <1>6, <2>2
    <3> QED BY <3>1 DEF CInv, PromisedOnce
  <2>3. \A s, u \in Threads : \A j \in DOMAIN pre_allocated[s], k \in DOMAIN pre_allocated[u] :
          pre_allocated[s][j].idx = pre_allocated[u][k].idx => s = u /\ j = k
    BY DEF CInv, PromisedOnce
  <2> QED BY <2>1, <2>2, <2>3 DEF PromisedOnce
<1>12. PromisedSpare'
  <2>1. ASSUME NEW s \in Threads, NEW k \in DOMAIN pre_allocated[s]
        PROVE  Spare(pre_allocated[s][k].idx)'
    <3>1. Spare(pre_allocated[s][k].idx)
      BY DEF CInv, PromisedSpare
    <3>2. \A c \in made : c.idx # pre_allocated[s][k].idx
      BY <1>1, <1>a DEF CInv, PromisedOnce
    <3>3. PICK i : i = pre_allocated[s][k].idx
      OBVIOUS
    <3>4. Spare(i)'
      BY <3>1, <3>2, <3>3 DEF Moves
    <3> QED BY <3>3, <3>4
  <2>2. ASSUME NEW s \in Threads, NEW k, NEW d \in Entity, CmdAt(s, k, "create", d)'
        PROVE  Spare(d.idx)'
    <3>1. PICK q : CmdAt(s, q, "create", d)
      BY <1>6, <2>2
    <3>2. Spare(d.idx)
      BY <3>1 DEF CInv, PromisedSpare
    <3> QED BY <1>9, <2>2, <3>2 DEF Moves
  <2> QED BY <2>1, <2>2 DEF PromisedSpare
<1>13. DestroysFind'
  <2>1. SUFFICES ASSUME NEW s \in Threads, NEW k, NEW d \in Entity, CmdAt(s, k, "destroy", d)'
                 PROVE  /\ Exists(entities', d) \/ \E j \in 1..(k - 1) : CmdAt(s, j, "create", d)'
                        /\ \A u \in Threads : \A j : CmdAt(u, j, "destroy", d)' => u = s /\ j = k
    BY DEF DestroysFind
  <2>2. PICK q : /\ CmdAt(s, q, "destroy", d)
                 /\ s = t => k \in Nat \ {0} /\ q = k + 1
                 /\ s # t => q = k
    BY <1>6, <2>1
  <2>3. /\ Exists(entities, d) \/ \E j \in 1..(q - 1) : CmdAt(s, j, "create", d)
        /\ \A u \in Threads : \A j : CmdAt(u, j, "destroy", d) => u = s /\ j = q
    BY <2>2 DEF CInv, DestroysFind
  <2>4. d \notin gone
    <3>1. SUFFICES ASSUME o = "destroy", d = e PROVE FALSE
      OBVIOUS
    <3>2. t = s /\ 1 = q
      BY <1>1, <2>3, <3>1
    <3> QED BY <2>2, <3>2
  <2>5. Exists(entities', d) \/ \E j \in 1..(k - 1) : CmdAt(s, j, "create", d)'
    <3>1. CASE Exists(entities, d)
      BY <2>4, <3>1 DEF Moves
    <3>2. ASSUME NEW j \in 1..(q - 1), CmdAt(s, j, "create", d), s # t
          PROVE  \E i \in 1..(k - 1) : CmdAt(s, i, "create", d)'
      BY <1>7, <2>2, <3>2
    <3>3. ASSUME NEW j \in 1..(q - 1), CmdAt(s, j, "create", d), s = t, j # 1
          PROVE  \E i \in 1..(k - 1) : CmdAt(s, i, "create", d)'
      <4>1. CmdAt(s, j - 1, "create", d)'
        BY <1>7, <3>3
      <4>2. j - 1 \in 1..(k - 1)
        BY <2>2, <3>3
      <4> QED BY <4>1, <4>2
    <3>4. ASSUME CmdAt(s, 1, "create", d), s = t
          PROVE  Exists(entities', d)
      <4>1. o = "create" /\ e = d
        BY <1>1, <3>4 DEF CmdAt, InBuffer
      <4> QED BY <4>1 DEF Moves
    <3> QED BY <2>3, <3>1, <3>2, <3>3, <3>4
  <2>6. ASSUME NEW u \in Threads, NEW j, CmdAt(u, j, "destroy", d)' PROVE u = s /\ j = k
    <3>1. \A i, l : CmdAt(u, i, "destroy", d) /\ CmdAt(s, l, "destroy", d) => u = s /\ i = l
      BY <2>3
    <3> QED BY <1>10, <2>1, <2>6, <3>1
  <2> QED BY <2>5, <2>6
<1>14. VersionsRise'
  <2>1. ASSUME NEW g \in issued
        PROVE  /\ g.idx \in DOMAIN entities'
               /\ entities'[g.idx].has_value \/ IsFree(g.idx)' =>
                    g.version <= entities'[g.idx].version
    <3>1. /\ g.idx \in DOMAIN entities
          /\ entities[g.idx].has_value \/ IsFree(g.idx) => g.version <= entities[g.idx].version
      BY DEF CInv, VersionsRise
    <3>2. CASE \A c \in made : c.idx # g.idx
      BY <3>1, <3>2 DEF Moves
    <3>3. CASE \E c \in made : c.idx = g.idx
      <4>1. e \in made /\ e.idx = g.idx /\ CmdAt(t, 1, "create", e)
        BY <1>1, <3>3
      <4>2. entities'[g.idx].version = e.version
        BY <4>1 DEF Moves
      <4>3. g = e \/ g.version < e.version
        BY <1>a, <4>1 DEF CInv, VersionsRise
      <4>4. g.version \in Int /\ e.version \in Int
        BY <1>a DEF BuffersOK, Entity
      <4> QED BY <3>1, <4>2, <4>3, <4>4 DEF Moves
    <3> QED BY <3>2, <3>3
  <2>2. ASSUME NEW g \in issued, NEW s \in Threads, NEW k, NEW d \in Entity,
               CmdAt(s, k, "create", d)', d.idx = g.idx, d # g
        PROVE  g.version < d.version
    <3>1. PICK q : CmdAt(s, q, "create", d)
      BY <1>6, <2>2
    <3> QED BY <2>2, <3>1 DEF CInv, VersionsRise
  <2>3. \A d \in Entity : Exists(entities', d) => d \in issued
    BY DEF CInv, VersionsRise, Moves
  <2>4. \A g \in issued : \A s \in Threads : \A k \in DOMAIN pre_allocated[s] :
          pre_allocated[s][k].idx = g.idx => g.version < pre_allocated[s][k].version
    BY DEF CInv, VersionsRise
  <2> QED BY <2>1, <2>2, <2>3, <2>4 DEF VersionsRise
<1> QED BY <1>8, <1>11, <1>12, <1>13, <1>14 DEF CInv

(* The command that is next runs, and does what it says: of careful        *)
(* callers no create and no destroy fails.                                 *)
LEMMA RunStep ==
  ASSUME CInv, RunCmd, NEW t, t = Current, NEW o, o = NextCmd.op, NEW e, e = NextCmd.e,
         NEW gone, gone = IF o = "destroy" THEN {e} ELSE {},
         NEW made, made = IF o = "create" THEN {e} ELSE {}
  PROVE  /\ t \in Threads /\ cmd_buffer[t] # << >>
         /\ cmd_buffer' = [cmd_buffer EXCEPT ![t] = Tail(@)]
         /\ InBuffer(cmd_buffer[t], 1, o, e) /\ e \in issued /\ e \in Entity
         /\ UNCHANGED <<workers, pre_allocated, issued>>
         /\ IInv' /\ NoSingletons(archetypes)'
         /\ Moves(gone, made)
         /\ o = "destroy" => Exists(entities, e)
         /\ o \in {"create", "destroy"} => phase' = "flush"
         /\ phase' \in {"main", "parallel", "flush"}
<1>a. IInv /\ NoSingletons(archetypes) /\ BuffersOK
  BY DEF CInv
<1>1. t \in Threads /\ cmd_buffer[t] # << >>
  BY <1>a, CurrentFacts DEF RunCmd
<1>2. PICK b, cmd, values : b = cmd_buffer[t] /\ cmd = NextCmd /\ values = NextCmd.values
  OBVIOUS
<1>3. b \in Seq(Commands) /\ b # << >>
  BY <1>a, <1>1, <1>2 DEF BuffersOK
<1>4. 1 \in DOMAIN b /\ cmd = b[1] /\ cmd = Head(b)
  BY <1>2, <1>3, SeqFacts DEF NextCmd
<1>5. /\ o = cmd.op /\ e = cmd.e /\ values = cmd.values
      /\ e \in issued /\ e \in Entity
      /\ o # "destroy" => values \in Bundles
  BY <1>a, <1>1, <1>2, <1>4 DEF BuffersOK
<1>6. InBuffer(b, 1, o, e)
  BY <1>4, <1>5 DEF InBuffer
<1>7. CmdAt(t, 1, o, e)
  BY <1>2, <1>6 DEF CmdAt
<1>8. /\ \/ o = "create" /\ RunCreate(e, values)
         \/ o = "destroy" /\ RunDestroy(e)
         \/ o \in Ops /\ RunCall(o, e, values)
      /\ cmd_buffer' = [cmd_buffer EXCEPT ![t] = Tail(@)]
      /\ UNCHANGED <<workers, pre_allocated, issued>>
  BY <1>2 DEF RunCmd
<1>9. CASE o = "create" /\ RunCreate(e, values)
  <2>1. Spare(e.idx)
    BY <1>1, <1>5, <1>7, <1>9 DEF CInv, PromisedSpare
  <2>2. values \in Bundles
    BY <1>5, <1>9
  <2>3. IInv' /\ NoSingletons(archetypes)' /\ SlotFilled(e) /\ Goes
    BY <1>a, <1>5, <1>9, <2>1, <2>2, RunCreateFills
  <2>4. Moves({}, {e})
    BY <1>a, <1>5, <2>3, FillMoves
  <2>5. gone = {} /\ made = {e}
    BY <1>9
  <2> QED BY <1>1, <1>2, <1>5, <1>6, <1>8, <1>9, <2>3, <2>4, <2>5 DEF Goes
<1>10. CASE o = "destroy" /\ RunDestroy(e)
  <2>1. Exists(entities, e)
    <3>1. ~ \E j \in 1..(1 - 1) : CmdAt(t, j, "create", e)
      OBVIOUS
    <3> QED BY <1>1, <1>5, <1>7, <1>10, <3>1 DEF CInv, DestroysFind
  <2>2. TryDestroy(e) /\ Goes
    BY <1>10, <2>1 DEF RunDestroy
  <2>3. IInv' /\ NoSingletons(archetypes)' /\ SlotErased(e)
    BY <1>a, <1>5, <2>2, TryDestroyErases
  <2>4. Moves({e}, {})
    BY <1>a, <1>5, <2>3, EraseMoves
  <2>5. gone = {e} /\ made = {}
    BY <1>10
  <2> QED BY <1>1, <1>2, <1>5, <1>6, <1>8, <1>10, <2>1, <2>2, <2>3, <2>4, <2>5 DEF Goes
<1>11. CASE o \in Ops /\ RunCall(o, e, values)
  <2>1. o # "create" /\ o # "destroy"
    BY <1>11, CmdAssumption
  <2>2. values \in Bundles
    BY <1>5, <2>1
  <2>3. phase' \in {"main", "parallel", "flush"}
    BY <1>11 DEF RunCall, Goes, Panics
  <2>4. IInv' /\ NoSingletons(archetypes)' /\ Moves({}, {})
    <3>1. CASE Call(o, e, values)
      <4>1. IInv' /\ NoSingletons(archetypes)' /\ SlotsStay
        BY <1>a, <1>5, <2>2, <3>1, CallStep
      <4> QED BY <1>a, <4>1, StayMoves
    <3>2. CASE UNCHANGED worldVars
      BY <1>a, <3>2, NobodyMoves
    <3> QED BY <1>11, <3>1, <3>2 DEF RunCall
  <2>5. gone = {} /\ made = {}
    BY <2>1
  <2> QED BY <1>1, <1>2, <1>5, <1>6, <1>8, <2>1, <2>3, <2>4, <2>5
<1> QED BY <1>8, <1>9, <1>10, <1>11

LEMMA RunCmdKeeps ==
  ASSUME CInv, RunCmd
  PROVE  CInv'
<1>1. PICK t, o, e : t = Current /\ o = NextCmd.op /\ e = NextCmd.e
  OBVIOUS
<1>2. PICK gone, made : /\ gone = IF o = "destroy" THEN {e} ELSE {}
                        /\ made = IF o = "create" THEN {e} ELSE {}
  OBVIOUS
<1>3. /\ t \in Threads /\ cmd_buffer[t] # << >>
      /\ cmd_buffer' = [cmd_buffer EXCEPT ![t] = Tail(@)]
      /\ InBuffer(cmd_buffer[t], 1, o, e) /\ e \in issued
      /\ UNCHANGED <<workers, pre_allocated, issued>>
      /\ IInv' /\ NoSingletons(archetypes)'
      /\ Moves(gone, made)
      /\ phase' \in {"main", "parallel", "flush"}
  BY <1>1, <1>2, RunStep
<1> QED BY <1>2, <1>3, RunKeeps
----------------------------------------------------------------------------
(* The inductive invariant.                                                *)

(* set_in_parallel_compute, and the ends of a sync point.                  *)
LEMMA PhaseKeeps ==
  ASSUME CInv, UNCHANGED <<worldVars, workers, pre_allocated, cmd_buffer, issued>>,
         phase' \in {"main", "parallel", "flush"}
  PROVE  CInv'
<1>1. IInv' /\ NoSingletons(archetypes)' /\ Moves({}, {})
  BY NobodyMoves DEF CInv
<1>2. issued' = issued \cup {}
  OBVIOUS
<1> QED BY <1>1, <1>2, MainKeeps

LEMMA CmdInitHolds == CmdInit => CInv
<1> SUFFICES ASSUME CmdInit PROVE CInv
  OBVIOUS
<1>1. IInv
  BY InitIInv DEF CmdInit
<1>2. NoSingletons(archetypes)
  BY DEF CmdInit, Init, NoSingletons
<1>3. /\ phase = "main" /\ workers = << >> /\ issued = {}
      /\ pre_allocated = [t \in Threads |-> << >>]
      /\ cmd_buffer = [t \in Threads |-> << >>]
      /\ entities = << >>
  BY DEF CmdInit, Init
<1>4. BuffersOK
  BY <1>3 DEF BuffersOK
<1>5. \A t \in Threads : /\ DOMAIN pre_allocated[t] = {}
                         /\ \A k, o, e : ~ CmdAt(t, k, o, e)
  BY <1>3 DEF CmdAt, InBuffer
<1>6. \A e : ~ Exists(entities, e)
  BY <1>3 DEF Exists
<1> QED BY <1>1, <1>2, <1>3, <1>4, <1>5, <1>6
        DEF CInv, PromisedOnce, PromisedSpare, DestroysFind, VersionsRise

LEMMA CmdStep ==
  ASSUME Careful, CInv, [CmdNext]_allVars
  PROVE  CInv'
<1>1. CASE MainThread
  BY <1>1, MainThreadKeeps
<1>2. ASSUME NEW val \in BOOLEAN, SetInParallelCompute(val) PROVE CInv'
  BY <1>2, PhaseKeeps DEF SetInParallelCompute
<1>3. ASSUME NEW t \in Threads, Worker(t) PROVE CInv'
  <2>1. ASSUME NEW values \in Bundles, RecordCreate(t, values) PROVE CInv'
    BY <2>1, RecordCreateKeeps
  <2>2. CASE CreateFails(t)
    BY <2>2, CreateFailsKeeps
  <2>3. ASSUME NEW e \in Entity, RecordOn(t, e, "destroy", NoValues) PROVE CInv'
    BY <2>3, RecordOnKeeps
  <2>4. ASSUME NEW e \in Entity, NEW op \in Ops, NEW values \in Bundles, RecordOn(t, e, op, values)
        PROVE  CInv'
    BY <2>4, RecordOnKeeps
  <2> QED BY <1>3, <2>1, <2>2, <2>3, <2>4 DEF Worker
<1>4. CASE SyncPoint
  BY <1>4, PhaseKeeps DEF SyncPoint
<1>5. CASE RunCmd
  BY <1>5, RunCmdKeeps
<1>6. CASE Flushed
  BY <1>6, PhaseKeeps DEF Flushed
<1>7. CASE UNCHANGED allVars
  <2>1. phase' = phase /\ UNCHANGED <<worldVars, workers, pre_allocated, cmd_buffer, issued>>
    BY <1>7 DEF allVars, cmdVars, worldVars
  <2>2. phase' \in {"main", "parallel", "flush"}
    BY <2>1 DEF CInv, BuffersOK
  <2> QED BY <2>1, <2>2, PhaseKeeps
<1> QED BY <1>1, <1>2, <1>3, <1>4, <1>5, <1>6, <1>7 DEF CmdNext

(* Careful callers: every reachable state satisfies the invariant.         *)
THEOREM CmdInvariant == Careful => (CmdSpec => []CInv)
<1> SUFFICES ASSUME Careful PROVE CmdSpec => []CInv
  OBVIOUS
<1>1. CInv /\ [CmdNext]_allVars => CInv'
  BY CmdStep
<1> QED BY <1>1, CmdInitHolds, PTL DEF CmdSpec
----------------------------------------------------------------------------
(* What the invariant says of the buffers and of the slots.                *)

(* Who waits for the create that is recorded.                              *)
LEMMA PendingFacts ==
  /\ \A d : d \in Pending <=> d \in issued /\ \E s \in Threads : \E k : CmdAt(s, k, "create", d)
  /\ (\A d : d \in Pending <=> d \in issued /\ \E s \in Threads : \E k : CmdAt(s, k, "create", d))'
BY DEF Pending, Recorded, CmdAt, InBuffer

(* worker_spec.rs: the buffers hold commands on handles that were issued,  *)
(* and only registered threads have any.                                   *)
THEOREM CmdTypeCorrect == Careful => (CmdSpec => []CmdTypeOK)
<1> SUFFICES ASSUME Careful PROVE CmdSpec => []CmdTypeOK
  OBVIOUS
<1>1. CInv => CmdTypeOK
  BY DEF CInv, BuffersOK, CmdTypeOK
<1> QED BY <1>1, CmdInvariant, PTL

(* A slot is live, free, in a worker's queue or promised to one recorded   *)
(* create, and never two of them.                                          *)
THEOREM SlotsHaveOneHolder == Careful => (CmdSpec => []OneHolder)
<1> SUFFICES ASSUME Careful PROVE CmdSpec => []OneHolder
  OBVIOUS
<1>1. CInv => OneHolder
  <2> SUFFICES ASSUME CInv PROVE OneHolder
    OBVIOUS
  <2>1. /\ \A j, k \in DOMAIN free_entities : free_entities[j] = free_entities[k] => j = k
        /\ \A k \in DOMAIN free_entities : ~ entities[free_entities[k]].has_value
    BY DEF CInv, IInv, FreeSlots
  <2>2. \A s, t \in Threads : \A j \in DOMAIN pre_allocated[s], k \in DOMAIN pre_allocated[t] :
          pre_allocated[s][j].idx = pre_allocated[t][k].idx => s = t /\ j = k
    BY DEF CInv, PromisedOnce
  <2>3. ASSUME NEW i \in DOMAIN entities, NEW pending, pending = {e \in Pending : e.idx = i}
        PROVE  /\ ~ (InUse(i) /\ IsFree(i))
               /\ Pooled(i) => ~ InUse(i) /\ ~ IsFree(i) /\ pending = {}
               /\ pending # {} => ~ InUse(i) /\ ~ IsFree(i) /\ Cardinality(pending) = 1
    <3>1. ~ (InUse(i) /\ IsFree(i))
      BY <2>1 DEF InUse, IsFree
    <3>2. ASSUME NEW e \in pending
          PROVE  \E s \in Threads : \E k : CmdAt(s, k, "create", e) /\ e.idx = i /\ e \in Entity
      BY <2>3, PendingFacts DEF CInv, BuffersOK
    <3>3. ASSUME Pooled(i)
          PROVE  ~ InUse(i) /\ ~ IsFree(i) /\ pending = {}
      <4>1. PICK t \in Threads : \E k \in DOMAIN pre_allocated[t] : pre_allocated[t][k].idx = i
        BY <3>3 DEF Pooled
      <4>2. Spare(i)
        BY <4>1 DEF CInv, PromisedSpare
      <4>3. pending = {}
        BY <3>2, <4>1 DEF CInv, PromisedOnce
      <4> QED BY <4>2, <4>3 DEF Spare, InUse
    <3>4. ASSUME pending # {}
          PROVE  ~ InUse(i) /\ ~ IsFree(i) /\ Cardinality(pending) = 1
      <4>1. PICK e : e \in pending
        BY <3>4
      <4>2. PICK s, k : s \in Threads /\ CmdAt(s, k, "create", e) /\ e.idx = i /\ e \in Entity
        BY <3>2, <4>1
      <4>3. Spare(i)
        BY <4>2 DEF CInv, PromisedSpare
      <4>4. ASSUME NEW d \in pending PROVE d = e
        <5>1. PICK u, j : u \in Threads /\ CmdAt(u, j, "create", d) /\ d.idx = i /\ d \in Entity
          BY <3>2
        <5>2. u = s /\ j = k
          BY <4>2, <5>1 DEF CInv, PromisedOnce
        <5> QED BY <4>2, <5>1, <5>2 DEF CmdAt, InBuffer
      <4>5. pending = {e}
        BY <4>1, <4>4
      <4>6. Cardinality(pending) = 1
        BY <4>5, FS_Singleton
      <4> QED BY <4>3, <4>6 DEF Spare, InUse
    <3> QED BY <3>1, <3>3, <3>4
  <2> QED BY <2>1, <2>2, <2>3 DEF OneHolder
<1> QED BY <1>1, CmdInvariant, PTL

(* get_unchecked's promise outlives commands: specs and rows name each     *)
(* other whatever was recorded where.                                      *)
THEOREM CmdRowsMatch == Careful => (CmdSpec => []RowsMatchSpecs)
<1> SUFFICES ASSUME Careful PROVE CmdSpec => []RowsMatchSpecs
  OBVIOUS
<1>1. CInv => RowsMatchSpecs
  BY RowsMatch DEF CInv
<1> QED BY <1>1, CmdInvariant, PTL

(* The steps there are inside a sync point.                                *)
LEMMA FlushStep ==
  ASSUME CInv, phase = "flush", [CmdNext]_allVars
  PROVE  \/ RunCmd
         \/ Waiting = {} /\ UNCHANGED worldVars
         \/ phase' = phase /\ UNCHANGED worldVars
<1>1. ~ MainThread /\ ~ SyncPoint /\ \A val \in BOOLEAN : ~ SetInParallelCompute(val)
  BY DEF MainThread, SyncPoint, SetInParallelCompute
<1>2. \A t \in Threads : ~ Worker(t)
  BY DEF Worker, RecordCreate, RecordOn, CreateFails, Record
<1>3. Flushed => Waiting = {} /\ UNCHANGED worldVars
  BY DEF Flushed
<1>4. UNCHANGED allVars => phase' = phase /\ UNCHANGED worldVars
  BY DEF allVars, cmdVars, worldVars
<1> QED BY <1>1, <1>2, <1>3, <1>4 DEF CmdNext

(* flush_cmd: no create and no destroy of careful callers panics, whatever *)
(* order the workers registered in and whatever failed before.             *)
THEOREM CarefulNeverFails == Careful => (CmdSpec => NoneFails)
<1> SUFFICES ASSUME Careful PROVE CmdSpec => NoneFails
  OBVIOUS
<1>1. ASSUME CInv, [CmdNext]_allVars, phase = "flush", phase' = "main", Waiting # {}
      PROVE  NextCmd.op \in Ops
  <2>1. RunCmd
    BY <1>1, FlushStep
  <2>2. PICK t, o, e : t = Current /\ o = NextCmd.op /\ e = NextCmd.e
    OBVIOUS
  <2>3. PICK gone, made : /\ gone = IF o = "destroy" THEN {e} ELSE {}
                          /\ made = IF o = "create" THEN {e} ELSE {}
    OBVIOUS
  <2>4. o \in {"create", "destroy"} => phase' = "flush"
    BY <1>1, <2>1, <2>2, <2>3, RunStep
  <2> QED BY <1>1, <2>1, <2>2, <2>4 DEF RunCmd
<1>2. CInv /\ [CmdNext]_allVars =>
        [phase = "flush" /\ phase' = "main" /\ Waiting # {} => NextCmd.op \in Ops]_allVars
  BY <1>1
<1> QED BY <1>2, CmdInvariant, PTL DEF CmdSpec, NoneFails

(* "A stale Entity never points at the entity that took its slot"          *)
(* (xynok_ecs_overview.md:28): a sync point destroys nobody but the entity *)
(* a destroy names.                                                        *)
THEOREM DestroysOnlyNamed == Careful => (CmdSpec => OnlyNamedDestroyed)
<1> SUFFICES ASSUME Careful PROVE CmdSpec => OnlyNamedDestroyed
  OBVIOUS
<1>1. ASSUME CInv, [CmdNext]_allVars
      PROVE  phase = "flush" =>
               \A e \in Live : ~ Exists(entities', e) =>
                 NextCmd.op = "destroy" /\ NextCmd.e = e
  <2> SUFFICES ASSUME phase = "flush", NEW d \in Live, ~ Exists(entities', d)
               PROVE  NextCmd.op = "destroy" /\ NextCmd.e = d
    OBVIOUS
  <2>1. d \in Entity /\ Exists(entities, d)
    BY <1>1 DEF Live
  <2>2. ~ UNCHANGED worldVars
    BY <1>1, <2>1 DEF worldVars, vars
  <2>3. RunCmd
    BY <1>1, <2>2, FlushStep
  <2>4. PICK t, o, e : t = Current /\ o = NextCmd.op /\ e = NextCmd.e
    OBVIOUS
  <2>5. PICK gone, made : /\ gone = IF o = "destroy" THEN {e} ELSE {}
                          /\ made = IF o = "create" THEN {e} ELSE {}
    OBVIOUS
  <2>6. Moves(gone, made)
    BY <1>1, <2>3, <2>4, <2>5, RunStep
  <2>7. d \in gone
    BY <1>1, <2>1, <2>6 DEF Moves
  <2> QED BY <2>4, <2>5, <2>7
<1> QED BY <1>1, CmdInvariant, PTL DEF CmdSpec, OnlyNamedDestroyed

(* "never reissued" (entity.rs): where no singleton is registered,         *)
(* the handle a recorded create gives out is new.                          *)
THEOREM HandlesAreNew == Careful => (CmdSpec => NeverReissued)
<1> SUFFICES ASSUME Careful PROVE CmdSpec => NeverReissued
  OBVIOUS
<1>1. ASSUME CInv, NEW t \in Threads, NEW values \in Bundles, RecordCreate(t, values)
      PROVE  Head(Handles(t)) \notin issued
  <2>1. PICK hs : hs = Handles(t)
    OBVIOUS
  <2>2. PICK e : e = Head(hs)
    OBVIOUS
  <2>3. e \notin issued
    BY <1>1, <2>1, <2>2, RecordCreateHandle
  <2> QED BY <2>1, <2>2, <2>3
<1>2. CInv => [\A t \in Threads, values \in Bundles :
                 RecordCreate(t, values) => Head(Handles(t)) \notin issued]_allVars
  BY <1>1
<1> QED BY <1>2, CmdInvariant, PTL DEF CmdSpec, NeverReissued
----------------------------------------------------------------------------
(* The life of a handle.                                                   *)

LEMMA ChangeFacts ==
  ASSUME NEW e \in Entity, NEW from, NEW to,
         StatusOf(e) = from, StatusOf(e)' = to,
         \A d \in Entity : d # e => StatusOf(d)' = StatusOf(d)
  PROVE  Lifecycle!Change(e, from, to)
<1>1. [d \in Entity |-> StatusOf(d)]' = [[d \in Entity |-> StatusOf(d)] EXCEPT ![e] = to]
  OBVIOUS
<1> QED BY <1>1 DEF Lifecycle!Change

(* What the invariant says of who is pending and who is alive.             *)
LEMMA StatusFacts ==
  ASSUME CInv
  PROVE  /\ \A d \in Pending : d \in issued /\ ~ Exists(entities, d)
         /\ \A d \in Entity : Exists(entities, d) => d \in issued
         /\ \A d : d \in Pending <=>
              d \in issued /\ \E s \in Threads : \E k : CmdAt(s, k, "create", d)
<1>1. ASSUME NEW d \in Pending PROVE d \in issued /\ ~ Exists(entities, d)
  <2>1. d \in issued /\ d \in Entity
    BY PendingFacts DEF CInv, BuffersOK
  <2>2. Spare(d.idx)
    BY <2>1, PendingFacts DEF CInv, PromisedSpare
  <2>3. entities \in Seq(EntitySpecs)
    BY DEF CInv, IInv, WorldOK
  <2> QED BY <2>1, <2>2, <2>3, ExistsAt DEF Spare
<1> QED BY <1>1, PendingFacts DEF CInv, VersionsRise

(* A step that leaves the commands alone.                                  *)
LEMMA PendingStays ==
  ASSUME issued \subseteq issued', cmd_buffer' = cmd_buffer,
         \A t \in Threads : \A k \in DOMAIN cmd_buffer[t] : cmd_buffer[t][k].e \in issued
  PROVE  \A d : (d \in Pending)' <=> d \in Pending
<1>1. \A s, k, o, d : CmdAt(s, k, o, d)' <=> CmdAt(s, k, o, d)
  BY DEF CmdAt
<1>2. \A s \in Threads : \A k, d : CmdAt(s, k, "create", d) => d \in issued
  BY DEF CmdAt, InBuffer
<1> QED BY <1>1, <1>2, PendingFacts

(* Nobody is issued, and nobody comes to life or dies.                     *)
LEMMA NothingChanges ==
  ASSUME Moves({}, {}), issued' = issued, \A d : (d \in Pending)' <=> d \in Pending
  PROVE  \A d \in Entity : StatusOf(d)' = StatusOf(d)
BY DEF Moves, StatusOf

(* What the main thread does, it does to one handle in one step.           *)
LEMMA MainThreadMaps ==
  ASSUME Careful, CInv, MainThread
  PROVE  \/ \A d \in Entity : StatusOf(d)' = StatusOf(d)
         \/ \E e \in Entity : Lifecycle!Destroy(e) \/ Lifecycle!Create(e)
<1>1. PICK gone, made : MainMoves(gone, made)
  BY MainThreadStep
<1>2. /\ Moves(gone, made)
      /\ issued' = issued \cup made
  BY <1>1 DEF MainMoves
<1>3. \A d : (d \in Pending)' <=> d \in Pending
  <2>1. issued \subseteq issued' /\ cmd_buffer' = cmd_buffer
    BY <1>2 DEF MainThread
  <2>2. \A t \in Threads : \A k \in DOMAIN cmd_buffer[t] : cmd_buffer[t][k].e \in issued
    BY DEF CInv, BuffersOK
  <2> QED BY <2>1, <2>2, PendingStays
<1>4. CASE gone = {} /\ made = {}
  BY <1>2, <1>3, <1>4, NothingChanges
<1>5. ASSUME made = {}, NEW e \in Entity, gone = {e}, Exists(entities, e)
      PROVE  Lifecycle!Destroy(e)
  <2>1. e \in issued /\ e \notin Pending
    BY <1>5, StatusFacts
  <2>2. StatusOf(e) = "live" /\ StatusOf(e)' = "dead"
    BY <1>2, <1>3, <1>5, <2>1 DEF Moves, StatusOf
  <2>3. \A d \in Entity : d # e => StatusOf(d)' = StatusOf(d)
    BY <1>2, <1>3, <1>5 DEF Moves, StatusOf
  <2> QED BY <2>2, <2>3, ChangeFacts DEF Lifecycle!Destroy, Lifecycle!Live, Lifecycle!Dead
<1>6. ASSUME gone = {}, NEW e \in Entity, made = {e},
             \A g \in issued : g.idx = e.idx => g.version < e.version
      PROVE  Lifecycle!Create(e)
  <2>1. e \notin issued
    <3>1. e.version \in Int
      BY DEF Entity
    <3> QED BY <1>6, <3>1
  <2>2. StatusOf(e) = "unissued" /\ StatusOf(e)' = "live"
    BY <1>2, <1>6, <2>1 DEF Moves, StatusOf
  <2>3. \A d \in Entity : d # e => StatusOf(d)' = StatusOf(d)
    BY <1>2, <1>3, <1>6 DEF Moves, StatusOf
  <2> QED BY <2>2, <2>3, ChangeFacts DEF Lifecycle!Create, Lifecycle!Unissued, Lifecycle!Live
<1> QED BY <1>1, <1>4, <1>5, <1>6 DEF MainMoves

(* A recorded create issues its handle.                                    *)
LEMMA RecordCreateMaps ==
  ASSUME CInv, NEW t \in Threads, NEW values \in Bundles, RecordCreate(t, values)
  PROVE  \E e \in Entity : Lifecycle!Issue(e)
<1>a. PICK last, hs : last = Len(cmd_buffer[t]) + 1 /\ hs = Handles(t)
  OBVIOUS
<1>b. PICK e : e = Head(hs)
  OBVIOUS
<1>c. PICK cmd : cmd = [op |-> "create", e |-> e, values |-> values]
  OBVIOUS
<1>1. Moves({}, {}) /\ e \in Entity /\ e \notin issued
  BY <1>a, <1>b, RecordCreateHandle
<1>2. /\ cmd_buffer' = [cmd_buffer EXCEPT ![t] = Append(@, cmd)]
      /\ issued' = issued \cup {e}
  BY <1>a, <1>b, <1>c DEF RecordCreate, Record
<1>3. cmd \in Commands /\ cmd.op = "create" /\ cmd.e = e /\ cmd.values = values
  BY <1>1, <1>c DEF Commands
<1>4. \A s \in Threads : \A k, d :
        CmdAt(s, k, "create", d)' <=>
          \/ CmdAt(s, k, "create", d)
          \/ s = t /\ k = last /\ d = e
  <2>0. e = Head(Handles(t)) /\ last = Len(cmd_buffer[t]) + 1
    BY <1>a, <1>b
  <2>1. RecordedLast(t, last, cmd)
    BY <1>2, <1>3, <2>0, RecordCreateRecords
  <2>2. \A s \in Threads : \A k, o, d :
          CmdAt(s, k, o, d)' <=>
            \/ CmdAt(s, k, o, d)
            \/ s = t /\ k = last /\ cmd.op = o /\ cmd.e = d
    BY <2>1 DEF RecordedLast
  <2> QED BY <1>3, <2>2
<1>5. \A d : (d \in Pending)' <=> d \in Pending \/ d = e
  <2>1. \A d : d \in Pending <=> d \in issued /\ \E s \in Threads : \E k : CmdAt(s, k, "create", d)
    BY PendingFacts
  <2>2. \A d : (d \in Pending)' <=> d \in issued' /\ \E s \in Threads : \E k : CmdAt(s, k, "create", d)'
    BY PendingFacts
  <2>3. \A s \in Threads : \A k, d : CmdAt(s, k, "create", d) => d \in issued
    BY DEF CInv, BuffersOK, CmdAt, InBuffer
  <2> QED BY <1>2, <1>4, <2>1, <2>2, <2>3
<1>6. ~ Exists(entities, e)
  BY <1>1, StatusFacts
<1>7. StatusOf(e) = "unissued" /\ StatusOf(e)' = "pending"
  BY <1>1, <1>2, <1>5, <1>6 DEF Moves, StatusOf
<1>8. \A d \in Entity : d # e => StatusOf(d)' = StatusOf(d)
  BY <1>1, <1>2, <1>5 DEF Moves, StatusOf
<1>9. Lifecycle!Issue(e)
  BY <1>1, <1>7, <1>8, ChangeFacts DEF Lifecycle!Issue, Lifecycle!Unissued, Lifecycle!Pending
<1> QED BY <1>1, <1>9

(* A command writes the handle of its create, or ends the life it destroys. *)
LEMMA RunCmdMaps ==
  ASSUME CInv, RunCmd
  PROVE  \/ \A d \in Entity : StatusOf(d)' = StatusOf(d)
         \/ \E e \in Entity : Lifecycle!Destroy(e) \/ Lifecycle!Write(e)
<1>a. PICK t, o, e : t = Current /\ o = NextCmd.op /\ e = NextCmd.e
  OBVIOUS
<1>b. PICK gone, made : /\ gone = IF o = "destroy" THEN {e} ELSE {}
                        /\ made = IF o = "create" THEN {e} ELSE {}
  OBVIOUS
<1>1. /\ t \in Threads /\ cmd_buffer[t] # << >>
      /\ cmd_buffer' = [cmd_buffer EXCEPT ![t] = Tail(@)]
      /\ InBuffer(cmd_buffer[t], 1, o, e) /\ e \in issued /\ e \in Entity
      /\ issued' = issued
      /\ Moves(gone, made)
      /\ o = "destroy" => Exists(entities, e)
  BY <1>a, <1>b, RunStep
<1>2. PICK b : b = cmd_buffer[t]
  OBVIOUS
<1>3. cmd_buffer \in [Threads -> Seq(Commands)]
  BY DEF CInv, BuffersOK
<1>4. /\ cmd_buffer'[t] = Tail(b)
      /\ \A s \in Threads : s # t => cmd_buffer'[s] = cmd_buffer[s]
  BY <1>1, <1>2, <1>3
<1>5. /\ \A k, p, d : InBuffer(Tail(b), k, p, d) =>
           k \in Nat \ {0} /\ InBuffer(b, k + 1, p, d)
      /\ \A k, p, d : InBuffer(b, k, p, d) =>
           k \in Nat \ {0} /\ (k # 1 => InBuffer(Tail(b), k - 1, p, d))
  BY <1>1, <1>2, <1>3, TailAt
<1>6. CmdAt(t, 1, o, e) /\ \A d : CmdAt(t, 1, "create", d) => o = "create" /\ d = e
  BY <1>1 DEF CmdAt, InBuffer
<1>7. \A d : d \in Pending <=> d \in issued /\ \E s \in Threads : \E k : CmdAt(s, k, "create", d)
  BY PendingFacts
<1>8. \A d : (d \in Pending)' <=> d \in issued' /\ \E s \in Threads : \E k : CmdAt(s, k, "create", d)'
  BY PendingFacts
<1>9. ASSUME NEW d, (d \in Pending)'
      PROVE  d \in Pending /\ (o = "create" => d # e)
  <2>1. PICK s, k : s \in Threads /\ CmdAt(s, k, "create", d)'
    BY <1>8, <1>9
  <2>2. \E q : CmdAt(s, q, "create", d) /\ (s = t => q # 1)
    <3>1. CASE s = t
      <4>1. k \in Nat \ {0} /\ InBuffer(b, k + 1, "create", d)
        BY <1>4, <1>5, <2>1, <3>1 DEF CmdAt
      <4>2. k + 1 # 1
        BY <4>1
      <4> QED BY <1>2, <3>1, <4>1, <4>2 DEF CmdAt
    <3>2. CASE s # t
      BY <1>4, <2>1, <3>2 DEF CmdAt
    <3> QED BY <3>1, <3>2
  <2>3. PICK q : CmdAt(s, q, "create", d) /\ (s = t => q # 1)
    BY <2>2
  <2>4. d \in Pending
    BY <1>1, <1>7, <1>8, <1>9, <2>1, <2>3
  <2>5. ASSUME o = "create", d = e PROVE FALSE
    <3>1. s = t /\ q = 1
      BY <1>1, <1>6, <2>1, <2>3, <2>5 DEF CInv, PromisedOnce
    <3> QED BY <2>3, <3>1
  <2> QED BY <2>4, <2>5
<1>10. ASSUME NEW d \in Pending, ~ (o = "create" /\ d = e)
       PROVE  (d \in Pending)'
  <2>1. PICK s, k : s \in Threads /\ CmdAt(s, k, "create", d)
    BY <1>7
  <2>2. \E q : CmdAt(s, q, "create", d)'
    <3>1. CASE s = t
      <4>1. k # 1
        BY <1>6, <1>10, <2>1, <3>1
      <4>2. InBuffer(Tail(b), k - 1, "create", d)
        BY <1>2, <1>5, <2>1, <3>1, <4>1 DEF CmdAt
      <4> QED BY <1>4, <3>1, <4>2 DEF CmdAt
    <3>2. CASE s # t
      BY <1>4, <2>1, <3>2 DEF CmdAt
    <3> QED BY <3>1, <3>2
  <2> QED BY <1>1, <1>7, <1>8, <2>1, <2>2
<1>11. CASE o # "create" /\ o # "destroy"
  <2>1. \A d : (d \in Pending)' <=> d \in Pending
    BY <1>9, <1>10, <1>11
  <2>2. gone = {} /\ made = {}
    BY <1>b, <1>11
  <2> QED BY <1>1, <2>1, <2>2, NothingChanges
<1>12. CASE o = "destroy"
  <2>1. gone = {e} /\ made = {} /\ \A d : (d \in Pending)' <=> d \in Pending
    BY <1>b, <1>9, <1>10, <1>12
  <2>2. Exists(entities, e) /\ e \notin Pending
    BY <1>1, <1>12, StatusFacts
  <2>3. StatusOf(e) = "live" /\ StatusOf(e)' = "dead"
    BY <1>1, <2>1, <2>2 DEF Moves, StatusOf
  <2>4. \A d \in Entity : d # e => StatusOf(d)' = StatusOf(d)
    BY <1>1, <2>1 DEF Moves, StatusOf
  <2>5. Lifecycle!Destroy(e)
    BY <1>1, <2>3, <2>4, ChangeFacts DEF Lifecycle!Destroy, Lifecycle!Live, Lifecycle!Dead
  <2> QED BY <1>1, <2>5
<1>13. CASE o = "create"
  <2>1. gone = {} /\ made = {e}
    BY <1>b, <1>13
  <2>2. e \in Pending /\ ~ Exists(entities, e)
    BY <1>1, <1>6, <1>7, <1>13, StatusFacts
  <2>3. StatusOf(e) = "pending" /\ StatusOf(e)' = "live"
    BY <1>1, <2>1, <2>2 DEF Moves, StatusOf
  <2>4. \A d \in Entity : d # e => ((d \in Pending)' <=> d \in Pending)
    BY <1>9, <1>10
  <2>5. \A d \in Entity : d # e => StatusOf(d)' = StatusOf(d)
    BY <1>1, <2>1, <2>4 DEF Moves, StatusOf
  <2>6. Lifecycle!Write(e)
    BY <1>1, <2>3, <2>5, ChangeFacts DEF Lifecycle!Write, Lifecycle!Pending, Lifecycle!Live
  <2> QED BY <1>1, <2>6
<1> QED BY <1>11, <1>12, <1>13

(* The other steps: no buffer changes, or one that gets no create.         *)
LEMMA QuietSteps ==
  ASSUME CInv, issued' = issued, Moves({}, {}), cmd_buffer' = cmd_buffer
  PROVE  \A d \in Entity : StatusOf(d)' = StatusOf(d)
<1>1. \A t \in Threads : \A k \in DOMAIN cmd_buffer[t] : cmd_buffer[t][k].e \in issued
  BY DEF CInv, BuffersOK
<1>2. \A d : (d \in Pending)' <=> d \in Pending
  BY <1>1, PendingStays
<1> QED BY <1>2, NothingChanges

LEMMA RecordOnMaps ==
  ASSUME CInv, NEW t \in Threads, NEW e \in Entity, NEW op \in Ops \cup {"destroy"},
         NEW values \in Bundles \cup {NoValues}, RecordOn(t, e, op, values)
  PROVE  \A d \in Entity : StatusOf(d)' = StatusOf(d)
<1>1. PICK b : b = cmd_buffer[t]
  OBVIOUS
<1>2. PICK cmd : cmd = [op |-> op, e |-> e, values |-> values]
  OBVIOUS
<1>3. cmd_buffer \in [Threads -> Seq(Commands)] /\ b \in Seq(Commands)
  BY <1>1 DEF CInv, BuffersOK
<1>4. cmd \in Commands /\ cmd.op = op /\ op # "create"
  BY <1>2, CmdAssumption DEF Commands
<1>5. /\ cmd_buffer' = [cmd_buffer EXCEPT ![t] = Append(@, cmd)]
      /\ issued' = issued /\ UNCHANGED worldVars
  BY <1>2 DEF RecordOn, Record
<1>6. /\ cmd_buffer'[t] = Append(b, cmd)
      /\ \A s \in Threads : s # t => cmd_buffer'[s] = cmd_buffer[s]
  BY <1>1, <1>3, <1>5
<1>7. \A k, d : InBuffer(Append(b, cmd), k, "create", d) <=> InBuffer(b, k, "create", d)
  <2>1. PICK last : last = Len(b) + 1
    OBVIOUS
  <2>2. \A k, o, d : InBuffer(Append(b, cmd), k, o, d) <=>
          InBuffer(b, k, o, d) \/ (k = last /\ cmd.op = o /\ cmd.e = d)
    BY <1>3, <1>4, <2>1, AppendedAt
  <2> QED BY <1>4, <2>2
<1>8. \A s \in Threads : \A k, d : CmdAt(s, k, "create", d)' <=> CmdAt(s, k, "create", d)
  BY <1>1, <1>6, <1>7 DEF CmdAt
<1>9. \A d : (d \in Pending)' <=> d \in Pending
  <2>1. \A d : d \in Pending <=> d \in issued /\ \E s \in Threads : \E k : CmdAt(s, k, "create", d)
    BY PendingFacts
  <2>2. \A d : (d \in Pending)' <=> d \in issued' /\ \E s \in Threads : \E k : CmdAt(s, k, "create", d)'
    BY PendingFacts
  <2> QED BY <1>5, <1>8, <2>1, <2>2
<1>10. Moves({}, {})
  BY <1>5, NobodyMoves DEF CInv
<1> QED BY <1>5, <1>9, <1>10, NothingChanges

LEMMA StatusStep ==
  ASSUME Careful, CInv, [CmdNext]_allVars
  PROVE  \/ \A d \in Entity : StatusOf(d)' = StatusOf(d)
         \/ Lifecycle!Next
<1>1. CASE MainThread
  BY <1>1, MainThreadMaps DEF Lifecycle!Next
<1>2. ASSUME NEW t \in Threads, NEW values \in Bundles, RecordCreate(t, values)
      PROVE  Lifecycle!Next
  BY <1>2, RecordCreateMaps DEF Lifecycle!Next
<1>3. ASSUME NEW t \in Threads, CreateFails(t)
      PROVE  \A d \in Entity : StatusOf(d)' = StatusOf(d)
  <2>1. Moves({}, {})
    BY <1>3, CreateFailsKeeps
  <2>2. cmd_buffer' = cmd_buffer /\ issued' = issued
    BY <1>3 DEF CreateFails
  <2> QED BY <2>1, <2>2, QuietSteps
<1>4. ASSUME NEW t \in Threads, NEW e \in Entity, NEW op \in Ops \cup {"destroy"},
             NEW values \in Bundles \cup {NoValues}, RecordOn(t, e, op, values)
      PROVE  \A d \in Entity : StatusOf(d)' = StatusOf(d)
  BY <1>4, RecordOnMaps
<1>5. ASSUME NEW t \in Threads, Worker(t)
      PROVE  \/ \A d \in Entity : StatusOf(d)' = StatusOf(d)
             \/ Lifecycle!Next
  BY <1>2, <1>3, <1>4, <1>5 DEF Worker
<1>6. CASE RunCmd
  BY <1>6, RunCmdMaps DEF Lifecycle!Next
<1>7. CASE UNCHANGED <<worldVars, cmd_buffer, issued>>
  <2>1. Moves({}, {})
    BY <1>7, NobodyMoves DEF CInv
  <2> QED BY <1>7, <2>1, QuietSteps
<1>8. /\ \A val \in BOOLEAN : SetInParallelCompute(val) => UNCHANGED <<worldVars, cmd_buffer, issued>>
      /\ SyncPoint => UNCHANGED <<worldVars, cmd_buffer, issued>>
      /\ Flushed => UNCHANGED <<worldVars, cmd_buffer, issued>>
      /\ UNCHANGED allVars => UNCHANGED <<worldVars, cmd_buffer, issued>>
  BY DEF SetInParallelCompute, SyncPoint, Flushed, allVars, cmdVars, worldVars
<1> QED BY <1>1, <1>5, <1>6, <1>7, <1>8 DEF CmdNext

(* A handle lives once, on whichever thread it was made: unissued, handed  *)
(* out by a recorded create, written at the sync point, destroyed, and     *)
(* never back; or both first steps at once on the main thread.             *)
THEOREM ImplementsLifecycle == Careful => (CmdSpec => HandlesLiveOnce)
<1> SUFFICES ASSUME Careful PROVE CmdSpec => HandlesLiveOnce
  OBVIOUS
<1>1. CmdInit => Lifecycle!Init
  <2>1. CmdInit => \A e \in Entity : StatusOf(e) = "unissued"
    BY DEF CmdInit, StatusOf
  <2> QED BY <2>1 DEF Lifecycle!Init, Lifecycle!Unissued
<1>2. ASSUME CInv, [CmdNext]_allVars
      PROVE  [Lifecycle!Next]_[e \in Entity |-> StatusOf(e)]
  <2>1. CASE \A d \in Entity : StatusOf(d)' = StatusOf(d)
    <3>1. [e \in Entity |-> StatusOf(e)]' = [e \in Entity |-> StatusOf(e)]
      BY <2>1
    <3> QED BY <3>1
  <2> QED BY <1>2, <2>1, StatusStep
<1> QED BY <1>1, <1>2, CmdInvariant, PTL DEF CmdSpec, HandlesLiveOnce, Lifecycle!Spec
=============================================================================
