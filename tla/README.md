# A formal model of xynok_ecs

TLA+ modules for the core of `xynok_ecs` (the crate in `src/src`), the TLC runs
that check them on small instances, and theorems that TLAPS proves for every
size. Every definition of a module is translated from the source; the table of
definitions and source lines is `map` in `PROJECT.json`.

    tlc -workers 2 -config MCWorldRows.cfg MCWorldRows    # one run
    tlapm EntityAllocatorProofs.tla                       # one module of proofs

## 1. The system

xynok_ecs is an archetype-based entity component system. A `World` owns all
data. Entities with the same set of components share an *archetype*; the rows of
an archetype lie in fixed-size *chunks*, column by column. Systems (functions
with queries as parameters) are run by a `Scheduler`, one by one or in parallel
groups on a thread pool. Inside a group a worker may not change the structure
of the world, so its commands are recorded and applied at a *sync point*.

| component | source | state | operations |
|---|---|---|---|
| entity handles and allocator | `entity.rs`, `world/entity_allocator.rs`, `world/entity_spec.rs` | a spec per slot (version, archetype, chunk, row), a queue of slots to recycle, a count of retired slots | `new_entity`, `pre_allocate_entities`, `update_entity_spec`, `update_entity_indices`, `erase_entity`, `exists` |
| archetypes and chunks | `archetype/`, `chunk/` | chunks of rows, the queue of chunks with room and the set of what is queued | `push`, `remove_at`, `take_and_write_from`, `take_and_remove_from`, cells written, replaced or carried over |
| world: structural operations | `world/mod.rs`, `world/arch_spec.rs`, `apis/` | archetypes by component set, edge caches, the tick | register, `try_create`, `try_create_singleton`, `try_destroy`, `try_add_component`, `try_merge_component`, `try_remove_component` |
| command buffer | `cmd_buffer/cmd.rs`, `world/worker_spec.rs` | per worker: recorded commands and pre-allocated handles; `in_parallel_compute` | recording, `warm_up`, `sync_point` |
| change detection | `query/mut_ref.rs`, `query/filter.rs`, `utils.rs` | an added and a changed tick per cell, `last_run_tick` per system, `last_query_tick` | `is_newer_than`, `mark_changed`, `Added`, `Changed`, `create_query`, `create_query_since`, `capture_current_tick` |
| scheduler | `schedule/` | per session a list of steps | `add_system`, `add_system_parallel`, `run` |
| access scopes | `query/access_scope.rs`, `schedule/system_spec.rs` | the columns a query reads or writes | `extend`, `conflicts_with`, `collide_with`, `check_group_can_parallel` |
| query registry | `world/query_spec.rs`, `world/mod.rs` | the archetypes a query matches, cached with the archetype version it saw | `prepare_query_src_access`, `query_src_access` |
| query iteration, batches | `query/query_iter.rs`, `query/mod.rs`, `query/tuple.rs` | a cursor over archetypes, chunks, rows; batches cut at bit set borders | `iter`, `iter_chunk`, `iter_batch`, `par_for_each_chunk`, `par_for_each_batch` |
| chunk layout | `chunk/layout.rs`, `chunk/header.rs` | offsets of columns and states, capacity | `compute_layout`, `new_fitted` |
| collections | `collection/` | a growing bit set, an append-only map with an index per key | insert, test, compare |

**How they interact.** `World` calls the allocator for a slot, the archetype for a row,
and writes the spec that ties the two; a removal swaps the last row into the hole, so
the spec of *another* entity must follow. `Cmd` either calls `World` (main thread) or
records (worker); a recorded create already takes a handle from the worker's own queue,
which `pre_allocate_entities` fills under a lock shared by the workers. `Scheduler::run`
advances the world's tick once per step, hands each system the tick of its own last run,
and calls `sync_point` at its end if it has `AUTO_SYNC_POINT`; `DefaultScheduler` has
not, and leaves the call to the program. Every write through `Mut` stamps the world's
tick into the cell; the filters compare that stamp with the system's baseline.

**What is hard in it**, and what must therefore hold:

- *Handles.* A handle outlives its entity. Slots are recycled by the main thread
  and by every worker's queue, and versions run out. No handle may ever be given
  out twice, no slot be in two places, no handle come back to life.
- *Rows.* The code reads rows `unchecked` where specs say; a spec that was not
  updated after a swap is undefined behaviour. A chunk that is queued as free
  while full is written beyond its end (issue #44 of the project); one with room
  that is not queued is lost.
- *Moves.* Add, merge and remove carry cells between archetypes, create archetypes
  on the way and may fail after that. Values, enable bits and both ticks must
  follow (issue #43), and locked archetypes stay closed.
- *Deferred commands.* What a command meets at the sync point is not what its
  caller saw. Commands run worker after worker, not in the order recorded, and
  one that fails panics in the middle.
- *Ticks.* They wrap, systems of one group share one, and writes happen between
  the steps as well as in them.
- *Parallel groups.* That the jobs do not race rests on scopes computed beforehand.
- *Query lists.* A query keeps the archetypes it matches. Between an archetype's set
  of components and that list stand ids in the order of registration, bit sets of
  different lengths and a version; inside a group nothing can be refreshed any more.
- *Walks.* Iterators hand out `&mut` for rows they were told of, and a system on its
  own can change the world under them.
- *Bytes.* Enable bits of 8 rows share a byte that jobs write without a lock, so
  batches may only be cut between bytes, alike by two pieces of code; and every
  offset of a chunk is trusted once the search for its layout has ended.

`hazards` in `PROJECT.json` lists each of these at its line with the properties
that cover it, and those nothing covers yet.

## 2. The modules

```
EntitySlots ----> EntityAllocator ----> MCEntityAllocator
   |                  |    |----------> EntityAllocatorProofs (TLAPS)
   |                  '-- implements --> EntityLifecycle
   |   Archetype ---> ArchetypeProofs (TLAPS) ^
   |      |                    |              | implements
   '--> WorldStorage ----------+-----> CmdBuffer ----> MCCmdBuffer
          |  |  |              |           '---------> CmdBufferProofs (TLAPS,
          |  |  |              |                         with WorldStorageProofs)
          |  |  |              '-----> WorldStorageProofs (TLAPS)
          |  |  |---> MCWorldRows
          |  |  '---> MCWorldState
          |  '-- implements --> EntityStore
          |
          '--> QueryRegistry ----> QueryWalk ----> MCQueryWalk
ComponentBitSet -------'|                  '-----> QueryWalkProofs (TLAPS,
SequenceValueHashMap ---'                             with WorldStorageProofs)

ChunkLayout ---> ParallelWalk ---> MCParallelWalk
QueryBatches ---'
     '---------> QueryBatchesProofs (TLAPS)

ChangeDetection ---> MCChangeDetection
             '-----> ChangeDetectionProofs (TLAPS)
AccessScope ---> SystemGroups ---> MCSystemGroups
                              '--> SystemGroupsProofs (TLAPS)
```

**EntitySlots** holds the allocator's two containers as operators: what handle
comes next, what the containers are afterwards, when a handle exists, what an
erase does. A handle is the pair of a slot and a version; the 40 and 24 bits
they share in the code are the constants `MaxSlots` and `MaxVersion`. A recycled
slot keeps its old version until `update_entity_spec` writes the new one: several
of the properties below turn on that. Three modules use these operators, so
what is proved of the allocator is about the same definitions that the world uses.

**EntityAllocator** has one action per method. `PreAllocateEntities` is the whole
loop, which runs under `write_lock`; the early return in the middle of it, where
the index space ends, leaves what was pushed so far in the worker's queue. The
module models callers that keep the allocator's contract (`UpdateEntitySpec` for
a handle that was given out, `EraseEntity` for one that exists); **CmdBuffer** has
the callers that do not.

**Archetype** is the value of an archetype and its chunks: cells, rows, swap
removal, the queue of free chunks. The memory of a chunk is a sequence of rows;
the columns move together in the code and are one record here. `dst` and `src` of
a row move are different archetypes, as in the code, where the two sets differ.

**WorldStorage** has the structural operations, each one action with its failing
paths, because a refused operation may have registered an archetype and
`try_create` may have taken a slot. An archetype is named by its set of
components: `component_set_counter` makes the two one to one (`RegistriesAgree` in
QueryRegistry says so of the ids), and archetypes are never removed, so the edge
caches lead where a fresh look-up would.

**CmdBuffer** extends it with workers. A thread is named by its place in the order in
which threads register, the only thing that tells them apart. `phase` is `in_parallel_compute`, and a third
value while a sync point is running, where each command is one step. Calls
of different workers interleave; each call is atomic because the only shared
state it changes is behind a lock (the unsynchronised *read* of the worker list is
listed as a hazard, not modelled). A panic ends the sync point and leaves the
other commands recorded, since `flush_cmd` pops a command before it runs it.
`CarefulDestroys` says what callers of `destroy` are assumed to do, and
`WithoutSingletons` that the program registers no singleton; each is dropped in the run
that shows what happens without it.

**ChangeDetection** has a tick modulo `TickRange`, steps of one or more systems,
writes within and past them (`WriteOutside`: by the main thread between runs, at a sync
point, and by a `Cmd` that acts at once because its system is alone or its group runs one by
one without an executor), and the main thread's `create_query`,
`capture_current_tick` and `create_query_since`; the last two are one more reader, with a
baseline of its own (`captured`). `age`, `news`
and `outside_news` are history: they record the truth the wrapped ticks are
compared with. The one filter modelled is `Changed`; `Added` is the same comparison
on another tick. A system is taken to look before it writes: one that looks again
in the same run sees its own writes.

**AccessScope** has scopes as records of three sets and what the code asks of two
of them. **SystemGroups** is how they are used: a system is registered element by
element (`extend`) and parameter by parameter (`push`), a rejected one leaves
nothing behind, a group is checked pair by pair, and its jobs run with nothing
between them, so `running` holds every job that has not ended. `items` is history:
the scope of a query cannot tell two writers of one component from one. The
archetypes are not part of the state: the properties speak of every archetype that
could exist, since one may be created after the check. ChangeDetection takes over
from here that no system writes what another one in its step reads
(`ScheduleAssumption`).

**ComponentBitSet** and **SequenceValueHashMap** are the two collections, as operators
on a sequence of words and on the pair of keys and values with its indices. A word
is the set of its bits, `BITS_PER_WORD` a constant.

**QueryRegistry** puts the world's registries around WorldStorage: each of its
operations with the components and archetypes it registers on the way, in the order
the code looks them up, and the queries with the list each one keeps. A query is
the sequence of its tuple's elements; a refused tuple has registered the
components up to the element that was refused. The structural operations find an
archetype by its components, the registries by ids and bit sets, and
`RegistriesAgree` is that the two ways lead to the same one.

**QueryWalk** runs steps over it: the queries of a step are prepared, its jobs build and
walk them, and the world changes between steps and, in a system on its own, also within
one. The queries may be those of one system or of a group (`alone`); a group without an
executor is a step for each of its systems. The iterator has an action for a row, for a
chunk and for an archetype, which are the three branches of the two loops; `iter_chunk`
and the iterators of a chunk go through the same cursor and rows. `visited` and `due`
are history. `CarefulWalks` says that a system changes nothing in the middle of a walk;
it is dropped in the run that shows what happens otherwise. What registers an archetype
in the middle of a walk is left out even then: it reallocates the registry the iterator
points into, and what that reads is undefined.

**ChunkLayout** is arithmetic in bytes with the constants of the code (8 bits, words
of 8 bytes, ticks of 4, handles of 8). The binary search is an action a round, so
that its bounds are part of the state; everything it calls is an operator.

**QueryBatches** is `iter_batch`, an action for each turn of the loop that cuts a row
range and one for a batch that is returned. Of the chunks only the lengths are
left. **ParallelWalk** composes the two with the parallel walk: a layout is searched,
chunks of that capacity are filled, `iter_batch` cuts them, `par_for_each_batch` and
`par_for_each_chunk` list their starts (`Starts`, every one found by walking the batch
before it) and each job cuts its batch anew, then reads and writes the bytes of the
enable regions. Jobs write on the first and last row of every piece: a byte two
pieces share would be one of theirs.

**EntityLifecycle** and **EntityStore** are the abstract specifications: a handle is
issued, lives and dies once; and the world is a map from live handles to
components, where an operation on one entity touches no other.

Operators whose comment starts with *Bug:* are not part of the specification.
Each is a plausible mistake in the operator that follows it, kept to show that the
properties notice: exchanged for the operator, it makes the property that
`mutants` in `PROJECT.json` names fail.

## 3. The runs

Passing runs:

| run | question | bounds |
|---|---|---|
| `allocator` | can two interleaved users get the same handle or slot? do the containers implement `EntityLifecycle`? is the closed form of `pre_allocate_entities` its loop? | 4 slots, 3 versions, 2 workers, 3 handles at a time |
| `world_rows` | do specs and rows name each other, is the free chunk queue exact, are locked archetypes closed, can a slot be lost? | 3 entities, chunks of 2 rows, 2 components, 3 archetypes of which one may be locked or a singleton |
| `world_state` | do chunks implement `EntityStore`, values, bits and ticks included? | 2 entities, 2 components, 2 values (one arriving in a `Disable` wrapper), 2 ticks; no locks or singletons |
| `cmd_buffer` | deferred and immediate commands of two workers and the main thread, failing ones among them; is every recorded command applied in the end? | 2 slots, 2 versions, 2 commands at a time, 2 handles at a time |
| `queries` | are registries in lockstep and query lists exact, is every list fresh when a job needs it, does a walk yield what it owes? | 2 entities, 2 components, 3 queries (a filter, `Without`, a refused one), 3 archetypes, words of 1 bit |
| `batches` | are regions of a chunk apart and large enough, is the capacity the largest, do batches cover the rows and keep to bytes of their own? | 5 kinds of components, up to 3 in an archetype, 5 valid chunk sizes; 26 rows a chunk, up to 3 chunks of 2 archetypes, amounts 8, 9, 12 and 20; 2 threads |
| `groups` | do the scopes' checks admit a race, or refuse what cannot race? | 2 components, 2 systems, 3 parameters in all, 2 elements a query, groups of 3 |
| `changes` | is every change seen, and once, by systems, `create_query` and a window of the caller's own? | tick modulo 7, 2 cells, 4 systems in 2 sessions |

*Why the bounds are enough.* In `allocator` every bound is reached: slots end
within one pre-allocation (4 is not a multiple of 3), versions end, a worker's queue
holds handles while the other's is filled from the same free list. Rows interact
only within a chunk and through the chunk queue; two chunks of two rows are the
fewest in which a removal has a row to swap, a row it must not touch, and a second
chunk whose order in the queue matters; three entities fill one and open the
other. An operation touches two archetypes; with three there is one beside the two
that must stay as it is, and either side of a move may be the locked one. Two workers are enough
for two queues over one allocator, and two versions for a stale handle next to the
live one; a third version adds nothing that `allocator` does not have. Seven ticks
leave room for a session that runs while another does not, across several wraps.

In `queries` the words have one bit, so that any two sets of ids have different
lengths; three archetypes are registered in every order, before, after and
between the first uses of the queries. In `batches` 26 rows are three whole bytes and a
rest, the smallest chunk in which a cut can fall within, at and after a byte, the
amounts are a multiple of 8, just above one and between two (7 is refused), and chunks
are empty, short, whole bytes, full. The sizes go from one in which nothing fits,
over one in which one row does, to the default of 16384 bytes, whose search has all its
rounds; 250 is refused by `ArchetypeCfg::validate`. The layouts are those of every
archetype of up to three of a tag, a byte that can be disabled, a component with
ticks, one with both whose size is odd, and one whose alignment exceeds a word.

In `groups` three parameters are enough for one that conflicts with the first and
not with the last, and three jobs for a pair that are not neighbours (a group may
hold a system twice).

Deadlock is not checked in runs where the program really ends up with nothing
left to do within a bound: slots and versions are finite in `allocator` and the
world runs (a world whose ids are spent refuses every create), `MaxAge` ends
`changes`, in `groups` every system may be registered without a group that fits, and
a call of `batches` ends.

*Bounds in the modules.* `MaxSlots` and `MaxVersion` are the code's own limits, made
small. `MaxTick` (WorldStorage) ends the tick, `MaxQueued` (CmdBuffer) the recorded
commands, `MaxAge` (ChangeDetection) how long a cell or a reader is left alone: in
`changes` it stays below `TickRange`, which is the range the comparison is meant for:
a cell left alone for 2^32 ticks turns new again (`is_newer_than` compares wrapped
ages), and the tick itself takes the value 0 that its docs reserve.
`DefaultArchetypes` (MCWorldState) leaves locks and singletons to `world_rows`, and
`FewArchetypes` (MCWorldRows, MCQueryWalk) ends the archetypes. `Threads` (ParallelWalk)
is how many jobs run at a time; calls with more than `MaxJobs` jobs are cut and
compared, but not followed into their jobs. `MaxComponents` (ChunkLayout) bounds an
archetype.

*Fairness.* Only `AllApplied` (in `cmd_buffer`) needs any. `Fairness` is what the code
sees to: jobs join (`run_indexed` returns), and the steps of a sync point go on (they are
a loop). That a sync point comes at all is *not* the code's doing: `Scheduler::run` ends
in one only with `AUTO_SYNC_POINT`, and `DefaultScheduler` leaves the call to the program
(`xynok_ecs_overview.md:606`). It is therefore no part of the specification but the
hypothesis of the property, `CallersSync`: whoever can call `sync_point` again and again
does so again and again. That is strong fairness, since a new parallel computation
may begin before the call. Without the hypothesis nothing need ever be applied. No
worker is assumed to stop recording, and the property asks that its buffer be
*empty* again and again. A worker whose first command fails in every sync point puts
off all workers that registered after it, so the property is that every buffer
empties again and again unless commands fail again and again.

Runs that show a disagreement between the code and what its docs say of it:

| run | what it shows |
|---|---|
| `walk_moved` | a system that destroys an entity through `Cmd` while it walks a query moves the last row of the chunk; the iterator reads a row beyond the chunk's `len`, against its SAFETY comment (the README's `respawn` does this) |
| `cmd_buffer_stale` | a deferred destroy of a stale handle erases the entity that took the slot: `erase_entity` is called before the error is looked at |
| `cmd_buffer_reissue` | a deferred create that fails gives its slot back with the old version, so that the next create hands out the same handle |
| `changes_missed` | what is written past the schedule (by the main thread, a sync point, a `Cmd` that acts at once) carries the tick of the last step; its systems have that tick as their baseline and never see the write |

`findings` in `PROJECT.json` quotes the lines. One more thing the code does that its
comments avoid elsewhere is part of a passing run: `try_create` onto a singleton that
already holds its entity loses a slot (`try_create_singleton` asks first, "otherwise a
failed push would leave an entity slot behind"). `OnlyRefusedCreateLoses` says that
this is the only way to lose one.

## 4. What is proved

`EntityAllocatorProofs` proves, for any number of slots, versions and workers and
any pre-allocation amount, from `SlotsAssumption` (both bounds are positive) and
`PreAllocAssumption` (so is the amount):

- `TypeCorrect`: the containers stay well typed;
- `NeverReissued`: no handle is given out twice (`IssuedOnce`);
- `SlotsHeldOnce`: a slot is in one place at a time (`HeldOnce`);
- `SlotsAreKnown`: whatever is queued or handed out names a slot there is, and a
  queued slot has a version left (`SlotsKnown`);
- `VersionsOnlyAdvance`: what was given out on a slot is not above the version it
  has, and below what a worker's queue still holds (`VersionsAdvance`);
- `RetiredCounted`: the slots nobody holds are as many as `retired_entity_slots`, so
  none is dropped uncounted (`RetiredAreCounted`);
- `ImplementsLifecycle`: the allocator implements `EntityLifecycle`.

They follow from one inductive invariant (`Invariant`):

    IInv == TypeOK /\ IssuedOnce /\ SlotsKnown /\ HeldOnce /\ VersionsAdvance

`IssuedOnce` is not inductive: that the next handle is new depends on the version
its slot has. `VersionsAdvance` says how: what was given out on a slot is not above
the version the slot has while it is queued or live, and below every handle still
in a worker's queue. For that to survive a step, the two must not be about the same
slot at once (`HeldOnce`), and a queued slot must have a version left (`SlotsKnown`).
Every conjunct is also an invariant of the run `allocator`. `RetiredAreCounted` has an
induction of its own on top of it. The proof has a lemma
per action, and under it a step per conjunct the action can disturb. The hard
case is `PreAllocateEntities`, which takes many slots in one step: `PreAllocateFacts`
describes its effect without sequences (`PreAllocation`), and the others use only
that. The refinement uses the same invariant, with a lemma per action that names
the abstract step.

`WorldStorageProofs`, on top of `ArchetypeProofs`, proves for any components and values, any
chunk size, any number of slots and versions, from `SlotsAssumption`,
`StorageAssumption` and `ComponentsAssumption` (the bounds are positive, the
components with an enable bit or change detection are components, a chunk holds a
row):

- `SpecsNameRows`: a live spec and the row it names agree, and every row below a
  chunk's `len` is named by a live spec (`RowsMatchSpecs`);
- `ChunksNeverOverrun`: the queue of free chunks holds the chunks with room, each
  once (`FreeChunksExact`);
- `LockedStay`: the entity of a locked archetype leaves it by a destroy alone
  (`LocksHold`);
- `OneWayToLoseASlot`: a slot is neither queued, live nor retired only after a
  `try_create` that was refused (`OnlyRefusedCreateLoses`);
- `RetiredNeverMore`: no more slots are counted as retired than are out of versions;
- `ImplementsStore`: the world is the map from entities to cells that
  `EntityStore` says (`StoresEntities`), whatever chunks and rows things lie in;
- `TypeCorrect`: the world stays well typed (`TypeOK`).

The inductive invariant (`Invariant`):

    IInv == WorldOK(entities, archetypes) /\ Len(entities) <= MaxSlots
            /\ FreeSlots(entities, free_entities) /\ tick \in 1..MaxTick

`WorldOK` is the types, `Sound` archetypes, and rows and specs naming one another
(`Placed`, `Named`). `RowsMatchSpecs` alone is not inductive, for three reasons. A new
entity must not take the slot, and so orphan the row, of a live one: a
queued slot is empty (`FreeSlots`). A push must land in a chunk with room, or it
would not be a new row: the queue is exact and every chunk fits (`Sound`). And the
row a swap removal moves into the hole names its entity by handle, so that
`update_entity_indices` reaches the right spec: rows hold the handle, version included, of
a live slot. TLC checked `FreeSlots`, the bound of `RetiredNeverMore` and the types of cells on
small instances before they were proved.

The operations are proved through three edits, each with a lemma that it keeps
`WorldOK` and every other entity's cells: another archetype (`WithArchetypeFacts`), a
row added with its spec (`AddRowFacts`), a row removed with the one that takes its
place (`RemoveRowFacts`); writes in place are a fourth (`SetCellsFacts`). A move
between archetypes is a removal and an addition, which is the order its specs
are equal in, not the code's, which pushes first: the two touch different
archetypes. `ArchetypeProofs` has what a push and a swap removal do to one archetype. Each
operation then is one of a few effects on the entities (`Effect`: none, one created, one
changed, one destroyed), and `LockedStay`, `OneWayToLoseASlot` and `ImplementsStore` are
about effects only. `EntityStore` takes every removal together with the addition
that follows, so a half-done move is never visible to it.

`CmdBufferProofs`, on top of `WorldStorageProofs`, proves for any number of threads, slots
and versions, any amount of handles pre-allocated at a time and any bound on the
commands recorded, from the assumptions of WorldStorage and `CmdAssumption`, of
callers that are careful (`Careful == CarefulDestroys /\ WithoutSingletons`, the setting of the
run `cmd_buffer`):

- `SlotsHaveOneHolder`: a slot is live, queued, in a worker's queue or promised to a
  recorded create, and never two of them (`OneHolder`);
- `CarefulNeverFails`: no create and no destroy fails at a sync point (`NoneFails`);
- `DestroysOnlyNamed`: none destroys another entity than it names
  (`OnlyNamedDestroyed`);
- `HandlesAreNew`: a recorded create gives out a new handle (`NeverReissued`), no
  singleton being registered at all;
- `ImplementsLifecycle`: a handle lives once, on whichever thread it was made
  (`HandlesLiveOnce`);
- `CmdRowsMatch` and `CmdTypeCorrect`: rows and specs agree across sync points too
  (`RowsMatchSpecs`), and the buffers stay well typed (`CmdTypeOK`).

`Careful` is a hypothesis of every one of them and not an assumption of the module. It is
what the code leaves to its callers: without `CarefulDestroys` the run
`cmd_buffer_stale` refutes `OnlyNamedDestroyed`, without `WithoutSingletons` the run
`cmd_buffer_reissue` refutes `NeverReissued`. The inductive invariant (`CmdInvariant`):

    CInv == IInv /\ NoSingletons(archetypes) /\ BuffersOK
            /\ PromisedOnce /\ PromisedSpare /\ DestroysFind /\ VersionsRise

`OneHolder` is not inductive. That a recorded create finds its slot empty needs that
nothing else was promised the slot meanwhile (`PromisedOnce`) and that it is neither
live nor queued until then (`PromisedSpare`). That holds only as long as no destroy
erases another entity's slot, so a recorded destroy must find its entity: alive, or
created by a command before it in the same buffer, and named by no other destroy
(`DestroysFind`). The place in the buffer matters because workers are flushed one after
the other, and a panic leaves the rest to the next sync point. And a slot that comes
back must come back with a version above all that was issued on it (`VersionsRise`).
`NoSingletons` is what `WithoutSingletons` is for, which lets no singleton be
registered: it is why a create is never refused a row. TLC checked the conjuncts on two
slots and two workers before they were proved.

A step is two things: what it does to the buffers (a command at the end of one, the first
of one taken off, or nothing), and what it does to the slots, `Moves(gone, made)`: who dies,
who comes to life, and that a slot nobody comes to life in keeps its version and is not
queued unless it was queued or live. Every structural operation is shown
once to be such a move (`CallStep`, `TryDestroyErases`, `TryCreateFills`, `RunCreateFills`), with
`IInv` from WorldStorageProofs, and the lemmas per action only combine the two. The one
with work left is `RecordCreate`, which may take many slots and records one command
(`TakenMoves`, `Handout`).

`QueryWalkProofs`, on top of `WorldStorageProofs`, proves for any components, tuples and
queries, any chunk size and any word size of the bit sets, from the assumptions of
WorldStorage and `WordAssumption` (a word has a bit), `TuplesAssumption` (a tuple names
components, at least one) and `WalkAssumption` (a query is made of elements, a step
of queries):

- `RegistriesInStep`: the registries of components and archetypes agree with each
  other and with the storage, whatever refused operations left registered
  (`RegistriesAgree`);
- `CachedListsExact`: what `prepare_query_src_access` cached for a query is
  what a fresh look would select (`CacheExact`);
- `QueriesPrepared`: every query a system can be about to walk has seen all archetypes
  (`PreparedInTime`);
- `WalksExactly`: a walk hands out what it owes, every entity once, and nothing else
  (`WalkExact`), if systems are careful;
- `WalksTyped`: its cursor stays within the chunks of an archetype that exists
  (`WalkTypeOK`), if systems are careful.

The inductive invariant (`WalksStore`):

    WalkInv == RegistriesIn(...) /\ QueriesExact(...) /\ StepOK

Walks and registrations change nothing of WorldStorage but by its operations, so
`WalkSpec` implies `WorldStorage!Spec` and brings `IInv` along. `RegistriesAgree` is not
inductive: that the key computed for a set of components leads to the right archetype
needs that ids tell components apart (`IdsTellApart`), that every component of an
archetype has an id, and that a key in `component_set_counter` is one of a registered
archetype. `CacheExact` needs that the bits of a scope are the ids of what the query
names (`ScopeNames`), and that components and archetypes are only ever added
(`Extends`): a list computed before the last registrations is the prefix of what it
should be (`Prefix`), and stays exact about the archetypes it has seen.
`PreparedInTime` needs that no step is prepared at a later archetype version than the
world's. The lemma they all turn on is `BelongsIsSelects`: the words the code
compares say the same as the sets of components. The registrations of a tuple and the
preparations of a step are folds; `IsFold` describes a fold by its results on every
subset of what it goes through, `FoldExists` shows by the size of the subsets that
there are such results, and `FoldKeeps` carries an invariant along them. Where there
are only one or two elements the fold is written out instead (`Lookups`, `Prepared`).

The last two have `CarefulWalks` as a hypothesis: a system that changes components in
the middle of its own walk breaks `WalkExact`, which the run `walk_moved` shows. Their
inductive invariant (`WalksCarefully`) adds to the others

    CarefulInv == ListsOfStep /\ (walk # NoWalk => WalkOK(walk))

`ListsOfStep` says that a prepared query's list is of the version its step began with,
since a step that registers nothing must not walk archetypes that come later. `WalkOK`
says of a walk that the archetypes still to come are distinct ones the query selects
(`ListOK`), that `end` is the length of the chunk the cursor is in (`CursorOK`), and
that what it has handed out is exactly what it owes and its cursor has `Passed`
(`VisitedOK`). `WalkExact` alone is not inductive, because nothing in it says that a row
ahead of the cursor was not handed out before. That moving the cursor passes nobody
rests on `ArchetypeDone`, and that a visit passes exactly one entity on `SeatFacts`: the
row names who sits in it, by the invariant of the storage. `InOrderFacts` shows that
the list of an archetype bit set has every archetype, once; the model writes `InOrder`
out because the prover cannot expand the library's sort. TLC checked the invariant on
all states of the run `queries` before it was proved.

`SystemGroupsProofs` proves, for any components, systems and size of a group and
with no assumption beyond the type of the constants:

- `SystemsDontAlias`: the parameters of a system and the elements of a query never
  hold a column one of them writes (`NothingAliases`);
- `ParallelJobsDontRace`: nor do two jobs of a group (`JobsDontRace`);
- `RejectsOnlyRaces`: what is turned away would race on some archetype
  (`OnlyRacesRejected`);
- `TypeCorrect`: a query under construction asks for what its elements ask for
  together, and the jobs of a group are registered systems (`TypeOK`).

`RacesConflict` and `ConflictRaces` relate the code's question to the race: the
second one needs the archetype the code's comment names, the union of what both ask
for. The invariant keeps what each check established (`Checked`); the point of the
induction is that systems registered later do not change the specs of a group that
was checked before.

`ChangeDetectionProofs` proves, for any width of the tick, any cells, systems, sessions and
schedule, from `TickAssumption` (nothing is left alone for the whole range, which is
what `is_newer_than` asks), `NamesAssumption` (names differ) and `ScheduleAssumption`
(a group's systems do not write what another of them looks at):

- `EveryStepWriteSeen` and `NothingShownTwice`: a system is shown what others wrote since
  it last ran, and nothing else (`StepWritesSeen`, `NothingTwice`);
- `QueriesExact`: the main thread's two kinds of query yield exactly what was written
  since their baseline (`QueryExact`);
- `TicksCorrect`: stamps are times modulo the range (`TypeOK`).

The argument leaves the wrapped ticks early. `AgeOfStamp` and `StampAfter` say that
`is_newer_than` computes ages, and `NewerIsYounger` that it compares them. `CInv`
(`ChangesInvariant`) is then about ages, which do not wrap: news is what is younger
than the reader's last look (`NewsByAge`). A system that looked at the current tick
could miss a write of that tick; `Steps` keeps who has run in the step, so that such a
writer is in the same group and `ScheduleAssumption` applies. `Steps` also keeps that
the steps left fit below `MaxAge`.

`QueryBatchesProofs` proves, for any archetypes, any chunk lengths and any batch
amount that `iter_batch` accepts:

- `BatchesShareNoByte`: no two row ranges handed out, in one batch or in two, share
  a byte of an enable region (`BytesApart`);
- `BatchesCoverRows`: when `next()` has returned `None` the batches had every row of the
  query and no other, none was empty or larger than asked for, and only the last more
  than 7 rows short (`BatchesCover`).

The first follows from `BInv`, which adds to the types three facts about the ranges handed
out so far: each begins on a border, in a chunk the cursor has passed
(`HandedPlaced`); of one chunk, one ends before the other begins (`HandedApart`); and
what is in `leftover` comes after all of its chunk that was handed out
(`LeftoverLast`). `BytesApart` alone is not inductive: nothing in it says that the
next range is new. `FirstPosition` shows that the chunk `NextNonEmpty` chooses exists,
from the well-founded order of the natural numbers.

The second needs an invariant of its own on top of it, `CoverInv`: every row of a chunk
the cursor has passed was handed out or is in `leftover` (`NothingSkipped`), what was
handed out lies within its chunk (`HandedWithin`, `LeftoverWithin`), the room left is
the amount less what the batch has taken (`RoomTaken`), and a closed batch is full, to
less than 8 rows, unless there are no rows left (`BatchesFull`). A batch that closes with
room for a byte finds no rows, because `Split` always cuts then (`SplitFacts`). Sizes of
batches are folds: `SumsExist` and `SizeIsSum` show that the fold has a value on every
prefix, from which `SizeFacts` says what one range more adds. TLC checked `CoverInv` in
the setting of the run `batches` before it was proved. Both theorems are about
`BatchSpec`, with any chunks; the run walks them under `ParSpec`, after a layout.

Beyond this prover: liveness and `ENABLED`, so `AllApplied` is only checked; and
induction over what a recursive operator computes, so that the closed form of
`pre_allocate_entities` is its loop (`PreAllocateIsTheLoop`) and all that goes through
the recursive `StartsFrom` of ParallelWalk (`CutsAgree`, `NoLostBits`) are only checked.
The modules that are proved about use no recursive operators.

Only model-checked, besides: layouts (`LayoutSound`, `SearchExact`), which are about
searches over sizes that folds add up and round to alignments.

## 5. Not modelled, and why

Not modelled because their effect is not this code's to say: a job that panics leaves
`in_parallel_compute` set (`scheduler.rs:230`), and what else happens then is up to the
pool behind `TJobExecutor`; and reading the worker list while a thread registers
(`worker_spec.rs:39`) is a data race on a `HashMap`, whose outcomes no set of a model
bounds.

Left out on purpose: the derive macros (`proc_macro`, trait implementations and no
state), the executor wrapper and prelude (an adapter to a thread pool that is
not part of this repository), benchmarks, examples and tests (users of the library;
the tests were read for what they say of it), disposal of chunks and buffers
(memory management nobody reads afterwards), and names, messages and panics' texts.
