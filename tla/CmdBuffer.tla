----------------------------- MODULE CmdBuffer -----------------------------
(***************************************************************************)
(* Cmd (src/src/cmd_buffer/cmd.rs) over the World: on the main thread a    *)
(* call acts at once; inside a parallel computation it is recorded in the  *)
(* buffer of the calling worker (src/src/world/worker_spec.rs), and        *)
(* World::sync_point applies what the workers recorded, worker after       *)
(* worker in the order they registered. Only the handle of a new entity is *)
(* given out at once, from the worker's pre-allocated ones.                *)
(*                                                                         *)
(* A command that fails panics out of sync_point. The command is gone, the *)
(* rest stays in the buffers, and a program that catches the panic goes on.*)
(***************************************************************************)
EXTENDS WorldStorage, FiniteSetsExt

CONSTANTS
  MaxThreads,           \* the threads that run parallel jobs
  PreAllocatedAmount,   \* PRE_ALLOCATED_ENTITIES_AMOUNT
  MaxQueued,            \* bound of the model on the commands recorded at a time
  Ops,                  \* which of the structure changes the model calls
  CarefulDestroys,      \* whether callers keep to CarefulDestroy
  WithoutSingletons     \* whether the program registers no singleton

ASSUME CmdAssumption == /\ PreAllocatedAmount \in Nat \ {0}
                        /\ MaxQueued \in Nat \ {0}
                        /\ Ops \subseteq {"add", "merge", "remove"}
                        /\ CarefulDestroys \in BOOLEAN
                        /\ WithoutSingletons \in BOOLEAN
                        /\ MaxThreads \in Nat

(* A thread is named by its place in the order they register.              *)
Threads == 1..MaxThreads

VARIABLES
  phase,           \* "main", "parallel" (in_parallel_compute) or "flush"
  workers,         \* WorkerSpecs: the registered threads, in order
  pre_allocated,   \* WorkerSpec::pre_allocated_entities of each thread
  cmd_buffer,      \* WorkerSpec::cmd_buffer of each thread
  issued           \* history: the handles callers were given

cmdVars == <<phase, workers, pre_allocated, cmd_buffer, issued>>
worldVars == vars
allVars == <<vars, cmdVars>>

CmdInit ==
  /\ Init
  /\ phase = "main"
  /\ workers = << >>
  /\ pre_allocated = [t \in Threads |-> << >>]
  /\ cmd_buffer = [t \in Threads |-> << >>]
  /\ issued = {}

Recorded(op, e) ==
  {t \in Threads : \E k \in DOMAIN cmd_buffer[t] :
                     cmd_buffer[t][k].op = op /\ cmd_buffer[t][k].e = e}

(* Callers of destroy, when careful: the entity is alive, or its creation  *)
(* is recorded by the same worker and will be applied before, and no       *)
(* recorded command destroys it already.                                   *)
CarefulDestroy(e, creators) ==
  CarefulDestroys =>
    /\ Recorded("destroy", e) = {}
    /\ Exists(entities, e) \/ Recorded("create", e) \cap creators # {}

----------------------------------------------------------------------------
(* The main thread, outside a parallel computation: Cmd calls the World.   *)
Call(op, e, values) ==
  \/ op = "add"    /\ TryAddComponent(e, values)
  \/ op = "merge"  /\ TryMergeComponent(e, values)
  \/ op = "remove" /\ TryRemoveComponent(e, DOMAIN values)

CallNow(e) ==
  /\ e \in issued
  /\ \/ TryDestroy(e) /\ CarefulDestroy(e, {})
     \/ \E op \in Ops, values \in Bundles : Call(op, e, values)
  /\ UNCHANGED issued

CreateNow(values) ==
  /\ TryCreate(values)
  /\ issued' = issued \cup
       {e \in {NextEntity(entities, free_entities)} : Exists(entities', e)}

MainThread ==
  /\ phase = "main"
  /\ \/ \E e \in Entity : CallNow(e)
     \/ \E values \in Bundles : CreateNow(values)
     \/ \E cs \in ComponentSets : ~ WithoutSingletons /\ RegisterSingleton(cs) /\ UNCHANGED issued
  /\ UNCHANGED <<phase, workers, pre_allocated, cmd_buffer>>

(* set_in_parallel_compute, around the jobs of a group.                    *)
SetInParallelCompute(val) ==
  /\ phase = IF val THEN "main" ELSE "parallel"
  /\ phase' = IF val THEN "parallel" ELSE "main"
  /\ UNCHANGED <<worldVars, workers, pre_allocated, cmd_buffer, issued>>

----------------------------------------------------------------------------
(* A worker. Each of these is a call that runs while other workers run     *)
(* theirs; what they share is the allocator, under its write lock, and the *)
(* list of workers.                                                        *)

(* Bug: a thread that calls for the first time is not registered.          *)
WarmUp_Forgotten(t) == UNCHANGED workers

(* warm_up: the first call of a thread registers it.                       *)
WarmUp(t) ==
  workers' = IF \E k \in DOMAIN workers : workers[k] = t THEN workers ELSE Append(workers, t)

Queued == MapThenSumSet(LAMBDA t : Len(cmd_buffer[t]), Threads)

Record(t, cmd) ==
  /\ phase = "parallel"
  /\ Queued < MaxQueued
  /\ WarmUp(t)
  /\ cmd_buffer' = [cmd_buffer EXCEPT ![t] = Append(@, cmd)]
  /\ UNCHANGED phase

(* Cmd::try_create. Out of handles it pre-allocates some more first: what  *)
(* EntityAllocator says of it, on slots that also name a row.              *)
Allocator == INSTANCE EntityAllocator
               WITH Workers <- Threads, outstanding <- {}

Handles(t) ==
  IF pre_allocated[t] # << >>
  THEN pre_allocated[t]
  ELSE Allocator!PreAllocatedEntities(PreAllocatedAmount)

(* Bug: the recycled slots are handed out but left in the queue.           *)
PreAllocate_NotTaken(t) ==
  IF pre_allocated[t] # << >>
  THEN UNCHANGED <<entities, free_entities>>
  ELSE /\ entities' = [i \in 1..(Len(entities) + Allocator!Opened(PreAllocatedAmount)) |->
                         IF i <= Len(entities) THEN entities[i] ELSE NewEmptySpec]
       /\ UNCHANGED free_entities

PreAllocate(t) ==
  IF pre_allocated[t] # << >>
  THEN UNCHANGED <<entities, free_entities>>
  ELSE /\ entities' = [i \in 1..(Len(entities) + Allocator!Opened(PreAllocatedAmount)) |->
                         IF i <= Len(entities) THEN entities[i] ELSE NewEmptySpec]
       /\ free_entities' =
            SubSeq(free_entities, Allocator!Recycled(PreAllocatedAmount) + 1,
                   Len(free_entities))

(* Where the index space ends within pre_allocate_entities the call fails, *)
(* though the handles it got so far stay queued for the next one.          *)
PreAllocationFails(t) ==
  pre_allocated[t] = << >> /\ Len(Handles(t)) < PreAllocatedAmount

(* Bug: the handle is read off the worker's queue but left in it.          *)
RecordCreate_Peek(t, values) ==
  LET e == Head(Handles(t)) IN
  /\ ~ PreAllocationFails(t)
  /\ Record(t, [op |-> "create", e |-> e, values |-> values])
  /\ PreAllocate(t)
  /\ pre_allocated' = [pre_allocated EXCEPT ![t] = Handles(t)]
  /\ issued' = issued \cup {e}
  /\ UNCHANGED <<retired_entity_slots, archetypes, tick>>

RecordCreate(t, values) ==
  LET e == Head(Handles(t)) IN
  /\ ~ PreAllocationFails(t)
  /\ Record(t, [op |-> "create", e |-> e, values |-> values])
  /\ PreAllocate(t)
  /\ pre_allocated' = [pre_allocated EXCEPT ![t] = Tail(Handles(t))]
  /\ issued' = issued \cup {e}
  /\ UNCHANGED <<retired_entity_slots, archetypes, tick>>

CreateFails(t) ==
  /\ phase = "parallel"
  /\ PreAllocationFails(t)
  /\ WarmUp(t)
  /\ PreAllocate(t)
  /\ pre_allocated' = [pre_allocated EXCEPT ![t] = Handles(t)]
  /\ UNCHANGED <<retired_entity_slots, archetypes, tick, phase, cmd_buffer, issued>>

(* Cmd::try_destroy, try_add_component, try_merge_component and            *)
(* try_remove_component: nothing is looked up before the sync point.       *)
RecordOn(t, e, op, values) ==
  /\ e \in issued
  /\ op = "destroy" => CarefulDestroy(e, {t})
  /\ Record(t, [op |-> op, e |-> e, values |-> values])
  /\ UNCHANGED <<worldVars, pre_allocated, issued>>

NoValues == << >>

Worker(t) ==
  /\ t <= Len(workers) + 1
  /\ \/ \E values \in Bundles : RecordCreate(t, values)
     \/ CreateFails(t)
     \/ \E e \in Entity :
          \/ RecordOn(t, e, "destroy", NoValues)
          \/ \E op \in Ops, values \in Bundles : RecordOn(t, e, op, values)

----------------------------------------------------------------------------
(* Bug: only the worker that registered first is flushed.                  *)
Waiting_First == {k \in DOMAIN workers : k = 1 /\ cmd_buffer[workers[k]] # << >>}

(* sync_point and flush_cmd.                                               *)
Waiting == {k \in DOMAIN workers : cmd_buffer[workers[k]] # << >>}

Current == workers[CHOOSE k \in Waiting : \A j \in Waiting : k <= j]

(* Bug: the newest command of a worker goes first.                         *)
NextCmd_Newest == cmd_buffer[Current][Len(cmd_buffer[Current])]

NextCmd == Head(cmd_buffer[Current])

SyncPoint ==
  /\ phase = "main"
  /\ phase' = "flush"
  /\ UNCHANGED <<worldVars, workers, pre_allocated, cmd_buffer, issued>>

Flushed ==
  /\ phase = "flush"
  /\ Waiting = {}
  /\ phase' = "main"
  /\ UNCHANGED <<worldVars, workers, pre_allocated, cmd_buffer, issued>>

(* erase_entity, whatever the slot of e holds by now.                      *)
Erase(e) ==
  /\ entities' = EntitiesAfterErase(entities, e)
  /\ free_entities' = FreeAfterErase(entities, free_entities, e)
  /\ retired_entity_slots' = RetiredAfterErase(entities, retired_entity_slots, e)

Panics == phase' = "main"
Goes   == phase' = "flush"

(* Bug: the row is written, the spec of its entity is not.                 *)
RunCreate_NoSpec(e, values) ==
  LET known == GetOrCreate(archetypes, DOMAIN values) IN
  /\ archetypes' = [known EXCEPT ![DOMAIN values] =
                      Push(@, [e |-> e, cells |-> NewCells(values, tick)])]
  /\ UNCHANGED <<entities, free_entities, retired_entity_slots, tick>>
  /\ Goes

RunCreate(e, values) ==
  LET known == GetOrCreate(archetypes, DOMAIN values) IN
  \/ /\ CanTakeARow(known[DOMAIN values])
     /\ PushNew(known, entities, e, values)
     /\ UNCHANGED <<free_entities, retired_entity_slots, tick>>
     /\ Goes
  \/ /\ ~ CanTakeARow(known[DOMAIN values])
     /\ archetypes' = known
     /\ Erase(e)
     /\ UNCHANGED tick
     /\ Panics

(* A destroy that finds no such entity erases the slot all the same.       *)
RunDestroy(e) ==
  \/ TryDestroy(e) /\ Goes
  \/ /\ ~ Exists(entities, e)
     /\ Erase(e)
     /\ UNCHANGED <<archetypes, tick>>
     /\ Panics

(* The other commands leave the world as the failed call left it. One that *)
(* succeeds has moved the entity, but for a merge in place.                *)
RunCall(op, e, values) ==
  \/ /\ Call(op, e, values)
     /\ IF entities' # entities \/ (op = "merge" /\ DOMAIN values \subseteq SpecOf(e).arch)
        THEN Goes
        ELSE Panics
  \/ ~ Exists(entities, e) /\ UNCHANGED worldVars /\ Panics

RunCmd ==
  /\ phase = "flush"
  /\ Waiting # {}
  /\ \/ NextCmd.op = "create"  /\ RunCreate(NextCmd.e, NextCmd.values)
     \/ NextCmd.op = "destroy" /\ RunDestroy(NextCmd.e)
     \/ NextCmd.op \in Ops     /\ RunCall(NextCmd.op, NextCmd.e, NextCmd.values)
  /\ cmd_buffer' = [cmd_buffer EXCEPT ![Current] = Tail(@)]
  /\ UNCHANGED <<workers, pre_allocated, issued>>

CmdNext ==
  \/ MainThread
  \/ \E val \in BOOLEAN : SetInParallelCompute(val)
  \/ \E t \in Threads : Worker(t)
  \/ SyncPoint
  \/ RunCmd
  \/ Flushed

CmdSpec == CmdInit /\ [][CmdNext]_allVars

(* What the code sees to: a parallel computation joins its jobs, and a     *)
(* sync point that began runs on to its end or to a panic.                 *)
Fairness ==
  /\ WF_allVars(SetInParallelCompute(FALSE))
  /\ WF_allVars(RunCmd)
  /\ WF_allVars(Flushed)

(* What the code leaves to its callers: that they come back to sync_point. *)
(* A Scheduler with AUTO_SYNC_POINT does so at the end of each run; the    *)
(* DefaultScheduler has it off, and the program calls sync_point itself.   *)
CallersSync == SF_allVars(SyncPoint)

LiveCmdSpec == CmdSpec /\ Fairness
----------------------------------------------------------------------------
InUse(i)  == entities[i].has_value
IsFree(i) == \E k \in DOMAIN free_entities : free_entities[k] = i
Pooled(i) == \E t \in Threads : \E k \in DOMAIN pre_allocated[t] : pre_allocated[t][k].idx = i
Pending   == {e \in issued : Recorded("create", e) # {}}

(* The buffers hold commands, and only registered threads have any.        *)
CmdTypeOK ==
  /\ phase \in {"main", "parallel", "flush"}
  /\ issued \subseteq Entity
  /\ \A t \in Threads :
       /\ pre_allocated[t] \in Seq(Entity)
       /\ \A k \in DOMAIN cmd_buffer[t] : cmd_buffer[t][k].e \in issued
       /\ cmd_buffer[t] # << >> => \E k \in DOMAIN workers : workers[k] = t

(* A slot is live, free, in a worker's queue or promised to a recorded     *)
(* create, and never two of them: across threads, parallel computations    *)
(* and sync points no two entities share a slot.                           *)
OneHolder ==
  /\ \A j, k \in DOMAIN free_entities : free_entities[j] = free_entities[k] => j = k
  /\ \A s, t \in Threads : \A j \in DOMAIN pre_allocated[s], k \in DOMAIN pre_allocated[t] :
       pre_allocated[s][j].idx = pre_allocated[t][k].idx => s = t /\ j = k
  /\ \A i \in DOMAIN entities :
       LET pending == {e \in Pending : e.idx = i} IN
       /\ ~ (InUse(i) /\ IsFree(i))
       /\ Pooled(i) => ~ InUse(i) /\ ~ IsFree(i) /\ pending = {}
       /\ pending # {} => ~ InUse(i) /\ ~ IsFree(i) /\ Cardinality(pending) = 1

StatusOf(e) ==
  IF e \notin issued THEN "unissued"
  ELSE IF Exists(entities, e) THEN "live"
  ELSE IF e \in Pending THEN "pending"
  ELSE "dead"

Lifecycle == INSTANCE EntityLifecycle
               WITH Handle <- Entity, status <- [e \in Entity |-> StatusOf(e)]

(* A handle lives once, on whichever thread it was made: it exists from    *)
(* its create, at once or at the sync point, until its destroy.            *)
HandlesLiveOnce == Lifecycle!Spec

(* Careful callers never see a destroy or a create fail at the sync point, *)
(* whatever the order workers registered in and whatever other commands    *)
(* failed before.                                                          *)
NoneFails ==
  [][phase = "flush" /\ phase' = "main" /\ Waiting # {}
       => NextCmd.op \in Ops]_allVars

(* As long as callers come back to sync_point, every worker's commands are *)
(* applied in the end, whatever the others go on recording, unless         *)
(* commands keep failing: one that does puts off the commands of the       *)
(* workers registered after it to the next sync point.                     *)
AllApplied ==
  CallersSync =>
    \A t \in Threads :
      \/ []<>(cmd_buffer[t] = << >>)
      \/ []<><<phase = "flush" /\ phase' = "main" /\ Waiting # {}>>_allVars

(* "A stale Entity never points at the entity that took its slot"          *)
(* (src/docs/xynok_ecs_overview.md:28): an entity that a sync point        *)
(* destroys is the one the command names.                                  *)
OnlyNamedDestroyed ==
  [][phase = "flush" =>
       \A e \in Live : ~ Exists(entities', e) =>
         NextCmd.op = "destroy" /\ NextCmd.e = e]_allVars

(* "never reissued" (entity.rs): the handle a create gives out is new.     *)
NeverReissued ==
  [][\A t \in Threads, values \in Bundles :
       RecordCreate(t, values) => Head(Handles(t)) \notin issued]_allVars
=============================================================================
