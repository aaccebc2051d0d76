----------------------------- MODULE QueryWalk -----------------------------
(***************************************************************************)
(* Queries walked over a world that keeps changing (src/src/query/         *)
(* query_iter.rs, src/src/query/mod.rs, src/src/schedule/scheduler.rs).    *)
(* A step of the program is a system on its own or a group of systems: its *)
(* queries are prepared together, then every job builds its own and walks  *)
(* it, as often as it likes. The world does not change under a group,      *)
(* whose commands wait; a system on its own acts at once through Cmd, and  *)
(* without an executor the systems of a group are each on their own. A     *)
(* query of the world's owner is a system on its own that changes nothing: *)
(* it borrows the world.                                                   *)
(***************************************************************************)
EXTENDS QueryRegistry

CONSTANTS
  Queries,       \* the queries of the program
  CarefulWalks   \* a system on its own changes nothing in the middle of a walk

ASSUME WalkAssumption == /\ CarefulWalks \in BOOLEAN
                         /\ Queries \subseteq Seq(Elements)

VARIABLES
  step,   \* the queries of the running step and whether it is a system on its own
  walk    \* the iterator of one of its jobs

walkVars == <<vars, registries, step, walk>>

NoStep == [queries |-> {}, alone |-> FALSE, version |-> 0]

(* A walk: the query and its matched archetypes left, the current one and  *)
(* the next chunk of it, the rows of the current chunk. item says that the *)
(* last call of next returned one; visited is all it returned, due what it *)
(* owes: these two are only there for the properties. Iterators share      *)
(* nothing, so one at a time shows what several would.                     *)
NoWalk == [query |-> << >>, arch_indices |-> << >>, arch |-> 0, chunk |-> 1, row |-> 1,
           end |-> 0, item |-> FALSE, visited |-> << >>, due |-> {}]

(* What is read beyond a chunk's len: no live entity is there.             *)
NoEntity == [idx |-> 0, version |-> 0]

WalkInit == RegistryInit /\ step = NoStep /\ walk = NoWalk

ChunksOf(arch) == archetypes[arch_specs.values[arch].components].chunks

(* T::EXCLUDE_ONLY.                                                        *)
ExcludeOnly(q) == \A i \in DOMAIN q : q[i].access = "exclude"

(* accepts: every element of the tuple is asked.                           *)
Accepts(q, row) ==
  \A i \in DOMAIN q : q[i].filter # "none" => row.cells[q[i].c].enabled = (q[i].filter = "enabled")

(* The entities a walk of q owes: all that have what it names and pass its *)
(* filters, in archetypes that were there when the step began.             *)
Due(q) ==
  {e \in Live :
     /\ ~ ExcludeOnly(q)
     /\ Selects(q, SpecOf(e).arch)
     /\ \E i \in 1..(step.version - 1) : arch_specs.values[i].components = SpecOf(e).arch
     /\ Accepts(q, RowsAround(e)[SpecOf(e).row])}

----------------------------------------------------------------------------
(* create_query, run_system and run_system_group: prepare comes before any *)
(* job, on one thread. A tuple refused by AccessScope::extend panics there.*)
(* The queries are one system's, which runs alone, or those of a group.    *)
(* Without an executor a group is a step per system, each alone.           *)
BeginStep(qs) ==
  LET reg == Seqs!FoldLeft(PrepareQuery,
                           [components |-> component_counter, queries |-> query_counter], qs)
  IN
  /\ step = NoStep
  /\ component_counter' = reg.components
  /\ query_counter' = reg.queries
  /\ \/ /\ \A i \in DOMAIN qs : ContainsKey(reg.queries, qs[i])
        /\ \E alone \in BOOLEAN :
             step' = [queries |-> Seqs!ToSet(qs), alone |-> alone,
                      version |-> global_archetype_version]
     \/ /\ \E i \in DOMAIN qs : ~ ContainsKey(reg.queries, qs[i])
        /\ UNCHANGED step
  /\ UNCHANGED <<vars, arch_specs, component_set_counter, global_archetype_version, walk>>

Walks(w) ==
  /\ walk' = w
  /\ UNCHANGED <<vars, registries, step>>

(* A job builds its query with Query::new_prepared, and each call of iter  *)
(* starts a ChunkCursor on the list the query has by then.                 *)
BeginWalk(q) ==
  /\ q \in step.queries
  /\ walk = NoWalk
  /\ Usable(q) \/ step.alone
  /\ Walks([NoWalk EXCEPT !.query = q, !.due = Due(q),
                          !.arch_indices = IF ExcludeOnly(q) THEN << >> ELSE ArchIndices(q)])

InChunk == walk.row <= walk.end
MoreChunks == walk.arch # 0 /\ walk.chunk <= Len(ChunksOf(walk.arch))

(* One turn of the loop of QueryIter::next within a chunk. Beyond the      *)
(* chunk's len lies the handle of a row that moved away.                   *)
VisitRow ==
  LET rows  == ChunksOf(walk.arch)[walk.chunk - 1]
      there == walk.row \in DOMAIN rows
      takes == there => Accepts(walk.query, rows[walk.row])
      e     == IF there THEN rows[walk.row].e ELSE NoEntity
  IN
  /\ InChunk
  /\ Walks([walk EXCEPT !.row = @ + 1, !.item = takes,
                        !.visited = IF takes THEN Append(@, e) ELSE @])

(* Bug: an empty chunk ends the walk.                                      *)
NextChunk_StopsAtEmpty ==
  LET rows == ChunksOf(walk.arch)[walk.chunk] IN
  /\ ~ InChunk
  /\ MoreChunks
  /\ Walks([walk EXCEPT !.chunk = @ + 1, !.row = 1, !.item = FALSE, !.end = Len(rows),
                        !.arch_indices = IF rows = << >> THEN << >> ELSE @])

(* ChunkCursor::next_chunk: an empty chunk is one without rows to visit.   *)
NextChunk ==
  /\ ~ InChunk
  /\ MoreChunks
  /\ Walks([walk EXCEPT !.chunk = @ + 1, !.row = 1, !.item = FALSE,
                        !.end = Len(ChunksOf(walk.arch)[walk.chunk])])

(* Bug: the index of the chunk is not reset.                               *)
NextArchetype_KeepsChunk ==
  /\ ~ InChunk /\ ~ MoreChunks
  /\ walk.arch_indices # << >>
  /\ Walks([walk EXCEPT !.arch_indices = Tail(@), !.arch = Head(walk.arch_indices),
                        !.item = FALSE])

NextArchetype ==
  /\ ~ InChunk /\ ~ MoreChunks
  /\ walk.arch_indices # << >>
  /\ Walks([walk EXCEPT !.arch_indices = Tail(@), !.arch = Head(walk.arch_indices),
                        !.chunk = 1, !.item = FALSE])

Finished == ~ InChunk /\ ~ MoreChunks /\ walk.arch_indices = << >>

(* The body drops the iterator, at its end or before.                      *)
EndWalk == walk # NoWalk /\ Walks(NoWalk)

EndStep ==
  /\ step # NoStep
  /\ walk = NoWalk
  /\ step' = NoStep
  /\ UNCHANGED <<vars, registries, walk>>

(* Changes to the world: between steps, in a system on its own, and there  *)
(* in the middle of a walk too unless systems are careful. A change that   *)
(* registers an archetype would move the registry the iterator points into *)
(* and is left out in the middle of a walk.                                *)
Change ==
  /\ step = NoStep \/ step.alone
  /\ walk = NoWalk \/ (~ CarefulWalks /\ walk.item)
  /\ CmdStep \/ (step = NoStep /\ OwnerStep)
  /\ walk # NoWalk => arch_specs' = arch_specs
  /\ UNCHANGED <<step, walk>>

WalkNext ==
  \/ Change
  \/ \E q \in Queries :
       \/ BeginStep(<<q>>)
       \/ \E r \in Queries \ {q} : BeginStep(<<q, r>>)
       \/ BeginWalk(q)
  \/ VisitRow \/ NextChunk \/ NextArchetype \/ EndWalk
  \/ EndStep

WalkSpec == WalkInit /\ [][WalkNext]_walkVars
----------------------------------------------------------------------------
(* Type correctness: the walk of a running step is of one of its queries,  *)
(* over archetypes that exist, and its cursor is within their chunks.      *)
WalkTypeOK ==
  /\ TypeOK
  /\ step.queries \subseteq Queries
  /\ walk # NoWalk => walk.query \in step.queries
  /\ walk.arch \in 0..Len(arch_specs.values)
  /\ walk.chunk \in 1..(IF walk.arch = 0 THEN 1 ELSE Len(ChunksOf(walk.arch)) + 1)
  /\ walk.due \subseteq Entity

(* No job of a step meets a query that is not registered or whose list is  *)
(* older than the world: inside a group nothing may be prepared any more,  *)
(* and new_prepared would fail the job (mod.rs:819).                       *)
PreparedInTime ==
  \A q \in step.queries :
    Usable(q) \/ (step.alone /\ global_archetype_version # step.version)

(* A walk hands out every entity it owes exactly once, and no other: what  *)
(* the iterators' SAFETY comments rest on when they hand out &mut.         *)
WalkExact ==
  LET visited == Seqs!ToSet(walk.visited) IN
  /\ Len(walk.visited) = Cardinality(visited)
  /\ visited \subseteq walk.due
  /\ Finished => visited = walk.due

(* The row the iterator reads next is below the len of its chunk           *)
(* (query_iter.rs:188, the SAFETY comment of QueryIter::next).             *)
RowBelowLen == InChunk => walk.end <= Len(ChunksOf(walk.arch)[walk.chunk - 1])
=============================================================================
