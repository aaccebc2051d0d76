----------------------------- MODULE Archetype -----------------------------
(***************************************************************************)
(* Archetype and Chunk (src/src/archetype/mod.rs, src/src/chunk/mod.rs) as *)
(* operators on their values.                                              *)
(*   a cell      one component of one entity with the state its column     *)
(*               tracks: value, enable bit, added tick, changed tick;      *)
(*   a row       the handle of an entity and its cells;                    *)
(*   a chunk     the sequence of its rows, as long as Chunk::len: what the *)
(*               memory holds beyond len is not read by anybody;           *)
(*   an archetype  its chunks and the queue of those with room.            *)
(* The columns of a chunk all have the same rows, so a row is one record   *)
(* here where the code moves it column by column. Chunk and row numbers    *)
(* start at 1.                                                             *)
(***************************************************************************)
EXTENDS Integers, Sequences

CONSTANTS
  Components,
  EnableAble,   \* components of STATE_DETECTION EnableAble(AndChangeAble)
  ChangeAble,   \* components of STATE_DETECTION (EnableAbleAnd)ChangeAble
  Disabled,     \* the values that come in a Disable wrapper
  ChunkLen      \* ChunkLayout::max_len of a regular archetype

ASSUME ComponentsAssumption == /\ EnableAble \subseteq Components
                               /\ ChangeAble \subseteq Components
                               /\ ChunkLen \in Nat \ {0}

Untracked == 0   \* the tick of a component without change detection

----------------------------------------------------------------------------
(* Cells.                                                                  *)

(* write_at: the component appears in the row for the first time, and      *)
(* starts with the ENABLE_VALUE of the type it is handed over in.          *)
WriteAt(c, value, tick) ==
  LET stamp == IF c \in ChangeAble THEN tick ELSE Untracked IN
  [value   |-> value,
   enabled |-> c \in EnableAble => value \notin Disabled,
   added   |-> stamp,
   changed |-> stamp]

(* replace_at, and a write through Mut: only changed moves.                *)
ReplaceAt(cell, c, value, tick) ==
  [cell EXCEPT !.value = value,
               !.changed = IF c \in ChangeAble THEN tick ELSE @]

(* DetailItem::set_enabled, which does not mark the component as changed.  *)
SetEnabledAt(cell, enabled) == [cell EXCEPT !.enabled = enabled]

NewCells(values, tick) ==
  [c \in DOMAIN values |-> WriteAt(c, values[c], tick)]

(* Bug: merge writes every value as if the component were new (issue #43). *)
MergedCells_Rewrites(cells, values, tick) ==
  [c \in DOMAIN cells \cup DOMAIN values |->
     IF c \in DOMAIN values THEN WriteAt(c, values[c], tick) ELSE cells[c]]

(* take_from, then write_or_replace_at: the cells of the row travel with   *)
(* their state, the values of T overwrite or join them.                    *)
MergedCells(cells, values, tick) ==
  [c \in DOMAIN cells \cup DOMAIN values |->
     IF c \notin DOMAIN values     THEN cells[c]
     ELSE IF c \in DOMAIN cells    THEN ReplaceAt(cells[c], c, values[c], tick)
     ELSE WriteAt(c, values[c], tick)]

(* Bug: the removed columns come along.                                    *)
RemainingCells_All(cells, removed) == cells

(* The columns the destination lacks are abandoned.                        *)
RemainingCells(cells, removed) == [c \in DOMAIN cells \ removed |-> cells[c]]

----------------------------------------------------------------------------
(* Chunks.                                                                 *)

(* backfill_last_row and move_state_within: the last row fills the hole,   *)
(* values, states and handle together.                                     *)
BackfillLastRow(rows, r) == [rows EXCEPT ![r] = rows[Len(rows)]]

(* Bug: the last row is cut off without filling the hole.                  *)
SwapRemoveAt_NoBackfill(rows, r) == SubSeq(rows, 1, Len(rows) - 1)

SwapRemoveAt(rows, r) == SubSeq(BackfillLastRow(rows, r), 1, Len(rows) - 1)

----------------------------------------------------------------------------
(* Archetypes.                                                             *)
NewArchetype(singleton, allow) ==
  [chunks |-> << >>, free_chunks |-> << >>, free_chunks_stored |-> {},
   is_singleton |-> singleton, allow_structure_change |-> allow]

(* A singleton's layout is fitted to one row.                              *)
MaxLen(a) == IF a.is_singleton THEN 1 ELSE ChunkLen

IsFull(a, chunk) == Len(a.chunks[chunk]) = MaxLen(a)

CanTakeARow(a) ==
  \/ ~ a.is_singleton
  \/ a.chunks = << >>
  \/ a.free_chunks # << >>

FreeChunkIdx(a) ==
  IF a.free_chunks # << >> THEN Head(a.free_chunks) ELSE Len(a.chunks) + 1

TakeAFreeChunkIdx(a) ==
  IF a.free_chunks # << >>
  THEN [a EXCEPT !.free_chunks = Tail(@),
                 !.free_chunks_stored = @ \ {Head(a.free_chunks)}]
  ELSE [a EXCEPT !.chunks = Append(@, << >>)]

(* Bug: a chunk already queued is queued again.                            *)
CacheFreeChunk_Twice(a, chunk) ==
  [a EXCEPT !.free_chunks = Append(@, chunk),
            !.free_chunks_stored = @ \cup {chunk}]

CacheFreeChunk(a, chunk) ==
  IF chunk \in a.free_chunks_stored
  THEN a
  ELSE [a EXCEPT !.free_chunks = Append(@, chunk),
                 !.free_chunks_stored = @ \cup {chunk}]

(* Bug: a chunk the push has just filled goes back to the queue.           *)
CacheUnlessFull_Always(a, chunk) == CacheFreeChunk(a, chunk)

CacheUnlessFull(a, chunk) == IF IsFull(a, chunk) THEN a ELSE CacheFreeChunk(a, chunk)

(* Bug: the row is always reported in a new chunk.                         *)
NextRow_NewChunk(a) == [chunk |-> Len(a.chunks) + 1, row |-> 1]

(* Where push puts the next row.                                           *)
NextRow(a) ==
  LET chunk == FreeChunkIdx(a) IN
  [chunk |-> chunk,
   row   |-> IF chunk \in DOMAIN a.chunks THEN Len(a.chunks[chunk]) + 1 ELSE 1]

Push(a, row) ==
  LET chunk == FreeChunkIdx(a) IN
  CacheUnlessFull([TakeAFreeChunkIdx(a) EXCEPT !.chunks[chunk] = Append(@, row)], chunk)

(* Bug: a full chunk that loses a row is not queued (issue #44).           *)
RemoveAt_NotQueued(a, chunk, r) == [a EXCEPT !.chunks[chunk] = SwapRemoveAt(@, r)]

RemoveAt(a, chunk, r) ==
  CacheFreeChunk([a EXCEPT !.chunks[chunk] = SwapRemoveAt(@, r)], chunk)
=============================================================================
