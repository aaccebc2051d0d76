---------------------------- MODULE QueryBatches ----------------------------
(***************************************************************************)
(* Query::iter_batch: the rows of a query cut into batches                 *)
(* (src/src/query/query_iter.rs, QueryBatches::next, one action for every  *)
(* turn of its loop). Of the matched archetypes only the lengths of their  *)
(* chunks are kept. Rows count from 0, as in the code: a cut must land on  *)
(* a border of the bytes that pack the enable bits.                        *)
(***************************************************************************)
EXTENDS Integers, Sequences

Seqs == INSTANCE SequencesExt

VARIABLES
  lens,          \* of each matched archetype, the lengths of its chunks
  batch_amount,
  cursor,        \* the chunk the ChunkCursor comes to next
  leftover,      \* the rest of a chunk the last batch had no room for
  room, ranges,  \* the batch next() is putting together
  batches,       \* what next() has returned
  cut            \* next() has returned None

batchVars == <<lens, batch_amount, cursor, leftover, room, ranges, batches, cut>>

MIN_BATCH_AMOUNT == 8

(* A chunk is its archetype and its index; a row range is a chunk and the  *)
(* rows from start up to end.                                              *)
NoChunk == << >>

Chunks == UNION {{<<a, c>> : c \in DOMAIN lens[a]} : a \in DOMAIN lens}

LenOf(chunk) == lens[chunk[1]][chunk[2]]

Before(p, q) == p[1] < q[1] \/ (p[1] = q[1] /\ p[2] <= q[2])

(* The first chunk with rows from this position on.                        *)
NextNonEmpty(pos) ==
  LET ahead == {chunk \in Chunks : Before(pos, chunk) /\ LenOf(chunk) > 0}
  IN IF ahead = {} THEN NoChunk
     ELSE CHOOSE chunk \in ahead : \A other \in ahead : Before(chunk, other)

After(chunk) == <<chunk[1], chunk[2] + 1>>

RangeSize(range) == range.end - range.start
SizeOf(rs) == Seqs!FoldLeft(LAMBDA n, range : n + RangeSize(range), 0, rs)

(* Bug: a cut lands where the room ends.                                   *)
Split_AnyRow(start, end, left) == IF start + left >= end THEN end ELSE start + left

(* Where a batch with so much room left cuts the rows start..end.          *)
Split(start, end, left) ==
  IF start + left >= end THEN end
  ELSE ((start + left) \div MIN_BATCH_AMOUNT) * MIN_BATCH_AMOUNT

BatchesInit ==
  /\ lens = << >> /\ batch_amount = 0
  /\ cursor = <<1, 1>>
  /\ leftover = << >>
  /\ room = 0 /\ ranges = << >>
  /\ batches = << >> /\ cut = TRUE

(* QueryBatches::new asserts the amount.                                   *)
IterBatch(shape, amount) ==
  /\ amount >= MIN_BATCH_AMOUNT
  /\ lens = << >>
  /\ lens' = shape
  /\ batch_amount' = amount /\ room' = amount
  /\ cut' = FALSE
  /\ UNCHANGED <<cursor, leftover, ranges, batches>>

(* What leftover.take() or the cursor gives.                               *)
NextRange ==
  IF leftover # << >> THEN leftover
  ELSE LET chunk == NextNonEmpty(cursor) IN
       IF chunk = NoChunk THEN << >>
       ELSE <<[chunk |-> chunk, start |-> 0, end |-> LenOf(chunk)]>>

(* Bug: the rest of a chunk is dropped.                                    *)
Leftover_Dropped(range, split) == << >>

Leftover(range, split) ==
  IF split < range.end THEN <<[range EXCEPT !.start = split]>> ELSE << >>

CutRange ==
  LET range == NextRange[1]
      split == Split(range.start, range.end, room)
  IN
  /\ ~ cut /\ room > 0
  /\ NextRange # << >>
  /\ split # range.start
  /\ ranges' = Append(ranges, [range EXCEPT !.end = split])
  /\ room' = room - (split - range.start)
  /\ leftover' = Leftover(range, split)
  /\ cursor' = IF leftover = << >> THEN After(range.chunk) ELSE cursor
  /\ UNCHANGED <<lens, batch_amount, batches, cut>>

(* No room, no room for a whole byte, or no rows: next() returns.          *)
CloseBatch ==
  LET range == NextRange[1]
      short == room > 0 /\ NextRange # << >>
  IN
  /\ ~ cut
  /\ short => Split(range.start, range.end, room) = range.start
  /\ leftover' = IF room > 0 THEN NextRange ELSE leftover
  /\ cursor' = IF short /\ leftover = << >> THEN After(range.chunk) ELSE cursor
  /\ batches' = IF ranges = << >> THEN batches ELSE Append(batches, ranges)
  /\ cut' = (ranges = << >>)
  /\ ranges' = << >>
  /\ room' = batch_amount
  /\ UNCHANGED <<lens, batch_amount>>

----------------------------------------------------------------------------
BatchNext ==
  \/ \E shape \in Seq(Seq(Nat)), amount \in Nat : IterBatch(shape, amount)
  \/ CutRange
  \/ CloseBatch

BatchSpec == BatchesInit /\ [][BatchNext]_batchVars
----------------------------------------------------------------------------
(* What has been handed out, the batch next() is at being the last.        *)
Handed == Append(batches, ranges)

Places == UNION {{<<i, k>> : k \in DOMAIN Handed[i]} : i \in DOMAIN Handed}

RangeAt(place) == Handed[place[1]][place[2]]

RowsOf(range) == {<<range.chunk, row>> : row \in range.start..(range.end - 1)}
BytesOf(range) == {<<range.chunk, row \div MIN_BATCH_AMOUNT>> : row \in range.start..(range.end - 1)}

AllRows == UNION {{<<chunk, row>> : row \in 0..(LenOf(chunk) - 1)} : chunk \in Chunks}

(* No two row ranges share a byte of an enable region, and so no row       *)
(* either, within a batch or between batches: each batch may go to a       *)
(* thread of its own (MIN_BATCH_AMOUNT's comment, query_iter.rs:394).      *)
BytesApart ==
  \A p, q \in Places : p # q => BytesOf(RangeAt(p)) \cap BytesOf(RangeAt(q)) = {}

(* The batches cover the rows of the query. None is larger than asked for, *)
(* only the last may be more than 7 rows short (Query::iter_batch), and    *)
(* none is empty: "Cannot happen on the first range" in QueryBatches::next.*)
BatchesCover ==
  /\ cut /\ lens # << >> => UNION {RowsOf(RangeAt(p)) : p \in Places} = AllRows
  /\ \A i \in DOMAIN batches :
       /\ SizeOf(batches[i]) \in 1..batch_amount
       /\ i < Len(batches) => SizeOf(batches[i]) > batch_amount - MIN_BATCH_AMOUNT
=============================================================================
