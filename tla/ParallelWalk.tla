---------------------------- MODULE ParallelWalk ----------------------------
(***************************************************************************)
(* Parallel queries, from the bytes of a chunk to the jobs that write them *)
(* (src/src/query/query_iter.rs, ParWalker, src/src/query/mod.rs,          *)
(* src/src/schedule/executor.rs): a chunk's layout is searched, chunks of  *)
(* it are filled, Query::iter_batch and Query::par_for_each_batch each cut *)
(* the rows, and the jobs of the latter turn components off through        *)
(* DetailItem::set_enabled, which reads, changes and writes a byte.        *)
(***************************************************************************)
EXTENDS ChunkLayout, QueryBatches, FiniteSets

CONSTANTS
  Walked,          \* the archetypes that are filled and walked
  Shapes(_),       \* the lengths their chunks may have, given max_len
  BatchAmounts,
  Threads,         \* bound on the jobs that run at a time
  MaxJobs          \* bound on the jobs of a call that is followed into its jobs

ASSUME ThreadsAssumption == Threads \in Nat \ {0} /\ MaxJobs \in Nat

VARIABLES
  starts,    \* the positions run_jobs was given: one for each job
  jobs,      \* what each job still has to write, the byte it has read, and
             \* for the properties what it wrote
  cleared    \* the bits that are 0 in the enable regions: chunk, byte, bit

parVars == <<searchVars, batchVars, starts, jobs, cleared>>

ParInit == LayoutInit /\ BatchesInit /\ starts = << >> /\ jobs = << >> /\ cleared = {}

----------------------------------------------------------------------------
RECURSIVE CutFrom(_, _, _), StartsFrom(_, _)

(* cut_batch: the pieces of the batch that starts here, and where the next *)
(* one does.                                                               *)
CutFrom(pos, left, pieces) ==
  LET len   == LenOf(pos.chunk)
      split == Split(pos.row, len, left)
      more  == Append(pieces, [chunk |-> pos.chunk, start |-> pos.row, end |-> split])
      ahead == NextNonEmpty(After(pos.chunk))
  IN
  CASE left = 0 \/ split = pos.row -> [pieces |-> pieces, next |-> <<pos>>]
    [] left # 0 /\ pos.row < split /\ split < len ->
         [pieces |-> more, next |-> <<[pos EXCEPT !.row = split]>>]
    [] left # 0 /\ pos.row < split /\ split = len ->
         IF ahead = NoChunk THEN [pieces |-> more, next |-> << >>]
         ELSE CutFrom([chunk |-> ahead, row |-> 0], left - (split - pos.row), more)

CutBatch(start, amount) == CutFrom(start, amount, << >>)

WholeChunk(start) ==
  [pieces |-> <<[chunk |-> start.chunk, start |-> 0, end |-> LenOf(start.chunk)]>>,
   next   |-> LET ahead == NextNonEmpty(After(start.chunk))
              IN IF ahead = NoChunk THEN << >> ELSE <<[chunk |-> ahead, row |-> 0]>>]

(* batch_starts with the amount, chunk_starts with 0.                      *)
Job(start, amount) == IF amount = 0 THEN WholeChunk(start) ELSE CutBatch(start, amount)

StartsFrom(next, amount) ==
  IF next = << >> THEN << >>
  ELSE next \o StartsFrom(Job(next[1], amount).next, amount)

Starts(amount) ==
  LET first == NextNonEmpty(<<1, 1>>)
  IN IF first = NoChunk THEN << >> ELSE StartsFrom(<<[chunk |-> first, row |-> 0]>>, amount)

(* What the job turns off: on the first and the last row of every piece,   *)
(* any byte two pieces share being one of theirs, each component that can  *)
(* be.                                                                     *)
Writes(start, amount) ==
  Seqs!FlattenSeq([i \in DOMAIN Job(start, amount).pieces |->
    LET piece == Job(start, amount).pieces[i] IN
    Seqs!SetToSeq({[chunk |-> piece.chunk, c |-> c, row |-> row] :
                     row \in {piece.start, piece.end - 1},
                     c \in {c \in DOMAIN components : components[c].enable_able}})])

ByteOf(w) == best.header.states[w.c].enable.offset + w.row \div BITS_PER_BYTE

BitOf(w) == <<w.chunk, ByteOf(w), w.row % BITS_PER_BYTE>>

----------------------------------------------------------------------------
StartSearch == SearchDone /\ components \in Walked /\ best.max_len > 0

(* Chunks of the layout are filled and the query cut into batches.         *)
Fill ==
  /\ StartSearch
  /\ \E shape \in Shapes(best.max_len), amount \in BatchAmounts : IterBatch(shape, amount)
  /\ UNCHANGED <<searchVars, starts, jobs, cleared>>

(* par_for_each_batch and par_for_each_chunk: the executor reads all       *)
(* starting positions before it runs any job.                              *)
ParForEach(amount) ==
  /\ lens # << >> /\ cut /\ starts = << >>
  /\ starts' = Starts(amount)
  /\ Len(starts') \in 1..MaxJobs
  /\ jobs' = [i \in DOMAIN starts' |->
                [todo |-> Writes(starts'[i], amount), read |-> << >>, wrote |-> {}]]
  /\ UNCHANGED <<searchVars, batchVars, cleared>>

Running == {i \in DOMAIN jobs : jobs[i].read # << >> \/ (jobs[i].wrote # {} /\ jobs[i].todo # << >>)}

(* write_bit: the byte is read and written back with one bit changed. A    *)
(* job a thread takes begins with its first row.                           *)
ReadByte(i) ==
  LET bit == BitOf(jobs[i].todo[1]) IN
  /\ jobs[i].todo # << >> /\ jobs[i].read = << >>
  /\ i \in Running \/ Cardinality(Running) < Threads
  /\ jobs' = [jobs EXCEPT ![i].read = <<{b \in cleared : b[1] = bit[1] /\ b[2] = bit[2]}>>]
  /\ UNCHANGED <<searchVars, batchVars, starts, cleared>>

WriteByte(i) ==
  LET bit == BitOf(jobs[i].todo[1]) IN
  /\ jobs[i].read # << >>
  /\ cleared' = {b \in cleared : b[1] # bit[1] \/ b[2] # bit[2]} \cup jobs[i].read[1] \cup {bit}
  /\ jobs' = [jobs EXCEPT ![i] = [todo |-> Tail(@.todo), read |-> << >>, wrote |-> @.wrote \cup {bit}]]
  /\ UNCHANGED <<searchVars, batchVars, starts>>

ParNext ==
  \/ Probe /\ UNCHANGED <<batchVars, starts, jobs, cleared>>
  \/ Fill
  \/ (CutRange \/ CloseBatch) /\ UNCHANGED <<searchVars, starts, jobs, cleared>>
  \/ \E amount \in {0, batch_amount} : ParForEach(amount)
  \/ \E i \in DOMAIN jobs : ReadByte(i) \/ WriteByte(i)

ParSpec == ParInit /\ [][ParNext]_parVars
----------------------------------------------------------------------------
(* par_for_each_batch cuts exactly the batches iter_batch does             *)
(* (query_iter.rs:615): a start found when the positions are listed means  *)
(* the same rows when its job runs.                                        *)
CutsAgree ==
  lens # << >> /\ cut =>
    [i \in DOMAIN Starts(batch_amount) |-> CutBatch(Starts(batch_amount)[i], batch_amount).pieces]
      = batches

(* No job loses a bit another one wrote, or changes one no job wrote: a    *)
(* byte is read and written back without a lock (detail.rs:135).           *)
NoLostBits == cleared = UNION {jobs[i].wrote : i \in DOMAIN jobs}
=============================================================================
