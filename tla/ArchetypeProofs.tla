-------------------------- MODULE ArchetypeProofs --------------------------
(***************************************************************************)
(* What Push and RemoveAt do to the rows of an archetype, and to its queue *)
(* of chunks with room, for rows of any kind and chunks of any size. The   *)
(* proofs about the world only use these facts, never the sequences.       *)
(***************************************************************************)
EXTENDS Archetype, TLAPS

(* Archetypes whose rows are of the set R.                                 *)
ArchetypesOf(R) ==
  [chunks : Seq(Seq(R)), free_chunks : Seq(Nat), free_chunks_stored : SUBSET Nat,
   is_singleton : BOOLEAN, allow_structure_change : BOOLEAN]

HasRow(a, chunk, r) == chunk \in DOMAIN a.chunks /\ r \in DOMAIN a.chunks[chunk]

RowAt(a, chunk, r) == a.chunks[chunk][r]

SameKind(a, b) ==
  /\ b.is_singleton = a.is_singleton
  /\ b.allow_structure_change = a.allow_structure_change

(* Chunks hold no more rows than their layout has room for.                *)
Fits(a) ==
  /\ \A chunk \in DOMAIN a.chunks : Len(a.chunks[chunk]) <= MaxLen(a)
  /\ a.is_singleton => Len(a.chunks) <= 1

(* The queue names the chunks with room, those of `out` apart, once each.  *)
QueueExactBut(a, out) ==
  /\ \A chunk : chunk \in a.free_chunks_stored <=>
       chunk \in DOMAIN a.chunks \ out /\ Len(a.chunks[chunk]) # MaxLen(a)
  /\ \A k \in DOMAIN a.free_chunks : a.free_chunks[k] \in a.free_chunks_stored
  /\ \A chunk \in a.free_chunks_stored : \E k \in DOMAIN a.free_chunks : a.free_chunks[k] = chunk
  /\ \A j, k \in DOMAIN a.free_chunks : a.free_chunks[j] = a.free_chunks[k] => j = k

QueueExact(a) == QueueExactBut(a, {})

Sound(a) == Fits(a) /\ QueueExact(a)
----------------------------------------------------------------------------
(* Sequences.                                                              *)

(* What the provers need of a sequence.                                   *)
LEMMA SeqFacts ==
  ASSUME NEW S, NEW s \in Seq(S)
  PROVE  /\ Len(s) \in Nat
         /\ DOMAIN s = 1..Len(s)
         /\ \A k \in DOMAIN s : s[k] \in S
         /\ s # << >> => /\ Len(s) > 0
                         /\ Head(s) = s[1]
                         /\ Tail(s) \in Seq(S)
                         /\ Len(Tail(s)) = Len(s) - 1
                         /\ DOMAIN Tail(s) = 1..(Len(s) - 1)
                         /\ \A k \in DOMAIN Tail(s) : Tail(s)[k] = s[k + 1]
OBVIOUS

(* One element more.                                                      *)
LEMMA AppendFacts ==
  ASSUME NEW S, NEW s \in Seq(S), NEW e \in S
  PROVE  /\ Append(s, e) \in Seq(S)
         /\ Len(Append(s, e)) = Len(s) + 1
         /\ DOMAIN Append(s, e) = 1..(Len(s) + 1)
         /\ \A k \in DOMAIN s : Append(s, e)[k] = s[k]
         /\ Append(s, e)[Len(s) + 1] = e
OBVIOUS

(* One element replaced.                                                  *)
LEMMA ReplaceFacts ==
  ASSUME NEW S, NEW s \in Seq(S), NEW e \in S, NEW i \in DOMAIN s
  PROVE  /\ [s EXCEPT ![i] = e] \in Seq(S)
         /\ Len([s EXCEPT ![i] = e]) = Len(s)
         /\ DOMAIN [s EXCEPT ![i] = e] = DOMAIN s
         /\ [s EXCEPT ![i] = e][i] = e
         /\ \A k \in DOMAIN s : k # i => [s EXCEPT ![i] = e][k] = s[k]
<1>1. Len(s) \in Nat /\ DOMAIN s = 1..Len(s) /\ \A k \in DOMAIN s : s[k] \in S
  OBVIOUS
<1>2. [s EXCEPT ![i] = e] \in [1..Len(s) -> S]
  BY <1>1
<1> QED BY <1>1, <1>2

(* swap_remove_at: one row less, the last one where row r was.             *)
LEMMA SwapRemoveFacts ==
  ASSUME NEW R, NEW rows \in Seq(R), NEW r \in DOMAIN rows
  PROVE  /\ SwapRemoveAt(rows, r) \in Seq(R)
         /\ Len(SwapRemoveAt(rows, r)) = Len(rows) - 1
         /\ DOMAIN SwapRemoveAt(rows, r) = 1..(Len(rows) - 1)
         /\ \A k \in 1..(Len(rows) - 1) : SwapRemoveAt(rows, r)[k] =
              IF k = r THEN rows[Len(rows)] ELSE rows[k]
<1>1. /\ Len(rows) \in Nat /\ DOMAIN rows = 1..Len(rows) /\ Len(rows) > 0
      /\ Len(rows) \in DOMAIN rows /\ rows[Len(rows)] \in R
  BY SeqFacts
<1> DEFINE s == BackfillLastRow(rows, r)
<1>2. /\ s \in Seq(R) /\ Len(s) = Len(rows) /\ DOMAIN s = DOMAIN rows
      /\ s[r] = rows[Len(rows)]
      /\ \A k \in DOMAIN rows : k # r => s[k] = rows[k]
  BY <1>1, ReplaceFacts DEF BackfillLastRow
<1> HIDE DEF s
<1>3. /\ SubSeq(s, 1, Len(rows) - 1) \in Seq(R)
      /\ Len(SubSeq(s, 1, Len(rows) - 1)) = Len(rows) - 1
      /\ \A k \in 1..(Len(rows) - 1) : SubSeq(s, 1, Len(rows) - 1)[k] = s[k]
  BY <1>1, <1>2
<1>4. SwapRemoveAt(rows, r) = SubSeq(s, 1, Len(rows) - 1)
  BY DEF SwapRemoveAt, s
<1>5. DOMAIN SwapRemoveAt(rows, r) = 1..(Len(rows) - 1)
  BY <1>3, <1>4
<1>6. ASSUME NEW k \in 1..(Len(rows) - 1)
      PROVE  SwapRemoveAt(rows, r)[k] = IF k = r THEN rows[Len(rows)] ELSE rows[k]
  BY <1>1, <1>2, <1>3, <1>4
<1> QED BY <1>3, <1>4, <1>5, <1>6
----------------------------------------------------------------------------
(* Archetypes.                                                             *)

(* The fields of an archetype, as the provers use them.                    *)
LEMMA FieldFacts ==
  ASSUME NEW R, NEW a \in ArchetypesOf(R)
  PROVE  /\ a.chunks \in Seq(Seq(R))
         /\ Len(a.chunks) \in Nat
         /\ DOMAIN a.chunks = 1..Len(a.chunks)
         /\ \A c \in DOMAIN a.chunks : /\ a.chunks[c] \in Seq(R)
                                       /\ Len(a.chunks[c]) \in Nat
                                       /\ DOMAIN a.chunks[c] = 1..Len(a.chunks[c])
         /\ a.free_chunks \in Seq(Nat)
         /\ Len(a.free_chunks) \in Nat
         /\ DOMAIN a.free_chunks = 1..Len(a.free_chunks)
         /\ a.free_chunks_stored \in SUBSET Nat
         /\ a.is_singleton \in BOOLEAN
         /\ a.allow_structure_change \in BOOLEAN
         /\ MaxLen(a) \in Nat \ {0}
<1>1. /\ a.chunks \in Seq(Seq(R))
      /\ a.free_chunks \in Seq(Nat)
      /\ a.free_chunks_stored \in SUBSET Nat
      /\ a.is_singleton \in BOOLEAN
      /\ a.allow_structure_change \in BOOLEAN
  BY DEF ArchetypesOf
<1>2. /\ Len(a.chunks) \in Nat
      /\ DOMAIN a.chunks = 1..Len(a.chunks)
      /\ \A c \in DOMAIN a.chunks : a.chunks[c] \in Seq(R)
  BY <1>1, SeqFacts
<1>3. \A c \in DOMAIN a.chunks : /\ Len(a.chunks[c]) \in Nat
                                 /\ DOMAIN a.chunks[c] = 1..Len(a.chunks[c])
  BY <1>2, SeqFacts
<1>4. Len(a.free_chunks) \in Nat /\ DOMAIN a.free_chunks = 1..Len(a.free_chunks)
  BY <1>1, SeqFacts
<1>5. MaxLen(a) \in Nat \ {0}
  BY ComponentsAssumption DEF MaxLen
<1> QED BY <1>1, <1>2, <1>3, <1>4, <1>5

(* An archetype starts without a chunk.                                    *)
LEMMA NewArchetypeFacts ==
  ASSUME NEW R, NEW singleton \in BOOLEAN, NEW allow \in BOOLEAN
  PROVE  /\ NewArchetype(singleton, allow) \in ArchetypesOf(R)
         /\ Sound(NewArchetype(singleton, allow))
         /\ \A c, r : ~ HasRow(NewArchetype(singleton, allow), c, r)
         /\ NewArchetype(singleton, allow).is_singleton = singleton
         /\ NewArchetype(singleton, allow).allow_structure_change = allow
         /\ CanTakeARow(NewArchetype(singleton, allow))
<1> DEFINE a == NewArchetype(singleton, allow)
<1>1. a = [chunks |-> << >>, free_chunks |-> << >>, free_chunks_stored |-> {},
           is_singleton |-> singleton, allow_structure_change |-> allow]
  BY DEF NewArchetype
<1>2. /\ a.chunks = << >> /\ a.free_chunks = << >> /\ a.free_chunks_stored = {}
      /\ a.is_singleton = singleton /\ a.allow_structure_change = allow
  BY <1>1
<1>3. a \in ArchetypesOf(R)
  BY <1>1 DEF ArchetypesOf
<1> HIDE DEF a
<1>4. DOMAIN a.chunks = {} /\ DOMAIN a.free_chunks = {} /\ Len(a.chunks) = 0
  BY <1>2
<1>5. Sound(a)
  BY <1>2, <1>4 DEF Sound, Fits, QueueExact, QueueExactBut
<1>6. (\A c, r : ~ HasRow(a, c, r)) /\ CanTakeARow(a)
  BY <1>2, <1>4 DEF HasRow, CanTakeARow
<1> QED BY <1>2, <1>3, <1>5, <1>6 DEF a

(* Other rows in one chunk, and nothing else.                              *)
LEMMA SetChunkFacts ==
  ASSUME NEW R, NEW a \in ArchetypesOf(R), NEW c \in DOMAIN a.chunks,
         NEW rows \in Seq(R), NEW b, b = [a EXCEPT !.chunks[c] = rows]
  PROVE  /\ b \in ArchetypesOf(R)
         /\ b.free_chunks = a.free_chunks
         /\ b.free_chunks_stored = a.free_chunks_stored
         /\ SameKind(a, b)
         /\ MaxLen(b) = MaxLen(a)
         /\ Len(b.chunks) = Len(a.chunks)
         /\ DOMAIN b.chunks = DOMAIN a.chunks
         /\ b.chunks[c] = rows
         /\ \A d \in DOMAIN a.chunks : d # c => b.chunks[d] = a.chunks[d]
<1>1. /\ b = [a EXCEPT !.chunks = [a.chunks EXCEPT ![c] = rows]]
      /\ b.free_chunks = a.free_chunks
      /\ b.free_chunks_stored = a.free_chunks_stored
      /\ b.is_singleton = a.is_singleton
      /\ b.allow_structure_change = a.allow_structure_change
      /\ b.chunks = [a.chunks EXCEPT ![c] = rows]
  BY DEF ArchetypesOf
<1>2. a.chunks \in Seq(Seq(R))
  BY FieldFacts
<1>3. /\ b.chunks \in Seq(Seq(R))
      /\ Len(b.chunks) = Len(a.chunks)
      /\ DOMAIN b.chunks = DOMAIN a.chunks
      /\ b.chunks[c] = rows
      /\ \A d \in DOMAIN a.chunks : d # c => b.chunks[d] = a.chunks[d]
  BY <1>1, <1>2, ReplaceFacts
<1>4. b \in ArchetypesOf(R)
  BY <1>1, <1>3 DEF ArchetypesOf
<1> QED BY <1>1, <1>3, <1>4 DEF SameKind, MaxLen

(* take_a_free_chunk_idx: the chunk has room, and is out of the queue.     *)
LEMMA TakeFacts ==
  ASSUME NEW R, NEW a \in ArchetypesOf(R), Sound(a), CanTakeARow(a),
         NEW b, b = TakeAFreeChunkIdx(a), NEW c, c = FreeChunkIdx(a)
  PROVE  /\ b \in ArchetypesOf(R)
         /\ SameKind(a, b)
         /\ MaxLen(b) = MaxLen(a)
         /\ Fits(b)
         /\ QueueExactBut(b, {c})
         /\ c \in DOMAIN b.chunks
         /\ Len(b.chunks[c]) < MaxLen(b)
         /\ NextRow(a) = [chunk |-> c, row |-> Len(b.chunks[c]) + 1]
         /\ \A d, r : HasRow(b, d, r) <=> HasRow(a, d, r)
         /\ \A d, r : HasRow(a, d, r) => RowAt(b, d, r) = RowAt(a, d, r)
<1>1. /\ a.chunks \in Seq(Seq(R))
      /\ Len(a.chunks) \in Nat
      /\ DOMAIN a.chunks = 1..Len(a.chunks)
      /\ \A d \in DOMAIN a.chunks : Len(a.chunks[d]) \in Nat
      /\ a.free_chunks \in Seq(Nat)
      /\ a.free_chunks_stored \in SUBSET Nat
      /\ MaxLen(a) \in Nat \ {0}
  BY FieldFacts
<1>2. CASE a.free_chunks # << >>
  <2>1. /\ b = [a EXCEPT !.free_chunks = Tail(a.free_chunks),
                        !.free_chunks_stored = a.free_chunks_stored \ {Head(a.free_chunks)}]
        /\ c = Head(a.free_chunks)
    BY <1>2 DEF TakeAFreeChunkIdx, FreeChunkIdx
  <2>2. /\ b.chunks = a.chunks
        /\ b.free_chunks = Tail(a.free_chunks)
        /\ b.free_chunks_stored = a.free_chunks_stored \ {c}
        /\ b.is_singleton = a.is_singleton
        /\ b.allow_structure_change = a.allow_structure_change
    BY <2>1 DEF ArchetypesOf
  <2>3. /\ Len(a.free_chunks) \in Nat /\ Len(a.free_chunks) > 0
        /\ DOMAIN a.free_chunks = 1..Len(a.free_chunks)
        /\ c = a.free_chunks[1]
        /\ b.free_chunks \in Seq(Nat)
        /\ DOMAIN b.free_chunks = 1..(Len(a.free_chunks) - 1)
        /\ \A k \in DOMAIN b.free_chunks : b.free_chunks[k] = a.free_chunks[k + 1]
    BY <1>1, <1>2, <2>1, <2>2, SeqFacts
  <2>4. b \in ArchetypesOf(R)
    BY <2>1, <2>2, <2>3 DEF ArchetypesOf
  <2>5. SameKind(a, b) /\ MaxLen(b) = MaxLen(a)
    BY <2>2 DEF SameKind, MaxLen
  <2>6. 1 \in DOMAIN a.free_chunks /\ c \in a.free_chunks_stored
    BY <2>3 DEF Sound, QueueExact, QueueExactBut
  <2>7. c \in DOMAIN a.chunks /\ Len(a.chunks[c]) # MaxLen(a)
    BY <2>6 DEF Sound, QueueExact, QueueExactBut
  <2>8. Len(a.chunks[c]) <= MaxLen(a) /\ Len(a.chunks[c]) \in Nat
    BY <1>1, <2>7 DEF Sound, Fits
  <2>9. Len(b.chunks[c]) < MaxLen(b)
    BY <1>1, <2>2, <2>5, <2>7, <2>8
  <2>10. Fits(b)
    BY <2>2, <2>5 DEF Fits, Sound
  <2>11. QueueExactBut(b, {c})
    <3>1. \A d : d \in b.free_chunks_stored <=>
            d \in DOMAIN b.chunks \ {c} /\ Len(b.chunks[d]) # MaxLen(b)
      BY <2>2, <2>5 DEF Sound, QueueExact, QueueExactBut
    <3>2. ASSUME NEW k \in DOMAIN b.free_chunks
          PROVE  b.free_chunks[k] \in b.free_chunks_stored
      <4>1. k + 1 \in DOMAIN a.free_chunks /\ k + 1 # 1
        BY <2>3
      <4>2. a.free_chunks[k + 1] \in a.free_chunks_stored /\ a.free_chunks[k + 1] # c
        BY <2>3, <2>6, <4>1 DEF Sound, QueueExact, QueueExactBut
      <4> QED BY <2>2, <2>3, <4>2
    <3>3. ASSUME NEW d \in b.free_chunks_stored
          PROVE  \E k \in DOMAIN b.free_chunks : b.free_chunks[k] = d
      <4>1. PICK k \in DOMAIN a.free_chunks : a.free_chunks[k] = d
        BY <2>2 DEF Sound, QueueExact, QueueExactBut
      <4>2. k # 1
        BY <2>2, <2>3, <4>1
      <4>3. k - 1 \in DOMAIN b.free_chunks /\ (k - 1) + 1 = k
        BY <2>3, <4>2
      <4> QED BY <2>3, <4>1, <4>3
    <3>4. ASSUME NEW j \in DOMAIN b.free_chunks, NEW k \in DOMAIN b.free_chunks,
                 b.free_chunks[j] = b.free_chunks[k]
          PROVE  j = k
      <4>1. j + 1 \in DOMAIN a.free_chunks /\ k + 1 \in DOMAIN a.free_chunks
        BY <2>3
      <4>2. a.free_chunks[j + 1] = a.free_chunks[k + 1]
        BY <2>3, <3>4
      <4>3. \A m, n \in DOMAIN a.free_chunks : a.free_chunks[m] = a.free_chunks[n] => m = n
        BY DEF Sound, QueueExact, QueueExactBut
      <4>4. j + 1 = k + 1
        BY <4>1, <4>2, <4>3
      <4> QED BY <2>3, <4>4
    <3> QED BY <3>1, <3>2, <3>3, <3>4 DEF QueueExactBut
  <2>12. NextRow(a) = [chunk |-> c, row |-> Len(b.chunks[c]) + 1]
    BY <2>2, <2>7 DEF NextRow
  <2> QED BY <2>2, <2>4, <2>5, <2>7, <2>9, <2>10, <2>11, <2>12 DEF HasRow, RowAt
<1>3. CASE a.free_chunks = << >>
  <2>1. b = [a EXCEPT !.chunks = Append(a.chunks, << >>)] /\ c = Len(a.chunks) + 1
    BY <1>3 DEF TakeAFreeChunkIdx, FreeChunkIdx
  <2>2. /\ b.chunks = Append(a.chunks, << >>)
        /\ b.free_chunks = << >>
        /\ b.free_chunks_stored = a.free_chunks_stored
        /\ b.is_singleton = a.is_singleton
        /\ b.allow_structure_change = a.allow_structure_change
    BY <1>3, <2>1 DEF ArchetypesOf
  <2>3. << >> \in Seq(R) /\ Len(<< >>) = 0
    OBVIOUS
  <2>4. /\ b.chunks \in Seq(Seq(R))
        /\ Len(b.chunks) = Len(a.chunks) + 1
        /\ DOMAIN b.chunks = 1..(Len(a.chunks) + 1)
        /\ \A d \in DOMAIN a.chunks : b.chunks[d] = a.chunks[d]
        /\ b.chunks[c] = << >>
    BY <1>1, <2>1, <2>2, <2>3, AppendFacts
  <2>5. b \in ArchetypesOf(R)
    BY <2>1, <2>2, <2>4 DEF ArchetypesOf
  <2>6. SameKind(a, b) /\ MaxLen(b) = MaxLen(a)
    BY <2>2 DEF SameKind, MaxLen
  <2>7. /\ c \in DOMAIN b.chunks /\ c \notin DOMAIN a.chunks
        /\ DOMAIN b.chunks = DOMAIN a.chunks \cup {c}
    <3>1. \A n \in Nat : /\ n + 1 \in 1..(n + 1) /\ n + 1 \notin 1..n
                         /\ 1..(n + 1) = 1..n \cup {n + 1}
      OBVIOUS
    <3>2. PICK n \in Nat : n = Len(a.chunks)
      BY <1>1
    <3>3. c = n + 1 /\ DOMAIN b.chunks = 1..(n + 1) /\ DOMAIN a.chunks = 1..n
      BY <1>1, <2>1, <2>4, <3>2
    <3>4. /\ n + 1 \in 1..(n + 1) /\ n + 1 \notin 1..n
          /\ 1..(n + 1) = 1..n \cup {n + 1}
      BY <3>1
    <3> QED BY <3>3, <3>4, Zenon
  <2>8. Len(b.chunks[c]) = 0 /\ Len(b.chunks[c]) < MaxLen(b)
    BY <1>1, <2>3, <2>4, <2>6
  <2>9. Fits(b)
    <3>1. ASSUME NEW d \in DOMAIN b.chunks PROVE Len(b.chunks[d]) <= MaxLen(b)
      <4>1. CASE d = c
        BY <1>1, <2>6, <2>8, <4>1
      <4>2. CASE d \in DOMAIN a.chunks
        BY <2>4, <2>6, <4>2 DEF Sound, Fits
      <4> QED BY <2>7, <4>1, <4>2
    <3>2. b.is_singleton => Len(b.chunks) <= 1
      <4>1. a.is_singleton => Len(a.chunks) = 0
        BY <1>3, <2>3 DEF CanTakeARow
      <4> QED BY <2>2, <2>4, <4>1
    <3> QED BY <3>1, <3>2 DEF Fits
  <2>10. DOMAIN b.free_chunks = {} /\ DOMAIN a.free_chunks = {}
    BY <1>3, <2>2
  <2>11. a.free_chunks_stored = {}
    BY <2>10 DEF Sound, QueueExact, QueueExactBut
  <2>12. QueueExactBut(b, {c})
    <3>1. \A d \in DOMAIN a.chunks : Len(a.chunks[d]) = MaxLen(a)
      BY <2>11 DEF Sound, QueueExact, QueueExactBut
    <3> QED BY <2>2, <2>4, <2>6, <2>7, <2>10, <2>11, <3>1 DEF QueueExactBut
  <2>13. NextRow(a) = [chunk |-> c, row |-> Len(b.chunks[c]) + 1]
    <3>1. FreeChunkIdx(a) \notin DOMAIN a.chunks
      BY <2>7
    <3> QED BY <2>8, <3>1 DEF NextRow
  <2>14. \A d, r : HasRow(b, d, r) <=> HasRow(a, d, r)
    <3>1. DOMAIN b.chunks[c] = {}
      BY <2>4
    <3> QED BY <2>4, <2>7, <3>1 DEF HasRow
  <2>15. \A d, r : HasRow(a, d, r) => RowAt(b, d, r) = RowAt(a, d, r)
    BY <2>4 DEF HasRow, RowAt
  <2> QED BY <2>5, <2>6, <2>7, <2>8, <2>9, <2>12, <2>13, <2>14, <2>15
<1> QED BY <1>2, <1>3

(* cache_free_chunk: a chunk with room is queued, unless it already is.    *)
LEMMA CacheFacts ==
  ASSUME NEW R, NEW a \in ArchetypesOf(R), NEW c \in DOMAIN a.chunks,
         Fits(a), Len(a.chunks[c]) # MaxLen(a),
         \/ QueueExact(a)
         \/ QueueExactBut(a, {c}),
         NEW b, b = CacheFreeChunk(a, c)
  PROVE  /\ b \in ArchetypesOf(R)
         /\ SameKind(a, b)
         /\ Sound(b)
         /\ b.chunks = a.chunks
<1>1. /\ DOMAIN a.chunks = 1..Len(a.chunks) /\ c \in Nat
      /\ a.free_chunks \in Seq(Nat)
      /\ Len(a.free_chunks) \in Nat
      /\ DOMAIN a.free_chunks = 1..Len(a.free_chunks)
      /\ a.free_chunks_stored \in SUBSET Nat
  BY FieldFacts
<1>2. CASE c \in a.free_chunks_stored
  <2>1. b = a /\ QueueExact(a)
    BY <1>2 DEF CacheFreeChunk, QueueExactBut
  <2> QED BY <2>1 DEF Sound, SameKind
<1>3. CASE c \notin a.free_chunks_stored
  <2>1. QueueExactBut(a, {c})
    BY <1>3 DEF QueueExact, QueueExactBut
  <2>2. b = [a EXCEPT !.free_chunks = Append(a.free_chunks, c),
                      !.free_chunks_stored = a.free_chunks_stored \cup {c}]
    BY <1>3 DEF CacheFreeChunk
  <2>3. /\ b.chunks = a.chunks
        /\ b.free_chunks = Append(a.free_chunks, c)
        /\ b.free_chunks_stored = a.free_chunks_stored \cup {c}
        /\ b.is_singleton = a.is_singleton
        /\ b.allow_structure_change = a.allow_structure_change
    BY <2>2 DEF ArchetypesOf
  <2>4. PICK n \in Nat : n = Len(a.free_chunks)
    BY <1>1
  <2>5. /\ b.free_chunks \in Seq(Nat)
        /\ DOMAIN b.free_chunks = 1..(n + 1)
        /\ DOMAIN a.free_chunks = 1..n
        /\ \A k \in 1..n : b.free_chunks[k] = a.free_chunks[k]
        /\ b.free_chunks[n + 1] = c
        /\ n + 1 \in 1..(n + 1)
        /\ \A k \in 1..(n + 1) : k \in 1..n \/ k = n + 1
        /\ \A k \in 1..n : k \in 1..(n + 1)
    BY <1>1, <2>3, <2>4, AppendFacts
  <2>6. b \in ArchetypesOf(R)
    BY <1>1, <2>2, <2>3, <2>5 DEF ArchetypesOf
  <2>7. SameKind(a, b) /\ MaxLen(b) = MaxLen(a)
    BY <2>3 DEF SameKind, MaxLen
  <2>8. Fits(b)
    BY <2>3, <2>7 DEF Fits
  <2>9. QueueExact(b)
    <3>1. \A d : d \in b.free_chunks_stored <=>
            d \in DOMAIN b.chunks /\ Len(b.chunks[d]) # MaxLen(b)
      BY <2>1, <2>3, <2>7 DEF QueueExactBut
    <3>2. \A k \in DOMAIN b.free_chunks : b.free_chunks[k] \in b.free_chunks_stored
      BY <2>1, <2>3, <2>5 DEF QueueExactBut
    <3>3. \A d \in b.free_chunks_stored : \E k \in DOMAIN b.free_chunks : b.free_chunks[k] = d
      BY <2>1, <2>3, <2>5 DEF QueueExactBut
    <3>4. ASSUME NEW j \in 1..(n + 1), NEW k \in 1..(n + 1),
                 b.free_chunks[j] = b.free_chunks[k]
          PROVE  j = k
      <4>1. \A m \in 1..n : b.free_chunks[m] # c
        BY <1>3, <2>1, <2>5 DEF QueueExactBut
      <4>2. CASE j \in 1..n /\ k \in 1..n
        BY <2>1, <2>5, <3>4, <4>2 DEF QueueExactBut
      <4> QED BY <2>5, <3>4, <4>1, <4>2
    <3> QED BY <2>5, <3>1, <3>2, <3>3, <3>4 DEF QueueExact, QueueExactBut
  <2> QED BY <2>3, <2>6, <2>7, <2>8, <2>9 DEF Sound
<1> QED BY <1>2, <1>3

(* Archetype::push: a row more, where NextRow says, and every other row    *)
(* where it was.                                                           *)
LEMMA PushFacts ==
  ASSUME NEW R, NEW a \in ArchetypesOf(R), Sound(a), CanTakeARow(a),
         NEW row \in R, NEW b, b = Push(a, row), NEW at, at = NextRow(a)
  PROVE  /\ b \in ArchetypesOf(R)
         /\ Sound(b)
         /\ SameKind(a, b)
         /\ at = [chunk |-> at.chunk, row |-> at.row]
         /\ at.chunk \in Nat /\ at.row \in Nat
         /\ ~ HasRow(a, at.chunk, at.row)
         /\ RowAt(b, at.chunk, at.row) = row
         /\ \A d, r : HasRow(b, d, r) <=> HasRow(a, d, r) \/ (d = at.chunk /\ r = at.row)
         /\ \A d, r : HasRow(a, d, r) => RowAt(b, d, r) = RowAt(a, d, r)
<1> DEFINE t == TakeAFreeChunkIdx(a)
           c == FreeChunkIdx(a)
           m == [t EXCEPT !.chunks[c] = Append(@, row)]
<1>1. /\ t \in ArchetypesOf(R) /\ SameKind(a, t) /\ Fits(t)
      /\ QueueExactBut(t, {c})
      /\ c \in DOMAIN t.chunks
      /\ Len(t.chunks[c]) < MaxLen(t)
      /\ at = [chunk |-> c, row |-> Len(t.chunks[c]) + 1]
      /\ \A d, r : HasRow(t, d, r) <=> HasRow(a, d, r)
      /\ \A d, r : HasRow(a, d, r) => RowAt(t, d, r) = RowAt(a, d, r)
  BY TakeFacts
<1>2. b = CacheUnlessFull(m, c) /\ m = [t EXCEPT !.chunks[c] = Append(t.chunks[c], row)]
  BY DEF Push
<1> HIDE DEF t, c, m
<1>3. /\ t.chunks[c] \in Seq(R) /\ Len(t.chunks[c]) \in Nat
      /\ DOMAIN t.chunks[c] = 1..Len(t.chunks[c])
      /\ MaxLen(t) \in Nat \ {0}
      /\ DOMAIN t.chunks = 1..Len(t.chunks)
  BY <1>1, FieldFacts
<1>4. PICK n \in Nat : n = Len(t.chunks[c])
  BY <1>3
<1>5. PICK rows \in Seq(R) : rows = Append(t.chunks[c], row)
  BY <1>3, AppendFacts
<1>6. /\ Len(rows) = n + 1
      /\ DOMAIN rows = 1..(n + 1)
      /\ DOMAIN t.chunks[c] = 1..n
      /\ \A k \in 1..n : rows[k] = t.chunks[c][k]
      /\ rows[n + 1] = row
      /\ n + 1 \in 1..(n + 1) /\ n + 1 \notin 1..n
      /\ \A k \in 1..(n + 1) : k \in 1..n \/ k = n + 1
      /\ \A k \in 1..n : k \in 1..(n + 1)
  BY <1>3, <1>4, <1>5, AppendFacts
<1>7. /\ m \in ArchetypesOf(R)
      /\ m.free_chunks = t.free_chunks
      /\ m.free_chunks_stored = t.free_chunks_stored
      /\ SameKind(t, m)
      /\ MaxLen(m) = MaxLen(t)
      /\ Len(m.chunks) = Len(t.chunks)
      /\ DOMAIN m.chunks = DOMAIN t.chunks
      /\ m.chunks[c] = rows
      /\ \A d \in DOMAIN t.chunks : d # c => m.chunks[d] = t.chunks[d]
  <2>1. m = [t EXCEPT !.chunks[c] = rows]
    BY <1>2, <1>5
  <2>2. t \in ArchetypesOf(R) /\ c \in DOMAIN t.chunks
    BY <1>1
  <2> QED BY <2>1, <2>2, SetChunkFacts
<1>8. Fits(m)
  BY <1>1, <1>3, <1>4, <1>6, <1>7 DEF Fits, SameKind
<1>9. QueueExactBut(m, {c})
  BY <1>1, <1>7 DEF QueueExactBut
<1>10. /\ b \in ArchetypesOf(R) /\ SameKind(m, b) /\ Sound(b) /\ b.chunks = m.chunks
  <2>1. CASE IsFull(m, c)
    <3>1. b = m
      BY <1>2, <2>1 DEF CacheUnlessFull
    <3>2. QueueExact(m)
      <4>1. Len(m.chunks[c]) = MaxLen(m)
        BY <2>1 DEF IsFull
      <4> QED BY <1>9, <4>1 DEF QueueExact, QueueExactBut
    <3> QED BY <1>7, <1>8, <3>1, <3>2 DEF Sound, SameKind
  <2>2. CASE ~ IsFull(m, c)
    <3>1. b = CacheFreeChunk(m, c) /\ Len(m.chunks[c]) # MaxLen(m)
      BY <1>2, <2>2 DEF CacheUnlessFull, IsFull
    <3>2. c \in DOMAIN m.chunks
      BY <1>1, <1>7
    <3> QED BY <1>7, <1>8, <1>9, <3>1, <3>2, CacheFacts
  <2> QED BY <2>1, <2>2
<1>11. at.chunk = c /\ at.row = n + 1 /\ at = [chunk |-> at.chunk, row |-> at.row]
  BY <1>1, <1>4
<1>12. at.chunk \in Nat /\ at.row \in Nat
  BY <1>1, <1>3, <1>11
<1>13. ~ HasRow(a, at.chunk, at.row)
  BY <1>1, <1>6, <1>11 DEF HasRow
<1>14. RowAt(b, at.chunk, at.row) = row
  BY <1>6, <1>7, <1>10, <1>11 DEF RowAt
<1>15. \A d, r : HasRow(b, d, r) <=> HasRow(t, d, r) \/ (d = c /\ r = n + 1)
  BY <1>1, <1>6, <1>7, <1>10 DEF HasRow
<1>16. \A d, r : HasRow(t, d, r) => RowAt(b, d, r) = RowAt(t, d, r)
  BY <1>6, <1>7, <1>10 DEF HasRow, RowAt
<1>17. SameKind(a, b)
  BY <1>1, <1>7, <1>10 DEF SameKind
<1> QED BY <1>1, <1>10, <1>11, <1>12, <1>13, <1>14, <1>15, <1>16, <1>17

(* swap_remove_at with the chunk queued again: the last row of the chunk   *)
(* is gone from where it was, and in the place of the one removed.         *)
LEMMA RemoveAtFacts ==
  ASSUME NEW R, NEW a \in ArchetypesOf(R), Sound(a),
         NEW c, NEW r, HasRow(a, c, r), NEW b, b = RemoveAt(a, c, r),
         NEW last, last = Len(a.chunks[c])
  PROVE  /\ b \in ArchetypesOf(R)
         /\ Sound(b)
         /\ SameKind(a, b)
         /\ HasRow(a, c, last)
         /\ \A d, s : HasRow(b, d, s) <=> HasRow(a, d, s) /\ ~ (d = c /\ s = last)
         /\ \A d, s : HasRow(b, d, s) =>
              RowAt(b, d, s) = IF d = c /\ s = r THEN RowAt(a, c, last) ELSE RowAt(a, d, s)
<1>1. /\ c \in DOMAIN a.chunks /\ r \in DOMAIN a.chunks[c]
      /\ a.chunks[c] \in Seq(R) /\ last \in Nat
      /\ DOMAIN a.chunks[c] = 1..last
      /\ MaxLen(a) \in Nat \ {0}
      /\ last <= MaxLen(a)
  BY FieldFacts DEF HasRow, Sound, Fits
<1>2. PICK rows : rows = SwapRemoveAt(a.chunks[c], r)
  OBVIOUS
<1>3. /\ rows \in Seq(R)
      /\ Len(rows) = last - 1
      /\ DOMAIN rows = 1..(last - 1)
      /\ \A k \in 1..(last - 1) : rows[k] = IF k = r THEN a.chunks[c][last] ELSE a.chunks[c][k]
  <2>1. PICK s : s = a.chunks[c]
    OBVIOUS
  <2>2. s \in Seq(R) /\ r \in DOMAIN s /\ last = Len(s) /\ rows = SwapRemoveAt(s, r)
    BY <1>1, <1>2, <2>1
  <2>3. /\ rows \in Seq(R)
        /\ Len(rows) = last - 1
        /\ DOMAIN rows = 1..(last - 1)
        /\ \A k \in 1..(last - 1) : rows[k] = IF k = r THEN s[last] ELSE s[k]
    BY ONLY <2>2, SwapRemoveFacts
  <2> QED BY <2>1, <2>3
<1>4. /\ last \in 1..last
      /\ \A k : k \in 1..(last - 1) <=> k \in 1..last /\ k # last
  BY <1>1
<1> DEFINE m == [a EXCEPT !.chunks[c] = SwapRemoveAt(@, r)]
<1>5. m = [a EXCEPT !.chunks[c] = rows] /\ b = CacheFreeChunk(m, c)
  BY <1>2 DEF RemoveAt
<1> HIDE DEF m
<1>6. /\ m \in ArchetypesOf(R)
      /\ m.free_chunks = a.free_chunks
      /\ m.free_chunks_stored = a.free_chunks_stored
      /\ SameKind(a, m)
      /\ MaxLen(m) = MaxLen(a)
      /\ Len(m.chunks) = Len(a.chunks)
      /\ DOMAIN m.chunks = DOMAIN a.chunks
      /\ m.chunks[c] = rows
      /\ \A d \in DOMAIN a.chunks : d # c => m.chunks[d] = a.chunks[d]
  BY <1>1, <1>3, <1>5, SetChunkFacts
<1>7. Len(m.chunks[c]) # MaxLen(m) /\ Len(m.chunks[c]) <= MaxLen(m)
  BY <1>1, <1>3, <1>6
<1>8. Fits(m)
  BY <1>6, <1>7 DEF Sound, Fits, SameKind
<1>9. QueueExact(m) \/ QueueExactBut(m, {c})
  <2>1. CASE c \in a.free_chunks_stored
    BY <1>1, <1>6, <1>7, <2>1 DEF Sound, QueueExact, QueueExactBut
  <2>2. CASE c \notin a.free_chunks_stored
    BY <1>1, <1>6, <1>7, <2>2 DEF Sound, QueueExact, QueueExactBut
  <2> QED BY <2>1, <2>2
<1>10. b \in ArchetypesOf(R) /\ SameKind(m, b) /\ Sound(b) /\ b.chunks = m.chunks
  <2>1. c \in DOMAIN m.chunks /\ m \in ArchetypesOf(R)
    BY <1>1, <1>6
  <2>2. Len(m.chunks[c]) # MaxLen(m) /\ b = CacheFreeChunk(m, c)
    BY <1>5, <1>7
  <2>3. Fits(m) /\ (QueueExact(m) \/ QueueExactBut(m, {c}))
    BY <1>8, <1>9
  <2> QED BY ONLY <2>1, <2>2, <2>3, CacheFacts
<1>11. \A d, s : HasRow(b, d, s) <=> HasRow(a, d, s) /\ ~ (d = c /\ s = last)
  BY <1>1, <1>3, <1>4, <1>6, <1>10 DEF HasRow
<1>12. \A d, s : HasRow(b, d, s) =>
         RowAt(b, d, s) = IF d = c /\ s = r THEN RowAt(a, c, last) ELSE RowAt(a, d, s)
  BY <1>3, <1>6, <1>10 DEF HasRow, RowAt
<1>13. HasRow(a, c, last)
  BY <1>1, <1>4 DEF HasRow
<1>14. SameKind(a, b)
  BY <1>6, <1>10 DEF SameKind
<1> QED BY <1>10, <1>11, <1>12, <1>13, <1>14

ReplaceRow(a, chunk, r, row) ==
  [a EXCEPT !.chunks[chunk] = [a.chunks[chunk] EXCEPT ![r] = row]]

(* A row rewritten in place: a write of a query, or a merge of components  *)
(* the entity has.                                                         *)
LEMMA ReplaceRowFacts ==
  ASSUME NEW R, NEW a \in ArchetypesOf(R), Sound(a),
         NEW c, NEW r, HasRow(a, c, r), NEW row \in R,
         NEW b, b = ReplaceRow(a, c, r, row)
  PROVE  /\ b \in ArchetypesOf(R)
         /\ Sound(b)
         /\ SameKind(a, b)
         /\ \A d, s : HasRow(b, d, s) <=> HasRow(a, d, s)
         /\ \A d, s : HasRow(b, d, s) =>
              RowAt(b, d, s) = IF d = c /\ s = r THEN row ELSE RowAt(a, d, s)
<1>1. c \in DOMAIN a.chunks /\ r \in DOMAIN a.chunks[c] /\ a.chunks[c] \in Seq(R)
  BY FieldFacts DEF HasRow
<1>2. PICK rows : rows = [a.chunks[c] EXCEPT ![r] = row]
  OBVIOUS
<1>3. /\ rows \in Seq(R)
      /\ Len(rows) = Len(a.chunks[c])
      /\ DOMAIN rows = DOMAIN a.chunks[c]
      /\ rows[r] = row
      /\ \A k \in DOMAIN a.chunks[c] : k # r => rows[k] = a.chunks[c][k]
  BY <1>1, <1>2, ReplaceFacts
<1>4. b = [a EXCEPT !.chunks[c] = rows]
  BY <1>2 DEF ReplaceRow
<1>5. /\ b \in ArchetypesOf(R)
      /\ b.free_chunks = a.free_chunks
      /\ b.free_chunks_stored = a.free_chunks_stored
      /\ SameKind(a, b)
      /\ MaxLen(b) = MaxLen(a)
      /\ Len(b.chunks) = Len(a.chunks)
      /\ DOMAIN b.chunks = DOMAIN a.chunks
      /\ b.chunks[c] = rows
      /\ \A d \in DOMAIN a.chunks : d # c => b.chunks[d] = a.chunks[d]
  <2>1. c \in DOMAIN a.chunks /\ rows \in Seq(R)
    BY <1>1, <1>3
  <2> QED BY <1>4, <2>1, SetChunkFacts
<1>6. ASSUME NEW d \in DOMAIN a.chunks
      PROVE  Len(b.chunks[d]) = Len(a.chunks[d])
  <2>1. CASE d = c
    BY <1>3, <1>5, <2>1
  <2>2. CASE d # c
    BY <1>5, <2>2
  <2> QED BY <2>1, <2>2
<1>7. Sound(b)
  <2>1. Fits(b)
    BY <1>5, <1>6 DEF Sound, Fits, SameKind
  <2>2. \A d : d \in b.free_chunks_stored <=>
          d \in DOMAIN b.chunks /\ Len(b.chunks[d]) # MaxLen(b)
    BY <1>5, <1>6 DEF Sound, QueueExact, QueueExactBut
  <2>3. QueueExact(b)
    BY <1>5, <2>2 DEF Sound, QueueExact, QueueExactBut
  <2> QED BY <2>1, <2>3 DEF Sound
<1>8. \A d, s : HasRow(b, d, s) <=> HasRow(a, d, s)
  BY <1>1, <1>3, <1>5 DEF HasRow
<1>9. \A d, s : HasRow(b, d, s) =>
        RowAt(b, d, s) = IF d = c /\ s = r THEN row ELSE RowAt(a, d, s)
  BY <1>1, <1>3, <1>5 DEF HasRow, RowAt
<1> QED BY <1>5, <1>7, <1>8, <1>9
=============================================================================
