------------------------- MODULE QueryBatchesProofs -------------------------
(***************************************************************************)
(* For any chunks and any batch amount: the ranges that iter_batch hands   *)
(* out share no byte of an enable region, together they are the rows of    *)
(* the query, and the batches are filled but for the last.                 *)
(***************************************************************************)
EXTENDS QueryBatches, FiniteSetTheorems, WellFoundedInduction, TLAPS

RowRange == [chunk : Nat \X Nat, start : Nat, end : Nat]

BatchTypes ==
  /\ lens \in Seq(Seq(Nat))
  /\ batch_amount \in Nat /\ room \in Nat
  /\ cursor \in Nat \X Nat
  /\ leftover \in {<< >>} \cup {<<range>> : range \in RowRange}
  /\ ranges \in Seq(RowRange)
  /\ batches \in Seq(Seq(RowRange))
  /\ cut \in BOOLEAN

(* Strictly before the cursor's position.                                  *)
Passed(chunk, pos) == ~ Before(pos, chunk)

OnBorder(row) == row % MIN_BATCH_AMOUNT = 0

InOrder(r, s) == r.chunk = s.chunk => r.end <= s.start

(* The chunk of a range the cursor has passed, cut at a border.            *)
Placed(r, pos) == Passed(r.chunk, pos) /\ OnBorder(r.start)

(* All ranges handed out, by batch and place in it.                        *)
HandedPlaced ==
  \A i \in DOMAIN Handed : \A k \in DOMAIN Handed[i] : Placed(Handed[i][k], cursor)

HandedApart ==
  \A i, j \in DOMAIN Handed : \A k \in DOMAIN Handed[i], l \in DOMAIN Handed[j] :
    <<i, k>> # <<j, l>> =>
      InOrder(Handed[i][k], Handed[j][l]) \/ InOrder(Handed[j][l], Handed[i][k])

(* The leftover is what follows all that was handed out of its chunk.      *)
LeftoverLast ==
  leftover # << >> =>
    /\ Placed(leftover[1], cursor)
    /\ leftover[1].start < leftover[1].end
    /\ \A i \in DOMAIN Handed : \A k \in DOMAIN Handed[i] : InOrder(Handed[i][k], leftover[1])

BInv == BatchTypes /\ HandedPlaced /\ HandedApart /\ LeftoverLast
----------------------------------------------------------------------------
(* Chunks and the order the cursor takes them in.                          *)

(* Before is a total order, and After the next position in it.             *)
LEMMA BeforeOrder ==
  ASSUME NEW p \in Nat \X Nat, NEW q \in Nat \X Nat, NEW r \in Nat \X Nat
  PROVE  /\ Before(p, q) \/ Before(q, p)
         /\ Before(p, q) /\ Before(q, r) => Before(p, r)
         /\ After(p) \in Nat \X Nat
         /\ ~ Before(After(p), p)
         /\ Before(p, After(p))
BY DEF Before, After

LessThan == {pair \in Nat \X Nat : pair[1] < pair[2]}

(* A set of numbers that is not empty has a least one.                     *)
LEMMA LeastNumber ==
  ASSUME NEW S \in SUBSET Nat, S # {}
  PROVE  \E m \in S : \A n \in S : m <= n
<1>1. IsWellFoundedOn(LessThan, Nat)
  BY NatLessThanWellFounded, Zenon DEF OpToRel, LessThan
<1>2. PICK m \in S : \A n \in S : ~ (<<n, m>> \in LessThan)
  BY <1>1, WFMin
<1>3. \A n \in Nat : n < m => <<n, m>> \in LessThan
  BY DEF LessThan
<1>4. ASSUME NEW n \in S PROVE m <= n
  <2>1. m \in Nat /\ n \in Nat
    OBVIOUS
  <2>2. ~ (n < m)
    BY <1>2, <1>3, <2>1, Zenon
  <2> QED BY <2>1, <2>2
<1> QED BY <1>4

(* A set of positions that is not empty has a first one.                   *)
LEMMA FirstPosition ==
  ASSUME NEW S \in SUBSET (Nat \X Nat), S # {}
  PROVE  \E p \in S : \A q \in S : Before(p, q)
<1> DEFINE As == {p[1] : p \in S}
<1>1. As \in SUBSET Nat /\ As # {}
  OBVIOUS
<1>2. PICK a \in As : \A b \in As : a <= b
  BY <1>1, LeastNumber
<1> DEFINE Cs == {p[2] : p \in {q \in S : q[1] = a}}
<1>3. Cs \in SUBSET Nat /\ Cs # {}
  OBVIOUS
<1>4. PICK c \in Cs : \A d \in Cs : c <= d
  BY <1>3, LeastNumber
<1>5. PICK p \in S : p[1] = a /\ p[2] = c
  OBVIOUS
<1>6. ASSUME NEW q \in S PROVE Before(p, q)
  <2>1. q[1] \in As /\ q[1] \in Nat /\ a \in Nat
    BY <1>1
  <2>2. CASE q[1] = a
    <3>1. q[2] \in Cs
      BY <2>2
    <3> QED BY <3>1, <1>4, <1>5, <2>2 DEF Before
  <2>3. CASE q[1] # a
    BY <2>1, <2>3, <1>2, <1>5 DEF Before
  <2> QED BY <2>2, <2>3
<1> QED BY <1>6

(* A chunk is a position, and its length is a number.                      *)
LEMMA ChunksFacts ==
  ASSUME lens \in Seq(Seq(Nat))
  PROVE  /\ Chunks \subseteq Nat \X Nat
         /\ \A chunk \in Chunks : LenOf(chunk) \in Nat
BY DEF Chunks, LenOf

(* next_chunk gives a chunk with rows that the cursor has not passed.      *)
LEMMA NextNonEmptyFacts ==
  ASSUME lens \in Seq(Seq(Nat)), NEW pos \in Nat \X Nat, NextNonEmpty(pos) # NoChunk
  PROVE  /\ NextNonEmpty(pos) \in Chunks
         /\ NextNonEmpty(pos) \in Nat \X Nat
         /\ Before(pos, NextNonEmpty(pos))
         /\ LenOf(NextNonEmpty(pos)) \in Nat \ {0}
<1> DEFINE ahead == {chunk \in Chunks : Before(pos, chunk) /\ LenOf(chunk) > 0}
<1>1. ahead # {} /\ NextNonEmpty(pos) = CHOOSE chunk \in ahead : \A other \in ahead : Before(chunk, other)
  BY DEF NextNonEmpty
<1>2. ahead \in SUBSET (Nat \X Nat)
  BY ChunksFacts
<1>3. \E chunk \in ahead : \A other \in ahead : Before(chunk, other)
  BY <1>1, <1>2, FirstPosition
<1>4. NextNonEmpty(pos) \in ahead
  BY <1>1, <1>3
<1> QED BY <1>4, <1>2, ChunksFacts
----------------------------------------------------------------------------
(* A cut: whole bytes, unless it is the end of the rows.                   *)
LEMMA SplitFacts ==
  ASSUME NEW start \in Nat, NEW end \in Nat, NEW left \in Nat, OnBorder(start), start < end
  PROVE  LET split == Split(start, end, left) IN
         /\ split \in Nat
         /\ start <= split /\ split <= end
         /\ split < end => OnBorder(split)
         /\ left >= MIN_BATCH_AMOUNT => split # start
BY DEF Split, OnBorder, MIN_BATCH_AMOUNT

(* The rows a turn of the loop cuts.                                       *)
LEMMA NextRangeFacts ==
  ASSUME BInv, NextRange # << >>
  PROVE  LET range == NextRange[1] IN
         /\ NextRange = <<range>> /\ range \in RowRange
         /\ OnBorder(range.start) /\ range.start < range.end
         /\ leftover # << >> => Passed(range.chunk, cursor)
         /\ leftover = << >> => Before(cursor, range.chunk)
         /\ \A i \in DOMAIN Handed : \A k \in DOMAIN Handed[i] : InOrder(Handed[i][k], range)
<1>1. CASE leftover # << >>
  BY <1>1 DEF NextRange, BInv, BatchTypes, LeftoverLast, Placed
<1>2. CASE leftover = << >>
  <2> DEFINE chunk == NextNonEmpty(cursor)
             range == [chunk |-> chunk, start |-> 0, end |-> LenOf(chunk)]
  <2>1. chunk # NoChunk /\ NextRange = <<range>>
    BY <1>2 DEF NextRange
  <2>2. lens \in Seq(Seq(Nat)) /\ cursor \in Nat \X Nat
    BY DEF BInv, BatchTypes
  <2>3. /\ chunk \in Nat \X Nat
        /\ Before(cursor, chunk)
        /\ LenOf(chunk) \in Nat \ {0}
    BY <2>1, <2>2, NextNonEmptyFacts
  <2>4. range \in RowRange /\ OnBorder(range.start) /\ range.start < range.end
    BY <2>3 DEF RowRange, OnBorder, MIN_BATCH_AMOUNT
  <2>5. \A i \in DOMAIN Handed : \A k \in DOMAIN Handed[i] : InOrder(Handed[i][k], range)
    BY <2>3 DEF BInv, HandedPlaced, Placed, Passed, InOrder
  <2> QED BY <1>2, <2>1, <2>3, <2>4, <2>5
<1> QED BY <1>1, <1>2
----------------------------------------------------------------------------
(* What a step adds to the ranges handed out.                              *)

SameAt(i, k) ==
  /\ i \in DOMAIN Handed /\ k \in DOMAIN Handed[i]
  /\ Handed'[i][k] = Handed[i][k]

(* A range handed out is a row range of some position.                     *)
LEMMA HandedTypes ==
  ASSUME BatchTypes
  PROVE  \A i \in DOMAIN Handed : \A k \in DOMAIN Handed[i] :
           Handed[i][k] \in RowRange /\ Handed[i][k].chunk \in Nat \X Nat
<1>1. Handed \in Seq(Seq(RowRange))
  BY DEF BatchTypes, Handed
<1> SUFFICES ASSUME NEW i \in DOMAIN Handed, NEW k \in DOMAIN Handed[i]
             PROVE  Handed[i][k] \in RowRange /\ Handed[i][k].chunk \in Nat \X Nat
  OBVIOUS
<1>2. Handed[i] \in Seq(RowRange)
  BY <1>1
<1>3. Handed[i][k] \in RowRange
  BY <1>2
<1> QED BY <1>3 DEF RowRange

(* After a cut: what was there, and the new range at the end.              *)
LEMMA HandedAfterCut ==
  ASSUME BatchTypes, NEW new \in RowRange, batches' = batches, ranges' = Append(ranges, new)
  PROVE  \A i \in DOMAIN Handed' : \A k \in DOMAIN Handed'[i] :
           \/ SameAt(i, k)
           \/ i = Len(batches) + 1 /\ k = Len(ranges) + 1 /\ Handed'[i][k] = new
<1>1. Handed = Append(batches, ranges) /\ Handed' = Append(batches, Append(ranges, new))
  BY DEF Handed
<1>2. batches \in Seq(Seq(RowRange)) /\ ranges \in Seq(RowRange)
  BY DEF BatchTypes
<1> SUFFICES ASSUME NEW i \in DOMAIN Handed', NEW k \in DOMAIN Handed'[i]
             PROVE  \/ SameAt(i, k)
                    \/ i = Len(batches) + 1 /\ k = Len(ranges) + 1 /\ Handed'[i][k] = new
  OBVIOUS
<1>3. CASE i = Len(batches) + 1
  <2>1. Handed'[i] = Append(ranges, new) /\ Handed[i] = ranges /\ i \in DOMAIN Handed
    BY <1>1, <1>2, <1>3
  <2>2. CASE k = Len(ranges) + 1
    BY <1>2, <1>3, <2>1, <2>2
  <2>3. CASE k # Len(ranges) + 1
    <3>1. k \in DOMAIN ranges /\ Append(ranges, new)[k] = ranges[k]
      BY <1>2, <2>1, <2>3
    <3> QED BY <2>1, <3>1 DEF SameAt
  <2> QED BY <2>2, <2>3
<1>4. CASE i # Len(batches) + 1
  <2>1. i \in DOMAIN batches /\ Handed'[i] = batches[i] /\ Handed[i] = batches[i] /\ i \in DOMAIN Handed
    BY <1>1, <1>2, <1>4
  <2> QED BY <2>1 DEF SameAt
<1> QED BY <1>3, <1>4

(* After a batch closes: what was there, an empty batch behind it.         *)
LEMMA HandedAfterClose ==
  ASSUME BatchTypes, ranges' = << >>,
         batches' = IF ranges = << >> THEN batches ELSE Append(batches, ranges)
  PROVE  \A i \in DOMAIN Handed' : \A k \in DOMAIN Handed'[i] : SameAt(i, k)
<1>1. Handed = Append(batches, ranges)
  BY DEF Handed
<1>2. batches \in Seq(Seq(RowRange)) /\ ranges \in Seq(RowRange)
  BY DEF BatchTypes
<1> SUFFICES ASSUME NEW i \in DOMAIN Handed', NEW k \in DOMAIN Handed'[i]
             PROVE  SameAt(i, k)
  OBVIOUS
<1>3. CASE ranges = << >>
  <2>1. Handed' = Handed
    BY <1>3 DEF Handed
  <2> QED BY <2>1 DEF SameAt
<1>4. CASE ranges # << >>
  <2>1. Handed' = Append(Handed, << >>) /\ Handed \in Seq(Seq(RowRange))
    BY <1>1, <1>2, <1>4 DEF Handed
  <2>2. i # Len(Handed) + 1
    BY <2>1
  <2>3. i \in DOMAIN Handed /\ Handed'[i] = Handed[i]
    BY <2>1, <2>2
  <2> QED BY <2>3 DEF SameAt
<1> QED BY <1>3, <1>4

(* The cursor only moves on.                                               *)
LEMMA PassedStays ==
  ASSUME NEW c \in Nat \X Nat, NEW pos \in Nat \X Nat, NEW next \in Nat \X Nat,
         Before(pos, next), Passed(c, pos)
  PROVE  Passed(c, After(next)) /\ c # next
BY BeforeOrder DEF Passed, Before, After
----------------------------------------------------------------------------
(* Before the first call nothing is handed out.                            *)
THEOREM BatchesInitial == BatchesInit => BInv
<1> SUFFICES ASSUME BatchesInit PROVE BInv
  OBVIOUS
<1> USE DEF BatchesInit
<1>1. BatchTypes
  BY DEF BatchTypes
<1>2. DOMAIN Handed = {1} /\ Handed[1] = << >>
  BY DEF Handed
<1>3. \A i \in DOMAIN Handed : DOMAIN Handed[i] = {}
  BY <1>2
<1> QED BY <1>1, <1>3 DEF BInv, HandedPlaced, HandedApart, LeftoverLast

(* iter_batch and next(): what is handed out stays apart.                  *)
LEMMA IterBatchKeeps ==
  ASSUME BInv, NEW shape \in Seq(Seq(Nat)), NEW amount \in Nat, IterBatch(shape, amount)
  PROVE  BInv'
<1>1. BatchTypes'
  BY DEF BInv, BatchTypes, IterBatch
<1>2. Handed' = Handed /\ cursor' = cursor /\ leftover' = leftover
  BY DEF IterBatch, Handed
<1>3. HandedPlaced' /\ HandedApart' /\ LeftoverLast'
  BY <1>2 DEF BInv, HandedPlaced, HandedApart, LeftoverLast, Placed, Passed, Before, OnBorder, InOrder
<1> QED BY <1>1, <1>3 DEF BInv

(* A cut: the new range follows all that was handed out of its chunk, and  *)
(* what is left of the chunk follows the new range.                        *)
LEMMA CutRangeKeeps ==
  ASSUME BInv, CutRange
  PROVE  BInv'
<1> DEFINE range == NextRange[1]
           split == Split(range.start, range.end, room)
           new   == [range EXCEPT !.end = split]
<1>1. /\ NextRange = <<range>> /\ range \in RowRange
      /\ OnBorder(range.start) /\ range.start < range.end
      /\ leftover # << >> => Passed(range.chunk, cursor)
      /\ leftover = << >> => Before(cursor, range.chunk)
      /\ \A i \in DOMAIN Handed : \A k \in DOMAIN Handed[i] : InOrder(Handed[i][k], range)
  BY NextRangeFacts DEF CutRange
<1>2. /\ range.chunk \in Nat \X Nat /\ range.start \in Nat /\ range.end \in Nat
      /\ BatchTypes /\ room \in Nat /\ cursor \in Nat \X Nat
  BY <1>1 DEF RowRange, BInv, BatchTypes
<1>3. /\ split \in Nat /\ range.start <= split /\ split <= range.end
      /\ split < range.end => OnBorder(split)
      /\ split # range.start
  BY <1>1, <1>2, SplitFacts DEF CutRange
<1>4. /\ new \in RowRange /\ new.chunk = range.chunk /\ new.start = range.start /\ new.end = split
  BY <1>1, <1>2, <1>3 DEF RowRange
<1>5. /\ ranges' = Append(ranges, new)
      /\ room' = room - (split - range.start)
      /\ leftover' = Leftover(range, split)
      /\ cursor' = IF leftover = << >> THEN After(range.chunk) ELSE cursor
      /\ UNCHANGED <<lens, batch_amount, batches, cut>>
  BY DEF CutRange
<1>6. split - range.start <= room
  BY <1>1, <1>2, <1>3 DEF Split, MIN_BATCH_AMOUNT
<1>7. BatchTypes'
  <2>1. room' \in Nat
    BY <1>2, <1>3, <1>5, <1>6
  <2>2. cursor' \in Nat \X Nat
    BY <1>2, <1>5, BeforeOrder
  <2>3. leftover' \in {<< >>} \cup {<<r>> : r \in RowRange}
    BY <1>1, <1>2, <1>3, <1>5 DEF Leftover, RowRange
  <2>4. ranges' \in Seq(RowRange)
    BY <1>2, <1>4, <1>5 DEF BatchTypes
  <2> QED BY <1>2, <1>5, <2>1, <2>2, <2>3, <2>4 DEF BatchTypes
<1>8. \A i \in DOMAIN Handed' : \A k \in DOMAIN Handed'[i] :
        \/ SameAt(i, k)
        \/ i = Len(batches) + 1 /\ k = Len(ranges) + 1 /\ Handed'[i][k] = new
  BY <1>2, <1>4, <1>5, HandedAfterCut
<1>9. \A c \in Nat \X Nat : Passed(c, cursor) => Passed(c, cursor')
  BY <1>1, <1>2, <1>5, PassedStays
<1>10. Passed(range.chunk, cursor')
  BY <1>1, <1>2, <1>5, BeforeOrder DEF Passed
<1>11. HandedPlaced'
  <2> SUFFICES ASSUME NEW i \in DOMAIN Handed', NEW k \in DOMAIN Handed'[i]
               PROVE  Placed(Handed'[i][k], cursor')
    BY DEF HandedPlaced, Placed, Passed, Before, OnBorder
  <2>1. CASE SameAt(i, k)
    BY <1>2, <1>9, <2>1, HandedTypes DEF SameAt, BInv, HandedPlaced, Placed
  <2>2. CASE Handed'[i][k] = new
    BY <1>1, <1>4, <1>10, <2>2 DEF Placed
  <2> QED BY <1>8, <2>1, <2>2
<1>12. \A i, k : SameAt(i, k) => InOrder(Handed'[i][k], new)
  BY <1>1, <1>4 DEF SameAt, InOrder
<1>13. HandedApart'
  <2> SUFFICES ASSUME NEW i \in DOMAIN Handed', NEW j \in DOMAIN Handed',
                      NEW k \in DOMAIN Handed'[i], NEW l \in DOMAIN Handed'[j],
                      <<i, k>> # <<j, l>>
               PROVE  InOrder(Handed'[i][k], Handed'[j][l]) \/ InOrder(Handed'[j][l], Handed'[i][k])
    BY DEF HandedApart, InOrder
  <2>1. CASE SameAt(i, k) /\ SameAt(j, l)
    BY <2>1 DEF SameAt, BInv, HandedApart
  <2>2. CASE SameAt(i, k) /\ Handed'[j][l] = new
    BY <1>12, <2>2
  <2>3. CASE Handed'[i][k] = new /\ SameAt(j, l)
    BY <1>12, <2>3
  <2> QED BY <1>8, <2>1, <2>2, <2>3
<1>14. LeftoverLast'
  <2> SUFFICES ASSUME leftover' # << >> PROVE LeftoverLast'
    BY DEF LeftoverLast
  <2> DEFINE rest == [range EXCEPT !.start = split]
  <2>1. leftover' = <<rest>> /\ split < range.end
    BY <1>5 DEF Leftover
  <2>2. rest.chunk = range.chunk /\ rest.start = split /\ rest.end = range.end
    BY <1>1 DEF RowRange
  <2>3. leftover'[1] = rest
    BY <2>1
  <2>4. Placed(rest, cursor') /\ rest.start < rest.end
    BY <1>3, <1>10, <2>1, <2>2 DEF Placed
  <2>5. ASSUME NEW i \in DOMAIN Handed', NEW k \in DOMAIN Handed'[i]
        PROVE  InOrder(Handed'[i][k], rest)
    <3>1. CASE SameAt(i, k)
      <4>1. Handed[i][k].end \in Nat
        BY <1>2, <3>1, HandedTypes DEF SameAt, RowRange
      <4> QED BY <1>1, <1>2, <1>3, <2>2, <3>1, <4>1 DEF SameAt, InOrder
    <3>2. CASE Handed'[i][k] = new
      BY <1>3, <1>4, <2>2, <3>2 DEF InOrder
    <3> QED BY <1>8, <3>1, <3>2
  <2> QED BY <2>3, <2>4, <2>5 DEF LeftoverLast, Placed, Passed, Before, OnBorder, InOrder
<1> QED BY <1>7, <1>11, <1>13, <1>14 DEF BInv

(* A batch that closes hands out nothing new; a range it has taken but not *)
(* cut stays in leftover.                                                  *)
LEMMA CloseBatchKeeps ==
  ASSUME BInv, CloseBatch
  PROVE  BInv'
<1> DEFINE range == NextRange[1]
           short == room > 0 /\ NextRange # << >>
<1>1. /\ leftover' = IF room > 0 THEN NextRange ELSE leftover
      /\ cursor' = IF short /\ leftover = << >> THEN After(range.chunk) ELSE cursor
      /\ batches' = IF ranges = << >> THEN batches ELSE Append(batches, ranges)
      /\ cut' = (ranges = << >>) /\ ranges' = << >> /\ room' = batch_amount
      /\ UNCHANGED <<lens, batch_amount>>
  BY DEF CloseBatch
<1>2. BatchTypes /\ cursor \in Nat \X Nat /\ room \in Nat
  BY DEF BInv, BatchTypes
<1>3. ASSUME NextRange # << >>
      PROVE  /\ NextRange = <<range>> /\ range \in RowRange /\ range.chunk \in Nat \X Nat
             /\ OnBorder(range.start) /\ range.start < range.end
             /\ leftover # << >> => Passed(range.chunk, cursor)
             /\ leftover = << >> => Before(cursor, range.chunk)
             /\ \A i \in DOMAIN Handed : \A k \in DOMAIN Handed[i] : InOrder(Handed[i][k], range)
  BY <1>3, NextRangeFacts DEF RowRange
<1>4. BatchTypes'
  <2>1. cursor' \in Nat \X Nat
    BY <1>1, <1>2, <1>3, BeforeOrder
  <2>2. leftover' \in {<< >>} \cup {<<r>> : r \in RowRange}
    BY <1>1, <1>2, <1>3 DEF BatchTypes
  <2>3. batches' \in Seq(Seq(RowRange)) /\ ranges' \in Seq(RowRange)
    BY <1>1, <1>2 DEF BatchTypes
  <2> QED BY <1>1, <1>2, <2>1, <2>2, <2>3 DEF BatchTypes
<1>5. \A i \in DOMAIN Handed' : \A k \in DOMAIN Handed'[i] : SameAt(i, k)
  BY <1>1, <1>2, HandedAfterClose
<1>6. \A c \in Nat \X Nat : Passed(c, cursor) => Passed(c, cursor')
  BY <1>1, <1>2, <1>3, PassedStays
<1>7. HandedPlaced'
  <2> SUFFICES ASSUME NEW i \in DOMAIN Handed', NEW k \in DOMAIN Handed'[i]
               PROVE  Placed(Handed'[i][k], cursor')
    BY DEF HandedPlaced, Placed, Passed, Before, OnBorder
  <2> QED BY <1>2, <1>5, <1>6, HandedTypes DEF SameAt, BInv, HandedPlaced, Placed
<1>8. HandedApart'
  <2> SUFFICES ASSUME NEW i \in DOMAIN Handed', NEW j \in DOMAIN Handed',
                      NEW k \in DOMAIN Handed'[i], NEW l \in DOMAIN Handed'[j],
                      <<i, k>> # <<j, l>>
               PROVE  InOrder(Handed'[i][k], Handed'[j][l]) \/ InOrder(Handed'[j][l], Handed'[i][k])
    BY DEF HandedApart, InOrder
  <2> QED BY <1>5 DEF SameAt, BInv, HandedApart
<1>9. LeftoverLast'
  <2> SUFFICES ASSUME leftover' # << >> PROVE LeftoverLast'
    BY DEF LeftoverLast
  <2>1. CASE room > 0
    <3>1. NextRange # << >> /\ leftover' = <<range>> /\ leftover'[1] = range
      BY <1>1, <1>3, <2>1
    <3>2. Passed(range.chunk, cursor')
      BY <1>1, <1>2, <1>3, <2>1, <3>1, BeforeOrder DEF Passed
    <3>3. \A i \in DOMAIN Handed' : \A k \in DOMAIN Handed'[i] : InOrder(Handed'[i][k], range)
      BY <1>3, <1>5, <3>1 DEF SameAt
    <3> QED BY <1>3, <3>1, <3>2, <3>3
            DEF LeftoverLast, Placed, Passed, Before, OnBorder, InOrder
  <2>2. CASE ~ (room > 0)
    <3>1. leftover' = leftover /\ cursor' = cursor
      BY <1>1, <2>2
    <3>2. \A i \in DOMAIN Handed' : \A k \in DOMAIN Handed'[i] : InOrder(Handed'[i][k], leftover[1])
      BY <1>5, <3>1 DEF SameAt, BInv, LeftoverLast
    <3> QED BY <3>1, <3>2 DEF BInv, LeftoverLast, Placed, Passed, Before, OnBorder, InOrder
  <2> QED BY <2>1, <2>2
<1> QED BY <1>4, <1>7, <1>8, <1>9 DEF BInv

(* QueryBatches::next keeps the ranges of a chunk one behind the other,    *)
(* each from a border on, in chunks the ChunkCursor has passed.            *)
THEOREM BatchesInvariant == BatchSpec => []BInv
<1>1. BInv /\ [BatchNext]_batchVars => BInv'
  <2> SUFFICES ASSUME BInv, [BatchNext]_batchVars PROVE BInv'
    OBVIOUS
  <2>1. CASE \E shape \in Seq(Seq(Nat)), amount \in Nat : IterBatch(shape, amount)
    BY <2>1, IterBatchKeeps
  <2>2. CASE CutRange
    BY <2>2, CutRangeKeeps
  <2>3. CASE CloseBatch
    BY <2>3, CloseBatchKeeps
  <2>4. CASE UNCHANGED batchVars
    <3>1. BatchTypes'
      BY <2>4 DEF batchVars, BInv, BatchTypes
    <3>2. Handed' = Handed /\ cursor' = cursor /\ leftover' = leftover
      BY <2>4 DEF batchVars, Handed
    <3>3. HandedPlaced' /\ HandedApart' /\ LeftoverLast'
      BY <3>2 DEF BInv, HandedPlaced, HandedApart, LeftoverLast, Placed, Passed, Before, OnBorder, InOrder
    <3> QED BY <3>1, <3>3 DEF BInv
  <2> QED BY <2>1, <2>2, <2>3, <2>4 DEF BatchNext
<1> QED BY <1>1, BatchesInitial, PTL DEF BatchSpec
----------------------------------------------------------------------------
(* Ranges of one chunk, one behind the other, from border to border.       *)
LEMMA InOrderApart ==
  ASSUME NEW r \in RowRange, NEW s \in RowRange, InOrder(r, s), OnBorder(s.start)
  PROVE  BytesOf(r) \cap BytesOf(s) = {}
<1> SUFFICES ASSUME NEW row \in r.start..(r.end - 1), NEW other \in s.start..(s.end - 1),
                    <<r.chunk, row \div MIN_BATCH_AMOUNT>> = <<s.chunk, other \div MIN_BATCH_AMOUNT>>
             PROVE  FALSE
  BY DEF BytesOf
<1>1. r.end <= s.start
  BY DEF InOrder
<1>2. row \in Nat /\ other \in Nat /\ s.start \in Nat /\ row < s.start /\ s.start <= other
  BY <1>1 DEF RowRange
<1>3. row \div MIN_BATCH_AMOUNT = other \div MIN_BATCH_AMOUNT
  OBVIOUS
<1> QED BY <1>2, <1>3 DEF OnBorder, MIN_BATCH_AMOUNT

(* query_iter.rs, MIN_BATCH_AMOUNT: no two row ranges that iter_batch has  *)
(* handed out share a byte of an enable region.                            *)
THEOREM BatchesShareNoByte == BatchSpec => []BytesApart
<1>1. BInv => BytesApart
  <2> SUFFICES ASSUME BInv, NEW p \in Places, NEW q \in Places, p # q
               PROVE  BytesOf(RangeAt(p)) \cap BytesOf(RangeAt(q)) = {}
    BY DEF BytesApart
  <2>1. PICK i \in DOMAIN Handed : \E k \in DOMAIN Handed[i] : p = <<i, k>>
    BY DEF Places
  <2>2. PICK k \in DOMAIN Handed[i] : p = <<i, k>>
    BY <2>1
  <2>3. PICK j \in DOMAIN Handed : \E l \in DOMAIN Handed[j] : q = <<j, l>>
    BY DEF Places
  <2>4. PICK l \in DOMAIN Handed[j] : q = <<j, l>>
    BY <2>3
  <2> DEFINE r == Handed[i][k]
             s == Handed[j][l]
  <2>5. RangeAt(p) = r /\ RangeAt(q) = s
    BY <2>2, <2>4 DEF RangeAt
  <2>6. r \in RowRange /\ s \in RowRange
    BY HandedTypes DEF BInv
  <2>7. OnBorder(r.start) /\ OnBorder(s.start)
    BY DEF BInv, HandedPlaced, Placed
  <2>8. InOrder(r, s) \/ InOrder(s, r)
    BY <2>2, <2>4 DEF BInv, HandedApart
  <2> HIDE DEF r, s
  <2>9. BytesOf(r) \cap BytesOf(s) = {}
    BY <2>6, <2>7, <2>8, InOrderApart
  <2> QED BY <2>5, <2>9
<1> QED BY <1>1, BatchesInvariant, PTL
----------------------------------------------------------------------------
(* The size of a batch: the sum over its ranges.                           *)

(* What holds of zero and of the next number holds of every number.        *)
LEMMA Climb ==
  ASSUME NEW N, 0 \in N, \A k \in Nat : k \in N => k + 1 \in N
  PROVE  Nat \subseteq N
<1> DEFINE Missing == Nat \ N
<1>1. SUFFICES ASSUME Missing # {} PROVE FALSE
  OBVIOUS
<1>2. PICK k \in Missing : \A n \in Missing : k <= n
  BY <1>1, LeastNumber
<1>3. k # 0 /\ k - 1 \in Nat
  BY <1>2
<1>4. k - 1 \in N
  BY <1>2, <1>3
<1> QED BY <1>2, <1>3, <1>4

(* Positions of a sequence that are not none have a last one.              *)
LEMMA LastPosition ==
  ASSUME NEW n \in Nat, NEW s \in SUBSET (1..n), s # {}
  PROVE  Seqs!Max(s) \in s /\ \A k \in s : k <= Seqs!Max(s)
<1> DEFINE Rest == {n - k : k \in s}
<1>1. Rest \in SUBSET Nat /\ Rest # {}
  <2>1. \A k \in s : n - k \in Nat
    OBVIOUS
  <2> QED BY <2>1
<1>2. PICK m \in Rest : \A l \in Rest : m <= l
  BY <1>1, LeastNumber
<1>3. PICK x \in s : m = n - x
  OBVIOUS
<1>4. \A k \in s : x >= k
  <2> SUFFICES ASSUME NEW k \in s PROVE x >= k
    OBVIOUS
  <2>1. n - x <= n - k
    BY <1>2, <1>3
  <2> QED BY <2>1
<1>5. Seqs!Max(s) \in s /\ \A k \in s : Seqs!Max(s) >= k
  BY <1>4 DEF Seqs!Max
<1> QED BY <1>5

(* The sums of the sizes of some of the ranges.                            *)
SumOf(f, rs, s) ==
  IF s = {} THEN 0 ELSE f[s \ {Seqs!Max(s)}] + RangeSize(rs[Seqs!Max(s)])

(* By induction over the number of ranges: the sums exist.                 *)
LEMMA SumsExist ==
  ASSUME NEW rs \in Seq(RowRange)
  PROVE  \E f : f = [s \in SUBSET (1..Len(rs)) |-> SumOf(f, rs, s)]
<1> DEFINE S == 1..Len(rs)
           Sub(k) == {s \in SUBSET S : Cardinality(s) <= k}
           Good(f, k) == \A s \in Sub(k) : f[s] = SumOf(f, rs, s)
           N == {k \in Nat : \E f : f = [s \in Sub(k) |-> f[s]] /\ Good(f, k)}
<1>1. Len(rs) \in Nat /\ IsFiniteSet(S)
  BY FS_Interval
<1>2. \A s \in SUBSET S : IsFiniteSet(s) /\ Cardinality(s) \in Nat
  BY <1>1, FS_Subset, FS_CardinalityType
<1>3. \A s \in SUBSET S : s # {} =>
        /\ s \ {Seqs!Max(s)} \in SUBSET S
        /\ Cardinality(s \ {Seqs!Max(s)}) = Cardinality(s) - 1
  BY <1>1, <1>2, LastPosition, FS_RemoveElement
<1>4. 0 \in N
  <2> DEFINE f == [s \in Sub(0) |-> 0]
  <2>1. \A s \in Sub(0) : s = {}
    BY <1>2, FS_EmptySet
  <2>2. Good(f, 0)
    BY <2>1 DEF SumOf
  <2>3. f = [s \in Sub(0) |-> f[s]]
    OBVIOUS
  <2> HIDE DEF f, Good, Sub
  <2>4. \E g : g = [s \in Sub(0) |-> g[s]] /\ Good(g, 0)
    BY <2>2, <2>3
  <2> QED BY <2>4
<1>5. ASSUME NEW k \in Nat, k \in N PROVE k + 1 \in N
  <2>1. PICK f : Good(f, k)
    BY <1>5
  <2> DEFINE g == [s \in Sub(k + 1) |-> IF s \in Sub(k) THEN f[s] ELSE SumOf(f, rs, s)]
  <2>2. Sub(k) \subseteq Sub(k + 1) /\ {} \in Sub(k)
    BY <1>2, FS_EmptySet
  <2>3. ASSUME NEW s \in Sub(k + 1), s # {} PROVE s \ {Seqs!Max(s)} \in Sub(k)
    <3>1. PICK t : t = s \ {Seqs!Max(s)}
      OBVIOUS
    <3>2. s \in SUBSET S /\ Cardinality(s) <= k + 1 /\ Cardinality(s) \in Nat
      BY <1>2
    <3>3. t \in SUBSET S /\ Cardinality(t) = Cardinality(s) - 1
      BY <1>3, <2>3, <3>1, <3>2
    <3> QED BY <3>1, <3>2, <3>3
  <2>4. Good(g, k + 1)
    <3> SUFFICES ASSUME NEW s \in Sub(k + 1) PROVE g[s] = SumOf(g, rs, s)
      OBVIOUS
    <3>1. SumOf(g, rs, s) = SumOf(f, rs, s)
      <4>1. s # {} => g[s \ {Seqs!Max(s)}] = f[s \ {Seqs!Max(s)}]
        BY <2>2, <2>3
      <4> QED BY <4>1 DEF SumOf
    <3>2. g[s] = SumOf(f, rs, s)
      BY <2>1
    <3> QED BY <3>1, <3>2
  <2>5. g = [s \in Sub(k + 1) |-> g[s]]
    OBVIOUS
  <2> HIDE DEF g, Good, Sub
  <2>6. \E h : h = [s \in Sub(k + 1) |-> h[s]] /\ Good(h, k + 1)
    BY <2>4, <2>5
  <2> QED BY <2>6
<1>6. Len(rs) \in N
  <2> HIDE DEF N
  <2>1. Nat \subseteq N
    BY <1>4, <1>5, Climb
  <2> QED BY <1>1, <2>1
<1>7. PICK f : f = [s \in Sub(Len(rs)) |-> f[s]] /\ Good(f, Len(rs))
  BY <1>6
<1>8. Sub(Len(rs)) = SUBSET S
  <2>1. Cardinality(S) = Len(rs)
    <3>1. \A n \in Nat : Cardinality(1..n) = n
      BY FS_Interval
    <3> QED BY <1>1, <3>1
  <2>2. \A s \in SUBSET S : Cardinality(s) <= Len(rs)
    BY <1>1, <2>1, FS_Subset
  <2> QED BY <2>2
<1>9. \A s \in SUBSET S : f[s] = SumOf(f, rs, s)
  BY <1>7, <1>8
<1>10. f = [s \in SUBSET S |-> SumOf(f, rs, s)]
  <2>1. f = [s \in SUBSET S |-> f[s]]
    BY <1>7, <1>8
  <2> HIDE DEF S
  <2> QED BY <1>9, <2>1
<1> HIDE DEF S
<1> QED BY <1>10 DEF S

(* SizeOf is the last one of the sums over the prefixes.                   *)
LEMMA SizeIsSum ==
  ASSUME NEW rs \in Seq(RowRange)
  PROVE  \E f : /\ SizeOf(rs) = f[1..Len(rs)]
                /\ f[1..0] = 0
                /\ \A k \in 0..(Len(rs) - 1) : f[1..(k + 1)] = f[1..k] + RangeSize(rs[k + 1])
<1> DEFINE S == DOMAIN rs
           Eq(g) == g = [s \in SUBSET S |->
                          IF s = {} THEN 0 ELSE g[s \ {Seqs!Max(s)}] + RangeSize(rs[Seqs!Max(s)])]
           f == CHOOSE g : Eq(g)
<1>1. Len(rs) \in Nat /\ S = 1..Len(rs)
  OBVIOUS
<1>2. \E g : Eq(g)
  BY <1>1, SumsExist DEF SumOf
<1>3. Eq(f)
  <2> HIDE DEF Eq
  <2> QED BY <1>2
<1>4. SizeOf(rs) = f[S]
  BY DEF SizeOf, Seqs!FoldLeft, Seqs!MapThenFoldSet
<1> HIDE DEF f
<1>5. \A s \in SUBSET S : f[s] = IF s = {} THEN 0 ELSE f[s \ {Seqs!Max(s)}] + RangeSize(rs[Seqs!Max(s)])
  BY <1>3
<1> HIDE DEF S
<1>6. f[1..0] = 0
  <2>1. 1..0 = {}
    OBVIOUS
  <2> QED BY <1>5, <2>1
<1>7. ASSUME NEW k \in 0..(Len(rs) - 1)
      PROVE  f[1..(k + 1)] = f[1..k] + RangeSize(rs[k + 1])
  <2>1. k \in Nat /\ 1..(k + 1) \in SUBSET S /\ 1..(k + 1) # {}
    <3>1. k \in Nat /\ k + 1 <= Len(rs) /\ 1 \in 1..(k + 1)
      BY <1>1
    <3>2. 1..(k + 1) \subseteq S
      BY <1>1, <3>1
    <3>3. 1..(k + 1) # {}
      BY <3>1
    <3> QED BY <3>1, <3>2, <3>3
  <2>2. Seqs!Max(1..(k + 1)) = k + 1
    <3>1. k + 1 \in 1..(k + 1) /\ k + 1 \in Nat
      BY <2>1
    <3>2. Seqs!Max(1..(k + 1)) \in 1..(k + 1) /\ k + 1 <= Seqs!Max(1..(k + 1))
      BY <2>1, <3>1, LastPosition
    <3> QED BY <2>1, <3>2
  <2>3. (1..(k + 1)) \ {k + 1} = 1..k
    BY <2>1
  <2> QED BY <1>5, <2>1, <2>2, <2>3
<1> QED BY <1>1, <1>4, <1>6, <1>7

(* The size of a range and of a batch.                                     *)
LEMMA SizeFacts ==
  /\ SizeOf(<< >>) = 0
  /\ \A rs \in Seq(RowRange) : SizeOf(rs) \in Int
  /\ \A rs \in Seq(RowRange) : \A new \in RowRange :
       SizeOf(Append(rs, new)) = SizeOf(rs) + RangeSize(new)
<1>1. SizeOf(<< >>) = 0
  <2>1. << >> \in Seq(RowRange) /\ Len(<< >>) = 0
    OBVIOUS
  <2> QED BY <2>1, SizeIsSum
<1>2. ASSUME NEW rs \in Seq(RowRange) PROVE SizeOf(rs) \in Int
  <2>1. PICK f : /\ SizeOf(rs) = f[1..Len(rs)]
                 /\ f[1..0] = 0
                 /\ \A k \in 0..(Len(rs) - 1) : f[1..(k + 1)] = f[1..k] + RangeSize(rs[k + 1])
    BY SizeIsSum
  <2> DEFINE N == {k \in Nat : k <= Len(rs) => f[1..k] \in Int}
  <2>2. 0 \in N
    BY <2>1
  <2>3. ASSUME NEW k \in Nat, k \in N PROVE k + 1 \in N
    <3> SUFFICES ASSUME k + 1 <= Len(rs) PROVE f[1..(k + 1)] \in Int
      OBVIOUS
    <3>1. k \in 0..(Len(rs) - 1) /\ k + 1 \in 1..Len(rs) /\ f[1..k] \in Int
      BY <2>3
    <3>2. rs[k + 1] \in RowRange
      BY <3>1
    <3>3. RangeSize(rs[k + 1]) \in Int
      BY <3>2 DEF RangeSize, RowRange
    <3>4. f[1..(k + 1)] = f[1..k] + RangeSize(rs[k + 1])
      BY <2>1, <3>1
    <3> QED BY <3>1, <3>3, <3>4
  <2>4. Nat \subseteq N
    <3> HIDE DEF N
    <3> QED BY <2>2, <2>3, Climb
  <2>5. Len(rs) \in Nat
    OBVIOUS
  <2> QED BY <2>1, <2>4, <2>5
<1>3. ASSUME NEW rs \in Seq(RowRange), NEW new \in RowRange
      PROVE  SizeOf(Append(rs, new)) = SizeOf(rs) + RangeSize(new)
  <2>1. PICK n : n = Len(rs)
    OBVIOUS
  <2>2. PICK more : more = Append(rs, new)
    OBVIOUS
  <2>3. /\ n \in Nat /\ more \in Seq(RowRange) /\ Len(more) = n + 1
        /\ more[n + 1] = new /\ \A k \in 1..n : more[k] = rs[k]
    BY <2>1, <2>2
  <2>4. PICK f : /\ SizeOf(rs) = f[1..n]
                 /\ f[1..0] = 0
                 /\ \A k \in 0..(n - 1) : f[1..(k + 1)] = f[1..k] + RangeSize(rs[k + 1])
    BY <2>1, SizeIsSum
  <2>5. PICK g : /\ SizeOf(more) = g[1..(n + 1)]
                 /\ g[1..0] = 0
                 /\ \A k \in 0..n : g[1..(k + 1)] = g[1..k] + RangeSize(more[k + 1])
    <3>1. (n + 1) - 1 = n
      BY <2>3
    <3>2. PICK g : /\ SizeOf(more) = g[1..Len(more)]
                   /\ g[1..0] = 0
                   /\ \A k \in 0..(Len(more) - 1) : g[1..(k + 1)] = g[1..k] + RangeSize(more[k + 1])
      BY <2>3, SizeIsSum
    <3> QED BY <2>3, <3>1, <3>2
  <2> DEFINE N == {k \in Nat : k <= n => g[1..k] = f[1..k]}
  <2>6. 0 \in N
    BY <2>4, <2>5
  <2>7. ASSUME NEW k \in Nat, k \in N PROVE k + 1 \in N
    <3> SUFFICES ASSUME k + 1 <= n PROVE g[1..(k + 1)] = f[1..(k + 1)]
      OBVIOUS
    <3>1. k \in 0..(n - 1) /\ k \in 0..n /\ k + 1 \in 1..n /\ g[1..k] = f[1..k]
      BY <2>3, <2>7
    <3> QED BY <2>3, <2>4, <2>5, <3>1
  <2>8. Nat \subseteq N
    <3> HIDE DEF N
    <3> QED BY <2>6, <2>7, Climb
  <2>9. g[1..n] = SizeOf(rs)
    BY <2>3, <2>4, <2>8
  <2>10. g[1..(n + 1)] = g[1..n] + RangeSize(new)
    BY <2>3, <2>5
  <2>11. SizeOf(rs) \in Int /\ RangeSize(new) \in Int
    BY <1>2 DEF RangeSize, RowRange
  <2> QED BY <2>2, <2>5, <2>9, <2>10, <2>11
<1> QED BY <1>1, <1>2, <1>3
----------------------------------------------------------------------------
(* What the batches cover.                                                 *)
(* A row of a chunk that was handed out, or is in what is left of a chunk. *)
Given(chunk, row) ==
  \E i \in DOMAIN Handed : \E k \in DOMAIN Handed[i] :
    /\ Handed[i][k].chunk = chunk
    /\ Handed[i][k].start <= row /\ row < Handed[i][k].end

Left(chunk, row) ==
  leftover # << >> /\ leftover[1].chunk = chunk /\ leftover[1].start <= row

HandedWithin ==
  \A i \in DOMAIN Handed : \A k \in DOMAIN Handed[i] :
    /\ Handed[i][k].chunk \in Chunks
    /\ Handed[i][k].start < Handed[i][k].end
    /\ Handed[i][k].end <= LenOf(Handed[i][k].chunk)

LeftoverWithin ==
  leftover # << >> =>
    leftover[1].chunk \in Chunks /\ leftover[1].end = LenOf(leftover[1].chunk)

NothingSkipped ==
  \A chunk \in Chunks : Passed(chunk, cursor) =>
    \A row \in 0..(LenOf(chunk) - 1) : Given(chunk, row) \/ Left(chunk, row)

(* Before iter_batch has been given any archetypes.                        *)
NotBegun ==
  lens = << >> => batches = << >> /\ ranges = << >> /\ leftover = << >> /\ cursor = <<1, 1>>

(* The batch next() is at has taken what its room has lost.                *)
RoomTaken ==
  /\ SizeOf(ranges) = batch_amount - room
  /\ SizeOf(ranges) >= 0
  /\ ranges # << >> => SizeOf(ranges) > 0
  /\ ~ cut => batch_amount >= MIN_BATCH_AMOUNT

NoRowsLeft == NextRange = << >> /\ ranges = << >>

BatchesFull ==
  \A i \in DOMAIN batches :
    /\ SizeOf(batches[i]) \in 1..batch_amount
    /\ \/ SizeOf(batches[i]) > batch_amount - MIN_BATCH_AMOUNT
       \/ i = Len(batches) /\ NoRowsLeft

EndsWithRows == cut => lens = << >> \/ NoRowsLeft

CoverInv ==
  /\ HandedWithin /\ LeftoverWithin /\ NothingSkipped /\ NotBegun
  /\ RoomTaken /\ BatchesFull /\ EndsWithRows
----------------------------------------------------------------------------
(* No chunk with rows lies between the cursor and the chunk it comes to.   *)
LEMMA NoneBetween ==
  ASSUME lens \in Seq(Seq(Nat)), NEW pos \in Nat \X Nat
  PROVE  \A chunk \in Chunks : Before(pos, chunk) /\ LenOf(chunk) > 0 =>
           NextNonEmpty(pos) # NoChunk /\ Before(NextNonEmpty(pos), chunk)
<1> DEFINE ahead == {chunk \in Chunks : Before(pos, chunk) /\ LenOf(chunk) > 0}
<1> SUFFICES ASSUME NEW chunk \in ahead
             PROVE  NextNonEmpty(pos) # NoChunk /\ Before(NextNonEmpty(pos), chunk)
  OBVIOUS
<1>1. NextNonEmpty(pos) = CHOOSE first \in ahead : \A other \in ahead : Before(first, other)
  BY DEF NextNonEmpty
<1>2. ahead \in SUBSET (Nat \X Nat) /\ ahead # {}
  BY ChunksFacts
<1>3. \E first \in ahead : \A other \in ahead : Before(first, other)
  BY <1>2, FirstPosition
<1>4. NextNonEmpty(pos) \in ahead /\ \A other \in ahead : Before(NextNonEmpty(pos), other)
  BY <1>1, <1>3
<1>5. NextNonEmpty(pos) \in Nat \X Nat
  BY <1>2, <1>4
<1>6. NoChunk \notin Nat \X Nat
  BY DEF NoChunk
<1> QED BY <1>4, <1>5, <1>6

(* The chunk the cursor comes to depends on the lengths alone.             *)
LEMMA NextStays ==
  ASSUME UNCHANGED <<lens, cursor>>
  PROVE  NextNonEmpty(cursor)' = NextNonEmpty(cursor)
<1> DEFINE ahead == {chunk \in Chunks : Before(cursor, chunk) /\ LenOf(chunk) > 0}
<1>1. Chunks' = Chunks /\ \A chunk : LenOf(chunk)' = LenOf(chunk)
  BY DEF Chunks, LenOf
<1>2. ahead' = ahead
  BY <1>1 DEF Before
<1>3. NextNonEmpty(cursor) =
        IF ahead = {} THEN NoChunk
        ELSE CHOOSE chunk \in ahead : \A other \in ahead : Before(chunk, other)
  BY DEF NextNonEmpty
<1>4. NextNonEmpty(cursor)' =
        IF ahead' = {} THEN NoChunk
        ELSE CHOOSE chunk \in ahead' : \A other \in ahead' : Before(chunk, other)
  BY DEF NextNonEmpty
<1> HIDE DEF ahead
<1> QED BY <1>2, <1>3, <1>4

(* After is the next position in the order of Before.                      *)
LEMMA NoneAfter ==
  ASSUME NEW p \in Nat \X Nat, NEW q \in Nat \X Nat, Before(p, q), ~ Before(After(p), q)
  PROVE  p = q
<1>1. p = <<p[1], p[2]>> /\ q = <<q[1], q[2]>>
  OBVIOUS
<1>2. p[1] \in Nat /\ p[2] \in Nat /\ q[1] \in Nat /\ q[2] \in Nat
  OBVIOUS
<1>3. p[1] = q[1] /\ p[2] = q[2]
  BY <1>2 DEF Before, After
<1> QED BY <1>1, <1>3

(* The rows a turn of the loop cuts end with their chunk, and no row       *)
(* before them is left behind.                                             *)
LEMMA NextRangeCovers ==
  ASSUME BInv, CoverInv, NextRange # << >>, NEW range, range = NextRange[1]
  PROVE  /\ range.chunk \in Chunks
         /\ range.end = LenOf(range.chunk)
         /\ leftover # << >> => range = leftover[1]
         /\ leftover = << >> =>
              /\ range.start = 0
              /\ \A chunk \in Chunks : Before(cursor, chunk) /\ LenOf(chunk) > 0 =>
                   Before(range.chunk, chunk)
<1>1. lens \in Seq(Seq(Nat)) /\ cursor \in Nat \X Nat
  BY DEF BInv, BatchTypes
<1>2. CASE leftover # << >>
  BY <1>2 DEF NextRange, CoverInv, LeftoverWithin
<1>3. CASE leftover = << >>
  <2> DEFINE chunk == NextNonEmpty(cursor)
  <2>1. chunk # NoChunk /\ range = [chunk |-> chunk, start |-> 0, end |-> LenOf(chunk)]
    BY <1>3 DEF NextRange
  <2>2. chunk \in Chunks
    BY <1>1, <2>1, NextNonEmptyFacts
  <2>3. range.chunk = chunk /\ range.start = 0 /\ range.end = LenOf(chunk)
    BY <2>1
  <2> QED BY <1>1, <1>3, <2>2, <2>3, NoneBetween
<1> QED BY <1>2, <1>3

(* A cut takes no range away.                                              *)
LEMMA HandedKeptByCut ==
  ASSUME BatchTypes, NEW new \in RowRange, batches' = batches, ranges' = Append(ranges, new)
  PROVE  /\ \A i \in DOMAIN Handed : \A k \in DOMAIN Handed[i] :
              i \in DOMAIN Handed' /\ k \in DOMAIN Handed'[i] /\ Handed'[i][k] = Handed[i][k]
         /\ \E i \in DOMAIN Handed' : \E k \in DOMAIN Handed'[i] : Handed'[i][k] = new
<1>1. Handed = Append(batches, ranges) /\ Handed' = Append(batches, Append(ranges, new))
  BY DEF Handed
<1>2. batches \in Seq(Seq(RowRange)) /\ ranges \in Seq(RowRange)
  BY DEF BatchTypes
<1>3. /\ Len(batches) + 1 \in DOMAIN Handed'
      /\ Len(ranges) + 1 \in DOMAIN Handed'[Len(batches) + 1]
      /\ Handed'[Len(batches) + 1][Len(ranges) + 1] = new
  BY <1>1, <1>2
<1>4. ASSUME NEW i \in DOMAIN Handed, NEW k \in DOMAIN Handed[i]
      PROVE  i \in DOMAIN Handed' /\ k \in DOMAIN Handed'[i] /\ Handed'[i][k] = Handed[i][k]
  <2>1. CASE i = Len(batches) + 1
    <3>1. Handed'[i] = Append(ranges, new) /\ Handed[i] = ranges /\ i \in DOMAIN Handed'
      BY <1>1, <1>2, <2>1
    <3>2. k \in DOMAIN ranges
      BY <3>1
    <3> QED BY <1>2, <3>1, <3>2
  <2>2. CASE i # Len(batches) + 1
    <3>1. i \in DOMAIN batches /\ Handed'[i] = batches[i] /\ Handed[i] = batches[i] /\ i \in DOMAIN Handed'
      BY <1>1, <1>2, <2>2
    <3> QED BY <3>1
  <2> QED BY <2>1, <2>2
<1> QED BY <1>3, <1>4

(* Nor does a batch that closes.                                           *)
LEMMA HandedKeptByClose ==
  ASSUME BatchTypes, ranges' = << >>,
         batches' = IF ranges = << >> THEN batches ELSE Append(batches, ranges)
  PROVE  \A i \in DOMAIN Handed : \A k \in DOMAIN Handed[i] :
           i \in DOMAIN Handed' /\ k \in DOMAIN Handed'[i] /\ Handed'[i][k] = Handed[i][k]
<1>1. CASE ranges = << >>
  <2>1. Handed' = Handed
    BY <1>1 DEF Handed
  <2> QED BY <2>1
<1>2. CASE ranges # << >>
  <2>1. Handed' = Append(Handed, << >>) /\ Handed \in Seq(Seq(RowRange))
    BY <1>2 DEF Handed, BatchTypes
  <2> SUFFICES ASSUME NEW i \in DOMAIN Handed, NEW k \in DOMAIN Handed[i]
               PROVE  i \in DOMAIN Handed' /\ k \in DOMAIN Handed'[i] /\ Handed'[i][k] = Handed[i][k]
    OBVIOUS
  <2>2. i \in DOMAIN Handed' /\ Handed'[i] = Handed[i]
    BY <2>1
  <2> QED BY <2>2
<1> QED BY <1>1, <1>2

(* Before the first call there is nothing to cover.                        *)
LEMMA CoverInitial == BatchesInit => CoverInv
<1> SUFFICES ASSUME BatchesInit PROVE CoverInv
  OBVIOUS
<1> USE DEF BatchesInit
<1>1. DOMAIN Handed = {1} /\ Handed[1] = << >>
  BY DEF Handed
<1>2. \A i \in DOMAIN Handed : DOMAIN Handed[i] = {}
  BY <1>1
<1>3. Chunks = {}
  BY DEF Chunks
<1>4. DOMAIN batches = {}
  OBVIOUS
<1> QED BY <1>2, <1>3, <1>4, SizeFacts
        DEF CoverInv, HandedWithin, LeftoverWithin, NothingSkipped, NotBegun, RoomTaken,
            BatchesFull, EndsWithRows

(* iter_batch: the cursor is before the first chunk.                       *)
LEMMA IterBatchCovers ==
  ASSUME BInv, CoverInv, NEW shape \in Seq(Seq(Nat)), NEW amount \in Nat, IterBatch(shape, amount)
  PROVE  CoverInv'
<1>1. /\ amount >= MIN_BATCH_AMOUNT
      /\ batches = << >> /\ ranges = << >> /\ leftover = << >> /\ cursor = <<1, 1>>
      /\ batches' = << >> /\ ranges' = << >> /\ leftover' = << >> /\ cursor' = <<1, 1>>
      /\ lens' = shape /\ batch_amount' = amount /\ room' = amount /\ cut' = FALSE
  BY DEF IterBatch, CoverInv, NotBegun
<1>2. DOMAIN Handed' = {1} /\ Handed'[1] = << >>
  BY <1>1 DEF Handed
<1>3. \A i \in DOMAIN Handed' : DOMAIN Handed'[i] = {}
  BY <1>2
<1>4. HandedWithin' /\ LeftoverWithin' /\ NotBegun' /\ EndsWithRows'
  BY <1>1, <1>3 DEF HandedWithin, LeftoverWithin, NotBegun, EndsWithRows
<1>5. NothingSkipped'
  <2>1. \A chunk \in Chunks' : Before(<<1, 1>>, chunk)
    BY <1>1 DEF Chunks, Before
  <2> QED BY <1>1, <2>1 DEF NothingSkipped, Passed, Before
<1>6. RoomTaken'
  BY <1>1, SizeFacts DEF RoomTaken, MIN_BATCH_AMOUNT
<1>7. BatchesFull'
  <2>1. DOMAIN batches' = {}
    BY <1>1
  <2> QED BY <2>1 DEF BatchesFull
<1> QED BY <1>4, <1>5, <1>6, <1>7 DEF CoverInv

(* A cut: the rows of the chunk are with the new range or in what is left. *)
LEMMA CutRangeCovers ==
  ASSUME BInv, CoverInv, CutRange
  PROVE  CoverInv'
<1>1. PICK range : range = NextRange[1]
  OBVIOUS
<1>2. PICK split : split = Split(range.start, range.end, room)
  OBVIOUS
<1>3. PICK new : new = [range EXCEPT !.end = split]
  OBVIOUS
<1>4. /\ NextRange # << >> /\ ~ cut /\ room > 0 /\ split # range.start
      /\ ranges' = Append(ranges, new)
      /\ room' = room - (split - range.start)
      /\ leftover' = Leftover(range, split)
      /\ cursor' = IF leftover = << >> THEN After(range.chunk) ELSE cursor
      /\ UNCHANGED <<lens, batch_amount, batches, cut>>
  BY <1>1, <1>2, <1>3 DEF CutRange
<1>5. /\ range \in RowRange /\ OnBorder(range.start) /\ range.start < range.end
      /\ leftover # << >> => Passed(range.chunk, cursor)
      /\ leftover = << >> => Before(cursor, range.chunk)
  BY <1>1, <1>4, NextRangeFacts
<1>6. /\ range.chunk \in Nat \X Nat /\ range.start \in Nat /\ range.end \in Nat
      /\ BatchTypes /\ room \in Nat /\ cursor \in Nat \X Nat /\ batch_amount \in Nat
      /\ lens \in Seq(Seq(Nat)) /\ ranges \in Seq(RowRange)
  BY <1>5 DEF RowRange, BInv, BatchTypes
<1>7. /\ split \in Nat /\ range.start < split /\ split <= range.end
  <2>1. PICK start, end : start = range.start /\ end = range.end
    OBVIOUS
  <2>2. start \in Nat /\ end \in Nat /\ OnBorder(start) /\ start < end
    BY <1>5, <1>6, <2>1
  <2>3. split = Split(start, end, room) /\ split # start
    BY <1>2, <1>4, <2>1
  <2>4. split \in Nat /\ start <= split /\ split <= end
    BY <1>6, <2>2, <2>3, SplitFacts
  <2> QED BY <2>1, <2>2, <2>3, <2>4
<1>8. /\ new \in RowRange /\ new.chunk = range.chunk /\ new.start = range.start /\ new.end = split
  BY <1>3, <1>5, <1>6, <1>7 DEF RowRange
<1>9. /\ range.chunk \in Chunks
      /\ range.end = LenOf(range.chunk)
      /\ leftover # << >> => range = leftover[1]
      /\ leftover = << >> =>
           /\ range.start = 0
           /\ \A chunk \in Chunks : Before(cursor, chunk) /\ LenOf(chunk) > 0 =>
                Before(range.chunk, chunk)
  BY <1>1, <1>4, NextRangeCovers
<1>10. Chunks' = Chunks /\ \A chunk : LenOf(chunk)' = LenOf(chunk)
  BY <1>4 DEF Chunks, LenOf
<1>11. HandedWithin'
  <2> SUFFICES ASSUME NEW i \in DOMAIN Handed', NEW k \in DOMAIN Handed'[i]
               PROVE  /\ Handed'[i][k].chunk \in Chunks
                      /\ Handed'[i][k].start < Handed'[i][k].end
                      /\ Handed'[i][k].end <= LenOf(Handed'[i][k].chunk)
    BY <1>10 DEF HandedWithin
  <2>1. CASE SameAt(i, k)
    BY <2>1 DEF SameAt, CoverInv, HandedWithin
  <2>2. CASE Handed'[i][k] = new
    BY <1>7, <1>8, <1>9, <2>2
  <2> QED BY <1>4, <1>6, <1>8, <2>1, <2>2, HandedAfterCut
<1>12. leftover' # << >> =>
         leftover'[1].chunk = range.chunk /\ leftover'[1].start = split /\ leftover'[1].end = range.end
  BY <1>4, <1>5 DEF Leftover, RowRange
<1>13. LeftoverWithin'
  BY <1>9, <1>10, <1>12 DEF LeftoverWithin
<1>14. split < range.end => leftover' # << >>
  BY <1>4 DEF Leftover
<1>15. \A chunk, row : Given(chunk, row) => Given(chunk, row)'
  BY <1>4, <1>6, <1>8, HandedKeptByCut DEF Given
<1>16. ASSUME NEW row \in Nat, range.start <= row, row < range.end
       PROVE  Given(range.chunk, row)' \/ Left(range.chunk, row)'
  <2>1. CASE row < split
    <3>1. \E i \in DOMAIN Handed' : \E k \in DOMAIN Handed'[i] : Handed'[i][k] = new
      BY <1>4, <1>6, <1>8, HandedKeptByCut
    <3> QED BY <1>8, <1>16, <2>1, <3>1 DEF Given
  <2>2. CASE ~ (row < split)
    <3>1. split <= row /\ split < range.end
      BY <1>6, <1>7, <1>16, <2>2
    <3>2. /\ leftover' # << >> /\ leftover'[1].chunk = range.chunk
          /\ leftover'[1].start <= row
      BY <1>12, <1>14, <3>1
    <3>3. Left(range.chunk, row)'
      BY <3>2 DEF Left
    <3> QED BY <3>3
  <2> QED BY <2>1, <2>2
<1>17. NothingSkipped'
  <2> SUFFICES ASSUME NEW chunk \in Chunks, Passed(chunk, cursor'), NEW row \in 0..(LenOf(chunk) - 1)
               PROVE  Given(chunk, row)' \/ Left(chunk, row)'
    BY <1>10 DEF NothingSkipped, Passed, Before
  <2>1. chunk \in Nat \X Nat /\ LenOf(chunk) \in Nat /\ row \in Nat /\ row < LenOf(chunk)
    BY <1>6, ChunksFacts
  <2>2. CASE leftover # << >>
    <3>1. Given(chunk, row) \/ Left(chunk, row)
      BY <1>4, <2>2 DEF CoverInv, NothingSkipped
    <3>2. CASE Left(chunk, row)
      <4>1. chunk = range.chunk /\ range.start <= row
        BY <1>9, <2>2, <3>2 DEF Left
      <4> QED BY <1>9, <1>16, <2>1, <4>1
    <3> QED BY <1>15, <3>1, <3>2
  <2>3. CASE leftover = << >>
    <3>1. CASE Passed(chunk, cursor)
      BY <1>15, <2>3, <3>1 DEF CoverInv, NothingSkipped, Left
    <3>2. CASE ~ Passed(chunk, cursor)
      <4>1. Before(range.chunk, chunk)
        BY <1>9, <2>1, <2>3, <3>2 DEF Passed
      <4>2. ~ Before(After(range.chunk), chunk)
        BY <1>4, <2>3 DEF Passed
      <4>3. chunk = range.chunk
        BY <1>6, <2>1, <4>1, <4>2, NoneAfter
      <4> QED BY <1>9, <1>16, <2>1, <2>3, <4>3
    <3> QED BY <3>1, <3>2
  <2> QED BY <2>2, <2>3
<1>18. NotBegun'
  <2>1. lens # << >>
    BY <1>9 DEF Chunks
  <2> QED BY <1>4, <2>1 DEF NotBegun
<1>19. RoomTaken'
  <2>1. SizeOf(ranges') = SizeOf(ranges) + (split - range.start)
    BY <1>4, <1>6, <1>8, SizeFacts DEF RangeSize
  <2>2. SizeOf(ranges) \in Int
    BY <1>6, SizeFacts
  <2>3. PICK d : d = split - range.start
    OBVIOUS
  <2>4. d \in Int /\ d > 0
    BY <1>6, <1>7, <2>3
  <2>5. SizeOf(ranges') = SizeOf(ranges) + d /\ room' = room - d
    BY <1>4, <2>1, <2>3
  <2>6. SizeOf(ranges) = batch_amount - room /\ SizeOf(ranges) >= 0 /\ batch_amount >= MIN_BATCH_AMOUNT
    BY <1>4 DEF CoverInv, RoomTaken
  <2>7. SizeOf(ranges') = batch_amount - room' /\ SizeOf(ranges') > 0 /\ SizeOf(ranges') >= 0
    BY <1>6, <2>2, <2>4, <2>5, <2>6
  <2> QED BY <1>4, <2>6, <2>7 DEF RoomTaken
<1>20. BatchesFull'
  BY <1>4 DEF CoverInv, BatchesFull, NoRowsLeft
<1>21. EndsWithRows'
  BY <1>4 DEF EndsWithRows
<1> QED BY <1>11, <1>13, <1>17, <1>18, <1>19, <1>20, <1>21 DEF CoverInv

(* A batch that closes: all its room is taken but for less than a byte, or *)
(* there are no rows left.                                                 *)
LEMMA CloseBatchCovers ==
  ASSUME BInv, CoverInv, CloseBatch
  PROVE  CoverInv'
<1>1. PICK range : range = NextRange[1]
  OBVIOUS
<1>2. /\ ~ cut
      /\ room > 0 /\ NextRange # << >> => Split(range.start, range.end, room) = range.start
      /\ leftover' = IF room > 0 THEN NextRange ELSE leftover
      /\ cursor' = IF room > 0 /\ NextRange # << >> /\ leftover = << >>
                   THEN After(range.chunk) ELSE cursor
      /\ batches' = IF ranges = << >> THEN batches ELSE Append(batches, ranges)
      /\ cut' = (ranges = << >>) /\ ranges' = << >> /\ room' = batch_amount
      /\ UNCHANGED <<lens, batch_amount>>
  BY <1>1 DEF CloseBatch
<1>3. /\ BatchTypes /\ cursor \in Nat \X Nat /\ room \in Nat /\ batch_amount \in Nat
      /\ lens \in Seq(Seq(Nat)) /\ ranges \in Seq(RowRange) /\ batches \in Seq(Seq(RowRange))
  BY DEF BInv, BatchTypes
<1>4. ASSUME NextRange # << >>
      PROVE  /\ NextRange = <<range>> /\ range \in RowRange /\ range.chunk \in Nat \X Nat
             /\ range.start \in Nat /\ range.end \in Nat
             /\ OnBorder(range.start) /\ range.start < range.end
             /\ leftover = << >> => Before(cursor, range.chunk)
  BY <1>1, <1>4, NextRangeFacts DEF RowRange
<1>5. ASSUME NextRange # << >>
      PROVE  /\ range.chunk \in Chunks
             /\ range.end = LenOf(range.chunk)
             /\ leftover # << >> => range = leftover[1]
             /\ leftover = << >> =>
                  /\ range.start = 0
                  /\ \A chunk \in Chunks : Before(cursor, chunk) /\ LenOf(chunk) > 0 =>
                       Before(range.chunk, chunk)
  BY <1>1, <1>5, NextRangeCovers
<1>6. Chunks' = Chunks /\ \A chunk : LenOf(chunk)' = LenOf(chunk)
  BY <1>2 DEF Chunks, LenOf
<1>7. HandedWithin'
  <2> SUFFICES ASSUME NEW i \in DOMAIN Handed', NEW k \in DOMAIN Handed'[i]
               PROVE  /\ Handed'[i][k].chunk \in Chunks
                      /\ Handed'[i][k].start < Handed'[i][k].end
                      /\ Handed'[i][k].end <= LenOf(Handed'[i][k].chunk)
    BY <1>6 DEF HandedWithin
  <2>1. SameAt(i, k)
    BY <1>2, <1>3, HandedAfterClose
  <2> QED BY <2>1 DEF SameAt, CoverInv, HandedWithin
<1>8. ASSUME room > 0, NextRange # << >>
      PROVE  leftover' = <<range>> /\ leftover'[1] = range /\ leftover' # << >>
  BY <1>2, <1>4, <1>8
<1>9. LeftoverWithin'
  <2>1. CASE room > 0 /\ NextRange # << >>
    BY <1>5, <1>6, <1>8, <2>1 DEF LeftoverWithin
  <2>2. CASE room > 0 /\ NextRange = << >>
    BY <1>2, <2>2 DEF LeftoverWithin
  <2>3. CASE ~ (room > 0)
    BY <1>2, <1>6, <2>3 DEF CoverInv, LeftoverWithin
  <2> QED BY <2>1, <2>2, <2>3
<1>10. \A chunk, row : Given(chunk, row) => Given(chunk, row)'
  BY <1>2, <1>3, HandedKeptByClose DEF Given
<1>11. NextRange = << >> => leftover = << >>
  BY DEF NextRange
<1>12. NothingSkipped'
  <2> SUFFICES ASSUME NEW chunk \in Chunks, Passed(chunk, cursor'), NEW row \in 0..(LenOf(chunk) - 1)
               PROVE  Given(chunk, row)' \/ Left(chunk, row)'
    BY <1>6 DEF NothingSkipped, Passed, Before
  <2>1. chunk \in Nat \X Nat /\ LenOf(chunk) \in Nat /\ row \in Nat /\ row < LenOf(chunk)
    BY <1>3, ChunksFacts
  <2>2. CASE Passed(chunk, cursor)
    <3>1. Given(chunk, row) \/ Left(chunk, row)
      BY <2>2 DEF CoverInv, NothingSkipped
    <3>2. ASSUME Left(chunk, row) PROVE Left(chunk, row)'
      <4>1. leftover # << >> /\ leftover[1].chunk = chunk /\ leftover[1].start <= row
        BY <3>2 DEF Left
      <4>2. leftover' # << >> /\ leftover'[1] = leftover[1]
        BY <1>2, <1>5, <1>8, <1>11, <4>1
      <4> QED BY <4>1, <4>2 DEF Left
    <3> QED BY <1>10, <3>1, <3>2
  <2>3. CASE ~ Passed(chunk, cursor)
    <3>1. room > 0 /\ NextRange # << >> /\ leftover = << >> /\ cursor' = After(range.chunk)
      BY <1>2, <2>3
    <3>2. Before(range.chunk, chunk)
      BY <1>5, <2>1, <2>3, <3>1 DEF Passed
    <3>3. ~ Before(After(range.chunk), chunk)
      BY <3>1 DEF Passed
    <3>4. chunk = range.chunk
      BY <1>4, <2>1, <3>1, <3>2, <3>3, NoneAfter
    <3>5. leftover' # << >> /\ leftover'[1].chunk = chunk /\ leftover'[1].start <= row
      BY <1>5, <1>8, <2>1, <3>1, <3>4
    <3> QED BY <3>5 DEF Left
  <2> QED BY <2>2, <2>3
<1>13. NotBegun'
  <2>1. CASE lens = << >>
    <3>1. Chunks = {}
      BY <2>1 DEF Chunks
    <3>2. NextRange = << >>
      BY <1>5, <3>1
    <3> QED BY <1>2, <2>1, <3>2 DEF CoverInv, NotBegun
  <2>2. CASE lens # << >>
    BY <1>2, <2>2 DEF NotBegun
  <2> QED BY <2>1, <2>2
<1>14. RoomTaken'
  BY <1>2, <1>3, SizeFacts DEF CoverInv, RoomTaken
<1>15. batch_amount >= MIN_BATCH_AMOUNT
  BY <1>2 DEF CoverInv, RoomTaken
<1>16. room >= MIN_BATCH_AMOUNT => NextRange = << >>
  <2> SUFFICES ASSUME room >= MIN_BATCH_AMOUNT, NextRange # << >> PROVE FALSE
    OBVIOUS
  <2>1. PICK start, end : start = range.start /\ end = range.end
    OBVIOUS
  <2>2. start \in Nat /\ end \in Nat /\ OnBorder(start) /\ start < end
    BY <1>4, <2>1
  <2>3. room > 0
    BY <1>3 DEF MIN_BATCH_AMOUNT
  <2>4. Split(start, end, room) = start
    BY <1>2, <2>1, <2>3
  <2> QED BY <1>3, <2>2, <2>4, SplitFacts
<1>17. NextRange = << >> => NoRowsLeft'
  <2> SUFFICES ASSUME NextRange = << >> PROVE NoRowsLeft'
    OBVIOUS
  <2>1. leftover' = << >> /\ cursor' = cursor /\ ranges' = << >> /\ lens' = lens
    BY <1>2, <1>11
  <2>2. NextNonEmpty(cursor) = NoChunk
    BY <1>11 DEF NextRange
  <2>3. NextNonEmpty(cursor)' = NextNonEmpty(cursor)
    BY <2>1, NextStays
  <2> QED BY <2>1, <2>2, <2>3 DEF NoRowsLeft, NextRange
<1>18. BatchesFull'
  <2> SUFFICES ASSUME NEW i \in DOMAIN batches'
               PROVE  /\ SizeOf(batches'[i]) \in 1..batch_amount
                      /\ \/ SizeOf(batches'[i]) > batch_amount - MIN_BATCH_AMOUNT
                         \/ i = Len(batches') /\ NoRowsLeft'
    BY <1>2 DEF BatchesFull
  <2>1. CASE ranges = << >>
    <3>1. batches' = batches
      BY <1>2, <2>1
    <3>2. NoRowsLeft => NoRowsLeft'
      BY <1>17 DEF NoRowsLeft
    <3> QED BY <3>1, <3>2 DEF CoverInv, BatchesFull
  <2>2. CASE ranges # << >>
    <3>1. batches' = Append(batches, ranges)
      BY <1>2, <2>2
    <3>2. CASE i \in DOMAIN batches
      <4>1. batches'[i] = batches[i]
        BY <1>3, <3>1, <3>2
      <4> QED BY <2>2, <3>2, <4>1 DEF CoverInv, BatchesFull, NoRowsLeft
    <3>3. CASE i \notin DOMAIN batches
      <4>1. i = Len(batches') /\ batches'[i] = ranges
        BY <1>3, <3>1, <3>3
      <4>2. /\ SizeOf(ranges) = batch_amount - room /\ SizeOf(ranges) > 0
            /\ SizeOf(ranges) \in Int
        BY <1>3, <2>2, SizeFacts DEF CoverInv, RoomTaken
      <4>3. SizeOf(ranges) \in 1..batch_amount
        BY <1>3, <4>2
      <4>4. room < MIN_BATCH_AMOUNT => SizeOf(ranges) > batch_amount - MIN_BATCH_AMOUNT
        BY <1>3, <4>2 DEF MIN_BATCH_AMOUNT
      <4>5. room >= MIN_BATCH_AMOUNT \/ room < MIN_BATCH_AMOUNT
        BY <1>3 DEF MIN_BATCH_AMOUNT
      <4> QED BY <1>16, <1>17, <4>1, <4>3, <4>4, <4>5
    <3> QED BY <3>2, <3>3
  <2> QED BY <2>1, <2>2
<1>19. EndsWithRows'
  <2> SUFFICES ASSUME ranges = << >> PROVE NoRowsLeft'
    BY <1>2 DEF EndsWithRows
  <2>1. room = batch_amount
    <3>1. SizeOf(<< >>) = 0
      BY SizeFacts
    <3>2. SizeOf(ranges) = batch_amount - room
      BY DEF CoverInv, RoomTaken
    <3> QED BY <1>3, <3>1, <3>2
  <2> QED BY <1>15, <1>16, <1>17, <2>1
<1> QED BY <1>7, <1>9, <1>12, <1>13, <1>14, <1>18, <1>19 DEF CoverInv

(* QueryBatches::next leaves no row out on its way, and fills its batches. *)
THEOREM CoverInvariant == BatchSpec => []CoverInv
<1>1. BInv /\ CoverInv /\ [BatchNext]_batchVars => CoverInv'
  <2> SUFFICES ASSUME BInv, CoverInv, [BatchNext]_batchVars PROVE CoverInv'
    OBVIOUS
  <2>1. CASE \E shape \in Seq(Seq(Nat)), amount \in Nat : IterBatch(shape, amount)
    BY <2>1, IterBatchCovers
  <2>2. CASE CutRange
    BY <2>2, CutRangeCovers
  <2>3. CASE CloseBatch
    BY <2>3, CloseBatchCovers
  <2>4. CASE UNCHANGED batchVars
    <3>1. /\ Handed' = Handed /\ cursor' = cursor /\ leftover' = leftover /\ lens' = lens
          /\ ranges' = ranges /\ batches' = batches /\ room' = room /\ cut' = cut
          /\ batch_amount' = batch_amount
      BY <2>4 DEF batchVars, Handed
    <3>2. Chunks' = Chunks /\ \A chunk : LenOf(chunk)' = LenOf(chunk)
      BY <3>1 DEF Chunks, LenOf
    <3>3. NoRowsLeft' <=> NoRowsLeft
      <4>1. NextNonEmpty(cursor)' = NextNonEmpty(cursor)
        BY <3>1, NextStays
      <4> QED BY <3>1, <3>2, <4>1 DEF NoRowsLeft, NextRange
    <3>4. \A chunk, row : (Given(chunk, row)' <=> Given(chunk, row)) /\ (Left(chunk, row)' <=> Left(chunk, row))
      BY <3>1 DEF Given, Left
    <3>5. HandedWithin' /\ LeftoverWithin' /\ NotBegun' /\ RoomTaken'
      BY <3>1, <3>2 DEF CoverInv, HandedWithin, LeftoverWithin, NotBegun, RoomTaken
    <3>6. NothingSkipped'
      BY <3>1, <3>2, <3>4 DEF CoverInv, NothingSkipped, Passed, Before
    <3>7. BatchesFull' /\ EndsWithRows'
      BY <3>1, <3>3 DEF CoverInv, BatchesFull, EndsWithRows
    <3> QED BY <3>5, <3>6, <3>7 DEF CoverInv
  <2> QED BY <2>1, <2>2, <2>3, <2>4 DEF BatchNext
<1> QED BY <1>1, CoverInitial, BatchesInvariant, PTL DEF BatchSpec

(* Query::iter_batch: when next() has returned None the batches have had   *)
(* every row of the query; no batch is empty or larger than asked for, and *)
(* only the last is more than 7 rows short.                                *)
THEOREM BatchesCoverRows == BatchSpec => []BatchesCover
<1>1. BInv /\ CoverInv => BatchesCover
  <2> SUFFICES ASSUME BInv, CoverInv PROVE BatchesCover
    OBVIOUS
  <2>1. ASSUME cut, lens # << >>
        PROVE  UNION {RowsOf(RangeAt(p)) : p \in Places} = AllRows
    <3>1. NextRange = << >> /\ leftover = << >> /\ NextNonEmpty(cursor) = NoChunk
      BY <2>1 DEF CoverInv, EndsWithRows, NoRowsLeft, NextRange
    <3>2. lens \in Seq(Seq(Nat)) /\ cursor \in Nat \X Nat /\ BatchTypes
      BY DEF BInv, BatchTypes
    <3>3. ASSUME NEW chunk \in Chunks, NEW row \in 0..(LenOf(chunk) - 1)
          PROVE  \E p \in Places : <<chunk, row>> \in RowsOf(RangeAt(p))
      <4>1. LenOf(chunk) \in Nat /\ LenOf(chunk) > 0 /\ row \in Nat
        BY <3>2, ChunksFacts
      <4>2. Passed(chunk, cursor)
        BY <3>1, <3>2, <4>1, NoneBetween DEF Passed
      <4>3. Given(chunk, row)
        BY <3>1, <4>2 DEF CoverInv, NothingSkipped, Left
      <4>a. PICK i \in DOMAIN Handed : \E k \in DOMAIN Handed[i] :
              /\ Handed[i][k].chunk = chunk
              /\ Handed[i][k].start <= row /\ row < Handed[i][k].end
        BY <4>3 DEF Given
      <4>4. PICK k \in DOMAIN Handed[i] :
              /\ Handed[i][k].chunk = chunk
              /\ Handed[i][k].start <= row /\ row < Handed[i][k].end
        BY <4>a
      <4>5. <<i, k>> \in Places /\ RangeAt(<<i, k>>) = Handed[i][k]
        BY DEF Places, RangeAt
      <4>6. PICK r : r = Handed[i][k]
        OBVIOUS
      <4>7. r.chunk = chunk /\ r.start \in Nat /\ r.end \in Nat /\ r.start <= row /\ row < r.end
        BY <3>2, <4>4, <4>6, HandedTypes DEF RowRange
      <4>8. <<chunk, row>> \in RowsOf(r)
        BY <4>1, <4>7 DEF RowsOf
      <4> QED BY <4>5, <4>6, <4>8
    <3>4. ASSUME NEW p \in Places PROVE RowsOf(RangeAt(p)) \subseteq AllRows
      <4>1. PICK i \in DOMAIN Handed : \E k \in DOMAIN Handed[i] : p = <<i, k>>
        BY DEF Places
      <4>2. PICK k \in DOMAIN Handed[i] : p = <<i, k>>
        BY <4>1
      <4>3. PICK r : r = Handed[i][k]
        OBVIOUS
      <4>4. RangeAt(p) = r
        BY <4>2, <4>3 DEF RangeAt
      <4>5. /\ r.chunk \in Chunks /\ r.end <= LenOf(r.chunk)
            /\ r.start \in Nat /\ r.end \in Nat
        BY <3>2, <4>3, HandedTypes DEF CoverInv, HandedWithin, RowRange
      <4>6. LenOf(r.chunk) \in Nat
        BY <3>2, <4>5, ChunksFacts
      <4>7. ASSUME NEW row \in r.start..(r.end - 1) PROVE <<r.chunk, row>> \in AllRows
        <5>1. row \in 0..(LenOf(r.chunk) - 1)
          BY <4>5, <4>6
        <5> QED BY <4>5, <5>1 DEF AllRows
      <4> QED BY <4>4, <4>7 DEF RowsOf
    <3>5. AllRows \subseteq UNION {RowsOf(RangeAt(p)) : p \in Places}
      <4> SUFFICES ASSUME NEW chunk \in Chunks, NEW row \in 0..(LenOf(chunk) - 1)
                   PROVE  <<chunk, row>> \in UNION {RowsOf(RangeAt(p)) : p \in Places}
        BY DEF AllRows
      <4> QED BY <3>3
    <3> QED BY <3>4, <3>5
  <2>2. ASSUME NEW i \in DOMAIN batches
        PROVE  /\ SizeOf(batches[i]) \in 1..batch_amount
               /\ i < Len(batches) => SizeOf(batches[i]) > batch_amount - MIN_BATCH_AMOUNT
    <3>1. i # Len(batches) \/ ~ (i < Len(batches))
      BY DEF BInv, BatchTypes
    <3> QED BY <3>1 DEF CoverInv, BatchesFull
  <2> QED BY <2>1, <2>2 DEF BatchesCover
<1> QED BY <1>1, BatchesInvariant, CoverInvariant, PTL
=============================================================================
