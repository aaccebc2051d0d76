-------------------------- MODULE QueryWalkProofs --------------------------
(***************************************************************************)
(* For any components, tuples, queries and sizes of a chunk, of a bit set  *)
(* word and of the world: the registries stay in lockstep, the list a      *)
(* query keeps is exact for its version, no job of a step meets a query    *)
(* that was not prepared in time, and a walk nobody moves rows under hands *)
(* out what it owes, each entity once.                                     *)
(*                                                                         *)
(* The argument goes up from the data: folds over sequences and sets, maps *)
(* in lockstep, bit sets as the sets of ids they stand for, and then the   *)
(* registrations of components, archetypes and queries, each of which only *)
(* adds. What a query asks of ids and bits is what Selects asks of the     *)
(* components because ids tell components apart. The walk comes last: what *)
(* it has handed out is what it owes and its cursor has passed.            *)
(***************************************************************************)
EXTENDS QueryWalk, WorldStorageProofs, WellFoundedInduction
----------------------------------------------------------------------------
(* Numbers and folds.                                                      *)
(* The order of the numbers, as a relation.                                *)
LessThan == {pair \in Nat \X Nat : pair[1] < pair[2]}

(* A set of numbers that is not empty has a least one.                     *)
LEMMA LeastNumber ==
  ASSUME NEW N \in SUBSET Nat, N # {}
  PROVE  \E k \in N : \A n \in N : k <= n
<1>1. IsWellFoundedOn(LessThan, Nat)
  BY NatLessThanWellFounded, Zenon DEF OpToRel, LessThan
<1>2. PICK k \in N : \A n \in N : ~ (<<n, k>> \in LessThan)
  BY <1>1, WFMin
<1>3. ASSUME NEW n \in N PROVE k <= n
  <2>1. ~ (<<n, k>> \in LessThan) /\ n \in Nat /\ k \in Nat
    BY <1>2
  <2> QED BY <2>1 DEF LessThan
<1> QED BY <1>3

(* What holds of zero and of the next number holds of every number.        *)
LEMMA Climb ==
  ASSUME NEW N, 0 \in N, \A k \in Nat : k \in N => k + 1 \in N
  PROVE  Nat \subseteq N
<1> DEFINE Missing == Nat \ N
<1> SUFFICES ASSUME Missing # {} PROVE FALSE
  OBVIOUS
<1>1. PICK k \in Missing : \A n \in Missing : k <= n
  BY LeastNumber
<1>2. k # 0 /\ k - 1 \in Nat
  BY <1>1
<1>3. k - 1 \in N
  BY <1>1, <1>2
<1> QED BY <1>1, <1>2, <1>3

(* The equation of a fold has a solution: add is what one element does to *)
(* what came of the others, and last says which element of a set that is.  *)
IsFold(f, S, base, add, last) ==
  \A s \in SUBSET S :
    f[s] = IF s = {} THEN base ELSE add[<<f[s \ {last[s]}], last[s]>>]

(* By induction over the number of elements: a finite set has its fold.    *)
LEMMA FoldExists ==
  ASSUME NEW S, IsFiniteSet(S), NEW V, NEW base \in V, NEW add \in [V \X S -> V],
         NEW last, \A s \in SUBSET S : s # {} => last[s] \in s
  PROVE  \E f \in [SUBSET S -> V] : IsFold(f, S, base, add, last)
<1> DEFINE Sub(k) == {s \in SUBSET S : Cardinality(s) <= k}
           Good(f, k) == \A s \in Sub(k) :
             f[s] = IF s = {} THEN base ELSE add[<<f[s \ {last[s]}], last[s]>>]
           N == {k \in Nat : \E f \in [Sub(k) -> V] : Good(f, k)}
<1>1. \A s \in SUBSET S : IsFiniteSet(s) /\ Cardinality(s) \in Nat
  BY FS_Subset, FS_CardinalityType
<1>2. \A s \in SUBSET S : s # {} =>
        /\ s \ {last[s]} \in SUBSET S
        /\ Cardinality(s \ {last[s]}) = Cardinality(s) - 1
  BY <1>1, FS_RemoveElement
<1>3. 0 \in N
  <2>1. \A s \in Sub(0) : s = {}
    BY <1>1, FS_EmptySet
  <2>2. [s \in Sub(0) |-> base] \in [Sub(0) -> V]
    OBVIOUS
  <2>3. Good([s \in Sub(0) |-> base], 0)
    BY <2>1
  <2> QED BY <2>2, <2>3
<1>4. ASSUME NEW k \in Nat, k \in N PROVE k + 1 \in N
  <2>1. PICK f \in [Sub(k) -> V] : Good(f, k)
    BY <1>4
  <2> DEFINE g == [s \in Sub(k + 1) |->
                     IF s \in Sub(k) THEN f[s] ELSE add[<<f[s \ {last[s]}], last[s]>>]]
  <2>2. Sub(k) \subseteq Sub(k + 1) /\ {} \in Sub(k)
    BY <1>1, FS_EmptySet
  <2>3. \A s \in Sub(k + 1) : s # {} => s \ {last[s]} \in Sub(k)
    BY <1>1, <1>2
  <2>4. g \in [Sub(k + 1) -> V]
    <3> SUFFICES ASSUME NEW s \in Sub(k + 1), s \notin Sub(k)
                 PROVE  add[<<f[s \ {last[s]}], last[s]>>] \in V
      OBVIOUS
    <3>1. s # {}
      BY <2>2
    <3>2. last[s] \in S /\ f[s \ {last[s]}] \in V
      BY <2>3, <3>1
    <3> QED BY <3>2
  <2>5. Good(g, k + 1)
    <3> SUFFICES ASSUME NEW s \in Sub(k + 1)
                 PROVE  g[s] = IF s = {} THEN base ELSE add[<<g[s \ {last[s]}], last[s]>>]
      OBVIOUS
    <3>1. s # {} => g[s \ {last[s]}] = f[s \ {last[s]}]
      BY <2>2, <2>3
    <3>2. CASE s \in Sub(k)
      BY <2>1, <3>1, <3>2
    <3>3. CASE s \notin Sub(k)
      BY <2>2, <3>1, <3>3
    <3> QED BY <3>2, <3>3
  <2> HIDE DEF g, Good, Sub
  <2>6. \E h \in [Sub(k + 1) -> V] : Good(h, k + 1)
    BY <2>4, <2>5
  <2> QED BY <2>6
<1>5. Cardinality(S) \in N
  BY <1>1, <1>3, <1>4, Climb
<1>6. Sub(Cardinality(S)) = SUBSET S
  BY <1>1, FS_Subset
<1> QED BY <1>5, <1>6 DEF IsFold

(* What the fold keeps: holds is, for every set, what may have come of it. *)
LEMMA FoldKeeps ==
  ASSUME NEW S, IsFiniteSet(S), NEW base, NEW last, NEW holds, NEW f,
         \A s \in SUBSET S : s # {} => last[s] \in s,
         base \in holds[{}], f[{}] = base,
         \A s \in SUBSET S : s # {} /\ f[s \ {last[s]}] \in holds[s \ {last[s]}] => f[s] \in holds[s]
  PROVE  \A s \in SUBSET S : f[s] \in holds[s]
<1> DEFINE N == {k \in Nat : \A s \in SUBSET S : Cardinality(s) = k => f[s] \in holds[s]}
<1>1. \A s \in SUBSET S : IsFiniteSet(s) /\ Cardinality(s) \in Nat
  BY FS_Subset, FS_CardinalityType
<1>2. \A s \in SUBSET S : s # {} =>
        /\ s \ {last[s]} \in SUBSET S
        /\ Cardinality(s \ {last[s]}) = Cardinality(s) - 1
  BY <1>1, FS_RemoveElement
<1>3. 0 \in N
  <2>1. \A s \in SUBSET S : Cardinality(s) = 0 => s = {}
    BY <1>1, FS_EmptySet
  <2> QED BY <2>1
<1>4. ASSUME NEW k \in Nat, k \in N PROVE k + 1 \in N
  <2> SUFFICES ASSUME NEW s \in SUBSET S, Cardinality(s) = k + 1 PROVE f[s] \in holds[s]
    OBVIOUS
  <2>1. s # {}
    BY FS_EmptySet
  <2>2. f[s \ {last[s]}] \in holds[s \ {last[s]}]
    BY <1>2, <1>4, <2>1
  <2> QED BY <2>1, <2>2
<1> QED
  <2> HIDE DEF N
  <2>1. Nat \subseteq N
    BY <1>3, <1>4, Climb
  <2> QED BY <1>1, <2>1 DEF N

----------------------------------------------------------------------------
(* Maps in lockstep (SequenceValueHashMap).                                *)
(* The maps with these keys and values, in lockstep.                       *)
MapsTo(K, V) ==
  {m \in [indices : UNION {[D -> Nat] : D \in SUBSET K}, keys : Seq(K), values : Seq(V)] :
     InLockstep(m)}

(* A map in lockstep, field by field.                                      *)
LEMMA MapFields ==
  ASSUME NEW K, NEW V, NEW m
  PROVE  m \in MapsTo(K, V) <=>
           /\ m = [indices |-> m.indices, keys |-> m.keys, values |-> m.values]
           /\ m.indices \in [DOMAIN m.indices -> Nat]
           /\ DOMAIN m.indices \subseteq K
           /\ m.keys \in Seq(K)
           /\ m.values \in Seq(V)
           /\ InLockstep(m)
<1>1. ASSUME m \in MapsTo(K, V)
      PROVE  /\ m = [indices |-> m.indices, keys |-> m.keys, values |-> m.values]
             /\ m.indices \in [DOMAIN m.indices -> Nat]
             /\ DOMAIN m.indices \subseteq K
             /\ m.keys \in Seq(K)
             /\ m.values \in Seq(V)
             /\ InLockstep(m)
  <2>1. m \in [indices : UNION {[D -> Nat] : D \in SUBSET K}, keys : Seq(K), values : Seq(V)]
    BY <1>1 DEF MapsTo
  <2>2. PICK D \in SUBSET K : m.indices \in [D -> Nat]
    BY <2>1
  <2> QED BY <1>1, <2>1, <2>2 DEF MapsTo
<1>2. ASSUME /\ m = [indices |-> m.indices, keys |-> m.keys, values |-> m.values]
             /\ m.indices \in [DOMAIN m.indices -> Nat]
             /\ DOMAIN m.indices \subseteq K
             /\ m.keys \in Seq(K)
             /\ m.values \in Seq(V)
             /\ InLockstep(m)
      PROVE  m \in MapsTo(K, V)
  <2>1. m.indices \in UNION {[D -> Nat] : D \in SUBSET K}
    BY <1>2
  <2> QED BY <1>2, <2>1 DEF MapsTo
<1> QED BY <1>1, <1>2

(* What a map in lockstep says of its keys and their indices.              *)
LEMMA LockstepFacts ==
  ASSUME NEW K, NEW V, NEW m \in MapsTo(K, V)
  PROVE  /\ Len(m.values) \in Nat
         /\ DOMAIN m.values = 1..Len(m.values)
         /\ DOMAIN m.keys = 1..Len(m.values)
         /\ \A i \in 1..Len(m.values) : /\ m.values[i] \in V
                                        /\ m.keys[i] \in DOMAIN m.indices
                                        /\ IndexOf(m, m.keys[i]) = i
         /\ \A k \in DOMAIN m.indices : /\ k \in K
                                        /\ IndexOf(m, k) \in 1..Len(m.values)
                                        /\ m.keys[IndexOf(m, k)] = k
         /\ \A j, k \in DOMAIN m.indices : IndexOf(m, j) = IndexOf(m, k) => j = k
<1>1. /\ m.indices \in [DOMAIN m.indices -> Nat]
      /\ DOMAIN m.indices \subseteq K
      /\ m.keys \in Seq(K)
      /\ m.values \in Seq(V)
      /\ Len(m.keys) = Len(m.values)
      /\ DOMAIN m.indices = {m.keys[i] : i \in DOMAIN m.keys}
      /\ \A i \in DOMAIN m.keys : m.indices[m.keys[i]] = i
  BY MapFields DEF InLockstep
<1>2. /\ Len(m.values) \in Nat
      /\ DOMAIN m.values = 1..Len(m.values)
      /\ DOMAIN m.keys = 1..Len(m.values)
      /\ \A i \in 1..Len(m.values) : m.values[i] \in V
  BY <1>1
<1> QED BY <1>1, <1>2 DEF IndexOf

(* A registry only grows: what was at an index stays there.                *)
Extends(m, n) ==
  /\ DOMAIN m.indices \subseteq DOMAIN n.indices
  /\ \A k \in DOMAIN m.indices : IndexOf(n, k) = IndexOf(m, k)

(* Keys that are kept twice are kept.                                      *)
LEMMA ExtendsTwice ==
  ASSUME NEW m, NEW n, NEW o, Extends(m, n), Extends(n, o)
  PROVE  Extends(m, o)
BY DEF Extends

(* push of a key that is new.                                              *)
LEMMA AppendEntryFacts ==
  ASSUME NEW K, NEW V, NEW m \in MapsTo(K, V), NEW k \in K, ~ ContainsKey(m, k), NEW val \in V,
         NEW n, n = AppendEntry(m, k, val)
  PROVE  /\ n \in MapsTo(K, V)
         /\ Extends(m, n)
         /\ DOMAIN n.indices = DOMAIN m.indices \cup {k}
         /\ IndexOf(n, k) = Len(m.values) + 1
         /\ Len(n.values) = Len(m.values) + 1
         /\ n.values[Len(m.values) + 1] = val
         /\ \A i \in 1..Len(m.values) : n.values[i] = m.values[i]
<1>1. /\ m.indices \in [DOMAIN m.indices -> Nat]
      /\ DOMAIN m.indices \subseteq K
      /\ m.keys \in Seq(K)
      /\ m.values \in Seq(V)
      /\ Len(m.keys) = Len(m.values)
      /\ DOMAIN m.indices = {m.keys[i] : i \in DOMAIN m.keys}
      /\ \A i \in DOMAIN m.keys : m.indices[m.keys[i]] = i
  BY MapFields DEF InLockstep
<1>2. /\ Len(m.values) \in Nat
      /\ DOMAIN m.keys = 1..Len(m.values)
      /\ k \notin DOMAIN m.indices
  BY <1>1 DEF ContainsKey
<1>3. /\ n = [indices |-> n.indices, keys |-> n.keys, values |-> n.values]
      /\ n.indices = [key \in DOMAIN m.indices \cup {k} |->
                        IF key = k THEN Len(m.values) + 1 ELSE m.indices[key]]
      /\ n.keys = Append(m.keys, k)
      /\ n.values = Append(m.values, val)
  BY DEF AppendEntry
<1>4. /\ n.keys \in Seq(K) /\ Len(n.keys) = Len(m.values) + 1
      /\ DOMAIN n.keys = 1..(Len(m.values) + 1)
      /\ n.keys[Len(m.values) + 1] = k
      /\ \A i \in 1..Len(m.values) : n.keys[i] = m.keys[i]
  BY <1>1, <1>2, <1>3
<1>5. /\ n.values \in Seq(V) /\ Len(n.values) = Len(m.values) + 1
      /\ n.values[Len(m.values) + 1] = val
      /\ \A i \in 1..Len(m.values) : n.values[i] = m.values[i]
  BY <1>1, <1>2, <1>3
<1>6. /\ DOMAIN n.indices = DOMAIN m.indices \cup {k}
      /\ n.indices[k] = Len(m.values) + 1
      /\ \A key \in DOMAIN m.indices : n.indices[key] = m.indices[key]
  BY <1>2, <1>3
<1>7. n.indices \in [DOMAIN n.indices -> Nat] /\ DOMAIN n.indices \subseteq K
  <2>1. \A key \in DOMAIN m.indices : m.indices[key] \in Nat
    BY <1>1
  <2>2. Len(m.values) + 1 \in Nat
    BY <1>2
  <2>3. \A key \in DOMAIN n.indices : n.indices[key] \in Nat
    BY <1>6, <2>1, <2>2
  <2>4. n.indices = [key \in DOMAIN n.indices |-> n.indices[key]]
    BY <1>3
  <2> QED BY <1>1, <1>6, <2>3, <2>4
<1>8. InLockstep(n)
  <2>1. \A i \in 1..Len(m.values) : m.keys[i] \in DOMAIN m.indices /\ m.indices[m.keys[i]] = i
    BY <1>1, <1>2
  <2>2. \A i \in DOMAIN n.keys : n.indices[n.keys[i]] = i
    BY <1>2, <1>4, <1>6, <2>1
  <2>3. DOMAIN n.indices = {n.keys[i] : i \in DOMAIN n.keys}
    <3>1. \A i \in DOMAIN n.keys : n.keys[i] \in DOMAIN n.indices
      BY <1>2, <1>4, <1>6, <2>1
    <3>2. ASSUME NEW key \in DOMAIN n.indices PROVE \E i \in DOMAIN n.keys : n.keys[i] = key
      <4>1. CASE key = k
        BY <1>2, <1>4, <4>1
      <4>2. CASE key # k
        <5>1. PICK i \in 1..Len(m.values) : m.keys[i] = key
          BY <1>1, <1>2, <1>6, <4>2
        <5>2. i \in DOMAIN n.keys /\ n.keys[i] = m.keys[i]
          BY <1>2, <1>4, <5>1
        <5> QED BY <5>1, <5>2
      <4> QED BY <4>1, <4>2
    <3> QED BY <3>1, <3>2
  <2> QED BY <1>4, <1>5, <2>2, <2>3 DEF InLockstep
<1>9. n \in MapsTo(K, V)
  BY <1>3, <1>4, <1>5, <1>7, <1>8, MapFields
<1> QED BY <1>5, <1>6, <1>9 DEF Extends, IndexOf

(* insert at a key that is there: its value is another, its index is not.  *)
LEMMA InsertKnownFacts ==
  ASSUME NEW K, NEW V, NEW m \in MapsTo(K, V), NEW k, ContainsKey(m, k), NEW val \in V,
         NEW n, n = Insert(m, k, val)
  PROVE  /\ n \in MapsTo(K, V)
         /\ n.indices = m.indices
         /\ Len(n.values) = Len(m.values)
         /\ ValueOf(n, k) = val
         /\ \A j \in DOMAIN m.indices : j # k => ValueOf(n, j) = ValueOf(m, j)
<1>1. /\ m = [indices |-> m.indices, keys |-> m.keys, values |-> m.values]
      /\ m.indices \in [DOMAIN m.indices -> Nat]
      /\ DOMAIN m.indices \subseteq K
      /\ m.keys \in Seq(K)
      /\ m.values \in Seq(V)
      /\ InLockstep(m)
  BY MapFields
<1>2. /\ k \in DOMAIN m.indices
      /\ IndexOf(m, k) \in 1..Len(m.values)
      /\ DOMAIN m.values = 1..Len(m.values)
      /\ \A j \in DOMAIN m.indices : /\ IndexOf(m, j) \in 1..Len(m.values)
                                     /\ IndexOf(m, j) = IndexOf(m, k) => j = k
  BY LockstepFacts DEF ContainsKey
<1>3. /\ n.indices = m.indices
      /\ n.keys = m.keys
      /\ n.values = [m.values EXCEPT ![IndexOf(m, k)] = val]
      /\ n = [indices |-> n.indices, keys |-> n.keys, values |-> n.values]
  BY <1>1 DEF Insert
<1>4. /\ n.values \in Seq(V)
      /\ Len(n.values) = Len(m.values)
  BY <1>1, <1>2, <1>3
<1>5. n \in MapsTo(K, V)
  <2>1. InLockstep(n)
    BY <1>1, <1>3, <1>4 DEF InLockstep
  <2> QED BY <1>1, <1>3, <1>4, <2>1, MapFields
<1>6. ValueOf(n, k) = val
  BY <1>2, <1>3 DEF ValueOf, IndexOf
<1>7. \A j \in DOMAIN m.indices : j # k => ValueOf(n, j) = ValueOf(m, j)
  BY <1>2, <1>3 DEF ValueOf, IndexOf
<1> QED BY <1>3, <1>4, <1>5, <1>6, <1>7

(* A map starts empty.                                                     *)
LEMMA EmptyMapType ==
  ASSUME NEW K, NEW V
  PROVE  EmptyMap \in MapsTo(K, V)
<1>1. EmptyMap.indices \in [DOMAIN EmptyMap.indices -> Nat] /\ DOMAIN EmptyMap.indices = {}
  BY DEF EmptyMap
<1>2. InLockstep(EmptyMap)
  BY <1>1 DEF EmptyMap, InLockstep
<1>3. EmptyMap = [indices |-> EmptyMap.indices, keys |-> EmptyMap.keys, values |-> EmptyMap.values]
      /\ EmptyMap.keys \in Seq(K) /\ EmptyMap.values \in Seq(V)
  BY DEF EmptyMap
<1> QED BY <1>1, <1>2, <1>3, MapFields

----------------------------------------------------------------------------
(* Bit sets (ComponentBitSet).                                             *)
(* Every id has one word and one bit in it.                                *)
LEMMA WordAndBit ==
  ASSUME NEW id \in Nat
  PROVE  /\ WordOf(id) \in Nat \ {0}
         /\ BitOf(id) \in Bits
         /\ id = BITS_PER_WORD * (WordOf(id) - 1) + BitOf(id)
<1>1. /\ id \div BITS_PER_WORD \in Nat
      /\ id % BITS_PER_WORD \in 0..(BITS_PER_WORD - 1)
      /\ id = BITS_PER_WORD * (id \div BITS_PER_WORD) + (id % BITS_PER_WORD)
  BY WordAssumption
<1> QED BY <1>1 DEF WordOf, BitOf, Bits

(* No two ids share a bit of a word.                                       *)
LEMMA OneWordAndBit ==
  ASSUME NEW v \in Nat, NEW w \in Nat, NEW a \in Bits, NEW b \in Bits,
         BITS_PER_WORD * v + a = BITS_PER_WORD * w + b
  PROVE  v = w /\ a = b
<1> DEFINE B == BITS_PER_WORD
<1>1. B \in Nat \ {0} /\ a \in 0..(B - 1) /\ b \in 0..(B - 1)
  BY WordAssumption DEF Bits
<1> HIDE DEF B
<1>2. B * v + a = B * w + b
  BY DEF B
<1>3. \A m, n \in Nat : m < n => B * m + B <= B * n
  <2> SUFFICES ASSUME NEW m \in Nat, NEW n \in Nat, m < n PROVE B * m + B <= B * n
    OBVIOUS
  <2>1. PICK d \in Nat : n = m + 1 + d
    <3>1. n - m - 1 \in Nat /\ n = m + 1 + (n - m - 1)
      OBVIOUS
    <3> QED BY <3>1
  <2>2. B * n = B * m + B + B * d
    BY <1>1, <2>1
  <2>3. B * d \in Nat /\ B * m \in Nat
    BY <1>1
  <2> QED BY <1>1, <2>2, <2>3
<1>4. B * v \in Nat /\ B * w \in Nat
  BY <1>1
<1>5. ~ (v < w)
  <2> SUFFICES ASSUME v < w PROVE FALSE
    OBVIOUS
  <2>1. B * v + B <= B * w
    BY <1>3
  <2> QED BY <1>1, <1>2, <1>4, <2>1
<1>6. ~ (w < v)
  <2> SUFFICES ASSUME w < v PROVE FALSE
    OBVIOUS
  <2>1. B * w + B <= B * v
    BY <1>3
  <2> QED BY <1>1, <1>2, <1>4, <2>1
<1>7. v = w
  BY <1>5, <1>6
<1> QED BY <1>1, <1>2, <1>4, <1>7

(* What is beyond the last word reads as no bits.                          *)
LEMMA WordTyped ==
  ASSUME NEW words \in BitSet, NEW w
  PROVE  Word(words, w) \in SUBSET Bits
BY DEF Word, BitSet

(* The iterator yields the ids that are contained, and only those.         *)
LEMMA IdsContained ==
  ASSUME NEW words \in BitSet
  PROVE  /\ Ids(words) \subseteq Nat
         /\ \A id \in Nat : id \in Ids(words) <=> ContainsId(words, id)
<1>1. /\ Len(words) \in Nat
      /\ DOMAIN words = 1..Len(words)
      /\ \A w \in DOMAIN words : words[w] \in SUBSET Bits
  BY DEF BitSet
<1>2. \A w \in DOMAIN words, bit \in Bits : BITS_PER_WORD * (w - 1) + bit \in Nat
  BY <1>1, WordAssumption DEF Bits
<1>3. ASSUME NEW id \in Nat, id \in Ids(words)
      PROVE  ContainsId(words, id)
  <2>1. PICK w \in DOMAIN words : \E bit \in words[w] : id = BITS_PER_WORD * (w - 1) + bit
    BY <1>3 DEF Ids
  <2>a. PICK bit \in words[w] : id = BITS_PER_WORD * (w - 1) + bit
    BY <2>1
  <2>2. w - 1 \in Nat /\ WordOf(id) - 1 \in Nat /\ bit \in Bits
    <3>1. WordOf(id) \in Nat \ {0}
      BY <1>3, WordAndBit
    <3>2. w \in Nat \ {0} /\ words[w] \in SUBSET Bits
      BY <1>1
    <3> QED BY <3>1, <3>2
  <2>3. w - 1 = WordOf(id) - 1 /\ bit = BitOf(id)
    BY <2>a, <2>2, WordAndBit, OneWordAndBit
  <2>4. w = WordOf(id)
    BY <1>1, <2>3, WordAndBit
  <2> QED BY <2>a, <2>3, <2>4 DEF ContainsId, Word
<1>4. ASSUME NEW id \in Nat, ContainsId(words, id)
      PROVE  id \in Ids(words)
  <2>1. WordOf(id) \in DOMAIN words /\ BitOf(id) \in words[WordOf(id)]
    BY <1>4 DEF ContainsId, Word
  <2>2. id = BITS_PER_WORD * (WordOf(id) - 1) + BitOf(id)
    BY WordAndBit
  <2> QED BY <2>1, <2>2 DEF Ids
<1>5. Ids(words) \subseteq Nat
  <2> SUFFICES ASSUME NEW w \in DOMAIN words, NEW bit \in words[w]
               PROVE  BITS_PER_WORD * (w - 1) + bit \in Nat
    BY DEF Ids
  <2> QED BY <1>1, <1>2
<1> QED BY <1>3, <1>4, <1>5

(* Two ids are in one place only if they are the same.                     *)
LEMMA SamePlace ==
  ASSUME NEW i \in Nat, NEW j \in Nat, WordOf(i) = WordOf(j), BitOf(i) = BitOf(j)
  PROVE  i = j
BY WordAndBit

(* A bit that is set in some word is the bit of an id.                     *)
LEMMA PlaceOf ==
  ASSUME NEW words \in BitSet, NEW w \in DOMAIN words, NEW bit \in words[w]
  PROVE  \E id \in Nat : WordOf(id) = w /\ BitOf(id) = bit
<1>1. w \in Nat \ {0} /\ w - 1 \in Nat /\ bit \in Bits
  BY DEF BitSet
<1> DEFINE id == BITS_PER_WORD * (w - 1) + bit
<1>2. id \in Nat
  BY <1>1, WordAssumption DEF Bits
<1>3. WordOf(id) - 1 = w - 1 /\ BitOf(id) = bit
  <2>1. WordOf(id) - 1 \in Nat /\ BitOf(id) \in Bits
        /\ BITS_PER_WORD * (WordOf(id) - 1) + BitOf(id) = BITS_PER_WORD * (w - 1) + bit
    BY <1>2, WordAndBit
  <2> QED BY <1>1, <2>1, OneWordAndBit
<1>4. WordOf(id) = w
  BY <1>1, <1>2, <1>3, WordAndBit
<1> QED BY <1>2, <1>3, <1>4

(* insert.                                                                 *)
LEMMA InsertIdFacts ==
  ASSUME NEW words \in BitSet, NEW id \in Nat, NEW more, more = InsertId(words, id)
  PROVE  more \in BitSet /\ Ids(more) = Ids(words) \cup {id}
<1> DEFINE len == LongerOf(Len(words), WordOf(id))
<1>a. WordOf(id) \in Nat \ {0} /\ BitOf(id) \in Bits
  BY WordAndBit
<1>1. /\ WordOf(id) \in Nat \ {0} /\ BitOf(id) \in Bits
      /\ Len(words) \in Nat /\ DOMAIN words = 1..Len(words)
      /\ \A w \in DOMAIN words : words[w] \in SUBSET Bits
  BY <1>a DEF BitSet
<1>2. len \in Nat /\ WordOf(id) \in 1..len /\ 1..Len(words) \subseteq 1..len
  BY <1>1 DEF LongerOf
<1>3. \A w : Word(words, w) \in SUBSET Bits
  BY WordTyped
<1> HIDE DEF len
<1>4. more = [w \in 1..len |->
                IF w = WordOf(id) THEN Word(words, w) \cup {BitOf(id)} ELSE Word(words, w)]
  BY <1>2 DEF len, InsertId, Resize
<1>5. more \in BitSet
  <2>1. more \in [1..len -> SUBSET Bits]
    BY <1>1, <1>3, <1>4
  <2> QED BY <1>2, <2>1 DEF BitSet
<1>6. ASSUME NEW k \in Nat
      PROVE  ContainsId(more, k) <=> ContainsId(words, k) \/ k = id
  <2>1. WordOf(k) \in DOMAIN words => WordOf(k) \in 1..len
    BY <1>1, <1>2
  <2>2. CASE WordOf(k) = WordOf(id)
    <3>1. Word(more, WordOf(k)) = Word(words, WordOf(k)) \cup {BitOf(id)}
      BY <1>2, <1>4, <2>2 DEF Word
    <3> QED BY <2>2, <3>1, SamePlace DEF ContainsId
  <2>3. CASE WordOf(k) # WordOf(id)
    <3>1. Word(more, WordOf(k)) = Word(words, WordOf(k))
      BY <1>4, <2>1, <2>3 DEF Word
    <3> QED BY <2>3, <3>1 DEF ContainsId
  <2> QED BY <2>2, <2>3
<1> QED BY <1>5, <1>6, IdsContained

(* union_with.                                                             *)
LEMMA UnionFacts ==
  ASSUME NEW a \in BitSet, NEW b \in BitSet, NEW both, both = UnionWith(a, b)
  PROVE  both \in BitSet /\ Ids(both) = Ids(a) \cup Ids(b)
<1> DEFINE len == LongerOf(Len(a), Len(b))
<1>1. /\ Len(a) \in Nat /\ DOMAIN a = 1..Len(a)
      /\ Len(b) \in Nat /\ DOMAIN b = 1..Len(b)
  BY DEF BitSet
<1>2. len \in Nat /\ DOMAIN a \subseteq 1..len /\ DOMAIN b \subseteq 1..len
  BY <1>1 DEF LongerOf
<1>3. \A w : Word(a, w) \in SUBSET Bits /\ Word(b, w) \in SUBSET Bits
  BY WordTyped
<1> HIDE DEF len
<1>4. both = [w \in 1..len |-> Word(a, w) \cup Word(b, w)]
  BY DEF len, UnionWith
<1>5. both \in BitSet
  <2>1. both \in [1..len -> SUBSET Bits]
    BY <1>3, <1>4
  <2> QED BY <1>2, <2>1 DEF BitSet
<1>6. ASSUME NEW k \in Nat
      PROVE  ContainsId(both, k) <=> ContainsId(a, k) \/ ContainsId(b, k)
  <2>1. Word(both, WordOf(k)) = Word(a, WordOf(k)) \cup Word(b, WordOf(k))
    BY <1>2, <1>4 DEF Word
  <2> QED BY <2>1 DEF ContainsId
<1> QED BY <1>5, <1>6, IdsContained

(* contains_all, whichever of the two sets is longer.                      *)
LEMMA ContainsAllFacts ==
  ASSUME NEW a \in BitSet, NEW b \in BitSet
  PROVE  ContainsAll(a, b) <=> Ids(b) \subseteq Ids(a)
<1>1. ASSUME ContainsAll(a, b), NEW id \in Ids(b)
      PROVE  id \in Ids(a)
  <2>1. id \in Nat /\ WordOf(id) \in DOMAIN b /\ BitOf(id) \in b[WordOf(id)]
    BY <1>1, IdsContained DEF ContainsId, Word
  <2>2. BitOf(id) \in Word(a, WordOf(id))
    BY <1>1, <2>1 DEF ContainsAll
  <2> QED BY <2>1, <2>2, IdsContained DEF ContainsId
<1>2. ASSUME Ids(b) \subseteq Ids(a), NEW w \in DOMAIN b, NEW bit \in b[w]
      PROVE  bit \in Word(a, w)
  <2>1. PICK id \in Nat : WordOf(id) = w /\ BitOf(id) = bit
    BY PlaceOf
  <2>2. id \in Ids(b)
    BY <2>1, IdsContained DEF ContainsId, Word
  <2> QED BY <1>2, <2>1, <2>2, IdsContained DEF ContainsId
<1> QED BY <1>1, <1>2 DEF ContainsAll

(* intersects.                                                             *)
LEMMA IntersectsFacts ==
  ASSUME NEW a \in BitSet, NEW b \in BitSet
  PROVE  Intersects(a, b) <=> Ids(a) \cap Ids(b) # {}
<1>1. ASSUME Intersects(a, b)
      PROVE  Ids(a) \cap Ids(b) # {}
  <2>1. PICK w \in DOMAIN a \cap DOMAIN b : a[w] \cap b[w] # {}
    BY <1>1 DEF Intersects, IsDisjoint
  <2>2. PICK bit \in a[w] : bit \in b[w]
    BY <2>1
  <2>3. PICK id \in Nat : WordOf(id) = w /\ BitOf(id) = bit
    BY PlaceOf
  <2>4. id \in Ids(a) /\ id \in Ids(b)
    BY <2>1, <2>2, <2>3, IdsContained DEF ContainsId, Word
  <2> QED BY <2>4
<1>2. ASSUME NEW id \in Ids(a), id \in Ids(b)
      PROVE  Intersects(a, b)
  <2>1. /\ id \in Nat
        /\ BitOf(id) \in Word(a, WordOf(id))
        /\ BitOf(id) \in Word(b, WordOf(id))
    BY <1>2, IdsContained DEF ContainsId
  <2>2. WordOf(id) \in DOMAIN a \cap DOMAIN b
    BY <2>1 DEF Word
  <2> QED BY <2>1, <2>2 DEF Word, Intersects, IsDisjoint
<1> QED BY <1>1, <1>2

(* No words, no ids.                                                       *)
LEMMA EmptyBits == EmptyBitSet \in BitSet /\ Ids(EmptyBitSet) = {}
BY DEF EmptyBitSet, BitSet, Ids

----------------------------------------------------------------------------
(* Folds over the short sequences of the registries.                       *)

(* The last element of a prefix is in it.                                  *)
LEMMA MaxOf ==
  ASSUME NEW n \in Nat, NEW s \in SUBSET (1..n), s # {}
  PROVE  Seqs!Max(s) \in s
<1> DEFINE N == {n - x : x \in s}
<1>1. N \in SUBSET Nat /\ N # {}
  <2>1. \A x \in s : n - x \in Nat
    OBVIOUS
  <2> QED BY <2>1
<1>2. PICK k \in N : \A m \in N : k <= m
  BY <1>1, LeastNumber
<1>3. PICK x \in s : k = n - x
  OBVIOUS
<1>4. \A y \in s : x >= y
  <2> SUFFICES ASSUME NEW y \in s PROVE x >= y
    OBVIOUS
  <2>1. n - x <= n - y
    BY <1>2, <1>3
  <2> QED BY <2>1
<1> QED BY <1>4 DEF Seqs!Max

(* The prefixes that a fold over one or two elements goes through.         *)
LEMMA SmallSets ==
  ASSUME NEW a, NEW b
  PROVE  /\ SUBSET {1} = {{}, {1}}
         /\ SUBSET {1, 2} = {{}, {1}, {2}, {1, 2}}
         /\ {1} # {} /\ {2} # {} /\ {1, 2} # {} /\ {1} # {2} /\ {1, 2} # {1} /\ {1, 2} # {2}
         /\ {1} \ {Seqs!Max({1})} = {} /\ <<a>>[Seqs!Max({1})] = a
         /\ <<a, b>>[Seqs!Max({1})] = a
         /\ {2} \ {Seqs!Max({2})} = {} /\ <<a, b>>[Seqs!Max({2})] = b
         /\ {1, 2} \ {Seqs!Max({1, 2})} = {1} /\ <<a, b>>[Seqs!Max({1, 2})] = b
<1>1. Seqs!Max({1}) = 1 /\ Seqs!Max({2}) = 2
  BY DEF Seqs!Max
<1>2. Seqs!Max({1, 2}) = 2
  BY DEF Seqs!Max
<1>3. 1 # 2 /\ {1} # {} /\ {2} # {} /\ {1, 2} # {} /\ {1} # {2} /\ {1, 2} # {1} /\ {1, 2} # {2}
  OBVIOUS
<1>4. SUBSET {1} = {{}, {1}} /\ SUBSET {1, 2} = {{}, {1}, {2}, {1, 2}}
  OBVIOUS
<1>5. {1} \ {1} = {} /\ {2} \ {2} = {} /\ {1, 2} \ {2} = {1}
  OBVIOUS
<1>6. <<a>>[1] = a /\ <<a, b>>[1] = a /\ <<a, b>>[2] = b
  OBVIOUS
<1> QED BY <1>1, <1>2, <1>3, <1>4, <1>5, <1>6

(* One or two archetypes looked up.                                        *)
(* The fold of Register.                                                   *)
RegisteredAll(reg, lookups) == Seqs!FoldLeft(WithArchSpec, reg, lookups)

(* One archetype looked up, or two.                                        *)
LEMMA Lookups ==
  ASSUME NEW reg, NEW a, NEW b, NEW sets
  PROVE  /\ sets = <<a>> => RegisteredAll(reg, sets) = WithArchSpec(reg, a)
         /\ sets = <<a, b>> => RegisteredAll(reg, sets) = WithArchSpec(WithArchSpec(reg, a), b)
<1>0. /\ {1} # {} /\ {2} # {} /\ {1, 2} # {}
      /\ {1} \ {Seqs!Max({1})} = {} /\ <<a, b>>[Seqs!Max({1})] = a
      /\ {2} \ {Seqs!Max({2})} = {} /\ <<a, b>>[Seqs!Max({2})] = b
      /\ {1, 2} \ {Seqs!Max({1, 2})} = {1} /\ <<a, b>>[Seqs!Max({1, 2})] = b
  BY SmallSets
<1> USE SmallSets
<1>1. Seqs!FoldLeft(WithArchSpec, reg, <<a>>) = WithArchSpec(reg, a)
  <2> DEFINE Of(g, s) == IF s = {} THEN reg
                         ELSE WithArchSpec(g[s \ {Seqs!Max(s)}], <<a>>[Seqs!Max(s)])
             Eq(g) == g = [s \in SUBSET {1} |-> Of(g, s)]
             f == [s \in SUBSET {1} |-> IF s = {} THEN reg ELSE WithArchSpec(reg, a)]
  <2>1. \A s \in SUBSET {1} : f[s] = Of(f, s)
    <3>1. f[{}] = reg /\ f[{1}] = WithArchSpec(reg, a)
      OBVIOUS
    <3>2. Of(f, {1}) = WithArchSpec(f[{}], a)
      OBVIOUS
    <3> QED BY <3>1, <3>2
  <2>2. Eq(f)
    BY <2>1
  <2>3. PICK fold : Eq(fold) /\ Seqs!FoldLeft(WithArchSpec, reg, <<a>>) = fold[{1}]
    <3> DEFINE fold == CHOOSE g : Eq(g)
    <3>1. Eq(fold)
      <4> HIDE DEF Eq, f
      <4> QED BY <2>2
    <3>2. Seqs!FoldLeft(WithArchSpec, reg, <<a>>) = fold[{1}]
      BY DEF Seqs!FoldLeft, Seqs!MapThenFoldSet
    <3> HIDE DEF fold
    <3> QED BY <3>1, <3>2
  <2>4. \A s \in SUBSET {1} : fold[s] = Of(fold, s)
    BY <2>3
  <2>5. fold[{}] = reg
    BY <2>4
  <2>6. fold[{1}] = WithArchSpec(fold[{}], a)
    <3>1. fold[{1}] = Of(fold, {1})
      <4> HIDE DEF Of
      <4> QED BY <2>4
    <3>2. Of(fold, {1}) = WithArchSpec(fold[{}], a)
      OBVIOUS
    <3> QED BY <3>1, <3>2
  <2> QED BY <2>3, <2>5, <2>6
<1>2. Seqs!FoldLeft(WithArchSpec, reg, <<a, b>>) = WithArchSpec(WithArchSpec(reg, a), b)
  <2> DEFINE Of(g, s) == IF s = {} THEN reg
                         ELSE WithArchSpec(g[s \ {Seqs!Max(s)}], <<a, b>>[Seqs!Max(s)])
             Eq(g) == g = [s \in SUBSET {1, 2} |-> Of(g, s)]
             f == [s \in SUBSET {1, 2} |->
                     IF s = {} THEN reg
                     ELSE IF s = {1} THEN WithArchSpec(reg, a)
                     ELSE IF s = {2} THEN WithArchSpec(reg, b)
                     ELSE WithArchSpec(WithArchSpec(reg, a), b)]
  <2>1. \A s \in SUBSET {1, 2} : f[s] = Of(f, s)
    <3>1. /\ f[{}] = reg /\ f[{1}] = WithArchSpec(reg, a) /\ f[{2}] = WithArchSpec(reg, b)
          /\ f[{1, 2}] = WithArchSpec(WithArchSpec(reg, a), b)
      OBVIOUS
    <3>2. /\ Of(f, {}) = reg /\ Of(f, {1}) = WithArchSpec(f[{}], a)
          /\ Of(f, {2}) = WithArchSpec(f[{}], b) /\ Of(f, {1, 2}) = WithArchSpec(f[{1}], b)
      <4> HIDE DEF f
      <4>1. Of(f, {}) = reg
        BY ONLY <1>0 DEF Of
      <4>2. Of(f, {1}) = WithArchSpec(f[{}], a)
        BY ONLY <1>0 DEF Of
      <4>3. Of(f, {2}) = WithArchSpec(f[{}], b)
        BY ONLY <1>0 DEF Of
      <4>4. Of(f, {1, 2}) = WithArchSpec(f[{1}], b)
        BY ONLY <1>0 DEF Of
      <4> QED BY ONLY <4>1, <4>2, <4>3, <4>4
    <3> HIDE DEF f, Of
    <3>3. /\ f[{}] = Of(f, {}) /\ f[{1}] = Of(f, {1}) /\ f[{2}] = Of(f, {2})
          /\ f[{1, 2}] = Of(f, {1, 2})
      BY <3>1, <3>2
    <3> SUFFICES ASSUME NEW s \in SUBSET {1, 2} PROVE f[s] = Of(f, s)
      OBVIOUS
    <3>4. s = {} \/ s = {1} \/ s = {2} \/ s = {1, 2}
      OBVIOUS
    <3> QED BY <3>3, <3>4
  <2>2. Eq(f)
    BY <2>1
  <2>3. PICK fold : Eq(fold) /\ Seqs!FoldLeft(WithArchSpec, reg, <<a, b>>) = fold[{1, 2}]
    <3> DEFINE fold == CHOOSE g : Eq(g)
    <3>1. Eq(fold)
      <4> HIDE DEF Eq, f
      <4> QED BY <2>2
    <3>2. Seqs!FoldLeft(WithArchSpec, reg, <<a, b>>) = fold[{1, 2}]
      BY DEF Seqs!FoldLeft, Seqs!MapThenFoldSet
    <3> HIDE DEF fold
    <3> QED BY <3>1, <3>2
  <2>4. \A s \in SUBSET {1, 2} : fold[s] = Of(fold, s)
    BY <2>3
  <2>5. fold[{}] = reg /\ fold[{1}] = WithArchSpec(fold[{}], a) /\ fold[{1, 2}] = WithArchSpec(fold[{1}], b)
    <3>1. /\ fold[{}] = Of(fold, {}) /\ fold[{1}] = Of(fold, {1})
          /\ fold[{1, 2}] = Of(fold, {1, 2})
      <4> HIDE DEF Of
      <4> QED BY <2>4
    <3>2. /\ Of(fold, {}) = reg /\ Of(fold, {1}) = WithArchSpec(fold[{}], a)
          /\ Of(fold, {1, 2}) = WithArchSpec(fold[{1}], b)
      BY ONLY <1>0 DEF Of
    <3> QED BY <3>1, <3>2
  <2> QED BY <2>3, <2>5
<1> QED BY <1>1, <1>2 DEF RegisteredAll

(* One or two queries prepared.                                            *)
(* The fold of BeginStep.                                                  *)
PreparedAll(reg, qs) == Seqs!FoldLeft(PrepareQuery, reg, qs)

(* One query prepared, or two.                                             *)
LEMMA Prepared ==
  ASSUME NEW reg, NEW a, NEW b
  PROVE  /\ PreparedAll(reg, <<a>>) = PrepareQuery(reg, a)
         /\ PreparedAll(reg, <<a, b>>) = PrepareQuery(PreparedAll(reg, <<a>>), b)
<1>0. /\ {1} # {} /\ {2} # {} /\ {1, 2} # {}
      /\ {1} \ {Seqs!Max({1})} = {} /\ <<a, b>>[Seqs!Max({1})] = a
      /\ {2} \ {Seqs!Max({2})} = {} /\ <<a, b>>[Seqs!Max({2})] = b
      /\ {1, 2} \ {Seqs!Max({1, 2})} = {1} /\ <<a, b>>[Seqs!Max({1, 2})] = b
  BY SmallSets
<1> USE SmallSets
<1>1. Seqs!FoldLeft(PrepareQuery, reg, <<a>>) = PrepareQuery(reg, a)
  <2> DEFINE Of(g, s) == IF s = {} THEN reg
                         ELSE PrepareQuery(g[s \ {Seqs!Max(s)}], <<a>>[Seqs!Max(s)])
             Eq(g) == g = [s \in SUBSET {1} |-> Of(g, s)]
             f == [s \in SUBSET {1} |-> IF s = {} THEN reg ELSE PrepareQuery(reg, a)]
  <2>1. \A s \in SUBSET {1} : f[s] = Of(f, s)
    <3>1. f[{}] = reg /\ f[{1}] = PrepareQuery(reg, a)
      OBVIOUS
    <3>2. Of(f, {1}) = PrepareQuery(f[{}], a)
      OBVIOUS
    <3> QED BY <3>1, <3>2
  <2>2. Eq(f)
    BY <2>1
  <2>3. PICK fold : Eq(fold) /\ Seqs!FoldLeft(PrepareQuery, reg, <<a>>) = fold[{1}]
    <3> DEFINE fold == CHOOSE g : Eq(g)
    <3>1. Eq(fold)
      <4> HIDE DEF Eq, f
      <4> QED BY <2>2
    <3>2. Seqs!FoldLeft(PrepareQuery, reg, <<a>>) = fold[{1}]
      BY DEF Seqs!FoldLeft, Seqs!MapThenFoldSet
    <3> HIDE DEF fold
    <3> QED BY <3>1, <3>2
  <2>4. \A s \in SUBSET {1} : fold[s] = Of(fold, s)
    BY <2>3
  <2>5. fold[{}] = reg
    BY <2>4
  <2>6. fold[{1}] = PrepareQuery(fold[{}], a)
    <3>1. fold[{1}] = Of(fold, {1})
      <4> HIDE DEF Of
      <4> QED BY <2>4
    <3>2. Of(fold, {1}) = PrepareQuery(fold[{}], a)
      OBVIOUS
    <3> QED BY <3>1, <3>2
  <2> QED BY <2>3, <2>5, <2>6
<1>2. Seqs!FoldLeft(PrepareQuery, reg, <<a, b>>) = PrepareQuery(PrepareQuery(reg, a), b)
  <2> DEFINE Of(g, s) == IF s = {} THEN reg
                         ELSE PrepareQuery(g[s \ {Seqs!Max(s)}], <<a, b>>[Seqs!Max(s)])
             Eq(g) == g = [s \in SUBSET {1, 2} |-> Of(g, s)]
             f == [s \in SUBSET {1, 2} |->
                     IF s = {} THEN reg
                     ELSE IF s = {1} THEN PrepareQuery(reg, a)
                     ELSE IF s = {2} THEN PrepareQuery(reg, b)
                     ELSE PrepareQuery(PrepareQuery(reg, a), b)]
  <2>1. \A s \in SUBSET {1, 2} : f[s] = Of(f, s)
    <3>1. /\ f[{}] = reg /\ f[{1}] = PrepareQuery(reg, a) /\ f[{2}] = PrepareQuery(reg, b)
          /\ f[{1, 2}] = PrepareQuery(PrepareQuery(reg, a), b)
      OBVIOUS
    <3>2. /\ Of(f, {}) = reg /\ Of(f, {1}) = PrepareQuery(f[{}], a)
          /\ Of(f, {2}) = PrepareQuery(f[{}], b) /\ Of(f, {1, 2}) = PrepareQuery(f[{1}], b)
      <4> HIDE DEF f
      <4>1. Of(f, {}) = reg
        BY ONLY <1>0 DEF Of
      <4>2. Of(f, {1}) = PrepareQuery(f[{}], a)
        BY ONLY <1>0 DEF Of
      <4>3. Of(f, {2}) = PrepareQuery(f[{}], b)
        BY ONLY <1>0 DEF Of
      <4>4. Of(f, {1, 2}) = PrepareQuery(f[{1}], b)
        BY ONLY <1>0 DEF Of
      <4> QED BY ONLY <4>1, <4>2, <4>3, <4>4
    <3> HIDE DEF f, Of
    <3>3. /\ f[{}] = Of(f, {}) /\ f[{1}] = Of(f, {1}) /\ f[{2}] = Of(f, {2})
          /\ f[{1, 2}] = Of(f, {1, 2})
      BY <3>1, <3>2
    <3> SUFFICES ASSUME NEW s \in SUBSET {1, 2} PROVE f[s] = Of(f, s)
      OBVIOUS
    <3>4. s = {} \/ s = {1} \/ s = {2} \/ s = {1, 2}
      OBVIOUS
    <3> QED BY <3>3, <3>4
  <2>2. Eq(f)
    BY <2>1
  <2>3. PICK fold : Eq(fold) /\ Seqs!FoldLeft(PrepareQuery, reg, <<a, b>>) = fold[{1, 2}]
    <3> DEFINE fold == CHOOSE g : Eq(g)
    <3>1. Eq(fold)
      <4> HIDE DEF Eq, f
      <4> QED BY <2>2
    <3>2. Seqs!FoldLeft(PrepareQuery, reg, <<a, b>>) = fold[{1, 2}]
      BY DEF Seqs!FoldLeft, Seqs!MapThenFoldSet
    <3> HIDE DEF fold
    <3> QED BY <3>1, <3>2
  <2>4. \A s \in SUBSET {1, 2} : fold[s] = Of(fold, s)
    BY <2>3
  <2>5. fold[{}] = reg /\ fold[{1}] = PrepareQuery(fold[{}], a) /\ fold[{1, 2}] = PrepareQuery(fold[{1}], b)
    <3>1. /\ fold[{}] = Of(fold, {}) /\ fold[{1}] = Of(fold, {1})
          /\ fold[{1, 2}] = Of(fold, {1, 2})
      <4> HIDE DEF Of
      <4> QED BY <2>4
    <3>2. /\ Of(fold, {}) = reg /\ Of(fold, {1}) = PrepareQuery(fold[{}], a)
          /\ Of(fold, {1, 2}) = PrepareQuery(fold[{1}], b)
      BY ONLY <1>0 DEF Of
    <3> QED BY <3>1, <3>2
  <2> QED BY <2>3, <2>5
<1> QED BY <1>1, <1>2 DEF PreparedAll

----------------------------------------------------------------------------
(* Components.                                                             *)
Counters == MapsTo(Components, Components)

(* Every one of cs has an id.                                              *)
Known(counter, cs) == cs \subseteq DOMAIN counter.indices

(* component_id_for.                                                       *)
LEMMA WithComponentFacts ==
  ASSUME NEW counter \in Counters, NEW c \in Components, NEW n, n = WithComponent(counter, c)
  PROVE  /\ n \in Counters
         /\ Extends(counter, n)
         /\ DOMAIN n.indices = DOMAIN counter.indices \cup {c}
<1>1. CASE ContainsKey(counter, c)
  BY <1>1 DEF WithComponent, GetOrInsert, ContainsKey, Extends
<1>2. CASE ~ ContainsKey(counter, c)
  <2>1. n = AppendEntry(counter, c, c)
    BY <1>2 DEF WithComponent, GetOrInsert
  <2> QED BY <1>2, <2>1, AppendEntryFacts DEF Counters
<1> QED BY <1>1, <1>2

(* The components of a tuple, one after the other.                         *)
LEMMA ComponentsOfTuple ==
  ASSUME NEW counter \in Counters, NEW t \in Seq(Components),
         NEW n, n = Seqs!FoldLeft(WithComponent, counter, t)
  PROVE  /\ n \in Counters
         /\ Extends(counter, n)
         /\ Known(n, SetOf(t))
<1> DEFINE S == DOMAIN t
           last == [s \in (SUBSET S) \ {{}} |-> Seqs!Max(s)]
           add == [p \in Counters \X S |-> WithComponent(p[1], t[p[2]])]
           Of(g, s) == IF s = {} THEN counter ELSE WithComponent(g[s \ {Seqs!Max(s)}], t[Seqs!Max(s)])
           Eq(g) == g = [s \in SUBSET S |-> Of(g, s)]
           holds == [s \in SUBSET S |->
                       {m \in Counters : Extends(counter, m) /\ \A i \in s : t[i] \in DOMAIN m.indices}]
<1>1. S = 1..Len(t) /\ Len(t) \in Nat /\ IsFiniteSet(S) /\ \A i \in S : t[i] \in Components
  BY FS_Interval
<1>2. \A s \in SUBSET S : s # {} => Seqs!Max(s) \in s /\ last[s] = Seqs!Max(s)
  BY <1>1, MaxOf
<1>3. add \in [Counters \X S -> Counters]
  <2> SUFFICES ASSUME NEW m \in Counters, NEW i \in S PROVE WithComponent(m, t[i]) \in Counters
    OBVIOUS
  <2> QED BY <1>1, WithComponentFacts
<1>4. PICK f \in [SUBSET S -> Counters] : IsFold(f, S, counter, add, last)
  <2> HIDE DEF add, last, S
  <2>1. \A s \in SUBSET S : s # {} => last[s] \in s
    BY <1>2
  <2> QED BY <1>1, <1>3, <2>1, FoldExists
<1>5. Eq(f)
  <2>1. ASSUME NEW s \in SUBSET S PROVE f[s] = Of(f, s)
    <3>1. CASE s = {}
      BY <1>4, <3>1 DEF IsFold
    <3>2. CASE s # {}
      <4>1. f[s] = add[<<f[s \ {last[s]}], last[s]>>]
        BY <1>4, <3>2 DEF IsFold
      <4>2. last[s] \in S /\ f[s \ {last[s]}] \in Counters
        BY <1>2, <3>2
      <4>3. add[<<f[s \ {last[s]}], last[s]>>] = WithComponent(f[s \ {last[s]}], t[last[s]])
        <5> HIDE DEF last, S
        <5> QED BY <4>2
      <4> QED BY <1>2, <3>2, <4>1, <4>3
    <3> QED BY <3>1, <3>2
  <2>2. f = [s \in SUBSET S |-> f[s]]
    OBVIOUS
  <2> HIDE DEF Of
  <2> QED BY <2>1, <2>2
<1>6. PICK fold : Eq(fold) /\ n = fold[S]
  <2> DEFINE fold == CHOOSE g : Eq(g)
  <2>1. Eq(fold)
    <3> HIDE DEF Eq
    <3> QED BY <1>5
  <2>2. n = fold[S]
    BY DEF Seqs!FoldLeft, Seqs!MapThenFoldSet
  <2> HIDE DEF fold
  <2> QED BY <2>1, <2>2
<1>7. \A s \in SUBSET S : fold[s] = Of(fold, s)
  <2> HIDE DEF Of
  <2> QED BY <1>6
<1>8. counter \in holds[{}] /\ fold[{}] = counter
  BY <1>7 DEF Extends
<1>9. ASSUME NEW s \in SUBSET S, s # {}, fold[s \ {last[s]}] \in holds[s \ {last[s]}]
      PROVE  fold[s] \in holds[s]
  <2>1. last[s] \in s /\ last[s] \in S /\ fold[s] = WithComponent(fold[s \ {last[s]}], t[last[s]])
    BY <1>2, <1>7, <1>9
  <2>2. PICK m \in Counters : /\ m = fold[s \ {last[s]}] /\ Extends(counter, m)
                              /\ \A i \in s \ {last[s]} : t[i] \in DOMAIN m.indices
    BY <1>9
  <2>3. PICK o : o = fold[s]
    OBVIOUS
  <2>4. /\ o \in Counters /\ Extends(m, o)
        /\ DOMAIN o.indices = DOMAIN m.indices \cup {t[last[s]]}
    <3>1. o = WithComponent(m, t[last[s]]) /\ t[last[s]] \in Components
      BY <1>1, <2>1, <2>2, <2>3
    <3> HIDE DEF last
    <3> QED BY <3>1, WithComponentFacts
  <2>5. Extends(counter, o)
    BY <2>2, <2>4, ExtendsTwice
  <2>6. \A i \in s : t[i] \in DOMAIN o.indices
    BY <2>2, <2>4
  <2> QED BY <2>3, <2>4, <2>5, <2>6
<1>10. fold[S] \in holds[S]
  <2> HIDE DEF holds, last, S
  <2>1. \A s \in SUBSET S : s # {} => last[s] \in s
    BY <1>2
  <2>2. \A s \in SUBSET S : fold[s] \in holds[s]
    BY <1>1, <1>8, <1>9, <2>1, FoldKeeps
  <2> QED BY <2>2
<1>11. n \in Counters /\ Extends(counter, n) /\ \A i \in S : t[i] \in DOMAIN n.indices
  BY <1>6, <1>10
<1> QED BY <1>11 DEF Known, SetOf, Seqs!ToSet

(* build_component_bit_set.                                                *)
LEMMA BitSetOfFacts ==
  ASSUME NEW ids \in SUBSET Nat, IsFiniteSet(ids), NEW words, words = BitSetOf(ids)
  PROVE  words \in BitSet /\ Ids(words) = ids
<1> DEFINE Some(s) == CHOOSE x \in s : TRUE
           last == [s \in (SUBSET ids) \ {{}} |-> Some(s)]
           add == [p \in BitSet \X ids |-> InsertId(p[1], p[2])]
           Of(g, s) == IF s = {} THEN EmptyBitSet ELSE InsertId(g[s \ {Some(s)}], Some(s))
           Eq(g) == g = [s \in SUBSET ids |-> Of(g, s)]
           holds == [s \in SUBSET ids |-> {w \in BitSet : Ids(w) = s}]
<1>2. \A s \in SUBSET ids : s # {} => Some(s) \in s /\ last[s] = Some(s)
  OBVIOUS
<1>3. add \in [BitSet \X ids -> BitSet]
  <2> SUFFICES ASSUME NEW w \in BitSet, NEW id \in ids PROVE InsertId(w, id) \in BitSet
    OBVIOUS
  <2> QED BY InsertIdFacts
<1> HIDE DEF Some
<1>4. PICK f \in [SUBSET ids -> BitSet] : IsFold(f, ids, EmptyBitSet, add, last)
  <2> HIDE DEF add, last
  <2>1. \A s \in SUBSET ids : s # {} => last[s] \in s
    BY <1>2
  <2> QED BY <1>3, <2>1, EmptyBits, FoldExists
<1>5. Eq(f)
  <2>1. ASSUME NEW s \in SUBSET ids PROVE f[s] = Of(f, s)
    <3>1. CASE s = {}
      BY <1>4, <3>1 DEF IsFold
    <3>2. CASE s # {}
      <4>1. f[s] = add[<<f[s \ {last[s]}], last[s]>>]
        BY <1>4, <3>2 DEF IsFold
      <4>2. last[s] \in ids /\ f[s \ {last[s]}] \in BitSet
        BY <1>2, <3>2
      <4>3. add[<<f[s \ {last[s]}], last[s]>>] = InsertId(f[s \ {last[s]}], last[s])
        <5> HIDE DEF last
        <5> QED BY <4>2
      <4> QED BY <1>2, <3>2, <4>1, <4>3
    <3> QED BY <3>1, <3>2
  <2>2. f = [s \in SUBSET ids |-> f[s]]
    OBVIOUS
  <2> HIDE DEF Of
  <2> QED BY <2>1, <2>2
<1>6. PICK fold : Eq(fold) /\ words = fold[ids]
  <2> DEFINE fold == CHOOSE g : Eq(g)
  <2>1. Eq(fold)
    <3> HIDE DEF Eq
    <3> QED BY <1>5
  <2>2. words = fold[ids]
    BY DEF BitSetOf, Sets!FoldSet, Sets!MapThenFoldSet, Some
  <2> HIDE DEF fold
  <2> QED BY <2>1, <2>2
<1>7. \A s \in SUBSET ids : fold[s] = Of(fold, s)
  <2> HIDE DEF Of
  <2> QED BY <1>6
<1>8. EmptyBitSet \in holds[{}] /\ fold[{}] = EmptyBitSet
  BY <1>7, EmptyBits
<1>9. ASSUME NEW s \in SUBSET ids, s # {}, fold[s \ {last[s]}] \in holds[s \ {last[s]}]
      PROVE  fold[s] \in holds[s]
  <2>1. last[s] \in s /\ last[s] \in Nat /\ fold[s] = InsertId(fold[s \ {last[s]}], last[s])
    BY <1>2, <1>7, <1>9
  <2>2. fold[s \ {last[s]}] \in BitSet /\ Ids(fold[s \ {last[s]}]) = s \ {last[s]}
    BY <1>9
  <2>3. fold[s] \in BitSet /\ Ids(fold[s]) = (s \ {last[s]}) \cup {last[s]}
    <3>1. PICK before, id : before = fold[s \ {last[s]}] /\ id = last[s]
      OBVIOUS
    <3>2. fold[s] \in BitSet /\ Ids(fold[s]) = Ids(before) \cup {id}
      BY <2>1, <2>2, <3>1, InsertIdFacts
    <3> QED BY <2>2, <3>1, <3>2
  <2>4. (s \ {last[s]}) \cup {last[s]} = s
    BY <2>1
  <2> QED BY <2>3, <2>4
<1>10. fold[ids] \in holds[ids]
  <2> HIDE DEF holds, last
  <2>1. \A s \in SUBSET ids : s # {} => last[s] \in s
    BY <1>2
  <2>2. \A s \in SUBSET ids : fold[s] \in holds[s]
    BY <1>8, <1>9, <2>1, FoldKeeps
  <2> QED BY <2>2
<1> QED BY <1>6, <1>10

----------------------------------------------------------------------------
(* Archetypes.                                                             *)
ArchSpecs == [components : SUBSET Components, component_bit_set : BitSet]

(* Every archetype registered is found by the ids of its components.       *)
ArchetypesRegistered(counter, specs, ids) ==
  /\ specs \in MapsTo(Nat, ArchSpecs)
  /\ DOMAIN specs.indices = 1..Len(specs.values)
  /\ \A i \in 1..Len(specs.values) :
       /\ Known(counter, specs.values[i].components)
       /\ Ids(specs.values[i].component_bit_set) = IdsOf(counter, specs.values[i].components)
       /\ IdsOf(counter, specs.values[i].components) \in DOMAIN ids
       /\ ids[IdsOf(counter, specs.values[i].components)] = i
  /\ \A key \in DOMAIN ids :
       \E i \in 1..Len(specs.values) : key = IdsOf(counter, specs.values[i].components)

(* The components of the archetypes registered.                            *)
SetsOf(specs) == {specs.values[i].components : i \in 1..Len(specs.values)}

(* Archetypes keep their index.                                            *)
Prefix(specs, more) ==
  /\ Len(specs.values) <= Len(more.values)
  /\ \A i \in 1..Len(specs.values) : more.values[i] = specs.values[i]

(* Ids tell components apart.                                              *)
LEMMA IdsTellApart ==
  ASSUME NEW counter \in Counters, NEW cs, NEW ds, Known(counter, cs), Known(counter, ds)
  PROVE  /\ IdsOf(counter, cs) \subseteq 1..Len(counter.values)
         /\ IdsOf(counter, cs) \in SUBSET Nat
         /\ IsFiniteSet(IdsOf(counter, cs))
         /\ IdsOf(counter, cs) \subseteq IdsOf(counter, ds) <=> cs \subseteq ds
         /\ IdsOf(counter, cs) \cap IdsOf(counter, ds) # {} <=> cs \cap ds # {}
         /\ IdsOf(counter, cs) = IdsOf(counter, ds) <=> cs = ds
<1>1. /\ Len(counter.values) \in Nat
      /\ \A c \in DOMAIN counter.indices : IndexOf(counter, c) \in 1..Len(counter.values)
      /\ \A c, d \in DOMAIN counter.indices : IndexOf(counter, c) = IndexOf(counter, d) => c = d
  BY LockstepFacts DEF Counters
<1>2. IdsOf(counter, cs) \subseteq 1..Len(counter.values)
  BY <1>1 DEF IdsOf, Known
<1>3. IsFiniteSet(IdsOf(counter, cs))
  <2>1. IsFiniteSet(1..Len(counter.values))
    BY <1>1, FS_Interval
  <2> QED BY <1>2, <2>1, FS_Subset
<1>4. \A c \in cs : IndexOf(counter, c) \in IdsOf(counter, ds) => c \in ds
  BY <1>1 DEF IdsOf, Known
<1>5. \A d \in ds : IndexOf(counter, d) \in IdsOf(counter, cs) => d \in cs
  BY <1>1 DEF IdsOf, Known
<1>6. (\A c \in cs : IndexOf(counter, c) \in IdsOf(counter, cs))
      /\ (\A d \in ds : IndexOf(counter, d) \in IdsOf(counter, ds))
  BY DEF IdsOf
<1>7. IdsOf(counter, cs) \subseteq IdsOf(counter, ds) <=> cs \subseteq ds
  <2>1. ASSUME IdsOf(counter, cs) \subseteq IdsOf(counter, ds) PROVE cs \subseteq ds
    BY <1>4, <1>6, <2>1
  <2>2. ASSUME cs \subseteq ds PROVE IdsOf(counter, cs) \subseteq IdsOf(counter, ds)
    BY <2>2 DEF IdsOf
  <2> QED BY <2>1, <2>2
<1>8. IdsOf(counter, ds) \subseteq IdsOf(counter, cs) <=> ds \subseteq cs
  <2>1. ASSUME IdsOf(counter, ds) \subseteq IdsOf(counter, cs) PROVE ds \subseteq cs
    BY <1>5, <1>6, <2>1
  <2>2. ASSUME ds \subseteq cs PROVE IdsOf(counter, ds) \subseteq IdsOf(counter, cs)
    BY <2>2 DEF IdsOf
  <2> QED BY <2>1, <2>2
<1>9. IdsOf(counter, cs) \cap IdsOf(counter, ds) # {} <=> cs \cap ds # {}
  <2>1. ASSUME NEW id \in IdsOf(counter, cs), id \in IdsOf(counter, ds) PROVE cs \cap ds # {}
    <3>1. PICK c \in cs : id = IndexOf(counter, c)
      BY DEF IdsOf
    <3> QED BY <1>4, <2>1, <3>1
  <2>2. ASSUME NEW c \in cs, c \in ds PROVE IdsOf(counter, cs) \cap IdsOf(counter, ds) # {}
    BY <1>6, <2>2
  <2> QED BY <2>1, <2>2
<1>10. IdsOf(counter, cs) = IdsOf(counter, ds) <=> cs = ds
  BY <1>7, <1>8
<1>11. IdsOf(counter, cs) \in SUBSET Nat
  BY <1>1, <1>2
<1> QED BY <1>2, <1>3, <1>7, <1>9, <1>10, <1>11

(* Components that come later do not change the ids there are.             *)
LEMMA IdsKept ==
  ASSUME NEW counter, NEW more, Extends(counter, more), NEW cs, Known(counter, cs)
  PROVE  Known(more, cs) /\ IdsOf(more, cs) = IdsOf(counter, cs)
BY DEF Extends, Known, IdsOf

(* Archetypes stay registered while components come.                       *)
LEMMA MoreComponents ==
  ASSUME NEW counter, NEW more, Extends(counter, more), NEW specs, NEW ids,
         ArchetypesRegistered(counter, specs, ids)
  PROVE  ArchetypesRegistered(more, specs, ids)
<1>1. \A i \in 1..Len(specs.values) :
        /\ Known(more, specs.values[i].components)
        /\ IdsOf(more, specs.values[i].components) = IdsOf(counter, specs.values[i].components)
  BY IdsKept DEF ArchetypesRegistered
<1> QED BY <1>1 DEF ArchetypesRegistered

(* Two archetypes never have the same components.                          *)
LEMMA OneArchetypePerSet ==
  ASSUME NEW counter, NEW specs, NEW ids, ArchetypesRegistered(counter, specs, ids),
         NEW i \in 1..Len(specs.values), NEW j \in 1..Len(specs.values),
         specs.values[i].components = specs.values[j].components
  PROVE  i = j
BY DEF ArchetypesRegistered

(* register_archetype_spec.                                                *)
LEMMA WithArchSpecFacts ==
  ASSUME component_counter' \in Counters,
         NEW specs, NEW ids, ArchetypesRegistered(component_counter', specs, ids),
         NEW cs \in SUBSET Components, Known(component_counter', cs),
         NEW reg, reg.specs = specs, reg.ids = ids,
         NEW new, new = WithArchSpec(reg, cs)
  PROVE  /\ ArchetypesRegistered(component_counter', new.specs, new.ids)
         /\ SetsOf(new.specs) = SetsOf(specs) \cup {cs}
         /\ Prefix(specs, new.specs)
<1> DEFINE counter == component_counter'
           key == IdsOf(counter, cs)
           id  == Len(specs.values) + 1
           spec == [components |-> cs, component_bit_set |-> BitSetOf(key)]
<1>1. counter \in Counters /\ Known(counter, cs) /\ ArchetypesRegistered(counter, specs, ids)
  OBVIOUS
<1>2. /\ Len(specs.values) \in Nat
      /\ specs \in MapsTo(Nat, ArchSpecs)
      /\ DOMAIN specs.indices = 1..Len(specs.values)
  BY LockstepFacts DEF ArchetypesRegistered
<1>3. new = IF key \in DOMAIN ids THEN reg
            ELSE [specs |-> Insert(specs, id, spec),
                  ids   |-> [k \in DOMAIN ids \cup {key} |-> IF k = key THEN id ELSE ids[k]]]
  BY DEF WithArchSpec
<1> HIDE DEF counter, key
<1>4. CASE key \in DOMAIN ids
  <2>1. PICK i \in 1..Len(specs.values) : key = IdsOf(counter, specs.values[i].components)
    BY <1>1, <1>4 DEF ArchetypesRegistered
  <2>2. specs.values[i].components = cs
    BY <1>1, <2>1, IdsTellApart DEF ArchetypesRegistered, key
  <2>3. new = reg
    BY <1>3, <1>4
  <2> QED BY <1>1, <1>2, <2>2, <2>3 DEF SetsOf, Prefix, counter
<1>5. CASE key \notin DOMAIN ids
  <2>1. new.specs = Insert(specs, id, spec)
        /\ new.ids = [k \in DOMAIN ids \cup {key} |-> IF k = key THEN id ELSE ids[k]]
    BY <1>3, <1>5
  <2>2. key \in SUBSET Nat /\ IsFiniteSet(key)
    BY <1>1, IdsTellApart DEF key
  <2>3. BitSetOf(key) \in BitSet /\ Ids(BitSetOf(key)) = key
    BY <2>2, BitSetOfFacts
  <2>4. /\ spec \in ArchSpecs
        /\ spec.components = cs
        /\ Ids(spec.component_bit_set) = key
    BY <2>3 DEF ArchSpecs
  <2> HIDE DEF spec
  <2>5. ~ ContainsKey(specs, id) /\ id \in Nat
    BY <1>2 DEF ContainsKey
  <2>6. new.specs = AppendEntry(specs, id, spec)
    BY <2>1, <2>5 DEF Insert
  <2>7. PICK more : more = new.specs
    OBVIOUS
  <2>8. /\ more \in MapsTo(Nat, ArchSpecs)
        /\ DOMAIN more.indices = DOMAIN specs.indices \cup {id}
        /\ Len(more.values) = id
        /\ more.values[id] = spec
        /\ \A i \in 1..Len(specs.values) : more.values[i] = specs.values[i]
    BY <1>2, <2>4, <2>5, <2>6, <2>7, AppendEntryFacts
  <2>9. PICK keys : keys = new.ids
    OBVIOUS
  <2>10. /\ DOMAIN keys = DOMAIN ids \cup {key}
         /\ keys[key] = id
         /\ \A k \in DOMAIN ids : keys[k] = ids[k]
    BY <1>5, <2>1, <2>9
  <2>11. \A i \in 1..Len(more.values) : i = id \/ i \in 1..Len(specs.values)
    BY <1>2, <2>8
  <2>12. id \in 1..Len(more.values) /\ 1..Len(specs.values) \subseteq 1..Len(more.values)
    BY <1>2, <2>8
  <2>13. ArchetypesRegistered(counter, more, keys)
    <3>1. DOMAIN more.indices = 1..Len(more.values)
      BY <1>2, <2>8
    <3>2. ASSUME NEW i \in 1..Len(more.values)
          PROVE  /\ Known(counter, more.values[i].components)
                 /\ Ids(more.values[i].component_bit_set) = IdsOf(counter, more.values[i].components)
                 /\ IdsOf(counter, more.values[i].components) \in DOMAIN keys
                 /\ keys[IdsOf(counter, more.values[i].components)] = i
      <4>1. CASE i = id
        BY <1>1, <2>4, <2>8, <2>10, <4>1 DEF key
      <4>2. CASE i \in 1..Len(specs.values)
        BY <1>1, <2>8, <2>10, <4>2 DEF ArchetypesRegistered
      <4> QED BY <2>11, <4>1, <4>2
    <3>3. ASSUME NEW k \in DOMAIN keys
          PROVE  \E i \in 1..Len(more.values) : k = IdsOf(counter, more.values[i].components)
      <4>1. CASE k = key
        BY <2>4, <2>8, <2>12, <4>1 DEF key
      <4>2. CASE k \in DOMAIN ids
        BY <1>1, <2>8, <2>12, <4>2 DEF ArchetypesRegistered
      <4> QED BY <2>10, <4>1, <4>2
    <3> QED BY <2>8, <3>1, <3>2, <3>3 DEF ArchetypesRegistered
  <2>14. SetsOf(more) = SetsOf(specs) \cup {cs}
    <3>1. \A i \in 1..Len(more.values) : more.values[i].components \in SetsOf(specs) \cup {cs}
      BY <2>4, <2>8, <2>11 DEF SetsOf
    <3>2. cs \in SetsOf(more)
      BY <2>4, <2>8, <2>12 DEF SetsOf
    <3>3. \A i \in 1..Len(specs.values) : specs.values[i].components \in SetsOf(more)
      BY <2>8, <2>12 DEF SetsOf
    <3>4. ASSUME NEW x PROVE x \in SetsOf(more) => x \in SetsOf(specs) \cup {cs}
      BY <3>1 DEF SetsOf
    <3>5. ASSUME NEW x PROVE x \in SetsOf(specs) => x \in SetsOf(more)
      BY <3>3 DEF SetsOf
    <3> QED BY <3>2, <3>4, <3>5
  <2>15. Prefix(specs, more)
    BY <1>2, <2>8 DEF Prefix
  <2> QED BY <2>7, <2>9, <2>13, <2>14, <2>15 DEF counter
<1> QED BY <1>4, <1>5

(* The registries agree, but for which archetypes there are.               *)
RegistriesOK ==
  /\ component_counter \in Counters
  /\ ArchetypesRegistered(component_counter, arch_specs, component_set_counter)
  /\ global_archetype_version = 1 + Len(arch_specs.values)

(* The archetypes an operation on t looked up are registered now.          *)
Registers(looked) ==
  /\ RegistriesOK'
  /\ Extends(component_counter, component_counter')
  /\ SetsOf(arch_specs') = SetsOf(arch_specs) \cup looked
  /\ Prefix(arch_specs, arch_specs')
  /\ UNCHANGED query_counter

(* The components of a tuple, then its archetype and that of a pair.       *)
LEMMA RegisterFacts ==
  ASSUME RegistriesOK, NEW t \in Seq(Components),
         NEW a \in SUBSET Components, a \subseteq SetOf(t) \cup DOMAIN component_counter.indices,
         NEW b \in SUBSET Components, b \subseteq SetOf(t) \cup DOMAIN component_counter.indices
  PROVE  /\ Register(t, <<a>>) => Registers({a})
         /\ Register(t, <<a, b>>) => Registers({a, b})
<1> DEFINE reg0 == [specs |-> arch_specs, ids |-> component_set_counter]
           reg1 == WithArchSpec(reg0, a)
           reg2 == WithArchSpec(reg1, b)
<1>1. ASSUME component_counter' = Seqs!FoldLeft(WithComponent, component_counter, t)
      PROVE  /\ component_counter' \in Counters
             /\ Extends(component_counter, component_counter')
             /\ ArchetypesRegistered(component_counter', reg1.specs, reg1.ids)
             /\ SetsOf(reg1.specs) = SetsOf(arch_specs) \cup {a}
             /\ Prefix(arch_specs, reg1.specs)
             /\ ArchetypesRegistered(component_counter', reg2.specs, reg2.ids)
             /\ SetsOf(reg2.specs) = SetsOf(arch_specs) \cup {a, b}
             /\ Prefix(arch_specs, reg2.specs)
  <2>1. /\ component_counter' \in Counters
        /\ Extends(component_counter, component_counter')
        /\ Known(component_counter', SetOf(t))
    BY <1>1, ComponentsOfTuple DEF RegistriesOK
  <2>2. ArchetypesRegistered(component_counter', arch_specs, component_set_counter)
    BY <2>1, MoreComponents DEF RegistriesOK
  <2>3. Known(component_counter', a) /\ Known(component_counter', b)
    BY <2>1 DEF Known, Extends
  <2>4. /\ ArchetypesRegistered(component_counter', reg1.specs, reg1.ids)
        /\ SetsOf(reg1.specs) = SetsOf(arch_specs) \cup {a}
        /\ Prefix(arch_specs, reg1.specs)
    <3>1. reg0.specs = arch_specs /\ reg0.ids = component_set_counter
      OBVIOUS
    <3> HIDE DEF reg0
    <3> QED BY <2>1, <2>2, <2>3, <3>1, WithArchSpecFacts
  <2> HIDE DEF reg1
  <2>5. /\ ArchetypesRegistered(component_counter', reg2.specs, reg2.ids)
        /\ SetsOf(reg2.specs) = SetsOf(reg1.specs) \cup {b}
        /\ Prefix(reg1.specs, reg2.specs)
    BY <2>1, <2>3, <2>4, WithArchSpecFacts
  <2>6. Len(arch_specs.values) \in Nat /\ Len(reg1.specs.values) \in Nat /\ Len(reg2.specs.values) \in Nat
    BY <2>2, <2>4, <2>5, LockstepFacts DEF ArchetypesRegistered
  <2>7. Prefix(arch_specs, reg2.specs)
    BY <2>4, <2>5, <2>6 DEF Prefix
  <2> QED BY <2>1, <2>4, <2>5, <2>7
<1>2. ASSUME Register(t, <<a>>)
      PROVE  Registers({a})
  <2>1. /\ component_counter' = Seqs!FoldLeft(WithComponent, component_counter, t)
        /\ arch_specs' = reg1.specs /\ component_set_counter' = reg1.ids
        /\ global_archetype_version' =
             global_archetype_version + Len(reg1.specs.values) - Len(arch_specs.values)
        /\ UNCHANGED query_counter
    <3>1. RegisteredAll(reg0, <<a>>) = reg1
      <4> HIDE DEF reg0
      <4>1. PICK s : s = <<a>>
        OBVIOUS
      <4> QED BY ONLY <4>1, Lookups
    <3> HIDE DEF reg1, reg2
    <3> QED BY <1>2, <3>1 DEF Register, RegisteredAll
  <2> HIDE DEF reg1, reg2
  <2>2. Len(arch_specs.values) \in Nat /\ Len(reg1.specs.values) \in Nat
    BY <1>1, <2>1, LockstepFacts DEF RegistriesOK, ArchetypesRegistered
  <2>3. global_archetype_version' = 1 + Len(arch_specs'.values)
    <3>1. PICK m, n : m = Len(arch_specs.values) /\ n = Len(reg1.specs.values)
      OBVIOUS
    <3>2. m \in Nat /\ n \in Nat /\ global_archetype_version = 1 + m
      BY <2>2, <3>1 DEF RegistriesOK
    <3>3. global_archetype_version' = global_archetype_version + n - m
      BY <2>1, <3>1
    <3>4. Len(arch_specs'.values) = n
      BY <2>1, <3>1
    <3>5. global_archetype_version' = 1 + n
      BY <3>2, <3>3
    <3> QED BY <3>4, <3>5
  <2> QED BY <1>1, <2>1, <2>3 DEF Registers, RegistriesOK
<1>3. ASSUME Register(t, <<a, b>>)
      PROVE  Registers({a, b})
  <2>1. /\ component_counter' = Seqs!FoldLeft(WithComponent, component_counter, t)
        /\ arch_specs' = reg2.specs /\ component_set_counter' = reg2.ids
        /\ global_archetype_version' =
             global_archetype_version + Len(reg2.specs.values) - Len(arch_specs.values)
        /\ UNCHANGED query_counter
    <3>1. RegisteredAll(reg0, <<a, b>>) = reg2
      <4> HIDE DEF reg0
      <4>1. PICK s : s = <<a, b>>
        OBVIOUS
      <4> QED BY ONLY <4>1, Lookups
    <3> HIDE DEF reg1, reg2
    <3> QED BY <1>3, <3>1 DEF Register, RegisteredAll
  <2> HIDE DEF reg1, reg2
  <2>2. Len(arch_specs.values) \in Nat /\ Len(reg2.specs.values) \in Nat
    BY <1>1, <2>1, LockstepFacts DEF RegistriesOK, ArchetypesRegistered
  <2>3. global_archetype_version' = 1 + Len(arch_specs'.values)
    <3>1. PICK m, n : m = Len(arch_specs.values) /\ n = Len(reg2.specs.values)
      OBVIOUS
    <3>2. m \in Nat /\ n \in Nat /\ global_archetype_version = 1 + m
      BY <2>2, <3>1 DEF RegistriesOK
    <3>3. global_archetype_version' = global_archetype_version + n - m
      BY <2>1, <3>1
    <3>4. Len(arch_specs'.values) = n
      BY <2>1, <3>1
    <3>5. global_archetype_version' = 1 + n
      BY <3>2, <3>3
    <3> QED BY <3>4, <3>5
  <2> QED BY <1>1, <2>1, <2>3 DEF Registers, RegistriesOK
<1> QED BY <1>2, <1>3

----------------------------------------------------------------------------
(* Queries.                                                                *)
Scopes == [read : BitSet, write : BitSet, exclude : BitSet]

(* What an element does to a column; "entity" has none.                    *)
Accesses == {"read", "write", "exclude"}

(* What the elements at these places of q name.                            *)
NamedIn(q, places, access) == {q[i].c : i \in {k \in places : q[k].access = access}}

(* A scope holds the ids of what they name, and nothing else.              *)
ScopeNames(counter, scope, q, places) ==
  \A access \in Accesses :
    /\ Known(counter, NamedIn(q, places, access))
    /\ Ids(scope[access]) = IdsOf(counter, NamedIn(q, places, access))

(* The accumulator of ScopeOf.                                             *)
Asked == [components : Counters, scope : Scopes, refused : BOOLEAN]

(* n is acc and what el names.                                             *)
NamesToo(acc, el, n) ==
  /\ Extends(acc.components, n.components)
  /\ acc.refused => n.refused
  /\ el.access = "entity" => n = acc
  /\ ~ n.refused /\ el.access # "entity" =>
       /\ el.c \in DOMAIN n.components.indices
       /\ Ids(n.scope[el.access]) = Ids(acc.scope[el.access]) \cup {IndexOf(n.components, el.c)}
       /\ \A a \in Accesses : a # el.access => Ids(n.scope[a]) = Ids(acc.scope[a])

(* access_scope and extend of one element.                                 *)
LEMMA WithElementFacts ==
  ASSUME NEW acc \in Asked, NEW el \in Elements, NEW n, n = WithElement(acc, el)
  PROVE  n \in Asked /\ NamesToo(acc, el, n)
<1> USE DEF NamesToo
<1>1. /\ acc.components \in Counters /\ acc.scope \in Scopes /\ acc.refused \in BOOLEAN
      /\ acc.scope.read \in BitSet /\ acc.scope.write \in BitSet /\ acc.scope.exclude \in BitSet
      /\ el.c \in Components
      /\ el.access \in Accesses \/ el.access = "entity"
  BY DEF Asked, Scopes, Elements, Accesses
<1>2. CASE acc.refused \/ el.access = "entity"
  <2>1. n = acc
    BY <1>2 DEF WithElement
  <2> QED BY <1>2, <2>1 DEF Extends
<1>3. CASE ~ (acc.refused \/ el.access = "entity")
  <2> DEFINE counter == WithComponent(acc.components, el.c)
             id == IndexOf(counter, el.c)
             one == InsertId(EmptyBitSet, id)
             scope == [EmptyScope EXCEPT ![el.access] = one]
  <2>1. n = [components |-> counter, scope |-> Extended(acc.scope, scope),
             refused |-> BitsCollide(acc.scope, scope)]
    BY <1>3 DEF WithElement
  <2>2. /\ counter \in Counters /\ Extends(acc.components, counter)
        /\ el.c \in DOMAIN counter.indices
    BY <1>1, WithComponentFacts
  <2>3. id \in Nat
    BY <2>2, LockstepFacts DEF Counters
  <2> HIDE DEF counter, id
  <2>4. one \in BitSet /\ Ids(one) = {id}
    BY <2>3, EmptyBits, InsertIdFacts
  <2> HIDE DEF one
  <2>5. /\ scope.read  = IF el.access = "read" THEN one ELSE EmptyBitSet
        /\ scope.write = IF el.access = "write" THEN one ELSE EmptyBitSet
        /\ scope.exclude = IF el.access = "exclude" THEN one ELSE EmptyBitSet
    BY <1>1, <1>3 DEF EmptyScope, Accesses
  <2> HIDE DEF scope
  <2>6. /\ scope.read \in BitSet /\ scope.write \in BitSet /\ scope.exclude \in BitSet
        /\ Ids(scope.read) = (IF el.access = "read" THEN {id} ELSE {})
        /\ Ids(scope.write) = (IF el.access = "write" THEN {id} ELSE {})
        /\ Ids(scope.exclude) = (IF el.access = "exclude" THEN {id} ELSE {})
    BY <2>4, <2>5, EmptyBits
  <2>7. /\ n.components = counter
        /\ n.refused = BitsCollide(acc.scope, scope)
        /\ n.scope = Extended(acc.scope, scope)
    BY <2>1
  <2>8. /\ n.scope = [read |-> n.scope.read, write |-> n.scope.write, exclude |-> n.scope.exclude]
        /\ n.scope.read = UnionWith(acc.scope.read, scope.read)
        /\ n.scope.write = UnionWith(acc.scope.write, scope.write)
        /\ n.scope.exclude = UnionWith(acc.scope.exclude, scope.exclude)
    BY <2>7 DEF Extended
  <2>9. n.scope.read \in BitSet /\ Ids(n.scope.read) = Ids(acc.scope.read) \cup Ids(scope.read)
    BY <1>1, <2>6, <2>8, UnionFacts
  <2>10. n.scope.write \in BitSet /\ Ids(n.scope.write) = Ids(acc.scope.write) \cup Ids(scope.write)
    BY <1>1, <2>6, <2>8, UnionFacts
  <2>11. n.scope.exclude \in BitSet
         /\ Ids(n.scope.exclude) = Ids(acc.scope.exclude) \cup Ids(scope.exclude)
    BY <1>1, <2>6, <2>8, UnionFacts
  <2>12. n.scope \in Scopes
    BY <2>8, <2>9, <2>10, <2>11 DEF Scopes
  <2>13. n.refused \in BOOLEAN
    BY <2>7 DEF BitsCollide, Intersects
  <2>14. n \in Asked
    BY <2>1, <2>2, <2>7, <2>12, <2>13 DEF Asked
  <2>15. /\ Ids(n.scope[el.access]) = Ids(acc.scope[el.access]) \cup {id}
         /\ \A a \in Accesses : a # el.access => Ids(n.scope[a]) = Ids(acc.scope[a])
    BY <1>1, <1>3, <2>6, <2>9, <2>10, <2>11 DEF Accesses
  <2> QED BY <1>3, <2>2, <2>7, <2>14, <2>15 DEF id
<1> QED BY <1>2, <1>3

(* access_scope of a query: all its elements, unless one is refused.       *)
LEMMA ScopeOfFacts ==
  ASSUME NEW counter \in Counters, NEW q \in Seq(Elements), NEW n, n = ScopeOf(counter, q)
  PROVE  /\ n \in Asked
         /\ Extends(counter, n.components)
         /\ ~ n.refused => ScopeNames(n.components, n.scope, q, DOMAIN q)
<1> DEFINE S == DOMAIN q
           base == [components |-> counter, scope |-> EmptyScope, refused |-> FALSE]
           last == [s \in (SUBSET S) \ {{}} |-> Seqs!Max(s)]
           add == [p \in Asked \X S |-> WithElement(p[1], q[p[2]])]
           Of(g, s) == IF s = {} THEN base ELSE WithElement(g[s \ {Seqs!Max(s)}], q[Seqs!Max(s)])
           Eq(g) == g = [s \in SUBSET S |-> Of(g, s)]
           holds == [s \in SUBSET S |->
                       {acc \in Asked : /\ Extends(counter, acc.components)
                                        /\ ~ acc.refused => ScopeNames(acc.components, acc.scope, q, s)}]
<1>1. S = 1..Len(q) /\ Len(q) \in Nat /\ IsFiniteSet(S) /\ \A i \in S : q[i] \in Elements
  BY FS_Interval
<1>2. \A s \in SUBSET S : s # {} => Seqs!Max(s) \in s /\ last[s] = Seqs!Max(s)
  BY <1>1, MaxOf
<1>3. add \in [Asked \X S -> Asked]
  <2> SUFFICES ASSUME NEW acc \in Asked, NEW i \in S PROVE WithElement(acc, q[i]) \in Asked
    OBVIOUS
  <2> QED BY <1>1, WithElementFacts
<1>a. /\ base \in Asked
      /\ Extends(counter, base.components)
      /\ ScopeNames(base.components, base.scope, q, {})
  <2>1. EmptyScope \in Scopes /\ \A a \in Accesses : EmptyScope[a] = EmptyBitSet
    BY EmptyBits DEF EmptyScope, Scopes, Accesses
  <2>2. \A a \in Accesses : NamedIn(q, {}, a) = {}
    BY DEF NamedIn
  <2>3. IdsOf(counter, {}) = {}
    BY DEF IdsOf
  <2> QED BY <2>1, <2>2, <2>3, EmptyBits DEF Asked, Extends, ScopeNames, Known
<1> HIDE DEF base
<1>4. PICK f \in [SUBSET S -> Asked] : IsFold(f, S, base, add, last)
  <2> HIDE DEF add, last, S
  <2>1. \A s \in SUBSET S : s # {} => last[s] \in s
    BY <1>2
  <2> QED BY <1>1, <1>3, <1>a, <2>1, FoldExists
<1>5. Eq(f)
  <2>1. ASSUME NEW s \in SUBSET S PROVE f[s] = Of(f, s)
    <3>1. CASE s = {}
      BY <1>4, <3>1 DEF IsFold
    <3>2. CASE s # {}
      <4>1. f[s] = add[<<f[s \ {last[s]}], last[s]>>]
        BY <1>4, <3>2 DEF IsFold
      <4>2. last[s] \in S /\ f[s \ {last[s]}] \in Asked
        BY <1>2, <3>2
      <4>3. add[<<f[s \ {last[s]}], last[s]>>] = WithElement(f[s \ {last[s]}], q[last[s]])
        <5> HIDE DEF last, S
        <5> QED BY <4>2
      <4> QED BY <1>2, <3>2, <4>1, <4>3
    <3> QED BY <3>1, <3>2
  <2>2. f = [s \in SUBSET S |-> f[s]]
    OBVIOUS
  <2> HIDE DEF Of
  <2> QED BY <2>1, <2>2
<1>6. PICK fold : Eq(fold) /\ n = fold[S]
  <2> DEFINE fold == CHOOSE g : Eq(g)
  <2>1. Eq(fold)
    <3> HIDE DEF Eq
    <3> QED BY <1>5
  <2>2. n = fold[S]
    BY DEF ScopeOf, base, Seqs!FoldLeft, Seqs!MapThenFoldSet
  <2> HIDE DEF fold
  <2> QED BY <2>1, <2>2
<1>7. \A s \in SUBSET S : fold[s] = Of(fold, s)
  <2> HIDE DEF Of
  <2> QED BY <1>6
<1>8. base \in holds[{}] /\ fold[{}] = base
  BY <1>7, <1>a
<1>9. ASSUME NEW s \in SUBSET S, s # {}, fold[s \ {last[s]}] \in holds[s \ {last[s]}]
      PROVE  fold[s] \in holds[s]
  <2>1. last[s] \in s /\ last[s] \in S /\ fold[s] = WithElement(fold[s \ {last[s]}], q[last[s]])
    BY <1>2, <1>7, <1>9
  <2>2. PICK acc \in Asked :
          /\ acc = fold[s \ {last[s]}]
          /\ Extends(counter, acc.components)
          /\ ~ acc.refused => ScopeNames(acc.components, acc.scope, q, s \ {last[s]})
    BY <1>9
  <2>3. PICK o, i, el : o = fold[s] /\ i = last[s] /\ el = q[i]
    OBVIOUS
  <2>4. i \in s /\ el \in Elements /\ o = WithElement(acc, el)
    BY <1>1, <2>1, <2>2, <2>3
  <2>5. /\ o \in Asked
        /\ Extends(acc.components, o.components)
        /\ acc.refused => o.refused
        /\ el.access = "entity" => o = acc
        /\ ~ o.refused /\ el.access # "entity" =>
             /\ el.c \in DOMAIN o.components.indices
             /\ Ids(o.scope[el.access]) = Ids(acc.scope[el.access]) \cup {IndexOf(o.components, el.c)}
             /\ \A a \in Accesses : a # el.access => Ids(o.scope[a]) = Ids(acc.scope[a])
    <3>1. o \in Asked /\ NamesToo(acc, el, o)
      <4> HIDE DEF S, last, add, Of, Eq, holds
      <4> QED BY <2>4, WithElementFacts
    <3> QED BY <3>1 DEF NamesToo
  <2>6. Extends(counter, o.components)
    BY <2>2, <2>5, ExtendsTwice
  <2>7. ASSUME ~ o.refused PROVE ScopeNames(o.components, o.scope, q, s)
    <3>1. ~ acc.refused /\ ScopeNames(acc.components, acc.scope, q, s \ {i})
      BY <2>2, <2>3, <2>5, <2>7
    <3>2. SUFFICES ASSUME NEW a \in Accesses
                   PROVE  /\ Known(o.components, NamedIn(q, s, a))
                          /\ Ids(o.scope[a]) = IdsOf(o.components, NamedIn(q, s, a))
      BY DEF ScopeNames
    <3>3. /\ Known(acc.components, NamedIn(q, s \ {i}, a))
          /\ Ids(acc.scope[a]) = IdsOf(acc.components, NamedIn(q, s \ {i}, a))
      BY <3>1 DEF ScopeNames
    <3>4. /\ Known(o.components, NamedIn(q, s \ {i}, a))
          /\ Ids(acc.scope[a]) = IdsOf(o.components, NamedIn(q, s \ {i}, a))
      BY <2>5, <3>3, IdsKept
    <3>5. CASE a = el.access
      <4>1. NamedIn(q, s, a) = NamedIn(q, s \ {i}, a) \cup {el.c}
        BY <2>3, <2>4, <3>5 DEF NamedIn
      <4>2. el.access # "entity"
        BY <3>5 DEF Accesses
      <4> QED BY <2>5, <2>7, <3>4, <3>5, <4>1, <4>2 DEF Known, IdsOf
    <3>6. CASE a # el.access
      <4>1. NamedIn(q, s, a) = NamedIn(q, s \ {i}, a)
        BY <2>3, <2>4, <3>6 DEF NamedIn
      <4>2. Ids(o.scope[a]) = Ids(acc.scope[a])
        BY <2>5, <2>7, <3>6
      <4> QED BY <3>4, <4>1, <4>2
    <3> QED BY <3>5, <3>6
  <2> QED BY <2>3, <2>5, <2>6, <2>7
<1>10. fold[S] \in holds[S]
  <2> HIDE DEF holds, last, S
  <2>1. \A s \in SUBSET S : s # {} => last[s] \in s
    BY <1>2
  <2>2. \A s \in SUBSET S : fold[s] \in holds[s]
    BY <1>1, <1>8, <1>9, <2>1, FoldKeeps
  <2> QED BY <2>2
<1> QED BY <1>6, <1>10

(* belong_to asks of the bits what Selects asks of the components.         *)
LEMMA BelongsIsSelects ==
  ASSUME NEW counter \in Counters, NEW q, NEW scope \in Scopes,
         ScopeNames(counter, scope, q, DOMAIN q),
         NEW spec \in ArchSpecs, Known(counter, spec.components),
         Ids(spec.component_bit_set) = IdsOf(counter, spec.components)
  PROVE  SpecBelongs(scope, spec) <=> Selects(q, spec.components)
<1>1. /\ scope.read \in BitSet /\ scope.write \in BitSet /\ scope.exclude \in BitSet
      /\ spec.component_bit_set \in BitSet
  BY DEF Scopes, ArchSpecs
<1>2. /\ Known(counter, NamedAs(q, "read")) /\ Ids(scope.read) = IdsOf(counter, NamedAs(q, "read"))
      /\ Known(counter, NamedAs(q, "write")) /\ Ids(scope.write) = IdsOf(counter, NamedAs(q, "write"))
      /\ Known(counter, NamedAs(q, "exclude"))
      /\ Ids(scope.exclude) = IdsOf(counter, NamedAs(q, "exclude"))
  BY DEF ScopeNames, Accesses, NamedIn, NamedAs
<1>3. ContainsAll(spec.component_bit_set, scope.read) <=> NamedAs(q, "read") \subseteq spec.components
  <2>1. IdsOf(counter, NamedAs(q, "read")) \subseteq IdsOf(counter, spec.components)
          <=> NamedAs(q, "read") \subseteq spec.components
    <3>1. PICK named, held : named = NamedAs(q, "read") /\ held = spec.components
      OBVIOUS
    <3>2. Known(counter, named) /\ Known(counter, held)
      BY <1>2, <3>1
    <3>3. IdsOf(counter, named) \subseteq IdsOf(counter, held) <=> named \subseteq held
      BY <3>2, IdsTellApart
    <3> QED BY <3>1, <3>3
  <2> QED BY <1>1, <1>2, <2>1, ContainsAllFacts
<1>4. ContainsAll(spec.component_bit_set, scope.write) <=> NamedAs(q, "write") \subseteq spec.components
  <2>1. IdsOf(counter, NamedAs(q, "write")) \subseteq IdsOf(counter, spec.components)
          <=> NamedAs(q, "write") \subseteq spec.components
    BY <1>2, IdsTellApart
  <2> QED BY <1>1, <1>2, <2>1, ContainsAllFacts
<1>5. Intersects(spec.component_bit_set, scope.exclude)
        <=> NamedAs(q, "exclude") \cap spec.components # {}
  <2>1. IdsOf(counter, spec.components) \cap IdsOf(counter, NamedAs(q, "exclude")) # {}
          <=> spec.components \cap NamedAs(q, "exclude") # {}
    BY <1>2, IdsTellApart
  <2> QED BY <1>1, <1>2, <2>1, IntersectsFacts
<1> QED BY <1>3, <1>4, <1>5 DEF SpecBelongs, Selects

----------------------------------------------------------------------------
(* What query_counter holds.                                               *)
QuerySpecs == [access_scope : Scopes, archetypes : {InOrder(S) : S \in SUBSET Nat}, version : Nat]

QueryMaps == MapsTo(Seq(Elements), QuerySpecs)

(* What is kept for q: the ids of what it names, and the archetypes it     *)
(* walks of those there were at its version.                               *)
ExactSpec(counter, specs, q, spec) ==
  /\ ScopeNames(counter, spec.access_scope, q, DOMAIN q)
  /\ spec.version \in 1..(1 + Len(specs.values))
  /\ spec.archetypes =
       InOrder({i \in 1..(spec.version - 1) : Selects(q, specs.values[i].components)})

QueriesExact(counter, specs, queries) ==
  /\ queries \in QueryMaps
  /\ \A q \in DOMAIN queries.indices : ExactSpec(counter, specs, q, ValueOf(queries, q))

(* build_archetype_which_contains, for a scope that names what q names.    *)
LEMMA FreshSpecFacts ==
  ASSUME RegistriesOK, NEW counter \in Counters, Extends(component_counter, counter),
         NEW scope \in Scopes, NEW q, ScopeNames(counter, scope, q, DOMAIN q),
         NEW spec, spec = FreshSpec(scope)
  PROVE  /\ spec \in QuerySpecs
         /\ ExactSpec(counter, arch_specs, q, spec)
         /\ spec.version = global_archetype_version
<1> DEFINE all == {i \in DOMAIN arch_specs.values : SpecBelongs(scope, arch_specs.values[i])}
           due == {i \in 1..Len(arch_specs.values) : Selects(q, arch_specs.values[i].components)}
<1>1. /\ ArchetypesRegistered(counter, arch_specs, component_set_counter)
      /\ global_archetype_version = 1 + Len(arch_specs.values)
  BY MoreComponents DEF RegistriesOK
<1>2. /\ Len(arch_specs.values) \in Nat /\ DOMAIN arch_specs.values = 1..Len(arch_specs.values)
      /\ \A i \in 1..Len(arch_specs.values) : arch_specs.values[i] \in ArchSpecs
  BY <1>1, LockstepFacts DEF ArchetypesRegistered
<1>3. ASSUME NEW i \in 1..Len(arch_specs.values)
      PROVE  SpecBelongs(scope, arch_specs.values[i]) <=> Selects(q, arch_specs.values[i].components)
  BY <1>1, <1>2, BelongsIsSelects DEF ArchetypesRegistered
<1>4. all = due
  BY <1>2, <1>3
<1>5. due \in SUBSET Nat
  OBVIOUS
<1>6. /\ spec = [access_scope |-> scope, archetypes |-> InOrder(all),
                 version |-> global_archetype_version]
  BY DEF FreshSpec, ArchetypesWhichContain
<1> HIDE DEF all
<1>7. spec.access_scope = scope /\ spec.archetypes = InOrder(due)
      /\ spec.version = global_archetype_version
  BY <1>4, <1>6
<1>8. global_archetype_version \in Nat /\ global_archetype_version - 1 = Len(arch_specs.values)
      /\ global_archetype_version \in 1..(1 + Len(arch_specs.values))
  BY <1>1, <1>2
<1>9. due = {i \in 1..(spec.version - 1) : Selects(q, arch_specs.values[i].components)}
  BY <1>7, <1>8
<1>10. spec \in QuerySpecs
  <2> HIDE DEF due
  <2>1. InOrder(due) \in {InOrder(S) : S \in SUBSET Nat}
    BY <1>5
  <2> QED BY <1>4, <1>6, <1>8, <2>1 DEF QuerySpecs
<1> HIDE DEF due
<1> QED BY <1>7, <1>8, <1>9, <1>10 DEF ExactSpec

(* What is kept for q stays exact while components and archetypes come.    *)
LEMMA ExactSpecKept ==
  ASSUME NEW counter, NEW more, Extends(counter, more),
         NEW specs, NEW longer, Prefix(specs, longer),
         Len(specs.values) \in Nat, Len(longer.values) \in Nat,
         NEW q, NEW spec, ExactSpec(counter, specs, q, spec)
  PROVE  ExactSpec(more, longer, q, spec)
<1>1. ScopeNames(more, spec.access_scope, q, DOMAIN q)
  BY IdsKept DEF ExactSpec, ScopeNames
<1>2. spec.version \in 1..(1 + Len(longer.values))
      /\ spec.version - 1 <= Len(specs.values) /\ spec.version \in Nat
  BY DEF ExactSpec, Prefix
<1>3. \A i \in 1..(spec.version - 1) : longer.values[i] = specs.values[i]
  BY <1>2 DEF Prefix
<1>4. {i \in 1..(spec.version - 1) : Selects(q, longer.values[i].components)}
        = {i \in 1..(spec.version - 1) : Selects(q, specs.values[i].components)}
  BY <1>3
<1> QED BY <1>1, <1>2, <1>4 DEF ExactSpec

(* The same, for all queries.                                              *)
LEMMA QueriesExactKept ==
  ASSUME NEW counter, NEW more, Extends(counter, more),
         NEW specs, NEW longer, Prefix(specs, longer),
         Len(specs.values) \in Nat, Len(longer.values) \in Nat,
         NEW queries, QueriesExact(counter, specs, queries)
  PROVE  QueriesExact(more, longer, queries)
BY ExactSpecKept DEF QueriesExact

(* What a query was prepared for.                                          *)
UpToDate(queries, q) ==
  ContainsKey(queries, q) /\ ValueOf(queries, q).version = global_archetype_version

(* The accumulator of BeginStep.                                           *)
Asking == [components : Counters, queries : QueryMaps]

(* n is reg with q prepared, unless q is refused.                          *)
PreparedToo(reg, q, n) ==
  /\ Extends(reg.components, n.components)
  /\ QueriesExact(n.components, arch_specs, n.queries)
  /\ ContainsKey(n.queries, q) => UpToDate(n.queries, q)
  /\ \A r : UpToDate(reg.queries, r) => UpToDate(n.queries, r)
  /\ \A r : ContainsKey(n.queries, r) => r = q \/ ContainsKey(reg.queries, r)

(* prepare_query_src_access.                                               *)
LEMMA PrepareQueryFacts ==
  ASSUME RegistriesOK, NEW reg \in Asking, Extends(component_counter, reg.components),
         QueriesExact(reg.components, arch_specs, reg.queries),
         NEW q \in Seq(Elements), NEW n, n = PrepareQuery(reg, q)
  PROVE  n \in Asking /\ PreparedToo(reg, q, n)
<1> USE DEF PreparedToo
<1>1. /\ reg.components \in Counters /\ reg.queries \in QueryMaps
      /\ reg = [components |-> reg.components, queries |-> reg.queries]
  BY DEF Asking
<1>2. Len(arch_specs.values) \in Nat /\ Prefix(arch_specs, arch_specs)
  BY LockstepFacts DEF RegistriesOK, ArchetypesRegistered, Prefix
<1>3. CASE ContainsKey(reg.queries, q)
  <2>1. n = [components |-> reg.components, queries |-> Refreshed(reg.queries, q)]
    BY <1>1, <1>3 DEF PrepareQuery
  <2>2. CASE ValueOf(reg.queries, q).version = global_archetype_version
    <3>1. n = reg
      BY <1>1, <2>1, <2>2 DEF Refreshed
    <3> QED BY <1>1, <1>3, <2>2, <3>1 DEF Extends, UpToDate
  <2>3. CASE ValueOf(reg.queries, q).version # global_archetype_version
    <3> DEFINE old == ValueOf(reg.queries, q)
               fresh == FreshSpec(old.access_scope)
    <3>1. PICK more : more = Insert(reg.queries, q, fresh)
      OBVIOUS
    <3>2. n = [components |-> reg.components, queries |-> more]
      BY <2>1, <2>3, <3>1 DEF Refreshed
    <3>3. old \in QuerySpecs /\ ExactSpec(reg.components, arch_specs, q, old)
      BY <1>1, <1>3, LockstepFacts DEF QueriesExact, QueryMaps, ContainsKey, ValueOf, IndexOf
    <3> HIDE DEF old
    <3>4. old.access_scope \in Scopes /\ ScopeNames(reg.components, old.access_scope, q, DOMAIN q)
      BY <3>3 DEF QuerySpecs, ExactSpec
    <3>5. /\ fresh \in QuerySpecs /\ fresh.version = global_archetype_version
          /\ ExactSpec(reg.components, arch_specs, q, fresh)
      BY <1>1, <3>4, FreshSpecFacts
    <3> HIDE DEF fresh
    <3>6. /\ more \in QueryMaps
          /\ more.indices = reg.queries.indices
          /\ ValueOf(more, q) = fresh
          /\ \A r \in DOMAIN reg.queries.indices : r # q => ValueOf(more, r) = ValueOf(reg.queries, r)
      BY <1>1, <1>3, <3>1, <3>5, InsertKnownFacts DEF QueryMaps
    <3>7. QueriesExact(reg.components, arch_specs, more)
      BY <3>5, <3>6 DEF QueriesExact
    <3>8. n \in Asking /\ n.components = reg.components /\ n.queries = more
      BY <1>1, <3>2, <3>6 DEF Asking
    <3> QED BY <1>3, <3>5, <3>6, <3>7, <3>8 DEF Extends, UpToDate, ContainsKey
  <2> QED BY <2>2, <2>3
<1>4. CASE ~ ContainsKey(reg.queries, q)
  <2>1. PICK asked : asked = ScopeOf(reg.components, q)
    OBVIOUS
  <2>2. n = [components |-> asked.components,
             queries    |-> IF asked.refused THEN reg.queries
                            ELSE Insert(reg.queries, q, FreshSpec(asked.scope))]
    BY <1>4, <2>1 DEF PrepareQuery
  <2>3. /\ asked \in Asked
        /\ Extends(reg.components, asked.components)
        /\ ~ asked.refused => ScopeNames(asked.components, asked.scope, q, DOMAIN q)
    BY <1>1, <2>1, ScopeOfFacts
  <2>4. asked.components \in Counters /\ asked.scope \in Scopes
        /\ Extends(component_counter, asked.components)
    BY <2>3, ExtendsTwice DEF Asked
  <2>5. QueriesExact(asked.components, arch_specs, reg.queries)
    BY <1>2, <2>3, QueriesExactKept
  <2>6. CASE asked.refused
    <3>1. n = [components |-> asked.components, queries |-> reg.queries]
      BY <2>2, <2>6
    <3>2. n \in Asking /\ n.components = asked.components /\ n.queries = reg.queries
      BY <1>1, <2>4, <3>1 DEF Asking
    <3> QED BY <1>4, <2>3, <2>5, <3>2
  <2>7. CASE ~ asked.refused
    <3> DEFINE fresh == FreshSpec(asked.scope)
    <3>1. PICK more : more = Insert(reg.queries, q, fresh)
      OBVIOUS
    <3>2. n = [components |-> asked.components, queries |-> more]
      BY <2>2, <2>7, <3>1
    <3>3. /\ fresh \in QuerySpecs /\ fresh.version = global_archetype_version
          /\ ExactSpec(asked.components, arch_specs, q, fresh)
      BY <2>3, <2>4, <2>7, FreshSpecFacts
    <3> HIDE DEF fresh
    <3>4. more = AppendEntry(reg.queries, q, fresh)
      BY <1>4, <3>1 DEF Insert
    <3>5. /\ more \in QueryMaps
          /\ Extends(reg.queries, more)
          /\ DOMAIN more.indices = DOMAIN reg.queries.indices \cup {q}
          /\ IndexOf(more, q) = Len(reg.queries.values) + 1
          /\ more.values[Len(reg.queries.values) + 1] = fresh
          /\ \A i \in 1..Len(reg.queries.values) : more.values[i] = reg.queries.values[i]
      BY <1>1, <1>4, <3>3, <3>4, AppendEntryFacts DEF QueryMaps
    <3>6. ValueOf(more, q) = fresh
      BY <3>5 DEF ValueOf, IndexOf
    <3>7. ASSUME NEW r \in DOMAIN reg.queries.indices
          PROVE  ValueOf(more, r) = ValueOf(reg.queries, r)
      <4>1. IndexOf(reg.queries, r) \in 1..Len(reg.queries.values)
        BY <1>1, LockstepFacts DEF QueryMaps
      <4> QED BY <3>5, <4>1 DEF Extends, ValueOf, IndexOf
    <3>8. QueriesExact(asked.components, arch_specs, more)
      BY <2>5, <3>3, <3>5, <3>6, <3>7 DEF QueriesExact
    <3>9. n \in Asking /\ n.components = asked.components /\ n.queries = more
      BY <2>4, <3>2, <3>5 DEF Asking
    <3> QED BY <2>3, <3>3, <3>5, <3>6, <3>7, <3>8, <3>9 DEF UpToDate, ContainsKey
  <2> QED BY <2>6, <2>7
<1> QED BY <1>3, <1>4

----------------------------------------------------------------------------
(* The structural operations, with the archetypes they leave there.        *)
LEMMA WithArchetypeSets ==
  ASSUME NEW known, NEW cs, NEW new
  PROVE  DOMAIN WithArchetype(known, cs, new) = DOMAIN known \cup {cs}
BY DEF WithArchetype

(* get_or_create_archetype_id.                                             *)
LEMMA GetOrCreateSets ==
  ASSUME NEW known, NEW a
  PROVE  DOMAIN GetOrCreate(known, a) = DOMAIN known \cup {a}
BY WithArchetypeSets DEF GetOrCreate

(* A new row leaves the archetypes there were.                             *)
LEMMA PushNewSets ==
  ASSUME NEW known, NEW slots, NEW e, NEW values, PushNew(known, slots, e, values)
  PROVE  DOMAIN archetypes' = DOMAIN known
BY DEF PushNew

(* So does a row that moves.                                               *)
LEMMA MoveRowSets ==
  ASSUME NEW known, NEW e, NEW dst, NEW cells, MoveRow(known, e, dst, cells)
  PROVE  DOMAIN archetypes' = DOMAIN known
BY DEF MoveRow

(* A create looks up one archetype, whether it is refused or not.          *)
LEMMA CreatesSets ==
  ASSUME NEW values
  PROVE  TryCreate(values) \/ TryCreateSingleton(values) =>
           DOMAIN archetypes' = DOMAIN archetypes \cup {DOMAIN values}
<1>1. ASSUME TryCreate(values) PROVE DOMAIN archetypes' = DOMAIN archetypes \cup {DOMAIN values}
  <2> DEFINE known == GetOrCreate(archetypes, DOMAIN values)
  <2>1. DOMAIN known = DOMAIN archetypes \cup {DOMAIN values}
    BY WithArchetypeSets DEF GetOrCreate
  <2>2. archetypes' = known
        \/ PushNew(known, SlotsAfterNew, NextEntity(entities, free_entities), values)
    BY <1>1 DEF TryCreate
  <2> HIDE DEF known
  <2> QED BY <2>1, <2>2, PushNewSets
<1>2. ASSUME TryCreateSingleton(values)
      PROVE  DOMAIN archetypes' = DOMAIN archetypes \cup {DOMAIN values}
  <2> DEFINE known == WithArchetype(archetypes, DOMAIN values, Singleton)
  <2>1. DOMAIN known = DOMAIN archetypes \cup {DOMAIN values}
    BY WithArchetypeSets
  <2>2. archetypes' = known
        \/ PushNew(known, SlotsAfterNew, NextEntity(entities, free_entities), values)
    BY <1>2 DEF TryCreateSingleton
  <2> HIDE DEF known
  <2> QED BY <2>1, <2>2, PushNewSets
<1> QED BY <1>1, <1>2

(* What get_or_create_add_edge looks up.                                   *)
LEMMA AddSets ==
  ASSUME NEW e, NEW values, TryAddComponent(e, values),
         NEW src, src = SpecOf(e).arch, NEW added, added = DOMAIN values
  PROVE  DOMAIN archetypes' = DOMAIN archetypes \cup
           (IF ContainsAnyComponentOf(src, added) THEN {added} ELSE {added, SetOfPair(src, added)})
<1> DEFINE dst   == SetOfPair(src, added)
           with1 == GetOrCreate(archetypes, added)
           with2 == GetOrCreate(with1, dst)
<1>1. DOMAIN with1 = DOMAIN archetypes \cup {added}
  BY WithArchetypeSets DEF GetOrCreate
<1>2. DOMAIN with2 = DOMAIN archetypes \cup {added, dst}
  <2>1. DOMAIN with2 = DOMAIN with1 \cup {dst}
    <3> HIDE DEF dst, with1
    <3> QED BY GetOrCreateSets
  <2> HIDE DEF dst, with1, with2
  <2> QED BY <1>1, <2>1
<1>3. IF ContainsAnyComponentOf(src, added)
      THEN archetypes' = with1
      ELSE \/ archetypes' = with2
           \/ MoveRow(with2, e, dst, MergedCells(CellsOf(e), values, tick))
  BY DEF TryAddComponent
<1> HIDE DEF with1, with2
<1> QED BY <1>1, <1>2, <1>3, MoveRowSets

(* What a merge looks up.                                                  *)
LEMMA MergeSets ==
  ASSUME NEW e, NEW values, TryMergeComponent(e, values)
  PROVE  DOMAIN archetypes' =
           DOMAIN archetypes \cup {DOMAIN values, SetOfPair(SpecOf(e).arch, DOMAIN values)}
<1> DEFINE spec == SpecOf(e)
           src  == spec.arch
           dst  == SetOfPair(src, DOMAIN values)
           once  == GetOrCreate(archetypes, DOMAIN values)
           known == GetOrCreate(once, dst)
           cells == MergedCells(CellsOf(e), values, tick)
<1>1. DOMAIN known = DOMAIN archetypes \cup {DOMAIN values, dst}
  <2>1. DOMAIN once = DOMAIN archetypes \cup {DOMAIN values}
    BY GetOrCreateSets
  <2>2. DOMAIN known = DOMAIN once \cup {dst}
    <3> HIDE DEF dst, once
    <3> QED BY GetOrCreateSets
  <2> HIDE DEF dst, once, known
  <2> QED BY <2>1, <2>2
<1>2. \/ archetypes' = [known EXCEPT ![src].chunks[spec.chunk][spec.row].cells = cells]
      \/ archetypes' = known
      \/ MoveRow(known, e, dst, cells)
  BY DEF TryMergeComponent
<1> HIDE DEF known, cells
<1> QED BY <1>1, <1>2, MoveRowSets

(* What get_or_create_remove_edge looks up.                                *)
LEMMA RemoveSets ==
  ASSUME NEW e, NEW removed, TryRemoveComponent(e, removed), NEW src, src = SpecOf(e).arch
  PROVE  DOMAIN archetypes' = DOMAIN archetypes \cup
           (IF ContainsAllComponentsOf(src, removed)
            THEN {removed, SetOfAExcludeB(src, removed)} ELSE {removed})
<1> DEFINE dst   == SetOfAExcludeB(src, removed)
           with1 == GetOrCreate(archetypes, removed)
           with2 == GetOrCreate(with1, dst)
<1>1. DOMAIN with1 = DOMAIN archetypes \cup {removed}
  BY WithArchetypeSets DEF GetOrCreate
<1>2. DOMAIN with2 = DOMAIN archetypes \cup {removed, dst}
  <2>1. DOMAIN with2 = DOMAIN with1 \cup {dst}
    <3> HIDE DEF dst, with1
    <3> QED BY GetOrCreateSets
  <2> HIDE DEF dst, with1, with2
  <2> QED BY <1>1, <2>1
<1>3. IF ContainsAllComponentsOf(src, removed)
      THEN \/ archetypes' = with2
           \/ MoveRow(with2, e, dst, RemainingCells(CellsOf(e), removed))
      ELSE archetypes' = with1
  BY DEF TryRemoveComponent
<1> HIDE DEF with1, with2
<1> QED BY <1>1, <1>2, <1>3, MoveRowSets

(* Components the program has no tuple for are none.                       *)
LEMMA TupleFacts ==
  ASSUME NEW t \in Tuples
  PROVE  /\ t \in Seq(Components)
         /\ SetOf(t) \in ComponentSets
         /\ ValuesOf(t) \subseteq Bundles
         /\ \A values \in ValuesOf(t) : DOMAIN values = SetOf(t)
<1>1. t \in Seq(Components) /\ t # << >>
  BY TuplesAssumption
<1>2. SetOf(t) \in SUBSET Components
  BY <1>1 DEF SetOf, Seqs!ToSet
<1>3. 1 \in DOMAIN t
  BY <1>1
<1>4. SetOf(t) # {}
  BY <1>3 DEF SetOf, Seqs!ToSet
<1>5. SetOf(t) \in ComponentSets
  BY <1>2, <1>4 DEF ComponentSets
<1> QED BY <1>1, <1>5 DEF ValuesOf, Bundles

----------------------------------------------------------------------------
(* The archetypes registered are those there are.                          *)
RegistriesIn ==
  /\ RegistriesOK
  /\ SetsOf(arch_specs) = DOMAIN archetypes

(* A change of the world and what it leaves the registries.                *)
Registered ==
  /\ RegistriesIn'
  /\ Extends(component_counter, component_counter')
  /\ Prefix(arch_specs, arch_specs')
  /\ UNCHANGED query_counter

(* An operation that looks up one archetype.                               *)
LEMMA RegisterOne ==
  ASSUME RegistriesIn, NEW t \in Tuples, Register(t, <<SetOf(t)>>),
         DOMAIN archetypes' = DOMAIN archetypes \cup {SetOf(t)}
  PROVE  Registered
<1>1. t \in Seq(Components) /\ SetOf(t) \in SUBSET Components
  BY TupleFacts DEF ComponentSets
<1>2. SetOf(t) \subseteq SetOf(t) \cup DOMAIN component_counter.indices
  OBVIOUS
<1>3. Registers({SetOf(t)})
  BY <1>1, <1>2, RegisterFacts DEF RegistriesIn
<1> QED BY <1>3 DEF RegistriesIn, Registers, Registered

(* An operation that looks up two.                                         *)
LEMMA RegisterTwo ==
  ASSUME RegistriesIn, NEW t \in Tuples, NEW b \in SUBSET Components,
         b \subseteq SetOf(t) \cup DOMAIN component_counter.indices,
         Register(t, <<SetOf(t), b>>),
         DOMAIN archetypes' = DOMAIN archetypes \cup {SetOf(t), b}
  PROVE  Registered
<1>1. t \in Seq(Components) /\ SetOf(t) \in SUBSET Components
  BY TupleFacts DEF ComponentSets
<1>2. SetOf(t) \subseteq SetOf(t) \cup DOMAIN component_counter.indices
  OBVIOUS
<1>3. Registers({SetOf(t), b})
  BY <1>1, <1>2, RegisterFacts DEF RegistriesIn
<1> QED BY <1>3 DEF RegistriesIn, Registers, Registered

(* An operation that looks up none.                                        *)
LEMMA RegisterNone ==
  ASSUME RegistriesIn, UNCHANGED registries, DOMAIN archetypes' = DOMAIN archetypes
  PROVE  Registered
<1>1. /\ component_counter' = component_counter
      /\ arch_specs' = arch_specs
      /\ component_set_counter' = component_set_counter
      /\ query_counter' = query_counter
      /\ global_archetype_version' = global_archetype_version
  BY DEF registries
<1>2. RegistriesIn'
  BY <1>1 DEF RegistriesIn, RegistriesOK
<1>3. Len(arch_specs.values) \in Nat
  BY LockstepFacts DEF RegistriesIn, RegistriesOK, ArchetypesRegistered
<1>4. Extends(component_counter, component_counter') /\ Prefix(arch_specs, arch_specs')
  BY <1>1, <1>3 DEF Extends, Prefix
<1> QED BY <1>1, <1>2, <1>4 DEF Registered

(* The components of a live entity are known.                              *)
LEMMA LiveSetKnown ==
  ASSUME RegistriesIn, IInv, NEW e \in Entity, Exists(entities, e)
  PROVE  /\ SpecOf(e).arch \in SUBSET Components
         /\ SpecOf(e).arch \subseteq DOMAIN component_counter.indices
<1>1. SpecOf(e).arch \in DOMAIN archetypes
  <2>1. e.idx \in DOMAIN entities /\ entities[e.idx].has_value
    BY DEF Exists
  <2> QED BY <2>1 DEF SpecOf, IInv, WorldOK, Placed
<1>2. PICK i \in 1..Len(arch_specs.values) : arch_specs.values[i].components = SpecOf(e).arch
  BY <1>1 DEF RegistriesIn, SetsOf
<1>3. Known(component_counter, SpecOf(e).arch)
  BY <1>2 DEF RegistriesIn, RegistriesOK, ArchetypesRegistered
<1>4. SpecOf(e).arch \in SUBSET Components
  BY <1>1 DEF IInv, WorldOK, ArchetypesOK
<1> QED BY <1>3, <1>4 DEF Known

(* What Cmd reaches registers what it looks up.                            *)
LEMMA CmdStepRegisters ==
  ASSUME RegistriesIn, IInv, CmdStep
  PROVE  Registered /\ Next
<1>1. PICK t \in Tuples : \/ CreateStep(t)
                          \/ \E e \in Entity : \/ AddStep(e, t) \/ MergeStep(e, t)
                                               \/ RemoveStep(e, t) \/ DestroyStep(e)
  BY DEF CmdStep
<1>2. /\ SetOf(t) \in ComponentSets
      /\ ValuesOf(t) \subseteq Bundles
      /\ \A values \in ValuesOf(t) : DOMAIN values = SetOf(t)
  BY TupleFacts
<1>3. CASE CreateStep(t)
  <2>1. PICK values \in ValuesOf(t) : TryCreate(values) /\ Register(t, <<SetOf(t)>>)
    BY <1>3 DEF CreateStep
  <2>2. DOMAIN archetypes' = DOMAIN archetypes \cup {SetOf(t)}
    BY <1>2, <2>1, CreatesSets
  <2>3. Registered
    BY <2>1, <2>2, RegisterOne
  <2> QED BY <1>2, <2>1, <2>3 DEF Next
<1>4. ASSUME NEW e \in Entity, AddStep(e, t)
      PROVE  Registered /\ Next
  <2> DEFINE src == SpecOf(e).arch
  <2>1. PICK values \in ValuesOf(t) : TryAddComponent(e, values)
    BY <1>4 DEF AddStep
  <2>2. DOMAIN values = SetOf(t) /\ Exists(entities, e) /\ Next
    BY <1>2, <2>1 DEF TryAddComponent, Next
  <2>3. src \in SUBSET Components /\ src \subseteq DOMAIN component_counter.indices
    BY <2>2, LiveSetKnown
  <2>4. SetOfPair(src, SetOf(t)) \in SUBSET Components
        /\ SetOfPair(src, SetOf(t)) \subseteq SetOf(t) \cup DOMAIN component_counter.indices
    BY <1>2, <2>3 DEF SetOfPair, ComponentSets
  <2>5. DOMAIN archetypes' = DOMAIN archetypes \cup
          (IF ContainsAnyComponentOf(src, SetOf(t)) THEN {SetOf(t)}
           ELSE {SetOf(t), SetOfPair(src, SetOf(t))})
    BY <2>1, <2>2, AddSets
  <2>6. Register(t, IF ContainsAnyComponentOf(src, SetOf(t)) THEN <<SetOf(t)>>
                    ELSE <<SetOf(t), SetOfPair(src, SetOf(t))>>)
    BY <1>4 DEF AddStep
  <2> HIDE DEF src
  <2>7. CASE ContainsAnyComponentOf(src, SetOf(t))
    BY <2>2, <2>5, <2>6, <2>7, RegisterOne
  <2>8. CASE ~ ContainsAnyComponentOf(src, SetOf(t))
    BY <2>2, <2>4, <2>5, <2>6, <2>8, RegisterTwo
  <2> QED BY <2>7, <2>8
<1>5. ASSUME NEW e \in Entity, MergeStep(e, t)
      PROVE  Registered /\ Next
  <2> DEFINE src == SpecOf(e).arch
  <2>1. PICK values \in ValuesOf(t) : TryMergeComponent(e, values)
    BY <1>5 DEF MergeStep
  <2>2. DOMAIN values = SetOf(t) /\ Exists(entities, e) /\ Next
    BY <1>2, <2>1 DEF TryMergeComponent, Next
  <2>3. src \in SUBSET Components /\ src \subseteq DOMAIN component_counter.indices
    BY <2>2, LiveSetKnown
  <2>4. SetOfPair(src, SetOf(t)) \in SUBSET Components
        /\ SetOfPair(src, SetOf(t)) \subseteq SetOf(t) \cup DOMAIN component_counter.indices
    BY <1>2, <2>3 DEF SetOfPair, ComponentSets
  <2>5. DOMAIN archetypes' = DOMAIN archetypes \cup {SetOf(t), SetOfPair(src, SetOf(t))}
    BY <2>1, <2>2, MergeSets
  <2>6. Register(t, <<SetOf(t), SetOfPair(src, SetOf(t))>>)
    BY <1>5 DEF MergeStep
  <2> HIDE DEF src
  <2> QED BY <2>2, <2>4, <2>5, <2>6, RegisterTwo
<1>6. ASSUME NEW e \in Entity, RemoveStep(e, t)
      PROVE  Registered /\ Next
  <2> DEFINE src == SpecOf(e).arch
  <2>1. TryRemoveComponent(e, SetOf(t))
    BY <1>6 DEF RemoveStep
  <2>2. Exists(entities, e) /\ Next
    BY <1>2, <2>1 DEF TryRemoveComponent, Next
  <2>3. src \in SUBSET Components /\ src \subseteq DOMAIN component_counter.indices
    BY <2>2, LiveSetKnown
  <2>4. SetOfAExcludeB(src, SetOf(t)) \in SUBSET Components
        /\ SetOfAExcludeB(src, SetOf(t)) \subseteq SetOf(t) \cup DOMAIN component_counter.indices
    BY <1>2, <2>3 DEF SetOfAExcludeB, ComponentSets
  <2>5. DOMAIN archetypes' = DOMAIN archetypes \cup
          (IF ContainsAllComponentsOf(src, SetOf(t))
           THEN {SetOf(t), SetOfAExcludeB(src, SetOf(t))} ELSE {SetOf(t)})
    BY <2>1, <2>2, RemoveSets
  <2>6. Register(t, IF ContainsAllComponentsOf(src, SetOf(t))
                    THEN <<SetOf(t), SetOfAExcludeB(src, SetOf(t))>> ELSE <<SetOf(t)>>)
    BY <1>6 DEF RemoveStep
  <2> HIDE DEF src
  <2>7. CASE ContainsAllComponentsOf(src, SetOf(t))
    BY <2>2, <2>4, <2>5, <2>6, <2>7, RegisterTwo
  <2>8. CASE ~ ContainsAllComponentsOf(src, SetOf(t))
    BY <2>2, <2>5, <2>6, <2>8, RegisterOne
  <2> QED BY <2>7, <2>8
<1>7. ASSUME NEW e \in Entity, DestroyStep(e)
      PROVE  Registered /\ Next
  <2>1. TryDestroy(e) /\ UNCHANGED registries /\ DOMAIN archetypes' = DOMAIN archetypes
    BY <1>7 DEF DestroyStep, TryDestroy
  <2>2. Registered
    BY <2>1, RegisterNone
  <2> QED BY <2>1, <2>2 DEF Next
<1> QED BY <1>1, <1>3, <1>4, <1>5, <1>6, <1>7

(* So does what the owner of the world calls.                              *)
LEMMA OwnerStepRegisters ==
  ASSUME RegistriesIn, IInv, OwnerStep
  PROVE  Registered /\ Next
<1>1. ASSUME NEW t \in Tuples, RegisterStep(t) \/ SingletonStep(t)
      PROVE  Registered /\ Next
  <2>1. /\ SetOf(t) \in ComponentSets
        /\ ValuesOf(t) \subseteq Bundles
        /\ \A values \in ValuesOf(t) : DOMAIN values = SetOf(t)
    BY TupleFacts
  <2>2. CASE RegisterStep(t)
    <3>1. DOMAIN archetypes' = DOMAIN archetypes \cup {SetOf(t)}
      BY <2>2, WithArchetypeSets DEF RegisterStep, RegisterSingleton, RegisterArchetype
    <3>2. Next
      BY <2>1, <2>2 DEF RegisterStep, Next
    <3>3. Register(t, <<SetOf(t)>>)
      BY <2>2 DEF RegisterStep
    <3> QED BY <3>1, <3>2, <3>3, RegisterOne
  <2>3. CASE SingletonStep(t)
    <3>1. PICK values \in ValuesOf(t) : TryCreateSingleton(values) /\ Register(t, <<SetOf(t)>>)
      BY <2>3 DEF SingletonStep
    <3>2. DOMAIN archetypes' = DOMAIN archetypes \cup {SetOf(t)}
      BY <2>1, <3>1, CreatesSets
    <3>3. Next
      BY <2>1, <3>1 DEF Next
    <3> QED BY <3>1, <3>2, <3>3, RegisterOne
  <2> QED BY <1>1, <2>2, <2>3
<1>2. ASSUME NEW e \in Entity, NEW c \in Components, EnableStep(e, c)
      PROVE  Registered /\ Next
  <2>1. PICK enabled \in BOOLEAN : SetEnabled(e, c, enabled) /\ UNCHANGED registries
    BY <1>2 DEF EnableStep
  <2>2. DOMAIN archetypes' = DOMAIN archetypes
    BY <2>1 DEF SetEnabled, WriteCell
  <2>3. Registered
    BY <2>1, <2>2, RegisterNone
  <2> QED BY <2>1, <2>3 DEF Next
<1> QED BY <1>1, <1>2 DEF OwnerStep

----------------------------------------------------------------------------
(* The queries of the running step are known, and fresh or overtaken.      *)
StepOK ==
  /\ step \in [queries : SUBSET Queries, alone : BOOLEAN, version : Nat]
  /\ step.version <= global_archetype_version
  /\ \A q \in step.queries :
       /\ ContainsKey(query_counter, q)
       /\ Usable(q) \/ (step.alone /\ global_archetype_version # step.version)

(* The inductive invariant.                                                *)
WalkInv ==
  /\ RegistriesIn
  /\ QueriesExact(component_counter, arch_specs, query_counter)
  /\ StepOK

(* A world starts with nothing registered and no step.                     *)
LEMMA InitWalkInv == WalkInit => WalkInv
<1> SUFFICES ASSUME WalkInit PROVE WalkInv
  OBVIOUS
<1>1. /\ component_counter = EmptyMap /\ arch_specs = EmptyMap /\ query_counter = EmptyMap
      /\ component_set_counter = [ids \in {} |-> 0]
      /\ global_archetype_version = 1
      /\ DOMAIN archetypes = {}
      /\ step = NoStep
  BY DEF WalkInit, RegistryInit, Init
<1>2. DOMAIN EmptyMap.indices = {} /\ Len(EmptyMap.values) = 0 /\ 1..0 = {}
  BY DEF EmptyMap
<1>3. component_counter \in Counters /\ arch_specs \in MapsTo(Nat, ArchSpecs) /\ query_counter \in QueryMaps
  BY <1>1, EmptyMapType DEF Counters, QueryMaps
<1>4. ArchetypesRegistered(component_counter, arch_specs, component_set_counter)
  BY <1>1, <1>2, <1>3 DEF ArchetypesRegistered
<1>5. RegistriesIn
  BY <1>1, <1>2, <1>3, <1>4 DEF RegistriesIn, RegistriesOK, SetsOf
<1>6. QueriesExact(component_counter, arch_specs, query_counter)
  BY <1>1, <1>2, <1>3 DEF QueriesExact
<1>7. StepOK
  BY <1>1 DEF StepOK, NoStep
<1> QED BY <1>5, <1>6, <1>7 DEF WalkInv

(* The archetype version counts the archetypes.                            *)
LEMMA VersionIsNat ==
  ASSUME RegistriesOK
  PROVE  /\ Len(arch_specs.values) \in Nat
         /\ global_archetype_version = 1 + Len(arch_specs.values)
         /\ global_archetype_version \in Nat
<1>1. Len(arch_specs.values) \in Nat
  BY LockstepFacts DEF RegistriesOK, ArchetypesRegistered
<1> QED BY <1>1 DEF RegistriesOK

(* A change of the world leaves lists too old, and never newer.            *)
LEMMA RegisteredKeeps ==
  ASSUME WalkInv, Registered, step' = step, step = NoStep \/ step.alone
  PROVE  WalkInv'
<1>1. /\ Len(arch_specs.values) \in Nat /\ Len(arch_specs'.values) \in Nat
      /\ global_archetype_version = 1 + Len(arch_specs.values)
      /\ global_archetype_version' = 1 + Len(arch_specs'.values)
  <2>1. RegistriesOK /\ RegistriesOK'
    BY DEF WalkInv, RegistriesIn, Registered
  <2>2. Len(arch_specs'.values) \in Nat
    BY <2>1, LockstepFacts DEF RegistriesOK, ArchetypesRegistered
  <2> QED BY <2>1, <2>2, VersionIsNat DEF RegistriesOK
<1>2. global_archetype_version <= global_archetype_version'
  BY <1>1 DEF Registered, Prefix
<1>3. QueriesExact(component_counter', arch_specs', query_counter')
  <2>1. QueriesExact(component_counter', arch_specs', query_counter)
    BY <1>1, QueriesExactKept DEF WalkInv, Registered
  <2> QED BY <2>1 DEF Registered
<1>4. StepOK'
  <2>1. query_counter' = query_counter /\ step' = step
    BY DEF Registered
  <2>2. step.version \in Nat /\ step.version <= global_archetype_version'
    BY <1>1, <1>2 DEF WalkInv, StepOK
  <2>3. ASSUME NEW q \in step.queries
        PROVE  Usable(q)' \/ (step.alone /\ global_archetype_version' # step.version)
    <3>1. step.alone
      BY <2>3 DEF NoStep
    <3>2. ContainsKey(query_counter, q)
          /\ (Usable(q) \/ (step.alone /\ global_archetype_version # step.version))
      BY DEF WalkInv, StepOK
    <3>3. CASE global_archetype_version' = global_archetype_version
      BY <2>1, <3>1, <3>2, <3>3 DEF Usable
    <3>4. CASE global_archetype_version' # global_archetype_version
      BY <1>1, <1>2, <2>2, <3>1, <3>4 DEF WalkInv, StepOK
    <3> QED BY <3>3, <3>4
  <2> QED BY <2>1, <2>2, <2>3 DEF WalkInv, StepOK
<1> QED BY <1>3, <1>4 DEF WalkInv, Registered

(* prepare of one query or of two, whatever the order.                     *)
LEMMA PreparedFacts ==
  ASSUME WalkInv, NEW q \in Queries, NEW r \in Queries,
         NEW qs \in {<<q>>, <<q, r>>}, NEW reg,
         reg = Seqs!FoldLeft(PrepareQuery,
                             [components |-> component_counter, queries |-> query_counter], qs)
  PROVE  /\ reg.components \in Counters
         /\ Extends(component_counter, reg.components)
         /\ QueriesExact(reg.components, arch_specs, reg.queries)
         /\ (\A i \in DOMAIN qs : ContainsKey(reg.queries, qs[i])) =>
              \A i \in DOMAIN qs : UpToDate(reg.queries, qs[i])
<1> DEFINE none == [components |-> component_counter, queries |-> query_counter]
           one  == PrepareQuery(none, q)
           two  == PrepareQuery(one, r)
<1>1. /\ RegistriesOK
      /\ component_counter \in Counters /\ query_counter \in QueryMaps
      /\ q \in Seq(Elements) /\ r \in Seq(Elements)
      /\ QueriesExact(component_counter, arch_specs, query_counter)
  BY WalkAssumption DEF WalkInv, RegistriesIn, RegistriesOK, QueriesExact
<1>2. /\ none \in Asking /\ none.components = component_counter /\ none.queries = query_counter
      /\ Extends(component_counter, none.components)
  BY <1>1 DEF Asking, Extends
<1> HIDE DEF none
<1>3. one \in Asking /\ PreparedToo(none, q, one)
  BY <1>1, <1>2, PrepareQueryFacts
<1>4. Extends(component_counter, one.components)
      /\ QueriesExact(one.components, arch_specs, one.queries)
  BY <1>2, <1>3 DEF PreparedToo
<1> HIDE DEF one
<1>5. two \in Asking /\ PreparedToo(one, r, two)
  BY <1>1, <1>3, <1>4, PrepareQueryFacts
<1>6. Extends(component_counter, two.components)
  BY <1>4, <1>5, ExtendsTwice DEF PreparedToo
<1>7. CASE qs = <<q>>
  <2>1. reg = one
    BY <1>7, Prepared DEF none, one, PreparedAll
  <2>2. DOMAIN qs = {1} /\ qs[1] = q
    BY <1>7
  <2> QED BY <1>3, <1>4, <2>1, <2>2 DEF Asking, PreparedToo
<1>8. CASE qs = <<q, r>>
  <2>1. reg = two
    <3>1. reg = PreparedAll(none, <<q, r>>)
      BY <1>8 DEF none, PreparedAll
    <3>2. one = PreparedAll(none, <<q>>)
      BY Prepared DEF one
    <3>3. PreparedAll(none, <<q, r>>) = PrepareQuery(PreparedAll(none, <<q>>), r)
      BY Prepared
    <3> QED BY <3>1, <3>2, <3>3
  <2>2. DOMAIN qs = {1, 2} /\ qs[1] = q /\ qs[2] = r
    BY <1>8
  <2> HIDE DEF two
  <2>3. ContainsKey(two.queries, q) => UpToDate(two.queries, q)
    BY <1>3, <1>5 DEF PreparedToo
  <2>4. ContainsKey(two.queries, r) => UpToDate(two.queries, r)
    BY <1>5 DEF PreparedToo
  <2> QED BY <1>5, <1>6, <2>1, <2>2, <2>3, <2>4 DEF Asking, PreparedToo
<1> QED BY <1>7, <1>8

(* The queries of a step that begins are all as new as the world.          *)
LEMMA BeginStepKeeps ==
  ASSUME WalkInv, NEW q \in Queries, NEW r \in Queries,
         NEW qs \in {<<q>>, <<q, r>>}, BeginStep(qs)
  PROVE  WalkInv'
<1>1. PICK reg : reg = Seqs!FoldLeft(PrepareQuery,
                         [components |-> component_counter, queries |-> query_counter], qs)
  OBVIOUS
<1>2. /\ step = NoStep
      /\ component_counter' = reg.components
      /\ query_counter' = reg.queries
      /\ \/ /\ \A i \in DOMAIN qs : ContainsKey(reg.queries, qs[i])
            /\ \E alone \in BOOLEAN :
                 step' = [queries |-> Seqs!ToSet(qs), alone |-> alone,
                          version |-> global_archetype_version]
         \/ step' = step
      /\ UNCHANGED <<vars, arch_specs, component_set_counter, global_archetype_version>>
  BY <1>1 DEF BeginStep
<1>3. /\ reg.components \in Counters
      /\ Extends(component_counter, reg.components)
      /\ QueriesExact(reg.components, arch_specs, reg.queries)
      /\ (\A i \in DOMAIN qs : ContainsKey(reg.queries, qs[i])) =>
           \A i \in DOMAIN qs : UpToDate(reg.queries, qs[i])
  BY <1>1, PreparedFacts
<1>4. RegistriesIn'
  <2>1. ArchetypesRegistered(reg.components, arch_specs, component_set_counter)
    BY <1>3, MoreComponents DEF WalkInv, RegistriesIn, RegistriesOK
  <2> QED BY <1>2, <1>3, <2>1 DEF WalkInv, RegistriesIn, RegistriesOK, vars
<1>5. QueriesExact(component_counter', arch_specs', query_counter')
  BY <1>2, <1>3
<1>6. global_archetype_version \in Nat
  BY VersionIsNat DEF WalkInv, RegistriesIn
<1>7. StepOK'
  <2>1. CASE step' = step
    <3>1. step.queries = {} /\ step'.queries = {}
      BY <1>2, <2>1 DEF NoStep
    <3> QED BY <1>2, <2>1, <3>1 DEF WalkInv, StepOK
  <2>2. CASE /\ \A i \in DOMAIN qs : ContainsKey(reg.queries, qs[i])
             /\ \E alone \in BOOLEAN :
                  step' = [queries |-> Seqs!ToSet(qs), alone |-> alone,
                           version |-> global_archetype_version]
    <3>0. PICK alone \in BOOLEAN :
            step' = [queries |-> Seqs!ToSet(qs), alone |-> alone,
                     version |-> global_archetype_version]
      BY <2>2
    <3>1. Seqs!ToSet(qs) \subseteq Queries /\ \A p \in Seqs!ToSet(qs) : \E i \in DOMAIN qs : p = qs[i]
      BY DEF Seqs!ToSet
    <3>2. \A p \in Seqs!ToSet(qs) : UpToDate(reg.queries, p)
      BY <1>3, <2>2, <3>1
    <3>3. \A p \in step'.queries : ContainsKey(query_counter', p) /\ Usable(p)'
      BY <1>2, <3>0, <3>2 DEF UpToDate, Usable
    <3>4. step' \in [queries : SUBSET Queries, alone : BOOLEAN, version : Nat]
      BY <1>6, <3>0, <3>1
    <3>5. step'.version <= global_archetype_version'
      BY <1>2, <1>6, <3>0
    <3> QED BY <3>3, <3>4, <3>5 DEF StepOK
  <2> QED BY <1>2, <2>1, <2>2
<1> QED BY <1>4, <1>5, <1>7 DEF WalkInv

(* Every step of a walk is one of WorldStorage, or changes nothing there.  *)
LEMMA WalkNextStep ==
  ASSUME IInv, WalkInv, [WalkNext]_walkVars
  PROVE  WalkInv' /\ [Next]_vars
<1>1. CASE Change
  <2>1. (step = NoStep \/ step.alone) /\ (CmdStep \/ OwnerStep) /\ step' = step
    BY <1>1 DEF Change
  <2>2. Registered /\ Next
    BY <2>1, CmdStepRegisters, OwnerStepRegisters DEF WalkInv
  <2> QED BY <2>1, <2>2, RegisteredKeeps
<1>2. ASSUME NEW q \in Queries, BeginStep(<<q>>)
      PROVE  WalkInv' /\ [Next]_vars
  <2>1. vars' = vars
    BY <1>2 DEF BeginStep, vars
  <2> QED BY <1>2, <2>1, BeginStepKeeps
<1>3. ASSUME NEW q \in Queries, NEW r \in Queries, BeginStep(<<q, r>>)
      PROVE  WalkInv' /\ [Next]_vars
  <2>1. vars' = vars
    BY <1>3 DEF BeginStep, vars
  <2> QED BY <1>3, <2>1, BeginStepKeeps
<1>4. ASSUME UNCHANGED <<vars, registries>>, step' = step \/ step' = NoStep
      PROVE  WalkInv' /\ [Next]_vars
  <2>1. /\ component_counter' = component_counter
        /\ arch_specs' = arch_specs
        /\ component_set_counter' = component_set_counter
        /\ query_counter' = query_counter
        /\ global_archetype_version' = global_archetype_version
        /\ archetypes' = archetypes
        /\ vars' = vars
    BY <1>4 DEF registries, vars
  <2>2. RegistriesIn' /\ QueriesExact(component_counter', arch_specs', query_counter')
    BY <2>1 DEF WalkInv, RegistriesIn, RegistriesOK
  <2>3. StepOK'
    <3>1. CASE step' = step
      BY <2>1, <3>1 DEF WalkInv, StepOK, Usable
    <3>2. CASE step' = NoStep
      <4>1. 0 <= global_archetype_version
        BY VersionIsNat DEF WalkInv, RegistriesIn
      <4> QED BY <2>1, <3>2, <4>1 DEF StepOK, NoStep
    <3> QED BY <1>4, <3>1, <3>2
  <2> QED BY <2>1, <2>2, <2>3 DEF WalkInv
<1>5. ASSUME NEW w, Walks(w) PROVE WalkInv' /\ [Next]_vars
  BY <1>4, <1>5 DEF Walks
<1>6. CASE \/ \E q \in Queries : BeginWalk(q)
           \/ VisitRow \/ NextChunk \/ NextArchetype \/ EndWalk
  BY <1>5, <1>6 DEF BeginWalk, VisitRow, NextChunk, NextArchetype, EndWalk
<1>7. CASE EndStep
  BY <1>4, <1>7 DEF EndStep
<1>8. CASE UNCHANGED walkVars
  BY <1>4, <1>8 DEF walkVars
<1> QED BY <1>1, <1>2, <1>3, <1>6, <1>7, <1>8 DEF WalkNext

(* WorldStorage runs under the walks, and the invariant holds.             *)
LEMMA WalksStore == WalkSpec => Spec /\ []WalkInv
<1>1. WalkInit => Init /\ IInv
  BY InitIInv DEF WalkInit, RegistryInit
<1>2. IInv /\ WalkInv /\ [WalkNext]_walkVars => IInv' /\ WalkInv' /\ [Next]_vars
  BY WalkNextStep, NextStep
<1> QED BY <1>1, <1>2, InitWalkInv, PTL DEF WalkSpec, Spec

----------------------------------------------------------------------------
(* What holds of every walk.                                               *)
(* Ids, bit sets and archetypes agree, however components, archetypes and  *)
(* queries are registered.                                                 *)
THEOREM RegistriesInStep == WalkSpec => []RegistriesAgree
<1>1. WalkInv => RegistriesAgree
  <2> SUFFICES ASSUME WalkInv PROVE RegistriesAgree
    OBVIOUS
  <2>1. /\ component_counter \in Counters
        /\ ArchetypesRegistered(component_counter, arch_specs, component_set_counter)
        /\ SetsOf(arch_specs) = DOMAIN archetypes
        /\ global_archetype_version = 1 + Len(arch_specs.values)
        /\ query_counter \in QueryMaps
    BY DEF WalkInv, RegistriesIn, RegistriesOK, QueriesExact
  <2>2. Len(arch_specs.values) \in Nat /\ DOMAIN arch_specs.values = 1..Len(arch_specs.values)
    BY <2>1, LockstepFacts DEF ArchetypesRegistered
  <2>3. \A map \in {component_counter, arch_specs, query_counter} : InLockstep(map)
    BY <2>1, MapFields DEF Counters, QueryMaps, ArchetypesRegistered
  <2>4. Len(arch_specs.values) = Cardinality(DOMAIN archetypes)
    <3> DEFINE n == Len(arch_specs.values)
               f == [i \in 1..n |-> arch_specs.values[i].components]
    <3>1. f \in [1..n -> DOMAIN archetypes] /\ \A cs \in DOMAIN archetypes : \E i \in 1..n : f[i] = cs
      BY <2>1 DEF SetsOf
    <3>2. \A i, j \in 1..n : f[i] = f[j] => i = j
      BY <2>1, OneArchetypePerSet
    <3>3. f \in Bijection(1..n, DOMAIN archetypes)
      BY <3>1, <3>2 DEF Bijection, Injection, Surjection, IsInjective
    <3>4. ExistsBijection(1..n, DOMAIN archetypes)
      BY <3>3 DEF ExistsBijection
    <3> HIDE DEF n
    <3> QED BY <2>2, <3>4, FS_CountingElements DEF n
  <2>5. ASSUME NEW i \in DOMAIN arch_specs.values
        PROVE  LET spec == arch_specs.values[i]
                   ids  == IdsOf(component_counter, spec.components)
               IN  component_set_counter[ids] = i /\ Ids(spec.component_bit_set) = ids
    BY <2>1, <2>2 DEF ArchetypesRegistered
  <2>6. {arch_specs.values[i].components : i \in DOMAIN arch_specs.values} = DOMAIN archetypes
    BY <2>1, <2>2 DEF SetsOf
  <2> QED BY <2>1, <2>3, <2>4, <2>5, <2>6 DEF RegistriesAgree
<1> QED BY <1>1, WalksStore, PTL

(* query_src_access hands out exactly the archetypes the query selects of  *)
(* those there were at its version.                                        *)
THEOREM CachedListsExact == WalkSpec => []CacheExact
<1>1. WalkInv => CacheExact
  BY DEF WalkInv, QueriesExact, ExactSpec, CacheExact
<1> QED BY <1>1, WalksStore, PTL

(* new_prepared never meets a query of its step that is not ready, unless  *)
(* the step is one system that registered an archetype itself.             *)
THEOREM QueriesPrepared == WalkSpec => []PreparedInTime
<1>1. WalkInv => PreparedInTime
  BY DEF WalkInv, StepOK, PreparedInTime
<1> QED BY <1>1, WalksStore, PTL
----------------------------------------------------------------------------
(* How many elements of S are below i: its place among them.               *)
Below(S, i) == {j \in S : j < i}

(* The elements below one are fewer than those below a later one.          *)
LEMMA BelowGrows ==
  ASSUME NEW S \in SUBSET Nat, IsFiniteSet(S), NEW i \in S
  PROVE  /\ Cardinality(Below(S, i)) \in 0..(Cardinality(S) - 1)
         /\ \A j \in S : i < j => Cardinality(Below(S, i)) < Cardinality(Below(S, j))
<1>1. \A T \in SUBSET S : IsFiniteSet(T) /\ Cardinality(T) \in Nat
  BY FS_Subset, FS_CardinalityType
<1>2. ASSUME NEW T \in SUBSET S, Below(S, i) \subseteq T, i \in T
      PROVE  Cardinality(Below(S, i)) < Cardinality(T)
  <2>1. Below(S, i) \in SUBSET T /\ i \notin Below(S, i)
    BY <1>2 DEF Below
  <2>2. Cardinality(Below(S, i)) <= Cardinality(T) /\ Cardinality(T) # Cardinality(Below(S, i))
    BY <1>1, <1>2, <2>1, FS_Subset
  <2>3. Below(S, i) \in SUBSET S
    BY DEF Below
  <2> QED BY <1>1, <2>2, <2>3
<1>3. Below(S, i) \in SUBSET S /\ Cardinality(Below(S, i)) \in Nat /\ Cardinality(S) \in Nat
  BY <1>1 DEF Below
<1>4. Cardinality(Below(S, i)) < Cardinality(S)
  BY <1>2, <1>3
<1>5. ASSUME NEW j \in S, i < j
      PROVE  Cardinality(Below(S, i)) < Cardinality(Below(S, j))
  <2>1. Below(S, j) \in SUBSET S /\ i \in Below(S, j)
    BY <1>5 DEF Below
  <2>2. ASSUME NEW k \in Below(S, i) PROVE k \in Below(S, j)
    <3>1. k \in S /\ k < i /\ k \in Nat /\ i \in Nat /\ j \in Nat
      BY DEF Below
    <3> QED BY <1>5, <3>1 DEF Below
  <2> QED BY <1>2, <2>1, <2>2
<1> QED BY <1>3, <1>4, <1>5

(* InOrder lists the elements of a finite set, each once, in order.        *)
LEMMA InOrderFacts ==
  ASSUME NEW S \in SUBSET Nat, IsFiniteSet(S), NEW s, s = InOrder(S)
  PROVE  /\ s \in Seq(S)
         /\ \A k \in DOMAIN s : s[k] \in S
         /\ \A i \in S : \E k \in DOMAIN s : s[k] = i
         /\ \A j, k \in DOMAIN s : j < k => s[j] < s[k]
<1> DEFINE n == Cardinality(S)
           place == [i \in S |-> Cardinality(Below(S, i))]
<1>1. n \in Nat /\ IsFiniteSet(0..(n - 1)) /\ Cardinality(0..(n - 1)) = n
  <2>1. n \in Nat
    BY FS_CardinalityType
  <2> HIDE DEF n
  <2>2. 0 \in Int /\ n - 1 \in Int
    BY <2>1
  <2>3. /\ IsFiniteSet(0..(n - 1))
        /\ Cardinality(0..(n - 1)) = IF 0 > n - 1 THEN 0 ELSE (n - 1) - 0 + 1
    BY <2>2, FS_Interval
  <2> QED BY <2>1, <2>3
<1>2. \A i \in S : place[i] \in 0..(n - 1)
  BY BelowGrows
<1>3. \A i, j \in S : i < j => place[i] < place[j]
  BY BelowGrows
<1>4. \A i, j \in S : place[i] = place[j] => i = j
  BY <1>1, <1>2, <1>3
<1>5. place \in Injection(S, 0..(n - 1))
  BY <1>2, <1>4 DEF Injection, IsInjective
<1> HIDE DEF place, n
<1>6. place \in Surjection(S, 0..(n - 1))
  BY <1>1, <1>5, FS_Injection DEF n
<1>7. \A k \in 1..n : \E i \in S : place[i] = k - 1
  <2>1. \A m \in 0..(n - 1) : \E i \in S : place[i] = m
    BY <1>6 DEF Surjection
  <2> QED BY <1>1, <2>1
<1>8. \A i \in S : place[i] = Cardinality({j \in S : j < i})
  BY DEF place, Below
<1>9. s = [k \in 1..n |-> CHOOSE i \in S : Cardinality({j \in S : j < i}) = k - 1]
  BY DEF InOrder, n
<1>10. \A k \in 1..n : s[k] \in S /\ place[s[k]] = k - 1
  <2> SUFFICES ASSUME NEW k \in 1..n PROVE s[k] \in S /\ place[s[k]] = k - 1
    OBVIOUS
  <2>1. s[k] = CHOOSE i \in S : Cardinality({j \in S : j < i}) = k - 1
    BY <1>9
  <2>2. \E i \in S : Cardinality({j \in S : j < i}) = k - 1
    BY <1>7, <1>8
  <2>3. s[k] \in S /\ Cardinality({j \in S : j < s[k]}) = k - 1
    BY <2>1, <2>2
  <2> QED BY <1>8, <2>3
<1>11. DOMAIN s = 1..n
  BY <1>9
<1>12. s \in Seq(S)
  <2>1. s \in [1..n -> S]
    BY <1>9, <1>10
  <2> QED BY <1>1, <2>1
<1>13. \A i \in S : \E k \in 1..n : s[k] = i
  <2> SUFFICES ASSUME NEW i \in S PROVE \E k \in 1..n : s[k] = i
    OBVIOUS
  <2>1. place[i] + 1 \in 1..n
    BY <1>1, <1>2
  <2>2. s[place[i] + 1] \in S /\ place[s[place[i] + 1]] = place[i]
    BY <1>1, <1>2, <1>10, <2>1
  <2>3. s[place[i] + 1] = i
    BY <1>4, <2>2
  <2> QED BY <2>1, <2>3
<1>14. \A j, k \in 1..n : j < k => s[j] < s[k]
  <2> SUFFICES ASSUME NEW j \in 1..n, NEW k \in 1..n, j < k PROVE s[j] < s[k]
    OBVIOUS
  <2>1. s[j] \in S /\ s[k] \in S /\ place[s[j]] = j - 1 /\ place[s[k]] = k - 1
    BY <1>10
  <2>2. s[j] \in Nat /\ s[k] \in Nat
    BY <2>1
  <2>3. s[j] # s[k]
    BY <1>1, <2>1
  <2>4. ASSUME s[k] < s[j] PROVE FALSE
    <3>1. place[s[k]] < place[s[j]]
      BY <1>3, <2>1, <2>4
    <3> QED BY <1>1, <2>1, <3>1
  <2> QED BY <2>2, <2>3, <2>4
<1> QED BY <1>10, <1>11, <1>12, <1>13, <1>14
----------------------------------------------------------------------------
(* The walk.                                                               *)
(* The archetypes of the world, when the step began, that q selects.       *)
Listed(q) == {i \in 1..(step.version - 1) : Selects(q, arch_specs.values[i].components)}

(* The archetypes the walk w has not come to yet.                          *)
ToCome(w) == {w.arch_indices[k] : k \in DOMAIN w.arch_indices}

Walking ==
  [query : Queries, arch_indices : Seq(Nat), arch : Nat, chunk : Nat \ {0}, row : Nat \ {0},
   end : Nat, item : BOOLEAN, visited : Seq(Entity), due : SUBSET Entity]

ListOK(w) ==
  /\ ToCome(w) \subseteq Listed(w.query)
  /\ w.arch \notin ToCome(w)
  /\ \A j, k \in DOMAIN w.arch_indices : w.arch_indices[j] = w.arch_indices[k] => j = k
  /\ w.arch # 0 \/ ToCome(w) # {} => ~ ExcludeOnly(w.query)

CursorOK(w) ==
  /\ w.arch = 0 => w.chunk = 1
  /\ w.arch # 0 => w.arch \in Listed(w.query) /\ w.chunk <= Len(ChunksOf(w.arch)) + 1
  /\ w.chunk = 1 => w.end < w.row
  /\ w.chunk # 1 => w.end = Len(ChunksOf(w.arch)[w.chunk - 1])

(* e has its row in the i-th archetype.                                    *)
SitsIn(e, i) == arch_specs.values[i].components = SpecOf(e).arch

(* The i-th archetype has an r-th row in its c-th chunk, and who sits in it. *)
HasSeat(i, c, r) == c \in 1..Len(ChunksOf(i)) /\ r \in 1..Len(ChunksOf(i)[c])
Sitter(i, c, r) == ChunksOf(i)[c][r].e

(* The walk w has gone by the row of e.                                    *)
Passed(w, e) ==
  /\ \A i \in ToCome(w) : ~ SitsIn(e, i)
  /\ w.arch # 0 /\ SitsIn(e, w.arch) =>
       \/ SpecOf(e).chunk < w.chunk - 1
       \/ SpecOf(e).chunk = w.chunk - 1 /\ SpecOf(e).row < w.row

(* What it owes and has gone by is what it has handed out.                 *)
VisitedOK(w) ==
  /\ w.due = Due(w.query)
  /\ Seqs!ToSet(w.visited) = {e \in w.due : Passed(w, e)}
  /\ IsFiniteSet(Seqs!ToSet(w.visited))
  /\ Len(w.visited) = Cardinality(Seqs!ToSet(w.visited))

WalkOK(w) ==
  /\ w \in Walking
  /\ w.query \in step.queries
  /\ ListOK(w)
  /\ CursorOK(w)
  /\ VisitedOK(w)

(* The queries of a step keep the lists it began with.                     *)
ListsOfStep ==
  \A q \in step.queries : ValueOf(query_counter, q).version = step.version

CarefulInv == ListsOfStep /\ (walk # NoWalk => WalkOK(walk))

(* The archetypes a step knows are registered.                             *)
LEMMA ListedFacts ==
  ASSUME WalkInv, NEW q
  PROVE  /\ Listed(q) \subseteq 1..Len(arch_specs.values)
         /\ Len(arch_specs.values) \in Nat
         /\ Listed(q) \in SUBSET Nat
         /\ IsFiniteSet(Listed(q))
         /\ 0 \notin Listed(q)
<1>1. /\ Len(arch_specs.values) \in Nat
      /\ global_archetype_version = 1 + Len(arch_specs.values)
      /\ step.version \in Nat /\ step.version <= global_archetype_version
  BY VersionIsNat DEF WalkInv, RegistriesIn, StepOK
<1>2. Listed(q) \subseteq 1..Len(arch_specs.values)
  BY <1>1 DEF Listed
<1>3. Listed(q) \in SUBSET Nat /\ 0 \notin Listed(q) /\ \A i \in Listed(q) : i <= Len(arch_specs.values)
  BY <1>1, <1>2
<1>4. IsFiniteSet(Listed(q))
  BY <1>1, <1>3, FS_BoundedSetOfNaturals
<1> QED BY <1>1, <1>2, <1>3, <1>4

(* An entity sits in one archetype.                                        *)
LEMMA OneSeat ==
  ASSUME WalkInv, NEW e, NEW i \in 1..Len(arch_specs.values), SitsIn(e, i),
         NEW j \in 1..Len(arch_specs.values), SitsIn(e, j)
  PROVE  i = j
BY OneArchetypePerSet DEF WalkInv, RegistriesIn, RegistriesOK, SitsIn

(* The chunks of a registered archetype and who sits in them.              *)
LEMMA ChunksFacts ==
  ASSUME IInv, WalkInv, NEW i \in 1..Len(arch_specs.values), NEW chunks, chunks = ChunksOf(i)
  PROVE  /\ Len(chunks) \in Nat
         /\ DOMAIN chunks = 1..Len(chunks)
         /\ \A c \in 1..Len(chunks) : /\ Len(chunks[c]) \in Nat
                                      /\ DOMAIN chunks[c] = 1..Len(chunks[c])
         /\ \A e \in Live : SitsIn(e, i) =>
              /\ SpecOf(e).chunk \in 1..Len(chunks)
              /\ SpecOf(e).row \in 1..Len(chunks[SpecOf(e).chunk])
              /\ RowsAround(e) = chunks[SpecOf(e).chunk]
              /\ chunks[SpecOf(e).chunk][SpecOf(e).row].e = e
<1>1. PICK cs : cs = arch_specs.values[i].components
  OBVIOUS
<1>2. cs \in DOMAIN archetypes
  BY <1>1 DEF WalkInv, RegistriesIn, SetsOf
<1>3. chunks = archetypes[cs].chunks
  BY <1>1 DEF ChunksOf
<1>4. archetypes[cs] \in ArchetypesOf(Rows(cs))
  BY <1>2 DEF IInv, WorldOK, ArchetypesOK
<1>5. /\ Len(chunks) \in Nat
      /\ DOMAIN chunks = 1..Len(chunks)
      /\ \A c \in 1..Len(chunks) : /\ chunks[c] \in Seq(Rows(cs))
                                   /\ Len(chunks[c]) \in Nat
                                   /\ DOMAIN chunks[c] = 1..Len(chunks[c])
  BY <1>3, <1>4, FieldFacts
<1>6. RowsMatchSpecs
  BY RowsMatch
<1>7. ASSUME NEW e \in Live, SitsIn(e, i)
      PROVE  /\ SpecOf(e).chunk \in 1..Len(chunks)
             /\ SpecOf(e).row \in 1..Len(chunks[SpecOf(e).chunk])
             /\ RowsAround(e) = chunks[SpecOf(e).chunk]
             /\ chunks[SpecOf(e).chunk][SpecOf(e).row].e = e
  <2>1. SpecOf(e).arch = cs
    BY <1>1, <1>7 DEF SitsIn
  <2>2. RowsAround(e) = chunks[SpecOf(e).chunk]
    BY <1>3, <2>1 DEF RowsAround
  <2>3. /\ SpecOf(e).chunk \in DOMAIN archetypes[SpecOf(e).arch].chunks
        /\ SpecOf(e).row \in DOMAIN RowsAround(e)
        /\ RowsAround(e)[SpecOf(e).row].e = e
    BY <1>6 DEF RowsMatchSpecs
  <2> QED BY <1>3, <1>5, <2>1, <2>2, <2>3
<1> QED BY <1>5, <1>7

(* Who sits in a row of a registered archetype.                            *)
LEMMA SeatFacts ==
  ASSUME IInv, WalkInv, NEW i \in 1..Len(arch_specs.values), NEW c, NEW r, HasSeat(i, c, r)
  PROVE  /\ Sitter(i, c, r) \in Live /\ SitsIn(Sitter(i, c, r), i)
         /\ SpecOf(Sitter(i, c, r)).chunk = c /\ SpecOf(Sitter(i, c, r)).row = r
         /\ RowsAround(Sitter(i, c, r)) = ChunksOf(i)[c]
<1> DEFINE chunks == ChunksOf(i)
           e == Sitter(i, c, r)
<1>1. PICK cs : cs = arch_specs.values[i].components
  OBVIOUS
<1>2. cs \in DOMAIN archetypes
  BY <1>1 DEF WalkInv, RegistriesIn, SetsOf
<1>3. chunks = archetypes[cs].chunks
  BY <1>1 DEF ChunksOf
<1>4. archetypes[cs] \in ArchetypesOf(Rows(cs))
  BY <1>2 DEF IInv, WorldOK, ArchetypesOK
<1>5. /\ c \in 1..Len(chunks) /\ r \in 1..Len(chunks[c])
      /\ e = chunks[c][r].e
  BY DEF HasSeat, Sitter
<1> HIDE DEF chunks, e
<1>6. /\ c \in DOMAIN chunks
      /\ chunks[c] \in Seq(Rows(cs))
      /\ DOMAIN chunks[c] = 1..Len(chunks[c])
  BY <1>3, <1>4, <1>5, FieldFacts
<1>7. chunks[c][r] \in Rows(cs)
  BY <1>5, <1>6, SeqFacts
<1>8. e \in Entity
  BY <1>5, <1>7 DEF Rows
<1>9. Names(entities, e.idx, e.version, cs, c, r)
  BY <1>2, <1>3, <1>5, <1>6 DEF IInv, WorldOK, Named, HasRow, RowAt
<1>10. Exists(entities, e)
  BY <1>8, <1>9, EntitiesFacts DEF Names, Exists
<1>11. SpecOf(e).arch = cs /\ SpecOf(e).chunk = c /\ SpecOf(e).row = r
  BY <1>9 DEF Names, SpecOf
<1>12. RowsAround(e) = chunks[c]
  BY <1>3, <1>11 DEF RowsAround
<1>13. e \in Live /\ SitsIn(e, i)
  BY <1>1, <1>8, <1>10, <1>11 DEF Live, SitsIn
<1> QED BY <1>11, <1>12, <1>13 DEF chunks, e

(* What a walk owes sits in the archetypes it lists.                       *)
LEMMA DueFacts ==
  ASSUME NEW q, NEW e
  PROVE  e \in Due(q) <=>
           /\ e \in Live
           /\ ~ ExcludeOnly(q)
           /\ \E i \in Listed(q) : SitsIn(e, i)
           /\ Accepts(q, RowsAround(e)[SpecOf(e).row])
BY DEF Due, Listed, SitsIn

(* At the end of an archetype everything in it is passed.                  *)
LEMMA ArchetypeDone ==
  ASSUME IInv, WalkInv, WalkOK(walk), ~ InChunk, ~ MoreChunks, walk.arch # 0,
         NEW e \in Live, SitsIn(e, walk.arch)
  PROVE  \/ SpecOf(e).chunk < walk.chunk - 1
         \/ SpecOf(e).chunk = walk.chunk - 1 /\ SpecOf(e).row < walk.row
<1>1. walk.arch \in 1..Len(arch_specs.values)
  BY ListedFacts DEF WalkOK, CursorOK
<1>2. PICK chunks : chunks = ChunksOf(walk.arch)
  OBVIOUS
<1>3. /\ Len(chunks) \in Nat
      /\ SpecOf(e).chunk \in 1..Len(chunks)
      /\ Len(chunks[SpecOf(e).chunk]) \in Nat
      /\ SpecOf(e).row \in 1..Len(chunks[SpecOf(e).chunk])
  BY <1>1, <1>2, ChunksFacts
<1>4. walk.chunk = Len(chunks) + 1
  <2>1. walk.chunk \in Nat /\ walk.chunk <= Len(chunks) + 1 /\ ~ walk.chunk <= Len(chunks)
    BY <1>2 DEF WalkOK, CursorOK, MoreChunks, Walking
  <2> QED BY <1>3, <2>1
<1>5. walk.end = Len(chunks[walk.chunk - 1])
  <2>1. walk.chunk # 1
    BY <1>3, <1>4
  <2> QED BY <1>2, <2>1 DEF WalkOK, CursorOK
<1>6. walk.end < walk.row
  BY DEF InChunk, WalkOK, Walking
<1>7. CASE SpecOf(e).chunk = walk.chunk - 1
  BY <1>3, <1>5, <1>6, <1>7 DEF WalkOK, Walking
<1>8. CASE SpecOf(e).chunk # walk.chunk - 1
  BY <1>3, <1>4, <1>8
<1> QED BY <1>7, <1>8

(* What a walk has handed out, with one entity more.                       *)
LEMMA VisitedMore ==
  ASSUME NEW s \in Seq(Entity), NEW e \in Entity, NEW t, t = Append(s, e)
  PROVE  /\ t \in Seq(Entity)
         /\ Len(t) = Len(s) + 1
         /\ Seqs!ToSet(t) = Seqs!ToSet(s) \cup {e}
<1>1. /\ Len(s) \in Nat /\ DOMAIN s = 1..Len(s)
      /\ t \in Seq(Entity) /\ Len(t) = Len(s) + 1
      /\ DOMAIN t = 1..(Len(s) + 1)
      /\ \A k \in DOMAIN s : t[k] = s[k]
      /\ t[Len(s) + 1] = e
  BY AppendFacts
<1>2. 1..(Len(s) + 1) = 1..Len(s) \cup {Len(s) + 1}
  BY <1>1
<1>3. Seqs!ToSet(t) = Seqs!ToSet(s) \cup {e}
  BY <1>1, <1>2 DEF Seqs!ToSet
<1> QED BY <1>1, <1>3

(* A walk, field by field.                                                 *)
Shaped(w) ==
  w = [query |-> w.query, arch_indices |-> w.arch_indices, arch |-> w.arch, chunk |-> w.chunk,
       row |-> w.row, end |-> w.end, item |-> w.item, visited |-> w.visited, due |-> w.due]

Fielded(w) ==
  /\ w.query \in Queries
  /\ w.arch_indices \in Seq(Nat)
  /\ w.arch \in Nat
  /\ w.chunk \in Nat /\ w.chunk # 0
  /\ w.row \in Nat /\ w.row # 0
  /\ w.end \in Nat
  /\ w.visited \in Seq(Entity)
  /\ w.due \in SUBSET Entity

LEMMA WalkingFields ==
  ASSUME NEW w
  PROVE  w \in Walking <=> Shaped(w) /\ Fielded(w) /\ w.item \in BOOLEAN
BY DEF Walking, Shaped, Fielded

(* A job begins a walk: all it owes is still to come.                      *)
LEMMA BeginWalkOK ==
  ASSUME IInv, WalkInv, ListsOfStep, NEW q \in Queries, BeginWalk(q)
  PROVE  WalkOK(walk')
<1> DEFINE list == IF ExcludeOnly(q) THEN << >> ELSE ArchIndices(q)
<1>1. PICK w : w = walk'
  OBVIOUS
<1>2. /\ q \in step.queries
      /\ w = [NoWalk EXCEPT !.query = q, !.due = Due(q), !.arch_indices = list]
  BY <1>1 DEF BeginWalk, Walks
<1>3. ~ ExcludeOnly(q) => ArchIndices(q) = InOrder(Listed(q))
  <2>1. ContainsKey(query_counter, q) /\ ValueOf(query_counter, q).version = step.version
    BY <1>2 DEF WalkInv, StepOK, ListsOfStep
  <2> QED BY <2>1 DEF WalkInv, QueriesExact, ExactSpec, ContainsKey, ArchIndices, Listed
<1>4. Listed(q) \in SUBSET Nat /\ IsFiniteSet(Listed(q)) /\ 0 \notin Listed(q)
  BY ListedFacts
<1>5. /\ list \in Seq(Nat)
      /\ \A k \in DOMAIN list : list[k] \in Listed(q)
      /\ ~ ExcludeOnly(q) => \A i \in Listed(q) : \E k \in DOMAIN list : list[k] = i
      /\ \A j, k \in DOMAIN list : list[j] = list[k] => j = k
      /\ ExcludeOnly(q) => DOMAIN list = {}
  <2>1. CASE ExcludeOnly(q)
    BY <2>1
  <2>2. CASE ~ ExcludeOnly(q)
    <3>1. list = InOrder(Listed(q))
      BY <1>3, <2>2
    <3> HIDE DEF list
    <3>2. /\ list \in Seq(Listed(q))
          /\ \A k \in DOMAIN list : list[k] \in Listed(q)
          /\ \A i \in Listed(q) : \E k \in DOMAIN list : list[k] = i
          /\ \A j, k \in DOMAIN list : j < k => list[j] < list[k]
      BY <1>4, <3>1, InOrderFacts
    <3>3. list \in Seq(Nat) /\ DOMAIN list \subseteq Nat
      BY <1>4, <3>2
    <3>4. ASSUME NEW j \in DOMAIN list, NEW k \in DOMAIN list, list[j] = list[k] PROVE j = k
      <4>1. j \in Nat /\ k \in Nat /\ list[j] \in Nat
        BY <1>4, <3>2, <3>3
      <4> QED BY <3>2, <3>4, <4>1
    <3> QED BY <2>2, <3>2, <3>3, <3>4
  <2> QED BY <2>1, <2>2
<1> HIDE DEF list
<1>6. /\ w.query = q /\ w.due = Due(q) /\ w.arch_indices = list
      /\ w.arch = 0 /\ w.chunk = 1 /\ w.row = 1 /\ w.end = 0 /\ w.item = FALSE /\ w.visited = << >>
      /\ Shaped(w)
  BY <1>2 DEF NoWalk, Shaped
<1>7. ToCome(w) \subseteq Listed(q) /\ (~ ExcludeOnly(q) => ToCome(w) = Listed(q))
      /\ (ExcludeOnly(q) => ToCome(w) = {})
  BY <1>5, <1>6 DEF ToCome
<1>8. ListOK(w)
  BY <1>4, <1>5, <1>6, <1>7 DEF ListOK
<1>9. CursorOK(w)
  BY <1>6 DEF CursorOK
<1>10. VisitedOK(w)
  <2>1. Seqs!ToSet(w.visited) = {} /\ Len(w.visited) = 0
    BY <1>6 DEF Seqs!ToSet
  <2>2. ASSUME NEW e \in Due(q) PROVE ~ Passed(w, e)
    BY <1>7, <2>2, DueFacts DEF Passed
  <2> QED BY <1>6, <2>1, <2>2, FS_EmptySet DEF VisitedOK
<1>11. w \in Walking
  <2>1. Due(q) \in SUBSET Entity
    BY DEF Due, Live
  <2>2. << >> \in Seq(Entity)
    OBVIOUS
  <2>3. Fielded(w)
    BY <1>5, <1>6, <2>1, <2>2 DEF Fielded
  <2>4. w.item \in BOOLEAN
    BY <1>6, Zenon
  <2> QED BY <1>6, <2>3, <2>4, WalkingFields
<1> QED BY <1>1, <1>2, <1>6, <1>8, <1>9, <1>10, <1>11 DEF WalkOK

(* What a walk has passed is all that its properties see of its cursor.    *)
LEMMA SamePassed ==
  ASSUME WalkOK(walk), NEW w, w.query = walk.query, w.due = walk.due, w.visited = walk.visited,
         \A e \in Live : Passed(w, e) <=> Passed(walk, e)
  PROVE  VisitedOK(w)
<1>1. walk.due \subseteq Live
  BY DEF WalkOK, VisitedOK, Due
<1>2. {e \in w.due : Passed(w, e)} = {e \in walk.due : Passed(walk, e)}
  BY <1>1
<1> QED BY <1>2 DEF WalkOK, VisitedOK

(* The cursor moves to the next chunk: what was passed stays passed.       *)
LEMMA NextChunkOK ==
  ASSUME IInv, WalkInv, WalkOK(walk), NextChunk
  PROVE  WalkOK(walk')
<1>1. PICK w : w = walk'
  OBVIOUS
<1>2. PICK chunks : chunks = ChunksOf(walk.arch)
  OBVIOUS
<1>3. /\ walk \in Walking
      /\ w = [walk EXCEPT !.chunk = @ + 1, !.row = 1, !.item = FALSE,
                          !.end = Len(chunks[walk.chunk])]
      /\ walk.arch # 0 /\ walk.chunk <= Len(chunks) /\ ~ InChunk
  BY <1>1, <1>2 DEF NextChunk, Walks, MoreChunks, WalkOK
<1>4. walk.arch \in 1..Len(arch_specs.values) /\ walk.arch \in Listed(walk.query)
  BY <1>3, ListedFacts DEF WalkOK, CursorOK
<1>5. /\ Len(chunks) \in Nat
      /\ \A c \in 1..Len(chunks) : Len(chunks[c]) \in Nat
  BY <1>2, <1>4, ChunksFacts
<1>6. walk.chunk \in 1..Len(chunks) /\ walk.row \in Nat /\ walk.end \in Nat /\ walk.end < walk.row
  BY <1>3, <1>5 DEF Walking, InChunk
<1>7. /\ w.query = walk.query /\ w.due = walk.due /\ w.visited = walk.visited
      /\ w.arch_indices = walk.arch_indices /\ w.arch = walk.arch
      /\ w.chunk = walk.chunk + 1 /\ w.row = 1 /\ w.end = Len(chunks[walk.chunk])
      /\ w.item = FALSE /\ Shaped(w)
  BY <1>3 DEF Walking, Shaped
<1>a. w \in Walking
  <2>1. Len(chunks[walk.chunk]) \in Nat /\ walk.chunk + 1 \in Nat /\ walk.chunk + 1 # 0
    BY <1>5, <1>6
  <2>2. Fielded(walk)
    BY <1>3, WalkingFields
  <2>3. Fielded(w)
    BY <1>7, <2>1, <2>2 DEF Fielded
  <2>4. w.item \in BOOLEAN
    BY <1>7, Zenon
  <2> QED BY <1>7, <2>3, <2>4, WalkingFields
<1>8. ListOK(w)
  <2>1. ToCome(w) = ToCome(walk)
    BY <1>7 DEF ToCome
  <2> QED BY <1>7, <2>1 DEF WalkOK, ListOK
<1>9. CursorOK(w)
  BY <1>2, <1>3, <1>4, <1>5, <1>6, <1>7 DEF CursorOK
<1>10. ASSUME NEW e \in Live PROVE Passed(w, e) <=> Passed(walk, e)
  <2>1. ToCome(w) = ToCome(walk)
    BY <1>7 DEF ToCome
  <2>2. ASSUME SitsIn(e, walk.arch)
        PROVE  (SpecOf(e).chunk < w.chunk - 1 \/ (SpecOf(e).chunk = w.chunk - 1 /\ SpecOf(e).row < w.row))
                 <=> (SpecOf(e).chunk < walk.chunk - 1
                        \/ (SpecOf(e).chunk = walk.chunk - 1 /\ SpecOf(e).row < walk.row))
    <3>1. PICK c, r : c = SpecOf(e).chunk /\ r = SpecOf(e).row
      OBVIOUS
    <3>2. c \in 1..Len(chunks) /\ r \in 1..Len(chunks[c])
      BY <1>2, <1>4, <2>2, <3>1, ChunksFacts
    <3>3. c \in Nat /\ r \in Nat /\ 1 <= c /\ 1 <= r /\ r <= Len(chunks[c]) /\ Len(chunks[c]) \in Nat
      BY <1>5, <3>2
    <3>4. c = walk.chunk - 1 => r < walk.row
      <4> SUFFICES ASSUME c = walk.chunk - 1 PROVE r < walk.row
        OBVIOUS
      <4>1. walk.chunk # 1
        BY <1>6, <3>3
      <4>2. walk.end = Len(chunks[c])
        BY <1>2, <4>1 DEF WalkOK, CursorOK
      <4> QED BY <1>6, <3>3, <4>2
    <3>5. walk.chunk \in Nat /\ w.chunk - 1 = walk.chunk
      BY <1>6, <1>7
    <3>6. (c < w.chunk - 1 \/ (c = w.chunk - 1 /\ r < w.row)) <=> c < walk.chunk
      BY <1>7, <3>3, <3>5
    <3>7. (c < walk.chunk - 1 \/ (c = walk.chunk - 1 /\ r < walk.row)) <=> c < walk.chunk
      BY <3>3, <3>4, <3>5
    <3> QED BY <3>1, <3>6, <3>7
  <2> QED BY <1>7, <2>1, <2>2 DEF Passed
<1>11. VisitedOK(w)
  BY <1>7, <1>10, SamePassed
<1> QED BY <1>1, <1>7, <1>a, <1>8, <1>9, <1>11 DEF WalkOK

(* The cursor moves to the next archetype: nothing is passed of that one.  *)
LEMMA NextArchetypeOK ==
  ASSUME IInv, WalkInv, WalkOK(walk), NextArchetype
  PROVE  WalkOK(walk')
<1>1. PICK w : w = walk'
  OBVIOUS
<1>2. PICK left, head : left = walk.arch_indices /\ head = Head(left)
  OBVIOUS
<1>3. /\ walk \in Walking
      /\ w = [walk EXCEPT !.arch_indices = Tail(@), !.arch = head, !.chunk = 1, !.item = FALSE]
      /\ left # << >> /\ ~ InChunk /\ ~ MoreChunks
  BY <1>1, <1>2 DEF NextArchetype, Walks, WalkOK
<1>4. /\ left \in Seq(Nat)
      /\ 1 \in DOMAIN left /\ head = left[1] /\ head \in Nat
      /\ Tail(left) \in Seq(Nat)
      /\ \A k \in DOMAIN left : k # 1 => k - 1 \in DOMAIN Tail(left) /\ Tail(left)[k - 1] = left[k]
      /\ \A k \in DOMAIN Tail(left) : k + 1 \in DOMAIN left /\ k + 1 # 1 /\ Tail(left)[k] = left[k + 1]
      /\ DOMAIN left \subseteq Nat /\ DOMAIN Tail(left) \subseteq Nat
  <2>1. left \in Seq(Nat)
    BY <1>2, <1>3 DEF Walking
  <2>2. /\ Len(left) \in Nat /\ DOMAIN left = 1..Len(left)
        /\ \A k \in DOMAIN left : left[k] \in Nat
        /\ Len(left) > 0 /\ head = left[1]
        /\ Tail(left) \in Seq(Nat)
        /\ DOMAIN Tail(left) = 1..(Len(left) - 1)
        /\ \A k \in DOMAIN Tail(left) : Tail(left)[k] = left[k + 1]
    BY <1>2, <1>3, <2>1, SeqFacts
  <2> QED BY <2>1, <2>2
<1>5. /\ w.query = walk.query /\ w.due = walk.due /\ w.visited = walk.visited
      /\ w.arch_indices = Tail(left) /\ w.arch = head
      /\ w.chunk = 1 /\ w.row = walk.row /\ w.end = walk.end
      /\ w.item = FALSE /\ Shaped(w)
  BY <1>2, <1>3 DEF Walking, Shaped
<1>a. w \in Walking
  <2>1. Fielded(walk)
    BY <1>3, WalkingFields
  <2>2. Fielded(w)
    BY <1>4, <1>5, <2>1 DEF Fielded
  <2>3. w.item \in BOOLEAN
    BY <1>5, Zenon
  <2> QED BY <1>5, <2>2, <2>3, WalkingFields
<1>6. /\ ToCome(walk) \subseteq Listed(walk.query)
      /\ walk.arch \notin ToCome(walk)
      /\ \A j, k \in DOMAIN left : left[j] = left[k] => j = k
      /\ walk.arch # 0 \/ ToCome(walk) # {} => ~ ExcludeOnly(walk.query)
  BY <1>2 DEF WalkOK, ListOK
<1>7. /\ head \in ToCome(walk) /\ head \notin ToCome(w)
      /\ ToCome(walk) = ToCome(w) \cup {head}
  <2>1. head \in ToCome(walk)
    BY <1>2, <1>4 DEF ToCome
  <2>2. head \notin ToCome(w)
    BY <1>4, <1>5, <1>6 DEF ToCome
  <2>3. ToCome(w) \subseteq ToCome(walk)
    BY <1>2, <1>4, <1>5 DEF ToCome
  <2>4. ASSUME NEW i \in ToCome(walk), i # head PROVE i \in ToCome(w)
    <3>1. PICK k \in DOMAIN left : left[k] = i
      BY <1>2 DEF ToCome
    <3>2. k - 1 \in DOMAIN Tail(left) /\ Tail(left)[k - 1] = i
      BY <1>4, <2>4, <3>1
    <3> QED BY <1>5, <3>2 DEF ToCome
  <2> QED BY <2>1, <2>2, <2>3, <2>4
<1>8. /\ head \in Listed(walk.query) /\ head # 0
      /\ \A i \in ToCome(walk) : i \in 1..Len(arch_specs.values)
      /\ walk.arch # 0 => walk.arch \in 1..Len(arch_specs.values)
  BY <1>6, <1>7, ListedFacts DEF WalkOK, CursorOK
<1>9. ListOK(w)
  <2>1. \A j, k \in DOMAIN w.arch_indices : w.arch_indices[j] = w.arch_indices[k] => j = k
    BY <1>4, <1>5, <1>6
  <2> QED BY <1>5, <1>6, <1>7, <2>1 DEF ListOK
<1>10. walk.end < walk.row
  BY <1>3 DEF InChunk, Walking
<1>11. CursorOK(w)
  <2>1. Len(ChunksOf(head)) \in Nat
    BY <1>7, <1>8, ChunksFacts
  <2> QED BY <1>5, <1>8, <1>10, <2>1 DEF CursorOK
<1>12. ASSUME NEW e \in Live PROVE Passed(w, e) <=> Passed(walk, e)
  <2>1. CASE SitsIn(e, head)
    <3>1. ~ Passed(walk, e)
      BY <1>7, <2>1 DEF Passed
    <3>2. SpecOf(e).chunk \in Nat \ {0}
      BY <1>7, <1>8, <2>1, ChunksFacts
    <3>3. ~ Passed(w, e)
      BY <1>5, <1>8, <2>1, <3>2 DEF Passed
    <3> QED BY <3>1, <3>3
  <2>2. CASE ~ SitsIn(e, head)
    <3>1. Passed(w, e) <=> \A i \in ToCome(walk) : ~ SitsIn(e, i)
      BY <1>5, <1>7, <2>2 DEF Passed
    <3>2. walk.arch # 0 /\ SitsIn(e, walk.arch) =>
            \/ SpecOf(e).chunk < walk.chunk - 1
            \/ SpecOf(e).chunk = walk.chunk - 1 /\ SpecOf(e).row < walk.row
      BY <1>3, ArchetypeDone
    <3> QED BY <3>1, <3>2 DEF Passed
  <2> QED BY <2>1, <2>2
<1>13. VisitedOK(w)
  BY <1>5, <1>12, SamePassed
<1> QED BY <1>1, <1>5, <1>a, <1>9, <1>11, <1>13 DEF WalkOK

(* An entity a walk hands out is owed, and was not handed out before.      *)
LEMMA VisitRowOK ==
  ASSUME IInv, WalkInv, WalkOK(walk), VisitRow
  PROVE  WalkOK(walk')
<1>1. PICK w : w = walk'
  OBVIOUS
<1>2. PICK chunks, c, r : chunks = ChunksOf(walk.arch) /\ c = walk.chunk - 1 /\ r = walk.row
  OBVIOUS
<1>3. /\ walk \in Walking
      /\ InChunk
      /\ w = LET there == r \in DOMAIN chunks[c]
                 takes == there => Accepts(walk.query, chunks[c][r])
                 e     == IF there THEN chunks[c][r].e ELSE NoEntity
             IN  [walk EXCEPT !.row = @ + 1, !.item = takes,
                              !.visited = IF takes THEN Append(@, e) ELSE @]
  BY <1>1, <1>2, Zenon DEF VisitRow, Walks, WalkOK
<1>4. Fielded(walk)
  BY <1>3, WalkingFields
<1>5. r \in Nat /\ r # 0 /\ walk.chunk \in Nat /\ walk.chunk # 0 /\ r <= walk.end
  BY <1>2, <1>3, <1>4 DEF InChunk, Fielded
<1>6. walk.chunk # 1 /\ walk.arch # 0
  BY <1>2, <1>4, <1>5 DEF WalkOK, CursorOK, Fielded
<1>7. /\ walk.arch \in Listed(walk.query)
      /\ walk.arch \in 1..Len(arch_specs.values)
      /\ walk.chunk <= Len(chunks) + 1
      /\ walk.end = Len(chunks[c])
  BY <1>2, <1>6, ListedFacts DEF WalkOK, CursorOK
<1>8. c \in 1..Len(chunks) /\ r \in 1..Len(chunks[c])
  <2>1. Len(chunks) \in Nat /\ \A d \in 1..Len(chunks) : Len(chunks[d]) \in Nat
    BY <1>2, <1>7, ChunksFacts
  <2>2. c \in 1..Len(chunks)
    BY <1>2, <1>5, <1>6, <1>7, <2>1
  <2> QED BY <1>5, <1>7, <2>1, <2>2
<1>9. r \in DOMAIN chunks[c]
  BY <1>2, <1>7, <1>8, ChunksFacts
<1>10. PICK e : e = chunks[c][r].e
  OBVIOUS
<1>11. PICK takes \in BOOLEAN : takes <=> Accepts(walk.query, chunks[c][r])
  OBVIOUS
<1>12. w = [walk EXCEPT !.row = r + 1, !.item = takes,
                        !.visited = IF takes THEN Append(walk.visited, e) ELSE walk.visited]
  BY <1>2, <1>3, <1>9, <1>10, <1>11
<1>13. /\ w.query = walk.query /\ w.due = walk.due
       /\ w.arch_indices = walk.arch_indices /\ w.arch = walk.arch
       /\ w.chunk = walk.chunk /\ w.row = r + 1 /\ w.end = walk.end
       /\ w.visited = IF takes THEN Append(walk.visited, e) ELSE walk.visited
       /\ Shaped(w)
  BY <1>3, <1>12 DEF Walking, Shaped
<1>14. w.item \in BOOLEAN
  BY <1>3, <1>12, Zenon DEF Walking
<1>15. /\ e \in Live /\ SitsIn(e, walk.arch)
       /\ SpecOf(e).chunk = c /\ SpecOf(e).row = r
       /\ RowsAround(e) = chunks[c]
  <2>1. HasSeat(walk.arch, c, r) /\ Sitter(walk.arch, c, r) = e
    BY <1>2, <1>8, <1>10 DEF HasSeat, Sitter
  <2>2. ChunksOf(walk.arch)[c] = chunks[c]
    BY <1>2
  <2> QED BY <1>7, <2>1, <2>2, SeatFacts
<1>16. e \in Entity
  BY <1>15 DEF Live
<1>17. w \in Walking
  <2>1. w.visited \in Seq(Entity)
    BY <1>4, <1>13, <1>16, VisitedMore DEF Fielded
  <2>2. r + 1 \in Nat /\ r + 1 # 0
    BY <1>5
  <2>3. Fielded(w)
    BY <1>4, <1>13, <2>1, <2>2 DEF Fielded
  <2> QED BY <1>13, <1>14, <2>3, WalkingFields
<1>18. ToCome(w) = ToCome(walk)
  BY <1>13 DEF ToCome
<1>19. ListOK(w)
  BY <1>13, <1>18 DEF WalkOK, ListOK
<1>20. CursorOK(w)
  BY <1>6, <1>13 DEF WalkOK, CursorOK
<1>21. ~ Passed(walk, e)
  BY <1>2, <1>5, <1>6, <1>15 DEF Passed
<1>22. Passed(w, e)
  <2>1. \A i \in ToCome(walk) : i \in 1..Len(arch_specs.values) /\ i # walk.arch
    BY ListedFacts DEF WalkOK, ListOK
  <2>2. \A i \in ToCome(w) : ~ SitsIn(e, i)
    BY <1>7, <1>15, <1>18, <2>1, OneSeat
  <2>3. SpecOf(e).chunk = w.chunk - 1 /\ SpecOf(e).row < w.row
    BY <1>2, <1>5, <1>13, <1>15
  <2> QED BY <2>2, <2>3 DEF Passed
<1>23. ASSUME NEW f \in Live, f # e PROVE Passed(w, f) <=> Passed(walk, f)
  <2>1. CASE ~ SitsIn(f, walk.arch)
    BY <1>13, <1>18, <2>1 DEF Passed
  <2>2. CASE SitsIn(f, walk.arch)
    <3>1. /\ SpecOf(f).chunk \in 1..Len(chunks)
          /\ SpecOf(f).row \in 1..Len(chunks[SpecOf(f).chunk])
          /\ chunks[SpecOf(f).chunk][SpecOf(f).row].e = f
          /\ Len(chunks[SpecOf(f).chunk]) \in Nat
      BY <1>2, <1>7, <2>2, ChunksFacts
    <3>2. SpecOf(f).row \in Nat
      BY <3>1
    <3>3. ~ (SpecOf(f).chunk = c /\ SpecOf(f).row = r)
      BY <1>10, <1>23, <3>1
    <3>4. (SpecOf(f).chunk = c /\ SpecOf(f).row < r + 1) <=> (SpecOf(f).chunk = c /\ SpecOf(f).row < r)
      BY <1>5, <3>2, <3>3
    <3> QED BY <1>2, <1>13, <1>18, <3>4 DEF Passed
  <2> QED BY <2>1, <2>2
<1>24. /\ walk.due = Due(walk.query)
       /\ Seqs!ToSet(walk.visited) = {f \in walk.due : Passed(walk, f)}
       /\ IsFiniteSet(Seqs!ToSet(walk.visited))
       /\ Len(walk.visited) = Cardinality(Seqs!ToSet(walk.visited))
  BY DEF WalkOK, VisitedOK
<1>25. e \in walk.due <=> takes
  <2>1. ~ ExcludeOnly(walk.query)
    BY <1>6 DEF WalkOK, ListOK
  <2> QED BY <1>7, <1>11, <1>15, <1>24, <2>1, DueFacts
<1>26. walk.due \subseteq Live
  BY <1>24 DEF Due
<1>27. CASE takes
  <2>1. /\ Seqs!ToSet(w.visited) = Seqs!ToSet(walk.visited) \cup {e}
        /\ Len(w.visited) = Len(walk.visited) + 1
    BY <1>4, <1>13, <1>16, <1>27, VisitedMore DEF Fielded
  <2>2. e \notin Seqs!ToSet(walk.visited)
    BY <1>21, <1>24
  <2>3. /\ IsFiniteSet(Seqs!ToSet(w.visited))
        /\ Cardinality(Seqs!ToSet(w.visited)) = Cardinality(Seqs!ToSet(walk.visited)) + 1
    BY <1>24, <2>1, <2>2, FS_AddElement
  <2>4. {f \in w.due : Passed(w, f)} = {f \in walk.due : Passed(walk, f)} \cup {e}
    BY <1>13, <1>22, <1>23, <1>25, <1>26, <1>27
  <2>5. VisitedOK(w)
    BY <1>13, <1>24, <2>1, <2>3, <2>4 DEF VisitedOK
  <2> QED BY <1>1, <1>13, <1>17, <1>19, <1>20, <2>5 DEF WalkOK
<1>28. CASE ~ takes
  <2>1. \A f \in walk.due : Passed(w, f) <=> Passed(walk, f)
    BY <1>23, <1>25, <1>26, <1>28
  <2>2. {f \in w.due : Passed(w, f)} = {f \in walk.due : Passed(walk, f)}
    BY <1>13, <2>1
  <2>3. w.visited = walk.visited
    BY <1>13, <1>28
  <2>4. VisitedOK(w)
    BY <1>13, <1>24, <2>2, <2>3 DEF VisitedOK
  <2> QED BY <1>1, <1>13, <1>17, <1>19, <1>20, <2>4 DEF WalkOK
<1> QED BY <1>27, <1>28

(* Nothing of the world or of the step moves: a walk is as good as before. *)
LEMMA WorldStill ==
  ASSUME UNCHANGED <<vars, registries, step>>, WalkOK(walk')
  PROVE  WalkOK(walk)'
<1>1. /\ entities' = entities /\ archetypes' = archetypes
      /\ arch_specs' = arch_specs /\ step' = step
  BY DEF vars, registries
<1>2. \A q : Listed(q)' = Listed(q)
  BY <1>1 DEF Listed
<1>3. \A e : SpecOf(e)' = SpecOf(e)
  BY <1>1 DEF SpecOf
<1>4. \A i : ChunksOf(i)' = ChunksOf(i)
  BY <1>1 DEF ChunksOf
<1>5. Live' = Live
  BY <1>1 DEF Live
<1>6. \A e : RowsAround(e)' = RowsAround(e)
  BY <1>1, <1>3 DEF RowsAround
<1>7. \A q : Due(q)' = Due(q)
  BY <1>1, <1>3, <1>5, <1>6 DEF Due
<1>8. \A e : Passed(walk, e)' <=> Passed(walk', e)
  BY <1>1, <1>3 DEF Passed, ToCome, SitsIn
<1>9. ListOK(walk)' <=> ListOK(walk')
  BY <1>2 DEF ListOK, ToCome
<1>10. CursorOK(walk)' <=> CursorOK(walk')
  BY <1>2, <1>4 DEF CursorOK
<1>11. VisitedOK(walk)' <=> VisitedOK(walk')
  BY <1>7, <1>8 DEF VisitedOK
<1> QED BY <1>1, <1>9, <1>10, <1>11 DEF WalkOK

(* Before the first step nothing is walked.                                *)
LEMMA InitCareful == WalkInit => CarefulInv
BY DEF WalkInit, CarefulInv, ListsOfStep, NoStep

(* The lists of a step that begins are as new as the world, which is what  *)
(* the step remembers.                                                     *)
LEMMA BeginStepLists ==
  ASSUME WalkInv, CarefulInv, NEW q \in Queries, NEW r \in Queries,
         NEW qs \in {<<q>>, <<q, r>>}, BeginStep(qs)
  PROVE  CarefulInv'
<1>1. PICK reg : reg = Seqs!FoldLeft(PrepareQuery,
                         [components |-> component_counter, queries |-> query_counter], qs)
  OBVIOUS
<1>2. /\ step = NoStep /\ walk' = walk
      /\ query_counter' = reg.queries
      /\ \/ /\ \A i \in DOMAIN qs : ContainsKey(reg.queries, qs[i])
            /\ \E alone \in BOOLEAN :
                 step' = [queries |-> Seqs!ToSet(qs), alone |-> alone,
                          version |-> global_archetype_version]
         \/ step' = step
  BY <1>1 DEF BeginStep
<1>3. (\A i \in DOMAIN qs : ContainsKey(reg.queries, qs[i])) =>
        \A i \in DOMAIN qs : UpToDate(reg.queries, qs[i])
  BY <1>1, PreparedFacts
<1>4. walk = NoWalk
  BY <1>2 DEF CarefulInv, WalkOK, NoStep
<1>5. ListsOfStep'
  <2>1. CASE step' = step
    BY <1>2, <2>1 DEF ListsOfStep, NoStep
  <2>2. CASE /\ \A i \in DOMAIN qs : ContainsKey(reg.queries, qs[i])
             /\ \E alone \in BOOLEAN :
                  step' = [queries |-> Seqs!ToSet(qs), alone |-> alone,
                           version |-> global_archetype_version]
    <3>0. PICK alone \in BOOLEAN :
            step' = [queries |-> Seqs!ToSet(qs), alone |-> alone,
                     version |-> global_archetype_version]
      BY <2>2
    <3>1. \A p \in Seqs!ToSet(qs) : \E i \in DOMAIN qs : p = qs[i]
      BY DEF Seqs!ToSet
    <3>2. \A p \in Seqs!ToSet(qs) : UpToDate(reg.queries, p)
      BY <1>3, <2>2, <3>1
    <3>3. step'.queries = Seqs!ToSet(qs) /\ step'.version = global_archetype_version
      BY <3>0
    <3> QED BY <1>2, <3>2, <3>3 DEF UpToDate, ListsOfStep
  <2> QED BY <1>2, <2>1, <2>2
<1> QED BY <1>2, <1>4, <1>5 DEF CarefulInv

(* Every step keeps what a careful walk relies on.                         *)
LEMMA CarefulStep ==
  ASSUME CarefulWalks, IInv, WalkInv, CarefulInv, [WalkNext]_walkVars
  PROVE  CarefulInv'
<1>1. CASE Change
  <2>1. walk = NoWalk /\ walk' = walk /\ step' = step /\ (CmdStep \/ OwnerStep)
    BY <1>1 DEF Change
  <2>2. query_counter' = query_counter
    BY <2>1, CmdStepRegisters, OwnerStepRegisters DEF WalkInv, Registered
  <2> QED BY <2>1, <2>2 DEF CarefulInv, ListsOfStep
<1>2. ASSUME NEW q \in Queries, BeginStep(<<q>>) PROVE CarefulInv'
  BY <1>2, BeginStepLists
<1>3. ASSUME NEW q \in Queries, NEW r \in Queries, BeginStep(<<q, r>>) PROVE CarefulInv'
  BY <1>3, BeginStepLists
<1>4. ASSUME NEW w, Walks(w), w = NoWalk \/ WalkOK(walk') PROVE CarefulInv'
  <2>1. walk' = w /\ UNCHANGED <<vars, registries, step>>
    BY <1>4 DEF Walks
  <2>2. query_counter' = query_counter /\ step' = step
    BY <2>1 DEF registries
  <2>3. ListsOfStep'
    BY <2>2 DEF CarefulInv, ListsOfStep
  <2>4. walk' # NoWalk => WalkOK(walk)'
    BY <1>4, <2>1, WorldStill
  <2> QED BY <2>3, <2>4 DEF CarefulInv
<1>5. ASSUME NEW q \in Queries, BeginWalk(q) PROVE CarefulInv'
  <2>1. WalkOK(walk')
    BY <1>5, BeginWalkOK DEF CarefulInv
  <2> QED BY <1>4, <1>5, <2>1 DEF BeginWalk
<1>6. CASE VisitRow
  <2>1. walk # NoWalk
    BY <1>6 DEF VisitRow, InChunk, NoWalk
  <2>2. WalkOK(walk')
    BY <1>6, <2>1, VisitRowOK DEF CarefulInv
  <2> QED BY <1>4, <1>6, <2>2 DEF VisitRow
<1>7. CASE NextChunk
  <2>1. walk # NoWalk
    BY <1>7 DEF NextChunk, MoreChunks, NoWalk
  <2>2. WalkOK(walk')
    BY <1>7, <2>1, NextChunkOK DEF CarefulInv
  <2> QED BY <1>4, <1>7, <2>2 DEF NextChunk
<1>8. CASE NextArchetype
  <2>1. walk # NoWalk
    BY <1>8 DEF NextArchetype, NoWalk
  <2>2. WalkOK(walk')
    BY <1>8, <2>1, NextArchetypeOK DEF CarefulInv
  <2> QED BY <1>4, <1>8, <2>2 DEF NextArchetype
<1>9. CASE EndWalk
  BY <1>4, <1>9 DEF EndWalk
<1>10. CASE EndStep
  BY <1>10 DEF EndStep, CarefulInv, ListsOfStep, NoStep
<1>11. CASE UNCHANGED walkVars
  <2>1. UNCHANGED <<vars, registries, step>> /\ walk' = walk
    BY <1>11 DEF walkVars
  <2>2. query_counter' = query_counter /\ step' = step
    BY <2>1 DEF registries
  <2>3. ListsOfStep'
    BY <2>2 DEF CarefulInv, ListsOfStep
  <2>4. walk' # NoWalk => WalkOK(walk)'
    BY <2>1, WorldStill DEF CarefulInv
  <2> QED BY <2>3, <2>4 DEF CarefulInv
<1> QED BY <1>1, <1>2, <1>3, <1>5, <1>6, <1>7, <1>8, <1>9, <1>10, <1>11 DEF WalkNext

(* A careful walk always has its invariant.                                *)
LEMMA WalksCarefully ==
  ASSUME CarefulWalks
  PROVE  WalkSpec => [](IInv /\ WalkInv /\ CarefulInv)
<1>1. WalkInit => IInv
  BY InitIInv DEF WalkInit, RegistryInit
<1>2. IInv /\ WalkInv /\ CarefulInv /\ [WalkNext]_walkVars => IInv' /\ WalkInv' /\ CarefulInv'
  BY WalkNextStep, NextStep, CarefulStep
<1> QED BY <1>1, <1>2, InitWalkInv, InitCareful, PTL DEF WalkSpec

(* A walk is of a query of the running step, and its cursor is within the  *)
(* chunks of an archetype that exists.                                     *)
THEOREM WalksTyped ==
  ASSUME CarefulWalks
  PROVE  WalkSpec => []WalkTypeOK
<1>1. TypeOK /\ IInv /\ WalkInv /\ CarefulInv => WalkTypeOK
  <2> SUFFICES ASSUME TypeOK, IInv, WalkInv, CarefulInv PROVE WalkTypeOK
    OBVIOUS
  <2>1. step.queries \subseteq Queries
    BY DEF WalkInv, StepOK
  <2>2. CASE walk = NoWalk
    <3>1. walk.arch = 0 /\ walk.chunk = 1 /\ walk.due = {}
      BY <2>2 DEF NoWalk
    <3>2. Len(arch_specs.values) \in Nat
      BY ListedFacts
    <3> QED BY <2>1, <2>2, <3>1, <3>2 DEF WalkTypeOK
  <2>3. CASE walk # NoWalk
    <3>1. WalkOK(walk) /\ Fielded(walk)
      BY <2>3, WalkingFields DEF CarefulInv, WalkOK
    <3>2. walk.query \in step.queries /\ walk.due \subseteq Entity
      BY <3>1 DEF WalkOK, Fielded
    <3>3. walk.arch \in 0..Len(arch_specs.values)
      BY <3>1, ListedFacts DEF WalkOK, CursorOK
    <3>4. walk.chunk \in 1..(IF walk.arch = 0 THEN 1 ELSE Len(ChunksOf(walk.arch)) + 1)
      <4>1. CASE walk.arch = 0
        BY <3>1, <4>1 DEF WalkOK, CursorOK
      <4>2. CASE walk.arch # 0
        <5>1. walk.arch \in 1..Len(arch_specs.values)
          BY <3>1, <4>2, ListedFacts DEF WalkOK, CursorOK
        <5>2. Len(ChunksOf(walk.arch)) \in Nat
          BY <5>1, ChunksFacts
        <5>3. walk.chunk \in Nat /\ walk.chunk # 0 /\ walk.chunk <= Len(ChunksOf(walk.arch)) + 1
          BY <3>1, <4>2 DEF WalkOK, CursorOK, Fielded
        <5> QED BY <4>2, <5>2, <5>3
      <4> QED BY <4>1, <4>2
    <3> QED BY <2>1, <3>2, <3>3, <3>4 DEF WalkTypeOK
  <2> QED BY <2>2, <2>3
<1> QED BY <1>1, WalksCarefully, WalksStore, TypeCorrect, PTL

(* QueryIter hands out every entity the walk owes, once, and no other: the *)
(* &mut it makes never alias.                                              *)
THEOREM WalksExactly ==
  ASSUME CarefulWalks
  PROVE  WalkSpec => []WalkExact
<1>1. IInv /\ WalkInv /\ CarefulInv => WalkExact
  <2> SUFFICES ASSUME IInv, WalkInv, CarefulInv PROVE WalkExact
    OBVIOUS
  <2>1. CASE walk = NoWalk
    <3>1. Seqs!ToSet(walk.visited) = {} /\ Len(walk.visited) = 0 /\ walk.due = {}
      BY <2>1 DEF NoWalk, Seqs!ToSet
    <3> QED BY <3>1, FS_EmptySet DEF WalkExact
  <2>2. CASE walk # NoWalk
    <3>1. WalkOK(walk)
      BY <2>2 DEF CarefulInv
    <3>2. /\ walk.due = Due(walk.query)
          /\ Seqs!ToSet(walk.visited) = {e \in walk.due : Passed(walk, e)}
          /\ Len(walk.visited) = Cardinality(Seqs!ToSet(walk.visited))
      BY <3>1 DEF WalkOK, VisitedOK
    <3>3. ASSUME Finished, NEW e \in walk.due PROVE Passed(walk, e)
      <4>1. e \in Live
        BY <3>2 DEF Due
      <4>2. ToCome(walk) = {}
        BY <3>3 DEF Finished, ToCome
      <4>3. walk.arch # 0 /\ SitsIn(e, walk.arch) =>
              \/ SpecOf(e).chunk < walk.chunk - 1
              \/ SpecOf(e).chunk = walk.chunk - 1 /\ SpecOf(e).row < walk.row
        BY <3>1, <3>3, <4>1, ArchetypeDone DEF Finished
      <4> QED BY <4>2, <4>3 DEF Passed
    <3> QED BY <3>2, <3>3 DEF WalkExact
  <2> QED BY <2>1, <2>2
<1> QED BY <1>1, WalksCarefully, PTL
=============================================================================
