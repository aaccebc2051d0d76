-------------------------- MODULE ComponentBitSet --------------------------
(***************************************************************************)
(* A set of component ids in words (src/src/collection/                    *)
(* component_bit_set.rs). A word is the set of its bits; the words grow    *)
(* with the largest id inserted, so two sets are compared at different     *)
(* lengths, and whoever compares decides what a missing word means.        *)
(***************************************************************************)
EXTENDS Integers, Sequences

CONSTANT BITS_PER_WORD

ASSUME WordAssumption == BITS_PER_WORD \in Nat \ {0}

Bits == 0..(BITS_PER_WORD - 1)

BitSet == Seq(SUBSET Bits)

EmptyBitSet == << >>

WordOf(id) == id \div BITS_PER_WORD + 1
BitOf(id)  == id % BITS_PER_WORD

LongerOf(m, n) == IF m < n THEN n ELSE m

(* A word past the end holds no bit.                                       *)
Word(words, w) == IF w \in DOMAIN words THEN words[w] ELSE {}

Resize(words, len) == [w \in 1..len |-> Word(words, w)]

(* Bug: the set does not grow.                                             *)
InsertId_NoResize(words, id) ==
  [w \in DOMAIN words |-> words[w] \cup (IF w = WordOf(id) THEN {BitOf(id)} ELSE {})]

InsertId(words, id) ==
  [Resize(words, LongerOf(Len(words), WordOf(id))) EXCEPT ![WordOf(id)] = @ \cup {BitOf(id)}]

ContainsId(words, id) == BitOf(id) \in Word(words, WordOf(id))

(* What the iterator yields.                                               *)
Ids(words) == UNION {{BITS_PER_WORD * (w - 1) + bit : bit \in words[w]} : w \in DOMAIN words}

(* zip: the longer set is not read past the end of the shorter one.        *)
IsDisjoint(a, b) == \A w \in DOMAIN a \cap DOMAIN b : a[w] \cap b[w] = {}

Intersects(a, b) == ~ IsDisjoint(a, b)

(* Bug: stops at the shorter set, as IsDisjoint may.                       *)
ContainsAll_Shorter(a, b) == \A w \in DOMAIN a \cap DOMAIN b : b[w] \subseteq a[w]

ContainsAll(a, b) == \A w \in DOMAIN b : b[w] \subseteq Word(a, w)

UnionWith(a, b) ==
  [w \in 1..LongerOf(Len(a), Len(b)) |-> Word(a, w) \cup Word(b, w)]
=============================================================================
