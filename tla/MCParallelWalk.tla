--------------------------- MODULE MCParallelWalk ---------------------------
(***************************************************************************)
(* ParallelWalk: five components of every kind of size and state. The      *)
(* archetype of two that can be disabled, one of them a tag, is walked:    *)
(* 256 bytes hold 26 rows of it, 3 whole bytes of each bit set and a rest. *)
(***************************************************************************)
EXTENDS ParallelWalk

Descriptor(size, align, enable_able, change_able) ==
  [byte_size |-> size, align |-> align, enable_able |-> enable_able, change_able |-> change_able]

Tag      == Descriptor(0, 1, TRUE, FALSE)
Byte     == Descriptor(1, 1, TRUE, FALSE)
Position == Descriptor(12, 4, FALSE, TRUE)
Packed   == Descriptor(3, 1, TRUE, TRUE)
Matrix   == Descriptor(64, 32, FALSE, FALSE)

MCDescriptors == {Tag, Byte, Position, Packed, Matrix}

MCWalked == {<<Tag, Byte>>}

(* Bound: the chunks of a first archetype, and a chunk of a second one.    *)
MCShapes(max_len) ==
  IF max_len < 24 \/ max_len > 40 THEN {} ELSE
  {<<first, second>> : first \in UNION {[1..n -> {0, 3, 8, 13, max_len}] : n \in 0..2},
                       second \in {<< >>, <<0, 11>>, <<max_len>>}}
=============================================================================
