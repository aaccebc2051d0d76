---------------------------- MODULE MCWorldRows ----------------------------
(***************************************************************************)
(* WorldStorage with one value and no tracked state: what is left is the   *)
(* structure, the rows, chunks, queues and specs.                          *)
(***************************************************************************)
EXTENDS WorldStorage, TLC

ComponentSymmetry == Permutations(Components)

(* Bound: three archetypes, as many as any move touches, and one of them   *)
(* locked or a singleton.                                                  *)
FewArchetypes ==
  /\ Cardinality(DOMAIN archetypes) <= 3
  /\ Cardinality({cs \in DOMAIN archetypes : ~ archetypes[cs].allow_structure_change}) <= 1
=============================================================================
