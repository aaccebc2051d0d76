---------------------------- MODULE MCQueryWalk ----------------------------
(***************************************************************************)
(* QueryWalk over two components, one of which can be disabled, with bit   *)
(* set words of one bit, so that every set of ids has a length of its own. *)
(***************************************************************************)
EXTENDS QueryWalk

CONSTANTS A, B

Element(access, c, filter) == [access |-> access, c |-> c, filter |-> filter]

MCTuples == {<<B>>, <<A, B>>}

(* (&Entity, Enabled<&mut B>), (&A, Without<B>), and a tuple that is       *)
(* refused for writing what it reads.                                      *)
MCQueries == {<<Element("entity", B, "none"), Element("write", B, "enabled")>>,
              <<Element("read", A, "none"), Element("exclude", B, "none")>>,
              <<Element("write", A, "none"), Element("read", A, "none")>>}

(* Bound: at most three archetypes, none locked or singleton, which does   *)
(* not matter to a query.                                                  *)
FewArchetypes ==
  /\ Cardinality(DOMAIN archetypes) <= 3
  /\ \A cs \in DOMAIN archetypes : archetypes[cs].allow_structure_change
=============================================================================
