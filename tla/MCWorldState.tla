---------------------------- MODULE MCWorldState ----------------------------
(***************************************************************************)
(* WorldStorage with values, enable bits and ticks, against EntityStore.   *)
(***************************************************************************)
EXTENDS WorldStorage

(* Bound: no locks and no singletons, which other runs are about.          *)
DefaultArchetypes == \A cs \in DOMAIN archetypes : archetypes[cs].allow_structure_change
=============================================================================
