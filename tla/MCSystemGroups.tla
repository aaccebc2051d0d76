--------------------------- MODULE MCSystemGroups ---------------------------
(***************************************************************************)
(* SystemGroups with two components, two systems and a group of three.     *)
(***************************************************************************)
EXTENDS SystemGroups, TLC

GroupSymmetry == Permutations(Components) \cup Permutations(Systems)
=============================================================================
