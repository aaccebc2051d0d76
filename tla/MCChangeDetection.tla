------------------------- MODULE MCChangeDetection -------------------------
(***************************************************************************)
(* ChangeDetection with a parallel group of two writers and a reader after *)
(* it in one session, and a reader that runs by itself in another.         *)
(***************************************************************************)
EXTENDS ChangeDetection

CONSTANTS armor, speed                        \* cells
CONSTANTS bump_armor, bump_speed, after, rare   \* systems

MCSchedule == [x \in Sessions |->
  IF x = "update" THEN <<{bump_armor, bump_speed}, {after}>> ELSE <<{rare}>>]

MCReads == [s \in Systems |->
  CASE s = bump_armor -> {armor}
    [] s = bump_speed -> {speed}
    [] OTHER          -> {armor, speed}]

MCWrites == [s \in Systems |->
  CASE s = bump_armor -> {armor}
    [] s = bump_speed -> {speed}
    [] OTHER          -> {}]
=============================================================================
