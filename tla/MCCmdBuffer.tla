---------------------------- MODULE MCCmdBuffer ----------------------------
(***************************************************************************)
(* CmdBuffer with two workers and few slots.                               *)
(***************************************************************************)
EXTENDS CmdBuffer
=============================================================================
