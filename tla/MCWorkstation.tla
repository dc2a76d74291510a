---------------------------- MODULE MCWorkstation ----------------------------
(* One shell and one gateway are enough to see a turn die.                   *)
EXTENDS Workstation
=============================================================================
