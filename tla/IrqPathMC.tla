------------------------------ MODULE IrqPathMC ------------------------------
(***************************************************************************)
(* IrqPath for TLC: the two sources the board wires, two bytes of input,   *)
(* two completions at a time, one masking of each source.                  *)
(***************************************************************************)
EXTENDS IrqPath
=============================================================================
