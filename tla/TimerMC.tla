------------------------------- MODULE TimerMC -------------------------------
(***************************************************************************)
(* Timer for TLC: a poll every four ticks, blocks of two and four, a tick  *)
(* of mtime every two units of the clock.                                  *)
(***************************************************************************)
EXTENDS Timer
=============================================================================
