------------------------------- MODULE HartMC -------------------------------
(***************************************************************************)
(* Hart for TLC: one code address, vectored S-level traps, the M-level   *)
(* timer interrupt against the S-level software interrupt, one exception   *)
(* that may be delegated and one that never is, S-level traps two deep.    *)
(***************************************************************************)
EXTENDS Hart

MCMTvec == [base |-> 100, vectored |-> FALSE]
MCSTvec == [base |-> 200, vectored |-> TRUE]
MCDelegations == {{}, SMask}
MCMEnables == {{}, {1, 7}}
MCExcDelegations == {{}, {8, 13}}
=============================================================================
