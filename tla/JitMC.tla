--------------------------------- MODULE JitMC ---------------------------------
(* Two RAM pages, 0 and 1, of two instruction slots each; two virtual      *)
(* pages, 3 and 4, so that a block can run from one into the other.  Page  *)
(* 3 is the kernel's, page 4 its processes'.                               *)
EXTENDS Jit

PageLen == 2
MCAddr  == {a \in 0..9 : a \div PageLen \in {0, 1, 3, 4}}
MCPage  == [a \in MCAddr |-> a \div PageLen]
MCOff   == [a \in MCAddr |-> a % PageLen]

\* The M-mode vector is the first slot of RAM, the S-mode vector of page 3.
MCVectors == {<<"M", 0>>, <<"S", 6>>}

Program(i, j, k, l) == [f \in {0, 1} |-> [o \in {0, 1} |->
    IF f = 0 THEN (IF o = 0 THEN i ELSE j) ELSE (IF o = 0 THEN k ELSE l)]]
MCImages == {Program("alu", "load", "store", "slow"), Program("store", "slow", "sfence", "jump")}

\* The kernel has the pages in order; the process has the second page first
\* and a hole behind it.
Table(x, y) == [v \in {3, 4} |-> IF v = 3 THEN x ELSE y]
MCTables == {[r \in {"k", "u"} |-> IF r = "k" THEN Table(0, 1) ELSE Table(1, NoFrame)]}
================================================================================
