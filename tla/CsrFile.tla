-------------------------------- MODULE CsrFile --------------------------------
(***************************************************************************)
(* The CSR instructions and the register file behind them: Csr::read and   *)
(* Csr::write of src/src/cpu/csr.rs and the six arms of execute.rs 627-696.*)
(* A value is the set of its one bits.  sstatus, sie and sip are views of  *)
(* the machine-level registers; what traps do to these is in module Hart.  *)
(***************************************************************************)
EXTENDS Naturals

Registers == {"mstatus", "mie", "mip", "mepc", "sepc", "medeleg", "stvec", "satp"}
CsrNames  == Registers \cup {"sstatus", "sie", "sip", "scounteren", "mhartid"}

UxlSxl      == 32..35
SstatusWrite == {1, 5, 6, 8, 13, 14, 15, 16, 18, 19}
SstatusRead  == SstatusWrite \cup {32, 33, 63}
SLevel == {1, 5, 9}                          \* SSI, STI, SEI

csr_read(s, name) ==
    CASE name = "mstatus" -> s.mstatus \cup {33, 35}
      [] name = "sstatus" -> (s.mstatus \cup {33}) \cap SstatusRead
      [] name = "sie" -> s.mie \cap SLevel
      [] name = "sip" -> s.mip \cap SLevel
      [] name \in {"mie", "mip", "mepc", "sepc", "medeleg", "stvec", "satp"} -> s[name]
      [] OTHER -> {}

\* The bits of v where the mask lets them through.
Merge(old, v, mask) == (old \ mask) \cup (v \cap mask)

\* Faulty variant of csr_write: sip writes all the bits it shows.
csr_write_pending(s, name, v) ==
    CASE name = "mstatus" -> [s EXCEPT !.mstatus = v \ UxlSxl]
      [] name = "sstatus" -> [s EXCEPT !.mstatus = Merge(@, v, SstatusWrite)]
      [] name = "sie"  -> [s EXCEPT !.mie = Merge(@, v, SLevel)]
      [] name = "sip"  -> [s EXCEPT !.mip = Merge(@, v, SLevel)]
      [] OTHER -> s

csr_write(s, name, v) ==
    CASE name = "mstatus" -> [s EXCEPT !.mstatus = v \ UxlSxl]
      [] name = "sstatus" -> [s EXCEPT !.mstatus = Merge(@, v, SstatusWrite)]
      [] name = "sie"  -> [s EXCEPT !.mie = Merge(@, v, SLevel)]
      [] name = "sip"  -> [s EXCEPT !.mip = Merge(@, v, {1})]
      [] name \in {"mepc", "sepc"} -> [s EXCEPT ![name] = v \ {0}]
      [] name = "satp" -> IF v \cap (60..63) \in {{}, {63}} THEN [s EXCEPT !.satp = v] ELSE s
      [] name \in {"mie", "mip", "medeleg", "stvec"} -> [s EXCEPT ![name] = v]
      [] OTHER -> s

Ppn(satp) == satp \cap (0..43)

\* An instruction has an op "w", "s" or "c", a csr, and says whether rd is x0
\* and whether its source field (rs1, or the immediate itself) is zero; v is the
\* source's value.
Zicsr(i, mode, s, v) ==
    LET old == IF i.op = "w" /\ i.rd0 THEN {} ELSE csr_read(s, i.csr)
        new == CASE i.op = "w" -> v
                 [] i.op = "s" -> old \cup v
                 [] i.op = "c" -> old \ v
        after == IF i.op # "w" /\ i.src0 THEN s ELSE csr_write(s, i.csr, new)
    IN  IF i.csr = "satp" /\ mode = "S" /\ 20 \in s.mstatus         \* TVM
        THEN [trap |-> TRUE, s |-> s, rd |-> {}, invalidate |-> FALSE]
        ELSE [trap |-> FALSE, s |-> after, rd |-> old,
              invalidate |-> Ppn(after.satp) # Ppn(s.satp)]

--------------------------------------------------------------------------------
(* What a CSR instruction may change.                                      *)

Owner(name) == CASE name = "sstatus" -> "mstatus" [] name = "sie" -> "mie"
                 [] name = "sip" -> "mip" [] OTHER -> name

\* What is not the supervisor's to write: MIE, MPIE, MPP, MPRV, TVM, TW, TSR of
\* mstatus, the machine-level enables, and all pending bits but SSIP.
Protected(name) ==
    CASE name = "sstatus" -> {3, 7, 11, 12, 17, 20, 21, 22}
      [] name = "sie" -> {3, 7, 11}
      [] name = "sip" -> {3, 5, 7, 9, 11}
      [] OTHER -> {}

Changed(x, y) == (x \ y) \cup (y \ x)

\* The CSR i names changes alone; set and clear change no bit their operand does
\* not name, though they write back what they read, hardwired bits included; no
\* write through a supervisor's view reaches a protected bit; rd is what a read
\* gives, and the block cache is told of a new root.
AccessIsolated(i, mode, s, v) ==
    LET r == Zicsr(i, mode, s, v)
        own == Owner(i.csr)
    IN  /\ r.trap => r.s = s /\ ~r.invalidate
        /\ \A c \in Registers \ {own} : r.s[c] = s[c]
        /\ own \in Registers =>
               /\ i.op # "w" => Changed(s[own], r.s[own]) \subseteq (IF i.src0 THEN {} ELSE v)
               /\ Changed(s[own], r.s[own]) \cap Protected(i.csr) = {}
        /\ ~r.trap /\ ~i.rd0 => r.rd = csr_read(s, i.csr)
        /\ r.invalidate <=> Ppn(s.satp) # Ppn(r.s.satp)
================================================================================
