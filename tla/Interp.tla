------------------------------- MODULE Interp -------------------------------
(***************************************************************************)
(* The interpreter's integer instructions, src/src/cpu/execute.rs: what    *)
(* each leaves in rd and in pc.  An instruction is a record [op, rd, rs1,  *)
(* rs2, imm]; a machine is a record [regs, pc, trapped].                    *)
(***************************************************************************)
EXTENDS MulDiv

\* cpu.reg and cpu.set_reg: x0 reads 0 and stays 0.
Reg(regs, n) == IF n = 0 THEN 0 ELSE regs[n]
SetReg(regs, rd, v) == IF rd = 0 THEN regs ELSE [regs EXCEPT ![rd] = v]

Base(op, a, b) ==
    CASE op \in {"add", "addi"}   -> Wrap(a + b)
      [] op = "sub"               -> Wrap(a - b)
      [] op \in {"and", "andi"}   -> BitAnd(a, b)
      [] op \in {"or", "ori"}     -> BitOr(a, b)
      [] op \in {"xor", "xori"}   -> BitXor(a, b)
      [] op \in {"slt", "slti"}   -> Flag(Signed(a) < Signed(b))
      [] op \in {"sltu", "sltiu"} -> Flag(a < b)
      [] op = "sll"  -> Wrap(a * 2^(b % XLEN))
      [] op = "srl"  -> a \div 2^(b % XLEN)
      [] op = "sra"  -> Wrap(Signed(a) \div 2^(b % XLEN))
      [] op = "slli" -> Wrap(a * 2^b)
      [] op = "srli" -> a \div 2^b
      [] op = "srai" -> Wrap(Signed(a) \div 2^b)

BaseW(op, a, b) ==
    CASE op \in {"addw", "addiw"} -> SextW(a + b)
      [] op = "subw"  -> SextW(a - b)
      [] op = "sllw"  -> SextW(a * 2^(b % WLEN))
      [] op = "srlw"  -> SextW(Low(a) \div 2^(b % WLEN))
      [] op = "sraw"  -> SextW(SignedW(a) \div 2^(b % WLEN))
      [] op = "slliw" -> SextW(a * 2^b)
      [] op = "srliw" -> SextW(Low(a) \div 2^b)
      [] op = "sraiw" -> SextW(SignedW(a) \div 2^b)

\* The value an AMO stores, from what it loaded and rs2.
AmoD(op, old, b) ==
    CASE op = "amoswap" -> b
      [] op = "amoadd"  -> Wrap(old + b)
      [] op = "amoxor"  -> BitXor(old, b)
      [] op = "amoand"  -> BitAnd(old, b)
      [] op = "amoor"   -> BitOr(old, b)
      [] op = "amomin"  -> IF Signed(old) < Signed(b) THEN old ELSE b
      [] op = "amomax"  -> IF Signed(old) > Signed(b) THEN old ELSE b
      [] op = "amominu" -> IF old < b THEN old ELSE b
      [] op = "amomaxu" -> IF old > b THEN old ELSE b

\* The W forms work on the sign-extended word and the whole of rs2.
AmoW(op, old, b) ==
    CASE op = "amomin"  -> IF SignedW(old) < SignedW(b) THEN old ELSE SextW(b)
      [] op = "amomax"  -> IF SignedW(old) > SignedW(b) THEN old ELSE SextW(b)
      [] op = "amominu" -> IF Low(old) < Low(b) THEN old ELSE Low(b)
      [] op = "amomaxu" -> IF Low(old) > Low(b) THEN old ELSE Low(b)
      [] OTHER -> AmoD(op, old, b)

\* Faulty variant of Amo: a W form writes the sign-extended doubleword.
Amo_wide(op, width, m, b, ram) ==
    LET old == IF ~ram THEN 0 ELSE IF width = "d" THEN m ELSE SextW(m)
    IN  [rd |-> old,
         mem |-> IF ~ram THEN m
                 ELSE IF width = "d" THEN AmoD(op, old, b) ELSE AmoW(op, old, b)]

\* An AMO on the doubleword m: what is left in memory and in rd.  A bus that
\* refuses the access yields 0 and keeps its contents, and no trap is taken.
Amo(op, width, m, b, ram) ==
    LET loaded == IF ram THEN m ELSE 0
        old == IF width = "d" THEN loaded ELSE SextW(loaded)
        new == IF width = "d" THEN AmoD(op, old, b) ELSE AmoW(op, old, b)
    IN  [rd |-> old,
         mem |-> CASE ~ram -> m
                   [] ram /\ width = "d" -> new
                   [] ram /\ width = "w" -> (m - Low(m)) + Low(new)]

AmoOps == {"amoswap", "amoadd", "amoxor", "amoand", "amoor",
           "amomin", "amomax", "amominu", "amomaxu"}

RegOps   == {"add", "sub", "sll", "slt", "sltu", "xor", "srl", "sra", "or", "and"}
ImmOps   == {"addi", "slti", "sltiu", "xori", "ori", "andi"}
ShiftOps == {"slli", "srli", "srai"}
RegOpsW  == {"addw", "subw", "sllw", "srlw", "sraw"}
ShiftOpsW == {"slliw", "srliw", "sraiw"}
Branches == {"beq", "bne", "blt", "bge", "bltu", "bgeu"}

BinaryOps    == RegOps \cup RegOpsW \cup MulOps \cup DivOps \cup DivOpsW
ImmediateOps == ImmOps \cup ShiftOps \cup ShiftOpsW \cup {"addiw"}

Loads == {"lb", "lh", "lw", "ld", "lbu", "lhu", "lwu"}

\* The bits a load reads, and rd after it: the bytes from memory, extended.
LoadBits(op) == CASE op \in {"lb", "lbu"} -> XLEN \div 8 [] op \in {"lh", "lhu"} -> XLEN \div 4
                  [] op \in {"lw", "lwu"} -> WLEN [] op = "ld" -> XLEN
LoadValue(op, v) ==
    IF op \in {"lb", "lh", "lw"} THEN Wrap(SignedBits(LoadBits(op), v)) ELSE v

Value(op, a, b) ==
    CASE op \in RegOps \cup ImmOps \cup ShiftOps -> Base(op, a, b)
      [] op \in RegOpsW \cup ShiftOpsW \cup {"addiw"} -> BaseW(op, a, b)
      [] op \in MulOps  -> Multiply(op, a, b)
      [] op \in DivOps  -> Divide(op, a, b)
      [] op \in DivOpsW -> DivideW(op, a, b)

Taken(op, a, b) ==
    CASE op = "beq"  -> a = b
      [] op = "bne"  -> a # b
      [] op = "blt"  -> Signed(a) < Signed(b)
      [] op = "bge"  -> Signed(a) >= Signed(b)
      [] op = "bltu" -> a < b
      [] op = "bgeu" -> a >= b

\* A taken branch or jump to t: an odd target traps before anything commits.
JumpTo(m, t, regs) ==
    IF t % 2 # 0 THEN [m EXCEPT !.trapped = TRUE] ELSE [m EXCEPT !.pc = t, !.regs = regs]

Branch(i, m, next) ==
    IF Taken(i.op, Reg(m.regs, i.rs1), Reg(m.regs, i.rs2))
    THEN JumpTo(m, Wrap(m.pc + i.imm), m.regs)
    ELSE [m EXCEPT !.pc = next]

\* rs1 is read before rd is written, and `& !1' clears the target's low bit.
Jump(i, m, next) ==
    LET t == IF i.op = "jal" THEN Wrap(m.pc + i.imm)
             ELSE LET s == Wrap(Reg(m.regs, i.rs1) + i.imm) IN s - (s % 2)
    IN  JumpTo(m, t, SetReg(m.regs, i.rd, next))

Upper(i, m) == IF i.op = "lui" THEN Wrap(i.imm) ELSE Wrap(m.pc + i.imm)

\* execute, for the instructions that touch neither memory nor CSRs; size is
\* cpu.inst_size.
Execute(i, size, m) ==
    LET next == Wrap(m.pc + size)
        write(v) == [m EXCEPT !.pc = next, !.regs = SetReg(m.regs, i.rd, v)]
    IN  CASE i.op \in BinaryOps -> write(Value(i.op, Reg(m.regs, i.rs1), Reg(m.regs, i.rs2)))
          [] i.op \in ImmediateOps -> write(Value(i.op, Reg(m.regs, i.rs1), Wrap(i.imm)))
          [] i.op \in {"lui", "auipc"} -> write(Upper(i, m))
          [] i.op \in Branches -> Branch(i, m, next)
          [] i.op \in {"jal", "jalr"} -> Jump(i, m, next)
          [] i.op = "fence" -> [m EXCEPT !.pc = next]
==============================================================================
