-------------------------------- MODULE Emit --------------------------------
(***************************************************************************)
(* The machine code compile emits for an integer instruction,              *)
(* src/src/jit.rs 592-707 and 797-1502: the value it leaves in rax and     *)
(* where it stores it.  The x86-64 instructions it is made of are external *)
(* and scaled down like the registers: rax has XLEN bits, eax its low WLEN.*)
(***************************************************************************)
EXTENDS Words

\* The host's #DE, which would end the emulator: no register value.
HostFault == -(Modulus * Modulus)

--------------------------------------------------------------------------------
(* x86-64.                                                                 *)

\* The flags of `cmp x, y' and the conditions read from them.
Negative(v) == v >= MinSigned
Below(x, y)  == x < y                                           \* CF
Less(x, y) ==                                                   \* SF # OF
    LET d  == Wrap(x - y)
        of == Negative(x) # Negative(y) /\ Negative(d) # Negative(x)
    IN  Negative(d) # of

\* Shifts mask their count to the operand's width.
Shl(v, n) == Wrap(v * 2^(n % XLEN))
Shr(v, n) == v \div 2^(n % XLEN)
Sar(v, n) == Wrap(Signed(v) \div 2^(n % XLEN))
ShlW(v, n) == Low(v * 2^(n % WLEN))
ShrW(v, n) == Low(v) \div 2^(n % WLEN)
SarW(v, n) == Low(SignedW(v) \div 2^(n % WLEN))

\* movsxd rax, eax.
Movsxd(v) == IF v = HostFault THEN v ELSE Wrap(SignedW(v))

\* One-operand imul and mul leave the product in rdx:rax.
ImulHigh(x, y) == Wrap((Signed(x) * Signed(y)) \div Modulus)
MulHigh(x, y)  == (x * y) \div Modulus

\* idiv and div of rdx:rax (here one integer) by y: quotient and remainder,
\* #DE for y = 0 and for a quotient that does not fit.
Magnitude(x) == IF x < 0 THEN -x ELSE x
Idiv(x, y) ==
    IF y = 0 THEN [q |-> HostFault, r |-> HostFault]
    ELSE LET q == IF (x < 0) = (Signed(y) < 0)
                  THEN Magnitude(x) \div Magnitude(Signed(y))
                  ELSE -(Magnitude(x) \div Magnitude(Signed(y)))
         IN  IF q \in -MinSigned..(MinSigned - 1)
             THEN [q |-> Wrap(q), r |-> Wrap(x - q * Signed(y))]
             ELSE [q |-> HostFault, r |-> HostFault]
Div(x, y) == IF y = 0 THEN [q |-> HostFault, r |-> HostFault]
             ELSE [q |-> x \div y, r |-> x % y]

--------------------------------------------------------------------------------
(* rax after the code of an instruction on a = [r15 + rs1_off] and b =     *)
(* [r15 + rs2_off] or imm32.                                               *)

EmitRegOp(op, a, b) ==
    CASE op = "add"  -> Wrap(a + b)
      [] op = "sub"  -> Wrap(a - b)
      [] op = "and"  -> BitAnd(a, b)
      [] op = "or"   -> BitOr(a, b)
      [] op = "xor"  -> BitXor(a, b)
      [] op = "sll"  -> Shl(a, b % XLEN)
      [] op = "srl"  -> Shr(a, b % XLEN)
      [] op = "sra"  -> Sar(a, b % XLEN)
      [] op = "slt"  -> Flag(Less(a, b))
      [] op = "sltu" -> Flag(Below(a, b))

EmitImmOp(op, a, b) ==
    CASE op = "addi"  -> Wrap(a + b)
      [] op = "andi"  -> BitAnd(a, b)
      [] op = "ori"   -> BitOr(a, b)
      [] op = "xori"  -> BitXor(a, b)
      [] op = "slti"  -> Flag(Less(a, b))
      [] op = "sltiu" -> Flag(Below(a, b))
      [] op = "slli"  -> Shl(a, b)
      [] op = "srli"  -> Shr(a, b)
      [] op = "srai"  -> Sar(a, b)

EmitRegOpW(op, a, b) ==
    CASE op = "addw" -> Movsxd(Low(a) + Low(b))
      [] op = "subw" -> Movsxd(Low(a) - Low(b))
      [] op = "sllw" -> Movsxd(ShlW(a, b % WLEN))
      [] op = "srlw" -> Movsxd(ShrW(a, b % WLEN))
      [] op = "sraw" -> Movsxd(SarW(a, b % WLEN))

EmitImmOpW(op, a, b) ==
    CASE op = "addiw" -> Movsxd(Low(a) + Low(b))
      [] op = "slliw" -> Movsxd(ShlW(a, b))
      [] op = "srliw" -> Movsxd(ShrW(a, b))
      [] op = "sraiw" -> Movsxd(SarW(a, b))

EmitMul(op, a, b) ==
    CASE op = "mul"   -> Wrap(a * b)
      [] op = "mulh"  -> ImulHigh(a, b)
      [] op = "mulhu" -> MulHigh(a, b)
      [] op = "mulw"  -> Movsxd(Low(a) * Low(b))

EmitDiv(op, a, b) ==
    LET overflow == a = MinSigned /\ b = Ones
    IN  CASE op = "div"  -> IF b = 0 THEN Ones ELSE IF overflow THEN a ELSE Idiv(Signed(a), b).q
          [] op = "divu" -> IF b = 0 THEN Ones ELSE Div(a, b).q
          [] op = "rem"  -> IF b = 0 THEN a ELSE IF overflow THEN 0 ELSE Idiv(Signed(a), b).r
          [] op = "remu" -> IF b = 0 THEN a ELSE Div(a, b).r

\* The signed ones extend both operands and divide as 64-bit numbers; the
\* unsigned ones divide edx:eax by ecx.
EmitDivW(op, a, b) ==
    LET x == Movsxd(a)
        y == Movsxd(b)
        overflow == x = Movsxd(MinSignedW) /\ y = Ones
    IN  CASE op = "divw"  -> IF y = 0 THEN Ones
                             ELSE IF overflow THEN x ELSE Movsxd(Idiv(Signed(x), y).q)
          [] op = "divuw" -> IF Low(b) = 0 THEN Ones ELSE Movsxd(Div(Low(a), Low(b)).q)
          [] op = "remw"  -> IF y = 0 THEN x
                             ELSE IF overflow THEN 0 ELSE Movsxd(Idiv(Signed(x), y).r)
          [] op = "remuw" -> IF Low(b) = 0 THEN Movsxd(a) ELSE Movsxd(Div(Low(a), Low(b)).r)

Jcc(op, x, y) ==
    CASE op = "beq"  -> x = y
      [] op = "bne"  -> x # y
      [] op = "blt"  -> Less(x, y)
      [] op = "bge"  -> ~Less(x, y)
      [] op = "bltu" -> Below(x, y)
      [] op = "bgeu" -> ~Below(x, y)

--------------------------------------------------------------------------------
(* A compiled instruction on the register file r15 points to; the slot of  *)
(* x0 is read like any other and must hold 0.                              *)

\* Left to the interpreter (the block ends before it).
Uncompiled == {"mulhsu"}

Store(regs, rd, v) == IF rd # 0 THEN [regs EXCEPT ![rd] = v] ELSE regs

\* imm32 is sign-extended by the instruction that uses it.
Rax(i, regs) ==
    LET a == regs[i.rs1]
        b == regs[i.rs2]
        imm == Wrap(i.imm)
    IN  CASE i.op \in {"add", "sub", "and", "or", "xor", "sll", "srl", "sra", "slt", "sltu"}
                 -> EmitRegOp(i.op, a, b)
          [] i.op \in {"addi", "andi", "ori", "xori", "slti", "sltiu", "slli", "srli", "srai"}
                 -> EmitImmOp(i.op, a, imm)
          [] i.op \in {"addw", "subw", "sllw", "srlw", "sraw"} -> EmitRegOpW(i.op, a, b)
          [] i.op \in {"addiw", "slliw", "srliw", "sraiw"} -> EmitImmOpW(i.op, a, imm)
          [] i.op \in {"mul", "mulh", "mulhu", "mulw"} -> EmitMul(i.op, a, b)
          [] i.op \in {"div", "divu", "rem", "remu"} -> EmitDiv(i.op, a, b)
          [] i.op \in {"divw", "divuw", "remw", "remuw"} -> EmitDivW(i.op, a, b)

\* A load whose callout returned v, not the fault sentinel: the raw value goes to
\* the register's slot, and a signed load reads it back from there with movsx.
Sentinel == Ones                            \* u64::MAX
EmitLoad(i, regs, v) ==
    LET raw == Store(regs, i.rd, v)
        Movsx(n) == Wrap(SignedBits(n, raw[i.rd]))
    IN  CASE i.op = "lb" -> Store(raw, i.rd, Movsx(XLEN \div 8))
          [] i.op = "lh" -> Store(raw, i.rd, Movsx(XLEN \div 4))
          [] i.op = "lw" -> Store(raw, i.rd, Movsx(WLEN))
          [] i.op \in {"lbu", "lhu", "lwu", "ld"} -> raw

EmitUpper(i, regs, pc) ==
    Store(regs, i.rd, IF i.op = "lui" THEN Wrap(i.imm) ELSE Wrap(pc + i.imm))

\* Both targets are constants of the code: there is no check of their low bit.
EmitBranch(i, regs, pc, next) ==
    IF Jcc(i.op, regs[i.rs1], regs[i.rs2]) THEN Wrap(pc + i.imm) ELSE next

EmitJal(i, m, next) ==
    [m EXCEPT !.regs = Store(m.regs, i.rd, next), !.pc = Wrap(m.pc + i.imm)]

\* Faulty variant of EmitJalr: the link is written before the base is read.
EmitJalr_link(i, m, next) ==
    LET regs == Store(m.regs, i.rd, next)
        t    == Wrap(regs[i.rs1] + i.imm)
    IN  [m EXCEPT !.regs = regs, !.pc = t - (t % 2)]

EmitJalr(i, m, next) ==
    LET rcx == m.regs[i.rs1]                \* read before the link is written
        t   == Wrap(rcx + i.imm)
    IN  [m EXCEPT !.regs = Store(m.regs, i.rd, next), !.pc = t - (t % 2)]

\* pc is the address a block that ended here would return; size is 4, and 2 for
\* an instruction of emit_rvc.
Compiled(i, size, m) ==
    LET next == Wrap(m.pc + size)
    IN  CASE i.op \in {"lui", "auipc"} ->
                 [m EXCEPT !.pc = next, !.regs = EmitUpper(i, m.regs, m.pc)]
          [] i.op \in {"beq", "bne", "blt", "bge", "bltu", "bgeu"} ->
                 [m EXCEPT !.pc = EmitBranch(i, m.regs, m.pc, next)]
          [] i.op = "jal"   -> EmitJal(i, m, next)
          [] i.op = "jalr"  -> EmitJalr(i, m, next)
          [] i.op = "fence" -> [m EXCEPT !.pc = next]
          [] OTHER -> [m EXCEPT !.pc = next, !.regs = Store(m.regs, i.rd, Rax(i, m.regs))]
==============================================================================
