------------------------------- MODULE Decode -------------------------------
(***************************************************************************)
(* decode and decode_rvc of src/src/cpu/decode.rs.  A 32-bit word is the   *)
(* signed integer its bits spell; an instruction is a record [op, rd, rs1, *)
(* rs2, imm] with 0 in the fields it does not have.                        *)
(***************************************************************************)
EXTENDS Integers, Sequences

Bits(w, lo, n) == (w \div 2^lo) % 2^n
Bit31(w) == IF w < 0 THEN 1 ELSE 0
SignExtend(n, v) == IF v % 2^n >= 2^(n - 1) THEN (v % 2^n) - 2^n ELSE v % 2^n

Rd(w)  == Bits(w, 7, 5)
Rs1(w) == Bits(w, 15, 5)
Rs2(w) == Bits(w, 20, 5)
Funct3(w) == Bits(w, 12, 3)

\* Faulty variant of Funct7: only the bits in use are looked at.
Funct7_loose(w) == Bits(w, 25, 1) + 32 * Bits(w, 30, 1)

Funct7(w) == Bits(w, 25, 6) + 64 * Bit31(w)

i_imm(w) == w \div 2^20

\* Faulty variant of s_imm: not sign-extended.
s_imm_unsigned(w) == Funct7(w) * 32 + Rd(w)
s_imm(w) == SignExtend(12, Funct7(w) * 32 + Rd(w))
u_imm(w) == w - (w % 2^12)
b_imm(w) == SignExtend(13, Bit31(w) * 2^12 + Bits(w, 7, 1) * 2^11
                           + Bits(w, 25, 6) * 2^5 + Bits(w, 8, 4) * 2)
j_imm(w) == SignExtend(21, Bit31(w) * 2^20 + Bits(w, 12, 8) * 2^12
                           + Bits(w, 20, 1) * 2^11 + Bits(w, 21, 10) * 2)

Ins(op, rd, rs1, rs2, imm) ==
    [op |-> op, rd |-> rd, rs1 |-> rs1, rs2 |-> rs2, imm |-> imm]
Illegal == Ins("illegal", 0, 0, 0, 0)

\* The operation of a row, by number; Build fills in the operands.  "-" is none.
Look(ops, n, Build(_)) ==
    IF n < Len(ops) /\ ops[n + 1] # "-" THEN Build(ops[n + 1]) ELSE Illegal

--------------------------------------------------------------------------------
(* decode.  Rows are in the order of funct3.                               *)

RegTable(funct7) ==                                  \* 0x33
    CASE funct7 = 0  -> <<"add", "sll", "slt", "sltu", "xor", "srl", "or", "and">>
      [] funct7 = 1  -> <<"mul", "mulh", "mulhsu", "mulhu", "div", "divu", "rem", "remu">>
      [] funct7 = 32 -> <<"sub", "-", "-", "-", "-", "sra">>
      [] OTHER -> <<>>

RegTableW(funct7) ==                                 \* 0x3B
    CASE funct7 = 0  -> <<"addw", "sllw", "-", "-", "-", "srlw">>
      [] funct7 = 1  -> <<"mulw", "-", "-", "-", "divw", "divuw", "remw", "remuw">>
      [] funct7 = 32 -> <<"subw", "-", "-", "-", "-", "sraw">>
      [] OTHER -> <<>>

ImmTable   == <<"addi", "-", "slti", "sltiu", "xori", "-", "ori", "andi">>        \* 0x13

LoadTable  == <<"lb", "lh", "lw", "ld", "lbu", "lhu", "lwu">>
StoreTable == <<"sb", "sh", "sw", "sd">>
FLoadTable  == <<"-", "-", "flw", "fld">>
FStoreTable == <<"-", "-", "fsw", "fsd">>

BranchTable == <<"beq", "bne", "-", "-", "blt", "bge", "bltu", "bgeu">>

\* By funct5; bit 0 of funct3 chooses W or D, the rest of funct3 is not looked at.
AtomicTable(f5) ==
    CASE f5 = 2  -> <<"lr.w", "lr.d">>
      [] f5 = 3  -> <<"sc.w", "sc.d">>
      [] f5 = 1  -> <<"amoswap.w", "amoswap.d">>
      [] f5 = 0  -> <<"amoadd.w", "amoadd.d">>
      [] f5 = 4  -> <<"amoxor.w", "amoxor.d">>
      [] f5 = 12 -> <<"amoand.w", "amoand.d">>
      [] f5 = 8  -> <<"amoor.w", "amoor.d">>
      [] f5 = 16 -> <<"amomin.w", "amomin.d">>
      [] f5 = 20 -> <<"amomax.w", "amomax.d">>
      [] f5 = 24 -> <<"amominu.w", "amominu.d">>
      [] f5 = 28 -> <<"amomaxu.w", "amomaxu.d">>
      [] OTHER -> <<>>

CsrTable == <<"-", "csrrw", "csrrs", "csrrc", "-", "csrrwi", "csrrsi", "csrrci">>

\* By the CSR number.
PrivTable(csr) ==
    CASE csr = 0   -> "ecall"
      [] csr = 1   -> "ebreak"
      [] csr = 258 -> "sret"
      [] csr = 770 -> "mret"
      [] csr = 261 -> "wfi"
      [] OTHER -> "-"

DecodeReg(w, table) ==
    Look(table, Funct3(w), LAMBDA op : Ins(op, Rd(w), Rs1(w), Rs2(w), 0))

DecodeLoad(w, table) ==
    Look(table, Funct3(w), LAMBDA op : Ins(op, Rd(w), Rs1(w), 0, i_imm(w)))

DecodeStore(w, table) ==
    Look(table, Funct3(w), LAMBDA op : Ins(op, 0, Rs1(w), Rs2(w), s_imm(w)))

\* Shifts take bit 30 to choose between the right ones; the other bits above
\* the amount are not looked at.
Shifts(w, left, logical, arithmetic, amount) ==
    LET op == IF Funct3(w) = 1 THEN left
              ELSE IF Bits(w, 30, 1) = 0 THEN logical ELSE arithmetic
    IN  Ins(op, Rd(w), Rs1(w), 0, Bits(w, 20, amount))

DecodeImm(w) ==
    IF Funct3(w) \in {1, 5} THEN Shifts(w, "slli", "srli", "srai", 6)
    ELSE Ins(ImmTable[Funct3(w) + 1], Rd(w), Rs1(w), 0, i_imm(w))

DecodeImmW(w) ==
    IF Funct3(w) = 0 THEN Ins("addiw", Rd(w), Rs1(w), 0, i_imm(w))
    ELSE IF Funct3(w) \in {1, 5} THEN Shifts(w, "slliw", "srliw", "sraiw", 5)
    ELSE Illegal

\* lr has no rs2 field of its own.
DecodeAtomic(w) ==
    Look(AtomicTable(Bits(w, 27, 4) + 16 * Bit31(w)), Funct3(w) % 2, LAMBDA op :
         Ins(op, Rd(w), Rs1(w), IF op \in {"lr.w", "lr.d"} THEN 0 ELSE Rs2(w), 0))

\* The CSR number is in imm; an immediate form has its value in rs1.
DecodeSystem(w) ==
    LET csr == Bits(w, 20, 11) + 2048 * Bit31(w)
    IN  IF Funct3(w) # 0
        THEN Look(CsrTable, Funct3(w), LAMBDA op : Ins(op, Rd(w), Rs1(w), 0, csr))
        ELSE IF Rd(w) # 0 THEN Illegal
        ELSE IF Rs1(w) = 0 /\ PrivTable(csr) # "-" THEN Ins(PrivTable(csr), 0, 0, 0, 0)
        ELSE IF csr \div 32 = 9 THEN Ins("sfence.vma", 0, 0, 0, 0) ELSE Illegal

\* The floating-point arithmetic of 0x53 and 0x43-0x4F is one op each here.
DecodeAs(opcode, w) ==
    CASE opcode = 51  -> DecodeReg(w, RegTable(Funct7(w)))
      [] opcode = 59  -> DecodeReg(w, RegTableW(Funct7(w)))
      [] opcode = 19  -> DecodeImm(w)
      [] opcode = 27  -> DecodeImmW(w)
      [] opcode = 3   -> DecodeLoad(w, LoadTable)
      [] opcode = 7   -> DecodeLoad(w, FLoadTable)
      [] opcode = 35  -> DecodeStore(w, StoreTable)
      [] opcode = 39  -> DecodeStore(w, FStoreTable)
      [] opcode = 99  -> Look(BranchTable, Funct3(w), LAMBDA op :
                              Ins(op, 0, Rs1(w), Rs2(w), b_imm(w)))
      [] opcode = 111 -> Ins("jal", Rd(w), 0, 0, j_imm(w))
      [] opcode = 103 -> Ins("jalr", Rd(w), Rs1(w), 0, i_imm(w))
      [] opcode = 55  -> Ins("lui", Rd(w), 0, 0, u_imm(w))
      [] opcode = 23  -> Ins("auipc", Rd(w), 0, 0, u_imm(w))
      [] opcode = 47  -> DecodeAtomic(w)
      [] opcode = 15  -> Ins("fence", 0, 0, 0, 0)
      [] opcode = 115 -> DecodeSystem(w)
      [] opcode = 83  -> Ins("op-fp", Rd(w), Rs1(w), Rs2(w), 0)
      [] opcode \in {67, 71, 75, 79} -> Ins("fma", Rd(w), Rs1(w), Rs2(w), 0)
      [] OTHER -> Illegal

Decode(w) == DecodeAs(w % 128, w)
==============================================================================
