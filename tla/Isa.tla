---------------------------------- MODULE Isa ----------------------------------
(***************************************************************************)
(* How the assembler encodes the instructions the guest's code is made of: *)
(* external to the repository, and the other direction of module Decode.   *)
(* One row per opcode and funct7 (or funct5), the operations of a row in   *)
(* the order of their funct3, "-" where there is none.                     *)
(***************************************************************************)
EXTENDS Decode

Row(format, opcode, funct, ops) ==
    [format |-> format, opcode |-> opcode, funct |-> funct, ops |-> ops]

\* funct5, and the two widths.
AmoNames ==
    {<<2, "lr.w", "lr.d">>, <<3, "sc.w", "sc.d">>, <<1, "amoswap.w", "amoswap.d">>,
     <<0, "amoadd.w", "amoadd.d">>, <<4, "amoxor.w", "amoxor.d">>,
     <<12, "amoand.w", "amoand.d">>, <<8, "amoor.w", "amoor.d">>,
     <<16, "amomin.w", "amomin.d">>, <<20, "amomax.w", "amomax.d">>,
     <<24, "amominu.w", "amominu.d">>, <<28, "amomaxu.w", "amomaxu.d">>}

RegRows ==
    { Row("R", 51, 0, <<"add", "sll", "slt", "sltu", "xor", "srl", "or", "and">>),
      Row("R", 51, 1, <<"mul", "mulh", "mulhsu", "mulhu", "div", "divu", "rem", "remu">>),
      Row("R", 51, 32, <<"sub", "-", "-", "-", "-", "sra">>),
      Row("R", 59, 0, <<"addw", "sllw", "-", "-", "-", "srlw">>),
      Row("R", 59, 1, <<"mulw", "-", "-", "-", "divw", "divuw", "remw", "remuw">>),
      Row("R", 59, 32, <<"subw", "-", "-", "-", "-", "sraw">>) }

ImmRows ==
    { Row("I", 19, 0, <<"addi", "-", "slti", "sltiu", "xori", "-", "ori", "andi">>),
      Row("I", 27, 0, <<"addiw">>),
      Row("I", 3, 0, <<"lb", "lh", "lw", "ld", "lbu", "lhu", "lwu">>),
      Row("I", 7, 0, <<"-", "-", "flw", "fld">>),
      Row("I", 103, 0, <<"jalr">>) }

ShiftRows ==
    { Row("shift", 19, 0, <<"-", "slli", "-", "-", "-", "srli">>),
      Row("shift", 19, 32, <<"-", "-", "-", "-", "-", "srai">>),
      Row("shiftw", 27, 0, <<"-", "slliw", "-", "-", "-", "srliw">>),
      Row("shiftw", 27, 32, <<"-", "-", "-", "-", "-", "sraiw">>) }

StoreBranchRows ==
    { Row("S", 35, 0, <<"sb", "sh", "sw", "sd">>),
      Row("S", 39, 0, <<"-", "-", "fsw", "fsd">>),
      Row("B", 99, 0, <<"beq", "bne", "-", "-", "blt", "bge", "bltu", "bgeu">>) }

UpperJumpRows ==
    { Row("U", 55, 0, <<"lui">>), Row("U", 23, 0, <<"auipc">>), Row("J", 111, 0, <<"jal">>) }

SystemRows ==
    { Row("csr", 115, 0, <<"-", "csrrw", "csrrs", "csrrc", "-", "csrrwi", "csrrsi", "csrrci">>),
      Row("priv", 115, 0, <<"ecall">>), Row("priv", 115, 1, <<"ebreak">>),
      Row("priv", 115, 258, <<"sret">>), Row("priv", 115, 770, <<"mret">>),
      Row("priv", 115, 261, <<"wfi">>), Row("priv", 115, 288, <<"sfence.vma">>) }

AmoRows ==
    {Row(IF a[1] = 2 THEN "lr" ELSE "R", 47, 4 * a[1], <<"-", "-", a[2], a[3]>>) : a \in AmoNames}

Rows == RegRows \cup ImmRows \cup ShiftRows \cup StoreBranchRows \cup UpperJumpRows
        \cup SystemRows \cup AmoRows

Ops == {op \in UNION {{r.ops[k] : k \in 1..Len(r.ops)} : r \in Rows} : op # "-"}

\* The row and funct3 of every operation.
Encodings == [op \in Ops |->
    LET row == CHOOSE r \in Rows : \E k \in 1..Len(r.ops) : r.ops[k] = op
    IN  [row |-> row, funct3 |-> (CHOOSE k \in 1..Len(row.ops) : row.ops[k] = op) - 1]]

\* The 32-bit word, read as a signed number, whose fields from the top are
\* these.
Pack(f7, rs2, rs1, f3, rd, opcode) ==
    SignExtend(7, f7) * 2^25 + rs2 * 2^20 + rs1 * 2^15 + f3 * 2^12 + rd * 2^7 + opcode

\* Instruction i, whose operation stands at funct3 in a row of these.
EncodeAs(format, opcode, funct, funct3, i) ==
    LET imm == i.imm
        I(v) == Pack((v % 4096) \div 32, v % 32, i.rs1, funct3, i.rd, opcode)
    IN  CASE format = "R"  -> Pack(funct, i.rs2, i.rs1, funct3, i.rd, opcode)
          [] format = "lr" -> Pack(funct, 0, i.rs1, funct3, i.rd, opcode)
          [] format \in {"I", "csr"} -> I(imm)
          [] format = "priv" -> I(funct)
          [] format \in {"shift", "shiftw"} -> I(funct * 32 + imm)
          [] format = "S" ->
                 Pack((imm % 4096) \div 32, i.rs2, i.rs1, funct3, imm % 32, opcode)
          [] format = "B" ->
                 Pack(64 * Bits(imm, 12, 1) + Bits(imm, 5, 6), i.rs2, i.rs1, funct3,
                      2 * Bits(imm, 1, 4) + Bits(imm, 11, 1), opcode)
          [] format = "U" -> imm + i.rd * 2^7 + opcode
          [] format = "J" ->
                 Pack(64 * Bits(imm, 20, 1) + Bits(imm, 5, 6),
                      2 * Bits(imm, 1, 4) + Bits(imm, 11, 1),
                      Bits(imm, 15, 5), Bits(imm, 12, 3), i.rd, opcode)

Encode(i) ==
    LET e == Encodings[i.op]
    IN  EncodeAs(e.row.format, e.row.opcode, e.row.funct, e.funct3, i)

\* The operand fields a format has, and the immediates it can hold.
Fields(format) ==
    CASE format = "R" -> {"rd", "rs1", "rs2"}
      [] format \in {"S", "B"} -> {"rs1", "rs2"}
      [] format \in {"I", "csr", "shift", "shiftw", "lr"} -> {"rd", "rs1"}
      [] format \in {"U", "J"} -> {"rd"}
      [] format = "priv" -> {}

CanHold(format, imm) ==
    CASE format \in {"I", "S"} -> imm \in -2048..2047
      [] format = "B" -> imm % 2 = 0 /\ imm \in -4096..4094
      [] format = "J" -> imm % 2 = 0 /\ imm \in -(2^20)..(2^20 - 2)
      [] format = "U" -> imm % 4096 = 0 /\ imm \div 4096 \in -(2^19)..(2^19 - 1)
      [] format = "csr" -> imm \in 0..4095
      [] format = "shift"  -> imm \in 0..63
      [] format = "shiftw" -> imm \in 0..31
      [] format \in {"R", "lr", "priv"} -> imm = 0

\* The instructions with registers out of R and immediates out of I.
Field(format, name, R) == IF name \in Fields(format) THEN R ELSE {0}

InstructionsOf(op, format, R, I) ==
    {Ins(op, rd, rs1, rs2, imm) :
         rd \in Field(format, "rd", R), rs1 \in Field(format, "rs1", R),
         rs2 \in Field(format, "rs2", R), imm \in {v \in I : CanHold(format, v)}}

Instructions(R, I) == UNION {InstructionsOf(op, Encodings[op].row.format, R, I) : op \in Ops}

\* The n upper bits of a word.
Top(n, w) == (w \div 2^(32 - n)) % 2^n

\* Word w is an encoding of op: the bits that its format fixes are op's.  Free
\* are the operands, aq and rl of an AMO, and the two hints of SFENCE.VMA.
IsEncoding(op, w) ==
    LET format == Encodings[op].row.format
        opcode == Encodings[op].row.opcode
        funct  == Encodings[op].row.funct
    IN  /\ w % 128 = opcode
        /\ format \notin {"U", "J"} => Bits(w, 12, 3) = Encodings[op].funct3
        /\ opcode = 47 => Top(5, w) = funct \div 4
        /\ format = "R" /\ opcode # 47 => Top(7, w) = funct
        /\ format = "lr" => Bits(w, 20, 5) = 0
        /\ format = "shift"  => Top(6, w) = funct \div 2
        /\ format = "shiftw" => Top(7, w) = funct
        /\ format = "priv" =>
               /\ Bits(w, 7, 5) = 0
               /\ IF op = "sfence.vma" THEN Top(7, w) = funct \div 32
                  ELSE Top(12, w) = funct /\ Bits(w, 15, 5) = 0

FreeBits(op) ==
    CASE Encodings[op].row.opcode = 47 -> {25, 26}
      [] op = "sfence.vma" -> 15..24
      [] OTHER -> {}

\* What a word means: one operation, or none when it is reserved.
Meanings(w) == {op \in Ops : IsEncoding(op, w)}
================================================================================
