------------------------------ MODULE DecodeRvc ------------------------------
(***************************************************************************)
(* decode_rvc of src/src/cpu/decode.rs: the 16-bit instructions, each as   *)
(* the full instruction it stands for.  Their immediates are scattered     *)
(* over the word; a table of triples <<lo, width, shift>> says where the   *)
(* pieces are and where they go.                                           *)
(***************************************************************************)
EXTENDS Decode, FiniteSetsExt

Gather(w, pieces) == MapThenSumSet(LAMBDA p : Bits(w, p[1], p[2]) * 2^p[3], pieces)

Addi4spnImm == {<<6, 1, 2>>, <<5, 1, 3>>, <<11, 2, 4>>, <<7, 4, 6>>}
WordImm     == {<<6, 1, 2>>, <<10, 3, 3>>, <<5, 1, 6>>}
DoubleImm   == {<<10, 3, 3>>, <<5, 2, 6>>}
Imm6        == {<<12, 1, 5>>, <<2, 5, 0>>}
Addi16spImm == {<<12, 1, 9>>, <<3, 2, 7>>, <<5, 1, 6>>, <<2, 1, 5>>, <<6, 1, 4>>}
LuiImm      == {<<12, 1, 17>>, <<2, 5, 12>>}
JumpImm     == {<<12, 1, 11>>, <<11, 1, 4>>, <<9, 2, 8>>, <<8, 1, 10>>, <<7, 1, 6>>,
                <<6, 1, 7>>, <<3, 3, 1>>, <<2, 1, 5>>}
BranchImm   == {<<12, 1, 8>>, <<10, 2, 3>>, <<5, 2, 6>>, <<3, 2, 1>>, <<2, 1, 5>>}
DoubleSpLoad  == {<<12, 1, 5>>, <<5, 2, 3>>, <<2, 3, 6>>}
WordSpLoad    == {<<12, 1, 5>>, <<4, 3, 2>>, <<2, 2, 6>>}
DoubleSpStore == {<<10, 3, 3>>, <<7, 3, 6>>}
WordSpStore   == {<<9, 4, 2>>, <<7, 2, 6>>}

\* The registers x8-x15 of a three-bit field.
RegP(c, lo) == 8 + Bits(c, lo, 3)
CFunct3(c) == Bits(c, 13, 3)

Quadrant0(c) ==
    LET load(op, pieces)  == Ins(op, RegP(c, 2), RegP(c, 7), 0, Gather(c, pieces))
        store(op, pieces) == Ins(op, 0, RegP(c, 7), RegP(c, 2), Gather(c, pieces))
        uimm == Gather(c, Addi4spnImm)
    IN  CASE CFunct3(c) = 0 -> IF uimm = 0 THEN Illegal ELSE Ins("addi", RegP(c, 2), 2, 0, uimm)
          [] CFunct3(c) = 1 -> load("fld", DoubleImm)
          [] CFunct3(c) = 2 -> load("lw", WordImm)
          [] CFunct3(c) = 3 -> load("ld", DoubleImm)
          [] CFunct3(c) = 5 -> store("fsd", DoubleImm)
          [] CFunct3(c) = 6 -> store("sw", WordImm)
          [] CFunct3(c) = 7 -> store("sd", DoubleImm)
          [] OTHER -> Illegal

C_Addi16spOrLui(c) ==
    LET nzimm == SignExtend(10, Gather(c, Addi16spImm))
        upper == SignExtend(18, Gather(c, LuiImm))
    IN  CASE Rd(c) = 2 -> IF nzimm = 0 THEN Illegal ELSE Ins("addi", 2, 2, 0, nzimm)
          [] Rd(c) = 0 -> Illegal
          [] OTHER     -> IF upper = 0 THEN Illegal ELSE Ins("lui", Rd(c), 0, 0, upper)

C_Arithmetic(c) ==
    LET rd == RegP(c, 7)
        raw == Gather(c, Imm6)
        table == <<"sub", "xor", "or", "and", "subw", "addw">>
        funct2 == Bits(c, 10, 2)
    IN  CASE funct2 = 0 -> Ins("srli", rd, rd, 0, raw)
          [] funct2 = 1 -> Ins("srai", rd, rd, 0, raw)
          [] funct2 = 2 -> Ins("andi", rd, rd, 0, SignExtend(6, raw))
          [] funct2 = 3 -> Look(table, 4 * Bits(c, 12, 1) + Bits(c, 5, 2),
                                LAMBDA op : Ins(op, rd, rd, RegP(c, 2), 0))

Quadrant1(c) ==
    LET imm6 == SignExtend(6, Gather(c, Imm6))
        offset == SignExtend(9, Gather(c, BranchImm))
    IN  CASE CFunct3(c) = 0 -> Ins("addi", Rd(c), Rd(c), 0, imm6)
          [] CFunct3(c) = 1 -> IF Rd(c) = 0 THEN Illegal ELSE Ins("addiw", Rd(c), Rd(c), 0, imm6)
          [] CFunct3(c) = 2 -> Ins("addi", Rd(c), 0, 0, imm6)
          [] CFunct3(c) = 3 -> C_Addi16spOrLui(c)
          [] CFunct3(c) = 4 -> C_Arithmetic(c)
          [] CFunct3(c) = 5 -> Ins("jal", 0, 0, 0, SignExtend(12, Gather(c, JumpImm)))
          [] CFunct3(c) = 6 -> Ins("beq", 0, RegP(c, 7), 0, offset)
          [] CFunct3(c) = 7 -> Ins("bne", 0, RegP(c, 7), 0, offset)

\* C.JR, C.MV, C.EBREAK, C.JALR, C.ADD.  The last arm takes rd # 0 only.
C_JumpOrMove(c) ==
    LET r1 == Rd(c)
        r2 == Bits(c, 2, 5)
    IN  IF Bits(c, 12, 1) = 0
        THEN IF r2 # 0 THEN Ins("add", r1, 0, r2, 0)
             ELSE IF r1 # 0 THEN Ins("jalr", 0, r1, 0, 0) ELSE Illegal
        ELSE IF r2 = 0
             THEN IF r1 = 0 THEN Ins("ebreak", 0, 0, 0, 0) ELSE Ins("jalr", 1, r1, 0, 0)
             ELSE IF r1 # 0 THEN Ins("add", r1, r1, r2, 0) ELSE Illegal

Quadrant2(c) ==
    LET load(op, pieces)  == Ins(op, Rd(c), 2, 0, Gather(c, pieces))
        store(op, pieces) == Ins(op, 0, 2, Bits(c, 2, 5), Gather(c, pieces))
    IN  CASE CFunct3(c) = 0 -> Ins("slli", Rd(c), Rd(c), 0, Gather(c, Imm6))
          [] CFunct3(c) = 1 -> load("fld", DoubleSpLoad)
          [] CFunct3(c) = 2 -> IF Rd(c) = 0 THEN Illegal ELSE load("lw", WordSpLoad)
          [] CFunct3(c) = 3 -> IF Rd(c) = 0 THEN Illegal ELSE load("ld", DoubleSpLoad)
          [] CFunct3(c) = 4 -> C_JumpOrMove(c)
          [] CFunct3(c) = 5 -> store("fsd", DoubleSpStore)
          [] CFunct3(c) = 6 -> store("sw", WordSpStore)
          [] CFunct3(c) = 7 -> store("sd", DoubleSpStore)

decode_rvc(c) ==
    CASE c % 4 = 0 -> Quadrant0(c)
      [] c % 4 = 1 -> Quadrant1(c)
      [] c % 4 = 2 -> Quadrant2(c)
==============================================================================
