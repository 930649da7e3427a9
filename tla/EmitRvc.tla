------------------------------- MODULE EmitRvc -------------------------------
(***************************************************************************)
(* emit_rvc of src/src/jit.rs 155-523, which decodes the 16-bit            *)
(* instructions a second time.  An emission is a class and the instruction *)
(* whose code (module Emit) it emits; `none' emits nothing.                *)
(***************************************************************************)
EXTENDS Decode

Part(r, lo, n) == (r \div 2^lo) % 2^n
Reg3(r, lo) == Part(r, lo, 3) + 8
Reg5(r, lo) == Part(r, lo, 5)

sign_ext(v, n) == IF v >= 2^(n - 1) THEN v - 2^n ELSE v

\* Faulty variant of rvc_j_imm: bits 6 and 7 of the offset are swapped.
rvc_j_imm_swapped(r) ==
    sign_ext(Part(r, 12, 1) * 2^11 + Part(r, 11, 1) * 2^4 + Part(r, 9, 2) * 2^8
             + Part(r, 8, 1) * 2^10 + Part(r, 6, 2) * 2^6
             + Part(r, 3, 3) * 2 + Part(r, 2, 1) * 2^5, 12)

rvc_j_imm(r) ==
    sign_ext(Part(r, 12, 1) * 2^11 + Part(r, 11, 1) * 2^4 + Part(r, 9, 2) * 2^8
             + Part(r, 8, 1) * 2^10 + Part(r, 7, 1) * 2^6 + Part(r, 6, 1) * 2^7
             + Part(r, 3, 3) * 2 + Part(r, 2, 1) * 2^5, 12)

rvc_b_imm(r) ==
    sign_ext(Part(r, 12, 1) * 2^8 + Part(r, 10, 2) * 2^3 + Part(r, 5, 2) * 2^6
             + Part(r, 3, 2) * 2 + Part(r, 2, 1) * 2^5, 9)

Shamt(r)  == Part(r, 12, 1) * 2^5 + Part(r, 2, 5)
SImm6(r)  == sign_ext(Shamt(r), 6)
Offset8(r) == Part(r, 10, 3) * 2^3 + Part(r, 5, 2) * 2^6        \* C.LD, C.SD

Seq1(i)     == [class |-> "seq", code |-> i]
Terminal(i) == [class |-> "terminal", code |-> i]
None      == Ins("none", 0, 0, 0, 0)
Hint      == Seq1(None)                          \* Seq without code
Unhandled == [class |-> "unhandled", code |-> None]

EmitQuadrant0(r) ==
    LET uimm == Part(r, 11, 2) * 2^4 + Part(r, 7, 4) * 2^6 + Part(r, 6, 1) * 2^2
                + Part(r, 5, 1) * 2^3
        f3 == Part(r, 13, 3)
    IN  CASE f3 = 0 -> IF uimm = 0 THEN Unhandled ELSE Seq1(Ins("addi", Reg3(r, 2), 2, 0, uimm))
          [] f3 = 3 -> Seq1(Ins("ld", Reg3(r, 2), Reg3(r, 7), 0, Offset8(r)))
          [] f3 = 7 -> Seq1(Ins("sd", 0, Reg3(r, 7), Reg3(r, 2), Offset8(r)))
          [] OTHER  -> Unhandled

EmitAddi16spOrLui(r) ==
    LET nzimm == sign_ext(Part(r, 12, 1) * 2^9 + Part(r, 3, 2) * 2^7 + Part(r, 5, 1) * 2^6
                          + Part(r, 2, 1) * 2^5 + Part(r, 6, 1) * 2^4, 10)
        rd == Reg5(r, 7)
    IN  IF rd = 2
        THEN IF nzimm = 0 THEN Unhandled ELSE Seq1(Ins("addi", 2, 2, 0, nzimm))
        ELSE IF rd = 0 \/ SImm6(r) = 0 THEN Unhandled
        ELSE Seq1(Ins("lui", rd, 0, 0, SImm6(r) * 2^12))

EmitArithmetic(r) ==
    LET rd == Reg3(r, 7)
        op2 == Part(r, 10, 2)
        sel == Part(r, 5, 2)
        binary(op) == Seq1(Ins(op, rd, rd, Reg3(r, 2), 0))
    IN  CASE op2 = 0 -> Seq1(Ins("srli", rd, rd, 0, Shamt(r)))
          [] op2 = 1 -> Seq1(Ins("srai", rd, rd, 0, Shamt(r)))
          [] op2 = 2 -> Seq1(Ins("andi", rd, rd, 0, SImm6(r)))
          [] op2 = 3 /\ Part(r, 12, 1) = 0 -> binary(<<"sub", "xor", "or", "and">>[sel + 1])
          [] op2 = 3 /\ Part(r, 12, 1) = 1 ->
                 IF sel < 2 THEN binary(<<"subw", "addw">>[sel + 1]) ELSE Unhandled

EmitQuadrant1(r) ==
    LET rd == Reg5(r, 7)
        f3 == Part(r, 13, 3)
    IN  CASE f3 = 0 -> IF rd = 0 THEN Hint ELSE Seq1(Ins("addi", rd, rd, 0, SImm6(r)))
          [] f3 = 1 -> IF rd = 0 THEN Unhandled ELSE Seq1(Ins("addiw", rd, rd, 0, SImm6(r)))
          [] f3 = 2 -> IF rd = 0 THEN Hint ELSE Seq1(Ins("addi", rd, 0, 0, SImm6(r)))
          [] f3 = 3 -> EmitAddi16spOrLui(r)
          [] f3 = 4 -> EmitArithmetic(r)
          [] f3 = 5 -> Terminal(Ins("jal", 0, 0, 0, rvc_j_imm(r)))
          [] f3 = 6 -> Terminal(Ins("beq", 0, Reg3(r, 7), 0, rvc_b_imm(r)))
          [] f3 = 7 -> Terminal(Ins("bne", 0, Reg3(r, 7), 0, rvc_b_imm(r)))

\* C.JR, C.MV, C.JALR, C.ADD; C.EBREAK goes to the interpreter.
EmitJumpOrMove(r) ==
    LET r1 == Reg5(r, 7)
        r2 == Reg5(r, 2)
    IN  CASE Part(r, 12, 1) = 0 /\ r2 = 0 ->
                 IF r1 = 0 THEN Unhandled ELSE Terminal(Ins("jalr", 0, r1, 0, 0))
          [] Part(r, 12, 1) = 0 /\ r2 # 0 ->
                 IF r1 = 0 THEN Hint ELSE Seq1(Ins("add", r1, 0, r2, 0))
          [] Part(r, 12, 1) = 1 /\ r2 = 0 ->
                 IF r1 = 0 THEN Unhandled ELSE Terminal(Ins("jalr", 1, r1, 0, 0))
          [] Part(r, 12, 1) = 1 /\ r2 # 0 ->
                 IF r1 = 0 THEN Hint ELSE Seq1(Ins("add", r1, r1, r2, 0))

EmitQuadrant2(r) ==
    LET rd == Reg5(r, 7)
        f3 == Part(r, 13, 3)
        load  == Part(r, 12, 1) * 2^5 + Part(r, 5, 2) * 2^3 + Part(r, 2, 3) * 2^6
        store == Part(r, 10, 3) * 2^3 + Part(r, 7, 3) * 2^6
    IN  CASE f3 = 0 -> IF rd = 0 THEN Hint ELSE Seq1(Ins("slli", rd, rd, 0, Shamt(r)))
          [] f3 = 3 -> IF rd = 0 THEN Unhandled ELSE Seq1(Ins("ld", rd, 2, 0, load))
          [] f3 = 4 -> EmitJumpOrMove(r)
          [] f3 = 7 -> Seq1(Ins("sd", 0, 2, Reg5(r, 2), store))
          [] OTHER  -> Unhandled

emit_rvc(r) ==
    CASE r % 4 = 0 -> EmitQuadrant0(r)
      [] r % 4 = 1 -> EmitQuadrant1(r)
      [] r % 4 = 2 -> EmitQuadrant2(r)
==============================================================================
