-------------------------------- MODULE MulDiv --------------------------------
(***************************************************************************)
(* The M extension, src/src/cpu/execute.rs 697-797: what each instruction  *)
(* leaves in rd, from the contents a and b of rs1 and rs2.                 *)
(***************************************************************************)
EXTENDS Words

MulOps   == {"mul", "mulh", "mulhsu", "mulhu", "mulw"}
DivOps   == {"div", "divu", "rem", "remu"}
DivOpsW  == {"divw", "divuw", "remw", "remuw"}

\* `/' and `%' of Rust's signed integers truncate.
Abs(x) == IF x < 0 THEN -x ELSE x
Quotient(x, y)  == (IF (x < 0) = (y < 0) THEN 1 ELSE -1) * (Abs(x) \div Abs(y))

\* Faulty variant of Remainder: never negative.
Remainder_abs(x, y) == Abs(x) % Abs(y)
Remainder(x, y) == x - y * Quotient(x, y)

Multiply(op, a, b) ==
    CASE op = "mul"    -> Wrap(Signed(a) * Signed(b))
      [] op = "mulh"   -> Wrap((Signed(a) * Signed(b)) \div Modulus)
      [] op = "mulhsu" -> Wrap((Signed(a) * b) \div Modulus)
      [] op = "mulhu"  -> (a * b) \div Modulus
      [] op = "mulw"   -> SextW(SignedW(a) * SignedW(b))

Divide(op, a, b) ==
    CASE op = "div"  -> IF b = 0 THEN Ones
                        ELSE IF a = MinSigned /\ b = Ones THEN MinSigned
                        ELSE Wrap(Quotient(Signed(a), Signed(b)))
      [] op = "divu" -> IF b = 0 THEN Ones ELSE a \div b
      [] op = "rem"  -> IF b = 0 THEN a
                        ELSE IF a = MinSigned /\ b = Ones THEN 0
                        ELSE Wrap(Remainder(Signed(a), Signed(b)))
      [] op = "remu" -> IF b = 0 THEN a ELSE a % b

DivideW(op, a, b) ==
    CASE op = "divw"  -> IF Low(b) = 0 THEN Ones
                         ELSE IF Low(a) = MinSignedW /\ SignedW(b) = -1 THEN SextW(MinSignedW)
                         ELSE SextW(Quotient(SignedW(a), SignedW(b)))
      [] op = "divuw" -> IF Low(b) = 0 THEN Ones ELSE SextW(Low(a) \div Low(b))
      [] op = "remw"  -> IF Low(b) = 0 THEN SextW(a)
                         ELSE IF Low(a) = MinSignedW /\ SignedW(b) = -1 THEN 0
                         ELSE SextW(Remainder(SignedW(a), SignedW(b)))
      [] op = "remuw" -> IF Low(b) = 0 THEN SextW(a) ELSE SextW(Low(a) % Low(b))
==============================================================================
