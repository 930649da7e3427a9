--------------------------------- MODULE FpIsa ---------------------------------
(***************************************************************************)
(* What the ISA says of floating-point instructions (Unprivileged ISA,     *)
(* chapters 11 and 12), as relations between results.  A query q holds     *)
(* the registers f1, f2, f3 and x1.                                        *)
(***************************************************************************)
EXTENDS Fp

Machine(q) ==
    [fregs |-> <<q.f1, q.f2, q.f3, q.f1>>, regs |-> <<q.x1, 0>>,
     fs |-> "clean", trapped |-> FALSE]

\* The funct7s of OP-FP.
FpCodes == {0, 4, 8, 12, 16, 20, 32, 44, 80, 96, 104, 112, 120}
           \cup {1, 5, 9, 13, 17, 21, 33, 45, 81, 97, 105, 113, 121}

\* The machines after funct7 on the registers 1 and rs2, to register 4 or x2.
After(q, funct7, rs2, rm) ==
    OpFp([funct7 |-> funct7, rs1 |-> 1, rs2 |-> rs2, rm |-> rm,
          rd |-> IF funct7 \in 80..97 \cup 112..113 THEN 2 ELSE 4], Machine(q))

\* The results in the format fmt, and in x2, of the operation op.
FloatsOf(q, op, fmt, rs2, rm) ==
    {FromReg(Format(fmt), m.fregs[4]) : m \in After(q, op + fmt, rs2, rm)}
FloatOf(q, op, fmt, rs2, rm) == CHOOSE x \in FloatsOf(q, op, fmt, rs2, rm) : TRUE
IntOf(q, op, fmt, rs2, rm) ==
    (CHOOSE m \in After(q, op + fmt, rs2, rm) : TRUE).regs[2]

FromInt(q, fmt, k) == FloatOf(q, 104, fmt, k, 0)
ToInt(q, fmt, k) == IntOf(q, 96, fmt, k, 0)
ClassOf(q, fmt) == CHOOSE k \in 0..9 : IntOf(q, 112, fmt, 1, 1) = 2^k

\* f1 and f2 of q as floats of the format.
Arg(q, fmt, r) ==
    LET v == IF r = 1 THEN q.f1 ELSE q.f2
    IN  IF fmt = 1 THEN v ELSE IF v \div WModulus = WModulus - 1 THEN Low(v)
        ELSE CanonicalNaN(Single)

\* A NaN compares with nothing; otherwise exactly one of <, =, > holds.
CompareTotal(q, fmt) ==
    LET swapped == [q EXCEPT !.f1 = q.f2, !.f2 = q.f1]
        le == IntOf(q, 80, fmt, 2, 0)
        lt == IntOf(q, 80, fmt, 2, 1)
        eq == IntOf(q, 80, fmt, 2, 2)
        gt == IntOf(swapped, 80, fmt, 2, 1)
        nan == \E r \in {1, 2} : IsNaN(Format(fmt), Arg(q, fmt, r))
    IN  lt + eq + gt = (IF nan THEN 0 ELSE 1) /\ le = lt + eq

\* FMIN and FMAX return their operands in order, the one that is a number if the
\* other is not, and order -0 before +0; but where the first is +0 and the second
\* -0 for FMIN, or the reverse for FMAX, the host's choice is left.
ExtremesOrdered(q, fmt) ==
    LET f == Format(fmt)
        x == Arg(q, fmt, 1)
        y == Arg(q, fmt, 2)
        numbers == {v \in {x, y} : ~IsNaN(f, v)}
    IN  \A lo \in FloatsOf(q, 20, fmt, 2, 0), hi \in FloatsOf(q, 20, fmt, 2, 1) :
            /\ numbers = {} => IsNaN(f, lo) /\ IsNaN(f, hi)
            /\ numbers # {} => {lo, hi} \subseteq numbers
            /\ \A v \in numbers : Number(f, lo) <= Number(f, v) /\ Number(f, v) <= Number(f, hi)
            /\ IsZero(f, x) /\ IsZero(f, y) =>
                   (SignBit(f, x) => lo = x) /\ (SignBit(f, y) => hi = x)

\* A conversion to an integer is the integer of the target, between 0 and the
\* number, farthest from 0; a NaN, which the ISA takes to the greatest, is taken
\* to 0, and of the unsigned word only the word is compared, since the code does
\* not sign-extend it.
ConvertsTowardZero(q, fmt) ==
    LET x == Arg(q, fmt, 1)
        v == Number(Format(fmt), x)
        Between(n) == (0 <= n * One /\ n * One <= v) \/ (v <= n * One /\ n * One <= 0)
    IN  \A k \in 0..3 :
            LET n == IF k \in {0, 2} THEN Signed(ToInt(q, fmt, k)) ELSE ToInt(q, fmt, k)
            IN  /\ n \in Least(k)..Greatest(k)
                /\ ~IsNaN(Format(fmt), x) =>
                       /\ Between(n)
                       /\ \A j \in Least(k)..Greatest(k) : Between(j) => Abs(j) <= Abs(n)

\* An integer the format holds survives the way there and back, and a single the
\* way through a double.
ConversionsReturn(q, fmt) ==
    /\ \A k \in 0..3 :
           LET back == [q EXCEPT !.f1 = ToReg(Format(fmt), FromInt(q, fmt, k))]
               n == CASE k = 0 -> SignedW(q.x1) [] k = 1 -> Low(q.x1)
                      [] k = 2 -> Signed(q.x1)  [] k = 3 -> q.x1
           IN  Abs(n) <= 2^(Format(fmt).man + 1)
           /\ Abs(n) * One < MagnitudeOf(Format(fmt), Inf(Format(fmt)))
                   => ToInt(back, fmt, k) = Wrap(n)
    /\ LET x == Arg(q, 0, 1)
           there == [q EXCEPT !.f1 = FloatOf(q, 32, 1, 0, 0)]
       IN  IF IsNaN(Single, x) THEN IsNaN(Single, FloatOf(there, 32, 0, 0, 0))
           ELSE FloatOf(there, 32, 0, 0, 0) = x

\* Classes 0 to 7 follow the order of the numbers, and FSGNJN mirrors them; an
\* operand that is not boxed is a quiet NaN to FCLASS, but not to FSGNJN.
ClassesOrdered(q, fmt) ==
    LET f == Format(fmt)
        x == Arg(q, fmt, 1)
        y == Arg(q, fmt, 2)
        negated == [q EXCEPT !.f1 = ToReg(f, FloatOf([q EXCEPT !.f2 = q.f1], 16, fmt, 2, 1))]
        other == [q EXCEPT !.f1 = q.f2]
    IN  IF IsNaN(f, x) THEN ClassOf(q, fmt) \in {8, 9}
        ELSE /\ ClassOf(negated, fmt) = 7 - ClassOf(q, fmt)
             /\ ~IsNaN(f, y) /\ Number(f, x) < Number(f, y) =>
                    ClassOf(q, fmt) <= ClassOf(other, fmt)

\* FNMADD and FNMSUB negate FMADD and FMSUB, but for the sign of a zero, and FMSUB
\* is FMADD of the negated addend.
FusedConsistent(q, fmt) ==
    LET f == Format(fmt)
        R(opcode, p) == FromReg(f, FmaOp([opcode |-> opcode, fmt |-> fmt, rs1 |-> 1,
                                          rs2 |-> 2, rs3 |-> 3, rd |-> 4], Machine(p)).fregs[4])
        Opposite(x, y) == IF IsNaN(f, x) THEN IsNaN(f, y) ELSE Number(f, x) = -Number(f, y)
        c == FromReg(f, q.f3)
    IN  /\ Opposite(R(67, q), R(79, q)) /\ Opposite(R(71, q), R(75, q))
        /\ R(71, q) = R(67, [q EXCEPT !.f3 = ToReg(f, Neg(f, c))])

\* An instruction that writes a float leaves FS dirty, so that a kernel saves it,
\* and a single boxed; one that traps leaves all registers.
WritesSaved(q) ==
    \A funct7 \in FpCodes \cup {2, 127}, rs2 \in {2, 4}, rm \in {0, 3} :
        \A m \in After(q, funct7, rs2, rm) :
            LET before == Machine(q)
            IN  IF m.trapped THEN m.fregs = before.fregs /\ m.regs = before.regs
                ELSE /\ m.fs = "dirty"
                     /\ \/ m.fregs = before.fregs
                        \/ funct7 % 2 = 1 \/ Boxed(m.fregs[4]) = m.fregs[4]

\* What a load brings in a store takes out, and a load marks FS dirty; one that
\* faults leaves the register.
LoadsReturn(q, fmt) ==
    LET m == FpLoad(fmt, 4, [ok |-> TRUE, value |-> q.f1], Machine(q))
    IN  /\ FpStored(fmt, 4, m) = q.f1 % 2^Format(fmt).bits /\ m.fs = "dirty"
        /\ FpLoad(fmt, 4, [ok |-> FALSE], Machine(q)).fregs = Machine(q).fregs
================================================================================
