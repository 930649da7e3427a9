---------------------------------- MODULE Fp ----------------------------------
(***************************************************************************)
(* The floating-point instructions, src/src/cpu/execute.rs.  A single is   *)
(* the low word of a register whose upper word is all ones (NaN-boxing), a *)
(* double a whole register; formats are as narrow as the registers.        *)
(* Magnitudes are integers, in multiples of the least double.  The host's  *)
(* arithmetic rounds to nearest, ties to even; which NaN it returns is not *)
(* told apart.                                                             *)
(*                                                                         *)
(* A machine is a record [fregs, regs, fs, trapped], fs standing for       *)
(* mstatus.FS.                                                             *)
(***************************************************************************)
EXTENDS Interp, FiniteSets

CONSTANTS SMan, DMan       \* bits of the mantissas of singles and doubles

ASSUME FormatAssumption ==
    SMan \in 1..(WLEN - 2) /\ DMan \in 1..(XLEN - 2) /\ SMan < DMan

ExpBits(bits, man) == bits - 1 - man
LeastExp(bits, man) == 2 - 2^(ExpBits(bits, man) - 1) - man

Single == [bits |-> WLEN, man |-> SMan,
           ulp |-> 2^(LeastExp(WLEN, SMan) - LeastExp(XLEN, DMan))]
Double == [bits |-> XLEN, man |-> DMan, ulp |-> 1]
One == 2^(-LeastExp(XLEN, DMan))

\* Infinity, whose magnitude is the one that would follow the greatest finite.
Inf(f) == 2^(f.bits - 1) - 2^f.man
CanonicalNaN(f) == Inf(f) + 2^(f.man - 1)                    \* f32::NAN

SignBit(f, x)   == x >= 2^(f.bits - 1)
Unsigned(f, x)  == x % 2^(f.bits - 1)
WithSign(f, s, x) == Unsigned(f, x) + (IF s THEN 2^(f.bits - 1) ELSE 0)
Neg(f, x)       == WithSign(f, ~SignBit(f, x), x)
IsNaN(f, x)     == Unsigned(f, x) > Inf(f)
IsInf(f, x)     == Unsigned(f, x) = Inf(f)
IsZero(f, x)    == Unsigned(f, x) = 0
IsSubnormal(f, x) == Unsigned(f, x) \in 1..(2^f.man - 1)
IsNormal(f, x)  == Unsigned(f, x) \in 2^f.man..(Inf(f) - 1)

MagnitudeOf(f, b) ==
    f.ulp * (IF b < 2^f.man THEN b ELSE (2^f.man + (b % 2^f.man)) * 2^(b \div 2^f.man - 1))

\* The number x is, in units of 1/One; of infinity, beyond all finite ones.
Number(f, x) == (IF SignBit(f, x) THEN -1 ELSE 1) * MagnitudeOf(f, Unsigned(f, x))

\* Twice the midpoints between a magnitude and the next.
SingleMidpoints == [b \in 0..(Inf(Single) - 1) |->
                       MagnitudeOf(Single, b) + MagnitudeOf(Single, b + 1)]
DoubleMidpoints == [b \in 0..(Inf(Double) - 1) |->
                       MagnitudeOf(Double, b) + MagnitudeOf(Double, b + 1)]
Midpoints(f) == IF f = Single THEN SingleMidpoints ELSE DoubleMidpoints

\* The float nearest to the n-th root of p/q, for n = 1 or 2.
Nearest(f, n, p, q) ==
    LET mid == Midpoints(f)
    IN  Cardinality({b \in DOMAIN mid :
            \/ mid[b]^n * q < 2^n * p
            \/ mid[b]^n * q = 2^n * p /\ b % 2 = 1})

Rounded(f, p, q) == WithSign(f, p < 0, Nearest(f, 1, Abs(p), q))

\* f32::mul_add: a * b + c, rounded once.
FMulAdd(f, a, b, c) ==
    LET s == SignBit(f, a) # SignBit(f, b)
        infinite == IsInf(f, a) \/ IsInf(f, b)
        exact == Number(f, a) * Number(f, b) + One * Number(f, c)
    IN  CASE \/ \E x \in {a, b, c} : IsNaN(f, x)
             \/ infinite /\ (IsZero(f, a) \/ IsZero(f, b))
             \/ infinite /\ IsInf(f, c) /\ s # SignBit(f, c)
                -> CanonicalNaN(f)
          [] OTHER ->
             IF infinite THEN WithSign(f, s, Inf(f))
             ELSE IF IsInf(f, c) THEN c
             ELSE IF exact = 0 THEN WithSign(f, s /\ SignBit(f, c), 0)
             ELSE Rounded(f, exact, One)

Unit(f) == Nearest(f, 1, One, 1)
FAdd(f, a, b) == FMulAdd(f, a, Unit(f), b)
FMul(f, a, b) == FMulAdd(f, a, b, WithSign(f, SignBit(f, a) # SignBit(f, b), 0))

FDiv(f, a, b) ==
    LET s == SignBit(f, a) # SignBit(f, b)
    IN  IF \/ IsNaN(f, a) \/ IsNaN(f, b)
           \/ IsInf(f, a) /\ IsInf(f, b)
           \/ IsZero(f, a) /\ IsZero(f, b)
        THEN CanonicalNaN(f)
        ELSE IF IsInf(f, a) \/ IsZero(f, b) THEN WithSign(f, s, Inf(f))
        ELSE IF IsInf(f, b) THEN WithSign(f, s, 0)
        ELSE WithSign(f, s, Nearest(f, 1, MagnitudeOf(f, Unsigned(f, a)) * One,
                                          MagnitudeOf(f, Unsigned(f, b))))

FSqrt(f, a) ==
    CASE IsNaN(f, a) \/ (SignBit(f, a) /\ ~IsZero(f, a)) -> CanonicalNaN(f)
      [] IsZero(f, a) \/ a = Inf(f) -> a
      [] OTHER -> Nearest(f, 2, Number(f, a) * One, 1)

--------------------------------------------------------------------------------
(* The helpers of execute.rs.                                              *)

\* The closures fs and fd, sb and db: how a register holds a float.
Boxed(v) == (Ones - (WModulus - 1)) + Low(v)
FromReg(f, v) ==
    IF f = Double THEN v ELSE IF v = Boxed(v) THEN Low(v) ELSE CanonicalNaN(Single)
ToReg(f, x) == IF f = Double THEN x ELSE Boxed(x)

\* fmin_s and fmin_d; of two zeros f32::min may return either.
FMin(f, a, b) ==
    CASE IsNaN(f, a) -> {b}
      [] ~IsNaN(f, a) /\ IsNaN(f, b) -> {a}
      [] ~IsNaN(f, a) /\ ~IsNaN(f, b) ->
         IF IsZero(f, a) /\ IsZero(f, b) THEN IF SignBit(f, a) THEN {a} ELSE {a, b}
         ELSE IF Number(f, a) < Number(f, b) THEN {a} ELSE {b}

FMax(f, a, b) ==
    CASE IsNaN(f, a) -> {b}
      [] ~IsNaN(f, a) /\ IsNaN(f, b) -> {a}
      [] ~IsNaN(f, a) /\ ~IsNaN(f, b) ->
         IF IsZero(f, a) /\ IsZero(f, b) THEN IF SignBit(f, b) THEN {a} ELSE {a, b}
         ELSE IF Number(f, a) > Number(f, b) THEN {a} ELSE {b}

\* fclass_s and fclass_d: the bit they set.
FClass(f, v) ==
    LET signed == SignBit(f, v)
        quiet == (v \div 2^(f.man - 1)) % 2 = 1
    IN  CASE IsNaN(f, v) -> IF quiet THEN 9 ELSE 8
          [] IsInf(f, v) -> IF signed THEN 0 ELSE 7
          [] IsNormal(f, v) -> IF signed THEN 1 ELSE 6
          [] IsSubnormal(f, v) -> IF signed THEN 2 ELSE 5
          [] IsZero(f, v) -> IF signed THEN 3 ELSE 4

\* The targets of `as', by the rs2 field: i32, u32, i64, u64.
Least(k)    == IF k = 0 THEN -MinSignedW ELSE IF k = 2 THEN -MinSigned ELSE 0
Greatest(k) == CASE k = 0 -> MinSignedW - 1 [] k = 1 -> WModulus - 1
                 [] k = 2 -> MinSigned - 1  [] k = 3 -> Ones

\* Faulty variant of ToInteger: converts and then cuts off the upper bits.
ToInteger_wrapped(f, x, k) ==
    IF IsNaN(f, x) THEN 0
    ELSE LET n == Quotient(Number(f, x), One)
         IN  IF k \in {0, 2} THEN SignedBits(IF k = 0 THEN WLEN ELSE XLEN, n)
             ELSE IF k = 1 THEN Low(n) ELSE Wrap(n)

\* A cast to an integer truncates, saturates, and takes NaN to 0.
ToInteger(f, x, k) ==
    IF IsNaN(f, x) THEN 0
    ELSE LET n == Quotient(Number(f, x), One)
         IN  IF n < Least(k) THEN Least(k) ELSE IF n > Greatest(k) THEN Greatest(k) ELSE n

FromInteger(f, v, k) ==
    LET n == CASE k = 0 -> SignedW(v) [] k = 1 -> Low(v) [] k = 2 -> Signed(v) [] k = 3 -> v
    IN  Rounded(f, n * One, 1)

\* A cast from the format g to f.
Resize(f, g, x) ==
    IF IsNaN(g, x) THEN CanonicalNaN(f)
    ELSE IF IsInf(g, x) THEN WithSign(f, SignBit(g, x), Inf(f))
    ELSE WithSign(f, SignBit(g, x), Nearest(f, 1, Abs(Number(g, x)), 1))

--------------------------------------------------------------------------------
(* Execution.  funct7 is an operation and, in its lowest bit, the format.  *)

Format(fmt) == IF fmt = 0 THEN Single ELSE Double
Other(f) == IF f = Single THEN Double ELSE Single

Dirty(m) == [m EXCEPT !.fs = "dirty"]                    \* mstatus |= 0x6000
WriteF(m, f, rd, x) == Dirty([m EXCEPT !.fregs[rd] = ToReg(f, x)])
WriteX(m, rd, v)    == Dirty([m EXCEPT !.regs = SetReg(m.regs, rd, v)])
Trapped(m) == [m EXCEPT !.trapped = TRUE]

\* The operations on floats alone.
FpValues(op, f, a, b) ==
    CASE op = 0  -> {FAdd(f, a, b)}
      [] op = 4  -> {FAdd(f, a, Neg(f, b))}
      [] op = 8  -> {FMul(f, a, b)}
      [] op = 12 -> {FDiv(f, a, b)}
      [] op = 44 -> {FSqrt(f, a)}

\* FSGNJ, FSGNJN, FSGNJX: on the register's low bits, boxed or not.
Injected(f, rm, v, w) ==
    LET a == v % 2^f.bits
        s == SignBit(f, w % 2^f.bits)
    IN  WithSign(f, CASE rm = 0 -> s [] rm = 1 -> ~s [] rm = 2 -> SignBit(f, a) # s, a)

Compare(f, rm, a, b) ==
    /\ ~IsNaN(f, a) /\ ~IsNaN(f, b)
    /\ CASE rm = 0 -> Number(f, a) <= Number(f, b)
         [] rm = 1 -> Number(f, a) < Number(f, b)
         [] rm = 2 -> Number(f, a) = Number(f, b)

\* OpFp: the machines that i may leave.  An illegal rm or rs2 traps; where the
\* trap is not followed by `return', FS still becomes dirty.
OpFp(i, m) ==
    LET f == Format(i.funct7 % 2)
        op == i.funct7 - (i.funct7 % 2)
        v == m.fregs[i.rs1]
        a == FromReg(f, v)
        b == FromReg(f, m.fregs[i.rs2])
    IN  CASE op \in {0, 4, 8, 12, 44} ->
               {WriteF(m, f, i.rd, x) : x \in FpValues(op, f, a, b)}
          [] op = 16 -> IF i.rm > 2 THEN {Trapped(m)}
                        ELSE {WriteF(m, f, i.rd, Injected(f, i.rm, v, m.fregs[i.rs2]))}
          [] op = 20 -> IF i.rm > 1 THEN {Dirty(Trapped(m))}
                        ELSE {WriteF(m, f, i.rd, x) :
                                 x \in IF i.rm = 0 THEN FMin(f, a, b) ELSE FMax(f, a, b)}
          [] op = 32 -> {WriteF(m, f, i.rd, Resize(f, Other(f), FromReg(Other(f), v)))}
          [] op = 80 -> IF i.rm > 2 THEN {Trapped(m)}
                        ELSE {WriteX(m, i.rd, Flag(Compare(f, i.rm, a, b)))}
          [] op = 96 -> IF i.rs2 > 3 THEN {Trapped(m)}
                        ELSE {WriteX(m, i.rd, Wrap(ToInteger(f, a, i.rs2)))}
          [] op = 104 -> IF i.rs2 > 3 THEN {Trapped(m)}
                         ELSE {WriteF(m, f, i.rd, FromInteger(f, m.regs[i.rs1], i.rs2))}
          [] op = 112 -> IF i.rm > 1 THEN {Dirty(Trapped(m))}
                         ELSE {WriteX(m, i.rd, IF i.rm = 1 THEN 2^FClass(f, a)
                                               ELSE IF f = Double THEN v ELSE SextW(v))}
          [] op = 120 -> {WriteF(m, f, i.rd, IF f = Double THEN m.regs[i.rs1]
                                             ELSE Low(m.regs[i.rs1]))}
          [] OTHER -> {Dirty(Trapped(m))}

\* Fma: FMADD, FMSUB, FNMSUB, FNMADD.
FmaOp(i, m) ==
    LET f == Format(i.fmt)
        a == FromReg(f, m.fregs[i.rs1])
        b == FromReg(f, m.fregs[i.rs2])
        c == FromReg(f, m.fregs[i.rs3])
        product == IF i.opcode \in {75, 79} THEN Neg(f, a) ELSE a
        addend  == IF i.opcode \in {71, 79} THEN Neg(f, c) ELSE c
    IN  IF i.fmt > 1 THEN Dirty(Trapped(m))
        ELSE WriteF(m, f, i.rd, FMulAdd(f, product, b, addend))

\* Flw and Fld, given what mmu_load returned, and what Fsw and Fsd store.
FpLoad(fmt, rd, r, m) ==
    IF r.ok THEN WriteF(m, Format(fmt), rd, r.value % 2^Format(fmt).bits) ELSE Trapped(m)
FpStored(fmt, rs, m) == m.fregs[rs] % 2^Format(fmt).bits
================================================================================
