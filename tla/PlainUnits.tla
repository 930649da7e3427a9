------------------------------ MODULE PlainUnits ------------------------------
(***************************************************************************)
(* Pure algorithms of the emulator, each applied to every one of its       *)
(* inputs: the integer instructions, interpreted and compiled, AMOs,       *)
(* memory accesses, CSR instructions and the encoding of instructions.     *)
(* `unit' says which is exercised; it takes an input, returns, and takes   *)
(* the next.  Module Units adds the algorithms that are checked only.      *)
(***************************************************************************)
EXTENDS Interp, Emit, MemAccess, CsrFile, Isa

CONSTANTS
    Boundary,      \* second operands, offsets and immediates
    Corners,       \* operands where the registers vary
    Pcs,           \* where the instructions stand
    PageTables,    \* the translations and sizes of accesses
    AccessVas,
    AccessSizes,
    CsrContents,   \* what CSRs and operands hold
    CsrOperands,
    EncodeRegs,    \* registers and immediates of encoded instructions
    EncodeImms

ASSUME OperandAssumption ==
    /\ Boundary \subseteq Word /\ Corners \subseteq Word
    /\ \A p \in Pcs : p \in Word /\ p % 2 = 0

\* No access is longer than a page.
ASSUME AccessAssumption ==
    /\ AccessVas \subseteq Nat /\ AccessSizes \subseteq 1..PSize
    /\ \A t \in PageTables : \A page \in DOMAIN t : t[page].frame \in Nat

\* mstatus never holds UXL and SXL, which reads put in, nor mepc and sepc bit 0.
ASSUME ContentsAssumption == \A c \in CsrContents : c \cap (UxlSxl \cup {0}) = {}

ASSUME EncodeAssumption == EncodeRegs \subseteq 0..31 /\ EncodeImms \subseteq Int

VARIABLES unit, input

units == <<unit, input>>

NoInput == [none |-> TRUE]

\* An instruction on x1 = a and x2 = b; rs1 and rs2 need not be different.
Operands ==
    [a : Word, b : Boundary, rd : {1}, rs1 : {1}, rs2 : {2}, pc : Pcs]
    \cup [a : Corners, b : Corners, rd : 0..2, rs1 : 0..2, rs2 : 0..2, pc : Pcs]

AtomicInputs == [mem : Word, src : Boundary, ram : BOOLEAN]

Accesses == [table : PageTables, mode : {"M", "S"}, mprv : {0, 1}, mpp : {"M", "S"},
             va : AccessVas, n : AccessSizes]

CsrAccesses == [csr : CsrNames, mode : {"M", "S"}, old : CsrContents, value : CsrOperands]

Give(name, inputs) ==
    /\ unit = name /\ input = NoInput
    /\ input' \in inputs
    /\ UNCHANGED unit

Execution    == Give("execute", Operands)
Atomic       == Give("amo", AtomicInputs)
MemoryAccess == Give("access", Accesses)
CsrAccess    == Give("csr", CsrAccesses)
Encoding     == Give("encode", Instructions(EncodeRegs, EncodeImms))

Return == input # NoInput /\ input' = NoInput /\ UNCHANGED unit

PlainInit == unit \in {"execute", "amo", "access", "csr", "encode"} /\ input = NoInput

PlainNext == Execution \/ Atomic \/ MemoryAccess \/ CsrAccess \/ Encoding \/ Return

PlainSpec == PlainInit /\ [][PlainNext]_units

Given(name) == unit = name /\ input # NoInput

--------------------------------------------------------------------------------
(* Division and multiplication.                                            *)

\* a = b*q + r with a remainder smaller than the divisor and of the dividend's
\* sign; a division by zero gives all ones and the dividend.
Divides(bits, a, b, q, r) ==
    IF b = 0 THEN q = -1 /\ r = a
    ELSE /\ (b * q + r) % 2^bits = a % 2^bits
         /\ Abs(r) < Abs(b)
         /\ r # 0 => (r < 0) = (a < 0)
         /\ ~(a = -(2^(bits - 1)) /\ b = -1) => b * q + r = a

DividesUnsigned(bits, a, b, q, r) ==
    IF b = 0 THEN q = 2^bits - 1 /\ r = a ELSE b * q + r = a /\ r \in 0..(b - 1)

\* Division and multiplication are those of the integers, with the overflow and
\* the zero divisor of the ISA: quotient and remainder belong together, the upper
\* and the lower half are halves of one product, and the W forms do so on the low
\* words and sign-extend (execute.rs 681-797).
DivisionAndProduct ==
    Given("execute") =>
        LET a == input.a
            b == input.b
        IN  /\ Divides(XLEN, Signed(a), Signed(b),
                       Signed(Divide("div", a, b)), Signed(Divide("rem", a, b)))
            /\ DividesUnsigned(XLEN, a, b, Divide("divu", a, b), Divide("remu", a, b))
            /\ Divides(WLEN, SignedW(a), SignedW(b),
                       Signed(DivideW("divw", a, b)), Signed(DivideW("remw", a, b)))
            /\ DividesUnsigned(WLEN, Low(a), Low(b),
                               Low(DivideW("divuw", a, b)), Low(DivideW("remuw", a, b)))
            /\ \A op \in DivOpsW : DivideW(op, a, b) = SextW(DivideW(op, a, b))
            /\ LET low == Multiply("mul", a, b)
               IN  /\ Signed(a) * Signed(b) = Signed(Multiply("mulh", a, b)) * Modulus + low
                   /\ Signed(a) * b = Signed(Multiply("mulhsu", a, b)) * Modulus + low
                   /\ a * b = Multiply("mulhu", a, b) * Modulus + low
                   /\ Multiply("mulw", a, b) = SextW(low)

--------------------------------------------------------------------------------
(* Instructions: the interpreter and the compiler.                         *)

\* A decoded immediate is sign-extended; offsets are even, shift amounts small.
Immediate(op, b) ==
    CASE op \in ShiftOps  -> b % XLEN
      [] op \in ShiftOpsW -> b % WLEN
      [] op \in Branches \cup {"jal"} -> Signed(b - (b % 2))
      [] OTHER -> Signed(b)

Supported == (BinaryOps \ Uncompiled) \cup ImmediateOps \cup Branches
             \cup {"lui", "auipc", "jal", "jalr", "fence"}

\* The instruction and the machine of an input.
TheInstruction(op) ==
    [op |-> op, rd |-> input.rd, rs1 |-> input.rs1, rs2 |-> input.rs2,
     imm |-> Immediate(op, input.b)]
TheMachine ==
    [regs |-> [r \in 0..2 |-> <<0, input.a, input.b>>[r + 1]], pc |-> input.pc,
     trapped |-> FALSE]

\* A block does to registers and pc what the interpreter does, for 4-byte and
\* 2-byte instructions: divisions never reach a #DE of the host, flags and masked
\* shifts mean what the ISA means, loads are extended alike, jalr reads its base
\* before it writes the link even when they are one register, and x0 stays 0
\* (jit.rs 588-1502 against execute.rs 137-285, 500-573 and 697-794).
CompiledAgrees ==
    Given("execute") =>
        /\ \A op \in Supported, size \in {2, 4} :
               Compiled(TheInstruction(op), size, TheMachine)
                 = Execute(TheInstruction(op), size, TheMachine)
        /\ \A op \in Loads :
               LET v == input.a % 2^LoadBits(op)
               IN  v # Sentinel =>
                       EmitLoad(TheInstruction(op), TheMachine.regs, v)
                         = SetReg(TheMachine.regs, input.rd, LoadValue(op, v))

\* v is what an AMO on operands x and y of n bits stores.
Updates(op, n, x, y, v) ==
    /\ v \in 0..(2^n - 1)
    /\ CASE op = "amoswap" -> v = y
         [] op = "amoadd"  -> v = (x + y) % 2^n
         [] op = "amoand"  -> BitsOf(v) = BitsOf(x) \cap BitsOf(y)
         [] op = "amoor"   -> BitsOf(v) = BitsOf(x) \cup BitsOf(y)
         [] op = "amoxor"  -> \A k \in 0..(XLEN - 1) :
                                  Bit(v, k) = 1 <=> (Bit(x, k) = 1) # (Bit(y, k) = 1)
         [] op = "amomin"  -> /\ v \in {x, y}
                              /\ \A u \in {x, y} : SignedBits(n, v) <= SignedBits(n, u)
         [] op = "amomax"  -> /\ v \in {x, y}
                              /\ \A u \in {x, y} : SignedBits(n, v) >= SignedBits(n, u)
         [] op = "amominu" -> v \in {x, y} /\ v <= x /\ v <= y
         [] op = "amomaxu" -> v \in {x, y} /\ v >= x /\ v >= y

\* An AMO returns what memory held, a word sign-extended, and replaces it by the
\* result on operands of its own width: a W form compares words, not the
\* sign-extended registers, and leaves the rest of the doubleword alone.  Where
\* the bus refuses the access the code reads 0 and stores nothing (execute.rs
\* 847-1014).
AmoCorrect ==
    Given("amo") => \A op \in AmoOps :
        LET d == Amo(op, "d", input.mem, input.src, input.ram)
            w == Amo(op, "w", input.mem, input.src, input.ram)
            m == input.mem
        IN  IF input.ram
            THEN /\ d.rd = m /\ Updates(op, XLEN, m, input.src, d.mem)
                 /\ w.rd = SextW(m) /\ w.mem \div WModulus = m \div WModulus
                 /\ Updates(op, WLEN, Low(m), Low(input.src), Low(w.mem))
            ELSE d = [rd |-> 0, mem |-> m] /\ w = d

--------------------------------------------------------------------------------
(* CSR instructions.                                                       *)

\* Whatever a CSR instruction is given, it changes the named register alone, in
\* the bits its operand names, and never through a supervisor's view a bit that
\* is the machine's; csrrs and csrrc write back what they read, so a mask
\* forgotten in read or write would leak hardwired or pending bits (csr.rs
\* 54-178, execute.rs 627-696).
CsrViewsIsolated ==
    Given("csr") =>
        LET s == [r \in Registers |-> input.old]
        IN  \A op \in {"w", "s", "c"}, rd0, src0 \in BOOLEAN :
                (src0 => input.value = {}) =>
                    AccessIsolated([op |-> op, csr |-> input.csr, rd0 |-> rd0, src0 |-> src0],
                                   input.mode, s, input.value)

--------------------------------------------------------------------------------
(* Memory accesses.                                                        *)

\* The value a store of n bytes writes.
Payload == [k \in 1..input.n |-> 100 + k]

\* A load or store reads and writes the bytes that its pages, translated one by
\* one, say it should; a page fault on either page is taken before any byte is
\* touched, with that page's address (execute.rs 54-123).
AccessTranslated ==
    Given("access") => LoadTranslated(input) /\ StoreTranslated(input, Payload)

FetchOf(q) == [q EXCEPT !.n = 4]

\* A compiled access or a compiled instruction word is the interpreter's, refused
\* ones included, since those are repeated by the step; but for accesses under
\* MPRV, and across pages that are not neighbours in memory (jit.rs 17-135,
\* 775-785).
CompiledAccessAgrees ==
    Given("access") =>
        /\ Excepted(input, "load") \/
               CompiledLoad(input) = mmu_load(input.table, ls_mode(input), input.va, input.n)
        /\ Excepted(input, "store") \/
               CompiledStore(input, Payload)
                 = mmu_store(input.table, ls_mode(input), input.va, Payload)
        /\ input.va % 2 = 1 \/ Excepted(FetchOf(input), "fetch") \/
               CompiledFetch(input) = fetch(input.table, input.mode, input.va)

--------------------------------------------------------------------------------
(* Encodings.                                                              *)

\* Every instruction of the ISA comes out of its encoding with its operation,
\* its registers and its immediate, wherever the format scatters the bits
\* (decode.rs 146-390).
DecodeInvertsEncode == Given("encode") => Decode(Encode(input)) = input
===============================================================================
