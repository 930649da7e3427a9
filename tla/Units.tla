--------------------------------- MODULE Units ---------------------------------
(***************************************************************************)
(* All the algorithms of the emulator that are checked input by input,     *)
(* those of module PlainUnits and the others, and two small machines that  *)
(* share no state with anything else here: the UART's transmit matchers    *)
(* and the LR/SC reservation.                                              *)
(***************************************************************************)
EXTENDS PlainUnits, DecodeRvc, EmitRvc, UartTx, Reservation, FpIsa

CONSTANTS
    Opcodes,       \* opcodes and the funct7s of the decoded words
    Funct7s,
    FpCorners,     \* second and third operands of floating-point instructions
    FpAddends

\* A 32-bit word with operand fields that tell the registers
\* apart; those of the privileged instructions are zero or part of the code, and
\* LR's second one is zero.
Words32 ==
    {Pack(f7, 3, 5, f3, rd, opcode) :
        f7 \in Funct7s, f3 \in 0..7, rd \in {0, 9}, opcode \in Opcodes}
    \cup {Pack(f7, rs2, rs1, f3, rd, 115) :
        f7 \in Funct7s, rs2 \in {0, 1, 2, 5}, rs1 \in {0, 5}, f3 \in {0, 4}, rd \in {0, 9}}
    \cup {Pack(f7, 0, 5, f3, 9, 47) : f7 \in Funct7s, f3 \in 0..7}

UnitNames == {"execute", "amo", "encode", "decode", "rvc", "access", "csr", "fp",
              "uart", "lrsc"}

Init ==
    /\ unit \in UnitNames /\ input = NoInput
    /\ TxInit /\ ResInit

Decoding  == Give("decode", [word : Words32])
RvcDecoding == Give("rvc", [word : {c \in 0..65535 : c % 4 # 3}])
FpOperation == Give("fp", [f1 : Word, f2 : FpCorners, f3 : {0}, x1 : {1}]
                          \cup [f1 : {0}, f2 : {0}, f3 : {0}, x1 : Word])

\* The terminal session is over when the bound is reached.
Transmit ==
    /\ unit = "uart"
    /\ TxNext \/ (Len(sent) = MaxSent /\ UNCHANGED txVars)
    /\ UNCHANGED units /\ UNCHANGED resVars

Count == unit = "lrsc" /\ ResNext /\ UNCHANGED units /\ UNCHANGED txVars

Next ==
    \/ /\ PlainNext \/ Decoding \/ RvcDecoding \/ FpOperation
       /\ UNCHANGED txVars /\ UNCHANGED resVars
    \/ Transmit \/ Count

Spec == Init /\ [][Next]_<<units, txVars, resVars>>

--------------------------------------------------------------------------------
(* Floating point.                                                         *)

\* The results of floating-point instructions fit together as the ISA says, for
\* NaNs, infinities, subnormals, zeros of both signs and singles that are not
\* boxed: comparison and extremes are one order, conversions truncate, saturate
\* and return, classes follow the order, the fused operations negate each other,
\* and what is written is boxed and marked for saving (execute.rs 13-52
\* and 330-498).
FpFollowsIsa ==
    Given("fp") =>
        /\ WritesSaved(input)
        /\ \A fmt \in {0, 1} :
               /\ CompareTotal(input, fmt)
               /\ ExtremesOrdered(input, fmt)
               /\ ConvertsTowardZero(input, fmt)
               /\ ConversionsReturn(input, fmt)
               /\ ClassesOrdered(input, fmt)
               /\ LoadsReturn(input, fmt)
               /\ \A c \in FpAddends : FusedConsistent([input EXCEPT !.f3 = c], fmt)

--------------------------------------------------------------------------------
(* Encodings.                                                              *)

\* The decoder takes these opcodes whole: FENCE, and floating-point arithmetic.
TakenWhole == {15, 67, 71, 75, 79, 83}

\* The reserved words the decoder accepts, each for the word with the bits that
\* make it reserved replaced: JALR with a funct3 (decode.rs:329); LR, SC and AMOs
\* of a width other than 2 and 3, by its lowest bit, and LR with an rs2 (337-340);
\* shifts with bits set above the amount, bit 30 of the right ones apart (235-243,
\* and 250-258 for words).
AcceptedAs(w) ==
    LET opcode == w % 128
        f3 == Bits(w, 12, 3)
        right == 32 * Bits(w, 30, 1)
        With(funct7, rs2, funct3) ==
            Pack(funct7, rs2, Bits(w, 15, 5), funct3, Bits(w, 7, 5), opcode)
        rs2 == Bits(w, 20, 5)
    IN  CASE opcode = 103 -> With(Top(7, w), rs2, 0)
          [] opcode = 47 -> With(Top(7, w), IF Top(5, w) = 2 THEN 0 ELSE rs2, 2 + (f3 % 2))
          [] opcode = 19 /\ f3 = 1 -> With(Bits(w, 25, 1), rs2, 1)
          [] opcode = 19 /\ f3 = 5 -> With(right + Bits(w, 25, 1), rs2, 5)
          [] opcode = 27 /\ f3 = 1 -> With(0, rs2, 1)
          [] opcode = 27 /\ f3 = 5 -> With(right, rs2, 5)
          [] OTHER -> w

\* Instruction i is what v encodes, operands included.
Spells(v, i) ==
    /\ i.op \in Meanings(v)
    /\ LET w == Encode(i)
       IN  /\ Bit31(v) = Bit31(w)
           /\ \A k \in (0..30) \ FreeBits(i.op) : Bits(v, k, 1) = Bits(w, k, 1)

\* A word that encodes an instruction decodes to it, with its operands.  Of the
\* reserved words exactly those of AcceptedAs are not illegal, and each of them is
\* executed as the instruction named there; no other bit of funct3, funct7, rs2 or
\* rd is overlooked (decode.rs 179-390).
DecodeExact ==
    Given("decode") /\ input.word % 128 \notin TakenWhole =>
        LET w == input.word
            v == IF Meanings(w) # {} THEN w ELSE AcceptedAs(w)
        IN  IF Meanings(v) = {} THEN Decode(w) = Illegal ELSE Spells(v, Decode(w))

\* Emitted without code: an instruction whose only effect would be on x0.
NoEffect(i) == i.rd = 0 /\ i.op \in BinaryOps \cup ImmediateOps

\* C.ADD with rd = 0, which the interpreter alone takes for illegal.
ReservedHint(c) == c % 4 = 2 /\ Bits(c, 12, 4) = 9 /\ Rd(c) = 0 /\ Bits(c, 2, 5) # 0

\* The second decoder of 16-bit instructions, inside the compiler, agrees with
\* the first: every one of the 49152 either goes to the interpreter or is emitted
\* as the same operation on the same registers with the same immediate, and a
\* block ends exactly at jumps and branches (jit.rs 155-523, decode.rs 393-648).
RvcAgree ==
    Given("rvc") =>
        LET c == input.word
            e == emit_rvc(c)
        IN  e.class # "unhandled" =>
                IF e.code = None THEN NoEffect(decode_rvc(c)) \/ ReservedHint(c)
                ELSE /\ e.code = decode_rvc(c)
                     /\ e.class = "terminal" <=> e.code.op \in Branches \cup {"jal", "jalr"}

================================================================================
