-------------------------------- MODULE Words --------------------------------
(***************************************************************************)
(* Machine words: a register has XLEN bits (64 in the code) and the W      *)
(* instructions work on its low WLEN = XLEN / 2.  Both are parameters, so  *)
(* that arithmetic can be checked on every pair of a small width.          *)
(***************************************************************************)
EXTENDS Integers

CONSTANTS XLEN, WLEN

ASSUME WidthAssumption == XLEN \in {4, 8, 16, 32, 64} /\ WLEN \in Nat /\ WLEN * 2 = XLEN

\* What a power of two is, at these widths: the provers do not know.
ASSUME PowerAssumption ==
    2^0 = 1 /\ \A k \in 0..(XLEN - 1) : 2^k \in Nat /\ 2^(k + 1) = 2 * 2^k

Modulus == 2^XLEN
WModulus == 2^WLEN
Word == 0..(Modulus - 1)

Wrap(v) == v % Modulus                      \* wrapping_add and its like
Low(v)  == v % WModulus                     \* `as u32'

\* The low n bits of v as a two's complement number.
SignedBits(n, v) == IF v % 2^n >= 2^(n - 1) THEN (v % 2^n) - 2^n ELSE v % 2^n

Signed(v)  == SignedBits(XLEN, v)           \* `as i64'
SignedW(v) == SignedBits(WLEN, v)           \* `as i32'

\* execute.rs sext(v, 31).
SextW(v) == Wrap(SignedW(v))

\* `&', `|' and `^' on the set bits.
Bit(v, k) == (v \div 2^k) % 2
BitsOf(v) == {k \in 0..(XLEN - 1) : Bit(v, k) = 1}
OfBits(S) ==
    LET sum[n \in 0..XLEN] ==
            IF n = 0 THEN 0 ELSE sum[n - 1] + (IF n - 1 \in S THEN 2^(n - 1) ELSE 0)
    IN  sum[XLEN]

BitAnd(a, b) == OfBits(BitsOf(a) \cap BitsOf(b))
BitOr(a, b)  == OfBits(BitsOf(a) \cup BitsOf(b))
BitXor(a, b) == OfBits((BitsOf(a) \ BitsOf(b)) \cup (BitsOf(b) \ BitsOf(a)))

Flag(b) == IF b THEN 1 ELSE 0               \* `as u64' of a bool
Ones == Modulus - 1
MinSigned  == 2^(XLEN - 1)
MinSignedW == 2^(WLEN - 1)
==============================================================================
