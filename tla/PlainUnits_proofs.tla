-------------------------- MODULE PlainUnits_proofs --------------------------
(***************************************************************************)
(* The algorithms of module PlainUnits, for all inputs.  Memory accesses:  *)
(* for pages of any size, any table and any RAM of whole pages.  CSRs: for *)
(* register files of any contents.  Division and multiplication, AMOs and  *)
(* compiled integer instructions: for all widths up to 64 bits.  The       *)
(* decoder: for all registers and immediates, first the fields of a word,  *)
(* then the immediates of each format, then the rows of the reference.     *)
(***************************************************************************)
EXTENDS PlainUnits, SequenceTheorems, WellFoundedInduction, TLAPS

--------------------------------------------------------------------------------
(* Memory accesses.                                                         *)

\* The least of some natural numbers.
LEMMA MinOf ==
  ASSUME NEW S \in SUBSET Nat, S # {}
  PROVE  Min(S) \in S /\ \A y \in S : Min(S) <= y
<1> DEFINE R == OpToRel(<, Nat)
<1>1. IsWellFoundedOn(R, Nat)
  BY NatLessThanWellFounded, Zenon
<1>2. \A i, j \in Nat : i < j => <<i, j>> \in R
  BY DEF OpToRel
<1> HIDE DEF R
<1>3. PICK x \in S : \A y \in S : ~(<<y, x>> \in R)
  BY <1>1, WFMin
<1>4. \A y \in S : ~(y < x) /\ y \in Nat /\ x \in Nat
  BY <1>2, <1>3
<1>5. \A y \in S : x <= y
  BY <1>4
<1> QED  BY <1>3, <1>5 DEF Min

\* Division by the size of a page.
LEMMA Divided ==
  ASSUME NEW P \in Nat \ {0}, NEW a \in Nat
  PROVE  a = ((a \div P) * P) + (a % P) /\ a % P \in 0..(P - 1) /\ a \div P \in Nat
  OBVIOUS

\* Numbers of one page, and numbers of two ...
LEMMA Quotients ==
  ASSUME NEW x \in Nat, NEW r \in 0..(PSize - 1)
  PROVE  /\ (x * PSize) + r \in Nat
         /\ ((x * PSize) + r) \div PSize = x /\ ((x * PSize) + r) % PSize = r
  BY RamAssumption

\* ... the bytes of an access up to the end of its page have its page number ...
LEMMA SamePage ==
  ASSUME NEW va \in Nat, NEW k \in Nat, (va % PSize) + k < PSize
  PROVE  /\ (va + k) \div PSize = va \div PSize
         /\ (va + k) % PSize = (va % PSize) + k
<1> DEFINE x == va \div PSize
           r == va % PSize
<1>1. va = (x * PSize) + r /\ r \in 0..(PSize - 1) /\ x \in Nat /\ PSize \in Nat \ {0}
  BY RamAssumption, Divided
<1>2. x * PSize \in Nat
  BY <1>1
<1> HIDE DEF x, r
<1>3. r + k \in 0..(PSize - 1)
  BY <1>1 DEF r
<1>4. va + k = (x * PSize) + (r + k)
  BY <1>1, <1>2
<1>5. (va + k) \div PSize = x /\ (va + k) % PSize = r + k
  BY <1>1, <1>3, <1>4, Quotients
<1> QED  BY <1>5 DEF x, r

\* ... and those behind, of an access no longer than a page, have the next.
LEMMA NextPage ==
  ASSUME NEW va \in Nat, NEW k \in 0..(PSize - 1)
  PROVE  /\ (va + (PSize - (va % PSize)) + k) \div PSize = (va \div PSize) + 1
         /\ (va + (PSize - (va % PSize)) + k) % PSize = k
<1> DEFINE x == va \div PSize
           r == va % PSize
           w == va + (PSize - r) + k
<1>1. va = (x * PSize) + r /\ r \in 0..(PSize - 1) /\ x \in Nat /\ PSize \in Nat \ {0}
  BY RamAssumption, Divided
<1> HIDE DEF x, r
<1>2. x * PSize \in Nat /\ (x + 1) * PSize = (x * PSize) + PSize
  BY <1>1
<1>3. w = ((x + 1) * PSize) + k
  BY <1>1, <1>2
<1>4. x + 1 \in Nat
  BY <1>1
<1> HIDE DEF w
<1>5. w \div PSize = x + 1 /\ w % PSize = k
  BY <1>1, <1>3, <1>4, Quotients
<1> QED  BY <1>5 DEF x, r, w

\* A table whose frames are numbers.
IsTable(table) == \A page \in DOMAIN table : table[page].frame \in Nat

\* Where an address goes: to the same place in its page.
LEMMA Translated ==
  ASSUME NEW table, IsTable(table), NEW mode, NEW va \in Nat, NEW access
  PROVE  LET pa == Translate(table, mode, va, access)
         IN  pa # Unmapped => pa \in Nat /\ pa % PSize = va % PSize
<1>1. PSize \in Nat \ {0}
  BY RamAssumption
<1>2. va \div PSize \in Nat /\ va % PSize \in 0..(PSize - 1)
  BY <1>1, Divided
<1> DEFINE page == va \div PSize
           r == va % PSize
<1>3. ASSUME page \in DOMAIN table
      PROVE  /\ (table[page].frame * PSize) + r \in Nat
             /\ ((table[page].frame * PSize) + r) % PSize = r
  <2>1. table[page].frame \in Nat
    BY <1>3 DEF IsTable
  <2> HIDE DEF page, r
  <2>2. r \in 0..(PSize - 1)
    BY <1>2 DEF r
  <2> QED  BY <2>1, <2>2, Quotients
<1> QED  BY <1>3 DEF Translate

\* The bytes behind va in its page are behind it in memory ...
LEMMA Behind ==
  ASSUME NEW table, IsTable(table), NEW mode, NEW va \in Nat, NEW access,
         NEW k \in Nat, (va % PSize) + k < PSize
  PROVE  LET pa == Translate(table, mode, va, access)
         IN  Translate(table, mode, va + k, access)
                    = IF pa = Unmapped THEN Unmapped ELSE pa + k
<1>1. (va + k) \div PSize = va \div PSize /\ (va + k) % PSize = (va % PSize) + k
  BY SamePage
<1>2. PSize \in Nat \ {0} /\ va % PSize \in Nat
  BY RamAssumption, Divided
<1> DEFINE page == va \div PSize
           r == va % PSize
<1>3. va + k # Unmapped /\ va # Unmapped
  BY DEF Unmapped
<1>4. ASSUME page \in DOMAIN table
      PROVE  /\ (table[page].frame * PSize) + (r + k) = ((table[page].frame * PSize) + r) + k
             /\ (table[page].frame * PSize) + r # Unmapped
  <2>1. table[page].frame \in Nat
    BY <1>4 DEF IsTable
  <2> HIDE DEF page, r
  <2>2. table[page].frame * PSize \in Nat
    BY <1>2, <2>1
  <2> QED  BY <1>2, <2>2 DEF r, Unmapped
<1> QED  BY <1>1, <1>3, <1>4 DEF Translate

\* ... and those of the next page are at its start.
LEMMA Following ==
  ASSUME NEW table, IsTable(table), NEW mode, NEW va \in Nat, NEW access,
         NEW next, next = va + (PSize - (va % PSize)),
         NEW k \in Nat, k < PSize
  PROVE  /\ next \in Nat /\ next % PSize = 0
         /\ LET pa == Translate(table, mode, next, access)
            IN  Translate(table, mode, next + k, access)
                    = IF pa = Unmapped THEN Unmapped ELSE pa + k
<1>1. PSize \in Nat \ {0} /\ va % PSize \in 0..(PSize - 1)
  BY RamAssumption, Divided
<1>2. next \in Nat /\ next + 0 = next /\ 0 \in 0..(PSize - 1)
  BY <1>1
<1>3. (next + 0) % PSize = 0
  BY <1>2, NextPage
<1>4. next % PSize = 0 /\ (next % PSize) + k < PSize
  BY <1>2, <1>3
<1> QED  BY <1>2, <1>4, Behind

\* An access as the units are given.
IsAccess(q) == IsTable(q.table) /\ q.va \in Nat /\ q.n \in 1..PSize

\* Where the bytes of an access are, page by page.
Placed(s, i) ==
  IF i <= s.first THEN IF s.pa1 = Unmapped THEN Unmapped ELSE s.pa1 + i - 1
  ELSE IF s.pa2 = Unmapped THEN Unmapped ELSE s.pa2 + i - s.first - 1

\* Split puts the bytes where they are, the first ones up to the end of a page.
LEMMA Splits ==
  ASSUME NEW q, IsAccess(q), NEW mode, NEW access
  PROVE  LET s == Split(q.table, mode, q.va, q.n, access)
             r == q.va % PSize
         IN  /\ s.first \in 1..q.n /\ r + s.first <= PSize /\ r \in 0..(PSize - 1)
             /\ IF s.first = q.n THEN s.pa1 = s.pa2 ELSE r + s.first = PSize
             /\ s.pa1 # Unmapped => s.pa1 \in Nat /\ s.pa1 % PSize = r
             /\ s.pa2 # Unmapped /\ s.first < q.n => s.pa2 \in Nat /\ s.pa2 % PSize = 0
             /\ \A i \in 1..q.n : BytePa(q, mode, access, i) = Placed(s, i)
<1> DEFINE n == q.n
           va == q.va
           r == va % PSize
           s == Split(q.table, mode, va, n, access)
           T(a) == Translate(q.table, mode, a, access)
           next == va + (PSize - r)
<1>1. /\ PSize \in Nat \ {0} /\ va \in Nat /\ n \in 1..PSize /\ r \in 0..(PSize - 1)
      /\ IsTable(q.table)
  BY RamAssumption, Divided DEF IsAccess
<1>2. /\ s.first = IF r + n <= PSize THEN n ELSE PSize - r
      /\ s.pa1 = T(va) /\ s.pa2 = IF s.first = n THEN s.pa1 ELSE T(va + s.first)
  BY DEF Split
<1>3. \A k \in Nat : r + k < PSize =>
         T(va + k) = IF T(va) = Unmapped THEN Unmapped ELSE T(va) + k
  BY <1>1, Behind
<1>4. next = va + (PSize - (va % PSize))
  OBVIOUS
<1> HIDE DEF next
<1>5. /\ next \in Nat /\ next % PSize = 0
      /\ \A k \in Nat : k < PSize =>
            T(next + k) = IF T(next) = Unmapped THEN Unmapped ELSE T(next) + k
  <2>1. 0 \in Nat /\ 0 < PSize
    BY <1>1
  <2> QED  BY <1>1, <1>4, <2>1, Following
<1>6. T(va) # Unmapped => T(va) \in Nat /\ T(va) % PSize = r
  BY <1>1, Translated
<1>7. T(next) # Unmapped => T(next) \in Nat /\ T(next) % PSize = 0
  BY <1>1, <1>5, Translated
<1>8. \A i \in 1..n : BytePa(q, mode, access, i) = T(va + i - 1)
  BY DEF BytePa
<1> HIDE DEF s, n, va, r, T
<1>9. /\ s.first \in 1..n /\ r + s.first <= PSize
      /\ s.first # n => r + s.first = PSize /\ s.pa2 = T(next)
  BY <1>1, <1>2 DEF next
<1>10. ASSUME NEW i \in 1..n PROVE T(va + i - 1) = Placed(s, i)
  <2>1. CASE i <= s.first
    <3>1. i - 1 \in Nat /\ r + (i - 1) < PSize /\ va + i - 1 = va + (i - 1)
      BY <1>1, <1>9, <2>1
    <3>2. T(va + (i - 1)) = IF s.pa1 = Unmapped THEN Unmapped ELSE s.pa1 + (i - 1)
      BY <1>2, <1>3, <3>1
    <3>3. s.pa1 # Unmapped => s.pa1 + (i - 1) = s.pa1 + i - 1
      BY <1>2, <1>6, <3>1
    <3> QED  BY <2>1, <3>1, <3>2, <3>3 DEF Placed
  <2>2. CASE ~(i <= s.first)
    <3> DEFINE k == i - s.first - 1
    <3>1. k \in Nat /\ k < PSize /\ s.first # n /\ va + i - 1 = next + k
      BY <1>1, <1>9, <2>2 DEF next
    <3>2. s.pa2 # Unmapped => s.pa2 + k = s.pa2 + i - s.first - 1
      BY <1>7, <1>9, <3>1
    <3> HIDE DEF k
    <3>3. T(next + k) = IF s.pa2 = Unmapped THEN Unmapped ELSE s.pa2 + k
      BY <1>5, <1>9, <3>1
    <3> QED  BY <2>2, <3>1, <3>2, <3>3 DEF Placed, k
  <2> QED  BY <2>1, <2>2
<1>11. \A i \in 1..n : BytePa(q, mode, access, i) = Placed(s, i)
  BY <1>8, <1>10
<1>12. /\ s.pa1 # Unmapped => s.pa1 \in Nat /\ s.pa1 % PSize = r
       /\ s.pa2 # Unmapped /\ s.first < n => s.pa2 \in Nat /\ s.pa2 % PSize = 0
  BY <1>1, <1>2, <1>6, <1>7, <1>9
<1> QED  BY <1>1, <1>2, <1>9, <1>11, <1>12 DEF n, va, r, s

\* A page lies in RAM as a whole or not at all.
LEMMA WholePages ==
  ASSUME NEW a \in Nat, NEW b \in Nat, a \div PSize = b \div PSize, InRam(a, 1)
  PROVE  InRam(b, 1)
<1> DEFINE x == a \div PSize
           lo == RamBase \div PSize
           hi == RamEnd \div PSize
<1>1. PSize \in Nat \ {0} /\ RamBase \in Nat /\ RamEnd \in Nat
  BY RamAssumption
<1>2. /\ RamBase = (lo * PSize) + (RamBase % PSize) /\ lo \in Nat
      /\ RamEnd = (hi * PSize) + (RamEnd % PSize) /\ hi \in Nat
      /\ a = (x * PSize) + (a % PSize) /\ a % PSize \in 0..(PSize - 1) /\ x \in Nat
      /\ b = (x * PSize) + (b % PSize) /\ b % PSize \in 0..(PSize - 1)
  BY <1>1, Divided
<1>3. RamBase % PSize = 0 /\ RamEnd % PSize = 0
  BY RamAssumption
<1> DEFINE r == a % PSize
           t == b % PSize
<1>0. RamBase <= a /\ a + 1 <= RamEnd
  BY DEF InRam
<1> HIDE DEF x, lo, hi, r, t
<1>4. lo <= x
  <2>1. lo * PSize <= (x * PSize) + r /\ r \in 0..(PSize - 1)
    BY <1>0, <1>1, <1>2, <1>3 DEF r
  <2>2. ~(x + 1 <= lo)
    <3> SUFFICES ASSUME x + 1 <= lo PROVE FALSE
      OBVIOUS
    <3>1. (x + 1) * PSize <= lo * PSize /\ (x + 1) * PSize = (x * PSize) + PSize
      BY <1>1, <1>2
    <3>2. x * PSize \in Nat /\ lo * PSize \in Nat
      BY <1>1, <1>2
    <3> QED  BY <1>1, <2>1, <3>1, <3>2
  <2> QED  BY <1>2, <2>2
<1>5. x < hi
  <2>1. (x * PSize) + r + 1 <= hi * PSize /\ r \in 0..(PSize - 1)
    <3>1. x * PSize \in Nat /\ hi * PSize \in Nat
      BY <1>1, <1>2
    <3>2. RamEnd = hi * PSize
      BY <1>2, <1>3, <3>1
    <3>3. a = (x * PSize) + r /\ r \in 0..(PSize - 1)
      BY <1>2 DEF r
    <3> QED  BY ONLY <1>0, <1>1, <3>1, <3>2, <3>3
  <2>2. ~(hi <= x)
    <3> SUFFICES ASSUME hi <= x PROVE FALSE
      OBVIOUS
    <3>1. hi * PSize <= x * PSize
      BY <1>1, <1>2
    <3>2. x * PSize \in Nat /\ hi * PSize \in Nat
      BY <1>1, <1>2
    <3> QED  BY <1>1, <2>1, <3>1, <3>2
  <2> QED  BY <1>2, <2>2
<1>6. lo * PSize <= x * PSize
  BY <1>1, <1>2, <1>4
<1>7. (x + 1) * PSize <= hi * PSize /\ (x + 1) * PSize = (x * PSize) + PSize
  BY <1>1, <1>2, <1>5
<1>8. lo * PSize \in Nat /\ x * PSize \in Nat /\ hi * PSize \in Nat
  BY <1>1, <1>2
<1>9. b >= RamBase /\ b + 1 <= RamEnd
  BY <1>1, <1>2, <1>3, <1>6, <1>7, <1>8
<1> QED  BY <1>9 DEF InRam

\* The bytes of an access that cannot be had.
Refused(q, mode, access) == {i \in 1..q.n : ~ByteOk(q, mode, access, i)}

\* The translations of an access page-fault at the first byte of the first page
\* that does; and the bus refuses it at its first byte outside RAM.
LEMMA Outcome ==
  ASSUME NEW q, IsAccess(q), NEW mode, NEW access
  PROVE  LET s == Split(q.table, mode, q.va, q.n, access)
             pf == Faulting(q, mode, access)
             bad == Refused(q, mode, access)
             done == Through(s, q.n)
         IN  /\ s.pa1 = Unmapped => pf # {} /\ Min(pf) = 1
             /\ s.pa1 # Unmapped /\ s.pa2 = Unmapped => pf # {} /\ Min(pf) = s.first + 1
             /\ pf # {} => bad # {}
             /\ s.pa1 # Unmapped /\ s.pa2 # Unmapped =>
                  /\ pf = {}
                  /\ \A i \in 1..q.n : /\ BytePa(q, mode, access, i) = ByteAt(s, i)
                                        /\ BytePa(q, mode, access, i) \in Nat
                  /\ bad = {} => done = q.n
                  /\ bad # {} => /\ done \in 0..(q.n - 1) /\ done = Min(bad) - 1
                                 /\ done + 1 \in bad
<1> DEFINE n == q.n
           s == Split(q.table, mode, q.va, n, access)
           r == q.va % PSize
           B(i) == BytePa(q, mode, access, i)
           pf == Faulting(q, mode, access)
           bad == Refused(q, mode, access)
           done == Through(s, n)
<1>0. n \in 1..PSize /\ PSize \in Nat \ {0} /\ RamBase \in Nat /\ RamEnd \in Nat
  BY RamAssumption DEF IsAccess
<1>1. /\ n \in 1..PSize /\ PSize \in Nat \ {0} /\ RamBase \in Nat /\ RamEnd \in Nat
      /\ s.first \in 1..n /\ r + s.first <= PSize /\ r \in 0..(PSize - 1)
      /\ s.first = n => s.pa1 = s.pa2
      /\ s.pa1 # Unmapped => s.pa1 \in Nat /\ s.pa1 % PSize = r
      /\ s.pa2 # Unmapped /\ s.first < n => s.pa2 \in Nat
      /\ \A i \in 1..n : B(i) = Placed(s, i)
  <2>1. /\ s.first \in 1..n /\ r + s.first <= PSize /\ r \in 0..(PSize - 1)
        /\ IF s.first = n THEN s.pa1 = s.pa2 ELSE r + s.first = PSize
        /\ s.pa1 # Unmapped => s.pa1 \in Nat /\ s.pa1 % PSize = r
        /\ s.pa2 # Unmapped /\ s.first < n => s.pa2 \in Nat /\ s.pa2 % PSize = 0
        /\ \A i \in 1..n : B(i) = Placed(s, i)
    BY Splits
  <2> HIDE DEF s, n, r, B
  <2> QED  BY <1>0, <2>1
<1>2. /\ pf = {i \in 1..n : B(i) = Unmapped}
      /\ bad = {i \in 1..n : ~(B(i) # Unmapped /\ InRam(B(i), 1))}
      /\ pf \subseteq Nat /\ bad \subseteq Nat /\ pf \subseteq bad
  BY DEF Faulting, Refused, ByteOk, BytePa
<1>3. done = IF s.first = n THEN IF InRam(s.pa1, n) THEN n ELSE 0
             ELSE IF {i \in 1..n : ~InRam(ByteAt(s, i), 1)} = {} THEN n
             ELSE Min({i \in 1..n : ~InRam(ByteAt(s, i), 1)}) - 1
  BY DEF Through
<1> HIDE DEF s, n, r, B, pf, bad, done
<1>4. CASE s.pa1 = Unmapped
  <2>1. 1 \in pf
    BY <1>1, <1>2, <1>4 DEF Placed
  <2>2. Min(pf) \in pf /\ Min(pf) <= 1
    BY <1>2, <2>1, MinOf
  <2>3. Min(pf) = 1
    BY <1>1, <1>2, <2>2
  <2> QED  BY <1>2, <1>4, <2>1, <2>3 DEF s, n, pf, bad
<1>5. CASE s.pa1 # Unmapped /\ s.pa2 = Unmapped
  <2>1. s.first < n
    BY <1>1, <1>5
  <2>2. s.first + 1 \in pf
    BY <1>1, <1>2, <1>5, <2>1 DEF Placed
  <2>3. \A i \in pf : i > s.first
    <3> SUFFICES ASSUME NEW i \in pf, i <= s.first PROVE FALSE
      BY <1>1, <1>2
    <3>1. i \in 1..n /\ Placed(s, i) = Unmapped
      BY <1>1, <1>2
    <3>2. s.pa1 + i - 1 = Unmapped
      BY <1>5, <3>1 DEF Placed
    <3> QED  BY <1>1, <1>5, <3>1, <3>2 DEF Unmapped
  <2>4. Min(pf) \in pf /\ Min(pf) <= s.first + 1
    BY <1>2, <2>2, MinOf
  <2>5. Min(pf) > s.first /\ Min(pf) \in Nat
    BY <1>2, <2>3, <2>4
  <2>6. Min(pf) = s.first + 1
    BY <1>1, <2>4, <2>5
  <2> QED  BY <1>2, <1>5, <2>2, <2>6 DEF s, n, pf, bad
<1>6. CASE s.pa1 # Unmapped /\ s.pa2 # Unmapped
  <2>1. \A i \in 1..n : B(i) = ByteAt(s, i) /\ B(i) \in Nat /\ B(i) # Unmapped
    <3> TAKE i \in 1..n
    <3>1. B(i) = ByteAt(s, i)
      BY <1>1, <1>6 DEF Placed, ByteAt
    <3>2. CASE i <= s.first
      BY <1>1, <1>6, <3>1, <3>2 DEF ByteAt, Unmapped
    <3>3. CASE ~(i <= s.first)
      <4>1. s.first < n
        BY <1>1, <3>3
      <4> QED  BY <1>1, <1>6, <3>1, <3>3, <4>1 DEF ByteAt, Unmapped
    <3> QED  BY <3>2, <3>3
  <2>2. pf = {} /\ bad = {i \in 1..n : ~InRam(ByteAt(s, i), 1)}
    BY <1>2, <2>1
  <2>3. s.first = n => IF InRam(s.pa1, n) THEN bad = {} ELSE 1 \in bad
    <3> SUFFICES ASSUME s.first = n PROVE IF InRam(s.pa1, n) THEN bad = {} ELSE 1 \in bad
      OBVIOUS
    <3>1. s.pa1 \in Nat /\ s.pa1 % PSize = r /\ r + n <= PSize
      BY <1>1, <1>6
    <3>2. \A i \in 1..n : ByteAt(s, i) = s.pa1 + (i - 1)
      BY <1>1, <3>1 DEF ByteAt
    <3>3. CASE InRam(s.pa1, n)
      <4>1. \A i \in 1..n : InRam(s.pa1 + (i - 1), 1)
        BY <1>1, <3>1, <3>3 DEF InRam
      <4> QED  BY <2>2, <3>2, <3>3, <4>1
    <3>4. CASE ~InRam(s.pa1, n)
      <4>1. ASSUME InRam(s.pa1, 1) PROVE FALSE
        <5> DEFINE k == n - 1
        <5>1. k \in Nat /\ (s.pa1 % PSize) + k < PSize
          BY <1>1, <3>1
        <5>2. (s.pa1 + k) \div PSize = s.pa1 \div PSize
          BY <3>1, <5>1, SamePage
        <5>3. InRam(s.pa1 + k, 1)
          BY <3>1, <4>1, <5>1, <5>2, WholePages
        <5>4. s.pa1 >= RamBase /\ (s.pa1 + k) + 1 <= RamEnd
          BY <4>1, <5>3 DEF InRam
        <5> QED  BY <1>1, <3>1, <3>4, <5>4 DEF InRam
      <4>2. 1 \in 1..n /\ s.pa1 + (1 - 1) = s.pa1
        BY <1>1, <3>1
      <4> QED  BY <2>2, <3>2, <3>4, <4>1, <4>2
    <3> QED  BY <3>3, <3>4
  <2>4. bad = {} => done = n
    <3>1. 1 \notin {}
      OBVIOUS
    <3> QED  BY <1>3, <2>2, <2>3, <3>1
  <2>5. bad # {} => done = Min(bad) - 1 /\ Min(bad) \in bad
    <3> SUFFICES ASSUME bad # {} PROVE done = Min(bad) - 1 /\ Min(bad) \in bad
      OBVIOUS
    <3>1. Min(bad) \in bad /\ \A y \in bad : Min(bad) <= y
      BY <1>2, MinOf
    <3>2. CASE s.first = n
      <4>1. 1 \in bad /\ done = 0
        BY <1>3, <2>3, <3>2
      <4>2. Min(bad) <= 1 /\ Min(bad) \in 1..n
        BY <1>2, <3>1, <4>1
      <4>3. Min(bad) - 1 = 0
        BY <1>1, <4>2
      <4> QED  BY <3>1, <4>1, <4>3
    <3>3. CASE s.first # n
      BY <1>3, <2>2, <3>1, <3>3
    <3> QED  BY <3>2, <3>3
  <2>6. bad # {} => done \in 0..(n - 1) /\ done + 1 \in bad
    <3> SUFFICES ASSUME bad # {} PROVE done \in 0..(n - 1) /\ done + 1 \in bad
      OBVIOUS
    <3>1. Min(bad) \in 1..n /\ n \in Nat
      BY <1>1, <1>2, <2>5
    <3>2. (Min(bad) - 1) + 1 = Min(bad) /\ Min(bad) - 1 \in 0..(n - 1)
      BY <3>1
    <3> QED  BY <2>5, <3>2
  <2>7. \A i \in 1..n : /\ BytePa(q, mode, access, i) = ByteAt(s, i)
                         /\ BytePa(q, mode, access, i) \in Nat
    BY <2>1 DEF B
  <2> QED  BY <1>6, <2>2, <2>4, <2>5, <2>6, <2>7 DEF s, n, pf, bad, done
<1> QED  BY <1>4, <1>5, <1>6 DEF s

\* Loads are what they should be.
LEMMA LoadIsTranslated ==
  ASSUME NEW q, IsAccess(q)
  PROVE  LoadTranslated(q)
<1> DEFINE mode == ls_mode(q)
           s == Split(q.table, mode, q.va, q.n, "load")
           pf == Faulting(q, mode, "load")
           bad == Refused(q, mode, "load")
           done == Through(s, q.n)
           got == mmu_load(q.table, mode, q.va, q.n)
           B(i) == BytePa(q, mode, "load", i)
<1>1. /\ q.n \in Nat /\ q.va \in Nat /\ s.first \in Nat
  BY Splits DEF IsAccess
<1>2. /\ s.pa1 = Unmapped => pf # {} /\ Min(pf) = 1
      /\ s.pa1 # Unmapped /\ s.pa2 = Unmapped => pf # {} /\ Min(pf) = s.first + 1
      /\ s.pa1 # Unmapped /\ s.pa2 # Unmapped =>
           /\ pf = {}
           /\ \A i \in 1..q.n : B(i) = ByteAt(s, i)
           /\ bad = {} => done = q.n
           /\ bad # {} => done \in 0..(q.n - 1) /\ done = Min(bad) - 1
  BY Outcome
<1>3. /\ s.pa1 = Unmapped => got = Fault(13, q.va, Ram)
      /\ s.pa1 # Unmapped /\ s.pa2 = Unmapped => got = Fault(13, q.va + s.first, Ram)
      /\ s.pa1 # Unmapped /\ s.pa2 # Unmapped =>
           got = IF done < q.n THEN Fault(5, q.va + done, Ram)
                 ELSE Loaded([i \in 1..q.n |-> Ram[ByteAt(s, i)]])
  BY DEF mmu_load
<1>4. /\ bad = {i \in 1..q.n : ~ByteOk(q, mode, "load", i)}
      /\ bad = {} <=> \A i \in 1..q.n : ByteOk(q, mode, "load", i)
  BY DEF Refused
<1>5. LoadTranslated(q) <=>
        IF pf # {} THEN got = Fault(13, q.va + Min(pf) - 1, Ram)
        ELSE IF bad = {} THEN got = Loaded([i \in 1..q.n |-> Ram[B(i)]])
        ELSE got = Fault(5, q.va + Min(bad) - 1, Ram)
  BY <1>4 DEF LoadTranslated
<1> HIDE DEF mode, s, pf, bad, done, got, B
<1>6. CASE s.pa1 = Unmapped
  <2>1. q.va + 1 - 1 = q.va
    BY <1>1
  <2> QED  BY <1>2, <1>3, <1>5, <1>6, <2>1
<1>7. CASE s.pa1 # Unmapped /\ s.pa2 = Unmapped
  <2>1. q.va + (s.first + 1) - 1 = q.va + s.first
    BY <1>1
  <2> QED  BY <1>2, <1>3, <1>5, <1>7, <2>1
<1>8. CASE s.pa1 # Unmapped /\ s.pa2 # Unmapped /\ bad = {}
  <2>1. ~(done < q.n)
    BY <1>1, <1>2, <1>8
  <2>2. [i \in 1..q.n |-> Ram[ByteAt(s, i)]] = [i \in 1..q.n |-> Ram[B(i)]]
    BY <1>2, <1>8
  <2> QED  BY <1>2, <1>3, <1>5, <1>8, <2>1, <2>2
<1>9. CASE s.pa1 # Unmapped /\ s.pa2 # Unmapped /\ bad # {}
  <2>1. done < q.n /\ done = Min(bad) - 1 /\ done \in Nat
    BY <1>1, <1>2, <1>9
  <2>2. Min(bad) \in Nat
    <3>1. bad \in SUBSET Nat
      BY <1>4
    <3> QED  BY <1>9, <3>1, MinOf
  <2>3. q.va + done = q.va + Min(bad) - 1
    BY <1>1, <2>1, <2>2
  <2> QED  BY <1>2, <1>3, <1>5, <1>9, <2>1, <2>3
<1> QED  BY <1>6, <1>7, <1>8, <1>9

\* No two bytes of an access are in one place, though its pages may share a frame.
LEMMA BytesApart ==
  ASSUME NEW q, IsAccess(q), NEW mode, NEW access
  PROVE  LET s == Split(q.table, mode, q.va, q.n, access)
         IN  s.pa1 # Unmapped /\ s.pa2 # Unmapped =>
               \A i, j \in 1..q.n : ByteAt(s, i) = ByteAt(s, j) => i = j
<1> DEFINE n == q.n
           r == q.va % PSize
           s == Split(q.table, mode, q.va, n, access)
<1> SUFFICES ASSUME s.pa1 # Unmapped, s.pa2 # Unmapped, NEW i \in 1..n, NEW j \in 1..n,
                    ByteAt(s, i) = ByteAt(s, j)
             PROVE  i = j
  OBVIOUS
<1>0. n \in 1..PSize /\ PSize \in Nat \ {0}
  BY RamAssumption DEF IsAccess
<1>1. /\ s.first \in 1..n /\ r + s.first <= PSize /\ r \in 0..(PSize - 1)
      /\ IF s.first = n THEN s.pa1 = s.pa2 ELSE r + s.first = PSize
      /\ s.pa1 # Unmapped => s.pa1 \in Nat /\ s.pa1 % PSize = r
      /\ s.pa2 # Unmapped /\ s.first < n => s.pa2 \in Nat /\ s.pa2 % PSize = 0
  BY Splits
<1> HIDE DEF r, s, n
\* ... the first part of the access ends its page, the second is too short to reach it
<1>2. ASSUME NEW a \in 1..n, NEW b \in 1..n, a <= s.first, s.first < b,
             ByteAt(s, a) = ByteAt(s, b)
      PROVE  FALSE
  <2> DEFINE x == s.pa1 \div PSize
             y == s.pa2 \div PSize
             k == r + (a - 1)
             m == b - s.first - 1
  <2>1. /\ s.pa1 = (x * PSize) + r /\ x \in Nat
        /\ s.pa2 = (y * PSize) + 0 /\ y \in Nat
        /\ r + s.first = PSize
    <3>1. /\ s.pa1 \in Nat /\ s.pa1 % PSize = r /\ s.pa2 \in Nat /\ s.pa2 % PSize = 0
          /\ r + s.first = PSize
      BY <1>0, <1>1, <1>2
    <3>2. /\ s.pa1 = (x * PSize) + (s.pa1 % PSize) /\ x \in Nat
          /\ s.pa2 = (y * PSize) + (s.pa2 % PSize) /\ y \in Nat
      BY <1>0, <3>1, Divided
    <3> QED  BY <3>1, <3>2
  <2> HIDE DEF x, y
  <2>2. x * PSize \in Nat /\ y * PSize \in Nat
    BY <1>0, <2>1
  <2>3. k \in 0..(PSize - 1) /\ m \in 0..(PSize - 1) /\ m < r
    BY <1>0, <1>1, <1>2, <2>1
  <2>4. ByteAt(s, a) = (x * PSize) + k /\ ByteAt(s, b) = (y * PSize) + m
    <3>1. ~(b <= s.first)
      BY <1>0, <1>1, <1>2
    <3>2. ByteAt(s, a) = s.pa1 + a - 1 /\ ByteAt(s, b) = s.pa2 + b - s.first - 1
      BY <1>2, <3>1 DEF ByteAt
    <3> QED  BY <1>0, <1>1, <2>1, <2>2, <3>2
  <2> HIDE DEF k, m
  <2>5. ((x * PSize) + k) % PSize = k /\ ((y * PSize) + m) % PSize = m
    BY <2>1, <2>3, Quotients
  <2>6. k = m
    BY <1>2, <2>4, <2>5
  <2>7. k >= r
    BY <1>0, <1>1 DEF k
  <2> QED  BY <1>0, <1>1, <2>3, <2>6, <2>7
<1>3. CASE i <= s.first /\ j <= s.first
  BY <1>0, <1>1, <1>3 DEF ByteAt
<1>4. CASE ~(i <= s.first) /\ ~(j <= s.first)
  <2>1. s.pa2 \in Nat
    BY <1>0, <1>1, <1>4
  <2> QED  BY <1>0, <1>1, <1>4, <2>1 DEF ByteAt
<1>5. CASE i <= s.first /\ ~(j <= s.first)
  <2>1. s.first < j
    BY <1>0, <1>1, <1>5
  <2> QED  BY <1>2, <1>5, <2>1
<1>6. CASE ~(i <= s.first) /\ j <= s.first
  <2>1. s.first < i
    BY <1>0, <1>1, <1>6
  <2> QED  BY <1>2, <1>6, <2>1
<1> QED  BY <1>3, <1>4, <1>5, <1>6

\* Stores are what they should be.
LEMMA StoreIsTranslated ==
  ASSUME NEW q, IsAccess(q), NEW val, Len(val) = q.n
  PROVE  StoreTranslated(q, val)
<1> DEFINE n == q.n
           mode == ls_mode(q)
           s == Split(q.table, mode, q.va, n, "store")
           pf == Faulting(q, mode, "store")
           bad == Refused(q, mode, "store")
           done == Through(s, n)
           got == mmu_store(q.table, mode, q.va, val)
           B(i) == BytePa(q, mode, "store", i)
           after == [p \in DOMAIN Ram |->
                       IF \E i \in 1..done : ByteAt(s, i) = p
                       THEN val[CHOOSE i \in 1..done : ByteAt(s, i) = p] ELSE Ram[p]]
<1>1. n \in Nat /\ q.va \in Nat /\ s.first \in Nat
  BY Splits DEF IsAccess
<1>2. /\ s.pa1 = Unmapped => pf # {} /\ Min(pf) = 1
      /\ s.pa1 # Unmapped /\ s.pa2 = Unmapped => pf # {} /\ Min(pf) = s.first + 1
      /\ pf # {} => bad # {}
      /\ s.pa1 # Unmapped /\ s.pa2 # Unmapped =>
           /\ pf = {}
           /\ \A i \in 1..n : B(i) = ByteAt(s, i) /\ B(i) \in Nat
           /\ bad = {} => done = n
           /\ bad # {} => done \in 0..(n - 1) /\ done + 1 \in bad
  BY Outcome
<1>3. /\ s.pa1 = Unmapped => got = Fault(15, q.va, Ram)
      /\ s.pa1 # Unmapped /\ s.pa2 = Unmapped => got = Fault(15, q.va + s.first, Ram)
      /\ s.pa1 # Unmapped /\ s.pa2 # Unmapped =>
           got = IF done < n THEN Fault(7, q.va + done, after) ELSE Stored(after)
  BY DEF mmu_store
<1>4. /\ \A i \in 1..n : i \in bad <=> ~ByteOk(q, mode, "store", i)
      /\ \A i \in 1..n : i \notin bad => InRam(B(i), 1)
  BY DEF Refused, ByteOk, BytePa
<1>5. bad \subseteq 1..n
  BY DEF Refused
<1>6. \A i, j \in 1..n :
          s.pa1 # Unmapped /\ s.pa2 # Unmapped /\ ByteAt(s, i) = ByteAt(s, j) => i = j
  BY BytesApart
<1>7. DOMAIN Ram = RamBase..(RamEnd - 1) /\ RamBase \in Nat /\ RamEnd \in Nat
  BY RamAssumption
<1>8. StoreTranslated(q, val) <=>
        /\ pf # {} => got = Fault(15, q.va + Min(pf) - 1, Ram)
        /\ \A p \in DOMAIN Ram : {i \in 1..n : B(i) = p} = {} => got.ram[p] = Ram[p]
        /\ got.cause = 0 <=> \A i \in 1..n : ByteOk(q, mode, "store", i)
        /\ got.cause = 0 => \A i \in 1..n : got.ram[B(i)] = val[i]
        /\ got.cause = 7 => ~ByteOk(q, mode, "store", got.tval - q.va + 1)
  BY DEF StoreTranslated
<1>9. \A p \in DOMAIN Ram :
        after[p] = IF \E i \in 1..done : ByteAt(s, i) = p
                   THEN val[CHOOSE i \in 1..done : ByteAt(s, i) = p] ELSE Ram[p]
  OBVIOUS
<1> HIDE DEF mode, s, pf, bad, done, got, B, after, n
<1>10. ASSUME pf # {}, got = Fault(15, q.va + Min(pf) - 1, Ram) PROVE StoreTranslated(q, val)
  <2>1. got.cause = 15 /\ got.ram = Ram
    BY <1>10 DEF Fault
  <2>2. \E i \in 1..n : ~ByteOk(q, mode, "store", i)
    BY <1>2, <1>4, <1>5, <1>10
  <2> QED  BY <1>8, <1>10, <2>1, <2>2
<1>11. CASE s.pa1 = Unmapped
  <2>1. q.va + 1 - 1 = q.va
    BY <1>1
  <2> QED  BY <1>2, <1>3, <1>10, <1>11, <2>1
<1>12. CASE s.pa1 # Unmapped /\ s.pa2 = Unmapped
  <2>1. q.va + (s.first + 1) - 1 = q.va + s.first
    BY <1>1
  <2> QED  BY <1>2, <1>3, <1>10, <1>12, <2>1
<1>13. CASE s.pa1 # Unmapped /\ s.pa2 # Unmapped
  <2>1. done \in 0..n
    BY <1>1, <1>2, <1>13
  <2>2. \A i \in 1..done : i \in 1..n
    BY <1>1, <2>1
  <2>3. \A p \in DOMAIN Ram : {i \in 1..n : B(i) = p} = {} => after[p] = Ram[p]
    <3> SUFFICES ASSUME NEW p \in DOMAIN Ram, {i \in 1..n : B(i) = p} = {}
                 PROVE  after[p] = Ram[p]
      OBVIOUS
    <3>1. \A i \in 1..n : B(i) # p
      OBVIOUS
    <3>2. \A i \in 1..done : ByteAt(s, i) # p
      BY <1>2, <1>13, <2>2, <3>1
    <3> QED  BY <1>9, <3>2
  <2>4. CASE bad = {}
    <3>1. done = n /\ ~(done < n)
      BY <1>1, <1>2, <1>13, <2>4
    <3>2. got = Stored(after) /\ got.cause = 0 /\ got.ram = after
      BY <1>3, <1>13, <3>1 DEF Stored
    <3>3. ASSUME NEW i \in 1..n PROVE after[B(i)] = val[i]
      <4>1. InRam(B(i), 1) /\ B(i) = ByteAt(s, i)
        BY <1>2, <1>4, <1>13, <2>4
      <4>2. B(i) \in DOMAIN Ram
        <5>1. B(i) \in Nat
          BY <1>2, <1>13
        <5> QED  BY <1>7, <4>1, <5>1 DEF InRam
      <4>3. i \in 1..done /\ \A j \in 1..done : ByteAt(s, j) = B(i) => j = i
        BY <1>6, <1>13, <2>2, <3>1, <4>1
      <4>4. (CHOOSE j \in 1..done : ByteAt(s, j) = B(i)) = i
        BY <4>1, <4>3
      <4> QED  BY <1>9, <4>1, <4>2, <4>3, <4>4
    <3> QED  BY <1>2, <1>4, <1>8, <1>13, <2>3, <2>4, <3>2, <3>3
  <2>5. CASE bad # {}
    <3>1. done < n /\ done \in Nat /\ done + 1 \in bad /\ done + 1 \in 1..n
      BY <1>1, <1>2, <1>5, <1>13, <2>5
    <3>2. got = Fault(7, q.va + done, after)
      BY <1>3, <1>13, <3>1
    <3>3. got.cause = 7 /\ got.ram = after /\ got.tval = q.va + done
      BY <3>2 DEF Fault
    <3>4. got.tval - q.va + 1 = done + 1
      BY <1>1, <3>1, <3>3
    <3>5. ~ByteOk(q, mode, "store", done + 1)
      BY <1>4, <3>1
    <3> QED  BY <1>2, <1>8, <1>13, <2>3, <3>1, <3>3, <3>4, <3>5
  <2> QED  BY <2>4, <2>5
<1> QED  BY <1>11, <1>12, <1>13

\* Where an access is not excepted, its bytes are one behind the other in memory,
\* and if the bus grants the whole of it no byte is refused.
LEMMA Contiguous ==
  ASSUME NEW q, IsTable(q.table), q.va \in Nat, q.n \in Nat, NEW access, ~Excepted(q, access)
  PROVE  LET pa == Translate(q.table, q.mode, q.va, access)
         IN  /\ access # "fetch" => ls_mode(q) = q.mode
             /\ pa # Unmapped /\ InRam(pa, q.n) =>
                  /\ pa \in Nat /\ Refused(q, q.mode, access) = {}
                  /\ \A i \in 1..q.n : BytePa(q, q.mode, access, i) = pa + i - 1
<1> DEFINE n == q.n
           pa == Translate(q.table, q.mode, q.va, access)
           B(i) == BytePa(q, q.mode, access, i)
<1>1. n \in Nat /\ q.va \in Nat /\ IsTable(q.table) /\ RamBase \in Nat /\ RamEnd \in Nat
  BY RamAssumption
<1>2. pa # Unmapped => pa \in Nat
  BY <1>1, Translated
<1>3. B(1) = pa
  <2>1. q.va + 1 - 1 = q.va
    BY <1>1
  <2> QED  BY <2>1 DEF BytePa
<1>4. \A i \in 2..n : B(i) = B(1) + i - 1
  BY DEF Excepted
<1>5. access # "fetch" => ls_mode(q) = q.mode
  BY DEF Excepted, ls_mode
<1>6. \A i \in 1..n : i \in Refused(q, q.mode, access) <=> ~(B(i) # Unmapped /\ InRam(B(i), 1))
  BY DEF Refused, ByteOk, BytePa
<1>7. Refused(q, q.mode, access) \subseteq 1..n
  BY DEF Refused
<1> HIDE DEF n, pa, B
<1>8. ASSUME pa # Unmapped, InRam(pa, n)
      PROVE  \A i \in 1..n : B(i) = pa + i - 1 /\ B(i) # Unmapped /\ InRam(B(i), 1)
  <2> TAKE i \in 1..n
  <2>1. B(i) = pa + i - 1
    BY <1>1, <1>2, <1>3, <1>4, <1>8
  <2> QED  BY <1>1, <1>2, <1>8, <2>1 DEF InRam, Unmapped
<1>9. ASSUME pa # Unmapped, InRam(pa, n) PROVE Refused(q, q.mode, access) = {}
  BY <1>6, <1>7, <1>8, <1>9
<1> QED  BY <1>2, <1>5, <1>8, <1>9 DEF n, pa, B

\* A compiled load is the interpreter's ...
LEMMA LoadsAgree ==
  ASSUME NEW q, IsAccess(q), ~Excepted(q, "load")
  PROVE  CompiledLoad(q) = mmu_load(q.table, ls_mode(q), q.va, q.n)
<1> DEFINE pa == Translate(q.table, q.mode, q.va, "load")
           fast == jit_load(q.table, q.mode, q.va, q.n)
           slow == mmu_load(q.table, q.mode, q.va, q.n)
           B(i) == BytePa(q, q.mode, "load", i)
           pf == Faulting(q, q.mode, "load")
           bad == Refused(q, q.mode, "load")
<1>0. IsTable(q.table) /\ q.va \in Nat /\ q.n \in Nat
  BY RamAssumption DEF IsAccess
<1>a. ~Excepted(q, "load")
  OBVIOUS
<1>1. /\ ls_mode(q) = q.mode
      /\ pa # Unmapped /\ InRam(pa, q.n) =>
           pa \in Nat /\ bad = {} /\ \A i \in 1..q.n : B(i) = pa + i - 1
  <2>1. ls_mode(q) = q.mode
    BY <1>a DEF Excepted, ls_mode
  <2>2. pa # Unmapped /\ InRam(pa, q.n) =>
          pa \in Nat /\ bad = {} /\ \A i \in 1..q.n : B(i) = pa + i - 1
    BY ONLY <1>0, <1>a, Contiguous, Zenon
  <2> HIDE DEF pa, B, bad
  <2> QED  BY ONLY <2>1, <2>2
<1>2. CompiledLoad(q) = IF fast = Failed THEN slow ELSE fast
  BY <1>1 DEF CompiledLoad
<1>3. fast = IF pa # Unmapped /\ InRam(pa, q.n) THEN Loaded(Contents(pa, q.n)) ELSE Failed
  BY DEF jit_load
<1>4. /\ pf = {} => (bad = {} => slow = Loaded([i \in 1..q.n |-> Ram[B(i)]]))
      /\ pf \subseteq bad
  <2>1. LoadTranslated(q)
    BY LoadIsTranslated
  <2>2. bad = {} => \A i \in 1..q.n : ByteOk(q, q.mode, "load", i)
    BY DEF Refused
  <2>3. pf = {} => ((\A i \in 1..q.n : ByteOk(q, q.mode, "load", i)) =>
                      slow = Loaded([i \in 1..q.n |-> Ram[B(i)]]))
    BY <1>1, <2>1 DEF LoadTranslated
  <2>4. pf \subseteq bad
    BY DEF Faulting, Refused, ByteOk, BytePa
  <2> QED  BY <2>2, <2>3, <2>4
<1> HIDE DEF pa, fast, slow, B, pf, bad
<1>5. CASE pa # Unmapped /\ InRam(pa, q.n)
  <2>1. Contents(pa, q.n) = [i \in 1..q.n |-> Ram[B(i)]]
    BY <1>1, <1>5 DEF Contents
  <2>2. fast = slow
    BY <1>1, <1>3, <1>4, <1>5, <2>1
  <2> QED  BY <1>1, <1>2, <2>2 DEF slow
<1>6. CASE ~(pa # Unmapped /\ InRam(pa, q.n))
  BY <1>1, <1>2, <1>3, <1>6 DEF slow
<1> QED  BY <1>5, <1>6

\* ... a compiled store too ...
LEMMA StoresAgree ==
  ASSUME NEW q, IsAccess(q), ~Excepted(q, "store"),
         NEW val, Len(val) = q.n, DOMAIN val = 1..q.n
  PROVE  CompiledStore(q, val) = mmu_store(q.table, ls_mode(q), q.va, val)
<1> DEFINE n == q.n
           pa == Translate(q.table, q.mode, q.va, "store")
           fast == jit_store(q.table, q.mode, q.va, val)
           slow == mmu_store(q.table, q.mode, q.va, val)
           B(i) == BytePa(q, q.mode, "store", i)
           s == Split(q.table, q.mode, q.va, n, "store")
           pf == Faulting(q, q.mode, "store")
           bad == Refused(q, q.mode, "store")
           done == Through(s, n)
           after == [p \in DOMAIN Ram |->
                       IF \E i \in 1..done : ByteAt(s, i) = p
                       THEN val[CHOOSE i \in 1..done : ByteAt(s, i) = p] ELSE Ram[p]]
<1>0. IsTable(q.table) /\ q.va \in Nat /\ q.n \in Nat
  BY RamAssumption DEF IsAccess
<1>a. ~Excepted(q, "store")
  OBVIOUS
<1>1. /\ ls_mode(q) = q.mode
      /\ pa # Unmapped /\ InRam(pa, n) =>
           pa \in Nat /\ bad = {} /\ \A i \in 1..n : B(i) = pa + i - 1
  BY ONLY <1>0, <1>a, Contiguous
<1>2. CompiledStore(q, val) = IF fast = Failed THEN slow ELSE fast
  BY <1>1 DEF CompiledStore
<1>3. fast = IF pa # Unmapped /\ InRam(pa, n) THEN Stored(Written(pa, val)) ELSE Failed
  BY DEF jit_store
<1>4. /\ s.pa1 = Unmapped \/ s.pa2 = Unmapped => bad # {}
      /\ s.pa1 # Unmapped /\ s.pa2 # Unmapped =>
           /\ \A i \in 1..n : B(i) = ByteAt(s, i)
           /\ bad = {} => done = n
  BY Outcome
<1>5. s.pa1 # Unmapped /\ s.pa2 # Unmapped =>
        slow = IF done < n THEN Fault(7, q.va + done, after) ELSE Stored(after)
  BY DEF mmu_store
<1>6. n \in Nat /\ \A p \in DOMAIN Ram : p \in Int
  BY RamAssumption DEF IsAccess
<1> HIDE DEF pa, fast, slow, B, pf, bad, n, s, done
<1>7. CASE pa # Unmapped /\ InRam(pa, n)
  <2>1. /\ s.pa1 # Unmapped /\ s.pa2 # Unmapped /\ done = n /\ pa \in Nat
        /\ \A i \in 1..n : ByteAt(s, i) = pa + i - 1
    BY <1>1, <1>4, <1>7
  <2>2. slow = Stored(after)
    BY <1>5, <1>6, <2>1
  <2>3. ASSUME NEW p \in DOMAIN Ram
        PROVE  (IF \E i \in 1..done : ByteAt(s, i) = p
                THEN val[CHOOSE i \in 1..done : ByteAt(s, i) = p] ELSE Ram[p])
               = IF p - pa + 1 \in DOMAIN val THEN val[p - pa + 1] ELSE Ram[p]
    <3>1. p \in Int /\ DOMAIN val = 1..n
      BY <1>6 DEF n
    <3>2. \A i \in 1..done : ByteAt(s, i) = p <=> i = p - pa + 1
      BY <1>6, <2>1, <3>1
    <3>3. CASE p - pa + 1 \in 1..n
      <4>1. (CHOOSE i \in 1..done : ByteAt(s, i) = p) = p - pa + 1
        BY <2>1, <3>2, <3>3
      <4> QED  BY <2>1, <3>1, <3>2, <3>3, <4>1
    <3>4. CASE p - pa + 1 \notin 1..n
      BY <2>1, <3>1, <3>2, <3>4
    <3> QED  BY <3>3, <3>4
  <2>4. after = Written(pa, val)
    BY <2>3 DEF Written
  <2> HIDE DEF after
  <2>5. fast = slow
    BY <1>3, <1>7, <2>2, <2>4
  <2> QED  BY <1>1, <1>2, <2>5 DEF slow
<1>8. CASE ~(pa # Unmapped /\ InRam(pa, n))
  BY <1>1, <1>2, <1>3, <1>8 DEF slow
<1> QED  BY <1>7, <1>8

\* ... and the instruction word the compiler reads.
LEMMA FetchesAgree ==
  ASSUME NEW q, IsTable(q.table), q.va \in Nat,
         NEW f, f.table = q.table, f.mode = q.mode, f.va = q.va, f.n = 4, ~Excepted(f, "fetch")
  PROVE  CompiledFetch(q) = fetch(q.table, q.mode, q.va)
<1> DEFINE pa == Translate(q.table, q.mode, q.va, "fetch")
           hi == Translate(q.table, q.mode, q.va + 2, "fetch")
<1>1. /\ CompiledFetch(q) = IF pa # Unmapped /\ InRam(pa, 4) THEN Loaded(Contents(pa, 4))
                             ELSE fetch(q.table, q.mode, q.va)
  BY DEF CompiledFetch
<1>2. CASE ~(pa # Unmapped /\ InRam(pa, 4))
  BY <1>1, <1>2
<1>3. CASE pa # Unmapped /\ InRam(pa, 4)
  <2>1. pa \in Nat /\ \A i \in 1..4 : BytePa(f, q.mode, "fetch", i) = pa + i - 1
    <3>1. f.n \in Nat /\ IsTable(f.table) /\ f.va \in Nat
      OBVIOUS
    <3> QED  BY <1>3, <3>1, Contiguous
  <2>2. hi = pa + 2
    <3>1. BytePa(f, q.mode, "fetch", 3) = pa + 3 - 1
      BY <2>1
    <3>2. q.va + 3 - 1 = q.va + 2 /\ pa + 3 - 1 = pa + 2
      BY <2>1
    <3> QED  BY <3>1, <3>2 DEF BytePa
  <2>3. /\ InRam(pa, 2) /\ InRam(pa + 2, 2) /\ pa + 2 # Unmapped
    BY <1>3, <2>1, RamAssumption DEF InRam, Unmapped
  <2>4. fetch(q.table, q.mode, q.va) = Loaded(Contents(pa, 2) \o Contents(pa + 2, 2))
    <3>1. (IF q.va % PSize = PSize - 2 THEN hi ELSE pa + 2) = pa + 2
      BY <2>2
    <3> QED  BY <1>3, <2>3, <3>1 DEF fetch
  <2>5. Contents(pa, 2) \o Contents(pa + 2, 2) = Contents(pa, 4)
    <3> DEFINE lo == Contents(pa, 2)
               up == Contents(pa + 2, 2)
    <3>1. \A p \in pa..(pa + 3) : Ram[p] \in Int
      <4>1. \A p \in pa..(pa + 3) : p \in RamBase..(RamEnd - 1)
        <5>1. /\ pa \in Nat /\ RamBase \in Nat /\ RamEnd \in Nat
              /\ pa >= RamBase /\ pa + 4 <= RamEnd
          BY <1>3, <2>1, RamAssumption DEF InRam
        <5> HIDE DEF pa
        <5> QED  BY ONLY <5>1
      <4>2. \A p \in RamBase..(RamEnd - 1) : Ram[p] \in Int
        BY RamAssumption
      <4> QED  BY <4>1, <4>2, Zenon
    <3>2. /\ lo \in Seq(Int) /\ Len(lo) = 2 /\ lo[1] = Ram[pa] /\ lo[2] = Ram[pa + 1]
      BY <2>1, <3>1 DEF Contents
    <3>3. /\ up \in Seq(Int) /\ Len(up) = 2 /\ up[1] = Ram[pa + 2] /\ up[2] = Ram[pa + 3]
      BY <2>1, <3>1 DEF Contents
    <3> DEFINE both == Contents(pa, 4)
    <3>4. /\ both \in Seq(Int) /\ Len(both) = 4
          /\ both[1] = Ram[pa] /\ both[2] = Ram[pa + 1]
          /\ both[3] = Ram[pa + 2] /\ both[4] = Ram[pa + 3]
      BY <2>1, <3>1 DEF Contents
    <3> HIDE DEF lo, up, both
    <3>5. /\ lo \o up \in Seq(Int) /\ Len(lo \o up) = 4
          /\ \A i \in 1..4 : (lo \o up)[i] = IF i <= 2 THEN lo[i] ELSE up[i - 2]
      <4>1. /\ lo \o up \in Seq(Int) /\ Len(lo \o up) = Len(lo) + Len(up)
            /\ \A i \in 1..(Len(lo) + Len(up)) :
                  (lo \o up)[i] = IF i <= Len(lo) THEN lo[i] ELSE up[i - Len(lo)]
        BY <3>2, <3>3, ConcatProperties
      <4>2. Len(lo) + Len(up) = 4 /\ Len(lo) = 2
        BY <3>2, <3>3
      <4> QED  BY ONLY <4>1, <4>2
    <3>6. \A i \in 1..4 : (lo \o up)[i] = both[i]
      <4> TAKE i \in 1..4
      <4>1. i = 1 \/ i = 2 \/ i = 3 \/ i = 4
        OBVIOUS
      <4> QED  BY <3>2, <3>3, <3>4, <3>5, <4>1
    <3>7. lo \o up = both
      BY <3>4, <3>5, <3>6, SeqEqual
    <3> QED  BY <3>7 DEF lo, up, both
  <2> QED  BY <1>1, <1>3, <2>4, <2>5
<1> QED  BY <1>2, <1>3

--------------------------------------------------------------------------------
(* CSR instructions.                                                        *)

\* A file whose registers are never what the code's writes cannot leave in them.
IsFile(s) ==
  /\ DOMAIN s = Registers
  /\ s.mstatus \cap UxlSxl = {} /\ 0 \notin s.mepc /\ 0 \notin s.sepc

\* What a write leaves in the register it is to.
Stays(s, name, v) ==
  CASE name = "mstatus" -> v \ UxlSxl
    [] name = "sstatus" -> Merge(s.mstatus, v, SstatusWrite)
    [] name = "sie" -> Merge(s.mie, v, SLevel)
    [] name = "sip" -> Merge(s.mip, v, {1})
    [] name \in {"mepc", "sepc"} -> v \ {0}
    [] name = "satp" -> IF v \cap (60..63) \in {{}, {63}} THEN v ELSE s.satp
    [] name \in {"mie", "mip", "medeleg", "stvec"} -> v

LEMMA WritesOne ==
  ASSUME NEW s, IsFile(s), NEW name \in CsrNames, NEW v
  PROVE  LET after == csr_write(s, name, v)
         IN  /\ \A c \in Registers \ {Owner(name)} : after[c] = s[c]
             /\ Owner(name) \in Registers => after[Owner(name)] = Stays(s, name, v)
BY DEF IsFile, CsrNames, Registers, csr_write, Owner, Stays

\* A write changes, of the register's bits, those that differ from what is read
\* as it, and through a supervisor's view none that is the machine's.
LEMMA WritesNamed ==
  ASSUME NEW s, IsFile(s), NEW name \in CsrNames, Owner(name) \in Registers, NEW v, NEW mask,
         NEW old, old = csr_read(s, name), Changed(old, v) \subseteq mask
  PROVE  Changed(s[Owner(name)], Stays(s, name, v)) \subseteq mask
<1> USE DEF Changed, Stays, csr_read, Owner
<1>1. CASE name = "mstatus"
  <2>1. old = s.mstatus \cup {33, 35} /\ 33 \in UxlSxl /\ 35 \in UxlSxl
    BY <1>1 DEF UxlSxl
  <2> QED  BY <1>1, <2>1 DEF IsFile
<1>2. CASE name = "sstatus"
  <2>1. old = (s.mstatus \cup {33}) \cap SstatusRead
    BY <1>2
  <2>2. 33 \notin SstatusWrite /\ SstatusWrite \subseteq SstatusRead
    BY DEF SstatusWrite, SstatusRead
  <2> QED  BY <1>2, <2>1, <2>2 DEF Merge
<1>3. CASE name = "sie"
  BY <1>3 DEF Merge
<1>4. CASE name = "sip"
  BY <1>4 DEF Merge, SLevel
<1>5. CASE name \in {"mepc", "sepc"}
  BY <1>5 DEF IsFile
<1>6. CASE name \in {"satp", "mie", "medeleg", "stvec", "mip"}
  BY <1>6
<1> QED  BY <1>1, <1>2, <1>3, <1>4, <1>5, <1>6 DEF CsrNames, Registers

\* Through a supervisor's view it changes none of the machine's bits.
LEMMA WritesGuarded ==
  ASSUME NEW s, IsFile(s), NEW name \in CsrNames, Owner(name) \in Registers, NEW v
  PROVE  Changed(s[Owner(name)], Stays(s, name, v)) \cap Protected(name) = {}
<1>1. CASE name = "sstatus"
  BY <1>1 DEF Owner, Stays, Protected, Changed, Merge, SstatusWrite
<1>2. CASE name = "sie"
  BY <1>2 DEF Owner, Stays, Protected, Changed, Merge, SLevel
<1>3. CASE name = "sip"
  BY <1>3 DEF Owner, Stays, Protected, Changed, Merge
<1>4. CASE name \notin {"sstatus", "sie", "sip"}
  BY <1>4 DEF Protected
<1> QED  BY <1>1, <1>2, <1>3, <1>4

\* CSR instructions are isolated, for register files of any contents.
LEMMA Isolated ==
  ASSUME NEW op \in {"w", "s", "c"}, NEW csr \in CsrNames,
         NEW rd0 \in BOOLEAN, NEW src0 \in BOOLEAN,
         NEW mode, NEW s, IsFile(s), NEW v, src0 => v = {}
  PROVE  AccessIsolated([op |-> op, csr |-> csr, rd0 |-> rd0, src0 |-> src0], mode, s, v)
<1> DEFINE i == [op |-> op, csr |-> csr, rd0 |-> rd0, src0 |-> src0]
           r == Zicsr(i, mode, s, v)
           own == Owner(csr)
           old == IF op = "w" /\ rd0 THEN {} ELSE csr_read(s, csr)
           new == CASE op = "w" -> v [] op = "s" -> old \cup v [] op = "c" -> old \ v
           after == IF op # "w" /\ src0 THEN s ELSE csr_write(s, csr, new)
<1>1. i.op = op /\ i.csr = csr /\ i.rd0 = rd0 /\ i.src0 = src0
  OBVIOUS
<1>2. \/ r = [trap |-> TRUE, s |-> s, rd |-> {}, invalidate |-> FALSE]
      \/ r = [trap |-> FALSE, s |-> after, rd |-> old,
              invalidate |-> Ppn(after.satp) # Ppn(s.satp)]
  BY <1>1 DEF Zicsr
<1>3. /\ \A c \in Registers \ {own} : after[c] = s[c]
      /\ own \in Registers => after[own] = s[own] \/ after[own] = Stays(s, csr, new)
  BY WritesOne
<1>4. own \in Registers => Changed(s[own], after[own]) \cap Protected(csr) = {}
  <2>1. Changed(s[own], s[own]) = {}
    BY DEF Changed
  <2> QED  BY <1>3, <2>1, WritesGuarded
<1>5. own \in Registers /\ op # "w" =>
        Changed(s[own], after[own]) \subseteq (IF src0 THEN {} ELSE v)
  <2> SUFFICES ASSUME own \in Registers, op # "w"
               PROVE  Changed(s[own], after[own]) \subseteq (IF src0 THEN {} ELSE v)
    OBVIOUS
  <2>1. CASE src0
    BY <2>1 DEF Changed
  <2>2. CASE ~src0
    <3>1. old = csr_read(s, csr) /\ Changed(old, new) \subseteq v
      BY DEF Changed
    <3>2. Changed(s[own], Stays(s, csr, new)) \subseteq v
      BY <3>1, WritesNamed
    <3>3. Changed(s[own], s[own]) = {}
      BY DEF Changed
    <3> QED  BY <1>3, <2>2, <3>2, <3>3
  <2> QED  BY <2>1, <2>2
<1>6. ~rd0 => old = csr_read(s, csr)
  OBVIOUS
<1>a. AccessIsolated(i, mode, s, v) <=>
        /\ r.trap => r.s = s /\ ~r.invalidate
        /\ \A c \in Registers \ {own} : r.s[c] = s[c]
        /\ own \in Registers =>
             /\ op # "w" => Changed(s[own], r.s[own]) \subseteq (IF src0 THEN {} ELSE v)
             /\ Changed(s[own], r.s[own]) \cap Protected(csr) = {}
        /\ ~r.trap /\ ~rd0 => r.rd = csr_read(s, csr)
        /\ r.invalidate <=> Ppn(s.satp) # Ppn(r.s.satp)
  BY <1>1 DEF AccessIsolated
<1>7. CASE r = [trap |-> TRUE, s |-> s, rd |-> {}, invalidate |-> FALSE]
  <2>1. r.trap = TRUE /\ r.s = s /\ r.invalidate = FALSE
    BY <1>7
  <2>2. Changed(s[own], s[own]) = {}
    BY DEF Changed
  <2> HIDE DEF r, own, i
  <2>3. AccessIsolated(i, mode, s, v)
    BY <1>a, <2>1, <2>2
  <2> QED  BY <2>3 DEF i
<1>8. CASE r = [trap |-> FALSE, s |-> after, rd |-> old,
               invalidate |-> Ppn(after.satp) # Ppn(s.satp)]
  <2>1. r.trap = FALSE /\ r.s = after /\ r.rd = old
        /\ r.invalidate = (Ppn(after.satp) # Ppn(s.satp))
    BY <1>8
  <2> HIDE DEF r, after, old, own, i
  <2>2. /\ ~r.trap /\ ~rd0 => r.rd = csr_read(s, csr)
        /\ r.invalidate <=> Ppn(s.satp) # Ppn(r.s.satp)
    BY <1>6, <2>1
  <2>3. AccessIsolated(i, mode, s, v)
    BY ONLY <1>3, <1>4, <1>5, <1>a, <2>1, <2>2
  <2> QED  BY <2>3 DEF i
<1> QED  BY <1>2, <1>7, <1>8

--------------------------------------------------------------------------------
(* Division and multiplication.                                             *)

\* Induction on the natural numbers, as sets: there is no least one outside T.
LEMMA Induct ==
  ASSUME NEW T, 0 \in T, \A n \in Nat : n \in T => n + 1 \in T
  PROVE  Nat \subseteq T
<1> DEFINE R == OpToRel(<, Nat)
           U == Nat \ T
<1>1. SUFFICES ASSUME U # {} PROVE FALSE
  OBVIOUS
<1>2. IsWellFoundedOn(R, Nat)
  BY NatLessThanWellFounded, Zenon
<1>3. \A i, j \in Nat : i < j => <<i, j>> \in R
  BY DEF OpToRel
<1>4. U \subseteq Nat
  OBVIOUS
<1> HIDE DEF R
<1>5. PICK x \in U : \A y \in U : ~(<<y, x>> \in R)
  BY <1>1, <1>2, <1>4, WFMin
<1>6. x # 0 /\ x \in Nat
  OBVIOUS
<1>7. x - 1 \in Nat /\ x - 1 < x /\ (x - 1) + 1 = x
  BY <1>6
<1>8. x - 1 \notin U
  BY <1>3, <1>5, <1>6, <1>7
<1>9. x - 1 \in T
  BY <1>7, <1>8
<1> QED  BY <1>7, <1>9

\* A power of two, under a name of its own.
Two(k) == 2^k

\* The widths of registers, and the powers of two up to the greater.
LEMMA Powers ==
  /\ XLEN \in Nat /\ WLEN \in Nat /\ WLEN >= 2 /\ XLEN = WLEN + WLEN
  /\ Two(0) = 1
  /\ \A k \in Nat : k < XLEN => Two(k + 1) = 2 * Two(k)
  /\ \A k \in Nat : k <= XLEN => Two(k) \in Nat /\ k < Two(k)
<1>1. XLEN \in Nat /\ WLEN \in Nat /\ WLEN >= 2 /\ XLEN = WLEN + WLEN
  BY WidthAssumption
<1>2. /\ Two(0) = 1
      /\ \A k \in 0..(XLEN - 1) : Two(k) \in Nat /\ Two(k + 1) = 2 * Two(k)
  BY PowerAssumption DEF Two
<1> DEFINE T == {k \in Nat : k <= XLEN => Two(k) \in Nat /\ k < Two(k)}
<1>3. 0 \in T
  BY <1>2
<1>4. ASSUME NEW k \in Nat, k \in T PROVE k + 1 \in T
  BY <1>1, <1>2, <1>4
<1>5. Nat \subseteq T
  <2> HIDE DEF T
  <2> QED  BY <1>3, <1>4, Induct
<1> QED  BY <1>1, <1>2, <1>5

\* The law of exponents.
LEMMA PowerSum ==
  ASSUME NEW j \in Nat, NEW i \in Nat, j + i <= XLEN
  PROVE  Two(j + i) = Two(j) * Two(i)
<1> DEFINE T == {k \in Nat : j + k <= XLEN => Two(j + k) = Two(j) * Two(k)}
<1>1. Two(j) \in Nat
  BY Powers
<1>2. 0 \in T
  BY <1>1, Powers
<1>3. ASSUME NEW k \in Nat, k \in T PROVE k + 1 \in T
  <2> SUFFICES ASSUME j + (k + 1) <= XLEN PROVE Two(j + (k + 1)) = Two(j) * Two(k + 1)
    OBVIOUS
  <2>1. Two((j + k) + 1) = 2 * Two(j + k) /\ Two(k + 1) = 2 * Two(k) /\ Two(k) \in Nat
    BY Powers
  <2>2. Two(j + k) = Two(j) * Two(k)
    BY <1>3, Powers
  <2>3. j + (k + 1) = (j + k) + 1
    OBVIOUS
  <2>4. Two(j + (k + 1)) = 2 * (Two(j) * Two(k))
    BY <2>1, <2>2, <2>3
  <2>5. 2 * (Two(j) * Two(k)) = Two(j) * (2 * Two(k))
    BY <1>1, <2>1
  <2> QED  BY <2>1, <2>4, <2>5
<1>4. i \in T
  <2> HIDE DEF T
  <2> QED  BY <1>2, <1>3, Induct
<1> QED  BY <1>4

\* The powers of two the registers' widths stand for.
LEMMA Widths ==
  /\ Modulus \in Nat /\ WModulus \in Nat /\ MinSigned \in Nat /\ MinSignedW \in Nat
  /\ Modulus = 2 * MinSigned /\ WModulus = 2 * MinSignedW
  /\ Modulus = WModulus * WModulus /\ MinSignedW >= 2 /\ MinSignedW < MinSigned
<1>1. /\ Modulus = Two(XLEN) /\ WModulus = Two(WLEN)
      /\ MinSigned = Two(XLEN - 1) /\ MinSignedW = Two(WLEN - 1)
  BY DEF Modulus, WModulus, MinSigned, MinSignedW, Two
<1>2. Two(XLEN) \in Nat /\ Two(WLEN) \in Nat /\ Two(XLEN - 1) \in Nat /\ Two(WLEN - 1) \in Nat
      /\ Two(WLEN - 1) > WLEN - 1
  <2>1. XLEN - 1 \in Nat /\ WLEN - 1 \in Nat /\ WLEN <= XLEN /\ WLEN - 1 <= XLEN
        /\ XLEN <= XLEN /\ XLEN - 1 <= XLEN
    BY Powers
  <2> QED  BY <2>1, Powers
<1>3. Two((XLEN - 1) + 1) = 2 * Two(XLEN - 1) /\ Two((WLEN - 1) + 1) = 2 * Two(WLEN - 1)
  <2>1. XLEN - 1 \in Nat /\ WLEN - 1 \in Nat /\ XLEN - 1 < XLEN /\ WLEN - 1 < XLEN
    BY Powers
  <2> QED  BY <2>1, Powers
<1>4. (XLEN - 1) + 1 = XLEN /\ (WLEN - 1) + 1 = WLEN
  BY Powers
<1>5. Two(XLEN) = Two(WLEN) * Two(WLEN)
  BY Powers, PowerSum
<1> DEFINE k == MinSignedW
           h == MinSigned
<1>6. k \in Nat /\ h \in Nat /\ k >= 2 /\ Modulus = 2 * h /\ WModulus = 2 * k
      /\ Modulus = WModulus * WModulus
  BY <1>1, <1>2, <1>3, <1>4, <1>5, Powers
<1> HIDE DEF k, h
<1>7. 2 * h = (2 * k) * (2 * k)
  BY <1>6
<1>8. (2 * k) * (2 * k) >= (2 * k) * 4
  BY <1>6
<1>9. k < h
  BY <1>6, <1>7, <1>8
<1> QED  BY <1>1, <1>2, <1>6, <1>9 DEF k, h
\* Quotient and remainder.
LEMMA Euclid ==
  ASSUME NEW N \in Nat, N > 0, NEW x \in Int
  PROVE  x = ((x \div N) * N) + (x % N) /\ x % N \in 0..(N - 1) /\ x \div N \in Int
OBVIOUS

\* They are the only ones ...
LEMMA EuclidUnique ==
  ASSUME NEW N \in Nat, N > 0, NEW q \in Int, NEW r \in 0..(N - 1)
  PROVE  ((q * N) + r) \div N = q /\ ((q * N) + r) % N = r
OBVIOUS

\* ... so a multiple of the divisor does not change the remainder ...
LEMMA Congruent ==
  ASSUME NEW N \in Nat, N > 0, NEW x \in Int, NEW k \in Int
  PROVE  (x + (k * N)) % N = x % N
<1> DEFINE q == x \div N
           r == x % N
<1>1. x = (q * N) + r /\ r \in 0..(N - 1) /\ q \in Int
  BY Euclid
<1> HIDE DEF q, r
<1>2. x + (k * N) = ((q + k) * N) + r
  BY <1>1
<1>3. q + k \in Int
  BY <1>1
<1>4. (((q + k) * N) + r) % N = r
  BY <1>1, <1>3, EuclidUnique
<1> QED  BY <1>2, <1>4 DEF r

\* ... which is the number itself if that is small.
LEMMA SmallMod ==
  ASSUME NEW N \in Nat, N > 0, NEW x \in Int
  PROVE  /\ x \in 0..(N - 1) => x % N = x
         /\ x \in (-N)..(-1) => x % N = x + N
OBVIOUS

\* The number an n-bit word is in two's complement, for n = XLEN and n = WLEN: the
\* one of its residue class in the range.
LEMMA SignedValue ==
  ASSUME NEW N \in Nat, NEW H \in Nat, N = 2 * H, H > 0, NEW v \in Int
  PROVE  LET s == IF v % N >= H THEN (v % N) - N ELSE v % N
         IN  s \in (-H)..(H - 1) /\ s % N = v % N /\ \E i \in Int : s = v + (i * N)
<1> DEFINE r == v % N
           q == v \div N
           s == IF r >= H THEN r - N ELSE r
<1>1. v = (q * N) + r /\ r \in 0..(N - 1) /\ q \in Int
  BY Euclid
<1> HIDE DEF r, q
<1>2. s \in (-H)..(H - 1)
  BY <1>1
<1>3. r % N = r
  BY <1>1, SmallMod
<1>4. (r - N) % N = r
  BY <1>1, SmallMod
<1>5. r = v + ((-q) * N) /\ r - N = v + ((-q - 1) * N)
  BY <1>1
<1>6. \E i \in Int : s = v + (i * N)
  <2>1. -q \in Int /\ -q - 1 \in Int
    BY <1>1
  <2>2. CASE r >= H
    BY <2>1, <2>2, <1>5
  <2>3. CASE ~(r >= H)
    BY <2>1, <2>3, <1>5
  <2> QED  BY <2>2, <2>3
<1>7. s % N = r
  BY <1>3, <1>4
<1> QED  BY <1>2, <1>6, <1>7 DEF r

\* A number of the range is the one its residue stands for.
LEMMA SignedOf ==
  ASSUME NEW N \in Nat, NEW H \in Nat, N = 2 * H, H > 0, NEW x \in (-H)..(H - 1)
  PROVE  (IF x % N >= H THEN (x % N) - N ELSE x % N) = x
<1>1. x >= 0 => x % N = x
  BY SmallMod
<1>2. x < 0 => x % N = x + N
  BY SmallMod
<1> QED  BY <1>1, <1>2

\* A remainder is its own.
LEMMA ModTwice ==
  ASSUME NEW N \in Nat, N > 0, NEW v \in Int
  PROVE  (v % N) % N = v % N
BY Euclid, SmallMod

\* The conversions of module Words, in these terms.
LEMMA Conversions ==
  /\ \A v \in Int : Wrap(v) \in Word /\ Low(v) \in 0..(WModulus - 1)
  /\ \A v \in Int : Signed(v) \in (-MinSigned)..(MinSigned - 1)
                    /\ \E i \in Int : Signed(v) = v + (i * Modulus)
  /\ \A v \in Int : SignedW(v) \in (-MinSignedW)..(MinSignedW - 1)
                    /\ \E i \in Int : SignedW(v) = v + (i * WModulus)
  /\ \A x \in (-MinSigned)..(MinSigned - 1) : Signed(x) = x /\ Signed(Wrap(x)) = x
  /\ \A x \in (-MinSignedW)..(MinSignedW - 1) : SignedW(x) = x
  /\ \A x, y \in Int : Wrap(x) = Wrap(y) => Signed(x) = Signed(y)
  /\ \A x, y \in Int : Low(x) = Low(y) => SignedW(x) = SignedW(y) /\ SextW(x) = SextW(y)
<1> DEFINE M == Modulus
           h == MinSigned
           W == WModulus
           k == MinSignedW
<1>1. M \in Nat /\ h \in Nat /\ M = 2 * h /\ h > 0
      /\ W \in Nat /\ k \in Nat /\ W = 2 * k /\ k > 0
      /\ M > 0 /\ W > 0
  BY Widths
<1>2. \A v : Signed(v) = IF v % M >= h THEN (v % M) - M ELSE v % M
  BY DEF Signed, SignedBits, Modulus, MinSigned
<1>3. \A v : SignedW(v) = IF v % W >= k THEN (v % W) - W ELSE v % W
  BY DEF SignedW, SignedBits, WModulus, MinSignedW
<1>4. \A v : Wrap(v) = v % M /\ Low(v) = v % W /\ SextW(v) = Wrap(SignedW(v))
  BY DEF Wrap, Low, SextW
<1>5. Word = 0..(M - 1)
  BY DEF Word
<1> HIDE DEF M, h, W, k
<1>6. ASSUME NEW v \in Int
      PROVE  /\ Wrap(v) \in Word /\ Low(v) \in 0..(W - 1)
             /\ Signed(v) \in (-h)..(h - 1) /\ \E i \in Int : Signed(v) = v + (i * M)
             /\ SignedW(v) \in (-k)..(k - 1) /\ \E i \in Int : SignedW(v) = v + (i * W)
  <2>1. Wrap(v) \in Word /\ Low(v) \in 0..(W - 1)
    BY <1>1, <1>4, <1>5, Euclid
  <2>2. Signed(v) \in (-h)..(h - 1) /\ \E i \in Int : Signed(v) = v + (i * M)
    <3>1. LET s == IF v % M >= h THEN (v % M) - M ELSE v % M
          IN  s \in (-h)..(h - 1) /\ s % M = v % M /\ \E i \in Int : s = v + (i * M)
      BY <1>1, SignedValue, Zenon
    <3>2. Signed(v) = IF v % M >= h THEN (v % M) - M ELSE v % M
      BY <1>2
    <3> QED  BY <3>1, <3>2, Zenon
  <2>3. SignedW(v) \in (-k)..(k - 1) /\ \E i \in Int : SignedW(v) = v + (i * W)
    <3>1. LET s == IF v % W >= k THEN (v % W) - W ELSE v % W
          IN  s \in (-k)..(k - 1) /\ s % W = v % W /\ \E i \in Int : s = v + (i * W)
      BY <1>1, SignedValue, Zenon
    <3>2. SignedW(v) = IF v % W >= k THEN (v % W) - W ELSE v % W
      BY <1>3
    <3> QED  BY <3>1, <3>2, Zenon
  <2> QED  BY <2>1, <2>2, <2>3
<1>7. ASSUME NEW x \in (-h)..(h - 1)
      PROVE  Signed(x) = x /\ Signed(Wrap(x)) = x
  <2>1. Signed(x) = x
    BY <1>1, <1>2, SignedOf
  <2>2. x \in Int
    BY <1>1
  <2>3. Wrap(x) % M = x % M
    BY <1>1, <1>4, <2>2, ModTwice
  <2> QED  BY <1>2, <2>1, <2>3
<1>8. ASSUME NEW x \in (-k)..(k - 1)
      PROVE  SignedW(x) = x
  BY <1>1, <1>3, SignedOf
<1>9. \A x, y \in Int : Wrap(x) = Wrap(y) => Signed(x) = Signed(y)
  BY <1>2, <1>4
<1>10. \A x, y \in Int : Low(x) = Low(y) => SignedW(x) = SignedW(y) /\ SextW(x) = SextW(y)
  BY <1>3, <1>4
<1> QED  BY <1>6, <1>7, <1>8, <1>9, <1>10 DEF M, h, W, k

\* A multiple of the modulus is lost in a conversion, one of Modulus in the W forms too.
LEMMA Multiples ==
  ASSUME NEW x \in Int, NEW i \in Int
  PROVE  /\ Wrap(x + (i * Modulus)) = Wrap(x)
         /\ Low(x + (i * WModulus)) = Low(x)
         /\ Low(x + (i * Modulus)) = Low(x)
<1>1. Modulus \in Nat /\ WModulus \in Nat /\ Modulus > 0 /\ WModulus > 0
      /\ Modulus = WModulus * WModulus
  BY Widths
<1>2. i * Modulus = (i * WModulus) * WModulus
  BY <1>1
<1>3. i * WModulus \in Int
  BY <1>1
<1>4. Wrap(x + (i * Modulus)) = Wrap(x)
  BY <1>1, Congruent DEF Wrap
<1>5. Low(x + (i * WModulus)) = Low(x)
  BY <1>1, Congruent DEF Low
<1>6. Low(x + ((i * WModulus) * WModulus)) = Low(x)
  BY <1>1, <1>3, Congruent DEF Low
<1> QED  BY <1>2, <1>4, <1>5, <1>6

\* Truncating division of the integers: the remainder is smaller than the divisor
\* and of the dividend's sign, and the quotient fits but for -H by -1.
LEMMA Truncates ==
  ASSUME NEW x \in Int, NEW y \in Int, y # 0
  PROVE  LET q == Quotient(x, y)
             r == Remainder(x, y)
         IN  /\ q \in Int /\ r \in Int /\ (y * q) + r = x
             /\ Abs(r) < Abs(y) /\ (r # 0 => (r < 0) = (x < 0))
             /\ Abs(q) <= Abs(x)
             /\ q = Abs(x) /\ q # 0 => Abs(y) = 1 /\ (x < 0) = (y < 0)
<1> DEFINE X == Abs(x)
           Y == Abs(y)
           d == X \div Y
           e == X % Y
           s == IF (x < 0) = (y < 0) THEN 1 ELSE -1
           t == IF x < 0 THEN -1 ELSE 1
           q == s * d
           r == x - (y * q)
<1>1. X \in Nat /\ Y \in Nat /\ Y > 0 /\ x = t * X /\ (x < 0 => X > 0)
      /\ y = (s * t) * Y /\ s \in {-1, 1} /\ t \in {-1, 1}
  BY DEF Abs
<1> HIDE DEF X, Y
<1>2. X = (d * Y) + e /\ e \in 0..(Y - 1) /\ d \in Int
  <2>1. X \in Int
    BY <1>1
  <2> QED  BY <1>1, <2>1, Euclid
<1> HIDE DEF d, e
<1>3. d >= 0
  BY <1>1, <1>2
<1>4. d <= d * Y
  BY <1>1, <1>2, <1>3
<1>5. d <= X
  BY <1>1, <1>2, <1>4
<1>6. y * q = t * (d * Y)
  <2>1. CASE s = 1 /\ t = 1
    BY <2>1, <1>1, <1>2
  <2>2. CASE s = 1 /\ t = -1
    BY <2>2, <1>1, <1>2
  <2>3. CASE s = -1 /\ t = 1
    BY <2>3, <1>1, <1>2
  <2>4. CASE s = -1 /\ t = -1
    BY <2>4, <1>1, <1>2
  <2> QED  BY <1>1, <2>1, <2>2, <2>3, <2>4
<1>7. r = t * e
  <2>1. d * Y \in Int /\ X = (d * Y) + e /\ e \in Int
    BY <1>1, <1>2
  <2>2. t * X = (t * (d * Y)) + (t * e)
    BY <2>1, <1>1
  <2> QED  BY <1>1, <1>6, <2>1, <2>2
<1>8. q \in Int /\ r \in Int /\ y * q \in Int
  BY <1>1, <1>2, <1>7
<1>9. (y * q) + r = x
  BY <1>8
<1>10. Abs(r) = e /\ Abs(q) = d
  BY <1>1, <1>2, <1>3, <1>7 DEF Abs
<1>11. (r # 0 => (r < 0) = (x < 0))
  <2>1. CASE t = 1
    BY <1>1, <1>2, <1>7, <2>1
  <2>2. CASE t = -1
    BY <1>1, <1>2, <1>7, <2>2
  <2> QED  BY <1>1, <2>1, <2>2
<1>12. ASSUME q = X, q # 0
       PROVE  Y = 1 /\ (x < 0) = (y < 0)
  <2>1. d > 0 /\ s = 1 /\ d = X
    <3>1. CASE s = 1
      BY <1>12, <1>1, <1>2, <1>3, <3>1
    <3>2. CASE s = -1
      BY <1>12, <1>1, <1>2, <1>3, <3>2
    <3> QED  BY <1>1, <3>1, <3>2
  <2>2. ~(Y > 1)
    <3> SUFFICES ASSUME Y > 1 PROVE FALSE
      OBVIOUS
    <3>1. d * Y >= d * 2
      BY <1>1, <1>2, <2>1
    <3> QED  BY <1>2, <1>1, <2>1, <3>1
  <2>3. (x < 0) = (y < 0)
    BY <2>1
  <2> QED  BY <1>1, <2>2, <2>3
<1>13. q = Quotient(x, y) /\ r = Remainder(x, y)
  BY DEF Quotient, Remainder, X, Y, d
<1>14. Abs(r) < Y
  BY <1>10, <1>2, <1>1
<1> HIDE DEF q, r
<1> QED
  BY <1>5, <1>8, <1>9, <1>10, <1>11, <1>12, <1>13, <1>14 DEF X, Y

\* So both are numbers of the range their operands are of.
LEMMA Fits ==
  ASSUME NEW H \in Nat, H > 0, NEW x \in (-H)..(H - 1), NEW y \in (-H)..(H - 1), y # 0,
         ~(x = -H /\ y = -1)
  PROVE  Quotient(x, y) \in (-H)..(H - 1) /\ Remainder(x, y) \in (-H)..(H - 1)
<1> DEFINE q == Quotient(x, y)
           r == Remainder(x, y)
<1>1. /\ q \in Int /\ r \in Int /\ Abs(r) < Abs(y) /\ Abs(q) <= Abs(x)
      /\ q = Abs(x) /\ q # 0 => Abs(y) = 1 /\ (x < 0) = (y < 0)
  BY Truncates
<1> HIDE DEF q, r
<1>2. r \in (-H)..(H - 1)
  BY <1>1 DEF Abs
<1>3. q >= -H /\ q <= H
  BY <1>1 DEF Abs
<1>4. q # H
  <2> SUFFICES ASSUME q = H PROVE FALSE
    OBVIOUS
  <2>1. Abs(x) = H /\ x = -H
    BY <1>1 DEF Abs
  <2>2. Abs(y) = 1 /\ y < 0
    BY <1>1, <2>1
  <2> QED  BY <2>1, <2>2 DEF Abs
<1> QED  BY <1>1, <1>2, <1>3, <1>4 DEF q, r

\* They are what the ISA asks for, where it has no special case.
LEMMA Dividing ==
  ASSUME NEW n \in {XLEN, WLEN}, NEW x \in Int, NEW y \in Int, y # 0
  PROVE  Divides(n, x, y, Quotient(x, y), Remainder(x, y))
<1> DEFINE q == Quotient(x, y)
           r == Remainder(x, y)
<1>1. /\ q \in Int /\ r \in Int /\ (y * q) + r = x
      /\ Abs(r) < Abs(y) /\ (r # 0 => (r < 0) = (x < 0))
  BY Truncates
<1> HIDE DEF q, r
<1>2. Divides(n, x, y, q, r)
  BY <1>1, Zenon DEF Divides
<1> QED  BY <1>2 DEF q, r

\* What the special cases of both widths come to.
LEMMA Specials ==
  /\ Ones = Wrap(-1) /\ Signed(Ones) = -1 /\ Low(Ones) = WModulus - 1
  /\ Signed(MinSigned) = -MinSigned /\ Signed(0) = 0 /\ SignedW(0) = 0 /\ Wrap(0) = 0
  /\ SextW(0) = 0 /\ SextW(-1) = Ones /\ Signed(SextW(MinSignedW)) = -MinSignedW
<1>1. /\ Modulus \in Nat /\ WModulus \in Nat /\ MinSigned \in Nat /\ MinSignedW \in Nat
      /\ Modulus = 2 * MinSigned /\ WModulus = 2 * MinSignedW
      /\ MinSignedW >= 2 /\ MinSignedW < MinSigned
  BY Widths
<1>2. Ones = Wrap(-1) /\ Wrap(0) = 0
  BY <1>1, SmallMod DEF Ones, Wrap, Modulus
<1>3. Signed(Ones) = -1 /\ Signed(0) = 0
  <2>1. -1 \in (-MinSigned)..(MinSigned - 1) /\ 0 \in (-MinSigned)..(MinSigned - 1)
    BY <1>1
  <2> QED  BY <1>2, <2>1, Conversions
<1>4. SignedW(0) = 0 /\ SignedW(-1) = -1
  <2>1. -1 \in (-MinSignedW)..(MinSignedW - 1) /\ 0 \in (-MinSignedW)..(MinSignedW - 1)
    BY <1>1
  <2> QED  BY <2>1, Conversions
<1>5. SextW(0) = 0 /\ SextW(-1) = Ones
  BY <1>2, <1>4 DEF SextW
<1>6. Low(Ones) = WModulus - 1
  <2>1. Ones = -1 + (1 * Modulus)
    BY <1>1 DEF Ones, Modulus
  <2>2. Low(Ones) = Low(-1)
    <3>1. -1 \in Int /\ 1 \in Int
      OBVIOUS
    <3> QED  BY <3>1, <2>1, Multiples
  <2>3. (-1) % WModulus = WModulus - 1
    BY <1>1, SmallMod
  <2> QED  BY <2>2, <2>3 DEF Low
<1>7. Signed(MinSigned) = -MinSigned
  <2>1. MinSigned % Modulus = MinSigned
    BY <1>1, SmallMod
  <2>2. Signed(MinSigned) = IF MinSigned % Modulus >= MinSigned
                            THEN (MinSigned % Modulus) - Modulus
                            ELSE MinSigned % Modulus
    BY DEF Signed, SignedBits, Modulus, MinSigned
  <2> QED  BY <1>1, <2>1, <2>2
<1>8. SignedW(MinSignedW) = -MinSignedW
  <2>1. MinSignedW % WModulus = MinSignedW
    BY <1>1, SmallMod
  <2>2. SignedW(MinSignedW) = IF MinSignedW % WModulus >= MinSignedW
                              THEN (MinSignedW % WModulus) - WModulus
                              ELSE MinSignedW % WModulus
    BY DEF SignedW, SignedBits, WModulus, MinSignedW
  <2> QED  BY <1>1, <2>1, <2>2
<1>9. Signed(SextW(MinSignedW)) = -MinSignedW
  <2>1. -MinSignedW \in (-MinSigned)..(MinSigned - 1)
    BY <1>1
  <2> QED  BY <1>8, <2>1, Conversions DEF SextW
<1> QED  BY <1>2, <1>3, <1>4, <1>5, <1>6, <1>7, <1>9

\* A word is zero, or least, exactly when the number it stands for is.
LEMMA Corresponds ==
  /\ \A v \in Word : /\ v = 0 <=> Signed(v) = 0
                     /\ v = MinSigned <=> Signed(v) = -MinSigned
                     /\ v = Ones <=> Signed(v) = -1
                     /\ v \in Int
  /\ \A v \in Int : /\ Low(v) = 0 <=> SignedW(v) = 0
                    /\ Low(v) = MinSignedW <=> SignedW(v) = -MinSignedW
<1>1. /\ Modulus \in Nat /\ WModulus \in Nat /\ MinSigned \in Nat /\ MinSignedW \in Nat
      /\ Modulus = 2 * MinSigned /\ WModulus = 2 * MinSignedW
      /\ MinSignedW >= 2 /\ MinSigned >= 2
  BY Widths
<1>2. ASSUME NEW v \in Word
      PROVE  v \in 0..(Modulus - 1) /\ v \in Int
             /\ Signed(v) = IF v >= MinSigned THEN v - Modulus ELSE v
  <2>1. v \in 0..(Modulus - 1) /\ v \in Int
    BY <1>1 DEF Word
  <2>2. v % Modulus = v
    BY <1>1, <2>1, SmallMod
  <2>3. Signed(v) = IF v % Modulus >= MinSigned THEN (v % Modulus) - Modulus ELSE v % Modulus
    BY DEF Signed, SignedBits, Modulus, MinSigned
  <2> QED  BY <2>1, <2>2, <2>3
<1>3. ASSUME NEW v \in Int
      PROVE  Low(v) \in 0..(WModulus - 1)
             /\ SignedW(v) = IF Low(v) >= MinSignedW THEN Low(v) - WModulus ELSE Low(v)
  BY Conversions DEF SignedW, SignedBits, WModulus, MinSignedW, Low
<1>4. Ones = Modulus - 1
  BY DEF Ones
<1>5. \A v \in Word : /\ v = 0 <=> Signed(v) = 0
                      /\ v = MinSigned <=> Signed(v) = -MinSigned
                      /\ v = Ones <=> Signed(v) = -1
                      /\ v \in Int
  BY <1>1, <1>2, <1>4
<1>6. \A v \in Int : /\ Low(v) = 0 <=> SignedW(v) = 0
                     /\ Low(v) = MinSignedW <=> SignedW(v) = -MinSignedW
  BY <1>1, <1>3
<1> QED  BY <1>5, <1>6

\* div and rem, special cases included ...
LEMMA SignedDivision ==
  ASSUME NEW a \in Word, NEW b \in Word
  PROVE  Divides(XLEN, Signed(a), Signed(b),
                 Signed(Divide("div", a, b)), Signed(Divide("rem", a, b)))
<1> DEFINE x == Signed(a)
           y == Signed(b)
           q == Divide("div", a, b)
           r == Divide("rem", a, b)
<1>1. /\ q = IF b = 0 THEN Ones
             ELSE IF a = MinSigned /\ b = Ones THEN MinSigned ELSE Wrap(Quotient(x, y))
      /\ r = IF b = 0 THEN a
             ELSE IF a = MinSigned /\ b = Ones THEN 0 ELSE Wrap(Remainder(x, y))
  BY DEF Divide
<1>2. /\ MinSigned \in Nat /\ MinSigned > 0 /\ Modulus \in Nat /\ Modulus = 2 * MinSigned
  BY Widths
<1>3. /\ a \in Int /\ b \in Int
      /\ x \in (-MinSigned)..(MinSigned - 1) /\ y \in (-MinSigned)..(MinSigned - 1)
      /\ b = 0 <=> y = 0
      /\ a = MinSigned <=> x = -MinSigned
      /\ b = Ones <=> y = -1
  <2>1. a \in Int /\ b \in Int
    BY Corresponds
  <2> QED  BY <2>1, Conversions, Corresponds
<1> HIDE DEF x, y, q, r
<1>4. CASE y = 0
  <2>1. Signed(q) = -1 /\ Signed(r) = x
    BY <1>1, <1>3, <1>4, Specials DEF x
  <2> QED  BY <1>4, <2>1 DEF Divides, x, y, q, r
<1>5. CASE x = -MinSigned /\ y = -1
  <2>1. Signed(q) = -MinSigned /\ Signed(r) = 0
    BY <1>1, <1>3, <1>5, Specials
  <2>2. (y * (-MinSigned)) + 0 = x + (1 * Modulus)
    BY <1>2, <1>5
  <2>3. ((y * (-MinSigned)) + 0) % Modulus = x % Modulus
    <3>1. x \in Int /\ 1 \in Int /\ Modulus > 0
      BY <1>2, <1>3
    <3> QED  BY <1>2, <2>2, <3>1, Congruent
  <2>4. Abs(0) < Abs(y)
    BY <1>5 DEF Abs
  <2>5. Divides(XLEN, x, y, -MinSigned, 0)
    BY <1>5, <2>3, <2>4 DEF Divides, Modulus, MinSigned
  <2> QED  BY <2>1, <2>5 DEF x, y, q, r
<1>6. CASE y # 0 /\ ~(x = -MinSigned /\ y = -1)
  <2>1. Quotient(x, y) \in (-MinSigned)..(MinSigned - 1)
        /\ Remainder(x, y) \in (-MinSigned)..(MinSigned - 1)
    BY <1>2, <1>3, <1>6, Fits
  <2>2. Signed(q) = Quotient(x, y) /\ Signed(r) = Remainder(x, y)
    <3>1. q = Wrap(Quotient(x, y)) /\ r = Wrap(Remainder(x, y))
      BY <1>1, <1>3, <1>6
    <3> QED  BY <2>1, <3>1, Conversions
  <2>3. x \in Int /\ y \in Int
    BY <1>2, <1>3
  <2>4. Divides(XLEN, x, y, Quotient(x, y), Remainder(x, y))
    BY <1>6, <2>3, Dividing
  <2> QED  BY <2>2, <2>4 DEF x, y, q, r
<1> QED  BY <1>4, <1>5, <1>6

\* ... and divw and remw.
LEMMA SignedDivisionW ==
  ASSUME NEW a \in Word, NEW b \in Word
  PROVE  Divides(WLEN, SignedW(a), SignedW(b),
                 Signed(DivideW("divw", a, b)), Signed(DivideW("remw", a, b)))
<1> DEFINE x == SignedW(a)
           y == SignedW(b)
           q == DivideW("divw", a, b)
           r == DivideW("remw", a, b)
<1>1. /\ q = IF Low(b) = 0 THEN Ones
             ELSE IF Low(a) = MinSignedW /\ y = -1 THEN SextW(MinSignedW)
             ELSE SextW(Quotient(x, y))
      /\ r = IF Low(b) = 0 THEN SextW(a)
             ELSE IF Low(a) = MinSignedW /\ y = -1 THEN 0
             ELSE SextW(Remainder(x, y))
  BY DEF DivideW
<1>2. /\ MinSignedW \in Nat /\ MinSignedW > 0 /\ WModulus \in Nat /\ WModulus = 2 * MinSignedW
      /\ MinSigned \in Nat /\ MinSignedW < MinSigned
  BY Widths
<1>3. /\ a \in Int /\ b \in Int
      /\ x \in (-MinSignedW)..(MinSignedW - 1) /\ y \in (-MinSignedW)..(MinSignedW - 1)
      /\ Low(b) = 0 <=> y = 0
      /\ Low(a) = MinSignedW <=> x = -MinSignedW
  <2>1. a \in Int /\ b \in Int
    BY Corresponds
  <2> QED  BY <2>1, Conversions, Corresponds
<1>4. ASSUME NEW v \in (-MinSignedW)..(MinSignedW - 1)
      PROVE  Signed(SextW(v)) = v
  <2>1. SextW(v) = Wrap(v)
    BY Conversions DEF SextW
  <2>2. v \in (-MinSigned)..(MinSigned - 1)
    BY <1>2
  <2> QED  BY <2>1, <2>2, Conversions
<1>5. Signed(SextW(a)) = x
  <2>1. x \in (-MinSigned)..(MinSigned - 1)
    BY <1>2, <1>3
  <2> QED  BY <2>1, Conversions DEF SextW
<1> HIDE DEF x, y, q, r
<1>6. CASE y = 0
  <2>1. Signed(q) = -1 /\ Signed(r) = x
    BY <1>1, <1>3, <1>5, <1>6, Specials
  <2> QED  BY <1>6, <2>1 DEF Divides, x, y, q, r
<1>7. CASE x = -MinSignedW /\ y = -1
  <2>1. Signed(q) = -MinSignedW /\ Signed(r) = 0
    BY <1>1, <1>3, <1>7, Specials
  <2>2. (y * (-MinSignedW)) + 0 = x + (1 * WModulus)
    BY <1>2, <1>7
  <2>3. ((y * (-MinSignedW)) + 0) % WModulus = x % WModulus
    <3>1. x \in Int /\ 1 \in Int /\ WModulus > 0
      BY <1>2, <1>3
    <3> QED  BY <1>2, <2>2, <3>1, Congruent
  <2>4. Abs(0) < Abs(y)
    BY <1>7 DEF Abs
  <2>5. Divides(WLEN, x, y, -MinSignedW, 0)
    BY <1>7, <2>3, <2>4 DEF Divides, WModulus, MinSignedW
  <2> QED  BY <2>1, <2>5 DEF x, y, q, r
<1>8. CASE y # 0 /\ ~(x = -MinSignedW /\ y = -1)
  <2>1. Quotient(x, y) \in (-MinSignedW)..(MinSignedW - 1)
        /\ Remainder(x, y) \in (-MinSignedW)..(MinSignedW - 1)
    BY <1>2, <1>3, <1>8, Fits
  <2>2. Signed(q) = Quotient(x, y) /\ Signed(r) = Remainder(x, y)
    <3>1. q = SextW(Quotient(x, y)) /\ r = SextW(Remainder(x, y))
      BY <1>1, <1>3, <1>8
    <3> QED  BY <2>1, <3>1, <1>4
  <2>3. x \in Int /\ y \in Int
    BY <1>2, <1>3
  <2>4. Divides(WLEN, x, y, Quotient(x, y), Remainder(x, y))
    BY <1>8, <2>3, Dividing
  <2> QED  BY <2>2, <2>4 DEF x, y, q, r
<1> QED  BY <1>6, <1>7, <1>8

\* Division of natural numbers.
LEMMA UnsignedDivision ==
  ASSUME NEW n \in {XLEN, WLEN}, NEW a \in Nat, NEW b \in Nat
  PROVE  b # 0 => DividesUnsigned(n, a, b, a \div b, a % b)
<1> SUFFICES ASSUME b # 0 PROVE DividesUnsigned(n, a, b, a \div b, a % b)
  OBVIOUS
<1>1. a = ((a \div b) * b) + (a % b) /\ a % b \in 0..(b - 1) /\ a \div b \in Int
  BY Euclid
<1>2. (b * (a \div b)) + (a % b) = a
  <2> DEFINE q == a \div b
             r == a % b
  <2>1. a = (q * b) + r /\ q \in Int
    BY <1>1
  <2> HIDE DEF q, r
  <2>2. (q * b) = b * q
    BY <2>1
  <2>3. (b * q) + r = a
    BY <2>1, <2>2
  <2> QED  BY <2>3 DEF q, r
<1> QED  BY <1>1, <1>2 DEF DividesUnsigned

\* Sign extension keeps the low word, and is all there is to say of a W result.
LEMMA Extends ==
  ASSUME NEW v \in Int
  PROVE  Low(SextW(v)) = Low(v) /\ SextW(SextW(v)) = SextW(v) /\ SextW(v) \in Word
<1>1. /\ Modulus \in Nat /\ WModulus \in Nat /\ Modulus > 0 /\ WModulus > 0
  BY Widths
<1>2. PICK i \in Int : SignedW(v) = v + (i * WModulus)
  BY Conversions
<1>3. SignedW(v) \in Int
  BY <1>1, <1>2
<1>4. Low(SignedW(v)) = Low(v)
  BY <1>2, Multiples
<1>5. \E j \in Int : Wrap(SignedW(v)) = SignedW(v) + (j * Modulus)
  <2> DEFINE s == SignedW(v)
             q == s \div Modulus
  <2>1. s = (q * Modulus) + (s % Modulus) /\ s % Modulus \in 0..(Modulus - 1) /\ q \in Int
    BY <1>1, <1>3, Euclid
  <2>2. Wrap(s) = s % Modulus
    BY DEF Wrap
  <2> HIDE DEF s, q
  <2>3. Wrap(s) = s + ((-q) * Modulus)
    BY <1>1, <2>1, <2>2
  <2>4. -q \in Int
    BY <2>1
  <2> QED  BY <2>3, <2>4 DEF s
<1>6. Low(Wrap(SignedW(v))) = Low(SignedW(v))
  <2>1. PICK j \in Int : Wrap(SignedW(v)) = SignedW(v) + (j * Modulus)
    BY <1>5
  <2> QED  BY <1>3, <2>1, Multiples
<1>7. Low(SextW(v)) = Low(v)
  BY <1>4, <1>6 DEF SextW
<1>8. SextW(v) \in Word
  BY <1>3, Conversions DEF SextW
<1>9. SextW(v) \in Int
  BY <1>1, <1>8 DEF Word
<1> QED  BY <1>7, <1>8, <1>9, Conversions

\* divuw and remuw on the low words.
LEMMA UnsignedDivisionW ==
  ASSUME NEW a \in Word, NEW b \in Word
  PROVE  DividesUnsigned(WLEN, Low(a), Low(b),
                         Low(DivideW("divuw", a, b)), Low(DivideW("remuw", a, b)))
<1> DEFINE x == Low(a)
           y == Low(b)
           q == DivideW("divuw", a, b)
           r == DivideW("remuw", a, b)
<1>1. /\ q = IF y = 0 THEN Ones ELSE SextW(x \div y)
      /\ r = IF y = 0 THEN SextW(a) ELSE SextW(x % y)
  BY DEF DivideW
<1>2. WModulus \in Nat /\ a \in Int /\ b \in Int
  BY Widths, Corresponds
<1>3. x \in 0..(WModulus - 1) /\ y \in 0..(WModulus - 1)
  BY <1>2, Conversions
<1>4. Low(SextW(a)) = x
  BY <1>2, Extends
<1> HIDE DEF x, y, q, r
<1>5. CASE y = 0
  <2>1. Low(q) = WModulus - 1 /\ Low(r) = x
    BY <1>1, <1>4, <1>5, Specials
  <2> QED  BY <1>5, <2>1 DEF DividesUnsigned, WModulus, x, y, q, r
<1>6. CASE y # 0
  <2>1. x \in Nat /\ y \in Nat /\ y > 0
    BY <1>2, <1>3, <1>6
  <2>2. x = ((x \div y) * y) + (x % y) /\ x % y \in 0..(y - 1) /\ x \div y \in Int
    BY <2>1, Euclid
  <2>3. x \div y \in 0..(WModulus - 1) /\ x % y \in 0..(WModulus - 1)
    <3> DEFINE d == x \div y
               e == x % y
    <3>1. x = (d * y) + e /\ e \in 0..(y - 1) /\ d \in Int
      BY <2>2
    <3> HIDE DEF d, e
    <3>2. d >= 0
      <4> SUFFICES ASSUME d <= -1 PROVE FALSE
        BY <3>1
      <4>1. d * y <= (-1) * y
        BY <2>1, <3>1
      <4> QED  BY <2>1, <3>1, <4>1
    <3>3. d <= d * y
      BY <2>1, <3>1, <3>2
    <3>4. d <= x
      BY <2>1, <3>1, <3>3
    <3>5. d \in 0..(WModulus - 1) /\ e \in 0..(WModulus - 1)
      BY <1>2, <1>3, <2>1, <3>1, <3>2, <3>4
    <3> QED  BY <3>5 DEF d, e
  <2>4. ASSUME NEW v \in 0..(WModulus - 1)
        PROVE  Low(SextW(v)) = v
    <3>1. v \in Int /\ v % WModulus = v
      BY <1>2, SmallMod
    <3> QED  BY <3>1, Extends DEF Low
  <2>5. Low(q) = x \div y /\ Low(r) = x % y
    BY <1>1, <1>6, <2>3, <2>4
  <2>6. DividesUnsigned(WLEN, x, y, x \div y, x % y)
    BY <1>6, <2>1, UnsignedDivision
  <2> QED  BY <2>5, <2>6 DEF x, y, q, r
<1> QED  BY <1>5, <1>6

\* Every W result is the sign extension of its low word.
LEMMA ExtendedW ==
  ASSUME NEW a \in Word, NEW b \in Word, NEW op \in DivOpsW
  PROVE  DivideW(op, a, b) = SextW(DivideW(op, a, b))
<1>1. WModulus \in Nat /\ WModulus > 0 /\ a \in Int /\ b \in Int /\ MinSignedW \in Int
  BY Widths, Corresponds
<1>2. SignedW(a) \in Int /\ SignedW(b) \in Int /\ Low(a) \in Nat /\ Low(b) \in Nat
  <2>1. Low(a) \in 0..(WModulus - 1) /\ Low(b) \in 0..(WModulus - 1)
        /\ SignedW(a) \in (-MinSignedW)..(MinSignedW - 1)
        /\ SignedW(b) \in (-MinSignedW)..(MinSignedW - 1)
    BY <1>1, Conversions
  <2> QED  BY <1>1, <2>1
<1> DEFINE F == {SextW(v) : v \in Int}
<1>3. Ones \in F /\ 0 \in F
  <2>1. Ones = SextW(-1) /\ 0 = SextW(0) /\ -1 \in Int /\ 0 \in Int
    BY Specials
  <2> QED  BY <2>1
<1>4. SextW(MinSignedW) \in F /\ SextW(a) \in F
  BY <1>1
<1>5. Low(b) # 0 => SextW(Low(a) \div Low(b)) \in F /\ SextW(Low(a) % Low(b)) \in F
  <2> SUFFICES ASSUME Low(b) # 0
               PROVE  Low(a) \div Low(b) \in Int /\ Low(a) % Low(b) \in Int
    OBVIOUS
  <2>1. Low(b) > 0
    BY <1>2
  <2> QED  BY <1>2, <2>1, Euclid
<1>6. Low(b) # 0 => SextW(Quotient(SignedW(a), SignedW(b))) \in F
                    /\ SextW(Remainder(SignedW(a), SignedW(b))) \in F
  <2> SUFFICES ASSUME Low(b) # 0
               PROVE  /\ Quotient(SignedW(a), SignedW(b)) \in Int
                      /\ Remainder(SignedW(a), SignedW(b)) \in Int
    OBVIOUS
  <2>1. SignedW(b) # 0
    BY <1>1, Corresponds
  <2> QED  BY <1>2, <2>1, Truncates
<1>7. DivideW(op, a, b) \in F
  <2> HIDE DEF F
  <2>1. CASE op = "divw"
    <3>1. DivideW(op, a, b)
            = IF Low(b) = 0 THEN Ones
              ELSE IF Low(a) = MinSignedW /\ SignedW(b) = -1 THEN SextW(MinSignedW)
              ELSE SextW(Quotient(SignedW(a), SignedW(b)))
      BY <2>1 DEF DivideW
    <3> QED  BY <3>1, <1>3, <1>4, <1>6
  <2>2. CASE op = "divuw"
    <3>1. DivideW(op, a, b) = IF Low(b) = 0 THEN Ones ELSE SextW(Low(a) \div Low(b))
      BY <2>2 DEF DivideW
    <3> QED  BY <3>1, <1>3, <1>5
  <2>3. CASE op = "remw"
    <3>1. DivideW(op, a, b)
            = IF Low(b) = 0 THEN SextW(a)
              ELSE IF Low(a) = MinSignedW /\ SignedW(b) = -1 THEN 0
              ELSE SextW(Remainder(SignedW(a), SignedW(b)))
      BY <2>3 DEF DivideW
    <3> QED  BY <3>1, <1>3, <1>4, <1>6
  <2>4. CASE op = "remuw"
    <3>1. DivideW(op, a, b) = IF Low(b) = 0 THEN SextW(a) ELSE SextW(Low(a) % Low(b))
      BY <2>4 DEF DivideW
    <3> QED  BY <3>1, <1>4, <1>5
  <2> QED  BY <2>1, <2>2, <2>3, <2>4 DEF DivOpsW
<1> QED  BY <1>7, Extends

\* A product of two factors in a range has an upper half in it.
LEMMA UpperHalf ==
  ASSUME NEW H \in Nat, H > 0, NEW x \in (-H)..(H - 1), NEW y \in Int,
         y >= -H, y <= (2 * H) - 1
  PROVE  (x * y) \div (2 * H) \in (-H)..(H - 1)
<1> DEFINE N == 2 * H
           p == x * y
           q == p \div N
           r == p % N
<1>1. N \in Nat /\ N > 0 /\ p \in Int
  OBVIOUS
<1>2. p = (q * N) + r /\ r \in 0..(N - 1) /\ q \in Int
  <2> HIDE DEF N, p
  <2> QED  BY <1>1, Euclid
<1>3. p <= H * N - 1 /\ p >= (-H) * N
  <2>1. CASE x >= 0 /\ y >= 0
    <3>1. x * y <= x * (N - 1)
      BY <2>1
    <3>2. x * (N - 1) <= (H - 1) * (N - 1)
      BY <2>1
    <3>3. x * y >= 0 /\ (-H) * N <= 0 /\ (H - 1) * (N - 1) <= H * N - 1
      BY <2>1
    <3> QED  BY <3>1, <3>2, <3>3
  <2>2. CASE x < 0 /\ y >= 0
    <3>1. x * y >= x * N
      BY <2>2
    <3>2. x * N >= (-H) * N
      BY <2>2
    <3>3. x * y <= 0 /\ H * N >= 1
      BY <2>2
    <3> QED  BY <3>1, <3>2, <3>3
  <2>3. CASE x >= 0 /\ y < 0
    <3>1. x * y >= x * (-H)
      BY <2>3
    <3>2. x * (-H) >= H * (-H)
      BY <2>3
    <3>3. H * (-H) >= (-H) * N /\ x * y <= 0 /\ H * N >= 1
      BY <2>3
    <3> QED  BY <3>1, <3>2, <3>3
  <2>4. CASE x < 0 /\ y < 0
    <3> DEFINE u == -x
               w == -y
    <3>1. u \in 1..H /\ w \in 1..H /\ x * y = u * w
      BY <2>4
    <3> HIDE DEF u, w
    <3>2. u * w <= u * H
      BY <3>1
    <3>3. u * H <= H * H
      BY <3>1
    <3>4. H * H <= H * N - 1 /\ u * w >= 0 /\ (-H) * N <= 0
      BY <3>1
    <3> QED  BY <3>1, <3>2, <3>3, <3>4
  <2> QED  BY <2>1, <2>2, <2>3, <2>4
<1> HIDE DEF N, p, q, r
<1>4. q <= H - 1
  <2> SUFFICES ASSUME q >= H PROVE FALSE
    BY <1>2
  <2>1. q * N >= H * N
    BY <1>1, <1>2
  <2> QED  BY <1>1, <1>2, <1>3, <2>1
<1>5. q >= -H
  <2> SUFFICES ASSUME q <= -H - 1 PROVE FALSE
    BY <1>2
  <2>1. q * N <= (-H - 1) * N
    BY <1>1, <1>2
  <2>2. (-H - 1) * N = ((-H) * N) - N
    BY <1>1
  <2> QED  BY <1>1, <1>2, <1>3, <2>1, <2>2
<1>6. q \in (-H)..(H - 1)
  BY <1>2, <1>4, <1>5
<1> QED  BY <1>6 DEF q, p, N

\* Factors that differ by multiples have products that do.
LEMMA Products ==
  ASSUME NEW N \in Nat, NEW a \in Int, NEW b \in Int, NEW i \in Int, NEW j \in Int
  PROVE  \E m \in Int : (a + (i * N)) * (b + (j * N)) = (a * b) + (m * N)
<1> DEFINE m == ((a * j) + (i * b)) + ((i * j) * N)
<1>1. m \in Int
  OBVIOUS
<1>2. (a + (i * N)) * (b + (j * N)) = (a * b) + (m * N)
  OBVIOUS
<1> QED  BY <1>1, <1>2

\* The upper and lower halves of one number.
LEMMA Halves ==
  ASSUME NEW p \in Int, NEW low \in Int, Wrap(p) = low
  PROVE  p = ((p \div Modulus) * Modulus) + low
<1>1. Modulus \in Nat /\ Modulus > 0
  BY Widths
<1> DEFINE N == Modulus
<1>2. Wrap(p) = p % N
  BY DEF Wrap
<1> HIDE DEF N
<1>3. N \in Nat /\ N > 0
  BY <1>1 DEF N
<1>4. p = ((p \div N) * N) + (p % N)
  BY <1>3, Euclid
<1>5. p = ((p \div N) * N) + low
  BY ONLY <1>2, <1>4, Wrap(p) = low
<1> QED  BY <1>5 DEF N

\* The halves of the products, and the W product.
LEMMA MultiplyProducts ==
  ASSUME NEW a \in Word, NEW b \in Word
  PROVE  LET low == Multiply("mul", a, b)
         IN  /\ Signed(a) * Signed(b) = Signed(Multiply("mulh", a, b)) * Modulus + low
             /\ Signed(a) * b = Signed(Multiply("mulhsu", a, b)) * Modulus + low
             /\ a * b = Multiply("mulhu", a, b) * Modulus + low
             /\ Multiply("mulw", a, b) = SextW(low)
<1> DEFINE x == Signed(a)
           y == Signed(b)
           u == SignedW(a)
           v == SignedW(b)
           low == Wrap(x * y)
<1>1. /\ MinSigned \in Nat /\ MinSigned > 0 /\ Modulus \in Nat /\ Modulus = 2 * MinSigned
      /\ Modulus > 0 /\ WModulus \in Nat /\ Modulus = WModulus * WModulus
  BY Widths
<1>2. a \in 0..(Modulus - 1) /\ b \in 0..(Modulus - 1) /\ a \in Int /\ b \in Int
  BY <1>1 DEF Word
<1>3. /\ x \in (-MinSigned)..(MinSigned - 1) /\ y \in (-MinSigned)..(MinSigned - 1)
      /\ x \in Int /\ y \in Int
  <2>1. x \in (-MinSigned)..(MinSigned - 1) /\ y \in (-MinSigned)..(MinSigned - 1)
    BY <1>2, Conversions
  <2> QED  BY <1>1, <2>1
<1>4. PICK i \in Int : x = a + (i * Modulus)
  BY <1>2, Conversions
<1>5. PICK j \in Int : y = b + (j * Modulus)
  BY <1>2, Conversions
<1>6. PICK k \in Int : u = a + (k * WModulus)
  BY <1>2, Conversions
<1>7. PICK l \in Int : v = b + (l * WModulus)
  BY <1>2, Conversions
<1>8. u \in Int /\ v \in Int
  BY <1>1, <1>2, <1>6, <1>7
<1>9. /\ Multiply("mul", a, b) = low
      /\ Multiply("mulh", a, b) = Wrap((x * y) \div Modulus)
      /\ Multiply("mulhsu", a, b) = Wrap((x * b) \div Modulus)
      /\ Multiply("mulhu", a, b) = (a * b) \div Modulus
      /\ Multiply("mulw", a, b) = SextW(u * v)
  BY DEF Multiply
<1> HIDE DEF x, y, u, v
<1>10. x * y \in Int /\ x * b \in Int /\ a * b \in Int /\ u * v \in Int
  BY <1>2, <1>3, <1>8
<1>11. low \in Int
  BY <1>1, <1>10, Conversions DEF Word
<1>12. Wrap(a * b) = low
  <2>1. PICK m \in Int : (a + (i * Modulus)) * (b + (j * Modulus)) = (a * b) + (m * Modulus)
    BY <1>1, <1>2, Products
  <2>2. x * y = (a * b) + (m * Modulus)
    BY <1>4, <1>5, <2>1
  <2>3. Wrap((a * b) + (m * Modulus)) = Wrap(a * b)
    BY <1>10, Multiples
  <2> QED  BY <2>2, <2>3
<1>13. Wrap(x * b) = low
  <2>1. PICK m \in Int : (x + (0 * Modulus)) * (b + (j * Modulus)) = (x * b) + (m * Modulus)
    BY <1>1, <1>2, <1>3, Products
  <2>2. x + (0 * Modulus) = x
    BY <1>1, <1>3
  <2>3. x * y = (x * b) + (m * Modulus)
    BY <1>5, <2>1, <2>2
  <2>4. Wrap((x * b) + (m * Modulus)) = Wrap(x * b)
    BY <1>10, Multiples
  <2> QED  BY <2>3, <2>4
<1>14. Low(low) = Low(a * b)
  <2> DEFINE p == a * b
             q == p \div Modulus
  <2>1. q \in Int /\ p \in Int
    BY <1>1, <1>10, Euclid
  <2>2. p = (q * Modulus) + low
    BY <1>10, <1>11, <1>12, Halves
  <2> HIDE DEF p, q, low
  <2>3. p = low + (q * Modulus)
    BY <1>1, <1>11, <2>1, <2>2
  <2>4. Low(p) = Low(low)
    BY <1>11, <2>1, <2>3, Multiples
  <2> QED  BY <2>4 DEF p
<1>15. Low(u * v) = Low(a * b)
  <2> DEFINE W == WModulus
  <2>0. W \in Nat /\ a \in Int /\ b \in Int
    BY <1>1, <1>2
  <2> HIDE DEF W
  <2>9. \E m \in Int : (a + (k * W)) * (b + (l * W)) = (a * b) + (m * W)
    <3> DEFINE m == ((a * l) + (k * b)) + ((k * l) * W)
    <3>1. m \in Int
      BY <2>0
    <3>2. (a + (k * W)) * (b + (l * W)) = (a * b) + (m * W)
      BY <2>0
    <3> QED  BY <3>1, <3>2
  <2>1. PICK m \in Int : (a + (k * WModulus)) * (b + (l * WModulus)) = (a * b) + (m * WModulus)
    BY <2>9 DEF W
  <2>2. u * v = (a * b) + (m * WModulus)
    BY <1>6, <1>7, <2>1
  <2>3. Low((a * b) + (m * WModulus)) = Low(a * b)
    BY <1>10, Multiples
  <2> QED  BY <2>2, <2>3
<1>16. Multiply("mulw", a, b) = SextW(low)
  BY <1>9, <1>10, <1>11, <1>14, <1>15, Conversions
<1>17. /\ (x * y) \div Modulus \in (-MinSigned)..(MinSigned - 1)
       /\ (x * b) \div Modulus \in (-MinSigned)..(MinSigned - 1)
  <2>1. y >= -MinSigned /\ y <= (2 * MinSigned) - 1
        /\ b >= -MinSigned /\ b <= (2 * MinSigned) - 1
    BY <1>1, <1>2, <1>3
  <2> QED  BY <1>1, <1>2, <1>3, <2>1, UpperHalf
<1>18. /\ Signed(Multiply("mulh", a, b)) = (x * y) \div Modulus
       /\ Signed(Multiply("mulhsu", a, b)) = (x * b) \div Modulus
  BY <1>9, <1>17, Conversions
<1>19. /\ x * y = (((x * y) \div Modulus) * Modulus) + low
       /\ x * b = (((x * b) \div Modulus) * Modulus) + low
       /\ a * b = (((a * b) \div Modulus) * Modulus) + low
  BY <1>10, <1>11, <1>12, <1>13, Halves, Zenon
<1> HIDE DEF low
<1> QED  BY <1>9, <1>16, <1>18, <1>19, Zenon DEF x, y

\* divu and remu.
LEMMA UnsignedDivisionX ==
  ASSUME NEW a \in Word, NEW b \in Word
  PROVE  DividesUnsigned(XLEN, a, b, Divide("divu", a, b), Divide("remu", a, b))
<1>1. a \in Nat /\ b \in Nat
  BY Widths DEF Word
<1>2. /\ Divide("divu", a, b) = IF b = 0 THEN Ones ELSE a \div b
      /\ Divide("remu", a, b) = IF b = 0 THEN a ELSE a % b
  BY DEF Divide
<1>3. CASE b = 0
  BY <1>2, <1>3 DEF DividesUnsigned, Ones, Modulus
<1>4. CASE b # 0
  BY <1>1, <1>2, <1>4, UnsignedDivision
<1> QED  BY <1>3, <1>4

--------------------------------------------------------------------------------
(* Bits and AMOs.                                                          *)

\* The recursion of OfBits defines its partial sums: up to each of them it does.
LEMMA SumDef ==
  ASSUME NEW S
  PROVE  \E sum : /\ sum[0] = 0 /\ OfBits(S) = sum[XLEN]
                  /\ \A n \in 1..XLEN :
                        sum[n] = sum[n - 1] + (IF n - 1 \in S THEN Two(n - 1) ELSE 0)
<1> DEFINE N == XLEN
           Step(g, i) == IF i = 0 THEN 0
                         ELSE g[i - 1] + (IF i - 1 \in S THEN 2^(i - 1) ELSE 0)
           T == {m \in Nat : \E g : g = [i \in 0..m |-> Step(g, i)]}
           sum == CHOOSE g : g = [i \in 0..N |-> Step(g, i)]
<1>0. N \in Nat
  BY Powers
<1>1. OfBits(S) = sum[N]
  BY DEF OfBits
<1>2. /\ \A g : Step(g, 0) = 0
      /\ \A g : \A n \in 1..N :
            Step(g, n) = g[n - 1] + (IF n - 1 \in S THEN Two(n - 1) ELSE 0)
  BY <1>0 DEF Two
<1> HIDE DEF N
<1>3. 0 \in T
  <2> DEFINE g == [i \in 0..0 |-> 0]
  <2>1. g = [i \in 0..0 |-> Step(g, i)]
    OBVIOUS
  <2> HIDE DEF Step
  <2> QED  BY <2>1
<1>4. ASSUME NEW m \in Nat, m \in T PROVE m + 1 \in T
  <2> PICK g : g = [i \in 0..m |-> Step(g, i)]
    BY <1>4
  <2> DEFINE h == [i \in 0..(m + 1) |-> IF i <= m THEN g[i] ELSE Step(g, i)]
  <2>1. \A i \in 0..(m + 1) : i # 0 => i - 1 \in 0..m /\ h[i - 1] = g[i - 1]
    OBVIOUS
  <2>2. \A i \in 0..(m + 1) : Step(h, i) = Step(g, i)
    BY <2>1
  <2>3. \A i \in 0..m : g[i] = Step(g, i)
    <3> HIDE DEF Step
    <3> QED OBVIOUS
  <2>4. \A i \in 0..(m + 1) : h[i] = Step(h, i)
    <3> HIDE DEF Step
    <3> QED BY <2>2, <2>3
  <2>5. h = [i \in 0..(m + 1) |-> Step(h, i)]
    <3>1. h = [i \in 0..(m + 1) |-> h[i]]
      OBVIOUS
    <3> HIDE DEF h, Step
    <3> QED BY <2>4, <3>1
  <2> HIDE DEF h, Step
  <2> QED  BY <2>5
<1> HIDE DEF T
<1>5. N \in T
  <2>1. Nat \subseteq T
    BY <1>3, <1>4, Induct
  <2> QED  BY <1>0, <2>1
<1> HIDE DEF Step
<1>6. PICK g : g = [i \in 0..N |-> Step(g, i)]
  BY <1>5 DEF T
<1>7. sum = [i \in 0..N |-> Step(sum, i)]
  BY <1>6
<1> HIDE DEF sum
<1>8. \A i \in 0..N : sum[i] = Step(sum, i)
  BY <1>7
<1>9. /\ sum[0] = 0
      /\ \A n \in 1..N : sum[n] = sum[n - 1] + (IF n - 1 \in S THEN Two(n - 1) ELSE 0)
  BY <1>0, <1>2, <1>8
<1> QED  BY <1>1, <1>9 DEF N

\* A bit is what the next power of two sees more of a number.
LEMMA BitStep ==
  ASSUME NEW v \in Nat, NEW k \in Nat, k < XLEN
  PROVE  /\ Bit(v, k) \in {0, 1}
         /\ v % Two(k + 1) = (v % Two(k)) + (IF Bit(v, k) = 1 THEN Two(k) ELSE 0)
<1> DEFINE N == Two(k)
           q == v \div N
           r == v % N
           p == q \div 2
           b == q % 2
<1>1. N \in Nat /\ N > 0 /\ Two(k + 1) = 2 * N
  BY Powers
<1>2. Bit(v, k) = b
  BY DEF Bit, Two
<1> HIDE DEF N
<1>3. v = (q * N) + r /\ r \in 0..(N - 1) /\ q \in Int
  BY <1>1, Euclid
<1> HIDE DEF q, r
<1>4. q = (p * 2) + b /\ b \in 0..1 /\ p \in Int
  BY <1>3
<1> HIDE DEF p, b
<1>5. v = (p * (2 * N)) + ((b * N) + r)
  BY <1>1, <1>3, <1>4
<1>6. (b * N) + r = IF b = 1 THEN r + N ELSE r
  BY <1>1, <1>3, <1>4
<1>7. (b * N) + r \in 0..((2 * N) - 1)
  BY <1>1, <1>3, <1>4, <1>6
<1>8. 2 * N \in Nat /\ 2 * N > 0
  BY <1>1
<1>9. ((p * (2 * N)) + ((b * N) + r)) % (2 * N) = (b * N) + r
  <2> DEFINE D == 2 * N
             e == (b * N) + r
  <2>1. D \in Nat /\ D > 0 /\ e \in 0..(D - 1)
    BY <1>7, <1>8
  <2> HIDE DEF D, e
  <2>2. ((p * D) + e) % D = e
    BY <1>4, <2>1, EuclidUnique
  <2> QED  BY <2>2 DEF D, e
<1>10. v % Two(k + 1) = (b * N) + r
  BY <1>1, <1>5, <1>9
<1>11. v % Two(k + 1) = r + (IF b = 1 THEN N ELSE 0)
  BY <1>3, <1>6, <1>10
<1> QED  BY <1>2, <1>4, <1>11 DEF r, N

\* So a bit is known from the two remainders.
LEMMA BitKnown ==
  ASSUME NEW v \in Nat, NEW k \in Nat, k < XLEN, NEW c \in BOOLEAN,
         v % Two(k + 1) = (v % Two(k)) + (IF c THEN Two(k) ELSE 0)
  PROVE  Bit(v, k) = 1 <=> c
<1>1. Two(k) \in Nat /\ Two(k) > 0
  BY Powers
<1>2. v % Two(k) \in Int
  BY <1>1, Euclid
<1>3. v % Two(k + 1) = (v % Two(k)) + (IF Bit(v, k) = 1 THEN Two(k) ELSE 0)
  BY BitStep
<1> DEFINE x == v % Two(k)
           y == v % Two(k + 1)
           N == Two(k)
           d == Bit(v, k) = 1
<1>4. /\ y = x + (IF c THEN N ELSE 0) /\ y = x + (IF d THEN N ELSE 0)
      /\ x \in Int /\ N > 0 /\ N \in Nat
  BY <1>1, <1>2, <1>3
<1>5. d \in BOOLEAN
  OBVIOUS
<1> HIDE DEF x, y, N, d
<1>6. d <=> c
  BY <1>4, <1>5
<1> QED  BY <1>6 DEF d

\* A remainder of a remainder, for powers of two.
LEMMA Remainders ==
  ASSUME NEW v \in Int, NEW n \in Nat, n <= XLEN, NEW j \in Nat, j <= n
  PROVE  /\ (v % Two(n)) % Two(j) = v % Two(j)
         /\ (v + Two(n)) % Two(j) = v % Two(j)
<1> DEFINE i == n - j
           A == Two(n)
           B == Two(j)
           C == Two(i)
           q == v \div A
           r == v % A
<1>1. A \in Nat /\ A > 0 /\ B \in Nat /\ B > 0 /\ C \in Nat
  BY Powers
<1>2. A = C * B
  <2>1. i \in Nat /\ i + j = n
    OBVIOUS
  <2> HIDE DEF i
  <2> QED  BY <2>1, PowerSum
<1> HIDE DEF A, B, C
<1>3. v = (q * A) + r /\ r \in 0..(A - 1) /\ q \in Int
  BY <1>1, Euclid
<1> HIDE DEF q, r
<1>4. v = r + ((q * C) * B) /\ v + A = v + (C * B)
  BY <1>1, <1>2, <1>3
<1>5. q * C \in Int /\ r \in Int /\ C \in Int
  BY <1>1, <1>3
<1>6. (r + ((q * C) * B)) % B = r % B /\ (v + (C * B)) % B = v % B
  BY <1>1, <1>5, Congruent
<1> QED  BY <1>4, <1>6 DEF r, A, B

\* The bits of a remainder are the low ones.
LEMMA LowBits ==
  ASSUME NEW v \in Nat, NEW n \in Nat, n <= XLEN, NEW k \in Nat, k < XLEN
  PROVE  Bit(v % Two(n), k) = 1 <=> k < n /\ Bit(v, k) = 1
<1> DEFINE w == v % Two(n)
<1>1. Two(n) \in Nat /\ Two(n) > 0 /\ Two(k) \in Nat /\ Two(k) > 0
  BY Powers
<1>2. w \in 0..(Two(n) - 1)
  BY <1>1, Euclid
<1>3. w \in Nat
  BY <1>1, <1>2
<1>4. CASE k < n
  <2>1. w % Two(k + 1) = v % Two(k + 1) /\ w % Two(k) = v % Two(k)
    BY <1>4, Remainders
  <2>2. v % Two(k + 1) = (v % Two(k)) + (IF Bit(v, k) = 1 THEN Two(k) ELSE 0)
    BY BitStep
  <2> HIDE DEF w
  <2>3. (Bit(v, k) = 1) \in BOOLEAN
    OBVIOUS
  <2>4. Bit(w, k) = 1 <=> Bit(v, k) = 1
    BY <1>3, <2>1, <2>2, <2>3, BitKnown
  <2> QED  BY <1>4, <2>4 DEF w
<1>5. CASE ~(k < n)
  <2>1. Two(n) <= Two(k)
    <3> DEFINE i == k - n
    <3>1. i \in Nat /\ n + i = k /\ i <= XLEN
      BY <1>5, Powers
    <3> HIDE DEF i
    <3>2. Two(i) \in Nat /\ Two(i) >= 1
      BY <3>1, Powers
    <3>3. Two(n + i) = Two(n) * Two(i)
      <4>1. n + i <= XLEN
        BY <3>1, Powers
      <4> QED  BY <3>1, <4>1, PowerSum, Zenon
    <3> QED  BY <1>1, <3>1, <3>2, <3>3
  <2> HIDE DEF w
  <2>2. w \div Two(k) = 0
    <3>1. w \in 0..(Two(k) - 1) /\ 0 \in Int
      BY <1>1, <1>2, <2>1
    <3>2. ((0 * Two(k)) + w) \div Two(k) = 0
      BY <1>1, <3>1, EuclidUnique
    <3> QED  BY <1>1, <1>3, <3>2
  <2>3. Bit(w, k) = 0
    BY <2>2 DEF Bit, Two
  <2> QED  BY <1>5, <2>3 DEF w
<1> QED  BY <1>4, <1>5

\* OfBits gives a word with the bits asked for.
LEMMA OfBitsOf ==
  ASSUME NEW S
  PROVE  /\ OfBits(S) \in Word
         /\ BitsOf(OfBits(S)) = S \cap (0..(XLEN - 1))
<1> PICK sum : /\ sum[0] = 0 /\ OfBits(S) = sum[XLEN]
               /\ \A n \in 1..XLEN :
                     sum[n] = sum[n - 1] + (IF n - 1 \in S THEN Two(n - 1) ELSE 0)
  BY SumDef
<1>0. XLEN \in Nat /\ XLEN >= 1
  BY Powers
<1>1. \A n \in Nat : n < XLEN => sum[n + 1] = sum[n] + (IF n \in S THEN Two(n) ELSE 0)
  <2> TAKE n \in Nat
  <2>1. n < XLEN => n + 1 \in 1..XLEN /\ (n + 1) - 1 = n
    BY <1>0
  <2> QED  BY <2>1
<1> DEFINE T == {n \in Nat : n <= XLEN => /\ sum[n] \in 0..(Two(n) - 1)
                                          /\ \A j \in 0..n : sum[n] % Two(j) = sum[j]}
<1>2. 0 \in T
  <2>1. sum[0] \in 0..(Two(0) - 1) /\ sum[0] % Two(0) = sum[0]
    BY Powers
  <2>2. \A j \in 0..0 : j = 0
    OBVIOUS
  <2> QED  BY <2>1, <2>2
<1>3. ASSUME NEW n \in Nat, n \in T PROVE n + 1 \in T
  <2> SUFFICES ASSUME n + 1 <= XLEN
               PROVE  /\ sum[n + 1] \in 0..(Two(n + 1) - 1)
                      /\ \A j \in 0..(n + 1) : sum[n + 1] % Two(j) = sum[j]
    OBVIOUS
  <2>1. Two(n) \in Nat /\ Two(n + 1) = 2 * Two(n) /\ Two(n) > 0 /\ n < XLEN
    BY <1>0, Powers
  <2>2. /\ sum[n] \in 0..(Two(n) - 1)
        /\ \A j \in 0..n : sum[n] % Two(j) = sum[j]
        /\ sum[n + 1] = sum[n] + (IF n \in S THEN Two(n) ELSE 0)
    BY <1>0, <1>1, <1>3, <2>1
  <2>3. sum[n + 1] \in 0..(Two(n + 1) - 1)
    BY <2>1, <2>2
  <2>4. sum[n] \in Int /\ (sum[n + 1] = sum[n] \/ sum[n + 1] = sum[n] + Two(n))
    BY <2>1, <2>2
  <2>5. ASSUME NEW j \in 0..n PROVE sum[n + 1] % Two(j) = sum[j]
    <3>1. (sum[n] + Two(n)) % Two(j) = sum[n] % Two(j)
      <4>1. n <= XLEN /\ j \in Nat /\ j <= n
        BY <1>0, <2>1
      <4> QED  BY <2>4, <4>1, Remainders
    <3> QED  BY <2>2, <2>4, <3>1
  <2>6. sum[n + 1] % Two(n + 1) = sum[n + 1]
    <3>1. Two(n + 1) \in Nat /\ Two(n + 1) > 0 /\ sum[n + 1] \in Int
      BY <2>1, <2>3
    <3> QED  BY <2>3, <3>1, SmallMod
  <2>7. \A j \in 0..(n + 1) : j \in 0..n \/ j = n + 1
    OBVIOUS
  <2> QED  BY <2>3, <2>5, <2>6, <2>7
<1>4. XLEN \in T
  <2> HIDE DEF T
  <2> QED  BY <1>0, <1>2, <1>3, Induct
<1> DEFINE v == OfBits(S)
<1>5. v \in 0..(Two(XLEN) - 1) /\ \A j \in 0..XLEN : v % Two(j) = sum[j]
  BY <1>0, <1>4
<1> HIDE DEF v
<1>6. v \in Word /\ v \in Nat
  BY <1>0, <1>5, Powers DEF Word, Modulus, Two
<1>7. ASSUME NEW k \in 0..(XLEN - 1) PROVE Bit(v, k) = 1 <=> k \in S
  <2>1. k \in Nat /\ k < XLEN /\ k \in 0..XLEN /\ k + 1 \in 0..XLEN
    BY <1>0
  <2>2. v % Two(k + 1) = (v % Two(k)) + (IF k \in S THEN Two(k) ELSE 0)
    BY <1>1, <1>5, <2>1
  <2>3. (k \in S) \in BOOLEAN
    OBVIOUS
  <2> QED  BY <1>6, <2>1, <2>2, <2>3, BitKnown
<1>8. BitsOf(v) = S \cap (0..(XLEN - 1))
  BY <1>7 DEF BitsOf
<1> QED  BY <1>6, <1>8 DEF v

\* Conversions may come before or after.
LEMMA LowOf ==
  /\ \A v \in Int : Low(Wrap(v)) = Low(v) /\ Low(Low(v)) = Low(v) /\ Low(v) \in Nat
  /\ \A u, v \in Int : Low(u + v) = Low(Low(u) + Low(v))
<1>1. Modulus \in Nat /\ WModulus \in Nat /\ Modulus > 0 /\ WModulus > 0
  BY Widths
<1>2. ASSUME NEW v \in Int PROVE Low(Wrap(v)) = Low(v)
  <2> DEFINE q == v \div Modulus
             r == v % Modulus
  <2>1. v = (q * Modulus) + r /\ q \in Int /\ r \in 0..(Modulus - 1)
    BY <1>1, Euclid
  <2>2. Wrap(v) = r
    BY DEF Wrap
  <2> HIDE DEF q, r
  <2>3. r \in Int /\ v = r + (q * Modulus)
    BY <1>1, <2>1
  <2>4. Low(r + (q * Modulus)) = Low(r)
    BY <2>1, <2>3, Multiples
  <2> QED  BY <2>2, <2>3, <2>4
<1>3. ASSUME NEW v \in Int
      PROVE  \E q \in Int : Low(v) \in Nat /\ v = Low(v) + (q * WModulus)
  <2> DEFINE q == v \div WModulus
             r == v % WModulus
  <2>1. v = (q * WModulus) + r /\ q \in Int /\ r \in 0..(WModulus - 1)
    BY <1>1, Euclid
  <2>2. Low(v) = r
    BY DEF Low
  <2> HIDE DEF q, r
  <2>3. v = r + (q * WModulus) /\ r \in Nat
    BY <1>1, <2>1
  <2> QED  BY <2>1, <2>2, <2>3
<1>4. ASSUME NEW v \in Int PROVE Low(Low(v)) = Low(v) /\ Low(v) \in Nat
  BY <1>1, <1>3, ModTwice DEF Low
<1>5. ASSUME NEW u \in Int, NEW v \in Int PROVE Low(u + v) = Low(Low(u) + Low(v))
  <2> PICK p \in Int : Low(u) \in Nat /\ u = Low(u) + (p * WModulus)
    BY <1>3
  <2> PICK q \in Int : Low(v) \in Nat /\ v = Low(v) + (q * WModulus)
    BY <1>3
  <2>1. u + v = (Low(u) + Low(v)) + ((p + q) * WModulus)
    <3> DEFINE x == Low(u)
               y == Low(v)
               N == WModulus
    <3>1. u = x + (p * N) /\ v = y + (q * N) /\ x \in Nat /\ y \in Nat /\ N \in Nat
      BY <1>1
    <3> HIDE DEF x, y, N
    <3>2. u + v = (x + y) + ((p + q) * N)
      BY <3>1
    <3> QED  BY <3>2 DEF x, y, N
  <2>2. p + q \in Int /\ Low(u) + Low(v) \in Int
    OBVIOUS
  <2>3. Low((Low(u) + Low(v)) + ((p + q) * WModulus)) = Low(Low(u) + Low(v))
    BY <2>2, Multiples
  <2> QED  BY <2>1, <2>3
<1> QED  BY <1>2, <1>4, <1>5

\* The bits of the results of `&', `|' and `^' ...
LEMMA BitwiseBits ==
  ASSUME NEW a, NEW b
  PROVE  /\ BitAnd(a, b) \in Word /\ BitOr(a, b) \in Word /\ BitXor(a, b) \in Word
         /\ \A k \in 0..(XLEN - 1) :
              /\ Bit(BitAnd(a, b), k) = 1 <=> Bit(a, k) = 1 /\ Bit(b, k) = 1
              /\ Bit(BitOr(a, b), k) = 1 <=> Bit(a, k) = 1 \/ Bit(b, k) = 1
              /\ Bit(BitXor(a, b), k) = 1 <=> (Bit(a, k) = 1) # (Bit(b, k) = 1)
<1> DEFINE A == BitsOf(a)
           B == BitsOf(b)
           D == (A \ B) \cup (B \ A)
<1>1. \A v, k : k \in BitsOf(v) <=> k \in 0..(XLEN - 1) /\ Bit(v, k) = 1
  BY DEF BitsOf
<1>2. BitAnd(a, b) = OfBits(A \cap B) /\ BitOr(a, b) = OfBits(A \cup B)
      /\ BitXor(a, b) = OfBits(D)
  BY DEF BitAnd, BitOr, BitXor
<1>3. /\ OfBits(A \cap B) \in Word /\ OfBits(A \cup B) \in Word /\ OfBits(D) \in Word
      /\ BitsOf(OfBits(A \cap B)) = (A \cap B) \cap (0..(XLEN - 1))
      /\ BitsOf(OfBits(A \cup B)) = (A \cup B) \cap (0..(XLEN - 1))
      /\ BitsOf(OfBits(D)) = D \cap (0..(XLEN - 1))
  BY OfBitsOf
<1> HIDE DEF A, B
<1>4. \A k : /\ k \in A <=> k \in 0..(XLEN - 1) /\ Bit(a, k) = 1
             /\ k \in B <=> k \in 0..(XLEN - 1) /\ Bit(b, k) = 1
  BY <1>1 DEF A, B
<1>5. BitAnd(a, b) \in Word /\ BitOr(a, b) \in Word /\ BitXor(a, b) \in Word
  BY <1>2, <1>3
<1>6. ASSUME NEW k \in 0..(XLEN - 1)
      PROVE  /\ Bit(BitAnd(a, b), k) = 1 <=> Bit(a, k) = 1 /\ Bit(b, k) = 1
             /\ Bit(BitOr(a, b), k) = 1 <=> Bit(a, k) = 1 \/ Bit(b, k) = 1
             /\ Bit(BitXor(a, b), k) = 1 <=> (Bit(a, k) = 1) # (Bit(b, k) = 1)
  <2>1. /\ Bit(BitAnd(a, b), k) = 1 <=> k \in BitsOf(BitAnd(a, b))
        /\ Bit(BitOr(a, b), k) = 1 <=> k \in BitsOf(BitOr(a, b))
        /\ Bit(BitXor(a, b), k) = 1 <=> k \in BitsOf(BitXor(a, b))
    BY <1>1
  <2>2. /\ k \in BitsOf(BitAnd(a, b)) <=> k \in A /\ k \in B
        /\ k \in BitsOf(BitOr(a, b)) <=> k \in A \/ k \in B
        /\ k \in BitsOf(BitXor(a, b)) <=> (k \in A /\ k \notin B) \/ (k \in B /\ k \notin A)
    BY <1>2, <1>3
  <2>3. (k \in A <=> Bit(a, k) = 1) /\ (k \in B <=> Bit(b, k) = 1)
    BY <1>4
  <2> QED  BY <2>1, <2>2, <2>3
<1> QED  BY <1>5, <1>6

\* ... of which a conversion to a word leaves the low ones.
LEMMA LowOfBits ==
  ASSUME NEW v \in Nat, NEW k \in 0..(XLEN - 1)
  PROVE  Bit(Low(v), k) = 1 <=> k < WLEN /\ Bit(v, k) = 1
<1>1. k \in Nat /\ k < XLEN /\ WLEN \in Nat /\ WLEN <= XLEN
  BY Powers
<1>2. Low(v) = v % Two(WLEN)
  BY DEF Low, WModulus, Two
<1> QED  BY <1>1, <1>2, LowBits

\* What an AMO on doublewords stores ...
LEMMA UpdatesD ==
  ASSUME NEW op \in AmoOps, NEW x \in Word, NEW y \in Word
  PROVE  AmoD(op, x, y) \in Word /\ Updates(op, XLEN, x, y, AmoD(op, x, y))
<1>1. Word = 0..(2^XLEN - 1) /\ Modulus = 2^XLEN
  BY DEF Word, Modulus
<1>2. x \in Int /\ y \in Int /\ x \in Nat /\ y \in Nat
  BY Widths DEF Word
<1>3. Signed(x) \in Int /\ Signed(y) \in Int
  <2>1. Signed(x) \in (-MinSigned)..(MinSigned - 1) /\ Signed(y) \in (-MinSigned)..(MinSigned - 1)
    BY <1>2, Conversions
  <2> QED  BY <2>1, Widths
<1>4. \A v : Signed(v) = SignedBits(XLEN, v)
  BY DEF Signed
<1>5. CASE op = "amoswap"
  BY <1>1, <1>5 DEF AmoD, Updates
<1>6. CASE op = "amoadd"
  <2>1. AmoD(op, x, y) = Wrap(x + y) /\ Wrap(x + y) = (x + y) % 2^XLEN
    BY <1>6 DEF AmoD, Wrap, Modulus
  <2>2. Wrap(x + y) \in Word
    BY <1>2, Conversions
  <2> QED  BY <1>1, <1>6, <2>1, <2>2 DEF Updates
<1>7. CASE op = "amoand"
  <2>1. BitAnd(x, y) \in Word /\ BitsOf(BitAnd(x, y)) = BitsOf(x) \cap BitsOf(y)
    BY BitwiseBits DEF BitsOf
  <2> QED  BY <1>1, <1>7, <2>1 DEF AmoD, Updates
<1>8. CASE op = "amoor"
  <2>1. BitOr(x, y) \in Word /\ BitsOf(BitOr(x, y)) = BitsOf(x) \cup BitsOf(y)
    BY BitwiseBits DEF BitsOf
  <2> QED  BY <1>1, <1>8, <2>1 DEF AmoD, Updates
<1>9. CASE op = "amoxor"
  <2>1. BitXor(x, y) \in Word
        /\ \A k \in 0..(XLEN - 1) :
              Bit(BitXor(x, y), k) = 1 <=> (Bit(x, k) = 1) # (Bit(y, k) = 1)
    BY BitwiseBits
  <2> QED  BY <1>1, <1>9, <2>1 DEF AmoD, Updates
<1>10. CASE op = "amomin"
  BY <1>1, <1>3, <1>4, <1>10 DEF AmoD, Updates
<1>11. CASE op = "amomax"
  BY <1>1, <1>3, <1>4, <1>11 DEF AmoD, Updates
<1>12. CASE op = "amominu"
  BY <1>1, <1>2, <1>12 DEF AmoD, Updates
<1>13. CASE op = "amomaxu"
  BY <1>1, <1>2, <1>13 DEF AmoD, Updates
<1> QED
  BY <1>5, <1>6, <1>7, <1>8, <1>9, <1>10, <1>11, <1>12, <1>13 DEF AmoOps

\* ... and the word that is left of what one on words computes.
LEMMA UpdatesW ==
  ASSUME NEW op \in AmoOps, NEW m \in Word, NEW b \in Word
  PROVE  /\ AmoW(op, SextW(m), b) \in Int
         /\ Updates(op, WLEN, Low(m), Low(b), Low(AmoW(op, SextW(m), b)))
<1> DEFINE s == SextW(m)
           x == Low(m)
           y == Low(b)
           v == AmoW(op, s, b)
<1>1. WModulus = 2^WLEN /\ WModulus \in Nat /\ MinSignedW \in Nat
  BY Widths DEF WModulus
<1>2. m \in Int /\ b \in Int /\ m \in Nat /\ b \in Nat
  BY Widths DEF Word
<1>3. s \in Word /\ Low(s) = x
  BY <1>2, Extends
<1>4. s \in Int /\ s \in Nat
  BY <1>3, Widths DEF Word
<1>5. x \in 0..(2^WLEN - 1) /\ y \in 0..(2^WLEN - 1)
  BY <1>1, <1>2, Conversions
<1>6. x \in Int /\ y \in Int /\ Low(x) = x /\ Low(y) = y
  BY <1>1, <1>2, <1>5, LowOf
<1>7. /\ SignedW(s) = SignedW(x) /\ SignedW(b) = SignedW(y)
      /\ SignedW(x) \in Int /\ SignedW(y) \in Int
  <2>1. SignedW(s) = SignedW(x) /\ SignedW(b) = SignedW(y)
    BY <1>2, <1>3, <1>4, <1>6, Conversions
  <2>2. SignedW(x) \in (-MinSignedW)..(MinSignedW - 1)
        /\ SignedW(y) \in (-MinSignedW)..(MinSignedW - 1)
    BY <1>6, Conversions
  <2> QED  BY <1>1, <2>1, <2>2
<1>8. SextW(b) \in Int /\ Low(SextW(b)) = y
  BY <1>2, Extends, Widths DEF Word
<1>9. \A u : SignedW(u) = SignedBits(WLEN, u)
  BY DEF SignedW
<1>10. /\ \A k \in 0..(XLEN - 1) : Bit(x, k) = 1 <=> k < WLEN /\ Bit(s, k) = 1
       /\ \A k \in 0..(XLEN - 1) : Bit(y, k) = 1 <=> k < WLEN /\ Bit(b, k) = 1
  BY <1>2, <1>3, <1>4, LowOfBits
<1>11. ASSUME NEW u \in Word
       PROVE  /\ u \in Int /\ Low(u) \in 0..(2^WLEN - 1)
              /\ \A k \in 0..(XLEN - 1) : Bit(Low(u), k) = 1 <=> k < WLEN /\ Bit(u, k) = 1
  <2>1. u \in Int /\ u \in Nat
    BY Widths DEF Word
  <2> QED  BY <1>1, <2>1, Conversions, LowOfBits
<1> HIDE DEF s, x, y
<1>12. CASE op = "amoswap"
  BY <1>2, <1>5, <1>12 DEF AmoW, AmoD, Updates, y
<1>13. CASE op = "amoadd"
  <2>1. v = Wrap(s + b)
    BY <1>13 DEF AmoW, AmoD
  <2>2. v \in Int /\ Low(v) = (x + y) % 2^WLEN
    <3>1. s + b \in Int /\ Wrap(s + b) \in Word
      BY <1>2, <1>4, Conversions
    <3>2. Wrap(s + b) \in Int
      BY <3>1, <1>11
    <3>3. Low(Wrap(s + b)) = Low(s + b) /\ Low(s + b) = Low(x + y)
      <4>1. Low(Wrap(s + b)) = Low(s + b)
        BY <3>1, LowOf
      <4>2. Low(s + b) = Low(Low(s) + Low(b))
        BY <1>2, <1>4, LowOf
      <4> QED  BY <1>3, <4>1, <4>2 DEF y
    <3> QED  BY <2>1, <3>2, <3>3, <1>1 DEF Low
  <2>3. Low(v) \in 0..(2^WLEN - 1)
    BY <1>1, <2>2, Conversions
  <2> HIDE DEF v
  <2>4. Updates(op, WLEN, x, y, Low(v))
    BY <1>13, <2>2, <2>3 DEF Updates
  <2> QED  BY <2>2, <2>4 DEF v, s, x, y
<1>14. CASE op \in {"amoand", "amoor", "amoxor"}
  <2>1. v = CASE op = "amoand" -> BitAnd(s, b) [] op = "amoor" -> BitOr(s, b)
             [] op = "amoxor" -> BitXor(s, b)
    BY <1>14 DEF AmoW, AmoD
  <2>2. v \in Word
    BY <1>14, <2>1, BitwiseBits
  <2>3. \A k \in 0..(XLEN - 1) :
          /\ op = "amoand" => (Bit(v, k) = 1 <=> Bit(s, k) = 1 /\ Bit(b, k) = 1)
          /\ op = "amoor"  => (Bit(v, k) = 1 <=> Bit(s, k) = 1 \/ Bit(b, k) = 1)
          /\ op = "amoxor" => (Bit(v, k) = 1 <=> (Bit(s, k) = 1) # (Bit(b, k) = 1))
    BY <2>1, BitwiseBits
  <2> HIDE DEF v
  <2>4. /\ v \in Int /\ Low(v) \in 0..(2^WLEN - 1)
        /\ \A k \in 0..(XLEN - 1) : Bit(Low(v), k) = 1 <=> k < WLEN /\ Bit(v, k) = 1
    BY <1>11, <2>2
  <2>5. ASSUME NEW k \in 0..(XLEN - 1)
        PROVE  /\ op = "amoand" => (Bit(Low(v), k) = 1 <=> Bit(x, k) = 1 /\ Bit(y, k) = 1)
               /\ op = "amoor"  => (Bit(Low(v), k) = 1 <=> Bit(x, k) = 1 \/ Bit(y, k) = 1)
               /\ op = "amoxor" =>
                     (Bit(Low(v), k) = 1 <=> (Bit(x, k) = 1) # (Bit(y, k) = 1))
    BY <1>10, <2>3, <2>4
  <2>6. op = "amoand" => BitsOf(Low(v)) = BitsOf(x) \cap BitsOf(y)
    BY <2>5 DEF BitsOf
  <2>7. op = "amoor" => BitsOf(Low(v)) = BitsOf(x) \cup BitsOf(y)
    BY <2>5 DEF BitsOf
  <2>8. Updates(op, WLEN, x, y, Low(v))
    BY <1>14, <2>4, <2>5, <2>6, <2>7 DEF Updates
  <2> QED  BY <2>4, <2>8 DEF v, s, x, y
<1>15. CASE op = "amomin"
  <2>1. v = IF SignedW(s) < SignedW(b) THEN s ELSE SextW(b)
    BY <1>15 DEF AmoW
  <2>2. v \in Int /\ Low(v) = IF SignedW(x) < SignedW(y) THEN x ELSE y
    BY <1>3, <1>4, <1>7, <1>8, <2>1
  <2> HIDE DEF v
  <2> DEFINE w == Low(v)
  <2>3. w \in {x, y} /\ SignedW(w) <= SignedW(x) /\ SignedW(w) <= SignedW(y)
    BY <1>7, <2>2
  <2> HIDE DEF w
  <2>4. w \in 0..(2^WLEN - 1)
    BY <1>5, <2>3
  <2>5. Updates(op, WLEN, x, y, w)
    BY <1>9, <1>15, <2>3, <2>4 DEF Updates
  <2> QED  BY <2>2, <2>5 DEF v, w, s, x, y
<1>16. CASE op = "amomax"
  <2>1. v = IF SignedW(s) > SignedW(b) THEN s ELSE SextW(b)
    BY <1>16 DEF AmoW
  <2>2. v \in Int /\ Low(v) = IF SignedW(x) > SignedW(y) THEN x ELSE y
    BY <1>3, <1>4, <1>7, <1>8, <2>1
  <2> HIDE DEF v
  <2> DEFINE w == Low(v)
  <2>3. w \in {x, y} /\ SignedW(w) >= SignedW(x) /\ SignedW(w) >= SignedW(y)
    BY <1>7, <2>2
  <2> HIDE DEF w
  <2>4. w \in 0..(2^WLEN - 1)
    BY <1>5, <2>3
  <2>5. Updates(op, WLEN, x, y, w)
    BY <1>9, <1>16, <2>3, <2>4 DEF Updates
  <2> QED  BY <2>2, <2>5 DEF v, w, s, x, y
<1>17. CASE op = "amominu"
  <2>1. v = IF Low(s) < Low(b) THEN s ELSE Low(b)
    BY <1>17 DEF AmoW
  <2>2. v \in Int /\ Low(v) = IF x < y THEN x ELSE y
    BY <1>3, <1>4, <1>6, <2>1 DEF y
  <2> HIDE DEF v
  <2> DEFINE w == Low(v)
  <2>3. w \in {x, y} /\ w <= x /\ w <= y
    BY <1>6, <2>2
  <2> HIDE DEF w
  <2>4. w \in 0..(2^WLEN - 1)
    BY <1>5, <2>3
  <2>5. Updates(op, WLEN, x, y, w)
    BY <1>17, <2>3, <2>4 DEF Updates
  <2> QED  BY <2>2, <2>5 DEF v, w, s, x, y
<1>18. CASE op = "amomaxu"
  <2>1. v = IF Low(s) > Low(b) THEN s ELSE Low(b)
    BY <1>18 DEF AmoW
  <2>2. v \in Int /\ Low(v) = IF x > y THEN x ELSE y
    BY <1>3, <1>4, <1>6, <2>1 DEF y
  <2> HIDE DEF v
  <2> DEFINE w == Low(v)
  <2>3. w \in {x, y} /\ w >= x /\ w >= y
    BY <1>6, <2>2
  <2> HIDE DEF w
  <2>4. w \in 0..(2^WLEN - 1)
    BY <1>5, <2>3
  <2>5. Updates(op, WLEN, x, y, w)
    BY <1>18, <2>3, <2>4 DEF Updates
  <2> QED  BY <2>2, <2>5 DEF v, w, s, x, y
<1> QED
  BY <1>12, <1>13, <1>14, <1>15, <1>16, <1>17, <1>18 DEF AmoOps

\* An AMO on a doubleword, and one on its low word, which keeps the rest.
LEMMA AmosUpdate ==
  ASSUME NEW op \in AmoOps, NEW m \in Word, NEW b \in Word, NEW ram \in BOOLEAN
  PROVE  LET d == Amo(op, "d", m, b, ram)
             w == Amo(op, "w", m, b, ram)
         IN  IF ram
             THEN /\ d.rd = m /\ Updates(op, XLEN, m, b, d.mem)
                  /\ w.rd = SextW(m) /\ w.mem \div WModulus = m \div WModulus
                  /\ Updates(op, WLEN, Low(m), Low(b), Low(w.mem))
             ELSE d = [rd |-> 0, mem |-> m] /\ w = d
<1> DEFINE d == Amo(op, "d", m, b, ram)
           w == Amo(op, "w", m, b, ram)
           v == AmoW(op, SextW(m), b)
           q == m \div WModulus
<1>1. CASE ~ram
  <2>1. d = [rd |-> 0, mem |-> m] /\ w = [rd |-> SextW(0), mem |-> m]
    BY <1>1 DEF Amo
  <2> HIDE DEF d, w
  <2>2. d = [rd |-> 0, mem |-> m] /\ w = d
    BY <2>1, Specials
  <2> QED  BY <1>1, <2>2 DEF d, w
<1>2. CASE ram
  <2>1. d = [rd |-> m, mem |-> AmoD(op, m, b)]
        /\ w = [rd |-> SextW(m), mem |-> (m - Low(m)) + Low(v)]
    BY <1>2 DEF Amo
  <2> HIDE DEF d, w, v
  <2>2. /\ d.rd = m /\ d.mem = AmoD(op, m, b) /\ w.rd = SextW(m)
        /\ w.mem = (m - Low(m)) + Low(v)
    BY <2>1
  <2>3. Updates(op, XLEN, m, b, d.mem)
    BY <2>2, UpdatesD
  <2>4. v \in Int /\ Updates(op, WLEN, Low(m), Low(b), Low(v))
    BY UpdatesW DEF v
  <2>5. WModulus \in Nat /\ WModulus > 0 /\ m \in Int
    BY Widths DEF Word
  <2>6. m = (q * WModulus) + Low(m) /\ q \in Int /\ Low(m) \in 0..(WModulus - 1)
    BY <2>5, Euclid DEF Low
  <2>7. Low(v) \in 0..(WModulus - 1)
    BY <2>4, Conversions
  <2> HIDE DEF q
  <2>8. w.mem = (q * WModulus) + Low(v)
    BY <2>2, <2>5, <2>6, <2>7
  <2>9. ((q * WModulus) + Low(v)) \div WModulus = q
        /\ ((q * WModulus) + Low(v)) % WModulus = Low(v)
    BY <2>5, <2>6, <2>7, EuclidUnique
  <2>10. w.mem \div WModulus = m \div WModulus /\ Low(w.mem) = Low(v)
    BY <2>8, <2>9 DEF q, Low
  <2>11. IF ram
         THEN /\ d.rd = m /\ Updates(op, XLEN, m, b, d.mem)
              /\ w.rd = SextW(m) /\ w.mem \div WModulus = m \div WModulus
              /\ Updates(op, WLEN, Low(m), Low(b), Low(w.mem))
         ELSE d = [rd |-> 0, mem |-> m] /\ w = d
    BY <1>2, <2>2, <2>3, <2>4, <2>10
  <2> QED  BY <2>11 DEF d, w
<1> QED  BY <1>1, <1>2

--------------------------------------------------------------------------------
(* Compiled instructions: the operations.                                  *)

\* What a register may hold.
LEMMA WordIs ==
  ASSUME NEW a \in Word
  PROVE  /\ a \in Nat /\ a \in Int /\ a \in 0..(Modulus - 1) /\ a % Modulus = a
         /\ Low(a) \in Nat /\ Low(a) \in 0..(WModulus - 1)
         /\ Signed(a) \in Int /\ SignedW(a) \in Int
         /\ Signed(a) = IF a >= MinSigned THEN a - Modulus ELSE a
<1>1. a \in Nat /\ a \in Int /\ a \in 0..(Modulus - 1)
  BY Widths DEF Word
<1>2. a % Modulus = a
  BY <1>1, Widths, SmallMod
<1>3. Low(a) \in 0..(WModulus - 1)
  BY <1>1, Conversions
<1>4. /\ Signed(a) \in (-MinSigned)..(MinSigned - 1)
      /\ SignedW(a) \in (-MinSignedW)..(MinSignedW - 1)
  BY <1>1, Conversions
<1>5. Signed(a) = IF a % Modulus >= MinSigned THEN (a % Modulus) - Modulus ELSE a % Modulus
  BY DEF Signed, SignedBits, Modulus, MinSigned
<1> QED  BY <1>1, <1>2, <1>3, <1>4, <1>5, Widths

\* SF # OF after cmp is the order of signed numbers.
LEMMA LessIsSigned ==
  ASSUME NEW a \in Word, NEW b \in Word
  PROVE  Less(a, b) <=> Signed(a) < Signed(b)
<1> DEFINE M == Modulus
           H == MinSigned
           d == Wrap(a - b)
<1>1. M \in Nat /\ H \in Nat /\ M = 2 * H /\ H > 0
  BY Widths
<1>2. /\ a \in 0..(M - 1) /\ b \in 0..(M - 1)
      /\ Signed(a) = IF a >= H THEN a - M ELSE a
      /\ Signed(b) = IF b >= H THEN b - M ELSE b
  BY WordIs
<1>3. d = IF a >= b THEN a - b ELSE (a - b) + M
  <2>1. a - b \in Int /\ (a >= b => a - b \in 0..(M - 1)) /\ (a < b => a - b \in (-M)..(-1))
    BY <1>1, <1>2
  <2> HIDE DEF M
  <2>2. /\ a >= b => (a - b) % M = a - b
        /\ a < b => (a - b) % M = (a - b) + M
    BY <1>1, <2>1, SmallMod
  <2>3. d = (a - b) % M
    BY DEF Wrap, M
  <2> QED  BY <1>1, <1>2, <2>2, <2>3
<1> HIDE DEF M, d, H
<1>4. Less(a, b) <=> (d >= H) # ((a >= H) # (b >= H) /\ (d >= H) # (a >= H))
  BY DEF Less, Negative, d, H
<1> QED  BY <1>1, <1>2, <1>3, <1>4

\* A shift count below the width is its own.
LEMMA Counts ==
  /\ \A n \in Int : n % XLEN \in 0..(XLEN - 1) /\ (n % XLEN) % XLEN = n % XLEN
  /\ \A n \in Int : n % WLEN \in 0..(WLEN - 1) /\ (n % WLEN) % WLEN = n % WLEN
  /\ \A n \in 0..(XLEN - 1) : n % XLEN = n /\ Wrap(n) = n
  /\ \A n \in 0..(WLEN - 1) : n % WLEN = n /\ Wrap(n) = n /\ 2^n \in Nat /\ 2^n > 0
<1>1. XLEN \in Nat /\ XLEN > 0 /\ WLEN \in Nat /\ WLEN > 0 /\ WLEN <= XLEN
  BY Powers
<1>2. XLEN < Modulus /\ Modulus \in Nat
  BY <1>1, Powers, Widths DEF Modulus, Two
<1>3. \A n \in Int : n % XLEN \in 0..(XLEN - 1) /\ (n % XLEN) % XLEN = n % XLEN
  BY <1>1, Euclid, ModTwice
<1>4. \A n \in Int : n % WLEN \in 0..(WLEN - 1) /\ (n % WLEN) % WLEN = n % WLEN
  BY <1>1, Euclid, ModTwice
<1>5. \A n \in 0..(XLEN - 1) : n \in Int /\ n % XLEN = n /\ n \in 0..(Modulus - 1)
  BY <1>1, <1>2, SmallMod
<1>6. \A n \in 0..(XLEN - 1) : Wrap(n) = n
  BY <1>2, <1>5, SmallMod DEF Wrap
<1>7. \A n \in 0..(WLEN - 1) : n \in 0..(XLEN - 1) /\ n \in Nat /\ n % WLEN = n
  BY <1>1, SmallMod
<1>8. ASSUME NEW n \in 0..(WLEN - 1) PROVE 2^n \in Nat /\ 2^n > 0
  <2>1. Two(n) \in Nat /\ n < Two(n)
    BY <1>1, <1>7, Powers
  <2> QED  BY <2>1, <1>7 DEF Two
<1> QED  BY <1>3, <1>4, <1>5, <1>6, <1>7, <1>8

\* add .. sltu ...
LEMMA RegOpsAgree ==
  ASSUME NEW op \in RegOps, NEW a \in Word, NEW b \in Word
  PROVE  EmitRegOp(op, a, b) = Base(op, a, b)
<1>1. (b % XLEN) % XLEN = b % XLEN
  BY Counts, WordIs
<1>2. CASE op = "slt"
  BY <1>2, LessIsSigned DEF EmitRegOp, Base, Flag
<1>3. CASE op = "sltu"
  BY <1>3 DEF EmitRegOp, Base, Below
<1>4. CASE op = "sll"
  BY <1>1, <1>4 DEF EmitRegOp, Base, Shl
<1>5. CASE op = "srl"
  BY <1>1, <1>5 DEF EmitRegOp, Base, Shr
<1>6. CASE op = "sra"
  BY <1>1, <1>6 DEF EmitRegOp, Base, Sar
<1>7. CASE op = "add"
  BY <1>7 DEF EmitRegOp, Base
<1>8. CASE op = "sub"
  BY <1>8 DEF EmitRegOp, Base
<1>9. CASE op = "and"
  BY <1>9 DEF EmitRegOp, Base
<1>10. CASE op = "or"
  BY <1>10 DEF EmitRegOp, Base
<1>11. CASE op = "xor"
  BY <1>11 DEF EmitRegOp, Base
<1> QED
  BY <1>2, <1>3, <1>4, <1>5, <1>6, <1>7, <1>8, <1>9, <1>10, <1>11 DEF RegOps

\* ... addi .. andi ...
LEMMA ImmOpsAgree ==
  ASSUME NEW op \in ImmOps, NEW a \in Word, NEW b \in Word
  PROVE  EmitImmOp(op, a, b) = Base(op, a, b)
<1>1. CASE op = "slti"
  BY <1>1, LessIsSigned DEF EmitImmOp, Base, Flag
<1>2. CASE op = "sltiu"
  BY <1>2 DEF EmitImmOp, Base, Below
<1>3. CASE op = "addi"
  BY <1>3 DEF EmitImmOp, Base
<1>4. CASE op = "andi"
  BY <1>4 DEF EmitImmOp, Base
<1>5. CASE op = "ori"
  BY <1>5 DEF EmitImmOp, Base
<1>6. CASE op = "xori"
  BY <1>6 DEF EmitImmOp, Base
<1> QED  BY <1>1, <1>2, <1>3, <1>4, <1>5, <1>6 DEF ImmOps

\* ... and the shifts by a constant do what the interpreter does.
LEMMA ShiftOpsAgree ==
  ASSUME NEW op \in ShiftOps, NEW a, NEW n \in 0..(XLEN - 1)
  PROVE  EmitImmOp(op, a, n) = Base(op, a, n)
<1>1. n % XLEN = n
  BY Counts
<1>2. CASE op = "slli"
  BY <1>1, <1>2 DEF EmitImmOp, Base, Shl
<1>3. CASE op = "srli"
  BY <1>1, <1>3 DEF EmitImmOp, Base, Shr
<1>4. CASE op = "srai"
  BY <1>1, <1>4 DEF EmitImmOp, Base, Sar
<1> QED  BY <1>2, <1>3, <1>4 DEF ShiftOps

\* movsxd is the sign extension of words, for every value the code leaves in eax.
LEMMA MovsxdExtends ==
  ASSUME NEW v \in Int, v >= -Modulus
  PROVE  Movsxd(v) = SextW(v)
<1> DEFINE M == Modulus
<1>1. M \in Nat /\ M > 1
  BY Widths
<1>2. HostFault = -(M * M)
  BY DEF HostFault
<1> HIDE DEF M
<1>3. M * M >= 2 * M
  BY <1>1
<1>4. M * M \in Nat
  BY <1>1
<1>5. v # HostFault
  BY <1>1, <1>2, <1>3, <1>4 DEF M
<1> QED  BY <1>5 DEF Movsxd, SextW

\* A difference of low words, and a product, are those of the words to a conversion.
LEMMA LowResults ==
  ASSUME NEW a \in Word, NEW b \in Word
  PROVE  /\ SextW(Low(a) + Low(b)) = SextW(a + b)
         /\ SextW(Low(a) - Low(b)) = SextW(a - b)
         /\ SextW(Low(a) * Low(b)) = SextW(SignedW(a) * SignedW(b))
         /\ Wrap(a * b) = Wrap(Signed(a) * Signed(b))
<1> DEFINE N == WModulus
           x == Low(a)
           y == Low(b)
           u == SignedW(a)
           v == SignedW(b)
           M == Modulus
<1>1. N \in Nat /\ N > 0 /\ M \in Nat
  BY Widths
<1>2. a \in Int /\ b \in Int /\ x \in Nat /\ y \in Nat /\ u \in Int /\ v \in Int
      /\ x \in Int /\ y \in Int
  BY WordIs
<1>3. a = ((a \div N) * N) + x /\ b = ((b \div N) * N) + y
      /\ a \div N \in Int /\ b \div N \in Int
  BY <1>1, <1>2, Euclid DEF Low
<1>4. PICK k \in Int : u = a + (k * N)
  BY <1>2, Conversions
<1>5. PICK l \in Int : v = b + (l * N)
  BY <1>2, Conversions
<1> DEFINE i == -(a \div N)
           j == -(b \div N)
<1>6. i \in Int /\ j \in Int
  BY <1>3
<1>7. x = a + (i * N) /\ y = b + (j * N)
  <2> DEFINE p == a \div N
             q == b \div N
  <2>1. p \in Int /\ q \in Int /\ a = (p * N) + x /\ b = (q * N) + y
    BY <1>3
  <2> HIDE DEF p, q, N, x, y
  <2>2. x = a + ((-p) * N) /\ y = b + ((-q) * N)
    BY <1>1, <1>2, <2>1
  <2> QED  BY <2>2 DEF p, q
<1> HIDE DEF N, x, y, u, v, i, j, M
<1>8. \A p \in Int, q \in Int : Low(p + (q * N)) = Low(p)
  BY Multiples DEF N
<1>9. a + b \in Int /\ a - b \in Int /\ a * b \in Int /\ x + y \in Int /\ x - y \in Int
      /\ x * y \in Int /\ u * v \in Int
  BY <1>2
<1>10. x + y = (a + b) + ((i + j) * N) /\ i + j \in Int
  BY <1>1, <1>2, <1>6, <1>7
<1>11. x - y = (a - b) + ((i - j) * N) /\ i - j \in Int
  BY <1>1, <1>2, <1>6, <1>7
<1>12. \E m \in Int : x * y = (a * b) + (m * N)
  <2>1. \E m \in Int : (a + (i * N)) * (b + (j * N)) = (a * b) + (m * N)
    <3> DEFINE m == ((a * j) + (i * b)) + ((i * j) * N)
    <3>1. m \in Int
      BY <1>1, <1>2, <1>6
    <3>2. (a + (i * N)) * (b + (j * N)) = (a * b) + (m * N)
      BY <1>1, <1>2, <1>6
    <3> QED  BY <3>1, <3>2
  <2> QED  BY <1>7, <2>1, Zenon
<1>13. \E m \in Int : u * v = (a * b) + (m * N)
  <2>1. \E m \in Int : (a + (k * N)) * (b + (l * N)) = (a * b) + (m * N)
    <3> DEFINE m == ((a * l) + (k * b)) + ((k * l) * N)
    <3>1. m \in Int
      BY <1>1, <1>2
    <3>2. (a + (k * N)) * (b + (l * N)) = (a * b) + (m * N)
      BY <1>1, <1>2
    <3> QED  BY <3>1, <3>2
  <2> QED  BY <1>4, <1>5, <2>1, Zenon
<1>14. Low(x + y) = Low(a + b)
  BY <1>8, <1>9, <1>10
<1>15. Low(x - y) = Low(a - b)
  BY <1>8, <1>9, <1>11
<1>16. Low(x * y) = Low(a * b) /\ Low(u * v) = Low(a * b)
  <2> PICK m \in Int : x * y = (a * b) + (m * N)
    BY <1>12
  <2> PICK o \in Int : u * v = (a * b) + (o * N)
    BY <1>13
  <2>1. Low((a * b) + (m * N)) = Low(a * b) /\ Low((a * b) + (o * N)) = Low(a * b)
    BY <1>8, <1>9
  <2> QED  BY <2>1, Zenon
<1>17. /\ SextW(x + y) = SextW(a + b) /\ SextW(x - y) = SextW(a - b)
       /\ SextW(x * y) = SextW(u * v)
  BY <1>9, <1>14, <1>15, <1>16, Conversions
<1>18. Wrap(a * b) = Wrap(Signed(a) * Signed(b))
  <2> PICK p \in Int : Signed(a) = a + (p * M)
    BY <1>2, Conversions DEF M
  <2> PICK q \in Int : Signed(b) = b + (q * M)
    BY <1>2, Conversions DEF M
  <2>1. \E m \in Int : (a + (p * M)) * (b + (q * M)) = (a * b) + (m * M)
    <3> DEFINE m == ((a * q) + (p * b)) + ((p * q) * M)
    <3>1. m \in Int
      BY <1>1, <1>2
    <3>2. (a + (p * M)) * (b + (q * M)) = (a * b) + (m * M)
      BY <1>1, <1>2
    <3> QED  BY <3>1, <3>2
  <2>2. PICK m \in Int : (a + (p * M)) * (b + (q * M)) = (a * b) + (m * M)
    BY <2>1
  <2>3. Signed(a) * Signed(b) = (a * b) + (m * M)
    BY <2>2, Zenon
  <2>4. Wrap((a * b) + (m * M)) = Wrap(a * b)
    BY <1>9, Multiples DEF M
  <2> QED  BY <2>3, <2>4, Zenon
<1> QED  BY <1>17, <1>18 DEF x, y, u, v

\* A word shifted right by a count is a number again.
LEMMA ShiftedRight ==
  ASSUME NEW v \in Int, NEW n \in 0..(WLEN - 1)
  PROVE  v \div 2^n \in Int /\ (v >= 0 => v \div 2^n >= 0)
<1> DEFINE N == 2^n
           q == v \div N
<1>1. N \in Nat /\ N > 0
  BY Counts
<1> HIDE DEF N
<1>2. v = (q * N) + (v % N) /\ v % N \in 0..(N - 1) /\ q \in Int
  BY <1>1, Euclid
<1> HIDE DEF q
<1>3. v >= 0 => q >= 0
  <2> SUFFICES ASSUME v >= 0, q <= -1 PROVE FALSE
    BY <1>2
  <2>1. q * N <= (-1) * N
    BY <1>1, <1>2
  <2> DEFINE r == v % N
             p == q * N
  <2>2. v = p + r /\ r \in 0..(N - 1) /\ p <= -N /\ p \in Int
    BY <1>1, <1>2, <2>1
  <2> HIDE DEF r, p
  <2> QED  BY <1>1, <2>2
<1> QED  BY <1>2, <1>3 DEF q, N

\* What movsxd makes of eax is the sign extension of any number with that low word.
LEMMA MovsxdOfLow ==
  ASSUME NEW v \in Int
  PROVE  Movsxd(Low(v)) = SextW(v)
<1>1. Low(v) \in Nat /\ Low(Low(v)) = Low(v)
  BY LowOf
<1>2. Modulus \in Nat
  BY Widths
<1>3. Low(v) \in Int /\ Low(v) >= -Modulus
  BY <1>1, <1>2
<1>4. Movsxd(Low(v)) = SextW(Low(v))
  BY <1>3, MovsxdExtends
<1> QED  BY <1>1, <1>3, <1>4, Conversions

\* The shifts of words.
LEMMA ShiftsW ==
  ASSUME NEW a \in Word, NEW n \in 0..(WLEN - 1)
  PROVE  /\ Movsxd(ShlW(a, n)) = SextW(a * 2^n)
         /\ Movsxd(ShrW(a, n)) = SextW(Low(a) \div 2^n)
         /\ Movsxd(SarW(a, n)) = SextW(SignedW(a) \div 2^n)
<1>1. n % WLEN = n /\ 2^n \in Nat
  BY Counts
<1>2. a \in Int /\ Low(a) \in Nat /\ Low(a) \in Int /\ SignedW(a) \in Int /\ Modulus \in Nat
  BY WordIs, Widths
<1>3. /\ ShlW(a, n) = Low(a * 2^n) /\ ShrW(a, n) = Low(a) \div 2^n
      /\ SarW(a, n) = Low(SignedW(a) \div 2^n)
  BY <1>1 DEF ShlW, ShrW, SarW
<1>4. a * 2^n \in Int
  <2> DEFINE N == 2^n
  <2>1. N \in Nat
    BY <1>1
  <2> HIDE DEF N
  <2>2. a * N \in Int
    BY <1>2, <2>1
  <2> QED  BY <2>2 DEF N
<1>5. SignedW(a) \div 2^n \in Int
  BY <1>2, ShiftedRight
<1>6. Low(a) \div 2^n \in Int /\ Low(a) \div 2^n >= -Modulus
  <2>1. Low(a) \div 2^n \in Int /\ Low(a) \div 2^n >= 0
    BY <1>2, ShiftedRight
  <2> DEFINE s == Low(a) \div 2^n
  <2> HIDE DEF s
  <2>2. s \in Int /\ s >= 0 => s >= -Modulus
    BY <1>2
  <2> QED  BY <2>1, <2>2 DEF s
<1> QED  BY <1>3, <1>4, <1>5, <1>6, MovsxdOfLow, MovsxdExtends

\* The sums and differences of low words.
LEMMA SumsW ==
  ASSUME NEW a \in Word, NEW b \in Word
  PROVE  /\ Movsxd(Low(a) + Low(b)) = SextW(a + b)
         /\ Movsxd(Low(a) - Low(b)) = SextW(a - b)
         /\ Movsxd(Low(a) * Low(b)) = SextW(SignedW(a) * SignedW(b))
<1>1. Low(a) \in 0..(WModulus - 1) /\ Low(b) \in 0..(WModulus - 1)
  BY WordIs
<1>2. WModulus \in Nat /\ Modulus \in Nat /\ WModulus <= Modulus
  <2> DEFINE N == WModulus
  <2>1. N \in Nat /\ N > 0 /\ Modulus = N * N /\ Modulus \in Nat
    BY Widths
  <2> HIDE DEF N
  <2>2. N <= N * N
    BY <2>1
  <2> QED  BY <2>1, <2>2 DEF N
<1> DEFINE x == Low(a)
           y == Low(b)
<1> HIDE DEF x, y
<1>3. x \in Nat /\ y \in Nat /\ x < WModulus /\ y < WModulus
  BY <1>1, <1>2 DEF x, y
<1>4. /\ x + y \in Int /\ x + y >= -Modulus
      /\ x - y \in Int /\ x - y >= -Modulus
  BY <1>2, <1>3
<1>5. x * y \in Nat
  BY <1>3
<1>6. x * y \in Int /\ x * y >= -Modulus
  BY <1>2, <1>5
<1>7. /\ Movsxd(x + y) = SextW(x + y) /\ Movsxd(x - y) = SextW(x - y)
      /\ Movsxd(x * y) = SextW(x * y)
  BY <1>4, <1>6, MovsxdExtends
<1> QED  BY <1>7, LowResults DEF x, y

\* addw .. sraw ...
LEMMA RegOpsWAgree ==
  ASSUME NEW op \in RegOpsW, NEW a \in Word, NEW b \in Word
  PROVE  EmitRegOpW(op, a, b) = BaseW(op, a, b)
<1>1. b % WLEN \in 0..(WLEN - 1)
  BY Counts, WordIs
<1>2. CASE op = "addw"
  BY <1>2, SumsW DEF EmitRegOpW, BaseW
<1>3. CASE op = "subw"
  BY <1>3, SumsW DEF EmitRegOpW, BaseW
<1>4. CASE op = "sllw"
  BY <1>1, <1>4, ShiftsW DEF EmitRegOpW, BaseW
<1>5. CASE op = "srlw"
  BY <1>1, <1>5, ShiftsW DEF EmitRegOpW, BaseW
<1>6. CASE op = "sraw"
  BY <1>1, <1>6, ShiftsW DEF EmitRegOpW, BaseW
<1> QED  BY <1>2, <1>3, <1>4, <1>5, <1>6 DEF RegOpsW

\* ... slliw, srliw and sraiw, whose counts are small ...
LEMMA ShiftOpsWAgree ==
  ASSUME NEW op \in ShiftOpsW, NEW a \in Word, NEW n \in 0..(WLEN - 1)
  PROVE  EmitImmOpW(op, a, n) = BaseW(op, a, n)
<1>1. CASE op = "slliw"
  BY <1>1, ShiftsW DEF EmitImmOpW, BaseW
<1>2. CASE op = "srliw"
  BY <1>2, ShiftsW DEF EmitImmOpW, BaseW
<1>3. CASE op = "sraiw"
  BY <1>3, ShiftsW DEF EmitImmOpW, BaseW
<1> QED  BY <1>1, <1>2, <1>3 DEF ShiftOpsW

\* ... and addiw do what the interpreter does.
LEMMA AddiwAgrees ==
  ASSUME NEW a \in Word, NEW b \in Word
  PROVE  EmitImmOpW("addiw", a, b) = BaseW("addiw", a, b)
BY SumsW DEF EmitImmOpW, BaseW

\* The products: rdx:rax holds the whole of them.
LEMMA MulOpsAgree ==
  ASSUME NEW op \in MulOps \ Uncompiled, NEW a \in Word, NEW b \in Word
  PROVE  EmitMul(op, a, b) = Multiply(op, a, b)
<1>1. CASE op = "mul"
  BY <1>1, LowResults DEF EmitMul, Multiply
<1>2. CASE op = "mulh"
  BY <1>2 DEF EmitMul, Multiply, ImulHigh
<1>3. CASE op = "mulhu"
  BY <1>3 DEF EmitMul, Multiply, MulHigh
<1>4. CASE op = "mulw"
  BY <1>4, SumsW DEF EmitMul, Multiply
<1> QED  BY <1>1, <1>2, <1>3, <1>4 DEF MulOps, Uncompiled

\* idiv of a number of the range by a word gives quotient and remainder, and no #DE,
\* if the code has excluded zero and the overflow.
LEMMA IdivGives ==
  ASSUME NEW x \in (-MinSigned)..(MinSigned - 1), NEW b \in Word, b # 0,
         ~(x = -MinSigned /\ Signed(b) = -1)
  PROVE  /\ Idiv(x, b).q = Wrap(Quotient(x, Signed(b)))
         /\ Idiv(x, b).r = Wrap(Remainder(x, Signed(b)))
<1> DEFINE y == Signed(b)
           q == IF (x < 0) = (y < 0) THEN Magnitude(x) \div Magnitude(y)
                ELSE -(Magnitude(x) \div Magnitude(y))
<1>1. MinSigned \in Nat /\ MinSigned > 0
  BY Widths
<1>2. b \in Int /\ y # 0 /\ y \in (-MinSigned)..(MinSigned - 1)
  <2>1. b \in Int
    BY WordIs
  <2> QED  BY <2>1, Conversions, Corresponds
<1>3. y \in Int /\ x \in Int
  BY <1>1, <1>2
<1> HIDE DEF y
<1>4. q = Quotient(x, y)
  <2> DEFINE d == Abs(x) \div Abs(y)
  <2>1. Abs(x) \in Int /\ Abs(y) \in Nat /\ Abs(y) > 0
    BY <1>2, <1>3 DEF Abs
  <2>2. d \in Int
    BY <2>1, Euclid
  <2>3. q = IF (x < 0) = (y < 0) THEN d ELSE -d
    BY DEF Magnitude, Abs
  <2>4. Quotient(x, y) = (IF (x < 0) = (y < 0) THEN 1 ELSE -1) * d
    BY DEF Quotient
  <2> HIDE DEF d, q
  <2> QED  BY <2>2, <2>3, <2>4
<1>5. Quotient(x, y) \in (-MinSigned)..(MinSigned - 1)
      /\ Remainder(x, y) \in (-MinSigned)..(MinSigned - 1)
  <2>1. ~(x = -MinSigned /\ y = -1)
    BY DEF y
  <2> QED  BY <1>1, <1>2, <2>1, Fits
<1>6. Idiv(x, b) = IF q \in -MinSigned..(MinSigned - 1)
                   THEN [q |-> Wrap(q), r |-> Wrap(x - q * y)]
                   ELSE [q |-> HostFault, r |-> HostFault]
  BY DEF Idiv, y
<1> HIDE DEF q
<1>7. Idiv(x, b).q = Wrap(q) /\ Idiv(x, b).r = Wrap(x - q * y)
  BY <1>4, <1>5, <1>6
<1>8. x - q * y = Remainder(x, y)
  <2>1. Remainder(x, y) = x - y * Quotient(x, y)
    BY DEF Remainder
  <2>2. q \in Int
    BY <1>1, <1>4, <1>5
  <2>3. q * y = y * q
    BY <1>3, <2>2
  <2> QED  BY <1>4, <2>1, <2>3
<1> QED  BY <1>4, <1>7, <1>8 DEF y

\* div .. remu.
LEMMA DivOpsAgree ==
  ASSUME NEW op \in DivOps, NEW a \in Word, NEW b \in Word
  PROVE  EmitDiv(op, a, b) = Divide(op, a, b)
<1>1. /\ Signed(a) \in (-MinSigned)..(MinSigned - 1)
      /\ a = MinSigned <=> Signed(a) = -MinSigned
      /\ b = Ones <=> Signed(b) = -1
  BY WordIs, Conversions, Corresponds
<1>2. b # 0 /\ ~(a = MinSigned /\ b = Ones) =>
         /\ Idiv(Signed(a), b).q = Wrap(Quotient(Signed(a), Signed(b)))
         /\ Idiv(Signed(a), b).r = Wrap(Remainder(Signed(a), Signed(b)))
  BY <1>1, IdivGives
<1>3. b # 0 => Div(a, b).q = a \div b /\ Div(a, b).r = a % b
  BY DEF Div
<1>4. CASE op = "div"
  <2>1. EmitDiv(op, a, b) = IF b = 0 THEN Ones ELSE IF a = MinSigned /\ b = Ones THEN a
                            ELSE Idiv(Signed(a), b).q
    BY <1>4 DEF EmitDiv
  <2>2. Divide(op, a, b) = IF b = 0 THEN Ones ELSE IF a = MinSigned /\ b = Ones THEN MinSigned
                           ELSE Wrap(Quotient(Signed(a), Signed(b)))
    BY <1>4 DEF Divide
  <2> QED  BY <1>2, <2>1, <2>2
<1>5. CASE op = "divu"
  <2>1. EmitDiv(op, a, b) = IF b = 0 THEN Ones ELSE Div(a, b).q
    BY <1>5 DEF EmitDiv
  <2>2. Divide(op, a, b) = IF b = 0 THEN Ones ELSE a \div b
    BY <1>5 DEF Divide
  <2> QED  BY <1>3, <2>1, <2>2, Zenon
<1>6. CASE op = "rem"
  <2>1. EmitDiv(op, a, b) = IF b = 0 THEN a ELSE IF a = MinSigned /\ b = Ones THEN 0
                            ELSE Idiv(Signed(a), b).r
    BY <1>6 DEF EmitDiv
  <2>2. Divide(op, a, b) = IF b = 0 THEN a ELSE IF a = MinSigned /\ b = Ones THEN 0
                           ELSE Wrap(Remainder(Signed(a), Signed(b)))
    BY <1>6 DEF Divide
  <2> QED  BY <1>2, <2>1, <2>2
<1>7. CASE op = "remu"
  <2>1. EmitDiv(op, a, b) = IF b = 0 THEN a ELSE Div(a, b).r
    BY <1>7 DEF EmitDiv
  <2>2. Divide(op, a, b) = IF b = 0 THEN a ELSE a % b
    BY <1>7 DEF Divide
  <2> QED  BY <1>3, <2>1, <2>2, Zenon
<1> QED  BY <1>4, <1>5, <1>6, <1>7 DEF DivOps

\* divw .. remuw: the code divides the extended words as 64-bit numbers.
LEMMA DivOpsWAgree ==
  ASSUME NEW op \in DivOpsW, NEW a \in Word, NEW b \in Word
  PROVE  EmitDivW(op, a, b) = DivideW(op, a, b)
<1> DEFINE x == SextW(a)
           y == SextW(b)
           u == SignedW(a)
           v == SignedW(b)
           H == MinSigned
           K == MinSignedW
<1>1. /\ H \in Nat /\ H > 0 /\ K \in Nat /\ K < H /\ K >= 2 /\ K \in Int
      /\ Modulus \in Nat /\ WModulus \in Nat /\ WModulus = 2 * K
  BY Widths
<1>2. /\ a \in Nat /\ a \in Int /\ b \in Int /\ u \in Int /\ v \in Int
      /\ Low(a) \in Nat /\ Low(b) \in Nat
  BY WordIs
<1>3. u \in (-K)..(K - 1) /\ v \in (-K)..(K - 1)
  BY <1>2, Conversions
<1>4. u \in (-H)..(H - 1) /\ v \in (-H)..(H - 1)
  BY <1>1, <1>3
<1>5. /\ x \in Word /\ y \in Word /\ Signed(x) = u /\ Signed(y) = v
      /\ Low(x) = Low(a) /\ Low(y) = Low(b)
  BY <1>2, <1>4, Conversions, Extends DEF SextW
<1>6. /\ y = 0 <=> Low(b) = 0
      /\ y = Ones <=> v = -1
      /\ Low(a) = K <=> u = -K
      /\ Low(b) = 0 <=> v = 0
  BY <1>2, <1>5, Corresponds
<1>7. x = SextW(K) <=> Low(a) = K
  <2>1. Low(K) = K
    <3>1. K \in Int /\ K \in 0..(WModulus - 1)
      BY <1>1
    <3> QED  BY <1>1, <3>1, SmallMod DEF Low
  <2>2. x = SextW(K) => Low(a) = K
    BY <1>1, <1>5, <2>1, Extends
  <2>3. Low(a) = K => x = SextW(K)
    BY <1>1, <1>2, <2>1, Conversions
  <2> QED  BY <2>2, <2>3
<1>8. Movsxd(a) = x /\ Movsxd(b) = y /\ Movsxd(K) = SextW(K)
  <2>1. a >= -Modulus /\ b >= -Modulus /\ K >= -Modulus
    BY <1>1, <1>2, WordIs
  <2> QED  BY <1>1, <1>2, <2>1, MovsxdExtends
<1>9. ASSUME NEW w \in Int PROVE Movsxd(Wrap(w)) = SextW(w)
  <2>1. Wrap(w) \in Word /\ Low(Wrap(w)) = Low(w)
    BY Conversions, LowOf
  <2>2. Wrap(w) \in Int /\ Wrap(w) >= -Modulus
    BY <1>1, <2>1, WordIs
  <2>3. Movsxd(Wrap(w)) = SextW(Wrap(w))
    BY <2>2, MovsxdExtends
  <2> QED  BY <2>1, <2>2, <2>3, Conversions
<1> HIDE DEF x, y, u, v, H, K
<1>10. ASSUME Low(b) # 0, ~(Low(a) = K /\ v = -1)
       PROVE  /\ Movsxd(Idiv(Signed(x), y).q) = SextW(Quotient(u, v))
              /\ Movsxd(Idiv(Signed(x), y).r) = SextW(Remainder(u, v))
  <2>1. v # 0 /\ y # 0
    BY <1>6, <1>10
  <2>2. ~(u = -H /\ Signed(y) = -1)
    BY <1>1, <1>3, <1>5, <1>6, <1>10
  <2>3. /\ Idiv(u, y).q = Wrap(Quotient(u, Signed(y)))
        /\ Idiv(u, y).r = Wrap(Remainder(u, Signed(y)))
    BY <1>4, <1>5, <2>1, <2>2, IdivGives DEF H
  <2>4. Quotient(u, v) \in Int /\ Remainder(u, v) \in Int
    BY <1>2, <2>1, Truncates
  <2> QED  BY <1>5, <1>9, <2>3, <2>4
<1>11. ASSUME Low(b) # 0
       PROVE  /\ Movsxd(Div(Low(a), Low(b)).q) = SextW(Low(a) \div Low(b))
              /\ Movsxd(Div(Low(a), Low(b)).r) = SextW(Low(a) % Low(b))
  <2> DEFINE m == Low(a)
             n == Low(b)
             q == m \div n
             r == m % n
  <2>1. Div(m, n).q = q /\ Div(m, n).r = r
    BY <1>11 DEF Div
  <2>2. m \in Nat /\ n \in Nat /\ n > 0
    BY <1>2, <1>11
  <2> HIDE DEF m, n
  <2>3. m = (q * n) + r /\ r \in 0..(n - 1) /\ q \in Int
    BY <2>2, Euclid
  <2> HIDE DEF q, r
  <2>4. q >= 0
    <3> SUFFICES ASSUME q <= -1 PROVE FALSE
      BY <2>3
    <3>1. q * n <= (-1) * n
      BY <2>2, <2>3
    <3> QED  BY <2>2, <2>3, <3>1
  <2>5. q \in Int /\ q >= -Modulus /\ r \in Int /\ r >= -Modulus
    BY <1>1, <2>2, <2>3, <2>4
  <2>6. Movsxd(q) = SextW(q) /\ Movsxd(r) = SextW(r)
    BY <2>5, MovsxdExtends
  <2> QED  BY <2>1, <2>6 DEF m, n, q, r
<1> DEFINE over == x = Movsxd(K) /\ y = Ones
<1>12. over <=> Low(a) = K /\ v = -1
  BY <1>6, <1>7, <1>8
<1>13. CASE op = "divw"
  <2>1. EmitDivW(op, a, b) = IF y = 0 THEN Ones ELSE IF over THEN x
                             ELSE Movsxd(Idiv(Signed(x), y).q)
    BY <1>8, <1>13 DEF EmitDivW, K
  <2>2. DivideW(op, a, b) = IF Low(b) = 0 THEN Ones ELSE IF Low(a) = K /\ v = -1 THEN SextW(K)
                            ELSE SextW(Quotient(u, v))
    BY <1>13 DEF DivideW, u, v, K
  <2> HIDE DEF over
  <2> QED  BY <1>6, <1>7, <1>10, <1>12, <2>1, <2>2
<1>14. CASE op = "remw"
  <2>1. EmitDivW(op, a, b) = IF y = 0 THEN x ELSE IF over THEN 0
                             ELSE Movsxd(Idiv(Signed(x), y).r)
    BY <1>8, <1>14 DEF EmitDivW, K
  <2>2. DivideW(op, a, b) = IF Low(b) = 0 THEN x ELSE IF Low(a) = K /\ v = -1 THEN 0
                            ELSE SextW(Remainder(u, v))
    BY <1>14 DEF DivideW, u, v, K, x
  <2> HIDE DEF over
  <2> QED  BY <1>6, <1>10, <1>12, <2>1, <2>2
<1>15. CASE op = "divuw"
  <2>1. EmitDivW(op, a, b) = IF Low(b) = 0 THEN Ones ELSE Movsxd(Div(Low(a), Low(b)).q)
    BY <1>15 DEF EmitDivW
  <2>2. DivideW(op, a, b) = IF Low(b) = 0 THEN Ones ELSE SextW(Low(a) \div Low(b))
    BY <1>15 DEF DivideW
  <2> QED  BY <1>11, <2>1, <2>2, Zenon
<1>16. CASE op = "remuw"
  <2>1. EmitDivW(op, a, b) = IF Low(b) = 0 THEN Movsxd(a)
                             ELSE Movsxd(Div(Low(a), Low(b)).r)
    BY <1>16 DEF EmitDivW
  <2>2. DivideW(op, a, b) = IF Low(b) = 0 THEN SextW(a) ELSE SextW(Low(a) % Low(b))
    BY <1>16 DEF DivideW
  <2> QED  BY <1>8, <1>11, <2>1, <2>2, Zenon DEF x
<1> QED  BY <1>13, <1>14, <1>15, <1>16 DEF DivOpsW

--------------------------------------------------------------------------------
(* Compiled instructions: one instruction as a whole.                      *)

\* The groups of instructions, as the CASEs of both sides name them.
LEMMA Groups ==
  /\ {"add", "sub", "and", "or", "xor", "sll", "srl", "sra", "slt", "sltu"} = RegOps
  /\ {"addi", "andi", "ori", "xori", "slti", "sltiu", "slli", "srli", "srai"}
       = ImmOps \cup ShiftOps
  /\ {"addw", "subw", "sllw", "srlw", "sraw"} = RegOpsW
  /\ {"addiw", "slliw", "srliw", "sraiw"} = ShiftOpsW \cup {"addiw"}
  /\ {"mul", "mulh", "mulhu", "mulw"} = MulOps \ Uncompiled
  /\ {"div", "divu", "rem", "remu"} = DivOps
  /\ {"divw", "divuw", "remw", "remuw"} = DivOpsW
  /\ {"beq", "bne", "blt", "bge", "bltu", "bgeu"} = Branches
BY DEF RegOps, ImmOps, ShiftOps, RegOpsW, ShiftOpsW, MulOps, Uncompiled, DivOps, DivOpsW,
       Branches

\* No operation is in two groups.
LEMMA Disjoint ==
  /\ \A op \in RegOps : op \notin ImmOps \cup ShiftOps /\ op \notin RegOpsW
       /\ op \notin ShiftOpsW \cup {"addiw"} /\ op \notin MulOps /\ op \notin DivOps
       /\ op \notin DivOpsW
  /\ \A op \in ImmOps \cup ShiftOps : op \notin RegOps /\ op \notin RegOpsW
       /\ op \notin ShiftOpsW \cup {"addiw"} /\ op \notin MulOps /\ op \notin DivOps
       /\ op \notin DivOpsW
  /\ \A op \in RegOpsW : op \notin RegOps /\ op \notin ImmOps \cup ShiftOps
       /\ op \notin ShiftOpsW \cup {"addiw"} /\ op \notin MulOps /\ op \notin DivOps
       /\ op \notin DivOpsW
  /\ \A op \in ShiftOpsW \cup {"addiw"} : op \notin RegOps /\ op \notin ImmOps \cup ShiftOps
       /\ op \notin RegOpsW /\ op \notin MulOps /\ op \notin DivOps /\ op \notin DivOpsW
  /\ \A op \in MulOps : op \notin RegOps /\ op \notin ImmOps \cup ShiftOps
       /\ op \notin RegOpsW /\ op \notin ShiftOpsW \cup {"addiw"} /\ op \notin DivOps
       /\ op \notin DivOpsW
  /\ \A op \in DivOps : op \notin RegOps /\ op \notin ImmOps \cup ShiftOps
       /\ op \notin RegOpsW /\ op \notin ShiftOpsW \cup {"addiw"} /\ op \notin MulOps
       /\ op \notin DivOpsW
  /\ \A op \in DivOpsW : op \notin RegOps /\ op \notin ImmOps \cup ShiftOps
       /\ op \notin RegOpsW /\ op \notin ShiftOpsW \cup {"addiw"} /\ op \notin MulOps
       /\ op \notin DivOps
BY DEF RegOps, ImmOps, ShiftOps, RegOpsW, ShiftOpsW, MulOps, Uncompiled, DivOps, DivOpsW

\* What the interpreter computes, group by group ...
LEMMA ValueOf ==
  ASSUME NEW op, NEW a, NEW b
  PROVE  /\ op \in RegOps => Value(op, a, b) = Base(op, a, b)
         /\ op \in ImmOps \cup ShiftOps => Value(op, a, b) = Base(op, a, b)
         /\ op \in RegOpsW => Value(op, a, b) = BaseW(op, a, b)
         /\ op \in ShiftOpsW \cup {"addiw"} => Value(op, a, b) = BaseW(op, a, b)
         /\ op \in MulOps => Value(op, a, b) = Multiply(op, a, b)
         /\ op \in DivOps => Value(op, a, b) = Divide(op, a, b)
         /\ op \in DivOpsW => Value(op, a, b) = DivideW(op, a, b)
<1> DEFINE V1 == RegOps \cup ImmOps \cup ShiftOps
           V2 == RegOpsW \cup ShiftOpsW \cup {"addiw"}
<1>1. Value(op, a, b) = CASE op \in V1 -> Base(op, a, b)
                          [] op \in V2 -> BaseW(op, a, b)
                          [] op \in MulOps -> Multiply(op, a, b)
                          [] op \in DivOps -> Divide(op, a, b)
                          [] op \in DivOpsW -> DivideW(op, a, b)
  BY Zenon DEF Value
<1>2. /\ op \in V1 <=> op \in RegOps \/ op \in ImmOps \cup ShiftOps
      /\ op \in V2 <=> op \in RegOpsW \/ op \in ShiftOpsW \cup {"addiw"}
  OBVIOUS
<1> HIDE DEF V1, V2
<1>3. CASE op \in V1
  <2>1. op \notin V2 /\ op \notin MulOps /\ op \notin DivOps /\ op \notin DivOpsW
    BY <1>2, <1>3, Disjoint, Zenon
  <2> QED  BY <1>1, <1>2, <1>3, <2>1, Zenon
<1>4. CASE op \in V2
  <2>1. op \notin V1 /\ op \notin MulOps /\ op \notin DivOps /\ op \notin DivOpsW
    BY <1>2, <1>4, Disjoint, Zenon
  <2> QED  BY <1>1, <1>2, <1>4, <2>1, Zenon
<1>5. CASE op \in MulOps
  <2>1. op \notin V1 /\ op \notin V2 /\ op \notin DivOps /\ op \notin DivOpsW
    BY <1>2, <1>5, Disjoint, Zenon
  <2> QED  BY <1>1, <1>2, <1>5, <2>1, Zenon
<1>6. CASE op \in DivOps
  <2>1. op \notin V1 /\ op \notin V2 /\ op \notin MulOps /\ op \notin DivOpsW
    BY <1>2, <1>6, Disjoint, Zenon
  <2> QED  BY <1>1, <1>2, <1>6, <2>1, Zenon
<1>7. CASE op \in DivOpsW
  <2>1. op \notin V1 /\ op \notin V2 /\ op \notin MulOps /\ op \notin DivOps
    BY <1>2, <1>7, Disjoint, Zenon
  <2> QED  BY <1>1, <1>2, <1>7, <2>1, Zenon
<1> QED  BY <1>2, <1>3, <1>4, <1>5, <1>6, <1>7, Zenon

\* ... and what the code leaves in rax.
LEMMA RaxOf ==
  ASSUME NEW i, NEW regs
  PROVE  LET a == regs[i.rs1]
             b == regs[i.rs2]
             imm == Wrap(i.imm)
         IN  /\ i.op \in RegOps => Rax(i, regs) = EmitRegOp(i.op, a, b)
             /\ i.op \in ImmOps \cup ShiftOps => Rax(i, regs) = EmitImmOp(i.op, a, imm)
             /\ i.op \in RegOpsW => Rax(i, regs) = EmitRegOpW(i.op, a, b)
             /\ i.op \in ShiftOpsW \cup {"addiw"} => Rax(i, regs) = EmitImmOpW(i.op, a, imm)
             /\ i.op \in MulOps \ Uncompiled => Rax(i, regs) = EmitMul(i.op, a, b)
             /\ i.op \in DivOps => Rax(i, regs) = EmitDiv(i.op, a, b)
             /\ i.op \in DivOpsW => Rax(i, regs) = EmitDivW(i.op, a, b)
<1> DEFINE a == regs[i.rs1]
           b == regs[i.rs2]
           imm == Wrap(i.imm)
           op == i.op
           I == ImmOps \cup ShiftOps
           W == ShiftOpsW \cup {"addiw"}
           P == MulOps \ Uncompiled
<1>1. Rax(i, regs) = CASE op \in RegOps -> EmitRegOp(op, a, b)
                       [] op \in I -> EmitImmOp(op, a, imm)
                       [] op \in RegOpsW -> EmitRegOpW(op, a, b)
                       [] op \in W -> EmitImmOpW(op, a, imm)
                       [] op \in P -> EmitMul(op, a, b)
                       [] op \in DivOps -> EmitDiv(op, a, b)
                       [] op \in DivOpsW -> EmitDivW(op, a, b)
  BY Groups, Zenon DEF Rax
<1>2. op \in P => op \in MulOps
  OBVIOUS
<1> HIDE DEF a, b, imm, op, I, W, P
<1>3. CASE op \in RegOps
  <2>1. op \notin I /\ op \notin RegOpsW /\ op \notin W /\ op \notin MulOps
        /\ op \notin DivOps /\ op \notin DivOpsW
    BY <1>3, Disjoint, Zenon DEF I, W
  <2>2. Rax(i, regs) = EmitRegOp(op, a, b)
    BY <1>1, <1>2, <1>3, <2>1, Zenon
  <2> QED  BY <1>2, <1>3, <2>1, <2>2, Zenon DEF op, a, b, I, W, P
<1>4. CASE op \in I
  <2>1. op \notin RegOps /\ op \notin RegOpsW /\ op \notin W /\ op \notin MulOps
        /\ op \notin DivOps /\ op \notin DivOpsW
    BY <1>4, Disjoint, Zenon DEF I, W
  <2>2. Rax(i, regs) = EmitImmOp(op, a, imm)
    BY <1>1, <1>2, <1>4, <2>1, Zenon
  <2> QED  BY <1>2, <1>4, <2>1, <2>2, Zenon DEF op, a, imm, I, W, P
<1>5. CASE op \in RegOpsW
  <2>1. op \notin RegOps /\ op \notin I /\ op \notin W /\ op \notin MulOps
        /\ op \notin DivOps /\ op \notin DivOpsW
    BY <1>5, Disjoint, Zenon DEF I, W
  <2>2. Rax(i, regs) = EmitRegOpW(op, a, b)
    BY <1>1, <1>2, <1>5, <2>1, Zenon
  <2> QED  BY <1>2, <1>5, <2>1, <2>2, Zenon DEF op, a, b, I, W, P
<1>6. CASE op \in W
  <2>1. op \notin RegOps /\ op \notin I /\ op \notin RegOpsW /\ op \notin MulOps
        /\ op \notin DivOps /\ op \notin DivOpsW
    BY <1>6, Disjoint, Zenon DEF I, W
  <2>2. Rax(i, regs) = EmitImmOpW(op, a, imm)
    BY <1>1, <1>2, <1>6, <2>1, Zenon
  <2> QED  BY <1>2, <1>6, <2>1, <2>2, Zenon DEF op, a, imm, I, W, P
<1>7. CASE op \in P
  <2>1. op \notin RegOps /\ op \notin I /\ op \notin RegOpsW /\ op \notin W
        /\ op \notin DivOps /\ op \notin DivOpsW
    BY <1>2, <1>7, Disjoint, Zenon DEF I, W
  <2>2. Rax(i, regs) = EmitMul(op, a, b)
    BY <1>1, <1>7, <2>1, Zenon
  <2> QED  BY <1>7, <2>1, <2>2, Zenon DEF op, a, b, I, W, P
<1>8. CASE op \in DivOps
  <2>1. op \notin RegOps /\ op \notin I /\ op \notin RegOpsW /\ op \notin W
        /\ op \notin MulOps /\ op \notin DivOpsW
    BY <1>8, Disjoint, Zenon DEF I, W
  <2>2. Rax(i, regs) = EmitDiv(op, a, b)
    BY <1>1, <1>2, <1>8, <2>1, Zenon
  <2> QED  BY <1>2, <1>8, <2>1, <2>2, Zenon DEF op, a, b, I, W, P
<1>9. CASE op \in DivOpsW
  <2>1. op \notin RegOps /\ op \notin I /\ op \notin RegOpsW /\ op \notin W
        /\ op \notin MulOps /\ op \notin DivOps
    BY <1>9, Disjoint, Zenon DEF I, W
  <2>2. Rax(i, regs) = EmitDivW(op, a, b)
    BY <1>1, <1>2, <1>9, <2>1, Zenon
  <2> QED  BY <1>2, <1>9, <2>1, <2>2, Zenon DEF op, a, b, I, W, P
<1> QED  BY <1>3, <1>4, <1>5, <1>6, <1>7, <1>8, <1>9, Zenon DEF op, I, W, P

\* A register file of the units.
IsRegs(regs) == regs \in [0..2 -> Word] /\ regs[0] = 0

\* An operand that the decoder sign-extends, or a shift amount.
LEMMA Immediates ==
  ASSUME NEW c \in Word, NEW op
  PROVE  /\ op \in ShiftOps => Immediate(op, c) = c % XLEN /\ c % XLEN \in 0..(XLEN - 1)
         /\ op \in ShiftOpsW => Immediate(op, c) = c % WLEN /\ c % WLEN \in 0..(WLEN - 1)
         /\ op \in Branches \cup {"jal"} => Immediate(op, c) = Signed(c - (c % 2))
         /\ op \notin ShiftOps \cup ShiftOpsW \cup Branches \cup {"jal"} =>
                Immediate(op, c) = Signed(c)
         /\ Immediate(op, c) \in Int
<1> DEFINE J == Branches \cup {"jal"}
<1>1. Immediate(op, c) = CASE op \in ShiftOps -> c % XLEN
                           [] op \in ShiftOpsW -> c % WLEN
                           [] op \in J -> Signed(c - (c % 2))
                           [] OTHER -> Signed(c)
  BY DEF Immediate
<1>2. /\ op \in ShiftOps => op \notin ShiftOpsW /\ op \notin J
      /\ op \in ShiftOpsW => op \notin ShiftOps /\ op \notin J
      /\ op \in J => op \notin ShiftOps /\ op \notin ShiftOpsW
      /\ op \notin ShiftOps \cup ShiftOpsW \cup J =>
            op \notin ShiftOps /\ op \notin ShiftOpsW /\ op \notin J
  BY DEF ShiftOps, ShiftOpsW, Branches
<1> HIDE DEF J
<1>3. op \in ShiftOps => Immediate(op, c) = c % XLEN
  BY <1>1, <1>2, Zenon
<1>4. op \in ShiftOpsW => Immediate(op, c) = c % WLEN
  BY <1>1, <1>2, Zenon
<1>5. op \in J => Immediate(op, c) = Signed(c - (c % 2))
  BY <1>1, <1>2, Zenon
<1>6. op \notin ShiftOps \cup ShiftOpsW \cup J => Immediate(op, c) = Signed(c)
  BY <1>1, <1>2, Zenon
<1>7. c % XLEN \in 0..(XLEN - 1) /\ c % WLEN \in 0..(WLEN - 1) /\ c \in Int /\ Signed(c) \in Int
  BY WordIs, Counts
<1>8. c % XLEN \in Int /\ c % WLEN \in Int
  BY <1>7, Powers
<1>9. Signed(c - (c % 2)) \in Int
  <2>1. c - (c % 2) \in Int
    BY <1>7
  <2>2. Signed(c - (c % 2)) \in (-MinSigned)..(MinSigned - 1)
    BY <2>1, Conversions
  <2> QED  BY <2>2, Widths
<1>10. Immediate(op, c) \in Int
  <2>1. op \in ShiftOps \/ op \in ShiftOpsW \/ op \in J
        \/ op \notin ShiftOps \cup ShiftOpsW \cup J
    OBVIOUS
  <2> QED  BY <1>3, <1>4, <1>5, <1>6, <1>7, <1>8, <1>9, <2>1
<1> QED  BY <1>3, <1>4, <1>5, <1>6, <1>7, <1>10 DEF J

\* The result an instruction writes to rd is the interpreter's.
LEMMA ResultsAgree ==
  ASSUME NEW regs, IsRegs(regs), NEW c \in Word,
         NEW i, i.rs1 \in 0..2, i.rs2 \in 0..2, i.imm = Immediate(i.op, c)
  PROVE  /\ i.op \in BinaryOps \ Uncompiled =>
              Rax(i, regs) = Value(i.op, regs[i.rs1], regs[i.rs2])
         /\ i.op \in ImmediateOps => Rax(i, regs) = Value(i.op, regs[i.rs1], Wrap(i.imm))
<1> DEFINE op == i.op
           a == regs[i.rs1]
           b == regs[i.rs2]
           n == Wrap(i.imm)
<1>1. a \in Word /\ b \in Word
  BY DEF IsRegs
<1>2. n \in Word
  BY Immediates, Conversions
<1>3. op \in ShiftOps => n \in 0..(XLEN - 1)
  <2>1. op \in ShiftOps => i.imm \in 0..(XLEN - 1)
    BY Immediates
  <2>2. \A k \in 0..(XLEN - 1) : Wrap(k) = k
    BY Counts
  <2> QED  BY <2>1, <2>2
<1>4. op \in ShiftOpsW => n \in 0..(WLEN - 1)
  <2>1. op \in ShiftOpsW => i.imm \in 0..(WLEN - 1)
    BY Immediates
  <2>2. \A k \in 0..(WLEN - 1) : Wrap(k) = k
    BY Counts
  <2> QED  BY <2>1, <2>2
<1>5. /\ op \in RegOps => Rax(i, regs) = EmitRegOp(op, a, b)
      /\ op \in ImmOps \cup ShiftOps => Rax(i, regs) = EmitImmOp(op, a, n)
      /\ op \in RegOpsW => Rax(i, regs) = EmitRegOpW(op, a, b)
      /\ op \in ShiftOpsW \cup {"addiw"} => Rax(i, regs) = EmitImmOpW(op, a, n)
      /\ op \in MulOps \ Uncompiled => Rax(i, regs) = EmitMul(op, a, b)
      /\ op \in DivOps => Rax(i, regs) = EmitDiv(op, a, b)
      /\ op \in DivOpsW => Rax(i, regs) = EmitDivW(op, a, b)
  BY RaxOf
<1> HIDE DEF op, a, b, n
<1>6. op \in RegOps => Rax(i, regs) = Value(op, a, b)
  BY <1>1, <1>5, RegOpsAgree, ValueOf
<1>7. op \in RegOpsW => Rax(i, regs) = Value(op, a, b)
  BY <1>1, <1>5, RegOpsWAgree, ValueOf
<1>8. op \in MulOps \ Uncompiled => Rax(i, regs) = Value(op, a, b)
  BY <1>1, <1>5, MulOpsAgree, ValueOf
<1>9. op \in DivOps => Rax(i, regs) = Value(op, a, b)
  BY <1>1, <1>5, DivOpsAgree, ValueOf
<1>10. op \in DivOpsW => Rax(i, regs) = Value(op, a, b)
  BY <1>1, <1>5, DivOpsWAgree, ValueOf
<1>11. op \in ImmOps => Rax(i, regs) = Value(op, a, n)
  BY <1>1, <1>2, <1>5, ImmOpsAgree, ValueOf
<1>12. op \in ShiftOps => Rax(i, regs) = Value(op, a, n)
  BY <1>3, <1>5, ShiftOpsAgree, ValueOf
<1>13. op \in ShiftOpsW => Rax(i, regs) = Value(op, a, n)
  BY <1>1, <1>4, <1>5, ShiftOpsWAgree, ValueOf
<1>14. op = "addiw" => Rax(i, regs) = Value(op, a, n)
  <2> SUFFICES ASSUME op = "addiw" PROVE Rax(i, regs) = Value(op, a, n)
    OBVIOUS
  <2>1. op \in ShiftOpsW \cup {"addiw"}
    OBVIOUS
  <2>2. Rax(i, regs) = EmitImmOpW(op, a, n) /\ Value(op, a, n) = BaseW(op, a, n)
    BY <1>5, <2>1, ValueOf
  <2> QED  BY <1>1, <1>2, <2>2, AddiwAgrees
<1>15. op \in BinaryOps \ Uncompiled => \/ op \in RegOps \/ op \in RegOpsW \/ op \in DivOps
                                        \/ op \in DivOpsW \/ op \in MulOps \ Uncompiled
  BY DEF BinaryOps
<1>16. op \in ImmediateOps => op \in ImmOps \/ op \in ShiftOps \/ op \in ShiftOpsW \/ op = "addiw"
  BY DEF ImmediateOps
<1> QED
  BY <1>6, <1>7, <1>8, <1>9, <1>10, <1>11, <1>12, <1>13, <1>14, <1>15, <1>16, Zenon
     DEF op, a, b, n

\* Jcc after cmp is the interpreter's condition.
LEMMA ConditionsAgree ==
  ASSUME NEW op \in Branches, NEW a \in Word, NEW b \in Word
  PROVE  Jcc(op, a, b) <=> Taken(op, a, b)
<1>1. Signed(a) \in Int /\ Signed(b) \in Int /\ a \in Int /\ b \in Int
      /\ (Less(a, b) <=> Signed(a) < Signed(b))
  BY WordIs, LessIsSigned
<1>2. CASE op = "beq"
  BY <1>2 DEF Jcc, Taken
<1>3. CASE op = "bne"
  BY <1>3 DEF Jcc, Taken
<1>4. CASE op = "blt"
  BY <1>1, <1>4 DEF Jcc, Taken
<1>5. CASE op = "bge"
  BY <1>1, <1>5 DEF Jcc, Taken
<1>6. CASE op = "bltu"
  BY <1>6 DEF Jcc, Taken, Below
<1>7. CASE op = "bgeu"
  BY <1>1, <1>7 DEF Jcc, Taken, Below
<1> QED  BY <1>2, <1>3, <1>4, <1>5, <1>6, <1>7 DEF Branches

\* A target an even offset away from an even pc is even: the modulus is.
LEMMA EvenTargets ==
  ASSUME NEW pc \in Word, pc % 2 = 0, NEW c \in Word
  PROVE  Wrap(pc + Signed(c - (c % 2))) % 2 = 0
<1> DEFINE H == MinSigned
           M == Modulus
           e == c - (c % 2)
           s == Signed(e)
           t == Wrap(pc + s)
<1>1. H \in Nat /\ M \in Nat /\ M = 2 * H /\ M > 0
  BY Widths
<1>2. pc \in Int /\ c \in Int
  BY WordIs
<1>3. e \in Int /\ e % 2 = 0
  BY <1>2
<1>4. PICK k \in Int : s = e + (k * M)
  BY <1>3, Conversions
<1> HIDE DEF e
<1>5. s \in Int
  BY <1>1, <1>3, <1>4
<1> HIDE DEF s
<1>6. pc + s = (((pc + s) \div M) * M) + t /\ t \in 0..(M - 1) /\ (pc + s) \div M \in Int
  <2>1. pc + s \in Int
    BY <1>2, <1>5
  <2> QED  BY <1>1, <2>1, Euclid DEF Wrap
<1> DEFINE q == (pc + s) \div M
<1> HIDE DEF q, t, M
<1>7. t \in Int /\ q \in Int /\ pc + s = (q * M) + t
  BY <1>1, <1>6 DEF q
<1>8. t = (pc + e) + ((k - q) * M)
  <2> DEFINE x == k * M
             y == q * M
             z == (k - q) * M
  <2>1. z = x - y /\ x \in Int /\ y \in Int
    BY <1>1, <1>7
  <2>2. s = e + x /\ pc + s = y + t
    BY <1>4, <1>7
  <2> HIDE DEF x, y, z
  <2>3. t = (pc + e) + z
    BY <1>2, <1>3, <1>5, <1>7, <2>1, <2>2
  <2> QED  BY <2>3 DEF z
<1>9. (k - q) * M = 2 * ((k - q) * H)
  BY <1>1, <1>7
<1> DEFINE w == (k - q) * H
<1>10. w \in Int
  BY <1>1, <1>7
<1> HIDE DEF w
<1>11. t = (pc + e) + (2 * w)
  BY <1>8, <1>9 DEF w
<1>12. t % 2 = 0
  BY <1>2, <1>3, <1>10, <1>11
<1> QED  BY <1>12 DEF t, s, e

\* One compiled instruction does to registers and pc what the interpreter does.
LEMMA InstructionsAgree ==
  ASSUME NEW i, NEW m, NEW size, NEW c \in Word,
         i.op \in Supported, i.rs1 \in 0..2, i.rs2 \in 0..2, i.imm = Immediate(i.op, c),
         IsRegs(m.regs), m.pc \in Word, m.pc % 2 = 0
  PROVE  Compiled(i, size, m) = Execute(i, size, m)
<1> DEFINE next == Wrap(m.pc + size)
           op == i.op
           a == m.regs[i.rs1]
           b == m.regs[i.rs2]
           n == Wrap(i.imm)
           write(v) == [m EXCEPT !.pc = next, !.regs = SetReg(m.regs, i.rd, v)]
<1>2. a \in Word /\ b \in Word /\ Reg(m.regs, i.rs1) = a /\ Reg(m.regs, i.rs2) = b
  BY DEF IsRegs, Reg
<1>3. \A r, v : Store(r, i.rd, v) = SetReg(r, i.rd, v)
  BY Zenon DEF Store, SetReg
<1>4. /\ op \in BinaryOps \ Uncompiled => Rax(i, m.regs) = Value(op, a, b)
      /\ op \in ImmediateOps => Rax(i, m.regs) = Value(op, a, n)
  BY ResultsAgree
<1>5. i.imm \in Int
  BY Immediates
<1>6. op \in Branches \cup {"jal"} => i.imm = Signed(c - (c % 2))
  BY Immediates
<1>7. op \in Branches \cup {"jal"} => Wrap(m.pc + i.imm) % 2 = 0
  BY <1>6, EvenTargets
<1>20. /\ i.op \in BinaryOps => Execute(i, size, m)
            = write(Value(i.op, Reg(m.regs, i.rs1), Reg(m.regs, i.rs2)))
       /\ i.op \in ImmediateOps => Execute(i, size, m)
            = write(Value(i.op, Reg(m.regs, i.rs1), Wrap(i.imm)))
       /\ i.op \in {"lui", "auipc"} => Execute(i, size, m) = write(Upper(i, m))
       /\ i.op \in Branches => Execute(i, size, m) = Branch(i, m, next)
       /\ i.op \in {"jal", "jalr"} => Execute(i, size, m) = Jump(i, m, next)
       /\ i.op = "fence" => Execute(i, size, m) = [m EXCEPT !.pc = next]
  <2> DEFINE U == {"lui", "auipc"}
             J == {"jal", "jalr"}
             r1 == write(Value(op, Reg(m.regs, i.rs1), Reg(m.regs, i.rs2)))
             r2 == write(Value(op, Reg(m.regs, i.rs1), Wrap(i.imm)))
             r3 == write(Upper(i, m))
             r4 == Branch(i, m, next)
             r5 == Jump(i, m, next)
             r6 == [m EXCEPT !.pc = next]
             e == Execute(i, size, m)
  <2>1. e = CASE op \in BinaryOps -> r1 [] op \in ImmediateOps -> r2 [] op \in U -> r3
              [] op \in Branches -> r4 [] op \in J -> r5 [] op = "fence" -> r6
    BY Zenon DEF Execute
  <2>2. /\ op \in BinaryOps =>
              op \notin ImmediateOps \cup U \cup Branches \cup J /\ op # "fence"
        /\ op \in ImmediateOps =>
              op \notin BinaryOps \cup U \cup Branches \cup J /\ op # "fence"
        /\ op \in U => op \notin BinaryOps \cup ImmediateOps \cup Branches \cup J /\ op # "fence"
        /\ op \in Branches => op \notin BinaryOps \cup ImmediateOps \cup U \cup J /\ op # "fence"
        /\ op \in J => op \notin BinaryOps \cup ImmediateOps \cup U \cup Branches /\ op # "fence"
        /\ op = "fence" => op \notin BinaryOps \cup ImmediateOps \cup U \cup Branches \cup J
    BY DEF BinaryOps, ImmediateOps, RegOps, RegOpsW, MulOps, DivOps, DivOpsW, ImmOps,
           ShiftOps, ShiftOpsW, Branches
  <2> HIDE DEF e, op, U, J, r1, r2, r3, r4, r5, r6
  <2>3. op \in BinaryOps => e = r1
    BY <2>1, <2>2, Zenon
  <2>4. op \in ImmediateOps => e = r2
    BY <2>1, <2>2, Zenon
  <2>5. op \in U => e = r3
    BY <2>1, <2>2, Zenon
  <2>6. op \in Branches => e = r4
    BY <2>1, <2>2, Zenon
  <2>7. op \in J => e = r5
    BY <2>1, <2>2, Zenon
  <2>8. op = "fence" => e = r6
    BY <2>1, <2>2, Zenon
  <2> QED  BY <2>3, <2>4, <2>5, <2>6, <2>7, <2>8, Zenon DEF e, op, U, J, r1, r2, r3, r4, r5, r6
<1>21. /\ i.op \in (BinaryOps \ Uncompiled) \cup ImmediateOps => Compiled(i, size, m)
            = [m EXCEPT !.pc = next, !.regs = Store(m.regs, i.rd, Rax(i, m.regs))]
       /\ i.op \in {"lui", "auipc"} => Compiled(i, size, m)
            = [m EXCEPT !.pc = next, !.regs = EmitUpper(i, m.regs, m.pc)]
       /\ i.op \in Branches => Compiled(i, size, m)
            = [m EXCEPT !.pc = EmitBranch(i, m.regs, m.pc, next)]
       /\ i.op = "jal" => Compiled(i, size, m) = EmitJal(i, m, next)
       /\ i.op = "jalr" => Compiled(i, size, m) = EmitJalr(i, m, next)
       /\ i.op = "fence" => Compiled(i, size, m) = [m EXCEPT !.pc = next]
  <2> DEFINE U == {"lui", "auipc"}
             R == (BinaryOps \ Uncompiled) \cup ImmediateOps
             r1 == [m EXCEPT !.pc = next, !.regs = EmitUpper(i, m.regs, m.pc)]
             r2 == [m EXCEPT !.pc = EmitBranch(i, m.regs, m.pc, next)]
             r3 == EmitJal(i, m, next)
             r4 == EmitJalr(i, m, next)
             r5 == [m EXCEPT !.pc = next]
             r6 == [m EXCEPT !.pc = next, !.regs = Store(m.regs, i.rd, Rax(i, m.regs))]
             e == Compiled(i, size, m)
  <2>1. e = CASE op \in U -> r1 [] op \in Branches -> r2 [] op = "jal" -> r3
              [] op = "jalr" -> r4 [] op = "fence" -> r5 [] OTHER -> r6
    BY Groups, Zenon DEF Compiled
  <2>2. /\ op \in U => op \notin Branches /\ op \notin {"jal", "jalr", "fence"}
        /\ op \in Branches => op \notin U /\ op \notin {"jal", "jalr", "fence"}
        /\ op \in R => op \notin U /\ op \notin Branches /\ op \notin {"jal", "jalr", "fence"}
        /\ op = "jal" => op \notin U /\ op \notin Branches /\ op # "jalr" /\ op # "fence"
        /\ op = "jalr" => op \notin U /\ op \notin Branches /\ op # "jal" /\ op # "fence"
        /\ op = "fence" => op \notin U /\ op \notin Branches /\ op # "jal" /\ op # "jalr"
    BY DEF BinaryOps, ImmediateOps, RegOps, RegOpsW, MulOps, DivOps, DivOpsW, ImmOps,
           ShiftOps, ShiftOpsW, Branches
  <2> HIDE DEF e, op, U, R, r1, r2, r3, r4, r5, r6
  <2>3. op \in U => e = r1
    BY <2>1, <2>2, Zenon
  <2>4. op \in Branches => e = r2
    BY <2>1, <2>2, Zenon
  <2>5. op = "jal" => e = r3
    BY <2>1, <2>2, Zenon
  <2>6. op = "jalr" => e = r4
    BY <2>1, <2>2, Zenon
  <2>7. op = "fence" => e = r5
    BY <2>1, <2>2, Zenon
  <2>8. op \in R => e = r6
    BY <2>1, <2>2, Zenon
  <2> QED  BY <2>3, <2>4, <2>5, <2>6, <2>7, <2>8, Zenon DEF e, op, U, R, r1, r2, r3, r4, r5, r6
<1> HIDE DEF write
<1>9. CASE op \in BinaryOps \ Uncompiled
  <2>1. Execute(i, size, m) = [m EXCEPT !.pc = next,
                 !.regs = SetReg(m.regs, i.rd, Value(op, Reg(m.regs, i.rs1), Reg(m.regs, i.rs2)))]
    <3>1. op \in BinaryOps
      BY <1>9
    <3> QED  BY <3>1, <1>20, Zenon DEF write
  <2>2. Compiled(i, size, m)
          = [m EXCEPT !.pc = next, !.regs = Store(m.regs, i.rd, Rax(i, m.regs))]
    <3>1. op \in (BinaryOps \ Uncompiled) \cup ImmediateOps
      BY <1>9
    <3> QED  BY <3>1, <1>21, Zenon
  <2>3. Store(m.regs, i.rd, Rax(i, m.regs))
          = SetReg(m.regs, i.rd, Value(op, Reg(m.regs, i.rs1), Reg(m.regs, i.rs2)))
    BY <1>2, <1>3, <1>4, <1>9, Zenon
  <2> QED  BY <2>1, <2>2, <2>3, Zenon
<1>10. CASE op \in ImmediateOps
  <2>1. Execute(i, size, m) = [m EXCEPT !.pc = next,
                 !.regs = SetReg(m.regs, i.rd, Value(op, Reg(m.regs, i.rs1), n))]
    BY <1>10, <1>20, Zenon DEF write
  <2>2. Compiled(i, size, m)
          = [m EXCEPT !.pc = next, !.regs = Store(m.regs, i.rd, Rax(i, m.regs))]
    <3>1. op \in (BinaryOps \ Uncompiled) \cup ImmediateOps
      BY <1>10
    <3> QED  BY <3>1, <1>21, Zenon
  <2>3. Store(m.regs, i.rd, Rax(i, m.regs))
          = SetReg(m.regs, i.rd, Value(op, Reg(m.regs, i.rs1), n))
    BY <1>2, <1>3, <1>4, <1>10, Zenon
  <2> QED  BY <2>1, <2>2, <2>3, Zenon
<1>11. CASE op \in {"lui", "auipc"}
  <2>1. Execute(i, size, m)
          = [m EXCEPT !.pc = next, !.regs = SetReg(m.regs, i.rd, Upper(i, m))]
    BY <1>11, <1>20, Zenon DEF write
  <2>2. Compiled(i, size, m) = [m EXCEPT !.pc = next, !.regs = EmitUpper(i, m.regs, m.pc)]
    BY <1>11, <1>21, Zenon
  <2>3. EmitUpper(i, m.regs, m.pc) = SetReg(m.regs, i.rd, Upper(i, m))
    BY <1>3, Zenon DEF EmitUpper, Upper
  <2> QED  BY <2>1, <2>2, <2>3, Zenon
<1>12. CASE op \in Branches
  <2> DEFINE t == Wrap(m.pc + i.imm)
  <2>1. Execute(i, size, m) = Branch(i, m, next)
    BY <1>12, <1>20, Zenon
  <2>2. Compiled(i, size, m) = [m EXCEPT !.pc = EmitBranch(i, m.regs, m.pc, next)]
    BY <1>12, <1>21, Zenon
  <2>3. Jcc(op, a, b) <=> Taken(op, a, b)
    BY <1>2, <1>12, ConditionsAgree
  <2>4. JumpTo(m, t, m.regs) = [m EXCEPT !.pc = t]
    <3>1. t % 2 = 0
      BY <1>7, <1>12
    <3>2. JumpTo(m, t, m.regs) = [m EXCEPT !.pc = t, !.regs = m.regs]
      BY <3>1, Zenon DEF JumpTo
    <3> HIDE DEF t
    <3> QED  BY <3>2, Zenon
  <2>5. EmitBranch(i, m.regs, m.pc, next) = IF Jcc(op, a, b) THEN t ELSE next
    BY Zenon DEF EmitBranch
  <2>6. Branch(i, m, next) = IF Taken(op, Reg(m.regs, i.rs1), Reg(m.regs, i.rs2))
                             THEN JumpTo(m, t, m.regs) ELSE [m EXCEPT !.pc = next]
    BY Zenon DEF Branch
  <2> HIDE DEF t, next, a, b, op
  <2>7. CASE Taken(op, a, b)
    BY <1>2, <2>1, <2>2, <2>3, <2>4, <2>5, <2>6, <2>7, Zenon
  <2>8. CASE ~Taken(op, a, b)
    BY <1>2, <2>1, <2>2, <2>3, <2>5, <2>6, <2>8, Zenon
  <2> QED  BY <2>7, <2>8
<1>13. CASE op = "jal"
  <2> DEFINE t == Wrap(m.pc + i.imm)
             r == SetReg(m.regs, i.rd, next)
  <2>1. Execute(i, size, m) = Jump(i, m, next)
    BY <1>13, <1>20, Zenon
  <2>2. Compiled(i, size, m) = EmitJal(i, m, next)
    BY <1>13, <1>21, Zenon
  <2>3. EmitJal(i, m, next) = [m EXCEPT !.regs = Store(m.regs, i.rd, next), !.pc = t]
    BY Zenon DEF EmitJal
  <2>4. Jump(i, m, next) = JumpTo(m, t, r)
    BY <1>13, Zenon DEF Jump
  <2>5. t % 2 = 0
    BY <1>7, <1>13
  <2>6. Store(m.regs, i.rd, next) = r
    BY <1>3, Zenon
  <2>7. JumpTo(m, t, r) = [m EXCEPT !.pc = t, !.regs = r]
    BY <2>5, Zenon DEF JumpTo
  <2> HIDE DEF t, r, next
  <2>8. [m EXCEPT !.regs = r, !.pc = t] = [m EXCEPT !.pc = t, !.regs = r]
    BY Zenon
  <2> QED  BY <2>1, <2>2, <2>3, <2>4, <2>6, <2>7, <2>8, Zenon
<1>14. CASE op = "jalr"
  <2> DEFINE s == Wrap(Reg(m.regs, i.rs1) + i.imm)
             t == s - (s % 2)
             r == SetReg(m.regs, i.rd, next)
  <2>1. Execute(i, size, m) = Jump(i, m, next)
    BY <1>14, <1>20, Zenon
  <2>2. Compiled(i, size, m) = EmitJalr(i, m, next)
    BY <1>14, <1>21, Zenon
  <2>3. EmitJalr(i, m, next)
          = [m EXCEPT !.regs = Store(m.regs, i.rd, next),
                      !.pc = Wrap(a + i.imm) - (Wrap(a + i.imm) % 2)]
    BY Zenon DEF EmitJalr
  <2>4. Jump(i, m, next) = JumpTo(m, t, r)
    <3>1. op # "jal"
      BY <1>14
    <3> QED  BY <3>1, Zenon DEF Jump
  <2>5. t % 2 = 0
    <3>1. a + i.imm \in Int /\ s = Wrap(a + i.imm)
      <4>1. a \in Int
        BY <1>2, WordIs
      <4> HIDE DEF a
      <4> QED  BY <1>2, <1>5, <4>1
    <3>2. s \in Int
      BY <3>1, Conversions, WordIs
    <3> HIDE DEF s
    <3> QED  BY <3>2
  <2>6. Store(m.regs, i.rd, next) = r
    BY <1>3, Zenon
  <2>7. Wrap(a + i.imm) - (Wrap(a + i.imm) % 2) = t
    BY <1>2, Zenon
  <2>8. JumpTo(m, t, r) = [m EXCEPT !.pc = t, !.regs = r]
    BY <2>5, Zenon DEF JumpTo
  <2> HIDE DEF t, r, next
  <2>9. [m EXCEPT !.regs = r, !.pc = t] = [m EXCEPT !.pc = t, !.regs = r]
    BY Zenon
  <2> QED  BY <2>1, <2>2, <2>3, <2>4, <2>6, <2>7, <2>8, <2>9, Zenon
<1>15. CASE op = "fence"
  <2>1. Execute(i, size, m) = [m EXCEPT !.pc = next]
    BY <1>15, <1>20, Zenon
  <2>2. Compiled(i, size, m) = [m EXCEPT !.pc = next]
    BY <1>15, <1>21, Zenon
  <2> QED  BY <2>1, <2>2, Zenon
<1>16. \/ op \in BinaryOps \ Uncompiled \/ op \in ImmediateOps \/ op \in {"lui", "auipc"}
       \/ op \in Branches \/ op = "jal" \/ op = "jalr" \/ op = "fence"
  BY DEF Supported
<1> QED  BY <1>9, <1>10, <1>11, <1>12, <1>13, <1>14, <1>15, <1>16, Zenon

\* A load that did not fault leaves in rd what the interpreter does: the compiled code
\* reads the raw value back from the register's slot to extend it.
LEMMA LoadedAlike ==
  ASSUME NEW regs, IsRegs(regs), NEW rd \in 0..2, NEW op \in Loads, NEW v,
         NEW i, i.op = op, i.rd = rd
  PROVE  EmitLoad(i, regs, v) = SetReg(regs, rd, LoadValue(op, v))
<1> DEFINE raw == Store(regs, rd, v)
<1>1. CASE rd = 0
  <2>1. \A w : Store(regs, rd, w) = regs /\ SetReg(regs, rd, w) = regs
    BY <1>1 DEF Store, SetReg
  <2>2. EmitLoad(i, regs, v) = regs
    <3>1. CASE op = "lb"
      BY <2>1, <3>1 DEF EmitLoad
    <3>2. CASE op = "lh"
      BY <2>1, <3>2 DEF EmitLoad
    <3>3. CASE op = "lw"
      BY <2>1, <3>3 DEF EmitLoad
    <3>4. CASE op \in {"lbu", "lhu", "lwu", "ld"}
      <4>1. i.op # "lb" /\ i.op # "lh" /\ i.op # "lw" /\ i.op \in {"lbu", "lhu", "lwu", "ld"}
        BY <3>4
      <4> QED  BY <2>1, <4>1, Zenon DEF EmitLoad
    <3> QED  BY <3>1, <3>2, <3>3, <3>4 DEF Loads
  <2> QED  BY <2>1, <2>2
<1>2. CASE rd # 0
  <2>1. /\ raw = [regs EXCEPT ![rd] = v] /\ raw[rd] = v
        /\ \A w : /\ Store(raw, rd, w) = [regs EXCEPT ![rd] = w]
                  /\ SetReg(regs, rd, w) = [regs EXCEPT ![rd] = w]
    BY <1>2 DEF Store, SetReg, IsRegs
  <2> HIDE DEF raw
  <2>2. CASE op = "lb"
    <3>1. EmitLoad(i, regs, v) = Store(raw, rd, Wrap(SignedBits(XLEN \div 8, raw[rd])))
      BY <2>2 DEF EmitLoad, raw
    <3>2. LoadValue(op, v) = Wrap(SignedBits(XLEN \div 8, raw[rd]))
      BY <2>1, <2>2 DEF LoadValue, LoadBits
    <3> QED  BY <2>1, <3>1, <3>2, Zenon
  <2>3. CASE op = "lh"
    <3>1. EmitLoad(i, regs, v) = Store(raw, rd, Wrap(SignedBits(XLEN \div 4, raw[rd])))
      BY <2>3 DEF EmitLoad, raw
    <3>2. LoadValue(op, v) = Wrap(SignedBits(XLEN \div 4, raw[rd]))
      BY <2>1, <2>3 DEF LoadValue, LoadBits
    <3> QED  BY <2>1, <3>1, <3>2, Zenon
  <2>4. CASE op = "lw"
    <3>1. EmitLoad(i, regs, v) = Store(raw, rd, Wrap(SignedBits(WLEN, raw[rd])))
      BY <2>4 DEF EmitLoad, raw
    <3>2. LoadValue(op, v) = Wrap(SignedBits(WLEN, raw[rd]))
      BY <2>1, <2>4 DEF LoadValue, LoadBits
    <3> QED  BY <2>1, <3>1, <3>2, Zenon
  <2>5. CASE op \in {"lbu", "lhu", "lwu", "ld"}
    <3>1. i.op # "lb" /\ i.op # "lh" /\ i.op # "lw" /\ i.op \in {"lbu", "lhu", "lwu", "ld"}
          /\ op \notin {"lb", "lh", "lw"}
      BY <2>5
    <3>2. EmitLoad(i, regs, v) = raw
      BY <3>1, Zenon DEF EmitLoad, raw
    <3>3. LoadValue(op, v) = v
      BY <3>1 DEF LoadValue
    <3> QED  BY <2>1, <3>2, <3>3
  <2> QED  BY <2>2, <2>3, <2>4, <2>5 DEF Loads
<1> QED  BY <1>1, <1>2

--------------------------------------------------------------------------------
(* What the decoder reads in a packed word.                                *)

\* The quotient and the rest of a number that is a multiple and a rest.
LEMMA Parts ==
  ASSUME NEW N \in Nat, N > 0, NEW q \in Int, NEW r \in Int, 0 <= r, r < N,
         NEW x, x = (q * N) + r
  PROVE  x \div N = q /\ x % N = r
<1>1. r \in 0..(N - 1)
  BY SMT
<1> QED  BY <1>1, EuclidUnique

\* Word w has these fields.
HasFields(w, f7, rs2, rs1, f3, rd, opcode) ==
    /\ w \in Int /\ w % 128 = opcode
    /\ Rd(w) = rd /\ Rs1(w) = rs1 /\ Rs2(w) = rs2
    /\ Funct3(w) = f3 /\ Funct7(w) = f7
    /\ Bit31(w) = f7 \div 64 /\ Bits(w, 25, 6) = f7 % 64
    /\ i_imm(w) = SignExtend(12, f7 * 32 + rs2)

\* The fields of a word are what was packed.
LEMMA PackedFields ==
  ASSUME NEW f7 \in 0..127, NEW rs2 \in 0..31, NEW rs1 \in 0..31, NEW f3 \in 0..7,
         NEW rd \in 0..31, NEW opcode \in 0..127
  PROVE  HasFields(Pack(f7, rs2, rs1, f3, rd, opcode), f7, rs2, rs1, f3, rd, opcode)
<1> DEFINE s == IF f7 >= 64 THEN f7 - 128 ELSE f7
           h == f7 \div 64
           l == f7 % 64
<1> SUFFICES ASSUME NEW w, w = Pack(f7, rs2, rs1, f3, rd, opcode)
             PROVE  HasFields(w, f7, rs2, rs1, f3, rd, opcode)
  OBVIOUS
<1>1. w = s * 33554432 + rs2 * 1048576 + rs1 * 32768 + f3 * 4096 + rd * 128 + opcode
  BY SMT DEF Pack, SignExtend
<1>2. s \in -64..63 /\ h \in 0..1 /\ l \in 0..63 /\ f7 = 64 * h + l /\ s = l - 64 * h
      /\ s = ((-h) * 64) + l /\ (s < 0 <=> h = 1)
  BY SMT
<1> HIDE DEF s, h, l
<1>3. /\ w \in Int /\ w % 128 = opcode
      /\ w \div 128 = (s * 262144) + (rs2 * 8192) + (rs1 * 256) + (f3 * 32) + rd
      /\ w \div 4096 = (s * 8192) + (rs2 * 256) + (rs1 * 8) + f3
      /\ w \div 32768 = (s * 1024) + (rs2 * 32) + rs1
      /\ w \div 1048576 = (s * 32) + rs2
      /\ w \div 33554432 = s
      /\ (w < 0 <=> s < 0)
  <2> DEFINE q7 == (s * 262144) + (rs2 * 8192) + (rs1 * 256) + (f3 * 32) + rd
             q12 == (s * 8192) + (rs2 * 256) + (rs1 * 8) + f3
             q15 == (s * 1024) + (rs2 * 32) + rs1
             q20 == (s * 32) + rs2
             r12 == (rd * 128) + opcode
             r15 == (f3 * 4096) + r12
             r20 == (rs1 * 32768) + r15
             r25 == (rs2 * 1048576) + r20
  <2>1. /\ q7 \in Int /\ w = (q7 * 128) + opcode
        /\ q12 \in Int /\ w = (q12 * 4096) + r12 /\ 0 <= r12 /\ r12 < 4096 /\ r12 \in Int
        /\ q15 \in Int /\ w = (q15 * 32768) + r15 /\ 0 <= r15 /\ r15 < 32768 /\ r15 \in Int
        /\ q20 \in Int /\ w = (q20 * 1048576) + r20 /\ 0 <= r20 /\ r20 < 1048576 /\ r20 \in Int
        /\ s \in Int /\ w = (s * 33554432) + r25 /\ 0 <= r25 /\ r25 < 33554432 /\ r25 \in Int
        /\ 0 <= opcode /\ opcode < 128 /\ opcode \in Int
    BY <1>1, <1>2, SMT
  <2>2. w \in Int /\ (w < 0 <=> s < 0)
    <3> HIDE DEF r25
    <3> QED  BY <1>2, <2>1, SMT
  <2> HIDE DEF q7, q12, q15, q20, r12, r15, r20, r25
  <2>3. w \div 128 = q7 /\ w % 128 = opcode
    BY SMT, <2>1, Parts
  <2>4. w \div 4096 = q12
    BY SMT, <2>1, Parts
  <2>5. w \div 32768 = q15
    BY SMT, <2>1, Parts
  <2>6. w \div 1048576 = q20
    BY SMT, <2>1, Parts
  <2>7. w \div 33554432 = s
    BY SMT, <2>1, Parts
  <2> QED  BY SMT, <2>2, <2>3, <2>4, <2>5, <2>6, <2>7 DEF q7, q12, q15, q20
<1>4. (w \div 128) % 32 = rd
  <2> DEFINE q == (s * 8192) + (rs2 * 256) + (rs1 * 8) + f3
  <2>1. w \div 128 = (q * 32) + rd /\ q \in Int /\ rd \in Int /\ 0 <= rd /\ rd < 32
    BY <1>2, <1>3, SMT
  <2> QED  BY ONLY <2>1, Parts, SMT
<1>5. (w \div 4096) % 8 = f3
  <2> DEFINE q == (s * 1024) + (rs2 * 32) + rs1
  <2>1. w \div 4096 = (q * 8) + f3 /\ q \in Int /\ f3 \in Int /\ 0 <= f3 /\ f3 < 8
    BY <1>2, <1>3, SMT
  <2> QED  BY ONLY <2>1, Parts, SMT
<1>6. (w \div 32768) % 32 = rs1
  <2> DEFINE q == (s * 32) + rs2
  <2>1. w \div 32768 = (q * 32) + rs1 /\ q \in Int /\ rs1 \in Int /\ 0 <= rs1 /\ rs1 < 32
    BY <1>2, <1>3, SMT
  <2> QED  BY ONLY <2>1, Parts, SMT
<1>7. (w \div 1048576) % 32 = rs2
  <2>1. s \in Int /\ rs2 \in Int /\ 0 <= rs2 /\ rs2 < 32
    BY <1>2, SMT
  <2> QED  BY ONLY <1>3, <2>1, Parts, SMT
<1>8. (w \div 33554432) % 64 = l
  <2>1. -h \in Int /\ l \in Int /\ 0 <= l /\ l < 64
    BY <1>2, SMT
  <2> QED  BY ONLY <1>2, <1>3, <2>1, Parts, SMT
<1>9. /\ Rd(w) = rd /\ Rs1(w) = rs1 /\ Rs2(w) = rs2 /\ Funct3(w) = f3
      /\ Bits(w, 25, 6) = l /\ Bit31(w) = h /\ Funct7(w) = f7
  <2>1. Rd(w) = rd /\ Rs1(w) = rs1 /\ Rs2(w) = rs2 /\ Funct3(w) = f3 /\ Bits(w, 25, 6) = l
    BY <1>4, <1>5, <1>6, <1>7, <1>8, SMT DEF Rd, Rs1, Rs2, Funct3, Bits
  <2>2. Bit31(w) = h
    BY <1>2, <1>3, SMT DEF Bit31
  <2> QED  BY <1>2, <2>1, <2>2, SMT DEF Funct7
<1>10. SignExtend(12, f7 * 32 + rs2) = (s * 32) + rs2
  <2> DEFINE v == f7 * 32 + rs2
  <2>1. v \in 0..4095 /\ v >= 2048 <=> h = 1
    BY <1>2, SMT
  <2>2. v % 4096 = v
    BY ONLY <2>1, SMT
  <2>3. SignExtend(12, v) = IF v % 4096 >= 2048 THEN (v % 4096) - 4096 ELSE v % 4096
    BY SMT DEF SignExtend
  <2> QED  BY <1>2, <2>1, <2>2, <2>3, SMT
<1>11. i_imm(w) = (s * 32) + rs2
  BY <1>3, SMT DEF i_imm
<1>12. /\ w \in Int /\ w % 128 = opcode
       /\ Rd(w) = rd /\ Rs1(w) = rs1 /\ Rs2(w) = rs2 /\ Funct3(w) = f3 /\ Funct7(w) = f7
       /\ Bit31(w) = f7 \div 64 /\ Bits(w, 25, 6) = f7 % 64
       /\ i_imm(w) = SignExtend(12, f7 * 32 + rs2)
  BY <1>3, <1>9, <1>10, <1>11 DEF h, l
<1> QED  BY ONLY <1>12 DEF HasFields

\* The immediates of the formats, and the two fields of one of twelve bits.
Signed12 == -2048..2047
Any12    == -2048..4095
Csr12    == 0..4095
Signed20 == -(2^19)..(2^19 - 1)
Even12   == {2 * h : h \in Signed12}
Even20   == {2 * h : h \in Signed20}
Upper20  == {4096 * h : h \in Int}

ImmHigh(imm) == (imm % 4096) \div 32
ImmLow(imm) == imm % 32

\* The I format: the immediate is the upper twelve bits ...
LEMMA ImmediateI ==
  ASSUME NEW imm \in Any12
  PROVE  /\ ImmHigh(imm) \in 0..127 /\ ImmLow(imm) \in 0..31
         /\ SignExtend(12, ImmHigh(imm) * 32 + ImmLow(imm)) = SignExtend(12, imm)
<1> DEFINE m == imm % 4096
           h == m \div 32
           l == m % 32
           k == imm \div 4096
<1>1. imm = (k * 4096) + m /\ m \in 0..4095 /\ k \in Int
  BY SMT DEF Any12
<1>2. m = (h * 32) + l /\ l \in 0..31 /\ h \in Int
  <2> HIDE DEF m
  <2> QED  BY <1>1, SMT
<1>3. ImmHigh(imm) = h
  BY DEF ImmHigh
<1>4. SignExtend(12, imm) = IF m >= 2048 THEN m - 4096 ELSE m
  BY SMT DEF SignExtend
<1> HIDE DEF m, h, l, k
<1>5. m \in Int /\ 0 <= m /\ m < 4096 /\ l \in Int /\ 0 <= l /\ l < 32
  BY <1>1, <1>2, SMT
<1>6. h \in 0..127
  <2>1. 0 <= h /\ h <= 127
    BY ONLY <1>2, <1>5, SMT
  <2> QED  BY <1>2, <2>1, SMT
<1>7. ImmLow(imm) = l
  <2> DEFINE q == (k * 128) + h
  <2>1. imm = (q * 32) + l /\ q \in Int /\ l \in Int /\ 0 <= l /\ l < 32
    BY <1>1, <1>2, SMT
  <2> QED  BY ONLY <2>1, Parts, SMT DEF ImmLow
<1>8. m % 4096 = m
  BY ONLY <1>5, SMT
<1>9. SignExtend(12, m) = IF m >= 2048 THEN m - 4096 ELSE m
  BY <1>8, SMT DEF SignExtend
<1>10. h * 32 + l = m
  BY <1>2, SMT
<1>11. SignExtend(12, ImmHigh(imm) * 32 + ImmLow(imm)) = SignExtend(12, m)
  BY ONLY <1>3, <1>7, <1>10
<1>12. SignExtend(12, m) = SignExtend(12, imm)
  BY ONLY <1>4, <1>9
<1> QED  BY ONLY <1>2, <1>3, <1>6, <1>7, <1>11, <1>12

\* Twelve bits, read with their sign, are the number.
LEMMA Immediate12 ==
  ASSUME NEW imm \in Signed12
  PROVE  imm \in Any12 /\ SignExtend(12, imm) = imm
<1>1. imm \in Int /\ -2048 <= imm /\ imm <= 2047
  BY SMT DEF Signed12
<1>2. imm \in Any12
  BY ONLY <1>1, SMT DEF Any12
<1>3. imm % 4096 = IF imm >= 0 THEN imm ELSE imm + 4096
  <2>1. CASE imm >= 0
    BY ONLY <1>1, <2>1, SMT
  <2>2. CASE ~(imm >= 0)
    <3>1. /\ imm = ((-1) * 4096) + (imm + 4096)
          /\ imm + 4096 \in Int /\ 0 <= imm + 4096 /\ imm + 4096 < 4096
      BY ONLY <1>1, <2>2, SMT
    <3>2. imm % 4096 = imm + 4096
      BY ONLY <1>1, <3>1, SMT
    <3> QED  BY ONLY <2>2, <3>2, SMT
  <2> QED  BY <2>1, <2>2
<1>4. SignExtend(12, imm) = imm
  BY ONLY <1>1, <1>3, SMT DEF SignExtend
<1> QED  BY <1>2, <1>4

\* ... S, with its lower five bits where rd would be ...
LEMMA ImmediateS ==
  ASSUME NEW imm \in Signed12, NEW w,
         Funct7(w) = ImmHigh(imm), Rd(w) = ImmLow(imm)
  PROVE  s_imm(w) = imm
<1>1. s_imm(w) = SignExtend(12, ImmHigh(imm) * 32 + ImmLow(imm))
  BY Zenon DEF s_imm
<1>2. imm \in Any12 /\ SignExtend(12, imm) = imm
  BY Immediate12, Zenon
<1>3. SignExtend(12, ImmHigh(imm) * 32 + ImmLow(imm)) = SignExtend(12, imm)
  BY <1>2, ImmediateI, Zenon
<1> QED  BY ONLY <1>1, <1>2, <1>3

\* ... B, twelve bits of an even offset ...
LEMMA ImmediateB ==
  ASSUME NEW k \in Signed12, NEW imm, imm = 2 * k, NEW w \in Int,
         Bit31(w) = Bits(imm, 12, 1), Bits(w, 25, 6) = Bits(imm, 5, 6),
         Rd(w) = 2 * Bits(imm, 1, 4) + Bits(imm, 11, 1)
  PROVE  b_imm(w) = imm
<1> DEFINE c1 == k % 16      q5 == k \div 16
           c5 == q5 % 64     q11 == q5 \div 64
           c11 == q11 % 2    q12 == q11 \div 2
           c12 == q12 % 2    q13 == q12 \div 2
<1>1. k \in Int /\ -2048 <= k /\ k <= 2047
  BY SMT DEF Signed12
<1>2. k = 16 * q5 + c1 /\ q5 \in Int /\ c1 \in Int /\ 0 <= c1 /\ c1 < 16
  BY <1>1, SMT
<1> HIDE DEF c1, q5
<1>3. q5 = 64 * q11 + c5 /\ q11 \in Int /\ c5 \in Int /\ 0 <= c5 /\ c5 < 64
  BY <1>2, SMT
<1> HIDE DEF c5, q11
<1>4. q11 = 2 * q12 + c11 /\ q12 \in Int /\ c11 \in Int /\ 0 <= c11 /\ c11 < 2
  BY <1>3, SMT
<1> HIDE DEF c11, q12
<1>5. q12 = 2 * q13 + c12 /\ q13 \in Int /\ c12 \in Int /\ 0 <= c12 /\ c12 < 2
  BY <1>4, SMT
<1> HIDE DEF c12, q13
<1>6. q12 = -c12
  <2>1. -1 <= q12 /\ q12 <= 0
    BY ONLY <1>1, <1>2, <1>3, <1>4, SMT
  <2> QED  BY ONLY <1>5, <2>1, SMT
<1>7. /\ Bits(imm, 1, 4) = c1 /\ Bits(imm, 5, 6) = c5
      /\ Bits(imm, 11, 1) = c11 /\ Bits(imm, 12, 1) = c12
  <2> DEFINE r5 == 2 * c1
             r11 == 32 * c5 + r5
             r12 == 2048 * c11 + r11
  <2>1. imm = 2 * k
    OBVIOUS
  <2>2. /\ imm = (k * 2) + 0
        /\ imm = (q5 * 32) + r5 /\ r5 \in Int /\ 0 <= r5 /\ r5 < 32
        /\ imm = (q11 * 2048) + r11 /\ r11 \in Int /\ 0 <= r11 /\ r11 < 2048
        /\ imm = (q12 * 4096) + r12 /\ r12 \in Int /\ 0 <= r12 /\ r12 < 4096
    BY ONLY <1>1, <1>2, <1>3, <1>4, <2>1, SMT
  <2> HIDE DEF r5, r11, r12
  <2>3. imm \div 2 = k /\ imm \div 32 = q5 /\ imm \div 2048 = q11 /\ imm \div 4096 = q12
    BY ONLY <1>1, <1>2, <1>3, <1>4, <2>2, Parts, SMT
  <2> QED  BY <2>3, SMT DEF Bits, c1, c5, c11, c12
<1> DEFINE R == w \div 128    l == w % 128
           Q == R \div 32     r == R % 32
<1>8. w = 128 * R + l /\ R \in Int /\ l \in Int /\ 0 <= l /\ l < 128 /\ Rd(w) = r
      /\ Bits(w, 7, 1) = R % 2 /\ Bits(w, 8, 4) = (w \div 256) % 16
  BY SMT DEF Rd, Bits
<1> HIDE DEF R, l
<1>9. R = 32 * Q + r /\ Q \in Int
  BY <1>8, SMT
<1> HIDE DEF Q, r
<1>10. r = 2 * c1 + c11
  BY <1>7, <1>8
<1> DEFINE s == 16 * Q + c1
           m == 128 * c11 + l
<1>11. /\ R = (s * 2) + c11 /\ s \in Int /\ c11 \in Int /\ 0 <= c11 /\ c11 < 2
       /\ w = (s * 256) + m /\ m \in Int /\ 0 <= m /\ m < 256
       /\ s = (Q * 16) + c1 /\ Q \in Int
  BY ONLY <1>2, <1>4, <1>8, <1>9, <1>10, SMT
<1> HIDE DEF s, m
<1>12. R % 2 = c11 /\ w \div 256 = s /\ s % 16 = c1
  BY ONLY <1>2, <1>11, Parts, SMT
<1> DEFINE v == c12 * 4096 + c11 * 2048 + c5 * 32 + c1 * 2
<1>13. b_imm(w) = SignExtend(13, v)
  <2>1. Bits(w, 7, 1) = c11 /\ Bits(w, 8, 4) = c1 /\ Bits(w, 25, 6) = c5 /\ Bit31(w) = c12
    BY <1>7, <1>8, <1>12
  <2>2. 2^12 = 4096 /\ 2^11 = 2048 /\ 2^5 = 32
    BY SMT
  <2> QED  BY <2>1, <2>2 DEF b_imm
<1>14. v \in Int /\ 0 <= v /\ v < 8192 /\ v = imm + 8192 * c12 /\ (v >= 4096 <=> c12 = 1)
  <2>1. imm = 2 * k
    OBVIOUS
  <2> QED  BY ONLY <1>1, <1>2, <1>3, <1>4, <1>5, <1>6, <2>1, SMT
<1> HIDE DEF v
<1>15. SignExtend(13, v) = IF v >= 4096 THEN v - 8192 ELSE v
  <2>1. v % 8192 = v
    BY ONLY <1>14, SMT
  <2> QED  BY ONLY <2>1, SMT DEF SignExtend
<1>16. (IF v >= 4096 THEN v - 8192 ELSE v) = imm
  BY ONLY <1>5, <1>14, imm = 2 * k, <1>1, SMT
<1> QED  BY <1>13, <1>15, <1>16

\* ... and J, twenty.
LEMMA ImmediateJ ==
  ASSUME NEW k \in Signed20, NEW imm, imm = 2 * k, NEW w \in Int,
         Bit31(w) = Bits(imm, 20, 1), Bits(w, 25, 6) = Bits(imm, 5, 6),
         Rs2(w) = 2 * Bits(imm, 1, 4) + Bits(imm, 11, 1),
         Rs1(w) = Bits(imm, 15, 5), Funct3(w) = Bits(imm, 12, 3)
  PROVE  j_imm(w) = imm
<1>0. imm = 2 * k
  OBVIOUS
<1> DEFINE c1 == k % 16      q5 == k \div 16
           c5 == q5 % 64     q11 == q5 \div 64
           c11 == q11 % 2    q12 == q11 \div 2
           c12 == q12 % 8    q15 == q12 \div 8
           c15 == q15 % 32   q20 == q15 \div 32
           c20 == q20 % 2    q21 == q20 \div 2
<1>1. k \in Int /\ -524288 <= k /\ k <= 524287
  BY SMT DEF Signed20
<1>2. k = 16 * q5 + c1 /\ q5 \in Int /\ c1 \in Int /\ 0 <= c1 /\ c1 < 16
  BY <1>1, SMT
<1> HIDE DEF c1, q5
<1>3. q5 = 64 * q11 + c5 /\ q11 \in Int /\ c5 \in Int /\ 0 <= c5 /\ c5 < 64
  BY <1>2, SMT
<1> HIDE DEF c5, q11
<1>4. q11 = 2 * q12 + c11 /\ q12 \in Int /\ c11 \in Int /\ 0 <= c11 /\ c11 < 2
  BY <1>3, SMT
<1> HIDE DEF c11, q12
<1>5. q12 = 8 * q15 + c12 /\ q15 \in Int /\ c12 \in Int /\ 0 <= c12 /\ c12 < 8
  BY <1>4, SMT
<1> HIDE DEF c12, q15
<1>6. q15 = 32 * q20 + c15 /\ q20 \in Int /\ c15 \in Int /\ 0 <= c15 /\ c15 < 32
  BY <1>5, SMT
<1> HIDE DEF c15, q20
<1>7. q20 = 2 * q21 + c20 /\ q21 \in Int /\ c20 \in Int /\ 0 <= c20 /\ c20 < 2
  BY <1>6, SMT
<1> HIDE DEF c20, q21
<1>8. q20 = -c20
  <2>1. -1 <= q20 /\ q20 <= 0
    BY ONLY <1>1, <1>2, <1>3, <1>4, <1>5, <1>6, SMT
  <2> QED  BY ONLY <1>7, <2>1, SMT
<1>9. /\ Bits(imm, 1, 4) = c1 /\ Bits(imm, 5, 6) = c5 /\ Bits(imm, 11, 1) = c11
      /\ Bits(imm, 12, 3) = c12 /\ Bits(imm, 15, 5) = c15 /\ Bits(imm, 20, 1) = c20
  <2> DEFINE r5 == 2 * c1
             r11 == 32 * c5 + r5
             r12 == 2048 * c11 + r11
             r15 == 4096 * c12 + r12
             r20 == 32768 * c15 + r15
  <2>1. /\ imm = (k * 2) + 0
        /\ imm = (q5 * 32) + r5 /\ r5 \in Int /\ 0 <= r5 /\ r5 < 32
    BY ONLY <1>0, <1>1, <1>2, SMT
  <2>2. /\ imm = (q11 * 2048) + r11 /\ r11 \in Int /\ 0 <= r11 /\ r11 < 2048
        /\ imm = (q12 * 4096) + r12 /\ r12 \in Int /\ 0 <= r12 /\ r12 < 4096
    BY ONLY <1>0, <1>1, <1>2, <1>3, <1>4, SMT
  <2>3. imm = (q15 * 32768) + r15 /\ r15 \in Int /\ 0 <= r15 /\ r15 < 32768
    BY ONLY <1>0, <1>1, <1>2, <1>3, <1>4, <1>5, SMT
  <2>4. imm = (q20 * 1048576) + r20 /\ r20 \in Int /\ 0 <= r20 /\ r20 < 1048576
    BY ONLY <1>0, <1>1, <1>2, <1>3, <1>4, <1>5, <1>6, SMT
  <2> HIDE DEF r5, r11, r12, r15, r20
  <2>5. imm \div 2 = k /\ imm \div 32 = q5
    BY ONLY <1>1, <1>2, <2>1, Parts, SMT
  <2>6. imm \div 2048 = q11 /\ imm \div 4096 = q12
    BY ONLY <1>3, <1>4, <2>2, Parts, SMT
  <2>7. imm \div 32768 = q15
    BY ONLY <1>5, <2>3, Parts, SMT
  <2>8. imm \div 1048576 = q20
    BY ONLY <1>6, <2>4, Parts, SMT
  <2> QED  BY <2>5, <2>6, <2>7, <2>8, SMT DEF Bits, c1, c5, c11, c12, c15, c20
\* The word from bit 12 on.
<1> DEFINE R12 == w \div 4096   l == w % 4096
           R15 == R12 \div 8    f == R12 % 8
           R20 == R15 \div 32   a == R15 % 32
           R25 == R20 \div 32   b == R20 % 32
           R31 == R25 \div 64   e == R25 % 64
<1>10. w = 4096 * R12 + l /\ R12 \in Int /\ l \in Int /\ 0 <= l /\ l < 4096
       /\ Bits(w, 12, 8) = R12 % 256 /\ Funct3(w) = f
       /\ Rs1(w) = (w \div 32768) % 32 /\ Rs2(w) = (w \div 1048576) % 32
       /\ Bits(w, 25, 6) = (w \div 33554432) % 64 /\ Bits(w, 20, 1) = (w \div 1048576) % 2
       /\ Bits(w, 21, 10) = (w \div 2097152) % 1024
  BY SMT DEF Bits, Funct3, Rs1, Rs2
<1> HIDE DEF R12, l
<1>11. R12 = 8 * R15 + f /\ R15 \in Int /\ f \in Int /\ 0 <= f /\ f < 8
  BY <1>10, SMT
<1> HIDE DEF R15, f
<1>12. R15 = 32 * R20 + a /\ R20 \in Int /\ a \in Int /\ 0 <= a /\ a < 32
  BY <1>11, SMT
<1> HIDE DEF R20, a
<1>13. R20 = 32 * R25 + b /\ R25 \in Int /\ b \in Int /\ 0 <= b /\ b < 32
  BY <1>12, SMT
<1> HIDE DEF R25, b
<1>14. R25 = 64 * R31 + e /\ R31 \in Int
  BY <1>13, SMT
<1> HIDE DEF R31, e
<1>15. w \div 32768 = R15 /\ w \div 1048576 = R20 /\ w \div 33554432 = R25
  <2> DEFINE l15 == 4096 * f + l
             l20 == 32768 * a + l15
             l25 == 1048576 * b + l20
  <2>1. /\ w = (R15 * 32768) + l15 /\ l15 \in Int /\ 0 <= l15 /\ l15 < 32768
        /\ w = (R20 * 1048576) + l20 /\ l20 \in Int /\ 0 <= l20 /\ l20 < 1048576
        /\ w = (R25 * 33554432) + l25 /\ l25 \in Int /\ 0 <= l25 /\ l25 < 33554432
    BY ONLY <1>10, <1>11, <1>12, <1>13, SMT
  <2> HIDE DEF l15, l20, l25
  <2> QED  BY ONLY <1>11, <1>12, <1>13, <2>1, Parts, SMT
<1>16. f = c12 /\ a = c15 /\ b = 2 * c1 + c11 /\ e = c5
  BY <1>9, <1>10, <1>15, SMT DEF a, b, e
<1> DEFINE s == 16 * R25 + c1
           m == 1048576 * c11 + 32768 * a + 4096 * f + l
           g == 8 * c15 + c12
           h == 16 * c5 + c1
<1>17. /\ R20 = (s * 2) + c11 /\ s \in Int /\ c11 \in Int /\ 0 <= c11 /\ c11 < 2
       /\ w = (s * 2097152) + m /\ m \in Int /\ 0 <= m /\ m < 2097152
       /\ R12 = (R20 * 256) + g /\ R20 \in Int /\ g \in Int /\ 0 <= g /\ g < 256
       /\ s = (R31 * 1024) + h /\ R31 \in Int /\ h \in Int /\ 0 <= h /\ h < 1024
  BY ONLY <1>2, <1>3, <1>4, <1>5, <1>6, <1>10, <1>11, <1>12, <1>13, <1>14, <1>16, SMT
<1> HIDE DEF s, m, g, h
<1>18. R20 % 2 = c11 /\ w \div 2097152 = s /\ R12 % 256 = g /\ s % 1024 = h
  BY ONLY <1>17, Parts, SMT
<1> DEFINE v == c20 * 1048576 + g * 4096 + c11 * 2048 + h * 2
<1>19. j_imm(w) = SignExtend(21, v)
  <2>1. /\ Bits(w, 12, 8) = g /\ Bits(w, 20, 1) = c11 /\ Bits(w, 21, 10) = h
        /\ Bit31(w) = c20
    BY <1>9, <1>10, <1>15, <1>18, SMT
  <2>2. 2^20 = 1048576 /\ 2^12 = 4096 /\ 2^11 = 2048
    BY SMT
  <2> QED  BY <2>1, <2>2, SMT DEF j_imm
<1>20. v \in Int /\ 0 <= v /\ v < 2097152 /\ v = imm + 2097152 * c20
       /\ (v >= 1048576 <=> c20 = 1)
  <2>1. g = 8 * c15 + c12 /\ h = 16 * c5 + c1
    BY SMT DEF g, h
  <2> QED  BY ONLY <1>1, <1>2, <1>3, <1>4, <1>5, <1>6, <1>7, <1>0, <1>8, <2>1, SMT
<1> HIDE DEF v
<1>21. SignExtend(21, v) = IF v >= 1048576 THEN v - 2097152 ELSE v
  <2>1. v % 2097152 = v
    BY ONLY <1>20, SMT
  <2> QED  BY ONLY <2>1, SMT DEF SignExtend
<1>22. (IF v >= 1048576 THEN v - 2097152 ELSE v) = imm
  BY ONLY <1>7, <1>20, <1>0, <1>1, SMT
<1> QED  BY <1>19, <1>21, <1>22, SMT

\* The number of the CSR a word names.
Csr(w) == Bits(w, 20, 11) + 2048 * Bit31(w)

\* What lies in the immediate's bits.
LEMMA UpperBits ==
  ASSUME NEW w \in Int
  PROVE  /\ i_imm(w) \in Int
         /\ Bits(w, 20, 5) = i_imm(w) % 32 /\ Bits(w, 20, 6) = i_imm(w) % 64
         /\ Bits(w, 20, 11) = i_imm(w) % 2048 /\ Bits(w, 30, 1) = (i_imm(w) \div 1024) % 2
         /\ Bit31(w) = IF i_imm(w) < 0 THEN 1 ELSE 0
<1> DEFINE q == w \div 1048576
           l == w % 1048576
           q2 == q \div 1024
           l2 == q % 1024
           m == 1048576 * l2 + l
<1>1. i_imm(w) = q
  BY SMT DEF i_imm
<1>2. /\ Bits(w, 20, 5) = q % 32 /\ Bits(w, 20, 6) = q % 64 /\ Bits(w, 20, 11) = q % 2048
      /\ Bits(w, 30, 1) = (w \div 1073741824) % 2
  BY SMT DEF Bits
<1>3. w = (q * 1048576) + l /\ q \in Int /\ l \in Int /\ 0 <= l /\ l < 1048576
  BY SMT
<1> HIDE DEF q, l
<1>4. q = (q2 * 1024) + l2 /\ q2 \in Int /\ l2 \in Int /\ 0 <= l2 /\ l2 < 1024
  BY <1>3, SMT
<1>5. q \div 1024 = q2
  OBVIOUS
<1> HIDE DEF q2, l2
<1>6. w = (q2 * 1073741824) + m /\ m \in Int /\ 0 <= m /\ m < 1073741824
  BY ONLY <1>3, <1>4, SMT
<1> HIDE DEF m
<1>7. w \div 1073741824 = q2
  BY ONLY <1>4, <1>6, Parts, SMT
<1>8. w < 0 <=> q < 0
  BY ONLY <1>3, SMT
<1>9. Bit31(w) = IF q < 0 THEN 1 ELSE 0
  BY ONLY <1>8, SMT DEF Bit31
<1> QED  BY ONLY <1>1, <1>2, <1>3, <1>5, <1>7, <1>9, SMT

\* The CSR number, read from its bits, is the upper twelve bits without a sign.
LEMMA CsrField ==
  \A w \in Int : \A v \in Csr12 : i_imm(w) = SignExtend(12, v) => Csr(w) = v
<1>1. SUFFICES ASSUME NEW w \in Int, NEW v \in Csr12, i_imm(w) = SignExtend(12, v)
               PROVE  Csr(w) = v
  OBVIOUS
<1>2. v \in Int /\ 0 <= v /\ v < 4096
  BY SMT DEF Csr12
<1>3. v % 4096 = v
  BY ONLY <1>2, SMT
<1>4. SignExtend(12, v) = IF v >= 2048 THEN v - 4096 ELSE v
  BY ONLY <1>3, SMT DEF SignExtend
<1>5. Csr(w) = (i_imm(w) % 2048) + (2048 * (IF i_imm(w) < 0 THEN 1 ELSE 0))
  BY UpperBits, SMT DEF Csr
<1>6. CASE v >= 2048
  <2>1. i_imm(w) = v - 4096
    BY ONLY <1>1, <1>4, <1>6, SMT
  <2>2. v - 4096 = ((-1) * 2048) + (v - 2048) /\ v - 2048 < 2048 /\ 0 <= v - 2048
        /\ v - 2048 \in Int
    BY ONLY <1>2, <1>6, SMT
  <2>3. (v - 4096) % 2048 = v - 2048
    BY ONLY <2>2, SMT
  <2> QED  BY ONLY <1>2, <1>5, <2>1, <2>3, SMT
<1>7. CASE ~(v >= 2048)
  <2>1. i_imm(w) = v
    BY ONLY <1>1, <1>4, <1>7, SMT
  <2>2. v % 2048 = v
    BY ONLY <1>2, <1>7, SMT
  <2> QED  BY ONLY <1>2, <1>5, <2>1, <2>2, SMT
<1> QED  BY <1>6, <1>7

\* What the bits of a shift's immediate are.
LEMMA ShiftFields ==
  /\ \A w \in Int : \A a \in {0, 1} : \A v \in 0..63 :
        i_imm(w) = SignExtend(12, (32 * a) * 32 + v) => Bits(w, 30, 1) = a
  /\ \A w \in Int : \A a \in {0, 1} : \A v \in 0..63 :
        i_imm(w) = SignExtend(12, (32 * a) * 32 + v) => Bits(w, 20, 6) = v
  /\ \A w \in Int : \A a \in {0, 1} : \A v \in 0..31 :
        i_imm(w) = SignExtend(12, (32 * a) * 32 + v) => Bits(w, 20, 5) = v
<1>1. ASSUME NEW w \in Int, NEW a \in {0, 1}, NEW v \in 0..63,
             i_imm(w) = SignExtend(12, (32 * a) * 32 + v)
      PROVE  /\ Bits(w, 20, 6) = v /\ Bits(w, 30, 1) = a
             /\ v < 32 => Bits(w, 20, 5) = v
  <2> DEFINE u == (32 * a) * 32 + v
  <2>1. /\ u \in Int /\ 0 <= u /\ u < 2048 /\ v \in Int /\ 0 <= v /\ v < 64
        /\ u = (a * 1024) + v /\ a \in Int /\ 0 <= a /\ a < 2
        /\ u = ((a * 16) * 64) + v /\ u = ((a * 32) * 32) + v /\ a * 16 \in Int /\ a * 32 \in Int
    BY SMT
  <2>2. i_imm(w) = SignExtend(12, u)
    BY <1>1
  <2> HIDE DEF u
  <2>3. u % 4096 = u
    BY ONLY <2>1, SMT
  <2>4. SignExtend(12, u) = u
    BY ONLY <2>1, <2>3, SMT DEF SignExtend
  <2>5. i_imm(w) = u
    BY ONLY <2>2, <2>4, SMT
  <2>6. u \div 1024 = a
    BY ONLY <2>1, Parts, SMT
  <2>7. u % 64 = v
    BY ONLY <2>1, Parts, SMT
  <2>8. v < 32 => u % 32 = v
    BY ONLY <2>1, Parts, SMT
  <2>9. a % 2 = a
    BY ONLY <2>1, SMT
  <2>10. /\ Bits(w, 20, 5) = u % 32 /\ Bits(w, 20, 6) = u % 64
         /\ Bits(w, 30, 1) = (u \div 1024) % 2
    BY <2>5, UpperBits, SMT
  <2> QED  BY ONLY <2>6, <2>7, <2>8, <2>9, <2>10, SMT
<1>2. \A v \in 0..31 : v \in 0..63 /\ v < 32
  BY SMT
<1> QED  BY <1>1, <1>2, SMT

--------------------------------------------------------------------------------
(* The instructions of a format.                                           *)

\* i is an instruction with operation op that this format can hold.
IsOf(format, op, i) ==
    \E rd, rs1, rs2 \in 0..31, imm \in Int :
        /\ i = Ins(op, rd, rs1, rs2, imm)
        /\ "rd"  \in Fields(format) \/ rd = 0
        /\ "rs1" \in Fields(format) \/ rs1 = 0
        /\ "rs2" \in Fields(format) \/ rs2 = 0
        /\ CanHold(format, imm)

\* The registers a format has none of ...
LEMMA FormatFields ==
  /\ "rs2" \notin Fields("I") /\ "rs2" \notin Fields("csr") /\ "rs2" \notin Fields("shift")
  /\ "rs2" \notin Fields("shiftw") /\ "rs2" \notin Fields("lr") /\ "rs2" \notin Fields("U")
  /\ "rs2" \notin Fields("J") /\ "rs2" \notin Fields("priv")
  /\ "rs1" \notin Fields("U") /\ "rs1" \notin Fields("J") /\ "rs1" \notin Fields("priv")
  /\ "rd" \notin Fields("S") /\ "rd" \notin Fields("B") /\ "rd" \notin Fields("priv")
BY SMT DEF Fields

\* ... and its immediates, as sets of numbers.
LEMMA FormatImmediates ==
  ASSUME NEW imm \in Int
  PROVE  /\ CanHold("R", imm) \/ CanHold("lr", imm) \/ CanHold("priv", imm) => imm = 0
         /\ CanHold("I", imm) \/ CanHold("S", imm) => imm \in Signed12
         /\ CanHold("csr", imm) => imm \in Csr12
         /\ CanHold("shift", imm) => imm \in 0..63
         /\ CanHold("shiftw", imm) => imm \in 0..31
         /\ CanHold("B", imm) => imm \in Even12
         /\ CanHold("J", imm) => imm \in Even20
         /\ CanHold("U", imm) => imm \in Upper20
<1>1. CanHold("R", imm) \/ CanHold("lr", imm) \/ CanHold("priv", imm) => imm = 0
  BY SMT DEF CanHold
<1>2. CanHold("I", imm) \/ CanHold("S", imm) => imm \in Signed12
  BY SMT DEF CanHold, Signed12
<1>3. CanHold("csr", imm) => imm \in Csr12
  BY SMT DEF CanHold, Csr12
<1>4. CanHold("shift", imm) => imm \in 0..63
  BY SMT DEF CanHold
<1>5. CanHold("shiftw", imm) => imm \in 0..31
  BY SMT DEF CanHold
<1>6. ASSUME CanHold("B", imm)  PROVE  imm \in Even12
  <2>1. imm % 2 = 0 /\ imm \in -4096..4094
    BY <1>6, SMT DEF CanHold
  <2>2. imm = 2 * (imm \div 2) /\ imm \div 2 \in Int
    BY ONLY <2>1, SMT
  <2>3. imm \div 2 \in Signed12
    BY ONLY <2>1, <2>2, SMT DEF Signed12
  <2> QED  BY ONLY <2>2, <2>3, SMT DEF Even12
<1>7. ASSUME CanHold("J", imm)  PROVE  imm \in Even20
  <2>1. imm % 2 = 0 /\ imm \in -(2^20)..(2^20 - 2)
    BY <1>7, SMT DEF CanHold
  <2>2. imm = 2 * (imm \div 2) /\ imm \div 2 \in Int
    BY ONLY <2>1, SMT
  <2>3. imm \div 2 \in Signed20
    BY ONLY <2>1, <2>2, SMT DEF Signed20
  <2> QED  BY ONLY <2>2, <2>3, SMT DEF Even20
<1>8. ASSUME CanHold("U", imm)  PROVE  imm \in Upper20
  <2>1. imm % 4096 = 0 /\ imm \in Int
    BY <1>8, SMT DEF CanHold
  <2>2. imm = 4096 * (imm \div 4096) /\ imm \div 4096 \in Int
    BY ONLY <2>1, SMT
  <2> QED  BY ONLY <2>2, SMT DEF Upper20
<1> QED  BY <1>1, <1>2, <1>3, <1>4, <1>5, <1>6, <1>7, <1>8, Zenon

--------------------------------------------------------------------------------
(* Decoding what was encoded, format by format.                            *)

\* Whatever is encoded in this format at this place is decoded as it was.
Inverts(format, opcode, funct, f3, op) ==
    \A i : IsOf(format, op, i) => Decode(EncodeAs(format, opcode, funct, f3, i)) = i

\* What the decoder takes words with these fields for: an operation with the
\* operands of its format.
ReadsR(opcode, funct, f3, op) ==
    \A w \in Int : Funct3(w) = f3 /\ Funct7(w) = funct =>
        DecodeAs(opcode, w) = Ins(op, Rd(w), Rs1(w), Rs2(w), 0)
ReadsI(opcode, f3, op) ==
    \A w \in Int : Funct3(w) = f3 => DecodeAs(opcode, w) = Ins(op, Rd(w), Rs1(w), 0, i_imm(w))
ReadsS(opcode, f3, op) ==
    \A w \in Int : Funct3(w) = f3 => DecodeAs(opcode, w) = Ins(op, 0, Rs1(w), Rs2(w), s_imm(w))
ReadsB(opcode, f3, op) ==
    \A w \in Int : Funct3(w) = f3 => DecodeAs(opcode, w) = Ins(op, 0, Rs1(w), Rs2(w), b_imm(w))
ReadsU(opcode, op) == \A w \in Int : DecodeAs(opcode, w) = Ins(op, Rd(w), 0, 0, u_imm(w))
ReadsJ(opcode, op) == \A w \in Int : DecodeAs(opcode, w) = Ins(op, Rd(w), 0, 0, j_imm(w))
ReadsShift(opcode, a, f3, op, n) ==
    \A w \in Int : Funct3(w) = f3 /\ Bits(w, 30, 1) = a =>
        DecodeAs(opcode, w) = Ins(op, Rd(w), Rs1(w), 0, Bits(w, 20, n))
ReadsCsr(f3, op) ==
    \A w \in Int : Funct3(w) = f3 => DecodeAs(115, w) = Ins(op, Rd(w), Rs1(w), 0, Csr(w))
ReadsPriv(csr, op) ==
    \A w \in Int : Funct3(w) = 0 /\ Rd(w) = 0 /\ Rs1(w) = 0 /\ Csr(w) = csr =>
        DecodeAs(115, w) = Ins(op, 0, 0, 0, 0)
ReadsLr(opcode, funct, f3, op) ==
    \A w \in Int : Funct3(w) = f3 /\ Funct7(w) = funct =>
        DecodeAs(opcode, w) = Ins(op, Rd(w), Rs1(w), 0, 0)

\* Two source registers and no immediate.
LEMMA DecodesR ==
  ASSUME NEW opcode \in 0..127, NEW funct \in 0..127, NEW f3 \in 0..7, NEW op,
         ReadsR(opcode, funct, f3, op)
  PROVE  Inverts("R", opcode, funct, f3, op)
<1>1. SUFFICES ASSUME NEW i, IsOf("R", op, i)
               PROVE  Decode(EncodeAs("R", opcode, funct, f3, i)) = i
  BY DEF Inverts
<1>2. PICK rd \in 0..31, rs1 \in 0..31, rs2 \in 0..31 : i = Ins(op, rd, rs1, rs2, 0)
  BY <1>1, FormatFields, FormatImmediates, Zenon DEF IsOf
<1> DEFINE w == Pack(funct, rs2, rs1, f3, rd, opcode)
<1>3. i.rd = rd /\ i.rs1 = rs1 /\ i.rs2 = rs2
  BY <1>2, Zenon DEF Ins
<1>4. EncodeAs("R", opcode, funct, f3, i) = Pack(funct, i.rs2, i.rs1, f3, i.rd, opcode)
  BY ONLY SMT DEF EncodeAs
<1>5. EncodeAs("R", opcode, funct, f3, i) = w
  BY <1>3, <1>4, Zenon
<1>6. HasFields(w, funct, rs2, rs1, f3, rd, opcode)
  BY PackedFields, Zenon
<1> HIDE DEF w
<1>7. /\ w \in Int /\ w % 128 = opcode /\ Rd(w) = rd /\ Rs1(w) = rs1 /\ Rs2(w) = rs2
      /\ Funct3(w) = f3 /\ Funct7(w) = funct
  BY <1>6, Zenon DEF HasFields
<1>8. Decode(w) = DecodeAs(opcode, w)
  BY <1>7, Zenon DEF Decode
<1>9. DecodeAs(opcode, w) = i
  BY <1>2, <1>7, Zenon DEF ReadsR
<1> QED  BY <1>5, <1>8, <1>9, Zenon

\* The same with rs2 zero, not read.
LEMMA DecodesLr ==
  ASSUME NEW opcode \in 0..127, NEW funct \in 0..127, NEW f3 \in 0..7, NEW op,
         ReadsLr(opcode, funct, f3, op)
  PROVE  Inverts("lr", opcode, funct, f3, op)
<1>1. SUFFICES ASSUME NEW i, IsOf("lr", op, i)
               PROVE  Decode(EncodeAs("lr", opcode, funct, f3, i)) = i
  BY DEF Inverts
<1>2. PICK rd \in 0..31, rs1 \in 0..31 : i = Ins(op, rd, rs1, 0, 0)
  BY <1>1, FormatFields, FormatImmediates, Zenon DEF IsOf
<1> DEFINE w == Pack(funct, 0, rs1, f3, rd, opcode)
<1>3. i.rd = rd /\ i.rs1 = rs1
  BY <1>2, Zenon DEF Ins
<1>4. EncodeAs("lr", opcode, funct, f3, i) = Pack(funct, 0, i.rs1, f3, i.rd, opcode)
  BY ONLY SMT DEF EncodeAs
<1>5. EncodeAs("lr", opcode, funct, f3, i) = w
  BY <1>3, <1>4, Zenon
<1>6. 0 \in 0..31
  BY SMT
<1>7. HasFields(w, funct, 0, rs1, f3, rd, opcode)
  BY <1>6, PackedFields, Zenon
<1> HIDE DEF w
<1>8. /\ w \in Int /\ w % 128 = opcode /\ Rd(w) = rd /\ Rs1(w) = rs1
      /\ Funct3(w) = f3 /\ Funct7(w) = funct
  BY <1>7, Zenon DEF HasFields
<1>9. Decode(w) = DecodeAs(opcode, w)
  BY <1>8, Zenon DEF Decode
<1>10. DecodeAs(opcode, w) = i
  BY <1>2, <1>8, Zenon DEF ReadsLr
<1> QED  BY <1>5, <1>9, <1>10, Zenon

\* Word w has these fields of the I format.
HasFieldsI(w, imm, rs1, f3, rd, opcode) ==
    /\ w \in Int /\ w % 128 = opcode /\ Rd(w) = rd /\ Rs1(w) = rs1 /\ Funct3(w) = f3
    /\ i_imm(w) = SignExtend(12, imm)

\* A word with twelve bits above the registers.
LEMMA PackedI ==
  ASSUME NEW imm \in Any12, NEW rs1 \in 0..31, NEW f3 \in 0..7, NEW rd \in 0..31,
         NEW opcode \in 0..127
  PROVE  HasFieldsI(Pack(ImmHigh(imm), ImmLow(imm), rs1, f3, rd, opcode),
                    imm, rs1, f3, rd, opcode)
<1> DEFINE w == Pack(ImmHigh(imm), ImmLow(imm), rs1, f3, rd, opcode)
<1>1. /\ ImmHigh(imm) \in 0..127 /\ ImmLow(imm) \in 0..31
      /\ SignExtend(12, ImmHigh(imm) * 32 + ImmLow(imm)) = SignExtend(12, imm)
  BY ImmediateI, Zenon
<1>2. HasFields(w, ImmHigh(imm), ImmLow(imm), rs1, f3, rd, opcode)
  BY <1>1, PackedFields, Zenon
<1> HIDE DEF w
<1>3. /\ w \in Int /\ w % 128 = opcode /\ Rd(w) = rd /\ Rs1(w) = rs1 /\ Funct3(w) = f3
      /\ i_imm(w) = SignExtend(12, ImmHigh(imm) * 32 + ImmLow(imm))
  BY <1>2, Zenon DEF HasFields
<1>4. HasFieldsI(w, imm, rs1, f3, rd, opcode)
  BY <1>1, <1>3, Zenon DEF HasFieldsI
<1> QED  BY <1>4 DEF w

\* A signed immediate.
LEMMA DecodesI ==
  ASSUME NEW opcode \in 0..127, NEW funct, NEW f3 \in 0..7, NEW op, ReadsI(opcode, f3, op)
  PROVE  Inverts("I", opcode, funct, f3, op)
<1>1. SUFFICES ASSUME NEW i, IsOf("I", op, i)
               PROVE  Decode(EncodeAs("I", opcode, funct, f3, i)) = i
  BY DEF Inverts
<1>2. PICK rd \in 0..31, rs1 \in 0..31, imm \in Signed12 : i = Ins(op, rd, rs1, 0, imm)
  BY <1>1, FormatFields, FormatImmediates, Zenon DEF IsOf
<1> DEFINE w == Pack(ImmHigh(imm), ImmLow(imm), rs1, f3, rd, opcode)
<1>3. i.rd = rd /\ i.rs1 = rs1 /\ i.imm = imm
  BY <1>2, Zenon DEF Ins
<1>4. EncodeAs("I", opcode, funct, f3, i)
        = Pack(ImmHigh(i.imm), ImmLow(i.imm), i.rs1, f3, i.rd, opcode)
  BY ONLY SMT DEF EncodeAs, ImmHigh, ImmLow
<1>5. EncodeAs("I", opcode, funct, f3, i) = w
  BY <1>3, <1>4, Zenon
<1>6. imm \in Any12 /\ SignExtend(12, imm) = imm
  BY Immediate12, Zenon
<1>7. HasFieldsI(w, imm, rs1, f3, rd, opcode)
  BY <1>6, PackedI, Zenon
<1> HIDE DEF w
<1>8. /\ w \in Int /\ w % 128 = opcode /\ Rd(w) = rd /\ Rs1(w) = rs1 /\ Funct3(w) = f3
      /\ i_imm(w) = SignExtend(12, imm)
  BY <1>7, Zenon DEF HasFieldsI
<1>9. Decode(w) = DecodeAs(opcode, w)
  BY <1>8, Zenon DEF Decode
<1>10. DecodeAs(opcode, w) = i
  BY <1>2, <1>6, <1>8, Zenon DEF ReadsI
<1> QED  BY <1>5, <1>9, <1>10, Zenon

\* A shift: six bits of amount, or five, under the bit that tells sra from srl ...
LEMMA DecodesShift ==
  ASSUME NEW opcode \in 0..127, NEW a \in {0, 1}, NEW f3 \in 0..7, NEW op,
         NEW rd \in 0..31, NEW rs1 \in 0..31, NEW imm, NEW i, i = Ins(op, rd, rs1, 0, imm)
  PROVE  /\ ReadsShift(opcode, a, f3, op, 6) /\ imm \in 0..63
              => Decode(EncodeAs("shift", opcode, 32 * a, f3, i)) = i
         /\ ReadsShift(opcode, a, f3, op, 5) /\ imm \in 0..31
              => Decode(EncodeAs("shiftw", opcode, 32 * a, f3, i)) = i
<1> DEFINE v(u) == (32 * a) * 32 + u
           W(u) == Pack(ImmHigh(v(u)), ImmLow(v(u)), rs1, f3, rd, opcode)
           w == W(imm)
<1>1. i.rd = rd /\ i.rs1 = rs1 /\ i.imm = imm
  BY Zenon DEF Ins
<1>2. /\ EncodeAs("shift", opcode, 32 * a, f3, i)
           = Pack(ImmHigh(v(i.imm)), ImmLow(v(i.imm)), i.rs1, f3, i.rd, opcode)
      /\ EncodeAs("shiftw", opcode, 32 * a, f3, i)
           = Pack(ImmHigh(v(i.imm)), ImmLow(v(i.imm)), i.rs1, f3, i.rd, opcode)
  BY ONLY SMT DEF EncodeAs, ImmHigh, ImmLow
<1>3. EncodeAs("shift", opcode, 32 * a, f3, i) = w /\ EncodeAs("shiftw", opcode, 32 * a, f3, i) = w
  BY <1>1, <1>2, Zenon
<1>4. imm \in 0..31 => imm \in 0..63
  BY SMT
<1>5. SUFFICES ASSUME imm \in 0..63
               PROVE  /\ ReadsShift(opcode, a, f3, op, 6)
                           => Decode(EncodeAs("shift", opcode, 32 * a, f3, i)) = i
                      /\ ReadsShift(opcode, a, f3, op, 5) /\ imm \in 0..31
                           => Decode(EncodeAs("shiftw", opcode, 32 * a, f3, i)) = i
  BY <1>4, Zenon
<1>6. v(imm) \in Any12
  BY <1>5, SMT DEF Any12
<1>7. v(imm) = (32 * a) * 32 + imm
  OBVIOUS
<1> HIDE DEF v
<1>8. HasFieldsI(w, v(imm), rs1, f3, rd, opcode)
  BY <1>6, PackedI, Zenon
<1> HIDE DEF W, w
<1>9. /\ w \in Int /\ w % 128 = opcode /\ Rd(w) = rd /\ Rs1(w) = rs1 /\ Funct3(w) = f3
      /\ i_imm(w) = SignExtend(12, (32 * a) * 32 + imm)
  BY <1>7, <1>8, Zenon DEF HasFieldsI
<1>10. Bits(w, 20, 6) = imm /\ Bits(w, 30, 1) = a
  <2>1. Bits(w, 20, 6) = imm
    BY <1>5, <1>9, ShiftFields, Zenon
  <2>2. Bits(w, 30, 1) = a
    BY <1>5, <1>9, ShiftFields, Zenon
  <2> QED  BY <2>1, <2>2
<1>11. imm \in 0..31 => Bits(w, 20, 5) = imm
  BY <1>5, <1>9, ShiftFields, Zenon
<1>12. Decode(w) = DecodeAs(opcode, w)
  BY <1>9, Zenon DEF Decode
<1>13. ReadsShift(opcode, a, f3, op, 6) => DecodeAs(opcode, w) = i
  BY <1>9, <1>10, Zenon DEF ReadsShift
<1>14. ReadsShift(opcode, a, f3, op, 5) /\ imm \in 0..31 => DecodeAs(opcode, w) = i
  BY <1>9, <1>10, <1>11, Zenon DEF ReadsShift
<1> QED  BY <1>3, <1>12, <1>13, <1>14, Zenon

\* ... for all instructions of the operation.
LEMMA DecodesShifts ==
  ASSUME NEW opcode \in 0..127, NEW a \in {0, 1}, NEW f3 \in 0..7, NEW op
  PROVE  /\ ReadsShift(opcode, a, f3, op, 6) => Inverts("shift", opcode, 32 * a, f3, op)
         /\ ReadsShift(opcode, a, f3, op, 5) => Inverts("shiftw", opcode, 32 * a, f3, op)
<1>1. ASSUME ReadsShift(opcode, a, f3, op, 6), NEW i, IsOf("shift", op, i)
      PROVE  Decode(EncodeAs("shift", opcode, 32 * a, f3, i)) = i
  <2>1. PICK rd \in 0..31, rs1 \in 0..31, imm \in 0..63 : i = Ins(op, rd, rs1, 0, imm)
    BY <1>1, FormatFields, FormatImmediates, Zenon DEF IsOf
  <2> QED  BY <1>1, <2>1, DecodesShift, Zenon
<1>2. ASSUME ReadsShift(opcode, a, f3, op, 5), NEW i, IsOf("shiftw", op, i)
      PROVE  Decode(EncodeAs("shiftw", opcode, 32 * a, f3, i)) = i
  <2>1. PICK rd \in 0..31, rs1 \in 0..31, imm \in 0..31 : i = Ins(op, rd, rs1, 0, imm)
    BY <1>2, FormatFields, FormatImmediates, Zenon DEF IsOf
  <2> QED  BY <1>2, <2>1, DecodesShift, Zenon
<1> QED  BY <1>1, <1>2, Zenon DEF Inverts

\* A CSR number.
LEMMA DecodesCsr ==
  ASSUME NEW funct, NEW f3 \in 0..7, NEW op, ReadsCsr(f3, op)
  PROVE  Inverts("csr", 115, funct, f3, op)
<1>1. SUFFICES ASSUME NEW i, IsOf("csr", op, i)
               PROVE  Decode(EncodeAs("csr", 115, funct, f3, i)) = i
  BY DEF Inverts
<1>2. PICK rd \in 0..31, rs1 \in 0..31, imm \in Csr12 : i = Ins(op, rd, rs1, 0, imm)
  BY <1>1, FormatFields, FormatImmediates, Zenon DEF IsOf
<1> DEFINE w == Pack(ImmHigh(imm), ImmLow(imm), rs1, f3, rd, 115)
<1>3. i.rd = rd /\ i.rs1 = rs1 /\ i.imm = imm
  BY <1>2, Zenon DEF Ins
<1>4. EncodeAs("csr", 115, funct, f3, i) = Pack(ImmHigh(i.imm), ImmLow(i.imm), i.rs1, f3, i.rd, 115)
  BY ONLY SMT DEF EncodeAs, ImmHigh, ImmLow
<1>5. EncodeAs("csr", 115, funct, f3, i) = w
  BY <1>3, <1>4, Zenon
<1>6. imm \in Any12
  BY SMT DEF Csr12, Any12
<1>7. 115 \in 0..127
  BY SMT
<1>8. HasFieldsI(w, imm, rs1, f3, rd, 115)
  BY <1>6, <1>7, PackedI, Zenon
<1> HIDE DEF w
<1>9. /\ w \in Int /\ w % 128 = 115 /\ Rd(w) = rd /\ Rs1(w) = rs1 /\ Funct3(w) = f3
      /\ i_imm(w) = SignExtend(12, imm)
  BY <1>8, Zenon DEF HasFieldsI
<1>10. Csr(w) = imm
  BY <1>9, CsrField, Zenon
<1>11. Decode(w) = DecodeAs(115, w)
  BY <1>9, Zenon DEF Decode
<1>12. DecodeAs(115, w) = i
  BY <1>2, <1>9, <1>10, Zenon DEF ReadsCsr
<1> QED  BY <1>5, <1>11, <1>12, Zenon

\* An operation told by its upper twelve bits, without registers.
LEMMA DecodesPriv ==
  ASSUME NEW funct \in Csr12, NEW op, ReadsPriv(funct, op)
  PROVE  Inverts("priv", 115, funct, 0, op)
<1>1. SUFFICES ASSUME NEW i, IsOf("priv", op, i)
               PROVE  Decode(EncodeAs("priv", 115, funct, 0, i)) = i
  BY DEF Inverts
<1>2. i = Ins(op, 0, 0, 0, 0)
  BY <1>1, FormatFields, FormatImmediates, Zenon DEF IsOf
<1> DEFINE w == Pack(ImmHigh(funct), ImmLow(funct), 0, 0, 0, 115)
<1>3. i.rd = 0 /\ i.rs1 = 0
  BY <1>2, Zenon DEF Ins
<1>4. EncodeAs("priv", 115, funct, 0, i) = Pack(ImmHigh(funct), ImmLow(funct), i.rs1, 0, i.rd, 115)
  BY ONLY SMT DEF EncodeAs, ImmHigh, ImmLow
<1>5. EncodeAs("priv", 115, funct, 0, i) = w
  BY <1>3, <1>4, Zenon
<1>6. funct \in Any12
  BY SMT DEF Csr12, Any12
<1>7. 115 \in 0..127 /\ 0 \in 0..31 /\ 0 \in 0..7
  BY SMT
<1>8. HasFieldsI(w, funct, 0, 0, 0, 115)
  BY <1>6, <1>7, PackedI, Zenon
<1> HIDE DEF w
<1>9. /\ w \in Int /\ w % 128 = 115 /\ Rd(w) = 0 /\ Rs1(w) = 0 /\ Funct3(w) = 0
      /\ i_imm(w) = SignExtend(12, funct)
  BY <1>8, Zenon DEF HasFieldsI
<1>10. Csr(w) = funct
  BY <1>9, CsrField, Zenon
<1>11. Decode(w) = DecodeAs(115, w)
  BY <1>9, Zenon DEF Decode
<1>12. DecodeAs(115, w) = i
  BY <1>2, <1>9, <1>10, Zenon DEF ReadsPriv
<1> QED  BY <1>5, <1>11, <1>12, Zenon

\* A store: seven bits of the immediate above, five where rd would be.
LEMMA DecodesS ==
  ASSUME NEW opcode \in 0..127, NEW funct, NEW f3 \in 0..7, NEW op, ReadsS(opcode, f3, op)
  PROVE  Inverts("S", opcode, funct, f3, op)
<1>1. SUFFICES ASSUME NEW i, IsOf("S", op, i)
               PROVE  Decode(EncodeAs("S", opcode, funct, f3, i)) = i
  BY DEF Inverts
<1>2. PICK rs1 \in 0..31, rs2 \in 0..31, imm \in Signed12 : i = Ins(op, 0, rs1, rs2, imm)
  BY <1>1, FormatFields, FormatImmediates, Zenon DEF IsOf
<1> DEFINE w == Pack(ImmHigh(imm), rs2, rs1, f3, ImmLow(imm), opcode)
<1>3. i.rs1 = rs1 /\ i.rs2 = rs2 /\ i.imm = imm
  BY <1>2, Zenon DEF Ins
<1>4. EncodeAs("S", opcode, funct, f3, i)
        = Pack(ImmHigh(i.imm), i.rs2, i.rs1, f3, ImmLow(i.imm), opcode)
  BY ONLY SMT DEF EncodeAs, ImmHigh, ImmLow
<1>5. EncodeAs("S", opcode, funct, f3, i) = w
  BY <1>3, <1>4, Zenon
<1>6. imm \in Any12
  BY Immediate12, Zenon
<1>7. ImmHigh(imm) \in 0..127 /\ ImmLow(imm) \in 0..31
  BY <1>6, ImmediateI, Zenon
<1>8. HasFields(w, ImmHigh(imm), rs2, rs1, f3, ImmLow(imm), opcode)
  BY <1>7, PackedFields, Zenon
<1> HIDE DEF w
<1>9. /\ w \in Int /\ w % 128 = opcode /\ Rs1(w) = rs1 /\ Rs2(w) = rs2 /\ Funct3(w) = f3
      /\ Funct7(w) = ImmHigh(imm) /\ Rd(w) = ImmLow(imm)
  BY <1>8, Zenon DEF HasFields
<1>10. s_imm(w) = imm
  BY <1>9, ImmediateS, Zenon
<1>11. Decode(w) = DecodeAs(opcode, w)
  BY <1>9, Zenon DEF Decode
<1>12. DecodeAs(opcode, w) = i
  BY <1>2, <1>9, <1>10, Zenon DEF ReadsS
<1> QED  BY <1>5, <1>11, <1>12, Zenon

\* Bits of a number, and two fields side by side.
LEMMA BitRanges ==
  ASSUME NEW imm \in Int
  PROVE  /\ Bits(imm, 12, 1) \in 0..1 /\ Bits(imm, 20, 1) \in 0..1 /\ Bits(imm, 11, 1) \in 0..1
         /\ Bits(imm, 5, 6) \in 0..63 /\ Bits(imm, 1, 4) \in 0..15
         /\ Bits(imm, 15, 5) \in 0..31 /\ Bits(imm, 12, 3) \in 0..7
<1>1. Bits(imm, 12, 1) \in 0..1
  BY SMT DEF Bits
<1>2. Bits(imm, 20, 1) \in 0..1
  BY SMT DEF Bits
<1>3. Bits(imm, 11, 1) \in 0..1
  BY SMT DEF Bits
<1>4. Bits(imm, 5, 6) \in 0..63
  BY SMT DEF Bits
<1>5. Bits(imm, 1, 4) \in 0..15
  BY SMT DEF Bits
<1>6. Bits(imm, 15, 5) \in 0..31
  BY SMT DEF Bits
<1>7. Bits(imm, 12, 3) \in 0..7
  BY SMT DEF Bits
<1> QED  BY <1>1, <1>2, <1>3, <1>4, <1>5, <1>6, <1>7, Zenon

\* Two groups of bits in one field.
LEMMA SideBySide ==
  /\ \A a \in 0..1 : \A b \in 0..63 : 64 * a + b \in 0..127
  /\ \A a \in 0..1 : \A b \in 0..63 : (64 * a + b) \div 64 = a
  /\ \A a \in 0..1 : \A b \in 0..63 : (64 * a + b) % 64 = b
  /\ \A a \in 0..15 : \A b \in 0..1 : 2 * a + b \in 0..31
<1>1. \A a \in 0..1 : \A b \in 0..63 : 64 * a + b \in 0..127
  BY SMT
<1>2. \A a \in 0..1 : \A b \in 0..63 : (64 * a + b) \div 64 = a
  BY SMT
<1>3. \A a \in 0..1 : \A b \in 0..63 : (64 * a + b) % 64 = b
  BY SMT
<1>4. \A a \in 0..15 : \A b \in 0..1 : 2 * a + b \in 0..31
  BY SMT
<1> QED  BY <1>1, <1>2, <1>3, <1>4, Zenon

\* A branch.
LEMMA DecodesB ==
  ASSUME NEW opcode \in 0..127, NEW funct, NEW f3 \in 0..7, NEW op, ReadsB(opcode, f3, op)
  PROVE  Inverts("B", opcode, funct, f3, op)
<1>1. SUFFICES ASSUME NEW i, IsOf("B", op, i)
               PROVE  Decode(EncodeAs("B", opcode, funct, f3, i)) = i
  BY DEF Inverts
<1>2. PICK rs1 \in 0..31, rs2 \in 0..31, imm \in Even12 : i = Ins(op, 0, rs1, rs2, imm)
  BY <1>1, FormatFields, FormatImmediates, Zenon DEF IsOf
<1>3. PICK k \in Signed12 : imm = 2 * k
  BY SMT DEF Even12
<1>4. imm \in Int
  BY <1>3, SMT DEF Signed12
<1> DEFINE f7(v) == 64 * Bits(v, 12, 1) + Bits(v, 5, 6)
           lo(v) == 2 * Bits(v, 1, 4) + Bits(v, 11, 1)
           w == Pack(f7(imm), rs2, rs1, f3, lo(imm), opcode)
<1>5. i.rs1 = rs1 /\ i.rs2 = rs2 /\ i.imm = imm
  BY <1>2, Zenon DEF Ins
<1>6. EncodeAs("B", opcode, funct, f3, i)
        = Pack(f7(i.imm), i.rs2, i.rs1, f3, lo(i.imm), opcode)
  BY ONLY SMT DEF EncodeAs
<1>7. EncodeAs("B", opcode, funct, f3, i) = w
  BY <1>5, <1>6, Zenon
<1>8. /\ f7(imm) \in 0..127 /\ lo(imm) \in 0..31
      /\ f7(imm) \div 64 = Bits(imm, 12, 1) /\ f7(imm) % 64 = Bits(imm, 5, 6)
  <2>1. /\ Bits(imm, 12, 1) \in 0..1 /\ Bits(imm, 5, 6) \in 0..63
        /\ Bits(imm, 1, 4) \in 0..15 /\ Bits(imm, 11, 1) \in 0..1
    BY <1>4, BitRanges, Zenon
  <2>2. f7(imm) \in 0..127
    BY ONLY <2>1, SideBySide, SMT
  <2>3. lo(imm) \in 0..31
    BY ONLY <2>1, SideBySide, SMT
  <2>4. f7(imm) \div 64 = Bits(imm, 12, 1) /\ f7(imm) % 64 = Bits(imm, 5, 6)
    BY ONLY <2>1, SideBySide, SMT
  <2> HIDE DEF f7, lo
  <2> QED  BY <2>2, <2>3, <2>4, <1>4, BitRanges, Zenon
<1>9. lo(imm) = 2 * Bits(imm, 1, 4) + Bits(imm, 11, 1)
  OBVIOUS
<1> HIDE DEF f7, lo
<1>10. HasFields(w, f7(imm), rs2, rs1, f3, lo(imm), opcode)
  BY <1>8, PackedFields, Zenon
<1> HIDE DEF w
<1>11. /\ w \in Int /\ w % 128 = opcode /\ Rs1(w) = rs1 /\ Rs2(w) = rs2 /\ Funct3(w) = f3
      /\ Bit31(w) = Bits(imm, 12, 1) /\ Bits(w, 25, 6) = Bits(imm, 5, 6)
      /\ Rd(w) = 2 * Bits(imm, 1, 4) + Bits(imm, 11, 1)
  BY <1>8, <1>9, <1>10, Zenon DEF HasFields
<1>12. b_imm(w) = imm
  BY <1>3, <1>11, ImmediateB, Zenon
<1>13. Decode(w) = DecodeAs(opcode, w)
  BY <1>11, Zenon DEF Decode
<1>14. DecodeAs(opcode, w) = i
  BY <1>2, <1>11, <1>12, Zenon DEF ReadsB
<1> QED  BY <1>7, <1>13, <1>14, Zenon

\* A jump.
LEMMA DecodesJ ==
  ASSUME NEW opcode \in 0..127, NEW funct, NEW f3, NEW op, ReadsJ(opcode, op)
  PROVE  Inverts("J", opcode, funct, f3, op)
<1>1. SUFFICES ASSUME NEW i, IsOf("J", op, i)
               PROVE  Decode(EncodeAs("J", opcode, funct, f3, i)) = i
  BY DEF Inverts
<1>2. PICK rd \in 0..31, imm \in Even20 : i = Ins(op, rd, 0, 0, imm)
  BY <1>1, FormatFields, FormatImmediates, Zenon DEF IsOf
<1>3. PICK k \in Signed20 : imm = 2 * k
  BY SMT DEF Even20
<1>4. imm \in Int
  BY <1>3, SMT DEF Signed20
<1> DEFINE f7(v) == 64 * Bits(v, 20, 1) + Bits(v, 5, 6)
           lo(v) == 2 * Bits(v, 1, 4) + Bits(v, 11, 1)
           w == Pack(f7(imm), lo(imm), Bits(imm, 15, 5), Bits(imm, 12, 3), rd, opcode)
<1>5. i.rd = rd /\ i.imm = imm
  BY <1>2, Zenon DEF Ins
<1>6. EncodeAs("J", opcode, funct, f3, i)
        = Pack(f7(i.imm), lo(i.imm), Bits(i.imm, 15, 5), Bits(i.imm, 12, 3), i.rd, opcode)
  BY ONLY SMT DEF EncodeAs
<1>7. EncodeAs("J", opcode, funct, f3, i) = w
  BY <1>5, <1>6, Zenon
<1>8. /\ f7(imm) \in 0..127 /\ lo(imm) \in 0..31
      /\ f7(imm) \div 64 = Bits(imm, 20, 1) /\ f7(imm) % 64 = Bits(imm, 5, 6)
      /\ Bits(imm, 15, 5) \in 0..31 /\ Bits(imm, 12, 3) \in 0..7
  <2>1. /\ Bits(imm, 20, 1) \in 0..1 /\ Bits(imm, 5, 6) \in 0..63
        /\ Bits(imm, 1, 4) \in 0..15 /\ Bits(imm, 11, 1) \in 0..1
    BY <1>4, BitRanges, Zenon
  <2>2. f7(imm) \in 0..127
    BY ONLY <2>1, SideBySide, SMT
  <2>3. lo(imm) \in 0..31
    BY ONLY <2>1, SideBySide, SMT
  <2>4. f7(imm) \div 64 = Bits(imm, 20, 1) /\ f7(imm) % 64 = Bits(imm, 5, 6)
    BY ONLY <2>1, SideBySide, SMT
  <2> HIDE DEF f7, lo
  <2> QED  BY <2>2, <2>3, <2>4, <1>4, BitRanges, Zenon
<1>9. lo(imm) = 2 * Bits(imm, 1, 4) + Bits(imm, 11, 1)
  OBVIOUS
<1> HIDE DEF f7, lo
<1>10. HasFields(w, f7(imm), lo(imm), Bits(imm, 15, 5), Bits(imm, 12, 3), rd, opcode)
  BY <1>8, PackedFields, Zenon
<1> HIDE DEF w
<1>11. /\ w \in Int /\ w % 128 = opcode /\ Rd(w) = rd
      /\ Bit31(w) = Bits(imm, 20, 1) /\ Bits(w, 25, 6) = Bits(imm, 5, 6)
      /\ Rs2(w) = 2 * Bits(imm, 1, 4) + Bits(imm, 11, 1)
      /\ Rs1(w) = Bits(imm, 15, 5) /\ Funct3(w) = Bits(imm, 12, 3)
  BY <1>8, <1>9, <1>10, Zenon DEF HasFields
<1>12. j_imm(w) = imm
  BY <1>3, <1>11, ImmediateJ, Zenon
<1>13. Decode(w) = DecodeAs(opcode, w)
  BY <1>11, Zenon DEF Decode
<1>14. DecodeAs(opcode, w) = i
  BY <1>2, <1>11, <1>12, Zenon DEF ReadsJ
<1> QED  BY <1>7, <1>13, <1>14, Zenon

\* An upper immediate, over rd and the opcode.
LEMMA DecodesU ==
  ASSUME NEW opcode \in 0..127, NEW funct, NEW f3, NEW op, ReadsU(opcode, op)
  PROVE  Inverts("U", opcode, funct, f3, op)
<1>1. SUFFICES ASSUME NEW i, IsOf("U", op, i)
               PROVE  Decode(EncodeAs("U", opcode, funct, f3, i)) = i
  BY DEF Inverts
<1>2. PICK rd \in 0..31, imm \in Upper20 : i = Ins(op, rd, 0, 0, imm)
  BY <1>1, FormatFields, FormatImmediates, Zenon DEF IsOf
<1>3. PICK k \in Int : imm = 4096 * k
  BY SMT DEF Upper20
<1> DEFINE w == imm + rd * 2^7 + opcode
           q == (k * 32) + rd
           r == (rd * 128) + opcode
<1>5. EncodeAs("U", opcode, funct, f3, i) = i.imm + i.rd * 2^7 + opcode
  BY ONLY SMT DEF EncodeAs
<1>6. i.rd = rd /\ i.imm = imm
  BY <1>2, SMT DEF Ins
<1>7. EncodeAs("U", opcode, funct, f3, i) = w
  BY ONLY <1>5, <1>6, SMT
<1>8. w \in Int
  BY <1>3, SMT
<1>9. /\ w = (q * 128) + opcode /\ q \in Int /\ opcode \in Int /\ 0 <= opcode /\ opcode < 128
      /\ w = (k * 4096) + r /\ k \in Int /\ r \in Int /\ 0 <= r /\ r < 4096
      /\ q = (k * 32) + rd /\ rd \in Int /\ 0 <= rd /\ rd < 32
      /\ w - r = imm
  BY <1>3, SMT
<1> HIDE DEF q, r, w
<1>10. w % 128 = opcode /\ w \div 128 = q
  BY ONLY <1>9, Parts, SMT
<1>11. q % 32 = rd
  BY ONLY <1>9, Parts, SMT
<1>12. w % 4096 = r
  BY ONLY <1>9, Parts, SMT
<1>13. Rd(w) = rd
  BY ONLY <1>10, <1>11, SMT DEF Rd, Bits
<1>14. u_imm(w) = imm
  BY ONLY <1>9, <1>12, SMT DEF u_imm
<1>15. Decode(w) = DecodeAs(opcode, w)
  BY ONLY <1>10, SMT DEF Decode
<1>16. DecodeAs(opcode, w) = i
  BY <1>2, <1>8, <1>13, <1>14, SMT DEF ReadsU
<1> QED  BY ONLY <1>7, <1>15, <1>16, SMT

--------------------------------------------------------------------------------
(* The rows of the reference, in the decoder.                              *)

\* What the opcode chooses (decode.rs 179-391).
LEMMA Dispatch ==
  ASSUME NEW w
  PROVE  /\ DecodeAs(51, w) = DecodeReg(w, RegTable(Funct7(w)))
         /\ DecodeAs(59, w) = DecodeReg(w, RegTableW(Funct7(w)))
         /\ DecodeAs(19, w) = DecodeImm(w)
         /\ DecodeAs(27, w) = DecodeImmW(w)
         /\ DecodeAs(3, w) = DecodeLoad(w, LoadTable)
         /\ DecodeAs(7, w) = DecodeLoad(w, FLoadTable)
         /\ DecodeAs(35, w) = DecodeStore(w, StoreTable)
         /\ DecodeAs(39, w) = DecodeStore(w, FStoreTable)
         /\ DecodeAs(111, w) = Ins("jal", Rd(w), 0, 0, j_imm(w))
         /\ DecodeAs(103, w) = Ins("jalr", Rd(w), Rs1(w), 0, i_imm(w))
         /\ DecodeAs(55, w) = Ins("lui", Rd(w), 0, 0, u_imm(w))
         /\ DecodeAs(23, w) = Ins("auipc", Rd(w), 0, 0, u_imm(w))
         /\ DecodeAs(47, w) = DecodeAtomic(w)
         /\ DecodeAs(115, w) = DecodeSystem(w)
BY SMT DEF DecodeAs

\* The number of an operation in a row is one more than its funct3.
LEMMA NumberInRow ==
  ASSUME NEW l \in 1..8, NEW k \in 1..l
  PROVE  k - 1 \in 0..7 /\ k - 1 < l /\ (k - 1) + 1 = k
<1>1. k - 1 \in 0..7
  BY SMT
<1>2. k - 1 < l /\ (k - 1) + 1 = k
  BY SMT
<1> QED  BY <1>1, <1>2

\* What a word stands for whose funct3 has an operation in a table.
LEMMA Looked ==
  ASSUME NEW ops, Len(ops) \in 1..8, NEW k \in 1..Len(ops), ops[k] # "-",
         NEW w, Funct3(w) = k - 1
  PROVE  /\ k - 1 \in 0..7
         /\ DecodeReg(w, ops) = Ins(ops[k], Rd(w), Rs1(w), Rs2(w), 0)
         /\ DecodeLoad(w, ops) = Ins(ops[k], Rd(w), Rs1(w), 0, i_imm(w))
         /\ DecodeStore(w, ops) = Ins(ops[k], 0, Rs1(w), Rs2(w), s_imm(w))
<1>1. k - 1 \in 0..7 /\ k - 1 < Len(ops) /\ (k - 1) + 1 = k
  BY NumberInRow, Zenon
<1>2. Funct3(w) < Len(ops) /\ ops[Funct3(w) + 1] = ops[k]
  BY <1>1, Zenon
<1>3. /\ DecodeReg(w, ops) = Ins(ops[k], Rd(w), Rs1(w), Rs2(w), 0)
      /\ DecodeLoad(w, ops) = Ins(ops[k], Rd(w), Rs1(w), 0, i_imm(w))
      /\ DecodeStore(w, ops) = Ins(ops[k], 0, Rs1(w), Rs2(w), s_imm(w))
  BY <1>2, Zenon DEF DecodeReg, DecodeLoad, DecodeStore, Look
<1> QED  BY <1>1, <1>3, Zenon

\* The operations of a row are decoded as they were encoded.
RowInverts(r) ==
    \A k \in 1..Len(r.ops) : r.ops[k] # "-" =>
        Inverts(r.format, r.opcode, r.funct, k - 1, r.ops[k])

\* The operations of a row that is given by its parts.
LEMMA InRow ==
  ASSUME NEW format, NEW opcode, NEW funct, NEW ops,
         \A k \in 1..Len(ops) : ops[k] # "-" => Inverts(format, opcode, funct, k - 1, ops[k])
  PROVE  RowInverts(Row(format, opcode, funct, ops))
<1> DEFINE r == Row(format, opcode, funct, ops)
<1>1. r.format = format /\ r.funct = funct /\ r.ops = ops /\ r.opcode = opcode
  BY SMT DEF Row
<1> HIDE DEF r
<1> QED  BY <1>1, Zenon DEF RowInverts, r

\* Every row of the register operations stands in the decoder's table.
LEMMA RegRowsAre ==
  ASSUME NEW r \in RegRows
  PROVE  \E funct \in {0, 1, 32} : \/ r = Row("R", 51, funct, RegTable(funct))
                                   \/ r = Row("R", 59, funct, RegTableW(funct))
<1>1. /\ RegTable(0) = <<"add", "sll", "slt", "sltu", "xor", "srl", "or", "and">>
      /\ RegTable(1) = <<"mul", "mulh", "mulhsu", "mulhu", "div", "divu", "rem", "remu">>
      /\ RegTable(32) = <<"sub", "-", "-", "-", "-", "sra">>
      /\ RegTableW(0) = <<"addw", "sllw", "-", "-", "-", "srlw">>
      /\ RegTableW(1) = <<"mulw", "-", "-", "-", "divw", "divuw", "remw", "remuw">>
      /\ RegTableW(32) = <<"subw", "-", "-", "-", "-", "sraw">>
  BY SMT DEF RegTable, RegTableW
<1>2. \/ r = Row("R", 51, 0, RegTable(0)) \/ r = Row("R", 51, 1, RegTable(1))
      \/ r = Row("R", 51, 32, RegTable(32))
      \/ r = Row("R", 59, 0, RegTableW(0)) \/ r = Row("R", 59, 1, RegTableW(1))
      \/ r = Row("R", 59, 32, RegTableW(32))
  BY <1>1, Zenon DEF RegRows
<1>3. 0 \in {0, 1, 32} /\ 1 \in {0, 1, 32} /\ 32 \in {0, 1, 32}
  OBVIOUS
<1> QED  BY <1>2, <1>3, Zenon

\* At most one operation for each funct3.
LEMMA TableSizes ==
  ASSUME NEW funct \in {0, 1, 32}
  PROVE  Len(RegTable(funct)) \in 1..8 /\ Len(RegTableW(funct)) \in 1..8
<1>1. /\ Len(RegTable(0)) = 8 /\ Len(RegTable(1)) = 8 /\ Len(RegTable(32)) = 6
      /\ Len(RegTableW(0)) = 6 /\ Len(RegTableW(1)) = 8 /\ Len(RegTableW(32)) = 6
  BY SMT DEF RegTable, RegTableW
<1>2. 8 \in 1..8 /\ 6 \in 1..8
  BY SMT
<1>3. funct = 0 \/ funct = 1 \/ funct = 32
  OBVIOUS
<1> QED  BY <1>1, <1>2, <1>3, Zenon

\* Register operations ...
LEMMA RegRowsInvert ==
  ASSUME NEW r \in RegRows
  PROVE  RowInverts(r)
<1>1. PICK funct \in {0, 1, 32} : \/ r = Row("R", 51, funct, RegTable(funct))
                                  \/ r = Row("R", 59, funct, RegTableW(funct))
  BY RegRowsAre, Zenon
<1>2. PICK ops, opcode : /\ r = Row("R", opcode, funct, ops)
                         /\ \/ opcode = 51 /\ ops = RegTable(funct)
                            \/ opcode = 59 /\ ops = RegTableW(funct)
  BY <1>1, Zenon
<1>4. SUFFICES ASSUME NEW k \in 1..Len(ops), ops[k] # "-"
               PROVE  Inverts("R", opcode, funct, k - 1, ops[k])
  BY <1>2, InRow, Zenon
<1>5. Len(ops) \in 1..8
  BY <1>2, TableSizes, Zenon
<1>6. k - 1 \in 0..7
  BY <1>5, NumberInRow, Zenon
<1>7. opcode \in 0..127
  BY ONLY <1>2, SMT
<1>8. funct \in 0..127
  <2>1. funct \in {0, 1, 32}
    OBVIOUS
  <2> QED  BY ONLY <2>1, SMT
<1>9. ASSUME NEW w \in Int, Funct7(w) = funct
      PROVE  DecodeAs(opcode, w) = DecodeReg(w, ops)
  <2>1. /\ DecodeAs(51, w) = DecodeReg(w, RegTable(Funct7(w)))
        /\ DecodeAs(59, w) = DecodeReg(w, RegTableW(Funct7(w)))
    BY Dispatch, Zenon
  <2> QED  BY <1>2, <1>9, <2>1, Zenon
<1>10. ASSUME NEW w \in Int, Funct3(w) = k - 1
       PROVE  DecodeReg(w, ops) = Ins(ops[k], Rd(w), Rs1(w), Rs2(w), 0)
  BY <1>4, <1>5, <1>10, Looked, Zenon
<1>11. ReadsR(opcode, funct, k - 1, ops[k])
  BY <1>9, <1>10, Zenon DEF ReadsR
<1> QED  BY <1>6, <1>7, <1>8, <1>11, DecodesR, Zenon

\* A row read with an immediate, from the words of its opcode.
LEMMA RowInvertsI ==
  ASSUME NEW opcode \in 0..127, NEW ops, Len(ops) \in 1..8,
         NEW r, r = Row("I", opcode, 0, ops),
         \A w \in Int : \A k \in 1..Len(ops) :
             Funct3(w) = k - 1 /\ ops[k] # "-"
                 => DecodeAs(opcode, w) = Ins(ops[k], Rd(w), Rs1(w), 0, i_imm(w))
  PROVE  RowInverts(r)
<1>2. SUFFICES ASSUME NEW k \in 1..Len(ops), ops[k] # "-"
               PROVE  Inverts("I", opcode, 0, k - 1, ops[k])
  BY InRow, Zenon
<1>3. k - 1 \in 0..7
  BY NumberInRow, Zenon
<1>4. ReadsI(opcode, k - 1, ops[k])
  BY <1>2, Zenon DEF ReadsI
<1> QED  BY <1>3, <1>4, DecodesI, Zenon

\* ... those with an immediate, loads and jalr ...
LEMMA ImmRowsInvert ==
  ASSUME NEW r \in ImmRows
  PROVE  RowInverts(r)
<1> DEFINE Reads(opcode, ops) ==
        \A w \in Int : \A k \in 1..Len(ops) :
            Funct3(w) = k - 1 /\ ops[k] # "-"
                => DecodeAs(opcode, w) = Ins(ops[k], Rd(w), Rs1(w), 0, i_imm(w))
<1>1. PICK opcode, ops : /\ opcode \in 0..127
                         /\ r = Row("I", opcode, 0, ops)
                         /\ Len(ops) \in 1..8 /\ Reads(opcode, ops)
  <2> DEFINE G(opcode, ops) == opcode \in 0..127 /\ Len(ops) \in 1..8 /\ Reads(opcode, ops)
  <2>1. G(19, ImmTable)
    <3>1. 19 \in 0..127 /\ Len(ImmTable) \in 1..8
      BY SMT DEF ImmTable
    <3>2. ASSUME NEW w \in Int, NEW k \in 1..Len(ImmTable), Funct3(w) = k - 1, ImmTable[k] # "-"
          PROVE  DecodeAs(19, w) = Ins(ImmTable[k], Rd(w), Rs1(w), 0, i_imm(w))
      <4>1. Funct3(w) \notin {1, 5} /\ Funct3(w) + 1 = k
        BY <3>2, SMT DEF ImmTable
      <4>2. DecodeImm(w) = Ins(ImmTable[k], Rd(w), Rs1(w), 0, i_imm(w))
        BY <4>1, Zenon DEF DecodeImm
      <4> QED  BY <4>2, Dispatch, Zenon
    <3> QED  BY <3>1, <3>2, Zenon
  <2>2. G(27, <<"addiw">>)
    <3>1. 27 \in 0..127 /\ Len(<<"addiw">>) \in 1..8
      BY SMT
    <3>2. ASSUME NEW w \in Int, NEW k \in 1..Len(<<"addiw">>), Funct3(w) = k - 1
          PROVE  DecodeAs(27, w) = Ins(<<"addiw">>[k], Rd(w), Rs1(w), 0, i_imm(w))
      <4>1. k = 1 /\ Funct3(w) = 0 /\ <<"addiw">>[k] = "addiw"
        BY <3>2, SMT
      <4>2. DecodeImmW(w) = Ins("addiw", Rd(w), Rs1(w), 0, i_imm(w))
        BY <4>1, Zenon DEF DecodeImmW
      <4> QED  BY <4>1, <4>2, Dispatch, Zenon
    <3> QED  BY <3>1, <3>2, Zenon
  <2>3. G(3, LoadTable)
    <3>1. 3 \in 0..127 /\ Len(LoadTable) \in 1..8
      BY SMT DEF LoadTable
    <3>2. ASSUME NEW w \in Int, NEW k \in 1..Len(LoadTable), Funct3(w) = k - 1, LoadTable[k] # "-"
          PROVE  DecodeAs(3, w) = Ins(LoadTable[k], Rd(w), Rs1(w), 0, i_imm(w))
      <4>1. DecodeLoad(w, LoadTable) = Ins(LoadTable[k], Rd(w), Rs1(w), 0, i_imm(w))
        BY <3>1, <3>2, Looked, Zenon
      <4> QED  BY <4>1, Dispatch, Zenon
    <3> QED  BY <3>1, <3>2, Zenon
  <2>4. G(7, FLoadTable)
    <3>1. 7 \in 0..127 /\ Len(FLoadTable) \in 1..8
      BY SMT DEF FLoadTable
    <3>2. ASSUME NEW w \in Int, NEW k \in 1..Len(FLoadTable), Funct3(w) = k - 1, FLoadTable[k] # "-"
          PROVE  DecodeAs(7, w) = Ins(FLoadTable[k], Rd(w), Rs1(w), 0, i_imm(w))
      <4>1. DecodeLoad(w, FLoadTable) = Ins(FLoadTable[k], Rd(w), Rs1(w), 0, i_imm(w))
        BY <3>1, <3>2, Looked, Zenon
      <4> QED  BY <4>1, Dispatch, Zenon
    <3> QED  BY <3>1, <3>2, Zenon
  <2>5. G(103, <<"jalr">>)
    <3>1. 103 \in 0..127 /\ Len(<<"jalr">>) \in 1..8
      BY SMT
    <3>2. ASSUME NEW w \in Int, NEW k \in 1..Len(<<"jalr">>), Funct3(w) = k - 1
          PROVE  DecodeAs(103, w) = Ins(<<"jalr">>[k], Rd(w), Rs1(w), 0, i_imm(w))
      <4>1. <<"jalr">>[k] = "jalr"
        BY <3>2, SMT
      <4> QED  BY <4>1, Dispatch, Zenon
    <3> QED  BY <3>1, <3>2, Zenon
  <2>6. \/ r = Row("I", 19, 0, ImmTable)     \/ r = Row("I", 27, 0, <<"addiw">>)
        \/ r = Row("I", 3, 0, LoadTable)     \/ r = Row("I", 7, 0, FLoadTable)
        \/ r = Row("I", 103, 0, <<"jalr">>)
    BY Zenon DEF ImmRows, ImmTable, LoadTable, FLoadTable
  <2> HIDE DEF Reads
  <2> QED  BY <2>1, <2>2, <2>3, <2>4, <2>5, <2>6, Zenon
<1> QED  BY <1>1, RowInvertsI, Zenon

\* ... shifts, told apart by a bit of the immediate ...
LEMMA ShiftRowsInvert ==
  ASSUME NEW r \in ShiftRows
  PROVE  RowInverts(r)
<1>1. /\ ReadsShift(19, 0, 1, "slli", 6) /\ ReadsShift(19, 0, 5, "srli", 6)
      /\ ReadsShift(19, 1, 5, "srai", 6)
      /\ ReadsShift(27, 0, 1, "slliw", 5) /\ ReadsShift(27, 0, 5, "srliw", 5)
      /\ ReadsShift(27, 1, 5, "sraiw", 5)
  <2>1. ASSUME NEW w \in Int, Funct3(w) \in {1, 5}
        PROVE  /\ DecodeAs(19, w) = Shifts(w, "slli", "srli", "srai", 6)
               /\ DecodeAs(27, w) = Shifts(w, "slliw", "srliw", "sraiw", 5)
    <3>1. Funct3(w) # 0
      BY <2>1, SMT
    <3>2. /\ DecodeImm(w) = Shifts(w, "slli", "srli", "srai", 6)
          /\ DecodeImmW(w) = Shifts(w, "slliw", "srliw", "sraiw", 5)
      BY <2>1, <3>1, Zenon DEF DecodeImm, DecodeImmW
    <3> QED  BY <3>2, Dispatch, Zenon
  <2>2. 1 \in {1, 5} /\ 5 \in {1, 5} /\ 1 # 5 /\ 0 # 1
    BY SMT
  <2> QED  BY <2>1, <2>2, Zenon DEF ReadsShift, Shifts
<1>2. /\ Inverts("shift", 19, 0, 1, "slli") /\ Inverts("shift", 19, 0, 5, "srli")
      /\ Inverts("shift", 19, 32, 5, "srai")
      /\ Inverts("shiftw", 27, 0, 1, "slliw") /\ Inverts("shiftw", 27, 0, 5, "srliw")
      /\ Inverts("shiftw", 27, 32, 5, "sraiw")
  <2>1. /\ 19 \in 0..127 /\ 27 \in 0..127 /\ 1 \in 0..7 /\ 5 \in 0..7 /\ 32 * 0 = 0 /\ 32 * 1 = 32
        /\ 0 \in {0, 1} /\ 1 \in {0, 1}
    BY SMT
  <2>2. Inverts("shift", 19, 32 * 0, 1, "slli") /\ Inverts("shift", 19, 32 * 0, 5, "srli")
    BY <1>1, <2>1, DecodesShifts, Zenon
  <2>3. Inverts("shift", 19, 32 * 1, 5, "srai") /\ Inverts("shiftw", 27, 32 * 1, 5, "sraiw")
    BY <1>1, <2>1, DecodesShifts, Zenon
  <2>4. Inverts("shiftw", 27, 32 * 0, 1, "slliw") /\ Inverts("shiftw", 27, 32 * 0, 5, "srliw")
    BY <1>1, <2>1, DecodesShifts, Zenon
  <2> QED  BY <2>1, <2>2, <2>3, <2>4, Zenon
<1>3. CASE r = Row("shift", 19, 0, <<"-", "slli", "-", "-", "-", "srli">>)
  BY <1>2, <1>3, SMT DEF RowInverts, Row
<1>4. CASE r = Row("shift", 19, 32, <<"-", "-", "-", "-", "-", "srai">>)
  BY <1>2, <1>4, SMT DEF RowInverts, Row
<1>5. CASE r = Row("shiftw", 27, 0, <<"-", "slliw", "-", "-", "-", "srliw">>)
  BY <1>2, <1>5, SMT DEF RowInverts, Row
<1>6. CASE r = Row("shiftw", 27, 32, <<"-", "-", "-", "-", "-", "sraiw">>)
  BY <1>2, <1>6, SMT DEF RowInverts, Row
<1> QED  BY <1>3, <1>4, <1>5, <1>6, Zenon DEF ShiftRows

\* ... stores and branches ...
LEMMA StoreBranchRowsInvert ==
  ASSUME NEW r \in StoreBranchRows
  PROVE  RowInverts(r)
<1>1. /\ Len(StoreTable) \in 1..8 /\ Len(FStoreTable) \in 1..8 /\ Len(BranchTable) \in 1..8
      /\ 35 \in 0..127 /\ 39 \in 0..127 /\ 99 \in 0..127
  BY SMT DEF StoreTable, FStoreTable, BranchTable
<1>2. ASSUME NEW opcode, NEW ops, \/ opcode = 35 /\ ops = StoreTable
                                  \/ opcode = 39 /\ ops = FStoreTable
      PROVE  RowInverts(Row("S", opcode, 0, ops))
  <2>1. SUFFICES ASSUME NEW k \in 1..Len(ops), ops[k] # "-"
                 PROVE  Inverts("S", opcode, 0, k - 1, ops[k])
    BY InRow, Zenon
  <2>2. Len(ops) \in 1..8 /\ opcode \in 0..127
    BY <1>1, <1>2, SMT
  <2>3. k - 1 \in 0..7
    BY <2>2, NumberInRow, Zenon
  <2>4. ASSUME NEW w \in Int, Funct3(w) = k - 1
        PROVE  DecodeAs(opcode, w) = Ins(ops[k], 0, Rs1(w), Rs2(w), s_imm(w))
    <3>1. DecodeStore(w, ops) = Ins(ops[k], 0, Rs1(w), Rs2(w), s_imm(w))
      BY <2>1, <2>2, <2>4, Looked, Zenon
    <3>2. /\ DecodeAs(35, w) = DecodeStore(w, StoreTable)
          /\ DecodeAs(39, w) = DecodeStore(w, FStoreTable)
      BY Dispatch, Zenon
    <3> QED  BY <1>2, <3>1, <3>2, Zenon
  <2>5. ReadsS(opcode, k - 1, ops[k])
    BY <2>4, Zenon DEF ReadsS
  <2> QED  BY <2>2, <2>3, <2>5, DecodesS, Zenon
<1>3. ASSUME NEW ops, ops = BranchTable
      PROVE  RowInverts(Row("B", 99, 0, ops))
  <2>1. SUFFICES ASSUME NEW k \in 1..Len(ops), ops[k] # "-"
                 PROVE  Inverts("B", 99, 0, k - 1, ops[k])
    BY InRow, Zenon
  <2>2. Len(ops) \in 1..8
    BY <1>1, <1>3, Zenon
  <2>3. k - 1 \in 0..7 /\ k - 1 < Len(ops) /\ (k - 1) + 1 = k
    BY <2>2, NumberInRow, Zenon
  <2>4. ASSUME NEW w \in Int, Funct3(w) = k - 1
        PROVE  DecodeAs(99, w) = Ins(ops[k], 0, Rs1(w), Rs2(w), b_imm(w))
    <3>1. Funct3(w) < Len(ops) /\ ops[Funct3(w) + 1] = ops[k]
      BY <2>3, <2>4, Zenon
    <3>2. Look(ops, Funct3(w), LAMBDA op : Ins(op, 0, Rs1(w), Rs2(w), b_imm(w)))
            = Ins(ops[k], 0, Rs1(w), Rs2(w), b_imm(w))
      BY <2>1, <3>1, Zenon DEF Look
    <3>3. DecodeAs(99, w) = Look(BranchTable, Funct3(w), LAMBDA op :
                                 Ins(op, 0, Rs1(w), Rs2(w), b_imm(w)))
      BY ONLY SMT DEF DecodeAs
    <3> QED  BY <1>3, <3>2, <3>3, Zenon
  <2>5. ReadsB(99, k - 1, ops[k])
    BY <2>4, Zenon DEF ReadsB
  <2> QED  BY <1>1, <2>3, <2>5, DecodesB, Zenon
<1>4. \/ r = Row("S", 35, 0, StoreTable) \/ r = Row("S", 39, 0, FStoreTable)
      \/ r = Row("B", 99, 0, BranchTable)
  BY Zenon DEF StoreBranchRows, StoreTable, FStoreTable, BranchTable
<1> QED  BY <1>2, <1>3, <1>4, Zenon

\* ... lui, auipc and jal ...
LEMMA UpperJumpRowsInvert ==
  ASSUME NEW r \in UpperJumpRows
  PROVE  RowInverts(r)
<1>1. 55 \in 0..127 /\ 23 \in 0..127 /\ 111 \in 0..127
  BY SMT
<1>2. ReadsU(55, "lui") /\ ReadsU(23, "auipc") /\ ReadsJ(111, "jal")
  BY Dispatch, Zenon DEF ReadsU, ReadsJ
<1>3. /\ Inverts("U", 55, 0, 0, "lui") /\ Inverts("U", 23, 0, 0, "auipc")
      /\ Inverts("J", 111, 0, 0, "jal")
  BY <1>1, <1>2, DecodesU, DecodesJ, Zenon
<1>4. CASE r = Row("U", 55, 0, <<"lui">>)
  BY <1>3, <1>4, SMT DEF RowInverts, Row
<1>5. CASE r = Row("U", 23, 0, <<"auipc">>)
  BY <1>3, <1>5, SMT DEF RowInverts, Row
<1>6. CASE r = Row("J", 111, 0, <<"jal">>)
  BY <1>3, <1>6, SMT DEF RowInverts, Row
<1> QED  BY <1>4, <1>5, <1>6, Zenon DEF UpperJumpRows

\* ... CSR and privileged instructions, which share an opcode ...
LEMMA SystemRowsInvert ==
  ASSUME NEW r \in SystemRows
  PROVE  RowInverts(r)
<1>1. ASSUME NEW ops, ops = CsrTable
      PROVE  RowInverts(Row("csr", 115, 0, ops))
  <2>1. SUFFICES ASSUME NEW k \in 1..Len(ops), ops[k] # "-"
                 PROVE  Inverts("csr", 115, 0, k - 1, ops[k])
    BY InRow, Zenon
  <2>2. Len(ops) \in 1..8
    BY <1>1, SMT DEF CsrTable
  <2>3. k - 1 \in 0..7 /\ k - 1 < Len(ops) /\ (k - 1) + 1 = k
    BY <2>2, NumberInRow, Zenon
  <2>4. k - 1 # 0
    BY <1>1, <2>1, SMT DEF CsrTable
  <2>5. ASSUME NEW w \in Int, Funct3(w) = k - 1
        PROVE  DecodeAs(115, w) = Ins(ops[k], Rd(w), Rs1(w), 0, Csr(w))
    <3>1. Funct3(w) < Len(ops) /\ ops[Funct3(w) + 1] = ops[k] /\ Funct3(w) # 0
      BY <2>3, <2>4, <2>5, Zenon
    <3>2. Look(ops, Funct3(w), LAMBDA op : Ins(op, Rd(w), Rs1(w), 0, Csr(w)))
            = Ins(ops[k], Rd(w), Rs1(w), 0, Csr(w))
      BY <2>1, <3>1, Zenon DEF Look
    <3>3. DecodeSystem(w) = Look(CsrTable, Funct3(w), LAMBDA op : Ins(op, Rd(w), Rs1(w), 0, Csr(w)))
      BY ONLY <3>1, SMT DEF DecodeSystem, Csr
    <3> QED  BY <1>1, <3>2, <3>3, Dispatch, Zenon
  <2>6. ReadsCsr(k - 1, ops[k])
    BY <2>5, Zenon DEF ReadsCsr
  <2> QED  BY <2>3, <2>6, DecodesCsr, Zenon
<1>2. ASSUME NEW csr \in Csr12, NEW op, ReadsPriv(csr, op)
      PROVE  RowInverts(Row("priv", 115, csr, <<op>>))
  <2>1. Inverts("priv", 115, csr, 0, op)
    BY <1>2, DecodesPriv, Zenon
  <2>2. \A k \in 1..Len(<<op>>) : k - 1 = 0 /\ <<op>>[k] = op
    BY SMT
  <2> QED  BY <2>1, <2>2, InRow, Zenon
<1>20. ASSUME NEW w, Funct3(w) = 0, Rd(w) = 0, Rs1(w) = 0
      PROVE  DecodeSystem(w) = IF PrivTable(Csr(w)) # "-"
                               THEN Ins(PrivTable(Csr(w)), 0, 0, 0, 0)
                               ELSE IF Csr(w) \div 32 = 9 THEN Ins("sfence.vma", 0, 0, 0, 0)
                               ELSE Illegal
  BY ONLY <1>20, SMT DEF DecodeSystem, Csr
<1>3. ASSUME NEW csr \in Csr12, PrivTable(csr) # "-"
      PROVE  ReadsPriv(csr, PrivTable(csr))
  <2>1. ASSUME NEW w \in Int, Funct3(w) = 0, Rd(w) = 0, Rs1(w) = 0, Csr(w) = csr
        PROVE  DecodeSystem(w) = Ins(PrivTable(csr), 0, 0, 0, 0)
    BY <1>3, <1>20, <2>1, Zenon
  <2> QED  BY <2>1, Dispatch, Zenon DEF ReadsPriv
<1>4. ASSUME NEW csr, csr = 288
      PROVE  ReadsPriv(csr, "sfence.vma")
  <2>1. PrivTable(csr) = "-" /\ csr \div 32 = 9
    BY <1>4, SMT DEF PrivTable
  <2>2. ASSUME NEW w \in Int, Funct3(w) = 0, Rd(w) = 0, Rs1(w) = 0, Csr(w) = csr
        PROVE  DecodeSystem(w) = Ins("sfence.vma", 0, 0, 0, 0)
    BY <1>20, <2>1, <2>2, Zenon
  <2> QED  BY <2>2, Dispatch, Zenon DEF ReadsPriv
<1>5. ASSUME NEW csr, csr \in {0, 1, 258, 770, 261, 288}
      PROVE  csr \in Csr12
  BY <1>5, SMT DEF Csr12
<1>6. ASSUME NEW csr, NEW op, PrivTable(csr) = op, op # "-", csr \in {0, 1, 258, 770, 261, 288}
      PROVE  RowInverts(Row("priv", 115, csr, <<op>>))
  <2>1. csr \in Csr12
    BY <1>5, <1>6, SMT
  <2>2. ReadsPriv(csr, op)
    BY <1>3, <1>6, <2>1, Zenon
  <2> QED  BY <1>2, <2>1, <2>2, Zenon
<1>7. ASSUME NEW csr, csr = 288
      PROVE  RowInverts(Row("priv", 115, csr, <<"sfence.vma">>))
  BY <1>2, <1>4, <1>5, <1>7, Zenon
<1>8. CASE r = Row("priv", 115, 0, <<"ecall">>)
  <2>1. PrivTable(0) = "ecall"
    BY SMT DEF PrivTable
  <2> QED  BY <1>6, <1>8, <2>1, SMT
<1>9. CASE r = Row("priv", 115, 1, <<"ebreak">>)
  <2>1. PrivTable(1) = "ebreak"
    BY SMT DEF PrivTable
  <2> QED  BY <1>6, <1>9, <2>1, SMT
<1>10. CASE r = Row("priv", 115, 258, <<"sret">>)
  <2>1. PrivTable(258) = "sret"
    BY SMT DEF PrivTable
  <2> QED  BY <1>6, <1>10, <2>1, SMT
<1>11. CASE r = Row("priv", 115, 770, <<"mret">>)
  <2>1. PrivTable(770) = "mret"
    BY SMT DEF PrivTable
  <2> QED  BY <1>6, <1>11, <2>1, SMT
<1>12. CASE r = Row("priv", 115, 261, <<"wfi">>)
  <2>1. PrivTable(261) = "wfi"
    BY SMT DEF PrivTable
  <2> QED  BY <1>6, <1>12, <2>1, SMT
<1>13. CASE r = Row("priv", 115, 288, <<"sfence.vma">>)
  BY <1>7, <1>13, SMT
<1>14. CASE r = Row("csr", 115, 0, CsrTable)
  BY <1>1, <1>14, SMT
<1> QED  BY <1>8, <1>9, <1>10, <1>11, <1>12, <1>13, <1>14, SMT DEF SystemRows, CsrTable

\* The atomics, by funct5; two of them are loads.
LEMMA AmoTables ==
  ASSUME NEW a \in AmoNames
  PROVE  /\ a[1] \in 0..31 /\ AtomicTable(a[1]) = <<a[2], a[3]>> /\ a[2] # "-" /\ a[3] # "-"
         /\ a[1] = 2 => a[2] = "lr.w" /\ a[3] = "lr.d"
         /\ a[1] # 2 => a[2] \notin {"lr.w", "lr.d"} /\ a[3] \notin {"lr.w", "lr.d"}
BY SMT DEF AmoNames, AtomicTable

\* Of funct7 an AMO has the upper five bits.
LEMMA Funct5 ==
  ASSUME NEW f \in 0..31, NEW w \in Int, Funct7(w) = 4 * f
  PROVE  Bits(w, 27, 4) + 16 * Bit31(w) = f
<1> DEFINE q == w \div 33554432
           l == w % 33554432
           b == Bit31(w)
           m == q % 64
           n == q \div 64
           p == f % 16
           u == f \div 16
<1>1. w = (q * 33554432) + l /\ q \in Int /\ l \in Int /\ 0 <= l /\ l < 33554432
  BY SMT
<1>2. Bits(w, 25, 6) = m /\ Bits(w, 27, 4) = (w \div 134217728) % 16
  BY SMT DEF Bits
<1>3. b \in {0, 1}
  BY SMT DEF Bit31
<1>4. m + (64 * b) = 4 * f
  BY <1>2 DEF Funct7
<1> HIDE DEF b, l
<1>5. q = (n * 64) + m /\ n \in Int /\ m \in Int /\ 0 <= m /\ m < 64
  BY <1>1, SMT
<1> HIDE DEF q, m, n
<1>6. f = (u * 16) + p /\ u \in Int /\ p \in Int /\ 0 <= p /\ p < 16
  BY SMT
<1> HIDE DEF u, p
<1>7. b = u /\ m = 4 * p
  BY ONLY <1>3, <1>4, <1>5, <1>6, SMT
<1> DEFINE s == (n * 16) + p
<1>8. w = (s * 134217728) + l /\ s \in Int /\ l \in Int /\ 0 <= l /\ l < 134217728
  BY ONLY <1>1, <1>5, <1>6, <1>7, SMT
<1>9. s = (n * 16) + p
  OBVIOUS
<1> HIDE DEF s
<1>10. w \div 134217728 = s
  BY ONLY <1>8, Parts, SMT
<1>11. s % 16 = p
  BY ONLY <1>5, <1>6, <1>9, Parts, SMT
<1> QED  BY <1>2, <1>6, <1>7, <1>10, <1>11, SMT DEF b

\* ... AMOs, lr and sc ...
LEMMA AmoRowsInvert ==
  ASSUME NEW r \in AmoRows
  PROVE  RowInverts(r)
<1>1. PICK a \in AmoNames :
          r = Row(IF a[1] = 2 THEN "lr" ELSE "R", 47, 4 * a[1], <<"-", "-", a[2], a[3]>>)
  BY DEF AmoRows
<1>2. PICK f, x, y : f = a[1] /\ x = a[2] /\ y = a[3]
  OBVIOUS
<1>3. /\ f \in 0..31 /\ AtomicTable(f) = <<x, y>> /\ x # "-" /\ y # "-"
      /\ f = 2 => x = "lr.w" /\ y = "lr.d"
      /\ f # 2 => x \notin {"lr.w", "lr.d"} /\ y \notin {"lr.w", "lr.d"}
  BY <1>2, AmoTables, SMT
<1>4. r = Row(IF f = 2 THEN "lr" ELSE "R", 47, 4 * f, <<"-", "-", x, y>>)
  BY <1>1, <1>2, Zenon
<1>5. ASSUME NEW k \in {3, 4}, NEW op, op = <<"-", "-", x, y>>[k],
             NEW w \in Int, Funct3(w) = k - 1, Funct7(w) = 4 * f
      PROVE  DecodeAs(47, w) = Ins(op, Rd(w), Rs1(w), IF f = 2 THEN 0 ELSE Rs2(w), 0)
  <2>1. Bits(w, 27, 4) + 16 * Bit31(w) = f
    BY <1>3, <1>5, Funct5, SMT
  <2>2. /\ Funct3(w) % 2 < Len(<<x, y>>) /\ <<x, y>>[(Funct3(w) % 2) + 1] = op
        /\ op # "-"
    BY <1>3, <1>5, SMT
  <2>3. IF f = 2 THEN op \in {"lr.w", "lr.d"} ELSE op \notin {"lr.w", "lr.d"}
    BY <1>3, <1>5, SMT
  <2>4. DecodeAtomic(w) = Ins(op, Rd(w), Rs1(w), IF op \in {"lr.w", "lr.d"} THEN 0 ELSE Rs2(w), 0)
    BY <1>3, <2>1, <2>2, Zenon DEF DecodeAtomic, Look
  <2> QED  BY <2>3, <2>4, Dispatch, Zenon
<1>6. 47 \in 0..127 /\ 4 * f \in 0..127
  BY <1>3, SMT
<1>7. ASSUME NEW k \in {3, 4}, NEW op, op = <<"-", "-", x, y>>[k]
      PROVE  Inverts(IF f = 2 THEN "lr" ELSE "R", 47, 4 * f, k - 1, op)
  <2>1. k - 1 \in 0..7
    BY SMT
  <2>2. CASE f = 2
    <3>1. ReadsLr(47, 4 * f, k - 1, op)
      BY <1>5, <1>7, <2>2, Zenon DEF ReadsLr
    <3> QED  BY <1>6, <2>1, <2>2, <3>1, DecodesLr, Zenon
  <2>3. CASE f # 2
    <3>1. ReadsR(47, 4 * f, k - 1, op)
      BY <1>5, <1>7, <2>3, Zenon DEF ReadsR
    <3> QED  BY <1>6, <2>1, <2>3, <3>1, DecodesR, Zenon
  <2> QED  BY <2>2, <2>3, Zenon
<1>8. ASSUME NEW k \in 1..Len(<<"-", "-", x, y>>), <<"-", "-", x, y>>[k] # "-"
      PROVE  k \in {3, 4}
  BY <1>8, SMT
<1>9. RowInverts(Row(IF f = 2 THEN "lr" ELSE "R", 47, 4 * f, <<"-", "-", x, y>>))
  BY <1>7, <1>8, InRow, Zenon
<1> QED  BY <1>4, <1>9, Zenon

--------------------------------------------------------------------------------
(* Every instruction.                                                      *)

\* ... so every row of the reference.
LEMMA RowsInvert ==
  ASSUME NEW r \in Rows
  PROVE  RowInverts(r)
BY RegRowsInvert, ImmRowsInvert, ShiftRowsInvert, StoreBranchRowsInvert, UpperJumpRowsInvert,
   SystemRowsInvert, AmoRowsInvert, Zenon DEF Rows

\* An operation's row, and its place there.
LEMMA Encoded ==
  ASSUME NEW op \in Ops
  PROVE  LET e == Encodings[op]
         IN  /\ op # "-" /\ e.row \in Rows
             /\ e.funct3 + 1 \in 1..Len(e.row.ops) /\ e.row.ops[e.funct3 + 1] = op
             /\ (e.funct3 + 1) - 1 = e.funct3
<1>1. \E r \in Rows : \E k \in 1..Len(r.ops) : r.ops[k] = op
  BY Zenon DEF Ops
<1>2. op # "-"
  BY Zenon DEF Ops
<1> DEFINE row == CHOOSE r \in Rows : \E k \in 1..Len(r.ops) : r.ops[k] = op
           k == CHOOSE n \in 1..Len(row.ops) : row.ops[n] = op
<1>3. row \in Rows /\ \E n \in 1..Len(row.ops) : row.ops[n] = op
  BY <1>1, Zenon
<1>4. Encodings[op] = [row |-> row, funct3 |-> k - 1]
  BY Zenon DEF Encodings
<1> HIDE DEF row
<1>5. k \in 1..Len(row.ops) /\ row.ops[k] = op
  BY <1>3, Zenon
<1> HIDE DEF k
<1>6. Encodings[op].row = row /\ Encodings[op].funct3 = k - 1
  BY <1>4, SMT
<1>7. (k - 1) + 1 = k
  BY <1>5, SMT
<1> QED  BY <1>2, <1>3, <1>5, <1>6, <1>7, Zenon

\* Its instructions are of its row's format.
LEMMA FormatInstructions ==
  ASSUME NEW op, NEW f, NEW R, R \subseteq 0..31, NEW I, I \subseteq Int,
         NEW i \in InstructionsOf(op, f, R, I)
  PROVE  i.op = op /\ IsOf(f, op, i)
<1>1. PICK rd \in Field(f, "rd", R), rs1 \in Field(f, "rs1", R), rs2 \in Field(f, "rs2", R),
           imm \in {v \in I : CanHold(f, v)} : i = Ins(op, rd, rs1, rs2, imm)
  BY SMT DEF InstructionsOf
<1>2. 0 \in 0..31
  BY SMT
<1>3. ASSUME NEW name, NEW x \in Field(f, name, R)
      PROVE  x \in 0..31 /\ (name \in Fields(f) \/ x = 0)
  BY <1>2, <1>3, Zenon DEF Field
<1>4. /\ rd \in 0..31 /\ rs1 \in 0..31 /\ rs2 \in 0..31 /\ imm \in Int /\ CanHold(f, imm)
      /\ "rd" \in Fields(f) \/ rd = 0
      /\ "rs1" \in Fields(f) \/ rs1 = 0
      /\ "rs2" \in Fields(f) \/ rs2 = 0
  BY <1>3, Zenon
<1>5. IsOf(f, op, i)
  BY <1>1, <1>4, Zenon DEF IsOf
<1>6. i.op = op
  BY <1>1, Zenon DEF Ins
<1> QED  BY <1>5, <1>6

\* Every instruction is decoded as it was encoded.
LEMMA Inversion ==
  ASSUME NEW R, R \subseteq 0..31, NEW I, I \subseteq Int, NEW i \in Instructions(R, I)
  PROVE  Decode(Encode(i)) = i
<1>1. PICK op \in Ops : i.op = op /\ IsOf(Encodings[op].row.format, op, i)
  <2>1. PICK op \in Ops : i \in InstructionsOf(op, Encodings[op].row.format, R, I)
    BY Zenon DEF Instructions
  <2>2. i.op = op /\ IsOf(Encodings[op].row.format, op, i)
    BY <2>1, FormatInstructions, Zenon
  <2> QED  BY <2>2, Zenon
<1> DEFINE e == Encodings[op]
           r == e.row
           k == e.funct3 + 1
<1>2. /\ op # "-" /\ r \in Rows /\ k \in 1..Len(r.ops) /\ r.ops[k] = op /\ k - 1 = e.funct3
  BY Encoded, Zenon
<1>3. Encode(i) = EncodeAs(r.format, r.opcode, r.funct, e.funct3, i)
  BY <1>1, Zenon DEF Encode
<1>4. IsOf(r.format, op, i)
  BY <1>1
<1> HIDE DEF e, r, k
<1>5. RowInverts(r)
  BY <1>2, RowsInvert, Zenon
<1>6. Inverts(r.format, r.opcode, r.funct, k - 1, r.ops[k])
  BY <1>2, <1>5, Zenon DEF RowInverts
<1>7. Inverts(r.format, r.opcode, r.funct, e.funct3, op)
  BY <1>2, <1>6, Zenon
<1> QED  BY <1>3, <1>4, <1>7, Zenon DEF Inverts

--------------------------------------------------------------------------------
(* The theorems.                                                            *)

\* A unit has an input of its own or none.
OwnInput ==
  \/ input = NoInput
  \/ unit = "execute" /\ input \in Operands
  \/ unit = "amo" /\ input \in AtomicInputs
  \/ unit = "access" /\ input \in Accesses
  \/ unit = "csr" /\ input \in CsrAccesses
  \/ unit = "encode" /\ input \in Instructions(EncodeRegs, EncodeImms)

\* It is an invariant, and all the properties need.
LEMMA InputsKept == PlainSpec => []OwnInput
<1>1. PlainInit => OwnInput
  BY DEF PlainInit, OwnInput
<1>2. OwnInput /\ [PlainNext]_units => OwnInput'
  BY DEF OwnInput, PlainNext, Execution, Atomic, MemoryAccess, CsrAccess, Encoding,
     Give, Return, units
<1> QED  BY <1>1, <1>2, PTL DEF PlainSpec

\* An access the unit is given is one of the lemmas above.
LEMMA AccessGiven ==
  ASSUME OwnInput, Given("access")
  PROVE  /\ IsAccess(input)
         /\ Len(Payload) = input.n /\ DOMAIN Payload = 1..input.n
         /\ LET f == FetchOf(input)
            IN  f.table = input.table /\ f.mode = input.mode /\ f.va = input.va /\ f.n = 4
<1>1. input \in Accesses
  BY DEF OwnInput, Given
<1>2. /\ input.table \in PageTables /\ input.va \in AccessVas /\ input.n \in AccessSizes
      /\ FetchOf(input) = [input EXCEPT !.n = 4]
      /\ DOMAIN input = {"table", "mode", "mprv", "mpp", "va", "n"}
  BY <1>1 DEF Accesses, FetchOf
<1>3. IsAccess(input)
  BY <1>2, AccessAssumption DEF IsAccess, IsTable
<1>4. Payload = [k \in 1..input.n |-> 100 + k] /\ input.n \in Nat
  BY <1>3, RamAssumption DEF IsAccess, Payload
<1>5. Payload \in Seq(Int) /\ Len(Payload) = input.n /\ DOMAIN Payload = 1..input.n
  BY <1>4
<1> QED  BY <1>2, <1>3, <1>5

\* A load or a store touches the bytes its pages, translated one by one, say it
\* should, for pages of any size, any table and any RAM of whole pages; a page fault
\* on either page is taken before any byte is touched (execute.rs 54-123).
THEOREM AccessesTranslated == PlainSpec => []AccessTranslated
<1>1. OwnInput => AccessTranslated
  <2> SUFFICES ASSUME OwnInput, Given("access")
               PROVE  LoadTranslated(input) /\ StoreTranslated(input, Payload)
    BY DEF AccessTranslated
  <2> QED  BY AccessGiven, LoadIsTranslated, StoreIsTranslated
<1> QED  BY <1>1, InputsKept, PTL

\* A compiled access has the interpreter's outcome whenever it is not excepted, which
\* is under MPRV and across pages that are not neighbours in memory (jit.rs 17-135,
\* 775-785).
THEOREM CompiledAccessesAgree == PlainSpec => []CompiledAccessAgrees
<1>1. OwnInput => CompiledAccessAgrees
  <2> SUFFICES ASSUME OwnInput, Given("access")
               PROVE  /\ ~Excepted(input, "load") => CompiledLoad(input)
                           = mmu_load(input.table, ls_mode(input), input.va, input.n)
                      /\ ~Excepted(input, "store") => CompiledStore(input, Payload)
                           = mmu_store(input.table, ls_mode(input), input.va, Payload)
                      /\ ~Excepted(FetchOf(input), "fetch") =>
                           CompiledFetch(input) = fetch(input.table, input.mode, input.va)
    BY DEF CompiledAccessAgrees
  <2>1. /\ IsAccess(input) /\ IsTable(input.table) /\ input.va \in Nat
        /\ Len(Payload) = input.n /\ DOMAIN Payload = 1..input.n
    BY AccessGiven DEF IsAccess
  <2>2. ~Excepted(input, "load") => CompiledLoad(input)
          = mmu_load(input.table, ls_mode(input), input.va, input.n)
    BY <2>1, LoadsAgree
  <2>3. ~Excepted(input, "store") => CompiledStore(input, Payload)
          = mmu_store(input.table, ls_mode(input), input.va, Payload)
    BY <2>1, StoresAgree
  <2>4. ~Excepted(FetchOf(input), "fetch") =>
          CompiledFetch(input) = fetch(input.table, input.mode, input.va)
    BY <2>1, AccessGiven, FetchesAgree
  <2> QED  BY <2>2, <2>3, <2>4
<1> QED  BY <1>1, InputsKept, PTL

\* A CSR instruction changes the named register alone, in the bits its operand names,
\* and none of the machine's through a supervisor's view (csr.rs 54-178, execute.rs
\* 627-696).
THEOREM ViewsIsolated == PlainSpec => []CsrViewsIsolated
<1>1. OwnInput => CsrViewsIsolated
  <2> SUFFICES ASSUME OwnInput, Given("csr"), NEW op \in {"w", "s", "c"},
                      NEW rd0 \in BOOLEAN, NEW src0 \in BOOLEAN, src0 => input.value = {}
               PROVE  AccessIsolated([op |-> op, csr |-> input.csr,
                                      rd0 |-> rd0, src0 |-> src0],
                                     input.mode, [r \in Registers |-> input.old], input.value)
    BY DEF CsrViewsIsolated
  <2> DEFINE s == [r \in Registers |-> input.old]
  <2>1. input \in CsrAccesses
    BY DEF OwnInput, Given
  <2>2. input.csr \in CsrNames /\ input.old \in CsrContents
    BY <2>1 DEF CsrAccesses
  <2>3. input.old \cap (UxlSxl \cup {0}) = {}
    BY <2>2, ContentsAssumption
  <2>4. IsFile(s)
    BY <2>3 DEF IsFile, Registers
  <2> HIDE DEF s
  <2>5. AccessIsolated([op |-> op, csr |-> input.csr, rd0 |-> rd0, src0 |-> src0],
                       input.mode, s, input.value)
    BY <2>2, <2>4, Isolated
  <2> QED  BY <2>5 DEF s
<1> QED  BY <1>1, InputsKept, PTL

\* Divisions and products are those of the integers, with the ISA's overflow and zero
\* divisor, for all operands of registers of 64 bits as of 4 (execute.rs 681-797).
THEOREM DivisionsAndProducts == PlainSpec => []DivisionAndProduct
<1>1. OwnInput => DivisionAndProduct
  <2> SUFFICES ASSUME OwnInput, Given("execute")
               PROVE  DivisionAndProduct
    BY DEF DivisionAndProduct
  <2> DEFINE a == input.a
             b == input.b
  <2>1. input \in Operands
    BY DEF OwnInput, Given
  <2>2. a \in Word /\ b \in Word
    BY <2>1, OperandAssumption DEF Operands
  <2> HIDE DEF a, b
  <2>3. /\ Divides(XLEN, Signed(a), Signed(b),
                   Signed(Divide("div", a, b)), Signed(Divide("rem", a, b)))
        /\ DividesUnsigned(XLEN, a, b, Divide("divu", a, b), Divide("remu", a, b))
    BY <2>2, SignedDivision, UnsignedDivisionX
  <2>4. /\ Divides(WLEN, SignedW(a), SignedW(b),
                   Signed(DivideW("divw", a, b)), Signed(DivideW("remw", a, b)))
        /\ DividesUnsigned(WLEN, Low(a), Low(b),
                           Low(DivideW("divuw", a, b)), Low(DivideW("remuw", a, b)))
    BY <2>2, SignedDivisionW, UnsignedDivisionW
  <2>5. \A op \in DivOpsW : DivideW(op, a, b) = SextW(DivideW(op, a, b))
    BY <2>2, ExtendedW
  <2>6. LET low == Multiply("mul", a, b)
        IN  /\ Signed(a) * Signed(b) = Signed(Multiply("mulh", a, b)) * Modulus + low
            /\ Signed(a) * b = Signed(Multiply("mulhsu", a, b)) * Modulus + low
            /\ a * b = Multiply("mulhu", a, b) * Modulus + low
            /\ Multiply("mulw", a, b) = SextW(low)
    BY <2>2, MultiplyProducts, Zenon
  <2> QED  BY <2>3, <2>4, <2>5, <2>6, Zenon DEF DivisionAndProduct, a, b
<1> QED  BY <1>1, InputsKept, PTL

\* The AMOs store and return what the ISA says, for all operands and widths: a W form
\* compares words, not the sign-extended registers, and leaves the rest of the
\* doubleword alone; a refused access stores nothing (execute.rs 847-1014).
THEOREM AmosCorrect == PlainSpec => []AmoCorrect
<1>1. OwnInput => AmoCorrect
  <2> SUFFICES ASSUME OwnInput, Given("amo"), NEW op \in AmoOps
               PROVE  LET d == Amo(op, "d", input.mem, input.src, input.ram)
                          w == Amo(op, "w", input.mem, input.src, input.ram)
                          m == input.mem
                          b == input.src
                      IN  IF input.ram
                          THEN /\ d.rd = m /\ Updates(op, XLEN, m, b, d.mem)
                               /\ w.rd = SextW(m) /\ w.mem \div WModulus = m \div WModulus
                               /\ Updates(op, WLEN, Low(m), Low(b), Low(w.mem))
                          ELSE d = [rd |-> 0, mem |-> m] /\ w = d
    BY DEF AmoCorrect
  <2>1. input \in AtomicInputs
    BY DEF OwnInput, Given
  <2>2. input.mem \in Word /\ input.src \in Word /\ input.ram \in BOOLEAN
    BY <2>1, OperandAssumption DEF AtomicInputs
  <2> QED  BY <2>2, AmosUpdate
<1> QED  BY <1>1, InputsKept, PTL

\* A compiled instruction does to registers and pc what the interpreter does, for all
\* operands, immediates, registers and widths: no division reaches a #DE of the host,
\* flags and masked shifts mean what the ISA means, a taken branch never needs the
\* check of its target that the code leaves out, loads are extended alike, jalr reads
\* its base before it writes the link, and x0 stays 0 (jit.rs 588-1502 against
\* execute.rs 137-285, 500-573 and 697-794).
THEOREM CompiledInstructionsAgree == PlainSpec => []CompiledAgrees
<1>1. OwnInput => CompiledAgrees
  <2> SUFFICES ASSUME OwnInput, Given("execute")
               PROVE  /\ \A op \in Supported, size \in {2, 4} :
                            Compiled(TheInstruction(op), size, TheMachine)
                              = Execute(TheInstruction(op), size, TheMachine)
                      /\ \A op \in Loads :
                            LET v == input.a % 2^LoadBits(op)
                            IN  EmitLoad(TheInstruction(op), TheMachine.regs, v)
                                  = SetReg(TheMachine.regs, input.rd, LoadValue(op, v))
    BY DEF CompiledAgrees
  <2> DEFINE regs == [r \in 0..2 |-> <<0, input.a, input.b>>[r + 1]]
             i(op) == [op |-> op, rd |-> input.rd, rs1 |-> input.rs1, rs2 |-> input.rs2,
                       imm |-> Immediate(op, input.b)]
  <2>1. input \in Operands
    BY DEF OwnInput, Given
  <2>2. /\ input.a \in Word /\ input.b \in Word /\ input.pc \in Word /\ input.pc % 2 = 0
        /\ input.rd \in 0..2 /\ input.rs1 \in 0..2 /\ input.rs2 \in 0..2
    BY <2>1, OperandAssumption DEF Operands
  <2>3. IsRegs(regs)
    <3>1. 0 \in Word
      BY Widths DEF Word
    <3>2. regs[0] = 0 /\ regs[1] = input.a /\ regs[2] = input.b
      OBVIOUS
    <3>3. \A r \in 0..2 : r = 0 \/ r = 1 \/ r = 2
      OBVIOUS
    <3>4. \A r \in 0..2 : regs[r] \in Word
      BY <2>2, <3>1, <3>2, <3>3
    <3> QED  BY <3>2, <3>4 DEF IsRegs
  <2>4. /\ TheMachine = [regs |-> regs, pc |-> input.pc, trapped |-> FALSE]
        /\ TheMachine.regs = regs /\ \A op : TheInstruction(op) = i(op)
    BY DEF TheMachine, TheInstruction
  <2> HIDE DEF regs
  <2>5. ASSUME NEW op \in Supported, NEW size \in {2, 4}
        PROVE  Compiled(TheInstruction(op), size, TheMachine)
                 = Execute(TheInstruction(op), size, TheMachine)
    <3>1. /\ TheInstruction(op).op = op
          /\ TheInstruction(op).rs1 \in 0..2 /\ TheInstruction(op).rs2 \in 0..2
          /\ TheInstruction(op).imm = Immediate(op, input.b)
      BY <2>2 DEF TheInstruction
    <3>2. TheMachine.pc = input.pc
      BY DEF TheMachine
    <3> QED  BY <2>2, <2>3, <2>4, <3>1, <3>2, InstructionsAgree
  <2>6. ASSUME NEW op \in Loads, NEW v
        PROVE  EmitLoad(TheInstruction(op), TheMachine.regs, v)
                 = SetReg(TheMachine.regs, input.rd, LoadValue(op, v))
    <3>1. i(op).op = op /\ i(op).rd = input.rd
      OBVIOUS
    <3> HIDE DEF i
    <3> QED  BY <2>2, <2>3, <2>4, <3>1, LoadedAlike
  <2> QED  BY <2>5, <2>6
<1> QED  BY <1>1, InputsKept, PTL

\* Every instruction comes out of its encoding with its operation, its registers and
\* its immediate, for all registers and all immediates its format can hold: no field
\* reaches into another's, wherever the bits are scattered, and no operation is taken
\* for another of its opcode (decode.rs 146-390).
THEOREM DecoderInverts == PlainSpec => []DecodeInvertsEncode
<1>1. OwnInput => DecodeInvertsEncode
  <2> SUFFICES ASSUME OwnInput, Given("encode")
               PROVE  Decode(Encode(input)) = input
    BY DEF DecodeInvertsEncode
  <2>1. input \in Instructions(EncodeRegs, EncodeImms)
    BY DEF OwnInput, Given
  <2> QED  BY <2>1, EncodeAssumption, Inversion, Zenon
<1> QED  BY <1>1, InputsKept, PTL
================================================================================
