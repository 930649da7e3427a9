---------------------------- MODULE Machines_proofs ----------------------------
(***************************************************************************)
(* The two small machines of module Units.  The UART's transmit path: what *)
(* the two matchers hold back and have seen is what was sent ends in, so   *)
(* nothing is lost, repeated or missed.  The reservation: it is always the *)
(* running thread's own, and what the thread loaded is still in memory, so *)
(* no addition is lost, for any number of threads and any mapping of their *)
(* addresses.                                                              *)
(***************************************************************************)
EXTENDS UartTx, Reservation, SequenceTheorems, FiniteSetTheorems,
        WellFoundedInduction, TLAPS

--------------------------------------------------------------------------------
(* Patterns, and where they end in a sequence.                              *)

\* A pattern whose first byte alone is ESC.
IsPattern(p) ==
  p \in Seq(Bytes) /\ Len(p) > 1 /\ p[1] = ESC /\ \A i \in 2..Len(p) : p[i] # ESC

LEMMA Patterns == IsPattern(DSR) /\ IsPattern(BPM_TARGET)
<1>1. Len(DSR) > 1
  BY MatcherAssumption
<1> QED  BY <1>1, MatcherAssumption DEF IsPattern

\* What appending a byte does to a sequence.
LEMMA AppendFacts ==
  ASSUME NEW s \in Seq(Bytes), NEW b \in Bytes
  PROVE  /\ Append(s, b) \in Seq(Bytes) /\ Len(Append(s, b)) = Len(s) + 1 /\ Len(s) \in Nat
         /\ \A i \in 1..Len(s) : Append(s, b)[i] = s[i]
         /\ Append(s, b)[Len(s) + 1] = b
  OBVIOUS

\* A match grows by the byte that follows it.
LEMMA MatchesGrow ==
  ASSUME NEW s \in Seq(Bytes), NEW b \in Bytes, NEW p, NEW d \in Nat
  PROVE  Matches(Append(s, b), p, d + 1) <=> Matches(s, p, d) /\ b = p[d + 1]
<1> DEFINE t == Append(s, b)
           n == Len(s)
<1>1. /\ n \in Nat /\ Len(t) = n + 1 /\ t[n + 1] = b
      /\ \A i \in 1..n : t[i] = s[i]
  BY AppendFacts
<1>2. Matches(t, p, d + 1) <=> d + 1 <= n + 1 /\ \A k \in 1..(d + 1) : t[(n + 1) - (d + 1) + k] = p[k]
  BY <1>1 DEF Matches
<1>3. Matches(s, p, d) <=> d <= n /\ \A k \in 1..d : s[n - d + k] = p[k]
  BY DEF Matches
<1> HIDE DEF t, n
<1>4. d <= n => \A k \in 1..d : t[(n + 1) - (d + 1) + k] = s[n - d + k]
  <2> SUFFICES ASSUME d <= n, NEW k \in 1..d PROVE t[(n + 1) - (d + 1) + k] = s[n - d + k]
    OBVIOUS
  <2>1. n - d + k \in 1..n /\ (n + 1) - (d + 1) + k = n - d + k
    BY <1>1
  <2> QED  BY <1>1, <2>1
<1>5. t[(n + 1) - (d + 1) + (d + 1)] = b
  <2>1. (n + 1) - (d + 1) + (d + 1) = n + 1
    BY <1>1
  <2> QED  BY <1>1, <2>1
<1>6. \A k : k \in 1..(d + 1) <=> k \in 1..d \/ k = d + 1
  OBVIOUS
<1>7. d + 1 <= n + 1 <=> d <= n
  BY <1>1
<1> QED  BY <1>2, <1>3, <1>4, <1>5, <1>6, <1>7, Zenon DEF t

\* A window of a sequence is a pattern when its bytes are.
LEMMA Window ==
  ASSUME NEW s \in Seq(Bytes), NEW p \in Seq(Bytes), NEW j \in Len(p)..Len(s)
  PROVE  SubSeq(s, j - Len(p) + 1, j) = p <=> \A k \in 1..Len(p) : s[j - Len(p) + k] = p[k]
<1> DEFINE m == Len(p)
           a == j - m + 1
           w == SubSeq(s, a, j)
<1>1. /\ m \in Nat /\ Len(s) \in Nat /\ j \in Int /\ a \in Int
      /\ j - a + 1 = m /\ (a <= j \/ m = 0)
      /\ m > 0 => a <= j
  OBVIOUS
<1>2. \A i \in a..j : s[i] \in Bytes
  <2>1. \A i \in a..j : i \in 1..Len(s)
    BY <1>1
  <2> QED  BY <2>1
<1> HIDE DEF a, m
<1>3. /\ w \in Seq(Bytes) /\ Len(w) = m
      /\ \A k \in 1..m : w[k] = s[a + k - 1]
  <2>1. /\ w \in Seq(Bytes) /\ Len(w) = IF a <= j THEN j - a + 1 ELSE 0
        /\ \A k \in 1..(j - a + 1) : w[k] = s[a + k - 1]
    BY ONLY <1>1, <1>2, SubSeqProperties
  <2>2. 1..(j - a + 1) = 1..m /\ (IF a <= j THEN j - a + 1 ELSE 0) = m
    BY ONLY <1>1
  <2> HIDE DEF w
  <2> QED  BY ONLY <2>1, <2>2, Zenon
<1>4. \A k \in 1..m : a + k - 1 = j - m + k
  BY <1>1 DEF a
<1> HIDE DEF w
<1>5. p \in Seq(Bytes) /\ Len(p) = m
  BY DEF m
<1>6. w = p <=> \A k \in 1..m : w[k] = p[k]
  BY <1>1, <1>3, <1>5
<1>7. w = p <=> \A k \in 1..m : s[j - m + k] = p[k]
  BY <1>3, <1>4, <1>6
<1> QED  BY <1>7 DEF w, a, m

\* Where a pattern ends, in terms of matches.
LEMMA EndsGrow ==
  ASSUME NEW s \in Seq(Bytes), NEW b \in Bytes, NEW p, IsPattern(p)
  PROVE  /\ EndsIn(s, p) \subseteq Len(p)..Len(s) /\ IsFiniteSet(EndsIn(s, p))
         /\ EndsIn(Append(s, b), p) =
              EndsIn(s, p) \cup (IF Matches(Append(s, b), p, Len(p)) THEN {Len(s) + 1} ELSE {})
<1> DEFINE t == Append(s, b)
           n == Len(s)
           m == Len(p)
<1>1. /\ n \in Nat /\ Len(t) = n + 1 /\ t \in Seq(Bytes)
      /\ \A i \in 1..n : t[i] = s[i]
      /\ p \in Seq(Bytes) /\ m \in Nat /\ m > 1
  BY AppendFacts DEF IsPattern
<1>2. EndsIn(s, p) \subseteq m..n
  BY DEF EndsIn
<1>3. IsFiniteSet(EndsIn(s, p))
  <2>1. m \in Int /\ n \in Int
    BY <1>1
  <2>2. IsFiniteSet(m..n)
    BY <2>1, FS_Interval
  <2> QED  BY <1>2, <2>2, FS_Subset
<1> HIDE DEF t, n, m
<1>4. \A j \in m..n : SubSeq(t, j - m + 1, j) = p <=> SubSeq(s, j - m + 1, j) = p
  <2> TAKE j \in m..n
  <2>1. j \in m..(n + 1)
    BY <1>1
  <2>2. \A k \in 1..m : t[j - m + k] = s[j - m + k]
    <3>1. \A k \in 1..m : j - m + k \in 1..n
      BY <1>1
    <3> QED  BY <1>1, <3>1
  <2>3. SubSeq(t, j - m + 1, j) = p <=> \A k \in 1..m : t[j - m + k] = p[k]
    BY <1>1, <2>1, Window DEF m
  <2>4. SubSeq(s, j - m + 1, j) = p <=> \A k \in 1..m : s[j - m + k] = p[k]
    BY <1>1, Window DEF m, n
  <2> QED  BY <2>2, <2>3, <2>4
<1>5. m <= n + 1 => (SubSeq(t, (n + 1) - m + 1, n + 1) = p <=> Matches(t, p, m))
  <2> SUFFICES ASSUME m <= n + 1
               PROVE  SubSeq(t, (n + 1) - m + 1, n + 1) = p <=> Matches(t, p, m)
    OBVIOUS
  <2>1. n + 1 \in m..(n + 1)
    BY <1>1
  <2>2. SubSeq(t, (n + 1) - m + 1, n + 1) = p <=> \A k \in 1..m : t[(n + 1) - m + k] = p[k]
    BY <1>1, <2>1, Window DEF m
  <2> QED  BY <1>1, <2>2 DEF Matches
<1>6. Matches(t, p, m) => m <= n + 1
  BY <1>1 DEF Matches
<1>7. /\ EndsIn(t, p) = {j \in m..(n + 1) : SubSeq(t, j - m + 1, j) = p}
      /\ EndsIn(s, p) = {j \in m..n : SubSeq(s, j - m + 1, j) = p}
  BY <1>1 DEF EndsIn, m, n
<1>8. \A j : j \in m..(n + 1) <=> j \in m..n \/ (j = n + 1 /\ m <= n + 1)
  BY <1>1
<1>9. \A j : j \in EndsIn(t, p) <=> j \in EndsIn(s, p) \/ (j = n + 1 /\ Matches(t, p, m))
  BY <1>4, <1>5, <1>6, <1>7, <1>8
<1>10. EndsIn(t, p) = EndsIn(s, p) \cup (IF Matches(t, p, m) THEN {n + 1} ELSE {})
  BY <1>9
<1> QED  BY <1>2, <1>3, <1>10 DEF t, n, m

--------------------------------------------------------------------------------
(* A matcher.                                                               *)

\* How a matcher's state moves on, whichever of the two.
Advance(state, p, b) ==
  IF b = p[state + 1] THEN (IF state + 1 = Len(p) THEN 0 ELSE state + 1)
  ELSE IF b = ESC THEN 1 ELSE 0

\* It tracks its pattern, and sees its end: no restart misses a match, since ESC
\* is nowhere but at the start of one.
LEMMA TracksStep ==
  ASSUME NEW s \in Seq(Bytes), NEW b \in Bytes, NEW p, IsPattern(p),
         NEW state, Tracks(state, s, p)
  PROVE  /\ Tracks(Advance(state, p, b), Append(s, b), p)
         /\ Matches(Append(s, b), p, Len(p)) <=> b = p[state + 1] /\ state + 1 = Len(p)
<1> DEFINE t == Append(s, b)
           m == Len(p)
           M(d) == Matches(s, p, d)
           N(d) == Matches(t, p, d)
           next == Advance(state, p, b)
<1>1. /\ m \in Nat /\ m > 1 /\ p[1] = ESC /\ \A i \in 2..m : p[i] # ESC
      /\ state \in 0..(m - 1) /\ (state = 0 \/ M(state))
      /\ \A d \in 1..(m - 1) : M(d) => state = d
  BY DEF IsPattern, Tracks
<1>2. M(0)
  BY AppendFacts DEF Matches
<1>3. \A d \in Nat : N(d + 1) <=> M(d) /\ b = p[d + 1]
  BY MatchesGrow
<1>4. \A d \in 1..m : N(d) <=> M(d - 1) /\ b = p[d]
  <2>1. \A d \in 1..m : d - 1 \in Nat /\ (d - 1) + 1 = d
    BY <1>1
  <2> HIDE DEF M, N, m
  <2> QED  BY <1>3, <2>1
<1>5. next = IF b = p[state + 1] THEN (IF state + 1 = m THEN 0 ELSE state + 1)
             ELSE IF b = ESC THEN 1 ELSE 0
  BY DEF Advance
<1> HIDE DEF t, m, M, N, next
<1>6. M(state)
  BY <1>1, <1>2
\* ... a match of d bytes now was one of d - 1 bytes before
<1>7. \A d \in 1..m : N(d) <=> b = p[d] /\ (d = 1 \/ d - 1 = state)
  <2> TAKE d \in 1..m
  <2>1. CASE d = 1
    BY <1>2, <1>4, <2>1
  <2>2. CASE d # 1
    <3>1. d - 1 \in 1..(m - 1)
      BY <1>1, <2>2
    <3>2. M(d - 1) <=> state = d - 1
      BY <1>1, <1>6, <3>1
    <3> QED  BY <1>4, <2>2, <3>2
  <2> QED  BY <2>1, <2>2
<1>8. N(m) <=> b = p[state + 1] /\ state + 1 = m
  <2>1. m \in 1..m /\ m # 1 /\ (m - 1 = state <=> state + 1 = m)
    BY <1>1
  <2> QED  BY <1>7, <2>1
<1>9. state + 1 \in 1..m /\ (state + 1) - 1 = state
  BY <1>1
<1>10. /\ next \in 0..(m - 1) /\ (next = 0 \/ N(next))
       /\ \A d \in 1..(m - 1) : N(d) => next = d
  <2>1. CASE b = p[state + 1] /\ state + 1 = m
    <3>1. state + 1 \in 2..m
      BY <1>1, <2>1
    <3>2. b # ESC
      BY <1>1, <2>1, <3>1
    <3>3. \A d \in 1..(m - 1) : ~N(d)
      <4>1. \A d \in 1..(m - 1) : d \in 1..m /\ d - 1 # state
        BY <1>1, <2>1
      <4> QED  BY <1>1, <1>7, <3>2, <4>1
    <3> QED  BY <1>1, <1>5, <2>1, <3>3
  <2>2. CASE b = p[state + 1] /\ state + 1 # m
    <3>1. next = state + 1 /\ next \in 0..(m - 1) /\ N(next)
      BY <1>1, <1>5, <1>7, <1>9, <2>2
    <3>2. \A d \in 1..(m - 1) : N(d) => d = state + 1
      <4> SUFFICES ASSUME NEW d \in 1..(m - 1), N(d), d # state + 1 PROVE FALSE
        OBVIOUS
      <4>1. d \in 1..m /\ d - 1 # state
        BY <1>1
      <4>2. d = 1 /\ b = ESC
        BY <1>1, <1>7, <4>1
      <4>3. state + 1 \in 2..m
        BY <1>1, <4>1, <4>2
      <4> QED  BY <1>1, <2>2, <4>2, <4>3
    <3> QED  BY <3>1, <3>2
  <2>3. CASE b # p[state + 1] /\ b = ESC
    <3>1. next = 1 /\ 1 \in 1..m /\ 1 \in 0..(m - 1)
      BY <1>1, <1>5, <2>3
    <3>2. N(1)
      BY <1>1, <1>7, <2>3, <3>1
    <3>3. \A d \in 1..(m - 1) : N(d) => d = 1
      <4>1. \A d \in 1..(m - 1) : d # 1 => d \in 2..m /\ d \in 1..m
        BY <1>1
      <4> QED  BY <1>1, <1>7, <2>3, <4>1
    <3> QED  BY <3>1, <3>2, <3>3
  <2>4. CASE b # p[state + 1] /\ b # ESC
    <3>1. next = 0 /\ 0 \in 0..(m - 1)
      BY <1>1, <1>5, <2>4
    <3>2. \A d \in 1..(m - 1) : ~N(d)
      <4> SUFFICES ASSUME NEW d \in 1..(m - 1), N(d) PROVE FALSE
        OBVIOUS
      <4>1. d \in 1..m /\ (d - 1 = state => d = state + 1)
        BY <1>1
      <4> QED  BY <1>1, <1>7, <2>4, <4>1
    <3> QED  BY <3>1, <3>2
  <2> QED  BY <2>1, <2>2, <2>3, <2>4
<1> QED  BY <1>8, <1>10 DEF t, m, N, next, Tracks

--------------------------------------------------------------------------------
(* What the terminal should see.                                            *)

\* Induction on the natural numbers, as sets: there is no least one outside T.
LEMMA Induct ==
  ASSUME NEW T, 0 \in T, \A n \in Nat : n \in T => n + 1 \in T
  PROVE  Nat \subseteq T
<1> DEFINE R == OpToRel(<, Nat)
           U == Nat \ T
<1>1. SUFFICES ASSUME U # {} PROVE FALSE
  OBVIOUS
<1>2. IsWellFoundedOn(R, Nat)
  BY NatLessThanWellFounded, Zenon
<1>3. \A i, j \in Nat : i < j => <<i, j>> \in R
  BY DEF OpToRel
<1>4. U \subseteq Nat
  OBVIOUS
<1> HIDE DEF R
<1>5. PICK x \in U : \A y \in U : ~(<<y, x>> \in R)
  BY <1>1, <1>2, <1>4, WFMin
<1>6. x # 0 /\ x \in Nat
  OBVIOUS
<1>7. x - 1 \in Nat /\ x - 1 < x /\ (x - 1) + 1 = x
  BY <1>6
<1>8. x - 1 \notin U
  BY <1>3, <1>5, <1>6, <1>7
<1>9. x - 1 \in T
  BY <1>7, <1>8
<1> QED  BY <1>7, <1>9

\* The recursion of Shown defines a function: each of its prefixes does.
LEMMA ShownDef ==
  ASSUME NEW s, Len(s) \in Nat
  PROVE  /\ Shown(s)[0] = <<>>
         /\ \A i \in 1..Len(s) :
              Shown(s)[i] = IF i \in InQuery(s) THEN Shown(s)[i - 1] ELSE Append(Shown(s)[i - 1], s[i])
<1> DEFINE N == Len(s)
           Step(g, i) == IF i = 0 THEN <<>>
                         ELSE IF i \in InQuery(s) THEN g[i - 1] ELSE Append(g[i - 1], s[i])
           T == {m \in Nat : \E g : g = [i \in 0..m |-> Step(g, i)]}
<1> HIDE DEF N
<1>1. 0 \in T
  <2> DEFINE g == [i \in 0..0 |-> <<>>]
  <2>1. g = [i \in 0..0 |-> Step(g, i)]
    OBVIOUS
  <2> HIDE DEF Step
  <2> QED  BY <2>1
<1>2. ASSUME NEW m \in Nat, m \in T PROVE m + 1 \in T
  <2> PICK g : g = [i \in 0..m |-> Step(g, i)]
    BY <1>2
  <2> DEFINE h == [i \in 0..(m + 1) |-> IF i <= m THEN g[i] ELSE Step(g, i)]
  <2>1. \A i \in 0..(m + 1) : i # 0 => i - 1 \in 0..m /\ h[i - 1] = g[i - 1]
    OBVIOUS
  <2>2. \A i \in 0..(m + 1) : Step(h, i) = Step(g, i)
    BY <2>1
  <2>3. \A i \in 0..m : g[i] = Step(g, i)
    <3> HIDE DEF Step
    <3> QED OBVIOUS
  <2>4. \A i \in 0..(m + 1) : h[i] = Step(h, i)
    <3> HIDE DEF Step
    <3> QED BY <2>2, <2>3
  <2>5. h = [i \in 0..(m + 1) |-> Step(h, i)]
    <3>1. h = [i \in 0..(m + 1) |-> h[i]]
      OBVIOUS
    <3> HIDE DEF h, Step
    <3> QED BY <2>4, <3>1
  <2> HIDE DEF h, Step
  <2> QED  BY <2>5
<1> HIDE DEF T
<1>3. N \in T
  <2>1. Nat \subseteq T
    BY <1>1, <1>2, Induct
  <2> QED  BY <2>1 DEF N
<1> HIDE DEF Step
<1>4. PICK g : g = [i \in 0..N |-> Step(g, i)]
  BY <1>3 DEF T
<1> DEFINE shown == Shown(s)
<1>5. shown = CHOOSE g_1 : g_1 = [i \in 0..N |-> Step(g_1, i)]
  BY DEF Shown, Step, N
<1> HIDE DEF shown
<1>6. shown = [i \in 0..N |-> Step(shown, i)]
  BY <1>4, <1>5
<1>7. \A i \in 0..N : shown[i] = Step(shown, i)
  BY <1>6
<1> QED
  BY <1>7 DEF shown, Step, N

\* What one more byte does to the queries: it ends one, or changes none.
LEMMA QueriesGrow ==
  ASSUME NEW s \in Seq(Bytes), NEW b \in Bytes
  PROVE  /\ \A i \in InQuery(s) : i \in 1..Len(s)
         /\ ~Matches(Append(s, b), DSR, 4) => InQuery(Append(s, b)) = InQuery(s)
         /\ Matches(Append(s, b), DSR, 4) =>
              InQuery(Append(s, b)) = InQuery(s) \cup (Len(s) - 2)..(Len(s) + 1)
<1> DEFINE t == Append(s, b)
           n == Len(s)
<1>1. n \in Nat /\ (n + 1) - 3 = n - 2
  BY AppendFacts
<1>2. Len(DSR) = 4 /\ IsPattern(DSR)
  BY Patterns, MatcherAssumption
<1>3. /\ EndsIn(s, DSR) \subseteq 4..n
      /\ EndsIn(t, DSR) = EndsIn(s, DSR) \cup (IF Matches(t, DSR, 4) THEN {n + 1} ELSE {})
  <2>1. /\ EndsIn(s, DSR) \subseteq Len(DSR)..n
        /\ EndsIn(t, DSR) = EndsIn(s, DSR) \cup (IF Matches(t, DSR, Len(DSR)) THEN {n + 1} ELSE {})
    BY <1>2, EndsGrow
  <2> HIDE DEF t, n
  <2> QED  BY ONLY <1>2, <2>1
<1> HIDE DEF t, n
<1>4. \A i \in InQuery(s) : i \in 1..n
  <2> TAKE i \in InQuery(s)
  <2> PICK j \in EndsIn(s, DSR) : i \in (j - 3)..j
    BY DEF InQuery
  <2>1. j \in 4..n
    BY <1>3
  <2> QED  BY <1>1, <2>1
<1>5. ~Matches(t, DSR, 4) => InQuery(t) = InQuery(s)
  BY <1>3 DEF InQuery
<1>6. Matches(t, DSR, 4) => InQuery(t) = InQuery(s) \cup (n - 2)..(n + 1)
  <2> SUFFICES ASSUME Matches(t, DSR, 4) PROVE InQuery(t) = InQuery(s) \cup (n - 2)..(n + 1)
    OBVIOUS
  <2>1. EndsIn(t, DSR) = EndsIn(s, DSR) \cup {n + 1}
    BY <1>3
  <2>2. \A i : i \in InQuery(t) <=> i \in InQuery(s) \/ i \in ((n + 1) - 3)..(n + 1)
    BY <2>1, Zenon DEF InQuery
  <2> QED  BY <1>1, <2>2
<1> QED  BY <1>4, <1>5, <1>6 DEF t, n

\* Prefixes show the same while the queries in them are the same.
LEMMA ShownSame ==
  ASSUME NEW s \in Seq(Bytes), NEW b \in Bytes, NEW m \in 0..Len(s),
         \A i \in 1..m : i \in InQuery(Append(s, b)) <=> i \in InQuery(s)
  PROVE  \A i \in 0..m : Shown(Append(s, b))[i] = Shown(s)[i]
<1> DEFINE t == Append(s, b)
           n == Len(s)
           T == {i \in Nat : i <= m => Shown(t)[i] = Shown(s)[i]}
<1>1. /\ n \in Nat /\ Len(t) = n + 1 /\ Len(t) \in Nat
      /\ \A i \in 1..n : t[i] = s[i]
  BY AppendFacts
<1>2. /\ Shown(t)[0] = <<>> /\ Shown(s)[0] = <<>>
      /\ \A i \in 1..(n + 1) :
           Shown(t)[i] = IF i \in InQuery(t) THEN Shown(t)[i - 1] ELSE Append(Shown(t)[i - 1], t[i])
      /\ \A i \in 1..n :
           Shown(s)[i] = IF i \in InQuery(s) THEN Shown(s)[i - 1] ELSE Append(Shown(s)[i - 1], s[i])
  BY <1>1, ShownDef
<1>3. m \in 0..n /\ \A i \in 1..m : i \in InQuery(t) <=> i \in InQuery(s)
  OBVIOUS
<1> HIDE DEF t, n
<1>4. 0 \in T
  BY <1>2
<1>5. ASSUME NEW j \in Nat, j \in T PROVE j + 1 \in T
  <2> SUFFICES ASSUME j + 1 <= m PROVE Shown(t)[j + 1] = Shown(s)[j + 1]
    OBVIOUS
  <2> DEFINE i == j + 1
  <2>1. i \in 1..m /\ i \in 1..n /\ i \in 1..(n + 1) /\ i - 1 = j /\ j <= m
    BY <1>1, <1>3
  <2>2. Shown(t)[j] = Shown(s)[j]
    BY <1>5, <2>1
  <2> HIDE DEF i
  <2>3. Shown(t)[i] = Shown(s)[i]
    BY <1>1, <1>2, <1>3, <2>1, <2>2
  <2> QED  BY <2>3 DEF i
<1>6. Nat \subseteq T
  <2> HIDE DEF T
  <2> QED  BY <1>4, <1>5, Induct
<1>7. \A i \in 0..m : i \in Nat /\ i <= m
  BY <1>1, <1>3
<1> QED  BY <1>6, <1>7 DEF t

\* What is held back, byte by byte.
LEMMA Prefixes ==
  ASSUME NEW o \in Seq(Bytes), NEW k \in 0..3
  PROVE  /\ o \o SubSeq(DSR, 1, 0) = o
         /\ o \o SubSeq(DSR, 1, k) \in Seq(Bytes)
         /\ o \o SubSeq(DSR, 1, k + 1) = Append(o \o SubSeq(DSR, 1, k), DSR[k + 1])
<1>1. \A i \in 1..4 : DSR[i] \in Bytes
  <2>1. DSR \in Seq(Bytes) /\ Len(DSR) = 4
    BY MatcherAssumption
  <2> QED  BY ONLY <2>1, ElementOfSeq
<1>2. \A j \in 0..4 : /\ SubSeq(DSR, 1, j) \in Seq(Bytes) /\ Len(SubSeq(DSR, 1, j)) = j
                      /\ \A i \in 1..j : SubSeq(DSR, 1, j)[i] = DSR[i]
  <2> TAKE j \in 0..4
  <2>1. \A i \in 1..j : DSR[i] \in Bytes
    BY <1>1
  <2>2. /\ SubSeq(DSR, 1, j) \in Seq(Bytes)
        /\ Len(SubSeq(DSR, 1, j)) = IF 1 <= j THEN j - 1 + 1 ELSE 0
        /\ \A i \in 1..(j - 1 + 1) : SubSeq(DSR, 1, j)[i] = DSR[1 + i - 1]
    BY <2>1, 1 \in Int, j \in Int, SubSeqProperties
  <2> QED  BY <2>2
<1> DEFINE p == SubSeq(DSR, 1, k)
           q == SubSeq(DSR, 1, k + 1)
           z == SubSeq(DSR, 1, 0)
<1>3. /\ p \in Seq(Bytes) /\ Len(p) = k /\ \A i \in 1..k : p[i] = DSR[i]
      /\ q \in Seq(Bytes) /\ Len(q) = k + 1 /\ \A i \in 1..(k + 1) : q[i] = DSR[i]
      /\ z \in Seq(Bytes) /\ Len(z) = 0
  BY <1>2
<1> HIDE DEF p, q, z
<1>4. q = Append(p, DSR[k + 1])
  <2>1. DSR[k + 1] \in Bytes
    BY <1>1
  <2> QED  BY <1>3, <2>1
<1>5. o \o z = o
  <2>1. z = <<>>
    BY <1>3
  <2> QED  BY <2>1
<1>6. o \o p \in Seq(Bytes) /\ o \o q = Append(o \o p, DSR[k + 1])
  BY <1>1, <1>3, <1>4
<1> QED  BY <1>5, <1>6 DEF p, q, z

\* What is shown when a held prefix is let go.
LEMMA ShownHeld ==
  ASSUME NEW s \in Seq(Bytes), NEW d \in 0..3, d = 0 \/ Matches(s, DSR, d),
         NEW o \in Seq(Bytes), o = Shown(s)[Len(s) - d],
         \A i \in (Len(s) - d + 1)..Len(s) : i \notin InQuery(s)
  PROVE  Shown(s)[Len(s)] = o \o SubSeq(DSR, 1, d)
<1> DEFINE n == Len(s)
           H(k) == o \o SubSeq(DSR, 1, k)
<1>1. n \in Nat /\ d <= n /\ \A k \in 1..d : s[n - d + k] = DSR[k]
  <2>1. n \in Nat /\ (d = 0 => d <= n)
    OBVIOUS
  <2> QED  BY <2>1 DEF Matches
<1>2. \A i \in 1..n :
         Shown(s)[i] = IF i \in InQuery(s) THEN Shown(s)[i - 1] ELSE Append(Shown(s)[i - 1], s[i])
  BY <1>1, ShownDef
<1>3. \A i \in (n - d + 1)..n : i \notin InQuery(s)
  OBVIOUS
<1>4. H(0) = o /\ \A k \in 0..3 : H(k + 1) = Append(H(k), DSR[k + 1])
  BY Prefixes, 0 \in 0..3
<1>5. Shown(s)[n - d] = o
  OBVIOUS
<1> HIDE DEF n, H
<1>6. ASSUME NEW k \in 0..3, k < d, Shown(s)[n - d + k] = H(k)
      PROVE  Shown(s)[n - d + (k + 1)] = H(k + 1)
  <2> DEFINE i == n - d + (k + 1)
  <2>1. i \in 1..n /\ i \in (n - d + 1)..n /\ i - 1 = n - d + k /\ k + 1 \in 1..d
    BY <1>1, <1>6
  <2>2. s[i] = DSR[k + 1]
    BY <1>1, <2>1
  <2> HIDE DEF i
  <2>3. Shown(s)[i] = Append(Shown(s)[i - 1], s[i])
    BY <1>2, <1>3, <2>1
  <2> QED  BY <1>4, <1>6, <2>1, <2>2, <2>3 DEF i
<1>7. n - d + 0 = n - d /\ n - d + d = n
  BY <1>1
<1>8. Shown(s)[n - d + 0] = H(0)
  BY <1>4, <1>5, <1>7
<1>9. 0 < d => Shown(s)[n - d + 1] = H(1)
  BY <1>6, <1>8
<1>10. 1 < d => Shown(s)[n - d + 2] = H(2)
  BY <1>6, <1>9
<1>11. 2 < d => Shown(s)[n - d + 3] = H(3)
  BY <1>6, <1>10
<1>12. Shown(s)[n - d + d] = H(d)
  <2>1. d = 0 \/ d = 1 \/ d = 2 \/ d = 3
    OBVIOUS
  <2> QED  BY <1>8, <1>9, <1>10, <1>11, <2>1
<1> QED  BY <1>7, <1>12 DEF n, H

\* The matchers' states move on as said.
LEMMA Advances ==
  ASSUME TxInv, NEW b \in Bytes, StoreThr(b)
  PROVE  /\ dsr_state' = Advance(dsr_state, DSR, b)
         /\ bpm_state' = Advance(bpm_state, BPM_TARGET, b)
         /\ DsrComplete(b) <=> Matches(Append(sent, b), DSR, 4)
         /\ BpmComplete(b) <=> Matches(Append(sent, b), BPM_TARGET, Len(BPM_TARGET))
<1>1. /\ sent \in Seq(Bytes)
      /\ Tracks(dsr_state, sent, DSR) /\ Tracks(bpm_state, sent, BPM_TARGET)
  BY DEF TxInv, TxTypeOK
<1>2. dsr_state \in 0..3 /\ bpm_state \in 0..(Len(BPM_TARGET) - 1) /\ Len(DSR) = 4
  BY <1>1, MatcherAssumption DEF Tracks
<1>3. Len(BPM_TARGET) \in Nat
  BY MatcherAssumption
<1>4. DSR[1] = ESC /\ DSR[2] # ESC /\ DSR[3] # ESC /\ DSR[4] # ESC
  BY MatcherAssumption
<1>5. dsr_state' = IF b = ESC THEN 1
                   ELSE IF dsr_state \in {1, 2} /\ b = DSR[dsr_state + 1] THEN dsr_state + 1 ELSE 0
  BY DEF StoreThr, MatchDsr
<1>6. dsr_state' = Advance(dsr_state, DSR, b)
  <2>1. Advance(dsr_state, DSR, b) =
          IF b = DSR[dsr_state + 1] THEN (IF dsr_state = 3 THEN 0 ELSE dsr_state + 1)
          ELSE IF b = ESC THEN 1 ELSE 0
    BY <1>2 DEF Advance
  <2>2. dsr_state = 0 \/ dsr_state = 1 \/ dsr_state = 2 \/ dsr_state = 3
    BY <1>2
  <2> QED  BY <1>4, <1>5, <2>1, <2>2
<1>7. bpm_state' = Advance(bpm_state, BPM_TARGET, b)
  <2>1. (bpm_state + 1) % Len(BPM_TARGET) =
          IF bpm_state + 1 = Len(BPM_TARGET) THEN 0 ELSE bpm_state + 1
    BY <1>2, <1>3
  <2> QED  BY <2>1 DEF StoreThr, MatchBpm, Advance
<1>8. DsrComplete(b) <=> Matches(Append(sent, b), DSR, 4)
  <2>1. Matches(Append(sent, b), DSR, Len(DSR)) <=> b = DSR[dsr_state + 1] /\ dsr_state + 1 = Len(DSR)
    BY <1>1, Patterns, TracksStep
  <2>2. dsr_state + 1 = 4 <=> dsr_state = 3
    BY <1>2
  <2> QED  BY <1>2, <2>1, <2>2 DEF DsrComplete
<1>9. BpmComplete(b) <=> Matches(Append(sent, b), BPM_TARGET, Len(BPM_TARGET))
  BY <1>1, Patterns, TracksStep DEF BpmComplete
<1> QED  BY <1>6, <1>7, <1>8, <1>9

--------------------------------------------------------------------------------
(* The transmit path.                                                       *)

\* What the invariant says of what is held back is what the terminal sees.
LEMMA HeldShown == TxInv => TxTransparent
<1> SUFFICES ASSUME TxInv PROVE TxTransparent
  OBVIOUS
<1>1. /\ sent \in Seq(Bytes) /\ out \in Seq(Bytes) /\ HeldBack /\ Tracks(dsr_state, sent, DSR)
  BY DEF TxInv, TxTypeOK
<1>2. dsr_state \in 0..3 /\ (dsr_state = 0 \/ Matches(sent, DSR, dsr_state))
  <2>1. Len(DSR) = 4
    BY MatcherAssumption
  <2> QED  BY <1>1, <2>1 DEF Tracks
<1> QED  BY <1>1, <1>2, ShownHeld DEF TxTransparent, flush_prefix, HeldBack

\* The invariant holds at first ...
LEMMA TxInitInv == TxInit => TxInv
<1> SUFFICES ASSUME TxInit PROVE TxInv
  OBVIOUS
<1>1. sent = <<>> /\ sent \in Seq(Bytes) /\ out = <<>> /\ out \in Seq(Bytes) /\ Len(sent) = 0
  BY DEF TxInit
<1>2. Len(BPM_TARGET) \in Nat /\ Len(BPM_TARGET) > 1 /\ Len(DSR) = 4
  BY MatcherAssumption
<1>3. Tracks(0, sent, DSR) /\ Tracks(0, sent, BPM_TARGET)
  BY <1>1, <1>2 DEF Tracks, Matches
<1>4. EndsIn(sent, DSR) = {} /\ EndsIn(sent, BPM_TARGET) = {}
  BY <1>1, <1>2 DEF EndsIn
<1>5. Shown(sent)[0] = <<>>
  BY <1>1, ShownDef
<1>6. HeldBack
  <2>1. Len(sent) - dsr_state = 0 /\ (Len(sent) - dsr_state + 1)..Len(sent) = {}
    BY <1>1 DEF TxInit
  <2> QED  BY <1>1, <1>5, <2>1 DEF HeldBack
<1>7. Cardinality({}) = 0
  BY FS_EmptySet
<1> QED  BY <1>1, <1>3, <1>4, <1>6, <1>7 DEF TxInit, TxInv, TxTypeOK, TxAnswered

\* ... a byte keeps what it says of the answers ...
LEMMA AnsweredStep ==
  ASSUME TxInv, NEW b \in Bytes, StoreThr(b)
  PROVE  TxAnswered' /\ answers' \in Nat /\ stdin_ready' \in BOOLEAN
<1> DEFINE t == Append(sent, b)
           E(p) == EndsIn(sent, p)
<1>1. sent \in Seq(Bytes) /\ answers \in Nat /\ TxAnswered /\ sent' = t
  BY DEF TxInv, TxTypeOK, StoreThr
<1>2. Len(DSR) = 4 /\ Len(sent) \in Nat
  BY <1>1, MatcherAssumption
<1>3. /\ E(DSR) \subseteq 4..Len(sent) /\ IsFiniteSet(E(DSR))
      /\ EndsIn(t, DSR) = E(DSR) \cup (IF DsrComplete(b) THEN {Len(sent) + 1} ELSE {})
  <2>1. /\ E(DSR) \subseteq Len(DSR)..Len(sent) /\ IsFiniteSet(E(DSR))
        /\ EndsIn(t, DSR) = E(DSR) \cup (IF Matches(t, DSR, Len(DSR)) THEN {Len(sent) + 1} ELSE {})
    BY <1>1, Patterns, EndsGrow
  <2>2. DsrComplete(b) <=> Matches(t, DSR, 4)
    BY Advances
  <2> HIDE DEF t, E
  <2> QED  BY ONLY <1>2, <2>1, <2>2
<1>4. EndsIn(t, BPM_TARGET) = E(BPM_TARGET) \cup (IF BpmComplete(b) THEN {Len(sent) + 1} ELSE {})
  <2>1. EndsIn(t, BPM_TARGET) = E(BPM_TARGET) \cup
          (IF Matches(t, BPM_TARGET, Len(BPM_TARGET)) THEN {Len(sent) + 1} ELSE {})
    BY <1>1, Patterns, EndsGrow
  <2>2. BpmComplete(b) <=> Matches(t, BPM_TARGET, Len(BPM_TARGET))
    BY Advances
  <2> HIDE DEF t, E
  <2> QED  BY ONLY <2>1, <2>2
<1>5. /\ answers' = IF DsrComplete(b) THEN answers + 1 ELSE answers
      /\ stdin_ready' = (stdin_ready \/ BpmComplete(b) \/ DsrComplete(b))
  <2>1. DsrComplete(b) => b # ESC /\ ~(dsr_state \in {1, 2})
    BY MatcherAssumption DEF DsrComplete
  <2> QED  BY <2>1 DEF StoreThr, MatchDsr
<1> HIDE DEF t, E
<1>6. answers' = Cardinality(EndsIn(t, DSR))
  <2>1. Len(sent) + 1 \notin E(DSR)
    BY <1>2, <1>3
  <2>2. Cardinality(E(DSR) \cup {Len(sent) + 1}) = Cardinality(E(DSR)) + 1
    BY <1>3, <2>1, FS_AddElement
  <2>3. answers = Cardinality(E(DSR))
    BY <1>1 DEF TxAnswered, E
  <2> QED  BY <1>3, <1>5, <2>2, <2>3
<1>7. stdin_ready' <=> EndsIn(t, DSR) \cup EndsIn(t, BPM_TARGET) # {}
  <2>1. stdin_ready <=> E(DSR) \cup E(BPM_TARGET) # {}
    BY <1>1 DEF TxAnswered, E
  <2> QED  BY <1>3, <1>4, <1>5, <2>1
<1>8. TxAnswered'
  BY <1>1, <1>6, <1>7 DEF TxAnswered
<1> QED  BY <1>1, <1>5, <1>8

\* ... what it says of the terminal ...
LEMMA HeldStep ==
  ASSUME TxInv, NEW b \in Bytes, StoreThr(b)
  PROVE  HeldBack' /\ out' \in Seq(Bytes)
<1> DEFINE t == Append(sent, b)
           n == Len(sent)
           d == dsr_state
           Q == InQuery(sent)
           R == InQuery(t)
<1>1. /\ sent \in Seq(Bytes) /\ out \in Seq(Bytes) /\ HeldBack /\ TxTransparent
      /\ Tracks(dsr_state, sent, DSR) /\ sent' = t
  BY HeldShown DEF TxInv, TxTypeOK, StoreThr
<1>2. /\ d \in 0..3 /\ (d = 0 \/ Matches(sent, DSR, d))
  <2>1. Len(DSR) = 4
    BY MatcherAssumption
  <2> QED  BY <1>1, <2>1 DEF Tracks
<1>3. n \in Nat /\ Len(t) = n + 1 /\ t \in Seq(Bytes) /\ t[n + 1] = b /\ d <= n
  <2>1. d <= n
    BY <1>1, <1>2 DEF Matches
  <2> QED  BY <1>1, <2>1, AppendFacts
<1>4. /\ \A i \in Q : i \in 1..n
      /\ ~DsrComplete(b) => R = Q
      /\ DsrComplete(b) => R = Q \cup (n - 2)..(n + 1)
  BY <1>1, Advances, QueriesGrow
<1>5. /\ out = Shown(sent)[n - d] /\ \A i \in (n - d + 1)..n : i \notin Q
      /\ flush_prefix = Shown(sent)[n] /\ flush_prefix \in Seq(Bytes)
  <2>1. flush_prefix \in Seq(Bytes)
    BY <1>1, <1>2, Prefixes DEF flush_prefix
  <2> QED  BY <1>1, <2>1 DEF HeldBack, TxTransparent
<1>6. \A i \in 1..(n + 1) :
         Shown(t)[i] = IF i \in R THEN Shown(t)[i - 1] ELSE Append(Shown(t)[i - 1], t[i])
  <2>1. Len(t) \in Nat /\ Len(t) = n + 1
    BY <1>3
  <2> HIDE DEF t, n
  <2> QED  BY <2>1, ShownDef DEF R
<1>7. ~DsrComplete(b) => \A i \in 0..n : Shown(t)[i] = Shown(sent)[i]
  <2>1. n \in 0..n
    BY <1>3
  <2> QED  BY <1>1, <1>4, <2>1, ShownSame
<1>8. HeldBack' <=> /\ out' = Shown(t)[(n + 1) - dsr_state']
                    /\ \A i \in ((n + 1) - dsr_state' + 1)..(n + 1) : i \notin R
  BY <1>1, <1>3 DEF HeldBack
<1>9. n + 1 \notin Q
  BY <1>3, <1>4
<1>10. b = ESC => ~DsrComplete(b)
  BY MatcherAssumption DEF DsrComplete
<1> HIDE DEF t, n, Q, R
\* ... an ESC lets go what is held
<1>11. CASE b = ESC
  <2>1. out' = flush_prefix /\ dsr_state' = 1
    BY <1>11 DEF StoreThr, MatchDsr
  <2>2. (n + 1) - 1 = n /\ (n + 1) - 1 + 1 = n + 1 /\ n \in 0..n /\ (n + 1)..(n + 1) = {n + 1}
    BY <1>3
  <2>3. Shown(t)[n] = Shown(sent)[n]
    BY <1>7, <1>10, <1>11, <2>2
  <2>4. n + 1 \notin R
    BY <1>4, <1>9, <1>10, <1>11
  <2>5. out' = Shown(t)[n] /\ \A i \in (n + 1)..(n + 1) : i \notin R
    BY <1>5, <2>1, <2>2, <2>3, <2>4
  <2>6. (n + 1) - dsr_state' = n /\ (n + 1) - dsr_state' + 1 = n + 1
    BY <2>1, <2>2
  <2> QED  BY ONLY <1>5, <1>8, <2>1, <2>5, <2>6
\* ... the next byte of the query is held too
<1>12. CASE b # ESC /\ d \in {1, 2} /\ b = DSR[d + 1]
  <2>1. out' = out /\ dsr_state' = d + 1 /\ ~DsrComplete(b)
    BY <1>12 DEF StoreThr, MatchDsr, DsrComplete
  <2>2. (n + 1) - (d + 1) = n - d /\ n - d \in 0..n
    BY <1>2, <1>3
  <2>3. \A i \in (n - d + 1)..(n + 1) : i \in (n - d + 1)..n \/ i = n + 1
    BY <1>2, <1>3
  <2>4. Shown(t)[n - d] = Shown(sent)[n - d]
    BY <1>7, <2>1, <2>2
  <2>5. \A i \in (n - d + 1)..(n + 1) : i \notin R
    BY <1>4, <1>5, <1>9, <2>1, <2>3
  <2>6. (n + 1) - dsr_state' = n - d
    BY <2>1, <2>2
  <2> QED  BY ONLY <1>1, <1>5, <1>8, <2>1, <2>4, <2>5, <2>6
\* ... its last byte cuts out the four of them
<1>13. CASE DsrComplete(b)
  <2>1. b # ESC /\ d = 3 /\ b = DSR[4]
    BY <1>10, <1>13 DEF DsrComplete
  <2>2. out' = out /\ dsr_state' = 0
    BY <2>1 DEF StoreThr, MatchDsr, DsrComplete
  <2>3. /\ n - 3 \in 0..n /\ (n + 1) - 0 = n + 1 /\ ((n + 1) - 0 + 1)..(n + 1) = {}
        /\ n - 2 \in 1..(n + 1) /\ n - 1 \in 1..(n + 1) /\ n \in 1..(n + 1) /\ n + 1 \in 1..(n + 1)
        /\ (n - 2) - 1 = n - 3 /\ (n - 1) - 1 = n - 2 /\ (n + 1) - 1 = n
    BY <1>3, <2>1
  <2>4. \A i \in 1..(n - 3) : i \in R <=> i \in Q
    <3>1. \A i \in 1..(n - 3) : i \notin (n - 2)..(n + 1)
      BY <1>3
    <3> QED  BY <1>4, <1>13, <3>1
  <2>5. Shown(t)[n - 3] = Shown(sent)[n - 3]
    <3>1. n - 3 \in 0..(n - 3)
      BY <2>3
    <3>2. \A i \in 0..(n - 3) : Shown(t)[i] = Shown(sent)[i]
      BY <1>1, <2>3, <2>4, ShownSame DEF t, n, Q, R
    <3> QED  BY <3>1, <3>2
  <2>6. \A i \in (n - 2)..(n + 1) : i \in R
    BY <1>4, <1>13
  <2>7. n - 2 \in R /\ n - 1 \in R /\ n \in R /\ n + 1 \in R
    BY <1>3, <2>6
  <2>8. Shown(t)[n + 1] = Shown(t)[n - 3]
    BY ONLY <1>6, <2>3, <2>7
  <2>9. out' = Shown(t)[n + 1]
    BY <1>5, <2>1, <2>2, <2>5, <2>8
  <2>10. (n + 1) - dsr_state' = n + 1 /\ ((n + 1) - dsr_state' + 1)..(n + 1) = {}
    BY <2>2, <2>3
  <2> QED  BY ONLY <1>1, <1>8, <2>2, <2>9, <2>10
\* ... and any other byte is shown after what was held
<1>14. CASE b # ESC /\ ~(d \in {1, 2} /\ b = DSR[d + 1]) /\ ~DsrComplete(b)
  <2>1. out' = Append(flush_prefix, b) /\ dsr_state' = 0
    BY <1>14 DEF StoreThr, MatchDsr
  <2>2. /\ (n + 1) - 0 = n + 1 /\ ((n + 1) - 0 + 1)..(n + 1) = {}
        /\ n + 1 \in 1..(n + 1) /\ (n + 1) - 1 = n /\ n \in 0..n
    BY <1>3
  <2>3. Shown(t)[n + 1] = Append(Shown(t)[n], b)
    BY <1>3, <1>4, <1>6, <1>9, <1>14, <2>2
  <2>4. Shown(t)[n] = Shown(sent)[n]
    BY <1>7, <1>14, <2>2
  <2> QED  BY <1>5, <1>8, <2>1, <2>2, <2>3, <2>4
<1> QED  BY <1>11, <1>12, <1>13, <1>14

\* ... and all of it.
LEMMA TxStep ==
  ASSUME TxInv, [TxNext]_txVars
  PROVE  TxInv'
<1>1. CASE UNCHANGED txVars
  BY <1>1 DEF txVars, TxInv, TxTypeOK, Tracks, HeldBack, TxAnswered
<1>2. ASSUME NEW b \in Bytes, StoreThr(b) PROVE TxInv'
  <2>1. sent \in Seq(Bytes) /\ sent' = Append(sent, b) /\ sent' \in Seq(Bytes)
    BY <1>2, AppendFacts DEF TxInv, TxTypeOK, StoreThr
  <2>2. Tracks(dsr_state', sent', DSR)
    BY <1>2, <2>1, Advances, Patterns, TracksStep DEF TxInv
  <2>3. Tracks(bpm_state', sent', BPM_TARGET)
    BY <1>2, <2>1, Advances, Patterns, TracksStep DEF TxInv
  <2>4. HeldBack' /\ out' \in Seq(Bytes)
    BY <1>2, HeldStep
  <2>5. TxAnswered' /\ answers' \in Nat /\ stdin_ready' \in BOOLEAN
    BY <1>2, AnsweredStep
  <2> QED  BY <2>1, <2>2, <2>3, <2>4, <2>5 DEF TxInv, TxTypeOK
<1> QED  BY <1>1, <1>2 DEF TxNext

\* The invariant of the transmit path.
LEMMA TxSafe == TxSpec => []TxInv
<1>1. TxInv /\ [TxNext]_txVars => TxInv'
  BY TxStep
<1> QED  BY TxInitInv, <1>1, PTL DEF TxSpec

\* Whatever the guest sends, and wherever its ESCs fall, the terminal sees every
\* byte outside the complete queries, in order and once, but for what is held back
\* (uart.rs 125-162: the store and flush_prefix).
THEOREM TerminalSeesAll == TxSpec => []TxTransparent
  BY TxSafe, HeldShown, PTL

\* Every query is answered once, and stdin is let through exactly from the first
\* query or readiness sequence on, for readiness sequences of any length: no
\* restart of either matcher makes it miss a match (uart.rs 105-142).
THEOREM QueriesAnswered == TxSpec => []TxAnswered
<1>1. TxInv => TxAnswered
  BY DEF TxInv
<1> QED  BY TxSafe, <1>1, PTL

--------------------------------------------------------------------------------
(* The reservation.                                                         *)

USE AddressAssumption, SomeAssumption, MaxAddsAssumption

LEMMA CellOf == ASSUME NEW v \in Va PROVE Pa[v] \in Cells
BY DEF Cells

\* The type invariant is inductive.
LEMMA ResTypeInit == ResInit => ResTypeOK
<1>1. SomeThread \in Threads /\ SomeVa \in Va
  BY DEF SomeThread, SomeVa
<1>. QED
  BY <1>1 DEF ResInit, ResTypeOK

LEMMA AddType ==
  ASSUME ResTypeOK, NEW c \in Cells, NEW n \in Nat, Add(c, n)
  PROVE  ram' \in [Cells -> Nat] /\ adds' \in [Cells -> Nat]
BY DEF Add, ResTypeOK

LEMMA ResTypeNext == ResTypeOK /\ [ResNext]_resVars => ResTypeOK'
<1>. SUFFICES ASSUME ResTypeOK, [ResNext]_resVars PROVE ResTypeOK'
  OBVIOUS
<1>1. ASSUME NEW v \in Va, LoadReserved(v) PROVE ResTypeOK'
  BY <1>1, CellOf DEF LoadReserved, ResTypeOK
<1>2. CASE StoreConditional
  <2>1. va[cur] \in Va /\ Pa[va[cur]] \in Cells /\ reg[cur] + 1 \in Nat
    BY CellOf DEF ResTypeOK
  <2>2. ram' \in [Cells -> Nat] /\ adds' \in [Cells -> Nat]
    BY <1>2, <2>1, AddType DEF StoreConditional, ResTypeOK
  <2>. QED
    BY <1>2, <2>2 DEF StoreConditional, SpendReservation, ResTypeOK
<1>3. ASSUME NEW v \in Va, AmoAdd(v) PROVE ResTypeOK'
  <2>1. Pa[v] \in Cells /\ ram[Pa[v]] + 1 \in Nat
    BY CellOf DEF ResTypeOK
  <2>2. ram' \in [Cells -> Nat] /\ adds' \in [Cells -> Nat]
    BY <1>3, <2>1, AddType DEF AmoAdd
  <2>. QED
    BY <1>3, <2>2 DEF AmoAdd, ResTypeOK
<1>4. ASSUME NEW t \in Threads, ReturnToUser(t) PROVE ResTypeOK'
  <2>1. \A c \in Cells : ram[c] + 1 \in Nat
    BY DEF ResTypeOK
  <2>2. ram' \in [Cells -> Nat] /\ adds' \in [Cells -> Nat]
    BY <1>4, <2>1, AddType DEF ReturnToUser, ResTypeOK
  <2>. QED
    BY <1>4, <2>2 DEF ReturnToUser, SpendReservation, ResTypeOK
<1>5. CASE UNCHANGED resVars
  BY <1>5 DEF resVars, ResTypeOK
<1>. QED
  BY <1>1, <1>2, <1>3, <1>4, <1>5 DEF ResNext

\* The types of the reservation, the counters and the threads' loops.
THEOREM ReservationTypes == ResSpec => []ResTypeOK
BY ResTypeInit, ResTypeNext, PTL DEF ResSpec

--------------------------------------------------------------------------------
LEMMA ResInvInit == ResInit => ResInv
<1>. SUFFICES ASSUME ResInit PROVE OwnReservation /\ NoLostUpdate
  BY ResTypeInit DEF ResInv
<1>. QED
  BY DEF ResInit, OwnReservation, NoLostUpdate

\* An addition that stores one more than the counter holds keeps counter and
\* history in step.
LEMMA AddCounts ==
  ASSUME ResTypeOK, NoLostUpdate, NEW c \in Cells, NEW n \in Nat,
         n = ram[c] + 1, Add(c, n)
  PROVE  NoLostUpdate'
BY DEF Add, ResTypeOK, NoLostUpdate

LEMMA ResInvNext == ResInv /\ [ResNext]_resVars => ResInv'
<1>. SUFFICES ASSUME ResInv, [ResNext]_resVars
              PROVE  OwnReservation' /\ NoLostUpdate'
  BY ResTypeNext DEF ResInv
<1>. USE DEF ResInv
<1>1. ASSUME NEW v \in Va, LoadReserved(v) PROVE OwnReservation' /\ NoLostUpdate'
  <2>1. OwnReservation'
    BY <1>1, CellOf DEF LoadReserved, ResTypeOK, OwnReservation
  <2>2. NoLostUpdate'
    BY <1>1 DEF LoadReserved, NoLostUpdate
  <2>. QED
    BY <2>1, <2>2
<1>2. CASE StoreConditional
  <2>1. OwnReservation'
    BY <1>2 DEF StoreConditional, SpendReservation, OwnReservation
  <2>2. CASE reservation = Pa[va[cur]]
    \* The reservation is a cell, so the thread's value is the counter's.
    <3>1. Pa[va[cur]] \in Cells
      BY CellOf DEF ResTypeOK
    <3>2. reservation # NoPa
      BY <2>2, <3>1
    <3>3. reg[cur] + 1 \in Nat /\ reg[cur] + 1 = ram[Pa[va[cur]]] + 1
      BY <2>2, <3>2 DEF OwnReservation, ResTypeOK
    <3>4. Add(Pa[va[cur]], reg[cur] + 1)
      BY <1>2, <2>2 DEF StoreConditional
    <3>. QED
      BY <2>1, <3>1, <3>3, <3>4, AddCounts
  <2>3. CASE reservation # Pa[va[cur]]
    BY <1>2, <2>1, <2>3 DEF StoreConditional, NoLostUpdate
  <2>. QED
    BY <2>2, <2>3
<1>3. ASSUME NEW v \in Va, AmoAdd(v) PROVE OwnReservation' /\ NoLostUpdate'
  \* The running thread is idle, so nobody holds a reservation.
  <2>1. reservation = NoPa
    BY <1>3 DEF AmoAdd, OwnReservation
  <2>2. OwnReservation'
    BY <1>3, <2>1 DEF AmoAdd, OwnReservation
  <2>3. Pa[v] \in Cells /\ ram[Pa[v]] + 1 \in Nat
    BY CellOf DEF ResTypeOK
  <2>4. NoLostUpdate'
    BY <1>3, <2>3, AddCounts DEF AmoAdd
  <2>. QED
    BY <2>2, <2>4
<1>4. ASSUME NEW t \in Threads, ReturnToUser(t) PROVE OwnReservation' /\ NoLostUpdate'
  <2>1. OwnReservation'
    BY <1>4 DEF ReturnToUser, SpendReservation, OwnReservation
  <2>2. \A c \in Cells : ram[c] + 1 \in Nat
    BY DEF ResTypeOK
  <2>3. CASE \E c \in Cells : Add(c, ram[c] + 1)
    BY <2>1, <2>2, <2>3, AddCounts
  <2>4. CASE UNCHANGED <<ram, adds>>
    BY <2>1, <2>4 DEF NoLostUpdate
  <2>. QED
    BY <1>4, <2>3, <2>4 DEF ReturnToUser
<1>5. CASE UNCHANGED resVars
  BY <1>5 DEF resVars, OwnReservation, NoLostUpdate
<1>. QED
  BY <1>1, <1>2, <1>3, <1>4, <1>5 DEF ResNext

\* No completed addition is ever lost, whoever runs when, although only SC clears
\* the reservation (execute.rs 800-846).
THEOREM NothingLost == ResSpec => []NoLostUpdate
<1>1. ResInv => NoLostUpdate
  BY DEF ResInv
<1>. QED
  BY <1>1, ResInvInit, ResInvNext, PTL DEF ResSpec
================================================================================
