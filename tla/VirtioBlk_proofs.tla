-------------------------- MODULE VirtioBlk_proofs --------------------------
(***************************************************************************)
(* Proofs about the disk's signalling, its reset, who owns a request, what *)
(* a request does, and that the device serves what BlockService promises,  *)
(* for rings of every size and every set of requests.                      *)
(***************************************************************************)
EXTENDS VirtioBlk, SequenceTheorems, FiniteSetTheorems, WellFoundedInduction, TLAPS

\* process_queue's loop runs only on a queue that is ready.
ServingReady == serving => queue_ready

LEMMA ServingReadyInit == Init => ServingReady
  BY DEF Init, ServingReady

LEMMA ServingReadyStep ==
  ASSUME ServingReady, [Next]_vars
  PROVE  ServingReady'
<1> USE DEF ServingReady, device, memory, driver
<1>1. CASE QueueNotify
  BY <1>1 DEF QueueNotify
<1>2. CASE ServeRequest \/ QueueDrained
  BY <1>2 DEF ServeRequest, QueueDrained
<1>3. CASE Reset \/ SetUp
  BY <1>3 DEF Reset, SetUp
<1>4. CASE Publish \/ ReadStatus \/ AckStatus \/ TakeUsed \/ HandlerDone
  BY <1>4 DEF Publish, ReadStatus, AckStatus, TakeUsed, HandlerDone
<1>5. CASE UNCHANGED vars
  BY <1>5 DEF vars
<1> QED
  BY <1>1, <1>2, <1>3, <1>4, <1>5 DEF Next

-----------------------------------------------------------------------------
(* Signalling.                                                             *)

LEMMA SignalledInit == Init => CompletionSignalled
  BY DEF Init, CompletionSignalled

LEMMA SignalledStep ==
  ASSUME CompletionSignalled, [Next]_vars
  PROVE  CompletionSignalled'
<1> USE DEF CompletionSignalled, device, memory, driver
<1>1. CASE QueueNotify \/ QueueDrained
  BY <1>1 DEF QueueNotify, QueueDrained
\* ... every completion raises the status.
<1>2. CASE ServeRequest
  BY <1>2 DEF ServeRequest, RaiseIrq
<1>3. CASE Reset
  BY <1>3 DEF Reset
\* ... a queue just set up has no completion.
<1>4. CASE SetUp
  BY <1>4 DEF SetUp
<1>5. CASE Publish \/ ReadStatus
  BY <1>5 DEF Publish, ReadStatus
\* ... the handler takes completions after it has acknowledged them.
<1>6. CASE AckStatus \/ TakeUsed
  BY <1>6 DEF AckStatus, TakeUsed
\* ... and stops when there is none.
<1>7. CASE HandlerDone
  BY <1>7 DEF HandlerDone
<1>8. CASE UNCHANGED vars
  BY <1>8 DEF vars
<1> QED
  BY <1>1, <1>2, <1>3, <1>4, <1>5, <1>6, <1>7, <1>8 DEF Next

\* No acknowledgement swallows the signal of a completion the handler has
\* not taken yet (process_queue raises it after idx, InterruptACK clears it).
THEOREM CompletionsSignalled == Spec => []CompletionSignalled
<1>1. CompletionSignalled /\ [Next]_vars => CompletionSignalled'
  BY SignalledStep
<1> QED
  BY SignalledInit, <1>1, PTL DEF Spec

-----------------------------------------------------------------------------
(* Reset.                                                                  *)

LEMMA QuietStepLemma ==
  ASSUME ServingReady, [Next]_vars
  PROVE  QuietStep
<1> USE DEF ServingReady, QuietStep, device, memory, driver
<1>1. CASE QueueNotify \/ QueueDrained
  BY <1>1 DEF QueueNotify, QueueDrained
<1>2. CASE ServeRequest
  BY <1>2 DEF ServeRequest
<1>3. CASE Reset \/ SetUp
  BY <1>3 DEF Reset, SetUp
<1>4. CASE Publish \/ ReadStatus \/ AckStatus \/ TakeUsed \/ HandlerDone
  BY <1>4 DEF Publish, ReadStatus, AckStatus, TakeUsed, HandlerDone
<1>5. CASE UNCHANGED vars
  BY <1>5 DEF vars
<1> QED
  BY <1>1, <1>2, <1>3, <1>4, <1>5 DEF Next

\* After a reset the device writes neither the used ring nor the image until
\* the driver sets a queue up (reset clears queue_ready, which process_queue
\* asks for before its loop).
THEOREM ResetIsQuiet == Spec => ResetQuiets
<1>1. ServingReady /\ [Next]_vars => ServingReady'
  BY ServingReadyStep
<1>2. ServingReady /\ [Next]_vars => [QuietStep]_vars
  BY QuietStepLemma
<1> QED
  BY ServingReadyInit, <1>1, <1>2, PTL DEF Spec, ResetQuiets

-----------------------------------------------------------------------------
(* Recursion over the descriptors.                                         *)

\* A set of numbers with 0 and the successor of each of its members has all.
LEMMA Induct ==
  ASSUME NEW T, 0 \in T, \A n \in Nat : n \in T => n + 1 \in T
  PROVE  Nat \subseteq T
<1> DEFINE R == OpToRel(<, Nat)
           U == Nat \ T
<1>1. SUFFICES ASSUME U # {} PROVE FALSE
  OBVIOUS
<1>2. IsWellFoundedOn(R, Nat)
  BY NatLessThanWellFounded, Zenon
<1>3. \A i, j \in Nat : i < j => <<i, j>> \in R
  BY DEF OpToRel
<1>4. U \subseteq Nat
  OBVIOUS
<1> HIDE DEF R
<1>5. PICK x \in U : \A y \in U : ~(<<y, x>> \in R)
  BY <1>1, <1>2, <1>4, WFMin
<1>6. x # 0 /\ x \in Nat
  OBVIOUS
<1>7. x - 1 \in Nat /\ x - 1 < x /\ (x - 1) + 1 = x
  BY <1>6
<1>8. x - 1 \notin U
  BY <1>3, <1>5, <1>6, <1>7
<1>9. x - 1 \in T
  BY <1>7, <1>8
<1> QED  BY <1>7, <1>9

\* The recursion of Runs defines a function: each of its prefixes does.
LEMMA RunsDef ==
  ASSUME NEW f, NEW b, NEW r, NEW fail, Len(r.bufs) \in Nat
  PROVE  /\ Runs(f, b, r, fail)[0] = Start(f, b, r)
         /\ \A k \in 1..Len(r.bufs) :
              Runs(f, b, r, fail)[k] = Transfer(Runs(f, b, r, fail)[k - 1], r, k, fail)
<1> DEFINE N == Len(r.bufs)
           Step(g, k) == IF k = 0 THEN Start(f, b, r) ELSE Transfer(g[k - 1], r, k, fail)
           T == {m \in Nat : \E g : g = [k \in 0..m |-> Step(g, k)]}
<1> HIDE DEF N
<1>1. 0 \in T
  <2> DEFINE g == [k \in 0..0 |-> Start(f, b, r)]
  <2>1. g = [k \in 0..0 |-> Step(g, k)]
    OBVIOUS
  <2> HIDE DEF Step
  <2> QED  BY <2>1
<1>2. ASSUME NEW m \in Nat, m \in T PROVE m + 1 \in T
  <2> PICK g : g = [k \in 0..m |-> Step(g, k)]
    BY <1>2
  <2> DEFINE h == [k \in 0..(m + 1) |-> IF k <= m THEN g[k] ELSE Step(g, k)]
  <2>1. \A k \in 0..(m + 1) : k # 0 => k - 1 \in 0..m /\ h[k - 1] = g[k - 1]
    OBVIOUS
  <2>2. \A k \in 0..(m + 1) : Step(h, k) = Step(g, k)
    BY <2>1
  <2>3. \A k \in 0..m : g[k] = Step(g, k)
    <3> HIDE DEF Step
    <3> QED OBVIOUS
  <2>4. \A k \in 0..(m + 1) : h[k] = Step(h, k)
    <3> HIDE DEF Step
    <3> QED BY <2>2, <2>3
  <2>5. h = [k \in 0..(m + 1) |-> Step(h, k)]
    <3>1. h = [k \in 0..(m + 1) |-> h[k]]
      OBVIOUS
    <3> HIDE DEF h, Step
    <3> QED BY <2>4, <3>1
  <2> HIDE DEF h, Step
  <2> QED  BY <2>5
<1> HIDE DEF T
<1>3. N \in T
  <2>1. Nat \subseteq T
    BY <1>1, <1>2, Induct
  <2> QED  BY <2>1 DEF N
<1> HIDE DEF Step
<1>4. PICK g : g = [k \in 0..N |-> Step(g, k)]
  BY <1>3 DEF T
<1> DEFINE run == Runs(f, b, r, fail)
<1>5. run = CHOOSE g_1 : g_1 = [k \in 0..N |-> Step(g_1, k)]
  BY DEF Runs, Step, N
<1> HIDE DEF run
<1>6. run = [k \in 0..N |-> Step(run, k)]
  BY <1>4, <1>5
<1>7. \A k \in 0..N : run[k] = Step(run, k)
  BY <1>6
<1> QED
  BY <1>7 DEF run, Step, N

-----------------------------------------------------------------------------
(* A request's buffers and their places on the disk.                       *)

\* The service counts as the device does.
LEMMA SameCardinality == ASSUME NEW S PROVE BS!Cardinality(S) = Cardinality(S)
  BY DEF BS!Cardinality, Cardinality

\* What RequestAssumption says of one request.
IsRequest(r) == r.sector \in Nat /\ r.bufs \in Seq([write : BOOLEAN, inram : BOOLEAN])

\* What is said of the members of a sequence.
LEMMA SeqFacts ==
  ASSUME NEW S, NEW s \in Seq(S)
  PROVE  Len(s) \in Nat /\ DOMAIN s = 1..Len(s) /\ \A k \in 1..Len(s) : s[k] \in S
  OBVIOUS

\* A request's buffers, and those transferred among them.
LEMMA Transfers ==
  ASSUME NEW r, IsRequest(r)
  PROVE  /\ Len(r.bufs) \in Nat /\ DOMAIN r.bufs = 1..Len(r.bufs)
         /\ BS!Transferred(r) \subseteq 1..Len(r.bufs)
         /\ \A k \in 1..Len(r.bufs) : r.bufs[k].write \in BOOLEAN /\ r.bufs[k].inram \in BOOLEAN
<1>1. /\ Len(r.bufs) \in Nat /\ DOMAIN r.bufs = 1..Len(r.bufs)
      /\ \A k \in 1..Len(r.bufs) : r.bufs[k] \in [write : BOOLEAN, inram : BOOLEAN]
  <2>1. r.bufs \in Seq([write : BOOLEAN, inram : BOOLEAN])
    BY DEF IsRequest
  <2> QED  BY <2>1, SeqFacts, Zenon
<1> QED  BY <1>1 DEF BS!Transferred

\* There are finitely many, and their places are counted from 0.
LEMMA PlaceTypes ==
  ASSUME NEW r, IsRequest(r), NEW i \in Nat
  PROVE  /\ IsFiniteSet(BS!Transferred(r)) /\ Cardinality(BS!Transferred(r)) \in Nat
         /\ IsFiniteSet({j \in BS!Transferred(r) : j < i})
         /\ BS!Place(r, i) \in 0..Cardinality(BS!Transferred(r))
<1> DEFINE S == BS!Transferred(r)
<1>1. IsFiniteSet(1..Len(r.bufs))
  BY Transfers, FS_Interval
<1>2. IsFiniteSet(S)
  BY <1>1, Transfers, FS_Subset
<1>3. {j \in S : j < i} \subseteq S
  OBVIOUS
<1>4. /\ IsFiniteSet({j \in S : j < i})
      /\ Cardinality({j \in S : j < i}) <= Cardinality(S)
  BY <1>2, <1>3, FS_Subset
<1>5. Cardinality(S) \in Nat /\ Cardinality({j \in S : j < i}) \in Nat
  BY <1>2, <1>4, FS_CardinalityType
<1>6. BS!Place(r, i) = Cardinality({j \in S : j < i})
  BY SameCardinality DEF BS!Place
<1> QED  BY <1>2, <1>4, <1>5, <1>6

\* The place of a buffer counts those transferred before it.
LEMMA PlaceSteps ==
  ASSUME NEW r, IsRequest(r)
  PROVE  /\ BS!Place(r, 1) = 0
         /\ BS!Place(r, Len(r.bufs) + 1) = Cardinality(BS!Transferred(r))
         /\ \A k \in 1..Len(r.bufs) :
              BS!Place(r, k + 1) = IF k \in BS!Transferred(r) THEN BS!Place(r, k) + 1
                                                               ELSE BS!Place(r, k)
<1> DEFINE S == BS!Transferred(r)
<1>0. Len(r.bufs) \in Nat /\ S \subseteq 1..Len(r.bufs)
  BY Transfers
<1>4. \A k : BS!Place(r, k) = Cardinality({j \in S : j < k})
  BY SameCardinality DEF BS!Place
<1> HIDE DEF S
<1>1. BS!Place(r, 1) = 0
  <2>1. \A j \in S : ~(j < 1)
    BY <1>0
  <2>2. {j \in S : j < 1} = {}
    BY <2>1, Zenon
  <2> QED  BY <1>4, <2>2, FS_EmptySet
<1>2. BS!Place(r, Len(r.bufs) + 1) = Cardinality(S)
  <2>1. \A j \in S : j < Len(r.bufs) + 1
    BY <1>0
  <2>2. {j \in S : j < Len(r.bufs) + 1} = S
    BY <2>1
  <2> QED  BY <1>4, <2>2
<1>3. ASSUME NEW k \in 1..Len(r.bufs)
      PROVE  BS!Place(r, k + 1) = IF k \in S THEN BS!Place(r, k) + 1 ELSE BS!Place(r, k)
  <2>1. IsFiniteSet({j \in S : j < k})
    BY <1>0, PlaceTypes DEF S
  <2>2. CASE k \in S
    <3>0. (\A j \in S : j < k + 1 <=> j < k \/ j = k) /\ ~(k < k)
      BY <1>0
    <3>1. {j \in S : j < k + 1} = {j \in S : j < k} \cup {k} /\ k \notin {j \in S : j < k}
      BY <2>2, <3>0
    <3>2. Cardinality({j \in S : j < k} \cup {k}) = Cardinality({j \in S : j < k}) + 1
      BY <2>1, <3>1, FS_AddElement
    <3> QED  BY <1>4, <2>2, <3>1, <3>2
  <2>3. CASE k \notin S
    <3>0. \A j \in S : j < k + 1 <=> j < k
      BY <1>0, <2>3
    <3>1. {j \in S : j < k + 1} = {j \in S : j < k}
      BY <3>0
    <3> QED  BY <1>4, <2>3, <3>1
  <2> QED  BY <2>2, <2>3
<1> QED  BY <1>1, <1>2, <1>3 DEF S

\* It grows with every buffer transferred.
LEMMA PlaceOrder ==
  ASSUME NEW r, IsRequest(r), NEW i \in BS!Transferred(r), NEW j \in Nat
  PROVE  /\ BS!Place(r, i) \in Nat /\ BS!Place(r, j) \in Nat
         /\ BS!Place(r, i) < Cardinality(BS!Transferred(r))
         /\ BS!Place(r, i) < BS!Place(r, j) <=> i < j
<1> DEFINE S == BS!Transferred(r)
<1>0. Len(r.bufs) \in Nat /\ i \in 1..Len(r.bufs) /\ S \subseteq 1..Len(r.bufs) /\ i \in Nat
  BY Transfers
<1>1. /\ Cardinality(S) \in Nat
      /\ BS!Place(r, i) \in 0..Cardinality(S) /\ BS!Place(r, j) \in 0..Cardinality(S)
  BY <1>0, PlaceTypes
<1>2. BS!Place(r, i + 1) = BS!Place(r, i) + 1 /\ i + 1 \in Nat
  BY <1>0, PlaceSteps
<1>3. BS!Place(r, i + 1) \in 0..Cardinality(S)
  BY <1>2, PlaceTypes
<1>4. ASSUME NEW a \in Nat, NEW c \in Nat, a <= c PROVE BS!Place(r, a) <= BS!Place(r, c)
  <2>1. {k \in S : k < a} \subseteq {k \in S : k < c}
    BY <1>0, <1>4
  <2>2. IsFiniteSet({k \in S : k < c})
    BY PlaceTypes
  <2>3. /\ BS!Place(r, a) = Cardinality({k \in S : k < a})
        /\ BS!Place(r, c) = Cardinality({k \in S : k < c})
    BY SameCardinality DEF BS!Place
  <2> QED  BY <2>1, <2>2, <2>3, FS_Subset
<1>5. i < j => BS!Place(r, i + 1) <= BS!Place(r, j)
  BY <1>0, <1>2, <1>4
<1>6. j <= i => BS!Place(r, j) <= BS!Place(r, i)
  BY <1>0, <1>4
<1> QED  BY <1>0, <1>1, <1>2, <1>3, <1>5, <1>6

\* Which buffers the first n places cover.
LEMMA Covered ==
  ASSUME NEW r, IsRequest(r), NEW k \in BS!Transferred(r)
  PROVE  /\ BS!Place(r, k) \in Nat
         /\ \A i \in BS!Transferred(r) :
              /\ BS!Place(r, i) \in Nat
              /\ BS!Place(r, i) < BS!Place(r, k) <=> i < k
              /\ BS!Place(r, i) < BS!Place(r, k) + 1 <=> i < k \/ i = k
              /\ BS!Place(r, i) = BS!Place(r, k) => i = k
<1>1. /\ k \in Nat /\ k + 1 \in Nat /\ BS!Transferred(r) \subseteq Nat
      /\ BS!Place(r, k + 1) = BS!Place(r, k) + 1
  BY Transfers, PlaceSteps
<1>2. /\ BS!Place(r, k) \in Nat
      /\ \A i \in BS!Transferred(r) :
            /\ BS!Place(r, i) \in Nat
            /\ BS!Place(r, i) < BS!Place(r, k) <=> i < k
            /\ BS!Place(r, i) < BS!Place(r, k + 1) <=> i < k + 1
            /\ BS!Place(r, k) < BS!Place(r, i) <=> k < i
  BY <1>1, PlaceOrder
<1> QED  BY <1>1, <1>2

\* A sector read fills the next buffer ...
LEMMA FilledStep ==
  ASSUME NEW r, IsRequest(r), NEW f, NEW b \in Seq(Data), Len(b) = Len(r.bufs),
         NEW k \in BS!Transferred(r), NEW p, p = r.sector + BS!Place(r, k)
  PROVE  [BS!Filled(r, b, f, BS!Place(r, k)) EXCEPT ![k] = f[p + 1]]
           = BS!Filled(r, b, f, BS!Place(r, k) + 1)
<1> DEFINE T == BS!Transferred(r)
           P(i) == BS!Place(r, i)
<1>1. \A i \in T : (P(i) < P(k) <=> i < k) /\ (P(i) < P(k) + 1 <=> i < k \/ i = k)
  BY Covered
<1>2. k \in DOMAIN b /\ ~(k < k)
  BY Transfers
<1> QED  BY <1>1, <1>2 DEF BS!Filled

\* ... and before the first the buffers are as they were.
LEMMA FilledNone ==
  ASSUME NEW r, IsRequest(r), NEW f, NEW b \in Seq(Data)
  PROVE  BS!Filled(r, b, f, 0) = b
<1>1. \A i \in BS!Transferred(r) : BS!Place(r, i) \in Nat
  BY Covered
<1>2. \A i \in BS!Transferred(r) : ~(BS!Place(r, i) < 0)
  BY <1>1
<1>3. BS!Filled(r, b, f, 0) = [i \in DOMAIN b |-> b[i]]
  BY <1>2 DEF BS!Filled
<1> QED  BY <1>3

\* Buffers filled with sectors of the image are as long as they were.
LEMMA FilledType ==
  ASSUME NEW r, IsRequest(r), NEW f \in Seq(Data), NEW b \in Seq(Data), NEW n \in Nat,
         n > 0 => r.sector + n <= Len(f)
  PROVE  BS!Filled(r, b, f, n) \in Seq(Data) /\ Len(BS!Filled(r, b, f, n)) = Len(b)
<1> DEFINE F(i) == IF i \in BS!Transferred(r) /\ BS!Place(r, i) < n
                   THEN f[r.sector + BS!Place(r, i) + 1] ELSE b[i]
<1>1. r.sector \in Nat
  BY DEF IsRequest
<1>2. \A i \in BS!Transferred(r) : BS!Place(r, i) \in Nat
  BY Covered
<1>3. \A i \in 1..Len(b) : F(i) \in Data
  <2> TAKE i \in 1..Len(b)
  <2>1. CASE i \in BS!Transferred(r) /\ BS!Place(r, i) < n
    <3>1. r.sector + BS!Place(r, i) + 1 \in 1..Len(f)
      BY <1>1, <1>2, <2>1
    <3> QED  BY <2>1, <3>1, SeqFacts
  <2>2. CASE ~(i \in BS!Transferred(r) /\ BS!Place(r, i) < n)
    BY <2>2
  <2> QED  BY <2>1, <2>2
<1>4. BS!Filled(r, b, f, n) = [i \in 1..Len(b) |-> F(i)]
  BY DEF BS!Filled
<1> HIDE DEF F
<1>5. [i \in 1..Len(b) |-> F(i)] \in Seq(Data) /\ Len([i \in 1..Len(b) |-> F(i)]) = Len(b)
  BY <1>3
<1> QED  BY <1>4, <1>5

\* The length of an image after n sectors from r.sector were written.
End(r, f, n) == IF n > 0 /\ r.sector + n > Len(f) THEN r.sector + n ELSE Len(f)

\* The image grows when a sector is written at its end or beyond.
LEMMA EndSteps ==
  ASSUME NEW r, IsRequest(r), NEW f \in Seq(Data), NEW n \in Nat
  PROVE  /\ End(r, f, n) \in Nat /\ Len(f) <= End(r, f, n)
         /\ n > 0 => r.sector + n <= End(r, f, n)
         /\ End(r, f, 0) = Len(f)
         /\ End(r, f, n + 1) = IF r.sector + n >= End(r, f, n) THEN r.sector + n + 1
                                                               ELSE End(r, f, n)
  BY DEF End, IsRequest

\* What an image holds that was written to: the buffers at their places ...
LEMMA WrittenAt ==
  ASSUME NEW r, IsRequest(r), NEW f, NEW b, NEW n \in Nat, NEW i \in BS!Transferred(r),
         NEW q \in 1..End(r, f, n), BS!Place(r, i) < n, q = r.sector + BS!Place(r, i) + 1
  PROVE  BS!Written(r, b, f, n)[q] = b[i]
<1> DEFINE new == {j \in BS!Transferred(r) : BS!Place(r, j) < n}
<1>1. \A j \in new : q = r.sector + BS!Place(r, j) + 1 => j = i
  <2>1. \A j \in new : /\ BS!Place(r, j) \in Nat /\ BS!Place(r, i) \in Nat /\ r.sector \in Nat
                       /\ BS!Place(r, j) = BS!Place(r, i) => j = i
    BY Covered DEF IsRequest
  <2> QED  BY <2>1
<1>2. i \in new
  OBVIOUS
<1>3. (CHOOSE j \in new : q = r.sector + BS!Place(r, j) + 1) = i
  <2> HIDE DEF new
  <2> QED  BY <1>1, <1>2
<1>4. BS!Written(r, b, f, n)[q] =
         IF \E j \in new : q = r.sector + BS!Place(r, j) + 1
         THEN b[CHOOSE j \in new : q = r.sector + BS!Place(r, j) + 1]
         ELSE IF q <= Len(f) THEN f[q] ELSE Zero
  BY DEF BS!Written, End
<1> HIDE DEF new
<1> QED  BY <1>2, <1>3, <1>4

\* ... and what it held before, or a hole, elsewhere.
LEMMA WrittenElsewhere ==
  ASSUME NEW r, NEW f, NEW b, NEW n, NEW q \in 1..End(r, f, n),
         \A i \in BS!Transferred(r) : BS!Place(r, i) < n => q # r.sector + BS!Place(r, i) + 1
  PROVE  BS!Written(r, b, f, n)[q] = IF q <= Len(f) THEN f[q] ELSE Zero
  BY DEF BS!Written, End

\* The image written is a sequence of that length ...
LEMMA WrittenDomain ==
  ASSUME NEW r, NEW f, NEW b, NEW n
  PROVE  BS!Written(r, b, f, n) = [q \in 1..End(r, f, n) |-> BS!Written(r, b, f, n)[q]]
  BY DEF BS!Written, End

\* ... of sectors ...
LEMMA WrittenType ==
  ASSUME NEW r, IsRequest(r), NEW f \in Seq(Data), NEW b \in Seq(Data), NEW n \in Nat,
         Len(b) = Len(r.bufs)
  PROVE  BS!Written(r, b, f, n) \in Seq(Data) /\ Len(BS!Written(r, b, f, n)) = End(r, f, n)
<1> DEFINE w == BS!Written(r, b, f, n)
           P(i) == BS!Place(r, i)
<1>1. End(r, f, n) \in Nat
  BY EndSteps
<1> HIDE DEF P, w
<1>2. \A q \in 1..End(r, f, n) : w[q] \in Data
  <2> TAKE q \in 1..End(r, f, n)
  <2>1. CASE \E i \in BS!Transferred(r) : P(i) < n /\ q = r.sector + P(i) + 1
    <3> PICK i \in BS!Transferred(r) : P(i) < n /\ q = r.sector + P(i) + 1
      BY <2>1
    <3>1. w[q] = b[i]
      BY WrittenAt DEF P, w
    <3>2. i \in 1..Len(b)
      BY Transfers
    <3> QED  BY <3>1, <3>2, SeqFacts
  <2>2. CASE ~\E i \in BS!Transferred(r) : P(i) < n /\ q = r.sector + P(i) + 1
    <3>1. w[q] = IF q <= Len(f) THEN f[q] ELSE Zero
      BY <2>2, WrittenElsewhere DEF P, w
    <3> QED  BY <1>1, <3>1, SeqFacts, DataAssumption
  <2> QED  BY <2>1, <2>2
<1>3. w = [q \in 1..End(r, f, n) |-> w[q]]
  BY WrittenDomain DEF w
<1>4. w \in [1..End(r, f, n) -> Data]
  BY <1>2, <1>3
<1>5. w \in Seq(Data) /\ Len(w) = End(r, f, n)
  BY <1>1, <1>4
<1> QED  BY <1>5 DEF w

\* ... and the one before when nothing is written.
LEMMA WrittenNone ==
  ASSUME NEW r, IsRequest(r), NEW f \in Seq(Data), NEW b
  PROVE  BS!Written(r, b, f, 0) = f
<1> DEFINE w == BS!Written(r, b, f, 0)
<1>1. \A i \in BS!Transferred(r) : BS!Place(r, i) \in Nat
  BY Covered
<1>2. \A i \in BS!Transferred(r) : ~(BS!Place(r, i) < 0)
  BY <1>1
<1>3. End(r, f, 0) = Len(f)
  BY EndSteps
<1>4. \A q \in 1..Len(f) : w[q] = f[q]
  <2> TAKE q \in 1..Len(f)
  <2>1. w[q] = IF q <= Len(f) THEN f[q] ELSE Zero
    BY <1>2, <1>3, WrittenElsewhere
  <2>2. q <= Len(f)
    OBVIOUS
  <2> QED  BY <2>1, <2>2
<1>5. w = [q \in 1..Len(f) |-> w[q]]
  BY <1>3, WrittenDomain
<1> HIDE DEF w
<1>6. w = f
  BY <1>4, <1>5
<1> QED  BY <1>6 DEF w

\* A sector written at the next place.
LEMMA WrittenStep ==
  ASSUME NEW r, IsRequest(r), NEW f \in Seq(Data), NEW b \in Seq(Data), Len(b) = Len(r.bufs),
         NEW k \in BS!Transferred(r)
  PROVE  WriteAt(BS!Written(r, b, f, BS!Place(r, k)), r.sector + BS!Place(r, k), b[k])
           = BS!Written(r, b, f, BS!Place(r, k) + 1)
<1> DEFINE P(i) == BS!Place(r, i)
           T == BS!Transferred(r)
           n == P(k)
           pos == r.sector + n
           w == BS!Written(r, b, f, n)
           v == BS!Written(r, b, f, n + 1)
<1>1. n \in Nat /\ n + 1 \in Nat /\ r.sector \in Nat /\ Len(f) \in Nat
  BY Covered DEF IsRequest
<1>2. w \in Seq(Data) /\ Len(w) = End(r, f, n)
  BY <1>1, WrittenType
<1>3. /\ End(r, f, n) \in Nat /\ Len(f) <= End(r, f, n)
      /\ n > 0 => r.sector + n <= End(r, f, n)
      /\ End(r, f, n + 1) = IF pos >= End(r, f, n) THEN pos + 1 ELSE End(r, f, n)
  BY <1>1, EndSteps
<1>4. \A i \in T : /\ P(i) \in Nat
                   /\ P(i) < n <=> i < k
                   /\ P(i) < n + 1 <=> i < k \/ i = k
                   /\ P(i) = n => i = k
  BY Covered
<1> HIDE DEF n, P, T, w, v
<1>5. \A q \in 1..End(r, f, n + 1) :
         v[q] = IF q = pos + 1 THEN b[k] ELSE IF q <= End(r, f, n) THEN w[q] ELSE Zero
  <2> TAKE q \in 1..End(r, f, n + 1)
  <2>1. CASE q = pos + 1
    <3>1. P(k) < n + 1 /\ q = r.sector + P(k) + 1 /\ k \in T
      BY <1>1, <2>1 DEF n, T
    <3>2. v[q] = b[k]
      BY <1>1, <3>1, WrittenAt DEF P, T, v
    <3> QED  BY <2>1, <3>2
  <2>2. CASE q # pos + 1 /\ q <= End(r, f, n)
    <3>0. q \in 1..End(r, f, n)
      BY <1>3, <2>2
    <3>1. CASE \E i \in T : P(i) < n /\ q = r.sector + P(i) + 1
      <4> PICK i \in T : P(i) < n /\ q = r.sector + P(i) + 1
        BY <3>1
      <4>1. w[q] = b[i]
        BY <1>1, <3>0, WrittenAt DEF n, P, T, w
      <4>2. P(i) < n + 1
        BY <1>1, <1>4
      <4>3. v[q] = b[i]
        BY <1>1, <4>2, WrittenAt DEF n, P, T, v
      <4> QED  BY <2>2, <4>1, <4>3
    <3>2. CASE \A i \in T : P(i) < n => q # r.sector + P(i) + 1
      <4>1. \A i \in T : P(i) < n + 1 => q # r.sector + P(i) + 1
        BY <1>1, <1>4, <2>2, <3>2
      <4>2. v[q] = IF q <= Len(f) THEN f[q] ELSE Zero
        BY <4>1, WrittenElsewhere DEF n, P, T, v
      <4>3. w[q] = IF q <= Len(f) THEN f[q] ELSE Zero
        BY <3>0, <3>2, WrittenElsewhere DEF n, P, T, w
      <4> QED  BY <2>2, <4>2, <4>3
    <3> QED  BY <3>1, <3>2
  <2>3. CASE q # pos + 1 /\ ~(q <= End(r, f, n))
    <3>1. \A i \in T : P(i) < n + 1 => q # r.sector + P(i) + 1
      BY <1>1, <1>3, <1>4, <2>3
    <3>2. v[q] = IF q <= Len(f) THEN f[q] ELSE Zero
      BY <3>1, WrittenElsewhere DEF n, P, T, v
    <3>3. ~(q <= Len(f))
      BY <1>1, <1>3, <2>3
    <3> QED  BY <2>3, <3>2, <3>3
  <2> QED  BY <2>1, <2>2, <2>3
<1>6. v = [q \in 1..End(r, f, n + 1) |-> v[q]]
  BY WrittenDomain DEF v
<1>7. WriteAt(w, pos, b[k]) =
        [q \in 1..End(r, f, n + 1) |->
           IF q = pos + 1 THEN b[k] ELSE IF q <= End(r, f, n) THEN w[q] ELSE Zero]
  BY <1>2, <1>3 DEF WriteAt
<1>8. WriteAt(w, pos, b[k]) = v
  BY <1>5, <1>6, <1>7
<1> QED  BY <1>8 DEF n, P, w, v

-----------------------------------------------------------------------------
(* Sectors transferred in part.                                            *)

\* Buffers none of which was are as they were.
LEMMA TearNone ==
  ASSUME NEW r, NEW b, b = [i \in DOMAIN b |-> b[i]], NEW n
  PROVE  BS!Tear(r, b, n, 0) = b
  BY DEF BS!Tear

\* Tearing keeps the number of buffers.
LEMMA TearType ==
  ASSUME NEW r, NEW b \in Seq(Data), NEW n, NEW part
  PROVE  BS!Tear(r, b, n, part) \in Seq(Data) /\ Len(BS!Tear(r, b, n, part)) = Len(b)
<1> DEFINE F(i) == IF part = 1 /\ i \in BS!Transferred(r) /\ BS!Place(r, i) = n THEN Partial ELSE b[i]
<1>1. \A i \in 1..Len(b) : F(i) \in Data
  BY DataAssumption, SeqFacts
<1>2. BS!Tear(r, b, n, part) = [i \in 1..Len(b) |-> F(i)]
  BY DEF BS!Tear
<1> HIDE DEF F
<1>3. [i \in 1..Len(b) |-> F(i)] \in Seq(Data) /\ Len([i \in 1..Len(b) |-> F(i)]) = Len(b)
  BY <1>1
<1> QED  BY <1>2, <1>3

\* It touches the next buffer alone.
LEMMA TearAt ==
  ASSUME NEW r, IsRequest(r), NEW b \in Seq(Data), Len(b) = Len(r.bufs),
         NEW k \in BS!Transferred(r), NEW part, part = 1
  PROVE  BS!Tear(r, b, BS!Place(r, k), part) = [b EXCEPT ![k] = Partial]
<1>1. \A i \in BS!Transferred(r) : BS!Place(r, i) = BS!Place(r, k) <=> i = k
  BY Covered
<1>2. DOMAIN b = 1..Len(b) /\ k \in DOMAIN b /\ BS!Transferred(r) \subseteq DOMAIN b
  BY Transfers, SeqFacts
<1> QED  BY <1>1, <1>2 DEF BS!Tear

\* The image after n sectors does not depend on the buffers not yet transferred.
LEMMA WrittenAgrees ==
  ASSUME NEW r, IsRequest(r), NEW f \in Seq(Data), NEW b, NEW c, NEW n \in Nat,
         \A i \in BS!Transferred(r) : BS!Place(r, i) < n => b[i] = c[i]
  PROVE  BS!Written(r, b, f, n) = BS!Written(r, c, f, n)
<1> DEFINE v == BS!Written(r, b, f, n)
           w == BS!Written(r, c, f, n)
           P(i) == BS!Place(r, i)
<1> HIDE DEF P, v, w
<1>1. \A q \in 1..End(r, f, n) : v[q] = w[q]
  <2> TAKE q \in 1..End(r, f, n)
  <2>1. CASE \E i \in BS!Transferred(r) : P(i) < n /\ q = r.sector + P(i) + 1
    <3> PICK i \in BS!Transferred(r) : P(i) < n /\ q = r.sector + P(i) + 1
      BY <2>1
    <3>1. v[q] = b[i] /\ w[q] = c[i]
      BY WrittenAt DEF P, v, w
    <3>2. b[i] = c[i]
      BY DEF P
    <3> QED  BY <3>1, <3>2
  <2>2. CASE ~\E i \in BS!Transferred(r) : P(i) < n /\ q = r.sector + P(i) + 1
    <3>1. /\ v[q] = IF q <= Len(f) THEN f[q] ELSE Zero
          /\ w[q] = IF q <= Len(f) THEN f[q] ELSE Zero
      BY <2>2, WrittenElsewhere DEF P, v, w
    <3> QED  BY <3>1
  <2> QED  BY <2>1, <2>2
<1>2. /\ v = [q \in 1..End(r, f, n) |-> v[q]]
      /\ w = [q \in 1..End(r, f, n) |-> w[q]]
  BY WrittenDomain DEF v, w
<1>3. v = w
  BY <1>1, <1>2
<1> QED  BY <1>3 DEF v, w

\* A part of a sector written at the next place.
LEMMA TornStep ==
  ASSUME NEW r, IsRequest(r), NEW f \in Seq(Data), NEW b \in Seq(Data), Len(b) = Len(r.bufs),
         NEW k \in BS!Transferred(r), NEW part, part = 1
  PROVE  WriteAt(BS!Written(r, b, f, BS!Place(r, k)), r.sector + BS!Place(r, k), Partial)
           = BS!Written(r, BS!Tear(r, b, BS!Place(r, k), part), f, BS!Place(r, k) + 1)
<1> DEFINE n == BS!Place(r, k)
           c == BS!Tear(r, b, n, part)
<1>1. c \in Seq(Data) /\ Len(c) = Len(b)
  BY TearType
<1>2. c[k] = Partial /\ \A i \in BS!Transferred(r) : i # k => c[i] = b[i]
  <2>1. c = [b EXCEPT ![k] = Partial]
    BY TearAt
  <2>2. DOMAIN b = 1..Len(b) /\ k \in DOMAIN b /\ BS!Transferred(r) \subseteq DOMAIN b
    BY Transfers, SeqFacts
  <2> HIDE DEF c
  <2> QED  BY <2>1, <2>2
<1>3. n \in Nat /\ \A i \in BS!Transferred(r) : BS!Place(r, i) < n => i # k
  <2>1. n \in Nat
    BY Covered
  <2> QED  BY <2>1
<1> HIDE DEF c, n
<1>4. BS!Written(r, b, f, n) = BS!Written(r, c, f, n)
  BY <1>2, <1>3, WrittenAgrees
<1>5. WriteAt(BS!Written(r, c, f, n), r.sector + n, c[k]) = BS!Written(r, c, f, n + 1)
  BY <1>1, WrittenStep DEF n
<1>6. WriteAt(BS!Written(r, b, f, n), r.sector + n, Partial) = BS!Written(r, c, f, n + 1)
  BY <1>2, <1>4, <1>5
<1> QED  BY <1>6 DEF n, c

\* A part of a sector read into the next buffer.
LEMMA TornBuf ==
  ASSUME NEW r, IsRequest(r), NEW f, NEW b \in Seq(Data), Len(b) = Len(r.bufs),
         NEW k \in BS!Transferred(r), NEW part, part = 1
  PROVE  BS!Tear(r, BS!Filled(r, b, f, BS!Place(r, k)), BS!Place(r, k), part)
           = [BS!Filled(r, b, f, BS!Place(r, k)) EXCEPT ![k] = Partial]
<1>1. \A i \in BS!Transferred(r) : BS!Place(r, i) = BS!Place(r, k) <=> i = k
  BY Covered
<1> DEFINE c == BS!Filled(r, b, f, BS!Place(r, k))
<1>2. DOMAIN c = DOMAIN b /\ c = [i \in DOMAIN b |-> c[i]]
  BY DEF BS!Filled
<1>3. k \in DOMAIN b
  BY Transfers
<1> HIDE DEF c
<1>4. BS!Tear(r, c, BS!Place(r, k), part) = [c EXCEPT ![k] = Partial]
  BY <1>1, <1>2, <1>3 DEF BS!Tear
<1> QED  BY <1>4 DEF c

-----------------------------------------------------------------------------
(* What do_request does.                                                   *)

\* Whether a descriptor's transfer works: a buffer in RAM, no failure of the
\* host, and a sector to read.
CanTransfer(r, k, fail, f, p) ==
  r.bufs[k].inram /\ k # fail.at /\ (r.type = "in" => p < Len(f))

\* Whether it moves a part of the sector before it fails.
Tears(r, k, fail, f, p) ==
  r.bufs[k].inram /\ k = fail.at /\ fail.torn /\ (r.type = "in" => p < Len(f))

\* After a failure the loop is over.
LEMMA TransferOver ==
  ASSUME NEW r, NEW k, NEW fail, NEW F, NEW B, NEW p, NEW a,
         a = [file |-> F, buf |-> B, pos |-> p, ok |-> FALSE]
  PROVE  Transfer(a, r, k, fail) = a
<1>1. a.ok = FALSE
  OBVIOUS
<1> QED  BY <1>1 DEF Transfer, ReadDesc, WriteDesc

\* What n sectors of a request leave behind, and a part of the next if part = 1.
FileAfter(f, b, r, n, part) ==
  IF r.type = "in" THEN f
  ELSE BS!Written(r, BS!Tear(r, b, n, part), f, n + part)
BufAfter(f, b, r, n, part) ==
  IF r.type = "in" THEN BS!Tear(r, BS!Filled(r, b, f, n), n, part) ELSE b

LEMMA Intact ==
  ASSUME NEW f, NEW b \in Seq(Data), NEW r, NEW n \in Nat
  PROVE  /\ FileAfter(f, b, r, n, 0) = IF r.type = "in" THEN f ELSE BS!Written(r, b, f, n)
         /\ BufAfter(f, b, r, n, 0) = IF r.type = "in" THEN BS!Filled(r, b, f, n) ELSE b
<1> DEFINE c == BS!Filled(r, b, f, n)
<1>1. c = [i \in DOMAIN c |-> c[i]]
  BY DEF BS!Filled
<1>2. b = [i \in DOMAIN b |-> b[i]]
  OBVIOUS
<1> HIDE DEF c
<1>3. BS!Tear(r, c, n, 0) = c /\ BS!Tear(r, b, n, 0) = b
  BY <1>1, <1>2, TearNone
<1>4. n + 0 = n
  OBVIOUS
<1> QED  BY <1>3, <1>4 DEF c, FileAfter, BufAfter

\* What a pass over the first descriptors of a read or a write has done: it
\* went through m of them, and stopped there if m is short of k.
Passed(f, b, r, fail, k, m, ok, part) ==
  LET n == BS!Place(r, m + 1)
      a == Runs(f, b, r, fail)[k]
  IN  /\ a = [file |-> FileAfter(f, b, r, n, part), buf |-> BufAfter(f, b, r, n, part),
              pos  |-> r.sector + n, ok |-> ok]
      /\ r.type = "in" /\ n + part > 0 => r.sector + n + part <= Len(f)
      /\ part = 1 => ~ok /\ fail.at \in 1..Len(r.bufs) /\ n < Cardinality(BS!Transferred(r))
      /\ ok => m = k /\ \A i \in BS!Transferred(r) : i <= k => r.bufs[i].inram
      /\ ~ok => \/ fail.at \in 1..Len(r.bufs)
                \/ \E i \in BS!Transferred(r) : ~r.bufs[i].inram
                \/ /\ r.type = "in" /\ BS!Transferred(r) # {}
                   /\ r.sector + Cardinality(BS!Transferred(r)) > Len(f)

\* Before the first descriptor nothing was done ...
LEMMA PassedStart ==
  ASSUME NEW r, IsRequest(r), r.type \in {"in", "out"}, NEW fail,
         NEW f \in Seq(Data), NEW b \in Seq(Data), Len(b) = Len(r.bufs)
  PROVE  Passed(f, b, r, fail, 0, 0, TRUE, 0)
<1>1. BS!Place(r, 1) = 0 /\ Len(r.bufs) \in Nat /\ r.sector \in Nat
  BY PlaceSteps, Transfers DEF IsRequest
<1>2. BS!Filled(r, b, f, 0) = b /\ BS!Written(r, b, f, 0) = f
  BY FilledNone, WrittenNone
<1>3. Runs(f, b, r, fail)[0] = Start(f, b, r)
  BY <1>1, RunsDef
<1>4. \A i \in BS!Transferred(r) : ~(i <= 0)
  BY Transfers
<1>5. 0 + 1 = 1 /\ r.sector + 0 = r.sector /\ ~(0 > 0)
  BY <1>1
<1>6. FileAfter(f, b, r, 0, 0) = f /\ BufAfter(f, b, r, 0, 0) = b /\ 0 + 0 = 0
  BY <1>2, Intact
<1> DEFINE n == BS!Place(r, 0 + 1)
<1>7. n = 0 /\ n + 0 = 0 /\ ~(n + 0 > 0) /\ r.sector + n = r.sector
  BY <1>1, <1>5
<1> HIDE DEF n
<1>8. Runs(f, b, r, fail)[0] =
        [file |-> FileAfter(f, b, r, n, 0), buf |-> BufAfter(f, b, r, n, 0),
         pos |-> r.sector + n, ok |-> TRUE]
  BY <1>3, <1>6, <1>7 DEF Start
<1> QED  BY <1>4, <1>7, <1>8 DEF Passed, n

\* ... after a failure nothing changes ...
LEMMA PassedOver ==
  ASSUME NEW r, IsRequest(r), NEW fail, NEW f, NEW b, NEW k \in 1..Len(r.bufs), NEW m,
         NEW ok \in BOOLEAN, ~ok, NEW part, Passed(f, b, r, fail, k - 1, m, ok, part)
  PROVE  Passed(f, b, r, fail, k, m, ok, part)
<1> DEFINE n == BS!Place(r, m + 1)
           before == Runs(f, b, r, fail)[k - 1]
           F == FileAfter(f, b, r, n, part)
           B == BufAfter(f, b, r, n, part)
           p == r.sector + n
<1>1. Len(r.bufs) \in Nat
  BY Transfers
<1>2. Runs(f, b, r, fail)[k] = Transfer(before, r, k, fail)
  BY <1>1, RunsDef
<1>3. before = [file |-> F, buf |-> B, pos |-> p, ok |-> FALSE]
  BY DEF Passed
<1>4. Runs(f, b, r, fail)[k] = before
  <2> HIDE DEF F, B, p, before
  <2> QED  BY <1>2, <1>3, TransferOver
<1> QED  BY <1>4 DEF Passed

\* ... each descriptor is skipped, transferred or fails ...
LEMMA PassedStep ==
  ASSUME NEW r, IsRequest(r), r.type \in {"in", "out"}, NEW fail,
         NEW f \in Seq(Data), NEW b \in Seq(Data), Len(b) = Len(r.bufs),
         NEW k \in 1..Len(r.bufs), NEW m \in 0..(k - 1), NEW ok \in BOOLEAN, ok,
         NEW part \in 0..1, Passed(f, b, r, fail, k - 1, m, ok, part)
  PROVE  \E m2 \in 0..k, ok2 \in BOOLEAN, part2 \in 0..1 :
            Passed(f, b, r, fail, k, m2, ok2, part2)
<1> DEFINE T == BS!Transferred(r)
           P(i) == BS!Place(r, i)
           before == Runs(f, b, r, fail)[k - 1]
           after == Runs(f, b, r, fail)[k]
           d == r.bufs[k]
<1>0. r.sector \in Nat /\ Len(f) \in Nat
  BY DEF IsRequest
<1>1. /\ Len(r.bufs) \in Nat
      /\ d.write \in BOOLEAN /\ d.inram \in BOOLEAN /\ (k - 1) + 1 = k
      /\ T \subseteq 1..Len(r.bufs)
  BY Transfers
<1>2. after = Transfer(before, r, k, fail)
  BY <1>1, RunsDef
<1>3. k \in T <=> d.write = (r.type = "in")
  BY Transfers DEF BS!Transferred
<1> DEFINE F(n) == IF r.type = "in" THEN f ELSE BS!Written(r, b, f, n)
           B(n) == IF r.type = "in" THEN BS!Filled(r, b, f, n) ELSE b
           Out(n, o) == [file |-> F(n), buf |-> B(n), pos |-> r.sector + n, ok |-> o]
<1>12. part = 0
  BY DEF Passed
<1>13. \A n \in Nat : /\ FileAfter(f, b, r, n, 0) = F(n) /\ BufAfter(f, b, r, n, 0) = B(n)
                       /\ n + 0 = n /\ r.sector + n + 0 = r.sector + n
  BY <1>0, Intact
<1>14. \A l \in Nat : P(l + 1) \in Nat
  <2> TAKE l \in Nat
  <2>1. l + 1 \in Nat
    OBVIOUS
  <2>2. P(l + 1) \in 0..Cardinality(T) /\ Cardinality(T) \in Nat
    BY <2>1, PlaceTypes
  <2> QED  BY <2>2
<1>15. m \in Nat /\ k \in Nat
  BY <1>1
<1>4. before = Out(P(m + 1), ok)
  BY <1>12, <1>13, <1>14, <1>15 DEF Passed
<1>16. P(m + 1) \in Nat /\ P(k + 1) \in Nat
  BY <1>14, <1>15
<1>5. \A l, o : P(l + 1) \in Nat => (Passed(f, b, r, fail, k, l, o, part) <=>
         /\ after = Out(P(l + 1), o)
         /\ r.type = "in" /\ P(l + 1) > 0 => r.sector + P(l + 1) <= Len(f)
         /\ o => l = k /\ \A i \in T : i <= k => r.bufs[i].inram
         /\ ~o => \/ fail.at \in 1..Len(r.bufs)
                  \/ \E i \in T : ~r.bufs[i].inram
                  \/ /\ r.type = "in" /\ T # {}
                     /\ r.sector + Cardinality(T) > Len(f))
  BY <1>12, <1>13 DEF Passed
<1>6. /\ r.type = "in" /\ P(m + 1) > 0 => r.sector + P(m + 1) <= Len(f)
      /\ ok => m = k - 1 /\ \A i \in T : i <= k - 1 => r.bufs[i].inram
      /\ ~ok => \/ fail.at \in 1..Len(r.bufs)
                \/ \E i \in T : ~r.bufs[i].inram
                \/ r.type = "in" /\ T # {} /\ r.sector + Cardinality(T) > Len(f)
  BY <1>12, <1>13, <1>14, <1>15 DEF Passed
<1>11. IsRequest(r) /\ f \in Seq(Data) /\ b \in Seq(Data) /\ Len(b) = Len(r.bufs)
  OBVIOUS
<1>7. ASSUME NEW n, NEW p, p = r.sector + n
      PROVE  LET out == Transfer(Out(n, TRUE), r, k, fail)
             IN  /\ k \notin T => out = Out(n, TRUE)
                 /\ k \in T /\ CanTransfer(r, k, fail, F(n), p) =>
                      out = [file |-> IF r.type = "in" THEN f ELSE WriteAt(F(n), p, b[k]),
                             buf  |-> IF r.type = "in" THEN [B(n) EXCEPT ![k] = f[p + 1]] ELSE b,
                             pos  |-> p + 1, ok |-> TRUE]
                 /\ k \in T /\ ~CanTransfer(r, k, fail, F(n), p) /\ ~Tears(r, k, fail, F(n), p)
                      => out = Out(n, FALSE)
                 /\ k \in T /\ Tears(r, k, fail, F(n), p) =>
                      out = [file |-> IF r.type = "in" THEN f ELSE WriteAt(F(n), p, Partial),
                             buf  |-> IF r.type = "in" THEN [B(n) EXCEPT ![k] = Partial] ELSE b,
                             pos  |-> p, ok |-> FALSE]
  <2> DEFINE G == F(n)
             C == B(n)
             a == Out(n, TRUE)
  <2>1. r.type = "in" => G = f
    OBVIOUS
  <2>2. r.type # "in" => C = b
    OBVIOUS
  <2>3. /\ a = [file |-> G, buf |-> C, pos |-> p, ok |-> TRUE]
        /\ Out(n, FALSE) = [file |-> G, buf |-> C, pos |-> p, ok |-> FALSE]
    BY <1>7
  <2> DEFINE out == Transfer(a, r, k, fail)
             works == CanTransfer(r, k, fail, G, p)
             tears == Tears(r, k, fail, G, p)
             G2 == IF r.type = "in" THEN G ELSE WriteAt(G, p, C[k])
             C2 == IF r.type = "in" THEN [C EXCEPT ![k] = G[p + 1]] ELSE C
             G3 == IF r.type = "in" THEN G ELSE WriteAt(G, p, Partial)
             C3 == IF r.type = "in" THEN [C EXCEPT ![k] = Partial] ELSE C
  <2> HIDE DEF G, C, a, T, Out
  <2>4. /\ k \notin T => out = a
        /\ k \in T /\ works => out = [file |-> G2, buf |-> C2, pos |-> p + 1, ok |-> TRUE]
        /\ k \in T /\ ~works /\ ~tears => out = [file |-> G, buf |-> C, pos |-> p, ok |-> FALSE]
        /\ k \in T /\ tears => out = [file |-> G3, buf |-> C3, pos |-> p, ok |-> FALSE]
    <3>1. a.file = G /\ a.buf = C /\ a.pos = p /\ a.ok = TRUE
      BY <2>3
    <3>2. d.write \in BOOLEAN /\ (works <=> d.inram /\ k # fail.at /\ (r.type = "in" => p < Len(G)))
          /\ (tears <=> d.inram /\ k = fail.at /\ fail.torn /\ (r.type = "in" => p < Len(G)))
      BY <1>1 DEF CanTransfer, Tears
    <3>3. CASE r.type = "in"
      <4>1. out = ReadDesc(a, r, k, fail) /\ (k \in T <=> d.write)
        BY <1>3, <3>2, <3>3 DEF Transfer
      <4>2. k \notin T => out = a
        BY <3>1, <4>1 DEF ReadDesc
      <4>3. k \in T /\ works => out = [a EXCEPT !.pos = @ + 1, !.buf[k] = G[p + 1]]
        BY <3>1, <3>2, <3>3, <4>1 DEF ReadDesc
      <4>4. k \in T /\ ~works /\ ~tears => out = [a EXCEPT !.ok = FALSE]
        BY <3>1, <3>2, <3>3, <4>1 DEF ReadDesc
      <4>5. k \in T /\ tears => out = [a EXCEPT !.ok = FALSE, !.buf[k] = Partial]
        BY <3>1, <3>2, <3>3, <4>1 DEF ReadDesc
      <4> QED  BY <2>3, <3>3, <4>2, <4>3, <4>4, <4>5
    <3>4. CASE r.type = "out"
      <4>1. out = WriteDesc(a, r, k, fail) /\ (k \in T <=> ~d.write)
        BY <1>3, <3>2, <3>4 DEF Transfer
      <4>2. k \notin T => out = a
        BY <3>1, <4>1 DEF WriteDesc
      <4>3. k \in T /\ works => out = [a EXCEPT !.pos = @ + 1, !.file = WriteAt(G, p, C[k])]
        BY <3>1, <3>2, <3>4, <4>1 DEF WriteDesc
      <4>4. k \in T /\ ~works /\ ~tears => out = [a EXCEPT !.ok = FALSE]
        BY <3>1, <3>2, <3>4, <4>1 DEF WriteDesc
      <4>5. k \in T /\ tears => out = [a EXCEPT !.ok = FALSE, !.file = WriteAt(G, p, Partial)]
        BY <3>1, <3>2, <3>4, <4>1 DEF WriteDesc
      <4> QED  BY <2>3, <3>4, <4>2, <4>3, <4>4, <4>5
    <3> QED  BY <3>3, <3>4
  <2> HIDE DEF out, works, tears
  <2>5. CASE r.type = "in"
    BY <2>1, <2>3, <2>4, <2>5 DEF a, G, C, out, works, tears
  <2>6. CASE r.type # "in"
    BY <2>2, <2>3, <2>4, <2>6 DEF a, G, C, out, works, tears
  <2> QED  BY <2>5, <2>6
<1> HIDE DEF T, P, before, after, Passed
\* ... for a descriptor that is skipped nothing changes
<1>9. CASE ok /\ k \notin T
  <2>1. m = k - 1 /\ m + 1 = k /\ P(k + 1) = P(k)
    BY <1>1, <1>6, <1>9, PlaceSteps DEF P, T
  <2>2. after = Out(P(k + 1), ok)
    BY <1>2, <1>4, <1>7, <1>9, <2>1
  <2>3. \A i \in T : i <= k => i <= k - 1
    BY <1>1, <1>9
  <2>4. Passed(f, b, r, fail, k, k, ok, part)
    <3> HIDE DEF Out
    <3> QED  BY <1>5, <1>6, <1>9, <1>16, <2>1, <2>2, <2>3
  <2>5. k \in 0..k
    BY <1>1
  <2> QED  BY <2>4, <2>5
\* ... a transfer that works extends what was done by one sector, one that
\* does not leaves it there
<1>10. CASE ok /\ k \in T
  <2>1. m = k - 1 /\ m + 1 = k
    BY <1>1, <1>6, <1>10
  <2>2. P(k + 1) = P(k) + 1 /\ P(k) \in Nat /\ P(k) < Cardinality(T) /\ Cardinality(T) \in Nat
    BY <1>1, <1>10, PlaceSteps, PlaceOrder, PlaceTypes DEF P, T
  <2> DEFINE p == r.sector + P(k)
             works == d.inram /\ k # fail.at /\ (r.type = "in" => p < Len(f))
             tears == d.inram /\ k = fail.at /\ fail.torn /\ (r.type = "in" => p < Len(f))
  <2>3. p + 1 = r.sector + P(k + 1) /\ p \in Nat
    BY ONLY <1>0, <2>2
  <2>4. /\ CanTransfer(r, k, fail, F(P(k)), p) <=> works
        /\ Tears(r, k, fail, F(P(k)), p) <=> tears
    BY DEF CanTransfer, Tears
  <2>5. CASE works
    <3>1. after = [file |-> IF r.type = "in" THEN f ELSE WriteAt(F(P(k)), p, b[k]),
                   buf  |-> IF r.type = "in" THEN [B(P(k)) EXCEPT ![k] = f[p + 1]] ELSE b,
                   pos  |-> p + 1, ok |-> TRUE]
      <4> HIDE DEF Out, F, B, works, tears, p
      <4> QED  BY <1>2, <1>4, <1>7, <1>10, <2>1, <2>4, <2>5 DEF p
    <3>2. r.type = "in" => [B(P(k)) EXCEPT ![k] = f[p + 1]] = B(P(k) + 1)
      BY <1>10, <1>11, FilledStep DEF P, T
    <3>3. r.type # "in" => WriteAt(F(P(k)), p, b[k]) = F(P(k) + 1)
      BY <1>10, <1>11, WrittenStep DEF P, T
    <3>4. after = Out(P(k + 1), TRUE)
      <4>1. CASE r.type = "in"
        BY <2>2, <2>3, <3>1, <3>2, <4>1
      <4>2. CASE r.type # "in"
        BY <2>2, <2>3, <3>1, <3>3, <4>2
      <4> QED  BY <4>1, <4>2
    <3>5. \A i \in T : i <= k => r.bufs[i].inram
      <4>1. \A i \in T : i <= k => i <= k - 1 \/ i = k
        BY <1>1
      <4> QED  BY <1>6, <1>10, <2>5, <4>1
    <3>6. r.type = "in" => r.sector + P(k + 1) <= Len(f)
      BY ONLY <1>0, <2>3, <2>5
    <3>7. Passed(f, b, r, fail, k, k, TRUE, part)
      <4> HIDE DEF Out
      <4> QED  BY <1>5, <1>16, <3>4, <3>5, <3>6
    <3> QED  BY <3>7, k \in 0..k
  <2>6. CASE ~works /\ ~tears
    <3>1. after = Out(P(m + 1), FALSE)
      <4> HIDE DEF Out, F, B, works, tears, p
      <4> QED  BY <1>2, <1>4, <1>7, <1>10, <2>1, <2>4, <2>6 DEF p
    <3>2. \/ fail.at \in 1..Len(r.bufs)
          \/ \E i \in T : ~r.bufs[i].inram
          \/ r.type = "in" /\ T # {} /\ r.sector + Cardinality(T) > Len(f)
      <4>1. k \in T /\ T # {} /\ k \in 1..Len(r.bufs)
        BY <1>10
      <4>2. ~d.inram \/ k = fail.at \/ (r.type = "in" /\ ~(p < Len(f)))
        BY <2>6
      <4>3. ~(p < Len(f)) => r.sector + Cardinality(T) > Len(f)
        BY ONLY <1>0, <2>2
      <4> QED  BY <4>1, <4>2, <4>3, Zenon
    <3>3. Passed(f, b, r, fail, k, m, FALSE, part)
      <4> HIDE DEF Out
      <4> QED  BY <1>5, <1>6, <1>16, <3>1, <3>2
    <3>4. m \in 0..k
      BY <1>1
    <3> QED  BY <3>3, <3>4
  <2>7. CASE tears
    <3>0. PICK part2 \in 0..1 : part2 = 1
      OBVIOUS
    <3> DEFINE n == P(k)
               A == FileAfter(f, b, r, n, part2)
               C == BufAfter(f, b, r, n, part2)
    <3>1. after = [file |-> IF r.type = "in" THEN f ELSE WriteAt(F(n), p, Partial),
                   buf  |-> IF r.type = "in" THEN [B(n) EXCEPT ![k] = Partial] ELSE b,
                   pos  |-> p, ok |-> FALSE]
      <4> HIDE DEF Out, F, B, works, tears, p
      <4> QED  BY <1>2, <1>4, <1>7, <1>10, <2>1, <2>4, <2>7 DEF p
    <3>2. r.type = "in" => C = [B(n) EXCEPT ![k] = Partial]
      <4>1. r.type = "in" => C = BS!Tear(r, BS!Filled(r, b, f, n), n, part2) /\ B(n) = BS!Filled(r, b, f, n)
        BY DEF BufAfter
      <4>2. BS!Tear(r, BS!Filled(r, b, f, n), n, part2) = [BS!Filled(r, b, f, n) EXCEPT ![k] = Partial]
        BY ONLY <1>10, <1>11, <3>0, TornBuf DEF P, T, n
      <4> QED  BY <4>1, <4>2
    <3>3. r.type # "in" => A = WriteAt(F(n), p, Partial)
      BY <1>10, <1>11, <3>0, TornStep DEF FileAfter, P, T
    <3>4. after = [file |-> A, buf |-> C, pos |-> r.sector + n, ok |-> FALSE]
      BY <3>1, <3>2, <3>3 DEF FileAfter, BufAfter
    <3>5. r.type = "in" /\ n + part2 > 0 => r.sector + n + part2 <= Len(f)
      <4>2. r.type = "in" => p < Len(f)
        BY <2>7
      <4> HIDE DEF n
      <4>3. n \in Nat /\ p = r.sector + n
        BY <2>2 DEF n
      <4> QED  BY ONLY <1>0, <3>0, <4>2, <4>3
    <3>6. fail.at \in 1..Len(r.bufs) /\ n < Cardinality(T)
      BY <2>2, <2>7
    <3>7. Passed(f, b, r, fail, k, m, FALSE, part2)
      <4> HIDE DEF A, C, n
      <4> QED  BY <2>1, <3>0, <3>4, <3>5, <3>6 DEF Passed, A, C, n, P, T, after
    <3>8. m \in 0..k
      BY <1>1
    <3> QED  BY <3>7, <3>8
  <2> QED  BY <2>5, <2>6, <2>7
<1> QED  BY <1>9, <1>10

\* ... and so it is after the last.
LEMMA PassedAll ==
  ASSUME NEW r, IsRequest(r), r.type \in {"in", "out"}, NEW fail,
         NEW f \in Seq(Data), NEW b \in Seq(Data), Len(b) = Len(r.bufs)
  PROVE  \E m \in 0..Len(r.bufs), ok \in BOOLEAN, part \in 0..1 :
            Passed(f, b, r, fail, Len(r.bufs), m, ok, part)
<1> DEFINE T == {k \in Nat : k <= Len(r.bufs) =>
                    \E m \in 0..k, ok \in BOOLEAN, part \in 0..1 :
                      Passed(f, b, r, fail, k, m, ok, part)}
<1>1. Len(r.bufs) \in Nat
  BY Transfers
<1>2. 0 \in T
  <2>1. Passed(f, b, r, fail, 0, 0, TRUE, 0)
    BY PassedStart
  <2>2. 0 \in 0..0 /\ 0 \in 0..1 /\ TRUE \in BOOLEAN
    OBVIOUS
  <2> QED  BY <2>1, <2>2, Zenon
<1>3. ASSUME NEW j \in Nat, j \in T PROVE j + 1 \in T
  <2>1. SUFFICES ASSUME j + 1 <= Len(r.bufs)
                 PROVE  \E m \in 0..(j + 1), ok \in BOOLEAN, part \in 0..1 :
                           Passed(f, b, r, fail, j + 1, m, ok, part)
    OBVIOUS
  <2> DEFINE k == j + 1
  <2>2. k \in 1..Len(r.bufs) /\ k - 1 = j /\ j <= Len(r.bufs)
    BY <1>1, <2>1
  <2>3. PICK m \in 0..j, ok \in BOOLEAN, part \in 0..1 :
          Passed(f, b, r, fail, j, m, ok, part)
    BY <1>3, <2>2
  <2>4. m \in 0..(k - 1) /\ m \in 0..k /\ Passed(f, b, r, fail, k - 1, m, ok, part)
    BY <2>2, <2>3
  <2> HIDE DEF k
  <2>5. CASE ok
    <3>1. \E m2 \in 0..k, ok2 \in BOOLEAN, part2 \in 0..1 :
            Passed(f, b, r, fail, k, m2, ok2, part2)
      BY <2>2, <2>4, <2>5, PassedStep
    <3> QED  BY <3>1 DEF k
  <2>6. CASE ~ok
    <3>1. Passed(f, b, r, fail, k, m, ok, part)
      BY <2>2, <2>4, <2>6, PassedOver
    <3> QED  BY <2>4, <3>1 DEF k
  <2> QED  BY <2>5, <2>6
<1> HIDE DEF T
<1>4. Len(r.bufs) \in T
  BY <1>1, <1>2, <1>3, Induct
<1> QED  BY <1>4 DEF T

\* What a request does to the image and to its buffers: the effect of n of
\* its sectors, all of them when it succeeds, and of part of the next if
\* part = 1.
Served(f, b, r, a, n, part) ==
  /\ a.file = IF r.type = "out"
              THEN BS!Written(r, BS!Tear(r, b, n, part), f, n + part) ELSE f
  /\ a.buf = IF r.type = "in" THEN BS!Tear(r, BS!Filled(r, b, f, n), n, part) ELSE b
  /\ a.ok \in BOOLEAN
  /\ a.ok => n = Cardinality(BS!Transferred(r)) /\ BS!InRange(r, f)
  /\ disk = "sound" /\ BS!InRange(r, f) => a.ok
  /\ part = 1 => ~a.ok /\ disk # "sound" /\ n < Cardinality(BS!Transferred(r))
  /\ r.type = "in" /\ n + part > 0 => r.sector + n + part <= Len(f)

\* do_request has such an effect, for every request and every failure.
LEMMA ServedRequest ==
  ASSUME NEW r, IsRequest(r), NEW f \in Seq(Data), NEW b \in Seq(Data),
         Len(b) = Len(r.bufs), NEW fail \in Failures(r), disk \in {"none", "sound", "failing"}
  PROVE  \E n \in 0..Cardinality(BS!Transferred(r)), part \in 0..1 :
            Served(f, b, r, do_request(f, b, r, fail), n, part)
<1> DEFINE N == Len(r.bufs)
           T == BS!Transferred(r)
           a == do_request(f, b, r, fail)
           stopped == [Start(f, b, r) EXCEPT !.ok = FALSE]
<1>1. N \in Nat /\ r.sector \in Nat
  BY Transfers DEF IsRequest
<1>2. Cardinality(T) \in Nat /\ 0 \in 0..Cardinality(T) /\ Cardinality(T) \in 0..Cardinality(T)
  <2>1. Cardinality(T) \in Nat
    BY PlaceTypes
  <2> QED  BY <2>1
<1>3. BS!Filled(r, b, f, 0) = b /\ BS!Written(r, b, f, 0) = f
  BY FilledNone, WrittenNone
<1>4. disk = "sound" => fail.at = N + 1
  BY DEF Failures
<1>12. PICK whole \in 0..1 : whole = 0
  OBVIOUS
<1>11. /\ 0 + whole = 0 /\ BS!Tear(r, BS!Filled(r, b, f, 0), 0, 0) = b
       /\ BS!Written(r, BS!Tear(r, b, 0, whole), f, 0 + whole) = f
  <2>1. b = [i \in DOMAIN b |-> b[i]]
    OBVIOUS
  <2>2. BS!Tear(r, b, 0, whole) = b
    BY <1>12, <2>1, TearNone
  <2>3. 0 + whole = 0
    BY <1>12
  <2> QED  BY <1>3, <2>2, <2>3
\* ... no disk, a seek that fails, or a type the device does not know
<1>5. CASE a = stopped /\ (disk = "sound" => ~BS!InRange(r, f))
  <2>1. a.file = f /\ a.buf = b /\ a.ok = FALSE
    BY <1>5 DEF Start
  <2>2. Served(f, b, r, a, 0, whole)
    BY <1>5, <1>11, <1>12, <2>1 DEF Served
  <2> QED  BY <1>2, <2>2
<1>6. CASE disk # "none" /\ r.type \in {"in", "out"} /\ fail.at # 0
  <2>1. PICK m \in 0..N, ok \in BOOLEAN, part \in 0..1 : Passed(f, b, r, fail, N, m, ok, part)
    BY <1>6, PassedAll
  <2> DEFINE n == BS!Place(r, m + 1)
  <2>2. a = Runs(f, b, r, fail)[N]
    BY <1>6 DEF do_request
  <2>3. n \in 0..Cardinality(T)
    <3>1. m + 1 \in Nat
      OBVIOUS
    <3> QED  BY <3>1, PlaceTypes
  <2>4. a = [file |-> FileAfter(f, b, r, n, part), buf |-> BufAfter(f, b, r, n, part),
             pos  |-> r.sector + n, ok |-> ok]
    BY <2>1, <2>2 DEF Passed
  <2>5. /\ a.file = IF r.type = "out"
                     THEN BS!Written(r, BS!Tear(r, b, n, part), f, n + part) ELSE f
        /\ a.buf = IF r.type = "in" THEN BS!Tear(r, BS!Filled(r, b, f, n), n, part) ELSE b
        /\ a.ok = ok
    BY <1>6, <2>4 DEF FileAfter, BufAfter
  <2>6. /\ r.type = "in" /\ n + part > 0 => r.sector + n + part <= Len(f)
        /\ part = 1 => ~ok /\ fail.at \in 1..N /\ n < Cardinality(T)
        /\ ok => m = N /\ \A i \in T : i <= N => r.bufs[i].inram
        /\ ~ok => \/ fail.at \in 1..N
                  \/ \E i \in T : ~r.bufs[i].inram
                  \/ r.type = "in" /\ T # {} /\ r.sector + Cardinality(T) > Len(f)
    BY <2>1 DEF Passed
  <2> HIDE DEF n, a
  <2>7. ok => n = Cardinality(T) /\ BS!InRange(r, f)
    <3>1. ok => n = Cardinality(T)
      BY <2>6, PlaceSteps DEF n
    <3>2. ok => \A i \in T : r.bufs[i].inram
      BY <2>6, Transfers
    <3>3. T # {} => Cardinality(T) > 0
      <4>1. \A i \in T : BS!Place(r, i) \in Nat /\ BS!Place(r, i) < Cardinality(T)
        BY PlaceOrder, 0 \in Nat
      <4> QED  BY <1>2, <4>1
    <3>4. CASE r.type = "in"
      <4>1. ok => T = {} \/ r.sector + Cardinality(T) <= Len(f)
        BY <1>1, <1>2, <2>6, <3>1, <3>3, <3>4
      <4> QED  BY <3>1, <3>2, <3>4, <4>1, SameCardinality DEF BS!InRange
    <3>5. CASE r.type = "out"
      BY <3>1, <3>2, <3>5 DEF BS!InRange
    <3> QED  BY <1>6, <3>4, <3>5
  <2>8. disk = "sound" /\ BS!InRange(r, f) => ok
    <3> SUFFICES ASSUME disk = "sound", BS!InRange(r, f), ~ok PROVE FALSE
      OBVIOUS
    <3>1. ~(fail.at \in 1..N)
      BY <1>1, <1>4
    <3>2. \A i \in T : r.bufs[i].inram
      BY <1>6 DEF BS!InRange
    <3>3. r.type = "in" => T = {} \/ r.sector + Cardinality(T) <= Len(f)
      BY SameCardinality, Zenon DEF BS!InRange
    <3> QED  BY <1>1, <1>2, <2>6, <3>1, <3>2, <3>3
  <2>9. part = 1 => disk # "sound"
    BY <1>1, <1>4, <2>6
  <2>10. Served(f, b, r, a, n, part)
    BY <2>5, <2>6, <2>7, <2>8, <2>9 DEF Served
  <2> QED  BY <2>3, <2>10 DEF a
<1>7. CASE disk # "none" /\ r.type = "flush"
  <2>1. a = Start(f, b, r)
    BY <1>7 DEF do_request
  <2>2. a.file = f /\ a.buf = b /\ a.ok = TRUE
    BY <2>1 DEF Start
  <2>3. BS!InRange(r, f)
    BY <1>7 DEF BS!InRange
  <2> HIDE DEF a, T
  <2>5. r.type # "in" /\ r.type # "out" /\ whole # 1
    BY <1>7, <1>12
  <2>6. a.ok \in BOOLEAN
    BY <2>2, Zenon
  <2>4. Served(f, b, r, a, Cardinality(T), whole)
    BY <2>2, <2>3, <2>5, <2>6 DEF Served, T
  <2> QED  BY <1>2, <2>4 DEF a, T
<1>8. CASE disk = "none"
  <2>1. a = stopped /\ disk # "sound"
    BY <1>8 DEF do_request
  <2> QED  BY <1>5, <2>1, Zenon
<1>9. CASE disk # "none" /\ r.type \in {"in", "out"} /\ fail.at = 0
  <2>1. a = stopped
    BY <1>9 DEF do_request
  <2>2. disk # "sound"
    BY <1>1, <1>4, <1>9
  <2> QED  BY <1>5, <2>1, <2>2, Zenon
<1>10. CASE disk # "none" /\ r.type \notin {"in", "out", "flush"}
  <2>1. ~BS!InRange(r, f)
    BY <1>10 DEF BS!InRange
  <2> QED  BY <1>5, <1>10, <2>1 DEF do_request
<1> QED  BY <1>6, <1>7, <1>8, <1>9, <1>10

-----------------------------------------------------------------------------
(* Arithmetic of indices that wrap.                                        *)

\* What the remainder and the quotient are, and that they are the only such pair.
LEMMA Remainder ==
  ASSUME NEW m \in Nat \ {0}, NEW x \in Int
  PROVE  x = m * (x \div m) + (x % m) /\ x % m \in 0..(m - 1) /\ x \div m \in Int
  OBVIOUS

\* A multiple of m between -m and m is 0.
LEMMA SmallMultiple ==
  ASSUME NEW m \in Nat \ {0}, NEW q \in Int, -m < m * q, m * q < m
  PROVE  q = 0
<1>1. CASE q >= 1
  <2>1. m * q = m + m * (q - 1) /\ m * (q - 1) >= 0
    BY <1>1
  <2> QED  BY <2>1
<1>2. CASE q <= -1
  <2>1. m * q = -m + m * (q + 1) /\ m * (q + 1) <= 0
    BY <1>2
  <2> QED  BY <2>1
<1> QED  BY <1>1, <1>2

LEMMA RemainderUnique ==
  ASSUME NEW m \in Nat \ {0}, NEW x \in Int, NEW q \in Int, NEW r \in 0..(m - 1), x = m * q + r
  PROVE  x % m = r
<1>1. x = m * (x \div m) + (x % m) /\ x % m \in 0..(m - 1) /\ x \div m \in Int
  BY Remainder
<1> DEFINE d == q - (x \div m)
<1>2. m * d = m * q - m * (x \div m) /\ m * q \in Int /\ m * (x \div m) \in Int
  BY <1>1
<1>3. m * d = (x % m) - r
  BY <1>1, <1>2
<1>4. d = 0
  <2> HIDE DEF d
  <2>1. d \in Int /\ -m < m * d /\ m * d < m
    BY <1>1, <1>3 DEF d
  <2> QED  BY <2>1, SmallMultiple
<1> QED  BY <1>1, <1>3, <1>4

\* Indices wrap: how far b is ahead of a.
LEMMA DistanceCases ==
  ASSUME NEW a \in Idx, NEW b \in Idx
  PROVE  Distance(a, b) = IF a <= b THEN b - a ELSE b - a + IdxMod
<1> USE IdxModAssumption DEF Idx, Distance
<1>1. CASE a <= b
  <2>1. b - a = IdxMod * 0 + (b - a) /\ b - a \in 0..(IdxMod - 1)
    BY <1>1
  <2> QED  BY <1>1, <2>1, RemainderUnique
<1>2. CASE ~(a <= b)
  <2>1. b - a = IdxMod * (-1) + (b - a + IdxMod) /\ b - a + IdxMod \in 0..(IdxMod - 1)
    BY <1>2
  <2> QED  BY <1>2, <2>1, RemainderUnique
<1> QED  BY <1>1, <1>2

LEMMA SuccessorCases ==
  ASSUME NEW a \in Idx
  PROVE  Successor(a) = (IF a = IdxMod - 1 THEN 0 ELSE a + 1) /\ Successor(a) \in Idx
<1> USE IdxModAssumption DEF Idx, Successor
<1>1. CASE a = IdxMod - 1
  <2>1. a + 1 = IdxMod * 1 + 0 /\ 0 \in 0..(IdxMod - 1)
    BY <1>1
  <2> QED  BY <1>1, <2>1, RemainderUnique
<1>2. CASE a # IdxMod - 1
  <2>1. a + 1 = IdxMod * 0 + (a + 1) /\ a + 1 \in 0..(IdxMod - 1)
    BY <1>2
  <2> QED  BY <1>2, <2>1, RemainderUnique
<1> QED  BY <1>1, <1>2

\* Distances after a step of either index.
LEMMA DistanceSteps ==
  ASSUME NEW a \in Idx, NEW b \in Idx
  PROVE  /\ Distance(a, b) \in 0..(IdxMod - 1)
         /\ Distance(a, b) = 0 <=> a = b
         /\ Distance(a, b) < IdxMod - 1 => Distance(a, Successor(b)) = Distance(a, b) + 1
         /\ a # b => Distance(Successor(a), b) = Distance(a, b) - 1
<1>1. Successor(a) \in Idx /\ Successor(b) \in Idx
  BY SuccessorCases
<1>2. /\ Distance(a, b) = IF a <= b THEN b - a ELSE b - a + IdxMod
      /\ Distance(a, Successor(b)) =
           IF a <= Successor(b) THEN Successor(b) - a ELSE Successor(b) - a + IdxMod
      /\ Distance(Successor(a), b) =
           IF Successor(a) <= b THEN b - Successor(a) ELSE b - Successor(a) + IdxMod
  BY <1>1, DistanceCases
<1> HIDE DEF Distance
<1> QED  BY <1>1, <1>2, SuccessorCases, IdxModAssumption DEF Idx

\* Slots: the ring's size divides the indices' range.
LEMMA SlotRange ==
  ASSUME NEW a \in Int PROVE a % QueueSize \in Slot
  BY QueueSizeAssumption, Remainder DEF Slot

\* A turn of the index is a whole number of turns of the ring.
LEMMA WholeTurns ==
  ASSUME NEW x \in Int
  PROVE  (x + IdxMod) % QueueSize = x % QueueSize
<1> USE QueueSizeAssumption, IdxModAssumption
<1> DEFINE n == QueueSize
           h == IdxMod \div n
           q == x \div n
           r == x % n
<1>1. IdxMod = n * h + (IdxMod % n) /\ h \in Int
  BY Remainder
<1>2. x = n * q + r /\ r \in 0..(n - 1) /\ q \in Int
  BY Remainder
<1>3. IdxMod = n * h
  BY <1>1
<1>4. x + IdxMod = n * (q + h) + r
  <2>1. n * (q + h) = n * q + n * h
    BY <1>1, <1>2
  <2> HIDE DEF h, q, r
  <2> QED  BY <1>1, <1>2, <1>3, <2>1
<1>5. q + h \in Int /\ x + IdxMod \in Int
  BY <1>1, <1>2
<1> HIDE DEF h, q, r
<1>6. (x + IdxMod) % n = r
  BY <1>2, <1>4, <1>5, RemainderUnique
<1> QED  BY <1>6 DEF r

\* Entries less than a ring apart lie in different slots.
LEMMA SlotsDiffer ==
  ASSUME NEW a \in Int, NEW i \in Nat, NEW j \in Nat, i < j, j < QueueSize + i
  PROVE  (a + i) % QueueSize # (a + j) % QueueSize
<1> USE QueueSizeAssumption
<1> DEFINE n == QueueSize
           p == (a + i) \div n
           q == (a + j) \div n
<1>1. a + i = n * p + ((a + i) % n) /\ p \in Int /\ (a + i) % n \in Int
  BY Remainder
<1>2. a + j = n * q + ((a + j) % n) /\ q \in Int /\ (a + j) % n \in Int
  BY Remainder
<1> HIDE DEF p, q
<1>3. SUFFICES ASSUME (a + i) % n = (a + j) % n PROVE FALSE
  OBVIOUS
<1>4. n * (q - p) = n * q - n * p /\ n * p \in Int /\ n * q \in Int
  BY <1>1, <1>2
<1>5. n * (q - p) = j - i
  BY <1>1, <1>2, <1>3, <1>4
<1>6. q - p \in Int /\ -n < n * (q - p) /\ n * (q - p) < n
  BY <1>1, <1>2, <1>5
<1>7. q - p = 0
  BY <1>6, SmallMultiple
<1>8. n * (q - p) = 0
  BY <1>7
<1> QED  BY <1>5, <1>8

\* Counting from the next index, and where an index stands from an earlier one.
LEMMA SlotAfterSuccessor ==
  ASSUME NEW a \in Idx, NEW k \in Nat
  PROVE  (Successor(a) + k) % QueueSize = (a + (k + 1)) % QueueSize
<1> USE IdxModAssumption, QueueSizeAssumption DEF Idx
<1>1. CASE a = IdxMod - 1
  <2>0. k \in Int
    OBVIOUS
  <2>1. (k + IdxMod) % QueueSize = k % QueueSize
    BY ONLY <2>0, WholeTurns
  <2>2. a + (k + 1) = k + IdxMod /\ Successor(a) + k = k
    BY <1>1, SuccessorCases
  <2> QED  BY <2>1, <2>2
<1>2. CASE a # IdxMod - 1
  <2>1. Successor(a) + k = a + (k + 1)
    BY <1>2, SuccessorCases
  <2> QED  BY <2>1
<1> QED  BY <1>1, <1>2

LEMMA SlotAtDistance ==
  ASSUME NEW a \in Idx, NEW b \in Idx
  PROVE  b % QueueSize = (a + Distance(a, b)) % QueueSize
<1> USE IdxModAssumption, QueueSizeAssumption
<1> HIDE DEF Distance
<1>1. CASE a <= b
  <2>1. a + Distance(a, b) = b
    BY <1>1, DistanceCases DEF Idx
  <2> QED  BY <2>1
<1>2. CASE ~(a <= b)
  <2>1. a + Distance(a, b) = b + IdxMod /\ b \in Int
    BY <1>2, DistanceCases DEF Idx
  <2> QED  BY <2>1, WholeTurns
<1> QED  BY <1>1, <1>2

-----------------------------------------------------------------------------
(* Who owns a request: the two rings.                                      *)

USE QueueSizeAssumption, NoRequestAssumption

LEMMA Empty == EmptyRing \in [Slot -> Tag]
  BY TagAssumption DEF EmptyRing

LEMMA ZeroIdx == 0 \in Idx
  BY IdxModAssumption DEF Idx

LEMMA RingInit == ASSUME Init PROVE RingInv
<1>1. RingTypes
  BY Empty, ZeroIdx DEF Init, RingTypes
<1>2. Quiet /\ ~queue_ready
  BY DEF Init, Quiet, Outstanding
<1> QED  BY <1>1, <1>2 DEF RingInv

\* The rings' heads are tags, and fewer entries wait than the indices can count.
LEMMA Ranges ==
  ASSUME RingTypes
  PROVE  /\ Pending \in 0..(IdxMod - 1) /\ Unreaped \in 0..(IdxMod - 1)
         /\ QueueSize <= IdxMod - 1
         /\ \A i \in Nat : Waiting(i) \in Tag /\ Answered(i) \in Tag
<1>1. Pending \in 0..(IdxMod - 1) /\ Unreaped \in 0..(IdxMod - 1)
  BY DistanceSteps DEF RingTypes, Pending, Unreaped
<1>2. \A i \in Nat : last_avail_idx + i \in Int /\ last_used_idx + i \in Int
  BY DEF RingTypes, Idx
<1>3. \A i \in Nat : /\ (last_avail_idx + i) % QueueSize \in Slot
                     /\ (last_used_idx + i) % QueueSize \in Slot
  BY <1>2, SlotRange
<1>4. \A i \in Nat : Waiting(i) \in Tag /\ Answered(i) \in Tag
  BY <1>3 DEF RingTypes, Waiting, Answered
<1> QED  BY <1>1, <1>4, IdxModAssumption

\* What leaves the rings, the indices and the requests alone.
LEMMA RingsUntouched ==
  ASSUME RingInv, UNCHANGED <<queue_num, queue_ready, last_avail_idx, desc, status, avail_idx,
                              avail_ring, used_idx, used_ring, last_used_idx>>,
         serving' \in BOOLEAN, serving' => queue_ready
  PROVE  RingInv'
<1>1. RingTypes'
  BY DEF RingInv, RingTypes
<1>2. /\ Pending' = Pending /\ Unreaped' = Unreaped /\ Outstanding' = Outstanding
      /\ \A i : Waiting(i)' = Waiting(i) /\ Answered(i)' = Answered(i)
  BY DEF Pending, Unreaped, Outstanding, Waiting, Answered
<1>3. Quiet'
  BY <1>2 DEF RingInv, Quiet
<1>4. queue_ready => Counted' /\ Injective' /\ Covering'
  BY <1>2 DEF RingInv, Counted, Injective, Covering
<1> QED  BY <1>1, <1>3, <1>4 DEF RingInv

\* Publishing appends a free head to the waiting entries.
LEMMA PublishRings ==
  ASSUME RingInv, FullQueue, Publish
  PROVE  /\ RingTypes'
         /\ used_idx' = last_avail_idx'
         /\ Pending < QueueSize - Unreaped
         /\ Pending' = Pending + 1 /\ Unreaped' = Unreaped
         /\ \A i \in 0..(Pending - 1) : Waiting(i)' = Waiting(i)
         /\ \A j \in Nat : Answered(j)' = Answered(j)
         /\ \E t \in Tag \ Outstanding :
              /\ Outstanding' = Outstanding \cup {t}
              /\ status' = [status EXCEPT ![t] = "none"]
              /\ \A i \in 0..Pending : i = Pending => Waiting(i)' = t
<1> USE DEF device, driver
<1>1. RingTypes /\ queue_ready /\ Counted
  BY DEF RingInv, Publish
<1>2. PICK t \in Tag \ Outstanding, r \in Request :
         /\ desc' = [desc EXCEPT ![t] = r]
         /\ status' = [status EXCEPT ![t] = "none"]
         /\ avail_ring' = [avail_ring EXCEPT ![avail_idx % queue_num] = t]
  BY DEF Publish
<1>3. /\ Pending \in 0..(IdxMod - 1) /\ Unreaped \in 0..(IdxMod - 1)
      /\ IdxMod \in Nat /\ QueueSize <= IdxMod - 1
  BY <1>1, Ranges, IdxModAssumption
<1>4. Pending + Unreaped < QueueSize
  BY <1>1 DEF Publish, RingTypes, Counted
<1>5. avail_idx' = Successor(avail_idx) /\ avail_idx' \in Idx
  BY <1>1, SuccessorCases DEF Publish, RingTypes
<1>6. RingTypes'
  <2>1. desc' \in [Tag -> Request \cup {NoRequest}] /\ status' \in [Tag -> {"none", "ok", "ioerr"}]
    BY <1>1, <1>2 DEF RingTypes
  <2>2. avail_ring' \in [Slot -> Tag]
    BY <1>1, <1>2 DEF RingTypes
  <2> QED  BY <1>1, <1>5, <2>1, <2>2 DEF Publish, RingTypes
<1>7. Unreaped' = Unreaped /\ \A j \in Nat : Answered(j)' = Answered(j)
  BY DEF Publish, Unreaped, Answered
<1>8. Pending' = Pending + 1
  <2>1. last_avail_idx' = last_avail_idx
    BY DEF Publish
  <2>2. Pending < IdxMod - 1
    BY <1>3, <1>4
  <2> QED  BY <1>1, <1>5, <2>1, <2>2, DistanceSteps DEF RingTypes, Pending
<1>9. avail_idx % QueueSize = (last_avail_idx + Pending) % QueueSize
  BY <1>1, SlotAtDistance DEF RingTypes, Pending
<1>10. avail_idx % QueueSize \in Slot
  BY <1>1, SlotRange DEF RingTypes, Idx
<1>11. ASSUME NEW i \in 0..(Pending - 1) PROVE Waiting(i)' = Waiting(i)
  <2>0. /\ last_avail_idx \in Int /\ i \in Nat /\ Pending \in Nat
        /\ i < Pending /\ Pending < QueueSize + i
    BY <1>1, <1>3, <1>4 DEF RingTypes, Idx
  <2>1. (last_avail_idx + i) % QueueSize # (last_avail_idx + Pending) % QueueSize
    BY <2>0, SlotsDiffer
  <2> QED  BY <1>1, <1>2, <1>9, <2>1 DEF Publish, Waiting, RingTypes
<1>12. ASSUME NEW i \in 0..Pending, i = Pending PROVE Waiting(i)' = t
  BY <1>1, <1>2, <1>9, <1>10, <1>12 DEF Publish, Waiting, RingTypes
<1>13. Outstanding' = Outstanding \cup {t}
  <2>1. r # NoRequest
    OBVIOUS
  <2>2. \A u \in Tag : desc'[u] = IF u = t THEN r ELSE desc[u]
    BY <1>1, <1>2 DEF RingTypes
  <2> QED  BY <2>1, <2>2 DEF Outstanding
<1>14. used_idx' = last_avail_idx'
  BY <1>1 DEF Publish, Counted
<1>15. \E u \in Tag \ Outstanding :
          /\ Outstanding' = Outstanding \cup {u}
          /\ status' = [status EXCEPT ![u] = "none"]
          /\ \A i \in 0..Pending : i = Pending => Waiting(i)' = u
  BY <1>2, <1>12, <1>13
<1>16. Pending < QueueSize - Unreaped
  BY <1>3, <1>4
<1> QED  BY <1>6, <1>7, <1>8, <1>11, <1>14, <1>15, <1>16

\* Serving moves the first waiting head behind the answered ones.
LEMMA ServeRings ==
  ASSUME RingInv, ServeRequest
  PROVE  /\ queue_ready
         /\ RingTypes'
         /\ used_idx' = last_avail_idx'
         /\ Pending > 0
         /\ Pending' = Pending - 1 /\ Unreaped' = Unreaped + 1
         /\ \A i \in 0..(Pending - 2) : Waiting(i)' = Waiting(i + 1)
         /\ \A j \in 0..(Unreaped - 1) : Answered(j)' = Answered(j)
         /\ \A j \in 0..Unreaped : j = Unreaped => Answered(j)' = Waiting(0)
         /\ Outstanding' = Outstanding
         /\ \E a \in {"ok", "ioerr"} : status' = [status EXCEPT ![Waiting(0)] = a]
<1>0. /\ UNCHANGED <<queue_num, queue_ready, serving, desc, avail_idx, avail_ring, last_used_idx>>
      /\ serving /\ last_avail_idx # avail_idx
      /\ used_idx' = Successor(used_idx) /\ last_avail_idx' = Successor(last_avail_idx)
  BY DEF ServeRequest, driver
<1>1. RingTypes /\ queue_ready /\ Counted /\ Covering
  BY <1>0 DEF RingInv, Quiet
<1>2. /\ Pending \in 0..(IdxMod - 1) /\ Unreaped \in 0..(IdxMod - 1)
      /\ IdxMod \in Nat /\ QueueSize <= IdxMod - 1
  BY <1>1, Ranges, IdxModAssumption
<1>3. Pending > 0 /\ Unreaped < QueueSize /\ QueueSize <= IdxMod - 1
  <2>1. Pending # 0
    BY <1>0, <1>1, DistanceSteps DEF RingTypes, Pending
  <2> QED  BY <1>1, <1>2, <2>1 DEF Counted
<1>4. avail_ring[last_avail_idx % QueueSize] = Waiting(0)
  BY <1>1 DEF Waiting, RingTypes, Idx
<1>5. Waiting(0) \in Outstanding
  BY <1>1, <1>2, <1>3 DEF Covering
<1>6. \E a \in {"ok", "ioerr"} : status' = [status EXCEPT ![Waiting(0)] = a]
  BY <1>4, <1>5 DEF ServeRequest, DeviceSlot, Outstanding
<1>7. /\ used_ring' = [used_ring EXCEPT ![used_idx % QueueSize] = Waiting(0)]
      /\ used_idx' = Successor(used_idx) /\ last_avail_idx' = Successor(last_avail_idx)
  BY <1>0, <1>4 DEF ServeRequest, DeviceSlot
<1>8. used_idx' \in Idx /\ last_avail_idx' \in Idx
  BY <1>1, <1>7, SuccessorCases DEF RingTypes
<1>9. Waiting(0) \in Tag
  BY <1>5 DEF Outstanding
<1>10. RingTypes'
  <2>1. used_ring' \in [Slot -> Tag]
    BY <1>1, <1>7, <1>9 DEF RingTypes
  <2>2. status' \in [Tag -> {"none", "ok", "ioerr"}]
    BY <1>1, <1>6, <1>9 DEF RingTypes
  <2> QED  BY <1>0, <1>1, <1>8, <2>1, <2>2 DEF RingTypes
<1>11. Pending' = Pending - 1
  BY <1>0, <1>1, DistanceSteps DEF RingTypes, Pending
<1>12. Unreaped' = Unreaped + 1
  BY <1>0, <1>1, <1>2, <1>3, DistanceSteps DEF RingTypes, Unreaped
<1>13. ASSUME NEW i \in 0..(Pending - 2) PROVE Waiting(i)' = Waiting(i + 1)
  <2>1. i \in Nat
    OBVIOUS
  <2>2. (Successor(last_avail_idx) + i) % QueueSize = (last_avail_idx + (i + 1)) % QueueSize
    BY <1>1, <2>1, SlotAfterSuccessor DEF RingTypes
  <2> QED  BY <1>0, <2>2 DEF Waiting
<1>14. used_idx % QueueSize = (last_used_idx + Unreaped) % QueueSize
  BY <1>1, SlotAtDistance DEF RingTypes, Unreaped
<1>15. used_idx % QueueSize \in Slot
  BY <1>1, SlotRange DEF RingTypes, Idx
<1>16. ASSUME NEW j \in 0..(Unreaped - 1) PROVE Answered(j)' = Answered(j)
  <2>0. /\ last_used_idx \in Int /\ j \in Nat /\ Unreaped \in Nat
        /\ j < Unreaped /\ Unreaped < QueueSize + j
    BY <1>1, <1>2, <1>3 DEF RingTypes, Idx
  <2>1. (last_used_idx + j) % QueueSize # (last_used_idx + Unreaped) % QueueSize
    BY <2>0, SlotsDiffer
  <2> QED  BY <1>0, <1>1, <1>7, <1>14, <2>1 DEF Answered, RingTypes
<1>17. ASSUME NEW j \in 0..Unreaped, j = Unreaped PROVE Answered(j)' = Waiting(0)
  BY <1>0, <1>1, <1>7, <1>14, <1>15, <1>17 DEF Answered, RingTypes
<1>18. Outstanding' = Outstanding
  BY <1>0 DEF Outstanding
<1>19. used_idx' = last_avail_idx'
  BY <1>1, <1>7 DEF Counted
<1> QED  BY <1>1, <1>3, <1>6, <1>10, <1>11, <1>12, <1>13, <1>16, <1>17, <1>18, <1>19

\* The driver takes the first answered head and frees it.
LEMMA TakeRings ==
  ASSUME RingInv, queue_ready, TakeUsed
  PROVE  /\ RingTypes'
         /\ used_idx' = last_avail_idx'
         /\ Unreaped > 0
         /\ Pending' = Pending /\ Unreaped' = Unreaped - 1
         /\ \A i : Waiting(i)' = Waiting(i)
         /\ \A j \in 0..(Unreaped - 2) : Answered(j)' = Answered(j + 1)
         /\ Outstanding' = Outstanding \ {Answered(0)}
         /\ status' = [status EXCEPT ![Answered(0)] = "none"]
<1> USE DEF device
<1>1. RingTypes /\ Counted /\ Covering
  BY DEF RingInv
<1>2. /\ Pending \in 0..(IdxMod - 1) /\ Unreaped \in 0..(IdxMod - 1)
      /\ IdxMod \in Nat /\ QueueSize <= IdxMod - 1
  BY <1>1, Ranges, IdxModAssumption
<1>3. Unreaped > 0
  BY <1>1, <1>2, DistanceSteps DEF TakeUsed, RingTypes, Unreaped
<1>4. used_ring[last_used_idx % queue_num] = Answered(0)
  BY <1>1 DEF Answered, RingTypes, Idx
<1>5. Answered(0) \in Tag
  BY <1>1, Ranges
<1>6. /\ desc' = [desc EXCEPT ![Answered(0)] = NoRequest]
      /\ status' = [status EXCEPT ![Answered(0)] = "none"]
      /\ last_used_idx' = Successor(last_used_idx)
  BY <1>4 DEF TakeUsed
<1>7. RingTypes'
  <2>1. desc' \in [Tag -> Request \cup {NoRequest}] /\ status' \in [Tag -> {"none", "ok", "ioerr"}]
    BY <1>1, <1>6 DEF RingTypes
  <2>2. last_used_idx' \in Idx
    BY <1>1, <1>6, SuccessorCases DEF RingTypes
  <2> QED  BY <1>1, <2>1, <2>2 DEF TakeUsed, RingTypes
<1>8. Pending' = Pending /\ \A i : Waiting(i)' = Waiting(i)
  BY DEF TakeUsed, Pending, Waiting
<1>9. Unreaped' = Unreaped - 1
  BY <1>1, <1>6, DistanceSteps DEF TakeUsed, RingTypes, Unreaped
<1>10. ASSUME NEW j \in 0..(Unreaped - 2) PROVE Answered(j)' = Answered(j + 1)
  <2>1. j \in Nat
    OBVIOUS
  <2>2. (Successor(last_used_idx) + j) % QueueSize = (last_used_idx + (j + 1)) % QueueSize
    BY <1>1, <2>1, SlotAfterSuccessor DEF RingTypes
  <2> QED  BY <1>6, <2>2 DEF TakeUsed, Answered
<1>11. Outstanding' = Outstanding \ {Answered(0)}
  BY <1>1, <1>5, <1>6 DEF RingTypes, Outstanding
<1>12. used_idx' = last_avail_idx'
  BY <1>1 DEF TakeUsed, Counted
<1> QED  BY <1>3, <1>6, <1>7, <1>8, <1>9, <1>10, <1>11, <1>12

\* So each of the three keeps the invariant.
LEMMA PublishInv ==
  ASSUME RingInv, FullQueue, Publish
  PROVE  RingInv'
<1>1. queue_ready /\ queue_ready'
  BY DEF Publish, device
<1>2. RingTypes /\ Counted /\ Injective /\ Covering
  BY <1>1 DEF RingInv
<1>3. Pending \in Nat /\ Unreaped \in Nat
  BY <1>2, Ranges
<1>4. /\ RingTypes' /\ used_idx' = last_avail_idx' /\ Pending < QueueSize - Unreaped
      /\ Pending' = Pending + 1 /\ Unreaped' = Unreaped
      /\ \A i \in 0..(Pending - 1) : Waiting(i)' = Waiting(i)
      /\ \A j \in Nat : Answered(j)' = Answered(j)
  BY PublishRings
<1>5. PICK t \in Tag \ Outstanding :
         /\ Outstanding' = Outstanding \cup {t}
         /\ status' = [status EXCEPT ![t] = "none"]
         /\ \A i \in 0..Pending : i = Pending => Waiting(i)' = t
  BY PublishRings
<1>6. Counted'
  <2>1. /\ IsFiniteSet(Outstanding \cup {t})
        /\ Cardinality(Outstanding \cup {t}) = Cardinality(Outstanding) + 1
    BY <1>2, <1>5, FS_AddElement DEF Counted
  <2>2. IsFiniteSet(Outstanding)' /\ Cardinality(Outstanding)' = Pending' + Unreaped'
    BY <1>2, <1>3, <1>4, <1>5, <2>1 DEF Counted
  <2>3. Pending' + Unreaped' <= QueueSize
    BY <1>3, <1>4
  <2> QED  BY <1>4, <2>2, <2>3 DEF Counted
\* ... the new entry is none of the old ones, for its head was free.
<1>7. /\ \A i \in 0..(Pending - 1) : Waiting(i)' # t
      /\ \A j \in 0..(Unreaped - 1) : Answered(j)' # t /\ Answered(j)' = Answered(j)
  BY <1>2, <1>4, <1>5 DEF Covering
<1>8. \A i \in 0..(Pending' - 1) :
         \/ i \in 0..(Pending - 1) /\ Waiting(i)' = Waiting(i)
         \/ i = Pending /\ Waiting(i)' = t
  BY <1>3, <1>4, <1>5
<1>9. Injective'
  BY <1>2, <1>4, <1>7, <1>8 DEF Injective
<1>10. Covering'
  <2>1. \A i \in 0..(Pending' - 1) : Waiting(i)' \in Outstanding'
    BY <1>2, <1>5, <1>8 DEF Covering
  <2>2. \A j \in 0..(Unreaped' - 1) :
           Answered(j)' \in Outstanding' /\ status'[Answered(j)'] # "none"
    BY <1>2, <1>4, <1>5, <1>7 DEF Covering, RingTypes, Outstanding
  <2>3. ASSUME NEW u \in Outstanding'
        PROVE  \/ \E i \in 0..(Pending' - 1) : u = Waiting(i)'
               \/ \E j \in 0..(Unreaped' - 1) : u = Answered(j)'
    <3>1. CASE u = t
      BY <1>3, <1>4, <1>5, <3>1
    <3>2. CASE u \in Outstanding
      BY <1>2, <1>3, <1>4, <1>7, <3>2 DEF Covering
    <3> QED  BY <1>5, <3>1, <3>2
  <2> QED  BY <2>1, <2>2, <2>3 DEF Covering
<1> QED  BY <1>1, <1>4, <1>6, <1>9, <1>10 DEF RingInv, Quiet

LEMMA ServeInv ==
  ASSUME RingInv, ServeRequest
  PROVE  RingInv'
<1>1. /\ queue_ready /\ RingTypes' /\ used_idx' = last_avail_idx' /\ Pending > 0
      /\ Pending' = Pending - 1 /\ Unreaped' = Unreaped + 1
      /\ \A i \in 0..(Pending - 2) : Waiting(i)' = Waiting(i + 1)
      /\ \A j \in 0..(Unreaped - 1) : Answered(j)' = Answered(j)
      /\ \A j \in 0..Unreaped : j = Unreaped => Answered(j)' = Waiting(0)
      /\ Outstanding' = Outstanding
  BY ServeRings
<1>2. RingTypes /\ Counted /\ Injective /\ Covering /\ queue_ready'
  BY <1>1 DEF RingInv, ServeRequest
<1>3. Pending \in Nat /\ Unreaped \in Nat
  BY <1>2, Ranges
<1>4. PICK a \in {"ok", "ioerr"} : status' = [status EXCEPT ![Waiting(0)] = a]
  BY ServeRings
<1>5. Counted'
  <2>1. Pending' + Unreaped' = Pending + Unreaped
    BY <1>1, <1>3
  <2> QED  BY <1>1, <1>2, <2>1 DEF Counted
\* ... the first waiting entry becomes the last answered one.
<1>6. \A i \in 0..(Pending' - 1) :
         i + 1 \in 0..(Pending - 1) /\ i + 1 # 0 /\ Waiting(i)' = Waiting(i + 1)
  BY <1>1, <1>3
<1>7. \A j \in 0..(Unreaped' - 1) :
         \/ j \in 0..(Unreaped - 1) /\ Answered(j)' = Answered(j)
         \/ j = Unreaped /\ Answered(j)' = Waiting(0)
  BY <1>1, <1>3
<1>8. 0 \in 0..(Pending - 1)
  BY <1>1, <1>3
<1>9. Injective'
  <2>1. \A i, j \in 0..(Pending' - 1) : Waiting(i)' = Waiting(j)' => i = j
    <3> SUFFICES ASSUME NEW i \in 0..(Pending' - 1), NEW j \in 0..(Pending' - 1),
                        Waiting(i)' = Waiting(j)'
                 PROVE  i = j
      OBVIOUS
    <3>1. i + 1 = j + 1
      BY <1>2, <1>6 DEF Injective
    <3> QED  BY <3>1
  <2>2. \A i, j \in 0..(Unreaped' - 1) : Answered(i)' = Answered(j)' => i = j
    BY <1>2, <1>7, <1>8 DEF Injective
  <2>3. \A i \in 0..(Pending' - 1), j \in 0..(Unreaped' - 1) : Waiting(i)' # Answered(j)'
    <3> SUFFICES ASSUME NEW i \in 0..(Pending' - 1), NEW j \in 0..(Unreaped' - 1)
                 PROVE  Waiting(i)' # Answered(j)'
      OBVIOUS
    <3>1. /\ Waiting(i)' = Waiting(i + 1)
          /\ i + 1 \in 0..(Pending - 1) /\ i + 1 # 0
      BY <1>6
    <3>2. Waiting(i + 1) # Waiting(0)
      BY <1>2, <1>8, <3>1 DEF Injective
    <3>3. \A k \in 0..(Unreaped - 1) : Waiting(i + 1) # Answered(k)
      BY <1>2, <3>1 DEF Injective
    <3> QED  BY <1>7, <3>1, <3>2, <3>3
  <2> QED  BY <2>1, <2>2, <2>3 DEF Injective
<1>10. Covering'
  <2>1. \A i \in 0..(Pending' - 1) : Waiting(i)' \in Outstanding'
    BY <1>1, <1>2, <1>6 DEF Covering
  <2>2. \A j \in 0..(Unreaped' - 1) :
           Answered(j)' \in Outstanding' /\ status'[Answered(j)'] # "none"
    BY <1>1, <1>2, <1>4, <1>7, <1>8 DEF Covering, RingTypes, Outstanding
  <2>3. ASSUME NEW u \in Outstanding'
        PROVE  \/ \E i \in 0..(Pending' - 1) : u = Waiting(i)'
               \/ \E j \in 0..(Unreaped' - 1) : u = Answered(j)'
    <3>1. CASE \E i \in 0..(Pending - 1) : u = Waiting(i)
      <4>1. PICK i \in 0..(Pending - 1) : u = Waiting(i)
        BY <3>1
      <4>2. CASE i = 0
        BY <1>1, <1>3, <4>1, <4>2
      <4>3. CASE i # 0
        <5>1. i - 1 \in 0..(Pending' - 1) /\ (i - 1) + 1 = i
          BY <1>1, <1>3, <4>3
        <5> QED  BY <1>6, <4>1, <5>1
      <4> QED  BY <4>2, <4>3
    <3>2. CASE \E j \in 0..(Unreaped - 1) : u = Answered(j)
      BY <1>1, <1>3, <3>2
    <3> QED  BY <1>1, <1>2, <3>1, <3>2 DEF Covering
  <2> QED  BY <2>1, <2>2, <2>3 DEF Covering
<1> QED  BY <1>1, <1>2, <1>5, <1>9, <1>10 DEF RingInv, Quiet

LEMMA TakeInv ==
  ASSUME RingInv, queue_ready, TakeUsed
  PROVE  RingInv'
<1>1. /\ RingTypes' /\ used_idx' = last_avail_idx' /\ Unreaped > 0
      /\ Pending' = Pending /\ Unreaped' = Unreaped - 1
      /\ \A i : Waiting(i)' = Waiting(i)
      /\ \A j \in 0..(Unreaped - 2) : Answered(j)' = Answered(j + 1)
      /\ Outstanding' = Outstanding \ {Answered(0)}
      /\ status' = [status EXCEPT ![Answered(0)] = "none"]
  BY TakeRings
<1>2. RingTypes /\ Counted /\ Injective /\ Covering /\ queue_ready'
  BY DEF RingInv, TakeUsed, device
<1>3. Pending \in Nat /\ Unreaped \in Nat
  BY <1>2, Ranges
<1>4. 0 \in 0..(Unreaped - 1) /\ Answered(0) \in Outstanding
  BY <1>1, <1>2, <1>3 DEF Covering
<1>5. Counted'
  <2>1. /\ IsFiniteSet(Outstanding \ {Answered(0)})
        /\ Cardinality(Outstanding \ {Answered(0)}) = Cardinality(Outstanding) - 1
    BY <1>2, <1>4, FS_RemoveElement DEF Counted
  <2>2. IsFiniteSet(Outstanding)' /\ Cardinality(Outstanding)' = Pending' + Unreaped'
    BY <1>1, <1>2, <1>3, <2>1 DEF Counted
  <2>3. Pending' + Unreaped' <= QueueSize
    BY <1>1, <1>2, <1>3 DEF Counted
  <2> QED  BY <1>1, <2>2, <2>3 DEF Counted
\* ... the entry taken is no other one.
<1>6. \A j \in 0..(Unreaped' - 1) :
         /\ j + 1 \in 0..(Unreaped - 1) /\ j + 1 # 0
         /\ Answered(j)' = Answered(j + 1) /\ Answered(j + 1) # Answered(0)
  <2>1. \A j \in 0..(Unreaped' - 1) :
           j + 1 \in 0..(Unreaped - 1) /\ j + 1 # 0 /\ Answered(j)' = Answered(j + 1)
    BY <1>1, <1>3
  <2> QED  BY <1>2, <1>4, <2>1 DEF Injective
<1>7. \A i \in 0..(Pending' - 1) :
         i \in 0..(Pending - 1) /\ Waiting(i)' = Waiting(i) /\ Waiting(i) # Answered(0)
  BY <1>1, <1>2, <1>4 DEF Injective
<1>8. Injective'
  <2>1. \A i, j \in 0..(Pending' - 1) : Waiting(i)' = Waiting(j)' => i = j
    BY <1>2, <1>7 DEF Injective
  <2>2. \A i, j \in 0..(Unreaped' - 1) : Answered(i)' = Answered(j)' => i = j
    <3> SUFFICES ASSUME NEW i \in 0..(Unreaped' - 1), NEW j \in 0..(Unreaped' - 1),
                        Answered(i)' = Answered(j)'
                 PROVE  i = j
      OBVIOUS
    <3>1. i + 1 = j + 1
      BY <1>2, <1>6 DEF Injective
    <3> QED  BY <3>1
  <2>3. \A i \in 0..(Pending' - 1), j \in 0..(Unreaped' - 1) : Waiting(i)' # Answered(j)'
    BY <1>2, <1>6, <1>7 DEF Injective
  <2> QED  BY <2>1, <2>2, <2>3 DEF Injective
<1>9. Covering'
  <2>1. \A i \in 0..(Pending' - 1) : Waiting(i)' \in Outstanding'
    BY <1>1, <1>2, <1>7 DEF Covering
  <2>2. \A j \in 0..(Unreaped' - 1) :
           Answered(j)' \in Outstanding' /\ status'[Answered(j)'] # "none"
    BY <1>1, <1>2, <1>6 DEF Covering, RingTypes, Outstanding
  <2>3. ASSUME NEW u \in Outstanding'
        PROVE  \/ \E i \in 0..(Pending' - 1) : u = Waiting(i)'
               \/ \E j \in 0..(Unreaped' - 1) : u = Answered(j)'
    <3>1. u \in Outstanding /\ u # Answered(0)
      BY <1>1
    <3>2. CASE \E i \in 0..(Pending - 1) : u = Waiting(i)
      BY <1>1, <3>2
    <3>3. CASE \E j \in 0..(Unreaped - 1) : u = Answered(j)
      <4>1. PICK j \in 0..(Unreaped - 1) : u = Answered(j)
        BY <3>3
      <4>2. j # 0
        BY <3>1, <4>1
      <4>3. j - 1 \in 0..(Unreaped' - 1) /\ (j - 1) + 1 = j
        BY <1>1, <1>3, <4>2
      <4> QED  BY <1>6, <4>1, <4>3
    <3> QED  BY <1>2, <3>1, <3>2, <3>3 DEF Covering
  <2> QED  BY <2>1, <2>2, <2>3 DEF Covering
<1> QED  BY <1>1, <1>2, <1>5, <1>8, <1>9 DEF RingInv, Quiet

\* A queue set up afresh is empty, and a reset gives everything up.
LEMMA SetUpInv ==
  ASSUME RingInv, FullQueue, SetUp
  PROVE  RingInv'
<1>1. RingTypes /\ Outstanding = {} /\ last_avail_idx = 0 /\ ~queue_ready
  BY DEF RingInv, Quiet, SetUp
<1>2. /\ last_avail_idx' = 0 /\ avail_idx' = 0 /\ used_idx' = 0 /\ last_used_idx' = 0
      /\ queue_ready' /\ queue_num' = QueueSize
  BY <1>1 DEF SetUp, FullQueue
<1>3. RingTypes'
  BY <1>1, <1>2, Empty, ZeroIdx DEF SetUp, RingTypes
<1>4. Pending' = 0 /\ Unreaped' = 0
  BY <1>2, <1>3, DistanceSteps DEF RingTypes, Pending, Unreaped
<1>5. Outstanding' = {}
  BY <1>1 DEF SetUp, Outstanding
<1>6. Counted'
  <2>1. IsFiniteSet(Outstanding)' /\ Cardinality(Outstanding)' = 0
    BY <1>5, FS_EmptySet
  <2> QED  BY <1>2, <1>4, <2>1, QueueSizeAssumption DEF Counted
<1>7. Injective' /\ Covering'
  BY <1>4, <1>5 DEF Injective, Covering
<1> QED  BY <1>2, <1>3, <1>6, <1>7 DEF RingInv, Quiet

LEMMA ResetInv ==
  ASSUME RingInv, Reset
  PROVE  RingInv'
<1>1. RingTypes'
  BY ZeroIdx DEF RingInv, RingTypes, Reset
<1>2. ~queue_ready' /\ last_avail_idx' = 0 /\ ~serving' /\ Outstanding' = {}
  BY DEF Reset, Outstanding
<1> QED  BY <1>1, <1>2 DEF RingInv, Quiet

\* Before a queue is set up there is nothing to take.
LEMMA TakeNothing ==
  ASSUME RingInv, ~queue_ready, TakeUsed
  PROVE  RingInv'
<1>1. RingTypes /\ Outstanding = {} /\ last_avail_idx = 0 /\ ~serving
  BY DEF RingInv, Quiet
<1>2. used_ring[last_used_idx % queue_num] \in Tag
  BY <1>1, SlotRange DEF RingTypes, Idx
<1>3. Outstanding' = {}
  BY <1>1, <1>2 DEF TakeUsed, RingTypes, Outstanding
<1>4. RingTypes'
  <2>1. desc' \in [Tag -> Request \cup {NoRequest}] /\ status' \in [Tag -> {"none", "ok", "ioerr"}]
    BY <1>1, <1>2 DEF RingTypes, TakeUsed
  <2>2. last_used_idx' \in Idx
    BY <1>1, SuccessorCases DEF RingTypes, TakeUsed
  <2> QED  BY <1>1, <2>1, <2>2 DEF TakeUsed, device, RingTypes
<1> QED  BY <1>1, <1>3, <1>4 DEF RingInv, Quiet, TakeUsed, device

LEMMA RingStep ==
  ASSUME RingInv, FullQueue, [Next]_vars
  PROVE  RingInv'
<1>1. CASE QueueNotify \/ QueueDrained \/ ReadStatus \/ AckStatus \/ HandlerDone \/ UNCHANGED vars
  <2>1. /\ UNCHANGED <<queue_num, queue_ready, last_avail_idx, desc, status, avail_idx,
                       avail_ring, used_idx, used_ring, last_used_idx>>
    BY <1>1 DEF QueueNotify, QueueDrained, ReadStatus, AckStatus, HandlerDone, vars,
                device, memory, driver
  <2>2. serving' \in BOOLEAN /\ (serving' => queue_ready)
    <3>1. serving \in BOOLEAN /\ queue_ready \in BOOLEAN /\ (serving => queue_ready)
      BY DEF RingInv, RingTypes, Quiet
    <3>2. \/ serving' = queue_ready \/ serving' = FALSE \/ serving' = serving
      BY <1>1 DEF QueueNotify, QueueDrained, ReadStatus, AckStatus, HandlerDone, vars, device
    <3>3. CASE serving' = queue_ready
      BY <3>1, <3>3, Zenon
    <3>4. CASE serving' = FALSE
      BY <3>4, Zenon
    <3>5. CASE serving' = serving
      BY <3>1, <3>5, Zenon
    <3> QED  BY <3>2, <3>3, <3>4, <3>5, Zenon
  <2> QED  BY <2>1, <2>2, RingsUntouched
<1>2. CASE TakeUsed
  BY <1>2, TakeInv, TakeNothing
<1> QED
  BY <1>1, <1>2, PublishInv, ServeInv, SetUpInv, ResetInv DEF Next

\* The invariant holds in every reachable state.
LEMMA RingSafe == ASSUME FullQueue PROVE Spec => []RingInv
<1>1. RingInv /\ [Next]_vars => RingInv'
  BY RingStep
<1> QED  BY RingInit, <1>1, PTL DEF Spec

\* The two rings, read as sequences.
LEMMA RingSequences ==
  ASSUME RingInv, queue_ready
  PROVE  /\ Published \in Seq(Tag) /\ Len(Published) = Pending
         /\ \A k \in 1..Pending : Published[k] = Waiting(k - 1)
         /\ Completed \in Seq(Tag) /\ Len(Completed) = Unreaped
         /\ \A k \in 1..Unreaped : Completed[k] = Answered(k - 1)
<1>1. RingTypes
  BY DEF RingInv
<1>2. /\ Pending \in Nat /\ Unreaped \in Nat
      /\ \A i \in Nat : Waiting(i) \in Tag /\ Answered(i) \in Tag
  BY <1>1, Ranges
<1>3. Published = [k \in 1..Pending |-> avail_ring[(last_avail_idx + k - 1) % QueueSize]]
  BY <1>1 DEF Published, Entries, Pending, Distance, RingTypes
<1>4. Completed = [k \in 1..Unreaped |-> used_ring[(last_used_idx + k - 1) % QueueSize]]
  BY <1>1 DEF Completed, Entries, Unreaped, Distance, RingTypes
<1>5. \A k \in Nat \ {0} : /\ last_avail_idx + k - 1 = last_avail_idx + (k - 1)
                           /\ last_used_idx + k - 1 = last_used_idx + (k - 1)
                           /\ k - 1 \in Nat
  BY <1>1 DEF RingTypes, Idx
<1>6. \A k \in Nat \ {0} :
         /\ avail_ring[(last_avail_idx + k - 1) % QueueSize] = Waiting(k - 1)
         /\ used_ring[(last_used_idx + k - 1) % QueueSize] = Answered(k - 1)
         /\ Waiting(k - 1) \in Tag /\ Answered(k - 1) \in Tag
  BY <1>2, <1>5 DEF Waiting, Answered
<1>7. /\ \A k \in 1..Pending : Published[k] = Waiting(k - 1) /\ Published[k] \in Tag
      /\ \A k \in 1..Unreaped : Completed[k] = Answered(k - 1) /\ Completed[k] \in Tag
  BY <1>2, <1>3, <1>4, <1>6
<1>8. Published \in [1..Pending -> Tag] /\ Completed \in [1..Unreaped -> Tag]
  BY <1>3, <1>4, <1>7
<1>9. /\ Published \in Seq(Tag) /\ Completed \in Seq(Tag)
      /\ Len(Published) = Pending /\ Len(Completed) = Unreaped
  BY <1>2, <1>8
<1> QED  BY <1>7, <1>9

\* The invariant gives ownership ...
LEMMA RingOwned == RingInv => OwnedOnce
<1> SUFFICES ASSUME RingInv PROVE OwnedOnce
  OBVIOUS
<1> DEFINE all == Published \o Completed
<1>1. CASE ~queue_ready
  <2>1. all = <<>> /\ DOMAIN <<>> = {} /\ Outstanding = {}
    BY <1>1 DEF RingInv, Quiet, Published, Completed
  <2> QED  BY <2>1 DEF OwnedOnce
<1>2. CASE queue_ready
  <2>1. Injective /\ Covering /\ Pending \in Nat /\ Unreaped \in Nat
    BY <1>2, Ranges DEF RingInv
  <2>2. /\ all \in Seq(Tag) /\ Len(all) = Pending + Unreaped
        /\ \A i \in 1..(Pending + Unreaped) :
              all[i] = IF i <= Pending THEN Published[i] ELSE Completed[i - Pending]
    <3>1. /\ Published \in Seq(Tag) /\ Len(Published) = Pending
          /\ Completed \in Seq(Tag) /\ Len(Completed) = Unreaped
      BY <1>2, RingSequences
    <3> QED  BY ONLY <3>1, ConcatProperties
  <2>3. DOMAIN all = 1..(Pending + Unreaped)
    BY <2>1, <2>2
  <2> HIDE DEF all
  <2>4. \A i \in DOMAIN all :
           \/ i - 1 \in 0..(Pending - 1) /\ all[i] = Waiting(i - 1)
           \/ i > Pending /\ i - 1 - Pending \in 0..(Unreaped - 1) /\ all[i] = Answered(i - 1 - Pending)
    <3> SUFFICES ASSUME NEW i \in DOMAIN all
                 PROVE  \/ i - 1 \in 0..(Pending - 1) /\ all[i] = Waiting(i - 1)
                        \/ /\ i > Pending /\ i - 1 - Pending \in 0..(Unreaped - 1)
                           /\ all[i] = Answered(i - 1 - Pending)
      OBVIOUS
    <3>1. CASE i <= Pending
      BY <1>2, <2>1, <2>2, <2>3, <3>1, RingSequences
    <3>2. CASE ~(i <= Pending)
      <4>1. i - Pending \in 1..Unreaped /\ (i - Pending) - 1 = i - 1 - Pending
        BY <2>1, <2>3, <3>2
      <4> QED  BY <1>2, <2>1, <2>2, <2>3, <3>2, <4>1, RingSequences
    <3> QED  BY <3>1, <3>2, <2>1, <2>3
  <2>5. \A i, j \in DOMAIN all : all[i] = all[j] => i = j
    BY <2>1, <2>3, <2>4 DEF Injective
  <2>6. \A i \in DOMAIN all : all[i] \in Outstanding
    BY <2>1, <2>4 DEF Covering
  <2>7. \A t \in Outstanding : \E i \in DOMAIN all : all[i] = t
    <3> TAKE t \in Outstanding
    <3>1. CASE \E i \in 0..(Pending - 1) : t = Waiting(i)
      <4>1. PICK i \in 0..(Pending - 1) : t = Waiting(i)
        BY <3>1
      <4>2. /\ i + 1 \in 1..Pending /\ (i + 1) - 1 = i
            /\ i + 1 \in DOMAIN all /\ i + 1 <= Pending
        BY <2>1, <2>3
      <4>3. all[i + 1] = Published[i + 1]
        BY <2>2, <2>3, <4>2
      <4>4. Published[i + 1] = Waiting(i)
        BY <1>2, <4>2, RingSequences
      <4> QED  BY <4>1, <4>2, <4>3, <4>4
    <3>2. CASE \E j \in 0..(Unreaped - 1) : t = Answered(j)
      <4>1. PICK j \in 0..(Unreaped - 1) : t = Answered(j)
        BY <3>2
      <4>2. /\ j + 1 \in 1..Unreaped /\ (j + 1) - 1 = j
            /\ Pending + j + 1 \in DOMAIN all /\ (Pending + j + 1) - Pending = j + 1
            /\ ~(Pending + j + 1 <= Pending)
        BY <2>1, <2>3
      <4>3. all[Pending + j + 1] = Completed[j + 1]
        BY <2>2, <2>3, <4>2
      <4>4. Completed[j + 1] = Answered(j)
        BY <1>2, <4>2, RingSequences
      <4> QED  BY <4>1, <4>2, <4>3, <4>4
    <3> QED  BY <2>1, <3>1, <3>2 DEF Covering
  <2> QED  BY <2>5, <2>6, <2>7 DEF OwnedOnce, all
<1> QED  BY <1>1, <1>2

\* Every outstanding request is in exactly one of the rings, once, for rings of
\* every size, any requests and failures, and through every wrap of indices and
\* slots, when the driver uses the whole queue (process_queue, reset).
THEOREM RequestsOwnedOnce ==
  ASSUME FullQueue
  PROVE  Spec => []OwnedOnce
<1>1. Spec => []RingInv
  BY RingSafe
<1> QED  BY <1>1, RingOwned, PTL

\* ... and that what is not waiting has been served.
LEMMA DrainedLemma == RingInv /\ [Next]_vars => [DrainedStep]_vars
<1> SUFFICES ASSUME RingInv, [Next]_vars, serving, ~serving'
             PROVE  \A t \in Outstanding : status[t] # "none"
  BY DEF DrainedStep
<1>1. QueueDrained
  BY DEF Next, QueueNotify, ServeRequest, Reset, SetUp, Publish, ReadStatus, AckStatus, TakeUsed,
         HandlerDone, vars, device, driver
<1>2. RingTypes /\ Covering
  BY DEF RingInv, Quiet
<1>3. Pending = 0
  BY <1>1, <1>2, DistanceSteps DEF QueueDrained, RingTypes, Pending
<1> QED  BY <1>2, <1>3 DEF Covering

\* process_queue returns with every request served that was published before it.
THEOREM QueueIsDrained ==
  ASSUME FullQueue
  PROVE  Spec => AllDrained
<1>1. RingInv /\ [Next]_vars => [DrainedStep]_vars
  BY DrainedLemma
<1>2. Spec => []RingInv
  BY RingSafe
<1> QED  BY <1>1, <1>2, PTL DEF Spec, AllDrained

-----------------------------------------------------------------------------
(* Types.                                                                  *)

\* ... which leaves the image and the buffers what they are.
LEMMA ServedTypes ==
  ASSUME NEW r, IsRequest(r), NEW f \in Seq(Data), NEW b \in Seq(Data),
         Len(b) = Len(r.bufs), NEW a, NEW n \in Nat, NEW part \in 0..1,
         Served(f, b, r, a, n, part)
  PROVE  a.file \in Seq(Data) /\ a.buf \in Seq(Data) /\ Len(a.buf) = Len(b)
<1> DEFINE m == n + part
<1>4. m \in Nat /\ n <= m /\ part \in Nat /\ r.sector \in Nat
  BY DEF IsRequest
<1>1. CASE r.type = "in"
  <2> DEFINE c == BS!Filled(r, b, f, n)
  <2>1. n > 0 => r.sector + n <= Len(f)
    <3>1. r.sector \in Nat /\ Len(f) \in Nat
      BY DEF IsRequest
    <3>2. n + part > 0 => r.sector + n + part <= Len(f)
      BY <1>1 DEF Served
    <3> QED  BY ONLY <1>4, <3>1, <3>2, n \in Nat
  <2>2. c \in Seq(Data) /\ Len(c) = Len(b)
    BY <2>1, FilledType
  <2>3. a.buf = BS!Tear(r, c, n, part) /\ a.file = f
    BY <1>1 DEF Served
  <2> HIDE DEF c
  <2> QED  BY <2>2, <2>3, TearType
<1>2. CASE r.type = "out"
  <2> DEFINE c == BS!Tear(r, b, n, part)
  <2>1. c \in Seq(Data) /\ Len(c) = Len(b)
    BY TearType
  <2>2. a.file = BS!Written(r, c, f, m) /\ a.buf = b
    BY <1>2 DEF Served
  <2> HIDE DEF c, m
  <2> QED  BY <1>4, <2>1, <2>2, WrittenType
<1>3. CASE r.type \notin {"in", "out"}
  BY <1>3 DEF Served
<1> QED  BY <1>1, <1>2, <1>3

\* One iteration of the loop, as the request it serves sees it.
LEMMA ServeEffect ==
  ASSUME TypeInv, ServeRequest
  PROVE  LET head == avail_ring[DeviceSlot(last_avail_idx)]
             r == desc[head]
         IN  /\ head \in Tag
             /\ r = NoRequest => UNCHANGED <<file, buf, status>>
             /\ r # NoRequest =>
                  /\ IsRequest(r) /\ Len(buf[head]) = Len(r.bufs)
                  /\ \E a : \E n \in 0..Cardinality(BS!Transferred(r)), part \in 0..1 :
                       /\ Served(file, buf[head], r, a, n, part)
                       /\ a.file \in Seq(Data) /\ a.buf \in Seq(Data) /\ Len(a.buf) = Len(buf[head])
                       /\ file' = a.file
                       /\ buf' = [buf EXCEPT ![head] = a.buf]
                       /\ status' = [status EXCEPT ![head] = IF a.ok THEN "ok" ELSE "ioerr"]
<1> DEFINE head == avail_ring[DeviceSlot(last_avail_idx)]
           r == desc[head]
<1>1. head \in Tag
  BY SlotRange DEF TypeInv, TypeOK, DeviceSlot, Idx
<1>2. r = NoRequest => UNCHANGED <<file, buf, status>>
  BY DEF ServeRequest
<1>3. ASSUME r # NoRequest
      PROVE  /\ IsRequest(r) /\ Len(buf[head]) = Len(r.bufs)
             /\ \E a : \E n \in 0..Cardinality(BS!Transferred(r)), part \in 0..1 :
                  /\ Served(file, buf[head], r, a, n, part)
                  /\ a.file \in Seq(Data) /\ a.buf \in Seq(Data) /\ Len(a.buf) = Len(buf[head])
                  /\ file' = a.file
                  /\ buf' = [buf EXCEPT ![head] = a.buf]
                  /\ status' = [status EXCEPT ![head] = IF a.ok THEN "ok" ELSE "ioerr"]
  <2>1. r \in Request
    BY <1>1, <1>3 DEF TypeInv, TypeOK
  <2>2. IsRequest(r)
    BY <2>1, RequestAssumption DEF IsRequest
  <2>3. Len(buf[head]) = Len(r.bufs)
    BY <1>1, <1>3 DEF TypeInv, BufferSized, Outstanding
  <2>4. file \in Seq(Data) /\ buf[head] \in Seq(Data) /\ disk \in {"none", "sound", "failing"}
    BY <1>1 DEF TypeInv, TypeOK
  <2>5. PICK fail \in Failures(r) :
          LET run == do_request(file, buf[head], r, fail)
          IN  /\ file' = run.file
              /\ buf' = [buf EXCEPT ![head] = run.buf]
              /\ status' = [status EXCEPT ![head] = IF run.ok THEN "ok" ELSE "ioerr"]
    BY <1>3 DEF ServeRequest
  <2> DEFINE a == do_request(file, buf[head], r, fail)
  <2> HIDE DEF r, head
  <2>6. PICK n \in 0..Cardinality(BS!Transferred(r)), part \in 0..1 :
          Served(file, buf[head], r, a, n, part)
    BY <2>2, <2>3, <2>4, ServedRequest
  <2>7. n \in Nat
    BY <2>2, PlaceTypes
  <2>8. a.file \in Seq(Data) /\ a.buf \in Seq(Data) /\ Len(a.buf) = Len(buf[head])
    <3> HIDE DEF a
    <3> QED  BY <2>2, <2>3, <2>4, <2>6, <2>7, ServedTypes
  <2> HIDE DEF a
  <2> QED  BY <2>2, <2>3, <2>5, <2>6, <2>8 DEF a
<1> HIDE DEF r, head
<1> QED  BY <1>1, <1>2, <1>3 DEF r, head

\* The types hold at the start ...
LEMMA TypeInit == Init => TypeInv
<1> SUFFICES ASSUME Init PROVE TypeInv
  OBVIOUS
<1>1. file \in Seq(Data) /\ <<>> \in Seq(Data)
  BY DataAssumption DEF Init
<1>2. /\ buf \in [Tag -> Seq(Data)] /\ status \in [Tag -> {"none", "ok", "ioerr"}]
      /\ desc \in [Tag -> Request \cup {NoRequest}]
  BY <1>1 DEF Init
<1>4. queue_num \in 1..QueueSize
  BY DEF Init
<1>5. TypeOK
  BY <1>1, <1>2, <1>4, Empty, ZeroIdx DEF Init, TypeOK
<1>3. BufferSized /\ HandlerQuiet
  BY DEF Init, BufferSized, HandlerQuiet, Outstanding
<1> QED  BY <1>3, <1>5 DEF TypeInv

\* ... and after every step ...
LEMMA TypeStep ==
  ASSUME TypeInv, [Next]_vars
  PROVE  TypeInv'
<1> USE DEF device, memory, driver
<1>0. TypeOK /\ BufferSized /\ HandlerQuiet
  BY DEF TypeInv
<1>1. CASE QueueNotify \/ QueueDrained \/ ReadStatus \/ AckStatus \/ HandlerDone \/ UNCHANGED vars
  <2>1. UNCHANGED <<disk, file, queue_num, queue_ready, last_avail_idx, desc, buf, status,
                    avail_idx, avail_ring, used_idx, used_ring, last_used_idx>>
    BY <1>1 DEF QueueNotify, QueueDrained, ReadStatus, AckStatus, HandlerDone, vars
  <2>2. /\ irq_status' \in {0, 1} /\ phase' \in {"idle", "ack", "reap"}
        /\ serving' \in BOOLEAN
    BY <1>0, <1>1 DEF TypeOK, QueueNotify, QueueDrained, ReadStatus, AckStatus, HandlerDone, vars
  <2>3. TypeOK'
    BY <1>0, <2>1, <2>2 DEF TypeOK
  <2>4. BufferSized'
    BY <1>0, <2>1 DEF BufferSized, Outstanding
  <2>5. HandlerQuiet'
    BY <1>0, <1>1 DEF TypeOK, HandlerQuiet, QueueNotify, QueueDrained, ReadStatus, AckStatus,
                      HandlerDone, vars
  <2> QED  BY <2>3, <2>4, <2>5 DEF TypeInv
<1>2. CASE ServeRequest
  <2> DEFINE head == avail_ring[DeviceSlot(last_avail_idx)]
  <2>1. head \in Tag
    BY <1>2, ServeEffect
  <2>2. /\ UNCHANGED <<disk, queue_num, queue_ready, serving, desc, avail_idx, avail_ring,
                       last_used_idx, phase>>
        /\ serving /\ irq_status' = 1
        /\ used_idx' = Successor(used_idx) /\ last_avail_idx' = Successor(last_avail_idx)
        /\ used_ring' = [used_ring EXCEPT ![DeviceSlot(used_idx)] = head]
    BY <1>2 DEF ServeRequest, RaiseIrq
  <2>3. /\ file' \in Seq(Data) /\ buf' \in [Tag -> Seq(Data)]
        /\ status' \in [Tag -> {"none", "ok", "ioerr"}]
        /\ \A t \in Outstanding : Len(buf'[t]) = Len(buf[t])
    <3>0. /\ file \in Seq(Data) /\ buf \in [Tag -> Seq(Data)]
          /\ status \in [Tag -> {"none", "ok", "ioerr"}]
      BY <1>0 DEF TypeOK
    <3>1. CASE desc[head] = NoRequest
      BY <1>2, <3>0, <3>1, ServeEffect
    <3>2. CASE desc[head] # NoRequest
      <4>1. PICK a : /\ a.file \in Seq(Data) /\ a.buf \in Seq(Data) /\ Len(a.buf) = Len(buf[head])
                     /\ file' = a.file
                     /\ buf' = [buf EXCEPT ![head] = a.buf]
                     /\ status' = [status EXCEPT ![head] = IF a.ok THEN "ok" ELSE "ioerr"]
        BY <1>2, <3>2, ServeEffect
      <4> HIDE DEF head
      <4> QED  BY <2>1, <3>0, <4>1 DEF Outstanding
    <3> QED  BY <3>1, <3>2
  <2> HIDE DEF head
  <2>4. /\ used_idx' \in Idx /\ last_avail_idx' \in Idx
        /\ used_ring' \in [Slot -> Tag]
    BY <1>0, <2>1, <2>2, SuccessorCases DEF TypeOK
  <2>5. TypeOK'
    BY <1>0, <2>2, <2>3, <2>4 DEF TypeOK
  <2>6. BufferSized'
    BY <1>0, <2>2, <2>3 DEF BufferSized, Outstanding
  <2>7. HandlerQuiet'
    BY <1>0, <2>2 DEF HandlerQuiet
  <2> QED  BY <2>5, <2>6, <2>7 DEF TypeInv
<1>3. CASE Reset
  <2>0. <<>> \in Seq(Data)
    OBVIOUS
  <2>3. /\ desc' \in [Tag -> Request \cup {NoRequest}] /\ buf' \in [Tag -> Seq(Data)]
        /\ status' \in [Tag -> {"none", "ok", "ioerr"}] /\ last_avail_idx' \in Idx
    BY <1>3, <2>0, ZeroIdx DEF Reset
  <2>1. TypeOK'
    BY <1>0, <1>3, <2>3 DEF TypeOK, Reset
  <2>2. BufferSized' /\ HandlerQuiet'
    BY <1>3 DEF Reset, BufferSized, HandlerQuiet, Outstanding
  <2> QED  BY <2>1, <2>2 DEF TypeInv
<1>4. CASE SetUp
  <2>0. queue_num' \in 1..QueueSize
    BY <1>4, QueueNumsAssumption DEF SetUp
  <2>3. /\ avail_ring' \in [Slot -> Tag] /\ used_ring' \in [Slot -> Tag]
        /\ last_avail_idx' \in Idx /\ avail_idx' \in Idx
        /\ used_idx' \in Idx /\ last_used_idx' \in Idx
        /\ queue_ready' \in BOOLEAN /\ serving' \in BOOLEAN
        /\ UNCHANGED <<disk, file, irq_status, desc, buf, status, phase>>
    BY <1>0, <1>4, ZeroIdx, Empty DEF TypeOK, SetUp
  <2>1. TypeOK'
    BY <1>0, <2>0, <2>3 DEF TypeOK
  <2>2. BufferSized' /\ HandlerQuiet'
    BY <1>0, <1>4 DEF SetUp, BufferSized, HandlerQuiet, Outstanding
  <2> QED  BY <2>1, <2>2 DEF TypeInv
<1>5. CASE Publish
  <2>1. PICK t \in Tag \ Outstanding, r \in Request, b \in Content :
          /\ desc' = [desc EXCEPT ![t] = r]
          /\ Len(b) = Len(r.bufs) /\ buf' = [buf EXCEPT ![t] = b]
          /\ status' = [status EXCEPT ![t] = "none"]
          /\ avail_ring' = [avail_ring EXCEPT ![avail_idx % queue_num] = t]
    BY <1>5 DEF Publish
  <2>2. b \in Seq(Data)
    BY DataAssumption
  <2>3. /\ UNCHANGED <<disk, file, queue_num, queue_ready, irq_status, last_avail_idx, serving,
                       used_idx, used_ring, last_used_idx, phase>>
        /\ avail_idx' = Successor(avail_idx) /\ queue_ready
    BY <1>5 DEF Publish
  <2>4. /\ desc' \in [Tag -> Request \cup {NoRequest}] /\ buf' \in [Tag -> Seq(Data)]
        /\ status' \in [Tag -> {"none", "ok", "ioerr"}] /\ avail_ring' \in [Slot -> Tag]
        /\ avail_idx' \in Idx
    BY <1>0, <2>1, <2>2, <2>3, SuccessorCases DEF TypeOK
  <2>5. TypeOK'
    BY <1>0, <2>3, <2>4 DEF TypeOK
  <2>6. BufferSized'
    BY <1>0, <2>1 DEF TypeOK, BufferSized, Outstanding
  <2>7. HandlerQuiet'
    BY <2>3 DEF HandlerQuiet
  <2> QED  BY <2>5, <2>6, <2>7 DEF TypeInv
<1>6. CASE TakeUsed
  <2> DEFINE head == used_ring[last_used_idx % queue_num]
  <2>1. /\ desc' = [desc EXCEPT ![head] = NoRequest]
        /\ buf' = [buf EXCEPT ![head] = <<>>]
        /\ status' = [status EXCEPT ![head] = "none"]
        /\ last_used_idx' = Successor(last_used_idx)
        /\ UNCHANGED <<disk, file, queue_num, queue_ready, irq_status, last_avail_idx, serving,
                       avail_idx, avail_ring, used_idx, used_ring, phase>>
    BY <1>6 DEF TakeUsed
  <2> HIDE DEF head
  <2>2. /\ desc' \in [Tag -> Request \cup {NoRequest}] /\ buf' \in [Tag -> Seq(Data)]
        /\ status' \in [Tag -> {"none", "ok", "ioerr"}]
        /\ last_used_idx' \in Idx
    <3>1. <<>> \in Seq(Data)
      OBVIOUS
    <3> QED  BY <1>0, <2>1, <3>1, SuccessorCases DEF TypeOK
  <2>3. TypeOK'
    BY <1>0, <2>1, <2>2 DEF TypeOK
  <2>4. BufferSized'
    BY <1>0, <2>1 DEF TypeOK, BufferSized, Outstanding
  <2>5. HandlerQuiet'
    BY <1>0, <2>1 DEF HandlerQuiet
  <2> QED  BY <2>3, <2>4, <2>5 DEF TypeInv
<1> QED
  BY <1>1, <1>2, <1>3, <1>4, <1>5, <1>6 DEF Next

\* ... hence always.
LEMMA TypeSafe == Spec => []TypeInv
<1>1. TypeInv /\ [Next]_vars => TypeInv'
  BY TypeStep
<1> QED  BY TypeInit, <1>1, PTL DEF Spec

\* Every register, index, request, buffer and sector stays in its range, for
\* every queue_num a driver may choose, short transfers and failures included
\* (do_request, process_queue, reset).
THEOREM TypeCorrect == Spec => []TypeOK
<1>1. TypeInv => TypeOK
  BY DEF TypeInv
<1> QED  BY TypeSafe, <1>1, PTL

-----------------------------------------------------------------------------
(* The rings as sequences.                                                 *)

\* The entries between two indices, as a sequence ...
LEMMA EntriesAre ==
  ASSUME NEW ring \in [Slot -> Tag], NEW a \in Idx, NEW b \in Idx
  PROVE  /\ Entries(ring, QueueSize, a, b) \in Seq(Tag)
         /\ Len(Entries(ring, QueueSize, a, b)) = Distance(a, b)
         /\ \A k \in 1..Distance(a, b) :
              Entries(ring, QueueSize, a, b)[k] = ring[(a + (k - 1)) % QueueSize]
<1> DEFINE d == Distance(a, b)
           E(k) == ring[(a + (k - 1)) % QueueSize]
<1>1. d \in Nat /\ a \in Int
  BY DistanceSteps DEF Idx
<1>2. Entries(ring, QueueSize, a, b) = [k \in 1..d |-> ring[(a + k - 1) % QueueSize]]
  BY DEF Entries, Distance
<1> HIDE DEF d
<1>3. \A k \in 1..d : a + k - 1 = a + (k - 1) /\ a + (k - 1) \in Int
  BY <1>1
<1>4. \A k \in 1..d : ring[(a + k - 1) % QueueSize] = E(k) /\ E(k) \in Tag
  BY <1>3, SlotRange
<1> HIDE DEF E
<1>5. Entries(ring, QueueSize, a, b) = [k \in 1..d |-> E(k)]
  BY <1>2, <1>4
<1>6. [k \in 1..d |-> E(k)] \in Seq(Tag) /\ Len([k \in 1..d |-> E(k)]) = d
  BY <1>1, <1>4
<1> QED  BY <1>5, <1>6 DEF d, E

\* ... grow at the end when an entry is stored at the second ...
LEMMA EntriesAppend ==
  ASSUME NEW ring \in [Slot -> Tag], NEW a \in Idx, NEW b \in Idx, NEW t \in Tag,
         Distance(a, b) < QueueSize
  PROVE  Entries([ring EXCEPT ![b % QueueSize] = t], QueueSize, a, Successor(b))
           = Append(Entries(ring, QueueSize, a, b), t)
<1> DEFINE d == Distance(a, b)
           ring2 == [ring EXCEPT ![b % QueueSize] = t]
           before == Entries(ring, QueueSize, a, b)
           after == Entries(ring2, QueueSize, a, Successor(b))
<1>0. d \in 0..(IdxMod - 1) /\ a \in Int /\ b \in Int
  BY DistanceSteps DEF Idx
<1>1. d \in Nat /\ d < IdxMod - 1 /\ d < QueueSize
  <2>1. IdxMod \in Nat /\ QueueSize < IdxMod /\ d < QueueSize
    BY IdxModAssumption
  <2> HIDE DEF d
  <2> QED  BY ONLY <1>0, <2>1, QueueSizeAssumption
<1>2. Successor(b) \in Idx /\ Distance(a, Successor(b)) = d + 1
  BY <1>1, SuccessorCases, DistanceSteps
<1>3. ring2 \in [Slot -> Tag] /\ b % QueueSize \in Slot
  BY <1>0, SlotRange
<1>4. b % QueueSize = (a + d) % QueueSize
  BY SlotAtDistance
<1>5. /\ before \in Seq(Tag) /\ Len(before) = d
      /\ \A k \in 1..d : before[k] = ring[(a + (k - 1)) % QueueSize]
  BY EntriesAre
<1> HIDE DEF ring2, d
<1> HIDE DEF after
<1>6. /\ after \in Seq(Tag) /\ Len(after) = d + 1
      /\ \A k \in 1..(d + 1) : after[k] = ring2[(a + (k - 1)) % QueueSize]
  <2> DEFINE d2 == Distance(a, Successor(b))
  <2>1. /\ after \in Seq(Tag) /\ Len(after) = d2
        /\ \A k \in 1..d2 : after[k] = ring2[(a + (k - 1)) % QueueSize]
    BY <1>2, <1>3, EntriesAre DEF after
  <2> QED  BY <1>2, <2>1
<1>7. \A k \in 1..d : ring2[(a + (k - 1)) % QueueSize] = ring[(a + (k - 1)) % QueueSize]
  <2> TAKE k \in 1..d
  <2>1. k - 1 \in Nat /\ k - 1 < d /\ d < QueueSize + (k - 1)
    BY ONLY <1>1, k \in 1..d, QueueSizeAssumption
  <2>2. (a + (k - 1)) % QueueSize # (a + d) % QueueSize
    BY ONLY <1>0, <1>1, <2>1, SlotsDiffer
  <2> QED  BY <1>4, <2>2 DEF ring2
<1>8. ring2[(a + ((d + 1) - 1)) % QueueSize] = t
  <2>1. (d + 1) - 1 = d
    BY <1>1
  <2> QED  BY <1>3, <1>4, <2>1 DEF ring2
<1> HIDE DEF before
<1>9. \A k \in 1..d : after[k] = before[k]
  <2> TAKE k \in 1..d
  <2>1. k \in 1..(d + 1)
    BY <1>1
  <2> QED  BY <1>5, <1>6, <1>7, <2>1
<1>10. after[d + 1] = t
  BY <1>1, <1>6, <1>8
<1>11. after = Append(before, t)
  BY <1>1, <1>5, <1>6, <1>9, <1>10
<1> QED  BY <1>11 DEF before, after, ring2

\* ... and lose their first when the first index moves on.
LEMMA EntriesTail ==
  ASSUME NEW ring \in [Slot -> Tag], NEW a \in Idx, NEW b \in Idx, a # b
  PROVE  /\ Entries(ring, QueueSize, a, b) # <<>>
         /\ Head(Entries(ring, QueueSize, a, b)) = ring[a % QueueSize]
         /\ Entries(ring, QueueSize, Successor(a), b) = Tail(Entries(ring, QueueSize, a, b))
<1> DEFINE d == Distance(a, b)
           before == Entries(ring, QueueSize, a, b)
           after == Entries(ring, QueueSize, Successor(a), b)
<1>1. d \in Nat /\ d > 0 /\ a \in Int
  <2>1. d \in 0..(IdxMod - 1) /\ d # 0 /\ a \in Int
    BY DistanceSteps DEF Idx
  <2> HIDE DEF d
  <2> QED  BY <2>1
<1>2. Successor(a) \in Idx /\ Distance(Successor(a), b) = d - 1
  BY SuccessorCases, DistanceSteps
<1>3. /\ before \in Seq(Tag) /\ Len(before) = d
      /\ \A k \in 1..d : before[k] = ring[(a + (k - 1)) % QueueSize]
  BY EntriesAre
<1> HIDE DEF d, after
<1>4. /\ after \in Seq(Tag) /\ Len(after) = d - 1
      /\ \A k \in 1..(d - 1) : after[k] = ring[(Successor(a) + (k - 1)) % QueueSize]
  <2> DEFINE d2 == Distance(Successor(a), b)
  <2>1. /\ after \in Seq(Tag) /\ Len(after) = d2
        /\ \A k \in 1..d2 : after[k] = ring[(Successor(a) + (k - 1)) % QueueSize]
    BY <1>2, EntriesAre DEF after
  <2> QED  BY <1>2, <2>1
<1>5. \A k \in 1..(d - 1) : after[k] = before[k + 1]
  <2> TAKE k \in 1..(d - 1)
  <2>1. k - 1 \in Nat /\ k + 1 \in 1..d /\ (k + 1) - 1 = (k - 1) + 1
    BY <1>1
  <2>2. (Successor(a) + (k - 1)) % QueueSize = (a + ((k - 1) + 1)) % QueueSize
    BY <2>1, SlotAfterSuccessor
  <2> QED  BY <1>3, <1>4, <2>1, <2>2
<1>6. before[1] = ring[a % QueueSize]
  <2>1. 1 \in 1..d /\ a + (1 - 1) = a
    BY <1>1
  <2> QED  BY <1>3, <2>1
<1> HIDE DEF before
<1>7. before # <<>> /\ Head(before) = before[1]
  BY <1>1, <1>3
<1>8. after = Tail(before)
  <2>1. /\ Tail(before) \in Seq(Tag) /\ Len(Tail(before)) = d - 1
        /\ \A k \in 1..(d - 1) : Tail(before)[k] = before[k + 1]
    BY <1>1, <1>3
  <2> QED  BY <1>4, <1>5, <2>1
<1> QED  BY <1>6, <1>7, <1>8 DEF before, after

-----------------------------------------------------------------------------
(* The device implements the service.                                      *)

\* The rings as the service sees them: its two queues.
LEMMA RingsAre ==
  ASSUME RingInv, queue_ready
  PROVE  /\ Published = Entries(avail_ring, QueueSize, last_avail_idx, avail_idx)
         /\ Completed = Entries(used_ring, QueueSize, last_used_idx, used_idx)
  BY DEF RingInv, RingTypes, Published, Completed

\* What changes none of the service's state is no step of it.
LEMMA StutterStep ==
  ASSUME UNCHANGED <<disk, file, desc, buf, status, Published, Completed>>
  PROVE  UNCHANGED BS!vars
<1>1. (disk = "sound")' = (disk = "sound")
  OBVIOUS
<1> QED  BY <1>1 DEF BS!vars

\* Publishing a chain submits its request.
LEMMA PublishSubmits ==
  ASSUME RingInv, TypeInv, FullQueue, Publish
  PROVE  BS!Submit
<1> USE DEF device, driver
<1>1. RingTypes /\ queue_ready /\ Counted
  BY DEF RingInv, Publish
<1>2. PICK t \in Tag \ Outstanding, r \in Request :
        /\ desc' = [desc EXCEPT ![t] = r]
        /\ \E b \in Content : Len(b) = Len(r.bufs) /\ buf' = [buf EXCEPT ![t] = b]
        /\ status' = [status EXCEPT ![t] = "none"]
        /\ avail_ring' = [avail_ring EXCEPT ![avail_idx % QueueSize] = t]
  BY <1>1 DEF Publish, RingTypes
<1>3. /\ UNCHANGED <<disk, file, queue_num, queue_ready, last_avail_idx, used_idx, used_ring,
                      last_used_idx>>
      /\ avail_idx' = Successor(avail_idx)
  BY DEF Publish
<1>4. desc[t] = NoRequest
  BY DEF Outstanding
<1>5. Distance(last_avail_idx, avail_idx) < QueueSize
  <2>1. Pending < QueueSize - Unreaped
    BY PublishRings
  <2>2. Pending \in 0..(IdxMod - 1) /\ Unreaped \in 0..(IdxMod - 1) /\ IdxMod \in Nat
    BY <1>1, Ranges, IdxModAssumption
  <2>3. Pending < QueueSize
    BY ONLY <2>1, <2>2, QueueSizeAssumption
  <2> QED  BY <2>3 DEF Pending
<1>6. Published' = Append(Published, t)
  <2>1. Published' = Entries([avail_ring EXCEPT ![avail_idx % QueueSize] = t], QueueSize,
                             last_avail_idx, Successor(avail_idx))
    BY <1>1, <1>2, <1>3 DEF Published, RingTypes
  <2>2. Published = Entries(avail_ring, QueueSize, last_avail_idx, avail_idx)
    BY <1>1, RingsAre
  <2>3. /\ avail_ring \in [Slot -> Tag] /\ last_avail_idx \in Idx /\ avail_idx \in Idx
        /\ t \in Tag
    BY <1>1 DEF RingTypes
  <2>4. Entries([avail_ring EXCEPT ![avail_idx % QueueSize] = t], QueueSize,
                last_avail_idx, Successor(avail_idx))
          = Append(Entries(avail_ring, QueueSize, last_avail_idx, avail_idx), t)
    BY ONLY <1>5, <2>3, EntriesAppend
  <2> QED  BY <2>1, <2>2, <2>4
<1>7. Completed' = Completed
  BY <1>3 DEF Completed
<1>8. (disk = "sound")' = (disk = "sound")
  BY <1>3
<1> QED
  BY <1>2, <1>3, <1>4, <1>6, <1>7, <1>8 DEF BS!Submit

\* What serving request r of tag t does, as BlockService has it.
Effect(t, r, n, ok, part) ==
  /\ ok => n = BS!Cardinality(BS!Transferred(r)) /\ BS!InRange(r, file)
  /\ (disk = "sound") /\ BS!InRange(r, file) => ok
  /\ part = 1 => ~ok /\ ~(disk = "sound") /\ n < BS!Cardinality(BS!Transferred(r))
  /\ r.type = "in" /\ n + part > 0 => r.sector + n + part <= Len(file)
  /\ buf' = IF r.type = "in"
            THEN [buf EXCEPT ![t] = BS!Tear(r, BS!Filled(r, @, file, n), n, part)]
            ELSE buf
  /\ file' = IF r.type = "out"
             THEN BS!Written(r, BS!Tear(r, buf[t], n, part), file, n + part)
             ELSE file
  /\ status' = [status EXCEPT ![t] = IF ok THEN "ok" ELSE "ioerr"]
  /\ Completed' = Append(Completed, t)

\* One iteration of the loop serves the oldest request.
LEMMA ServeServes ==
  ASSUME RingInv, TypeInv, ServeRequest
  PROVE  BS!Serve
<1> USE DEF driver
<1>1. RingTypes /\ queue_ready /\ Counted /\ Covering
  BY ServeRings DEF RingInv
<1> DEFINE t == avail_ring[last_avail_idx % QueueSize]
           r == desc[t]
<1>2. /\ UNCHANGED <<disk, queue_num, queue_ready, desc, avail_idx, avail_ring, last_used_idx>>
      /\ last_avail_idx # avail_idx
      /\ last_avail_idx' = Successor(last_avail_idx) /\ used_idx' = Successor(used_idx)
      /\ used_ring' = [used_ring EXCEPT ![used_idx % QueueSize] = t]
  BY DEF ServeRequest, DeviceSlot
<1>3. t \in Tag /\ r # NoRequest
  <2>1. Waiting(0) \in Outstanding /\ Waiting(0) = t
    <3>1. Pending > 0 /\ Pending \in 0..(IdxMod - 1)
      BY <1>1, ServeRings, Ranges
    <3>2. 0 \in 0..(Pending - 1)
      BY <3>1, IdxModAssumption
    <3>3. last_avail_idx + 0 = last_avail_idx
      BY <1>1 DEF RingTypes, Idx
    <3> QED  BY <1>1, <3>2, <3>3 DEF Covering, Waiting
  <2> QED  BY <2>1 DEF Outstanding
<1>4. PICK a : \E n \in 0..Cardinality(BS!Transferred(r)), part \in 0..1 :
        /\ Served(file, buf[t], r, a, n, part)
        /\ file' = a.file
        /\ buf' = [buf EXCEPT ![t] = a.buf]
        /\ status' = [status EXCEPT ![t] = IF a.ok THEN "ok" ELSE "ioerr"]
  BY <1>3, ServeEffect DEF DeviceSlot
<1>5. PICK n \in 0..Cardinality(BS!Transferred(r)), part \in 0..1 :
        /\ Served(file, buf[t], r, a, n, part)
        /\ file' = a.file
        /\ buf' = [buf EXCEPT ![t] = a.buf]
        /\ status' = [status EXCEPT ![t] = IF a.ok THEN "ok" ELSE "ioerr"]
  BY <1>4
<1>6. /\ Published # <<>> /\ Head(Published) = t /\ Published' = Tail(Published)
  <2>1. Published = Entries(avail_ring, QueueSize, last_avail_idx, avail_idx)
    BY <1>1, RingsAre
  <2>2. Published' = Entries(avail_ring, QueueSize, Successor(last_avail_idx), avail_idx)
    BY <1>1, <1>2 DEF Published, RingTypes
  <2> QED  BY <1>1, <1>2, <2>1, <2>2, EntriesTail DEF RingTypes
<1>7. Completed' = Append(Completed, t)
  <2>1. Completed = Entries(used_ring, QueueSize, last_used_idx, used_idx)
    BY <1>1, RingsAre
  <2>2. Completed' = Entries([used_ring EXCEPT ![used_idx % QueueSize] = t], QueueSize,
                             last_used_idx, Successor(used_idx))
    BY <1>1, <1>2 DEF Completed, RingTypes
  <2>3. Distance(last_used_idx, used_idx) < QueueSize
    <3>1. Pending > 0 /\ Pending + Unreaped <= QueueSize
      BY <1>1, ServeRings DEF Counted
    <3>2. Pending \in 0..(IdxMod - 1) /\ Unreaped \in 0..(IdxMod - 1) /\ IdxMod \in Nat
      BY <1>1, Ranges, IdxModAssumption
    <3>3. Unreaped < QueueSize
      BY ONLY <3>1, <3>2, QueueSizeAssumption
    <3> QED  BY <3>3 DEF Unreaped
  <2>4. /\ used_ring \in [Slot -> Tag] /\ last_used_idx \in Idx /\ used_idx \in Idx
        /\ t \in Tag
    BY <1>1, <1>3 DEF RingTypes
  <2> HIDE DEF t
  <2>5. Entries([used_ring EXCEPT ![used_idx % QueueSize] = t], QueueSize,
                last_used_idx, Successor(used_idx))
          = Append(Entries(used_ring, QueueSize, last_used_idx, used_idx), t)
    BY ONLY <2>3, <2>4, EntriesAppend
  <2> QED  BY <2>1, <2>2, <2>5
<1>8. UNCHANGED desc /\ (disk = "sound")' = (disk = "sound")
  BY <1>2
<1> HIDE DEF t, r
<1>9. /\ a.ok \in BOOLEAN
      /\ a.ok => n = Cardinality(BS!Transferred(r)) /\ BS!InRange(r, file)
      /\ disk = "sound" /\ BS!InRange(r, file) => a.ok
      /\ part = 1 => ~a.ok /\ disk # "sound" /\ n < Cardinality(BS!Transferred(r))
      /\ r.type = "in" /\ n + part > 0 => r.sector + n + part <= Len(file)
      /\ a.file = IF r.type = "out"
                  THEN BS!Written(r, BS!Tear(r, buf[t], n, part), file, n + part)
                  ELSE file
      /\ a.buf = IF r.type = "in"
                 THEN BS!Tear(r, BS!Filled(r, buf[t], file, n), n, part) ELSE buf[t]
  BY <1>5 DEF Served
<1>10. /\ file' = IF r.type = "out"
                 THEN BS!Written(r, BS!Tear(r, buf[t], n, part), file, n + part)
                 ELSE file
       /\ status' = [status EXCEPT ![t] = IF a.ok THEN "ok" ELSE "ioerr"]
  BY <1>5, <1>9
<1>11. buf' = IF r.type = "in"
              THEN [buf EXCEPT ![t] = BS!Tear(r, BS!Filled(r, @, file, n), n, part)] ELSE buf
  <2>1. buf \in [Tag -> Seq(Data)]
    BY DEF TypeInv, TypeOK
  <2>2. CASE r.type = "in"
    BY <1>3, <1>5, <1>9, <2>1, <2>2
  <2>3. CASE r.type # "in"
    <3>1. buf' = [buf EXCEPT ![t] = buf[t]]
      BY <1>5, <1>9, <2>3
    <3> QED  BY <1>3, <2>1, <2>3, <3>1
  <2> QED  BY <2>2, <2>3
<1>12. r = desc[Head(Published)] /\ t = Head(Published)
  BY <1>6 DEF r
<1>13. BS!Cardinality(BS!Transferred(r)) = Cardinality(BS!Transferred(r))
  BY SameCardinality
<1>14. Effect(t, r, n, a.ok, part)
  BY <1>7, <1>9, <1>10, <1>11, <1>13 DEF Effect
<1>15. \E m \in 0..BS!Cardinality(BS!Transferred(r)), ok \in BOOLEAN, q \in 0..1 :
         Effect(t, r, m, ok, q)
  BY <1>9, <1>13, <1>14
<1>16. \E m \in 0..BS!Cardinality(BS!Transferred(desc[Head(Published)])),
          ok \in BOOLEAN, q \in 0..1 :
         Effect(Head(Published), desc[Head(Published)], m, ok, q)
  BY <1>12, <1>15
<1> QED
  BY <1>6, <1>8, <1>16, Zenon DEF Effect, BS!Serve

\* Taking a used entry hands the oldest completion back.
LEMMA TakeTakes ==
  ASSUME RingInv, TypeInv, TakeUsed
  PROVE  BS!Take
<1> USE DEF device, driver
<1> DEFINE t == used_ring[last_used_idx % QueueSize]
<1>1. RingTypes /\ queue_ready
  BY DEF RingInv, TypeInv, HandlerQuiet, TakeUsed
<1>2. /\ UNCHANGED <<disk, file, queue_num, queue_ready, last_avail_idx>>
      /\ UNCHANGED <<avail_idx, avail_ring, used_idx, used_ring>>
      /\ last_used_idx # used_idx /\ last_used_idx' = Successor(last_used_idx)
      /\ desc' = [desc EXCEPT ![t] = NoRequest]
      /\ buf' = [buf EXCEPT ![t] = <<>>]
      /\ status' = [status EXCEPT ![t] = "none"]
  BY <1>1 DEF TakeUsed, RingTypes
<1> HIDE DEF t
<1>3. /\ Completed # <<>> /\ Head(Completed) = t /\ Completed' = Tail(Completed)
  <2>1. Completed = Entries(used_ring, QueueSize, last_used_idx, used_idx)
    BY <1>1, RingsAre
  <2>2. Completed' = Entries(used_ring, QueueSize, Successor(last_used_idx), used_idx)
    BY <1>1, <1>2 DEF Completed, RingTypes
  <2>3. used_ring \in [Slot -> Tag] /\ last_used_idx \in Idx /\ used_idx \in Idx
    BY <1>1 DEF RingTypes
  <2> QED  BY <1>2, <2>1, <2>2, <2>3, EntriesTail DEF t
<1>4. Published' = Published
  BY <1>2 DEF Published
<1>5. (disk = "sound")' = (disk = "sound")
  BY <1>2
<1> QED  BY <1>2, <1>3, <1>4, <1>5 DEF BS!Take

\* A reset of the device forgets what is outstanding.
LEMMA ResetForgets ==
  ASSUME Reset
  PROVE  BS!Reset
<1>1. Published' = <<>> /\ Completed' = <<>> /\ (disk = "sound")' = (disk = "sound")
  BY DEF Reset, Published, Completed
<1> QED  BY <1>1 DEF Reset, BS!Reset

\* A queue set up is as empty as none.
LEMMA SetUpStutters ==
  ASSUME RingInv, FullQueue, SetUp
  PROVE  UNCHANGED BS!vars
<1>1. Published = <<>> /\ Completed = <<>>
  BY DEF SetUp, Published, Completed
<1>2. /\ RingTypes' /\ queue_ready'
      /\ last_avail_idx' = 0 /\ avail_idx' = 0 /\ used_idx' = 0 /\ last_used_idx' = 0
  BY SetUpInv DEF RingInv, Quiet, SetUp
<1>3. Distance(0, 0) = 0
  BY ZeroIdx, DistanceSteps
<1>4. EmptyRing \in [Slot -> Tag] /\ avail_ring' = EmptyRing /\ used_ring' = EmptyRing
  BY Empty DEF SetUp
<1>5. Entries(EmptyRing, QueueSize, 0, 0) = <<>>
  <2>1. /\ Entries(EmptyRing, QueueSize, 0, 0) \in Seq(Tag)
        /\ Len(Entries(EmptyRing, QueueSize, 0, 0)) = Distance(0, 0)
    BY <1>4, ZeroIdx, EntriesAre
  <2> QED  BY <1>3, <2>1
<1>6. Published' = <<>> /\ Completed' = <<>>
  BY <1>2, <1>4, <1>5 DEF Published, Completed, RingTypes
<1>7. UNCHANGED <<disk, file, desc, buf, status>>
  BY DEF SetUp
<1> QED  BY <1>1, <1>6, <1>7, StutterStep

\* The device starts as the service does ...
LEMMA RefinementInit == Init => BS!Init
<1> SUFFICES ASSUME Init PROVE BS!Init
  OBVIOUS
<1>1. Published = <<>> /\ Completed = <<>> /\ (disk = "sound") \in BOOLEAN
  BY DEF Init, Published, Completed
<1> QED  BY <1>1 DEF Init, BS!Init

\* ... and each of its steps is one of the service's or none.
LEMMA RefinementStep ==
  ASSUME RingInv, TypeInv, FullQueue, [Next]_vars
  PROVE  [BS!Next]_(BS!vars)
<1>1. CASE Publish
  BY <1>1, PublishSubmits DEF BS!Next
<1>2. CASE ServeRequest
  BY <1>2, ServeServes DEF BS!Next
<1>3. CASE TakeUsed
  BY <1>3, TakeTakes DEF BS!Next
<1>4. CASE Reset
  BY <1>4, ResetForgets DEF BS!Next
<1>5. CASE SetUp
  BY <1>5, SetUpStutters
<1>6. CASE QueueNotify \/ QueueDrained \/ ReadStatus \/ AckStatus \/ HandlerDone \/ UNCHANGED vars
  <2>1. UNCHANGED <<disk, file, queue_num, queue_ready, last_avail_idx, memory, last_used_idx>>
    BY <1>6 DEF QueueNotify, QueueDrained, ReadStatus, AckStatus, HandlerDone, vars, device, driver
  <2>2. UNCHANGED <<Published, Completed>>
    BY <2>1 DEF memory, Published, Completed
  <2> QED  BY <2>1, <2>2, StutterStep DEF memory
<1> QED
  BY <1>1, <1>2, <1>3, <1>4, <1>5, <1>6 DEF Next

\* The device implements the service: with rings of every size, any requests
\* and any failures, requests are served in order and exactly once, with all
\* of their effect or that of a prefix, across every wrap of indices and slots
\* and every reset, when the driver uses the whole queue (process_queue,
\* do_request, reset).
THEOREM Refinement ==
  ASSUME FullQueue
  PROVE  Spec => ServesRequests
<1>1. RingInv /\ TypeInv /\ [Next]_vars => [BS!Next]_(BS!vars)
  BY RefinementStep
<1>2. Spec => []RingInv
  BY RingSafe
<1>3. Spec => []TypeInv
  BY TypeSafe
<1> QED
  BY RefinementInit, <1>1, <1>2, <1>3, PTL DEF Spec, ServesRequests, BS!Spec
=============================================================================
