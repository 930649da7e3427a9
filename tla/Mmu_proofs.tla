------------------------------ MODULE Mmu_proofs ------------------------------
(***************************************************************************)
(* Proofs about Mmu: its types, the coherence of the TLB with the page     *)
(* tables, and that a TLB is never seen by a guest that owes no fence.     *)
(***************************************************************************)
EXTENDS Mmu, TLAPS

MemType == [PteAddr -> Pte]
TlbType == [Slots -> Entry \cup {NoEntry}]

\* m2 has the valid PTEs of m1, with A and D set in some of them perhaps.
Keeps(m1, m2) ==
  \A a \in PteAddr : ~Invalid(m1[a]) =>
    /\ m2[a].ppn = m1[a].ppn
    /\ m1[a].bits \subseteq m2[a].bits
    /\ m2[a].bits \cup {"A", "D"} = m1[a].bits \cup {"A", "D"}

-----------------------------------------------------------------------------
(* The walk.                                                               *)

\* The walk, level by level.
Walk0(m, p, v) == Level(m, <<p, v[3]>>, 0, PageFault)
Walk1(m, p, v) == Level(m, <<p, v[2]>>, 1, Walk0(m, m[<<p, v[2]>>].ppn, v))
Walk2(m, p, v) == Level(m, <<p, v[1]>>, 2, Walk1(m, m[<<p, v[1]>>].ppn, v))

\* Walk is made of its levels (translate's loop, unrolled).
LEMMA WalkLevels == \A m, r, v : Walk(m, r, v) = Walk2(m, r, v)
  BY DEF Walk, Walk2, Walk1, Walk0

\* What a walk answers.
Answer(m, w) ==
  \/ w = PageFault
  \/ w = AccessFault
  \/ \E a \in PteAddr, rem \in 0..2 :
       w = Leaf(a, rem) /\ ~Invalid(m[a]) /\ IsLeaf(m[a])

LEMMA LevelAnswer ==
  ASSUME NEW m, NEW a, NEW rem \in 0..2, NEW d, Answer(m, d)
  PROVE  Answer(m, Level(m, a, rem, d))
  BY DEF Level, Answer

\* A walk ends in a fault or at a valid leaf in RAM.
LEMMA WalkAnswer == \A m, r, v : Answer(m, Walk(m, r, v))
<1> SUFFICES ASSUME NEW m, NEW r, NEW v PROVE Answer(m, Walk2(m, r, v))
  BY WalkLevels
<1>1. Answer(m, PageFault)
  BY DEF Answer
<1>2. \A p : Answer(m, Walk0(m, p, v))
  BY <1>1, LevelAnswer DEF Walk0
<1>3. \A p : Answer(m, Walk1(m, p, v))
  BY <1>2, LevelAnswer DEF Walk1
<1>. QED
  BY <1>3, LevelAnswer DEF Walk2

\* A leaf is recognised by its kind.
LEMMA LeafAnswer ==
  ASSUME NEW m, NEW w, Answer(m, w), w.kind = "leaf"
  PROVE  /\ w = Leaf(w.addr, w.rem) /\ w.addr \in PteAddr /\ w.rem \in 0..2
         /\ ~Invalid(m[w.addr]) /\ IsLeaf(m[w.addr])
  BY DEF Answer, Leaf, PageFault, AccessFault

\* Validity and leafness do not depend on A and D.
LEMMA BitsKept ==
  ASSUME NEW m1, NEW m2, Keeps(m1, m2), NEW a \in PteAddr, ~Invalid(m1[a])
  PROVE  /\ ~Invalid(m2[a])
         /\ IsLeaf(m2[a]) <=> IsLeaf(m1[a])
         /\ m2[a].ppn = m1[a].ppn
<1>1. /\ m2[a].ppn = m1[a].ppn
      /\ m2[a].bits \cup {"A", "D"} = m1[a].bits \cup {"A", "D"}
  BY DEF Keeps
<1>2. \A f \in {"V", "R", "W", "X"} : f \in m2[a].bits <=> f \in m1[a].bits
  BY <1>1
<1>. QED
  BY <1>1, <1>2 DEF Invalid, IsLeaf

\* A level answers the same in both memories, if what is below it does.
LEMMA LevelKept ==
  ASSUME NEW m1, NEW m2, Keeps(m1, m2), NEW a, NEW rem \in 0..2, NEW d1, NEW d2,
         Level(m1, a, rem, d1).kind = "leaf",
         ~IsLeaf(m1[a]) /\ d1.kind = "leaf" => d2 = d1
  PROVE  Level(m2, a, rem, d2) = Level(m1, a, rem, d1)
<1>1. a \in PteAddr /\ ~Invalid(m1[a])
  BY DEF Level, PageFault, AccessFault
<1>2. ~Invalid(m2[a]) /\ (IsLeaf(m2[a]) <=> IsLeaf(m1[a])) /\ m2[a].ppn = m1[a].ppn
  BY <1>1, BitsKept
<1>3. CASE IsLeaf(m1[a])
  BY <1>1, <1>2, <1>3 DEF Level
<1>4. CASE ~IsLeaf(m1[a])
  BY <1>1, <1>2, <1>4 DEF Level
<1>. QED
  BY <1>3, <1>4

\* The PTE a level reads is valid when the walk gets to a leaf.
LEMMA LevelReads ==
  ASSUME NEW m, NEW a, NEW rem \in 0..2, NEW d, Level(m, a, rem, d).kind = "leaf"
  PROVE  a \in PteAddr /\ ~Invalid(m[a]) /\ (~IsLeaf(m[a]) => d.kind = "leaf")
  BY DEF Level, PageFault, AccessFault

\* A walk that finds a leaf finds the same one as long as the valid PTEs keep
\* what they say, A and D apart.
LEMMA WalkKept ==
  ASSUME NEW m1, NEW m2, Keeps(m1, m2), NEW r, NEW v, Walk(m1, r, v).kind = "leaf"
  PROVE  Walk(m2, r, v) = Walk(m1, r, v)
<1>1. ASSUME NEW p, Walk0(m1, p, v).kind = "leaf"
      PROVE  Walk0(m2, p, v) = Walk0(m1, p, v)
  BY <1>1, LevelKept DEF Walk0
<1>2. ASSUME NEW p, Walk1(m1, p, v).kind = "leaf"
      PROVE  Walk1(m2, p, v) = Walk1(m1, p, v)
  <2> DEFINE a == <<p, v[2]>>
  <2>1. Level(m1, a, 1, Walk0(m1, m1[a].ppn, v)).kind = "leaf"
    BY <1>2 DEF Walk1
  <2> HIDE DEF a
  <2>2. a \in PteAddr /\ ~Invalid(m1[a])
    BY <2>1, LevelReads
  <2>3. m2[a].ppn = m1[a].ppn
    BY <2>2, BitsKept
  <2>4. Walk0(m1, m1[a].ppn, v).kind = "leaf" => Walk0(m2, m2[a].ppn, v) = Walk0(m1, m1[a].ppn, v)
    BY <1>1, <2>3
  <2>5. Level(m2, a, 1, Walk0(m2, m2[a].ppn, v)) = Level(m1, a, 1, Walk0(m1, m1[a].ppn, v))
    BY <2>1, <2>4, LevelKept
  <2>. QED
    BY <2>5 DEF Walk1, a
<1>3. Walk2(m1, r, v).kind = "leaf" => Walk2(m2, r, v) = Walk2(m1, r, v)
  <2> SUFFICES ASSUME Walk2(m1, r, v).kind = "leaf"
               PROVE  Walk2(m2, r, v) = Walk2(m1, r, v)
    OBVIOUS
  <2> DEFINE a == <<r, v[1]>>
  <2>1. Level(m1, a, 2, Walk1(m1, m1[a].ppn, v)).kind = "leaf"
    BY DEF Walk2
  <2> HIDE DEF a
  <2>2. a \in PteAddr /\ ~Invalid(m1[a])
    BY <2>1, LevelReads
  <2>3. m2[a].ppn = m1[a].ppn
    BY <2>2, BitsKept
  <2>4. Walk1(m1, m1[a].ppn, v).kind = "leaf" => Walk1(m2, m2[a].ppn, v) = Walk1(m1, m1[a].ppn, v)
    BY <1>2, <2>3
  <2>5. Level(m2, a, 2, Walk1(m2, m2[a].ppn, v)) = Level(m1, a, 2, Walk1(m1, m1[a].ppn, v))
    BY <2>1, <2>4, LevelKept
  <2>. QED
    BY <2>5 DEF Walk2, a
<1>. QED
  BY <1>3, WalkLevels

-----------------------------------------------------------------------------
(* Types.                                                                  *)

\* Every page has a slot.
LEMMA SlotType == \A v \in Vpn : Slot(v) \in Slots
<1> SUFFICES ASSUME NEW v \in Vpn PROVE v[3] % TlbSize \in 0..(TlbSize - 1)
  BY DEF Slot, Slots
<1>1. v[3] \in Int
  BY VpnAssumption, RadixAssumption
<1>2. TlbSize \in Nat \ {0}
  BY RadixAssumption
<1>. QED
  BY <1>1, <1>2

LEMMA RecordedType == \A access : Recorded(access) \subseteq {"A", "D"}
  BY DEF Recorded

\* A hit leaves memory and TLB of their types (translate's first half).
LEMMA HitType ==
  ASSUME NEW m \in MemType, NEW t \in TlbType, NEW s \in Satp, NEW r \in Request,
         Hits(t, s, r.vpn)
  PROVE  Hit(m, t, r).mem \in MemType /\ Hit(m, t, r).tlb \in TlbType
<1> DEFINE e == t[Slot(r.vpn)]
           new == [e EXCEPT !.bits = @ \cup Recorded(r.access)]
           pte == [bits |-> new.bits, ppn |-> e.ppn, soft |-> NoSoft]
<1>1. r.vpn \in Vpn
  BY RequestAssumption
<1>2. Slot(r.vpn) \in Slots
  BY <1>1, SlotType
<1>3. e \in Entry
  BY <1>2 DEF Hits, TlbType
<1>4. new \in Entry
  BY <1>3, RecordedType DEF Entry, Flag
<1>5. pte \in Pte
  BY <1>3, <1>4, SoftAssumption DEF Entry, Pte
<1>6. [m EXCEPT ![e.pte_addr] = pte] \in MemType
  BY <1>5 DEF MemType
<1>7. [t EXCEPT ![Slot(r.vpn)] = new] \in TlbType
  BY <1>4 DEF TlbType
<1>8. Hit(m, t, r) \in {Fault(m, t, pf_cause(r.access)), Success(m, t, e.ppn),
        Success([m EXCEPT ![e.pte_addr] = pte], [t EXCEPT ![Slot(r.vpn)] = new], e.ppn)}
  BY DEF Hit
<1>. QED
  BY <1>6, <1>7, <1>8 DEF Fault, Success

\* What a successful walk leaves behind.
Walked(m, t, s, r) ==
  LET w == Walk(m, s.root, r.vpn)
      new == [m[w.addr] EXCEPT !.bits = @ \cup Recorded(r.access)]
  IN  Success([m EXCEPT ![w.addr] = new], Fill(t, s, r.vpn, w.addr, w.rem, new),
              new.ppn + Low(r.vpn, w.rem))

LEMMA MissCases ==
  ASSUME NEW m, NEW t, NEW s, NEW r
  PROVE  \/ \E c : Miss(m, t, s, r) = Fault(m, t, c)
         \/ /\ Walk(m, s.root, r.vpn).kind = "leaf"
            /\ Miss(m, t, s, r) = Walked(m, t, s, r)
<1>1. Answer(m, Walk(m, s.root, r.vpn))
  BY WalkAnswer
<1>2. \A w : Answer(m, w) => w.kind \in {"page_fault", "access_fault", "leaf"}
  <2> SUFFICES ASSUME NEW w, Answer(m, w)
               PROVE  w.kind \in {"page_fault", "access_fault", "leaf"}
    OBVIOUS
  <2>1. w = PageFault \/ w = AccessFault \/ \E a, rem : w = Leaf(a, rem)
    BY DEF Answer
  <2>. QED
    BY <2>1 DEF PageFault, AccessFault, Leaf
<1>. QED
  BY <1>1, <1>2 DEF Miss, Walked

\* A miss leaves memory and TLB of their types (translate's second half).
LEMMA MissType ==
  ASSUME NEW m \in MemType, NEW t \in TlbType, NEW s \in Satp, NEW r \in Request
  PROVE  Miss(m, t, s, r).mem \in MemType /\ Miss(m, t, s, r).tlb \in TlbType
<1>1. CASE \E c : Miss(m, t, s, r) = Fault(m, t, c)
  BY <1>1 DEF Fault
<1>2. CASE /\ Walk(m, s.root, r.vpn).kind = "leaf"
           /\ Miss(m, t, s, r) = Walked(m, t, s, r)
  <2> DEFINE w == Walk(m, s.root, r.vpn)
             new == [m[w.addr] EXCEPT !.bits = @ \cup Recorded(r.access)]
  <2>1. Answer(m, w) /\ w.kind = "leaf"
    BY <1>2, WalkAnswer
  <2>2. w.addr \in PteAddr
    BY <2>1, LeafAnswer
  <2>3. m[w.addr] \in Pte
    BY <2>2 DEF MemType
  <2>4. new \in Pte
    BY <2>3, RecordedType DEF Pte, Flag
  <2>5. [m EXCEPT ![w.addr] = new] \in MemType
    BY <2>4 DEF MemType
  <2>6. r.vpn \in Vpn /\ s.asid \in Asid
    BY RequestAssumption DEF Satp
  <2>7. Fill(t, s, r.vpn, w.addr, w.rem, new) \in TlbType
    <3> DEFINE e == [vpn |-> r.vpn, asid |-> s.asid, ppn |-> new.ppn,
                     bits |-> new.bits, pte_addr |-> w.addr]
    <3>1. e \in Entry
      BY <2>2, <2>4, <2>6 DEF Entry, Pte
    <3> HIDE DEF e
    <3>2. [t EXCEPT ![Slot(r.vpn)] = e] \in TlbType
      BY <3>1 DEF TlbType
    <3>. QED
      BY <3>2 DEF Fill, e
  <2>8. Walked(m, t, s, r).mem = [m EXCEPT ![w.addr] = new]
        /\ Walked(m, t, s, r).tlb = Fill(t, s, r.vpn, w.addr, w.rem, new)
    BY DEF Walked, Success
  <2>. QED
    BY <1>2, <2>5, <2>7, <2>8
<1>. QED
  BY <1>1, <1>2, MissCases

\* The ways translate goes.
LEMMA TranslateCases ==
  ASSUME NEW m, NEW t, NEW s, NEW r
  PROVE  \/ \E n : translate(m, t, s, r) = Success(m, t, n)
         \/ \E c : translate(m, t, s, r) = Fault(m, t, c)
         \/ s.type # "bare" /\ Hits(t, s, r.vpn) /\ translate(m, t, s, r) = Hit(m, t, r)
         \/ s.type # "bare" /\ translate(m, t, s, r) = Miss(m, t, s, r)
  BY DEF translate

LEMMA TranslateType ==
  ASSUME NEW m \in MemType, NEW t \in TlbType, NEW s \in Satp, NEW r \in Request
  PROVE  translate(m, t, s, r).mem \in MemType /\ translate(m, t, s, r).tlb \in TlbType
<1>1. CASE \E n : translate(m, t, s, r) = Success(m, t, n)
  BY <1>1 DEF Success
<1>2. CASE \E c : translate(m, t, s, r) = Fault(m, t, c)
  BY <1>2 DEF Fault
<1>3. CASE Hits(t, s, r.vpn) /\ translate(m, t, s, r) = Hit(m, t, r)
  BY <1>3, HitType
<1>4. CASE translate(m, t, s, r) = Miss(m, t, s, r)
  BY <1>4, MissType
<1>. QED
  BY <1>1, <1>2, <1>3, <1>4, TranslateCases

LEMMA InitType == Init => TypeOK
<1> SUFFICES ASSUME Init PROVE TypeOK
  OBVIOUS
<1>1. mem \in [PteAddr -> Pte]
  BY MemoryAssumption DEF Init
<1>2. tlb \in [Slots -> Entry \cup {NoEntry}]
  BY DEF Init, EmptyTlb
<1>3. satp \in Satp
  BY SwitchAssumption DEF Init
<1>. QED
  BY <1>1, <1>2, <1>3 DEF Init, TypeOK, NoRoots

LEMMA StepType == TypeOK /\ [Next]_vars => TypeOK'
<1> SUFFICES ASSUME TypeOK, [Next]_vars PROVE TypeOK'
  OBVIOUS
<1> USE DEF TypeOK
<1>1. CASE Access
  <2>1. PICK r \in Request : mem' = translate(mem, tlb, satp, r).mem
                             /\ tlb' = translate(mem, tlb, satp, r).tlb
    BY <1>1 DEF Access
  <2>2. mem' \in MemType /\ tlb' \in TlbType
    BY <2>1, TranslateType DEF MemType, TlbType
  <2>. QED
    BY <1>1, <2>2 DEF Access, MemType, TlbType
<1>2. CASE SfenceVma
  BY <1>2 DEF SfenceVma, EmptyTlb, NoRoots, Satp
<1>3. CASE WriteSatp
  <2>1. satp' \in Satp
    BY <1>3, SwitchAssumption DEF WriteSatp
  <2>. QED
    BY <1>3, <2>1 DEF WriteSatp, Satp
<1>4. CASE EditPte
  <2>1. PICK e \in Edit : mem' = [mem EXCEPT ![e.addr] = e.pte]
    BY <1>4 DEF EditPte
  <2>2. e.pte \in Pte
    BY EditAssumption
  <2>. QED
    BY <1>4, <2>1, <2>2 DEF EditPte
<1>5. CASE UNCHANGED vars
  BY <1>5 DEF vars
<1>. QED
  BY <1>1, <1>2, <1>3, <1>4, <1>5 DEF Next

\* Every variable of the translation keeps its type.
THEOREM TypeCorrect == Spec => []TypeOK
  BY InitType, StepType, PTL DEF Spec

-----------------------------------------------------------------------------
(* Coherence.                                                              *)

\* Backed and TlbCoherent of a given memory, TLB and roots.
BackedIn(m, rt, e, i) ==
  /\ Slot(e.vpn) = i
  /\ rt[e.asid] # NoRoot
  /\ Walk(m, rt[e.asid], e.vpn) = Leaf(e.pte_addr, 0)
  /\ m[e.pte_addr].ppn = e.ppn
  /\ "A" \in e.bits
  /\ e.bits \cup {"D"} = m[e.pte_addr].bits \cup {"D"}
  /\ "D" \in e.bits => "D" \in m[e.pte_addr].bits

Coherent(m, t, rt) == \A i \in Slots : t[i] # NoEntry => BackedIn(m, rt, t[i], i)

LEMMA CoherentDef == TlbCoherent <=> (stale = "nothing" => Coherent(mem, tlb, root))
  BY DEF TlbCoherent, Backed, Coherent, BackedIn

\* The PTE behind an entry is a valid leaf of RAM.
LEMMA BackedValid ==
  ASSUME NEW m, NEW rt, NEW e, NEW i, BackedIn(m, rt, e, i)
  PROVE  /\ Walk(m, rt[e.asid], e.vpn).kind = "leaf"
         /\ e.pte_addr \in PteAddr /\ ~Invalid(m[e.pte_addr])
<1> DEFINE w == Walk(m, rt[e.asid], e.vpn)
<1>1. Answer(m, w) /\ w = Leaf(e.pte_addr, 0)
  BY WalkAnswer DEF BackedIn
<1>2. w.kind = "leaf" /\ w.addr = e.pte_addr
  BY <1>1 DEF Leaf
<1> HIDE DEF w
<1>3. w.addr \in PteAddr /\ ~Invalid(m[w.addr])
  BY <1>1, <1>2, LeafAnswer
<1>. QED
  BY <1>2, <1>3 DEF w

\* An entry stays backed while the valid PTEs are kept and its space too.
LEMMA BackedKept ==
  ASSUME NEW m1, NEW m2, Keeps(m1, m2), NEW rt1, NEW rt2, NEW e, NEW i,
         BackedIn(m1, rt1, e, i), rt2[e.asid] = rt1[e.asid]
  PROVE  BackedIn(m2, rt2, e, i)
<1>1. /\ Walk(m1, rt1[e.asid], e.vpn).kind = "leaf"
      /\ e.pte_addr \in PteAddr /\ ~Invalid(m1[e.pte_addr])
  BY BackedValid
<1>2. Walk(m2, rt2[e.asid], e.vpn) = Walk(m1, rt1[e.asid], e.vpn)
  BY <1>1, WalkKept
<1>3. /\ m2[e.pte_addr].ppn = m1[e.pte_addr].ppn
      /\ m1[e.pte_addr].bits \subseteq m2[e.pte_addr].bits
      /\ m2[e.pte_addr].bits \cup {"A", "D"} = m1[e.pte_addr].bits \cup {"A", "D"}
  BY <1>1 DEF Keeps
<1>4. /\ "A" \in e.bits
      /\ e.bits \cup {"D"} = m1[e.pte_addr].bits \cup {"D"}
      /\ "D" \in e.bits => "D" \in m1[e.pte_addr].bits
  BY DEF BackedIn
<1>5. e.bits \cup {"D"} = m2[e.pte_addr].bits \cup {"D"}
  BY <1>3, <1>4
<1>6. "D" \in e.bits => "D" \in m2[e.pte_addr].bits
  BY <1>3, <1>4
<1>. QED
  BY <1>2, <1>3, <1>5, <1>6 DEF BackedIn

\* The bits a store writes back on a hit: those of the PTE, and D.
LEMMA WriteBackBits ==
  ASSUME NEW b, NEW e, NEW access, "A" \in e, e \cup {"D"} = b \cup {"D"},
         e \cup Recorded(access) # e
  PROVE  e \cup Recorded(access) = b \cup {"D"}
  BY DEF Recorded

\* A hit keeps the page tables, and the TLB coherent with them.
LEMMA HitCoherent ==
  ASSUME NEW m \in MemType, NEW t \in TlbType, NEW s \in Satp, NEW r \in Request, NEW rt,
         Hits(t, s, r.vpn), Coherent(m, t, rt)
  PROVE  /\ Keeps(m, Hit(m, t, r).mem)
         /\ Coherent(Hit(m, t, r).mem, Hit(m, t, r).tlb, rt)
<1> DEFINE i == Slot(r.vpn)
           e == t[i]
           new == [e EXCEPT !.bits = @ \cup Recorded(r.access)]
           pte == [bits |-> new.bits, ppn |-> e.ppn, soft |-> NoSoft]
           m2 == [m EXCEPT ![e.pte_addr] = pte]
           t2 == [t EXCEPT ![i] = new]
<1>1. i \in Slots /\ e # NoEntry /\ e \in Entry
  BY SlotType, RequestAssumption DEF Hits, TlbType
<1>2. BackedIn(m, rt, e, i)
  BY <1>1 DEF Coherent
<1>3. e.pte_addr \in PteAddr
  BY <1>2, BackedValid
<1>4. CASE Hit(m, t, r) \in {Fault(m, t, pf_cause(r.access)), Success(m, t, e.ppn)}
  <2>1. Hit(m, t, r).mem = m /\ Hit(m, t, r).tlb = t
    BY <1>4 DEF Fault, Success
  <2>. QED
    BY <2>1 DEF Keeps
<1>5. CASE new # e /\ Hit(m, t, r) = Success(m2, t2, e.ppn)
  <2>1. /\ new.vpn = e.vpn /\ new.asid = e.asid /\ new.ppn = e.ppn
        /\ new.pte_addr = e.pte_addr /\ new.bits = e.bits \cup Recorded(r.access)
        /\ (new # e => new.bits # e.bits)
    BY <1>1 DEF Entry
  <2>2. /\ m[e.pte_addr].ppn = e.ppn /\ "A" \in e.bits
        /\ e.bits \cup {"D"} = m[e.pte_addr].bits \cup {"D"}
    BY <1>2 DEF BackedIn
  <2>3. new.bits = m[e.pte_addr].bits \cup {"D"}
    BY <1>5, <2>1, <2>2, WriteBackBits
  <2>4. m2[e.pte_addr].bits = new.bits /\ m2[e.pte_addr].ppn = e.ppn
    BY <1>3 DEF MemType
  <2>5. \A a \in PteAddr : a # e.pte_addr => m2[a] = m[a]
    BY DEF MemType
  <2> HIDE DEF m2
  <2>6. Keeps(m, m2)
    <3> SUFFICES ASSUME NEW a \in PteAddr
                 PROVE  /\ m2[a].ppn = m[a].ppn /\ m[a].bits \subseteq m2[a].bits
                        /\ m2[a].bits \cup {"A", "D"} = m[a].bits \cup {"A", "D"}
      BY DEF Keeps
    <3>1. CASE a = e.pte_addr
      BY <3>1, <2>2, <2>3, <2>4
    <3>2. CASE a # e.pte_addr
      BY <3>2, <2>5
    <3>. QED
      BY <3>1, <3>2
  <2>7. BackedIn(m2, rt, e, i)
    BY <1>2, <2>6, BackedKept
  <2> HIDE DEF new, e, i
  <2>8. BackedIn(m2, rt, new, i)
    BY <2>1, <2>2, <2>4, <2>7 DEF BackedIn
  <2>9. Coherent(m2, t2, rt)
    <3> SUFFICES ASSUME NEW j \in Slots, t2[j] # NoEntry PROVE BackedIn(m2, rt, t2[j], j)
      BY DEF Coherent
    <3>1. CASE j = i
      BY <1>1, <2>8, <3>1 DEF TlbType
    <3>2. CASE j # i
      <4>1. t2[j] = t[j]
        BY <3>2 DEF TlbType
      <4>2. BackedIn(m, rt, t[j], j)
        BY <4>1 DEF Coherent
      <4>. QED
        BY <4>1, <4>2, <2>6, BackedKept
    <3>. QED
      BY <3>1, <3>2
  <2>. QED
    BY <1>5, <2>6, <2>9 DEF Success
<1>. QED
  BY <1>4, <1>5 DEF Hit

\* So does a miss, which fills the TLB from the PTE it has just updated.
LEMMA MissCoherent ==
  ASSUME NEW m \in MemType, NEW t \in TlbType, NEW s \in Satp, NEW r \in Request, NEW rt,
         rt[s.asid] = s.root, Coherent(m, t, rt)
  PROVE  /\ Keeps(m, Miss(m, t, s, r).mem)
         /\ Coherent(Miss(m, t, s, r).mem, Miss(m, t, s, r).tlb, rt)
<1>1. CASE \E c : Miss(m, t, s, r) = Fault(m, t, c)
  <2>1. Miss(m, t, s, r).mem = m /\ Miss(m, t, s, r).tlb = t
    BY <1>1 DEF Fault
  <2>. QED
    BY <2>1 DEF Keeps
<1>2. CASE /\ Walk(m, s.root, r.vpn).kind = "leaf"
           /\ Miss(m, t, s, r) = Walked(m, t, s, r)
  <2> DEFINE w == Walk(m, s.root, r.vpn)
             new == [m[w.addr] EXCEPT !.bits = @ \cup Recorded(r.access)]
             m2 == [m EXCEPT ![w.addr] = new]
             i == Slot(r.vpn)
             e == [vpn |-> r.vpn, asid |-> s.asid, ppn |-> new.ppn,
                   bits |-> new.bits, pte_addr |-> w.addr]
  <2>1. Answer(m, w) /\ w.kind = "leaf"
    BY <1>2, WalkAnswer
  <2>2. w.addr \in PteAddr /\ w = Leaf(w.addr, w.rem)
    BY <2>1, LeafAnswer
  <2>3. m[w.addr] \in Pte
    BY <2>2 DEF MemType
  <2>4. new.ppn = m[w.addr].ppn /\ new.bits = m[w.addr].bits \cup Recorded(r.access)
    BY <2>3 DEF Pte
  <2>5. m2[w.addr] = new /\ \A a \in PteAddr : a # w.addr => m2[a] = m[a]
    BY <2>2 DEF MemType
  <2>6. Walked(m, t, s, r).mem = m2 /\ Walked(m, t, s, r).tlb = Fill(t, s, r.vpn, w.addr, w.rem, new)
    BY DEF Walked, Success
  <2>7. i \in Slots
    BY SlotType, RequestAssumption
  <2> HIDE DEF w, new, m2
  <2>8. Keeps(m, m2)
    <3> SUFFICES ASSUME NEW a \in PteAddr
                 PROVE  /\ m2[a].ppn = m[a].ppn /\ m[a].bits \subseteq m2[a].bits
                        /\ m2[a].bits \cup {"A", "D"} = m[a].bits \cup {"A", "D"}
      BY DEF Keeps
    <3>1. CASE a = w.addr
      BY <3>1, <2>4, <2>5, RecordedType
    <3>2. CASE a # w.addr
      BY <3>2, <2>5
    <3>. QED
      BY <3>1, <3>2
  <2>9. Coherent(m2, t, rt)
    BY <2>8, BackedKept DEF Coherent
  <2>10. CASE w.rem # 0
    BY <1>2, <2>6, <2>8, <2>9, <2>10 DEF Fill
  <2>11. CASE w.rem = 0
    <3>1. Walk(m2, s.root, r.vpn) = Leaf(w.addr, 0)
      BY <2>1, <2>2, <2>8, <2>11, WalkKept DEF w
    <3>2. s.root # NoRoot
      BY NoRootAssumption DEF Satp
    <3>3. "A" \in new.bits
      BY <2>4 DEF Recorded
    <3>4. BackedIn(m2, rt, e, i)
      BY <2>5, <3>1, <3>2, <3>3 DEF BackedIn
    <3>5. Fill(t, s, r.vpn, w.addr, w.rem, new) = [t EXCEPT ![i] = e]
      BY <2>11 DEF Fill
    <3> HIDE DEF e, i
    <3>6. Coherent(m2, [t EXCEPT ![i] = e], rt)
      <4> SUFFICES ASSUME NEW j \in Slots, [t EXCEPT ![i] = e][j] # NoEntry
                   PROVE  BackedIn(m2, rt, [t EXCEPT ![i] = e][j], j)
        BY DEF Coherent
      <4>1. CASE j = i
        BY <2>7, <3>4, <4>1 DEF TlbType
      <4>2. CASE j # i
        BY <2>9, <4>2 DEF TlbType, Coherent
      <4>. QED
        BY <4>1, <4>2
    <3>. QED
      BY <1>2, <2>6, <2>8, <3>5, <3>6
  <2>. QED
    BY <2>10, <2>11
<1>. QED
  BY <1>1, <1>2, MissCases

\* Translation, in an address space that is in use.
LEMMA TranslateCoherent ==
  ASSUME NEW m \in MemType, NEW t \in TlbType, NEW s \in Satp, NEW r \in Request, NEW rt,
         s.type = "sv39" => rt[s.asid] = s.root, Coherent(m, t, rt)
  PROVE  Coherent(translate(m, t, s, r).mem, translate(m, t, s, r).tlb, rt)
<1>1. CASE \E n : translate(m, t, s, r) = Success(m, t, n)
  BY <1>1 DEF Success
<1>2. CASE \E c : translate(m, t, s, r) = Fault(m, t, c)
  BY <1>2 DEF Fault
<1>3. CASE Hits(t, s, r.vpn) /\ translate(m, t, s, r) = Hit(m, t, r)
  BY <1>3, HitCoherent
<1>4. CASE s.type # "bare" /\ translate(m, t, s, r) = Miss(m, t, s, r)
  <2>1. rt[s.asid] = s.root
    BY <1>4 DEF Satp
  <2>. QED
    BY <1>4, <2>1, MissCoherent
<1>. QED
  BY <1>1, <1>2, <1>3, <1>4, TranslateCases

LEMMA InitInv == Init => IInv
<1> SUFFICES ASSUME Init PROVE IInv
  OBVIOUS
<1>1. TypeOK
  BY InitType
<1>2. InUse
  BY DEF Init, InUse
<1>3. TlbCoherent
  BY DEF Init, EmptyTlb, TlbCoherent
<1>. QED
  BY <1>1, <1>2, <1>3 DEF IInv

\* The invariant is inductive.
LEMMA StepInv == IInv /\ [Next]_vars => IInv'
<1> SUFFICES ASSUME IInv, [Next]_vars PROVE IInv'
  OBVIOUS
<1>1. TypeOK /\ TypeOK' /\ InUse /\ (stale = "nothing" => Coherent(mem, tlb, root))
  BY StepType, CoherentDef DEF IInv
<1>2. mem \in MemType /\ tlb \in TlbType /\ satp \in Satp
  BY <1>1 DEF TypeOK, MemType, TlbType
<1>3. ASSUME stale' = "nothing" => Coherent(mem', tlb', root') PROVE TlbCoherent'
  BY <1>3 DEF TlbCoherent, Backed, Coherent, BackedIn
<1>4. CASE Access
  <2>1. PICK r \in Request : mem' = translate(mem, tlb, satp, r).mem
                             /\ tlb' = translate(mem, tlb, satp, r).tlb
    BY <1>4 DEF Access
  <2>2. InUse' /\ root' = root /\ stale' = stale
    BY <1>1, <1>4 DEF Access, InUse
  <2>3. satp.type = "sv39" => root[satp.asid] = satp.root
    BY <1>1 DEF InUse
  <2>4. stale' = "nothing" => Coherent(mem', tlb', root')
    BY <1>1, <1>2, <2>1, <2>2, <2>3, TranslateCoherent
  <2>. QED
    BY <1>1, <1>3, <2>2, <2>4 DEF IInv
<1>5. CASE SfenceVma
  <2>1. InUse'
    BY <1>2, <1>5 DEF SfenceVma, InUse, NoRoots, Satp
  <2>2. Coherent(mem', tlb', root')
    BY <1>5 DEF SfenceVma, EmptyTlb, Coherent
  <2>. QED
    BY <1>1, <1>3, <2>1, <2>2 DEF IInv
<1>6. CASE WriteSatp
  <2>1. InUse'
    BY <1>1, <1>6 DEF WriteSatp, InUse, TypeOK, Satp
  <2>2. ASSUME stale' = "nothing" PROVE Coherent(mem', tlb', root')
    <3>1. stale = "nothing" /\ mem' = mem /\ tlb' = tlb
      BY <1>6, <2>2 DEF WriteSatp
    <3>2. \A a \in Asid : root[a] # NoRoot => root'[a] = root[a]
      BY <1>1, <1>6, <2>2 DEF WriteSatp, TypeOK, Satp
    <3>3. Keeps(mem, mem)
      BY DEF Keeps
    <3> SUFFICES ASSUME NEW i \in Slots, tlb[i] # NoEntry PROVE BackedIn(mem, root', tlb[i], i)
      BY <3>1 DEF Coherent
    <3>4. BackedIn(mem, root, tlb[i], i)
      BY <1>1, <3>1 DEF Coherent
    <3>5. tlb[i].asid \in Asid
      BY <1>2 DEF TlbType, Entry
    <3>6. root[tlb[i].asid] # NoRoot
      BY <3>4 DEF BackedIn
    <3>. QED
      BY <3>2, <3>3, <3>4, <3>5, <3>6, BackedKept
  <2>. QED
    BY <1>1, <1>3, <2>1, <2>2 DEF IInv
<1>7. CASE EditPte
  <2>1. PICK e \in Edit : /\ mem' = [mem EXCEPT ![e.addr] = e.pte]
                          /\ stale' = IF Invalid(mem[e.addr]) THEN stale ELSE "edit"
                          /\ UNCHANGED <<tlb, satp, root>>
    BY <1>7 DEF EditPte
  <2>2. InUse'
    BY <1>1, <2>1 DEF InUse
  <2>3. ASSUME stale' = "nothing" PROVE Coherent(mem', tlb', root')
    <3>1. stale = "nothing" /\ Invalid(mem[e.addr])
      BY <2>1, <2>3
    <3>2. \A a \in PteAddr : a # e.addr => mem'[a] = mem[a]
      BY <1>2, <2>1 DEF MemType
    <3>3. Keeps(mem, mem')
      <4> SUFFICES ASSUME NEW a \in PteAddr, ~Invalid(mem[a])
                   PROVE  mem'[a] = mem[a]
        BY DEF Keeps
      <4>. QED
        BY <3>1, <3>2
    <3>. QED
      BY <1>1, <2>1, <3>1, <3>3, BackedKept DEF Coherent
  <2>. QED
    BY <1>1, <1>3, <2>2, <2>3 DEF IInv
<1>8. CASE UNCHANGED vars
  BY <1>1, <1>3, <1>8 DEF vars, IInv, InUse
<1>. QED
  BY <1>4, <1>5, <1>6, <1>7, <1>8 DEF Next

\* The inductive invariant holds in every reachable state of the MMU (cpu/mmu.rs).
THEOREM Invariance == Spec => []IInv
  BY InitInv, StepInv, PTL DEF Spec

\* No TLB entry disagrees with the page tables while the guest owes no fence,
\* for any page tables, edits, address spaces and TLB size.
THEOREM Coherence == Spec => []TlbCoherent
<1>1. IInv => TlbCoherent
  BY DEF IInv
<1>. QED
  BY <1>1, Invariance, PTL

-----------------------------------------------------------------------------
(* Transparency.                                                           *)

\* What the guest sees of an access.
SameOutcome(x, y) == x.cause = y.cause /\ x.ppn = y.ppn /\ SamePtes(x.mem, y.mem)

\* A miss does not depend on what the TLB holds.
LEMMA MissSame ==
  ASSUME NEW m, NEW t1, NEW t2, NEW s, NEW r
  PROVE  SameOutcome(Miss(m, t1, s, r), Miss(m, t2, s, r))
  BY DEF SameOutcome, SamePtes, Miss, Fault, Success

\* D has no part in the permissions.
LEMMA PermsSame ==
  ASSUME NEW b1, NEW b2, NEW r \in Request, b1 \cup {"D"} = b2 \cup {"D"}
  PROVE  check_perms(b1, r) <=> check_perms(b2, r)
<1>1. \A f \in {"U", "X", "R", "W"} : f \in b1 <=> f \in b2
  OBVIOUS
<1>2. r.access \in {"fetch", "load", "store"}
  BY RequestAssumption
<1>3. CASE r.access = "fetch"
  BY <1>1, <1>3 DEF check_perms
<1>4. CASE r.access = "load"
  BY <1>1, <1>4 DEF check_perms
<1>5. CASE r.access = "store"
  BY <1>1, <1>5 DEF check_perms
<1>. QED
  BY <1>2, <1>3, <1>4, <1>5

\* The bits of a hit's write-back, or of the entry when there is none, are
\* those the walk would leave.
LEMMA RecordSame ==
  ASSUME NEW b, NEW e, NEW access, "A" \in e, e \cup {"D"} = b \cup {"D"},
         "D" \in e => "D" \in b
  PROVE  /\ e \cup Recorded(access) = e => b \cup Recorded(access) = b
         /\ e \cup Recorded(access) # e => e \cup Recorded(access) = b \cup Recorded(access)
<1>1. "A" \in b
  OBVIOUS
<1>2. CASE access = "store"
  <2>1. Recorded(access) = {"A", "D"}
    BY <1>2 DEF Recorded
  <2>. QED
    BY <1>1, <2>1
<1>3. CASE access # "store"
  <2>1. Recorded(access) = {"A"}
    BY <1>3 DEF Recorded
  <2>. QED
    BY <1>1, <2>1
<1>. QED
  BY <1>2, <1>3

\* A hit on an entry that is backed in the present address space does what
\* the walk would do (translate's two halves).
LEMMA HitSame ==
  ASSUME NEW m \in MemType, NEW t \in TlbType, NEW t2, NEW s \in Satp, NEW r \in Request,
         NEW rt, Hits(t, s, r.vpn), BackedIn(m, rt, t[Slot(r.vpn)], Slot(r.vpn)),
         Walk(m, s.root, r.vpn) = Leaf(t[Slot(r.vpn)].pte_addr, 0)
  PROVE  SameOutcome(Hit(m, t, r), Miss(m, t2, s, r))
<1> DEFINE e == t[Slot(r.vpn)]
           a == e.pte_addr
           ent == [e EXCEPT !.bits = @ \cup Recorded(r.access)]
           pte == [bits |-> ent.bits, ppn |-> e.ppn, soft |-> NoSoft]
           new == [m[a] EXCEPT !.bits = @ \cup Recorded(r.access)]
<1>1. e \in Entry
  BY SlotType, RequestAssumption DEF Hits, TlbType
<1>2. a \in PteAddr /\ m[a] \in Pte
  BY BackedValid DEF MemType
<1>3. /\ m[a].ppn = e.ppn /\ "A" \in e.bits
      /\ e.bits \cup {"D"} = m[a].bits \cup {"D"}
      /\ "D" \in e.bits => "D" \in m[a].bits
  BY DEF BackedIn
<1>4. /\ Walk(m, s.root, r.vpn).kind = "leaf" /\ Walk(m, s.root, r.vpn).addr = a
      /\ Walk(m, s.root, r.vpn).rem = 0
  BY DEF Leaf
<1>5. check_perms(e.bits, r) <=> check_perms(m[a].bits, r)
  BY <1>3, PermsSame
<1>6. /\ ent.bits = e.bits \cup Recorded(r.access) /\ (ent = e <=> ent.bits = e.bits)
      /\ new.bits = m[a].bits \cup Recorded(r.access) /\ new.ppn = m[a].ppn
  <2>1. ent.bits = e.bits \cup Recorded(r.access)
    BY <1>1 DEF Entry
  <2>2. ent = e <=> ent.bits = e.bits
    BY <1>1 DEF Entry
  <2>3. new.bits = m[a].bits \cup Recorded(r.access) /\ new.ppn = m[a].ppn
    BY <1>2 DEF Pte
  <2>. QED
    BY <2>1, <2>2, <2>3
<1>7. /\ ent = e => new.bits = m[a].bits
      /\ ent # e => ent.bits = new.bits
  BY <1>3, <1>6, RecordSame
<1>8. CASE ~check_perms(e.bits, r)
  <2>1. Hit(m, t, r) = Fault(m, t, pf_cause(r.access))
    BY <1>8 DEF Hit
  <2>2. Miss(m, t2, s, r) = Fault(m, t2, pf_cause(r.access))
    BY <1>4, <1>5, <1>8 DEF Miss
  <2>. QED
    BY <2>1, <2>2 DEF SameOutcome, SamePtes, Fault
<1>9. CASE check_perms(e.bits, r)
  <2> DEFINE m2 == [m EXCEPT ![a] = new]
             m3 == [m EXCEPT ![a] = pte]
  <2>1. /\ Miss(m, t2, s, r).cause = 0 /\ Miss(m, t2, s, r).mem = m2
        /\ Miss(m, t2, s, r).ppn = new.ppn + Low(r.vpn, 0)
    BY <1>4, <1>5, <1>9 DEF Miss, Success
  <2>2. Miss(m, t2, s, r).ppn = e.ppn
    <3>1. Low(r.vpn, 0) = 0
      BY DEF Low
    <3>2. e.ppn \in Nat
      BY <1>1 DEF Entry
    <3>. QED
      BY <1>3, <1>6, <2>1, <3>1, <3>2
  <2>3. Hit(m, t, r).cause = 0 /\ Hit(m, t, r).ppn = e.ppn
    BY <1>9 DEF Hit, Success
  <2>4. Hit(m, t, r).mem = IF ent = e THEN m ELSE m3
    BY <1>9 DEF Hit, Success
  <2>5. /\ m2[a].bits = new.bits /\ m2[a].ppn = m[a].ppn
        /\ m3[a].bits = ent.bits /\ m3[a].ppn = m[a].ppn
        /\ \A b \in PteAddr : b # a => m2[b] = m[b] /\ m3[b] = m[b]
    BY <1>2, <1>3, <1>6 DEF MemType
  <2> HIDE DEF m2, m3, new, ent, a, e
  <2>6. ent = e => SamePtes(m, m2)
    BY <1>7, <2>5 DEF SamePtes
  <2>7. ent # e => SamePtes(m3, m2)
    BY <1>7, <2>5 DEF SamePtes
  <2>8. SamePtes(Hit(m, t, r).mem, Miss(m, t2, s, r).mem)
    BY <2>1, <2>4, <2>6, <2>7
  <2>. QED
    BY <2>1, <2>2, <2>3, <2>8 DEF SameOutcome
<1>. QED
  BY <1>8, <1>9

\* A page the TLB has, in its own space or as a global one, is where the
\* present page table has it.
LEMMA HitWalk ==
  ASSUME TypeOK, InUse, GlobalsShared, satp.type = "sv39", NEW v \in Vpn,
         Hits(tlb, satp, v), BackedIn(mem, root, tlb[Slot(v)], Slot(v))
  PROVE  Walk(mem, satp.root, v) = Leaf(tlb[Slot(v)].pte_addr, 0)
<1> DEFINE e == tlb[Slot(v)]
<1>1. e.vpn = v /\ (e.asid = satp.asid \/ "G" \in e.bits) /\ e \in Entry
  BY SlotType DEF Hits, TypeOK
<1>2. /\ Walk(mem, root[e.asid], v) = Leaf(e.pte_addr, 0) /\ root[e.asid] # NoRoot
      /\ e.bits \cup {"D"} = mem[e.pte_addr].bits \cup {"D"}
  BY <1>1 DEF BackedIn
<1>3. root[satp.asid] = satp.root /\ satp.root # NoRoot /\ satp.asid \in Asid
  BY NoRootAssumption DEF InUse, TypeOK, Satp
<1>4. CASE e.asid = satp.asid
  BY <1>2, <1>3, <1>4
<1>5. CASE "G" \in e.bits
  <2>1. "G" \in mem[e.pte_addr].bits
    BY <1>2, <1>5
  <2>2. Walk(mem, root[e.asid], v).kind = "leaf" /\ Walk(mem, root[e.asid], v).addr = e.pte_addr
    BY <1>2 DEF Leaf
  <2>3. e.asid \in Asid /\ root[satp.asid] # NoRoot
    BY <1>1, <1>3 DEF Entry
  <2>4. Walk(mem, root[satp.asid], v) = Walk(mem, root[e.asid], v)
    BY <1>2, <1>3, <2>1, <2>2, <2>3 DEF GlobalsShared
  <2>. QED
    BY <1>2, <1>3, <2>4
<1>. QED
  BY <1>1, <1>4, <1>5

LEMMA InvTransparent == IInv => TlbTransparent
<1> SUFFICES ASSUME IInv, stale = "nothing", GlobalsShared, NEW r \in Request
             PROVE  SameOutcome(translate(mem, tlb, satp, r), translate(mem, EmptyTlb, satp, r))
  BY DEF TlbTransparent, SameOutcome
<1>1. TypeOK /\ InUse /\ Coherent(mem, tlb, root)
  BY CoherentDef DEF IInv
<1>2. mem \in MemType /\ tlb \in TlbType /\ satp \in Satp /\ r.vpn \in Vpn
  BY <1>1, RequestAssumption DEF TypeOK, MemType, TlbType
<1>3. ~Hits(EmptyTlb, satp, r.vpn)
  BY <1>2, SlotType DEF Hits, EmptyTlb
<1>4. CASE satp.type = "bare" \/ r.mode = "M"
  BY <1>4 DEF translate, SameOutcome, SamePtes, Success
<1>5. CASE ~(satp.type = "bare" \/ r.mode = "M") /\ ~r.canonical
  BY <1>5 DEF translate, SameOutcome, SamePtes, Fault
<1>6. CASE ~(satp.type = "bare" \/ r.mode = "M") /\ r.canonical
  <2>1. translate(mem, EmptyTlb, satp, r) = Miss(mem, EmptyTlb, satp, r)
    BY <1>3, <1>6 DEF translate
  <2>2. CASE ~Hits(tlb, satp, r.vpn)
    <3>1. translate(mem, tlb, satp, r) = Miss(mem, tlb, satp, r)
      BY <1>6, <2>2 DEF translate
    <3>. QED
      BY <2>1, <3>1, MissSame
  <2>3. CASE Hits(tlb, satp, r.vpn)
    <3>1. translate(mem, tlb, satp, r) = Hit(mem, tlb, r)
      BY <1>6, <2>3 DEF translate
    <3>2. BackedIn(mem, root, tlb[Slot(r.vpn)], Slot(r.vpn))
      BY <1>1, <1>2, <2>3, SlotType DEF Coherent, Hits
    <3>3. satp.type = "sv39"
      BY <1>2, <1>6 DEF Satp
    <3>4. Walk(mem, satp.root, r.vpn) = Leaf(tlb[Slot(r.vpn)].pte_addr, 0)
      BY <1>1, <1>2, <2>3, <3>2, <3>3, HitWalk
    <3>. QED
      BY <1>2, <2>1, <2>3, <3>1, <3>2, <3>4, HitSame
  <2>. QED
    BY <2>2, <2>3
<1>. QED
  BY <1>4, <1>5, <1>6

\* A guest that owes no fence and shares its global pages cannot tell that
\* there is a TLB: every access has the outcome, and leaves the A and D bits,
\* that a walk of the page tables has.
THEOREM Transparency == Spec => []TlbTransparent
  BY Invariance, InvTransparent, PTL
=============================================================================
