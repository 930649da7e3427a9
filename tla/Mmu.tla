--------------------------------- MODULE Mmu ---------------------------------
(***************************************************************************)
(* Address translation: Mmu::translate of src/src/cpu/mmu.rs with its      *)
(* direct-mapped TLB, the walk of a three-level page table and the         *)
(* hardware's updates of the A and D bits; SFENCE.VMA and the satp write.  *)
(* satp accepts Bare and Sv39 only (src/src/cpu/csr.rs), so the five-level *)
(* walk is never made.                                                     *)
(*                                                                         *)
(* Memory is the guest's page-table pages, a word of them named by page    *)
(* and index.  An address is the three parts of its virtual page number;   *)
(* offsets in the page play no part.  The guest edits page-table entries   *)
(* by stores at any time, switches address spaces and fences.              *)
(***************************************************************************)
EXTENDS Integers, Sequences

CONSTANTS
  Radix,     \* entries of a page table: 512
  TlbSize,   \* entries of the TLB: 64
  Page,      \* page numbers of RAM that page tables occupy
  Vpn,       \* virtual page numbers the guest uses: their three parts
  Asid,      \* address space identifiers
  Switch,    \* values the guest writes to satp
  Soft,      \* values of a PTE's software bits (RSW and above the PPN)
  NoSoft,    \* ... all of them 0
  Memory,    \* page tables the guest has made before it turns translation on
  Edit,      \* stores the guest makes to page tables: [addr, pte]
  Request,   \* accesses the guest makes
  NoEntry,   \* a TLB entry that is not valid
  NoRoot     \* the address space has not been in use since the last fence

Flag == {"V", "R", "W", "X", "U", "G", "A", "D"}
PteAddr == Page \X (0..(Radix - 1))
Pte == [bits : SUBSET Flag, ppn : Nat, soft : Soft]
Entry == [vpn : Vpn, asid : Asid, ppn : Nat, bits : SUBSET Flag, pte_addr : PteAddr]
Satp == [type : {"bare", "sv39"}, asid : Asid, root : Nat]

ASSUME RadixAssumption == Radix \in Nat \ {0} /\ TlbSize \in Nat \ {0} /\ Radix % TlbSize = 0
ASSUME PageAssumption == Page \subseteq Nat
ASSUME SwitchAssumption == Switch \subseteq Satp
ASSUME VpnAssumption ==
  Vpn \subseteq (0..(Radix - 1)) \X (0..(Radix - 1)) \X (0..(Radix - 1))
ASSUME SoftAssumption == NoSoft \in Soft
ASSUME MemoryAssumption == Memory \subseteq [PteAddr -> Pte]
ASSUME EditAssumption == Edit \subseteq [addr : PteAddr, pte : Pte]
ASSUME RequestAssumption ==
  Request \subseteq [mode : {"U", "S", "M"}, access : {"fetch", "load", "store"},
                     sum : {0, 1}, mxr : {0, 1}, canonical : BOOLEAN, vpn : Vpn]
ASSUME NoEntryAssumption == NoEntry \notin Entry
ASSUME NoRootAssumption == NoRoot \notin Nat

VARIABLES
  mem,    \* Bus.ram, the page tables
  tlb,    \* Mmu.tlb
  satp,   \* Csr.satp
  root,   \* history: the table of each address space used since the last fence
  stale   \* history: what the guest owes a fence for, "nothing" or "edit"

vars == <<mem, tlb, satp, root, stale>>

Slots == 0..(TlbSize - 1)
Slot(v) == v[3] % TlbSize

TypeOK ==
  /\ mem \in [PteAddr -> Pte]
  /\ tlb \in [Slots -> Entry \cup {NoEntry}]
  /\ satp \in Satp
  /\ root \in [Asid -> Nat \cup {NoRoot}]
  /\ stale \in {"nothing", "edit"}

EmptyTlb == [i \in Slots |-> NoEntry]
NoRoots == [a \in Asid |-> NoRoot]

\* Mmu::new, Csr::new.
Init ==
  /\ mem \in Memory
  /\ tlb = EmptyTlb
  /\ satp \in {s \in Switch : s.type = "bare"}
  /\ root = NoRoots
  /\ stale = "nothing"

-----------------------------------------------------------------------------
(* The walk.                                                               *)

Invalid(pte) == "V" \notin pte.bits \/ ("W" \in pte.bits /\ "R" \notin pte.bits)
IsLeaf(pte) == pte.bits \cap {"R", "X"} # {}

\* The low PPN parts of a superpage must be 0.
Aligned(ppn, rem) ==
  CASE rem = 0 -> TRUE
    [] rem = 1 -> ppn % Radix = 0
    [] rem = 2 -> ppn % (Radix * Radix) = 0

PageFault == [kind |-> "page_fault"]
AccessFault == [kind |-> "access_fault"]
Leaf(addr, rem) == [kind |-> "leaf", addr |-> addr, rem |-> rem]

\* One level, `rem` levels above the last; `deeper` is the walk below it.
Level(m, addr, rem, deeper) ==
  IF addr \notin PteAddr THEN AccessFault
  ELSE IF Invalid(m[addr]) THEN PageFault
  ELSE IF ~IsLeaf(m[addr]) THEN deeper
  ELSE IF Aligned(m[addr].ppn, rem) THEN Leaf(addr, rem)
  ELSE PageFault

\* The three levels: where the leaf of virtual page v is, or the fault.
Walk(m, r, v) ==
  LET a2 == <<r, v[1]>>
      a1 == <<m[a2].ppn, v[2]>>
      a0 == <<m[a1].ppn, v[3]>>
  IN  Level(m, a2, 2, Level(m, a1, 1, Level(m, a0, 0, PageFault)))

\* The part of the virtual page number that passes through a superpage.
Low(v, rem) ==
  CASE rem = 0 -> 0
    [] rem = 1 -> v[3]
    [] rem = 2 -> v[2] * Radix + v[3]

-----------------------------------------------------------------------------
(* translate.                                                              *)

pf_cause(access) == CASE access = "fetch" -> 12 [] access = "load" -> 13 [] access = "store" -> 15
af_cause(access) == CASE access = "fetch" -> 1 [] access = "load" -> 5 [] access = "store" -> 7

\* check_perms
check_perms(bits, r) ==
  /\ r.mode = "U" => "U" \in bits
  /\ r.mode = "S" /\ "U" \in bits => r.sum = 1
  /\ CASE r.access = "fetch" -> "X" \in bits
       [] r.access = "load"  -> "R" \in bits \/ (r.mxr = 1 /\ "X" \in bits)
       [] r.access = "store" -> "W" \in bits

\* The bits an access sets.
Recorded(access) == IF access = "store" THEN {"A", "D"} ELSE {"A"}

Fault(m, t, cause) == [cause |-> cause, ppn |-> 0, mem |-> m, tlb |-> t]
Success(m, t, ppn) == [cause |-> 0, ppn |-> ppn, mem |-> m, tlb |-> t]

\* Faulty variant of Hits: the address space is not compared.
Hits_any(t, s, v) ==
  LET e == t[Slot(v)]
  IN  e # NoEntry /\ e.vpn = v

\* The TLB has an entry for page v in the space of satp, or a global one.
Hits(t, s, v) ==
  LET e == t[Slot(v)]
  IN  e # NoEntry /\ e.vpn = v /\ (e.asid = s.asid \/ "G" \in e.bits)

\* A hit.  The PTE written back is put together from the entry.
Hit(m, t, r) ==
  LET e == t[Slot(r.vpn)]
      new == [e EXCEPT !.bits = @ \cup Recorded(r.access)]
  IN  IF ~check_perms(e.bits, r) THEN Fault(m, t, pf_cause(r.access))
      ELSE IF new = e THEN Success(m, t, e.ppn)
      ELSE Success([m EXCEPT ![e.pte_addr] = [bits |-> new.bits, ppn |-> e.ppn, soft |-> NoSoft]],
                   [t EXCEPT ![Slot(r.vpn)] = new], e.ppn)

\* Faulty variant of Fill: the software bits are kept with the permissions.
Fill_unmasked(t, s, v, addr, rem, pte) ==
  IF rem # 0 THEN t
  ELSE [t EXCEPT ![Slot(v)] = [vpn |-> v, asid |-> s.asid, ppn |-> pte.ppn,
                               bits |-> pte.bits \cup {pte.soft}, pte_addr |-> addr]]

\* Pages of the last level only are cached.
Fill(t, s, v, addr, rem, pte) ==
  IF rem # 0 THEN t
  ELSE [t EXCEPT ![Slot(v)] = [vpn |-> v, asid |-> s.asid, ppn |-> pte.ppn,
                               bits |-> pte.bits, pte_addr |-> addr]]

\* A miss: the walk, the permissions, A and D in memory, the fill.
Miss(m, t, s, r) ==
  LET w == Walk(m, s.root, r.vpn)
      new == [m[w.addr] EXCEPT !.bits = @ \cup Recorded(r.access)]
  IN  IF w.kind = "access_fault" THEN Fault(m, t, af_cause(r.access))
      ELSE IF w.kind = "page_fault" THEN Fault(m, t, pf_cause(r.access))
      ELSE IF ~check_perms(m[w.addr].bits, r) THEN Fault(m, t, pf_cause(r.access))
      ELSE Success([m EXCEPT ![w.addr] = new],
                   Fill(t, s, r.vpn, w.addr, w.rem, new),
                   new.ppn + Low(r.vpn, w.rem))

\* Mmu::translate.
translate(m, t, s, r) ==
  IF s.type = "bare" \/ r.mode = "M" THEN Success(m, t, Low(r.vpn, 2) + r.vpn[1] * Radix * Radix)
  ELSE IF ~r.canonical THEN Fault(m, t, pf_cause(r.access))
  ELSE IF Hits(t, s, r.vpn) THEN Hit(m, t, r)
  ELSE Miss(m, t, s, r)

-----------------------------------------------------------------------------
(* The machine.                                                            *)

\* A fetch, load or store of guest code, or the compiler fetching for it.
Access ==
  \E r \in Request :
    LET out == translate(mem, tlb, satp, r)
    IN  /\ mem' = out.mem
        /\ tlb' = out.tlb
        /\ UNCHANGED <<satp, root, stale>>

\* Faulty variant of SfenceVma: the entries of the present space only.
SfenceVma_asid ==
  /\ tlb' = [i \in Slots |-> IF tlb[i] # NoEntry /\ tlb[i].asid = satp.asid
                             THEN NoEntry ELSE tlb[i]]
  /\ root' = IF satp.type = "sv39" THEN [NoRoots EXCEPT ![satp.asid] = satp.root] ELSE NoRoots
  /\ stale' = "nothing"
  /\ UNCHANGED <<mem, satp>>

\* SFENCE.VMA: the whole TLB is flushed, whatever its operands (TVM is clear).
SfenceVma ==
  /\ tlb' = EmptyTlb
  /\ root' = IF satp.type = "sv39" THEN [NoRoots EXCEPT ![satp.asid] = satp.root] ELSE NoRoots
  /\ stale' = "nothing"
  /\ UNCHANGED <<mem, satp>>

\* csrw satp (TVM is clear): the TLB stays.  To give an address space another table takes a
\* fence.
WriteSatp ==
  /\ satp' \in Switch
  /\ IF satp'.type = "bare"
     THEN UNCHANGED <<root, stale>>
     ELSE /\ root' = [root EXCEPT ![satp'.asid] = satp'.root]
          /\ stale' = IF root[satp'.asid] \in {NoRoot, satp'.root} THEN stale ELSE "edit"
  /\ UNCHANGED <<mem, tlb>>

\* The guest stores a PTE.  An edit of one that was invalid takes no fence.
EditPte ==
  \E e \in Edit :
    /\ mem' = [mem EXCEPT ![e.addr] = e.pte]
    /\ stale' = IF Invalid(mem[e.addr]) THEN stale ELSE "edit"
    /\ UNCHANGED <<tlb, satp, root>>

Next == Access \/ SfenceVma \/ WriteSatp \/ EditPte

Spec == Init /\ [][Next]_vars

-----------------------------------------------------------------------------
(* Properties.                                                             *)

\* A TLB entry in slot i says what the page table of its address space says,
\* D apart, which memory may have and the entry not.
Backed(e, i) ==
  /\ Slot(e.vpn) = i
  /\ root[e.asid] # NoRoot
  /\ Walk(mem, root[e.asid], e.vpn) = Leaf(e.pte_addr, 0)
  /\ mem[e.pte_addr].ppn = e.ppn
  /\ "A" \in e.bits
  /\ e.bits \cup {"D"} = mem[e.pte_addr].bits \cup {"D"}
  /\ "D" \in e.bits => "D" \in mem[e.pte_addr].bits

\* When the guest owes no fence every TLB entry, of whatever address space,
\* agrees with the page tables: fills, evictions, write-backs of A and D,
\* switches of satp and edits of invalid PTEs leave none behind (translate,
\* flush).
TlbCoherent ==
  stale = "nothing" => \A i \in Slots : tlb[i] # NoEntry => Backed(tlb[i], i)

\* Global pages are the same in every address space, as the guest must have it.
GlobalsShared ==
  \A a, b \in Asid : root[a] # NoRoot /\ root[b] # NoRoot =>
    \A v \in Vpn : LET w == Walk(mem, root[a], v)
                   IN  w.kind = "leaf" /\ "G" \in mem[w.addr].bits => Walk(mem, root[b], v) = w

\* Two memories alike but for the software bits of PTEs.
SamePtes(m1, m2) ==
  \A a \in PteAddr : m1[a].bits = m2[a].bits /\ m1[a].ppn = m2[a].ppn

\* A TLB is never seen: with it or without it an access has the same outcome,
\* page or fault, and leaves the same A and D bits in the page table, for a
\* guest that owes no fence (translate's two paths).
TlbTransparent ==
  stale = "nothing" /\ GlobalsShared =>
    \A r \in Request :
      LET with == translate(mem, tlb, satp, r)
          without == translate(mem, EmptyTlb, satp, r)
      IN  /\ with.cause = without.cause /\ with.ppn = without.ppn
          /\ SamePtes(with.mem, without.mem)

\* A translation changes nothing in a PTE but A and D: "if PTE.D=0: set
\* PTE.D=1 in memory" (the design of the MMU).
TranslateStep ==
  Access => \A a \in PteAddr :
    mem'[a] = [mem[a] EXCEPT !.bits = @ \cup (mem'[a].bits \cap {"A", "D"})]
OnlyAccessedAndDirty == [][TranslateStep]_vars

-----------------------------------------------------------------------------
(* The inductive invariant behind TlbCoherent and TlbTransparent.          *)

\* The present address space is in use.
InUse == satp.type = "sv39" => root[satp.asid] = satp.root

IInv == TypeOK /\ InUse /\ TlbCoherent
=============================================================================
