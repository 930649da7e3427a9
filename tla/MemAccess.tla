------------------------------ MODULE MemAccess ------------------------------
(***************************************************************************)
(* Loads, stores and fetches of one to eight bytes, where they may straddle*)
(* two pages: mmu_load and mmu_store of src/src/cpu/execute.rs and the     *)
(* fetch of Cpu::step against the jit_load and jit_store helpers of        *)
(* src/src/jit.rs and the fetch of compile.  A translation is a table      *)
(* here (module Mmu has the walk and the TLB).  A value is the sequence of *)
(* its bytes, a page PSize of them.                                        *)
(***************************************************************************)
EXTENDS Integers, Sequences, FiniteSetsExt

CONSTANTS
    PSize,             \* bytes of a page
    RamBase, RamEnd,   \* RAM's physical addresses
    Ram                \* its contents

\* RAM is whole pages (0x8000_0000, RAM_SIZE of src/src/loader.rs 12).
ASSUME RamAssumption ==
    /\ PSize \in Nat \ {0} /\ RamBase \in Nat /\ RamEnd \in Nat
    /\ RamBase % PSize = 0 /\ RamEnd % PSize = 0
    /\ Ram \in [RamBase..(RamEnd - 1) -> Int]

Unmapped == -1

\* The physical address of va, or Unmapped for a page fault.  M-mode and bare
\* translation pass it through.
Translate(table, mode, va, access) ==
    LET page == va \div PSize
    IN  IF mode = "M" THEN va
        ELSE IF page \in DOMAIN table /\ access \in table[page].perms
             THEN table[page].frame * PSize + (va % PSize) ELSE Unmapped

\* bus.offset: all of an access lies in RAM.
InRam(pa, n) == pa >= RamBase /\ pa + n <= RamEnd

\* mstatus.MPRV: loads and stores use the mode in MPP.
ls_mode(q) == IF q.mprv = 1 THEN q.mpp ELSE q.mode

\* Outcomes: a cause (0 for none) with its tval, the bytes loaded, memory after.
Fault(cause, tval, ram) == [cause |-> cause, tval |-> tval, bytes |-> <<>>, ram |-> ram]
Loaded(b) == [cause |-> 0, tval |-> 0, bytes |-> b, ram |-> Ram]
Stored(r) == [cause |-> 0, tval |-> 0, bytes |-> <<>>, ram |-> r]

Contents(pa, n) == [i \in 1..n |-> Ram[pa + i - 1]]
Written(pa, val) == [p \in DOMAIN Ram |->
    IF p - pa + 1 \in DOMAIN val THEN val[p - pa + 1] ELSE Ram[p]]

--------------------------------------------------------------------------------
(* The interpreter.                                                        *)

\* Faulty variant of Split: the second page is taken to follow the first.
Split_contiguous(table, mode, va, n, access) ==
    LET pa == Translate(table, mode, va, access)
    IN  [first |-> n, pa1 |-> pa, pa2 |-> pa]

\* Both pages of a straddling access are translated before a byte is touched;
\* the bytes then go one by one, each to its own page's address.
Split(table, mode, va, n, access) ==
    LET first == IF (va % PSize) + n <= PSize THEN n ELSE PSize - (va % PSize)
        pa1 == Translate(table, mode, va, access)
        pa2 == Translate(table, mode, va + first, access)
    IN  [first |-> first, pa1 |-> pa1, pa2 |-> IF first = n THEN pa1 ELSE pa2]

ByteAt(s, i) == IF i <= s.first THEN s.pa1 + i - 1 ELSE s.pa2 + i - s.first - 1

\* How many bytes get through before the bus refuses one: within a page all or
\* none, for it is one access.
Through(s, n) ==
    IF s.first = n THEN IF InRam(s.pa1, n) THEN n ELSE 0
    ELSE LET bad == {i \in 1..n : ~InRam(ByteAt(s, i), 1)}
         IN  IF bad = {} THEN n ELSE Min(bad) - 1

mmu_load(table, mode, va, n) ==
    LET s == Split(table, mode, va, n, "load")
        done == Through(s, n)
    IN  CASE s.pa1 = Unmapped -> Fault(13, va, Ram)
          [] s.pa1 # Unmapped /\ s.pa2 = Unmapped -> Fault(13, va + s.first, Ram)
          [] s.pa1 # Unmapped /\ s.pa2 # Unmapped ->
                 IF done < n THEN Fault(5, va + done, Ram)
                 ELSE Loaded([i \in 1..n |-> Ram[ByteAt(s, i)]])

mmu_store(table, mode, va, val) ==
    LET n == Len(val)
        s == Split(table, mode, va, n, "store")
        done == Through(s, n)
        after == [p \in DOMAIN Ram |->
                     IF \E i \in 1..done : ByteAt(s, i) = p
                     THEN val[CHOOSE i \in 1..done : ByteAt(s, i) = p] ELSE Ram[p]]
    IN  CASE s.pa1 = Unmapped -> Fault(15, va, Ram)
          [] s.pa1 # Unmapped /\ s.pa2 = Unmapped -> Fault(15, va + s.first, Ram)
          [] s.pa1 # Unmapped /\ s.pa2 # Unmapped ->
                 IF done < n THEN Fault(7, va + done, after) ELSE Stored(after)

\* Cpu::step: the low half, and for a 32-bit instruction at the end of a page
\* the high half through its own translation.
fetch(table, mode, pc) ==
    LET lo == Translate(table, mode, pc, "fetch")
        hi == IF pc % PSize = PSize - 2 THEN Translate(table, mode, pc + 2, "fetch") ELSE lo + 2
    IN  CASE lo = Unmapped -> Fault(12, pc, Ram)
          [] lo # Unmapped /\ ~InRam(lo, 2) -> Fault(1, pc, Ram)
          [] lo # Unmapped /\ InRam(lo, 2) ->
                 IF hi = Unmapped THEN Fault(12, pc + 2, Ram)
                 ELSE IF ~InRam(hi, 2) THEN Fault(1, pc + 2, Ram)
                 ELSE Loaded(Contents(lo, 2) \o Contents(hi, 2))

--------------------------------------------------------------------------------
(* Compiled code.  A helper translates the first address, in the hart's own*)
(* mode, and hands the whole access to the bus.                            *)

Failed == Fault(-1, 0, Ram)

jit_load(table, mode, va, n) ==
    LET pa == Translate(table, mode, va, "load")
    IN  IF pa # Unmapped /\ InRam(pa, n) THEN Loaded(Contents(pa, n)) ELSE Failed

\* Faulty variant of jit_store: it asks for permission to load.
jit_store_readable(table, mode, va, val) ==
    LET pa == Translate(table, mode, va, "load")
    IN  IF pa # Unmapped /\ InRam(pa, Len(val)) THEN Stored(Written(pa, val)) ELSE Failed

jit_store(table, mode, va, val) ==
    LET pa == Translate(table, mode, va, "store")
    IN  IF pa # Unmapped /\ InRam(pa, Len(val)) THEN Stored(Written(pa, val)) ELSE Failed

\* An access of a block: what the helper refuses, the step that follows repeats.
CompiledLoad(q) ==
    LET fast == jit_load(q.table, q.mode, q.va, q.n)
    IN  IF fast = Failed THEN mmu_load(q.table, ls_mode(q), q.va, q.n) ELSE fast

CompiledStore(q, val) ==
    LET fast == jit_store(q.table, q.mode, q.va, val)
    IN  IF fast = Failed THEN mmu_store(q.table, ls_mode(q), q.va, val) ELSE fast

\* The four bytes compile decodes; where it has none the block ends and the
\* instruction is left to the step.
CompiledFetch(q) ==
    LET pa == Translate(q.table, q.mode, q.va, "fetch")
    IN  IF pa # Unmapped /\ InRam(pa, 4) THEN Loaded(Contents(pa, 4))
        ELSE fetch(q.table, q.mode, q.va)

--------------------------------------------------------------------------------
(* What an access should do, byte by byte.                                 *)

ByteOk(q, mode, access, i) ==
    LET pa == Translate(q.table, mode, q.va + i - 1, access)
    IN  pa # Unmapped /\ InRam(pa, 1)
BytePa(q, mode, access, i) == Translate(q.table, mode, q.va + i - 1, access)

\* The pages of an access, one or two.
Faulting(q, mode, access) ==
    {i \in 1..q.n : BytePa(q, mode, access, i) = Unmapped}

\* Byte by byte, where the pages are, and trap at the first byte that cannot be
\* had, in the page it is in: at the first page fault, else at the first byte the
\* bus refuses; a store that page-faults has written nothing, and one the bus
\* refuses only bytes it addresses.
LoadTranslated(q) ==
    LET got == mmu_load(q.table, ls_mode(q), q.va, q.n)
        pf  == Faulting(q, ls_mode(q), "load")
        ok(i) == ByteOk(q, ls_mode(q), "load", i)
    IN  IF pf # {} THEN got = Fault(13, q.va + Min(pf) - 1, Ram)
        ELSE IF \A i \in 1..q.n : ok(i)
        THEN got = Loaded([i \in 1..q.n |-> Ram[BytePa(q, ls_mode(q), "load", i)]])
        ELSE got = Fault(5, q.va + Min({i \in 1..q.n : ~ok(i)}) - 1, Ram)

StoreTranslated(q, val) ==
    LET got == mmu_store(q.table, ls_mode(q), q.va, val)
        pf  == Faulting(q, ls_mode(q), "store")
        ok(i) == ByteOk(q, ls_mode(q), "store", i)
        at(p) == {i \in 1..q.n : BytePa(q, ls_mode(q), "store", i) = p}
    IN  /\ pf # {} => got = Fault(15, q.va + Min(pf) - 1, Ram)
        /\ \A p \in DOMAIN Ram : at(p) = {} => got.ram[p] = Ram[p]
        /\ got.cause = 0 <=> \A i \in 1..q.n : ok(i)
        /\ got.cause = 0 =>
               \A i \in 1..q.n : got.ram[BytePa(q, ls_mode(q), "store", i)] = val[i]
        /\ got.cause = 7 => ~ok(got.tval - q.va + 1)

\* Where compiled code may differ: under MPRV, and when the second page of the
\* access is not mapped right behind the first.
Excepted(q, access) ==
    \/ q.mprv = 1 /\ access # "fetch" /\ q.mpp # q.mode
    \/ \E i \in 2..q.n :
          BytePa(q, q.mode, access, i) # BytePa(q, q.mode, access, 1) + i - 1
==============================================================================
