------------------------------- MODULE Jit_proofs ------------------------------
(***************************************************************************)
(* Proofs about Jit: its types, that the block cache is faithful to memory *)
(* except where the guest changed it unseen, and that the program's order  *)
(* survives blocks, faults in them and interrupts.                         *)
(***************************************************************************)
EXTENDS Jit, SequenceTheorems, TLAPS

MemType == [Frames -> [Offsets -> Instr]]
MapType == [Roots -> [VPages -> Frames \cup {NoFrame}]]

--------------------------------------------------------------------------------
(* Fetching.                                                               *)

\* Code that can be fetched is an instruction in RAM.
LEMMA CodeInRam ==
  ASSUME mem \in MemType, maps \in MapType, satp.root \in Roots,
         NEW rg \in Regimes, NEW a, CanFetch(rg, a)
  PROVE  /\ a \in Addr /\ Off[a] \in Offsets
         /\ FrameOf(rg, satp.root, maps, a) \in Frames
         /\ Code(rg, a) \in Instr
<1>1. a \in Addr
  BY DEF CanFetch, FrameOf
<1>2. Off[a] \in Offsets
  BY <1>1 DEF Offsets
<1>3. FrameOf(rg, satp.root, maps, a) \in Frames
  <2>1. rg = "bare" => Page[a] \in Frames
    BY DEF CanFetch, FrameOf, Visible
  <2>2. rg # "bare" => Page[a] \in VPages
    BY UserPagesAssumption DEF CanFetch, FrameOf, Visible, Regimes
  <2>. QED
    BY <1>1, <2>1, <2>2, AddrAssumption DEF CanFetch, FrameOf, MapType
<1>. QED
  BY <1>1, <1>2, <1>3 DEF Code, MemType

\* The regimes that can fetch at an address find it in the same frame.
LEMMA OneFrame ==
  ASSUME NEW r1 \in Regimes, NEW r2 \in Regimes, NEW a,
         CanFetch(r1, a), CanFetch(r2, a)
  PROVE  Code(r1, a) = Code(r2, a)
<1>1. ASSUME NEW rg \in Regimes, CanFetch(rg, a)
      PROVE  /\ a \in Addr
             /\ rg = "bare" => Page[a] \in Frames
             /\ rg # "bare" => Page[a] \in VPages
  BY <1>1, UserPagesAssumption DEF CanFetch, FrameOf, Visible, Regimes
<1>2. r1 = "bare" <=> r2 = "bare"
  BY <1>1, AddrAssumption
<1>3. FrameOf(r1, satp.root, maps, a) = FrameOf(r2, satp.root, maps, a)
  BY <1>2 DEF CanFetch, FrameOf
<1>. QED
  BY <1>3 DEF Code

\* The regimes a mode can be in are among those a block can come from.
LEMMA RegimeType == \A md \in Modes : \A sm : InForce(md, sm) \subseteq Regimes
  BY DEF InForce, Regimes, Modes

--------------------------------------------------------------------------------
(* Types.                                                                  *)

BlocksType(bs) ==
  /\ bs \in [DOMAIN bs -> Seq(Compiled)] /\ DOMAIN bs \subseteq Nat
  /\ \A a \in DOMAIN bs : Len(bs[a]) \in 1..MaxBlock

\* The sequence type of a compiled block.
LEMMA BlockSeq ==
  ASSUME NEW n \in 1..MaxBlock, NEW b \in [1..n -> Compiled]
  PROVE  b \in Seq(Compiled) /\ Len(b) = n
<1>1. n \in Nat
  BY MaxBlockAssumption
<1>2. b \in Seq(Compiled)
  BY <1>1, SeqDef
<1>3. DOMAIN b = 1..n /\ DOMAIN b = 1..Len(b) /\ Len(b) \in Nat
  BY <1>2, LenProperties
<1>. QED
  BY <1>1, <1>2, <1>3

LEMMA InitType == Init => TypeOK
<1> SUFFICES ASSUME Init PROVE TypeOK
  OBVIOUS
<1>1. pc \in Nat /\ due \in Nat /\ missed \in Nat
  BY VectorsAssumption, AddrAssumption DEF Init
<1>2. mem \in MemType /\ maps \in MapType
  BY ImagesAssumption, TablesAssumption DEF Init, MemType, MapType
<1>3. /\ blocks \in [DOMAIN blocks -> Seq(Compiled)] /\ DOMAIN blocks = {}
      /\ satp \in [mode : {"bare", "sv39"}, root : Roots]
      /\ blk \in [start : Nat, done : Nat]
  BY RootsAssumption, MaxBlockAssumption DEF Init, NoBlk
<1>. QED
  BY <1>1, <1>2, <1>3, MaxWritesAssumption DEF Init, TypeOK, MemType, MapType, Modes, Locations

\* The guest's writes keep the types of code and tables.
LEMMA WrittenType ==
  ASSUME TypeOK, Written
  PROVE  mem' \in MemType /\ maps' \in MapType /\ stale' \subseteq Addr
         /\ writes' \in 0..MaxWrites
<1>1. CASE Patch
  <2>1. mem' \in MemType
    BY <1>1, GuestAssumption DEF Patch, TypeOK, MemType
  <2>. QED
    BY <1>1, <2>1, MaxWritesAssumption DEF Patch, TypeOK, MapType, Reaching
<1>2. CASE Remap
  <2>1. maps' \in MapType
    BY <1>2 DEF Remap, TypeOK, MapType
  <2>. QED
    BY <1>2, <2>1, MaxWritesAssumption DEF Remap, TypeOK, MemType
<1>3. CASE UNCHANGED edits
  BY <1>3 DEF TypeOK, MemType, MapType, edits
<1>. QED
  BY <1>1, <1>2, <1>3 DEF Written

\* What one step of the interpreter leaves behind, wherever it started.
StepTypes ==
  /\ pc' \in Nat /\ due' = pc' /\ mode' \in Modes
  /\ satp' \in [mode : {"bare", "sv39"}, root : Roots]
  /\ jitInvalidate' \in {0, 1}
  /\ mem' \in MemType /\ maps' \in MapType /\ stale' \subseteq Addr
  /\ writes' \in 0..MaxWrites

LEMMA StepFromType ==
  ASSUME TypeOK, NEW p \in Nat, NEW e \in Nat, NEW m \in Modes, StepFrom(p, e, m)
  PROVE  StepTypes /\ astray' \subseteq Nat
<1> USE DEF StepTypes
<1>0. /\ mem \in MemType /\ maps \in MapType /\ stale \subseteq Addr
      /\ writes \in 0..MaxWrites /\ astray \subseteq Nat /\ jitInvalidate \in {0, 1}
      /\ satp \in [mode : {"bare", "sv39"}, root : Roots]
  BY DEF TypeOK, MemType, MapType
<1>1. CASE StepTrap(m)
  BY <1>0, <1>1, VectorsAssumption, AddrAssumption DEF StepTrap, Traps, edits
<1>2. CASE StepPlain(p, e, m)
  BY <1>0, <1>2, WrittenType DEF StepPlain, StepTo
<1>3. CASE StepJump(p, e, m)
  BY <1>0, <1>3, GuestAssumption, AddrAssumption DEF StepJump, StepTo, edits
<1>4. CASE StepSatp(p, e, m)
  BY <1>0, <1>4 DEF StepSatp, StepTo, edits
<1>5. CASE StepReturn(p, e, m)
  BY <1>0, <1>5, GuestAssumption, AddrAssumption DEF StepReturn, StepTo, Modes, edits
<1>6. CASE StepFence(p, e, m)
  BY <1>0, <1>6 DEF StepFence, StepTo, edits
<1>. QED
  BY <1>1, <1>2, <1>3, <1>4, <1>5, <1>6 DEF StepFrom

\* A step starts where the program stands, or at a vector.
LEMMA StepStarts ==
  ASSUME TypeOK, Step
  PROVE  \/ StepFrom(pc, due, mode)
         \/ \E v \in Vectors : StepFrom(v[2], v[2], v[1]) /\ v[2] \in Nat /\ v[1] \in Modes
<1>1. \A v \in Vectors : v[2] \in Nat /\ v[1] \in Modes
  BY VectorsAssumption, AddrAssumption
<1>. QED
  BY <1>1 DEF Step, Traps

LEMMA StepType == ASSUME TypeOK, Step PROVE StepTypes /\ astray' \subseteq Nat
<1>1. pc \in Nat /\ due \in Nat /\ mode \in Modes
  BY DEF TypeOK
<1>. QED
  BY <1>1, StepStarts, StepFromType

\* What CompileMissed stores.
LEMMA Compiling ==
  ASSUME TypeOK, NEW rg, NEW n \in 1..MaxBlock, BlockLength(rg, missed, n),
         NEW b, b = [i \in 1..n |-> Code(rg, missed + i - 1)]
  PROVE  /\ b \in Seq(Compiled) /\ Len(b) = n
         /\ \A i \in 1..n : CanFetch(rg, missed + i - 1)
<1>1. \A i \in 1..n : /\ CanFetch(rg, missed + i - 1)
                      /\ Code(rg, missed + i - 1) \in Compiled
  <2> TAKE i \in 1..n
  <2>1. i - 1 \in 0..(n - 1) /\ missed + (i - 1) = missed + i - 1
    BY MaxBlockAssumption DEF TypeOK
  <2>. QED
    BY <2>1 DEF BlockLength, Compilable
<1>2. b \in [1..n -> Compiled]
  BY <1>1
<1>. QED
  BY <1>1, <1>2, BlockSeq

\* CompileMissed keeps the cache or adds one block of n instructions.
LEMMA CompileCases ==
  ASSUME TypeOK, CompileMissed
  PROVE  \/ blocks' = blocks
         \/ /\ jitInvalidate # 1
            /\ \E rg \in Regimes, n \in 1..MaxBlock :
                 /\ BlockLength(rg, missed, n)
                 /\ blocks' = [a \in DOMAIN blocks \cup {missed} |->
                                IF a = missed THEN [i \in 1..n |-> Code(rg, missed + i - 1)]
                                ELSE blocks[a]]
<1>1. CASE jitInvalidate = 1
  BY <1>1 DEF CompileMissed
<1>2. CASE jitInvalidate # 1
  <2>1. PICK rg \in InForce(mode, satp.mode), n \in 0..MaxBlock :
          /\ BlockLength(rg, missed, n)
          /\ blocks' = IF n = 0 THEN blocks
                       ELSE [a \in DOMAIN blocks \cup {missed} |->
                                IF a = missed THEN [i \in 1..n |-> Code(rg, missed + i - 1)]
                                ELSE blocks[a]]
    BY <1>2 DEF CompileMissed, Cached, NewBlock
  <2>2. n = 0 \/ n \in 1..MaxBlock
    BY MaxBlockAssumption
  <2>3. rg \in Regimes
    BY RegimeType DEF TypeOK
  <2>. QED
    BY <1>2, <2>1, <2>2, <2>3
<1>. QED
  BY <1>1, <1>2

\* Every step keeps the types.
LEMMA NextType == TypeOK /\ [Next]_vars => TypeOK'
<1> SUFFICES ASSUME TypeOK, [Next]_vars PROVE TypeOK'
  OBVIOUS
<1>. USE MaxBlockAssumption
<1>1. CASE Get
  BY <1>1 DEF Get, TypeOK, guest, edits, Locations
<1>2. CASE RunCompiled
  <2>1. mem' \in MemType /\ maps' \in MapType /\ stale' \subseteq Addr
        /\ writes' \in 0..MaxWrites
    BY <1>2, WrittenType DEF RunCompiled, TypeOK, MemType, MapType, edits
  <2>2. blk' \in [start : Nat, done : Nat]
    BY <1>2 DEF RunCompiled, TypeOK
  <2>3. due' \in Nat /\ astray' \subseteq Nat
    BY <1>2 DEF RunCompiled, TypeOK, Retire, Here
  <2>. QED
    BY <1>2, <2>1, <2>2, <2>3 DEF RunCompiled, TypeOK, MemType, MapType
<1>3. CASE RunJump
  BY <1>3, GuestAssumption, AddrAssumption DEF RunJump, Retire, Here, TypeOK, guest, edits, NoBlk, Locations
<1>4. CASE BlockReturn
  BY <1>4 DEF BlockReturn, Here, TypeOK, guest, edits, NoBlk, Locations
<1>5. CASE FaultReturn
  BY <1>5 DEF FaultReturn, Here, TypeOK, guest, edits, NoBlk, Locations
<1>6. CASE Step
  <2>1. StepTypes /\ astray' \subseteq Nat
    BY <1>6, StepType
  <2>. QED
    BY <1>6, <2>1 DEF Step, StepTypes, TypeOK, MemType, MapType, Locations
<1>7. CASE CompileMissed
  <2>1. BlocksType(blocks')
    <3>1. CASE blocks' = blocks
      BY <3>1 DEF TypeOK, BlocksType
    <3>2. ASSUME NEW rg \in Regimes, NEW n \in 1..MaxBlock, BlockLength(rg, missed, n),
                 blocks' = [a \in DOMAIN blocks \cup {missed} |->
                              IF a = missed THEN [i \in 1..n |-> Code(rg, missed + i - 1)]
                              ELSE blocks[a]]
          PROVE  BlocksType(blocks')
      <4> DEFINE b == [i \in 1..n |-> Code(rg, missed + i - 1)]
      <4>1. b \in Seq(Compiled) /\ Len(b) = n
        BY <3>2, Compiling
      <4>2. blocks' = [a \in DOMAIN blocks \cup {missed} |-> IF a = missed THEN b ELSE blocks[a]]
        BY <3>2
      <4> HIDE DEF b
      <4>. QED
        BY <4>1, <4>2 DEF TypeOK, BlocksType
    <3>. QED
      BY <1>7, <3>1, <3>2, CompileCases
  <2>. QED
    BY <1>7, <2>1 DEF CompileMissed, TypeOK, guest, edits, Locations, BlocksType
<1>8. CASE EndIteration
  <2>1. pc' \in Nat /\ due' \in Nat /\ mode' \in Modes
    BY <1>8, VectorsAssumption, AddrAssumption DEF EndIteration, TypeOK, Traps
  <2>2. BlocksType(blocks') /\ jitInvalidate' \in {0, 1} /\ stale' \subseteq Addr
    BY <1>8 DEF EndIteration, FlushPending, TypeOK, BlocksType
  <2>. QED
    BY <1>8, <2>1, <2>2 DEF EndIteration, TypeOK, Locations, BlocksType
<1>9. CASE UNCHANGED vars
  BY <1>9 DEF vars, guest, edits, TypeOK
<1>. QED
  BY <1>1, <1>2, <1>3, <1>4, <1>5, <1>6, <1>7, <1>8, <1>9 DEF Next

\* Every reachable state has the types of TypeOK (Cpu's and JitCache's fields).
THEOREM TypeCorrect == Spec => []TypeOK
<1>. QED
  BY InitType, NextType, PTL DEF Spec

--------------------------------------------------------------------------------
(* The cache against memory.                                               *)

\* What the cache promises while no flush is owed.
Faithful ==
  \A s \in DOMAIN blocks : \A i \in 1..Len(blocks[s]) :
    s + i - 1 \notin stale => InPlace(s, i)

\* The inductive invariant: a flush is owed only between the step that asked for
\* it and the end of the iteration.
CacheInv ==
  /\ TypeOK
  /\ loop \in {"top", "block", "miss", "again"} => jitInvalidate = 0
  /\ jitInvalidate = 0 => Faithful

\* What a step may do to code and tables: a write, or nothing.
Edited == Written \/ UNCHANGED <<mem, maps, stale>>

\* The guest's writes do not touch code outside `stale'.
LEMMA WrittenKeeps ==
  ASSUME TypeOK, Edited, satp'.root = satp.root,
         NEW rg \in Regimes, NEW a, a \notin stale', CanFetch(rg, a)
  PROVE  CanFetch(rg, a)' /\ Code(rg, a)' = Code(rg, a)
<1>1. /\ mem \in MemType /\ maps \in MapType /\ satp.root \in Roots
      /\ mem' \in MemType /\ maps' \in MapType /\ satp'.root \in Roots
  BY WrittenType DEF Edited, TypeOK, MemType, MapType
<1>2. a \in Addr
  BY DEF CanFetch, FrameOf
<1>3. CASE Patch
  <2>1. PICK f \in Frames, o \in Offsets, i \in Patches :
          /\ mem' = [mem EXCEPT ![f] = [@ EXCEPT ![o] = i]]
          /\ stale' = stale \cup Reaching(f, o)
    BY <1>3 DEF Patch
  <2>2. maps' = maps
    BY <1>3 DEF Patch
  <2>3. FrameOf(rg, satp'.root, maps', a) = FrameOf(rg, satp.root, maps, a)
    BY <2>2
  <2>4. CanFetch(rg, a)'
    BY <2>3 DEF CanFetch
  <2>5. FrameOf(rg, satp.root, maps, a) \in Frames /\ Off[a] \in Offsets
    BY <1>1, CodeInRam
  <2>6. ~(FrameOf(rg, satp.root, maps, a) = f /\ Off[a] = o)
    BY <1>2, <2>1 DEF Reaching
  <2>7. mem'[FrameOf(rg, satp.root, maps, a)][Off[a]] = mem[FrameOf(rg, satp.root, maps, a)][Off[a]]
    BY <1>1, <2>1, <2>5, <2>6 DEF MemType
  <2>. QED
    BY <2>3, <2>4, <2>7 DEF Code
<1>4. CASE Remap
  <2>1. PICK r \in Roots, v \in VPages, f \in Frames \cup {NoFrame} :
          /\ maps' = [maps EXCEPT ![r] = [@ EXCEPT ![v] = f]]
          /\ stale' = stale \cup (IF r = satp.root THEN {x \in Addr : Page[x] = v} ELSE {})
    BY <1>4 DEF Remap
  <2>2. Page[a] \in VPages => maps'[satp.root][Page[a]] = maps[satp.root][Page[a]]
    <3>1. CASE r = satp.root
      BY <1>1, <1>2, <2>1, <3>1 DEF MapType
    <3>2. CASE r # satp.root
      BY <1>1, <2>1, <3>2 DEF MapType
    <3>. QED
      BY <3>1, <3>2
  <2>3. rg # "bare" => Page[a] \in VPages
    BY UserPagesAssumption DEF CanFetch, FrameOf, Visible, Regimes
  <2>4. FrameOf(rg, satp'.root, maps', a) = FrameOf(rg, satp.root, maps, a)
    BY <2>2, <2>3 DEF FrameOf
  <2>5. mem' = mem
    BY <1>4 DEF Remap
  <2>. QED
    BY <2>4, <2>5 DEF CanFetch, Code
<1>5. CASE UNCHANGED <<mem, maps, stale>>
  <2>1. FrameOf(rg, satp'.root, maps', a) = FrameOf(rg, satp.root, maps, a)
    BY <1>5
  <2>. QED
    BY <1>5, <2>1 DEF CanFetch, Code
<1>. QED
  BY <1>3, <1>4, <1>5 DEF Edited, Written, edits

\* The guest's writes only ever add to what is stale.
LEMMA StaleGrows == Edited => stale \subseteq stale'
  BY DEF Edited, Written, Patch, Remap, edits

\* With the same blocks and root, the cache stays faithful across writes.
LEMMA FaithfulKept ==
  ASSUME TypeOK, Faithful, Edited, satp'.root = satp.root, blocks' = blocks
  PROVE  Faithful'
<1> SUFFICES ASSUME NEW s \in DOMAIN blocks, NEW i \in 1..Len(blocks[s]),
                    s + i - 1 \notin stale'
             PROVE  InPlace(s, i)'
  BY DEF Faithful
<1>1. InPlace(s, i)
  BY StaleGrows DEF Faithful
<1>2. PICK rg \in Regimes : CanFetch(rg, s + i - 1) /\ blocks[s][i] = Code(rg, s + i - 1)
  BY <1>1 DEF InPlace
<1>3. CanFetch(rg, s + i - 1)' /\ Code(rg, s + i - 1)' = Code(rg, s + i - 1)
  BY <1>2, WrittenKeeps
<1>. QED
  BY <1>2, <1>3 DEF InPlace

\* A block compiled now is faithful: what was put in it can be fetched now.
LEMMA FaithfulCompiled ==
  ASSUME TypeOK, Faithful, CompileMissed
  PROVE  Faithful'
<1>1. /\ satp' = satp /\ mem' = mem /\ maps' = maps /\ stale' = stale
  BY DEF CompileMissed, guest, edits
<1>2. \A rg, a : /\ CanFetch(rg, a)' = CanFetch(rg, a)
                 /\ Code(rg, a)' = Code(rg, a)
  BY <1>1 DEF CanFetch, Code
<1>3. ASSUME NEW s \in DOMAIN blocks, NEW i \in 1..Len(blocks[s]), s + i - 1 \notin stale,
             blocks'[s] = blocks[s]
      PROVE  InPlace(s, i)'
  <2>1. PICK rg \in Regimes : CanFetch(rg, s + i - 1) /\ blocks[s][i] = Code(rg, s + i - 1)
    BY <1>3 DEF Faithful, InPlace
  <2>. QED
    BY <1>2, <1>3, <2>1 DEF InPlace
<1>4. CASE blocks' = blocks
  BY <1>1, <1>3, <1>4 DEF Faithful
<1>5. ASSUME NEW rg \in Regimes, NEW n \in 1..MaxBlock, BlockLength(rg, missed, n),
             blocks' = [a \in DOMAIN blocks \cup {missed} |->
                          IF a = missed THEN [i \in 1..n |-> Code(rg, missed + i - 1)]
                          ELSE blocks[a]]
      PROVE  Faithful'
  <2> DEFINE b == [i \in 1..n |-> Code(rg, missed + i - 1)]
  <2>1. /\ b \in Seq(Compiled) /\ Len(b) = n
        /\ \A i \in 1..n : CanFetch(rg, missed + i - 1)
    BY <1>5, Compiling
  <2>2. \A i \in 1..n : b[i] = Code(rg, missed + i - 1)
    OBVIOUS
  <2>3. blocks' = [a \in DOMAIN blocks \cup {missed} |-> IF a = missed THEN b ELSE blocks[a]]
    BY <1>5
  <2> HIDE DEF b
  <2> SUFFICES ASSUME NEW s \in DOMAIN blocks', NEW i \in 1..Len(blocks'[s]),
                      s + i - 1 \notin stale
               PROVE  InPlace(s, i)'
    BY <1>1 DEF Faithful
  <2>4. CASE s = missed
    <3>1. blocks'[s] = b /\ i \in 1..n
      BY <2>1, <2>3, <2>4
    <3>2. CanFetch(rg, s + i - 1) /\ blocks'[s][i] = Code(rg, s + i - 1)
      BY <2>1, <2>2, <2>4, <3>1
    <3>. QED
      BY <1>2, <3>2 DEF InPlace
  <2>5. CASE s # missed
    <3>1. s \in DOMAIN blocks /\ blocks'[s] = blocks[s]
      BY <2>3, <2>5
    <3>. QED
      BY <1>3, <3>1
  <2>. QED
    BY <2>4, <2>5
<1>. QED
  BY <1>4, <1>5, CompileCases

\* A step that asks for no flush keeps the root and writes code at most.
LEMMA StepFromKeeps ==
  ASSUME NEW p, NEW e, NEW m, StepFrom(p, e, m), jitInvalidate = 0, jitInvalidate' = 0
  PROVE  satp'.root = satp.root /\ Edited
<1>1. CASE StepTrap(m)
  BY <1>1 DEF StepTrap, Edited, edits
<1>2. CASE StepPlain(p, e, m)
  BY <1>2 DEF StepPlain, Edited
<1>3. CASE StepJump(p, e, m)
  BY <1>3 DEF StepJump, Edited, edits
<1>4. CASE StepFence(p, e, m)
  BY <1>4 DEF StepFence, Edited, edits
<1>5. CASE StepSatp(p, e, m)
  BY <1>5 DEF StepSatp, Edited, edits
<1>6. CASE StepReturn(p, e, m)
  BY <1>6 DEF StepReturn, Edited, edits
<1>. QED
  BY <1>1, <1>2, <1>3, <1>4, <1>5, <1>6 DEF StepFrom

LEMMA InitCache == Init => CacheInv
  BY InitType DEF Init, CacheInv, Faithful

\* Every step keeps the cache's promise.
LEMMA NextCache == CacheInv /\ [Next]_vars => CacheInv'
<1> SUFFICES ASSUME CacheInv, [Next]_vars PROVE CacheInv'
  OBVIOUS
<1>0. TypeOK /\ TypeOK'
  BY NextType DEF CacheInv
<1>1. CASE Get
  <2>1. Edited /\ satp' = satp /\ blocks' = blocks /\ jitInvalidate' = jitInvalidate
    BY <1>1 DEF Get, guest, edits, Edited
  <2>. QED
    BY <1>0, <1>1, <2>1, FaithfulKept DEF Get, CacheInv
<1>2. CASE RunCompiled
  <2>1. Edited /\ satp' = satp /\ blocks' = blocks /\ jitInvalidate' = jitInvalidate /\ loop' = loop
    BY <1>2 DEF RunCompiled, Edited, Written, edits
  <2>. QED
    BY <1>0, <2>1, FaithfulKept DEF CacheInv
<1>3. CASE RunJump
  <2>1. Edited /\ satp' = satp /\ blocks' = blocks /\ jitInvalidate' = jitInvalidate
    BY <1>3 DEF RunJump, guest, edits, Edited
  <2>. QED
    BY <1>0, <1>3, <2>1, FaithfulKept DEF RunJump, CacheInv
<1>4. CASE BlockReturn
  <2>1. Edited /\ satp' = satp /\ blocks' = blocks /\ jitInvalidate' = jitInvalidate
    BY <1>4 DEF BlockReturn, guest, edits, Edited
  <2>. QED
    BY <1>0, <1>4, <2>1, FaithfulKept DEF BlockReturn, CacheInv
<1>5. CASE FaultReturn
  <2>1. Edited /\ satp' = satp /\ blocks' = blocks /\ jitInvalidate' = jitInvalidate
    BY <1>5 DEF FaultReturn, guest, edits, Edited
  <2>. QED
    BY <1>0, <1>5, <2>1, FaithfulKept DEF FaultReturn, CacheInv
<1>6. CASE Step
  <2>1. jitInvalidate = 0 /\ blocks' = blocks /\ loop' \in {"compile", "end"} /\ Faithful
    BY <1>6 DEF Step, CacheInv
  <2>2. jitInvalidate' = 0 => satp'.root = satp.root /\ Edited
    BY <1>0, <1>6, <2>1, StepStarts, StepFromKeeps
  <2>. QED
    BY <1>0, <2>1, <2>2, FaithfulKept DEF CacheInv
<1>7. CASE CompileMissed
  BY <1>0, <1>7, FaithfulCompiled DEF CompileMissed, guest, edits, CacheInv
<1>8. CASE EndIteration
  <2>1. jitInvalidate' = 0
    BY <1>0, <1>8 DEF EndIteration, FlushPending, TypeOK
  <2>2. CASE jitInvalidate = 1
    <3>1. DOMAIN blocks' = {}
      BY <1>8, <2>2 DEF EndIteration, FlushPending
    <3>. QED
      BY <1>0, <2>1, <3>1 DEF CacheInv, Faithful
  <2>3. CASE jitInvalidate # 1
    <3>1. Edited /\ satp' = satp /\ blocks' = blocks /\ jitInvalidate = 0
      BY <1>0, <1>8, <2>3 DEF EndIteration, FlushPending, Edited, TypeOK
    <3>. QED
      BY <1>0, <2>1, <3>1, FaithfulKept DEF CacheInv
  <2>. QED
    BY <2>2, <2>3
<1>9. CASE UNCHANGED vars
  <2>1. Edited /\ satp' = satp /\ blocks' = blocks /\ jitInvalidate' = jitInvalidate /\ loop' = loop
    BY <1>9 DEF vars, guest, edits, Edited
  <2>. QED
    BY <1>0, <2>1, FaithfulKept DEF CacheInv
<1>. QED
  BY <1>1, <1>2, <1>3, <1>4, <1>5, <1>6, <1>7, <1>8, <1>9 DEF Next

\* A cached block is code of the address space in use, mapped where the block has
\* it, at every place in the loop where it can be found or run, except where code
\* was patched or remapped since the last flush (JitCache::get and invalidate, the
\* flush in main.rs).
THEOREM CacheIsFaithful == Spec => []BlocksFaithful
<1>1. CacheInv => BlocksFaithful
  BY DEF CacheInv, BlocksFaithful, Faithful
<1>. QED
  BY <1>1, InitCache, NextCache, PTL DEF Spec

\* In every regime that may fetch at a cached address the fetch and the block agree:
\* what the key's lack of a mode can let through is code that this mode may not
\* fetch, never other code than it would fetch (JitCache::get).
THEOREM CacheServesFetches ==
  Spec => [](loop \in {"top", "block", "miss", "again"} =>
               \A s \in DOMAIN blocks : \A i \in 1..Len(blocks[s]) : \A rg \in Regimes :
                  s + i - 1 \notin stale /\ CanFetch(rg, s + i - 1)
                    => blocks[s][i] = Code(rg, s + i - 1))
<1> DEFINE Served ==
      loop \in {"top", "block", "miss", "again"} =>
        \A s \in DOMAIN blocks : \A i \in 1..Len(blocks[s]) : \A rg \in Regimes :
          s + i - 1 \notin stale /\ CanFetch(rg, s + i - 1)
            => blocks[s][i] = Code(rg, s + i - 1)
<1>1. BlocksFaithful => Served
  BY OneFrame DEF BlocksFaithful, InPlace
<1>. QED
  BY <1>1, CacheIsFaithful, PTL

--------------------------------------------------------------------------------
(* The program's order.                                                    *)

\* Outside a block pc is where the program stands; inside one, its start and the
\* instructions done are.
OrderInv ==
  /\ TypeOK
  /\ astray = {}
  /\ loop # "block" => pc = due
  /\ loop = "block" => Here = due

\* A step from where the program stands goes nowhere else.
LEMMA StepFromOrder ==
  ASSUME NEW p, NEW m, astray = {}, StepFrom(p, p, m)
  PROVE  astray' = {} /\ pc' = due'
<1>1. CASE StepTrap(m)
  BY <1>1 DEF StepTrap
<1>2. CASE StepPlain(p, p, m)
  BY <1>2 DEF StepPlain, StepTo
<1>3. CASE StepJump(p, p, m)
  BY <1>3 DEF StepJump, StepTo
<1>4. CASE StepSatp(p, p, m)
  BY <1>4 DEF StepSatp, StepTo
<1>5. CASE StepReturn(p, p, m)
  BY <1>5 DEF StepReturn, StepTo
<1>6. CASE StepFence(p, p, m)
  BY <1>6 DEF StepFence, StepTo, edits
<1>. QED
  BY <1>1, <1>2, <1>3, <1>4, <1>5, <1>6 DEF StepFrom

LEMMA NextOrder == OrderInv /\ [Next]_vars => OrderInv'
<1> SUFFICES ASSUME OrderInv, [Next]_vars PROVE OrderInv'
  OBVIOUS
<1>0. TypeOK /\ TypeOK'
  BY NextType DEF OrderInv
<1>1. CASE Get
  BY <1>0, <1>1 DEF Get, OrderInv, Here, TypeOK
<1>2. CASE RunCompiled
  BY <1>0, <1>2 DEF RunCompiled, OrderInv, Retire, Here, TypeOK
<1>3. CASE RunJump
  BY <1>0, <1>3 DEF RunJump, OrderInv, Retire, Here
<1>4. CASE BlockReturn
  BY <1>0, <1>4 DEF BlockReturn, OrderInv, Here
<1>5. CASE FaultReturn
  BY <1>0, <1>5 DEF FaultReturn, OrderInv, Here
<1>6. CASE Step
  <2>1. loop # "block" /\ loop' # "block"
    BY <1>6 DEF Step
  <2>2. astray' = {} /\ pc' = due'
    BY <1>0, <1>6, <2>1, StepStarts, StepFromOrder DEF OrderInv
  <2>. QED
    BY <1>0, <2>1, <2>2 DEF OrderInv
<1>7. CASE CompileMissed
  BY <1>0, <1>7 DEF CompileMissed, OrderInv
<1>8. CASE EndIteration
  BY <1>0, <1>8 DEF EndIteration, OrderInv
<1>9. CASE UNCHANGED vars
  BY <1>0, <1>9 DEF vars, OrderInv, Here
<1>. QED
  BY <1>1, <1>2, <1>3, <1>4, <1>5, <1>6, <1>7, <1>8, <1>9 DEF Next

\* Blocks, cuts, faults inside blocks and interrupts keep the program's order
\* (emit_return, emit_fault_return, and the run loop that steps after a fault).
THEOREM ProgramOrder == Spec => []InOrder
<1>1. Init => OrderInv
  BY InitType DEF Init, OrderInv
<1>2. OrderInv => InOrder
  BY DEF OrderInv, InOrder
<1>. QED
  BY <1>1, <1>2, NextOrder, PTL DEF Spec
================================================================================
