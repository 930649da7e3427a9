----------------------------- MODULE Reservation -----------------------------
(***************************************************************************)
(* LR and SC, src/src/cpu/execute.rs 800-846, under a kernel that switches *)
(* between threads on the one hart.  cpu.reservation is one physical       *)
(* address; traps, switches and other stores leave it, only SC clears it.  *)
(* Threads add to shared counters with LR/SC loops and with AMOADD.        *)
(***************************************************************************)
EXTENDS Naturals

CONSTANTS
    Threads,   \* guest threads
    Va,        \* the virtual addresses they use
    Pa,        \* Pa[v]: the physical address of v (threads share cells)
    NoPa,      \* no reservation
    MaxAdds    \* TLC bound: completed additions

Cells == {Pa[v] : v \in Va}

ASSUME AddressAssumption == DOMAIN Pa = Va /\ NoPa \notin Cells
ASSUME SomeAssumption == Threads # {} /\ Va # {}
ASSUME MaxAddsAssumption == MaxAdds \in Nat

VARIABLES
    reservation,  \* cpu.reservation
    ram,          \* the counters
    cur,          \* the thread that runs
    at,           \* per thread: "idle", or "loaded" between its LR and SC
    va,           \* per thread: the address of its loop
    reg,          \* per thread: what LR loaded
    adds          \* history: additions completed, per counter

resVars == <<reservation, ram, cur, at, va, reg, adds>>

\* Which thread starts does not matter, nor what an idle thread's address is.
SomeThread == CHOOSE t \in Threads : TRUE
SomeVa == CHOOSE v \in Va : TRUE

ResInit ==
    /\ reservation = NoPa
    /\ ram = [c \in Cells |-> 0] /\ adds = [c \in Cells |-> 0]
    /\ cur = SomeThread
    /\ at = [t \in Threads |-> "idle"]
    /\ va = [t \in Threads |-> SomeVa]
    /\ reg = [t \in Threads |-> 0]

LoadReserved(v) ==
    /\ at[cur] = "idle"
    /\ at' = [at EXCEPT ![cur] = "loaded"]
    /\ va' = [va EXCEPT ![cur] = v]
    /\ reg' = [reg EXCEPT ![cur] = ram[Pa[v]]]
    /\ reservation' = Pa[v]
    /\ UNCHANGED <<ram, cur, adds>>

\* An addition to a counter is completed by storing n.
Add(c, n) == /\ adds[c] < MaxAdds
             /\ ram' = [ram EXCEPT ![c] = n]
             /\ adds' = [adds EXCEPT ![c] = @ + 1]

\* Faulty variant of SpendReservation: a failing SC leaves it.
SpendReservation_kept(ok) == reservation' = IF ok THEN NoPa ELSE reservation

\* An SC takes the reservation with it, whether it succeeds or not.
SpendReservation(ok) == reservation' = NoPa

\* SC of the incremented value; a thread whose SC fails goes back to its LR.
StoreConditional ==
    /\ at[cur] = "loaded"
    /\ IF reservation = Pa[va[cur]]
       THEN Add(Pa[va[cur]], reg[cur] + 1)
       ELSE UNCHANGED <<ram, adds>>
    /\ SpendReservation(reservation = Pa[va[cur]])
    /\ at' = [at EXCEPT ![cur] = "idle"]
    /\ UNCHANGED <<cur, va, reg>>

\* AMOADD neither looks at the reservation nor changes it.  No thread issues one
\* between its LR and SC.
AmoAdd(v) ==
    /\ at[cur] = "idle"
    /\ Add(Pa[v], ram[Pa[v]] + 1)
    /\ UNCHANGED <<reservation, cur, at, va, reg>>

\* A trap out of user code at any point (an LR or SC whose translation faults is
\* one, and has done nothing), and the kernel's return to some thread, with an SC
\* to its own stack on the way: it fails, and clears the reservation all the
\* same, which is what the kernel issues it for.  The kernel may have counted too.
ReturnToUser(t) ==
    /\ SpendReservation(FALSE)
    /\ cur' = t
    /\ \/ \E c \in Cells : Add(c, ram[c] + 1)
       \/ UNCHANGED <<ram, adds>>
    /\ UNCHANGED <<at, va, reg>>

ResNext ==
    \/ \E v \in Va : LoadReserved(v)
    \/ StoreConditional
    \/ \E v \in Va : AmoAdd(v)
    \/ \E t \in Threads : ReturnToUser(t)

ResSpec == ResInit /\ [][ResNext]_resVars

--------------------------------------------------------------------------------
(* Properties.                                                             *)

ResTypeOK ==
    /\ reservation \in Cells \cup {NoPa}
    /\ ram \in [Cells -> Nat] /\ adds \in [Cells -> Nat]
    /\ cur \in Threads
    /\ at \in [Threads -> {"idle", "loaded"}]
    /\ va \in [Threads -> Va] /\ reg \in [Threads -> Nat]

\* Every completed addition counts: no SC succeeds on a value another thread or
\* the kernel has replaced since the LR, although no store clears the reservation
\* (execute.rs 800-846: only SC does, and it does so when it fails too).
NoLostUpdate == \A c \in Cells : ram[c] = adds[c]

--------------------------------------------------------------------------------
(* The inductive invariant behind NoLostUpdate.                            *)

\* A reservation belongs to the running thread, which is between its LR and SC
\* on that address and holds what memory holds.
OwnReservation ==
    reservation # NoPa =>
        /\ at[cur] = "loaded"
        /\ Pa[va[cur]] = reservation
        /\ reg[cur] = ram[reservation]

ResInv == ResTypeOK /\ OwnReservation /\ NoLostUpdate
==============================================================================
