------------------------------- MODULE UartTx -------------------------------
(***************************************************************************)
(* The transmit path of the UART, src/src/uart.rs 86-162: every byte the   *)
(* guest stores passes two matchers.  One cuts the cursor query ESC[6n out *)
(* of the stream and answers it into the receive buffer; the other looks   *)
(* for the sequence that says the shell is up.  Receive buffer, IER and    *)
(* interrupt line are in module IrqPath.                                   *)
(***************************************************************************)
EXTENDS Integers, Sequences, FiniteSets

CONSTANTS
    Bytes,       \* the bytes the guest sends
    ESC,         \* 0x1B
    DSR,         \* ESC [ 6 n
    BPM_TARGET,  \* ESC [ ? 2 0 0 4 h; shorter in the checked instance
    MaxSent      \* TLC bound: bytes sent

ASSUME MatcherAssumption ==
    /\ DSR \in Seq(Bytes) /\ Len(DSR) = 4
    /\ BPM_TARGET \in Seq(Bytes) /\ Len(BPM_TARGET) > 1
    /\ DSR[1] = ESC /\ BPM_TARGET[1] = ESC
    /\ \A i \in 2..4 : DSR[i] # ESC
    /\ \A i \in 2..Len(BPM_TARGET) : BPM_TARGET[i] # ESC

VARIABLES
    dsr_state,     \* how much of DSR is held back
    bpm_state,     \* how much of BPM_TARGET was seen
    stdin_ready,
    answers,       \* cursor reports put in the receive buffer
    out,           \* what reached the terminal
    sent           \* history: what the guest sent

txVars == <<dsr_state, bpm_state, stdin_ready, answers, out, sent>>

TxInit ==
    /\ dsr_state = 0 /\ bpm_state = 0 /\ stdin_ready = FALSE
    /\ answers = 0 /\ out = <<>> /\ sent = <<>>

flush_prefix == out \o SubSeq(DSR, 1, dsr_state)

\* The readiness matcher: bpm_state and whether the target is complete.
BpmComplete(b) == b = BPM_TARGET[bpm_state + 1] /\ bpm_state + 1 = Len(BPM_TARGET)

\* Faulty variant of MatchBpm: an ESC in a partial match is not a new start.
MatchBpm_reset(b) ==
    bpm_state' = IF b = BPM_TARGET[bpm_state + 1]
                 THEN (bpm_state + 1) % Len(BPM_TARGET) ELSE 0

MatchBpm(b) ==
    bpm_state' = IF b = BPM_TARGET[bpm_state + 1]
                 THEN (bpm_state + 1) % Len(BPM_TARGET)
                 ELSE IF b = ESC THEN 1 ELSE 0

\* The query matcher.
DsrComplete(b) == dsr_state = 3 /\ b = DSR[4]

\* Faulty variant of MatchDsr: what a restarting ESC cuts off is lost.
MatchDsr_drop(b) ==
    IF b = ESC THEN dsr_state' = 1 /\ UNCHANGED <<out, answers>>
    ELSE IF dsr_state \in {1, 2} /\ b = DSR[dsr_state + 1]
    THEN dsr_state' = dsr_state + 1 /\ UNCHANGED <<out, answers>>
    ELSE IF DsrComplete(b)
    THEN answers' = answers + 1 /\ dsr_state' = 0 /\ UNCHANGED out
    ELSE out' = Append(flush_prefix, b) /\ dsr_state' = 0 /\ UNCHANGED answers

MatchDsr(b) ==
    IF b = ESC
    THEN out' = flush_prefix /\ dsr_state' = 1 /\ UNCHANGED answers
    ELSE IF dsr_state \in {1, 2} /\ b = DSR[dsr_state + 1]
    THEN dsr_state' = dsr_state + 1 /\ UNCHANGED <<out, answers>>
    ELSE IF DsrComplete(b)
    THEN answers' = answers + 1 /\ dsr_state' = 0 /\ UNCHANGED out
    ELSE out' = Append(flush_prefix, b) /\ dsr_state' = 0 /\ UNCHANGED answers

\* A store to the transmit register.
StoreThr(b) ==
    /\ Len(sent) < MaxSent
    /\ MatchBpm(b) /\ MatchDsr(b)
    /\ stdin_ready' = (stdin_ready \/ BpmComplete(b) \/ DsrComplete(b))
    /\ sent' = Append(sent, b)

TxNext == \E b \in Bytes : StoreThr(b)

TxSpec == TxInit /\ [][TxNext]_txVars

--------------------------------------------------------------------------------
(* Properties.                                                             *)

\* Where a pattern ends in what was sent.
EndsIn(s, p) == {j \in Len(p)..Len(s) : SubSeq(s, j - Len(p) + 1, j) = p}

InQuery(s) == UNION {(j - 3)..j : j \in EndsIn(s, DSR)}

\* What of each prefix of s lies in no query.
Shown(s) ==
    LET cut == InQuery(s)
        shown[i \in 0..Len(s)] ==
            IF i = 0 THEN <<>>
            ELSE IF i \in cut THEN shown[i - 1] ELSE Append(shown[i - 1], s[i])
    IN  shown

\* The terminal sees what the guest sent, byte for byte and in order, less every
\* complete query and the prefix of one held back; so an ESC in the middle of a
\* partial match loses and repeats nothing (uart.rs 129-134, flush_prefix).
TxTransparent == flush_prefix = Shown(sent)[Len(sent)]

\* Every query is answered once, whatever was sent around it, and stdin is let
\* through exactly from the first query or readiness sequence on: though they
\* share a prefix the two matchers never make each other miss a match
\* (uart.rs 105-123, 135-142).
TxAnswered ==
    /\ answers = Cardinality(EndsIn(sent, DSR))
    /\ stdin_ready <=> EndsIn(sent, DSR) \cup EndsIn(sent, BPM_TARGET) # {}

--------------------------------------------------------------------------------
(* The inductive invariant behind them.                                    *)

\* The last d bytes of s are the first d of p.
Matches(s, p, d) == d <= Len(s) /\ \A k \in 1..d : s[Len(s) - d + k] = p[k]

\* A matcher's state is the one proper prefix of its pattern that s ends in.
Tracks(state, s, p) ==
    /\ state \in 0..(Len(p) - 1) /\ (state = 0 \/ Matches(s, p, state))
    /\ \A d \in 1..(Len(p) - 1) : Matches(s, p, d) => state = d

TxTypeOK ==
    /\ sent \in Seq(Bytes) /\ out \in Seq(Bytes)
    /\ answers \in Nat /\ stdin_ready \in BOOLEAN

\* What is held back lies in no query, and all before it was shown.
HeldBack ==
    /\ out = Shown(sent)[Len(sent) - dsr_state]
    /\ \A i \in (Len(sent) - dsr_state + 1)..Len(sent) : i \notin InQuery(sent)

TxInv ==
    /\ TxTypeOK /\ Tracks(dsr_state, sent, DSR) /\ Tracks(bpm_state, sent, BPM_TARGET)
    /\ HeldBack /\ TxAnswered
==============================================================================
