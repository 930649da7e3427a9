---------------------------- MODULE BlockService ----------------------------
(***************************************************************************)
(* What the disk of src/src/virtio_blk.rs promises its driver, with no     *)
(* rings and no registers: requests are served one at a time in the order  *)
(* they were submitted, each exactly once; a request that succeeds has its *)
(* whole effect, one that fails the effect of a prefix, and of part of the *)
(* next sector at most; completions are handed back in that order; a reset *)
(* forgets what is outstanding.                                            *)
(***************************************************************************)
EXTENDS Integers, FiniteSets, Sequences

CONSTANTS
  Tag,        \* names of outstanding requests: heads of descriptor chains
  Request,    \* the requests a driver makes
  Data,       \* contents of a sector
  Zero,       \* the sector of a hole
  Partial,    \* a sector of which a failed transfer moved a part
  Image,      \* contents of the disk image at the start ...
  Content,    \* ... and of a request's buffers when it is submitted
  NoRequest   \* the tag is free

VARIABLES
  reliable,   \* whether every request in range succeeds
  file,       \* the disk image, a sequence of sectors
  req,        \* the request of each tag
  buf,        \* the data buffers of each tag, one sector each
  status,     \* the status byte of each tag
  queue,      \* tags submitted and not yet served, oldest first
  done        \* tags served and not yet handed back, oldest first

vars == <<reliable, file, req, buf, status, queue, done>>

\* The buffers a request transfers: those it may write for a read, the
\* others for a write.
Transferred(r) == {i \in DOMAIN r.bufs : r.bufs[i].write = (r.type = "in")}

\* The place of buffer i among them: its sector counted from r.sector.
Place(r, i) == Cardinality({j \in Transferred(r) : j < i})

\* A request a working disk must complete.
InRange(r, f) ==
  CASE r.type = "in"    -> /\ \A i \in Transferred(r) : r.bufs[i].inram
                           /\ \/ Transferred(r) = {}
                              \/ r.sector + Cardinality(Transferred(r)) <= Len(f)
    [] r.type = "out"   -> \A i \in Transferred(r) : r.bufs[i].inram
    [] r.type = "flush" -> TRUE
    [] OTHER            -> FALSE

\* The buffers after a read that transferred n sectors.
Filled(r, b, f, n) ==
  [i \in DOMAIN b |-> IF i \in Transferred(r) /\ Place(r, i) < n
                      THEN f[r.sector + Place(r, i) + 1] ELSE b[i]]

\* The buffers with part of the one at place n transferred, if part = 1.
Tear(r, b, n, part) ==
  [i \in DOMAIN b |-> IF part = 1 /\ i \in Transferred(r) /\ Place(r, i) = n
                      THEN Partial ELSE b[i]]

\* The image after a write that transferred n sectors; writing beyond its
\* end leaves a hole.
Written(r, b, f, n) ==
  LET end == IF n > 0 /\ r.sector + n > Len(f) THEN r.sector + n ELSE Len(f)
      new == {i \in Transferred(r) : Place(r, i) < n}
  IN  [k \in 1..end |->
         IF \E i \in new : k = r.sector + Place(r, i) + 1
         THEN b[CHOOSE i \in new : k = r.sector + Place(r, i) + 1]
         ELSE IF k <= Len(f) THEN f[k] ELSE Zero]

Init ==
  /\ reliable \in BOOLEAN
  /\ file \in Image
  /\ req = [t \in Tag |-> NoRequest]
  /\ buf = [t \in Tag |-> <<>>]
  /\ status = [t \in Tag |-> "none"]
  /\ queue = <<>> /\ done = <<>>

Submit ==
  \E t \in Tag, r \in Request :
    /\ req[t] = NoRequest
    /\ req' = [req EXCEPT ![t] = r]
    /\ \E b \in Content : Len(b) = Len(r.bufs) /\ buf' = [buf EXCEPT ![t] = b]
    /\ status' = [status EXCEPT ![t] = "none"]
    /\ queue' = Append(queue, t)
    /\ UNCHANGED <<reliable, file, done>>

Serve ==
  /\ queue # <<>>
  /\ LET t == Head(queue)
         r == req[t]
         all == Cardinality(Transferred(r))
     IN  \E n \in 0..all, ok \in BOOLEAN, part \in 0..1 :
           /\ ok => n = all /\ InRange(r, file)
           /\ reliable /\ InRange(r, file) => ok
           /\ part = 1 => ~ok /\ ~reliable /\ n < all
           /\ r.type = "in" /\ n + part > 0 => r.sector + n + part <= Len(file)
           /\ buf' = IF r.type = "in"
                     THEN [buf EXCEPT ![t] = Tear(r, Filled(r, @, file, n), n, part)]
                     ELSE buf
           /\ file' = IF r.type = "out"
                      THEN Written(r, Tear(r, buf[t], n, part), file, n + part)
                      ELSE file
           /\ status' = [status EXCEPT ![t] = IF ok THEN "ok" ELSE "ioerr"]
           /\ done' = Append(done, t)
  /\ queue' = Tail(queue)
  /\ UNCHANGED <<reliable, req>>

Take ==
  /\ done # <<>>
  /\ req' = [req EXCEPT ![Head(done)] = NoRequest]
  /\ buf' = [buf EXCEPT ![Head(done)] = <<>>]
  /\ status' = [status EXCEPT ![Head(done)] = "none"]
  /\ done' = Tail(done)
  /\ UNCHANGED <<reliable, file, queue>>

Reset ==
  /\ req' = [t \in Tag |-> NoRequest]
  /\ buf' = [t \in Tag |-> <<>>]
  /\ status' = [t \in Tag |-> "none"]
  /\ queue' = <<>> /\ done' = <<>>
  /\ UNCHANGED <<reliable, file>>

Next == Submit \/ Serve \/ Take \/ Reset

Spec == Init /\ [][Next]_vars
=============================================================================
