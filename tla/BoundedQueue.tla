---------------------------- MODULE BoundedQueue ----------------------------
(***************************************************************************)
(* What the BIOS's ring buffer promises its callers: a first-in first-out  *)
(* queue of at most Capacity bytes.  A put into a full queue and a get     *)
(* from an empty one change nothing and say so with the carry flag.        *)
(***************************************************************************)
EXTENDS Naturals, Sequences

CONSTANTS
  Byte,     \* the byte values
  Capacity  \* SBUFSZ

VARIABLES
  q,        \* the bytes queued, oldest first
  carry,    \* the carry flag the last call returned
  a         \* the byte the last successful get returned in A

qvars == <<q, carry, a>>

QInit == q = <<>> /\ carry = 0 /\ a \in Byte

\* Empties the queue, whatever it held.
QClear == q' = <<>> /\ UNCHANGED <<carry, a>>

QPut(b) ==
  \/ /\ Len(q) < Capacity
     /\ q' = Append(q, b)
     /\ carry' = 0
     /\ UNCHANGED a
  \/ /\ Len(q) = Capacity
     /\ carry' = 1
     /\ UNCHANGED <<q, a>>

QGet ==
  \/ /\ q # <<>>
     /\ q' = Tail(q)
     /\ a' = Head(q)
     /\ carry' = 0
  \/ /\ q = <<>>
     /\ carry' = 1
     /\ UNCHANGED <<q, a>>

QNext == QClear \/ (\E b \in Byte : QPut(b)) \/ QGet

QSpec == QInit /\ [][QNext]_qvars

=============================================================================
