------------------------------ MODULE CircBuf -------------------------------
(***************************************************************************)
(* The circular byte buffer of bios/helpers.asm (struct circbuf: head,     *)
(* tail, count, buf), shared by the UART's receive and transmit queues.    *)
(*                                                                         *)
(* The routines do not mask interrupts; serio.asm calls them only where    *)
(* the other user of the buffer cannot run (module Serio models that), so  *)
(* one call is one step here.                                              *)
(***************************************************************************)
EXTENDS Naturals, Sequences

CONSTANTS
  Byte,    \* the byte values
  SBUFSZ   \* bytes in buf: the indices 0 .. SBUFSZ-1

ASSUME SizeAssumption == SBUFSZ \in Nat \ {0}

VARIABLES
  head,    \* where the next byte is stored
  tail,    \* where the oldest byte is
  count,   \* bytes stored
  buf,     \* the storage
  carry,   \* the carry flag the last call returned: 1 for full / empty
  a        \* accumulator A as the last CBUF_GET left it

vars == <<head, tail, count, buf, carry, a>>

Index == 0 .. SBUFSZ - 1

-----------------------------------------------------------------------------
\* Mutant: the wrap test is one too late, an index past the storage.
WrapLate(i) == IF i < SBUFSZ THEN i + 1 ELSE 0

\* INC, CMPB #SBUFSZ, BLO: the next index, back to 0 past the last one.
Wrap(i) == IF i + 1 < SBUFSZ THEN i + 1 ELSE 0

\* Before CBUF_INIT the storage holds whatever the RAM held.
Init ==
  /\ head = 0 /\ tail = 0 /\ count = 0
  /\ buf \in [Index -> Byte]
  /\ carry = 0
  /\ a \in Byte

CBUF_INIT ==
  /\ head' = 0 /\ tail' = 0 /\ count' = 0
  /\ UNCHANGED <<buf, carry, a>>

\* Mutant: the put forgets the full test.
PutUnchecked(b) ==
  /\ buf' = [buf EXCEPT ![head] = b]
  /\ head' = Wrap(head)
  /\ count' = IF count < SBUFSZ THEN count + 1 ELSE count
  /\ carry' = 0
  /\ UNCHANGED <<tail, a>>

CBUF_PUT(b) ==
  \/ /\ count < SBUFSZ
     /\ buf' = [buf EXCEPT ![head] = b]
     /\ head' = Wrap(head)
     /\ count' = count + 1
     /\ carry' = 0
     /\ UNCHANGED <<tail, a>>
  \/ /\ count >= SBUFSZ
     /\ carry' = 1
     /\ UNCHANGED <<head, tail, count, buf, a>>

CBUF_GET ==
  \/ /\ count # 0
     /\ a' = buf[tail]
     /\ tail' = Wrap(tail)
     /\ count' = count - 1
     /\ carry' = 0
     /\ UNCHANGED <<head, buf>>
  \/ /\ count = 0
     /\ carry' = 1
     /\ UNCHANGED <<head, tail, count, buf, a>>

Next == CBUF_INIT \/ (\E b \in Byte : CBUF_PUT(b)) \/ CBUF_GET

Spec == Init /\ [][Next]_vars

-----------------------------------------------------------------------------
TypeOK ==
  /\ head \in Index /\ tail \in Index
  /\ count \in 0 .. SBUFSZ
  /\ buf \in [Index -> Byte]
  /\ carry \in {0, 1}
  /\ a \in Byte

\* The index i places after the tail.
Slot(i) == IF tail + i < SBUFSZ THEN tail + i ELSE tail + i - SBUFSZ

(***************************************************************************)
(* head, tail and count are three separately kept numbers that must agree: *)
(* the next free slot is always count places after the oldest byte.  A     *)
(* desync of the three is what serio.asm's header blames for the old       *)
(* loader's hang.                                                          *)
(***************************************************************************)
HeadAgrees == head = Slot(count) \/ (count = SBUFSZ /\ head = tail)

\* The bytes stored, oldest first.
Contents == [i \in 1 .. count |-> buf[Slot(i - 1)]]

Abstract == INSTANCE BoundedQueue WITH Capacity <- SBUFSZ, q <- Contents

(***************************************************************************)
(* The ring buffer is a bounded FIFO: what CBUF_GET returns is the oldest  *)
(* byte put and not yet got, across every wrap of the two indices.         *)
(***************************************************************************)
IsBoundedQueue == Abstract!QSpec

=============================================================================
