--------------------------- MODULE CircBufProofs ----------------------------
(***************************************************************************)
(* For every size and every set of bytes: the ring buffer's indices agree  *)
(* with its count, and the ring buffer implements the bounded queue.       *)
(***************************************************************************)
EXTENDS CircBuf, TLAPS

\* The inductive invariant: without HeadAgrees a put might not find its slot free.
Inv == TypeOK /\ HeadAgrees

\* CBUF_INIT's state.
LEMMA InitInv == Init => Inv
  BY SizeAssumption DEF Init, Inv, TypeOK, HeadAgrees, Index, Slot

\* Every operation keeps indices and count in step.
LEMMA NextInv == Inv /\ [Next]_vars => Inv'
  <1> SUFFICES ASSUME Inv, [Next]_vars PROVE Inv'
    OBVIOUS
  <1> USE SizeAssumption DEF Inv, TypeOK, HeadAgrees, Index, Slot
  <1>1. CASE CBUF_INIT
    BY <1>1 DEF CBUF_INIT
  <1>2. ASSUME NEW b \in Byte, CBUF_PUT(b) PROVE Inv'
    BY <1>2, SMTT(60) DEF CBUF_PUT, Wrap
  <1>3. CASE CBUF_GET
    BY <1>3 DEF CBUF_GET, Wrap
  <1>4. CASE UNCHANGED vars
    BY <1>4 DEF vars
  <1>5. QED
    BY <1>1, <1>2, <1>3, <1>4 DEF Next

\* The ring's invariant.
LEMMA SpecInv == Spec => []Inv
  BY InitInv, NextInv, PTL DEF Spec

(***************************************************************************)
(* CBUF_PUT and CBUF_GET (bios/helpers.asm) index only the buffer's own    *)
(* bytes, whatever its size and however often the indices wrap.            *)
(***************************************************************************)
THEOREM RingTypes == Spec => []TypeOK
  <1>1. Inv => TypeOK
    BY DEF Inv
  <1>2. QED
    BY <1>1, SpecInv, PTL

(***************************************************************************)
(* The three numbers of a circbuf (bios/helpers.asm) never disagree.       *)
(***************************************************************************)
THEOREM RingIndicesAgree == Spec => []HeadAgrees
  <1>1. Inv => HeadAgrees
    BY DEF Inv
  <1>2. QED
    BY <1>1, SpecInv, PTL

-----------------------------------------------------------------------------
\* What the ring holds, as a sequence.
LEMMA ContentsType ==
  ASSUME Inv
  PROVE  /\ Contents \in Seq(Byte)
         /\ Len(Contents) = count
         /\ DOMAIN Contents = 1 .. count
         /\ \A i \in 1 .. count : Contents[i] = buf[Slot(i - 1)]
  <1>1. Contents \in [1 .. count -> Byte]
    BY SizeAssumption DEF Contents, Inv, TypeOK, Index, Slot
  <1>2. Contents \in Seq(Byte)
    BY <1>1 DEF Inv, TypeOK
  <1>3. Len(Contents) = count
    BY <1>1, <1>2, SizeAssumption DEF Inv, TypeOK
  <1>4. QED
    BY <1>1, <1>2, <1>3 DEF Contents

\* CBUF_PUT appends, or answers that the ring is full.
LEMMA PutRefines ==
  ASSUME Inv, Inv', NEW b \in Byte, CBUF_PUT(b)
  PROVE  Abstract!QPut(b)
  <1>1. CASE count < SBUFSZ
    <2>1. Contents' = Append(Contents, b)
      <3>1. /\ count' = count + 1 /\ tail' = tail
            /\ buf' = [buf EXCEPT ![head] = b]
        BY <1>1, SizeAssumption DEF CBUF_PUT, Inv, TypeOK
      <3>2. head = Slot(count)
        BY <1>1, SizeAssumption DEF Inv, TypeOK, HeadAgrees, Slot
      <3>3. Contents' = [i \in 1 .. count + 1 |-> buf'[Slot(i - 1)]]
        BY <3>1 DEF Contents, Slot
      <3>4. \A i \in 1 .. count : /\ Slot(i - 1) \in Index
                                  /\ Slot(i - 1) # Slot(count)
        BY <1>1, SizeAssumption DEF Slot, Inv, TypeOK, Index
      <3>5. \A i \in 1 .. count : Contents'[i] = Contents[i]
        BY <3>1, <3>2, <3>3, <3>4, ContentsType DEF Inv, TypeOK
      <3>6. Contents'[count + 1] = b
        BY <3>1, <3>2, <3>3 DEF Inv, TypeOK
      <3>7. DOMAIN Contents' = 1 .. count + 1
        BY <3>3
      <3>8. Contents' \in Seq(Byte) /\ Len(Contents') = count + 1
        <4>1. Contents' \in [1 .. count + 1 -> Byte]
          <5>1. \A i \in 1 .. count : Contents[i] \in Byte
            BY ContentsType
          <5>2. \A i \in 1 .. count + 1 : i \in 1 .. count \/ i = count + 1
            BY DEF Inv, TypeOK
          <5>3. \A i \in 1 .. count + 1 : Contents'[i] \in Byte
            BY <3>5, <3>6, <5>1, <5>2
          <5>4. QED
            BY <3>3, <5>3
        <4>2. QED
          BY <4>1 DEF Inv, TypeOK
      <3>9. QED
        BY <3>5, <3>6, <3>8, ContentsType DEF Inv, TypeOK
    <2>2. Len(Contents) < SBUFSZ
      BY <1>1, ContentsType
    <2>3. QED
      BY <1>1, <2>1, <2>2, SizeAssumption DEF CBUF_PUT, Abstract!QPut, Inv, TypeOK
  <1>2. CASE count >= SBUFSZ
    BY <1>2, ContentsType, SizeAssumption
    DEF CBUF_PUT, Abstract!QPut, Inv, TypeOK, Contents, Slot
  <1>3. QED
    BY <1>1, <1>2, SizeAssumption DEF Inv, TypeOK

\* CBUF_GET takes the oldest byte, or answers that there is none.
LEMMA GetRefines ==
  ASSUME Inv, Inv', CBUF_GET
  PROVE  Abstract!QGet
  <1>1. CASE count # 0
    <2>1. Contents' = Tail(Contents)
      <3>1. count' = count - 1 /\ tail' = Wrap(tail) /\ buf' = buf
        BY <1>1 DEF CBUF_GET
      <3>2. \A i \in 1 .. count - 1 : Slot(i - 1)' = Slot(i)
        BY <3>1, SizeAssumption DEF Slot, Wrap, Inv, TypeOK, Index
      <3>3. Contents' = [i \in 1 .. count - 1 |-> buf[Slot(i)]]
        BY <3>1, <3>2 DEF Contents
      <3>4. \A i \in 1 .. count - 1 : i + 1 \in 1 .. count /\ (i + 1) - 1 = i
        BY DEF Inv, TypeOK
      <3>5. \A i \in 1 .. count - 1 : Contents'[i] = Contents[i + 1]
        BY <3>3, <3>4, ContentsType
      <3>6. Contents' \in Seq(Byte) /\ Len(Contents') = count - 1
        BY <1>1, SizeAssumption, SMTT(60) DEF CBUF_GET, Inv, TypeOK, Contents, Slot, Index
      <3>7. QED
        BY <1>1, <3>5, <3>6, ContentsType DEF Inv, TypeOK
    <2>2. a' = Head(Contents)
      BY <1>1, ContentsType, SizeAssumption DEF CBUF_GET, Inv, TypeOK, Slot, Index
    <2>3. Contents # <<>>
      BY <1>1, ContentsType DEF Inv, TypeOK
    <2>4. QED
      BY <1>1, <2>1, <2>2, <2>3 DEF CBUF_GET, Abstract!QGet
  <1>2. CASE count = 0
    <2>1. Contents = <<>>
      BY <1>2, ContentsType
    <2>2. QED
      BY <1>2, <2>1 DEF CBUF_GET, Abstract!QGet, Contents, Slot
  <1>3. QED
    BY <1>1, <1>2

(***************************************************************************)
(* CBUF_INIT, CBUF_PUT and CBUF_GET of bios/helpers.asm implement a        *)
(* bounded first-in first-out queue, for every buffer size.                *)
(***************************************************************************)
THEOREM RingIsBoundedQueue == Spec => IsBoundedQueue
  <1>1. Init => Abstract!QInit
    <2>1. SUFFICES ASSUME Init PROVE Abstract!QInit
      OBVIOUS
    <2>2. Inv
      BY <2>1, InitInv
    <2>3. Contents = <<>>
      BY <2>1, <2>2, ContentsType DEF Init
    <2>4. QED
      BY <2>1, <2>3 DEF Init, Abstract!QInit
  <1>2. Inv /\ Inv' /\ [Next]_vars => [Abstract!QNext]_(Abstract!qvars)
    <2> SUFFICES ASSUME Inv, Inv', [Next]_vars
                 PROVE  [Abstract!QNext]_(Abstract!qvars)
      OBVIOUS
    <2>1. CASE CBUF_INIT
      <3>1. Contents' = <<>>
        BY <2>1 DEF CBUF_INIT, Contents
      <3>2. QED
        BY <2>1, <3>1 DEF CBUF_INIT, Abstract!QNext, Abstract!QClear
    <2>2. ASSUME NEW b \in Byte, CBUF_PUT(b) PROVE Abstract!QNext
      BY <2>2, PutRefines DEF Abstract!QNext
    <2>3. CASE CBUF_GET
      BY <2>3, GetRefines DEF Abstract!QNext
    <2>4. CASE UNCHANGED vars
      BY <2>4 DEF vars, Abstract!qvars, Contents, Slot
    <2>5. QED
      BY <2>1, <2>2, <2>3, <2>4 DEF Next
  <1>3. QED
    BY <1>1, <1>2, InitInv, NextInv, PTL DEF Spec, IsBoundedQueue, Abstract!QSpec
=============================================================================
