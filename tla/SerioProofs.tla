---------------------------- MODULE SerioProofs -----------------------------
(***************************************************************************)
(* The serial driver for every ring size and every number of bytes: its    *)
(* transmit side, and on top of that side's invariant TxInv its receive    *)
(* side and its interrupt masks.                                           *)
(***************************************************************************)
EXTENDS Serio, SequenceTheorems, TLAPS

\* Where interrupts are masked, and what the chip's own bits always say.
TxAux ==
  /\ tdre = 1 - tx_active
  /\ isr # "off" => I = 1
  /\ pc \in {"p_put", "p_chk", "p_set", "p_cmd", "p_done"} => I = 1 /\ isr = "off"
  /\ pc \in {"p_put", "p_wait", "p_chk", "p_set", "p_cmd", "p_done", "r_get", "r_put"}
       => regY > 0
  /\ pc = "p_set" => STXIE = 0
  /\ pc = "p_cmd" => STXIE = 1 /\ tx_active = 0
  /\ pc = "c_ctl" => STXIE = 0
  /\ IsrWillSend => tx_active = 0
  /\ isr = "txend" => tx_active = 0 /\ STXBUF = <<>>

\* The inductive invariant.
TxInv == TypeOK /\ TxAux /\ TxInOrder /\ TxArmed

USE UartAssumption, SerioAssumption

\* What an append to a queue changes.
LEMMA AppendFacts ==
  ASSUME NEW s \in Seq(Nat), NEW e \in Nat
  PROVE  /\ Append(s, e) \in Seq(Nat) /\ Len(Append(s, e)) = Len(s) + 1
         /\ \A i \in 1 .. Len(s) : Append(s, e)[i] = s[i]
         /\ Append(s, e)[Len(s) + 1] = e
  OBVIOUS

\* What taking the oldest byte of a queue changes.
LEMMA TailFacts ==
  ASSUME NEW s \in Seq(Nat), s # <<>>
  PROVE  /\ Len(s) > 0 /\ Head(s) = s[1] /\ Head(s) \in Nat
         /\ Tail(s) \in Seq(Nat) /\ Len(Tail(s)) = Len(s) - 1
         /\ \A i \in 1 .. Len(s) - 1 : Tail(s)[i] = s[i + 1]
  OBVIOUS

\* After UT_INIT.
LEMMA InitTx == Init => TxInv
  BY DEF Init, TxInv, TypeOK, ChipTypeOK, Bit, Errors, TxAux, TxInOrder, TxArmed,
         IsrWillSend, SUARTCMD, TXCMD

\* The queues and their neighbours, out of the type invariant.
LEMMA QueueTypes ==
  ASSUME TypeOK
  PROVE  /\ tx_queue \in Seq(Nat) /\ rx_pending \in Seq(Nat)
         /\ SRXBUF \in Seq(Nat) /\ STXBUF \in Seq(Nat)
         /\ Len(SRXBUF) \in Nat /\ Len(STXBUF) \in Nat /\ Len(tx_queue) \in Nat
         /\ Len(SRXBUF) <= SBUFSZ /\ Len(STXBUF) <= SBUFSZ /\ SBUFSZ \in Nat
         /\ rx_data \in Nat /\ rx_shift_byte \in Nat /\ tx_shift_byte \in Nat
         /\ regA \in Nat /\ ntx \in Nat /\ tx_active \in {0, 1}
  BY DEF TypeOK, ChipTypeOK, Bit

\* A tick moves the byte on the wire, if it ends, to the host's queue.
LEMMA TickTx ==
  ASSUME TxInv, NEW txEnds \in BOOLEAN, NEW rxEnds \in BOOLEAN,
         ChipTick(txEnds, rxEnds)
  PROVE  TxInv'
  <1>1. TypeOK
    BY DEF TxInv
  <1>0. /\ tx_queue \in Seq(Nat) /\ Len(tx_queue) \in Nat
        /\ rx_pending \in Seq(Nat) /\ STXBUF \in Seq(Nat) /\ Len(STXBUF) \in Nat
        /\ rx_data \in Nat /\ rx_shift_byte \in Nat /\ tx_shift_byte \in Nat /\ ntx \in Nat
    BY <1>1, QueueTypes
  <1>2. tx_queue' \in Seq(Nat)
    <2>1. CASE txEnds
      <3>1. tx_queue' = Append(tx_queue, tx_shift_byte)
        BY <2>1 DEF ChipTick, Tick
      <3>2. QED
        BY <3>1, <1>0, AppendFacts
    <2>2. CASE ~txEnds
      BY <2>2, <1>0 DEF ChipTick, Tick
    <2>3. QED
      BY <2>1, <2>2
  <1>3. rx_pending' \in Seq(Nat) /\ rx_shift_byte' \in Nat /\ rx_data' \in Nat
    <2>1. rx_pending' \in Seq(Nat) /\ rx_shift_byte' \in Nat
      BY <1>0, TailFacts DEF ChipTick, Tick, RxStarts
    <2>2. QED
      BY <2>1, <1>0 DEF ChipTick, Tick
  <1>4. TypeOK'
    <2>1. /\ irq_flag' \in Bit /\ overrun' \in Bit /\ tdre' \in Bit /\ rdrf' \in Bit
          /\ tx_active' \in Bit /\ rx_active' \in Bit
          /\ command' = command /\ control' = control /\ tx_shift_byte' = tx_shift_byte
      BY <1>1 DEF TypeOK, ChipTypeOK, Bit, ChipTick, Tick
    <2>2. ndrop' \in Nat /\ lost' \subseteq Errors
      <3>1. CASE RxOverruns(rxEnds)
        <4>1. ndrop' = ndrop + 1 /\ lost' = lost \union {"overrun"}
          BY <3>1 DEF ChipTick
        <4>2. ndrop \in Nat /\ lost \subseteq Errors
          BY <1>1 DEF TypeOK
        <4>3. QED
          BY <4>1, <4>2 DEF Errors
      <3>2. CASE ~RxOverruns(rxEnds)
        BY <1>1, <3>2 DEF TypeOK, Errors, ChipTick
      <3>3. QED
        BY <3>1, <3>2
    <2>3. UNCHANGED <<cpu, rings, prog, ntx, nrx, lastgot, ngot>>
      BY DEF ChipTick
    <2>4. QED
      BY <1>1, <1>2, <1>3, <2>1, <2>2, <2>3
      DEF TypeOK, ChipTypeOK, cpu, rings, prog
  <1>5. TxAux'
    BY DEF TxInv, TypeOK, ChipTypeOK, Bit, TxAux, TxInOrder, TxArmed, IsrWillSend,
           SUARTCMD, TXCMD, chip, cpu, rings, prog, hist, At,
           ChipTick, Tick, RxStarts, RxOverruns, tx_irq_enabled, rx_irq_enabled
  <1>6. TxInOrder'
    <2>1. CASE txEnds
      <3>1. /\ tx_active = 1 /\ tx_active' = 0 /\ STXBUF' = STXBUF /\ ntx' = ntx
            /\ tx_queue' = Append(tx_queue, tx_shift_byte)
        BY <2>1 DEF ChipTick, Tick, rings
      <3>2. /\ Len(tx_queue') = Len(tx_queue) + 1
            /\ \A i \in 1 .. Len(tx_queue) : tx_queue'[i] = tx_queue[i]
            /\ tx_queue'[Len(tx_queue) + 1] = tx_shift_byte
        BY <1>0, <3>1, AppendFacts
      <3>3. \A i \in 1 .. Len(tx_queue') : i \in 1 .. Len(tx_queue) \/ i = Len(tx_queue) + 1
        BY <1>0, <3>2
      <3>4. \A i \in 1 .. Len(tx_queue') : tx_queue'[i] = i
        BY <3>1, <3>2, <3>3 DEF TxInv, TxInOrder
      <3>5. QED
        BY <1>0, <3>1, <3>2, <3>4 DEF TxInv, TxInOrder
    <2>2. CASE ~txEnds
      BY <2>2 DEF ChipTick, Tick, rings, TxInv, TxInOrder
    <2>3. QED
      BY <2>1, <2>2
  <1>7. TxArmed'
    BY DEF TxInv, TypeOK, ChipTypeOK, Bit, TxAux, TxInOrder, TxArmed, IsrWillSend,
           SUARTCMD, TXCMD, chip, cpu, rings, prog, hist, At,
           ChipTick, Tick, RxStarts, RxOverruns, tx_irq_enabled, rx_irq_enabled
  <1>8. QED
    BY <1>4, <1>5, <1>6, <1>7 DEF TxInv


\* The handler's receive half does not touch the transmit side.
LEMMA IsrRxTx ==
  ASSUME TxInv, IsrRx
  PROVE  TxInv'
  <1>1. TypeOK
    BY DEF TxInv
  <1>0. /\ SRXBUF \in Seq(Nat) /\ Len(SRXBUF) \in Nat /\ rx_data \in Nat
        /\ Len(SRXBUF) <= SBUFSZ /\ SBUFSZ \in Nat
    BY <1>1, QueueTypes
  <1>2. SRXBUF' \in Seq(Nat) /\ Len(SRXBUF') <= SBUFSZ
    BY <1>0, AppendFacts, SMTT(60) DEF IsrRx
  <1>4. TypeOK'
    <2>1. SERR' \subseteq Errors /\ lost' \subseteq Errors /\ ndrop' \in Nat
      <3>1. SERR \subseteq Errors /\ lost \subseteq Errors /\ ndrop \in Nat
        BY <1>1 DEF TypeOK
      <3>2. CASE Len(SRXBUF) < SBUFSZ
        BY <3>1, <3>2 DEF IsrRx
      <3>3. CASE ~(Len(SRXBUF) < SBUFSZ)
        <4>1. /\ SERR' = SERR \union {"rxfull"} /\ lost' = lost \union {"rxfull"}
              /\ ndrop' = ndrop + 1
          BY <3>3 DEF IsrRx
        <4>2. QED
          BY <3>1, <4>1 DEF Errors
      <3>4. QED
        BY <3>2, <3>3
    <2>2. rdrf' \in Bit /\ overrun' \in Bit
      BY DEF IsrRx, ReadData, Bit
    <2>3. isr' \in {"tx", "rti"}
      BY DEF IsrRx
    <2>4. QED
      BY <1>1, <1>2, <2>1, <2>2, <2>3
      DEF TypeOK, ChipTypeOK, IsrRx, ReadData, chip, prog
  <1>5. TxAux'
    BY DEF TxInv, TypeOK, ChipTypeOK, Bit, TxAux, TxInOrder, TxArmed, IsrWillSend,
           SUARTCMD, TXCMD, chip, cpu, rings, prog, hist, At,
           IsrRx, ReadData
  <1>6. TxInOrder'
    BY DEF TxInv, TypeOK, ChipTypeOK, Bit, TxAux, TxInOrder, TxArmed, IsrWillSend,
           SUARTCMD, TXCMD, chip, cpu, rings, prog, hist, At,
           IsrRx, ReadData
  <1>7. TxArmed'
    BY DEF TxInv, TypeOK, ChipTypeOK, Bit, TxAux, TxInOrder, TxArmed, IsrWillSend,
           SUARTCMD, TXCMD, chip, cpu, rings, prog, hist, At,
           IsrRx, ReadData
  <1>8. QED
    BY <1>4, <1>5, <1>6, <1>7 DEF TxInv


\* The handler's transmit half moves the oldest byte of STXBUF to the chip.
LEMMA IsrTxTx ==
  ASSUME TxInv, IsrTx
  PROVE  TxInv'
  <1>1. TypeOK
    BY DEF TxInv
  <1>0. /\ STXBUF \in Seq(Nat) /\ Len(STXBUF) \in Nat /\ ntx \in Nat
        /\ Len(tx_queue) \in Nat /\ tx_active \in {0, 1} /\ tx_shift_byte \in Nat
        /\ Len(STXBUF) <= SBUFSZ /\ SBUFSZ \in Nat
    BY <1>1, QueueTypes
  <1>2. STXBUF' \in Seq(Nat) /\ Len(STXBUF') <= SBUFSZ /\ tx_shift_byte' \in Nat
    <2>1. CASE STXBUF # <<>>
      <3>1. STXBUF' = Tail(STXBUF) /\ tx_shift_byte' = Head(STXBUF)
        BY <2>1 DEF IsrTx, WriteData
      <3>2. QED
        BY <2>1, <3>1, <1>0, TailFacts
    <2>2. CASE STXBUF = <<>>
      BY <2>2, <1>0 DEF IsrTx, WriteCommand
    <2>3. QED
      BY <2>1, <2>2
  <1>4. TypeOK'
    <2>1. /\ tx_active' \in Bit /\ tdre' \in Bit /\ irq_flag' \in Bit
          /\ command' \in {SUARTCMD, TXCMD} /\ isr' \in {"rti", "txend"}
      BY <1>1 DEF TypeOK, ChipTypeOK, Bit, IsrTx, WriteData, WriteCommand
    <2>2. UNCHANGED <<control, overrun, rdrf, rx_data, rx_active, rx_shift_byte,
                      rx_pending, tx_queue>>
      BY DEF IsrTx, WriteData, WriteCommand
    <2>3. UNCHANGED <<I, TSTA, foreign, nother, SRXBUF, STXIE, SERR, prog, hist>>
      BY DEF IsrTx
    <2>4. QED
      BY <1>1, <1>2, <2>1, <2>2, <2>3
      DEF TypeOK, ChipTypeOK, prog, hist, SUARTCMD, TXCMD
  <1>5. TxAux'
    BY SMTT(60) DEF TxInv, TypeOK, ChipTypeOK, Bit, TxAux, TxInOrder, TxArmed, IsrWillSend,
           SUARTCMD, TXCMD, chip, cpu, rings, prog, hist, At,
           IsrTx, WriteData, WriteCommand
  <1>6. TxInOrder'
    <2>1. CASE STXBUF # <<>>
      <3>1. /\ tx_active = 0 /\ tx_active' = 1 /\ tx_shift_byte' = Head(STXBUF)
            /\ STXBUF' = Tail(STXBUF) /\ tx_queue' = tx_queue /\ ntx' = ntx
        BY <2>1 DEF IsrTx, WriteData, hist, TxInv, TxAux, IsrWillSend
      <3>2. /\ Len(STXBUF) > 0 /\ Head(STXBUF) = STXBUF[1]
            /\ Len(STXBUF') = Len(STXBUF) - 1
            /\ \A i \in 1 .. Len(STXBUF) - 1 : STXBUF'[i] = STXBUF[i + 1]
        BY <1>0, <2>1, <3>1, TailFacts
      <3>3. \A i \in 1 .. Len(STXBUF) - 1 : i + 1 \in 1 .. Len(STXBUF)
        BY <1>0
      <3>4. \A i \in 1 .. Len(STXBUF') : STXBUF'[i] = Len(tx_queue) + 1 + i
        BY <1>0, <3>1, <3>2, <3>3 DEF TxInv, TxInOrder
      <3>5. tx_shift_byte' = Len(tx_queue) + 1
        BY <1>0, <3>1, <3>2 DEF TxInv, TxInOrder
      <3>6. /\ ntx = Len(tx_queue) + Len(STXBUF)
            /\ \A i \in 1 .. Len(tx_queue) : tx_queue[i] = i
        BY <1>0, <3>1 DEF TxInv, TxInOrder
      <3>7. ntx' = Len(tx_queue') + tx_active' + Len(STXBUF')
        <4>1. tx_active' = 1 /\ tx_queue' = tx_queue /\ ntx' = ntx
          BY <3>1
        <4>2. Len(STXBUF') = Len(STXBUF) - 1
          BY <3>2
        <4>3. QED
          BY <1>0, <3>6, <4>1, <4>2
      <3>8. \A i \in 1 .. Len(STXBUF') : STXBUF'[i] = Len(tx_queue') + tx_active' + i
        BY <3>1, <3>4
      <3>9. QED
        BY <3>1, <3>5, <3>6, <3>7, <3>8 DEF TxInOrder
    <2>2. CASE STXBUF = <<>>
      BY <2>2 DEF IsrTx, WriteCommand, hist, TxInv, TxInOrder
    <2>3. QED
      BY <2>1, <2>2
  <1>7. TxArmed'
    BY DEF TxInv, TypeOK, ChipTypeOK, Bit, TxAux, TxInOrder, TxArmed, IsrWillSend,
           SUARTCMD, TXCMD, chip, cpu, rings, prog, hist, At,
           IsrTx, WriteData, WriteCommand
  <1>8. QED
    BY <1>4, <1>5, <1>6, <1>7 DEF TxInv


\* CBUF_PUT appends the next number to STXBUF.
LEMMA PutcPutTx ==
  ASSUME TxInv, PutcPut
  PROVE  TxInv'
  <1>1. TypeOK
    BY DEF TxInv
  <1>0. /\ STXBUF \in Seq(Nat) /\ Len(STXBUF) \in Nat /\ ntx \in Nat
        /\ Len(tx_queue) \in Nat /\ tx_active \in {0, 1} /\ tx_shift_byte \in Nat
        /\ Len(STXBUF) <= SBUFSZ /\ SBUFSZ \in Nat
    BY <1>1, QueueTypes
  <1>2. STXBUF' \in Seq(Nat) /\ Len(STXBUF') <= SBUFSZ /\ ntx' \in Nat
    <2>1. CASE Len(STXBUF) < SBUFSZ
      <3>1. STXBUF' = Append(STXBUF, ntx + 1) /\ ntx' = ntx + 1
        BY <1>0, <2>1 DEF PutcPut
      <3>2. QED
        BY <1>0, <2>1, <3>1, AppendFacts
    <2>2. CASE ~(Len(STXBUF) < SBUFSZ)
      BY <1>0, <2>2 DEF PutcPut
    <2>3. QED
      BY <2>1, <2>2
  <1>4. TypeOK'
    BY <1>1, <1>2, SMTT(60) DEF TypeOK, ChipTypeOK, Bit, Errors, SUARTCMD, TXCMD,
           chip, cpu, rings, prog, hist, At, PutcPut
  <1>5. TxAux'
    BY DEF TxInv, TypeOK, ChipTypeOK, Bit, TxAux, TxInOrder, TxArmed, IsrWillSend,
           SUARTCMD, TXCMD, chip, cpu, rings, prog, hist, At,
           PutcPut
  <1>6. TxInOrder'
    <2>1. CASE Len(STXBUF) < SBUFSZ
      <3>1. /\ STXBUF' = Append(STXBUF, ntx + 1) /\ ntx' = ntx + 1
            /\ UNCHANGED <<tx_active, tx_queue, tx_shift_byte>>
        BY <1>0, <2>1 DEF PutcPut, chip
      <3>2. /\ Len(STXBUF') = Len(STXBUF) + 1
            /\ \A i \in 1 .. Len(STXBUF) : STXBUF'[i] = STXBUF[i]
            /\ STXBUF'[Len(STXBUF) + 1] = ntx + 1
        BY <1>0, <3>1, AppendFacts
      <3>3. \A i \in 1 .. Len(STXBUF') : i \in 1 .. Len(STXBUF) \/ i = Len(STXBUF) + 1
        BY <1>0, <3>2
      <3>4. \A i \in 1 .. Len(STXBUF') : STXBUF'[i] = Len(tx_queue) + tx_active + i
        <4>1. /\ ntx = Len(tx_queue) + tx_active + Len(STXBUF)
              /\ \A i \in 1 .. Len(STXBUF) : STXBUF[i] = Len(tx_queue) + tx_active + i
          BY DEF TxInv, TxInOrder
        <4>2. QED
          BY <1>0, <3>2, <3>3, <4>1, SMTT(60)
      <3>5. QED
        BY <1>0, <3>1, <3>2, <3>4 DEF TxInv, TxInOrder
    <2>2. CASE ~(Len(STXBUF) < SBUFSZ)
      BY <2>2 DEF PutcPut, chip, TxInv, TxInOrder
    <2>3. QED
      BY <2>1, <2>2
  <1>7. TxArmed'
    BY DEF TxInv, TypeOK, ChipTypeOK, Bit, TxAux, TxInOrder, TxArmed, IsrWillSend,
           SUARTCMD, TXCMD, chip, cpu, rings, prog, hist, At,
           PutcPut
  <1>8. QED
    BY <1>4, <1>5, <1>6, <1>7 DEF TxInv


\* UT_READ takes from SRXBUF only.
LEMMA ReadGetTx ==
  ASSUME TxInv, ReadGet
  PROVE  TxInv'
  <1>1. TypeOK
    BY DEF TxInv
  <1>0. /\ SRXBUF \in Seq(Nat) /\ Len(SRXBUF) \in Nat /\ regA \in Nat
        /\ Len(SRXBUF) <= SBUFSZ /\ SBUFSZ \in Nat
    BY <1>1, QueueTypes
  <1>2. SRXBUF' \in Seq(Nat) /\ Len(SRXBUF') <= SBUFSZ /\ regA' \in Nat
    <2>1. CASE SRXBUF = <<>>
      BY <1>0, <2>1, SMTT(60) DEF ReadGet
    <2>2. CASE SRXBUF # <<>>
      BY <1>0, <2>2, TailFacts, SMTT(60) DEF ReadGet
    <2> QED
      BY <2>1, <2>2
  <1>4. TypeOK'
    BY <1>1, <1>2 DEF TypeOK, ChipTypeOK, Bit, Errors, SUARTCMD, TXCMD,
           chip, cpu, rings, prog, hist, At, ReadGet
  <1>5. TxAux'
    BY SMTT(60) DEF TxInv, TypeOK, ChipTypeOK, Bit, TxAux, TxInOrder, TxArmed, IsrWillSend,
           SUARTCMD, TXCMD, chip, cpu, rings, prog, hist, At,
           ReadGet
  <1>6. TxInOrder'
    BY DEF TxInv, TypeOK, ChipTypeOK, Bit, TxAux, TxInOrder, TxArmed, IsrWillSend,
           SUARTCMD, TXCMD, chip, cpu, rings, prog, hist, At,
           ReadGet
  <1>7. TxArmed'
    BY SMTT(60) DEF TxInv, TypeOK, ChipTypeOK, Bit, TxAux, TxInOrder, TxArmed, IsrWillSend,
           SUARTCMD, TXCMD, chip, cpu, rings, prog, hist, At,
           ReadGet
  <1>8. QED
    BY <1>4, <1>5, <1>6, <1>7 DEF TxInv

\* Every step of chip, handler and program keeps the transmit side right.
LEMMA NextTx == TxInv /\ [Next]_vars => TxInv'
  <1> SUFFICES ASSUME TxInv, [Next]_vars PROVE TxInv'
    OBVIOUS
  <1>1. ASSUME NEW txEnds \in BOOLEAN, NEW rxEnds \in BOOLEAN, ChipTick(txEnds, rxEnds) PROVE TxInv'
    BY <1>1, TickTx
  <1>2. CASE IsrRx
    BY <1>2, IsrRxTx
  <1>3. CASE IsrTx
    BY <1>3, IsrTxTx
  <1>4. CASE PutcPut
    BY <1>4, PutcPutTx
  <1>5. CASE ReadGet
    BY <1>5, ReadGetTx
  <1> USE DEF TxInv, TypeOK, ChipTypeOK, Bit, Errors, TxAux, TxInOrder, TxArmed,
              IsrWillSend, SUARTCMD, TXCMD, chip, cpu, rings, prog, hist, At
  <1>6. CASE HostSends
    BY <1>6 DEF HostSends, rx_enqueue
  <1>7. CASE ForeignIrq
    BY <1>7 DEF ForeignIrq
  <1>8. CASE IsrEntry
    BY <1>8 DEF IsrEntry, IrqDue, ReadStatus
  <1>9. CASE IsrChain
    BY <1>9 DEF IsrChain
  <1>10. CASE IsrTxEnd
    BY <1>10 DEF IsrTxEnd
  <1>11. CASE IsrRti
    BY <1>11 DEF IsrRti
  <1>12. CASE ProgramMask
    BY <1>12 DEF ProgramMask
  <1>13. CASE ProgramUnmask
    BY <1>13 DEF ProgramUnmask
  <1>14. ASSUME NEW n \in 0 .. MaxLen, WriteCall(n) PROVE TxInv'
    BY <1>14 DEF WriteCall
  <1>15. ASSUME NEW n \in 0 .. MaxLen, ReadCall(n) PROVE TxInv'
    BY <1>15 DEF ReadCall
  <1>16. CASE SetctlCall
    BY <1>16 DEF SetctlCall
  <1>17. CASE GeterrCall
    BY <1>17 DEF GeterrCall
  <1>18. CASE WriteReturn
    BY <1>18 DEF WriteReturn
  <1>19. CASE PutcEntry
    BY <1>19 DEF PutcEntry
  <1>20. CASE PutcRetry
    BY <1>20 DEF PutcRetry
  <1>21. CASE PutcCheck
    BY <1>21 DEF PutcCheck
  <1>22. CASE PutcSet
    BY <1>22 DEF PutcSet
  <1>23. CASE PutcKick
    BY <1>23 DEF PutcKick, WriteCommand, tx_irq_enabled, rx_irq_enabled
  <1>24. CASE PutcDone
    BY <1>24 DEF PutcDone
  <1>25. CASE ReadMask
    BY <1>25 DEF ReadMask
  <1>26. CASE ReadStore
    BY <1>26 DEF ReadStore
  <1>27. CASE ReadReturn
    BY <1>27 DEF ReadReturn
  <1>28. CASE SetctlWait
    BY <1>28 DEF SetctlWait
  <1>29. ASSUME NEW c \in Controls, SetctlStore(c) PROVE TxInv'
    BY <1>29 DEF SetctlStore, WriteControl
  <1>30. CASE GeterrLoad
    BY <1>30 DEF GeterrLoad
  <1>31. CASE GeterrClear
    BY <1>31 DEF GeterrClear
  <1>32. CASE UNCHANGED vars
    BY <1>32 DEF vars
  <1>33. QED
    BY <1>1, <1>2, <1>3, <1>4, <1>5, <1>6, <1>7, <1>8, <1>9, <1>10, <1>11, ZenonT(60),
       <1>12, <1>13, <1>14, <1>15, <1>16, <1>17, <1>18, <1>19, <1>20, <1>21, <1>22,
       <1>23, <1>24, <1>25, <1>26, <1>27, <1>28, <1>29, <1>30, <1>31, <1>32
    DEF Next, IsrStep, ProgramCall, DriverStep

\* The transmit side's invariant.
LEMMA SpecTx == Spec => []TxInv
  BY InitTx, NextTx, PTL DEF Spec

-----------------------------------------------------------------------------
(***************************************************************************)
(* The variables of chip, driver and program keep their types.             *)
(***************************************************************************)
THEOREM SerioTypes == Spec => []TypeOK
  <1>1. TxInv => TypeOK
    BY DEF TxInv
  <1>2. QED
    BY <1>1, SpecTx, PTL

(***************************************************************************)
(* serio.asm's transmit path loses, doubles and reorders no byte.          *)
(***************************************************************************)
THEOREM SerioTxInOrder == Spec => []TxInOrder
  <1>1. TxInv => TxInOrder
    BY DEF TxInv
  <1>2. QED
    BY <1>1, SpecTx, PTL

(***************************************************************************)
(* serio.asm never forgets to wake the transmitter.                        *)
(***************************************************************************)
THEOREM SerioTxArmed == Spec => []TxArmed
  <1>1. TxInv => TxArmed
    BY DEF TxInv
  <1>2. QED
    BY <1>1, SpecTx, PTL

\* The steps that write UT_DAT or UT_CTL find the transmitter idle.
LEMMA WritesFindIdle ==
  ASSUME TxInv, [Next]_vars
  PROVE  /\ tx_active = 1 /\ tx_active' = 1 => tx_shift_byte' = tx_shift_byte
         /\ control' # control => tx_active = 0
  <1>1. ASSUME NEW txEnds \in BOOLEAN, NEW rxEnds \in BOOLEAN, ChipTick(txEnds, rxEnds)
        PROVE  tx_shift_byte' = tx_shift_byte /\ control' = control
    BY <1>1 DEF ChipTick, Tick
  <1>2. CASE IsrTx
    BY <1>2 DEF IsrTx, WriteData, WriteCommand, TxInv, TxAux, IsrWillSend
  <1>3. ASSUME NEW c \in Controls, SetctlStore(c)
        PROVE  tx_active = 0 /\ tx_shift_byte' = tx_shift_byte
    BY <1>3 DEF SetctlStore, WriteControl, At, TxInv, TypeOK, Bit, TxAux, TxArmed
  <1>4. CASE HostSends \/ ForeignIrq \/ IsrEntry \/ IsrChain \/ IsrRx \/ IsrTxEnd \/ IsrRti
    BY <1>4 DEF HostSends, rx_enqueue, ForeignIrq, IsrEntry, ReadStatus, IsrChain,
                IsrRx, ReadData, IsrTxEnd, IsrRti, chip
  <1>5. CASE ProgramMask \/ ProgramUnmask \/ ProgramCall
    BY <1>5 DEF ProgramMask, ProgramUnmask, ProgramCall, WriteCall, ReadCall,
                SetctlCall, GeterrCall, chip
  <1>6. CASE \/ WriteReturn \/ PutcEntry \/ PutcPut \/ PutcRetry \/ PutcCheck \/ PutcSet
             \/ PutcKick \/ PutcDone
    BY <1>6 DEF WriteReturn, PutcEntry, PutcPut, PutcRetry, PutcCheck, PutcSet,
                PutcKick, WriteCommand, PutcDone, chip
  <1>7. CASE \/ ReadMask \/ ReadGet \/ ReadStore \/ ReadReturn
             \/ SetctlWait \/ GeterrLoad \/ GeterrClear
    BY <1>7 DEF ReadMask, ReadGet, ReadStore, ReadReturn, SetctlWait, GeterrLoad,
                GeterrClear, chip
  <1>8. CASE UNCHANGED vars
    BY <1>8 DEF vars, chip
  <1>9. QED
    BY <1>1, <1>2, <1>3, <1>4, <1>5, <1>6, <1>7, <1>8
    DEF Next, IsrStep, DriverStep

(***************************************************************************)
(* Only UT_ISR writes UT_DAT, and only when nothing is on the wire: no     *)
(* byte in flight is ever overwritten.                                     *)
(***************************************************************************)
THEOREM SerioNeverOverwritten == Spec => NeverOverwritten
  <1>1. TxInv /\ [Next]_vars =>
          [tx_active = 1 /\ tx_active' = 1 => tx_shift_byte' = tx_shift_byte]_vars
    BY WritesFindIdle
  <1>2. QED
    BY <1>1, SpecTx, PTL DEF Spec, NeverOverwritten

(***************************************************************************)
(* UT_IOC_SETCTL never changes the baud rate under a byte being sent.      *)
(***************************************************************************)
THEOREM SerioBaudChangeSafe == Spec => BaudChangeSafe
  <1>1. TxInv /\ [Next]_vars => [control' # control => tx_active = 0]_vars
    BY WritesFindIdle
  <1>2. QED
    BY <1>1, SpecTx, PTL DEF Spec, BaudChangeSafe

-----------------------------------------------------------------------------
(* The receive side and the interrupt masks                                *)


\* Where the driver has not touched the mask since the program called it, or
\* has put it back; and where it has set it.
Untouched == {"w_loop", "r_loop", "r_put", "c_ctl"}
Masked    == {"p_put", "p_chk", "p_set", "p_cmd", "p_done", "r_get", "g_ld", "g_clr"}

\* The handler runs only in a program that allows it, and the mask a routine
\* has saved is the one of its caller.
MaskAux ==
  /\ pc \in Untouched => IF isr = "off" THEN I = callI ELSE callI = 0
  /\ pc \in Masked => I = 1 /\ isr = "off"
  /\ pc \notin {"idle", "w_loop"} => saved = callI

\* UT_IOC_GETERR clears what it has loaded; HANDL_RX runs only on a full register.
RxAux ==
  /\ pc = "g_clr" => errs = SERR
  /\ isr = "rx" => rdrf = 1

\* Bytes in the order the host sent them, after the byte lo and up to byte hi.
InOrder(s, lo, hi) ==
  /\ s \in Seq(Nat)
  /\ \A i \in 1 .. Len(s) : lo < s[i] /\ s[i] <= hi
  /\ \A i, j \in 1 .. Len(s) : i < j => s[i] < s[j]

\* Every byte sent is delivered, dropped or on its way.
PipeKept ==
  /\ nrx = ngot + ndrop + Len(RxPipe)
  /\ InOrder(RxPipe, lastgot, nrx) /\ lastgot <= nrx

\* The inductive invariant.
RxInv == TxInv /\ MaskAux /\ RxAux /\ RxFullReported /\ PipeKept
-----------------------------------------------------------------------------
(* Five queues one behind the other, as the pieces of RxPipe are. *)

Cat(s, t) == s \o t
Pipe(a, b, c, d, e) == Cat(Cat(Cat(Cat(a, b), c), d), e)

\* The pieces that hold one byte or none.
InHand     == IF pc = "r_put" THEN <<regA>> ELSE <<>>
InRegister == IF rdrf = 1 THEN <<rx_data>> ELSE <<>>
OnWire     == IF rx_active = 1 THEN <<rx_shift_byte>> ELSE <<>>

\* One byte is a queue of length 1.
LEMMA OneByte ==
  /\ <<>> \in Seq(Nat) /\ Len(<<>>) = 0
  /\ \A v \in Nat : <<v>> \in Seq(Nat) /\ Len(<<v>>) = 1 /\ <<v>>[1] = v
  OBVIOUS

\* What one queue behind another is.
LEMMA CatFacts ==
  \A s, t \in Seq(Nat) :
    /\ Cat(s, t) \in Seq(Nat) /\ Len(Cat(s, t)) = Len(s) + Len(t)
    /\ \A i \in 1 .. Len(s) + Len(t) : Cat(s, t)[i] = IF i <= Len(s) THEN s[i] ELSE t[i - Len(s)]
  BY ConcatProperties DEF Cat

\* Queues may be joined from either end; an empty one changes nothing.
LEMMA CatJoins ==
  /\ \A s, t, u \in Seq(Nat) : Cat(Cat(s, t), u) = Cat(s, Cat(t, u))
  /\ \A s \in Seq(Nat) : Cat(s, <<>>) = s /\ Cat(<<>>, s) = s
  /\ \A s \in Seq(Nat), v \in Nat : Append(s, v) = Cat(s, <<v>>)
  <1>1. ASSUME NEW s \in Seq(Nat), NEW t \in Seq(Nat), NEW u \in Seq(Nat)
        PROVE  (s \o t) \o u = s \o (t \o u)
    BY ConcatAssociative, SMTT(60)
  <1>2. ASSUME NEW s \in Seq(Nat) PROVE s \o <<>> = s /\ <<>> \o s = s
    BY ConcatEmptySeq
  <1>3. ASSUME NEW s \in Seq(Nat), NEW v \in Nat PROVE Append(s, v) = s \o <<v>>
    BY AppendIsConcat
  <1> QED
    BY <1>1, <1>2, <1>3 DEF Cat

\* The oldest byte and those behind it are the queue.
LEMMA HeadFirst ==
  ASSUME NEW s \in Seq(Nat), s # <<>>
  PROVE  Head(s) \in Nat /\ Tail(s) \in Seq(Nat) /\ s = Cat(<<Head(s)>>, Tail(s))
  <1>1. /\ Len(s) > 0 /\ Head(s) = s[1] /\ Head(s) \in Nat
        /\ Tail(s) \in Seq(Nat) /\ Len(Tail(s)) = Len(s) - 1
        /\ \A i \in 1 .. Len(s) - 1 : Tail(s)[i] = s[i + 1]
    BY TailFacts
  <1> DEFINE h == <<Head(s)>>
             t == Tail(s)
  <1>2. h \in Seq(Nat) /\ Len(h) = 1 /\ h[1] = s[1]
    BY <1>1, OneByte
  <1>3. t \in Seq(Nat) /\ Len(t) = Len(s) - 1 /\ \A i \in 1 .. Len(s) - 1 : t[i] = s[i + 1]
    BY <1>1
  <1> HIDE DEF h, t
  <1>4. /\ Cat(h, t) \in Seq(Nat) /\ Len(Cat(h, t)) = Len(s)
        /\ \A i \in 1 .. Len(s) : Cat(h, t)[i] = IF i <= 1 THEN h[i] ELSE t[i - 1]
    <2>1. /\ Cat(h, t) \in Seq(Nat) /\ Len(Cat(h, t)) = Len(h) + Len(t)
          /\ \A i \in 1 .. Len(h) + Len(t) :
               Cat(h, t)[i] = IF i <= Len(h) THEN h[i] ELSE t[i - Len(h)]
      BY <1>2, <1>3, CatFacts
    <2>2. Len(h) = 1 /\ Len(h) + Len(t) = Len(s)
      BY <1>1, <1>2, <1>3
    <2> QED
      BY <2>1, <2>2
  <1>5. \A i \in 1 .. Len(s) : Cat(h, t)[i] = s[i]
    BY <1>1, <1>2, <1>3, <1>4, SMTT(60)
  <1>6. Cat(h, t) = s
    BY <1>4, <1>5, SeqEqual, ZenonT(60)
  <1> QED
    BY <1>1, <1>6 DEF h, t

\* The pipe may be cut between any two of its queues.
LEMMA PipeJoins ==
  ASSUME NEW a \in Seq(Nat), NEW b \in Seq(Nat), NEW c \in Seq(Nat), NEW d \in Seq(Nat),
         NEW e \in Seq(Nat)
  PROVE  /\ Pipe(a, b, c, d, e) = Cat(a, Cat(b, Cat(c, Cat(d, e))))
         /\ Pipe(a, b, c, d, e) = Cat(Cat(a, b), Cat(c, Cat(d, e)))
         /\ Pipe(a, b, c, d, e) = Cat(Cat(Cat(a, b), c), Cat(d, e))
         /\ Pipe(a, b, c, d, e) \in Seq(Nat)
         /\ Len(Pipe(a, b, c, d, e)) = Len(a) + Len(b) + Len(c) + Len(d) + Len(e)
  <1>1. /\ Cat(a, b) \in Seq(Nat) /\ Cat(Cat(a, b), c) \in Seq(Nat) /\ Cat(d, e) \in Seq(Nat)
        /\ Cat(c, Cat(d, e)) \in Seq(Nat) /\ Cat(Cat(Cat(a, b), c), d) \in Seq(Nat)
    BY CatFacts
  <1>2. Pipe(a, b, c, d, e) = Cat(Cat(Cat(a, b), c), Cat(d, e))
    BY <1>1, CatJoins DEF Pipe
  <1>3. Pipe(a, b, c, d, e) = Cat(Cat(a, b), Cat(c, Cat(d, e)))
    BY <1>1, <1>2, CatJoins
  <1>4. Pipe(a, b, c, d, e) = Cat(a, Cat(b, Cat(c, Cat(d, e))))
    BY <1>1, <1>3, CatJoins
  <1>5. Pipe(a, b, c, d, e) \in Seq(Nat)
    BY <1>1, CatFacts DEF Pipe
  <1>6. Len(Pipe(a, b, c, d, e)) = Len(a) + Len(b) + Len(c) + Len(d) + Len(e)
    <2>1. /\ Len(Pipe(a, b, c, d, e)) = Len(Cat(Cat(a, b), c)) + Len(Cat(d, e))
          /\ Len(Cat(Cat(a, b), c)) = Len(Cat(a, b)) + Len(c)
          /\ Len(Cat(a, b)) = Len(a) + Len(b) /\ Len(Cat(d, e)) = Len(d) + Len(e)
      BY <1>1, <1>2, CatFacts
    <2>2. Len(a) \in Nat /\ Len(b) \in Nat /\ Len(c) \in Nat /\ Len(d) \in Nat /\ Len(e) \in Nat
      OBVIOUS
    <2> QED
      BY <2>1, <2>2
  <1> QED
    BY <1>2, <1>3, <1>4, <1>5, <1>6

(***************************************************************************)
(* A byte that goes from one queue to the next leaves the pipe as it was.  *)
(* The next character on the wire starts.                                  *)
(***************************************************************************)
LEMMA PipeStarts ==
  ASSUME NEW a \in Seq(Nat), NEW b \in Seq(Nat), NEW c \in Seq(Nat), NEW e \in Seq(Nat), e # <<>>
  PROVE  Pipe(a, b, c, <<>>, e) = Pipe(a, b, c, <<Head(e)>>, Tail(e))
  <1> DEFINE none == <<>>
             h == <<Head(e)>>
             t == Tail(e)
  <1>1. none \in Seq(Nat) /\ h \in Seq(Nat) /\ t \in Seq(Nat)
    BY HeadFirst, OneByte
  <1>2. e = Cat(h, t)
    BY HeadFirst
  <1>3. Cat(none, e) = e
    BY CatJoins
  <1> HIDE DEF none, h, t
  <1>4. /\ Pipe(a, b, c, h, t) = Cat(Cat(Cat(a, b), c), Cat(h, t))
        /\ Pipe(a, b, c, none, e) = Cat(Cat(Cat(a, b), c), Cat(none, e))
    BY <1>1, PipeJoins, SMTT(60)
  <1>5. Pipe(a, b, c, none, e) = Pipe(a, b, c, h, t)
    BY <1>2, <1>3, <1>4
  <1> QED
    BY <1>5 DEF none, h, t

\* A character ends in the data register.
LEMMA PipeArrives ==
  ASSUME NEW a \in Seq(Nat), NEW b \in Seq(Nat), NEW e \in Seq(Nat), NEW v \in Nat
  PROVE  Pipe(a, b, <<>>, <<v>>, e) = Pipe(a, b, <<v>>, <<>>, e)
  <1> DEFINE none == <<>>
             one == <<v>>
  <1>1. none \in Seq(Nat) /\ one \in Seq(Nat)
    BY OneByte
  <1>2. \A s \in Seq(Nat) : Cat(none, s) = s
    BY CatJoins
  <1> HIDE DEF none, one
  <1>3. /\ Pipe(a, b, none, one, e) = Cat(Cat(a, b), Cat(none, Cat(one, e)))
        /\ Pipe(a, b, one, none, e) = Cat(Cat(a, b), Cat(one, Cat(none, e)))
    BY <1>1, PipeJoins
  <1>4. Cat(one, e) \in Seq(Nat)
    BY <1>1, CatFacts
  <1>5. Pipe(a, b, none, one, e) = Pipe(a, b, one, none, e)
    BY <1>2, <1>3, <1>4
  <1> QED
    BY <1>5 DEF none, one

\* HANDL_RX takes the byte of the data register to the ring.
LEMMA PipeTakes ==
  ASSUME NEW a \in Seq(Nat), NEW b \in Seq(Nat), NEW d \in Seq(Nat), NEW e \in Seq(Nat),
         NEW v \in Nat
  PROVE  Pipe(a, b, <<v>>, d, e) = Pipe(a, Append(b, v), <<>>, d, e)
  <1> DEFINE none == <<>>
             one == <<v>>
  <1>1. none \in Seq(Nat) /\ one \in Seq(Nat)
    BY OneByte
  <1>2. Append(b, v) = Cat(b, one)
    BY CatJoins
  <1>3. \A s \in Seq(Nat) : Cat(none, s) = s
    BY CatJoins
  <1> HIDE DEF none, one
  <1>4. Cat(b, one) \in Seq(Nat) /\ Cat(d, e) \in Seq(Nat)
    BY <1>1, CatFacts
  <1>5. Pipe(a, Cat(b, one), none, d, e) = Cat(a, Cat(Cat(b, one), Cat(none, Cat(d, e))))
    BY <1>1, <1>4, PipeJoins, SMTT(60)
  <1>6. Pipe(a, b, one, d, e) = Cat(a, Cat(b, Cat(one, Cat(d, e))))
    BY <1>1, PipeJoins
  <1>7. Cat(Cat(b, one), Cat(d, e)) = Cat(b, Cat(one, Cat(d, e)))
    BY <1>1, <1>4, CatJoins
  <1>8. Pipe(a, b, one, d, e) = Pipe(a, Append(b, v), none, d, e)
    BY <1>2, <1>3, <1>4, <1>5, <1>6, <1>7
  <1> QED
    BY <1>8 DEF none, one

\* UT_READ takes the oldest byte of the ring.
LEMMA PipeGets ==
  ASSUME NEW b \in Seq(Nat), NEW c \in Seq(Nat), NEW d \in Seq(Nat), NEW e \in Seq(Nat), b # <<>>
  PROVE  Pipe(<<>>, b, c, d, e) = Pipe(<<Head(b)>>, Tail(b), c, d, e)
  <1> DEFINE none == <<>>
             h == <<Head(b)>>
             t == Tail(b)
  <1>1. none \in Seq(Nat) /\ h \in Seq(Nat) /\ t \in Seq(Nat)
    BY HeadFirst, OneByte
  <1>2. b = Cat(h, t)
    BY HeadFirst
  <1>3. Cat(none, b) = b
    BY CatJoins
  <1> HIDE DEF none, h, t
  <1>4. /\ Pipe(h, t, c, d, e) = Cat(Cat(h, t), Cat(c, Cat(d, e)))
        /\ Pipe(none, b, c, d, e) = Cat(Cat(none, b), Cat(c, Cat(d, e)))
    BY <1>1, PipeJoins, SMTT(60)
  <1>5. Pipe(none, b, c, d, e) = Pipe(h, t, c, d, e)
    BY <1>2, <1>3, <1>4
  <1> QED
    BY <1>5 DEF none, h, t

\* What goes behind the last queue goes behind the pipe.
LEMMA PipeSends ==
  ASSUME NEW a \in Seq(Nat), NEW b \in Seq(Nat), NEW c \in Seq(Nat), NEW d \in Seq(Nat),
         NEW e \in Seq(Nat), NEW f \in Seq(Nat)
  PROVE  Pipe(a, b, c, d, Cat(e, f)) = Cat(Pipe(a, b, c, d, e), f)
  <1> DEFINE q == Cat(Cat(Cat(a, b), c), d)
  <1>1. q \in Seq(Nat)
    BY CatFacts
  <1>2. Cat(Cat(q, e), f) = Cat(q, Cat(e, f))
    BY <1>1, CatJoins
  <1> QED
    BY <1>2 DEF Pipe
-----------------------------------------------------------------------------
\* The next byte the host sends comes after all the others.
LEMMA OrderSend ==
  ASSUME NEW lo \in Nat, NEW hi \in Nat, lo <= hi, NEW s, InOrder(s, lo, hi)
  PROVE  InOrder(Append(s, hi + 1), lo, hi + 1) /\ Len(Append(s, hi + 1)) = Len(s) + 1
  <1> DEFINE t == Append(s, hi + 1)
             n == Len(s)
  <1>0. s \in Seq(Nat) /\ n \in Nat
    BY DEF InOrder
  <1>1. /\ t \in Seq(Nat) /\ Len(t) = n + 1 /\ t[n + 1] = hi + 1
        /\ \A i \in 1 .. n : t[i] = s[i]
    BY <1>0, AppendFacts
  <1>2. \A i \in 1 .. n : s[i] \in Nat /\ lo < s[i] /\ s[i] <= hi
    BY <1>0 DEF InOrder
  <1>3. \A i, j \in 1 .. n : i < j => s[i] < s[j]
    BY DEF InOrder
  <1> HIDE DEF t, n
  <1>4. ASSUME NEW i \in 1 .. n + 1 PROVE i \in 1 .. n \/ i = n + 1
    BY <1>0
  <1>5. ASSUME NEW i \in 1 .. n + 1 PROVE lo < t[i] /\ t[i] <= hi + 1
    <2>1. CASE i \in 1 .. n
      BY <1>1, <1>2, <2>1
    <2>2. CASE i = n + 1
      BY <1>1, <2>2
    <2> QED
      BY <1>4, <2>1, <2>2
  <1>6. ASSUME NEW i \in 1 .. n + 1, NEW j \in 1 .. n + 1, i < j PROVE t[i] < t[j]
    <2>0. i \in 1 .. n
      BY <1>0, <1>6
    <2>1. CASE j = n + 1
      <3>1. t[i] = s[i] /\ s[i] \in Nat /\ s[i] <= hi /\ t[j] = hi + 1
        BY <1>1, <1>2, <2>0, <2>1
      <3> QED
        BY <3>1
    <2>2. CASE j \in 1 .. n
      BY <1>1, <1>3, <1>6, <2>0, <2>2
    <2> QED
      BY <1>4, <2>1, <2>2
  <1>7. InOrder(t, lo, hi + 1)
    BY <1>1, <1>5, <1>6 DEF InOrder
  <1> QED
    BY <1>1, <1>7 DEF t, n

\* A byte in front of a queue.
LEMMA CatOne ==
  ASSUME NEW v \in Nat, NEW y \in Seq(Nat)
  PROVE  /\ Cat(<<v>>, y) \in Seq(Nat) /\ Len(Cat(<<v>>, y)) = Len(y) + 1
         /\ Cat(<<v>>, y)[1] = v
         /\ \A i \in 1 .. Len(y) : Cat(<<v>>, y)[i + 1] = y[i]
  <1> DEFINE one == <<v>>
             s == Cat(one, y)
             n == Len(y)
  <1>1. one \in Seq(Nat) /\ Len(one) = 1 /\ one[1] = v /\ n \in Nat
    BY OneByte
  <1> HIDE DEF one
  <1>2. /\ s \in Seq(Nat) /\ Len(s) = Len(one) + n
        /\ \A i \in 1 .. Len(one) + n : s[i] = IF i <= Len(one) THEN one[i] ELSE y[i - Len(one)]
    BY <1>1, CatFacts
  <1> HIDE DEF s, n
  <1>3. \A i \in 1 .. 1 + n : s[i] = IF i <= 1 THEN one[i] ELSE y[i - 1]
    BY <1>1, <1>2
  <1>4. s[1] = v /\ Len(s) = n + 1
    BY <1>1, <1>2, <1>3
  <1>5. \A i \in 1 .. n : s[i + 1] = y[i]
    BY <1>1, <1>3
  <1> QED
    BY <1>2, <1>4, <1>5 DEF one, s, n

\* A byte dropped from the middle leaves the others in order.
LEMMA OrderDrop ==
  ASSUME NEW lo \in Nat, NEW hi \in Nat, NEW x \in Seq(Nat), NEW y \in Seq(Nat), NEW v \in Nat,
         InOrder(Cat(x, Cat(<<v>>, y)), lo, hi)
  PROVE  InOrder(Cat(x, y), lo, hi)
  <1> DEFINE z == Cat(<<v>>, y)
             s == Cat(x, z)
             r == Cat(x, y)
             k == Len(x)
             n == Len(y)
             m(i) == IF i <= k THEN i ELSE i + 1
  <1>1. k \in Nat /\ n \in Nat /\ InOrder(s, lo, hi)
    OBVIOUS
  <1>2. z \in Seq(Nat) /\ Len(z) = n + 1 /\ \A i \in 1 .. n : z[i + 1] = y[i]
    BY CatOne
  <1> HIDE DEF z
  <1>3. /\ Len(s) = k + Len(z)
        /\ \A i \in 1 .. k + Len(z) : s[i] = IF i <= k THEN x[i] ELSE z[i - k]
    BY <1>2, CatFacts
  <1>4. /\ r \in Seq(Nat) /\ Len(r) = k + n
        /\ \A i \in 1 .. k + n : r[i] = IF i <= k THEN x[i] ELSE y[i - k]
    BY CatFacts
  <1> HIDE DEF s, r, k, n
  <1>5. Len(s) = k + n + 1 /\ \A i \in 1 .. k + n + 1 : s[i] = IF i <= k THEN x[i] ELSE z[i - k]
    BY <1>1, <1>2, <1>3
  <1>6. ASSUME NEW i \in 1 .. k + n PROVE m(i) \in 1 .. k + n + 1 /\ r[i] = s[m(i)]
    <2>1. CASE i <= k
      <3>1. i \in 1 .. k + n + 1 /\ m(i) = i
        BY <1>1, <2>1
      <3>2. r[i] = x[i]
        BY <1>4, <2>1
      <3>3. s[i] = x[i]
        BY <1>5, <2>1, <3>1
      <3> QED
        BY <3>1, <3>2, <3>3
    <2>2. CASE ~ (i <= k)
      <3>1. i + 1 \in 1 .. k + n + 1 /\ i - k \in 1 .. n /\ (i - k) + 1 = (i + 1) - k
        BY <1>1, <2>2
      <3>2. s[i + 1] = z[(i + 1) - k]
        BY <1>1, <1>5, <2>2, <3>1
      <3>3. z[(i + 1) - k] = y[i - k]
        BY <1>2, <3>1
      <3>4. r[i] = y[i - k]
        BY <1>1, <1>4, <2>2
      <3> QED
        BY <2>2, <3>1, <3>2, <3>3, <3>4
    <2> QED
      BY <2>1, <2>2
  <1>7. ASSUME NEW i \in 1 .. k + n, NEW j \in 1 .. k + n, i < j PROVE m(i) < m(j)
    BY <1>1, <1>7
  <1> HIDE DEF m
  <1>8. InOrder(r, lo, hi)
    <2>1. \A i \in 1 .. k + n : lo < r[i] /\ r[i] <= hi
      BY <1>1, <1>5, <1>6 DEF InOrder
    <2>2. \A i, j \in 1 .. k + n : i < j => r[i] < r[j]
      BY <1>1, <1>5, <1>6, <1>7 DEF InOrder
    <2> QED
      BY <1>4, <2>1, <2>2 DEF InOrder
  <1> QED
    BY <1>8 DEF r

\* The byte in front is the next to be delivered; the others come after it.
LEMMA OrderFront ==
  ASSUME NEW lo \in Nat, NEW hi \in Nat, NEW y \in Seq(Nat), NEW v \in Nat,
         InOrder(Cat(<<v>>, y), lo, hi)
  PROVE  v <= hi /\ InOrder(y, v, hi)
  <1> DEFINE s == Cat(<<v>>, y)
             n == Len(y)
  <1>1. n \in Nat /\ InOrder(s, lo, hi)
    OBVIOUS
  <1>2. Len(s) = n + 1 /\ s[1] = v /\ \A i \in 1 .. n : s[i + 1] = y[i]
    BY CatOne
  <1> HIDE DEF s, n
  <1>3. 1 \in 1 .. n + 1 /\ \A i \in 1 .. n : i + 1 \in 1 .. n + 1 /\ 1 < i + 1
    BY <1>1
  <1>4. v <= hi
    BY <1>1, <1>2, <1>3 DEF InOrder
  <1>5. \A i \in 1 .. n : v < y[i] /\ y[i] <= hi
    BY <1>1, <1>2, <1>3 DEF InOrder
  <1>6. ASSUME NEW i \in 1 .. n, NEW j \in 1 .. n, i < j PROVE y[i] < y[j]
    <2>1. i + 1 < j + 1
      BY <1>6
    <2> QED
      BY <1>1, <1>2, <1>3, <2>1 DEF InOrder
  <1> QED
    BY <1>4, <1>5, <1>6 DEF InOrder, n

(***************************************************************************)
(* A byte that leaves the pipe leaves the others in order, one fewer.      *)
(* HANDL_RX drops the byte of the data register.                           *)
(***************************************************************************)
LEMMA PipeDropsRegister ==
  ASSUME NEW a \in Seq(Nat), NEW b \in Seq(Nat), NEW d \in Seq(Nat), NEW e \in Seq(Nat),
         NEW v \in Nat, NEW lo \in Nat, NEW hi \in Nat,
         InOrder(Pipe(a, b, <<v>>, d, e), lo, hi)
  PROVE  /\ InOrder(Pipe(a, b, <<>>, d, e), lo, hi)
         /\ Len(Pipe(a, b, <<v>>, d, e)) = Len(Pipe(a, b, <<>>, d, e)) + 1
  <1> DEFINE none == <<>>
             one == <<v>>
             x == Cat(a, b)
             y == Cat(d, e)
  <1>1. none \in Seq(Nat) /\ one \in Seq(Nat)
    BY OneByte
  <1>2. Len(none) = 0 /\ Len(one) = 1
    BY OneByte
  <1>3. x \in Seq(Nat) /\ y \in Seq(Nat)
    BY CatFacts
  <1>4. Cat(none, y) = y
    BY <1>3, CatJoins
  <1>5. InOrder(Cat(x, Cat(one, y)), lo, hi) => InOrder(Cat(x, y), lo, hi)
    BY <1>3, OrderDrop
  <1> HIDE DEF none, one
  <1>6. /\ Pipe(a, b, one, d, e) = Cat(x, Cat(one, y))
        /\ Pipe(a, b, none, d, e) = Cat(x, Cat(none, y))
        /\ Len(Pipe(a, b, one, d, e)) = Len(a) + Len(b) + Len(one) + Len(d) + Len(e)
        /\ Len(Pipe(a, b, none, d, e)) = Len(a) + Len(b) + Len(none) + Len(d) + Len(e)
    BY <1>1, PipeJoins
  <1>7. InOrder(Pipe(a, b, one, d, e), lo, hi)
    BY DEF one
  <1> HIDE DEF x, y
  <1>8. InOrder(Pipe(a, b, none, d, e), lo, hi)
    BY <1>4, <1>5, <1>6, <1>7
  <1>9. Len(a) \in Nat /\ Len(b) \in Nat /\ Len(d) \in Nat /\ Len(e) \in Nat
    OBVIOUS
  <1>10. Len(Pipe(a, b, one, d, e)) = Len(Pipe(a, b, none, d, e)) + 1
    BY <1>2, <1>6, <1>9
  <1> QED
    BY <1>8, <1>10 DEF none, one

\* The chip drops the byte on the wire.
LEMMA PipeDropsWire ==
  ASSUME NEW a \in Seq(Nat), NEW b \in Seq(Nat), NEW c \in Seq(Nat), NEW e \in Seq(Nat),
         NEW v \in Nat, NEW lo \in Nat, NEW hi \in Nat,
         InOrder(Pipe(a, b, c, <<v>>, e), lo, hi)
  PROVE  /\ InOrder(Pipe(a, b, c, <<>>, e), lo, hi)
         /\ Len(Pipe(a, b, c, <<v>>, e)) = Len(Pipe(a, b, c, <<>>, e)) + 1
  <1> DEFINE none == <<>>
             one == <<v>>
             x == Cat(Cat(a, b), c)
  <1>1. none \in Seq(Nat) /\ one \in Seq(Nat)
    BY OneByte
  <1>2. Len(none) = 0 /\ Len(one) = 1
    BY OneByte
  <1>3. x \in Seq(Nat)
    BY CatFacts
  <1>4. Cat(none, e) = e
    BY CatJoins
  <1>5. InOrder(Cat(x, Cat(one, e)), lo, hi) => InOrder(Cat(x, e), lo, hi)
    BY <1>3, OrderDrop
  <1> HIDE DEF none, one
  <1>6. /\ Pipe(a, b, c, one, e) = Cat(x, Cat(one, e))
        /\ Pipe(a, b, c, none, e) = Cat(x, Cat(none, e))
        /\ Len(Pipe(a, b, c, one, e)) = Len(a) + Len(b) + Len(c) + Len(one) + Len(e)
        /\ Len(Pipe(a, b, c, none, e)) = Len(a) + Len(b) + Len(c) + Len(none) + Len(e)
    BY <1>1, PipeJoins
  <1>7. InOrder(Pipe(a, b, c, one, e), lo, hi)
    BY DEF one
  <1> HIDE DEF x
  <1>8. InOrder(Pipe(a, b, c, none, e), lo, hi)
    BY <1>4, <1>5, <1>6, <1>7
  <1>9. Len(a) \in Nat /\ Len(b) \in Nat /\ Len(c) \in Nat /\ Len(e) \in Nat
    OBVIOUS
  <1>10. Len(Pipe(a, b, c, one, e)) = Len(Pipe(a, b, c, none, e)) + 1
    BY <1>2, <1>6, <1>9
  <1> QED
    BY <1>8, <1>10 DEF none, one

\* UT_READ delivers the byte in front; those left come after it.
LEMMA PipeDelivers ==
  ASSUME NEW b \in Seq(Nat), NEW c \in Seq(Nat), NEW d \in Seq(Nat), NEW e \in Seq(Nat),
         NEW v \in Nat, NEW lo \in Nat, NEW hi \in Nat,
         InOrder(Pipe(<<v>>, b, c, d, e), lo, hi)
  PROVE  /\ v <= hi /\ InOrder(Pipe(<<>>, b, c, d, e), v, hi)
         /\ Len(Pipe(<<v>>, b, c, d, e)) = Len(Pipe(<<>>, b, c, d, e)) + 1
  <1> DEFINE none == <<>>
             one == <<v>>
             y == Cat(b, Cat(c, Cat(d, e)))
  <1>1. none \in Seq(Nat) /\ one \in Seq(Nat)
    BY OneByte
  <1>2. Len(none) = 0 /\ Len(one) = 1
    BY OneByte
  <1>3. y \in Seq(Nat)
    BY CatFacts
  <1>4. Cat(none, y) = y
    BY <1>3, CatJoins
  <1>5. InOrder(Cat(one, y), lo, hi) => v <= hi /\ InOrder(y, v, hi)
    BY <1>3, OrderFront
  <1> HIDE DEF none, one
  <1>6. /\ Pipe(one, b, c, d, e) = Cat(one, y)
        /\ Pipe(none, b, c, d, e) = Cat(none, y)
        /\ Len(Pipe(one, b, c, d, e)) = Len(one) + Len(b) + Len(c) + Len(d) + Len(e)
        /\ Len(Pipe(none, b, c, d, e)) = Len(none) + Len(b) + Len(c) + Len(d) + Len(e)
    BY <1>1, PipeJoins
  <1>7. InOrder(Pipe(one, b, c, d, e), lo, hi)
    BY DEF one
  <1> HIDE DEF y
  <1>8. v <= hi /\ InOrder(Pipe(none, b, c, d, e), v, hi)
    BY <1>4, <1>5, <1>6, <1>7
  <1>9. Len(b) \in Nat /\ Len(c) \in Nat /\ Len(d) \in Nat /\ Len(e) \in Nat
    OBVIOUS
  <1>10. Len(Pipe(one, b, c, d, e)) = Len(Pipe(none, b, c, d, e)) + 1
    BY <1>2, <1>6, <1>9
  <1> QED
    BY <1>8, <1>10 DEF none, one

-----------------------------------------------------------------------------
\* RxPipe is the pipe of its five pieces, and each is a queue of bytes.
LEMMA PipePieces ==
  ASSUME TypeOK
  PROVE  /\ RxPipe = Pipe(InHand, SRXBUF, InRegister, OnWire, rx_pending)
         /\ InHand \in Seq(Nat) /\ SRXBUF \in Seq(Nat) /\ InRegister \in Seq(Nat)
         /\ OnWire \in Seq(Nat) /\ rx_pending \in Seq(Nat)
         /\ RxPipe \in Seq(Nat) /\ Len(RxPipe) \in Nat
  <1>1. RxPipe = Pipe(InHand, SRXBUF, InRegister, OnWire, rx_pending)
    BY DEF RxPipe, Pipe, Cat, InHand, InRegister, OnWire
  <1>2. InHand \in Seq(Nat) /\ InRegister \in Seq(Nat) /\ OnWire \in Seq(Nat)
    BY QueueTypes, OneByte DEF InHand, InRegister, OnWire
  <1>3. SRXBUF \in Seq(Nat) /\ rx_pending \in Seq(Nat)
    BY QueueTypes
  <1>4. RxPipe \in Seq(Nat)
    BY <1>1, <1>2, <1>3, PipeJoins
  <1> QED
    BY <1>1, <1>2, <1>3, <1>4

\* The same pieces after a step that keeps the types.
LEMMA PipePiecesNext ==
  ASSUME TypeOK'
  PROVE  /\ RxPipe' = Pipe(InHand', SRXBUF', InRegister', OnWire', rx_pending')
         /\ Len(RxPipe') \in Nat
  <1>1. RxPipe' = Pipe(InHand', SRXBUF', InRegister', OnWire', rx_pending')
    BY DEF RxPipe, Pipe, Cat, InHand, InRegister, OnWire
  <1>2. /\ InHand' \in Seq(Nat) /\ SRXBUF' \in Seq(Nat) /\ InRegister' \in Seq(Nat)
        /\ OnWire' \in Seq(Nat) /\ rx_pending' \in Seq(Nat)
    BY OneByte DEF TypeOK, ChipTypeOK, InHand, InRegister, OnWire
  <1>3. RxPipe' \in Seq(Nat)
    BY <1>1, <1>2, PipeJoins
  <1> QED
    BY <1>1, <1>3

\* The bytes of RxPipe and the program's and the host's counts.
RxCounts == <<nrx, ngot, ndrop, lastgot>>

\* The steps that move no received byte.
LEMMA PipeSame ==
  ASSUME PipeKept, UNCHANGED <<RxCounts, InHand, SRXBUF, InRegister, OnWire, rx_pending>>
  PROVE  PipeKept'
  <1>1. RxPipe = Pipe(InHand, SRXBUF, InRegister, OnWire, rx_pending)
    BY DEF RxPipe, Pipe, Cat, InHand, InRegister, OnWire
  <1>2. RxPipe' = Pipe(InHand', SRXBUF', InRegister', OnWire', rx_pending')
    BY DEF RxPipe, Pipe, Cat, InHand, InRegister, OnWire
  <1>3. RxPipe' = RxPipe
    BY <1>1, <1>2
  <1> QED
    BY <1>3 DEF PipeKept, RxCounts
(***************************************************************************)
(* A tick starts a character, ends one in the data register, or drops the  *)
(* one that finds it full.                                                 *)
(***************************************************************************)
LEMMA TickPipe ==
  ASSUME TypeOK, TypeOK', PipeKept, NEW txEnds \in BOOLEAN, NEW rxEnds \in BOOLEAN,
         ChipTick(txEnds, rxEnds)
  PROVE  PipeKept'
  <1> DEFINE W == IF RxStarts THEN <<Head(rx_pending)>> ELSE OnWire
  <1>1. /\ InHand \in Seq(Nat) /\ SRXBUF \in Seq(Nat) /\ InRegister \in Seq(Nat)
        /\ OnWire \in Seq(Nat) /\ rx_pending \in Seq(Nat) /\ rx_pending' \in Seq(Nat)
    BY PipePieces DEF TypeOK, ChipTypeOK
  <1>2. /\ RxPipe = Pipe(InHand, SRXBUF, InRegister, OnWire, rx_pending)
        /\ RxPipe' = Pipe(InHand', SRXBUF', InRegister', OnWire', rx_pending')
    BY PipePieces, PipePiecesNext
  <1>2a. Len(RxPipe) \in Nat /\ Len(RxPipe') \in Nat
    BY PipePieces, PipePiecesNext
  <1>3. UNCHANGED <<InHand, SRXBUF, nrx, ngot, lastgot>>
    BY DEF ChipTick, InHand, prog, rings
  <1>4. /\ rx_shift_byte' \in Nat /\ rx_data \in Nat /\ rdrf \in {0, 1} /\ rx_active \in {0, 1}
        /\ nrx \in Nat /\ ngot \in Nat /\ ndrop \in Nat /\ lastgot \in Nat
    BY DEF TypeOK, ChipTypeOK, Bit
  <1>5. W \in Seq(Nat)
    BY <1>1, OneByte, TailFacts DEF RxStarts
  <1>6. RxPipe = Pipe(InHand, SRXBUF, InRegister, W, rx_pending')
    <2>1. CASE RxStarts
      <3>1. OnWire = <<>> /\ rx_pending # <<>> /\ rx_pending' = Tail(rx_pending)
        BY <2>1 DEF RxStarts, OnWire, ChipTick, Tick
      <3>2. Pipe(InHand, SRXBUF, InRegister, <<>>, rx_pending)
              = Pipe(InHand, SRXBUF, InRegister, <<Head(rx_pending)>>, Tail(rx_pending))
        <4>1. rx_pending # <<>>
          BY <3>1
        <4> QED
          BY <1>1, <4>1, PipeStarts
      <3> QED
        BY <1>2, <2>1, <3>1, <3>2
    <2>2. CASE ~ RxStarts
      <3>1. rx_pending' = rx_pending
        BY <2>2 DEF ChipTick, Tick
      <3> QED
        BY <1>2, <2>2, <3>1
    <2> QED
      BY <2>1, <2>2
  <1>7. rxEnds => W = <<rx_shift_byte'>> /\ OnWire' = <<>>
    BY DEF ChipTick, Tick, OnWire
  <1>8. CASE ~ rxEnds
    <2>1. OnWire' = W /\ InRegister' = InRegister /\ ndrop' = ndrop
      BY <1>4, <1>8 DEF ChipTick, Tick, RxOverruns, OnWire, InRegister, RxStarts
    <2>2. RxPipe' = RxPipe
      BY <1>2, <1>3, <1>6, <2>1
    <2> QED
      BY <1>3, <2>1, <2>2 DEF PipeKept
  <1>9. CASE rxEnds /\ rdrf = 0
    <2>1. InRegister = <<>> /\ InRegister' = <<rx_shift_byte'>> /\ ndrop' = ndrop
      BY <1>9 DEF ChipTick, Tick, RxOverruns, InRegister
    <2>2. Pipe(InHand, SRXBUF, <<>>, <<rx_shift_byte'>>, rx_pending')
            = Pipe(InHand, SRXBUF, <<rx_shift_byte'>>, <<>>, rx_pending')
      BY <1>1, <1>4, PipeArrives
    <2>3. RxPipe' = RxPipe
      BY <1>2, <1>3, <1>6, <1>7, <1>9, <2>1, <2>2
    <2> QED
      BY <1>3, <2>1, <2>3 DEF PipeKept
  <1>10. CASE rxEnds /\ rdrf = 1
    <2>1. InRegister' = InRegister /\ ndrop' = ndrop + 1
      BY <1>10 DEF ChipTick, Tick, RxOverruns, InRegister
    <2>2. /\ RxPipe = Pipe(InHand, SRXBUF, InRegister, <<rx_shift_byte'>>, rx_pending')
          /\ RxPipe' = Pipe(InHand, SRXBUF, InRegister, <<>>, rx_pending')
      BY <1>2, <1>3, <1>6, <1>7, <1>10, <2>1
    <2> DEFINE P == Pipe(InHand, SRXBUF, InRegister, <<rx_shift_byte'>>, rx_pending')
               Q == Pipe(InHand, SRXBUF, InRegister, <<>>, rx_pending')
    <2>3. InOrder(P, lastgot, nrx) => InOrder(Q, lastgot, nrx) /\ Len(P) = Len(Q) + 1
      <3>1. ASSUME NEW v \in Nat, NEW e \in Seq(Nat), NEW a \in Seq(Nat), NEW b \in Seq(Nat), NEW c \in Seq(Nat),
                   NEW lo \in Nat, NEW hi \in Nat
            PROVE  InOrder(Pipe(a, b, c, <<v>>, e), lo, hi)
                   => /\ InOrder(Pipe(a, b, c, <<>>, e), lo, hi)
                      /\ Len(Pipe(a, b, c, <<v>>, e)) = Len(Pipe(a, b, c, <<>>, e)) + 1
        BY <3>1, PipeDropsWire, SMTT(60)
      <3>2. rx_shift_byte' \in Nat /\ rx_pending' \in Seq(Nat) /\ lastgot \in Nat /\ nrx \in Nat
        BY <1>1, <1>4
      <3> QED
        BY ONLY <1>1, <3>1, <3>2, SMTT(60)
    <2> HIDE DEF P, Q
    <2>4. InOrder(RxPipe', lastgot, nrx) /\ Len(RxPipe) = Len(RxPipe') + 1
      BY <2>2, <2>3 DEF PipeKept, P, Q
    <2>5. nrx = ngot + (ndrop + 1) + Len(RxPipe')
      BY <1>4, <1>2a, <2>4 DEF PipeKept
    <2> QED
      BY <1>3, <2>1, <2>4, <2>5 DEF PipeKept
  <1> QED
    BY <1>4, <1>8, <1>9, <1>10

\* The host's next byte goes to the end of the wire.
LEMMA HostSendsPipe ==
  ASSUME TypeOK, TypeOK', PipeKept, HostSends
  PROVE  PipeKept'
  <1>1. /\ InHand \in Seq(Nat) /\ SRXBUF \in Seq(Nat) /\ InRegister \in Seq(Nat)
        /\ OnWire \in Seq(Nat) /\ rx_pending \in Seq(Nat) /\ Len(RxPipe) \in Nat
    BY PipePieces
  <1>2. nrx \in Nat /\ nrx + 1 \in Nat /\ ngot \in Nat /\ ndrop \in Nat /\ lastgot \in Nat
    BY DEF TypeOK
  <1>3. /\ UNCHANGED <<InHand, SRXBUF, InRegister, OnWire, ngot, ndrop, lastgot>>
        /\ rx_pending' = Append(rx_pending, nrx + 1) /\ nrx' = nrx + 1
    BY DEF HostSends, rx_enqueue, InHand, InRegister, OnWire, prog, rings
  <1>4. /\ RxPipe = Pipe(InHand, SRXBUF, InRegister, OnWire, rx_pending)
        /\ RxPipe' = Pipe(InHand, SRXBUF, InRegister, OnWire, Append(rx_pending, nrx + 1))
    BY <1>3, PipePieces, PipePiecesNext
  <1> DEFINE f == <<nrx + 1>>
  <1>5. f \in Seq(Nat) /\ RxPipe \in Seq(Nat)
    BY <1>2, OneByte, PipePieces
  <1>6. RxPipe' = Append(RxPipe, nrx + 1)
    <2>1. /\ Append(rx_pending, nrx + 1) = Cat(rx_pending, f)
          /\ Append(RxPipe, nrx + 1) = Cat(RxPipe, f)
      BY <1>1, <1>2, <1>5, CatJoins
    <2> HIDE DEF f
    <2>2. Pipe(InHand, SRXBUF, InRegister, OnWire, Cat(rx_pending, f))
            = Cat(Pipe(InHand, SRXBUF, InRegister, OnWire, rx_pending), f)
      BY <1>1, <1>5, PipeSends, SMTT(60)
    <2> QED
      BY <1>4, <2>1, <2>2
  <1>7. InOrder(RxPipe, lastgot, nrx) /\ lastgot <= nrx
    BY DEF PipeKept
  <1>8. InOrder(Append(RxPipe, nrx + 1), lastgot, nrx + 1) /\ Len(Append(RxPipe, nrx + 1)) = Len(RxPipe) + 1
    BY <1>2, <1>7, OrderSend
  <1>9. nrx + 1 = ngot + ndrop + Len(RxPipe') /\ lastgot <= nrx + 1
    BY <1>1, <1>2, <1>6, <1>8 DEF PipeKept
  <1> QED
    BY <1>3, <1>6, <1>8, <1>9 DEF PipeKept

\* HANDL_RX takes the byte of the data register to the ring, or drops it.
LEMMA IsrRxPipe ==
  ASSUME TypeOK, TypeOK', RxAux, PipeKept, IsrRx
  PROVE  PipeKept'
  <1>1. /\ InHand \in Seq(Nat) /\ SRXBUF \in Seq(Nat) /\ OnWire \in Seq(Nat)
        /\ rx_pending \in Seq(Nat) /\ rx_data \in Nat
    BY PipePieces, QueueTypes
  <1>2. nrx \in Nat /\ ngot \in Nat /\ ndrop \in Nat /\ lastgot \in Nat
    BY DEF TypeOK
  <1>3. UNCHANGED <<InHand, OnWire, rx_pending, nrx, ngot, lastgot>>
    BY DEF IsrRx, ReadData, InHand, OnWire, prog
  <1>4. InRegister = <<rx_data>> /\ InRegister' = <<>>
    BY DEF IsrRx, ReadData, RxAux, InRegister
  <1>5. /\ RxPipe = Pipe(InHand, SRXBUF, <<rx_data>>, OnWire, rx_pending)
        /\ RxPipe' = Pipe(InHand, SRXBUF', <<>>, OnWire, rx_pending)
    BY <1>3, <1>4, PipePieces, PipePiecesNext
  <1>6. CASE Len(SRXBUF) < SBUFSZ
    <2>1. SRXBUF' = Append(SRXBUF, rx_data) /\ ndrop' = ndrop
      BY <1>6 DEF IsrRx
    <2>2. Pipe(InHand, SRXBUF, <<rx_data>>, OnWire, rx_pending)
            = Pipe(InHand, Append(SRXBUF, rx_data), <<>>, OnWire, rx_pending)
      BY <1>1, PipeTakes
    <2>3. RxPipe' = RxPipe
      BY <1>5, <2>1, <2>2
    <2> QED
      BY <1>3, <2>1, <2>3 DEF PipeKept
  <1>7. CASE ~ (Len(SRXBUF) < SBUFSZ)
    <2>1. SRXBUF' = SRXBUF /\ ndrop' = ndrop + 1
      BY <1>7 DEF IsrRx
    <2> DEFINE P == Pipe(InHand, SRXBUF, <<rx_data>>, OnWire, rx_pending)
               Q == Pipe(InHand, SRXBUF, <<>>, OnWire, rx_pending)
    <2>2. InOrder(P, lastgot, nrx) => InOrder(Q, lastgot, nrx) /\ Len(P) = Len(Q) + 1
      BY <1>1, <1>2, PipeDropsRegister, SMTT(60)
    <2> HIDE DEF P, Q
    <2>3. RxPipe = P /\ RxPipe' = Q
      BY <1>5, <2>1 DEF P, Q
    <2>4. InOrder(RxPipe', lastgot, nrx) /\ Len(RxPipe) = Len(RxPipe') + 1
      BY <2>2, <2>3 DEF PipeKept
    <2>5. nrx = ngot + (ndrop + 1) + Len(RxPipe')
      BY <1>2, <2>4, PipePieces, PipePiecesNext DEF PipeKept
    <2> QED
      BY <1>3, <2>1, <2>4, <2>5 DEF PipeKept
  <1> QED
    BY <1>6, <1>7

\* UT_READ takes the oldest byte of the ring under the mask.
LEMMA ReadGetPipe ==
  ASSUME TypeOK, TypeOK', PipeKept, ReadGet
  PROVE  PipeKept'
  <1>1. /\ SRXBUF \in Seq(Nat) /\ InRegister \in Seq(Nat) /\ OnWire \in Seq(Nat)
        /\ rx_pending \in Seq(Nat)
    BY PipePieces
  <1>2. /\ InHand = <<>>
        /\ UNCHANGED <<RxCounts, InRegister, OnWire, rx_pending>>
    BY DEF ReadGet, At, chip, hist, InHand, InRegister, OnWire, RxCounts
  <1>3. CASE SRXBUF = <<>>
    <2>1. InHand' = <<>> /\ SRXBUF' = SRXBUF
      BY <1>3 DEF ReadGet, InHand
    <2> QED
      BY <1>2, <2>1, PipeSame
  <1>4. CASE SRXBUF # <<>>
    <2>1. InHand' = <<Head(SRXBUF)>> /\ SRXBUF' = Tail(SRXBUF)
      BY <1>4 DEF ReadGet, InHand
    <2>2. Pipe(<<>>, SRXBUF, InRegister, OnWire, rx_pending)
            = Pipe(<<Head(SRXBUF)>>, Tail(SRXBUF), InRegister, OnWire, rx_pending)
      BY <1>1, <1>4, PipeGets
    <2>3. /\ RxPipe = Pipe(<<>>, SRXBUF, InRegister, OnWire, rx_pending)
          /\ RxPipe' = Pipe(<<Head(SRXBUF)>>, Tail(SRXBUF), InRegister, OnWire, rx_pending)
      BY <1>2, <2>1, PipePieces, PipePiecesNext
    <2>4. RxPipe' = RxPipe
      BY <2>2, <2>3
    <2> QED
      BY <1>2, <2>4 DEF PipeKept, RxCounts
  <1> QED
    BY <1>3, <1>4

\* UT_READ delivers the byte it holds.
LEMMA ReadStorePipe ==
  ASSUME TypeOK, TypeOK', PipeKept, ReadStore
  PROVE  PipeKept'
  <1>1. /\ SRXBUF \in Seq(Nat) /\ InRegister \in Seq(Nat) /\ OnWire \in Seq(Nat)
        /\ rx_pending \in Seq(Nat) /\ regA \in Nat
    BY PipePieces, QueueTypes
  <1>2. nrx \in Nat /\ ngot \in Nat /\ ndrop \in Nat /\ lastgot \in Nat
    BY DEF TypeOK
  <1>3. /\ InHand = <<regA>> /\ InHand' = <<>>
        /\ UNCHANGED <<nrx, ndrop, SRXBUF, InRegister, OnWire, rx_pending>>
        /\ lastgot' = regA /\ ngot' = ngot + 1
    BY DEF ReadStore, At, chip, rings, InHand, InRegister, OnWire
  <1> DEFINE P == Pipe(<<regA>>, SRXBUF, InRegister, OnWire, rx_pending)
             Q == Pipe(<<>>, SRXBUF, InRegister, OnWire, rx_pending)
  <1>4. InOrder(P, lastgot, nrx) => regA <= nrx /\ InOrder(Q, regA, nrx) /\ Len(P) = Len(Q) + 1
    BY <1>1, <1>2, PipeDelivers, SMTT(60)
  <1>5. RxPipe = P /\ RxPipe' = Q
    BY <1>3, PipePieces, PipePiecesNext
  <1> HIDE DEF P, Q
  <1>6. regA <= nrx /\ InOrder(RxPipe', regA, nrx) /\ Len(RxPipe) = Len(RxPipe') + 1
    BY <1>4, <1>5 DEF PipeKept
  <1>7. nrx = (ngot + 1) + ndrop + Len(RxPipe')
    BY <1>2, <1>6, PipePieces, PipePiecesNext DEF PipeKept
  <1> QED
    BY <1>3, <1>6, <1>7 DEF PipeKept
-----------------------------------------------------------------------------
\* The initial state.
LEMMA InitRx == Init => RxInv
  <1> SUFFICES ASSUME Init PROVE RxInv
    OBVIOUS
  <1>1. TxInv
    BY InitTx
  <1>2. MaskAux /\ RxAux /\ RxFullReported
    BY DEF Init, MaskAux, Untouched, Masked, RxAux, RxFullReported
  <1>3. PipeKept
    <2>1. RxPipe \in Seq(Nat) /\ RxPipe = <<>>
      <3>1. InHand = <<>> /\ InRegister = <<>> /\ OnWire = <<>> /\ SRXBUF = <<>> /\ rx_pending = <<>>
        BY DEF Init, InHand, InRegister, OnWire
      <3>2. RxPipe \in Seq(Nat) /\ RxPipe = Pipe(<<>>, <<>>, <<>>, <<>>, <<>>)
        BY <1>1, <3>1, PipePieces DEF TxInv
      <3> QED
        BY <3>2, OneByte, CatJoins DEF Pipe
    <2>2. Len(RxPipe) = 0
      BY <2>1, OneByte
    <2>3. nrx = 0 /\ ngot = 0 /\ ndrop = 0 /\ lastgot = 0
      BY DEF Init
    <2> QED
      BY <2>1, <2>2, <2>3 DEF PipeKept, InOrder
  <1> QED
    BY <1>1, <1>2, <1>3 DEF RxInv

(***************************************************************************)
(* No step of driver, handler or program loses the caller's mask.          *)
(***************************************************************************)
LEMMA NextMask ==
  ASSUME TxInv, MaskAux, [Next]_vars
  PROVE  MaskAux'
  <1>1. isr # "off" => I = 1
    BY DEF TxInv, TxAux
  <1>2. I \in {0, 1}
    BY DEF TxInv, TypeOK, Bit
  <1> USE DEF MaskAux, Untouched, Masked, At, IrqDue, cpu, prog
  <1>3. ASSUME NEW txEnds \in BOOLEAN, NEW rxEnds \in BOOLEAN, ChipTick(txEnds, rxEnds)
        PROVE  MaskAux'
    BY <1>3 DEF ChipTick
  <1>4. CASE HostSends \/ ForeignIrq
    BY <1>4 DEF HostSends, ForeignIrq
  <1>5. CASE IsrEntry
    BY <1>5 DEF IsrEntry
  <1>6. CASE IsrChain \/ IsrRx \/ IsrTx \/ IsrTxEnd \/ IsrRti
    BY <1>1, <1>6 DEF IsrChain, IsrRx, IsrTx, IsrTxEnd, IsrRti
  <1>7. CASE ProgramMask \/ ProgramUnmask
    BY <1>7 DEF ProgramMask, ProgramUnmask
  <1>8. ASSUME NEW n \in 0 .. MaxLen, WriteCall(n) \/ ReadCall(n) PROVE MaskAux'
    BY <1>8 DEF WriteCall, ReadCall
  <1>9. CASE SetctlCall \/ GeterrCall
    BY <1>9 DEF SetctlCall, GeterrCall
  <1>10. CASE WriteReturn \/ PutcEntry \/ PutcPut \/ PutcRetry
    BY <1>10 DEF WriteReturn, PutcEntry, PutcPut, PutcRetry
  <1>11. CASE PutcCheck \/ PutcSet \/ PutcKick \/ PutcDone
    BY <1>11 DEF PutcCheck, PutcSet, PutcKick, PutcDone
  <1>12. CASE ReadMask \/ ReadGet \/ ReadStore \/ ReadReturn
    BY <1>12 DEF ReadMask, ReadGet, ReadStore, ReadReturn
  <1>13. ASSUME NEW c \in Controls, SetctlStore(c) PROVE MaskAux'
    BY <1>13 DEF SetctlStore
  <1>14. CASE SetctlWait \/ GeterrLoad \/ GeterrClear
    BY <1>14 DEF SetctlWait, GeterrLoad, GeterrClear
  <1>15. CASE UNCHANGED vars
    BY <1>15 DEF vars
  <1> QED
    BY <1>3, <1>4, <1>5, <1>6, <1>7, <1>8, <1>9, <1>10, <1>11, <1>12, <1>13, <1>14, <1>15
    DEF Next, IsrStep, ProgramCall, DriverStep

(***************************************************************************)
(* The handler cannot run between UT_IOC_GETERR's load and its clear, so   *)
(* what is cleared is what was loaded.                                     *)
(***************************************************************************)
LEMMA NextErrors ==
  ASSUME TxInv, MaskAux, RxAux, RxFullReported, [Next]_vars
  PROVE  RxAux' /\ RxFullReported'
  <1>1. pc = "g_clr" => I = 1 /\ isr = "off"
    BY DEF MaskAux, Masked
  <1>2. rdrf \in {0, 1}
    BY DEF TxInv, TypeOK, ChipTypeOK, Bit
  <1> USE DEF RxAux, RxFullReported, At, IrqDue, chip, cpu, rings, prog, hist
  <1>3. ASSUME NEW txEnds \in BOOLEAN, NEW rxEnds \in BOOLEAN, ChipTick(txEnds, rxEnds)
        PROVE  RxAux' /\ RxFullReported'
    BY <1>2, <1>3 DEF ChipTick, Tick
  <1>4. CASE HostSends \/ ForeignIrq
    BY <1>4 DEF HostSends, rx_enqueue, ForeignIrq
  <1>5. CASE IsrEntry
    BY <1>1, <1>5 DEF IsrEntry, ReadStatus
  <1>6. CASE IsrRx
    BY <1>1, <1>6 DEF IsrRx, ReadData
  <1>7. CASE IsrTx
    BY <1>7 DEF IsrTx, WriteData, WriteCommand
  <1>8. CASE IsrChain \/ IsrTxEnd \/ IsrRti
    BY <1>8 DEF IsrChain, IsrTxEnd, IsrRti
  <1>9. CASE ProgramMask \/ ProgramUnmask
    BY <1>9 DEF ProgramMask, ProgramUnmask
  <1>10. ASSUME NEW n \in 0 .. MaxLen, WriteCall(n) \/ ReadCall(n) PROVE RxAux' /\ RxFullReported'
    BY <1>10 DEF WriteCall, ReadCall
  <1>11. CASE SetctlCall \/ GeterrCall
    BY <1>11 DEF SetctlCall, GeterrCall
  <1>12. CASE WriteReturn \/ PutcEntry \/ PutcPut \/ PutcRetry
    BY <1>12 DEF WriteReturn, PutcEntry, PutcPut, PutcRetry
  <1>13. CASE PutcCheck \/ PutcSet \/ PutcKick \/ PutcDone
    BY <1>13 DEF PutcCheck, PutcSet, PutcKick, WriteCommand, PutcDone
  <1>14. CASE ReadMask \/ ReadGet \/ ReadStore \/ ReadReturn
    BY <1>14 DEF ReadMask, ReadGet, ReadStore, ReadReturn
  <1>15. ASSUME NEW c \in Controls, SetctlStore(c) PROVE RxAux' /\ RxFullReported'
    BY <1>15 DEF SetctlStore, WriteControl
  <1>16. CASE SetctlWait \/ GeterrLoad \/ GeterrClear
    BY <1>1, <1>16 DEF SetctlWait, GeterrLoad, GeterrClear
  <1>17. CASE UNCHANGED vars
    BY <1>17 DEF vars
  <1> QED
    BY <1>3, <1>4, <1>5, <1>6, <1>7, <1>8, <1>9, <1>10, <1>11, <1>12, <1>13, <1>14, <1>15,
       <1>16, <1>17
    DEF Next, IsrStep, ProgramCall, DriverStep

\* Only five of the steps touch a received byte.
LEMMA NextPipe ==
  ASSUME RxInv, TypeOK', [Next]_vars
  PROVE  PipeKept'
  <1>0. TypeOK /\ RxAux /\ PipeKept
    BY DEF RxInv, TxInv
  <1>1. ASSUME NEW txEnds \in BOOLEAN, NEW rxEnds \in BOOLEAN, ChipTick(txEnds, rxEnds)
        PROVE  PipeKept'
    BY <1>0, <1>1, TickPipe
  <1>2. CASE HostSends
    BY <1>0, <1>2, HostSendsPipe
  <1>3. CASE IsrRx
    BY <1>0, <1>3, IsrRxPipe
  <1>4. CASE ReadGet
    BY <1>0, <1>4, ReadGetPipe
  <1>5. CASE ReadStore
    BY <1>0, <1>5, ReadStorePipe
  <1> DEFINE Same == UNCHANGED <<RxCounts, InHand, SRXBUF, InRegister, OnWire, rx_pending>>
  <1> USE DEF RxCounts, InHand, InRegister, OnWire, At, chip, rings, prog, hist
  <1>6. CASE ForeignIrq \/ IsrEntry \/ IsrChain \/ IsrTxEnd \/ IsrRti
    <2>1. Same
      BY <1>6 DEF ForeignIrq, IsrEntry, ReadStatus, IsrChain, IsrTxEnd, IsrRti
    <2> QED
      BY <1>0, <2>1, PipeSame
  <1>7. CASE IsrTx
    <2>1. Same
      BY <1>7 DEF IsrTx, WriteData, WriteCommand
    <2> QED
      BY <1>0, <2>1, PipeSame
  <1>8. CASE ProgramMask \/ ProgramUnmask \/ ProgramCall
    <2>1. Same
      BY <1>8 DEF ProgramMask, ProgramUnmask, ProgramCall, WriteCall, ReadCall, SetctlCall,
                  GeterrCall
    <2> QED
      BY <1>0, <2>1, PipeSame
  <1>9. CASE WriteReturn \/ PutcEntry \/ PutcPut \/ PutcRetry
    <2>1. Same
      BY <1>9 DEF WriteReturn, PutcEntry, PutcPut, PutcRetry
    <2> QED
      BY <1>0, <2>1, PipeSame
  <1>10. CASE PutcCheck \/ PutcSet \/ PutcKick \/ PutcDone
    <2>1. Same
      BY <1>10 DEF PutcCheck, PutcSet, PutcKick, WriteCommand, PutcDone
    <2> QED
      BY <1>0, <2>1, PipeSame
  <1>11. CASE ReadMask \/ ReadReturn \/ SetctlWait \/ GeterrLoad \/ GeterrClear
    <2>1. Same
      BY <1>11 DEF ReadMask, ReadReturn, SetctlWait, GeterrLoad, GeterrClear
    <2> QED
      BY <1>0, <2>1, PipeSame
  <1>12. ASSUME NEW c \in Controls, SetctlStore(c) PROVE PipeKept'
    <2>1. Same
      BY <1>12 DEF SetctlStore, WriteControl
    <2> QED
      BY <1>0, <2>1, PipeSame
  <1>13. CASE UNCHANGED vars
    <2>1. Same
      BY <1>13 DEF vars
    <2> QED
      BY <1>0, <2>1, PipeSame
  <1> QED
    BY <1>1, <1>2, <1>3, <1>4, <1>5, <1>6, <1>7, <1>8, <1>9, <1>10, <1>11, <1>12, <1>13
    DEF Next, IsrStep, DriverStep

\* The receive side's invariant is one of the driver.
LEMMA SpecRx == Spec => []RxInv
  <1>1. RxInv /\ [Next]_vars => RxInv'
    <2> SUFFICES ASSUME RxInv, [Next]_vars PROVE RxInv'
      OBVIOUS
    <2>1. TxInv /\ MaskAux /\ RxAux /\ RxFullReported
      BY DEF RxInv
    <2>2. TxInv'
      BY <2>1, NextTx
    <2>3. TypeOK'
      BY <2>2 DEF TxInv
    <2>4. MaskAux' /\ RxAux' /\ RxFullReported'
      BY <2>1, NextMask, NextErrors
    <2>5. PipeKept'
      BY <2>3, NextPipe
    <2> QED
      BY <2>2, <2>4, <2>5 DEF RxInv
  <1> QED
    BY <1>1, InitRx, PTL DEF Spec
-----------------------------------------------------------------------------
(***************************************************************************)
(* Every byte the host sends to the serial port is delivered by UT_READ,   *)
(* counted as dropped or still on its way, and the program gets the others *)
(* in the order sent, whatever the ring's size and the interleaving of     *)
(* chip, UT_ISR and UT_READ.                                               *)
(***************************************************************************)
THEOREM SerioRxAccounted == Spec => []RxAccounted
  <1>1. RxInv => RxAccounted
    BY DEF RxInv, PipeKept, InOrder, RxAccounted
  <1> QED
    BY <1>1, SpecRx, PTL

(***************************************************************************)
(* UT_IOC_GETERR's read-and-clear never wipes out the report of a byte     *)
(* that HANDL_RX dropped for want of room.                                 *)
(***************************************************************************)
THEOREM SerioRxFullReported == Spec => []RxFullReported
  <1>1. RxInv => RxFullReported
    BY DEF RxInv
  <1> QED
    BY <1>1, SpecRx, PTL

(***************************************************************************)
(* UT_READ and UT_IOC_GETERR never let an interrupt into a caller that     *)
(* masked it, and every call of the driver, UT_WRITE and UT_IOC_SETCTL     *)
(* too, returns with the mask its caller had.                              *)
(***************************************************************************)
THEOREM SerioMaskKept == Spec => MaskKept
  <1> DEFINE Kept == /\ pc \in {"r_loop", "r_get", "r_put", "g_ld", "g_clr"} /\ callI = 1 => I' = 1
                     /\ pc # "idle" /\ pc' = "idle" => I' = callI
  <1>1. ASSUME TxInv, MaskAux, [Next]_vars PROVE [Kept]_vars
    <2> USE <1>1 DEF MaskAux, Untouched, Masked, At, IrqDue, cpu, prog
    <2>1. ASSUME NEW txEnds \in BOOLEAN, NEW rxEnds \in BOOLEAN, ChipTick(txEnds, rxEnds)
          PROVE  Kept
      BY <2>1 DEF ChipTick, TxInv, TxAux
    <2>2. CASE HostSends \/ ForeignIrq
      BY <2>2 DEF HostSends, ForeignIrq, TxInv, TxAux
    <2>3. CASE IsrStep
      BY <2>3 DEF IsrStep, IsrEntry, IsrChain, IsrRx, IsrTx, IsrTxEnd, IsrRti, TxInv, TxAux
    <2>4. CASE ProgramMask \/ ProgramUnmask \/ ProgramCall
      BY <2>4 DEF ProgramMask, ProgramUnmask, ProgramCall, WriteCall, ReadCall, SetctlCall,
                  GeterrCall
    <2>5. CASE \/ WriteReturn \/ PutcEntry \/ PutcPut \/ PutcRetry \/ PutcCheck \/ PutcSet
               \/ PutcKick \/ PutcDone
      BY <2>5 DEF WriteReturn, PutcEntry, PutcPut, PutcRetry, PutcCheck, PutcSet, PutcKick,
                  PutcDone
    <2>6. CASE ReadMask \/ ReadGet \/ ReadStore \/ ReadReturn
      BY <2>6 DEF ReadMask, ReadGet, ReadStore, ReadReturn
    <2>7. ASSUME NEW c \in Controls, SetctlStore(c) PROVE Kept
      BY <2>7 DEF SetctlStore
    <2>8. CASE SetctlWait \/ GeterrLoad \/ GeterrClear
      BY <2>8 DEF SetctlWait, GeterrLoad, GeterrClear
    <2> QED
      BY <2>1, <2>2, <2>3, <2>4, <2>5, <2>6, <2>7, <2>8 DEF Next, DriverStep
  <1>2. RxInv /\ [Next]_vars => [Kept]_vars
    BY <1>1 DEF RxInv
  <1> QED
    BY <1>2, SpecRx, PTL DEF Spec, MaskKept
=============================================================================
