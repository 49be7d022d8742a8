------------------------------- MODULE Serio --------------------------------
(***************************************************************************)
(* The BIOS's interrupt-driven serial driver (bios/serio.asm) running on   *)
(* the serial chip: the interrupt handler UT_ISR, and a program that calls *)
(* UT_WRITE, UT_READ and UT_IOCTL with its interrupts masked or not.       *)
(*                                                                         *)
(* The chip ticks between any two instructions.  The CPU takes a pending   *)
(* IRQ before the next instruction whenever its mask allows, so an         *)
(* instruction of the program runs only when no interrupt is due.          *)
(* Instructions that touch neither the chip nor anything the handler       *)
(* shares are merged with their neighbours.  The rings SRXBUF and STXBUF   *)
(* are queues of at most SBUFSZ bytes (what module CircBuf implements).    *)
(*                                                                         *)
(* The driver never looks at a byte's value, so bytes are numbered: the    *)
(* program writes 1, 2, 3, ... and the host sends 1, 2, 3, ...             *)
(***************************************************************************)
EXTENDS UartR65C51

CONSTANTS
  SBUFSZ,   \* bytes a ring holds
  MaxTx,    \* bound: bytes the program writes
  MaxRx,    \* bound: bytes the host sends
  MaxLen,   \* bound: bytes in one UT_READ or UT_WRITE call
  MaxOther  \* bound: interrupts of other devices

ASSUME SerioAssumption ==
  /\ SBUFSZ \in Nat \ {0}
  /\ MaxTx \in Nat /\ MaxRx \in Nat /\ MaxLen \in Nat /\ MaxOther \in Nat

VARIABLES
  SRXBUF, STXBUF,  \* the receive and transmit rings, oldest byte first
  STXIE,           \* 1: transmitting
  SERR,            \* error flags accumulated by the handler
  TSTA,            \* the handler's copy of the status register
  isr,             \* where the handler is; "off" when not running
  I,               \* the CPU's IRQ mask
  foreign,         \* 1: another device holds the IRQ line
  nother,          \* how often another device has
  pc,              \* where the program is in the driver; "idle" outside
  regY,            \* bytes the call has left to move
  regA,            \* the byte UT_READ holds in A
  saved,           \* the mask pushed by the routine (UTR_MASKED too)
  callI,           \* history: the mask when the program called the driver
  ntx,             \* history: bytes accepted into STXBUF
  nrx,             \* history: bytes the host sent
  lastgot, ngot,   \* history: the last byte UT_READ delivered, and how many
  ndrop,           \* history: received bytes dropped
  lost,            \* history: kinds of loss since UT_IOC_GETERR last looked
  errs             \* the flags UT_IOC_GETERR has loaded into B

cpu   == <<I, isr, TSTA, foreign, nother>>
rings == <<SRXBUF, STXBUF, STXIE, SERR>>
prog  == <<pc, regY, regA, saved, callI, errs>>
hist  == <<ntx, nrx, lastgot, ngot, ndrop, lost>>
vars  == <<chip, cpu, rings, prog, hist>>

SUARTCMD == 9   \* receive IRQ enabled, transmit IRQ off
TXCMD    == 5   \* both enabled
Errors   == {"overrun", "rxfull"}

\* After UT_INIT: rings empty, the chip configured, interrupts allowed.
Init ==
  /\ command = SUARTCMD /\ control \in Controls
  /\ irq_flag = 0 /\ overrun = 0 /\ tdre = 1 /\ rdrf = 0 /\ rx_data = 0
  /\ tx_active = 0 /\ tx_shift_byte = 0 /\ rx_active = 0 /\ rx_shift_byte = 0
  /\ rx_pending = <<>> /\ tx_queue = <<>>
  /\ SRXBUF = <<>> /\ STXBUF = <<>> /\ STXIE = 0 /\ SERR = {}
  /\ TSTA = [irq |-> 0, tdre |-> 0, rdrf |-> 0]
  /\ isr = "off" /\ I = 0 /\ foreign = 0 /\ nother = 0
  /\ pc = "idle" /\ regY = 0 /\ regA = 0 /\ saved = 0 /\ callI = 0 /\ errs = {}
  /\ ntx = 0 /\ nrx = 0 /\ lastgot = 0 /\ ngot = 0 /\ ndrop = 0 /\ lost = {}

-----------------------------------------------------------------------------
(* The chip and the outside world. *)

ChipTick(txEnds, rxEnds) ==
  /\ Tick(txEnds, rxEnds)
  /\ IF RxOverruns(rxEnds)
     THEN ndrop' = ndrop + 1 /\ lost' = lost \union {"overrun"}
     ELSE UNCHANGED <<ndrop, lost>>
  /\ UNCHANGED <<cpu, rings, prog, ntx, nrx, lastgot, ngot>>

HostSends ==
  /\ nrx < MaxRx
  /\ rx_enqueue(nrx + 1)
  /\ nrx' = nrx + 1
  /\ UNCHANGED <<cpu, rings, prog, ntx, lastgot, ngot, ndrop, lost>>

ForeignIrq ==
  /\ foreign = 0 /\ nother < MaxOther
  /\ foreign' = 1 /\ nother' = nother + 1
  /\ UNCHANGED <<chip, I, isr, TSTA, rings, prog, hist>>

-----------------------------------------------------------------------------
(* UT_ISR.  The chip can tick between its accesses of the chip. *)

IrqDue == I = 0 /\ (irq_flag = 1 \/ foreign = 1)

\* Mutant: the handler takes a byte from UT_DAT without testing RDRF.
IsrEntryAlwaysRx ==
  /\ isr = "off" /\ IrqDue
  /\ ReadStatus
  /\ TSTA' = [irq |-> irq_flag, tdre |-> tdre, rdrf |-> rdrf]
  /\ SERR' = IF irq_flag = 1 /\ overrun = 1 THEN SERR \union {"overrun"} ELSE SERR
  /\ isr' = IF irq_flag = 0 THEN "chain" ELSE "rx"
  /\ I' = 1
  /\ UNCHANGED <<foreign, nother, SRXBUF, STXBUF, STXIE, prog, hist>>

\* The CPU enters the handler, which reads the status once.
IsrEntry ==
  /\ isr = "off" /\ IrqDue
  /\ ReadStatus
  /\ TSTA' = [irq |-> irq_flag, tdre |-> tdre, rdrf |-> rdrf]
  /\ SERR' = IF irq_flag = 1 /\ overrun = 1 THEN SERR \union {"overrun"} ELSE SERR
  /\ isr' = IF irq_flag = 0 THEN "chain"
            ELSE IF rdrf = 1 THEN "rx"
            ELSE IF tdre = 1 THEN "tx" ELSE "rti"
  /\ I' = 1
  /\ UNCHANGED <<foreign, nother, SRXBUF, STXBUF, STXIE, prog, hist>>

\* NOT_UART: the handler installed before serves the other device.
IsrChain ==
  /\ isr = "chain"
  /\ foreign' = 0 /\ isr' = "rti"
  /\ UNCHANGED <<chip, I, TSTA, nother, rings, prog, hist>>

\* Mutant: after a received byte the handler goes on to HANDL_TX untested.
IsrRxThenTx ==
  /\ isr = "rx"
  /\ ReadData
  /\ IF Len(SRXBUF) < SBUFSZ
     THEN SRXBUF' = Append(SRXBUF, rx_data) /\ UNCHANGED <<SERR, ndrop, lost>>
     ELSE /\ SERR' = SERR \union {"rxfull"}
          /\ ndrop' = ndrop + 1 /\ lost' = lost \union {"rxfull"}
          /\ UNCHANGED SRXBUF
  /\ isr' = "tx"
  /\ UNCHANGED <<I, TSTA, foreign, nother, STXBUF, STXIE, prog, ntx, nrx, lastgot, ngot>>

\* HANDL_RX: the byte is taken whatever room there is; a full ring drops it.
IsrRx ==
  /\ isr = "rx"
  /\ ReadData
  /\ IF Len(SRXBUF) < SBUFSZ
     THEN SRXBUF' = Append(SRXBUF, rx_data) /\ UNCHANGED <<SERR, ndrop, lost>>
     ELSE /\ SERR' = SERR \union {"rxfull"}
          /\ ndrop' = ndrop + 1 /\ lost' = lost \union {"rxfull"}
          /\ UNCHANGED SRXBUF
  /\ isr' = IF TSTA.tdre = 1 THEN "tx" ELSE "rti"
  /\ UNCHANGED <<I, TSTA, foreign, nother, STXBUF, STXIE, prog, ntx, nrx, lastgot, ngot>>

\* HANDL_TX: the next byte to the chip, or TX_END's first half.
IsrTx ==
  /\ isr = "tx"
  /\ \/ /\ STXBUF # <<>>
        /\ WriteData(Head(STXBUF))
        /\ STXBUF' = Tail(STXBUF)
        /\ isr' = "rti"
     \/ /\ STXBUF = <<>>
        /\ WriteCommand(SUARTCMD)
        /\ isr' = "txend"
        /\ UNCHANGED STXBUF
  /\ UNCHANGED <<I, TSTA, foreign, nother, SRXBUF, STXIE, SERR, prog, hist>>

\* Mutant: TX_END leaves STXIE set.
TxEndKeepsFlag ==
  /\ isr = "txend"
  /\ isr' = "rti"
  /\ UNCHANGED <<chip, I, TSTA, foreign, nother, rings, prog, hist>>

IsrTxEnd ==
  /\ isr = "txend"
  /\ STXIE' = 0 /\ isr' = "rti"
  /\ UNCHANGED <<chip, I, TSTA, foreign, nother, SRXBUF, STXBUF, SERR, prog, hist>>

IsrRti ==
  /\ isr = "rti"
  /\ isr' = "off" /\ I' = 0
  /\ UNCHANGED <<chip, TSTA, foreign, nother, rings, prog, hist>>

IsrStep == IsrEntry \/ IsrChain \/ IsrRx \/ IsrTx \/ IsrTxEnd \/ IsrRti
-----------------------------------------------------------------------------
(* The program.  At(p) is an instruction boundary at p with no IRQ due. *)

At(p) == pc = p /\ isr = "off" /\ ~IrqDue

\* The program masks or unmasks interrupts between its calls.
ProgramMask ==
  /\ At("idle") /\ I = 0 /\ I' = 1
  /\ UNCHANGED <<chip, isr, TSTA, foreign, nother, rings, prog, hist>>

ProgramUnmask ==
  /\ At("idle") /\ I = 1 /\ I' = 0
  /\ UNCHANGED <<chip, isr, TSTA, foreign, nother, rings, prog, hist>>

\* UT_WRITE (and UT_PUTS, which calls it): n bytes.
WriteCall(n) ==
  /\ At("idle") /\ ntx + n <= MaxTx
  /\ pc' = "w_loop" /\ regY' = n /\ callI' = I
  /\ UNCHANGED <<chip, cpu, rings, regA, saved, errs, hist>>

WriteReturn ==
  /\ At("w_loop") /\ regY = 0
  /\ pc' = "idle"
  /\ UNCHANGED <<chip, cpu, rings, regY, regA, saved, callI, errs, hist>>

\* UT_PUTC1: push CC, mask.
PutcEntry ==
  /\ At("w_loop") /\ regY > 0
  /\ saved' = I /\ I' = 1 /\ pc' = "p_put"
  /\ UNCHANGED <<chip, isr, TSTA, foreign, nother, rings, regY, regA, callI, errs, hist>>

\* Mutant: the byte is stored whether or not there is room.
PutcPutUnchecked ==
  /\ At("p_put")
  /\ STXBUF' = Append(STXBUF, ntx + 1) /\ ntx' = ntx + 1
  /\ pc' = "p_chk"
  /\ UNCHANGED <<chip, cpu, SRXBUF, STXIE, SERR, regY, regA,
                 saved, callI, errs, nrx, lastgot, ngot, ndrop, lost>>

\* CBUF_PUT; without room the mask is lifted, so that the handler can run.
PutcPut ==
  /\ At("p_put")
  /\ \/ /\ Len(STXBUF) < SBUFSZ
        /\ STXBUF' = Append(STXBUF, ntx + 1) /\ ntx' = ntx + 1
        /\ pc' = "p_chk"
        /\ UNCHANGED I
     \/ /\ Len(STXBUF) >= SBUFSZ
        /\ I' = 0 /\ pc' = "p_wait"
        /\ UNCHANGED <<STXBUF, ntx>>
  /\ UNCHANGED <<chip, isr, TSTA, foreign, nother, SRXBUF, STXIE, SERR, regY, regA,
                 saved, callI, errs, nrx, lastgot, ngot, ndrop, lost>>

PutcRetry ==
  /\ At("p_wait")
  /\ I' = 1 /\ pc' = "p_put"
  /\ UNCHANGED <<chip, isr, TSTA, foreign, nother, rings, regY, regA, saved, callI, errs, hist>>

PutcCheck ==
  /\ At("p_chk")
  /\ pc' = IF STXIE = 1 THEN "p_done" ELSE "p_set"
  /\ UNCHANGED <<chip, cpu, rings, regY, regA, saved, callI, errs, hist>>

PutcSet ==
  /\ At("p_set")
  /\ STXIE' = 1 /\ pc' = "p_cmd"
  /\ UNCHANGED <<chip, cpu, SRXBUF, STXBUF, SERR, regY, regA, saved, callI, errs, hist>>

\* Enabling the transmit interrupt on an idle chip raises it at once.
PutcKick ==
  /\ At("p_cmd")
  /\ WriteCommand(TXCMD)
  /\ pc' = "p_done"
  /\ UNCHANGED <<cpu, rings, regY, regA, saved, callI, errs, hist>>

PutcDone ==
  /\ At("p_done")
  /\ I' = saved /\ regY' = regY - 1 /\ pc' = "w_loop"
  /\ UNCHANGED <<chip, isr, TSTA, foreign, nother, rings, regA, saved, callI, errs, hist>>

-----------------------------------------------------------------------------
\* UT_READ (and UT_GETC, which asks for one byte): at most n bytes.
ReadCall(n) ==
  /\ At("idle")
  /\ pc' = "r_loop" /\ regY' = n /\ saved' = I /\ callI' = I
  /\ UNCHANGED <<chip, cpu, rings, regA, errs, hist>>

ReadMask ==
  /\ At("r_loop") /\ regY > 0
  /\ I' = 1 /\ pc' = "r_get"
  /\ UNCHANGED <<chip, isr, TSTA, foreign, nother, rings, regY, regA, saved, callI, errs, hist>>

\* Mutant: the mask is lifted for every caller (no UTR_MASKED).
ReadGetUnmasks ==
  /\ At("r_get")
  /\ SRXBUF # <<>>
  /\ regA' = Head(SRXBUF) /\ SRXBUF' = Tail(SRXBUF) /\ pc' = "r_put"
  /\ I' = 0
  /\ UNCHANGED <<chip, isr, TSTA, foreign, nother, STXBUF, STXIE, SERR, regY, saved,
                 callI, errs, hist>>

\* CBUF_GET under the mask; an empty ring ends the call.
ReadGet ==
  /\ At("r_get")
  /\ I' = saved
  /\ \/ /\ SRXBUF # <<>>
        /\ regA' = Head(SRXBUF) /\ SRXBUF' = Tail(SRXBUF) /\ pc' = "r_put"
     \/ /\ SRXBUF = <<>>
        /\ pc' = "idle" /\ UNCHANGED <<regA, SRXBUF>>
  /\ UNCHANGED <<chip, isr, TSTA, foreign, nother, STXBUF, STXIE, SERR, regY, saved,
                 callI, errs, hist>>

ReadStore ==
  /\ At("r_put")
  /\ lastgot' = regA /\ ngot' = ngot + 1
  /\ regY' = regY - 1 /\ pc' = "r_loop"
  /\ UNCHANGED <<chip, cpu, rings, regA, saved, callI, errs, ntx, nrx, ndrop, lost>>

ReadReturn ==
  /\ At("r_loop") /\ regY = 0
  /\ pc' = "idle" /\ I' = saved
  /\ UNCHANGED <<chip, isr, TSTA, foreign, nother, rings, regY, regA, saved, callI, errs, hist>>

-----------------------------------------------------------------------------
\* Mutant: UT_IOC_SETCTL waits under the caller's mask.
SetctlCallMasked ==
  /\ At("idle")
  /\ saved' = I /\ callI' = I /\ pc' = "c_wait"
  /\ UNCHANGED <<chip, cpu, rings, regY, regA, errs, hist>>

\* UT_IOC_SETCTL: the mask is lifted, so that the transmitter can finish.
SetctlCall ==
  /\ At("idle")
  /\ saved' = I /\ callI' = I /\ I' = 0 /\ pc' = "c_wait"
  /\ UNCHANGED <<chip, isr, TSTA, foreign, nother, rings, regY, regA, errs, hist>>

\* Mutant: no wait for the transmitter.
SetctlNoWait ==
  /\ At("c_wait")
  /\ I' = saved /\ pc' = "c_ctl"
  /\ UNCHANGED <<chip, isr, TSTA, foreign, nother, rings, regY, regA, saved, callI, errs, hist>>

\* UTIOC_WAIT spins until STXIE is clear, then the mask is put back.
SetctlWait ==
  /\ At("c_wait") /\ STXIE = 0
  /\ I' = saved /\ pc' = "c_ctl"
  /\ UNCHANGED <<chip, isr, TSTA, foreign, nother, rings, regY, regA, saved, callI, errs, hist>>

SetctlStore(c) ==
  /\ At("c_ctl")
  /\ WriteControl(c)
  /\ pc' = "idle"
  /\ UNCHANGED <<cpu, rings, regY, regA, saved, callI, errs, hist>>

\* Mutant: UT_IOC_GETERR without its ORCC.
GeterrUnmasked ==
  /\ At("idle")
  /\ saved' = I /\ callI' = I /\ pc' = "g_ld"
  /\ UNCHANGED <<chip, I, isr, TSTA, foreign, nother, rings, regY, regA, errs, hist>>

\* UT_IOC_GETERR: read and clear under the mask.
GeterrCall ==
  /\ At("idle")
  /\ saved' = I /\ callI' = I /\ I' = 1 /\ pc' = "g_ld"
  /\ UNCHANGED <<chip, isr, TSTA, foreign, nother, rings, regY, regA, errs, hist>>

GeterrLoad ==
  /\ At("g_ld")
  /\ errs' = SERR /\ pc' = "g_clr"
  /\ UNCHANGED <<chip, cpu, rings, regY, regA, saved, callI, hist>>

\* The kinds of loss the flags report are no longer owed to the program.
GeterrClear ==
  /\ At("g_clr")
  /\ SERR' = {} /\ lost' = lost \ errs
  /\ I' = saved /\ pc' = "idle"
  /\ UNCHANGED <<chip, isr, TSTA, foreign, nother, SRXBUF, STXBUF, STXIE, regY, regA,
                 saved, callI, errs, ntx, nrx, lastgot, ngot, ndrop>>

-----------------------------------------------------------------------------
\* The calls a program may make next.
ProgramCall ==
  \/ \E n \in 0 .. MaxLen : WriteCall(n) \/ ReadCall(n)
  \/ SetctlCall \/ GeterrCall

\* The instructions of the driver once called.
DriverStep ==
  \/ WriteReturn \/ PutcEntry \/ PutcPut \/ PutcRetry \/ PutcCheck \/ PutcSet
  \/ PutcKick \/ PutcDone
  \/ ReadMask \/ ReadGet \/ ReadStore \/ ReadReturn
  \/ SetctlWait \/ (\E c \in Controls : SetctlStore(c))
  \/ GeterrLoad \/ GeterrClear

Next ==
  \/ \E txEnds, rxEnds \in BOOLEAN : ChipTick(txEnds, rxEnds)
  \/ HostSends \/ ForeignIrq
  \/ IsrStep
  \/ ProgramMask \/ ProgramUnmask \/ ProgramCall
  \/ DriverStep

(***************************************************************************)
(* The CPU keeps executing and characters on the wire keep ending; and a   *)
(* program that masks interrupts unmasks them again at some time.  Nobody  *)
(* has to call the driver, and the host has to send nothing.  (MaxOther    *)
(* keeps other devices from taking the CPU for good.)                      *)
(***************************************************************************)
Fairness ==
  /\ WF_vars(\E rxEnds \in BOOLEAN : ChipTick(TRUE, rxEnds))
  /\ WF_vars(IsrStep)
  /\ WF_vars(DriverStep)
  /\ SF_vars(ProgramUnmask)

Spec == Init /\ [][Next]_vars

FairSpec == Spec /\ Fairness

-----------------------------------------------------------------------------
TypeOK ==
  /\ ChipTypeOK /\ command \in {SUARTCMD, TXCMD}
  /\ SRXBUF \in Seq(Nat) /\ Len(SRXBUF) <= SBUFSZ
  /\ STXBUF \in Seq(Nat) /\ Len(STXBUF) <= SBUFSZ
  /\ STXIE \in Bit /\ SERR \subseteq Errors
  /\ TSTA \in [irq : Bit, tdre : Bit, rdrf : Bit]
  /\ isr \in {"off", "chain", "rx", "tx", "txend", "rti"}
  /\ I \in Bit /\ foreign \in Bit /\ nother \in Nat
  /\ pc \in {"idle", "w_loop", "p_put", "p_wait", "p_chk", "p_set", "p_cmd",
             "p_done", "r_loop", "r_get", "r_put", "c_wait", "c_ctl", "g_ld", "g_clr"}
  /\ regY \in Nat /\ regA \in Nat /\ saved \in Bit /\ callI \in Bit
  /\ errs \subseteq Errors /\ lost \subseteq Errors
  /\ ntx \in Nat /\ nrx \in Nat /\ lastgot \in Nat /\ ngot \in Nat /\ ndrop \in Nat

(***************************************************************************)
(* Every byte UT_PUTC1 accepted is on the wire, in the chip or in STXBUF,  *)
(* once, in the order written: none is lost, doubled or overtaken between  *)
(* the program, the handler and the chip.                                  *)
(***************************************************************************)
TxInOrder ==
  /\ ntx = Len(tx_queue) + tx_active + Len(STXBUF)
  /\ \A i \in 1 .. Len(tx_queue) : tx_queue[i] = i
  /\ tx_active = 1 => tx_shift_byte = Len(tx_queue) + 1
  /\ \A i \in 1 .. Len(STXBUF) : STXBUF[i] = Len(tx_queue) + tx_active + i

\* The handler has seen TDRE set and will come to HANDL_TX.
IsrWillSend == isr = "tx" \/ (isr = "rx" /\ TSTA.tdre = 1)

(***************************************************************************)
(* No lost wakeup: while bytes wait in STXBUF the transmitter is marked    *)
(* busy, except where UT_PUTC1 is about to mark it; and while it is marked *)
(* busy a transmit interrupt is enabled and on its way.  The old loader's  *)
(* hang (serio.asm's header) is the negation of this.                      *)
(***************************************************************************)
TxArmed ==
  /\ STXBUF # <<>> => STXIE = 1 \/ pc \in {"p_chk", "p_set"}
  /\ STXIE = 1 /\ pc # "p_cmd" /\ isr # "txend" =>
       /\ command = TXCMD
       /\ tx_active = 1 \/ irq_flag = 1 \/ IsrWillSend
  /\ STXIE = 0 => tx_active = 0

(***************************************************************************)
(* A byte being sent is never replaced (the chip would let it be): UT_DAT  *)
(* is written only when nothing is on the wire.                            *)
(***************************************************************************)
NeverOverwritten ==
  [][tx_active = 1 /\ tx_active' = 1 => tx_shift_byte' = tx_shift_byte]_vars

(***************************************************************************)
(* UT_IOC_SETCTL changes the baud rate only while nothing is being sent.   *)
(***************************************************************************)
BaudChangeSafe == [][control' # control => tx_active = 0]_vars

\* What the host sent and the program has not got yet, oldest first.
RxPipe ==
  (IF pc = "r_put" THEN <<regA>> ELSE <<>>) \o SRXBUF
    \o (IF rdrf = 1 THEN <<rx_data>> ELSE <<>>)
    \o (IF rx_active = 1 THEN <<rx_shift_byte>> ELSE <<>>) \o rx_pending

(***************************************************************************)
(* Every byte the host sent was delivered by UT_READ, dropped (an overrun  *)
(* of the chip, or a full SRXBUF), or is still on its way, and the program *)
(* receives the survivors in the order sent.                               *)
(***************************************************************************)
RxAccounted ==
  /\ nrx = ngot + ndrop + Len(RxPipe)
  /\ \A i \in 1 .. Len(RxPipe) : lastgot < RxPipe[i]
  /\ \A i, j \in 1 .. Len(RxPipe) : i < j => RxPipe[i] < RxPipe[j]

(***************************************************************************)
(* A byte dropped because SRXBUF was full is in SERR until the program     *)
(* asks with UT_IOC_GETERR: the read-and-clear does not race the handler.  *)
(***************************************************************************)
RxFullReported == "rxfull" \in lost => "rxfull" \in SERR

(***************************************************************************)
(* A byte the chip dropped on an overrun is remembered until the next      *)
(* UT_IOC_GETERR, as UT_ISR's comment says: in SERR, or still in the chip. *)
(***************************************************************************)
OverrunReported == "overrun" \in lost => "overrun" \in SERR \/ overrun = 1

(***************************************************************************)
(* UT_READ and UT_IOC_GETERR never let an interrupt into a caller that     *)
(* masked it, and every call returns with the mask the caller had.         *)
(***************************************************************************)
MaskKept ==
  [][/\ pc \in {"r_loop", "r_get", "r_put", "g_ld", "g_clr"} /\ callI = 1 => I' = 1
     /\ pc # "idle" /\ pc' = "idle" => I' = callI]_vars

(***************************************************************************)
(* Every byte the driver accepted reaches the wire: again and again there  *)
(* is none left.  (The program writes MaxTx bytes at most, so that         *)
(* whatever is left when it has written the last has to go out.)           *)
(***************************************************************************)
AllSent == []<>(Len(tx_queue) = ntx)

(***************************************************************************)
(* No call of the driver hangs: not UT_PUTC1 waiting for room, and not     *)
(* UT_IOC_SETCTL waiting for the transmitter, even for a caller that has   *)
(* interrupts masked.                                                      *)
(***************************************************************************)
CallsReturn == (pc # "idle") ~> (pc = "idle")

=============================================================================
