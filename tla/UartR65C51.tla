----------------------------- MODULE UartR65C51 -----------------------------
(***************************************************************************)
(* The R65C51 serial chip of the emulator (uart_r65c51.cpp).  One action   *)
(* per register access and host call; modules that compose the chip with a *)
(* driver conjoin these actions with their own.                            *)
(*                                                                         *)
(* Character times are abstracted: a character on the wire completes in    *)
(* some later tick.  (An unsupported baud rate makes that tick very late,  *)
(* not absent.)  The framing and parity flags are never set by the code,   *)
(* and the modem lines only appear in status bits no driver reads, so they *)
(* are left out, as are the two resets.  Bits are 0 or 1.                  *)
(***************************************************************************)
EXTENDS Naturals, Sequences

CONSTANTS
  RX_LIMIT,     \* rx_pending_ refuses bytes beyond this many (65536)
  Controls      \* values of the control register; changes only timing

ASSUME UartAssumption == RX_LIMIT \in Nat \ {0}

VARIABLES
  command, control,          \* the two write registers
  irq_flag,                  \* status bit 7, the interrupt line
  overrun, tdre, rdrf,       \* status bits 2, 4, 3
  rx_data,                   \* the receiver data register
  tx_active, tx_shift_byte,  \* the character being sent
  rx_active, rx_shift_byte,  \* the character being received
  rx_pending,                \* host bytes not yet on the wire
  tx_queue                   \* characters sent, for the host

chip == <<command, control, irq_flag, overrun, tdre, rdrf, rx_data, tx_active,
          tx_shift_byte, rx_active, rx_shift_byte, rx_pending, tx_queue>>

Bit == {0, 1}

-----------------------------------------------------------------------------
\* The fields of the command register.
DTR == command % 2 = 1
tx_irq_enabled(c) == c % 2 = 1 /\ (c \div 4) % 4 = 1
rx_irq_enabled(c) == c % 2 = 1 /\ (c \div 2) % 2 = 0

-----------------------------------------------------------------------------
(* Register accesses. *)

\* The byte read is rx_data.
ReadData ==
  /\ rdrf' = 0 /\ overrun' = 0
  /\ UNCHANGED <<command, control, irq_flag, tdre, rx_data, tx_active,
                 tx_shift_byte, rx_active, rx_shift_byte, rx_pending, tx_queue>>

\* The bits read are those before the access.
ReadStatus ==
  /\ irq_flag' = 0
  /\ UNCHANGED <<command, control, overrun, tdre, rdrf, rx_data, tx_active,
                 tx_shift_byte, rx_active, rx_shift_byte, rx_pending, tx_queue>>

\* Accepts a byte at any time: one still being sent is replaced.
WriteData(b) ==
  /\ tx_shift_byte' = b /\ tx_active' = 1 /\ tdre' = 0
  /\ UNCHANGED <<command, control, irq_flag, overrun, rdrf, rx_data,
                 rx_active, rx_shift_byte, rx_pending, tx_queue>>

\* Mutant: only a later event can raise an interrupt just enabled.
WriteCommandNoLatch(c) ==
  /\ command' = c
  /\ UNCHANGED <<control, irq_flag, overrun, tdre, rdrf, rx_data, tx_active,
                 tx_shift_byte, rx_active, rx_shift_byte, rx_pending, tx_queue>>

\* A condition that already holds interrupts as soon as it is enabled.
WriteCommand(c) ==
  /\ command' = c
  /\ irq_flag' = IF \/ tdre = 1 /\ tx_irq_enabled(c)
                    \/ rdrf = 1 /\ rx_irq_enabled(c)
                 THEN 1 ELSE irq_flag
  /\ UNCHANGED <<control, overrun, tdre, rdrf, rx_data, tx_active,
                 tx_shift_byte, rx_active, rx_shift_byte, rx_pending, tx_queue>>

WriteControl(c) ==
  /\ control' = c
  /\ UNCHANGED <<command, irq_flag, overrun, tdre, rdrf, rx_data, tx_active,
                 tx_shift_byte, rx_active, rx_shift_byte, rx_pending, tx_queue>>

-----------------------------------------------------------------------------
(* Time.  tick(): txEnds and rxEnds say whether the character being sent,  *)
(* and the one being received, end in this tick.                           *)

\* A new character starts on the receive side only under DTR.
RxStarts == rx_active = 0 /\ rx_pending # <<>> /\ DTR

\* The character ending now finds the data register still full.
RxOverruns(rxEnds) == rxEnds /\ rdrf = 1

Tick(txEnds, rxEnds) ==
  /\ txEnds => tx_active = 1
  /\ rxEnds => rx_active = 1 \/ RxStarts
  /\ IF txEnds
     THEN tx_active' = 0 /\ tdre' = 1 /\ tx_queue' = Append(tx_queue, tx_shift_byte)
     ELSE UNCHANGED <<tx_active, tdre, tx_queue>>
  /\ IF RxStarts
     THEN rx_shift_byte' = Head(rx_pending) /\ rx_pending' = Tail(rx_pending)
     ELSE UNCHANGED <<rx_shift_byte, rx_pending>>
  /\ rx_active' = IF rxEnds THEN 0 ELSE IF RxStarts THEN 1 ELSE rx_active
  /\ IF rxEnds /\ rdrf = 0
     THEN rx_data' = rx_shift_byte' /\ rdrf' = 1
     ELSE UNCHANGED <<rx_data, rdrf>>
  /\ overrun' = IF RxOverruns(rxEnds) THEN 1 ELSE overrun
  /\ irq_flag' = IF \/ txEnds /\ tx_irq_enabled(command)
                    \/ rxEnds /\ rdrf = 0 /\ rx_irq_enabled(command)
                 THEN 1 ELSE irq_flag
  /\ UNCHANGED <<command, control, tx_shift_byte>>

-----------------------------------------------------------------------------
(* The host's side. *)

rx_enqueue(b) ==
  /\ Len(rx_pending) < RX_LIMIT
  /\ rx_pending' = Append(rx_pending, b)
  /\ UNCHANGED <<command, control, irq_flag, overrun, tdre, rdrf, rx_data,
                 tx_active, tx_shift_byte, rx_active, rx_shift_byte, tx_queue>>

-----------------------------------------------------------------------------
ChipTypeOK ==
  /\ command \in Nat /\ control \in Controls
  /\ irq_flag \in Bit /\ overrun \in Bit /\ tdre \in Bit /\ rdrf \in Bit
  /\ rx_data \in Nat
  /\ tx_active \in Bit /\ tx_shift_byte \in Nat
  /\ rx_active \in Bit /\ rx_shift_byte \in Nat
  /\ rx_pending \in Seq(Nat)
  /\ tx_queue \in Seq(Nat)

=============================================================================
