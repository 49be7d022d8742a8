---------------------------- MODULE SdCardDevice ----------------------------
(***************************************************************************)
(* The block device of the emulator (sdcard_device.cpp), backed by a disk  *)
(* image: registers for a block number, a data port into a block buffer,   *)
(* and commands.  One action per register access; module SdBlock conjoins  *)
(* them with the BIOS driver's instructions.                               *)
(*                                                                         *)
(* A command may fail for a reason outside the model (the fault hooks, the *)
(* host's file system), as its parameter "fault" says:                     *)
(*   "no"       it does not                                                *)
(*   "nothing"  it reports an error and did nothing                        *)
(*   "io"       the transfer failed: a read leaves zeros in the buffer, a  *)
(*              write left the image as it was                             *)
(*   "late"     the write is in the image and is reported as failed        *)
(***************************************************************************)
EXTENDS Naturals, Sequences

CONSTANTS
  kBlockSize,  \* bytes in a block
  Word,        \* values of a 16-bit register
  Blocks       \* blocks in the image at first

ASSUME CardAssumption ==
  /\ kBlockSize \in Nat \ {0} /\ Word \in Nat \ {0} /\ Blocks \in Nat

VARIABLES
  image,         \* the disk image, a sequence of blocks
  lba, lba_hi,   \* the block number's low word, and its latched high word
  buffer,        \* the block buffer, read and written at the data port ...
  cursor,        \* ... here
  last_error,    \* status bit 2
  card_present,  \* status bit 1
  stuck_busy     \* status bit 0: the card hangs

card == <<image, lba, lba_hi, buffer, cursor, last_error, card_present, stuck_busy>>

Words == 0 .. Word - 1
Block == [1 .. kBlockSize -> Nat]
Zeros == [i \in 1 .. kBlockSize |-> 0]
Faults == {"no", "nothing", "io", "late"}

\* The block a command is about, as an index into the image.
Addressed == lba_hi * Word + lba + 1

Reset ==
  /\ lba' = 0 /\ lba_hi' = 0 /\ cursor' = 1 /\ buffer' = Zeros
  /\ UNCHANGED <<image, last_error, card_present, stuck_busy>>

-----------------------------------------------------------------------------
(* Register accesses. *)

\* The data port's cursor moves on and stays at the last byte.
Advance == cursor' = IF cursor < kBlockSize THEN cursor + 1 ELSE cursor

\* The status byte.
Status == [busy |-> stuck_busy, card |-> card_present, error |-> last_error]

\* The byte read is buffer[cursor].
ReadData ==
  /\ Advance
  /\ UNCHANGED <<image, lba, lba_hi, buffer, last_error, card_present, stuck_busy>>

WriteData(b) ==
  /\ buffer' = [buffer EXCEPT ![cursor] = b]
  /\ Advance
  /\ UNCHANGED <<image, lba, lba_hi, last_error, card_present, stuck_busy>>

\* Both bytes of SD_LBA.
WriteLba(w) ==
  /\ lba' = w /\ cursor' = 1
  /\ UNCHANGED <<image, lba_hi, buffer, last_error, card_present, stuck_busy>>

SetHi ==
  /\ lba_hi' = lba /\ cursor' = 1 /\ last_error' = FALSE
  /\ UNCHANGED <<image, lba, buffer, card_present, stuck_busy>>

\* What the command's end has in common: a command without a card fails.
Ends(failed) ==
  /\ last_error' = failed
  /\ cursor' = 1
  /\ UNCHANGED <<lba, lba_hi, card_present, stuck_busy>>

\* A block past the image's end cannot be read.
ReadCommand(fault) ==
  \/ /\ ~card_present \/ fault = "nothing"
     /\ Ends(TRUE) /\ UNCHANGED <<image, buffer>>
  \/ /\ card_present /\ fault \in {"no", "io"}
     /\ LET failed == fault = "io" \/ Addressed > Len(image)
        IN /\ buffer' = IF failed THEN Zeros ELSE image[Addressed]
           /\ Ends(failed)
     /\ UNCHANGED image

\* A block past the image's end makes it longer.
Written ==
  [i \in 1 .. IF Addressed > Len(image) THEN Addressed ELSE Len(image) |->
     IF i = Addressed THEN buffer ELSE IF i <= Len(image) THEN image[i] ELSE Zeros]

WriteCommand(fault) ==
  /\ \/ /\ ~card_present \/ fault \in {"nothing", "io"}
        /\ Ends(TRUE) /\ UNCHANGED image
     \/ /\ card_present /\ fault \in {"no", "late"}
        /\ image' = Written /\ Ends(fault = "late")
  /\ UNCHANGED buffer

-----------------------------------------------------------------------------
(* The card is pulled out or put back; it hangs or comes back. *)
set_card_present(p) ==
  /\ card_present # p /\ card_present' = p
  /\ UNCHANGED <<image, lba, lba_hi, buffer, cursor, last_error, stuck_busy>>

set_stuck_busy(s) ==
  /\ stuck_busy # s /\ stuck_busy' = s
  /\ UNCHANGED <<image, lba, lba_hi, buffer, cursor, last_error, card_present>>

CardTypeOK ==
  /\ image \in Seq(Block)
  /\ lba \in Words /\ lba_hi \in Words
  /\ buffer \in Block /\ cursor \in 1 .. kBlockSize
  /\ last_error \in BOOLEAN /\ card_present \in BOOLEAN /\ stuck_busy \in BOOLEAN

=============================================================================
