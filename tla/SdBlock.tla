------------------------------ MODULE SdBlock -------------------------------
(***************************************************************************)
(* The BIOS's block driver (bios/sdcard.asm) on the block device: the      *)
(* calls BIOS_BLK_READ32 and BIOS_BLK_WRITE32 (their 16-bit forms are      *)
(* those with high word 0), one step per access to the device, with a card *)
(* that fails, hangs, or is pulled out and put back between any two.       *)
(*                                                                         *)
(* The caller's 512 bytes are "ram", at address "at" of a small address    *)
(* space whose top belongs to the ROM and the hardware registers.          *)
(***************************************************************************)
EXTENDS SdCardDevice

CONSTANTS
  SD_TRIES,    \* attempts at a command
  SD_TIMEOUT,  \* polls of BUSY
  AddrSpace,   \* addresses: 0 .. AddrSpace-1
  EXE_MAXTOP,  \* the first address of the ROM
  Patterns     \* bound: different blocks the program writes

ASSUME DriverAssumption ==
  /\ SD_TRIES \in Nat \ {0} /\ SD_TIMEOUT \in Nat \ {0}
  /\ AddrSpace \in Nat /\ EXE_MAXTOP \in 0 .. AddrSpace - 1
  /\ Patterns \in Nat

VARIABLES
  pc,      \* where the call is; "idle" between calls
  call,    \* "read" or "write"
  hi, lo,  \* the block asked for
  at,      \* the buffer's address
  ram,     \* the buffer's bytes
  regX,    \* bytes of the block moved so far
  regB,    \* tries left
  regW,    \* polls left
  result   \* what the last call returned

regs == <<regX, regB, regW, result>>
args == <<call, hi, lo, at>>
vars == <<card, pc, args, ram, regs>>

Goto(p) == pc' = p
Wanted == hi * Word + lo + 1

\* What the program writes: no byte of one block is like any other byte.
Data == {[i \in 1 .. kBlockSize |-> n * kBlockSize + i] : n \in 0 .. Patterns - 1}

-----------------------------------------------------------------------------
\* Mutant: an end address that wraps around is not noticed.
ChkbufWraps(y) == (y + kBlockSize - 1) % AddrSpace < EXE_MAXTOP

\* BLK_CHKBUF: the whole buffer is below the ROM.
BLK_CHKBUF(y) ==
  /\ y + kBlockSize - 1 < AddrSpace
  /\ (y + kBlockSize - 1) % AddrSpace < EXE_MAXTOP

Call(c, h, l, y, data) ==
  /\ pc = "idle"
  /\ call' = c /\ hi' = h /\ lo' = l /\ at' = y
  /\ ram' = data
  /\ IF BLK_CHKBUF(y)
     THEN Goto(IF c = "read" THEN "hi" ELSE "wr_card") /\ UNCHANGED result
     ELSE Goto("ret") /\ result' = "BADPARAM"
  /\ UNCHANGED <<card, regX, regB, regW>>

BIOS_BLK_READ32(h, l, y) == Call("read", h, l, y, Zeros)
BIOS_BLK_WRITE32(h, l, y, data) == Call("write", h, l, y, data)

Fail(code) == Goto("ret") /\ result' = code

\* SD_WRITE_BLOCK32 looks for a card before it does anything else.
WriteChecksCard ==
  /\ pc = "wr_card"
  /\ UNCHANGED card
  /\ IF Status.card THEN Goto("hi") /\ UNCHANGED result ELSE Fail("NOCARD")
  /\ UNCHANGED <<args, ram, regX, regB, regW>>

StoreHi ==
  /\ pc = "hi"
  /\ WriteLba(hi)
  /\ Goto("sethi")
  /\ UNCHANGED <<args, ram, regs>>

\* Mutant: the high word is not latched.
LatchNothing ==
  /\ pc = "sethi"
  /\ Goto("lo")
  /\ UNCHANGED <<card, args, ram, regs>>

LatchHi ==
  /\ pc = "sethi"
  /\ SetHi
  /\ Goto("lo")
  /\ UNCHANGED <<args, ram, regs>>

StoreLo ==
  /\ pc = "lo"
  /\ WriteLba(lo)
  /\ regB' = SD_TRIES /\ regX' = 0
  /\ Goto(IF call = "read" THEN "rd_try" ELSE "wr_loop")
  /\ UNCHANGED <<args, ram, regW, result>>

-----------------------------------------------------------------------------
(* SD_READ_BLOCK32 *)

\* SDRD_TRY
ReadTry ==
  /\ pc = "rd_try"
  /\ \E fault \in Faults : ReadCommand(fault)
  /\ regW' = SD_TIMEOUT
  /\ Goto("wait")
  /\ UNCHANGED <<args, ram, regX, regB, result>>

\* SDRD_LOOP
ReadLoop ==
  /\ pc = "rd_loop"
  /\ IF regX < kBlockSize
     THEN /\ ReadData
          /\ ram' = [ram EXCEPT ![regX + 1] = buffer[cursor]]
          /\ regX' = regX + 1 /\ UNCHANGED <<pc, result>>
     ELSE /\ Goto("ret") /\ result' = "OK" /\ UNCHANGED <<card, ram, regX>>
  /\ UNCHANGED <<args, regB, regW>>

(* SD_WRITE_BLOCK32 *)

\* SDWR_TRY, SDWR_LOOP: the caller's bytes go to the device, then the command.
WriteLoop ==
  /\ pc = "wr_loop"
  /\ IF regX < kBlockSize
     THEN /\ WriteData(ram[regX + 1])
          /\ regX' = regX + 1 /\ UNCHANGED <<pc, regW>>
     ELSE /\ \E fault \in Faults : WriteCommand(fault)
          /\ regX' = 0 /\ regW' = SD_TIMEOUT /\ Goto("wait")
  /\ UNCHANGED <<args, ram, regB, result>>

-----------------------------------------------------------------------------
\* SDRD_CARD, SDWR_IDLE: the command failed.
Retry == IF regB > 1 THEN regB' = regB - 1 /\ UNCHANGED result
                          /\ Goto(IF call = "read" THEN "rd_try" ELSE "wr_loop")
                     ELSE Fail("IOERR") /\ UNCHANGED regB

\* Mutant: the polls are not counted.
WaitForever ==
  /\ pc = "wait"
  /\ UNCHANGED card
  /\ \/ Status.busy /\ UNCHANGED <<pc, regW, regB, result>>
     \/ /\ ~Status.busy /\ UNCHANGED regW
        /\ \/ call = "read" /\ ~Status.card /\ Fail("NOCARD") /\ UNCHANGED regB
           \/ /\ call = "write" \/ Status.card
              /\ IF Status.error THEN Retry
                 ELSE /\ IF call = "read" THEN Goto("rd_loop") /\ UNCHANGED result
                         ELSE Goto("ret") /\ result' = "OK"
                      /\ UNCHANGED regB
  /\ UNCHANGED <<args, ram, regX>>

\* Mutant: a read takes the buffer whatever the status says of an error.
WaitIgnoresError ==
  /\ pc = "wait"
  /\ UNCHANGED card
  /\ \/ /\ Status.busy /\ regW' = regW - 1 /\ UNCHANGED regB
        /\ IF regW = 1 THEN Fail("TIMEOUT") ELSE UNCHANGED <<pc, result>>
     \/ /\ ~Status.busy /\ UNCHANGED <<regW, regB>>
        /\ IF call = "read" THEN Goto("rd_loop") /\ UNCHANGED result
           ELSE Goto("ret") /\ result' = "OK"
  /\ UNCHANGED <<args, ram, regX>>

\* SDRD_WAIT, SDWR_WAIT.  Only a read looks at the CARD bit again.
Wait ==
  /\ pc = "wait"
  /\ UNCHANGED card
  /\ \/ /\ Status.busy
        /\ regW' = regW - 1 /\ UNCHANGED regB
        /\ IF regW = 1 THEN Fail("TIMEOUT") ELSE UNCHANGED <<pc, result>>
     \/ /\ ~Status.busy /\ UNCHANGED regW
        /\ \/ call = "read" /\ ~Status.card /\ Fail("NOCARD") /\ UNCHANGED regB
           \/ /\ call = "write" \/ Status.card
              /\ IF Status.error THEN Retry
                 ELSE /\ IF call = "read" THEN Goto("rd_loop") /\ UNCHANGED result
                         ELSE Goto("ret") /\ result' = "OK"
                      /\ UNCHANGED regB
  /\ UNCHANGED <<args, ram, regX>>

\* Nothing of a call is left once it has returned.
NoCall ==
  /\ pc' = "idle" /\ call' = "read" /\ hi' = 0 /\ lo' = 0 /\ at' = 0
  /\ ram' = Zeros /\ regX' = 0 /\ regB' = 0 /\ regW' = 0
  /\ result' = "none"

\* The caller has its answer.
Return ==
  /\ pc = "ret"
  /\ NoCall
  /\ UNCHANGED card

\* The machine is reset: the CPU and the device start over.
MachineReset ==
  /\ Reset
  /\ NoCall

-----------------------------------------------------------------------------
Init ==
  /\ image = [i \in 1 .. Blocks |-> Zeros]
  /\ lba = 0 /\ lba_hi = 0 /\ buffer = Zeros /\ cursor = 1
  /\ last_error = FALSE /\ card_present \in BOOLEAN /\ stuck_busy = FALSE
  /\ pc = "idle" /\ call = "read" /\ hi = 0 /\ lo = 0 /\ at = 0
  /\ ram = Zeros /\ regX = 0 /\ regB = 0 /\ regW = 0
  /\ result = "none"

Program == \E h, l \in Words, y \in 0 .. AddrSpace - 1 :
  \/ BIOS_BLK_READ32(h, l, y)
  \/ \E data \in Data : BIOS_BLK_WRITE32(h, l, y, data)

Driver ==
  \/ WriteChecksCard \/ StoreHi \/ LatchHi \/ StoreLo
  \/ ReadTry \/ ReadLoop \/ WriteLoop \/ Wait \/ Return

Environment ==
  /\ \E b \in BOOLEAN : set_card_present(b) \/ set_stuck_busy(b)
  /\ UNCHANGED <<pc, args, ram, regs>>

Next == Program \/ Driver \/ Environment \/ MachineReset

Spec == Init /\ [][Next]_vars

\* The CPU goes on executing the driver's instructions.
FairSpec == Spec /\ WF_vars(Driver)

-----------------------------------------------------------------------------
TypeOK ==
  /\ CardTypeOK
  /\ call \in {"read", "write"} /\ hi \in Words /\ lo \in Words
  /\ at \in 0 .. AddrSpace - 1 /\ ram \in Block
  /\ regX \in 0 .. kBlockSize /\ regB \in 0 .. SD_TRIES /\ regW \in 0 .. SD_TIMEOUT

(***************************************************************************)
(* A read that succeeds returns the block asked for, whatever retries,     *)
(* card swaps and earlier calls, finished or not, came before.             *)
(***************************************************************************)
ReadReturnsBlock ==
  pc = "ret" /\ call = "read" /\ result = "OK" =>
    Wanted <= Len(image) /\ ram = image[Wanted]

(***************************************************************************)
(* A write that succeeds has put the caller's bytes in the block.          *)
(***************************************************************************)
WriteReachesBlock ==
  pc = "ret" /\ call = "write" /\ result = "OK" =>
    Wanted <= Len(image) /\ image[Wanted] = ram

(***************************************************************************)
(* What a call reports done is done, and device and driver keep their      *)
(* cursors and counters in range.                                          *)
(***************************************************************************)
TransfersRight == TypeOK /\ ReadReturnsBlock /\ WriteReachesBlock

(***************************************************************************)
(* Whatever fails, the only block of the image that ever changes is the    *)
(* one a write in progress is for, and it becomes the caller's bytes: no   *)
(* command half done, no wrong block after a retry or a reset.             *)
(***************************************************************************)
OnlyItsBlock ==
  [][image' # image =>
       /\ call = "write" /\ Wanted <= Len(image') /\ image'[Wanted] = ram
       /\ \A i \in 1 .. Len(image') \ {Wanted} :
            image'[i] = IF i <= Len(image) THEN image[i] ELSE Zeros]_vars

(***************************************************************************)
(* The transfer loops stay out of the ROM and the hardware registers.      *)
(***************************************************************************)
BelowRom ==
  pc \in {"rd_loop", "wr_loop"} /\ regX < kBlockSize =>
    (at + regX) % AddrSpace < EXE_MAXTOP

(***************************************************************************)
(* Every call comes back, from a card that hangs or is pulled out too.     *)
(***************************************************************************)
CallsReturn == (pc # "idle") ~> (pc = "idle")

=============================================================================
