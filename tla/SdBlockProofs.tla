--------------------------- MODULE SdBlockProofs ---------------------------
(***************************************************************************)
(* The block driver on its device, for every block size, image, number of  *)
(* tries and polls, and address space: what a call reports done is done,   *)
(* nothing else on the card changes, and no transfer reaches the ROM.      *)
(***************************************************************************)
EXTENDS SdBlock, TLAPS

USE CardAssumption, DriverAssumption

Places == {"idle", "wr_card", "hi", "sethi", "lo", "rd_try", "rd_loop", "wr_loop",
           "wait", "ret"}

\* Where the device has been told which block the call is about.
Told == {"rd_try", "rd_loop", "wr_loop", "wait"}

\* The device holds as much of the block's number as the driver has stored.
AddressKept ==
  /\ pc = "sethi" => lba = hi
  /\ pc \in {"lo"} \cup Told => lba_hi = hi
  /\ pc \in Told => lba = lo

\* The kind of call, the tries and polls left and the buffer's place go with
\* the driver's place.
PlaceKept ==
  /\ pc \in Places
  /\ pc \in {"rd_try", "rd_loop"} => call = "read"
  /\ pc \in {"wr_card", "wr_loop"} => call = "write"
  /\ pc \in {"rd_try", "wait"} => regX = 0
  /\ pc = "wait" => regW >= 1
  /\ pc \notin {"idle", "ret"} => BLK_CHKBUF(at)

\* The device's cursor is at the byte the driver moves next.
CursorKept ==
  /\ pc = "wait" => cursor = 1
  /\ pc \in {"rd_loop", "wr_loop"} =>
       cursor = IF regX < kBlockSize THEN regX + 1 ELSE kBlockSize

\* The bytes moved so far are on both sides; a command that has not failed
\* has moved the block between the image and the device's buffer.
BytesKept ==
  /\ pc \in {"rd_loop", "wr_loop"} => \A j \in 1 .. regX : ram[j] = buffer[j]
  /\ pc = "rd_loop" \/ (pc = "wait" /\ call = "read" /\ ~ last_error) =>
       Wanted <= Len(image) /\ buffer = image[Wanted]
  /\ pc = "wait" /\ call = "write" /\ ~ last_error =>
       Wanted <= Len(image) /\ image[Wanted] = ram
  /\ pc = "wait" /\ call = "write" => buffer = ram

\* The inductive invariant.
SdInv ==
  /\ TypeOK /\ PlaceKept /\ AddressKept /\ CursorKept /\ BytesKept
  /\ ReadReturnsBlock /\ WriteReachesBlock
-----------------------------------------------------------------------------
\* A block of zeros is a block.
LEMMA ZerosBlock == Zeros \in Block
BY DEF Zeros, Block

\* The number of a block, from its two words, is an index into an image.
LEMMA BlockNumber ==
  ASSUME NEW h \in Words, NEW l \in Words PROVE h * Word + l + 1 \in Nat \ {0}
<1>1. h \in Nat /\ l \in Nat /\ Word \in Nat
  BY DEF Words
<1>2. h * Word \in Nat
  BY <1>1
<1> QED
  BY <1>1, <1>2

\* A byte past the buffer's last would still be below the ROM.
LEMMA BufferBelowRom ==
  ASSUME NEW y \in 0 .. AddrSpace - 1, BLK_CHKBUF(y), NEW x \in 0 .. kBlockSize - 1
  PROVE  (y + x) % AddrSpace < EXE_MAXTOP
<1>1. y + kBlockSize - 1 \in 0 .. AddrSpace - 1 /\ y + x \in 0 .. AddrSpace - 1
  BY DEF BLK_CHKBUF
<1>2. \A a \in 0 .. AddrSpace - 1 : a % AddrSpace = a
  OBVIOUS
<1>3. y + kBlockSize - 1 < EXE_MAXTOP
  BY <1>1, <1>2 DEF BLK_CHKBUF
<1>4. y + x <= y + kBlockSize - 1
  OBVIOUS
<1> QED
  BY <1>1, <1>2, <1>3, <1>4

(***************************************************************************)
(* What a write command makes of the image: the block it is about is the   *)
(* buffer, a gap before it is zeros, every other block is as it was.       *)
(***************************************************************************)
LEMMA WrittenFacts ==
  ASSUME CardTypeOK
  PROVE  /\ Written \in Seq(Block)
         /\ Addressed \in 1 .. Len(Written)
         /\ Written[Addressed] = buffer
         /\ \A i \in 1 .. Len(Written) \ {Addressed} :
              Written[i] = IF i <= Len(image) THEN image[i] ELSE Zeros
<1> DEFINE n == IF Addressed > Len(image) THEN Addressed ELSE Len(image)
           val(i) == IF i = Addressed THEN buffer
                     ELSE IF i <= Len(image) THEN image[i] ELSE Zeros
<1>1. Addressed \in Nat \ {0}
  BY BlockNumber DEF CardTypeOK, Addressed
<1>2. Len(image) \in Nat /\ \A i \in 1 .. Len(image) : image[i] \in Block
  BY DEF CardTypeOK
<1>3. n \in Nat /\ Addressed \in 1 .. n
  BY <1>1, <1>2
<1>4. \A i \in 1 .. n : val(i) \in Block
  BY <1>2, ZerosBlock DEF CardTypeOK
<1>5. Written = [i \in 1 .. n |-> val(i)]
  BY DEF Written
<1> HIDE DEF n, val
<1>6. Written \in Seq(Block) /\ Len(Written) = n
  BY <1>3, <1>4, <1>5
<1>7. \A i \in 1 .. n : Written[i] = val(i)
  BY <1>5
<1> QED
  BY <1>3, <1>6, <1>7 DEF val

-----------------------------------------------------------------------------
(***************************************************************************)
(* A call that begins relies on nothing of the call before, and on none of *)
(* the device's registers.                                                 *)
(***************************************************************************)
LEMMA CallKeeps ==
  ASSUME SdInv, NEW c \in {"read", "write"}, NEW h \in Words, NEW l \in Words,
         NEW y \in 0 .. AddrSpace - 1, NEW data \in Block, Call(c, h, l, y, data)
  PROVE  SdInv'
<1> USE DEF SdInv, Call, Goto, card
<1>1. TypeOK'
  BY DEF TypeOK, CardTypeOK
<1>2. PlaceKept'
  BY DEF PlaceKept, Places, BLK_CHKBUF
<1>3. AddressKept' /\ CursorKept' /\ BytesKept'
  BY DEF AddressKept, CursorKept, BytesKept, Told
<1>4. ReadReturnsBlock' /\ WriteReachesBlock'
  BY DEF ReadReturnsBlock, WriteReachesBlock
<1> QED
  BY <1>1, <1>2, <1>3, <1>4

\* Either of the program's two calls keeps the invariant.
LEMMA ProgramKeeps ==
  ASSUME SdInv, Program PROVE SdInv'
<1>1. ASSUME NEW data \in Data PROVE data \in Block
  <2>1. PICK n \in 0 .. Patterns - 1 : data = [i \in 1 .. kBlockSize |-> n * kBlockSize + i]
    BY DEF Data
  <2>2. \A i \in 1 .. kBlockSize : n * kBlockSize + i \in Nat
    OBVIOUS
  <2> QED
    BY <2>1, <2>2 DEF Block
<1>2. PICK h \in Words, l \in Words, y \in 0 .. AddrSpace - 1 :
        \/ BIOS_BLK_READ32(h, l, y)
        \/ \E data \in Data : BIOS_BLK_WRITE32(h, l, y, data)
  BY DEF Program
<1>3. CASE BIOS_BLK_READ32(h, l, y)
  BY <1>3, CallKeeps, ZerosBlock DEF BIOS_BLK_READ32
<1>4. CASE \E data \in Data : BIOS_BLK_WRITE32(h, l, y, data)
  BY <1>1, <1>4, CallKeeps DEF BIOS_BLK_WRITE32
<1> QED
  BY <1>2, <1>3, <1>4

\* A call that is over leaves nothing behind.
LEMMA NoCallKeeps ==
  ASSUME SdInv, NoCall, CardTypeOK' PROVE SdInv'
<1> USE DEF SdInv, NoCall
<1>1. TypeOK'
  BY ZerosBlock DEF TypeOK, Words
<1>2. PlaceKept' /\ AddressKept' /\ CursorKept' /\ BytesKept'
  BY DEF PlaceKept, Places, AddressKept, CursorKept, BytesKept, Told
<1>3. ReadReturnsBlock' /\ WriteReachesBlock'
  BY DEF ReadReturnsBlock, WriteReachesBlock
<1> QED
  BY <1>1, <1>2, <1>3

\* A reset in the middle of a call keeps the invariant.
LEMMA ResetKeeps ==
  ASSUME SdInv, MachineReset PROVE SdInv'
<1>1. CardTypeOK'
  BY ZerosBlock DEF SdInv, TypeOK, CardTypeOK, MachineReset, Reset, Words
<1> QED
  BY <1>1, NoCallKeeps DEF MachineReset

(***************************************************************************)
(* The card is pulled out, put back, hangs or comes back: nothing the      *)
(* driver relies on changes with it.                                       *)
(***************************************************************************)
LEMMA EnvironmentKeeps ==
  ASSUME SdInv, Environment PROVE SdInv'
<1> USE DEF SdInv, Environment, set_card_present, set_stuck_busy, args, regs
<1>1. TypeOK'
  BY DEF TypeOK, CardTypeOK
<1>2. PlaceKept' /\ AddressKept' /\ CursorKept'
  BY DEF PlaceKept, AddressKept, CursorKept, BLK_CHKBUF
<1>3. BytesKept' /\ ReadReturnsBlock' /\ WriteReachesBlock'
  BY DEF BytesKept, ReadReturnsBlock, WriteReachesBlock, Wanted
<1> QED
  BY <1>1, <1>2, <1>3
-----------------------------------------------------------------------------
(***************************************************************************)
(* The steps before the transfer: the card is looked for, and the block's  *)
(* number is stored, its high word first.                                  *)
(***************************************************************************)
LEMMA SetupKeeps ==
  ASSUME SdInv, WriteChecksCard \/ StoreHi \/ LatchHi \/ StoreLo PROVE SdInv'
<1> USE DEF SdInv, Goto, args, regs, card
<1>1. TypeOK'
  <2>1. last_error' \in BOOLEAN
    BY Zenon DEF TypeOK, CardTypeOK, WriteChecksCard, StoreHi, LatchHi, StoreLo, WriteLba, SetHi
  <2> QED
    BY <2>1 DEF TypeOK, CardTypeOK, WriteChecksCard, StoreHi, LatchHi, StoreLo, WriteLba, SetHi,
                Fail
<1>2. PlaceKept'
  BY DEF TypeOK, PlaceKept, Places, BLK_CHKBUF, WriteChecksCard, StoreHi, LatchHi, StoreLo,
         Fail
<1>3. AddressKept'
  BY DEF AddressKept, Told, WriteChecksCard, StoreHi, LatchHi, StoreLo, WriteLba, SetHi, Fail
<1>4. CursorKept'
  BY DEF CursorKept, WriteChecksCard, StoreHi, LatchHi, StoreLo, WriteLba, SetHi, Fail
<1>5. BytesKept'
  BY DEF BytesKept, WriteChecksCard, StoreHi, LatchHi, StoreLo, WriteLba, SetHi, Fail
<1>6. ReadReturnsBlock' /\ WriteReachesBlock'
  BY DEF ReadReturnsBlock, WriteReachesBlock, WriteChecksCard, StoreHi, LatchHi, StoreLo, Fail
<1> QED
  BY <1>1, <1>2, <1>3, <1>4, <1>5, <1>6

\* Once the device has the whole number, its commands are about the block asked for.
LEMMA ToldWanted ==
  ASSUME SdInv, pc \in Told PROVE Addressed = Wanted /\ Wanted \in Nat \ {0}
<1>1. Addressed = Wanted
  BY DEF SdInv, AddressKept, Addressed, Wanted
<1> QED
  BY <1>1, BlockNumber DEF SdInv, TypeOK, Wanted

(***************************************************************************)
(* A read command: either it has failed and says so, or the buffer is the  *)
(* block asked for.                                                        *)
(***************************************************************************)
LEMMA ReadTryKeeps ==
  ASSUME SdInv, ReadTry PROVE SdInv'
<1> USE DEF SdInv, Goto, args, regs
<1>1. PICK fault \in Faults : ReadCommand(fault)
  BY DEF ReadTry
<1>2. pc = "rd_try" /\ pc' = "wait" /\ call = "read" /\ UNCHANGED <<image, hi, lo, call>>
  BY <1>1 DEF ReadTry, PlaceKept, ReadCommand
<1>3. last_error' \in BOOLEAN /\ buffer' \in Block
  <2>1. Len(image) \in Nat /\ \A i \in 1 .. Len(image) : image[i] \in Block
    BY DEF TypeOK, CardTypeOK
  <2>2. Addressed \in Nat \ {0}
    BY <1>2, ToldWanted DEF Told
  <2>3. last_error' \in BOOLEAN
    BY <1>1, Zenon DEF ReadCommand, Ends
  <2>4. \/ buffer' \in {buffer, Zeros}
        \/ ~ (Addressed > Len(image)) /\ buffer' = image[Addressed]
    BY <1>1, Zenon DEF ReadCommand
  <2> QED
    BY <2>1, <2>2, <2>3, <2>4, ZerosBlock DEF TypeOK, CardTypeOK
<1>4. TypeOK'
  BY <1>1, <1>2, <1>3 DEF TypeOK, CardTypeOK, ReadTry, ReadCommand, Ends
<1>5. PlaceKept' /\ AddressKept' /\ CursorKept'
  BY <1>1, <1>2 DEF TypeOK, PlaceKept, AddressKept, CursorKept, Places, Told, BLK_CHKBUF,
                    ReadTry, ReadCommand, Ends
<1>6. BytesKept'
  <2>1. ASSUME ~ last_error'
        PROVE  Addressed <= Len(image) /\ buffer' = image[Addressed]
    <3>1. Len(image) \in Nat /\ Addressed \in Nat
      BY <1>2, ToldWanted DEF Told, TypeOK, CardTypeOK
    <3> DEFINE failed == fault = "io" \/ Addressed > Len(image)
    <3>2. CASE last_error' = TRUE
      BY <2>1, <3>2, Zenon
    <3>3. CASE /\ last_error' = failed
               /\ buffer' = IF failed THEN Zeros ELSE image[Addressed]
      <4>1. ~ failed
        BY <2>1, <3>3, Zenon
      <4>2. buffer' = image[Addressed]
        BY <3>3, <4>1, Zenon
      <4> QED
        BY <3>1, <4>1, <4>2
    <3> QED
      BY <1>1, <3>2, <3>3, Zenon DEF ReadCommand, Ends
  <2>2. Wanted' = Wanted /\ Addressed = Wanted
    BY <1>2, ToldWanted DEF Wanted, Told
  <2> QED
    BY <1>2, <2>1, <2>2 DEF BytesKept
<1>7. ReadReturnsBlock' /\ WriteReachesBlock'
  BY <1>2 DEF ReadReturnsBlock, WriteReachesBlock
<1> QED
  BY <1>4, <1>5, <1>6, <1>7

(***************************************************************************)
(* SDRD_LOOP: a byte more is the caller's; after the last, the caller has  *)
(* the block.                                                              *)
(***************************************************************************)
LEMMA ReadLoopKeeps ==
  ASSUME SdInv, ReadLoop PROVE SdInv'
<1> USE DEF SdInv, Goto, args, regs, ReadLoop
<1>1. CASE regX < kBlockSize
  <2>1. /\ cursor = regX + 1 /\ regX + 1 \in 1 .. kBlockSize
        /\ ram \in [1 .. kBlockSize -> Nat] /\ buffer \in [1 .. kBlockSize -> Nat]
    BY <1>1 DEF CursorKept, TypeOK, CardTypeOK, Block
  <2>2. ram' = [ram EXCEPT ![regX + 1] = buffer[regX + 1]] /\ ram' \in Block
    BY <1>1, <2>1 DEF Block
  <2>3. TypeOK'
    BY <1>1, <2>1, <2>2, SMTT(60) DEF TypeOK, CardTypeOK, ReadData, Advance
  <2>4. PlaceKept' /\ AddressKept' /\ CursorKept'
    BY <1>1, <2>1 DEF TypeOK, PlaceKept, AddressKept, CursorKept, Told, BLK_CHKBUF, ReadData,
                      Advance
  <2>5. \A j \in 1 .. regX' : ram'[j] = buffer'[j]
    BY <1>1, <2>1, <2>2 DEF TypeOK, BytesKept, ReadData
  <2>6. BytesKept'
    BY <1>1, <2>5 DEF BytesKept, ReadData, Wanted
  <2>7. ReadReturnsBlock' /\ WriteReachesBlock'
    BY <1>1 DEF ReadReturnsBlock, WriteReachesBlock
  <2> QED
    BY <2>3, <2>4, <2>6, <2>7
<1>2. CASE regX >= kBlockSize
  <2>1. regX = kBlockSize /\ ~ (regX < kBlockSize)
    BY <1>2 DEF TypeOK
  <2>2. ram = buffer
    BY <2>1 DEF TypeOK, CardTypeOK, Block, BytesKept
  <2>3. TypeOK' /\ PlaceKept' /\ AddressKept' /\ CursorKept' /\ BytesKept'
    BY <2>1 DEF TypeOK, CardTypeOK, PlaceKept, Places, AddressKept, CursorKept, BytesKept, Told,
                card
  <2>4. ReadReturnsBlock' /\ WriteReachesBlock'
    BY <2>1, <2>2 DEF ReadReturnsBlock, WriteReachesBlock, BytesKept, PlaceKept, Wanted, card
  <2> QED
    BY <2>3, <2>4
<1> QED
  BY <1>1, <1>2 DEF TypeOK
(***************************************************************************)
(* A write command: the image is as it was, or the block asked for is the  *)
(* device's buffer and the others are as they were; a command that reports *)
(* no error is of the second kind.                                         *)
(***************************************************************************)
LEMMA WriteCommandFacts ==
  ASSUME CardTypeOK, NEW fault \in Faults, WriteCommand(fault)
  PROVE  /\ image' = image \/ image' = Written
         /\ ~ last_error' => image' = Written
         /\ last_error' \in BOOLEAN /\ image' \in Seq(Block)
         /\ UNCHANGED <<lba, lba_hi, buffer, card_present, stuck_busy>> /\ cursor' = 1
<1>1. image' = image \/ image' = Written
  BY Zenon DEF WriteCommand
<1>2. ~ last_error' => image' = Written
  BY Zenon DEF WriteCommand, Ends
<1>3. last_error' \in BOOLEAN
  BY Zenon DEF WriteCommand, Ends
<1>4. image' \in Seq(Block)
  BY <1>1, WrittenFacts DEF CardTypeOK
<1>5. UNCHANGED <<lba, lba_hi, buffer, card_present, stuck_busy>> /\ cursor' = 1
  BY DEF WriteCommand, Ends
<1> QED
  BY <1>1, <1>2, <1>3, <1>4, <1>5

\* The device's buffer is the caller's block when the driver has stored it all.
LEMMA StoredWhole ==
  ASSUME SdInv, pc = "wr_loop", ~ (regX < kBlockSize) PROVE buffer = ram
<1>1. regX = kBlockSize
  BY DEF SdInv, TypeOK
<1> QED
  BY <1>1 DEF SdInv, TypeOK, CardTypeOK, Block, BytesKept

(***************************************************************************)
(* SDWR_LOOP: a byte more is in the device's buffer; after the last, the   *)
(* command.                                                                *)
(***************************************************************************)
LEMMA WriteLoopKeeps ==
  ASSUME SdInv, WriteLoop PROVE SdInv'
<1> USE DEF SdInv, Goto, args, regs, WriteLoop
<1>1. CASE regX < kBlockSize
  <2>1. /\ cursor = regX + 1 /\ regX + 1 \in 1 .. kBlockSize
        /\ ram \in [1 .. kBlockSize -> Nat] /\ buffer \in [1 .. kBlockSize -> Nat]
    BY <1>1 DEF CursorKept, TypeOK, CardTypeOK, Block
  <2>2. buffer' = [buffer EXCEPT ![regX + 1] = ram[regX + 1]] /\ buffer' \in Block
    BY <1>1, <2>1 DEF Block, WriteData
  <2>3. TypeOK'
    BY <1>1, <2>1, <2>2, SMTT(60) DEF TypeOK, CardTypeOK, WriteData, Advance
  <2>4. PlaceKept' /\ AddressKept' /\ CursorKept'
    BY <1>1, <2>1 DEF TypeOK, PlaceKept, AddressKept, CursorKept, Told, BLK_CHKBUF, WriteData,
                      Advance
  <2>5. \A j \in 1 .. regX' : ram'[j] = buffer'[j]
    BY <1>1, <2>1, <2>2 DEF TypeOK, BytesKept
  <2>6. BytesKept'
    BY <1>1, <2>5 DEF BytesKept
  <2>7. ReadReturnsBlock' /\ WriteReachesBlock'
    BY <1>1 DEF ReadReturnsBlock, WriteReachesBlock
  <2> QED
    BY <2>3, <2>4, <2>6, <2>7
<1>2. CASE ~ (regX < kBlockSize)
  <2>1. PICK fault \in Faults : WriteCommand(fault)
    BY <1>2
  <2>2. /\ image' = image \/ image' = Written
        /\ ~ last_error' => image' = Written
        /\ last_error' \in BOOLEAN /\ image' \in Seq(Block)
        /\ UNCHANGED <<lba, lba_hi, buffer, card_present, stuck_busy>> /\ cursor' = 1
    BY <2>1, WriteCommandFacts DEF TypeOK
  <2>3. pc = "wr_loop" /\ pc' = "wait" /\ regX' = 0 /\ regW' = SD_TIMEOUT
    BY <1>2
  <2>4. TypeOK'
    BY <1>2, <2>2, <2>3 DEF TypeOK, CardTypeOK
  <2>5. PlaceKept' /\ AddressKept' /\ CursorKept'
    BY <2>2, <2>3 DEF PlaceKept, AddressKept, CursorKept, Places, Told, BLK_CHKBUF
  <2>6. BytesKept'
    <3>1. buffer' = ram' /\ call' = "write"
      BY <1>2, <2>2, StoredWhole DEF PlaceKept
    <3>2. ASSUME ~ last_error' PROVE Wanted' <= Len(image') /\ image'[Wanted'] = ram'
      <4>1. Wanted' = Addressed
        BY <2>3, ToldWanted DEF Wanted, Told
      <4>2. Addressed \in 1 .. Len(image') /\ image'[Addressed] = buffer
        BY <2>2, <3>2, WrittenFacts DEF TypeOK
      <4>3. Len(image') \in Nat /\ buffer = ram'
        BY <2>2, <3>1
      <4> QED
        BY <4>1, <4>2, <4>3
    <3> QED
      BY <2>3, <3>1, <3>2 DEF BytesKept
  <2>7. ReadReturnsBlock' /\ WriteReachesBlock'
    BY <2>3 DEF ReadReturnsBlock, WriteReachesBlock
  <2> QED
    BY <2>4, <2>5, <2>6, <2>7
<1> QED
  BY <1>1, <1>2

(***************************************************************************)
(* SDRD_WAIT and SDWR_WAIT: a poll, a try more, the transfer, or the end   *)
(* of the call.                                                            *)
(***************************************************************************)
LEMMA WaitKeeps ==
  ASSUME SdInv, Wait PROVE SdInv'
<1> USE DEF SdInv, Goto, args, regs, card, Wait
<1>1. \/ pc' = "wait" /\ regW' \in 1 .. SD_TIMEOUT
      \/ pc' = "rd_try" /\ call = "read"
      \/ pc' = "wr_loop" /\ call = "write"
      \/ pc' = "rd_loop" /\ call = "read" /\ ~ last_error
      \/ pc' = "ret" /\ (result' = "OK" => call = "write" /\ ~ last_error)
  BY DEF Status, Retry, Fail, TypeOK, PlaceKept
<1>2. TypeOK'
  BY DEF Status, Retry, Fail, TypeOK, CardTypeOK, PlaceKept
<1>3. PlaceKept'
  BY <1>1 DEF PlaceKept, Places, BLK_CHKBUF
<1>4. AddressKept'
  BY <1>1 DEF AddressKept, Told
<1>5. CursorKept'
  BY <1>1 DEF CursorKept, PlaceKept
<1>6. BytesKept'
  BY <1>1 DEF BytesKept, PlaceKept, Wanted
<1>7. ReadReturnsBlock' /\ WriteReachesBlock'
  BY <1>1 DEF ReadReturnsBlock, WriteReachesBlock, BytesKept, Wanted
<1> QED
  BY <1>2, <1>3, <1>4, <1>5, <1>6, <1>7

-----------------------------------------------------------------------------
\* Every step keeps the invariant.
LEMMA NextKeeps ==
  ASSUME SdInv, [Next]_vars PROVE SdInv'
<1>1. CASE Return
  <2>1. CardTypeOK'
    BY <1>1 DEF SdInv, TypeOK, CardTypeOK, Return, card
  <2> QED
    BY <1>1, <2>1, NoCallKeeps DEF Return
<1>2. CASE UNCHANGED vars
  BY <1>2 DEF SdInv, TypeOK, CardTypeOK, PlaceKept, AddressKept, CursorKept, BytesKept, BLK_CHKBUF,
              ReadReturnsBlock, WriteReachesBlock, Wanted, vars, card, args, regs
<1> QED
  BY <1>1, <1>2, ProgramKeeps, ResetKeeps, EnvironmentKeeps, SetupKeeps, ReadTryKeeps,
     ReadLoopKeeps, WriteLoopKeeps, WaitKeeps DEF Next, Driver

(***************************************************************************)
(* The inductive invariant holds of every behaviour: reads and writes      *)
(* whose commands fail, time out, lose the card or are cut by a reset.     *)
(***************************************************************************)
LEMMA SpecSd == Spec => []SdInv
<1>1. Init => SdInv
  <2> SUFFICES ASSUME Init PROVE SdInv
    OBVIOUS
  <2>1. image \in Seq(Block)
    BY ZerosBlock DEF Init
  <2>2. last_error \in BOOLEAN /\ card_present \in BOOLEAN /\ stuck_busy \in BOOLEAN
    BY Zenon DEF Init
  <2>3. TypeOK
    BY <2>1, <2>2, ZerosBlock DEF Init, TypeOK, CardTypeOK, Words
  <2>4. PlaceKept /\ AddressKept /\ CursorKept /\ BytesKept
    BY DEF Init, PlaceKept, Places, AddressKept, CursorKept, BytesKept, Told
  <2> QED
    BY <2>3, <2>4 DEF Init, SdInv, ReadReturnsBlock, WriteReachesBlock
<1> QED
  BY <1>1, NextKeeps, PTL DEF Spec

(***************************************************************************)
(* For every block size, number of tries and polls: a BIOS_BLK_READ32 that *)
(* returns OK has read the block asked for, a BIOS_BLK_WRITE32 that        *)
(* returns OK has written it, and the driver's and the device's counters   *)
(* stay in range.                                                          *)
(***************************************************************************)
THEOREM SdTransfersRight == Spec => []TransfersRight
<1>1. SdInv => TransfersRight
  BY DEF SdInv, TransfersRight
<1> QED
  BY <1>1, SpecSd, PTL

(***************************************************************************)
(* For every block size and address space, the loops SDRD_LOOP and         *)
(* SDWR_LOOP touch no address of the ROM or the hardware registers.        *)
(***************************************************************************)
THEOREM SdBelowRom == Spec => []BelowRom
<1>1. SdInv => BelowRom
  BY BufferBelowRom DEF SdInv, TypeOK, PlaceKept, BelowRom
<1> QED
  BY <1>1, SpecSd, PTL

(***************************************************************************)
(* For every block size and image: a step changes the image only when it   *)
(* is the command of a write, and then the block the caller asked for      *)
(* becomes the caller's bytes and every other block is as it was.          *)
(***************************************************************************)
THEOREM SdOnlyItsBlock == Spec => OnlyItsBlock
<1> DEFINE Only ==
      /\ call = "write" /\ Wanted <= Len(image') /\ image'[Wanted] = ram
      /\ \A i \in 1 .. Len(image') \ {Wanted} :
           image'[i] = IF i <= Len(image) THEN image[i] ELSE Zeros
<1>1. ASSUME SdInv, [Next]_vars, image' # image PROVE Only
  <2>1. WriteLoop /\ ~ (regX < kBlockSize)
    BY <1>1 DEF Next, vars, card, args, Program, BIOS_BLK_READ32, BIOS_BLK_WRITE32, Call, Driver,
                WriteChecksCard, StoreHi, LatchHi, StoreLo, ReadTry, ReadLoop, WriteLoop, Wait,
                Return, Environment, MachineReset, Reset, set_card_present, set_stuck_busy,
                WriteLba, SetHi, ReadCommand, ReadData, WriteData
  <2>2. image' = Written
    BY <1>1, <2>1, WriteCommandFacts DEF WriteLoop, SdInv, TypeOK
  <2>3. buffer = ram /\ Addressed = Wanted /\ call = "write"
    BY <1>1, <2>1, StoredWhole, ToldWanted DEF WriteLoop, Told, SdInv, PlaceKept
  <2> QED
    BY <1>1, <2>2, <2>3, WrittenFacts DEF SdInv, TypeOK
<1>2. SdInv /\ [Next]_vars => [image' # image => Only]_vars
  BY <1>1
<1> QED
  BY <1>2, SpecSd, PTL DEF Spec, OnlyItsBlock
=============================================================================
