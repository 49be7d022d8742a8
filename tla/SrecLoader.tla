----------------------------- MODULE SrecLoader -----------------------------
(***************************************************************************)
(* load_srec_file() (srec_loader.cpp): Motorola S-records into a memory.   *)
(* A line is [s, type, count, bytes, short]: whether it begins with S, the *)
(* digit behind it, the count field and the bytes behind that, a field     *)
(* that is not two hexadecimal digits being NoHex; short tells that it has *)
(* fewer than four characters.  Blank lines and the messages are left out. *)
(* A byte that the loader writes behind the memory is kept with the others *)
(* in mem, as if nothing else had been there.                              *)
(***************************************************************************)
EXTENDS Integers, Sequences, FiniteSetsExt

CONSTANTS
    mem_size,   \* bytes of the memory loaded into
    Word        \* the number of values of a uint32_t

ASSUME MemAssumption == mem_size \in Nat /\ Word \in Nat \ {0}

NoHex == 256
addr_bytes == [type \in (0..9) \ {4} |-> IF type \in {2, 6, 8} THEN 3 ELSE IF type \in {3, 7} THEN 4 ELSE 2]

\* the number with the digits seq in a base, which is their sum in base 1
InBase(base, seq) ==
    LET upto[k \in 0..Len(seq)] == IF k = 0 THEN 0 ELSE upto[k - 1] * base + seq[k] IN upto[Len(seq)]
Sum(seq) == InBase(1, seq)
Number(seq) == InBase(256, seq)

\* Mutant: the checksum is read and not compared.
ChecksumTrusted(line) == TRUE
\* the last byte counted makes the sum of all, the count's included, $FF
ChecksumRight(line) ==
    line.bytes[line.count] = 255 - ((line.count + Sum(SubSeq(line.bytes, 1, line.count - 1))) % 256)

\* what comes behind the bytes counted is not looked at
WellFormed(line) ==
    /\ line.s /\ ~line.short /\ line.count # NoHex
    /\ line.type \in DOMAIN addr_bytes
    /\ line.count <= Len(line.bytes) /\ line.count > addr_bytes[line.type]
    /\ \A i \in 1..line.count : line.bytes[i] # NoHex
    /\ ChecksumRight(line)

\* addresses, and what is added to them, are of 32 bits
Address(line) == Number(SubSeq(line.bytes, 1, addr_bytes[line.type])) % Word
Data(line) == SubSeq(line.bytes, addr_bytes[line.type] + 1, line.count - 1)
IsData(line) == line.type \in 1..3 /\ Data(line) # <<>>
Fits(line) == (Address(line) + Len(Data(line))) % Word <= mem_size
Refused(line) == ~WellFormed(line) \/ (IsData(line) /\ ~Fits(line))
Written(line) == {(Address(line) + i) % Word : i \in 0..(Len(Data(line)) - 1)}

Loaded(r, line) ==
    LET from == Address(line)
        end == (from + Len(Data(line)) - 1) % Word
    IN  IF ~r.ok THEN r
        ELSE IF Refused(line) THEN [r EXCEPT !.ok = FALSE]
        ELSE IF ~IsData(line) THEN r
        ELSE [ok |-> TRUE, any_data |-> TRUE,
              mem |-> [a \in Written(line) \cup DOMAIN r.mem |->
                         IF a \in Written(line) THEN Data(line)[((a - from) % Word) + 1] ELSE r.mem[a]],
              min_addr |-> IF r.any_data THEN Min({r.min_addr, from}) ELSE from,
              max_addr |-> IF r.any_data THEN Max({r.max_addr, end}) ELSE end]
Nothing == [ok |-> TRUE, any_data |-> FALSE, mem |-> << >>, min_addr |-> 0, max_addr |-> 0]

\* The lines up to the first bad one take effect.
load_srec_file(lines) ==
    LET after[n \in 0..Len(lines)] == IF n = 0 THEN Nothing ELSE Loaded(after[n - 1], lines[n])
    IN  after[Len(lines)]
=============================================================================
