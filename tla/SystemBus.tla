------------------------------ MODULE SystemBus ------------------------------
(***************************************************************************)
(* The bus between the processor and everything else (system_bus.cpp): RAM *)
(* in 16 KB pages behind four bank registers, memory-mapped devices, and   *)
(* the interrupt lines recomputed after every step.  All operators work on *)
(* the machine record, of which this module uses                           *)
(*   ram   physical bytes that are not 0      bank  the bank registers     *)
(*   devs  the mappings, oldest first         lvl   interrupt outputs      *)
(*   prev  the NMI level seen last            op    the byte or word read  *)
(* and irq, firq, nmi, the processor's inputs.  Devices: the bank          *)
(* registers, a ROM (Rom: its bytes by offset, the last byte at the top),  *)
(* and devices with an interrupt output that a read of their register      *)
(* releases, as the UART's data register does.                             *)
(***************************************************************************)
EXTENDS Integers, Sequences, FiniteSetsExt, TLC

CONSTANTS RamPages, \* 16 KB pages of RAM installed
          RomBytes  \* offset -> byte of the mapped ROM, where not 0

PageSize == 16384
NoMapping == 0

ASSUME BusConstants ==
    /\ RamPages \in 4..256
    /\ \A o \in DOMAIN RomBytes : RomBytes[o] \in 0..255

unmap_device(m, name) == [m EXCEPT !.devs = SelectSeq(@, LAMBDA d : d.name # name)]

map_device(m, d) == LET n == unmap_device(m, d.name) IN [n EXCEPT !.devs = Append(@, d)]

\* The mapping of an address, the one registered last; a window may end at the top.
find_mapping(m, a) ==
    LET hits == {i \in DOMAIN m.devs : m.devs[i].base <= a /\ a < m.devs[i].base + m.devs[i].size}
    IN  IF hits = {} THEN NoMapping ELSE Max(hits)

Installed(m, a) == m.bank[a \div PageSize] < RamPages
phys_byte(m, a) == m.bank[a \div PageSize] * PageSize + (a % PageSize)

Stored(f, k) == IF k \in DOMAIN f THEN f[k] ELSE 0

DeviceRead(m, d, off) ==
    CASE d.kind = "rom"   -> [m EXCEPT !.op = Stored(RomBytes, off)]
      [] d.kind = "banks" -> [m EXCEPT !.op = 255]
      [] d.kind = "level" -> [m EXCEPT !.op = IF m.lvl[d.name] THEN 128 ELSE 0, !.lvl[d.name] = FALSE]

DeviceWrite(m, d, off, v) == IF d.kind = "banks" THEN [m EXCEPT !.bank[off % 4] = v] ELSE m

read8(m, a) ==
    LET i == find_mapping(m, a)
    IN  IF i # NoMapping THEN DeviceRead(m, m.devs[i], a - m.devs[i].base)
        ELSE [m EXCEPT !.op = IF Installed(m, a) THEN Stored(m.ram, phys_byte(m, a)) ELSE 255]

write8(m, a, v) ==
    LET i == find_mapping(m, a)
    IN  IF i # NoMapping THEN DeviceWrite(m, m.devs[i], a - m.devs[i].base, v)
        ELSE IF Installed(m, a) THEN [m EXCEPT !.ram = (phys_byte(m, a) :> v) @@ @]
        ELSE m

\* What a read of an address would return, without its side effects.
Peek(m, a) == read8(m, a).op

\* The levels of the lines, each the OR of the devices on it; NMI is an edge.
Asserted(m, line) == \E i \in DOMAIN m.devs : m.devs[i].line = line /\ m.lvl[m.devs[i].name]

update_irq_lines(m) ==
    [m EXCEPT !.irq  = Asserted(m, "IRQ"),
              !.firq = Asserted(m, "FIRQ"),
              !.nmi  = @ \/ (Asserted(m, "NMI") /\ ~m.prev),
              !.prev = Asserted(m, "NMI")]
=============================================================================
