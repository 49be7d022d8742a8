------------------------------- MODULE Hd6309 -------------------------------
(***************************************************************************)
(* The HD6309 core (hd6309_core.cpp, hd6309_opcodes.cpp): registers,       *)
(* addressing, the three pages of opcodes, the stack frames of interrupts  *)
(* and one call of step().  Every operator takes the machine record and    *)
(* returns the next one; a value read, fetched or computed on the way is   *)
(* left in the field op.  The processor's own fields:                      *)
(*   r     the registers but CC, by name      cc    the flags that are 1   *)
(*   irq, firq, nmi   irq_line_, firq_line_, nmi_pending_                  *)
(*   wait  wait_sync_        cwai  cwai_pushed_pending_     halted         *)
(*   at    insn_pc_          dead  the emulator was killed (see do_divq)   *)
(*   rise  bytes a block move writes before a memory callback raises /IRQ  *)
(*         (0: none does); SystemBus never does                            *)
(* Cycle counts and the reason why run() stopped are left out.             *)
(***************************************************************************)
EXTENDS Hd6309Alu, SystemBus, SequencesExt

RegsByte == {"a", "b", "e", "f", "dp", "md"}
RegsWord == {"pc", "x", "y", "u", "s", "v"}
Width(reg) == IF reg \in RegsByte \cup {"cc"} THEN 8 ELSE 16

Native(m) == Bit(m.r.md, 0)
FirqFull(m) == Bit(m.r.md, 1)

Get(m, reg) ==
    CASE reg = "d"  -> m.r.a * 256 + m.r.b
      [] reg = "w"  -> m.r.e * 256 + m.r.f
      [] reg = "cc" -> CcByte(m.cc)
      [] OTHER      -> m.r[reg]

Set(m, reg, v) ==
    CASE reg = "d"  -> [m EXCEPT !.r.a = v \div 256, !.r.b = v % 256]
      [] reg = "w"  -> [m EXCEPT !.r.e = v \div 256, !.r.f = v % 256]
      [] reg = "cc" -> [m EXCEPT !.cc = CcOf(v)]
      [] OTHER      -> [m EXCEPT !.r[reg] = v]

\* a register and the flags from the result of an operation
Store(m, reg, res) == [Set(m, reg, res.v) EXCEPT !.cc = res.cc]

-----------------------------------------------------------------------------
(* Memory and fetch                                                        *)

\* a word of two bytes, the high one read first
Both(hi, lo) == [lo EXCEPT !.op = hi.op * 256 + lo.op]

read16(m, a) == LET Low(hi) == Both(hi, read8(hi, (a + 1) % 65536)) IN Low(read8(m, a))

write16(m, a, v) == write8(write8(m, a, v \div 256), (a + 1) % 65536, v % 256)

Read(m, a, w) == IF w = 8 THEN read8(m, a) ELSE read16(m, a)
Write(m, a, v, w) == IF w = 8 THEN write8(m, a, v) ELSE write16(m, a, v)

fetch8(m) == [read8(m, m.r.pc) EXCEPT !.r.pc = (@ + 1) % 65536]
fetch16(m) == LET Low(hi) == Both(hi, fetch8(hi)) IN Low(fetch8(m))
Fetch(m, w) == IF w = 8 THEN fetch8(m) ELSE fetch16(m)

-----------------------------------------------------------------------------
(* Addressing: the effective address is left in op                         *)

\* Mutant: an effective address is not reduced to 16 bits.
NoWrap(m, a) == [m EXCEPT !.op = a]
At(m, a) == [m EXCEPT !.op = a % 65536]
PostInc(m, reg, k) == [Set(m, reg, (Get(m, reg) + k) % 65536) EXCEPT !.op = Get(m, reg)]
PreDec(m, reg, k) == LET a == (Get(m, reg) - k) % 65536 IN [Set(m, reg, a) EXCEPT !.op = a]
OffsetBy(m, base, w) == LET To(n) == At(n, Get(n, base) + Signed(w, n.op)) IN To(Fetch(m, w))

\* the W forms share one code with the forms of the other registers
WForms == (143 :> "0") @@ (175 :> "n16") @@ (207 :> "++") @@ (239 :> "--")
          @@ (144 :> "0") @@ (176 :> "n16") @@ (208 :> "++") @@ (240 :> "--")

ea_indexed(m) ==
    LET Reg(pb) == <<"x", "y", "u", "s">>[((pb \div 32) % 4) + 1]
        WForm(n) == CASE WForms[n.op] = "0"   -> At(n, Get(n, "w"))
                      [] WForms[n.op] = "n16" -> OffsetBy(n, "w", 16)
                      [] WForms[n.op] = "++"  -> PostInc(n, "w", 2)
                      [] WForms[n.op] = "--"  -> PreDec(n, "w", 2)
        Form(n, reg, k, base) ==
            CASE k \in {0, 1}   -> PostInc(n, reg, k + 1)
              [] k \in {2, 3}   -> PreDec(n, reg, k - 1)
              [] k = 4          -> At(n, base)
              [] k = 5          -> At(n, base + Signed(8, n.r.b))
              [] k = 6          -> At(n, base + Signed(8, n.r.a))
              [] k = 7          -> At(n, base + Signed(8, n.r.e))
              [] k \in {8, 9}   -> OffsetBy(n, reg, 8 * (k - 7))
              [] k = 10         -> At(n, base + Signed(8, n.r.f))
              [] k = 11         -> At(n, base + Signed(16, Get(n, "d")))
              [] k \in {12, 13} -> OffsetBy(n, "pc", 8 * (k - 11))
              [] k = 14         -> At(n, base + Signed(16, Get(n, "w")))
              [] k = 15         -> fetch16(n)
        Direct(n, reg) ==
            IF n.op < 128 THEN At(n, Get(n, reg) + Signed(5, n.op % 32))
            ELSE IF n.op \in DOMAIN WForms THEN WForm(n)
            ELSE Form(n, reg, n.op % 16, Get(n, reg))
        Indirect(pb) == pb >= 128 /\ IF pb \in DOMAIN WForms THEN pb % 16 = 0 ELSE Bit(pb, 4)
        Followed(pb, ea) == IF Indirect(pb) THEN read16(ea, ea.op) ELSE ea
        Address(n) == Followed(n.op, Direct(n, Reg(n.op)))
    IN  Address(fetch8(m))

Ea(m, mode) ==
    CASE mode = "dir" -> LET InPage(n) == At(n, n.r.dp * 256 + n.op) IN InPage(fetch8(m))
      [] mode = "ext" -> fetch16(m)
      [] mode = "idx" -> ea_indexed(m)

Operand(m, mode, w) ==
    LET From(n) == Read(n, n.op, w) IN IF mode = "imm" THEN Fetch(m, w) ELSE From(Ea(m, mode))

-----------------------------------------------------------------------------
(* Stacks and register codes                                               *)

push8(m, sp, v) == LET Put(n) == write8(n, n.op, v) IN Put(PreDec(m, sp, 1))
pull8(m, sp) == LET Take(n) == read8(n, n.op) IN Take(PostInc(m, sp, 1))
push16(m, sp, v) == push8(push8(m, sp, v % 256), sp, v \div 256)
pull16(m, sp) == LET Low(hi) == Both(hi, pull8(hi, sp)) IN Low(pull8(m, sp))

Push(m, sp, reg) == IF Width(reg) = 8 THEN push8(m, sp, Get(m, reg)) ELSE push16(m, sp, Get(m, reg))
Pull(m, sp, reg) ==
    LET Into(n) == Set(n, reg, n.op) IN Into(IF Width(reg) = 8 THEN pull8(m, sp) ELSE pull16(m, sp))
PushAll(m, sp, regs) == FoldLeft(LAMBDA n, reg : Push(n, sp, reg), m, regs)
PullAll(m, sp, regs) == FoldLeft(LAMBDA n, reg : Pull(n, sp, reg), m, regs)

\* the registers of a PSH/PUL postbyte, in the order they are pushed
ListBit == [pc |-> 7, u |-> 6, s |-> 6, y |-> 5, x |-> 4, dp |-> 3, b |-> 2, a |-> 1, cc |-> 0]
RegList(sp, pb) ==
    LET all == <<"pc", IF sp = "s" THEN "u" ELSE "s", "y", "x", "dp", "b", "a", "cc">>
    IN  SelectSeq(all, LAMBDA reg : Bit(pb, ListBit[reg]))

RegCode == <<"d", "x", "y", "u", "s", "pc", "w", "v", "a", "b", "cc", "dp", "none", "none", "e", "f">>

get_reg_by_code(m, c) ==
    LET reg == RegCode[c + 1]
    IN  IF reg = "none" THEN 65535
        ELSE IF c <= 7 THEN Get(m, reg) ELSE 65280 + Get(m, reg)
get_reg_raw8(m, c) == IF c \in {8, 9, 10, 11, 14} THEN Get(m, RegCode[c + 1]) ELSE m.r.f
set_reg_by_code(m, c, v) ==
    LET reg == RegCode[c + 1]
    IN  IF reg = "none" THEN m ELSE Set(m, reg, v % 2^Width(reg))

do_tfr_exg(m, exg) ==
    LET Move(n, src, dst) ==
            LET moved == set_reg_by_code(n, dst, get_reg_by_code(n, src))
            IN  IF exg THEN set_reg_by_code(moved, src, get_reg_by_code(n, dst)) ELSE moved
        By(n) == Move(n, n.op \div 16, n.op % 16)
    IN  By(fetch8(m))

-----------------------------------------------------------------------------
(* Interrupt frames                                                        *)

Vec == [trap |-> 65520, swi3 |-> 65522, swi2 |-> 65524, firq |-> 65526,
        irq |-> 65528, swi |-> 65530, nmi |-> 65532, reset |-> 65534]

Jump(m, a) == [m EXCEPT !.r.pc = a % 65536]
Through(m, vec) == LET To(n) == Jump(n, n.op) IN To(read16(m, vec))

FullFrame(m) == <<"pc", "u", "y", "x", "dp">> \o (IF Native(m) THEN <<"f", "e">> ELSE <<>>) \o <<"b", "a", "cc">>

push_full_set(m) == PushAll([m EXCEPT !.cc = @ \cup {"E"}], "s", FullFrame(m))
push_partial_set(m) == PushAll([m EXCEPT !.cc = @ \ {"E"}], "s", <<"pc", "cc">>)

enter_interrupt(m, vec, masks, full) ==
    LET n == IF m.cwai THEN m ELSE IF full THEN push_full_set(m) ELSE push_partial_set(m)
    IN  Through([n EXCEPT !.cwai = FALSE, !.cc = @ \cup masks], vec)

\* illegal_opcode_trap (MD bit 6) and division_by_zero_trap (bit 7)
Trap(m, bit) ==
    enter_interrupt([m EXCEPT !.r.md = IF Bit(@, bit) THEN @ ELSE @ + 2^bit], Vec.trap, {"I", "F"}, TRUE)

Due(m) ==
    IF m.nmi THEN "nmi"
    ELSE IF m.firq /\ "F" \notin m.cc THEN "firq"
    ELSE IF m.irq /\ "I" \notin m.cc THEN "irq"
    ELSE "none"

\* Mutant: an interrupt taken leaves the CPU waiting in SYNC or CWAI.
StillWaiting(m) ==
    CASE Due(m) = "nmi"  -> enter_interrupt([m EXCEPT !.nmi = FALSE], Vec.nmi, {"I", "F"}, TRUE)
      [] Due(m) = "firq" -> enter_interrupt(m, Vec.firq, {"I", "F"}, FirqFull(m))
      [] Due(m) = "irq"  -> enter_interrupt(m, Vec.irq, {"I"}, TRUE)
service_interrupts(m) ==
    LET n == [m EXCEPT !.wait = FALSE]
    IN  CASE Due(m) = "nmi"  -> enter_interrupt([n EXCEPT !.nmi = FALSE], Vec.nmi, {"I", "F"}, TRUE)
          [] Due(m) = "firq" -> enter_interrupt(n, Vec.firq, {"I", "F"}, FirqFull(m))
          [] Due(m) = "irq"  -> enter_interrupt(n, Vec.irq, {"I"}, TRUE)

rti(m) ==
    LET Rest(n) == PullAll(n, "s", IF "E" \in n.cc THEN Tail(Reverse(FullFrame(n))) ELSE <<"pc">>)
    IN  Rest(Pull(m, "s", "cc"))

cwai(m) ==
    LET Under(n) == push_full_set([n EXCEPT !.cc = @ \cap CcOf(n.op)])
    IN  [Under(fetch8(m)) EXCEPT !.cwai = TRUE, !.wait = TRUE]

swi(m, vec, masks) == LET n == push_full_set(m) IN Through([n EXCEPT !.cc = @ \cup masks], vec)

-----------------------------------------------------------------------------
(* The longer instructions                                                 *)

\* Mutant: an interrupted TFM goes on with the next instruction.
NotRewound(m, stops) == [m EXCEPT !.rise = 0]
\* an interrupted TFM is executed again, from the registers it has left
Rewound(m, stops) == [m EXCEPT !.rise = 0, !.r.pc = IF stops THEN m.at ELSE @]

\* TFM: pointers are kept in locals and written back with W after every byte.
do_tfm(m, o) ==
    LET ss == CASE o \in {56, 58} -> 1 [] o = 57 -> -1 [] OTHER -> 0
        ds == CASE o \in {56, 59} -> 1 [] o = 57 -> -1 [] OTHER -> 0
        Copied(n, to) == write8(n, to, n.op)
        Move(n, src, dst, total) ==
            LET Byte(l, i) ==
                    LET at == [Copied(read8(l.m, l.sp), l.dp) EXCEPT !.irq = @ \/ (i = n.rise)]
                        sp == (l.sp + ss) % 65536
                        dp == (l.dp + ds) % 65536
                    IN  [m |-> Set(set_reg_by_code(set_reg_by_code(at, src, sp), dst, dp), "w", total - i), sp |-> sp, dp |-> dp]
                stops == n.rise \in 1..(total - 1) /\ "I" \notin n.cc
                moved == FoldLeft(Byte, [m |-> n, sp |-> get_reg_by_code(n, src), dp |-> get_reg_by_code(n, dst)],
                                  [i \in 1..(IF stops THEN n.rise ELSE total) |-> i])
            IN  Rewound(moved.m, stops)
        By(n) == Move(n, n.op \div 16, n.op % 16, Get(n, "w"))
    IN  By(fetch8(m))

do_bitbit(m, o) ==
    LET With(v, i, on) == IF Bit(v, i) = on THEN v ELSE IF on THEN v + 2^i ELSE v - 2^i
        New(rbit, mbit) == CASE o = 48 -> rbit /\ mbit   [] o = 49 -> rbit /\ ~mbit
                             [] o = 50 -> rbit \/ mbit   [] o = 51 -> rbit \/ ~mbit
                             [] o = 52 -> rbit # mbit    [] o = 53 -> rbit # (~mbit)
                             [] o = 54 -> mbit           [] OTHER -> rbit
        Change(n, a, reg, rb, mb) ==
            IF o = 55 THEN write8(n, a, With(n.op, mb, Bit(Get(n, reg), rb)))
            ELSE Set(n, reg, With(Get(n, reg), rb, New(Bit(Get(n, reg), rb), Bit(n.op, mb))))
        Reg(pb) == CASE pb \div 64 = 1 -> "a" [] pb \div 64 = 2 -> "b" [] OTHER -> "cc"
        OnByte(pb, n) == Change(read8(n, n.op), n.op, Reg(pb), pb % 8, (pb \div 8) % 8)
        By(n) == OnByte(n.op, Ea(n, "dir"))
    IN  By(fetch8(m))

do_divd(m) ==
    LET by == Signed(8, m.op)
        of == Signed(16, Get(m, "d"))
        q == Divided(8, Quotient(of, by), m.cc)
    IN  IF by = 0 THEN Trap(m, 7)
        ELSE [m EXCEPT !.r.b = q.v, !.r.a = Remainder(of, by) % 256, !.cc = q.cc]

\* -2^31 / -1 overflows int32_t, which C++ leaves undefined; the processors
\* the emulator runs on raise a fault that ends it.
do_divq(m) ==
    LET by == Signed(16, m.op)
        of == Signed(16, Get(m, "d")) * 65536 + Get(m, "w")
        q == Divided(16, Quotient(of, by), m.cc)
    IN  IF by = 0 THEN Trap(m, 7)
        ELSE IF by = -1 /\ Get(m, "d") = 32768 /\ Get(m, "w") = 0 THEN [m EXCEPT !.dead = TRUE]
        ELSE Set(Store(m, "d", q), "w", Remainder(of, by) % 65536)

do_muld(m) ==
    LET p == Signed(16, Get(m, "d")) * Signed(16, m.op)
        n == Set(Set(m, "d", (p \div 65536) % 65536), "w", p % 65536)
    IN  [n EXCEPT !.cc = (@ \ {"N", "Z", "V", "C"}) \cup OnIf("N", p < 0) \cup OnIf("Z", p = 0)]

\* the 32-bit load and store, D first; the flags of all four bytes
QFlags(m) == (m.cc \ {"N", "Z", "V"}) \cup OnIf("N", m.r.a >= 128)
             \cup OnIf("Z", Get(m, "d") = 0 /\ Get(m, "w") = 0)
ldq(m, mode) ==
    LET Flagged(n) == [n EXCEPT !.cc = QFlags(n)]
        Load(hi, lo) == Flagged(Set(Set(lo, "d", hi.op), "w", lo.op))
        Imm(hi) == Load(hi, fetch16(hi))
        Mem(hi, a) == Load(hi, read16(hi, (a + 2) % 65536))
        From(n) == Mem(read16(n, n.op), n.op)
    IN  IF mode = "imm" THEN Imm(fetch16(m)) ELSE From(Ea(m, mode))
stq(m, mode) ==
    LET To(n) == [write16(write16(n, n.op, Get(n, "d")), (n.op + 2) % 65536, Get(n, "w")) EXCEPT !.cc = QFlags(n)]
    IN  To(Ea(m, mode))

\* ADDR..CMPR: as wide as the destination; an 8-bit one takes the low byte of its own kind
RegRegOp == <<"ADD", "ADC", "SUB", "SBC", "AND", "OR", "EOR", "CMP">>
reg_reg(m, o) ==
    LET op == RegRegOp[o - 47]
        Computed(n, src, dst) ==
            IF dst <= 7 THEN apply_alu(op, 16, get_reg_by_code(n, dst), get_reg_by_code(n, src), n.cc)
            ELSE apply_alu(op, 8, get_reg_raw8(n, dst), get_reg_raw8(n, src), n.cc)
        Keep(n, dst, res) == set_reg_by_code([n EXCEPT !.cc = res.cc], dst, res.v)
        By(n) == Keep(n, n.op % 16, Computed(n, n.op \div 16, n.op % 16))
    IN  By(fetch8(m))

-----------------------------------------------------------------------------
(* The opcode pages.  An opcode's high digit is its row (addressing mode,  *)
(* accumulator), its low digit the column (operation); an instruction is   *)
(* [do, op, reg, mode].  What no rule names is an illegal opcode.          *)

In(do, op, reg, mode) == [do |-> do, op |-> op, reg |-> reg, mode |-> mode]
Illegal == In("trap", "", "", "")
ModeOf(row) == <<"imm", "dir", "idx", "ext">>[(row % 4) + 1]

RmwCol == (0 :> "NEG") @@ (3 :> "COM") @@ (4 :> "LSR") @@ (6 :> "ROR") @@ (7 :> "ASR") @@ (8 :> "ASL")
          @@ (9 :> "ROL") @@ (10 :> "DEC") @@ (12 :> "INC") @@ (13 :> "TST") @@ (15 :> "CLR")
LogicCol == (1 :> "OR") @@ (2 :> "AND") @@ (5 :> "EOR") @@ (11 :> "BIT")
AluCol == (0 :> "SUB") @@ (1 :> "CMP") @@ (2 :> "SBC") @@ (4 :> "AND") @@ (5 :> "BIT") @@ (6 :> "LD")
          @@ (8 :> "EOR") @@ (9 :> "ADC") @@ (10 :> "OR") @@ (11 :> "ADD")

\* the operations that stand alone, by page (0, $10, $11) and opcode
Single == (<<0, 18>> :> "NOP") @@ (<<0, 19>> :> "SYNC") @@ (<<0, 20>> :> "SEXW") @@ (<<0, 22>> :> "LBRA")
    @@ (<<0, 23>> :> "LBSR") @@ (<<0, 25>> :> "DAA") @@ (<<0, 26>> :> "ORCC") @@ (<<0, 28>> :> "ANDCC")
    @@ (<<0, 29>> :> "SEX") @@ (<<0, 30>> :> "EXG") @@ (<<0, 31>> :> "TFR") @@ (<<0, 57>> :> "RTS")
    @@ (<<0, 58>> :> "ABX") @@ (<<0, 59>> :> "RTI") @@ (<<0, 60>> :> "CWAI") @@ (<<0, 61>> :> "MUL")
    @@ (<<0, 63>> :> "SWI") @@ (<<16, 63>> :> "SWI2") @@ (<<17, 63>> :> "SWI3")
    @@ (<<0, 141>> :> "BSR") @@ (<<17, 60>> :> "BITMD") @@ (<<17, 61>> :> "LDMD")
Stacking == (<<0, 52>> :> <<"PSH", "s">>) @@ (<<0, 53>> :> <<"PUL", "s">>)
    @@ (<<0, 54>> :> <<"PSH", "u">>) @@ (<<0, 55>> :> <<"PUL", "u">>)
    @@ (<<16, 56>> :> <<"PSHW", "s">>) @@ (<<16, 57>> :> <<"PULW", "s">>)
    @@ (<<16, 58>> :> <<"PSHW", "u">>) @@ (<<16, 59>> :> <<"PULW", "u">>)

\* a load, compare or store of a word register, in the columns 12 to 15; no immediate store
WordCol(row, col, ldst, cmp) ==
    CASE col = 12 -> In("alu", "CMP", cmp, ModeOf(row))
      [] col = 14 -> In("alu", "LD", ldst, ModeOf(row))
      [] col = 15 /\ row % 4 # 0 -> In("st", "", ldst, ModeOf(row))
      [] OTHER -> Illegal

\* rows 8 to F, immediate to extended, first with A and then with B
Page0Acc(row, col) ==
    LET acc == IF row < 12 THEN "a" ELSE "b"
        mode == ModeOf(row)
    IN  CASE col \in DOMAIN AluCol -> In("alu", AluCol[col], acc, mode)
          [] col = 7 /\ mode # "imm" -> In("st", "", acc, mode)
          [] col = 3 -> In("alu", IF row < 12 THEN "SUB" ELSE "ADD", "d", mode)
          [] col = 13 /\ row \in 9..11 -> In("jsr", "", "", mode)
          [] col = 12 /\ row >= 12 -> In("alu", "LD", "d", mode)
          [] col = 13 /\ row = 12 -> In("ldq", "", "", "imm")
          [] col = 13 /\ row > 12 -> In("st", "", "d", mode)
          [] OTHER -> WordCol(row, col, IF row < 12 THEN "x" ELSE "u", "x")

Page0(o) ==
    LET row == o \div 16
        col == o % 16
    IN  CASE row \in {0, 6, 7} /\ col \in DOMAIN RmwCol   -> In("rmw", RmwCol[col], "mem", IF row = 0 THEN "dir" ELSE ModeOf(row))
          [] row \in {0, 6, 7} /\ col \in DOMAIN LogicCol -> In("logic", LogicCol[col], "mem", IF row = 0 THEN "dir" ELSE ModeOf(row))
          [] row \in {0, 6, 7} /\ col = 14 -> In("jmp", "", "", IF row = 0 THEN "dir" ELSE ModeOf(row))
          [] row \in {4, 5} /\ col \in DOMAIN RmwCol -> In("rmw", RmwCol[col], IF row = 4 THEN "a" ELSE "b", "inh")
          [] row = 2 -> In("bcc", col, "", "rel8")
          [] row = 3 /\ col < 4 -> In("lea", "", <<"x", "y", "s", "u">>[col + 1], "idx")
          [] row >= 8 -> Page0Acc(row, col)
          [] OTHER -> Illegal

Page10(o) ==
    LET row == o \div 16
        col == o % 16
    IN  CASE row = 2 /\ col > 0 -> In("bcc", col, "", "rel16")
          [] row = 3 /\ col < 8 -> In("regreg", o, "", "")
          [] row = 4 /\ col \in DOMAIN RmwCol -> In("rmw", RmwCol[col], "d", "inh")
          [] row = 5 /\ col \in DOMAIN RmwCol \ {0, 7, 8} -> In("rmw", RmwCol[col], "w", "inh")
          [] row \in 8..11 /\ col \in DOMAIN AluCol -> In("alu", AluCol[col], IF col \in {0, 1, 6, 11} THEN "w" ELSE "d", ModeOf(row))
          [] row \in 8..11 /\ col = 3 -> In("alu", "CMP", "d", ModeOf(row))
          [] row \in 9..11 /\ col = 7 -> In("st", "", "w", ModeOf(row))
          [] row \in 8..11 /\ col \in 12..15 -> WordCol(row, col, "y", "y")
          [] row \in 13..15 /\ col = 12 -> In("ldq", "", "", ModeOf(row))
          [] row \in 13..15 /\ col = 13 -> In("stq", "", "", ModeOf(row))
          [] row \in 12..15 /\ col \in {14, 15} -> WordCol(row, col, "s", "s")
          [] OTHER -> Illegal

Page11(o) ==
    LET row == o \div 16
        col == o % 16
        acc == IF row \in {4} \cup 8..11 THEN "e" ELSE "f"
    IN  CASE row = 3 /\ col < 8 -> In("bit", o, "", "")
          [] row = 3 /\ col \in 8..11 -> In("tfm", o, "", "")
          [] row \in {4, 5} /\ col \in {3, 10, 12, 13, 15} -> In("rmw", RmwCol[col], acc, "inh")
          [] row >= 8 /\ col \in {0, 1, 6, 11} -> In("alu", AluCol[col], acc, ModeOf(row))
          [] row >= 8 /\ row % 4 # 0 /\ col = 7 -> In("st", "", acc, ModeOf(row))
          [] row \in 8..11 /\ col = 3 -> In("alu", "CMP", "u", ModeOf(row))
          [] row \in 8..11 /\ col = 12 -> In("alu", "CMP", "s", ModeOf(row))
          [] row \in 8..11 /\ col \in 13..15 -> In(<<"divd", "divq", "muld">>[col - 12], "", "", ModeOf(row))
          [] OTHER -> Illegal

Insn(page, o) ==
    IF <<page, o>> \in DOMAIN Single THEN In("single", Single[<<page, o>>], "", "")
    ELSE IF <<page, o>> \in DOMAIN Stacking THEN In("stack", Stacking[<<page, o>>][1], Stacking[<<page, o>>][2], "")
    ELSE IF page = 0 THEN Page0(o) ELSE IF page = 16 THEN Page10(o) ELSE Page11(o)

-----------------------------------------------------------------------------
(* execute(): the instruction i whose opcode bytes have been fetched       *)

Branch(m, w, taken) ==
    LET By(n) == IF taken THEN Jump(n, n.r.pc + Signed(w, n.op)) ELSE n IN By(Fetch(m, w))
Call(m, w) == LET By(n) == Jump(push16(n, "s", n.r.pc), n.r.pc + Signed(w, n.op)) IN By(Fetch(m, w))
Extended(m, reg16, v) == [Set(m, reg16, v) EXCEPT !.cc = Logic(16, v, m.cc).cc]

ExecSingle(m, op) ==
    LET ByteOp(n) ==
            CASE op = "ORCC"  -> [n EXCEPT !.cc = @ \cup CcOf(n.op)]
              [] op = "ANDCC" -> [n EXCEPT !.cc = @ \cap CcOf(n.op)]
              [] op = "BITMD" -> [n EXCEPT !.cc = (@ \ {"Z"}) \cup OnIf("Z", n.r.md & n.op = 0), !.r.md = @ - (@ & n.op)]
              [] op = "LDMD"  -> [n EXCEPT !.r.md = n.op]
    IN  CASE op = "NOP"  -> m
          [] op = "SYNC" -> [m EXCEPT !.wait = TRUE]
          [] op = "SEXW" -> Extended(m, "d", IF m.r.e >= 128 THEN 65535 ELSE 0)
          [] op = "SEX"  -> Extended(m, "d", IF m.r.b >= 128 THEN 65280 + m.r.b ELSE m.r.b)
          [] op = "LBRA" -> Branch(m, 16, TRUE)
          [] op = "BSR"  -> Call(m, 8)
          [] op = "LBSR" -> Call(m, 16)
          [] op = "DAA"  -> Store(m, "a", daa(m.r.a, m.cc))
          [] op = "EXG"  -> do_tfr_exg(m, TRUE)
          [] op = "TFR"  -> do_tfr_exg(m, FALSE)
          [] op = "RTS"  -> Pull(m, "s", "pc")
          [] op = "ABX"  -> [m EXCEPT !.r.x = (@ + m.r.b) % 65536]
          [] op = "RTI"  -> rti(m)
          [] op = "CWAI" -> cwai(m)
          [] op = "MUL"  -> LET p == m.r.a * m.r.b
                            IN  [Set(m, "d", p) EXCEPT !.cc = (@ \ {"Z", "C"}) \cup OnIf("Z", p = 0) \cup OnIf("C", Bit(p, 7))]
          [] op = "SWI"  -> swi(m, Vec.swi, {"I", "F"})
          [] op = "SWI2" -> swi(m, Vec.swi2, {})
          [] op = "SWI3" -> swi(m, Vec.swi3, {})
          [] op \in {"ORCC", "ANDCC", "BITMD", "LDMD"} -> ByteOp(fetch8(m))

ExecStack(m, op, sp) ==
    LET Listed(n) == IF op = "PSH" THEN PushAll(n, sp, RegList(sp, n.op)) ELSE PullAll(n, sp, Reverse(RegList(sp, n.op)))
    IN  CASE op \in {"PSH", "PUL"} -> Listed(fetch8(m))
          [] op = "PSHW" -> Push(m, sp, "w")
          [] op = "PULW" -> Pull(m, sp, "w")

ExecRmw(m, i) ==
    LET Done(n, a, res) == IF i.op = "TST" THEN [n EXCEPT !.cc = res.cc] ELSE write8([n EXCEPT !.cc = res.cc], a, res.v)
        OnByte(n, a) == Done(n, a, rmw(i.op, 8, n.op, n.cc))
        OnMem(n) == OnByte(read8(n, n.op), n.op)
    IN  IF i.mode = "inh" THEN Store(m, i.reg, rmw(i.op, Width(i.reg), Get(m, i.reg), m.cc))
        ELSE OnMem(Ea(m, i.mode))

ExecLogic(m, i) ==
    LET Done(n, a, res) == IF i.op = "BIT" THEN [n EXCEPT !.cc = res.cc] ELSE write8([n EXCEPT !.cc = res.cc], a, res.v)
        OnByte(mask, n, a) == Done(n, a, apply_alu(i.op, 8, n.op, mask, n.cc))
        OnMem(mask, n) == OnByte(mask, read8(n, n.op), n.op)
        By(n) == OnMem(n.op, Ea(n, i.mode))
    IN  By(fetch8(m))

ExecAlu(m, i) ==
    LET On(n) == Store(n, i.reg, apply_alu(i.op, Width(i.reg), Get(n, i.reg), n.op, n.cc))
    IN  On(Operand(m, i.mode, Width(i.reg)))

ExecSt(m, i) ==
    LET w == Width(i.reg)
        To(n) == [Write(n, n.op, Get(n, i.reg), w) EXCEPT !.cc = Logic(w, Get(n, i.reg), n.cc).cc]
    IN  To(Ea(m, i.mode))

ExecLea(m, i) ==
    LET Load(n) == [Set(n, i.reg, n.op) EXCEPT !.cc = IF i.reg \in {"x", "y"} THEN (@ \ {"Z"}) \cup OnIf("Z", n.op = 0) ELSE @]
    IN  Load(Ea(m, "idx"))

Perform(m, i) ==
    CASE i.do = "alu"    -> ExecAlu(m, i)
      [] i.do = "st"     -> ExecSt(m, i)
      [] i.do = "rmw"    -> ExecRmw(m, i)
      [] i.do = "logic"  -> ExecLogic(m, i)
      [] i.do = "bcc"    -> Branch(m, IF i.mode = "rel8" THEN 8 ELSE 16, test_condition(i.op, m.cc))
      [] i.do = "jmp"    -> LET To(n) == Jump(n, n.op) IN To(Ea(m, i.mode))
      [] i.do = "jsr"    -> LET To(n) == Jump(push16(n, "s", n.r.pc), n.op) IN To(Ea(m, i.mode))
      [] i.do = "lea"    -> ExecLea(m, i)
      [] i.do = "single" -> ExecSingle(m, i.op)
      [] i.do = "stack"  -> ExecStack(m, i.op, i.reg)
      [] i.do = "regreg" -> reg_reg(m, i.op)
      [] i.do = "bit"    -> do_bitbit(m, i.op)
      [] i.do = "tfm"    -> do_tfm(m, i.op)
      [] i.do = "ldq"    -> ldq(m, i.mode)
      [] i.do = "stq"    -> stq(m, i.mode)
      [] i.do = "divd"   -> do_divd(Operand(m, i.mode, 8))
      [] i.do = "divq"   -> do_divq(Operand(m, i.mode, 16))
      [] i.do = "muld"   -> do_muld(Operand(m, i.mode, 16))
      [] i.do = "trap"   -> Trap(m, 6)

\* the byte after a prefix is an opcode of the prefix's page
Decoded(m, page) == Perform(m, Insn(page, m.op))
Prefixed(m) == m.op \in {16, 17}

execute(m) ==
    LET First(n) == Decoded(IF Prefixed(n) THEN fetch8(n) ELSE n, IF Prefixed(n) THEN n.op ELSE 0)
    IN  First(fetch8([m EXCEPT !.at = m.r.pc]))
=============================================================================
