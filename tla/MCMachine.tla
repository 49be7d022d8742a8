------------------------------ MODULE MCMachine ------------------------------
(***************************************************************************)
(* Programs for the processor, chosen by the initial state and compared    *)
(* with what arithmetic says, and a machine with interrupting devices.     *)
(* A program [test, k, x, y] starts at Origin in flat RAM with a value in  *)
(* the accumulators and halts at Stop; "bus" runs on the system bus.       *)
(***************************************************************************)
EXTENDS Machine

CONSTANTS Bytes, Words,  \* operands: the values where a sign or a carry turns
          Digits,        \* decimal operands 0..99
          MovedBytes     \* the longest block move

VARIABLE scene

mcvars == <<m, frames, left, scene>>

Origin == 4096
Stop == 8192
Handler == 12288
Stack == 16384

Test(test, k, x, y) == [test |-> test, k |-> k, x |-> x, y |-> y]
Hi(v) == (v % 65536) \div 256
Lo(v) == v % 256
Bcd(n) == (n \div 10) * 16 + (n % 10)

\* LDB #, LDA #, LDX #0, LDY #0 and LDU #0 or LDS #0: a program disturbs what it saved
Clobber(k) == <<198, 90, 134, 165, 142, 0, 0, 16, 142, 0, 0>> \o (IF k = 52 THEN <<206, 0, 0>> ELSE <<16, 206, 0, 0>>)
WideCode(k, y) ==
    CASE k = "add" -> <<203, Lo(y), 137, Hi(y)>>  \* ADDB ADCA
      [] k = "sub" -> <<192, Lo(y), 130, Hi(y)>>  \* SUBB SBCA
      [] k = "asl" -> <<88, 73>>                  \* ASLB ROLA
      [] k = "lsr" -> <<68, 86>>                  \* LSRA RORB
      [] k = "asr" -> <<71, 86>>                  \* ASRA RORB
      [] k = "neg" -> <<64, 80, 130, 0>>          \* NEGA NEGB SBCA #0

\* the program of a test
Code(t) ==
    CASE t.test = "bcd"   -> <<137, Bcd(t.y), 25>>                              \* ADCA # DAA
      [] t.test = "bra8"  -> <<129, t.y, 32 + t.k, 1, 92>>                      \* CMPA # Bcc INCB
      [] t.test = "bra16" -> <<16, 131, Hi(t.y), Lo(t.y), 16, 32 + t.k, 0, 2, 17, 76>> \* CMPD # LBcc INCE
      [] t.test = "wide"  -> WideCode(t.k, t.y)
      [] t.test = "divd"  -> <<17, 141, t.y>>
      [] t.test = "divq"  -> <<17, 142, Hi(t.y), Lo(t.y)>>
      [] t.test = "muld"  -> <<17, 143, Hi(t.y), Lo(t.y)>>
      [] t.test = "push"  -> <<t.k, t.y>> \o Clobber(t.k) \o <<t.k + 1, t.y>>        \* PSHx .. PULx
      [] t.test = "exg"   -> <<30, t.y, 30, t.y>>
      [] t.test = "tfm"   -> <<17, t.k, 18>>                                    \* TFM X,Y
      [] t.test = "any"   -> (IF t.k = 0 THEN <<>> ELSE <<t.k>>) \o <<t.x, t.y, 143, 254>>

Word(a, v) == (a :> Hi(v)) @@ ((a + 1) :> Lo(v))
Bytecode(a, code) == [b \in a..(a + Len(code) - 1) |-> code[b - a + 1]]

\* after the program a jump to Stop; the handlers return, a trap goes to Stop
Jmp(a) == <<126, Hi(a), Lo(a)>>
Source(t) == [a \in (t.x..(t.x + MovedBytes)) \cup ((t.x - MovedBytes)..t.x) |-> (a % 200) + 1]
FlatRam(t) ==
    Bytecode(Origin, Code(t) \o Jmp(Stop)) @@ (Handler :> 59) @@ Word(Vec.trap, Stop)
    @@ Word(Vec.irq, Handler) @@ (IF t.test = "tfm" THEN Source(t) ELSE << >>)

\* the accumulators hold the first operand; W the count of a move
FlatRegs(t) ==
    LET w == CASE t.test = "tfm" -> t.y.n [] t.test = "any" -> 9 [] t.test = "bra16" -> 0 [] OTHER -> 65535
        d == CASE t.test = "bcd" -> 256 * Bcd(t.x) [] t.test = "bra8" -> 256 * t.x [] t.test = "any" -> 32896 [] OTHER -> t.x
    IN  [a |-> Hi(d), b |-> Lo(d), e |-> Hi(w), f |-> Lo(w), dp |-> 32, md |-> 0, v |-> 7,
         pc |-> Origin, s |-> Stack, u |-> Stack - 1024,
         x |-> IF t.test = "tfm" THEN t.x ELSE 65535,
         y |-> IF t.test = "tfm" THEN t.y.dst ELSE 32768]

Flat(t) ==
    [PowerOn EXCEPT !.r = FlatRegs(t), !.ram = FlatRam(t),
                    !.cc = IF t.test = "bcd" THEN t.k ELSE {},
                    !.rise = IF t.test = "tfm" THEN t.y.rise ELSE 0]

Postbytes == {0, 15, 16, 31} \cup 128..255
TwoBytes == {18, 32, 52, 132, 159, 203, 240}
Tests ==
    {Test("bcd", c, x, y) : c \in {{}, {"C"}}, x \in Digits, y \in Digits}
    \cup {Test("bra8", k, x, y) : k \in 0..15, x \in Bytes, y \in Bytes}
    \cup {Test("bra16", k, x, y) : k \in 1..15, x \in Words, y \in Words}
    \cup {Test("wide", k, x, y) : k \in {"add", "sub"}, x \in Words, y \in Words}
    \cup {Test("wide", k, x, 0) : k \in {"asl", "lsr", "asr", "neg"}, x \in Words}
    \cup {Test("divd", 0, x, y) : x \in Words, y \in Bytes}
    \cup {Test("divq", 0, x, y) : x \in Words, y \in Words}
    \cup {Test("muld", 0, x, y) : x \in Words, y \in Words}
    \cup {Test("push", k, 4660, y) : k \in {52, 54}, y \in 0..127}
    \cup {Test("exg", 0, 4660, c * 16 + d) : c \in (0..11) \ {5}, d \in (0..11) \ {5}}
    \cup {Test("any", k, o, pb) : k \in {0, 16, 17}, o \in 0..255, pb \in TwoBytes}
    \cup {Test("any", 0, o, pb) : o \in {48, 166}, pb \in Postbytes}
    \cup {Test("tfm", k, 20480, [n |-> n, dst |-> 20480 + d, rise |-> r]) :
             k \in 56..59, n \in 1..MovedBytes, d \in -2..2, r \in 0..MovedBytes}

-----------------------------------------------------------------------------
(* The machine on the bus: its ROM holds the vectors and the handlers      *)

UartReg == 65024
VidReg == 65025
TickReg == 65026
RomBase == 65280

\* IRQ: LDA uart, CLRB, CLRW, LDX #, LDU #, RTI
IrqCode == <<182, Hi(UartReg), Lo(UartReg), 95, 16, 95, 142, 1, 2, 206, 3, 4, 59>>
\* FIRQ keeps what it uses itself: PSHS A, LDA vid, PULS A, RTI
FirqCode == <<52, 2, 182, Hi(VidReg), Lo(VidReg), 53, 2, 59>>
\* NMI: LDA tick, LDY #, RTI.  SWI2: ANDCC #$EF opens interrupts, CLRD, RTI
NmiCode == <<182, Hi(TickReg), Lo(TickReg), 16, 142, 5, 6, 59>>
SwiCode == <<28, 239, 16, 79, 59>>

MCRom ==
    Bytecode(0, IrqCode) @@ Bytecode(32, FirqCode) @@ Bytecode(64, NmiCode) @@ Bytecode(96, SwiCode)
    @@ Word(Vec.irq - RomBase, RomBase) @@ Word(Vec.firq - RomBase, RomBase + 32)
    @@ Word(Vec.nmi - RomBase, RomBase + 64) @@ Word(Vec.swi2 - RomBase, RomBase + 96)
    @@ Word(Vec.reset - RomBase, Origin)

Wired(name, base, size, line, kind) ==
    [name |-> name, base |-> base, size |-> size, line |-> line, kind |-> kind]
Board ==
    << Wired("rom", RomBase, 256, "None", "rom"), Wired("bank_registers", 65516, 4, "None", "banks"),
       Wired("uart", UartReg, 1, "IRQ", "level"), Wired("vid", VidReg, 1, "FIRQ", "level"),
       Wired("tick", TickReg, 1, "NMI", "level") >>

\* LDS #Stack, LDMD #, ANDCC #$AF; then SWI2, a wait (CWAI #$AF, SYNC or NOP), INCA, INCW, BRA
BusCode(md, wait) ==
    <<16, 206, Hi(Stack), Lo(Stack), 17, 61, md, 28, 175, 16, 63>> \o wait
    \o <<134, 1, 16, 134, 2, 3, 32, 256 - (Len(wait) + 10)>>
OnBoard(code) == [PowerOn EXCEPT !.ram = Bytecode(Origin, code), !.devs = Board, !.r.pc = Origin]

\* LDA #x STA bank1, LDA #90 STA $4000, LDA #y STA bank2, LDA $8000: two windows on the RAM
BankCode(t) ==
    <<134, t.x, 183, 255, 237, 134, 90, 183, 64, 0, 134, t.y, 183, 255, 238, 182, 128, 0>> \o Jmp(Stop)
Windows(t) == LET n == OnBoard(BankCode(t)) IN [n EXCEPT !.ram = (Stop :> 19) @@ @]

-----------------------------------------------------------------------------

Init ==
    /\ frames = <<>>
    /\ \/ /\ scene \in Tests
          /\ m = Flat(scene)
          /\ left = [d \in LevelDevices \cup {"reset"} |-> 0]
       \/ /\ scene \in {Test("bus", 0, md, <<60, 175>>) : md \in 0..3} \cup {Test("bus", 0, 1, <<19>>), Test("bus", 0, 2, <<18>>)}
          /\ m = OnBoard(BusCode(scene.x, scene.y))
          /\ left = [d \in LevelDevices \cup {"reset"} |-> IF d = "reset" THEN MaxResets ELSE MaxRaises]
       \/ /\ scene \in {Test("banks", 0, x, y) : x \in {0, 1, 3, RamPages - 1, RamPages, 255}, y \in {1, 2, 3, RamPages - 1, RamPages, 255}}
          /\ m = Windows(scene)
          /\ left = [d \in LevelDevices \cup {"reset"} |-> 0]

\* the host's breakpoint; "any" runs for one instruction
Arrived == IF scene.test = "any" THEN m.r.pc # Origin \/ m.wait ELSE m.r.pc = Stop

Next ==
    /\ UNCHANGED scene
    /\ \/ Step /\ (OnBus \/ ~Arrived)
       \/ Breakpoint(Arrived)
       \/ HostReleasesIrq
       \/ BusReset
       \/ StepHalted

\* The host keeps calling step(): weak fairness of Step, written out, since a step
\* leaves a running machine as it is only while it waits.
Idle == m.wait /\ Due(m) = "none"
KeepsStepping == []<>(~Running \/ Idle) \/ []<><<left'["reset"] = left["reset"]>>_<<m, frames>>

Spec == Init /\ [][Next]_mcvars /\ KeepsStepping

-----------------------------------------------------------------------------
(* What the programs have to compute                                       *)

Done(test) == scene.test = test /\ m.r.pc = Stop
SignedMod(w, v) == ((v + 2^(w - 1)) % 2^w) - 2^(w - 1)

\* Two decimal digits add up, with the carry of the next pair.
DecimalSum ==
    Done("bcd") =>
        LET sum == scene.x + scene.y + CarryIn(scene.k)
        IN  m.r.a = Bcd(sum % 100) /\ ("C" \in m.cc <=> sum >= 100)

\* A branch after a comparison tells the truth about the operands.
Holds(k, w, x, y) ==
    LET sx == Signed(w, x)
        sy == Signed(w, y)
    IN  <<TRUE, FALSE, x > y, x <= y, x >= y, x < y, x # y, x = y,
          ~TooBig(w, sx - sy), TooBig(w, sx - sy), SignedMod(w, sx - sy) >= 0, SignedMod(w, sx - sy) < 0,
          sx >= sy, sx < sy, sx > sy, sx <= sy>>[k + 1]
BranchesTell ==
    /\ Done("bra8") => (m.r.b = 0 <=> Holds(scene.k, 8, scene.x, scene.y))
    /\ Done("bra16") => (m.r.e = 0 <=> Holds(scene.k, 16, scene.x, scene.y))

\* Arithmetic on two bytes, through the carry, is arithmetic on the word.
WideResult(k, x, y) ==
    CASE k = "add" -> <<x + y, x + y > 65535>>
      [] k = "sub" -> <<x - y, x < y>>
      [] k = "asl" -> <<2 * x, x > 32767>>
      [] k = "lsr" -> <<x \div 2, x % 2 = 1>>
      [] k = "asr" -> <<Signed(16, x) \div 2, x % 2 = 1>>
      [] k = "neg" -> <<0 - x, x # 0>>
WideArithmetic ==
    Done("wide") =>
        LET want == WideResult(scene.k, scene.x, scene.y)
        IN  /\ Get(m, "d") = want[1] % 65536
            /\ scene.k # "neg" => ("C" \in m.cc <=> want[2])
            /\ scene.k \in {"add", "sub"} =>
                  ("V" \in m.cc <=> TooBig(16, IF scene.k = "add" THEN Signed(16, scene.x) + Signed(16, scene.y)
                                               ELSE Signed(16, scene.x) - Signed(16, scene.y)))

\* A quotient and a remainder give the dividend back unless V says that they cannot.
Exact(w, of, by, q, rem) ==
    /\ of = q * by + rem
    /\ (IF rem < 0 THEN -rem ELSE rem) < (IF by < 0 THEN -by ELSE by)
    /\ rem = 0 \/ (rem < 0) = (of < 0)
Dividend == Signed(16, scene.x) * 65536 + 65535
Divisions ==
    /\ Done("divd") =>
          LET by == Signed(8, scene.y)
          IN  IF by = 0 THEN Bit(m.r.md, 7)
              ELSE IF "V" \in m.cc THEN TooBig(8, Quotient(Signed(16, scene.x), by))
              ELSE Exact(8, Signed(16, scene.x), by, Signed(8, m.r.b), Signed(8, m.r.a))
    /\ Done("divq") =>
          LET by == Signed(16, scene.y)
          IN  IF by = 0 THEN Bit(m.r.md, 7)
              ELSE IF "V" \in m.cc THEN TooBig(16, Quotient(Dividend, by))
              ELSE Exact(16, Dividend, by, Signed(16, Get(m, "d")), Signed(16, Get(m, "w")))
    /\ Done("muld") =>
          Signed(16, Get(m, "d")) * 65536 + Get(m, "w") = Signed(16, scene.x) * Signed(16, scene.y)

\* What was pushed is pulled, and two exchanges are none.
SameSize(pb) == Width(RegCode[pb \div 16 + 1]) = Width(RegCode[(pb % 16) + 1])
Restored ==
    LET old == FlatRegs(scene)
    IN  /\ Done("push") =>
              LET sp == IF scene.k = 52 THEN "s" ELSE "u"
              IN  /\ \A reg \in ToSet(RegList(sp, scene.y)) \ {"cc"} : m.r[reg] = old[reg]
                  /\ m.r[sp] = old[sp]
                  /\ Bit(scene.y, 0) => m.cc = {}
        /\ Done("exg") /\ SameSize(scene.y) =>
              \A reg \in DOMAIN old \ {"pc"} : m.r[reg] = old[reg]

\* A byte stored through one bank register is read through another exactly when
\* both hold the same installed page; a page that is not there reads as $FF.
WindowsAgree ==
    Done("banks") =>
        m.r.a = IF scene.y >= RamPages THEN 255 ELSE IF scene.x = scene.y THEN 90 ELSE 0

\* The programs compute what they are for: decimal addition, branches on
\* comparisons, words in bytes, division and multiplication, the stack, the banks.
ComputesRight ==
    DecimalSum /\ BranchesTell /\ WideArithmetic /\ Divisions /\ Restored /\ WindowsAgree

\* A block move leaves what moving byte after byte leaves, overlaps included,
\* wherever an interrupt falls, and its registers past the last byte.
Step1(k) == CASE k \in {56, 58} -> 1 [] k = 57 -> -1 [] OTHER -> 0
Step2(k) == CASE k \in {56, 59} -> 1 [] k = 57 -> -1 [] OTHER -> 0
Moved(t) ==
    LET mem[i \in 0..t.y.n] ==
            IF i = 0 THEN FlatRam(t)
            ELSE ((t.y.dst + Step2(t.k) * (i - 1)) :> Stored(mem[i - 1], t.x + Step1(t.k) * (i - 1))) @@ mem[i - 1]
    IN  mem[t.y.n]
BlockMoved ==
    Done("tfm") =>
        /\ \A a \in (scene.x - 9)..(scene.x + 9) : Stored(m.ram, a) = Stored(Moved(scene), a)
        /\ m.r.x = scene.x + Step1(scene.k) * scene.y.n
        /\ m.r.y = scene.y.dst + Step2(scene.k) * scene.y.n
        /\ Get(m, "w") = 0

\* RTI gives back what the interrupt, the software interrupt or CWAI set aside,
\* however they nest and whatever mode the frame was pushed in.
ReturnsIntact ==
    [][frames # <<>> /\ frames' = Front(frames) /\ left'["reset"] = left["reset"] => Restores(Last(frames), m')]_mcvars

\* A device's request on IRQ is answered: the handler comes to read it.
IrqServed == m.lvl["uart"] ~> ~m.lvl["uart"]
=============================================================================
