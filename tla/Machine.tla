------------------------------- MODULE Machine -------------------------------
(***************************************************************************)
(* The processor on its bus: SystemBus::step() is one call of the core's   *)
(* step(), a tick of every device, and the interrupt lines recomputed.     *)
(* A machine without devices is the core driven through hd6309.h with flat *)
(* RAM; there the lines belong to the host program.                        *)
(***************************************************************************)
EXTENDS Hd6309

CONSTANTS LevelDevices, \* names of the devices with an interrupt output
          MaxRaises,    \* times each of them asks for an interrupt
          MaxResets     \* resets of the machine

VARIABLES m,      \* the machine (SystemBus, Hd6309)
          frames, \* what each frame on the stack has to bring back
          left    \* requests each device will still make, and resets

vars == <<m, frames, left>>

ASSUME MachineConstants == MaxRaises \in Nat /\ MaxResets \in Nat

OnBus == m.devs # <<>>
Running == ~m.halted /\ ~m.dead

PowerOn ==
    [r |-> [reg \in RegsByte \cup RegsWord |-> 0], cc |-> {"I", "F"}, op |-> 0, at |-> 0,
     irq |-> FALSE, firq |-> FALSE, nmi |-> FALSE, wait |-> FALSE, cwai |-> FALSE,
     halted |-> FALSE, dead |-> FALSE, rise |-> 0,
     ram |-> << >>, bank |-> [b \in 0..3 |-> b], devs |-> <<>>,
     lvl |-> [d \in LevelDevices |-> FALSE], prev |-> FALSE]

\* Mutant: a reset leaves the flag of CWAI set.
ResetKeepsCwai(n) ==
    Through([n EXCEPT !.r = PowerOn.r, !.cc = {"I", "F"}, !.irq = FALSE, !.firq = FALSE,
                      !.nmi = FALSE, !.wait = FALSE, !.halted = FALSE], Vec.reset)
\* CPU::reset(): the vector is read before SystemBus::reset() restores the banks.
reset(n) ==
    Through([n EXCEPT !.r = PowerOn.r, !.cc = {"I", "F"}, !.irq = FALSE, !.firq = FALSE,
                      !.nmi = FALSE, !.wait = FALSE, !.halted = FALSE, !.cwai = FALSE], Vec.reset)

bus_reset(n) ==
    [reset(n) EXCEPT !.bank = [b \in 0..3 |-> b], !.prev = FALSE, !.op = 0, !.at = 0,
                     !.lvl = [d \in LevelDevices |-> FALSE]]

-----------------------------------------------------------------------------
(* History: what a return from interrupt has to restore                    *)

\* A frame pushed now with the program counter pc; CWAI has pushed its own already.
FrameSize(n) == IF Native(n) THEN 14 ELSE 12
Kept(n, full) ==
    IF ~full THEN {"pc"}
    ELSE {"pc", "u", "y", "x", "dp", "b", "a"} \cup (IF Native(n) THEN {"e", "f"} ELSE {})
Snapshot(n, full, pc) ==
    [regs |-> [reg \in Kept(n, full) |-> IF reg = "pc" THEN pc ELSE n.r[reg]],
     cc |-> n.cc \ {"E"}, sp |-> n.r.s + (IF n.cwai THEN FrameSize(n) ELSE 0)]

Opcode(n) == Peek(n, n.r.pc)
IsRti(n) == Opcode(n) = 59
IsSwi(n) == Opcode(n) = 63 \/ (Opcode(n) \in {16, 17} /\ Peek(n, (n.r.pc + 1) % 65536) = 63)

Restores(f, n) ==
    /\ \A reg \in DOMAIN f.regs : n.r[reg] = f.regs[reg]
    /\ n.cc \ {"E"} = f.cc
    /\ n.r.s = f.sp

-----------------------------------------------------------------------------
(* The steps                                                               *)

Clean(n) == [n EXCEPT !.op = 0, !.at = 0]

\* devices may raise their outputs in their tick; an NMI comes only once S is loaded
MayRaise(n, dev) == n.r.s > 0 \/ \A i \in DOMAIN n.devs : n.devs[i].name = dev => n.devs[i].line # "NMI"
Tick(n) ==
    IF n.devs = <<>> THEN m' = Clean(n) /\ UNCHANGED left
    ELSE \E up \in SUBSET {d \in LevelDevices : left[d] > 0 /\ ~n.lvl[d] /\ MayRaise(n, d)} :
            /\ m' = update_irq_lines([Clean(n) EXCEPT !.lvl = [d \in LevelDevices |-> @[d] \/ d \in up]])
            /\ left' = [d \in DOMAIN left |-> IF d \in up THEN left[d] - 1 ELSE left[d]]

TakeInterrupt ==
    /\ Running /\ Due(m) # "none"
    /\ frames' = Append(frames, Snapshot(m, Due(m) # "firq" \/ FirqFull(m) \/ m.cwai, m.r.pc))
    /\ \E n \in {service_interrupts(m)} : Tick(n)

WaitForInterrupt ==
    /\ Running /\ Due(m) = "none" /\ m.wait
    /\ Tick(m) /\ UNCHANGED frames

Execute ==
    /\ Running /\ Due(m) = "none" /\ ~m.wait
    /\ frames' = IF IsSwi(m) THEN Append(frames, Snapshot(m, TRUE, m.r.pc + (IF Opcode(m) = 63 THEN 1 ELSE 2)))
                 ELSE IF IsRti(m) /\ frames # <<>> THEN Front(frames) ELSE frames
    /\ \E n \in {execute(m)} : Tick(n)

\* run() of a core without a bus ends at a breakpoint, and its caller halts the core
Breakpoint(stop) ==
    /\ Running /\ ~OnBus /\ stop
    /\ m' = [m EXCEPT !.halted = TRUE]
    /\ UNCHANGED <<frames, left>>

\* step() on a halted core does nothing; a dead one is no longer there
StepHalted == ~Running /\ UNCHANGED vars

BusReset ==
    /\ OnBus /\ left["reset"] > 0
    /\ m' = bus_reset(m) /\ frames' = <<>>
    /\ left' = [left EXCEPT !["reset"] = @ - 1]

\* the host of a core without a bus: it releases /IRQ once the handler runs
HostReleasesIrq ==
    /\ ~OnBus /\ m.irq /\ frames # <<>>
    /\ m' = [m EXCEPT !.irq = FALSE]
    /\ UNCHANGED <<frames, left>>

Step == TakeInterrupt \/ WaitForInterrupt \/ Execute

-----------------------------------------------------------------------------

TypeOK ==
    /\ \A reg \in RegsByte : m.r[reg] \in 0..255
    /\ \A reg \in RegsWord : m.r[reg] \in 0..65535
    /\ m.cc \subseteq CcFlags
    /\ \A b \in 0..3 : m.bank[b] \in 0..255
    /\ \A a \in DOMAIN m.ram : m.ram[a] \in 0..255 /\ a < RamPages * PageSize
    /\ m.cwai => m.wait
    /\ left \in [LevelDevices \cup {"reset"} -> Nat]
=============================================================================
