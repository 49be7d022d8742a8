------------------------------ MODULE Hd6309Alu ------------------------------
(***************************************************************************)
(* The arithmetic of the HD6309 core (hd6309_core.cpp): what an operation  *)
(* returns and which condition flags it leaves.  The code has an 8-bit and *)
(* a 16-bit copy of every primitive; here the width w is a parameter.  The *)
(* condition codes are the set of the flags that are 1, and become a byte  *)
(* only where the code stores or transfers CC.  An operation returns       *)
(* [v |-> result, cc |-> flags].  Cycle counts are left out.               *)
(***************************************************************************)
EXTENDS Integers, FiniteSetsExt, Bitwise

FlagBit == [C |-> 0, V |-> 1, Z |-> 2, N |-> 3, I |-> 4, H |-> 5, F |-> 6, E |-> 7]
CcFlags == DOMAIN FlagBit

Bit(v, i) == (v \div 2^i) % 2 = 1
CcByte(cc) == MapThenSumSet(LAMBDA f : 2^FlagBit[f], cc)
CcOf(b) == {f \in CcFlags : Bit(b, FlagBit[f])}

Signed(w, v) == IF v >= 2^(w - 1) THEN v - 2^w ELSE v
Negative(w, v) == v >= 2^(w - 1)
OnIf(f, c) == IF c THEN {f} ELSE {}

set_nz(w, v) == OnIf("N", Negative(w, v)) \cup OnIf("Z", v = 0)

\* v and the flags of it: N, Z and the flags of "touched" are replaced by "on"
Result(w, v, cc, touched, on) ==
    [v |-> v, cc |-> (cc \ ({"N", "Z"} \cup touched)) \cup set_nz(w, v) \cup on]

-----------------------------------------------------------------------------
(* add8/add16 and sub8/sub16; only the 8-bit addition keeps a half carry   *)

Add(w, a, b, c, cc) ==
    LET r == (a + b + c) % 2^w
        half == IF w = 8 THEN {"H"} ELSE {}
    IN  Result(w, r, cc, {"C", "V"} \cup half,
               OnIf("C", a + b + c >= 2^w)
               \cup OnIf("V", Negative(w, a) = Negative(w, b) /\ Negative(w, a) # Negative(w, r))
               \cup (half \cap OnIf("H", (a % 16) + (b % 16) + c > 15)))

Sub(w, a, b, c, cc) ==
    LET r == (a - b - c) % 2^w
    IN  Result(w, r, cc, {"C", "V"},
               OnIf("C", a - b - c < 0)
               \cup OnIf("V", Negative(w, a) # Negative(w, b) /\ Negative(w, a) # Negative(w, r)))

Logic(w, v, cc) == Result(w, v, cc, {"V"}, {})

CarryIn(cc) == IF "C" \in cc THEN 1 ELSE 0

apply_alu(op, w, reg, arg, cc) ==
    CASE op = "SUB" -> Sub(w, reg, arg, 0, cc)
      [] op = "CMP" -> [Sub(w, reg, arg, 0, cc) EXCEPT !.v = reg]
      [] op = "SBC" -> Sub(w, reg, arg, CarryIn(cc), cc)
      [] op = "AND" -> Logic(w, reg & arg, cc)
      [] op = "BIT" -> [Logic(w, reg & arg, cc) EXCEPT !.v = reg]
      [] op = "LD"  -> Logic(w, arg, cc)
      [] op = "EOR" -> Logic(w, reg ^^ arg, cc)
      [] op = "ADC" -> Add(w, reg, arg, CarryIn(cc), cc)
      [] op = "OR"  -> Logic(w, reg | arg, cc)
      [] op = "ADD" -> Add(w, reg, arg, 0, cc)

-----------------------------------------------------------------------------
(* rmw8/rmw16: the operations on one operand                               *)

rmw(op, w, v, cc) ==
    LET top == 2^(w - 1)
        low == OnIf("C", v % 2 = 1)
        up  == OnIf("C", v >= top) \cup OnIf("V", Bit(v, w - 1) # Bit(v, w - 2))
    IN  CASE op = "NEG" -> Result(w, (0 - v) % 2^w, cc, {"C", "V"}, OnIf("C", v # 0) \cup OnIf("V", v = top))
          [] op = "COM" -> Result(w, 2^w - 1 - v, cc, {"C", "V"}, {"C"})
          [] op = "LSR" -> Result(w, v \div 2, cc, {"C"}, low)
          [] op = "ROR" -> Result(w, v \div 2 + CarryIn(cc) * top, cc, {"C"}, low)
          [] op = "ASR" -> Result(w, v \div 2 + (IF v >= top THEN top ELSE 0), cc, {"C"}, low)
          [] op = "ASL" -> Result(w, (2 * v) % 2^w, cc, {"C", "V"}, up)
          [] op = "ROL" -> Result(w, ((2 * v) % 2^w) + CarryIn(cc), cc, {"C", "V"}, up)
          [] op = "DEC" -> Result(w, (v - 1) % 2^w, cc, {"V"}, OnIf("V", v = top))
          [] op = "INC" -> Result(w, (v + 1) % 2^w, cc, {"V"}, OnIf("V", v = top - 1))
          [] op = "TST" -> Result(w, v, cc, {"V"}, {})
          [] op = "CLR" -> Result(w, 0, cc, {"C", "V"}, {})

\* Mutant: DAA ignores the half carry.
DaaWithoutHalf(a, cc) ==
    LET high == "C" \in cc \/ a \div 16 > 9 \/ (a \div 16 >= 9 /\ a % 16 > 9)
        fix == (IF a % 16 > 9 THEN 6 ELSE 0) + (IF high THEN 96 ELSE 0)
    IN  Result(8, (a + fix) % 256, cc, {"C"}, OnIf("C", high))
daa(a, cc) ==
    LET lo == a % 16
        hi == a \div 16
        high == "C" \in cc \/ hi > 9 \/ (hi >= 9 /\ lo > 9)
        fix == (IF "H" \in cc \/ lo > 9 THEN 6 ELSE 0) + (IF high THEN 96 ELSE 0)
    IN  Result(8, (a + fix) % 256, cc, {"C"}, OnIf("C", high))

-----------------------------------------------------------------------------
(* The signed division, which in C++ rounds towards zero.  The dividend    *)
(* may be -2^31, which has no magnitude, so that it is not negated.        *)

Quotient(a, b) ==
    LET mag == IF b > 0 THEN b ELSE -b
        q == IF a >= 0 THEN a \div mag ELSE (a + (mag - 1)) \div mag
    IN  IF b > 0 THEN q ELSE -q

Remainder(a, b) == a - b * Quotient(a, b)

\* q does not fit in w bits; and a quotient with its flags
TooBig(w, q) == q < -(2^(w - 1)) \/ q > 2^(w - 1) - 1
Divided(w, q, cc) == Result(w, q % 2^w, cc, {"C", "V"}, OnIf("V", TooBig(w, q)))

\* The 16 branch conditions; the odd ones are the opposites of the even ones.
test_condition(k, cc) ==
    LET even == CASE k \div 2 = 0 -> TRUE
                  [] k \div 2 = 1 -> cc \cap {"C", "Z"} = {}
                  [] k \div 2 = 2 -> "C" \notin cc
                  [] k \div 2 = 3 -> "Z" \notin cc
                  [] k \div 2 = 4 -> "V" \notin cc
                  [] k \div 2 = 5 -> "N" \notin cc
                  [] k \div 2 = 6 -> ("N" \in cc) = ("V" \in cc)
                  [] k \div 2 = 7 -> "Z" \notin cc /\ ("N" \in cc) = ("V" \in cc)
    IN  IF k % 2 = 0 THEN even ELSE ~even
=============================================================================
