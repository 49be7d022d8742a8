----------------------------- MODULE RtcProofs -----------------------------
(***************************************************************************)
(* The tick clock for every number of words and every word size, the       *)
(* file's four words of 16 bits among them: RTC_GETTIX never returns a     *)
(* count mixed from two ticks, and the words V_NMI adds to one by one are  *)
(* the number the clock should show.                                       *)
(*                                                                         *)
(* What a count's words are worth is defined by recursion over the words;  *)
(* the lemmas about it take the induction from UpTo.                       *)
(***************************************************************************)
EXTENDS RtcTicks, Counting, TLAPS

USE RtcAssumption

\* Who may hold the mutex and who has asked for a set, by the program's place,
\* for a program that waits until its last set is done.
Flags ==
  /\ pc \in {"get", "set"} => RTC_MTX = 1 /\ RTC_SET = 0
  /\ pc = "got" => RTC_MTX = 0 /\ RTC_SET = 0
  /\ pc = "idle" => RTC_MTX = RTC_SET
  /\ want <=> RTC_SET = 1

\* While it is read, the public count stays what it was when the read began,
\* and the words read so far are its words.
Reading ==
  /\ pc = "get" => RTC_TICKS = opened /\ \A i \in 1 .. word : got[i] = opened[i]
  /\ pc = "got" => got = opened

TypeOK ==
  /\ RTC_TICKS \in Count /\ RTC_TICKS_PRIV \in Count
  /\ RTC_MTX \in {0, 1} /\ RTC_SET \in {0, 1}
  /\ pc \in {"idle", "get", "got", "set"}
  /\ word \in 0 .. Words
  /\ got \in Count /\ opened \in Count
  /\ ideal \in Nat

\* The inductive invariant.
RtcInv == TypeOK /\ Flags /\ Reading /\ ClockKept

-----------------------------------------------------------------------------
(***************************************************************************)
(* Leading(t), a recursive function over the words of RTC_TICKS, is        *)
(* defined: a word more is the number so far times Base plus that word.    *)
(***************************************************************************)
LEMMA LeadingStep ==
  ASSUME NEW t \in Count
  PROVE  /\ Leading(t) \in [0 .. Words -> Nat]
         /\ Leading(t)[0] = 0
         /\ \A i \in 0 .. Words - 1 : Leading(t)[i + 1] = Leading(t)[i] * Base + t[i + 1]
<1> DEFINE Rec(f) == [i \in 0 .. Words |-> IF i = 0 THEN 0 ELSE f[i - 1] * Base + t[i]]
           Upto(f, n) == /\ f \in [0 .. n -> Nat] /\ f[0] = 0
                         /\ \A i \in 1 .. n : f[i] = f[i - 1] * Base + t[i]
           S == {n \in 0 .. Words : \E f : Upto(f, n)}
<1>1. 0 \in S
  <2>1. Upto([i \in 0 .. 0 |-> 0], 0)
    OBVIOUS
  <2> HIDE DEF Upto
  <2> QED
    BY <2>1
<1>2. ASSUME NEW n \in 0 .. Words - 1, n \in S PROVE n + 1 \in S
  <2>1. PICK f : Upto(f, n)
    BY <1>2
  <2> DEFINE g == [i \in 0 .. n + 1 |-> IF i = n + 1 THEN f[n] * Base + t[n + 1] ELSE f[i]]
  <2>2. f[n] * Base + t[n + 1] \in Nat
    BY <2>1, SMTT(60) DEF Count, Index
  <2>3. g \in [0 .. n + 1 -> Nat] /\ g[0] = 0
    BY <2>1, <2>2
  <2>4. ASSUME NEW i \in 1 .. n + 1 PROVE g[i] = g[i - 1] * Base + t[i]
    <3>1. g[i - 1] = f[i - 1]
      OBVIOUS
    <3>2. CASE i = n + 1
      BY <3>1, <3>2
    <3>3. CASE i \in 1 .. n
      BY <2>1, <3>1, <3>3
    <3> QED
      BY <3>2, <3>3
  <2>5. Upto(g, n + 1)
    BY <2>3, <2>4
  <2> HIDE DEF Upto, g
  <2> QED
    BY <2>5
<1>3. Words \in S
  <2> HIDE DEF S
  <2>1. \A i \in 0 .. Words : i \in S
    BY <1>1, <1>2, UpTo
  <2> QED
    BY <2>1
<1>4. PICK f : Upto(f, Words)
  BY <1>3
<1>5. f = Rec(f)
  BY <1>4
<1>6. Leading(t) = Rec(Leading(t))
  <2>1. Leading(t) = CHOOSE v : v = Rec(v)
    BY DEF Leading
  <2> HIDE DEF Rec
  <2> QED
    BY <1>5, <2>1
<1>7. Leading(t)[0] = 0
  BY <1>6
<1>8. \A i \in 0 .. Words - 1 : Leading(t)[i + 1] = Leading(t)[i] * Base + t[i + 1]
  BY <1>6
<1>9. \A i \in 0 .. Words : i \in {n \in 0 .. Words : Leading(t)[n] \in Nat}
  <2> DEFINE N == {n \in 0 .. Words : Leading(t)[n] \in Nat}
  <2>1. 0 \in N
    BY <1>7
  <2>2. ASSUME NEW i \in 0 .. Words - 1, i \in N PROVE i + 1 \in N
    <3>1. Leading(t)[i] \in Nat /\ t[i + 1] \in Nat /\ Base \in Nat
      BY <2>2 DEF Count, Index
    <3>2. Leading(t)[i + 1] = Leading(t)[i] * Base + t[i + 1]
      BY <1>8
    <3>3. \A a, b, c \in Nat : a * b + c \in Nat
      OBVIOUS
    <3>4. Leading(t)[i + 1] \in Nat
      BY <3>1, <3>2, <3>3
    <3> QED
      BY <3>4
  <2> HIDE DEF N
  <2>3. \A i \in 0 .. Words : i \in N
    BY <2>1, <2>2, UpTo
  <2> QED
    BY <2>3 DEF N
<1>10. Leading(t) \in [0 .. Words -> Nat]
  BY <1>6, <1>9
<1> QED
  BY <1>7, <1>8, <1>10
(***************************************************************************)
(* V_NMI's increment leaves a count of words in range.                     *)
(***************************************************************************)
LEMMA PlusOneCount ==
  ASSUME NEW t \in Count PROVE PlusOne(t) \in Count
<1>1. ASSUME NEW i \in Index PROVE (t[i] + 1) % Base \in 0 .. Base - 1 /\ t[i] \in 0 .. Base - 1
  BY DEF Count
<1> QED
  BY <1>1 DEF PlusOne, Count

(***************************************************************************)
(* The word-by-word increment of V_NMI, with its carries, adds one to the  *)
(* number the words make, and takes the largest number to 0.               *)
(***************************************************************************)
LEMMA PlusOneValue ==
  ASSUME NEW t \in Count
  PROVE  Value(PlusOne(t)) = IF t = Full THEN 0 ELSE Value(t) + 1
<1> DEFINE L == Leading(t)
           M == Leading(PlusOne(t))
           After(i)  == \A j \in i + 1 .. Words : t[j] = Base - 1
           Before(i) == \A j \in 1 .. i : t[j] = Base - 1
           Right(i)  == M[i] = IF After(i) THEN IF Before(i) THEN 0 ELSE L[i] + 1 ELSE L[i]
           S == {i \in 0 .. Words : Right(i)}
<1>1. /\ L \in [0 .. Words -> Nat] /\ L[0] = 0
      /\ \A i \in 0 .. Words - 1 : L[i + 1] = L[i] * Base + t[i + 1]
  BY LeadingStep
<1>2. /\ M \in [0 .. Words -> Nat] /\ M[0] = 0
      /\ \A i \in 0 .. Words - 1 : M[i + 1] = M[i] * Base + PlusOne(t)[i + 1]
  BY LeadingStep, PlusOneCount
<1> HIDE DEF L, M
<1>3. 0 \in S
  BY <1>1, <1>2
<1>4. ASSUME NEW i \in 0 .. Words - 1, i \in S PROVE i + 1 \in S
  <2>1. /\ L[i] \in Nat /\ M[i] \in Nat /\ Base \in Nat /\ Base > 1
        /\ t[i + 1] \in 0 .. Base - 1
    <3>1. L[i] \in Nat /\ M[i] \in Nat
      BY <1>1, <1>2
    <3>2. t[i + 1] \in 0 .. Base - 1
      BY DEF Count, Index
    <3> QED
      BY <3>1, <3>2
  <2>2. /\ L[i + 1] = L[i] * Base + t[i + 1]
        /\ M[i + 1] = M[i] * Base + PlusOne(t)[i + 1]
    BY <1>1, <1>2
  <2>3. PlusOne(t)[i + 1] = IF After(i + 1) THEN (t[i + 1] + 1) % Base ELSE t[i + 1]
    BY DEF PlusOne, Index
  <2>4. After(i) <=> After(i + 1) /\ t[i + 1] = Base - 1
    OBVIOUS
  <2>5. Before(i + 1) <=> Before(i) /\ t[i + 1] = Base - 1
    OBVIOUS
  <2>6. Right(i)
    BY <1>4
  <2> HIDE DEF After, Before
  <2>7. CASE ~ After(i + 1)
    BY <2>2, <2>3, <2>4, <2>6, <2>7
  <2>8. CASE After(i + 1) /\ t[i + 1] # Base - 1
    <3>1. (t[i + 1] + 1) % Base = t[i + 1] + 1
      BY <2>1, <2>8
    <3>2. M[i] = L[i]
      BY <2>4, <2>6, <2>8
    <3> QED
      BY <2>1, <2>2, <2>3, <2>5, <2>8, <3>1, <3>2
  <2>9. CASE After(i + 1) /\ t[i + 1] = Base - 1
    <3>1. (t[i + 1] + 1) % Base = 0
      <4>1. t[i + 1] + 1 = Base
        BY <2>1, <2>9
      <4>2. Base % Base = 0
        OBVIOUS
      <4> QED
        BY <4>1, <4>2
    <3>2. M[i] = IF Before(i) THEN 0 ELSE L[i] + 1
      BY <2>4, <2>6, <2>9
    <3>3. M[i + 1] = M[i] * Base
      BY <2>1, <2>2, <2>3, <2>9, <3>1
    <3>4. CASE Before(i)
      BY <2>1, <2>5, <2>9, <3>2, <3>3, <3>4
    <3>5. CASE ~ Before(i)
      <4>1. (L[i] + 1) * Base = L[i] * Base + Base
        BY <2>1
      <4>2. M[i + 1] = L[i + 1] + 1
        BY <2>1, <2>2, <2>9, <3>2, <3>3, <3>5, <4>1
      <4> QED
        BY <2>5, <2>9, <3>5, <4>2
    <3> QED
      BY <3>4, <3>5
  <2> QED
    BY <2>7, <2>8, <2>9
<1>5. Words \in S
  <2> HIDE DEF S
  <2>1. \A i \in 0 .. Words : i \in S
    BY <1>3, <1>4, UpTo
  <2> QED
    BY <2>1
<1>6. M[Words] = IF Before(Words) THEN 0 ELSE L[Words] + 1
  BY <1>5
<1>7. Before(Words) <=> t = Full
  BY DEF Full, Count, Index
<1> QED
  BY <1>6, <1>7 DEF L, M, Value

(***************************************************************************)
(* The count whose words are all full is the largest number, and no other  *)
(* count is worth as much: the clock starts again only there.              *)
(***************************************************************************)
LEMMA FullLargest ==
  ASSUME NEW t \in Count
  PROVE  Value(t) = Value(Full) <=> t = Full
<1> DEFINE L == Leading(t)
           M == Leading(Full)
           Before(i) == \A j \in 1 .. i : t[j] = Base - 1
           S == {i \in 0 .. Words : IF Before(i) THEN L[i] = M[i] ELSE L[i] < M[i]}
<1>1. Full \in Count
  BY DEF Full, Count
<1>2. /\ L \in [0 .. Words -> Nat] /\ L[0] = 0
      /\ \A i \in 0 .. Words - 1 : L[i + 1] = L[i] * Base + t[i + 1]
  BY LeadingStep
<1>3. /\ M \in [0 .. Words -> Nat] /\ M[0] = 0
      /\ \A i \in 0 .. Words - 1 : M[i + 1] = M[i] * Base + (Base - 1)
  <2>1. /\ M \in [0 .. Words -> Nat] /\ M[0] = 0
        /\ \A i \in 0 .. Words - 1 : M[i + 1] = M[i] * Base + Full[i + 1]
    BY <1>1, LeadingStep
  <2> HIDE DEF M
  <2>2. \A i \in 0 .. Words - 1 : Full[i + 1] = Base - 1
    BY DEF Full, Index
  <2> QED
    BY <2>1, <2>2
<1> HIDE DEF L, M
<1>4. \A i \in 0 .. Words : L[i] \in Nat /\ M[i] \in Nat
  <2>1. L \in [0 .. Words -> Nat] /\ M \in [0 .. Words -> Nat]
    BY <1>2, <1>3
  <2> QED
    BY <2>1
<1>5. 0 \in S
  BY <1>2, <1>3
<1>6. ASSUME NEW i \in 0 .. Words - 1, i \in S PROVE i + 1 \in S
  <2>1. /\ L[i] \in Nat /\ M[i] \in Nat /\ Base \in Nat /\ Base > 1
        /\ t[i + 1] \in 0 .. Base - 1
    <3>1. L[i] \in Nat /\ M[i] \in Nat
      BY <1>4
    <3>2. t[i + 1] \in 0 .. Base - 1
      BY DEF Count, Index
    <3> QED
      BY <3>1, <3>2
  <2>2. /\ L[i + 1] = L[i] * Base + t[i + 1]
        /\ M[i + 1] = M[i] * Base + (Base - 1)
    BY <1>2, <1>3
  <2>3. Before(i + 1) <=> Before(i) /\ t[i + 1] = Base - 1
    OBVIOUS
  <2>4. IF Before(i) THEN L[i] = M[i] ELSE L[i] < M[i]
    BY <1>6
  <2> HIDE DEF Before
  <2>5. CASE Before(i)
    <3>1. L[i + 1] - M[i + 1] = t[i + 1] - (Base - 1)
      BY <2>1, <2>2, <2>4, <2>5
    <3>2. L[i + 1] \in Nat /\ M[i + 1] \in Nat
      BY <1>4
    <3> QED
      BY <2>1, <2>3, <2>5, <3>1, <3>2
  <2>6. CASE ~ Before(i)
    <3>1. PICK d \in Nat : M[i] = L[i] + 1 + d
      <4>1. M[i] - L[i] - 1 \in Nat /\ M[i] = L[i] + 1 + (M[i] - L[i] - 1)
        BY <2>1, <2>4, <2>6
      <4> QED
        BY <4>1
    <3>2. M[i] * Base = L[i] * Base + Base + d * Base
      BY <2>1, <3>1
    <3>3. d * Base \in Nat /\ L[i] * Base \in Nat
      BY <2>1, <3>1
    <3>4. L[i + 1] < M[i + 1]
      BY <2>1, <2>2, <3>2, <3>3
    <3> QED
      BY <2>3, <2>6, <3>4
  <2> QED
    BY <2>5, <2>6
<1>7. Words \in S
  <2> HIDE DEF S
  <2>1. \A i \in 0 .. Words : i \in S
    BY <1>5, <1>6, UpTo
  <2> QED
    BY <2>1
<1>8. Before(Words) <=> t = Full
  BY DEF Full, Count, Index
<1>9. L[Words] = M[Words] <=> Before(Words)
  <2>1. L[Words] \in Nat /\ M[Words] \in Nat
    BY <1>4
  <2> HIDE DEF Before
  <2> QED
    BY <1>7, <2>1
<1> QED
  BY <1>8, <1>9 DEF L, M, Value
\* Every count is worth a natural number.
LEMMA ValueNat == ASSUME NEW t \in Count PROVE Value(t) \in Nat
<1>1. Leading(t) \in [0 .. Words -> Nat]
  BY LeadingStep
<1> QED
  BY <1>1 DEF Value

\* The count main.asm starts with is worth 0.
LEMMA ZeroValue == Zero \in Count /\ Value(Zero) = 0
<1> DEFINE L == Leading(Zero)
           S == {i \in 0 .. Words : L[i] = 0}
<1>1. Zero \in Count
  BY DEF Zero, Count
<1>2. L[0] = 0 /\ \A i \in 0 .. Words - 1 : L[i + 1] = L[i] * Base + Zero[i + 1]
  BY <1>1, LeadingStep
<1> HIDE DEF L
<1>3. 0 \in S
  BY <1>2
<1>4. ASSUME NEW i \in 0 .. Words - 1, i \in S PROVE i + 1 \in S
  <2>1. Zero[i + 1] = 0 /\ L[i] = 0
    BY <1>4 DEF Zero, Index
  <2>2. 0 * Base + 0 = 0
    OBVIOUS
  <2> QED
    BY <1>2, <2>1, <2>2
<1>5. Words \in S
  <2> HIDE DEF S
  <2>1. \A i \in 0 .. Words : i \in S
    BY <1>3, <1>4, UpTo
  <2> QED
    BY <2>1
<1> QED
  BY <1>1, <1>5 DEF L, Value

-----------------------------------------------------------------------------
(***************************************************************************)
(* V_NMI keeps the invariant, in each of its three cases: the mutex free,  *)
(* the mutex held by a reader or a writer, a set asked for.                *)
(***************************************************************************)
LEMMA NmiKeeps ==
  ASSUME RtcInv, V_NMI PROVE RtcInv'
<1> USE DEF RtcInv
<1>1. PlusOne(RTC_TICKS_PRIV) \in Count
  BY PlusOneCount DEF TypeOK
<1>2. TypeOK'
  <2>1. Value(RTC_TICKS) \in Nat
    BY ValueNat DEF TypeOK
  <2>2. ideal' \in Nat
    BY <2>1 DEF V_NMI, Expected, TypeOK
  <2> QED
    BY <1>1, <2>2 DEF V_NMI, TypeOK, prog
<1>3. Flags'
  BY DEF V_NMI, Expected, TypeOK, Flags, prog
<1>4. Reading'
  BY DEF V_NMI, TypeOK, Flags, Reading, prog
<1>5. ClockKept'
  <2>1. CASE RTC_SET = 1
    <3>1. want
      BY <2>1 DEF Flags
    <3>2. RTC_TICKS_PRIV' = RTC_TICKS
      BY <2>1 DEF V_NMI, TypeOK, Flags
    <3>3. ideal' = Value(RTC_TICKS)
      BY <3>1 DEF V_NMI, Expected
    <3> QED
      BY <3>2, <3>3 DEF ClockKept
  <2>2. CASE RTC_SET = 0
    <3>1. ~ want
      BY <2>2 DEF Flags
    <3>2. RTC_TICKS_PRIV' = PlusOne(RTC_TICKS_PRIV)
      BY <2>2 DEF V_NMI
    <3>3. ideal' = IF ideal = Value(Full) THEN 0 ELSE ideal + 1
      BY <3>1 DEF V_NMI, Expected
    <3>4. RTC_TICKS_PRIV \in Count /\ ideal = Value(RTC_TICKS_PRIV)
      BY DEF TypeOK, ClockKept
    <3>5. Value(PlusOne(RTC_TICKS_PRIV))
            = IF RTC_TICKS_PRIV = Full THEN 0 ELSE Value(RTC_TICKS_PRIV) + 1
      BY <3>4, PlusOneValue
    <3>6. Value(RTC_TICKS_PRIV) = Value(Full) <=> RTC_TICKS_PRIV = Full
      BY <3>4, FullLargest
    <3> QED
      BY <3>2, <3>3, <3>4, <3>5, <3>6 DEF ClockKept
  <2> QED
    BY <2>1, <2>2 DEF TypeOK
<1> QED
  BY <1>2, <1>3, <1>4, <1>5

(***************************************************************************)
(* RTC_GETTIX and a careful program's set keep the invariant.              *)
(***************************************************************************)
LEMMA ProgramKeeps ==
  ASSUME Careful, RtcInv, Program PROVE RtcInv'
<1> USE DEF RtcInv
<1>1. UNCHANGED <<RTC_TICKS_PRIV, ideal>>
  BY DEF Program, GetStart, GetWord, GetEnd, GetReturn, SetStart, SetWord, SetEnd, clock
<1>2. ClockKept'
  BY <1>1 DEF ClockKept
<1>3. CASE GetStart
  BY <1>2, <1>3, ZeroValue DEF GetStart, MayStart, TypeOK, Flags, Reading
<1>4. CASE GetWord
  <2>1. word + 1 \in Index /\ word + 1 \in 0 .. Words
    BY <1>4 DEF GetWord, TypeOK, Index
  <2>2. got' \in Count
    BY <1>4, <2>1 DEF GetWord, TypeOK, Count
  <2>3. TypeOK'
    BY <1>4, <2>1, <2>2 DEF GetWord, TypeOK, clock
  <2>4. \A i \in 1 .. word' : got'[i] = opened'[i]
    <3>1. got \in [Index -> 0 .. Base - 1] /\ RTC_TICKS = opened
      BY <1>4 DEF GetWord, TypeOK, Count, Reading
    <3>2. got'[word + 1] = opened'[word + 1]
      BY <1>4, <2>1, <3>1 DEF GetWord
    <3>3. ASSUME NEW i \in 1 .. word PROVE got'[i] = opened'[i]
      BY <1>4, <2>1, <3>1 DEF GetWord, TypeOK, Reading, Index
    <3> QED
      BY <1>4, <3>2, <3>3 DEF GetWord, TypeOK
  <2>5. Flags' /\ Reading'
    BY <1>4, <2>4 DEF GetWord, TypeOK, Flags, Reading, clock
  <2> QED
    BY <1>2, <2>3, <2>5
<1>5. CASE GetEnd
  <2>1. got = opened
    BY <1>5 DEF GetEnd, TypeOK, Reading, Count, Index
  <2> QED
    BY <1>2, <1>5, <2>1 DEF GetEnd, TypeOK, Flags, Reading
<1>6. CASE GetReturn
  BY <1>2, <1>6, ZeroValue DEF GetReturn, TypeOK, Flags, Reading, clock
<1>7. CASE \E t \in Count : SetStart(t)
  BY <1>2, <1>7 DEF SetStart, MayStart, TypeOK, Flags, Reading
<1>8. CASE SetWord
  <2>1. word + 1 \in Index /\ word + 1 \in 0 .. Words
    BY <1>8 DEF SetWord, TypeOK, Index
  <2>2. RTC_TICKS' \in Count
    BY <1>8, <2>1 DEF SetWord, TypeOK, Count
  <2> QED
    BY <1>2, <1>8, <2>1, <2>2 DEF SetWord, TypeOK, Flags, Reading
<1>9. CASE SetEnd
  BY <1>2, <1>9, ZeroValue DEF SetEnd, TypeOK, Flags, Reading
<1> QED
  BY <1>3, <1>4, <1>5, <1>6, <1>7, <1>8, <1>9 DEF Program

(***************************************************************************)
(* The inductive invariant holds of every behaviour of a program that      *)
(* waits until its set is done, the oscillator firing at any time.         *)
(***************************************************************************)
LEMMA SpecRtc ==
  ASSUME Careful PROVE Spec => []RtcInv
<1>1. Init => RtcInv
  BY ZeroValue DEF Init, RtcInv, TypeOK, Flags, Reading, ClockKept
<1>2. RtcInv /\ [Next]_vars => RtcInv'
  <2>1. ASSUME RtcInv, UNCHANGED vars PROVE RtcInv'
    BY <2>1 DEF RtcInv, TypeOK, Flags, Reading, ClockKept, vars, clock, prog
  <2> QED
    BY <2>1, NmiKeeps, ProgramKeeps DEF Next
<1> QED
  BY <1>1, <1>2, PTL DEF Spec

(***************************************************************************)
(* For every number of words and every word size, V_NMI's private count is *)
(* the number the clock should show: one more at every tick, whoever holds *)
(* RTC_MTX, and what a program asked for at the tick after its RTC_SET.    *)
(***************************************************************************)
THEOREM RtcClockKept ==
  ASSUME Careful PROVE Spec => []ClockKept
BY SpecRtc, PTL DEF RtcInv

(***************************************************************************)
(* For every number of words, the count RTC_GETTIX returns is the public   *)
(* count of one moment, however many ticks fire while it copies.           *)
(***************************************************************************)
THEOREM RtcReadWhole ==
  ASSUME Careful PROVE Spec => []ReadWhole
<1>1. RtcInv => ReadWhole
  BY DEF RtcInv, Reading, ReadWhole
<1> QED
  BY <1>1, SpecRtc, PTL
=============================================================================
