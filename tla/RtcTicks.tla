------------------------------ MODULE RtcTicks ------------------------------
(***************************************************************************)
(* The tick count of bios/time.asm: the NMI handler V_NMI, the reader      *)
(* RTC_GETTIX, and a program that sets the count the way the file's        *)
(* comment tells it to.  No instruction of the handler is interrupted, so  *)
(* it is one step; the oscillator fires between any two of the program's.  *)
(*                                                                         *)
(* The count is the file's four 16-bit words, most significant first, with *)
(* fewer and smaller words; it wraps around like theirs.                   *)
(***************************************************************************)
EXTENDS Naturals

CONSTANTS
  Words,    \* words in the count (4)
  Base,     \* values of a word (65536)
  Careful   \* the program waits until a set is done before it goes on

ASSUME RtcAssumption ==
  /\ Words \in Nat \ {0} /\ Base \in Nat \ {0, 1} /\ Careful \in BOOLEAN

VARIABLES
  RTC_TICKS, RTC_TICKS_PRIV,  \* the public and the private count
  RTC_MTX, RTC_SET,           \* the two flags
  pc,                         \* where the program is; "idle" outside
  word,                       \* words it has moved
  got,                        \* the count being read, or to be set
  opened,                     \* history: the public count when the read began
  want,                       \* history: a set was asked for since the last NMI
  ideal                       \* history: what the clock should show

clock == <<RTC_TICKS, RTC_TICKS_PRIV, RTC_MTX, RTC_SET>>
prog  == <<pc, word, got, opened>>
vars  == <<clock, prog, want, ideal>>

Index == 1 .. Words
Count == [Index -> 0 .. Base - 1]
Zero  == [i \in Index |-> 0]

\* The numbers that the leading words of t make: none of them, the first, ...
Leading(t) ==
  LET v[i \in 0 .. Words] == IF i = 0 THEN 0 ELSE v[i - 1] * Base + t[i]
  IN v

\* The number whose words are t, and the words of the largest number.
Value(t) == Leading(t)[Words]
Full     == [i \in Index |-> Base - 1]

-----------------------------------------------------------------------------
\* Mutant: the carry is lost between two words.
PlusNoCarry(t) == [t EXCEPT ![Words] = (t[Words] + 1) % Base]

\* The increment: a word carries into the one before it when it wraps.
PlusOne(t) ==
  [i \in Index |-> IF \A j \in i + 1 .. Words : t[j] = Base - 1
                   THEN (t[i] + 1) % Base ELSE t[i]]

\* What the clock should show next, as a number: what a program asked for, or
\* one more, starting again at 0 after the largest number.
Expected ==
  /\ ideal' = CASE want -> Value(RTC_TICKS)
               [] ~ want /\ ideal = Value(Full) -> 0
               [] OTHER -> ideal + 1
  /\ want' = FALSE

\* Mutant: the public count is updated while a program holds it.
NmiIgnoresMutex ==
  /\ RTC_TICKS_PRIV' = PlusOne(RTC_TICKS_PRIV)
  /\ RTC_TICKS' = RTC_TICKS_PRIV'
  /\ UNCHANGED <<RTC_MTX, RTC_SET>>
  /\ Expected
  /\ UNCHANGED prog

\* Mutant: the mutex is let go, the request is not.
NmiKeepsRequest ==
  /\ \/ /\ RTC_MTX = 0
        /\ RTC_TICKS_PRIV' = PlusOne(RTC_TICKS_PRIV)
        /\ RTC_TICKS' = RTC_TICKS_PRIV' /\ UNCHANGED RTC_MTX
     \/ /\ RTC_MTX = 1 /\ RTC_SET = 0
        /\ RTC_TICKS_PRIV' = PlusOne(RTC_TICKS_PRIV) /\ UNCHANGED <<RTC_TICKS, RTC_MTX>>
     \/ /\ RTC_MTX = 1 /\ RTC_SET = 1
        /\ RTC_TICKS_PRIV' = RTC_TICKS /\ RTC_MTX' = 0 /\ UNCHANGED RTC_TICKS
  /\ UNCHANGED RTC_SET
  /\ Expected
  /\ UNCHANGED prog

V_NMI ==
  /\ \/ /\ RTC_MTX = 0
        /\ RTC_TICKS_PRIV' = PlusOne(RTC_TICKS_PRIV)
        /\ RTC_TICKS' = RTC_TICKS_PRIV' /\ UNCHANGED <<RTC_MTX, RTC_SET>>
     \/ /\ RTC_MTX = 1 /\ RTC_SET = 0
        /\ RTC_TICKS_PRIV' = PlusOne(RTC_TICKS_PRIV)
        /\ UNCHANGED <<RTC_TICKS, RTC_MTX, RTC_SET>>
     \/ /\ RTC_MTX = 1 /\ RTC_SET = 1
        /\ RTC_TICKS_PRIV' = RTC_TICKS
        /\ RTC_MTX' = 0 /\ RTC_SET' = 0 /\ UNCHANGED RTC_TICKS
  /\ Expected
  /\ UNCHANGED prog

-----------------------------------------------------------------------------
\* A careful program leaves the clock alone until its last set is done.
MayStart == pc = "idle" /\ (Careful => RTC_SET = 0 /\ RTC_MTX = 0)

\* RTC_GETTIX: takes the mutex, copies the words, lets go.
GetStart ==
  /\ MayStart
  /\ RTC_MTX' = 1
  /\ pc' = "get" /\ word' = 0 /\ got' = Zero /\ opened' = RTC_TICKS
  /\ UNCHANGED <<RTC_TICKS, RTC_TICKS_PRIV, RTC_SET, want, ideal>>

GetWord ==
  /\ pc = "get" /\ word < Words
  /\ got' = [got EXCEPT ![word + 1] = RTC_TICKS[word + 1]]
  /\ word' = word + 1
  /\ UNCHANGED <<clock, pc, opened, want, ideal>>

GetEnd ==
  /\ pc = "get" /\ word = Words
  /\ RTC_MTX' = 0
  /\ pc' = "got"
  /\ UNCHANGED <<RTC_TICKS, RTC_TICKS_PRIV, RTC_SET, word, got, opened, want, ideal>>

\* The caller has its count.
GetReturn ==
  /\ pc = "got"
  /\ pc' = "idle" /\ word' = 0 /\ got' = Zero /\ opened' = Zero
  /\ UNCHANGED <<clock, want, ideal>>

\* Setting the clock as the comment says: RTC_MTX, then the words, then RTC_SET.
SetStart(t) ==
  /\ MayStart
  /\ RTC_MTX' = 1
  /\ pc' = "set" /\ word' = 0 /\ got' = t
  /\ UNCHANGED <<RTC_TICKS, RTC_TICKS_PRIV, RTC_SET, opened, want, ideal>>

SetWord ==
  /\ pc = "set" /\ word < Words
  /\ RTC_TICKS' = [RTC_TICKS EXCEPT ![word + 1] = got[word + 1]]
  /\ word' = word + 1
  /\ UNCHANGED <<RTC_TICKS_PRIV, RTC_MTX, RTC_SET, pc, got, opened, want, ideal>>

SetEnd ==
  /\ pc = "set" /\ word = Words
  /\ RTC_SET' = 1 /\ want' = TRUE
  /\ pc' = "idle" /\ word' = 0 /\ got' = Zero
  /\ UNCHANGED <<RTC_TICKS, RTC_TICKS_PRIV, RTC_MTX, opened, ideal>>

-----------------------------------------------------------------------------
Init ==
  /\ RTC_TICKS = Zero /\ RTC_TICKS_PRIV = Zero /\ RTC_MTX = 0 /\ RTC_SET = 0
  /\ pc = "idle" /\ word = 0 /\ got = Zero /\ opened = Zero
  /\ want = FALSE /\ ideal = 0

Program ==
  \/ GetStart \/ GetWord \/ GetEnd \/ GetReturn
  \/ \E t \in Count : SetStart(t)
  \/ SetWord \/ SetEnd

Next == V_NMI \/ Program

Spec == Init /\ [][Next]_vars

\* The oscillator never stops.
FairSpec == Spec /\ WF_vars(V_NMI)

-----------------------------------------------------------------------------
(***************************************************************************)
(* The private count goes up by one at every tick, whatever readers do     *)
(* with the mutex, and a set takes effect at the next tick ("This will     *)
(* cause the ISR to set its internal count to the new value").             *)
(***************************************************************************)
ClockKept == Value(RTC_TICKS_PRIV) = ideal

(***************************************************************************)
(* RTC_GETTIX returns the count of one moment, its words not mixed with    *)
(* those of a later tick.                                                  *)
(***************************************************************************)
ReadWhole == pc = "got" => got = opened

(***************************************************************************)
(* A request to set the clock is always answered: both flags go back to 0. *)
(***************************************************************************)
SetAnswered == (RTC_SET = 1) ~> (RTC_SET = 0 /\ RTC_MTX = 0)

=============================================================================
