----------------------------- MODULE HostProofs -----------------------------
(***************************************************************************)
(* The emulator's main loop, for pipes, reads and queues of every size and *)
(* every number of things done at the window, the port and the machine.    *)
(*                                                                         *)
(* The bridge to a serial port keeps the order of both directions and      *)
(* waits for a stalled port once (BridgeOrdered); the machine starts only  *)
(* with an image whose records were right (ImageLoaded).                   *)
(***************************************************************************)
EXTENDS MCHost, Counting, SequenceTheorems

-----------------------------------------------------------------------------
(* Cutting sequences and putting them together                             *)

\* The smaller of two numbers.
LEMMA MinOfTwo ==
  ASSUME NEW n \in Int, NEW k \in Int
  PROVE  Min({n, k}) = IF n <= k THEN n ELSE k
<1> DEFINE m == IF n <= k THEN n ELSE k
<1>1. m \in {n, k} /\ \A y \in {n, k} : m <= y
  OBVIOUS
<1>2. \A x \in {n, k} : (\A y \in {n, k} : x <= y) => x = m
  OBVIOUS
<1> HIDE DEF m
<1>3. Min({n, k}) = m
  BY <1>1, <1>2 DEF Min
<1> QED
  BY <1>3 DEF m

\* What is taken from the front of a sequence and what is left are the sequence.
LEMMA Cut ==
  ASSUME NEW S, NEW s \in Seq(S), NEW n \in Nat
  PROVE  /\ Prefix(s, n) \in Seq(S) /\ Len(Prefix(s, n)) = IF n <= Len(s) THEN n ELSE Len(s)
         /\ Rest(s, n) \in Seq(S) /\ Len(Rest(s, n)) = Len(s) - Len(Prefix(s, n))
         /\ Prefix(s, n) \o Rest(s, n) = s
<1> DEFINE k == IF n <= Len(s) THEN n ELSE Len(s)
<1>1. k \in 0 .. Len(s) /\ Len(s) \in Nat
  OBVIOUS
<1>2. Prefix(s, n) = SubSeq(s, 1, k) /\ Rest(s, n) = SubSeq(s, k + 1, Len(s))
  <2>1. Min({n, Len(s)}) = k
    BY MinOfTwo
  <2> QED
    BY <2>1, Zenon DEF Prefix, Rest
<1>3. \A i \in 1 .. Len(s) : s[i] \in S
  OBVIOUS
<1> HIDE DEF k
<1>4. SubSeq(s, 1, k) \in Seq(S) /\ Len(SubSeq(s, 1, k)) = k
  BY <1>1, <1>3, SubSeqProperties, Z3
<1>5. SubSeq(s, k + 1, Len(s)) \in Seq(S) /\ Len(SubSeq(s, k + 1, Len(s))) = Len(s) - k
  BY <1>1, <1>3, SubSeqProperties, Z3
<1>6. SubSeq(s, 1, k) \o SubSeq(s, k + 1, Len(s)) = SubSeq(s, 1, Len(s))
  <2>1. 1 \in 1 .. Len(s) + 1 /\ k \in 1 - 1 .. Len(s) /\ Len(s) \in k .. Len(s)
    BY <1>1
  <2> QED
    BY <2>1, ConcatAdjacentSubSeq, Zenon
<1>7. SubSeq(s, 1, Len(s)) = s
  BY SubSeqFull, Zenon
<1> QED
  BY <1>1, <1>2, <1>4, <1>5, <1>6, <1>7 DEF k

\* It does not matter which are put together first.
LEMMA Joins ==
  \A a, b, c \in Seq(Nat) : (a \o b) \o c = a \o (b \o c)
  BY ConcatAssociative, SMTT(60)

\* What is taken from one sequence and put behind another leaves the two as they were.
LEMMA Moved ==
  ASSUME NEW S, NEW s \in Seq(S), NEW t \in Seq(S), t # <<>>
  PROVE  /\ Head(t) \in S /\ Tail(t) \in Seq(S) /\ Len(Tail(t)) = Len(t) - 1
         /\ Append(s, Head(t)) \in Seq(S) /\ Append(s, Head(t)) \o Tail(t) = s \o t
<1>1. Head(t) \in S /\ Tail(t) \in Seq(S) /\ Len(Tail(t)) = Len(t) - 1
  BY HeadTailProperties, Zenon
<1>2. t = <<Head(t)>> \o Tail(t)
  <2> DEFINE u == <<Head(t)>> \o Tail(t)
  <2>1. u \in Seq(S) /\ Len(u) = Len(t)
    BY <1>1
  <2>2. ASSUME NEW i \in 1 .. Len(t) PROVE t[i] = u[i]
    <3>1. CASE i = 1
      BY <3>1
    <3>2. CASE i # 1
      BY <1>1, <3>2
    <3> QED
      BY <3>1, <3>2
  <2> HIDE DEF u
  <2>3. t = u
    BY <2>1, <2>2, SeqEqual, Zenon
  <2> QED
    BY <2>3 DEF u
<1>3. Append(s, Head(t)) = s \o <<Head(t)>> /\ Append(s, Head(t)) \in Seq(S) /\ <<Head(t)>> \in Seq(S)
  BY <1>1, AppendIsConcat, AppendProperties
<1>4. (s \o <<Head(t)>>) \o Tail(t) = s \o (<<Head(t)>> \o Tail(t))
  BY <1>1, <1>3, ConcatAssociative, SMTT(60)
<1> QED
  BY <1>1, <1>2, <1>3, <1>4

-----------------------------------------------------------------------------
(* The bridge: what is on its way each way                                 *)

Rising(s) == \A i, j \in 1 .. Len(s) : i < j => s[i] < s[j]
Within(s, n) == \A i \in 1 .. Len(s) : s[i] <= n

\* From the port to the machine, and from the machine to the port.
Inward == hist.rx \o uart.rx \o port.in
Outward == port.out \o br.buf \o uart.tx

BridgeTypes ==
  /\ opts = [video |-> FALSE, com |-> TRUE]
  /\ DOMAIN em = {"at", "then", "frame", "k"} /\ em.at \in {"run", "poll", "serial", "write", "wait"}
  /\ ~out.pipes /\ out.input = <<>>
  /\ uart \in [rx : Seq(Nat), tx : Seq(Nat)] /\ Len(uart.rx) <= RxLimit
  /\ br \in [buf : Seq(Nat), write_stalled : BOOLEAN]
  /\ port \in [in : Seq(Nat), out : Seq(Nat), room : Nat, dead : BOOLEAN]
  /\ DOMAIN hist = {"sent", "seen", "tx", "rx", "waits", "lost"}
  /\ hist.rx \in Seq(Nat) /\ hist.tx \in Seq(Nat)

\* The bridge holds bytes only while it writes them, waits only for a port that
\* has not stalled, and counts a wait in vain only when it has.
BridgePlaces ==
  /\ em.at \notin {"write", "wait"} => br.buf = <<>>
  /\ em.at = "wait" => ~br.write_stalled
  /\ hist.waits \in 0 .. 1
  /\ ~br.write_stalled => hist.waits = 0

BridgeFlow ==
  /\ Rising(Inward)
  /\ Rising(Outward) /\ Within(Outward, Len(hist.tx))
  /\ ~hist.lost => Outward = hist.tx

BridgeInv == Live("bridge") => BridgeTypes /\ BridgePlaces /\ BridgeFlow

\* Bytes may be left out of the middle.
LEMMA LeftOut ==
  ASSUME NEW a \in Seq(Nat), NEW b \in Seq(Nat), NEW c \in Seq(Nat), NEW n,
         Rising(a \o b \o c)
  PROVE  Rising(a \o c) /\ (Within(a \o b \o c, n) => Within(a \o c, n))
<1> DEFINE s == a \o b \o c
           t == a \o c
           At(i) == IF i <= Len(a) THEN i ELSE i + Len(b)
<1>1. /\ Len(s) = Len(a) + Len(b) + Len(c) /\ Len(t) = Len(a) + Len(c)
      /\ \A i \in 1 .. Len(t) : At(i) \in 1 .. Len(s) /\ t[i] = s[At(i)]
  BY SMTT(60)
<1>2. \A i, j \in 1 .. Len(t) : i < j => At(i) < At(j)
  OBVIOUS
<1>3. Rising(s)
  OBVIOUS
<1> HIDE DEF s, t, At
<1>4. Rising(t)
  BY <1>1, <1>2, <1>3 DEF Rising
<1>5. Within(s, n) => Within(t, n)
  BY <1>1 DEF Within
<1> QED
  BY <1>4, <1>5 DEF s, t

\* The next number may be put behind.
LEMMA PutBehind ==
  ASSUME NEW s \in Seq(Nat), NEW n \in Nat, Rising(s), Within(s, n)
  PROVE  Rising(s \o <<n + 1>>) /\ Within(s \o <<n + 1>>, n + 1)
<1> DEFINE t == s \o <<n + 1>>
<1>1. /\ Len(t) = Len(s) + 1 /\ t[Len(s) + 1] = n + 1
      /\ \A i \in 1 .. Len(s) : t[i] = s[i] /\ s[i] \in Nat
  OBVIOUS
<1> HIDE DEF t
<1>2. ASSUME NEW i \in 1 .. Len(t), NEW j \in 1 .. Len(t), i < j PROVE t[i] < t[j]
  <2>1. Len(s) \in Nat
    OBVIOUS
  <2>2. i \in 1 .. Len(s) /\ (j \in 1 .. Len(s) \/ j = Len(s) + 1)
    BY <1>1, <1>2, <2>1, SMTT(60)
  <2>3. t[i] = s[i] /\ s[i] <= n /\ s[i] \in Nat
    BY <1>1, <2>2 DEF Within
  <2>4. CASE j = Len(s) + 1
    BY <1>1, <2>3, <2>4
  <2>5. CASE j \in 1 .. Len(s)
    <3>1. t[j] = s[j] /\ s[i] < s[j]
      BY <1>1, <1>2, <2>2, <2>5 DEF Rising
    <3> QED
      BY <2>3, <3>1
  <2> QED
    BY <2>2, <2>4, <2>5
<1>3. ASSUME NEW i \in 1 .. Len(t) PROVE t[i] <= n + 1
  <2>1. Len(s) \in Nat
    OBVIOUS
  <2>2. CASE i = Len(s) + 1
    BY <1>1, <2>2
  <2>3. CASE i \in 1 .. Len(s)
    <3>1. t[i] = s[i] /\ s[i] <= n /\ s[i] \in Nat
      BY <1>1, <2>3 DEF Within
    <3> QED
      BY <3>1
  <2> QED
    BY <1>1, <2>1, <2>2, <2>3
<1> QED
  BY <1>2, <1>3 DEF t, Rising, Within

-----------------------------------------------------------------------------
(* The steps of a bridged emulator                                         *)

\* What leaves the bridge and its queues alone keeps what is said of them.
LEMMA BridgeKept ==
  ASSUME BridgeTypes, BridgePlaces, BridgeFlow,
         UNCHANGED <<opts, uart, br, port>>, ~out'.pipes, out'.input = <<>>,
         DOMAIN em' = DOMAIN em, em'.at \in {"run", "poll", "serial"}, em.at \notin {"write", "wait"},
         DOMAIN hist' = DOMAIN hist, hist'.rx = hist.rx, hist'.tx = hist.tx,
         hist'.waits = hist.waits, hist'.lost = hist.lost
  PROVE  (BridgeTypes /\ BridgePlaces /\ BridgeFlow)'
<1>1. BridgeTypes'
  BY DEF BridgeTypes
<1>2. BridgePlaces'
  BY DEF BridgePlaces
<1>3. BridgeFlow'
  BY DEF BridgeFlow, Inward, Outward
<1> QED
  BY <1>1, <1>2, <1>3

\* The machine sends a byte, or takes one.
LEMMA MachineStep ==
  ASSUME BridgeTypes, BridgePlaces, BridgeFlow, uart_sends(Len(hist.tx) + 1) \/ uart_receives
  PROVE  (BridgeTypes /\ BridgePlaces /\ BridgeFlow)'
<1>0. /\ uart.rx \in Seq(Nat) /\ uart.tx \in Seq(Nat) /\ br.buf \in Seq(Nat) /\ port.out \in Seq(Nat)
      /\ port.in \in Seq(Nat) /\ hist.rx \in Seq(Nat) /\ hist.tx \in Seq(Nat) /\ Len(hist.tx) \in Nat
  BY DEF BridgeTypes
<1>1. CASE uart_sends(Len(hist.tx) + 1)
  <2> DEFINE b == Len(hist.tx) + 1
  <2>1. /\ em.at = "run" /\ UNCHANGED <<opts, em, screen, br, port>>
        /\ uart' = [uart EXCEPT !.tx = Append(@, b)] /\ hist' = [hist EXCEPT !.tx = Append(@, b)]
    BY <1>1 DEF uart_sends
  <2>2. b \in Nat
    BY <1>0
  <2>3. Append(uart.tx, b) = uart.tx \o <<b>> /\ Append(hist.tx, b) = hist.tx \o <<b>>
    BY <1>0, <2>2, AppendIsConcat, Zenon
  <2> HIDE DEF b
  <2>4. hist'.tx = hist.tx \o <<b>> /\ hist'.tx \in Seq(Nat) /\ Len(hist'.tx) = b
    <3>1. hist'.tx = Append(hist.tx, b)
      BY <2>1 DEF BridgeTypes
    <3>2. Append(hist.tx, b) \in Seq(Nat) /\ Len(Append(hist.tx, b)) = Len(hist.tx) + 1
      BY <1>0, <2>2, AppendProperties, ZenonT(60)
    <3> QED
      BY <2>3, <3>1, <3>2 DEF b
  <2>5. BridgeTypes'
    <3>1. Append(uart.tx, b) \in Seq(Nat)
      BY <1>0, <2>2, AppendProperties, Zenon
    <3> QED
      BY <1>0, <2>1, <2>4, <3>1 DEF BridgeTypes, screen
  <2>6. BridgePlaces'
    BY <2>1 DEF BridgeTypes, BridgePlaces
  <2>7. Outward' = Outward \o <<b>> /\ Outward \in Seq(Nat) /\ Inward' = Inward
    <3>1. uart'.tx = uart.tx \o <<b>> /\ uart'.rx = uart.rx
      BY <2>1, <2>3 DEF BridgeTypes
    <3>2. hist'.rx = hist.rx
      BY <2>1 DEF BridgeTypes
    <3> QED
      <4>1. <<b>> \in Seq(Nat) /\ port.out \o br.buf \in Seq(Nat) /\ Outward \in Seq(Nat)
        BY <1>0, <2>2 DEF Outward
      <4>2. ((port.out \o br.buf) \o uart.tx) \o <<b>> = (port.out \o br.buf) \o (uart.tx \o <<b>>)
        <5> DEFINE o == port.out \o br.buf
        <5>1. o \in Seq(Nat) /\ uart.tx \in Seq(Nat) /\ <<b>> \in Seq(Nat)
          BY <1>0, <4>1
        <5> HIDE DEF o
        <5>2. (o \o uart.tx) \o <<b>> = o \o (uart.tx \o <<b>>)
          BY <5>1, Joins, Zenon
        <5> QED
          BY <5>2 DEF o
      <4> QED
        BY <2>1, <3>1, <3>2, <4>1, <4>2 DEF Inward, Outward
  <2>8. Rising(Outward \o <<b>>) /\ Within(Outward \o <<b>>, b)
    BY <1>0, <2>7, PutBehind DEF BridgeFlow, b
  <2>9. hist'.lost = hist.lost
    BY <2>1 DEF BridgeTypes
  <2>10. BridgeFlow'
    BY <2>4, <2>7, <2>8, <2>9 DEF BridgeFlow
  <2> QED
    BY <2>5, <2>6, <2>10
<1>2. CASE uart_receives
  <2>1. /\ em.at = "run" /\ UNCHANGED <<opts, em, screen, br, port>> /\ uart.rx # <<>>
        /\ uart' = [uart EXCEPT !.rx = Tail(@)] /\ hist' = [hist EXCEPT !.rx = Append(@, Head(uart.rx))]
    BY <1>2 DEF uart_receives
  <2>2. /\ Head(uart.rx) \in Nat /\ Tail(uart.rx) \in Seq(Nat) /\ Len(Tail(uart.rx)) = Len(uart.rx) - 1
        /\ Append(hist.rx, Head(uart.rx)) \in Seq(Nat)
        /\ Append(hist.rx, Head(uart.rx)) \o Tail(uart.rx) = hist.rx \o uart.rx
    BY <1>0, <2>1, Moved, ZenonT(60)
  <2>3. /\ uart'.rx = Tail(uart.rx) /\ uart'.tx = uart.tx /\ hist'.rx = Append(hist.rx, Head(uart.rx))
        /\ hist'.tx = hist.tx /\ hist'.lost = hist.lost /\ hist'.waits = hist.waits /\ DOMAIN hist' = DOMAIN hist
    BY <2>1 DEF BridgeTypes
  <2>4. BridgeTypes'
    <3>1. hist'.rx \in Seq(Nat)
      BY <1>0, <2>2, <2>3
    <3>2. Len(Tail(uart.rx)) <= RxLimit
      BY <1>0, <2>1, <2>2, HostConstants, SMTT(60) DEF BridgeTypes
    <3> QED
      BY <1>0, <2>1, <2>2, <2>3, <3>1, <3>2 DEF BridgeTypes, screen
  <2>5. BridgePlaces'
    BY <2>1, <2>3 DEF BridgePlaces
  <2>6. Inward' = Inward /\ Outward' = Outward
    BY <2>1, <2>2, <2>3 DEF Inward, Outward
  <2>7. BridgeFlow'
    BY <2>3, <2>6 DEF BridgeFlow
  <2> QED
    BY <2>4, <2>5, <2>7
<1> QED
  BY <1>1, <1>2

\* The bridge reads from the port, and takes what it is to write.
LEMMA ReadsStep ==
  ASSUME BridgeTypes, BridgePlaces, BridgeFlow, bridge_reads
  PROVE  (BridgeTypes /\ BridgePlaces /\ BridgeFlow)'
<1> DEFINE p == Prefix(port.in, PortSize)
           r == Rest(port.in, PortSize)
           room == RxLimit - Len(uart.rx)
           p1 == Prefix(p, room)
           p2 == Rest(p, room)
           b == Prefix(uart.tx, PortSize)
           t == Rest(uart.tx, PortSize)
           q == uart.rx
           a == hist.rx
           o == port.out
<1>0. /\ q \in Seq(Nat) /\ uart.tx \in Seq(Nat) /\ o \in Seq(Nat) /\ port.in \in Seq(Nat) /\ a \in Seq(Nat)
      /\ Len(q) \in Nat /\ Len(q) <= RxLimit /\ RxLimit \in Nat /\ PortSize \in Nat
  BY HostConstants DEF BridgeTypes
<1>1. /\ em.at = "serial" /\ em'.at = "write" /\ DOMAIN em' = DOMAIN em /\ UNCHANGED <<opts, hist>>
      /\ out'.pipes = out.pipes /\ out'.input = out.input
      /\ uart' = [rx |-> q \o p1, tx |-> t]
      /\ port' = [port EXCEPT !.in = r] /\ br' = [br EXCEPT !.buf = b]
  BY DEF bridge_reads, BridgeTypes, Step, rx_enqueue
<1>2. /\ p \in Seq(Nat) /\ r \in Seq(Nat) /\ p \o r = port.in
      /\ b \in Seq(Nat) /\ t \in Seq(Nat) /\ b \o t = uart.tx
  BY <1>0, Cut, Zenon
<1>3. room \in Nat
  BY <1>0
<1>4. p1 \in Seq(Nat) /\ p2 \in Seq(Nat) /\ p1 \o p2 = p /\ Len(p1) <= room
  <2>1. Len(p) \in Nat
    BY <1>2
  <2> HIDE DEF p, room
  <2>2. p1 \in Seq(Nat) /\ p2 \in Seq(Nat) /\ p1 \o p2 = p /\ Len(p1) = IF room <= Len(p) THEN room ELSE Len(p)
    BY <1>2, <1>3, Cut, Zenon
  <2> QED
    BY <1>3, <2>1, <2>2
<1>5. q \o p1 \in Seq(Nat) /\ Len(q \o p1) <= RxLimit
  <2> HIDE DEF p1, q
  <2>1. Len(q \o p1) = Len(q) + Len(p1) /\ q \o p1 \in Seq(Nat) /\ Len(p1) \in Nat
    BY <1>0, <1>4
  <2> QED
    BY <1>0, <1>4, <2>1 DEF q
<1> HIDE DEF p, r, room, p1, p2, b, t, q, a, o
<1>6. BridgeTypes'
  BY <1>1, <1>2, <1>5 DEF BridgeTypes, o
<1>7. BridgePlaces'
  BY <1>1 DEF BridgeTypes, BridgePlaces
<1>8. Inward = (a \o (q \o p1)) \o p2 \o r /\ Inward' = (a \o (q \o p1)) \o r
  <2>1. Inward = (a \o q) \o ((p1 \o p2) \o r)
    BY <1>2, <1>4 DEF Inward, a, q
  <2>2. (a \o q) \o ((p1 \o p2) \o r) = (a \o q) \o (p1 \o (p2 \o r))
    BY <1>2, <1>4, Joins, ZenonT(60)
  <2> DEFINE x == p2 \o r
             y == a \o q
  <2>3. x \in Seq(Nat) /\ y \in Seq(Nat) /\ q \o p1 \in Seq(Nat)
    BY <1>0, <1>2, <1>4
  <2> HIDE DEF x, y
  <2>4. y \o (p1 \o x) = (y \o p1) \o x
    BY <1>4, <2>3, Joins, ZenonT(60)
  <2>5. y \o p1 = a \o (q \o p1)
    BY <1>0, <1>4, Joins, ZenonT(60) DEF y
  <2> DEFINE z == a \o (q \o p1)
  <2>6. z \in Seq(Nat)
    BY <1>0, <2>3
  <2> HIDE DEF z
  <2>7. z \o x = (z \o p2) \o r
    BY <1>2, <1>4, <2>6, Joins, ZenonT(60) DEF x
  <2>8. Inward' = z \o r
    BY <1>1 DEF Inward, BridgeTypes, z, a
  <2> QED
    BY <2>1, <2>2, <2>4, <2>5, <2>7, <2>8 DEF x, y, z
<1>9. Outward' = Outward
  <2>1. br.buf = <<>> /\ o \o <<>> = o
    BY <1>0, <1>1, ConcatEmptySeq DEF BridgePlaces
  <2>2. Outward = o \o (b \o t)
    BY <1>2, <2>1 DEF Outward, o
  <2>3. (o \o b) \o t = o \o (b \o t)
    BY <1>0, <1>2, Joins, ZenonT(60)
  <2>4. Outward' = o \o b \o t
    BY <1>1 DEF Outward, BridgeTypes, o
  <2> QED
    BY <2>2, <2>3, <2>4
<1>10. Rising(Inward')
  <2> DEFINE z == a \o (q \o p1)
  <2>1. z \in Seq(Nat)
    BY <1>0, <1>4
  <2> HIDE DEF z
  <2>2. Rising(z \o p2 \o r)
    BY <1>8 DEF BridgeFlow, z
  <2>3. Rising(z \o r)
    BY <1>2, <1>4, <2>1, <2>2, LeftOut
  <2> QED
    BY <1>8, <2>3 DEF z
<1>11. BridgeFlow'
  BY <1>1, <1>9, <1>10 DEF BridgeFlow, Rising
<1> QED
  BY <1>6, <1>7, <1>11

\* The bridge writes: all is written, some of it, it has to wait, or the rest is dropped.
LEMMA WritesStep ==
  ASSUME BridgeTypes, BridgePlaces, BridgeFlow, bridge_writes
  PROVE  (BridgeTypes /\ BridgePlaces /\ BridgeFlow)'
<1>0. /\ uart.rx \in Seq(Nat) /\ uart.tx \in Seq(Nat) /\ br.buf \in Seq(Nat) /\ port.out \in Seq(Nat)
      /\ port.in \in Seq(Nat) /\ hist.rx \in Seq(Nat) /\ hist.tx \in Seq(Nat) /\ port.room \in Nat
  BY DEF BridgeTypes
<1>1. em.at = "write" /\ UNCHANGED <<opts, out, uart>>
  BY DEF bridge_writes, screen
<1>2. CASE br.buf = <<>> /\ Step("run") /\ UNCHANGED <<br, port, hist>>
  <2>1. BridgeTypes'
    BY <1>1, <1>2 DEF BridgeTypes, Step
  <2>2. BridgePlaces'
    BY <1>1, <1>2 DEF BridgeTypes, BridgePlaces, Step
  <2>3. BridgeFlow'
    BY <1>1, <1>2 DEF BridgeFlow, Inward, Outward
  <2> QED
    BY <2>1, <2>2, <2>3
<1>3. ASSUME NEW n \in 1 .. Min({port.room, Len(br.buf)}), UNCHANGED em,
             port' = [port EXCEPT !.out = @ \o Prefix(br.buf, n), !.room = @ - n],
             br' = [buf |-> Rest(br.buf, n), write_stalled |-> FALSE],
             hist' = [hist EXCEPT !.waits = 0]
      PROVE  (BridgeTypes /\ BridgePlaces /\ BridgeFlow)'
  <2> DEFINE p == Prefix(br.buf, n)
             r == Rest(br.buf, n)
             o == port.out
             b == br.buf
             t == uart.tx
  <2>1. Len(br.buf) \in Nat
    BY <1>0
  <2>2. n \in Nat /\ n <= port.room
    <3>1. Min({port.room, Len(br.buf)}) = IF port.room <= Len(br.buf) THEN port.room ELSE Len(br.buf)
      <4>1. port.room \in Int /\ Len(br.buf) \in Int
        BY <1>0, <2>1
      <4> QED
        BY <4>1, MinOfTwo, Zenon
    <3> QED
      BY <1>0, <1>3, <2>1, <3>1
  <2>3. p \in Seq(Nat) /\ r \in Seq(Nat) /\ p \o r = br.buf
    BY <1>0, <2>2, Cut, Zenon
  <2> HIDE DEF p, r
  <2>4. o \o p \in Seq(Nat) /\ port.room - n \in Nat
    BY <1>0, <2>2, <2>3, SMTT(60)
  <2>5. /\ port' = [in |-> port.in, out |-> o \o p, room |-> port.room - n, dead |-> port.dead]
        /\ br' = [buf |-> r, write_stalled |-> FALSE]
    BY <1>3 DEF p, r, BridgeTypes
  <2>6. BridgeTypes'
    <3>1. DOMAIN hist' = DOMAIN hist /\ hist'.rx = hist.rx /\ hist'.tx = hist.tx /\ em' = em
      BY <1>3 DEF BridgeTypes
    <3>2. /\ port' \in [in : Seq(Nat), out : Seq(Nat), room : Nat, dead : BOOLEAN]
          /\ br' \in [buf : Seq(Nat), write_stalled : BOOLEAN]
      BY <1>0, <2>3, <2>4, <2>5 DEF BridgeTypes
    <3> QED
      BY <1>1, <3>1, <3>2 DEF BridgeTypes
  <2>7. BridgePlaces'
    BY <1>1, <1>3, <2>5 DEF BridgeTypes, BridgePlaces
  <2>8. Inward' = Inward /\ Outward' = (o \o p) \o r \o t
    <3>1. port'.in = port.in /\ port'.out = o \o p /\ br'.buf = r
      BY <2>5
    <3>2. hist'.rx = hist.rx
      BY <1>3 DEF BridgeTypes
    <3> QED
      BY <1>1, <3>1, <3>2 DEF Inward, Outward
  <2>9. (o \o p) \o r = o \o (p \o r)
    <3> HIDE DEF o
    <3>1. o \in Seq(Nat)
      BY <1>0 DEF o
    <3> QED
      BY <2>3, <3>1, Joins, Zenon
  <2>10. Outward' = Outward
    BY <2>3, <2>8, <2>9 DEF Outward
  <2>11. hist'.lost = hist.lost /\ hist'.tx = hist.tx
    BY <1>3 DEF BridgeTypes
  <2>12. BridgeFlow'
    BY <2>8, <2>10, <2>11 DEF BridgeFlow
  <2> QED
    BY <2>6, <2>7, <2>12
<1>4. CASE Waits(br) /\ Step("wait") /\ UNCHANGED <<br, port, hist>>
  <2>1. BridgeTypes'
    BY <1>1, <1>4 DEF BridgeTypes, Step
  <2>2. BridgePlaces'
    BY <1>1, <1>4 DEF BridgeTypes, BridgePlaces, Step, Waits
  <2>3. BridgeFlow'
    BY <1>1, <1>4 DEF BridgeFlow, Inward, Outward
  <2> QED
    BY <2>1, <2>2, <2>3
<1>5. CASE /\ br' = [br EXCEPT !.buf = <<>>] /\ Step("run")
           /\ hist' = [hist EXCEPT !.lost = TRUE] /\ UNCHANGED port
  <2>1. BridgeTypes'
    <3>1. br' = [buf |-> <<>>, write_stalled |-> br.write_stalled]
      BY <1>5 DEF BridgeTypes
    <3>2. br' \in [buf : Seq(Nat), write_stalled : BOOLEAN]
      BY <3>1 DEF BridgeTypes
    <3> QED
      BY <1>1, <1>5, <3>2 DEF BridgeTypes, Step
  <2>2. BridgePlaces'
    BY <1>1, <1>5 DEF BridgeTypes, BridgePlaces, Step
  <2>3. port.out \o <<>> = port.out
    BY <1>0, ConcatEmptySeq, Zenon
  <2>4. Inward' = Inward /\ Outward' = port.out \o uart.tx
    BY <1>1, <1>5, <2>3 DEF Inward, Outward, BridgeTypes
  <2>5. hist'.lost /\ hist'.tx = hist.tx
    BY <1>5 DEF BridgeTypes
  <2>6. Rising(port.out \o uart.tx) /\ Within(port.out \o uart.tx, Len(hist.tx))
    BY <1>0, LeftOut DEF BridgeFlow, Outward
  <2>7. BridgeFlow'
    BY <2>4, <2>5, <2>6 DEF BridgeFlow
  <2> QED
    BY <2>1, <2>2, <2>7
<1> QED
  BY <1>2, <1>3, <1>4, <1>5, Zenon DEF bridge_writes

\* The wait for the port is over, or in vain.
LEMMA WaitsStep ==
  ASSUME BridgeTypes, BridgePlaces, BridgeFlow, bridge_waits
  PROVE  (BridgeTypes /\ BridgePlaces /\ BridgeFlow)'
<1>1. em.at = "wait" /\ em' = [em EXCEPT !.at = "write"] /\ UNCHANGED <<opts, out, uart, port>>
  BY DEF bridge_waits, Step, screen
<1>2. CASE UNCHANGED <<br, hist>>
  <2>1. BridgeTypes'
    BY <1>1, <1>2 DEF BridgeTypes
  <2>2. BridgePlaces'
    BY <1>1, <1>2 DEF BridgeTypes, BridgePlaces
  <2>3. BridgeFlow'
    BY <1>1, <1>2 DEF BridgeFlow, Inward, Outward
  <2> QED
    BY <2>1, <2>2, <2>3
<1>3. CASE br' = [br EXCEPT !.write_stalled = TRUE] /\ hist' = [hist EXCEPT !.waits = @ + 1]
  <2>1. BridgeTypes'
    BY <1>1, <1>3 DEF BridgeTypes
  <2>2. BridgePlaces'
    BY <1>1, <1>3 DEF BridgeTypes, BridgePlaces
  <2>3. BridgeFlow'
    BY <1>1, <1>3 DEF BridgeTypes, BridgeFlow, Inward, Outward
  <2> QED
    BY <2>1, <2>2, <2>3
<1> QED
  BY <1>2, <1>3 DEF bridge_waits

\* The other steps leave the bridge and its queues alone, or cannot be taken.
LEMMA OtherSteps ==
  ASSUME BridgeTypes, BridgePlaces, BridgeFlow, Live("bridge"), [Next]_mvars
  PROVE  (BridgeTypes /\ BridgePlaces /\ BridgeFlow)'
<1> DEFINE Same == /\ UNCHANGED <<opts, uart, br, port>> /\ ~out'.pipes /\ out'.input = <<>>
                   /\ DOMAIN em' = DOMAIN em /\ em'.at \in {"run", "poll", "serial"} /\ em.at \notin {"write", "wait"}
                   /\ DOMAIN hist' = DOMAIN hist /\ hist'.rx = hist.rx /\ hist'.tx = hist.tx
                   /\ hist'.waits = hist.waits /\ hist'.lost = hist.lost
           Still == UNCHANGED <<opts, em, out, uart, br, port, hist>>
           Good1 == (BridgeTypes /\ BridgePlaces /\ BridgeFlow)'
<1>1. CASE Same
  BY <1>1, BridgeKept
<1>2. CASE Still
  <2>1. BridgeTypes'
    BY <1>2 DEF BridgeTypes
  <2>2. BridgePlaces'
    BY <1>2 DEF BridgePlaces
  <2>3. BridgeFlow'
    BY <1>2 DEF BridgeFlow, Inward, Outward
  <2> QED
    BY <2>1, <2>2, <2>3
<1>3. CASE Emulator
  <2>1. ~write_all /\ ~finish /\ ~console
    BY DEF BridgeTypes, write_all, finish, console
  <2>2. CASE run_ends
    BY <1>1, <2>2 DEF run_ends, BridgeTypes, Step, screen, serial
  <2>3. CASE poll
    <3>1. em.at = "poll" /\ UNCHANGED <<opts, br, port>>
      BY <2>3 DEF poll
    <3>2. out' = out /\ Step("serial") /\ UNCHANGED <<uart, hist>>
      BY <2>3 DEF poll, BridgeTypes
    <3> QED
      BY <1>1, <3>1, <3>2 DEF BridgeTypes, Step
  <2> QED
    BY <1>3, <2>1, <2>2, <2>3, ReadsStep, WritesStep, WaitsStep DEF Emulator
<1>4. CASE Window
  <2>1. CASE window_sends
    <3>1. UNCHANGED <<opts, em, out, uart, br, port>>
      BY <2>1 DEF window_sends, serial
    <3>2. UNCHANGED hist
      BY <2>1 DEF window_sends, BridgeTypes
    <3> QED
      BY <1>2, <3>1, <3>2
  <2>2. CASE window_starts \/ window_shows \/ window_ends
    BY <1>2, <2>2 DEF window_starts, window_shows, window_ends, serial
  <2> QED
    BY <1>4, <2>1, <2>2 DEF Window
<1>5. CASE read_frames
  BY <1>2, <1>5 DEF read_frames, serial
<1>6. CASE AtWindow
  <2>1. ASSUME NEW inputs, NEW mouse, NEW buttons, Event(inputs, mouse, buttons) PROVE Still
    BY <2>1 DEF Event, serial
  <2>2. CASE WindowClosed
    BY <1>2, <2>2 DEF WindowClosed, serial
  <2> QED
    BY <1>2, <1>6, <2>1, <2>2 DEF AtWindow, Presses, Releases, Drags, Clicks, Turns, Leaves, ComesBack,
                                  KeyDown, KeyUp, MouseEvent, WheelTurned, FocusLost, Entered
<1>7. CASE Machine
  <2>1. ~(\E pixels \in BOOLEAN : frame(pixels))
    BY DEF frame, BridgeTypes
  <2>2. ~Live("window")
    BY DEF Live
  <2> QED
    BY <1>7, <2>1, <2>2, MachineStep, Zenon DEF Machine
<1>8. CASE Port
  <2>1. /\ UNCHANGED <<opts, em, out, uart, br, hist>>
        /\ \/ \E n \in 1 .. 2 : port' = [port EXCEPT !.room = @ + n]
           \/ port' = [port EXCEPT !.dead = TRUE]
    BY <1>8 DEF Port, screen
  <2>2. port'.in = port.in /\ port'.out = port.out
        /\ port' \in [in : Seq(Nat), out : Seq(Nat), room : Nat, dead : BOOLEAN]
    <3>1. CASE port' = [port EXCEPT !.dead = TRUE]
      BY <3>1 DEF BridgeTypes
    <3>2. ASSUME NEW n \in 1 .. 2, port' = [port EXCEPT !.room = @ + n] 
          PROVE  port'.in = port.in /\ port'.out = port.out
                 /\ port' \in [in : Seq(Nat), out : Seq(Nat), room : Nat, dead : BOOLEAN]
      <4>1. port.room + n \in Nat
        BY DEF BridgeTypes
      <4> QED
        BY <3>2, <4>1 DEF BridgeTypes
    <3> QED
      BY <2>1, <3>1, <3>2
  <2>3. BridgeTypes'
    BY <2>1, <2>2 DEF BridgeTypes
  <2>4. BridgePlaces'
    BY <2>1 DEF BridgePlaces
  <2>5. BridgeFlow'
    BY <2>1, <2>2 DEF BridgeFlow, Inward, Outward
  <2> QED
    BY <2>3, <2>4, <2>5
<1>9. ~Boots /\ ~Quits
  BY DEF Boots, Quits, Live
<1>10. CASE UNCHANGED mvars
  BY <1>2, <1>10 DEF mvars, hvars
<1> QED
  BY <1>3, <1>4, <1>5, <1>6, <1>7, <1>8, <1>9, <1>10 DEF Next

\* The use of the emulator stays what it is.
LEMMA SceneKept == [Next]_mvars => scene' = scene
  BY DEF Next, mvars, Rest1, AtWindow, Machine, Port, Boots, Quits

\* The emulator begins with nothing on its way.
LEMMA BridgeInit == Init => BridgeInv
<1> SUFFICES ASSUME Init, Live("bridge") PROVE BridgeTypes /\ BridgePlaces /\ BridgeFlow
  BY DEF BridgeInv
<1>1. BridgeTypes
  <2>1. opts = [video |-> FALSE, com |-> TRUE] /\ em = [at |-> "run", then |-> "run", frame |-> 0, k |-> 0]
    BY DEF Init, Live
  <2>2. <<1, 2, 3, 4>> \in Seq(Nat) /\ <<>> \in Seq(Nat) /\ Len(<<>>) = 0
    OBVIOUS
  <2>3. /\ uart \in [rx : Seq(Nat), tx : Seq(Nat)] /\ Len(uart.rx) <= RxLimit
        /\ br \in [buf : Seq(Nat), write_stalled : BOOLEAN]
        /\ port \in [in : Seq(Nat), out : Seq(Nat), room : Nat, dead : BOOLEAN]
    BY <2>2, HostConstants DEF Init
  <2>4. ~out.pipes /\ out.input = <<>>
    BY DEF Init, closedOut
  <2>5. /\ DOMAIN hist = {"sent", "seen", "tx", "rx", "waits", "lost"}
        /\ hist.rx \in Seq(Nat) /\ hist.tx \in Seq(Nat)
    BY <2>2 DEF Init
  <2> QED
    BY <2>1, <2>3, <2>4, <2>5 DEF BridgeTypes
<1>2. BridgePlaces
  BY DEF Init, BridgePlaces
<1>3. Inward = <<1, 2, 3, 4>> /\ Outward = <<>> /\ hist.tx = <<>>
  BY DEF Init, Inward, Outward
<1>4. BridgeFlow
  BY <1>3 DEF BridgeFlow, Rising, Within
<1> QED
  BY <1>1, <1>2, <1>4

(***************************************************************************)
(* The bridge (ComPortBridge::poll) keeps the order of both directions,    *)
(* whatever the sizes of its buffers and of the chip's queue, however the  *)
(* port takes a write in parts, stalls or dies, and however much the chip  *)
(* refuses; it loses output only when the port is dead or a wait has timed *)
(* out; and it waits in vain once between two writes that get through.     *)
(***************************************************************************)
THEOREM HostBridgeOrdered == Spec => []BridgeOrdered
<1>1. BridgeInv /\ [Next]_mvars => BridgeInv'
  BY OtherSteps, SceneKept DEF BridgeInv, Live
<1>2. BridgeInv => BridgeOrdered
  <2> SUFFICES ASSUME BridgeInv, Live("bridge") PROVE BridgeFlow /\ BridgePlaces => BridgeOrdered
    BY DEF BridgeInv, BridgeOrdered
  <2>1. ASSUME BridgeFlow, BridgePlaces PROVE hist.waits <= 1
    BY <2>1 DEF BridgePlaces
  <2>2. ASSUME BridgeFlow PROVE Rising(Inward) /\ Rising(Outward) /\ (~hist.lost => Outward = hist.tx)
    BY <2>2 DEF BridgeFlow
  <2> QED
    BY <2>1, <2>2, Zenon DEF BridgeOrdered, Rising, Inward, Outward
<1> QED
  BY <1>1, <1>2, BridgeInit, PTL DEF Spec

-----------------------------------------------------------------------------
(* The loader of S-records                                                 *)

\* The digits of a number, one after the other.
LEMMA InBaseSteps ==
  ASSUME NEW base \in Nat, NEW seq \in Seq(Nat)
  PROVE  \E f : /\ f[0] = 0 /\ f[Len(seq)] = InBase(base, seq)
                /\ \A k \in 1 .. Len(seq) : f[k] = f[k - 1] * base + seq[k]
<1> DEFINE n == Len(seq)
           Rec(g, m) == [k \in 0 .. m |-> IF k = 0 THEN 0 ELSE g[k - 1] * base + seq[k]]
           S == {m \in 0 .. n : \E g : g = Rec(g, m)}
<1>0. n \in Nat
  OBVIOUS
<1>1. 0 \in S
  <2> DEFINE g == [k \in 0 .. 0 |-> 0]
  <2>1. g = Rec(g, 0)
    OBVIOUS
  <2> HIDE DEF Rec, g
  <2> QED
    BY <2>1
<1>2. ASSUME NEW m \in 0 .. n - 1, m \in S PROVE m + 1 \in S
  <2>1. PICK g : g = Rec(g, m)
    BY <1>2
  <2> DEFINE h == [k \in 0 .. m + 1 |-> IF k = m + 1 THEN g[m] * base + seq[m + 1] ELSE g[k]]
  <2>2. h = Rec(h, m + 1)
    <3>1. ASSUME NEW k \in 0 .. m + 1 PROVE h[k] = Rec(h, m + 1)[k]
      <4>1. CASE k = m + 1
        BY <4>1
      <4>2. CASE k \in 0 .. m
        <5>1. k # 0 => h[k - 1] = g[k - 1]
          BY <4>2
        <5>2. g[k] = Rec(g, m)[k]
          BY <2>1
        <5> QED
          BY <4>2, <5>1, <5>2
      <4> QED
        BY <4>1, <4>2
    <3> QED
      BY <3>1
  <2> HIDE DEF Rec, h
  <2> QED
    BY <1>2, <2>2
<1>3. n \in S
  <2> HIDE DEF S
  <2>1. \A m \in 0 .. n : m \in S
    BY <1>0, <1>1, <1>2, UpTo
  <2> QED
    BY <1>0, <2>1
<1> DEFINE f == CHOOSE g : g = Rec(g, n)
<1>4. InBase(base, seq) = f[n]
  BY DEF InBase
<1>5. f = Rec(f, n)
  <2> HIDE DEF Rec
  <2> QED
    BY <1>3
<1> HIDE DEF f
<1>6. f[0] = 0 /\ \A k \in 1 .. n : f[k] = f[k - 1] * base + seq[k]
  <2> HIDE DEF n
  <2>1. f = [k \in 0 .. n |-> IF k = 0 THEN 0 ELSE f[k - 1] * base + seq[k]]
    BY <1>5
  <2> QED
    BY <1>0, <2>1
<1> QED
  BY <1>4, <1>6

\* A number of digits that are numbers is one.
LEMMA InBaseNat ==
  ASSUME NEW base \in Nat, NEW seq \in Seq(Nat)
  PROVE  InBase(base, seq) \in Nat
<1>1. Len(seq) \in Nat
  OBVIOUS
<1>2. PICK f : /\ f[0] = 0 /\ f[Len(seq)] = InBase(base, seq)
               /\ \A k \in 1 .. Len(seq) : f[k] = f[k - 1] * base + seq[k]
  BY InBaseSteps
<1> DEFINE S == {k \in 0 .. Len(seq) : f[k] \in Nat}
<1>3. 0 \in S
  BY <1>1, <1>2
<1>4. ASSUME NEW k \in 0 .. Len(seq) - 1, k \in S PROVE k + 1 \in S
  <2>1. f[k + 1] = f[k] * base + seq[k + 1] /\ seq[k + 1] \in Nat
    BY <1>1, <1>2
  <2>2. f[k] * base \in Nat
    BY <1>4
  <2> QED
    BY <1>1, <2>1, <2>2, SMTT(60)
<1> HIDE DEF S
<1>5. \A k \in 0 .. Len(seq) : k \in S
  BY <1>1, <1>3, <1>4, UpTo
<1>6. Len(seq) \in S
  BY <1>1, <1>5
<1> QED
  BY <1>2, <1>6 DEF S

\* The sum of four bytes.
LEMMA SumOfFour ==
  ASSUME NEW seq \in Seq(Nat), Len(seq) = 4
  PROVE  Sum(seq) = seq[1] + seq[2] + seq[3] + seq[4]
<1>1. PICK f : /\ f[0] = 0 /\ f[Len(seq)] = InBase(1, seq)
               /\ \A k \in 1 .. Len(seq) : f[k] = f[k - 1] * 1 + seq[k]
  BY InBaseSteps
<1>2. seq[1] \in Nat /\ seq[2] \in Nat /\ seq[3] \in Nat /\ seq[4] \in Nat
  <2>1. \A i \in 1 .. 4 : seq[i] \in Nat
    BY ElementOfSeq
  <2> QED
    BY <2>1
<1>3. f[1] = seq[1]
  BY <1>1, <1>2
<1>4. f[2] = seq[1] + seq[2]
  BY <1>1, <1>2, <1>3
<1>5. f[3] = seq[1] + seq[2] + seq[3]
  BY <1>1, <1>2, <1>4
<1>6. f[4] = seq[1] + seq[2] + seq[3] + seq[4]
  BY <1>1, <1>2, <1>5
<1> QED
  BY <1>1, <1>6 DEF Sum

SrecLine == [s : BOOLEAN, short : BOOLEAN, type : 0 .. 9, count : Nat, bytes : Seq(0 .. NoHex)]

\* A good line has an address and bytes.
LEMMA GoodLine ==
  ASSUME NEW rec \in SrecLine, WellFormed(rec)
  PROVE  /\ Address(rec) \in 0 .. Word - 1 /\ Data(rec) \in Seq(Nat) /\ Len(Data(rec)) \in Nat
         /\ IsData(rec) => Len(Data(rec)) >= 1
<1> DEFINE k == addr_bytes[rec.type]
           n == rec.count
           b == rec.bytes
<1>1. rec.type \in (0 .. 9) \ {4} /\ n \in Nat /\ b \in Seq(0 .. NoHex)
      /\ n <= Len(b) /\ n > k /\ \A i \in 1 .. n : b[i] # NoHex
  BY DEF WellFormed, SrecLine, addr_bytes
<1>2. k \in 2 .. 4
  BY <1>1 DEF addr_bytes
<1>3. \A i \in 1 .. n : b[i] \in Nat
  <2>1. ASSUME NEW i \in 1 .. n PROVE b[i] \in Nat
    <3>1. i \in 1 .. Len(b) /\ Len(b) \in Nat
      BY <1>1
    <3>2. b[i] \in 0 .. NoHex
      BY <1>1, <3>1, ElementOfSeq
    <3> QED
      BY <3>2 DEF NoHex
  <2> QED
    BY <2>1
<1> HIDE DEF k, n, b
<1>4. SubSeq(b, 1, k) \in Seq(Nat)
  <2>1. 1 \in Int /\ k \in Int /\ \A i \in 1 .. k : b[i] \in Nat
    BY <1>1, <1>2, <1>3
  <2> QED
    BY <2>1, SubSeqProperties, Zenon
<1>5. SubSeq(b, k + 1, n - 1) \in Seq(Nat)
  <2>1. k + 1 \in Int /\ n - 1 \in Int /\ \A i \in k + 1 .. n - 1 : b[i] \in Nat
    BY <1>1, <1>2, <1>3
  <2> QED
    BY <2>1, SubSeqProperties, Zenon
<1>6. Address(rec) \in 0 .. Word - 1
  <2> DEFINE m == InBase(256, SubSeq(b, 1, k))
  <2>1. 256 \in Nat
    OBVIOUS
  <2>2. m \in Nat
    BY <1>4, <2>1, InBaseNat, ZenonT(60)
  <2> HIDE DEF m
  <2>3. m % Word \in 0 .. Word - 1
    BY <2>2, MemAssumption
  <2> QED
    BY <2>3 DEF Address, Number, k, b, m
<1>7. Data(rec) \in Seq(Nat)
  BY <1>5 DEF Data, k, b, n
<1>8. Len(Data(rec)) \in Nat /\ (Data(rec) # <<>> => Len(Data(rec)) >= 1)
  BY <1>7
<1> QED
  BY <1>6, <1>7, <1>8 DEF IsData

\* The lines take effect one after the other.
LEMMA LoadSteps ==
  ASSUME NEW lines, Len(lines) \in Nat
  PROVE  \E f : /\ f[0] = Nothing /\ f[Len(lines)] = load_srec_file(lines)
                /\ \A k \in 1 .. Len(lines) : f[k] = Loaded(f[k - 1], lines[k])
<1> DEFINE n == Len(lines)
           Rec(g, m) == [k \in 0 .. m |-> IF k = 0 THEN Nothing ELSE Loaded(g[k - 1], lines[k])]
           S == {m \in 0 .. n : \E g : g = Rec(g, m)}
<1>0. n \in Nat
  OBVIOUS
<1>1. 0 \in S
  <2> DEFINE g == [k \in 0 .. 0 |-> Nothing]
  <2>1. g = Rec(g, 0)
    OBVIOUS
  <2> HIDE DEF Rec, g
  <2> QED
    BY <2>1
<1>2. ASSUME NEW m \in 0 .. n - 1, m \in S PROVE m + 1 \in S
  <2>1. PICK g : g = Rec(g, m)
    BY <1>2
  <2> DEFINE h == [k \in 0 .. m + 1 |-> IF k = m + 1 THEN Loaded(g[m], lines[m + 1]) ELSE g[k]]
  <2>2. h = Rec(h, m + 1)
    <3>1. ASSUME NEW k \in 0 .. m + 1 PROVE h[k] = Rec(h, m + 1)[k]
      <4>1. CASE k = m + 1
        BY <4>1
      <4>2. CASE k \in 0 .. m
        <5>1. k # 0 => h[k - 1] = g[k - 1]
          BY <4>2
        <5>2. g[k] = Rec(g, m)[k]
          BY <2>1
        <5> QED
          BY <4>2, <5>1, <5>2
      <4> QED
        BY <4>1, <4>2
    <3> QED
      BY <3>1
  <2> HIDE DEF Rec, h
  <2> QED
    BY <1>2, <2>2
<1>3. n \in S
  <2> HIDE DEF S
  <2>1. \A m \in 0 .. n : m \in S
    BY <1>0, <1>1, <1>2, UpTo
  <2> QED
    BY <1>0, <2>1
<1> DEFINE f == CHOOSE g : g = Rec(g, n)
<1>4. load_srec_file(lines) = f[n]
  BY DEF load_srec_file
<1>5. f = Rec(f, n)
  <2> HIDE DEF Rec
  <2> QED
    BY <1>3
<1> HIDE DEF f
<1>6. f[0] = Nothing /\ \A k \in 1 .. n : f[k] = Loaded(f[k - 1], lines[k])
  <2> HIDE DEF n
  <2>1. f = [k \in 0 .. n |-> IF k = 0 THEN Nothing ELSE Loaded(f[k - 1], lines[k])]
    BY <1>5
  <2> QED
    BY <1>0, <2>1
<1> QED
  BY <1>4, <1>6

\* The address and the length of no line that takes effect go over the 32 bits.
NoneWraps(lines, n) == \A i \in Taken(lines, n) : ~(IsData(lines[i]) /\ Wraps(lines[i]))

\* What is known when the first n lines have been loaded.
LoadInv(r, lines, n) ==
  /\ DOMAIN r = {"ok", "any_data", "mem", "min_addr", "max_addr"}
  /\ r.ok \in BOOLEAN /\ r.any_data \in BOOLEAN
  /\ r.min_addr \in Int /\ r.max_addr \in Int
  /\ r.ok = (Taken(lines, n) = 1 .. n)
  /\ NoneWraps(lines, n) => Placed(r, lines, n)

\* One line more takes effect if all before it have and it is right.
LEMMA TakenNext ==
  ASSUME NEW lines, NEW n \in Nat
  PROVE  Taken(lines, n + 1) = IF Taken(lines, n) = 1 .. n /\ ~Refused(lines[n + 1])
                               THEN Taken(lines, n) \cup {n + 1} ELSE Taken(lines, n)
<1> DEFINE R(j) == Refused(lines[j])
<1>1. /\ Taken(lines, n) = {i \in 1 .. n : \A j \in 1 .. i : ~R(j)}
      /\ Taken(lines, n + 1) = {i \in 1 .. n + 1 : \A j \in 1 .. i : ~R(j)}
  BY DEF Taken
<1> HIDE DEF R
<1>2. \A i \in 1 .. n + 1 : i \in 1 .. n \/ i = n + 1
  OBVIOUS
<1>3. \A i \in 1 .. n : i \in Taken(lines, n + 1) <=> i \in Taken(lines, n)
  BY <1>1
<1>4. n + 1 \in Taken(lines, n + 1) <=> ((\A j \in 1 .. n : ~R(j)) /\ ~R(n + 1))
  BY <1>1, <1>2
<1>5. (\A j \in 1 .. n : ~R(j)) <=> Taken(lines, n) = 1 .. n
  <2>1. ASSUME Taken(lines, n) = 1 .. n, NEW j \in 1 .. n PROVE ~R(j)
    <3>1. j \in Taken(lines, n) /\ j \in 1 .. j
      BY <2>1
    <3> QED
      BY <1>1, <3>1
  <2>2. ASSUME \A j \in 1 .. n : ~R(j) PROVE Taken(lines, n) = 1 .. n
    <3>1. \A i \in 1 .. n : \A j \in 1 .. i : j \in 1 .. n
      OBVIOUS
    <3> QED
      BY <1>1, <2>2, <3>1
  <2> QED
    BY <2>1, <2>2
<1>6. Taken(lines, n) \subseteq 1 .. n /\ Taken(lines, n + 1) \subseteq 1 .. n + 1
  BY <1>1
<1> DEFINE T == Taken(lines, n)
           U == Taken(lines, n + 1)
<1> HIDE DEF T, U
<1>7. T \subseteq 1 .. n /\ U \subseteq 1 .. n + 1 /\ \A i \in 1 .. n : i \in U <=> i \in T
  BY <1>3, <1>6 DEF T, U
<1>8. n + 1 \in U <=> (T = 1 .. n /\ ~Refused(lines[n + 1]))
  BY <1>4, <1>5 DEF T, U, R
<1>9. CASE n + 1 \in U
  <2>1. U = T \cup {n + 1}
    BY <1>2, <1>7, <1>9
  <2> QED
    BY <1>8, <1>9, <2>1 DEF T, U
<1>10. CASE n + 1 \notin U
  <2>1. U = T
    BY <1>2, <1>7, <1>10
  <2> QED
    BY <1>8, <1>10, <2>1 DEF T, U
<1> QED
  BY <1>9, <1>10

\* The smaller and the larger of two addresses.
LEMMA MinMax ==
  ASSUME NEW x \in Int, NEW y \in Int
  PROVE  /\ Min({x, y}) \in Int /\ Min({x, y}) <= x /\ Min({x, y}) <= y
         /\ Max({x, y}) \in Int /\ x <= Max({x, y}) /\ y <= Max({x, y})
         /\ Min({x, y}) \in {x, y} /\ Max({x, y}) \in {x, y}
<1>1. Min({x, y}) = IF x <= y THEN x ELSE y
  BY MinOfTwo, Zenon
<1> DEFINE m == IF x <= y THEN y ELSE x
<1>2. m \in {x, y} /\ \A z \in {x, y} : z <= m
  OBVIOUS
<1>3. \A u \in {x, y} : (\A z \in {x, y} : z <= u) => u = m
  OBVIOUS
<1> HIDE DEF m
<1>4. Max({x, y}) = m
  BY <1>2, <1>3 DEF Max
<1> QED
  BY <1>1, <1>4 DEF m

\* A line of data that fits and ends inside the 32 bits is written from its address on.
LEMMA WrittenBytes ==
  ASSUME NEW rec \in SrecLine, WellFormed(rec), IsData(rec), Fits(rec), ~Wraps(rec)
  PROVE  /\ Written(rec) = Bytes(rec)
         /\ Address(rec) \in Bytes(rec) /\ Address(rec) + Len(Data(rec)) - 1 \in Bytes(rec)
         /\ (Address(rec) + Len(Data(rec)) - 1) % Word = Address(rec) + Len(Data(rec)) - 1
         /\ \A a \in Bytes(rec) : /\ (a - Address(rec)) % Word = a - Address(rec)
                                 /\ a \in Nat /\ a < mem_size
                                 /\ Address(rec) <= a /\ a <= Address(rec) + Len(Data(rec)) - 1
<1> DEFINE from == Address(rec)
           k == Len(Data(rec))
<1>1. from \in Nat /\ from < Word /\ k \in Nat /\ k >= 1 /\ from + k < Word /\ Word \in Nat /\ Word > 0
  BY GoodLine, MemAssumption DEF Wraps
<1>2. (from + k) % Word <= mem_size /\ Bytes(rec) = from .. (from + k - 1)
      /\ Written(rec) = {(from + i) % Word : i \in 0 .. (k - 1)}
  BY Zenon DEF Fits, Bytes, Written
<1> HIDE DEF from, k
<1>3. \A x \in Nat : x < Word => x % Word = x
  BY <1>1
<1>4. (from + k) % Word = from + k /\ (from + k - 1) % Word = from + k - 1
  BY <1>1, <1>3
<1>5. ASSUME NEW i \in 0 .. k - 1 PROVE (from + i) % Word = from + i
  BY <1>1, <1>3
<1>6. Written(rec) = Bytes(rec)
  <2>1. Written(rec) = {from + i : i \in 0 .. (k - 1)}
    BY <1>2, <1>5
  <2>2. ASSUME NEW a \in from .. (from + k - 1) PROVE a \in {from + i : i \in 0 .. (k - 1)}
    <3>1. a - from \in 0 .. (k - 1) /\ a = from + (a - from)
      BY <1>1
    <3> QED
      BY <3>1
  <2>3. \A i \in 0 .. (k - 1) : from + i \in from .. (from + k - 1)
    BY <1>1
  <2> QED
    BY <1>2, <2>1, <2>2, <2>3
<1>7. ASSUME NEW a \in Bytes(rec)
      PROVE  (a - from) % Word = a - from /\ a \in Nat /\ a < mem_size /\ from <= a /\ a <= from + k - 1
  <2>1. a \in Nat /\ from <= a /\ a <= from + k - 1 /\ a - from \in Nat /\ a - from < Word
    BY <1>1, <1>2
  <2>2. from + k <= mem_size
    BY <1>2, <1>4
  <2> QED
    BY <1>1, <1>3, <2>1, <2>2, MemAssumption
<1>8. from \in Bytes(rec) /\ from + k - 1 \in Bytes(rec)
  BY <1>1, <1>2
<1> QED
  BY <1>4, <1>6, <1>7, <1>8 DEF from, k

\* A line of data that fits.
LEMMA DataLoaded ==
  ASSUME NEW lines \in Seq(SrecLine), NEW n \in Nat, n + 1 <= Len(lines), NEW r, LoadInv(r, lines, n),
         r.ok, WellFormed(lines[n + 1]), IsData(lines[n + 1]), Fits(lines[n + 1])
  PROVE  LoadInv(Loaded(r, lines[n + 1]), lines, n + 1)
<1> DEFINE l == lines[n + 1]
           from == Address(l)
           d == Data(l)
           end == (from + Len(d) - 1) % Word
           W == Written(l)
           M == [a \in W \cup DOMAIN r.mem |-> IF a \in W THEN d[((a - from) % Word) + 1] ELSE r.mem[a]]
           z == Loaded(r, l)
           B == Bytes(l)
           T == Taken(lines, n)
<1>0. l \in SrecLine
  BY ElementOfSeq
<1>1. from \in Nat /\ Len(d) \in Nat /\ Len(d) >= 1 /\ end \in Int
  BY <1>0, GoodLine, MemAssumption
<1>2. ~Refused(l)
  BY Zenon DEF Refused
<1>3. /\ z = [ok |-> TRUE, any_data |-> TRUE, mem |-> M,
              min_addr |-> IF r.any_data THEN Min({r.min_addr, from}) ELSE from,
              max_addr |-> IF r.any_data THEN Max({r.max_addr, end}) ELSE end]
  BY <1>2, Zenon DEF Loaded
<1> HIDE DEF z, M
<1>4. /\ DOMAIN z = {"ok", "any_data", "mem", "min_addr", "max_addr"} /\ z.ok = TRUE /\ z.any_data = TRUE
      /\ z.mem = M
      /\ z.min_addr = IF r.any_data THEN Min({r.min_addr, from}) ELSE from
      /\ z.max_addr = IF r.any_data THEN Max({r.max_addr, end}) ELSE end
  BY <1>3
<1> HIDE DEF d, from, end, W
<1>5. /\ DOMAIN z.mem = W \cup DOMAIN r.mem
      /\ \A a \in W : z.mem[a] = d[((a - from) % Word) + 1]
      /\ \A a \in DOMAIN r.mem : a \notin W => z.mem[a] = r.mem[a]
  BY <1>4 DEF M
<1>6. /\ z.min_addr \in Int /\ z.max_addr \in Int /\ z.min_addr <= from /\ end <= z.max_addr
      /\ r.any_data => /\ z.min_addr <= r.min_addr /\ r.max_addr <= z.max_addr
                       /\ z.min_addr \in {r.min_addr, from} /\ z.max_addr \in {r.max_addr, end}
      /\ ~r.any_data => z.min_addr = from /\ z.max_addr = end
  <2>1. r.min_addr \in Int /\ r.max_addr \in Int /\ r.any_data \in BOOLEAN /\ from \in Int /\ end \in Int
    BY <1>1 DEF LoadInv
  <2>2. CASE r.any_data
    <3>1. /\ Min({r.min_addr, from}) \in Int /\ Min({r.min_addr, from}) <= r.min_addr
          /\ Min({r.min_addr, from}) <= from /\ Min({r.min_addr, from}) \in {r.min_addr, from}
      BY <2>1, MinMax
    <3>2. /\ Max({r.max_addr, end}) \in Int /\ r.max_addr <= Max({r.max_addr, end})
          /\ end <= Max({r.max_addr, end}) /\ Max({r.max_addr, end}) \in {r.max_addr, end}
      BY <2>1, MinMax
    <3> QED
      BY <1>4, <2>2, <3>1, <3>2
  <2>3. CASE ~r.any_data
    BY <1>4, <2>1, <2>3
  <2> QED
    BY <2>2, <2>3
<1>7. T = 1 .. n /\ Taken(lines, n + 1) = T \cup {n + 1} /\ Taken(lines, n + 1) = 1 .. n + 1
  <2>1. T = 1 .. n
    BY DEF LoadInv
  <2>2. Taken(lines, n + 1) = T \cup {n + 1}
    BY <1>2, <2>1, TakenNext, Zenon
  <2>3. (1 .. n) \cup {n + 1} = 1 .. n + 1
    OBVIOUS
  <2> QED
    BY <2>1, <2>2, <2>3, Zenon
<1>8. ASSUME NoneWraps(lines, n + 1) PROVE Placed(z, lines, n + 1)
  <2>1. Placed(r, lines, n) /\ ~Wraps(l)
    <3>1. NoneWraps(lines, n) /\ ~Wraps(l)
      BY <1>7, <1>8 DEF NoneWraps
    <3> QED
      BY <3>1 DEF LoadInv
  <2>2. /\ W = B /\ from \in B /\ end \in B /\ end = from + Len(d) - 1
        /\ \A a \in B : /\ (a - from) % Word = a - from /\ a \in Nat /\ a < mem_size
                        /\ from <= a /\ a <= end
    BY <1>0, <2>1, WrittenBytes, ZenonT(60) DEF W, from, end, d
  <2>3. /\ DOMAIN r.mem = UNION {Bytes(lines[i]) : i \in T}
        /\ \A i \in T : \A a \in Bytes(lines[i]) :
             (\A j \in T : j > i => a \notin Bytes(lines[j])) =>
                r.mem[a] = Data(lines[i])[a - Address(lines[i]) + 1]
        /\ \A a \in DOMAIN r.mem : 0 <= a /\ a < mem_size /\ r.min_addr <= a /\ a <= r.max_addr
        /\ r.any_data = (DOMAIN r.mem # {})
        /\ r.any_data => r.min_addr \in DOMAIN r.mem /\ r.max_addr \in DOMAIN r.mem
    BY <2>1 DEF Placed
  <2> HIDE DEF B, T, l
  <2>4. DOMAIN z.mem = UNION {Bytes(lines[i]) : i \in T \cup {n + 1}}
    <3>1. UNION {Bytes(lines[i]) : i \in T \cup {n + 1}} = (UNION {Bytes(lines[i]) : i \in T}) \cup Bytes(lines[n + 1])
      BY Zenon
    <3> QED
      BY <1>5, <2>2, <2>3, <3>1 DEF B, l
  <2>5. ASSUME NEW i \in T \cup {n + 1}, NEW a \in Bytes(lines[i]),
               \A j \in T \cup {n + 1} : j > i => a \notin Bytes(lines[j])
        PROVE  z.mem[a] = Data(lines[i])[a - Address(lines[i]) + 1]
    <3>1. CASE i = n + 1
      <4>1. a \in B
        BY <2>5, <3>1 DEF B, l
      <4>2. z.mem[a] = d[((a - from) % Word) + 1] /\ (a - from) % Word = a - from
        BY <1>5, <2>2, <4>1
      <4> QED
        BY <3>1, <4>2 DEF d, from, l
    <3>2. CASE i \in T
      <4>1. n + 1 > i
        BY <1>7, <3>2
      <4>2. a \notin B
        BY <2>5, <4>1 DEF B, l
      <4>3. r.mem[a] = Data(lines[i])[a - Address(lines[i]) + 1]
        BY <2>3, <2>5, <3>2
      <4>4. a \in DOMAIN r.mem
        BY <2>3, <2>5, <3>2
      <4> QED
        BY <1>5, <2>2, <4>2, <4>3, <4>4
    <3> QED
      BY <3>1, <3>2
  <2>6. ASSUME NEW a \in DOMAIN z.mem
        PROVE  0 <= a /\ a < mem_size /\ z.min_addr <= a /\ a <= z.max_addr
    <3>1. CASE a \in B
      <4>1. a \in Nat /\ a < mem_size /\ from <= a /\ a <= end
        BY <2>2, <3>1
      <4> QED
        BY <1>1, <1>6, <4>1
    <3>2. CASE a \in DOMAIN r.mem
      <4>1. /\ 0 <= a /\ a < mem_size /\ r.min_addr <= a /\ a <= r.max_addr
            /\ r.min_addr \in Int /\ r.max_addr \in Int /\ r.any_data
        BY <2>3, <3>2 DEF LoadInv
      <4>2. a \in Int
        <5>1. PICK i \in T : a \in Bytes(lines[i])
          BY <2>3, <3>2
        <5>2. lines[i] \in SrecLine /\ WellFormed(lines[i])
          <6>1. i \in 1 .. n /\ i \in 1 .. Len(lines)
            BY <1>7, <5>1
          <6>2. ~Refused(lines[i])
            <7>1. i \in 1 .. i /\ \A j \in 1 .. i : ~Refused(lines[j])
              BY <5>1, <6>1 DEF T, Taken
            <7> QED
              BY <7>1
          <6> QED
            BY <6>1, <6>2, ElementOfSeq DEF Refused
        <5>3. Address(lines[i]) \in Int /\ Len(Data(lines[i])) \in Int
          BY <5>2, GoodLine, MemAssumption
        <5> QED
          BY <5>1, <5>3 DEF Bytes
      <4> QED
        BY <1>6, <4>1, <4>2
    <3> QED
      BY <1>5, <2>2, <2>6, <3>1, <3>2
  <2>7. z.min_addr \in DOMAIN z.mem /\ z.max_addr \in DOMAIN z.mem
    <3>1. CASE r.any_data
      BY <1>5, <1>6, <2>2, <2>3, <3>1
    <3>2. CASE ~r.any_data
      BY <1>5, <1>6, <2>2, <3>2
    <3> QED
      BY <3>1, <3>2
  <2>8. DOMAIN z.mem # {}
    BY <2>7
  <2> QED
    BY <1>4, <1>7, <2>4, <2>5, <2>6, <2>7, <2>8 DEF Placed, T
<1>9. LoadInv(z, lines, n + 1)
  BY <1>4, <1>6, <1>7, <1>8 DEF LoadInv
<1> QED
  BY <1>9 DEF z

\* What takes no effect leaves the memory placed.
LEMMA SamePlaced ==
  ASSUME NEW r, NEW z, NEW lines, NEW n, NEW m, Taken(lines, m) = Taken(lines, n),
         z.mem = r.mem, z.any_data = r.any_data, z.min_addr = r.min_addr, z.max_addr = r.max_addr
  PROVE  /\ NoneWraps(lines, m) => NoneWraps(lines, n)
         /\ Placed(r, lines, n) => Placed(z, lines, m)
<1>1. NoneWraps(lines, m) => NoneWraps(lines, n)
  BY Zenon DEF NoneWraps
<1>2. Placed(r, lines, n) => Placed(z, lines, m)
  BY DEF Placed
<1> QED
  BY <1>1, <1>2

\* Each line keeps what is known, or is refused.
LEMMA LineLoaded ==
  ASSUME NEW lines \in Seq(SrecLine), NEW n \in Nat, n + 1 <= Len(lines), NEW r, LoadInv(r, lines, n)
  PROVE  LoadInv(Loaded(r, lines[n + 1]), lines, n + 1)
<1> DEFINE l == lines[n + 1]
           z == Loaded(r, l)
           T == Taken(lines, n)
           U == Taken(lines, n + 1)
<1>1. n + 1 \notin T /\ 1 .. n # 1 .. n + 1
  BY DEF Taken
<1>2. U = IF T = 1 .. n /\ ~Refused(l) THEN T \cup {n + 1} ELSE T
  BY TakenNext, Zenon
<1>3. CASE ~r.ok
  <2>1. z = r
    BY <1>3, Zenon DEF Loaded
  <2>2. T # 1 .. n /\ U = T
    BY <1>2, <1>3 DEF LoadInv
  <2>3. U # 1 .. n + 1
    BY <1>1, <2>2
  <2>4. NoneWraps(lines, n + 1) => Placed(z, lines, n + 1)
    BY <2>1, <2>2, SamePlaced, Zenon DEF LoadInv
  <2> HIDE DEF z, T, U
  <2> QED
    BY <1>3, <2>1, <2>3, <2>4 DEF LoadInv, z, U
<1>4. CASE r.ok /\ Refused(l)
  <2>1. z = [r EXCEPT !.ok = FALSE]
    BY <1>4, Zenon DEF Loaded
  <2>2. /\ ~z.ok /\ z.any_data = r.any_data /\ DOMAIN z = DOMAIN r /\ z.ok \in BOOLEAN
        /\ z.mem = r.mem /\ z.min_addr = r.min_addr /\ z.max_addr = r.max_addr
    BY <2>1 DEF LoadInv
  <2>3. U = T /\ U # 1 .. n + 1
    BY <1>1, <1>2, <1>4
  <2> HIDE DEF z
  <2>4. NoneWraps(lines, n + 1) => Placed(z, lines, n + 1)
    BY <2>2, <2>3, SamePlaced, Zenon DEF LoadInv
  <2>5. LoadInv(z, lines, n + 1)
    BY <2>2, <2>3, <2>4 DEF LoadInv
  <2> QED
    BY <2>5 DEF z
<1>5. CASE r.ok /\ ~Refused(l) /\ ~IsData(l)
  <2>1. z = r
    BY <1>5, Zenon DEF Loaded
  <2>2. T = 1 .. n /\ U = T \cup {n + 1} /\ U = 1 .. n + 1
    <3>1. T = 1 .. n
      BY <1>5 DEF LoadInv
    <3>2. (1 .. n) \cup {n + 1} = 1 .. n + 1
      OBVIOUS
    <3> QED
      BY <1>2, <1>5, <3>1, <3>2, Zenon
  <2>3. Bytes(l) = {}
    BY <1>5 DEF Bytes
  <2> HIDE DEF T, U
  <2>4. ASSUME NoneWraps(lines, n + 1) PROVE Placed(r, lines, n + 1)
    <3>1. NoneWraps(lines, n)
      BY <2>2, <2>4 DEF NoneWraps, T, U
    <3>2. Placed(r, lines, n)
      BY <3>1 DEF LoadInv
    <3>3. UNION {Bytes(lines[i]) : i \in U} = UNION {Bytes(lines[i]) : i \in T}
      BY <2>2, <2>3
    <3>4. ASSUME NEW i \in U, NEW a \in Bytes(lines[i]), \A j \in U : j > i => a \notin Bytes(lines[j])
          PROVE  r.mem[a] = Data(lines[i])[a - Address(lines[i]) + 1]
      BY <2>2, <2>3, <3>2, <3>4 DEF Placed, T
    <3> QED
      BY <3>2, <3>3, <3>4 DEF Placed, T, U
  <2> HIDE DEF z
  <2>5. LoadInv(r, lines, n + 1)
    BY <1>5, <2>2, <2>4 DEF LoadInv, U
  <2> QED
    BY <2>1, <2>5 DEF z
<1>6. CASE r.ok /\ ~Refused(l) /\ IsData(l)
  BY <1>6, DataLoaded DEF Refused
<1> QED
  BY <1>3, <1>4, <1>5, <1>6 DEF LoadInv

(***************************************************************************)
(* What load_srec_file does with any file: it is taken if and only if each *)
(* line is right, and, unless the end of a line that takes effect goes     *)
(* over the 32 bits, the memory has exactly what the lines before the      *)
(* first bad one say, inside the memory, the last line with the last word, *)
(* and the range reported is that of the bytes written.                    *)
(***************************************************************************)
THEOREM FileLoaded ==
  ASSUME NEW lines \in Seq(SrecLine)
  PROVE  LoadInv(load_srec_file(lines), lines, Len(lines))
<1>0. Len(lines) \in Nat
  OBVIOUS
<1>1. PICK f : /\ f[0] = Nothing /\ f[Len(lines)] = load_srec_file(lines)
               /\ \A k \in 1 .. Len(lines) : f[k] = Loaded(f[k - 1], lines[k])
  BY <1>0, LoadSteps
<1> DEFINE S == {k \in 0 .. Len(lines) : LoadInv(f[k], lines, k)}
<1>2. 0 \in S
  <2>1. LoadInv(Nothing, lines, 0)
    <3>1. Taken(lines, 0) = {} /\ 1 .. 0 = {}
      BY DEF Taken
    <3>2. DOMAIN Nothing.mem = {} /\ Nothing.ok = TRUE /\ Nothing.any_data = FALSE
      BY DEF Nothing
    <3>3. Placed(Nothing, lines, 0)
      BY <3>1, <3>2 DEF Placed
    <3>4. /\ DOMAIN Nothing = {"ok", "any_data", "mem", "min_addr", "max_addr"}
          /\ Nothing.min_addr \in Int /\ Nothing.max_addr \in Int
      BY DEF Nothing
    <3> QED
      BY <3>1, <3>2, <3>3, <3>4 DEF LoadInv
  <2> QED
    BY <1>0, <1>1, <2>1
<1>3. ASSUME NEW k \in 0 .. Len(lines) - 1, k \in S PROVE k + 1 \in S
  <2>1. k \in Nat /\ k + 1 <= Len(lines) /\ k + 1 \in 1 .. Len(lines) /\ (k + 1) - 1 = k
    BY <1>0
  <2>2. f[k + 1] = Loaded(f[k], lines[k + 1])
    BY <1>1, <2>1
  <2>3. LoadInv(Loaded(f[k], lines[k + 1]), lines, k + 1)
    BY <1>3, <2>1, LineLoaded
  <2> QED
    BY <1>0, <2>1, <2>2, <2>3
<1> HIDE DEF S
<1>4. \A k \in 0 .. Len(lines) : k \in S
  BY <1>0, <1>2, <1>3, UpTo
<1>5. Len(lines) \in S
  BY <1>0, <1>4
<1> QED
  BY <1>1, <1>5 DEF S

\* A line made up with a checksum.
LEMMA LineMade ==
  ASSUME NEW type \in 0 .. 9, NEW bytes \in Seq(0 .. 255)
  PROVE  /\ Line(type, bytes) \in SrecLine
         /\ Line(type, bytes) = [s |-> TRUE, short |-> FALSE, type |-> type, count |-> Len(bytes) + 1,
                                 bytes |-> Append(bytes, 255 - ((Len(bytes) + 1 + Sum(bytes)) % 256))]
<1> DEFINE n == Len(bytes) + 1
           s == n + Sum(bytes)
           c == 255 - (s % 256)
<1>1. n \in Nat /\ bytes \in Seq(Nat) /\ bytes \in Seq(0 .. NoHex)
  <2>1. 0 .. 255 \subseteq Nat /\ 0 .. 255 \subseteq 0 .. NoHex
    BY DEF NoHex
  <2>2. bytes \in Seq(Nat)
    BY <2>1, SeqMonotonic, ZenonT(60)
  <2>3. bytes \in Seq(0 .. NoHex)
    BY <2>1, SeqMonotonic, ZenonT(60)
  <2>4. Len(bytes) \in Nat
    OBVIOUS
  <2> QED
    BY <2>2, <2>3, <2>4
<1>2. s \in Nat
  <2>1. Sum(bytes) \in Nat
    BY <1>1, InBaseNat DEF Sum
  <2> QED
    BY <1>1, <2>1
<1>3. c \in 0 .. NoHex
  <2> HIDE DEF s
  <2> DEFINE m == s % 256
  <2>1. m \in 0 .. 255
    BY <1>2
  <2> HIDE DEF m
  <2>2. 255 - m \in 0 .. NoHex
    BY <2>1 DEF NoHex
  <2> QED
    BY <2>2 DEF m
<1>4. Line(type, bytes) = [s |-> TRUE, short |-> FALSE, type |-> type, count |-> n, bytes |-> Append(bytes, c)]
  BY Zenon DEF Line
<1> HIDE DEF c, n, s
<1>5. Append(bytes, c) \in Seq(0 .. NoHex)
  BY <1>1, <1>3, AppendProperties
<1>6. Line(type, bytes) \in SrecLine
  BY <1>1, <1>4, <1>5 DEF SrecLine
<1> QED
  BY <1>4, <1>6 DEF c, n, s

\* the line of four bytes and the last one, which is made of them
Check(w, x, y, z) == 255 - ((5 + w + x + y + z) % 256)
Four(type, w, x, y, z) ==
  [s |-> TRUE, short |-> FALSE, type |-> type, count |-> 5, bytes |-> <<w, x, y, z, Check(w, x, y, z)>>]

\* Four bytes with the sum of them are the line with a checksum.
LEMMA FourMade ==
  ASSUME NEW type \in 0 .. 9, NEW w \in 0 .. 255, NEW x \in 0 .. 255, NEW y \in 0 .. 255, NEW z \in 0 .. 255
  PROVE  Line(type, <<w, x, y, z>>) = Four(type, w, x, y, z) /\ Four(type, w, x, y, z) \in SrecLine
<1> DEFINE q == <<w, x, y, z>>
           c == 255 - ((5 + w + x + y + z) % 256)
<1>1. q \in Seq(0 .. 255) /\ q \in Seq(Nat) /\ Len(q) = 4 /\ q[1] = w /\ q[2] = x /\ q[3] = y /\ q[4] = z
  OBVIOUS
<1>2. Sum(q) = w + x + y + z
  <2> HIDE DEF q
  <2>1. Sum(q) = q[1] + q[2] + q[3] + q[4]
    BY <1>1, SumOfFour
  <2> QED
    BY <1>1, <2>1
<1>3. Append(q, c) = <<w, x, y, z, c>>
  <2> DEFINE r == <<w, x, y, z, c>>
  <2>0. c \in Int
    OBVIOUS
  <2> HIDE DEF c
  <2>1. Append(q, c) \in Seq(Int) /\ r \in Seq(Int) /\ Len(Append(q, c)) = 5 /\ Len(r) = 5
    BY <2>0
  <2>2. \A i \in 1 .. 5 : Append(q, c)[i] = r[i]
    OBVIOUS
  <2> HIDE DEF q, r
  <2>3. Append(q, c) = r
    BY <2>1, <2>2, SeqEqual
  <2> QED
    BY <2>3 DEF r
<1>4. 255 - ((Len(q) + 1 + Sum(q)) % 256) = c
  <2> HIDE DEF q
  <2>1. Len(q) + 1 + Sum(q) = 5 + w + x + y + z
    BY <1>1, <1>2
  <2> QED
    BY <2>1
<1>5. Len(q) + 1 = 5
  BY <1>1
<1>6. /\ Line(type, q) \in SrecLine
      /\ Line(type, q) = [s |-> TRUE, short |-> FALSE, type |-> type, count |-> Len(q) + 1,
                          bytes |-> Append(q, 255 - ((Len(q) + 1 + Sum(q)) % 256))]
  <2> HIDE DEF q
  <2> QED
    BY <1>1, LineMade, ZenonT(60)
<1> HIDE DEF c
<1> QED
  BY <1>3, <1>4, <1>5, <1>6, ZenonT(60) DEF c, Check, Four

\* With one of them changed the line is refused.
LEMMA Spoilt ==
  ASSUME NEW type \in 0 .. 9, NEW w \in 0 .. 255, NEW x \in 0 .. 255, NEW y \in 0 .. 255, NEW z \in 0 .. 255,
         NEW i \in 1 .. 4, NEW v \in 0 .. NoHex, v # Four(type, w, x, y, z).bytes[i]
  PROVE  /\ [Four(type, w, x, y, z) EXCEPT !.bytes[i] = v] \in SrecLine
         /\ ~WellFormed([Four(type, w, x, y, z) EXCEPT !.bytes[i] = v])
<1> DEFINE l == Four(type, w, x, y, z)
           c == Check(w, x, y, z)
           b == <<w, x, y, z, c>>
           d == [b EXCEPT ![i] = v]
           k == [l EXCEPT !.bytes[i] = v]
<1>1. l = [s |-> TRUE, short |-> FALSE, type |-> type, count |-> 5, bytes |-> b]
  BY Zenon DEF Four
<1>2. k = [s |-> TRUE, short |-> FALSE, type |-> type, count |-> 5, bytes |-> d]
  <2> HIDE DEF b, l
  <2>1. l.bytes = b
    BY <1>1
  <2>2. k = [l EXCEPT !.bytes = d]
    BY <2>1
  <2> HIDE DEF d, k
  <2> QED
    BY <1>1, <2>2
<1>3. c \in 0 .. 255
  <2> DEFINE s == 5 + w + x + y + z
  <2>1. s \in Nat
    OBVIOUS
  <2> HIDE DEF s
  <2> DEFINE m == s % 256
  <2>2. m \in 0 .. 255
    BY <2>1
  <2> HIDE DEF m
  <2>3. 255 - m \in 0 .. 255
    BY <2>2
  <2> QED
    BY <2>3 DEF m, s, Check
<1>4. v # b[i]
  <2>1. l.bytes = b
    BY <1>1
  <2> HIDE DEF l, b
  <2> QED
    BY <2>1 DEF l
<1>5. /\ Len(d) = 5 /\ d \in Seq(0 .. NoHex) /\ d[5] = c
      /\ d[1] = (IF i = 1 THEN v ELSE w) /\ d[2] = (IF i = 2 THEN v ELSE x)
      /\ d[3] = (IF i = 3 THEN v ELSE y) /\ d[4] = (IF i = 4 THEN v ELSE z)
  <2> HIDE DEF c
  <2> QED
    BY <1>3 DEF NoHex
<1>6. k \in SrecLine
  <2> HIDE DEF d, k
  <2> QED
    BY <1>2, <1>5 DEF SrecLine
<1>7. ASSUME WellFormed(k) PROVE FALSE
  <2>1. k.count = 5 /\ k.bytes = d
    <3> HIDE DEF d, k
    <3> QED
      BY <1>2
  <2>2. /\ d[5] = 255 - ((5 + Sum(SubSeq(d, 1, 4))) % 256)
        /\ \A j \in 1 .. 5 : d[j] # NoHex
    <3> HIDE DEF d, k
    <3> QED
      BY <1>7, <2>1 DEF WellFormed, ChecksumRight
  <2>3. v \in 0 .. 255
    <3>1. v = IF i = 1 THEN d[1] ELSE IF i = 2 THEN d[2] ELSE IF i = 3 THEN d[3] ELSE d[4]
      <4> HIDE DEF d
      <4> QED
        BY <1>5
    <3> HIDE DEF d
    <3> QED
      BY <2>2, <3>1 DEF NoHex
  <2> DEFINE q == SubSeq(d, 1, 4)
             t == d[1] + d[2] + d[3] + d[4]
             u == w + x + y + z
  <2>4. d[1] \in 0 .. 255 /\ d[2] \in 0 .. 255 /\ d[3] \in 0 .. 255 /\ d[4] \in 0 .. 255
    <3> HIDE DEF d
    <3> QED
      BY <1>5, <2>3
  <2>5. q \in Seq(Nat) /\ Len(q) = 4 /\ q[1] = d[1] /\ q[2] = d[2] /\ q[3] = d[3] /\ q[4] = d[4]
    <3> HIDE DEF d
    <3>1. 1 \in Int /\ 4 \in Int /\ \A j \in 1 .. 4 : d[j] \in Nat
      BY <2>4, SMTT(60)
    <3> QED
      BY <3>1, SubSeqProperties
  <2>6. Sum(q) = t
    <3> HIDE DEF q, d
    <3>1. Sum(q) = q[1] + q[2] + q[3] + q[4]
      BY <2>5, SumOfFour, SMTT(60)
    <3> QED
      BY <2>5, <3>1
  <2>7. (5 + t) % 256 = (5 + u) % 256
    <3>1. c = 255 - ((5 + t) % 256)
      <4> HIDE DEF c, d, q, t
      <4> QED
        BY <1>5, <2>2, <2>6 DEF q
    <3>2. c = 255 - ((5 + u) % 256)
      BY DEF Check
    <3>3. 5 + t \in Nat /\ 5 + u \in Nat
      <4> HIDE DEF c, d
      <4>1. t \in Nat
        <5>1. \A e, f, g, h \in 0 .. 255 : e + f + g + h \in Nat
          OBVIOUS
        <5> QED
          BY <2>4, <5>1, ZenonT(60)
      <4>2. u \in Nat
        OBVIOUS
      <4> HIDE DEF t, u
      <4> QED
        BY <4>1, <4>2
    <3> HIDE DEF c, t, u
    <3> QED
      BY <3>1, <3>2, <3>3
  <2>8. t - u \in -255 .. 255 /\ t # u /\ t \in Nat /\ u \in Nat
    <3>1. v # IF i = 1 THEN w ELSE IF i = 2 THEN x ELSE IF i = 3 THEN y ELSE z
      <4> HIDE DEF c
      <4> QED
        BY <1>4
    <3> HIDE DEF d
    <3> QED
      BY <1>5, <2>3, <3>1, SMTT(60)
  <2> HIDE DEF t, u
  <2> QED
    BY <2>7, <2>8
<1> QED
  BY <1>6, <1>7

\* The lines of the good file, and what is put behind them.
LEMMA GoodMade ==
  /\ Good \in Seq(SrecLine) /\ Len(Good) = 4
  /\ Good[1] = Four(1, 0, 4, 17, 34) /\ Good[2] = Four(2, 0, 0, 5, 99)
  /\ Line(3, <<0, 0, 0, 7, 1>>) \in SrecLine
<1>1. Line(1, <<0, 4, 17, 34>>) = Four(1, 0, 4, 17, 34) /\ Four(1, 0, 4, 17, 34) \in SrecLine
  <2>1. 1 \in 0 .. 9 /\ 0 \in 0 .. 255 /\ 4 \in 0 .. 255 /\ 17 \in 0 .. 255 /\ 34 \in 0 .. 255
    OBVIOUS
  <2> QED
    BY <2>1, FourMade, ZenonT(60)
<1>2. Line(2, <<0, 0, 5, 99>>) = Four(2, 0, 0, 5, 99) /\ Four(2, 0, 0, 5, 99) \in SrecLine
  <2>1. 2 \in 0 .. 9 /\ 0 \in 0 .. 255 /\ 5 \in 0 .. 255 /\ 99 \in 0 .. 255
    OBVIOUS
  <2> QED
    BY <2>1, FourMade, ZenonT(60)
<1>3. Line(1, <<0, 1, 200>>) \in SrecLine
  <2>1. 1 \in 0 .. 9 /\ <<0, 1, 200>> \in Seq(0 .. 255)
    OBVIOUS
  <2> QED
    BY <2>1, LineMade, ZenonT(60)
<1>4. Line(9, <<0, 0>>) \in SrecLine
  <2>1. 9 \in 0 .. 9 /\ <<0, 0>> \in Seq(0 .. 255)
    OBVIOUS
  <2> QED
    BY <2>1, LineMade, ZenonT(60)
<1>5. Line(3, <<0, 0, 0, 7, 1>>) \in SrecLine
  <2>1. 3 \in 0 .. 9 /\ <<0, 0, 0, 7, 1>> \in Seq(0 .. 255)
    OBVIOUS
  <2> QED
    BY <2>1, LineMade, ZenonT(60)
<1> DEFINE a == Four(1, 0, 4, 17, 34)
           b == Four(2, 0, 0, 5, 99)
           c == Line(1, <<0, 1, 200>>)
           d == Line(9, <<0, 0>>)
<1>6. Good = <<a, b, c, d>>
  BY <1>1, <1>2, Zenon DEF Good
<1> HIDE DEF a, b, c, d
<1>7. <<a, b, c, d>> \in Seq(SrecLine)
  <2>1. a \in SrecLine /\ b \in SrecLine /\ c \in SrecLine /\ d \in SrecLine
    BY <1>1, <1>2, <1>3, <1>4 DEF a, b, c, d
  <2> QED
    BY <2>1
<1>8. Len(Good) = 4 /\ Good[1] = a /\ Good[2] = b
  BY <1>6
<1> QED
  BY <1>5, <1>6, <1>7, <1>8 DEF a, b

\* A file with one byte changed is of lines, one of which is refused.
LEMMA DamagedLines ==
  ASSUME NEW file \in Damaged
  PROVE  file \in Seq(SrecLine) /\ \E j \in 1 .. Len(file) : ~WellFormed(file[j])
<1>1. PICK c \in Changed : file = [Good EXCEPT ![c[1]].bytes[c[2]] = c[3]]
  BY DEF Damaged
<1> DEFINE g == c[1]
           i == c[2]
           v == c[3]
           bad == [Good[g] EXCEPT !.bytes[i] = v]
<1>2. g \in {1, 2} /\ i \in 1 .. 4 /\ v \in 0 .. NoHex /\ v # Good[g].bytes[i]
  BY DEF Changed, NoHex
<1>3. file = [Good EXCEPT ![g] = bad]
  BY <1>1
<1> HIDE DEF g, i, v
<1>4. bad \in SrecLine /\ ~WellFormed(bad)
  <2>1. CASE g = 1
    <3>1. 1 \in 0 .. 9 /\ 0 \in 0 .. 255 /\ 4 \in 0 .. 255 /\ 17 \in 0 .. 255 /\ 34 \in 0 .. 255
      OBVIOUS
    <3>2. Good[g] = Four(1, 0, 4, 17, 34)
      BY <2>1, GoodMade
    <3>3. v # Four(1, 0, 4, 17, 34).bytes[i]
      BY <1>2, <3>2, ZenonT(60)
    <3>4. /\ [Four(1, 0, 4, 17, 34) EXCEPT !.bytes[i] = v] \in SrecLine
          /\ ~WellFormed([Four(1, 0, 4, 17, 34) EXCEPT !.bytes[i] = v])
      BY <1>2, <3>1, <3>3, Spoilt, ZenonT(60)
    <3> QED
      BY <3>2, <3>4, Zenon
  <2>2. CASE g = 2
    <3>1. 2 \in 0 .. 9 /\ 0 \in 0 .. 255 /\ 5 \in 0 .. 255 /\ 99 \in 0 .. 255
      OBVIOUS
    <3>2. Good[g] = Four(2, 0, 0, 5, 99)
      BY <2>2, GoodMade
    <3>3. v # Four(2, 0, 0, 5, 99).bytes[i]
      BY <1>2, <3>2, Zenon
    <3>4. /\ [Four(2, 0, 0, 5, 99) EXCEPT !.bytes[i] = v] \in SrecLine
          /\ ~WellFormed([Four(2, 0, 0, 5, 99) EXCEPT !.bytes[i] = v])
      BY <1>2, <3>1, <3>3, Spoilt, ZenonT(60)
    <3> QED
      BY <3>2, <3>4, Zenon
  <2> QED
    BY <1>2, <2>1, <2>2
<1> HIDE DEF bad
<1>5. g \in 1 .. Len(Good) /\ Good \in Seq(SrecLine)
  BY <1>2, GoodMade
<1>6. file \in Seq(SrecLine) /\ Len(file) = Len(Good) /\ file[g] = bad
  BY <1>3, <1>4, <1>5, ExceptSeq
<1> QED
  BY <1>4, <1>5, <1>6

\* So are the files of other kinds.
LEMMA OtherLines ==
  ASSUME NEW file \in Other
  PROVE  file \in Seq(SrecLine)
<1>1. Good \in Seq(SrecLine) /\ Len(Good) = 4
  BY GoodMade
<1>2. Good[1] \in SrecLine /\ Good[3] \in SrecLine
  <2>1. 1 \in 1 .. Len(Good) /\ 3 \in 1 .. Len(Good)
    BY <1>1
  <2> QED
    BY <1>1, <2>1, ElementOfSeq, Zenon
<1>3. CASE file \in {Good, <<>>}
  <2>1. <<>> \in Seq(SrecLine)
    OBVIOUS
  <2> QED
    BY <1>1, <1>3, <2>1, Zenon
<1>4. ASSUME NEW rec \in SrecLine, file = Append(Good, rec) PROVE file \in Seq(SrecLine)
  BY <1>1, <1>4, AppendProperties, Zenon
<1>5. ASSUME NEW type \in 0 .. 9, file = Append(Good, Line(type, <<0, 0, 0, 0>>))
      PROVE  file \in Seq(SrecLine)
  <2>1. Line(type, <<0, 0, 0, 0>>) = Four(type, 0, 0, 0, 0) /\ Four(type, 0, 0, 0, 0) \in SrecLine
    <3>1. 0 \in 0 .. 255
      OBVIOUS
    <3> QED
      BY <3>1, FourMade, ZenonT(60)
  <2> QED
    BY <1>4, <1>5, <2>1, Zenon
<1>6. ASSUME NEW a \in 0 .. 8, file = Append(Good, Line(1, <<0, a, 7, 8>>))
      PROVE  file \in Seq(SrecLine)
  <2>1. Line(1, <<0, a, 7, 8>>) = Four(1, 0, a, 7, 8) /\ Four(1, 0, a, 7, 8) \in SrecLine
    <3>1. 1 \in 0 .. 9 /\ 0 \in 0 .. 255 /\ a \in 0 .. 255 /\ 7 \in 0 .. 255 /\ 8 \in 0 .. 255
      OBVIOUS
    <3> QED
      BY <3>1, FourMade, ZenonT(60)
  <2> QED
    BY <1>4, <1>6, <2>1, Zenon
<1>7. CASE file = Append(Good, Line(3, <<0, 0, 0, 7, 1>>))
  BY <1>4, <1>7, GoodMade, Zenon
<1>8. ASSUME NEW rec \in SrecLine, file = << rec >> \/ file = << Good[1], rec >>
      PROVE  file \in Seq(SrecLine)
  <2>1. \A S : \A x, y \in S : << x >> \in Seq(S) /\ << x, y >> \in Seq(S)
    OBVIOUS
  <2> QED
    BY <1>2, <1>8, <2>1, Zenon
<1>9. ASSUME NEW n \in {0, 2, 3, 5, NoHex}, file = <<Good[1], [Good[3] EXCEPT !.count = n]>>
      PROVE  file \in Seq(SrecLine)
  <2>1. [Good[3] EXCEPT !.count = n] \in SrecLine
    <3>1. n \in Nat
      BY DEF NoHex
    <3> QED
      BY <1>2, <3>1 DEF SrecLine
  <2> QED
    BY <1>8, <1>9, <2>1, Zenon
<1>10. CASE file = <<[Good[1] EXCEPT !.s = FALSE]>>
  <2>1. [Good[1] EXCEPT !.s = FALSE] \in SrecLine
    BY <1>2 DEF SrecLine
  <2> QED
    BY <1>8, <1>10, <2>1, Zenon
<1>11. CASE file = <<Good[1], [Good[3] EXCEPT !.short = TRUE]>>
  <2>1. [Good[3] EXCEPT !.short = TRUE] \in SrecLine
    BY <1>2 DEF SrecLine
  <2> QED
    BY <1>8, <1>11, <2>1, Zenon
<1>12. ASSUME NEW low \in 252 .. 255, file = Append(Good, Line(3, <<63, 255, 255, low, 1, 2>>))
       PROVE  file \in Seq(SrecLine)
  <2>1. <<63, 255, 255, low, 1, 2>> \in Seq(0 .. 255)
    <3>1. 63 \in 0 .. 255 /\ low \in 0 .. 255 /\ 255 \in 0 .. 255 /\ 1 \in 0 .. 255 /\ 2 \in 0 .. 255
      OBVIOUS
    <3> QED
      BY <3>1
  <2>2. Line(3, <<63, 255, 255, low, 1, 2>>) \in SrecLine
    <3>1. 3 \in 0 .. 9
      OBVIOUS
    <3> QED
      BY <2>1, <3>1, LineMade, Zenon
  <2> QED
    BY <1>4, <1>12, <2>2, Zenon
<1> QED
  BY <1>3, <1>5, <1>6, <1>7, <1>9, <1>10, <1>11, <1>12, ZenonT(60) DEF Other

-----------------------------------------------------------------------------
(* The emulator started with a file                                        *)

\* The file is of lines, a damaged one has a line to refuse; the machine runs
\* when the file was right.
BootInv == Live("boot") =>
  /\ scene.file \in Seq(SrecLine)
  /\ scene.bad => \E j \in 1 .. Len(scene.file) : ~WellFormed(scene.file[j])
  /\ opts = [video |-> FALSE, com |-> FALSE]
  /\ DOMAIN em = {"at", "then", "frame", "k"} /\ em.at \in {"start", "run", "exited"}
  /\ em.at = "run" => load_srec_file(scene.file).ok

\* The emulator begins with one of the files.
LEMMA BootInit == Init => BootInv
<1> SUFFICES ASSUME Init, Live("boot") PROVE BootInv
  BY DEF BootInv
<1>1. \/ scene \in [kind : {"boot"}, bad : {TRUE}, file : Damaged]
      \/ scene \in [kind : {"boot"}, bad : {FALSE}, file : Other]
  <2>1. scene \in Scenes
    BY DEF Init
  <2>2. /\ \A s \in {[kind |-> "window"], [kind |-> "bridge"]} : s.kind # "boot"
        /\ \A s \in [kind : {"type"}, typed : Typings] : s.kind # "boot"
    <3> HIDE DEF Typings
    <3> QED
      OBVIOUS
  <2>3. scene.kind = "boot"
    BY DEF Live
  <2> QED
    BY <2>1, <2>2, <2>3, Zenon DEF Scenes
<1>2. /\ scene.file \in Seq(SrecLine)
      /\ scene.bad => \E j \in 1 .. Len(scene.file) : ~WellFormed(scene.file[j])
  <2>1. CASE scene \in [kind : {"boot"}, bad : {TRUE}, file : Damaged]
    BY <2>1, DamagedLines
  <2>2. CASE scene \in [kind : {"boot"}, bad : {FALSE}, file : Other]
    BY <2>2, OtherLines
  <2> QED
    BY <1>1, <2>1, <2>2
<1>3. opts = [video |-> FALSE, com |-> FALSE]
  BY DEF Init, Live
<1>4. em = [at |-> "start", then |-> "run", frame |-> 0, k |-> 0]
  BY DEF Init
<1> QED
  BY <1>2, <1>3, <1>4 DEF BootInv

\* A step of the emulator, started with a file, starts the machine or nothing.
LEMMA BootStep == BootInv /\ [Next]_mvars => BootInv'
<1> SUFFICES ASSUME BootInv, [Next]_mvars, Live("boot") PROVE BootInv'
  BY SceneKept DEF BootInv, Live
<1>1. scene' = scene /\ scene.kind = "boot"
  BY SceneKept DEF Live
<1>2. /\ opts = [video |-> FALSE, com |-> FALSE]
      /\ DOMAIN em = {"at", "then", "frame", "k"} /\ em.at \in {"start", "run", "exited"}
  BY DEF BootInv
<1>3. ASSUME UNCHANGED <<opts, em>> PROVE BootInv'
  BY <1>1, <1>3 DEF BootInv, Live
<1>4. ~Running /\ ~Port /\ ~Quits
  BY <1>1, <1>2 DEF Running, Port, Quits, Live
<1>5. ~Machine
  BY <1>1, <1>2 DEF Machine, frame, uart_sends, Live
<1>6. CASE Window
  BY <1>3, <1>6 DEF Window, window_starts, window_sends, window_shows, window_ends
<1>7. CASE read_frames
  BY <1>3, <1>7 DEF read_frames
<1>8. CASE AtWindow
  <2>1. ASSUME NEW inputs, NEW mouse, NEW buttons, Event(inputs, mouse, buttons) PROVE BootInv'
    BY <1>3, <2>1 DEF Event
  <2>2. CASE WindowClosed
    BY <1>3, <2>2 DEF WindowClosed
  <2> QED
    BY <1>8, <2>1, <2>2 DEF AtWindow, Presses, Releases, Drags, Clicks, Turns, Leaves, ComesBack,
                            KeyDown, KeyUp, MouseEvent, WheelTurned, FocusLost, Entered
<1>9. CASE Boots
  <2>1. /\ opts' = opts
        /\ \E disk \in BOOLEAN :
             em' = [em EXCEPT !.at = IF load_srec_file(scene.file).ok /\ disk THEN "run" ELSE "exited"]
    BY <1>9 DEF Boots, main_starts, Step
  <2>2. /\ DOMAIN em' = DOMAIN em /\ em'.at \in {"start", "run", "exited"}
        /\ em'.at = "run" => load_srec_file(scene.file).ok
    BY <1>2, <2>1
  <2> QED
    BY <1>1, <1>2, <2>1, <2>2 DEF BootInv, Live
<1>10. CASE UNCHANGED mvars
  BY <1>3, <1>10 DEF mvars, hvars
<1> QED
  BY <1>4, <1>5, <1>6, <1>7, <1>8, <1>9, <1>10 DEF Next

(***************************************************************************)
(* The machine starts with an image only if every record of the file was   *)
(* right (load_srec_file, main): a file with a byte changed, or one that   *)
(* is not a byte, is refused.  Taken or refused, a file none of whose      *)
(* lines goes over the 32 bits leaves in memory what its lines before the  *)
(* first bad one say, all of it inside, and their range is reported.       *)
(***************************************************************************)
THEOREM HostImageLoaded == Spec => []ImageLoaded
<1>1. BootInv => ImageLoaded
  <2> SUFFICES ASSUME BootInv, Live("boot") PROVE ImageLoaded
    BY DEF ImageLoaded
  <2> DEFINE file == scene.file
             n == Len(file)
             r == load_srec_file(file)
  <2>1. /\ file \in Seq(SrecLine) /\ (em.at = "run" => r.ok)
        /\ scene.bad => \E j \in 1 .. n : ~WellFormed(file[j])
    BY DEF BootInv
  <2>2. LoadInv(r, file, n)
    BY <2>1, FileLoaded, Zenon
  <2>3. r.ok = (Taken(file, n) = 1 .. n)
    BY <2>2 DEF LoadInv
  <2>4. scene.bad => ~r.ok
    <3>1. ASSUME NEW j \in 1 .. n, ~WellFormed(file[j]), Taken(file, n) = 1 .. n PROVE FALSE
      <4>1. j \in Taken(file, n) /\ j \in 1 .. j
        BY <3>1
      <4>2. ~Refused(file[j])
        BY <4>1 DEF Taken
      <4> QED
        BY <3>1, <4>2, Zenon DEF Refused
    <3> QED
      BY <2>1, <2>3, <3>1, Zenon
  <2>5. (\A i \in Taken(file, n) : ~(IsData(file[i]) /\ Wraps(file[i]))) => Placed(r, file, n)
    BY <2>2 DEF LoadInv, NoneWraps
  <2> QED
    BY <2>1, <2>3, <2>4, <2>5, Zenon DEF ImageLoaded
<1> QED
  BY <1>1, BootInit, BootStep, PTL DEF Spec
=============================================================================
