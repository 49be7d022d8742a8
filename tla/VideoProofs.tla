---------------------------- MODULE VideoProofs ----------------------------
(***************************************************************************)
(* The video card for every height of the picture, number of lines, length *)
(* of the key queue, and bound on what the window, the program and the     *)
(* beam do: no event is lost (EventSeen), what is typed and pointed at is  *)
(* what the program reads (InputFaithful), and a picture is one frame's    *)
(* (WholeFrames).                                                          *)
(***************************************************************************)
EXTENDS MCVideo, Counting

-----------------------------------------------------------------------------
(* What the recursive functions of the model compute, step by step         *)

\* VideoDevice::tick begins the lines that are due, one after the other.
LEMMA TickSteps ==
  ASSUME NEW e, NEW wanted, NEW n \in Nat
  PROVE  \E f : /\ f[0] = e /\ f[n] = tick(e, n, wanted)
                /\ \A k \in 1 .. n : f[k] = begin_line(f[k - 1], wanted)
<1> DEFINE Rec(g, m) == [k \in 0 .. m |-> IF k = 0 THEN e ELSE begin_line(g[k - 1], wanted)]
           S == {m \in 0 .. n : \E g : g = Rec(g, m)}
<1>1. 0 \in S
  <2> DEFINE g == [k \in 0 .. 0 |-> e]
  <2>1. g = Rec(g, 0)
    OBVIOUS
  <2> HIDE DEF Rec, g
  <2> QED
    BY <2>1
<1>2. ASSUME NEW m \in 0 .. n - 1, m \in S PROVE m + 1 \in S
  <2>1. PICK g : g = Rec(g, m)
    BY <1>2
  <2> DEFINE h == [k \in 0 .. m + 1 |-> IF k = m + 1 THEN begin_line(g[m], wanted) ELSE g[k]]
  <2>2. h = Rec(h, m + 1)
    <3>1. ASSUME NEW k \in 0 .. m + 1 PROVE h[k] = Rec(h, m + 1)[k]
      <4>1. CASE k = m + 1
        BY <4>1
      <4>2. CASE k \in 0 .. m
        <5>1. k # 0 => h[k - 1] = g[k - 1]
          BY <4>2
        <5>2. g[k] = Rec(g, m)[k]
          BY <2>1
        <5> QED
          BY <4>2, <5>1, <5>2
      <4> QED
        BY <4>1, <4>2
    <3> QED
      BY <3>1
  <2> HIDE DEF Rec, h
  <2> QED
    BY <2>2
<1>3. n \in S
  <2> HIDE DEF S
  <2>1. \A m \in 0 .. n : m \in S
    BY <1>1, <1>2, UpTo
  <2> QED
    BY <2>1
<1> DEFINE f == CHOOSE g : g = Rec(g, n)
<1>4. tick(e, n, wanted) = f[n]
  BY DEF tick
<1>5. f = Rec(f, n)
  <2> HIDE DEF Rec
  <2> QED
    BY <1>3
<1> HIDE DEF f
<1>6. f[0] = e /\ \A k \in 1 .. n : f[k] = begin_line(f[k - 1], wanted)
  BY <1>5
<1> QED
  BY <1>4, <1>6

\* A tick with one or two lines due, as the beam's steps are.
LEMMA TickOnce ==
  ASSUME NEW e, NEW wanted
  PROVE  /\ tick(e, 1, wanted) = begin_line(e, wanted)
         /\ tick(e, 2, wanted) = begin_line(begin_line(e, wanted), wanted)
<1>1. PICK f : f[0] = e /\ f[1] = tick(e, 1, wanted) /\ \A k \in 1 .. 1 : f[k] = begin_line(f[k - 1], wanted)
  BY TickSteps
<1>2. f[1] = begin_line(e, wanted)
  BY <1>1
<1>3. PICK g : g[0] = e /\ g[2] = tick(e, 2, wanted) /\ \A k \in 1 .. 2 : g[k] = begin_line(g[k - 1], wanted)
  BY TickSteps
<1>4. g[1] = begin_line(e, wanted)
  BY <1>3
<1>5. g[2] = begin_line(g[1], wanted)
  BY <1>3
<1> QED
  BY <1>1, <1>2, <1>3, <1>4, <1>5

-----------------------------------------------------------------------------
(* The beam and the picture                                                *)

\* Every row of the picture that a frame has begun holds what was drawn when
\* its line was; at line VC_HEIGHT all of them have been begun.
FrameInv(e) ==
  /\ DOMAIN e = {"c", "lines", "active", "drawing", "rows", "sent"}
  /\ e.lines \in Nat /\ DOMAIN e.rows = 0 .. VC_HEIGHT - 1
  /\ e.drawing => \A y \in 0 .. VC_HEIGHT - 1 :
                    y < e.lines % VC_LINES => e.rows[y] = e.lines - ((e.lines % VC_LINES) - y)
  /\ e.sent.picture => \A y \in 0 .. VC_HEIGHT - 1 : e.sent.rows[y] = e.sent.at - (VC_HEIGHT - y)

\* A number is told by its quotient and its remainder.
LEMMA Remainder ==
  ASSUME NEW m \in Nat, NEW q \in Nat \ {0}, NEW k \in Nat, NEW r \in 0 .. q - 1, m = q * k + r
  PROVE  m % q = r
  OBVIOUS

\* The line after the last one of a frame is the first of the next.
LEMMA NextLine ==
  ASSUME NEW m \in Nat, NEW q \in Nat \ {0}
  PROVE  /\ m % q \in 0 .. q - 1
         /\ (m + 1) % q = IF m % q = q - 1 THEN 0 ELSE (m % q) + 1
<1>1. PICK k \in Nat, r \in 0 .. q - 1 : m = q * k + r /\ m % q = r
  BY SMTT(60)
<1>2. CASE r = q - 1
  <2>1. m + 1 = q * (k + 1) + 0 /\ k + 1 \in Nat /\ 0 \in 0 .. q - 1 /\ m + 1 \in Nat
    BY <1>1, <1>2, SMTT(60)
  <2>2. (m + 1) % q = 0
    BY <2>1, Remainder
  <2> QED
    BY <1>1, <1>2, <2>2
<1>3. CASE r # q - 1
  <2>1. m + 1 = q * k + (r + 1) /\ r + 1 \in 0 .. q - 1 /\ m + 1 \in Nat
    BY <1>1, <1>3, SMTT(60)
  <2>2. (m + 1) % q = r + 1
    BY <2>1, Remainder
  <2> QED
    BY <1>1, <1>3, <2>2
<1> QED
  BY <1>2, <1>3

\* A line begun keeps it: rows are drawn from the first line of a frame, or not at all.
LEMMA LineKeepsFrames ==
  ASSUME NEW e, FrameInv(e), NEW wanted
  PROVE  FrameInv(begin_line(e, wanted))
<1> DEFINE n == e.lines % VC_LINES
           drawing == Drawing(e, n, wanted)
           b == begin_line(e, wanted)
           rows == IF n < VC_HEIGHT /\ drawing THEN [e.rows EXCEPT ![n] = e.lines] ELSE e.rows
<1>1. /\ VC_LINES \in Nat /\ VC_HEIGHT \in Nat \ {0} /\ VC_HEIGHT < VC_LINES
      /\ n \in 0 .. VC_LINES - 1
      /\ (e.lines + 1) % VC_LINES = IF n = VC_LINES - 1 THEN 0 ELSE n + 1
  <2>1. VC_LINES \in Nat \ {0} /\ VC_HEIGHT \in Nat \ {0} /\ VC_HEIGHT < VC_LINES /\ e.lines \in Nat
    BY CardConstants DEF FrameInv
  <2>2. /\ e.lines % VC_LINES \in 0 .. VC_LINES - 1
        /\ (e.lines + 1) % VC_LINES = IF e.lines % VC_LINES = VC_LINES - 1 THEN 0 ELSE (e.lines % VC_LINES) + 1
    BY <2>1, NextLine
  <2> QED
    BY <2>1, <2>2
<1>2. /\ DOMAIN b = DOMAIN e /\ b.lines = e.lines + 1 /\ b.drawing = drawing /\ b.rows = rows
      /\ b.sent = IF n = VC_HEIGHT /\ e.active THEN [picture |-> drawing, rows |-> e.rows, at |-> e.lines] ELSE e.sent
  BY DEF begin_line, FrameInv
<1> HIDE DEF b, n, drawing
<1>3. DOMAIN rows = 0 .. VC_HEIGHT - 1
  BY DEF FrameInv
<1>4. drawing /\ n # 0 => e.drawing
  BY DEF drawing, Drawing, n
<1>5. ASSUME drawing, NEW y \in 0 .. VC_HEIGHT - 1, y < (e.lines + 1) % VC_LINES
      PROVE  rows[y] = (e.lines + 1) - (((e.lines + 1) % VC_LINES) - y)
  <2>1. (e.lines + 1) % VC_LINES = n + 1 /\ y <= n
    BY <1>1, <1>5
  <2>2. CASE y = n
    BY <1>1, <1>5, <2>1, <2>2 DEF FrameInv
  <2>3. CASE y < n
    <3>1. e.drawing /\ rows[y] = e.rows[y]
      BY <1>1, <1>4, <1>5, <2>3 DEF FrameInv
    <3>2. e.rows[y] = e.lines - (n - y)
      BY <1>5, <2>3, <3>1 DEF FrameInv, n
    <3> QED
      BY <1>1, <2>1, <3>1, <3>2 DEF FrameInv
  <2> QED
    BY <1>1, <2>1, <2>2, <2>3
<1>6. ASSUME b.sent.picture, NEW y \in 0 .. VC_HEIGHT - 1
      PROVE  b.sent.rows[y] = b.sent.at - (VC_HEIGHT - y)
  <2>1. CASE n = VC_HEIGHT /\ e.active
    <3>1. drawing /\ b.sent.rows = e.rows /\ b.sent.at = e.lines
      BY <1>2, <1>6, <2>1
    <3>2. e.drawing /\ n = VC_HEIGHT /\ y < n
      BY <1>1, <1>4, <2>1, <3>1
    <3>3. e.rows[y] = e.lines - (n - y)
      BY <3>2 DEF FrameInv, n
    <3> QED
      BY <3>1, <3>2, <3>3
  <2>2. CASE ~(n = VC_HEIGHT /\ e.active)
    BY <1>2, <1>6, <2>2 DEF FrameInv
  <2> QED
    BY <2>1, <2>2
<1>7. b.lines \in Nat
  BY <1>2 DEF FrameInv
<1>8. DOMAIN b = {"c", "lines", "active", "drawing", "rows", "sent"} /\ DOMAIN b.rows = 0 .. VC_HEIGHT - 1
  BY <1>2, <1>3 DEF FrameInv
<1>9. b.drawing => \A y \in 0 .. VC_HEIGHT - 1 :
                     y < b.lines % VC_LINES => b.rows[y] = b.lines - ((b.lines % VC_LINES) - y)
  <2> HIDE DEF rows
  <2> SUFFICES ASSUME b.drawing, NEW y \in 0 .. VC_HEIGHT - 1, y < b.lines % VC_LINES
               PROVE  b.rows[y] = b.lines - ((b.lines % VC_LINES) - y)
    OBVIOUS
  <2>1. drawing /\ b.rows = rows /\ b.lines = e.lines + 1
    BY <1>2
  <2>2. y < (e.lines + 1) % VC_LINES
    BY <2>1
  <2>3. rows[y] = (e.lines + 1) - (((e.lines + 1) % VC_LINES) - y)
    BY <1>5, <2>1, <2>2
  <2>4. b.rows[y] = rows[y]
    BY <2>1
  <2>5. b.lines - ((b.lines % VC_LINES) - y) = (e.lines + 1) - (((e.lines + 1) % VC_LINES) - y)
    BY <1>1, <2>1 DEF FrameInv
  <2> QED
    BY <2>3, <2>4, <2>5
<1> HIDE DEF rows
<1>10. FrameInv(b)
  BY ONLY <1>6, <1>7, <1>8, <1>9 DEF FrameInv
<1> QED
  BY <1>10 DEF b

\* What only changes the card, or makes the device active, keeps it.
LEMMA CardKeepsFrames ==
  ASSUME NEW e, FrameInv(e), NEW c
  PROVE  FrameInv([e EXCEPT !.c = c]) /\ FrameInv([e EXCEPT !.active = TRUE, !.c = c])
  BY DEF FrameInv

\* So does a tick of one or two lines.
LEMMA TickKeepsFrames ==
  ASSUME NEW e, FrameInv(e), NEW wanted
  PROVE  FrameInv(tick(e, 1, wanted)) /\ FrameInv(tick(e, 2, wanted))
  BY LineKeepsFrames, TickOnce

\* So does the machine's reset, which begins line 0 with a device that no program has used.
LEMMA ResetKeepsFrames ==
  ASSUME NEW e, FrameInv(e), NEW wanted
  PROVE  FrameInv(device_reset(e, wanted))
<1> DEFINE z == [e EXCEPT !.c = [vc_reset(e.c) EXCEPT !.line = 0, !.frame = 0], !.lines = 0,
                          !.active = FALSE, !.drawing = FALSE]
<1>1. FrameInv(z)
  BY DEF FrameInv
<1>2. device_reset(e, wanted) = tick(z, 1, wanted)
  BY DEF device_reset
<1> HIDE DEF z
<1> QED
  BY <1>1, <1>2, TickKeepsFrames

\* The device at power-on.
LEMMA FreshFrames == FrameInv(Fresh)
<1>1. FrameInv(power_on)
  BY CardConstants DEF FrameInv, power_on
<1> QED
  BY <1>1, ResetKeepsFrames DEF Fresh

\* A drawing scene and a picture differ from it in the card only.
LEMMA InitFrames == Init => FrameInv(d)
<1> SUFFICES ASSUME Init PROVE FrameInv(d)
  OBVIOUS
<1>1. CASE scene.kind = "draw"
  <2>1. d = Prepared(scene)
    BY <1>1 DEF Init
  <2>2. PICK c : d = [Fresh EXCEPT !.c = c]
    BY <2>1 DEF Prepared
  <2>3. FrameInv([Fresh EXCEPT !.c = c])
    BY FreshFrames, CardKeepsFrames
  <2> QED
    BY <2>2, <2>3
<1>2. CASE scene.kind = "picture"
  <2>1. d = [Fresh EXCEPT !.c.mem = PictureMem(scene)]
    BY <1>2 DEF Init
  <2>2. d = [Fresh EXCEPT !.c = [Fresh.c EXCEPT !.mem = PictureMem(scene)]]
    BY <2>1
  <2> QED
    BY <2>2, FreshFrames, CardKeepsFrames
<1>3. CASE scene.kind # "draw" /\ scene.kind # "picture"
  BY <1>3, FreshFrames DEF Init
<1> QED
  BY <1>1, <1>2, <1>3

\* Every step either leaves the device alone but for the card, or is a tick or a reset.
LEMMA StepOfDevice ==
  ASSUME [Next]_mvars
  PROVE  \/ d' = d
         \/ \E c : d' = [d EXCEPT !.c = c]
         \/ \E c : d' = [d EXCEPT !.active = TRUE, !.c = c]
         \/ \E due \in 1 .. 2, wanted \in BOOLEAN : d' = tick(d, due, wanted)
         \/ d' = device_reset(d, TRUE)
<1>1. ASSUME NEW key, Press(key) \/ Release(key) PROVE \E c : d' = [d EXCEPT !.c = c]
  BY <1>1 DEF Press, Release, Card
<1>2. ASSUME TakeKey \/ ReadMouse \/ ReadWheel \/ ReadIsr \/ SendCommand PROVE \E c : d' = [d EXCEPT !.c = c]
  BY <1>2 DEF TakeKey, ReadMouse, ReadWheel, ReadIsr, SendCommand, Card
<1>3. ASSUME MouseMoves PROVE \E c : d' = [d EXCEPT !.c = c]
  BY <1>3 DEF MouseMoves, Card
<1>4. ASSUME ClearIsr \/ WriteSetting PROVE \E c : d' = [d EXCEPT !.active = TRUE, !.c = c]
  BY <1>4 DEF ClearIsr, WriteSetting, device_write
<1>5. ASSUME BeamMoves PROVE \E due \in 1 .. 2, wanted \in BOOLEAN : d' = tick(d, due, wanted)
  BY <1>5 DEF BeamMoves
<1>6. ASSUME MachineReset PROVE d' = device_reset(d, TRUE)
  BY <1>6 DEF MachineReset
<1>7. ASSUME UNCHANGED mvars PROVE d' = d
  BY <1>7 DEF mvars
<1> QED
  BY <1>1, <1>2, <1>3, <1>4, <1>5, <1>6, <1>7 DEF Next

\* Whatever the window, the program and the beam do.
LEMMA NextFrames ==
  FrameInv(d) /\ [Next]_mvars => FrameInv(d')
<1> SUFFICES ASSUME FrameInv(d), [Next]_mvars PROVE FrameInv(d')
  OBVIOUS
<1>1. ASSUME NEW due \in 1 .. 2, NEW wanted, d' = tick(d, due, wanted) PROVE FrameInv(d')
  <2>1. due = 1 \/ due = 2
    OBVIOUS
  <2> QED
    BY <1>1, <2>1, TickKeepsFrames
<1>2. ASSUME NEW c, d' = [d EXCEPT !.c = c] \/ d' = [d EXCEPT !.active = TRUE, !.c = c] PROVE FrameInv(d')
  <2>1. FrameInv([d EXCEPT !.c = c]) /\ FrameInv([d EXCEPT !.active = TRUE, !.c = c])
    BY CardKeepsFrames
  <2> QED
    BY <1>2, <2>1
<1>3. ASSUME d' = d PROVE FrameInv(d')
  BY <1>3
<1>4. ASSUME d' = device_reset(d, TRUE) PROVE FrameInv(d')
  BY <1>4, ResetKeepsFrames
<1>5. CASE \E c : d' = [d EXCEPT !.c = c]
  BY <1>2, <1>5
<1>6. CASE \E c : d' = [d EXCEPT !.active = TRUE, !.c = c]
  BY <1>2, <1>6
<1>7. CASE \E due \in 1 .. 2, wanted \in BOOLEAN : d' = tick(d, due, wanted)
  BY <1>1, <1>7
<1>8. \/ d' = d
      \/ \E c : d' = [d EXCEPT !.c = c]
      \/ \E c : d' = [d EXCEPT !.active = TRUE, !.c = c]
      \/ \E due \in 1 .. 2, wanted \in BOOLEAN : d' = tick(d, due, wanted)
      \/ d' = device_reset(d, TRUE)
  BY StepOfDevice
<1> QED
  BY <1>3, <1>4, <1>5, <1>6, <1>7, <1>8

(***************************************************************************)
(* The picture that begin_line (video_device.cpp) hands to the sink has    *)
(* all its rows from one frame, in order, however many lines a tick        *)
(* begins, whenever the card is reset, and whatever the sink wants.        *)
(***************************************************************************)
THEOREM VideoWholeFrames == Spec => []WholeFrames
<1>1. Init => FrameInv(d)
  BY InitFrames
<1>2. FrameInv(d) /\ [Next]_mvars => FrameInv(d)'
  BY NextFrames DEF FrameInv
<1>3. FrameInv(d) => WholeFrames
  BY DEF FrameInv, WholeFrames
<1> QED
  BY <1>1, <1>2, <1>3, PTL DEF Spec

-----------------------------------------------------------------------------
(* What the card's operations do to its flags and to its input             *)

CardFields ==
  {"mem", "addr", "inc", "ien", "isr", "frame", "line", "irq_line", "cmd", "t", "color", "font", "font_h", "pointer", "keys",
   "mouse", "snap", "buttons", "wheel", "mods", "caps_lock", "key_char", "keyq", "head", "len", "out"}
IsCard(c) == DOMAIN c = CardFields

\* From c to z the keyboard, its queue and the mouse have not changed.
SameKeys(c, z) ==
  /\ z.keyq = c.keyq /\ z.head = c.head /\ z.len = c.len
  /\ z.mods = c.mods /\ z.caps_lock = c.caps_lock
SameMouse(c, z) == z.mouse = c.mouse /\ z.snap = c.snap /\ z.wheel = c.wheel
SameInput(c, z) == IsCard(z) /\ SameKeys(c, z) /\ SameMouse(c, z)

\* The numbers of the registers a program of the model uses.
LEMMA Registers ==
  /\ RegName(5) = "DATA" /\ RegName(12) = "CTRL" /\ RegName(14) = "IEN" /\ RegName(15) = "ISR"
  /\ RegName(17) = "LINE_L" /\ RegName(18) = "CMD" /\ RegName(20) = "IN_CTRL"
  /\ RegName(21) = "MOUSE_X_H" /\ RegName(22) = "MOUSE_X_L" /\ RegName(23) = "MOUSE_Y_H" /\ RegName(24) = "MOUSE_Y_L"
  /\ RegName(26) = "MOUSE_WHEEL" /\ RegName(27) = "KEY"
  BY DEF RegName, PortRegs, CardRegs

\* Reading a register of the mouse, the flags or the keyboard.
LEMMA ReadFlags ==
  ASSUME NEW c, IsCard(c)
  PROVE  LET z == vc_read(c, 15)
         IN  SameInput(c, z) /\ z.isr = c.isr /\ z.cmd = c.cmd /\ z.out = FlagByte(c.isr)
<1>1. vc_read(c, 15) = Ret(c, FlagByte(c.isr))
  BY Registers, SMTT(60) DEF vc_read
<1> QED
  BY <1>1 DEF Ret, IsCard, CardFields, SameInput, SameKeys, SameMouse

\* The position: X's high byte takes both coordinates down, the others are read of that.
LEMMA ReadPosition ==
  ASSUME NEW c, IsCard(c), NEW i \in 0 .. 3
  PROVE  LET z == vc_read(c, 21 + i)
         IN  /\ IsCard(z) /\ SameKeys(c, z) /\ z.mouse = c.mouse /\ z.wheel = c.wheel /\ z.isr = c.isr /\ z.cmd = c.cmd
             /\ z.snap = IF i = 0 THEN c.mouse ELSE c.snap
             /\ z.out = CASE i = 0 -> c.mouse[1] \div 256
                          [] i = 1 -> c.snap[1] % 256
                          [] i = 2 -> c.snap[2] \div 256
                          [] i = 3 -> c.snap[2] % 256
<1>1. vc_read(c, 21) = Ret([c EXCEPT !.snap = c.mouse], c.mouse[1] \div 256)
  BY Registers, SMTT(60) DEF vc_read
<1>2. vc_read(c, 22) = Ret(c, c.snap[1] % 256)
  BY Registers, SMTT(60) DEF vc_read
<1>3. vc_read(c, 23) = Ret(c, c.snap[2] \div 256)
  BY Registers, SMTT(60) DEF vc_read
<1>4. vc_read(c, 24) = Ret(c, c.snap[2] % 256)
  BY Registers, SMTT(60) DEF vc_read
<1>5. CASE i = 0
  <2> DEFINE w == [c EXCEPT !.snap = c.mouse]
             z == vc_read(c, 21)
  <2>1. IsCard(w) /\ SameKeys(c, w) /\ w.mouse = c.mouse /\ w.wheel = c.wheel /\ w.isr = c.isr /\ w.cmd = c.cmd /\ w.snap = c.mouse
    BY DEF IsCard, CardFields, SameKeys
  <2>2. z = Ret(w, c.mouse[1] \div 256)
    BY <1>1
  <2> HIDE DEF w, z
  <2>3. /\ IsCard(z) /\ SameKeys(c, z) /\ z.mouse = c.mouse /\ z.wheel = c.wheel /\ z.isr = c.isr /\ z.cmd = c.cmd
        /\ z.snap = c.mouse /\ z.out = c.mouse[1] \div 256
    BY <2>1, <2>2 DEF Ret, IsCard, CardFields, SameKeys
  <2> QED
    BY <1>5, <2>3 DEF z
<1>6. CASE i = 1
  BY <1>2, <1>6 DEF Ret, IsCard, CardFields, SameKeys
<1>7. CASE i = 2
  BY <1>3, <1>7 DEF Ret, IsCard, CardFields, SameKeys
<1>8. CASE i = 3
  BY <1>4, <1>8 DEF Ret, IsCard, CardFields, SameKeys
<1> QED
  BY <1>5, <1>6, <1>7, <1>8

\* The clicks of the wheel, which reading takes away.
LEMMA ReadClicks ==
  ASSUME NEW c, IsCard(c)
  PROVE  LET z == vc_read(c, 26)
         IN  /\ IsCard(z) /\ SameKeys(c, z) /\ z.mouse = c.mouse /\ z.snap = c.snap
             /\ z.wheel = 0 /\ z.isr = c.isr /\ z.cmd = c.cmd
  BY Registers DEF vc_read, Ret, IsCard, CardFields, SameKeys

\* A key, which leaves the queue if there is one.
LEMMA ReadKey ==
  ASSUME NEW c, IsCard(c)
  PROVE  LET z == vc_read(c, 27)
         IN  /\ IsCard(z) /\ SameMouse(c, z) /\ z.isr = c.isr /\ z.cmd = c.cmd
             /\ z.keyq = c.keyq /\ z.mods = c.mods /\ z.caps_lock = c.caps_lock
             /\ z.head = IF c.len = 0 THEN c.head ELSE (c.head + 1) % VC_KEY_QUEUE
             /\ z.len = IF c.len = 0 THEN c.len ELSE c.len - 1
  BY Registers DEF vc_read, take_key, IsCard, CardFields, SameMouse

\* Writing the flags, the enables, the line, memory through a port, IN_CTRL, a reset.
LEMMA WriteFlags ==
  ASSUME NEW c, IsCard(c), NEW v
  PROVE  LET z == vc_write(c, 15, v)
         IN  SameInput(c, z) /\ z.isr = c.isr \ Flags(v) /\ z.cmd = c.cmd
<1>1. vc_write(c, 15, v) = [c EXCEPT !.isr = Cleared(c.isr, v)]
  BY Registers, SMTT(60) DEF vc_write, IsCard, CardFields
<1> QED
  BY <1>1 DEF Cleared, IsCard, CardFields, SameInput, SameKeys, SameMouse

\* The enables, the line of the line interrupt, and a byte of memory through port 1.
LEMMA WriteOther ==
  ASSUME NEW c, IsCard(c), NEW v
  PROVE  /\ LET z == vc_write(c, 14, v) IN SameInput(c, z) /\ z.isr = c.isr /\ z.cmd = c.cmd
         /\ LET z == vc_write(c, 17, v) IN SameInput(c, z) /\ z.isr = c.isr /\ z.cmd = c.cmd
         /\ LET z == vc_write(c, 5, v) IN SameInput(c, z) /\ z.isr = c.isr /\ z.cmd = c.cmd
<1>1. vc_write(c, 14, v) = [c EXCEPT !.ien = Flags(v)]
  BY Registers, SMTT(60) DEF vc_write
<1>2. vc_write(c, 17, v) = [c EXCEPT !.irq_line = WithByte(@, 1, v)]
  BY Registers, SMTT(60) DEF vc_write
<1>3. vc_write(c, 5, v) = step_port([c EXCEPT !.mem = vc_poke(@, c.addr[PortOf(5)], v)], PortOf(5))
  BY Registers, SMTT(60) DEF vc_write
<1> DEFINE w == [c EXCEPT !.mem = vc_poke(@, c.addr[PortOf(5)], v)]
           p == PortOf(5)
<1>4. SameInput(c, w) /\ w.isr = c.isr /\ w.cmd = c.cmd
  BY DEF IsCard, CardFields, SameInput, SameKeys, SameMouse
<1>5. vc_write(c, 5, v) = step_port(w, p)
  BY <1>3
<1> HIDE DEF w, p
<1>6. LET z == vc_write(c, 5, v) IN SameInput(c, z) /\ z.isr = c.isr /\ z.cmd = c.cmd
  BY <1>4, <1>5 DEF step_port, IsCard, CardFields, SameInput, SameKeys, SameMouse
<1>7. LET z == vc_write(c, 14, v) IN SameInput(c, z) /\ z.isr = c.isr /\ z.cmd = c.cmd
  BY <1>1 DEF IsCard, CardFields, SameInput, SameKeys, SameMouse
<1>8. LET z == vc_write(c, 17, v) IN SameInput(c, z) /\ z.isr = c.isr /\ z.cmd = c.cmd
  BY <1>2 DEF IsCard, CardFields, SameInput, SameKeys, SameMouse
<1> QED
  BY <1>6, <1>7, <1>8

\* IN_CTRL, whose highest bit empties the queue.
LEMMA WriteInCtrl ==
  ASSUME NEW c, IsCard(c), NEW v \in Nat
  PROVE  LET z == vc_write(c, 20, v)
         IN  /\ IsCard(z) /\ SameMouse(c, z) /\ z.isr = c.isr /\ z.cmd = c.cmd
             /\ z.keyq = c.keyq /\ z.mods = c.mods /\ z.caps_lock = c.caps_lock
             /\ z.head = IF v >= 128 THEN 0 ELSE c.head
             /\ z.len = IF v >= 128 THEN 0 ELSE c.len
<1> DEFINE w == [c EXCEPT !.pointer = BitOf(v, 0) = 1, !.keys = BitOf(v, 1) = 1]
<1>1. vc_write(c, 20, v) = IF v >= 128 THEN [w EXCEPT !.head = 0, !.len = 0] ELSE w
  BY Registers, SMTT(60) DEF vc_write
<1>2. SameInput(c, w) /\ w.isr = c.isr /\ w.cmd = c.cmd
  BY DEF IsCard, CardFields, SameInput, SameKeys, SameMouse
<1> HIDE DEF w
<1> DEFINE y == [w EXCEPT !.head = 0, !.len = 0]
<1>3. /\ IsCard(y) /\ SameMouse(c, y) /\ y.isr = c.isr /\ y.cmd = c.cmd
      /\ y.keyq = c.keyq /\ y.mods = c.mods /\ y.caps_lock = c.caps_lock /\ y.head = 0 /\ y.len = 0
  BY <1>2 DEF IsCard, CardFields, SameInput, SameKeys, SameMouse
<1> HIDE DEF y
<1>4. CASE v >= 128
  <2>1. vc_write(c, 20, v) = y
    BY <1>1, <1>4 DEF y
  <2> QED
    BY <1>3, <1>4, <2>1, SMTT(60)
<1>5. CASE ~(v >= 128)
  <2>1. vc_write(c, 20, v) = w
    BY <1>1, <1>5
  <2> QED
    BY <1>2, <1>5, <2>1, SMTT(60) DEF SameInput, SameKeys
<1> QED
  BY <1>4, <1>5

\* The card's reset, which keeps the keys held, the mouse and what its snapshot was.
LEMMA ResetCard ==
  ASSUME NEW c, IsCard(c)
  PROVE  LET z == vc_reset(c)
         IN  /\ IsCard(z) /\ z.isr = {} /\ z.cmd = <<>> /\ z.head = 0 /\ z.len = 0 /\ z.wheel = 0
             /\ z.keyq = c.keyq /\ z.mods = c.mods /\ z.caps_lock = c.caps_lock
             /\ z.mouse = c.mouse /\ z.snap = c.snap
<1> DEFINE m == [c EXCEPT !.mem = [a \in {b \in DOMAIN c.mem : b >= VC_PSRAM_BASE} |-> c.mem[a]], !.addr = <<0, 0>>, !.inc = <<1, 1>>, !.ien = {}]
           w == [m EXCEPT !.isr = {}, !.irq_line = 0, !.cmd = <<>>]
           x == [w EXCEPT !.t = NoTarget, !.color = 15, !.font = VC_RESET_FONT, !.font_h = 16, !.pointer = FALSE, !.keys = FALSE]
           y == [x EXCEPT !.wheel = 0, !.key_char = 0, !.head = 0, !.len = 0]
<1>1. vc_reset(c) = y
  BY Zenon DEF vc_reset
<1>2. SameInput(c, m)
  BY DEF IsCard, CardFields, SameInput, SameKeys, SameMouse
<1> HIDE DEF m
<1>3. SameInput(c, w) /\ w.isr = {} /\ w.cmd = <<>>
  BY <1>2 DEF IsCard, CardFields, SameInput, SameKeys, SameMouse
<1> HIDE DEF w
<1>4. SameInput(c, x) /\ x.isr = {} /\ x.cmd = <<>>
  BY <1>3 DEF IsCard, CardFields, SameInput, SameKeys, SameMouse
<1> HIDE DEF x
<1>5. /\ IsCard(y) /\ y.isr = {} /\ y.cmd = <<>> /\ y.head = 0 /\ y.len = 0 /\ y.wheel = 0
      /\ y.keyq = c.keyq /\ y.mods = c.mods /\ y.caps_lock = c.caps_lock
      /\ y.mouse = c.mouse /\ y.snap = c.snap
  BY <1>4 DEF IsCard, CardFields, SameInput, SameKeys, SameMouse
<1> HIDE DEF y
<1> QED
  BY <1>1, <1>5

\* CTRL with its highest bit set is that reset.
LEMMA WriteReset ==
  ASSUME NEW c, IsCard(c)
  PROVE  vc_write(c, 12, 128) = vc_reset(c)
  BY Registers, SMTT(60) DEF vc_write

\* A drawing command changes memory, target, color or font and nothing else.
LEMMA CommandKeepsInput ==
  ASSUME NEW c, IsCard(c), NEW cmd
  PROVE  LET z == run_command(c, cmd)
         IN  SameInput(c, z) /\ z.isr = c.isr /\ z.cmd = c.cmd
<1> DEFINE Kept(z) == SameInput(c, z) /\ z.isr = c.isr /\ z.cmd = c.cmd
<1>1. Kept(c)
  BY DEF SameInput, SameKeys, SameMouse
<1>2. ASSUME NEW m PROVE Kept([c EXCEPT !.mem = m])
  BY DEF IsCard, CardFields, SameInput, SameKeys, SameMouse
<1>3. ASSUME NEW pixels PROVE Kept(Drawn(c, pixels))
  BY <1>2 DEF Drawn
<1>4. ASSUME NEW t PROVE Kept([c EXCEPT !.t = t])
  BY DEF IsCard, CardFields, SameInput, SameKeys, SameMouse
<1>5. ASSUME NEW v PROVE Kept([c EXCEPT !.color = v])
  BY DEF IsCard, CardFields, SameInput, SameKeys, SameMouse
<1>6. ASSUME NEW a, NEW h PROVE Kept([c EXCEPT !.font = a, !.font_h = h])
  BY DEF IsCard, CardFields, SameInput, SameKeys, SameMouse
<1>7. ASSUME NEW p PROVE Kept(set_target(c, p))
  BY <1>4 DEF set_target
<1>8. ASSUME NEW p PROVE Kept(blit(c, p))
  <2>1. \/ blit(c, p) = c
        \/ \E m : blit(c, p) = [c EXCEPT !.mem = m]
    BY DEF blit
  <2> HIDE DEF Kept
  <2> QED
    BY <1>1, <1>2, <2>1
<1>9. ASSUME NEW p PROVE Kept(char(c, p))
  <2>1. \E m : char(c, p) = [c EXCEPT !.mem = m]
    BY Zenon DEF char
  <2> HIDE DEF Kept
  <2> QED
    BY <1>2, <2>1
<1> HIDE DEF Kept
<1>10. Kept(run_command(c, cmd))
  BY <1>1, <1>2, <1>3, <1>5, <1>6, <1>7, <1>8, <1>9 DEF run_command
<1> QED
  BY <1>10 DEF Kept

\* So does a byte of a command; the last one runs it and flags that it is done.
LEMMA ByteKeepsInput ==
  ASSUME NEW c, IsCard(c), NEW v
  PROVE  LET z == command_byte(c, v)
             cmd == Append(c.cmd, v)
         IN  /\ SameInput(c, z)
             /\ \/ /\ Len(cmd) <= Params(cmd[1])
                   /\ z.isr = c.isr /\ z.cmd = cmd
                \/ /\ ~(Len(cmd) <= Params(cmd[1]))
                   /\ z.isr = c.isr \cup {"CMDDONE"} /\ z.cmd = <<>>
<1> DEFINE cmd == Append(c.cmd, v)
           r == run_command(c, cmd)
<1>1. CASE Len(cmd) <= Params(cmd[1])
  <2>1. command_byte(c, v) = [c EXCEPT !.cmd = cmd]
    BY <1>1 DEF command_byte
  <2> HIDE DEF cmd
  <2>2. SameInput(c, [c EXCEPT !.cmd = cmd]) /\ [c EXCEPT !.cmd = cmd].isr = c.isr /\ [c EXCEPT !.cmd = cmd].cmd = cmd
    BY DEF IsCard, CardFields, SameInput, SameKeys, SameMouse
  <2> QED
    BY <1>1, <2>1, <2>2 DEF cmd
<1>2. CASE ~(Len(cmd) <= Params(cmd[1]))
  <2>1. command_byte(c, v) = Raise([r EXCEPT !.cmd = <<>>], "CMDDONE")
    BY <1>2 DEF command_byte
  <2>2. SameInput(c, r) /\ r.isr = c.isr
    BY CommandKeepsInput
  <2> DEFINE z == Raise([r EXCEPT !.cmd = <<>>], "CMDDONE")
  <2> HIDE DEF r
  <2>3. SameInput(c, z) /\ z.isr = c.isr \cup {"CMDDONE"} /\ z.cmd = <<>>
    BY <2>2 DEF Raise, IsCard, CardFields, SameInput, SameKeys, SameMouse
  <2> QED
    BY <1>2, <2>1, <2>3
<1> QED
  BY <1>1, <1>2

\* The bytes of commands, as a program sends them, leave the input alone.
LEMMA SentKeepsInput ==
  ASSUME NEW c, IsCard(c), NEW bytes, Len(bytes) \in Nat
  PROVE  SameInput(c, Sent(c, bytes))
<1> DEFINE n == Len(bytes)
           Rec(g, m) == [k \in 0 .. m |-> IF k = 0 THEN c ELSE command_byte(g[k - 1], bytes[k])]
           S == {m \in 0 .. n : \E g : g = Rec(g, m)}
<1>1. 0 \in S
  <2> DEFINE g == [k \in 0 .. 0 |-> c]
  <2>1. g = Rec(g, 0)
    OBVIOUS
  <2> HIDE DEF Rec, g
  <2> QED
    BY <2>1
<1>2. ASSUME NEW m \in 0 .. n - 1, m \in S PROVE m + 1 \in S
  <2>1. PICK g : g = Rec(g, m)
    BY <1>2
  <2> DEFINE h == [k \in 0 .. m + 1 |-> IF k = m + 1 THEN command_byte(g[m], bytes[k]) ELSE g[k]]
  <2>2. h = Rec(h, m + 1)
    <3>1. ASSUME NEW k \in 0 .. m + 1 PROVE h[k] = Rec(h, m + 1)[k]
      <4>1. CASE k = m + 1
        BY <4>1
      <4>2. CASE k \in 0 .. m
        <5>1. k # 0 => h[k - 1] = g[k - 1]
          BY <4>2
        <5>2. g[k] = Rec(g, m)[k]
          BY <2>1
        <5> QED
          BY <4>2, <5>1, <5>2
      <4> QED
        BY <4>1, <4>2
    <3> QED
      BY <3>1
  <2> HIDE DEF Rec, h
  <2> QED
    BY <2>2
<1>3. n \in S
  <2> HIDE DEF S
  <2>1. \A m \in 0 .. n : m \in S
    BY <1>1, <1>2, UpTo
  <2> QED
    BY <2>1
<1> DEFINE f == CHOOSE g : g = Rec(g, n)
           T == {k \in 0 .. n : SameInput(c, f[k])}
<1>4. Sent(c, bytes) = f[n]
  BY DEF Sent
<1>5. f = Rec(f, n)
  <2> HIDE DEF Rec
  <2> QED
    BY <1>3
<1> HIDE DEF f
<1>6. 0 \in T
  BY <1>5 DEF SameInput, SameKeys, SameMouse
<1>7. ASSUME NEW k \in 0 .. n - 1, k \in T PROVE k + 1 \in T
  <2>1. f[k + 1] = command_byte(f[k], bytes[k + 1])
    BY <1>5
  <2>2. SameInput(c, f[k])
    BY <1>7
  <2>3. SameInput(f[k], command_byte(f[k], bytes[k + 1]))
    BY <2>2, ByteKeepsInput DEF SameInput
  <2> QED
    BY <2>1, <2>2, <2>3 DEF SameInput, SameKeys, SameMouse
<1>8. n \in T
  <2> HIDE DEF T
  <2>1. \A k \in 0 .. n : k \in T
    BY <1>6, <1>7, UpTo
  <2> QED
    BY <2>1
<1> QED
  BY <1>4, <1>8

\* The mouse: what moves or clicks is flagged, and stays on the picture.
Places == Int \X Int

\* A movement or a button.
LEMMA MouseTo ==
  ASSUME NEW c, IsCard(c), NEW x \in Int, NEW y \in Int, NEW b \in {0, 1}
  PROVE  LET z == vc_mouse_to(c, x, y, b)
         IN  /\ IsCard(z) /\ SameKeys(c, z) /\ z.snap = c.snap /\ z.wheel = c.wheel /\ z.cmd = c.cmd
             /\ z.mouse \in Places /\ c.isr \subseteq z.isr
             /\ z.mouse # c.mouse \/ z.buttons # c.buttons => "INPUT" \in z.isr
<1> DEFINE at == <<Clamp(x, VC_WIDTH - 1), Clamp(y, VC_HEIGHT - 1)>>
           bt == 128 + (b % 8)
           e == [c EXCEPT !.mouse = at, !.buttons = bt]
<1>1. at \in Places
  BY CardConstants DEF Clamp, Places
<1>2. vc_mouse_to(c, x, y, b) = IF at # c.mouse \/ bt # c.buttons THEN Raise(e, "INPUT") ELSE e
  BY DEF vc_mouse_to
<1> HIDE DEF at, bt
<1>3. /\ IsCard(e) /\ SameKeys(c, e) /\ e.snap = c.snap /\ e.wheel = c.wheel /\ e.cmd = c.cmd /\ e.isr = c.isr
      /\ e.mouse = at /\ e.buttons = bt
  BY DEF IsCard, CardFields, SameKeys
<1> HIDE DEF e
<1>4. CASE at # c.mouse \/ bt # c.buttons
  BY <1>1, <1>2, <1>3, <1>4 DEF Raise, IsCard, CardFields, SameKeys
<1>5. CASE ~(at # c.mouse \/ bt # c.buttons)
  BY <1>1, <1>2, <1>3, <1>5
<1> QED
  BY <1>4, <1>5

\* The wheel: its count stays within a byte.
LEMMA MouseWheel ==
  ASSUME NEW c, IsCard(c), c.wheel \in -128 .. 127, NEW n \in Int, n # 0
  PROVE  LET z == vc_mouse_wheel(c, n)
         IN  /\ IsCard(z) /\ SameKeys(c, z) /\ z.mouse = c.mouse /\ z.snap = c.snap /\ z.cmd = c.cmd
             /\ z.wheel \in -128 .. 127 /\ z.isr = c.isr \cup {"INPUT"}
<1> DEFINE w == c.wheel + n
           v == IF w > 127 THEN 127 ELSE IF w < -128 THEN -128 ELSE w
           e == [c EXCEPT !.wheel = v, !.buttons = IF @ < 128 THEN @ + 128 ELSE @]
<1>1. vc_mouse_wheel(c, n) = Raise(e, "INPUT")
  BY DEF vc_mouse_wheel
<1>2. v \in -128 .. 127
  <2>1. w \in Int
    OBVIOUS
  <2> HIDE DEF w
  <2> QED
    BY <2>1
<1> HIDE DEF v
<1>3. /\ IsCard(e) /\ SameKeys(c, e) /\ e.mouse = c.mouse /\ e.snap = c.snap /\ e.cmd = c.cmd /\ e.isr = c.isr
      /\ e.wheel = v
  BY DEF IsCard, CardFields, SameKeys
<1> HIDE DEF e
<1> QED
  BY <1>1, <1>2, <1>3 DEF Raise, IsCard, CardFields, SameKeys

\* The modifiers after a key event, and nothing else.
LEMMA HeldKeepsQueue ==
  ASSUME NEW c, IsCard(c), NEW u, NEW on
  PROVE  LET h == Held(c, u, on)
         IN  /\ IsCard(h) /\ SameMouse(c, h) /\ h.keyq = c.keyq /\ h.head = c.head /\ h.len = c.len
             /\ h.isr = c.isr /\ h.cmd = c.cmd
  BY DEF Held, IsCard, CardFields, SameMouse

\* Which modifiers those are.
LEMMA HeldKeys ==
  ASSUME NEW c, IsCard(c), NEW u, NEW on \in BOOLEAN
  PROVE  LET h == Held(c, u, on)
         IN  /\ h.mods = IF u \in 224 .. 231 THEN IF on THEN c.mods \cup {u - 224} ELSE c.mods \ {u - 224} ELSE c.mods
             /\ h.caps_lock = IF u \notin 224 .. 231 /\ u = 57 /\ on THEN ~c.caps_lock ELSE c.caps_lock
<1>1. CASE u \in 224 .. 231
  BY <1>1 DEF Held, IsCard, CardFields
<1>2. CASE u \notin 224 .. 231 /\ u = 57 /\ on
  BY <1>2 DEF Held, IsCard, CardFields
<1>3. CASE u \notin 224 .. 231 /\ ~(u = 57 /\ on)
  BY <1>3 DEF Held, IsCard, CardFields
<1> QED
  BY <1>1, <1>2, <1>3

\* A key event joins the queue, if there is room; the modifiers follow it anyway.
LEMMA KeyEvent ==
  ASSUME NEW c, IsCard(c), NEW u \in Nat \ {0}, NEW on \in BOOLEAN
  PROVE  LET h == Held(c, u, on)
             z == vc_key(c, u, on)
         IN  /\ IsCard(z) /\ SameMouse(c, z) /\ z.cmd = c.cmd /\ z.head = c.head
             /\ z.mods = h.mods /\ z.caps_lock = h.caps_lock
             /\ c.len = VC_KEY_QUEUE => z.keyq = c.keyq /\ z.len = c.len /\ z.isr = c.isr
             /\ c.len # VC_KEY_QUEUE =>
                   /\ z.keyq = [c.keyq EXCEPT ![(c.head + c.len) % VC_KEY_QUEUE] = <<u, key_char(h, u) + (IF on THEN 0 ELSE 128)>>]
                   /\ z.len = c.len + 1 /\ z.isr = c.isr \cup {"INPUT"}
<1> DEFINE h == Held(c, u, on)
           kc == <<u, key_char(h, u) + (IF on THEN 0 ELSE 128)>>
           at == (c.head + c.len) % VC_KEY_QUEUE
           e == [h EXCEPT !.keyq[(h.head + h.len) % VC_KEY_QUEUE] = kc, !.len = @ + 1]
<1>1. vc_key(c, u, on) = IF h.len = VC_KEY_QUEUE THEN h ELSE Raise(e, "INPUT")
  BY DEF vc_key
<1>2. /\ IsCard(h) /\ SameMouse(c, h) /\ h.keyq = c.keyq /\ h.head = c.head /\ h.len = c.len
      /\ h.isr = c.isr /\ h.cmd = c.cmd
  BY HeldKeepsQueue
<1> HIDE DEF h, kc
<1>3. /\ IsCard(e) /\ SameMouse(c, e) /\ e.keyq = [c.keyq EXCEPT ![at] = kc] /\ e.head = c.head /\ e.len = c.len + 1
      /\ e.isr = c.isr /\ e.cmd = c.cmd /\ e.mods = h.mods /\ e.caps_lock = h.caps_lock
  BY <1>2 DEF IsCard, CardFields, SameMouse
<1> HIDE DEF e
<1>4. CASE c.len = VC_KEY_QUEUE
  BY <1>1, <1>2, <1>4 DEF h
<1>5. CASE c.len # VC_KEY_QUEUE
  <2> DEFINE z == Raise(e, "INPUT")
  <2>1. vc_key(c, u, on) = z
    BY <1>1, <1>2, <1>5
  <2>2. /\ IsCard(z) /\ SameMouse(c, z) /\ z.keyq = [c.keyq EXCEPT ![at] = kc] /\ z.head = c.head /\ z.len = c.len + 1
        /\ z.isr = c.isr \cup {"INPUT"} /\ z.cmd = c.cmd /\ z.mods = h.mods /\ z.caps_lock = h.caps_lock
    BY <1>3 DEF Raise, IsCard, CardFields, SameMouse
  <2> HIDE DEF z
  <2> QED
    BY <1>5, <2>1, <2>2 DEF h, kc
<1> QED
  BY <1>4, <1>5

\* A line begun flags what begins with it; the pointer's sprite is only memory.
LEMMA LineBegun ==
  ASSUME NEW c, IsCard(c), NEW n
  PROVE  LET z == vc_begin_line(c, n)
         IN  /\ SameInput(c, z) /\ z.cmd = c.cmd /\ z.irq_line = c.irq_line
             /\ c.isr \subseteq z.isr
             /\ n = VC_HEIGHT => "VSYNC" \in z.isr
             /\ n = c.irq_line => "LINE" \in z.isr
<1> DEFINE e == [c EXCEPT !.line = n]
           v == IF n = VC_HEIGHT THEN Raise([e EXCEPT !.frame = (@ + 1) % 256], "VSYNC") ELSE e
           p == IF n = VC_HEIGHT /\ c.pointer THEN move_pointer(v) ELSE v
           Same(z) == SameInput(c, z) /\ z.cmd = c.cmd /\ z.irq_line = c.irq_line
<1>1. vc_begin_line(c, n) = IF n = c.irq_line THEN Raise(p, "LINE") ELSE p
  BY DEF vc_begin_line
<1>2. Same(e) /\ e.isr = c.isr
  BY DEF IsCard, CardFields, SameInput, SameKeys, SameMouse
<1> HIDE DEF e
<1>3. Same(v) /\ v.isr = IF n = VC_HEIGHT THEN c.isr \cup {"VSYNC"} ELSE c.isr
  BY <1>2 DEF Raise, IsCard, CardFields, SameInput, SameKeys, SameMouse
<1> HIDE DEF v
<1>4. Same(p) /\ p.isr = v.isr
  <2>1. \E m : move_pointer(v) = [v EXCEPT !.mem = m]
    BY ZenonT(60) DEF move_pointer
  <2>2. Same(move_pointer(v)) /\ move_pointer(v).isr = v.isr
    BY <1>3, <2>1 DEF IsCard, CardFields, SameInput, SameKeys, SameMouse
  <2> QED
    BY <1>3, <2>2
<1> HIDE DEF p
<1>5. Same(Raise(p, "LINE")) /\ Raise(p, "LINE").isr = p.isr \cup {"LINE"}
  BY <1>4 DEF Raise, IsCard, CardFields, SameInput, SameKeys, SameMouse
<1> QED
  BY <1>1, <1>3, <1>4, <1>5

-----------------------------------------------------------------------------
(* The inductive invariant                                                 *)

Scenes == [kind : Lines] \cup DrawScenes \cup PictureScenes

\* An event that has not been answered is flagged; of a command at most the first
\* byte of COLOR waits for its parameter; a scene of drawing has no events.
FlagInv ==
  /\ scene \in Scenes /\ IsCard(d.c)
  /\ since \subseteq d.c.isr
  /\ scene.kind \in Lines => d.c.cmd \in {<<>>, << 2 >>}
  /\ scene.kind \notin Lines => since = {} /\ typed = <<>>

\* The ring of keys holds what was typed.
RingInv(c, s) ==
  /\ s \in Seq(Nat \X Nat) /\ c.len = Len(s) /\ c.len <= VC_KEY_QUEUE
  /\ c.head \in 0 .. VC_KEY_QUEUE - 1 /\ DOMAIN c.keyq = 0 .. VC_KEY_QUEUE - 1
  /\ \A i \in 1 .. Len(s) : c.keyq[(c.head + i - 1) % VC_KEY_QUEUE] = s[i]

\* The card's modifiers are the keys held.
KeysUsed == {KeyA, Enter, Caps, LCtrl, RShift}
ModsOf(held) == {key - 224 : key \in held \cap 224 .. 231}
ModsInv ==
  Live("keys") => /\ down \subseteq KeysUsed
                  /\ d.c.mods = ModsOf(down) /\ d.c.caps_lock = (Caps \in down)

\* What has been read of a position is of the one the card took down at its first byte.
MouseInv ==
  /\ was \subseteq Places /\ d.c.mouse \in was /\ d.c.snap \in was
  /\ DOMAIN prog = {"isr", "mouse"} /\ prog.mouse \in Seq(Int) /\ Len(prog.mouse) <= 4
  /\ Len(prog.mouse) >= 1 => prog.mouse[1] = d.c.snap[1] \div 256
  /\ Len(prog.mouse) >= 2 => prog.mouse[2] = d.c.snap[1] % 256
  /\ Len(prog.mouse) >= 3 => prog.mouse[3] = d.c.snap[2] \div 256
  /\ Len(prog.mouse) >= 4 => prog.mouse[4] = d.c.snap[2] % 256
  /\ d.c.wheel \in -128 .. 127

Inv == FrameInv(d) /\ FlagInv /\ RingInv(d.c, typed) /\ ModsInv /\ MouseInv
Input == RingInv(d.c, typed) /\ ModsInv /\ MouseInv

\* What leaves the card's input alone keeps what is said of it.
LEMMA InputKept ==
  ASSUME Inv, SameInput(d.c, d'.c), UNCHANGED <<scene, typed, down, was>>,
         DOMAIN prog' = DOMAIN prog, prog'.mouse = prog.mouse
  PROVE  Input'
<1>1. RingInv(d'.c, typed')
  BY DEF Inv, RingInv, SameInput, SameKeys
<1>2. ModsInv'
  BY DEF Inv, ModsInv, SameInput, SameKeys, Live
<1>3. MouseInv'
  BY DEF Inv, MouseInv, SameInput, SameMouse
<1> QED
  BY <1>1, <1>2, <1>3 DEF Input

\* The byte of a set of flags names its flags.
LEMMA FlagsOfByte ==
  ASSUME NEW s PROVE Flags(FlagByte(s)) \subseteq s
<1> DEFINE a == MaskOf(s, "VSYNC")
           b == MaskOf(s, "LINE")
           e == MaskOf(s, "CMDDONE")
           g == MaskOf(s, "INPUT")
           v == a + b + e + g
<1>1. /\ a = (IF "VSYNC" \in s THEN 1 ELSE 0) /\ b = (IF "LINE" \in s THEN 2 ELSE 0)
      /\ e = (IF "CMDDONE" \in s THEN 4 ELSE 0) /\ g = (IF "INPUT" \in s THEN 8 ELSE 0)
  BY DEF MaskOf, VC_IRQ
<1>2. /\ (v \div 1) % 2 = a
      /\ (v \div 2) % 2 = b \div 2
      /\ (v \div 4) % 2 = e \div 4
      /\ (v \div 8) % 2 = g \div 8
  BY <1>1
<1>3. FlagByte(s) = v
  BY DEF FlagByte
<1> HIDE DEF v, a, b, e, g
<1>4. /\ DOMAIN VC_IRQ = {"VSYNC", "LINE", "CMDDONE", "INPUT"}
      /\ VC_IRQ["VSYNC"] = 1 /\ VC_IRQ["LINE"] = 2 /\ VC_IRQ["CMDDONE"] = 4 /\ VC_IRQ["INPUT"] = 8
  BY DEF VC_IRQ
<1>5. ASSUME NEW f \in Flags(v) PROVE f \in s
  <2>1. f \in {"VSYNC", "LINE", "CMDDONE", "INPUT"} /\ (v \div VC_IRQ[f]) % 2 = 1
    BY <1>4, <1>5 DEF Flags
  <2>2. CASE f = "VSYNC"
    BY <1>1, <1>2, <1>4, <2>1, <2>2
  <2>3. CASE f = "LINE"
    BY <1>1, <1>2, <1>4, <2>1, <2>3
  <2>4. CASE f = "CMDDONE"
    BY <1>1, <1>2, <1>4, <2>1, <2>4
  <2>5. CASE f = "INPUT"
    BY <1>1, <1>2, <1>4, <2>1, <2>5
  <2> QED
    BY <2>1, <2>2, <2>3, <2>4, <2>5
<1> QED
  BY <1>3, <1>5

\* The handler reads the flags, and clears those it has read and no other.
LEMMA ReadIsrStep ==
  ASSUME Inv, ReadIsr
  PROVE  FlagInv' /\ Input'
<1> DEFINE z == vc_read(d.c, 15)
<1>1. d' = [d EXCEPT !.c = z] /\ prog' = [prog EXCEPT !.isr = Flags(z.out)] /\ UNCHANGED <<scene, since, typed, down, was>>
  BY DEF ReadIsr, Card
<1>2. SameInput(d.c, z) /\ z.isr = d.c.isr /\ z.cmd = d.c.cmd
  BY ReadFlags DEF Inv, FlagInv
<1> HIDE DEF z
<1>3. d'.c = z
  BY <1>1 DEF Inv, FrameInv
<1>4. DOMAIN prog' = DOMAIN prog /\ prog'.mouse = prog.mouse
  BY <1>1 DEF Inv, MouseInv
<1>5. Input'
  BY <1>1, <1>2, <1>3, <1>4, InputKept
<1>6. FlagInv'
  BY <1>1, <1>2, <1>3 DEF Inv, FlagInv, SameInput, IsCard
<1> QED
  BY <1>5, <1>6

\* The clearing.
LEMMA ClearIsrStep ==
  ASSUME Inv, ClearIsr
  PROVE  FlagInv' /\ Input'
<1> DEFINE v == FlagByte(prog.isr)
           z == vc_write(d.c, 15, v)
<1>1. /\ d' = [d EXCEPT !.active = TRUE, !.c = z] /\ prog' = [prog EXCEPT !.isr = {}]
      /\ since' = since \ prog.isr /\ UNCHANGED <<scene, typed, down, was>> /\ scene.kind \in Lines
  BY DEF ClearIsr, device_write
<1>2. SameInput(d.c, z) /\ z.isr = d.c.isr \ Flags(v) /\ z.cmd = d.c.cmd
  BY WriteFlags DEF Inv, FlagInv
<1>3. Flags(v) \subseteq prog.isr
  BY FlagsOfByte
<1> HIDE DEF z, v
<1>4. d'.c = z
  BY <1>1 DEF Inv, FrameInv
<1>5. DOMAIN prog' = DOMAIN prog /\ prog'.mouse = prog.mouse
  BY <1>1 DEF Inv, MouseInv
<1>6. Input'
  BY <1>1, <1>2, <1>4, <1>5, InputKept
<1>7. FlagInv'
  BY <1>1, <1>2, <1>3, <1>4 DEF Inv, FlagInv, SameInput, IsCard
<1> QED
  BY <1>6, <1>7

\* A tick begins its lines: each flags what begins with it.
LEMMA BeginLine ==
  ASSUME NEW e, FrameInv(e), IsCard(e.c), NEW wanted
  PROVE  LET b == begin_line(e, wanted)
             n == e.lines % VC_LINES
         IN  /\ SameInput(e.c, b.c) /\ b.c.cmd = e.c.cmd /\ b.c.irq_line = e.c.irq_line
             /\ b.lines = e.lines + 1
             /\ e.c.isr \subseteq b.c.isr
             /\ n = VC_HEIGHT => "VSYNC" \in b.c.isr
             /\ n = e.c.irq_line => "LINE" \in b.c.isr
<1> DEFINE b == begin_line(e, wanted)
           n == e.lines % VC_LINES
<1>1. b.c = vc_begin_line(e.c, n) /\ b.lines = e.lines + 1
  BY DEF begin_line, FrameInv
<1> HIDE DEF n, b
<1>2. LET z == vc_begin_line(e.c, n)
      IN  /\ SameInput(e.c, z) /\ z.cmd = e.c.cmd /\ z.irq_line = e.c.irq_line
          /\ e.c.isr \subseteq z.isr
          /\ n = VC_HEIGHT => "VSYNC" \in z.isr
          /\ n = e.c.irq_line => "LINE" \in z.isr
  BY LineBegun
<1> QED
  BY <1>1, <1>2 DEF n, b

\* One or two lines due: what the lines of the tick are flagged for is what has happened.
LEMMA BeamStep ==
  ASSUME Inv, BeamMoves
  PROVE  FlagInv' /\ Input'
<1>1. PICK due \in 1 .. 2, wanted \in BOOLEAN :
        /\ d' = tick(d, due, wanted)
        /\ since' = since \cup (IF VC_HEIGHT \in {(d.lines + k) % VC_LINES : k \in 0 .. due - 1} THEN {"VSYNC"} ELSE {})
                         \cup (IF d.c.irq_line \in {(d.lines + k) % VC_LINES : k \in 0 .. due - 1} THEN {"LINE"} ELSE {})
  BY DEF BeamMoves
<1>2. UNCHANGED <<scene, prog, typed, down, was>> /\ scene.kind \in Lines
  BY DEF BeamMoves, Lines
<1>3. FrameInv(d) /\ IsCard(d.c) /\ d.lines \in Nat
  BY DEF Inv, FlagInv, FrameInv
<1> DEFINE b == begin_line(d, wanted)
           g == begin_line(b, wanted)
           n == d.lines % VC_LINES
           m == (d.lines + 1) % VC_LINES
<1>4. /\ SameInput(d.c, b.c) /\ b.c.cmd = d.c.cmd /\ b.c.irq_line = d.c.irq_line /\ b.lines = d.lines + 1
      /\ d.c.isr \subseteq b.c.isr
      /\ n = VC_HEIGHT => "VSYNC" \in b.c.isr
      /\ n = d.c.irq_line => "LINE" \in b.c.isr
  BY <1>3, BeginLine
<1>5. FrameInv(b) /\ IsCard(b.c)
  BY <1>3, <1>4, LineKeepsFrames DEF SameInput
<1>6. /\ SameInput(b.c, g.c) /\ g.c.cmd = b.c.cmd
      /\ b.c.isr \subseteq g.c.isr
      /\ m = VC_HEIGHT => "VSYNC" \in g.c.isr
      /\ m = b.c.irq_line => "LINE" \in g.c.isr
  <2> HIDE DEF b
  <2> QED
    BY <1>4, <1>5, BeginLine
<1>7. (due = 1 /\ d' = b) \/ (due = 2 /\ d' = g)
  <2>1. due = 1 \/ due = 2
    OBVIOUS
  <2> QED
    BY <1>1, <2>1, TickOnce
<1> HIDE DEF b, g
<1>8. SameInput(d.c, d'.c) /\ d'.c.cmd = d.c.cmd /\ d.c.isr \subseteq d'.c.isr
  BY <1>4, <1>6, <1>7 DEF SameInput, SameKeys, SameMouse
<1>9. ASSUME NEW x, x \in {(d.lines + k) % VC_LINES : k \in 0 .. due - 1}
      PROVE  x = n \/ (due = 2 /\ x = m)
  <2>1. PICK k \in 0 .. due - 1 : x = (d.lines + k) % VC_LINES
    BY <1>9
  <2>2. k = 0 \/ (due = 2 /\ k = 1)
    OBVIOUS
  <2>3. d.lines + 0 = d.lines
    BY <1>3
  <2> QED
    BY <2>1, <2>2, <2>3
<1> HIDE DEF n, m
<1>10. VC_HEIGHT \in {(d.lines + k) % VC_LINES : k \in 0 .. due - 1} => "VSYNC" \in d'.c.isr
  BY <1>4, <1>6, <1>7, <1>9
<1>11. d.c.irq_line \in {(d.lines + k) % VC_LINES : k \in 0 .. due - 1} => "LINE" \in d'.c.isr
  <2> SUFFICES ASSUME d.c.irq_line \in {(d.lines + k) % VC_LINES : k \in 0 .. due - 1}
               PROVE  "LINE" \in d'.c.isr
    OBVIOUS
  <2>1. d.c.irq_line = n \/ (due = 2 /\ d.c.irq_line = m)
    BY <1>9, Zenon
  <2>2. d.c.irq_line = n => "LINE" \in b.c.isr
    BY <1>4
  <2>3. d.c.irq_line = m => "LINE" \in g.c.isr
    BY <1>4, <1>6
  <2> QED
    BY <1>6, <1>7, <2>1, <2>2, <2>3
<1>12. since' \subseteq d'.c.isr
  BY <1>1, <1>8, <1>10, <1>11 DEF Inv, FlagInv
<1>13. Input'
  BY <1>2, <1>8, InputKept
<1>14. FlagInv'
  BY <1>2, <1>8, <1>12 DEF Inv, FlagInv, SameInput, IsCard
<1> QED
  BY <1>13, <1>14

\* The machine's reset, and the card's own: nothing is flagged or queued any more.
LEMMA ResetInput ==
  ASSUME Inv, SameInput(vc_reset(d.c), d'.c), d'.c.cmd = <<>>, since' = {}, typed' = <<>>,
         UNCHANGED <<scene, down, was>>, DOMAIN prog' = DOMAIN prog, prog'.mouse = prog.mouse
  PROVE  FlagInv' /\ Input'
<1> DEFINE z == vc_reset(d.c)
<1>1. /\ z.head = 0 /\ z.len = 0 /\ z.wheel = 0
      /\ z.keyq = d.c.keyq /\ z.mods = d.c.mods /\ z.caps_lock = d.c.caps_lock
      /\ z.mouse = d.c.mouse /\ z.snap = d.c.snap
  BY ResetCard DEF Inv, FlagInv
<1> HIDE DEF z
<1>2. SameInput(z, d'.c)
  BY DEF z
<1>3. RingInv(d'.c, typed')
  <2>1. 0 \in 0 .. VC_KEY_QUEUE - 1 /\ 0 <= VC_KEY_QUEUE
    BY CardConstants
  <2>2. typed' \in Seq(Nat \X Nat) /\ Len(typed') = 0
    OBVIOUS
  <2>3. DOMAIN d'.c.keyq = 0 .. VC_KEY_QUEUE - 1 /\ d'.c.head = 0 /\ d'.c.len = 0
    BY <1>1, <1>2 DEF Inv, RingInv, SameInput, SameKeys
  <2>4. 1 .. Len(typed') = {}
    BY <2>2
  <2> QED
    BY <2>1, <2>2, <2>3, <2>4 DEF RingInv
<1>4. ModsInv'
  BY <1>1, <1>2 DEF Inv, ModsInv, SameInput, SameKeys, Live
<1>5. MouseInv'
  BY <1>1, <1>2 DEF Inv, MouseInv, SameInput, SameMouse
<1>6. FlagInv'
  BY <1>2 DEF Inv, FlagInv, SameInput, IsCard
<1> QED
  BY <1>3, <1>4, <1>5, <1>6 DEF Input

\* The card of a device after the machine's reset.
LEMMA ResetDevice ==
  ASSUME NEW e, FrameInv(e), IsCard(e.c), NEW wanted
  PROVE  LET z == device_reset(e, wanted).c
         IN  SameInput(vc_reset(e.c), z) /\ z.cmd = <<>>
<1> DEFINE c0 == [vc_reset(e.c) EXCEPT !.line = 0, !.frame = 0]
           e0 == [e EXCEPT !.c = c0, !.lines = 0, !.active = FALSE, !.drawing = FALSE]
           b == begin_line(e0, wanted)
<1>1. SameInput(vc_reset(e.c), c0) /\ c0.cmd = <<>>
  <2>1. IsCard(vc_reset(e.c)) /\ vc_reset(e.c).cmd = <<>>
    BY ResetCard
  <2> QED
    BY <2>1 DEF IsCard, CardFields, SameInput, SameKeys, SameMouse
<1>2. device_reset(e, wanted) = b
  BY TickOnce DEF device_reset
<1> HIDE DEF c0
<1>3. FrameInv(e0) /\ e0.c = c0
  BY DEF FrameInv
<1> HIDE DEF e0
<1>4. SameInput(e0.c, b.c) /\ b.c.cmd = e0.c.cmd
  BY <1>1, <1>3, BeginLine DEF SameInput
<1> HIDE DEF b
<1> QED
  BY <1>1, <1>2, <1>3, <1>4 DEF SameInput, SameKeys, SameMouse

\* The step of the reset.
LEMMA ResetStep ==
  ASSUME Inv, MachineReset
  PROVE  FlagInv' /\ Input'
<1>1. /\ d' = device_reset(d, TRUE) /\ since' = {} /\ typed' = <<>>
      /\ UNCHANGED <<scene, down, was>> /\ prog' = [prog EXCEPT !.isr = {}]
  BY DEF MachineReset
<1>2. DOMAIN prog' = DOMAIN prog /\ prog'.mouse = prog.mouse
  BY <1>1 DEF Inv, MouseInv
<1>3. SameInput(vc_reset(d.c), d'.c) /\ d'.c.cmd = <<>>
  BY <1>1, ResetDevice DEF Inv, FlagInv
<1> QED
  BY <1>1, <1>2, <1>3, ResetInput

\* A command byte: a command of no parameter or the parameter of the one begun
\* finishes it, which is flagged; the first byte of COLOR waits for the second.
LEMMA CommandBytes ==
  ASSUME NEW c, IsCard(c), c.cmd \in {<<>>, << 2 >>}, NEW v \in {0, 200, 2}
  PROVE  LET z == vc_write(c, 18, v)
         IN  /\ SameInput(c, z) /\ c.isr \subseteq z.isr /\ z.cmd \in {<<>>, << 2 >>}
             /\ c.cmd # <<>> \/ v # 2 => "CMDDONE" \in z.isr
<1> DEFINE z == command_byte(c, v)
           cmd == Append(c.cmd, v)
<1>1. vc_write(c, 18, v) = z
  BY Registers, SMTT(60) DEF vc_write
<1>2. /\ SameInput(c, z)
      /\ \/ Len(cmd) <= Params(cmd[1]) /\ z.isr = c.isr /\ z.cmd = cmd
         \/ ~(Len(cmd) <= Params(cmd[1])) /\ z.isr = c.isr \cup {"CMDDONE"} /\ z.cmd = <<>>
  BY ByteKeepsInput
<1>3. Params(0) = 0 /\ Params(200) = 0 /\ Params(2) = 1
  BY DEF Params, k_params
<1>4. CASE c.cmd = << 2 >>
  <2>1. cmd[1] = 2 /\ Len(cmd) = 2
    BY <1>4
  <2> HIDE DEF z, cmd
  <2> QED
    BY <1>1, <1>2, <1>3, <2>1
<1>5. CASE c.cmd = <<>> /\ v # 2
  <2>1. cmd[1] = v /\ Len(cmd) = 1
    BY <1>5
  <2>2. Params(v) = 0
    BY <1>3, <1>5
  <2> HIDE DEF z, cmd
  <2> QED
    BY <1>1, <1>2, <2>1, <2>2
<1>6. CASE c.cmd = <<>> /\ v = 2
  <2>1. cmd = << 2 >> /\ cmd[1] = 2 /\ Len(cmd) = 1
    BY <1>6
  <2> HIDE DEF z, cmd
  <2> QED
    BY <1>1, <1>2, <1>3, <1>6, <2>1
<1> QED
  BY <1>4, <1>5, <1>6

\* A setting: an enable, a line, IN_CTRL, a command byte, memory or the reset.
LEMMA SettingStep ==
  ASSUME Inv, WriteSetting
  PROVE  FlagInv' /\ Input'
<1>1. /\ scene.kind \in Lines /\ UNCHANGED <<scene, prog, down, was>>
  BY DEF WriteSetting
<1>2. PICK s \in Settings[scene.kind] :
        /\ d' = device_write(d, s[1], s[2])
        /\ since' = IF s = <<12, 128>> THEN {}
                    ELSE IF s[1] = 18 /\ (d.c.cmd # <<>> \/ s[2] # 2) THEN since \cup {"CMDDONE"} ELSE since
        /\ typed' = IF s \in {<<20, 130>>, <<12, 128>>} THEN <<>> ELSE typed
  BY DEF WriteSetting
<1>3. s \in {<<14, 8>>, <<20, 2>>, <<20, 130>>, <<12, 128>>, <<20, 1>>, <<14, 3>>, <<17, 1>>, <<17, 2>>,
             <<18, 0>>, <<18, 200>>, <<18, 2>>, <<5, 9>>}
  BY <1>1, <1>2, SMTT(60) DEF Settings, Lines
<1>4. /\ s = <<12, 128>> <=> s[1] = 12
      /\ s \in {<<20, 130>>, <<12, 128>>} <=> s[2] \in {130, 128}
      /\ s[1] \in {14, 20, 12, 17, 18, 5} /\ s[2] \in Nat
      /\ s[1] = 12 => s[2] = 128
      /\ s[1] = 20 => s[2] \in {1, 2, 130}
      /\ s[1] = 18 => s[2] \in {0, 200, 2}
      /\ s[1] \in {14, 17, 5} => s[2] \notin {130, 128}
  BY <1>3, SMTT(60)
<1> DEFINE r == s[1]
           v == s[2]
           z == vc_write(d.c, r, v)
<1>5. d' = [d EXCEPT !.active = TRUE, !.c = z]
  BY <1>2 DEF device_write
<1>6. IsCard(d.c) /\ since \subseteq d.c.isr /\ d.c.cmd \in {<<>>, << 2 >>}
  BY <1>1 DEF Inv, FlagInv
<1>7. /\ since' = IF r = 12 THEN {} ELSE IF r = 18 /\ (d.c.cmd # <<>> \/ v # 2) THEN since \cup {"CMDDONE"} ELSE since
      /\ typed' = IF v \in {130, 128} THEN <<>> ELSE typed
  BY <1>2, <1>4
<1>8. d'.c = z
  <2> HIDE DEF z
  <2> QED
    BY <1>5 DEF Inv, FrameInv
<1>9. /\ r \in {14, 20, 12, 17, 18, 5} /\ v \in Nat
      /\ r = 12 => v = 128
      /\ r = 20 => v \in {1, 2, 130}
      /\ r = 18 => v \in {0, 200, 2}
      /\ r \in {14, 17, 5} => v \notin {130, 128}
  BY <1>4
<1> HIDE DEF r, v
<1>10. CASE r \in {14, 17, 5}
  <2>1. SameInput(d.c, z) /\ z.isr = d.c.isr /\ z.cmd = d.c.cmd
    BY <1>6, <1>10, WriteOther
  <2>2. since' = since /\ typed' = typed
    BY <1>7, <1>9, <1>10
  <2> HIDE DEF z
  <2>3. Input'
    BY <1>1, <1>8, <2>1, <2>2, InputKept
  <2> QED
    BY <1>1, <1>6, <1>8, <2>1, <2>2, <2>3 DEF Inv, FlagInv, SameInput
<1>11. CASE r = 18
  <2>1. /\ SameInput(d.c, z) /\ d.c.isr \subseteq z.isr /\ z.cmd \in {<<>>, << 2 >>}
        /\ d.c.cmd # <<>> \/ v # 2 => "CMDDONE" \in z.isr
    BY <1>6, <1>9, <1>11, CommandBytes
  <2>2. typed' = typed /\ since' \subseteq z.isr
    <3> HIDE DEF z
    <3> QED
      BY <1>6, <1>7, <1>9, <1>11, <2>1
  <2> HIDE DEF z
  <2>3. Input'
    BY <1>1, <1>8, <2>1, <2>2, InputKept
  <2> QED
    BY <1>1, <1>8, <2>1, <2>2, <2>3 DEF Inv, FlagInv, SameInput
<1>12. CASE r = 12
  <2>1. z = vc_reset(d.c)
    BY <1>6, <1>9, <1>12, WriteReset
  <2>2. IsCard(z) /\ z.cmd = <<>>
    BY <1>6, <2>1, ResetCard
  <2>3. since' = {} /\ typed' = <<>>
    BY <1>7, <1>9, <1>12
  <2>4. SameInput(vc_reset(d.c), d'.c) /\ d'.c.cmd = <<>>
    BY <1>8, <2>1, <2>2 DEF SameInput, SameKeys, SameMouse
  <2> QED
    BY <1>1, <2>3, <2>4, ResetInput
<1>13. CASE r = 20
  <2>1. /\ IsCard(z) /\ SameMouse(d.c, z) /\ z.isr = d.c.isr /\ z.cmd = d.c.cmd
        /\ z.keyq = d.c.keyq /\ z.mods = d.c.mods /\ z.caps_lock = d.c.caps_lock
        /\ z.head = (IF v >= 128 THEN 0 ELSE d.c.head)
        /\ z.len = (IF v >= 128 THEN 0 ELSE d.c.len)
    <3> DEFINE y == vc_write(d.c, 20, v)
    <3>1. z = y
      BY <1>13
    <3>2. /\ IsCard(y) /\ SameMouse(d.c, y) /\ y.isr = d.c.isr /\ y.cmd = d.c.cmd
          /\ y.keyq = d.c.keyq /\ y.mods = d.c.mods /\ y.caps_lock = d.c.caps_lock
          /\ y.head = (IF v >= 128 THEN 0 ELSE d.c.head)
          /\ y.len = (IF v >= 128 THEN 0 ELSE d.c.len)
      BY <1>6, <1>9, WriteInCtrl, ZenonT(60)
    <3> HIDE DEF y, z
    <3> QED
      BY <3>1, <3>2
  <2> HIDE DEF z
  <2>2. since' = since
    BY <1>7, <1>13
  <2>3. FlagInv'
    <3>1. typed = <<>> => typed' = <<>>
      BY <1>7
    <3> QED
      BY <1>1, <1>6, <1>8, <2>1, <2>2, <3>1 DEF Inv, FlagInv
  <2>4. ModsInv' /\ MouseInv'
    BY <1>1, <1>8, <2>1 DEF Inv, ModsInv, MouseInv, SameMouse, Live
  <2>5. CASE v = 130
    <3>1. 0 \in 0 .. VC_KEY_QUEUE - 1 /\ 0 <= VC_KEY_QUEUE
      BY CardConstants
    <3>2. typed' \in Seq(Nat \X Nat) /\ Len(typed') = 0 /\ 1 .. Len(typed') = {}
      BY <1>7, <2>5
    <3>3. DOMAIN d'.c.keyq = 0 .. VC_KEY_QUEUE - 1 /\ d'.c.head = 0 /\ d'.c.len = 0
      BY <1>8, <2>1, <2>5 DEF Inv, RingInv
    <3>4. RingInv(d'.c, typed')
      BY <3>1, <3>2, <3>3 DEF RingInv
    <3> QED
      BY <2>3, <2>4, <3>4 DEF Input
  <2>6. CASE v \in {1, 2}
    <3>1. typed' = typed /\ d'.c.head = d.c.head /\ d'.c.len = d.c.len
      BY <1>7, <1>8, <2>1, <2>6
    <3>2. RingInv(d'.c, typed')
      BY <1>8, <2>1, <3>1 DEF Inv, RingInv
    <3> QED
      BY <2>3, <2>4, <3>2 DEF Input
  <2> QED
    BY <1>9, <1>13, <2>5, <2>6
<1> QED
  BY <1>9, <1>10, <1>11, <1>12, <1>13

-----------------------------------------------------------------------------
(* The mouse                                                               *)

\* Whatever moves, clicks or turns is flagged, and the place it moves to remembered.
LEMMA MouseStep ==
  ASSUME Inv, MouseMoves
  PROVE  FlagInv' /\ Input'
<1>1. /\ Live("mouse") /\ UNCHANGED <<scene, prog, typed, down>> /\ was' = was \cup {d'.c.mouse}
      /\ since' = IF d'.c.mouse # d.c.mouse \/ d'.c.buttons # d.c.buttons \/ d'.c.wheel # d.c.wheel
                  THEN since \cup {"INPUT"} ELSE since
  BY DEF MouseMoves
<1>2. IsCard(d.c) /\ d.c.mouse \in Places /\ d.c.wheel \in -128 .. 127
  BY DEF Inv, FlagInv, MouseInv
<1> DEFINE Good(z) == /\ IsCard(z) /\ SameKeys(d.c, z) /\ z.snap = d.c.snap /\ z.cmd = d.c.cmd
                      /\ z.mouse \in Places /\ z.wheel \in -128 .. 127 /\ d.c.isr \subseteq z.isr
                      /\ z.mouse # d.c.mouse \/ z.buttons # d.c.buttons \/ z.wheel # d.c.wheel => "INPUT" \in z.isr
<1>3. ASSUME NEW x \in Int, NEW y \in Int, NEW b \in {0, 1} PROVE Good(vc_mouse_to(d.c, x, y, b))
  <2> DEFINE z == vc_mouse_to(d.c, x, y, b)
  <2>1. /\ IsCard(z) /\ SameKeys(d.c, z) /\ z.snap = d.c.snap /\ z.wheel = d.c.wheel /\ z.cmd = d.c.cmd
        /\ z.mouse \in Places /\ d.c.isr \subseteq z.isr
        /\ z.mouse # d.c.mouse \/ z.buttons # d.c.buttons => "INPUT" \in z.isr
    BY <1>2, MouseTo
  <2> HIDE DEF z
  <2>2. Good(z)
    BY <1>2, <2>1
  <2> QED
    BY <2>2 DEF z
<1>4. ASSUME NEW n \in {-100, 100} PROVE Good(vc_mouse_wheel(d.c, n))
  <2> DEFINE z == vc_mouse_wheel(d.c, n)
  <2>1. n \in Int /\ n # 0
    OBVIOUS
  <2>2. /\ IsCard(z) /\ SameKeys(d.c, z) /\ z.mouse = d.c.mouse /\ z.snap = d.c.snap /\ z.cmd = d.c.cmd
        /\ z.wheel \in -128 .. 127 /\ z.isr = d.c.isr \cup {"INPUT"}
    BY <1>2, <2>1, MouseWheel, ZenonT(60)
  <2> HIDE DEF z
  <2>3. Good(z)
    BY <1>2, <2>2
  <2> QED
    BY <2>3 DEF z
<1>5. Good(d'.c)
  <2>1. \/ \E to \in {<<1, 1>>, <<-5, 99>>}, b \in {0, 1} : d' = [d EXCEPT !.c = vc_mouse_to(d.c, to[1], to[2], b)]
        \/ \E by \in {<<2, 1>>, <<-1, 0>>} : d' = [d EXCEPT !.c = vc_mouse_to(d.c, d.c.mouse[1] + by[1], d.c.mouse[2] + by[2], 0)]
        \/ \E n \in {-100, 100} : d' = [d EXCEPT !.c = vc_mouse_wheel(d.c, n)]
    BY DEF MouseMoves, Card, vc_mouse_by
  <2>2. ASSUME NEW z, d' = [d EXCEPT !.c = z] PROVE d'.c = z
    BY <2>2 DEF Inv, FrameInv
  <2>3. ASSUME NEW to \in {<<1, 1>>, <<-5, 99>>}, NEW b \in {0, 1}, d' = [d EXCEPT !.c = vc_mouse_to(d.c, to[1], to[2], b)]
        PROVE  Good(d'.c)
    <3>1. to[1] \in Int /\ to[2] \in Int
      OBVIOUS
    <3> HIDE DEF Good
    <3> QED
      BY <1>3, <2>2, <2>3, <3>1
  <2>4. ASSUME NEW by \in {<<2, 1>>, <<-1, 0>>},
               d' = [d EXCEPT !.c = vc_mouse_to(d.c, d.c.mouse[1] + by[1], d.c.mouse[2] + by[2], 0)]
        PROVE  Good(d'.c)
    <3> DEFINE x == d.c.mouse[1] + by[1]
               y == d.c.mouse[2] + by[2]
    <3>1. by[1] \in Int /\ by[2] \in Int
      OBVIOUS
    <3>2. x \in Int /\ y \in Int
      BY <1>2, <3>1 DEF Places
    <3>3. d' = [d EXCEPT !.c = vc_mouse_to(d.c, x, y, 0)]
      BY <2>4
    <3> HIDE DEF Good, x, y
    <3> QED
      BY <1>3, <2>2, <3>2, <3>3
  <2>5. ASSUME NEW n \in {-100, 100}, d' = [d EXCEPT !.c = vc_mouse_wheel(d.c, n)]
        PROVE  Good(d'.c)
    <3> HIDE DEF Good
    <3> QED
      BY <1>4, <2>2, <2>5
  <2> HIDE DEF Good
  <2> QED
    BY <2>1, <2>3, <2>4, <2>5
<1>6. RingInv(d'.c, typed')
  BY <1>1, <1>5 DEF Inv, RingInv, SameKeys
<1>7. ModsInv'
  BY <1>1, <1>5, SMTT(60) DEF Inv, ModsInv, SameKeys, Live
<1>8. MouseInv'
  BY <1>1, <1>5 DEF Inv, MouseInv
<1>9. FlagInv'
  <2>1. since' \subseteq d'.c.isr
    BY <1>1, <1>5 DEF Inv, FlagInv
  <2> QED
    BY <1>1, <1>5, <2>1 DEF Inv, FlagInv, Live, Lines
<1> QED
  BY <1>6, <1>7, <1>8, <1>9 DEF Input

\* The wheel is read.
LEMMA ReadWheelStep ==
  ASSUME Inv, ReadWheel
  PROVE  FlagInv' /\ Input'
<1> DEFINE z == vc_read(d.c, 26)
<1>1. d' = [d EXCEPT !.c = z] /\ UNCHANGED <<scene, prog, since, typed, down, was>>
  BY DEF ReadWheel, Card
<1>2. /\ IsCard(z) /\ SameKeys(d.c, z) /\ z.mouse = d.c.mouse /\ z.snap = d.c.snap
      /\ z.wheel = 0 /\ z.isr = d.c.isr /\ z.cmd = d.c.cmd
  BY ReadClicks DEF Inv, FlagInv
<1> HIDE DEF z
<1>3. d'.c = z
  BY <1>1 DEF Inv, FrameInv
<1>4. RingInv(d'.c, typed')
  BY <1>1, <1>2, <1>3, SMTT(60) DEF Inv, RingInv, SameKeys
<1>5. ModsInv'
  BY <1>1, <1>2, <1>3 DEF Inv, ModsInv, SameKeys, Live
<1>6. MouseInv'
  BY <1>1, <1>2, <1>3, SMTT(60) DEF Inv, MouseInv
<1>7. FlagInv'
  BY <1>1, <1>2, <1>3 DEF Inv, FlagInv
<1> QED
  BY <1>4, <1>5, <1>6, <1>7 DEF Input

\* The bytes of a position are read of the one taken down with the first of them.
LEMMA ReadMouseStep ==
  ASSUME Inv, ReadMouse
  PROVE  FlagInv' /\ Input'
<1> DEFINE L == Len(prog.mouse)
           i == L % 4
           z == vc_read(d.c, 21 + i)
<1>1. /\ d' = [d EXCEPT !.c = z] /\ UNCHANGED <<scene, since, typed, down, was>>
      /\ prog' = [prog EXCEPT !.mouse = IF L = 4 THEN <<z.out>> ELSE Append(@, z.out)]
  BY DEF ReadMouse, Card
<1>2. L \in 0 .. 4 /\ prog.mouse \in Seq(Int)
  <2>1. prog.mouse \in Seq(Int) /\ L <= 4
    BY DEF Inv, MouseInv
  <2>2. L \in Nat
    BY <2>1
  <2> HIDE DEF L
  <2> QED
    BY <2>1, <2>2
<1>3. i \in 0 .. 3 /\ i = (IF L = 4 THEN 0 ELSE L)
  <2> HIDE DEF L
  <2>1. L = 0 \/ L = 1 \/ L = 2 \/ L = 3 \/ L = 4
    BY <1>2
  <2> QED
    BY <2>1
<1> HIDE DEF i
<1>4. /\ IsCard(z) /\ SameKeys(d.c, z) /\ z.mouse = d.c.mouse /\ z.wheel = d.c.wheel /\ z.isr = d.c.isr /\ z.cmd = d.c.cmd
      /\ z.snap = (IF i = 0 THEN d.c.mouse ELSE d.c.snap)
      /\ z.out = (CASE i = 0 -> d.c.mouse[1] \div 256
                    [] i = 1 -> d.c.snap[1] % 256
                    [] i = 2 -> d.c.snap[2] \div 256
                    [] i = 3 -> d.c.snap[2] % 256)
  <2>1. IsCard(d.c) /\ i \in 0 .. 3
    BY <1>3 DEF Inv, FlagInv
  <2> QED
    BY <2>1, ReadPosition, ZenonT(90)
<1> HIDE DEF z
<1>5. d'.c = z
  BY <1>1 DEF Inv, FrameInv
<1>6. d.c.mouse \in Places /\ d.c.snap \in Places
  BY DEF Inv, MouseInv
<1> DEFINE m == IF L = 4 THEN <<z.out>> ELSE Append(prog.mouse, z.out)
<1>7. DOMAIN prog' = DOMAIN prog /\ prog'.mouse = m
  BY <1>1 DEF Inv, MouseInv
<1>8. z.out \in Int
  BY <1>3, <1>4, <1>6, SMTT(60) DEF Places
<1>9. m \in Seq(Int) /\ Len(m) = i + 1 /\ m[i + 1] = z.out
  BY <1>2, <1>3, <1>8
<1>10. \A j \in 1 .. i : m[j] = prog.mouse[j]
  BY <1>2, <1>3, <1>8
<1> HIDE DEF m, L
<1>11. /\ L >= 1 => prog.mouse[1] = d.c.snap[1] \div 256
       /\ L >= 2 => prog.mouse[2] = d.c.snap[1] % 256
       /\ L >= 3 => prog.mouse[3] = d.c.snap[2] \div 256
  BY DEF Inv, MouseInv, L
<1>12. /\ Len(m) >= 1 => m[1] = z.snap[1] \div 256
       /\ Len(m) >= 2 => m[2] = z.snap[1] % 256
       /\ Len(m) >= 3 => m[3] = z.snap[2] \div 256
       /\ Len(m) >= 4 => m[4] = z.snap[2] % 256
  <2>1. CASE i = 0
    BY <1>4, <1>9, <2>1
  <2>2. CASE i = 1
    <3>1. L = 1 /\ z.snap = d.c.snap /\ Len(m) = 2 /\ m[1] = prog.mouse[1] /\ m[2] = d.c.snap[1] % 256
      BY <1>3, <1>4, <1>9, <1>10, <2>2, SMTT(60)
    <3> QED
      BY <1>11, <3>1
  <2>3. CASE i = 2
    <3>1. L = 2 /\ z.snap = d.c.snap /\ Len(m) = 3
      BY <1>3, <1>4, <1>9, <2>3
    <3>2. m[1] = prog.mouse[1] /\ m[2] = prog.mouse[2] /\ m[3] = d.c.snap[2] \div 256
      BY <1>4, <1>9, <1>10, <2>3
    <3> QED
      BY <1>11, <3>1, <3>2
  <2>4. CASE i = 3
    <3>1. L = 3 /\ z.snap = d.c.snap /\ Len(m) = 4
      BY <1>3, <1>4, <1>9, <2>4
    <3>2. m[1] = prog.mouse[1] /\ m[2] = prog.mouse[2] /\ m[3] = prog.mouse[3] /\ m[4] = d.c.snap[2] % 256
      BY <1>4, <1>9, <1>10, <2>4
    <3> QED
      BY <1>11, <3>1, <3>2
  <2> QED
    BY <1>3, <2>1, <2>2, <2>3, <2>4
<1>16. MouseInv'
  <2>1. was \subseteq Places /\ d.c.mouse \in was /\ d.c.snap \in was /\ DOMAIN prog = {"isr", "mouse"} /\ d.c.wheel \in -128 .. 127
    BY DEF Inv, MouseInv
  <2>2. d'.c.mouse = d.c.mouse /\ d'.c.wheel = d.c.wheel /\ d'.c.snap = z.snap /\ z.snap \in was /\ was' = was
    BY <1>1, <1>4, <1>5, <2>1
  <2>3. Len(m) <= 4
    BY <1>3, <1>9, SMTT(60)
  <2> QED
    BY <1>7, <1>9, <1>12, <2>1, <2>2, <2>3 DEF MouseInv
<1>13. RingInv(d'.c, typed')
  BY <1>1, <1>4, <1>5, SMTT(60) DEF Inv, RingInv, SameKeys
<1>14. ModsInv'
  BY <1>1, <1>4, <1>5 DEF Inv, ModsInv, SameKeys, Live
<1>15. FlagInv'
  BY <1>1, <1>4, <1>5 DEF Inv, FlagInv
<1> QED
  BY <1>13, <1>14, <1>15, <1>16 DEF Input

-----------------------------------------------------------------------------
(* The keyboard                                                            *)

\* A place of the ring, counted on from one of its own places.
LEMMA Wrapped ==
  ASSUME NEW q \in Nat \ {0}, NEW x \in 0 .. 2 * q - 1
  PROVE  x % q = IF x < q THEN x ELSE x - q
<1>1. CASE x < q
  <2>1. x = q * 0 + x /\ x \in 0 .. q - 1 /\ x \in Nat
    BY <1>1
  <2> QED
    BY <1>1, <2>1, Remainder
<1>2. CASE ~(x < q)
  <2>1. x = q * 1 + (x - q) /\ x - q \in 0 .. q - 1 /\ x \in Nat
    BY <1>2
  <2>2. x % q = x - q
    BY <2>1, Remainder
  <2> QED
    BY <1>2, <2>2
<1> QED
  BY <1>1, <1>2

\* The place behind n keys is none of theirs.
LEMMA PlaceBehind ==
  ASSUME NEW q \in Nat \ {0}, NEW h \in 0 .. q - 1, NEW n \in 0 .. q - 1
  PROVE  /\ (h + n) % q \in 0 .. q - 1
         /\ \A i \in 1 .. n : (h + i - 1) % q \in 0 .. q - 1 /\ (h + i - 1) % q # (h + n) % q
         /\ (h + (n + 1) - 1) % q = (h + n) % q
<1>1. h + n \in 0 .. 2 * q - 1 /\ h + (n + 1) - 1 = h + n
  OBVIOUS
<1>2. (h + n) % q = IF h + n < q THEN h + n ELSE (h + n) - q
  BY <1>1, Wrapped
<1>3. ASSUME NEW i \in 1 .. n PROVE (h + i - 1) % q \in 0 .. q - 1 /\ (h + i - 1) % q # (h + n) % q
  <2> DEFINE x == h + i - 1
  <2>1. x \in 0 .. 2 * q - 1 /\ x = h + (i - 1)
    OBVIOUS
  <2>2. x % q = IF x < q THEN x ELSE x - q
    BY <2>1, Wrapped
  <2> HIDE DEF x
  <2>3. x % q \in 0 .. q - 1 /\ x % q # (h + n) % q
    BY <1>2, <2>1, <2>2
  <2> QED
    BY <2>3 DEF x
<1>4. (h + n) % q \in 0 .. q - 1
  BY <1>1, <1>2
<1> QED
  BY <1>1, <1>3, <1>4

\* Counted from the second key, the places of the others are the same.
LEMMA PlaceAhead ==
  ASSUME NEW q \in Nat \ {0}, NEW h \in 0 .. q - 1, NEW i \in 1 .. q - 1
  PROVE  /\ (h + 1) % q \in 0 .. q - 1
         /\ (((h + 1) % q) + i - 1) % q = (h + (i + 1) - 1) % q
<1> DEFINE g == (h + 1) % q
           x == g + i - 1
           y == h + (i + 1) - 1
<1>1. h + 1 \in 0 .. 2 * q - 1
  OBVIOUS
<1>2. g = IF h + 1 < q THEN h + 1 ELSE (h + 1) - q
  BY <1>1, Wrapped
<1>3. g \in 0 .. q - 1
  <2> HIDE DEF g
  <2> QED
    BY <1>2
<1>4. x = g + (i - 1) /\ x \in 0 .. 2 * q - 1
  <2> HIDE DEF g
  <2> QED
    BY <1>3
<1>5. y = h + i /\ y \in 0 .. 2 * q - 1
  OBVIOUS
<1>6. x % q = IF x < q THEN x ELSE x - q
  BY <1>4, Wrapped
<1>7. y % q = IF y < q THEN y ELSE y - q
  BY <1>5, Wrapped
<1> HIDE DEF x, y, g
<1>8. x % q = y % q
  BY <1>2, <1>3, <1>4, <1>5, <1>6, <1>7
<1> QED
  BY <1>3, <1>8 DEF x, y, g

\* A key joins the ring behind the others.
LEMMA RingJoined ==
  ASSUME NEW c, NEW s, RingInv(c, s), c.len # VC_KEY_QUEUE, NEW e \in Nat \X Nat, NEW z,
         z.keyq = [c.keyq EXCEPT ![(c.head + c.len) % VC_KEY_QUEUE] = e], z.head = c.head, z.len = c.len + 1
  PROVE  RingInv(z, Append(s, e))
<1> DEFINE q == VC_KEY_QUEUE
           n == Len(s)
           h == c.head
           at == (h + n) % q
           Place(i) == (h + i - 1) % q
<1>1. s \in Seq(Nat \X Nat) /\ c.len = n /\ n <= q /\ n # q /\ h \in 0 .. q - 1 /\ q \in Nat \ {0}
  BY CardConstants DEF RingInv
<1>2. n \in Nat
  BY <1>1
<1>3. n \in 0 .. q - 1
  <2> HIDE DEF n, q
  <2> QED
    BY <1>1, <1>2
<1>4. at \in 0 .. q - 1 /\ (\A i \in 1 .. n : Place(i) \in 0 .. q - 1 /\ Place(i) # at) /\ Place(n + 1) = at
  <2> HIDE DEF n, q, h
  <2> QED
    BY <1>1, <1>3, PlaceBehind, ZenonT(60)
<1>5. Append(s, e) \in Seq(Nat \X Nat) /\ Len(Append(s, e)) = n + 1
  BY <1>1
<1>6. z.keyq = [c.keyq EXCEPT ![at] = e] /\ DOMAIN c.keyq = 0 .. q - 1 /\ (\A i \in 1 .. n : c.keyq[Place(i)] = s[i])
  BY <1>1 DEF RingInv
<1>7. Append(s, e)[n + 1] = e /\ \A i \in 1 .. n : Append(s, e)[i] = s[i]
  BY <1>1
<1>8. ASSUME NEW i \in 1 .. n + 1 PROVE z.keyq[Place(i)] = Append(s, e)[i]
  <2> HIDE DEF n, q, at, Place
  <2>1. CASE i = n + 1
    BY <1>4, <1>6, <1>7, <2>1
  <2>2. CASE i \in 1 .. n
    BY <1>4, <1>6, <1>7, <2>2
  <2>3. i = n + 1 \/ i \in 1 .. n
    BY <1>2
  <2> QED
    BY <2>1, <2>2, <2>3, Zenon
<1>9. z.len = n + 1 /\ n + 1 <= q /\ z.head \in 0 .. q - 1 /\ DOMAIN z.keyq = 0 .. q - 1
  <2> HIDE DEF n, q, at
  <2> QED
    BY <1>1, <1>3, <1>6 DEF h
<1>10. \A i \in 1 .. Len(Append(s, e)) : z.keyq[(z.head + i - 1) % VC_KEY_QUEUE] = Append(s, e)[i]
  BY <1>5, <1>8
<1> QED
  BY <1>5, <1>9, <1>10 DEF RingInv

\* The oldest key leaves it.
LEMMA RingLeft ==
  ASSUME NEW c, NEW s, RingInv(c, s), s # <<>>, NEW z,
         z.keyq = c.keyq, z.head = (c.head + 1) % VC_KEY_QUEUE, z.len = c.len - 1
  PROVE  RingInv(z, Tail(s))
<1> DEFINE q == VC_KEY_QUEUE
           n == Len(s)
           h == c.head
<1>1. s \in Seq(Nat \X Nat) /\ c.len = n /\ n <= q /\ h \in 0 .. q - 1 /\ q \in Nat \ {0}
  BY CardConstants DEF RingInv
<1>2. n \in Nat \ {0}
  BY <1>1
<1>3. Tail(s) \in Seq(Nat \X Nat) /\ Len(Tail(s)) = n - 1 /\ \A i \in 1 .. n - 1 : Tail(s)[i] = s[i + 1]
  BY <1>1
<1>4. z.head \in 0 .. q - 1
  <2>1. h + 1 \in Nat
    BY <1>1, SMTT(60)
  <2>2. z.head = (h + 1) % q
    OBVIOUS
  <2> HIDE DEF h, q
  <2> QED
    BY <1>1, <2>1, <2>2, NextLine
<1>5. ASSUME NEW i \in 1 .. n - 1 PROVE z.keyq[(z.head + i - 1) % q] = Tail(s)[i]
  <2>1. i \in 1 .. q - 1 /\ i + 1 \in 1 .. n
    <3> HIDE DEF n, q
    <3> QED
      BY <1>1, <1>2
  <2>2. (((h + 1) % q) + i - 1) % q = (h + (i + 1) - 1) % q
    <3> HIDE DEF h, q, n
    <3> QED
      BY <1>1, <2>1, PlaceAhead
  <2>3. c.keyq[(h + (i + 1) - 1) % q] = s[i + 1]
    BY <2>1 DEF RingInv
  <2>4. z.keyq[(((h + 1) % q) + i - 1) % q] = s[i + 1]
    BY <2>2, <2>3
  <2> QED
    BY <1>3, <2>4
<1>6. z.len = n - 1 /\ n - 1 <= q
  <2> HIDE DEF n, q
  <2> QED
    BY <1>1, <1>2
<1>7. DOMAIN z.keyq = 0 .. q - 1
  BY DEF RingInv
<1>8. \A i \in 1 .. Len(Tail(s)) : z.keyq[(z.head + i - 1) % VC_KEY_QUEUE] = Tail(s)[i]
  BY <1>3, <1>5
<1> QED
  BY <1>3, <1>4, <1>6, <1>7, <1>8 DEF RingInv

\* The program takes a key.
LEMMA TakeKeyStep ==
  ASSUME Inv, TakeKey
  PROVE  FlagInv' /\ Input'
<1> DEFINE z == vc_read(d.c, 27)
<1>1. /\ d' = [d EXCEPT !.c = z] /\ typed' = (IF typed = <<>> THEN <<>> ELSE Tail(typed))
      /\ UNCHANGED <<scene, prog, since, down, was>> /\ Live("keys")
  BY DEF TakeKey, Card
<1>2. /\ IsCard(z) /\ SameMouse(d.c, z) /\ z.isr = d.c.isr /\ z.cmd = d.c.cmd
      /\ z.keyq = d.c.keyq /\ z.mods = d.c.mods /\ z.caps_lock = d.c.caps_lock
      /\ z.head = (IF d.c.len = 0 THEN d.c.head ELSE (d.c.head + 1) % VC_KEY_QUEUE)
      /\ z.len = (IF d.c.len = 0 THEN d.c.len ELSE d.c.len - 1)
  BY ReadKey DEF Inv, FlagInv
<1> HIDE DEF z
<1>3. d'.c = z
  BY <1>1 DEF Inv, FrameInv
<1>4. RingInv(z, typed')
  <2>1. RingInv(d.c, typed) /\ typed \in Seq(Nat \X Nat) /\ d.c.len = Len(typed)
    BY DEF Inv, RingInv
  <2>2. CASE typed = <<>>
    <3>1. d.c.len = 0 /\ typed' = typed
      BY <1>1, <2>1, <2>2
    <3> QED
      BY <1>2, <2>1, <3>1 DEF RingInv
  <2>3. CASE typed # <<>>
    <3>1. d.c.len # 0 /\ typed' = Tail(typed)
      BY <1>1, <2>1, <2>3
    <3> QED
      BY <1>2, <2>1, <2>3, <3>1, RingLeft
  <2> QED
    BY <2>2, <2>3
<1>5. ModsInv'
  BY <1>1, <1>2, <1>3 DEF Inv, ModsInv, Live
<1>6. MouseInv'
  <2>1. d'.c.mouse = d.c.mouse /\ d'.c.snap = d.c.snap /\ d'.c.wheel = d.c.wheel /\ was' = was /\ prog' = prog
    BY <1>1, <1>2, <1>3 DEF SameMouse
  <2> QED
    BY <2>1 DEF Inv, MouseInv
<1>7. FlagInv'
  BY <1>1, <1>2, <1>3 DEF Inv, FlagInv, Live, Lines
<1> QED
  BY <1>3, <1>4, <1>5, <1>6, <1>7 DEF Input

\* What a key types, by the modifiers the card holds, is what the keyboard's keys say.
LEMMA CharTyped ==
  ASSUME NEW h, NEW held \in SUBSET KeysUsed, h.mods = ModsOf(held), h.caps_lock = (Caps \in held), NEW key \in KeysUsed
  PROVE  key_char(h, key) = Types(key, held) /\ Types(key, held) \in Nat
<1> DEFINE shift == h.mods \cap Shifts # {}
           ctrl == h.mods \cap Ctrls # {}
<1>1. shift <=> RShift \in held
  BY DEF ModsOf, Shifts, RShift, KeysUsed, KeyA, Enter, Caps, LCtrl
<1>2. ctrl <=> LCtrl \in held
  BY DEF ModsOf, Ctrls, RShift, KeysUsed, KeyA, Enter, Caps, LCtrl
<1> DEFINE Ch(caps) == LET ch == IF key \in 4..29 THEN key - 4 + (IF shift # caps THEN 65 ELSE 97)
                                 ELSE IF key \in 30..56 THEN (IF shift THEN k_shifted ELSE k_keys)[key - 29]
                                 ELSE IF key \in 84..99 THEN k_keypad[key - 83]
                                 ELSE IF key = 76 THEN 127 ELSE 0
                       IN  IF ch \in 64..126 /\ ctrl THEN ch % 32 ELSE ch
<1>3. key_char(h, key) = Ch(Caps \in held)
  BY DEF key_char
<1>4. k_shifted[11] = 13 /\ k_keys[11] = 13
  BY DEF k_shifted, k_keys
<1> HIDE DEF shift, ctrl
<1>5. CASE key = KeyA
  <2> DEFINE up == shift # (Caps \in held)
             ch == IF up THEN 65 ELSE 97
  <2>1. Ch(Caps \in held) = IF ch \in 64 .. 126 /\ ctrl THEN ch % 32 ELSE ch
    BY <1>5 DEF KeyA
  <2>2. up <=> ((RShift \in held) # (Caps \in held))
    BY <1>1
  <2> HIDE DEF up
  <2>3. Types(key, held) = IF LCtrl \in held THEN 1 ELSE IF up THEN 65 ELSE 97
    <3>1. KeyA # Enter
      BY DEF KeyA, Enter
    <3>2. Types(key, held) = IF LCtrl \in held THEN 1 ELSE IF (RShift \in held) # (Caps \in held) THEN 65 ELSE 97
      BY <1>5, <3>1, Zenon DEF Types
    <3> QED
      BY <2>2, <3>2, Zenon
  <2>4. 65 % 32 = 1 /\ 97 % 32 = 1
    OBVIOUS
  <2>5. CASE up
    BY <1>2, <1>3, <2>1, <2>3, <2>4, <2>5, SMTT(60)
  <2>6. CASE ~up
    BY <1>2, <1>3, <2>1, <2>3, <2>4, <2>6
  <2> QED
    BY <2>5, <2>6
<1>6. CASE key = Enter
  <2>1. Types(key, held) = 13
    BY <1>6 DEF Types, KeyA, Enter
  <2>2. Ch(Caps \in held) = 13
    BY <1>4, <1>6 DEF Enter
  <2> QED
    BY <1>3, <2>1, <2>2
<1>7. CASE key \in {Caps, LCtrl, RShift}
  <2>1. Types(key, held) = 0
    BY <1>7 DEF Types, KeyA, Enter, Caps, LCtrl, RShift
  <2>2. Ch(Caps \in held) = 0
    BY <1>7 DEF Caps, LCtrl, RShift
  <2> QED
    BY <1>3, <2>1, <2>2
<1> QED
  BY <1>5, <1>6, <1>7 DEF KeysUsed

\* The modifiers after a key has been pressed or released.
LEMMA ModsChange ==
  ASSUME NEW held \in SUBSET KeysUsed, NEW key \in KeysUsed
  PROVE  /\ ModsOf(held \cup {key}) = IF key \in 224 .. 231 THEN ModsOf(held) \cup {key - 224} ELSE ModsOf(held)
         /\ ModsOf(held \ {key}) = IF key \in 224 .. 231 THEN ModsOf(held) \ {key - 224} ELSE ModsOf(held)
<1>1. KeysUsed \subseteq Int
  BY DEF KeysUsed, KeyA, Enter, Caps, LCtrl, RShift
<1>2. ASSUME NEW m, NEW s \in SUBSET KeysUsed
      PROVE  m \in ModsOf(s) <=> m \in 0 .. 7 /\ m + 224 \in s
  <2>1. ASSUME m \in ModsOf(s) PROVE m \in 0 .. 7 /\ m + 224 \in s
    <3>1. PICK k \in s \cap 224 .. 231 : m = k - 224
      BY <2>1 DEF ModsOf
    <3>2. m \in 0 .. 7 /\ m + 224 = k
      BY <3>1
    <3> QED
      BY <3>1, <3>2
  <2>2. ASSUME m \in 0 .. 7, m + 224 \in s PROVE m \in ModsOf(s)
    <3>1. m + 224 \in s \cap 224 .. 231 /\ m = (m + 224) - 224
      BY <2>2
    <3> QED
      BY <3>1 DEF ModsOf
  <2> QED
    BY <2>1, <2>2
<1>3. held \cup {key} \in SUBSET KeysUsed /\ held \ {key} \in SUBSET KeysUsed /\ key \in Int
  BY <1>1
<1>4. ASSUME NEW m
      PROVE  /\ m \in ModsOf(held) <=> m \in 0 .. 7 /\ m + 224 \in held
             /\ m \in ModsOf(held \cup {key}) <=> m \in 0 .. 7 /\ (m + 224 \in held \/ m + 224 = key)
             /\ m \in ModsOf(held \ {key}) <=> m \in 0 .. 7 /\ m + 224 \in held /\ m + 224 # key
  BY <1>2, <1>3
<1>5. ASSUME NEW m, m \in 0 .. 7
      PROVE  m + 224 = key <=> key \in 224 .. 231 /\ m = key - 224
  BY <1>3, <1>5
<1>6. key \in 224 .. 231 => key - 224 \in 0 .. 7
  BY <1>3
<1>7. CASE key \in 224 .. 231
  <2>1. \A m : m \in ModsOf(held \cup {key}) <=> m \in ModsOf(held) \cup {key - 224}
    BY <1>4, <1>5, <1>6, <1>7
  <2>2. \A m : m \in ModsOf(held \ {key}) <=> m \in ModsOf(held) \ {key - 224}
    BY <1>4, <1>5, <1>7, SMTT(60)
  <2>3. ModsOf(held \cup {key}) = ModsOf(held) \cup {key - 224}
    BY <2>1
  <2>4. ModsOf(held \ {key}) = ModsOf(held) \ {key - 224}
    BY <2>2
  <2> QED
    BY <1>7, <2>3, <2>4
<1>8. CASE key \notin 224 .. 231
  <2>1. \A m : m \in ModsOf(held \cup {key}) <=> m \in ModsOf(held)
    BY <1>4, <1>5, <1>8
  <2>2. \A m : m \in ModsOf(held \ {key}) <=> m \in ModsOf(held)
    BY <1>4, <1>5, <1>8
  <2>3. ModsOf(held \cup {key}) = ModsOf(held)
    BY <2>1
  <2>4. ModsOf(held \ {key}) = ModsOf(held)
    BY <2>2
  <2> QED
    BY <1>8, <2>3, <2>4
<1> QED
  BY <1>7, <1>8

\* A key event of the window, with the keys that are held after it.
LEMMA KeyStep ==
  ASSUME Inv, Live("keys"), NEW key \in KeysUsed, NEW on \in BOOLEAN, NEW held \in SUBSET KeysUsed, NEW ch,
         Held(d.c, key, on).mods = ModsOf(held), Held(d.c, key, on).caps_lock = (Caps \in held),
         d' = [d EXCEPT !.c = vc_key(d.c, key, on)], down' = held,
         ch = Types(key, held) + (IF on THEN 0 ELSE 128),
         IF Len(typed) < VC_KEY_QUEUE
         THEN typed' = Append(typed, <<key, ch>>) /\ since' = since \cup {"INPUT"}
         ELSE UNCHANGED <<typed, since>>,
         UNCHANGED <<scene, prog, was>>
  PROVE  FlagInv' /\ Input'
<1> DEFINE c == d.c
           h == Held(c, key, on)
           z == vc_key(c, key, on)
           kc == <<key, key_char(h, key) + (IF on THEN 0 ELSE 128)>>
<1>1. key \in Nat \ {0}
  BY DEF KeysUsed, KeyA, Enter, Caps, LCtrl, RShift
<1>2. IsCard(c) /\ RingInv(c, typed) /\ VC_KEY_QUEUE \in Nat
  BY CardConstants DEF Inv, FlagInv
<1>3. /\ IsCard(z) /\ SameMouse(c, z) /\ z.cmd = c.cmd /\ z.head = c.head
      /\ z.mods = h.mods /\ z.caps_lock = h.caps_lock
      /\ c.len = VC_KEY_QUEUE => z.keyq = c.keyq /\ z.len = c.len /\ z.isr = c.isr
      /\ c.len # VC_KEY_QUEUE =>
            /\ z.keyq = [c.keyq EXCEPT ![(c.head + c.len) % VC_KEY_QUEUE] = kc]
            /\ z.len = c.len + 1 /\ z.isr = c.isr \cup {"INPUT"}
  BY <1>1, <1>2, KeyEvent, SMTT(60)
<1>4. key_char(h, key) = Types(key, held) /\ Types(key, held) \in Nat
  <2> HIDE DEF h
  <2>1. h.mods = ModsOf(held) /\ h.caps_lock = (Caps \in held)
    BY DEF h
  <2> QED
    BY <2>1, CharTyped
<1>5. kc = <<key, ch>> /\ ch \in Nat
  BY <1>4
<1> HIDE DEF h, kc, z
<1>6. d'.c = z
  <2>1. d' = [d EXCEPT !.c = z]
    BY DEF z
  <2> QED
    BY <2>1 DEF Inv, FrameInv
<1>7. c.len = Len(typed) /\ c.len \in Nat /\ c.len <= VC_KEY_QUEUE
  <2>1. typed \in Seq(Nat \X Nat)
    BY <1>2 DEF RingInv
  <2>2. Len(typed) \in Nat
    BY <2>1
  <2> QED
    BY <1>2, <2>2 DEF RingInv
<1>8. RingInv(z, typed') /\ since' \subseteq z.isr
  <2>1. CASE c.len = VC_KEY_QUEUE
    <3>1. typed' = typed /\ since' = since
      BY <1>2, <1>7, <2>1
    <3>2. z.keyq = c.keyq /\ z.len = c.len /\ z.head = c.head /\ z.isr = c.isr
      BY <1>3, <2>1
    <3>3. RingInv(z, typed)
      BY <1>2, <3>2 DEF RingInv
    <3> QED
      BY <3>1, <3>2, <3>3 DEF Inv, FlagInv
  <2>2. CASE c.len # VC_KEY_QUEUE
    <3>1. typed' = Append(typed, kc) /\ since' = since \cup {"INPUT"}
      BY <1>2, <1>5, <1>7, <2>2
    <3>2. kc \in Nat \X Nat
      BY <1>1, <1>5
    <3>3. RingInv(z, Append(typed, kc))
      BY <1>2, <1>3, <2>2, <3>2, RingJoined
    <3> QED
      BY <1>3, <2>2, <3>1, <3>3 DEF Inv, FlagInv
  <2> QED
    BY <2>1, <2>2
<1>9. ModsInv'
  BY <1>3, <1>6 DEF ModsInv, Live, h
<1>10. MouseInv'
  <2>1. d'.c.mouse = d.c.mouse /\ d'.c.snap = d.c.snap /\ d'.c.wheel = d.c.wheel /\ was' = was /\ prog' = prog
    BY <1>3, <1>6 DEF SameMouse
  <2> QED
    BY <2>1, ZenonT(60) DEF Inv, MouseInv
<1>11. FlagInv'
  BY <1>3, <1>6, <1>8 DEF Inv, FlagInv, Live, Lines
<1> QED
  BY <1>6, <1>8, <1>9, <1>10, <1>11 DEF Input

\* A key pressed: caps lock turns over, the others are held.
LEMMA PressStep ==
  ASSUME Inv, NEW key \in KeysUsed, Press(key)
  PROVE  FlagInv' /\ Input'
<1>1. /\ Live("keys") /\ (key \notin down \/ key = Caps) /\ UNCHANGED <<scene, prog, was>>
      /\ down' = IF key = Caps /\ Caps \in down THEN down \ {Caps} ELSE down \cup {key}
      /\ d' = [d EXCEPT !.c = vc_key(d.c, key, TRUE)]
      /\ IF Len(typed) < VC_KEY_QUEUE
         THEN typed' = Append(typed, <<key, Types(key, down')>>) /\ since' = since \cup {"INPUT"}
         ELSE UNCHANGED <<typed, since>>
  BY DEF Press, Card
<1>2. IsCard(d.c) /\ down \in SUBSET KeysUsed /\ d.c.mods = ModsOf(down) /\ d.c.caps_lock = (Caps \in down)
  BY <1>1 DEF Inv, FlagInv, ModsInv
<1> DEFINE held == IF key = Caps /\ Caps \in down THEN down \ {Caps} ELSE down \cup {key}
           h == Held(d.c, key, TRUE)
           ch == Types(key, held)
<1>3. held \in SUBSET KeysUsed /\ down' = held
  BY <1>1, <1>2
<1>4. /\ h.mods = IF key \in 224 .. 231 THEN d.c.mods \cup {key - 224} ELSE d.c.mods
      /\ h.caps_lock = IF key = 57 THEN ~d.c.caps_lock ELSE d.c.caps_lock
  <2>1. CASE key \in 224 .. 231
    BY <1>2, <2>1 DEF Held, IsCard, CardFields
  <2>2. CASE key = 57
    BY <1>2, <2>2 DEF Held, IsCard, CardFields
  <2>3. CASE key \notin 224 .. 231 /\ key # 57
    BY <2>3 DEF Held
  <2> QED
    BY <2>1, <2>2, <2>3
<1> HIDE DEF h
<1>5. h.mods = ModsOf(held)
  <2>1. CASE key = Caps
    <3>1. key \notin 224 .. 231 /\ (held = down \ {key} \/ held = down \cup {key})
      BY <2>1 DEF Caps
    <3>2. ModsOf(down \cup {key}) = ModsOf(down) /\ ModsOf(down \ {key}) = ModsOf(down)
      BY <1>2, <3>1, ModsChange, ZenonT(60)
    <3> HIDE DEF held
    <3> QED
      BY <1>2, <1>4, <3>1, <3>2
  <2>2. CASE key # Caps
    <3>1. held = down \cup {key}
      BY <2>2
    <3>2. ModsOf(down \cup {key}) = IF key \in 224 .. 231 THEN ModsOf(down) \cup {key - 224} ELSE ModsOf(down)
      BY <1>2, ModsChange, ZenonT(60)
    <3> HIDE DEF held
    <3> QED
      BY <1>2, <1>4, <3>1, <3>2
  <2> QED
    BY <2>1, <2>2
<1>6. h.caps_lock = (Caps \in held)
  <2>1. CASE key = Caps
    <3>1. h.caps_lock = ~d.c.caps_lock
      BY <1>4, <2>1 DEF Caps
    <3>2. (Caps \in held) = ~(Caps \in down)
      BY <2>1
    <3> HIDE DEF held
    <3> QED
      BY <1>2, <3>1, <3>2, Zenon
  <2>2. CASE key # Caps
    <3>1. h.caps_lock = d.c.caps_lock /\ ((Caps \in held) <=> (Caps \in down))
      BY <1>4, <2>2 DEF Caps
    <3> QED
      BY <1>2, <3>1
  <2> QED
    BY <2>1, <2>2
<1>7. ch \in Nat
  BY <1>3, <1>5, <1>6, CharTyped
<1>8. ch = Types(key, held) + (IF TRUE THEN 0 ELSE 128)
  BY <1>7
<1>9. IF Len(typed) < VC_KEY_QUEUE
      THEN typed' = Append(typed, <<key, ch>>) /\ since' = since \cup {"INPUT"}
      ELSE UNCHANGED <<typed, since>>
  BY <1>1, <1>3
<1> HIDE DEF held, ch
<1> QED
  BY <1>1, <1>3, <1>5, <1>6, <1>8, <1>9, KeyStep DEF h

\* A key released: caps lock stays, the others are no longer held.
LEMMA ReleaseStep ==
  ASSUME Inv, NEW key \in KeysUsed, Release(key)
  PROVE  FlagInv' /\ Input'
<1>1. /\ Live("keys") /\ key # Caps /\ UNCHANGED <<scene, prog, was>>
      /\ down' = down \ {key}
      /\ d' = [d EXCEPT !.c = vc_key(d.c, key, FALSE)]
      /\ IF Len(typed) < VC_KEY_QUEUE
         THEN typed' = Append(typed, <<key, 128 + Types(key, down')>>) /\ since' = since \cup {"INPUT"}
         ELSE UNCHANGED <<typed, since>>
  BY DEF Release, Card
<1>2. IsCard(d.c) /\ down \in SUBSET KeysUsed /\ d.c.mods = ModsOf(down) /\ d.c.caps_lock = (Caps \in down)
  BY <1>1 DEF Inv, FlagInv, ModsInv
<1> DEFINE held == down \ {key}
           h == Held(d.c, key, FALSE)
           ch == 128 + Types(key, held)
<1>3. held \in SUBSET KeysUsed /\ down' = held
  BY <1>1, <1>2
<1>4. /\ h.mods = IF key \in 224 .. 231 THEN d.c.mods \ {key - 224} ELSE d.c.mods
      /\ h.caps_lock = d.c.caps_lock
  <2>1. CASE key \in 224 .. 231
    BY <1>2, <2>1 DEF Held, IsCard, CardFields
  <2>2. CASE key \notin 224 .. 231
    BY <2>2 DEF Held
  <2> QED
    BY <2>1, <2>2
<1> HIDE DEF h
<1>5. h.mods = ModsOf(held)
  <2>1. ModsOf(down \ {key}) = IF key \in 224 .. 231 THEN ModsOf(down) \ {key - 224} ELSE ModsOf(down)
    BY <1>2, ModsChange, ZenonT(60)
  <2> QED
    BY <1>2, <1>4, <2>1
<1>6. h.caps_lock = (Caps \in held)
  <2>1. (Caps \in held) <=> (Caps \in down)
    BY <1>1
  <2> QED
    BY <1>2, <1>4, <2>1
<1>7. Types(key, held) \in Nat
  BY <1>3, <1>5, <1>6, CharTyped
<1>8. ch = Types(key, held) + (IF FALSE THEN 0 ELSE 128)
  BY <1>7
<1>9. IF Len(typed) < VC_KEY_QUEUE
      THEN typed' = Append(typed, <<key, ch>>) /\ since' = since \cup {"INPUT"}
      ELSE UNCHANGED <<typed, since>>
  BY <1>1, <1>3
<1> HIDE DEF held, ch
<1> QED
  BY <1>1, <1>3, <1>5, <1>6, <1>8, <1>9, KeyStep DEF h

-----------------------------------------------------------------------------
(* The drawing command                                                     *)

IsSeq(s) == \E R : s \in Seq(R)

\* Sequences joined are one.
LEMMA JoinedSeq ==
  ASSUME NEW s, NEW t, IsSeq(s), IsSeq(t)
  PROVE  IsSeq(s \o t)
<1>1. PICK R, Q : s \in Seq(R) /\ t \in Seq(Q)
  BY DEF IsSeq
<1>2. s \in Seq(R \cup Q) /\ t \in Seq(R \cup Q)
  BY <1>1
<1>3. s \o t \in Seq(R \cup Q)
  BY <1>2
<1> QED
  BY <1>3 DEF IsSeq

\* So are the words of parameters.
LEMMA WordsSeq ==
  ASSUME NEW s, Len(s) \in Nat
  PROVE  IsSeq(Words(s))
<1> DEFINE n == 2 * Len(s)
           B(i) == W16(s[(i + 1) \div 2])[2 - (i % 2)]
           R == {B(i) : i \in 1 .. n}
<1>1. Words(s) = [i \in 1 .. n |-> B(i)] /\ n \in Nat
  BY DEF Words
<1> HIDE DEF B, n
<1>2. [i \in 1 .. n |-> B(i)] \in Seq(R)
  BY <1>1
<1> QED
  BY <1>1, <1>2 DEF IsSeq

\* The parameters of a drawing scene.
LEMMA SceneArgs ==
  ASSUME NEW s \in Scenes, s.kind = "draw"
  PROVE  Len(s.args) \in Nat
<1>1. s \in DrawScenes
  BY DEF Scenes, Lines, PictureScenes, Picture
<1> DEFINE High == -2..TargetH
           Low == {-1, 0, TargetH - 1, TargetH}
           From == {Base} \cup Edges
           Line == {Draw(4, 4, ends) : ends \in {0, 3} \X {-1, 1} \X Near \X High}
           Rect == {Draw(op, bpp, <<x, y, w, h>>) : op \in {5, 6}, bpp \in {1, 2, 4, 8}, x \in {-2, 1}, y \in {-1, 1}, w \in {-1, 1, 3, 9}, h \in {0, 1, 3}}
           Circle == {Draw(op, 2, <<x, y, r>>) : op \in {7, 8}, x \in {-1, 2}, y \in {1, 3}, r \in -1..4}
           Triangle == {Draw(13, 4, <<x0, y0, x1, y1, x2, 3>>) : x0 \in {0, 4}, y0 \in {-2, 0}, x1 \in {-1, 3, 5}, y1 \in {0, 2, 5}, x2 \in {1, 6}}
           Copy == {Draw(10, 8, <<src, dst, n>>) : src \in {Base, Base + 1, VC_PSRAM_BASE}, dst \in {Base - 1, Base, Base + 1, Base + 3, VC_PSRAM_BASE + 1}, n \in 0..4}
           Round == {Draw(10, 8, <<src, dst, n>>) : src \in {0, 1, Space - 2}, dst \in {0, 1, Space - 3, Space - 1}, n \in 2..4}
           Fill == {Draw(11, 8, <<dst, n>>) : dst \in From, n \in 0..4}
           Plot == {Draw(3, bpp, <<x, y>>) : bpp \in {1, 2, 4, 8}, x \in Near, y \in Low}
           Blit == {Draw(12, bpp, <<x, y, t>>) : bpp \in {2, 8}, x \in {-1, 0, 3}, y \in {-1, 2}, t \in {0, 1}}
           Char == {Draw(15, 1, <<x, y, ch>>) : x \in {-3, 0}, y \in {-2, 1}, ch \in {0, 65}}
           Clear == {Draw(9, bpp, <<>>) : bpp \in {1, 2, 4, 8, 3}}
<1>2. DrawScenes = Line \cup Rect \cup Circle \cup Triangle \cup Copy \cup Round \cup Fill \cup Plot
                   \cup Blit \cup Char \cup Clear
  BY DEF DrawScenes
<1> DEFINE Made == \E op, bpp, args : s = Draw(op, bpp, args) /\ Len(args) \in Nat
<1> HIDE DEF High, Low, From
<1>3. s \in Line => Made
  <2>1. s \in Line => \E args \in {0, 3} \X {-1, 1} \X Near \X High : s = Draw(4, 4, args)
    BY SMTT(30)
  <2>2. ASSUME NEW args \in {0, 3} \X {-1, 1} \X Near \X High PROVE Len(args) \in Nat
    <3>1. args = <<args[1], args[2], args[3], args[4]>>
      OBVIOUS
    <3> QED
      BY <3>1
  <2> HIDE DEF Line
  <2> QED
    BY <2>1, <2>2
<1>4. s \in Rect => Made
  OBVIOUS
<1>5. s \in Circle => Made
  OBVIOUS
<1>6. s \in Triangle => Made
  OBVIOUS
<1>7. s \in Copy => Made
  OBVIOUS
<1>8. s \in Blit => Made
  OBVIOUS
<1>9. s \in Char => Made
  OBVIOUS
<1>10. s \in Clear => Made
  OBVIOUS
<1>11. s \in Round => Made
  OBVIOUS
<1>12. s \in Fill => Made
  <2>1. s \in Fill => \E dst \in From, n \in 0..4 : s = Draw(11, 8, <<dst, n>>)
    OBVIOUS
  <2>2. \A x, y : Len(<<x, y>>) \in Nat
    OBVIOUS
  <2> HIDE DEF Fill
  <2> QED
    BY <2>1, <2>2, Zenon
<1>13. s \in Plot => Made
  <2>1. s \in Plot => \E bpp \in {1, 2, 4, 8}, x \in Near, y \in Low : s = Draw(3, bpp, <<x, y>>)
    OBVIOUS
  <2>2. \A x, y : Len(<<x, y>>) \in Nat
    OBVIOUS
  <2> HIDE DEF Plot
  <2> QED
    BY <2>1, <2>2, Zenon
<1> HIDE DEF Line, Rect, Circle, Triangle, Copy, Round, Fill, Plot, Blit, Char, Clear, Made
<1>14. Made
  BY <1>1, <1>2, <1>3, <1>4, <1>5, <1>6, <1>7, <1>8, <1>9, <1>10, <1>11, <1>12, <1>13
<1> QED
  BY <1>14 DEF Draw, Made

\* The bytes of a command, with those that set its target before it, are a sequence.
LEMMA CommandSeq ==
  /\ \A s \in Scenes : s.kind = "draw" => IsSeq(CommandOf(s))
  /\ \A bpp : IsSeq(TargetCmd(bpp) \o <<2, 255>>)
<1>1. ASSUME NEW x PROVE IsSeq(<<x>>)
  <2>1. <<x>> \in Seq({x})
    OBVIOUS
  <2> QED
    BY <2>1 DEF IsSeq
<1>2. ASSUME NEW v PROVE IsSeq(Byte24(v))
  <2> DEFINE R == {Byte24(v)[1], Byte24(v)[2], Byte24(v)[3]}
  <2>1. Byte24(v) \in Seq(R)
    BY DEF Byte24
  <2> QED
    BY <2>1 DEF IsSeq
<1>3. ASSUME NEW a, NEW b PROVE IsSeq(Words(<<a, b>>))
  <2>1. Len(<<a, b>>) \in Nat
    OBVIOUS
  <2> QED
    BY <2>1, WordsSeq
<1>4. ASSUME NEW a, NEW b, NEW c, NEW e, NEW f PROVE IsSeq(Words(<<a, b, c, e, f>>)) /\ IsSeq(Words(<<a, b, c>>))
  <2>1. Len(<<a, b, c, e, f>>) \in Nat /\ Len(<<a, b, c>>) \in Nat
    OBVIOUS
  <2> QED
    BY <2>1, WordsSeq
<1>5. ASSUME NEW s \in Scenes, s.kind = "draw" PROVE IsSeq(CommandOf(s))
  <2>1. CASE s.op = 10
    <3>1. CommandOf(s) = <<10>> \o Byte24(s.args[1]) \o Byte24(s.args[2]) \o Byte24(s.args[3])
      BY <2>1 DEF CommandOf
    <3> QED
      BY <1>1, <1>2, <3>1, JoinedSeq, Zenon
  <2>2. CASE s.op = 12
    <3>1. CommandOf(s) = <<12>> \o Byte24(512) \o Words(<<3, 3, 2, s.args[1], s.args[2]>>) \o <<s.args[3]>>
      BY <2>2 DEF CommandOf
    <3>2. IsSeq(<<12>> \o Byte24(512))
      BY <1>1, <1>2, JoinedSeq, ZenonT(60)
    <3>3. IsSeq(<<12>> \o Byte24(512) \o Words(<<3, 3, 2, s.args[1], s.args[2]>>))
      BY <1>4, <3>2, JoinedSeq, ZenonT(60)
    <3> QED
      BY <1>1, <3>1, <3>3, JoinedSeq, ZenonT(60)
  <2>3. CASE s.op = 15
    <3>1. CommandOf(s) = <<15>> \o Words(<<s.args[1], s.args[2]>>) \o <<s.args[3]>>
      BY <2>3 DEF CommandOf
    <3> QED
      BY <1>1, <1>3, <3>1, JoinedSeq, Zenon
  <2>4. CASE s.op = 11
    <3>1. CommandOf(s) = <<11>> \o Byte24(s.args[1]) \o Byte24(s.args[2]) \o <<7>>
      BY <2>4 DEF CommandOf
    <3> QED
      BY <1>1, <1>2, <3>1, JoinedSeq, Zenon
  <2>5. CASE s.op \notin {10, 11, 12, 15}
    <3>1. CommandOf(s) = <<s.op>> \o Words(s.args)
      BY <2>5 DEF CommandOf
    <3>2. IsSeq(Words(s.args))
      BY <1>5, SceneArgs, WordsSeq
    <3> QED
      BY <1>1, <3>1, <3>2, JoinedSeq, Zenon
  <2> QED
    BY <2>1, <2>2, <2>3, <2>4, <2>5
<1>6. ASSUME NEW bpp PROVE IsSeq(TargetCmd(bpp) \o <<2, 255>>)
  <2>1. TargetCmd(bpp) = <<1>> \o Byte24(Base) \o Words(<<Stride(bpp), TargetW, TargetH>>) \o <<bpp>>
    BY DEF TargetCmd
  <2>2. IsSeq(TargetCmd(bpp))
    BY <1>1, <1>2, <1>4, <2>1, JoinedSeq, Zenon
  <2>3. <<2, 255>> \in Seq({2, 255})
    OBVIOUS
  <2> QED
    BY <2>2, <2>3, JoinedSeq, ZenonT(60) DEF IsSeq
<1> QED
  BY <1>5, <1>6

\* A command sent to a card leaves the input alone, whatever it draws.
LEMMA BytesKeepInput ==
  ASSUME NEW c, IsCard(c), NEW bytes, IsSeq(bytes)
  PROVE  SameInput(c, Sent(c, bytes))
<1>1. Len(bytes) \in Nat
  BY DEF IsSeq
<1> QED
  BY <1>1, SentKeepsInput

\* The drawing scene sends its command.
LEMMA SendStep ==
  ASSUME Inv, SendCommand
  PROVE  FlagInv' /\ Input'
<1> DEFINE z == Sent(d.c, CommandOf(scene))
<1>1. d' = [d EXCEPT !.c = z] /\ UNCHANGED <<scene, prog, since, typed, down, was>> /\ scene.kind = "draw"
  BY DEF SendCommand, Card, Live
<1>2. scene \in Scenes /\ IsCard(d.c)
  BY DEF Inv, FlagInv
<1>3. SameInput(d.c, z)
  BY <1>1, <1>2, CommandSeq, BytesKeepInput
<1> HIDE DEF z
<1>4. d'.c = z
  BY <1>1 DEF Inv, FrameInv
<1>5. Input'
  BY <1>1, <1>3, <1>4, InputKept
<1>6. FlagInv'
  BY <1>1, <1>3, <1>4 DEF Inv, FlagInv, SameInput, Lines
<1> QED
  BY <1>5, <1>6

-----------------------------------------------------------------------------
(* The invariant holds                                                     *)

\* A card nothing has been typed or pointed at.
Idle(c) ==
  /\ IsCard(c) /\ c.head = 0 /\ c.len = 0 /\ DOMAIN c.keyq = 0 .. VC_KEY_QUEUE - 1
  /\ c.mods = {} /\ c.caps_lock = FALSE /\ c.mouse = <<0, 0>> /\ c.snap = <<0, 0>> /\ c.wheel = 0

\* So is the card after power-on.
LEMMA FreshIdle == Idle(Fresh.c) /\ Fresh.c.cmd = <<>>
<1> DEFINE r == vc_reset(calloc)
<1>1. power_on.c = calloc /\ FrameInv(power_on)
  BY CardConstants DEF FrameInv, power_on
<1>2. IsCard(calloc)
  BY DEF IsCard, CardFields, calloc
<1>3. SameInput(r, Fresh.c) /\ Fresh.c.cmd = <<>>
  BY <1>1, <1>2, ResetDevice DEF Fresh
<1>4. /\ IsCard(r) /\ r.head = 0 /\ r.len = 0 /\ r.wheel = 0
      /\ r.keyq = calloc.keyq /\ r.mods = calloc.mods /\ r.caps_lock = calloc.caps_lock
      /\ r.mouse = calloc.mouse /\ r.snap = calloc.snap
  BY <1>2, ResetCard
<1>5. /\ DOMAIN calloc.keyq = 0 .. VC_KEY_QUEUE - 1 /\ calloc.mods = {} /\ calloc.caps_lock = FALSE
      /\ calloc.mouse = <<0, 0>> /\ calloc.snap = <<0, 0>>
  BY DEF calloc
<1> HIDE DEF r
<1> QED
  BY <1>3, <1>4, <1>5 DEF Idle, SameInput, SameKeys, SameMouse

\* The card a behaviour starts with: fresh, with a command's target, or a picture.
LEMMA InitIdle ==
  ASSUME Init
  PROVE  Idle(d.c) /\ (scene.kind \in Lines => d.c.cmd = <<>>)
<1>1. DOMAIN Fresh = {"c", "lines", "active", "drawing", "rows", "sent"}
  BY FreshFrames DEF FrameInv
<1>2. ASSUME NEW c, SameInput(Fresh.c, c) PROVE Idle(c)
  BY <1>2, FreshIdle DEF Idle, SameInput, SameKeys, SameMouse
<1>3. ASSUME NEW c, Idle(c), NEW m PROVE Idle([c EXCEPT !.mem = m])
  BY <1>3 DEF Idle, IsCard, CardFields
<1>4. CASE scene.kind = "draw"
  <2> DEFINE c == Sent(Fresh.c, TargetCmd(scene.bpp) \o <<2, 255>>)
             z == [c EXCEPT !.mem = Contents(scene)]
  <2>1. Idle(c)
    BY <1>2, CommandSeq, BytesKeepInput, FreshIdle, ZenonT(60) DEF Idle
  <2>2. Idle(z)
    BY <1>3, <2>1
  <2>3. d = Prepared(scene)
    BY <1>4 DEF Init
  <2>4. d = [Fresh EXCEPT !.c = z]
    BY <2>3 DEF Prepared
  <2> HIDE DEF z
  <2>5. d.c = z
    BY <1>1, <2>4
  <2> QED
    BY <1>4, <2>2, <2>5 DEF Lines
<1>5. CASE scene.kind = "picture"
  <2> DEFINE z == [Fresh.c EXCEPT !.mem = PictureMem(scene)]
  <2>1. d = [Fresh EXCEPT !.c.mem = PictureMem(scene)]
    BY <1>5 DEF Init
  <2>2. d = [Fresh EXCEPT !.c = z]
    BY <2>1
  <2>3. Idle(z)
    BY <1>3, FreshIdle
  <2> HIDE DEF z
  <2>4. d.c = z
    BY <1>1, <2>2
  <2> QED
    BY <1>5, <2>3, <2>4 DEF Lines
<1>6. CASE scene.kind # "draw" /\ scene.kind # "picture"
  <2>1. d = Fresh
    BY <1>6 DEF Init
  <2> QED
    BY <2>1, FreshIdle
<1> QED
  BY <1>4, <1>5, <1>6

\* The invariant holds at the start.
LEMMA InitInv == Init => Inv
<1> SUFFICES ASSUME Init PROVE Inv
  OBVIOUS
<1>1. Idle(d.c) /\ (scene.kind \in Lines => d.c.cmd = <<>>)
  BY InitIdle
<1>2. /\ prog = [isr |-> {}, mouse |-> <<>>] /\ since = {} /\ typed = <<>> /\ down = {} /\ was = {<<0, 0>>}
      /\ scene \in Scenes
  BY DEF Init, Scenes
<1>3. FrameInv(d)
  BY InitFrames
<1>4. FlagInv
  BY <1>1, <1>2 DEF FlagInv, Idle
<1>5. RingInv(d.c, typed)
  <2>1. 0 \in 0 .. VC_KEY_QUEUE - 1 /\ 0 <= VC_KEY_QUEUE
    BY CardConstants
  <2>2. typed \in Seq(Nat \X Nat) /\ Len(typed) = 0 /\ 1 .. Len(typed) = {}
    BY <1>2
  <2> QED
    BY <1>1, <2>1, <2>2 DEF RingInv, Idle
<1>6. ModsInv
  <2>1. ModsOf(down) = {} /\ ~(Caps \in down) /\ down \subseteq KeysUsed
    BY <1>2 DEF ModsOf
  <2>2. d.c.mods = ModsOf(down) /\ d.c.caps_lock = FALSE /\ (Caps \in down) = FALSE
    BY <1>1, <2>1 DEF Idle
  <2> QED
    BY <2>1, <2>2, Zenon DEF ModsInv
<1>7. MouseInv
  <2>1. prog.mouse \in Seq(Int) /\ Len(prog.mouse) = 0 /\ DOMAIN prog = {"isr", "mouse"}
    BY <1>2
  <2>2. <<0, 0>> \in Places
    BY DEF Places
  <2> QED
    BY <1>1, <1>2, <2>1, <2>2 DEF MouseInv, Idle
<1> QED
  BY <1>3, <1>4, <1>5, <1>6, <1>7 DEF Inv

\* Every step keeps it.
LEMMA NextInv == Inv /\ [Next]_mvars => Inv'
<1> SUFFICES ASSUME Inv, [Next]_mvars PROVE Inv'
  OBVIOUS
<1>1. FrameInv(d')
  BY NextFrames DEF Inv
<1>2. FlagInv' /\ Input'
  <2>1. ASSUME NEW key \in KeysUsed, Press(key) PROVE FlagInv' /\ Input'
    BY <2>1, PressStep
  <2>2. ASSUME NEW key \in KeysUsed, Release(key) PROVE FlagInv' /\ Input'
    BY <2>2, ReleaseStep
  <2>3. CASE TakeKey
    BY <2>3, TakeKeyStep
  <2>4. CASE MouseMoves
    BY <2>4, MouseStep
  <2>5. CASE ReadMouse
    BY <2>5, ReadMouseStep
  <2>6. CASE ReadWheel
    BY <2>6, ReadWheelStep
  <2>7. CASE ReadIsr
    BY <2>7, ReadIsrStep
  <2>8. CASE ClearIsr
    BY <2>8, ClearIsrStep
  <2>9. CASE WriteSetting
    BY <2>9, SettingStep
  <2>10. CASE BeamMoves
    BY <2>10, BeamStep
  <2>11. CASE MachineReset
    BY <2>11, ResetStep
  <2>12. CASE SendCommand
    BY <2>12, SendStep
  <2>13. CASE UNCHANGED mvars
    <3>1. UNCHANGED <<scene, d, prog, since, typed, down, was>>
      BY <2>13 DEF mvars
    <3>2. FlagInv'
      BY <3>1 DEF Inv, FlagInv
    <3>3. RingInv(d'.c, typed') /\ ModsInv'
      BY <3>1 DEF Inv, ModsInv, Live
    <3>4. MouseInv'
      BY <3>1 DEF Inv, MouseInv
    <3> QED
      BY <3>2, <3>3, <3>4 DEF Input
  <2> QED
    BY <2>1, <2>2, <2>3, <2>4, <2>5, <2>6, <2>7, <2>8, <2>9, <2>10, <2>11, <2>12, <2>13 DEF Next, KeysUsed
<1> QED
  BY <1>1, <1>2 DEF Inv, Input, FrameInv

(***************************************************************************)
(* No event is lost between the window, the beam, the commands and the     *)
(* handler: one that the handler has not answered since it happened is     *)
(* flagged (vc_write, ISR), and an enabled one holds the interrupt line    *)
(* (vc_irq), whatever the handler read before it came.                     *)
(***************************************************************************)
THEOREM VideoEventSeen == Spec => []EventSeen
<1>1. Inv => EventSeen
  BY DEF Inv, FlagInv, EventSeen, vc_irq
<1> QED
  BY <1>1, InitInv, NextInv, PTL DEF Spec

(***************************************************************************)
(* The queue of any length gives the key events in order, with the         *)
(* characters of the modifiers held at the time (vc_key, take_key); the    *)
(* modifiers follow the keyboard also when the queue is full; the four     *)
(* bytes of a position are of one place where the mouse has been (the      *)
(* snapshot of vc_read); and the wheel's count stays in a byte.            *)
(***************************************************************************)
THEOREM VideoInputFaithful == Spec => []InputFaithful
<1>1. Inv => KeysKept
  BY DEF Inv, RingInv, ModsInv, ModsOf, KeysKept
<1>2. Inv => MouseUntorn
  <2> SUFFICES ASSUME Inv, Len(prog.mouse) = 4
               PROVE  <<prog.mouse[1] * 256 + prog.mouse[2], prog.mouse[3] * 256 + prog.mouse[4]>> \in was
    BY DEF MouseUntorn
  <2> DEFINE x == d.c.snap[1]
             y == d.c.snap[2]
  <2>1. /\ prog.mouse[1] = x \div 256 /\ prog.mouse[2] = x % 256
        /\ prog.mouse[3] = y \div 256 /\ prog.mouse[4] = y % 256
        /\ d.c.snap \in was /\ d.c.snap \in Places
    BY SMTT(60) DEF Inv, MouseInv
  <2>2. x \in Int /\ y \in Int /\ d.c.snap = <<x, y>>
    BY <2>1 DEF Places
  <2> HIDE DEF x, y
  <2>3. (x \div 256) * 256 + (x % 256) = x
    BY <2>2
  <2>4. (y \div 256) * 256 + (y % 256) = y
    BY <2>2, SMTT(60)
  <2> QED
    BY <2>1, <2>2, <2>3, <2>4
<1>3. Inv => InputFaithful
  BY <1>1, <1>2 DEF Inv, MouseInv, InputFaithful
<1> QED
  BY <1>3, InitInv, NextInv, PTL DEF Spec
=============================================================================
