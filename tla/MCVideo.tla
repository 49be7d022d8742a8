------------------------------- MODULE MCVideo -------------------------------
(***************************************************************************)
(* The video card used three ways, chosen by the initial state: a program, *)
(* a window and the beam acting on a card ("keys", "mouse", "beam"), one   *)
(* drawing command on a small target ("draw"), and pictures of layers and  *)
(* sprites ("picture").                                                    *)
(***************************************************************************)
EXTENDS VideoCard

CONSTANTS MaxEvents,   \* events of the window in a behaviour
          MaxLines,    \* lines the beam begins
          MaxWrites,   \* settings the program writes, resets included (one when it is about input)
          TargetW, TargetH \* the target of the drawing commands

VARIABLES scene, d,
          prog,   \* the program: flags read from ISR, bytes of the mouse read
          since,  \* kinds of events the handler has not answered
          typed,  \* key events that have to come out of the queue
          down,   \* keys held on the keyboard, and caps lock
          was,    \* where the mouse has been
          left

mvars == <<scene, d, prog, since, typed, down, was, left>>

Lines == {"keys", "mouse", "beam"}
Live(kind) == scene.kind = kind

\* a font with stripes that differ from character to character
MCFont(o) == (o * 53 + o \div 16) % 256

-----------------------------------------------------------------------------
(* Drawing: the target, with a spare byte behind each row, and a command   *)

W16(v) == <<(v % 65536) \div 256, v % 256>>
Words(s) == [i \in 1..(2 * Len(s)) |-> W16(s[(i + 1) \div 2])[2 - (i % 2)]]
Base == 4096
Stride(bpp) == (TargetW * bpp + 7) \div 8 + 1
TargetCmd(bpp) == <<1>> \o Byte24(Base) \o Words(<<Stride(bpp), TargetW, TargetH>>) \o <<bpp>>

Near == -1..TargetW
Draw(op, bpp, args) == [kind |-> "draw", op |-> op, bpp |-> bpp, args |-> args]
Edges == {VC_CFG_BASE + VC_CFG_SIZE - 2, VC_PSRAM_BASE - 1, Space - 2}  \* where memory begins, ends and wraps
DrawScenes ==
    {Draw(4, 4, ends) : ends \in {0, 3} \X {-1, 1} \X Near \X (-2..TargetH)}
    \cup {Draw(op, bpp, <<x, y, w, h>>) : op \in {5, 6}, bpp \in {1, 2, 4, 8}, x \in {-2, 1}, y \in {-1, 1}, w \in {-1, 1, 3, 9}, h \in {0, 1, 3}}
    \cup {Draw(op, 2, <<x, y, r>>) : op \in {7, 8}, x \in {-1, 2}, y \in {1, 3}, r \in -1..4}
    \cup {Draw(13, 4, <<x0, y0, x1, y1, x2, 3>>) : x0 \in {0, 4}, y0 \in {-2, 0}, x1 \in {-1, 3, 5}, y1 \in {0, 2, 5}, x2 \in {1, 6}}
    \cup {Draw(10, 8, <<src, dst, n>>) : src \in {Base, Base + 1, VC_PSRAM_BASE}, dst \in {Base - 1, Base, Base + 1, Base + 3, VC_PSRAM_BASE + 1}, n \in 0..4}
    \cup {Draw(10, 8, <<src, dst, n>>) : src \in {0, 1, Space - 2}, dst \in {0, 1, Space - 3, Space - 1}, n \in 2..4}
    \cup {Draw(11, 8, <<dst, n>>) : dst \in {Base} \cup Edges, n \in 0..4}
    \cup {Draw(3, bpp, <<x, y>>) : bpp \in {1, 2, 4, 8}, x \in Near, y \in {-1, 0, TargetH - 1, TargetH}}
    \cup {Draw(12, bpp, <<x, y, t>>) : bpp \in {2, 8}, x \in {-1, 0, 3}, y \in {-1, 2}, t \in {0, 1}}
    \cup {Draw(15, 1, <<x, y, ch>>) : x \in {-3, 0}, y \in {-2, 1}, ch \in {0, 65}}
    \cup {Draw(9, bpp, <<>>) : bpp \in {1, 2, 4, 8, 3}}

\* the bytes of the command; a BLIT takes 3 by 2 pixels from the address 512, 3 bytes a row
CommandOf(s) ==
    CASE s.op = 10 -> <<10>> \o Byte24(s.args[1]) \o Byte24(s.args[2]) \o Byte24(s.args[3])
      [] s.op = 11 -> <<11>> \o Byte24(s.args[1]) \o Byte24(s.args[2]) \o <<7>>
      [] s.op = 12 -> <<12>> \o Byte24(512) \o Words(<<3, 3, 2, s.args[1], s.args[2]>>) \o <<s.args[3]>>
      [] s.op = 15 -> <<15>> \o Words(<<s.args[1], s.args[2]>>) \o <<s.args[3]>>
      [] OTHER     -> <<s.op>> \o Words(s.args)

Sent(c, bytes) ==
    LET after[k \in 0..Len(bytes)] == IF k = 0 THEN c ELSE command_byte(after[k - 1], bytes[k])
    IN  after[Len(bytes)]

\* for a copy and a blit there is something to move
Contents(s) ==
    CASE s.op = 10 -> [a \in (Base - 1)..(Base + 6) |-> a - Base + 2] @@ [a \in VC_PSRAM_BASE..(VC_PSRAM_BASE + 6) |-> a - VC_PSRAM_BASE + 21]
                   @@ [a \in (0..4) \cup ((Space - 4)..(Space - 1)) |-> ((a + 4) % Space) + 31]
      [] s.op = 12 -> 512 :> 27 @@ 513 :> 0 @@ 514 :> 130 @@ 515 :> 0 @@ 516 :> 99 @@ 517 :> 5
      [] OTHER -> << >>
Fresh == device_reset(power_on, FALSE)
Prepared(s) ==
    LET c == Sent(Fresh.c, TargetCmd(s.bpp) \o <<2, 255>>)
    IN  [Fresh EXCEPT !.c = [c EXCEPT !.mem = Contents(s)]]

-----------------------------------------------------------------------------
(* Pictures: three sprites on three layers                                 *)

Picture(hires, layers, prios, xs, scroll, ctrl) ==
    [kind |-> "picture", hires |-> hires, layers |-> layers, prios |-> prios, xs |-> xs, scroll |-> scroll, ctrl |-> ctrl]
PictureScenes ==
    {Picture(h, l, p, x, 0, 15) : h \in {0, 1}, l \in {<<2, 2, 2>>, <<0, 1, 2>>}, x \in {<<0, 3, 5>>, <<-3, 0, 0>>},
             p \in {<<1, 1, 1>>, <<3, 2, 3>>, <<2, 3, 1>>, <<0, 3, 3>>, <<1, 0, 2>>}}
    \cup {Picture(1, <<l, 3, 3>>, <<0, 0, 0>>, <<0, 0, 0>>, s, 9) : l \in {0, 1, 2}, s \in {-3, 0, 5, 252}}
    \cup {Picture(0, <<1, 2, 0>>, <<1, 2, 3>>, <<1, 2, 3>>, 0, c) : c \in 0..15}

\* bitmaps at $2000 with a hole every third pixel, tiles at $3000 (the map at $3800), sprites at $4000
Layer(s, n) ==
    LET mode == s.layers[n] + 4 * s.hires + 24
    IN  <<mode, 0>> \o Byte24(IF s.layers[n] = 1 THEN 14336 ELSE IF s.layers[n] = 0 THEN VC_RESET_TEXT_MAP ELSE 8192 + n)
        \o Byte24(IF s.layers[n] = 0 THEN VC_RESET_FONT ELSE 12288) \o W16(s.scroll) \o W16(0) \o W16(24) \o <<n, 0>>
Dots(a, n, v) == [b \in a..(a + n - 1) |-> IF (b - a) % 3 = 0 THEN 0 ELSE v + ((b - a) % 7)]
SpriteEntry(s, k) == W16(528 + 2 * k) \o W16(s.xs[k]) \o W16(k - 2) \o <<64 * s.prios[k] + 16 * (k % 2) + 32 * (k \div 2), 128>>
Bytes(a, seq) == [b \in a..(a + Len(seq) - 1) |-> seq[b - a + 1]]
PictureMem(s) ==
    Bytes(VC_CFG_BASE, <<s.ctrl, 5, s.hires, 3, 0, 64, 0>>)
    @@ Bytes(VC_CFG_BASE + 16, Layer(s, 1) \o Layer(s, 2) \o Layer(s, 3))
    @@ Bytes(16384, SpriteEntry(s, 1) \o SpriteEntry(s, 2) \o SpriteEntry(s, 3))
    @@ Dots(8192, 120, 40) @@ Dots(12288, 192, 100) @@ Dots(528 * 32, 256, 200)
    @@ Bytes(14336, <<0, 1, 4, 2, 8, 0, 12, 1>>)
    @@ Bytes(VC_RESET_TEXT_MAP, <<65, 60, 0, 0, 66, 61, 62, 0>>)

-----------------------------------------------------------------------------

Init ==
    /\ prog = [isr |-> {}, mouse |-> <<>>] /\ since = {} /\ typed = <<>>
    /\ down = {} /\ was = {<<0, 0>>}
    /\ scene \in [kind : Lines] \cup DrawScenes \cup PictureScenes
    /\ left = [events |-> IF Live("mouse") THEN MaxEvents - 1 ELSE MaxEvents,
               lines |-> IF Live("mouse") THEN VC_LINES - 1 ELSE MaxLines,
               writes |-> IF Live("beam") THEN MaxWrites ELSE 1]
    /\ d = CASE scene.kind = "draw" -> Prepared(scene)
             [] scene.kind = "picture" -> [Fresh EXCEPT !.c.mem = PictureMem(scene)]
             [] OTHER -> Fresh

Card(c) == d' = [d EXCEPT !.c = c]
Use(what) == left[what] > 0 /\ left' = [left EXCEPT ![what] = @ - 1]

\* what a US keyboard types: the reference for key_char
KeyA == 4
Enter == 40
Caps == 57
LCtrl == 224
RShift == 229
Types(key, held) ==
    CASE key = KeyA -> IF LCtrl \in held THEN 1 ELSE IF (RShift \in held) # (Caps \in held) THEN 65 ELSE 97
      [] key = Enter -> 13
      [] OTHER -> 0

\* caps lock is remembered as a key held, the others as they are
Press(key) ==
    /\ Live("keys") /\ Use("events") /\ (key \notin down \/ key = Caps)
    /\ down' = IF key = Caps /\ Caps \in down THEN down \ {Caps} ELSE down \cup {key}
    /\ Card(vc_key(d.c, key, TRUE))
    /\ IF Len(typed) < VC_KEY_QUEUE
       THEN typed' = Append(typed, <<key, Types(key, down')>>) /\ since' = since \cup {"INPUT"}
       ELSE UNCHANGED <<typed, since>>
    /\ UNCHANGED <<scene, prog, was>>

Release(key) ==
    /\ Live("keys") /\ Use("events") /\ key \in down \ {Caps}
    /\ down' = down \ {key}
    /\ Card(vc_key(d.c, key, FALSE))
    /\ IF Len(typed) < VC_KEY_QUEUE
       THEN typed' = Append(typed, <<key, 128 + Types(key, down')>>) /\ since' = since \cup {"INPUT"}
       ELSE UNCHANGED <<typed, since>>
    /\ UNCHANGED <<scene, prog, was>>

TakeKey ==
    /\ Live("keys") /\ Card(vc_read(d.c, 27))
    /\ typed' = IF typed = <<>> THEN <<>> ELSE Tail(typed)
    /\ UNCHANGED <<scene, prog, since, down, was, left>>

MouseMoves ==
    /\ Live("mouse") /\ Use("events")
    /\ \/ \E to \in {<<1, 1>>, <<-5, 99>>}, b \in {0, 1} : Card(vc_mouse_to(d.c, to[1], to[2], b))
       \/ \E by \in {<<2, 1>>, <<-1, 0>>} : Card(vc_mouse_by(d.c, by[1], by[2], 0))
       \/ \E w \in {-100, 100} : Card(vc_mouse_wheel(d.c, w))
    /\ since' = IF d'.c.mouse # d.c.mouse \/ d'.c.buttons # d.c.buttons \/ d'.c.wheel # d.c.wheel
                THEN since \cup {"INPUT"} ELSE since
    /\ was' = was \cup {d'.c.mouse}
    /\ UNCHANGED <<scene, prog, typed, down>>

\* the program reads X high (the snapshot), X low, Y high, Y low
ReadMouse ==
    /\ Live("mouse")
    /\ LET c == vc_read(d.c, 21 + (Len(prog.mouse) % 4))
       IN  Card(c) /\ prog' = [prog EXCEPT !.mouse = IF Len(@) = 4 THEN <<c.out>> ELSE Append(@, c.out)]
    /\ UNCHANGED <<scene, since, typed, down, was, left>>

ReadWheel == Live("mouse") /\ Card(vc_read(d.c, 26)) /\ UNCHANGED <<scene, prog, since, typed, down, was, left>>

\* the handler reads the flags and later writes back what it has read
ReadIsr ==
    /\ scene.kind \in Lines
    /\ LET c == vc_read(d.c, 15) IN Card(c) /\ prog' = [prog EXCEPT !.isr = Flags(c.out)]
    /\ UNCHANGED <<scene, since, typed, down, was, left>>
ClearIsr ==
    /\ scene.kind \in Lines /\ prog.isr # {}
    /\ d' = device_write(d, 15, FlagByte(prog.isr))
    /\ prog' = [prog EXCEPT !.isr = {}] /\ since' = since \ prog.isr
    /\ UNCHANGED <<scene, typed, down, was, left>>

\* the enables, the line of the line interrupt, IN_CTRL, a command, the card's reset
Settings == [keys |-> {<<14, 8>>, <<20, 2>>, <<20, 130>>, <<12, 128>>},
             mouse |-> {<<14, 8>>, <<20, 1>>, <<12, 128>>},
             beam |-> {<<14, 3>>, <<17, 1>>, <<17, 2>>, <<20, 1>>, <<18, 0>>, <<18, 200>>, <<18, 2>>, <<5, 9>>, <<12, 128>>}]
WriteSetting ==
    /\ scene.kind \in Lines /\ Use("writes")
    /\ \E s \in Settings[scene.kind] :
          /\ d' = device_write(d, s[1], s[2])
          /\ since' = IF s = <<12, 128>> THEN {}
                      ELSE IF s[1] = 18 /\ (d.c.cmd # <<>> \/ s[2] # 2) THEN since \cup {"CMDDONE"} ELSE since
          /\ typed' = IF s \in {<<20, 130>>, <<12, 128>>} THEN <<>> ELSE typed
    /\ UNCHANGED <<scene, prog, down, was>>

BeamMoves ==
    /\ scene.kind \in {"beam", "mouse"}
    /\ \E due \in 1..2, wanted \in (IF Live("beam") THEN BOOLEAN ELSE {FALSE}) :
          /\ left.lines >= due /\ left' = [left EXCEPT !.lines = @ - due]
          /\ d' = tick(d, due, wanted)
          /\ LET begun == {(d.lines + k) % VC_LINES : k \in 0..(due - 1)}
             IN  since' = since \cup (IF VC_HEIGHT \in begun THEN {"VSYNC"} ELSE {})
                                \cup (IF d.c.irq_line \in begun THEN {"LINE"} ELSE {})
    /\ UNCHANGED <<scene, prog, typed, down, was>>

MachineReset ==
    /\ scene.kind \in Lines /\ Use("writes")
    /\ d' = device_reset(d, TRUE) /\ since' = {} /\ typed' = <<>>
    /\ prog' = [prog EXCEPT !.isr = {}]
    /\ UNCHANGED <<scene, down, was>>

SendCommand ==
    /\ Live("draw") /\ left.writes > 0
    /\ Card(Sent(d.c, CommandOf(scene))) /\ left' = [left EXCEPT !.writes = 0]
    /\ UNCHANGED <<scene, prog, since, typed, down, was>>

Next ==
    \/ \E key \in {KeyA, Enter, Caps, LCtrl, RShift} : Press(key) \/ Release(key)
    \/ TakeKey \/ MouseMoves \/ ReadMouse \/ ReadWheel \/ ReadIsr \/ ClearIsr
    \/ WriteSetting \/ BeamMoves \/ MachineReset \/ SendCommand

Spec == Init /\ [][Next]_mvars

-----------------------------------------------------------------------------

\* An event is flagged until the handler writes back a 1 that it has read for its
\* kind: clearing others never loses it, though it came between the reading and the
\* clearing (vc_write, ISR); an enabled one holds the interrupt line (vc_irq).
EventSeen ==
    /\ since \subseteq d.c.isr
    /\ since \cap d.c.ien # {} => vc_irq(d.c)

\* The queue holds the key events that were typed while there was room, in order,
\* with the characters of the modifiers that were down at the time.
KeysKept ==
    /\ d.c.len = Len(typed)
    /\ \A i \in 1..Len(typed) : d.c.keyq[(d.c.head + i - 1) % VC_KEY_QUEUE] = typed[i]
    /\ Live("keys") => d.c.mods = {key - 224 : key \in down \cap 224..231} /\ d.c.caps_lock = (Caps \in down)

\* The four bytes of a position are of one position where the mouse has been.
MouseUntorn ==
    Len(prog.mouse) = 4 => <<prog.mouse[1] * 256 + prog.mouse[2], prog.mouse[3] * 256 + prog.mouse[4]>> \in was

\* What a program reads of the keyboard and the mouse is what was done to them.
InputFaithful == KeysKept /\ MouseUntorn /\ d.c.wheel \in -128..127

\* A picture handed to the window has all its lines from one frame.
WholeFrames ==
    d.sent.picture => \A y \in 0..(VC_HEIGHT - 1) : d.sent.rows[y] = d.sent.at - (VC_HEIGHT - y)

-----------------------------------------------------------------------------
(* Drawing                                                                 *)

Finished(ops) == Live("draw") /\ left.writes = 0 /\ scene.op \in ops
Target == d.c.t
Full == (0..(TargetW - 1)) \X (0..(TargetH - 1))
Lit == {p \in Full : pget(d.c.mem, Target, p[1], p[2]) = 2^Target.bpp - 1}
A(i) == scene.args[i]

\* No command of points, lines and areas touches a bit outside the target.
Within ==
    Finished({3, 4, 5, 6, 7, 8, 9, 13, 15}) =>
        /\ \A y \in 0..(TargetH - 1), x \in TargetW..((Stride(scene.bpp) * 8) \div Target.bpp - 1) : pget(d.c.mem, Target, x, y) = 0
        /\ \A a \in DOMAIN d.c.mem : a \in Base..(Base + TargetH * Stride(scene.bpp) - 1)

\* A line has one pixel in every column (or row) of its longer side, at most half a pixel away.
LineDrawn ==
    Finished({4}) =>
        LET dx == A(3) - A(1)
            dy == A(4) - A(2)
            long == IF Abs(dx) >= Abs(dy) THEN 1 ELSE 2
            n == IF long = 1 THEN Abs(dx) ELSE Abs(dy)
            Between(v, a, b) == (a <= v /\ v <= b) \/ (b <= v /\ v <= a)
            Close(p) == /\ Between(p[long], A(long), A(long + 2))
                        /\ 2 * Abs((p[1] - A(1)) * dy - (p[2] - A(2)) * dx) <= n
            Around == (-3..(TargetW + 2)) \X (-3..(TargetH + 2))
        IN  /\ \A p \in Lit : Close(p)
            /\ \A v \in (IF long = 1 THEN 0..(TargetW - 1) ELSE 0..(TargetH - 1)) :
                  LET near == {p \in Around : p[long] = v /\ Close(p)}
                  IN  near # {} /\ near \subseteq Full => Cardinality({p \in Lit : p[long] = v}) = 1

RectDrawn ==
    /\ Finished({3}) => Lit = {p \in Full : p = <<A(1), A(2)>>}
    /\ Finished({6}) => Lit = {p \in Full : p[1] - A(1) \in 0..(A(3) - 1) /\ p[2] - A(2) \in 0..(A(4) - 1)}
    /\ Finished({5}) => Lit = {p \in Full : /\ p[1] - A(1) \in 0..(A(3) - 1) /\ p[2] - A(2) \in 0..(A(4) - 1)
                                            /\ p[1] - A(1) \in {0, A(3) - 1} \/ p[2] - A(2) \in {0, A(4) - 1}}
    /\ Finished({9}) => Lit = (IF scene.bpp = 3 THEN {} ELSE Full)

\* A circle stays within a pixel of its radius, and a disc has no hole.
CircleDrawn ==
    LET Dist(p) == (p[1] - A(1)) * (p[1] - A(1)) + (p[2] - A(2)) * (p[2] - A(2))
        r == A(3)
    IN  /\ Finished({7}) => \A p \in Lit : (r - 1) * (r - 1) < Dist(p) + (IF r = 0 THEN 2 ELSE 0) /\ Dist(p) < (r + 1) * (r + 1)
        /\ Finished({7}) /\ r >= 0 => \A q \in {<<A(1) + r, A(2)>>, <<A(1) - r, A(2)>>, <<A(1), A(2) + r>>, <<A(1), A(2) - r>>} \cap Full : q \in Lit
        /\ Finished({8}) => \A p \in Full : (p \in Lit => r >= 0 /\ Dist(p) < (r + 1) * (r + 1)) /\ (r >= 0 /\ Dist(p) <= r * r => p \in Lit)

\* A triangle has every pixel inside it, none beyond its corners, in whatever order they are given.
TriangleDrawn ==
    Finished({13}) =>
        LET P == <<A(1), A(2)>>
            Q == <<A(3), A(4)>>
            R == <<A(5), A(6)>>
            Side(a, b, p) == (b[1] - a[1]) * (p[2] - a[2]) - (b[2] - a[2]) * (p[1] - a[1])
            Inside(p) == \/ Side(P, Q, p) >= 0 /\ Side(Q, R, p) >= 0 /\ Side(R, P, p) >= 0
                         \/ Side(P, Q, p) <= 0 /\ Side(Q, R, p) <= 0 /\ Side(R, P, p) <= 0
            Box(i) == Min({P[i], Q[i], R[i]})..Max({P[i], Q[i], R[i]})
        IN  Side(P, Q, R) # 0 =>
                /\ \A p \in Full : Inside(p) => p \in Lit
                /\ \A p \in Lit : p[1] \in Box(1) /\ p[2] \in Box(2)
                /\ Lit = triangle(R, Q, P) \cap Full /\ Lit = triangle(Q, P, R) \cap Full

\* A copy (of up to half the address space) moves the bytes that were there, over the
\* end of the address space too and however source and destination overlap, but for
\* one case: the direction is chosen by comparing the addresses as they are, so that a
\* destination that begins inside the source behind its wrap is copied upwards over
\* what is still to be read.
CopyMoved ==
    Finished({10}) /\ ~(A(2) < A(1) /\ A(2) + Space < A(1) + A(3)) =>
        LET old == Contents(scene)
            Was(a) == IF a \in DOMAIN old THEN old[a] ELSE reset_byte(a)
            Behind(a, from) == (a - from) % Space
        IN  \A a \in DOMAIN old \cup DOMAIN d.c.mem :
               vc_peek(d.c.mem, a) = IF Behind(a, A(2)) < A(3) THEN Was((A(1) + Behind(a, A(2))) % Space) ELSE Was(a)

\* A fill sets the bytes it is told to, where there is memory, and no other.
FillDone ==
    Finished({11}) =>
        LET area == {(A(1) + k) % Space : k \in 0..(A(2) - 1)}
        IN  \A a \in area \cup DOMAIN d.c.mem :
               vc_peek(d.c.mem, a) = IF a \in area /\ IsMemory(a) THEN 7 ELSE reset_byte(a)

\* A blit puts the source's pixels where they belong, but for the transparent ones.
BlitPut ==
    Finished({12}) =>
        LET from == [Target EXCEPT !.addr = 512, !.stride = 3]
        IN  \A p \in Full :
               LET i == p[1] - A(1)
                   j == p[2] - A(2)
               IN  pget(d.c.mem, Target, p[1], p[2]) = IF i \in 0..2 /\ j \in 0..1 THEN pget(Contents(scene), from, i, j) ELSE 0

CharDrawn ==
    Finished({15}) =>
        Lit = {p \in Full : p[1] - A(1) \in 0..7 /\ p[2] - A(2) \in 0..15
                            /\ BitOf(MCFont(A(3) * 16 + p[2] - A(2)), 7 - (p[1] - A(1))) = 1}

\* Every command that draws sets the pixels, or the bytes, that its geometry says, cut
\* at the target's edges and going round at the end of the address space, and no other
\* (of COPY see CopyMoved).
DrawsExactly ==
    Within /\ LineDrawn /\ RectDrawn /\ CircleDrawn /\ TriangleDrawn /\ CopyMoved /\ FillDone /\ BlitPut /\ CharDrawn

-----------------------------------------------------------------------------
(* Pictures                                                                *)

\* The front one of a sequence of colors from front to back, 0 being transparent.
Front1(colors) == LET on == SelectSeq(colors, LAMBDA v : v # 0) IN IF on = <<>> THEN 0 ELSE on[1]

\* The sprites on the line sy of their plane, front to back: those switched on whose
\* eight rows it is in, but for each that comes behind VC_MAX_LINE_SPRITES of them.
SpritesOn(sy) ==
    LET On(k) == BitOf(scene.ctrl, 3) = 1 /\ scene.prios[k] # 0 /\ sy - (k - 2) \in 0..7
        Counted(k) == On(k) /\ Cardinality({j \in 1..(k - 1) : On(j)}) < VC_MAX_LINE_SPRITES
    IN  [k \in 1..Cardinality({j \in 1..3 : Counted(j)}) |->
            CHOOSE j \in 1..3 : Counted(j) /\ Cardinality({i \in 1..j : Counted(i)}) = k]

\* Whatever is in front shows: of the layers the higher, before a layer its
\* sprites, and of those the first in the table; behind everything the backdrop.
PictureOrdered ==
    LET Row(k, sy) == IF k \div 2 = 1 THEN 7 - (sy - (k - 2)) ELSE sy - (k - 2)
        Dot(k, sx, sy) == SpritePixel(d.c.mem, SpriteEntry(scene, k), Row(k, sy), sx - scene.xs[k])
        LayerAt(n, sx, sy) == IF BitOf(scene.ctrl, n) = 0 THEN 0 ELSE LayerPixel(d.c.mem, LayerSettings(d.c.mem, n), sx, sy)
        Sprites(n, sx, sy) ==
            LET mine == SelectSeq(SpritesOn(sy), LAMBDA k : scene.prios[k] = n + 1)
            IN  [i \in 1..Len(mine) |-> Dot(mine[i], sx, sy)]
        Level(n, sx, sy) == Sprites(n, sx, sy) \o <<LayerAt(n, sx, sy)>>
        Stack(sx, sy) == Level(2, sx, sy) \o Level(1, sx, sy) \o Level(0, sx, sy) \o <<5>>
        scale == IF scene.hires = 1 THEN 1 ELSE 2
    IN  Live("picture") =>
            \A y \in {0, 1, 6} :
                LET got == vc_render_line(d.c.mem, y)
                IN  \A x \in 0..(VC_WIDTH - 1) : got[x] = reset_color(Front1(Stack(x \div scale, y \div scale)))
=============================================================================
