------------------------------ MODULE VideoCard ------------------------------
(***************************************************************************)
(* The video card as the machine sees it: its registers, interrupt flags,  *)
(* mouse, keyboard queue and beam (vc.c), and the device that puts it on   *)
(* the bus and hands frames to the window (video_device.cpp).  A card is   *)
(* a record with the fields of vc_card; flags are sets of names.  Register *)
(* operations return the card with the byte read in the field out.         *)
(***************************************************************************)
EXTENDS VcDraw

CONSTANTS VC_LINES,      \* lines of a frame, the blank ones included
          VC_KEY_QUEUE   \* key events the card holds

ASSUME CardConstants ==
    /\ VC_KEY_QUEUE \in Nat \ {0} /\ VC_WIDTH \in Nat \ {0} /\ VC_HEIGHT \in Nat \ {0}
    /\ VC_LINES \in Nat /\ VC_HEIGHT < VC_LINES

VC_IRQ == [VSYNC |-> 1, LINE |-> 2, CMDDONE |-> 4, INPUT |-> 8]
Flags(v) == {f \in DOMAIN VC_IRQ : (v \div VC_IRQ[f]) % 2 = 1}
MaskOf(s, f) == IF f \in s THEN VC_IRQ[f] ELSE 0
FlagByte(s) == MaskOf(s, "VSYNC") + MaskOf(s, "LINE") + MaskOf(s, "CMDDONE") + MaskOf(s, "INPUT")

NoTarget == [addr |-> 0, stride |-> 0, w |-> 0, h |-> 0, bpp |-> 8]

\* vc_reset(): the mouse, the keys held, the beam and the PSRAM are left alone.
vc_reset(c) ==
    [c EXCEPT !.mem = [a \in {b \in DOMAIN c.mem : b >= VC_PSRAM_BASE} |-> c.mem[a]],
              !.addr = <<0, 0>>, !.inc = <<1, 1>>, !.ien = {}, !.isr = {}, !.irq_line = 0, !.cmd = <<>>,
              !.t = NoTarget, !.color = 15, !.font = VC_RESET_FONT, !.font_h = 16,
              !.pointer = FALSE, !.keys = FALSE, !.wheel = 0, !.key_char = 0, !.head = 0, !.len = 0]

calloc ==
    [mem |-> << >>, addr |-> <<0, 0>>, inc |-> <<0, 0>>, ien |-> {}, isr |-> {}, frame |-> 0, line |-> 0,
     irq_line |-> 0, cmd |-> <<>>, t |-> NoTarget, color |-> 0, font |-> 0, font_h |-> 0,
     pointer |-> FALSE, keys |-> FALSE, mouse |-> <<0, 0>>, snap |-> <<0, 0>>, buttons |-> 0, wheel |-> 0,
     mods |-> {}, caps_lock |-> FALSE, key_char |-> 0,
     keyq |-> [i \in 0..(VC_KEY_QUEUE - 1) |-> <<0, 0>>], head |-> 0, len |-> 0, out |-> 0]

Raise(c, f) == [c EXCEPT !.isr = @ \cup {f}]

\* a command runs when its last parameter has come
command_byte(c, v) ==
    LET cmd == Append(c.cmd, v)
    IN  IF Len(cmd) <= Params(cmd[1]) THEN [c EXCEPT !.cmd = cmd]
        ELSE Raise([run_command(c, cmd) EXCEPT !.cmd = <<>>], "CMDDONE")

-----------------------------------------------------------------------------
(* Registers, by name; each of the two ports has its own                   *)

PortRegs == <<"ADDR_H", "ADDR_M", "ADDR_L", "INC_H", "INC_L", "DATA">>
CardRegs == <<"CTRL", "STATUS", "IEN", "ISR", "LINE_H", "LINE_L", "CMD", "FRAME", "IN_CTRL", "MOUSE_X_H", "MOUSE_X_L",
              "MOUSE_Y_H", "MOUSE_Y_L", "MOUSE_BTN", "MOUSE_WHEEL", "KEY", "KEY_CHAR", "KEY_MODS", "ID", "VERSION">>
RegName(reg) == LET r == reg % 32 IN IF r < 12 THEN PortRegs[(r % 6) + 1] ELSE CardRegs[r - 11]
PortOf(reg) == IF (reg % 32) \div 6 = 0 THEN 1 ELSE 2

Signed16(v) == IF v >= 32768 THEN v - 65536 ELSE v
step_port(c, p) == [c EXCEPT !.addr[p] = (@ + Signed16(c.inc[p])) % Space]

Ret(c, v) == [c EXCEPT !.out = v]
OneBit(i, on) == IF on THEN 2^i ELSE 0
ModsByte(mods) == MapThenSumSet(LAMBDA i : 2^i, mods)

take_key(c) ==
    IF c.len = 0 THEN [c EXCEPT !.key_char = 0, !.out = 0]
    ELSE [c EXCEPT !.key_char = c.keyq[c.head][2], !.out = c.keyq[c.head][1],
                   !.head = (@ + 1) % VC_KEY_QUEUE, !.len = @ - 1]

vc_read(c, reg) ==
    LET n == RegName(reg)
        p == PortOf(reg)
    IN  CASE n = "ADDR_H" -> Ret(c, c.addr[p] \div 65536)
          [] n = "ADDR_M" -> Ret(c, (c.addr[p] \div 256) % 256)
          [] n = "ADDR_L" -> Ret(c, c.addr[p] % 256)
          [] n = "INC_H"  -> Ret(c, c.inc[p] \div 256)
          [] n = "INC_L"  -> Ret(c, c.inc[p] % 256)
          [] n = "DATA"   -> step_port(Ret(c, vc_peek(c.mem, c.addr[p])), p)
          [] n = "STATUS" -> Ret(c, OneBit(7, c.line >= VC_HEIGHT) + OneBit(6, c.cmd # <<>>) + OneBit(4, c.len # 0))
          [] n = "IEN"    -> Ret(c, FlagByte(c.ien))
          [] n = "ISR"    -> Ret(c, FlagByte(c.isr))
          [] n = "LINE_H" -> Ret(c, c.line \div 256)
          [] n = "LINE_L" -> Ret(c, c.line % 256)
          [] n = "FRAME"  -> Ret(c, c.frame)
          [] n = "IN_CTRL" -> Ret(c, OneBit(0, c.pointer) + OneBit(1, c.keys))
          [] n = "MOUSE_X_H" -> Ret([c EXCEPT !.snap = c.mouse], c.mouse[1] \div 256)
          [] n = "MOUSE_X_L" -> Ret(c, c.snap[1] % 256)
          [] n = "MOUSE_Y_H" -> Ret(c, c.snap[2] \div 256)
          [] n = "MOUSE_Y_L" -> Ret(c, c.snap[2] % 256)
          [] n = "MOUSE_BTN" -> Ret(c, c.buttons)
          [] n = "MOUSE_WHEEL" -> Ret([c EXCEPT !.wheel = 0], c.wheel % 256)
          [] n = "KEY"    -> take_key(c)
          [] n = "KEY_CHAR" -> Ret(c, c.key_char)
          [] n = "KEY_MODS" -> Ret(c, ModsByte(c.mods))
          [] n = "ID"     -> Ret(c, 86)
          [] n = "VERSION" -> Ret(c, 17)
          [] OTHER        -> Ret(c, 0)

WithByte(word, at, v) == word - ((word \div at) % 256) * at + v * at

\* Mutant: any write to ISR clears every flag.
ClearedAll(isr, v) == {}
\* writing 1s clears flags
Cleared(isr, v) == isr \ Flags(v)

vc_write(c, reg, v) ==
    LET n == RegName(reg)
        p == PortOf(reg)
    IN  CASE n = "ADDR_H" -> [c EXCEPT !.addr[p] = WithByte(@, 65536, v)]
          [] n = "ADDR_M" -> [c EXCEPT !.addr[p] = WithByte(@, 256, v)]
          [] n = "ADDR_L" -> [c EXCEPT !.addr[p] = WithByte(@, 1, v)]
          [] n = "INC_H"  -> [c EXCEPT !.inc[p] = WithByte(@, 256, v)]
          [] n = "INC_L"  -> [c EXCEPT !.inc[p] = WithByte(@, 1, v)]
          [] n = "DATA"   -> step_port([c EXCEPT !.mem = vc_poke(@, c.addr[p], v)], p)
          [] n = "CTRL"   -> IF v >= 128 THEN vc_reset(c) ELSE c
          [] n = "IEN"    -> [c EXCEPT !.ien = Flags(v)]
          [] n = "ISR"    -> [c EXCEPT !.isr = Cleared(@, v)]
          [] n = "LINE_H" -> [c EXCEPT !.irq_line = WithByte(@, 256, v % 4)]
          [] n = "LINE_L" -> [c EXCEPT !.irq_line = WithByte(@, 1, v)]
          [] n = "CMD"    -> command_byte(c, v)
          [] n = "IN_CTRL" -> LET d == [c EXCEPT !.pointer = BitOf(v, 0) = 1, !.keys = BitOf(v, 1) = 1]
                              IN  IF v >= 128 THEN [d EXCEPT !.head = 0, !.len = 0] ELSE d
          [] OTHER        -> c

-----------------------------------------------------------------------------
(* Input                                                                   *)

Clamp(v, top) == IF v < 0 THEN 0 ELSE IF v > top THEN top ELSE v

vc_mouse_to(c, x, y, buttons) ==
    LET at == <<Clamp(x, VC_WIDTH - 1), Clamp(y, VC_HEIGHT - 1)>>
        b == 128 + (buttons % 8)
        d == [c EXCEPT !.mouse = at, !.buttons = b]
    IN  IF at # c.mouse \/ b # c.buttons THEN Raise(d, "INPUT") ELSE d

vc_mouse_by(c, dx, dy, buttons) == vc_mouse_to(c, c.mouse[1] + dx, c.mouse[2] + dy, buttons)

vc_mouse_wheel(c, clicks) ==
    LET w == c.wheel + clicks
    IN  IF clicks = 0 THEN c
        ELSE Raise([c EXCEPT !.wheel = IF w > 127 THEN 127 ELSE IF w < -128 THEN -128 ELSE w,
                             !.buttons = IF @ < 128 THEN @ + 128 ELSE @], "INPUT")

\* what the keys from $1E (1) to $38 (/) type, plain and shifted, and the keypad
k_keys == <<49, 50, 51, 52, 53, 54, 55, 56, 57, 48, 13, 27, 8, 9, 32, 45, 61, 91, 93, 92, 35, 59, 39, 96, 44, 46, 47>>
k_shifted == <<33, 64, 35, 36, 37, 94, 38, 42, 40, 41, 13, 27, 8, 9, 32, 95, 43, 123, 125, 124, 126, 58, 34, 126, 60, 62, 63>>
k_keypad == <<47, 42, 45, 43, 13, 49, 50, 51, 52, 53, 54, 55, 56, 57, 48, 46>>
Shifts == {1, 5}
Ctrls == {0, 4}

key_char(c, usage) ==
    LET shift == c.mods \cap Shifts # {}
        ch == IF usage \in 4..29 THEN usage - 4 + (IF shift # c.caps_lock THEN 65 ELSE 97)
              ELSE IF usage \in 30..56 THEN (IF shift THEN k_shifted ELSE k_keys)[usage - 29]
              ELSE IF usage \in 84..99 THEN k_keypad[usage - 83]
              ELSE IF usage = 76 THEN 127 ELSE 0
    IN  IF ch \in 64..126 /\ c.mods \cap Ctrls # {} THEN ch % 32 ELSE ch

\* the modifiers follow every event, also one the full queue loses
Held(c, usage, down) ==
    IF usage \in 224..231 THEN [c EXCEPT !.mods = IF down THEN @ \cup {usage - 224} ELSE @ \ {usage - 224}]
    ELSE IF usage = 57 /\ down THEN [c EXCEPT !.caps_lock = ~@]
    ELSE c

\* Mutant: a key that finds the queue full does not change the held modifiers.
KeyFullFirst(c, usage, down) ==
    LET d == Held(c, usage, down)
    IN  IF usage = 0 \/ c.len = VC_KEY_QUEUE THEN c
        ELSE Raise([d EXCEPT !.keyq[(d.head + d.len) % VC_KEY_QUEUE] = <<usage, key_char(d, usage) + (IF down THEN 0 ELSE 128)>>,
                             !.len = @ + 1], "INPUT")
vc_key(c, usage, down) ==
    LET d == Held(c, usage, down)
    IN  IF usage = 0 \/ d.len = VC_KEY_QUEUE THEN d
        ELSE Raise([d EXCEPT !.keyq[(d.head + d.len) % VC_KEY_QUEUE] = <<usage, key_char(d, usage) + (IF down THEN 0 ELSE 128)>>,
                             !.len = @ + 1], "INPUT")

vc_irq(c) == c.ien \cap c.isr # {}

-----------------------------------------------------------------------------
(* The beam                                                                *)

\* sprite 0 goes to the mouse, in the sprites' pixels
move_pointer(c) ==
    LET s == Scale(SpritesHires(c.mem))
        a == be24(Setting(c.mem, 4, 3), 1)
        x == c.mouse[1] \div s
        y == c.mouse[2] \div s
        Put(mem, i, v) == vc_poke(mem, (a + i) % VC_VRAM_SIZE, v)
    IN  [c EXCEPT !.mem = Put(Put(Put(Put(@, 2, x \div 256), 3, x % 256), 4, y \div 256), 5, y % 256)]

vc_begin_line(c, n) ==
    LET d == [c EXCEPT !.line = n]
        v == IF n = VC_HEIGHT THEN Raise([d EXCEPT !.frame = (@ + 1) % 256], "VSYNC") ELSE d
        p == IF n = VC_HEIGHT /\ c.pointer THEN move_pointer(v) ELSE v
    IN  IF n = c.irq_line THEN Raise(p, "LINE") ELSE p

(* VideoDevice: d = [c, lines, active, drawing, rows, sent], where rows     *)
(* gives for every row of the picture the count of lines begun when it was *)
(* drawn, and sent is what the last call of the sink's frame() was given,  *)
(* and when.  The clock that says how many lines are due is left out.      *)

power_on == [c |-> calloc, lines |-> 0, active |-> FALSE, drawing |-> FALSE, rows |-> [y \in 0..(VC_HEIGHT - 1) |-> -1],
             sent |-> [picture |-> FALSE, rows |-> << >>, at |-> 0]]

\* Mutant: a picture is begun in the middle of a frame.
DrawingAnyLine(d, n, wanted) == d.active /\ wanted
Drawing(d, n, wanted) == IF n = 0 THEN d.active /\ wanted ELSE d.drawing

begin_line(d, wanted) ==
    LET n == d.lines % VC_LINES
        drawing == Drawing(d, n, wanted)
        c == vc_begin_line(d.c, n)
    IN  [d EXCEPT !.c = c, !.drawing = drawing, !.lines = @ + 1,
                  !.rows = IF n < VC_HEIGHT /\ drawing THEN [@ EXCEPT ![n] = d.lines] ELSE @,
                  !.sent = IF n = VC_HEIGHT /\ d.active THEN [picture |-> drawing, rows |-> d.rows, at |-> d.lines] ELSE @]

\* tick() begins the lines that are due, none or several; the sink is asked at each line 0
tick(d, due, wanted) ==
    LET after[k \in 0..due] == IF k = 0 THEN d ELSE begin_line(after[k - 1], wanted)
    IN  after[due]

device_write(d, reg, v) == [d EXCEPT !.active = TRUE, !.c = vc_write(@, reg, v)]
device_reset(d, wanted) ==
    tick([d EXCEPT !.c = [vc_reset(d.c) EXCEPT !.line = 0, !.frame = 0], !.lines = 0,
                   !.active = FALSE, !.drawing = FALSE], 1, wanted)
=============================================================================
