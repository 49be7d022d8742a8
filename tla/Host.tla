-------------------------------- MODULE Host --------------------------------
(***************************************************************************)
(* The emulator program around the machine, as built on Linux: main() of   *)
(* basic309_sdboot_demo.cpp, which runs the machine in turns with passing  *)
(* on what was typed; VideoOut (video_out.cpp), which shows the card's     *)
(* frames in another program's window, through a pipe each way; the two    *)
(* threads of that program (pugputer_video.cpp); and the bridge to a       *)
(* serial port (com_port_bridge.cpp).                                      *)
(*                                                                         *)
(* A frame goes down its pipe in pieces, the header first; what is done in *)
(* the window comes back as bytes.  The clock that paces frames, the       *)
(* messages and the making of windows and terminals are left out.          *)
(***************************************************************************)
EXTENDS VideoCard, SrecLoader

CONSTANTS ReadSize,     \* bytes a read from the window's pipe takes
          UpSize,       \* bytes the window's pipe holds
          DownSize,     \* pieces of frames the other pipe holds
          FramePieces,  \* pieces of a frame's pixels
          PortSize,     \* bytes the bridge moves at a time, each way
          RxLimit       \* bytes waiting to arrive at the UART

ASSUME HostConstants ==
    /\ ReadSize \in Nat \ {0} /\ UpSize \in Nat /\ UpSize >= 7
    /\ DownSize \in Nat \ {0} /\ FramePieces \in Nat \ {0}
    /\ PortSize \in Nat \ {0} /\ RxLimit \in Nat

VARIABLES
    opts,  \* the options: video, com (a bridge that could be opened)
    em,    \* the emulator's thread: where it is, and the frame it is sending
    out,   \* VideoOut::Impl and opened_
    win,   \* the window program's main thread
    rd,    \* its other thread, and the frame the two share
    down, up, \* the pipes
    card, uart, tty, \* the card, the UART's queues, what waits at the terminal
    br, port, \* the bridge; the serial port and who is at its other end
    hist   \* what has happened: inputs sent and taken, bytes to and from the port

hvars == <<opts, em, out, win, rd, down, up, card, uart, tty, br, port, hist>>
screen == <<out, win, rd, down, up>>
serial == <<uart, tty, br, port>>

Step(at) == em' = [em EXCEPT !.at = at]
Prefix(s, n) == SubSeq(s, 1, Min({n, Len(s)}))
Rest(s, n) == SubSeq(s, Min({n, Len(s)}) + 1, Len(s))

\* bytes for the UART, one after the other; that it refuses some is nobody's concern
rx_enqueue(q, bytes) == q \o Prefix(bytes, RxLimit - Len(q))

-----------------------------------------------------------------------------
(* What the window sends, and how the emulator reads it                    *)

Char(b) == [kind |-> "Char", code |-> b]
Key(u, held) == [kind |-> "Key", code |-> u, down |-> held]
Mouse(x, y, b) == [kind |-> "Mouse", x |-> x, y |-> y, buttons |-> b]
Wheel(n) == [kind |-> "Wheel", clicks |-> n]

Hi(v) == (v % 65536) \div 256
Lo(v) == v % 256

\* characters as they are, the rest behind $FF: 'K', 'M', 'W'
send(in) ==
    CASE in.kind = "Char"  -> <<in.code>>
      [] in.kind = "Key"   -> <<255, 75, in.code, IF in.down THEN 1 ELSE 0>>
      [] in.kind = "Mouse" -> <<255, 77, Hi(in.x), Lo(in.x), Hi(in.y), Lo(in.y), in.buttons>>
      [] in.kind = "Wheel" -> <<255, 87, Lo(in.clicks)>>

RecordLen(k) == IF k = 75 THEN 4 ELSE IF k = 77 THEN 7 ELSE IF k = 87 THEN 3 ELSE 2
Record(r) ==
    CASE r[2] = 75 -> <<Key(r[3], r[4] # 0)>>
      [] r[2] = 77 -> <<Mouse(s16(r, 3), s16(r, 5), r[7])>>
      [] r[2] = 87 -> <<Wheel(IF r[3] >= 128 THEN r[3] - 256 ELSE r[3])>>
      [] OTHER     -> <<>>

\* Mutant: what is left of a read is thrown away.
KeptNothing(g) == <<>>
\* a record of which the rest is still on its way stays for the next read
Kept(g) == g

\* one more input of the bytes s.g, if the next one is all there
Parsed(s) ==
    LET len == IF s.g[1] # 255 THEN 1 ELSE IF Len(s.g) < 2 THEN 2 ELSE RecordLen(s.g[2])
    IN  IF s.g = <<>> \/ len > Len(s.g) THEN s
        ELSE [g |-> Rest(s.g, len), input |-> s.input \o (IF len = 1 THEN <<Char(s.g[1])>> ELSE Record(s.g))]

\* The inputs in the bytes g, and what is left of them.
parse(g) ==
    LET after[k \in 0..Len(g)] == IF k = 0 THEN [g |-> g, input |-> <<>>] ELSE Parsed(after[k - 1])
    IN  [after[Len(g)] EXCEPT !.g = Kept(@)]

-----------------------------------------------------------------------------
(* The terminal's bytes as keys of the card's keyboard                     *)

\* a key pressed and released, a modifier around it if there is one
press(usage, mod) ==
    LET key == << <<usage, TRUE>>, <<usage, FALSE>> >>
    IN  IF mod = 0 THEN key ELSE << <<mod, TRUE>> >> \o key \o << <<mod, FALSE>> >>

\* the keys from $04 on, plain and shifted, and those with an escape sequence of their own
kKeys == [i \in 1..26 |-> 96 + i] \o <<49, 50, 51, 52, 53, 54, 55, 56, 57, 48, 13, 27, 8, 9, 32>>
         \o <<45, 61, 91, 93, 92, 35, 59, 39, 96, 44, 46, 47>>
kShifted == [i \in 1..26 |-> 64 + i] \o <<33, 64, 35, 36, 37, 94, 38, 42, 40, 41, 13, 27, 8, 9, 32>>
            \o <<95, 43, 123, 125, 124, 126, 58, 34, 126, 60, 62, 63>>
seqs == << <<65>>, <<66>>, <<67>>, <<68>>, <<72>>, <<70>>, <<53, 126>>, <<54, 126>>, <<51, 126>>, <<50, 126>> >>
usages == <<82, 81, 79, 80, 74, 77, 75, 78, 76, 73>>
IndexIn(keys, b) == SelectInSeq(keys, LAMBDA k : k = b)

KeysOf(b0) ==
    LET b1 == IF b0 = 127 THEN 8 ELSE b0
        ctrl == b1 \in 1..26 \ {8, 9, 13}
        b == IF ctrl THEN 96 + b1 ELSE b1
    IN  IF b # 0 /\ IndexIn(kKeys, b) # 0 THEN press(3 + IndexIn(kKeys, b), IF ctrl THEN 224 ELSE 0)
        ELSE IF b # 0 /\ IndexIn(kShifted, b) # 0 THEN press(3 + IndexIn(kShifted, b), 225)
        ELSE <<>>

\* The keys for the bytes; an escape sequence is one key, if it is all there.
Typing(bytes) ==
    LET SeqAt(i) == IF bytes[i] = 27 /\ i + 2 <= Len(bytes) /\ bytes[i + 1] = 91
                    THEN SelectInSeq(seqs, LAMBDA q : IsPrefix(q, SubSeq(bytes, i + 2, Len(bytes)))) ELSE 0
        One(s, i) == IF s.skip > 0 THEN [s EXCEPT !.skip = @ - 1]
                     ELSE IF SeqAt(i) # 0
                     THEN [keys |-> s.keys \o press(usages[SeqAt(i)], 0), skip |-> 1 + Len(seqs[SeqAt(i)])]
                     ELSE [s EXCEPT !.keys = @ \o KeysOf(bytes[i])]
    IN  FoldLeft(One, [keys |-> <<>>, skip |-> 0], [i \in 1..Len(bytes) |-> i]).keys

\* (the set around the card makes TLC work it out once)
type_into_card(c, bytes) ==
    FoldLeft(LAMBDA k, e : CHOOSE n \in {vc_key(v, e[1], e[2]) : v \in {k}} : TRUE, c, Typing(bytes))

-----------------------------------------------------------------------------
(* The emulator: main()                                                    *)

closedOut == [opened |-> FALSE, closed |-> FALSE, pipes |-> FALSE, hide |-> FALSE, got |-> <<>>, input |-> <<>>]
noWindow == [at |-> "off", open |-> TRUE, q |-> <<>>, mouse |-> <<0, 0>>, buttons |-> 0, shown |-> 0]
noReader == [k |-> 0, n |-> 0, done |-> FALSE, frame |-> 0, fresh |-> FALSE]

\* What a BIOS that cannot be loaded, or a disk that is not there, ends.
main_starts(bios, disk) ==
    /\ em.at = "start"
    /\ Step(IF load_srec_file(bios).ok /\ disk THEN "run" ELSE "exited")
    /\ UNCHANGED <<opts, screen, card, serial, hist>>

\* in bus.run(): a program sets IN_CTRL; the UART has sent a byte, or one arrives
program_writes(v) ==
    /\ em.at = "run" /\ card' = vc_write(card, 20, v)
    /\ UNCHANGED <<opts, em, screen, serial, hist>>
uart_sends(b) ==
    /\ em.at = "run" /\ opts.com
    /\ uart' = [uart EXCEPT !.tx = Append(@, b)] /\ hist' = [hist EXCEPT !.tx = Append(@, b)]
    /\ UNCHANGED <<opts, em, screen, card, tty, br, port>>
uart_receives ==
    /\ em.at = "run" /\ uart.rx # <<>>
    /\ uart' = [uart EXCEPT !.rx = Tail(@)] /\ hist' = [hist EXCEPT !.rx = Append(@, Head(uart.rx))]
    /\ UNCHANGED <<opts, em, screen, card, tty, br, port>>

showing == out.opened /\ ~out.closed

\* open(), with the first frame: the pipes and the other program, or nothing
open ==
    {[out EXCEPT !.opened = TRUE, !.closed = TRUE], [out EXCEPT !.opened = TRUE, !.pipes = TRUE]}

\* in bus.run(), at the end of a picture: VideoOut::frame()
frame(pixels) ==
    /\ em.at = "run" /\ opts.video
    /\ \E o \in (IF out.opened THEN {out} ELSE open) :
          /\ out' = o
          /\ win' = IF o.pipes /\ ~out.opened THEN [win EXCEPT !.at = "start"] ELSE win
          /\ em' = IF o.closed \/ ~pixels THEN em ELSE [em EXCEPT !.at = "show", !.frame = @ + 1, !.k = 0]
    /\ UNCHANGED <<opts, rd, down, up, card, serial, hist>>

\* show(): a piece of the frame into the pipe, waiting for room, or the window has gone
write_all ==
    /\ em.at = "show"
    /\ \/ /\ win.at # "gone" /\ Len(down) < DownSize
          /\ down' = Append(down, [f |-> em.frame, k |-> em.k])
          /\ em' = IF em.k = FramePieces THEN [em EXCEPT !.at = "run"] ELSE [em EXCEPT !.k = @ + 1]
          /\ UNCHANGED out
       \/ /\ win.at = "gone"
          /\ em' = [em EXCEPT !.at = "finish", !.then = "run"]
          /\ out' = [out EXCEPT !.pipes = FALSE]
          /\ UNCHANGED down
    /\ UNCHANGED <<opts, win, rd, up, card, serial, hist>>

\* finish() has closed the pipes and waits for the program to end
finish ==
    /\ em.at = "finish" /\ win.at = "gone"
    /\ out' = [out EXCEPT !.closed = TRUE] /\ Step(em.then)
    /\ UNCHANGED <<opts, win, rd, down, up, card, serial, hist>>

run_ends ==
    /\ em.at = "run" /\ Step("poll")
    /\ UNCHANGED <<opts, screen, card, serial, hist>>

\* what is done in the window goes to the card, but characters go to the UART;
\* of keys and characters one is dropped, as the program says at that moment
Routed(in) ==
    /\ card' = CASE in.kind = "Key" /\ card.keys -> vc_key(card, in.code, in.down)
                 [] in.kind = "Mouse" -> vc_mouse_to(card, in.x, in.y, in.buttons)
                 [] in.kind = "Wheel" -> vc_mouse_wheel(card, in.clicks)
                 [] OTHER -> card
    /\ uart' = IF in.kind = "Char" /\ ~card.keys THEN [uart EXCEPT !.rx = rx_enqueue(@, <<in.code>>)] ELSE uart

\* one call of poll(): a read if nothing is left of the last one, and an input if there is one
poll ==
    /\ em.at = "poll"
    /\ LET reads == out.input = <<>> /\ out.pipes
           new == parse(out.got \o Prefix(up, ReadSize))
           o == IF reads THEN [out EXCEPT !.got = new.g, !.input = new.input] ELSE out
       IN  /\ up' = IF reads THEN Rest(up, ReadSize) ELSE up
           /\ \/ /\ reads /\ up = <<>> /\ win.at = "gone"
                 /\ out' = [out EXCEPT !.pipes = FALSE]
                 /\ em' = [em EXCEPT !.at = "finish", !.then = "serial"]
                 /\ UNCHANGED <<card, uart, hist>>
              \/ /\ ~(reads /\ up = <<>> /\ win.at = "gone") /\ o.input = <<>>
                 /\ out' = o /\ Step("serial")
                 /\ UNCHANGED <<card, uart, hist>>
              \/ /\ o.input # <<>>
                 /\ out' = [o EXCEPT !.input = Tail(@)] /\ Routed(Head(o.input))
                 /\ hist' = [hist EXCEPT !.seen = Append(@, Head(o.input))]
                 /\ UNCHANGED em
    /\ UNCHANGED <<opts, win, rd, down, tty, br, port>>

\* the pointer's flag for the next frame; then the terminal, if there is no bridge
console ==
    /\ em.at = "serial" /\ ~opts.com
    /\ out' = [out EXCEPT !.hide = card.pointer]
    /\ IF card.keys /\ ~showing
       THEN card' = type_into_card(card, tty) /\ UNCHANGED uart
       ELSE uart' = [uart EXCEPT !.rx = rx_enqueue(@, tty)] /\ UNCHANGED card
    /\ tty' = <<>> /\ Step("run")
    /\ UNCHANGED <<opts, win, rd, down, up, br, port, hist>>

\* a signal ends the emulator wherever it is
quit ==
    /\ em.at \notin {"start", "exited"} /\ Step("exited")
    /\ out' = [out EXCEPT !.pipes = FALSE]
    /\ UNCHANGED <<opts, win, rd, down, up, card, serial, hist>>

-----------------------------------------------------------------------------
(* The bridge: poll() reads, takes what the UART has sent, and writes it   *)

bridge_reads ==
    /\ em.at = "serial" /\ opts.com
    /\ out' = [out EXCEPT !.hide = card.pointer]
    /\ uart' = [rx |-> rx_enqueue(uart.rx, Prefix(port.in, PortSize)), tx |-> Rest(uart.tx, PortSize)]
    /\ port' = [port EXCEPT !.in = Rest(@, PortSize)]
    /\ br' = [br EXCEPT !.buf = Prefix(uart.tx, PortSize)]
    /\ Step("write")
    /\ UNCHANGED <<opts, win, rd, down, up, card, tty, hist>>

\* Mutant: a port that has timed out is waited for again.
WaitsAlways(b) == TRUE
\* after a wait in vain the bridge waits no more
Waits(b) == ~b.write_stalled

bridge_writes ==
    /\ em.at = "write"
    /\ \/ /\ br.buf = <<>>
          /\ Step("run") /\ UNCHANGED <<br, port, hist>>
       \/ \E n \in 1..Min({port.room, Len(br.buf)}) :
             /\ ~port.dead
             /\ port' = [port EXCEPT !.out = @ \o Prefix(br.buf, n), !.room = @ - n]
             /\ br' = [buf |-> Rest(br.buf, n), write_stalled |-> FALSE]
             /\ hist' = [hist EXCEPT !.waits = 0]
             /\ UNCHANGED em
       \/ /\ br.buf # <<>> /\ port.room = 0 /\ ~port.dead /\ Waits(br)
          /\ Step("wait") /\ UNCHANGED <<br, port, hist>>
       \/ /\ br.buf # <<>> /\ (port.dead \/ (port.room = 0 /\ ~Waits(br)))
          /\ br' = [br EXCEPT !.buf = <<>>] /\ Step("run")
          /\ hist' = [hist EXCEPT !.lost = TRUE]
          /\ UNCHANGED port
    /\ UNCHANGED <<opts, screen, card, uart, tty>>

\* ::poll() for a second: the port has room (or is dead), or the time is over
bridge_waits ==
    /\ em.at = "wait" /\ Step("write")
    /\ \/ (port.room > 0 \/ port.dead) /\ UNCHANGED <<br, hist>>
       \/ /\ port.room = 0 /\ ~port.dead
          /\ br' = [br EXCEPT !.write_stalled = TRUE]
          /\ hist' = [hist EXCEPT !.waits = @ + 1]
    /\ UNCHANGED <<opts, screen, card, uart, tty, port>>

-----------------------------------------------------------------------------
(* The window program: the thread that reads frames                        *)

Swapped(r) == [r EXCEPT !.k = 0, !.frame = r.n, !.fresh = TRUE]

\* Mutant: a frame is read when the last one has been shown.
ReadsWhenShown == win.at \in {"loop", "send"} /\ ~rd.done /\ ~rd.fresh
\* the thread reads whatever the other one is doing
Reads == win.at \in {"loop", "send"} /\ ~rd.done

\* the header, then all the pixels; then the frame is the one to show
read_frames ==
    /\ Reads
    /\ \/ /\ down # <<>> /\ down' = Tail(down)
          /\ rd' = LET r == [rd EXCEPT !.n = Head(down).f, !.k = @ + 1]
                   IN  IF rd.k = 0 /\ Head(down).k # 0 THEN [rd EXCEPT !.done = TRUE]
                       ELSE IF r.k > FramePieces THEN Swapped(r) ELSE r
       \/ down = <<>> /\ ~out.pipes /\ rd' = [rd EXCEPT !.done = TRUE] /\ UNCHANGED down
    /\ UNCHANGED <<opts, em, out, win, up, card, serial, hist>>

(* its main thread                                                         *)

window_starts ==
    /\ win.at = "start"
    /\ \E at \in {"loop", "gone"} : win' = [win EXCEPT !.at = at]
    /\ UNCHANGED <<opts, em, out, rd, down, up, card, serial, hist>>

\* an event: what it sends, the mouse and its buttons from now on
Event(inputs, mouse, buttons) ==
    /\ win.at = "loop"
    /\ win' = [win EXCEPT !.at = IF inputs = <<>> THEN "loop" ELSE "send", !.q = inputs,
                          !.mouse = mouse, !.buttons = buttons]
    /\ UNCHANGED <<opts, em, out, rd, down, up, card, serial, hist>>

KeyDown(usage, chars) == Event(<<Key(usage, TRUE)>> \o chars, win.mouse, win.buttons)
KeyUp(usage) == Event(<<Key(usage, FALSE)>>, win.mouse, win.buttons)
MouseEvent(x, y, b) == Event(<<Mouse(x, y, b)>>, <<x, y>>, b)
WheelTurned(n) == Event(IF n = 0 THEN <<>> ELSE <<Wheel(n)>>, win.mouse, win.buttons)

FocusLost ==
    Event(IF win.buttons = 0 THEN <<>> ELSE <<Mouse(win.mouse[1], win.mouse[2], 0)>>, win.mouse, 0)
Entered(x, y, b) ==
    Event(IF b = win.buttons THEN <<>> ELSE <<Mouse(x, y, b)>>, <<x, y>>, b)
WindowClosed ==
    /\ win.at = "loop" /\ win' = [win EXCEPT !.open = FALSE]
    /\ UNCHANGED <<opts, em, out, rd, down, up, card, serial, hist>>

\* a record is written whole, when the pipe has room for it, or to nobody
window_sends ==
    /\ win.at = "send"
    /\ LET rec == send(Head(win.q))
       IN  \/ /\ out.pipes /\ Len(up) + Len(rec) <= UpSize
              /\ up' = up \o rec /\ hist' = [hist EXCEPT !.sent = Append(@, Head(win.q))]
           \/ ~out.pipes /\ UNCHANGED <<up, hist>>
    /\ win' = [win EXCEPT !.q = Tail(@), !.at = IF Len(win.q) = 1 THEN "loop" ELSE "send"]
    /\ UNCHANGED <<opts, em, out, rd, down, card, serial>>

window_shows ==
    /\ win.at = "loop" /\ rd.fresh
    /\ win' = [win EXCEPT !.shown = rd.frame] /\ rd' = [rd EXCEPT !.fresh = FALSE]
    /\ UNCHANGED <<opts, em, out, down, up, card, serial, hist>>

window_ends ==
    /\ win.at = "loop" /\ (~win.open \/ rd.done)
    /\ win' = [win EXCEPT !.at = "gone"]
    /\ UNCHANGED <<opts, em, out, rd, down, up, card, serial, hist>>

-----------------------------------------------------------------------------

Emulator ==
    \/ write_all \/ finish \/ run_ends \/ poll \/ console
    \/ bridge_reads \/ bridge_writes \/ bridge_waits
Window == window_starts \/ window_sends \/ window_shows \/ window_ends
=============================================================================
