------------------------------- MODULE MCHost -------------------------------
(***************************************************************************)
(* The emulator program used four ways, chosen by the initial state: with  *)
(* a window and somebody at it ("window"), bridged to a serial port that   *)
(* may stall or die ("bridge"), with keys typed at the terminal for the    *)
(* card ("type"), and started with S-record files good and bad ("boot").   *)
(***************************************************************************)
EXTENDS Host

CONSTANTS MaxEvents, MaxFrames, MaxWrites, MaxBytes

VARIABLES scene, user, left

mvars == <<hvars, scene, user, left>>

MCFont(o) == 0
Live(kind) == scene.kind = kind
Use(what) == left[what] > 0 /\ left' = [left EXCEPT ![what] = @ - 1]

-----------------------------------------------------------------------------
(* S-records: three good lines, a byte of one of them changed or not a     *)
(* byte, the records of the other types, addresses at the end of the 32    *)
(* bits, lines that are no records                                         *)

Line(type, bytes) ==
    LET n == Len(bytes) + 1
    IN  [s |-> TRUE, short |-> FALSE, type |-> type, count |-> n,
         bytes |-> Append(bytes, 255 - ((n + Sum(bytes)) % 256))]
Good == <<Line(1, <<0, 4, 17, 34>>), Line(2, <<0, 0, 5, 99>>), Line(1, <<0, 1, 200>>), Line(9, <<0, 0>>)>>
Changed == {c \in {1, 2} \X (1..4) \X {0, 1, 16, 33, 128, 255, NoHex} : c[3] # Good[c[1]].bytes[c[2]]}
Damaged == {[Good EXCEPT ![c[1]].bytes[c[2]] = c[3]] : c \in Changed}
Other ==
    {Good, <<>>}
    \cup {Append(Good, Line(type, <<0, 0, 0, 0>>)) : type \in 0..9}
    \cup {Append(Good, Line(1, <<0, a, 7, 8>>)) : a \in 0..8} \cup {Append(Good, Line(3, <<0, 0, 0, 7, 1>>))}
    \cup {Append(Good, Line(3, <<63, 255, 255, low, 1, 2>>)) : low \in 252..255}
    \cup {<<Good[1], [Good[3] EXCEPT !.count = n]>> : n \in {0, 2, 3, 5, NoHex}}
    \cup {<<[Good[1] EXCEPT !.s = FALSE]>>, <<Good[1], [Good[3] EXCEPT !.short = TRUE]>>}

(* what is typed at the terminal, and the characters of it: every byte, some *)
(* twos, keys with an escape sequence, which type nothing but for Delete      *)
Typed(b) == IF b = 127 THEN <<8>> ELSE IF b \in 1..27 \cup 32..126 THEN <<b>> ELSE <<>>
Plain == {<<b>> : b \in 0..127} \cup {<<65, b>> : b \in {98, 66, 3, 28}} \cup {<<27, 91>>, <<27, 91, 90>>}
Typings ==
    {[bytes |-> s, chars |-> FlattenSeq([i \in 1..Len(s) |-> Typed(s[i])])] : s \in Plain}
    \cup {[bytes |-> <<27, 91>> \o seqs[k], chars |-> IF k = 9 THEN <<127>> ELSE <<0>>] : k \in 1..10}
    \cup {[bytes |-> <<66, 27, 91, 65, 99>>, chars |-> <<66, 0, 99>>]}

Scenes ==
    {[kind |-> "window"], [kind |-> "bridge"]}
    \cup [kind : {"type"}, typed : Typings]
    \cup [kind : {"boot"}, bad : {TRUE}, file : Damaged] \cup [kind : {"boot"}, bad : {FALSE}, file : Other]

Init ==
    /\ scene \in Scenes
    /\ opts = [video |-> Live("window"), com |-> Live("bridge")]
    /\ em = [at |-> IF Live("boot") THEN "start" ELSE IF Live("type") THEN "serial" ELSE "run",
             then |-> "run", frame |-> 0, k |-> 0]
    /\ out = closedOut /\ win = noWindow /\ rd = noReader /\ down = <<>> /\ up = <<>>
    /\ card = [vc_reset(calloc) EXCEPT !.keys = Live("type")]
    /\ uart = [rx |-> <<>>, tx |-> <<>>]
    /\ tty = IF Live("type") THEN scene.typed.bytes ELSE <<>>
    /\ br = [buf |-> <<>>, write_stalled |-> FALSE]
    /\ port = [in |-> <<1, 2, 3, 4>>, out |-> <<>>, room |-> 1, dead |-> FALSE]
    /\ hist = [sent |-> <<>>, seen |-> <<>>, tx |-> <<>>, rx |-> <<>>, waits |-> 0, lost |-> FALSE]
    /\ user = [btn |-> 0, focus |-> TRUE, keys |-> {}]
    /\ left = [events |-> MaxEvents, frames |-> MaxFrames, writes |-> MaxWrites, bytes |-> MaxBytes]

-----------------------------------------------------------------------------
(* Somebody at the window                                                  *)

KeyA == 4
Presses(k) ==
    /\ user.focus /\ k \notin user.keys /\ user' = [user EXCEPT !.keys = @ \cup {k}]
    /\ KeyDown(k, <<Char(97)>>)
Releases(k) == user.focus /\ k \in user.keys /\ user' = [user EXCEPT !.keys = @ \ {k}] /\ KeyUp(k)
Drags(x) == user.focus /\ MouseEvent(x, 1, user.btn) /\ UNCHANGED user
Clicks ==
    /\ user.focus /\ user' = [user EXCEPT !.btn = 1 - @]
    /\ MouseEvent(win.mouse[1], win.mouse[2], user'.btn)
Turns == user.focus /\ WheelTurned(-3) /\ UNCHANGED user
Leaves == user.focus /\ FocusLost /\ user' = [user EXCEPT !.focus = FALSE]
ComesBack ==
    \E b \in {user.btn, 0} : Entered(2, 0, b) /\ ~user.focus /\ user' = [user EXCEPT !.focus = TRUE, !.btn = b]

AtWindow ==
    /\ Use("events") /\ UNCHANGED scene
    /\ \/ Presses(KeyA) \/ Releases(KeyA)
       \/ Drags(-2)
       \/ Clicks \/ Turns \/ Leaves \/ ComesBack
       \/ WindowClosed /\ UNCHANGED user

(* The machine, the port and the rest                                      *)

Machine ==
    /\ UNCHANGED <<scene, user>>
    /\ \/ Live("window") /\ Use("writes") /\ program_writes(3)
       \/ Use("frames") /\ \E pixels \in BOOLEAN : frame(pixels)
       \/ Use("bytes") /\ uart_sends(Len(hist.tx) + 1)
       \/ Live("bridge") /\ uart_receives /\ UNCHANGED left

Port ==
    /\ Live("bridge") /\ Use("events") /\ ~port.dead
    /\ \/ \E n \in 1..2 : port' = [port EXCEPT !.room = @ + n]
       \/ port' = [port EXCEPT !.dead = TRUE]
    /\ UNCHANGED <<opts, em, screen, card, uart, tty, br, hist, scene, user>>

Boots == Live("boot") /\ \E disk \in BOOLEAN : main_starts(scene.file, disk) /\ UNCHANGED <<scene, user, left>>

Quits == Live("window") /\ quit /\ UNCHANGED <<scene, user, left>>

\* the scenes of typing and starting end when that is done
Rest1 == <<scene, user, left>>
Running == scene.kind \in {"window", "bridge"} \/ em.at = "serial"
Next ==
    \/ Running /\ Emulator /\ UNCHANGED Rest1
    \/ Window /\ UNCHANGED Rest1
    \/ read_frames /\ UNCHANGED Rest1
    \/ AtWindow \/ Machine \/ Port \/ Boots \/ Quits

\* The system's scheduler lets each of the three threads run: one that can take a
\* step and goes on being able to takes one.  (WF of Emulator, Window and
\* read_frames, told by what their steps change.)
EmulatorCan ==
    CASE em.at = "show"   -> win.at = "gone" \/ Len(down) < DownSize
      [] em.at = "finish" -> win.at = "gone"
      [] OTHER            -> em.at \in {"run", "poll", "serial", "write", "wait"} /\ Running
EmulatorSteps == em' # em \/ hist'.seen # hist.seen \/ br' # br
WindowCan ==
    CASE win.at = "send" -> ~out.pipes \/ Len(up) + Len(send(Head(win.q))) <= UpSize
      [] win.at = "loop" -> rd.fresh \/ rd.done \/ ~win.open
      [] OTHER           -> win.at = "start"
WindowSteps == win'.at # win.at \/ win'.q # win.q \/ win'.shown # win.shown
ReaderCan == Reads /\ (down # <<>> \/ ~out.pipes)
ReaderSteps == rd'.k # rd.k \/ rd'.done # rd.done

Spec ==
    /\ Init /\ [][Next]_mvars
    /\ []<>~EmulatorCan \/ []<><<EmulatorSteps>>_mvars
    /\ []<>~WindowCan \/ []<><<WindowSteps>>_mvars
    /\ []<>~ReaderCan \/ []<><<ReaderSteps>>_mvars

-----------------------------------------------------------------------------

\* Whatever the reads cut the window's records into, the emulator takes the
\* inputs that were sent, in order; it loses some only when the window has gone.
WindowHeard ==
    LET taken == hist.seen \o out.input
    IN  IF out.pipes THEN hist.sent = taken \o parse(out.got \o up).input ELSE IsPrefix(taken, hist.sent)

\* When all has been taken, the card has the buttons that are down in the window,
\* and none once it has lost the focus.
ButtonsAgree ==
    out.pipes /\ win.at = "loop" /\ up = <<>> /\ out.input = <<>> =>
        card.buttons % 8 = IF user.focus THEN user.btn ELSE 0

\* Keys typed at the terminal give the card's program the characters typed, in
\* order, as far as the queue reaches, and leave no modifier held.
TypedArrives ==
    Live("type") /\ em.at = "run" =>
        LET events == [i \in 1..card.len |-> card.keyq[(card.head + i - 1) % VC_KEY_QUEUE]]
            downs == SelectSeq(events, LAMBDA e : e[1] < 224 /\ e[2] < 128)
            chars == [i \in 1..Len(downs) |-> downs[i][2]]
        IN  /\ IsPrefix(chars, scene.typed.chars)
            /\ card.len < VC_KEY_QUEUE => chars = scene.typed.chars
            /\ card.mods = {} /\ uart.rx = <<>>

\* What is typed and done reaches the machine as it was typed and done.
InputArrives == WindowHeard /\ ButtonsAgree /\ TypedArrives

\* The bridge keeps the order of both directions, loses output only when the port
\* is dead or a wait for it has timed out, and waits in vain at most once between two writes that succeed.
BridgeOrdered ==
    LET Rising(s) == \A i, j \in 1..Len(s) : i < j => s[i] < s[j]
    IN  Live("bridge") =>
        /\ Rising(hist.rx \o uart.rx \o port.in)
        /\ Rising(port.out \o br.buf \o uart.tx)
        /\ ~hist.lost => port.out \o br.buf \o uart.tx = hist.tx
        /\ hist.waits <= 1

\* The lines that take effect: those before the first that is refused.
Taken(lines, n) == {i \in 1..n : \A j \in 1..i : ~Refused(lines[j])}
Bytes(rec) == IF IsData(rec) THEN Address(rec)..(Address(rec) + Len(Data(rec)) - 1) ELSE {}
\* the sum of its address and its length goes over the 32 bits
Wraps(rec) == Address(rec) + Len(Data(rec)) >= Word

\* The memory has what the lines that took effect say, the last one having the
\* last word, nothing else, nothing outside, and its ends are those reported.
Placed(r, lines, n) ==
    LET taken == Taken(lines, n)
    IN  /\ DOMAIN r.mem = UNION {Bytes(lines[i]) : i \in taken}
        /\ \A i \in taken : \A a \in Bytes(lines[i]) :
             (\A j \in taken : j > i => a \notin Bytes(lines[j])) =>
                r.mem[a] = Data(lines[i])[a - Address(lines[i]) + 1]
        /\ \A a \in DOMAIN r.mem : 0 <= a /\ a < mem_size /\ r.min_addr <= a /\ a <= r.max_addr
        /\ r.any_data = (DOMAIN r.mem # {})
        /\ r.any_data => r.min_addr \in DOMAIN r.mem /\ r.max_addr \in DOMAIN r.mem

\* The machine starts with an image only if every record of the file was right; a
\* file with one byte changed is refused.  Of a file refused as of one taken, the
\* memory has what the lines before the first bad one say, and the range reported
\* is theirs, unless the end of one of them goes over the 32 bits (InsideMemory).
ImageLoaded ==
    Live("boot") =>
        LET file == scene.file
            r == load_srec_file(file)
            n == Len(file)
        IN  /\ scene.bad => ~r.ok
            /\ em.at = "run" => r.ok
            /\ r.ok = (Taken(file, n) = 1..n)
            /\ (\A i \in Taken(file, n) : ~(IsData(file[i]) /\ Wraps(file[i]))) => Placed(r, file, n)

\* srec_loader.hpp: "Any data record whose address range falls outside [0, mem_size) is
\* reported as an error (rather than silently truncated or wrapped)", so that the
\* machine never starts with bytes written outside its memory.
InsideMemory ==
    Live("boot") /\ em.at = "run" => \A a \in DOMAIN load_srec_file(scene.file).mem : a < mem_size

\* The emulator goes on whatever the window and the port do: it never waits for
\* ever for a full pipe, a window that ends or a port that stalls.  A frame it has
\* sent is shown, or a newer one, while the window is there, and the window does not outlive the emulator.
HostLives ==
    /\ []<>(em.at \in {"start", "run", "exited"})
    /\ \A f \in 1..MaxFrames : (em.frame >= f) ~> (win.shown >= f \/ win.at = "gone")
    /\ (em.at = "exited") ~> (win.at \in {"off", "gone"})
=============================================================================
