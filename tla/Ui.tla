--------------------------------- MODULE Ui ---------------------------------
(***************************************************************************)
(* What the user does until it reaches the Compositor (kernel/src/ui.cpp): *)
(* through USB devices (usb/UsbHid.cpp) and through the PS/2 keyboard and  *)
(* mouse (x86/ps2.cpp), which share one controller, external here, that    *)
(* holds one byte at a time and does not say in the way that ps2.cpp asks  *)
(* whose byte it is.                                                       *)
(*                                                                         *)
(* A PS/2 byte is [value, of]: what it tells of, a "keyboard"'s key, a      *)
(* "mouse"'s movement, or that a device has understood "init".            *)
(***************************************************************************)
EXTENDS HidReports, FiniteSets

CONSTANTS
  Devices,     \* USB devices: [items, type, length, layout, slots, base,
               \*   inputs]; the layout is what the maker means, fields [usage,
               \*   bitOffset, bitLength], slots and base are of a keyboard's
               \*   array, and an input is what a user does, by usage
  Moves,       \* movements of the PS/2 mouse, [x, y], as its user sees them
  Keys,        \* codes of PS/2 keys
  ps2_mode1_to_hid, \* the table of their codes for listeners; many have 0
  Width, Height,
  MaxEvents    \* bound on what the user does

Compositor == 65536 \* 0x10000, the page of the usages that it looks for
X == Compositor + 48
Y == Compositor + 49
Mouse == Compositor + 2
Keyboard == Compositor + 6

ASSUME UiAssumption ==
  /\ Width \in Nat \ {0} /\ Height \in Nat \ {0} /\ MaxEvents \in Nat
  /\ \A k \in Keys : k \in 0..127 /\ {k, k + 128} \subseteq DOMAIN ps2_mode1_to_hid
  /\ \A m \in Moves : {m.x, m.y} \subseteq -255..255
  /\ \A d \in Devices : d.type = Mouse => d.slots = {}

VARIABLES
  pointer,     \* pointerX, pointerY
  misread,     \* the last report of a USB device, if it was not understood: what
               \*   was read of it and what was meant
  keyboard,    \* Ps2Keyboard: buffer, with offset its length, and report
  packet,      \* Ps2Mouse: packet, with offset its length
  pending,     \* the bytes each PS/2 device has yet to send
  held,        \* the byte that the controller holds, or NoByte
  irqs,        \* interrupts asked for
  handler,     \* the PS/2 handler that runs, or "none"
  stray,       \* the keyboard's report was emptied of more than it held
  moves,       \* what the user has moved the PS/2 mouse, in order, and what has
               \*   not arrived
  cursor,      \* where what has arrived of all the user's movements leads
  lost,        \* a PS/2 handler has taken a byte that was not for it
  events

vars == <<pointer, misread, keyboard, packet, pending, held, irqs, handler, stray,
          moves, cursor, lost, events>>
ps2 == <<keyboard, packet, pending, held, irqs, handler, stray, moves, lost>>

NoByte == [of |-> "none"]
Byte(of, value) == [value |-> value, of |-> of]

\* The acknowledgements of ps2_init's last commands, which nobody reads there
Ack == Byte("init", 250)

Init ==
  /\ pointer = [x |-> 0, y |-> 0] /\ cursor = [x |-> 0, y |-> 0]
  /\ misread = {}
  /\ keyboard = [buffer |-> <<>>, report |-> <<>>] /\ packet = <<>>
  /\ held = Ack /\ irqs = {"keyboard"}
  /\ pending = [keyboard |-> <<>>, mouse |-> <<Ack>>]
  /\ handler = "none" /\ stray = FALSE
  /\ moves = <<>> /\ lost = FALSE /\ events = 0

-----------------------------------------------------------------------------
(* The compositor *)

Within(v, size) == IF v < 0 THEN 0 ELSE IF v >= size THEN size - 1 ELSE v

Moved(p, dx, dy) == [x |-> Within(p.x + dx, Width), y |-> Within(p.y + dy, Height)]

Of(report, usage) == IF usage \in DOMAIN report THEN report[usage] ELSE 0

\* Compositor::HandleReport
HandleReport(type, report) ==
  pointer' = IF type = Mouse THEN Moved(pointer, Of(report, X), Of(report, Y)) ELSE pointer

-----------------------------------------------------------------------------
(* USB devices *)

\* The report that a device sends for an input, by its own layout (external)
BitOf(d, input, n) ==
  \E f \in d.layout : /\ n \in f.bitOffset..(f.bitOffset + f.bitLength - 1)
                      /\ f.usage \in DOMAIN input
                      /\ Bit(input[f.usage] % 2^f.bitLength, n - f.bitOffset)

Report(d, input) ==
  [b \in 0..(d.length - 1) |->
    FoldLeft(LAMBDA v, n : 2 * v + IF BitOf(d, input, 8 * b + 8 - n) THEN 1 ELSE 0, 0,
             <<1, 2, 3, 4, 5, 6, 7, 8>>)]

\* A device's input in the terms of the reports to listeners: an array holds
\* the numbers of the keys, each of them 1.
Meant(d, input) ==
  LET usages == { u \in DOMAIN input : input[u] # 0 \/ u \in {X, Y} } IN
  [u \in { IF u \in d.slots THEN d.base + input[u] ELSE u : u \in usages } |->
     IF u \in DOMAIN input THEN input[u] ELSE 1]

\* What start learns of each device
Parsed == [d \in Devices |-> ParseReport(d.items)]

UsbReport(d, input) ==
  LET parsed == Parsed[d]
      read == Status(parsed.input, Report(d, input)) IN
  /\ handler = "none" /\ events < MaxEvents
  /\ misread' = IF parsed.deviceType = d.type /\ read = Meant(d, input) THEN {}
                ELSE {[read |-> read, meant |-> Meant(d, input)]}
  /\ HandleReport(parsed.deviceType, read)
  /\ cursor' = IF d.type = Mouse THEN Moved(cursor, Of(input, X), Of(input, Y)) ELSE cursor
  /\ events' = events + 1
  /\ UNCHANGED ps2

-----------------------------------------------------------------------------
(* The PS/2 devices and their controller (external) *)

Send(of, bytes) ==
  /\ events < MaxEvents /\ events' = events + 1
  /\ pending' = [pending EXCEPT ![of] = @ \o bytes]
  /\ UNCHANGED <<pointer, misread, keyboard, packet, held, irqs, handler, stray, cursor, lost>>

\* A key is pressed or kept down, or released; some have a byte before.
Key(k, prefix, released) ==
  /\ Send("keyboard", prefix \o << Byte("keyboard", k + (IF released THEN 128 ELSE 0)) >>)
  /\ UNCHANGED moves

\* Two's complement in 9 bits, of which the highest are in the first byte, and
\* upwards is positive.
Packet(m) ==
  LET sign(v) == IF v < 0 THEN 1 ELSE 0
      values == << 8 + 16 * sign(m.x) + 32 * sign(-m.y), m.x % 256, (-m.y) % 256 >> IN
  [k \in 1..3 |-> Byte("mouse", values[k])]

Move(m) == Send("mouse", Packet(m)) /\ moves' = Append(moves, m)

Present(of) ==
  /\ held = NoByte /\ pending[of] # <<>>
  /\ held' = Head(pending[of])
  /\ pending' = [pending EXCEPT ![of] = Tail(@)]
  /\ irqs' = irqs \cup {of}
  /\ UNCHANGED <<pointer, misread, keyboard, packet, handler, stray, moves, cursor, lost,
                 events>>

-----------------------------------------------------------------------------
(* The PS/2 handlers: each reads while there is a byte, whosever it is. *)

Interrupt(of) ==
  /\ handler = "none" /\ of \in irqs
  /\ handler' = of /\ irqs' = irqs \ {of}
  /\ UNCHANGED <<pointer, misread, keyboard, packet, pending, held, stray, moves, cursor,
                 lost, events>>

Return ==
  /\ handler # "none" /\ held = NoByte
  /\ handler' = "none"
  /\ UNCHANGED <<pointer, misread, keyboard, packet, pending, held, irqs, stray, moves,
                 cursor, lost, events>>

\* A whole scan code, and the code that listeners get for it
IsCode(buffer) ==
  CASE buffer[1].value = 224 -> Len(buffer) = 2
    [] buffer[1].value = 225 -> Len(buffer) = 3
    [] OTHER -> TRUE

Code(buffer) ==
  ps2_mode1_to_hid[CASE buffer[1].value = 224 -> 128 + (buffer[2].value % 128)
                     [] buffer[1].value = 225 -> 256
                     [] OTHER -> buffer[1].value % 128]

Make(buffer) == buffer[IF buffer[1].value \in {224, 225} THEN 2 ELSE 1].value >= 128

\* report[code] = 1, or its removal.  contains is true of what is not in a
\* flatmap (flatmap:48), so that which goes is the last, which takes the place
\* of the end; nothing can go from an empty one.
SaysContains(report, code) == code \notin ToSet(report)

KeyReport(report, buffer) ==
  LET code == Code(buffer) IN
  CASE Make(buffer) -> IF code \in ToSet(report) THEN report ELSE Append(report, code)
    [] ~Make(buffer) /\ SaysContains(report, code) /\ report # <<>> -> Front(report)
    [] OTHER -> report

KeyboardByte ==
  LET buffer == Append(keyboard.buffer, held) IN
  /\ handler = "keyboard" /\ held # NoByte
  /\ held' = NoByte
  /\ keyboard' = IF IsCode(buffer)
                   THEN [buffer |-> <<>>, report |-> KeyReport(keyboard.report, buffer)]
                   ELSE [keyboard EXCEPT !.buffer = buffer]
  /\ stray' = (IsCode(buffer) /\ ~Make(buffer) /\ keyboard.report = <<>>)
  /\ lost' = (lost \/ held.of = "mouse")
  /\ UNCHANGED <<pointer, misread, packet, pending, irqs, handler, moves, cursor, events>>

\* The report for a packet.  A byte of 0 is no movement.
Nine(p, k, bit) == IF Bit(p[1].value, bit) THEN p[k].value - 256 ELSE p[k].value

Told(p) == {u \in {X, Y} : p[IF u = X THEN 2 ELSE 3].value # 0}

MutPacketReport(p) == [u \in Told(p) |-> IF u = X THEN Nine(p, 2, 4) ELSE Nine(p, 3, 5)]
PacketReport(p) == [u \in Told(p) |-> IF u = X THEN Nine(p, 2, 4) ELSE -Nine(p, 3, 5)]

\* The user's next movement has arrived; once one is lost there is no next.
Arrived ==
  IF lost' THEN UNCHANGED <<moves, cursor>>
  ELSE cursor' = Moved(cursor, Head(moves).x, Head(moves).y) /\ moves' = Tail(moves)

MouseByte ==
  LET p == Append(packet, held) IN
  /\ handler = "mouse" /\ held # NoByte
  /\ held' = NoByte
  /\ lost' = (lost \/ held.of # "mouse")
  /\ IF Len(p) < 3 THEN packet' = p /\ UNCHANGED <<pointer, moves, cursor>>
     ELSE packet' = <<>> /\ HandleReport(Mouse, PacketReport(p)) /\ Arrived
  /\ UNCHANGED <<misread, keyboard, pending, irqs, handler, stray, events>>

Next ==
  ~stray /\
  \/ \E d \in Devices : \E input \in d.inputs : UsbReport(d, input)
  \/ \E k \in Keys, prefix \in { <<>>, << Byte("keyboard", 224) >> }, released \in BOOLEAN :
       Key(k, prefix, released)
  \/ \E m \in Moves : Move(m)
  \/ \E of \in {"keyboard", "mouse"} : Present(of) \/ Interrupt(of)
  \/ KeyboardByte \/ MouseByte \/ Return

Spec == Init /\ [][Next]_vars

-----------------------------------------------------------------------------
(* Properties.                                                             *)

\* A listener is told of a USB device's report just what its user did, and on
\* what kind of device: every key held and no other, and movements with their
\* sign, wherever the fields of the descriptor lie (UsbHid.cpp:99, 240).
Understood == misread = {}

\* As long as each PS/2 handler has taken its own device's bytes, of keys and of
\* movements: the pointer is where all movements that arrived, of the USB mice
\* too, lead from border to border in the order in which the user made those of
\* each mouse, and when no byte of the PS/2 mouse is under way all of its have
\* arrived, once each (ps2.cpp:110-138, ui.cpp:43-49).  A byte that the other
\* handler takes (ps2.cpp:56, 112) ends this for good: the movement is lost with
\* it, and the mouse has no way to get in step again.
PointerFollows ==
  ~lost =>
    /\ pointer = cursor
    /\ pending["mouse"] = <<>> /\ held.of # "mouse" /\ packet = <<>> => moves = <<>>
=============================================================================
