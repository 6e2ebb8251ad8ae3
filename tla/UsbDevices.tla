----------------------------- MODULE UsbDevices -----------------------------
(***************************************************************************)
(* USB devices from the change of a port to the driver of their interface: *)
(* XhciUsbDevice (kernel/src/usb/xhci.cpp), UsbCore and the starts of the  *)
(* drivers.  Each device is one coroutine, its drivers are further ones.   *)
(* They share the controller's command ring, and those of one device its   *)
(* control ring, the buffer of the control requests and the input context  *)
(* from which the controller reads which endpoint to configure.            *)
(*                                                                         *)
(* The rings are the queues that XhciRings implements; a completion        *)
(* resumes a coroutine inside the interrupt handler, and it runs until it  *)
(* suspends.                                                               *)
(*                                                                         *)
(* A definition named Mut... is a faulty variant of the one it stands      *)
(* before; PROJECT.json names the property that rejects it.                *)
(***************************************************************************)
EXTENDS Integers, Sequences, SequencesExt

CONSTANTS
  Devices,     \* the objects made for port changes
  Info,        \* device -> [strings, languages, configurations]
  Slots,       \* the controller's device slots
  MayFail,     \* requests and commands that can fail
  RingBlocks,  \* blocks of a control ring, 64: it has no link
  Null

English == 9             \* the primary language
UsEnglish == <<9, 1>>    \* a language is a primary language and a variant

\* The last slot is one beyond XhciDevice::devices; drivers use an endpoint
\* without looking whether the controller accepted it; nobody looks whether a
\* slot was given back; and a device describes some language.
ASSUME DevicesAssumption ==
  /\ Null \notin Devices \cup Slots
  /\ \A d \in Devices : Info[d].languages # <<>>
  /\ MayFail \cap {"configure", "disable"} = {}

VARIABLES
  state,      \* device -> "unborn", "starting", "deleted", "given up", "owned", "used"
  slot,       \* device -> slotId
  table,      \* XhciDevice::devices, and dcbaa
  used,       \* device -> loopIndex, the blocks written to its control ring
  flags,      \* device -> the endpoint its input context adds
  todo,       \* task -> what it still sends, in order
  run,        \* tasks running, in order
  commands,   \* the command ring: what the controller has before it
  ring,       \* device -> its control ring
  halted,     \* devices whose control ring has stopped after a failure
  buffer,     \* device -> the request whose answer its buffer holds
  events,     \* completions: [task, what, ok, slot]
  enabled,    \* slots the controller has enabled
  endpoints,  \* slot -> the endpoints it has configured
  given       \* history: task -> endpoints its driver was given

device == <<state, slot, table, used, flags>>
controller == <<halted, buffer, enabled, endpoints>>
vars == <<device, todo, run, commands, ring, controller, events, given>>

-----------------------------------------------------------------------------
(* What a device is asked for.                                             *)

Step(to, what) == [to |-> to, what |-> what]
Request(what) == Step("control", what)
Command(what) == Step("command", what)

\* languages[0], or an English one with a smaller number, or US English.
Before(a, b) == a[2] < b[2] \/ (a[2] = b[2] /\ a[1] < b[1])

BestLanguage(languages) ==
  IF UsEnglish \in Range(languages) THEN UsEnglish
  ELSE FoldLeft(LAMBDA best, l : IF l[1] = English /\ Before(l, best) THEN l ELSE best,
                languages[1], languages)

\* GetStringDescriptor: no request for a string the device does not have.
StringRequests(d) ==
  LET language == BestLanguage(Info[d].languages) IN
  FlattenSeq([n \in 1 .. Len(Info[d].strings) |->
    IF Info[d].strings[n] = 0 THEN <<>>
    ELSE << Request(<<"string length", n, language>>),
            Request(<<"string", n, language>>) >>])

Configurations(d) == Info[d].configurations

\* RegisterUsbDevice sets the configuration of a device that has just one.
Sets(d) == Len(Configurations(d)) = 1

\* start and StartUp.
Script(d) ==
  << Command(<<"enable">>), Command(<<"address">>), Request(<<"device">>),
     Request(<<"language length">>), Request(<<"languages">>) >>
  \o StringRequests(d)
  \o FlattenSeq([n \in DOMAIN Configurations(d) |->
       << Request(<<"configuration length", n>>), Request(<<"configuration", n>>) >>])

\* SetConfiguration takes the descriptors up to the next configuration for
\* one interface, and stops at one that is too short.
MutOpening == {"configuration", "interface"}
Opening == {"configuration"}

Interfaces(c, types) ==
  LET starts == SetToSortSeq({1} \cup {k \in 2 .. Len(c) : c[k].type \in types}, <)
      upto(n) == IF n = Len(starts) THEN Len(c) ELSE starts[n + 1] - 1
      good(n) == \A k \in 1 .. upto(n) : c[k].type # "short"
  IN SelectSeq([n \in DOMAIN starts |->
                  IF good(n) THEN SubSeq(c, starts[n], upto(n)) ELSE <<>>],
               LAMBDA i : i # <<>>)

\* The classes drivers are registered for.
ClassDrivers == [c \in {<<3, 0, 0>>, <<9, 0, 0>>, <<8, 6, 80>>} |->
  CASE c[1] = 3 -> "hid" [] c[1] = 9 -> "hub" [] c[1] = 8 -> "storage"]

\* RegisterUsbInterface: the exact class, the class and subclass, the class.
Driver(i) ==
  LET c == i[1].class
      tries == SelectSeq(<< c, <<c[1], c[2], 0>>, <<c[1], 0, 0>> >>,
                         LAMBDA k : k \in DOMAIN ClassDrivers)
  IN IF tries = <<>> THEN "none" ELSE ClassDrivers[tries[1]]

OfType(i, type) == SelectSeq(i, LAMBDA desc : desc.type = type)
Endpoints(i, in) ==
  SelectSeq(OfType(i, "endpoint"), LAMBDA desc : desc.in = in)
Configure(i, in) == Command(<<"configure", <<Endpoints(i, in)[1].id, in>> >>)

\* UsbHidDevice::start takes the last HID descriptor and the first endpoint
\* in; UsbStorageDevice::start the first endpoint of either direction.
DriverScript(i, number) ==
  CASE Driver(i) = "hid" ->
         [k \in 1 .. Last(OfType(i, "hid")).reports |-> Request(<<"report", number>>)]
         \o << Configure(i, TRUE) >>
    [] Driver(i) = "storage" -> << Configure(i, TRUE), Configure(i, FALSE) >>
    [] OTHER -> <<>>

Start == 0
Tasks == Devices \X (0 .. 2)

\* A configuration has one configuration descriptor, its first, so one
\* interface is made of it; a HID interface says how many reports it has; and
\* what a device is asked for fits its control ring.
Taken(d) == Interfaces(Configurations(d)[1], {"configuration"})
DriverSteps(d) == IF Taken(d) = <<>> THEN <<>> ELSE DriverScript(Taken(d)[1], 0)

ASSUME DescriptorsAssumption ==
  /\ Null \notin Tasks /\ RingBlocks \in Nat
  /\ \A d \in Devices :
       /\ Info[d].strings \in Seq(Nat) /\ Len(Configurations(d)) \in Nat
       /\ DOMAIN Configurations(d) = 1 .. Len(Configurations(d))
       /\ Sets(d) => /\ DOMAIN Taken(d) = 1 .. Len(Taken(d)) /\ Len(Taken(d)) \in {0, 1}
                     /\ Taken(d) # <<>> /\ Driver(Taken(d)[1]) = "hid" =>
                          Last(OfType(Taken(d)[1], "hid")).reports \in Nat

ASSUME RingAssumption ==
  \A d \in Devices :
    3 * (Len(Script(d)) - 2) + (IF Sets(d) THEN 2 + 3 * Len(DriverSteps(d)) ELSE 0) <= RingBlocks

-----------------------------------------------------------------------------
(* The driver's side.                                                      *)

\* A port change with a device at the port makes an object for it.
PortChange(d) ==
  /\ run = <<>> /\ state[d] = "unborn"
  /\ state' = [state EXCEPT ![d] = "starting"]
  /\ todo' = [todo EXCEPT ![<<d, Start>>] = Script(d)]
  /\ run' = << <<d, Start>> >>
  /\ UNCHANGED <<slot, table, used, flags, commands, ring, controller, events, given>>

Running(t) == run # <<>> /\ Head(run) = t

\* RunCommand, awaited.  StartupEndpoint writes the input context first.
SendCommand(t) ==
  /\ Running(t) /\ todo[t] # <<>> /\ Head(todo[t]).to = "command"
  /\ LET what == Head(todo[t]).what IN
     /\ commands' = Append(commands, [task |-> t, what |-> what, slot |-> slot[t[1]]])
     /\ flags' = IF what[1] = "configure" THEN [flags EXCEPT ![t[1]] = what[2]]
                                          ELSE flags
  /\ run' = Tail(run)
  /\ UNCHANGED <<state, slot, table, used, todo, ring, controller, events, given>>

\* RunCommandRequest, awaited: a block each for setup, data if any, status.
Length(what) == IF what[1] = "set configuration" THEN 2 ELSE 3

SendRequest(t) ==
  /\ Running(t) /\ todo[t] # <<>> /\ Head(todo[t]).to = "control"
  /\ LET what == Head(todo[t]).what IN
     /\ ring' = [ring EXCEPT ![t[1]] = Append(@, [task |-> t, what |-> what])]
     /\ used' = [used EXCEPT ![t[1]] = @ + Length(what)]
  /\ run' = Tail(run)
  /\ UNCHANGED <<state, slot, table, flags, todo, commands, controller, events, given>>

\* The driver's start is over: it waits for reports, or asks for the disk.
Rest(t) ==
  /\ Running(t) /\ todo[t] = <<>>
  /\ run' = Tail(run)
  /\ UNCHANGED <<device, todo, commands, ring, controller, events, given>>

\* The next completion's coroutine is resumed by the interrupt handler.
Event == Head(events)
Done(what) == Event.what[1] = what
Resumes(t) == run = <<>> /\ events # <<>> /\ Event.task = t /\ events' = Tail(events)

Proceed(t) == /\ todo' = [todo EXCEPT ![t] = Tail(@)]
              /\ run' = <<t>>

\* EnableSlot has answered.
Enabled(d) ==
  /\ Resumes(<<d, Start>>) /\ Done("enable") /\ Event.ok
  /\ slot' = [slot EXCEPT ![d] = Event.slot]
  /\ table' = [table EXCEPT ![Event.slot] = d]
  /\ Proceed(<<d, Start>>)
  /\ UNCHANGED <<state, used, flags, commands, ring, controller, given>>

\* delete this.
MutDeleted(d) == state
Deleted(d) == [state EXCEPT ![d] = "deleted"]

NotEnabled(d) ==
  /\ Resumes(<<d, Start>>) /\ Done("enable") /\ ~Event.ok
  /\ state' = Deleted(d)
  /\ todo' = [todo EXCEPT ![<<d, Start>>] = <<>>]
  /\ UNCHANGED <<slot, table, used, flags, run, commands, ring, controller, given>>

\* StartUp goes on; a string that cannot be read is empty.
GoOn(d) ==
  LET t == <<d, Start>> IN
  /\ Resumes(t) /\ ~Done("enable") /\ ~Done("set configuration")
  /\ \/ Event.ok /\ Len(todo[t]) > 1 /\ Proceed(t)
     \/ Done("string") /\ ~Event.ok /\ Len(todo[t]) > 1 /\ Proceed(t)
     \/ /\ Done("string length") /\ ~Event.ok /\ Len(todo[t]) > 2
        /\ todo' = [todo EXCEPT ![t] = Tail(Tail(@))] /\ run' = <<t>>
  /\ UNCHANGED <<device, commands, ring, controller, given>>

\* StartUp has failed: the slot is given back, and nobody awaits that.
MutForgotten(d) == table
Forgotten(d) == [table EXCEPT ![slot[d]] = Null]

GiveUp(d) ==
  /\ Resumes(<<d, Start>>) /\ ~Event.ok
  /\ Event.what[1] \notin {"enable", "string", "string length", "set configuration"}
  /\ table' = Forgotten(d)
  /\ commands' = Append(commands, [task |-> Null, what |-> <<"disable">>, slot |-> slot[d]])
  /\ state' = Deleted(d)
  /\ todo' = [todo EXCEPT ![<<d, Start>>] = <<>>]
  /\ UNCHANGED <<slot, used, flags, run, ring, controller, given>>

\* RegisterUsbDevice: a driver may be registered for the device itself, and a
\* device of several configurations is left alone.
MutChooses(d, owned) == ~owned
Chooses(d, owned) == ~owned /\ Sets(d)

Register(d) ==
  LET t == <<d, Start>>
      last == Len(todo[t]) = 1 \/ (Len(todo[t]) = 2 /\ Done("string length") /\ ~Event.ok)
  IN
  /\ Resumes(t) /\ ~Done("set configuration") /\ last
  /\ Event.ok \/ Event.what[1] \in {"string", "string length"}
  /\ \E owned \in BOOLEAN :
     /\ state' = [state EXCEPT ![d] = IF Chooses(d, owned) THEN "starting"
                                      ELSE IF owned THEN "owned" ELSE "given up"]
     /\ IF Chooses(d, owned)
          THEN /\ todo' = [todo EXCEPT ![t] = << Request(<<"set configuration">>) >>]
               /\ run' = <<t>>
          ELSE todo' = [todo EXCEPT ![t] = <<>>] /\ UNCHANGED run
  /\ UNCHANGED <<slot, table, used, flags, commands, ring, controller, given>>

\* SetConfiguration makes the interfaces, whether the device agreed or not,
\* and starts the driver of each.
Configured(d) ==
  LET i == Interfaces(Configurations(d)[1], Opening) IN
  /\ Resumes(<<d, Start>>) /\ Done("set configuration")
  /\ state' = [state EXCEPT ![d] = "used"]
  /\ todo' = [t \in Tasks |-> IF t[1] # d THEN todo[t]
                              ELSE IF t[2] \in DOMAIN i THEN DriverScript(i[t[2]], t[2] - 1) ELSE <<>>]
  /\ run' = [n \in DOMAIN i |-> <<d, n>>]
  /\ UNCHANGED <<slot, table, used, flags, commands, ring, controller, given>>

\* A driver's start goes on, whatever became of its request for a report.
DriverGoesOn(d, n) ==
  /\ n # Start /\ Resumes(<<d, n>>)
  /\ given' = IF Done("configure") THEN [given EXCEPT ![<<d, n>>] = @ \cup {Event.what[2]}]
                                   ELSE given
  /\ Proceed(<<d, n>>)
  /\ UNCHANGED <<device, commands, ring, controller>>

-----------------------------------------------------------------------------
(* The controller.                                                         *)

Complete(entry, ok, s) ==
  events' = Append(events, [task |-> entry.task, what |-> entry.what, ok |-> ok, slot |-> s])

\* A command is executed.  It reads the input context of the device that sent
\* it now.  Nobody looks at the completion of DisableSlot.
Execute ==
  /\ commands # <<>>
  /\ commands' = Tail(commands)
  /\ LET c == Head(commands) IN
     \/ /\ c.what[1] \in MayFail /\ Complete(c, FALSE, c.slot)
        /\ UNCHANGED <<enabled, endpoints>>
     \/ /\ c.what[1] = "enable"
        /\ \E s \in Slots \ enabled : enabled' = enabled \cup {s} /\ Complete(c, TRUE, s)
        /\ UNCHANGED endpoints
     \/ /\ c.what[1] = "disable"
        /\ enabled' = enabled \ {c.slot} /\ endpoints' = [endpoints EXCEPT ![c.slot] = {}]
        /\ UNCHANGED events
     \/ /\ c.what[1] = "address" /\ Complete(c, TRUE, c.slot)
        /\ UNCHANGED <<enabled, endpoints>>
     \/ /\ c.what[1] = "configure" /\ Complete(c, TRUE, c.slot)
        /\ endpoints' = [endpoints EXCEPT ![c.slot] = @ \cup {flags[c.task[1]]}]
        /\ UNCHANGED enabled
  /\ UNCHANGED <<device, todo, run, ring, halted, buffer, given>>

\* A request is answered.
Answer(d) ==
  /\ d \notin halted /\ ring[d] # <<>>
  /\ ring' = [ring EXCEPT ![d] = Tail(@)]
  /\ Complete(Head(ring[d]), TRUE, slot[d])
  /\ buffer' = IF Length(Head(ring[d]).what) = 3
                 THEN [buffer EXCEPT ![d] = Head(ring[d]).what] ELSE buffer
  /\ UNCHANGED <<device, todo, run, commands, halted, enabled, endpoints, given>>

\* The device refuses a request: the control ring stops, and nothing makes it
\* go on.  The completion names the block at which it stopped; only the last
\* block's resumes the coroutine.
Refuse(d) ==
  /\ d \notin halted /\ ring[d] # <<>> /\ Head(ring[d]).what[1] \in MayFail
  /\ ring' = [ring EXCEPT ![d] = Tail(@)]
  /\ halted' = halted \cup {d}
  /\ Complete(Head(ring[d]), FALSE, slot[d]) \/ UNCHANGED events
  /\ UNCHANGED <<device, todo, run, commands, buffer, enabled, endpoints, given>>

-----------------------------------------------------------------------------

Init ==
  /\ state = [d \in Devices |-> "unborn"] /\ slot = [d \in Devices |-> Null]
  /\ table = [s \in Slots |-> Null] /\ used = [d \in Devices |-> 0]
  /\ flags = [d \in Devices |-> Null] /\ todo = [t \in Tasks |-> <<>>]
  /\ run = <<>> /\ commands = <<>> /\ ring = [d \in Devices |-> <<>>]
  /\ halted = {} /\ buffer = [d \in Devices |-> Null] /\ events = <<>>
  /\ enabled = {} /\ endpoints = [s \in Slots |-> {}] /\ given = [t \in Tasks |-> {}]

Handler ==
  \/ \E d \in Devices : \/ Enabled(d) \/ NotEnabled(d) \/ GoOn(d) \/ GiveUp(d)
                        \/ Register(d) \/ Configured(d)
  \/ \E t \in Tasks : \/ SendCommand(t) \/ SendRequest(t) \/ Rest(t)
                      \/ DriverGoesOn(t[1], t[2])

Next ==
  \/ \E d \in Devices : PortChange(d)
  \/ Handler \/ Execute
  \/ \E d \in Devices : Answer(d) \/ Refuse(d)

\* Interrupts are handled, and the controller and the devices work.
Fairness ==
  /\ WF_vars(Handler) /\ WF_vars(Execute)
  /\ \A d \in Devices : WF_vars(Answer(d) \/ Refuse(d))

Spec == Init /\ [][Next]_vars /\ Fairness

-----------------------------------------------------------------------------
(* Properties.                                                             *)

Alive(d) == state[d] \notin {"unborn", "deleted"}

\* The blocks written to a control ring fit (xhci.cpp:439): it is the end of
\* the device's page, is never used a second time and has no link.
TypeOK ==
  /\ state \in [Devices -> {"unborn", "starting", "deleted", "given up", "owned", "used"}]
  /\ slot \in [Devices -> Slots \cup {Null}]
  /\ table \in [Slots -> Devices \cup {Null}]
  /\ used \in [Devices -> 0 .. RingBlocks]
  /\ halted \subseteq Devices /\ enabled \subseteq Slots
  /\ \A i \in DOMAIN run : run[i] \in Tasks
  /\ \A i \in DOMAIN events : events[i].task \in Tasks /\ events[i].ok \in BOOLEAN

\* Until the coroutine that asked is resumed, the device's one buffer holds
\* the answer to its request: no other coroutine of the device asks for
\* something in between (xhci.cpp:451).
OwnAnswers ==
  \A i \in DOMAIN events :
    LET e == events[i] IN
    e.ok /\ e.what # <<"set configuration">>
         /\ e.what[1] \notin {"enable", "address", "configure"}
      => buffer[e.task[1]] = e.what

\* A driver has no endpoint that the controller has not configured in its
\* device's slot, though all of a device's coroutines name the endpoint in one
\* place (xhci.cpp:683).
EndpointsConfigured ==
  \A t \in Tasks : given[t] # {} => given[t] \subseteq endpoints[slot[t[1]]]

\* A slot that the controller has enabled is a living device's, or one being
\* announced or given back; the table has the devices alive at their slots;
\* and nothing is still to come for a device that was deleted.
Announced == {events[i].slot : i \in {j \in DOMAIN events :
                events[j].ok /\ events[j].what = <<"enable">>}}
GivenBack == {commands[i].slot : i \in {j \in DOMAIN commands :
                commands[j].what = <<"disable">>}}

SlotsOwned ==
  /\ \A s \in Slots : table[s] # Null => Alive(table[s]) /\ slot[table[s]] = s
  /\ enabled = {s \in Slots : table[s] # Null} \cup Announced \cup GivenBack
  /\ \A d \in Devices : ~Alive(d) =>
       /\ ring[d] = <<>> /\ \A i \in DOMAIN events : events[i].task[1] # d
       /\ \A i \in DOMAIN commands : commands[i].task = Null \/ commands[i].task[1] # d

\* Every device that came is used, has no driver, or is given up again, unless
\* its control ring has stopped; and its drivers get their endpoints.
Settled(d) ==
  /\ state[d] \in {"deleted", "given up", "owned", "used"}
  /\ \A t \in Tasks : t[1] = d => todo[t] = <<>>

Settles ==
  \A d \in Devices : state[d] = "starting" ~> (Settled(d) \/ d \in halted)
=============================================================================
