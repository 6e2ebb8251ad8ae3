------------------------------ MODULE XhciRings ------------------------------
(***************************************************************************)
(* The rings of an xHCI controller as kernel/src/usb/xhci.cpp uses them:   *)
(* the command ring, a transfer ring per endpoint, the event ring, and the *)
(* list of callbacks that connects events with the coroutines that wait.   *)
(*                                                                         *)
(* Driver code runs in interrupt handlers and during boot, never two parts *)
(* of it at a time; the controller works concurrently with it.  A request  *)
(* block (TRB) names its client in place of a buffer.  The driver stores a *)
(* transfer's block before it sets the block's flags, and in every second  *)
(* round the block is valid for the controller from the first store on.    *)
(*                                                                         *)
(* A definition named Mut... is a faulty variant of the one it stands      *)
(* before; PROJECT.json names the property that rejects it.                *)
(***************************************************************************)
EXTENDS Integers, Sequences, FiniteSets

CONSTANTS
  Clients,      \* coroutines that send commands or transfers
  Endpoints,    \* one transfer ring each
  CommandRing,
  Uses,         \* client -> the rings it uses
  RingSize,     \* blocks of a ring, 256; a transfer ring's last is its link
  EventSize,    \* blocks of the event ring, 256
  MaxCommands,  \* bound: commands ever sent, at most RingSize, for no link
                \*   follows the command ring's last block
  MaxChanges,   \* bound: port changes reported, to keep the event ring from
                \*   being full of them
  EarlyLook,    \* may the controller execute a block between the two stores?
  Nobody

Rings == Endpoints \cup {CommandRing}

UsersOf(r) == {c \in Clients : r \in Uses[c]}

\* Requests outstanding never fill a ring: no code checks this, but a transfer
\* ring has fewer users than blocks.
ASSUME RoomAssumption ==
  /\ RingSize \in Nat \ {0, 1} /\ EventSize \in Nat \ {0}
  /\ CommandRing \notin Endpoints /\ Nobody \notin Clients
  /\ MaxCommands \in 0 .. RingSize /\ MaxChanges \in Nat
  /\ Uses \in [Clients -> SUBSET Rings]
  /\ \A r \in Endpoints : IsFiniteSet(UsersOf(r)) /\ Cardinality(UsersOf(r)) < RingSize

VARIABLES
  ring,       \* ring -> slot -> request block
  index,      \* loopIndex of an endpoint, modulo two rounds; currentCommand
  dequeue,    \* the controller's slot on each ring
  consumer,   \* the controller's cycle state on each ring
  armed,      \* rings the controller is working on
  events,     \* slot -> [addr, cycle]
  posted,     \* where the controller puts the next event, modulo two rounds
  changes,    \* port changes reported so far
  erdp,       \* the event slot the driver last told the controller of
  eventIndex, \* eventRingIndex, modulo two rounds
  irq,        \* an interrupt is latched
  callbacks,  \* a sequence of [addr, who]
  pc,         \* what the driver is doing
  who,        \* the client that runs
  target,     \* the ring it writes to
  back,       \* pc when the running client suspends
  found,      \* the position in callbacks of the event being handled, or 0
  waiting,    \* clients that wait for their request
  executed,   \* history: requests executed whose clients were not resumed
  queue       \* history: ring -> the requests ahead of the controller

hardware == <<dequeue, consumer, events, posted, changes>>
history == <<executed, queue>>
client == <<who, target, back, waiting>>
vars == <<ring, index, hardware, armed, erdp, eventIndex, irq, callbacks, pc,
          client, found, history>>

Empty == [kind |-> "empty", who |-> Nobody, cycle |-> 0, ioc |-> FALSE]

\* The cycle bit of the round that position i, modulo two rounds, is in.
CycleAt(i, n) == IF i < n THEN 1 ELSE 0

PortChange == <<"port change">>

\* A controller at p, a slot and a cycle state, finds a valid block there or
\* none; beyond a link it goes on at the ring's start.
Valid(r, p) == p[1] < RingSize /\ ring[r][p[1]].cycle = p[2]
Beyond(r, p) ==
  IF ring[r][p[1]].kind = "link" THEN <<0, 1 - p[2]>> ELSE <<p[1] + 1, p[2]>>

\* The requests ahead of the controller on ring r, at most a round.
Ahead(r) ==
  LET from[n \in 0 .. RingSize] ==
        [p \in (0 .. RingSize) \X {0, 1} |->
           IF n = 0 \/ ~Valid(r, p) THEN <<>>
           ELSE (IF ring[r][p[1]].kind = "link" THEN <<>> ELSE <<ring[r][p[1]].who>>)
                \o from[n - 1][Beyond(r, p)]]
  IN from[RingSize][<<dequeue[r], consumer[r]>>]

KeepQueue == queue' = [r \in Rings |-> Ahead(r)']

-----------------------------------------------------------------------------
(* The driver: requests.                                                   *)

\* A client runs until it suspends, then whoever started it goes on.
Run(c, after) == pc' = "running" /\ who' = c /\ back' = after

Return == pc' = back /\ who' = Nobody /\ back' = "idle"

Start(c) ==
  /\ pc = "idle" /\ c \notin waiting
  /\ Run(c, "idle")
  /\ UNCHANGED <<ring, index, hardware, armed, erdp, eventIndex, irq, callbacks,
                 target, waiting, found, history>>

Stop ==
  /\ pc = "running"
  /\ Return
  /\ UNCHANGED <<ring, index, hardware, armed, erdp, eventIndex, irq, callbacks,
                 target, waiting, found, history>>

\* RegisterStatus, the doorbell, and the co_await.
AwaitStatus(r, slot) ==
  /\ callbacks' = Append(callbacks, [addr |-> <<r, slot>>, who |-> who])
  /\ armed' = armed \cup {r}
  /\ waiting' = waiting \cup {who}
  /\ Return

\* XhciDevice::RunCommand.
RunCommand ==
  /\ pc = "running" /\ CommandRing \in Uses[who]
  /\ index[CommandRing] < MaxCommands
  /\ ring' = [ring EXCEPT ![CommandRing][index[CommandRing]] =
                [kind |-> "request", who |-> who, cycle |-> 1, ioc |-> TRUE]]
  /\ index' = [index EXCEPT ![CommandRing] = @ + 1]
  /\ AwaitStatus(CommandRing, index[CommandRing])
  /\ UNCHANGED <<hardware, erdp, eventIndex, irq, target, found, executed>>
  /\ KeepQueue

\* XhciEndpoint::EnsureSpaceFor(1).
MutNextRound(i) == 0
MutUnmasked(i) == i + RingSize
NextRound(i) == IF i < RingSize THEN RingSize ELSE 0

EnsureSpaceFor(r) ==
  LET slot == index[r] % RingSize IN
  /\ pc = "running" /\ r \in Uses[who] \ {CommandRing}
  /\ IF slot + 1 < RingSize
       THEN UNCHANGED <<ring, index>>
       ELSE /\ ring' = [ring EXCEPT ![r][slot] =
                          [kind |-> "link", who |-> Nobody, ioc |-> FALSE,
                           cycle |-> CycleAt(index[r], RingSize)]]
            /\ index' = [index EXCEPT ![r] = NextRound(@)]
  /\ target' = r
  /\ pc' = "place"
  /\ UNCHANGED <<hardware, armed, erdp, eventIndex, irq, callbacks, who, back,
                 waiting, found, executed>>
  /\ KeepQueue

\* WriteData and ReadData: cmd = NormalTRB(...), then cmd.control |= ...
Slot == index[target] % RingSize

Place ==
  /\ pc = "place"
  /\ ring' = [ring EXCEPT ![target][Slot] =
                [kind |-> "request", who |-> who, cycle |-> 0, ioc |-> FALSE]]
  /\ pc' = "publish"
  /\ UNCHANGED <<index, hardware, armed, erdp, eventIndex, irq, callbacks, client,
                 found, executed>>
  /\ KeepQueue

Published(trb) == [trb EXCEPT !.ioc = TRUE, !.cycle = CycleAt(index[target], RingSize)]

Publish ==
  /\ pc = "publish"
  /\ ring' = [ring EXCEPT ![target][Slot] = Published(@)]
  /\ index' = [index EXCEPT ![target] = @ + 1]
  /\ AwaitStatus(target, Slot)
  /\ UNCHANGED <<hardware, erdp, eventIndex, irq, target, found, executed>>
  /\ KeepQueue

-----------------------------------------------------------------------------
(* The driver: events.  HandleInterrupt takes one event per interrupt.     *)

Event == events[eventIndex % EventSize]

MutIsNew == Event.addr # <<>>
IsNew == Event.cycle = CycleAt(eventIndex, EventSize)

Matches(n) == callbacks[n].addr = Event.addr

FirstMatch(n) == Matches(n) /\ \A i \in 1 .. n - 1 : ~Matches(i)

\* The write of ERDP clears the handler-busy bit, and the controller interrupts
\* again when it has posted events beyond.
TellController(i) ==
  /\ erdp' = i % EventSize
  /\ irq' = (i # posted)

HandleNothing ==
  /\ pc = "idle" /\ irq
  /\ ~IsNew
  /\ TellController(eventIndex)
  /\ UNCHANGED <<ring, index, hardware, armed, eventIndex, callbacks, pc, client,
                 found, history>>

\* set_value resumes the client, which may submit its next request at once.
HandleCompletion(n) ==
  /\ pc = "idle" /\ irq
  /\ IsNew /\ FirstMatch(n)
  /\ irq' = FALSE
  /\ found' = n
  /\ Run(callbacks[n].who, "finish")
  /\ waiting' = waiting \ {callbacks[n].who}
  /\ executed' = executed \ {callbacks[n].who}
  /\ UNCHANGED <<ring, index, hardware, armed, erdp, eventIndex, callbacks, target,
                 queue>>

\* A device at the port: its coroutine starts inside the handler.
HandlePortChange(c) ==
  /\ pc = "idle" /\ irq
  /\ IsNew /\ Event.addr = PortChange
  /\ c \notin waiting
  /\ irq' = FALSE
  /\ Run(c, "finish")
  /\ UNCHANGED <<ring, index, hardware, armed, erdp, eventIndex, callbacks, target,
                 waiting, found, history>>

\* No device there: the port's speed is 0.
HandleDisconnect ==
  /\ pc = "idle" /\ irq
  /\ IsNew /\ Event.addr = PortChange
  /\ irq' = FALSE
  /\ pc' = "finish"
  /\ UNCHANGED <<ring, index, hardware, armed, erdp, eventIndex, callbacks, client,
                 found, history>>

\* The callback leaves the list: the last one takes its place.
MutWithout(n) == SubSeq(callbacks, 1, Len(callbacks) - 1)
Without(n) ==
  SubSeq([callbacks EXCEPT ![n] = callbacks[Len(callbacks)]], 1, Len(callbacks) - 1)

MutNextEvent == (eventIndex + 1) % EventSize
NextEvent == (eventIndex + 1) % (2 * EventSize)

FinishEvent ==
  /\ pc = "finish"
  /\ callbacks' = IF found = 0 THEN callbacks ELSE Without(found)
  /\ found' = 0
  /\ eventIndex' = NextEvent
  /\ TellController(NextEvent)
  /\ pc' = "idle"
  /\ UNCHANGED <<ring, index, hardware, armed, client, history>>

-----------------------------------------------------------------------------
(* The controller.                                                         *)

Block(r) == ring[r][dequeue[r]]

IsValid(r) == Valid(r, <<dequeue[r], consumer[r]>>)

FollowLink(r) ==
  /\ r \in armed /\ IsValid(r)
  /\ Block(r).kind = "link"
  /\ dequeue' = [dequeue EXCEPT ![r] = 0]
  /\ consumer' = [consumer EXCEPT ![r] = 1 - @]
  /\ UNCHANGED <<ring, index, armed, events, posted, changes, erdp, eventIndex, irq,
                 callbacks, pc, client, found, executed>>
  /\ KeepQueue

\* Until the driver has written ERDP again a further event does not interrupt.
PostEvent(addr) ==
  /\ (posted + 1) % EventSize # erdp
  /\ events' = [events EXCEPT ![posted % EventSize] =
                  [addr |-> addr, cycle |-> CycleAt(posted, EventSize)]]
  /\ posted' = (posted + 1) % (2 * EventSize)
  /\ irq' = (irq \/ posted % EventSize = erdp)

Execute(r) ==
  /\ r \in armed /\ IsValid(r)
  /\ Block(r).kind = "request"
  /\ ~EarlyLook => ~(pc = "publish" /\ r = target /\ dequeue[r] = Slot)
  /\ dequeue' = [dequeue EXCEPT ![r] = @ + 1]
  /\ executed' = executed \cup {Block(r).who}
  /\ IF Block(r).ioc THEN PostEvent(<<r, dequeue[r]>>) ELSE UNCHANGED <<events, posted, irq>>
  /\ UNCHANGED <<ring, index, consumer, armed, changes, erdp, eventIndex, callbacks, pc,
                 client, found>>
  /\ KeepQueue

RunDry(r) ==
  /\ r \in armed /\ ~IsValid(r)
  /\ armed' = armed \ {r}
  /\ UNCHANGED <<ring, index, hardware, erdp, eventIndex, irq, callbacks, pc,
                 client, found, history>>

PortChanges ==
  /\ changes < MaxChanges
  /\ changes' = changes + 1
  /\ PostEvent(PortChange)
  /\ UNCHANGED <<ring, index, dequeue, consumer, armed, erdp, eventIndex, callbacks,
                 pc, client, found, history>>

\* interrupt_check() calls every handler, whoever has interrupted.
OtherInterrupt ==
  /\ irq' = TRUE
  /\ UNCHANGED <<ring, index, hardware, armed, erdp, eventIndex, callbacks, pc,
                 client, found, history>>

-----------------------------------------------------------------------------

Init ==
  /\ ring = [r \in Rings |-> [i \in 0 .. RingSize - 1 |-> Empty]]
  /\ index = [r \in Rings |-> 0]
  /\ dequeue = [r \in Rings |-> 0]
  /\ consumer = [r \in Rings |-> 1]
  /\ armed = {}
  /\ events = [i \in 0 .. EventSize - 1 |-> [addr |-> <<>>, cycle |-> 0]]
  /\ posted = 0 /\ changes = 0 /\ erdp = 0 /\ eventIndex = 0
  /\ irq = FALSE
  /\ callbacks = <<>>
  /\ pc = "idle" /\ who = Nobody /\ target = CommandRing /\ back = "idle" /\ found = 0
  /\ waiting = {} /\ executed = {}
  /\ queue = [r \in Rings |-> <<>>]

Handle ==
  \/ HandleNothing
  \/ \E n \in DOMAIN callbacks : HandleCompletion(n)
  \/ \E c \in Clients : HandlePortChange(c)
  \/ HandleDisconnect

GoOn ==
  \/ Stop \/ RunCommand \/ Place \/ Publish
  \/ \E r \in Endpoints : EnsureSpaceFor(r)
  \/ FinishEvent

Controller(r) == FollowLink(r) \/ Execute(r) \/ RunDry(r)

Next ==
  \/ \E c \in Clients : Start(c)
  \/ Handle \/ GoOn
  \/ \E r \in Rings : Controller(r)
  \/ PortChanges
  \/ OtherInterrupt

\* Code that runs goes on and the controller works.  A latched interrupt is
\* taken although other drivers' handlers may run first.
Fairness ==
  /\ WF_vars(GoOn) /\ SF_vars(Handle)
  /\ \A r \in Rings : WF_vars(Controller(r))

Spec == Init /\ [][Next]_vars /\ Fairness
-----------------------------------------------------------------------------
(* Properties.                                                             *)

TypeOK ==
  /\ ring \in [Rings -> [0 .. RingSize - 1 ->
                [kind : {"empty", "request", "link"}, who : Clients \cup {Nobody},
                 cycle : {0, 1}, ioc : BOOLEAN]]]
  /\ \A r \in Endpoints : index[r] \in 0 .. 2 * RingSize - 1
  /\ index[CommandRing] \in 0 .. MaxCommands
  /\ dequeue \in [Rings -> 0 .. RingSize]
  /\ consumer \in [Rings -> {0, 1}]
  /\ armed \subseteq Rings
  /\ posted \in 0 .. 2 * EventSize - 1 /\ eventIndex \in 0 .. 2 * EventSize - 1
  /\ erdp \in 0 .. EventSize - 1 /\ changes \in 0 .. MaxChanges
  /\ irq \in BOOLEAN
  /\ pc \in {"idle", "running", "place", "publish", "finish"}
  /\ who \in Clients \cup {Nobody} /\ target \in Rings
  /\ back \in {"idle", "finish"}
  /\ found \in 0 .. Len(callbacks)
  /\ waiting \subseteq Clients /\ executed \subseteq Clients
  /\ queue \in [Rings -> Seq(Clients)]

\* Between two handlers the list of callbacks has one entry for every client
\* that waits, and no two for the same block, so an event finds its client
\* whatever was added and removed while clients were resumed.
OneCallbackEach ==
  pc = "idle" =>
    /\ {callbacks[n].who : n \in DOMAIN callbacks} = waiting
    /\ \A m, n \in DOMAIN callbacks : m # n =>
         /\ callbacks[m].who # callbacks[n].who
         /\ callbacks[m].addr # callbacks[n].addr

\* The rings implement queues: the controller executes each request once and
\* in the order of its ring, and a client is resumed once, by the completion
\* of its own request.
Queues == INSTANCE TransferQueues
          WITH Queues <- Rings

ImplementsQueues == Queues!Spec

\* Every request is answered, whatever else is on the rings and however many
\* events one interrupt stands for.
IsServed == \A c \in Clients : c \in waiting ~> c \notin waiting
=============================================================================
