-------------------------------- MODULE Nvme --------------------------------
(***************************************************************************)
(* An NVMe controller as kernel/src/pci/nvme.cpp drives it: the admin      *)
(* queues that start the controller and its one disk, then the disk's own  *)
(* submission and completion queue, with the promises of cpp/include/      *)
(* future.h that connect a completion with the coroutine that awaits it.   *)
(*                                                                         *)
(* Driver code runs during boot and in interrupt handlers, never two parts *)
(* of it at a time; a coroutine resumed by a handler runs inside it until  *)
(* it suspends.  The controller works concurrently, executes the commands  *)
(* in any order, and may be the kind that has one interrupt vector only.   *)
(*                                                                         *)
(* A definition named Mut... is a faulty variant of the one it stands      *)
(* before; PROJECT.json names the property that rejects it.                *)
(***************************************************************************)
EXTENDS Integers, Sequences, FiniteSets

CONSTANTS
  Readers,   \* coroutines that use the disk
  Blocks,    \* reader -> the most commands it sends before it awaits them
  Kind,      \* reader -> what it asks the disk for
  Size       \* queue -> its slots: 64 (admin) and 256 (disk).  The disk's
             \*   size register counts from zero, so that the controller
             \*   takes 0x100 for 257; here it takes it for what the driver
             \*   means.
CONSTANT
  Overtaken  \* bound: queue -> how many commands can be sent while one is
             \*   outstanding

Admin == "admin"
Io == "io"
Queues == {Admin, Io}
Device == "device"       \* the coroutine NvmeDevice::start
Disk == "disk"           \* the coroutine NvmeDisk::start
Tasks == Readers \cup {Device, Disk}

\* What a disk is asked for.  Write is there, but nothing sends it.
Requests == {"read", "trim", "flush"}

\* The admin queues never come round.
ASSUME RoomAssumption ==
  /\ {Device, Disk} \cap Readers = {} /\ IsFiniteSet(Readers)
  /\ Size \in [Queues -> Nat \ {0}] /\ Size[Admin] > 5
  /\ Blocks \in [Readers -> Nat \ {0}] /\ Kind \in [Readers -> Requests]
  /\ \A c \in Readers : Blocks[c] > 1 => Kind[c] = "read"
  /\ Overtaken \in [Queues -> Nat]
  /\ \A q \in Queues : Overtaken[q] + Size[q] < 2 * Size[q]

\* A promise is named by the task that sends the command and a number.
Promises ==
  (UNION {{c} \X (1 .. Blocks[c]) : c \in Readers}) \cup ({Device, Disk} \X (1 .. 3))

\* A slot without a command
NoCommand == [id |-> 0, p |-> <<Device, 1>>, op |-> "none"]

VARIABLES
  sq,          \* queue -> slot -> [id, p, op], a command
  sqi,         \* the driver's index, modulo two rounds; also the identifier
  tail,        \* the slot the driver last rang the doorbell with
  head,        \* the controller's slot
  fetched,     \* commands the controller is executing, with their queues
  created,     \* the queues the controller knows: "io" is its submission
               \*   queue, "cq" the completion queue for it
  cq,          \* queue -> slot -> [id, phase], a completion
  post,        \* where the controller puts the next, modulo two rounds
  cqHead,      \* the slot the driver last told the controller of
  cqi,         \* the driver's index, modulo two rounds
  msi,         \* does the controller have one vector for both queues?
  irq,         \* interrupts latched
  listeners,   \* the queues whose handlers are registered, in order
  handlers,    \* the handlers this interrupt still has to call
  step, at,    \* the place in the handler called
  completions, \* queue -> a sequence of [id, p]
  ready,       \* promises that have their value
  todo,        \* task -> promises it is about to await, in order
  waiting,     \* tasks suspended on the first of them
  pc,          \* task -> its place
  run,         \* tasks running, the innermost first
  executed     \* history: commands executed whose senders have not gone on

queues == <<sq, sqi, tail>>
controller == <<head, fetched, created, cq, post>>
handling == <<handlers, step, at>>
tasks == <<todo, waiting, pc>>
vars == <<queues, controller, cqHead, cqi, msi, irq, listeners, handling,
          completions, ready, tasks, run, executed>>

-----------------------------------------------------------------------------
(* Sending commands.                                                       *)

\* RingDoorbell(0 or nsid * 2, index): a queue that does not exist yet does
\* not listen.
Doorbell(q, index) ==
  tail' = IF q \in created THEN [tail EXCEPT ![q] = index] ELSE tail

\* RunAdminCommand and RunCommand, which do the same on their own queue.
MutNextIndex(i, q) == i + 1
NextIndex(i, q) == (i + 1) % (2 * Size[q])

RunCommand(q, op, p) ==
  /\ sq' = [sq EXCEPT ![q][sqi[q] % Size[q]] = [id |-> sqi[q], p |-> p, op |-> op]]
  /\ sqi' = [sqi EXCEPT ![q] = NextIndex(@, q)]
  /\ completions' = [completions EXCEPT ![q] =
                       Append(@, [id |-> sqi[q], p |-> p])]
  /\ Doorbell(q, sqi'[q] % Size[q])

Return == run' = Tail(run)

\* co_await of the first future: it is ready, or the task suspends.
AwaitFirst(c) ==
  LET p == Head(todo[c]) IN
  IF p \in ready
    THEN /\ todo' = [todo EXCEPT ![c] = Tail(@)]
         /\ ready' = IF c \in Readers THEN ready \ {p} ELSE ready
         /\ executed' = executed \ {p}
         /\ UNCHANGED <<waiting, run>>
    ELSE /\ waiting' = waiting \cup {c}
         /\ Return
         /\ UNCHANGED <<todo, ready, executed>>

Awaiting(c) == todo[c] # <<>> /\ Head(todo[c]) \notin ready

-----------------------------------------------------------------------------
(* The controller and its disk start.                                      *)

MutScript == [c \in {Device, Disk} |->
  IF c = Device
    THEN <<"identify", "list", "await", "new_disk", "await">>
    ELSE <<"identify", "await", "cq", "sq", "register", "await", "await">>]

\* What NvmeDevice::start and NvmeDisk::start do, in order.
Script == [c \in {Device, Disk} |->
  IF c = Device
    THEN <<"identify", "list", "await", "new_disk", "await">>
    ELSE <<"identify", "await", "cq", "await", "sq", "await", "register">>]

Op(c) == IF pc[c] <= Len(Script[c]) THEN Script[c][pc[c]] ELSE "end"

Running(c) == run # <<>> /\ Head(run) = c

\* The list of namespaces is awaited before the answer to the first command.
Command(c) ==
  /\ Running(c) /\ Op(c) \in {"identify", "list", "cq", "sq"}
  /\ LET p == <<c, Cardinality({n \in 1 .. pc[c] :
                   Script[c][n] \in {"identify", "list", "cq", "sq"}})>>
     IN /\ RunCommand(Admin, Op(c), p)
        /\ todo' = [todo EXCEPT ![c] = IF c = Device THEN <<p>> \o @
                                                     ELSE Append(@, p)]
  /\ pc' = [pc EXCEPT ![c] = @ + 1]
  /\ UNCHANGED <<controller, cqHead, cqi, msi, irq, listeners, handling, ready,
                 waiting, run, executed>>

AwaitCommand(c) ==
  /\ Running(c) /\ Op(c) = "await"
  /\ AwaitFirst(c)
  /\ pc' = [pc EXCEPT ![c] = IF Awaiting(c) THEN @ ELSE @ + 1]
  /\ UNCHANGED <<queues, controller, cqHead, cqi, msi, irq, listeners, handling,
                 completions>>

\* new NvmeDisk: the constructor registers a handler and calls start.
NewDisk ==
  /\ Running(Device) /\ Op(Device) = "new_disk"
  /\ listeners' = Append(listeners, Io)
  /\ run' = <<Disk>> \o run
  /\ pc' = [pc EXCEPT ![Device] = @ + 1]
  /\ UNCHANGED <<queues, controller, cqHead, cqi, msi, irq, handling,
                 completions, ready, todo, waiting, executed>>

\* RegisterDisk starts one of the readers, the one that probes the disk.
Register(c) ==
  /\ Running(Disk) /\ Op(Disk) = "register" /\ c \in Readers
  /\ pc' = [pc EXCEPT ![Disk] = @ + 1, ![c] = 1]
  /\ run' = <<c>> \o run
  /\ UNCHANGED <<queues, controller, cqHead, cqi, msi, irq, listeners, handling,
                 completions, ready, todo, waiting, executed>>

Registered == \E c \in Readers : pc[c] > 0

\* A namespace with blocks of a strange size is not registered.
End(c) ==
  /\ Running(c) /\ c \in {Device, Disk}
  /\ \/ Op(c) = "end" /\ UNCHANGED pc
     \/ c = Disk /\ Op(c) = "cq" /\ pc' = [pc EXCEPT ![c] = Len(Script[c]) + 1]
  /\ Return
  /\ UNCHANGED <<queues, controller, cqHead, cqi, msi, irq, listeners, handling,
                 completions, ready, todo, waiting, executed>>

-----------------------------------------------------------------------------
(* The disk is used: 0 not begun, 1 sends commands, 2 awaits them.         *)

\* Bound: no code looks at the submission queue's head, so what is outstanding
\* at a time has to fit.
ToAwait(p) == \E i \in DOMAIN todo[p[1]] : todo[p[1]][i] = p
Room == Cardinality({p \in Promises : p[1] \in Readers /\ ToAwait(p)}) < Size[Io] - 1

Begin(c) ==
  /\ run = <<>> /\ handlers = <<>> /\ c \in Readers /\ todo[c] = <<>> /\ Registered
  /\ Room
  /\ run' = <<c>> /\ pc' = [pc EXCEPT ![c] = 1]
  /\ UNCHANGED <<queues, controller, cqHead, cqi, msi, irq, listeners, handling,
                 completions, ready, todo, waiting, executed>>

\* One turn of read's loop; trim and flush send one command.
Issue(c) ==
  /\ Running(c) /\ c \in Readers /\ pc[c] = 1 /\ Len(todo[c]) < Blocks[c] /\ Room
  /\ LET p == <<c, Len(todo[c]) + 1>>
     IN RunCommand(Io, Kind[c], p) /\ todo' = [todo EXCEPT ![c] = Append(@, p)]
  /\ UNCHANGED <<controller, cqHead, cqi, msi, irq, listeners, handling, ready,
                 waiting, pc, run, executed>>

Await(c) ==
  /\ Running(c) /\ c \in Readers /\ todo[c] # <<>>
  /\ AwaitFirst(c)
  /\ pc' = [pc EXCEPT ![c] = IF Awaiting(c) \/ Len(todo[c]) > 1 THEN 2 ELSE 1]
  /\ UNCHANGED <<queues, controller, cqHead, cqi, msi, irq, listeners, handling,
                 completions>>

Stop(c) ==
  /\ Running(c) /\ c \in Readers /\ todo[c] = <<>>
  /\ Return
  /\ UNCHANGED <<queues, controller, cqHead, cqi, msi, irq, listeners, handling,
                 completions, ready, tasks, executed>>

-----------------------------------------------------------------------------
(* The controller.                                                         *)

\* What was in the slot is not looked at again and left out.
Fetch(q) ==
  /\ head[q] # tail[q]
  /\ fetched' = fetched \cup {[q |-> q, cmd |-> sq[q][head[q]]]}
  /\ head' = [head EXCEPT ![q] = (@ + 1) % Size[q]]
  /\ sq' = [sq EXCEPT ![q][head[q]] = NoCommand]
  /\ UNCHANGED <<sqi, tail, created, cq, post, cqHead, cqi, msi, irq, listeners,
                 handling, completions, ready, tasks, run, executed>>

PhaseAt(i, q) == IF i < Size[q] THEN 1 ELSE 0
Vector(q) == IF msi THEN Admin ELSE q

\* A submission queue is created if its completion queue is there.
Created(op) ==
  CASE op = "cq" -> created \cup {"cq"}
    [] op = "sq" /\ "cq" \in created -> created \cup {Io}
    [] OTHER -> created

\* The commands the controller has before it.
Live(q) == {sq[q][(head[q] + k) % Size[q]] : k \in 0 .. ((tail[q] - head[q]) % Size[q]) - 1}
           \cup {f.cmd : f \in {g \in fetched : g.q = q}}

\* No command is overtaken by so many others that its identifier comes up
\* again while it is outstanding: no code checks this.
Overtakes(f) ==
  \A cmd \in Live(f.q) \ {f.cmd} :
    (sqi[f.q] - cmd.id) % (2 * Size[f.q]) <= Overtaken[f.q]

Execute(f) ==
  LET q == f.q IN
  /\ f \in fetched /\ Overtakes(f)
  /\ (post[q] + 1) % Size[q] # cqHead[q]
  /\ fetched' = fetched \ {f}
  /\ created' = Created(f.cmd.op)
  /\ cq' = [cq EXCEPT ![q][post[q] % Size[q]] =
              [id |-> f.cmd.id, phase |-> PhaseAt(post[q], q)]]
  /\ post' = [post EXCEPT ![q] = (@ + 1) % (2 * Size[q])]
  /\ irq' = irq \cup {Vector(q)}
  /\ executed' = executed \cup {f.cmd.p}
  /\ UNCHANGED <<queues, head, cqHead, cqi, msi, listeners, handling,
                 completions, ready, tasks, run>>

-----------------------------------------------------------------------------
(* Interrupts.                                                             *)

\* interrupt_check(vector): every handler registered for it, in order.
Interrupt(v) ==
  /\ run = <<>> /\ handlers = <<>> /\ v \in irq
  /\ handlers' = SelectSeq(listeners, LAMBDA q : Vector(q) = v)
  /\ irq' = irq \ {v}
  /\ UNCHANGED <<queues, controller, cqHead, cqi, msi, listeners, step, at,
                 completions, ready, tasks, run, executed>>

Handling(q, s) == run = <<>> /\ handlers # <<>> /\ Head(handlers) = q /\ step = s

Valid(i, q) == cq[q][i % Size[q]].phase = PhaseAt(i, q)

\* The next entry of completions, from the position at, for the completion
\* that the handler looks at.
MutMatches(q) == {n \in DOMAIN completions[q] : n >= at}
Matches(q) == {n \in DOMAIN completions[q] :
                 n >= at /\ completions[q][n].id = cq[q][cqi[q] % Size[q]].id}

\* A HandleInterrupt finds no more completions; only the disk's tells the
\* controller how far it is.
Done(q) ==
  /\ Handling(q, "look") /\ ~Valid(cqi[q], q)
  /\ handlers' = Tail(handlers)
  /\ cqHead' = IF q = Io THEN [cqHead EXCEPT ![q] = cqi[q] % Size[q]] ELSE cqHead
  /\ UNCHANGED <<queues, controller, cqi, msi, irq, listeners, step, at,
                 completions, ready, tasks, run, executed>>

\* promise::set_value resumes who awaits it.
SetValue(p) ==
  /\ ready' = ready \cup {p}
  /\ IF p[1] \in waiting /\ Head(todo[p[1]]) = p
       THEN run' = <<p[1]>> /\ waiting' = waiting \ {p[1]}
       ELSE UNCHANGED <<run, waiting>>

\* The admin queue's loop looks at every entry and keeps it; the disk's stops
\* at the first and removes it when set_value is back.
Match(q) ==
  /\ Handling(q, "look") /\ Valid(cqi[q], q) /\ Matches(q) # {}
  /\ LET n == CHOOSE n \in Matches(q) : \A m \in Matches(q) : n <= m IN
     /\ SetValue(completions[q][n].p)
     /\ IF q = Io THEN step' = "remove" /\ at' = n
                  ELSE at' = n + 1 /\ UNCHANGED step
  /\ UNCHANGED <<queues, controller, cqHead, cqi, msi, irq, listeners, handlers,
                 completions, todo, pc, executed>>

NoMatch(q) ==
  /\ Handling(q, "look") /\ Valid(cqi[q], q) /\ Matches(q) = {}
  /\ cqi' = [cqi EXCEPT ![q] = (@ + 1) % (2 * Size[q])]
  /\ at' = 1
  /\ UNCHANGED <<queues, controller, cqHead, msi, irq, listeners, handlers,
                 step, completions, ready, tasks, run, executed>>

\* completions[n] = completions.back(); pop_back()
MutWithout(s, n) == [i \in 1 .. Len(s) - 1 |-> s[i]]
Without(s, n) == [i \in 1 .. Len(s) - 1 |-> IF i = n THEN s[Len(s)] ELSE s[i]]

Remove ==
  /\ Handling(Io, "remove")
  /\ completions' = [completions EXCEPT ![Io] = Without(@, at)]
  /\ cqi' = [cqi EXCEPT ![Io] = (@ + 1) % (2 * Size[Io])]
  /\ step' = "look" /\ at' = 1
  /\ UNCHANGED <<queues, controller, cqHead, msi, irq, listeners, handlers,
                 ready, tasks, run, executed>>

-----------------------------------------------------------------------------

Init ==
  /\ sq = [q \in Queues |-> [i \in 0 .. Size[q] - 1 |-> NoCommand]]
  /\ sqi = [q \in Queues |-> 0] /\ tail = sqi /\ head = sqi
  /\ fetched = {} /\ created = {Admin}
  /\ cq = [q \in Queues |-> [i \in 0 .. Size[q] - 1 |-> [id |-> 0, phase |-> 0]]]
  /\ post = sqi /\ cqHead = sqi /\ cqi = sqi
  /\ msi \in BOOLEAN /\ irq = {} /\ listeners = <<Admin>>
  /\ handlers = <<>> /\ step = "look" /\ at = 1
  /\ completions = [q \in Queues |-> <<>>] /\ ready = {}
  /\ todo = [c \in Tasks |-> <<>>] /\ waiting = {}
  /\ pc = [c \in Tasks |-> IF c \in Readers THEN 0 ELSE 1]
  /\ run = <<Device>> /\ executed = {}

Driver ==
  \/ \E c \in {Device, Disk} : Command(c) \/ AwaitCommand(c) \/ End(c)
  \/ NewDisk
  \/ \E c \in Readers : Register(c) \/ Issue(c) \/ Await(c) \/ Stop(c)
  \/ \E q \in Queues : Done(q) \/ Match(q) \/ NoMatch(q)
  \/ Remove

Next ==
  \/ Driver
  \/ \E c \in Readers : Begin(c)
  \/ \E v \in Queues : Interrupt(v)
  \/ \E q \in Queues : Fetch(q)
  \/ \E f \in fetched : Execute(f)

\* The driver's code goes on while it can, interrupts latched are delivered
\* when interrupts are on, and the controller works on every task's commands,
\* which are finitely many before the task has to go on.
Fairness ==
  /\ WF_vars(Driver)
  /\ \A v \in Queues : SF_vars(Interrupt(v))
  /\ \A q \in Queues : WF_vars(Fetch(q))
  /\ \A c \in Tasks : WF_vars(\E f \in fetched : f.cmd.p[1] = c /\ Execute(f))

Spec == Init /\ [][Next]_vars /\ Fairness

-----------------------------------------------------------------------------
(* Properties.                                                             *)

TypeOK ==
  /\ \A q \in Queues :
       /\ {sqi[q], post[q], cqi[q]} \subseteq 0 .. 2 * Size[q] - 1
       /\ {tail[q], head[q], cqHead[q]} \subseteq 0 .. Size[q] - 1
       /\ \A i \in 0 .. Size[q] - 1 : /\ sq[q][i].p \in Promises
                                      /\ cq[q][i].phase \in {0, 1}
       /\ \A n \in DOMAIN completions[q] : completions[q][n].p \in Promises
  /\ \A f \in fetched : f.q \in Queues /\ f.cmd.p \in Promises
  /\ created \subseteq {Admin, "cq", Io} /\ msi \in BOOLEAN /\ irq \subseteq Queues
  /\ step \in {"look", "remove"} /\ at \in Nat
  /\ ready \subseteq Promises /\ executed \subseteq Promises /\ waiting \subseteq Tasks
  /\ \A c \in Tasks : \A i \in DOMAIN todo[c] : todo[c][i] \in Promises
  /\ \A i \in DOMAIN run : run[i] \in Tasks

\* The identifier of a command outstanding names one entry of completions,
\* with the promise of that command, which is still to be fulfilled: the
\* identifiers of the disk's commands turn over while older commands are
\* outstanding (nvme.cpp:383), entries change their places (:430), and the
\* admin queue keeps its entries for ever (:490).
OneEntryEach ==
  \A q \in Queues : \A cmd \in Live(q) :
    \E n \in DOMAIN completions[q] :
      /\ completions[q][n] = [id |-> cmd.id, p |-> cmd.p]
      /\ \A m \in DOMAIN completions[q] : completions[q][m].id = cmd.id => m = n
      /\ cmd.p \notin ready

\* A task goes on from a co_await only after the controller has executed the
\* command that it awaits, and each command is executed once.
Promised == INSTANCE Commands WITH
  sent <- {p \in Promises : ToAwait(p)} \ executed, executed <- executed
ImplementsCommands == Promised!Spec

\* Whoever awaits a command goes on some day: no completion is missed at the
\* turn of the phase (nvme.cpp:420), none is left behind by a handler that
\* returns (:421), and no command goes to a queue that is not there yet.
IsServed == \A c \in Tasks : c \in waiting ~> c \notin waiting
=============================================================================
