------------------------------- MODULE Storage -------------------------------
(***************************************************************************)
(* Reading blocks of a USB disk: Blockcache (kernel/include/blockcache.h), *)
(* Partition (vfs.h) and UsbStorageDevice with its SCSI commands           *)
(* (UsbStorage.cpp, scsi.cpp), used by several coroutines at a time.       *)
(*                                                                         *)
(* A command is three transfers, each awaited: the command block goes out, *)
(* the data in or out, the status comes in.  Nothing keeps a second        *)
(* command out between the awaits; what orders the commands is the device, *)
(* which takes the next command block when it has sent the status.  The    *)
(* endpoints' rings are the queues that XhciRings implements.              *)
(*                                                                         *)
(* A definition named Mut... is a faulty variant of the one it stands      *)
(* before; PROJECT.json names the property that rejects it.                *)
(***************************************************************************)
EXTENDS Integers, Sequences, FiniteSets, Functions

CONSTANTS
  Readers,     \* coroutines that read through the cache
  Wants,       \* reader -> [disk, first, count]
  Base,        \* disk -> its first block on the USB disk: partitions, and the
               \*   USB disk itself
  SectorsPerBlock, \* 4096 / sectorsize
  Lbas,        \* what an address in a command can tell apart, 2^32
  Capacity,    \* what a vector has room for at first, 8
  Writer,      \* a coroutine that writes or trims; no code does so yet
  Nobody

Start == "start"          \* the coroutine UsbStorageDevice::start
Tasks == Readers \cup {Start, Writer}
Disks == DOMAIN Base
Block(r, k) == Wants[r].first + k

\* Coroutines are finitely many; start is not one of the readers.
ASSUME StorageTypes ==
  /\ IsFiniteSet(Readers) /\ Base \in [Disks -> Nat]
  /\ Wants \in [Readers -> [disk : Disks, first : Nat, count : Nat]]
  /\ SectorsPerBlock \in Nat \ {0} /\ Lbas \in Nat \ {0} /\ Capacity \in Nat \ {0}
  /\ Start \notin Readers /\ Writer \notin Readers /\ Start # Writer
  /\ Nobody \notin Tasks

\* A disk that several coroutines read has few blocks read, and there are few
\* disks, so that no vector of the cache grows while another coroutine holds
\* a reference into it; and the address of every block fits a command.
ASSUME StorageAssumption ==
  /\ Cardinality(Disks) <= Capacity
  /\ \A d \in Disks :
       LET users == {r \in Readers : Wants[r].disk = d} IN
       \/ Cardinality(users) <= 1
       \/ Cardinality(UNION {{Block(r, k) : k \in 0 .. Wants[r].count - 1} : r \in users})
            <= Capacity
  /\ \A r \in Readers :
       (Base[Wants[r].disk] + Block(r, Wants[r].count)) * SectorsPerBlock <= Lbas

VARIABLES
  entries,   \* disk -> its cache, a sequence of [block, page]; 0 is no page
  disks,     \* the disks that have a cache
  registered,\* the disk is registered and its readers may start
  running,   \* the task that runs
  pc,        \* task -> "idle", "loop", "cbw", "data", "csw"
  cmd,       \* task -> the command it has sent, [op, lba]
  got,       \* reader -> the pages it has so far
  lost,      \* readers whose reference into the cache is stale
  page,      \* task -> what its data transfer has left in its page
  out, in,   \* the endpoints: transfers [task, what] before the device
  phase,     \* what the device does next: "command", "data", "status"
  current,   \* the command it executes
  failed,    \* blocks a command failed for
  events     \* tasks whose transfers are complete, in order

cache == <<entries, disks, lost>>
vars == <<cache, registered, running, pc, cmd, got, page, out, in, phase, current,
          failed, events>>

Garbage == -1

-----------------------------------------------------------------------------
(* The cache.                                                              *)

\* Blockcache::read, and UsbStorageDevice::write or trim; a write keeps all
\* others out, for the device would take their command block for its data.
Begin(t) ==
  /\ running = Nobody /\ registered /\ pc[t] = "idle" /\ t # Start
  /\ pc[Writer] = "idle" /\ (t = Writer => \A r \in Readers : pc[r] = "idle")
  /\ running' = t
  /\ pc' = [pc EXCEPT ![t] = "loop"]
  /\ IF t = Writer THEN UNCHANGED <<got, disks>>
     ELSE got' = [got EXCEPT ![t] = <<>>] /\ disks' = disks \cup {Wants[t].disk}
  /\ UNCHANGED <<entries, lost, registered, cmd, page, out, in, phase, current,
                 failed, events>>

\* flatmap::operator[] finds the entry or adds one at the end.
Found(d, b) == {i \in DOMAIN entries[d] : entries[d][i].block = b}
Entry(d, b) == CHOOSE i \in Found(d, b) : \A j \in Found(d, b) : i <= j

\* A vector that is full moves to a place twice as large.
Grows(d) == Len(entries[d]) \in {Capacity, 2 * Capacity, 4 * Capacity}

Adds(d, b) == Found(d, b) = {}

MutCached(d, b) == ~Adds(d, b)
Cached(d, b) == ~Adds(d, b) /\ entries[d][Entry(d, b)].page # 0

\* RunCommand sends the command block: the address is in sectors and modulo
\* 2^32, relative to the start of the partition.
Lba(d, b) == ((Base[d] + b) * SectorsPerBlock) % Lbas

Send(t, op, lba) ==
  /\ cmd' = [cmd EXCEPT ![t] = [op |-> op, lba |-> lba]]
  /\ out' = Append(out, [task |-> t, what |-> "cbw"])
  /\ pc' = [pc EXCEPT ![t] = "cbw"]
  /\ running' = Nobody

\* The next block is in the cache.
Hit(r) ==
  LET d == Wants[r].disk
      b == Block(r, Len(got[r])) IN
  /\ running = r /\ r \in Readers /\ Len(got[r]) < Wants[r].count /\ Cached(d, b)
  /\ got' = [got EXCEPT ![r] = Append(@, entries[d][Entry(d, b)].page)]
  /\ UNCHANGED <<cache, registered, running, pc, cmd, page, out, in, phase,
                 current, failed, events>>

\* It is not, or another reader is still reading it: the disk is asked.
Miss(r) ==
  LET d == Wants[r].disk
      b == Block(r, Len(got[r])) IN
  /\ running = r /\ r \in Readers /\ Len(got[r]) < Wants[r].count /\ ~Cached(d, b)
  /\ IF Adds(d, b)
       THEN /\ entries' = [entries EXCEPT ![d] = Append(@, [block |-> b, page |-> 0])]
            /\ lost' = IF Grows(d) THEN lost \cup {q \in Readers \ {r} :
                                            Wants[q].disk = d /\ pc[q] # "idle"}
                                   ELSE lost
       ELSE UNCHANGED <<entries, lost>>
  /\ Send(r, "read", Lba(d, b))
  /\ UNCHANGED <<disks, registered, got, page, in, phase, current, failed, events>>

\* All blocks are there.
Finish(r) ==
  /\ running = r /\ r \in Readers /\ Len(got[r]) = Wants[r].count
  /\ running' = Nobody
  /\ pc' = [pc EXCEPT ![r] = "idle"]
  /\ UNCHANGED <<cache, registered, cmd, got, page, out, in, phase, current, failed,
                 events>>

SendOther(t) ==
  /\ running = t /\ t \notin Readers
  /\ Send(t, IF t = Writer THEN "write"
             ELSE IF cmd[t].op = "none" THEN "inquiry" ELSE "capacity", 0)
  /\ UNCHANGED <<cache, registered, got, page, in, phase, current, failed, events>>

-----------------------------------------------------------------------------
(* RunCommand is resumed by the interrupt handler.                         *)

Resumes(t, place) ==
  /\ running = Nobody /\ events # <<>> /\ Head(events) = t /\ pc[t] = place
  /\ events' = Tail(events)

\* The command block is out: the data, in 4096 bytes at a time.
MutDataIn(op) == TRUE
DataIn(op) == op # "write"

Transfer(t) ==
  /\ Resumes(t, "cbw")
  /\ pc' = [pc EXCEPT ![t] = "data"]
  /\ IF DataIn(cmd[t].op)
       THEN in' = Append(in, [task |-> t, what |-> "data"]) /\ UNCHANGED out
       ELSE out' = Append(out, [task |-> t, what |-> "data"]) /\ UNCHANGED in
  /\ UNCHANGED <<cache, registered, running, cmd, got, page, phase, current, failed>>

Status(t) ==
  /\ Resumes(t, "data")
  /\ pc' = [pc EXCEPT ![t] = "csw"]
  /\ in' = Append(in, [task |-> t, what |-> "csw"])
  /\ UNCHANGED <<cache, registered, running, cmd, got, page, out, phase, current, failed>>

\* The command is over when its status is there.
MutFinal(op) == IF op = "read" THEN "data" ELSE "csw"
Final(op) == "csw"

\* The reader keeps the page, whatever the status is: ent.page = mem.pages[0].
MutFilled(d, b, p) == [entries[d] EXCEPT ![Len(entries[d])].page = p]
Filled(d, b, p) == [entries[d] EXCEPT ![Entry(d, b)].page = p]

Complete(r) ==
  LET d == Wants[r].disk
      b == Block(r, Len(got[r])) IN
  /\ r \in Readers /\ Resumes(r, Final(cmd[r].op))
  /\ entries' = [entries EXCEPT ![d] = Filled(d, b, page[r])]
  /\ got' = [got EXCEPT ![r] = Append(@, page[r])]
  /\ pc' = [pc EXCEPT ![r] = "loop"] /\ running' = r
  /\ page' = [page EXCEPT ![r] = Garbage]
  /\ UNCHANGED <<disks, lost, registered, cmd, out, in, phase, current, failed>>

\* start goes on to the capacity, then registers the disk.
CompleteOther(t) ==
  /\ t \notin Readers /\ Resumes(t, Final(cmd[t].op))
  /\ registered' = (registered \/ cmd[t].op = "capacity")
  /\ IF cmd[t].op = "inquiry"
       THEN running' = t /\ pc' = [pc EXCEPT ![t] = "loop"]
       ELSE UNCHANGED running /\ pc' = [pc EXCEPT ![t] = "idle"]
  /\ page' = [page EXCEPT ![t] = Garbage]
  /\ UNCHANGED <<cache, cmd, got, out, in, phase, current, failed>>

-----------------------------------------------------------------------------
(* The device takes and sends what is next on its endpoints.               *)

TakeCommand ==
  /\ phase = "command" /\ out # <<>>
  /\ current' = [task |-> Head(out).task, cmd |-> cmd[Head(out).task]]
  /\ phase' = "data"
  /\ out' = Tail(out) /\ events' = Append(events, Head(out).task)
  /\ UNCHANGED <<cache, registered, running, pc, cmd, got, page, in, failed>>

\* It sends the data, or nothing when the command fails; the commands of
\* start, whose status it ignores as well, do not.
SendData ==
  /\ phase = "data" /\ current.cmd.op # "write" /\ in # <<>>
  /\ LET block == current.cmd.lba \div SectorsPerBlock IN
     \/ page' = [page EXCEPT ![Head(in).task] = block + 1] /\ UNCHANGED failed
     \/ current.cmd.op = "read" /\ failed' = failed \cup {block} /\ UNCHANGED page
  /\ phase' = "status"
  /\ in' = Tail(in) /\ events' = Append(events, Head(in).task)
  /\ UNCHANGED <<cache, registered, running, pc, cmd, got, out, current>>

TakeData ==
  /\ phase = "data" /\ current.cmd.op = "write" /\ out # <<>>
  /\ phase' = "status"
  /\ out' = Tail(out) /\ events' = Append(events, Head(out).task)
  /\ UNCHANGED <<cache, registered, running, pc, cmd, got, page, in, current, failed>>

SendStatus ==
  /\ phase = "status" /\ in # <<>>
  /\ phase' = "command"
  /\ in' = Tail(in) /\ events' = Append(events, Head(in).task)
  /\ UNCHANGED <<cache, registered, running, pc, cmd, got, page, out, current, failed>>

-----------------------------------------------------------------------------

NoCommand == [op |-> "none", lba |-> 0]

Init ==
  /\ entries = [d \in Disks |-> <<>>] /\ disks = {} /\ lost = {}
  /\ registered = FALSE /\ running = Start
  /\ pc = [t \in Tasks |-> IF t = Start THEN "loop" ELSE "idle"]
  /\ cmd = [t \in Tasks |-> NoCommand] /\ got = [r \in Readers |-> <<>>]
  /\ page = [t \in Tasks |-> Garbage] /\ out = <<>> /\ in = <<>>
  /\ phase = "command" /\ current = [task |-> Start, cmd |-> NoCommand]
  /\ failed = {} /\ events = <<>>

GoOn == (\E r \in Readers : Hit(r) \/ Miss(r) \/ Finish(r)) \/ \E t \in Tasks : SendOther(t)

Handler ==
  \/ \E r \in Readers : Complete(r)
  \/ \E t \in Tasks : Transfer(t) \/ Status(t) \/ CompleteOther(t)

Device == TakeCommand \/ SendData \/ TakeData \/ SendStatus

Next == GoOn \/ Handler \/ Device \/ \E t \in Tasks : Begin(t)

\* Code that runs goes on and the device works.  A completion is handled
\* although other coroutines may find their blocks in the cache before.
Spec == Init /\ [][Next]_vars /\ WF_vars(GoOn) /\ SF_vars(Handler) /\ WF_vars(Device)

-----------------------------------------------------------------------------
(* Properties.                                                             *)

Pages == {Garbage, 0} \cup (1 .. Lbas)

TypeOK ==
  /\ \A d \in Disks : \A i \in DOMAIN entries[d] : entries[d][i].page \in Pages
  /\ disks \subseteq Disks /\ lost \subseteq Readers /\ registered \in BOOLEAN
  /\ running \in Tasks \cup {Nobody} /\ page \in [Tasks -> Pages]
  /\ pc \in [Tasks -> {"idle", "loop", "cbw", "data", "csw"}]
  /\ \A t \in Tasks : cmd[t].lba \in 0 .. Lbas - 1
  /\ phase \in {"command", "data", "status"}
  /\ \A r \in Readers : /\ Len(got[r]) <= Wants[r].count
                         /\ Range(got[r]) \subseteq Pages \ {0}
  /\ \A i \in DOMAIN events : events[i] \in Tasks

\* Whatever the commands of the coroutines do between one another, what lies
\* before the device is what its phase calls for, of the command it executes:
\* no data is taken for a status, no command for data (UsbStorage.cpp:114).
WireOrder ==
  LET writes == current.cmd.op = "write" IN
  /\ in # <<>> => /\ Head(in).task = current.task
                   /\ \/ phase = "data" /\ ~writes /\ Head(in).what = "data"
                      \/ phase = "status" /\ Head(in).what = "csw"
  /\ out # <<>> => IF phase = "data" /\ writes
                     THEN Head(out) = [task |-> current.task, what |-> "data"]
                     ELSE Head(out).what = "cbw"

\* A reader has the blocks it asked for, from its own partition, through
\* references into the cache that are still good (blockcache.h:27), unless the
\* disk has failed to read that block: then it has, and the cache keeps, what
\* was in the page.
OwnBlocks ==
  \A r \in Readers :
    /\ r \notin lost
    /\ \A i \in DOMAIN got[r] :
         LET b == Base[Wants[r].disk] + Block(r, i - 1) IN
         got[r][i] = b + 1 \/ (got[r][i] = Garbage /\ b \in failed)

\* Every read comes to its end.
IsServed == \A r \in Readers : pc[r] # "idle" ~> pc[r] = "idle"
=============================================================================
