# bookish-potato in TLA+

bookish-potato is a freestanding kernel in C++ for x86-64 and the Raspberry Pi.
It has no processes yet: after `platform_init` everything happens in interrupt
handlers and in the C++ coroutines these resume. The specifications here are
translated from its sources, module by module, checked with TLC on small
instances and, where marked, proved with TLAPS for all values of the constants.
`PROJECT.json` maps every definition to the lines it models.

## How the kernel runs

`kernel_entry` (kernel/src/entry.cpp) initialises the address space, finds
memory and devices and starts the drivers, all with interrupts off. Then it
enables interrupts, calls the coroutine `f` and idles. Interrupt gates keep
interrupts off, so handlers do not nest; a handler may run for as long as the
chain of coroutines it resumes. A driver suspends with `co_await` on a future
or an event and is resumed *synchronously* from `promise::set_value` or
`event::signal`, in the middle of whatever loop the signaller runs. This is the
source of most interleavings here: not threads but re-entry. The one true
interleaving of main line and interrupts is the first run of `f`.

## Inventory

| Component | State | Operations | What is hard | What makes it correct | Module |
|---|---|---|---|---|---|
| Heap (`mem.cpp`) | ring of block headers in a static arena, rotating `last_used` | malloc, realloc, free | splits at exact sizes, merge order, the cursor when its block disappears, endless search | blocks tile the arena, no free neighbours, clients' blocks apart, search ends if it can | Heap |
| Free pages (`freepage.cpp`, `mb1_init`) | list of regions | add_region, get, get_range, get_zeroed | rounding and unsigned differences, region boundaries | no page twice, only usable memory | FreePages |
| Mappings (`asa.cpp`, `map.cpp`) | free address ranges, page tables, mapping objects | constructors, move, destructor | page tables allocated half-way, unrounded frees, stale entries | own mapping translates, nothing stale, address ranges apart | Mappings |
| Timed waits (`timer.cpp`, `event.h`, HPET) | table of 20 entries, comparator | wait_until, wait_for_us, timer_check | re-entry, entry armed before its event exists, times that pass meanwhile | resumes only who waits, in time | Timer |
| Futures (`future.h`) | value, list of waiters | set_value, await | fulfilled twice, resumed while iterating, never fulfilled | each waiter resumed once, with the value | in Nvme, Storage, UsbDevices |
| Interrupt dispatch (`interrupt.cpp`) | handlers per vector | register, call | registration while iterating | every handler of the vector runs | in Nvme, Timer |
| NVMe (`nvme.cpp`) | queue pairs, phase, outstanding promises | start, commands, completion interrupts | phase, identifier reuse, a queue that is not there yet | each command completes once, its sender goes on | Nvme |
| xHCI rings (`xhci.cpp`) | command, event and transfer rings | commands, transfers, interrupt | cycle bits, links, merged interrupts | a ring is a FIFO queue, each completion finds its client | XhciRings |
| USB devices (`xhci.cpp`, `UsbCore.cpp`) | slots, control rings, one buffer and one input context a device | port change, start, descriptors, interfaces, endpoints | three coroutines of one device share buffer and context, a start that fails half-way | answers reach who asked, drivers have configured endpoints, slots are owned | UsbDevices |
| USB storage, SCSI (`UsbStorage.cpp`, `scsi.cpp`) | command/data/status phases | start, read, write, trim | phases of two commands mixing | commands are whole on the wire | Storage |
| Block cache (`blockcache.h`) | cached blocks by disk | read | shared entries and references across `co_await` | a read returns the blocks asked for | Storage |
| Probing (`vfs.cpp`, `mbr.cpp`, `gpt.cpp`) | disks, partitions | RegisterDisk, ProbeDisk, TryUse | probes of disk and partitions at a time | a file system is registered once, as what it is | Probing |
| File systems (`fat.cpp`, `ext.cpp`, `vfs.cpp`) | name caches, cluster chains, extents | readdir, read | long names in pieces, chains, extent arithmetic | a listing has the entries, a read the file's blocks | Directories, Filesystems |
| HID, PS/2, UI (`UsbHid.cpp`, `ps2.cpp`, `ui.cpp`) | report layout, packets, pointer | descriptors, reports, key and mouse bytes | fields across bytes, signs, two interrupts on one port | listeners learn what users did | HidReports, Ui |
| Displays (`bga.cpp`, `framebuffer.cpp`) | buffers | SetActiveResolution, GetFreeBuffer, QueueBuffer | which buffer is free | the free buffer is not on the screen | Screens |
| Containers (`vector`, `flatmap`) | size, capacity | as used by the above | growth under references, a copy that does not end | as its users need | in Storage, Ui, Filesystems |
| PCI, ACPI; strings, paths; debug output; compiler support; unfinished drivers | | | | | not modelled, see below |

Components interact by calls and by coroutines resumed inside calls. The heap
and the pages serve everything; an interrupt calls the handlers of its vector,
a handler fulfils promises and thereby runs the drivers; drivers of drives
register disks with the VFS, whose coroutines read through the block cache from
these drivers again; USB gives interfaces to the storage and HID drivers; HID
and PS/2 call the compositor, which draws into the buffers of a screen.

## Plan

All modules of the plan are written, in the order of the table. The abstract
specifications are `RangeAllocator` (heap, address space), `TransferQueues`
(xHCI rings) and `Commands` (NVMe). UsbDevices and Storage take the rings as the
queues that XhciRings is shown to implement; Filesystems takes the drive's
blocks as what Storage is shown to give.

Proved (see below): all safety properties of Heap, FreePages, Mappings, Timer,
UsbDevices, Storage, Nvme and XhciRings, that they implement the three abstract
specifications, and of Ui that the pointer follows what arrives. What the listings of directories hold and what is read of
reports is computed by folds and recursion over data and stays with TLC, and so
does the probing of disks.

## Modules

**RangeAllocator.** The promise of an allocator: a range is granted inside the
arena and apart from all ranges held, and only what is held is returned.

**Heap** (`mem.cpp`). `mem` is the set of block headers by address with the
fields of `malloc_entry`; `last_used` is the cursor, 0 the first header. A call
of malloc is `Malloc`, one `SearchOn` per turn of its loop and `Found`; realloc
is `Realloc`, the same search, then `FreeOld` after the copy; free is one step.
`live` records what clients hold. Calls do not interleave: all but one
happen in handlers or with interrupts off (see the hazards for the one).

**FreePages** (`freepage.cpp`, `mb1_init`). `regions` is the list from `head`;
arithmetic is modulo `Word`. `handed` records what was given out.

**Mappings** (`asa.cpp`, `map.cpp`) extends FreePages with `asas`, the list of
free address space, the tables and entries of the page tables and the mapping
objects `maps`. A constructor takes its address space in one step and then
installs its pages one by one (`AddTable`, `MapPage`); a destructor unmaps them
one by one. Tables have `Fanout` entries. The window that
`freepage_get_zeroed` maps to clear a page is the object `Scratch`. Where the
code reads the null head of an empty page list, the model stops in `Fault`. When
no range fits, `asa_alloc` returns 0 and the constructor maps its pages there
(`NothingFits`), over those of an object that is there already; `outOfSpace`
records that this has happened. Not modelled: what boot.S has mapped from 0 on
with large pages, which an object of more than 2 MiB at 0 would meet.

**Timer** (`timer.cpp`, `event.h`, `x86/timer.cpp`, `f`). `stack` is the nesting
of calls: the interrupt's timer_check, a coroutine it resumed, that
coroutine's wait, the timer_check inside that, and so on. An interrupt may come
between any two steps of the main line, time passes between any two steps, for
at most `Slack` microseconds while anything runs. A timer_check looks at the
clock as it begins and again in `timer_set_interrupt` (`ReadClock`), and the HPET
then once more (`CheckDone`). Coroutines with `wait_until`
behave like `f`; those with `wait_for_us` are the other documented use.

**TransferQueues.** The promise of a host controller's driver: each queue is
first in, first out, a request is executed once, and its client is resumed once,
afterwards.

**XhciRings** (`xhci.cpp`). The rings are functions from slots to blocks with
their cycle bit; `index` and `eventIndex` keep the driver's free-running
positions modulo two rounds, which is all the code looks at. Driver code runs
one piece at a time: `pc` is where it stands and `back` where the resumed client
returns to, for `HandleCompletion` runs the client in the middle of the handler
and `FinishEvent` removes the callback afterwards. A transfer is written in
`EnsureSpaceFor`, `Place` and `Publish`, between which the controller works; it
is external and modelled as far as the driver depends on it: it follows cycle
bits and links, posts events, interrupts when its event ring becomes nonempty,
and again when ERDP is written behind its position. A command or a transfer
always completes, with whatever status; the driver only prints the status of a
transfer. The history variable `queue` is what the controller has ahead of it on
each ring, `executed` what it executed for clients not resumed yet: the
refinement mapping to TransferQueues; `Ahead` follows valid blocks (`Valid`) and
links (`Beyond`) from where the controller is. RoomAssumption is that a transfer
ring has fewer users than blocks, which no code checks: a client waits for its
request, so that the requests outstanding never fill a ring. `EarlyLook` says whether the controller
may execute a block between its two stores (`xhci.cpp:622` and `623`). It may in
a build that keeps them apart, and then, in odd rounds, the request is executed
without an event: with `EarlyLook = TRUE` TLC refutes OneCallbackEach and
IsServed. The run takes the two stores as one for the controller.

**Commands.** What a disk driver promises the coroutines that send it commands:
executed in any order, once, and the sender goes on afterwards.

**Nvme** (`nvme.cpp`, `future.h`, `RegisterInterruptHandler`). `sq`/`sqi` and
`cq`/`cqi` are the rings and the driver's free-running indices, kept modulo two
rounds, as the phase needs; `completions` is the vector of identifiers and
promises; `run` is the nest of coroutines that a handler has resumed, each in a
`set_value` of the one before. `Script` is the order of `NvmeDevice::start` and
`NvmeDisk::start`. `Issue` and `Await` are a reader's two steps: it sends its
requests first and awaits them one by one. The controller fetches in order and
executes in any order; a doorbell of a queue it does not know does nothing. The
handlers' list of a vector grows while it is walked when the disk registers its
own (`listeners` against `handlers`). Abstractions and assumptions: the contents
and statuses of commands, which the code drops; a queue's size is given 0-based,
so the hardware has one slot more than the driver (257 and 65 against 256 and
64), but no command reaches the last; `cqi` and `sqi` are members that the
constructor of the disk does not set (nvme.cpp:349), and are taken for the zeroes
of fresh memory; the admin handler's loop continues over a vector's old memory
after growth (:490), taken to be still as it was. `Overtaken` bounds how many
later commands may overtake one.

**UsbDevices** (`xhci.cpp`, `UsbCore.cpp`, starts in `UsbHid.cpp` and
`UsbStorage.cpp`). A device is one coroutine from `PortChange` to the
registration of its interfaces, each driver another. `todo` is what a task still
sends, `ring` and `commands` the queues before the device and the controller,
`buffer` whose answer the one page of a device holds, `flags` which endpoint its
one input context adds, `events` the completions not handled. Requests fail by
a stall, after which the control ring is halted, for nothing resets it; such
devices are excepted from Settles. Assumptions: `configure` does not fail, for
drivers use an endpoint whether or not it was accepted; the last slot, one beyond
`devices`, is not given out; no driver is registered for a vendor and product; and the
devices' strings and configurations fit the 64 blocks (TypeOK checks that they
do: 3 strings and 6 configurations fill it). `SetConfiguration` never starts a second interface
record (xhci.cpp:719): the interfaces of a configuration are one.

**Storage** (`blockcache.h`, `vfs.h`, `UsbStorage.cpp`, `scsi.cpp`). `entries` is
the cache by disk, `got` what a reader has collected, `lost` who holds a
reference into a vector that has moved, `out` and `in` the transfers before the
device's endpoints, `phase` what the device expects. A reader takes its blocks
in `Hit` and `Miss`; a command is `cbw`, `data`, `csw`, each awaited. Failed reads leave the page
as it was (`Garbage`): the status is never looked at. `Writer` sends commands of
the other direction; nothing in the kernel writes yet, so it is on its own.
Assumptions, named StorageAssumption: no vector grows while another coroutine
holds a reference into it, which holds for up to 8 disks and 8 blocks a disk
that is shared; more would be a dangling reference. The page a command
allocates is never freed. A read that fails ends as the device ends it, with its
data and its status; a device that stalls its endpoint instead, which no code
resets (UsbStorage.cpp:127), is not modelled.

**Probing** (`vfs.cpp`, `mbr.cpp`, `gpt.cpp`). A disk is where it begins, its
size, its hint and how far its probe is; `parsing` are the coroutines that read
partition tables, which nobody awaits. A table's parse is one step, as it
suspends once. Assumed: sums of an MBR's entries do not wrap and its entries begin
at different blocks. Extended partitions are read twice and entries of a GPT
are taken unchecked; RegisteredOnce names both as exceptions.

**Directories** (`fat.cpp`, `ext.cpp`, `vfs.cpp`) holds the listing of a root
directory as operators on a record: `Fat32Entry` and its like are one turn of
`readdir`'s loop, and a step ends where the coroutine reads a block.
**Filesystems** composes Probing with the listings that RegisterFilesystem
starts, and the read of the file `cstddef`. Kept as the code has them: deleted
FAT32 entries are listed, short names keep their blanks, the chain reader never
advances, exFAT takes the last two clusters for the end of a chain, an extent
added to an empty list reads the memory beneath it (`Beneath`), blocks of
indirect ext files are zeroes. Assumed: chains without cycles, exFAT sets
without vendor entries, no long-name entry with order 0. Where the kernel does
not come back (an assignment to a vector that keeps elements, `vector:60`, with
`Assigned` for what it is left with; a fragmented root;
a file longer than what was mapped of it), the model's listing is `"stray"`; it
may be where no file is called `cstddef`, for its length is not initialised.

**HidReports** (`UsbHid.cpp`) translates the parser of report descriptors and
the reader of reports, bit by bit, as folds over the items and functions of the
report. **Ui** (`ui.cpp`, `UsbHid.cpp`, `ps2.cpp`) uses it for USB devices and
adds the PS/2 controller, one byte at a time and without the byte's origin where
the code does not ask for it; two handlers may each take the other's byte.
Report identifiers are not modelled, for HandleReport ignores them; buttons and
movements of -256 are left out. A byte carries what it tells of, which the
handlers do not see: `moves` is what the user has moved the PS/2 mouse, noted when
it is moved, and `cursor` where the movements lead that have arrived. `lost` says
that a handler has taken a byte that was not for it, `stray` that the keyboard
emptied more than its report had.

**Screens** (`bga.cpp`, `framebuffer.cpp`, `Screen.h`) has the two numbers each
adapter keeps and the buffer the hardware shows. The Raspberry Pi's
`currentResolution` hides its base's (framebuffer.h:17), so that the splash
screen is drawn with an uninitialised size; sizes are not modelled.

## Runs

- **heap**: 192 bytes of arena, requests of 0, 17 and 40 bytes: enough for
  several blocks, for remainders that hold exactly a header, less and more, and
  for every order of freeing neighbours. 478,564 states.
- **mappings**: two objects, 7 pages of address space, 2-way tables, 8 usable
  pages in two regions. Pages run out in the middle of constructors, address
  space is cut into pieces and returned; an unaligned request, unaligned
  and small BARs, lists of single pages and contiguous ranges. `MaxRanges`
  bounds `asas`, which in the code only ever grows; `MaxList` the page list of
  a PageSGList. Seven pages are few enough that `asa_alloc` finds nothing, with
  one object at 0 and with two. Deadlock is not checked: the machine faults when pages run out.
  1,007,115 states.
- **timer**: one entry, two coroutines. Whichever comes first has the entry and
  behaves as `f` does alone in the kernel; the other finds the table full.
  Delays of 7 and 9 against handlers of at most 2 microseconds, to time 40, so
  that the holder is resumed several times. DelayAssumption leaves out waits that
  have passed, or nearly, when they are armed. The model's time ends at `MaxTime`,
  hence no deadlock check. 469,163 states.
- **timer_shared** (violation): the same with two entries. `timer.h:25`
  promises an event that triggers; with two coroutines both can wait with no
  interrupt to come, when one's time passes between the two looks at the clock of
  the other's wait. The kernel today starts one user of the timer, so nothing
  of this shows yet; the finding in PROJECT.json describes the sequence.
- **xhci_rings**: two clients on one endpoint, one of them sending a command as
  well; rings of 3 blocks, so that a transfer ring turns over after every second
  request, and 4 events, as many as can be unacknowledged here with one free.
  One command and one port change (`MaxCommands`, `MaxChanges`); transfers are
  unbounded, so all rings turn over for ever. 263,709 states.

- **nvme**: the start of the device and its disk and two tasks that use it, one
  with reads of one or two blocks, whose commands complete in any order, one
  with trims, who begin at any time from the disk's registration on and again
  and again; an I/O queue of 3 slots and an admin queue of 6, one vector or two.
  Two commands outstanding are the most that fit into 3 slots (`Room`), and the
  queues turn over for ever. `Overtaken` = 2. 221,634 states.
- **usb**: a keyboard with two interfaces, a stick and a device that needs all
  of its control ring, two slots; enabling a slot, addressing it, and the
  requests for strings, their lengths, a configuration and the report
  descriptor may fail at any time (`MayFail`), the others succeed.
  A device object is made once (the code makes a new one for each change).
  410,440 states.
- **storage**: two readers that share a block of one partition, a third with a
  vector that grows on another, a writer; two sectors a block, every read
  failing or not. Readers begin again for ever. 74,835 states.
- **filesystems**: drives with every table of up to two of eight partitions
  (overlapping, off the drive, wrong units, extended) and with GPTs; and whole
  drives with every FAT32 root of up to four entries of eight (five of five),
  exFAT roots of up to three sets, ext roots of up to three inodes. Each
  length that the name cache, the chain and the extent lists tell apart
  occurs. 161,012 states.
- **file_read** (violation): on ext, where extents are read from the inode,
  `File::read` adds where it should subtract, so that a file of two extents of
  two blocks "was read beyond its end" after the first (vfs.cpp:131, 135).
  On FAT the property is false for another reason, which the run leaves out:
  readFatChain never counts the clusters of a run (fat.cpp:74), so that a file in
  two clusters that follow one another has an extent of one.
- **ui**: mice with movements of 8 and of 12 bits off the byte's border, a
  keyboard with an array, all their inputs; PS/2 with one key and two movements,
  three things the user does (`MaxEvents`), which is enough for a packet within
  another, and all interleavings of bytes and interrupts. A screen of 3 by 2,
  so that the pointer meets all borders. Handlers take the other device's bytes in
  many of these behaviours, and PointerFollows ends with the first that does. 348,313 states.
- **screens** (violation): `BgaScreen::QueueBuffer` keeps what is shown in a
  local, so the "free" buffer is the one on the screen (bga.cpp:62).

Deadlock is checked where the system never rests: heap, xhci_rings; elsewhere
the actors may be done.

Each property of a passing run has a mutant, a definition named `Mut...` beside
the one it replaces, which TLC rejects by that property.

## Fairness

`MallocReturns` assumes weak fairness of the search loop and of the rest of a
realloc: straight-line code of the one processor, which runs on once it was
called. `IsServed` assumes that of driver code that was started (`GoOn`), of the
controller on each ring, which is hardware and goes on while it has a valid
block, and strong fairness of the interrupt handler: an interrupt stays latched
until it is taken, and interrupts are enabled whenever no handler runs. Nothing
is assumed of clients: they need not call, free or send.

The others are of the same three kinds. Code that runs goes on: Driver (Nvme),
Handler with what it resumes (UsbDevices), GoOn (Storage), each weak. Hardware
works on what it was given: Fetch and, for the commands of each sender, Execute
(Nvme, so that no sender's command is passed by for ever), Execute, Answer and
Refuse (UsbDevices), Device (Storage), weak, and the drive answers every read
(Filesystems). Handlers are strong in Nvme and Storage: between two completions
other coroutines may keep the processor for a while, and the interrupt stays
latched. Nothing is assumed of those who begin to read or of users. Mappings,
Timer, Ui and Screens state no fairness.

## Proofs

`HeapProofs` proves for every arena size and set of request sizes (`Reserve` a
multiple of 16, sizes natural numbers) that the heap satisfies TypeOK, Tiled,
Coalesced, ClientsOwnTheirBlocks and CopyFits, and that it implements
RangeAllocator. The inductive invariant `IInv` is the conjunction of these five
parts. None is inductive alone: that a merge keeps the tiling needs the block
merged to be the next in address order (Tiled); that it leaves no free
neighbours needs Coalesced before; that free never meets a free block needs the
clients' pointers to be exactly the used blocks. One lemma per operator says
what a split, a merge or a flag does to a well-formed list; then comes one
lemma per action, and `NextIInv` combines them. The refinement follows from the
invariant and these lemmas, one lemma per abstract action.

`MappingsProofs` proves in its first part NoPageTwice and OnlyUsableMemory of the
list of free pages alone (FreePages) for every memory map that meets the assumptions named in FreePages. These
are what the code takes for granted: entries do not overlap or reach the end of
the address space, and one that is not skipped leaves at least two pages (the
list keeps nothing of one page, and its count wraps). The strengthening is that
every range on the list or handed out lies in a piece of memory registered
*already* (`AllRegistered`): the pieces are apart, so the region boot adds next
is apart from all there is, also when pages were handed out in between. It also
gives the arithmetic: ranges end below `Word`, so no count or address wraps.
`TakeKeeps` is the one argument for both allocation functions. Mappings takes
its pages with the same actions, so that the same invariant gives
MappedPagesAreUsable.

The second part proves, for every arena that starts at a page, every set of
requests, BARs and sizes and every fanout, TypeOK, NoPageTwice, OnlyUsableMemory,
AddressSpaceApart, Translates and NoStaleTranslation of Mappings, and that address space implements
RangeAllocator. Arenas that run out are among them. From the moment `asa_alloc`
finds nothing, two live objects may share the addresses from 0 on, and TLC
refutes PagesLead and FreeApart; so Translates, AddressSpaceApart and
ImplementsRanges are stated, and proved, up to that moment, and the other four
throughout. The invariant has two parts accordingly (`MapsInv`): one holds always
(`AlwaysInv`), the other or `outOfSpace`. Each needs more than itself. A destructor gives back
`bytecount` bytes where the constructor took whole pages, so that sizes on the
list are not aligned: the invariant has that *starts* are (`WellFormed`), as only
rounded sizes are ever cut off (ConstructKeeps). That a page's entry is not
overwritten or removed by another object (MapPageKeeps, UnmapPageKeeps) needs
that live objects are apart by whole pages (`LiveApart`), from which follows
that no two have an entry in common (OwnEntries); LiveApart in turn needs the free
ranges apart from them. `Progress` ties the object at work to the pages done,
and says that freepage_get_zeroed's object is empty whenever another is at
work. One lemma per action, `NextKeeps` combines them with the lemmas about
pages. The refinement distinguishes three ways `maps` can change: an
object gets or loses its range (OneObjectSteps), or the same ranges have other
holders (SameRanges). TypeOK needs this invariant, too: page tables are added for
the address that the object at work maps next.

`StorageProofs` proves TypeOK, WireOrder and OwnBlocks of Storage for any
readers, partitions and blocks within StorageAssumption. WireOrder is a property
of the heads of two queues; the invariant says what stands in the whole of them:
a command is in one of five stages between two others (`Stages`), in which only
the device's current task, and the one before it that has not seen its status
yet, are past their command blocks; what waits beyond are command blocks of
different tasks, not taken yet (`Waiting`). `Roles` says who may be active with
whom and with which command. OwnBlocks rests on `Contents` and `Transfers`: cached
pages and those a reader has hold its block, or nothing of a block that failed;
a command under way is for the reader's next block, and its page is filled once
the data came. That no reference goes stale follows from the number of distinct
blocks that the users of a cache want, which bounds its length.

`TimerProofs` proves TypeOK of Timer for every table and every set of clients,
and ResumesOnlySuspended and TriggersInTime under `OneUser`: the table has one
entry, or there is one client. That is how the kernel uses the timer today and
what the run has (a table of one entry); with two entries and two clients, the
run timer_shared refutes what timer.h promises. The invariant says where the
nesting of calls on `stack` can stand: each kind of frame lies on certain others
only and knows the clock, the comparator and its coroutine's deadline (`Rules`);
entries beyond the first are unused (`FirstOnly`); while the entry is free the
comparator is behind and only a client runs (`Free`); while it is taken its
coroutine waits, the comparator stands after its time by no more than a
microsecond and `Slack`, for that much may pass between the two looks at the
clock (ReadClockKeeps, CheckDoneKeeps), and once it has passed the interrupt is latched
or at that entry (`Awaited`); and nothing is late when no handler runs (`Calm`).
Awaited bounds the delay: the clock is beyond the comparator by no more than
`lag`, which only a handler at work uses up. DelayAssumption says that a client
waits for longer than two chains of handlers take (`Slack` each): a time that has
passed when it is armed would resume the entry's last user, or nobody, in the
middle of the wait, and is outside of the model.

`UsbDevicesProofs` proves TypeOK, OwnAnswers, EndpointsConfigured and SlotsOwned
for any devices, descriptors, numbers of slots and failures within
DevicesAssumption, DescriptorsAssumption and RingAssumption. The last is that
what a device is asked for fits its control ring, whose index only grows.
OwnAnswers is about the buffer at one moment, the invariant about the path to
it: at most one coroutine runs, and no device has two commands or two
completions under way (`Once`); what a device waits for is in exactly one place,
the running coroutine, the command ring, its control ring or the completions
(`OnePlace`); and what its coroutine still has to do is the tail of one script
that the rest of its ring has room for (`Stage`), so that an answer is to the
first step of that tail. Scripts are of any length; what little induction that
needs goes over their lengths and is stated for sets of numbers, from the
library's fact that Nat is well-founded. `SlotsShared` says that the driver's
table and the devices agree, and that a slot is enabled exactly while it is in
the table, announced in a completion or being given back by a command;
`DriversServed`, that the endpoints of a driver are among those configured for
its slot. For this `configure` must not fail (DevicesAssumption): the code does
not look.

`NvmeProofs` proves TypeOK, OneEntryEach and that Nvme implements Commands, for
all sizes of the queues, any number of readers and of blocks in a read. What
makes OneEntryEach hold is not visible in it: identifiers are the positions in
the submission queue modulo two rounds, so an old command's identifier comes up
again unless it is recent. `Turning` bounds the distance from each identifier in
use to the next one by the commands outstanding and by `Overtaken`, and this is
less than two rounds because fewer commands are outstanding than the queue has
slots (`Room`, a guard) and a command is overtaken by less than a round of
others (RoomAssumption). The code checks neither; without them an identifier
names two entries. `Turning` also counts: there are as many entries of
completions as commands with the controller and completions not yet handled.
`Phases` says that a completion looks valid exactly between the two indices,
`Numbers` and `Owed` that it then finds one entry, whose promise is awaited,
executed and has no value yet, also while the handler has fulfilled an entry and
not yet removed it (`Handler`). The admin queue never comes round (`Starting`:
at most five commands). The refinement maps sending, executing and going on to
the actions of Commands; every other step stutters.

`XhciRingsProofs` proves TypeOK of XhciRings for all sizes of the rings and all
uses that RoomAssumption admits, and, if the controller sees the two stores of a
block as one (`~EarlyLook`), OneCallbackEach and that XhciRings implements
TransferQueues. The hypothesis is needed: with EarlyLook TLC refutes
OneCallbackEach, for a block executed between its stores posts no event.
OneCallbackEach is about `callbacks` and `waiting`; why an event always finds
its callback, and the right one, is in the rest of the invariant. Cycle bits
change where the driver goes on (`Rounds`); the controller is behind it in the
same round, or ahead by slot in the one before, with a link at the end to come
back by (`Controlling`). Each client that waits has one callback, but for the
one being resumed, whose callback the handler removes afterwards (`Entries`).
The blocks with callbacks are those written last, without a gap (`Requested`):
they have different clients, and the ring has more blocks than clients, so the
slot that the driver writes next has none, and the driver does not catch up with
the controller from behind (`NotFull`). The latest of them are ahead of the controller
and hold their clients' requests (`Unexecuted`), the others are executed and one
event that was not handled tells of each, in the order of its ring (`Answered`,
`Telling`). `EventRounds` and `Apart` say of the event ring what Rounds and
Controlling say of the others: PostEvent leaves one event free. `Driving` says
where the driver is between Place and Publish. The refinement needs what the
history `queue` is: `Queued` says that it lists the blocks between controller and
driver, so that a block that is written appends, one that is executed removes
the head, and a link or an incomplete block leaves it; the recursive definition
of Ahead is shown to compute that list by induction on its length.

`UiProofs` proves PointerFollows of Ui for any screen, any movements and keys and
any order of bytes, interrupts and reports. Its hypothesis is []Understood, the
property of USB devices that the run checks: what is read of their reports is a
matter of folds over descriptors and bits. From it follows that a mouse's reports
move the pointer as its user did (MovementsMeant; a mouse has no arrays, says
UiAssumption). That three bytes make a movement is seen only when the third has
come. So the invariant (`UiInv`) has of the bytes of the mouse that are under
way, in its queue, in the controller and in the packet, that they are in this
order the bytes of the movements in `moves`, three of each, without a gap
(`InOrder`): there are three for every movement that has not arrived,
with those in the packet counted, and the n-th means what the n-th should (`Means`). A packet that is full
is then that of the first movement, and its two's complement is read back as it
was meant (PacketRead). The acknowledgement that ps2_init leaves behind counts as
`Answers` while the mouse holds it. All of this is for as long as `lost` is
false: a byte that the other handler takes leaves a gap for good.

Only checked by TLC, and why:

- MallocReturns, IsServed, Settles: they rest on fairness.
- ListsDirectory, ReadsOwnBlocks and Understood: Directories and HidReports
  compute with folds over entries, extents, items and bits, and the properties
  say what these compute; a proof would be an induction over data.
- RegisteredOnce: it holds of tables whose entries are apart and do not wrap,
  of partitions that are no tables themselves unless they are extended, and so
  on for what lies in these; a theorem would assume more of the drive's
  contents than it says about the probes.
- What the violation runs refute: those are statements of comments and names.

## Not modelled

- PCI and ACPI: enumeration at boot is a single pass over configuration space.
  The vectors it gives out are in Nvme as far as drivers share them.
- The Raspberry Pi's timer: the read of 64 bits in two halves (rpi/timer.cpp:36)
  combines the new low word with the old high one; it is among the hazards.
- VfsLookup and paths: nothing calls VfsLookup, and `File::resolve` has no body.
  File systems write nothing: create, remove, rename and resize are empty.
- The clock's overflow: the product in x86/timer.cpp:66 wraps after about five
  hours, where Timer's time does not wrap.
- EDID, the mailbox's messages, strings, formatting, debug output, compiler
  support (abi, cxa, ubsan), assembly and CPU set-up: no state that the
  properties could tell apart.
- Stubs (hda, virtiogpu, hub, sd), code that is compiled out, and the
  programs under apps.
- RemoveScreen, destructors of drivers and unplugging: nothing calls them.

Some things noted in passing are in no finding, for no run shows them: mbr.cpp
counts in 4096-byte blocks while UsbStorageDevice answers its size in bytes
(mbr.cpp:16, UsbStorage.cpp:52); an English other than US English is chosen for
strings only if its number is below that of the first language (xhci.cpp:527),
although the comment at :519 prefers it to any other.
