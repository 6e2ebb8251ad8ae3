---------------------------- MODULE StorageProofs ----------------------------
(***************************************************************************)
(* What a USB disk owes its readers, for any number of coroutines, disks   *)
(* and blocks that meet the assumptions of Storage: the device is never    *)
(* sent anything out of turn (WireOrder) and a reader gets its own blocks  *)
(* (OwnBlocks).                                                            *)
(*                                                                         *)
(* The strengthening says where the command of the task at the device is,  *)
(* in five stages between two commands; that a task whose command block    *)
(* waits has not been answered; and what its address, its page and its     *)
(* entry in the cache are while it waits.                                  *)
(***************************************************************************)
EXTENDS Storage, TLAPS, FiniteSetTheorems, SequenceTheorems

Places == {"idle", "loop", "cbw", "data", "csw"}
Ops == {"none", "inquiry", "capacity", "read", "write"}
Commands == [op : Ops, lba : 0 .. Lbas - 1]

TypesOfState ==
  /\ entries \in [Disks -> Seq([block : Nat, page : Int])]
  /\ disks \subseteq Disks /\ registered \in BOOLEAN
  /\ running \in Tasks \cup {Nobody}
  /\ pc \in [Tasks -> Places]
  /\ cmd \in [Tasks -> Commands]
  /\ got \in [Readers -> Seq(Int)]
  /\ page \in [Tasks -> Pages]
  /\ out \in Seq([task : Tasks, what : {"cbw", "data"}])
  /\ in \in Seq([task : Tasks, what : {"data", "csw"}])
  /\ phase \in {"command", "data", "status"}
  /\ current \in [task : Tasks, cmd : Commands]
  /\ events \in Seq(Tasks)

\* One task runs; start is over when readers begin, and a writer is alone.
Roles ==
  /\ \A t \in Tasks : pc[t] = "loop" <=> running = t
  /\ \A t \in Tasks : pc[t] \in {"cbw", "data", "csw"} =>
       /\ t \in Readers => cmd[t].op = "read"
       /\ t = Writer => cmd[t].op = "write"
       /\ t = Start => cmd[t].op \in {"inquiry", "capacity"}
  /\ cmd[Start].op \in {"none", "inquiry", "capacity"}
  /\ pc[Start] # "idle" => \A t \in Tasks \ {Start} : pc[t] = "idle"
  /\ pc[Start] = "idle" <=> registered
  /\ pc[Writer] # "idle" => \A r \in Readers : pc[r] = "idle"

\* The device has taken the task's command block, and it has seen so.
Halfway(t) == pc[t] \in {"data", "csw"}
Only(o) == \A t \in Tasks : Halfway(t) => t = o
\* The task before, whose status is there and who has not seen it yet.
Leaving(o) == o \in Tasks /\ pc[o] = "csw" /\ Only(o)

\* The stages of a command.
BetweenCommands ==
  /\ phase = "command" /\ in = <<>>
  /\ \/ events = <<>> /\ \A t \in Tasks : ~Halfway(t)
     \/ \E o \in Tasks : events = <<o>> /\ Leaving(o)

Ordered ==
  /\ phase = "data" /\ in = <<>> /\ pc[current.task] = "cbw"
  /\ \/ events = <<current.task>> /\ \A t \in Tasks : ~Halfway(t)
     \/ \E o \in Tasks : events = <<o, current.task>> /\ Leaving(o)

Sending ==
  /\ phase = "data" /\ pc[current.task] = "data" /\ Only(current.task) /\ events = <<>>
  /\ IF current.cmd.op = "write"
       THEN in = <<>> /\ out = <<[task |-> current.task, what |-> "data"]>>
       ELSE in = <<[task |-> current.task, what |-> "data"]>>

Sent ==
  /\ phase = "status" /\ pc[current.task] = "data" /\ Only(current.task)
  /\ events = <<current.task>> /\ in = <<>>

Closing ==
  /\ phase = "status" /\ pc[current.task] = "csw" /\ Only(current.task)
  /\ events = <<>> /\ in = <<[task |-> current.task, what |-> "csw"]>>

Stages ==
  /\ BetweenCommands \/ Ordered \/ Sending \/ Sent \/ Closing
  /\ phase # "command" => current.cmd = cmd[current.task]

\* What waits on the way out are the command blocks of different tasks, none
\* of which has been taken; unless it is the data of the writer.
Waiting ==
  (Sending /\ current.cmd.op = "write") \/
  /\ \A i \in DOMAIN out :
       /\ out[i].what = "cbw" /\ pc[out[i].task] = "cbw"
       /\ Ordered => out[i].task # current.task
  /\ \A i, j \in DOMAIN out : i # j => out[i].task # out[j].task

\* What the cache keeps for a block.
PageOf(d, b, p) == p = Base[d] + b + 1 \/ (p = Garbage /\ Base[d] + b \in failed)

Users(d) == {r \in Readers : Wants[r].disk = d}
Wanted(r) == {Block(r, k) : k \in 0 .. Wants[r].count - 1}

DistinctBlocks ==
  \A d \in Disks : \A i, j \in DOMAIN entries[d] :
    i # j => entries[d][i].block # entries[d][j].block

CachedPages ==
  \A d \in Disks : \A i \in DOMAIN entries[d] :
    /\ entries[d][i].page # 0 => PageOf(d, entries[d][i].block, entries[d][i].page)
    /\ \E r \in Users(d) : entries[d][i].block \in Wanted(r)

ReadPages ==
  \A r \in Readers :
    /\ Len(got[r]) <= Wants[r].count
    /\ \A i \in DOMAIN got[r] : PageOf(Wants[r].disk, Block(r, i - 1), got[r][i])

Contents == DistinctBlocks /\ CachedPages /\ ReadPages /\ lost = {}

\* While a reader waits, its command is for its next block, which has an entry
\* in the cache, and its page is filled once the data came.
Transfers ==
  \A r \in Readers :
    LET d == Wants[r].disk
        b == Block(r, Len(got[r])) IN
    /\ pc[r] \in {"cbw", "data", "csw"} =>
         /\ Len(got[r]) < Wants[r].count /\ Found(d, b) # {} /\ cmd[r].lba = Lba(d, b)
    /\ IF pc[r] = "csw" \/ (pc[r] = "data" /\ phase = "status")
         THEN PageOf(d, b, page[r])
         ELSE page[r] = Garbage

StorageInv == TypesOfState /\ Roles /\ Stages /\ Waiting /\ Contents /\ Transfers

-----------------------------------------------------------------------------
(* Numbers and sequences.                                                  *)

\* A block of a reader has an address that fits the command.
LEMMA Addresses ==
  ASSUME NEW r \in Readers, NEW k \in Nat, k < Wants[r].count
  PROVE  LET d == Wants[r].disk IN
         /\ d \in Disks /\ Block(r, k) \in Nat
         /\ Lba(d, Block(r, k)) \in 0 .. Lbas - 1
         /\ Lba(d, Block(r, k)) \div SectorsPerBlock = Base[d] + Block(r, k)
         /\ Base[d] + Block(r, k) + 1 \in 1 .. Lbas
<1> DEFINE d == Wants[r].disk
           a == Base[d] + Block(r, k)
           n == SectorsPerBlock
<1>1. /\ d \in Disks /\ Block(r, k) \in Nat /\ a \in Nat /\ n \in Nat \ {0}
      /\ Lbas \in Nat \ {0} /\ Wants[r].first \in Nat /\ Wants[r].count \in Nat
  BY StorageTypes DEF Block
<1> DEFINE e == Base[d] + Block(r, Wants[r].count)
<1>2. e \in Nat /\ a < e /\ e * n <= Lbas
  BY <1>1, StorageTypes, StorageAssumption DEF Block
<1> HIDE DEF a, e, n, d
<1>3. a * n + n <= Lbas
  <2>1. a + 1 <= e BY <1>1, <1>2
  <2>2. (a + 1) * n <= e * n BY <2>1, <1>1, <1>2
  <2>3. (a + 1) * n = a * n + n BY <1>1
  <2> QED BY <2>2, <2>3, <1>1, <1>2
<1>4. a * n \in Nat BY <1>1
<1>5. (a * n) % Lbas = a * n BY <1>1, <1>3, <1>4
<1>6. (a * n) \div n = a BY <1>1, <1>4
<1>7. a + 1 <= Lbas
  <2>1. a <= a * n BY <1>1
  <2> QED BY <2>1, <1>1, <1>3, <1>4
<1>8. Lba(d, Block(r, k)) = (a * n) % Lbas BY DEF Lba, a, n
<1> QED BY <1>1, <1>3, <1>4, <1>5, <1>6, <1>7, <1>8 DEF a, n, d

LEMMA ShortQueues ==
  ASSUME NEW a, NEW b
  PROVE  /\ Head(<<a>>) = a /\ Tail(<<a>>) = <<>> /\ <<a>> # <<>> /\ <<a, b>> # <<>>
         /\ Head(<<a, b>>) = a /\ Tail(<<a, b>>) = <<b>>
         /\ Append(<<>>, a) = <<a>> /\ Append(<<a>>, b) = <<a, b>>
<1>1. Head(<<a>>) = a OBVIOUS
<1>2. Tail(<<a>>) = <<>> OBVIOUS
<1>3. <<a>> # <<>> OBVIOUS
<1>4. <<a, b>> # <<>> OBVIOUS
<1>5. Head(<<a, b>>) = a OBVIOUS
<1>6. Tail(<<a, b>>) = <<b>> OBVIOUS
<1>7. Append(<<>>, a) = <<a>> OBVIOUS
<1>8. Append(<<a>>, b) = <<a, b>>
  <2> DEFINE S == {a, b}
  <2>1. <<a>> \in Seq(S) /\ <<a, b>> \in Seq(S) OBVIOUS
  <2>2. Append(<<a>>, b) \in Seq(S) /\ Len(Append(<<a>>, b)) = 2 OBVIOUS
  <2>3. Append(<<a>>, b)[1] = a OBVIOUS
  <2>4. Append(<<a>>, b)[2] = b OBVIOUS
  <2>5. Len(<<a, b>>) = 2 /\ <<a, b>>[1] = a /\ <<a, b>>[2] = b OBVIOUS
  <2>6. \A i \in 1 .. 2 : Append(<<a>>, b)[i] = <<a, b>>[i]
    BY <2>3, <2>4, <2>5
  <2> HIDE DEF S
  <2>7. \A s, t \in Seq(S) : /\ Len(s) = Len(t)
                             /\ \A i \in 1 .. Len(s) : s[i] = t[i]
                             => s = t
    BY SeqEqual
  <2> QED BY <2>1, <2>2, <2>5, <2>6, <2>7
<1> QED BY <1>1, <1>2, <1>3, <1>4, <1>5, <1>6, <1>7, <1>8

-----------------------------------------------------------------------------
(* No vector of the cache grows while another reader uses it.              *)

LEMMA WantedFinite ==
  ASSUME NEW d \in Disks
  PROVE  /\ IsFiniteSet(Users(d))
         /\ IsFiniteSet(UNION {Wanted(r) : r \in Users(d)})
<1>1. IsFiniteSet(Users(d))
  BY FS_Subset, StorageTypes DEF Users
<1> DEFINE f == [r \in Users(d) |-> Wanted(r)]
<1>2. f \in Surjection(Users(d), {Wanted(r) : r \in Users(d)})
  BY DEF Surjection
<1>3. IsFiniteSet({Wanted(r) : r \in Users(d)})
  BY <1>1, <1>2, FS_Surjection
<1>4. ASSUME NEW r \in Users(d) PROVE IsFiniteSet(Wanted(r))
  <2>1. Wants[r].first \in Nat /\ Wants[r].count \in Nat BY StorageTypes DEF Users
  <2>2. Wanted(r) \in SUBSET Nat BY <2>1 DEF Wanted, Block
  <2> DEFINE m == Wants[r].first + Wants[r].count
  <2>3. m \in Nat /\ \A s \in Wanted(r) : s <= m
    BY <2>1 DEF Wanted, Block
  <2> HIDE DEF m
  <2> QED BY <2>2, <2>3, FS_BoundedSetOfNaturals
<1> QED BY <1>1, <1>3, <1>4, FS_UNION

LEMMA RoomForAll ==
  ASSUME TypesOfState, Contents, NEW r \in Readers, NEW q \in Readers, q # r,
         Wants[q].disk = Wants[r].disk,
         NEW b \in Wanted(r), Found(Wants[r].disk, b) = {}
  PROVE  Len(entries[Wants[r].disk]) < Capacity
<1> DEFINE d == Wants[r].disk
           W == UNION {Wanted(u) : u \in Users(d)}
           n == Len(entries[d])
           f == [i \in 1 .. n + 1 |-> IF i = n + 1 THEN b ELSE entries[d][i].block]
<1>1. d \in Disks /\ r \in Users(d) /\ q \in Users(d)
  BY StorageTypes DEF Users
<1>2. n \in Nat /\ DOMAIN entries[d] = 1 .. n BY <1>1 DEF TypesOfState
<1>3. IsFiniteSet(Users(d)) /\ IsFiniteSet(W) BY <1>1, WantedFinite
<1>4. Cardinality(Users(d)) > 1
  <2>1. IsFiniteSet({r}) /\ Cardinality({r}) = 1 BY FS_Singleton
  <2>2. IsFiniteSet({r} \cup {q}) /\ Cardinality({r} \cup {q}) = 2
    <3>1. q \notin {r} OBVIOUS
    <3>2. /\ IsFiniteSet({r} \cup {q})
          /\ Cardinality({r} \cup {q}) = IF q \in {r} THEN Cardinality({r})
                                         ELSE Cardinality({r}) + 1
      BY <2>1, FS_AddElement, Zenon
    <3> QED BY <2>1, <3>1, <3>2
  <2>3. {r} \cup {q} \in SUBSET Users(d) BY <1>1
  <2>4. Cardinality({r} \cup {q}) <= Cardinality(Users(d)) BY <2>3, <1>3, FS_Subset
  <2> QED BY <2>2, <2>4, <1>3, FS_CardinalityType
<1>5. Cardinality(W) <= Capacity
  <2>1. Cardinality(Users(d)) \in Nat BY <1>3, FS_CardinalityType
  <2> QED BY <1>1, <1>4, <2>1, StorageAssumption DEF Users, Wanted
<1>6. f \in Injection(1 .. n + 1, W)
  <2>1. f \in [1 .. n + 1 -> W]
    <3>1. b \in W BY <1>1
    <3>2. ASSUME NEW i \in 1 .. n PROVE entries[d][i].block \in W
      BY <1>1, <1>2 DEF Contents, CachedPages
    <3> QED BY <3>1, <3>2, <1>2
  <2>2. ASSUME NEW i \in 1 .. n + 1, NEW j \in 1 .. n + 1, f[i] = f[j] PROVE i = j
    <3>1. \A k \in 1 .. n : entries[d][k].block # b BY <1>2 DEF Found
    <3>2. \A k, l \in 1 .. n : entries[d][k].block = entries[d][l].block => k = l
      BY <1>1, <1>2 DEF Contents, DistinctBlocks
    <3>3. CASE i = n + 1 /\ j # n + 1
      <4>1. j \in 1 .. n /\ f[j] = entries[d][j].block /\ f[i] = b BY <3>3, <1>2
      <4> QED BY <4>1, <2>2, <3>1
    <3>4. CASE j = n + 1 /\ i # n + 1
      <4>1. i \in 1 .. n /\ f[i] = entries[d][i].block /\ f[j] = b BY <3>4, <1>2
      <4> QED BY <4>1, <2>2, <3>1
    <3>5. CASE i # n + 1 /\ j # n + 1
      <4>1. /\ i \in 1 .. n /\ f[i] = entries[d][i].block
            /\ j \in 1 .. n /\ f[j] = entries[d][j].block
        BY <3>5, <1>2, SMTT(30)
      <4> QED BY <4>1, <2>2, <3>2
    <3> QED BY <3>3, <3>4, <3>5
  <2> QED BY <2>1, <2>2 DEF Injection, IsInjective
<1>7. Cardinality(1 .. n + 1) <= Cardinality(W) BY <1>3, <1>6, FS_Injection
<1>8. Cardinality(1 .. n + 1) = n + 1 BY <1>2, FS_Interval
<1>9. Cardinality(W) \in Nat BY <1>3, FS_CardinalityType
<1> QED BY <1>2, <1>5, <1>7, <1>8, <1>9, StorageTypes

LEMMA QueuesTyped ==
  ASSUME TypesOfState
  PROVE  /\ \A i \in DOMAIN out : out[i] \in [task : Tasks, what : {"cbw", "data"}]
         /\ \A i \in DOMAIN events : events[i] \in Tasks
         /\ \A r \in Readers : /\ Len(got[r]) \in Nat /\ DOMAIN got[r] = 1 .. Len(got[r])
                               /\ \A i \in DOMAIN got[r] : got[r][i] \in Int
         /\ \A d \in Disks : /\ Len(entries[d]) \in Nat
                             /\ DOMAIN entries[d] = 1 .. Len(entries[d])
                             /\ \A i \in DOMAIN entries[d] :
                                  entries[d][i] \in [block : Nat, page : Int]
<1>1. /\ DOMAIN out = 1 .. Len(out)
      /\ \A i \in DOMAIN out : out[i] \in [task : Tasks, what : {"cbw", "data"}]
  <2> DEFINE S == [task : Tasks, what : {"cbw", "data"}]
  <2>1. out \in Seq(S) BY DEF TypesOfState
  <2> HIDE DEF S
  <2>2. DOMAIN out = 1 .. Len(out) /\ \A i \in DOMAIN out : out[i] \in S
    BY <2>1, LenProperties, ElementOfSeq
  <2> QED BY <2>2 DEF S
<1>2. \A i \in DOMAIN events : events[i] \in Tasks
  BY LenProperties, ElementOfSeq DEF TypesOfState
<1>3. ASSUME NEW r \in Readers
      PROVE  /\ Len(got[r]) \in Nat /\ DOMAIN got[r] = 1 .. Len(got[r])
             /\ \A i \in DOMAIN got[r] : got[r][i] \in Int
  <2>1. got[r] \in Seq(Int) BY DEF TypesOfState
  <2> QED BY <2>1, LenProperties, ElementOfSeq
<1>4. ASSUME NEW d \in Disks
      PROVE  /\ Len(entries[d]) \in Nat /\ DOMAIN entries[d] = 1 .. Len(entries[d])
             /\ \A i \in DOMAIN entries[d] : entries[d][i] \in [block : Nat, page : Int]
  <2>1. entries[d] \in Seq([block : Nat, page : Int]) BY DEF TypesOfState
  <2> QED BY <2>1, LenProperties, ElementOfSeq
<1> QED BY <1>1, <1>2, <1>3, <1>4

-----------------------------------------------------------------------------
(* Who is at the device.                                                   *)

\* While the writer's command is at the device no one else does anything.
LEMMA WriterAlone ==
  ASSUME TypesOfState, Roles, Stages, phase # "command", current.cmd.op = "write"
  PROVE  /\ current.task = Writer /\ pc[Writer] # "idle"
         /\ \A t \in Tasks \ {Writer} : pc[t] = "idle"
<1>1. /\ current.task \in Tasks /\ cmd[current.task].op = "write"
      /\ pc[current.task] \in {"cbw", "data", "csw"}
  BY DEF TypesOfState, Stages, BetweenCommands, Ordered, Sending, Sent, Closing
<1>2. current.task = Writer
  BY <1>1 DEF Roles, Tasks
<1> QED BY <1>1, <1>2, StorageTypes DEF Roles, Tasks

\* A coroutine that is not at the device starts, runs or ends.
LEMMA OthersRun ==
  ASSUME TypesOfState, Stages, Waiting, NEW t \in Tasks, NEW p \in {"idle", "loop"},
         pc[t] \in {"idle", "loop"}, pc' = [pc EXCEPT ![t] = p],
         UNCHANGED <<out, in, phase, current, cmd, events>>
  PROVE  Stages' /\ Waiting'
<1>1. /\ pc' \in [Tasks -> Places] /\ current.task \in Tasks
      /\ \A u \in Tasks : pc'[u] = IF u = t THEN p ELSE pc[u]
  BY DEF TypesOfState, Places
<1>2. /\ \A u \in Tasks : pc'[u] \in {"cbw", "data", "csw"} \/ pc[u] \in {"cbw", "data", "csw"}
                            => pc'[u] = pc[u]
      /\ \A u \in Tasks : Halfway(u)' <=> Halfway(u)
  BY <1>1 DEF Halfway
<1>3. /\ \A o \in Tasks : Only(o) => Only(o)'
      /\ \A o \in Tasks : Leaving(o) => Leaving(o)'
  BY <1>1, <1>2 DEF Only, Leaving
<1>4. BetweenCommands => BetweenCommands' BY <1>2, <1>3 DEF BetweenCommands
<1>5. /\ Ordered => Ordered'
      /\ Ordered' => pc[current.task] = "cbw" /\ phase = "data"
  BY <1>1, <1>2, <1>3 DEF Ordered
<1>6. Sending => Sending' BY <1>1, <1>2, <1>3 DEF Sending
<1>7. Sent => Sent' BY <1>1, <1>2, <1>3 DEF Sent
<1>8. Closing => Closing' BY <1>1, <1>2, <1>3 DEF Closing
<1>9. Stages' BY <1>4, <1>5, <1>6, <1>7, <1>8 DEF Stages
<1>10. Waiting'
  <2>1. Ordered' => Ordered
    BY <1>5 DEF Stages, BetweenCommands, Ordered, Sending, Sent, Closing
  <2>2. \A i \in DOMAIN out : out[i].task \in Tasks BY QueuesTyped
  <2> QED BY <1>2, <1>6, <2>1, <2>2 DEF Waiting
<1> QED BY <1>9, <1>10

-----------------------------------------------------------------------------
(* The coroutine's own steps.                                              *)

LEMMA BeginKeeps ==
  ASSUME StorageInv, NEW t \in Tasks, Begin(t)
  PROVE  StorageInv'
<1>1. /\ running = Nobody /\ registered /\ pc[t] = "idle" /\ t # Start
      /\ pc[Writer] = "idle" /\ (t = Writer => \A r \in Readers : pc[r] = "idle")
      /\ running' = t /\ pc' = [pc EXCEPT ![t] = "loop"]
      /\ UNCHANGED <<entries, lost, registered, cmd, page, out, in, phase, current,
                     failed, events>>
  BY DEF Begin
<1>2. /\ TypesOfState /\ Roles /\ Stages /\ Waiting /\ Contents /\ Transfers
  BY DEF StorageInv
<1>3. /\ got' \in [Readers -> Seq(Int)] /\ disks' \subseteq Disks
      /\ \A r \in Readers : got'[r] = IF r = t THEN <<>> ELSE got[r]
  <2>1. CASE t = Writer
    BY <2>1, <1>2, StorageTypes DEF Begin, TypesOfState
  <2>2. CASE t # Writer
    <3>1. t \in Readers BY <2>2, <1>1 DEF Tasks
    <3>2. got' = [got EXCEPT ![t] = <<>>] /\ disks' = disks \cup {Wants[t].disk}
      BY <2>2 DEF Begin
    <3>3. Wants[t].disk \in Disks BY <3>1, StorageTypes
    <3> QED BY <3>1, <3>2, <3>3, <1>2 DEF TypesOfState
  <2> QED BY <2>1, <2>2
<1>4. /\ \A u \in Tasks : pc'[u] = IF u = t THEN "loop" ELSE pc[u]
      /\ pc' \in [Tasks -> Places]
  BY <1>1, <1>2 DEF TypesOfState, Places
<1>5. TypesOfState' BY <1>1, <1>2, <1>3, <1>4 DEF TypesOfState
<1>6. Roles'
  <2>1. Start \in Tasks /\ Writer \in Tasks /\ Nobody \notin Tasks /\ Readers \subseteq Tasks
    BY StorageTypes DEF Tasks
  <2> QED BY <1>1, <1>2, <1>4, <2>1, StorageTypes DEF Roles
<1>7. Stages' /\ Waiting' BY <1>1, <1>2, OthersRun
<1>8. Contents'
  <2>1. DistinctBlocks' /\ CachedPages' /\ lost' = {}
    BY <1>1, <1>2 DEF Contents, DistinctBlocks, CachedPages, PageOf
  <2>2. ReadPages'
    <3>1. ASSUME NEW r \in Readers, r = t
          PROVE  Len(got'[r]) = 0 /\ DOMAIN got'[r] = {} /\ Wants[r].count \in Nat
      BY <3>1, <1>3, StorageTypes
    <3> QED BY <3>1, <1>1, <1>2, <1>3 DEF Contents, ReadPages, PageOf
  <2> QED BY <2>1, <2>2 DEF Contents
<1>9. Transfers'
  <2>1. \A r \in Readers : r \in Tasks BY DEF Tasks
  <2> QED BY <1>1, <1>2, <1>3, <1>4, <2>1 DEF Transfers, Found, PageOf
<1> QED BY <1>5, <1>6, <1>7, <1>8, <1>9 DEF StorageInv

LEMMA SendKeeps ==
  ASSUME StorageInv, NEW t \in Tasks, running = t, NEW op \in Ops, NEW lba \in 0 .. Lbas - 1,
         Send(t, op, lba),
         t \in Readers => op = "read", t = Writer => op = "write",
         t = Start => op \in {"inquiry", "capacity"},
         UNCHANGED <<registered, in, phase, current, events>>
  PROVE  /\ cmd' \in [Tasks -> Commands] /\ pc' \in [Tasks -> Places]
         /\ out' \in Seq([task : Tasks, what : {"cbw", "data"}])
         /\ running' \in Tasks \cup {Nobody}
         /\ \A u \in Tasks : pc'[u] = IF u = t THEN "cbw" ELSE pc[u]
         /\ \A u \in Tasks : cmd'[u] = IF u = t THEN [op |-> op, lba |-> lba] ELSE cmd[u]
         /\ Roles' /\ Stages' /\ Waiting'
<1> DEFINE x == [task |-> t, what |-> "cbw"]
           n == Len(out)
<1>1. /\ TypesOfState /\ Roles /\ Stages /\ Waiting /\ pc[t] = "loop"
  BY DEF StorageInv, Roles
<1>2. /\ cmd' = [cmd EXCEPT ![t] = [op |-> op, lba |-> lba]]
      /\ out' = Append(out, x) /\ pc' = [pc EXCEPT ![t] = "cbw"] /\ running' = Nobody
  BY DEF Send
<1>3. cmd' \in [Tasks -> Commands] /\ pc' \in [Tasks -> Places]
  BY <1>1, <1>2 DEF TypesOfState, Places, Commands
<1>4. /\ \A u \in Tasks : pc'[u] = IF u = t THEN "cbw" ELSE pc[u]
      /\ \A u \in Tasks : cmd'[u] = IF u = t THEN [op |-> op, lba |-> lba] ELSE cmd[u]
  BY <1>1, <1>2 DEF TypesOfState
<1>5. /\ out' \in Seq([task : Tasks, what : {"cbw", "data"}])
      /\ DOMAIN out = 1 .. n /\ n \in Nat /\ DOMAIN out' = 1 .. n + 1
      /\ out'[n + 1] = x /\ \A i \in 1 .. n : out'[i] = out[i]
      /\ \A i \in 1 .. n : out[i].task \in Tasks
  <2> DEFINE S == [task : Tasks, what : {"cbw", "data"}]
  <2>1. out \in Seq(S) /\ x \in S BY <1>1 DEF TypesOfState
  <2>2. \A i \in DOMAIN out : out[i].task \in Tasks BY <1>1, QueuesTyped
  <2> HIDE DEF S, x
  <2>3. /\ Append(out, x) \in Seq(S) /\ Len(Append(out, x)) = n + 1
        /\ DOMAIN out = 1 .. n /\ n \in Nat /\ DOMAIN Append(out, x) = 1 .. n + 1
        /\ Append(out, x)[n + 1] = x /\ \A i \in 1 .. n : Append(out, x)[i] = out[i]
    BY <2>1, LenProperties, AppendProperties
  <2> QED BY <1>2, <2>2, <2>3 DEF S
<1>6. Start \in Tasks /\ Writer \in Tasks /\ Nobody \notin Tasks /\ Readers \subseteq Tasks
  BY StorageTypes DEF Tasks
<1>7. Roles'
  BY <1>1, <1>2, <1>4, <1>6, StorageTypes DEF Roles
<1>8. /\ \A u \in Tasks : Halfway(u)' <=> Halfway(u)
      /\ \A o \in Tasks : Only(o) => Only(o)'
      /\ \A o \in Tasks : Leaving(o) => Leaving(o)'
  BY <1>1, <1>4 DEF Halfway, Only, Leaving
<1>9. phase # "command" => /\ current.task \in Tasks /\ current.task # t
                           /\ pc'[current.task] = pc[current.task]
                           /\ cmd'[current.task] = cmd[current.task]
  BY <1>1, <1>4 DEF TypesOfState, Stages, BetweenCommands, Ordered, Sending, Sent, Closing
<1>10. ~(phase # "command" /\ current.cmd.op = "write")
  BY <1>1, <1>9, WriterAlone
<1>11. Stages'
  <2>1. BetweenCommands => BetweenCommands' BY <1>8 DEF BetweenCommands
  <2>2. Ordered => Ordered' BY <1>8, <1>9 DEF Ordered
  <2>3. Sending => Sending' BY <1>8, <1>9, <1>10 DEF Sending
  <2>4. Sent => Sent' BY <1>8, <1>9 DEF Sent
  <2>5. Closing => Closing' BY <1>8, <1>9 DEF Closing
  <2> QED BY <1>1, <1>9, <2>1, <2>2, <2>3, <2>4, <2>5 DEF Stages
<1>12. Waiting'
  <2>1. Ordered' => Ordered /\ current.task # t
    BY <1>1, <1>9 DEF Stages, BetweenCommands, Ordered, Sending, Sent, Closing
  <2>2. ~(Sending /\ current.cmd.op = "write") BY <1>10 DEF Sending
  <2>3. \A i \in 1 .. n :
          /\ out[i].what = "cbw" /\ pc[out[i].task] = "cbw" /\ out[i].task # t
          /\ Ordered => out[i].task # current.task
    BY <1>1, <1>5, <2>2 DEF Waiting
  <2>4. \A i, j \in 1 .. n : i # j => out[i].task # out[j].task
    BY <1>1, <1>5, <2>2 DEF Waiting
  <2>5. out'[n + 1].what = "cbw" /\ out'[n + 1].task = t /\ pc'[t] = "cbw"
    BY <1>4, <1>5
  <2> HIDE DEF n, x
  <2>6. n \in Nat /\ \A i \in DOMAIN out' : i \in 1 .. n \/ i = n + 1 BY <1>5
  <2>7. ASSUME NEW i \in DOMAIN out'
        PROVE  /\ out'[i].what = "cbw" /\ pc'[out'[i].task] = "cbw"
               /\ Ordered' => out'[i].task # current.task
    <3>1. CASE i = n + 1 BY <2>1, <2>5, <3>1
    <3>2. CASE i \in 1 .. n
      <4>1. out'[i] = out[i] /\ out[i].task \in Tasks BY <1>5, <3>2
      <4>2. pc'[out[i].task] = pc[out[i].task] BY <4>1, <1>4, <2>3, <3>2
      <4>3. /\ out[i].what = "cbw" /\ pc[out[i].task] = "cbw"
            /\ Ordered => out[i].task # current.task
        BY <2>3, <3>2
      <4> QED BY <2>1, <4>1, <4>2, <4>3
    <3> QED BY <2>6, <3>1, <3>2
  <2>8. ASSUME NEW i \in DOMAIN out', NEW j \in DOMAIN out', i # j
        PROVE  out'[i].task # out'[j].task
    <3>1. \A k \in 1 .. n : out'[k] = out[k] BY <1>5
    <3>2. CASE i = n + 1 /\ j \in 1 .. n
      <4>1. out'[j] = out[j] /\ out[j].task # t BY <2>3, <3>1, <3>2
      <4> QED BY <2>5, <3>2, <4>1
    <3>3. CASE i \in 1 .. n /\ j = n + 1
      <4>1. out'[i] = out[i] /\ out[i].task # t BY <2>3, <3>1, <3>3
      <4> QED BY <2>5, <3>3, <4>1
    <3>4. CASE i \in 1 .. n /\ j \in 1 .. n BY <2>4, <2>8, <3>1, <3>4
    <3> QED BY <2>6, <2>8, <3>2, <3>3, <3>4
  <2>9. UNCHANGED current OBVIOUS
  <2> QED BY <2>7, <2>8, <2>9 DEF Waiting
<1> QED BY <1>2, <1>3, <1>4, <1>5, <1>7, <1>11, <1>12

\* A block that is in the cache has one entry.
LEMMA EntryFound ==
  ASSUME TypesOfState, DistinctBlocks, NEW d \in Disks, NEW b, Found(d, b) # {}
  PROVE  /\ Entry(d, b) \in DOMAIN entries[d] /\ entries[d][Entry(d, b)].block = b
         /\ \A i \in Found(d, b) : i = Entry(d, b)
<1>1. PICK k \in DOMAIN entries[d] : entries[d][k].block = b BY DEF Found
<1>2. Found(d, b) = {k} BY <1>1 DEF DistinctBlocks, Found
<1>3. k \in Nat BY <1>1, QueuesTyped
<1>4. \E i \in Found(d, b) : \A j \in Found(d, b) : i <= j BY <1>2, <1>3
<1>5. Entry(d, b) \in Found(d, b) BY <1>4 DEF Entry
<1> QED BY <1>1, <1>2, <1>5

\* A reader gets its next page.
LEMMA GotOneMore ==
  ASSUME TypesOfState, ReadPages, NEW r \in Readers, NEW p \in Int,
         Len(got[r]) < Wants[r].count,
         PageOf(Wants[r].disk, Block(r, Len(got[r])), p),
         got' = [got EXCEPT ![r] = Append(@, p)], failed' = failed
  PROVE  /\ got' \in [Readers -> Seq(Int)] /\ ReadPages'
         /\ \A q \in Readers \ {r} : got'[q] = got[q]
<1> DEFINE n == Len(got[r])
<1>1. got[r] \in Seq(Int) /\ got'[r] = Append(got[r], p) BY DEF TypesOfState
<1>2. /\ Append(got[r], p) \in Seq(Int) /\ n \in Nat /\ Len(Append(got[r], p)) = n + 1
      /\ DOMAIN got[r] = 1 .. n /\ DOMAIN Append(got[r], p) = 1 .. n + 1
      /\ Append(got[r], p)[n + 1] = p
      /\ \A i \in 1 .. n : Append(got[r], p)[i] = got[r][i]
  BY <1>1, LenProperties, AppendProperties
<1>3. /\ got' \in [Readers -> Seq(Int)]
      /\ \A q \in Readers \ {r} : got'[q] = got[q]
  BY <1>1, <1>2 DEF TypesOfState
<1>4. ReadPages'
  <2>1. Wants[r].count \in Nat BY StorageTypes
  <2>2. Len(got'[r]) <= Wants[r].count BY <1>1, <1>2, <2>1
  <2>3. ASSUME NEW i \in DOMAIN got'[r]
        PROVE  PageOf(Wants[r].disk, Block(r, i - 1), got'[r][i])
    <3>1. CASE i = n + 1
      <4>1. i - 1 = n /\ got'[r][i] = p BY <1>1, <1>2, <3>1
      <4> QED BY <4>1
    <3>2. CASE i \in 1 .. n
      <4>1. got'[r][i] = got[r][i] BY <1>1, <1>2, <3>2
      <4> QED BY <1>2, <3>2, <4>1 DEF ReadPages
    <3> QED BY <1>1, <1>2, <3>1, <3>2
  <2>4. \A d, b, q : PageOf(d, b, q)' <=> PageOf(d, b, q) BY DEF PageOf
  <2>5. ASSUME NEW q \in Readers, q # r
        PROVE  /\ Len(got'[q]) <= Wants[q].count
               /\ \A i \in DOMAIN got'[q] : PageOf(Wants[q].disk, Block(q, i - 1), got'[q][i])
    BY <1>3, <2>5 DEF ReadPages
  <2> QED BY <2>2, <2>3, <2>4, <2>5 DEF ReadPages
<1> QED BY <1>3, <1>4

LEMMA HitKeeps ==
  ASSUME StorageInv, NEW r \in Readers, Hit(r)
  PROVE  StorageInv'
<1> DEFINE d == Wants[r].disk
           b == Block(r, Len(got[r]))
           p == entries[d][Entry(d, b)].page
<1>1. /\ running = r /\ Len(got[r]) < Wants[r].count /\ Cached(d, b)
      /\ got' = [got EXCEPT ![r] = Append(@, p)]
      /\ UNCHANGED <<entries, disks, lost, registered, running, pc, cmd, page, out, in,
                     phase, current, failed, events>>
  BY DEF Hit, cache
<1>2. TypesOfState /\ Roles /\ Stages /\ Waiting /\ Contents /\ Transfers
  BY DEF StorageInv
<1>3. d \in Disks /\ r \in Tasks BY StorageTypes DEF Tasks
<1>4. p \in Int /\ PageOf(d, b, p)
  <2>1. Found(d, b) # {} /\ p # 0 BY <1>1 DEF Cached, Adds
  <2>2. Entry(d, b) \in DOMAIN entries[d] /\ entries[d][Entry(d, b)].block = b
    BY <1>2, <1>3, <2>1, EntryFound DEF Contents
  <2>3. p \in Int BY <1>2, <1>3, <2>2, QueuesTyped
  <2> QED BY <1>2, <1>3, <2>1, <2>2, <2>3 DEF Contents, CachedPages
<1>5. /\ got' \in [Readers -> Seq(Int)] /\ ReadPages'
      /\ \A q \in Readers \ {r} : got'[q] = got[q]
  BY <1>1, <1>2, <1>4, GotOneMore DEF Contents
<1>6. TypesOfState' BY <1>1, <1>2, <1>5 DEF TypesOfState
<1>7. Roles' BY <1>1, <1>2 DEF Roles
<1>8. Stages' /\ Waiting'
  <2>1. pc[r] = "loop" BY <1>1, <1>2, <1>3 DEF Roles
  <2>2. pc' = [pc EXCEPT ![r] = "loop"] BY <1>1, <1>2, <2>1 DEF TypesOfState
  <2> QED BY <1>1, <1>2, <1>3, <2>1, <2>2, OthersRun
<1>9. Contents'
  <2>1. DistinctBlocks' /\ CachedPages' /\ lost' = {}
    BY <1>1, <1>2 DEF Contents, DistinctBlocks, CachedPages, PageOf
  <2> QED BY <1>5, <2>1 DEF Contents
<1>10. Transfers'
  <2>1. pc[r] = "loop" BY <1>1, <1>2, <1>3 DEF Roles
  <2> QED BY <1>1, <1>2, <1>5, <2>1 DEF Transfers, PageOf, Found
<1> QED BY <1>6, <1>7, <1>8, <1>9, <1>10 DEF StorageInv

LEMMA FinishKeeps ==
  ASSUME StorageInv, NEW r \in Readers, Finish(r)
  PROVE  StorageInv'
<1>1. /\ running = r /\ running' = Nobody /\ pc' = [pc EXCEPT ![r] = "idle"]
      /\ UNCHANGED <<entries, disks, lost, registered, cmd, got, page, out, in, phase,
                     current, failed, events>>
  BY DEF Finish, cache
<1>2. TypesOfState /\ Roles /\ Stages /\ Waiting /\ Contents /\ Transfers
  BY DEF StorageInv
<1>3. /\ r \in Tasks /\ Start \in Tasks /\ Writer \in Tasks /\ Nobody \notin Tasks
      /\ Readers \subseteq Tasks /\ Start # r /\ Writer # r /\ Start # Writer
  BY StorageTypes DEF Tasks
<1>4. /\ \A u \in Tasks : pc'[u] = IF u = r THEN "idle" ELSE pc[u]
      /\ pc' \in [Tasks -> Places] /\ pc[r] = "loop"
  BY <1>1, <1>2, <1>3 DEF TypesOfState, Places, Roles
<1>5. TypesOfState' BY <1>1, <1>2, <1>4 DEF TypesOfState
<1>6. Roles' BY <1>1, <1>2, <1>3, <1>4 DEF Roles
<1>7. Stages' /\ Waiting' BY <1>1, <1>2, <1>3, <1>4, OthersRun
<1>8. Contents'
  BY <1>1, <1>2 DEF Contents, DistinctBlocks, CachedPages, ReadPages, PageOf
<1>9. Transfers' BY <1>1, <1>2, <1>3, <1>4 DEF Transfers, PageOf, Found
<1> QED BY <1>5, <1>6, <1>7, <1>8, <1>9 DEF StorageInv

LEMMA SendOtherKeeps ==
  ASSUME StorageInv, NEW t \in Tasks, SendOther(t)
  PROVE  StorageInv'
<1> DEFINE op == IF t = Writer THEN "write"
                 ELSE IF cmd[t].op = "none" THEN "inquiry" ELSE "capacity"
<1>1. /\ running = t /\ t \notin Readers /\ Send(t, op, 0)
      /\ UNCHANGED <<entries, disks, lost, registered, got, page, in, phase, current,
                     failed, events>>
  BY DEF SendOther, cache
<1>2. TypesOfState /\ Roles /\ Stages /\ Waiting /\ Contents /\ Transfers
  BY DEF StorageInv
<1>3. op \in Ops /\ 0 \in 0 .. Lbas - 1 BY StorageTypes DEF Ops
<1>4. t = Writer => op = "write" OBVIOUS
<1>5. t = Start => op \in {"inquiry", "capacity"} BY StorageTypes
<1> HIDE DEF op
<1>6. /\ cmd' \in [Tasks -> Commands] /\ pc' \in [Tasks -> Places]
      /\ out' \in Seq([task : Tasks, what : {"cbw", "data"}])
      /\ running' \in Tasks \cup {Nobody}
      /\ \A u \in Tasks : pc'[u] = IF u = t THEN "cbw" ELSE pc[u]
      /\ \A u \in Tasks : cmd'[u] = IF u = t THEN [op |-> op, lba |-> 0] ELSE cmd[u]
      /\ Roles' /\ Stages' /\ Waiting'
  BY <1>1, <1>3, <1>4, <1>5, SendKeeps
<1>7. TypesOfState' BY <1>1, <1>2, <1>6 DEF TypesOfState
<1>8. Contents'
  BY <1>1, <1>2 DEF Contents, DistinctBlocks, CachedPages, ReadPages, PageOf
<1>9. Transfers'
  <2>1. \A r \in Readers : r \in Tasks /\ r # t BY <1>1 DEF Tasks
  <2>2. \A r \in Readers : pc'[r] = pc[r] /\ cmd'[r] = cmd[r] BY <1>6, <2>1
  <2> QED BY <1>1, <1>2, <2>2 DEF Transfers, PageOf, Found
<1> QED BY <1>6, <1>7, <1>8, <1>9 DEF StorageInv

LEMMA MissKeeps ==
  ASSUME StorageInv, NEW r \in Readers, Miss(r)
  PROVE  StorageInv'
<1> DEFINE d == Wants[r].disk
           b == Block(r, Len(got[r]))
           n == Len(entries[d])
           e == [block |-> b, page |-> 0]
<1>1. /\ running = r /\ Len(got[r]) < Wants[r].count /\ ~Cached(d, b)
      /\ Send(r, "read", Lba(d, b))
      /\ UNCHANGED <<disks, registered, got, page, in, phase, current, failed, events>>
  BY DEF Miss
<1>2. TypesOfState /\ Roles /\ Stages /\ Waiting /\ Contents /\ Transfers
  BY DEF StorageInv
<1>3. d \in Disks /\ r \in Tasks /\ pc[r] = "loop" /\ Len(got[r]) \in Nat
  BY <1>1, <1>2, StorageTypes, QueuesTyped DEF Tasks, Roles
<1>4. Lba(d, b) \in 0 .. Lbas - 1 /\ b \in Nat
  BY <1>1, <1>3, Addresses
<1>5. b \in Wanted(r)
  <2>1. Wants[r].count \in Nat BY StorageTypes
  <2> QED BY <1>1, <1>3, <2>1 DEF Wanted
<1>6. /\ cmd' \in [Tasks -> Commands] /\ pc' \in [Tasks -> Places]
      /\ out' \in Seq([task : Tasks, what : {"cbw", "data"}])
      /\ running' \in Tasks \cup {Nobody}
      /\ \A u \in Tasks : pc'[u] = IF u = r THEN "cbw" ELSE pc[u]
      /\ \A u \in Tasks : cmd'[u] = IF u = r THEN [op |-> "read", lba |-> Lba(d, b)]
                                    ELSE cmd[u]
      /\ Roles' /\ Stages' /\ Waiting'
  <2>1. "read" \in Ops /\ r # Writer /\ r # Start BY StorageTypes DEF Ops
  <2> HIDE DEF d, b
  <2> QED BY <1>1, <1>3, <1>4, <2>1, SendKeeps
<1>7. lost' = {}
  <2>1. CASE Adds(d, b)
    <3>1. ASSUME NEW q \in Readers \ {r}, Wants[q].disk = d PROVE ~Grows(d)
      <4>1. Len(entries[d]) < Capacity
        BY <1>2, <1>5, <2>1, <3>1, RoomForAll DEF Adds
      <4>2. Len(entries[d]) \in Nat BY <1>2, <1>3, QueuesTyped
      <4> QED BY <4>1, <4>2, StorageTypes DEF Grows
    <3>2. lost' = IF Grows(d) THEN lost \cup {q \in Readers \ {r} :
                                                Wants[q].disk = d /\ pc[q] # "idle"}
                  ELSE lost
      BY <2>1 DEF Miss
    <3> QED BY <1>2, <3>1, <3>2 DEF Contents
  <2>2. CASE ~Adds(d, b) BY <1>2, <2>2 DEF Miss, Contents
  <2> QED BY <2>1, <2>2
\* The cache: the same entries, and perhaps one more.
<1>8. /\ entries' \in [Disks -> Seq([block : Nat, page : Int])]
      /\ \A c \in Disks : \A i \in DOMAIN entries[c] :
           i \in DOMAIN entries'[c] /\ entries'[c][i] = entries[c][i]
      /\ \A c \in Disks : \A i \in DOMAIN entries'[c] :
           i \in DOMAIN entries[c] \/ (c = d /\ entries'[c][i] = e /\ Adds(d, b))
      /\ \A i, j \in DOMAIN entries'[d] : i \notin DOMAIN entries[d]
                                         /\ j \notin DOMAIN entries[d] => i = j
      /\ \E i \in DOMAIN entries'[d] : entries'[d][i].block = b
  <2>1. CASE Adds(d, b)
    <3>1. entries' = [entries EXCEPT ![d] = Append(@, e)] BY <2>1 DEF Miss
    <3>2. entries[d] \in Seq([block : Nat, page : Int]) /\ e \in [block : Nat, page : Int]
      BY <1>2, <1>3, <1>4 DEF TypesOfState
    <3>3. /\ entries'[d] = Append(entries[d], e) /\ entries' = [entries EXCEPT ![d] = entries'[d]]
          /\ \A c \in Disks \ {d} : entries'[c] = entries[c]
      BY <1>2, <1>3, <3>1 DEF TypesOfState
    <3>4. e.block = b OBVIOUS
    <3> HIDE DEF e
    <3>5. /\ entries'[d] \in Seq([block : Nat, page : Int]) /\ n \in Nat
          /\ DOMAIN entries[d] = 1 .. n /\ DOMAIN entries'[d] = 1 .. n + 1
          /\ entries'[d][n + 1] = e /\ \A i \in 1 .. n : entries'[d][i] = entries[d][i]
      BY <3>2, <3>3, LenProperties, AppendProperties
    <3>6. entries' \in [Disks -> Seq([block : Nat, page : Int])]
      BY <1>2, <1>3, <3>3, <3>5 DEF TypesOfState
    <3>7. \A i \in DOMAIN entries'[d] : i \in DOMAIN entries[d] \/ i = n + 1
      BY <3>5
    <3>8. n + 1 \in DOMAIN entries'[d] BY <3>5
    <3>9. ASSUME NEW c \in Disks, NEW i \in DOMAIN entries[c]
          PROVE  i \in DOMAIN entries'[c] /\ entries'[c][i] = entries[c][i]
      <4>1. CASE c = d
        <5>1. i \in 1 .. n /\ n \in Nat BY <3>5, <4>1
        <5>2. i \in 1 .. n + 1 BY <5>1
        <5> QED BY <3>5, <4>1, <5>1, <5>2
      <4>2. CASE c # d BY <3>3, <4>2
      <4> QED BY <4>1, <4>2
    <3>10. ASSUME NEW c \in Disks, NEW i \in DOMAIN entries'[c]
           PROVE  i \in DOMAIN entries[c] \/ (c = d /\ entries'[c][i] = e /\ Adds(d, b))
      BY <2>1, <3>3, <3>5, <3>7
    <3>11. \A i, j \in DOMAIN entries'[d] : i \notin DOMAIN entries[d]
                                           /\ j \notin DOMAIN entries[d] => i = j
      BY <3>7
    <3>12. \E i \in DOMAIN entries'[d] : entries'[d][i].block = b
      BY <3>4, <3>5, <3>8
    <3> QED BY <3>6, <3>9, <3>10, <3>11, <3>12
  <2>2. CASE ~Adds(d, b)
    <3>1. entries' = entries BY <2>2 DEF Miss
    <3>2. \E i \in DOMAIN entries[d] : entries[d][i].block = b BY <2>2 DEF Adds, Found
    <3> QED BY <1>2, <3>1, <3>2 DEF TypesOfState
  <2> QED BY <2>1, <2>2
<1>9. TypesOfState' BY <1>1, <1>2, <1>6, <1>8 DEF TypesOfState
<1>10. Contents'
  <2>1. DistinctBlocks'
    <3> SUFFICES ASSUME NEW c \in Disks, NEW i \in DOMAIN entries'[c],
                        NEW j \in DOMAIN entries'[c], i # j
                 PROVE  entries'[c][i].block # entries'[c][j].block
      BY DEF DistinctBlocks
    <3>1. e.block = b OBVIOUS
    <3>2. Adds(d, b) => \A k \in DOMAIN entries[d] : entries[d][k].block # b
      BY DEF Adds, Found
    <3>3. \A k, l \in DOMAIN entries[c] : k # l => entries[c][k].block # entries[c][l].block
      BY <1>2 DEF Contents, DistinctBlocks
    <3> HIDE DEF d, b, e
    <3>4. CASE i \in DOMAIN entries[c] /\ j \in DOMAIN entries[c] BY <1>8, <3>3, <3>4
    <3>5. CASE i \notin DOMAIN entries[c] /\ j \in DOMAIN entries[c]
      BY <1>8, <3>1, <3>2, <3>5
    <3>6. CASE i \in DOMAIN entries[c] /\ j \notin DOMAIN entries[c]
      BY <1>8, <3>1, <3>2, <3>6
    <3>7. CASE i \notin DOMAIN entries[c] /\ j \notin DOMAIN entries[c] BY <1>8, <3>7
    <3> QED BY <3>4, <3>5, <3>6, <3>7
  <2>2. CachedPages'
    <3> SUFFICES ASSUME NEW c \in Disks, NEW i \in DOMAIN entries'[c]
                 PROVE  /\ entries'[c][i].page # 0
                           => PageOf(c, entries'[c][i].block, entries'[c][i].page)
                        /\ \E q \in Users(c) : entries'[c][i].block \in Wanted(q)
      BY <1>1 DEF CachedPages, PageOf
    <3>1. e.block = b /\ e.page = 0 OBVIOUS
    <3>2. r \in Users(d) BY DEF Users
    <3>3. CASE i \in DOMAIN entries[c]
      <4>1. entries'[c][i] = entries[c][i] BY <1>8, <3>3
      <4> QED BY <1>2, <3>3, <4>1 DEF Contents, CachedPages
    <3>4. CASE i \notin DOMAIN entries[c]
      <4>1. c = d /\ entries'[c][i] = e BY <1>8, <3>4
      <4> HIDE DEF d, b, e
      <4> QED BY <1>5, <3>1, <3>2, <4>1
    <3> QED BY <3>3, <3>4
  <2>3. ReadPages' BY <1>1, <1>2 DEF Contents, ReadPages, PageOf
  <2> QED BY <1>7, <2>1, <2>2, <2>3 DEF Contents
<1>11. Transfers'
  <2> SUFFICES ASSUME NEW q \in Readers
               PROVE  LET dq == Wants[q].disk
                          bq == Block(q, Len(got[q])) IN
                      /\ pc'[q] \in {"cbw", "data", "csw"} =>
                           /\ Len(got[q]) < Wants[q].count /\ Found(dq, bq)' # {}
                           /\ cmd'[q].lba = Lba(dq, bq)
                      /\ IF pc'[q] = "csw" \/ (pc'[q] = "data" /\ phase = "status")
                           THEN PageOf(dq, bq, page[q])
                           ELSE page[q] = Garbage
    BY <1>1 DEF Transfers, Found, PageOf
  <2>1. \A x : Found(Wants[q].disk, x) # {} => Found(Wants[q].disk, x)' # {}
    <3>1. Wants[q].disk \in Disks BY StorageTypes
    <3> QED BY <1>8, <3>1, SMTT(30) DEF Found
  <2>2. Found(d, b)' # {} BY <1>1, <1>8 DEF Found
  <2>3. q \in Tasks BY DEF Tasks
  <2>4. CASE q = r BY <1>1, <1>2, <1>3, <1>6, <2>2, <2>4 DEF Transfers
  <2>5. CASE q # r
    <3>1. pc'[q] = pc[q] /\ cmd'[q] = cmd[q] BY <1>6, <2>3, <2>5
    <3>2. Found(Wants[q].disk, Block(q, Len(got[q]))) # {} =>
            Found(Wants[q].disk, Block(q, Len(got[q])))' # {}
      BY <1>1, <2>1 DEF Found
    <3> QED BY <1>2, <3>1, <3>2 DEF Transfers
  <2> QED BY <2>4, <2>5
<1> QED BY <1>6, <1>9, <1>10, <1>11 DEF StorageInv

-----------------------------------------------------------------------------
(* RunCommand, resumed by the interrupt handler.                           *)

\* What the task of the first event was waiting for, the device has done.
LEMMA FirstEvent ==
  ASSUME TypesOfState, Stages, events # <<>>, NEW t, t = Head(events)
  PROVE  /\ t \in Tasks
         /\ pc[t] = "cbw" => /\ Ordered /\ t = current.task /\ Tail(events) = <<>>
                             /\ \A u \in Tasks : ~Halfway(u)
         /\ pc[t] = "data" => Sent /\ t = current.task /\ Tail(events) = <<>>
         /\ pc[t] = "csw" => /\ Leaving(t)
                             /\ \/ BetweenCommands /\ Tail(events) = <<>>
                                \/ Ordered /\ t # current.task /\ Tail(events) = <<current.task>>
<1> DEFINE c == current.task
<1>1. c \in Tasks BY DEF TypesOfState
<1>2. CASE BetweenCommands
  <2>1. PICK o \in Tasks : events = <<o>> /\ Leaving(o) BY <1>2 DEF BetweenCommands
  <2>2. t = o /\ Tail(events) = <<>> /\ pc[t] = "csw" BY <2>1, ShortQueues DEF Leaving
  <2> QED BY <1>2, <2>1, <2>2
<1>3. CASE Ordered
  <2>1. CASE events = <<c>> /\ \A u \in Tasks : ~Halfway(u)
    <3>1. t = c /\ Tail(events) = <<>> BY <2>1, ShortQueues
    <3>2. pc[t] = "cbw" BY <1>3, <3>1 DEF Ordered
    <3> QED BY <1>1, <1>3, <2>1, <3>1, <3>2
  <2>2. CASE \E o \in Tasks : events = <<o, c>> /\ Leaving(o)
    <3>1. PICK o \in Tasks : events = <<o, c>> /\ Leaving(o) BY <2>2
    <3>2. t = o /\ Tail(events) = <<c>> /\ pc[t] = "csw" BY <3>1, ShortQueues DEF Leaving
    <3>3. t # c BY <1>3, <3>2 DEF Ordered
    <3> QED BY <1>3, <3>1, <3>2, <3>3
  <2> QED BY <1>3, <2>1, <2>2 DEF Ordered
<1>4. CASE Sent
  <2>1. events = <<c>> BY <1>4 DEF Sent
  <2>2. t = c /\ Tail(events) = <<>> BY <2>1, ShortQueues
  <2>3. pc[t] = "data" BY <1>4, <2>2 DEF Sent
  <2> QED BY <1>1, <1>4, <2>2, <2>3
<1> QED BY <1>2, <1>3, <1>4 DEF Stages, Sending, Closing

\* No command block waits behind that of the writer.
LEMMA NothingBehindWriter ==
  ASSUME TypesOfState, Roles, Stages, Waiting, Ordered, current.cmd.op = "write"
  PROVE  out = <<>>
<1>1. phase = "data" /\ ~Sending BY DEF Ordered, Sending
<1>2. /\ current.task = Writer
      /\ \A u \in Tasks \ {Writer} : pc[u] = "idle"
  BY <1>1, WriterAlone
<1>3. \A i \in DOMAIN out : out[i].task \in Tasks BY QueuesTyped
<1>4. DOMAIN out = {} BY <1>1, <1>2, <1>3 DEF Waiting
<1> DEFINE S == [task : Tasks, what : {"cbw", "data"}]
<1>5. out \in Seq(S) BY DEF TypesOfState
<1> HIDE DEF S
<1>6. DOMAIN out = 1 .. Len(out) /\ Len(out) \in Nat BY <1>5, LenProperties
<1>7. Len(out) = 0 BY <1>4, <1>6
<1> QED BY <1>5, <1>7, EmptySeq

LEMMA TransferKeeps ==
  ASSUME StorageInv, NEW t \in Tasks, Transfer(t)
  PROVE  StorageInv'
<1> DEFINE x == [task |-> t, what |-> "data"]
<1>1. /\ running = Nobody /\ events # <<>> /\ t = Head(events) /\ pc[t] = "cbw"
      /\ events' = Tail(events) /\ pc' = [pc EXCEPT ![t] = "data"]
      /\ IF cmd[t].op # "write" THEN in' = Append(in, x) /\ out' = out
                                ELSE out' = Append(out, x) /\ in' = in
      /\ UNCHANGED <<entries, disks, lost, registered, running, cmd, got, page, phase,
                     current, failed>>
  BY DEF Transfer, Resumes, cache, DataIn
<1>2. TypesOfState /\ Roles /\ Stages /\ Waiting /\ Contents /\ Transfers
  BY DEF StorageInv
<1>3. /\ Ordered /\ t = current.task /\ events' = <<>>
      /\ \A u \in Tasks : ~Halfway(u)
  BY <1>1, <1>2, FirstEvent
<1>4. /\ \A u \in Tasks : pc'[u] = IF u = t THEN "data" ELSE pc[u]
      /\ pc' \in [Tasks -> Places]
  BY <1>1, <1>2 DEF TypesOfState, Places
<1>5. phase = "data" /\ in = <<>> /\ current.cmd = cmd[t] BY <1>2, <1>3 DEF Ordered, Stages
<1>6. /\ \A i \in DOMAIN out : /\ out[i].what = "cbw" /\ pc[out[i].task] = "cbw"
                               /\ out[i].task # t /\ out[i].task \in Tasks
      /\ \A i, j \in DOMAIN out : i # j => out[i].task # out[j].task
  <2>1. ~Sending BY <1>1, <1>3 DEF Sending
  <2>2. \A i \in DOMAIN out : out[i].task \in Tasks BY <1>2, QueuesTyped
  <2> QED BY <1>2, <1>3, <2>1, <2>2 DEF Waiting
<1>7. IF cmd[t].op # "write" THEN in' = <<x>> /\ out' = out ELSE out' = <<x>> /\ in' = <<>>
  <2>1. CASE cmd[t].op # "write" BY <1>1, <1>5, <2>1, ShortQueues
  <2>2. CASE cmd[t].op = "write"
    <3>1. out = <<>> BY <1>2, <1>3, <1>5, <2>2, NothingBehindWriter
    <3> QED BY <1>1, <1>5, <2>2, <3>1, ShortQueues
  <2> QED BY <2>1, <2>2
<1>8. TypesOfState'
  <2>1. in' \in Seq([task : Tasks, what : {"data", "csw"}])
    <3>1. in' = <<x>> \/ in' = <<>> BY <1>7
    <3>2. <<x>> \in Seq([task : Tasks, what : {"data", "csw"}]) OBVIOUS
    <3> HIDE DEF x
    <3> QED BY <3>1, <3>2, EmptySeq
  <2>2. out' \in Seq([task : Tasks, what : {"cbw", "data"}])
    <3>1. out' = out \/ out' = <<x>> BY <1>7
    <3>2. <<x>> \in Seq([task : Tasks, what : {"cbw", "data"}]) OBVIOUS
    <3> QED BY <1>2, <3>1, <3>2 DEF TypesOfState
  <2>3. events' \in Seq(Tasks) BY <1>3
  <2> QED BY <1>1, <1>2, <1>4, <2>1, <2>2, <2>3 DEF TypesOfState
<1>9. Roles'
  <2>1. \A u \in Tasks : /\ pc'[u] \in {"cbw", "data", "csw"} <=> pc[u] \in {"cbw", "data", "csw"}
                         /\ pc'[u] = "idle" <=> pc[u] = "idle"
                         /\ pc'[u] = "loop" <=> pc[u] = "loop"
    BY <1>1, <1>4
  <2>2. Start \in Tasks /\ Writer \in Tasks /\ Readers \subseteq Tasks BY DEF Tasks
  <2> QED BY <1>1, <1>2, <2>1, <2>2 DEF Roles
<1>10. Sending'
  <2>1. pc'[t] = "data" /\ \A u \in Tasks : Halfway(u)' => u = t BY <1>3, <1>4 DEF Halfway
  <2> QED BY <1>1, <1>3, <1>5, <1>7, <2>1 DEF Sending, Only
<1>11. Stages' BY <1>1, <1>3, <1>5, <1>10 DEF Stages
<1>12. Waiting'
  <2>1. CASE cmd[t].op = "write" BY <1>1, <1>5, <1>10, <2>1 DEF Waiting
  <2>2. CASE cmd[t].op # "write"
    <3>1. out' = out /\ \A i \in DOMAIN out : pc'[out[i].task] = "cbw"
      BY <1>4, <1>6, <1>7, <2>2
    <3>2. ~Ordered' BY <1>1, <1>3, <1>4 DEF Ordered
    <3> QED BY <1>6, <3>1, <3>2 DEF Waiting
  <2> QED BY <2>1, <2>2
<1>13. Contents'
  BY <1>1, <1>2 DEF Contents, DistinctBlocks, CachedPages, ReadPages, PageOf
<1>14. Transfers'
  <2>1. Readers \subseteq Tasks BY DEF Tasks
  <2> QED BY <1>1, <1>2, <1>4, <1>5, <2>1 DEF Transfers, PageOf, Found
<1> QED BY <1>8, <1>9, <1>11, <1>12, <1>13, <1>14 DEF StorageInv

LEMMA StatusKeeps ==
  ASSUME StorageInv, NEW t \in Tasks, Status(t)
  PROVE  StorageInv'
<1> DEFINE x == [task |-> t, what |-> "csw"]
<1>1. /\ running = Nobody /\ events # <<>> /\ t = Head(events) /\ pc[t] = "data"
      /\ events' = Tail(events) /\ pc' = [pc EXCEPT ![t] = "csw"]
      /\ in' = Append(in, x)
      /\ UNCHANGED <<entries, disks, lost, registered, running, cmd, got, page, out, phase,
                     current, failed>>
  BY DEF Status, Resumes, cache
<1>2. TypesOfState /\ Roles /\ Stages /\ Waiting /\ Contents /\ Transfers
  BY DEF StorageInv
<1>3. Sent /\ t = current.task /\ events' = <<>>
  BY <1>1, <1>2, FirstEvent
<1>4. /\ \A u \in Tasks : pc'[u] = IF u = t THEN "csw" ELSE pc[u]
      /\ pc' \in [Tasks -> Places]
  BY <1>1, <1>2 DEF TypesOfState, Places
<1>5. phase = "status" /\ in' = <<x>>
  <2>1. phase = "status" /\ in = <<>> BY <1>3 DEF Sent
  <2> QED BY <1>1, <2>1, ShortQueues
<1>6. TypesOfState'
  <2>1. in' \in Seq([task : Tasks, what : {"data", "csw"}]) BY <1>5
  <2>2. events' \in Seq(Tasks) BY <1>3
  <2> QED BY <1>1, <1>2, <1>4, <2>1, <2>2 DEF TypesOfState
<1>7. Roles'
  <2>1. \A u \in Tasks : /\ pc'[u] \in {"cbw", "data", "csw"} <=> pc[u] \in {"cbw", "data", "csw"}
                         /\ pc'[u] = "idle" <=> pc[u] = "idle"
                         /\ pc'[u] = "loop" <=> pc[u] = "loop"
    BY <1>1, <1>4
  <2>2. Start \in Tasks /\ Writer \in Tasks /\ Readers \subseteq Tasks BY DEF Tasks
  <2> QED BY <1>1, <1>2, <2>1, <2>2 DEF Roles
<1>8. Closing'
  <2>1. pc'[t] = "csw" /\ \A u \in Tasks : Halfway(u)' => u = t
    BY <1>3, <1>4 DEF Halfway, Sent, Only
  <2> QED BY <1>1, <1>3, <1>5, <2>1 DEF Closing, Only
<1>9. Stages' BY <1>1, <1>2, <1>5, <1>8 DEF Stages
<1>10. Waiting'
  <2>1. ~Sending BY <1>5 DEF Sending
  <2>2. \A i \in DOMAIN out : out[i].task \in Tasks BY <1>2, QueuesTyped
  <2>3. \A i \in DOMAIN out : pc'[out[i].task] = "cbw" BY <1>1, <1>2, <1>4, <2>1, <2>2 DEF Waiting
  <2>4. ~Ordered' BY <1>1, <1>5 DEF Ordered
  <2> QED BY <1>1, <1>2, <2>1, <2>3, <2>4 DEF Waiting
<1>11. Contents'
  BY <1>1, <1>2 DEF Contents, DistinctBlocks, CachedPages, ReadPages, PageOf
<1>12. Transfers'
  <2>1. Readers \subseteq Tasks BY DEF Tasks
  <2> QED BY <1>1, <1>2, <1>4, <1>5, <2>1 DEF Transfers, PageOf, Found
<1> QED BY <1>6, <1>7, <1>9, <1>10, <1>11, <1>12 DEF StorageInv

\* The command is over for its task.
LEMMA LeaveKeeps ==
  ASSUME TypesOfState, Stages, Waiting, NEW t \in Tasks, NEW p \in {"idle", "loop"},
         events # <<>>, t = Head(events), pc[t] = "csw",
         pc' = [pc EXCEPT ![t] = p], events' = Tail(events),
         UNCHANGED <<out, in, phase, current, cmd>>
  PROVE  /\ Stages' /\ Waiting' /\ phase # "status"
         /\ events' \in Seq(Tasks) /\ \A u \in Tasks : Halfway(u) => u = t
<1>1. /\ Leaving(t)
      /\ \/ BetweenCommands /\ events' = <<>>
         \/ Ordered /\ t # current.task /\ events' = <<current.task>>
  BY FirstEvent
<1>2. \A u \in Tasks : pc'[u] = IF u = t THEN p ELSE pc[u] BY DEF TypesOfState
<1>3. /\ \A u \in Tasks : Halfway(u) => u = t
      /\ \A u \in Tasks : ~Halfway(u)'
  BY <1>1, <1>2 DEF Leaving, Only, Halfway
<1>4. CASE BetweenCommands /\ events' = <<>>
  <2>1. BetweenCommands' BY <1>3, <1>4 DEF BetweenCommands
  <2>2. phase = "command" BY <1>4 DEF BetweenCommands
  <2>3. Waiting'
    <3>1. \A i \in DOMAIN out : out[i].task \in Tasks BY QueuesTyped
    <3>2. ~Sending /\ ~Ordered' BY <2>2 DEF Sending, Ordered
    <3> QED BY <1>2, <3>1, <3>2 DEF Waiting
  <2>4. Stages' BY <2>1, <2>2 DEF Stages
  <2>5. events' \in Seq(Tasks) BY <1>4, EmptySeq
  <2> QED BY <1>3, <2>2, <2>3, <2>4, <2>5
<1>5. CASE Ordered /\ t # current.task /\ events' = <<current.task>>
  <2>1. current.task \in Tasks BY DEF TypesOfState
  <2>2. Ordered' BY <1>2, <1>3, <1>5, <2>1 DEF Ordered
  <2>3. phase = "data" /\ ~Sending BY <1>5 DEF Ordered, Sending
  <2>4. Waiting'
    <3>1. \A i \in DOMAIN out : out[i].task \in Tasks BY QueuesTyped
    <3> QED BY <1>2, <1>5, <2>3, <3>1 DEF Waiting
  <2>5. current.cmd = cmd[current.task] BY <2>3 DEF Stages
  <2>6. Stages' BY <2>2, <2>5 DEF Stages
  <2>7. events' \in Seq(Tasks)
    <3>1. <<current.task>> \in Seq(Tasks) BY <2>1
    <3> QED BY <1>5, <3>1
  <2> QED BY <1>3, <2>3, <2>4, <2>6, <2>7
<1> QED BY <1>1, <1>4, <1>5

LEMMA CompleteKeeps ==
  ASSUME StorageInv, NEW r \in Readers, Complete(r)
  PROVE  StorageInv'
<1> DEFINE d == Wants[r].disk
           b == Block(r, Len(got[r]))
           k == Entry(d, b)
<1>1. /\ running = Nobody /\ events # <<>> /\ r = Head(events) /\ pc[r] = "csw"
      /\ events' = Tail(events) /\ pc' = [pc EXCEPT ![r] = "loop"] /\ running' = r
      /\ entries' = [entries EXCEPT ![d] = [entries[d] EXCEPT ![k].page = page[r]]]
      /\ got' = [got EXCEPT ![r] = Append(@, page[r])]
      /\ page' = [page EXCEPT ![r] = Garbage]
      /\ UNCHANGED <<disks, lost, registered, cmd, out, in, phase, current, failed>>
  BY DEF Complete, Resumes, Final, Filled
<1>2. TypesOfState /\ Roles /\ Stages /\ Waiting /\ Contents /\ Transfers
  BY DEF StorageInv
<1>3. /\ d \in Disks /\ r \in Tasks /\ Start \in Tasks /\ Writer \in Tasks
      /\ Nobody \notin Tasks /\ Readers \subseteq Tasks /\ r # Start /\ r # Writer
      /\ Start # Writer
  BY StorageTypes DEF Tasks
<1>4. /\ \A u \in Tasks : pc'[u] = IF u = r THEN "loop" ELSE pc[u]
      /\ pc' \in [Tasks -> Places]
      /\ page' \in [Tasks -> Pages] /\ page[r] \in Int
      /\ \A u \in Tasks : page'[u] = IF u = r THEN Garbage ELSE page[u]
  <2>1. Garbage \in Pages BY DEF Pages
  <2>2. \A p \in Pages : p \in Int BY StorageTypes DEF Pages, Garbage
  <2> QED BY <1>1, <1>2, <1>3, <2>1, <2>2 DEF TypesOfState, Places
<1>5. /\ Len(got[r]) < Wants[r].count /\ Found(d, b) # {} /\ PageOf(d, b, page[r])
  BY <1>1, <1>2 DEF Transfers
<1>6. k \in DOMAIN entries[d] /\ entries[d][k].block = b
  BY <1>2, <1>3, <1>5, EntryFound DEF Contents
<1>7. /\ Stages' /\ Waiting' /\ phase # "status" /\ events' \in Seq(Tasks)
  BY <1>1, <1>2, <1>3, LeaveKeeps
<1>8. /\ got' \in [Readers -> Seq(Int)] /\ ReadPages'
      /\ \A q \in Readers \ {r} : got'[q] = got[q]
  BY <1>1, <1>2, <1>4, <1>5, GotOneMore DEF Contents
<1> HIDE DEF k
<1>9. /\ entries' \in [Disks -> Seq([block : Nat, page : Int])]
      /\ \A c \in Disks : DOMAIN entries'[c] = DOMAIN entries[c]
      /\ \A c \in Disks : \A i \in DOMAIN entries[c] :
           /\ entries'[c][i].block = entries[c][i].block
           /\ entries'[c][i].page = IF c = d /\ i = k THEN page[r] ELSE entries[c][i].page
  <2> DEFINE S == [block : Nat, page : Int]
             e == [entries[d][k] EXCEPT !.page = page[r]]
  <2>1. entries[d] \in Seq(S) /\ k \in 1 .. Len(entries[d]) /\ entries[d][k] \in S
    BY <1>2, <1>3, <1>6, QueuesTyped DEF TypesOfState
  <2>2. e \in S /\ e.page = page[r] /\ e.block = entries[d][k].block
    BY <1>4, <2>1
  <2>3. /\ entries'[d] = [entries[d] EXCEPT ![k] = e]
        /\ entries' = [entries EXCEPT ![d] = entries'[d]]
        /\ \A c \in Disks \ {d} : entries'[c] = entries[c]
    BY <1>1, <1>2, <1>3 DEF TypesOfState
  <2> HIDE DEF S, e
  <2>4. /\ entries'[d] \in Seq(S) /\ Len(entries'[d]) = Len(entries[d])
        /\ \A j \in 1 .. Len(entries[d]) : entries'[d][j] = IF j = k THEN e ELSE entries[d][j]
    BY <2>1, <2>2, <2>3, ExceptSeq
  <2>5. DOMAIN entries'[d] = DOMAIN entries[d] /\ DOMAIN entries[d] = 1 .. Len(entries[d])
    BY <2>1, <2>4, LenProperties
  <2>6. entries' \in [Disks -> Seq([block : Nat, page : Int])]
    BY <1>2, <1>3, <2>3, <2>4 DEF TypesOfState, S
  <2>7. \A c \in Disks : DOMAIN entries'[c] = DOMAIN entries[c] BY <2>3, <2>5
  <2>8. ASSUME NEW c \in Disks, NEW i \in DOMAIN entries[c]
        PROVE  /\ entries'[c][i].block = entries[c][i].block
               /\ entries'[c][i].page = IF c = d /\ i = k THEN page[r] ELSE entries[c][i].page
    <3>1. CASE c = d /\ i = k BY <2>2, <2>4, <2>5, <3>1
    <3>2. CASE c = d /\ i # k BY <2>4, <2>5, <3>2
    <3>3. CASE c # d BY <2>3, <3>3
    <3> QED BY <3>1, <3>2, <3>3
  <2> QED BY <2>6, <2>7, <2>8
<1>10. TypesOfState'
  BY <1>1, <1>2, <1>3, <1>4, <1>7, <1>8, <1>9 DEF TypesOfState
<1>11. Roles' BY <1>1, <1>2, <1>3, <1>4 DEF Roles
<1>12. Contents'
  <2>1. DistinctBlocks' BY <1>2, <1>9, SMTT(30) DEF Contents, DistinctBlocks
  <2>2. CachedPages'
    <3>1. \A x, y, p : PageOf(x, y, p)' <=> PageOf(x, y, p) BY <1>1 DEF PageOf
    <3> SUFFICES ASSUME NEW c \in Disks, NEW i \in DOMAIN entries'[c]
                 PROVE  /\ entries'[c][i].page # 0
                           => PageOf(c, entries'[c][i].block, entries'[c][i].page)
                        /\ \E q \in Users(c) : entries'[c][i].block \in Wanted(q)
      BY <1>1 DEF CachedPages, PageOf
    <3>2. /\ entries[c][i].page # 0 => PageOf(c, entries[c][i].block, entries[c][i].page)
          /\ \E q \in Users(c) : entries[c][i].block \in Wanted(q)
      BY <1>2, <1>9 DEF Contents, CachedPages
    <3>3. CASE c = d /\ i = k BY <1>5, <1>6, <1>9, <3>2, <3>3
    <3>4. CASE ~(c = d /\ i = k) BY <1>9, <3>2, <3>4
    <3> QED BY <3>3, <3>4
  <2> QED BY <1>1, <1>2, <1>8, <2>1, <2>2 DEF Contents
<1>13. Transfers'
  <2>1. \A c \in Disks : \A x : Found(c, x)' = Found(c, x) BY <1>9 DEF Found
  <2> SUFFICES ASSUME NEW q \in Readers, q # r
               PROVE  LET dq == Wants[q].disk
                          bq == Block(q, Len(got[q])) IN
                      /\ pc[q] \in {"cbw", "data", "csw"} =>
                           /\ Len(got[q]) < Wants[q].count /\ Found(dq, bq)' # {}
                           /\ cmd[q].lba = Lba(dq, bq)
                      /\ IF pc[q] = "csw" \/ (pc[q] = "data" /\ phase = "status")
                           THEN PageOf(dq, bq, page[q])
                           ELSE page[q] = Garbage
    BY <1>1, <1>3, <1>4, <1>8 DEF Transfers, Found, PageOf
  <2>2. Wants[q].disk \in Disks BY StorageTypes
  <2>3. got'[q] = got[q] BY <1>8
  <2> QED BY <1>2, <2>1, <2>2, <2>3 DEF Transfers, Found
<1> QED BY <1>7, <1>10, <1>11, <1>12, <1>13 DEF StorageInv

LEMMA CompleteOtherKeeps ==
  ASSUME StorageInv, NEW t \in Tasks, CompleteOther(t)
  PROVE  StorageInv'
<1> DEFINE p == IF cmd[t].op = "inquiry" THEN "loop" ELSE "idle"
<1>1. /\ t \notin Readers /\ running = Nobody /\ events # <<>> /\ t = Head(events)
      /\ pc[t] = "csw" /\ events' = Tail(events)
      /\ registered' = (registered \/ cmd[t].op = "capacity")
      /\ pc' = [pc EXCEPT ![t] = p]
      /\ running' = IF cmd[t].op = "inquiry" THEN t ELSE Nobody
      /\ page' = [page EXCEPT ![t] = Garbage]
      /\ UNCHANGED <<entries, disks, lost, cmd, got, out, in, phase, current, failed>>
  BY DEF CompleteOther, Resumes, Final, cache
<1>2. TypesOfState /\ Roles /\ Stages /\ Waiting /\ Contents /\ Transfers
  BY DEF StorageInv
<1>3. /\ Start \in Tasks /\ Writer \in Tasks /\ Nobody \notin Tasks
      /\ Readers \subseteq Tasks /\ Start # Writer /\ t \in {Start, Writer}
      /\ Start \notin Readers /\ Writer \notin Readers
  BY <1>1, StorageTypes DEF Tasks
<1>4. p \in {"idle", "loop"} /\ p \in Places BY DEF Places
<1>5. /\ \A u \in Tasks : pc'[u] = IF u = t THEN p ELSE pc[u]
      /\ pc' \in [Tasks -> Places]
      /\ page' \in [Tasks -> Pages]
      /\ \A u \in Tasks : page'[u] = IF u = t THEN Garbage ELSE page[u]
  <2>1. Garbage \in Pages BY DEF Pages
  <2> QED BY <1>1, <1>2, <1>4, <2>1 DEF TypesOfState
<1>6. Stages' /\ Waiting' /\ phase # "status" /\ events' \in Seq(Tasks)
  <2> HIDE DEF p
  <2> QED BY <1>1, <1>2, <1>4, LeaveKeeps
<1>7. TypesOfState' BY <1>1, <1>2, <1>3, <1>5, <1>6 DEF TypesOfState
<1>8. Roles'
  <2>1. CASE t = Start
    <3>1. /\ ~registered /\ \A u \in Tasks \ {Start} : pc[u] = "idle"
          /\ cmd[t].op \in {"inquiry", "capacity"}
      BY <1>1, <1>2, <1>3, <2>1 DEF Roles
    <3> QED BY <1>1, <1>2, <1>3, <1>5, <2>1, <3>1, ZenonT(60) DEF Roles
  <2>2. CASE t = Writer
    <3>1. registered /\ cmd[t].op = "write" /\ pc[Start] = "idle"
      BY <1>1, <1>2, <1>3, <2>2 DEF Roles
    <3> QED BY <1>1, <1>2, <1>3, <1>5, <2>2, <3>1 DEF Roles
  <2> QED BY <1>3, <2>1, <2>2
<1>9. Contents'
  BY <1>1, <1>2 DEF Contents, DistinctBlocks, CachedPages, ReadPages, PageOf
<1>10. Transfers'
  <2>1. \A r \in Readers : r \in Tasks /\ r # t /\ pc'[r] = pc[r] /\ page'[r] = page[r]
    BY <1>1, <1>3, <1>5
  <2> QED BY <1>1, <1>2, <2>1 DEF Transfers, PageOf, Found
<1> QED BY <1>6, <1>7, <1>8, <1>9, <1>10 DEF StorageInv

-----------------------------------------------------------------------------
(* The device.                                                             *)

\* A page that is good stays so: what failed is not forgotten.
LEMMA MoreFailures ==
  ASSUME failed \subseteq failed',
         UNCHANGED <<entries, disks, lost, got>>
  PROVE  /\ Contents => Contents'
         /\ \A d, b, p : PageOf(d, b, p) => PageOf(d, b, p)'
<1>1. \A d, b, p : PageOf(d, b, p) => PageOf(d, b, p)' BY DEF PageOf
<1>2. DistinctBlocks => DistinctBlocks' BY DEF DistinctBlocks
<1>3. CachedPages => CachedPages' BY <1>1 DEF CachedPages, PageOf
<1>4. ReadPages => ReadPages' BY <1>1 DEF ReadPages, PageOf
<1> QED BY <1>1, <1>2, <1>3, <1>4 DEF Contents

LEMMA TakeCommandKeeps ==
  ASSUME StorageInv, TakeCommand
  PROVE  StorageInv'
<1> DEFINE S == [task : Tasks, what : {"cbw", "data"}]
           c == Head(out).task
           n == Len(out)
<1>1. /\ phase = "command" /\ out # <<>> /\ phase' = "data"
      /\ current' = [task |-> c, cmd |-> cmd[c]]
      /\ out' = Tail(out) /\ events' = Append(events, c)
      /\ UNCHANGED <<entries, disks, lost, registered, running, pc, cmd, got, page, in,
                     failed>>
  BY DEF TakeCommand, cache
<1>2. TypesOfState /\ Roles /\ Stages /\ Waiting /\ Contents /\ Transfers
  BY DEF StorageInv
<1>3. BetweenCommands /\ ~Sending
  BY <1>1, <1>2 DEF Stages, Ordered, Sending, Sent, Closing
<1>4. /\ out' \in Seq(S) /\ n \in Nat /\ n > 0 /\ DOMAIN out = 1 .. n
      /\ DOMAIN out' = 1 .. n - 1 /\ \A i \in 1 .. n - 1 : out'[i] = out[i + 1]
      /\ Head(out) = out[1]
  <2>1. out \in Seq(S) BY <1>2 DEF TypesOfState
  <2> HIDE DEF S
  <2>2. /\ Tail(out) \in Seq(S) /\ Len(Tail(out)) = n - 1
        /\ \A i \in 1 .. Len(Tail(out)) : Tail(out)[i] = out[i + 1]
    BY <1>1, <2>1, HeadTailProperties
  <2>3. /\ DOMAIN Tail(out) = 1 .. Len(Tail(out)) /\ DOMAIN out = 1 .. n
        /\ n \in Nat /\ n # 0
    BY <1>1, <2>1, <2>2, LenProperties, EmptySeq
  <2>4. Head(out) = out[1] BY <2>1, <2>3
  <2> QED BY <1>1, <2>2, <2>3, <2>4
<1>5. \A i \in 1 .. n : /\ out[i].what = "cbw" /\ pc[out[i].task] = "cbw"
                        /\ out[i].task \in Tasks
  BY <1>2, <1>3, <1>4, QueuesTyped DEF Waiting
<1>6. c \in Tasks /\ pc[c] = "cbw" /\ c = out[1].task
  BY <1>4, <1>5
<1>7. \A i, j \in 1 .. n : i # j => out[i].task # out[j].task
  BY <1>2, <1>3, <1>4 DEF Waiting
<1> HIDE DEF c, S
<1>8. current'.task = c /\ current'.cmd = cmd[c] /\ current' \in [task : Tasks, cmd : Commands]
  BY <1>1, <1>2, <1>6 DEF TypesOfState
<1>9. /\ Ordered' /\ events' \in Seq(Tasks)
  <2>1. CASE events = <<>> /\ \A t \in Tasks : ~Halfway(t)
    <3>1. events' = <<c>> BY <1>1, <2>1, ShortQueues
    <3>2. \A t \in Tasks : ~Halfway(t)' BY <1>1, <2>1 DEF Halfway
    <3>3. in = <<>> BY <1>3 DEF BetweenCommands
    <3>4. Ordered' BY <1>1, <1>6, <1>8, <3>1, <3>2, <3>3 DEF Ordered
    <3>5. <<c>> \in Seq(Tasks) BY <1>6
    <3> QED BY <3>1, <3>4, <3>5
  <2>2. CASE \E o \in Tasks : events = <<o>> /\ Leaving(o)
    <3>1. PICK o \in Tasks : events = <<o>> /\ Leaving(o) BY <2>2
    <3>2. events' = <<o, c>> BY <1>1, <3>1, ShortQueues
    <3>3. Leaving(o)' BY <1>1, <3>1 DEF Leaving, Only, Halfway
    <3>4. in = <<>> BY <1>3 DEF BetweenCommands
    <3>5. Ordered' BY <1>1, <1>6, <1>8, <3>2, <3>3, <3>4 DEF Ordered
    <3>6. <<o, c>> \in Seq(Tasks) BY <1>6
    <3> QED BY <3>2, <3>5, <3>6
  <2> QED BY <1>3, <2>1, <2>2 DEF BetweenCommands
<1>10. TypesOfState' BY <1>1, <1>2, <1>4, <1>8, <1>9 DEF TypesOfState, S
<1>11. Roles' BY <1>1, <1>2 DEF Roles
<1>12. Stages' BY <1>1, <1>8, <1>9 DEF Stages
<1>13. Waiting'
  <2>1. ASSUME NEW i \in DOMAIN out'
        PROVE  /\ i + 1 \in 1 .. n /\ out'[i] = out[i + 1] /\ i + 1 # 1 /\ 1 \in 1 .. n
               /\ i \in Nat
    BY <1>4
  <2>2. ASSUME NEW i \in DOMAIN out'
        PROVE  /\ out'[i].what = "cbw" /\ pc'[out'[i].task] = "cbw"
               /\ out'[i].task # current'.task
    <3>1. out[i + 1].task # out[1].task BY <1>7, <2>1
    <3> QED BY <1>1, <1>5, <1>6, <1>8, <2>1, <3>1
  <2>3. ASSUME NEW i \in DOMAIN out', NEW j \in DOMAIN out', i # j
        PROVE  out'[i].task # out'[j].task
    <3>1. i + 1 # j + 1 BY <2>1, <2>3
    <3> QED BY <1>7, <2>1, <3>1
  <2> QED BY <2>2, <2>3 DEF Waiting
<1>14. Contents' BY <1>1, <1>2, MoreFailures
<1>15. Transfers' BY <1>1, <1>2 DEF Transfers, PageOf, Found
<1> QED BY <1>10, <1>11, <1>12, <1>13, <1>14, <1>15 DEF StorageInv

LEMMA SendDataKeeps ==
  ASSUME StorageInv, SendData
  PROVE  StorageInv'
<1> DEFINE c == current.task
           block == current.cmd.lba \div SectorsPerBlock
           t == Head(in).task
<1>1. /\ phase = "data" /\ current.cmd.op # "write" /\ in # <<>> /\ phase' = "status"
      /\ \/ page' = [page EXCEPT ![t] = block + 1] /\ failed' = failed
         \/ page' = page /\ failed' = failed \cup {block}
      /\ in' = Tail(in) /\ events' = Append(events, t)
      /\ UNCHANGED <<entries, disks, lost, registered, running, pc, cmd, got, out, current>>
  BY DEF SendData, cache
<1>2. TypesOfState /\ Roles /\ Stages /\ Waiting /\ Contents /\ Transfers
  BY DEF StorageInv
<1>3. Sending BY <1>1, <1>2 DEF Stages, BetweenCommands, Ordered, Sent, Closing
<1>4. /\ in = <<[task |-> c, what |-> "data"]>> /\ pc[c] = "data" /\ Only(c)
      /\ events = <<>> /\ current.cmd = cmd[c] /\ c \in Tasks
  BY <1>1, <1>2, <1>3 DEF Sending, Stages, TypesOfState
<1>5. in' = <<>> /\ events' = <<c>> /\ t = c
  <2>1. Head(in) = [task |-> c, what |-> "data"] /\ in' = <<>> BY <1>1, <1>4, ShortQueues
  <2>2. t = c BY <2>1
  <2> HIDE DEF t
  <2> QED BY <1>1, <1>4, <2>1, <2>2, ShortQueues
<1> HIDE DEF c, t
<1>6. block \in Nat /\ block + 1 \in 1 .. Lbas
  <2>1. current.cmd.lba \in 0 .. Lbas - 1 BY <1>2 DEF TypesOfState, Commands
  <2> QED BY <2>1, StorageTypes
<1> HIDE DEF block
<1>7. /\ page' \in [Tasks -> Pages]
      /\ \A u \in Tasks \ {c} : page'[u] = page[u]
      /\ \/ page'[c] = block + 1
         \/ page'[c] = page[c] /\ block \in failed'
  BY <1>1, <1>2, <1>4, <1>5, <1>6, ZenonT(60) DEF TypesOfState, Pages
<1>8. TypesOfState'
  <2>1. <<c>> \in Seq(Tasks) BY <1>4
  <2> QED BY <1>1, <1>2, <1>5, <1>7, <2>1, EmptySeq DEF TypesOfState
<1>9. Roles' BY <1>1, <1>2 DEF Roles
<1>10. Sent'
  <2>1. Only(c)' BY <1>1, <1>4 DEF Only, Halfway, c
  <2> QED BY <1>1, <1>4, <1>5, <2>1 DEF Sent, c
<1>11. Stages' BY <1>1, <1>4, <1>10 DEF Stages, c
<1>12. Waiting'
  <2>1. ~(Sending /\ current.cmd.op = "write") BY <1>1
  <2>2. ~Ordered' BY <1>1 DEF Ordered
  <2> QED BY <1>1, <1>2, <2>1, <2>2 DEF Waiting
<1>13. failed \subseteq failed' BY <1>1
<1>14. Contents' BY <1>1, <1>2, <1>13, MoreFailures
<1>15. Transfers'
  <2>1. \A d, b, p : PageOf(d, b, p) => PageOf(d, b, p)' BY <1>1, <1>13, MoreFailures
  <2> SUFFICES ASSUME NEW r \in Readers
               PROVE  LET d == Wants[r].disk
                          b == Block(r, Len(got[r])) IN
                      IF pc[r] = "csw" \/ pc[r] = "data"
                        THEN page'[r] = Base[d] + b + 1 \/ (page'[r] = Garbage /\ Base[d] + b \in failed')
                        ELSE page'[r] = Garbage
    BY <1>1, <1>2 DEF Transfers, Found, PageOf
  <2>2. r \in Tasks BY DEF Tasks
  <2>3. CASE r = c
    <3>1. /\ Len(got[r]) < Wants[r].count /\ cmd[r].lba = Lba(Wants[r].disk, Block(r, Len(got[r])))
          /\ page[r] = Garbage
      BY <1>1, <1>2, <1>4, <2>3 DEF Transfers
    <3>2. block = Base[Wants[r].disk] + Block(r, Len(got[r]))
      <4>1. Len(got[r]) \in Nat BY <1>2, QueuesTyped
      <4> QED BY <1>4, <2>3, <3>1, <4>1, Addresses DEF block
    <3> QED BY <1>4, <1>7, <2>3, <3>1, <3>2
  <2>4. CASE r # c
    <3>1. pc[r] \notin {"data", "csw"} BY <1>4, <2>2, <2>4 DEF Only, Halfway
    <3>2. page[r] = Garbage BY <1>2, <3>1 DEF Transfers
    <3> QED BY <1>7, <2>2, <2>4, <3>1, <3>2
  <2> QED BY <2>3, <2>4
<1> QED BY <1>8, <1>9, <1>11, <1>12, <1>14, <1>15 DEF StorageInv

LEMMA TakeDataKeeps ==
  ASSUME StorageInv, TakeData
  PROVE  StorageInv'
<1> DEFINE c == current.task
           t == Head(out).task
<1>1. /\ phase = "data" /\ current.cmd.op = "write" /\ out # <<>> /\ phase' = "status"
      /\ out' = Tail(out) /\ events' = Append(events, t)
      /\ UNCHANGED <<entries, disks, lost, registered, running, pc, cmd, got, page, in,
                     current, failed>>
  BY DEF TakeData, cache
<1>2. TypesOfState /\ Roles /\ Stages /\ Waiting /\ Contents /\ Transfers
  BY DEF StorageInv
<1>3. Sending
  <2>1. ~Ordered BY <1>1, <1>2, NothingBehindWriter
  <2> QED BY <1>1, <1>2, <2>1 DEF Stages, BetweenCommands, Sent, Closing
<1>4. /\ out = <<[task |-> c, what |-> "data"]>> /\ pc[c] = "data" /\ Only(c)
      /\ in = <<>> /\ events = <<>> /\ current.cmd = cmd[c] /\ c \in Tasks
  BY <1>1, <1>2, <1>3 DEF Sending, Stages, TypesOfState
<1>5. out' = <<>> /\ events' = <<c>>
  <2>1. Head(out) = [task |-> c, what |-> "data"] /\ out' = <<>> BY <1>1, <1>4, ShortQueues
  <2>2. t = c BY <2>1
  <2> HIDE DEF t
  <2> QED BY <1>1, <1>4, <2>1, <2>2, ShortQueues
<1> HIDE DEF c, t
<1>6. TypesOfState'
  <2>1. <<c>> \in Seq(Tasks) BY <1>4
  <2> QED BY <1>1, <1>2, <1>5, <2>1, EmptySeq DEF TypesOfState
<1>7. Roles' BY <1>1, <1>2 DEF Roles
<1>8. Sent'
  <2>1. Only(c)' BY <1>1, <1>4 DEF Only, Halfway, c
  <2> QED BY <1>1, <1>4, <1>5, <2>1 DEF Sent, c
<1>9. Stages' BY <1>1, <1>4, <1>8 DEF Stages, c
<1>10. Waiting' BY <1>5 DEF Waiting
<1>11. Contents' BY <1>1, <1>2, MoreFailures
<1>12. Transfers'
  <2>1. \A r \in Readers : pc[r] = "idle"
    <3>1. /\ c = Writer /\ \A u \in Tasks \ {Writer} : pc[u] = "idle"
      BY <1>1, <1>2, WriterAlone DEF c
    <3> QED BY <3>1, StorageTypes DEF Tasks
  <2> QED BY <1>1, <1>2, <2>1 DEF Transfers, PageOf, Found
<1> QED BY <1>6, <1>7, <1>9, <1>10, <1>11, <1>12 DEF StorageInv

LEMMA SendStatusKeeps ==
  ASSUME StorageInv, SendStatus
  PROVE  StorageInv'
<1> DEFINE c == current.task
           t == Head(in).task
<1>1. /\ phase = "status" /\ in # <<>> /\ phase' = "command"
      /\ in' = Tail(in) /\ events' = Append(events, t)
      /\ UNCHANGED <<entries, disks, lost, registered, running, pc, cmd, got, page, out,
                     current, failed>>
  BY DEF SendStatus, cache
<1>2. TypesOfState /\ Roles /\ Stages /\ Waiting /\ Contents /\ Transfers
  BY DEF StorageInv
<1>3. Closing BY <1>1, <1>2 DEF Stages, BetweenCommands, Ordered, Sending, Sent
<1>4. /\ in = <<[task |-> c, what |-> "csw"]>> /\ pc[c] = "csw" /\ Only(c)
      /\ events = <<>> /\ c \in Tasks
  BY <1>2, <1>3 DEF Closing, TypesOfState
<1>5. in' = <<>> /\ events' = <<c>>
  <2>1. Head(in) = [task |-> c, what |-> "csw"] /\ in' = <<>> BY <1>1, <1>4, ShortQueues
  <2>2. t = c BY <2>1
  <2> HIDE DEF t
  <2> QED BY <1>1, <1>4, <2>1, <2>2, ShortQueues
<1> HIDE DEF c, t
<1>6. TypesOfState'
  <2>1. <<c>> \in Seq(Tasks) BY <1>4
  <2> QED BY <1>1, <1>2, <1>5, <2>1, EmptySeq DEF TypesOfState
<1>7. Roles' BY <1>1, <1>2 DEF Roles
<1>8. BetweenCommands'
  <2>1. Leaving(c)' BY <1>1, <1>4 DEF Leaving, Only, Halfway, c
  <2>2. c' = c BY <1>1 DEF c
  <2>3. \E o \in Tasks : events' = <<o>> /\ Leaving(o)' BY <1>4, <1>5, <2>1, <2>2
  <2> QED BY <1>1, <1>5, <2>3 DEF BetweenCommands
<1>9. Stages' BY <1>1, <1>8 DEF Stages
<1>10. Waiting'
  <2>1. ~Sending /\ ~Ordered' BY <1>1 DEF Sending, Ordered
  <2> QED BY <1>1, <1>2, <2>1 DEF Waiting
<1>11. Contents' BY <1>1, <1>2, MoreFailures
<1>12. Transfers'
  <2>1. \A r \in Readers : pc[r] # "data"
    <3>1. \A r \in Readers : r \in Tasks BY DEF Tasks
    <3> QED BY <1>4, <3>1 DEF Only, Halfway
  <2> QED BY <1>1, <1>2, <2>1 DEF Transfers, PageOf, Found
<1> QED BY <1>6, <1>7, <1>9, <1>10, <1>11, <1>12 DEF StorageInv

-----------------------------------------------------------------------------
(* The theorems.                                                           *)

LEMMA InitStorageInv ==
  ASSUME Init
  PROVE  StorageInv
<1>1. /\ entries = [d \in Disks |-> <<>>] /\ disks = {} /\ lost = {}
      /\ registered = FALSE /\ running = Start
      /\ pc = [t \in Tasks |-> IF t = Start THEN "loop" ELSE "idle"]
      /\ cmd = [t \in Tasks |-> NoCommand] /\ got = [r \in Readers |-> <<>>]
      /\ page = [t \in Tasks |-> Garbage] /\ out = <<>> /\ in = <<>>
      /\ phase = "command" /\ current = [task |-> Start, cmd |-> NoCommand]
      /\ failed = {} /\ events = <<>>
  BY DEF Init
<1>2. /\ Start \in Tasks /\ Writer \in Tasks /\ Nobody \notin Tasks
      /\ Readers \subseteq Tasks /\ Start # Writer
      /\ Start \notin Readers /\ Writer \notin Readers
  BY StorageTypes DEF Tasks
<1>3. NoCommand \in Commands BY StorageTypes DEF NoCommand, Commands, Ops
<1>4. TypesOfState
  <2>1. /\ entries \in [Disks -> Seq([block : Nat, page : Int])]
        /\ got \in [Readers -> Seq(Int)]
        /\ out \in Seq([task : Tasks, what : {"cbw", "data"}])
        /\ in \in Seq([task : Tasks, what : {"data", "csw"}])
        /\ events \in Seq(Tasks)
    BY <1>1, EmptySeq
  <2>2. pc \in [Tasks -> Places] BY <1>1 DEF Places
  <2>3. cmd \in [Tasks -> Commands] /\ current \in [task : Tasks, cmd : Commands]
    BY <1>1, <1>2, <1>3
  <2>4. page \in [Tasks -> Pages] BY <1>1 DEF Pages
  <2> QED BY <1>1, <1>2, <2>1, <2>2, <2>3, <2>4 DEF TypesOfState
<1>5. Roles BY <1>1, <1>2 DEF Roles, NoCommand
<1>6. Stages BY <1>1 DEF Stages, BetweenCommands, Halfway
<1>7. Waiting
  <2>1. DOMAIN out = {} BY <1>1
  <2> QED BY <2>1 DEF Waiting
<1>8. Contents
  <2>1. \A d \in Disks : DOMAIN entries[d] = {} BY <1>1
  <2>2. \A r \in Readers : DOMAIN got[r] = {} /\ Len(got[r]) = 0 BY <1>1
  <2>3. \A r \in Readers : Wants[r].count \in Nat BY StorageTypes
  <2> QED BY <1>1, <2>1, <2>2, <2>3
          DEF Contents, DistinctBlocks, CachedPages, ReadPages
<1>9. Transfers BY <1>1, <1>2 DEF Transfers
<1> QED BY <1>4, <1>5, <1>6, <1>7, <1>8, <1>9 DEF StorageInv

LEMMA NextStorageInv ==
  ASSUME StorageInv, [Next]_vars
  PROVE  StorageInv'
<1>1. CASE GoOn
  BY <1>1, HitKeeps, MissKeeps, FinishKeeps, SendOtherKeeps DEF GoOn
<1>2. CASE Handler
  BY <1>2, CompleteKeeps, TransferKeeps, StatusKeeps, CompleteOtherKeeps DEF Handler
<1>3. CASE Device
  BY <1>3, TakeCommandKeeps, SendDataKeeps, TakeDataKeeps, SendStatusKeeps DEF Device
<1>4. CASE \E t \in Tasks : Begin(t)
  BY <1>4, BeginKeeps
<1>5. CASE UNCHANGED vars
  <2>1. UNCHANGED <<entries, disks, lost, registered, running, pc, cmd, got, page, out, in,
                    phase, current, failed, events>>
    BY <1>5 DEF vars, cache
  <2>2. TypesOfState /\ Roles /\ Stages /\ Waiting /\ Contents /\ Transfers
    BY DEF StorageInv
  <2>3. TypesOfState' BY <2>1, <2>2 DEF TypesOfState
  <2>4. Roles' BY <2>1, <2>2 DEF Roles
  <2>5. /\ BetweenCommands => BetweenCommands'
        /\ Ordered <=> Ordered'
        /\ Sending <=> Sending'
        /\ Sent => Sent'
        /\ Closing => Closing'
    BY <2>1 DEF BetweenCommands, Ordered, Sending, Sent, Closing, Leaving, Only, Halfway
  <2>6. Stages' /\ Waiting' BY <2>1, <2>2, <2>5 DEF Stages, Waiting
  <2>7. Contents' BY <2>1, <2>2, MoreFailures
  <2>8. Transfers' BY <2>1, <2>2 DEF Transfers, PageOf, Found
  <2> QED BY <2>3, <2>4, <2>6, <2>7, <2>8 DEF StorageInv
<1> QED BY <1>1, <1>2, <1>3, <1>4, <1>5 DEF Next

\* The invariant holds in every state the readers, the writer, the handler and
\* the device can get to.
THEOREM StorageInvariant == Spec => []StorageInv
<1>1. Init => StorageInv BY InitStorageInv
<1>2. StorageInv /\ [Next]_vars => StorageInv' BY NextStorageInv
<1> QED BY <1>1, <1>2, PTL DEF Spec

\* A page a reader gets is the number of a block or what was in the memory.
LEMMA PagesTyped ==
  ASSUME NEW r \in Readers, NEW k \in Nat, k < Wants[r].count, NEW p,
         PageOf(Wants[r].disk, Block(r, k), p)
  PROVE  p \in Pages \ {0}
<1>1. CASE p = Base[Wants[r].disk] + Block(r, k) + 1
  <2>1. p \in 1 .. Lbas BY <1>1, Addresses
  <2> QED BY <2>1, StorageTypes DEF Pages
<1>2. CASE p = Garbage BY <1>2 DEF Pages, Garbage
<1> QED BY <1>1, <1>2 DEF PageOf

\* Every variable has the type the code gives it; pages of the cache are
\* numbers of blocks of the disk (blockcache.h).
THEOREM StorageTypeOK == Spec => []TypeOK
<1>1. StorageInv => TypeOK
  <2> SUFFICES ASSUME StorageInv PROVE TypeOK OBVIOUS
  <2>1. TypesOfState /\ Contents BY DEF StorageInv
  <2>2. ASSUME NEW d \in Disks, NEW i \in DOMAIN entries[d]
        PROVE  entries[d][i].page \in Pages
    <3>1. CASE entries[d][i].page = 0 BY <3>1 DEF Pages
    <3>2. CASE entries[d][i].page # 0
      <4>1. PageOf(d, entries[d][i].block, entries[d][i].page)
        BY <2>1, <3>2 DEF Contents, CachedPages
      <4>2. PICK r \in Users(d) : entries[d][i].block \in Wanted(r)
        BY <2>1 DEF Contents, CachedPages
      <4>3. r \in Readers /\ Wants[r].disk = d /\ Wants[r].count \in Nat
        BY StorageTypes DEF Users
      <4>4. PICK k \in 0 .. Wants[r].count - 1 : entries[d][i].block = Block(r, k)
        BY <4>2 DEF Wanted
      <4>5. k \in Nat /\ k < Wants[r].count BY <4>3
      <4> QED BY <4>1, <4>3, <4>4, <4>5, PagesTyped
    <3> QED BY <3>1, <3>2
  <2>3. ASSUME NEW r \in Readers
        PROVE  Len(got[r]) <= Wants[r].count /\ Range(got[r]) \subseteq Pages \ {0}
    <3>1. Len(got[r]) <= Wants[r].count BY <2>1 DEF Contents, ReadPages
    <3>2. Len(got[r]) \in Nat /\ DOMAIN got[r] = 1 .. Len(got[r]) BY <2>1, QueuesTyped
    <3>3. Wants[r].count \in Nat BY StorageTypes
    <3>4. ASSUME NEW i \in DOMAIN got[r] PROVE got[r][i] \in Pages \ {0}
      <4>1. PageOf(Wants[r].disk, Block(r, i - 1), got[r][i])
        BY <2>1 DEF Contents, ReadPages
      <4>2. i - 1 \in Nat /\ i - 1 < Wants[r].count BY <3>1, <3>2, <3>3
      <4> QED BY <4>1, <4>2, PagesTyped
    <3> QED BY <3>1, <3>4 DEF Range
  <2>4. \A t \in Tasks : cmd[t].lba \in 0 .. Lbas - 1 BY <2>1 DEF TypesOfState, Commands
  <2>5. \A i \in DOMAIN events : events[i] \in Tasks BY <2>1, QueuesTyped
  <2>6. disks \subseteq Disks /\ lost \subseteq Readers BY <2>1 DEF TypesOfState, Contents
  <2> QED BY <2>1, <2>2, <2>3, <2>4, <2>5, <2>6 DEF TypeOK, TypesOfState, Places
<1> QED BY <1>1, StorageInvariant, PTL

\* However the commands of the coroutines interleave, the device never takes
\* data for a command or a status for data (UsbStorage.cpp:114).
THEOREM StorageWireOrder == Spec => []WireOrder
<1>1. StorageInv => WireOrder
  <2> SUFFICES ASSUME StorageInv PROVE WireOrder OBVIOUS
  <2> DEFINE c == current.task
             writes == current.cmd.op = "write"
  <2>1. TypesOfState /\ Roles /\ Stages /\ Waiting BY DEF StorageInv
  <2>2. in # <<>> => /\ Head(in).task = c
                     /\ \/ phase = "data" /\ ~writes /\ Head(in).what = "data"
                        \/ phase = "status" /\ Head(in).what = "csw"
    <3> HAVE in # <<>>
    <3>1. CASE Sending
      <4>1. /\ phase = "data" /\ ~writes /\ in = <<[task |-> c, what |-> "data"]>>
        BY <3>1 DEF Sending
      <4>2. Head(in) = [task |-> c, what |-> "data"] BY <4>1, ShortQueues
      <4> QED BY <4>1, <4>2
    <3>2. CASE Closing
      <4>1. phase = "status" /\ in = <<[task |-> c, what |-> "csw"]>> BY <3>2 DEF Closing
      <4>2. Head(in) = [task |-> c, what |-> "csw"] BY <4>1, ShortQueues
      <4> QED BY <4>1, <4>2
    <3> QED BY <2>1, <3>1, <3>2 DEF Stages, BetweenCommands, Ordered, Sent
  <2>3. out # <<>> => IF phase = "data" /\ writes
                        THEN Head(out) = [task |-> c, what |-> "data"]
                        ELSE Head(out).what = "cbw"
    <3> HAVE out # <<>>
    <3>1. CASE phase = "data" /\ writes
      <4>1. ~Ordered BY <2>1, <3>1, NothingBehindWriter
      <4>2. Sending
        BY <2>1, <3>1, <4>1 DEF Stages, BetweenCommands, Sent, Closing
      <4>3. out = <<[task |-> c, what |-> "data"]>> BY <3>1, <4>2 DEF Sending
      <4>4. Head(out) = [task |-> c, what |-> "data"] BY <4>3, ShortQueues
      <4> QED BY <3>1, <4>4
    <3>2. CASE ~(phase = "data" /\ writes)
      <4>1. \A i \in DOMAIN out : out[i].what = "cbw"
        BY <2>1, <3>2 DEF Waiting, Sending
      <4>2. 1 \in DOMAIN out /\ Head(out) = out[1]
        <5> DEFINE S == [task : Tasks, what : {"cbw", "data"}]
        <5>1. out \in Seq(S) BY <2>1 DEF TypesOfState
        <5> HIDE DEF S
        <5> QED BY <5>1, LenProperties, EmptySeq
      <4> QED BY <3>2, <4>1, <4>2
    <3> QED BY <3>1, <3>2
  <2> QED BY <2>2, <2>3 DEF WireOrder
<1> QED BY <1>1, StorageInvariant, PTL

\* A reader gets its own blocks, of its own partition, or the memory as it was
\* for a block the disk failed to read; and no vector of the cache moves while
\* a coroutine holds a reference into it (blockcache.h:27).
THEOREM StorageOwnBlocks == Spec => []OwnBlocks
<1>1. StorageInv => OwnBlocks
  <2> SUFFICES ASSUME StorageInv, NEW r \in Readers
               PROVE  /\ r \notin lost
                      /\ \A i \in DOMAIN got[r] :
                           LET b == Base[Wants[r].disk] + Block(r, i - 1) IN
                           got[r][i] = b + 1 \/ (got[r][i] = Garbage /\ b \in failed)
    BY DEF OwnBlocks
  <2>1. Contents BY DEF StorageInv
  <2> QED BY <2>1 DEF Contents, ReadPages, PageOf
<1> QED BY <1>1, StorageInvariant, PTL
=============================================================================
