----------------------------- MODULE NvmeProofs -----------------------------
(***************************************************************************)
(* What holds of an NVMe disk of every size, for every number of           *)
(* coroutines that use it.                                                 *)
(*                                                                         *)
(* The inductive invariant NvmeInv relates the two ends of every queue:    *)
(*   - Sending: a slot of a submission queue holds a command exactly when  *)
(*     it is between the controller's index and the doorbell;              *)
(*   - Phases: a completion looks valid to the driver exactly when it is   *)
(*     between the driver's index and the controller's, which are never    *)
(*     more than a round apart;                                            *)
(*   - Apart, Outstanding: a command is in one place, and its promise is   *)
(*     awaited and has no value;                                           *)
(*   - Numbers: identifiers name one entry of completions each, and the    *)
(*     commands held and the completions not yet handled different ones;   *)
(*   - Owed: the entry a completion finds has a promise that is awaited,   *)
(*     executed and still without its value;                               *)
(*   - Turning: how far behind the driver's next identifier those in use   *)
(*     can be, so that the next one is none of them;                       *)
(*   - Starting: the admin queue's identifiers never come round;           *)
(*   - Handler: where the interrupt handler is, an entry it has fulfilled  *)
(*     and not removed included;                                           *)
(*   - Scripts, Promising: what each task awaits.                          *)
(***************************************************************************)
EXTENDS Nvme, TLAPS, FiniteSetTheorems, SequenceTheorems

\* The steps from a to b on a circle of m.
Dist(a, b, m) == IF a <= b THEN b - a ELSE b - a + m
Slot(q, i) == IF i < Size[q] THEN i ELSE i - Size[q]
Turn(q) == 2 * Size[q]

Ops == Requests \cup {"none", "identify", "list", "cq", "sq"}
Records(q) == [id : 0 .. Turn(q) - 1, p : Promises, op : Ops]

Types ==
  /\ DOMAIN sq = Queues /\ DOMAIN cq = Queues /\ DOMAIN completions = Queues
  /\ DOMAIN sqi = Queues /\ DOMAIN tail = Queues /\ DOMAIN head = Queues
  /\ DOMAIN post = Queues /\ DOMAIN cqHead = Queues /\ DOMAIN cqi = Queues
  /\ \A q \in Queues :
       /\ {sqi[q], post[q], cqi[q]} \subseteq 0 .. Turn(q) - 1
       /\ {tail[q], head[q], cqHead[q]} \subseteq 0 .. Size[q] - 1
       /\ sq[q] \in [0 .. Size[q] - 1 -> Records(q)]
       /\ cq[q] \in [0 .. Size[q] - 1 -> [id : 0 .. Turn(q) - 1, phase : {0, 1}]]
       /\ completions[q] \in Seq([id : 0 .. Turn(q) - 1, p : Promises])
  /\ IsFiniteSet(fetched)
  /\ \A f \in fetched : /\ f.q \in Queues /\ f.cmd \in Records(f.q)
                        /\ f = [q |-> f.q, cmd |-> f.cmd]
  /\ created \subseteq {Admin, "cq", Io} /\ Admin \in created
  /\ msi \in BOOLEAN /\ irq \subseteq Queues
  /\ step \in {"look", "remove"} /\ at \in Nat \ {0}
  /\ ready \subseteq Promises /\ executed \subseteq Promises /\ waiting \subseteq Tasks
  /\ todo \in [Tasks -> Seq(Promises)] /\ pc \in [Tasks -> Nat] /\ run \in Seq(Tasks)

Awaited == {p \in Promises : ToAwait(p)}
QueueOf(p) == IF p[1] \in Readers THEN Io ELSE Admin
OpOf(p) ==
  CASE p[1] \in Readers -> Kind[p[1]]
    [] p = <<Device, 2>> -> "list"
    [] p = <<Disk, 2>> -> "cq"
    [] p = <<Disk, 3>> -> "sq"
    [] OTHER -> "identify"

Full(q) == {i \in 0 .. Size[q] - 1 : sq[q][i].op # "none"}
Fetched(q) == {f \in fetched : f.q = q}
Held(q) == {sq[q][i] : i \in Full(q)} \cup {f.cmd : f \in Fetched(q)}
Count(q) == Dist(head[q], tail[q], Size[q]) + Cardinality(Fetched(q))

Sending(q) ==
  /\ tail[q] = Slot(q, sqi[q])
  /\ \A i \in 0 .. Size[q] - 1 :
       sq[q][i].op # "none" <=> Dist(head[q], i, Size[q]) < Dist(head[q], tail[q], Size[q])

Apart ==
  /\ \A q \in Queues : \A i, j \in Full(q) : sq[q][i].p = sq[q][j].p => i = j
  /\ \A q \in Queues : \A i \in Full(q) : \A f \in fetched : f.cmd.p # sq[q][i].p
  /\ \A f, g \in fetched : f.cmd.p = g.cmd.p => f = g

Outstanding(q) ==
  \A cmd \in Held(q) : /\ QueueOf(cmd.p) = q /\ cmd.op = OpOf(cmd.p)
                       /\ cmd.p \in Awaited /\ cmd.p \notin executed \cup ready

Window(q) ==
  {i \in 0 .. Turn(q) - 1 : Dist(cqi[q], i, Turn(q)) < Dist(cqi[q], post[q], Turn(q))}
Phases(q) ==
  /\ Dist(cqi[q], post[q], Turn(q)) <= Size[q]
  /\ \A i \in 0 .. Turn(q) - 1 : Dist(cqi[q], i, Turn(q)) < Size[q] =>
       (cq[q][Slot(q, i)].phase = PhaseAt(i, q) <=> i \in Window(q))

Posts(q) == IF q = Io THEN Window(q) ELSE 0 .. post[q] - 1
Id(q, i) == cq[q][Slot(q, i)].id
Handed(q) == IF q = Io THEN step = "remove" ELSE step = "look" /\ at # 1
Due(q) == {i \in Window(q) : Handed(q) => i # cqi[q]}

Numbers(q) ==
  LET c == completions[q] IN
  /\ \A m, n \in DOMAIN c : c[m].id = c[n].id => m = n
  /\ \A cmd \in Held(q) : \E n \in DOMAIN c : c[n].id = cmd.id /\ c[n].p = cmd.p
  /\ \A i \in Posts(q) : \E n \in DOMAIN c : c[n].id = Id(q, i)
  /\ \A i, j \in Posts(q) : Id(q, i) = Id(q, j) => i = j
  /\ \A i \in Posts(q) : \A cmd \in Held(q) : Id(q, i) # cmd.id

Kept(q, n) == q = Io /\ step = "remove" => n # at
Owed(q) ==
  LET c == completions[q] IN
  /\ \A i \in Due(q) : \A n \in DOMAIN c : c[n].id = Id(q, i) =>
       c[n].p \in (Awaited \cap executed) \ ready
  /\ \A m, n \in DOMAIN c : c[m].p = c[n].p /\ Kept(q, m) /\ Kept(q, n) => m = n

\* Of the disk's queue.
Turning ==
  LET c == completions[Io] IN
  /\ Len(c) = Count(Io) + Dist(cqi[Io], post[Io], Turn(Io))
  /\ \A n \in DOMAIN c : c[n].p[1] \in Readers
  /\ \A n \in DOMAIN c : (\E cmd \in Held(Io) : cmd.id = c[n].id)
                         \/ (\E i \in Window(Io) : Id(Io, i) = c[n].id)
  /\ \A cmd \in Held(Io) :
       Dist(cmd.id, sqi[Io], Turn(Io)) \in 1 .. Overtaken[Io] + Count(Io)
  /\ \A i \in Window(Io) :
       Dist(Id(Io, i), sqi[Io], Turn(Io))
         \in 1 .. Overtaken[Io] + Count(Io) + Dist(i, post[Io], Turn(Io))

SentBy(c) ==
  IF c = Device THEN CASE pc[c] = 1 -> 0 [] pc[c] = 2 -> 1 [] OTHER -> 2
                ELSE CASE pc[c] = 1 -> 0 [] pc[c] \in {2, 3} -> 1
                       [] pc[c] \in {4, 5} -> 2 [] OTHER -> 3

\* Of the admin queue.
Starting ==
  LET c == completions[Admin] IN
  /\ Len(c) = sqi[Admin] /\ sqi[Admin] <= SentBy(Device) + SentBy(Disk)
  /\ Len(c) = Count(Admin) + post[Admin] /\ cqi[Admin] <= post[Admin]
  /\ \A n \in DOMAIN c : c[n].id = n - 1 /\ c[n].p[1] \in {Device, Disk} /\ c[n].p[2] <= SentBy(c[n].p[1])

Handler ==
  /\ step = "remove" =>
       /\ handlers # <<>> /\ Head(handlers) = Io /\ cqi[Io] # post[Io]
       /\ at \in DOMAIN completions[Io] /\ completions[Io][at].id = Id(Io, cqi[Io])
  /\ step = "look" /\ at # 1 =>
       /\ handlers # <<>> /\ Head(handlers) = Admin /\ cqi[Admin] # post[Admin]
       /\ at = Id(Admin, cqi[Admin]) + 2

Scripts ==
  /\ todo[Device] = CASE pc[Device] \in {1, 6} -> <<>>
                      [] pc[Device] = 3 -> << <<Device, 2>>, <<Device, 1>> >>
                      [] OTHER -> << <<Device, 1>> >>
  /\ todo[Disk] = CASE pc[Disk] = 2 -> << <<Disk, 1>> >>
                    [] pc[Disk] = 4 -> << <<Disk, 2>> >>
                    [] pc[Disk] = 6 -> << <<Disk, 3>> >>
                    [] OTHER -> <<>>
  /\ pc[Device] \in 1 .. 6 /\ pc[Disk] \in 1 .. 8
  /\ pc[Disk] \in 5 .. 7 \/ <<Disk, 2>> \in executed \cup ready => "cq" \in created
  /\ pc[Disk] = 7 \/ <<Disk, 3>> \in executed \cup ready => Io \in created
  /\ \A c \in Readers : pc[c] > 0 => Io \in created /\ pc[Disk] = 8

OfReaders == {p \in Promises : p[1] \in Readers /\ ToAwait(p)}

Reads(c, m) ==
  /\ m + Len(todo[c]) <= Blocks[c] /\ (pc[c] # 2 => m = 0)
  /\ \A i \in DOMAIN todo[c] : todo[c][i] = <<c, m + i>>
  /\ pc[c] = 0 => todo[c] = <<>>

Promising ==
  /\ \A c \in Readers : pc[c] \in 0 .. 2 /\ \E m \in 0 .. Blocks[c] : Reads(c, m)
  /\ executed \subseteq Awaited
  /\ ready \cap Awaited \subseteq executed
  /\ \A p \in ready : IF p[1] \in Readers THEN p \in Awaited ELSE p[2] <= SentBy(p[1])
  /\ Cardinality(OfReaders) < Size[Io]

NvmeInv ==
  /\ Types
  /\ \A q \in Queues : Sending(q) /\ Outstanding(q) /\ Phases(q) /\ Numbers(q) /\ Owed(q)
  /\ Apart /\ Turning /\ Starting /\ Handler /\ Scripts /\ Promising

-----------------------------------------------------------------------------
(* Circles.                                                                *)

Up(i, m) == IF i + 1 = m THEN 0 ELSE i + 1

LEMMA Circle ==
  ASSUME NEW m \in Nat, m > 0, NEW a \in 0 .. m - 1, NEW b \in 0 .. m - 1
  PROVE  /\ (b - a) % m = Dist(a, b, m)
         /\ (a + 1) % m = Up(a, m)
         /\ Dist(a, b, m) \in 0 .. m - 1
BY DEF Dist, Up

LEMMA Sizes ==
  ASSUME NEW q \in Queues
  PROVE  /\ Size[q] \in Nat /\ Size[q] > 0 /\ Turn(q) = 2 * Size[q]
         /\ Overtaken[q] \in Nat /\ Overtaken[q] + Size[q] < 2 * Size[q]
         /\ Admin \in Queues /\ Io \in Queues /\ Admin # Io
         /\ q = Admin => Size[q] > 5
BY RoomAssumption DEF Turn, Queues, Admin, Io

LEMMA SlotOf ==
  ASSUME NEW q \in Queues, NEW i \in 0 .. Turn(q) - 1
  PROVE  /\ i % Size[q] = Slot(q, i) /\ Slot(q, i) \in 0 .. Size[q] - 1
         /\ NextIndex(i, q) = Up(i, Turn(q)) /\ Up(i, Turn(q)) \in 0 .. Turn(q) - 1
         /\ Slot(q, Up(i, Turn(q))) = Up(Slot(q, i), Size[q])
         /\ PhaseAt(i, q) \in {0, 1}
<1> DEFINE s == Size[q]
<1>1. s \in Nat /\ s > 0 /\ Turn(q) = 2 * s BY Sizes
<1>2. i \in 0 .. 2 * s - 1 BY <1>1
<1>3. Slot(q, i) = IF i < s THEN i ELSE i - s BY DEF Slot
<1>4. Slot(q, Up(i, Turn(q))) = IF Up(i, Turn(q)) < s THEN Up(i, Turn(q)) ELSE Up(i, Turn(q)) - s
  BY DEF Slot
<1>5. NextIndex(i, q) = (i + 1) % (2 * s) BY DEF NextIndex
<1>6. PhaseAt(i, q) \in {0, 1} BY DEF PhaseAt
<1> HIDE DEF s
<1>7. i % s = IF i < s THEN i ELSE i - s
  <2>1. CASE i < s BY <1>1, <1>2, <2>1
  <2>2. CASE ~(i < s)
    <3>1. i - s \in 0 .. s - 1 BY <1>1, <1>2, <2>2
    <3> DEFINE r == i - s
    <3>2. i = r + s BY <1>1, <1>2
    <3> HIDE DEF r
    <3>3. (r + s) % s = r BY <1>1, <3>1 DEF r
    <3> QED BY <2>2, <3>2, <3>3, <1>1, <1>2 DEF r
  <2> QED BY <2>1, <2>2
<1>8. (i + 1) % (2 * s) = Up(i, 2 * s) BY <1>1, <1>2, Circle
<1>9. Up(i, 2 * s) \in 0 .. 2 * s - 1 BY <1>1, <1>2 DEF Up
<1>10. (IF Up(i, 2 * s) < s THEN Up(i, 2 * s) ELSE Up(i, 2 * s) - s)
        = Up(IF i < s THEN i ELSE i - s, s)
  BY <1>1, <1>2 DEF Up
<1> QED BY <1>1, <1>2, <1>3, <1>4, <1>5, <1>6, <1>7, <1>8, <1>9, <1>10 DEF s

\* Within a round, slots are different.
LEMMA SlotsDiffer ==
  ASSUME NEW q \in Queues, NEW a \in 0 .. Turn(q) - 1,
         NEW i \in 0 .. Turn(q) - 1, NEW j \in 0 .. Turn(q) - 1,
         Dist(a, i, Turn(q)) < Size[q], Dist(a, j, Turn(q)) < Size[q],
         Slot(q, i) = Slot(q, j)
  PROVE  i = j
BY Sizes DEF Dist, Slot

\* The window is what the doorbell has told the controller of.
LEMMA LiveIsHeld ==
  ASSUME Types, NEW q \in Queues, Sending(q)
  PROVE  Live(q) = Held(q)
<1> DEFINE s == Size[q]  h == head[q]  t == tail[q]
           W == {(h + k) % s : k \in 0 .. ((t - h) % s) - 1}
<1>1. s \in Nat /\ s > 0 /\ h \in 0 .. s - 1 /\ t \in 0 .. s - 1 BY Sizes DEF Types
<1>2. (t - h) % s = Dist(h, t, s) /\ Dist(h, t, s) \in 0 .. s - 1 BY <1>1, Circle
<1>3. \A k \in 0 .. s - 1 : (h + k) % s = IF h + k < s THEN h + k ELSE h + k - s
  <2> SUFFICES ASSUME NEW k \in 0 .. s - 1
               PROVE (h + k) % s = IF h + k < s THEN h + k ELSE h + k - s
    OBVIOUS
  <2> HIDE DEF s, h
  <2>1. CASE h + k < s BY <1>1, <2>1
  <2>2. CASE ~(h + k < s)
    <3> DEFINE r == h + k - s
    <3>1. r \in 0 .. s - 1 /\ h + k = r + s BY <1>1, <2>2
    <3> HIDE DEF r
    <3>2. (r + s) % s = r BY <1>1, <3>1
    <3>3. (h + k) % s = r BY <3>1, <3>2
    <3> QED BY <2>2, <3>3 DEF r
  <2> QED BY <2>1, <2>2
<1>4. Full(q) = {i \in 0 .. s - 1 : Dist(h, i, s) < Dist(h, t, s)} BY DEF Full, Sending
<1>5. W = Full(q)
  <2>1. ASSUME NEW k \in 0 .. Dist(h, t, s) - 1 PROVE (h + k) % s \in Full(q)
    <3>1. k \in 0 .. s - 1 BY <1>1, <1>2
    <3>2. (h + k) % s = IF h + k < s THEN h + k ELSE h + k - s BY <1>3, <3>1
    <3> DEFINE x == (h + k) % s
    <3>3. x = (IF h + k < s THEN h + k ELSE h + k - s) BY <3>2
    <3> HIDE DEF x, s, h, t
    <3>4. x \in 0 .. s - 1 /\ Dist(h, x, s) = k BY <1>1, <3>1, <3>3 DEF Dist
    <3>5. Dist(h, x, s) < Dist(h, t, s) BY <3>4, <1>2
    <3>6. x \in Full(q) BY <1>4, <3>4, <3>5
    <3> QED BY <3>6 DEF x
  <2>2. ASSUME NEW i \in Full(q) PROVE \E k \in 0 .. Dist(h, t, s) - 1 : i = (h + k) % s
    <3> DEFINE k == Dist(h, i, s)
    <3>1. i \in 0 .. s - 1 /\ k < Dist(h, t, s) BY <1>4, <2>2
    <3>2. k \in 0 .. s - 1 BY <1>1, <3>1, Circle
    <3>3. k = (IF h <= i THEN i - h ELSE i - h + s) BY DEF Dist
    <3> HIDE DEF k
    <3>4. k \in 0 .. Dist(h, t, s) - 1 BY <1>2, <3>1, <3>2
    <3>5. (h + k) % s = IF h + k < s THEN h + k ELSE h + k - s BY <1>3, <3>2
    <3> HIDE DEF s, h, t
    <3>6. (IF h + k < s THEN h + k ELSE h + k - s) = i BY <1>1, <3>1, <3>3
    <3> QED BY <3>4, <3>5, <3>6
  <2>3. \A i \in W : i \in Full(q) BY <2>1, <1>2
  <2>4. \A i \in Full(q) : i \in W BY <2>2, <1>2
  <2> QED BY <2>3, <2>4
<1>6. Live(q) = {sq[q][i] : i \in W} \cup {f.cmd : f \in {g \in fetched : g.q = q}}
  BY DEF Live
<1> QED BY <1>5, <1>6 DEF Held, Fetched

-----------------------------------------------------------------------------
(* What is before the controller.                                          *)

\* Of a queue that an action leaves alone.
LEMMA QueueKept ==
  ASSUME NEW q \in Queues, sq'[q] = sq[q], head'[q] = head[q], tail'[q] = tail[q],
         Fetched(q)' = Fetched(q)
  PROVE  /\ Full(q)' = Full(q) /\ Held(q)' = Held(q) /\ Count(q)' = Count(q)
         /\ sqi'[q] = sqi[q] /\ Sending(q) => Sending(q)'
<1>1. Full(q)' = Full(q) BY DEF Full
<1>2. Held(q)' = Held(q) BY <1>1 DEF Held
<1>3. Count(q)' = Count(q) BY DEF Count
<1>4. sqi'[q] = sqi[q] /\ Sending(q) => Sending(q)' BY DEF Sending
<1> QED BY <1>1, <1>2, <1>3, <1>4

LEMMA CountType ==
  ASSUME Types, NEW q \in Queues
  PROVE  /\ Count(q) \in Nat /\ IsFiniteSet(Fetched(q)) /\ Cardinality(Fetched(q)) \in Nat
         /\ Dist(head[q], tail[q], Size[q]) \in Nat
<1>1. IsFiniteSet(Fetched(q))
  <2>1. Fetched(q) \in SUBSET fetched BY DEF Fetched
  <2> QED BY <2>1, FS_Subset DEF Types
<1>2. Cardinality(Fetched(q)) \in Nat BY <1>1, FS_CardinalityType
<1>3. Dist(head[q], tail[q], Size[q]) \in Nat
  <2>1. /\ head[q] \in 0 .. Size[q] - 1 /\ tail[q] \in 0 .. Size[q] - 1
        /\ Size[q] \in Nat /\ Size[q] > 0
    BY Sizes DEF Types
  <2>2. Dist(head[q], tail[q], Size[q]) \in 0 .. Size[q] - 1 BY <2>1, Circle
  <2> QED BY <2>2
<1> QED BY <1>1, <1>2, <1>3 DEF Count

LEMMA HeldTyped ==
  ASSUME Types, NEW q \in Queues, NEW cmd \in Held(q)
  PROVE  cmd \in Records(q)
<1>1. CASE \E i \in Full(q) : cmd = sq[q][i]
  <2>1. PICK i \in Full(q) : cmd = sq[q][i] BY <1>1
  <2>2. i \in 0 .. Size[q] - 1 /\ sq[q] \in [0 .. Size[q] - 1 -> Records(q)] BY DEF Full, Types
  <2> QED BY <2>1, <2>2
<1>2. CASE \E f \in Fetched(q) : cmd = f.cmd BY <1>2 DEF Fetched, Types
<1> QED BY <1>1, <1>2 DEF Held

\* A command and an entry of completions.
Cmd(i, p, op) == [id |-> i, p |-> p, op |-> op]
Entry(i, p) == [id |-> i, p |-> p]

LEMMA Fields ==
  ASSUME NEW i, NEW p, NEW op
  PROVE  /\ Cmd(i, p, op).id = i /\ Cmd(i, p, op).p = p /\ Cmd(i, p, op).op = op
         /\ Entry(i, p).id = i /\ Entry(i, p).p = p
BY DEF Cmd, Entry

\* What RunCommand does to the variables of its queue.
LEMMA Sent ==
  ASSUME Types, NEW q \in Queues, NEW op, NEW p, RunCommand(q, op, p), q \in created
  PROVE  /\ sq'[q] = [sq[q] EXCEPT ![Slot(q, sqi[q])] = Cmd(sqi[q], p, op)]
         /\ sqi'[q] = Up(sqi[q], Turn(q)) /\ tail'[q] = Slot(q, sqi'[q])
         /\ completions'[q] = Append(completions[q], Entry(sqi[q], p))
         /\ \A r \in Queues \ {q} : /\ sq'[r] = sq[r] /\ sqi'[r] = sqi[r] /\ tail'[r] = tail[r]
                                    /\ completions'[r] = completions[r]
         /\ DOMAIN sq' = Queues /\ DOMAIN sqi' = Queues /\ DOMAIN tail' = Queues
         /\ DOMAIN completions' = Queues
         /\ sqi[q] \in 0 .. Turn(q) - 1 /\ sqi'[q] \in 0 .. Turn(q) - 1
<1>1. sqi[q] \in 0 .. Turn(q) - 1 BY DEF Types
<1>2. /\ sqi[q] % Size[q] = Slot(q, sqi[q]) /\ NextIndex(sqi[q], q) = Up(sqi[q], Turn(q))
      /\ Up(sqi[q], Turn(q)) \in 0 .. Turn(q) - 1
  BY <1>1, SlotOf
<1>3. sqi' = [sqi EXCEPT ![q] = Up(sqi[q], Turn(q))] BY <1>2 DEF RunCommand, Cmd, Entry
<1>4. sqi'[q] = Up(sqi[q], Turn(q)) BY <1>3 DEF Types
<1>5. sqi'[q] % Size[q] = Slot(q, sqi'[q]) BY <1>2, <1>4, SlotOf
<1>6. tail' = [tail EXCEPT ![q] = Slot(q, sqi'[q])] BY <1>5 DEF RunCommand, Cmd, Entry, Doorbell
<1>7. sq' = [sq EXCEPT ![q] = [sq[q] EXCEPT ![Slot(q, sqi[q])] = Cmd(sqi[q], p, op)]]
  BY <1>2 DEF RunCommand, Cmd, Entry
<1>8. completions' = [completions EXCEPT ![q] = Append(completions[q], Entry(sqi[q], p))]
  BY DEF RunCommand, Cmd, Entry
<1>9. sq'[q] = [sq[q] EXCEPT ![Slot(q, sqi[q])] = Cmd(sqi[q], p, op)]
  BY <1>7 DEF Types
<1> QED BY <1>1, <1>2, <1>3, <1>4, <1>6, <1>7, <1>8, <1>9 DEF Types

LEMMA SentIsHeld ==
  ASSUME Types, NEW q \in Queues, NEW op \in Ops \ {"none"}, NEW p \in Promises, RunCommand(q, op, p),
         q \in created, UNCHANGED <<head, fetched>>, \A r \in Queues : Sending(r),
         Count(q) < Size[q] - 1
  PROVE  /\ \A r \in Queues : Sending(r)'
         /\ Held(q)' = Held(q) \cup {Cmd(sqi[q], p, op)}
         /\ Full(q)' = Full(q) \cup {Slot(q, sqi[q])} /\ Slot(q, sqi[q]) \notin Full(q)
         /\ Count(q)' = Count(q) + 1
         /\ \A r \in Queues \ {q} : /\ Full(r)' = Full(r) /\ Held(r)' = Held(r)
                                    /\ Count(r)' = Count(r)
<1> DEFINE s == Size[q]  h == head[q]  t == tail[q]  u == tail'[q]
           x == Cmd(sqi[q], p, op)
<1>1. /\ s \in Nat /\ s > 0 /\ h \in 0 .. s - 1 /\ t \in 0 .. s - 1 /\ h = head'[q]
  BY Sizes DEF Types
<1>2. t = Slot(q, sqi[q]) BY DEF Sending
<1>3. u = Up(t, s) /\ u = Slot(q, sqi'[q])
  <2>1. /\ sqi[q] \in 0 .. Turn(q) - 1 /\ sqi'[q] = Up(sqi[q], Turn(q))
        /\ tail'[q] = Slot(q, sqi'[q])
    BY Sent
  <2>2. Slot(q, Up(sqi[q], Turn(q))) = Up(Slot(q, sqi[q]), Size[q]) BY <2>1, SlotOf
  <2> QED BY <1>2, <2>1, <2>2
<1>5. x.op = op BY Fields
<1>6. \A i \in 0 .. s - 1 : sq'[q][i] = IF i = t THEN x ELSE sq[q][i]
  <2>1. sq'[q] = [sq[q] EXCEPT ![Slot(q, sqi[q])] = Cmd(sqi[q], p, op)] BY Sent
  <2>2. DOMAIN sq[q] = 0 .. s - 1 BY DEF Types
  <2> QED BY <1>2, <2>1, <2>2
<1> HIDE DEF x
<1>7. \A i \in 0 .. s - 1 : sq[q][i].op # "none" <=> Dist(h, i, s) < Dist(h, t, s) BY DEF Sending
<1>8. Dist(h, t, s) < s - 1
  <2>1. Dist(h, t, s) \in Nat /\ Cardinality(Fetched(q)) \in Nat BY CountType
  <2>2. Count(q) = Dist(h, t, s) + Cardinality(Fetched(q)) BY DEF Count
  <2> QED BY <2>1, <2>2, <1>1
<1> HIDE DEF s, h, t, u
<1>9. Dist(h, u, s) = Dist(h, t, s) + 1 BY <1>1, <1>3, <1>8 DEF Dist, Up
<1>10. \A i \in 0 .. s - 1 : Dist(h, i, s) < Dist(h, u, s) <=> i = t \/ Dist(h, i, s) < Dist(h, t, s)
  BY <1>1, <1>9 DEF Dist
<1>11. \A i \in 0 .. s - 1 : sq'[q][i].op # "none" <=> Dist(h, i, s) < Dist(h, u, s)
  BY <1>5, <1>6, <1>7, <1>10
<1>12. Sending(q)' BY <1>1, <1>3, <1>11 DEF Sending, s, h, u
<1>13. ~(Dist(h, t, s) < Dist(h, t, s)) BY <1>1 DEF Dist
<1>14. t \notin Full(q) BY <1>1, <1>7, <1>13 DEF Full, s, t
<1>15. Full(q)' = Full(q) \cup {t}
  BY <1>1, <1>5, <1>6 DEF Full, s
<1>16. \A i \in Full(q) : sq'[q][i] = sq[q][i] BY <1>6, <1>14 DEF Full, s
<1>17. sq'[q][t] = x BY <1>1, <1>6
<1>18. {sq'[q][i] : i \in Full(q)'} = {sq[q][i] : i \in Full(q)} \cup {x} BY <1>15, <1>16, <1>17
<1>19. Fetched(q)' = Fetched(q) BY DEF Fetched
<1>20. Held(q)' = Held(q) \cup {x} BY <1>18, <1>19 DEF Held
<1>21. Count(q)' = Count(q) + 1
  <2>1. Dist(h, t, s) \in Nat /\ Cardinality(Fetched(q)) \in Nat BY CountType DEF h, t, s
  <2>2. Count(q) = Dist(h, t, s) + Cardinality(Fetched(q)) BY DEF Count, h, t, s
  <2>3. Count(q)' = Dist(h, u, s) + Cardinality(Fetched(q)) BY <1>1, <1>19 DEF Count, h, u, s
  <2> QED BY <2>1, <2>2, <2>3, <1>9
<1>22. ASSUME NEW r \in Queues \ {q}
       PROVE /\ Full(r)' = Full(r) /\ Held(r)' = Held(r) /\ Count(r)' = Count(r) /\ Sending(r)'
  <2>1. /\ sq'[r] = sq[r] /\ sqi'[r] = sqi[r] /\ tail'[r] = tail[r] /\ head'[r] = head[r] BY Sent
  <2>2. Fetched(r)' = Fetched(r) BY DEF Fetched
  <2> QED BY <2>1, <2>2, QueueKept
<1> QED BY <1>2, <1>12, <1>14, <1>15, <1>20, <1>21, <1>22 DEF t, x

LEMMA SentIsApart ==
  ASSUME Types, NEW q \in Queues, NEW op \in Ops \ {"none"}, NEW p \in Promises, RunCommand(q, op, p),
         q \in created, UNCHANGED <<head, fetched>>, \A r \in Queues : Sending(r),
         Count(q) < Size[q] - 1, Apart, \A r \in Queues : \A cmd \in Held(r) : cmd.p # p
  PROVE  Apart'
<1> DEFINE t == Slot(q, sqi[q])
<1>1. Full(q)' = Full(q) \cup {t} /\ t \notin Full(q) BY SentIsHeld
<1>2. \A r \in Queues \ {q} : Full(r)' = Full(r) /\ sq'[r] = sq[r]
  <2>1. \A r \in Queues \ {q} : Full(r)' = Full(r) BY SentIsHeld
  <2>2. \A r \in Queues \ {q} : sq'[r] = sq[r] BY Sent
  <2> QED BY <2>1, <2>2
<1>3. sq'[q] = [sq[q] EXCEPT ![t] = Cmd(sqi[q], p, op)] BY Sent
<1>4. DOMAIN sq[q] = 0 .. Size[q] - 1 BY DEF Types
<1>5. t \in 0 .. Size[q] - 1
  <2>1. sqi[q] \in 0 .. Turn(q) - 1 BY DEF Types
  <2> QED BY <2>1, SlotOf
<1>6. sq'[q][t].p = p
  <2>1. sq'[q][t] = Cmd(sqi[q], p, op) BY <1>3, <1>4, <1>5
  <2> QED BY <2>1, Fields
<1>7. \A i \in Full(q) : sq'[q][i] = sq[q][i] BY <1>1, <1>3, <1>4 DEF Full
<1> HIDE DEF t
<1>8. \A r \in Queues : \A i \in Full(r) : sq[r][i].p # p BY DEF Held
<1>9. \A f \in fetched : f.cmd.p # p
  <2> SUFFICES ASSUME NEW f \in fetched PROVE f.cmd.p # p OBVIOUS
  <2>1. f.q \in Queues /\ f.cmd \in Held(f.q) BY DEF Types, Held, Fetched
  <2> QED BY <2>1
<1>10. \A r \in Queues : \A i \in Full(r)' :
         (i \in Full(r) /\ sq'[r][i] = sq[r][i]) \/ (r = q /\ i = t)
  BY <1>1, <1>2, <1>7
<1>11. ASSUME NEW r \in Queues, NEW i \in Full(r)', NEW j \in Full(r)', sq'[r][i].p = sq'[r][j].p
       PROVE i = j
  <2>1. CASE i \in Full(r) /\ sq'[r][i] = sq[r][i] /\ j \in Full(r) /\ sq'[r][j] = sq[r][j]
    BY <1>11, <2>1 DEF Apart
  <2>2. CASE r = q /\ i = t /\ j \in Full(r) /\ sq'[r][j] = sq[r][j] BY <1>6, <1>8, <1>11, <2>2
  <2>3. CASE r = q /\ j = t /\ i \in Full(r) /\ sq'[r][i] = sq[r][i] BY <1>6, <1>8, <1>11, <2>3
  <2>4. CASE i = t /\ j = t BY <2>4
  <2> QED BY <2>1, <2>2, <2>3, <2>4, <1>10
<1>12. ASSUME NEW r \in Queues, NEW i \in Full(r)', NEW f \in fetched' PROVE f.cmd.p # sq'[r][i].p
  <2>1. f \in fetched OBVIOUS
  <2>2. CASE i \in Full(r) /\ sq'[r][i] = sq[r][i] BY <2>1, <2>2 DEF Apart
  <2>3. CASE r = q /\ i = t BY <1>6, <1>9, <2>1, <2>3
  <2> QED BY <2>2, <2>3, <1>10
<1>13. \A f, g \in fetched' : f.cmd.p = g.cmd.p => f = g BY DEF Apart
<1> QED BY <1>11, <1>12, <1>13 DEF Apart

LEMMA FetchedIsHeld ==
  ASSUME Types, NEW q \in Queues, \A r \in Queues : Sending(r) /\ Outstanding(r), Apart, Fetch(q)
  PROVE  /\ \A r \in Queues : Sending(r)' /\ Held(r)' = Held(r) /\ Count(r)' = Count(r)
         /\ Apart'
         /\ IsFiniteSet(fetched')
         /\ \E x : /\ fetched' = fetched \cup {x} /\ x.q = q /\ x.cmd \in Held(q)
                   /\ x = [q |-> x.q, cmd |-> x.cmd]
<1> DEFINE s == Size[q]  h == head[q]  t == tail[q]  u == head'[q]
           x == [q |-> q, cmd |-> sq[q][h]]
<1>1. /\ s \in Nat /\ s > 0 /\ h \in 0 .. s - 1 /\ t \in 0 .. s - 1 /\ t = tail'[q] /\ h # t
  BY Sizes DEF Types, Fetch
<1>2. u = Up(h, s)
  <2>1. (h + 1) % s = Up(h, s) BY <1>1, Circle
  <2>2. head'[q] = (h + 1) % s BY DEF Types, Fetch
  <2> QED BY <2>1, <2>2
<1>3. DOMAIN sq[q] = 0 .. s - 1 /\ DOMAIN sq = Queues /\ DOMAIN head = Queues BY DEF Types
<1>4. sq' = [sq EXCEPT ![q][h] = NoCommand] BY DEF Fetch
<1>5. /\ \A i \in 0 .. s - 1 : i # h => sq'[q][i] = sq[q][i]
      /\ sq'[q][h] = NoCommand
  BY <1>1, <1>3, <1>4
<1>6. NoCommand.op = "none" BY DEF NoCommand
<1>7. \A i \in 0 .. s - 1 : sq[q][i].op # "none" <=> Dist(h, i, s) < Dist(h, t, s) BY DEF Sending
<1>8. x.q = q /\ x.cmd = sq[q][h] /\ x = [q |-> x.q, cmd |-> x.cmd] OBVIOUS
<1>9. fetched' = fetched \cup {x} BY DEF Fetch
<1> HIDE DEF x, s, h, t, u
<1>10. Dist(u, t, s) = Dist(h, t, s) - 1 /\ Dist(h, h, s) < Dist(h, t, s)
  BY <1>1, <1>2 DEF Dist, Up
<1>11. \A i \in 0 .. s - 1 : Dist(u, i, s) < Dist(u, t, s) <=> i # h /\ Dist(h, i, s) < Dist(h, t, s)
  BY <1>1, <1>2 DEF Dist, Up
<1>12. \A i \in 0 .. s - 1 : sq'[q][i].op # "none" <=> Dist(u, i, s) < Dist(u, t, s)
  BY <1>5, <1>6, <1>7, <1>11
<1>13. Sending(q)'
  <2>1. tail'[q] = Slot(q, sqi'[q])
    <3>1. UNCHANGED <<tail, sqi>> BY DEF Fetch
    <3> QED BY <3>1 DEF Sending
  <2> QED BY <2>1, <1>1, <1>12 DEF Sending, s, u
<1>14. h \in Full(q) BY <1>1, <1>7, <1>10 DEF Full, s
<1>15. Full(q)' = Full(q) \ {h} BY <1>1, <1>5, <1>6 DEF Full, s
<1>16. \A i \in Full(q) \ {h} : sq'[q][i] = sq[q][i] BY <1>5 DEF Full, s
<1>17. {sq'[q][i] : i \in Full(q)'} \cup {x.cmd} = {sq[q][i] : i \in Full(q)}
  BY <1>8, <1>14, <1>15, <1>16
<1>18. Fetched(q)' = Fetched(q) \cup {x} BY <1>8, <1>9 DEF Fetched
<1>19. Held(q)' = Held(q) BY <1>17, <1>18 DEF Held
<1>20. \A f \in fetched : f.cmd.p # x.cmd.p BY <1>8, <1>14 DEF Apart
<1>21. Count(q)' = Count(q)
  <2>1. x \notin Fetched(q) BY <1>20 DEF Fetched
  <2>2. IsFiniteSet(Fetched(q)) /\ Cardinality(Fetched(q)) \in Nat /\ Dist(h, t, s) \in Nat
    BY CountType DEF h, t, s
  <2>3. Cardinality(Fetched(q)') = Cardinality(Fetched(q)) + 1 BY <1>18, <2>1, <2>2, FS_AddElement
  <2>4. Count(q) = Dist(h, t, s) + Cardinality(Fetched(q)) BY DEF Count, h, t, s
  <2>5. Count(q)' = Dist(u, t, s) + Cardinality(Fetched(q)') BY <1>1 DEF Count, u, t, s
  <2> QED BY <2>2, <2>3, <2>4, <2>5, <1>10
<1>22. ASSUME NEW r \in Queues \ {q}
       PROVE /\ Full(r)' = Full(r) /\ Held(r)' = Held(r) /\ Count(r)' = Count(r) /\ Sending(r)'
             /\ sq'[r] = sq[r]
  <2>1. /\ sq'[r] = sq[r] /\ sqi'[r] = sqi[r] /\ tail'[r] = tail[r] /\ head'[r] = head[r]
    BY <1>3 DEF Fetch
  <2>2. Fetched(r)' = Fetched(r) BY <1>8, <1>9 DEF Fetched
  <2> QED BY <2>1, <2>2, QueueKept
<1>23. \A r \in Queues : \A i \in Full(r)' : i \in Full(r) /\ sq'[r][i] = sq[r][i] /\ ~(r = q /\ i = h)
  BY <1>15, <1>16, <1>22
<1>24. Apart'
  <2>1. \A r \in Queues : \A i, j \in Full(r)' : sq'[r][i].p = sq'[r][j].p => i = j
    BY <1>23 DEF Apart
  <2>2. ASSUME NEW r \in Queues, NEW i \in Full(r)', NEW f \in fetched' PROVE f.cmd.p # sq'[r][i].p
    <3>1. CASE f \in fetched BY <1>23, <3>1 DEF Apart
    <3>2. CASE f = x
      <4>1. x.cmd.p # sq[r][i].p
        <5>1. CASE r = q BY <5>1, <1>8, <1>14, <1>23 DEF Apart
        <5>2. CASE r # q
          <6>1. x.cmd \in Held(q) /\ sq[r][i] \in Held(r) BY <1>8, <1>14, <1>23 DEF Held
          <6>2. QueueOf(x.cmd.p) = q /\ QueueOf(sq[r][i].p) = r BY <6>1 DEF Outstanding
          <6> QED BY <5>2, <6>2
        <5> QED BY <5>1, <5>2
      <4> QED BY <3>2, <4>1, <1>23
    <3> QED BY <3>1, <3>2, <1>9
  <2>3. \A f, g \in fetched' : f.cmd.p = g.cmd.p => f = g BY <1>9, <1>20 DEF Apart
  <2> QED BY <2>1, <2>2, <2>3 DEF Apart
<1>25. IsFiniteSet(fetched') BY <1>9, FS_AddElement DEF Types
<1>26. x.cmd \in Held(q) BY <1>8, <1>14 DEF Held
<1> QED BY <1>8, <1>9, <1>13, <1>19, <1>21, <1>22, <1>24, <1>25, <1>26

LEMMA ExecutedIsHeld ==
  ASSUME Types, NEW f \in fetched, \A r \in Queues : Sending(r), Apart, Execute(f)
  PROVE  /\ \A r \in Queues : Sending(r)'
         /\ f.q \in Queues /\ f.cmd \in Held(f.q)
         /\ Held(f.q)' = Held(f.q) \ {f.cmd} /\ Count(f.q)' = Count(f.q) - 1 /\ Count(f.q) > 0
         /\ \A cmd \in Held(f.q)' : cmd.p # f.cmd.p
         /\ \A r \in Queues \ {f.q} : Held(r)' = Held(r) /\ Count(r)' = Count(r)
         /\ Apart'
         /\ IsFiniteSet(fetched')
<1> DEFINE q == f.q
<1>1. q \in Queues BY DEF Types
<1>2. fetched' = fetched \ {f} /\ UNCHANGED <<sq, sqi, tail, head>> BY DEF Execute, queues
<1>3. \A r \in Queues : Full(r)' = Full(r) BY <1>2 DEF Full
<1>4. \A r \in Queues : Sending(r)' BY <1>2 DEF Sending
<1>5. Fetched(q)' = Fetched(q) \ {f} /\ f \in Fetched(q) BY <1>2 DEF Fetched
<1>6. \A r \in Queues \ {q} : Fetched(r)' = Fetched(r) BY <1>2 DEF Fetched
<1>7. \A r \in Queues \ {q} : Held(r)' = Held(r) /\ Count(r)' = Count(r)
  BY <1>2, <1>6, QueueKept
<1>8. f.cmd \in Held(q) BY <1>5 DEF Held
<1>9. Held(q)' = {sq[q][i] : i \in Full(q)} \cup {g.cmd : g \in Fetched(q) \ {f}}
  BY <1>1, <1>2, <1>3, <1>5 DEF Held
<1>10. \A i \in Full(q) : sq[q][i].p # f.cmd.p BY <1>1 DEF Apart
<1>11. \A g \in Fetched(q) \ {f} : g.cmd.p # f.cmd.p BY DEF Apart, Fetched
<1>12. \A cmd \in Held(q)' : cmd.p # f.cmd.p BY <1>9, <1>10, <1>11
<1>13. Held(q)' = Held(q) \ {f.cmd} BY <1>9, <1>5, <1>10, <1>11 DEF Held
<1>14. Count(q)' = Count(q) - 1 /\ Count(q) > 0
  <2>1. /\ IsFiniteSet(Fetched(q)) /\ Cardinality(Fetched(q)) \in Nat
        /\ Dist(head[q], tail[q], Size[q]) \in Nat
    BY <1>1, CountType
  <2>2. /\ IsFiniteSet(Fetched(q) \ {f})
        /\ Cardinality(Fetched(q) \ {f}) = Cardinality(Fetched(q)) - 1
    BY <1>5, <2>1, FS_RemoveElement
  <2>3. Cardinality(Fetched(q) \ {f}) \in Nat BY <2>2, FS_CardinalityType
  <2>4. Count(q) = Dist(head[q], tail[q], Size[q]) + Cardinality(Fetched(q)) BY DEF Count
  <2>5. Count(q)' = Dist(head[q], tail[q], Size[q]) + Cardinality(Fetched(q) \ {f})
    BY <1>2, <1>5 DEF Count
  <2> QED BY <2>1, <2>2, <2>3, <2>4, <2>5
<1>15. Apart'
  <2>1. \A r \in Queues : \A i, j \in Full(r)' : sq'[r][i].p = sq'[r][j].p => i = j
    BY <1>2, <1>3 DEF Apart
  <2>2. \A r \in Queues : \A i \in Full(r)' : \A g \in fetched' : g.cmd.p # sq'[r][i].p
    BY <1>2, <1>3 DEF Apart
  <2>3. \A g, k \in fetched' : g.cmd.p = k.cmd.p => g = k BY <1>2 DEF Apart
  <2> QED BY <2>1, <2>2, <2>3 DEF Apart
<1>16. IsFiniteSet(fetched') BY <1>2, FS_RemoveElement DEF Types
<1> QED BY <1>1, <1>4, <1>7, <1>8, <1>12, <1>13, <1>14, <1>15, <1>16

-----------------------------------------------------------------------------
(* What is awaited.                                                        *)

LEMMA PromiseParts ==
  ASSUME NEW p \in Promises
  PROVE  /\ p[1] \in Tasks /\ p = <<p[1], p[2]>>
         /\ IF p[1] \in Readers THEN p[2] \in 1 .. Blocks[p[1]]
                                ELSE p[1] \in {Device, Disk} /\ p[2] \in 1 .. 3
<1>1. {Device, Disk} \cap Readers = {} BY RoomAssumption
<1>2. CASE \E c \in Readers : p \in {c} \X (1 .. Blocks[c]) BY <1>2 DEF Tasks
<1>3. CASE p \in {Device, Disk} \X (1 .. 3) BY <1>1, <1>3 DEF Tasks
<1>4. \/ \E c \in Readers : p \in {c} \X (1 .. Blocks[c])
      \/ p \in {Device, Disk} \X (1 .. 3)
  <2> DEFINE S == {{c} \X (1 .. Blocks[c]) : c \in Readers}
             T == {Device, Disk} \X (1 .. 3)
  <2>1. p \in UNION S \/ p \in T
    <3>1. Promises = (UNION S) \cup T BY DEF Promises
    <3> HIDE DEF S, T
    <3> QED BY <3>1
  <2>2. CASE p \in UNION S
    <3>1. PICK X \in S : p \in X BY <2>2
    <3> QED BY <3>1
  <2> QED BY <2>1, <2>2
<1> QED BY <1>2, <1>3, <1>4

LEMMA IsPromise ==
  /\ \A c \in Readers : \A k \in 1 .. Blocks[c] : <<c, k>> \in Promises
  /\ \A k \in 1 .. 3 : <<Device, k>> \in Promises /\ <<Disk, k>> \in Promises
  /\ Device # Disk /\ Device \notin Readers /\ Disk \notin Readers
  /\ Device \in Tasks /\ Disk \in Tasks /\ Readers \subseteq Tasks
<1>1. Device # Disk /\ Device \notin Readers /\ Disk \notin Readers
  BY RoomAssumption DEF Device, Disk
<1>2. \A c \in Readers : \A k \in 1 .. Blocks[c] : <<c, k>> \in Promises
  <2> SUFFICES ASSUME NEW c \in Readers, NEW k \in 1 .. Blocks[c] PROVE <<c, k>> \in Promises OBVIOUS
  <2>1. <<c, k>> \in {c} \X (1 .. Blocks[c]) OBVIOUS
  <2> QED BY <2>1, Zenon DEF Promises
<1>3. \A k \in 1 .. 3 : <<Device, k>> \in Promises /\ <<Disk, k>> \in Promises
  <2> SUFFICES ASSUME NEW k \in 1 .. 3 PROVE <<Device, k>> \in Promises /\ <<Disk, k>> \in Promises
    OBVIOUS
  <2>1. <<Device, k>> \in {Device, Disk} \X (1 .. 3) /\ <<Disk, k>> \in {Device, Disk} \X (1 .. 3)
    OBVIOUS
  <2> DEFINE T == {Device, Disk} \X (1 .. 3)
  <2>2. T \subseteq Promises
    <3> DEFINE S == {{c} \X (1 .. Blocks[c]) : c \in Readers}
    <3>1. Promises = (UNION S) \cup T BY DEF Promises
    <3> HIDE DEF S, T
    <3> QED BY <3>1
  <2> QED BY <2>1, <2>2
<1> QED BY <1>1, <1>2, <1>3 DEF Tasks

LEMMA AwaitedIs ==
  ASSUME NEW p \in Promises
  PROVE  p \in Awaited <=> \E i \in DOMAIN todo[p[1]] : todo[p[1]][i] = p
BY DEF Awaited, ToAwait

\* A task awaits promises of its own, each of them once.
LEMMA OwnTodo ==
  ASSUME Types, Scripts, Promising, NEW c \in Tasks
  PROVE  /\ \A i \in DOMAIN todo[c] : todo[c][i] \in Promises /\ todo[c][i][1] = c
         /\ \A i, j \in DOMAIN todo[c] : todo[c][i] = todo[c][j] => i = j
         /\ todo[c] \in Seq(Promises)
<1>1. todo[c] \in Seq(Promises) BY DEF Types
<1>2. CASE c \in Readers
  <2>1. PICK m \in 0 .. Blocks[c] : Reads(c, m) BY <1>2 DEF Promising
  <2>2. \A i \in DOMAIN todo[c] : todo[c][i] = <<c, m + i>> BY <2>1 DEF Reads
  <2>3. m \in Int
    <3>1. Blocks[c] \in Nat BY <1>2, RoomAssumption
    <3> QED BY <3>1
  <2>4. \A i \in DOMAIN todo[c] : i \in Int BY <1>1
  <2>5. \A i, j \in DOMAIN todo[c] : todo[c][i] = todo[c][j] => i = j
    <3> SUFFICES ASSUME NEW i \in DOMAIN todo[c], NEW j \in DOMAIN todo[c], todo[c][i] = todo[c][j]
                 PROVE i = j
      OBVIOUS
    <3>1. <<c, m + i>> = <<c, m + j>> BY <2>2
    <3>2. m + i = m + j BY <3>1
    <3>3. i \in Int /\ j \in Int BY <2>4
    <3> HIDE <2>4
    <3> QED BY <2>3, <3>2, <3>3
  <2> QED BY <1>1, <2>2, <2>5
<1>3. CASE c \in {Device, Disk}
  <2>1. \/ todo[c] = <<>>
        \/ todo[c] = << <<Device, 2>>, <<Device, 1>> >> /\ c = Device
        \/ \E k \in 1 .. 3 : todo[c] = << <<c, k>> >>
    <3>1. CASE c = Device BY <3>1 DEF Scripts
    <3>2. CASE c = Disk
      <4>1. pc[Disk] \in 1 .. 8 BY DEF Scripts
      <4> QED BY <4>1, <3>2 DEF Scripts
    <3> QED BY <1>3, <3>1, <3>2
  <2>2. CASE todo[c] = <<>> BY <2>2
  <2>3. CASE todo[c] = << <<Device, 2>>, <<Device, 1>> >> /\ c = Device BY <2>3, <1>1
  <2>4. CASE \E k \in 1 .. 3 : todo[c] = << <<c, k>> >> BY <2>4, <1>1
  <2> QED BY <2>1, <2>2, <2>3, <2>4, <1>1
<1> QED BY <1>2, <1>3 DEF Tasks

LEMMA AwaitedMore ==
  ASSUME Types, NEW c \in Tasks, NEW p \in Promises, p[1] = c,
         \/ todo' = [todo EXCEPT ![c] = Append(todo[c], p)]
         \/ todo' = [todo EXCEPT ![c] = <<p>> \o todo[c]]
  PROVE  /\ Awaited' = Awaited \cup {p}
         /\ todo' \in [Tasks -> Seq(Promises)]
         /\ \A d \in Tasks \ {c} : todo'[d] = todo[d]
<1>1. todo \in [Tasks -> Seq(Promises)] BY DEF Types
<1>2. \A d \in Tasks \ {c} : todo'[d] = todo[d] BY <1>1
<1>3. \/ todo'[c] = Append(todo[c], p)
      \/ todo'[c] = <<p>> \o todo[c]
  BY <1>1
<1> DEFINE s == todo[c]  t == todo'[c]
<1>4. s \in Seq(Promises) BY <1>1
<1>5. t \in Seq(Promises)
      /\ \A x : (\E i \in DOMAIN t : t[i] = x) <=> (x = p \/ \E i \in DOMAIN s : s[i] = x)
  <2>1. t = Append(s, p) \/ t = <<p>> \o s BY <1>3
  <2> HIDE DEF s, t
  <2>2. CASE t = Append(s, p)
    <3>1. t \in Seq(Promises) /\ Len(t) = Len(s) + 1 /\ t[Len(s) + 1] = p
      BY <2>2, <1>4
    <3>2. \A i \in 1 .. Len(s) : t[i] = s[i] BY <2>2, <1>4
    <3>3. DOMAIN t = 1 .. Len(s) + 1 /\ DOMAIN s = 1 .. Len(s) /\ Len(s) \in Nat BY <3>1, <1>4
    <3> QED BY <3>1, <3>2, <3>3
  <2>3. CASE t = <<p>> \o s
    <3>1. t \in Seq(Promises) /\ Len(t) = Len(s) + 1 /\ t[1] = p
      BY <2>3, <1>4
    <3>2. \A i \in 1 .. Len(s) : t[i + 1] = s[i] BY <2>3, <1>4
    <3>3. DOMAIN t = 1 .. Len(s) + 1 /\ DOMAIN s = 1 .. Len(s) /\ Len(s) \in Nat BY <3>1, <1>4
    <3>4. \A i \in 2 .. Len(s) + 1 : t[i] = s[i - 1]
      <4> SUFFICES ASSUME NEW i \in 2 .. Len(s) + 1 PROVE t[i] = s[i - 1] OBVIOUS
      <4>1. i - 1 \in 1 .. Len(s) /\ (i - 1) + 1 = i BY <3>3
      <4> QED BY <3>2, <4>1
    <3>5. \A i \in 1 .. Len(s) : i + 1 \in 1 .. Len(s) + 1 BY <3>3
    <3>6. \A i \in 2 .. Len(s) + 1 : i - 1 \in 1 .. Len(s) BY <3>3
    <3>7. \A i \in DOMAIN t : i = 1 \/ i \in 2 .. Len(s) + 1 BY <3>3
    <3>8. ASSUME NEW x, NEW i \in DOMAIN t, t[i] = x PROVE x = p \/ \E j \in DOMAIN s : s[j] = x
      <4>1. CASE i = 1 BY <4>1, <3>1, <3>8
      <4>2. CASE i # 1
        <5>1. i - 1 \in DOMAIN s /\ t[i] = s[i - 1] BY <3>3, <3>4, <3>6, <3>7, <4>2
        <5> QED BY <5>1, <3>8
      <4> QED BY <4>1, <4>2
    <3>9. ASSUME NEW x, NEW j \in DOMAIN s, s[j] = x PROVE \E i \in DOMAIN t : t[i] = x
      <4>1. j + 1 \in DOMAIN t /\ t[j + 1] = s[j] BY <3>2, <3>3, <3>5
      <4> QED BY <4>1, <3>9
    <3>10. 1 \in DOMAIN t BY <3>3
    <3> QED BY <3>1, <3>8, <3>9, <3>10
  <2> QED BY <2>1, <2>2, <2>3
<1>6. \A x \in Promises : x \in Awaited' <=> x \in Awaited \/ x = p
  <2> SUFFICES ASSUME NEW x \in Promises PROVE x \in Awaited' <=> x \in Awaited \/ x = p OBVIOUS
  <2>1. x[1] \in Tasks BY PromiseParts
  <2>2. x \in Awaited' <=> \E i \in DOMAIN todo'[x[1]] : todo'[x[1]][i] = x BY DEF Awaited, ToAwait
  <2>3. x \in Awaited <=> \E i \in DOMAIN todo[x[1]] : todo[x[1]][i] = x BY DEF Awaited, ToAwait
  <2>4. CASE x[1] = c BY <2>2, <2>3, <2>4, <1>5
  <2>5. CASE x[1] # c BY <2>1, <2>2, <2>3, <2>5, <1>2
  <2> QED BY <2>4, <2>5
<1>7. Awaited' \subseteq Promises /\ Awaited \subseteq Promises BY DEF Awaited
<1>8. todo' \in [Tasks -> Seq(Promises)]
  <2>1. DOMAIN todo' = Tasks /\ todo' = [d \in Tasks |-> todo'[d]] BY <1>1
  <2> QED BY <2>1, <1>1, <1>2, <1>5
<1> QED BY <1>2, <1>6, <1>7, <1>8

LEMMA AwaitedLess ==
  ASSUME Types, Scripts, Promising, NEW c \in Tasks, todo[c] # <<>>,
         todo' = [todo EXCEPT ![c] = Tail(todo[c])], NEW p, p = Head(todo[c])
  PROVE  /\ Awaited' = Awaited \ {p} /\ p \in Awaited /\ p \in Promises /\ p[1] = c
         /\ todo' \in [Tasks -> Seq(Promises)]
         /\ \A d \in Tasks \ {c} : todo'[d] = todo[d]
<1>1. todo \in [Tasks -> Seq(Promises)] BY DEF Types
<1>2. \A d \in Tasks \ {c} : todo'[d] = todo[d] BY <1>1
<1> DEFINE s == todo[c]  t == todo'[c]
<1>3. s \in Seq(Promises) /\ t = Tail(s) /\ s # <<>> /\ p = Head(s) BY <1>1
<1>4. \A i, j \in DOMAIN s : s[i] = s[j] => i = j BY OwnTodo
<1>5. \A i \in DOMAIN s : s[i] \in Promises /\ s[i][1] = c BY OwnTodo
<1> HIDE DEF s, t
<1>6. /\ t \in Seq(Promises) /\ Len(s) \in Nat \ {0} /\ Len(t) = Len(s) - 1 /\ p = s[1]
      /\ DOMAIN s = 1 .. Len(s) /\ DOMAIN t = 1 .. Len(s) - 1
      /\ \A i \in 1 .. Len(t) : t[i] = s[i + 1]
  BY <1>3
<1>7. \A x : (\E i \in DOMAIN t : t[i] = x) <=> (x # p /\ \E i \in DOMAIN s : s[i] = x)
  <2> SUFFICES ASSUME NEW x
               PROVE (\E i \in DOMAIN t : t[i] = x) <=> (x # p /\ \E i \in DOMAIN s : s[i] = x)
    OBVIOUS
  <2>1. ASSUME NEW i \in DOMAIN t, t[i] = x PROVE x # p /\ \E j \in DOMAIN s : s[j] = x
    <3>1. i + 1 \in DOMAIN s /\ 1 \in DOMAIN s /\ i + 1 # 1 BY <1>6
    <3>2. s[i + 1] = x BY <1>6, <2>1
    <3> QED BY <3>1, <3>2, <1>4, <1>6
  <2>2. ASSUME NEW j \in DOMAIN s, s[j] = x, x # p PROVE \E i \in DOMAIN t : t[i] = x
    <3>1. j # 1 /\ j - 1 \in 1 .. Len(t) /\ (j - 1) + 1 = j BY <1>6, <2>2
    <3>2. t[j - 1] = x /\ j - 1 \in DOMAIN t BY <1>6, <2>2, <3>1
    <3> QED BY <3>2
  <2> QED BY <2>1, <2>2
<1>8. \A x \in Promises : x \in Awaited' <=> x \in Awaited /\ x # p
  <2> SUFFICES ASSUME NEW x \in Promises PROVE x \in Awaited' <=> x \in Awaited /\ x # p OBVIOUS
  <2>1. x[1] \in Tasks BY PromiseParts
  <2>2. x \in Awaited' <=> \E i \in DOMAIN todo'[x[1]] : todo'[x[1]][i] = x BY DEF Awaited, ToAwait
  <2>3. x \in Awaited <=> \E i \in DOMAIN todo[x[1]] : todo[x[1]][i] = x BY DEF Awaited, ToAwait
  <2>4. CASE x[1] = c
    <3>1. todo[x[1]] = s /\ todo'[x[1]] = t BY <2>4 DEF s, t
    <3> QED BY <2>2, <2>3, <3>1, <1>7
  <2>5. CASE x[1] # c
    <3>1. p[1] = c BY <1>5, <1>6
    <3> QED BY <2>1, <2>2, <2>3, <2>5, <1>2, <3>1
  <2> QED BY <2>4, <2>5
<1>9. p \in Promises /\ p[1] = c /\ 1 \in DOMAIN s BY <1>5, <1>6
<1>10. p \in Awaited BY <1>9, <1>6, AwaitedIs DEF s
<1>11. Awaited' \subseteq Promises /\ Awaited \subseteq Promises BY DEF Awaited
<1>12. todo' \in [Tasks -> Seq(Promises)]
  <2>1. DOMAIN todo' = Tasks /\ todo' = [d \in Tasks |-> todo'[d]] BY <1>1
  <2>2. todo'[c] \in Seq(Promises) BY <1>6 DEF t
  <2> QED BY <2>1, <2>2, <1>1, <1>2
<1> QED BY <1>2, <1>8, <1>9, <1>10, <1>11, <1>12

\* Finitely many promises are awaited.
LEMMA FinitePromises == IsFiniteSet({p \in Promises : p[1] \in Readers})
<1> DEFINE S == {{c} \X (1 .. Blocks[c]) : c \in Readers}
           f == [c \in Readers |-> {c} \X (1 .. Blocks[c])]
<1>1. f \in Surjection(Readers, S) BY Zenon DEF Surjection
<1>2. IsFiniteSet(S) BY <1>1, FS_Surjection, RoomAssumption
<1>3. \A T \in S : IsFiniteSet(T)
  <2> SUFFICES ASSUME NEW c \in Readers PROVE IsFiniteSet({c} \X (1 .. Blocks[c])) OBVIOUS
  <2>1. IsFiniteSet({c}) BY FS_Singleton
  <2>2. Blocks[c] \in Int BY RoomAssumption
  <2>3. IsFiniteSet(1 .. Blocks[c]) BY <2>2, FS_Interval
  <2> QED BY <2>1, <2>3, FS_Product
<1>4. IsFiniteSet(UNION S) BY <1>2, <1>3, FS_UNION
<1>5. {p \in Promises : p[1] \in Readers} \in SUBSET (UNION S)
  <2> SUFFICES ASSUME NEW p \in Promises, p[1] \in Readers PROVE p \in UNION S OBVIOUS
  <2>1. p = <<p[1], p[2]>> /\ p[2] \in 1 .. Blocks[p[1]] BY PromiseParts
  <2>2. p \in {p[1]} \X (1 .. Blocks[p[1]]) BY <2>1
  <2> QED BY <2>2
<1> QED BY <1>4, <1>5, FS_Subset

LEMMA FiniteReaders ==
  /\ IsFiniteSet(OfReaders) /\ Cardinality(OfReaders) \in Nat
  /\ \A p : p \in OfReaders <=> p \in Awaited /\ p[1] \in Readers
<1>1. OfReaders \in SUBSET {p \in Promises : p[1] \in Readers} BY DEF OfReaders
<1>2. IsFiniteSet(OfReaders) BY <1>1, FinitePromises, FS_Subset
<1>3. \A p : p \in OfReaders <=> p \in Awaited /\ p[1] \in Readers BY DEF OfReaders, Awaited
<1> QED BY <1>2, <1>3, FS_CardinalityType

-----------------------------------------------------------------------------
(* Completions.                                                            *)

LEMMA Positions ==
  ASSUME Types, NEW q \in Queues
  PROVE  /\ cqi[q] \in 0 .. Turn(q) - 1 /\ post[q] \in 0 .. Turn(q) - 1
         /\ sqi[q] \in 0 .. Turn(q) - 1
         /\ Dist(cqi[q], post[q], Turn(q)) \in Nat /\ Turn(q) \in Nat /\ Turn(q) > 1
         /\ cqi[q] \in Window(q) <=> cqi[q] # post[q]
<1> DEFINE m == Turn(q)  a == cqi[q]  b == post[q]
<1>1. m \in Nat /\ m > 1 BY Sizes
<1>2. a \in 0 .. m - 1 /\ b \in 0 .. m - 1 /\ sqi[q] \in 0 .. m - 1 BY DEF Types
<1>3. a \in Window(q) <=> Dist(a, a, m) < Dist(a, b, m) BY <1>2 DEF Window
<1> HIDE DEF m, a, b
<1>4. Dist(a, b, m) \in Nat /\ (Dist(a, a, m) < Dist(a, b, m) <=> a # b)
  BY <1>1, <1>2 DEF Dist
<1> QED BY <1>1, <1>2, <1>3, <1>4 DEF m, a, b

LEMMA PostedWindow ==
  ASSUME Types, NEW q \in Queues, Dist(cqi[q], post[q], Turn(q)) < Size[q],
         cqi'[q] = cqi[q], post'[q] = Up(post[q], Turn(q))
  PROVE  /\ Window(q)' = Window(q) \cup {post[q]} /\ post[q] \notin Window(q)
         /\ Dist(cqi'[q], post'[q], Turn(q)) = Dist(cqi[q], post[q], Turn(q)) + 1
         /\ \A i \in Window(q) : Dist(i, post'[q], Turn(q)) = Dist(i, post[q], Turn(q)) + 1
         /\ Dist(post[q], post'[q], Turn(q)) = 1
<1> DEFINE m == Turn(q)  a == cqi[q]  b == post[q]  d == post'[q]  s == Size[q]
<1>1. s \in Nat /\ s > 0 /\ m = 2 * s BY Sizes
<1>2. a \in 0 .. m - 1 /\ b \in 0 .. m - 1 BY DEF Types
<1>3. Window(q) = {i \in 0 .. m - 1 : Dist(a, i, m) < Dist(a, b, m)} BY DEF Window
<1>4. Window(q)' = {i \in 0 .. m - 1 : Dist(a, i, m) < Dist(a, d, m)} BY DEF Window
<1>5. d = Up(b, m) /\ Dist(a, b, m) < s OBVIOUS
<1> HIDE DEF m, a, b, d, s
<1>6. Dist(a, d, m) = Dist(a, b, m) + 1 /\ Dist(b, d, m) = 1
  BY <1>1, <1>2, <1>5 DEF Dist, Up
<1>7. \A i \in 0 .. m - 1 : Dist(a, i, m) < Dist(a, d, m) <=> i = b \/ Dist(a, i, m) < Dist(a, b, m)
  BY <1>1, <1>2, <1>6 DEF Dist
<1>8. ~(Dist(a, b, m) < Dist(a, b, m)) BY <1>1, <1>2 DEF Dist
<1>9. Window(q)' = Window(q) \cup {b} /\ b \notin Window(q) BY <1>2, <1>3, <1>4, <1>7, <1>8
<1>10. \A i \in 0 .. m - 1 : Dist(a, i, m) < Dist(a, b, m) => Dist(i, d, m) = Dist(i, b, m) + 1
  BY <1>1, <1>2, <1>5 DEF Dist, Up
<1>11. cqi'[q] = a BY DEF a
<1> QED BY <1>3, <1>6, <1>9, <1>10, <1>11 DEF m, a, b, d

LEMMA HandledWindow ==
  ASSUME Types, NEW q \in Queues, cqi[q] # post[q],
         cqi'[q] = Up(cqi[q], Turn(q)), post'[q] = post[q]
  PROVE  /\ Window(q)' = Window(q) \ {cqi[q]} /\ cqi[q] \in Window(q)
         /\ Dist(cqi'[q], post'[q], Turn(q)) = Dist(cqi[q], post[q], Turn(q)) - 1
<1> DEFINE m == Turn(q)  a == cqi[q]  b == post[q]  d == cqi'[q]  s == Size[q]
<1>1. s \in Nat /\ s > 0 /\ m = 2 * s BY Sizes
<1>2. a \in 0 .. m - 1 /\ b \in 0 .. m - 1 BY DEF Types
<1>3. Window(q) = {i \in 0 .. m - 1 : Dist(a, i, m) < Dist(a, b, m)} BY DEF Window
<1>4. Window(q)' = {i \in 0 .. m - 1 : Dist(d, i, m) < Dist(d, b, m)} BY DEF Window
<1>5. d = Up(a, m) /\ a # b /\ post'[q] = b OBVIOUS
<1> HIDE DEF m, a, b, d, s
<1>6. Dist(d, b, m) = Dist(a, b, m) - 1 BY <1>1, <1>2, <1>5 DEF Dist, Up
<1>7. \A i \in 0 .. m - 1 : Dist(d, i, m) < Dist(d, b, m) <=> i # a /\ Dist(a, i, m) < Dist(a, b, m)
  BY <1>1, <1>2, <1>5 DEF Dist, Up
<1>8. Dist(a, a, m) < Dist(a, b, m) BY <1>1, <1>2, <1>5 DEF Dist
<1>9. Window(q)' = Window(q) \ {a} /\ a \in Window(q) BY <1>2, <1>3, <1>4, <1>7, <1>8
<1> QED BY <1>5, <1>6, <1>9 DEF m, a, b, d

LEMMA PostedPhases ==
  ASSUME Types, NEW q \in Queues, Phases(q), Dist(cqi[q], post[q], Turn(q)) < Size[q],
         cqi'[q] = cqi[q], post'[q] = Up(post[q], Turn(q)), NEW id,
         cq'[q] = [cq[q] EXCEPT ![Slot(q, post[q])] = [id |-> id, phase |-> PhaseAt(post[q], q)]]
  PROVE  /\ Phases(q)'
         /\ \A b : b = post[q] => Id(q, b)' = id
         /\ \A i \in Window(q) : Id(q, i)' = Id(q, i)
         /\ \A i \in 0 .. Size[q] - 1 : i # post[q] => Id(q, i)' = Id(q, i) \/ post[q] >= Size[q]
<1> DEFINE m == Turn(q)  a == cqi[q]  b == post[q]  x == [id |-> id, phase |-> PhaseAt(b, q)]
<1>1. /\ a \in 0 .. m - 1 /\ b \in 0 .. m - 1 /\ m \in Nat
      /\ Dist(a, b, m) \in Nat
  BY Positions
<1>2. \A i \in 0 .. m - 1 : Slot(q, i) \in 0 .. Size[q] - 1 BY SlotOf
<1>3. cq[q] \in [0 .. Size[q] - 1 -> [id : 0 .. Turn(q) - 1, phase : {0, 1}]] BY DEF Types
<1>4. x.id = id /\ x.phase = PhaseAt(b, q) OBVIOUS
<1>5. cq'[q] = [cq[q] EXCEPT ![Slot(q, b)] = x] OBVIOUS
<1> HIDE DEF x
<1>6. /\ cq'[q][Slot(q, b)] = x
      /\ \A k \in 0 .. Size[q] - 1 : k # Slot(q, b) => cq'[q][k] = cq[q][k]
  BY <1>1, <1>2, <1>3, <1>5
<1>7. \A i \in 0 .. m - 1 : Dist(a, i, m) < Size[q] /\ i # b => cq'[q][Slot(q, i)] = cq[q][Slot(q, i)]
  <2> SUFFICES ASSUME NEW i \in 0 .. m - 1, Dist(a, i, m) < Size[q], i # b
               PROVE cq'[q][Slot(q, i)] = cq[q][Slot(q, i)]
    OBVIOUS
  <2>1. Slot(q, i) # Slot(q, b) BY <1>1, SlotsDiffer
  <2> QED BY <2>1, <1>2, <1>6
<1>8. Window(q)' = Window(q) \cup {b} /\ Dist(cqi'[q], post'[q], m) = Dist(a, b, m) + 1
      /\ b \notin Window(q)
  BY PostedWindow
<1>9. \A i \in Window(q) : i \in 0 .. m - 1 /\ Dist(a, i, m) < Size[q]
  <2> SUFFICES ASSUME NEW i \in Window(q) PROVE i \in 0 .. m - 1 /\ Dist(a, i, m) < Size[q] OBVIOUS
  <2>1. i \in 0 .. m - 1 /\ Dist(a, i, m) < Dist(a, b, m) BY DEF Window
  <2>2. Dist(a, i, m) \in Nat BY <2>1, <1>1 DEF Dist
  <2>3. Size[q] \in Nat BY Sizes
  <2> QED BY <1>1, <2>1, <2>2, <2>3
<1>10. ASSUME NEW i \in 0 .. m - 1, Dist(a, i, m) < Size[q]
       PROVE cq'[q][Slot(q, i)].phase = PhaseAt(i, q) <=> i \in Window(q)'
  <2>1. CASE i = b BY <2>1, <1>4, <1>6, <1>8
  <2>2. CASE i # b
    <3>1. cq[q][Slot(q, i)].phase = PhaseAt(i, q) <=> i \in Window(q) BY <1>10 DEF Phases
    <3>2. cq'[q][Slot(q, i)] = cq[q][Slot(q, i)] BY <1>7, <1>10, <2>2
    <3> QED BY <2>2, <3>1, <3>2, <1>8
  <2> QED BY <2>1, <2>2
<1>11. Dist(cqi'[q], post'[q], m) <= Size[q]
  <2>1. Size[q] \in Nat BY Sizes
  <2> QED BY <1>1, <1>8, <2>1
<1>12. Phases(q)' BY <1>10, <1>11 DEF Phases, PhaseAt
<1>13. \A k : k = b => Id(q, k)' = id BY <1>4, <1>6 DEF Id
<1>14. \A i \in Window(q) : Id(q, i)' = Id(q, i) BY <1>7, <1>8, <1>9 DEF Id
<1>15. ASSUME NEW i \in 0 .. Size[q] - 1, i # b, b < Size[q] PROVE Id(q, i)' = Id(q, i)
  <2>1. Slot(q, i) = i /\ Slot(q, b) = b BY <1>15, Sizes DEF Slot
  <2> QED BY <2>1, <1>6, <1>15 DEF Id
<1>16. \A i \in 0 .. Size[q] - 1 : i # b => Id(q, i)' = Id(q, i) \/ b >= Size[q]
  <2>1. b < Size[q] \/ b >= Size[q] BY <1>1, Sizes
  <2> QED BY <2>1, <1>15
<1> QED BY <1>12, <1>13, <1>14, <1>16

LEMMA HandledPhases ==
  ASSUME Types, NEW q \in Queues, Phases(q), cqi[q] # post[q],
         cqi'[q] = Up(cqi[q], Turn(q)), post'[q] = post[q], cq'[q] = cq[q]
  PROVE  Phases(q)'
<1> DEFINE m == Turn(q)  a == cqi[q]  b == post[q]  d == cqi'[q]  s == Size[q]
<1>1. s \in Nat /\ s > 0 /\ m = 2 * s BY Sizes
<1>2. a \in 0 .. m - 1 /\ b \in 0 .. m - 1 BY DEF Types
<1>3. Window(q)' = Window(q) \ {a} /\ a \in Window(q)
      /\ Dist(d, post'[q], m) = Dist(a, b, m) - 1
  BY HandledWindow
<1>4. Dist(a, b, m) <= s /\ Dist(a, b, m) \in Nat BY Positions DEF Phases
<1>5. d = Up(a, m) OBVIOUS
<1>6. \A i \in 0 .. m - 1 : i \in Window(q) <=> Dist(a, i, m) < Dist(a, b, m) BY DEF Window
<1>7. \A i \in 0 .. m - 1 : Slot(q, i) = (IF i < s THEN i ELSE i - s)
                            /\ PhaseAt(i, q) = (IF i < s THEN 1 ELSE 0)
  BY DEF Slot, PhaseAt
<1>8. ASSUME NEW i \in 0 .. m - 1, Dist(d, i, m) < s
      PROVE  cq[q][Slot(q, i)].phase = PhaseAt(i, q) <=> i \in Window(q)'
  <2>1. CASE Dist(a, i, m) < s /\ i # a
    <3>1. cq[q][Slot(q, i)].phase = PhaseAt(i, q) <=> i \in Window(q) BY <2>1 DEF Phases
    <3> QED BY <2>1, <3>1, <1>3
  <2>2. CASE ~(Dist(a, i, m) < s /\ i # a)
    <3> HIDE DEF m, a, b, d, s
    <3>1. i = (IF a < s THEN a + s ELSE a - s)
      BY <1>1, <1>2, <1>5, <1>8, <2>2 DEF Dist, Up
    <3>2. Dist(a, a, m) < s /\ ~(Dist(a, i, m) < s) BY <1>1, <1>2, <3>1 DEF Dist
    <3>3. cq[q][Slot(q, a)].phase = PhaseAt(a, q)
      BY <1>2, <1>3, <3>2 DEF Phases, m, a, s
    <3>4. Slot(q, i) = Slot(q, a) /\ PhaseAt(i, q) # PhaseAt(a, q)
      BY <1>1, <1>2, <1>7, <3>1
    <3>5. i \notin Window(q)
      <4>1. Dist(a, i, m) \in Int BY <1>1, <1>2 DEF Dist
      <4> QED BY <1>1, <1>4, <1>6, <3>2, <4>1
    <3> QED BY <1>3, <3>3, <3>4, <3>5
  <2> QED BY <2>1, <2>2
<1>9. Dist(d, post'[q], m) <= s BY <1>1, <1>3, <1>4
<1> QED BY <1>8, <1>9 DEF Phases, PhaseAt

-----------------------------------------------------------------------------
(* Entries of completions.                                                 *)

LEMMA Appended ==
  ASSUME NEW S, NEW s \in Seq(S), NEW e, NEW t, t = Append(s, e)
  PROVE  /\ Len(t) = Len(s) + 1 /\ Len(s) \in Nat
         /\ DOMAIN t = DOMAIN s \cup {Len(t)} /\ Len(t) \notin DOMAIN s
         /\ \A n \in DOMAIN s : t[n] = s[n]
         /\ t[Len(t)] = e
         /\ DOMAIN s = 1 .. Len(s)
         /\ e \in S => t \in Seq(S)
OBVIOUS

\* completions[n] = completions.back(); pop_back(): where the entry n was.
From(s, k, n) == IF n = k THEN Len(s) ELSE n

LEMMA Removed ==
  ASSUME NEW S, NEW s \in Seq(S), NEW k \in DOMAIN s, NEW t, t = Without(s, k)
  PROVE  /\ Len(t) = Len(s) - 1 /\ Len(s) \in Nat \ {0} /\ t \in Seq(S)
         /\ \A n \in DOMAIN t :
              From(s, k, n) \in DOMAIN s /\ From(s, k, n) # k /\ t[n] = s[From(s, k, n)]
         /\ \A m \in DOMAIN s : m # k => \E n \in DOMAIN t : From(s, k, n) = m
         /\ \A i, j \in DOMAIN t : From(s, k, i) = From(s, k, j) => i = j
<1>1. Len(s) \in Nat /\ DOMAIN s = 1 .. Len(s) /\ k \in 1 .. Len(s) OBVIOUS
<1> DEFINE l == Len(s)
<1>2. t = [i \in 1 .. l - 1 |-> IF i = k THEN s[l] ELSE s[i]] BY DEF Without
<1>3. \A i \in 1 .. l : s[i] \in S BY <1>1
<1>4. t \in Seq(S) /\ Len(t) = l - 1 /\ DOMAIN t = 1 .. l - 1
  <2>1. \A i \in 1 .. l - 1 : (IF i = k THEN s[l] ELSE s[i]) \in S BY <1>1, <1>3
  <2>2. l - 1 \in Nat BY <1>1
  <2>3. t \in [1 .. l - 1 -> S] BY <1>2, <2>1
  <2> HIDE DEF l
  <2>4. t \in Seq(S) BY <2>2, <2>3
  <2>5. DOMAIN t = 1 .. l - 1 BY <2>3
  <2>6. Len(t) = l - 1 BY <2>2, <2>4, <2>5
  <2> QED BY <2>4, <2>5, <2>6
<1>5. \A i : From(s, k, i) = IF i = k THEN l ELSE i BY DEF From
<1>6. k \in 1 .. l /\ l \in Nat \ {0} BY <1>1
<1>7. DOMAIN s = 1 .. l /\ l = Len(s) BY <1>1
<1> HIDE DEF l
<1>8. \A i \in 1 .. l - 1 : From(s, k, i) \in 1 .. l /\ From(s, k, i) # k BY <1>5, <1>6
<1>9. \A i \in 1 .. l - 1 : t[i] = s[From(s, k, i)]
  <2> TAKE i \in 1 .. l - 1
  <2>1. t[i] = IF i = k THEN s[l] ELSE s[i] BY <1>2
  <2> QED BY <1>5, <2>1
<1>10. ASSUME NEW m \in 1 .. l, m # k PROVE \E n \in 1 .. l - 1 : From(s, k, n) = m
  <2>1. CASE m = l
    <3>1. k \in 1 .. l - 1 BY <1>6, <1>10, <2>1
    <3> QED BY <1>5, <2>1, <3>1
  <2>2. CASE m # l
    <3>1. m \in 1 .. l - 1 BY <1>6, <1>10, <2>2
    <3> QED BY <1>5, <1>10, <3>1
  <2> QED BY <2>1, <2>2
<1>11. \A i, j \in 1 .. l - 1 : From(s, k, i) = From(s, k, j) => i = j BY <1>5, <1>6
<1> QED BY <1>4, <1>6, <1>7, <1>8, <1>9, <1>10, <1>11

LEMMA NumbersSent ==
  ASSUME Types, NEW q \in Queues, NEW op \in Ops \ {"none"}, NEW p \in Promises, RunCommand(q, op, p),
         q \in created, Numbers(q), Held(q)' = Held(q) \cup {Cmd(sqi[q], p, op)},
         \A n \in DOMAIN completions[q] : completions[q][n].id # sqi[q],
         UNCHANGED <<cq, cqi, post>>
  PROVE  Numbers(q)'
<1>0. completions'[q] = Append(completions[q], Entry(sqi[q], p))
  BY DEF RunCommand, Entry, Types
<1> DEFINE c == completions[q]  d == completions'[q]  e == Entry(sqi[q], p)
<1>1. c \in Seq([id : 0 .. Turn(q) - 1, p : Promises]) BY DEF Types
<1>2. d = Append(c, e) BY <1>0
<1>3. e.id = sqi[q] /\ e.p = p /\ Cmd(sqi[q], p, op).id = sqi[q] /\ Cmd(sqi[q], p, op).p = p
  BY Fields
<1> HIDE DEF c, d, e
<1>4. /\ DOMAIN d = DOMAIN c \cup {Len(d)} /\ Len(d) \notin DOMAIN c
      /\ \A n \in DOMAIN c : d[n] = c[n]
      /\ d[Len(d)] = e
  BY <1>1, <1>2, Appended
<1>5. \A n \in DOMAIN c : c[n].id # sqi[q] BY DEF c
<1>6. Posts(q)' = Posts(q) /\ \A i : Id(q, i)' = Id(q, i) BY DEF Posts, Window, Id
<1>7. /\ \A m, n \in DOMAIN c : c[m].id = c[n].id => m = n
      /\ \A cmd \in Held(q) : \E n \in DOMAIN c : c[n].id = cmd.id /\ c[n].p = cmd.p
      /\ \A i \in Posts(q) : \E n \in DOMAIN c : c[n].id = Id(q, i)
      /\ \A i, j \in Posts(q) : Id(q, i) = Id(q, j) => i = j
      /\ \A i \in Posts(q) : \A cmd \in Held(q) : Id(q, i) # cmd.id
  BY DEF Numbers, c
<1>8. \A m, n \in DOMAIN d : d[m].id = d[n].id => m = n
  <2> SUFFICES ASSUME NEW m \in DOMAIN d, NEW n \in DOMAIN d, d[m].id = d[n].id PROVE m = n OBVIOUS
  <2>1. CASE m \in DOMAIN c /\ n \in DOMAIN c BY <1>4, <1>7, <2>1
  <2>2. CASE m = Len(d) /\ n \in DOMAIN c BY <1>3, <1>4, <1>5, <2>2
  <2>3. CASE n = Len(d) /\ m \in DOMAIN c BY <1>3, <1>4, <1>5, <2>3
  <2> QED BY <1>4, <2>1, <2>2, <2>3
<1>9. \A cmd \in Held(q)' : \E n \in DOMAIN d : d[n].id = cmd.id /\ d[n].p = cmd.p
  <2> SUFFICES ASSUME NEW x \in Held(q)' PROVE \E n \in DOMAIN d : d[n].id = x.id /\ d[n].p = x.p OBVIOUS
  <2>1. CASE x \in Held(q)
    <3>1. PICK n \in DOMAIN c : c[n].id = x.id /\ c[n].p = x.p BY <1>7, <2>1
    <3> QED BY <1>4, <3>1
  <2>2. CASE x = Cmd(sqi[q], p, op) BY <1>3, <1>4, <2>2
  <2> QED BY <2>1, <2>2
<1>10. \A i \in Posts(q)' : \E n \in DOMAIN d : d[n].id = Id(q, i)'
  <2> SUFFICES ASSUME NEW i \in Posts(q) PROVE \E n \in DOMAIN d : d[n].id = Id(q, i) BY <1>6
  <2>1. PICK n \in DOMAIN c : c[n].id = Id(q, i) BY <1>7
  <2> QED BY <1>4, <2>1
<1>11. \A i \in Posts(q)' : Id(q, i) # sqi[q] BY <1>5, <1>6, <1>7
<1>12. \A i, j \in Posts(q)' : Id(q, i)' = Id(q, j)' => i = j BY <1>6, <1>7
<1>13. \A i \in Posts(q)' : \A cmd \in Held(q)' : Id(q, i)' # cmd.id
  BY <1>3, <1>6, <1>7, <1>11
<1>14. completions'[q] = d BY DEF d
<1> QED BY <1>8, <1>9, <1>10, <1>12, <1>13, <1>14 DEF Numbers

LEMMA NumbersKept ==
  ASSUME NEW q \in Queues, Numbers(q), completions'[q] = completions[q], cq'[q] = cq[q],
         Held(q)' = Held(q), Posts(q)' = Posts(q)
  PROVE  Numbers(q)'
<1>1. \A i : Id(q, i)' = Id(q, i) BY DEF Id
<1> QED BY <1>1 DEF Numbers

LEMMA NumbersPosted ==
  ASSUME NEW q \in Queues, Numbers(q), completions'[q] = completions[q],
         NEW cmd \in Held(q), Held(q)' = Held(q) \ {cmd}, \A x \in Held(q)' : x.p # cmd.p,
         NEW b, b \notin Posts(q), Posts(q)' = Posts(q) \cup {b}, Id(q, b)' = cmd.id,
         \A i \in Posts(q) : Id(q, i)' = Id(q, i)
  PROVE  Numbers(q)'
<1> DEFINE c == completions[q]
<1>1. /\ \A m, n \in DOMAIN c : c[m].id = c[n].id => m = n
      /\ \A x \in Held(q) : \E n \in DOMAIN c : c[n].id = x.id /\ c[n].p = x.p
      /\ \A i \in Posts(q) : \E n \in DOMAIN c : c[n].id = Id(q, i)
      /\ \A i, j \in Posts(q) : Id(q, i) = Id(q, j) => i = j
      /\ \A i \in Posts(q) : \A x \in Held(q) : Id(q, i) # x.id
  BY DEF Numbers
<1>2. completions'[q] = c OBVIOUS
<1> HIDE DEF c
<1>3. \A x \in Held(q)' : \E n \in DOMAIN c : c[n].id = x.id /\ c[n].p = x.p BY <1>1
<1>4. \A i \in Posts(q)' : \E n \in DOMAIN c : c[n].id = Id(q, i)' BY <1>1
<1>5. \A i, j \in Posts(q)' : Id(q, i)' = Id(q, j)' => i = j BY <1>1
<1>6. \A x \in Held(q)' : x.id # cmd.id
  <2> SUFFICES ASSUME NEW x \in Held(q)', x.id = cmd.id PROVE FALSE OBVIOUS
  <2>1. PICK m \in DOMAIN c : c[m].id = x.id /\ c[m].p = x.p BY <1>3
  <2>2. PICK n \in DOMAIN c : c[n].id = cmd.id /\ c[n].p = cmd.p BY <1>1
  <2>3. m = n BY <1>1, <2>1, <2>2
  <2>4. x.p # cmd.p OBVIOUS
  <2> QED BY <2>1, <2>2, <2>3, <2>4
<1>7. \A i \in Posts(q)' : \A x \in Held(q)' : Id(q, i)' # x.id BY <1>1, <1>6
<1> QED BY <1>1, <1>2, <1>3, <1>4, <1>5, <1>7 DEF Numbers

LEMMA NumbersRemoved ==
  ASSUME Types, NEW q \in Queues, Numbers(q), NEW k \in DOMAIN completions[q],
         completions'[q] = Without(completions[q], k), Held(q)' = Held(q), cq'[q] = cq[q],
         NEW a \in Posts(q), completions[q][k].id = Id(q, a), Posts(q)' = Posts(q) \ {a}
  PROVE  Numbers(q)'
<1> DEFINE c == completions[q]  d == completions'[q]
<1>1. /\ \A m, n \in DOMAIN c : c[m].id = c[n].id => m = n
      /\ \A x \in Held(q) : \E n \in DOMAIN c : c[n].id = x.id /\ c[n].p = x.p
      /\ \A i \in Posts(q) : \E n \in DOMAIN c : c[n].id = Id(q, i)
      /\ \A i, j \in Posts(q) : Id(q, i) = Id(q, j) => i = j
      /\ \A i \in Posts(q) : \A x \in Held(q) : Id(q, i) # x.id
  BY DEF Numbers
<1>2. k \in DOMAIN c /\ c[k].id = Id(q, a) OBVIOUS
<1> DEFINE S == [id : 0 .. Turn(q) - 1, p : Promises]
<1>20. c \in Seq(S) BY DEF Types
<1>21. d = Without(c, k) OBVIOUS
<1> HIDE DEF c, d, S
<1>3. \A n \in DOMAIN d : From(c, k, n) \in DOMAIN c /\ From(c, k, n) # k /\ d[n] = c[From(c, k, n)]
  BY <1>2, <1>20, <1>21, Removed
<1>31. \A i, j \in DOMAIN d : From(c, k, i) = From(c, k, j) => i = j
  BY <1>2, <1>20, <1>21, Removed
<1>32. \A m \in DOMAIN c : m # k => \E n \in DOMAIN d : d[n] = c[m]
  <2>1. \A m \in DOMAIN c : m # k => \E n \in DOMAIN d : From(c, k, n) = m
    BY <1>2, <1>20, <1>21, Removed
  <2> QED BY <1>3, <2>1
<1>4. \A i \in Posts(q) : Id(q, i)' = Id(q, i) BY DEF Id
<1>5. \A i, j \in DOMAIN d : d[i].id = d[j].id => i = j BY <1>1, <1>3, <1>31
<1>6. ASSUME NEW x \in Held(q) PROVE \E n \in DOMAIN d : d[n].id = x.id /\ d[n].p = x.p
  <2>1. PICK m \in DOMAIN c : c[m].id = x.id /\ c[m].p = x.p BY <1>1
  <2>2. m # k BY <1>1, <1>2, <2>1
  <2> QED BY <1>32, <2>1, <2>2
<1>7. ASSUME NEW i \in Posts(q), i # a PROVE \E n \in DOMAIN d : d[n].id = Id(q, i)
  <2>1. PICK m \in DOMAIN c : c[m].id = Id(q, i) BY <1>1
  <2>2. m # k BY <1>1, <1>2, <1>7, <2>1
  <2> QED BY <1>32, <2>1, <2>2
<1> QED BY <1>1, <1>4, <1>5, <1>6, <1>7 DEF Numbers, d

-----------------------------------------------------------------------------
(* How much there can be.                                                  *)

LEMMA TwoQueues ==
  /\ Io \in Queues /\ Admin \in Queues /\ Io # Admin /\ Queues = {Admin, Io}
  /\ \A r \in Queues : r # Io => r = Admin
BY DEF Queues, Io, Admin

\* The admin queues come nowhere near their ends.
LEMMA AdminBounds ==
  ASSUME Types, Starting, Scripts
  PROVE  /\ SentBy(Device) \in 0 .. 2 /\ SentBy(Disk) \in 0 .. 3
         /\ sqi[Admin] \in 0 .. 5 /\ post[Admin] \in 0 .. 5 /\ cqi[Admin] \in 0 .. 5
         /\ Count(Admin) \in Nat /\ Count(Admin) + post[Admin] = sqi[Admin]
         /\ sqi[Admin] <= SentBy(Device) + SentBy(Disk)
         /\ cqi[Admin] <= post[Admin]
         /\ Dist(cqi[Admin], post[Admin], Turn(Admin)) = post[Admin] - cqi[Admin]
         /\ Window(Admin) \subseteq Posts(Admin)
         /\ \A i \in 0 .. 5 : Slot(Admin, i) = i /\ Up(i, Turn(Admin)) = i + 1
         /\ Size[Admin] > 5 /\ Size[Admin] \in Nat /\ Turn(Admin) = 2 * Size[Admin]
<1>1. SentBy(Device) \in 0 .. 2 /\ SentBy(Disk) \in 0 .. 3 BY IsPromise DEF SentBy
<1>2. /\ Size[Admin] > 5 /\ Size[Admin] \in Nat /\ Turn(Admin) = 2 * Size[Admin]
      /\ Admin \in Queues
  BY TwoQueues, Sizes
<1>3. /\ sqi[Admin] \in Nat /\ post[Admin] \in Nat /\ cqi[Admin] \in Nat
  BY <1>2, Positions
<1>4. Count(Admin) \in Nat BY <1>2, CountType
<1>5. /\ sqi[Admin] <= SentBy(Device) + SentBy(Disk) /\ cqi[Admin] <= post[Admin]
      /\ Count(Admin) + post[Admin] = sqi[Admin]
  BY DEF Starting
<1> DEFINE s == sqi[Admin]  p == post[Admin]  c == cqi[Admin]  z == Size[Admin]
<1> HIDE DEF s, p, c, z
<1>6. s \in 0 .. 5 /\ p \in 0 .. 5 /\ c \in 0 .. 5 BY <1>1, <1>3, <1>4, <1>5 DEF s, p, c
<1>7. c <= p BY <1>5 DEF c, p
<1>8. Dist(c, p, Turn(Admin)) = p - c BY <1>7 DEF Dist
<1>9. ASSUME NEW i \in Window(Admin) PROVE i \in Posts(Admin)
  <2>1. i \in 0 .. Turn(Admin) - 1 /\ Dist(c, i, Turn(Admin)) < p - c BY <1>8 DEF Window, c, p
  <2>2. i \in Nat /\ i < p BY <1>2, <1>6, <1>7, <2>1 DEF Dist, z
  <2>3. Posts(Admin) = 0 .. p - 1 BY TwoQueues DEF Posts, p
  <2> QED BY <1>6, <2>2, <2>3
<1>10. \A i \in 0 .. 5 : Slot(Admin, i) = i /\ Up(i, Turn(Admin)) = i + 1 BY <1>2 DEF Slot, Up
<1> QED BY <1>1, <1>2, <1>4, <1>5, <1>6, <1>8, <1>9, <1>10 DEF s, p, c

\* An entry of the disk's completions, but for the one being removed, belongs
\* to a command that is still awaited.
LEMMA DiskEntries ==
  ASSUME NvmeInv
  PROVE  /\ \A n \in DOMAIN completions[Io] : Kept(Io, n) =>
              completions[Io][n].p \in (Awaited \ ready) /\ completions[Io][n].p \in OfReaders
         /\ Len(completions[Io]) <= Cardinality(OfReaders) + (IF step = "remove" THEN 1 ELSE 0)
         /\ Len(completions[Io]) \in Nat
<1> DEFINE c == completions[Io]
<1>1. Io \in Queues /\ Io # Admin BY TwoQueues
<1>2. /\ Types /\ Outstanding(Io) /\ Numbers(Io) /\ Owed(Io) /\ Turning /\ Handler
  BY <1>1 DEF NvmeInv
<1>3. /\ \A m, n \in DOMAIN c : c[m].id = c[n].id => m = n
      /\ \A cmd \in Held(Io) : \E n \in DOMAIN c : c[n].id = cmd.id /\ c[n].p = cmd.p
  BY <1>2 DEF Numbers
<1>4. c \in Seq([id : 0 .. Turn(Io) - 1, p : Promises]) BY <1>1, <1>2 DEF Types
<1>5. /\ \A n \in DOMAIN c : c[n].p[1] \in Readers
      /\ \A n \in DOMAIN c : (\E cmd \in Held(Io) : cmd.id = c[n].id)
                             \/ (\E i \in Window(Io) : Id(Io, i) = c[n].id)
  BY <1>2 DEF Turning
<1>6. step = "remove" => at \in DOMAIN c /\ c[at].id = Id(Io, cqi[Io]) BY <1>2 DEF Handler
<1>7. /\ \A i \in Due(Io) : \A n \in DOMAIN c : c[n].id = Id(Io, i) => c[n].p \in Awaited \ ready
      /\ \A m, n \in DOMAIN c : c[m].p = c[n].p /\ Kept(Io, m) /\ Kept(Io, n) => m = n
  BY <1>2 DEF Owed
<1>8. \A cmd \in Held(Io) : cmd.p \in Awaited \ ready BY <1>2 DEF Outstanding
<1> HIDE DEF c
<1>9. ASSUME NEW n \in DOMAIN c, Kept(Io, n) PROVE c[n].p \in Awaited \ ready
  <2>1. ASSUME NEW cmd \in Held(Io), cmd.id = c[n].id PROVE c[n].p \in Awaited \ ready
    <3>1. PICK m \in DOMAIN c : c[m].id = cmd.id /\ c[m].p = cmd.p BY <1>3
    <3>2. m = n BY <1>3, <2>1, <3>1
    <3> QED BY <1>8, <3>1, <3>2
  <2>2. ASSUME NEW i \in Window(Io), Id(Io, i) = c[n].id PROVE c[n].p \in Awaited \ ready
    <3>1. Handed(Io) => i # cqi[Io]
      <4> SUFFICES ASSUME step = "remove", i = cqi[Io] PROVE FALSE BY DEF Handed
      <4>1. at = n BY <1>3, <1>6, <2>2
      <4> QED BY <1>9, <4>1 DEF Kept
    <3>2. i \in Due(Io) BY <3>1 DEF Due
    <3> QED BY <1>7, <2>2, <3>2
  <2> QED BY <1>5, <2>1, <2>2
<1>10. \A n \in DOMAIN c : Kept(Io, n) => c[n].p \in OfReaders BY <1>5, <1>9, FiniteReaders
<1> DEFINE K == {n \in DOMAIN c : Kept(Io, n)}
           g == [n \in K |-> c[n].p]
<1>11. Len(c) \in Nat /\ DOMAIN c = 1 .. Len(c) BY <1>4
<1>12. IsFiniteSet(1 .. Len(c)) /\ Cardinality(1 .. Len(c)) = Len(c)
  <2> DEFINE l == Len(c)
  <2>1. l \in Nat BY <1>11
  <2> HIDE DEF l
  <2>2. IsFiniteSet(1 .. l) /\ Cardinality(1 .. l) = IF 1 <= l THEN l - 1 + 1 ELSE 0
    BY <2>1, FS_Interval
  <2>3. Cardinality(1 .. l) = l BY <2>1, <2>2
  <2> QED BY <2>2, <2>3 DEF l
<1>13. Cardinality(K) <= Cardinality(OfReaders)
  <2>1. g \in Injection(K, OfReaders)
    <3>1. g \in [K -> OfReaders] BY <1>10
    <3>2. \A m, n \in K : g[m] = g[n] => m = n BY <1>7 DEF c
    <3> QED BY <3>1, <3>2 DEF Injection, IsInjective
  <2>2. IsFiniteSet(OfReaders) BY FiniteReaders
  <2> HIDE DEF g, K
  <2> QED BY <2>1, <2>2, FS_Injection
<1>14. Len(c) <= Cardinality(K) + (IF step = "remove" THEN 1 ELSE 0) /\ Cardinality(K) \in Nat
  <2>1. CASE step = "remove"
    <3>1. K = (1 .. Len(c)) \ {at} BY <1>6, <1>11, <2>1 DEF Kept, c
    <3>2. at \in 1 .. Len(c) BY <1>6, <1>11, <2>1 DEF c
    <3> HIDE DEF K
    <3>3. Cardinality(K) = Cardinality(1 .. Len(c)) - 1 /\ IsFiniteSet(K)
      BY <1>12, <3>1, <3>2, FS_RemoveElement
    <3>4. Cardinality(K) \in Nat BY <3>3, FS_CardinalityType
    <3> HIDE DEF c
    <3> QED BY <1>11, <1>12, <2>1, <3>3, <3>4
  <2>2. CASE step # "remove"
    <3>1. K = 1 .. Len(c) BY <1>11, <2>2 DEF Kept
    <3> HIDE DEF K
    <3>2. Cardinality(K) = Len(c) BY <1>12, <3>1
    <3> QED BY <1>11, <2>2, <3>2
  <2> HIDE DEF K
  <2> QED BY <2>1, <2>2
<1>15. Cardinality(OfReaders) \in Nat BY FiniteReaders
<1> HIDE DEF K
<1> QED BY <1>9, <1>10, <1>11, <1>13, <1>14, <1>15 DEF c

\* The disk's queues never fill up.
LEMMA DiskBounds ==
  ASSUME NvmeInv
  PROVE  /\ Count(Io) \in Nat /\ Count(Io) <= Cardinality(OfReaders) /\ Cardinality(OfReaders) < Size[Io]
         /\ Count(Io) + Dist(cqi[Io], post[Io], Turn(Io)) <= Cardinality(OfReaders) + 1
         /\ Cardinality(OfReaders) \in Nat
<1>1. Io \in Queues BY TwoQueues
<1>2. Types /\ Turning /\ Handler /\ Promising BY DEF NvmeInv
<1>3. Count(Io) \in Nat BY <1>1, <1>2, CountType
<1>4. Len(completions[Io]) = Count(Io) + Dist(cqi[Io], post[Io], Turn(Io)) BY <1>2 DEF Turning
<1>5. Dist(cqi[Io], post[Io], Turn(Io)) \in Nat BY <1>1, <1>2, Positions
<1>6. step = "remove" => Dist(cqi[Io], post[Io], Turn(Io)) > 0
  <2> SUFFICES ASSUME step = "remove" PROVE Dist(cqi[Io], post[Io], Turn(Io)) > 0 OBVIOUS
  <2>1. cqi[Io] # post[Io] BY <1>2 DEF Handler
  <2>2. cqi[Io] \in 0 .. Turn(Io) - 1 /\ post[Io] \in 0 .. Turn(Io) - 1 /\ Turn(Io) \in Nat
    BY <1>1, <1>2, Positions
  <2> QED BY <2>1, <2>2 DEF Dist
<1>7. Len(completions[Io]) <= Cardinality(OfReaders) + (IF step = "remove" THEN 1 ELSE 0)
  BY DiskEntries
<1>8. Cardinality(OfReaders) \in Nat BY FiniteReaders
<1>9. Cardinality(OfReaders) < Size[Io] BY <1>2 DEF Promising
<1> DEFINE n == Len(completions[Io])  k == Count(Io)  d == Dist(cqi[Io], post[Io], Turn(Io))
           r == Cardinality(OfReaders)
<1> HIDE DEF n, k, d, r
<1>10. n = k + d /\ d \in Nat /\ k \in Nat /\ r \in Nat BY <1>3, <1>4, <1>5, <1>8 DEF n, k, d, r
<1>11. n <= r + (IF step = "remove" THEN 1 ELSE 0) BY <1>7 DEF n, r
<1>12. step = "remove" => d > 0 BY <1>6 DEF d
<1>13. k <= r /\ k + d <= r + 1
  <2>1. CASE step = "remove" BY <1>10, <1>11, <1>12, <2>1
  <2>2. CASE step # "remove" BY <1>10, <1>11, <2>2
  <2> QED BY <2>1, <2>2
<1> QED BY <1>9, <1>10, <1>13 DEF k, d, r

-----------------------------------------------------------------------------
(* What an action leaves alone.                                            *)

LEMMA EntryTyped ==
  ASSUME Types, NEW q \in Queues
  PROVE  /\ completions[q] \in Seq([id : 0 .. Turn(q) - 1, p : Promises])
         /\ DOMAIN completions[q] = 1 .. Len(completions[q]) /\ Len(completions[q]) \in Nat
         /\ \A n \in DOMAIN completions[q] : /\ completions[q][n].id \in 0 .. Turn(q) - 1
                                             /\ completions[q][n].p \in Promises
<1>1. completions[q] \in Seq([id : 0 .. Turn(q) - 1, p : Promises]) BY DEF Types
<1> DEFINE c == completions[q]  S == [id : 0 .. Turn(q) - 1, p : Promises]
<1>2. \A e \in S : e.id \in 0 .. Turn(q) - 1 /\ e.p \in Promises OBVIOUS
<1>3. c \in Seq(S) BY <1>1
<1> HIDE DEF c, S
<1>4. DOMAIN c = 1 .. Len(c) /\ Len(c) \in Nat BY <1>3
<1>5. \A n \in DOMAIN c : c[n] \in S BY <1>3
<1>6. \A n \in DOMAIN c : c[n].id \in 0 .. Turn(q) - 1 /\ c[n].p \in Promises BY <1>2, <1>5
<1> QED BY <1>1, <1>4, <1>6 DEF c

LEMMA RingKept ==
  ASSUME NEW q \in Queues, Held(q)' = Held(q), Count(q)' = Count(q),
         completions'[q] = completions[q], sqi'[q] = sqi[q], cq'[q] = cq[q],
         post'[q] = post[q], cqi'[q] = cqi[q]
  PROVE  /\ Window(q)' = Window(q) /\ Posts(q)' = Posts(q)
         /\ \A i : Id(q, i)' = Id(q, i)
         /\ Phases(q) => Phases(q)'
         /\ Numbers(q) => Numbers(q)'
         /\ q = Io /\ Turning => Turning'
<1>1. Window(q)' = Window(q) BY DEF Window
<1>2. Posts(q)' = Posts(q) BY <1>1 DEF Posts
<1>3. \A i : Id(q, i)' = Id(q, i) BY DEF Id
<1>4. Phases(q) => Phases(q)' BY <1>1 DEF Phases
<1>5. Numbers(q) => Numbers(q)' BY <1>2, NumbersKept
<1>6. q = Io /\ Turning => Turning' BY <1>1, <1>3 DEF Turning
<1> QED BY <1>1, <1>2, <1>3, <1>4, <1>5, <1>6

\* A completion not yet handled stays owed to a task that awaits it.
LEMMA OwedStays ==
  ASSUME Types, NEW q \in Queues, Owed(q), completions'[q] = completions[q],
         Due(q)' = Due(q), \A i : Id(q, i)' = Id(q, i), \A n : Kept(q, n)' <=> Kept(q, n),
         \A p \in Promises : p \in (Awaited \cap executed) \ ready =>
                             p \in (Awaited' \cap executed') \ ready'
  PROVE  Owed(q)'
<1>1. \A n \in DOMAIN completions[q] : completions[q][n].p \in Promises BY EntryTyped
<1> QED BY <1>1 DEF Owed

LEMMA OwedKept ==
  ASSUME Types, NEW q \in Queues, Owed(q), completions'[q] = completions[q], cq'[q] = cq[q],
         post'[q] = post[q], cqi'[q] = cqi[q], UNCHANGED <<step, at>>,
         \A p \in Promises : p \in (Awaited \cap executed) \ ready =>
                             p \in (Awaited' \cap executed') \ ready'
  PROVE  Owed(q)'
<1>1. Due(q)' = Due(q) /\ (\A i : Id(q, i)' = Id(q, i)) /\ \A n : Kept(q, n)' <=> Kept(q, n)
  BY DEF Due, Window, Handed, Id, Kept
<1> QED BY <1>1, OwedStays

LEMMA OutstandingKept ==
  ASSUME Types, NEW q \in Queues, Outstanding(q), Held(q)' = Held(q),
         \A p \in Promises : p \in Awaited \ (executed \cup ready) =>
                             p \in Awaited' \ (executed' \cup ready')
  PROVE  Outstanding(q)'
<1>1. \A cmd \in Held(q) : cmd.p \in Promises BY HeldTyped DEF Records
<1>2. \A p : QueueOf(p)' = QueueOf(p) /\ OpOf(p)' = OpOf(p) BY DEF QueueOf, OpOf
<1> QED BY <1>1, <1>2 DEF Outstanding

\* A step that leaves the queues and the completions alone.
Quiet == UNCHANGED <<queues, head, fetched, cq, post, cqi, completions, step, at>>

LEMMA QuietKeeps ==
  ASSUME NvmeInv, Quiet,
         \A p \in Promises : p \in Awaited \ ready =>
           p \in Awaited' \ ready' /\ (p \in executed' <=> p \in executed)
  PROVE  /\ \A q \in Queues : Sending(q)' /\ Outstanding(q)' /\ Phases(q)' /\ Numbers(q)' /\ Owed(q)'
         /\ Apart' /\ Turning' /\ Count(Admin)' = Count(Admin)
<1>1. Types /\ Apart /\ Turning BY DEF NvmeInv
<1>2. ASSUME NEW q \in Queues
      PROVE /\ Full(q)' = Full(q) /\ Held(q)' = Held(q) /\ Count(q)' = Count(q)
            /\ Sending(q)' /\ Outstanding(q)' /\ Phases(q)' /\ Numbers(q)' /\ Owed(q)'
            /\ q = Io /\ Turning => Turning'
  <2>1. Sending(q) /\ Outstanding(q) /\ Phases(q) /\ Numbers(q) /\ Owed(q) BY DEF NvmeInv
  <2>2. /\ sq'[q] = sq[q] /\ sqi'[q] = sqi[q] /\ tail'[q] = tail[q] /\ head'[q] = head[q]
        /\ cq'[q] = cq[q] /\ post'[q] = post[q] /\ cqi'[q] = cqi[q]
        /\ completions'[q] = completions[q] /\ UNCHANGED <<step, at>>
    BY DEF Quiet, queues
  <2>3. Fetched(q)' = Fetched(q) BY DEF Quiet, Fetched
  <2>4. Full(q)' = Full(q) /\ Held(q)' = Held(q) /\ Count(q)' = Count(q) /\ Sending(q)'
    BY <2>1, <2>2, <2>3, QueueKept
  <2>5. Outstanding(q)' BY <1>1, <2>1, <2>4, OutstandingKept
  <2>6. Phases(q)' /\ Numbers(q)' /\ (q = Io /\ Turning => Turning')
    BY <2>1, <2>2, <2>4, RingKept
  <2>7. Owed(q)' BY <1>1, <2>1, <2>2, OwedKept
  <2> QED BY <2>4, <2>5, <2>6, <2>7
<1>3. Apart'
  <2>1. sq' = sq /\ fetched' = fetched BY DEF Quiet, queues
  <2> QED BY <1>1, <1>2, <2>1 DEF Apart
<1> QED BY <1>1, <1>2, <1>3, TwoQueues

-----------------------------------------------------------------------------
(* A command is sent.                                                      *)

\* No entry has the identifier of the next command.
LEMMA Fresh ==
  ASSUME NvmeInv, NEW q \in Queues
  PROVE  \A n \in DOMAIN completions[q] : completions[q][n].id # sqi[q]
<1>1. Types /\ Turning /\ Starting BY DEF NvmeInv
<1>2. CASE q = Io
  <2>1. sqi[Io] \in 0 .. Turn(Io) - 1 /\ Turn(Io) \in Nat BY <1>1, <1>2, Positions
  <2>2. Dist(sqi[Io], sqi[Io], Turn(Io)) = 0 BY <2>1 DEF Dist
  <2>3. /\ \A cmd \in Held(Io) : cmd.id # sqi[Io]
        /\ \A i \in Window(Io) : Id(Io, i) # sqi[Io]
    BY <1>1, <2>2 DEF Turning
  <2> QED BY <1>1, <1>2, <2>3 DEF Turning
<1>3. CASE q = Admin
  <2>1. /\ Len(completions[Admin]) = sqi[Admin]
        /\ \A n \in DOMAIN completions[Admin] : completions[Admin][n].id = n - 1
    BY <1>1 DEF Starting
  <2>2. completions[Admin] \in Seq([id : 0 .. Turn(Admin) - 1, p : Promises])
    BY <1>1, <1>3 DEF Types
  <2>3. DOMAIN completions[Admin] = 1 .. Len(completions[Admin]) BY <2>2
  <2>4. sqi[Admin] \in Nat BY <1>1, <1>3, Positions
  <2> QED BY <1>3, <2>1, <2>3, <2>4
<1> QED BY <1>2, <1>3, TwoQueues

LEMMA TypesSent ==
  ASSUME Types, NEW q \in Queues, NEW op \in Ops \ {"none"}, NEW p \in Promises, RunCommand(q, op, p),
         q \in created
  PROVE  /\ DOMAIN sq' = Queues /\ DOMAIN completions' = Queues /\ DOMAIN sqi' = Queues
         /\ DOMAIN tail' = Queues
         /\ \A r \in Queues :
              /\ sqi'[r] \in 0 .. Turn(r) - 1 /\ tail'[r] \in 0 .. Size[r] - 1
              /\ sq'[r] \in [0 .. Size[r] - 1 -> Records(r)]
              /\ completions'[r] \in Seq([id : 0 .. Turn(r) - 1, p : Promises])
<1>1. /\ DOMAIN sq' = Queues /\ DOMAIN completions' = Queues /\ DOMAIN sqi' = Queues
      /\ DOMAIN tail' = Queues /\ sqi[q] \in 0 .. Turn(q) - 1 /\ sqi'[q] \in 0 .. Turn(q) - 1
  BY Sent
<1>2. /\ sq'[q] = [sq[q] EXCEPT ![Slot(q, sqi[q])] = Cmd(sqi[q], p, op)]
      /\ tail'[q] = Slot(q, sqi'[q])
  BY Sent
<1>3. completions'[q] = Append(completions[q], Entry(sqi[q], p))
  BY DEF RunCommand, Entry, Types
<1>4. Slot(q, sqi'[q]) \in 0 .. Size[q] - 1 BY <1>1, SlotOf
<1>5. Cmd(sqi[q], p, op) \in Records(q) BY <1>1 DEF Cmd, Records
<1>6. sq'[q] \in [0 .. Size[q] - 1 -> Records(q)]
  <2>1. sq[q] \in [0 .. Size[q] - 1 -> Records(q)] BY DEF Types
  <2> QED BY <1>2, <1>5, <2>1
<1>7. completions'[q] \in Seq([id : 0 .. Turn(q) - 1, p : Promises])
  <2>1. completions[q] \in Seq([id : 0 .. Turn(q) - 1, p : Promises]) BY DEF Types
  <2>2. Entry(sqi[q], p) \in [id : 0 .. Turn(q) - 1, p : Promises] BY <1>1 DEF Entry
  <2> QED BY <1>3, <2>1, <2>2
<1>8. ASSUME NEW r \in Queues, r # q
      PROVE /\ sqi'[r] \in 0 .. Turn(r) - 1 /\ tail'[r] \in 0 .. Size[r] - 1
            /\ sq'[r] \in [0 .. Size[r] - 1 -> Records(r)]
            /\ completions'[r] \in Seq([id : 0 .. Turn(r) - 1, p : Promises])
  <2>1. /\ sq'[r] = sq[r] /\ sqi'[r] = sqi[r] /\ tail'[r] = tail[r]
        /\ completions'[r] = completions[r]
    BY <1>8, Sent
  <2> QED BY <2>1 DEF Types
<1> QED BY <1>1, <1>2, <1>4, <1>6, <1>7, <1>8

\* The entry of the command sent, among the others.
LEMMA EntrySent ==
  ASSUME Types, NEW q \in Queues, NEW op \in Ops \ {"none"}, NEW p \in Promises, RunCommand(q, op, p)
  PROVE  /\ Len(completions'[q]) = Len(completions[q]) + 1
         /\ DOMAIN completions'[q] = DOMAIN completions[q] \cup {Len(completions[q]) + 1}
         /\ Len(completions[q]) + 1 \notin DOMAIN completions[q]
         /\ \A n \in DOMAIN completions[q] : completions'[q][n] = completions[q][n]
         /\ completions'[q][Len(completions[q]) + 1] = Entry(sqi[q], p)
<1>1. completions'[q] = Append(completions[q], Entry(sqi[q], p))
  BY DEF RunCommand, Entry, Types
<1> DEFINE c == completions[q]  d == completions'[q]  S == [id : 0 .. Turn(q) - 1, p : Promises]
<1>2. c \in Seq(S) BY EntryTyped
<1>3. d = Append(c, Entry(sqi[q], p)) BY <1>1
<1> HIDE DEF c, d, S
<1>4. /\ Len(d) = Len(c) + 1 /\ DOMAIN d = DOMAIN c \cup {Len(d)} /\ Len(d) \notin DOMAIN c
      /\ \A n \in DOMAIN c : d[n] = c[n]
      /\ d[Len(d)] = Entry(sqi[q], p)
  BY <1>2, <1>3, Appended
<1> QED BY <1>4 DEF c, d

LEMMA OwedSent ==
  ASSUME Types, NEW q \in Queues, NEW op \in Ops \ {"none"}, NEW p \in Promises, RunCommand(q, op, p),
         Owed(q), Numbers(q), Window(q) \subseteq Posts(q),
         UNCHANGED <<cq, cqi, post, step, at, executed, ready>>, Awaited \subseteq Awaited',
         \A n \in DOMAIN completions[q] : completions[q][n].id # sqi[q],
         \A n \in DOMAIN completions[q] : Kept(q, n) => completions[q][n].p # p
  PROVE  Owed(q)'
<1>0. /\ DOMAIN completions'[q] = DOMAIN completions[q] \cup {Len(completions[q]) + 1}
      /\ Len(completions[q]) + 1 \notin DOMAIN completions[q]
      /\ \A n \in DOMAIN completions[q] : completions'[q][n] = completions[q][n]
      /\ completions'[q][Len(completions[q]) + 1] = Entry(sqi[q], p)
  BY EntrySent, Zenon
<1> DEFINE c == completions[q]  d == completions'[q]  l == Len(c) + 1
<1>1. /\ DOMAIN d = DOMAIN c \cup {l} /\ l \notin DOMAIN c
      /\ \A n \in DOMAIN c : d[n] = c[n]
      /\ d[l].id = sqi[q] /\ d[l].p = p
  BY <1>0, Fields
<1>2. /\ Due(q)' = Due(q) /\ \A i : Id(q, i)' = Id(q, i) /\ \A n : Kept(q, n)' <=> Kept(q, n)
      /\ Due(q) \subseteq Posts(q)
  BY DEF Due, Window, Handed, Id, Kept
<1>3. \A i \in Due(q) : Id(q, i) # sqi[q] BY <1>2 DEF Numbers
<1>4. /\ \A i \in Due(q) : \A n \in DOMAIN c : c[n].id = Id(q, i) =>
           c[n].p \in (Awaited \cap executed) \ ready
      /\ \A m, n \in DOMAIN c : c[m].p = c[n].p /\ Kept(q, m) /\ Kept(q, n) => m = n
      /\ \A n \in DOMAIN c : Kept(q, n) => c[n].p # p
  BY DEF Owed
<1>5. completions'[q] = d /\ UNCHANGED <<executed, ready>> OBVIOUS
<1> HIDE DEF c, d, l
<1>6. ASSUME NEW i \in Due(q), NEW n \in DOMAIN d, d[n].id = Id(q, i)
      PROVE  d[n].p \in (Awaited' \cap executed) \ ready
  <2>1. n \in DOMAIN c BY <1>1, <1>3, <1>6
  <2> QED BY <1>1, <1>4, <1>6, <2>1
<1>7. ASSUME NEW m \in DOMAIN d, NEW n \in DOMAIN d, d[m].p = d[n].p, Kept(q, m), Kept(q, n)
      PROVE  m = n
  <2>1. CASE m \in DOMAIN c /\ n \in DOMAIN c BY <1>1, <1>4, <1>7, <2>1
  <2>2. CASE m = l /\ n \in DOMAIN c BY <1>1, <1>4, <1>7, <2>2
  <2>3. CASE n = l /\ m \in DOMAIN c BY <1>1, <1>4, <1>7, <2>3
  <2> QED BY <1>1, <2>1, <2>2, <2>3
<1> QED BY <1>2, <1>5, <1>6, <1>7 DEF Owed

\* The identifiers of the disk's commands: they come up again only after
\* twice as many commands as there are slots.
LEMMA TurningSent ==
  ASSUME NvmeInv, NEW op \in Ops \ {"none"}, NEW p \in Promises, RunCommand(Io, op, p),
         p[1] \in Readers, UNCHANGED <<cq, cqi, post>>,
         Cardinality(OfReaders) < Size[Io] - 1,
         Held(Io)' = Held(Io) \cup {Cmd(sqi[Io], p, op)}, Count(Io)' = Count(Io) + 1,
         sqi'[Io] = Up(sqi[Io], Turn(Io))
  PROVE  Turning'
<1> DEFINE c == completions[Io]  d == completions'[Io]  l == Len(c) + 1
           s == sqi[Io]  t == sqi'[Io]  m == Turn(Io)  a == Overtaken[Io]  k == Count(Io)
           b == post[Io]
<1>1. Io \in Queues /\ Types /\ Turning BY TwoQueues DEF NvmeInv
<1>2. /\ DOMAIN completions'[Io] = DOMAIN completions[Io] \cup {Len(completions[Io]) + 1}
      /\ \A n \in DOMAIN completions[Io] : completions'[Io][n] = completions[Io][n]
      /\ completions'[Io][Len(completions[Io]) + 1] = Entry(sqi[Io], p)
      /\ Len(completions'[Io]) = Len(completions[Io]) + 1
  BY <1>1, EntrySent, Zenon
<1>3. Window(Io)' = Window(Io) /\ (\A i : Id(Io, i)' = Id(Io, i)) /\ post'[Io] = post[Io]
      /\ cqi'[Io] = cqi[Io]
  BY DEF Window, Id
<1>4. /\ s \in 0 .. m - 1 /\ t = Up(s, m) /\ m \in Nat /\ m > 1 /\ b \in 0 .. m - 1
      /\ cqi[Io] \in 0 .. m - 1
  BY <1>1, Positions
<1>5. k \in Nat /\ k + Dist(cqi[Io], b, m) <= Size[Io] - 1 /\ a \in Nat /\ a + Size[Io] < m
      /\ Size[Io] \in Nat
  <2>1. /\ k \in Nat /\ k + Dist(cqi[Io], b, m) <= Cardinality(OfReaders) + 1
        /\ Cardinality(OfReaders) \in Nat
    BY DiskBounds
  <2>2. a \in Nat /\ a + Size[Io] < m /\ Size[Io] \in Nat BY <1>1, Sizes
  <2>3. Dist(cqi[Io], b, m) \in Nat BY <1>1, Positions
  <2> QED BY <2>1, <2>2, <2>3
<1>6. /\ \A n \in DOMAIN c : c[n].p[1] \in Readers
      /\ \A n \in DOMAIN c : (\E cmd \in Held(Io) : cmd.id = c[n].id)
                             \/ (\E i \in Window(Io) : Id(Io, i) = c[n].id)
      /\ \A cmd \in Held(Io) : Dist(cmd.id, s, m) \in 1 .. a + k
      /\ \A i \in Window(Io) : Dist(Id(Io, i), s, m) \in 1 .. a + k + Dist(i, b, m)
      /\ Len(c) = k + Dist(cqi[Io], b, m)
  BY <1>1 DEF Turning
<1>7. \A cmd \in Held(Io) : cmd.id \in 0 .. m - 1 BY <1>1, HeldTyped DEF Records
<1>8. \A i \in Window(Io) : Id(Io, i) \in 0 .. m - 1
  <2> SUFFICES ASSUME NEW i \in Window(Io) PROVE Id(Io, i) \in 0 .. m - 1 OBVIOUS
  <2>1. Slot(Io, i) \in 0 .. Size[Io] - 1 BY <1>1, SlotOf DEF Window
  <2>2. cq[Io] \in [0 .. Size[Io] - 1 -> [id : 0 .. Turn(Io) - 1, phase : {0, 1}]]
    BY <1>1 DEF Types
  <2> QED BY <2>1, <2>2 DEF Id
<1>9. Cmd(s, p, op).id = s /\ Entry(s, p).p = p /\ Entry(s, p).id = s BY Fields
<1>10. \A i \in Window(Io) : i \in 0 .. m - 1 /\ Dist(cqi[Io], i, m) < Dist(cqi[Io], b, m)
  BY DEF Window
<1> HIDE DEF s, t, m, a, k, b
<1>11. \A x \in 0 .. m - 1 : \A n \in Nat : Dist(x, s, m) \in 1 .. n /\ n + 1 < m =>
         Dist(x, t, m) \in 1 .. n + 1
  BY <1>4 DEF Dist, Up
<1>12. \A i \in Window(Io) : Dist(i, b, m) \in Nat /\ Dist(i, b, m) <= Dist(cqi[Io], b, m)
  BY <1>4, <1>10 DEF Dist
<1>13. Dist(s, t, m) = 1 BY <1>4 DEF Dist, Up
<1>14. Dist(cqi[Io], b, m) \in Nat BY <1>4 DEF Dist
<1>21. k \in Nat /\ a \in Nat /\ m \in Nat /\ Size[Io] \in Nat /\ a + Size[Io] < m
  BY <1>4, <1>5
<1>22. k <= Size[Io] - 1 BY <1>5, <1>14
<1>15. \A cmd \in Held(Io)' : Dist(cmd.id, t, m) \in 1 .. a + (k + 1)
  <2> SUFFICES ASSUME NEW cmd \in Held(Io)' PROVE Dist(cmd.id, t, m) \in 1 .. a + (k + 1) OBVIOUS
  <2>1. CASE cmd \in Held(Io)
    <3>0. a + k \in Nat /\ a + k + 1 < m BY <1>21, <1>22
    <3>1. Dist(cmd.id, s, m) \in 1 .. a + k /\ a + k \in Nat /\ a + k + 1 < m
      BY <1>6, <2>1, <3>0
    <3>2. Dist(cmd.id, t, m) \in 1 .. (a + k) + 1 BY <1>7, <1>11, <2>1, <3>1
    <3> QED BY <1>5, <3>2
  <2>2. CASE cmd = Cmd(s, p, op) BY <1>5, <1>9, <1>13, <2>2
  <2> QED BY <2>1, <2>2 DEF s
<1>16. \A i \in Window(Io) : Dist(Id(Io, i), t, m) \in 1 .. a + (k + 1) + Dist(i, b, m)
  <2> SUFFICES ASSUME NEW i \in Window(Io)
               PROVE Dist(Id(Io, i), t, m) \in 1 .. a + (k + 1) + Dist(i, b, m)
    OBVIOUS
  <2> DEFINE e == Dist(i, b, m)
  <2>1. e \in Nat /\ k + e <= Size[Io] - 1 BY <1>5, <1>12, <1>14
  <2>2. Dist(Id(Io, i), s, m) \in 1 .. a + k + e BY <1>6
  <2> HIDE DEF e
  <2>3. a + k + e \in Nat /\ a + k + e + 1 < m BY <1>21, <2>1
  <2>4. Dist(Id(Io, i), t, m) \in 1 .. (a + k + e) + 1 BY <1>8, <1>11, <2>2, <2>3
  <2> QED BY <1>5, <2>1, <2>4 DEF e
<1>17. Len(d) = (k + 1) + Dist(cqi[Io], b, m)
  BY <1>2, <1>5, <1>6, <1>14
<1>18. \A n \in DOMAIN d : d[n].p[1] \in Readers
  BY <1>2, <1>6, <1>9 DEF s
<1>19. ASSUME NEW n \in DOMAIN d
       PROVE (\E cmd \in Held(Io)' : cmd.id = d[n].id) \/ (\E i \in Window(Io) : Id(Io, i) = d[n].id)
  <2>1. CASE n \in DOMAIN c
    <3>1. d[n] = c[n] BY <1>2, <2>1
    <3>2. (\E cmd \in Held(Io) : cmd.id = c[n].id) \/ (\E i \in Window(Io) : Id(Io, i) = c[n].id)
      BY <1>6, <2>1
    <3> HIDE DEF c, d
    <3> QED BY <3>1, <3>2
  <2>2. CASE n = l
    <3>1. d[n].id = s BY <1>2, <1>9, <2>2 DEF s
    <3> HIDE DEF c, d
    <3>2. Cmd(s, p, op) \in Held(Io)' BY DEF s
    <3> QED BY <1>9, <3>1, <3>2
  <2> QED BY <1>2, <2>1, <2>2
<1>20. /\ completions'[Io] = d /\ Count(Io)' = k + 1 /\ sqi'[Io] = t /\ Turn(Io)' = m
       /\ post'[Io] = b
  BY <1>3 DEF t, k, m, b, Turn
<1> HIDE DEF c, d
<1> QED BY <1>3, <1>15, <1>16, <1>17, <1>18, <1>19, <1>20 DEF Turning, a

\* What a command sent keeps.
LEMMA SentKeeps ==
  ASSUME NvmeInv, NEW q \in Queues, NEW op \in Ops \ {"none"}, NEW p \in Promises, RunCommand(q, op, p),
         q \in created, UNCHANGED <<head, fetched, cq, cqi, post, step, at, executed, ready>>,
         Awaited' = Awaited \cup {p}, p \notin Awaited, p \notin ready,
         QueueOf(p) = q, OpOf(p) = op, Count(q) < Size[q] - 1,
         \A n \in DOMAIN completions[q] : Kept(q, n) => completions[q][n].p # p,
         q = Io => Cardinality(OfReaders) < Size[Io] - 1
  PROVE  /\ \A r \in Queues : Sending(r)' /\ Outstanding(r)' /\ Phases(r)' /\ Numbers(r)' /\ Owed(r)'
         /\ Apart' /\ Turning'
         /\ Count(q)' = Count(q) + 1 /\ sqi'[q] = Up(sqi[q], Turn(q))
         /\ \A r \in Queues \ {q} : Count(r)' = Count(r) /\ completions'[r] = completions[r]
                                    /\ sqi'[r] = sqi[r]
<1>1. Types /\ Apart /\ Turning /\ Scripts /\ Starting /\ Promising BY DEF NvmeInv
<1>2. \A r \in Queues : Sending(r) /\ Outstanding(r) /\ Phases(r) /\ Numbers(r) /\ Owed(r)
  BY DEF NvmeInv
<1>3. UNCHANGED <<head, fetched>> OBVIOUS
<1>4. /\ \A r \in Queues : Sending(r)'
      /\ Held(q)' = Held(q) \cup {Cmd(sqi[q], p, op)} /\ Count(q)' = Count(q) + 1
      /\ \A r \in Queues \ {q} : /\ Held(r)' = Held(r) /\ Count(r)' = Count(r)
  BY <1>1, <1>2, <1>3, SentIsHeld, Zenon
<1>5. /\ sqi'[q] = Up(sqi[q], Turn(q))
      /\ \A r \in Queues \ {q} : sqi'[r] = sqi[r] /\ completions'[r] = completions[r]
  BY <1>1, Sent, Zenon
<1>6. p \notin executed BY <1>1 DEF Promising
<1>7. \A r \in Queues : \A cmd \in Held(r) : cmd.p # p BY <1>2 DEF Outstanding
<1>8. Apart' BY <1>1, <1>2, <1>3, <1>7, SentIsApart, Zenon
<1>9. \A n \in DOMAIN completions[q] : completions[q][n].id # sqi[q] BY Fresh
<1>10. Numbers(q)'
  <2>1. Numbers(q) /\ UNCHANGED <<cq, cqi, post>> BY <1>2
  <2> QED BY <1>1, <1>4, <1>9, <2>1, NumbersSent, Zenon
<1>11. Window(q) \subseteq Posts(q)
  <2>1. CASE q = Io BY <2>1 DEF Posts
  <2>2. CASE q = Admin BY <1>1, <2>2, AdminBounds
  <2> QED BY <2>1, <2>2, TwoQueues
<1>12. Owed(q)'
  <2>1. /\ Owed(q) /\ Numbers(q) /\ UNCHANGED <<cq, cqi, post, step, at, executed, ready>>
        /\ Awaited \subseteq Awaited'
    BY <1>2
  <2> QED BY <1>1, <1>9, <1>11, <2>1, OwedSent, Zenon
<1>13. Outstanding(q)'
  <2>1. /\ Cmd(sqi[q], p, op).p = p /\ Cmd(sqi[q], p, op).op = op BY Fields
  <2>2. QueueOf(p)' = QueueOf(p) /\ OpOf(p)' = OpOf(p) BY DEF QueueOf, OpOf
  <2>3. \A x \in Held(q) : QueueOf(x.p)' = QueueOf(x.p) /\ OpOf(x.p)' = OpOf(x.p)
    BY DEF QueueOf, OpOf
  <2> DEFINE y == Cmd(sqi[q], p, op)
  <2>4. Held(q)' = Held(q) \cup {y} BY <1>4
  <2>5. y.p = p /\ y.op = op BY <2>1
  <2> HIDE DEF y
  <2>6. Outstanding(q) BY <1>2
  <2>7. ASSUME NEW cmd \in Held(q)'
        PROVE /\ QueueOf(cmd.p)' = q /\ cmd.op = OpOf(cmd.p)'
              /\ cmd.p \in Awaited' /\ cmd.p \notin executed \cup ready
    <3>1. CASE cmd \in Held(q) BY <2>3, <2>6, <3>1 DEF Outstanding
    <3>2. CASE cmd = y BY <1>6, <2>2, <2>5, <3>2
    <3> QED BY <2>4, <3>1, <3>2
  <2> QED BY <2>7 DEF Outstanding
<1>14. q = Io => Turning'
  <2> SUFFICES ASSUME q = Io PROVE Turning' OBVIOUS
  <2>1. p[1] \in Readers BY TwoQueues DEF QueueOf
  <2>2. /\ RunCommand(Io, op, p) /\ UNCHANGED <<cq, cqi, post>>
        /\ Cardinality(OfReaders) < Size[Io] - 1
        /\ Held(Io)' = Held(Io) \cup {Cmd(sqi[Io], p, op)} /\ Count(Io)' = Count(Io) + 1
        /\ sqi'[Io] = Up(sqi[Io], Turn(Io))
    BY <1>4, <1>5
  <2> QED BY <2>1, <2>2, TurningSent, Zenon
<1>15. ASSUME NEW r \in Queues, r # q
       PROVE Outstanding(r)' /\ Phases(r)' /\ Numbers(r)' /\ Owed(r)' /\ (r = Io => Turning')
  <2>1. /\ Held(r)' = Held(r) /\ Count(r)' = Count(r) /\ completions'[r] = completions[r]
        /\ sqi'[r] = sqi[r] /\ cq'[r] = cq[r] /\ post'[r] = post[r] /\ cqi'[r] = cqi[r]
    BY <1>4, <1>5, <1>15
  <2>2. Phases(r)' /\ Numbers(r)' /\ (r = Io => Turning') BY <1>1, <1>2, <2>1, RingKept
  <2>3. Outstanding(r)'
    <3>1. \A x \in Promises : x \in Awaited \ (executed \cup ready) =>
                              x \in Awaited' \ (executed' \cup ready')
      OBVIOUS
    <3> QED BY <1>1, <1>2, <2>1, <3>1, OutstandingKept, Zenon
  <2>4. Owed(r)'
    <3>1. \A x \in Promises : x \in (Awaited \cap executed) \ ready =>
                              x \in (Awaited' \cap executed') \ ready'
      OBVIOUS
    <3>2. UNCHANGED <<step, at>> OBVIOUS
    <3> QED BY <1>1, <1>2, <2>1, <3>1, <3>2, OwedKept, Zenon
  <2> QED BY <2>2, <2>3, <2>4
<1>16. Phases(q)'
  <2>1. Phases(q) /\ UNCHANGED <<cq, cqi, post>> BY <1>2
  <2> QED BY <2>1 DEF Phases, Window, Turn
<1>17. Turning' BY <1>14, <1>15, TwoQueues
<1> QED BY <1>4, <1>5, <1>8, <1>10, <1>12, <1>13, <1>15, <1>16, <1>17

-----------------------------------------------------------------------------
(* A command is executed.                                                  *)

LEMMA ExecuteTypes ==
  ASSUME NvmeInv, NEW f \in fetched, Execute(f)
  PROVE  /\ Types'
         /\ f.q \in Queues /\ f.cmd \in Held(f.q) /\ f.cmd.p \in Promises
         /\ post'[f.q] = Up(post[f.q], Turn(f.q))
         /\ cq'[f.q] = [cq[f.q] EXCEPT ![Slot(f.q, post[f.q])] =
                          [id |-> f.cmd.id, phase |-> PhaseAt(post[f.q], f.q)]]
         /\ \A r \in Queues \ {f.q} : post'[r] = post[r] /\ cq'[r] = cq[r]
<1> DEFINE q == f.q
<1>1. Types /\ Apart /\ \A r \in Queues : Sending(r) BY DEF NvmeInv
<1>2. q \in Queues /\ f.cmd \in Held(q) /\ IsFiniteSet(fetched') BY <1>1, ExecutedIsHeld
<1>3. f.cmd \in Records(q) BY <1>1, <1>2, HeldTyped
<1>4. f.cmd.p \in Promises /\ f.cmd.id \in 0 .. Turn(q) - 1 BY <1>3 DEF Records
<1>5. post[q] \in 0 .. Turn(q) - 1 BY <1>1, <1>2, Positions
<1>6. /\ post[q] % Size[q] = Slot(q, post[q]) /\ Slot(q, post[q]) \in 0 .. Size[q] - 1
      /\ NextIndex(post[q], q) = Up(post[q], Turn(q)) /\ Up(post[q], Turn(q)) \in 0 .. Turn(q) - 1
      /\ PhaseAt(post[q], q) \in {0, 1}
  BY <1>2, <1>5, SlotOf
<1>7. /\ cq' = [cq EXCEPT ![q][post[q] % Size[q]] =
                  [id |-> f.cmd.id, phase |-> PhaseAt(post[q], q)]]
      /\ post' = [post EXCEPT ![q] = (@ + 1) % (2 * Size[q])]
      /\ fetched' = fetched \ {f} /\ created' = Created(f.cmd.op) /\ irq' = irq \cup {Vector(q)}
      /\ executed' = executed \cup {f.cmd.p}
      /\ UNCHANGED <<queues, head, cqHead, cqi, msi, listeners, handling, completions, ready, tasks, run>>
  BY DEF Execute
<1>8. DOMAIN cq = Queues /\ DOMAIN post = Queues
      /\ cq[q] \in [0 .. Size[q] - 1 -> [id : 0 .. Turn(q) - 1, phase : {0, 1}]]
  BY <1>1, <1>2 DEF Types
<1>9. /\ cq'[q] = [cq[q] EXCEPT ![Slot(q, post[q])] =
                     [id |-> f.cmd.id, phase |-> PhaseAt(post[q], q)]]
      /\ \A r \in Queues \ {q} : cq'[r] = cq[r]
      /\ DOMAIN cq' = Queues
  BY <1>2, <1>6, <1>7, <1>8
<1>10. /\ post'[q] = Up(post[q], Turn(q)) /\ DOMAIN post' = Queues
       /\ \A r \in Queues \ {q} : post'[r] = post[r]
  BY <1>2, <1>6, <1>7, <1>8 DEF NextIndex
<1>11. cq'[q] \in [0 .. Size[q] - 1 -> [id : 0 .. Turn(q) - 1, phase : {0, 1}]]
  BY <1>4, <1>6, <1>8, <1>9
<1>12. created' \subseteq {Admin, "cq", Io} /\ Admin \in created'
  BY <1>1, <1>7 DEF Created, Types
<1>13. irq' \subseteq Queues BY <1>1, <1>2, <1>7, TwoQueues DEF Vector, Types
<1>14. executed' \subseteq Promises BY <1>1, <1>4, <1>7 DEF Types
<1>15. \A g \in fetched' : /\ g.q \in Queues /\ g.cmd \in Records(g.q)
                           /\ g = [q |-> g.q, cmd |-> g.cmd]
  BY <1>1, <1>7 DEF Types
<1>16. \A r \in Queues :
         /\ {sqi[r], post'[r], cqi[r]} \subseteq 0 .. Turn(r) - 1
         /\ {tail[r], head[r], cqHead[r]} \subseteq 0 .. Size[r] - 1
         /\ sq[r] \in [0 .. Size[r] - 1 -> Records(r)]
         /\ cq'[r] \in [0 .. Size[r] - 1 -> [id : 0 .. Turn(r) - 1, phase : {0, 1}]]
         /\ completions[r] \in Seq([id : 0 .. Turn(r) - 1, p : Promises])
  <2> TAKE r \in Queues
  <2>1. /\ {sqi[r], post[r], cqi[r]} \subseteq 0 .. Turn(r) - 1
        /\ {tail[r], head[r], cqHead[r]} \subseteq 0 .. Size[r] - 1
        /\ sq[r] \in [0 .. Size[r] - 1 -> Records(r)]
        /\ cq[r] \in [0 .. Size[r] - 1 -> [id : 0 .. Turn(r) - 1, phase : {0, 1}]]
        /\ completions[r] \in Seq([id : 0 .. Turn(r) - 1, p : Promises])
    BY <1>1 DEF Types
  <2>2. post'[r] \in 0 .. Turn(r) - 1
    <3>1. CASE r = q BY <1>6, <1>10, <3>1
    <3>2. CASE r # q BY <1>10, <2>1, <3>2
    <3> QED BY <3>1, <3>2
  <2>3. cq'[r] \in [0 .. Size[r] - 1 -> [id : 0 .. Turn(r) - 1, phase : {0, 1}]]
    <3>1. CASE r = q BY <1>11, <3>1
    <3>2. CASE r # q BY <1>9, <2>1, <3>2
    <3> QED BY <3>1, <3>2
  <2> QED BY <2>1, <2>2, <2>3
<1>17. /\ sq' = sq /\ sqi' = sqi /\ tail' = tail /\ head' = head /\ cqHead' = cqHead /\ cqi' = cqi
       /\ msi' = msi /\ step' = step /\ at' = at /\ completions' = completions /\ ready' = ready
       /\ todo' = todo /\ waiting' = waiting /\ pc' = pc /\ run' = run
  BY <1>7 DEF queues, handling, tasks
<1>18. /\ \A r \in Queues : Turn(r)' = Turn(r) /\ Records(r)' = Records(r) BY DEF Turn, Records
<1> HIDE DEF q
<1>19. Types'
  <2>1. /\ DOMAIN sq = Queues /\ DOMAIN completions = Queues /\ DOMAIN sqi = Queues
        /\ DOMAIN tail = Queues /\ DOMAIN head = Queues /\ DOMAIN cqHead = Queues
        /\ DOMAIN cqi = Queues /\ msi \in BOOLEAN /\ step \in {"look", "remove"} /\ at \in Nat \ {0}
        /\ ready \subseteq Promises /\ waiting \subseteq Tasks
        /\ todo \in [Tasks -> Seq(Promises)] /\ pc \in [Tasks -> Nat] /\ run \in Seq(Tasks)
    BY <1>1 DEF Types
  <2> QED BY <1>2, <1>9, <1>10, <1>12, <1>13, <1>14, <1>15, <1>16, <1>17, <1>18, <2>1 DEF Types
<1> QED BY <1>2, <1>4, <1>9, <1>10, <1>19 DEF q

LEMMA ExecuteKeeps ==
  ASSUME NvmeInv, NEW f \in fetched, Execute(f)
  PROVE  NvmeInv'
<1> DEFINE q == f.q  x == f.cmd
<1>0. PICK b : b = post[q] OBVIOUS
<1>1. Types /\ Apart /\ Turning /\ Starting /\ Handler /\ Scripts /\ Promising
  BY DEF NvmeInv
<1>2. \A r \in Queues : Sending(r) /\ Outstanding(r) /\ Phases(r) /\ Numbers(r) /\ Owed(r)
  BY DEF NvmeInv
<1>3. /\ Types' /\ q \in Queues /\ x \in Held(q) /\ x.p \in Promises
      /\ post'[q] = Up(post[q], Turn(q))
      /\ cq'[q] = [cq[q] EXCEPT ![Slot(q, post[q])] =
                     [id |-> x.id, phase |-> PhaseAt(post[q], q)]]
      /\ \A r \in Queues \ {q} : post'[r] = post[r] /\ cq'[r] = cq[r]
  BY ExecuteTypes
<1>4. /\ \A r \in Queues : Sending(r)'
      /\ Held(q)' = Held(q) \ {x} /\ Count(q)' = Count(q) - 1 /\ Count(q) > 0
      /\ \A cmd \in Held(q)' : cmd.p # x.p
      /\ \A r \in Queues \ {q} : Held(r)' = Held(r) /\ Count(r)' = Count(r)
      /\ Apart'
  BY <1>1, <1>2, ExecutedIsHeld
<1>5. /\ sqi' = sqi /\ cqi' = cqi /\ step' = step /\ at' = at /\ completions' = completions
      /\ ready' = ready /\ todo' = todo /\ pc' = pc /\ executed' = executed \cup {x.p}
      /\ handlers' = handlers /\ created' = Created(x.op)
  BY DEF Execute, queues, handling, tasks
<1>6. Awaited' = Awaited BY <1>5 DEF Awaited, ToAwait
<1>7. x.p \in Awaited /\ QueueOf(x.p) = q /\ x.op = OpOf(x.p) /\ x.p \notin executed \cup ready
  BY <1>2, <1>3 DEF Outstanding
<1>8. Dist(cqi[q], b, Turn(q)) < Size[q] /\ b \in 0 .. Turn(q) - 1 /\ Count(q) \in Nat
  <2>1. CASE q = Io
    <3>1. /\ Count(Io) \in Nat /\ Count(Io) + Dist(cqi[Io], post[Io], Turn(Io)) <= Cardinality(OfReaders) + 1
          /\ Cardinality(OfReaders) < Size[Io] /\ Cardinality(OfReaders) \in Nat
      BY DiskBounds
    <3>2. /\ Dist(cqi[Io], post[Io], Turn(Io)) \in Nat /\ Size[Io] \in Nat
          /\ post[Io] \in 0 .. Turn(Io) - 1
      BY <1>1, TwoQueues, Positions, Sizes
    <3> QED BY <1>0, <1>4, <2>1, <3>1, <3>2
  <2>2. CASE q = Admin
    <3>1. /\ Dist(cqi[Admin], post[Admin], Turn(Admin)) = post[Admin] - cqi[Admin]
          /\ post[Admin] \in 0 .. 5 /\ cqi[Admin] \in 0 .. 5 /\ Size[Admin] > 5 /\ Size[Admin] \in Nat
          /\ Turn(Admin) = 2 * Size[Admin] /\ Count(Admin) \in Nat
      BY <1>1, AdminBounds
    <3> QED BY <1>0, <2>2, <3>1
  <2> QED BY <1>3, <2>1, <2>2, TwoQueues
<1>9. /\ Window(q)' = Window(q) \cup {b} /\ b \notin Window(q)
      /\ Dist(cqi'[q], post'[q], Turn(q)) = Dist(cqi[q], b, Turn(q)) + 1
      /\ \A i \in Window(q) : Dist(i, post'[q], Turn(q)) = Dist(i, b, Turn(q)) + 1
      /\ Dist(b, post'[q], Turn(q)) = 1
  BY <1>0, <1>1, <1>3, <1>5, <1>8, PostedWindow
<1>10. /\ Phases(q)' /\ Id(q, b)' = x.id /\ \A i \in Window(q) : Id(q, i)' = Id(q, i)
       /\ \A i \in 0 .. Size[q] - 1 : i # b => Id(q, i)' = Id(q, i) \/ b >= Size[q]
  <2>1. \A z : z = post[q] => Id(q, z)' = x.id
    BY <1>0, <1>1, <1>2, <1>3, <1>5, <1>8, PostedPhases
  <2>2. /\ Phases(q)' /\ \A i \in Window(q) : Id(q, i)' = Id(q, i)
        /\ \A i \in 0 .. Size[q] - 1 : i # post[q] => Id(q, i)' = Id(q, i) \/ post[q] >= Size[q]
    BY <1>0, <1>1, <1>2, <1>3, <1>5, <1>8, PostedPhases
  <2> QED BY <1>0, <2>1, <2>2
<1>11. /\ b \notin Posts(q) /\ Posts(q)' = Posts(q) \cup {b}
       /\ \A i \in Posts(q) : Id(q, i)' = Id(q, i)
       /\ Window(q) \subseteq Posts(q)
  <2>1. CASE q = Io BY <1>9, <1>10, <2>1 DEF Posts
  <2>2. CASE q = Admin
    <3>1. /\ b \in 0 .. 5 /\ Up(b, Turn(Admin)) = b + 1 /\ Size[Admin] > 5 /\ Size[Admin] \in Nat
          /\ Window(Admin) \subseteq Posts(Admin)
      BY <1>0, <1>1, <2>2, AdminBounds
    <3>2. Posts(q) = 0 .. b - 1 /\ Posts(q)' = 0 .. b
      BY <1>0, <1>3, <2>2, <3>1, TwoQueues DEF Posts
    <3> HIDE DEF q
    <3> QED BY <1>10, <2>2, <3>1, <3>2
  <2> QED BY <1>3, <2>1, <2>2, TwoQueues
<1>12. Numbers(q)'
  <2>1. /\ Numbers(q) /\ completions'[q] = completions[q] /\ Held(q)' = Held(q) \ {x}
        /\ \A y \in Held(q)' : y.p # x.p
        /\ \A i \in Posts(q) : Id(q, i)' = Id(q, i)
    BY <1>2, <1>3, <1>4, <1>5, <1>11
  <2> HIDE DEF q, x
  <2> QED BY <1>3, <1>10, <1>11, <2>1, NumbersPosted
<1>13. \A r \in Queues \ {q} : \A cmd \in Held(r) : cmd.p # x.p
  BY <1>2, <1>7 DEF Outstanding
<1>14. ASSUME NEW r \in Queues PROVE Outstanding(r)'
  <2>1. Held(r)' \subseteq Held(r) /\ \A cmd \in Held(r)' : cmd.p # x.p
    <3>1. CASE r = q BY <1>4, <3>1
    <3>2. CASE r # q BY <1>4, <1>13, <3>2
    <3> QED BY <3>1, <3>2
  <2>2. \A p : QueueOf(p)' = QueueOf(p) /\ OpOf(p)' = OpOf(p) BY DEF QueueOf, OpOf
  <2>3. Outstanding(r) BY <1>2
  <2> HIDE DEF q, x
  <2> QED BY <1>5, <1>6, <2>1, <2>2, <2>3 DEF Outstanding
<1>15. ASSUME NEW r \in Queues, r # q
       PROVE Phases(r)' /\ Numbers(r)' /\ Owed(r)' /\ (r = Io => Turning')
             /\ \A i : Id(r, i)' = Id(r, i)
  <2>1. /\ Held(r)' = Held(r) /\ Count(r)' = Count(r) /\ completions'[r] = completions[r]
        /\ sqi'[r] = sqi[r] /\ cq'[r] = cq[r] /\ post'[r] = post[r] /\ cqi'[r] = cqi[r]
    BY <1>3, <1>4, <1>5, <1>15
  <2>2. Phases(r)' /\ Numbers(r)' /\ (r = Io => Turning') /\ \A i : Id(r, i)' = Id(r, i)
    BY <1>1, <1>2, <2>1, RingKept
  <2>3. \A p \in Promises : p \in (Awaited \cap executed) \ ready =>
                             p \in (Awaited' \cap executed') \ ready'
    BY <1>5, <1>6
  <2>4. UNCHANGED <<step, at>> /\ Owed(r) BY <1>2, <1>5
  <2>5. Owed(r)' BY <1>1, <2>1, <2>3, <2>4, OwedKept, Zenon
  <2> QED BY <2>2, <2>5
<1>16. Owed(q)'
  <2> DEFINE c == completions[q]
  <2>1. /\ \A i \in Due(q) : \A n \in DOMAIN c : c[n].id = Id(q, i) =>
             c[n].p \in (Awaited \cap executed) \ ready
        /\ \A m, n \in DOMAIN c : c[m].p = c[n].p /\ Kept(q, m) /\ Kept(q, n) => m = n
    BY <1>2, <1>3 DEF Owed
  <2>2. /\ \A m, n \in DOMAIN c : c[m].id = c[n].id => m = n
        /\ \A cmd \in Held(q) : \E n \in DOMAIN c : c[n].id = cmd.id /\ c[n].p = cmd.p
    BY <1>2, <1>3 DEF Numbers
  <2>3. Due(q)' \subseteq Due(q) \cup {b} /\ Due(q) \subseteq Window(q)
    BY <1>5, <1>9 DEF Due, Handed
  <2>4. \A n : Kept(q, n)' <=> Kept(q, n) BY <1>5 DEF Kept
  <2>5. completions'[q] = c BY <1>5
  <2> HIDE DEF c, q, x
  <2>6. ASSUME NEW i \in Due(q)', NEW n \in DOMAIN c, c[n].id = Id(q, i)'
        PROVE  c[n].p \in (Awaited' \cap executed') \ ready'
    <3>1. CASE i \in Due(q)
      <4>1. c[n].id = Id(q, i) BY <1>10, <2>3, <2>6, <3>1
      <4> QED BY <1>5, <1>6, <2>1, <3>1, <4>1
    <3>2. CASE i = b
      <4>1. PICK m \in DOMAIN c : c[m].id = x.id /\ c[m].p = x.p BY <1>3, <2>2
      <4>2. m = n BY <1>10, <2>2, <2>6, <3>2, <4>1
      <4> QED BY <1>5, <1>6, <1>7, <4>1, <4>2
    <3> QED BY <2>3, <3>1, <3>2
  <2> QED BY <2>1, <2>4, <2>5, <2>6 DEF Owed
<1>17. q = Io => Turning'
  <2> SUFFICES ASSUME q = Io PROVE Turning' OBVIOUS
  <2> DEFINE c == completions[Io]  s == sqi[Io]  m == Turn(Io)  a == Overtaken[Io]  k == Count(Io)
             d == Dist(cqi[Io], b, m)
  <2>1. /\ Len(c) = k + Dist(cqi[Io], post[Io], m)
        /\ \A n \in DOMAIN c : c[n].p[1] \in Readers
        /\ \A n \in DOMAIN c : (\E cmd \in Held(Io) : cmd.id = c[n].id)
                               \/ (\E i \in Window(Io) : Id(Io, i) = c[n].id)
        /\ \A cmd \in Held(Io) : Dist(cmd.id, s, m) \in 1 .. a + k
        /\ \A i \in Window(Io) : Dist(Id(Io, i), s, m) \in 1 .. a + k + Dist(i, post[Io], m)
    BY <1>1 DEF Turning
  <2>2. /\ a \in Nat /\ k \in Nat /\ k > 0 /\ Count(Io)' = k - 1 /\ m \in Nat
    BY <1>4, <1>8, TwoQueues, Sizes, Positions, <1>1
  <2>3. \A cmd \in Held(Io)' : Dist(cmd.id, s, m) <= a
    <3> SUFFICES ASSUME NEW cmd \in Held(Io)' PROVE Dist(cmd.id, s, m) <= a OBVIOUS
    <3>1. cmd \in Held(Io) /\ cmd # x BY <1>4
    <3>2. Overtakes(f) BY DEF Execute
    <3>3. Live(Io) = Held(Io) BY <1>1, <1>2, TwoQueues, LiveIsHeld
    <3>4. (s - cmd.id) % (2 * Size[Io]) <= a BY <3>1, <3>2, <3>3 DEF Overtakes
    <3>5. cmd.id \in 0 .. m - 1 /\ s \in 0 .. m - 1 /\ m > 0
      BY <1>1, <3>1, TwoQueues, HeldTyped, Positions DEF Records
    <3>6. (s - cmd.id) % m = Dist(cmd.id, s, m) BY <2>2, <3>5, Circle
    <3> QED BY <3>4, <3>6, TwoQueues, Sizes DEF Turn
  <2>4. /\ completions'[Io] = c /\ sqi'[Io] = s /\ Turn(Io)' = m
        /\ Dist(cqi'[Io], post'[Io], m) = d + 1 /\ Window(Io)' = Window(Io) \cup {b}
        /\ \A i \in Window(Io) : Dist(i, post'[Io], m) = Dist(i, b, m) + 1
        /\ Dist(b, post'[Io], m) = 1 /\ b = post[Io]
        /\ Held(Io)' = Held(Io) \ {x} /\ x \in Held(Io)
        /\ Id(Io, b)' = x.id /\ \A i \in Window(Io) : Id(Io, i)' = Id(Io, i)
    BY <1>0, <1>3, <1>4, <1>5, <1>9, <1>10 DEF Turn
  <2>5. d \in Nat /\ \A i \in Window(Io) : Dist(i, b, m) \in Nat
    <3>1. /\ cqi[Io] \in 0 .. m - 1 /\ b \in 0 .. m - 1 BY <1>0, <1>1, TwoQueues, Positions
    <3>2. Window(Io) \subseteq 0 .. m - 1 BY DEF Window
    <3> QED BY <2>2, <3>1, <3>2 DEF Dist
  <2> HIDE DEF c, s, m, a, k, d, x
  <2>6. Len(c) = (k - 1) + (d + 1) BY <2>1, <2>2, <2>4, <2>5 DEF d
  <2>7. \A cmd \in Held(Io)' : Dist(cmd.id, s, m) \in 1 .. a + (k - 1)
    <3> SUFFICES ASSUME NEW cmd \in Held(Io)' PROVE Dist(cmd.id, s, m) \in 1 .. a + (k - 1) OBVIOUS
    <3>1. Dist(cmd.id, s, m) \in 1 .. a + k BY <2>1, <2>4
    <3>2. Dist(cmd.id, s, m) <= a BY <2>3
    <3> QED BY <2>2, <3>1, <3>2
  <2>8. ASSUME NEW i \in Window(Io)'
        PROVE Dist(Id(Io, i)', s, m) \in 1 .. a + (k - 1) + Dist(i, post'[Io], m)
    <3>1. CASE i \in Window(Io)
      <4>1. Dist(Id(Io, i), s, m) \in 1 .. a + k + Dist(i, b, m) BY <2>1, <2>4, <3>1
      <4>2. Dist(i, post'[Io], m) = Dist(i, b, m) + 1 /\ Dist(i, b, m) \in Nat BY <2>4, <2>5, <3>1
      <4>3. Id(Io, i)' = Id(Io, i) BY <2>4, <3>1
      <4> QED BY <2>2, <4>1, <4>2, <4>3
    <3>2. CASE i = b
      <4>1. Dist(x.id, s, m) \in 1 .. a + k BY <2>1, <2>4
      <4>2. Id(Io, i)' = x.id /\ Dist(i, post'[Io], m) = 1 BY <2>4, <3>2
      <4> QED BY <2>2, <4>1, <4>2
    <3> QED BY <2>4, <3>1, <3>2
  <2>9. ASSUME NEW n \in DOMAIN c
        PROVE (\E cmd \in Held(Io)' : cmd.id = c[n].id) \/ (\E i \in Window(Io)' : Id(Io, i)' = c[n].id)
    <3>1. ASSUME NEW cmd \in Held(Io), cmd.id = c[n].id
          PROVE (\E y \in Held(Io)' : y.id = c[n].id) \/ (\E i \in Window(Io)' : Id(Io, i)' = c[n].id)
      BY <2>4, <3>1
    <3>2. ASSUME NEW i \in Window(Io), Id(Io, i) = c[n].id
          PROVE \E j \in Window(Io)' : Id(Io, j)' = c[n].id
      BY <2>4, <3>2
    <3> QED BY <2>1, <3>1, <3>2
  <2> QED BY <2>1, <2>2, <2>4, <2>6, <2>7, <2>8, <2>9 DEF Turning, a
<1>18. Turning' BY <1>3, <1>15, <1>17, TwoQueues
<1>19. Starting'
  <2>1. SentBy(Device)' = SentBy(Device) /\ SentBy(Disk)' = SentBy(Disk)
        /\ \A c : SentBy(c)' = SentBy(c)
    BY <1>5 DEF SentBy
  <2>2. Count(Admin)' + post'[Admin] = Count(Admin) + post[Admin] /\ cqi[Admin] <= post'[Admin]
    <3>1. /\ post[Admin] \in 0 .. 5 /\ Up(post[Admin], Turn(Admin)) = post[Admin] + 1
          /\ cqi[Admin] \in 0 .. 5 /\ cqi[Admin] <= post[Admin] /\ Count(Admin) \in Nat
      BY <1>1, AdminBounds
    <3>2. CASE q = Admin
      <4>1. post'[Admin] = post[Admin] + 1 /\ Count(Admin)' = Count(Admin) - 1
        BY <1>3, <1>4, <3>1, <3>2
      <4> QED BY <3>1, <4>1
    <3>3. CASE q # Admin
      <4>1. post'[Admin] = post[Admin] /\ Count(Admin)' = Count(Admin)
        BY <1>3, <1>4, <3>3, TwoQueues
      <4> QED BY <3>1, <4>1
    <3> QED BY <3>2, <3>3
  <2> QED BY <1>1, <1>5, <2>1, <2>2 DEF Starting
<1>20. Handler'
  <2>1. ASSUME NEW r \in Queues, NEW z, z = cqi[r], z # post[r]
        PROVE z # post'[r] /\ Id(r, z)' = Id(r, z)
    <3>1. CASE r = q
      <4>1. z \in Window(q) BY <1>1, <2>1, <3>1, Positions
      <4>2. Dist(cqi'[q], post'[q], Turn(q)) = Dist(cqi[q], b, Turn(q)) + 1 BY <1>9
      <4>3. Dist(cqi[q], b, Turn(q)) \in Nat /\ cqi[q] \in 0 .. Turn(q) - 1 /\ Turn(q) \in Nat
        BY <1>0, <1>1, <1>3, Positions
      <4>4. Dist(z, z, Turn(q)) = 0 BY <2>1, <3>1, <4>3 DEF Dist
      <4>5. z # post'[q] BY <1>5, <2>1, <3>1, <4>2, <4>3, <4>4
      <4> QED BY <1>10, <3>1, <4>1, <4>5
    <3>2. CASE r # q BY <1>3, <1>15, <2>1, <3>2
    <3> QED BY <3>1, <3>2
  <2>2. ASSUME step = "remove"
        PROVE  /\ handlers # <<>> /\ Head(handlers) = Io /\ cqi[Io] # post'[Io]
               /\ at \in DOMAIN completions[Io]
               /\ \A z : z = cqi[Io] => completions[Io][at].id = Id(Io, z)'
    <3>1. /\ handlers # <<>> /\ Head(handlers) = Io /\ cqi[Io] # post[Io]
          /\ at \in DOMAIN completions[Io] /\ completions[Io][at].id = Id(Io, cqi[Io])
      BY <1>1, <2>2 DEF Handler
    <3> QED BY <2>1, <3>1, TwoQueues
  <2>3. ASSUME step = "look", at # 1
        PROVE  /\ handlers # <<>> /\ Head(handlers) = Admin /\ cqi[Admin] # post'[Admin]
               /\ \A z : z = cqi[Admin] => at = Id(Admin, z)' + 2
    <3>1. /\ handlers # <<>> /\ Head(handlers) = Admin /\ cqi[Admin] # post[Admin]
          /\ at = Id(Admin, cqi[Admin]) + 2
      BY <1>1, <2>3 DEF Handler
    <3> QED BY <2>1, <3>1, TwoQueues
  <2> QED BY <1>5, <2>2, <2>3 DEF Handler
<1>21. Scripts'
  <2>1. /\ todo' = todo /\ pc' = pc /\ ready' = ready /\ executed' = executed \cup {x.p}
        /\ created' = Created(x.op)
    BY <1>5
  <2>2. created \subseteq created' BY <2>1 DEF Created
  <2>3. /\ pc[Disk] \in 5 .. 7 \/ <<Disk, 2>> \in executed \cup ready => "cq" \in created
        /\ pc[Disk] = 7 \/ <<Disk, 3>> \in executed \cup ready => Io \in created
        /\ \A c \in Readers : pc[c] > 0 => Io \in created /\ pc[Disk] = 8
    BY <1>1 DEF Scripts
  <2>4. x.p = <<Disk, 2>> => "cq" \in created'
    <3>1. OpOf(<<Disk, 2>>) = "cq" BY IsPromise DEF OpOf
    <3> HIDE DEF x
    <3> QED BY <1>7, <2>1, <3>1 DEF Created
  <2>5. x.p = <<Disk, 3>> => Io \in created'
    <3> SUFFICES ASSUME x.p = <<Disk, 3>> PROVE Io \in created' OBVIOUS
    <3>1. OpOf(<<Disk, 3>>) = "sq" BY IsPromise DEF OpOf
    <3>2. PICK i \in DOMAIN todo[Disk] : todo[Disk][i] = <<Disk, 3>>
      <4> DEFINE y == <<Disk, 3>>
      <4>1. y \in Awaited /\ y \in Promises /\ y[1] = Disk BY <1>3, <1>7
      <4> HIDE DEF y
      <4>2. \E i \in DOMAIN todo[y[1]] : todo[y[1]][i] = y BY <4>1, AwaitedIs
      <4> QED BY <4>1, <4>2 DEF y
    <3>3. pc[Disk] = 6
      <4>1. todo[Disk] = CASE pc[Disk] = 2 -> << <<Disk, 1>> >>
                           [] pc[Disk] = 4 -> << <<Disk, 2>> >>
                           [] pc[Disk] = 6 -> << <<Disk, 3>> >>
                           [] OTHER -> <<>>
        BY <1>1 DEF Scripts
      <4> QED BY <3>2, <4>1
    <3>4. "cq" \in created BY <2>3, <3>3
    <3>5. x.op = "sq" BY <1>7, <3>1
    <3> HIDE DEF x
    <3> QED BY <2>1, <3>4, <3>5 DEF Created
  <2> HIDE DEF x, q
  <2>6. /\ pc'[Disk] \in 5 .. 7 \/ <<Disk, 2>> \in executed' \cup ready' => "cq" \in created'
        /\ pc'[Disk] = 7 \/ <<Disk, 3>> \in executed' \cup ready' => Io \in created'
        /\ \A c \in Readers : pc'[c] > 0 => Io \in created' /\ pc'[Disk] = 8
    BY <2>1, <2>2, <2>3, <2>4, <2>5
  <2> QED BY <1>1, <2>1, <2>6 DEF Scripts
<1>22. Promising'
  <2>1. OfReaders' = OfReaders BY <1>5 DEF OfReaders, ToAwait
  <2>2. \A c, m : Reads(c, m)' <=> Reads(c, m) BY <1>5 DEF Reads
  <2>3. \A c : SentBy(c)' = SentBy(c) BY <1>5 DEF SentBy
  <2>4. executed' \subseteq Awaited' /\ ready' \cap Awaited' \subseteq executed'
    BY <1>1, <1>5, <1>6, <1>7 DEF Promising
  <2> QED BY <1>1, <1>5, <1>6, <2>1, <2>2, <2>3, <2>4 DEF Promising
<1>23. \A r \in Queues : Sending(r)' /\ Outstanding(r)' /\ Phases(r)' /\ Numbers(r)' /\ Owed(r)'
  BY <1>4, <1>10, <1>12, <1>14, <1>15, <1>16
<1> QED BY <1>3, <1>4, <1>18, <1>19, <1>20, <1>21, <1>22, <1>23 DEF NvmeInv

-----------------------------------------------------------------------------
(* A command is fetched.                                                   *)

LEMMA HandlerKept ==
  ASSUME Handler, UNCHANGED <<handlers, step, at, cqi, post, cq, completions>>
  PROVE  Handler'
BY DEF Handler, Id

LEMMA StartingKept ==
  ASSUME Starting, Count(Admin)' = Count(Admin), completions'[Admin] = completions[Admin],
         post'[Admin] = post[Admin], cqi'[Admin] = cqi[Admin], sqi'[Admin] = sqi[Admin],
         UNCHANGED pc
  PROVE  Starting'
<1>1. \A c : SentBy(c)' = SentBy(c) BY DEF SentBy
<1> QED BY <1>1 DEF Starting

LEMMA ScriptsKept ==
  ASSUME Scripts, UNCHANGED <<todo, pc, executed, ready, created>>
  PROVE  Scripts'
BY DEF Scripts

LEMMA PromisingKept ==
  ASSUME Promising, UNCHANGED <<todo, pc, executed, ready>>
  PROVE  Promising'
<1>1. OfReaders' = OfReaders /\ Awaited' = Awaited BY DEF OfReaders, Awaited, ToAwait
<1>2. \A c, m : Reads(c, m)' <=> Reads(c, m) BY DEF Reads
<1>3. \A c : SentBy(c)' = SentBy(c) BY DEF SentBy
<1> QED BY <1>1, <1>2, <1>3 DEF Promising

LEMMA FetchKeeps ==
  ASSUME NvmeInv, NEW q \in Queues, Fetch(q)
  PROVE  NvmeInv'
<1>1. Types /\ Apart /\ Turning /\ Starting /\ Handler /\ Scripts /\ Promising
  BY DEF NvmeInv
<1>2. \A r \in Queues : Sending(r) /\ Outstanding(r) /\ Phases(r) /\ Numbers(r) /\ Owed(r)
  BY DEF NvmeInv
<1>3. /\ sqi' = sqi /\ tail' = tail /\ created' = created /\ cq' = cq /\ post' = post
      /\ cqHead' = cqHead /\ cqi' = cqi /\ msi' = msi /\ irq' = irq /\ listeners' = listeners
      /\ handlers' = handlers /\ step' = step /\ at' = at /\ completions' = completions
      /\ ready' = ready /\ todo' = todo /\ waiting' = waiting /\ pc' = pc /\ run' = run
      /\ executed' = executed
      /\ head' = [head EXCEPT ![q] = (@ + 1) % Size[q]]
      /\ sq' = [sq EXCEPT ![q][head[q]] = NoCommand]
  BY DEF Fetch, handling, tasks
<1>4. /\ \A r \in Queues : Sending(r)' /\ Held(r)' = Held(r) /\ Count(r)' = Count(r)
      /\ Apart'
      /\ IsFiniteSet(fetched')
      /\ \E x : /\ fetched' = fetched \cup {x} /\ x.q = q /\ x.cmd \in Held(q)
                /\ x = [q |-> x.q, cmd |-> x.cmd]
  BY <1>1, <1>2, FetchedIsHeld
<1>5. Awaited' = Awaited BY <1>3 DEF Awaited, ToAwait
<1>6. ASSUME NEW r \in Queues
      PROVE  Outstanding(r)' /\ Phases(r)' /\ Numbers(r)' /\ Owed(r)' /\ (r = Io => Turning')
  <2>1. /\ Held(r)' = Held(r) /\ Count(r)' = Count(r) /\ completions'[r] = completions[r]
        /\ sqi'[r] = sqi[r] /\ cq'[r] = cq[r] /\ post'[r] = post[r] /\ cqi'[r] = cqi[r]
    BY <1>3, <1>4
  <2>2. Phases(r)' /\ Numbers(r)' /\ (r = Io => Turning') BY <1>1, <1>2, <2>1, RingKept
  <2>3. Outstanding(r)'
    <3>1. \A x \in Promises : x \in Awaited \ (executed \cup ready) =>
                              x \in Awaited' \ (executed' \cup ready')
      BY <1>3, <1>5
    <3> QED BY <1>1, <1>2, <2>1, <3>1, OutstandingKept, Zenon
  <2>4. Owed(r)'
    <3>1. \A x \in Promises : x \in (Awaited \cap executed) \ ready =>
                              x \in (Awaited' \cap executed') \ ready'
      BY <1>3, <1>5
    <3>2. UNCHANGED <<step, at>> BY <1>3
    <3> QED BY <1>1, <1>2, <2>1, <3>1, <3>2, OwedKept, Zenon
  <2> QED BY <2>2, <2>3, <2>4
<1>7. /\ DOMAIN sq' = Queues /\ DOMAIN head' = Queues
      /\ \A r \in Queues : /\ head'[r] \in 0 .. Size[r] - 1
                           /\ sq'[r] \in [0 .. Size[r] - 1 -> Records(r)]
  <2>1. /\ DOMAIN sq = Queues /\ DOMAIN head = Queues
        /\ \A r \in Queues : /\ head[r] \in 0 .. Size[r] - 1
                             /\ sq[r] \in [0 .. Size[r] - 1 -> Records(r)]
    BY <1>1 DEF Types
  <2>2. (head[q] + 1) % Size[q] \in 0 .. Size[q] - 1
    <3>1. Size[q] \in Nat /\ Size[q] > 0 BY Sizes
    <3>2. (head[q] + 1) % Size[q] = Up(head[q], Size[q]) BY <2>1, <3>1, Circle
    <3> QED BY <2>1, <3>1, <3>2 DEF Up
  <2>3. NoCommand \in Records(q)
    <3>1. <<Device, 1>> \in Promises BY IsPromise
    <3>2. 0 \in 0 .. Turn(q) - 1 BY Sizes
    <3> QED BY <3>1, <3>2 DEF Records, NoCommand, Ops
  <2>4. sq'[q] \in [0 .. Size[q] - 1 -> Records(q)]
    <3>1. sq'[q] = [sq[q] EXCEPT ![head[q]] = NoCommand] BY <1>3, <2>1
    <3> QED BY <2>1, <2>3, <3>1
  <2>5. DOMAIN sq' = Queues /\ DOMAIN head' = Queues BY <1>3, <2>1
  <2>6. head'[q] \in 0 .. Size[q] - 1 BY <1>3, <2>1, <2>2
  <2>7. \A r \in Queues \ {q} : head'[r] = head[r] /\ sq'[r] = sq[r] BY <1>3, <2>1
  <2> QED BY <2>1, <2>4, <2>5, <2>6, <2>7
<1>8. \A g \in fetched' : g.q \in Queues /\ g.cmd \in Records(g.q) /\ g = [q |-> g.q, cmd |-> g.cmd]
  <2>1. PICK x : /\ fetched' = fetched \cup {x} /\ x.q = q /\ x.cmd \in Held(q)
                 /\ x = [q |-> x.q, cmd |-> x.cmd]
    BY <1>4
  <2>2. x.cmd \in Records(q) BY <1>1, <2>1, HeldTyped
  <2>3. \A g \in fetched : g.q \in Queues /\ g.cmd \in Records(g.q) /\ g = [q |-> g.q, cmd |-> g.cmd]
    BY <1>1 DEF Types
  <2> QED BY <2>1, <2>2, <2>3
<1>9. \A r \in Queues : Turn(r)' = Turn(r) /\ Records(r)' = Records(r) BY DEF Turn, Records
<1>10. Types'
  <2>1. /\ DOMAIN cq = Queues /\ DOMAIN completions = Queues /\ DOMAIN sqi = Queues
        /\ DOMAIN tail = Queues /\ DOMAIN post = Queues /\ DOMAIN cqHead = Queues
        /\ DOMAIN cqi = Queues /\ msi \in BOOLEAN /\ step \in {"look", "remove"} /\ at \in Nat \ {0}
        /\ ready \subseteq Promises /\ waiting \subseteq Tasks /\ executed \subseteq Promises
        /\ todo \in [Tasks -> Seq(Promises)] /\ pc \in [Tasks -> Nat] /\ run \in Seq(Tasks)
        /\ created \subseteq {Admin, "cq", Io} /\ Admin \in created /\ irq \subseteq Queues
    BY <1>1 DEF Types
  <2>2. \A r \in Queues :
          /\ {sqi[r], post[r], cqi[r]} \subseteq 0 .. Turn(r) - 1
          /\ {tail[r], cqHead[r]} \subseteq 0 .. Size[r] - 1
          /\ cq[r] \in [0 .. Size[r] - 1 -> [id : 0 .. Turn(r) - 1, phase : {0, 1}]]
          /\ completions[r] \in Seq([id : 0 .. Turn(r) - 1, p : Promises])
    BY <1>1 DEF Types
  <2>3. ASSUME NEW r \in Queues
        PROVE /\ {sqi'[r], post'[r], cqi'[r]} \subseteq 0 .. Turn(r)' - 1
              /\ {tail'[r], head'[r], cqHead'[r]} \subseteq 0 .. Size[r] - 1
              /\ sq'[r] \in [0 .. Size[r] - 1 -> Records(r)']
              /\ cq'[r] \in [0 .. Size[r] - 1 -> [id : 0 .. Turn(r)' - 1, phase : {0, 1}]]
              /\ completions'[r] \in Seq([id : 0 .. Turn(r)' - 1, p : Promises])
    <3>1. head'[r] \in 0 .. Size[r] - 1 /\ sq'[r] \in [0 .. Size[r] - 1 -> Records(r)] BY <1>7
    <3> QED BY <1>3, <1>9, <2>2, <3>1
  <2>4. \A g \in fetched' : g.q \in Queues /\ g.cmd \in Records(g.q)' /\ g = [q |-> g.q, cmd |-> g.cmd]
    BY <1>8, <1>9
  <2> QED BY <1>3, <1>4, <1>7, <2>1, <2>3, <2>4 DEF Types
<1>11. Starting' BY <1>1, <1>3, <1>4, TwoQueues, StartingKept
<1>12. Handler' BY <1>1, <1>3, HandlerKept
<1>13. Scripts' BY <1>1, <1>3, ScriptsKept
<1>14. Promising' BY <1>1, <1>3, PromisingKept
<1>15. Turning' BY <1>6, TwoQueues
<1> QED BY <1>4, <1>6, <1>10, <1>11, <1>12, <1>13, <1>14, <1>15 DEF NvmeInv

-----------------------------------------------------------------------------
(* A completion is handled.                                                *)

\* The handler looks at a completion that the controller has put there.
LEMMA ValidIs ==
  ASSUME NvmeInv, NEW q \in Queues, Valid(cqi[q], q)
  PROVE  /\ cqi[q] \in Window(q) /\ cqi[q] # post[q] /\ cqi[q] \in Posts(q)
         /\ cq[q][cqi[q] % Size[q]].id = Id(q, cqi[q])
<1>1. Types /\ Phases(q) /\ Starting /\ Scripts BY DEF NvmeInv
<1>2. cqi[q] \in 0 .. Turn(q) - 1 /\ Size[q] \in Nat /\ Size[q] > 0 BY <1>1, Positions, Sizes
<1>3. cqi[q] % Size[q] = Slot(q, cqi[q]) BY <1>2, SlotOf
<1>4. Dist(cqi[q], cqi[q], Turn(q)) = 0 BY <1>2 DEF Dist
<1>5. cqi[q] \in Window(q) BY <1>1, <1>2, <1>3, <1>4 DEF Phases, Valid
<1>6. Window(q) \subseteq Posts(q)
  <2>1. CASE q = Io BY <2>1 DEF Posts
  <2>2. CASE q = Admin BY <1>1, <2>2, AdminBounds
  <2> QED BY <2>1, <2>2, TwoQueues
<1>7. cqi[q] # post[q] BY <1>1, <1>5, Positions
<1> QED BY <1>3, <1>5, <1>6, <1>7 DEF Id

\* It finds the entry when it has not found one before.
LEMMA MatchesAre ==
  ASSUME NvmeInv, NEW q \in Queues, Handling(q, "look"), Valid(cqi[q], q)
  PROVE  /\ at = 1 => Matches(q) # {}
         /\ Matches(q) # {} => at = 1
         /\ q = Io => at = 1
         /\ \A n \in Matches(q) : n \in DOMAIN completions[q] /\ completions[q][n].id = Id(q, cqi[q])
<1>1. Types /\ Numbers(q) /\ Starting /\ Handler BY DEF NvmeInv
<1>2. cqi[q] \in Posts(q) /\ cq[q][cqi[q] % Size[q]].id = Id(q, cqi[q]) BY ValidIs
<1>3. PICK k \in DOMAIN completions[q] : completions[q][k].id = Id(q, cqi[q])
  BY <1>1, <1>2 DEF Numbers
<1>4. DOMAIN completions[q] = 1 .. Len(completions[q]) /\ Len(completions[q]) \in Nat
  BY <1>1, EntryTyped
<1>5. \A n : n \in Matches(q) <=>
        n \in DOMAIN completions[q] /\ n >= at /\ completions[q][n].id = Id(q, cqi[q])
  BY <1>2 DEF Matches
<1>6. at = 1 => k \in Matches(q)
  <2>1. k >= 1 BY <1>4
  <2> QED BY <1>3, <1>5, <2>1
<1>7. q = Io => at = 1 BY <1>1, TwoQueues DEF Handler, Handling
<1>8. ASSUME q = Admin, at # 1, NEW n \in Matches(q) PROVE FALSE
  <2>1. at = Id(q, cqi[q]) + 2 BY <1>1, <1>8 DEF Handler, Handling
  <2>2. completions[q][n].id = n - 1 /\ n >= at /\ completions[q][n].id = Id(q, cqi[q]) /\ n \in Nat
    BY <1>1, <1>4, <1>5, <1>8 DEF Starting
  <2> QED BY <2>1, <2>2
<1> QED BY <1>5, <1>6, <1>7, <1>8, TwoQueues

LEMMA MatchIs ==
  ASSUME NvmeInv, NEW q \in Queues, Match(q)
  PROVE  /\ at = 1 /\ step = "look" /\ cqi[q] \in Window(q) /\ cqi[q] # post[q]
         /\ handlers # <<>> /\ Head(handlers) = q
         /\ \E n \in DOMAIN completions[q] :
              /\ completions[q][n].id = Id(q, cqi[q])
              /\ completions[q][n].p \in (Awaited \cap executed) \ ready
              /\ SetValue(completions[q][n].p)
              /\ q = Io => step' = "remove" /\ at' = n
              /\ q = Admin => step' = step /\ at' = n + 1
<1>1. /\ Handling(q, "look") /\ Valid(cqi[q], q) /\ Matches(q) # {} BY DEF Match
<1>2. Types /\ Owed(q) BY DEF NvmeInv
<1>3. at = 1 /\ \A n \in Matches(q) : n \in DOMAIN completions[q] /\ completions[q][n].id = Id(q, cqi[q])
  BY <1>1, MatchesAre
<1>4. cqi[q] \in Window(q) /\ cqi[q] # post[q] BY <1>1, ValidIs
<1>5. step = "look" /\ handlers # <<>> /\ Head(handlers) = q BY <1>1 DEF Handling
<1> DEFINE n == CHOOSE n \in Matches(q) : \A m \in Matches(q) : n <= m
<1>6. n \in Matches(q)
  <2>1. \A a, b \in Matches(q) : a = b
    <3>1. Numbers(q) BY DEF NvmeInv
    <3> QED BY <1>3, <3>1 DEF Numbers
  <2>2. PICK k : k \in Matches(q) BY <1>1
  <2>3. k \in Nat
    <3>1. k \in DOMAIN completions[q] BY <1>3, <2>2
    <3> QED BY <1>2, <3>1, EntryTyped
  <2>4. \A m \in Matches(q) : k <= m BY <2>1, <2>2, <2>3
  <2> QED BY <2>2, <2>4
<1>7. /\ SetValue(completions[q][n].p)
      /\ q = Io => step' = "remove" /\ at' = n
      /\ q = Admin => step' = step /\ at' = n + 1
  BY TwoQueues DEF Match
<1> HIDE DEF n
<1>8. cqi[q] \in Due(q) BY <1>3, <1>4, <1>5 DEF Due, Handed
<1>9. completions[q][n].p \in (Awaited \cap executed) \ ready BY <1>2, <1>3, <1>6, <1>8 DEF Owed
<1> QED BY <1>3, <1>4, <1>5, <1>6, <1>7, <1>9

LEMMA QueuesKept ==
  ASSUME \A q \in Queues : Sending(q), Apart, UNCHANGED <<sq, sqi, tail, head, fetched>>
  PROVE  /\ \A q \in Queues : Held(q)' = Held(q) /\ Count(q)' = Count(q) /\ Sending(q)'
         /\ Apart'
<1>1. ASSUME NEW q \in Queues
      PROVE Full(q)' = Full(q) /\ Held(q)' = Held(q) /\ Count(q)' = Count(q) /\ Sending(q)'
  <2>1. Fetched(q)' = Fetched(q) BY DEF Fetched
  <2>2. Sending(q) /\ sq'[q] = sq[q] /\ sqi'[q] = sqi[q] /\ tail'[q] = tail[q] /\ head'[q] = head[q]
    OBVIOUS
  <2> QED BY <2>1, <2>2, QueueKept
<1>2. Apart' BY <1>1 DEF Apart
<1> QED BY <1>1, <1>2

LEMMA MatchKeeps ==
  ASSUME NvmeInv, NEW q \in Queues, Match(q)
  PROVE  NvmeInv'
<1>1. Types /\ Apart /\ Turning /\ Starting /\ Handler /\ Scripts /\ Promising
  BY DEF NvmeInv
<1>2. \A r \in Queues : Sending(r) /\ Outstanding(r) /\ Phases(r) /\ Numbers(r) /\ Owed(r)
  BY DEF NvmeInv
<1>3. /\ sq' = sq /\ sqi' = sqi /\ tail' = tail /\ head' = head /\ fetched' = fetched
      /\ created' = created /\ cq' = cq /\ post' = post /\ cqHead' = cqHead /\ cqi' = cqi
      /\ msi' = msi /\ irq' = irq /\ listeners' = listeners /\ handlers' = handlers
      /\ completions' = completions /\ todo' = todo /\ pc' = pc /\ executed' = executed
  BY DEF Match, queues, controller
<1>4. /\ at = 1 /\ step = "look" /\ cqi[q] \in Window(q) /\ cqi[q] # post[q]
      /\ handlers # <<>> /\ Head(handlers) = q
  BY MatchIs
<1>5. PICK n \in DOMAIN completions[q] :
              /\ completions[q][n].id = Id(q, cqi[q])
              /\ completions[q][n].p \in (Awaited \cap executed) \ ready
              /\ SetValue(completions[q][n].p)
              /\ q = Io => step' = "remove" /\ at' = n
              /\ q = Admin => step' = step /\ at' = n + 1
  BY MatchIs
<1>6. PICK p \in Promises : p = completions[q][n].p BY <1>1, EntryTyped
<1>7. ready' = ready \cup {p} /\ p \in (Awaited \cap executed) \ ready BY <1>5, <1>6 DEF SetValue
<1>8. Awaited' = Awaited /\ OfReaders' = OfReaders BY <1>3 DEF Awaited, OfReaders, ToAwait
<1>9. /\ \A r \in Queues : Held(r)' = Held(r) /\ Count(r)' = Count(r) /\ Sending(r)'
      /\ Apart'
  BY <1>1, <1>2, <1>3, QueuesKept
<1>10. ASSUME NEW r \in Queues
       PROVE Outstanding(r)' /\ Phases(r)' /\ Numbers(r)' /\ (r = Io => Turning')
             /\ Window(r)' = Window(r) /\ \A i : Id(r, i)' = Id(r, i)
  <2>1. /\ Held(r)' = Held(r) /\ Count(r)' = Count(r) /\ completions'[r] = completions[r]
        /\ sqi'[r] = sqi[r] /\ cq'[r] = cq[r] /\ post'[r] = post[r] /\ cqi'[r] = cqi[r]
    BY <1>3, <1>9
  <2>2. Phases(r)' /\ Numbers(r)' /\ (r = Io => Turning') /\ Window(r)' = Window(r)
        /\ \A i : Id(r, i)' = Id(r, i)
    BY <1>1, <1>2, <2>1, RingKept
  <2>3. Outstanding(r)'
    <3>1. \A x \in Promises : x \in Awaited \ (executed \cup ready) =>
                              x \in Awaited' \ (executed' \cup ready')
      BY <1>3, <1>7, <1>8
    <3> QED BY <1>1, <1>2, <2>1, <3>1, OutstandingKept, Zenon
  <2> QED BY <2>2, <2>3
<1>11. \A r \in Queues : \A m : Kept(r, m) BY <1>4 DEF Kept
<1>12. n \in Nat /\ n # 0 /\ n + 1 # 1 BY <1>1, EntryTyped
<1>23. \A r \in Queues : ~Handed(r) BY <1>4 DEF Handed
<1>13. Handed(q)'
  <2>2. CASE q = Io BY <1>5, <2>2 DEF Handed
  <2>3. CASE q = Admin BY <1>4, <1>5, <1>12, <2>3, TwoQueues DEF Handed
  <2> QED BY <2>2, <2>3, TwoQueues
<1>14. ASSUME NEW r \in Queues, r # q PROVE ~Handed(r)'
  <2>1. CASE q = Io BY <1>5, <1>14, <2>1, TwoQueues DEF Handed
  <2>2. CASE q = Admin BY <1>4, <1>5, <1>14, <2>2, TwoQueues DEF Handed
  <2> QED BY <2>1, <2>2, TwoQueues
<1>15. \A r \in Queues : \A m \in DOMAIN completions[r] : \A i \in Due(r)' :
         completions[r][m].id = Id(r, i) => completions[r][m].p # p
  <2> SUFFICES ASSUME NEW r \in Queues, NEW m \in DOMAIN completions[r], NEW i \in Due(r)',
                      completions[r][m].id = Id(r, i), completions[r][m].p = p
               PROVE FALSE
    OBVIOUS
  <2>1. CASE r = q
    <3>1. i \in Window(q) /\ i # cqi[q] BY <1>3, <1>10, <1>13, <2>1 DEF Due
    <3>2. m = n BY <1>2, <1>6, <1>11, <2>1 DEF Owed
    <3>3. Window(q) \subseteq Posts(q)
      <4>1. CASE q = Io BY <4>1 DEF Posts
      <4>2. CASE q = Admin BY <1>1, <4>2, AdminBounds
      <4> QED BY <4>1, <4>2, TwoQueues
    <3>4. Id(q, i) = Id(q, cqi[q]) BY <1>5, <2>1, <3>2
    <3>5. i = cqi[q] BY <1>2, <1>4, <3>1, <3>3, <3>4 DEF Numbers
    <3> QED BY <3>1, <3>5
  <2>2. CASE r # q
    <3>1. \A k \in DOMAIN completions[Io] : completions[Io][k].p[1] \in Readers
      BY <1>1 DEF Turning
    <3>2. \A k \in DOMAIN completions[Admin] : completions[Admin][k].p[1] \in {Device, Disk}
      BY <1>1 DEF Starting
    <3>3. CASE q = Io BY <1>6, <2>2, <3>1, <3>2, <3>3, IsPromise, TwoQueues
    <3>4. CASE q = Admin BY <1>6, <2>2, <3>1, <3>2, <3>4, IsPromise, TwoQueues
    <3> QED BY <3>3, <3>4, TwoQueues
  <2> QED BY <2>1, <2>2
<1>16. ASSUME NEW r \in Queues PROVE Owed(r)'
  <2>1. Due(r)' \subseteq Due(r)
    <3>1. Due(r) = Window(r) BY <1>23 DEF Due
    <3> QED BY <1>10, <3>1 DEF Due
  <2>2. \A i \in Due(r) : \A m \in DOMAIN completions[r] : completions[r][m].id = Id(r, i) =>
          completions[r][m].p \in (Awaited \cap executed) \ ready
    BY <1>2 DEF Owed
  <2>3. \A i, j \in DOMAIN completions[r] : completions[r][i].p = completions[r][j].p => i = j
    BY <1>2, <1>11 DEF Owed
  <2>4. \A i \in Due(r)' : \A m \in DOMAIN completions[r] : completions[r][m].id = Id(r, i)' =>
          completions[r][m].p \in (Awaited' \cap executed') \ ready'
    <3> SUFFICES ASSUME NEW i \in Due(r)', NEW m \in DOMAIN completions[r],
                        completions[r][m].id = Id(r, i)'
                 PROVE completions[r][m].p \in (Awaited' \cap executed') \ ready'
      OBVIOUS
    <3>1. completions[r][m].id = Id(r, i) BY <1>10
    <3>2. completions[r][m].p # p BY <1>15, <3>1
    <3>3. completions[r][m].p \in (Awaited \cap executed) \ ready BY <2>1, <2>2, <3>1
    <3> QED BY <1>3, <1>7, <1>8, <3>2, <3>3
  <2>5. completions'[r] = completions[r] BY <1>3
  <2> QED BY <2>3, <2>4, <2>5 DEF Owed
<1>17. Types'
  <2>1. /\ ready' \subseteq Promises BY <1>1, <1>7 DEF Types
  <2>2. step' \in {"look", "remove"} /\ at' \in Nat \ {0}
    <3>1. CASE q = Io BY <1>5, <1>12, <3>1
    <3>2. CASE q = Admin BY <1>4, <1>5, <1>12, <3>2
    <3> QED BY <3>1, <3>2, TwoQueues
  <2>3. p[1] \in Tasks BY PromiseParts
  <2>4. waiting' \subseteq Tasks /\ run' \in Seq(Tasks)
    <3>1. waiting \subseteq Tasks /\ run \in Seq(Tasks) BY <1>1 DEF Types
    <3>2. \/ run' = <<p[1]>> /\ waiting' = waiting \ {p[1]}
          \/ run' = run /\ waiting' = waiting
      BY <1>5, <1>6 DEF SetValue
    <3>3. \A x \in Tasks : <<x>> \in Seq(Tasks) OBVIOUS
    <3>4. CASE run' = <<p[1]>> /\ waiting' = waiting \ {p[1]}
      <4>1. run' \in Seq(Tasks) BY <2>3, <3>3, <3>4
      <4> QED BY <3>1, <3>4, <4>1
    <3>5. CASE run' = run /\ waiting' = waiting BY <3>1, <3>5
    <3> QED BY <3>2, <3>4, <3>5
  <2>5. \A r \in Queues : Turn(r)' = Turn(r) /\ Records(r)' = Records(r) BY DEF Turn, Records
  <2> QED BY <1>1, <1>3, <2>1, <2>2, <2>4, <2>5 DEF Types
<1>18. Starting' BY <1>1, <1>3, <1>9, TwoQueues, StartingKept
<1>19. Handler'
  <2>1. \A r \in Queues : Id(r, cqi[r])' = Id(r, cqi[r]) BY <1>3 DEF Id
  <2>2. CASE q = Io
    <3>1. step' = "remove" /\ at' = n BY <1>5, <2>2
    <3>2. completions'[Io][n].id = Id(Io, cqi[Io])' /\ n \in DOMAIN completions'[Io]
      BY <1>3, <1>5, <2>1, <2>2
    <3> QED BY <1>3, <1>4, <2>2, <3>1, <3>2 DEF Handler
  <2>3. CASE q = Admin
    <3>1. step' = "look" /\ at' = n + 1 BY <1>4, <1>5, <2>3
    <3>2. n = Id(Admin, cqi[Admin]) + 1
      <4>1. completions[Admin][n].id = n - 1 BY <1>1, <2>3 DEF Starting
      <4> QED BY <1>5, <1>12, <2>3, <4>1
    <3>3. at' = Id(Admin, cqi[Admin])' + 2
      <4>1. Id(Admin, cqi[Admin])' = Id(Admin, cqi[Admin]) BY <2>1, TwoQueues
      <4>2. Id(Admin, cqi[Admin]) = n - 1 BY <1>1, <1>5, <2>3 DEF Starting
      <4> QED BY <1>12, <3>1, <4>1, <4>2
    <3> QED BY <1>3, <1>4, <2>3, <3>1, <3>3 DEF Handler
  <2> QED BY <2>2, <2>3, TwoQueues
<1>20. Scripts'
  <2>1. executed' \cup ready' = executed \cup ready BY <1>3, <1>7
  <2> QED BY <1>1, <1>3, <2>1 DEF Scripts
<1>21. Promising'
  <2>1. \A c, m : Reads(c, m)' <=> Reads(c, m) BY <1>3 DEF Reads
  <2>2. \A c : SentBy(c)' = SentBy(c) BY <1>3 DEF SentBy
  <2>3. p[1] \notin Readers => p[2] <= SentBy(p[1])
    <3>1. CASE q = Io
      <4>1. p[1] \in Readers BY <1>1, <1>6, <3>1 DEF Turning
      <4> QED BY <4>1
    <3>2. CASE q = Admin BY <1>1, <1>6, <3>2 DEF Starting
    <3> QED BY <3>1, <3>2, TwoQueues
  <2>4. ready' \cap Awaited' \subseteq executed' BY <1>1, <1>3, <1>7, <1>8 DEF Promising
  <2>5. \A x \in ready' : IF x[1] \in Readers THEN x \in Awaited' ELSE x[2] <= SentBy(x[1])'
    <3> SUFFICES ASSUME NEW x \in ready'
                 PROVE IF x[1] \in Readers THEN x \in Awaited' ELSE x[2] <= SentBy(x[1])'
      OBVIOUS
    <3>1. CASE x \in ready BY <1>1, <1>8, <2>2, <3>1 DEF Promising
    <3>2. CASE x = p BY <1>7, <1>8, <2>2, <2>3, <3>2
    <3> QED BY <1>7, <3>1, <3>2
  <2> QED BY <1>1, <1>3, <1>8, <2>1, <2>2, <2>4, <2>5 DEF Promising
<1>22. Turning' BY <1>10, TwoQueues
<1> QED BY <1>9, <1>10, <1>16, <1>17, <1>18, <1>19, <1>20, <1>21, <1>22 DEF NvmeInv

\* The types of what a handler or a task changes.
LEMMA TypesKept ==
  ASSUME Types, UNCHANGED <<sq, cq, sqi, tail, head, post, fetched, created>>,
         DOMAIN cqi' = Queues, DOMAIN completions' = Queues, DOMAIN cqHead' = Queues,
         \A r \in Queues :
           /\ cqi'[r] \in 0 .. Turn(r) - 1 /\ cqHead'[r] \in 0 .. Size[r] - 1
           /\ completions'[r] \in Seq([id : 0 .. Turn(r) - 1, p : Promises]),
         msi' \in BOOLEAN, irq' \subseteq Queues, step' \in {"look", "remove"}, at' \in Nat \ {0},
         ready' \subseteq Promises, executed' \subseteq Promises, waiting' \subseteq Tasks,
         todo' \in [Tasks -> Seq(Promises)], pc' \in [Tasks -> Nat], run' \in Seq(Tasks)
  PROVE  Types'
<1>1. \A r \in Queues : Turn(r)' = Turn(r) /\ Records(r)' = Records(r) BY DEF Turn, Records
<1>2. ASSUME NEW r \in Queues
      PROVE /\ {sqi'[r], post'[r], cqi'[r]} \subseteq 0 .. Turn(r)' - 1
            /\ {tail'[r], head'[r], cqHead'[r]} \subseteq 0 .. Size[r] - 1
            /\ sq'[r] \in [0 .. Size[r] - 1 -> Records(r)']
            /\ cq'[r] \in [0 .. Size[r] - 1 -> [id : 0 .. Turn(r)' - 1, phase : {0, 1}]]
            /\ completions'[r] \in Seq([id : 0 .. Turn(r)' - 1, p : Promises])
  <2>1. /\ {sqi[r], post[r], cqi[r]} \subseteq 0 .. Turn(r) - 1
        /\ {tail[r], head[r], cqHead[r]} \subseteq 0 .. Size[r] - 1
        /\ sq[r] \in [0 .. Size[r] - 1 -> Records(r)]
        /\ cq[r] \in [0 .. Size[r] - 1 -> [id : 0 .. Turn(r) - 1, phase : {0, 1}]]
    BY DEF Types
  <2> QED BY <1>1, <2>1
<1>3. /\ DOMAIN sq' = Queues /\ DOMAIN cq' = Queues /\ DOMAIN sqi' = Queues
      /\ DOMAIN tail' = Queues /\ DOMAIN head' = Queues /\ DOMAIN post' = Queues
      /\ IsFiniteSet(fetched') /\ created' \subseteq {Admin, "cq", Io} /\ Admin \in created'
  BY DEF Types
<1>4. \A f \in fetched' : /\ f.q \in Queues /\ f.cmd \in Records(f.q)'
                          /\ f = [q |-> f.q, cmd |-> f.cmd]
  BY <1>1 DEF Types
<1> QED BY <1>2, <1>3, <1>4 DEF Types

LEMMA NoMatchKeeps ==
  ASSUME NvmeInv, NEW q \in Queues, NoMatch(q)
  PROVE  NvmeInv'
<1>1. Types /\ Apart /\ Turning /\ Starting /\ Handler /\ Scripts /\ Promising
  BY DEF NvmeInv
<1>2. \A r \in Queues : Sending(r) /\ Outstanding(r) /\ Phases(r) /\ Numbers(r) /\ Owed(r)
  BY DEF NvmeInv
<1>3. /\ sq' = sq /\ sqi' = sqi /\ tail' = tail /\ head' = head /\ fetched' = fetched
      /\ created' = created /\ cq' = cq /\ post' = post /\ cqHead' = cqHead
      /\ msi' = msi /\ irq' = irq /\ listeners' = listeners /\ handlers' = handlers
      /\ step' = step /\ completions' = completions /\ ready' = ready /\ todo' = todo
      /\ waiting' = waiting /\ pc' = pc /\ run' = run /\ executed' = executed
      /\ cqi' = [cqi EXCEPT ![q] = (@ + 1) % (2 * Size[q])] /\ at' = 1
  BY DEF NoMatch, queues, controller, tasks
<1>4. Handling(q, "look") /\ Valid(cqi[q], q) /\ Matches(q) = {} BY DEF NoMatch
<1>5. at # 1 /\ q = Admin
  <2>1. /\ at = 1 => Matches(q) # {}
        /\ q = Io => at = 1
    BY <1>4, MatchesAre
  <2> QED BY <1>4, <2>1, TwoQueues
<1>6. cqi[q] \in Window(q) /\ cqi[q] # post[q] BY <1>4, ValidIs
<1>7. step = "look" BY <1>4 DEF Handling
<1>8. /\ cqi'[Admin] = Up(cqi[Admin], Turn(Admin)) /\ cqi'[Admin] = cqi[Admin] + 1
      /\ cqi[Admin] < post[Admin] /\ post[Admin] \in 0 .. 5 /\ cqi[Admin] \in 0 .. 5
      /\ cqi'[Io] = cqi[Io] /\ DOMAIN cqi' = Queues
  <2>1. /\ cqi[Admin] \in 0 .. 5 /\ post[Admin] \in 0 .. 5 /\ cqi[Admin] <= post[Admin]
        /\ Up(cqi[Admin], Turn(Admin)) = cqi[Admin] + 1
    BY <1>1, AdminBounds
  <2>2. NextIndex(cqi[Admin], Admin) = Up(cqi[Admin], Turn(Admin))
    BY <1>1, TwoQueues, Positions, SlotOf
  <2>3. DOMAIN cqi = Queues BY <1>1 DEF Types
  <2> QED BY <1>3, <1>5, <1>6, <2>1, <2>2, <2>3, TwoQueues DEF NextIndex
<1>9. /\ \A r \in Queues : Held(r)' = Held(r) /\ Count(r)' = Count(r) /\ Sending(r)'
      /\ Apart'
  BY <1>1, <1>2, <1>3, QueuesKept
<1>10. Awaited' = Awaited BY <1>3 DEF Awaited, ToAwait
<1>11. /\ Window(Admin)' = Window(Admin) \ {cqi[Admin]} /\ Posts(Admin)' = Posts(Admin)
       /\ \A i : Id(Admin, i)' = Id(Admin, i)
       /\ Phases(Admin)'
  <2>1. Window(Admin)' = Window(Admin) \ {cqi[Admin]}
    BY <1>1, <1>3, <1>5, <1>6, <1>8, TwoQueues, HandledWindow
  <2>2. Phases(Admin)' BY <1>1, <1>2, <1>3, <1>5, <1>6, <1>8, TwoQueues, HandledPhases
  <2>3. Posts(Admin)' = Posts(Admin) BY <1>3, TwoQueues DEF Posts
  <2>4. \A i : Id(Admin, i)' = Id(Admin, i) BY <1>3 DEF Id
  <2> QED BY <2>1, <2>2, <2>3, <2>4
<1>12. ASSUME NEW r \in Queues PROVE Outstanding(r)'
  <2>1. \A x \in Promises : x \in Awaited \ (executed \cup ready) =>
                            x \in Awaited' \ (executed' \cup ready')
    BY <1>3, <1>10
  <2>2. Held(r)' = Held(r) BY <1>9
  <2> QED BY <1>1, <1>2, <2>1, <2>2, OutstandingKept, Zenon
<1>13. Phases(Io)' /\ Numbers(Io)' /\ Turning' /\ Window(Io)' = Window(Io) /\ \A i : Id(Io, i)' = Id(Io, i)
  <2>1. /\ Held(Io)' = Held(Io) /\ Count(Io)' = Count(Io) /\ completions'[Io] = completions[Io]
        /\ sqi'[Io] = sqi[Io] /\ cq'[Io] = cq[Io] /\ post'[Io] = post[Io] /\ cqi'[Io] = cqi[Io]
    BY <1>3, <1>8, <1>9, TwoQueues
  <2> QED BY <1>1, <1>2, <2>1, TwoQueues, RingKept
<1>14. Numbers(Admin)'
  <2>1. /\ Held(Admin)' = Held(Admin) /\ completions'[Admin] = completions[Admin]
        /\ cq'[Admin] = cq[Admin] /\ Posts(Admin)' = Posts(Admin) /\ Numbers(Admin)
    BY <1>2, <1>3, <1>9, <1>11, TwoQueues
  <2> QED BY <2>1, TwoQueues, NumbersKept
<1>15. ASSUME NEW r \in Queues PROVE Owed(r)'
  <2>1. Due(r)' = Due(r)
    <3>1. CASE r = Admin
      <4>1. Handed(Admin) /\ ~Handed(Admin)' BY <1>3, <1>5, <1>7, TwoQueues DEF Handed
      <4> QED BY <1>11, <3>1, <4>1 DEF Due
    <3>2. CASE r = Io
      <4>1. ~Handed(Io) /\ ~Handed(Io)' BY <1>3, <1>7 DEF Handed
      <4> QED BY <1>13, <3>2, <4>1 DEF Due
    <3> QED BY <3>1, <3>2, TwoQueues
  <2>2. \A i : Id(r, i)' = Id(r, i) BY <1>3 DEF Id
  <2>3. \A n : Kept(r, n)' <=> Kept(r, n) BY <1>3, <1>7 DEF Kept
  <2>4. \A x \in Promises : x \in (Awaited \cap executed) \ ready =>
                            x \in (Awaited' \cap executed') \ ready'
    BY <1>3, <1>10
  <2>5. completions'[r] = completions[r] /\ Owed(r) BY <1>2, <1>3
  <2> QED BY <1>1, <2>1, <2>2, <2>3, <2>4, <2>5, OwedStays, Zenon
<1>16. Types'
  <2>2. \A r \in Queues : cqi'[r] \in 0 .. Turn(r) - 1
    <3>1. cqi[Io] \in 0 .. Turn(Io) - 1 BY <1>1, TwoQueues, Positions
    <3>2. cqi'[Admin] \in 0 .. Turn(Admin) - 1
      BY <1>1, <1>8, TwoQueues, Positions, SlotOf
    <3> QED BY <1>8, <3>1, <3>2, TwoQueues
  <2>4. /\ DOMAIN completions = Queues /\ DOMAIN cqHead = Queues
        /\ \A r \in Queues : cqHead[r] \in 0 .. Size[r] - 1
        /\ msi \in BOOLEAN /\ irq \subseteq Queues
        /\ ready \subseteq Promises /\ executed \subseteq Promises /\ waiting \subseteq Tasks
        /\ todo \in [Tasks -> Seq(Promises)] /\ pc \in [Tasks -> Nat] /\ run \in Seq(Tasks)
    BY <1>1 DEF Types
  <2>5. \A r \in Queues : completions[r] \in Seq([id : 0 .. Turn(r) - 1, p : Promises])
    BY <1>1, EntryTyped
  <2>6. step' \in {"look", "remove"} /\ at' \in Nat \ {0} BY <1>3, <1>7
  <2> QED BY <1>1, <1>3, <1>8, <2>2, <2>4, <2>5, <2>6, TypesKept
<1>17. Starting'
  <2>1. \A c : SentBy(c)' = SentBy(c) BY <1>3 DEF SentBy
  <2>2. cqi'[Admin] <= post'[Admin] BY <1>3, <1>8
  <2> QED BY <1>1, <1>3, <1>9, <2>1, <2>2, TwoQueues DEF Starting
<1>18. Handler' BY <1>3, <1>7 DEF Handler
<1>19. Scripts' BY <1>1, <1>3, ScriptsKept
<1>20. Promising' BY <1>1, <1>3, PromisingKept
<1>21. \A r \in Queues : Phases(r)' /\ Numbers(r)' BY <1>11, <1>13, <1>14, TwoQueues
<1> QED BY <1>9, <1>12, <1>13, <1>15, <1>16, <1>17, <1>18, <1>19, <1>20, <1>21 DEF NvmeInv

LEMMA RemoveKeeps ==
  ASSUME NvmeInv, Remove
  PROVE  NvmeInv'
<1>1. Types /\ Apart /\ Turning /\ Starting /\ Handler /\ Scripts /\ Promising
  BY DEF NvmeInv
<1>2. \A r \in Queues : Sending(r) /\ Outstanding(r) /\ Phases(r) /\ Numbers(r) /\ Owed(r)
  BY DEF NvmeInv
<1>3. /\ sq' = sq /\ sqi' = sqi /\ tail' = tail /\ head' = head /\ fetched' = fetched
      /\ created' = created /\ cq' = cq /\ post' = post /\ cqHead' = cqHead
      /\ msi' = msi /\ irq' = irq /\ listeners' = listeners /\ handlers' = handlers
      /\ ready' = ready /\ todo' = todo
      /\ waiting' = waiting /\ pc' = pc /\ run' = run /\ executed' = executed
      /\ cqi' = [cqi EXCEPT ![Io] = (@ + 1) % (2 * Size[Io])] /\ at' = 1 /\ step' = "look"
      /\ completions' = [completions EXCEPT ![Io] = Without(@, at)]
  BY DEF Remove, queues, controller, tasks
<1>4. step = "remove" BY DEF Remove, Handling
<1>5. /\ cqi[Io] # post[Io] /\ at \in DOMAIN completions[Io]
      /\ completions[Io][at].id = Id(Io, cqi[Io])
  BY <1>1, <1>4 DEF Handler
<1>6. /\ cqi'[Io] = Up(cqi[Io], Turn(Io)) /\ cqi'[Admin] = cqi[Admin] /\ DOMAIN cqi' = Queues
      /\ completions'[Io] = Without(completions[Io], at)
      /\ completions'[Admin] = completions[Admin] /\ DOMAIN completions' = Queues
      /\ cqi'[Io] \in 0 .. Turn(Io) - 1
  <2>1. NextIndex(cqi[Io], Io) = Up(cqi[Io], Turn(Io)) /\ Up(cqi[Io], Turn(Io)) \in 0 .. Turn(Io) - 1
    BY <1>1, TwoQueues, Positions, SlotOf
  <2>2. DOMAIN cqi = Queues /\ DOMAIN completions = Queues BY <1>1 DEF Types
  <2> QED BY <1>3, <2>1, <2>2, TwoQueues DEF NextIndex
<1>7. /\ \A r \in Queues : Held(r)' = Held(r) /\ Count(r)' = Count(r) /\ Sending(r)'
      /\ Apart'
  BY <1>1, <1>2, <1>3, QueuesKept
<1>8. Awaited' = Awaited BY <1>3 DEF Awaited, ToAwait
<1>9. /\ Window(Io)' = Window(Io) \ {cqi[Io]} /\ cqi[Io] \in Window(Io)
      /\ Dist(cqi'[Io], post'[Io], Turn(Io)) = Dist(cqi[Io], post[Io], Turn(Io)) - 1
      /\ Phases(Io)' /\ \A i : Id(Io, i)' = Id(Io, i)
  <2>1. /\ Window(Io)' = Window(Io) \ {cqi[Io]} /\ cqi[Io] \in Window(Io)
        /\ Dist(cqi'[Io], post'[Io], Turn(Io)) = Dist(cqi[Io], post[Io], Turn(Io)) - 1
    BY <1>1, <1>3, <1>5, <1>6, TwoQueues, HandledWindow
  <2>2. Phases(Io)' BY <1>1, <1>2, <1>3, <1>5, <1>6, TwoQueues, HandledPhases
  <2>3. \A i : Id(Io, i)' = Id(Io, i) BY <1>3 DEF Id
  <2> QED BY <2>1, <2>2, <2>3
<1>10. Posts(Io) = Window(Io) /\ Posts(Io)' = Window(Io)' BY DEF Posts
<1>11. PICK a : a = cqi[Io] OBVIOUS
<1>12. Numbers(Io)'
  <2>1. /\ Io \in Queues /\ Numbers(Io) /\ at \in DOMAIN completions[Io]
        /\ completions'[Io] = Without(completions[Io], at) /\ Held(Io)' = Held(Io)
        /\ cq'[Io] = cq[Io] /\ a \in Posts(Io) /\ completions[Io][at].id = Id(Io, a)
        /\ Posts(Io)' = Posts(Io) \ {a}
    BY <1>2, <1>3, <1>5, <1>6, <1>7, <1>9, <1>10, <1>11, TwoQueues
  <2>2. PICK k : k = at OBVIOUS
  <2>3. /\ k \in DOMAIN completions[Io] /\ completions'[Io] = Without(completions[Io], k)
        /\ completions[Io][k].id = Id(Io, a)
    BY <2>1, <2>2
  <2> QED BY <1>1, <2>1, <2>3, NumbersRemoved, Zenon
<1>13. ASSUME NEW r \in Queues PROVE Outstanding(r)'
  <2>1. \A x \in Promises : x \in Awaited \ (executed \cup ready) =>
                            x \in Awaited' \ (executed' \cup ready')
    BY <1>3, <1>8
  <2>2. Held(r)' = Held(r) BY <1>7
  <2> QED BY <1>1, <1>2, <2>1, <2>2, OutstandingKept, Zenon
<1>14. Phases(Admin)' /\ Numbers(Admin)' /\ Window(Admin)' = Window(Admin)
       /\ \A i : Id(Admin, i)' = Id(Admin, i)
  <2>1. /\ Held(Admin)' = Held(Admin) /\ Count(Admin)' = Count(Admin)
        /\ completions'[Admin] = completions[Admin]
        /\ sqi'[Admin] = sqi[Admin] /\ cq'[Admin] = cq[Admin] /\ post'[Admin] = post[Admin]
        /\ cqi'[Admin] = cqi[Admin]
    BY <1>3, <1>6, <1>7, TwoQueues
  <2> QED BY <1>2, <2>1, TwoQueues, RingKept
<1>15. Owed(Admin)'
  <2>1. Due(Admin)' = Due(Admin)
    <3>1. ~Handed(Admin) /\ ~Handed(Admin)' BY <1>3, <1>4, TwoQueues DEF Handed
    <3> QED BY <1>14, <3>1 DEF Due
  <2>2. \A n : Kept(Admin, n)' <=> Kept(Admin, n) BY TwoQueues DEF Kept
  <2>3. \A x \in Promises : x \in (Awaited \cap executed) \ ready =>
                            x \in (Awaited' \cap executed') \ ready'
    BY <1>3, <1>8
  <2>4. completions'[Admin] = completions[Admin] /\ Owed(Admin) BY <1>2, <1>6, TwoQueues
  <2> QED BY <1>1, <1>14, <2>1, <2>2, <2>3, <2>4, TwoQueues, OwedStays
<1> DEFINE c == completions[Io]  d == completions'[Io]  S == [id : 0 .. Turn(Io) - 1, p : Promises]
<1>16. PICK k : k = at OBVIOUS
<1>17. c \in Seq(S) /\ k \in DOMAIN c /\ d = Without(c, k)
  BY <1>1, <1>5, <1>6, <1>16, TwoQueues, EntryTyped
<1>18. /\ \A m, n \in DOMAIN c : c[m].id = c[n].id => m = n
       /\ c[k].id = Id(Io, cqi[Io])
  BY <1>2, <1>5, <1>16, TwoQueues DEF Numbers
<1>19. /\ \A i \in Due(Io) : \A n \in DOMAIN c : c[n].id = Id(Io, i) =>
            c[n].p \in (Awaited \cap executed) \ ready
       /\ \A m, n \in DOMAIN c : c[m].p = c[n].p /\ Kept(Io, m) /\ Kept(Io, n) => m = n
  BY <1>2, TwoQueues DEF Owed
<1>20. /\ \A n \in DOMAIN c : c[n].p[1] \in Readers
       /\ \A n \in DOMAIN c : (\E cmd \in Held(Io) : cmd.id = c[n].id)
                              \/ (\E i \in Window(Io) : Id(Io, i) = c[n].id)
       /\ Len(c) = Count(Io) + Dist(cqi[Io], post[Io], Turn(Io))
  BY <1>1 DEF Turning
<1>21. completions'[Io] = d OBVIOUS
<1> HIDE DEF c, d, S
<1>22. /\ Len(d) = Len(c) - 1 /\ Len(c) \in Nat \ {0} /\ d \in Seq(S)
       /\ \A n \in DOMAIN d : From(c, k, n) \in DOMAIN c /\ From(c, k, n) # k /\ d[n] = c[From(c, k, n)]
  BY <1>17, Removed
<1>23. \A i, j \in DOMAIN d : From(c, k, i) = From(c, k, j) => i = j BY <1>17, Removed
<1>24. \A n : Kept(Io, n) <=> n # k BY <1>4, <1>16 DEF Kept
<1>25. Owed(Io)'
  <2>1. Due(Io)' = Due(Io)
    <3>1. Handed(Io) /\ ~Handed(Io)' BY <1>3, <1>4 DEF Handed
    <3> QED BY <1>9, <3>1 DEF Due
  <2>2. \A i \in Due(Io)' : \A n \in DOMAIN d : d[n].id = Id(Io, i)' =>
          d[n].p \in (Awaited' \cap executed') \ ready'
    <3> SUFFICES ASSUME NEW i \in Due(Io), NEW n \in DOMAIN d, d[n].id = Id(Io, i)
                 PROVE d[n].p \in (Awaited \cap executed) \ ready
      BY <1>3, <1>8, <1>9, <2>1
    <3> QED BY <1>19, <1>22
  <2>3. \A m, n \in DOMAIN d : d[m].p = d[n].p => m = n BY <1>19, <1>22, <1>23, <1>24
  <2> QED BY <1>21, <2>2, <2>3 DEF Owed
<1>26. Turning'
  <2>1. \A n \in DOMAIN d : d[n].p[1] \in Readers BY <1>20, <1>22
  <2>2. ASSUME NEW n \in DOMAIN d
        PROVE (\E cmd \in Held(Io)' : cmd.id = d[n].id) \/ (\E i \in Window(Io)' : Id(Io, i)' = d[n].id)
    <3>1. PICK m \in DOMAIN c : m # k /\ d[n] = c[m] BY <1>22
    <3>2. CASE \E cmd \in Held(Io) : cmd.id = c[m].id BY <1>7, <3>1, <3>2, TwoQueues
    <3>3. ASSUME NEW i \in Window(Io), Id(Io, i) = c[m].id
          PROVE \E j \in Window(Io)' : Id(Io, j)' = d[n].id
      <4>1. i # cqi[Io] BY <1>17, <1>18, <3>1, <3>3
      <4> QED BY <1>9, <3>1, <3>3, <4>1
    <3> QED BY <1>20, <3>2, <3>3
  <2>3. Len(d) = Count(Io)' + Dist(cqi'[Io], post'[Io], Turn(Io))
    <3>1. Count(Io) \in Nat /\ Dist(cqi[Io], post[Io], Turn(Io)) \in Nat
      BY <1>1, TwoQueues, CountType, Positions
    <3>2. Count(Io)' = Count(Io) BY <1>7, TwoQueues
    <3> QED BY <1>9, <1>20, <1>22, <3>1, <3>2
  <2>4. Turn(Io)' = Turn(Io) /\ sqi'[Io] = sqi[Io] /\ post'[Io] = post[Io] BY <1>3 DEF Turn
  <2>5. /\ \A cmd \in Held(Io)' : Dist(cmd.id, sqi[Io], Turn(Io)) \in 1 .. Overtaken[Io] + Count(Io)'
        /\ \A i \in Window(Io)' : Dist(Id(Io, i)', sqi[Io], Turn(Io))
                                    \in 1 .. Overtaken[Io] + Count(Io)' + Dist(i, post[Io], Turn(Io))
    <3>1. Held(Io)' = Held(Io) /\ Count(Io)' = Count(Io) BY <1>7, TwoQueues
    <3>2. /\ \A cmd \in Held(Io) : Dist(cmd.id, sqi[Io], Turn(Io)) \in 1 .. Overtaken[Io] + Count(Io)
          /\ \A i \in Window(Io) : Dist(Id(Io, i), sqi[Io], Turn(Io))
                                    \in 1 .. Overtaken[Io] + Count(Io) + Dist(i, post[Io], Turn(Io))
      BY <1>1 DEF Turning
    <3> QED BY <1>9, <3>1, <3>2
  <2> QED BY <1>21, <2>1, <2>2, <2>3, <2>4, <2>5 DEF Turning
<1>27. Types'
  <2>2. \A r \in Queues : cqi'[r] \in 0 .. Turn(r) - 1
    <3>1. cqi[Admin] \in 0 .. Turn(Admin) - 1 BY <1>1, TwoQueues, Positions
    <3> QED BY <1>6, <3>1, TwoQueues
  <2>3. \A r \in Queues : completions'[r] \in Seq([id : 0 .. Turn(r) - 1, p : Promises])
    <3>1. completions[Admin] \in Seq([id : 0 .. Turn(Admin) - 1, p : Promises])
      BY <1>1, TwoQueues, EntryTyped
    <3>2. completions'[Io] \in Seq([id : 0 .. Turn(Io) - 1, p : Promises])
      BY <1>21, <1>22 DEF S
    <3> QED BY <1>6, <3>1, <3>2, TwoQueues
  <2>4. /\ DOMAIN completions = Queues /\ DOMAIN cqHead = Queues
        /\ \A r \in Queues : cqHead[r] \in 0 .. Size[r] - 1
        /\ msi \in BOOLEAN /\ irq \subseteq Queues
        /\ ready \subseteq Promises /\ executed \subseteq Promises /\ waiting \subseteq Tasks
        /\ todo \in [Tasks -> Seq(Promises)] /\ pc \in [Tasks -> Nat] /\ run \in Seq(Tasks)
    BY <1>1 DEF Types
  <2>6. step' \in {"look", "remove"} /\ at' \in Nat \ {0} BY <1>3
  <2> QED BY <1>1, <1>3, <1>6, <2>2, <2>3, <2>4, <2>6, TypesKept
<1>28. Starting'
  <2>1. /\ Count(Admin)' = Count(Admin) /\ completions'[Admin] = completions[Admin]
        /\ post'[Admin] = post[Admin] /\ cqi'[Admin] = cqi[Admin] /\ sqi'[Admin] = sqi[Admin]
        /\ UNCHANGED pc
    BY <1>3, <1>6, <1>7, TwoQueues
  <2> QED BY <1>1, <2>1, StartingKept
<1>29. Handler' BY <1>3 DEF Handler
<1>30. Scripts' BY <1>1, <1>3, ScriptsKept
<1>31. Promising' BY <1>1, <1>3, PromisingKept
<1>32. \A r \in Queues : Phases(r)' /\ Numbers(r)' /\ Owed(r)'
  BY <1>9, <1>12, <1>14, <1>15, <1>25, TwoQueues
<1> QED BY <1>7, <1>13, <1>26, <1>27, <1>28, <1>29, <1>30, <1>31, <1>32 DEF NvmeInv

-----------------------------------------------------------------------------
(* Steps that leave the queues alone.                                      *)

LEMMA QuietInv ==
  ASSUME NvmeInv, Quiet,
         \A p \in Promises : p \in Awaited \ ready =>
           p \in Awaited' \ ready' /\ (p \in executed' <=> p \in executed),
         Types', Handler', Scripts', Promising',
         SentBy(Device)' \in Nat, SentBy(Disk)' \in Nat,
         SentBy(Device) <= SentBy(Device)', SentBy(Disk) <= SentBy(Disk)'
  PROVE  NvmeInv'
<1>1. /\ \A q \in Queues : Sending(q)' /\ Outstanding(q)' /\ Phases(q)' /\ Numbers(q)' /\ Owed(q)'
      /\ Apart' /\ Turning' /\ Count(Admin)' = Count(Admin)
  BY QuietKeeps
<1>2. Types /\ Starting /\ Scripts BY DEF NvmeInv
<1>3. Starting'
  <2> DEFINE c == completions[Admin]
  <2>1. /\ Len(c) = sqi[Admin] /\ sqi[Admin] <= SentBy(Device) + SentBy(Disk)
        /\ Len(c) = Count(Admin) + post[Admin] /\ cqi[Admin] <= post[Admin]
        /\ \A n \in DOMAIN c : c[n].id = n - 1 /\ c[n].p[1] \in {Device, Disk}
                               /\ c[n].p[2] <= SentBy(c[n].p[1])
    BY <1>2 DEF Starting
  <2>2. completions' = completions /\ sqi' = sqi /\ post' = post /\ cqi' = cqi BY DEF Quiet, queues
  <2>3. SentBy(Device) \in 0 .. 2 /\ SentBy(Disk) \in 0 .. 3 /\ sqi[Admin] \in 0 .. 5
    BY <1>2, AdminBounds
  <2>4. sqi[Admin] <= SentBy(Device)' + SentBy(Disk)' BY <2>1, <2>3
  <2>5. ASSUME NEW n \in DOMAIN c PROVE c[n].p[2] <= SentBy(c[n].p[1])'
    <3>1. c[n].p \in Promises BY <1>2, TwoQueues, EntryTyped
    <3> DEFINE p == c[n].p
    <3>2. p \in Promises /\ p[1] \in {Device, Disk} /\ p[2] <= SentBy(p[1]) BY <2>1, <3>1
    <3>3. completions[Admin][n].p = p OBVIOUS
    <3>4. \A x : x = p[1] => SentBy(p[1])' = SentBy(x)' BY <2>2
    <3> HIDE DEF p
    <3>5. p[2] \in Nat BY <3>2, IsPromise, PromiseParts
    <3>6. CASE p[1] = Device
      <4>1. p[2] <= SentBy(Device)' BY <2>3, <3>2, <3>5, <3>6
      <4> QED BY <3>4, <3>6, <4>1 DEF p
    <3>7. CASE p[1] = Disk
      <4>1. p[2] <= SentBy(Disk)' BY <2>3, <3>2, <3>5, <3>7
      <4> QED BY <3>4, <3>7, <4>1 DEF p
    <3> QED BY <3>2, <3>6, <3>7
  <2> QED BY <1>1, <2>1, <2>2, <2>4, <2>5 DEF Starting
<1> QED BY <1>1, <1>3 DEF NvmeInv

\* What SentBy is, and that it grows along a script.
LEMMA SentByIs ==
  /\ SentBy(Device) = IF pc[Device] = 1 THEN 0 ELSE IF pc[Device] = 2 THEN 1 ELSE 2
  /\ SentBy(Disk) = IF pc[Disk] = 1 THEN 0 ELSE IF pc[Disk] \in {2, 3} THEN 1
                    ELSE IF pc[Disk] \in {4, 5} THEN 2 ELSE 3
BY IsPromise DEF SentBy

\* A step that only moves tasks on.
LEMMA Moved ==
  ASSUME NvmeInv, Quiet, UNCHANGED <<created, cqHead, msi, handlers, todo, ready, waiting, executed>>,
         irq' \subseteq Queues, run' \in Seq(Tasks), pc' \in [Tasks -> Nat],
         pc'[Device] = pc[Device] \/ (pc[Device] = 4 /\ pc'[Device] = 5),
         pc'[Disk] = pc[Disk] \/ (pc[Disk] \in {3, 7} /\ pc'[Disk] = 8),
         \A c \in Readers : \/ pc'[c] = pc[c] /\ (pc[c] > 0 => pc'[Disk] = 8)
                            \/ /\ pc'[c] = 1 /\ todo[c] = <<>> /\ Io \in created /\ pc'[Disk] = 8
  PROVE  NvmeInv'
<1>1. Types /\ Handler /\ Scripts /\ Promising /\ Starting BY DEF NvmeInv
<1>2. Awaited' = Awaited /\ OfReaders' = OfReaders BY DEF Awaited, OfReaders, ToAwait
<1>3. \A p \in Promises : p \in Awaited \ ready =>
           p \in Awaited' \ ready' /\ (p \in executed' <=> p \in executed)
  BY <1>2
<1>4. /\ sq' = sq /\ sqi' = sqi /\ tail' = tail /\ head' = head /\ fetched' = fetched
      /\ cq' = cq /\ post' = post /\ cqi' = cqi /\ completions' = completions /\ step' = step
      /\ at' = at
  BY DEF Quiet, queues
<1>5. Types'
  <2>1. /\ DOMAIN completions = Queues /\ DOMAIN cqHead = Queues /\ DOMAIN cqi = Queues
        /\ \A r \in Queues : cqHead[r] \in 0 .. Size[r] - 1 /\ cqi[r] \in 0 .. Turn(r) - 1
        /\ msi \in BOOLEAN /\ step \in {"look", "remove"} /\ at \in Nat \ {0}
        /\ ready \subseteq Promises /\ executed \subseteq Promises /\ waiting \subseteq Tasks
        /\ todo \in [Tasks -> Seq(Promises)]
    BY <1>1 DEF Types
  <2>2. \A r \in Queues : completions[r] \in Seq([id : 0 .. Turn(r) - 1, p : Promises])
    BY <1>1, EntryTyped
  <2> QED BY <1>1, <1>4, <2>1, <2>2, TypesKept
<1>6. Handler' BY <1>1, <1>4, HandlerKept
<1>7. /\ pc[Device] \in 1 .. 6 /\ pc[Disk] \in 1 .. 8
      /\ pc[Disk] \in 5 .. 7 \/ <<Disk, 2>> \in executed \cup ready => "cq" \in created
      /\ pc[Disk] = 7 \/ <<Disk, 3>> \in executed \cup ready => Io \in created
      /\ \A c \in Readers : pc[c] > 0 => Io \in created /\ pc[Disk] = 8
  BY <1>1 DEF Scripts
<1>8. /\ pc'[Device] \in 1 .. 6 /\ pc'[Disk] \in 1 .. 8
      /\ SentBy(Device)' \in Nat /\ SentBy(Disk)' \in Nat
      /\ SentBy(Device) <= SentBy(Device)' /\ SentBy(Disk) <= SentBy(Disk)'
      /\ \A k : k <= SentBy(Device) /\ k \in Nat => k <= SentBy(Device)'
      /\ \A k : k <= SentBy(Disk) /\ k \in Nat => k <= SentBy(Disk)'
  <2>1. /\ SentBy(Device)' = IF pc'[Device] = 1 THEN 0 ELSE IF pc'[Device] = 2 THEN 1 ELSE 2
        /\ SentBy(Disk)' = IF pc'[Disk] = 1 THEN 0 ELSE IF pc'[Disk] \in {2, 3} THEN 1
                    ELSE IF pc'[Disk] \in {4, 5} THEN 2 ELSE 3
    BY IsPromise DEF SentBy
  <2> QED BY <1>7, <2>1, SentByIs
<1>9. Scripts'
  <2>1. todo[Device] = CASE pc'[Device] \in {1, 6} -> <<>>
                      [] pc'[Device] = 3 -> << <<Device, 2>>, <<Device, 1>> >>
                      [] OTHER -> << <<Device, 1>> >>
    <3>1. todo[Device] = CASE pc[Device] \in {1, 6} -> <<>>
                      [] pc[Device] = 3 -> << <<Device, 2>>, <<Device, 1>> >>
                      [] OTHER -> << <<Device, 1>> >>
      BY <1>1 DEF Scripts
    <3>2. CASE pc'[Device] = pc[Device] BY <3>1, <3>2, Zenon
    <3>3. CASE pc[Device] = 4 /\ pc'[Device] = 5 BY <3>1, <3>3
    <3> QED BY <3>2, <3>3
  <2>2. todo[Disk] = CASE pc'[Disk] = 2 -> << <<Disk, 1>> >>
                    [] pc'[Disk] = 4 -> << <<Disk, 2>> >>
                    [] pc'[Disk] = 6 -> << <<Disk, 3>> >>
                    [] OTHER -> <<>>
    <3>1. todo[Disk] = CASE pc[Disk] = 2 -> << <<Disk, 1>> >>
                    [] pc[Disk] = 4 -> << <<Disk, 2>> >>
                    [] pc[Disk] = 6 -> << <<Disk, 3>> >>
                    [] OTHER -> <<>>
      BY <1>1 DEF Scripts
    <3>2. CASE pc'[Disk] = pc[Disk] BY <3>1, <3>2, Zenon
    <3>3. CASE pc[Disk] \in {3, 7} /\ pc'[Disk] = 8 BY <3>1, <3>3
    <3> QED BY <3>2, <3>3
  <2>3. /\ pc'[Disk] \in 5 .. 7 \/ <<Disk, 2>> \in executed \cup ready => "cq" \in created
        /\ pc'[Disk] = 7 \/ <<Disk, 3>> \in executed \cup ready => Io \in created
        /\ \A c \in Readers : pc'[c] > 0 => Io \in created /\ pc'[Disk] = 8
    <3>1. pc'[Disk] \in 5 .. 7 \/ <<Disk, 2>> \in executed \cup ready => "cq" \in created
      <4>1. pc'[Disk] \in 5 .. 7 => pc[Disk] \in 5 .. 7 OBVIOUS
      <4> QED BY <1>7, <4>1
    <3>2. pc'[Disk] = 7 \/ <<Disk, 3>> \in executed \cup ready => Io \in created
      <4>1. pc'[Disk] = 7 => pc[Disk] = 7 OBVIOUS
      <4> QED BY <1>7, <4>1
    <3>3. ASSUME NEW c \in Readers, pc'[c] > 0 PROVE Io \in created /\ pc'[Disk] = 8
      BY <1>7, <3>3
    <3> QED BY <3>1, <3>2, <3>3
  <2> QED BY <1>8, <2>1, <2>2, <2>3 DEF Scripts
<1>10. Promising'
  <2>1. ASSUME NEW c \in Readers
        PROVE pc'[c] \in 0 .. 2 /\ \E m \in 0 .. Blocks[c] : Reads(c, m)'
    <3>1. CASE pc'[c] = pc[c]
      <4>1. \A m : Reads(c, m)' <=> Reads(c, m) BY <3>1 DEF Reads
      <4> QED BY <1>1, <3>1, <4>1 DEF Promising
    <3>2. CASE pc'[c] = 1 /\ todo[c] = <<>>
      <4>1. Blocks[c] \in Nat BY RoomAssumption
      <4>2. Reads(c, 0)' BY <3>2, <4>1 DEF Reads
      <4> QED BY <3>2, <4>1, <4>2
    <3> QED BY <3>1, <3>2
  <2>2. ASSUME NEW p \in ready'
        PROVE  IF p[1] \in Readers THEN p \in Awaited' ELSE p[2] <= SentBy(p[1])'
    <3>1. p \in ready /\ p \in Promises BY <1>1 DEF Types
    <3>2. IF p[1] \in Readers THEN p \in Awaited ELSE p[2] <= SentBy(p[1]) BY <1>1, <3>1 DEF Promising
    <3>3. CASE p[1] \in Readers BY <1>2, <3>2, <3>3
    <3>4. CASE p[1] \notin Readers
      <4>1. p[1] \in {Device, Disk} /\ p[2] \in Nat BY <3>1, <3>4, PromiseParts
      <4> QED BY <1>8, <3>2, <3>4, <4>1
    <3> QED BY <3>3, <3>4
  <2>3. executed' \subseteq Awaited' /\ ready' \cap Awaited' \subseteq executed'
        /\ Cardinality(OfReaders') < Size[Io]
    BY <1>1, <1>2 DEF Promising
  <2> QED BY <2>1, <2>2, <2>3 DEF Promising
<1> QED BY <1>3, <1>5, <1>6, <1>8, <1>9, <1>10, QuietInv

LEMMA RunTypes ==
  ASSUME Types
  PROVE  /\ run # <<>> => Tail(run) \in Seq(Tasks) /\ Head(run) \in Tasks
         /\ \A c \in Tasks : <<c>> \in Seq(Tasks) /\ <<c>> \o run \in Seq(Tasks)
         /\ run \in Seq(Tasks) /\ pc \in [Tasks -> Nat] /\ irq \subseteq Queues
BY DEF Types

LEMMA OpIs ==
  ASSUME Scripts
  PROVE  /\ Op(Device) = "new_disk" => pc[Device] = 4
         /\ Op(Disk) = "register" => pc[Disk] = 7
         /\ Op(Disk) = "cq" => pc[Disk] = 3
         /\ Op(Disk) = "sq" => pc[Disk] = 5
         /\ Op(Disk) = "identify" => pc[Disk] = 1
         /\ Op(Device) = "identify" => pc[Device] = 1
         /\ Op(Device) = "list" => pc[Device] = 2
         /\ Op(Device) = "await" => pc[Device] \in {3, 5}
         /\ Op(Disk) = "await" => pc[Disk] \in {2, 4, 6}
         /\ Op(Device) \notin {"cq", "sq"} /\ Op(Disk) # "list"
         /\ Len(Script[Disk]) = 7
<1>1. /\ Script[Device] = <<"identify", "list", "await", "new_disk", "await">>
      /\ Script[Disk] = <<"identify", "await", "cq", "await", "sq", "await", "register">>
  BY IsPromise DEF Script
<1>2. pc[Device] \in 1 .. 6 /\ pc[Disk] \in 1 .. 8 BY DEF Scripts
<1> DEFINE s == Script[Device]  r == Script[Disk]
<1>3. /\ Len(s) = 5 /\ s[1] = "identify" /\ s[2] = "list" /\ s[3] = "await" /\ s[4] = "new_disk"
      /\ s[5] = "await"
  <2>1. \A x : x = <<"identify", "list", "await", "new_disk", "await">> =>
          /\ Len(x) = 5 /\ x[1] = "identify" /\ x[2] = "list" /\ x[3] = "await"
          /\ x[4] = "new_disk" /\ x[5] = "await"
    OBVIOUS
  <2> QED BY <1>1, <2>1, Zenon
<1>4. /\ Len(r) = 7 /\ r[1] = "identify" /\ r[2] = "await" /\ r[3] = "cq" /\ r[4] = "await"
      /\ r[5] = "sq" /\ r[6] = "await" /\ r[7] = "register"
  <2>1. \A x : x = <<"identify", "await", "cq", "await", "sq", "await", "register">> =>
          /\ Len(x) = 7 /\ x[1] = "identify" /\ x[2] = "await" /\ x[3] = "cq" /\ x[4] = "await"
          /\ x[5] = "sq" /\ x[6] = "await" /\ x[7] = "register"
    OBVIOUS
  <2> QED BY <1>1, <2>1, Zenon
<1>5. /\ Op(Device) = IF pc[Device] <= Len(s) THEN s[pc[Device]] ELSE "end"
      /\ Op(Disk) = IF pc[Disk] <= Len(r) THEN r[pc[Disk]] ELSE "end"
  BY DEF Op
<1> HIDE DEF s, r
<1>6. \/ pc[Device] = 1 /\ Op(Device) = "identify"
      \/ pc[Device] = 2 /\ Op(Device) = "list"
      \/ pc[Device] = 4 /\ Op(Device) = "new_disk"
      \/ pc[Device] \in {3, 5} /\ Op(Device) = "await"
      \/ pc[Device] = 6 /\ Op(Device) = "end"
  <2>1. pc[Device] = 1 \/ pc[Device] = 2 \/ pc[Device] = 3 \/ pc[Device] = 4 \/ pc[Device] = 5
        \/ pc[Device] = 6
    BY <1>2
  <2>2. pc[Device] = 1 => Op(Device) = "identify" BY <1>3, <1>5
  <2>3. pc[Device] = 2 => Op(Device) = "list" BY <1>3, <1>5
  <2>4. pc[Device] = 3 => Op(Device) = "await" BY <1>3, <1>5
  <2>5. pc[Device] = 4 => Op(Device) = "new_disk" BY <1>3, <1>5
  <2>6. pc[Device] = 5 => Op(Device) = "await" BY <1>3, <1>5
  <2>7. pc[Device] = 6 => Op(Device) = "end" BY <1>3, <1>5
  <2> QED BY <2>1, <2>2, <2>3, <2>4, <2>5, <2>6, <2>7
<1>7. \/ pc[Disk] = 1 /\ Op(Disk) = "identify"
      \/ pc[Disk] = 3 /\ Op(Disk) = "cq"
      \/ pc[Disk] = 5 /\ Op(Disk) = "sq"
      \/ pc[Disk] = 7 /\ Op(Disk) = "register"
      \/ pc[Disk] \in {2, 4, 6} /\ Op(Disk) = "await"
      \/ pc[Disk] = 8 /\ Op(Disk) = "end"
  BY <1>2, <1>4, <1>5
<1> QED BY <1>4, <1>6, <1>7 DEF r

LEMMA NewDiskKeeps ==
  ASSUME NvmeInv, NewDisk
  PROVE  NvmeInv'
<1>1. Types /\ Scripts BY DEF NvmeInv
<1>2. pc[Device] = 4 BY <1>1, OpIs DEF NewDisk
<1>3. run' = <<Disk>> \o run /\ pc' = [pc EXCEPT ![Device] = pc[Device] + 1] BY DEF NewDisk
<1>4. run' \in Seq(Tasks) /\ pc' \in [Tasks -> Nat] /\ irq' \subseteq Queues
  <2>1. run' \in Seq(Tasks) BY <1>1, <1>3, RunTypes, IsPromise, Zenon
  <2>2. pc \in [Tasks -> Nat] /\ Device \in Tasks BY <1>1, RunTypes, IsPromise
  <2>3. pc' \in [Tasks -> Nat] BY <1>2, <1>3, <2>2
  <2>4. irq' \subseteq Queues BY <1>1, RunTypes DEF NewDisk
  <2> QED BY <2>1, <2>3, <2>4
<1>5. pc'[Device] = 5 /\ \A c \in Tasks \ {Device} : pc'[c] = pc[c]
  BY <1>1, <1>2, <1>3, RunTypes, IsPromise
<1>6. \A c \in Readers : pc[c] > 0 => pc[Disk] = 8 BY <1>1 DEF Scripts
<1>7. Quiet /\ UNCHANGED <<created, cqHead, msi, handlers, todo, ready, waiting, executed>>
  BY DEF NewDisk, Quiet, queues, controller, handling
<1>8. pc'[Disk] = pc[Disk] /\ \A c \in Readers : pc'[c] = pc[c] BY <1>5, IsPromise
<1> QED BY <1>2, <1>4, <1>5, <1>6, <1>7, <1>8, Moved

LEMMA RegisterKeeps ==
  ASSUME NvmeInv, NEW c \in Readers, Register(c)
  PROVE  NvmeInv'
<1>1. Types /\ Scripts /\ Promising BY DEF NvmeInv
<1>2. pc[Disk] = 7 BY <1>1, OpIs DEF Register
<1>3. run' = <<c>> \o run /\ pc' = [pc EXCEPT ![Disk] = pc[Disk] + 1, ![c] = 1] BY DEF Register
<1>4. run' \in Seq(Tasks) /\ pc' \in [Tasks -> Nat] /\ irq' \subseteq Queues
  BY <1>1, <1>2, <1>3, RunTypes, IsPromise DEF Register
<1>5. pc'[Disk] = 8 /\ pc'[c] = 1 /\ \A d \in Tasks \ {Disk, c} : pc'[d] = pc[d]
  BY <1>1, <1>2, <1>3, RunTypes, IsPromise
<1>6. \A d \in Readers : pc[d] > 0 => pc[Disk] = 8 BY <1>1 DEF Scripts
<1>7. pc[c] = 0
  <2>1. pc[c] \in Nat BY <1>1, RunTypes, IsPromise
  <2> QED BY <1>2, <1>6, <2>1
<1>8. todo[c] = <<>> BY <1>1, <1>7 DEF Promising, Reads
<1>9. Io \in created BY <1>1, <1>2 DEF Scripts
<1>10. Quiet /\ UNCHANGED <<created, cqHead, msi, handlers, todo, ready, waiting, executed>>
  BY DEF Register, Quiet, queues, controller, handling
<1>11. pc'[Device] = pc[Device] /\ \A d \in Readers : d # c => pc'[d] = pc[d] BY <1>5, IsPromise
<1>12. \A d \in Readers : \/ pc'[d] = pc[d] /\ (pc[d] > 0 => pc'[Disk] = 8)
                          \/ pc'[d] = 1 /\ todo[d] = <<>> /\ Io \in created /\ pc'[Disk] = 8
  BY <1>5, <1>8, <1>9, <1>11
<1> QED BY <1>2, <1>4, <1>5, <1>10, <1>11, <1>12, Moved

LEMMA EndKeeps ==
  ASSUME NvmeInv, NEW c \in {Device, Disk}, End(c)
  PROVE  NvmeInv'
<1>1. Types /\ Scripts BY DEF NvmeInv
<1>2. run # <<>> /\ run' = Tail(run) BY DEF End, Running, Return
<1>3. pc' = pc \/ (pc[Disk] = 3 /\ pc' = [pc EXCEPT ![Disk] = 8])
  <2>1. \/ pc' = pc
        \/ c = Disk /\ Op(c) = "cq" /\ pc' = [pc EXCEPT ![c] = Len(Script[c]) + 1]
    BY DEF End
  <2>2. Op(Disk) = "cq" => pc[Disk] = 3 BY <1>1, OpIs
  <2>3. Len(Script[Disk]) + 1 = 8
    <3>1. Len(Script[Disk]) = 7 BY <1>1, OpIs
    <3> QED BY <3>1
  <2>4. CASE c = Disk /\ Op(c) = "cq" /\ pc' = [pc EXCEPT ![c] = Len(Script[c]) + 1]
    <3>1. pc' = [pc EXCEPT ![Disk] = 8] BY <2>3, <2>4, Zenon
    <3> QED BY <2>2, <2>4, <3>1
  <2> QED BY <2>1, <2>4
<1>4. run' \in Seq(Tasks) /\ pc' \in [Tasks -> Nat] /\ irq' \subseteq Queues
  <2>1. run' \in Seq(Tasks) BY <1>1, <1>2, RunTypes
  <2>2. pc \in [Tasks -> Nat] BY <1>1, RunTypes
  <2>3. pc' \in [Tasks -> Nat] BY <1>3, <2>2
  <2>4. irq' \subseteq Queues BY <1>1, RunTypes DEF End
  <2> QED BY <2>1, <2>3, <2>4
<1>5. \A d \in Readers : pc[d] > 0 => pc[Disk] = 8 BY <1>1 DEF Scripts
<1>6. Quiet /\ UNCHANGED <<created, cqHead, msi, handlers, todo, ready, waiting, executed>>
  BY DEF End, Quiet, queues, controller, handling
<1>7. /\ pc'[Device] = pc[Device] /\ \A d \in Readers : pc'[d] = pc[d]
      /\ pc'[Disk] = pc[Disk] \/ (pc[Disk] = 3 /\ pc'[Disk] = 8)
  BY <1>1, <1>3, RunTypes, IsPromise
<1> QED BY <1>4, <1>5, <1>6, <1>7, Moved

LEMMA BeginKeeps ==
  ASSUME NvmeInv, NEW c \in Readers, Begin(c)
  PROVE  NvmeInv'
<1>1. Types /\ Scripts BY DEF NvmeInv
<1>2. run' = <<c>> /\ pc' = [pc EXCEPT ![c] = 1] /\ todo[c] = <<>> BY DEF Begin
<1>3. run' \in Seq(Tasks) /\ pc' \in [Tasks -> Nat] /\ irq' \subseteq Queues
  BY <1>1, <1>2, RunTypes, IsPromise DEF Begin
<1>4. Io \in created /\ pc[Disk] = 8 BY <1>1 DEF Scripts, Begin, Registered
<1>5. Quiet /\ UNCHANGED <<created, cqHead, msi, handlers, todo, ready, waiting, executed>>
  BY DEF Begin, Quiet, queues, controller, handling
<1>6. pc'[c] = 1 /\ \A d \in Tasks \ {c} : pc'[d] = pc[d] BY <1>1, <1>2, RunTypes, IsPromise
<1>7. pc'[Device] = pc[Device] /\ pc'[Disk] = pc[Disk] BY <1>6, IsPromise
<1>8. \A d \in Readers : \/ pc'[d] = pc[d] /\ (pc[d] > 0 => pc'[Disk] = 8)
                         \/ pc'[d] = 1 /\ todo[d] = <<>> /\ Io \in created /\ pc'[Disk] = 8
  BY <1>2, <1>4, <1>6, <1>7, IsPromise
<1> QED BY <1>3, <1>5, <1>7, <1>8, Moved

LEMMA StopKeeps ==
  ASSUME NvmeInv, NEW c \in Readers, Stop(c)
  PROVE  NvmeInv'
<1>1. Types /\ Scripts BY DEF NvmeInv
<1>2. run # <<>> /\ run' = Tail(run) /\ pc' = pc BY DEF Stop, Running, Return, tasks
<1>3. run' \in Seq(Tasks) /\ pc' \in [Tasks -> Nat] /\ irq' \subseteq Queues
  BY <1>1, <1>2, RunTypes DEF Stop
<1>4. Quiet /\ UNCHANGED <<created, cqHead, msi, handlers, todo, ready, waiting, executed>>
  BY DEF Stop, Quiet, queues, controller, handling, tasks
<1>5. \A d \in Readers : pc[d] > 0 => pc[Disk] = 8 BY <1>1 DEF Scripts
<1> QED BY <1>2, <1>3, <1>4, <1>5, Moved

\* A handler is called, or is done: none of the handlers is in its middle.
LEMMA HandlersChange ==
  ASSUME NvmeInv, Quiet, UNCHANGED <<created, todo, ready, waiting, executed, pc, run, msi>>,
         irq' \subseteq Queues, DOMAIN cqHead' = Queues,
         \A q \in Queues : cqHead'[q] \in 0 .. Size[q] - 1,
         step = "look", at = 1
  PROVE  NvmeInv'
<1>1. Types /\ Scripts /\ Promising BY DEF NvmeInv
<1>2. /\ sq' = sq /\ sqi' = sqi /\ tail' = tail /\ head' = head /\ fetched' = fetched
      /\ cq' = cq /\ post' = post /\ cqi' = cqi /\ completions' = completions /\ step' = step
      /\ at' = at
  BY DEF Quiet, queues
<1>3. Types'
  <2>1. /\ DOMAIN completions = Queues /\ DOMAIN cqi = Queues
        /\ \A r \in Queues : cqi[r] \in 0 .. Turn(r) - 1
        /\ msi \in BOOLEAN
        /\ ready \subseteq Promises /\ executed \subseteq Promises /\ waiting \subseteq Tasks
        /\ todo \in [Tasks -> Seq(Promises)] /\ pc \in [Tasks -> Nat] /\ run \in Seq(Tasks)
    BY <1>1 DEF Types
  <2>2. \A r \in Queues : completions[r] \in Seq([id : 0 .. Turn(r) - 1, p : Promises])
    BY <1>1, EntryTyped
  <2>3. step' \in {"look", "remove"} /\ at' \in Nat \ {0} BY <1>2
  <2> QED BY <1>1, <1>2, <2>1, <2>2, <2>3, TypesKept
<1>4. Handler' BY <1>2 DEF Handler
<1>5. Scripts' BY <1>1, ScriptsKept
<1>6. Promising' BY <1>1, PromisingKept
<1>7. Awaited' = Awaited BY DEF Awaited, ToAwait
<1>8. \A p \in Promises : p \in Awaited \ ready =>
           p \in Awaited' \ ready' /\ (p \in executed' <=> p \in executed)
  BY <1>7
<1>9. SentBy(Device)' = SentBy(Device) /\ SentBy(Disk)' = SentBy(Disk) BY DEF SentBy
<1>10. SentBy(Device) \in Nat /\ SentBy(Disk) \in Nat BY SentByIs
<1>11. /\ SentBy(Device)' \in Nat /\ SentBy(Disk)' \in Nat
       /\ SentBy(Device) <= SentBy(Device)' /\ SentBy(Disk) <= SentBy(Disk)'
  BY <1>9, <1>10
<1> QED BY <1>3, <1>4, <1>5, <1>6, <1>8, <1>11, QuietInv

LEMMA InterruptKeeps ==
  ASSUME NvmeInv, NEW v \in Queues, Interrupt(v)
  PROVE  NvmeInv'
<1>1. Types /\ Handler BY DEF NvmeInv
<1>2. handlers = <<>> BY DEF Interrupt
<1>3. step \in {"look", "remove"} BY <1>1 DEF Types
<1>4. step = "look" /\ at = 1 BY <1>1, <1>2, <1>3 DEF Handler
<1>5. Quiet /\ UNCHANGED <<created, todo, ready, waiting, executed, pc, run, msi, cqHead>>
  BY DEF Interrupt, Quiet, queues, controller, tasks
<1>6. irq' \subseteq Queues BY <1>1, RunTypes DEF Interrupt
<1>7. DOMAIN cqHead' = Queues /\ \A q \in Queues : cqHead'[q] \in 0 .. Size[q] - 1
  BY <1>1, <1>5 DEF Types
<1> QED BY <1>4, <1>5, <1>6, <1>7, HandlersChange

LEMMA DoneKeeps ==
  ASSUME NvmeInv, NEW q \in Queues, Done(q)
  PROVE  NvmeInv'
<1>1. Types /\ Handler /\ Phases(q) BY DEF NvmeInv
<1>2. step = "look" /\ Head(handlers) = q /\ ~Valid(cqi[q], q) BY DEF Done, Handling
<1>3. cqi[q] \in 0 .. Turn(q) - 1 /\ Size[q] \in Nat /\ Size[q] > 0 BY <1>1, Positions, Sizes
<1>4. cqi[q] % Size[q] = Slot(q, cqi[q]) /\ Slot(q, cqi[q]) \in 0 .. Size[q] - 1 BY <1>3, SlotOf
<1>5. at = 1
  <2> SUFFICES ASSUME at # 1 PROVE FALSE OBVIOUS
  <2>1. q = Admin /\ cqi[q] # post[q] BY <1>1, <1>2 DEF Handler
  <2>2. cqi[q] \in Window(q) BY <1>1, <2>1, Positions
  <2>3. Dist(cqi[q], cqi[q], Turn(q)) = 0 BY <1>3 DEF Dist
  <2>4. cq[q][Slot(q, cqi[q])].phase = PhaseAt(cqi[q], q) BY <1>1, <1>3, <2>2, <2>3 DEF Phases
  <2> QED BY <1>2, <1>4, <2>4 DEF Valid
<1>6. Quiet /\ UNCHANGED <<created, todo, ready, waiting, executed, pc, run, msi, irq>>
  BY DEF Done, Quiet, queues, controller, tasks
<1>7. irq' \subseteq Queues BY <1>1, <1>6, RunTypes
<1>8. DOMAIN cqHead' = Queues /\ \A r \in Queues : cqHead'[r] \in 0 .. Size[r] - 1
  <2>1. DOMAIN cqHead = Queues /\ \A r \in Queues : cqHead[r] \in 0 .. Size[r] - 1 BY <1>1 DEF Types
  <2>2. cqHead' = cqHead \/ cqHead' = [cqHead EXCEPT ![q] = Slot(q, cqi[q])] BY <1>4 DEF Done
  <2> QED BY <1>4, <2>1, <2>2
<1> QED BY <1>2, <1>5, <1>6, <1>7, <1>8, HandlersChange

-----------------------------------------------------------------------------
(* A task awaits.                                                          *)

\* What TypesKept says of a step that leaves the queues and the handler alone.
LEMMA TypesOfTasks ==
  ASSUME Types, Quiet, UNCHANGED <<created, cqHead, msi, irq>>,
         ready' \subseteq Promises, executed' \subseteq Promises, waiting' \subseteq Tasks,
         todo' \in [Tasks -> Seq(Promises)], pc' \in [Tasks -> Nat], run' \in Seq(Tasks)
  PROVE  Types'
<1>1. /\ sq' = sq /\ sqi' = sqi /\ tail' = tail /\ head' = head /\ fetched' = fetched
      /\ cq' = cq /\ post' = post /\ cqi' = cqi /\ completions' = completions /\ step' = step
      /\ at' = at
  BY DEF Quiet, queues
<1>2. /\ DOMAIN completions = Queues /\ DOMAIN cqHead = Queues /\ DOMAIN cqi = Queues
      /\ \A r \in Queues : cqHead[r] \in 0 .. Size[r] - 1 /\ cqi[r] \in 0 .. Turn(r) - 1
      /\ msi \in BOOLEAN /\ irq \subseteq Queues /\ step \in {"look", "remove"} /\ at \in Nat \ {0}
  BY DEF Types
<1>3. \A r \in Queues : completions[r] \in Seq([id : 0 .. Turn(r) - 1, p : Promises])
  BY EntryTyped
<1> QED BY <1>1, <1>2, <1>3, TypesKept

\* A task whose promise is ready goes on.
LEMMA GoesOn ==
  ASSUME NvmeInv, Quiet, NEW c \in Tasks, todo[c] # <<>>, NEW p, p = Head(todo[c]), p \in ready,
         UNCHANGED <<created, cqHead, msi, irq, handlers, waiting, run>>,
         todo' = [todo EXCEPT ![c] = Tail(todo[c])],
         ready' = IF c \in Readers THEN ready \ {p} ELSE ready, executed' = executed \ {p},
         NEW k \in Nat, pc' = [pc EXCEPT ![c] = k], Scripts',
         SentBy(Device)' = SentBy(Device), SentBy(Disk)' = SentBy(Disk),
         c \in Readers => k \in 0 .. 2 /\ \E m \in 0 .. Blocks[c] : Reads(c, m)'
  PROVE  NvmeInv'
<1>1. Types /\ Handler /\ Scripts /\ Promising BY DEF NvmeInv
<1>2. /\ Awaited' = Awaited \ {p} /\ p \in Awaited /\ p \in Promises /\ p[1] = c
      /\ todo' \in [Tasks -> Seq(Promises)]
      /\ \A d \in Tasks \ {c} : todo'[d] = todo[d]
  BY <1>1, AwaitedLess, Zenon
<1>3. /\ ready \subseteq Promises /\ executed \subseteq Promises /\ waiting \subseteq Tasks
      /\ pc \in [Tasks -> Nat] /\ run \in Seq(Tasks)
  BY <1>1 DEF Types
<1>4. ready' \subseteq ready /\ (c \in Readers => p \notin ready') /\ executed' \subseteq executed
  OBVIOUS
<1>5. Types'
  <2>1. /\ ready' \subseteq Promises /\ executed' \subseteq Promises /\ waiting' \subseteq Tasks
        /\ todo' \in [Tasks -> Seq(Promises)] /\ pc' \in [Tasks -> Nat] /\ run' \in Seq(Tasks)
    BY <1>2, <1>3, <1>4
  <2>2. UNCHANGED <<created, cqHead, msi, irq>> OBVIOUS
  <2> QED BY <1>1, <2>1, <2>2, TypesOfTasks
<1>6. Handler'
  <2>1. UNCHANGED <<handlers, step, at, cqi, post, cq, completions>> BY DEF Quiet, queues
  <2> QED BY <1>1, <2>1, HandlerKept
<1>7. Promising'
  <2>1. ASSUME NEW d \in Readers
        PROVE pc'[d] \in 0 .. 2 /\ \E m \in 0 .. Blocks[d] : Reads(d, m)'
    <3>1. d \in Tasks BY IsPromise
    <3>2. CASE d = c BY <1>3, <3>2
    <3>3. CASE d # c
      <4>1. pc'[d] = pc[d] /\ todo'[d] = todo[d] BY <1>2, <1>3, <3>1, <3>3
      <4>2. \A m : Reads(d, m)' <=> Reads(d, m) BY <4>1 DEF Reads
      <4> QED BY <1>1, <4>1, <4>2 DEF Promising
    <3> QED BY <3>2, <3>3
  <2>2. executed' \subseteq Awaited' BY <1>1, <1>2 DEF Promising
  <2>3. ready' \cap Awaited' \subseteq executed' BY <1>1, <1>2, <1>4 DEF Promising
  <2>4. ASSUME NEW x \in ready'
        PROVE  IF x[1] \in Readers THEN x \in Awaited' ELSE x[2] <= SentBy(x[1])'
    <3>1. x \in ready /\ x \in Promises BY <1>3, <1>4
    <3>2. IF x[1] \in Readers THEN x \in Awaited ELSE x[2] <= SentBy(x[1]) BY <1>1, <3>1 DEF Promising
    <3>3. CASE x[1] \in Readers
      <4>1. x # p BY <1>2, <1>4, <3>3
      <4> QED BY <1>2, <3>2, <3>3, <4>1
    <3>4. CASE x[1] \notin Readers
      <4>1. x[1] \in {Device, Disk} BY <3>1, <3>4, PromiseParts
      <4> QED BY <3>2, <3>4, <4>1
    <3> QED BY <3>3, <3>4
  <2>5. Cardinality(OfReaders') < Size[Io]
    <3>1. OfReaders' \subseteq OfReaders
      <4>1. OfReaders = {x \in Awaited : x[1] \in Readers} BY DEF OfReaders, Awaited
      <4>2. OfReaders' = {x \in Awaited' : x[1] \in Readers} BY DEF OfReaders, Awaited
      <4> QED BY <1>2, <4>1, <4>2
    <3>2. IsFiniteSet(OfReaders) /\ Cardinality(OfReaders) \in Nat BY FiniteReaders
    <3>3. Cardinality(OfReaders') <= Cardinality(OfReaders) /\ IsFiniteSet(OfReaders')
      BY <3>1, <3>2, FS_Subset
    <3>4. Cardinality(OfReaders') \in Nat BY <3>3, FS_CardinalityType
    <3>5. Cardinality(OfReaders) < Size[Io] /\ Size[Io] \in Nat
      BY <1>1, Sizes, TwoQueues DEF Promising
    <3> QED BY <3>2, <3>3, <3>4, <3>5
  <2> QED BY <2>1, <2>2, <2>3, <2>4, <2>5 DEF Promising
<1>8. \A x \in Promises : x \in Awaited \ ready =>
           x \in Awaited' \ ready' /\ (x \in executed' <=> x \in executed)
  BY <1>2, <1>4
<1>9. SentBy(Device) \in Nat /\ SentBy(Disk) \in Nat BY SentByIs
<1>10. /\ SentBy(Device)' \in Nat /\ SentBy(Disk)' \in Nat
       /\ SentBy(Device) <= SentBy(Device)' /\ SentBy(Disk) <= SentBy(Disk)'
  BY <1>9
<1> QED BY <1>5, <1>6, <1>7, <1>8, <1>10, QuietInv

\* A task whose promise is not ready is suspended.
LEMMA Suspends ==
  ASSUME NvmeInv, Quiet, NEW c \in Tasks, run # <<>>,
         UNCHANGED <<created, cqHead, msi, irq, handlers, todo, ready, executed>>,
         waiting' = waiting \cup {c}, run' = Tail(run),
         pc' = pc \/ (c \in Readers /\ todo[c] # <<>> /\ pc' = [pc EXCEPT ![c] = 2])
  PROVE  NvmeInv'
<1>1. Types /\ Handler /\ Scripts /\ Promising BY DEF NvmeInv
<1>2. /\ ready \subseteq Promises /\ executed \subseteq Promises /\ waiting \subseteq Tasks
      /\ pc \in [Tasks -> Nat] /\ todo \in [Tasks -> Seq(Promises)]
  BY <1>1 DEF Types
<1>3. pc' \in [Tasks -> Nat] BY <1>2
<1>4. run' \in Seq(Tasks) BY <1>1, RunTypes
<1>5. Types'
  <2>1. /\ ready' \subseteq Promises /\ executed' \subseteq Promises /\ waiting' \subseteq Tasks
        /\ todo' \in [Tasks -> Seq(Promises)]
    BY <1>2
  <2>2. UNCHANGED <<created, cqHead, msi, irq>> OBVIOUS
  <2> QED BY <1>1, <1>3, <1>4, <2>1, <2>2, TypesOfTasks
<1>6. Handler'
  <2>1. UNCHANGED <<handlers, step, at, cqi, post, cq, completions>> BY DEF Quiet, queues
  <2> QED BY <1>1, <2>1, HandlerKept
<1>7. pc'[Device] = pc[Device] /\ pc'[Disk] = pc[Disk] BY <1>2, IsPromise
<1>8. \A d \in Readers : pc'[d] = pc[d] \/ (pc'[d] = 2 /\ todo[d] # <<>>)
  <2>1. \A d \in Readers : d \in Tasks BY IsPromise
  <2> QED BY <1>2, <2>1
<1>9. Scripts'
  <2>1. \A d \in Readers : pc'[d] > 0 => pc[d] > 0
    <3> SUFFICES ASSUME NEW d \in Readers, pc'[d] > 0 PROVE pc[d] > 0 OBVIOUS
    <3>1. pc[d] \in 0 .. 2 /\ (pc[d] = 0 => todo[d] = <<>>) BY <1>1 DEF Promising, Reads
    <3> QED BY <1>8, <3>1
  <2>2. /\ todo'[Device] = todo[Device] /\ todo'[Disk] = todo[Disk]
        /\ executed' = executed /\ ready' = ready /\ created' = created
    OBVIOUS
  <2> QED BY <1>1, <1>7, <2>1, <2>2 DEF Scripts
<1>10. SentBy(Device)' = SentBy(Device) /\ SentBy(Disk)' = SentBy(Disk)
  <2>1. /\ SentBy(Device)' = IF pc'[Device] = 1 THEN 0 ELSE IF pc'[Device] = 2 THEN 1 ELSE 2
        /\ SentBy(Disk)' = IF pc'[Disk] = 1 THEN 0 ELSE IF pc'[Disk] \in {2, 3} THEN 1
                    ELSE IF pc'[Disk] \in {4, 5} THEN 2 ELSE 3
    BY IsPromise DEF SentBy
  <2> QED BY <1>7, <2>1, SentByIs
<1>11. OfReaders' = OfReaders /\ Awaited' = Awaited BY DEF OfReaders, Awaited, ToAwait
<1>12. Promising'
  <2>1. ASSUME NEW d \in Readers
        PROVE pc'[d] \in 0 .. 2 /\ \E m \in 0 .. Blocks[d] : Reads(d, m)'
    <3>1. PICK m \in 0 .. Blocks[d] : Reads(d, m) BY <1>1 DEF Promising
    <3>2. pc[d] \in 0 .. 2 BY <1>1 DEF Promising
    <3>3. Reads(d, m)'
      <4>1. todo'[d] = todo[d] OBVIOUS
      <4> QED BY <1>8, <3>1, <4>1 DEF Reads
    <3> QED BY <1>8, <3>2, <3>3
  <2>2. ASSUME NEW x \in ready'
        PROVE  IF x[1] \in Readers THEN x \in Awaited' ELSE x[2] <= SentBy(x[1])'
    <3>1. x \in ready /\ x \in Promises BY <1>2
    <3>2. IF x[1] \in Readers THEN x \in Awaited ELSE x[2] <= SentBy(x[1]) BY <1>1, <3>1 DEF Promising
    <3>3. CASE x[1] \in Readers BY <1>11, <3>2, <3>3
    <3>4. CASE x[1] \notin Readers
      <4>1. x[1] \in {Device, Disk} BY <3>1, <3>4, PromiseParts
      <4> QED BY <1>10, <3>2, <3>4, <4>1
    <3> QED BY <3>3, <3>4
  <2>3. executed' \subseteq Awaited' /\ ready' \cap Awaited' \subseteq executed'
        /\ Cardinality(OfReaders') < Size[Io]
    BY <1>1, <1>11 DEF Promising
  <2> QED BY <2>1, <2>2, <2>3 DEF Promising
<1>13. \A x \in Promises : x \in Awaited \ ready =>
           x \in Awaited' \ ready' /\ (x \in executed' <=> x \in executed)
  BY <1>11
<1>14. SentBy(Device) \in Nat /\ SentBy(Disk) \in Nat BY SentByIs
<1>15. /\ SentBy(Device)' \in Nat /\ SentBy(Disk)' \in Nat
       /\ SentBy(Device) <= SentBy(Device)' /\ SentBy(Disk) <= SentBy(Disk)'
  BY <1>10, <1>14
<1> QED BY <1>5, <1>6, <1>9, <1>12, <1>13, <1>15, QuietInv

LEMMA AwaitKeeps ==
  ASSUME NvmeInv, NEW c \in Readers, Await(c)
  PROVE  NvmeInv'
<1>1. Types /\ Scripts /\ Promising BY DEF NvmeInv
<1>2. c \in Tasks /\ c # Device /\ c # Disk BY IsPromise
<1>3. todo[c] # <<>> /\ run # <<>> BY DEF Await, Running
<1>4. pc \in [Tasks -> Nat] /\ todo \in [Tasks -> Seq(Promises)] BY <1>1 DEF Types
<1>5. Quiet /\ UNCHANGED <<created, cqHead, msi, irq, handlers>>
  BY DEF Await, Quiet, queues, controller, handling
<1>6. AwaitFirst(c) BY DEF Await
<1>7. pc' = [pc EXCEPT ![c] = IF Awaiting(c) \/ Len(todo[c]) > 1 THEN 2 ELSE 1] BY DEF Await
<1>8. PICK m \in 0 .. Blocks[c] : Reads(c, m) BY <1>1 DEF Promising
<1>9. pc[c] > 0
  <2>1. pc[c] # 0 BY <1>3, <1>8 DEF Reads
  <2> QED BY <1>2, <1>4, <2>1
<1>10. CASE Head(todo[c]) \in ready
  <2> DEFINE p == Head(todo[c])  k == IF Len(todo[c]) > 1 THEN 2 ELSE 1
  <2>1. /\ p \in ready /\ todo' = [todo EXCEPT ![c] = Tail(todo[c])]
        /\ ready' = IF c \in Readers THEN ready \ {p} ELSE ready
        /\ executed' = executed \ {p} /\ waiting' = waiting /\ run' = run
    BY <1>6, <1>10 DEF AwaitFirst
  <2>2. k \in Nat /\ pc' = [pc EXCEPT ![c] = k] BY <1>7, <1>10 DEF Awaiting
  <2>3. pc'[Device] = pc[Device] /\ pc'[Disk] = pc[Disk] /\ pc'[c] = k
        /\ \A d \in Readers : d # c => pc'[d] = pc[d]
    BY <1>2, <1>4, <2>2, IsPromise
  <2>4. /\ todo'[Device] = todo[Device] /\ todo'[Disk] = todo[Disk] /\ todo'[c] = Tail(todo[c])
    BY <1>2, <1>4, <2>1, IsPromise
  <2>5. Scripts'
    <3>1. \A d \in Readers : pc'[d] > 0 => Io \in created /\ pc[Disk] = 8
      BY <1>1, <1>9, <2>3 DEF Scripts
    <3>2. executed' \cup ready' \subseteq executed \cup ready /\ created' = created
      BY <1>5, <2>1
    <3> QED BY <1>1, <2>3, <2>4, <3>1, <3>2 DEF Scripts
  <2>6. SentBy(Device)' = SentBy(Device) /\ SentBy(Disk)' = SentBy(Disk)
    <3>1. /\ SentBy(Device)' = IF pc'[Device] = 1 THEN 0 ELSE IF pc'[Device] = 2 THEN 1 ELSE 2
          /\ SentBy(Disk)' = IF pc'[Disk] = 1 THEN 0 ELSE IF pc'[Disk] \in {2, 3} THEN 1
                    ELSE IF pc'[Disk] \in {4, 5} THEN 2 ELSE 3
      BY IsPromise DEF SentBy
    <3> QED BY <2>3, <3>1, SentByIs
  <2>7. k \in 0 .. 2 /\ \E n \in 0 .. Blocks[c] : Reads(c, n)'
    <3>1. PICK s : s = todo[c] OBVIOUS
    <3>2. s \in Seq(Promises) /\ s # <<>> BY <1>2, <1>3, <1>4, <3>1
    <3>3. PICK t : t = Tail(s) OBVIOUS
    <3>4. todo'[c] = t BY <2>4, <3>1, <3>3
    <3>5. Len(s) \in Nat \ {0} /\ Len(t) = Len(s) - 1 /\ DOMAIN t = 1 .. Len(s) - 1
          /\ DOMAIN s = 1 .. Len(s) /\ \A i \in DOMAIN t : t[i] = s[i + 1]
      BY <3>2, <3>3
    <3>6. m + Len(s) <= Blocks[c] /\ \A i \in DOMAIN s : s[i] = <<c, m + i>>
      BY <1>8, <3>1 DEF Reads
    <3>7. Blocks[c] \in Nat /\ m \in Nat BY RoomAssumption
    <3>8. CASE Len(s) > 1
      <4>1. m + 1 \in 0 .. Blocks[c] /\ (m + 1) + Len(t) <= Blocks[c] BY <3>5, <3>6, <3>7, <3>8
      <4>2. \A i \in DOMAIN t : t[i] = <<c, (m + 1) + i>>
        <5> SUFFICES ASSUME NEW i \in DOMAIN t PROVE t[i] = <<c, (m + 1) + i>> OBVIOUS
        <5>1. i + 1 \in DOMAIN s /\ m + (i + 1) = (m + 1) + i BY <3>5, <3>7
        <5> QED BY <3>5, <3>6, <5>1
      <4>3. pc'[c] = 2 BY <2>3, <3>1, <3>8
      <4>4. Reads(c, m + 1)' BY <3>4, <4>1, <4>2, <4>3 DEF Reads
      <4> QED BY <4>1, <4>4
    <3>9. CASE Len(s) = 1
      <4>1. t = <<>> /\ Len(t) = 0 /\ DOMAIN t = {} BY <3>2, <3>3, <3>5, <3>9
      <4>2. pc'[c] = 1 BY <2>3, <3>1, <3>9
      <4>3. 0 + Len(t) <= Blocks[c] /\ 0 \in 0 .. Blocks[c] BY <3>7, <4>1
      <4>4. Reads(c, 0)' BY <3>4, <4>1, <4>2, <4>3 DEF Reads
      <4> QED BY <4>3, <4>4
    <3> QED BY <3>5, <3>8, <3>9
  <2> HIDE DEF p, k
  <2>8. p = Head(todo[c]) BY DEF p
  <2>9. UNCHANGED <<created, cqHead, msi, irq, handlers, waiting, run>> BY <1>5, <2>1
  <2> QED BY <1>2, <1>3, <1>5, <2>1, <2>2, <2>5, <2>6, <2>7, <2>8, <2>9, GoesOn
<1>11. CASE Head(todo[c]) \notin ready
  <2>1. /\ waiting' = waiting \cup {c} /\ run' = Tail(run)
        /\ UNCHANGED <<todo, ready, executed>>
    BY <1>6, <1>11 DEF AwaitFirst, Return
  <2>2. pc' = [pc EXCEPT ![c] = 2] BY <1>3, <1>7, <1>11 DEF Awaiting
  <2>3. UNCHANGED <<created, cqHead, msi, irq, handlers, todo, ready, executed>> BY <1>5, <2>1
  <2> QED BY <1>2, <1>3, <1>5, <2>1, <2>2, <2>3, Suspends
<1> QED BY <1>10, <1>11

LEMMA AwaitCommandKeeps ==
  ASSUME NvmeInv, NEW c \in {Device, Disk}, AwaitCommand(c)
  PROVE  NvmeInv'
<1>1. Types /\ Scripts /\ Promising BY DEF NvmeInv
<1>2. c \in Tasks /\ c \notin Readers /\ Device # Disk BY IsPromise
<1>3. Op(c) = "await" /\ run # <<>> BY DEF AwaitCommand, Running
<1>4. pc \in [Tasks -> Nat] /\ todo \in [Tasks -> Seq(Promises)] BY <1>1 DEF Types
<1>5. Quiet /\ UNCHANGED <<created, cqHead, msi, irq, handlers>>
  BY DEF AwaitCommand, Quiet, queues, controller, handling
<1>6. AwaitFirst(c) BY DEF AwaitCommand
<1>7. pc' = [pc EXCEPT ![c] = IF Awaiting(c) THEN pc[c] ELSE pc[c] + 1] BY DEF AwaitCommand
<1>8. /\ c = Device => pc[Device] \in {3, 5}
      /\ c = Disk => pc[Disk] \in {2, 4, 6}
  BY <1>1, <1>3, OpIs
<1>9. /\ c = Device /\ pc[c] = 3 => todo[c] = << <<Device, 2>>, <<Device, 1>> >>
      /\ c = Device /\ pc[c] = 5 => todo[c] = << <<Device, 1>> >>
      /\ c = Disk /\ pc[c] = 2 => todo[c] = << <<Disk, 1>> >>
      /\ c = Disk /\ pc[c] = 4 => todo[c] = << <<Disk, 2>> >>
      /\ c = Disk /\ pc[c] = 6 => todo[c] = << <<Disk, 3>> >>
  BY <1>1 DEF Scripts
<1>10. todo[c] # <<>>
  <2>1. \A x, y : <<x>> # <<>> /\ <<x, y>> # <<>> OBVIOUS
  <2> QED BY <1>8, <1>9, <2>1
<1>11. CASE Head(todo[c]) \in ready
  <2> DEFINE p == Head(todo[c])  k == pc[c] + 1
  <2>1. /\ p \in ready /\ todo' = [todo EXCEPT ![c] = Tail(todo[c])]
        /\ ready' = IF c \in Readers THEN ready \ {p} ELSE ready
        /\ executed' = executed \ {p} /\ waiting' = waiting /\ run' = run
    BY <1>6, <1>11 DEF AwaitFirst
  <2>2. k \in Nat /\ pc' = [pc EXCEPT ![c] = k]
    <3>1. ~Awaiting(c) BY <1>11 DEF Awaiting
    <3>2. pc[c] \in Nat BY <1>2, <1>4
    <3> QED BY <1>7, <3>1, <3>2
  <2>3. pc'[c] = k /\ \A d \in Tasks \ {c} : pc'[d] = pc[d] BY <1>2, <1>4, <2>2
  <2>4. todo'[c] = Tail(todo[c]) /\ \A d \in Tasks \ {c} : todo'[d] = todo[d]
    BY <1>2, <1>4, <2>1
  <2>5. executed' \cup ready' \subseteq executed \cup ready /\ created' = created
    BY <1>5, <2>1
  <2>6. Scripts' /\ SentBy(Device)' = SentBy(Device) /\ SentBy(Disk)' = SentBy(Disk)
    <3>1. /\ SentBy(Device)' = IF pc'[Device] = 1 THEN 0 ELSE IF pc'[Device] = 2 THEN 1 ELSE 2
          /\ SentBy(Disk)' = IF pc'[Disk] = 1 THEN 0 ELSE IF pc'[Disk] \in {2, 3} THEN 1
                    ELSE IF pc'[Disk] \in {4, 5} THEN 2 ELSE 3
      BY IsPromise DEF SentBy
    <3>2. \A x, y : Head(<<x>>) = x /\ Tail(<<x>>) = <<>> /\ Head(<<x, y>>) = x /\ Tail(<<x, y>>) = <<y>>
      OBVIOUS
    <3>3. /\ pc[Device] \in 1 .. 6 /\ pc[Disk] \in 1 .. 8
          /\ pc[Disk] \in 5 .. 7 \/ <<Disk, 2>> \in executed \cup ready => "cq" \in created
          /\ pc[Disk] = 7 \/ <<Disk, 3>> \in executed \cup ready => Io \in created
          /\ \A d \in Readers : pc[d] > 0 => Io \in created /\ pc[Disk] = 8
      BY <1>1 DEF Scripts
    <3>4. \A d \in Readers : pc'[d] = pc[d] BY <1>2, <2>3, IsPromise
    <3>5. CASE c = Device
      <4>1. pc'[Disk] = pc[Disk] /\ todo'[Disk] = todo[Disk] BY <1>2, <2>3, <2>4, <3>5, IsPromise
      <4>2. \/ pc[Device] = 3 /\ pc'[Device] = 4 /\ todo'[Device] = << <<Device, 1>> >>
            \/ pc[Device] = 5 /\ pc'[Device] = 6 /\ todo'[Device] = <<>>
        <5>1. CASE pc[Device] = 3
          <6>1. pc'[Device] = 4 BY <2>3, <3>5, <5>1
          <6>2. todo'[Device] = << <<Device, 1>> >>
            <7>1. PICK x, y : x = <<Device, 2>> /\ y = <<Device, 1>> OBVIOUS
            <7>2. todo[Device] = <<x, y>> BY <1>9, <3>5, <5>1, <7>1
            <7>3. todo'[Device] = Tail(todo[Device]) BY <2>4, <3>5
            <7>4. todo'[Device] = <<y>> BY <3>2, <7>2, <7>3, Zenon
            <7> QED BY <7>1, <7>4
          <6> QED BY <5>1, <6>1, <6>2
        <5>2. CASE pc[Device] = 5
          <6>1. pc'[Device] = 6 BY <2>3, <3>5, <5>2
          <6>2. todo'[Device] = <<>> BY <1>9, <2>4, <3>2, <3>5, <5>2, Zenon
          <6> QED BY <5>2, <6>1, <6>2
        <5> QED BY <1>8, <3>5, <5>1, <5>2
      <4>3. todo'[Device] = CASE pc'[Device] \in {1, 6} -> <<>>
                      [] pc'[Device] = 3 -> << <<Device, 2>>, <<Device, 1>> >>
                      [] OTHER -> << <<Device, 1>> >>
        BY <4>2
      <4>4. todo'[Disk] = CASE pc'[Disk] = 2 -> << <<Disk, 1>> >>
                    [] pc'[Disk] = 4 -> << <<Disk, 2>> >>
                    [] pc'[Disk] = 6 -> << <<Disk, 3>> >>
                    [] OTHER -> <<>>
        <5>1. todo[Disk] = CASE pc[Disk] = 2 -> << <<Disk, 1>> >>
                    [] pc[Disk] = 4 -> << <<Disk, 2>> >>
                    [] pc[Disk] = 6 -> << <<Disk, 3>> >>
                    [] OTHER -> <<>>
          BY <1>1 DEF Scripts
        <5> QED BY <4>1, <5>1, Zenon
      <4>5. /\ pc'[Device] \in 1 .. 6 /\ pc'[Disk] \in 1 .. 8
            /\ pc'[Disk] \in 5 .. 7 \/ <<Disk, 2>> \in executed' \cup ready' => "cq" \in created'
            /\ pc'[Disk] = 7 \/ <<Disk, 3>> \in executed' \cup ready' => Io \in created'
            /\ \A d \in Readers : pc'[d] > 0 => Io \in created' /\ pc'[Disk] = 8
        <5>1. pc'[Device] \in 1 .. 6 BY <4>2
        <5>2. \A x : x \in executed' \cup ready' => x \in executed \cup ready BY <2>5
        <5> QED BY <2>5, <3>3, <3>4, <4>1, <5>1, <5>2, Zenon
      <4>6. Scripts' BY <4>3, <4>4, <4>5 DEF Scripts
      <4> QED BY <3>1, <4>1, <4>2, <4>6, SentByIs
    <3>6. CASE c = Disk
      <4>1. pc'[Device] = pc[Device] /\ todo'[Device] = todo[Device]
        BY <1>2, <2>3, <2>4, <3>6, IsPromise
      <4>2. \/ pc[Disk] = 2 /\ pc'[Disk] = 3
            \/ pc[Disk] = 4 /\ pc'[Disk] = 5 /\ p = <<Disk, 2>>
            \/ pc[Disk] = 6 /\ pc'[Disk] = 7 /\ p = <<Disk, 3>>
        <5>1. pc[Disk] = 2 => pc'[Disk] = 3 BY <2>3, <3>6
        <5>2. pc[Disk] = 4 => pc'[Disk] = 5 BY <2>3, <3>6
        <5>3. pc[Disk] = 6 => pc'[Disk] = 7 BY <2>3, <3>6
        <5>4. pc[Disk] = 4 => p = <<Disk, 2>> BY <1>9, <3>2, <3>6, Zenon
        <5>5. pc[Disk] = 6 => p = <<Disk, 3>> BY <1>9, <3>2, <3>6, Zenon
        <5> QED BY <1>8, <3>6, <5>1, <5>2, <5>3, <5>4, <5>5
      <4>3. todo'[Disk] = <<>>
        <5>1. \E x : todo[c] = <<x>> BY <1>8, <1>9, <3>6
        <5> QED BY <2>4, <3>2, <3>6, <5>1, Zenon
      <4>4. todo'[Disk] = CASE pc'[Disk] = 2 -> << <<Disk, 1>> >>
                    [] pc'[Disk] = 4 -> << <<Disk, 2>> >>
                    [] pc'[Disk] = 6 -> << <<Disk, 3>> >>
                    [] OTHER -> <<>>
        BY <4>2, <4>3
      <4>5. todo'[Device] = CASE pc'[Device] \in {1, 6} -> <<>>
                      [] pc'[Device] = 3 -> << <<Device, 2>>, <<Device, 1>> >>
                      [] OTHER -> << <<Device, 1>> >>
        <5>1. todo[Device] = CASE pc[Device] \in {1, 6} -> <<>>
                      [] pc[Device] = 3 -> << <<Device, 2>>, <<Device, 1>> >>
                      [] OTHER -> << <<Device, 1>> >>
          BY <1>1 DEF Scripts
        <5> QED BY <4>1, <5>1, Zenon
      <4>6. /\ pc'[Device] \in 1 .. 6 /\ pc'[Disk] \in 1 .. 8
            /\ pc'[Disk] \in 5 .. 7 \/ <<Disk, 2>> \in executed' \cup ready' => "cq" \in created'
            /\ pc'[Disk] = 7 \/ <<Disk, 3>> \in executed' \cup ready' => Io \in created'
            /\ \A d \in Readers : pc'[d] > 0 => Io \in created' /\ pc'[Disk] = 8
        <5>1. p \in ready BY <2>1
        <5> HIDE DEF p
        <5>2. pc'[Disk] \in 5 .. 7 => "cq" \in created BY <3>3, <4>2, <5>1
        <5>3. pc'[Disk] = 7 => Io \in created BY <3>3, <4>2, <5>1
        <5>4. \A d \in Readers : ~(pc'[d] > 0) BY <3>3, <3>4, <4>2
        <5>5. pc'[Disk] \in 1 .. 8 BY <4>2
        <5> QED BY <2>5, <3>3, <4>1, <5>2, <5>3, <5>4, <5>5
      <4>7. Scripts' BY <4>4, <4>5, <4>6 DEF Scripts
      <4>8. SentBy(Disk)' = SentBy(Disk) BY <3>1, <4>2, SentByIs
      <4>9. SentBy(Device)' = SentBy(Device) BY <3>1, <4>1, SentByIs
      <4> QED BY <4>7, <4>8, <4>9
    <3> QED BY <3>5, <3>6
  <2> HIDE DEF p, k
  <2>7. p = Head(todo[c]) BY DEF p
  <2>8. UNCHANGED <<created, cqHead, msi, irq, handlers, waiting, run>> BY <1>5, <2>1
  <2> QED BY <1>2, <1>5, <1>10, <2>1, <2>2, <2>6, <2>7, <2>8, GoesOn
<1>12. CASE Head(todo[c]) \notin ready
  <2>1. /\ waiting' = waiting \cup {c} /\ run' = Tail(run)
        /\ UNCHANGED <<todo, ready, executed>>
    BY <1>6, <1>12 DEF AwaitFirst, Return
  <2>2. pc' = pc
    <3>1. pc' = [pc EXCEPT ![c] = pc[c]] BY <1>7, <1>10, <1>12 DEF Awaiting
    <3> QED BY <1>2, <1>4, <3>1
  <2>3. UNCHANGED <<created, cqHead, msi, irq, handlers, todo, ready, executed>> BY <1>5, <2>1
  <2> QED BY <1>2, <1>3, <1>5, <2>1, <2>2, <2>3, Suspends
<1> QED BY <1>11, <1>12

-----------------------------------------------------------------------------
(* A command is sent.                                                      *)

LEMMA TypesOfSent ==
  ASSUME Types, NEW q \in Queues, NEW op \in Ops \ {"none"}, NEW p \in Promises, RunCommand(q, op, p),
         q \in created,
         UNCHANGED <<controller, cqHead, cqi, msi, irq, handling, ready, waiting, run, executed>>,
         todo' \in [Tasks -> Seq(Promises)], pc' \in [Tasks -> Nat]
  PROVE  Types'
<1>1. /\ DOMAIN sq' = Queues /\ DOMAIN completions' = Queues /\ DOMAIN sqi' = Queues
      /\ DOMAIN tail' = Queues
      /\ \A r \in Queues :
           /\ sqi'[r] \in 0 .. Turn(r) - 1 /\ tail'[r] \in 0 .. Size[r] - 1
           /\ sq'[r] \in [0 .. Size[r] - 1 -> Records(r)]
           /\ completions'[r] \in Seq([id : 0 .. Turn(r) - 1, p : Promises])
  BY TypesSent, Zenon
<1>2. /\ head' = head /\ fetched' = fetched /\ created' = created /\ cq' = cq /\ post' = post
      /\ cqHead' = cqHead /\ cqi' = cqi /\ msi' = msi /\ irq' = irq /\ step' = step /\ at' = at
      /\ ready' = ready /\ waiting' = waiting /\ run' = run /\ executed' = executed
  BY DEF controller, handling
<1>3. \A r \in Queues : Turn(r)' = Turn(r) /\ Records(r)' = Records(r) BY DEF Turn, Records
<1>4. ASSUME NEW r \in Queues
      PROVE /\ {sqi'[r], post'[r], cqi'[r]} \subseteq 0 .. Turn(r)' - 1
            /\ {tail'[r], head'[r], cqHead'[r]} \subseteq 0 .. Size[r] - 1
            /\ sq'[r] \in [0 .. Size[r] - 1 -> Records(r)']
            /\ cq'[r] \in [0 .. Size[r] - 1 -> [id : 0 .. Turn(r)' - 1, phase : {0, 1}]]
            /\ completions'[r] \in Seq([id : 0 .. Turn(r)' - 1, p : Promises])
  <2>1. /\ post[r] \in 0 .. Turn(r) - 1 /\ cqi[r] \in 0 .. Turn(r) - 1
        /\ {head[r], cqHead[r]} \subseteq 0 .. Size[r] - 1
        /\ cq[r] \in [0 .. Size[r] - 1 -> [id : 0 .. Turn(r) - 1, phase : {0, 1}]]
    BY DEF Types
  <2> QED BY <1>1, <1>2, <1>3, <2>1
<1>5. /\ DOMAIN cq' = Queues /\ DOMAIN head' = Queues /\ DOMAIN post' = Queues
      /\ DOMAIN cqHead' = Queues /\ DOMAIN cqi' = Queues
      /\ IsFiniteSet(fetched') /\ created' \subseteq {Admin, "cq", Io} /\ Admin \in created'
      /\ msi' \in BOOLEAN /\ irq' \subseteq Queues
      /\ step' \in {"look", "remove"} /\ at' \in Nat \ {0}
      /\ ready' \subseteq Promises /\ executed' \subseteq Promises /\ waiting' \subseteq Tasks
      /\ run' \in Seq(Tasks)
  BY <1>2 DEF Types
<1>6. \A f \in fetched' : /\ f.q \in Queues /\ f.cmd \in Records(f.q)'
                          /\ f = [q |-> f.q, cmd |-> f.cmd]
  BY <1>2, <1>3 DEF Types
<1> QED BY <1>1, <1>4, <1>5, <1>6 DEF Types

LEMMA HandlerSent ==
  ASSUME Types, Handler, NEW q \in Queues, NEW op \in Ops \ {"none"}, NEW p \in Promises,
         RunCommand(q, op, p), UNCHANGED <<handlers, step, at, cqi, post, cq>>
  PROVE  Handler'
<1>1. \A n \in DOMAIN completions[Io] :
        n \in DOMAIN completions'[Io] /\ completions'[Io][n] = completions[Io][n]
  <2>1. CASE q = Io
    <3>1. /\ DOMAIN completions'[q] = DOMAIN completions[q] \cup {Len(completions[q]) + 1}
          /\ \A n \in DOMAIN completions[q] : completions'[q][n] = completions[q][n]
      BY EntrySent, Zenon
    <3> QED BY <2>1, <3>1
  <2>2. CASE q # Io
    <3>1. completions'[Io] = completions[Io] BY <2>2, TwoQueues DEF RunCommand, Types
    <3> QED BY <3>1
  <2> QED BY <2>1, <2>2
<1>2. \A r \in Queues : \A i : Id(r, i)' = Id(r, i) BY DEF Id
<1>3. Io \in Queues /\ Admin \in Queues BY TwoQueues
<1> QED BY <1>1, <1>2, <1>3 DEF Handler

\* The promise a reader sends a command with is one it does not await yet.
LEMMA IssueIs ==
  ASSUME Types, Scripts, Promising, NEW c \in Readers, Issue(c),
         NEW p, p = <<c, Len(todo[c]) + 1>>
  PROVE  /\ p \in Promises /\ p[1] = c /\ p \notin Awaited
         /\ Len(todo[c]) \in Nat /\ Blocks[c] \in Nat
         /\ \A i \in DOMAIN todo[c] : todo[c][i] = <<c, i>>
         /\ todo' = [todo EXCEPT ![c] = Append(todo[c], p)]
         /\ Awaited' = Awaited \cup {p} /\ todo' \in [Tasks -> Seq(Promises)]
         /\ \A d \in Tasks \ {c} : todo'[d] = todo[d]
<1>1. c \in Tasks BY IsPromise
<1>2. todo \in [Tasks -> Seq(Promises)] BY DEF Types
<1>3. pc[c] = 1 /\ Len(todo[c]) < Blocks[c] BY DEF Issue
<1>4. todo' = [todo EXCEPT ![c] = Append(todo[c], p)] BY DEF Issue
<1>5. Len(todo[c]) \in Nat /\ Blocks[c] \in Nat BY <1>1, <1>2, RoomAssumption
<1>6. p \in Promises /\ p[1] = c BY <1>3, <1>5, IsPromise
<1>7. /\ \A i \in DOMAIN todo[c] : todo[c][i] = <<c, i>>
       /\ DOMAIN todo[c] = 1 .. Len(todo[c])
  <2>1. PICK m \in 0 .. Blocks[c] : Reads(c, m) BY DEF Promising
  <2>2. m = 0 BY <1>3, <2>1 DEF Reads
  <2>3. DOMAIN todo[c] = 1 .. Len(todo[c]) BY <1>1, <1>2
  <2>4. \A i \in DOMAIN todo[c] : todo[c][i] = <<c, m + i>> BY <2>1 DEF Reads
  <2>5. \A i \in DOMAIN todo[c] : m + i = i BY <1>5, <2>2, <2>3
  <2> QED BY <2>3, <2>4, <2>5
<1>8. p \notin Awaited
  <2>1. \A i \in DOMAIN todo[c] : i # Len(todo[c]) + 1 BY <1>5, <1>7
  <2>2. \A i \in DOMAIN todo[c] : todo[c][i] # p BY <1>7, <2>1
  <2> QED BY <1>6, <2>2, AwaitedIs
<1>9. /\ Awaited' = Awaited \cup {p} /\ todo' \in [Tasks -> Seq(Promises)]
       /\ \A d \in Tasks \ {c} : todo'[d] = todo[d]
  BY <1>1, <1>4, <1>6, AwaitedMore
<1> QED BY <1>4, <1>5, <1>6, <1>7, <1>8, <1>9

LEMMA IssueKeeps ==
  ASSUME NvmeInv, NEW c \in Readers, Issue(c)
  PROVE  NvmeInv'
<1>1. Types /\ Apart /\ Turning /\ Starting /\ Handler /\ Scripts /\ Promising
  BY DEF NvmeInv
<1>2. c \in Tasks /\ c # Device /\ c # Disk BY IsPromise
<1>3. pc \in [Tasks -> Nat] /\ todo \in [Tasks -> Seq(Promises)] BY <1>1 DEF Types
<1>4. pc[c] = 1 /\ Len(todo[c]) < Blocks[c] /\ Room BY DEF Issue
<1>5. PICK p : p = <<c, Len(todo[c]) + 1>> OBVIOUS
<1>6. RunCommand(Io, Kind[c], p) /\ todo' = [todo EXCEPT ![c] = Append(todo[c], p)]
  BY <1>5 DEF Issue
<1>7. UNCHANGED <<controller, cqHead, cqi, msi, irq, handling, ready, waiting, run, executed>>
  BY DEF Issue
<1>8. /\ head' = head /\ fetched' = fetched /\ created' = created /\ cq' = cq /\ post' = post
      /\ cqi' = cqi /\ step' = step /\ at' = at /\ handlers' = handlers
      /\ ready' = ready /\ executed' = executed /\ pc' = pc
  BY DEF Issue, controller, handling
<1>9. /\ p \in Promises /\ p[1] = c /\ p \notin Awaited
      /\ Len(todo[c]) \in Nat /\ Blocks[c] \in Nat
      /\ \A i \in DOMAIN todo[c] : todo[c][i] = <<c, i>>
      /\ Awaited' = Awaited \cup {p} /\ todo' \in [Tasks -> Seq(Promises)]
      /\ \A d \in Tasks \ {c} : todo'[d] = todo[d]
  BY <1>1, <1>5, IssueIs, Zenon
<1>10. p \in Promises /\ p[1] = c BY <1>9
<1>11. Io \in created /\ Io \in Queues /\ Admin \in Queues /\ Io # Admin
  BY <1>1, <1>4, TwoQueues DEF Scripts
<1>12. p \notin ready BY <1>1, <1>10, <1>9 DEF Promising
<1>13. QueueOf(p) = Io /\ OpOf(p) = Kind[c] /\ Kind[c] \in Ops \ {"none"}
  <2>1. QueueOf(p) = Io
    <3>1. p[1] \in Readers BY <1>10
    <3> QED BY <3>1 DEF QueueOf
  <2>3. OpOf(p) = Kind[c]
    <3>1. p[1] \in Readers /\ p[1] = c BY <1>10
    <3>2. p # <<Device, 2>> /\ p # <<Disk, 2>> /\ p # <<Disk, 3>>
      <4>1. <<Device, 2>>[1] = Device /\ <<Disk, 2>>[1] = Disk /\ <<Disk, 3>>[1] = Disk OBVIOUS
      <4> QED BY <1>2, <1>10, <4>1, Zenon
    <3>3. OpOf(p) = Kind[p[1]] BY <3>1, <3>2, Zenon DEF OpOf
    <3> QED BY <3>1, <3>3
  <2>2. Kind[c] \in Requests BY RoomAssumption
  <2> QED BY <2>1, <2>2, <2>3 DEF Requests, Ops
<1>14. Cardinality(OfReaders) < Size[Io] - 1 BY <1>4 DEF Room, OfReaders
<1>15. Size[Io] \in Nat BY <1>11, Sizes
<1>16. Count(Io) < Size[Io] - 1
  <2>1. Count(Io) \in Nat /\ Count(Io) <= Cardinality(OfReaders) /\ Cardinality(OfReaders) \in Nat
    BY DiskBounds
  <2> QED BY <1>14, <1>15, <2>1
<1>17. \A n \in DOMAIN completions[Io] : Kept(Io, n) => completions[Io][n].p # p
  BY <1>9, DiskEntries
<1>18. /\ \A r \in Queues : Sending(r)' /\ Outstanding(r)' /\ Phases(r)' /\ Numbers(r)' /\ Owed(r)'
       /\ Apart' /\ Turning'
       /\ \A r \in Queues \ {Io} : Count(r)' = Count(r) /\ completions'[r] = completions[r]
                                  /\ sqi'[r] = sqi[r]
  <2>1. UNCHANGED <<head, fetched, cq, cqi, post, step, at, executed, ready>> BY <1>8
  <2>2. Io = Io => Cardinality(OfReaders) < Size[Io] - 1 BY <1>14
  <2> QED BY <1>6, <1>9, <1>10, <1>11, <1>12, <1>13, <1>16, <1>17, <2>1, <2>2, SentKeeps, Zenon
<1>19. Types'
  <2>1. pc' \in [Tasks -> Nat] BY <1>3, <1>8
  <2> QED BY <1>1, <1>6, <1>7, <1>10, <1>11, <1>13, <1>9, <2>1, TypesOfSent, Zenon
<1>20. Handler'
  <2>1. UNCHANGED <<handlers, step, at, cqi, post, cq>> BY <1>8
  <2> QED BY <1>1, <1>6, <1>10, <1>11, <1>13, <2>1, HandlerSent, Zenon
<1>21. Starting'
  <2>1. /\ Count(Admin)' = Count(Admin) /\ completions'[Admin] = completions[Admin]
        /\ sqi'[Admin] = sqi[Admin]
    BY <1>11, <1>18
  <2>2. post'[Admin] = post[Admin] /\ cqi'[Admin] = cqi[Admin] /\ UNCHANGED pc BY <1>8
  <2> QED BY <1>1, <2>1, <2>2, StartingKept, Zenon
<1>22. Scripts'
  <2>1. todo'[Device] = todo[Device] /\ todo'[Disk] = todo[Disk] BY <1>2, <1>9, IsPromise
  <2> QED BY <1>1, <1>8, <2>1 DEF Scripts
<1>23. Promising'
  <2>1. ASSUME NEW d \in Readers
        PROVE pc'[d] \in 0 .. 2 /\ \E m \in 0 .. Blocks[d] : Reads(d, m)'
    <3>1. d \in Tasks BY IsPromise
    <3>2. CASE d # c
      <4>1. pc'[d] = pc[d] /\ todo'[d] = todo[d] BY <1>8, <1>9, <3>1, <3>2
      <4>2. \A m : Reads(d, m)' <=> Reads(d, m) BY <4>1 DEF Reads
      <4> QED BY <1>1, <4>1, <4>2 DEF Promising
    <3>3. CASE d = c
      <4>1. PICK s : s = todo[c] OBVIOUS
      <4>2. PICK t : t = Append(s, p) OBVIOUS
      <4>3. todo'[c] = t BY <1>2, <1>3, <1>6, <4>1, <4>2
      <4>4. s \in Seq(Promises) BY <1>2, <1>3, <4>1
      <4>5. /\ Len(t) = Len(s) + 1 /\ DOMAIN t = DOMAIN s \cup {Len(t)}
            /\ \A n \in DOMAIN s : t[n] = s[n]
            /\ t[Len(t)] = p
        BY <4>2, <4>4, Appended
      <4>6. \A i \in DOMAIN t : t[i] = <<c, 0 + i>>
        <5>1. Len(s) + 1 \in Nat BY <1>9, <4>1
        <5>2. \A i \in DOMAIN s : t[i] = <<c, i>> /\ 0 + i = i BY <1>9, <4>1, <4>5
        <5>3. t[Len(t)] = <<c, Len(t)>> /\ 0 + Len(t) = Len(t) BY <1>5, <4>1, <4>5, <5>1
        <5> QED BY <4>5, <5>2, <5>3
      <4>7. 0 + Len(t) <= Blocks[c] /\ 0 \in 0 .. Blocks[c] BY <1>4, <1>9, <4>1, <4>5
      <4>8. Reads(c, 0)' BY <1>4, <1>8, <4>3, <4>6, <4>7 DEF Reads
      <4> QED BY <1>4, <1>8, <3>3, <4>7, <4>8
    <3> QED BY <3>2, <3>3
  <2>2. ASSUME NEW x \in ready'
        PROVE  IF x[1] \in Readers THEN x \in Awaited' ELSE x[2] <= SentBy(x[1])'
    <3>1. x \in ready BY <1>8
    <3>2. IF x[1] \in Readers THEN x \in Awaited ELSE x[2] <= SentBy(x[1]) BY <1>1, <3>1 DEF Promising
    <3>3. SentBy(x[1])' = SentBy(x[1]) BY <1>8 DEF SentBy
    <3> QED BY <1>9, <3>2, <3>3
  <2>3. executed' \subseteq Awaited' /\ ready' \cap Awaited' \subseteq executed'
    BY <1>1, <1>8, <1>12, <1>9 DEF Promising
  <2>4. Cardinality(OfReaders') < Size[Io]
    <3>1. IsFiniteSet(OfReaders) /\ Cardinality(OfReaders) \in Nat BY FiniteReaders
    <3>2. OfReaders' = OfReaders \cup {p}
      <4>1. OfReaders = {x \in Awaited : x[1] \in Readers} BY DEF OfReaders, Awaited
      <4>2. OfReaders' = {x \in Awaited' : x[1] \in Readers} BY DEF OfReaders, Awaited
      <4> QED BY <1>10, <1>9, <4>1, <4>2
    <3>3. Cardinality(OfReaders') = Cardinality(OfReaders) \/ Cardinality(OfReaders') = Cardinality(OfReaders) + 1
      <4>1. /\ p \in OfReaders => OfReaders \cup {p} = OfReaders OBVIOUS
      <4>2. p \notin OfReaders => Cardinality(OfReaders \cup {p}) = Cardinality(OfReaders) + 1
        BY <3>1, FS_AddElement
      <4> QED BY <3>2, <4>1, <4>2
    <3> QED BY <1>14, <1>15, <3>1, <3>3
  <2> QED BY <2>1, <2>2, <2>3, <2>4 DEF Promising
<1> QED BY <1>18, <1>19, <1>20, <1>21, <1>22, <1>23 DEF NvmeInv

\* Which command a task's place in its script is.
Number(c) == Cardinality({n \in 1 .. pc[c] :
               Script[c][n] \in {"identify", "list", "cq", "sq"}})

LEMMA Sets ==
  /\ Cardinality({1}) = 1 /\ Cardinality({1, 2}) = 2
  /\ Cardinality({1, 3}) = 2 /\ Cardinality({1, 3, 5}) = 3
<1>1. IsFiniteSet({1}) /\ Cardinality({1}) = 1 BY FS_Singleton
<1>2. Cardinality({1} \cup {2}) = Cardinality({1}) + 1
  <2>1. 2 \notin {1} OBVIOUS
  <2> QED BY <1>1, <2>1, FS_AddElement
<1>3. IsFiniteSet({1} \cup {3}) /\ Cardinality({1} \cup {3}) = Cardinality({1}) + 1
  <2>1. 3 \notin {1} OBVIOUS
  <2> QED BY <1>1, <2>1, FS_AddElement
<1>4. Cardinality(({1} \cup {3}) \cup {5}) = Cardinality({1} \cup {3}) + 1
  <2>1. 5 \notin {1} \cup {3} OBVIOUS
  <2> QED BY <1>3, <2>1, FS_AddElement
<1>5. {1, 2} = {1} \cup {2} /\ {1, 3} = {1} \cup {3} /\ {1, 3, 5} = ({1} \cup {3}) \cup {5} OBVIOUS
<1> QED BY <1>1, <1>2, <1>3, <1>4, <1>5

LEMMA Joined ==
  ASSUME NEW S, NEW x \in S, NEW y \in S
  PROVE  <<x>> \o <<>> = <<x>> /\ <<x>> \o <<y>> = <<x, y>>
<1>1. <<x>> \in Seq(S) /\ <<y>> \in Seq(S) /\ <<x, y>> \in Seq(S) OBVIOUS
<1>2. PICK t : t = <<x>> \o <<y>> OBVIOUS
<1>3. PICK u : u = <<x, y>> OBVIOUS
<1>4. t \in Seq(S) /\ Len(t) = 2 /\ t[1] = x /\ t[2] = y
  <2>1. Len(<<x>>) = 1 /\ Len(<<y>>) = 1 OBVIOUS
  <2> QED BY <1>1, <1>2, <2>1
<1>5. u \in Seq(S) /\ Len(u) = 2 /\ u[1] = x /\ u[2] = y BY <1>1, <1>3
<1> HIDE <1>2, <1>3
<1>6. \A i \in 1 .. Len(t) : t[i] = u[i]
  <2>1. \A i \in 1 .. Len(t) : i = 1 \/ i = 2 BY <1>4
  <2> QED BY <1>4, <1>5, <2>1, Zenon
<1>7. t = u BY <1>4, <1>5, <1>6, SeqEqual
<1>8. <<x>> \o <<>> = <<x>> BY <1>1, ConcatEmptySeq
<1> QED BY <1>2, <1>3, <1>7, <1>8

LEMMA NumberIs ==
  ASSUME Scripts, NEW c \in {Device, Disk}, Op(c) \in {"identify", "list", "cq", "sq"}
  PROVE  /\ Number(c) = SentBy(c) + 1
         /\ \/ c = Device /\ pc[c] = 1 /\ Op(c) = "identify" /\ SentBy(c) = 0
            \/ c = Device /\ pc[c] = 2 /\ Op(c) = "list" /\ SentBy(c) = 1
            \/ c = Disk /\ pc[c] = 1 /\ Op(c) = "identify" /\ SentBy(c) = 0
            \/ c = Disk /\ pc[c] = 3 /\ Op(c) = "cq" /\ SentBy(c) = 1
            \/ c = Disk /\ pc[c] = 5 /\ Op(c) = "sq" /\ SentBy(c) = 2
<1> DEFINE s == Script[Device]  r == Script[Disk]  C == {"identify", "list", "cq", "sq"}
<1>1. /\ s = <<"identify", "list", "await", "new_disk", "await">>
      /\ r = <<"identify", "await", "cq", "await", "sq", "await", "register">>
  BY IsPromise DEF Script
<1>2. s[1] \in C /\ s[2] \in C
  <2>1. \A x : x = <<"identify", "list", "await", "new_disk", "await">> =>
          x[1] = "identify" /\ x[2] = "list"
    OBVIOUS
  <2>2. s[1] = "identify" /\ s[2] = "list" BY <1>1, <2>1, Zenon
  <2> QED BY <2>2
<1>3. r[1] \in C /\ r[2] \notin C /\ r[3] \in C /\ r[4] \notin C /\ r[5] \in C
  <2>1. \A x : x = <<"identify", "await", "cq", "await", "sq", "await", "register">> =>
          /\ x[1] = "identify" /\ x[2] = "await" /\ x[3] = "cq" /\ x[4] = "await"
          /\ x[5] = "sq"
    OBVIOUS
  <2>2. r[1] = "identify" /\ r[2] = "await" /\ r[3] = "cq" /\ r[4] = "await" /\ r[5] = "sq"
    BY <1>1, <2>1, Zenon
  <2> QED BY <2>2
<1>4. /\ \A k : k = pc[Device] => Number(Device) = Cardinality({n \in 1 .. k : s[n] \in C})
      /\ \A k : k = pc[Disk] => Number(Disk) = Cardinality({n \in 1 .. k : r[n] \in C})
  BY DEF Number
<1> HIDE DEF s, r, C
<1>5. \/ c = Device /\ pc[c] = 1 /\ Op(c) = "identify" /\ SentBy(c) = 0
      \/ c = Device /\ pc[c] = 2 /\ Op(c) = "list" /\ SentBy(c) = 1
      \/ c = Disk /\ pc[c] = 1 /\ Op(c) = "identify" /\ SentBy(c) = 0
      \/ c = Disk /\ pc[c] = 3 /\ Op(c) = "cq" /\ SentBy(c) = 1
      \/ c = Disk /\ pc[c] = 5 /\ Op(c) = "sq" /\ SentBy(c) = 2
  <2>1. c = Device \/ c = Disk OBVIOUS
  <2>2. \/ c = Device /\ pc[c] = 1 /\ Op(c) = "identify"
        \/ c = Device /\ pc[c] = 2 /\ Op(c) = "list"
        \/ c = Disk /\ pc[c] = 1 /\ Op(c) = "identify"
        \/ c = Disk /\ pc[c] = 3 /\ Op(c) = "cq"
        \/ c = Disk /\ pc[c] = 5 /\ Op(c) = "sq"
    BY <2>1, OpIs
  <2>3. /\ pc[Device] = 1 => SentBy(Device) = 0
        /\ pc[Device] = 2 => SentBy(Device) = 1
        /\ pc[Disk] = 1 => SentBy(Disk) = 0
        /\ pc[Disk] = 3 => SentBy(Disk) = 1
        /\ pc[Disk] = 5 => SentBy(Disk) = 2
    BY SentByIs
  <2> QED BY <2>2, <2>3
<1>6. Cardinality({1}) = 1 /\ Cardinality({1, 2}) = 2 /\ Cardinality({1, 3}) = 2
      /\ Cardinality({1, 3, 5}) = 3
  BY Sets
<1>7. c = Device /\ pc[c] = 1 => Number(c) = 1
  <2>1. {n \in 1 .. 1 : s[n] \in C} = {1} BY <1>2
  <2> QED BY <1>4, <1>6, <2>1
<1>8. c = Device /\ pc[c] = 2 => Number(c) = 2
  <2>1. {n \in 1 .. 2 : s[n] \in C} = {1, 2} BY <1>2
  <2> QED BY <1>4, <1>6, <2>1
<1>9. c = Disk /\ pc[c] = 1 => Number(c) = 1
  <2>1. {n \in 1 .. 1 : r[n] \in C} = {1} BY <1>3
  <2> QED BY <1>4, <1>6, <2>1
<1>10. c = Disk /\ pc[c] = 3 => Number(c) = 2
  <2>1. {n \in 1 .. 3 : r[n] \in C} = {1, 3} BY <1>3
  <2> QED BY <1>4, <1>6, <2>1
<1>11. c = Disk /\ pc[c] = 5 => Number(c) = 3
  <2>1. {n \in 1 .. 5 : r[n] \in C} = {1, 3, 5} BY <1>3
  <2> QED BY <1>4, <1>6, <2>1
<1>12. Number(c) = SentBy(c) + 1 BY <1>5, <1>7, <1>8, <1>9, <1>10, <1>11
<1> QED BY <1>5, <1>12

LEMMA CommandIs ==
  ASSUME Types, Scripts, NEW c \in {Device, Disk}, Command(c), NEW p, p = <<c, SentBy(c) + 1>>
  PROVE  /\ p \in Promises /\ p[1] = c /\ p[2] = SentBy(c) + 1
         /\ RunCommand(Admin, OpOf(p), p) /\ OpOf(p) \in Ops \ {"none"} /\ QueueOf(p) = Admin
         /\ \/ todo' = [todo EXCEPT ![c] = Append(todo[c], p)]
            \/ todo' = [todo EXCEPT ![c] = <<p>> \o todo[c]]
         /\ p \notin Awaited
         /\ SentBy(c) \in Nat /\ SentBy(c)' = SentBy(c) + 1
         /\ \A d \in {Device, Disk} \ {c} : SentBy(d)' = SentBy(d)
         /\ SentBy(Device) + SentBy(Disk) \in 0 .. 4
         /\ pc' \in [Tasks -> Nat] /\ \A d \in Tasks \ {c} : pc'[d] = pc[d]
         /\ Scripts'
<1>1. c \in Tasks /\ c \notin Readers /\ Device # Disk /\ Device \in Tasks /\ Disk \in Tasks
  BY IsPromise
<1>2. pc \in [Tasks -> Nat] /\ todo \in [Tasks -> Seq(Promises)] BY DEF Types
<1>3. Op(c) \in {"identify", "list", "cq", "sq"} BY DEF Command
<1>4. /\ Number(c) = SentBy(c) + 1
      /\ \/ c = Device /\ pc[c] = 1 /\ Op(c) = "identify" /\ SentBy(c) = 0
         \/ c = Device /\ pc[c] = 2 /\ Op(c) = "list" /\ SentBy(c) = 1
         \/ c = Disk /\ pc[c] = 1 /\ Op(c) = "identify" /\ SentBy(c) = 0
         \/ c = Disk /\ pc[c] = 3 /\ Op(c) = "cq" /\ SentBy(c) = 1
         \/ c = Disk /\ pc[c] = 5 /\ Op(c) = "sq" /\ SentBy(c) = 2
  BY <1>3, NumberIs
<1>5. /\ RunCommand(Admin, Op(c), <<c, Number(c)>>)
      /\ todo' = [todo EXCEPT ![c] = IF c = Device THEN <<<<c, Number(c)>>>> \o todo[c]
                                     ELSE Append(todo[c], <<c, Number(c)>>)]
      /\ pc' = [pc EXCEPT ![c] = pc[c] + 1]
      /\ executed' = executed /\ ready' = ready /\ created' = created
  BY DEF Command, Number, controller
<1>6. <<c, Number(c)>> = p BY <1>4
<1>7. /\ RunCommand(Admin, Op(c), p)
      /\ todo' = [todo EXCEPT ![c] = IF c = Device THEN <<p>> \o todo[c] ELSE Append(todo[c], p)]
  BY <1>5, <1>6
<1>8. p[1] = c /\ p[2] = SentBy(c) + 1 OBVIOUS
<1>9. p \in Promises BY <1>4, IsPromise
<1>10. OpOf(p) = Op(c)
  <2>1. \A x, y : <<x, y>>[1] = x /\ <<x, y>>[2] = y OBVIOUS
  <2>2. CASE c = Device /\ SentBy(c) = 0
    <3>1. p = <<Device, 1>> BY <2>2
    <3>2. p # <<Device, 2>> /\ p # <<Disk, 2>> /\ p # <<Disk, 3>> BY <1>1, <3>1
    <3>3. OpOf(p) = "identify" BY <1>1, <1>8, <3>2, Zenon DEF OpOf
    <3> QED BY <1>1, <1>4, <2>2, <3>3
  <2>3. CASE c = Device /\ SentBy(c) = 1
    <3>1. p = <<Device, 2>> BY <2>3
    <3>2. p # <<Disk, 2>> /\ p # <<Disk, 3>> BY <1>1, <3>1
    <3>3. OpOf(p) = "list" BY <1>1, <1>8, <3>1, <3>2, Zenon DEF OpOf
    <3> QED BY <1>1, <1>4, <2>3, <3>3
  <2>4. CASE c = Disk /\ SentBy(c) = 0
    <3>1. p = <<Disk, 1>> BY <2>4
    <3>2. p # <<Device, 2>> /\ p # <<Disk, 2>> /\ p # <<Disk, 3>> BY <1>1, <3>1
    <3>3. OpOf(p) = "identify" BY <1>1, <1>8, <3>2, Zenon DEF OpOf
    <3> QED BY <1>1, <1>4, <2>4, <3>3
  <2>5. CASE c = Disk /\ SentBy(c) = 1
    <3>1. p = <<Disk, 2>> BY <2>5
    <3>2. p # <<Device, 2>> /\ p # <<Disk, 3>> BY <1>1, <3>1
    <3>3. OpOf(p) = "cq" BY <1>1, <1>8, <3>1, <3>2, Zenon DEF OpOf
    <3> QED BY <1>1, <1>4, <2>5, <3>3
  <2>6. CASE c = Disk /\ SentBy(c) = 2
    <3>1. p = <<Disk, 3>> BY <2>6
    <3>2. p # <<Device, 2>> /\ p # <<Disk, 2>> BY <1>1, <3>1
    <3>3. OpOf(p) = "sq" BY <1>1, <1>8, <3>1, <3>2, Zenon DEF OpOf
    <3> QED BY <1>1, <1>4, <2>6, <3>3
  <2> QED BY <1>4, <2>2, <2>3, <2>4, <2>5, <2>6
<1>11. OpOf(p) \in Ops \ {"none"} BY <1>3, <1>10 DEF Ops
<1>12. QueueOf(p) = Admin BY <1>1, <1>8 DEF QueueOf
<1>13. /\ c = Device /\ pc[c] = 1 => todo[Device] = <<>>
       /\ c = Device /\ pc[c] = 2 => todo[Device] = << <<Device, 1>> >>
       /\ c = Disk => todo[Disk] = <<>>
  <2>1. /\ pc[Device] = 1 => todo[Device] = <<>>
        /\ pc[Device] = 2 => todo[Device] = << <<Device, 1>> >>
    BY DEF Scripts
  <2>2. pc[Disk] \in {1, 3, 5} => todo[Disk] = <<>> BY DEF Scripts
  <2> QED BY <1>1, <1>4, <2>1, <2>2
<1>14. p \notin Awaited
  <2>1. p \in Awaited <=> \E i \in DOMAIN todo[c] : todo[c][i] = p BY <1>8, <1>9, AwaitedIs
  <2>2. \A i \in DOMAIN todo[c] : todo[c][i] # p
    <3>1. CASE todo[c] = <<>> BY <3>1
    <3>2. CASE c = Device /\ pc[c] = 2
      <4>1. todo[c] = << <<Device, 1>> >> BY <1>13, <3>2
      <4>2. p # <<Device, 1>> BY <1>4, <3>2
      <4>3. PICK x : x = <<Device, 1>> OBVIOUS
      <4>4. todo[c] = <<x>> BY <4>1, <4>3
      <4>5. \A i \in DOMAIN todo[c] : todo[c][i] = x BY <4>4
      <4> QED BY <4>2, <4>3, <4>5
    <3> QED BY <1>4, <1>13, <3>1, <3>2
  <2> QED BY <2>1, <2>2
<1>15. pc' \in [Tasks -> Nat] /\ pc'[c] = pc[c] + 1 /\ \A d \in Tasks \ {c} : pc'[d] = pc[d]
  <2>1. pc[c] \in Nat BY <1>1, <1>2
  <2> QED BY <1>1, <1>2, <1>5, <2>1
<1>16. /\ SentBy(Device)' = IF pc'[Device] = 1 THEN 0 ELSE IF pc'[Device] = 2 THEN 1 ELSE 2
       /\ SentBy(Disk)' = IF pc'[Disk] = 1 THEN 0 ELSE IF pc'[Disk] \in {2, 3} THEN 1
                    ELSE IF pc'[Disk] \in {4, 5} THEN 2 ELSE 3
  BY IsPromise DEF SentBy
<1>17. \A d \in {Device, Disk} \ {c} : SentBy(d)' = SentBy(d)
  BY <1>1, <1>15, <1>16, SentByIs
<1>18. SentBy(c)' = SentBy(c) + 1 /\ SentBy(c) \in Nat BY <1>4, <1>15, <1>16
<1>19. SentBy(Device) + SentBy(Disk) \in 0 .. 4
  <2>1. SentBy(Device) \in 0 .. 2 /\ SentBy(Disk) \in 0 .. 3 BY SentByIs
  <2> QED BY <1>4, <2>1
<1>20. /\ pc[Device] \in 1 .. 6 /\ pc[Disk] \in 1 .. 8
       /\ pc[Disk] \in 5 .. 7 \/ <<Disk, 2>> \in executed \cup ready => "cq" \in created
       /\ pc[Disk] = 7 \/ <<Disk, 3>> \in executed \cup ready => Io \in created
       /\ \A d \in Readers : pc[d] > 0 => Io \in created /\ pc[Disk] = 8
  BY DEF Scripts
<1>21. \A d \in Tasks \ {c} : todo'[d] = todo[d] BY <1>2, <1>7
<1>22. \A d \in Readers : pc'[d] = pc[d] BY <1>1, <1>15, IsPromise
<1>23. Scripts'
  <2>1. CASE c = Device
    <3>1. pc'[Disk] = pc[Disk] /\ todo'[Disk] = todo[Disk] BY <1>1, <1>15, <1>21, <2>1
    <3>2. \/ pc'[Device] = 2 /\ todo'[Device] = << <<Device, 1>> >>
          \/ pc'[Device] = 3 /\ todo'[Device] = << <<Device, 2>>, <<Device, 1>> >>
      <4>1. todo'[Device] = <<p>> \o todo[Device] BY <1>1, <1>2, <1>7, <2>1
      <4>2. \A x, y \in Promises : <<x>> \o <<>> = <<x>> /\ <<x>> \o <<y>> = <<x, y>>
        BY Joined, Zenon
      <4>3. CASE pc[Device] = 1
        <5>1. todo'[Device] = <<p>> BY <1>9, <1>13, <2>1, <4>1, <4>2, <4>3, Zenon
        <5>2. p = <<Device, 1>> /\ pc'[Device] = 2 BY <1>4, <1>15, <2>1, <4>3
        <5> QED BY <5>1, <5>2
      <4>4. CASE pc[Device] = 2
        <5>1. PICK y : y = <<Device, 1>> OBVIOUS
        <5>2. todo[Device] = <<y>> BY <1>13, <2>1, <4>4, <5>1
        <5>5. y \in Promises BY <5>1, IsPromise
        <5>3. todo'[Device] = <<p, y>> BY <1>9, <4>1, <4>2, <5>2, <5>5, Zenon
        <5>4. p = <<Device, 2>> /\ pc'[Device] = 3 BY <1>4, <1>15, <2>1, <4>4
        <5> QED BY <5>1, <5>3, <5>4
      <4> QED BY <1>1, <1>4, <2>1, <4>3, <4>4
    <3>3. todo'[Device] = CASE pc'[Device] \in {1, 6} -> <<>>
                      [] pc'[Device] = 3 -> << <<Device, 2>>, <<Device, 1>> >>
                      [] OTHER -> << <<Device, 1>> >>
      BY <3>2
    <3>4. todo'[Disk] = CASE pc'[Disk] = 2 -> << <<Disk, 1>> >>
                    [] pc'[Disk] = 4 -> << <<Disk, 2>> >>
                    [] pc'[Disk] = 6 -> << <<Disk, 3>> >>
                    [] OTHER -> <<>>
      <4>1. todo[Disk] = CASE pc[Disk] = 2 -> << <<Disk, 1>> >>
                    [] pc[Disk] = 4 -> << <<Disk, 2>> >>
                    [] pc[Disk] = 6 -> << <<Disk, 3>> >>
                    [] OTHER -> <<>>
        BY DEF Scripts
      <4> QED BY <3>1, <4>1, Zenon
    <3>5. /\ pc'[Device] \in 1 .. 6 /\ pc'[Disk] \in 1 .. 8
          /\ pc'[Disk] \in 5 .. 7 \/ <<Disk, 2>> \in executed' \cup ready' => "cq" \in created'
          /\ pc'[Disk] = 7 \/ <<Disk, 3>> \in executed' \cup ready' => Io \in created'
          /\ \A d \in Readers : pc'[d] > 0 => Io \in created' /\ pc'[Disk] = 8
      <4>1. pc'[Device] \in 1 .. 6 BY <3>2
      <4> QED BY <1>5, <1>20, <1>22, <3>1, <4>1, Zenon
    <3> QED BY <3>3, <3>4, <3>5 DEF Scripts
  <2>2. CASE c = Disk
    <3>1. pc'[Device] = pc[Device] /\ todo'[Device] = todo[Device] BY <1>1, <1>15, <1>21, <2>2
    <3>2. todo'[Disk] = <<p>>
      <4>1. todo'[Disk] = Append(todo[Disk], p) BY <1>1, <1>2, <1>7, <2>2
      <4>2. todo[Disk] = <<>> BY <1>13, <2>2
      <4>3. Append(<<>>, p) = <<p>> OBVIOUS
      <4> QED BY <4>1, <4>2, <4>3
    <3>3. \/ pc[Disk] = 1 /\ pc'[Disk] = 2 /\ p = <<Disk, 1>>
          \/ pc[Disk] = 3 /\ pc'[Disk] = 4 /\ p = <<Disk, 2>>
          \/ pc[Disk] = 5 /\ pc'[Disk] = 6 /\ p = <<Disk, 3>>
      BY <1>1, <1>4, <1>15, <2>2
    <3>4. todo'[Disk] = CASE pc'[Disk] = 2 -> << <<Disk, 1>> >>
                    [] pc'[Disk] = 4 -> << <<Disk, 2>> >>
                    [] pc'[Disk] = 6 -> << <<Disk, 3>> >>
                    [] OTHER -> <<>>
      <4> HIDE DEF Scripts
      <4>1. \/ pc'[Disk] = 2 /\ todo'[Disk] = << <<Disk, 1>> >>
            \/ pc'[Disk] = 4 /\ todo'[Disk] = << <<Disk, 2>> >>
            \/ pc'[Disk] = 6 /\ todo'[Disk] = << <<Disk, 3>> >>
        BY <3>2, <3>3
      <4> QED BY <4>1
    <3>5. todo'[Device] = CASE pc'[Device] \in {1, 6} -> <<>>
                      [] pc'[Device] = 3 -> << <<Device, 2>>, <<Device, 1>> >>
                      [] OTHER -> << <<Device, 1>> >>
      <4>1. todo[Device] = CASE pc[Device] \in {1, 6} -> <<>>
                      [] pc[Device] = 3 -> << <<Device, 2>>, <<Device, 1>> >>
                      [] OTHER -> << <<Device, 1>> >>
        BY DEF Scripts
      <4> QED BY <3>1, <4>1, Zenon
    <3>6. /\ pc'[Device] \in 1 .. 6 /\ pc'[Disk] \in 1 .. 8
          /\ pc'[Disk] \in 5 .. 7 \/ <<Disk, 2>> \in executed' \cup ready' => "cq" \in created'
          /\ pc'[Disk] = 7 \/ <<Disk, 3>> \in executed' \cup ready' => Io \in created'
          /\ \A d \in Readers : pc'[d] > 0 => Io \in created' /\ pc'[Disk] = 8
      <4>1. /\ pc'[Disk] \in 1 .. 8 /\ pc'[Disk] # 7 /\ (pc'[Disk] \in 5 .. 7 => pc[Disk] \in 5 .. 7)
            /\ pc[Disk] # 8
        BY <3>3
      <4> QED BY <1>5, <1>20, <1>22, <3>1, <4>1, Zenon
    <3> QED BY <3>4, <3>5, <3>6 DEF Scripts
  <2> QED BY <2>1, <2>2
<1>24. \/ todo' = [todo EXCEPT ![c] = Append(todo[c], p)]
       \/ todo' = [todo EXCEPT ![c] = <<p>> \o todo[c]]
  BY <1>7
<1>25. RunCommand(Admin, OpOf(p), p) BY <1>7, <1>10
<1> QED BY <1>8, <1>9, <1>11, <1>12, <1>14, <1>15, <1>17, <1>18, <1>19, <1>23, <1>24, <1>25

LEMMA CommandKeeps ==
  ASSUME NvmeInv, NEW c \in {Device, Disk}, Command(c)
  PROVE  NvmeInv'
<1>1. Types /\ Apart /\ Turning /\ Starting /\ Handler /\ Scripts /\ Promising
  BY DEF NvmeInv
<1>2. c \in Tasks /\ c \notin Readers /\ Device # Disk BY IsPromise
<1>3. PICK p : p = <<c, SentBy(c) + 1>> OBVIOUS
<1>4. PICK op : op = OpOf(p) OBVIOUS
<1>5. /\ p \in Promises /\ p[1] = c /\ p[2] = SentBy(c) + 1
      /\ RunCommand(Admin, op, p) /\ op \in Ops \ {"none"} /\ QueueOf(p) = Admin
      /\ \/ todo' = [todo EXCEPT ![c] = Append(todo[c], p)]
         \/ todo' = [todo EXCEPT ![c] = <<p>> \o todo[c]]
      /\ p \notin Awaited
      /\ SentBy(c) \in Nat /\ SentBy(c)' = SentBy(c) + 1
      /\ \A d \in {Device, Disk} \ {c} : SentBy(d)' = SentBy(d)
      /\ SentBy(Device) + SentBy(Disk) \in 0 .. 4
      /\ pc' \in [Tasks -> Nat] /\ \A d \in Tasks \ {c} : pc'[d] = pc[d]
      /\ Scripts'
  BY <1>1, <1>3, <1>4, CommandIs, Zenon
<1>6. UNCHANGED <<controller, cqHead, cqi, msi, irq, handling, ready, waiting, run, executed>>
  BY DEF Command
<1>7. /\ head' = head /\ fetched' = fetched /\ created' = created /\ cq' = cq /\ post' = post
      /\ cqi' = cqi /\ step' = step /\ at' = at /\ handlers' = handlers
      /\ ready' = ready /\ executed' = executed
  BY DEF Command, controller, handling
<1>8. Admin \in created /\ Admin \in Queues /\ Io \in Queues /\ Io # Admin
  BY <1>1, TwoQueues DEF Types
<1>9. SentBy(Device) \in 0 .. 2 /\ SentBy(Disk) \in 0 .. 3 BY SentByIs
<1>10. /\ sqi[Admin] \in 0 .. 5 /\ post[Admin] \in 0 .. 5 /\ cqi[Admin] \in 0 .. 5
       /\ Count(Admin) \in Nat /\ Count(Admin) + post[Admin] = sqi[Admin]
       /\ sqi[Admin] <= SentBy(Device) + SentBy(Disk)
       /\ cqi[Admin] <= post[Admin]
       /\ \A i \in 0 .. 5 : Up(i, Turn(Admin)) = i + 1
       /\ Size[Admin] > 5 /\ Size[Admin] \in Nat
  BY <1>1, AdminBounds
<1>11. /\ Len(completions[Admin]) = sqi[Admin]
       /\ \A n \in DOMAIN completions[Admin] :
            /\ completions[Admin][n].id = n - 1 /\ completions[Admin][n].p[1] \in {Device, Disk}
            /\ completions[Admin][n].p[2] <= SentBy(completions[Admin][n].p[1])
  BY <1>1 DEF Starting
<1>12. p \notin ready
  <2>1. p \in ready => p[2] <= SentBy(p[1]) BY <1>1, <1>2, <1>5 DEF Promising
  <2>2. ~(p[2] <= SentBy(p[1])) BY <1>5
  <2> QED BY <2>1, <2>2
<1>13. /\ Awaited' = Awaited \cup {p} /\ todo' \in [Tasks -> Seq(Promises)]
       /\ \A d \in Tasks \ {c} : todo'[d] = todo[d]
  BY <1>1, <1>2, <1>5, AwaitedMore, Zenon
<1>14. Count(Admin) < Size[Admin] - 1 BY <1>5, <1>9, <1>10
<1>15. \A n \in DOMAIN completions[Admin] : Kept(Admin, n) => completions[Admin][n].p # p
  <2> SUFFICES ASSUME NEW n \in DOMAIN completions[Admin], completions[Admin][n].p = p PROVE FALSE
    OBVIOUS
  <2>1. p[2] <= SentBy(p[1]) BY <1>11
  <2> QED BY <1>5, <2>1
<1>16. /\ \A r \in Queues : Sending(r)' /\ Outstanding(r)' /\ Phases(r)' /\ Numbers(r)' /\ Owed(r)'
       /\ Apart' /\ Turning'
       /\ Count(Admin)' = Count(Admin) + 1 /\ sqi'[Admin] = Up(sqi[Admin], Turn(Admin))
  <2>1. UNCHANGED <<head, fetched, cq, cqi, post, step, at, executed, ready>> BY <1>7
  <2>2. Admin = Io => Cardinality(OfReaders) < Size[Io] - 1 BY <1>8
  <2>3. OpOf(p) = op BY <1>4
  <2> QED BY <1>5, <1>8, <1>12, <1>13, <1>14, <1>15, <2>1, <2>2, <2>3, SentKeeps, Zenon
<1>17. Types' BY <1>1, <1>5, <1>6, <1>8, <1>13, TypesOfSent, Zenon
<1>18. Handler'
  <2>1. UNCHANGED <<handlers, step, at, cqi, post, cq>> BY <1>7
  <2> QED BY <1>1, <1>5, <1>8, <2>1, HandlerSent, Zenon
<1>19. /\ SentBy(Device)' \in Nat /\ SentBy(Disk)' \in Nat
       /\ SentBy(Device)' + SentBy(Disk)' = SentBy(Device) + SentBy(Disk) + 1
       /\ \A d \in {Device, Disk} : \A k \in Nat : k <= SentBy(d) => k <= SentBy(d)'
  <2>1. CASE c = Device
    <3>1. SentBy(Device)' = SentBy(Device) + 1 /\ SentBy(Disk)' = SentBy(Disk) BY <1>2, <1>5, <2>1
    <3>2. \A k \in Nat : k <= SentBy(Device) => k <= SentBy(Device)' BY <1>9, <3>1
    <3>3. \A k \in Nat : k <= SentBy(Disk) => k <= SentBy(Disk)' BY <3>1
    <3>4. SentBy(Device)' + SentBy(Disk)' = SentBy(Device) + SentBy(Disk) + 1 BY <1>9, <3>1
    <3> QED BY <1>9, <3>1, <3>2, <3>3, <3>4
  <2>2. CASE c = Disk
    <3>1. SentBy(Disk)' = SentBy(Disk) + 1 /\ SentBy(Device)' = SentBy(Device) BY <1>2, <1>5, <2>2
    <3>2. \A k \in Nat : k <= SentBy(Disk) => k <= SentBy(Disk)' BY <1>9, <3>1
    <3>3. \A k \in Nat : k <= SentBy(Device) => k <= SentBy(Device)' BY <3>1
    <3>4. SentBy(Device)' + SentBy(Disk)' = SentBy(Device) + SentBy(Disk) + 1 BY <1>9, <3>1
    <3> QED BY <1>9, <3>1, <3>2, <3>3, <3>4
  <2> QED BY <2>1, <2>2
<1>20. Starting'
  <2>1. PICK k : k = Len(completions[Admin]) OBVIOUS
  <2>2. PICK s : s = sqi[Admin] OBVIOUS
  <2>3. /\ Len(completions'[Admin]) = k + 1
        /\ DOMAIN completions'[Admin] = DOMAIN completions[Admin] \cup {k + 1}
        /\ \A n \in DOMAIN completions[Admin] : completions'[Admin][n] = completions[Admin][n]
        /\ completions'[Admin][k + 1] = Entry(s, p)
    BY <1>1, <1>5, <1>8, <2>1, <2>2, EntrySent, Zenon
  <2>4. sqi'[Admin] = s + 1 /\ k = s /\ s \in 0 .. 5 BY <1>10, <1>11, <1>16, <2>1, <2>2
  <2>5. Len(completions'[Admin]) = sqi'[Admin] BY <2>3, <2>4
  <2>6. sqi'[Admin] <= SentBy(Device)' + SentBy(Disk)' BY <1>9, <1>10, <1>19, <2>2, <2>4
  <2>7. Len(completions'[Admin]) = Count(Admin)' + post'[Admin]
    BY <1>7, <1>10, <1>16, <2>2, <2>3, <2>4, SMTT(30)
  <2>8. cqi'[Admin] <= post'[Admin] BY <1>7, <1>10
  <2>9. ASSUME NEW n \in DOMAIN completions'[Admin]
        PROVE  /\ completions'[Admin][n].id = n - 1 /\ completions'[Admin][n].p[1] \in {Device, Disk}
               /\ \A x : x = completions'[Admin][n].p => x[2] <= SentBy(x[1])'
    <3>1. CASE n \in DOMAIN completions[Admin]
      <4>1. PICK x : x = completions[Admin][n].p OBVIOUS
      <4>2. completions'[Admin][n].p = x /\ completions'[Admin][n].id = n - 1
        BY <1>11, <2>3, <3>1, <4>1
      <4>3. x \in Promises BY <1>1, <1>8, <3>1, <4>1, EntryTyped
      <4>4. x[1] \in {Device, Disk} /\ x[2] <= SentBy(x[1]) BY <1>11, <3>1, <4>1
      <4>5. x[1] \notin Readers BY <4>4, IsPromise
      <4>6. x[2] \in Nat BY <4>3, <4>5, PromiseParts
      <4>7. x[2] <= SentBy(x[1])' BY <1>19, <4>4, <4>6
      <4> QED BY <4>2, <4>4, <4>7
    <3>2. CASE n = k + 1
      <4>1. completions'[Admin][n].id = s /\ completions'[Admin][n].p = p BY <2>3, <3>2, Fields
      <4>2. n - 1 = s BY <2>4, <3>2
      <4>3. p[2] <= SentBy(c)' /\ p[1] = c BY <1>5
      <4> QED BY <4>1, <4>2, <4>3
    <3> QED BY <2>3, <3>1, <3>2
  <2>10. \A n \in DOMAIN completions'[Admin] :
            /\ completions'[Admin][n].id = n - 1 /\ completions'[Admin][n].p[1] \in {Device, Disk}
            /\ (completions[Admin][n].p[2] <= SentBy(completions[Admin][n].p[1]))'
    <3> SUFFICES ASSUME NEW n \in DOMAIN completions'[Admin]
                 PROVE  (completions[Admin][n].p[2] <= SentBy(completions[Admin][n].p[1]))'
      BY <2>9
    <3>1. PICK x : x = completions'[Admin][n].p OBVIOUS
    <3>2. x[2] <= SentBy(x[1])' BY <2>9, <3>1
    <3> QED BY <3>1, <3>2
  <2> QED BY <2>5, <2>6, <2>7, <2>8, <2>10 DEF Starting
<1>21. Promising'
  <2>1. ASSUME NEW d \in Readers
        PROVE pc'[d] \in 0 .. 2 /\ \E m \in 0 .. Blocks[d] : Reads(d, m)'
    <3>1. d \in Tasks /\ d # c BY <1>2, IsPromise
    <3>2. pc'[d] = pc[d] /\ todo'[d] = todo[d] BY <1>5, <1>13, <3>1
    <3>3. \A m : Reads(d, m)' <=> Reads(d, m) BY <3>2 DEF Reads
    <3> QED BY <1>1, <3>2, <3>3 DEF Promising
  <2>2. ASSUME NEW x \in ready'
        PROVE  IF x[1] \in Readers THEN x \in Awaited' ELSE x[2] <= SentBy(x[1])'
    <3>1. x \in ready /\ x \in Promises BY <1>1, <1>7 DEF Types
    <3>2. IF x[1] \in Readers THEN x \in Awaited ELSE x[2] <= SentBy(x[1]) BY <1>1, <3>1 DEF Promising
    <3>3. CASE x[1] \in Readers BY <1>13, <3>2, <3>3
    <3>4. CASE x[1] \notin Readers
      <4>1. x[1] \in {Device, Disk} /\ x[2] \in Nat BY <3>1, <3>4, PromiseParts
      <4> QED BY <1>19, <3>2, <3>4, <4>1
    <3> QED BY <3>3, <3>4
  <2>3. executed' \subseteq Awaited' /\ ready' \cap Awaited' \subseteq executed'
    BY <1>1, <1>7, <1>12, <1>13 DEF Promising
  <2>4. Cardinality(OfReaders') < Size[Io]
    <3>1. OfReaders' = OfReaders
      <4>1. OfReaders = {x \in Awaited : x[1] \in Readers} BY DEF OfReaders, Awaited
      <4>2. OfReaders' = {x \in Awaited' : x[1] \in Readers} BY DEF OfReaders, Awaited
      <4> QED BY <1>2, <1>5, <1>13, <4>1, <4>2
    <3> QED BY <1>1, <3>1 DEF Promising
  <2> QED BY <2>1, <2>2, <2>3, <2>4 DEF Promising
<1>22. Scripts' BY <1>5
<1> QED BY <1>16, <1>17, <1>18, <1>20, <1>21, <1>22 DEF NvmeInv

-----------------------------------------------------------------------------
(* The inductive invariant.                                                *)

LEMMA InitInv ==
  ASSUME Init
  PROVE  NvmeInv
<1>1. /\ sq = [q \in Queues |-> [i \in 0 .. Size[q] - 1 |-> NoCommand]]
      /\ sqi = [q \in Queues |-> 0] /\ tail = sqi /\ head = sqi
      /\ fetched = {} /\ created = {Admin}
      /\ cq = [q \in Queues |-> [i \in 0 .. Size[q] - 1 |-> [id |-> 0, phase |-> 0]]]
      /\ post = sqi /\ cqHead = sqi /\ cqi = sqi
      /\ msi \in BOOLEAN /\ irq = {}
      /\ handlers = <<>> /\ step = "look" /\ at = 1
      /\ completions = [q \in Queues |-> <<>>] /\ ready = {}
      /\ todo = [c \in Tasks |-> <<>>] /\ waiting = {}
      /\ pc = [c \in Tasks |-> IF c \in Readers THEN 0 ELSE 1]
      /\ run = <<Device>> /\ executed = {}
  BY DEF Init
<1>2. /\ Device \in Tasks /\ Disk \in Tasks /\ Device # Disk /\ Device \notin Readers
      /\ Disk \notin Readers /\ Readers \subseteq Tasks /\ <<Device, 1>> \in Promises
  BY IsPromise
<1>3. \A q \in Queues : /\ Size[q] \in Nat /\ Size[q] > 0 /\ Turn(q) = 2 * Size[q]
                        /\ Overtaken[q] \in Nat
  BY Sizes
<1>4. Admin \in Queues /\ Io \in Queues BY TwoQueues
<1>5. NoCommand.op = "none" /\ NoCommand.p = <<Device, 1>> /\ NoCommand.id = 0
      /\ \A q \in Queues : NoCommand \in Records(q)
  <2>1. NoCommand.op = "none" /\ NoCommand.p = <<Device, 1>> /\ NoCommand.id = 0 BY DEF NoCommand
  <2>2. ASSUME NEW q \in Queues PROVE NoCommand \in Records(q)
    <3>1. 0 \in 0 .. Turn(q) - 1 BY <1>3
    <3>2. "none" \in Ops BY DEF Ops
    <3> QED BY <1>2, <3>1, <3>2 DEF NoCommand, Records
  <2> QED BY <2>1, <2>2
<1>6. ASSUME NEW q \in Queues
      PROVE /\ sqi[q] = 0 /\ tail[q] = 0 /\ head[q] = 0 /\ post[q] = 0 /\ cqHead[q] = 0 /\ cqi[q] = 0
            /\ completions[q] = <<>> /\ DOMAIN completions[q] = {} /\ Len(completions[q]) = 0
            /\ sq[q] = [i \in 0 .. Size[q] - 1 |-> NoCommand]
            /\ cq[q] = [i \in 0 .. Size[q] - 1 |-> [id |-> 0, phase |-> 0]]
  BY <1>1
<1>7. Types
  <2>1. /\ DOMAIN sq = Queues /\ DOMAIN cq = Queues /\ DOMAIN completions = Queues
        /\ DOMAIN sqi = Queues /\ DOMAIN tail = Queues /\ DOMAIN head = Queues
        /\ DOMAIN post = Queues /\ DOMAIN cqHead = Queues /\ DOMAIN cqi = Queues
    BY <1>1
  <2>2. ASSUME NEW q \in Queues
        PROVE /\ {sqi[q], post[q], cqi[q]} \subseteq 0 .. Turn(q) - 1
              /\ {tail[q], head[q], cqHead[q]} \subseteq 0 .. Size[q] - 1
              /\ sq[q] \in [0 .. Size[q] - 1 -> Records(q)]
              /\ cq[q] \in [0 .. Size[q] - 1 -> [id : 0 .. Turn(q) - 1, phase : {0, 1}]]
              /\ completions[q] \in Seq([id : 0 .. Turn(q) - 1, p : Promises])
    <3>1. 0 \in 0 .. Turn(q) - 1 /\ 0 \in 0 .. Size[q] - 1 BY <1>3
    <3>2. sq[q] \in [0 .. Size[q] - 1 -> Records(q)]
      <4>1. NoCommand \in Records(q) /\ sq[q] = [i \in 0 .. Size[q] - 1 |-> NoCommand] BY <1>5, <1>6
      <4> QED BY <4>1
    <3>3. cq[q] \in [0 .. Size[q] - 1 -> [id : 0 .. Turn(q) - 1, phase : {0, 1}]]
      <4>1. cq[q] = [i \in 0 .. Size[q] - 1 |-> [id |-> 0, phase |-> 0]] BY <1>6
      <4>2. [id |-> 0, phase |-> 0] \in [id : 0 .. Turn(q) - 1, phase : {0, 1}] BY <3>1
      <4> QED BY <4>1, <4>2
    <3>4. completions[q] \in Seq([id : 0 .. Turn(q) - 1, p : Promises])
      <4>1. completions[q] = <<>> BY <1>6
      <4> QED BY <4>1
    <3> QED BY <1>6, <3>1, <3>2, <3>3, <3>4
  <2>3. IsFiniteSet(fetched) BY <1>1, FS_EmptySet
  <2>4. /\ created \subseteq {Admin, "cq", Io} /\ Admin \in created
        /\ \A f \in fetched : /\ f.q \in Queues /\ f.cmd \in Records(f.q)
                              /\ f = [q |-> f.q, cmd |-> f.cmd]
        /\ msi \in BOOLEAN /\ irq \subseteq Queues
        /\ step \in {"look", "remove"} /\ at \in Nat \ {0}
        /\ ready \subseteq Promises /\ executed \subseteq Promises /\ waiting \subseteq Tasks
    BY <1>1
  <2>5. todo \in [Tasks -> Seq(Promises)] /\ pc \in [Tasks -> Nat] /\ run \in Seq(Tasks)
    BY <1>1, <1>2
  <2> QED BY <2>1, <2>2, <2>3, <2>4, <2>5 DEF Types
<1>8. ASSUME NEW q \in Queues
      PROVE  /\ Full(q) = {} /\ Fetched(q) = {} /\ Held(q) = {} /\ Count(q) = 0 /\ Window(q) = {}
             /\ Posts(q) = {} /\ Dist(cqi[q], post[q], Turn(q)) = 0
  <2>1. Dist(0, 0, Turn(q)) = 0 /\ Dist(0, 0, Size[q]) = 0 BY <1>3 DEF Dist
  <2>2. Full(q) = {}
    <3>1. sq[q] = [i \in 0 .. Size[q] - 1 |-> NoCommand] BY <1>6
    <3>2. \A i \in 0 .. Size[q] - 1 : sq[q][i].op = "none" BY <1>5, <3>1
    <3> QED BY <3>2 DEF Full
  <2>3. Fetched(q) = {} BY <1>1 DEF Fetched
  <2>4. Held(q) = {} BY <2>2, <2>3 DEF Held
  <2>5. Count(q) = 0
    <3>1. Cardinality(Fetched(q)) = 0 BY <2>3, FS_EmptySet
    <3>2. head[q] = 0 /\ tail[q] = 0 BY <1>6
    <3> QED BY <2>1, <3>1, <3>2 DEF Count
  <2>6. Window(q) = {}
    <3>1. \A i \in 0 .. Turn(q) - 1 : ~(Dist(0, i, Turn(q)) < 0) BY <1>3 DEF Dist
    <3> QED BY <1>6, <2>1, <3>1 DEF Window
  <2>7. Posts(q) = {}
    <3>1. post[q] = 0 BY <1>6
    <3>2. 0 .. 0 - 1 = {} OBVIOUS
    <3> QED BY <2>6, <3>1, <3>2 DEF Posts
  <2> QED BY <1>6, <2>1, <2>2, <2>3, <2>4, <2>5, <2>6, <2>7
<1>9. ASSUME NEW q \in Queues
      PROVE  Sending(q) /\ Outstanding(q) /\ Phases(q) /\ Numbers(q) /\ Owed(q)
  <2>1. Sending(q)
    <3>1. tail[q] = Slot(q, sqi[q]) BY <1>3, <1>6 DEF Slot
    <3>2. \A i \in 0 .. Size[q] - 1 : ~(Dist(0, i, Size[q]) < Dist(0, 0, Size[q]))
      BY <1>3 DEF Dist
    <3> QED BY <1>5, <1>6, <3>1, <3>2, ZenonT(60) DEF Sending
  <2>2. Outstanding(q) BY <1>8 DEF Outstanding
  <2>3. Phases(q)
    <3>1. ASSUME NEW i \in 0 .. Turn(q) - 1, Dist(cqi[q], i, Turn(q)) < Size[q]
          PROVE  cq[q][Slot(q, i)].phase = PhaseAt(i, q) <=> i \in Window(q)
      <4>1. i < Size[q] /\ Slot(q, i) = i /\ PhaseAt(i, q) = 1 /\ i \in 0 .. Size[q] - 1
        <5>1. cqi[q] = 0 /\ Size[q] \in Nat /\ Size[q] > 0 /\ Turn(q) = 2 * Size[q] BY <1>3, <1>6
        <5>2. Dist(cqi[q], i, Turn(q)) = i BY <5>1 DEF Dist
        <5> QED BY <3>1, <5>1, <5>2 DEF Slot, PhaseAt
      <4>2. cq[q][i].phase = 0
        <5>1. cq[q] = [j \in 0 .. Size[q] - 1 |-> [id |-> 0, phase |-> 0]] BY <1>6
        <5> QED BY <4>1, <5>1
      <4> QED BY <1>8, <4>1, <4>2
    <3>2. Dist(cqi[q], post[q], Turn(q)) <= Size[q] BY <1>3, <1>8
    <3> QED BY <3>1, <3>2 DEF Phases
  <2>4. Numbers(q) BY <1>6, <1>8 DEF Numbers
  <2>5. Owed(q) BY <1>6, <1>8 DEF Owed
  <2> QED BY <2>1, <2>2, <2>3, <2>4, <2>5
<1>10. Apart BY <1>1, <1>8 DEF Apart
<1>11. Turning
  <2>1. /\ Len(completions[Io]) = 0 /\ DOMAIN completions[Io] = {} /\ Held(Io) = {} /\ Count(Io) = 0
        /\ Window(Io) = {} /\ Dist(cqi[Io], post[Io], Turn(Io)) = 0
    BY <1>4, <1>6, <1>8
  <2> QED BY <2>1 DEF Turning
<1>12. pc[Device] = 1 /\ pc[Disk] = 1 /\ \A c \in Readers : pc[c] = 0 BY <1>1, <1>2
<1>13. Starting
  <2>1. SentBy(Device) = 0 /\ SentBy(Disk) = 0 BY <1>12, SentByIs
  <2>2. /\ Len(completions[Admin]) = 0 /\ sqi[Admin] = 0 /\ DOMAIN completions[Admin] = {}
        /\ Count(Admin) = 0 /\ post[Admin] = 0 /\ cqi[Admin] = 0
    BY <1>4, <1>6, <1>8
  <2> QED BY <2>1, <2>2 DEF Starting
<1>14. Handler BY <1>1 DEF Handler
<1>15. Scripts
  <2>1. todo[Device] = <<>> /\ todo[Disk] = <<>> BY <1>1, <1>2
  <2>2. todo[Device] = CASE pc[Device] \in {1, 6} -> <<>>
                      [] pc[Device] = 3 -> << <<Device, 2>>, <<Device, 1>> >>
                      [] OTHER -> << <<Device, 1>> >>
    BY <1>12, <2>1
  <2>3. todo[Disk] = CASE pc[Disk] = 2 -> << <<Disk, 1>> >>
                    [] pc[Disk] = 4 -> << <<Disk, 2>> >>
                    [] pc[Disk] = 6 -> << <<Disk, 3>> >>
                    [] OTHER -> <<>>
    BY <1>12, <2>1
  <2>4. /\ pc[Device] \in 1 .. 6 /\ pc[Disk] \in 1 .. 8 /\ pc[Disk] \notin 5 .. 7 /\ pc[Disk] # 7
        /\ executed \cup ready = {} /\ \A c \in Readers : ~(pc[c] > 0)
    BY <1>1, <1>12
  <2> QED BY <2>2, <2>3, <2>4 DEF Scripts
<1>16. Promising
  <2>1. ASSUME NEW c \in Readers PROVE pc[c] \in 0 .. 2 /\ \E m \in 0 .. Blocks[c] : Reads(c, m)
    <3>1. Blocks[c] \in Nat BY RoomAssumption
    <3>2. todo[c] = <<>> BY <1>1, <1>2
    <3>3. Reads(c, 0) BY <3>1, <3>2 DEF Reads
    <3> QED BY <1>12, <3>1, <3>3
  <2>2. \A p \in Promises : ~ToAwait(p)
    <3> SUFFICES ASSUME NEW p \in Promises PROVE ~ToAwait(p) OBVIOUS
    <3>1. p[1] \in Tasks BY PromiseParts
    <3> QED BY <1>1, <3>1 DEF ToAwait
  <2>3. OfReaders = {} BY <2>2 DEF OfReaders
  <2>4. Cardinality(OfReaders) < Size[Io] BY <1>3, <1>4, <2>3, FS_EmptySet
  <2> QED BY <1>1, <2>1, <2>4 DEF Promising
<1> QED BY <1>7, <1>9, <1>10, <1>11, <1>13, <1>14, <1>15, <1>16 DEF NvmeInv

LEMMA NextInv ==
  ASSUME NvmeInv, [Next]_vars
  PROVE  NvmeInv'
<1>1. CASE UNCHANGED vars
  <2>1. Quiet /\ UNCHANGED <<created, cqHead, msi, handlers, todo, ready, waiting, executed>>
    BY <1>1 DEF vars, Quiet, queues, controller, handling, tasks
  <2>2. pc' = pc /\ run' = run /\ irq' = irq BY <1>1 DEF vars, tasks
  <2>3. Types /\ Scripts BY DEF NvmeInv
  <2>4. irq' \subseteq Queues /\ run' \in Seq(Tasks) /\ pc' \in [Tasks -> Nat]
    BY <2>2, <2>3, RunTypes
  <2>5. \A c \in Readers : pc[c] > 0 => pc[Disk] = 8 BY <2>3 DEF Scripts
  <2> QED BY <2>1, <2>2, <2>4, <2>5, Moved
<1>2. CASE \E c \in {Device, Disk} : Command(c) \/ AwaitCommand(c) \/ End(c)
  BY <1>2, CommandKeeps, AwaitCommandKeeps, EndKeeps
<1>3. CASE NewDisk BY <1>3, NewDiskKeeps
<1>4. CASE \E c \in Readers : Register(c) \/ Issue(c) \/ Await(c) \/ Stop(c)
  BY <1>4, RegisterKeeps, IssueKeeps, AwaitKeeps, StopKeeps
<1>5. CASE \E q \in Queues : Done(q) \/ Match(q) \/ NoMatch(q)
  BY <1>5, DoneKeeps, MatchKeeps, NoMatchKeeps
<1>6. CASE Remove BY <1>6, RemoveKeeps
<1>7. CASE \E c \in Readers : Begin(c) BY <1>7, BeginKeeps
<1>8. CASE \E v \in Queues : Interrupt(v) BY <1>8, InterruptKeeps
<1>9. CASE \E q \in Queues : Fetch(q) BY <1>9, FetchKeeps
<1>10. CASE \E f \in fetched : Execute(f) BY <1>10, ExecuteKeeps
<1> QED
  BY <1>1, <1>2, <1>3, <1>4, <1>5, <1>6, <1>7, <1>8, <1>9, <1>10, Zenon DEF Next, Driver

\* The two ends of every queue agree in every reachable state: slots, phases,
\* identifiers, entries and promises are as NvmeInv says.
THEOREM NvmeInvariant == Spec => []NvmeInv
<1>1. Init => NvmeInv BY InitInv
<1>2. NvmeInv /\ [Next]_vars => NvmeInv' BY NextInv
<1> QED BY <1>1, <1>2, PTL DEF Spec

\* Whatever the driver and the controller do, in whatever order the commands
\* are executed and the interrupts come, the indices stay in their rings, and
\* the promises named in the queues, in completions and by the tasks are ones
\* that the tasks send commands with.
THEOREM NvmeTypeOK == Spec => []TypeOK
<1>1. NvmeInv => TypeOK
  <2> SUFFICES ASSUME NvmeInv PROVE TypeOK OBVIOUS
  <2>1. Types BY DEF NvmeInv
  <2>2. ASSUME NEW q \in Queues
        PROVE  /\ {sqi[q], post[q], cqi[q]} \subseteq 0 .. 2 * Size[q] - 1
               /\ {tail[q], head[q], cqHead[q]} \subseteq 0 .. Size[q] - 1
               /\ \A i \in 0 .. Size[q] - 1 : /\ sq[q][i].p \in Promises
                                              /\ cq[q][i].phase \in {0, 1}
               /\ \A n \in DOMAIN completions[q] : completions[q][n].p \in Promises
    <3>1. /\ {sqi[q], post[q], cqi[q]} \subseteq 0 .. Turn(q) - 1
          /\ {tail[q], head[q], cqHead[q]} \subseteq 0 .. Size[q] - 1
          /\ sq[q] \in [0 .. Size[q] - 1 -> Records(q)]
          /\ cq[q] \in [0 .. Size[q] - 1 -> [id : 0 .. Turn(q) - 1, phase : {0, 1}]]
      BY <2>1 DEF Types
    <3>2. ASSUME NEW i \in 0 .. Size[q] - 1
          PROVE  sq[q][i].p \in Promises /\ cq[q][i].phase \in {0, 1}
      <4>1. sq[q][i] \in Records(q) BY <3>1
      <4>2. sq[q][i].p \in Promises BY <4>1 DEF Records
      <4> QED BY <3>1, <4>2
    <3>3. \A n \in DOMAIN completions[q] : completions[q][n].p \in Promises BY <2>1, EntryTyped
    <3>4. Turn(q) = 2 * Size[q] BY Sizes
    <3> QED BY <3>1, <3>2, <3>3, <3>4
  <2>3. \A f \in fetched : f.q \in Queues /\ f.cmd.p \in Promises
    <3> SUFFICES ASSUME NEW f \in fetched PROVE f.q \in Queues /\ f.cmd.p \in Promises OBVIOUS
    <3>1. f.q \in Queues /\ f.cmd \in Records(f.q) BY <2>1 DEF Types
    <3> QED BY <3>1 DEF Records
  <2>4. /\ created \subseteq {Admin, "cq", Io} /\ msi \in BOOLEAN /\ irq \subseteq Queues
        /\ step \in {"look", "remove"} /\ at \in Nat
        /\ ready \subseteq Promises /\ executed \subseteq Promises /\ waiting \subseteq Tasks
        /\ todo \in [Tasks -> Seq(Promises)] /\ run \in Seq(Tasks)
    BY <2>1 DEF Types
  <2>5. \A c \in Tasks : \A i \in DOMAIN todo[c] : todo[c][i] \in Promises
    <3> SUFFICES ASSUME NEW c \in Tasks PROVE \A i \in DOMAIN todo[c] : todo[c][i] \in Promises
      OBVIOUS
    <3>1. todo[c] \in Seq(Promises) BY <2>4
    <3> QED BY <3>1
  <2>6. \A i \in DOMAIN run : run[i] \in Tasks BY <2>4
  <2> QED BY <2>2, <2>3, <2>4, <2>5, <2>6 DEF TypeOK
<1> QED BY <1>1, NvmeInvariant, PTL

\* However far the identifiers turn over and the entries of completions change
\* their places, a completion of a command outstanding finds the entry of that
\* command and no other (nvme.cpp:383, :430 and :490).
THEOREM NvmeOneEntryEach == Spec => []OneEntryEach
<1>1. NvmeInv => OneEntryEach
  <2> SUFFICES ASSUME NvmeInv, NEW q \in Queues, NEW cmd \in Live(q)
               PROVE  \E n \in DOMAIN completions[q] :
                        /\ completions[q][n] = [id |-> cmd.id, p |-> cmd.p]
                        /\ \A m \in DOMAIN completions[q] : completions[q][m].id = cmd.id => m = n
                        /\ cmd.p \notin ready
    BY DEF OneEntryEach
  <2>1. Types /\ Sending(q) /\ Outstanding(q) /\ Numbers(q) BY DEF NvmeInv
  <2>2. cmd \in Held(q) BY <2>1, LiveIsHeld
  <2>3. PICK n \in DOMAIN completions[q] : completions[q][n].id = cmd.id /\ completions[q][n].p = cmd.p
    BY <2>1, <2>2 DEF Numbers
  <2>4. completions[q][n] \in [id : 0 .. Turn(q) - 1, p : Promises]
    <3>1. PICK s : s = completions[q] OBVIOUS
    <3>2. PICK S : S = [id : 0 .. Turn(q) - 1, p : Promises] OBVIOUS
    <3>3. s \in Seq(S) BY <2>1, <3>1, <3>2, EntryTyped
    <3>4. \A m \in DOMAIN s : s[m] \in S BY <3>3
    <3> QED BY <3>1, <3>2, <3>4
  <2>5. completions[q][n] = [id |-> cmd.id, p |-> cmd.p] BY <2>3, <2>4
  <2>6. \A m \in DOMAIN completions[q] : completions[q][m].id = cmd.id => m = n
    BY <2>1, <2>3 DEF Numbers
  <2>7. cmd.p \notin ready BY <2>1, <2>2 DEF Outstanding
  <2> QED BY <2>5, <2>6, <2>7
<1> QED BY <1>1, NvmeInvariant, PTL

-----------------------------------------------------------------------------
(* The refinement.                                                         *)

\* What a step does to the commands sent and executed.
LEMMA PromisedIs ==
  /\ Promised!Init <=> Awaited \ executed = {} /\ executed = {}
  /\ \A p : Promised!Send(p) <=> /\ p \notin (Awaited \ executed) \cup executed
                                 /\ (Awaited \ executed)' = (Awaited \ executed) \cup {p}
                                 /\ UNCHANGED executed
  /\ \A p : Promised!Execute(p) <=> /\ p \in Awaited \ executed
                                    /\ (Awaited \ executed)' = (Awaited \ executed) \ {p}
                                    /\ executed' = executed \cup {p}
  /\ \A p : Promised!GoOn(p) <=> /\ p \in executed /\ executed' = executed \ {p}
                                 /\ UNCHANGED (Awaited \ executed)
  /\ UNCHANGED Promised!vars <=> UNCHANGED (Awaited \ executed) /\ UNCHANGED executed
BY DEF Promised!Init, Promised!Send, Promised!Execute, Promised!GoOn, Promised!vars, Awaited

\* A task that goes on awaits a command that was executed.
LEMMA GoesOnPromised ==
  ASSUME NvmeInv, NEW c \in Tasks, todo[c] # <<>>, AwaitFirst(c)
  PROVE  \/ \E p \in Promises : Promised!GoOn(p)
         \/ UNCHANGED <<todo, executed>>
<1>1. Types /\ Scripts /\ Promising BY DEF NvmeInv
<1>2. CASE Head(todo[c]) \in ready
  <2>1. PICK p : p = Head(todo[c]) OBVIOUS
  <2>2. todo' = [todo EXCEPT ![c] = Tail(todo[c])] /\ executed' = executed \ {p} /\ p \in ready
    BY <1>2, <2>1 DEF AwaitFirst
  <2>3. Awaited' = Awaited \ {p} /\ p \in Awaited /\ p \in Promises
    BY <1>1, <2>1, <2>2, AwaitedLess, Zenon
  <2>4. p \in executed BY <1>1, <2>2, <2>3 DEF Promising
  <2>5. (Awaited \ executed)' = Awaited \ executed BY <2>2, <2>3, <2>4
  <2> QED BY <2>2, <2>3, <2>4, <2>5, PromisedIs
<1>3. CASE Head(todo[c]) \notin ready BY <1>3 DEF AwaitFirst
<1> QED BY <1>2, <1>3

LEMMA StepPromised ==
  ASSUME NvmeInv, [Next]_vars
  PROVE  [Promised!Next]_(Promised!vars)
<1>1. Types /\ Scripts /\ Promising BY DEF NvmeInv
<1>2. UNCHANGED <<todo, executed>> => UNCHANGED Promised!vars
  <2>1. UNCHANGED <<todo, executed>> => Awaited' = Awaited BY DEF Awaited, ToAwait
  <2> QED BY <2>1, PromisedIs
<1>3. ASSUME NEW p \in Promises, p \notin Awaited, Awaited' = Awaited \cup {p}, UNCHANGED executed
      PROVE  Promised!Send(p)
  <2>1. executed \subseteq Awaited BY <1>1 DEF Promising
  <2>2. (Awaited \ executed)' = (Awaited \ executed) \cup {p} BY <1>3, <2>1
  <2> QED BY <1>3, <2>1, <2>2, PromisedIs
<1>4. ASSUME NEW c \in {Device, Disk}, Command(c) PROVE \E p \in Promises : Promised!Send(p)
  <2>1. PICK p : p = <<c, SentBy(c) + 1>> OBVIOUS
  <2>2. /\ p \in Promises /\ p[1] = c /\ p \notin Awaited
        /\ \/ todo' = [todo EXCEPT ![c] = Append(todo[c], p)]
           \/ todo' = [todo EXCEPT ![c] = <<p>> \o todo[c]]
    BY <1>1, <1>4, <2>1, CommandIs, Zenon
  <2>3. c \in Tasks BY IsPromise
  <2>4. Awaited' = Awaited \cup {p} BY <1>1, <2>2, <2>3, AwaitedMore, Zenon
  <2>5. UNCHANGED executed BY <1>4 DEF Command
  <2> QED BY <1>3, <2>2, <2>4, <2>5
<1>5. ASSUME NEW c \in Readers, Issue(c) PROVE \E p \in Promises : Promised!Send(p)
  <2>1. PICK p : p = <<c, Len(todo[c]) + 1>> OBVIOUS
  <2>2. p \in Promises /\ p \notin Awaited /\ Awaited' = Awaited \cup {p}
    BY <1>1, <1>5, <2>1, IssueIs, Zenon
  <2>3. UNCHANGED executed BY <1>5 DEF Issue
  <2> QED BY <1>3, <2>2, <2>3
<1>6. ASSUME NEW f \in fetched, Execute(f) PROVE \E p \in Promises : Promised!Execute(p)
  <2>1. PICK p : p = f.cmd.p OBVIOUS
  <2>2. f.q \in Queues /\ f.cmd \in Held(f.q) /\ p \in Promises BY <1>6, <2>1, ExecuteTypes
  <2>3. p \in Awaited /\ p \notin executed BY <2>1, <2>2 DEF NvmeInv, Outstanding
  <2>4. executed' = executed \cup {p} /\ UNCHANGED todo BY <1>6, <2>1 DEF Execute, tasks
  <2>5. Awaited' = Awaited BY <2>4 DEF Awaited, ToAwait
  <2>6. (Awaited \ executed)' = (Awaited \ executed) \ {p} BY <2>4, <2>5
  <2> QED BY <2>2, <2>3, <2>4, <2>6, PromisedIs
<1>7. ASSUME NEW c \in {Device, Disk}, AwaitCommand(c)
      PROVE (\E p \in Promises : Promised!GoOn(p)) \/ UNCHANGED <<todo, executed>>
  <2>1. c \in Tasks BY IsPromise
  <2>2. AwaitFirst(c) /\ Op(c) = "await" BY <1>7 DEF AwaitCommand
  <2>3. CASE todo[c] # <<>> BY <2>1, <2>2, <2>3, GoesOnPromised
  <2>4. CASE todo[c] = <<>>
    <3>1. pc[Device] \in {3, 5} => todo[Device] # <<>>
      <4>1. pc[Device] = 3 => todo[Device] = << <<Device, 2>>, <<Device, 1>> >> BY <1>1 DEF Scripts
      <4>2. pc[Device] = 5 => todo[Device] = << <<Device, 1>> >> BY <1>1 DEF Scripts
      <4>3. \A x, y : <<x>> # <<>> /\ <<x, y>> # <<>> OBVIOUS
      <4> QED BY <4>1, <4>2, <4>3
    <3>2. pc[Disk] \in {2, 4, 6} => todo[Disk] # <<>>
      <4>1. pc[Disk] \in {2, 4, 6} => \E x : todo[Disk] = <<x>> BY <1>1 DEF Scripts
      <4>2. \A x : <<x>> # <<>> OBVIOUS
      <4> QED BY <4>1, <4>2
    <3> QED BY <1>1, <2>2, <2>4, <3>1, <3>2, OpIs
  <2> QED BY <2>3, <2>4
<1>8. ASSUME NEW c \in Readers, Await(c)
      PROVE (\E p \in Promises : Promised!GoOn(p)) \/ UNCHANGED <<todo, executed>>
  <2>1. c \in Tasks BY IsPromise
  <2>2. todo[c] # <<>> /\ AwaitFirst(c) BY <1>8 DEF Await
  <2> QED BY <2>1, <2>2, GoesOnPromised
<1>9. ASSUME NEW c \in {Device, Disk}, End(c) PROVE UNCHANGED <<todo, executed>> BY <1>9 DEF End
<1>10. NewDisk => UNCHANGED <<todo, executed>> BY DEF NewDisk
<1>11. ASSUME NEW c \in Readers, Register(c) \/ Stop(c) \/ Begin(c) PROVE UNCHANGED <<todo, executed>>
  BY <1>11 DEF Register, Stop, Begin, tasks
<1>12. ASSUME NEW q \in Queues, Done(q) \/ Match(q) \/ NoMatch(q) PROVE UNCHANGED <<todo, executed>>
  BY <1>12 DEF Done, Match, NoMatch, tasks
<1>13. Remove => UNCHANGED <<todo, executed>> BY DEF Remove, tasks
<1>14. ASSUME NEW q \in Queues, Interrupt(q) \/ Fetch(q) PROVE UNCHANGED <<todo, executed>>
  BY <1>14 DEF Interrupt, Fetch, tasks
<1>15. UNCHANGED vars => UNCHANGED <<todo, executed>> BY DEF vars, tasks
<1>16. \/ \E p \in Promises : Promised!Send(p) \/ Promised!Execute(p) \/ Promised!GoOn(p)
       \/ UNCHANGED <<todo, executed>>
  <2>1. CASE UNCHANGED vars BY <1>15, <2>1
  <2>2. CASE \E c \in {Device, Disk} : Command(c) \/ AwaitCommand(c) \/ End(c)
    BY <1>4, <1>7, <1>9, <2>2, Zenon
  <2>3. CASE \E c \in Readers : Register(c) \/ Issue(c) \/ Await(c) \/ Stop(c)
    BY <1>5, <1>8, <1>11, <2>3, Zenon
  <2>4. CASE NewDisk \/ Remove BY <1>10, <1>13, <2>4
  <2>5. CASE \E q \in Queues : Done(q) \/ Match(q) \/ NoMatch(q) BY <1>12, <2>5, Zenon
  <2>6. CASE \E c \in Readers : Begin(c) BY <1>11, <2>6, Zenon
  <2>7. CASE \E q \in Queues : Interrupt(q) \/ Fetch(q) BY <1>14, <2>7, Zenon
  <2>8. CASE \E f \in fetched : Execute(f) BY <1>6, <2>8, Zenon
  <2> QED BY <2>1, <2>2, <2>3, <2>4, <2>5, <2>6, <2>7, <2>8, Zenon DEF Next, Driver
<1> QED BY <1>2, <1>16, Zenon DEF Promised!Next

\* A task goes on from a co_await only after the controller executed the
\* command awaited, and every command is executed once: the rings, phases,
\* identifiers, interrupts and promises implement Commands.
THEOREM NvmeImplementsCommands == Spec => ImplementsCommands
<1>1. Init => Promised!Init
  <2> SUFFICES ASSUME Init PROVE Promised!Init OBVIOUS
  <2>1. executed = {} /\ todo = [c \in Tasks |-> <<>>] BY DEF Init
  <2>2. \A p \in Promises : ~ToAwait(p)
    <3> SUFFICES ASSUME NEW p \in Promises PROVE ~ToAwait(p) OBVIOUS
    <3>1. p[1] \in Tasks BY PromiseParts
    <3> QED BY <2>1, <3>1 DEF ToAwait
  <2>3. Awaited = {} BY <2>2 DEF Awaited
  <2> QED BY <2>1, <2>3, PromisedIs
<1>2. NvmeInv /\ [Next]_vars => [Promised!Next]_(Promised!vars) BY StepPromised
<1> QED BY <1>1, <1>2, NvmeInvariant, PTL DEF Spec, ImplementsCommands, Promised!Spec
=============================================================================
