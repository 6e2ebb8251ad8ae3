--------------------------- MODULE XhciRingsProofs ---------------------------
(***************************************************************************)
(* What holds of the rings of an xHCI controller for every size, any       *)
(* number of endpoints, and every use of them that leaves each transfer    *)
(* ring with fewer users than blocks.                                      *)
(*                                                                         *)
(* TypeInv needs nothing else.  The inductive invariant RingsInv holds of  *)
(* a build whose controller does not look at a block between its two       *)
(* stores (EarlyLook is FALSE).  Its parts:                                *)
(*   - Rounds: cycle bits split a ring where the driver goes on;           *)
(*   - Controlling: the controller is behind the driver, by less than a    *)
(*     round, and a link is where it goes back to the start;               *)
(*   - Entries: callbacks and clients that wait belong to each other, but  *)
(*     for the callback of the event being handled;                        *)
(*   - Requested: a callback is for a block of a ring that its client      *)
(*     uses, and the blocks with callbacks are the ones written last;      *)
(*   - Unexecuted, Answered: those ahead of the controller hold their      *)
(*     client's request, of those behind it an event tells;                *)
(*   - EventRounds, Apart: as Rounds and Controlling, of the event ring;   *)
(*   - Telling: events not handled tell of one executed block each, those  *)
(*     of a ring in its order;                                             *)
(*   - Driving: where the driver is;                                       *)
(*   - Queued: the history queue lists the blocks ahead of the controller. *)
(***************************************************************************)
EXTENDS XhciRings, TLAPS, FiniteSetTheorems, SequenceTheorems, WellFoundedInduction

N == RingSize
E == EventSize
USE DEF N, E

-----------------------------------------------------------------------------
(* The invariants.                                                         *)

Addresses == Rings \X (0 .. N - 1)
Blocks == [kind : {"empty", "request", "link"}, who : Clients \cup {Nobody},
           cycle : {0, 1}, ioc : BOOLEAN]

RingTypes ==
  /\ ring \in [Rings -> [0 .. N - 1 -> Blocks]]
  /\ dequeue \in [Rings -> 0 .. N] /\ consumer \in [Rings -> {0, 1}]

IndexTypes ==
  /\ \A r \in Endpoints : index[r] \in 0 .. 2 * N - 1
  /\ index[CommandRing] \in 0 .. MaxCommands
  /\ posted \in 0 .. 2 * E - 1 /\ eventIndex \in 0 .. 2 * E - 1
  /\ erdp \in 0 .. E - 1 /\ changes \in 0 .. MaxChanges

DriverTypes ==
  /\ armed \subseteq Rings /\ irq \in BOOLEAN
  /\ pc \in {"idle", "running", "place", "publish", "finish"}
  /\ who \in Clients \cup {Nobody} /\ target \in Rings /\ back \in {"idle", "finish"}
  /\ found \in 0 .. Len(callbacks)
  /\ waiting \subseteq Clients /\ executed \subseteq Clients

\* A block is empty until the driver first comes to it, which is before there
\* is a link on the ring.
Filled ==
  \A r \in Rings, s \in 0 .. N - 1 :
    /\ ring[r][s].kind = "request" => ring[r][s].who \in Clients
    /\ ring[r][s].kind = "link" => r \in Endpoints /\ s = N - 1
    /\ ring[r][s].kind = "empty" =>
         /\ ring[r][s].cycle = 0 /\ index[r] <= s /\ consumer[r] = 1
         /\ \A q \in 0 .. N - 1 : ring[r][q].kind # "link"

TypeInv ==
  /\ TypeOK /\ Filled
  /\ DOMAIN index = Rings
  /\ callbacks \in Seq([addr : Addresses, who : Clients])
  /\ events \in [0 .. E - 1 -> [addr : Addresses \cup {PortChange, <<>>}, cycle : {0, 1}]]
  /\ pc \in {"running", "place", "publish"} => who \in Clients
  /\ pc \in {"place", "publish"} => target \in Endpoints /\ (index[target] % N) + 1 < N
  /\ pc = "publish" => ring[target][index[target] % N].kind = "request"

\* The slot and the cycle bit of what the driver writes next to ring r.
Top(r) == IF r = CommandRing \/ index[r] < N THEN index[r] ELSE index[r] - N
Side(r) == IF r = CommandRing THEN 1 ELSE CycleAt(index[r], N)

\* The block at Top is stored and not complete.
Placed(r) == pc = "publish" /\ target = r
Written(r) == IF Placed(r) /\ Side(r) = 0 THEN Top(r) + 1 ELSE Top(r)

\* Slots for requests, and how many requests ago one was written last.
Slots(r) == IF r = CommandRing THEN 0 .. index[r] - 1 ELSE 0 .. N - 2
Behind(r, s) == IF s < Top(r) THEN Top(r) - s ELSE Top(r) - s + N - 1

\* Complete requests ahead of the controller.
Ahead1(r) == IF consumer[r] = Side(r) THEN Top(r) - dequeue[r] ELSE Top(r) - dequeue[r] + N - 1

Rounds ==
  \A r \in Rings, s \in 0 .. N - 1 :
    ring[r][s].cycle = IF s < Written(r) THEN Side(r) ELSE 1 - Side(r)

Controlling ==
  /\ consumer[CommandRing] = 1
  /\ \A r \in Rings :
       IF consumer[r] = Side(r)
         THEN dequeue[r] <= Top(r)
         ELSE /\ Top(r) <= dequeue[r] /\ dequeue[r] <= N - 1
              /\ Placed(r) => Top(r) < dequeue[r]
              /\ ring[r][N - 1].kind = "link"

Active == DOMAIN callbacks \ {found}
Live == {callbacks[n] : n \in Active}

Entries ==
  /\ \A m, n \in Active : m # n => /\ callbacks[m].who # callbacks[n].who
                                   /\ callbacks[m].addr # callbacks[n].addr
  /\ waiting = {x.who : x \in Live}

RingOf(x) == x.addr[1]
SlotOf(x) == x.addr[2]
Age(x) == Behind(RingOf(x), SlotOf(x))

Requested ==
  /\ \A x \in Live : /\ x.addr = <<RingOf(x), SlotOf(x)>>
                     /\ RingOf(x) \in Uses[x.who]
                     /\ SlotOf(x) \in Slots(RingOf(x))
  /\ \A x \in Live : \A s \in Slots(RingOf(x)) :
       Behind(RingOf(x), s) <= Age(x) => \E y \in Live : y.addr = <<RingOf(x), s>>

Unexecuted ==
  /\ \A r \in Rings : \A s \in Slots(r) :
       Behind(r, s) <= Ahead1(r) => \E y \in Live : y.addr = <<r, s>>
  /\ \A x \in Live : Age(x) <= Ahead1(RingOf(x)) =>
       LET trb == ring[RingOf(x)][SlotOf(x)] IN
       trb.kind = "request" /\ trb.who = x.who /\ trb.ioc /\ x.who \notin executed

Wrap(i, m) == IF i < m THEN i ELSE i - m
First == Wrap(eventIndex, E)
Past == Wrap(posted, E)
Handling == pc = "finish" \/ back = "finish"

SameRound == CycleAt(eventIndex, E) = CycleAt(posted, E)
Unhandled == {e \in 0 .. E - 1 : IF SameRound THEN First <= e /\ e < Past ELSE First <= e \/ e < Past}
Pending == {e \in Unhandled : Handling => e # First}
Time(e) == IF e < Past THEN e + E ELSE e

EventRounds ==
  \A e \in 0 .. E - 1 :
    events[e].cycle = IF e < Past THEN CycleAt(posted, E) ELSE 1 - CycleAt(posted, E)
Apart ==
  /\ IF SameRound THEN First <= Past ELSE Past < First
  /\ erdp = First
  /\ Handling => eventIndex # posted

Executed(x) == Age(x) > Ahead1(RingOf(x))
Answered ==
  /\ \A x \in Live : Executed(x) => /\ x.who \in executed
                                    /\ \E e \in Pending : events[e].addr = x.addr
  /\ \A c \in executed : \E x \in Live : x.who = c /\ Executed(x)
Telling ==
  /\ \A e \in Pending : \/ events[e].addr = PortChange
                        \/ \E x \in Live : events[e].addr = x.addr /\ Executed(x)
  /\ \A e, f \in Pending : \A x, y \in Live :
       /\ events[e].addr = x.addr /\ events[f].addr = y.addr /\ RingOf(x) = RingOf(y)
       /\ Time(e) < Time(f)
       => Age(y) < Age(x)

Driving ==
  /\ pc \in {"running", "place", "publish"} => who \in Clients \ waiting
  /\ pc \in {"place", "publish"} =>
       target \in Endpoints /\ target \in Uses[who] /\ Top(target) < N - 1
  /\ pc = "publish" => LET trb == ring[target][Top(target)] IN
       trb.kind = "request" /\ trb.who = who /\ ~trb.ioc
  /\ pc \in {"idle", "finish"} => back = "idle"
  /\ found # 0 => Handling

\* The requests ahead of the controller, an incomplete one included.
Nth(r, i) ==
  IF consumer[r] = Side(r) \/ dequeue[r] + i - 1 < N - 1 THEN dequeue[r] + i - 1
                                                          ELSE dequeue[r] + i - N
Depth(r) == IF consumer[r] = Side(r) THEN Written(r) - dequeue[r]
                                     ELSE Written(r) - dequeue[r] + N - 1
Listed(r) == [i \in 1 .. Depth(r) |-> ring[r][Nth(r, i)].who]
Queued == queue = [r \in Rings |-> Listed(r)]

RingsInv ==
  /\ TypeInv /\ Rounds /\ Controlling /\ Entries /\ Requested /\ Unexecuted /\ EventRounds /\ Apart
  /\ Answered /\ Telling /\ Driving /\ Queued

-----------------------------------------------------------------------------
(* Arithmetic and sequences.                                               *)

LEMMA Sizes ==
  /\ N \in Nat /\ N > 1 /\ E \in Nat /\ E > 0 /\ MaxCommands \in 0 .. N /\ MaxChanges \in Nat
  /\ CommandRing \notin Endpoints /\ Nobody \notin Clients /\ CommandRing \in Rings
  /\ \A r \in Endpoints : r \in Rings
  /\ \A r \in Rings : r = CommandRing \/ r \in Endpoints
  /\ \A c \in Clients : Uses[c] \in SUBSET Rings
BY RoomAssumption DEF N, E, Rings

LEMMA Wrapped ==
  ASSUME NEW m \in Nat, m > 0, NEW i \in 0 .. 2 * m - 1
  PROVE  /\ i % m = Wrap(i, m) /\ Wrap(i, m) \in 0 .. m - 1
         /\ (i + 1) % (2 * m) = IF i + 1 = 2 * m THEN 0 ELSE i + 1
         /\ CycleAt(i, m) \in {0, 1}
<1>1. i % m = Wrap(i, m)
  <2>1. CASE i < m BY <2>1 DEF Wrap
  <2>2. CASE ~(i < m)
    <3> DEFINE k == i - m
    <3>1. k \in 0 .. m - 1 /\ i = k + m BY <2>2
    <3> HIDE DEF k
    <3>2. (k + m) % m = k BY <3>1
    <3> QED BY <2>2, <3>1, <3>2 DEF Wrap
  <2> QED BY <2>1, <2>2
<1>2. Wrap(i, m) \in 0 .. m - 1 BY DEF Wrap
<1>3. (i + 1) % (2 * m) = IF i + 1 = 2 * m THEN 0 ELSE i + 1
  <2> DEFINE k == 2 * m
  <2>1. k \in Nat /\ i \in 0 .. k - 1 OBVIOUS
  <2> HIDE DEF k
  <2>2. (i + 1) % k = IF i + 1 = k THEN 0 ELSE i + 1 BY <2>1
  <2> QED BY <2>2 DEF k
<1>4. CycleAt(i, m) \in {0, 1} BY DEF CycleAt
<1> QED BY <1>1, <1>2, <1>3, <1>4

LEMMA LeastNat == ASSUME NEW T, T \subseteq Nat, T # {}
                  PROVE \E x \in T : \A y \in T : x <= y
<1> DEFINE R == OpToRel(<, Nat)
<1>1. IsWellFoundedOn(R, Nat) BY NatLessThanWellFounded
<1>2. \A x, y \in Nat : y < x => <<y, x>> \in R BY DEF OpToRel
<1> HIDE DEF R
<1>3. PICK x \in T : \A y \in T : ~(<<y, x>> \in R) BY <1>1, WFMin
<1>4. ASSUME NEW y \in T PROVE x <= y
  <2>1. x \in Nat /\ y \in Nat OBVIOUS
  <2>2. ~(y < x) BY <1>2, <1>3, <2>1
  <2> QED BY <2>1, <2>2
<1> QED BY <1>4

LEMMA Induction == ASSUME NEW G, 0 \in G, \A n \in Nat : n \in G => n + 1 \in G
                   PROVE  \A n \in Nat : n \in G
<1> SUFFICES ASSUME NEW m \in Nat, m \notin G PROVE FALSE OBVIOUS
<1> DEFINE T == Nat \ G
<1>1. PICK x \in T : \A y \in T : x <= y BY LeastNat
<1>2. x \in Nat /\ x # 0 OBVIOUS
<1>3. x - 1 \in Nat /\ ~(x <= x - 1) /\ (x - 1) + 1 = x BY <1>2
<1>4. x - 1 \in G BY <1>1, <1>3
<1> QED BY <1>3, <1>4

\* Functions on 1 .. k as sequences.
IsSeq(g, k) == g = [i \in 1 .. k |-> g[i]]

LEMMA FunctionSeq ==
  ASSUME NEW k \in Nat, NEW g, IsSeq(g, k)
  PROVE  g \in Seq({g[i] : i \in 1 .. k}) /\ Len(g) = k
BY DEF IsSeq

LEMMA Consed ==
  ASSUME NEW k \in Nat, NEW g, NEW h, NEW v,
         IsSeq(g, k), IsSeq(h, k + 1),
         h[1] = v, \A i \in 1 .. k : h[i + 1] = g[i]
  PROVE  <<v>> \o g = h
<1> DEFINE S == {h[i] : i \in 1 .. k + 1}
<1>1. h \in Seq(S) /\ Len(h) = k + 1 BY FunctionSeq
<1>2. ASSUME NEW i \in 1 .. k PROVE g[i] \in S
  <2>1. i + 1 \in 1 .. k + 1 OBVIOUS
  <2>2. h[i + 1] = g[i] BY Zenon
  <2> QED BY <2>1, <2>2, Zenon
<1>3. g \in Seq(S) /\ Len(g) = k
  <2> HIDE DEF S
  <2> QED BY <1>2 DEF IsSeq
<1>4. <<v>> \in Seq(S) /\ Len(<<v>>) = 1 /\ <<v>>[1] = v OBVIOUS
<1> HIDE DEF S
<1>5. <<v>> \o g \in Seq(S) /\ Len(<<v>> \o g) = k + 1 BY <1>3, <1>4, ConcatProperties
<1>6. ASSUME NEW i \in 1 .. k + 1 PROVE (<<v>> \o g)[i] = h[i]
  <2>1. CASE i = 1
    <3>1. (<<v>> \o g)[1] = v BY <1>3, <1>4
    <3> QED BY <2>1, <3>1
  <2>2. CASE i # 1
    <3>1. i - 1 \in 1 .. k /\ (i - 1) + 1 = i BY <2>2
    <3>2. (<<v>> \o g)[i] = g[i - 1] BY <1>3, <1>4, <3>1
    <3> QED BY <3>1, <3>2
  <2> QED BY <2>1, <2>2
<1> QED BY <1>1, <1>5, <1>6, SeqEqual

LEMMA Appended ==
  ASSUME NEW k \in Nat, NEW g, NEW h, NEW v,
         IsSeq(g, k), IsSeq(h, k + 1),
         h[k + 1] = v, \A i \in 1 .. k : h[i] = g[i]
  PROVE  h = Append(g, v)
<1> DEFINE S == {h[i] : i \in 1 .. k + 1}
<1>1. h \in Seq(S) /\ Len(h) = k + 1 BY FunctionSeq
<1>2. ASSUME NEW i \in 1 .. k PROVE g[i] \in S
  <2>1. i \in 1 .. k + 1 OBVIOUS
  <2>2. h[i] = g[i] BY Zenon
  <2> QED BY <2>1, <2>2, Zenon
<1>3. g \in Seq(S) /\ Len(g) = k
  <2> HIDE DEF S
  <2> QED BY <1>2, SMTT(30) DEF IsSeq
<1>4. v \in S
  <2>1. k + 1 \in 1 .. k + 1 OBVIOUS
  <2> QED BY <2>1
<1> HIDE DEF S
<1>5. Append(g, v) \in Seq(S) /\ Len(Append(g, v)) = k + 1 BY <1>3, <1>4, AppendProperties
<1>6. \A i \in 1 .. k + 1 : Append(g, v)[i] = h[i] BY <1>3, <1>4, AppendProperties
<1> QED BY <1>1, <1>5, <1>6, SeqEqual

LEMMA Tailed ==
  ASSUME NEW k \in Nat, NEW g, NEW h,
         IsSeq(g, k + 1), IsSeq(h, k),
         \A i \in 1 .. k : h[i] = g[i + 1]
  PROVE  g # <<>> /\ Head(g) = g[1] /\ h = Tail(g)
<1> DEFINE S == {g[i] : i \in 1 .. k + 1}
<1>1. g \in Seq(S) /\ Len(g) = k + 1 BY FunctionSeq
<1>2. ASSUME NEW i \in 1 .. k PROVE h[i] \in S
  <2>1. i + 1 \in 1 .. k + 1 OBVIOUS
  <2>2. h[i] = g[i + 1] BY Zenon
  <2> QED BY <2>1, <2>2, Zenon
<1>3. h \in Seq(S) /\ Len(h) = k
  <2> HIDE DEF S
  <2> QED BY <1>2 DEF IsSeq
<1> HIDE DEF S
<1>4. g # <<>> BY <1>1, EmptySeq
<1>5. Head(g) = g[1] OBVIOUS
<1>6. Tail(g) \in Seq(S) /\ Len(Tail(g)) = k /\ \A i \in 1 .. k : Tail(g)[i] = g[i + 1]
  BY <1>1, <1>4, HeadTailProperties
<1>7. h = Tail(g) BY <1>3, <1>6, SeqEqual
<1> QED BY <1>4, <1>5, <1>7

LEMMA TypeOKIs ==
  TypeOK <=> RingTypes /\ IndexTypes /\ DriverTypes /\ queue \in [Rings -> Seq(Clients)]
BY DEF TypeOK, RingTypes, IndexTypes, DriverTypes, Blocks

LEMMA TypeOKIsNext ==
  TypeOK' <=> RingTypes' /\ IndexTypes' /\ DriverTypes' /\ queue' \in [Rings -> Seq(Clients)]
BY DEF TypeOK, RingTypes, IndexTypes, DriverTypes, Blocks

LEMMA SlotIs ==
  ASSUME NEW r \in Endpoints, index[r] \in 0 .. 2 * N - 1
  PROVE  /\ index[r] % N = Top(r) /\ Top(r) \in 0 .. N - 1
         /\ Side(r) \in {0, 1} /\ CycleAt(index[r], N) = Side(r)
<1>1. r # CommandRing BY Sizes
<1>2. N \in Nat /\ N > 0 BY Sizes
<1>3. index[r] % N = Wrap(index[r], N) /\ Wrap(index[r], N) \in 0 .. N - 1 /\ CycleAt(index[r], N) \in {0, 1}
  BY <1>2, Wrapped
<1> QED BY <1>1, <1>3 DEF Top, Side, Wrap

-----------------------------------------------------------------------------
(* What is ahead of the controller.  From(n) is what a controller finds     *)
(* that takes at most n blocks.                                            *)

Step(r, f) ==
  [p \in (0 .. N) \X {0, 1} |->
     IF ~Valid(r, p) THEN <<>>
     ELSE (IF ring[r][p[1]].kind = "link" THEN <<>> ELSE <<ring[r][p[1]].who>>) \o f[Beyond(r, p)]]

LEMMA AheadUnfolds ==
  ASSUME NEW r
  PROVE  \E f : /\ Ahead(r) = f[N][<<dequeue[r], consumer[r]>>]
                /\ f[0] = [p \in (0 .. N) \X {0, 1} |-> <<>>]
                /\ \A n \in 0 .. N - 1 : f[n + 1] = Step(r, f[n])
<1> DEFINE Def(g, n) ==
             [p \in (0 .. N) \X {0, 1} |->
                IF n = 0 \/ ~Valid(r, p) THEN <<>>
                ELSE (IF ring[r][p[1]].kind = "link" THEN <<>> ELSE <<ring[r][p[1]].who>>)
                     \o g[n - 1][Beyond(r, p)]]
           F(g, m) == g = [n \in 0 .. m |-> Def(g, n)]
           f == CHOOSE g : F(g, N)
<1>1. Ahead(r) = f[N][<<dequeue[r], consumer[r]>>] BY DEF Ahead
<1>2. \E g : F(g, N)
  <2> DEFINE G == {m \in Nat : \E g : F(g, m)}
  <2>1. 0 \in G
    <3> DEFINE h == [n \in 0 .. 0 |-> [p \in (0 .. N) \X {0, 1} |-> <<>>]]
    <3>1. F(h, 0) OBVIOUS
    <3> HIDE DEF F
    <3> QED BY <3>1
  <2>2. ASSUME NEW m \in Nat, m \in G PROVE m + 1 \in G
    <3>1. PICK g : F(g, m)
      <4> HIDE DEF F
      <4> QED BY <2>2
    <3> DEFINE h == [n \in 0 .. m + 1 |-> IF n <= m THEN g[n] ELSE Def(g, n)]
    <3>2. ASSUME NEW n \in 0 .. m + 1 PROVE h[n] = Def(h, n)
      <4>1. \A k \in 0 .. m : h[k] = g[k] OBVIOUS
      <4>2. n # 0 => n - 1 \in 0 .. m OBVIOUS
      <4>3. n # 0 => h[n - 1] = g[n - 1] BY <4>1, <4>2
      <4> HIDE DEF h
      <4>4. Def(h, n) = Def(g, n)
        <5>1. CASE n = 0 BY <5>1
        <5>2. CASE n # 0 BY <5>2, <4>3
        <5> QED BY <5>1, <5>2
      <4> HIDE DEF Def
      <4>5. CASE n <= m
        <5>1. g[n] = Def(g, n) BY <3>1, <4>5
        <5> QED BY <4>1, <4>4, <4>5, <5>1
      <4>6. CASE ~(n <= m) BY <4>4, <4>6 DEF h
      <4> QED BY <4>5, <4>6
    <3>3. h = [n \in 0 .. m + 1 |-> h[n]] OBVIOUS
    <3> HIDE DEF h
    <3>4. F(h, m + 1)
      <4> HIDE DEF Def
      <4> QED BY <3>2, <3>3
    <3> HIDE DEF F
    <3> QED BY <3>4
  <2> HIDE DEF G
  <2>3. N \in G BY <2>1, <2>2, Sizes, Induction
  <2> HIDE DEF F
  <2> QED BY <2>3 DEF G
<1>3. F(f, N)
  <2> HIDE DEF F
  <2> QED BY <1>2
<1> HIDE DEF f
<1>4. \A n \in 0 .. N : f[n] = Def(f, n)
  <2> HIDE DEF Def
  <2> QED BY <1>3
<1>5. f[0] = [p \in (0 .. N) \X {0, 1} |-> <<>>]
  <2>1. 0 \in 0 .. N BY Sizes
  <2> QED BY <1>4, <2>1
<1>6. ASSUME NEW n \in 0 .. N - 1 PROVE f[n + 1] = Step(r, f[n])
  <2>1. n + 1 \in 0 .. N /\ n + 1 # 0 /\ (n + 1) - 1 = n BY Sizes
  <2>2. f[n + 1] = Def(f, n + 1) BY <1>4, <2>1
  <2> QED BY <2>1, <2>2 DEF Step
<1> QED BY <1>1, <1>5, <1>6

LEMMA AheadTyped ==
  ASSUME RingTypes, Filled, NEW r \in Rings
  PROVE  Ahead(r) \in Seq(Clients)
<1> DEFINE P == (0 .. N) \X {0, 1}
           Full == \A s \in 0 .. N - 1 : ring[r][s].kind # "empty"
           Good(g) == \A p \in P : p[2] = 1 \/ Full => g[p] \in Seq(Clients)
<1>1. PICK f : /\ Ahead(r) = f[N][<<dequeue[r], consumer[r]>>]
               /\ f[0] = [p \in P |-> <<>>]
               /\ \A n \in 0 .. N - 1 : f[n + 1] = Step(r, f[n])
  BY AheadUnfolds
<1>2. ASSUME NEW g, Good(g) PROVE Good(Step(r, g))
  <2> SUFFICES ASSUME NEW p \in P, p[2] = 1 \/ Full PROVE Step(r, g)[p] \in Seq(Clients) OBVIOUS
  <2>1. CASE ~Valid(r, p) BY <2>1 DEF Step
  <2>2. CASE Valid(r, p)
    <3> DEFINE s == p[1]
    <3>1. s \in 0 .. N - 1 /\ p[2] \in {0, 1} /\ ring[r][s] \in Blocks /\ ring[r][s].cycle = p[2]
      BY <2>2, Sizes DEF Valid, RingTypes
    <3>2. ring[r][s].kind # "empty" BY <3>1 DEF Filled
    <3>3. CASE ring[r][s].kind = "link"
      <4>1. Beyond(r, p) = <<0, 1 - p[2]>> BY <3>3 DEF Beyond
      <4>2. Beyond(r, p) \in P BY <4>1, <3>1, Sizes
      <4>3. Full BY <3>1, <3>3 DEF Filled
      <4>4. g[Beyond(r, p)] \in Seq(Clients) BY <1>2, <4>2, <4>3
      <4>5. Step(r, g)[p] = <<>> \o g[Beyond(r, p)] BY <2>2, <3>3 DEF Step
      <4> QED BY <4>4, <4>5
    <3>4. CASE ring[r][s].kind # "link"
      <4>1. ring[r][s].kind = "request" BY <3>1, <3>2, <3>4 DEF Blocks
      <4>2. ring[r][s].who \in Clients BY <3>1, <4>1 DEF Filled
      <4>3. Beyond(r, p) = <<s + 1, p[2]>> BY <3>4 DEF Beyond
      <4>4. Beyond(r, p) \in P /\ Beyond(r, p)[2] = p[2] BY <4>3, <3>1, Sizes
      <4>5. g[Beyond(r, p)] \in Seq(Clients) BY <1>2, <4>4
      <4>6. Step(r, g)[p] = <<ring[r][s].who>> \o g[Beyond(r, p)] BY <2>2, <3>4 DEF Step
      <4> QED BY <4>2, <4>5, <4>6
    <3> QED BY <3>3, <3>4
  <2> QED BY <2>1, <2>2
<1> DEFINE G == {n \in Nat : n \in 0 .. N => Good(f[n])}
<1>3. 0 \in G
  <2>1. Good(f[0])
    <3>1. \A p \in P : f[0][p] = <<>> BY <1>1
    <3> HIDE DEF P, Full
    <3> QED BY <3>1, EmptySeq
  <2> HIDE DEF Good
  <2> QED BY <2>1
<1>4. ASSUME NEW n \in Nat, n \in G PROVE n + 1 \in G
  <2> SUFFICES ASSUME n + 1 \in 0 .. N PROVE Good(f[n + 1]) OBVIOUS
  <2>1. n \in 0 .. N /\ n \in 0 .. N - 1 BY Sizes
  <2>2. Good(f[n]) BY <1>4, <2>1
  <2> HIDE DEF Good
  <2>3. f[n + 1] = Step(r, f[n]) BY <1>1, <2>1
  <2> QED BY <1>2, <2>2, <2>3
<1> HIDE DEF G
<1>5. N \in G BY <1>3, <1>4, Sizes, Induction
<1>6. Good(f[N]) BY <1>5, Sizes DEF G
<1>7. <<dequeue[r], consumer[r]>> \in P /\ (consumer[r] = 1 \/ Full) BY Sizes DEF RingTypes, Filled
<1> QED BY <1>1, <1>6, <1>7

-----------------------------------------------------------------------------
(* Types.                                                                  *)

LEMMA QueueTyped ==
  RingTypes /\ Filled => [r \in Rings |-> Ahead(r)] \in [Rings -> Seq(Clients)]
BY AheadTyped

LEMMA KeptTyped ==
  ASSUME RingTypes', Filled', KeepQueue
  PROVE  queue' \in [Rings -> Seq(Clients)]
<1>1. (RingTypes /\ Filled)' => ([r \in Rings |-> Ahead(r)] \in [Rings -> Seq(Clients)])'
  BY QueueTyped, PTL
<1> QED BY <1>1 DEF KeepQueue

LEMMA EventTyped ==
  ASSUME TypeInv, NEW addr \in Addresses \cup {PortChange}, PostEvent(addr)
  PROVE  /\ posted' \in 0 .. 2 * E - 1 /\ irq' \in BOOLEAN
         /\ events' \in [0 .. E - 1 -> [addr : Addresses \cup {PortChange, <<>>}, cycle : {0, 1}]]
<1>1. posted \in 0 .. 2 * E - 1 /\ E \in Nat /\ E > 0 /\ irq \in BOOLEAN BY Sizes DEF TypeInv, TypeOK
<1>2. posted % E \in 0 .. E - 1 /\ CycleAt(posted, E) \in {0, 1} BY <1>1, Wrapped
<1>3. (posted + 1) % (2 * E) \in 0 .. 2 * E - 1 BY <1>1, Wrapped
<1> DEFINE e == [addr |-> addr, cycle |-> CycleAt(posted, E)]
           T == [addr : Addresses \cup {PortChange, <<>>}, cycle : {0, 1}]
<1>4. e \in T BY <1>2
<1>5. events' = [events EXCEPT ![posted % E] = e] /\ events \in [0 .. E - 1 -> T]
  BY DEF PostEvent, TypeInv
<1> HIDE DEF e, T
<1>6. events' \in [0 .. E - 1 -> T] BY <1>2, <1>4, <1>5
<1> QED BY <1>1, <1>3, <1>6 DEF PostEvent, T

LEMMA AwaitTyped ==
  ASSUME TypeInv, NEW r \in Rings, NEW s \in 0 .. N - 1, who \in Clients, AwaitStatus(r, s)
  PROVE  /\ callbacks' \in Seq([addr : Addresses, who : Clients]) /\ armed' \subseteq Rings
         /\ Len(callbacks') = Len(callbacks) + 1 /\ Len(callbacks) \in Nat
         /\ waiting' \subseteq Clients /\ pc' \in {"idle", "finish"} /\ who' = Nobody /\ back' = "idle"
<1> DEFINE e == [addr |-> <<r, s>>, who |-> who]
           T == [addr : Addresses, who : Clients]
<1>1. e \in T BY DEF Addresses
<1>2. callbacks \in Seq(T) /\ callbacks' = Append(callbacks, e) BY DEF TypeInv, AwaitStatus
<1> HIDE DEF e, T
<1>3. callbacks' \in Seq(T) /\ Len(callbacks') = Len(callbacks) + 1 /\ Len(callbacks) \in Nat
  BY <1>1, <1>2, AppendProperties, LenProperties
<1> QED BY <1>3 DEF AwaitStatus, Return, T, TypeInv, TypeOK

\* Of an action that writes block b to slot s of ring r.
LEMMA WriteTyped ==
  ASSUME TypeInv, NEW r \in Rings, NEW s \in 0 .. N - 1, NEW b \in Blocks,
         ring' = [ring EXCEPT ![r][s] = b], consumer' = consumer,
         b.kind \in {"request", "link"},
         b.kind = "request" => b.who \in Clients,
         b.kind = "link" => r \in Endpoints /\ s = N - 1 /\ \A q \in 0 .. s - 1 : ring[r][q].kind # "empty",
         \A q \in Rings : index'[q] = index[q] \/ (q = r /\ index[r] = s /\ index'[r] \in 0 .. s + 1)
                           \/ (q = r /\ \A k \in 0 .. N - 1 : k # s => ring[r][k].kind # "empty")
  PROVE  Filled' /\ ring' \in [Rings -> [0 .. N - 1 -> Blocks]]
<1>1. ring \in [Rings -> [0 .. N - 1 -> Blocks]] BY DEF TypeInv, TypeOK, Blocks
<1>2. ring' \in [Rings -> [0 .. N - 1 -> Blocks]] BY <1>1
<1>3. \A q \in Rings, k \in 0 .. N - 1 : ring'[q][k] = IF q = r /\ k = s THEN b ELSE ring[q][k]
  BY <1>1
<1>4. ASSUME NEW q \in Rings, NEW k \in 0 .. N - 1
      PROVE  /\ ring'[q][k].kind = "request" => ring'[q][k].who \in Clients
             /\ ring'[q][k].kind = "link" => q \in Endpoints /\ k = N - 1
  BY <1>3, <1>4 DEF TypeInv, Filled
<1>5. ASSUME NEW q \in Rings, NEW k \in 0 .. N - 1, ring'[q][k].kind = "empty"
      PROVE  /\ ring'[q][k].cycle = 0 /\ index'[q] <= k /\ consumer'[q] = 1
             /\ \A j \in 0 .. N - 1 : ring'[q][j].kind # "link"
  <2>1. ~(q = r /\ k = s) /\ ring'[q][k] = ring[q][k] BY <1>3, <1>5
  <2>2. /\ ring[q][k].cycle = 0 /\ index[q] <= k /\ consumer[q] = 1
        /\ \A j \in 0 .. N - 1 : ring[q][j].kind # "link"
    BY <2>1, <1>5 DEF TypeInv, Filled
  <2>3. \A j \in 0 .. N - 1 : ring'[q][j].kind # "link"
    <3> SUFFICES ASSUME NEW j \in 0 .. N - 1, ring'[q][j].kind = "link" PROVE FALSE OBVIOUS
    <3>1. q = r /\ j = s /\ b.kind = "link" BY <1>3, <2>2
    <3>2. k \in 0 .. s - 1 BY <3>1, <2>1, Sizes
    <3> QED BY <3>1, <3>2, <2>1, <1>5
  <2>4. index'[q] <= k
    <3>1. CASE index'[q] = index[q] BY <3>1, <2>2
    <3>2. CASE q = r /\ index[r] = s /\ index'[r] \in 0 .. s + 1
      BY <3>2, <2>1, <2>2
    <3>3. CASE q = r /\ \A j \in 0 .. N - 1 : j # s => ring[r][j].kind # "empty"
      BY <3>3, <2>1, <1>5
    <3> QED BY <3>1, <3>2, <3>3
  <2> QED BY <2>1, <2>2, <2>3, <2>4
<1> QED BY <1>2, <1>4, <1>5 DEF Filled

LEMMA TypeInit == Init => TypeInv
<1> SUFFICES ASSUME Init PROVE TypeInv OBVIOUS
<1>1. TypeOK
  <2>1. queue \in [Rings -> Seq(Clients)] BY EmptySeq DEF Init
  <2>2. DriverTypes
    <3>1. callbacks = <<>> /\ found = 0 BY DEF Init
    <3>2. found \in 0 .. Len(callbacks) BY <3>1, EmptySeq
    <3> QED BY <3>2, Sizes DEF Init, DriverTypes
  <2>3. RingTypes
    <3>1. Empty \in Blocks BY DEF Empty, Blocks
    <3> QED BY <3>1, Sizes DEF Init, RingTypes
  <2>4. IndexTypes BY Sizes DEF Init, IndexTypes
  <2> QED BY <2>1, <2>2, <2>3, <2>4, TypeOKIs
<1>2. Filled BY Sizes DEF Init, Filled, Empty
<1>3. DOMAIN index = Rings /\ callbacks = <<>> /\ pc = "idle" BY DEF Init
<1>4. events \in [0 .. E - 1 -> [addr : Addresses \cup {PortChange, <<>>}, cycle : {0, 1}]] BY DEF Init
<1> QED BY <1>1, <1>2, <1>3, <1>4 DEF TypeInv

\* Of an action that leaves the rings alone.
LEMMA ElsewhereTyped ==
  ASSUME TypeInv, UNCHANGED <<ring, index, dequeue, consumer, queue>>
  PROVE  /\ Filled' /\ DOMAIN index' = Rings /\ queue' \in [Rings -> Seq(Clients)]
         /\ RingTypes' /\ DriverTypes /\ IndexTypes
BY TypeOKIs DEF TypeInv, RingTypes, Filled

LEMMA TypeStart == ASSUME TypeInv, NEW c \in Clients, Start(c) PROVE TypeInv'
<1>1. /\ Filled' /\ DOMAIN index' = Rings /\ queue' \in [Rings -> Seq(Clients)]
      /\ RingTypes' /\ DriverTypes /\ IndexTypes
  BY ElsewhereTyped DEF Start, hardware, history
<1>2. DriverTypes' BY <1>1 DEF DriverTypes, Start, Run, history
<1>3. IndexTypes' BY <1>1 DEF IndexTypes, Start, hardware
<1> QED BY <1>1, <1>2, <1>3, TypeOKIsNext DEF TypeInv, Start, Run, hardware

LEMMA TypeStop == ASSUME TypeInv, Stop PROVE TypeInv'
<1>1. /\ Filled' /\ DOMAIN index' = Rings /\ queue' \in [Rings -> Seq(Clients)]
      /\ RingTypes' /\ DriverTypes /\ IndexTypes
  BY ElsewhereTyped DEF Stop, hardware, history
<1>2. DriverTypes' BY <1>1 DEF DriverTypes, Stop, Return, history
<1>3. IndexTypes' BY <1>1 DEF IndexTypes, Stop, hardware
<1> QED BY <1>1, <1>2, <1>3, TypeOKIsNext DEF TypeInv, Stop, Return, hardware, DriverTypes

LEMMA TypeRunCommand == ASSUME TypeInv, RunCommand PROVE TypeInv'
<1> DEFINE r == CommandRing  s == index[CommandRing]
           b == [kind |-> "request", who |-> who, cycle |-> 1, ioc |-> TRUE]
<1>1. who \in Clients /\ r \in Rings /\ s \in 0 .. N - 1 /\ b \in Blocks /\ index'[r] = s + 1
      /\ s + 1 \in 0 .. MaxCommands
  BY Sizes DEF RunCommand, TypeInv, TypeOK, Blocks
<1>2. ring' = [ring EXCEPT ![r][s] = b] /\ consumer' = consumer BY DEF RunCommand, hardware
<1>3. \A q \in Rings : index'[q] = index[q] \/ (q = r /\ index[r] = s /\ index'[r] \in 0 .. s + 1)
  BY <1>1 DEF RunCommand, TypeInv
<1>4. b.kind = "request" /\ b.who = who OBVIOUS
<1> HIDE DEF b
<1> HIDE DEF r, s
<1>5. Filled' /\ ring' \in [Rings -> [0 .. N - 1 -> Blocks]]
  <2>1. \A q \in Rings : index'[q] = index[q] \/ (q = r /\ index[r] = s /\ index'[r] \in 0 .. s + 1)
                       \/ (q = r /\ \A k \in 0 .. N - 1 : k # s => ring[r][k].kind # "empty")
    BY <1>3
  <2>2. b.kind \in {"request", "link"} /\ b.kind # "link" BY <1>4
  <2> QED BY <1>1, <1>2, <1>4, <2>1, <2>2, WriteTyped
<1>6. AwaitStatus(r, s) BY DEF RunCommand, r, s
<1>7. /\ callbacks' \in Seq([addr : Addresses, who : Clients]) /\ armed' \subseteq Rings
      /\ Len(callbacks') = Len(callbacks) + 1 /\ Len(callbacks) \in Nat
      /\ waiting' \subseteq Clients /\ pc' \in {"idle", "finish"} /\ who' = Nobody /\ back' = "idle"
  BY <1>1, <1>6, AwaitTyped
<1>8. RingTypes /\ IndexTypes /\ DriverTypes BY TypeOKIs DEF TypeInv
<1>9. RingTypes' BY <1>5, <1>8 DEF RunCommand, RingTypes, hardware
<1>10. queue' \in [Rings -> Seq(Clients)] BY <1>5, <1>9, KeptTyped DEF RunCommand
<1>11. \A q \in Endpoints : index'[q] = index[q] BY Sizes DEF RunCommand, TypeInv
<1>12. IndexTypes' BY <1>1, <1>8, <1>11 DEF IndexTypes, RunCommand, hardware, r
<1>13. DriverTypes' BY <1>7, <1>8 DEF DriverTypes, RunCommand
<1>14. DOMAIN index' = Rings BY DEF RunCommand, TypeInv
<1> QED BY <1>5, <1>7, <1>9, <1>10, <1>12, <1>13, <1>14, TypeOKIsNext DEF RunCommand, TypeInv, hardware

LEMMA TypePublish == ASSUME TypeInv, Publish PROVE TypeInv'
<1> DEFINE r == target  s == Top(target)
           b == Published(ring[r][s])
<1>1. RingTypes /\ IndexTypes /\ DriverTypes BY TypeOKIs DEF TypeInv
<1>2. /\ who \in Clients /\ r \in Endpoints /\ r \in Rings /\ index[r] \in 0 .. 2 * N - 1
      /\ (index[r] % N) + 1 < N
  BY <1>1, Sizes DEF Publish, TypeInv, IndexTypes
<1>3. s = index[r] % N /\ s \in 0 .. N - 1 /\ Slot = s /\ s + 1 < N BY <1>2, SlotIs DEF Slot
<1>4. ring' = [ring EXCEPT ![r][s] = b] /\ consumer' = consumer /\ index' = [index EXCEPT ![r] = @ + 1]
  BY <1>3 DEF Publish, hardware
<1>5. b \in Blocks /\ b.kind = "request" /\ b.who \in Clients
  <2>1. ring[r][s] \in Blocks /\ ring[r][s].kind = "request" /\ ring[r][s].who \in Clients
    BY <1>1, <1>2, <1>3 DEF RingTypes, TypeInv, Filled, Publish
  <2>2. CycleAt(index[r], N) \in {0, 1} BY DEF CycleAt
  <2> QED BY <2>1, <2>2 DEF Published, Blocks
<1>6. AwaitStatus(r, s) BY <1>3 DEF Publish
<1>7. /\ callbacks' \in Seq([addr : Addresses, who : Clients]) /\ armed' \subseteq Rings
      /\ Len(callbacks') = Len(callbacks) + 1 /\ Len(callbacks) \in Nat
      /\ waiting' \subseteq Clients /\ pc' \in {"idle", "finish"} /\ who' = Nobody /\ back' = "idle"
  BY <1>2, <1>3, <1>6, AwaitTyped
<1>8. DOMAIN index' = Rings /\ index'[r] = index[r] + 1 /\ \A q \in Rings : q # r => index'[q] = index[q]
  BY <1>2, <1>4 DEF TypeInv
<1>9. index'[r] \in 0 .. 2 * N - 1
  <2>1. s = Wrap(index[r], N)
    <3>1. N \in Nat /\ N > 0 BY Sizes
    <3> QED BY <1>2, <1>3, <3>1, Wrapped
  <2> QED BY <1>2, <1>3, <1>8, <2>1, Sizes DEF Wrap
<1> HIDE DEF b, r, s
<1>10. Filled' /\ ring' \in [Rings -> [0 .. N - 1 -> Blocks]]
  <2>1. ASSUME NEW q \in Rings
        PROVE  \/ index'[q] = index[q] \/ (q = r /\ index[r] = s /\ index'[r] \in 0 .. s + 1)
               \/ (q = r /\ \A k \in 0 .. N - 1 : k # s => ring[r][k].kind # "empty")
    <3>1. CASE q # r BY <1>8, <3>1
    <3>2. CASE q = r /\ index[r] < N
      <4>1. s = index[r] BY <1>2, <1>3, <3>2, Sizes
      <4> QED BY <1>8, <1>3, <3>2, <4>1, Sizes
    <3>3. CASE q = r /\ ~(index[r] < N)
      <4>1. \A k \in 0 .. N - 1 : ~(index[r] <= k) BY <1>2, <3>3, Sizes
      <4> QED BY <1>2, <3>3, <4>1 DEF TypeInv, Filled
    <3> QED BY <3>1, <3>2, <3>3
  <2>2. b.kind \in {"request", "link"} /\ b.kind # "link" BY <1>5
  <2> QED BY <1>2, <1>3, <1>4, <1>5, <2>1, <2>2, WriteTyped
<1>11. RingTypes' BY <1>1, <1>10 DEF Publish, RingTypes, hardware
<1>12. queue' \in [Rings -> Seq(Clients)] BY <1>10, <1>11, KeptTyped DEF Publish
<1>13. IndexTypes'
  <2>1. \A q \in Endpoints : index'[q] \in 0 .. 2 * N - 1 BY <1>1, <1>8, <1>9, Sizes DEF IndexTypes
  <2>2. index'[CommandRing] = index[CommandRing] BY <1>2, <1>8, Sizes
  <2> QED BY <1>1, <2>1, <2>2 DEF IndexTypes, Publish, hardware
<1>14. DriverTypes' BY <1>1, <1>7 DEF DriverTypes, Publish
<1> QED BY <1>7, <1>8, <1>10, <1>11, <1>12, <1>13, <1>14, TypeOKIsNext DEF Publish, TypeInv, hardware

LEMMA TypePlace == ASSUME TypeInv, Place PROVE TypeInv'
<1> DEFINE r == target  s == Top(target)
           b == [kind |-> "request", who |-> who, cycle |-> 0, ioc |-> FALSE]
<1>1. RingTypes /\ IndexTypes /\ DriverTypes BY TypeOKIs DEF TypeInv
<1>2. /\ who \in Clients /\ r \in Endpoints /\ r \in Rings /\ index[r] \in 0 .. 2 * N - 1
      /\ (index[r] % N) + 1 < N
  BY <1>1, Sizes DEF Place, TypeInv, IndexTypes
<1>3. s = index[r] % N /\ s \in 0 .. N - 1 /\ Slot = s BY <1>2, SlotIs DEF Slot
<1>4. ring' = [ring EXCEPT ![r][s] = b] /\ consumer' = consumer /\ index' = index
  BY <1>3 DEF Place, hardware
<1>5. b \in Blocks /\ b.kind = "request" /\ b.who \in Clients BY <1>2 DEF Blocks
<1> HIDE DEF b
<1>6. Filled' /\ ring' \in [Rings -> [0 .. N - 1 -> Blocks]]
  <2>1. b.kind \in {"request", "link"} /\ b.kind # "link" BY <1>5
  <2> HIDE DEF r, s
  <2> QED BY <1>2, <1>3, <1>4, <1>5, <2>1, WriteTyped
<1>7. RingTypes' BY <1>1, <1>6 DEF Place, RingTypes, hardware
<1>8. queue' \in [Rings -> Seq(Clients)] BY <1>6, <1>7, KeptTyped DEF Place
<1>9. IndexTypes' BY <1>1 DEF IndexTypes, Place, hardware
<1>10. DriverTypes' BY <1>1 DEF DriverTypes, Place, client
<1>11. ring'[target'][index'[target'] % N].kind = "request"
  <2>1. target' = r /\ index'[target'] % N = s BY <1>3, <1>4 DEF Place, client
  <2>2. ring'[r][s] = b BY <1>1, <1>2, <1>3, <1>4 DEF RingTypes
  <2> QED BY <1>5, <2>1, <2>2
<1> QED BY <1>2, <1>6, <1>7, <1>8, <1>9, <1>10, <1>11, TypeOKIsNext DEF Place, TypeInv, hardware, client

LEMMA TypeEnsure == ASSUME TypeInv, NEW r \in Endpoints, EnsureSpaceFor(r) PROVE TypeInv'
<1> DEFINE s == Top(r)
           b == [kind |-> "link", who |-> Nobody, ioc |-> FALSE, cycle |-> CycleAt(index[r], N)]
<1>1. RingTypes /\ IndexTypes /\ DriverTypes BY TypeOKIs DEF TypeInv
<1>2. /\ who \in Clients /\ r \in Rings /\ index[r] \in 0 .. 2 * N - 1 /\ target' = r
      /\ consumer' = consumer
  BY <1>1, Sizes DEF EnsureSpaceFor, TypeInv, IndexTypes, hardware
<1>3. s = index[r] % N /\ s \in 0 .. N - 1 BY <1>2, SlotIs
<1>4. N \in Nat /\ N > 1 BY Sizes
<1>5. Filled' /\ RingTypes' /\ DOMAIN index' = Rings /\ index'[r] \in 0 .. 2 * N - 1
      /\ (index'[r] % N) + 1 < N /\ \A q \in Rings : q # r => index'[q] = index[q]
  <2>1. CASE s + 1 < N
    <3>1. UNCHANGED <<ring, index, consumer, dequeue>> BY <2>1, <1>3 DEF EnsureSpaceFor, hardware
    <3> QED BY <1>1, <1>2, <1>3, <2>1, <3>1 DEF TypeInv, Filled, RingTypes
  <2>2. CASE ~(s + 1 < N)
    <3>1. s = N - 1 BY <1>3, <1>4, <2>2
    <3>2. ring' = [ring EXCEPT ![r][s] = b] /\ index' = [index EXCEPT ![r] = NextRound(@)]
      BY <1>3, <2>2 DEF EnsureSpaceFor
    <3>3. DOMAIN index' = Rings /\ index'[r] = NextRound(index[r]) /\ \A q \in Rings : q # r => index'[q] = index[q]
      BY <1>2, <3>2 DEF TypeInv
    <3>4. index'[r] \in {0, N} /\ index'[r] \in 0 .. 2 * N - 1 BY <1>4, <3>3 DEF NextRound
    <3>5. index'[r] % N = 0
      <4>1. N \in Nat /\ N > 0 /\ 0 \in 0 .. 2 * N - 1 /\ N \in 0 .. 2 * N - 1 BY <1>4
      <4>2. 0 % N = Wrap(0, N) /\ N % N = Wrap(N, N) BY <4>1, Wrapped
      <4> QED BY <1>4, <3>4, <4>2 DEF Wrap
    <3>6. \A k \in 0 .. N - 2 : ring[r][k].kind # "empty"
      <4> SUFFICES ASSUME NEW k \in 0 .. N - 2, ring[r][k].kind = "empty" PROVE FALSE OBVIOUS
      <4>1. index[r] <= k BY <1>2, <1>4 DEF TypeInv, Filled
      <4>2. index[r] < N /\ r # CommandRing BY <1>2, <1>4, <4>1, Sizes
      <4>3. s = index[r] BY <4>2 DEF Top
      <4> QED BY <1>2, <1>4, <3>1, <4>1, <4>3
    <3>7. b \in Blocks /\ b.kind = "link"
      <4>1. CycleAt(index[r], N) \in {0, 1} BY DEF CycleAt
      <4> QED BY <4>1 DEF Blocks
    <3> HIDE DEF b, s
    <3>8. \A q \in Rings : \/ index'[q] = index[q] \/ (q = r /\ index[r] = s /\ index'[r] \in 0 .. s + 1)
                           \/ (q = r /\ \A k \in 0 .. N - 1 : k # s => ring[r][k].kind # "empty")
      <4>1. \A k \in 0 .. N - 1 : k # s => ring[r][k].kind # "empty" BY <1>4, <3>1, <3>6
      <4> QED BY <3>3, <4>1
    <3>9. Filled' /\ ring' \in [Rings -> [0 .. N - 1 -> Blocks]]
      <4>1. ASSUME NEW q \in 0 .. s - 1 PROVE ring[r][q].kind # "empty"
        <5>1. q \in 0 .. N - 2 BY <1>4, <3>1
        <5> QED BY <3>6, <5>1
      <4>2. b.kind \in {"request", "link"} /\ b.kind # "request" BY <3>7
      <4> QED BY <1>2, <1>3, <3>1, <3>2, <3>7, <3>8, <4>1, <4>2, WriteTyped
    <3> QED BY <1>1, <1>4, <3>3, <3>4, <3>5, <3>9 DEF RingTypes, EnsureSpaceFor, hardware
  <2> QED BY <2>1, <2>2
<1>6. queue' \in [Rings -> Seq(Clients)] BY <1>5, KeptTyped DEF EnsureSpaceFor
<1>7. IndexTypes'
  <2>1. \A q \in Endpoints : index'[q] \in 0 .. 2 * N - 1 BY <1>1, <1>5, Sizes DEF IndexTypes
  <2>2. index'[CommandRing] = index[CommandRing] BY <1>2, <1>5, Sizes
  <2> QED BY <1>1, <2>1, <2>2 DEF IndexTypes, EnsureSpaceFor, hardware
<1>8. DriverTypes' BY <1>1, <1>2 DEF DriverTypes, EnsureSpaceFor
<1> QED BY <1>2, <1>5, <1>6, <1>7, <1>8, TypeOKIsNext DEF EnsureSpaceFor, TypeInv, hardware

\* Of an event that is handled.
LEMMA TypeHandle == ASSUME TypeInv, Handle PROVE TypeInv'
<1>1. /\ Filled' /\ DOMAIN index' = Rings /\ queue' \in [Rings -> Seq(Clients)]
      /\ RingTypes' /\ DriverTypes /\ IndexTypes
  BY ElsewhereTyped DEF Handle, HandleNothing, HandleCompletion, HandlePortChange, HandleDisconnect,
                        hardware, history
<1>2. CASE HandleNothing
  <2>1. IndexTypes'
    <3>1. E \in Nat /\ E > 0 BY Sizes
    <3>2. eventIndex % E \in 0 .. E - 1 BY <1>1, <3>1, Wrapped DEF IndexTypes
    <3> QED BY <1>1, <1>2, <3>2 DEF IndexTypes, HandleNothing, TellController, hardware
  <2>2. DriverTypes' BY <1>1, <1>2 DEF DriverTypes, HandleNothing, TellController, client, history
  <2> QED BY <1>1, <1>2, <2>1, <2>2, TypeOKIsNext DEF HandleNothing, TypeInv, hardware, client
<1>3. ASSUME NEW n \in DOMAIN callbacks, HandleCompletion(n) PROVE TypeInv'
  <2>1. callbacks[n].who \in Clients /\ n \in 1 .. Len(callbacks) /\ Len(callbacks) \in Nat
    <3> DEFINE T == [addr : Addresses, who : Clients]
    <3>1. callbacks \in Seq(T) BY DEF TypeInv
    <3>2. \A x \in T : x.who \in Clients OBVIOUS
    <3> HIDE DEF T
    <3>3. n \in 1 .. Len(callbacks) /\ Len(callbacks) \in Nat /\ callbacks[n] \in T BY <3>1
    <3> QED BY <3>2, <3>3
  <2>2. IndexTypes' BY <1>1, <1>3 DEF IndexTypes, HandleCompletion, hardware
  <2>3. DriverTypes'
    <3>1. /\ pc' = "running" /\ who' = callbacks[n].who /\ back' = "finish" /\ irq' = FALSE /\ found' = n
          /\ waiting' \subseteq waiting /\ executed' \subseteq executed /\ UNCHANGED <<armed, target, callbacks>>
      BY <1>3 DEF HandleCompletion, Run
    <3>2. found' \in 0 .. Len(callbacks') BY <2>1, <3>1
    <3> QED BY <1>1, <2>1, <3>1, <3>2, Zenon DEF DriverTypes
  <2> QED BY <1>1, <1>3, <2>1, <2>2, <2>3, TypeOKIsNext DEF HandleCompletion, TypeInv, hardware, Run
<1>4. ASSUME NEW c \in Clients, HandlePortChange(c) PROVE TypeInv'
  <2>1. IndexTypes' BY <1>1, <1>4 DEF IndexTypes, HandlePortChange, hardware
  <2>2. DriverTypes' BY <1>1, <1>4 DEF DriverTypes, HandlePortChange, Run, history
  <2> QED BY <1>1, <1>4, <2>1, <2>2, TypeOKIsNext DEF HandlePortChange, TypeInv, hardware, Run
<1>5. CASE HandleDisconnect
  <2>1. IndexTypes' BY <1>1, <1>5 DEF IndexTypes, HandleDisconnect, hardware
  <2>2. DriverTypes' BY <1>1, <1>5 DEF DriverTypes, HandleDisconnect, client, history
  <2> QED BY <1>1, <1>5, <2>1, <2>2, TypeOKIsNext DEF HandleDisconnect, TypeInv, hardware, client
<1> QED BY <1>2, <1>3, <1>4, <1>5 DEF Handle

LEMMA WithoutIs ==
  ASSUME NEW S, callbacks \in Seq(S), NEW n \in DOMAIN callbacks
  PROVE  /\ Without(n) \in Seq(S) /\ Len(callbacks) \in Nat /\ Len(callbacks) > 0
         /\ Len(Without(n)) = Len(callbacks) - 1
         /\ \A i \in 1 .. Len(callbacks) - 1 :
              Without(n)[i] = IF i = n THEN callbacks[Len(callbacks)] ELSE callbacks[i]
<1> DEFINE k == Len(callbacks)
           t == [callbacks EXCEPT ![n] = callbacks[k]]
<1>1. k \in Nat /\ k > 0 /\ n \in 1 .. k /\ \A i \in 1 .. k : callbacks[i] \in S OBVIOUS
<1>2. t \in Seq(S) /\ Len(t) = k BY <1>1
<1>3. \A i \in 1 .. k : t[i] = IF i = n THEN callbacks[k] ELSE callbacks[i] BY <1>1
<1>4. Without(n) = SubSeq(t, 1, k - 1) BY DEF Without
<1> HIDE DEF t, k
<1>5. SubSeq(t, 1, k - 1) = [i \in 1 .. k - 1 |-> t[i]]
  BY <1>1, <1>2
<1>6. \A i \in 1 .. k - 1 : i \in 1 .. k /\ t[i] \in S BY <1>1, <1>2
<1>7. Without(n) \in Seq(S) /\ Len(Without(n)) = k - 1 BY <1>1, <1>4, <1>5, <1>6
<1>8. \A i \in 1 .. k - 1 : Without(n)[i] = IF i = n THEN callbacks[k] ELSE callbacks[i]
  BY <1>3, <1>4, <1>5, <1>6
<1> QED BY <1>1, <1>7, <1>8 DEF k

LEMMA TypeFinish == ASSUME TypeInv, FinishEvent PROVE TypeInv'
<1>1. /\ Filled' /\ DOMAIN index' = Rings /\ queue' \in [Rings -> Seq(Clients)]
      /\ RingTypes' /\ DriverTypes /\ IndexTypes
  BY ElsewhereTyped DEF FinishEvent, hardware, history
<1> DEFINE T == [addr : Addresses, who : Clients]
<1>2. callbacks \in Seq(T) BY DEF TypeInv
<1>3. callbacks' \in Seq(T)
  <2> HIDE DEF T
  <2>1. CASE found = 0 BY <1>2, <2>1 DEF FinishEvent
  <2>2. CASE found # 0
    <3>1. found \in DOMAIN callbacks BY <1>1, <1>2, <2>2 DEF DriverTypes
    <3> QED BY <1>2, <2>2, <3>1, WithoutIs DEF FinishEvent
  <2> QED BY <2>1, <2>2
<1>4. E \in Nat /\ E > 0 /\ eventIndex \in 0 .. 2 * E - 1 BY <1>1, Sizes DEF IndexTypes
<1>5. NextEvent \in 0 .. 2 * E - 1 BY <1>4, Wrapped DEF NextEvent
<1>6. NextEvent % E \in 0 .. E - 1 BY <1>4, <1>5, Wrapped
<1>7. IndexTypes' BY <1>1, <1>5, <1>6 DEF IndexTypes, FinishEvent, TellController, hardware
<1>8. DriverTypes'
  <2>1. Len(callbacks') \in Nat BY <1>3
  <2>2. found' \in 0 .. Len(callbacks') BY <2>1 DEF FinishEvent
  <2> QED BY <1>1, <2>2 DEF DriverTypes, FinishEvent, TellController, client, history
<1> QED BY <1>1, <1>3, <1>7, <1>8, TypeOKIsNext DEF FinishEvent, TypeInv, hardware, client

LEMMA TypeExecute == ASSUME TypeInv, NEW r \in Rings, Execute(r) PROVE TypeInv'
<1>1. RingTypes /\ IndexTypes /\ DriverTypes BY TypeOKIs DEF TypeInv
<1>2. dequeue[r] \in 0 .. N - 1 /\ Block(r).who \in Clients
  <2>1. dequeue[r] \in 0 .. N - 1 BY <1>1, Sizes DEF RingTypes, Execute, IsValid, Valid
  <2> QED BY <2>1 DEF Execute, Block, TypeInv, Filled
<1>3. Filled' BY DEF Execute, TypeInv, Filled
<1>4. RingTypes'
  <2>1. dequeue[r] + 1 \in 0 .. N BY <1>2, Sizes
  <2> QED BY <1>1, <2>1 DEF RingTypes, Execute
<1>5. queue' \in [Rings -> Seq(Clients)] BY <1>3, <1>4, KeptTyped DEF Execute
<1>6. /\ posted' \in 0 .. 2 * E - 1 /\ irq' \in BOOLEAN
      /\ events' \in [0 .. E - 1 -> [addr : Addresses \cup {PortChange, <<>>}, cycle : {0, 1}]]
  <2>1. CASE UNCHANGED <<events, posted, irq>> BY <1>1, <2>1 DEF IndexTypes, DriverTypes, TypeInv
  <2>2. CASE PostEvent(<<r, dequeue[r]>>)
    <3>1. <<r, dequeue[r]>> \in Addresses BY <1>2 DEF Addresses
    <3> QED BY <2>2, <3>1, EventTyped
  <2> QED BY <2>1, <2>2 DEF Execute
<1>7. IndexTypes' BY <1>1, <1>6 DEF IndexTypes, Execute
<1>8. DriverTypes' BY <1>1, <1>2, <1>6 DEF DriverTypes, Execute, client
<1> QED BY <1>3, <1>4, <1>5, <1>6, <1>7, <1>8, TypeOKIsNext DEF Execute, TypeInv, client

LEMMA TypeFollow == ASSUME TypeInv, NEW r \in Rings, FollowLink(r) PROVE TypeInv'
<1>1. RingTypes /\ IndexTypes /\ DriverTypes BY TypeOKIs DEF TypeInv
<1>2. RingTypes'
  <2>1. 1 - consumer[r] \in {0, 1} /\ 0 \in 0 .. N BY <1>1, Sizes, SMTT(30) DEF RingTypes
  <2>2. /\ dequeue' = [dequeue EXCEPT ![r] = 0] /\ consumer' = [consumer EXCEPT ![r] = 1 - consumer[r]]
        /\ ring' = ring
    BY DEF FollowLink
  <2> QED BY <1>1, <2>1, <2>2 DEF RingTypes
<1>3. Filled'
  <2>1. dequeue[r] \in 0 .. N - 1 /\ ring[r][dequeue[r]].kind = "link"
    BY <1>1, Sizes DEF RingTypes, FollowLink, IsValid, Valid, Block
  <2>2. \A s \in 0 .. N - 1 : ring[r][s].kind # "empty" BY <2>1 DEF TypeInv, Filled
  <2>3. \A q \in Rings : q # r => consumer'[q] = consumer[q] BY <1>1 DEF RingTypes, FollowLink
  <2>4. ring' = ring /\ index' = index BY DEF FollowLink
  <2> QED BY <2>2, <2>3, <2>4 DEF TypeInv, Filled
<1>4. queue' \in [Rings -> Seq(Clients)] BY <1>2, <1>3, KeptTyped DEF FollowLink
<1>5. IndexTypes' BY <1>1 DEF IndexTypes, FollowLink
<1>6. DriverTypes' BY <1>1 DEF DriverTypes, FollowLink, client
<1> QED BY <1>2, <1>3, <1>4, <1>5, <1>6, TypeOKIsNext DEF FollowLink, TypeInv, client

LEMMA TypeOther == ASSUME TypeInv, PortChanges \/ OtherInterrupt \/ \E r \in Rings : RunDry(r) PROVE TypeInv'
<1>1. /\ Filled' /\ DOMAIN index' = Rings /\ queue' \in [Rings -> Seq(Clients)]
      /\ RingTypes' /\ DriverTypes /\ IndexTypes
  BY ElsewhereTyped DEF PortChanges, OtherInterrupt, RunDry, hardware, history
<1>2. CASE PortChanges
  <2>1. /\ posted' \in 0 .. 2 * E - 1 /\ irq' \in BOOLEAN
        /\ events' \in [0 .. E - 1 -> [addr : Addresses \cup {PortChange, <<>>}, cycle : {0, 1}]]
    BY <1>2, EventTyped DEF PortChanges
  <2>2. IndexTypes' BY <1>1, <1>2, <2>1, Sizes DEF IndexTypes, PortChanges
  <2>3. DriverTypes' BY <1>1, <1>2, <2>1 DEF DriverTypes, PortChanges, client, history
  <2> QED BY <1>1, <1>2, <2>1, <2>2, <2>3, TypeOKIsNext DEF PortChanges, TypeInv, client
<1>3. CASE OtherInterrupt
  <2>1. IndexTypes' BY <1>1, <1>3 DEF IndexTypes, OtherInterrupt, hardware
  <2>2. DriverTypes' BY <1>1, <1>3 DEF DriverTypes, OtherInterrupt, client, history
  <2> QED BY <1>1, <1>3, <2>1, <2>2, TypeOKIsNext DEF OtherInterrupt, TypeInv, client, hardware
<1>4. ASSUME NEW r \in Rings, RunDry(r) PROVE TypeInv'
  <2>1. IndexTypes' BY <1>1, <1>4 DEF IndexTypes, RunDry, hardware
  <2>2. DriverTypes' BY <1>1, <1>4 DEF DriverTypes, RunDry, client, history
  <2> QED BY <1>1, <1>4, <2>1, <2>2, TypeOKIsNext DEF RunDry, TypeInv, client, hardware
<1> QED BY <1>2, <1>3, <1>4

LEMMA TypeStep == TypeInv /\ [Next]_vars => TypeInv'
<1> SUFFICES ASSUME TypeInv, [Next]_vars PROVE TypeInv' OBVIOUS
<1>1. CASE UNCHANGED vars
  BY <1>1 DEF vars, hardware, history, client, TypeInv, TypeOK, Filled
<1>2. CASE Handle BY <1>2, TypeHandle
<1>3. CASE GoOn
  BY <1>3, TypeStop, TypeRunCommand, TypePlace, TypePublish, TypeEnsure, TypeFinish DEF GoOn
<1>4. CASE \E r \in Rings : Controller(r) BY <1>4, TypeExecute, TypeFollow, TypeOther DEF Controller
<1> QED BY <1>1, <1>2, <1>3, <1>4, TypeStart, TypeOther DEF Next

\* Blocks, callbacks and events are of the kinds the code writes, and what the
\* driver is about to write has its place on a ring.
THEOREM XhciTypeInvariant == Spec => []TypeInv
BY TypeInit, TypeStep, PTL DEF Spec

\* The variables have their types, and what is ahead of the controller are
\* requests of clients.
THEOREM XhciTypeCorrect == Spec => []TypeOK
<1>1. TypeInv => TypeOK BY DEF TypeInv
<1> QED BY <1>1, XhciTypeInvariant, PTL

-----------------------------------------------------------------------------
(* Slots and calls.                                                        *)

LEMMA RingIs ==
  ASSUME TypeInv, NEW r \in Rings
  PROVE  /\ Top(r) \in 0 .. N /\ Side(r) \in {0, 1} /\ dequeue[r] \in 0 .. N /\ consumer[r] \in {0, 1}
         /\ r \in Endpoints => Top(r) \in 0 .. N - 1 /\ Slots(r) = 0 .. N - 2 /\ r # CommandRing
         /\ r \notin Endpoints => r = CommandRing /\ Slots(r) = 0 .. Top(r) - 1 /\ Side(r) = 1
<1>1. RingTypes /\ IndexTypes BY TypeOKIs DEF TypeInv
<1>2. CASE r \in Endpoints
  <2>1. index[r] \in 0 .. 2 * N - 1 /\ r # CommandRing BY <1>1, <1>2, Sizes DEF IndexTypes
  <2>2. Top(r) \in 0 .. N - 1 /\ Side(r) \in {0, 1} BY <1>2, <2>1, SlotIs
  <2> QED BY <1>1, <1>2, <2>1, <2>2, Sizes DEF RingTypes, Slots
<1>3. CASE r \notin Endpoints
  <2>1. r = CommandRing BY <1>3, Sizes
  <2> QED BY <1>1, <1>3, <2>1, Sizes DEF RingTypes, IndexTypes, Top, Side, Slots
<1> QED BY <1>2, <1>3

LEMMA BehindIs ==
  ASSUME TypeInv, NEW r \in Rings
  PROVE  /\ Slots(r) \subseteq 0 .. N - 1
         /\ \A s \in Slots(r) : Behind(r, s) \in 1 .. N
         /\ \A s \in Slots(r) : r \in Endpoints => Behind(r, s) <= N - 1
         /\ \A s, q \in Slots(r) : Behind(r, s) = Behind(r, q) => s = q
<1>1. N \in Nat /\ N > 1 BY Sizes
<1>2. CASE r \in Endpoints
  <2>1. Top(r) \in 0 .. N - 1 /\ Slots(r) = 0 .. N - 2 BY <1>2, RingIs
  <2> QED BY <1>1, <2>1 DEF Behind
<1>3. CASE r \notin Endpoints
  <2>1. Top(r) \in 0 .. N /\ Slots(r) = 0 .. Top(r) - 1 BY <1>3, RingIs
  <2> QED BY <1>1, <1>3, <2>1 DEF Behind
<1> QED BY <1>2, <1>3

LEMMA Ahead1Is ==
  ASSUME TypeInv, Controlling, NEW r \in Rings
  PROVE  /\ Ahead1(r) \in Nat
         /\ r \notin Endpoints => consumer[r] = Side(r)
         /\ consumer[r] = Side(r) => dequeue[r] <= Top(r) /\ Ahead1(r) = Top(r) - dequeue[r]
         /\ consumer[r] # Side(r) => /\ Top(r) <= dequeue[r] /\ dequeue[r] <= N - 1
                                     /\ Ahead1(r) = Top(r) - dequeue[r] + N - 1
<1>1. N \in Nat /\ N > 1 BY Sizes
<1> QED BY <1>1, RingIs DEF Ahead1, Controlling

LEMMA IndexKept ==
  ASSUME NEW r, index'[r] = index[r]
  PROVE  /\ Top(r)' = Top(r) /\ Side(r)' = Side(r) /\ Slots(r)' = Slots(r)
         /\ \A s : Behind(r, s)' = Behind(r, s)
BY DEF Top, Side, Slots, Behind

LEMMA AheadKept ==
  ASSUME NEW r, index'[r] = index[r], dequeue'[r] = dequeue[r], consumer'[r] = consumer[r]
  PROVE  Ahead1(r)' = Ahead1(r)
BY IndexKept DEF Ahead1

LEMMA LiveIs ==
  ASSUME TypeInv, Entries, Requested, NEW x \in Live
  PROVE  /\ x.who \in Clients /\ x.who \in waiting /\ RingOf(x) \in Rings
         /\ SlotOf(x) \in Slots(RingOf(x)) /\ x.addr = <<RingOf(x), SlotOf(x)>>
         /\ RingOf(x) \in Uses[x.who]
         /\ \A y \in Live : x.who = y.who \/ x.addr = y.addr => x = y
         /\ x = [addr |-> x.addr, who |-> x.who]
         /\ x.addr # PortChange
<1> DEFINE T == [addr : Addresses, who : Clients]
<1>1. PICK n \in Active : x = callbacks[n] BY DEF Live
<1>2. x \in T
  <2>1. callbacks \in Seq(T) BY DEF TypeInv
  <2> HIDE DEF T
  <2> QED BY <1>1, <2>1 DEF Active
<1>3. \A y \in Live : x.who = y.who \/ x.addr = y.addr => x = y
  <2> SUFFICES ASSUME NEW y \in Live, x.who = y.who \/ x.addr = y.addr PROVE x = y OBVIOUS
  <2>1. PICK m \in Active : y = callbacks[m] BY DEF Live
  <2> QED BY <1>1, <2>1 DEF Entries
<1>4. x.addr = <<RingOf(x), SlotOf(x)>> /\ SlotOf(x) \in Slots(RingOf(x)) /\ RingOf(x) \in Uses[x.who]
  BY DEF Requested
<1>5. RingOf(x) \in Rings BY <1>2 DEF RingOf, Addresses
<1>6. x.addr # PortChange
  <2>1. Len(<<RingOf(x), SlotOf(x)>>) = 2 /\ Len(PortChange) = 1 BY DEF PortChange
  <2> QED BY <1>4, <2>1
<1> QED BY <1>2, <1>3, <1>4, <1>5, <1>6 DEF Entries

-----------------------------------------------------------------------------
(* What actions leave alone.                                               *)

\* No call is made or answered, and none changes its place.
Settled ==
  /\ Live' = Live /\ executed' = executed
  /\ \A r \in Rings : /\ Slots(r)' = Slots(r) /\ Ahead1(r)' = Ahead1(r)
                      /\ \A s \in Slots(r) : Behind(r, s)' = Behind(r, s)

LEMMA SettledIs ==
  ASSUME UNCHANGED <<index, dequeue, consumer, callbacks, found, executed>>
  PROVE  Settled
<1>1. Live' = Live BY DEF Live, Active
<1>2. \A r \in Rings : index'[r] = index[r] /\ dequeue'[r] = dequeue[r] /\ consumer'[r] = consumer[r]
  OBVIOUS
<1>3. \A r \in Rings : /\ Slots(r)' = Slots(r) /\ Ahead1(r)' = Ahead1(r)
                       /\ \A s \in Slots(r) : Behind(r, s)' = Behind(r, s)
  BY <1>2, IndexKept, AheadKept, Zenon
<1> QED BY <1>1, <1>3 DEF Settled

LEMMA SettledAges ==
  ASSUME TypeInv, Entries, Requested, Settled, NEW x \in Live
  PROVE  Age(x)' = Age(x) /\ Executed(x)' = Executed(x) /\ RingOf(x)' = RingOf(x)
<1>1. RingOf(x) \in Rings /\ SlotOf(x) \in Slots(RingOf(x)) BY LiveIs
<1>2. Age(x)' = Age(x) BY <1>1 DEF Settled, Age, RingOf, SlotOf
<1>3. Ahead1(RingOf(x))' = Ahead1(RingOf(x)) BY <1>1 DEF Settled, RingOf
<1> QED BY <1>2, <1>3 DEF Executed, RingOf

LEMMA CallsKept ==
  ASSUME RingsInv, Settled,
         \A x \in Live : ring'[RingOf(x)][SlotOf(x)] = ring[RingOf(x)][SlotOf(x)]
  PROVE  Requested' /\ Unexecuted'
<1>1. TypeInv /\ Entries /\ Requested /\ Unexecuted /\ Live' = Live /\ executed' = executed
  BY DEF RingsInv, Settled
<1>2. Requested'
  <2>1. ASSUME NEW x \in Live
        PROVE  /\ x.addr = <<RingOf(x), SlotOf(x)>> /\ RingOf(x) \in Uses[x.who]
               /\ SlotOf(x) \in Slots(RingOf(x))'
               /\ \A s \in Slots(RingOf(x))' : Behind(RingOf(x), s)' <= Age(x)' =>
                    \E y \in Live : y.addr = <<RingOf(x), s>>
    <3>1. RingOf(x) \in Rings /\ SlotOf(x) \in Slots(RingOf(x)) /\ Age(x)' = Age(x)
      BY <1>1, LiveIs, SettledAges
    <3>2. Slots(RingOf(x))' = Slots(RingOf(x)) BY <3>1 DEF Settled, RingOf
    <3>3. ASSUME NEW s \in Slots(RingOf(x)) PROVE Behind(RingOf(x), s)' = Behind(RingOf(x), s)
      BY <3>1 DEF Settled, RingOf
    <3> QED BY <1>1, <3>1, <3>2, <3>3 DEF Requested
  <2> QED BY <1>1, <2>1 DEF Requested, RingOf, SlotOf, Age
<1>3. Unexecuted'
  <2>1. ASSUME NEW r \in Rings, NEW s \in Slots(r)', Behind(r, s)' <= Ahead1(r)'
        PROVE  \E y \in Live' : y.addr = <<r, s>>
    BY <1>1, <2>1 DEF Settled, Unexecuted
  <2>2. ASSUME NEW x \in Live', (Age(x) <= Ahead1(RingOf(x)))'
        PROVE  LET trb == ring[RingOf(x)][SlotOf(x)] IN
               trb'.kind = "request" /\ trb'.who = x.who /\ trb'.ioc /\ x.who \notin executed'
    <3>1. x \in Live BY <1>1
    <3>2. Age(x)' = Age(x) /\ RingOf(x) \in Rings BY <1>1, <3>1, LiveIs, SettledAges
    <3>3. Ahead1(RingOf(x))' = Ahead1(RingOf(x)) BY <3>2 DEF Settled, RingOf
    <3>4. Age(x) <= Ahead1(RingOf(x)) BY <2>2, <3>2, <3>3
    <3>5. ring'[RingOf(x)][SlotOf(x)] = ring[RingOf(x)][SlotOf(x)] BY <3>1
    <3> QED BY <1>1, <3>1, <3>4, <3>5 DEF Unexecuted, RingOf, SlotOf
  <2> QED BY <2>1, <2>2 DEF Unexecuted, RingOf, SlotOf
<1> QED BY <1>2, <1>3

\* No event is posted, and none but a port's is handled.
LEMMA TellingKept ==
  ASSUME RingsInv, Settled, UNCHANGED <<events, posted>>, Pending' \subseteq Pending,
         \A e \in Pending : e \in Pending' \/ events[e].addr = PortChange
  PROVE  Answered' /\ Telling'
<1>1. TypeInv /\ Entries /\ Requested /\ Answered /\ Telling /\ Live' = Live /\ executed' = executed
  BY DEF RingsInv, Settled
<1>2. \A x \in Live : /\ Age(x)' = Age(x) /\ Executed(x)' = Executed(x) /\ RingOf(x)' = RingOf(x)
                      /\ x.addr # PortChange
  BY <1>1, SettledAges, LiveIs
<1>3. Answered'
  <2>1. ASSUME NEW x \in Live', Executed(x)'
        PROVE  x.who \in executed' /\ \E e \in Pending' : events'[e].addr = x.addr
    <3>1. x \in Live /\ Executed(x) BY <1>1, <1>2, <2>1
    <3>2. PICK e \in Pending : events[e].addr = x.addr BY <1>1, <3>1 DEF Answered
    <3>3. e \in Pending' BY <1>2, <3>1, <3>2
    <3> QED BY <1>1, <3>1, <3>2, <3>3 DEF Answered
  <2>2. ASSUME NEW c \in executed' PROVE \E x \in Live' : x.who = c /\ Executed(x)'
    BY <1>1, <1>2 DEF Answered
  <2> QED BY <2>1, <2>2 DEF Answered
<1>4. Telling'
  <2>1. \A e : Time(e)' = Time(e) BY DEF Time, Past
  <2>2. ASSUME NEW e \in Pending'
        PROVE  events'[e].addr = PortChange \/ \E x \in Live' : events'[e].addr = x.addr /\ Executed(x)'
    BY <1>1, <1>2 DEF Telling
  <2>3. ASSUME NEW e \in Pending', NEW f \in Pending', NEW x \in Live', NEW y \in Live',
               events'[e].addr = x.addr, events'[f].addr = y.addr, RingOf(x)' = RingOf(y)',
               Time(e)' < Time(f)'
        PROVE  Age(y)' < Age(x)'
    <3>1. Age(y) < Age(x) BY <1>1, <1>2, <2>1, <2>3 DEF Telling
    <3> QED BY <1>1, <1>2, <3>1
  <2> QED BY <2>2, <2>3 DEF Telling
<1> QED BY <1>3, <1>4

LEMMA RoundsKept ==
  ASSUME Rounds, Controlling, UNCHANGED <<ring, index, dequeue, consumer>>,
         \A r \in Rings : Placed(r)' = Placed(r)
  PROVE  /\ Rounds' /\ Controlling'
         /\ \A r \in Rings : Listed(r)' = Listed(r)
<1>1. \A r : Top(r)' = Top(r) /\ Side(r)' = Side(r) BY IndexKept
<1>2. \A r \in Rings : Written(r)' = Written(r) BY <1>1 DEF Written
<1>3. Rounds' BY <1>1, <1>2 DEF Rounds
<1>4. Controlling' BY <1>1 DEF Controlling
<1>5. \A r \in Rings : Listed(r)' = Listed(r)
  <2>1. \A r \in Rings : \A i : Nth(r, i)' = Nth(r, i) BY <1>1 DEF Nth
  <2>2. \A r \in Rings : Depth(r)' = Depth(r) BY <1>1, <1>2 DEF Depth
  <2> QED BY <2>1, <2>2 DEF Listed
<1> QED BY <1>3, <1>4, <1>5

LEMMA EventIs ==
  ASSUME TypeInv
  PROVE  /\ E \in Nat /\ E > 0 /\ First \in 0 .. E - 1 /\ Past \in 0 .. E - 1
         /\ eventIndex % E = First /\ posted % E = Past
         /\ Event = events[First]
         /\ CycleAt(eventIndex, E) \in {0, 1} /\ CycleAt(posted, E) \in {0, 1}
<1>1. E \in Nat /\ E > 0 BY Sizes
<1>2. eventIndex \in 0 .. 2 * E - 1 /\ posted \in 0 .. 2 * E - 1 BY TypeOKIs DEF TypeInv, IndexTypes
<1>3. /\ eventIndex % E = First /\ First \in 0 .. E - 1 /\ CycleAt(eventIndex, E) \in {0, 1}
      /\ posted % E = Past /\ Past \in 0 .. E - 1 /\ CycleAt(posted, E) \in {0, 1}
  BY <1>1, <1>2, Wrapped DEF First, Past
<1> QED BY <1>1, <1>3 DEF Event

\* An event is new to the driver exactly if it was posted since.
LEMMA NewIs ==
  ASSUME TypeInv, EventRounds, Apart
  PROVE  /\ IsNew <=> eventIndex # posted
         /\ eventIndex # posted => First \in Unhandled
<1>1. eventIndex \in 0 .. 2 * E - 1 /\ posted \in 0 .. 2 * E - 1 BY TypeOKIs DEF TypeInv, IndexTypes
<1>2. events[First].cycle = IF First < Past THEN CycleAt(posted, E) ELSE 1 - CycleAt(posted, E)
  BY EventIs DEF EventRounds
<1>3. IsNew <=> events[First].cycle = CycleAt(eventIndex, E) BY EventIs DEF IsNew
<1>4. CASE SameRound
  <2>1. First <= Past BY <1>4 DEF Apart
  <2>2. First = Past <=> eventIndex = posted
    BY <1>1, <1>4, EventIs DEF SameRound, CycleAt, First, Past, Wrap
  <2>3. First < Past <=> eventIndex # posted BY <2>1, <2>2, EventIs
  <2>4. IsNew <=> First < Past BY <1>2, <1>3, <1>4, EventIs DEF SameRound
  <2> QED BY <1>4, <2>3, <2>4, EventIs DEF Unhandled
<1>5. CASE ~SameRound
  <2>1. Past < First BY <1>5 DEF Apart
  <2>2. eventIndex # posted BY <1>5 DEF SameRound
  <2>3. IsNew BY <1>2, <1>3, <1>5, <2>1, EventIs DEF SameRound
  <2> QED BY <1>5, <2>2, <2>3, EventIs DEF Unhandled
<1> QED BY <1>4, <1>5

\* Of an action that makes no call and handles at most a port's event.
LEMMA QuietKept ==
  ASSUME RingsInv, TypeInv', Driving',
         UNCHANGED <<ring, index, dequeue, consumer, callbacks, found, waiting, executed, queue,
                     events, posted, eventIndex>>,
         erdp' = First, (pc # "publish" /\ pc' # "publish") \/ UNCHANGED <<pc, target>>,
         Handling => Handling',
         Handling' /\ ~Handling => eventIndex # posted /\ events[First].addr = PortChange
  PROVE  RingsInv'
<1>1. /\ TypeInv /\ Rounds /\ Controlling /\ Entries /\ Requested /\ Unexecuted /\ EventRounds
      /\ Apart /\ Answered /\ Telling /\ Driving /\ Queued
  BY DEF RingsInv
<1>2. Rounds' /\ Controlling' /\ \A r \in Rings : Listed(r)' = Listed(r)
  <2>1. \A r \in Rings : Placed(r)' = Placed(r) BY DEF Placed
  <2> QED BY <1>1, <2>1, RoundsKept
<1>3. Settled BY SettledIs
<1>4. Requested' /\ Unexecuted' BY <1>3, CallsKept
<1>5. Entries' BY <1>1 DEF Entries, Live, Active
<1>6. EventRounds' BY <1>1 DEF EventRounds, Past
<1>7. Apart' BY <1>1 DEF Apart, SameRound, First, Past
<1>8. Answered' /\ Telling'
  <2>1. Unhandled' = Unhandled BY DEF Unhandled, SameRound, First, Past
  <2>2. First' = First BY DEF First
  <2>3. Pending' \subseteq Pending BY <2>1, <2>2 DEF Pending
  <2>4. \A e \in Pending : e \in Pending' \/ events[e].addr = PortChange BY <2>1, <2>2 DEF Pending
  <2> QED BY <1>3, <2>3, <2>4, TellingKept
<1>9. Queued' BY <1>1, <1>2 DEF Queued
<1> QED BY <1>2, <1>4, <1>5, <1>6, <1>7, <1>8, <1>9 DEF RingsInv

LEMMA StartKept == ASSUME RingsInv, TypeInv', NEW c \in Clients, Start(c) PROVE RingsInv'
<1>1. Driving /\ Apart BY DEF RingsInv
<1>2. Driving' BY <1>1 DEF Driving, Start, Run, Handling
<1>3. Handling' = Handling BY <1>1 DEF Driving, Start, Run, Handling
<1> QED BY <1>1, <1>2, <1>3, QuietKept DEF Start, Run, hardware, history, Apart

LEMMA StopKept == ASSUME RingsInv, TypeInv', Stop PROVE RingsInv'
<1>1. Driving /\ Apart /\ back \in {"idle", "finish"} BY TypeOKIs DEF RingsInv, TypeInv, DriverTypes
<1>2. Driving' BY <1>1 DEF Driving, Stop, Return, Handling
<1>3. Handling' = Handling BY <1>1 DEF Driving, Stop, Return, Handling
<1> QED BY <1>1, <1>2, <1>3, QuietKept DEF Stop, Return, hardware, history, Apart

LEMMA NothingKept == ASSUME RingsInv, TypeInv', HandleNothing PROVE RingsInv'
<1>1. Driving /\ Apart /\ TypeInv BY DEF RingsInv
<1>2. erdp' = First BY <1>1, EventIs DEF HandleNothing, TellController
<1>3. Driving' BY <1>1 DEF Driving, HandleNothing, client, Handling
<1>4. Handling' = Handling BY DEF HandleNothing, client, Handling
<1> QED BY <1>2, <1>3, <1>4, QuietKept DEF HandleNothing, hardware, history, client

LEMMA PortKept ==
  ASSUME RingsInv, TypeInv', HandleDisconnect \/ \E c \in Clients : HandlePortChange(c)
  PROVE  RingsInv'
<1>1. Driving /\ Apart /\ TypeInv /\ EventRounds BY DEF RingsInv
<1>2. eventIndex # posted /\ events[First].addr = PortChange
  BY <1>1, NewIs, EventIs DEF HandleDisconnect, HandlePortChange
<1>3. CASE HandleDisconnect
  <2>1. Driving' BY <1>1, <1>3 DEF Driving, HandleDisconnect, client, Handling
  <2>2. Handling' BY <1>3 DEF HandleDisconnect, Handling
  <2> QED BY <1>1, <1>2, <1>3, <2>1, <2>2, QuietKept DEF HandleDisconnect, hardware, history, client, Apart
<1>4. ASSUME NEW c \in Clients, HandlePortChange(c) PROVE RingsInv'
  <2>1. Driving' BY <1>1, <1>4 DEF Driving, HandlePortChange, Run, Handling
  <2>2. Handling' BY <1>4 DEF HandlePortChange, Run, Handling
  <2> QED BY <1>1, <1>2, <1>4, <2>1, <2>2, QuietKept DEF HandlePortChange, Run, hardware, history, Apart
<1> QED BY <1>3, <1>4

LEMMA IdleKept ==
  ASSUME RingsInv, TypeInv', OtherInterrupt \/ UNCHANGED vars \/ \E r \in Rings : RunDry(r)
  PROVE  RingsInv'
<1>1. Driving /\ Apart BY DEF RingsInv
<1>2. UNCHANGED <<ring, index, hardware, erdp, eventIndex, callbacks, pc, client, found, history>>
  BY DEF OtherInterrupt, vars, RunDry
<1>3. Driving' BY <1>1, <1>2 DEF Driving, client, Handling, Live, Top
<1>4. Handling' = Handling BY <1>2 DEF client, Handling
<1> QED BY <1>1, <1>2, <1>3, <1>4, QuietKept DEF hardware, history, client, Apart

\* An event posted is the last that is pending.
LEMMA PostIs ==
  ASSUME TypeInv, EventRounds, Apart, NEW addr, PostEvent(addr), UNCHANGED <<eventIndex, erdp, pc, back>>,
         NEW p, p = Past
  PROVE  /\ EventRounds' /\ Apart'
         /\ Pending' = Pending \cup {p} /\ p \notin Pending /\ Pending \subseteq 0 .. E - 1
         /\ events'[p].addr = addr
         /\ \A e \in Pending : events'[e] = events[e] /\ Time(e)' < Time(p)'
         /\ \A e, f \in Pending : Time(e)' < Time(f)' => Time(e) < Time(f)
<1>1. /\ E \in Nat /\ E > 0 /\ First \in 0 .. E - 1 /\ Past \in 0 .. E - 1 /\ posted % E = Past
      /\ CycleAt(eventIndex, E) \in {0, 1} /\ CycleAt(posted, E) \in {0, 1}
  BY EventIs
<1>2. posted \in 0 .. 2 * E - 1 /\ eventIndex \in 0 .. 2 * E - 1 BY TypeOKIs DEF TypeInv, IndexTypes
<1>3. posted' = IF posted + 1 = 2 * E THEN 0 ELSE posted + 1 BY <1>1, <1>2, Wrapped DEF PostEvent
<1>4. /\ Past' = IF Past + 1 = E THEN 0 ELSE Past + 1
      /\ CycleAt(posted', E) = IF Past + 1 = E THEN 1 - CycleAt(posted, E) ELSE CycleAt(posted, E)
  BY <1>1, <1>2, <1>3 DEF Past, Wrap, CycleAt
<1>5. Past' # First
  <2>1. (posted + 1) % E = Past'
    <3>1. CASE posted + 1 = 2 * E
      <4>1. (2 * E) % E = 0 BY <1>1
      <4> QED BY <1>1, <1>3, <3>1, <4>1 DEF Past, Wrap
    <3>2. CASE posted + 1 # 2 * E
      <4>1. posted + 1 \in 0 .. 2 * E - 1 BY <1>1, <1>2, <3>2
      <4>2. (posted + 1) % E = Wrap(posted + 1, E) BY <1>1, <4>1, Wrapped
      <4> QED BY <1>3, <3>2, <4>2 DEF Past
    <3> QED BY <3>1, <3>2
  <2> QED BY <2>1 DEF PostEvent, Apart
<1>6. /\ events' = [events EXCEPT ![Past] = [addr |-> addr, cycle |-> CycleAt(posted, E)]]
      /\ DOMAIN events = 0 .. E - 1
  BY <1>1 DEF PostEvent, TypeInv
<1>7. /\ events'[Past] = [addr |-> addr, cycle |-> CycleAt(posted, E)]
      /\ \A e \in 0 .. E - 1 : e # Past => events'[e] = events[e]
  BY <1>1, <1>6
<1>8. EventRounds'
  <2> SUFFICES ASSUME NEW e \in 0 .. E - 1
               PROVE events'[e].cycle = IF e < Past' THEN CycleAt(posted', E) ELSE 1 - CycleAt(posted', E)
    BY DEF EventRounds
  <2>1. CASE e = Past BY <1>1, <1>4, <1>7, <2>1
  <2>2. CASE e # Past
    <3>1. events'[e].cycle = IF e < Past THEN CycleAt(posted, E) ELSE 1 - CycleAt(posted, E)
      BY <1>7, <2>2 DEF EventRounds
    <3> QED BY <1>1, <1>4, <2>2, <3>1
  <2> QED BY <2>1, <2>2
<1>9. First' = First /\ Handling' = Handling /\ CycleAt(eventIndex', E) = CycleAt(eventIndex, E)
  BY DEF First, Handling
<1>10. SameRound => (SameRound' <=> Past + 1 # E) BY <1>1, <1>4, <1>9 DEF SameRound
<1>11. ~SameRound => ~SameRound' /\ Past + 1 # E
  BY <1>1, <1>4, <1>9 DEF SameRound, Apart
<1>12. Apart'
  <2>1. IF SameRound' THEN First' <= Past' ELSE Past' < First'
    <3>1. CASE SameRound BY <1>1, <1>4, <1>5, <1>9, <1>10, <3>1 DEF Apart
    <3>2. CASE ~SameRound BY <1>1, <1>4, <1>5, <1>9, <1>11, <3>2 DEF Apart
    <3> QED BY <3>1, <3>2
  <2>2. erdp' = First' BY <1>9 DEF Apart
  <2>3. Handling' => eventIndex' # posted'
    <3>1. posted' # eventIndex' BY <1>5, <1>9 DEF Past, First
    <3> QED BY <3>1
  <2> QED BY <2>1, <2>2, <2>3 DEF Apart
<1>13. Past \notin Unhandled /\ Unhandled' = Unhandled \cup {Past}
  <2>1. Past \notin Unhandled BY <1>1 DEF Unhandled, Apart
  <2>2. ASSUME NEW e \in 0 .. E - 1
        PROVE  e \in Unhandled' <=> e \in Unhandled \/ e = Past
    <3>1. CASE SameRound BY <1>1, <1>4, <1>9, <1>10, <3>1 DEF Unhandled, Apart
    <3>2. CASE ~SameRound BY <1>1, <1>4, <1>9, <1>11, <3>2 DEF Unhandled, Apart
    <3> QED BY <3>1, <3>2
  <2>3. Unhandled \subseteq 0 .. E - 1 /\ Unhandled' \subseteq 0 .. E - 1 BY DEF Unhandled
  <2> QED BY <1>1, <2>1, <2>2, <2>3
<1>14. Handling => Past # First
  <2>1. CASE SameRound
    <3>1. First = Past => eventIndex = posted
      BY <1>1, <1>2, <2>1 DEF SameRound, CycleAt, First, Past, Wrap
    <3> QED BY <3>1 DEF Apart
  <2>2. CASE ~SameRound BY <1>1, <2>2 DEF Apart
  <2> QED BY <2>1, <2>2
<1>15. Pending' = Pending \cup {Past} /\ Past \notin Pending /\ Pending \subseteq 0 .. E - 1
  BY <1>9, <1>13, <1>14 DEF Pending, Unhandled
<1>16. \A e \in Pending : Time(e)' < Time(p)'
  <2>1. Time(p)' = IF Past + 1 = E THEN Past ELSE Past + E BY <1>1, <1>4 DEF Time
  <2>2. \A e \in 0 .. E - 1 : Time(e)' = IF e < Past' THEN e + E ELSE e BY DEF Time
  <2> QED BY <1>1, <1>4, <1>15, <2>1, <2>2
<1>17. \A e, f \in Pending : Time(e)' < Time(f)' => Time(e) < Time(f)
  <2>1. \A e \in Pending : e \in 0 .. E - 1 /\ e # Past BY <1>15
  <2>2. \A e \in Pending : Time(e) = (IF e < Past THEN e + E ELSE e)
                          /\ Time(e)' = (IF e < Past' THEN e + E ELSE e)
    BY DEF Time
  <2> QED BY <1>1, <1>4, <2>1, <2>2
<1> QED BY <1>7, <1>8, <1>12, <1>15, <1>16, <1>17

LEMMA PortChangesKept == ASSUME RingsInv, TypeInv', PortChanges PROVE RingsInv'
<1>1. /\ TypeInv /\ Rounds /\ Controlling /\ Entries /\ Requested /\ Unexecuted /\ EventRounds
      /\ Apart /\ Answered /\ Telling /\ Driving /\ Queued
  BY DEF RingsInv
<1>2. UNCHANGED <<ring, index, dequeue, consumer, erdp, eventIndex, callbacks, pc, client, found, history>>
  BY DEF PortChanges
<1>3. PICK p : p = Past OBVIOUS
<1>4. /\ EventRounds' /\ Apart'
      /\ Pending' = Pending \cup {p} /\ p \notin Pending /\ Pending \subseteq 0 .. E - 1
      /\ events'[p].addr = PortChange
      /\ \A e \in Pending : events'[e] = events[e] /\ Time(e)' < Time(p)'
      /\ \A e, f \in Pending : Time(e)' < Time(f)' => Time(e) < Time(f)
  BY <1>1, <1>2, <1>3, PostIs DEF PortChanges, client
<1>5. Rounds' /\ Controlling' /\ \A r \in Rings : Listed(r)' = Listed(r)
  <2>1. \A r \in Rings : Placed(r)' = Placed(r) BY <1>2 DEF Placed, client
  <2> QED BY <1>1, <1>2, <2>1, RoundsKept
<1>6. Settled BY <1>2, SettledIs DEF history
<1>7. Requested' /\ Unexecuted' BY <1>2, <1>6, CallsKept
<1>8. Entries' BY <1>1, <1>2 DEF Entries, Live, Active, client
<1>9. Queued' BY <1>1, <1>2, <1>5 DEF Queued, history
<1>10. Driving' BY <1>1, <1>2 DEF Driving, client, Handling, Live, Top
<1>11. Live' = Live /\ executed' = executed BY <1>6 DEF Settled
<1>12. \A x \in Live : /\ Age(x)' = Age(x) /\ Executed(x)' = Executed(x) /\ RingOf(x)' = RingOf(x)
                       /\ x.addr # PortChange
  BY <1>1, <1>6, SettledAges, LiveIs
<1>13. Answered'
  <2>1. ASSUME NEW x \in Live', Executed(x)'
        PROVE  x.who \in executed' /\ \E e \in Pending' : events'[e].addr = x.addr
    <3>1. x \in Live /\ Executed(x) BY <1>11, <1>12, <2>1
    <3>2. PICK e \in Pending : events[e].addr = x.addr BY <1>1, <3>1 DEF Answered
    <3>3. e \in Pending' /\ events'[e] = events[e] BY <1>4
    <3> QED BY <1>1, <1>11, <3>1, <3>2, <3>3 DEF Answered
  <2>2. ASSUME NEW c \in executed' PROVE \E x \in Live' : x.who = c /\ Executed(x)'
    BY <1>1, <1>11, <1>12 DEF Answered
  <2> QED BY <2>1, <2>2 DEF Answered
<1>14. Telling'
  <2>1. ASSUME NEW e \in Pending'
        PROVE  events'[e].addr = PortChange \/ \E x \in Live' : events'[e].addr = x.addr /\ Executed(x)'
    <3>1. CASE e = p BY <1>4, <3>1
    <3>2. CASE e # p
      <4>1. e \in Pending /\ events'[e] = events[e] BY <1>4, <3>2
      <4> QED BY <1>1, <1>11, <1>12, <4>1 DEF Telling
    <3> QED BY <3>1, <3>2
  <2>2. ASSUME NEW e \in Pending', NEW f \in Pending', NEW x \in Live', NEW y \in Live',
               events'[e].addr = x.addr, events'[f].addr = y.addr, RingOf(x)' = RingOf(y)',
               Time(e)' < Time(f)'
        PROVE  Age(y)' < Age(x)'
    <3>1. x \in Live /\ y \in Live BY <1>11
    <3>2. e # p /\ f # p BY <1>4, <1>12, <2>2, <3>1
    <3>3. /\ e \in Pending /\ f \in Pending /\ events[e].addr = x.addr /\ events[f].addr = y.addr
          /\ Time(e) < Time(f)
      BY <1>4, <2>2, <3>2
    <3>4. Age(y) < Age(x) BY <1>1, <1>12, <2>2, <3>1, <3>3 DEF Telling
    <3> QED BY <1>12, <3>1, <3>4
  <2> QED BY <2>1, <2>2 DEF Telling
<1> QED BY <1>4, <1>5, <1>7, <1>8, <1>9, <1>10, <1>13, <1>14 DEF RingsInv

LEMMA FinishKept == ASSUME RingsInv, TypeInv', FinishEvent PROVE RingsInv'
<1>1. /\ TypeInv /\ Rounds /\ Controlling /\ Entries /\ Requested /\ Unexecuted /\ EventRounds
      /\ Apart /\ Answered /\ Telling /\ Driving /\ Queued
  BY DEF RingsInv
<1>2. UNCHANGED <<ring, index, hardware, client, history>> /\ pc = "finish" /\ pc' = "idle" /\ found' = 0
  BY DEF FinishEvent
<1> DEFINE T == [addr : Addresses, who : Clients]
<1>3. callbacks \in Seq(T) /\ Len(callbacks) \in Nat /\ found \in 0 .. Len(callbacks)
  BY <1>1, TypeOKIs DEF TypeInv, DriverTypes
<1>4. Entries' /\ Live' = Live
  <2>1. CASE found = 0
    <3>1. callbacks' = callbacks BY <2>1 DEF FinishEvent
    <3>2. Active' = Active BY <1>2, <2>1, <3>1 DEF Active
    <3>3. Live' = Live BY <3>1, <3>2 DEF Live
    <3> QED BY <1>1, <1>2, <3>1, <3>2, <3>3 DEF Entries, client
  <2>2. CASE found # 0
    <3> DEFINE k == Len(callbacks)
    <3>1. callbacks' = Without(found) /\ found \in DOMAIN callbacks BY <1>3, <2>2 DEF FinishEvent
    <3> HIDE DEF T
    <3>2. /\ Len(callbacks') = k - 1 /\ callbacks' \in Seq(T) /\ k > 0
          /\ \A i \in 1 .. k - 1 : callbacks'[i] = IF i = found THEN callbacks[k] ELSE callbacks[i]
      BY <1>3, <3>1, WithoutIs
    <3>3. DOMAIN callbacks' = 1 .. k - 1 /\ DOMAIN callbacks = 1 .. k BY <1>3, <3>2
    <3>4. Active' = 1 .. k - 1 /\ Active = 1 .. k \ {found}
      <4>1. 0 \notin 1 .. k - 1 OBVIOUS
      <4> QED BY <1>2, <3>3, <4>1 DEF Active
    <3> DEFINE at == [i \in 1 .. k - 1 |-> IF i = found THEN k ELSE i]
    <3>5. \A i \in Active' : at[i] \in Active /\ callbacks'[i] = callbacks[at[i]]
      BY <1>3, <3>1, <3>2, <3>3, <3>4
    <3>6. \A i, j \in Active' : i # j => at[i] # at[j] BY <1>3, <3>4
    <3>7. \A m \in Active : \E i \in Active' : at[i] = m
      <4> SUFFICES ASSUME NEW m \in Active PROVE \E i \in Active' : at[i] = m OBVIOUS
      <4>1. CASE m = k /\ found # k
        <5>1. found \in Active' /\ at[found] = k BY <1>3, <3>1, <3>3, <3>4, <4>1
        <5> QED BY <4>1, <5>1
      <4>2. CASE m # k
        <5>1. m \in Active' /\ at[m] = m BY <1>3, <3>4, <4>2
        <5> QED BY <5>1
      <4>3. m # k \/ found # k BY <3>4
      <4> QED BY <4>1, <4>2, <4>3
    <3> HIDE DEF at
    <3>8. Live' = Live
      <4>1. \A x \in Live' : x \in Live BY <3>5 DEF Live
      <4>2. ASSUME NEW x \in Live PROVE x \in Live'
        <5>1. PICK m \in Active : x = callbacks[m] BY DEF Live
        <5>2. PICK i \in Active' : at[i] = m BY <3>7
        <5>3. callbacks'[i] = x BY <3>5, <5>1, <5>2
        <5> QED BY <5>3 DEF Live
      <4> QED BY <4>1, <4>2
    <3>9. \A i, j \in Active' : i # j => /\ callbacks'[i].who # callbacks'[j].who
                                         /\ callbacks'[i].addr # callbacks'[j].addr
      BY <1>1, <3>5, <3>6 DEF Entries
    <3> QED BY <1>1, <1>2, <3>8, <3>9 DEF Entries, client
  <2> QED BY <2>1, <2>2
<1>5. Rounds' /\ Controlling' /\ \A r \in Rings : Listed(r)' = Listed(r)
  <2>1. \A r \in Rings : Placed(r)' = Placed(r) BY <1>2 DEF Placed
  <2> QED BY <1>1, <1>2, <2>1, RoundsKept DEF hardware
<1>6. Settled
  <2>1. \A r \in Rings : index'[r] = index[r] /\ dequeue'[r] = dequeue[r] /\ consumer'[r] = consumer[r]
    BY <1>2 DEF hardware
  <2>2. \A r \in Rings : /\ Slots(r)' = Slots(r) /\ Ahead1(r)' = Ahead1(r)
                         /\ \A s \in Slots(r) : Behind(r, s)' = Behind(r, s)
    BY <2>1, IndexKept, AheadKept, Zenon
  <2> QED BY <1>2, <1>4, <2>2 DEF Settled, history
<1>7. Requested' /\ Unexecuted' BY <1>2, <1>6, CallsKept
<1>8. E \in Nat /\ E > 0 /\ eventIndex \in 0 .. 2 * E - 1 /\ posted \in 0 .. 2 * E - 1 /\ eventIndex # posted
  BY <1>1, <1>2, Sizes, TypeOKIs DEF TypeInv, IndexTypes, Apart, Handling
<1>9. eventIndex' = (IF eventIndex + 1 = 2 * E THEN 0 ELSE eventIndex + 1) /\ eventIndex' = NextEvent
  BY <1>8, Wrapped DEF FinishEvent, NextEvent
<1>10. /\ First' = IF First + 1 = E THEN 0 ELSE First + 1
       /\ CycleAt(eventIndex', E) = IF First + 1 = E THEN 1 - CycleAt(eventIndex, E) ELSE CycleAt(eventIndex, E)
  BY <1>8, <1>9 DEF First, Wrap, CycleAt
<1>11. Past' = Past /\ posted' = posted /\ CycleAt(posted', E) = CycleAt(posted, E) /\ events' = events
  BY <1>2 DEF Past, hardware
<1>12. /\ First \in 0 .. E - 1 /\ Past \in 0 .. E - 1
       /\ CycleAt(eventIndex, E) \in {0, 1} /\ CycleAt(posted, E) \in {0, 1}
  BY <1>1, EventIs
<1>13. SameRound => First < Past
  <2>1. SameRound => First # Past
    BY <1>8 DEF SameRound, CycleAt, First, Past, Wrap
  <2> QED BY <1>1, <1>12, <2>1 DEF Apart
<1>14. SameRound => SameRound' /\ First + 1 # E BY <1>8, <1>10, <1>11, <1>12, <1>13 DEF SameRound
<1>15. ~SameRound => (SameRound' <=> First + 1 = E) BY <1>8, <1>10, <1>11, <1>12 DEF SameRound
<1>16. ~Handling' BY <1>1, <1>2 DEF Handling, Driving, client
<1>17. Apart'
  <2>1. IF SameRound' THEN First' <= Past' ELSE Past' < First'
    <3>1. CASE SameRound BY <1>8, <1>10, <1>11, <1>12, <1>13, <1>14, <3>1
    <3>2. CASE ~SameRound BY <1>1, <1>8, <1>10, <1>11, <1>12, <1>15, <3>2 DEF Apart
    <3> QED BY <3>1, <3>2
  <2>2. erdp' = First'
    <3>1. NextEvent \in 0 .. 2 * E - 1 BY <1>8, Wrapped DEF NextEvent
    <3>2. NextEvent % E = Wrap(NextEvent, E) BY <1>8, <3>1, Wrapped
    <3> QED BY <1>9, <3>2 DEF FinishEvent, TellController, First
  <2> QED BY <1>16, <2>1, <2>2 DEF Apart
<1>18. Pending' = Pending
  <2>1. ASSUME NEW e \in 0 .. E - 1 PROVE e \in Unhandled' <=> e \in Unhandled /\ e # First
    <3>1. CASE SameRound BY <1>8, <1>10, <1>11, <1>12, <1>13, <1>14, <3>1 DEF Unhandled
    <3>2. CASE ~SameRound BY <1>1, <1>8, <1>10, <1>11, <1>12, <1>15, <3>2 DEF Unhandled, Apart
    <3> QED BY <3>1, <3>2
  <2>2. Handling BY <1>2 DEF Handling
  <2>3. Unhandled \subseteq 0 .. E - 1 /\ Unhandled' \subseteq 0 .. E - 1 BY DEF Unhandled
  <2> QED BY <1>16, <2>1, <2>2, <2>3 DEF Pending
<1>19. Answered' /\ Telling' BY <1>6, <1>11, <1>18, TellingKept
<1>20. EventRounds' BY <1>1, <1>11 DEF EventRounds
<1>21. Queued' BY <1>1, <1>2, <1>5 DEF Queued, history
<1>22. Driving' BY <1>1, <1>2 DEF Driving, client
<1> QED BY <1>4, <1>5, <1>7, <1>17, <1>19, <1>20, <1>21, <1>22 DEF RingsInv

-----------------------------------------------------------------------------
(* A completion.                                                           *)

LEMMA FirstIsFirst ==
  ASSUME TypeInv, Apart, NEW e \in Pending, e # First, eventIndex # posted
  PROVE  Time(First) < Time(e)
<1>1. /\ E \in Nat /\ E > 0 /\ First \in 0 .. E - 1 /\ Past \in 0 .. E - 1 BY EventIs
<1>2. e \in Unhandled /\ e \in 0 .. E - 1 BY DEF Pending, Unhandled
<1>3. eventIndex \in 0 .. 2 * E - 1 /\ posted \in 0 .. 2 * E - 1 BY TypeOKIs DEF TypeInv, IndexTypes
<1>4. SameRound => First < Past
  <2>1. SameRound => First # Past
    BY <1>1, <1>3 DEF SameRound, CycleAt, First, Past, Wrap
  <2> QED BY <1>1, <2>1 DEF Apart
<1>5. CASE SameRound BY <1>1, <1>2, <1>4, <1>5 DEF Unhandled, Time
<1>6. CASE ~SameRound BY <1>1, <1>2, <1>6 DEF Unhandled, Time, Apart
<1> QED BY <1>5, <1>6

\* The callback that matches an event is the one of the block executed.
LEMMA CompletionIs ==
  ASSUME RingsInv, NEW n \in DOMAIN callbacks, HandleCompletion(n), NEW x, x = callbacks[n]
  PROVE  /\ x \in Live /\ Live' = Live \ {x} /\ Executed(x) /\ x.addr = events[First].addr
         /\ Entries' /\ First \in Pending /\ eventIndex # posted
         /\ \A e : e \in Pending' <=> e \in Pending /\ e # First
         /\ executed' = executed \ {x.who} /\ waiting' = waiting \ {x.who} /\ who' = x.who
<1>1. /\ TypeInv /\ Entries /\ Requested /\ EventRounds /\ Apart /\ Telling /\ Driving
  BY DEF RingsInv
<1>2. ~Handling /\ found = 0 /\ pc = "idle" BY <1>1 DEF HandleCompletion, Driving, Handling
<1>3. Active = DOMAIN callbacks /\ x \in Live
  <2>1. 0 \notin DOMAIN callbacks
    <3> DEFINE T == [addr : Addresses, who : Clients]
    <3>1. callbacks \in Seq(T) BY <1>1 DEF TypeInv
    <3> HIDE DEF T
    <3>2. DOMAIN callbacks = 1 .. Len(callbacks) BY <3>1
    <3> QED BY <3>2
  <2>2. Active = DOMAIN callbacks BY <1>2, <2>1 DEF Active
  <2> QED BY <2>2 DEF Live
<1>4. /\ callbacks' = callbacks /\ found' = n /\ who' = x.who /\ back' = "finish"
      /\ executed' = executed \ {x.who} /\ waiting' = waiting \ {x.who}
      /\ UNCHANGED <<events, posted, eventIndex>>
  BY DEF HandleCompletion, Run, hardware
<1>5. Live' = Live \ {x}
  <2>1. Active' = Active \ {n} BY <1>3, <1>4 DEF Active
  <2>2. \A m \in Active : m # n => callbacks[m] # x BY <1>1, <1>3 DEF Entries
  <2>3. \A y \in Live' : y \in Live \ {x} BY <1>4, <2>1, <2>2 DEF Live
  <2>4. \A y \in Live \ {x} : y \in Live' BY <1>4, <2>1 DEF Live
  <2> QED BY <2>3, <2>4
<1>6. eventIndex # posted /\ First \in Unhandled BY <1>1, NewIs DEF HandleCompletion
<1>7. First \in Pending BY <1>2, <1>6 DEF Pending
<1>8. x.addr = events[First].addr BY <1>1, EventIs DEF HandleCompletion, FirstMatch, Matches
<1>9. Executed(x)
  <2>1. x.addr # PortChange BY <1>1, <1>3, LiveIs
  <2>2. PICK z \in Live : events[First].addr = z.addr /\ Executed(z) BY <1>1, <1>7, <1>8, <2>1 DEF Telling
  <2>3. z = x BY <1>1, <1>3, <1>8, <2>2, LiveIs
  <2> QED BY <2>2, <2>3
<1>10. \A e : e \in Pending' <=> e \in Pending /\ e # First
  <2>1. Unhandled' = Unhandled /\ First' = First BY <1>4 DEF Unhandled, SameRound, First, Past
  <2>2. Handling' BY <1>4 DEF Handling
  <2> QED BY <1>2, <2>1, <2>2 DEF Pending
<1>11. Entries'
  <2>1. \A i, j \in Active' : i # j => /\ callbacks'[i].who # callbacks'[j].who
                                       /\ callbacks'[i].addr # callbacks'[j].addr
    BY <1>1, <1>3, <1>4 DEF Entries, Active
  <2>2. waiting' = {y.who : y \in Live'}
    <3>1. \A y \in Live : y # x => y.who # x.who BY <1>1, <1>3, LiveIs
    <3> QED BY <1>1, <1>4, <1>5, <3>1 DEF Entries
  <2> QED BY <2>1, <2>2 DEF Entries
<1> QED BY <1>3, <1>4, <1>5, <1>6, <1>7, <1>8, <1>9, <1>10, <1>11

LEMMA CompletionKept ==
  ASSUME RingsInv, TypeInv', NEW n \in DOMAIN callbacks, HandleCompletion(n)
  PROVE  RingsInv'
<1>1. /\ TypeInv /\ Rounds /\ Controlling /\ Entries /\ Requested /\ Unexecuted /\ EventRounds
      /\ Apart /\ Answered /\ Telling /\ Driving /\ Queued
  BY DEF RingsInv
<1>2. PICK x : x = callbacks[n] OBVIOUS
<1>3. PICK f : f = First OBVIOUS
<1>4. /\ x \in Live /\ Live' = Live \ {x} /\ Executed(x) /\ x.addr = events[f].addr
      /\ Entries' /\ f \in Pending /\ eventIndex # posted
      /\ \A e : e \in Pending' <=> e \in Pending /\ e # f
      /\ executed' = executed \ {x.who} /\ waiting' = waiting \ {x.who} /\ who' = x.who
  BY <1>2, <1>3, CompletionIs
<1>5. /\ UNCHANGED <<ring, index, hardware, erdp, eventIndex, queue>>
      /\ pc = "idle" /\ pc' = "running" /\ back' = "finish"
  BY DEF HandleCompletion, Run
<1>6. Rounds' /\ Controlling' /\ \A r \in Rings : Listed(r)' = Listed(r)
  <2>1. \A r \in Rings : Placed(r)' = Placed(r) BY <1>5 DEF Placed
  <2> QED BY <1>1, <1>5, <2>1, RoundsKept DEF hardware
<1>7. EventRounds' BY <1>1, <1>5 DEF EventRounds, Past, hardware
<1>8. Apart' BY <1>1, <1>4, <1>5 DEF Apart, SameRound, First, Past, hardware
<1>9. Queued' BY <1>1, <1>5, <1>6 DEF Queued
<1>10. Driving'
  <2>1. x.who \in Clients BY <1>1, <1>4, LiveIs
  <2> QED BY <1>4, <1>5, <2>1 DEF Driving, Handling
<1>11. \A r \in Rings : /\ Slots(r)' = Slots(r) /\ Ahead1(r)' = Ahead1(r)
                        /\ \A s \in Slots(r) : Behind(r, s)' = Behind(r, s)
  <2>1. \A r \in Rings : index'[r] = index[r] /\ dequeue'[r] = dequeue[r] /\ consumer'[r] = consumer[r]
    BY <1>5 DEF hardware
  <2> QED BY <2>1, IndexKept, AheadKept, Zenon
<1>12. ASSUME NEW y \in Live
       PROVE  /\ Age(y)' = Age(y) /\ Executed(y)' = Executed(y) /\ RingOf(y)' = RingOf(y)
              /\ SlotOf(y)' = SlotOf(y) /\ RingOf(y) \in Rings /\ SlotOf(y) \in Slots(RingOf(y))
              /\ y.who \in Clients /\ y.addr # PortChange /\ (y.who = x.who \/ y.addr = x.addr => y = x)
              /\ Age(y) \in Nat
  <2>1. /\ RingOf(y) \in Rings /\ SlotOf(y) \in Slots(RingOf(y)) /\ y.who \in Clients
        /\ y.addr # PortChange /\ (y.who = x.who \/ y.addr = x.addr => y = x)
    BY <1>1, <1>4, LiveIs
  <2>2. RingOf(y)' = RingOf(y) /\ SlotOf(y)' = SlotOf(y) BY DEF RingOf, SlotOf
  <2>3. Age(y)' = Age(y) BY <1>11, <2>1 DEF Age, RingOf, SlotOf
  <2>4. Ahead1(RingOf(y))' = Ahead1(RingOf(y)) BY <1>11, <2>1 DEF RingOf
  <2>5. Executed(y)' = Executed(y) BY <2>3, <2>4 DEF Executed
  <2>6. Age(y) \in 1 .. N BY <1>1, <2>1, BehindIs DEF Age
  <2> QED BY <2>1, <2>2, <2>3, <2>5, <2>6
\* It was written before every other call of its ring.
<1>13. ASSUME NEW y \in Live, y # x, RingOf(y) = RingOf(x) PROVE Age(y) < Age(x)
  <2>1. SlotOf(y) # SlotOf(x)
    <3>1. y.addr = <<RingOf(y), SlotOf(y)>> /\ x.addr = <<RingOf(x), SlotOf(x)>> BY <1>1, <1>4, LiveIs
    <3> QED BY <1>4, <1>12, <1>13, <3>1
  <2>2. Age(y) # Age(x) BY <1>1, <1>4, <1>12, <1>13, <2>1, BehindIs DEF Age
  <2>3. CASE Executed(y)
    <3>1. PICK e \in Pending : events[e].addr = y.addr BY <1>1, <2>3 DEF Answered
    <3>2. e # f BY <1>4, <1>12, <1>13, <3>1
    <3>3. Time(f) < Time(e) BY <1>1, <1>3, <1>4, <3>1, <3>2, FirstIsFirst
    <3> QED BY <1>1, <1>4, <1>13, <3>1, <3>3 DEF Telling
  <2>4. CASE ~Executed(y)
    <3>1. Ahead1(RingOf(y)) \in Nat BY <1>1, <1>12, Ahead1Is
    <3> QED BY <1>4, <1>12, <1>13, <2>4, <3>1 DEF Executed
  <2> QED BY <2>3, <2>4
<1>14. Requested'
  <2>1. ASSUME NEW y \in Live'
        PROVE  /\ y.addr = <<RingOf(y), SlotOf(y)>>' /\ RingOf(y)' \in Uses[y.who]
               /\ SlotOf(y)' \in Slots(RingOf(y))'
               /\ \A s \in Slots(RingOf(y))' : Behind(RingOf(y), s)' <= Age(y)' =>
                    \E z \in Live' : z.addr = <<RingOf(y), s>>'
    <3>1. y \in Live /\ y # x BY <1>4
    <3>2. Slots(RingOf(y))' = Slots(RingOf(y)) BY <1>11, <1>12, <3>1 DEF RingOf
    <3>3. ASSUME NEW s \in Slots(RingOf(y)), Behind(RingOf(y), s)' <= Age(y)'
          PROVE  \E z \in Live' : z.addr = <<RingOf(y), s>>'
      <4>1. Behind(RingOf(y), s)' = Behind(RingOf(y), s) BY <1>11, <1>12, <3>1 DEF RingOf
      <4>2. PICK z \in Live : z.addr = <<RingOf(y), s>>
        BY <1>1, <1>12, <3>1, <3>3, <4>1 DEF Requested
      <4>3. RingOf(z) = RingOf(y) /\ SlotOf(z) = s BY <4>2 DEF RingOf, SlotOf
      <4>4. Age(z) <= Age(y) BY <1>12, <3>1, <3>3, <4>1, <4>3 DEF Age
      <4>5. z # x BY <1>12, <1>13, <1>4, <3>1, <4>3, <4>4
      <4> QED BY <1>4, <1>12, <3>1, <4>2, <4>5
    <3> QED BY <1>1, <1>12, <3>1, <3>2, <3>3 DEF Requested
  <2> QED BY <2>1 DEF Requested
<1>15. Unexecuted'
  <2>1. ASSUME NEW r \in Rings, NEW s \in Slots(r)', Behind(r, s)' <= Ahead1(r)'
        PROVE  \E y \in Live' : y.addr = <<r, s>>
    <3>1. s \in Slots(r) /\ Behind(r, s) <= Ahead1(r) BY <1>11, <2>1
    <3>2. PICK y \in Live : y.addr = <<r, s>> BY <1>1, <3>1 DEF Unexecuted
    <3>3. RingOf(y) = r /\ SlotOf(y) = s BY <3>2 DEF RingOf, SlotOf
    <3>4. y # x
      <4>1. Age(y) <= Ahead1(RingOf(y)) /\ Ahead1(r) \in Nat BY <1>1, <3>1, <3>3, Ahead1Is DEF Age
      <4> QED BY <1>4, <1>12, <3>3, <4>1 DEF Executed
    <3> QED BY <1>4, <3>2, <3>4
  <2>2. ASSUME NEW y \in Live', (Age(y) <= Ahead1(RingOf(y)))'
        PROVE  LET trb == ring[RingOf(y)][SlotOf(y)]' IN
               trb.kind = "request" /\ trb.who = y.who /\ trb.ioc /\ y.who \notin executed'
    <3>1. y \in Live /\ y # x BY <1>4
    <3>2. Ahead1(RingOf(y))' = Ahead1(RingOf(y)) BY <1>11, <1>12, <3>1 DEF RingOf
    <3>3. Age(y) <= Ahead1(RingOf(y)) BY <1>12, <2>2, <3>1, <3>2
    <3>4. ring' = ring BY <1>5
    <3> QED BY <1>1, <1>4, <1>12, <3>1, <3>3, <3>4 DEF Unexecuted
  <2> QED BY <2>1, <2>2 DEF Unexecuted
<1>16. Answered'
  <2>1. ASSUME NEW y \in Live', Executed(y)'
        PROVE  y.who \in executed' /\ \E e \in Pending' : events'[e].addr = y.addr
    <3>1. y \in Live /\ y # x /\ Executed(y) BY <1>4, <1>12, <2>1
    <3>2. PICK e \in Pending : events[e].addr = y.addr BY <1>1, <3>1 DEF Answered
    <3>3. e # f BY <1>4, <1>12, <3>1, <3>2
    <3>4. y.who \in executed /\ y.who # x.who BY <1>1, <1>12, <3>1 DEF Answered
    <3> QED BY <1>4, <1>5, <3>2, <3>3, <3>4 DEF hardware
  <2>2. ASSUME NEW c \in executed' PROVE \E y \in Live' : y.who = c /\ Executed(y)'
    <3>1. PICK y \in Live : y.who = c /\ Executed(y) BY <1>1, <1>4 DEF Answered
    <3> QED BY <1>4, <1>12, <3>1
  <2> QED BY <2>1, <2>2 DEF Answered
<1>17. Telling'
  <2>1. \A e : Time(e)' = Time(e) BY <1>5 DEF Time, Past, hardware
  <2>2. ASSUME NEW e \in Pending'
        PROVE  events'[e].addr = PortChange \/ \E y \in Live' : events'[e].addr = y.addr /\ Executed(y)'
    <3>1. e \in Pending /\ e # f /\ events' = events BY <1>4, <1>5 DEF hardware
    <3>2. CASE events[e].addr = PortChange BY <3>1, <3>2
    <3>3. CASE events[e].addr # PortChange
      <4>1. PICK y \in Live : events[e].addr = y.addr /\ Executed(y) BY <1>1, <3>1, <3>3 DEF Telling
      <4>2. y # x
        <5> SUFFICES ASSUME y = x PROVE FALSE OBVIOUS
        <5>1. Time(f) < Time(e) BY <1>1, <1>3, <1>4, <3>1, FirstIsFirst
        <5>2. Age(x) < Age(x) BY <1>1, <1>4, <3>1, <4>1, <5>1 DEF Telling
        <5> QED BY <1>4, <1>12, <5>2
      <4> QED BY <1>4, <1>12, <3>1, <4>1, <4>2
    <3> QED BY <3>2, <3>3
  <2>3. ASSUME NEW e \in Pending', NEW g \in Pending', NEW y \in Live', NEW z \in Live',
               events'[e].addr = y.addr, events'[g].addr = z.addr, RingOf(y)' = RingOf(z)',
               Time(e)' < Time(g)'
        PROVE  Age(z)' < Age(y)'
    <3>1. e \in Pending /\ g \in Pending /\ events' = events /\ y \in Live /\ z \in Live
      BY <1>4, <1>5 DEF hardware
    <3>2. Age(z) < Age(y) BY <1>1, <1>12, <2>1, <2>3, <3>1 DEF Telling
    <3> QED BY <1>12, <3>1, <3>2
  <2> QED BY <2>2, <2>3 DEF Telling
<1> QED BY <1>4, <1>6, <1>7, <1>8, <1>9, <1>10, <1>14, <1>15, <1>16, <1>17 DEF RingsInv

-----------------------------------------------------------------------------
(* The requests ahead of the controller.                                   *)

LEMMA WrittenIs ==
  ASSUME TypeInv, Driving, NEW r \in Rings
  PROVE  /\ Written(r) \in 0 .. N /\ Top(r) <= Written(r) /\ Written(r) <= Top(r) + 1
         /\ r \in Endpoints => Written(r) \in 0 .. N - 1
         /\ r \notin Endpoints => Written(r) = Top(r)
         /\ Written(r) # Top(r) => Placed(r) /\ Side(r) = 0
<1>1. Placed(r) => r \in Endpoints /\ Top(r) < N - 1 BY DEF Placed, Driving
<1> QED BY <1>1, RingIs, Sizes DEF Written

LEMMA ListedIs ==
  ASSUME TypeInv, Controlling, Driving, NEW r \in Rings
  PROVE  /\ Depth(r) \in Nat
         /\ \A i \in 1 .. Depth(r) : Nth(r, i) \in 0 .. N - 1
         /\ Depth(r) = Ahead1(r) + Written(r) - Top(r)
         /\ IsSeq(Listed(r), Depth(r))
         /\ \A i \in 1 .. Depth(r) : Listed(r)[i] = ring[r][Nth(r, i)].who
<1>1. /\ Written(r) \in 0 .. N /\ Top(r) <= Written(r) /\ Written(r) <= Top(r) + 1
      /\ r \in Endpoints => Written(r) \in 0 .. N - 1
      /\ Top(r) \in 0 .. N /\ dequeue[r] \in 0 .. N /\ N \in Nat /\ N > 1
  BY WrittenIs, RingIs, Sizes
<1>2. Depth(r) \in Nat BY <1>1, Ahead1Is DEF Depth
<1>3. \A i \in 1 .. Depth(r) : Nth(r, i) \in 0 .. N - 1 BY <1>1, Ahead1Is DEF Depth, Nth
<1>4. Depth(r) = Ahead1(r) + Written(r) - Top(r) BY <1>1, Ahead1Is DEF Depth
<1> QED BY <1>2, <1>3, <1>4 DEF Listed, IsSeq

LEMMA AheadIsListed ==
  ASSUME TypeInv, Rounds, Controlling, Driving, NEW r \in Rings
  PROVE  Ahead(r) = Listed(r)
<1> DEFINE W == Written(r)  B == Side(r)  d == dequeue[r]  C == consumer[r]
           P == (0 .. N) \X {0, 1}
           low[s \in 0 .. W] == [i \in 1 .. W - s |-> ring[r][s + i - 1].who]
           Far(s, i) == IF s + i - 1 < N - 1 THEN s + i - 1 ELSE s + i - N
           high[s \in 0 .. N - 1] == [i \in 1 .. N - 1 - s + W |-> ring[r][Far(s, i)].who]
<1>1. /\ W \in 0 .. N /\ N \in Nat /\ N > 1 /\ B \in {0, 1} /\ d \in 0 .. N /\ C \in {0, 1}
      /\ Top(r) <= W
      /\ r \in Endpoints => W \in 0 .. N - 1
  BY WrittenIs, RingIs, Sizes
<1>2. PICK f : /\ Ahead(r) = f[N][<<d, C>>]
               /\ f[0] = [p \in P |-> <<>>]
               /\ \A n \in 0 .. N - 1 : f[n + 1] = Step(r, f[n])
  BY AheadUnfolds
<1>3. C = B => d <= W BY <1>1, RingIs, Ahead1Is
<1>4. C # B => /\ W <= d /\ d <= N - 1 /\ ring[r][N - 1].kind = "link" /\ r \in Endpoints
  <2>1. C # B => /\ Top(r) <= d /\ d <= N - 1 /\ ring[r][N - 1].kind = "link"
                 /\ Placed(r) => Top(r) < d
    BY DEF Controlling
  <2>2. C # B => r \in Endpoints BY Ahead1Is
  <2>3. W # Top(r) => Placed(r) BY WrittenIs
  <2>4. W <= Top(r) + 1 /\ Top(r) \in 0 .. N BY WrittenIs, RingIs
  <2> QED BY <1>1, <2>1, <2>2, <2>3, <2>4
<1>5. ASSUME NEW s \in 0 .. N - 1
      PROVE  /\ ring[r][s].cycle = IF s < W THEN B ELSE 1 - B
             /\ s < N - 1 \/ s < W => ring[r][s].kind # "link"
  BY <1>1, Sizes DEF Rounds, TypeInv, Filled
<1> HIDE DEF W, B, d, C
\* In the driver's round.
<1>6. ASSUME NEW g, NEW s \in 0 .. W, s < W => g[<<s + 1, B>>] = low[s + 1]
      PROVE  Step(r, g)[<<s, B>>] = low[s]
  <2>1. <<s, B>> \in P BY <1>1
  <2>2. CASE s = W
    <3>1. ~Valid(r, <<s, B>>) BY <1>1, <1>5, <2>2 DEF Valid
    <3>2. Step(r, g)[<<s, B>>] = <<>> BY <2>1, <3>1 DEF Step
    <3>3. low[s] = <<>> BY <1>1, <2>2
    <3> QED BY <3>2, <3>3
  <2>3. CASE s < W
    <3>1. s \in 0 .. N - 1 /\ s + 1 \in 0 .. W BY <1>1, <2>3
    <3>2. Valid(r, <<s, B>>) /\ ring[r][s].kind # "link" BY <1>1, <1>5, <2>3, <3>1 DEF Valid
    <3>3. Beyond(r, <<s, B>>) = <<s + 1, B>> BY <3>2 DEF Beyond
    <3>4. Step(r, g)[<<s, B>>] = <<ring[r][s].who>> \o g[<<s + 1, B>>] BY <2>1, <3>2, <3>3 DEF Step
    <3> DEFINE k == W - (s + 1)
               x == low[s + 1]
               y == low[s]
    <3>5. k \in Nat /\ IsSeq(x, k) /\ IsSeq(y, k + 1) /\ y[1] = ring[r][s].who
      BY <1>1, <2>3, <3>1 DEF IsSeq
    <3>6. ASSUME NEW i \in 1 .. k PROVE y[i + 1] = x[i]
      <4>0. W \in Nat /\ s \in Nat /\ W - (s + 1) \in Nat /\ i \in 1 .. W - (s + 1) BY <1>1, <2>3
      <4>1. i + 1 \in 1 .. W - s /\ i \in 1 .. W - (s + 1) /\ s + (i + 1) - 1 = (s + 1) + i - 1
        BY <4>0
      <4> QED BY <3>1, <4>1
    <3> HIDE DEF x, y, k
    <3>7. \A i \in 1 .. k : y[i + 1] = x[i] BY <3>6
    <3>8. <<ring[r][s].who>> \o x = y BY <3>5, <3>7, Consed
    <3> QED BY <1>6, <2>3, <3>4, <3>8 DEF x, y
  <2> QED BY <1>1, <2>2, <2>3
\* In the round before it.
<1>7. ASSUME NEW g, C # B, NEW s \in W .. N - 1,
             s < N - 1 => g[<<s + 1, 1 - B>>] = high[s + 1],
             s = N - 1 => g[<<0, B>>] = low[0]
      PROVE  Step(r, g)[<<s, 1 - B>>] = high[s]
  <2>1. <<s, 1 - B>> \in P /\ s \in 0 .. N - 1 BY <1>1
  <2>2. Valid(r, <<s, 1 - B>>) BY <1>1, <1>5, <2>1 DEF Valid
  <2>3. CASE s = N - 1
    <3>1. ring[r][s].kind = "link" BY <1>4, <1>7, <2>3
    <3>2. Beyond(r, <<s, 1 - B>>) = <<0, B>> BY <1>1, <3>1 DEF Beyond
    <3>3. Step(r, g)[<<s, 1 - B>>] = <<>> \o low[0] BY <1>7, <2>1, <2>2, <2>3, <3>1, <3>2 DEF Step
    <3>4. 0 \in 0 .. W /\ low[0] = [i \in 1 .. W |-> ring[r][i - 1].who]
      <4>1. 0 \in 0 .. W /\ W - 0 = W /\ \A i \in 1 .. W : 0 + i - 1 = i - 1 BY <1>1
      <4> QED BY <4>1
    <3>5. <<>> \o low[0] = low[0]
      <4> DEFINE x == low[0]
      <4>1. W \in Nat /\ IsSeq(x, W) BY <1>1, <3>4 DEF IsSeq
      <4> HIDE DEF x
      <4>2. x \in Seq({x[i] : i \in 1 .. W}) BY <4>1, FunctionSeq
      <4> QED BY <4>2, ConcatEmptySeq DEF x
    <3>6. high[s] = low[0]
      <4>1. N - 1 - s + W = W BY <1>1, <2>3
      <4>2. \A i \in 1 .. W : Far(s, i) = i - 1 BY <1>1, <2>3
      <4> QED BY <2>1, <3>4, <4>1, <4>2
    <3> QED BY <3>3, <3>5, <3>6
  <2>4. CASE s < N - 1
    <3>1. ring[r][s].kind # "link" /\ s + 1 \in 0 .. N - 1 BY <1>1, <1>5, <2>1, <2>4
    <3>2. Beyond(r, <<s, 1 - B>>) = <<s + 1, 1 - B>> BY <3>1 DEF Beyond
    <3>3. Step(r, g)[<<s, 1 - B>>] = <<ring[r][s].who>> \o g[<<s + 1, 1 - B>>]
      BY <2>1, <2>2, <3>1, <3>2 DEF Step
    <3> DEFINE k == N - 1 - (s + 1) + W
               x == high[s + 1]
               y == high[s]
    <3>4. k \in Nat /\ IsSeq(x, k) /\ IsSeq(y, k + 1) /\ y[1] = ring[r][s].who
      <4>1. k \in Nat /\ k + 1 = N - 1 - s + W /\ 1 \in 1 .. k + 1 /\ Far(s, 1) = s BY <1>1, <2>1, <2>4
      <4> QED BY <2>1, <3>1, <4>1 DEF IsSeq
    <3>5. ASSUME NEW i \in 1 .. k PROVE y[i + 1] = x[i]
      <4>1. i + 1 \in 1 .. N - 1 - s + W /\ Far(s, i + 1) = Far(s + 1, i) BY <1>1, <2>1, <2>4, <3>4
      <4> HIDE DEF Far
      <4> QED BY <2>1, <3>1, <4>1
    <3> HIDE DEF x, y, k
    <3>6. \A i \in 1 .. k : y[i + 1] = x[i] BY <3>5
    <3>7. <<ring[r][s].who>> \o x = y BY <3>4, <3>6, Consed
    <3> QED BY <1>7, <2>4, <3>3, <3>7 DEF x, y
  <2> QED BY <1>1, <2>1, <2>3, <2>4
<1> HIDE DEF low, high
<1> DEFINE Lows(n) == \A s \in 0 .. W : W - s <= n => f[n][<<s, B>>] = low[s]
           Highs(n) == C # B => \A s \in W .. N - 1 : N - s + W <= n => f[n][<<s, 1 - B>>] = high[s]
           G == {n \in Nat : n \in 0 .. N => Lows(n) /\ Highs(n)}
<1>8. 0 \in G
  <2>1. Lows(0)
    <3> SUFFICES ASSUME NEW s \in 0 .. W, W - s <= 0 PROVE f[0][<<s, B>>] = low[s] OBVIOUS
    <3>1. s = W /\ <<s, B>> \in P BY <1>1
    <3>2. low[s] = <<>> BY <1>1, <3>1 DEF low
    <3> QED BY <1>2, <3>1, <3>2
  <2>2. Highs(0) BY <1>1
  <2> QED BY <2>1, <2>2
<1>9. ASSUME NEW n \in Nat, n \in G PROVE n + 1 \in G
  <2> SUFFICES ASSUME n + 1 \in 0 .. N PROVE Lows(n + 1) /\ Highs(n + 1) OBVIOUS
  <2>1. Lows(n) /\ Highs(n) /\ f[n + 1] = Step(r, f[n])
    <3>1. n \in 0 .. N - 1 /\ n \in 0 .. N BY <1>1
    <3> QED BY <1>2, <1>9, <3>1
  <2>2. Lows(n + 1)
    <3> SUFFICES ASSUME NEW s \in 0 .. W, W - s <= n + 1 PROVE f[n + 1][<<s, B>>] = low[s] OBVIOUS
    <3>1. s < W => f[n][<<s + 1, B>>] = low[s + 1]
      <4>1. s < W => s + 1 \in 0 .. W /\ W - (s + 1) <= n BY <1>1
      <4> QED BY <2>1, <4>1
    <3> QED BY <1>6, <2>1, <3>1
  <2>3. Highs(n + 1)
    <3> SUFFICES ASSUME C # B, NEW s \in W .. N - 1, N - s + W <= n + 1
                 PROVE f[n + 1][<<s, 1 - B>>] = high[s]
      OBVIOUS
    <3>1. s < N - 1 => f[n][<<s + 1, 1 - B>>] = high[s + 1]
      <4>1. s < N - 1 => s + 1 \in W .. N - 1 /\ N - (s + 1) + W <= n BY <1>1
      <4> QED BY <2>1, <4>1
    <3>2. s = N - 1 => f[n][<<0, B>>] = low[0]
      <4>1. s = N - 1 => 0 \in 0 .. W /\ W - 0 <= n BY <1>1
      <4> QED BY <2>1, <4>1
    <3> QED BY <1>7, <2>1, <3>1, <3>2, ZenonT(60)
  <2> QED BY <2>2, <2>3
<1> HIDE DEF G
<1>10. N \in G BY <1>1, <1>8, <1>9, Induction
<1>11. Lows(N) /\ Highs(N)
  <2>1. N \in 0 .. N BY <1>1
  <2> QED BY <1>10, <2>1 DEF G
<1>12. CASE C = B
  <2>1. Ahead(r) = low[d]
    <3>1. d \in 0 .. W /\ W - d <= N BY <1>1, <1>3, <1>12
    <3> QED BY <1>2, <1>11, <1>12, <3>1
  <2>2. Depth(r) = W - d /\ \A i : Nth(r, i) = d + i - 1 BY <1>12 DEF Depth, Nth, W, d, C, B
  <2>3. d \in 0 .. W BY <1>1, <1>3, <1>12
  <2> QED BY <2>1, <2>2, <2>3 DEF Listed, low
<1>13. CASE C # B
  <2>1. Ahead(r) = high[d]
    <3>1. d \in W .. N - 1 /\ N - d + W <= N /\ C = 1 - B BY <1>1, <1>4, <1>13
    <3> QED BY <1>2, <1>11, <1>13, <3>1
  <2>2. Depth(r) = W - d + N - 1 /\ \A i : Nth(r, i) = Far(d, i) BY <1>13 DEF Depth, Nth, W, d, C, B
  <2>3. d \in 0 .. N - 1 /\ W - d + N - 1 = N - 1 - d + W BY <1>1, <1>4, <1>13
  <2> HIDE DEF Far
  <2> QED BY <2>1, <2>2, <2>3 DEF Listed, high
<1> QED BY <1>12, <1>13

LEMMA AllListed ==
  TypeInv /\ Rounds /\ Controlling /\ Driving => \A r \in Rings : Ahead(r) = Listed(r)
BY AheadIsListed

LEMMA QueuedNext ==
  ASSUME TypeInv', Rounds', Controlling', Driving', KeepQueue
  PROVE  Queued'
<1>1. (TypeInv /\ Rounds /\ Controlling /\ Driving)' => (\A r \in Rings : Ahead(r) = Listed(r))'
  BY AllListed, PTL
<1> QED BY <1>1 DEF KeepQueue, Queued

\* The list changes at its end.
LEMMA ListedGrows ==
  ASSUME TypeInv, Controlling, Driving, NEW r \in Rings, NEW v, Depth(r)' = Depth(r) + 1,
         \A i \in 1 .. Depth(r) : /\ Nth(r, i)' = Nth(r, i)
                                  /\ ring'[r][Nth(r, i)].who = ring[r][Nth(r, i)].who,
         \A i : i = Depth(r) + 1 => ring'[r][Nth(r, i)'].who = v
  PROVE  Listed(r)' = Append(Listed(r), v)
<1>1. Depth(r) \in Nat /\ IsSeq(Listed(r), Depth(r)) BY ListedIs
<1>2. Listed(r)' = [i \in 1 .. Depth(r) + 1 |-> ring'[r][Nth(r, i)'].who] BY DEF Listed
<1>3. PICK g, h, k : g = Listed(r) /\ h = Listed(r)' /\ k = Depth(r) OBVIOUS
<1>4. \A i \in 1 .. k : h[i] = g[i] BY <1>1, <1>2, <1>3 DEF Listed
<1>5. h[k + 1] = v BY <1>1, <1>2, <1>3
<1>6. IsSeq(h, k + 1) BY <1>2, <1>3 DEF IsSeq
<1> QED BY <1>1, <1>3, <1>4, <1>5, <1>6, Appended

LEMMA ListedOther ==
  ASSUME TypeInv, Controlling, Driving, NEW r \in Rings, Written(r)' = Written(r),
         index'[r] = index[r], dequeue'[r] = dequeue[r], consumer'[r] = consumer[r],
         \A s \in 0 .. N - 1 : ring'[r][s] = ring[r][s]
  PROVE  Listed(r)' = Listed(r)
<1>1. Side(r)' = Side(r) BY IndexKept
<1>2. Depth(r)' = Depth(r) /\ \A i : Nth(r, i)' = Nth(r, i) BY <1>1 DEF Depth, Nth
<1>3. \A i \in 1 .. Depth(r) : Nth(r, i) \in 0 .. N - 1 BY ListedIs
<1> QED BY <1>2, <1>3 DEF Listed

\* Where the next block goes.
LEMMA NthIs ==
  ASSUME TypeInv, Controlling, Driving, NEW r \in Rings, Written(r) = Top(r),
         consumer[r] # Side(r) => Top(r) < dequeue[r]
  PROVE  /\ \A i \in 1 .. Depth(r) : Nth(r, i) # Top(r)
         /\ \A i : i = Depth(r) + 1 => Nth(r, i) = Top(r)
<1>1. Top(r) \in 0 .. N /\ dequeue[r] \in 0 .. N /\ N \in Nat /\ N > 1 /\ Depth(r) \in Nat
  BY RingIs, Sizes, ListedIs
<1>2. CASE consumer[r] = Side(r) BY <1>1, <1>2, Ahead1Is DEF Nth, Depth
<1>3. CASE consumer[r] # Side(r) BY <1>1, <1>3, Ahead1Is DEF Nth, Depth
<1> QED BY <1>2, <1>3

\* The driver at most adds its client to what it makes the controller do.
Adds(r) ==
  /\ \A q \in Rings : q # r => Listed(q)' = Listed(q)
  /\ \/ Listed(r)' = Listed(r)
     \/ Listed(r)' = Append(Listed(r), who) /\ \A q \in Rings : Written(q) = Top(q)

-----------------------------------------------------------------------------
(* Actions that neither make nor answer calls.                             *)

\* Of an action that changes the rings alone.
LEMMA RingKept ==
  ASSUME RingsInv, TypeInv', Rounds', Controlling', Driving', Settled, KeepQueue,
         \A x \in Live : ring'[RingOf(x)][SlotOf(x)] = ring[RingOf(x)][SlotOf(x)],
         UNCHANGED <<callbacks, found, waiting, events, posted, eventIndex, erdp>>, Handling' = Handling
  PROVE  RingsInv'
<1>1. Entries /\ EventRounds /\ Apart BY DEF RingsInv
<1>2. Requested' /\ Unexecuted' BY CallsKept
<1>3. Queued' BY QueuedNext
<1>4. Entries' BY <1>1 DEF Entries, Live, Active
<1>5. EventRounds' BY <1>1 DEF EventRounds, Past
<1>6. Apart' BY <1>1 DEF Apart, SameRound, First, Past
<1>7. Pending' = Pending BY DEF Pending, Unhandled, SameRound, First, Past
<1>8. Answered' /\ Telling' BY <1>7, TellingKept
<1> QED BY <1>2, <1>3, <1>4, <1>5, <1>6, <1>8 DEF RingsInv

\* A link is where the controller has fallen a round behind.
LEMMA FollowIs ==
  ASSUME RingsInv, NEW r \in Rings, FollowLink(r)
  PROVE  r \in Endpoints /\ dequeue[r] = N - 1 /\ consumer[r] = 1 - Side(r) /\ Top(r) <= N - 1
<1>1. TypeInv /\ Rounds /\ Controlling /\ Driving BY DEF RingsInv
<1>2. /\ dequeue[r] \in 0 .. N - 1 /\ ring[r][dequeue[r]].kind = "link"
      /\ ring[r][dequeue[r]].cycle = consumer[r]
  BY <1>1, RingIs, Sizes DEF FollowLink, IsValid, Valid, Block
<1>3. r \in Endpoints /\ dequeue[r] = N - 1 BY <1>1, <1>2 DEF TypeInv, Filled
<1>4. /\ Side(r) \in {0, 1} /\ consumer[r] \in {0, 1} /\ Top(r) \in 0 .. N - 1
      /\ Written(r) \in 0 .. N - 1
  BY <1>1, <1>3, RingIs, WrittenIs
<1>5. ~(dequeue[r] < Written(r)) BY <1>3, <1>4, Sizes
<1>6. ring[r][dequeue[r]].cycle = 1 - Side(r) BY <1>1, <1>2, <1>5 DEF Rounds
<1> QED BY <1>2, <1>3, <1>4, <1>6, Sizes

LEMMA FollowKept ==
  ASSUME RingsInv, TypeInv', NEW r \in Rings, FollowLink(r)
  PROVE  RingsInv' /\ \A q \in Rings : Listed(q)' = Listed(q)
<1>1. TypeInv /\ Rounds /\ Controlling /\ Driving /\ Entries /\ Requested BY DEF RingsInv
<1>2. r \in Endpoints /\ dequeue[r] = N - 1 /\ consumer[r] = 1 - Side(r) /\ Top(r) <= N - 1
  BY FollowIs
<1>3. /\ Side(r) \in {0, 1} /\ Top(r) \in 0 .. N - 1 /\ r # CommandRing /\ N \in Nat /\ N > 1
  BY <1>1, <1>2, RingIs, Sizes
<1>4. /\ UNCHANGED <<ring, index, events, posted, changes, erdp, eventIndex, irq, callbacks, pc, client,
                     found, executed>>
      /\ KeepQueue
  BY DEF FollowLink
<1>5. /\ dequeue'[r] = 0 /\ consumer'[r] = Side(r)
      /\ \A q \in Rings : q # r => dequeue'[q] = dequeue[q] /\ consumer'[q] = consumer[q]
  BY <1>1, <1>2, <1>3, TypeOKIs DEF FollowLink, TypeInv, RingTypes
<1>6. /\ \A q : Top(q)' = Top(q) /\ Side(q)' = Side(q) /\ Slots(q)' = Slots(q)
      /\ \A q, s : Behind(q, s)' = Behind(q, s)
      /\ \A q : Placed(q)' = Placed(q) /\ Written(q)' = Written(q)
  <2>1. /\ \A q : Top(q)' = Top(q) /\ Side(q)' = Side(q) /\ Slots(q)' = Slots(q)
        /\ \A q, s : Behind(q, s)' = Behind(q, s)
    BY <1>4, IndexKept
  <2> QED BY <1>4, <2>1 DEF Placed, Written, client
<1>7. Rounds' BY <1>1, <1>4, <1>6 DEF Rounds
<1>8. Controlling'
  <2>1. consumer'[CommandRing] = 1 BY <1>1, <1>3, <1>5, Sizes DEF Controlling
  <2>2. ASSUME NEW q \in Rings
        PROVE  IF consumer'[q] = Side(q)
                 THEN dequeue'[q] <= Top(q)
                 ELSE /\ Top(q) <= dequeue'[q] /\ dequeue'[q] <= N - 1
                      /\ Placed(q) => Top(q) < dequeue'[q]
                      /\ ring[q][N - 1].kind = "link"
    <3>1. CASE q = r BY <1>3, <1>5, <3>1
    <3>2. CASE q # r BY <1>1, <1>5, <3>2 DEF Controlling
    <3> QED BY <3>1, <3>2
  <2> QED BY <1>4, <1>6, <2>1, <2>2 DEF Controlling
<1>9. Live' = Live BY <1>4 DEF Live, Active
<1>10. Settled
  <2>1. ASSUME NEW q \in Rings PROVE Ahead1(q)' = Ahead1(q)
    <3>1. CASE q = r
      <4>1. Ahead1(q)' = Top(q) - 0 BY <1>5, <1>6, <3>1 DEF Ahead1
      <4>2. Ahead1(q) = Top(q) - (N - 1) + N - 1 BY <1>2, <1>3, <3>1 DEF Ahead1
      <4> QED BY <1>3, <3>1, <4>1, <4>2
    <3>2. CASE q # r BY <1>4, <1>5, <3>2, AheadKept
    <3> QED BY <3>1, <3>2
  <2> QED BY <1>4, <1>6, <1>9, <2>1 DEF Settled
<1>11. Driving' BY <1>1, <1>4, <1>6, <1>9 DEF Driving, client, Handling
<1>12. Handling' = Handling BY <1>4 DEF Handling, client
<1>13. ASSUME NEW q \in Rings PROVE Listed(q)' = Listed(q)
  <2>1. CASE q = r
    <3>1. /\ Written(r) \in 0 .. N - 1 /\ Depth(r) = Written(r) /\ Depth(r)' = Written(r)
          /\ consumer[r] # Side(r)
      BY <1>1, <1>2, <1>3, <1>5, <1>6, WrittenIs DEF Depth
    <3>2. \A i \in 1 .. Depth(r) : Nth(r, i)' = Nth(r, i) BY <1>2, <1>3, <1>5, <1>6, <3>1 DEF Nth
    <3> QED BY <1>4, <2>1, <3>1, <3>2 DEF Listed
  <2>2. CASE q # r BY <1>1, <1>4, <1>5, <1>6, <2>2, ListedOther
  <2> QED BY <2>1, <2>2
<1> QED BY <1>4, <1>7, <1>8, <1>10, <1>11, <1>12, <1>13, RingKept DEF client

\* While a client of ring r does not wait, some slot has no call.
LEMMA SlotFree ==
  ASSUME TypeInv, Entries, Requested, NEW r \in Endpoints, NEW c \in Clients \ waiting, r \in Uses[c]
  PROVE  \E s \in Slots(r) : \A x \in Live : x.addr # <<r, s>>
<1> SUFFICES ASSUME \A s \in Slots(r) : \E x \in Live : x.addr = <<r, s>> PROVE FALSE OBVIOUS
<1> DEFINE T == UsersOf(r) \ {c}
           call[s \in Slots(r)] == CHOOSE x \in Live : x.addr = <<r, s>>
           f == [s \in Slots(r) |-> call[s].who]
<1>1. r \in Rings /\ N \in Nat /\ N > 1 /\ Slots(r) = 0 .. N - 2 BY RingIs, Sizes
<1>2. IsFiniteSet(UsersOf(r)) /\ Cardinality(UsersOf(r)) < N /\ c \in UsersOf(r)
  BY RoomAssumption DEF UsersOf
<1>3. IsFiniteSet(T) /\ Cardinality(T) = Cardinality(UsersOf(r)) - 1 BY <1>2, FS_RemoveElement
<1>4. Cardinality(UsersOf(r)) \in Nat BY <1>2, FS_CardinalityType
<1>5. IsFiniteSet(Slots(r)) /\ Cardinality(Slots(r)) = N - 1
  <2>1. 0 \in Int /\ N - 2 \in Int BY <1>1
  <2>2. IsFiniteSet(0 .. N - 2) /\ Cardinality(0 .. N - 2) = IF 0 > N - 2 THEN 0 ELSE (N - 2) - 0 + 1
    BY <2>1, FS_Interval
  <2> QED BY <1>1, <2>2
<1>6. ASSUME NEW s \in Slots(r)
      PROVE  /\ call[s] \in Live /\ call[s].addr = <<r, s>> /\ RingOf(call[s]) = r
             /\ SlotOf(call[s]) = s /\ f[s] \in T
  <2>1. call[s] \in Live /\ call[s].addr = <<r, s>> OBVIOUS
  <2>2. f[s] = call[s].who OBVIOUS
  <2> HIDE DEF f, call
  <2>3. RingOf(call[s]) = r /\ SlotOf(call[s]) = s BY <2>1 DEF RingOf, SlotOf
  <2>4. f[s] \in Clients /\ f[s] \in waiting /\ r \in Uses[f[s]] BY <2>1, <2>2, <2>3, LiveIs
  <2> QED BY <2>1, <2>3, <2>4 DEF UsersOf
<1>7. f \in [Slots(r) -> T] BY <1>6
<1>8. PICK s, q \in Slots(r) : s # q /\ f[s] = f[q]
  <2>1. Cardinality(T) < Cardinality(Slots(r)) BY <1>1, <1>2, <1>3, <1>4, <1>5
  <2> HIDE DEF f, T
  <2> QED BY <1>3, <1>5, <1>7, <2>1, FS_PigeonHole
<1>9. call[s] = call[q]
  <2>1. call[s].who = call[q].who BY <1>8
  <2> HIDE DEF call
  <2> QED BY <1>6, <2>1, LiveIs
<1> HIDE DEF call
<1> QED BY <1>6, <1>8, <1>9

\* So the ring is not full, and the driver comes to a slot without a call.
LEMMA NotFull ==
  ASSUME RingsInv, NEW r \in Endpoints, NEW c \in Clients \ waiting, r \in Uses[c]
  PROVE  /\ consumer[r] # Side(r) => Top(r) < dequeue[r]
         /\ \A x \in Live : Top(r) < N - 1 => x.addr # <<r, Top(r)>>
<1>1. TypeInv /\ Entries /\ Requested /\ Unexecuted /\ Controlling BY DEF RingsInv
<1>2. PICK s \in Slots(r) : \A x \in Live : x.addr # <<r, s>> BY <1>1, SlotFree
<1>3. /\ r \in Rings /\ N \in Nat /\ N > 1 /\ Slots(r) = 0 .. N - 2 /\ Top(r) \in 0 .. N - 1
      /\ dequeue[r] \in 0 .. N
  BY <1>1, RingIs, Sizes
<1>4. Behind(r, s) <= N - 1 BY <1>1, <1>3, BehindIs
<1>5. ASSUME consumer[r] # Side(r) PROVE Top(r) < dequeue[r]
  <2>1. ~(Behind(r, s) <= Ahead1(r)) BY <1>1, <1>2, <1>3 DEF Unexecuted
  <2>2. Top(r) <= dequeue[r] /\ Ahead1(r) = Top(r) - dequeue[r] + N - 1 BY <1>1, <1>3, <1>5, Ahead1Is
  <2>3. Behind(r, s) \in 1 .. N BY <1>1, <1>3, BehindIs
  <2> QED BY <1>3, <1>4, <2>1, <2>2, <2>3
<1>6. ASSUME NEW x \in Live, Top(r) < N - 1, x.addr = <<r, Top(r)>> PROVE FALSE
  <2>1. RingOf(x) = r /\ SlotOf(x) = Top(r) BY <1>6 DEF RingOf, SlotOf
  <2>2. Age(x) = N - 1 BY <1>3, <2>1 DEF Age, Behind
  <2> QED BY <1>1, <1>2, <1>4, <2>1, <2>2 DEF Requested
<1> QED BY <1>5, <1>6

LEMMA PlaceKept ==
  ASSUME RingsInv, TypeInv', Place
  PROVE  RingsInv' /\ \E r \in Rings : Adds(r)
<1>1. TypeInv /\ Rounds /\ Controlling /\ Driving /\ Entries /\ Requested BY DEF RingsInv
<1>0. PICK r, t : r = target /\ t = Top(target) OBVIOUS
<1> DEFINE b == [kind |-> "request", who |-> who, cycle |-> 0, ioc |-> FALSE]
<1>2. /\ r \in Endpoints /\ who \in Clients \ waiting /\ r \in Uses[who] /\ t < N - 1
  BY <1>0, <1>1 DEF Place, Driving
<1>3. /\ Side(r) \in {0, 1} /\ t \in 0 .. N - 1 /\ r # CommandRing /\ N \in Nat /\ N > 1 /\ r \in Rings
  BY <1>0, <1>1, <1>2, RingIs, Sizes
<1>4. Slot = t
  <2>1. index[r] \in 0 .. 2 * N - 1 BY <1>1, <1>2, TypeOKIs DEF TypeInv, IndexTypes
  <2> QED BY <1>0, <1>2, <2>1, SlotIs DEF Slot
<1>5. /\ ring' = [ring EXCEPT ![r][t] = b]
      /\ UNCHANGED <<index, dequeue, consumer, events, posted, erdp, eventIndex, callbacks, who, target,
                     back, waiting, found, executed>>
      /\ pc = "place" /\ pc' = "publish" /\ KeepQueue
  BY <1>0, <1>4 DEF Place, hardware, client
<1>6. \A q \in Rings, s \in 0 .. N - 1 : ring'[q][s] = IF q = r /\ s = t THEN b ELSE ring[q][s]
  BY <1>1, <1>3, <1>5, TypeOKIs DEF TypeInv, RingTypes
<1>7. /\ consumer[r] # Side(r) => t < dequeue[r]
      /\ \A x \in Live : x.addr # <<r, t>>
  BY <1>0, <1>2, NotFull
<1>8. /\ \A q : Top(q)' = Top(q) /\ Side(q)' = Side(q) BY <1>5, IndexKept
<1>9. \A q \in Rings : Written(q) = Top(q) /\ Written(q)' = IF q = r /\ Side(r) = 0 THEN t + 1 ELSE Top(q)
  BY <1>0, <1>5, <1>8 DEF Written, Placed
<1>10. Rounds'
  <2> SUFFICES ASSUME NEW q \in Rings, NEW s \in 0 .. N - 1
               PROVE ring'[q][s].cycle = IF s < Written(q)' THEN Side(q)' ELSE 1 - Side(q)'
    BY DEF Rounds
  <2>1. ring[q][s].cycle = IF s < Top(q) THEN Side(q) ELSE 1 - Side(q) BY <1>1, <1>9 DEF Rounds
  <2>2. CASE q # r BY <1>6, <1>8, <1>9, <2>1, <2>2
  <2>3. CASE q = r /\ s # t BY <1>3, <1>6, <1>8, <1>9, <2>1, <1>0, <2>3
  <2>4. CASE q = r /\ s = t
    <3>1. ring'[q][s].cycle = 0 BY <1>6, <2>4
    <3> QED BY <1>3, <1>8, <1>9, <2>4, <3>1, <1>0
  <2> QED BY <2>2, <2>3, <2>4
<1>11. Controlling'
  <2> SUFFICES ASSUME NEW q \in Rings, consumer[q] # Side(q)
               PROVE (target' = q => Top(q) < dequeue[q]) /\ ring'[q][N - 1].kind = "link"
    BY <1>1, <1>5, <1>8 DEF Controlling, Placed
  <2>1. ring'[q][N - 1] = ring[q][N - 1]
    <3>1. N - 1 \in 0 .. N - 1 /\ ~(q = r /\ N - 1 = t) BY <1>0, <1>2, <1>3
    <3> QED BY <1>6, <3>1
  <2> QED BY <1>0, <1>1, <1>5, <1>7, <2>1 DEF Controlling
<1>12. Settled BY <1>5, SettledIs
<1>13. \A x \in Live : ring'[RingOf(x)][SlotOf(x)] = ring[RingOf(x)][SlotOf(x)]
  <2> SUFFICES ASSUME NEW x \in Live PROVE ring'[RingOf(x)][SlotOf(x)] = ring[RingOf(x)][SlotOf(x)] OBVIOUS
  <2>1. RingOf(x) \in Rings /\ SlotOf(x) \in 0 .. N - 1 /\ x.addr = <<RingOf(x), SlotOf(x)>>
    BY <1>1, LiveIs, BehindIs
  <2> QED BY <1>6, <1>7, <2>1
<1>14. Driving'
  <2>1. Live' = Live BY <1>12 DEF Settled
  <2>2. ring'[r][t].kind = "request" /\ ring'[r][t].who = who /\ ~ring'[r][t].ioc BY <1>3, <1>6
  <2>3. Top(target)' = t BY <1>0, <1>5, <1>8
  <2> QED BY <1>1, <1>2, <1>5, <2>1, <2>2, <2>3, <1>0 DEF Driving, Handling
<1>15. Handling' = Handling BY <1>5 DEF Handling
<1>16. Adds(r)
  <2>1. \A q \in Rings : q # r => Listed(q)' = Listed(q) BY <1>1, <1>5, <1>6, <1>9, ListedOther
  <2>2. \A i : Nth(r, i)' = Nth(r, i) BY <1>5, <1>8 DEF Nth
  <2>3. /\ \A i \in 1 .. Depth(r) : Nth(r, i) # t /\ Nth(r, i) \in 0 .. N - 1
        /\ \A i : i = Depth(r) + 1 => Nth(r, i) = t
    BY <1>0, <1>1, <1>3, <1>7, <1>9, NthIs, ListedIs
  <2>4. \A i \in 1 .. Depth(r) : ring'[r][Nth(r, i)] = ring[r][Nth(r, i)] BY <1>3, <1>6, <2>3
  <2>5. ring'[r][t].who = who BY <1>3, <1>6
  <2>6. Depth(r) \in Nat /\ dequeue[r] \in 0 .. N BY <1>1, <1>3, ListedIs, RingIs
  <2>7. CASE Side(r) = 0
    <3>1. Depth(r)' = Depth(r) + 1 BY <1>0, <1>3, <1>5, <1>8, <1>9, <2>6, <2>7 DEF Depth
    <3>2. Listed(r)' = Append(Listed(r), who) BY <1>1, <1>3, <2>2, <2>3, <2>4, <2>5, <3>1, ListedGrows
    <3> QED BY <1>9, <2>1, <3>2 DEF Adds
  <2>8. CASE Side(r) # 0
    <3>1. Depth(r)' = Depth(r) BY <1>0, <1>3, <1>5, <1>8, <1>9, <2>8 DEF Depth
    <3>2. Listed(r)' = Listed(r) BY <2>2, <2>4, <3>1 DEF Listed
    <3> QED BY <2>1, <3>2 DEF Adds
  <2> QED BY <2>7, <2>8
<1> QED BY <1>3, <1>5, <1>10, <1>11, <1>12, <1>13, <1>14, <1>15, <1>16, RingKept

LEMMA EnsureKept ==
  ASSUME RingsInv, TypeInv', NEW r \in Endpoints, EnsureSpaceFor(r)
  PROVE  RingsInv' /\ Adds(r)
<1>1. TypeInv /\ Rounds /\ Controlling /\ Driving /\ Entries /\ Requested BY DEF RingsInv
<1>2. /\ who \in Clients \ waiting /\ r \in Uses[who] /\ pc = "running" /\ pc' = "place" /\ target' = r
      /\ UNCHANGED <<dequeue, consumer, events, posted, erdp, eventIndex, callbacks, who, back, waiting,
                     found, executed>>
      /\ KeepQueue
  BY <1>1 DEF EnsureSpaceFor, Driving, hardware
<1>3. /\ Side(r) \in {0, 1} /\ Top(r) \in 0 .. N - 1 /\ r # CommandRing /\ N \in Nat /\ N > 1 /\ r \in Rings
      /\ Slots(r) = 0 .. N - 2 /\ dequeue[r] \in 0 .. N /\ consumer[r] \in {0, 1}
  BY <1>1, RingIs, Sizes
<1>4. index[r] \in 0 .. 2 * N - 1 /\ index[r] % N = Top(r)
  <2>1. index[r] \in 0 .. 2 * N - 1 BY <1>1, TypeOKIs DEF TypeInv, IndexTypes
  <2> QED BY <2>1, SlotIs
<1>5. Live' = Live BY <1>2 DEF Live, Active
<1>6. \A q : ~Placed(q) /\ ~Placed(q)' BY <1>2 DEF Placed
<1>7. CASE Top(r) + 1 < N
  <2>1. UNCHANGED <<ring, index>> BY <1>4, <1>7 DEF EnsureSpaceFor
  <2>2. Rounds' /\ Controlling' /\ \A q \in Rings : Listed(q)' = Listed(q)
    <3>1. \A q \in Rings : Placed(q)' = Placed(q) BY <1>2 DEF Placed
    <3> QED BY <1>1, <1>2, <2>1, <3>1, RoundsKept
  <2>3. Settled BY <1>2, <2>1, SettledIs
  <2>4. Top(r)' = Top(r) BY <2>1, IndexKept
  <2>5. Driving' BY <1>1, <1>2, <1>3, <1>5, <1>7, <2>4 DEF Driving, Handling
  <2>6. Handling' = Handling BY <1>2 DEF Handling
  <2>7. Adds(r) BY <1>3, <2>2 DEF Adds
  <2> QED BY <1>2, <2>1, <2>2, <2>3, <2>5, <2>6, <2>7, RingKept
<1>8. CASE ~(Top(r) + 1 < N)
  <2> DEFINE b == [kind |-> "link", who |-> Nobody, ioc |-> FALSE, cycle |-> CycleAt(index[r], N)]
  <2>1. Top(r) = N - 1 BY <1>3, <1>8
  <2>2. ring' = [ring EXCEPT ![r][N - 1] = b] /\ index' = [index EXCEPT ![r] = NextRound(@)]
    BY <1>4, <1>8, <2>1 DEF EnsureSpaceFor
  <2>3. b.cycle = Side(r) BY <1>4, SlotIs
  <2>4. b.kind = "link" OBVIOUS
  <2> HIDE DEF b
  <2>5. \A q \in Rings, s \in 0 .. N - 1 : ring'[q][s] = IF q = r /\ s = N - 1 THEN b ELSE ring[q][s]
    BY <1>1, <1>3, <2>2, TypeOKIs DEF TypeInv, RingTypes
  <2>6. index'[r] = NextRound(index[r]) /\ \A q \in Rings : q # r => index'[q] = index[q]
    BY <1>3, <2>2 DEF TypeInv
  <2>7. Top(r)' = 0 /\ Side(r)' = 1 - Side(r) /\ Slots(r)' = Slots(r)
    BY <1>3, <1>4, <2>6 DEF Top, Side, Slots, NextRound, CycleAt
  <2>8. \A q \in Rings : q # r => /\ Top(q)' = Top(q) /\ Side(q)' = Side(q) /\ Slots(q)' = Slots(q)
                                  /\ \A s : Behind(q, s)' = Behind(q, s)
    BY <2>6, IndexKept
  <2>9. consumer[r] = Side(r) /\ dequeue[r] <= N - 1
    <3>1. consumer[r] # Side(r) => Top(r) < dequeue[r] BY <1>2, NotFull
    <3> QED BY <1>1, <1>3, <2>1, <3>1, Ahead1Is
  <2>10. \A q : Written(q) = Top(q) /\ Written(q)' = Top(q)' BY <1>6 DEF Written
  <2>11. Rounds'
    <3> SUFFICES ASSUME NEW q \in Rings, NEW s \in 0 .. N - 1
                 PROVE ring'[q][s].cycle = IF s < Top(q)' THEN Side(q)' ELSE 1 - Side(q)'
      BY <2>10 DEF Rounds
    <3>1. ring[q][s].cycle = IF s < Top(q) THEN Side(q) ELSE 1 - Side(q) BY <1>1, <2>10 DEF Rounds
    <3>2. CASE q # r BY <2>5, <2>8, <3>1, <3>2
    <3>3. CASE q = r /\ s = N - 1 BY <1>3, <2>3, <2>5, <2>7, <3>3
    <3>4. CASE q = r /\ s # N - 1 BY <1>3, <2>1, <2>5, <2>7, <3>1, <3>4
    <3> QED BY <3>2, <3>3, <3>4
  <2>12. Controlling'
    <3>1. ASSUME NEW q \in Rings
          PROVE  IF consumer[q] = Side(q)'
                   THEN dequeue[q] <= Top(q)'
                   ELSE /\ Top(q)' <= dequeue[q] /\ dequeue[q] <= N - 1
                        /\ ring'[q][N - 1].kind = "link"
      <4>1. CASE q = r
        <5>1. N - 1 \in 0 .. N - 1 /\ ring'[r][N - 1].kind = "link" BY <1>3, <2>4, <2>5
        <5> QED BY <1>3, <2>7, <2>9, <4>1, <5>1
      <4>2. CASE q # r
        <5>1. ring'[q][N - 1] = ring[q][N - 1]
          <6>1. N - 1 \in 0 .. N - 1 BY <1>3
          <6> QED BY <2>5, <4>2, <6>1
        <5> QED BY <1>1, <2>8, <4>2, <5>1 DEF Controlling
      <4> QED BY <4>1, <4>2
    <3> QED BY <1>1, <1>2, <1>6, <3>1 DEF Controlling
  <2>13. Settled
    <3>1. \A s \in Slots(r) : Behind(r, s)' = Behind(r, s) BY <1>3, <2>1, <2>7 DEF Behind
    <3>2. Ahead1(r)' = Ahead1(r)
      <4>1. Ahead1(r)' = 0 - dequeue[r] + N - 1 BY <1>2, <1>3, <2>7, <2>9 DEF Ahead1
      <4>2. Ahead1(r) = N - 1 - dequeue[r] BY <1>3, <2>1, <2>9 DEF Ahead1
      <4> QED BY <1>3, <4>1, <4>2
    <3>3. \A q \in Rings : q # r => Ahead1(q)' = Ahead1(q) BY <1>2, <2>6, AheadKept
    <3> QED BY <1>2, <1>5, <2>7, <2>8, <3>1, <3>2, <3>3 DEF Settled
  <2>14. \A x \in Live : ring'[RingOf(x)][SlotOf(x)] = ring[RingOf(x)][SlotOf(x)]
    <3> SUFFICES ASSUME NEW x \in Live PROVE ring'[RingOf(x)][SlotOf(x)] = ring[RingOf(x)][SlotOf(x)]
      OBVIOUS
    <3>1. /\ RingOf(x) \in Rings /\ SlotOf(x) \in Slots(RingOf(x)) /\ SlotOf(x) \in 0 .. N - 1
      BY <1>1, LiveIs, BehindIs
    <3>2. ~(RingOf(x) = r /\ SlotOf(x) = N - 1) BY <1>3, <3>1
    <3> QED BY <2>5, <3>1, <3>2
  <2>15. Driving' BY <1>1, <1>2, <1>3, <1>5, <2>7 DEF Driving, Handling
  <2>16. Handling' = Handling BY <1>2 DEF Handling
  <2>17. Adds(r)
    <3>1. \A q \in Rings : q # r => Listed(q)' = Listed(q)
      BY <1>1, <1>2, <2>5, <2>6, <2>8, <2>10, ListedOther
    <3>2. Depth(r) = N - 1 - dequeue[r] /\ Depth(r)' = 0 - dequeue[r] + N - 1 /\ consumer[r] # Side(r)'
      BY <1>2, <1>3, <2>1, <2>7, <2>9, <2>10 DEF Depth
    <3>3. \A i \in 1 .. Depth(r) : Nth(r, i)' = Nth(r, i) /\ Nth(r, i) \in 0 .. N - 2
      BY <1>2, <1>3, <2>9, <3>2 DEF Nth
    <3>4. \A i \in 1 .. Depth(r) : ring'[r][Nth(r, i)] = ring[r][Nth(r, i)] BY <1>3, <2>5, <3>3
    <3>5. Depth(r)' = Depth(r) BY <1>3, <3>2
    <3>6. Listed(r)' = Listed(r) BY <3>3, <3>4, <3>5 DEF Listed
    <3> QED BY <3>1, <3>6 DEF Adds
  <2> QED BY <1>2, <2>11, <2>12, <2>13, <2>14, <2>15, <2>16, <2>17, RingKept
<1> QED BY <1>7, <1>8

-----------------------------------------------------------------------------
(* The controller executes a request.                                      *)

\* It is the oldest complete request that it has not executed.
LEMMA ExecuteIs ==
  ASSUME RingsInv, ~EarlyLook, NEW r \in Rings, Execute(r), NEW d, d = dequeue[r]
  PROVE  /\ d \in Slots(r) /\ Behind(r, d) = Ahead1(r) /\ d + 1 <= N
         /\ consumer[r] = Side(r) => d < Top(r)
         /\ consumer[r] # Side(r) => d < N - 1 /\ Top(r) <= d
         /\ \E x \in Live : /\ x.addr = <<r, d>> /\ x.who = ring[r][d].who /\ ring[r][d].ioc
                            /\ x.who \notin executed /\ Age(x) = Ahead1(r)
<1>1. TypeInv /\ Rounds /\ Controlling /\ Driving /\ Unexecuted BY DEF RingsInv
<1>2. /\ d \in 0 .. N - 1 /\ ring[r][d].kind = "request" /\ ring[r][d].cycle = consumer[r]
      /\ ~(pc = "publish" /\ r = target /\ d = Slot)
  BY <1>1, RingIs, Sizes DEF Execute, IsValid, Valid, Block
<1>3. /\ Side(r) \in {0, 1} /\ consumer[r] \in {0, 1} /\ Top(r) \in 0 .. N /\ N \in Nat /\ N > 1
      /\ r \in Endpoints => Top(r) \in 0 .. N - 1 /\ Slots(r) = 0 .. N - 2
      /\ r \notin Endpoints => Slots(r) = 0 .. Top(r) - 1
  BY <1>1, RingIs, Sizes
<1>4. CASE consumer[r] = Side(r)
  <2>1. d <= Top(r) /\ Ahead1(r) = Top(r) - d BY <1>1, <1>4, Ahead1Is
  <2>2. d < Written(r) BY <1>1, <1>2, <1>3, <1>4 DEF Rounds
  <2>3. d # Top(r)
    <3> SUFFICES ASSUME d = Top(r) PROVE FALSE OBVIOUS
    <3>1. Placed(r) BY <1>1, <1>3, <2>2, WrittenIs
    <3>2. r \in Endpoints /\ index[r] \in 0 .. 2 * N - 1
      BY <1>1, <3>1, TypeOKIs DEF Placed, Driving, TypeInv, IndexTypes
    <3>3. Slot = Top(r) BY <3>1, <3>2, SlotIs DEF Slot, Placed
    <3> QED BY <1>2, <3>1, <3>3 DEF Placed
  <2>4. d < Top(r) BY <1>2, <1>3, <2>1, <2>3
  <2>5. d \in Slots(r) BY <1>2, <1>3, <2>4
  <2>6. Behind(r, d) = Ahead1(r) BY <2>1, <2>4 DEF Behind
  <2>7. PICK x \in Live : x.addr = <<r, d>>
    <3>1. Behind(r, d) <= Ahead1(r) BY <1>2, <1>3, <2>1, <2>6
    <3> QED BY <1>1, <2>5, <3>1 DEF Unexecuted
  <2>8. RingOf(x) = r /\ SlotOf(x) = d BY <2>7 DEF RingOf, SlotOf
  <2>9. Age(x) = Ahead1(r) BY <2>6, <2>8 DEF Age
  <2>10. Age(x) <= Ahead1(r) BY <1>2, <1>3, <2>1, <2>9
  <2>11. ring[r][d].who = x.who /\ ring[r][d].ioc /\ x.who \notin executed
    BY <1>1, <2>8, <2>10 DEF Unexecuted
  <2> QED BY <1>2, <1>3, <1>4, <2>4, <2>5, <2>6, <2>7, <2>9, <2>11
<1>5. CASE consumer[r] # Side(r)
  <2>1. r \in Endpoints /\ Top(r) <= d /\ d <= N - 1 /\ Ahead1(r) = Top(r) - d + N - 1
    BY <1>1, <1>5, Ahead1Is
  <2>2. d # N - 1 BY <1>1, <1>2, <1>5 DEF Controlling
  <2>3. d \in Slots(r) /\ d < N - 1 BY <1>2, <1>3, <2>1, <2>2
  <2>4. Behind(r, d) = Ahead1(r) BY <1>2, <1>3, <2>1 DEF Behind
  <2>5. PICK x \in Live : x.addr = <<r, d>>
    <3>1. Behind(r, d) <= Ahead1(r) BY <1>2, <1>3, <2>1, <2>4
    <3> QED BY <1>1, <2>3, <3>1 DEF Unexecuted
  <2>6. RingOf(x) = r /\ SlotOf(x) = d BY <2>5 DEF RingOf, SlotOf
  <2>7. Age(x) = Ahead1(r) BY <2>4, <2>6 DEF Age
  <2>8. Age(x) <= Ahead1(r) BY <1>2, <1>3, <2>1, <2>7
  <2>9. ring[r][d].who = x.who /\ ring[r][d].ioc /\ x.who \notin executed
    BY <1>1, <2>6, <2>8 DEF Unexecuted
  <2> QED BY <1>2, <1>3, <1>5, <2>1, <2>3, <2>4, <2>5, <2>7, <2>9
<1> QED BY <1>4, <1>5

LEMMA ExecuteKept ==
  ASSUME RingsInv, TypeInv', ~EarlyLook, NEW r \in Rings, Execute(r)
  PROVE  /\ RingsInv' /\ \A q \in Rings : q # r => Listed(q)' = Listed(q)
         /\ Listed(r) # <<>> /\ Listed(r)' = Tail(Listed(r))
         /\ executed' = executed \cup {Head(Listed(r))}
<1>1. /\ TypeInv /\ Rounds /\ Controlling /\ Entries /\ Requested /\ Unexecuted /\ EventRounds
      /\ Apart /\ Answered /\ Telling /\ Driving
  BY DEF RingsInv
<1>2. PICK d : d = dequeue[r] OBVIOUS
<1>3. /\ d \in Slots(r) /\ Behind(r, d) = Ahead1(r) /\ d + 1 <= N
      /\ consumer[r] = Side(r) => d < Top(r)
      /\ consumer[r] # Side(r) => d < N - 1 /\ Top(r) <= d
  BY <1>2, ExecuteIs
<1>4. PICK x \in Live : /\ x.addr = <<r, d>> /\ x.who = ring[r][d].who /\ ring[r][d].ioc
                        /\ x.who \notin executed /\ Age(x) = Ahead1(r)
  BY <1>2, ExecuteIs
<1>5. /\ dequeue' = [dequeue EXCEPT ![r] = d + 1] /\ executed' = executed \cup {x.who}
      /\ PostEvent(x.addr) /\ KeepQueue
      /\ UNCHANGED <<ring, index, consumer, armed, changes, erdp, eventIndex, callbacks, pc, client, found>>
  BY <1>2, <1>4 DEF Execute, Block
<1>6. dequeue'[r] = d + 1 /\ \A q \in Rings : q # r => dequeue'[q] = dequeue[q]
  BY <1>1, <1>5, TypeOKIs DEF TypeInv, RingTypes
<1>7. PICK p : p = Past OBVIOUS
<1>8. /\ EventRounds' /\ Apart'
      /\ Pending' = Pending \cup {p} /\ p \notin Pending /\ Pending \subseteq 0 .. E - 1
      /\ events'[p].addr = x.addr
      /\ \A e \in Pending : events'[e] = events[e] /\ Time(e)' < Time(p)'
      /\ \A e, f \in Pending : Time(e)' < Time(f)' => Time(e) < Time(f)
  BY <1>1, <1>5, <1>7, PostIs DEF client
<1>9. /\ \A q : Top(q)' = Top(q) /\ Side(q)' = Side(q) /\ Slots(q)' = Slots(q)
      /\ \A q, s : Behind(q, s)' = Behind(q, s)
      /\ \A q : Written(q)' = Written(q)
  <2>1. /\ \A q : Top(q)' = Top(q) /\ Side(q)' = Side(q) /\ Slots(q)' = Slots(q)
        /\ \A q, s : Behind(q, s)' = Behind(q, s)
    BY <1>5, IndexKept
  <2> QED BY <1>5, <2>1 DEF Placed, Written, client
<1>10. Rounds' BY <1>1, <1>5, <1>9 DEF Rounds
<1>11. d \in 0 .. N - 1 /\ N \in Nat /\ N > 1 /\ Top(r) \in 0 .. N BY <1>1, <1>3, BehindIs, RingIs, Sizes
<1>12. Controlling'
  <2>1. ASSUME NEW q \in Rings
        PROVE  IF consumer[q] = Side(q)
                 THEN dequeue'[q] <= Top(q)
                 ELSE /\ Top(q) <= dequeue'[q] /\ dequeue'[q] <= N - 1
                      /\ (pc = "publish" /\ target = q) => Top(q) < dequeue'[q]
                      /\ ring[q][N - 1].kind = "link"
    <3>1. CASE q = r BY <1>1, <1>3, <1>6, <1>11, <3>1 DEF Controlling
    <3>2. CASE q # r BY <1>1, <1>6, <3>2 DEF Controlling, Placed
    <3> QED BY <3>1, <3>2
  <2> QED BY <1>1, <1>5, <1>9, <2>1 DEF Controlling, Placed, client
<1>13. Live' = Live /\ Entries' BY <1>1, <1>5 DEF Entries, Live, Active, client
<1>14. Driving' BY <1>1, <1>5, <1>9, <1>13 DEF Driving, Handling, client
<1>15. Queued' BY <1>5, <1>10, <1>12, <1>14, QueuedNext
<1>16. Ahead1(r) \in Nat /\ Ahead1(r)' = Ahead1(r) - 1 /\ \A q \in Rings : q # r => Ahead1(q)' = Ahead1(q)
  <2>1. Ahead1(r)' = Ahead1(r) - 1
    <3>1. CASE consumer[r] = Side(r) BY <1>2, <1>5, <1>6, <1>9, <1>11, <3>1 DEF Ahead1
    <3>2. CASE consumer[r] # Side(r) BY <1>2, <1>5, <1>6, <1>9, <1>11, <3>2 DEF Ahead1
    <3> QED BY <3>1, <3>2
  <2>2. \A q \in Rings : q # r => Ahead1(q)' = Ahead1(q) BY <1>5, <1>6, AheadKept
  <2> QED BY <1>1, <2>1, <2>2, Ahead1Is
<1>17. ASSUME NEW y \in Live
       PROVE  /\ Age(y)' = Age(y) /\ RingOf(y)' = RingOf(y) /\ SlotOf(y)' = SlotOf(y)
              /\ RingOf(y) \in Rings /\ SlotOf(y) \in Slots(RingOf(y)) /\ Age(y) \in Nat
              /\ Ahead1(RingOf(y)) \in Nat
              /\ y.addr = <<RingOf(y), SlotOf(y)>> /\ y.addr # PortChange
              /\ (y.who = x.who \/ y.addr = x.addr => y = x)
              /\ (RingOf(y) = r /\ Age(y) = Ahead1(r) => y = x)
              /\ (Executed(y)' <=> Executed(y) \/ y = x)
  <2>1. /\ RingOf(y) \in Rings /\ SlotOf(y) \in Slots(RingOf(y)) /\ y.addr = <<RingOf(y), SlotOf(y)>>
        /\ y.addr # PortChange /\ (y.who = x.who \/ y.addr = x.addr => y = x)
    BY <1>1, <1>4, LiveIs
  <2>2. RingOf(y)' = RingOf(y) /\ SlotOf(y)' = SlotOf(y) BY DEF RingOf, SlotOf
  <2>3. Age(y)' = Age(y) BY <1>9, <2>2 DEF Age
  <2>4. Age(y) \in 1 .. N /\ Ahead1(RingOf(y)) \in Nat BY <1>1, <2>1, BehindIs, Ahead1Is DEF Age
  <2>5. RingOf(y) = r /\ Age(y) = Ahead1(r) => y = x
    <3> SUFFICES ASSUME RingOf(y) = r, Age(y) = Ahead1(r) PROVE y = x OBVIOUS
    <3>1. Behind(r, SlotOf(y)) = Behind(r, d) BY <1>3 DEF Age
    <3>2. SlotOf(y) = d BY <1>1, <1>3, <2>1, <3>1, BehindIs
    <3> QED BY <1>4, <2>1, <3>2
  <2>6. RingOf(x) = r BY <1>4 DEF RingOf
  <2>7. Executed(y)' <=> Age(y) > Ahead1(RingOf(y))' BY <2>2, <2>3 DEF Executed
  <2>8. Executed(y)' <=> Executed(y) \/ y = x
    <3>1. CASE RingOf(y) = r
      <4>1. Ahead1(RingOf(y))' = Ahead1(r) - 1 BY <1>16, <2>2, <3>1
      <4>2. y = x => Age(y) = Ahead1(r) BY <1>4
      <4> QED BY <1>16, <2>4, <2>5, <2>7, <3>1, <4>1, <4>2 DEF Executed
    <3>2. CASE RingOf(y) # r
      <4>1. Ahead1(RingOf(y))' = Ahead1(RingOf(y)) BY <1>16, <2>1, <2>2, <3>2
      <4> QED BY <2>6, <2>7, <3>2, <4>1 DEF Executed
    <3> QED BY <3>1, <3>2
  <2> QED BY <2>1, <2>2, <2>3, <2>4, <2>5, <2>8
<1>18. Requested'
  <2>1. ASSUME NEW y \in Live
        PROVE  /\ y.addr = <<RingOf(y), SlotOf(y)>> /\ RingOf(y) \in Uses[y.who]
               /\ SlotOf(y) \in Slots(RingOf(y))'
               /\ \A s \in Slots(RingOf(y))' : Behind(RingOf(y), s)' <= Age(y)' =>
                    \E z \in Live : z.addr = <<RingOf(y), s>>
    BY <1>1, <1>9, <1>17 DEF Requested, RingOf
  <2> QED BY <1>13, <2>1 DEF Requested, RingOf, SlotOf
<1>19. Unexecuted'
  <2>1. ASSUME NEW q \in Rings, NEW s \in Slots(q)', Behind(q, s)' <= Ahead1(q)'
        PROVE  \E y \in Live' : y.addr = <<q, s>>
    <3>1. s \in Slots(q) /\ Behind(q, s) <= Ahead1(q)'  BY <1>9, <2>1
    <3>2. Behind(q, s) \in 1 .. N /\ Ahead1(q) \in Nat BY <1>1, <3>1, BehindIs, Ahead1Is
    <3>3. Behind(q, s) <= Ahead1(q) BY <1>11, <1>16, <3>1, <3>2
    <3> QED BY <1>1, <1>13, <3>1, <3>3 DEF Unexecuted
  <2>2. ASSUME NEW y \in Live', (Age(y) <= Ahead1(RingOf(y)))'
        PROVE  LET trb == ring[RingOf(y)][SlotOf(y)]' IN
               trb.kind = "request" /\ trb.who = y.who /\ trb.ioc /\ y.who \notin executed'
    <3>1. y \in Live BY <1>13
    <3>2. (Ahead1(RingOf(y)) \in Nat)'
      <4>1. CASE RingOf(y) = r
        <5>1. Behind(r, d) \in 1 .. N BY <1>1, <1>3, BehindIs
        <5> QED BY <1>3, <1>16, <1>17, <3>1, <4>1, <5>1
      <4>2. CASE RingOf(y) # r BY <1>16, <1>17, <3>1, <4>2
      <4> QED BY <4>1, <4>2
    <3>3. ~Executed(y)' BY <1>17, <2>2, <3>1, <3>2 DEF Executed
    <3>4. ~Executed(y) /\ y # x /\ y.who # x.who BY <1>17, <3>1, <3>3
    <3>5. Age(y) <= Ahead1(RingOf(y)) BY <1>17, <3>1, <3>4 DEF Executed
    <3> QED BY <1>1, <1>5, <1>17, <3>1, <3>4, <3>5 DEF Unexecuted
  <2> QED BY <2>1, <2>2 DEF Unexecuted
<1>20. Answered'
  <2>1. ASSUME NEW y \in Live', Executed(y)'
        PROVE  y.who \in executed' /\ \E e \in Pending' : events'[e].addr = y.addr
    <3>1. CASE y = x BY <1>5, <1>8, <3>1
    <3>2. CASE y # x
      <4>1. y \in Live /\ Executed(y) BY <1>13, <1>17, <2>1, <3>2
      <4>2. PICK e \in Pending : events[e].addr = y.addr BY <1>1, <4>1 DEF Answered
      <4> QED BY <1>1, <1>5, <1>8, <4>1, <4>2 DEF Answered
    <3> QED BY <3>1, <3>2
  <2>2. ASSUME NEW c \in executed' PROVE \E y \in Live' : y.who = c /\ Executed(y)'
    <3>1. CASE c = x.who BY <1>4, <1>13, <1>17, <3>1
    <3>2. CASE c # x.who
      <4>1. PICK y \in Live : y.who = c /\ Executed(y) BY <1>1, <1>5, <3>2 DEF Answered
      <4> QED BY <1>13, <1>17, <4>1
    <3> QED BY <3>1, <3>2
  <2> QED BY <2>1, <2>2 DEF Answered
<1>21. Telling'
  <2>1. ASSUME NEW e \in Pending'
        PROVE  events'[e].addr = PortChange \/ \E y \in Live' : events'[e].addr = y.addr /\ Executed(y)'
    <3>1. CASE e = p BY <1>4, <1>8, <1>13, <1>17, <3>1
    <3>2. CASE e # p
      <4>1. e \in Pending /\ events'[e] = events[e] BY <1>8, <3>2
      <4> QED BY <1>1, <1>13, <1>17, <4>1 DEF Telling
    <3> QED BY <3>1, <3>2
  <2>2. ASSUME NEW e \in Pending', NEW f \in Pending', NEW y \in Live', NEW z \in Live',
               events'[e].addr = y.addr, events'[f].addr = z.addr, RingOf(y)' = RingOf(z)',
               Time(e)' < Time(f)'
        PROVE  Age(z)' < Age(y)'
    <3>1. y \in Live /\ z \in Live BY <1>13
    <3>2. e # p
      <4>1. \A g \in Pending' : Time(g)' \in Int
        <5>1. Past' \in Int /\ E \in Nat
          <6>1. posted' \in 0 .. 2 * E - 1 BY TypeOKIsNext DEF TypeInv, IndexTypes
          <6> QED BY <6>1, Sizes DEF Past, Wrap
        <5>2. \A g \in Pending' : g \in 0 .. E - 1 BY <1>1, <1>7, <1>8, EventIs
        <5> QED BY <5>1, <5>2 DEF Time
      <4>2. Time(e)' \in Int /\ Time(f)' \in Int BY <4>1
      <4>3. f # e BY <2>2, <4>2
      <4>4. e = p => f \in Pending /\ Time(f)' < Time(e)' BY <1>8, <4>3
      <4> QED BY <2>2, <4>2, <4>4
    <3>3. e \in Pending /\ events[e].addr = y.addr BY <1>8, <2>2, <3>2
    <3>4. CASE f = p
      <4>1. z = x BY <1>8, <1>17, <2>2, <3>1, <3>4
      <4>2. RingOf(y) = r BY <1>4, <1>17, <2>2, <3>1, <4>1 DEF RingOf
      <4>3. PICK u \in Live : events[e].addr = u.addr /\ Executed(u)
        BY <1>1, <1>17, <3>1, <3>3 DEF Telling
      <4>4. u = y BY <1>1, <3>1, <3>3, <4>3, LiveIs
      <4>5. Age(y) > Ahead1(r) BY <4>2, <4>3, <4>4 DEF Executed
      <4> QED BY <1>4, <1>16, <1>17, <3>1, <4>1, <4>5
    <3>5. CASE f # p
      <4>1. f \in Pending /\ events[f].addr = z.addr /\ Time(e) < Time(f) BY <1>8, <2>2, <3>3, <3>5
      <4>2. RingOf(y) = RingOf(z) BY <1>17, <2>2, <3>1
      <4>3. Age(z) < Age(y) BY <1>1, <3>1, <3>3, <4>1, <4>2 DEF Telling
      <4> QED BY <1>17, <3>1, <4>3
    <3> QED BY <3>4, <3>5
  <2> QED BY <2>1, <2>2 DEF Telling
<1>22. \A q \in Rings : q # r => Listed(q)' = Listed(q) BY <1>1, <1>5, <1>6, <1>9, ListedOther
<1>23. Listed(r) # <<>> /\ Listed(r)' = Tail(Listed(r)) /\ Head(Listed(r)) = x.who
  <2>1. PICK g, h, k : g = Listed(r) /\ h = Listed(r)' /\ k = Depth(r)' OBVIOUS
  <2>2. Depth(r) \in Nat /\ IsSeq(g, Depth(r)) /\ Depth(r) > 0
    <3>1. /\ Depth(r) \in Nat /\ IsSeq(Listed(r), Depth(r)) /\ Depth(r) = Ahead1(r) + Written(r) - Top(r)
          /\ Top(r) <= Written(r) /\ Written(r) \in 0 .. N
      BY <1>1, ListedIs, WrittenIs
    <3>2. Ahead1(r) \in 1 .. N BY <1>1, <1>3, BehindIs
    <3> QED BY <1>11, <2>1, <3>1, <3>2
  <2>3. k = Depth(r) - 1 /\ k \in Nat
    <3>1. Written(r) \in 0 .. N BY <1>1, WrittenIs
    <3>2. k = Depth(r) - 1 BY <1>2, <1>5, <1>6, <1>9, <1>11, <2>1, <3>1 DEF Depth
    <3> QED BY <2>2, <3>2
  <2>4. \A i \in 1 .. k : Nth(r, i)' = Nth(r, i + 1) /\ i + 1 \in 1 .. Depth(r)
    BY <1>2, <1>5, <1>6, <1>9, <1>11, <2>2, <2>3 DEF Nth
  <2>5. Nth(r, 1) = d BY <1>2, <1>3, <1>11 DEF Nth
  <2>6. Listed(r)' = [i \in 1 .. k |-> ring[r][Nth(r, i)'].who] BY <1>5, <2>1 DEF Listed
  <2>7. \A i \in 1 .. k : h[i] = g[i + 1] BY <2>1, <2>4, <2>6 DEF Listed
  <2>8. IsSeq(h, k) BY <2>1, <2>6 DEF IsSeq
  <2>9. k + 1 = Depth(r) BY <2>2, <2>3
  <2>10. g # <<>> /\ Head(g) = g[1] /\ h = Tail(g) BY <2>2, <2>3, <2>7, <2>8, <2>9, Tailed
  <2>11. g[1] = x.who
    <3>1. 1 \in 1 .. Depth(r) BY <2>2
    <3> QED BY <1>4, <2>1, <2>5, <3>1 DEF Listed
  <2> QED BY <2>1, <2>10, <2>11
<1> QED
  BY <1>5, <1>8, <1>10, <1>12, <1>13, <1>14, <1>15, <1>18, <1>19, <1>20, <1>21, <1>22, <1>23 DEF RingsInv

-----------------------------------------------------------------------------
(* The driver submits a request.                                           *)

\* The call is added; nothing else of the list changes.
LEMMA AwaitIs ==
  ASSUME TypeInv, Entries, NEW r, NEW t, AwaitStatus(r, t), found' = found, who \notin waiting,
         \A x \in Live : x.addr # <<r, t>>, NEW c, c = [addr |-> <<r, t>>, who |-> who]
  PROVE  Live' = Live \cup {c} /\ Entries' /\ c \notin Live
<1> DEFINE T == [addr : Addresses, who : Clients]  k == Len(callbacks) + 1
<1>1. callbacks \in Seq(T) /\ Len(callbacks) \in Nat /\ found \in 0 .. Len(callbacks)
  BY TypeOKIs DEF TypeInv, DriverTypes
<1>2. callbacks' = Append(callbacks, c) /\ waiting' = waiting \cup {who} BY DEF AwaitStatus
<1> HIDE DEF T
<1>3. DOMAIN callbacks = 1 .. k - 1 BY <1>1
<1>4. DOMAIN callbacks' = 1 .. k /\ callbacks'[k] = c /\ \A i \in 1 .. k - 1 : callbacks'[i] = callbacks[i]
  <2> DEFINE S == T \cup {c}
  <2>1. callbacks \in Seq(S) /\ c \in S
    <3>1. \A i \in 1 .. Len(callbacks) : callbacks[i] \in S BY <1>1
    <3> HIDE DEF S
    <3>2. callbacks \in Seq(S) BY <1>1, <3>1
    <3> QED BY <3>2 DEF S
  <2> HIDE DEF S
  <2>2. /\ Len(callbacks') = k /\ callbacks' \in Seq(S) /\ callbacks'[k] = c
        /\ \A i \in 1 .. k - 1 : callbacks'[i] = callbacks[i]
    BY <1>1, <1>2, <2>1, AppendProperties
  <2> QED BY <1>1, <2>2
<1>5. k \notin Active /\ Active' = Active \cup {k} /\ Active \subseteq 1 .. k - 1
  BY <1>1, <1>3, <1>4 DEF Active
<1>6. \A n \in Active : callbacks'[n] = callbacks[n] BY <1>4, <1>5
<1> HIDE DEF k
<1>7. Live' = Live \cup {c}
  <2>1. \A x \in Live' : x \in Live \cup {c} BY <1>4, <1>5, <1>6 DEF Live
  <2>2. \A x \in Live \cup {c} : x \in Live' BY <1>4, <1>5, <1>6 DEF Live
  <2> QED BY <2>1, <2>2
<1>8. \A n \in Active : callbacks[n] \in Live /\ callbacks[n].who # who /\ callbacks[n].addr # <<r, t>>
  BY DEF Entries, Live
<1>9. ASSUME NEW m \in Active', NEW n \in Active', m # n
      PROVE  callbacks'[m].who # callbacks'[n].who /\ callbacks'[m].addr # callbacks'[n].addr
  <2>1. CASE m \in Active /\ n \in Active BY <1>6, <1>9, <2>1 DEF Entries
  <2>2. CASE m = k /\ n \in Active BY <1>4, <1>6, <1>8, <2>2
  <2>3. CASE n = k /\ m \in Active BY <1>4, <1>6, <1>8, <2>3
  <2> QED BY <1>5, <1>9, <2>1, <2>2, <2>3
<1>10. waiting' = {x.who : x \in Live'} BY <1>2, <1>7 DEF Entries
<1> QED BY <1>7, <1>9, <1>10 DEF Entries

LEMMA SubmitKept ==
  ASSUME RingsInv, TypeInv', Rounds', Controlling', KeepQueue,
         NEW r \in Rings, NEW t, t = Top(r), AwaitStatus(r, t), pc \in {"running", "publish"},
         who \in Clients \ waiting, r \in Uses[who], \A x \in Live : x.addr # <<r, t>>,
         Top(r)' = t + 1, Side(r)' = Side(r), Slots(r)' = Slots(r) \cup {t},
         \A q \in Rings : q # r => index'[q] = index[q],
         ring'[r][t].kind = "request", ring'[r][t].who = who, ring'[r][t].ioc,
         \A q \in Rings, s \in 0 .. N - 1 : q # r \/ s # t => ring'[q][s] = ring[q][s],
         UNCHANGED <<dequeue, consumer, events, posted, erdp, eventIndex, found, executed>>
  PROVE  RingsInv'
<1>1. /\ TypeInv /\ Controlling /\ Entries /\ Requested /\ Unexecuted /\ EventRounds /\ Apart
      /\ Answered /\ Telling /\ Driving
  BY DEF RingsInv
<1> DEFINE new == [addr |-> <<r, t>>, who |-> who]
<1>2. PICK c : c = new OBVIOUS
<1>3. Live' = Live \cup {c} /\ Entries' /\ c \notin Live BY <1>1, <1>2, AwaitIs
<1>4. c.addr = <<r, t>> /\ c.who = who /\ RingOf(c) = r /\ SlotOf(c) = t BY <1>2 DEF RingOf, SlotOf
<1> HIDE DEF new
<1>5. pc' = back /\ back' = "idle" /\ back \in {"idle", "finish"}
  BY <1>1, TypeOKIs DEF AwaitStatus, Return, TypeInv, DriverTypes
<1>6. Handling' = Handling BY <1>5 DEF Handling
<1>7. Driving' BY <1>1, <1>5, <1>6 DEF Driving
<1>8. Queued' BY <1>7, QueuedNext
<1>9. EventRounds' /\ Apart' /\ Pending' = Pending
  <2>1. First' = First /\ Past' = Past /\ SameRound' = SameRound BY DEF First, Past, SameRound
  <2>2. Unhandled' = Unhandled BY <2>1 DEF Unhandled
  <2> QED BY <1>1, <1>6, <2>1, <2>2 DEF EventRounds, Apart, Pending
<1>10. N \in Nat /\ N > 1 /\ t \in 0 .. N /\ dequeue[r] \in 0 .. N BY <1>1, RingIs, Sizes
<1>11. Ahead1(r) \in Nat /\ Ahead1(r)' = Ahead1(r) + 1 /\ \A q \in Rings : q # r => Ahead1(q)' = Ahead1(q)
  <2>1. Ahead1(r)' = Ahead1(r) + 1 BY <1>10 DEF Ahead1
  <2> QED BY <1>1, <2>1, Ahead1Is, AheadKept
<1>12. /\ Behind(r, t)' = 1
       /\ \A s \in Slots(r) : /\ s \in 0 .. N - 1 /\ Behind(r, s) \in 1 .. N
                              /\ s # t => Behind(r, s)' = Behind(r, s) + 1
  <2>1. \A s \in Slots(r) : s \in 0 .. N - 1 /\ Behind(r, s) \in 1 .. N BY <1>1, BehindIs
  <2>2. Behind(r, t)' = 1 BY <1>10 DEF Behind
  <2>3. \A s \in 0 .. N - 1 : s # t => Behind(r, s)' = Behind(r, s) + 1 BY <1>10 DEF Behind
  <2> QED BY <2>1, <2>2, <2>3
<1>13. \A q \in Rings : q # r => Slots(q)' = Slots(q) /\ \A s : Behind(q, s)' = Behind(q, s)
  BY IndexKept
<1>14. \A x : RingOf(x)' = RingOf(x) /\ SlotOf(x)' = SlotOf(x) BY DEF RingOf, SlotOf
<1>15. ASSUME NEW y \in Live
       PROVE  /\ RingOf(y) \in Rings /\ SlotOf(y) \in Slots(RingOf(y)) /\ SlotOf(y) \in 0 .. N - 1
              /\ y.addr = <<RingOf(y), SlotOf(y)>> /\ y.addr # PortChange
              /\ Age(y) \in Nat /\ Age(y) > 0 /\ Ahead1(RingOf(y)) \in Nat
              /\ (RingOf(y) # r \/ SlotOf(y) # t)
              /\ Age(y)' = (IF RingOf(y) = r THEN Age(y) + 1 ELSE Age(y))
              /\ (Executed(y)' <=> Executed(y))
              /\ ((Age(y) <= Ahead1(RingOf(y)))' => Age(y) <= Ahead1(RingOf(y)))
  <2>1. /\ RingOf(y) \in Rings /\ SlotOf(y) \in Slots(RingOf(y)) /\ y.addr = <<RingOf(y), SlotOf(y)>>
        /\ y.addr # PortChange
    BY <1>1, LiveIs
  <2>2. /\ SlotOf(y) \in 0 .. N - 1 /\ Age(y) \in 1 .. N /\ Ahead1(RingOf(y)) \in Nat
    BY <1>1, <2>1, BehindIs, Ahead1Is DEF Age
  <2>3. RingOf(y) # r \/ SlotOf(y) # t BY <2>1
  <2>4. Age(y)' = Behind(RingOf(y), SlotOf(y))' BY DEF Age
  <2>5. CASE RingOf(y) = r
    <3>1. Behind(r, SlotOf(y))' = Behind(r, SlotOf(y)) + 1 BY <1>12, <2>1, <2>3, <2>5
    <3>2. Age(y)' = Age(y) + 1 BY <1>14, <2>5, <3>1 DEF Age
    <3>3. Ahead1(RingOf(y))' = Ahead1(RingOf(y)) + 1 BY <1>11, <1>14, <2>5
    <3>4. Executed(y)' <=> Executed(y) BY <2>2, <3>2, <3>3 DEF Executed
    <3>5. (Age(y) <= Ahead1(RingOf(y)))' => Age(y) <= Ahead1(RingOf(y)) BY <2>2, <3>2, <3>3
    <3> QED BY <2>1, <2>2, <2>3, <2>5, <3>2, <3>4, <3>5
  <2>6. CASE RingOf(y) # r
    <3>1. Age(y)' = Age(y) BY <1>13, <1>14, <2>1, <2>6 DEF Age
    <3>2. Ahead1(RingOf(y))' = Ahead1(RingOf(y)) BY <1>11, <1>14, <2>1, <2>6
    <3>3. Executed(y)' <=> Executed(y) BY <3>1, <3>2 DEF Executed
    <3>4. (Age(y) <= Ahead1(RingOf(y)))' => Age(y) <= Ahead1(RingOf(y)) BY <3>1, <3>2
    <3> QED BY <2>1, <2>2, <2>3, <2>6, <3>1, <3>3, <3>4
  <2> QED BY <2>5, <2>6
<1>16. Age(c)' = 1 /\ Ahead1(RingOf(c))' = Ahead1(r) + 1 /\ ~Executed(c)'
  <2>1. Age(c)' = 1 BY <1>4, <1>12, <1>14 DEF Age
  <2>2. Ahead1(RingOf(c))' = Ahead1(r) + 1 BY <1>4, <1>11, <1>14
  <2> QED BY <1>11, <2>1, <2>2 DEF Executed
<1>17. Requested'
  <2>1. ASSUME NEW y \in Live'
        PROVE  /\ y.addr = <<RingOf(y), SlotOf(y)>> /\ RingOf(y) \in Uses[y.who]
               /\ SlotOf(y) \in Slots(RingOf(y))'
               /\ \A s \in Slots(RingOf(y))' : Behind(RingOf(y), s)' <= Age(y)' =>
                    \E z \in Live' : z.addr = <<RingOf(y), s>>
    <3>1. CASE y = c
      <4>1. ASSUME NEW s \in Slots(r)', Behind(r, s)' <= 1 PROVE s = t
        <5> SUFFICES ASSUME s # t PROVE FALSE OBVIOUS
        <5>1. s \in Slots(r) BY <4>1
        <5> QED BY <1>12, <4>1, <5>1
      <4>2. Slots(RingOf(y))' = Slots(r)' /\ \A s : Behind(RingOf(y), s)' = Behind(r, s)'
        BY <1>4, <1>14, <3>1
      <4> QED BY <1>3, <1>4, <1>16, <3>1, <4>1, <4>2
    <3>2. CASE y \in Live /\ RingOf(y) = r
      <4>1. Slots(RingOf(y))' = Slots(r)' /\ \A s : Behind(RingOf(y), s)' = Behind(r, s)'
        BY <1>14, <3>2
      <4>2. ASSUME NEW s \in Slots(r)', Behind(r, s)' <= Age(y)' PROVE \E z \in Live' : z.addr = <<r, s>>
        <5>1. CASE s = t BY <1>3, <1>4, <5>1
        <5>2. CASE s # t
          <6>1. s \in Slots(r) BY <4>2, <5>2
          <6>2. Behind(r, s) <= Age(y) BY <1>12, <1>15, <3>2, <4>2, <5>2, <6>1
          <6> QED BY <1>1, <1>3, <3>2, <6>1, <6>2 DEF Requested
        <5> QED BY <5>1, <5>2
      <4> QED BY <1>1, <1>15, <3>2, <4>1, <4>2 DEF Requested
    <3>3. CASE y \in Live /\ RingOf(y) # r
      <4>1. Slots(RingOf(y))' = Slots(RingOf(y)) /\ \A s : Behind(RingOf(y), s)' = Behind(RingOf(y), s)
        BY <1>13, <1>14, <1>15, <3>3
      <4> QED BY <1>1, <1>3, <1>15, <3>3, <4>1 DEF Requested
    <3> QED BY <1>3, <3>1, <3>2, <3>3
  <2> QED BY <1>14, <2>1 DEF Requested
<1>18. Unexecuted'
  <2>1. ASSUME NEW q \in Rings, NEW s \in Slots(q)', Behind(q, s)' <= Ahead1(q)'
        PROVE  \E y \in Live' : y.addr = <<q, s>>
    <3>1. CASE q = r /\ s = t BY <1>3, <1>4, <3>1
    <3>2. CASE q = r /\ s # t
      <4>1. s \in Slots(r) BY <2>1, <3>2
      <4>2. Behind(r, s) <= Ahead1(r) BY <1>11, <1>12, <2>1, <3>2, <4>1
      <4> QED BY <1>1, <1>3, <3>2, <4>1, <4>2 DEF Unexecuted
    <3>3. CASE q # r
      <4>1. s \in Slots(q) /\ Behind(q, s) <= Ahead1(q) BY <1>11, <1>13, <2>1, <3>3
      <4> QED BY <1>1, <1>3, <4>1 DEF Unexecuted
    <3> QED BY <3>1, <3>2, <3>3
  <2>2. ASSUME NEW y \in Live', (Age(y) <= Ahead1(RingOf(y)))'
        PROVE  LET trb == ring'[RingOf(y)][SlotOf(y)] IN
               trb.kind = "request" /\ trb.who = y.who /\ trb.ioc /\ y.who \notin executed
    <3>1. CASE y = c
      <4>1. who \notin executed BY <1>1 DEF Answered, Entries
      <4> QED BY <1>4, <3>1, <4>1
    <3>2. CASE y \in Live
      <4>1. Age(y) <= Ahead1(RingOf(y)) BY <1>15, <2>2, <3>2
      <4>2. ring'[RingOf(y)][SlotOf(y)] = ring[RingOf(y)][SlotOf(y)] BY <1>15, <3>2
      <4> QED BY <1>1, <3>2, <4>1, <4>2 DEF Unexecuted
    <3> QED BY <1>3, <3>1, <3>2
  <2> QED BY <1>14, <2>1, <2>2 DEF Unexecuted
<1>19. Answered'
  <2>1. ASSUME NEW y \in Live', Executed(y)'
        PROVE  y.who \in executed /\ \E e \in Pending : events[e].addr = y.addr
    BY <1>1, <1>3, <1>15, <1>16, <2>1 DEF Answered
  <2>2. ASSUME NEW x \in executed PROVE \E y \in Live' : y.who = x /\ Executed(y)'
    <3>1. PICK y \in Live : y.who = x /\ Executed(y) BY <1>1 DEF Answered
    <3> QED BY <1>3, <1>15, <3>1
  <2> QED BY <1>9, <2>1, <2>2 DEF Answered
<1>20. Telling'
  <2>1. \A e : Time(e)' = Time(e) BY DEF Time, Past
  <2>2. ASSUME NEW e \in Pending
        PROVE  /\ events[e].addr = PortChange \/ \E y \in Live' : events[e].addr = y.addr /\ Executed(y)'
               /\ events[e].addr # c.addr
    <3>1. CASE events[e].addr = PortChange
      <4>1. Len(<<r, t>>) = 2 /\ Len(PortChange) = 1 BY DEF PortChange
      <4> QED BY <1>4, <3>1, <4>1
    <3>2. CASE events[e].addr # PortChange
      <4>1. PICK y \in Live : events[e].addr = y.addr /\ Executed(y) BY <1>1, <3>2 DEF Telling
      <4> QED BY <1>3, <1>4, <1>15, <4>1
    <3> QED BY <3>1, <3>2
  <2>3. ASSUME NEW e \in Pending, NEW f \in Pending, NEW y \in Live', NEW z \in Live',
               events[e].addr = y.addr, events[f].addr = z.addr, RingOf(y) = RingOf(z), Time(e) < Time(f)
        PROVE  Age(z)' < Age(y)'
    <3>1. y \in Live /\ z \in Live BY <1>3, <2>2, <2>3
    <3>2. Age(z) < Age(y) BY <1>1, <2>3, <3>1 DEF Telling
    <3> QED BY <1>15, <2>3, <3>1, <3>2
  <2> QED BY <1>9, <1>14, <2>1, <2>2, <2>3 DEF Telling
<1> QED BY <1>3, <1>7, <1>8, <1>9, <1>17, <1>18, <1>19, <1>20 DEF RingsInv

LEMMA PublishKept ==
  ASSUME RingsInv, TypeInv', Publish
  PROVE  RingsInv' /\ \E r \in Rings : Adds(r)
<1>1. TypeInv /\ Rounds /\ Controlling /\ Driving BY DEF RingsInv
<1>0. PICK r, t : r = target /\ t = Top(target) OBVIOUS
<1> DEFINE b == Published(ring[r][t])
<1>2. /\ r \in Endpoints /\ who \in Clients \ waiting /\ r \in Uses[who] /\ t < N - 1
      /\ ring[r][t].kind = "request" /\ ring[r][t].who = who /\ pc = "publish"
  BY <1>0, <1>1 DEF Publish, Driving
<1>3. /\ Side(r) \in {0, 1} /\ t \in 0 .. N - 1 /\ r # CommandRing /\ N \in Nat /\ N > 1 /\ r \in Rings
      /\ Slots(r) = 0 .. N - 2 /\ dequeue[r] \in 0 .. N
  BY <1>0, <1>1, <1>2, RingIs, Sizes
<1>4. Slot = t /\ index[r] \in 0 .. 2 * N - 1
  <2>1. index[r] \in 0 .. 2 * N - 1 BY <1>1, <1>2, TypeOKIs DEF TypeInv, IndexTypes
  <2> QED BY <1>0, <1>2, <2>1, SlotIs DEF Slot
<1>5. b.kind = "request" /\ b.who = who /\ b.ioc /\ b.cycle = Side(r)
  <2>1. ring[r][t] \in Blocks BY <1>1, <1>3, TypeOKIs DEF TypeInv, RingTypes
  <2>2. Side(r) = CycleAt(index[target], RingSize) BY <1>0, <1>3 DEF Side
  <2> QED BY <1>2, <2>1, <2>2 DEF Published, Blocks
<1> HIDE DEF b
<1>6. /\ ring' = [ring EXCEPT ![r][t] = b] /\ index' = [index EXCEPT ![r] = @ + 1]
      /\ AwaitStatus(r, t) /\ KeepQueue
      /\ UNCHANGED <<dequeue, consumer, events, posted, erdp, eventIndex, target, found, executed>>
  <2>1. ring' = [ring EXCEPT ![r][t] = Published(@)] BY <1>0, <1>4 DEF Publish
  <2>2. ring' = [ring EXCEPT ![r][t] = b] BY <2>1 DEF b
  <2> QED BY <1>0, <1>4, <2>2 DEF Publish, hardware
<1>7. \A q \in Rings, s \in 0 .. N - 1 : ring'[q][s] = IF q = r /\ s = t THEN b ELSE ring[q][s]
  BY <1>1, <1>3, <1>6, TypeOKIs DEF TypeInv, RingTypes
<1>8. index'[r] = index[r] + 1 /\ \A q \in Rings : q # r => index'[q] = index[q]
  BY <1>1, <1>3, <1>6 DEF TypeInv
<1>9. Top(r)' = t + 1 /\ Side(r)' = Side(r) /\ Slots(r)' = Slots(r) \cup {t}
  <2>1. index[r] = IF index[r] < N THEN t ELSE t + N BY <1>0, <1>3, <1>4 DEF Top
  <2>2. Top(r)' = t + 1 /\ Side(r)' = Side(r)
    BY <1>2, <1>3, <1>4, <1>8, <2>1 DEF Top, Side, CycleAt
  <2>3. Slots(r)' = 0 .. N - 2 BY <1>3 DEF Slots
  <2> QED BY <1>2, <1>3, <2>2, <2>3
<1>10. \A q \in Rings : q # r => Top(q)' = Top(q) /\ Side(q)' = Side(q) BY <1>8, IndexKept
<1>11. pc' # "publish"
  BY <1>1, <1>6, TypeOKIs DEF AwaitStatus, Return, TypeInv, DriverTypes
<1>12. consumer[r] # Side(r) => t < dequeue[r] BY <1>0, <1>2, NotFull
<1>13. \A x \in Live : x.addr # <<r, t>> BY <1>0, <1>2, NotFull
<1>14. \A q \in Rings : q # r => Written(q) = Top(q) BY <1>0 DEF Written, Placed
<1>15. Written(r) = IF Side(r) = 0 THEN t + 1 ELSE t BY <1>0, <1>2 DEF Written, Placed
<1>16. \A q \in Rings : Written(q)' = Top(q)' BY <1>11 DEF Written, Placed
<1>17. Rounds'
  <2> SUFFICES ASSUME NEW q \in Rings, NEW s \in 0 .. N - 1
               PROVE ring'[q][s].cycle = IF s < Top(q)' THEN Side(q)' ELSE 1 - Side(q)'
    BY <1>16 DEF Rounds
  <2>1. ring[q][s].cycle = IF s < Written(q) THEN Side(q) ELSE 1 - Side(q) BY <1>1 DEF Rounds
  <2>2. CASE q # r BY <1>7, <1>10, <1>14, <2>1, <2>2
  <2>3. CASE q = r /\ s = t BY <1>3, <1>5, <1>7, <1>9, <2>3
  <2>4. CASE q = r /\ s # t BY <1>3, <1>7, <1>9, <1>15, <2>1, <2>4
  <2> QED BY <2>2, <2>3, <2>4
<1>18. Controlling'
  <2> SUFFICES ASSUME NEW q \in Rings
               PROVE  IF consumer[q] = Side(q)'
                        THEN dequeue[q] <= Top(q)'
                        ELSE /\ Top(q)' <= dequeue[q] /\ dequeue[q] <= N - 1
                             /\ ring'[q][N - 1].kind = "link"
    BY <1>1, <1>6, <1>11 DEF Controlling, Placed
  <2>1. ring'[q][N - 1] = ring[q][N - 1]
    <3>1. N - 1 \in 0 .. N - 1 /\ N - 1 # t BY <1>2, <1>3
    <3> QED BY <1>7, <3>1
  <2>2. CASE q = r BY <1>0, <1>1, <1>3, <1>9, <1>12, <2>1, <2>2 DEF Controlling
  <2>3. CASE q # r BY <1>1, <1>10, <2>1, <2>3 DEF Controlling
  <2> QED BY <2>2, <2>3
<1>19. ring'[r][t] = b BY <1>3, <1>7
<1>20. \A q \in Rings, s \in 0 .. N - 1 : q # r \/ s # t => ring'[q][s] = ring[q][s] BY <1>7
<1>21. /\ t = Top(r) /\ pc \in {"running", "publish"} /\ who \in Clients \ waiting /\ r \in Uses[who]
       /\ r \in Rings
  BY <1>0, <1>2, <1>3
<1>22. ring'[r][t].kind = "request" /\ ring'[r][t].who = who /\ ring'[r][t].ioc BY <1>5, <1>19
<1>23. /\ AwaitStatus(r, t) /\ KeepQueue /\ \A q \in Rings : q # r => index'[q] = index[q]
       /\ UNCHANGED <<dequeue, consumer, events, posted, erdp, eventIndex, found, executed>>
  BY <1>6, <1>8
<1>24. Adds(r)
  <2>1. \A q \in Rings : q # r => Listed(q)' = Listed(q)
    BY <1>1, <1>7, <1>10, <1>14, <1>16, <1>23, ListedOther
  <2>2. \A i : Nth(r, i)' = Nth(r, i) BY <1>9, <1>23 DEF Nth
  <2>3. \A s \in 0 .. N - 1 : ring'[r][s].who = ring[r][s].who BY <1>2, <1>0, <1>3, <1>5, <1>7
  <2>4. Depth(r) \in Nat /\ \A i \in 1 .. Depth(r) : Nth(r, i) \in 0 .. N - 1 BY <1>1, <1>3, ListedIs
  <2>5. CASE Side(r) = 0
    <3>1. Written(r)' = Written(r) BY <1>9, <1>3, <1>15, <1>16, <2>5
    <3>2. Depth(r)' = Depth(r) BY <1>9, <1>23, <3>1 DEF Depth
    <3>3. Listed(r)' = Listed(r) BY <2>2, <2>3, <2>4, <3>2 DEF Listed
    <3> QED BY <2>1, <3>3 DEF Adds
  <2>6. CASE Side(r) # 0
    <3>1. Written(r) = t /\ Written(r)' = t + 1 BY <1>3, <1>9, <1>15, <1>16, <2>6
    <3>2. Depth(r)' = Depth(r) + 1 BY <1>3, <1>9, <1>23, <3>1, SMTT(30) DEF Depth
    <3>3. \A i : i = Depth(r) + 1 => Nth(r, i) = t BY <1>1, <1>3, <1>12, <1>21, <3>1, NthIs
    <3>4. Listed(r)' = Append(Listed(r), who)
      BY <1>1, <1>3, <1>22, <2>2, <2>3, <2>4, <3>2, <3>3, ListedGrows
    <3>5. \A q \in Rings : Written(q) = Top(q) BY <1>14, <1>21, <3>1
    <3> QED BY <2>1, <3>4, <3>5 DEF Adds
  <2> QED BY <2>5, <2>6
<1>25. RingsInv' BY <1>9, <1>13, <1>17, <1>18, <1>20, <1>21, <1>22, <1>23, SubmitKept
<1> QED BY <1>3, <1>24, <1>25

LEMMA CommandKept ==
  ASSUME RingsInv, TypeInv', RunCommand
  PROVE  RingsInv' /\ Adds(CommandRing)
<1>1. TypeInv /\ Rounds /\ Controlling /\ Driving /\ Entries /\ Requested BY DEF RingsInv
<1> DEFINE r == CommandRing  t == index[CommandRing]
           b == [kind |-> "request", who |-> who, cycle |-> 1, ioc |-> TRUE]
<1>2. /\ r \in Rings /\ r \notin Endpoints /\ t \in 0 .. N - 1 /\ t = Top(r) /\ N \in Nat /\ N > 1
      /\ who \in Clients \ waiting /\ r \in Uses[who] /\ pc = "running"
      /\ Slots(r) = 0 .. t - 1 /\ Side(r) = 1
  <2>1. t \in 0 .. N - 1 BY <1>1, Sizes, TypeOKIs DEF RunCommand, TypeInv, IndexTypes
  <2> QED BY <1>1, <2>1, Sizes DEF RunCommand, Driving, Top, Slots, Side
<1>3. /\ ring' = [ring EXCEPT ![r][t] = b] /\ index' = [index EXCEPT ![r] = @ + 1]
      /\ AwaitStatus(r, t) /\ KeepQueue
      /\ UNCHANGED <<dequeue, consumer, events, posted, erdp, eventIndex, target, found, executed>>
  BY DEF RunCommand, hardware
<1>4. b.kind = "request" /\ b.who = who /\ b.ioc /\ b.cycle = 1 OBVIOUS
<1> HIDE DEF b
<1>5. \A q \in Rings, s \in 0 .. N - 1 : ring'[q][s] = IF q = r /\ s = t THEN b ELSE ring[q][s]
  BY <1>1, <1>2, <1>3, TypeOKIs DEF TypeInv, RingTypes
<1>6. index'[r] = t + 1 /\ \A q \in Rings : q # r => index'[q] = index[q]
  BY <1>1, <1>2, <1>3 DEF TypeInv
<1>7. Top(r)' = t + 1 /\ Side(r)' = Side(r) /\ Slots(r)' = Slots(r) \cup {t}
  <2>1. Slots(r)' = 0 .. t BY <1>2, <1>6 DEF Slots
  <2> QED BY <1>2, <1>6, <2>1 DEF Top, Side
<1>8. \A q \in Rings : q # r => Top(q)' = Top(q) /\ Side(q)' = Side(q) BY <1>6, IndexKept
<1>9. pc' # "publish" BY <1>1, <1>3, TypeOKIs DEF AwaitStatus, Return, TypeInv, DriverTypes
<1>10. \A q \in Rings : Written(q) = Top(q) /\ Written(q)' = Top(q)' BY <1>2, <1>9 DEF Written, Placed
<1>11. \A x \in Live : x.addr # <<r, t>>
  <2> SUFFICES ASSUME NEW x \in Live, x.addr = <<r, t>> PROVE FALSE OBVIOUS
  <2>1. RingOf(x) = r /\ SlotOf(x) = t BY DEF RingOf, SlotOf
  <2>2. t \in Slots(r) BY <1>1, <2>1, LiveIs
  <2> QED BY <1>2, <2>2
<1> HIDE DEF r, t
<1>12. Rounds'
  <2> SUFFICES ASSUME NEW q \in Rings, NEW s \in 0 .. N - 1
               PROVE ring'[q][s].cycle = IF s < Top(q)' THEN Side(q)' ELSE 1 - Side(q)'
    BY <1>10 DEF Rounds
  <2>1. ring[q][s].cycle = IF s < Top(q) THEN Side(q) ELSE 1 - Side(q) BY <1>1, <1>10 DEF Rounds
  <2>2. CASE q # r BY <1>5, <1>8, <2>1, <2>2
  <2>3. CASE q = r /\ s = t BY <1>2, <1>4, <1>5, <1>7, <2>3
  <2>4. CASE q = r /\ s # t BY <1>2, <1>5, <1>7, <2>1, <2>4
  <2> QED BY <2>2, <2>3, <2>4
<1>13. Controlling'
  <2> SUFFICES ASSUME NEW q \in Rings
               PROVE  IF consumer[q] = Side(q)'
                        THEN dequeue[q] <= Top(q)'
                        ELSE /\ Top(q)' <= dequeue[q] /\ dequeue[q] <= N - 1
                             /\ ring'[q][N - 1].kind = "link"
    BY <1>1, <1>3, <1>9 DEF Controlling, Placed
  <2>1. CASE q = r
    <3>1. consumer[q] = Side(q)' /\ dequeue[q] <= t /\ dequeue[q] \in 0 .. N
      BY <1>1, <1>2, <1>7, <2>1, Ahead1Is, RingIs DEF r
    <3> QED BY <1>2, <1>7, <2>1, <3>1
  <2>2. CASE q # r
    <3>1. ring'[q][N - 1] = ring[q][N - 1]
      <4>1. N - 1 \in 0 .. N - 1 BY <1>2
      <4> QED BY <1>5, <2>2, <4>1
    <3> QED BY <1>1, <1>8, <2>2, <3>1 DEF Controlling
  <2> QED BY <2>1, <2>2
<1>14. ring'[r][t] = b BY <1>2, <1>5
<1>15. \A q \in Rings, s \in 0 .. N - 1 : q # r \/ s # t => ring'[q][s] = ring[q][s] BY <1>5
<1>16. Adds(r)
  <2>1. \A q \in Rings : q # r => Listed(q)' = Listed(q)
    BY <1>1, <1>3, <1>5, <1>6, <1>8, <1>10, ListedOther
  <2>2. \A i : Nth(r, i)' = Nth(r, i) BY <1>3, <1>7 DEF Nth
  <2>3. consumer[r] = Side(r) BY <1>1, <1>2, Ahead1Is
  <2>4. /\ \A i \in 1 .. Depth(r) : Nth(r, i) # t /\ Nth(r, i) \in 0 .. N - 1
        /\ \A i : i = Depth(r) + 1 => Nth(r, i) = t
    BY <1>1, <1>2, <1>10, <2>3, NthIs, ListedIs
  <2>5. \A i \in 1 .. Depth(r) : ring'[r][Nth(r, i)] = ring[r][Nth(r, i)] BY <1>2, <1>5, <2>4
  <2>6. Depth(r)' = Depth(r) + 1
    <3>1. dequeue[r] \in 0 .. N BY <1>1, <1>2, RingIs
    <3> QED BY <1>2, <1>3, <1>7, <1>10, <2>3, <3>1 DEF Depth
  <2>7. Listed(r)' = Append(Listed(r), who) BY <1>1, <1>2, <1>4, <1>14, <2>2, <2>4, <2>5, <2>6, ListedGrows
  <2> QED BY <1>10, <2>1, <2>7 DEF Adds
<1>17. RingsInv' BY <1>2, <1>3, <1>4, <1>6, <1>7, <1>11, <1>12, <1>13, <1>14, <1>15, SubmitKept, SMTT(30)
<1> QED BY <1>16, <1>17 DEF r

-----------------------------------------------------------------------------
(* The invariant.                                                          *)

LEMMA RingsInit == Init => RingsInv
<1> SUFFICES ASSUME Init PROVE RingsInv OBVIOUS
<1>1. TypeInv BY TypeInit
<1>2. N \in Nat /\ N > 1 /\ E \in Nat /\ E > 0 /\ CommandRing \in Rings BY Sizes
<1>3. /\ \A r \in Rings : /\ index[r] = 0 /\ dequeue[r] = 0 /\ consumer[r] = 1
                          /\ \A s \in 0 .. N - 1 : ring[r][s].cycle = 0
      /\ \A e \in 0 .. E - 1 : events[e].cycle = 0
      /\ pc = "idle" /\ back = "idle" /\ found = 0 /\ callbacks = <<>> /\ waiting = {} /\ executed = {}
      /\ eventIndex = 0 /\ posted = 0 /\ erdp = 0
  BY DEF Init, Empty
<1>4. \A r \in Rings : /\ Top(r) = 0 /\ Side(r) = 1 /\ ~Placed(r) /\ Written(r) = 0
                       /\ Ahead1(r) = 0 /\ Depth(r) = 0
  BY <1>2, <1>3 DEF Top, Side, CycleAt, Placed, Written, Ahead1, Depth
<1>5. Rounds BY <1>2, <1>3, <1>4 DEF Rounds
<1>6. Controlling BY <1>2, <1>3, <1>4 DEF Controlling
<1>7. Active = {} /\ Live = {} BY <1>3 DEF Active, Live
<1>8. Entries /\ Requested BY <1>3, <1>7 DEF Entries, Requested
<1>9. Unexecuted
  <2>1. \A r \in Rings : \A s \in Slots(r) : ~(Behind(r, s) <= Ahead1(r))
    <3> SUFFICES ASSUME NEW r \in Rings, NEW s \in Slots(r) PROVE ~(Behind(r, s) <= Ahead1(r)) OBVIOUS
    <3>1. Behind(r, s) \in 1 .. N BY <1>1, BehindIs
    <3> QED BY <1>2, <1>4, <3>1
  <2> QED BY <1>7, <2>1 DEF Unexecuted
<1>10. First = 0 /\ Past = 0 /\ CycleAt(posted, E) = 1 /\ CycleAt(eventIndex, E) = 1 /\ ~Handling
  BY <1>2, <1>3 DEF First, Past, Wrap, CycleAt, Handling
<1>11. EventRounds /\ Apart BY <1>2, <1>3, <1>10 DEF EventRounds, Apart, SameRound
<1>12. Pending = {} BY <1>2, <1>10 DEF Pending, Unhandled, SameRound
<1>13. Answered /\ Telling BY <1>3, <1>7, <1>12 DEF Answered, Telling
<1>14. Driving BY <1>3 DEF Driving
<1>15. Queued
  <2>1. \A r \in Rings : Listed(r) = <<>> BY <1>4 DEF Listed
  <2>2. queue = [r \in Rings |-> <<>>] BY DEF Init
  <2> QED BY <2>1, <2>2 DEF Queued
<1> QED BY <1>1, <1>5, <1>6, <1>8, <1>9, <1>11, <1>13, <1>14, <1>15 DEF RingsInv

LEMMA RingsStep == ASSUME RingsInv, ~EarlyLook, [Next]_vars PROVE RingsInv'
<1>1. TypeInv' BY TypeStep DEF RingsInv
<1>2. CASE UNCHANGED vars BY <1>1, <1>2, IdleKept
<1>3. CASE \E c \in Clients : Start(c) BY <1>1, <1>3, StartKept
<1>4. CASE Handle BY <1>1, <1>4, NothingKept, PortKept, CompletionKept DEF Handle
<1>5. CASE GoOn
  BY <1>1, <1>5, StopKept, CommandKept, PlaceKept, PublishKept, EnsureKept, FinishKept DEF GoOn
<1>6. CASE \E r \in Rings : Controller(r)
  BY <1>1, <1>6, FollowKept, ExecuteKept, IdleKept DEF Controller
<1>7. CASE PortChanges BY <1>1, <1>7, PortChangesKept
<1>8. CASE OtherInterrupt BY <1>1, <1>8, IdleKept
<1> QED BY <1>2, <1>3, <1>4, <1>5, <1>6, <1>7, <1>8 DEF Next

\* The rings hold what the driver wrote and the controller has not executed, and
\* callbacks and events account for every request.
THEOREM XhciRingsInvariant == ~EarlyLook => (Spec => []RingsInv)
<1> SUFFICES ASSUME ~EarlyLook PROVE Spec => []RingsInv OBVIOUS
<1>1. RingsInv /\ [Next]_vars => RingsInv' BY RingsStep
<1> QED BY <1>1, RingsInit, PTL DEF Spec

\* Between two handlers every client that waits has one callback, on a block of
\* its own: what was added and removed while clients were resumed is right.
THEOREM XhciOneCallbackEach == ~EarlyLook => (Spec => []OneCallbackEach)
<1>1. RingsInv => OneCallbackEach
  <2> SUFFICES ASSUME RingsInv, pc = "idle"
               PROVE  /\ {callbacks[n].who : n \in DOMAIN callbacks} = waiting
                      /\ \A m, n \in DOMAIN callbacks : m # n =>
                           callbacks[m].who # callbacks[n].who /\ callbacks[m].addr # callbacks[n].addr
    BY DEF OneCallbackEach
  <2>1. TypeInv /\ Entries /\ Driving BY DEF RingsInv
  <2>2. found = 0 BY <2>1 DEF Driving, Handling
  <2>3. 0 \notin DOMAIN callbacks
    <3> DEFINE T == [addr : Addresses, who : Clients]
    <3>1. callbacks \in Seq(T) BY <2>1 DEF TypeInv
    <3> HIDE DEF T
    <3>2. DOMAIN callbacks = 1 .. Len(callbacks) BY <3>1
    <3> QED BY <3>2
  <2>4. Active = DOMAIN callbacks BY <2>2, <2>3 DEF Active
  <2>5. {x.who : x \in Live} = {callbacks[n].who : n \in DOMAIN callbacks} BY <2>4 DEF Live
  <2> QED BY <2>1, <2>4, <2>5 DEF Entries
<1> QED BY <1>1, XhciRingsInvariant, PTL

-----------------------------------------------------------------------------
(* The queues.                                                             *)

\* Complete requests ahead of the controller are awaited.
LEMMA ListedAwaited ==
  ASSUME RingsInv, NEW r \in Rings, Written(r) = Top(r), NEW i \in 1 .. Depth(r)
  PROVE  ring[r][Nth(r, i)].who \in waiting
<1>1. TypeInv /\ Controlling /\ Driving /\ Entries /\ Unexecuted BY DEF RingsInv
<1>2. /\ Top(r) \in 0 .. N /\ dequeue[r] \in 0 .. N /\ N \in Nat /\ N > 1 /\ Depth(r) \in Nat
      /\ r \in Endpoints => Top(r) \in 0 .. N - 1 /\ Slots(r) = 0 .. N - 2
      /\ r \notin Endpoints => Slots(r) = 0 .. Top(r) - 1
  BY <1>1, RingIs, Sizes, ListedIs
<1>3. PICK s : s = Nth(r, i) OBVIOUS
<1>4. s \in Slots(r) /\ Behind(r, s) <= Ahead1(r)
  <2>1. CASE consumer[r] = Side(r)
    <3>1. s = dequeue[r] + i - 1 /\ Depth(r) = Top(r) - dequeue[r] /\ Ahead1(r) = Top(r) - dequeue[r]
      BY <1>1, <1>3, <2>1, Ahead1Is DEF Nth, Depth
    <3>2. s \in 0 .. Top(r) - 1 BY <1>2, <3>1
    <3>3. Behind(r, s) = Top(r) - s BY <1>2, <3>2 DEF Behind
    <3> QED BY <1>2, <3>1, <3>2, <3>3, SMTT(30)
  <2>2. CASE consumer[r] # Side(r)
    <3>1. /\ r \in Endpoints /\ Top(r) <= dequeue[r] /\ dequeue[r] <= N - 1
          /\ Ahead1(r) = Top(r) - dequeue[r] + N - 1 /\ Depth(r) = Top(r) - dequeue[r] + N - 1
      BY <1>1, <2>2, Ahead1Is DEF Depth
    <3>2. CASE dequeue[r] + i - 1 < N - 1
      <4>1. s = dequeue[r] + i - 1 BY <1>3, <2>2, <3>2 DEF Nth
      <4>2. Behind(r, s) = Top(r) - s + N - 1 BY <1>2, <3>1, <4>1 DEF Behind
      <4> QED BY <1>2, <3>1, <3>2, <4>1, <4>2, SMTT(30)
    <3>3. CASE ~(dequeue[r] + i - 1 < N - 1)
      <4>1. s = dequeue[r] + i - N BY <1>3, <2>2, <3>3 DEF Nth
      <4>2. Behind(r, s) = Top(r) - s BY <1>2, <3>1, <4>1 DEF Behind
      <4> QED BY <1>2, <3>1, <3>3, <4>1, <4>2, SMTT(30)
    <3> QED BY <3>2, <3>3
  <2> QED BY <2>1, <2>2
<1>5. PICK y \in Live : y.addr = <<r, s>> BY <1>1, <1>4 DEF Unexecuted
<1>6. RingOf(y) = r /\ SlotOf(y) = s BY <1>5 DEF RingOf, SlotOf
<1>7. Age(y) <= Ahead1(RingOf(y)) BY <1>4, <1>6 DEF Age
<1>8. ring[r][s].who = y.who BY <1>1, <1>6, <1>7 DEF Unexecuted
<1>9. y.who \in waiting BY <1>1 DEF Entries
<1> QED BY <1>3, <1>8, <1>9

LEMMA AddsPromised ==
  ASSUME RingsInv, RingsInv', NEW r \in Rings, Adds(r), executed' = executed, who \in Clients \ waiting
  PROVE  [Queues!Next]_(Queues!vars)
<1>1. /\ queue = [q \in Rings |-> Listed(q)] /\ queue' = [q \in Rings |-> Listed(q)']
      /\ TypeInv /\ Controlling /\ Driving /\ Entries /\ Answered
  BY DEF RingsInv, Queued
<1>2. CASE Listed(r)' = Listed(r)
  <2>1. \A q \in Rings : Listed(q)' = Listed(q) BY <1>2 DEF Adds
  <2>2. queue' = queue BY <1>1, <2>1
  <2> QED BY <2>2 DEF Queues!vars
<1>3. CASE Listed(r)' = Append(Listed(r), who) /\ \A q \in Rings : Written(q) = Top(q)
  <2>1. queue' = [queue EXCEPT ![r] = Append(@, who)]
    <3>1. \A q \in Rings : q # r => Listed(q)' = Listed(q) BY DEF Adds
    <3> QED BY <1>1, <1>3, <3>1
  <2>2. who \notin executed BY <1>1 DEF Answered, Entries
  <2>3. ~Queues!Queued(who)
    <3> SUFFICES ASSUME NEW q \in Rings, NEW i \in DOMAIN queue[q], queue[q][i] = who PROVE FALSE
      BY DEF Queues!Queued
    <3>1. queue[q] = [j \in 1 .. Depth(q) |-> ring[q][Nth(q, j)].who] BY <1>1 DEF Listed
    <3>2. i \in 1 .. Depth(q) /\ ring[q][Nth(q, i)].who = who BY <3>1
    <3> QED BY <1>3, <3>2, ListedAwaited
  <2>4. Queues!Submit(r, who) BY <2>1, <2>2, <2>3 DEF Queues!Submit
  <2> QED BY <2>4 DEF Queues!Next
<1> QED BY <1>2, <1>3 DEF Adds

LEMMA StepPromised ==
  ASSUME RingsInv, ~EarlyLook, [Next]_vars
  PROVE  [Queues!Next]_(Queues!vars)
<1>1. RingsInv' /\ TypeInv' BY RingsStep DEF RingsInv
<1>2. /\ queue = [q \in Rings |-> Listed(q)] /\ queue' = [q \in Rings |-> Listed(q)']
      /\ TypeInv /\ Driving
  BY <1>1 DEF RingsInv, Queued
<1>3. CASE UNCHANGED history BY <1>3 DEF history, Queues!vars
<1>4. CASE RunCommand \/ Place \/ Publish \/ \E r \in Endpoints : EnsureSpaceFor(r)
  <2>1. \E r \in Rings : Adds(r)
    BY <1>1, <1>4, CommandKept, PlaceKept, PublishKept, EnsureKept, Sizes
  <2>2. executed' = executed BY <1>4 DEF RunCommand, Place, Publish, EnsureSpaceFor
  <2>3. who \in Clients \ waiting BY <1>2, <1>4 DEF Driving, RunCommand, Place, Publish, EnsureSpaceFor
  <2> QED BY <1>1, <2>1, <2>2, <2>3, AddsPromised
<1>5. ASSUME NEW n \in DOMAIN callbacks, HandleCompletion(n) PROVE [Queues!Next]_(Queues!vars)
  <2>1. PICK x : x = callbacks[n] OBVIOUS
  <2>2. x \in Live /\ Executed(x) /\ executed' = executed \ {x.who} /\ queue' = queue
    BY <1>5, <2>1, CompletionIs DEF HandleCompletion
  <2>3. x.who \in executed /\ x.who \in Clients BY <2>2, LiveIs DEF RingsInv, Answered
  <2>4. Queues!Resume(x.who) BY <2>2, <2>3 DEF Queues!Resume
  <2> QED BY <2>3, <2>4 DEF Queues!Next
<1>6. ASSUME NEW r \in Rings, FollowLink(r) PROVE [Queues!Next]_(Queues!vars)
  <2>1. \A q \in Rings : Listed(q)' = Listed(q) BY <1>1, <1>6, FollowKept
  <2>2. queue' = queue BY <1>2, <2>1
  <2>3. executed' = executed BY <1>6 DEF FollowLink
  <2> QED BY <2>2, <2>3 DEF Queues!vars
<1>7. ASSUME NEW r \in Rings, Execute(r) PROVE [Queues!Next]_(Queues!vars)
  <2>1. /\ \A q \in Rings : q # r => Listed(q)' = Listed(q)
        /\ Listed(r) # <<>> /\ Listed(r)' = Tail(Listed(r))
        /\ executed' = executed \cup {Head(Listed(r))}
    BY <1>1, <1>7, ExecuteKept
  <2>2. queue' = [queue EXCEPT ![r] = Tail(@)] BY <1>2, <2>1
  <2>3. queue[r] = Listed(r) BY <1>2
  <2>4. Queues!Execute(r) BY <2>1, <2>2, <2>3 DEF Queues!Execute
  <2> QED BY <2>4 DEF Queues!Next
<1>8. CASE Stop \/ FinishEvent \/ PortChanges \/ OtherInterrupt \/ UNCHANGED vars
  BY <1>3, <1>8 DEF Stop, FinishEvent, PortChanges, OtherInterrupt, vars
<1>9. ASSUME NEW r \in Rings, RunDry(r) PROVE [Queues!Next]_(Queues!vars) BY <1>3, <1>9 DEF RunDry
<1>10. ASSUME NEW c \in Clients, Start(c) \/ HandlePortChange(c) PROVE [Queues!Next]_(Queues!vars)
  BY <1>3, <1>10 DEF Start, HandlePortChange, history
<1>11. CASE HandleNothing \/ HandleDisconnect BY <1>3, <1>11 DEF HandleNothing, HandleDisconnect
<1>12. CASE Handle BY <1>5, <1>10, <1>11, <1>12 DEF Handle
<1>13. CASE GoOn BY <1>4, <1>8, <1>13 DEF GoOn
<1>14. CASE \E r \in Rings : Controller(r) BY <1>6, <1>7, <1>9, <1>14 DEF Controller
<1> QED BY <1>8, <1>10, <1>12, <1>13, <1>14 DEF Next

\* The controller executes each request once and in the order of its ring, and a
\* client is resumed once, by the completion of its own request: cycle bits,
\* links, events and callbacks implement the queues of TransferQueues.
THEOREM XhciImplementsQueues == ~EarlyLook => (Spec => ImplementsQueues)
<1> SUFFICES ASSUME ~EarlyLook PROVE Spec => ImplementsQueues OBVIOUS
<1>1. Init => Queues!Init BY DEF Init, Queues!Init
<1>2. RingsInv /\ [Next]_vars => [Queues!Next]_(Queues!vars) BY StepPromised
<1> QED BY <1>1, <1>2, XhciRingsInvariant, PTL DEF Spec, ImplementsQueues, Queues!Spec
=============================================================================
