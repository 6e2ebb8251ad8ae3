---------------------------- MODULE UsbDevicesProofs ----------------------------
(***************************************************************************)
(* Every answer reaches the coroutine that asked for it, whatever the      *)
(* devices say of themselves, in whatever order they are plugged and       *)
(* pulled, for any values that meet the assumptions of UsbDevices.         *)
(*                                                                         *)
(* An answer is matched with its asker through whole-system facts: which   *)
(* coroutine a device has (Owner), that it has one command or one request  *)
(* or one answer on its way and never two (OnePlace), how far its script   *)
(* has come (Stage: what is still to do is the tail of one script), that a *)
(* slot is announced to one device, and which endpoints a driver may wait  *)
(* on (DriversServed).  UsbInv is their conjunction; there is one lemma    *)
(* for each action, and one for each conjunct the action leaves alone.     *)
(***************************************************************************)
EXTENDS UsbDevices, TLAPS, SequenceTheorems, WellFoundedInduction

-----------------------------------------------------------------------------
(* The steps of a script, and the types of the state.                      *)

Enable == Command(<<"enable">>)
Address == Command(<<"address">>)
Set == Request(<<"set configuration">>)

\* Of the device, of its strings and of its configurations.
Openings == {Request(<<"device">>), Request(<<"language length">>), Request(<<"languages">>)}
Texts == Nat \X {BestLanguage(Info[d].languages) : d \in Devices}
Strings == {Request(<<"string length", p[1], p[2]>>) : p \in Texts}
           \cup {Request(<<"string", p[1], p[2]>>) : p \in Texts}
Contents == {Request(<<"configuration length", n>>) : n \in Nat}
            \cup {Request(<<"configuration", n>>) : n \in Nat}
Questions == Openings \cup Strings \cup Contents
Reports == {Request(<<"report", n>>) : n \in Nat}
Configures == {Configure(Taken(d)[1], TRUE) : d \in Devices}
              \cup {Configure(Taken(d)[1], FALSE) : d \in Devices}

Steps == {Enable, Address, Set} \cup Questions \cup Reports \cup Configures
Whats == {x.what : x \in Steps}
Ends == {x.what[2] : x \in Configures}

CommandRecords ==
  [task : Tasks \cup {Null}, what : Whats \cup {<<"disable">>}, slot : Slots \cup {Null}]
RequestRecords == [task : Tasks, what : Whats]
EventRecords == [task : Tasks, what : Whats, ok : BOOLEAN, slot : Slots \cup {Null}]

Types ==
  /\ state \in [Devices -> {"unborn", "starting", "deleted", "given up", "owned", "used"}]
  /\ slot \in [Devices -> Slots \cup {Null}]
  /\ table \in [Slots -> Devices \cup {Null}]
  /\ used \in [Devices -> Nat]
  /\ flags \in [Devices -> Ends \cup {Null}]
  /\ todo \in [Tasks -> Seq(Steps)]
  /\ commands \in Seq(CommandRecords)
  /\ ring \in [Devices -> Seq(RequestRecords)]
  /\ buffer \in [Devices -> Whats \cup {Null}]
  /\ events \in Seq(EventRecords)
  /\ halted \subseteq Devices /\ enabled \subseteq Slots
  /\ endpoints \in [Slots -> SUBSET Ends]
  /\ given \in [Tasks -> SUBSET Ends]

-----------------------------------------------------------------------------
(* Where what a device waits for is: with the task that runs, on the       *)
(* command ring, on its control ring or among the completions.             *)

OfSlot(s) == <<"slot", s>>
OfDevice(d) == <<"device", d>>
Owner(x) == IF x.task = Null THEN OfSlot(x.slot) ELSE OfDevice(x.task[1])
Of(q, k) == {q[i] : i \in {j \in DOMAIN q : Owner(q[j]) = k}}
Unique(q) == \A i, j \in DOMAIN q : Owner(q[i]) = Owner(q[j]) => i = j

Commanded(d) == Of(commands, OfDevice(d))
Completed(d) == Of(events, OfDevice(d))
Returns(s) == Of(commands, OfSlot(s)) # {}
RunOf(d) == run # <<>> /\ run[1][1] = d

\* One command and one completion for each device, one disable for each slot.
Proper(c) == IF c.task = Null THEN c.what = <<"disable">> /\ c.slot \in Slots
             ELSE c.what \in Whats
Once ==
  /\ run = <<>> \/ \E t \in Tasks : run = <<t>>
  /\ Unique(events) /\ Unique(commands)
  /\ \A i \in DOMAIN commands : Proper(commands[i])

Active(d) == IF state[d] = "starting" THEN <<d, Start>> ELSE <<d, 1>>
Busy(d) == state[d] \in {"starting", "used"}

Nothing(d) == ~RunOf(d) /\ Commanded(d) = {} /\ ring[d] = <<>> /\ Completed(d) = {}
Runs(d) ==
  /\ Busy(d) /\ run = <<Active(d)>>
  /\ Commanded(d) = {} /\ ring[d] = <<>> /\ Completed(d) = {}
Next1(d) == Head(todo[Active(d)])
Sends(d) == Busy(d) /\ ~RunOf(d) /\ todo[Active(d)] # <<>>
HasSent(d) ==
  /\ Sends(d) /\ Next1(d).to = "command" /\ ring[d] = <<>> /\ Completed(d) = {}
  /\ Commanded(d) = {[task |-> Active(d), what |-> Next1(d).what, slot |-> slot[d]]}
  /\ Next1(d).what[1] = "configure" => flags[d] = Next1(d).what[2]
HasAsked(d) ==
  /\ Sends(d) /\ Next1(d).to = "control" /\ Commanded(d) = {} /\ Completed(d) = {}
  /\ ring[d] = <<[task |-> Active(d), what |-> Next1(d).what]>>
HasAnswer(d) ==
  /\ Sends(d) /\ Commanded(d) = {} /\ ring[d] = <<>>
  /\ LET w == Next1(d).what IN
     \E ok \in BOOLEAN, s \in Slots \cup {Null} :
       /\ Completed(d) = {[task |-> Active(d), what |-> w, ok |-> ok, slot |-> s]}
       /\ ok /\ w[1] = "enable" => s \in Slots
       /\ w[1] = "configure" => ok /\ slot[d] \in Slots /\ w[2] \in endpoints[slot[d]]
       /\ ok /\ Next1(d).to = "control" /\ w # <<"set configuration">> => buffer[d] = w

OnePlace(d) == Nothing(d) \/ Runs(d) \/ HasSent(d) \/ HasAsked(d) \/ HasAnswer(d)

Enabling(d) == todo[<<d, Start>>] = Script(d) /\ slot[d] = Null /\ used[d] = 0
Addressing(d) == todo[<<d, Start>>] = Tail(Script(d)) /\ slot[d] \in Slots /\ used[d] = 0
Left(d, t) == Len(todo[t]) - (IF RunOf(d) THEN 0 ELSE 1)
Asking(d) ==
  /\ todo[<<d, Start>>] \in Seq(Questions) \ {<<>>} /\ slot[d] \in Slots
  /\ used[d] + 3 * Left(d, <<d, Start>>)
       + (IF Sets(d) THEN 2 + 3 * Len(DriverSteps(d)) ELSE 0) <= RingBlocks
Setting(d) ==
  /\ todo[<<d, Start>>] = <<Set>> /\ slot[d] \in Slots /\ Sets(d)
  /\ used[d] + (IF RunOf(d) THEN 2 ELSE 0) + 3 * Len(DriverSteps(d)) <= RingBlocks

Stage(d) ==
  /\ used[d] <= RingBlocks
  /\ todo[<<d, 2>>] = <<>>
  /\ state[d] # "used" => todo[<<d, 1>>] = <<>>
  /\ state[d] # "starting" => todo[<<d, Start>>] = <<>>
  /\ state[d] = "unborn" => slot[d] = Null /\ used[d] = 0
  /\ state[d] = "starting" => Enabling(d) \/ Addressing(d) \/ Asking(d) \/ Setting(d)
  /\ state[d] \in {"given up", "owned"} => slot[d] \in Slots
  /\ state[d] = "used" => /\ slot[d] \in Slots
                          /\ todo[<<d, 1>>] \in Seq(Reports \cup Configures)
                          /\ used[d] + 3 * Left(d, <<d, 1>>) <= RingBlocks

\* A slot is owned, announced or being given back, for one device.
Announces(d, s) == \E e \in Completed(d) : e.ok /\ e.what = <<"enable">> /\ e.slot = s

SlotsShared ==
  /\ \A d \in Devices : Alive(d) /\ slot[d] # Null => table[slot[d]] = d
  /\ \A s \in Slots : table[s] # Null => Alive(table[s]) /\ slot[table[s]] = s
  /\ \A s \in Slots : s \in enabled <=> \/ table[s] # Null \/ Returns(s)
                                        \/ \E d \in Devices : Announces(d, s)
  /\ \A s \in Slots : table[s] # Null => ~Returns(s)
  /\ \A d \in Devices, s \in Slots : Announces(d, s) =>
       /\ table[s] = Null /\ ~Returns(s)
       /\ \A e \in Devices : Announces(e, s) => e = d

DriversServed ==
  \A t \in Tasks : given[t] # {} => state[t[1]] = "used" /\ given[t] \subseteq endpoints[slot[t[1]]]

UsbInv ==
  /\ Types /\ Once
  /\ \A d \in Devices : OnePlace(d) /\ Stage(d)
  /\ SlotsShared /\ DriversServed

-----------------------------------------------------------------------------
(* Scripts.                                                                *)

LEMMA LeastNat == ASSUME NEW T, T \subseteq Nat, T # {}
                  PROVE \E x \in T : \A y \in T : x <= y
<1> DEFINE R == OpToRel(<, Nat)
<1>1. IsWellFoundedOn(R, Nat) BY NatLessThanWellFounded
<1>2. \A x, y \in Nat : y < x => <<y, x>> \in R BY DEF OpToRel
<1> HIDE DEF R
<1>3. PICK x \in T : \A y \in T : ~(<<y, x>> \in R) BY <1>1, WFMin
<1>4. ASSUME NEW y \in T PROVE x <= y
  <2>1. x \in Nat /\ y \in Nat OBVIOUS
  <2>2. ~(y < x) BY <1>2, <1>3, <2>1
  <2> QED BY <2>1, <2>2
<1> QED BY <1>4

LEMMA Induction == ASSUME NEW G, 0 \in G, \A n \in Nat : n \in G => n + 1 \in G
  PROVE  \A n \in Nat : n \in G
<1> SUFFICES ASSUME NEW m \in Nat, m \notin G PROVE FALSE OBVIOUS
<1> DEFINE T == Nat \ G
<1>1. PICK x \in T : \A y \in T : x <= y BY LeastNat
<1>2. x \in Nat /\ x # 0 OBVIOUS
<1>3. x - 1 \in Nat /\ ~(x <= x - 1) /\ (x - 1) + 1 = x BY <1>2
<1>4. x - 1 \in G BY <1>1, <1>3
<1> QED BY <1>3, <1>4

LEMMA FlattenTyped ==
  ASSUME NEW S, NEW s \in Seq(Seq(S))
  PROVE  FlattenSeq(s) \in Seq(S)
<1> DEFINE F(g, n) == g = [i \in 1 .. n |-> IF i = 1 THEN s[i] ELSE g[i - 1] \o s[i]]
<1> SUFFICES ASSUME s # <<>> PROVE FlattenSeq(s) \in Seq(S)
  BY EmptySeq DEF FlattenSeq
<1>0. Len(s) \in Nat \ {0} /\ \A i \in 1 .. Len(s) : s[i] \in Seq(S) BY EmptySeq, ElementOfSeq
<1>1. \E g : F(g, Len(s))
  <2> DEFINE G == {n \in Nat : \E g : F(g, n)}
  <2>1. 0 \in G
    <3>1. F([i \in 1 .. 0 |-> 0], 0) OBVIOUS
    <3> HIDE DEF F
    <3> QED BY <3>1
  <2>2. ASSUME NEW n \in Nat, n \in G PROVE n + 1 \in G
    <3>1. PICK g : F(g, n)
      <4> HIDE DEF F
      <4> QED BY <2>2
    <3> DEFINE h == [i \in 1 .. n + 1 |-> IF i <= n THEN g[i] ELSE IF i = 1 THEN s[i] ELSE g[i - 1] \o s[i]]
    <3>2. ASSUME NEW i \in 1 .. n + 1 PROVE h[i] = IF i = 1 THEN s[i] ELSE h[i - 1] \o s[i]
      <4>1. CASE i <= n
        <5>1. i \in 1 .. n /\ h[i] = g[i] BY <4>1
        <5>2. g[i] = IF i = 1 THEN s[i] ELSE g[i - 1] \o s[i] BY <3>1, <5>1
        <5>3. i # 1 => h[i - 1] = g[i - 1] BY <5>1
        <5> QED BY <5>1, <5>2, <5>3
      <4>2. CASE ~(i <= n)
        <5>1. i = n + 1 BY <4>2
        <5>2. n # 0 => h[i - 1] = g[i - 1] BY <5>1
        <5> QED BY <5>1, <5>2
      <4> QED BY <4>1, <4>2
    <3>3. h = [i \in 1 .. n + 1 |-> h[i]] OBVIOUS
    <3> HIDE DEF h
    <3>4. F(h, n + 1) BY <3>2, <3>3
    <3> HIDE DEF F
    <3>5. \E g_1 : F(g_1, n + 1) BY <3>4
    <3> QED BY <3>5
  <2> HIDE DEF G
  <2>3. Len(s) \in G BY <2>1, <2>2, <1>0, Induction
  <2> HIDE DEF F
  <2> QED BY <2>3 DEF G
<1> DEFINE f == CHOOSE g : F(g, Len(s))
<1>2. F(f, Len(s)) BY <1>1
<1>3. FlattenSeq(s) = f[Len(s)]
  BY EmptySeq DEF FlattenSeq
<1>7. \A i \in 1 .. Len(s) : f[i] = IF i = 1 THEN s[i] ELSE f[i - 1] \o s[i]
  BY <1>2
<1> HIDE DEF f
<1> DEFINE K == {n \in Nat : n \in 1 .. Len(s) => f[n] \in Seq(S)}
<1>4. 0 \in K OBVIOUS
<1>5. ASSUME NEW n \in Nat, n \in K PROVE n + 1 \in K
  <2> SUFFICES ASSUME n + 1 \in 1 .. Len(s) PROVE f[n + 1] \in Seq(S) OBVIOUS
  <2>1. s[n + 1] \in Seq(S) BY <1>0
  <2>4. f[n + 1] = IF n + 1 = 1 THEN s[n + 1] ELSE f[n + 1 - 1] \o s[n + 1] BY <1>7
  <2>2. CASE n = 0 BY <2>4, <2>1, <2>2
  <2>3. CASE n # 0
    <3>1. n \in 1 .. Len(s) BY <2>3, <1>0
    <3>2. f[n] \in Seq(S) BY <3>1, <1>5
    <3>3. f[n + 1] = f[n] \o s[n + 1]
      <4>1. n + 1 # 1 /\ n + 1 - 1 = n BY <2>3
      <4> QED BY <2>4, <4>1
    <3> QED BY <2>1, <3>2, <3>3, ConcatProperties
  <2> QED BY <2>2, <2>3
<1> HIDE DEF K
<1>6. Len(s) \in K BY <1>4, <1>5, <1>0, Induction
<1> QED BY <1>0, <1>3, <1>6 DEF K

LEMMA Parts == \A to, what : Step(to, what).to = to /\ Step(to, what).what = what
BY DEF Step

Kept == {"enable", "address", "configure", "disable", "set configuration"}

LEMMA QuestionKinds ==
  ASSUME NEW x \in Questions \cup Reports
  PROVE  x.to = "control" /\ x.what[1] \notin Kept
<1> SUFFICES ASSUME NEW w, x = Request(w), w[1] \notin Kept
             PROVE  x.to = "control" /\ x.what[1] \notin Kept
  <2>1. CASE x \in Reports BY <2>1 DEF Reports, Kept
  <2>2. CASE x \in Openings BY <2>2 DEF Openings, Kept
  <2>3. CASE x \in Strings BY <2>3 DEF Strings, Kept
  <2>4. CASE x \in Contents BY <2>4 DEF Contents, Kept
  <2> QED BY <2>1, <2>2, <2>3, <2>4 DEF Questions
<1> QED BY Parts, Zenon DEF Request

LEMMA ConfigureKinds ==
  ASSUME NEW x \in Configures
  PROVE  x.to = "command" /\ x.what[1] = "configure" /\ x.what[2] \in Ends
<1>1. x.what[2] \in Ends BY DEF Ends
<1>2. \E a : x = Command(<<"configure", a>>) BY Zenon DEF Configures, Configure
<1>3. PICK a : x = Command(<<"configure", a>>) BY <1>2
<1>4. <<"configure", a>>[1] = "configure" OBVIOUS
<1>5. x.to = "command" /\ x.what = <<"configure", a>> BY <1>3, Parts, Zenon DEF Command
<1> QED BY <1>1, <1>4, <1>5, Zenon

LEMMA SingleHead == \A k : <<k>>[1] = k
OBVIOUS

\* What a step is can be told by what it asks for.
LEMMA StepKinds ==
  ASSUME NEW x \in Steps
  PROVE  /\ x.to \in {"command", "control"}
         /\ x.to = "command" <=> x.what[1] \in {"enable", "address", "configure"}
         /\ x.what[1] = "enable" <=> x.what = <<"enable">>
         /\ x.what[1] = "set configuration" <=> x.what = <<"set configuration">>
         /\ x.what[1] = "configure" => x.what[2] \in Ends
         /\ x.what[1] # "disable" /\ x.what # <<"disable">>
         /\ x.what \in Whats
<1>1. x.what \in Whats BY DEF Whats
<1>2. \A w : w[1] # "enable" => w # <<"enable">> BY SingleHead, Zenon
<1>3. \A w : w[1] # "set configuration" => w # <<"set configuration">> BY SingleHead, Zenon
<1>4. \A w : w[1] # "disable" => w # <<"disable">> BY SingleHead, Zenon
<1>5. CASE x \in Questions \cup Reports
  <2>1. x.to = "control" /\ x.what[1] \notin Kept BY <1>5, QuestionKinds
  <2> QED BY <1>1, <1>2, <1>3, <1>4, <2>1 DEF Kept
<1>6. CASE x \in Configures
  <2>1. x.to = "command" /\ x.what[1] = "configure" /\ x.what[2] \in Ends BY <1>6, ConfigureKinds
  <2> QED BY <1>1, <1>2, <1>3, <1>4, <2>1
<1>7. CASE x = Enable
  <2>1. x.to = "command" /\ x.what = <<"enable">> BY <1>7, Parts, Zenon DEF Enable, Command
  <2>2. x.what[1] = "enable" BY <2>1
  <2> QED BY <1>1, <1>2, <1>3, <1>4, <2>1, <2>2
<1>8. CASE x = Address
  <2>1. x.to = "command" /\ x.what = <<"address">> BY <1>8, Parts, Zenon DEF Address, Command
  <2>2. x.what[1] = "address" BY <2>1
  <2> QED BY <1>1, <1>2, <1>3, <1>4, <2>1, <2>2
<1>9. CASE x = Set
  <2>1. x.to = "control" /\ x.what = <<"set configuration">> BY <1>9, Parts, Zenon DEF Set, Request
  <2>2. x.what[1] = "set configuration" BY <2>1, SingleHead, Zenon
  <2> QED BY <1>1, <1>2, <1>3, <1>4, <2>1, <2>2
<1> QED BY <1>5, <1>6, <1>7, <1>8, <1>9 DEF Steps

LEMMA SingleTyped == ASSUME NEW S, NEW x \in S PROVE <<x>> \in Seq(S)
OBVIOUS

LEMMA PairTyped == ASSUME NEW S, NEW x \in S, NEW y \in S PROVE <<x, y>> \in Seq(S)
OBVIOUS

LEMMA FiveTyped ==
  ASSUME NEW S, NEW x1 \in S, NEW x2 \in S, NEW x3 \in S, NEW x4 \in S, NEW x5 \in S
  PROVE  <<x1, x2, x3, x4, x5>> \in Seq(S) /\ <<x3, x4, x5>> \in Seq(S)
OBVIOUS

LEMMA ScriptTyped ==
  ASSUME NEW d \in Devices
  PROVE  \E rest \in Seq(Questions) :
           /\ rest # <<>> /\ Len(rest) = Len(Script(d)) - 2 /\ Len(Script(d)) \in Nat
           /\ Script(d) \in Seq(Steps) \ {<<>>} /\ Head(Script(d)) = Enable
           /\ Tail(Script(d)) \in Seq(Steps) \ {<<>>} /\ Head(Tail(Script(d))) = Address
           /\ Len(Tail(Script(d))) > 2
           /\ Tail(Tail(Script(d))) = rest
<1> DEFINE lang == BestLanguage(Info[d].languages)
           Q(w) == Request(w)
           strings == Info[d].strings
           confs == Configurations(d)
           A == [n \in 1 .. Len(strings) |->
                   IF strings[n] = 0 THEN <<>>
                   ELSE << Request(<<"string length", n, lang>>), Request(<<"string", n, lang>>) >>]
           B == [n \in DOMAIN confs |->
                   << Request(<<"configuration length", n>>), Request(<<"configuration", n>>) >>]
<1>1. A \in Seq(Seq(Questions))
  <2>1. Len(strings) \in Nat BY DescriptorsAssumption, LenProperties
  <2>2. ASSUME NEW n \in 1 .. Len(strings) PROVE A[n] \in Seq(Questions)
    <3>1. n \in Nat BY <2>1
    <3>2. Request(<<"string length", n, lang>>) \in Questions /\ Request(<<"string", n, lang>>) \in Questions
      <4>1. <<n, lang>> \in Texts /\ <<n, lang>>[1] = n /\ <<n, lang>>[2] = lang
        BY <3>1 DEF Texts
      <4>2. Request(<<"string length", n, lang>>) \in Strings /\ Request(<<"string", n, lang>>) \in Strings
        <5> DEFINE p == <<n, lang>>
        <5>1. p \in Texts /\ p[1] = n /\ p[2] = lang BY <4>1
        <5> HIDE DEF p
        <5>2. Request(<<"string length", p[1], p[2]>>) \in Strings
              /\ Request(<<"string", p[1], p[2]>>) \in Strings
          BY <5>1, Zenon DEF Strings
        <5> QED BY <5>1, <5>2, Zenon
      <4> QED BY <4>2 DEF Questions
    <3>3. << Request(<<"string length", n, lang>>), Request(<<"string", n, lang>>) >> \in Seq(Questions)
      BY <3>2, PairTyped, Zenon
    <3>4. <<>> \in Seq(Questions) BY EmptySeq
    <3> QED BY <3>3, <3>4
  <2>3. A \in [1 .. Len(strings) -> Seq(Questions)] BY <2>2
  <2> HIDE DEF A
  <2> QED BY <2>1, <2>3, IsASeq
<1>2. B \in Seq(Seq(Questions))
  <2>1. Len(confs) \in Nat /\ DOMAIN confs = 1 .. Len(confs)
    BY DescriptorsAssumption
  <2>2. ASSUME NEW n \in 1 .. Len(confs) PROVE B[n] \in Seq(Questions)
    <3>1. n \in Nat BY <2>1
    <3>2. Request(<<"configuration length", n>>) \in Questions /\ Request(<<"configuration", n>>) \in Questions
      <4>2. Request(<<"configuration length", n>>) \in Contents
            /\ Request(<<"configuration", n>>) \in Contents
        BY <3>1, Zenon DEF Contents
      <4> QED BY <4>2 DEF Questions
    <3>3. << Request(<<"configuration length", n>>), Request(<<"configuration", n>>) >> \in Seq(Questions)
      BY <3>2, PairTyped, Zenon
    <3>4. B[n] = << Request(<<"configuration length", n>>), Request(<<"configuration", n>>) >>
      BY <2>1
    <3> QED BY <3>3, <3>4
  <2>3. B \in [1 .. Len(confs) -> Seq(Questions)] BY <2>1, <2>2
  <2> HIDE DEF B
  <2> QED BY <2>1, <2>3, IsASeq
<1> DEFINE a == FlattenSeq(A)
           b == FlattenSeq(B)
           q == << Request(<<"device">>), Request(<<"language length">>), Request(<<"languages">>) >>
           five == << Command(<<"enable">>), Command(<<"address">>), Request(<<"device">>),
                      Request(<<"language length">>), Request(<<"languages">>) >>
<1>3. a \in Seq(Questions) /\ b \in Seq(Questions) BY <1>1, <1>2, FlattenTyped
<1>4. Script(d) = (five \o a) \o b BY DEF Script, StringRequests, Start
<1> HIDE DEF A, B, a, b
<1>5. /\ Request(<<"device">>) \in Questions /\ Request(<<"language length">>) \in Questions
      /\ Request(<<"languages">>) \in Questions
  <2>1. /\ Request(<<"device">>) \in Openings /\ Request(<<"language length">>) \in Openings
        /\ Request(<<"languages">>) \in Openings
    BY Zenon DEF Openings
  <2> QED BY <2>1 DEF Questions
<1>6. q \in Seq(Questions) /\ Len(q) = 3 /\ five \in Seq(Steps) /\ Len(five) = 5
      /\ five[1] = Enable /\ five[2] = Address /\ \A i \in 1 .. 3 : five[i + 2] = q[i]
  <2>1. Questions \subseteq Steps /\ Command(<<"enable">>) \in Steps /\ Command(<<"address">>) \in Steps
    BY DEF Steps, Enable, Address
  <2> DEFINE x1 == Command(<<"enable">>)
             x2 == Command(<<"address">>)
             x3 == Request(<<"device">>)
             x4 == Request(<<"language length">>)
             x5 == Request(<<"languages">>)
  <2>2. x1 = Enable /\ x2 = Address BY DEF Enable, Address
  <2> HIDE DEF x1, x2, x3, x4, x5
  <2>6. x1 \in Steps /\ x2 \in Steps /\ x3 \in Questions /\ x4 \in Questions /\ x5 \in Questions
    BY <1>5, <2>1 DEF x1, x2, x3, x4, x5
  <2>3. <<x1, x2, x3, x4, x5>> \in Seq(Steps) /\ <<x3, x4, x5>> \in Seq(Questions)
    BY <2>1, <2>6, FiveTyped
  <2>4. /\ Len(<<x1, x2, x3, x4, x5>>) = 5 /\ Len(<<x3, x4, x5>>) = 3
        /\ <<x1, x2, x3, x4, x5>>[1] = x1 /\ <<x1, x2, x3, x4, x5>>[2] = x2
        /\ \A i \in 1 .. 3 : <<x1, x2, x3, x4, x5>>[i + 2] = <<x3, x4, x5>>[i]
    <3>1. \A i \in 1 .. 3 : i = 1 \/ i = 2 \/ i = 3 OBVIOUS
    <3> QED BY <3>1
  <2> QED BY <2>2, <2>3, <2>4 DEF x1, x2, x3, x4, x5
<1> HIDE DEF five, q
<1>7. a \in Seq(Steps) /\ b \in Seq(Steps)
  <2>1. Questions \subseteq Steps BY DEF Steps
  <2> QED BY <1>3, <2>1, SeqMonotonic
<1> DEFINE s == (five \o a) \o b
           rest == (q \o a) \o b
<1>8. /\ five \o a \in Seq(Steps) /\ Len(five \o a) = 5 + Len(a)
      /\ \A i \in 1 .. 5 + Len(a) : (five \o a)[i] = IF i <= 5 THEN five[i] ELSE a[i - 5]
  <2>1. /\ five \o a \in Seq(Steps) /\ Len(five \o a) = Len(five) + Len(a)
        /\ \A i \in 1 .. Len(five) + Len(a) :
             (five \o a)[i] = IF i <= Len(five) THEN five[i] ELSE a[i - Len(five)]
    BY <1>6, <1>7, ConcatProperties, Zenon
  <2>2. Len(five) = 5 BY <1>6
  <2> QED BY <2>1, <2>2, Zenon
<1>9. /\ s \in Seq(Steps) /\ Len(s) = 5 + Len(a) + Len(b)
      /\ \A i \in 1 .. 5 + Len(a) + Len(b) :
           s[i] = IF i <= 5 + Len(a) THEN (five \o a)[i] ELSE b[i - (5 + Len(a))]
  <2>1. /\ s \in Seq(Steps) /\ Len(s) = Len(five \o a) + Len(b)
        /\ \A i \in 1 .. Len(five \o a) + Len(b) :
             s[i] = IF i <= Len(five \o a) THEN (five \o a)[i] ELSE b[i - Len(five \o a)]
    BY <1>7, <1>8, ConcatProperties, ZenonT(60)
  <2>2. Len(five \o a) = 5 + Len(a) BY <1>8
  <2> QED BY <2>1, <2>2, Zenon
<1>10. /\ q \o a \in Seq(Questions) /\ Len(q \o a) = 3 + Len(a)
       /\ \A i \in 1 .. 3 + Len(a) : (q \o a)[i] = IF i <= 3 THEN q[i] ELSE a[i - 3]
  <2>1. /\ q \o a \in Seq(Questions) /\ Len(q \o a) = Len(q) + Len(a)
        /\ \A i \in 1 .. Len(q) + Len(a) :
             (q \o a)[i] = IF i <= Len(q) THEN q[i] ELSE a[i - Len(q)]
    BY <1>3, <1>6, ConcatProperties, Zenon
  <2>2. Len(q) = 3 BY <1>6
  <2> QED BY <2>1, <2>2, Zenon
<1>11. /\ rest \in Seq(Questions) /\ Len(rest) = 3 + Len(a) + Len(b)
       /\ \A i \in 1 .. 3 + Len(a) + Len(b) :
            rest[i] = IF i <= 3 + Len(a) THEN (q \o a)[i] ELSE b[i - (3 + Len(a))]
  <2>1. /\ rest \in Seq(Questions) /\ Len(rest) = Len(q \o a) + Len(b)
        /\ \A i \in 1 .. Len(q \o a) + Len(b) :
             rest[i] = IF i <= Len(q \o a) THEN (q \o a)[i] ELSE b[i - Len(q \o a)]
    BY <1>3, <1>10, ConcatProperties, ZenonT(60)
  <2>2. Len(q \o a) = 3 + Len(a) BY <1>10
  <2> QED BY <2>1, <2>2, Zenon
<1> HIDE DEF s, rest
<1>12. Len(a) \in Nat /\ Len(b) \in Nat BY <1>3, LenProperties
<1>13. \A i \in 1 .. Len(rest) : rest[i] = s[i + 2]
  <2> TAKE i \in 1 .. Len(rest)
  <2>1. i \in 1 .. 3 + Len(a) + Len(b) /\ i + 2 \in 1 .. 5 + Len(a) + Len(b) BY <1>11, <1>12
  <2>2. CASE i <= 3
    <3>1. i \in 1 .. 3 /\ i <= 3 + Len(a) /\ i + 2 <= 5 /\ i \in 1 .. 3 + Len(a)
          /\ i + 2 \in 1 .. 5 + Len(a) /\ i + 2 <= 5 + Len(a)
      BY <2>1, <2>2, <1>12
    <3>2. rest[i] = q[i] BY <2>1, <3>1, <1>10, <1>11
    <3>3. s[i + 2] = five[i + 2] BY <2>1, <3>1, <1>8, <1>9
    <3> QED BY <3>1, <3>2, <3>3, <1>6
  <2>3. CASE ~(i <= 3) /\ i <= 3 + Len(a)
    <3>1. ~(i + 2 <= 5) /\ i \in 1 .. 3 + Len(a) /\ i + 2 - 5 = i - 3
          /\ i + 2 \in 1 .. 5 + Len(a) /\ i + 2 <= 5 + Len(a)
      BY <2>1, <2>3, <1>12
    <3>2. rest[i] = a[i - 3] BY <2>1, <2>3, <3>1, <1>10, <1>11
    <3>3. s[i + 2] = a[i + 2 - 5] BY <2>1, <3>1, <1>8, <1>9
    <3> QED BY <3>1, <3>2, <3>3
  <2>4. CASE ~(i <= 3 + Len(a))
    <3>1. ~(i + 2 <= 5 + Len(a)) /\ i + 2 - (5 + Len(a)) = i - (3 + Len(a)) BY <2>1, <2>4, <1>12
    <3>2. rest[i] = b[i - (3 + Len(a))] BY <2>1, <2>4, <1>11
    <3>3. s[i + 2] = b[i + 2 - (5 + Len(a))] BY <2>1, <3>1, <1>9
    <3> QED BY <3>1, <3>2, <3>3
  <2> QED BY <2>2, <2>3, <2>4
<1>14. s # <<>> /\ Head(s) = Enable
  <2>1. Len(s) # 0 BY <1>9, <1>12
  <2>2. s # <<>> BY <2>1, <1>9, EmptySeq
  <2>3. 1 \in 1 .. 5 + Len(a) + Len(b) /\ 1 <= 5 + Len(a) /\ 1 \in 1 .. 5 + Len(a) BY <1>12
  <2>4. s[1] = five[1] BY <2>3, <1>8, <1>9
  <2> QED BY <2>2, <2>4, <1>6, <1>9, HeadTailProperties
<1>15. /\ Tail(s) \in Seq(Steps) /\ Len(Tail(s)) = Len(s) - 1
       /\ \A i \in 1 .. Len(Tail(s)) : Tail(s)[i] = s[i + 1]
  BY <1>9, <1>14, HeadTailProperties
<1>16. Tail(s) # <<>> /\ Head(Tail(s)) = Address
  <2>1. Len(Tail(s)) # 0 /\ Len(Tail(s)) >= 1 BY <1>9, <1>12, <1>15
  <2>2. Tail(s) # <<>> BY <2>1, <1>15, EmptySeq
  <2>3. 2 \in 1 .. 5 + Len(a) + Len(b) /\ 2 <= 5 + Len(a) /\ 2 \in 1 .. 5 + Len(a) BY <1>12
  <2>4. s[2] = five[2] BY <2>3, <1>8, <1>9
  <2>5. Tail(s)[1] = s[2] BY <2>1, <1>15, <1>9, <1>12
  <2> QED BY <2>2, <2>4, <2>5, <1>6, <1>15, HeadTailProperties
<1>17. /\ Tail(Tail(s)) \in Seq(Steps) /\ Len(Tail(Tail(s))) = Len(s) - 2
       /\ \A i \in 1 .. Len(s) - 2 : Tail(Tail(s))[i] = s[i + 2]
  <2>1. /\ Tail(Tail(s)) \in Seq(Steps) /\ Len(Tail(Tail(s))) = Len(Tail(s)) - 1
        /\ \A i \in 1 .. Len(Tail(Tail(s))) : Tail(Tail(s))[i] = Tail(s)[i + 1]
    BY <1>15, <1>16, HeadTailProperties
  <2>2. Len(Tail(Tail(s))) = Len(s) - 2 /\ Len(s) \in Nat
    <3>1. Len(s) \in Nat BY <1>9, LenProperties
    <3>2. Len(Tail(s)) = Len(s) - 1 /\ Len(Tail(Tail(s))) = Len(Tail(s)) - 1 BY <1>15, <2>1
    <3> QED BY <3>1, <3>2
  <2>3. ASSUME NEW i \in 1 .. Len(s) - 2 PROVE Tail(Tail(s))[i] = s[i + 2]
    <3>1. i + 1 \in 1 .. Len(Tail(s)) /\ (i + 1) + 1 = i + 2 BY <2>2, <1>15
    <3> QED BY <2>1, <2>2, <3>1, <1>15
  <2> QED BY <2>1, <2>2, <2>3
<1>18. Tail(Tail(s)) = rest
  <2>1. rest \in Seq(Steps)
    <3>1. Questions \subseteq Steps BY DEF Steps
    <3> QED BY <3>1, <1>11, SeqMonotonic
  <2>2. Len(rest) = Len(Tail(Tail(s))) /\ Len(rest) = Len(s) - 2
    <3>1. Len(s) = 5 + Len(a) + Len(b) /\ Len(rest) = 3 + Len(a) + Len(b) BY <1>9, <1>11
    <3>2. Len(Tail(Tail(s))) = Len(s) - 2 BY <1>17
    <3> QED BY <3>1, <3>2, <1>12, SMTT(30)
  <2>3. \A i \in 1 .. Len(rest) : rest[i] = Tail(Tail(s))[i] BY <2>2, <1>13, <1>17
  <2> QED BY <2>1, <2>2, <2>3, <1>17, SeqEqual
<1>19. rest # <<>> /\ Len(rest) = Len(s) - 2 /\ Len(Tail(s)) > 2 /\ Len(s) \in Nat
  <2>1. Len(rest) # 0 /\ Len(rest) = Len(s) - 2 /\ Len(Tail(s)) > 2 /\ Len(s) \in Nat
    BY <1>9, <1>11, <1>12, <1>15
  <2> QED BY <2>1, <1>11, EmptySeq
<1> QED BY <1>4, <1>9, <1>11, <1>14, <1>15, <1>16, <1>18, <1>19 DEF s

\* What a driver of the device's interface sends.
LEMMA DriverTyped ==
  ASSUME NEW d \in Devices, Sets(d)
  PROVE  DriverSteps(d) \in Seq(Reports \cup Configures)
<1> DEFINE S == Reports \cup Configures
           i == Taken(d)[1]
<1>1. Request(<<"report", 0>>) \in S
  <2>1. Request(<<"report", 0>>) \in Reports BY Zenon DEF Reports
  <2> QED BY <2>1
<1>2. Configure(i, TRUE) \in S /\ Configure(i, FALSE) \in S
  <2>1. Configure(i, TRUE) \in Configures /\ Configure(i, FALSE) \in Configures
    BY Zenon DEF Configures
  <2> QED BY <2>1
<1> SUFFICES ASSUME Taken(d) # <<>> PROVE DriverScript(i, 0) \in Seq(S)
  <2>1. <<>> \in Seq(S) BY EmptySeq
  <2> QED BY <2>1 DEF DriverSteps
<1>3. CASE Driver(i) = "hid"
  <2> DEFINE r == Last(OfType(i, "hid")).reports
             head == [k \in 1 .. r |-> Request(<<"report", 0>>)]
             c == Configure(i, TRUE)
  <2>1. r \in Nat BY <1>3, DescriptorsAssumption
  <2>2. DriverScript(i, 0) = head \o <<c>> BY <1>3 DEF DriverScript
  <2> HIDE DEF r, c
  <2>3. head \in Seq(S)
    <3>1. head \in [1 .. r -> S] BY <1>1
    <3> HIDE DEF head
    <3> QED BY <2>1, <3>1, IsASeq
  <2>4. <<c>> \in Seq(S)
    <3>1. c \in S BY <1>2 DEF c
    <3> QED BY <3>1, SingleTyped
  <2> HIDE DEF head
  <2> QED BY <2>2, <2>3, <2>4, ConcatProperties
<1>4. CASE Driver(i) = "storage"
  <2>1. DriverScript(i, 0) = << Configure(i, TRUE), Configure(i, FALSE) >>
    BY <1>4 DEF DriverScript
  <2> QED BY <2>1, <1>2, PairTyped
<1>5. CASE Driver(i) # "hid" /\ Driver(i) # "storage"
  <2>1. DriverScript(i, 0) = <<>> BY <1>5 DEF DriverScript
  <2> QED BY <2>1, EmptySeq
<1> QED BY <1>3, <1>4, <1>5

-----------------------------------------------------------------------------
(* Commands and completions, by what they are for.                         *)

LEMMA Owners ==
  /\ \A a, b : OfSlot(a) # OfDevice(b)
  /\ \A a, b : OfSlot(a) = OfSlot(b) => a = b
  /\ \A a, b : OfDevice(a) = OfDevice(b) => a = b
BY DEF OfSlot, OfDevice

LEMMA Appended ==
  ASSUME NEW S, NEW q \in Seq(S), NEW x \in S
  PROVE  /\ Append(q, x) \in Seq(S)
         /\ \A k : Of(Append(q, x), k) = Of(q, k) \cup (IF Owner(x) = k THEN {x} ELSE {})
         /\ Unique(q) /\ Of(q, Owner(x)) = {} => Unique(Append(q, x))
<1> DEFINE r == Append(q, x)
<1>1. /\ r \in Seq(S) /\ Len(q) \in Nat /\ Len(r) = Len(q) + 1 /\ r[Len(q) + 1] = x
      /\ \A i \in 1 .. Len(q) : r[i] = q[i]
  BY AppendProperties, LenProperties
<1>2. DOMAIN q = 1 .. Len(q) /\ DOMAIN r = 1 .. Len(q) + 1 BY <1>1, LenProperties
<1> HIDE DEF r
<1>3. ASSUME NEW k PROVE Of(r, k) = Of(q, k) \cup (IF Owner(x) = k THEN {x} ELSE {})
  <2>1. ASSUME NEW y \in Of(r, k) PROVE y \in Of(q, k) \/ (Owner(x) = k /\ y = x)
    <3>1. PICK i \in 1 .. Len(q) + 1 : Owner(r[i]) = k /\ y = r[i] BY <2>1, <1>2 DEF Of
    <3> QED BY <3>1, <1>1, <1>2 DEF Of
  <2>2. ASSUME NEW y \in Of(q, k) PROVE y \in Of(r, k)
    <3>1. PICK i \in 1 .. Len(q) : Owner(q[i]) = k /\ y = q[i] BY <2>2, <1>2 DEF Of
    <3>2. i \in 1 .. Len(q) + 1 /\ r[i] = q[i] BY <1>1
    <3> QED BY <3>1, <3>2, <1>2 DEF Of
  <2>3. ASSUME Owner(x) = k PROVE x \in Of(r, k)
    <3>1. Len(q) + 1 \in 1 .. Len(q) + 1 BY <1>1
    <3> QED BY <3>1, <2>3, <1>1, <1>2 DEF Of
  <2> QED BY <2>1, <2>2, <2>3
<1>4. ASSUME Unique(q), Of(q, Owner(x)) = {} PROVE Unique(r)
  <2>1. \A i \in 1 .. Len(q) : Owner(q[i]) # Owner(x) BY <1>4, <1>2 DEF Of
  <2> SUFFICES ASSUME NEW i \in 1 .. Len(q) + 1, NEW j \in 1 .. Len(q) + 1, Owner(r[i]) = Owner(r[j])
               PROVE  i = j
    BY <1>2 DEF Unique
  <2>2. CASE i \in 1 .. Len(q) /\ j \in 1 .. Len(q) BY <2>2, <1>1, <1>2, <1>4 DEF Unique
  <2>3. CASE i = Len(q) + 1 /\ j \in 1 .. Len(q) BY <2>1, <2>3, <1>1
  <2>4. CASE j = Len(q) + 1 /\ i \in 1 .. Len(q) BY <2>1, <2>4, <1>1
  <2>5. CASE i = Len(q) + 1 /\ j = Len(q) + 1 BY <2>5
  <2> QED BY <2>2, <2>3, <2>4, <2>5, <1>1
<1> QED BY <1>1, <1>3, <1>4 DEF r

LEMMA Removed ==
  ASSUME NEW S, NEW q \in Seq(S), q # <<>>, Unique(q)
  PROVE  /\ Tail(q) \in Seq(S) /\ Head(q) \in S /\ Unique(Tail(q))
         /\ Of(q, Owner(Head(q))) = {Head(q)}
         /\ \A k : Of(Tail(q), k) = IF k = Owner(Head(q)) THEN {} ELSE Of(q, k)
<1> DEFINE r == Tail(q)
<1>1. /\ r \in Seq(S) /\ Head(q) \in S /\ Head(q) = q[1] /\ Len(r) = Len(q) - 1
      /\ \A i \in 1 .. Len(r) : r[i] = q[i + 1]
  BY HeadTailProperties
<1>2. Len(q) \in Nat /\ Len(q) # 0 BY EmptySeq, LenProperties
<1>3. DOMAIN q = 1 .. Len(q) /\ DOMAIN r = 1 .. Len(q) - 1 /\ Len(r) = Len(q) - 1
  BY <1>1, LenProperties
<1> HIDE DEF r
<1>4. 1 \in 1 .. Len(q) /\ \A i \in 1 .. Len(q) - 1 : i + 1 \in 1 .. Len(q) /\ r[i] = q[i + 1] /\ i + 1 # 1
  BY <1>1, <1>2, <1>3
<1>5. Of(q, Owner(q[1])) = {q[1]}
  <2>1. \A i \in 1 .. Len(q) : Owner(q[i]) = Owner(q[1]) => i = 1 BY <1>3, <1>4 DEF Unique
  <2> QED BY <2>1, <1>3, <1>4 DEF Of
<1>6. Unique(r)
  <2> SUFFICES ASSUME NEW i \in 1 .. Len(q) - 1, NEW j \in 1 .. Len(q) - 1, Owner(r[i]) = Owner(r[j])
               PROVE  i = j
    BY <1>3 DEF Unique
  <2>1. i + 1 = j + 1 BY <1>3, <1>4 DEF Unique
  <2> QED BY <2>1
<1>7. ASSUME NEW k PROVE Of(r, k) = IF k = Owner(q[1]) THEN {} ELSE Of(q, k)
  <2>1. \A i \in 1 .. Len(q) - 1 : Owner(r[i]) # Owner(q[1])
    BY <1>3, <1>4 DEF Unique
  <2>2. CASE k = Owner(q[1]) BY <2>1, <2>2, <1>3 DEF Of
  <2>3. CASE k # Owner(q[1])
    <3>1. ASSUME NEW y \in Of(r, k) PROVE y \in Of(q, k)
      <4>1. PICK i \in 1 .. Len(q) - 1 : Owner(r[i]) = k /\ y = r[i] BY <3>1, <1>3 DEF Of
      <4> QED BY <4>1, <1>3, <1>4 DEF Of
    <3>2. ASSUME NEW y \in Of(q, k) PROVE y \in Of(r, k)
      <4>1. PICK i \in 1 .. Len(q) : Owner(q[i]) = k /\ y = q[i] BY <3>2, <1>3 DEF Of
      <4>2. i # 1 BY <4>1, <2>3
      <4>3. i - 1 \in 1 .. Len(q) - 1 /\ (i - 1) + 1 = i BY <4>2, <1>2
      <4>4. r[i - 1] = q[i] BY <4>3, <1>4
      <4> QED BY <4>1, <4>3, <4>4, <1>3 DEF Of
    <3> QED BY <2>3, <3>1, <3>2
  <2> QED BY <2>2, <2>3
<1> QED BY <1>1, <1>5, <1>6, <1>7 DEF r

\* A device that nothing happens to keeps its place.
Same(e) ==
  /\ state'[e] = state[e] /\ slot'[e] = slot[e] /\ used'[e] = used[e]
  /\ flags'[e] = flags[e] /\ ring'[e] = ring[e] /\ buffer'[e] = buffer[e]
  /\ todo'[<<e, Start>>] = todo[<<e, Start>>] /\ todo'[<<e, 1>>] = todo[<<e, 1>>]
  /\ todo'[<<e, 2>>] = todo[<<e, 2>>]
  /\ Commanded(e)' = Commanded(e) /\ Completed(e)' = Completed(e)
  /\ run' = run \/ (~RunOf(e) /\ ~RunOf(e)')
  /\ Busy(e) /\ slot[e] \in Slots => endpoints[slot[e]] \subseteq endpoints'[slot[e]]

LEMMA SameKept ==
  ASSUME NEW e \in Devices, Same(e), OnePlace(e), Stage(e)
  PROVE  OnePlace(e)' /\ Stage(e)'
<1>1. /\ Active(e)' = Active(e) /\ todo'[Active(e)] = todo[Active(e)] /\ Next1(e)' = Next1(e)
      /\ Busy(e)' <=> Busy(e)
      /\ RunOf(e)' <=> RunOf(e)
  <2>1. Active(e)' = Active(e) /\ todo'[Active(e)] = todo[Active(e)] BY DEF Same, Active
  <2>2. Busy(e)' <=> Busy(e) BY DEF Same, Busy
  <2>3. RunOf(e)' <=> RunOf(e)
    <3>1. CASE run' = run BY <3>1 DEF RunOf
    <3>2. CASE ~RunOf(e) /\ ~RunOf(e)' BY <3>2
    <3> QED BY <3>1, <3>2, Zenon DEF Same
  <2>4. Next1(e)' = Next1(e) BY <2>1, Zenon DEF Next1
  <2> QED BY <2>1, <2>2, <2>3, <2>4
<1>2. Left(e, <<e, Start>>)' = Left(e, <<e, Start>>) /\ Left(e, <<e, 1>>)' = Left(e, <<e, 1>>)
  BY <1>1 DEF Same, Left
<1>3. Nothing(e) => Nothing(e)' BY <1>1, Zenon DEF Same, Nothing
<1>4. Runs(e) => Runs(e)'
  <2>1. Runs(e) => RunOf(e) BY DEF Runs, RunOf, Active
  <2>2. RunOf(e) => run' = run BY DEF Same
  <2> QED BY <1>1, <2>1, <2>2, Zenon DEF Same, Runs
<1>5. Sends(e) => Sends(e)' BY <1>1, Zenon DEF Sends, Same
<1>6. HasSent(e) => HasSent(e)' BY <1>1, <1>5, Zenon DEF Same, HasSent
<1>7. HasAsked(e) => HasAsked(e)' BY <1>1, <1>5, Zenon DEF Same, HasAsked
<1>8. HasAnswer(e) => HasAnswer(e)'
  <2> SUFFICES ASSUME HasAnswer(e) PROVE HasAnswer(e)' OBVIOUS
  <2> DEFINE w == Next1(e).what
  <2>1. PICK ok \in BOOLEAN, s \in Slots \cup {Null} :
          /\ Completed(e) = {[task |-> Active(e), what |-> w, ok |-> ok, slot |-> s]}
          /\ ok /\ w[1] = "enable" => s \in Slots
          /\ w[1] = "configure" => ok /\ slot[e] \in Slots /\ w[2] \in endpoints[slot[e]]
          /\ ok /\ Next1(e).to = "control" /\ w # <<"set configuration">> => buffer[e] = w
    BY Zenon DEF HasAnswer
  <2>2. w[1] = "configure" => w[2] \in endpoints'[slot[e]] BY <2>1 DEF Same, HasAnswer, Sends
  <2>3. Next1(e)'.what = w /\ Next1(e)'.to = Next1(e).to BY <1>1
  <2>4. Completed(e)' = {[task |-> Active(e)', what |-> w, ok |-> ok, slot |-> s]}
    BY <1>1, <2>1 DEF Same
  <2>5. w[1] = "configure" => ok /\ slot'[e] \in Slots /\ w[2] \in endpoints'[slot'[e]]
    BY <2>1, <2>2 DEF Same
  <2>6. Sends(e)' /\ Commanded(e)' = {} /\ ring'[e] = <<>> /\ buffer'[e] = buffer[e]
    BY <1>5 DEF HasAnswer, Same
  <2> HIDE DEF w
  <2> QED BY <2>1, <2>3, <2>4, <2>5, <2>6, Zenon DEF HasAnswer
<1>9. OnePlace(e)' BY <1>3, <1>4, <1>6, <1>7, <1>8 DEF OnePlace
<1>10. Enabling(e) => Enabling(e)' BY DEF Enabling, Same
<1>11. Addressing(e) => Addressing(e)' BY DEF Addressing, Same
<1>12. Asking(e) => Asking(e)' BY <1>2 DEF Asking, Same
<1>13. Setting(e) => Setting(e)' BY <1>1 DEF Setting, Same
<1>14. Stage(e)' BY <1>1, <1>2, <1>3, <1>10, <1>11, <1>12, <1>13, Zenon DEF Stage, Same
<1> QED BY <1>9, <1>14

LEMMA OthersKept ==
  ASSUME UsbInv, NEW d \in Devices, OnePlace(d)', Stage(d)',
         \A e \in Devices : e # d => Same(e)
  PROVE  \A e \in Devices : OnePlace(e)' /\ Stage(e)'
<1>1. ASSUME NEW e \in Devices PROVE OnePlace(e)' /\ Stage(e)'
  <2>1. CASE e = d BY <2>1
  <2>2. CASE e # d
    <3>1. Same(e) /\ OnePlace(e) /\ Stage(e) BY <2>2 DEF UsbInv
    <3> QED BY <3>1, SameKept
  <2> QED BY <2>1, <2>2
<1> QED BY <1>1

LEMMA SlotsKept ==
  ASSUME SlotsShared, slot' = slot, table' = table, enabled' = enabled,
         \A d \in Devices : Alive(d)' <=> Alive(d),
         \A s \in Slots : Returns(s)' <=> Returns(s),
         \A d \in Devices, s \in Slots : Announces(d, s)' <=> Announces(d, s),
         table \in [Slots -> Devices \cup {Null}]
  PROVE  SlotsShared'
<1>1. \A d \in Devices : Alive(d)' /\ slot'[d] # Null => table'[slot'[d]] = d BY DEF SlotsShared
<1>2. ASSUME NEW s \in Slots, table'[s] # Null PROVE Alive(table[s])' /\ slot'[table'[s]] = s
  <2>1. table[s] \in Devices BY <1>2
  <2>2. Alive(table[s]) /\ slot[table[s]] = s BY <1>2 DEF SlotsShared
  <2>3. Alive(table[s])' <=> Alive(table[s])
    <3>1. \A d \in Devices : d = table[s] => (Alive(d)' <=> Alive(d)) OBVIOUS
    <3> QED BY <2>1, <3>1 DEF Alive
  <2> QED BY <2>2, <2>3
<1>3. \A s \in Slots : s \in enabled' <=> \/ table'[s] # Null \/ Returns(s)'
                                           \/ \E d \in Devices : Announces(d, s)'
  BY DEF SlotsShared
<1>4. \A s \in Slots : table'[s] # Null => ~Returns(s)' BY DEF SlotsShared
<1>5. \A d \in Devices, s \in Slots : Announces(d, s)' =>
         /\ table'[s] = Null /\ ~Returns(s)'
         /\ \A e \in Devices : Announces(e, s)' => e = d
  BY DEF SlotsShared
<1> QED BY <1>1, <1>2, <1>3, <1>4, <1>5, Zenon DEF SlotsShared

LEMMA DriversKept ==
  ASSUME DriversServed, given' = given,
         \A e \in Devices : state[e] = "used" =>
           /\ state'[e] = "used" /\ slot'[e] = slot[e]
           /\ endpoints[slot[e]] \subseteq endpoints'[slot[e]]
  PROVE  DriversServed'
<1> SUFFICES ASSUME NEW t \in Tasks, given'[t] # {}
             PROVE  state'[t[1]] = "used" /\ given'[t] \subseteq endpoints'[slot'[t[1]]]
  BY Zenon DEF DriversServed
<1>1. t[1] \in Devices BY DEF Tasks
<1>2. state[t[1]] = "used" /\ given[t] \subseteq endpoints[slot[t[1]]] BY DEF DriversServed
<1> QED BY <1>1, <1>2

LEMMA TaskParts ==
  ASSUME NEW d \in Devices
  PROVE  /\ <<d, Start>> \in Tasks /\ <<d, 1>> \in Tasks /\ <<d, 2>> \in Tasks
         /\ Active(d) \in Tasks /\ Active(d)[1] = d
         /\ \A e \in Devices : \A m, n : <<d, m>> = <<e, n>> => d = e /\ m = n
BY DEF Tasks, Start, Active

LEMMA NextTyped ==
  ASSUME Types, NEW d \in Devices, todo[Active(d)] # <<>>
  PROVE  Next1(d) \in Steps /\ todo[Active(d)] \in Seq(Steps)
<1>1. todo[Active(d)] \in Seq(Steps) BY TaskParts DEF Types
<1> QED BY <1>1, HeadTailProperties DEF Next1

\* What a device waits for tells how far it has come.
LEMMA StageKinds ==
  ASSUME UsbInv, NEW d \in Devices, Busy(d), todo[Active(d)] # <<>>
  PROVE  LET w == Next1(d).what IN
         /\ state[d] = "starting" =>
              /\ Enabling(d) => w = <<"enable">> /\ w[1] = "enable"
              /\ Addressing(d) => w = <<"address">> /\ w[1] = "address"
              /\ Asking(d) => w[1] \notin Kept
              /\ Setting(d) => w[1] = "set configuration"
         /\ state[d] = "used" => w[1] = "configure" \/ w[1] \notin Kept
<1> DEFINE w == Next1(d).what
<1>1. ASSUME state[d] = "starting", Enabling(d) PROVE w = <<"enable">> /\ w[1] = "enable"
  <2>1. Next1(d) = Enable BY <1>1, ScriptTyped DEF Next1, Active, Enabling
  <2>2. Enable.what = <<"enable">> BY Parts DEF Enable, Command
  <2> QED BY <2>1, <2>2, SingleHead, Zenon
<1>2. ASSUME state[d] = "starting", Addressing(d) PROVE w = <<"address">> /\ w[1] = "address"
  <2>1. Next1(d) = Address BY <1>2, ScriptTyped DEF Next1, Active, Addressing
  <2>2. Address.what = <<"address">> BY Parts DEF Address, Command
  <2> QED BY <2>1, <2>2, SingleHead, Zenon
<1>3. ASSUME state[d] = "starting", Asking(d) PROVE w[1] \notin Kept
  <2>1. Next1(d) \in Questions BY <1>3, HeadTailProperties DEF Asking, Next1, Active
  <2> QED BY <2>1, QuestionKinds
<1>4. ASSUME state[d] = "starting", Setting(d) PROVE w[1] = "set configuration"
  <2>1. Next1(d) = Set BY <1>4 DEF Next1, Active, Setting
  <2>2. Set.what = <<"set configuration">> BY Parts DEF Set, Request
  <2>3. w = <<"set configuration">> BY <2>1, <2>2
  <2> HIDE DEF w
  <2> QED BY <2>3, SingleHead, Zenon
<1>5. ASSUME state[d] = "used" PROVE w[1] = "configure" \/ w[1] \notin Kept
  <2>1. todo[<<d, 1>>] \in Seq(Reports \cup Configures) /\ todo[<<d, 1>>] # <<>>
    BY <1>5 DEF UsbInv, Stage, Active
  <2>2. Next1(d) \in Reports \cup Configures
    BY <1>5, <2>1, HeadTailProperties DEF Next1, Active
  <2> QED BY <2>2, QuestionKinds, ConfigureKinds
<1> QED BY <1>1, <1>2, <1>3, <1>4, <1>5

\* The coroutine that a completion resumes is the one its device waits in.
LEMMA Resumed ==
  ASSUME UsbInv, NEW d \in Devices, NEW n \in 0 .. 2, Resumes(<<d, n>>)
  PROVE  /\ <<d, n>> = Active(d) /\ Sends(d) /\ Commanded(d) = {} /\ ring[d] = <<>>
         /\ Event.what = Next1(d).what /\ Event.ok \in BOOLEAN /\ run = <<>>
         /\ Completed(d) = {Event} /\ Completed(d)' = {}
         /\ \A e \in Devices : e # d => Completed(e)' = Completed(e)
         /\ Unique(events)' /\ events' \in Seq(EventRecords)
         /\ Event.ok /\ Event.what[1] = "enable" => Event.slot \in Slots
         /\ Event.what[1] = "configure" => Event.ok /\ slot[d] \in Slots
                                            /\ Event.what[2] \in endpoints[slot[d]]
<1>1. events \in Seq(EventRecords) /\ events # <<>> /\ Unique(events) /\ events' = Tail(events)
      /\ Event.task = <<d, n>> /\ run = <<>>
  BY DEF UsbInv, Types, Once, Resumes
<1>2. /\ Tail(events) \in Seq(EventRecords) /\ Head(events) \in EventRecords /\ Unique(Tail(events))
      /\ Of(events, Owner(Head(events))) = {Head(events)}
      /\ \A k : Of(Tail(events), k) = IF k = Owner(Head(events)) THEN {} ELSE Of(events, k)
  BY <1>1, Removed, Zenon
<1>3. Owner(Event) = OfDevice(d)
  <2>1. Event.task # Null BY <1>2, DescriptorsAssumption DEF Event, EventRecords
  <2>2. Event.task[1] = d BY <1>1
  <2> QED BY <2>1, <2>2, Zenon DEF Owner
<1>4. Completed(d) = {Event} /\ Completed(d)' = {}
  BY <1>1, <1>2, <1>3, Zenon DEF Completed, Event
<1>5. \A e \in Devices : e # d => Completed(e)' = Completed(e)
  BY <1>1, <1>2, <1>3, Owners, Zenon DEF Completed, Event
<1>6. HasAnswer(d)
  <2>1. OnePlace(d) BY DEF UsbInv
  <2>2. Completed(d) # {} BY <1>4
  <2> QED BY <2>1, <2>2 DEF OnePlace, Nothing, Runs, HasSent, HasAsked
<1> DEFINE w == Next1(d).what
<1>7. PICK ok \in BOOLEAN, s \in Slots \cup {Null} :
        /\ Completed(d) = {[task |-> Active(d), what |-> w, ok |-> ok, slot |-> s]}
        /\ ok /\ w[1] = "enable" => s \in Slots
        /\ w[1] = "configure" => ok /\ slot[d] \in Slots /\ w[2] \in endpoints[slot[d]]
  BY <1>6, Zenon DEF HasAnswer
<1> HIDE DEF w
<1>8. Event = [task |-> Active(d), what |-> w, ok |-> ok, slot |-> s] BY <1>4, <1>7
<1>9. Event.task = Active(d) /\ Event.what = w /\ Event.ok = ok /\ Event.slot = s BY <1>8
<1>10. Sends(d) /\ Commanded(d) = {} /\ ring[d] = <<>> BY <1>6 DEF HasAnswer
<1>11. <<d, n>> = Active(d) BY <1>1, <1>9
<1>12. Unique(events)' /\ events' \in Seq(EventRecords) BY <1>1, <1>2
<1>13. Event.what = Next1(d).what BY <1>9 DEF w
<1> QED BY <1>1, <1>4, <1>5, <1>7, <1>9, <1>10, <1>11, <1>12, <1>13, Zenon

LEMMA TodoSet ==
  ASSUME Types, NEW d \in Devices, NEW n \in 0 .. 2, NEW x \in Seq(Steps),
         todo' = [todo EXCEPT ![<<d, n>>] = x]
  PROVE  /\ todo' \in [Tasks -> Seq(Steps)] /\ todo'[<<d, n>>] = x
         /\ \A e \in Devices, m \in 0 .. 2 : e # d \/ m # n => todo'[<<e, m>>] = todo[<<e, m>>]
<1>1. <<d, n>> \in Tasks /\ todo \in [Tasks -> Seq(Steps)] BY DEF Tasks, Types
<1>2. ASSUME NEW e \in Devices, NEW m \in 0 .. 2, e # d \/ m # n
      PROVE  todo'[<<e, m>>] = todo[<<e, m>>]
  <2>1. <<e, m>> \in Tasks /\ <<e, m>> # <<d, n>> BY <1>2 DEF Tasks
  <2> QED BY <1>1, <2>1
<1> QED BY <1>1, <1>2

\* The other devices of a step of a coroutine that a completion resumed.
LEMMA OthersSame ==
  ASSUME UsbInv, NEW d \in Devices, NEW n \in 0 .. 2, Resumes(<<d, n>>),
         \A e \in Devices, m \in 0 .. 2 : e # d => todo'[<<e, m>>] = todo[<<e, m>>],
         run' \in {<<>>, << <<d, 0>> >>, << <<d, 1>> >>},
         used' = used, flags' = flags, ring' = ring, buffer' = buffer, endpoints' = endpoints,
         \A e \in Devices : e # d => state'[e] = state[e] /\ slot'[e] = slot[e],
         \A e \in Devices : e # d => Commanded(e)' = Commanded(e)
  PROVE  \A e \in Devices : e # d => Same(e)
<1> SUFFICES ASSUME NEW e \in Devices, e # d PROVE Same(e) OBVIOUS
<1>1. todo'[<<e, Start>>] = todo[<<e, Start>>] /\ todo'[<<e, 1>>] = todo[<<e, 1>>]
      /\ todo'[<<e, 2>>] = todo[<<e, 2>>]
  <2>1. Start \in 0 .. 2 /\ 1 \in 0 .. 2 /\ 2 \in 0 .. 2 BY DEF Start
  <2> QED BY <2>1
<1>2. Completed(e)' = Completed(e) BY Resumed
<1>3. ~RunOf(e) BY DEF Resumes, RunOf
<1>4. ~RunOf(e)' BY DEF RunOf
<1> QED BY <1>1, <1>2, <1>3, <1>4 DEF Same

LEMMA Starting ==
  ASSUME UsbInv, NEW d \in Devices, Resumes(<<d, Start>>)
  PROVE  /\ state[d] = "starting" /\ Busy(d) /\ Alive(d) /\ Active(d) = <<d, Start>> /\ run = <<>>
         /\ todo[<<d, Start>>] # <<>> /\ todo[<<d, 1>>] = <<>> /\ todo[<<d, 2>>] = <<>>
         /\ Enabling(d) \/ Addressing(d) \/ Asking(d) \/ Setting(d)
         /\ Event.what = Next1(d).what /\ Next1(d) = Head(todo[<<d, Start>>])
<1>1. Start \in 0 .. 2 BY DEF Start
<1>2. <<d, Start>> = Active(d) /\ Sends(d) /\ run = <<>> /\ Event.what = Next1(d).what
  BY <1>1, Resumed
<1>3. state[d] = "starting" BY <1>2 DEF Active, Start
<1> QED BY <1>2, <1>3 DEF UsbInv, Stage, Sends, Busy, Alive, Next1

LEMMA EnabledKeeps ==
  ASSUME UsbInv, NEW d \in Devices, Enabled(d)
  PROVE  UsbInv'
<1> DEFINE s == Event.slot
           x == Tail(todo[<<d, Start>>])
<1>1. Start \in 0 .. 2 /\ Resumes(<<d, Start>>) /\ Event.what[1] = "enable" /\ Event.ok
  BY DEF Enabled, Start, Done
<1>2. /\ state[d] = "starting" /\ Busy(d) /\ Alive(d) /\ Active(d) = <<d, Start>> /\ run = <<>>
      /\ todo[<<d, Start>>] # <<>> /\ todo[<<d, 1>>] = <<>> /\ todo[<<d, 2>>] = <<>>
      /\ Enabling(d) \/ Addressing(d) \/ Asking(d) \/ Setting(d)
      /\ Event.what = Next1(d).what
  BY <1>1, Starting
<1>3. Enabling(d) /\ Event.what = <<"enable">> BY <1>1, <1>2, StageKinds DEF Kept
<1>4. /\ Commanded(d) = {} /\ ring[d] = <<>> /\ Completed(d) = {Event} /\ Completed(d)' = {}
      /\ \A e \in Devices : e # d => Completed(e)' = Completed(e)
      /\ Unique(events)' /\ events' \in Seq(EventRecords) /\ s \in Slots
  BY <1>1, Resumed
<1>5. /\ slot' = [slot EXCEPT ![d] = s] /\ table' = [table EXCEPT ![s] = d]
      /\ todo' = [todo EXCEPT ![<<d, Start>>] = x] /\ run' = << <<d, Start>> >>
      /\ UNCHANGED <<state, used, flags, commands, ring, halted, buffer, enabled, endpoints, given>>
  BY DEF Enabled, Proceed, controller
<1>6. x \in Seq(Steps) /\ x = Tail(Script(d)) /\ slot[d] = Null /\ used[d] = 0
  BY <1>3, ScriptTyped DEF Enabling
<1>7. Types BY DEF UsbInv
<1> HIDE DEF x
<1>8. /\ todo' \in [Tasks -> Seq(Steps)] /\ todo'[<<d, Start>>] = x
      /\ \A e \in Devices, m \in 0 .. 2 : e # d \/ m # Start => todo'[<<e, m>>] = todo[<<e, m>>]
  <2>1. Start \in 0 .. 2 /\ x \in Seq(Steps) BY <1>1, <1>6
  <2>2. todo' = [todo EXCEPT ![<<d, Start>>] = x] BY <1>5
  <2> QED BY <1>7, <2>1, <2>2, TodoSet, Zenon
<1>9. slot'[d] = s /\ \A e \in Devices : e # d => slot'[e] = slot[e] BY <1>5, <1>7 DEF Types
<1>10. Types' BY <1>4, <1>5, <1>7, <1>8 DEF Types
<1>11. Once' BY <1>4, <1>5, TaskParts DEF UsbInv, Once, Proper
<1>12. \A e \in Devices : Commanded(e)' = Commanded(e) BY <1>5 DEF Commanded, Of
<1>13. \A e \in Devices : e # d => Same(e)
  <2>1. run' \in {<<>>, << <<d, 0>> >>, << <<d, 1>> >>} BY <1>5 DEF Start
  <2>2. \A e \in Devices, m \in 0 .. 2 : e # d => todo'[<<e, m>>] = todo[<<e, m>>] BY <1>8
  <2>3. \A e \in Devices : e # d => state'[e] = state[e] /\ slot'[e] = slot[e] BY <1>5, <1>9
  <2>4. used' = used /\ flags' = flags /\ ring' = ring /\ buffer' = buffer /\ endpoints' = endpoints
    BY <1>5
  <2> QED BY <2>1, <2>2, <2>3, <2>4, <1>1, <1>12, OthersSame
<1>14. OnePlace(d)'
  <2>1. Active(d)' = <<d, Start>> /\ Busy(d)' BY <1>2, <1>5 DEF Active, Busy
  <2>2. Runs(d)' BY <2>1, <1>4, <1>5, <1>12 DEF Runs
  <2> QED BY <2>2 DEF OnePlace
<1>15. Stage(d)'
  <2>1. Addressing(d)' BY <1>5, <1>6, <1>8, <1>9, <1>4 DEF Addressing
  <2>2. todo'[<<d, 2>>] = <<>> /\ todo'[<<d, 1>>] = <<>> BY <1>2, <1>8 DEF Start
  <2>3. used'[d] <= RingBlocks BY <1>5 DEF UsbInv, Stage
  <2>4. state'[d] = "starting" /\ Busy(d)' BY <1>2, <1>5 DEF Busy
  <2> QED BY <2>1, <2>2, <2>3, <2>4 DEF Stage
<1>16. \A e \in Devices : OnePlace(e)' /\ Stage(e)' BY <1>13, <1>14, <1>15, OthersKept
<1>17. SlotsShared'
  <2>1. Announces(d, s) BY <1>1, <1>3, <1>4 DEF Announces
  <2>2. table[s] = Null /\ ~Returns(s) /\ \A e \in Devices : Announces(e, s) => e = d
    BY <2>1, <1>4 DEF UsbInv, SlotsShared
  <2>3. \A e \in Devices, r \in Slots : Announces(e, r)' <=> e # d /\ Announces(e, r)
    BY <1>4 DEF Announces
  <2>4. \A r : Returns(r)' <=> Returns(r) BY <1>5 DEF Returns, Of
  <2>5. \A e : Alive(e)' <=> Alive(e) BY <1>5 DEF Alive
  <2>6. \A r \in Slots : Announces(d, r) => r = s BY <1>4 DEF Announces
  <2>7. \A r \in Slots : table'[r] = IF r = s THEN d ELSE table[r] BY <1>5, <1>7 DEF Types
  <2>8. d # Null /\ s # Null BY <1>4, DevicesAssumption
  <2>9. SlotsShared BY DEF UsbInv
  <2>10. ASSUME NEW e \in Devices, Alive(e)', slot'[e] # Null PROVE table'[slot'[e]] = e
    <3>1. CASE e = d BY <3>1, <1>4, <1>9, <2>7
    <3>2. CASE e # d
      <4>1. slot'[e] = slot[e] /\ table[slot[e]] = e /\ slot[e] \in Slots
        <5>1. Alive(e) BY <2>5, <2>10
        <5>2. slot'[e] = slot[e] /\ slot[e] # Null BY <3>2, <2>10, <1>9
        <5> QED BY <5>1, <5>2, <2>9, <1>7, ZenonT(60) DEF SlotsShared, Types
      <4>2. slot[e] # s BY <4>1, <2>2, DevicesAssumption
      <4> QED BY <4>1, <4>2, <2>7
    <3> QED BY <3>1, <3>2
  <2>11. ASSUME NEW r \in Slots, table'[r] # Null PROVE Alive(table[r])' /\ slot'[table'[r]] = r
    <3>1. CASE r = s
      <4>1. table'[r] = d BY <3>1, <2>7
      <4>2. Alive(d)' BY <1>2, <2>5
      <4> QED BY <3>1, <4>1, <4>2, <1>9 DEF Alive
    <3>2. CASE r # s
      <4>1. table'[r] = table[r] /\ table[r] \in Devices BY <3>2, <2>7, <2>11, <1>7 DEF Types
      <4>2. Alive(table[r]) /\ slot[table[r]] = r BY <4>1, <2>11, <2>9 DEF SlotsShared
      <4>3. table[r] # d BY <4>2, <1>6, DevicesAssumption
      <4> QED BY <4>1, <4>2, <4>3, <1>5, <1>9 DEF Alive
    <3> QED BY <3>1, <3>2
  <2>12. ASSUME NEW r \in Slots
         PROVE  r \in enabled' <=> \/ table'[r] # Null \/ Returns(r)'
                                   \/ \E e \in Devices : Announces(e, r)'
    <3>1. r \in enabled <=> \/ table[r] # Null \/ Returns(r)
                             \/ \E e \in Devices : Announces(e, r)
      BY <2>9 DEF SlotsShared
    <3>2. CASE r = s BY <3>1, <3>2, <2>1, <2>7, <2>8, <1>5
    <3>3. CASE r # s BY <3>1, <3>3, <2>3, <2>4, <2>6, <2>7, <1>5
    <3> QED BY <3>2, <3>3
  <2>13. ASSUME NEW r \in Slots, table'[r] # Null PROVE ~Returns(r)'
    BY <2>13, <2>2, <2>4, <2>7, <2>9 DEF SlotsShared
  <2>14. ASSUME NEW e \in Devices, NEW r \in Slots, Announces(e, r)'
         PROVE  /\ table'[r] = Null /\ ~Returns(r)'
                /\ \A f \in Devices : Announces(f, r)' => f = e
    <3>1. e # d /\ Announces(e, r) BY <2>3, <2>14
    <3>2. r # s BY <3>1, <2>2
    <3>3. table[r] = Null /\ ~Returns(r) /\ \A f \in Devices : Announces(f, r) => f = e
      BY <3>1, <2>9 DEF SlotsShared
    <3> QED BY <3>2, <3>3, <2>3, <2>4, <2>7
  <2> QED BY <2>10, <2>11, <2>12, <2>13, <2>14, Zenon DEF SlotsShared
<1>18. DriversServed'
  <2>1. \A e \in Devices : state[e] = "used" => e # d BY <1>2
  <2> QED BY <1>5, <1>9, <2>1, DriversKept DEF UsbInv
<1> QED BY <1>10, <1>11, <1>16, <1>17, <1>18 DEF UsbInv

Stages == {"unborn", "starting", "deleted", "given up", "owned", "used"}

\* A step of a resumed coroutine that leaves the slots and rings alone.
LEMMA Continues ==
  ASSUME UsbInv, NEW d \in Devices, NEW n \in 0 .. 2, Resumes(<<d, n>>),
         NEW st \in Stages \ {"unborn"}, state' = [state EXCEPT ![d] = st],
         todo' \in [Tasks -> Seq(Steps)],
         \A e \in Devices, m \in 0 .. 2 : e # d => todo'[<<e, m>>] = todo[<<e, m>>],
         run' = <<>> \/ (run' = <<Active(d)'>> /\ Busy(d)'),
         slot' = slot, table' = table, used' = used, flags' = flags, commands' = commands,
         ring' = ring, halted' = halted, buffer' = buffer, enabled' = enabled,
         endpoints' = endpoints,
         given' \in [Tasks -> SUBSET Ends], DriversServed',
         Event.what[1] # "enable" \/ ~Event.ok,
         st # "deleted" \/ slot[d] = Null,
         Stage(d)'
  PROVE  UsbInv'
<1>1. /\ Commanded(d) = {} /\ ring[d] = <<>> /\ Completed(d) = {Event} /\ Completed(d)' = {}
      /\ \A e \in Devices : e # d => Completed(e)' = Completed(e)
      /\ Unique(events)' /\ events' \in Seq(EventRecords)
      /\ Active(d) = <<d, n>> /\ Sends(d) /\ run = <<>>
  BY Resumed
<1>2. Types /\ SlotsShared BY DEF UsbInv
<1>4. state'[d] = st /\ state' \in [Devices -> Stages]
      /\ \A e \in Devices : e # d => state'[e] = state[e]
  BY <1>2 DEF Types, Stages
<1>5. Types' BY <1>1, <1>2, <1>4 DEF Types, Stages
<1>6. Active(d)' \in Tasks /\ Active(d)' \in {<<d, 0>>, <<d, 1>>}
  BY TaskParts DEF Active, Tasks, Start
<1>7. Once'
  <2>1. run' = <<>> \/ \E t \in Tasks : run' = <<t>> BY <1>6
  <2> QED BY <1>1, <2>1 DEF UsbInv, Once, Proper
<1>8. \A e : Commanded(e)' = Commanded(e) BY DEF Commanded, Of
<1>9. \A e \in Devices : e # d => Same(e)
  <2>1. run' \in {<<>>, << <<d, 0>> >>, << <<d, 1>> >>} BY <1>6
  <2> QED BY <2>1, <1>4, <1>8, OthersSame
<1>10. OnePlace(d)'
  <2>1. Commanded(d)' = {} /\ ring'[d] = <<>> /\ Completed(d)' = {} BY <1>1, <1>8
  <2>2. CASE run' = <<>>
    <3>1. ~RunOf(d)' BY <2>2 DEF RunOf
    <3> QED BY <2>1, <3>1, Zenon DEF OnePlace, Nothing
  <2>3. CASE run' = <<Active(d)'>> /\ Busy(d)'
    <3>1. Runs(d)' BY <2>1, <2>3 DEF Runs
    <3> QED BY <3>1, Zenon DEF OnePlace
  <2> QED BY <2>2, <2>3
<1>11. \A e \in Devices : OnePlace(e)' /\ Stage(e)' BY <1>9, <1>10, OthersKept
<1>12. SlotsShared'
  <2>1. \A e \in Devices, s \in Slots : Announces(e, s)' <=> Announces(e, s)
    <3>1. \A s \in Slots : ~Announces(d, s)' /\ ~Announces(d, s)
      <4>1. Event.ok => Event.what # <<"enable">> BY SingleHead, Zenon
      <4> QED BY <1>1, <4>1 DEF Announces
    <3>2. \A e \in Devices, s \in Slots : e # d => (Announces(e, s)' <=> Announces(e, s))
      BY <1>1 DEF Announces
    <3> QED BY <3>1, <3>2
  <2>2. \A s : Returns(s)' <=> Returns(s) BY DEF Returns, Of
  <2>3. CASE st # "deleted"
    <3>1. Alive(d) BY <1>1 DEF Sends, Busy, Alive
    <3>2. Alive(d)' BY <2>3, <1>4 DEF Alive, Stages
    <3>3. \A e \in Devices : Alive(e)' <=> Alive(e) BY <3>1, <3>2, <1>4 DEF Alive
    <3> QED BY <1>2, <2>1, <2>2, <3>3, SlotsKept DEF Types
  <2>4. CASE slot[d] = Null
    <3>1. \A e \in Devices : e # d => (Alive(e)' <=> Alive(e)) BY <1>4 DEF Alive
    <3>2. \A s \in Slots : table[s] # d
      <4> SUFFICES ASSUME NEW s \in Slots, table[s] = d PROVE FALSE OBVIOUS
      <4>1. d # Null /\ s # Null BY DevicesAssumption
      <4>2. slot[table[s]] = s BY <4>1, <1>2 DEF SlotsShared
      <4> QED BY <4>1, <4>2, <2>4
    <3>3. \A e \in Devices : Alive(e)' /\ slot'[e] # Null => table'[slot'[e]] = e
      BY <2>4, <3>1, <1>2 DEF SlotsShared
    <3>4. ASSUME NEW s \in Slots, table'[s] # Null PROVE Alive(table[s])' /\ slot'[table'[s]] = s
      <4>1. table[s] \in Devices /\ table[s] # d BY <3>2, <3>4, <1>2 DEF Types
      <4>2. Alive(table[s]) /\ slot[table[s]] = s BY <3>4, <1>2 DEF SlotsShared
      <4> QED BY <4>1, <4>2, <1>4 DEF Alive
    <3>5. \A s \in Slots : s \in enabled' <=> \/ table'[s] # Null \/ Returns(s)'
                                               \/ \E e \in Devices : Announces(e, s)'
      BY <1>2, <2>1, <2>2 DEF SlotsShared
    <3>6. \A s \in Slots : table'[s] # Null => ~Returns(s)' BY <1>2, <2>2 DEF SlotsShared
    <3>7. \A e \in Devices, s \in Slots : Announces(e, s)' =>
             /\ table'[s] = Null /\ ~Returns(s)'
             /\ \A f \in Devices : Announces(f, s)' => f = e
      BY <1>2, <2>1, <2>2 DEF SlotsShared
    <3> QED BY <3>3, <3>4, <3>5, <3>6, <3>7, Zenon DEF SlotsShared
  <2> QED BY <2>3, <2>4
<1> QED BY <1>5, <1>7, <1>11, <1>12 DEF UsbInv

LEMMA StartSet ==
  ASSUME Types, NEW d \in Devices, NEW x \in Seq(Steps),
         todo' = [todo EXCEPT ![<<d, Start>>] = x]
  PROVE  /\ todo' \in [Tasks -> Seq(Steps)] /\ todo'[<<d, Start>>] = x
         /\ todo'[<<d, 1>>] = todo[<<d, 1>>] /\ todo'[<<d, 2>>] = todo[<<d, 2>>]
         /\ \A e \in Devices, m \in 0 .. 2 : e # d => todo'[<<e, m>>] = todo[<<e, m>>]
<1>1. Start \in 0 .. 2 /\ 1 \in 0 .. 2 /\ 2 \in 0 .. 2 /\ 1 # Start /\ 2 # Start BY DEF Start
<1>2. ASSUME NEW n \in 0 .. 2, n = Start
      PROVE  /\ todo' \in [Tasks -> Seq(Steps)] /\ todo'[<<d, n>>] = x
             /\ \A e \in Devices, m \in 0 .. 2 : e # d \/ m # n => todo'[<<e, m>>] = todo[<<e, m>>]
  <2>1. todo' = [todo EXCEPT ![<<d, n>>] = x] BY <1>2
  <2> QED BY <2>1, TodoSet
<1> QED BY <1>1, <1>2

LEMMA NotEnabledKeeps ==
  ASSUME UsbInv, NEW d \in Devices, NotEnabled(d)
  PROVE  UsbInv'
<1>1. Start \in 0 .. 2 /\ Resumes(<<d, Start>>) /\ Event.what[1] = "enable" /\ ~Event.ok
  BY DEF NotEnabled, Start, Done
<1>2. /\ state[d] = "starting" /\ Busy(d) /\ Active(d) = <<d, Start>> /\ run = <<>>
      /\ todo[<<d, Start>>] # <<>> /\ todo[<<d, 1>>] = <<>> /\ todo[<<d, 2>>] = <<>>
      /\ Enabling(d) \/ Addressing(d) \/ Asking(d) \/ Setting(d)
      /\ Event.what = Next1(d).what
  BY <1>1, Starting
<1>3. Enabling(d) BY <1>1, <1>2, StageKinds DEF Kept
<1>4. /\ state' = [state EXCEPT ![d] = "deleted"] /\ todo' = [todo EXCEPT ![<<d, Start>>] = <<>>]
      /\ UNCHANGED <<slot, table, used, flags, run, commands, ring, halted, buffer, enabled,
                     endpoints, given>>
  BY DEF NotEnabled, Deleted, controller
<1>5. <<>> \in Seq(Steps) /\ "deleted" \in Stages \ {"unborn"} BY EmptySeq DEF Stages
<1>6. slot[d] = Null /\ Types BY <1>3 DEF Enabling, UsbInv
<1>11. /\ todo' \in [Tasks -> Seq(Steps)] /\ todo'[<<d, Start>>] = <<>>
       /\ todo'[<<d, 1>>] = todo[<<d, 1>>] /\ todo'[<<d, 2>>] = todo[<<d, 2>>]
       /\ \A e \in Devices, m \in 0 .. 2 : e # d => todo'[<<e, m>>] = todo[<<e, m>>]
  BY <1>4, <1>5, <1>6, StartSet, Zenon
<1>7. Stage(d)'
  <2>2. todo'[<<d, 1>>] = <<>> /\ todo'[<<d, 2>>] = <<>> BY <1>2, <1>11
  <2>3. state'[d] = "deleted" BY <1>4, <1>6 DEF Types
  <2>4. used'[d] <= RingBlocks BY <1>4 DEF UsbInv, Stage
  <2> QED BY <1>11, <2>2, <2>3, <2>4 DEF Stage
<1>8. DriversServed'
  <2>1. \A e \in Devices : state[e] = "used" => state'[e] = "used" BY <1>2, <1>4, <1>6 DEF Types
  <2> QED BY <1>4, <2>1, DriversKept DEF UsbInv
<1>9. given' \in [Tasks -> SUBSET Ends] BY <1>4, <1>6 DEF Types
<1>10. run' = <<>> BY <1>2, <1>4
<1> QED BY <1>1, <1>4, <1>5, <1>6, <1>7, <1>8, <1>9, <1>10, <1>11, Continues

\* What is left of a sequence without its first element.
LEMMA TailKinds ==
  ASSUME NEW S, NEW q \in Seq(S), q # <<>>
  PROVE  /\ Tail(q) \in Seq(S) /\ Len(q) \in Nat \ {0} /\ Len(Tail(q)) = Len(q) - 1
         /\ Len(q) > 1 => Tail(q) # <<>>
<1>1. Tail(q) \in Seq(S) /\ Len(Tail(q)) = Len(q) - 1 BY HeadTailProperties
<1>2. Len(q) \in Nat \ {0} BY EmptySeq, LenProperties
<1>3. Len(q) > 1 => Len(Tail(q)) # 0 BY <1>1, <1>2, SMTT(30)
<1>4. Tail(q) = <<>> => Len(Tail(q)) = 0 BY EmptySeq
<1> QED BY <1>1, <1>2, <1>3, <1>4

LEMMA QuestionsSteps == /\ Seq(Questions) \subseteq Seq(Steps)
                        /\ Seq(Reports \cup Configures) \subseteq Seq(Steps)
<1>1. Questions \subseteq Steps /\ Reports \cup Configures \subseteq Steps BY DEF Steps
<1> QED BY <1>1, SeqMonotonic

LEMMA GoOnKeeps ==
  ASSUME UsbInv, NEW d \in Devices, GoOn(d)
  PROVE  UsbInv'
<1> DEFINE t == <<d, Start>>
           R == IF Sets(d) THEN 2 + 3 * Len(DriverSteps(d)) ELSE 0
<1>1. Start \in 0 .. 2 /\ Resumes(t) /\ ~Done("enable") /\ ~Done("set configuration")
  <2>1. Start \in 0 .. 2 BY DEF Start
  <2> QED BY <2>1 DEF GoOn
<1>2. /\ state[d] = "starting" /\ Busy(d) /\ Active(d) = t /\ run = <<>>
      /\ todo[t] # <<>> /\ todo[<<d, 1>>] = <<>> /\ todo[<<d, 2>>] = <<>>
      /\ Enabling(d) \/ Addressing(d) \/ Asking(d) \/ Setting(d)
      /\ Event.what = Next1(d).what
  BY <1>1, Starting
<1>3. Addressing(d) \/ Asking(d) BY <1>1, <1>2, StageKinds DEF Done, Kept
<1>4. Types /\ used[d] \in Nat /\ (Sets(d) => Len(DriverSteps(d)) \in Nat)
  BY DriverTyped, LenProperties DEF UsbInv, Types
<1>5. PICK x \in Seq(Questions) \ {<<>>} :
        /\ todo' = [todo EXCEPT ![t] = x] /\ run' = <<t>>
        /\ used[d] + 3 * Len(x) + R <= RingBlocks
  <2>1. CASE Addressing(d)
    <3>1. PICK rest \in Seq(Questions) :
            /\ rest # <<>> /\ Len(rest) = Len(Script(d)) - 2 /\ Tail(Tail(Script(d))) = rest
      BY ScriptTyped
    <3>2. todo[t] = Tail(Script(d)) /\ used[d] = 0 /\ Event.what[1] = "address"
      BY <2>1, <1>2, StageKinds DEF Addressing
    <3>3. todo' = [todo EXCEPT ![t] = Tail(@)] /\ run' = <<t>>
      BY <3>2 DEF GoOn, Proceed, Done
    <3>4. todo' = [todo EXCEPT ![t] = rest] BY <3>1, <3>2, <3>3
    <3>5. 3 * (Len(Script(d)) - 2) + R <= RingBlocks BY RingAssumption
    <3>6. used[d] + 3 * Len(rest) + R = 3 * (Len(Script(d)) - 2) + R
      <4>1. Len(rest) \in Nat /\ R \in Int BY <1>4, LenProperties
      <4> HIDE DEF R
      <4> QED BY <3>1, <3>2, <4>1
    <3> QED BY <3>1, <3>3, <3>4, <3>5, <3>6
  <2>2. CASE Asking(d)
    <3> DEFINE q == todo[t]
    <3>1. q \in Seq(Questions) /\ q # <<>> BY <2>2 DEF Asking
    <3>2. ~RunOf(d) BY <1>2 DEF RunOf
    <3>3. used[d] + 3 * (Len(q) - 1) + R <= RingBlocks BY <2>2, <3>2 DEF Asking, Left
    <3>4. Tail(q) \in Seq(Questions) /\ Len(q) \in Nat \ {0} /\ Len(Tail(q)) = Len(q) - 1
          /\ (Len(q) > 1 => Tail(q) # <<>>)
      BY <3>1, TailKinds
    <3>5. R \in Int /\ used[d] \in Nat /\ RingBlocks \in Nat
      <4>1. CASE Sets(d)
        <5>1. 2 + 3 * Len(DriverSteps(d)) \in Int BY <4>1, <1>4
        <5> QED BY <4>1, <5>1, <1>4, DescriptorsAssumption
      <4>2. CASE ~Sets(d) BY <4>2, <1>4, DescriptorsAssumption
      <4> QED BY <4>1, <4>2
    <3>6. CASE Len(q) > 1 /\ Proceed(t)
      <4>1. todo' = [todo EXCEPT ![t] = Tail(q)] /\ run' = <<t>> BY <3>6 DEF Proceed
      <4> HIDE DEF q, R
      <4> QED BY <3>3, <3>4, <3>6, <4>1
    <3>7. CASE Len(q) > 2 /\ todo' = [todo EXCEPT ![t] = Tail(Tail(@))] /\ run' = <<t>>
      <4>1. todo' = [todo EXCEPT ![t] = Tail(Tail(q))] BY <3>7
      <4> HIDE DEF q, R
      <4>2. Len(Tail(q)) > 1 /\ Tail(q) # <<>> BY <3>4, <3>7
      <4>3. Tail(Tail(q)) \in Seq(Questions) /\ Len(Tail(Tail(q))) = Len(q) - 2 /\ Tail(Tail(q)) # <<>>
        <5>1. Tail(Tail(q)) \in Seq(Questions) /\ Len(Tail(Tail(q))) = Len(Tail(q)) - 1
              /\ (Len(Tail(q)) > 1 => Tail(Tail(q)) # <<>>)
          BY <3>4, <4>2, TailKinds, Zenon
        <5> QED BY <3>4, <4>2, <5>1
      <4>4. used[d] + 3 * Len(Tail(Tail(q))) + R <= RingBlocks BY <3>3, <3>4, <3>5, <4>3, SMTT(30)
      <4> QED BY <4>1, <4>3, <4>4, <3>7
    <3> QED BY <3>6, <3>7 DEF GoOn
  <2> QED BY <1>3, <2>1, <2>2
<1> HIDE DEF R
<1>6. UNCHANGED <<state, slot, table, used, flags, commands, ring, halted, buffer, enabled,
                  endpoints, given>>
  BY DEF GoOn, device, controller
<1>7. x \in Seq(Steps) /\ "starting" \in Stages \ {"unborn"} BY <1>5, QuestionsSteps DEF Stages
<1>8. state' = [state EXCEPT ![d] = "starting"] BY <1>2, <1>4, <1>6 DEF UsbInv, Types
<1>9. /\ todo' \in [Tasks -> Seq(Steps)] /\ todo'[t] = x
      /\ todo'[<<d, 1>>] = todo[<<d, 1>>] /\ todo'[<<d, 2>>] = todo[<<d, 2>>]
      /\ \A e \in Devices, m \in 0 .. 2 : e # d => todo'[<<e, m>>] = todo[<<e, m>>]
  BY <1>4, <1>5, <1>7, StartSet, Zenon
<1>10. Stage(d)'
  <2>1. todo'[<<d, 1>>] = <<>> /\ todo'[<<d, 2>>] = <<>> BY <1>2, <1>9
  <2>2. RunOf(d)' BY <1>5 DEF RunOf
  <2>3. Asking(d)'
    <3>1. slot[d] \in Slots BY <1>3 DEF Addressing, Asking
    <3>2. Left(d, <<d, Start>>)' = Len(x)
      <4>1. Len(x) \in Nat BY <1>5, LenProperties
      <4> QED BY <4>1, <2>2, <1>9 DEF Left
    <3> QED BY <3>1, <3>2, <1>5, <1>6, <1>9 DEF Asking, R
  <2>4. used'[d] <= RingBlocks BY <1>6 DEF UsbInv, Stage
  <2> QED BY <1>2, <1>6, <2>1, <2>3, <2>4 DEF Stage
<1>11. Busy(d)' /\ Active(d)' = t BY <1>2, <1>6 DEF Busy, Active
<1>12. DriversServed' BY <1>6, DriversKept DEF UsbInv
<1>13. given' \in [Tasks -> SUBSET Ends] BY <1>6 DEF UsbInv, Types
<1>14. Event.what[1] # "enable" BY <1>1 DEF Done
<1> QED BY <1>1, <1>5, <1>6, <1>7, <1>8, <1>9, <1>10, <1>11, <1>12, <1>13, <1>14, Continues

LEMMA RegisterKeeps ==
  ASSUME UsbInv, NEW d \in Devices, Register(d)
  PROVE  UsbInv'
<1> DEFINE t == <<d, Start>>
<1>1. /\ Start \in 0 .. 2 /\ Resumes(t) /\ Event.what[1] # "set configuration"
      /\ Len(todo[t]) = 1 \/ Len(todo[t]) = 2
      /\ Event.ok \/ Event.what[1] \in {"string", "string length"}
  <2>1. Start \in 0 .. 2 BY DEF Start
  <2> QED BY <2>1 DEF Register, Done
<1>2. /\ state[d] = "starting" /\ Busy(d) /\ Active(d) = t /\ run = <<>>
      /\ todo[t] # <<>> /\ todo[<<d, 1>>] = <<>> /\ todo[<<d, 2>>] = <<>>
      /\ Enabling(d) \/ Addressing(d) \/ Asking(d) \/ Setting(d)
      /\ Event.what = Next1(d).what
  BY <1>1, Starting
<1>3. Asking(d)
  <2>1. ~Enabling(d) /\ ~Addressing(d)
    <3>1. /\ Len(Tail(Script(d))) > 2 /\ Len(Script(d)) \in Nat /\ Len(Script(d)) > 2
      <4>1. PICK rest \in Seq(Questions) : /\ rest # <<>> /\ Len(rest) = Len(Script(d)) - 2
                                           /\ Len(Tail(Script(d))) > 2 /\ Len(Script(d)) \in Nat
        BY ScriptTyped
      <4>2. Len(rest) \in Nat \ {0} BY <4>1, TailKinds
      <4> QED BY <4>1, <4>2
    <3>2. Enabling(d) => todo[t] = Script(d) BY DEF Enabling
    <3>3. Addressing(d) => todo[t] = Tail(Script(d)) BY DEF Addressing
    <3>4. Len(todo[t]) = 1 \/ Len(todo[t]) = 2 BY <1>1
    <3>5. ~(1 > 2) /\ ~(2 > 2) OBVIOUS
    <3> QED BY <3>1, <3>2, <3>3, <3>4, <3>5
  <2>2. ~Setting(d) BY <1>1, <1>2, StageKinds
  <2> QED BY <1>2, <2>1, <2>2
<1>4. Types /\ Event.what[1] # "enable" BY <1>2, <1>3, StageKinds DEF UsbInv, Kept
<1>5. UNCHANGED <<slot, table, used, flags, commands, ring, halted, buffer, enabled, endpoints, given>>
  BY DEF Register, controller
<1>6. PICK owned \in BOOLEAN :
        /\ state' = [state EXCEPT ![d] = IF ~owned /\ Sets(d) THEN "starting"
                                         ELSE IF owned THEN "owned" ELSE "given up"]
        /\ IF ~owned /\ Sets(d)
             THEN /\ todo' = [todo EXCEPT ![t] = << Request(<<"set configuration">>) >>]
                  /\ run' = <<t>>
             ELSE todo' = [todo EXCEPT ![t] = <<>>] /\ UNCHANGED run
  BY DEF Register, Chooses
<1> DEFINE x == IF ~owned /\ Sets(d) THEN <<Set>> ELSE <<>>
           st == IF ~owned /\ Sets(d) THEN "starting" ELSE IF owned THEN "owned" ELSE "given up"
<1>7. todo' = [todo EXCEPT ![t] = x] /\ x \in Seq(Steps)
  <2>1. Set \in Steps BY DEF Steps
  <2>2. <<Set>> \in Seq(Steps) /\ <<>> \in Seq(Steps) BY <2>1, SingleTyped, EmptySeq
  <2> QED BY <1>6, <2>2 DEF Set
<1>8. state' = [state EXCEPT ![d] = st] /\ st \in Stages \ {"unborn", "deleted", "used"}
  BY <1>6 DEF Stages
<1>9. state'[d] = st /\ \A e \in Devices : e # d => state'[e] = state[e] BY <1>4, <1>8 DEF Types
<1> HIDE DEF x
<1>10. /\ todo' \in [Tasks -> Seq(Steps)] /\ todo'[t] = x
       /\ todo'[<<d, 1>>] = todo[<<d, 1>>] /\ todo'[<<d, 2>>] = todo[<<d, 2>>]
       /\ \A e \in Devices, m \in 0 .. 2 : e # d => todo'[<<e, m>>] = todo[<<e, m>>]
  BY <1>4, <1>7, StartSet, Zenon
<1>11. Stage(d)'
  <2>1. todo'[<<d, 1>>] = <<>> /\ todo'[<<d, 2>>] = <<>> BY <1>2, <1>10
  <2>2. used'[d] <= RingBlocks BY <1>5 DEF UsbInv, Stage
  <2>3. slot'[d] \in Slots BY <1>3, <1>5 DEF Asking
  <2>4. CASE ~owned /\ Sets(d)
    <3>1. x = <<Set>> /\ st = "starting" /\ run' = <<t>> BY <2>4, <1>6 DEF x
    <3>2. RunOf(d)' BY <3>1 DEF RunOf
    <3>3. ~RunOf(d) BY <1>2 DEF RunOf
    <3>4. Setting(d)'
      <4> DEFINE l == Len(todo[t])
                 n == Len(DriverSteps(d))
      <4>1. used[d] + 3 * (l - 1) + (2 + 3 * n) <= RingBlocks
        BY <1>3, <2>4, <3>3 DEF Asking, Left
      <4>2. used[d] + 2 + 3 * n <= RingBlocks
        <5>1. used[d] \in Nat /\ n \in Nat /\ RingBlocks \in Nat
          BY <2>4, <1>4, DriverTyped, LenProperties, DescriptorsAssumption DEF Types
        <5>2. l = 1 \/ l = 2 BY <1>1
        <5> HIDE DEF l, n
        <5> QED BY <4>1, <5>1, <5>2
      <4> QED BY <2>3, <2>4, <3>1, <3>2, <4>2, <1>5, <1>10 DEF Setting
    <3> QED BY <2>1, <2>2, <3>1, <3>4, <1>9 DEF Stage
  <2>5. CASE owned \/ ~Sets(d)
    <3>1. x = <<>> /\ st \in {"owned", "given up"} BY <2>5 DEF x
    <3> QED BY <2>1, <2>2, <2>3, <3>1, <1>9, <1>10 DEF Stage
  <2> QED BY <2>4, <2>5
<1>12. run' = <<>> \/ (run' = <<Active(d)'>> /\ Busy(d)')
  <2>1. CASE ~owned /\ Sets(d) BY <2>1, <1>6, <1>9 DEF Active, Busy
  <2>2. CASE owned \/ ~Sets(d) BY <2>2, <1>2, <1>6
  <2> QED BY <2>1, <2>2
<1>13. DriversServed'
  <2>1. \A e \in Devices : state[e] = "used" => state'[e] = "used" BY <1>2, <1>9
  <2> QED BY <1>5, <2>1, DriversKept DEF UsbInv
<1>14. given' \in [Tasks -> SUBSET Ends] BY <1>4, <1>5 DEF Types
<1> HIDE DEF st
<1> QED BY <1>1, <1>4, <1>5, <1>8, <1>10, <1>11, <1>12, <1>13, <1>14, Continues

LEMMA ConfiguredKeeps ==
  ASSUME UsbInv, NEW d \in Devices, Configured(d)
  PROVE  UsbInv'
<1> DEFINE i == Taken(d)
<1>1. /\ Start \in 0 .. 2 /\ Resumes(<<d, Start>>) /\ Event.what[1] = "set configuration"
  <2>1. Start \in 0 .. 2 BY DEF Start
  <2> QED BY <2>1 DEF Configured, Done
<1>2. /\ state[d] = "starting" /\ Busy(d) /\ Active(d) = <<d, Start>> /\ run = <<>>
      /\ todo[<<d, Start>>] # <<>> /\ todo[<<d, 1>>] = <<>> /\ todo[<<d, 2>>] = <<>>
      /\ Enabling(d) \/ Addressing(d) \/ Asking(d) \/ Setting(d)
      /\ Event.what = Next1(d).what
  BY <1>1, Starting
<1>3. Setting(d) BY <1>1, <1>2, StageKinds DEF Kept
<1>4. Types /\ Sets(d) /\ Event.what[1] # "enable" BY <1>1, <1>3 DEF UsbInv, Setting
<1>5. DOMAIN i = 1 .. Len(i) /\ Len(i) \in {0, 1} BY <1>4, DescriptorsAssumption
<1>6. /\ state' = [state EXCEPT ![d] = "used"]
      /\ todo' = [t \in Tasks |-> IF t[1] # d THEN todo[t]
                                  ELSE IF t[2] \in DOMAIN i THEN DriverScript(i[t[2]], t[2] - 1) ELSE <<>>]
      /\ run' = [n \in DOMAIN i |-> <<d, n>>]
      /\ UNCHANGED <<slot, table, used, flags, commands, ring, halted, buffer, enabled,
                     endpoints, given>>
  BY DEF Configured, controller, Taken, Opening
<1>7. /\ todo'[<<d, Start>>] = <<>> /\ todo'[<<d, 1>>] = DriverSteps(d) /\ todo'[<<d, 2>>] = <<>>
      /\ run' = IF i = <<>> THEN <<>> ELSE << <<d, 1>> >>
  <2>1. CASE Len(i) = 0
    <3>1. DOMAIN i = {} BY <2>1, <1>5
    <3>2. i = <<>> BY <3>1
    <3>3. DriverSteps(d) = <<>> BY <3>2 DEF DriverSteps
    <3>4. run' = <<>> BY <3>1, <1>6
    <3> QED BY <3>1, <3>2, <3>3, <3>4, <1>6, TaskParts
  <2>2. CASE Len(i) = 1
    <3>1. DOMAIN i = 1 .. 1 /\ Start \notin 1 .. 1 /\ 1 \in 1 .. 1 /\ 2 \notin 1 .. 1 BY <2>2, <1>5 DEF Start
    <3>2. i # <<>> BY <3>1
    <3>3. DriverSteps(d) = DriverScript(i[1], 0) BY <3>2 DEF DriverSteps
    <3>4. run' = << <<d, 1>> >> BY <3>1, <1>6
    <3>5. \A n \in 0 .. 2 : /\ <<d, n>> \in Tasks /\ <<d, n>>[1] = d /\ <<d, n>>[2] = n BY DEF Tasks
    <3>6. \A n \in 0 .. 2 : todo'[<<d, n>>] = IF n \in 1 .. 1 THEN DriverScript(i[n], n - 1) ELSE <<>>
      BY <3>1, <3>5, <1>6
    <3>7. Start \in 0 .. 2 /\ 1 \in 0 .. 2 /\ 2 \in 0 .. 2 /\ 1 - 1 = 0 BY DEF Start
    <3> QED BY <3>1, <3>2, <3>3, <3>4, <3>6, <3>7
  <2> QED BY <1>5, <2>1, <2>2
<1>8. \A e \in Devices, m \in 0 .. 2 : e # d => todo'[<<e, m>>] = todo[<<e, m>>]
  <2>1. \A e \in Devices, m \in 0 .. 2 : <<e, m>> \in Tasks /\ <<e, m>>[1] = e BY DEF Tasks
  <2> QED BY <2>1, <1>6
<1>9. todo' \in [Tasks -> Seq(Steps)]
  <2>1. DriverSteps(d) \in Seq(Steps) /\ <<>> \in Seq(Steps)
    BY <1>4, DriverTyped, QuestionsSteps, EmptySeq
  <2>2. ASSUME NEW t \in Tasks PROVE todo'[t] \in Seq(Steps)
    <3>1. t[1] \in Devices /\ t[2] \in 0 .. 2 /\ t = <<t[1], t[2]>> BY DEF Tasks
    <3>2. CASE t[1] = d
      <4>1. t = <<d, Start>> \/ t = <<d, 1>> \/ t = <<d, 2>> BY <3>1, <3>2 DEF Start
      <4> QED BY <4>1, <1>7, <2>1
    <3>3. CASE t[1] # d
      <4>1. todo'[t] = todo[t] BY <3>3, <1>6
      <4> QED BY <4>1, <1>4 DEF Types
    <3> QED BY <3>2, <3>3
  <2>3. todo' = [t \in Tasks |-> todo'[t]] BY <1>6
  <2> QED BY <2>2, <2>3
<1>10. state'[d] = "used" /\ \A e \in Devices : e # d => state'[e] = state[e] BY <1>4, <1>6 DEF Types
<1>11. Stage(d)'
  <2>1. used'[d] <= RingBlocks BY <1>6 DEF UsbInv, Stage
  <2>2. slot'[d] \in Slots BY <1>3, <1>6 DEF Setting
  <2>3. DriverSteps(d) \in Seq(Reports \cup Configures) /\ Len(DriverSteps(d)) \in Nat
    BY <1>4, DriverTyped, LenProperties
  <2>4. used[d] + 3 * Len(DriverSteps(d)) <= RingBlocks
    <3>1. ~RunOf(d) BY <1>2 DEF RunOf
    <3>2. used[d] + 0 + 3 * Len(DriverSteps(d)) <= RingBlocks BY <1>3, <3>1 DEF Setting
    <3>3. used[d] \in Nat BY <1>4 DEF Types
    <3> QED BY <3>2, <3>3, <2>3
  <2>5. used'[d] + 3 * Left(d, <<d, 1>>)' <= RingBlocks
    <3> DEFINE n == Len(DriverSteps(d))
               l == Left(d, <<d, 1>>)'
    <3>1. l = n \/ l = n - 1 BY <1>7, <2>3 DEF Left
    <3>2. n \in Nat /\ used[d] \in Nat /\ RingBlocks \in Nat /\ used'[d] = used[d]
      BY <1>4, <1>6, <2>3, DescriptorsAssumption DEF Types
    <3>3. used[d] + 3 * n <= RingBlocks BY <2>4
    <3> HIDE DEF n, l
    <3>4. used'[d] + 3 * l <= RingBlocks BY <3>1, <3>2, <3>3
    <3> QED BY <3>4 DEF l
  <2> QED BY <2>1, <2>2, <2>3, <2>5, <1>7, <1>10 DEF Stage
<1>12. run' = <<>> \/ (run' = <<Active(d)'>> /\ Busy(d)')
  <2>1. Active(d)' = <<d, 1>> /\ Busy(d)' BY <1>10 DEF Active, Busy
  <2> QED BY <1>7, <2>1
<1>13. DriversServed'
  <2>1. \A e \in Devices : state[e] = "used" => state'[e] = "used" BY <1>10
  <2> QED BY <1>6, <2>1, DriversKept DEF UsbInv
<1>14. given' \in [Tasks -> SUBSET Ends] BY <1>4, <1>6 DEF Types
<1>15. "used" \in Stages \ {"unborn"} BY DEF Stages
<1> QED BY <1>1, <1>4, <1>6, <1>8, <1>9, <1>11, <1>12, <1>13, <1>14, <1>15, Continues

LEMMA DriverGoesOnKeeps ==
  ASSUME UsbInv, NEW d \in Devices, NEW n \in 0 .. 2, DriverGoesOn(d, n)
  PROVE  UsbInv'
<1> DEFINE x == Tail(todo[<<d, 1>>])
<1>1. Resumes(<<d, n>>) /\ n # Start BY DEF DriverGoesOn
<1>2. /\ <<d, n>> = Active(d) /\ Sends(d) /\ run = <<>> /\ Event.what = Next1(d).what
      /\ Event.what[1] = "configure" => Event.ok /\ slot[d] \in Slots
                                        /\ Event.what[2] \in endpoints[slot[d]]
  BY <1>1, Resumed
<1>3. n = 1 /\ Active(d) = <<d, 1>> /\ state[d] = "used"
  BY <1>1, <1>2 DEF Active, Sends, Busy
<1>4. Types /\ Stage(d) BY DEF UsbInv
<1>5. todo[<<d, 1>>] \in Seq(Reports \cup Configures) /\ todo[<<d, 1>>] # <<>>
  BY <1>2, <1>3, <1>4 DEF Stage, Sends
<1>6. x \in Seq(Reports \cup Configures) /\ Len(todo[<<d, 1>>]) \in Nat
      /\ Len(x) = Len(todo[<<d, 1>>]) - 1
  BY <1>5, TailKinds
<1>7. /\ given' = IF Event.what[1] = "configure" THEN [given EXCEPT ![<<d, 1>>] = @ \cup {Event.what[2]}]
                                                ELSE given
      /\ todo' = [todo EXCEPT ![<<d, 1>>] = x] /\ run' = << <<d, 1>> >>
      /\ UNCHANGED <<state, slot, table, used, flags, commands, ring, halted, buffer, enabled, endpoints>>
  BY <1>3 DEF DriverGoesOn, Proceed, device, controller, Done
<1>8. x \in Seq(Steps) BY <1>6, QuestionsSteps
<1> HIDE DEF x
<1>9. /\ todo' \in [Tasks -> Seq(Steps)] /\ todo'[<<d, 1>>] = x
      /\ \A e \in Devices, m \in 0 .. 2 : e # d \/ m # 1 => todo'[<<e, m>>] = todo[<<e, m>>]
  <2>1. 1 \in 0 .. 2 /\ todo' = [todo EXCEPT ![<<d, 1>>] = x] BY <1>7
  <2> QED BY <1>4, <1>8, <2>1, TodoSet
<1>10. todo'[<<d, Start>>] = todo[<<d, Start>>] /\ todo'[<<d, 2>>] = todo[<<d, 2>>]
  <2>1. Start \in 0 .. 2 /\ 2 \in 0 .. 2 /\ Start # 1 /\ 2 # 1 BY DEF Start
  <2> QED BY <1>9, <2>1
<1>11. Stage(d)'
  <2>1. RunOf(d)' /\ ~RunOf(d) BY <1>2, <1>7 DEF RunOf
  <2>2. Left(d, <<d, 1>>)' = Left(d, <<d, 1>>)
    BY <2>1, <1>6, <1>9 DEF Left
  <2> QED BY <2>2, <1>3, <1>4, <1>6, <1>7, <1>9, <1>10 DEF Stage
<1>12. run' = <<Active(d)'>> /\ Busy(d)' BY <1>3, <1>7 DEF Active, Busy
<1>13. Event.what[1] = "configure" => Event.what[2] \in Ends
  <2>1. Next1(d) \in Steps BY <1>4, <1>2, NextTyped DEF Sends
  <2> QED BY <2>1, <1>2, StepKinds
<1>14. given' \in [Tasks -> SUBSET Ends] BY <1>4, <1>7, <1>13 DEF Types
<1>15. DriversServed'
  <2> SUFFICES ASSUME NEW t \in Tasks, given'[t] # {}
               PROVE  state'[t[1]] = "used" /\ given'[t] \subseteq endpoints'[slot'[t[1]]]
    BY Zenon DEF DriversServed
  <2>1. given[t] # {} => state[t[1]] = "used" /\ given[t] \subseteq endpoints[slot[t[1]]]
    BY DEF UsbInv, DriversServed
  <2>2. CASE given'[t] = given[t] BY <2>1, <2>2, <1>7
  <2>3. CASE given'[t] # given[t]
    <3>1. t = <<d, 1>> /\ Event.what[1] = "configure" BY <2>3, <1>4, <1>7 DEF Types
    <3>2. given'[t] = given[t] \cup {Event.what[2]} /\ t[1] = d BY <3>1, <1>4, <1>7 DEF Types
    <3>3. state[d] = "used" /\ Event.what[2] \in endpoints[slot[d]] BY <3>1, <1>2, <1>3
    <3> QED BY <3>2, <3>3, <2>1, <1>7
  <2> QED BY <2>2, <2>3
<1>16. state' = [state EXCEPT ![d] = "used"] BY <1>3, <1>4, <1>7 DEF Types
<1>17. "used" \in Stages \ {"unborn"} BY DEF Stages
<1>18. Event.what[1] # "enable"
  <2>1. Event.what[1] = "configure" \/ Event.what[1] \notin Kept BY <1>2, <1>3, StageKinds DEF Sends
  <2> QED BY <2>1 DEF Kept
<1> QED BY <1>1, <1>7, <1>9, <1>11, <1>12, <1>14, <1>15, <1>16, <1>17, <1>18, Continues, ZenonT(60)

LEMMA GiveUpKeeps ==
  ASSUME UsbInv, NEW d \in Devices, GiveUp(d)
  PROVE  UsbInv'
<1> DEFINE s == slot[d]
           c == [task |-> Null, what |-> <<"disable">>, slot |-> slot[d]]
<1>1. /\ Start \in 0 .. 2 /\ Resumes(<<d, Start>>) /\ ~Event.ok
      /\ Event.what[1] \notin {"enable", "string", "string length", "set configuration"}
  <2>1. Start \in 0 .. 2 BY DEF Start
  <2> QED BY <2>1 DEF GiveUp
<1>2. /\ state[d] = "starting" /\ Busy(d) /\ Alive(d) /\ Active(d) = <<d, Start>> /\ run = <<>>
      /\ todo[<<d, Start>>] # <<>> /\ todo[<<d, 1>>] = <<>> /\ todo[<<d, 2>>] = <<>>
      /\ Enabling(d) \/ Addressing(d) \/ Asking(d) \/ Setting(d)
      /\ Event.what = Next1(d).what
  BY <1>1, Starting
<1>3. s \in Slots
  <2>1. Addressing(d) \/ Asking(d) BY <1>1, <1>2, StageKinds
  <2> QED BY <2>1 DEF Addressing, Asking
<1>4. /\ Commanded(d) = {} /\ ring[d] = <<>> /\ Completed(d) = {Event} /\ Completed(d)' = {}
      /\ \A e \in Devices : e # d => Completed(e)' = Completed(e)
      /\ Unique(events)' /\ events' \in Seq(EventRecords)
  BY <1>1, Resumed
<1>5. /\ table' = [table EXCEPT ![s] = Null] /\ commands' = Append(commands, c)
      /\ state' = [state EXCEPT ![d] = "deleted"]
      /\ todo' = [todo EXCEPT ![<<d, Start>>] = <<>>]
      /\ UNCHANGED <<slot, used, flags, run, ring, halted, buffer, enabled, endpoints, given>>
  BY DEF GiveUp, Forgotten, Deleted, controller
<1>6. Types /\ SlotsShared /\ <<>> \in Seq(Steps) BY EmptySeq DEF UsbInv
<1>7. /\ todo' \in [Tasks -> Seq(Steps)] /\ todo'[<<d, Start>>] = <<>>
      /\ todo'[<<d, 1>>] = todo[<<d, 1>>] /\ todo'[<<d, 2>>] = todo[<<d, 2>>]
      /\ \A e \in Devices, m \in 0 .. 2 : e # d => todo'[<<e, m>>] = todo[<<e, m>>]
  BY <1>5, <1>6, StartSet, Zenon
<1>8. /\ state'[d] = "deleted" /\ state' \in [Devices -> Stages]
      /\ \A e \in Devices : e # d => state'[e] = state[e]
  BY <1>5, <1>6 DEF Types, Stages
<1>9. \A r \in Slots : table'[r] = IF r = s THEN Null ELSE table[r] BY <1>5, <1>6 DEF Types
<1>10. table[s] = d /\ ~Returns(s)
  <2>1. s # Null /\ d # Null BY <1>3, DevicesAssumption
  <2>2. table[s] = d BY <2>1, <1>2, <1>6 DEF SlotsShared
  <2> QED BY <2>1, <2>2, <1>3, <1>6 DEF SlotsShared
<1>11. c \in CommandRecords /\ Owner(c) = OfSlot(s) /\ Proper(c)
  <2>1. c.task = Null /\ c.slot = s /\ c.what = <<"disable">> OBVIOUS
  <2>2. c \in CommandRecords BY <1>3 DEF CommandRecords
  <2> QED BY <2>1, <2>2, <1>3 DEF Owner, Proper
<1> HIDE DEF c
<1>12. commands \in Seq(CommandRecords) /\ Unique(commands) BY DEF UsbInv, Types, Once
<1>13. /\ Append(commands, c) \in Seq(CommandRecords)
       /\ \A k : Of(Append(commands, c), k) = Of(commands, k) \cup (IF Owner(c) = k THEN {c} ELSE {})
       /\ Unique(commands) /\ Of(commands, Owner(c)) = {} => Unique(Append(commands, c))
  BY <1>11, <1>12, Appended, Zenon
<1>14. Unique(commands') /\ commands' \in Seq(CommandRecords)
  BY <1>5, <1>10, <1>11, <1>12, <1>13 DEF Returns
<1>15. \A e \in Devices : Commanded(e)' = Commanded(e)
  <2>1. \A e : Of(commands', OfDevice(e)) = Of(commands, OfDevice(e)) BY <1>5, <1>11, <1>13, Owners
  <2> QED BY <2>1 DEF Commanded
<1>16. \A r \in Slots : Returns(r)' <=> Returns(r) \/ r = s
  <2>1. \A r : OfSlot(s) = OfSlot(r) <=> r = s BY Owners
  <2>2. \A r : Of(commands', OfSlot(r)) = Of(commands, OfSlot(r)) \cup (IF r = s THEN {c} ELSE {})
    BY <2>1, <1>5, <1>11, <1>13
  <2> QED BY <2>2 DEF Returns
<1>17. Types' BY <1>3, <1>4, <1>5, <1>6, <1>7, <1>8, <1>14 DEF Types, Stages
<1>18. Once'
  <2>1. \A i \in DOMAIN commands' : Proper(commands'[i])
    <3>1. DOMAIN commands' = 1 .. Len(commands) + 1 /\ Len(commands) \in Nat
          /\ DOMAIN commands = 1 .. Len(commands) /\ commands'[Len(commands) + 1] = c
          /\ \A i \in 1 .. Len(commands) : commands'[i] = commands[i]
      BY <1>5, <1>11, <1>12, AppendProperties, LenProperties
    <3>2. \A i \in 1 .. Len(commands) : Proper(commands[i]) BY <3>1 DEF UsbInv, Once
    <3> QED BY <3>1, <3>2, <1>11
  <2>2. Unique(commands)' BY <1>14 DEF Unique
  <2>3. (run = <<>>)' BY <1>2, <1>5
  <2>4. \A i \in DOMAIN commands' : Proper(commands[i])' BY <2>1 DEF Proper
  <2> QED BY <2>2, <2>3, <2>4, <1>4 DEF Once
<1>19. \A e \in Devices : e # d => Same(e)
  <2>1. run' \in {<<>>, << <<d, 0>> >>, << <<d, 1>> >>} BY <1>2, <1>5
  <2>2. \A e \in Devices, m \in 0 .. 2 : e # d => todo'[<<e, m>>] = todo[<<e, m>>] BY <1>7
  <2>3. \A e \in Devices : e # d => state'[e] = state[e] /\ slot'[e] = slot[e] BY <1>5, <1>8
  <2>4. used' = used /\ flags' = flags /\ ring' = ring /\ buffer' = buffer /\ endpoints' = endpoints
    BY <1>5
  <2> QED BY <2>1, <2>2, <2>3, <2>4, <1>1, <1>15, OthersSame
<1>20. OnePlace(d)'
  <2>1. ~RunOf(d)' BY <1>2, <1>5 DEF RunOf
  <2>2. Commanded(d)' = {} /\ ring'[d] = <<>> /\ Completed(d)' = {} BY <1>4, <1>5, <1>15
  <2> QED BY <2>1, <2>2, Zenon DEF OnePlace, Nothing
<1>21. Stage(d)'
  <2>1. used'[d] <= RingBlocks BY <1>5 DEF UsbInv, Stage
  <2> QED BY <2>1, <1>2, <1>7, <1>8 DEF Stage
<1>22. \A e \in Devices : OnePlace(e)' /\ Stage(e)' BY <1>19, <1>20, <1>21, OthersKept
<1>23. SlotsShared'
  <2>1. \A e \in Devices, r \in Slots : Announces(e, r)' <=> Announces(e, r)
    <3>1. \A r \in Slots : ~Announces(d, r)' /\ ~Announces(d, r) BY <1>1, <1>4 DEF Announces
    <3>2. \A e \in Devices, r \in Slots : e # d => (Announces(e, r)' <=> Announces(e, r))
      BY <1>4 DEF Announces
    <3> QED BY <3>1, <3>2
  <2>2. \A e \in Devices : Alive(e)' <=> Alive(e) /\ e # d BY <1>8 DEF Alive
  <2>3. s # Null /\ d # Null BY <1>3, DevicesAssumption
  <2>4. ASSUME NEW e \in Devices, Alive(e)', slot'[e] # Null PROVE table'[slot'[e]] = e
    <3>1. Alive(e) /\ e # d BY <2>2, <2>4
    <3>2. slot'[e] = slot[e] /\ table[slot[e]] = e /\ slot[e] \in Slots
      <4>1. slot'[e] = slot[e] /\ slot[e] # Null BY <2>4, <1>5
      <4>2. slot[e] \in Slots BY <4>1, <1>6 DEF Types
      <4> QED BY <3>1, <4>1, <4>2, <1>6 DEF SlotsShared
    <3>3. slot[e] # s BY <3>1, <3>2, <1>10
    <3> QED BY <3>2, <3>3, <1>9
  <2>5. ASSUME NEW r \in Slots, table'[r] # Null PROVE Alive(table[r])' /\ slot'[table'[r]] = r
    <3>1. r # s /\ table'[r] = table[r] /\ table[r] \in Devices BY <2>5, <1>6, <1>9 DEF Types
    <3>2. Alive(table[r]) /\ slot[table[r]] = r BY <3>1, <2>5, <1>6 DEF SlotsShared
    <3>3. table[r] # d BY <3>1, <3>2
    <3> QED BY <3>1, <3>2, <3>3, <1>5, <1>8 DEF Alive
  <2>6. ASSUME NEW r \in Slots
        PROVE  r \in enabled' <=> \/ table'[r] # Null \/ Returns(r)'
                                  \/ \E e \in Devices : Announces(e, r)'
    <3>1. r \in enabled <=> \/ table[r] # Null \/ Returns(r)
                             \/ \E e \in Devices : Announces(e, r)
      BY <1>6 DEF SlotsShared
    <3>2. CASE r = s BY <3>1, <3>2, <2>3, <1>5, <1>10, <1>16
    <3>3. CASE r # s BY <3>1, <3>3, <2>1, <1>5, <1>9, <1>16
    <3> QED BY <3>2, <3>3
  <2>7. ASSUME NEW r \in Slots, table'[r] # Null PROVE ~Returns(r)'
    BY <2>7, <1>6, <1>9, <1>16 DEF SlotsShared
  <2>8. ASSUME NEW e \in Devices, NEW r \in Slots, Announces(e, r)'
        PROVE  /\ table'[r] = Null /\ ~Returns(r)'
               /\ \A f \in Devices : Announces(f, r)' => f = e
    <3>1. Announces(e, r) BY <2>1, <2>8
    <3>2. table[r] = Null /\ ~Returns(r) /\ \A f \in Devices : Announces(f, r) => f = e
      BY <3>1, <1>6 DEF SlotsShared
    <3>3. r # s BY <3>2, <1>10, <2>3
    <3> QED BY <3>2, <3>3, <2>1, <1>9, <1>16
  <2> QED BY <2>4, <2>5, <2>6, <2>7, <2>8, Zenon DEF SlotsShared
<1>24. DriversServed'
  <2>1. \A e \in Devices : state[e] = "used" => state'[e] = "used" BY <1>2, <1>8
  <2> QED BY <1>5, <2>1, DriversKept DEF UsbInv
<1> QED BY <1>17, <1>18, <1>22, <1>23, <1>24 DEF UsbInv

LEMMA PortChangeKeeps ==
  ASSUME UsbInv, NEW d \in Devices, PortChange(d)
  PROVE  UsbInv'
<1> DEFINE x == Script(d)
<1>1. /\ run = <<>> /\ state[d] = "unborn" /\ state' = [state EXCEPT ![d] = "starting"]
      /\ todo' = [todo EXCEPT ![<<d, Start>>] = x] /\ run' = << <<d, Start>> >>
      /\ UNCHANGED <<slot, table, used, flags, commands, ring, halted, buffer, enabled,
                     endpoints, events, given>>
  BY DEF PortChange, controller
<1>2. Types /\ SlotsShared /\ x \in Seq(Steps) /\ OnePlace(d) /\ Stage(d)
  BY ScriptTyped DEF UsbInv
<1> HIDE DEF x
<1>3. /\ todo' \in [Tasks -> Seq(Steps)] /\ todo'[<<d, Start>>] = x
      /\ todo'[<<d, 1>>] = todo[<<d, 1>>] /\ todo'[<<d, 2>>] = todo[<<d, 2>>]
      /\ \A e \in Devices, m \in 0 .. 2 : e # d => todo'[<<e, m>>] = todo[<<e, m>>]
  BY <1>1, <1>2, StartSet, Zenon
<1>4. /\ state'[d] = "starting" /\ state' \in [Devices -> Stages]
      /\ \A e \in Devices : e # d => state'[e] = state[e]
  BY <1>1, <1>2 DEF Types, Stages
<1>5. Nothing(d)
  <2>1. ~Busy(d) BY <1>1 DEF Busy
  <2> QED BY <2>1, <1>2 DEF OnePlace, Runs, HasSent, HasAsked, HasAnswer, Sends
<1>6. Types' BY <1>1, <1>2, <1>3, <1>4 DEF Types, Stages
<1>7. Once' BY <1>1, TaskParts DEF UsbInv, Once, Unique, Proper
<1>8. \A e : Commanded(e)' = Commanded(e) /\ Completed(e)' = Completed(e)
  BY <1>1 DEF Commanded, Completed, Of
<1>9. \A e \in Devices : e # d => Same(e)
  <2> SUFFICES ASSUME NEW e \in Devices, e # d PROVE Same(e) OBVIOUS
  <2>1. todo'[<<e, Start>>] = todo[<<e, Start>>] /\ todo'[<<e, 1>>] = todo[<<e, 1>>]
        /\ todo'[<<e, 2>>] = todo[<<e, 2>>]
    BY <1>3 DEF Start
  <2>2. ~RunOf(e) /\ ~RunOf(e)' BY <1>1 DEF RunOf
  <2> QED BY <2>1, <2>2, <1>1, <1>4, <1>8 DEF Same
<1>10. OnePlace(d)'
  <2>1. Active(d)' = <<d, Start>> /\ Busy(d)' BY <1>4 DEF Active, Busy
  <2>2. Runs(d)' BY <2>1, <1>1, <1>5, <1>8 DEF Runs, Nothing
  <2> QED BY <2>2, Zenon DEF OnePlace
<1>11. Stage(d)'
  <2>1. Enabling(d)' BY <1>1, <1>2, <1>3 DEF Stage, Enabling, x
  <2> QED BY <2>1, <1>1, <1>2, <1>3, <1>4 DEF Stage
<1>12. \A e \in Devices : OnePlace(e)' /\ Stage(e)' BY <1>9, <1>10, <1>11, OthersKept
<1>13. SlotsShared'
  <2>1. \A e \in Devices, r \in Slots : Announces(e, r)' <=> Announces(e, r) BY <1>8 DEF Announces
  <2>2. \A r \in Slots : Returns(r)' <=> Returns(r) BY <1>1 DEF Returns, Of
  <2>3. \A e \in Devices : Alive(e)' <=> Alive(e) \/ e = d BY <1>4 DEF Alive
  <2>4. slot[d] = Null BY <1>1, <1>2 DEF Stage
  <2>5. \A e \in Devices : Alive(e)' /\ slot'[e] # Null => table'[slot'[e]] = e
    BY <2>3, <2>4, <1>1, <1>2 DEF SlotsShared
  <2>6. ASSUME NEW r \in Slots, table'[r] # Null PROVE Alive(table[r])' /\ slot'[table'[r]] = r
    <3>1. table[r] \in Devices /\ Alive(table[r]) /\ slot[table[r]] = r
      <4>1. table[r] # Null BY <2>6, <1>1
      <4>2. table[r] \in Devices BY <4>1, <1>2 DEF Types
      <4> QED BY <4>1, <4>2, <1>2 DEF SlotsShared
    <3>2. table[r] # d BY <3>1, <1>1 DEF Alive
    <3> QED BY <3>1, <3>2, <1>1, <1>4 DEF Alive
  <2>7. \A s \in Slots : s \in enabled' <=> \/ table'[s] # Null \/ Returns(s)'
                                             \/ \E e \in Devices : Announces(e, s)'
    BY <2>1, <2>2, <1>1, <1>2 DEF SlotsShared
  <2>8. \A s \in Slots : table'[s] # Null => ~Returns(s)' BY <2>2, <1>1, <1>2 DEF SlotsShared
  <2>9. \A e \in Devices, s \in Slots : Announces(e, s)' =>
           /\ table'[s] = Null /\ ~Returns(s)'
           /\ \A f \in Devices : Announces(f, s)' => f = e
    BY <2>1, <2>2, <1>1, <1>2 DEF SlotsShared
  <2> QED BY <2>5, <2>6, <2>7, <2>8, <2>9, Zenon DEF SlotsShared
<1>14. DriversServed'
  <2>1. \A e \in Devices : state[e] = "used" => state'[e] = "used" BY <1>1, <1>4
  <2> QED BY <1>1, <2>1, DriversKept DEF UsbInv
<1> QED BY <1>6, <1>7, <1>12, <1>13, <1>14 DEF UsbInv

\* The coroutine that runs is the one of its device.
LEMMA RunningOne ==
  ASSUME UsbInv, NEW t \in Tasks, Running(t)
  PROVE  /\ t[1] \in Devices /\ run = <<t>> /\ t = Active(t[1]) /\ Busy(t[1]) /\ Runs(t[1])
         /\ RunOf(t[1]) /\ Tail(run) = <<>> /\ t # Null
         /\ Commanded(t[1]) = {} /\ ring[t[1]] = <<>> /\ Completed(t[1]) = {}
         /\ \A e \in Devices : e # t[1] => ~RunOf(e)
<1>1. t[1] \in Devices /\ t # Null BY DescriptorsAssumption DEF Tasks
<1>2. run = <<t>>
  <2>1. PICK u \in Tasks : run = <<u>> BY DEF UsbInv, Once, Running
  <2> QED BY <2>1 DEF Running
<1>3. RunOf(t[1]) BY <1>2 DEF RunOf
<1>4. Runs(t[1])
  <2>1. OnePlace(t[1]) BY <1>1 DEF UsbInv
  <2> QED BY <1>3, <2>1 DEF OnePlace, Nothing, HasSent, HasAsked, HasAnswer, Sends
<1>5. \A e \in Devices : e # t[1] => ~RunOf(e) BY <1>2 DEF RunOf
<1>6. t = Active(t[1]) BY <1>2, <1>4 DEF Runs
<1>7. Tail(run) = <<>> BY <1>2
<1> QED BY <1>1, <1>2, <1>3, <1>4, <1>5, <1>6, <1>7 DEF Runs

LEMMA RestKeeps ==
  ASSUME UsbInv, NEW t \in Tasks, Rest(t)
  PROVE  UsbInv'
<1> DEFINE d == t[1]
<1>1. Running(t) /\ todo[t] = <<>> /\ run' = Tail(run)
      /\ UNCHANGED <<state, slot, table, used, flags, todo, commands, ring, halted, buffer, enabled,
                     endpoints, events, given>>
  BY DEF Rest, device, controller
<1>2. /\ d \in Devices /\ run = <<t>> /\ t = Active(d) /\ Busy(d)
      /\ RunOf(d) /\ Tail(run) = <<>>
      /\ Commanded(d) = {} /\ ring[d] = <<>> /\ Completed(d) = {}
      /\ \A e \in Devices : e # d => ~RunOf(e)
  BY <1>1, RunningOne
<1>3. run' = <<>> BY <1>1, <1>2
<1>4. Types' BY <1>1 DEF UsbInv, Types
<1>5. Once' BY <1>1, <1>3 DEF UsbInv, Once, Unique, Proper
<1>6. \A e : Commanded(e)' = Commanded(e) /\ Completed(e)' = Completed(e)
  BY <1>1 DEF Commanded, Completed, Of
<1>7. \A e : ~RunOf(e)' BY <1>3 DEF RunOf
<1>8. \A e \in Devices : e # d => Same(e)
  <2> SUFFICES ASSUME NEW e \in Devices, e # d PROVE Same(e) OBVIOUS
  <2>1. ~RunOf(e) /\ ~RunOf(e)' BY <1>2, <1>7
  <2> QED BY <2>1, <1>1, <1>6 DEF Same
<1>9. OnePlace(d)' BY <1>1, <1>2, <1>6, <1>7 DEF OnePlace, Nothing
<1>10. Stage(d)'
  <2>1. Stage(d) BY <1>2 DEF UsbInv
  <2>2. state[d] = "used" /\ t = <<d, 1>>
    <3>1. CASE state[d] = "starting"
      <4>1. todo[<<d, Start>>] = <<>> BY <3>1, <1>1, <1>2 DEF Active
      <4>2. Script(d) # <<>> /\ Tail(Script(d)) # <<>> BY <1>2, ScriptTyped
      <4> QED BY <2>1, <3>1, <4>1, <4>2 DEF Stage, Enabling, Addressing, Asking, Setting
    <3> QED BY <3>1, <1>2 DEF Busy, Active
  <2>3. todo[<<d, 1>>] = <<>> BY <2>2, <1>1
  <2>4. used'[d] + 3 * Left(d, <<d, 1>>)' <= RingBlocks
    <3>1. Len(<<>>) = 0 OBVIOUS
    <3>2. Left(d, <<d, 1>>)' = 0 - 1 BY <2>3, <3>1, <1>1, <1>7 DEF Left
    <3>3. used'[d] \in Nat /\ used'[d] <= RingBlocks /\ RingBlocks \in Nat
      BY <2>1, <1>1, <1>2, DescriptorsAssumption DEF Stage, UsbInv, Types
    <3> HIDE DEF d
    <3> QED BY <3>2, <3>3
  <2> QED BY <2>1, <2>2, <2>4, <1>1 DEF Stage
<1>11. \A e \in Devices : OnePlace(e)' /\ Stage(e)' BY <1>2, <1>8, <1>9, <1>10, OthersKept
<1>12. SlotsShared'
  <2>1. \A e \in Devices, r \in Slots : Announces(e, r)' <=> Announces(e, r) BY <1>6 DEF Announces
  <2>2. \A r \in Slots : Returns(r)' <=> Returns(r) BY <1>1 DEF Returns, Of
  <2>3. \A e \in Devices : Alive(e)' <=> Alive(e) BY <1>1 DEF Alive
  <2> QED BY <2>1, <2>2, <2>3, <1>1, SlotsKept DEF UsbInv, Types
<1>13. DriversServed' BY <1>1, DriversKept DEF UsbInv
<1> QED BY <1>4, <1>5, <1>11, <1>12, <1>13 DEF UsbInv

LEMMA SendRequestKeeps ==
  ASSUME UsbInv, NEW t \in Tasks, SendRequest(t)
  PROVE  UsbInv'
<1> DEFINE d == t[1]
           w == Head(todo[t]).what
           r == [task |-> t, what |-> w]
<1>1. /\ Running(t) /\ todo[t] # <<>> /\ Head(todo[t]).to = "control"
      /\ ring' = [ring EXCEPT ![d] = Append(@, r)] /\ used' = [used EXCEPT ![d] = @ + Length(w)]
      /\ run' = Tail(run)
      /\ UNCHANGED <<state, slot, table, flags, todo, commands, halted, buffer, enabled, endpoints,
                     events, given>>
  BY DEF SendRequest, controller
<1>2. /\ d \in Devices /\ run = <<t>> /\ t = Active(d) /\ Busy(d)
      /\ RunOf(d) /\ Tail(run) = <<>>
      /\ Commanded(d) = {} /\ ring[d] = <<>> /\ Completed(d) = {}
      /\ \A e \in Devices : e # d => ~RunOf(e)
  BY <1>1, RunningOne
<1>3. run' = <<>> /\ Types /\ Stage(d) BY <1>1, <1>2 DEF UsbInv
<1>4. Next1(d) = Head(todo[t]) /\ Next1(d).what = w /\ Next1(d) \in Steps
  BY <1>1, <1>2, <1>3, NextTyped DEF Next1
<1>5. w \in Whats BY <1>4, StepKinds
<1>6. ring'[d] = <<r>> /\ ring' \in [Devices -> Seq(RequestRecords)]
      /\ \A e \in Devices : e # d => ring'[e] = ring[e]
  <2>1. r \in RequestRecords BY <1>5 DEF RequestRecords
  <2> HIDE DEF r
  <2>2. Append(ring[d], r) = <<r>> BY <1>2
  <2>3. <<r>> \in Seq(RequestRecords) BY <2>1, SingleTyped
  <2> QED BY <2>2, <2>3, <1>1, <1>2, <1>3 DEF Types
<1>7. used'[d] = used[d] + Length(w) /\ used' \in [Devices -> Nat]
      /\ \A e \in Devices : e # d => used'[e] = used[e]
  <2> DEFINE k == Length(w)
  <2>1. k \in Nat BY DEF Length
  <2>2. used' = [used EXCEPT ![d] = used[d] + k] /\ used \in [Devices -> Nat]
    BY <1>1, <1>3 DEF Types
  <2> HIDE DEF k
  <2>3. used[d] + k \in Nat BY <2>1, <2>2, <1>2
  <2>4. used'[d] = used[d] + k /\ used' \in [Devices -> Nat]
        /\ \A e \in Devices : e # d => used'[e] = used[e]
    BY <2>2, <2>3, <1>2
  <2> QED BY <2>4 DEF k
<1>8. Types' BY <1>1, <1>3, <1>6, <1>7 DEF Types
<1>9. Once' BY <1>1, <1>3 DEF UsbInv, Once, Unique, Proper
<1>10. \A e : Commanded(e)' = Commanded(e) /\ Completed(e)' = Completed(e)
  BY <1>1 DEF Commanded, Completed, Of
<1>11. \A e : ~RunOf(e)' BY <1>3 DEF RunOf
<1>12. \A e \in Devices : e # d => Same(e)
  <2> SUFFICES ASSUME NEW e \in Devices, e # d PROVE Same(e) OBVIOUS
  <2>1. ~RunOf(e) /\ ~RunOf(e)' BY <1>2, <1>11
  <2> QED BY <2>1, <1>1, <1>6, <1>7, <1>10 DEF Same
<1>13. OnePlace(d)'
  <2>1. Active(d)' = t /\ Busy(d)' /\ Next1(d)' = Next1(d) BY <1>1, <1>2 DEF Active, Busy, Next1
  <2>2. Sends(d)' BY <2>1, <1>1, <1>11 DEF Sends
  <2>3. Commanded(d)' = {} /\ Completed(d)' = {} BY <1>2, <1>10
  <2>4. HasAsked(d)' BY <2>1, <2>2, <2>3, <1>1, <1>4, <1>6 DEF HasAsked
  <2> QED BY <2>4, Zenon DEF OnePlace
<1>14. Stage(d)'
  <2> DEFINE l == Len(todo[t])
             n == Len(DriverSteps(d))
             k == Length(w)
  <2>1. l \in Nat \ {0} /\ used[d] \in Nat /\ RingBlocks \in Nat /\ (Sets(d) => n \in Nat)
        /\ k \in {2, 3} /\ used'[d] = used[d] + k
    <3>1. todo[t] \in Seq(Steps) BY <1>3 DEF Types
    <3>2. l \in Nat \ {0} BY <3>1, <1>1, TailKinds
    <3>3. Sets(d) => n \in Nat BY <1>2, DriverTyped, LenProperties
    <3> HIDE DEF l, n
    <3> QED BY <3>2, <3>3, <1>2, <1>3, <1>7, DescriptorsAssumption DEF Types, Length
  <2>2. Left(d, t) = l /\ Left(d, t)' = l - 1
    <3>1. Left(d, t) = l - 0 BY <1>2 DEF Left
    <3>2. Left(d, t)' = l - 1 BY <1>1, <1>11 DEF Left
    <3> HIDE DEF l
    <3> QED BY <2>1, <3>1, <3>2
  <2>3. CASE state[d] = "starting"
    <3>1. t = <<d, Start>> BY <2>3, <1>2 DEF Active
    <3>2. Asking(d) \/ Setting(d)
      <4>1. Next1(d).to = "command" <=> w[1] \in {"enable", "address", "configure"}
        BY <1>4, StepKinds
      <4>2. w[1] \notin {"enable", "address", "configure"} BY <4>1, <1>1, <1>4
      <4>3. Enabling(d) => w[1] = "enable" BY <2>3, <1>1, <1>2, <1>4, StageKinds
      <4>4. Addressing(d) => w[1] = "address" BY <2>3, <1>1, <1>2, <1>4, StageKinds
      <4> QED BY <4>2, <4>3, <4>4, <2>3, <1>3 DEF Stage
    <3>3. CASE Asking(d)
      <4> DEFINE R == IF Sets(d) THEN 2 + 3 * n ELSE 0
      <4>1. used[d] + 3 * l + R <= RingBlocks BY <3>1, <3>3, <2>2 DEF Asking
      <4>2. R \in Nat
        <5>1. CASE Sets(d)
          <6>1. n \in Nat BY <5>1, <2>1
          <6> HIDE DEF n
          <6>2. 2 + 3 * n \in Nat BY <6>1
          <6> QED BY <5>1, <6>2
        <5>2. CASE ~Sets(d) BY <5>2
        <5> QED BY <5>1, <5>2
      <4> HIDE DEF R, l, k
      <4>3. used'[d] + 3 * (l - 1) + R <= RingBlocks /\ used'[d] <= RingBlocks
        BY <4>1, <4>2, <2>1
      <4>4. Asking(d)' BY <3>1, <3>3, <4>3, <2>2, <1>1 DEF Asking, R
      <4> QED BY <4>3, <4>4, <2>3, <1>1, <1>3 DEF Stage
    <3>4. CASE Setting(d)
      <4>1. w[1] = "set configuration" BY <2>3, <3>4, <1>1, <1>2, <1>4, StageKinds
      <4>2. k = 2 BY <4>1 DEF Length
      <4>3. used[d] + 2 + 3 * n <= RingBlocks /\ n \in Nat BY <3>4, <1>2, <2>1 DEF Setting
      <4> HIDE DEF k, n
      <4>4. used'[d] + 0 + 3 * n <= RingBlocks /\ used'[d] <= RingBlocks BY <4>2, <4>3, <2>1
      <4>5. Setting(d)' BY <3>4, <4>4, <1>1, <1>11 DEF Setting, n
      <4> QED BY <4>4, <4>5, <2>3, <1>1, <1>3 DEF Stage
    <3> QED BY <3>2, <3>3, <3>4
  <2>4. CASE state[d] = "used"
    <3>1. t = <<d, 1>> BY <2>4, <1>2 DEF Active
    <3>2. used[d] + 3 * l <= RingBlocks BY <2>4, <3>1, <2>2, <1>3 DEF Stage
    <3> HIDE DEF l, k
    <3>3. used'[d] + 3 * (l - 1) <= RingBlocks /\ used'[d] <= RingBlocks BY <3>2, <2>1
    <3> QED BY <3>1, <3>3, <2>2, <2>4, <1>1, <1>3 DEF Stage
  <2> QED BY <2>3, <2>4, <1>2 DEF Busy
<1>15. \A e \in Devices : OnePlace(e)' /\ Stage(e)' BY <1>2, <1>12, <1>13, <1>14, OthersKept
<1>16. SlotsShared'
  <2>1. \A e \in Devices, s \in Slots : Announces(e, s)' <=> Announces(e, s) BY <1>10 DEF Announces
  <2>2. \A s \in Slots : Returns(s)' <=> Returns(s) BY <1>1 DEF Returns, Of
  <2>3. \A e \in Devices : Alive(e)' <=> Alive(e) BY <1>1 DEF Alive
  <2> QED BY <2>1, <2>2, <2>3, <1>1, SlotsKept DEF UsbInv, Types
<1>17. DriversServed' BY <1>1, DriversKept DEF UsbInv
<1> QED BY <1>8, <1>9, <1>15, <1>16, <1>17 DEF UsbInv

LEMMA SendCommandKeeps ==
  ASSUME UsbInv, NEW t \in Tasks, SendCommand(t)
  PROVE  UsbInv'
<1> DEFINE d == t[1]
           w == Head(todo[t]).what
           c == [task |-> t, what |-> w, slot |-> slot[d]]
<1>1. /\ Running(t) /\ todo[t] # <<>> /\ Head(todo[t]).to = "command"
      /\ commands' = Append(commands, c)
      /\ flags' = IF w[1] = "configure" THEN [flags EXCEPT ![d] = w[2]] ELSE flags
      /\ run' = Tail(run)
      /\ UNCHANGED <<state, slot, table, used, todo, ring, halted, buffer, enabled, endpoints,
                     events, given>>
  BY DEF SendCommand, controller
<1>2. /\ d \in Devices /\ run = <<t>> /\ t = Active(d) /\ Busy(d) /\ t # Null
      /\ RunOf(d) /\ Tail(run) = <<>>
      /\ Commanded(d) = {} /\ ring[d] = <<>> /\ Completed(d) = {}
      /\ \A e \in Devices : e # d => ~RunOf(e)
  BY <1>1, RunningOne
<1>3. run' = <<>> /\ Types /\ Stage(d) BY <1>1, <1>2 DEF UsbInv
<1>4. Next1(d) = Head(todo[t]) /\ Next1(d).what = w /\ Next1(d) \in Steps
  BY <1>1, <1>2, <1>3, NextTyped DEF Next1
<1>5. w \in Whats /\ (w[1] = "configure" => w[2] \in Ends) BY <1>4, StepKinds
<1>6. /\ flags' \in [Devices -> Ends \cup {Null}] /\ (w[1] = "configure" => flags'[d] = w[2])
      /\ \A e \in Devices : e # d => flags'[e] = flags[e]
  BY <1>1, <1>2, <1>3, <1>5 DEF Types
<1>7. c \in CommandRecords /\ Owner(c) = OfDevice(d) /\ Proper(c)
  <2>1. c.task = t /\ c.what = w OBVIOUS
  <2>2. slot[d] \in Slots \cup {Null} BY <1>2, <1>3 DEF Types
  <2>3. c \in CommandRecords BY <2>2, <1>5 DEF CommandRecords
  <2> QED BY <2>1, <2>3, <1>2, <1>5 DEF Owner, Proper
<1> HIDE DEF c
<1>8. commands \in Seq(CommandRecords) /\ Unique(commands) BY DEF UsbInv, Types, Once
<1>9. /\ Append(commands, c) \in Seq(CommandRecords)
      /\ \A k : Of(Append(commands, c), k) = Of(commands, k) \cup (IF Owner(c) = k THEN {c} ELSE {})
      /\ Unique(commands) /\ Of(commands, Owner(c)) = {} => Unique(Append(commands, c))
  BY <1>7, <1>8, Appended, Zenon
<1>10. Unique(commands') /\ commands' \in Seq(CommandRecords)
  BY <1>1, <1>2, <1>7, <1>8, <1>9 DEF Commanded
<1>11. /\ Commanded(d)' = {c}
       /\ \A e \in Devices : e # d => Commanded(e)' = Commanded(e)
  <2>1. Of(commands', OfDevice(d)) = {c} BY <1>1, <1>2, <1>7, <1>9 DEF Commanded
  <2>2. ASSUME NEW e \in Devices, e # d PROVE Of(commands', OfDevice(e)) = Of(commands, OfDevice(e))
    <3>1. OfDevice(e) # OfDevice(d) BY <2>2, Owners
    <3> QED BY <3>1, <1>1, <1>7, <1>9
  <2> QED BY <2>1, <2>2 DEF Commanded
<1>12. \A s : Returns(s)' <=> Returns(s)
  <2>1. \A s : Of(commands', OfSlot(s)) = Of(commands, OfSlot(s))
    BY <1>1, <1>7, <1>9, Owners
  <2> QED BY <2>1 DEF Returns
<1>13. Types' BY <1>1, <1>3, <1>6, <1>10 DEF Types
<1>14. Once'
  <2>1. \A i \in DOMAIN commands' : Proper(commands'[i])
    <3>1. DOMAIN commands' = 1 .. Len(commands) + 1 /\ Len(commands) \in Nat
          /\ DOMAIN commands = 1 .. Len(commands) /\ commands'[Len(commands) + 1] = c
          /\ \A i \in 1 .. Len(commands) : commands'[i] = commands[i]
      BY <1>1, <1>7, <1>8, AppendProperties, LenProperties
    <3>2. \A i \in 1 .. Len(commands) : Proper(commands[i]) BY <3>1 DEF UsbInv, Once
    <3> QED BY <3>1, <3>2, <1>7
  <2>2. Unique(commands)' /\ Unique(events)' BY <1>1, <1>10 DEF Unique, UsbInv, Once
  <2>3. (run = <<>>)' BY <1>3
  <2>4. \A i \in DOMAIN commands' : Proper(commands[i])' BY <2>1 DEF Proper
  <2> QED BY <2>2, <2>3, <2>4 DEF Once
<1>15. \A e : Completed(e)' = Completed(e) BY <1>1 DEF Completed, Of
<1>16. \A e : ~RunOf(e)' BY <1>3 DEF RunOf
<1>17. \A e \in Devices : e # d => Same(e)
  <2> SUFFICES ASSUME NEW e \in Devices, e # d PROVE Same(e) OBVIOUS
  <2>1. ~RunOf(e) /\ ~RunOf(e)' BY <1>2, <1>16
  <2> QED BY <2>1, <1>1, <1>6, <1>11, <1>15 DEF Same
<1>18. OnePlace(d)'
  <2>1. Active(d)' = t /\ Busy(d)' /\ Next1(d)' = Next1(d) BY <1>1, <1>2 DEF Active, Busy, Next1
  <2>2. Sends(d)' BY <2>1, <1>1, <1>16 DEF Sends
  <2>3. ring'[d] = <<>> /\ Completed(d)' = {} BY <1>1, <1>2, <1>15
  <2>4. Commanded(d)' = {[task |-> Active(d)', what |-> Next1(d)'.what, slot |-> slot'[d]]}
    BY <2>1, <1>1, <1>4, <1>11 DEF c
  <2>5. Next1(d)'.to = "command" /\ (Next1(d)'.what[1] = "configure" => flags'[d] = Next1(d)'.what[2])
    BY <2>1, <1>1, <1>4, <1>6
  <2>6. HasSent(d)' BY <2>2, <2>3, <2>4, <2>5, Zenon DEF HasSent
  <2> QED BY <2>6, Zenon DEF OnePlace
<1>19. Stage(d)'
  <2> DEFINE l == Len(todo[t])
             n == Len(DriverSteps(d))
             R == IF Sets(d) THEN 2 + 3 * n ELSE 0
  <2>1. l \in Nat \ {0} /\ used[d] \in Nat /\ RingBlocks \in Nat /\ R \in Nat
    <3>1. todo[t] \in Seq(Steps) BY <1>3 DEF Types
    <3>2. l \in Nat \ {0} BY <3>1, <1>1, TailKinds
    <3>3. Sets(d) => n \in Nat BY <1>2, DriverTyped, LenProperties
    <3> HIDE DEF l, n
    <3>4. n \in Nat => 2 + 3 * n \in Nat OBVIOUS
    <3> QED BY <3>2, <3>3, <3>4, <1>2, <1>3, DescriptorsAssumption DEF Types
  <2>2. Left(d, t) = l /\ Left(d, t)' = l - 1
    <3>1. Left(d, t) = l - 0 BY <1>2 DEF Left
    <3>2. Left(d, t)' = l - 1 BY <1>1, <1>16 DEF Left
    <3> HIDE DEF l
    <3> QED BY <2>1, <3>1, <3>2
  <2> HIDE DEF R, l
  <2>3. Enabling(d) => Enabling(d)' BY <1>1 DEF Enabling
  <2>4. Addressing(d) => Addressing(d)' BY <1>1 DEF Addressing
  <2>5. state[d] = "starting" /\ Asking(d) => Asking(d)'
    <3> SUFFICES ASSUME state[d] = "starting", Asking(d) PROVE Asking(d)' OBVIOUS
    <3>1. t = <<d, Start>> BY <1>2 DEF Active
    <3>2. used[d] + 3 * l + R <= RingBlocks BY <3>1, <2>2 DEF Asking, R
    <3>3. used[d] + 3 * (l - 1) + R <= RingBlocks BY <3>2, <2>1
    <3> QED BY <3>1, <3>3, <2>2, <1>1 DEF Asking, R
  <2>6. ~(state[d] = "starting" /\ Setting(d))
    <3>1. Next1(d).to = "command" <=> w[1] \in {"enable", "address", "configure"}
      BY <1>4, StepKinds
    <3>2. state[d] = "starting" /\ Setting(d) => w[1] = "set configuration"
      BY <1>1, <1>2, <1>4, StageKinds
    <3> QED BY <3>1, <3>2, <1>1, <1>4
  <2>7. state[d] = "used" => used[d] + 3 * Left(d, <<d, 1>>)' <= RingBlocks
    <3> SUFFICES ASSUME state[d] = "used" PROVE used[d] + 3 * Left(d, <<d, 1>>)' <= RingBlocks OBVIOUS
    <3>1. t = <<d, 1>> BY <1>2 DEF Active
    <3>2. used[d] + 3 * l <= RingBlocks BY <3>1, <2>2, <1>3 DEF Stage
    <3>3. used[d] + 3 * (l - 1) <= RingBlocks BY <3>2, <2>1
    <3> QED BY <3>1, <3>3, <2>2
  <2> QED BY <2>3, <2>4, <2>5, <2>6, <2>7, <1>1, <1>3 DEF Stage
<1>20. \A e \in Devices : OnePlace(e)' /\ Stage(e)' BY <1>2, <1>17, <1>18, <1>19, OthersKept
<1>21. SlotsShared'
  <2>1. \A e \in Devices, s \in Slots : Announces(e, s)' <=> Announces(e, s) BY <1>15 DEF Announces
  <2>2. \A e \in Devices : Alive(e)' <=> Alive(e) BY <1>1 DEF Alive
  <2> QED BY <2>1, <2>2, <1>1, <1>12, SlotsKept DEF UsbInv, Types
<1>22. DriversServed' BY <1>1, DriversKept DEF UsbInv
<1> QED BY <1>13, <1>14, <1>20, <1>21, <1>22 DEF UsbInv

\* The controller's steps leave the stage of a device alone.
LEMMA StageKept ==
  ASSUME NEW d \in Devices, Stage(d), state' = state, slot' = slot, used' = used, todo' = todo, run' = run
  PROVE  Stage(d)'
<1>1. RunOf(d)' <=> RunOf(d) BY DEF RunOf
<1>2. Left(d, <<d, Start>>)' = Left(d, <<d, Start>>) /\ Left(d, <<d, 1>>)' = Left(d, <<d, 1>>)
  BY <1>1 DEF Left
<1>3. Enabling(d) => Enabling(d)' BY DEF Enabling
<1>4. Addressing(d) => Addressing(d)' BY DEF Addressing
<1>5. Asking(d) => Asking(d)' BY <1>2 DEF Asking
<1>6. Setting(d) => Setting(d)' BY <1>1 DEF Setting
<1> QED BY <1>2, <1>3, <1>4, <1>5, <1>6 DEF Stage

LEMMA Completes ==
  ASSUME UsbInv, NEW d \in Devices, NEW w \in Whats, NEW ok \in BOOLEAN,
         NEW s \in Slots \cup {Null}, Completed(d) = {},
         events' = Append(events, [task |-> Active(d), what |-> w, ok |-> ok, slot |-> s])
  PROVE  /\ events' \in Seq(EventRecords) /\ Unique(events)'
         /\ Completed(d)' = {[task |-> Active(d), what |-> w, ok |-> ok, slot |-> s]}
         /\ \A e \in Devices : e # d => Completed(e)' = Completed(e)
<1> DEFINE x == [task |-> Active(d), what |-> w, ok |-> ok, slot |-> s]
<1>1. x \in EventRecords /\ Owner(x) = OfDevice(d)
  <2>4. Active(d) \in Tasks /\ Active(d)[1] = d BY TaskParts
  <2>1. Active(d) \in Tasks /\ Active(d)[1] = d /\ Active(d) # Null
    BY <2>4, DescriptorsAssumption, Zenon
  <2>2. x.task = Active(d) OBVIOUS
  <2>3. x \in EventRecords BY <2>1 DEF EventRecords
  <2> HIDE DEF x
  <2> QED BY <2>1, <2>2, <2>3 DEF Owner
<1>2. events \in Seq(EventRecords) /\ Unique(events) BY DEF UsbInv, Types, Once
<1> HIDE DEF x
<1>3. /\ Append(events, x) \in Seq(EventRecords)
      /\ \A k : Of(Append(events, x), k) = Of(events, k) \cup (IF Owner(x) = k THEN {x} ELSE {})
      /\ Unique(events) /\ Of(events, Owner(x)) = {} => Unique(Append(events, x))
  BY <1>1, <1>2, Appended, Zenon
<1>4. events' = Append(events, x) BY DEF x
<1>5. events' \in Seq(EventRecords) /\ Unique(events') BY <1>1, <1>2, <1>3, <1>4 DEF Completed
<1>6. Of(events', OfDevice(d)) = {x} BY <1>1, <1>3, <1>4 DEF Completed
<1>7. ASSUME NEW e \in Devices, e # d PROVE Of(events', OfDevice(e)) = Of(events, OfDevice(e))
  <2>1. OfDevice(e) # OfDevice(d) BY <1>7, Owners
  <2> QED BY <2>1, <1>1, <1>3, <1>4
<1> QED BY <1>5, <1>6, <1>7 DEF Completed, Unique, x

\* A command is taken from the ring.
LEMMA Fetched ==
  ASSUME UsbInv, commands # <<>>, commands' = Tail(commands)
  PROVE  /\ Head(commands) \in CommandRecords /\ Proper(Head(commands))
         /\ commands' \in Seq(CommandRecords) /\ Unique(commands)'
         /\ \A i \in DOMAIN commands' : Proper(commands'[i])
         /\ Of(commands, Owner(Head(commands))) = {Head(commands)}
         /\ \A k : Of(commands', k) = IF k = Owner(Head(commands)) THEN {} ELSE Of(commands, k)
<1>1. commands \in Seq(CommandRecords) /\ Unique(commands) BY DEF UsbInv, Types, Once
<1>2. /\ Tail(commands) \in Seq(CommandRecords) /\ Head(commands) \in CommandRecords
      /\ Unique(Tail(commands)) /\ Of(commands, Owner(Head(commands))) = {Head(commands)}
      /\ \A k : Of(Tail(commands), k) = IF k = Owner(Head(commands)) THEN {} ELSE Of(commands, k)
  BY <1>1, Removed, Zenon
<1>3. Len(commands) \in Nat \ {0} /\ DOMAIN commands = 1 .. Len(commands) /\ Head(commands) = commands[1]
      /\ Len(Tail(commands)) = Len(commands) - 1
      /\ DOMAIN Tail(commands) = 1 .. Len(Tail(commands))
      /\ \A i \in 1 .. Len(Tail(commands)) : Tail(commands)[i] = commands[i + 1]
  BY <1>1, <1>2, HeadTailProperties, LenProperties, EmptySeq
<1>4. \A i \in 1 .. Len(commands) : Proper(commands[i]) BY <1>3 DEF UsbInv, Once
<1>5. Proper(Head(commands)) BY <1>3, <1>4
<1>6. ASSUME NEW i \in DOMAIN Tail(commands) PROVE Proper(Tail(commands)[i])
  <2>1. i + 1 \in 1 .. Len(commands) /\ Tail(commands)[i] = commands[i + 1] BY <1>3
  <2> QED BY <2>1, <1>4
<1> QED BY <1>2, <1>5, <1>6 DEF Unique

LEMMA DisableKeeps ==
  ASSUME UsbInv, Execute, Head(commands).task = Null
  PROVE  UsbInv'
<1> DEFINE c == Head(commands)
           s == c.slot
<1>1. /\ commands # <<>> /\ commands' = Tail(commands)
      /\ UNCHANGED <<state, slot, table, used, flags, todo, run, ring, halted, buffer, given>>
  BY DEF Execute, device
<1>2. /\ c \in CommandRecords /\ Proper(c) /\ commands' \in Seq(CommandRecords) /\ Unique(commands)'
      /\ \A i \in DOMAIN commands' : Proper(commands'[i])
      /\ Of(commands, Owner(c)) = {c}
      /\ \A k : Of(commands', k) = IF k = Owner(c) THEN {} ELSE Of(commands, k)
  BY <1>1, Fetched
<1>3. c.what = <<"disable">> /\ c.what[1] = "disable" /\ s \in Slots /\ Owner(c) = OfSlot(s)
  BY <1>2, SingleHead DEF Proper, Owner
<1>4. enabled' = enabled \ {s} /\ endpoints' = [endpoints EXCEPT ![s] = {}] /\ events' = events
  <2>1. c.what[1] \notin MayFail BY <1>3, DevicesAssumption
  <2> QED BY <1>3, <2>1 DEF Execute
<1>5. Types /\ SlotsShared BY DEF UsbInv
<1>6. /\ endpoints' \in [Slots -> SUBSET Ends]
      /\ \A r \in Slots : r # s => endpoints'[r] = endpoints[r]
  BY <1>3, <1>4, <1>5 DEF Types
<1>7. Types' BY <1>1, <1>2, <1>4, <1>5, <1>6 DEF Types
<1>8. Once'
  <2>1. Unique(events)' BY <1>4 DEF UsbInv, Once, Unique
  <2>2. \A i \in DOMAIN commands' : Proper(commands[i])' BY <1>2 DEF Proper
  <2>3. (run = <<>> \/ \E t \in Tasks : run = <<t>>)' BY <1>1 DEF UsbInv, Once
  <2> QED BY <2>1, <2>2, <2>3, <1>2 DEF Once
<1>9. \A e : Commanded(e)' = Commanded(e) /\ Completed(e)' = Completed(e)
  <2>1. \A e : OfDevice(e) # Owner(c) BY <1>3, Owners
  <2> QED BY <2>1, <1>2, <1>4 DEF Commanded, Completed, Of
<1>10. Returns(s) /\ \A r \in Slots : Returns(r)' <=> Returns(r) /\ r # s
  <2>1. \A r : OfSlot(r) = Owner(c) <=> r = s BY <1>3, Owners
  <2>2. \A r : Of(commands', OfSlot(r)) = IF r = s THEN {} ELSE Of(commands, OfSlot(r))
    BY <2>1, <1>2
  <2>3. Of(commands, OfSlot(s)) # {} BY <1>2, <1>3
  <2> QED BY <2>2, <2>3 DEF Returns
<1>11. table[s] = Null BY <1>3, <1>5, <1>10 DEF SlotsShared
<1>12. \A e \in Devices : Alive(e) /\ slot[e] \in Slots => slot[e] # s
  <2> SUFFICES ASSUME NEW e \in Devices, Alive(e), slot[e] \in Slots, slot[e] = s PROVE FALSE OBVIOUS
  <2>1. slot[e] # Null /\ e # Null BY DevicesAssumption
  <2> QED BY <2>1, <1>5, <1>11 DEF SlotsShared
<1>13. \A e \in Devices : Same(e)
  <2> SUFFICES ASSUME NEW e \in Devices PROVE Same(e) OBVIOUS
  <2>1. Busy(e) => Alive(e) BY DEF Busy, Alive
  <2>2. Busy(e) /\ slot[e] \in Slots => endpoints'[slot[e]] = endpoints[slot[e]] BY <2>1, <1>6, <1>12
  <2> QED BY <2>2, <1>1, <1>9 DEF Same
<1>14. \A e \in Devices : OnePlace(e)' /\ Stage(e)' BY <1>13, SameKept DEF UsbInv
<1>15. SlotsShared'
  <2>1. \A e \in Devices, r \in Slots : Announces(e, r)' <=> Announces(e, r) BY <1>9 DEF Announces
  <2>2. \A e : Alive(e)' <=> Alive(e) BY <1>1 DEF Alive
  <2>3. \A e \in Devices : Alive(e)' /\ slot'[e] # Null => table'[slot'[e]] = e
    BY <2>2, <1>1, <1>5 DEF SlotsShared
  <2>4. ASSUME NEW r \in Slots, table'[r] # Null PROVE Alive(table[r])' /\ slot'[table'[r]] = r
    <3>1. Alive(table[r]) /\ slot[table[r]] = r BY <2>4, <1>1, <1>5 DEF SlotsShared
    <3> QED BY <3>1, <1>1 DEF Alive
  <2>5. ASSUME NEW r \in Slots
        PROVE  r \in enabled' <=> \/ table'[r] # Null \/ Returns(r)'
                                  \/ \E e \in Devices : Announces(e, r)'
    <3>1. r \in enabled <=> \/ table[r] # Null \/ Returns(r)
                             \/ \E e \in Devices : Announces(e, r)
      BY <1>5 DEF SlotsShared
    <3>2. \A e \in Devices : ~Announces(e, s) BY <1>3, <1>5, <1>10 DEF SlotsShared
    <3>3. CASE r = s BY <3>2, <3>3, <2>1, <1>1, <1>4, <1>10, <1>11
    <3>4. CASE r # s BY <3>1, <3>4, <2>1, <1>1, <1>4, <1>10
    <3> QED BY <3>3, <3>4
  <2>6. \A r \in Slots : table'[r] # Null => ~Returns(r)' BY <1>1, <1>5, <1>10 DEF SlotsShared
  <2>7. \A e \in Devices, r \in Slots : Announces(e, r)' =>
           /\ table'[r] = Null /\ ~Returns(r)'
           /\ \A f \in Devices : Announces(f, r)' => f = e
    BY <2>1, <1>1, <1>5, <1>10 DEF SlotsShared
  <2> QED BY <2>3, <2>4, <2>5, <2>6, <2>7, Zenon DEF SlotsShared
<1>16. DriversServed'
  <2>1. ASSUME NEW e \in Devices, state[e] = "used"
        PROVE  state'[e] = "used" /\ slot'[e] = slot[e] /\ endpoints[slot[e]] \subseteq endpoints'[slot[e]]
    <3>1. Alive(e) /\ slot[e] \in Slots BY <2>1 DEF Alive, UsbInv, Stage
    <3> QED BY <3>1, <2>1, <1>1, <1>6, <1>12
  <2> QED BY <2>1, <1>1, DriversKept DEF UsbInv
<1> QED BY <1>7, <1>8, <1>14, <1>15, <1>16 DEF UsbInv

LEMMA ExecuteKeeps ==
  ASSUME UsbInv, Execute, NEW d \in Devices, Head(commands).task # Null,
         Head(commands).task[1] = d
  PROVE  UsbInv'
<1> DEFINE c == Head(commands)
           w == Next1(d).what
<1>1. /\ commands # <<>> /\ commands' = Tail(commands)
      /\ UNCHANGED <<state, slot, table, used, flags, todo, run, ring, halted, buffer, given>>
  BY DEF Execute, device
<1>2. /\ c \in CommandRecords /\ Proper(c) /\ commands' \in Seq(CommandRecords) /\ Unique(commands)'
      /\ \A i \in DOMAIN commands' : Proper(commands'[i])
      /\ Of(commands, Owner(c)) = {c}
      /\ \A k : Of(commands', k) = IF k = Owner(c) THEN {} ELSE Of(commands, k)
  BY <1>1, Fetched
<1>3. Types /\ SlotsShared BY DEF UsbInv
<1>4. d \in Devices /\ Owner(c) = OfDevice(d) BY DEF Owner
<1>5. HasSent(d) /\ c = [task |-> Active(d), what |-> w, slot |-> slot[d]]
  <2>1. Commanded(d) = {c} BY <1>2, <1>4 DEF Commanded
  <2>2. OnePlace(d) BY <1>4 DEF UsbInv
  <2>3. HasSent(d) BY <2>1, <2>2 DEF OnePlace, Nothing, Runs, HasAsked, HasAnswer
  <2> QED BY <2>1, <2>3 DEF HasSent
<1>6. /\ Sends(d) /\ Busy(d) /\ todo[Active(d)] # <<>> /\ ~RunOf(d) /\ ring[d] = <<>> /\ Completed(d) = {}
      /\ w[1] = "configure" => flags[d] = w[2]
  BY <1>5 DEF HasSent, Sends
<1>7. Next1(d) \in Steps /\ Next1(d).to = "command" BY <1>3, <1>4, <1>5, <1>6, NextTyped DEF HasSent
<1>8. /\ w \in Whats /\ w[1] \in {"enable", "address", "configure"} /\ w[1] # "disable"
      /\ w[1] = "enable" <=> w = <<"enable">>
      /\ w[1] = "configure" => w[2] \in Ends
  BY <1>7, StepKinds
<1>9. c.task = Active(d) /\ c.what = w /\ c.slot = slot[d] /\ Active(d)[1] = d
  <2>1. Active(d)[1] = d BY <1>4, TaskParts
  <2> HIDE DEF w
  <2> QED BY <2>1, <1>5
<1>10. w[1] = "configure" => slot[d] \in Slots
  <2>1. Stage(d) BY <1>4 DEF UsbInv
  <2>2. w[1] = "configure" => state[d] = "used"
    <3>1. state[d] = "starting" => w[1] # "configure"
      BY <1>4, <1>6, <2>1, StageKinds DEF Stage, Kept
    <3> QED BY <3>1, <1>6 DEF Busy
  <2> QED BY <2>1, <2>2 DEF Stage
<1> DEFINE Ev(ok, s) == events' = Append(events, [task |-> Active(d), what |-> w, ok |-> ok, slot |-> s])
           Failed(ok, s) == ok = FALSE /\ w[1] # "configure" /\ enabled' = enabled /\ endpoints' = endpoints
           Given(ok, s) == /\ ok = TRUE /\ w[1] = "enable" /\ s \in Slots \ enabled
                           /\ enabled' = enabled \cup {s} /\ endpoints' = endpoints
           Done1(ok, s) == /\ ok = TRUE /\ w[1] = "address"
                           /\ enabled' = enabled /\ endpoints' = endpoints
           Added(ok, s) == /\ ok = TRUE /\ w[1] = "configure" /\ enabled' = enabled
                           /\ endpoints' = [endpoints EXCEPT ![slot[d]] = @ \cup {flags[d]}]
<1>11. \E ok \in BOOLEAN, s \in Slots \cup {Null} :
         Ev(ok, s) /\ (Failed(ok, s) \/ Given(ok, s) \/ Done1(ok, s) \/ Added(ok, s))
  <2>1. slot[d] \in Slots \cup {Null} BY <1>3, <1>4 DEF Types
  <2>2. \A ok, s : Complete(c, ok, s) => Ev(ok, s) BY <1>9 DEF Complete
  <2>3. CASE w[1] \in MayFail /\ Complete(c, FALSE, c.slot) /\ UNCHANGED <<enabled, endpoints>>
    <3>1. w[1] # "configure" BY <2>3, DevicesAssumption
    <3>2. Ev(FALSE, slot[d]) /\ Failed(FALSE, slot[d]) BY <2>2, <2>3, <3>1, <1>9
    <3> HIDE DEF Ev, Failed, Given, Done1, Added
    <3> QED BY <2>1, <3>2
  <2>4. CASE /\ w[1] = "enable"
             /\ \E s \in Slots \ enabled : enabled' = enabled \cup {s} /\ Complete(c, TRUE, s)
             /\ UNCHANGED endpoints
    <3>1. PICK s \in Slots \ enabled : enabled' = enabled \cup {s} /\ Complete(c, TRUE, s) BY <2>4
    <3>2. Ev(TRUE, s) /\ Given(TRUE, s) BY <2>2, <2>4, <3>1
    <3> HIDE DEF Ev, Failed, Given, Done1, Added
    <3> QED BY <3>1, <3>2
  <2>5. CASE w[1] = "address" /\ Complete(c, TRUE, c.slot) /\ UNCHANGED <<enabled, endpoints>>
    <3>1. Ev(TRUE, slot[d]) /\ Done1(TRUE, slot[d]) BY <2>2, <2>5, <1>9
    <3> HIDE DEF Ev, Failed, Given, Done1, Added
    <3> QED BY <2>1, <3>1
  <2>6. CASE /\ w[1] = "configure" /\ Complete(c, TRUE, c.slot)
             /\ endpoints' = [endpoints EXCEPT ![c.slot] = @ \cup {flags[c.task[1]]}]
             /\ UNCHANGED enabled
    <3>1. Ev(TRUE, slot[d]) /\ Added(TRUE, slot[d]) BY <2>2, <2>6, <1>9
    <3> HIDE DEF Ev, Failed, Given, Done1, Added
    <3> QED BY <2>1, <3>1
  <2> QED BY <2>3, <2>4, <2>5, <2>6, <1>8, <1>9 DEF Execute
<1>12. PICK ok \in BOOLEAN, s \in Slots \cup {Null} :
         Ev(ok, s) /\ (Failed(ok, s) \/ Given(ok, s) \/ Done1(ok, s) \/ Added(ok, s))
  <2> HIDE DEF Ev, Failed, Given, Done1, Added
  <2> QED BY <1>11
<1>13. /\ events' \in Seq(EventRecords) /\ Unique(events)'
       /\ Completed(d)' = {[task |-> Active(d), what |-> w, ok |-> ok, slot |-> s]}
       /\ \A e \in Devices : e # d => Completed(e)' = Completed(e)
  <2>1. Ev(ok, s) BY <1>12
  <2> HIDE DEF w
  <2> QED BY <2>1, <1>4, <1>6, <1>8, Completes
<1>14. Commanded(d)' = {} /\ \A e \in Devices : e # d => Commanded(e)' = Commanded(e)
  <2>1. \A e : OfDevice(e) = Owner(c) <=> e = d BY <1>4, Owners
  <2> QED BY <2>1, <1>2 DEF Commanded
<1>15. \A r : Returns(r)' <=> Returns(r)
  <2>1. \A r : OfSlot(r) # Owner(c) BY <1>4, Owners
  <2> QED BY <2>1, <1>2 DEF Returns
<1> HIDE DEF c, w, Ev
<1>16. /\ endpoints' \in [Slots -> SUBSET Ends] /\ \A r \in Slots : endpoints[r] \subseteq endpoints'[r]
       /\ w[1] = "configure" => w[2] \in endpoints'[slot[d]]
  <2>1. CASE Added(ok, s)
    <3>1. flags[d] = w[2] /\ flags[d] \in Ends /\ slot[d] \in Slots BY <2>1, <1>6, <1>8, <1>10
    <3> QED BY <2>1, <3>1, <1>3, ZenonT(60) DEF Types
  <2>2. CASE endpoints' = endpoints /\ w[1] # "configure" BY <2>2, <1>3 DEF Types
  <2> QED BY <1>12, <2>1, <2>2
<1>17. enabled' \subseteq Slots BY <1>3, <1>12 DEF Types
<1>18. Types' BY <1>1, <1>2, <1>3, <1>13, <1>16, <1>17 DEF Types
<1>19. Once'
  <2>1. \A i \in DOMAIN commands' : Proper(commands[i])' BY <1>2 DEF Proper
  <2>2. (run = <<>> \/ \E t \in Tasks : run = <<t>>)' BY <1>1 DEF UsbInv, Once
  <2> QED BY <2>1, <2>2, <1>2, <1>13 DEF Once
<1>20. \A e \in Devices : e # d => Same(e) BY <1>1, <1>13, <1>14, <1>16 DEF Same
<1>21. OnePlace(d)'
  <2>1. /\ Active(d)' = Active(d) /\ Next1(d)' = Next1(d) /\ Next1(d)'.what = w
        /\ Next1(d)'.to = "command"
        /\ Busy(d)' <=> Busy(d)
        /\ RunOf(d)' <=> RunOf(d)
    BY <1>1, <1>7 DEF Active, Next1, Busy, RunOf, w
  <2>2. Sends(d)' BY <2>1, <1>1, <1>6 DEF Sends
  <2>3. ok /\ w[1] = "enable" => s \in Slots BY <1>12
  <2>4. w[1] = "configure" => ok /\ slot'[d] \in Slots /\ w[2] \in endpoints'[slot'[d]]
    BY <1>1, <1>10, <1>12, <1>16
  <2>5. Completed(d)' = {[task |-> Active(d)', what |-> w, ok |-> ok, slot |-> s]} BY <2>1, <1>13
  <2>6. ring'[d] = <<>> BY <1>1, <1>6
  <2>7. Next1(d)'.to # "control" BY <2>1
  <2>8. HasAnswer(d)' BY <2>1, <2>2, <2>3, <2>4, <2>5, <2>6, <2>7, <1>14, Zenon DEF HasAnswer
  <2> QED BY <2>8, Zenon DEF OnePlace
<1>22. Stage(d)' BY <1>1, <1>4, StageKept DEF UsbInv
<1>23. \A e \in Devices : OnePlace(e)' /\ Stage(e)' BY <1>4, <1>20, <1>21, <1>22, OthersKept
<1>24. SlotsShared'
  <2>1. \A e : Alive(e)' <=> Alive(e) BY <1>1 DEF Alive
  <2>2. \A r \in Slots : ~Announces(d, r) BY <1>6 DEF Announces
  <2>3. \A e \in Devices, r \in Slots : e # d => (Announces(e, r)' <=> Announces(e, r))
    BY <1>13 DEF Announces
  <2>4. CASE ~Given(ok, s)
    <3>1. enabled' = enabled /\ ~(ok /\ w = <<"enable">>) BY <2>4, <1>8, <1>12
    <3>2. \A r \in Slots : ~Announces(d, r)' BY <3>1, <1>13 DEF Announces
    <3>3. \A e \in Devices, r \in Slots : Announces(e, r)' <=> Announces(e, r)
      BY <2>2, <2>3, <3>2
    <3> QED BY <3>1, <3>3, <2>1, <1>1, <1>3, <1>15, SlotsKept DEF Types
  <2>5. CASE Given(ok, s)
    <3>1. ok = TRUE /\ w = <<"enable">> /\ s \in Slots /\ s \notin enabled /\ enabled' = enabled \cup {s}
      BY <2>5, <1>8
    <3>2. \A r \in Slots : Announces(d, r)' <=> r = s BY <3>1, <1>13 DEF Announces
    <3>3. table[s] = Null /\ ~Returns(s) /\ \A e \in Devices : ~Announces(e, s)
      BY <3>1, <1>3 DEF SlotsShared
    <3>4. \A e \in Devices : Alive(e)' /\ slot'[e] # Null => table'[slot'[e]] = e
      BY <2>1, <1>1, <1>3 DEF SlotsShared
    <3>5. ASSUME NEW r \in Slots, table'[r] # Null PROVE Alive(table[r])' /\ slot'[table'[r]] = r
      <4>1. Alive(table[r]) /\ slot[table[r]] = r BY <3>5, <1>1, <1>3 DEF SlotsShared
      <4> QED BY <4>1, <1>1 DEF Alive
    <3>6. ASSUME NEW r \in Slots
          PROVE  r \in enabled' <=> \/ table'[r] # Null \/ Returns(r)'
                                    \/ \E e \in Devices : Announces(e, r)'
      <4>1. r \in enabled <=> \/ table[r] # Null \/ Returns(r)
                               \/ \E e \in Devices : Announces(e, r)
        BY <1>3 DEF SlotsShared
      <4>2. CASE r = s BY <4>2, <3>1, <3>2, <1>4
      <4>3. CASE r # s BY <4>1, <4>3, <2>2, <2>3, <3>1, <3>2, <1>1, <1>15
      <4> QED BY <4>2, <4>3
    <3>7. \A r \in Slots : table'[r] # Null => ~Returns(r)' BY <1>1, <1>3, <1>15 DEF SlotsShared
    <3>8. ASSUME NEW e \in Devices, NEW r \in Slots, Announces(e, r)'
          PROVE  /\ table'[r] = Null /\ ~Returns(r)'
                 /\ \A f \in Devices : Announces(f, r)' => f = e
      <4>1. CASE e = d
        <5>1. r = s BY <4>1, <3>2, <3>8
        <5> QED BY <4>1, <5>1, <2>3, <3>3, <1>1, <1>15
      <4>2. CASE e # d
        <5>1. Announces(e, r) /\ r # s BY <4>2, <3>8, <2>3, <3>3
        <5>2. table[r] = Null /\ ~Returns(r) /\ \A f \in Devices : Announces(f, r) => f = e
          BY <5>1, <1>3 DEF SlotsShared
        <5> QED BY <5>1, <5>2, <2>3, <3>2, <1>1, <1>15
      <4> QED BY <4>1, <4>2
    <3> QED BY <3>4, <3>5, <3>6, <3>7, <3>8, Zenon DEF SlotsShared
  <2> QED BY <2>4, <2>5
<1>25. DriversServed'
  <2>1. ASSUME NEW e \in Devices, state[e] = "used"
        PROVE  state'[e] = "used" /\ slot'[e] = slot[e] /\ endpoints[slot[e]] \subseteq endpoints'[slot[e]]
    <3>1. slot[e] \in Slots BY <2>1 DEF UsbInv, Stage
    <3> QED BY <3>1, <2>1, <1>1, <1>16
  <2> QED BY <2>1, <1>1, DriversKept DEF UsbInv
<1> QED BY <1>18, <1>19, <1>23, <1>24, <1>25 DEF UsbInv

LEMMA Asked ==
  ASSUME UsbInv, NEW d \in Devices, ring[d] # <<>>
  PROVE  LET w == Next1(d).what IN
         /\ HasAsked(d) /\ Sends(d) /\ Busy(d) /\ ~RunOf(d) /\ Commanded(d) = {} /\ Completed(d) = {}
         /\ Head(ring[d]).task = Active(d) /\ Head(ring[d]).what = w /\ Tail(ring[d]) = <<>>
         /\ Next1(d).to = "control" /\ w \in Whats /\ w[1] \notin {"enable", "address", "configure"}
         /\ w[1] = "set configuration" <=> w = <<"set configuration">>
<1> DEFINE w == Next1(d).what
<1>1. HasAsked(d) BY DEF UsbInv, OnePlace, Nothing, Runs, HasSent, HasAnswer
<1>2. Sends(d) /\ Busy(d) /\ ~RunOf(d) /\ Commanded(d) = {} /\ Completed(d) = {} /\ todo[Active(d)] # <<>>
      /\ Next1(d).to = "control"
  BY <1>1 DEF HasAsked, Sends
<1>3. Next1(d) \in Steps BY <1>2, NextTyped DEF UsbInv
<1>4. /\ w \in Whats /\ w[1] \notin {"enable", "address", "configure"}
      /\ w[1] = "set configuration" <=> w = <<"set configuration">>
  BY <1>2, <1>3, StepKinds
<1>5. ring[d] = <<[task |-> Active(d), what |-> w]>> BY <1>1 DEF HasAsked
<1> HIDE DEF w
<1>6. Head(ring[d]).task = Active(d) /\ Head(ring[d]).what = w /\ Tail(ring[d]) = <<>>
  <2> DEFINE x == [task |-> Active(d), what |-> w]
  <2>1. x.task = Active(d) /\ x.what = w OBVIOUS
  <2>2. ring[d] = <<x>> BY <1>5
  <2> HIDE DEF x
  <2> QED BY <2>1, <2>2
<1> QED BY <1>1, <1>2, <1>4, <1>6 DEF w

LEMMA AnswerKeeps ==
  ASSUME UsbInv, NEW d \in Devices, Answer(d)
  PROVE  UsbInv'
<1> DEFINE w == Next1(d).what
<1>1. /\ ring[d] # <<>> /\ ring' = [ring EXCEPT ![d] = Tail(@)]
      /\ Complete(Head(ring[d]), TRUE, slot[d])
      /\ buffer' = IF Length(Head(ring[d]).what) = 3
                    THEN [buffer EXCEPT ![d] = Head(ring[d]).what] ELSE buffer
      /\ UNCHANGED <<state, slot, table, used, flags, todo, run, commands, halted, enabled,
                     endpoints, given>>
  BY DEF Answer, device
<1>2. /\ HasAsked(d) /\ Sends(d) /\ Busy(d) /\ ~RunOf(d) /\ Commanded(d) = {} /\ Completed(d) = {}
      /\ Head(ring[d]).task = Active(d) /\ Head(ring[d]).what = w /\ Tail(ring[d]) = <<>>
      /\ Next1(d).to = "control" /\ w \in Whats /\ w[1] \notin {"enable", "address", "configure"}
      /\ w[1] = "set configuration" <=> w = <<"set configuration">>
  BY <1>1, Asked
<1>3. Types /\ slot[d] \in Slots \cup {Null} BY DEF UsbInv, Types
<1>4. events' = Append(events, [task |-> Active(d), what |-> w, ok |-> TRUE, slot |-> slot[d]])
  BY <1>1, <1>2 DEF Complete
<1>5. /\ events' \in Seq(EventRecords) /\ Unique(events)'
      /\ Completed(d)' = {[task |-> Active(d), what |-> w, ok |-> TRUE, slot |-> slot[d]]}
      /\ \A e \in Devices : e # d => Completed(e)' = Completed(e)
  <2> HIDE DEF w
  <2>1. TRUE \in BOOLEAN OBVIOUS
  <2> QED BY <2>1, <1>2, <1>3, <1>4, Completes
<1>6. ring'[d] = <<>> /\ ring' \in [Devices -> Seq(RequestRecords)]
      /\ \A e \in Devices : e # d => ring'[e] = ring[e]
  BY <1>1, <1>2, <1>3, EmptySeq, ZenonT(60) DEF Types
<1>7. /\ w # <<"set configuration">> => buffer'[d] = w
      /\ buffer' \in [Devices -> Whats \cup {Null}]
      /\ \A e \in Devices : e # d => buffer'[e] = buffer[e]
  <2>1. w # <<"set configuration">> => Length(w) = 3 BY <1>2 DEF Length
  <2>2. buffer' = IF Length(w) = 3 THEN [buffer EXCEPT ![d] = w] ELSE buffer BY <1>1, <1>2
  <2>3. buffer \in [Devices -> Whats \cup {Null}] BY <1>3 DEF Types
  <2> HIDE DEF w
  <2> QED BY <2>1, <2>2, <2>3, <1>2
<1>8. Types' BY <1>1, <1>3, <1>5, <1>6, <1>7 DEF Types
<1>9. Once'
  <2>1. Unique(commands)' BY <1>1 DEF UsbInv, Once, Unique
  <2> QED BY <2>1, <1>1, <1>5 DEF UsbInv, Once, Proper
<1>10. \A e : Commanded(e)' = Commanded(e) BY <1>1 DEF Commanded, Of
<1>11. \A e \in Devices : e # d => Same(e) BY <1>1, <1>5, <1>6, <1>7, <1>10 DEF Same
<1>12. OnePlace(d)'
  <2>1. /\ Active(d)' = Active(d) /\ Next1(d)' = Next1(d)
        /\ Busy(d)' <=> Busy(d)
        /\ RunOf(d)' <=> RunOf(d)
    BY <1>1 DEF Active, Next1, Busy, RunOf
  <2>2. Sends(d)' BY <2>1, <1>1, <1>2 DEF Sends
  <2>3. Completed(d)' = {[task |-> Active(d)', what |-> w, ok |-> TRUE, slot |-> slot[d]]}
        /\ Next1(d)'.what = w
    BY <2>1, <1>5
  <2> HIDE DEF w
  <2>4. w[1] # "enable" /\ w[1] # "configure" BY <1>2
  <2>5. Commanded(d)' = {} BY <1>2, <1>10
  <2>6. HasAnswer(d)'
    <3> SUFFICES \E ok \in BOOLEAN, s \in Slots \cup {Null} :
           /\ Completed(d)' = {[task |-> Active(d)', what |-> w, ok |-> ok, slot |-> s]}
           /\ ok /\ w[1] = "enable" => s \in Slots
           /\ w[1] = "configure" => ok /\ slot'[d] \in Slots /\ w[2] \in endpoints'[slot'[d]]
           /\ ok /\ Next1(d)'.to = "control" /\ w # <<"set configuration">> => buffer'[d] = w
      BY <2>2, <2>3, <2>5, <1>6, Zenon DEF HasAnswer
    <3>1. TRUE \in BOOLEAN OBVIOUS
    <3> QED BY <3>1, <2>3, <2>4, <1>3, <1>7, Zenon
  <2> QED BY <2>6, Zenon DEF OnePlace
<1>13. Stage(d)' BY <1>1, StageKept DEF UsbInv
<1>14. \A e \in Devices : OnePlace(e)' /\ Stage(e)' BY <1>11, <1>12, <1>13, OthersKept
<1>15. SlotsShared'
  <2>1. \A s \in Slots : ~Announces(d, s)' /\ ~Announces(d, s)
    <3> HIDE DEF w
    <3>1. w # <<"enable">> BY <1>2, SingleHead, Zenon
    <3>2. \A e \in Completed(d)' : e.what # <<"enable">>
      <4> DEFINE x == [task |-> Active(d), what |-> w, ok |-> TRUE, slot |-> slot[d]]
      <4>1. x.what = w OBVIOUS
      <4>2. Completed(d)' = {x} BY <1>5
      <4> HIDE DEF x
      <4> QED BY <3>1, <4>1, <4>2, Zenon
    <3>3. Completed(d) = {} BY <1>2
    <3> QED BY <3>2, <3>3 DEF Announces
  <2>2. \A e \in Devices, s \in Slots : Announces(e, s)' <=> Announces(e, s)
    <3>1. \A e \in Devices, s \in Slots : e # d => (Announces(e, s)' <=> Announces(e, s))
      BY <1>5 DEF Announces
    <3> QED BY <2>1, <3>1
  <2>3. \A s \in Slots : Returns(s)' <=> Returns(s) BY <1>1 DEF Returns, Of
  <2>4. \A e \in Devices : Alive(e)' <=> Alive(e) BY <1>1 DEF Alive
  <2> QED BY <2>2, <2>3, <2>4, <1>1, SlotsKept DEF UsbInv, Types
<1>16. DriversServed' BY <1>1, DriversKept DEF UsbInv
<1> QED BY <1>8, <1>9, <1>14, <1>15, <1>16 DEF UsbInv

LEMMA RefuseKeeps ==
  ASSUME UsbInv, NEW d \in Devices, Refuse(d)
  PROVE  UsbInv'
<1> DEFINE w == Next1(d).what
<1>1. /\ ring[d] # <<>> /\ ring' = [ring EXCEPT ![d] = Tail(@)] /\ halted' = halted \cup {d}
      /\ Complete(Head(ring[d]), FALSE, slot[d]) \/ events' = events
      /\ UNCHANGED <<state, slot, table, used, flags, todo, run, commands, buffer, enabled,
                     endpoints, given>>
  BY DEF Refuse, device
<1>2. /\ HasAsked(d) /\ Sends(d) /\ Busy(d) /\ ~RunOf(d) /\ Commanded(d) = {} /\ Completed(d) = {}
      /\ Head(ring[d]).task = Active(d) /\ Head(ring[d]).what = w /\ Tail(ring[d]) = <<>>
      /\ Next1(d).to = "control" /\ w \in Whats /\ w[1] \notin {"enable", "address", "configure"}
  BY <1>1, Asked
<1>3. Types /\ slot[d] \in Slots \cup {Null} BY DEF UsbInv, Types
<1>4. /\ events' \in Seq(EventRecords) /\ Unique(events)'
      /\ \/ Completed(d)' = {[task |-> Active(d), what |-> w, ok |-> FALSE, slot |-> slot[d]]}
         \/ Completed(d)' = {}
      /\ \A e \in Devices : e # d => Completed(e)' = Completed(e)
  <2>1. CASE Complete(Head(ring[d]), FALSE, slot[d])
    <3>1. events' = Append(events, [task |-> Active(d), what |-> w, ok |-> FALSE, slot |-> slot[d]])
      BY <2>1, <1>2 DEF Complete
    <3> HIDE DEF w
    <3>2. FALSE \in BOOLEAN OBVIOUS
    <3> QED BY <3>1, <3>2, <1>2, <1>3, Completes
  <2>2. CASE events' = events
    <3>1. \A e : Completed(e)' = Completed(e) BY <2>2 DEF Completed, Of
    <3>2. Unique(events)' /\ events' \in Seq(EventRecords)
      BY <2>2 DEF Unique, UsbInv, Once, Types
    <3> QED BY <3>1, <3>2, <1>2
  <2> QED BY <2>1, <2>2, <1>1
<1>5. ring'[d] = <<>> /\ ring' \in [Devices -> Seq(RequestRecords)]
      /\ \A e \in Devices : e # d => ring'[e] = ring[e]
  BY <1>1, <1>2, <1>3, EmptySeq DEF Types
<1>6. Types' BY <1>1, <1>3, <1>4, <1>5 DEF Types
<1>7. Once'
  <2>1. Unique(commands)' BY <1>1 DEF UsbInv, Once, Unique
  <2> QED BY <2>1, <1>1, <1>4 DEF UsbInv, Once, Proper
<1>8. \A e : Commanded(e)' = Commanded(e) BY <1>1 DEF Commanded, Of
<1>9. \A e \in Devices : e # d => Same(e) BY <1>1, <1>4, <1>5, <1>8 DEF Same
<1>10. OnePlace(d)'
  <2>1. /\ Active(d)' = Active(d) /\ Next1(d)' = Next1(d)
        /\ Busy(d)' <=> Busy(d)
        /\ RunOf(d)' <=> RunOf(d)
    BY <1>1 DEF Active, Next1, Busy, RunOf
  <2>2. Sends(d)' /\ Commanded(d)' = {} BY <2>1, <1>1, <1>2, <1>8 DEF Sends
  <2>3. Next1(d)'.what = w BY <2>1
  <2> HIDE DEF w
  <2>4. CASE Completed(d)' = {}
    <3>1. Nothing(d)' BY <2>1, <2>2, <2>4, <1>2, <1>5 DEF Nothing
    <3> QED BY <3>1, Zenon DEF OnePlace
  <2>5. CASE Completed(d)' = {[task |-> Active(d), what |-> w, ok |-> FALSE, slot |-> slot[d]]}
    <3>1. w[1] # "enable" /\ w[1] # "configure" BY <1>2
    <3>2. HasAnswer(d)'
      <4> SUFFICES \E ok \in BOOLEAN, s \in Slots \cup {Null} :
             /\ Completed(d)' = {[task |-> Active(d)', what |-> w, ok |-> ok, slot |-> s]}
             /\ ok /\ w[1] = "enable" => s \in Slots
             /\ w[1] = "configure" => ok /\ slot'[d] \in Slots /\ w[2] \in endpoints'[slot'[d]]
             /\ ok /\ Next1(d)'.to = "control" /\ w # <<"set configuration">> => buffer'[d] = w
        BY <2>2, <2>3, <1>5, Zenon DEF HasAnswer
      <4>1. FALSE \in BOOLEAN OBVIOUS
      <4>2. Completed(d)' = {[task |-> Active(d)', what |-> w, ok |-> FALSE, slot |-> slot[d]]}
        BY <2>1, <2>5
      <4> QED BY <4>1, <4>2, <3>1, <1>3, Zenon
    <3> QED BY <3>2, Zenon DEF OnePlace
  <2> QED BY <2>4, <2>5, <1>4
<1>11. Stage(d)' BY <1>1, StageKept DEF UsbInv
<1>12. \A e \in Devices : OnePlace(e)' /\ Stage(e)' BY <1>9, <1>10, <1>11, OthersKept
<1>13. SlotsShared'
  <2>1. \A s \in Slots : ~Announces(d, s)' /\ ~Announces(d, s)
    <3> HIDE DEF w
    <3> QED BY <1>2, <1>4 DEF Announces
  <2>2. \A e \in Devices, s \in Slots : Announces(e, s)' <=> Announces(e, s)
    <3>1. \A e \in Devices, s \in Slots : e # d => (Announces(e, s)' <=> Announces(e, s))
      BY <1>4 DEF Announces
    <3> QED BY <2>1, <3>1
  <2>3. \A s \in Slots : Returns(s)' <=> Returns(s) BY <1>1 DEF Returns, Of
  <2>4. \A e \in Devices : Alive(e)' <=> Alive(e) BY <1>1 DEF Alive
  <2> QED BY <2>2, <2>3, <2>4, <1>1, SlotsKept DEF UsbInv, Types
<1>14. DriversServed' BY <1>1, DriversKept DEF UsbInv
<1> QED BY <1>6, <1>7, <1>12, <1>13, <1>14 DEF UsbInv

-----------------------------------------------------------------------------
(* The invariant holds, and what it means for the properties.              *)

LEMMA InitUsbInv == Init => UsbInv
<1> SUFFICES ASSUME Init PROVE UsbInv OBVIOUS
<1>1. Types BY EmptySeq DEF Init, Types
<1>2. \A k : Of(<<>>, k) = {} BY DEF Of
<1>3. Once BY DEF Init, Once, Unique
<1>4. ASSUME NEW d \in Devices PROVE OnePlace(d) /\ Stage(d)
  <2>1. Nothing(d) BY <1>2 DEF Init, Nothing, RunOf, Commanded, Completed
  <2>2. todo[<<d, Start>>] = <<>> /\ todo[<<d, 1>>] = <<>> /\ todo[<<d, 2>>] = <<>>
    BY TaskParts DEF Init
  <2>3. used[d] = 0 /\ slot[d] = Null /\ state[d] = "unborn" /\ 0 <= RingBlocks
    BY DescriptorsAssumption DEF Init
  <2> QED BY <2>1, <2>2, <2>3 DEF OnePlace, Stage
<1>5. SlotsShared
  <2>1. \A d, s : ~Announces(d, s) BY <1>2 DEF Init, Announces, Completed
  <2>2. \A s : ~Returns(s) BY <1>2 DEF Init, Returns
  <2>3. (\A d \in Devices : slot[d] = Null) /\ (\A s \in Slots : table[s] = Null) /\ enabled = {}
    BY DEF Init
  <2> QED BY <2>1, <2>2, <2>3 DEF SlotsShared
<1>6. DriversServed BY DEF Init, DriversServed
<1> QED BY <1>1, <1>3, <1>4, <1>5, <1>6 DEF UsbInv

LEMMA NextUsbInv == UsbInv /\ [Next]_vars => UsbInv'
<1> SUFFICES ASSUME UsbInv, [Next]_vars PROVE UsbInv' OBVIOUS
<1>1. ASSUME NEW d \in Devices, PortChange(d) PROVE UsbInv' BY <1>1, PortChangeKeeps
<1>2. ASSUME NEW d \in Devices, Enabled(d) PROVE UsbInv' BY <1>2, EnabledKeeps
<1>3. ASSUME NEW d \in Devices, NotEnabled(d) PROVE UsbInv' BY <1>3, NotEnabledKeeps
<1>4. ASSUME NEW d \in Devices, GoOn(d) PROVE UsbInv' BY <1>4, GoOnKeeps
<1>5. ASSUME NEW d \in Devices, GiveUp(d) PROVE UsbInv' BY <1>5, GiveUpKeeps
<1>6. ASSUME NEW d \in Devices, Register(d) PROVE UsbInv' BY <1>6, RegisterKeeps
<1>7. ASSUME NEW d \in Devices, Configured(d) PROVE UsbInv' BY <1>7, ConfiguredKeeps
<1>8. ASSUME NEW t \in Tasks, SendCommand(t) PROVE UsbInv' BY <1>8, SendCommandKeeps
<1>9. ASSUME NEW t \in Tasks, SendRequest(t) PROVE UsbInv' BY <1>9, SendRequestKeeps
<1>10. ASSUME NEW t \in Tasks, Rest(t) PROVE UsbInv' BY <1>10, RestKeeps
<1>11. ASSUME NEW t \in Tasks, DriverGoesOn(t[1], t[2]) PROVE UsbInv'
  <2>1. t[1] \in Devices /\ t[2] \in 0 .. 2 BY DEF Tasks
  <2> QED BY <2>1, <1>11, DriverGoesOnKeeps
<1>12. ASSUME Execute PROVE UsbInv'
  <2>1. CASE Head(commands).task = Null BY <2>1, <1>12, DisableKeeps
  <2>2. CASE Head(commands).task # Null
    <3>1. Head(commands).task[1] \in Devices
      <4>1. Head(commands) \in CommandRecords BY <1>12, Fetched DEF Execute
      <4>2. Head(commands).task \in Tasks BY <2>2, <4>1 DEF CommandRecords
      <4> QED BY <4>2 DEF Tasks
    <3>2. PICK d \in Devices : Head(commands).task[1] = d BY <3>1
    <3> QED BY <2>2, <3>2, <1>12, ExecuteKeeps
  <2> QED BY <2>1, <2>2
<1>13. ASSUME NEW d \in Devices, Answer(d) PROVE UsbInv' BY <1>13, AnswerKeeps
<1>14. ASSUME NEW d \in Devices, Refuse(d) PROVE UsbInv' BY <1>14, RefuseKeeps
<1>15. ASSUME UNCHANGED vars PROVE UsbInv'
  <2>1. UNCHANGED <<state, slot, table, used, flags, todo, run, commands, ring, halted, buffer,
                    enabled, endpoints, events, given>>
    BY <1>15 DEF vars, device, controller
  <2>2. Types' BY <2>1 DEF UsbInv, Types
  <2>3. Once' BY <2>1 DEF UsbInv, Once, Unique, Proper
  <2>4. \A e : Commanded(e)' = Commanded(e) /\ Completed(e)' = Completed(e)
    BY <2>1 DEF Commanded, Completed, Of
  <2>5. \A e \in Devices : Same(e) BY <2>1, <2>4 DEF Same
  <2>6. \A e \in Devices : OnePlace(e)' /\ Stage(e)' BY <2>5, SameKept DEF UsbInv
  <2>7. SlotsShared'
    <3>1. \A e \in Devices, s \in Slots : Announces(e, s)' <=> Announces(e, s) BY <2>4 DEF Announces
    <3>2. \A s \in Slots : Returns(s)' <=> Returns(s) BY <2>1 DEF Returns, Of
    <3>3. \A e \in Devices : Alive(e)' <=> Alive(e) BY <2>1 DEF Alive
    <3> QED BY <3>1, <3>2, <3>3, <2>1, SlotsKept DEF UsbInv, Types
  <2>8. DriversServed' BY <2>1, DriversKept DEF UsbInv
  <2> QED BY <2>2, <2>3, <2>6, <2>7, <2>8 DEF UsbInv
<1> QED BY <1>1, <1>2, <1>3, <1>4, <1>5, <1>6, <1>7, <1>8, <1>9, <1>10, <1>11, <1>12, <1>13,
           <1>14, <1>15 DEF Next, Handler

LEMMA UsbInvariant == Spec => []UsbInv
<1> QED BY InitUsbInv, NextUsbInv, PTL DEF Spec

\* A completion is the answer its device waits for.
LEMMA AnswerFound ==
  ASSUME UsbInv, NEW i \in DOMAIN events
  PROVE  LET d == events[i].task[1]  w == events[i].what IN
         /\ d \in Devices /\ HasAnswer(d) /\ Busy(d) /\ Next1(d) \in Steps
         /\ w = Next1(d).what /\ events[i] \in Completed(d)
         /\ events[i].ok /\ w[1] = "enable" => events[i].slot \in Slots
         /\ events[i].ok /\ Next1(d).to = "control" /\ w # <<"set configuration">> => buffer[d] = w
<1> DEFINE e == events[i]
           d == e.task[1]
<1>1. e \in EventRecords
  <2>1. events \in Seq(EventRecords) BY DEF UsbInv, Types
  <2> QED BY <2>1, ElementOfSeq, LenProperties
<1>2. d \in Devices /\ e.task # Null
  <2>1. e.task \in Tasks BY <1>1 DEF EventRecords
  <2> QED BY <2>1, DescriptorsAssumption DEF Tasks
<1>3. e \in Completed(d)
  <2>1. Owner(e) = OfDevice(d) BY <1>2 DEF Owner
  <2> QED BY <2>1 DEF Completed, Of
<1>4. HasAnswer(d)
  <2>1. OnePlace(d) BY <1>2 DEF UsbInv
  <2> QED BY <2>1, <1>3 DEF OnePlace, Nothing, Runs, HasSent, HasAsked
<1>5. Busy(d) /\ todo[Active(d)] # <<>> BY <1>4 DEF HasAnswer, Sends
<1>6. Next1(d) \in Steps BY <1>2, <1>5, NextTyped DEF UsbInv
<1> DEFINE w == Next1(d).what
<1> HIDE DEF e, d
<1>7. PICK ok \in BOOLEAN, s \in Slots \cup {Null} :
        /\ Completed(d) = {[task |-> Active(d), what |-> w, ok |-> ok, slot |-> s]}
        /\ ok /\ w[1] = "enable" => s \in Slots
        /\ ok /\ Next1(d).to = "control" /\ w # <<"set configuration">> => buffer[d] = w
  BY <1>4, Zenon DEF HasAnswer
<1> HIDE DEF w
<1>8. e = [task |-> Active(d), what |-> w, ok |-> ok, slot |-> s] BY <1>3, <1>7
<1>9. e.what = w /\ e.ok = ok /\ e.slot = s BY <1>8
<1> QED BY <1>2, <1>3, <1>4, <1>5, <1>6, <1>7, <1>9 DEF e, d, w

\* Every part of a device's state has its type; a control ring never takes
\* more blocks than it has.
THEOREM UsbTypeOK == Spec => []TypeOK
<1>1. ASSUME UsbInv PROVE TypeOK
  <2>1. Types BY <1>1 DEF UsbInv
  <2>2. \A d \in Devices : used[d] \in 0 .. RingBlocks
    <3>1. \A d \in Devices : used[d] \in Nat /\ used[d] <= RingBlocks
      BY <1>1, <2>1 DEF UsbInv, Stage, Types
    <3> QED BY <3>1, DescriptorsAssumption
  <2>3. used \in [Devices -> 0 .. RingBlocks] BY <2>1, <2>2 DEF Types
  <2>4. \A i \in DOMAIN run : run[i] \in Tasks
    <3>1. CASE run = <<>> BY <3>1
    <3>2. CASE \E t \in Tasks : run = <<t>> BY <3>2
    <3> QED BY <1>1, <3>1, <3>2 DEF UsbInv, Once
  <2>5. \A i \in DOMAIN events : events[i].task \in Tasks /\ events[i].ok \in BOOLEAN
    <3>1. \A i \in DOMAIN events : events[i] \in EventRecords
      BY <2>1, ElementOfSeq, LenProperties DEF Types
    <3> QED BY <3>1 DEF EventRecords
  <2> QED BY <2>1, <2>3, <2>4, <2>5 DEF TypeOK, Types
<1> QED BY <1>1, UsbInvariant, PTL

\* Until the coroutine that asked is resumed, the device's buffer holds the
\* answer to its request.
THEOREM UsbOwnAnswers == Spec => []OwnAnswers
<1>1. ASSUME UsbInv PROVE OwnAnswers
  <2> SUFFICES ASSUME NEW i \in DOMAIN events, events[i].ok, events[i].what # <<"set configuration">>,
                      events[i].what[1] \notin {"enable", "address", "configure"}
               PROVE  buffer[events[i].task[1]] = events[i].what
    BY DEF OwnAnswers
  <2> DEFINE d == events[i].task[1]
             w == events[i].what
  <2>1. /\ d \in Devices /\ Next1(d) \in Steps /\ w = Next1(d).what
        /\ events[i].ok /\ Next1(d).to = "control" /\ w # <<"set configuration">> => buffer[d] = w
    BY <1>1, AnswerFound
  <2>2. Next1(d).to = "control" BY <2>1, StepKinds
  <2> QED BY <2>1, <2>2
<1> QED BY <1>1, UsbInvariant, PTL

\* A driver has only endpoints that the controller has configured for it.
THEOREM UsbEndpointsConfigured == Spec => []EndpointsConfigured
<1>1. ASSUME UsbInv PROVE EndpointsConfigured
  BY <1>1 DEF UsbInv, DriversServed, EndpointsConfigured
<1> QED BY <1>1, UsbInvariant, PTL

\* Every slot the controller has enabled has an owner, is announced to one or
\* is being given back, and nothing comes for a device that was deleted.
THEOREM UsbSlotsOwned == Spec => []SlotsOwned
<1>1. ASSUME UsbInv PROVE SlotsOwned
  <2>1. SlotsShared /\ Types /\ Once BY <1>1 DEF UsbInv
  <2>2. \A s : s \in Announced <=> \E d \in Devices : s \in Slots /\ Announces(d, s)
    <3> TAKE s
    <3>1. ASSUME s \in Announced PROVE \E d \in Devices : s \in Slots /\ Announces(d, s)
      <4>1. PICK i \in DOMAIN events : events[i].ok /\ events[i].what = <<"enable">> /\ events[i].slot = s
        BY <3>1 DEF Announced
      <4>2. /\ events[i].task[1] \in Devices /\ events[i] \in Completed(events[i].task[1])
            /\ events[i].ok /\ events[i].what[1] = "enable" => events[i].slot \in Slots
        BY <1>1, AnswerFound
      <4>3. events[i].what[1] = "enable" BY <4>1, SingleHead, Zenon
      <4> QED BY <4>1, <4>2, <4>3 DEF Announces
    <3>2. ASSUME NEW d \in Devices, Announces(d, s) PROVE s \in Announced
      <4>1. PICK e \in Completed(d) : e.ok /\ e.what = <<"enable">> /\ e.slot = s BY <3>2 DEF Announces
      <4>2. PICK i \in DOMAIN events : e = events[i] BY DEF Completed, Of
      <4> QED BY <4>1, <4>2 DEF Announced
    <3> QED BY <3>1, <3>2
  <2>3. \A i \in DOMAIN commands : commands[i] \in CommandRecords /\ Proper(commands[i])
    BY <2>1, ElementOfSeq, LenProperties DEF Types, Once
  <2>4. \A i \in DOMAIN commands : commands[i].task = Null <=> commands[i].what = <<"disable">>
    <3>1. <<"disable">> \notin Whats
      <4>1. \A x \in Steps : x.what # <<"disable">> BY StepKinds
      <4> QED BY <4>1 DEF Whats
    <3> QED BY <2>3, <3>1 DEF Proper
  <2>5. \A s : s \in GivenBack <=> s \in Slots /\ Returns(s)
    <3> TAKE s
    <3>1. ASSUME s \in GivenBack PROVE s \in Slots /\ Returns(s)
      <4>1. PICK i \in DOMAIN commands : commands[i].what = <<"disable">> /\ commands[i].slot = s
        BY <3>1 DEF GivenBack
      <4>2. commands[i].task = Null BY <4>1, <2>4
      <4>3. s \in Slots /\ Owner(commands[i]) = OfSlot(s) BY <4>1, <4>2, <2>3 DEF Proper, Owner
      <4> QED BY <4>3 DEF Returns, Of
    <3>2. ASSUME s \in Slots, Returns(s) PROVE s \in GivenBack
      <4>1. PICK i \in DOMAIN commands : Owner(commands[i]) = OfSlot(s) BY <3>2 DEF Returns, Of
      <4>2. commands[i].task = Null BY <4>1, Owners DEF Owner
      <4>3. commands[i].slot = s BY <4>1, <4>2, Owners DEF Owner
      <4> QED BY <4>2, <4>3, <2>4 DEF GivenBack
    <3> QED BY <3>1, <3>2
  <2>6. enabled = {s \in Slots : table[s] # Null} \cup Announced \cup GivenBack
    <3>1. \A s \in Slots : s \in enabled <=> \/ table[s] # Null \/ Returns(s)
                                              \/ \E d \in Devices : Announces(d, s)
      BY <2>1 DEF SlotsShared
    <3>2. enabled \subseteq Slots BY <2>1 DEF Types
    <3> QED BY <3>1, <3>2, <2>2, <2>5
  <2>7. ASSUME NEW d \in Devices, ~Alive(d)
        PROVE  /\ ring[d] = <<>> /\ \A i \in DOMAIN events : events[i].task[1] # d
               /\ \A i \in DOMAIN commands : commands[i].task = Null \/ commands[i].task[1] # d
    <3>1. ~Busy(d) BY <2>7 DEF Busy, Alive
    <3>2. Nothing(d)
      <4>1. OnePlace(d) BY <1>1 DEF UsbInv
      <4> QED BY <3>1, <4>1 DEF OnePlace, Runs, HasSent, HasAsked, HasAnswer, Sends
    <3>3. ASSUME NEW i \in DOMAIN events PROVE events[i].task[1] # d
      <4>1. Busy(events[i].task[1]) BY <1>1, AnswerFound
      <4> QED BY <3>1, <4>1
    <3>4. ASSUME NEW i \in DOMAIN commands, commands[i].task # Null PROVE commands[i].task[1] # d
      <4>1. Owner(commands[i]) = OfDevice(commands[i].task[1]) BY <3>4 DEF Owner
      <4>2. commands[i].task[1] = d => commands[i] \in Commanded(d) BY <4>1 DEF Commanded, Of
      <4> QED BY <3>2, <4>2 DEF Nothing
    <3> QED BY <3>2, <3>3, <3>4 DEF Nothing
  <2>8. \A s \in Slots : table[s] # Null => Alive(table[s]) /\ slot[table[s]] = s
    BY <2>1 DEF SlotsShared
  <2> QED BY <2>6, <2>7, <2>8 DEF SlotsOwned
<1> QED BY <1>1, UsbInvariant, PTL
=============================================================================
