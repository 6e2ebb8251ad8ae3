------------------------------ MODULE TimerProofs ------------------------------
(***************************************************************************)
(* What timer_check owes the coroutines that wait, for any table, clients  *)
(* and delays that meet the assumptions of Timer.                          *)
(*                                                                         *)
(* The types hold always.  That only suspended coroutines are resumed, and *)
(* that they are in time, holds if the table has one entry, or there is    *)
(* one client (OneUser), as in the kernel of today: with two of both, a    *)
(* coroutine loses its wake-up (WaitsAreArmed, which TLC refutes).         *)
(*                                                                         *)
(* The strengthening is a rule for each kind of frame, about the frame     *)
(* under it and the clock, and what the only entry is while it is unused,  *)
(* being armed and waited for.                                             *)
(***************************************************************************)
EXTENDS Timer, TLAPS, SequenceTheorems

OneUser == NEntries = 1 \/ \A c, d \in Clients : c = d

Frames ==
  [kind : {"check", "client", "wait"}, who : Clients \cup {Nobody},
   irq : BOOLEAN, at : Nat \ {0}, time : Nat, first : Nat]

\* A utc time point is never before the offset that was added to it.
Entries ==
  {e \in [p : Clients \cup {Nobody}, expire : Nat, utc : BOOLEAN] :
     e.utc => e.expire >= UtcOffset}

TypeInv ==
  /\ now \in Nat /\ comparator \in Nat /\ lag \in 0 .. Slack
  /\ pending \in BOOLEAN /\ broken \in BOOLEAN
  /\ entries \in [1 .. NEntries -> Entries]
  /\ stack \in Seq(Frames)
  /\ state \in [Clients -> {"ready", "running", "waiting"}]
  /\ deadline \in [Clients -> Nat]

-----------------------------------------------------------------------------
(* What an action does to the stack, call by call.                         *)

LEMMA Dropped ==
  ASSUME NEW S, NEW s \in Seq(S), NEW k \in Nat
  PROVE  LET t == SubSeq(s, 1, Len(s) - k) IN
         /\ t \in Seq(S)
         /\ Len(t) = IF k <= Len(s) THEN Len(s) - k ELSE 0
         /\ \A i \in 1 .. Len(t) : t[i] = s[i]
<1>1. \A i \in 1 .. Len(s) : s[i] \in S BY ElementOfSeq
<1>2. \A i \in 1 .. Len(s) - k : s[i] \in S BY <1>1, LenProperties
<1> DEFINE t == SubSeq(s, 1, Len(s) - k)
<1>3. /\ t \in Seq(S)
      /\ Len(t) = IF 1 <= Len(s) - k THEN Len(s) - k - 1 + 1 ELSE 0
      /\ \A i \in 1 .. Len(s) - k - 1 + 1 : t[i] = s[1 + i - 1]
  BY <1>2, SubSeqProperties, LenProperties
<1> HIDE DEF t
<1>4. Len(s) \in Nat BY LenProperties
<1>5. Len(t) = IF k <= Len(s) THEN Len(s) - k ELSE 0 BY <1>3, <1>4
<1>6. \A i \in 1 .. Len(t) : t[i] = s[i]
  <2> TAKE i \in 1 .. Len(t)
  <2>1. i \in 1 .. Len(s) - k - 1 + 1 /\ 1 + i - 1 = i BY <1>3, <1>4
  <2> QED BY <2>1, <1>3
<1> QED BY <1>3, <1>5, <1>6 DEF t

LEMMA Replaced ==
  ASSUME NEW S, NEW s \in Seq(S), s # <<>>, NEW f \in S
  PROVE  LET t == Append(SubSeq(s, 1, Len(s) - 1), f) IN
         /\ t \in Seq(S)
         /\ Len(t) = Len(s) /\ Len(s) \in Nat /\ Len(s) >= 1
         /\ t[Len(s)] = f
         /\ \A i \in 1 .. Len(s) - 1 : t[i] = s[i]
<1> DEFINE u == SubSeq(s, 1, Len(s) - 1)
<1>1. Len(s) \in Nat \ {0} BY EmptySeq, LenProperties
<1>2. /\ u \in Seq(S) /\ Len(u) = Len(s) - 1
      /\ \A i \in 1 .. Len(s) - 1 : u[i] = s[i]
  <2>0. 1 \in Nat OBVIOUS
  <2>1. /\ u \in Seq(S) /\ Len(u) = IF 1 <= Len(s) THEN Len(s) - 1 ELSE 0
        /\ \A i \in 1 .. Len(u) : u[i] = s[i]
    BY <2>0, Dropped, Zenon
  <2> HIDE DEF u
  <2> QED BY <1>1, <2>1
<1> HIDE DEF u
<1> DEFINE t == Append(u, f)
<1>3. /\ t \in Seq(S) /\ Len(t) = Len(u) + 1 /\ t[Len(u) + 1] = f
      /\ \A i \in 1 .. Len(u) : t[i] = u[i]
  BY <1>2, AppendProperties
<1> HIDE DEF t
<1>4. Len(u) + 1 = Len(s) BY <1>1, <1>2
<1>5. \A i \in 1 .. Len(s) - 1 : t[i] = s[i] BY <1>2, <1>3
<1> QED BY <1>1, <1>3, <1>4, <1>5 DEF t, u

LEMMA PushedTwo ==
  ASSUME NEW S, NEW s \in Seq(S), NEW f \in S, NEW g \in S
  PROVE  LET t == s \o <<f, g>> IN
         /\ t \in Seq(S)
         /\ Len(t) = Len(s) + 2 /\ Len(s) \in Nat
         /\ t[Len(s) + 1] = f /\ t[Len(s) + 2] = g
         /\ \A i \in 1 .. Len(s) : t[i] = s[i]
<1> DEFINE p == <<f, g>>
<1>1. p \in Seq(S) /\ Len(p) = 2 /\ p[1] = f /\ p[2] = g OBVIOUS
<1> HIDE DEF p
<1> DEFINE t == s \o p
<1>2. /\ t \in Seq(S) /\ Len(t) = Len(s) + Len(p)
      /\ \A i \in 1 .. Len(s) + Len(p) : t[i] = IF i <= Len(s) THEN s[i] ELSE p[i - Len(s)]
  BY <1>1, ConcatProperties
<1>3. Len(s) \in Nat BY LenProperties
<1> HIDE DEF t
<1> QED BY <1>1, <1>2, <1>3 DEF t, p

\* The call at the top of a stack that is not empty.
LEMMA TopOfStack ==
  ASSUME TypeInv, stack # <<>>
  PROVE  /\ Len(stack) \in Nat /\ Len(stack) >= 1 /\ DOMAIN stack = 1 .. Len(stack)
         /\ Len(stack) \in DOMAIN stack
         /\ Top = stack[Len(stack)] /\ Top \in Frames
<1>1. stack \in Seq(Frames) BY DEF TypeInv
<1>2. Len(stack) \in Nat \ {0} BY <1>1, EmptySeq
<1>3. DOMAIN stack = 1 .. Len(stack) BY <1>1, LenProperties
<1>4. stack[Len(stack)] \in Frames BY <1>1, <1>2, ElementOfSeq
<1> QED BY <1>2, <1>3, <1>4 DEF Top

-----------------------------------------------------------------------------
(* Types.                                                                  *)

LEMMA EntriesTyped ==
  ASSUME TypeInv, NEW i \in 1 .. NEntries
  PROVE  entries[i] \in Entries /\ GetTimeout(entries[i]) \in Nat /\ Signalled(entries[i]) \in Entries
<1>1. entries[i] \in Entries BY DEF TypeInv
<1>2. GetTimeout(entries[i]) \in Nat BY <1>1, BoundAssumption DEF Entries, GetTimeout
<1>3. Signalled(entries[i]) \in Entries BY <1>1 DEF Entries, Signalled
<1> QED BY <1>1, <1>2, <1>3

LEMMA FramesTyped ==
  ASSUME TypeInv, NEW kind \in {"check", "client", "wait"},
         NEW who \in Clients \cup {Nobody}, NEW irq \in BOOLEAN
  PROVE  Frame(kind, who, irq) \in Frames /\ CheckFrame(irq) \in Frames
BY DEF TypeInv, Frames, Frame, CheckFrame

\* A turn of the loop, and a wait that has found its entry.
LEMMA FrameTurned ==
  ASSUME NEW f \in Frames, NEW i \in Nat \ {0}, NEW x \in Nat
  PROVE  /\ [f EXCEPT !.at = i] \in Frames
         /\ [f EXCEPT !.at = i, !.first = x] \in Frames
         /\ [f EXCEPT !.at = i, !.time = x] \in Frames
<1> DEFINE g == [f EXCEPT !.at = i]
<1>1. g \in Frames BY DEF Frames
<1> HIDE DEF g
<1>2. [g EXCEPT !.first = x] \in Frames BY <1>1 DEF Frames
<1>3. [g EXCEPT !.time = x] \in Frames BY <1>1 DEF Frames
<1> QED BY <1>1, <1>2, <1>3 DEF g

\* An entry armed by a wait.
LEMMA EntryArmed ==
  ASSUME NEW e \in Entries, NEW t \in Nat, NEW u \in BOOLEAN, u => t >= UtcOffset
  PROVE  [e EXCEPT !.expire = t, !.utc = u] \in Entries
<1> DEFINE g == [e EXCEPT !.expire = t]
<1>1. g = [p |-> e.p, expire |-> t, utc |-> e.utc] BY DEF Entries
<1> HIDE DEF g
<1> DEFINE h == [g EXCEPT !.utc = u]
<1>2. h = [p |-> e.p, expire |-> t, utc |-> u] BY <1>1
<1>3. h \in Entries BY <1>2 DEF Entries
<1> QED BY <1>3 DEF g

LEMMA InitTypeInv == Init => TypeInv
<1> SUFFICES ASSUME Init PROVE TypeInv OBVIOUS
<1>1. stack \in Seq(Frames) BY EmptySeq DEF Init
<1>2. entries \in [1 .. NEntries -> Entries] BY BoundAssumption DEF Init, Entries
<1>3. state \in [Clients -> {"ready", "running", "waiting"}] BY DEF Init
<1>4. deadline \in [Clients -> Nat] BY DEF Init
<1>5. now \in Nat /\ comparator \in Nat /\ lag \in 0 .. Slack
  BY BoundAssumption DEF Init, Never
<1>6. pending \in BOOLEAN /\ broken \in BOOLEAN BY DEF Init
<1> QED BY <1>1, <1>2, <1>3, <1>4, <1>5, <1>6 DEF TypeInv

LEMMA NextTypeInv == TypeInv /\ [Next]_vars => TypeInv'
<1> SUFFICES ASSUME TypeInv, [Next]_vars PROVE TypeInv' OBVIOUS
<1> USE BoundAssumption
<1>0. stack \in Seq(Frames) BY DEF TypeInv
<1>1. CASE Interrupt
  <2>1. stack' \in Seq(Frames) BY <1>0, <1>1, FramesTyped, AppendProperties DEF Interrupt
  <2> QED BY <1>1, <2>1 DEF Interrupt, TypeInv
<1>2. ASSUME NEW c \in Clients, Start(c) PROVE TypeInv'
  <2>1. Frame("client", c, c \notin Main) \in Frames BY FramesTyped
  <2>2. stack' \in Seq(Frames) BY <1>2, <2>1 DEF Start
  <2> QED BY <1>2, <2>2 DEF Start, TypeInv
<1>3. CASE CheckEntry
  <2>1. Top \in Frames BY <1>3, TopOfStack DEF CheckEntry, TopIs
  <2>2. Top.at \in 1 .. NEntries BY <1>3, <2>1 DEF CheckEntry, Frames
  <2>3. Earliest(Top.first, entries[Top.at]) \in Nat
    BY <2>1, <2>2, EntriesTyped DEF Earliest, Frames
  <2>6. Top.at + 1 \in Nat \ {0} BY <2>1 DEF Frames
  <2>4. [Top EXCEPT !.at = @ + 1, !.first = Earliest(@, entries[Top.at])] \in Frames
    BY <2>1, <2>3, <2>6, FrameTurned, Zenon
  <2>5. stack' \in Seq(Frames)
    BY <1>0, <1>3, <2>4, Replaced DEF CheckEntry, TopIs, Below
  <2> QED BY <1>3, <2>5 DEF CheckEntry, TypeInv
<1>4. CASE Signal
  <2>1. Top \in Frames BY <1>4, TopOfStack DEF Signal, TopIs
  <2>2. Top.at \in 1 .. NEntries BY <1>4, <2>1 DEF Signal, Frames
  <2> DEFINE e == entries[Top.at]
  <2>3. e \in Entries /\ Signalled(e) \in Entries BY <2>2, EntriesTyped
  <2>4. entries' \in [1 .. NEntries -> Entries] BY <1>4, <2>2, <2>3 DEF Signal, TypeInv
  <2>5. CASE e.p # Nobody /\ state[e.p] = "waiting"
    <3>1. state' = [state EXCEPT ![e.p] = "running"] /\ UNCHANGED broken BY <1>4, <2>5 DEF Signal
    <3>2. [Top EXCEPT !.at = @ + 1] \in Frames BY <2>1 DEF Frames
    <3>3. Frame("client", e.p, FALSE) \in Frames BY <2>3, FramesTyped DEF Entries
    <3>4. Below \in Seq(Frames) BY <1>0, Dropped DEF Below
    <3>5. stack' = Below \o <<[Top EXCEPT !.at = @ + 1], Frame("client", e.p, FALSE)>>
      BY <1>4, <2>5 DEF Signal
    <3>6. stack' \in Seq(Frames) BY <3>2, <3>3, <3>4, <3>5, PushedTwo
    <3> QED BY <1>4, <2>4, <3>1, <3>6 DEF Signal, TypeInv
  <2>6. CASE ~(e.p # Nobody /\ state[e.p] = "waiting")
    <3>1. broken' = TRUE /\ UNCHANGED <<state, stack>> BY <1>4, <2>6 DEF Signal
    <3> QED BY <1>4, <2>4, <3>1 DEF Signal, TypeInv
  <2> QED BY <2>5, <2>6
<1>5. CASE CheckDone
  <2>1. Top \in Frames BY <1>5, TopOfStack DEF CheckDone, TopIs
  <2>2. stack' \in Seq(Frames) BY <1>0, <1>5, Dropped DEF CheckDone, Below
  <2>3. comparator' \in Nat
    <3>1. now \in Nat /\ comparator \in Nat /\ Top.first \in Nat /\ Top.time \in Nat
      BY <2>1 DEF TypeInv, Frames
    <3>2. Programmed(Top.first, Top.time) \in Nat BY <3>1 DEF Programmed, Never
    <3> QED BY <1>5, <3>1, <3>2 DEF CheckDone
  <2>4. lag' \in 0 .. Slack BY <1>5 DEF CheckDone, TypeInv
  <2> QED BY <1>5, <2>2, <2>3, <2>4 DEF CheckDone, TypeInv
<1>6. ASSUME NEW c \in Clients, NEW d \in Delays, Wait(c, d) PROVE TypeInv'
  <2>1. TimePoint(c, d) \in Nat BY DelayAssumption DEF TimePoint, TypeInv
  <2>2. PICK i \in 1 .. NEntries :
          /\ entries' = [entries EXCEPT ![i].expire = Expire(c, TimePoint(c, d)),
                                        ![i].utc = c \in Periodic]
          /\ stack' = stack \o <<[Frame("wait", c, FALSE) EXCEPT !.at = i], CheckFrame(FALSE)>>
    BY <1>6 DEF Wait
  <2>3. entries[i] \in Entries BY EntriesTyped
  <2>4. Expire(c, TimePoint(c, d)) \in Nat
        /\ (c \in Periodic => Expire(c, TimePoint(c, d)) >= UtcOffset)
    BY <2>1 DEF Expire
  <2>5. entries' = [entries EXCEPT ![i] = [@ EXCEPT !.expire = Expire(c, TimePoint(c, d)),
                                                     !.utc = c \in Periodic]]
    BY <2>2, <2>3 DEF Entries, TypeInv
  <2>6. [entries[i] EXCEPT !.expire = Expire(c, TimePoint(c, d)), !.utc = c \in Periodic] \in Entries
    <3>1. (c \in Periodic) \in BOOLEAN OBVIOUS
    <3> QED BY <2>3, <2>4, <3>1, EntryArmed, Zenon
  <2>7. entries' \in [1 .. NEntries -> Entries] BY <2>5, <2>6 DEF TypeInv
  <2>8. Frame("wait", c, FALSE) \in Frames /\ CheckFrame(FALSE) \in Frames BY FramesTyped
  <2>9. [Frame("wait", c, FALSE) EXCEPT !.at = i] \in Frames
    <3>1. i \in Nat \ {0} OBVIOUS
    <3>2. 0 \in Nat OBVIOUS
    <3> QED BY <2>8, <3>1, <3>2, FrameTurned, Zenon
  <2>10. stack' \in Seq(Frames) BY <1>0, <2>2, <2>8, <2>9, PushedTwo
  <2>11. deadline' \in [Clients -> Nat] BY <1>6, <2>1 DEF Wait, TypeInv
  <2> QED BY <1>6, <2>7, <2>10, <2>11 DEF Wait, TypeInv
<1>7. ASSUME NEW c \in Clients, NEW d \in Delays, WaitInVain(c, d) PROVE TypeInv'
  <2>1. TimePoint(c, d) \in Nat BY DelayAssumption DEF TimePoint, TypeInv
  <2>2. deadline' \in [Clients -> Nat] BY <1>7, <2>1 DEF WaitInVain, TypeInv
  <2>3. stack' \in Seq(Frames) BY <1>0, <1>7, Dropped DEF WaitInVain, Below
  <2>4. lag' \in 0 .. Slack BY <1>7 DEF WaitInVain, TypeInv
  <2> QED BY <1>7, <2>2, <2>3, <2>4 DEF WaitInVain, TypeInv
<1>8. CASE Suspend
  <2>1. Top \in Frames BY <1>8, TopOfStack DEF Suspend, TopIs
  <2>2. stack' \in Seq(Frames) BY <1>0, <1>8, Dropped DEF Suspend
  <2>3. lag' \in 0 .. Slack BY <1>8 DEF Suspend, TypeInv
  <2>4. entries' \in [1 .. NEntries -> Entries]
    BY <1>8, <2>1, ZenonT(60) DEF Suspend, TypeInv, Frames, Entries
  <2>5. state' \in [Clients -> {"ready", "running", "waiting"}]
    BY <1>8 DEF Suspend, TypeInv
  <2> QED BY <1>8, <2>2, <2>3, <2>4, <2>5 DEF Suspend, TypeInv
<1>9. CASE Tick BY <1>9 DEF Tick, TypeInv
<1>11. CASE ReadClock
  <2>1. Top \in Frames BY <1>11, TopOfStack DEF ReadClock, TopIs
  <2>2. Top.at + 1 \in Nat \ {0} /\ now \in Nat BY <2>1 DEF Frames, TypeInv
  <2>3. [Top EXCEPT !.at = @ + 1, !.time = now] \in Frames BY <2>1, <2>2, FrameTurned, Zenon
  <2>4. stack' \in Seq(Frames)
    BY <1>0, <1>11, <2>3, Replaced DEF ReadClock, TopIs, Below
  <2> QED BY <1>11, <2>4 DEF ReadClock, TypeInv
<1>10. CASE UNCHANGED vars BY <1>10 DEF vars, TypeInv
<1> QED BY <1>1, <1>2, <1>3, <1>4, <1>5, <1>6, <1>7, <1>8, <1>9, <1>10, <1>11 DEF Next

\* What every step keeps of the types of the state.
LEMMA TypeInvariant == Spec => []TypeInv
<1> QED BY InitTypeInv, NextTypeInv, PTL DEF Spec

\* The state is what the code's types allow, for any clients: a time point less
\* the utc offset never wraps, and lag is within Slack.
THEOREM TimerTypeOK == Spec => []TypeOK
<1>1. TypeInv => TypeOK
  <2> SUFFICES ASSUME TypeInv PROVE TypeOK OBVIOUS
  <2> DEFINE F == [kind : {"check", "client", "wait"}, who : Clients \cup {Nobody},
                   irq : BOOLEAN, at : Nat, time : Nat, first : Nat]
  <2>1. Frames \subseteq F BY DEF Frames
  <2>2. stack \in Seq(F) BY <2>1, SeqMonotonic DEF TypeInv
  <2> QED BY <2>2 DEF TypeInv, TypeOK, Entries
<1> QED BY <1>1, TypeInvariant, PTL

-----------------------------------------------------------------------------
(* The strengthening.                                                      *)

Used == ~Unused(entries[1])
Timeout == GetTimeout(entries[1])

\* An entry is armed and its p is not written yet.
Arming == \E i \in DOMAIN stack : stack[i].kind = "wait"

FirstOnly == \A i \in 2 .. NEntries : entries[i].expire = 0 /\ ~entries[i].utc

\* timer_check of the interrupt finds the first entry expired; the one of a
\* wait finds it ahead and asks for an interrupt at its end.  Neither of its
\* looks at the clock is older than the call chain.
CheckRule(i) ==
  LET f == stack[i] IN
  f.kind = "check" =>
    /\ i = 1 => f.irq
    /\ i > 1 /\ f.irq => stack[i - 1].kind = "client"
    /\ i > 1 /\ ~f.irq => stack[i - 1].kind = "wait"
    /\ f.time <= now
    /\ f.irq => f.first = 0
    /\ f.irq /\ f.at = 1 => /\ i = Len(stack) /\ Used /\ ~pending
                            /\ Timeout < comparator /\ comparator <= f.time
    /\ ~f.irq => /\ i = Len(stack) /\ comparator <= now /\ now <= f.time + lag
                 /\ f.at = 1 => f.first = 0
                 /\ f.at # 1 => f.first = Timeout

ClientRule(i) ==
  LET f == stack[i] IN
  f.kind = "client" =>
    /\ f.who \in Clients /\ state[f.who] = "running"
    /\ i > 1 => stack[i - 1].kind = "check" /\ stack[i - 1].irq
    /\ now <= deadline[f.who] + 1 + Slack + lag
    /\ \A j \in DOMAIN stack : stack[j].kind = "client" /\ stack[j].who = f.who => j = i

WaitRule(i) ==
  LET f == stack[i] IN
  f.kind = "wait" =>
    /\ i > 1 /\ stack[i - 1].kind = "client" /\ stack[i - 1].who = f.who
    /\ i # Len(stack) => i + 1 = Len(stack) /\ stack[i + 1].kind = "check" /\ ~stack[i + 1].irq
    /\ i = Len(stack) => Timeout < comparator /\ comparator <= Timeout + 1 + Slack
    /\ f.at = 1 /\ Used
    /\ Timeout = deadline[f.who]
    /\ now + (Slack - lag) + 1 < Timeout

Rules == \A i \in DOMAIN stack : CheckRule(i) /\ ClientRule(i) /\ WaitRule(i)

\* The entry is free: before its first use, and while its coroutine runs.
Free ==
  ~Used => /\ ~entries[1].utc /\ ~pending /\ ~Arming /\ comparator <= now
           /\ stack # <<>> => Top.kind = "client"

\* Its coroutine waits, and the interrupt is to come, latched or being handled.
Awaited ==
  Used /\ ~Arming =>
    /\ entries[1].p \in Clients /\ state[entries[1].p] = "waiting"
    /\ Timeout = deadline[entries[1].p]
    /\ Timeout < comparator /\ comparator <= Timeout + 1 + Slack
    /\ now <= comparator + lag
    /\ now >= comparator => pending \/ (stack # <<>> /\ Top.kind = "check" /\ Top.irq /\ Top.at = 1)
    /\ pending => now >= comparator

Calm == /\ Arming => ~pending
        /\ ~Busy => lag = 0

TimerInv ==
  /\ TypeInv /\ ~broken /\ now >= 1
  /\ FirstOnly /\ Rules /\ Free /\ Awaited /\ Calm

LEMMA Facts ==
  ASSUME TimerInv
  PROVE  /\ Len(stack) \in Nat /\ DOMAIN stack = 1 .. Len(stack)
         /\ stack # <<>> <=> Len(stack) >= 1
         /\ \A i \in 1 .. Len(stack) : stack[i] \in Frames
         /\ Arming => /\ stack # <<>>
                      /\ Top.kind = "wait" \/ (Top.kind = "check" /\ ~Top.irq)
         /\ stack # <<>> => Top = stack[Len(stack)]
         /\ entries[1] \in Entries /\ Timeout \in Nat
         /\ \A i \in 2 .. NEntries : Unused(entries[i]) /\ GetTimeout(entries[i]) = 0
<1>1. stack \in Seq(Frames) /\ TypeInv BY DEF TimerInv, TypeInv
<1>2. Len(stack) \in Nat /\ DOMAIN stack = 1 .. Len(stack) BY <1>1, LenProperties
<1>3. stack # <<>> <=> Len(stack) >= 1 BY <1>1, <1>2, EmptySeq
<1>4. \A i \in 1 .. Len(stack) : stack[i] \in Frames BY <1>1, ElementOfSeq
<1>5. ASSUME Arming
      PROVE  /\ stack # <<>>
             /\ Top.kind = "wait" \/ (Top.kind = "check" /\ ~Top.irq)
  <2>1. PICK i \in DOMAIN stack : stack[i].kind = "wait" BY <1>5 DEF Arming
  <2>2. WaitRule(i) BY <2>1 DEF TimerInv, Rules
  <2> QED BY <2>1, <2>2, <1>2, <1>3 DEF WaitRule, Top
<1>6. entries[1] \in Entries /\ Timeout \in Nat
  BY <1>1, EntriesTyped, BoundAssumption DEF Timeout
<1>7. \A i \in 2 .. NEntries : Unused(entries[i]) /\ GetTimeout(entries[i]) = 0
  BY DEF TimerInv, FirstOnly, Unused, GetTimeout
<1> QED BY <1>2, <1>3, <1>4, <1>5, <1>6, <1>7 DEF Top

LEMMA InitTimerInv == Init => TimerInv
<1> SUFFICES ASSUME Init PROVE TimerInv OBVIOUS
<1>1. TypeInv BY InitTypeInv
<1>2. Len(stack) = 0 /\ DOMAIN stack = {} BY DEF Init
<1>3. ~Used /\ ~entries[1].utc /\ FirstOnly
  BY BoundAssumption DEF Init, Used, Unused, FirstOnly
<1>4. Rules /\ ~Arming BY <1>2 DEF Rules, Arming
<1> QED BY <1>1, <1>3, <1>4 DEF Init, TimerInv, Free, Awaited, Calm, Never

LEMMA TickKeeps == TimerInv /\ Tick => TimerInv'
<1> SUFFICES ASSUME TimerInv, Tick PROVE TimerInv' OBVIOUS
<1>1. TypeInv /\ TypeInv' BY NextTypeInv DEF TimerInv, Next
<1>2. Used' = Used /\ Timeout' = Timeout /\ Arming' = Arming /\ FirstOnly' /\ Top' = Top
  BY DEF Tick, Used, Timeout, Arming, TimerInv, FirstOnly, Top
<1>3. /\ now' = now + 1 /\ now \in Nat /\ comparator \in Nat /\ lag \in Nat
      /\ UNCHANGED <<comparator, stack, state, deadline>>
      /\ Busy => lag' = lag + 1
      /\ ~Busy => lag' = 0
      /\ deadline \in [Clients -> Nat]
  BY <1>1, BoundAssumption DEF Tick, TypeInv
<1>10. pending' <=> pending \/ now' = comparator BY Zenon DEF Tick
<1>4. Arming => ~pending'
  <2> SUFFICES ASSUME Arming PROVE ~pending' OBVIOUS
  <2>1. PICK i \in DOMAIN stack : stack[i].kind = "wait" BY DEF Arming
  <2>2. WaitRule(i) BY <2>1 DEF TimerInv, Rules
  <2>3. ~pending BY DEF TimerInv, Calm
  <2>4. CASE i = Len(stack)
    BY <2>1, <2>2, <2>3, <2>4, <1>1, <1>3, <1>10, Facts, BoundAssumption DEF WaitRule, TypeInv
  <2>5. CASE i # Len(stack)
    <3>1. /\ i + 1 = Len(stack) /\ stack[i + 1].kind = "check" /\ ~stack[i + 1].irq
      BY <2>1, <2>2, <2>5 DEF WaitRule
    <3>2. CheckRule(i + 1) BY <3>1, <2>1, Facts DEF TimerInv, Rules
    <3> QED BY <3>1, <3>2, <2>3, <1>3, <1>10, Facts DEF CheckRule
  <2> QED BY <2>4, <2>5
<1>5. Rules'
  <2> SUFFICES ASSUME NEW i \in DOMAIN stack PROVE CheckRule(i)' /\ ClientRule(i)' /\ WaitRule(i)'
    BY <1>3 DEF Rules
  <2>1. CheckRule(i) /\ ClientRule(i) /\ WaitRule(i) BY DEF TimerInv, Rules
  <2>2. Busy /\ lag' = lag + 1 BY <1>3, Facts DEF Busy
  <2>3. stack[i] \in Frames BY Facts
  <2>4. CheckRule(i)'
    <3>1. stack[i].kind = "check" /\ stack[i].irq /\ stack[i].at = 1 => ~pending'
      <4> HAVE stack[i].kind = "check" /\ stack[i].irq /\ stack[i].at = 1
      <4>1. comparator <= stack[i].time /\ stack[i].time <= now /\ ~pending /\ stack[i].time \in Nat
        BY <2>1, <2>3 DEF CheckRule, Frames
      <4> QED BY <4>1, <1>3, <1>10
    <3> SUFFICES ASSUME stack[i].kind = "check" PROVE CheckRule(i)'
      BY <1>3 DEF CheckRule
    <3>2. stack[i].time \in Nat BY <2>3 DEF Frames
    <3>3. stack[i].time <= now' BY <2>1, <3>2, <1>3 DEF CheckRule
    <3>4. ~stack[i].irq => comparator <= now' /\ now' <= stack[i].time + lag'
      BY <2>1, <2>2, <3>2, <1>3 DEF CheckRule
    <3> QED BY <2>1, <3>1, <3>3, <3>4, <1>2, <1>3 DEF CheckRule
  <2>5. ClientRule(i)'
    <3> SUFFICES ASSUME stack[i].kind = "client" PROVE ClientRule(i)'
      BY <1>3 DEF ClientRule
    <3>1. stack[i].who \in Clients /\ now <= deadline[stack[i].who] + 1 + Slack + lag
      BY <2>1 DEF ClientRule
    <3>2. deadline[stack[i].who] \in Nat /\ Slack \in Nat BY <3>1, <1>3, BoundAssumption
    <3>3. now + 1 <= deadline[stack[i].who] + 1 + Slack + (lag + 1) BY <3>1, <3>2, <1>3
    <3> QED BY <2>1, <2>2, <3>3, <1>3 DEF ClientRule
  <2>6. WaitRule(i)'
    <3>1. now' + (Slack - lag') = now + (Slack - lag) BY <1>3, <2>2, BoundAssumption
    <3> QED BY <2>1, <3>1, <1>2, <1>3 DEF WaitRule
  <2> QED BY <2>4, <2>5, <2>6
<1>6. Free' BY <1>2, <1>3, <1>10 DEF TimerInv, Free, Tick
<1>7. Awaited'
  <2> SUFFICES ASSUME Used, ~Arming PROVE Awaited' BY <1>2 DEF Awaited
  <2>1. entries' = entries BY DEF Tick
  <2>2. /\ entries[1].p \in Clients /\ state[entries[1].p] = "waiting"
        /\ Timeout = deadline[entries[1].p]
        /\ Timeout < comparator /\ comparator <= Timeout + 1 + Slack
        /\ now <= comparator + lag
        /\ now >= comparator => pending \/ (stack # <<>> /\ Top.kind = "check" /\ Top.irq /\ Top.at = 1)
        /\ pending => now >= comparator
    BY DEF TimerInv, Awaited
  <2>3. now' <= comparator + lag'
    <3>1. CASE Busy BY <3>1, <2>2, <1>3, Facts, SMTT(30)
    <3>2. CASE ~Busy BY <3>2, <2>2, <1>3, Facts DEF Busy
    <3> QED BY <3>1, <3>2
  <2>4. now' >= comparator =>
          pending' \/ (stack # <<>> /\ Top.kind = "check" /\ Top.irq /\ Top.at = 1)
    BY <2>2, <1>3, <1>10, Facts
  <2>5. pending' => now' >= comparator BY <2>2, <1>3, <1>10, Facts
  <2> QED BY <1>2, <1>3, <2>1, <2>2, <2>3, <2>4, <2>5 DEF Awaited
<1>8. Calm'
  <2>1. ~Busy' => lag' = 0 BY <1>3, <1>10 DEF Busy
  <2> QED BY <2>1, <1>2, <1>4 DEF Calm
<1>9. ~broken' /\ now' >= 1 BY <1>3 DEF Tick, TimerInv
<1> QED BY <1>1, <1>2, <1>5, <1>6, <1>7, <1>8, <1>9 DEF TimerInv

\* With no handler on the stack and none at the entry, no timer_check is there.
LEMMA InterruptKeeps == TimerInv /\ Interrupt => TimerInv'
<1> SUFFICES ASSUME TimerInv, Interrupt PROVE TimerInv' OBVIOUS
<1> DEFINE n == Len(stack)
           f == CheckFrame(TRUE)
<1>1. TypeInv /\ TypeInv' BY NextTypeInv DEF TimerInv, Next
<1>2. /\ pending /\ ~pending' /\ ~InHandler /\ ~broken'
      /\ UNCHANGED <<now, comparator, entries, state, deadline, lag>>
      /\ stack' = Append(stack, f)
  BY DEF Interrupt
<1>3. f.kind = "check" /\ f.irq /\ f.at = 1 /\ f.time = now /\ f.first = 0 /\ f \in Frames
  BY <1>1, FramesTyped DEF CheckFrame, Frame
<1> HIDE DEF f
<1>4. /\ Len(stack') = n + 1 /\ stack'[n + 1] = f /\ \A i \in 1 .. n : stack'[i] = stack[i]
      /\ stack' # <<>> /\ DOMAIN stack' = 1 .. n + 1 /\ Top' = f /\ n \in Nat
  <2>1. stack \in Seq(Frames) BY <1>1 DEF TypeInv
  <2>2. /\ stack' \in Seq(Frames) /\ Len(stack') = n + 1 /\ stack'[n + 1] = f
        /\ \A i \in 1 .. n : stack'[i] = stack[i]
        /\ stack' # <<>>
    BY <1>2, <1>3, <2>1, AppendProperties
  <2> QED BY <2>2, LenProperties, Facts DEF Top
<1>5. Used /\ ~Arming /\ now >= comparator /\ Timeout < comparator
  BY <1>2, Facts DEF TimerInv, Free, Awaited, Calm
<1>6. Used' /\ Timeout' = Timeout BY <1>2, <1>5 DEF Used, Timeout
<1>7. ASSUME NEW i \in 1 .. n PROVE ~stack[i].irq /\ stack[i].kind = "client"
  <2>1. ~stack[i].irq BY <1>2, Facts DEF InHandler
  <2>2. stack[i].kind # "wait" BY <1>5, Facts DEF Arming
  <2>3. CheckRule(i) BY Facts DEF TimerInv, Rules
  <2>4. stack[i].kind # "check"
    <3>1. \A j \in 1 .. n : stack[j].kind # "wait" BY <1>5, Facts DEF Arming
    <3>2. i > 1 => i - 1 \in 1 .. n BY <1>4
    <3> QED BY <2>1, <2>3, <3>1, <3>2 DEF CheckRule
  <2>5. stack[i] \in Frames BY Facts
  <2> QED BY <2>1, <2>2, <2>4, <2>5 DEF Frames
<1>8. ~Arming' BY <1>3, <1>4, <1>7 DEF Arming
<1>9. Rules'
  <2> SUFFICES ASSUME NEW i \in 1 .. n + 1 PROVE CheckRule(i)' /\ ClientRule(i)' /\ WaitRule(i)'
    BY <1>4 DEF Rules
  <2>1. CASE i = n + 1
    <3>1. CheckRule(i)'
      <4>1. stack'[i] = f /\ i = Len(stack') /\ now' = now BY <2>1, <1>2, <1>4
      <4>2. i > 1 => stack'[i - 1].kind = "client"
        <5> HAVE i > 1
        <5>1. n \in 1 .. n /\ i - 1 = n BY <2>1, <1>4
        <5> QED BY <5>1, <1>4, <1>7
      <4>3. Timeout' < comparator' /\ comparator' <= f.time /\ f.time <= now
        BY <1>1, <1>2, <1>3, <1>5, <1>6 DEF TypeInv
      <4> QED BY <4>1, <4>2, <4>3, <1>2, <1>3, <1>6 DEF CheckRule
    <3> QED BY <3>1, <2>1, <1>3, <1>4 DEF ClientRule, WaitRule
  <2>2. CASE i \in 1 .. n
    <3>1. CheckRule(i)' /\ WaitRule(i)' BY <2>2, <1>4, <1>7 DEF CheckRule, WaitRule
    <3>2. ClientRule(i) BY <2>2, Facts DEF TimerInv, Rules
    <3>3. i > 1 => stack[i - 1].kind = "check" BY <2>2, <3>2, <1>7 DEF ClientRule
    <3>4. i = 1 BY <2>2, <3>3, <1>4, <1>7
    <3>5. ClientRule(i)' BY <2>2, <3>2, <3>4, <1>2, <1>3, <1>4, <1>7, Facts DEF ClientRule
    <3> QED BY <3>1, <3>5
  <2> QED BY <2>1, <2>2, <1>4
<1>10. Free' BY <1>6 DEF Free
<1>11. Awaited'
  <2>1. entries' = entries BY <1>2
  <2> QED BY <1>2, <1>3, <1>4, <1>5, <1>6, <1>8, <2>1 DEF TimerInv, Awaited
<1>12. Calm' BY <1>4, <1>8 DEF Calm, Busy
<1>13. FirstOnly' /\ now' >= 1 BY <1>2 DEF TimerInv, FirstOnly
<1> QED BY <1>1, <1>2, <1>9, <1>10, <1>11, <1>12, <1>13 DEF TimerInv

LEMMA StartKeeps == ASSUME NEW c \in Clients, TimerInv, Start(c) PROVE TimerInv'
<1> DEFINE f == Frame("client", c, c \notin Main)
<1>1. TypeInv /\ TypeInv' BY NextTypeInv DEF TimerInv, Next
<1>2. /\ stack = <<>> /\ ~pending /\ state[c] = "ready" /\ ~broken' /\ ~pending'
      /\ UNCHANGED <<now, comparator, entries, lag>>
      /\ state' = [state EXCEPT ![c] = "running"]
      /\ deadline' = [deadline EXCEPT ![c] = now]
      /\ stack' = <<f>>
  BY DEF Start, TimerInv
<1>3. f.kind = "client" /\ f.who = c BY DEF Frame
<1> HIDE DEF f
<1>4. Len(stack') = 1 /\ stack'[1] = f /\ DOMAIN stack' = {1} /\ stack' # <<>> /\ Top' = f
  BY <1>2 DEF Top
<1>5. ~Arming /\ ~Arming' BY <1>2, <1>3, <1>4 DEF Arming
<1>6. Used' = Used /\ Timeout' = Timeout /\ FirstOnly'
  BY <1>2 DEF Used, Timeout, TimerInv, FirstOnly
<1>7. Rules'
  <2>1. ClientRule(1)'
    BY <1>1, <1>2, <1>3, <1>4, BoundAssumption DEF ClientRule, TypeInv
  <2>2. CheckRule(1)' /\ WaitRule(1)' BY <1>3, <1>4 DEF CheckRule, WaitRule
  <2> QED BY <2>1, <2>2, <1>4 DEF Rules
<1>8. Free' BY <1>2, <1>3, <1>4, <1>5, <1>6 DEF TimerInv, Free
<1>9. Awaited'
  <2> SUFFICES ASSUME Used PROVE Awaited' BY <1>6 DEF Awaited
  <2> DEFINE o == entries[1].p
  <2>1. /\ o \in Clients /\ state[o] = "waiting"
        /\ Timeout = deadline[o] /\ Timeout < comparator /\ comparator <= Timeout + 1 + Slack
        /\ now <= comparator + lag /\ ~(now >= comparator)
    BY <1>2, <1>5 DEF TimerInv, Awaited
  <2>2. o # c BY <1>2, <2>1
  <2>3. state'[o] = "waiting" /\ deadline'[o] = Timeout BY <1>1, <1>2, <2>1, <2>2 DEF TypeInv
  <2>4. entries'[1].p = o BY <1>2
  <2> QED BY <1>2, <1>6, <2>1, <2>3, <2>4 DEF Awaited
<1>10. Calm' BY <1>2, <1>4, <1>5 DEF Calm, Busy
<1> QED BY <1>1, <1>2, <1>6, <1>7, <1>8, <1>9, <1>10 DEF TimerInv

\* The entry a timer_check of a wait comes for is ahead of it.
LEMMA ArmedAhead ==
  ASSUME TimerInv, stack # <<>>, Top.kind = "check", ~Top.irq
  PROVE  /\ Arming /\ Used /\ Timeout > now + 1 /\ Top.time <= now /\ Timeout # 0
         /\ Len(stack) > 1 /\ WaitRule(Len(stack) - 1) /\ stack[Len(stack) - 1].kind = "wait"
         /\ \A i \in 1 .. Len(stack) - 1 :
              (stack[i].kind = "check" => stack[i].irq /\ stack[i].at # 1)
              /\ (stack[i].kind = "wait" => i = Len(stack) - 1)
<1> DEFINE n == Len(stack)
<1>1. n \in Nat /\ n >= 1 /\ Top = stack[n] /\ DOMAIN stack = 1 .. n BY Facts
<1>2. CheckRule(n) BY <1>1 DEF TimerInv, Rules
<1>3. n > 1 /\ stack[n - 1].kind = "wait" /\ Top.time <= now BY <1>1, <1>2 DEF CheckRule
<1>4. n - 1 \in 1 .. n BY <1>1, <1>3
<1>5. WaitRule(n - 1) BY <1>1, <1>4 DEF TimerInv, Rules
<1>6. Arming BY <1>1, <1>3, <1>4 DEF Arming
<1>7. Used /\ now + (Slack - lag) + 1 < Timeout BY <1>3, <1>5 DEF WaitRule
<1>8. now \in Nat /\ lag \in 0 .. Slack /\ Timeout \in Nat BY Facts DEF TimerInv, TypeInv
<1>9. Timeout > now + 1 /\ Timeout # 0 BY <1>7, <1>8, BoundAssumption
<1>10. ASSUME NEW i \in 1 .. n - 1
       PROVE  /\ stack[i].kind = "check" => stack[i].irq /\ stack[i].at # 1
              /\ stack[i].kind = "wait" => i = n - 1
  <2>1. CheckRule(i) /\ WaitRule(i) BY <1>1 DEF TimerInv, Rules
  <2>2. i # n /\ (i + 1 = n => i = n - 1)
    <3>1. n \in Nat BY <1>1
    <3> HIDE DEF n
    <3> QED BY <3>1
  <2>3. stack[i] \in Frames BY <1>1, Facts
  <2>4. stack[i].irq \in BOOLEAN BY <2>3 DEF Frames
  <2> QED BY <2>1, <2>2, <2>4 DEF CheckRule, WaitRule
<1> QED BY <1>1, <1>3, <1>5, <1>6, <1>7, <1>9, <1>10

\* The timer_check of the interrupt comes for an entry whose coroutine waits.
LEMMA HandlerAlone ==
  ASSUME TimerInv, stack # <<>>, Top.kind = "check", Top.irq
  PROVE  /\ ~Arming /\ Used /\ Top.first = 0 /\ Top.time <= now
         /\ Top.at = 1 => Timeout < comparator /\ comparator <= Top.time /\ ~pending
         /\ CheckRule(Len(stack))
         /\ \A i \in 1 .. Len(stack) - 1 :
              (stack[i].kind = "check" => stack[i].irq /\ stack[i].at # 1)
              /\ stack[i].kind # "wait"
<1> DEFINE n == Len(stack)
<1>1. n \in Nat /\ n >= 1 /\ Top = stack[n] /\ DOMAIN stack = 1 .. n BY Facts
<1>2. CheckRule(n) BY <1>1 DEF TimerInv, Rules
<1>3. ~Arming BY Facts
<1>4. Used BY DEF TimerInv, Free
<1>5. ASSUME NEW i \in 1 .. n - 1
      PROVE  /\ stack[i].kind = "check" => stack[i].irq /\ stack[i].at # 1
             /\ stack[i].kind # "wait"
  <2>1. CheckRule(i) BY <1>1 DEF TimerInv, Rules
  <2>2. i # n /\ i \in 1 .. n
    <3>1. n \in Nat BY <1>1
    <3> HIDE DEF n
    <3> QED BY <3>1
  <2>3. stack[i] \in Frames BY <1>1, Facts
  <2>4. stack[i].irq \in BOOLEAN BY <2>3 DEF Frames
  <2>5. stack[i].kind # "wait" BY <1>1, <1>3, <2>2 DEF Arming
  <2> QED BY <2>1, <2>2, <2>4, <2>5 DEF CheckRule
<1> QED BY <1>1, <1>2, <1>3, <1>4, <1>5 DEF CheckRule

LEMMA CheckEntryKeeps == TimerInv /\ CheckEntry => TimerInv'
<1> SUFFICES ASSUME TimerInv, CheckEntry PROVE TimerInv' OBVIOUS
<1> DEFINE n == Len(stack)
           f == [Top EXCEPT !.at = @ + 1, !.first = Earliest(@, entries[Top.at])]
<1>1. TypeInv /\ TypeInv' BY NextTypeInv DEF TimerInv, Next
<1>2. /\ stack # <<>> /\ Top.kind = "check" /\ ~broken' /\ Top.at <= NEntries
      /\ ~IsExpired(entries[Top.at], Top.time)
      /\ UNCHANGED <<now, comparator, pending, entries, state, deadline, lag>>
      /\ stack' = Append(Below, f)
  BY DEF CheckEntry, TopIs
<1>3. n \in Nat /\ n >= 1 /\ Top = stack[n] /\ Top \in Frames /\ DOMAIN stack = 1 .. n
  BY <1>1, <1>2, TopOfStack
<1>4. Top.at \in 1 .. NEntries BY <1>2, <1>3 DEF Frames
<1>5. f.kind = "check" /\ f.irq = Top.irq /\ f.at = Top.at + 1 /\ f.time = Top.time
      /\ f.first = Earliest(Top.first, entries[Top.at]) /\ f.who = Top.who /\ f \in Frames
  <2>1. Earliest(Top.first, entries[Top.at]) \in Nat
    BY <1>1, <1>3, <1>4, EntriesTyped DEF Earliest, Frames
  <2>2. Top.at + 1 \in Nat \ {0} BY <1>4
  <2>3. f \in Frames BY <1>3, <2>1, <2>2, FrameTurned, Zenon
  <2>4. f.kind = Top.kind /\ f.irq = Top.irq /\ f.time = Top.time /\ f.who = Top.who
    BY <1>3 DEF Frames
  <2>5. f.at = Top.at + 1 /\ f.first = Earliest(Top.first, entries[Top.at])
    BY <1>3 DEF Frames
  <2> QED BY <1>2, <2>3, <2>4, <2>5
<1> HIDE DEF f
<1>6. /\ Len(stack') = n /\ stack'[n] = f /\ \A i \in 1 .. n - 1 : stack'[i] = stack[i]
      /\ DOMAIN stack' = 1 .. n /\ stack' # <<>> /\ Top' = f
  <2>1. stack \in Seq(Frames) BY <1>1 DEF TypeInv
  <2>2. /\ stack' \in Seq(Frames) /\ Len(stack') = n /\ stack'[n] = f
        /\ \A i \in 1 .. n - 1 : stack'[i] = stack[i]
    BY <1>2, <1>5, <2>1, Replaced DEF Below
  <2> QED BY <1>3, <2>2, LenProperties, EmptySeq DEF Top
<1>7. \A i \in 1 .. n : /\ stack'[i].kind = stack[i].kind /\ stack'[i].irq = stack[i].irq
                        /\ stack'[i].who = stack[i].who
  <2>1. n \in Nat BY <1>3
  <2> HIDE DEF n
  <2>2. \A i \in 1 .. n : i = n \/ i \in 1 .. n - 1 BY <2>1
  <2> QED BY <2>2, <1>2, <1>3, <1>5, <1>6
<1>8. Arming' = Arming /\ Used' = Used /\ Timeout' = Timeout /\ FirstOnly'
  BY <1>2, <1>3, <1>6, <1>7 DEF Arming, Used, Timeout, TimerInv, FirstOnly
<1>9. \A i \in 2 .. NEntries : GetTimeout(entries[i]) = 0 BY Facts
<1>10. Used /\ (Top.irq => Top.at # 1 /\ f.first = 0)
       /\ (~Top.irq => f.first = Timeout /\ comparator <= now)
  <2>1. CASE Top.irq
    <3>1. Used /\ Top.first = 0 /\ (Top.at = 1 => Timeout < comparator /\ comparator <= Top.time)
      BY <1>2, <2>1, HandlerAlone
    <3>2. Top.at # 1
      <4> SUFFICES ASSUME Top.at = 1 PROVE FALSE OBVIOUS
      <4>1. Timeout < Top.time /\ entries[1] \in Entries /\ Timeout \in Nat
        <5>1. Timeout \in Nat /\ comparator \in Nat /\ Top.time \in Nat
          BY <1>1, <1>3, Facts DEF TypeInv, Frames
        <5>2. Timeout < Top.time BY <3>1, <5>1
        <5> QED BY <5>1, <5>2, Facts
      <4>2. IsExpired(entries[1], Top.time)
        BY <1>3, <3>1, <4>1, BoundAssumption
        DEF IsExpired, Used, Timeout, GetTimeout, Entries, Frames
      <4> QED BY <1>2, <4>2
    <3>3. GetTimeout(entries[Top.at]) = 0 BY <1>4, <1>9, <3>2, BoundAssumption
    <3> QED BY <2>1, <1>5, <3>1, <3>2, <3>3 DEF Earliest
  <2>2. CASE ~Top.irq
    <3>1. Used /\ Timeout # 0 BY <1>2, <2>2, ArmedAhead
    <3>2. CheckRule(n) BY <1>3 DEF TimerInv, Rules
    <3>3. CASE Top.at = 1
      <4>1. Top.first = 0 /\ comparator <= now BY <1>2, <1>3, <2>2, <3>2, <3>3 DEF CheckRule
      <4> QED BY <2>2, <1>5, <3>1, <3>3, <4>1 DEF Earliest, Timeout
    <3>4. CASE Top.at # 1
      <4>1. Top.first = Timeout /\ comparator <= now BY <1>2, <1>3, <2>2, <3>2, <3>4 DEF CheckRule
      <4>2. GetTimeout(entries[Top.at]) = 0 BY <1>4, <1>9, <3>4, BoundAssumption
      <4> QED BY <2>2, <1>5, <3>1, <4>1, <4>2 DEF Earliest
    <3> QED BY <3>3, <3>4
  <2> QED BY <2>1, <2>2
<1>11. Rules'
  <2> SUFFICES ASSUME NEW i \in 1 .. n PROVE CheckRule(i)' /\ ClientRule(i)' /\ WaitRule(i)'
    BY <1>6 DEF Rules
  <2>1. CheckRule(i) /\ ClientRule(i) /\ WaitRule(i) BY <1>3 DEF TimerInv, Rules
  <2>2. i > 1 => i - 1 \in 1 .. n BY <1>3
  <2>3. i + 1 = n => i + 1 \in 1 .. n BY <1>3
  <2>4. ClientRule(i)'
    BY <2>1, <2>2, <1>2, <1>3, <1>6, <1>7, ZenonT(60) DEF ClientRule
  <2>5. CASE i = n
    <3>1. CheckRule(i)'
      <4>1. i > 1 => stack'[i - 1].kind = stack[i - 1].kind BY <2>2, <1>7
      <4>2. f.at # 1 /\ stack'[i] = f /\ i = Len(stack') BY <1>4, <1>5, <1>6, <2>5
      <4> QED BY <2>1, <2>5, <4>1, <4>2, <1>2, <1>3, <1>5, <1>8, <1>10 DEF CheckRule
    <3> QED BY <3>1, <2>4, <2>5, <1>5, <1>6 DEF WaitRule
  <2>6. CASE i \in 1 .. n - 1
    <3>1. stack'[i] = stack[i] /\ Len(stack') = Len(stack) BY <2>6, <1>6
    <3>2. i > 1 => i - 1 \in 1 .. n - 1 BY <2>6, <1>3
    <3>3. i > 1 => stack'[i - 1] = stack[i - 1] BY <3>2, <1>6
    <3>4. CheckRule(i)' BY <2>1, <3>1, <3>3, <1>2, <1>8 DEF CheckRule
    <3>5. WaitRule(i)'
      BY <2>1, <2>3, <3>1, <3>3, <1>2, <1>3, <1>7, <1>8 DEF WaitRule
    <3> QED BY <2>4, <3>4, <3>5
  <2>7. n \in Nat BY <1>3
  <2>8. i = n \/ i \in 1 .. n - 1
    <3> HIDE DEF n
    <3> QED BY <2>7
  <2> QED BY <2>5, <2>6, <2>8
<1>12. Free' BY <1>8, <1>10 DEF Free
<1>13. Awaited'
  <2> SUFFICES ASSUME ~Arming PROVE Awaited' BY <1>8 DEF Awaited
  <2>1. Top.irq => Top.at # 1 BY <1>10
  <2>2. entries' = entries BY <1>2
  <2> QED BY <2>1, <2>2, <1>2, <1>8, <1>10 DEF TimerInv, Awaited
<1>14. Calm' BY <1>2, <1>6, <1>8 DEF TimerInv, Calm, Busy
<1> QED BY <1>1, <1>2, <1>8, <1>11, <1>12, <1>13, <1>14 DEF TimerInv

\* The end of a wait's timer_check, at the first of its two looks at the clock.
LEMMA ReadClockKeeps == TimerInv /\ ReadClock => TimerInv'
<1> SUFFICES ASSUME TimerInv, ReadClock PROVE TimerInv' OBVIOUS
<1> DEFINE n == Len(stack)
           f == [Top EXCEPT !.at = @ + 1, !.time = now]
<1>1. TypeInv /\ TypeInv' BY NextTypeInv DEF TimerInv, Next
<1>2. /\ stack # <<>> /\ Top.kind = "check" /\ ~broken'
      /\ Top.at = NEntries + 1 /\ Top.first # 0
      /\ UNCHANGED <<now, comparator, pending, entries, state, deadline, lag>>
      /\ stack' = Append(Below, f)
  BY DEF ReadClock, TopIs, TimerInv
<1>3. n \in Nat /\ n >= 1 /\ Top = stack[n] /\ Top \in Frames /\ DOMAIN stack = 1 .. n
  BY <1>1, <1>2, TopOfStack
<1>4. ~Top.irq BY <1>2, HandlerAlone
<1>5. f.kind = "check" /\ ~f.irq /\ f.at = Top.at + 1 /\ f.time = now
      /\ f.first = Top.first /\ f.who = Top.who /\ f \in Frames
  <2>1. Top.at + 1 \in Nat \ {0} /\ now \in Nat BY <1>1, <1>3 DEF Frames, TypeInv
  <2>2. f \in Frames BY <1>3, <2>1, FrameTurned, Zenon
  <2>3. f.kind = Top.kind /\ f.irq = Top.irq /\ f.first = Top.first /\ f.who = Top.who
    BY <1>3 DEF Frames
  <2>4. f.at = Top.at + 1 /\ f.time = now BY <1>3 DEF Frames
  <2> QED BY <1>2, <1>4, <2>2, <2>3, <2>4
<1> HIDE DEF f
<1>6. /\ Len(stack') = n /\ stack'[n] = f /\ \A i \in 1 .. n - 1 : stack'[i] = stack[i]
      /\ DOMAIN stack' = 1 .. n /\ stack' # <<>> /\ Top' = f
  <2>1. stack \in Seq(Frames) BY <1>1 DEF TypeInv
  <2>2. /\ stack' \in Seq(Frames) /\ Len(stack') = n /\ stack'[n] = f
        /\ \A i \in 1 .. n - 1 : stack'[i] = stack[i]
    BY <1>2, <1>5, <2>1, Replaced DEF Below
  <2> QED BY <1>3, <2>2, LenProperties, EmptySeq DEF Top
<1>7. \A i \in 1 .. n : /\ stack'[i].kind = stack[i].kind /\ stack'[i].irq = stack[i].irq
                        /\ stack'[i].who = stack[i].who
  <2>1. n \in Nat BY <1>3
  <2>2. Top.irq \in BOOLEAN /\ f.irq \in BOOLEAN BY <1>3, <1>5 DEF Frames
  <2> HIDE DEF n
  <2>3. \A i \in 1 .. n : i = n \/ i \in 1 .. n - 1 BY <2>1
  <2>4. f.kind = Top.kind /\ f.irq = Top.irq /\ f.who = Top.who BY <1>2, <1>4, <1>5, <2>2
  <2> QED BY <2>3, <2>4, <1>3, <1>6
<1>8. Arming' = Arming /\ Used' = Used /\ Timeout' = Timeout /\ FirstOnly'
  BY <1>2, <1>3, <1>6, <1>7 DEF Arming, Used, Timeout, TimerInv, FirstOnly
<1>9. Arming /\ Used BY <1>2, <1>4, ArmedAhead
<1>10. Rules'
  <2> SUFFICES ASSUME NEW i \in 1 .. n PROVE CheckRule(i)' /\ ClientRule(i)' /\ WaitRule(i)'
    BY <1>6 DEF Rules
  <2>1. CheckRule(i) /\ ClientRule(i) /\ WaitRule(i) BY <1>3 DEF TimerInv, Rules
  <2>2. i > 1 => i - 1 \in 1 .. n BY <1>3
  <2>3. i + 1 = n => i + 1 \in 1 .. n BY <1>3
  <2>4. ClientRule(i)'
    BY <2>1, <2>2, <1>2, <1>3, <1>6, <1>7, ZenonT(60) DEF ClientRule
  <2>5. CASE i = n
    <3>1. i > 1 => stack'[i - 1].kind = stack[i - 1].kind BY <2>2, <1>7
    <3>2. Top.at # 1 /\ f.at # 1 /\ stack'[i] = f /\ i = Len(stack')
      BY <1>2, <1>5, <1>6, <2>5, BoundAssumption
    <3>3. now <= f.time + lag /\ f.time <= now BY <1>1, <1>5, BoundAssumption DEF TypeInv
    <3>4. Top.first = Timeout /\ comparator <= now
      BY <2>1, <2>5, <3>2, <1>2, <1>3, <1>4 DEF CheckRule
    <3>5. i # 1 /\ (i > 1 => stack[i - 1].kind = "wait")
      BY <2>1, <2>5, <1>2, <1>3, <1>4 DEF CheckRule
    <3>6. CheckRule(i)'
      BY <3>1, <3>2, <3>3, <3>4, <3>5, <1>2, <1>5, <1>8 DEF CheckRule
    <3> QED BY <3>6, <2>4, <2>5, <1>5, <1>6 DEF WaitRule
  <2>6. CASE i \in 1 .. n - 1
    <3>1. stack'[i] = stack[i] /\ Len(stack') = Len(stack) BY <2>6, <1>6
    <3>2. i > 1 => i - 1 \in 1 .. n - 1 BY <2>6, <1>3
    <3>3. i > 1 => stack'[i - 1] = stack[i - 1] BY <3>2, <1>6
    <3>4. CheckRule(i)' BY <2>1, <3>1, <3>3, <1>2, <1>8 DEF CheckRule
    <3>5. WaitRule(i)'
      BY <2>1, <2>3, <3>1, <3>3, <1>2, <1>3, <1>7, <1>8 DEF WaitRule
    <3> QED BY <2>4, <3>4, <3>5
  <2>7. n \in Nat BY <1>3
  <2>8. i = n \/ i \in 1 .. n - 1
    <3> HIDE DEF n
    <3> QED BY <2>7
  <2> QED BY <2>5, <2>6, <2>8
<1>11. Free' /\ Awaited' BY <1>8, <1>9 DEF Free, Awaited
<1>12. Calm' BY <1>2, <1>6, <1>8 DEF TimerInv, Calm, Busy
<1> QED BY <1>1, <1>2, <1>8, <1>10, <1>11, <1>12 DEF TimerInv

LEMMA SignalKeeps == TimerInv /\ Signal => TimerInv'
<1> SUFFICES ASSUME TimerInv, Signal PROVE TimerInv' OBVIOUS
<1> DEFINE n == Len(stack)
           e == entries[Top.at]
           o == entries[1].p
           f == [Top EXCEPT !.at = @ + 1]
           g == Frame("client", o, FALSE)
<1>1. TypeInv /\ TypeInv' BY NextTypeInv DEF TimerInv, Next
<1>2. /\ stack # <<>> /\ Top.kind = "check" /\ Top.at <= NEntries
      /\ IsExpired(e, Top.time)
      /\ UNCHANGED <<now, comparator, pending, deadline, lag>>
      /\ entries' = [entries EXCEPT ![Top.at] = Signalled(e)]
      /\ IF e.p # Nobody /\ state[e.p] = "waiting"
           THEN /\ state' = [state EXCEPT ![e.p] = "running"]
                /\ stack' = Below \o <<f, Frame("client", e.p, FALSE)>>
                /\ UNCHANGED broken
           ELSE broken' = TRUE /\ UNCHANGED <<state, stack>>
  BY DEF Signal, TopIs
<1>3. n \in Nat /\ n >= 1 /\ Top = stack[n] /\ Top \in Frames /\ DOMAIN stack = 1 .. n
  BY <1>1, <1>2, TopOfStack
<1>4. Top.at = 1
  <2>1. Top.at \in 1 .. NEntries BY <1>2, <1>3 DEF Frames
  <2>2. Top.at \in 2 .. NEntries => Unused(e) BY Facts
  <2> QED BY <1>2, <2>1, <2>2, BoundAssumption DEF IsExpired
<1>5. Top.irq
  <2> SUFFICES ASSUME ~Top.irq PROVE FALSE OBVIOUS
  <2>1. Timeout > now + 1 /\ Top.time <= now BY <1>2, ArmedAhead
  <2>2. entries[1] \in Entries /\ now \in Nat /\ Top.time \in Nat
    BY <1>1, <1>3, Facts DEF TypeInv, Frames
  <2>3. GetTimeout(entries[1]) > now + 1 BY <2>1 DEF Timeout
  <2> QED BY <1>2, <1>4, <2>1, <2>2, <2>3, BoundAssumption DEF IsExpired, GetTimeout, Entries
<1>6. /\ ~Arming /\ Used /\ ~pending /\ comparator <= Top.time /\ Top.time <= now /\ Top.first = 0
      /\ \A i \in 1 .. n - 1 :
           (stack[i].kind = "check" => stack[i].irq /\ stack[i].at # 1) /\ stack[i].kind # "wait"
  BY <1>2, <1>4, <1>5, HandlerAlone
<1>7. /\ o \in Clients /\ state[o] = "waiting" /\ Timeout = deadline[o]
      /\ now <= Timeout + 1 + Slack + lag
  <2>1. /\ o \in Clients /\ state[o] = "waiting" /\ Timeout = deadline[o]
        /\ comparator <= Timeout + 1 + Slack /\ now <= comparator + lag
    BY <1>6 DEF TimerInv, Awaited
  <2>2. now \in Nat /\ comparator \in Nat /\ lag \in Nat /\ Timeout \in Nat /\ Slack \in Nat
    BY <1>1, Facts, BoundAssumption DEF TypeInv
  <2>3. now <= Timeout + 1 + Slack + lag BY <2>1, <2>2
  <2> QED BY <2>1, <2>3
<1>8. /\ state' = [state EXCEPT ![o] = "running"] /\ ~broken'
      /\ stack' = Below \o <<f, g>>
  BY <1>2, <1>4, <1>7, ClientAssumption DEF TimerInv
<1>9. f.kind = "check" /\ f.irq /\ f.at = 2 /\ f.time = Top.time /\ f.first = 0 /\ f \in Frames
  BY <1>2, <1>3, <1>4, <1>5, <1>6 DEF Frames
<1>10. g.kind = "client" /\ g.who = o /\ g \in Frames
  BY <1>1, <1>7, FramesTyped DEF Frame
<1> HIDE DEF f, g
<1>11. /\ Len(stack') = n + 1 /\ stack'[n] = f /\ stack'[n + 1] = g
       /\ \A i \in 1 .. n - 1 : stack'[i] = stack[i]
       /\ DOMAIN stack' = 1 .. n + 1 /\ stack' # <<>> /\ Top' = g
  <2>1. stack \in Seq(Frames) /\ 1 \in Nat BY <1>1 DEF TypeInv
  <2>2. /\ Below \in Seq(Frames)
        /\ Len(Below) = IF 1 <= Len(stack) THEN Len(stack) - 1 ELSE 0
        /\ \A i \in 1 .. Len(Below) : Below[i] = stack[i]
    BY <2>1, Dropped, Zenon DEF Below
  <2>3. Len(Below) = n - 1 BY <1>3, <2>2
  <2>4. /\ stack' \in Seq(Frames)
        /\ Len(stack') = Len(Below) + 2
        /\ stack'[Len(Below) + 1] = f /\ stack'[Len(Below) + 2] = g
        /\ \A i \in 1 .. Len(Below) : stack'[i] = Below[i]
    BY <1>8, <1>9, <1>10, <2>2, PushedTwo
  <2>5. Len(Below) + 1 = n /\ Len(Below) + 2 = n + 1 BY <1>3, <2>3
  <2>6. Len(stack') = n + 1 /\ stack'[n] = f /\ stack'[n + 1] = g BY <2>4, <2>5
  <2>7. \A i \in 1 .. n - 1 : stack'[i] = stack[i] BY <2>2, <2>3, <2>4
  <2>8. DOMAIN stack' = 1 .. n + 1 BY <2>4, <2>6, LenProperties
  <2>9. stack' # <<>> BY <2>6, <2>8, <1>3
  <2> QED BY <2>6, <2>7, <2>8, <2>9 DEF Top
<1>12. entries'[1] = Signalled(entries[1]) /\ \A i \in 2 .. NEntries : entries'[i] = entries[i]
  BY <1>1, <1>2, <1>4, BoundAssumption DEF TypeInv
<1>13. ~Used' /\ ~entries'[1].utc /\ FirstOnly'
  <2>1. entries[1] \in Entries BY Facts
  <2> QED BY <1>12, <2>1 DEF Used, Unused, Signalled, Entries, TimerInv, FirstOnly
<1>14. \A i \in 1 .. n + 1 : i = n \/ i = n + 1 \/ i \in 1 .. n - 1
  <2>1. n \in Nat BY <1>3
  <2> HIDE DEF n
  <2> QED BY <2>1
<1>15. ~Arming' BY <1>6, <1>9, <1>10, <1>11, <1>14 DEF Arming
<1>16. \A i \in 1 .. n - 1 : stack[i].kind = "client" => ClientRule(i) /\ stack[i].who # o
  <2> TAKE i \in 1 .. n - 1
  <2>1. n \in Nat BY <1>3
  <2>2. i \in 1 .. n
    <3> HIDE DEF n
    <3> QED BY <2>1
  <2>3. ClientRule(i) BY <1>3, <2>2 DEF TimerInv, Rules
  <2> QED BY <1>7, <2>3 DEF ClientRule
<1>17. Rules'
  <2> SUFFICES ASSUME NEW i \in 1 .. n + 1 PROVE CheckRule(i)' /\ ClientRule(i)' /\ WaitRule(i)'
    BY <1>11 DEF Rules
  <2>1. CASE i = n + 1
    <3>1. i > 1 /\ i - 1 = n BY <2>1, <1>3
    <3>2. stack'[i - 1].kind = "check" /\ stack'[i - 1].irq BY <3>1, <1>9, <1>11
    <3>3. \A j \in 1 .. n + 1 : stack'[j].kind = "client" /\ stack'[j].who = o => j = n + 1
      BY <1>9, <1>11, <1>14, <1>16
    <3>4. state'[o] = "running" /\ deadline'[o] = deadline[o] BY <1>1, <1>2, <1>7, <1>8 DEF TypeInv
    <3>5. ClientRule(i)'
      BY <2>1, <3>2, <3>3, <3>4, <1>2, <1>7, <1>10, <1>11 DEF ClientRule
    <3> QED BY <3>5, <2>1, <1>10, <1>11 DEF CheckRule, WaitRule
  <2>2. CASE i = n
    <3>1. CheckRule(n) BY <1>3 DEF TimerInv, Rules
    <3>2. n > 1 => n - 1 \in 1 .. n - 1 BY <1>3
    <3>3. n > 1 => stack'[n - 1].kind = "client"
      BY <3>1, <3>2, <1>2, <1>3, <1>5, <1>11 DEF CheckRule
    <3>4. stack'[i] = f /\ f.time <= now' BY <2>2, <1>2, <1>6, <1>9, <1>11
    <3>5. CheckRule(i)' BY <2>2, <3>3, <3>4, <1>9 DEF CheckRule
    <3> QED BY <3>4, <3>5, <1>9 DEF ClientRule, WaitRule
  <2>3. CASE i \in 1 .. n - 1
    <3>1. i \in 1 .. n /\ (i > 1 => i - 1 \in 1 .. n - 1)
      <4>1. n \in Nat BY <1>3
      <4> HIDE DEF n
      <4> QED BY <2>3, <4>1
    <3>2. CheckRule(i) BY <1>3, <3>1 DEF TimerInv, Rules
    <3>3. stack'[i] = stack[i] /\ (i > 1 => stack'[i - 1] = stack[i - 1])
      BY <2>3, <3>1, <1>11
    <3>4. CheckRule(i)'
      BY <2>3, <3>2, <3>3, <1>2, <1>6 DEF CheckRule
    <3>5. ClientRule(i)'
      <4> SUFFICES ASSUME stack[i].kind = "client" PROVE ClientRule(i)'
        BY <3>3 DEF ClientRule
      <4>1. ClientRule(i) /\ stack[i].who # o BY <2>3, <1>16
      <4>2. state'[stack[i].who] = state[stack[i].who] BY <4>1, <1>1, <1>8 DEF TypeInv
      <4>3. ASSUME NEW j \in 1 .. n + 1, stack'[j].kind = "client", stack'[j].who = stack[i].who
            PROVE  j = i
        <5>1. j \in 1 .. n - 1 BY <4>1, <4>3, <1>9, <1>10, <1>11, <1>14
        <5>2. j \in 1 .. n
          <6>1. n \in Nat BY <1>3
          <6> HIDE DEF n
          <6> QED BY <5>1, <6>1
        <5> QED BY <4>1, <4>3, <5>1, <5>2, <1>3, <1>11 DEF ClientRule
      <4> QED BY <4>1, <4>2, <4>3, <3>3, <1>2, <1>11 DEF ClientRule
    <3>6. WaitRule(i)' BY <2>3, <3>3, <1>6 DEF WaitRule
    <3> QED BY <3>4, <3>5, <3>6
  <2> QED BY <2>1, <2>2, <2>3, <1>14
<1>18. Free'
  <2>0. comparator \in Nat /\ Top.time \in Nat /\ now \in Nat
    BY <1>1, <1>3 DEF TypeInv, Frames
  <2>1. comparator <= now BY <2>0, <1>6
  <2> QED BY <2>1, <1>2, <1>6, <1>10, <1>11, <1>13, <1>15 DEF Free
<1>19. Awaited' /\ Calm' BY <1>11, <1>13, <1>15 DEF Awaited, Calm, Busy
<1> QED BY <1>1, <1>2, <1>8, <1>13, <1>17, <1>18, <1>19 DEF TimerInv

\* A call returns: the frames under it, none of which arms an entry, stay.
LEMMA ReturnKeeps ==
  ASSUME TimerInv, NEW m \in Nat, m <= Len(stack),
         Len(stack') = m, DOMAIN stack' = 1 .. m, \A i \in 1 .. m : stack'[i] = stack[i],
         \A i \in 1 .. m : (stack[i].kind = "check" => stack[i].irq /\ stack[i].at # 1)
                           /\ stack[i].kind # "wait",
         \A i \in 1 .. m : stack[i].kind = "client" =>
                           /\ state'[stack[i].who] = state[stack[i].who]
                           /\ deadline'[stack[i].who] = deadline[stack[i].who],
         now' = now, m # 0 => lag' = lag
  PROVE  Rules' /\ ~Arming'
<1>1. ~Arming' BY DEF Arming
<1>2. ASSUME NEW i \in 1 .. m PROVE CheckRule(i)' /\ ClientRule(i)' /\ WaitRule(i)'
  <2>1. i \in 1 .. Len(stack) /\ m # 0 /\ (i > 1 => i - 1 \in 1 .. m) BY Facts
  <2>2. CheckRule(i) /\ ClientRule(i) BY <2>1, Facts DEF TimerInv, Rules
  <2>3. stack'[i] = stack[i] /\ (i > 1 => stack'[i - 1] = stack[i - 1]) BY <2>1
  <2>4. CheckRule(i)' BY <2>2, <2>3 DEF CheckRule
  <2>5. ClientRule(i)'
    <3>1. \A j \in 1 .. m : j \in 1 .. Len(stack) BY Facts
    <3> QED BY <2>1, <2>2, <2>3, <3>1, Facts DEF ClientRule
  <2>6. WaitRule(i)' BY <2>3 DEF WaitRule
  <2> QED BY <2>4, <2>5, <2>6
<1>3. Rules' BY <1>2 DEF Rules
<1> QED BY <1>1, <1>3

\* What is left of the stack when the innermost calls return.
LEMMA Returned ==
  ASSUME TimerInv, NEW k \in Nat, k <= Len(stack), stack' = SubSeq(stack, 1, Len(stack) - k),
         stack' \in Seq(Frames)
  PROVE  /\ Len(stack') = Len(stack) - k /\ DOMAIN stack' = 1 .. Len(stack) - k
         /\ \A i \in 1 .. Len(stack) - k : stack'[i] = stack[i]
         /\ stack' = <<>> <=> Len(stack) - k = 0
<1>1. stack \in Seq(Frames) BY DEF TimerInv, TypeInv
<1>2. /\ Len(stack') = IF k <= Len(stack) THEN Len(stack) - k ELSE 0
      /\ \A i \in 1 .. Len(stack') : stack'[i] = stack[i]
  BY <1>1, Dropped, Zenon
<1>3. Len(stack') = Len(stack) - k BY <1>2
<1>4. DOMAIN stack' = 1 .. Len(stack') BY LenProperties
<1>5. stack' = <<>> <=> Len(stack') = 0 BY EmptySeq
<1> QED BY <1>2, <1>3, <1>4, <1>5

LEMMA CheckDoneKeeps == TimerInv /\ CheckDone => TimerInv'
<1> SUFFICES ASSUME TimerInv, CheckDone PROVE TimerInv' OBVIOUS
<1> DEFINE n == Len(stack)
<1>1. TypeInv /\ TypeInv' BY NextTypeInv DEF TimerInv, Next
<1>2. /\ stack # <<>> /\ Top.kind = "check" /\ ~broken'
      /\ Top.at = NEntries + (IF Top.first = 0 THEN 1 ELSE 2)
      /\ comparator' = IF Top.first = 0 THEN comparator ELSE Programmed(Top.first, Top.time)
      /\ stack' = Below
      /\ lag' = IF Below = <<>> /\ ~pending THEN 0 ELSE lag
      /\ UNCHANGED <<now, pending, entries, state, deadline>>
  BY DEF CheckDone, TopIs, TimerInv
<1>3. n \in Nat /\ n >= 1 /\ Top = stack[n] /\ Top \in Frames /\ DOMAIN stack = 1 .. n
  BY <1>1, <1>2, TopOfStack
<1>4. Top.at # 1 BY <1>2, <1>3, BoundAssumption DEF Frames
<1>5. /\ Len(stack') = n - 1 /\ DOMAIN stack' = 1 .. n - 1
      /\ \A i \in 1 .. n - 1 : stack'[i] = stack[i]
      /\ stack' = <<>> <=> n - 1 = 0
  <2>1. stack' \in Seq(Frames) /\ 1 \in Nat /\ 1 <= Len(stack) BY <1>1, <1>3 DEF TypeInv
  <2>2. stack' = SubSeq(stack, 1, Len(stack) - 1) BY <1>2 DEF Below
  <2> QED BY <2>1, <2>2, Returned
<1>6. Used' = Used /\ Timeout' = Timeout /\ FirstOnly' /\ entries' = entries
  BY <1>2 DEF Used, Timeout, TimerInv, FirstOnly
<1>7. CASE Top.irq
  <2>1. /\ ~Arming /\ Used /\ Top.first = 0
        /\ \A i \in 1 .. n - 1 :
             (stack[i].kind = "check" => stack[i].irq /\ stack[i].at # 1) /\ stack[i].kind # "wait"
    BY <1>2, <1>7, HandlerAlone
  <2>2. Rules' /\ ~Arming'
    <3>1. n - 1 \in Nat /\ n - 1 <= Len(stack) BY <1>3
    <3>2. n - 1 # 0 => lag' = lag BY <1>2, <1>5
    <3> HIDE DEF n
    <3> QED BY <3>1, <3>2, <1>2, <1>5, <2>1, ReturnKeeps
  <2>3. comparator' = comparator BY <1>2, <2>1
  <2>4. /\ entries[1].p \in Clients /\ state[entries[1].p] = "waiting"
        /\ Timeout = deadline[entries[1].p]
        /\ Timeout < comparator /\ comparator <= Timeout + 1 + Slack
        /\ now <= comparator + lag
        /\ now >= comparator => pending
        /\ pending => now >= comparator
    BY <1>4, <2>1 DEF TimerInv, Awaited
  <2>5. now <= comparator + lag'
    <3>1. now \in Nat /\ comparator \in Nat /\ lag \in Nat BY <1>1 DEF TypeInv
    <3>2. CASE lag' = lag BY <3>2, <2>4
    <3>3. CASE lag' = 0 /\ ~pending BY <3>1, <3>3, <2>4
    <3> QED BY <1>2, <3>2, <3>3
  <2>6. Awaited' BY <1>2, <1>6, <2>3, <2>4, <2>5 DEF Awaited
  <2>7. Free' BY <2>1, <1>6 DEF Free
  <2>8. Calm' BY <2>2, <1>2 DEF Calm, Busy
  <2> QED BY <1>1, <1>2, <1>6, <2>2, <2>6, <2>7, <2>8 DEF TimerInv
<1>8. CASE ~Top.irq
  <2>1. /\ Arming /\ Used /\ Timeout > now + 1 /\ Timeout # 0
        /\ n > 1 /\ WaitRule(n - 1) /\ stack[n - 1].kind = "wait"
        /\ \A i \in 1 .. n - 1 :
             (stack[i].kind = "check" => stack[i].irq /\ stack[i].at # 1)
             /\ (stack[i].kind = "wait" => i = n - 1)
    BY <1>2, <1>8, ArmedAhead
  <2>2. CheckRule(n) BY <1>3 DEF TimerInv, Rules
  <2>3. Top.first = Timeout BY <1>2, <1>3, <1>4, <1>8, <2>2 DEF CheckRule
  <2>4. Timeout < comparator' /\ comparator' <= Timeout + 1 + Slack
    <3>1. /\ Timeout \in Nat /\ now \in Nat /\ Top.time \in Nat
          /\ lag \in Nat /\ lag <= Slack /\ Slack \in Nat
      BY <1>1, <1>3, Facts, BoundAssumption DEF TypeInv, Frames
    <3>2. Top.time <= now /\ now <= Top.time + lag
      BY <1>2, <1>3, <1>8, <2>2 DEF CheckRule
    <3>3. Programmed(Timeout, Top.time) = now + (Timeout - Top.time) + 1
      BY <2>1, <3>1, <3>2 DEF Programmed
    <3>4. comparator' = now + (Timeout - Top.time) + 1 BY <1>2, <2>1, <2>3, <3>3
    <3> QED BY <3>1, <3>2, <3>4
  <2>5. lag' = lag BY <1>2, <1>5, <2>1
  <2>6. n - 1 \in 1 .. n - 1 /\ stack'[n - 1] = stack[n - 1]
    <3>1. n - 1 \in 1 .. n - 1
      <4>1. n \in Nat /\ n > 1 BY <1>3, <2>1
      <4> HIDE DEF n
      <4> QED BY <4>1
    <3> QED BY <3>1, <1>5
  <2>7. Arming' BY <1>5, <2>1, <2>6 DEF Arming
  <2>8. Rules'
    <3> SUFFICES ASSUME NEW i \in 1 .. n - 1 PROVE CheckRule(i)' /\ ClientRule(i)' /\ WaitRule(i)'
      BY <1>5 DEF Rules
    <3>1. i \in 1 .. n /\ (i > 1 => i - 1 \in 1 .. n - 1) /\ \A j \in 1 .. n - 1 : j \in 1 .. n
      <4>1. n \in Nat BY <1>3
      <4> HIDE DEF n
      <4> QED BY <4>1
    <3>2. CheckRule(i) /\ ClientRule(i) /\ WaitRule(i) BY <1>3, <3>1 DEF TimerInv, Rules
    <3>3. stack'[i] = stack[i] /\ (i > 1 => stack'[i - 1] = stack[i - 1]) BY <3>1, <1>5
    <3>4. CheckRule(i)' BY <3>2, <3>3, <1>2, <2>1 DEF CheckRule
    <3>5. ClientRule(i)' BY <3>1, <3>2, <3>3, <1>2, <1>3, <1>5, <2>5 DEF ClientRule
    <3>6. WaitRule(i)'
      <4> SUFFICES ASSUME stack[i].kind = "wait" PROVE WaitRule(i)' BY <3>3 DEF WaitRule
      <4>1. i = n - 1 BY <2>1
      <4>2. i = Len(stack') BY <4>1, <1>5
      <4> QED BY <4>2, <3>2, <3>3, <1>2, <1>6, <2>4, <2>5 DEF WaitRule
    <3> QED BY <3>4, <3>5, <3>6
  <2>9. Free' BY <2>1, <1>6 DEF Free
  <2>10. Awaited' BY <2>7 DEF Awaited
  <2>11. Calm'
    <3>1. ~pending BY <2>1 DEF TimerInv, Calm
    <3>2. stack' # <<>> BY <1>5, <2>1
    <3> QED BY <3>1, <3>2, <1>2 DEF Calm, Busy
  <2> QED BY <1>1, <1>2, <1>6, <2>8, <2>9, <2>10, <2>11 DEF TimerInv
<1> QED BY <1>7, <1>8

\* A coroutine that runs was started, or resumed by the interrupt's timer_check,
\* which has passed the first entry.
LEMMA ClientRuns ==
  ASSUME TimerInv, stack # <<>>, Top.kind = "client"
  PROVE  /\ ~Arming /\ ClientRule(Len(stack))
         /\ \A i \in 1 .. Len(stack) - 1 :
              (stack[i].kind = "check" => stack[i].irq /\ stack[i].at # 1)
              /\ stack[i].kind # "wait"
              /\ (stack[i].kind = "client" => stack[i].who # Top.who)
<1> DEFINE n == Len(stack)
<1>1. n \in Nat /\ n >= 1 /\ Top = stack[n] /\ DOMAIN stack = 1 .. n BY Facts
<1>2. ~Arming BY Facts
<1>3. ClientRule(n) BY <1>1 DEF TimerInv, Rules
<1>4. ASSUME NEW i \in 1 .. n - 1
      PROVE  /\ stack[i].kind = "check" => stack[i].irq /\ stack[i].at # 1
             /\ stack[i].kind # "wait"
             /\ stack[i].kind = "client" => stack[i].who # Top.who
  <2>1. CheckRule(i) BY <1>1 DEF TimerInv, Rules
  <2>2. i # n /\ i \in 1 .. n
    <3>1. n \in Nat BY <1>1
    <3> HIDE DEF n
    <3> QED BY <3>1
  <2>3. stack[i] \in Frames BY <1>1, <2>2, Facts
  <2>4. stack[i].irq \in BOOLEAN BY <2>3 DEF Frames
  <2>5. stack[i].kind # "wait" BY <1>1, <1>2, <2>2 DEF Arming
  <2>6. stack[i].kind = "client" => stack[i].who # Top.who
    BY <1>1, <1>3, <2>2 DEF ClientRule
  <2> QED BY <2>1, <2>2, <2>4, <2>5, <2>6 DEF CheckRule
<1> QED BY <1>1, <1>2, <1>3, <1>4

LEMMA WaitInVainKeeps ==
  ASSUME NEW c \in Clients, NEW d \in Delays, TimerInv, WaitInVain(c, d)
  PROVE  TimerInv'
<1> DEFINE n == Len(stack)
           o == entries[1].p
<1>1. TypeInv /\ TypeInv' BY NextTypeInv DEF TimerInv, Next
<1>2. /\ stack # <<>> /\ Top.kind = "client" /\ Top.who = c /\ ~broken' /\ TableFull
      /\ deadline' = [deadline EXCEPT ![c] = TimePoint(c, d)]
      /\ state' = [state EXCEPT ![c] = "waiting"]
      /\ stack' = Below
      /\ lag' = IF Below = <<>> /\ ~pending THEN 0 ELSE lag
      /\ UNCHANGED <<now, comparator, pending, entries>>
  BY DEF WaitInVain, TopIs, TimerInv
<1>3. n \in Nat /\ n >= 1 /\ Top = stack[n] /\ DOMAIN stack = 1 .. n BY <1>2, Facts
<1>4. /\ Len(stack') = n - 1 /\ DOMAIN stack' = 1 .. n - 1
      /\ \A i \in 1 .. n - 1 : stack'[i] = stack[i]
      /\ stack' = <<>> <=> n - 1 = 0
  <2>1. stack' \in Seq(Frames) /\ 1 \in Nat /\ 1 <= Len(stack) BY <1>1, <1>3 DEF TypeInv
  <2>2. stack' = SubSeq(stack, 1, Len(stack) - 1) BY <1>2 DEF Below
  <2> QED BY <2>1, <2>2, Returned
<1>5. Used' = Used /\ Timeout' = Timeout /\ FirstOnly' /\ entries' = entries
  BY <1>2 DEF Used, Timeout, TimerInv, FirstOnly
<1>6. Used BY <1>2, BoundAssumption DEF TableFull, Used
<1>7. /\ ~Arming /\ ClientRule(n)
      /\ \A i \in 1 .. n - 1 :
           (stack[i].kind = "check" => stack[i].irq /\ stack[i].at # 1)
           /\ stack[i].kind # "wait"
           /\ (stack[i].kind = "client" => stack[i].who # c)
  BY <1>2, ClientRuns
<1>8. state[c] = "running" BY <1>2, <1>3, <1>7 DEF ClientRule
<1>9. \A a \in Clients : a # c => state'[a] = state[a] /\ deadline'[a] = deadline[a]
  BY <1>1, <1>2 DEF TypeInv
<1>10. Rules' /\ ~Arming'
  <2>1. n - 1 \in Nat /\ n - 1 <= Len(stack) BY <1>3
  <2>2. n - 1 # 0 => lag' = lag BY <1>2, <1>4
  <2>3. ASSUME NEW i \in 1 .. n - 1, stack[i].kind = "client"
        PROVE  /\ state'[stack[i].who] = state[stack[i].who]
               /\ deadline'[stack[i].who] = deadline[stack[i].who]
    <3>1. i \in 1 .. n
      <4>1. n \in Nat BY <1>3
      <4> HIDE DEF n
      <4> QED BY <4>1
    <3>2. ClientRule(i) BY <1>3, <3>1 DEF TimerInv, Rules
    <3> QED BY <2>3, <3>2, <1>7, <1>9 DEF ClientRule
  <2> HIDE DEF n
  <2> QED BY <2>1, <2>2, <2>3, <1>2, <1>4, <1>7, ReturnKeeps
<1>11. /\ o \in Clients /\ state[o] = "waiting"
       /\ Timeout = deadline[o]
       /\ Timeout < comparator /\ comparator <= Timeout + 1 + Slack
       /\ now <= comparator + lag
       /\ now >= comparator => pending
       /\ pending => now >= comparator
  BY <1>2, <1>6, <1>7 DEF TimerInv, Awaited
<1>12. o # c BY <1>8, <1>11
<1>13. now <= comparator + lag'
  <2>1. now \in Nat /\ comparator \in Nat /\ lag \in Nat BY <1>1 DEF TypeInv
  <2>2. CASE lag' = lag BY <2>2, <1>11
  <2>3. CASE lag' = 0 /\ ~pending BY <2>1, <2>3, <1>11
  <2> QED BY <1>2, <2>2, <2>3
<1>14. Awaited' BY <1>2, <1>5, <1>9, <1>11, <1>12, <1>13 DEF Awaited
<1>15. Free' BY <1>5, <1>6 DEF Free
<1>16. Calm' BY <1>2, <1>10 DEF Calm, Busy
<1> QED BY <1>1, <1>2, <1>5, <1>10, <1>14, <1>15, <1>16 DEF TimerInv

LEMMA SuspendKeeps == TimerInv /\ Suspend => TimerInv'
<1> SUFFICES ASSUME TimerInv, Suspend PROVE TimerInv' OBVIOUS
<1> DEFINE n == Len(stack)
           c == Top.who
<1>1. TypeInv /\ TypeInv' BY NextTypeInv DEF TimerInv, Next
<1>2. /\ stack # <<>> /\ Top.kind = "wait" /\ ~broken'
      /\ entries' = [entries EXCEPT ![Top.at].p = c]
      /\ state' = [state EXCEPT ![c] = "waiting"]
      /\ stack' = SubSeq(stack, 1, Len(stack) - 2)
      /\ lag' = IF stack' = <<>> /\ ~pending THEN 0 ELSE lag
      /\ UNCHANGED <<now, comparator, pending, deadline>>
  BY DEF Suspend, TopIs, TimerInv
<1>3. n \in Nat /\ n >= 1 /\ Top = stack[n] /\ DOMAIN stack = 1 .. n BY <1>2, Facts
<1>4. WaitRule(n) BY <1>3 DEF TimerInv, Rules
<1>5. /\ n > 1 /\ stack[n - 1].kind = "client" /\ stack[n - 1].who = c
      /\ Timeout < comparator /\ comparator <= Timeout + 1 + Slack /\ Top.at = 1 /\ Used
      /\ Timeout = deadline[c] /\ now + (Slack - lag) + 1 < Timeout
  BY <1>2, <1>3, <1>4 DEF WaitRule
<1>6. n - 1 \in 1 .. n
  <2> HIDE DEF n
  <2> QED BY <1>3, <1>5
<1>7. ClientRule(n - 1) BY <1>3, <1>6 DEF TimerInv, Rules
<1>8. c \in Clients BY <1>5, <1>7 DEF ClientRule
<1>9. /\ Len(stack') = n - 2 /\ DOMAIN stack' = 1 .. n - 2
      /\ \A i \in 1 .. n - 2 : stack'[i] = stack[i]
      /\ stack' = <<>> <=> n - 2 = 0
  <2>1. stack' \in Seq(Frames) /\ 2 \in Nat /\ 2 <= Len(stack) BY <1>1, <1>3, <1>5 DEF TypeInv
  <2> QED BY <1>2, <2>1, Returned
<1>10. entries[1] \in Entries /\ entries'[1] = [entries[1] EXCEPT !.p = c]
       /\ \A i \in 2 .. NEntries : entries'[i] = entries[i]
  BY <1>1, <1>2, <1>5, BoundAssumption, Facts DEF TypeInv
<1>11. entries'[1].p = c /\ entries'[1].expire = entries[1].expire /\ entries'[1].utc = entries[1].utc
  BY <1>10 DEF Entries
<1>12. Used' /\ Timeout' = Timeout /\ FirstOnly'
  BY <1>5, <1>10, <1>11 DEF Used, Unused, Timeout, GetTimeout, TimerInv, FirstOnly
<1>13. ~pending
  <2>1. Arming BY <1>2, <1>3 DEF Arming
  <2> QED BY <2>1 DEF TimerInv, Calm
<1>14. \A i \in 1 .. n - 2 : i \in 1 .. n /\ i # n /\ i # n - 1 /\ i + 1 # n
  <2>1. n \in Nat BY <1>3
  <2> HIDE DEF n
  <2> QED BY <2>1
<1>15. ASSUME NEW i \in 1 .. n - 2
       PROVE  /\ stack[i].kind = "check" => stack[i].irq /\ stack[i].at # 1
              /\ stack[i].kind # "wait"
              /\ stack[i].kind = "client" => stack[i].who \in Clients /\ stack[i].who # c
  <2>1. CheckRule(i) /\ ClientRule(i) /\ WaitRule(i) BY <1>3, <1>14 DEF TimerInv, Rules
  <2>2. stack[i] \in Frames BY <1>14, Facts
  <2>3. stack[i].irq \in BOOLEAN BY <2>2 DEF Frames
  <2>4. stack[i].kind = "client" => stack[i].who \in Clients /\ stack[i].who # c
    BY <1>3, <1>5, <1>6, <1>14, <2>1 DEF ClientRule
  <2> QED BY <1>14, <2>1, <2>3, <2>4 DEF CheckRule, WaitRule
<1>16. Rules' /\ ~Arming'
  <2>1. n - 2 \in Nat /\ n - 2 <= Len(stack) BY <1>3, <1>5
  <2>2. n - 2 # 0 => lag' = lag BY <1>2, <1>9
  <2>3. \A i \in 1 .. n - 2 : stack[i].kind = "client" =>
            /\ state'[stack[i].who] = state[stack[i].who]
            /\ deadline'[stack[i].who] = deadline[stack[i].who]
    BY <1>1, <1>2, <1>15 DEF TypeInv
  <2> HIDE DEF n
  <2> QED BY <2>1, <2>2, <2>3, <1>2, <1>9, <1>15, ReturnKeeps
<1>17. Awaited'
  <2>1. /\ now \in Nat /\ comparator \in Nat /\ Timeout \in Nat /\ Slack \in Nat
        /\ lag \in 0 .. Slack
    BY <1>1, BoundAssumption, Facts DEF TypeInv
  <2>2. now + (Slack - lag) + 1 < Timeout /\ Timeout < comparator BY <1>5
  <2>4. now < comparator
    <3>1. now < Timeout BY <2>1, <2>2
    <3> QED BY <2>1, <2>2, <3>1
  <2>5. now <= comparator + lag' /\ ~(now >= comparator)
    <3>1. now <= comparator + lag /\ now <= comparator + 0 BY <2>1, <2>4
    <3>2. lag' = lag \/ lag' = 0 BY <1>2
    <3>3. ~(now >= comparator) BY <2>1, <2>4
    <3> QED BY <3>1, <3>2, <3>3
  <2>3. state'[c] = "waiting" BY <1>1, <1>2, <1>8 DEF TypeInv
  <2> QED BY <1>2, <1>5, <1>8, <1>11, <1>12, <1>13, <2>3, <2>5 DEF Awaited
<1>18. Free' BY <1>12 DEF Free
<1>19. Calm' BY <1>2, <1>16 DEF Calm, Busy
<1> QED BY <1>1, <1>2, <1>12, <1>16, <1>17, <1>18, <1>19 DEF TimerInv

LEMMA WaitKeeps ==
  ASSUME OneUser, NEW c \in Clients, NEW d \in Delays, TimerInv, Wait(c, d)
  PROVE  TimerInv'
<1> DEFINE n == Len(stack)
           t == TimePoint(c, d)
<1>1. TypeInv /\ TypeInv' BY NextTypeInv DEF TimerInv, Next
<1>2. /\ stack # <<>> /\ Top.kind = "client" /\ Top.who = c /\ ~broken'
      /\ deadline' = [deadline EXCEPT ![c] = t]
      /\ UNCHANGED <<now, comparator, pending, state, lag>>
  BY DEF Wait, TopIs, TimerInv
<1>3. PICK k \in 1 .. NEntries :
        /\ FirstUnused(k)
        /\ entries' = [entries EXCEPT ![k].expire = Expire(c, t), ![k].utc = c \in Periodic]
        /\ stack' = stack \o <<[Frame("wait", c, FALSE) EXCEPT !.at = k], CheckFrame(FALSE)>>
  BY DEF Wait
<1> HIDE DEF t
<1>4. n \in Nat /\ n >= 1 /\ Top = stack[n] /\ DOMAIN stack = 1 .. n BY <1>2, Facts
<1>5. /\ ~Arming /\ ClientRule(n)
      /\ \A i \in 1 .. n - 1 :
           (stack[i].kind = "check" => stack[i].irq /\ stack[i].at # 1)
           /\ stack[i].kind # "wait"
  BY <1>2, ClientRuns
<1>6. state[c] = "running" /\ now <= deadline[c] + 1 + Slack + lag
      /\ \A j \in DOMAIN stack : stack[j].kind = "client" /\ stack[j].who = c => j = n
  BY <1>2, <1>4, <1>5 DEF ClientRule
<1>7. ~Used
  <2> SUFFICES ASSUME Used PROVE FALSE OBVIOUS
  <2>1. k # 1 BY <1>3 DEF FirstUnused, Used
  <2>2. NEntries # 1 BY <2>1
  <2>3. entries[1].p \in Clients /\ state[entries[1].p] = "waiting"
    BY <1>5 DEF TimerInv, Awaited
  <2> QED BY <1>6, <2>2, <2>3 DEF OneUser
<1>8. k = 1
  <2> SUFFICES ASSUME k # 1 PROVE FALSE OBVIOUS
  <2>1. 1 \in 1 .. k - 1 BY BoundAssumption
  <2> QED BY <1>3, <1>7, <2>1 DEF FirstUnused, Used
<1>9. ~entries[1].utc /\ ~pending /\ comparator <= now BY <1>7 DEF TimerInv, Free
<1>10. now \in Nat /\ deadline[c] \in Nat /\ lag \in 0 .. Slack /\ Slack \in Nat
       /\ d \in Nat /\ d > 2 * Slack + 2 /\ UtcOffset \in Nat
  BY <1>1, DelayAssumption, BoundAssumption DEF TypeInv
<1>11. t \in Nat /\ now + (Slack - lag) + 1 < t /\ t > now
  <2>1. CASE c \in Periodic
    <3>1. t = d + deadline[c] BY <2>1 DEF t, TimePoint
    <3> QED BY <3>1, <1>6, <1>10
  <2>2. CASE c \notin Periodic
    <3>1. t = d + now BY <2>2 DEF t, TimePoint
    <3> QED BY <3>1, <1>10
  <2> QED BY <2>1, <2>2
<1>12. /\ entries'[1].expire = Expire(c, t) /\ entries'[1].utc = (c \in Periodic)
       /\ \A i \in 2 .. NEntries : entries'[i] = entries[i]
  <2>1. entries[1] \in Entries /\ DOMAIN entries = 1 .. NEntries /\ 1 \in 1 .. NEntries
    BY <1>1, BoundAssumption, Facts DEF TypeInv
  <2>2. entries'[1] = [entries[1] EXCEPT !.expire = Expire(c, t), !.utc = c \in Periodic]
    BY <1>3, <1>8, <2>1
  <2> DEFINE h == [entries[1] EXCEPT !.expire = Expire(c, t)]
  <2>3. h = [p |-> entries[1].p, expire |-> Expire(c, t), utc |-> entries[1].utc]
    BY <2>1 DEF Entries
  <2>4. entries'[1] = [h EXCEPT !.utc = c \in Periodic] BY <2>2
  <2> HIDE DEF h
  <2>5. entries'[1] = [p |-> entries[1].p, expire |-> Expire(c, t), utc |-> c \in Periodic]
    BY <2>3, <2>4
  <2>6. \A i \in 2 .. NEntries : entries'[i] = entries[i] BY <1>3, <1>8, <2>1
  <2> QED BY <2>5, <2>6
<1>13. Used' /\ Timeout' = t /\ FirstOnly'
  <2>1. CASE c \in Periodic
    <3>1. entries'[1].utc /\ entries'[1].expire = t + UtcOffset BY <2>1, <1>12 DEF Expire
    <3> QED BY <3>1, <1>10, <1>11, <1>12 DEF Used, Unused, Timeout, GetTimeout, TimerInv, FirstOnly
  <2>2. CASE c \notin Periodic
    <3>1. ~entries'[1].utc /\ entries'[1].expire = t BY <2>2, <1>12 DEF Expire
    <3> QED BY <3>1, <1>10, <1>11, <1>12 DEF Used, Unused, Timeout, GetTimeout, TimerInv, FirstOnly
  <2> QED BY <2>1, <2>2
<1> DEFINE w == [Frame("wait", c, FALSE) EXCEPT !.at = 1]
           f == CheckFrame(FALSE)
<1>14. w.kind = "wait" /\ w.who = c /\ w.at = 1 /\ w \in Frames
  <2>1. Frame("wait", c, FALSE) \in Frames BY <1>1, FramesTyped
  <2>2. Frame("wait", c, FALSE).kind = "wait" /\ Frame("wait", c, FALSE).who = c BY DEF Frame
  <2>3. w \in Frames
    <3>1. 0 \in Nat /\ 1 \in Nat \ {0} OBVIOUS
    <3> QED BY <2>1, <3>1, FrameTurned, Zenon DEF w
  <2>4. w.kind = "wait" /\ w.who = c /\ w.at = 1 BY <2>1, <2>2 DEF Frames
  <2> QED BY <2>3, <2>4
<1>15. f.kind = "check" /\ ~f.irq /\ f.at = 1 /\ f.time = now /\ f.first = 0 /\ f \in Frames
  BY <1>1, FramesTyped DEF CheckFrame, Frame
<1>16. stack' = stack \o <<w, f>> BY <1>3, <1>8
<1> HIDE DEF w, f
<1>17. /\ Len(stack') = n + 2 /\ DOMAIN stack' = 1 .. n + 2 /\ stack' # <<>>
       /\ stack'[n + 1] = w /\ stack'[n + 2] = f /\ Top' = f
       /\ \A i \in 1 .. n : stack'[i] = stack[i]
  <2>1. stack \in Seq(Frames) BY <1>1 DEF TypeInv
  <2>2. /\ stack' \in Seq(Frames) /\ Len(stack') = n + 2
        /\ stack'[n + 1] = w /\ stack'[n + 2] = f
        /\ \A i \in 1 .. n : stack'[i] = stack[i]
    BY <1>14, <1>15, <1>16, <2>1, PushedTwo
  <2>3. DOMAIN stack' = 1 .. n + 2 BY <2>2, LenProperties
  <2>4. stack' # <<>> BY <1>4, <2>2, EmptySeq
  <2> QED BY <2>2, <2>3, <2>4 DEF Top
<1>18. \A i \in 1 .. n + 2 : i = n + 1 \/ i = n + 2 \/ i \in 1 .. n
  <2>1. n \in Nat BY <1>4
  <2> HIDE DEF n
  <2> QED BY <2>1
<1>19. n + 1 \in 1 .. n + 2 /\ n \in 1 .. n
  <2>1. n \in Nat /\ n >= 1 BY <1>4
  <2> HIDE DEF n
  <2> QED BY <2>1
<1>20. Arming' BY <1>14, <1>17, <1>19 DEF Arming
<1>21. Rules'
  <2> SUFFICES ASSUME NEW i \in 1 .. n + 2 PROVE CheckRule(i)' /\ ClientRule(i)' /\ WaitRule(i)'
    BY <1>17 DEF Rules
  <2>1. CASE i = n + 2
    <3>1. i - 1 = n + 1 /\ i > 1 BY <2>1, <1>4
    <3>2. stack'[i] = f /\ stack'[i - 1] = w BY <2>1, <3>1, <1>17
    <3>3. CheckRule(i)'
      BY <2>1, <3>1, <3>2, <1>2, <1>9, <1>10, <1>14, <1>15, <1>17 DEF CheckRule
    <3> QED BY <3>2, <3>3, <1>15 DEF ClientRule, WaitRule
  <2>2. CASE i = n + 1
    <3>1. i - 1 = n /\ i > 1 /\ i + 1 = n + 2 /\ i # n + 2 BY <2>2, <1>4
    <3>2. stack'[i] = w /\ stack'[i - 1] = Top /\ stack'[i + 1] = f
      BY <2>2, <3>1, <1>4, <1>17, <1>19
    <3>3. deadline'[c] = t BY <1>1, <1>2 DEF TypeInv
    <3>4. now' + (Slack - lag') + 1 < Timeout' BY <1>2, <1>11, <1>13
    <3>5. WaitRule(i)'
      BY <3>1, <3>2, <3>3, <3>4, <1>2, <1>13, <1>14, <1>15, <1>17 DEF WaitRule
    <3> QED BY <3>2, <3>5, <1>14 DEF CheckRule, ClientRule
  <2>3. CASE i \in 1 .. n
    <3>1. i > 1 => i - 1 \in 1 .. n
      <4>1. n \in Nat BY <1>4
      <4> HIDE DEF n
      <4> QED BY <2>3, <4>1
    <3>2. i # n => i \in 1 .. n - 1
      <4>1. n \in Nat BY <1>4
      <4> HIDE DEF n
      <4> QED BY <2>3, <4>1
    <3>3. CheckRule(i) /\ ClientRule(i) BY <1>4, <2>3 DEF TimerInv, Rules
    <3>4. stack'[i] = stack[i] /\ (i > 1 => stack'[i - 1] = stack[i - 1])
      BY <2>3, <3>1, <1>17
    <3>5. /\ stack[i].kind = "check" => stack[i].irq /\ stack[i].at # 1
          /\ stack[i].kind # "wait"
      BY <3>2, <1>2, <1>4, <1>5
    <3>6. CheckRule(i)' BY <3>3, <3>4, <3>5, <1>2 DEF CheckRule
    <3>7. ClientRule(i)'
      <4> SUFFICES ASSUME stack[i].kind = "client" PROVE ClientRule(i)'
        BY <3>4 DEF ClientRule
      <4>1. now' <= deadline'[stack[i].who] + 1 + Slack + lag'
        <5>1. CASE stack[i].who = c
          <6>1. deadline'[c] = t BY <1>1, <1>2 DEF TypeInv
          <6> QED BY <5>1, <6>1, <1>2, <1>10, <1>11
        <5>2. CASE stack[i].who # c
          <6>1. stack[i].who \in Clients BY <3>3 DEF ClientRule
          <6>2. deadline'[stack[i].who] = deadline[stack[i].who]
            BY <5>2, <6>1, <1>1, <1>2 DEF TypeInv
          <6> QED BY <6>2, <3>3, <1>2 DEF ClientRule
        <5> QED BY <5>1, <5>2
      <4>2. ASSUME NEW j \in 1 .. n + 2, stack'[j].kind = "client", stack'[j].who = stack[i].who
            PROVE  j = i
        <5>1. j \in 1 .. n BY <4>2, <1>14, <1>15, <1>17, <1>18
        <5> QED BY <4>2, <5>1, <3>3, <1>4, <1>17 DEF ClientRule
      <4> QED BY <4>1, <4>2, <3>3, <3>4, <1>2, <1>17 DEF ClientRule
    <3>8. WaitRule(i)' BY <3>4, <3>5 DEF WaitRule
    <3> QED BY <3>6, <3>7, <3>8
  <2> QED BY <2>1, <2>2, <2>3, <1>18
<1>22. Free' /\ Awaited' BY <1>13, <1>20 DEF Free, Awaited
<1>23. Calm' BY <1>2, <1>9, <1>17 DEF Calm, Busy
<1> QED BY <1>1, <1>2, <1>13, <1>21, <1>22, <1>23 DEF TimerInv

-----------------------------------------------------------------------------
(* The theorems.                                                           *)

LEMMA NextTimerInv == OneUser => (TimerInv /\ [Next]_vars => TimerInv')
<1> SUFFICES ASSUME OneUser, TimerInv, [Next]_vars PROVE TimerInv' OBVIOUS
<1>1. CASE UNCHANGED vars
  BY <1>1 DEF vars, TimerInv, TypeInv, FirstOnly, Rules, CheckRule, ClientRule, WaitRule,
     Free, Awaited, Calm, Busy, Used, Timeout, Arming, Top
<1> QED
  BY <1>1, InterruptKeeps, StartKeeps, CheckEntryKeeps, SignalKeeps, CheckDoneKeeps,
     ReadClockKeeps, WaitKeeps, WaitInVainKeeps, SuspendKeeps, TickKeeps DEF Next

\* With one entry or one client, the strengthening holds always.
LEMMA TimerInvariant == OneUser => (Spec => []TimerInv)
<1> SUFFICES ASSUME OneUser PROVE Spec => []TimerInv OBVIOUS
<1>1. TimerInv /\ [Next]_vars => TimerInv' BY NextTimerInv
<1> QED BY <1>1, InitTimerInv, PTL DEF Spec

\* With one entry or one client, timer_check resumes only coroutines
\* that are suspended, whatever interrupts, late handlers and nested calls do.
THEOREM TimerResumesOnlySuspended == OneUser => (Spec => []ResumesOnlySuspended)
<1> SUFFICES ASSUME OneUser PROVE Spec => []ResumesOnlySuspended OBVIOUS
<1>1. TimerInv => ResumesOnlySuspended BY DEF TimerInv, ResumesOnlySuspended
<1> QED BY <1>1, TimerInvariant, PTL

\* With one entry or one client, no coroutine is left waiting for a time
\* point that has passed: its interrupt is latched or being handled, but for
\* the microsecond and the handler's delay by which it was asked for late.
THEOREM TimerTriggersInTime == OneUser => (Spec => []TriggersInTime)
<1> SUFFICES ASSUME OneUser PROVE Spec => []TriggersInTime OBVIOUS
<1>1. TimerInv => TriggersInTime
  <2> SUFFICES ASSUME TimerInv, NEW c \in Clients, HasEntry(c), ~Busy
               PROVE  now <= deadline[c] + 1 + Slack
    BY DEF TriggersInTime
  <2>1. PICK i \in DOMAIN entries : entries[i].p = c /\ ~Unused(entries[i]) BY DEF HasEntry
  <2>2. i \in 1 .. NEntries BY DEF TimerInv, TypeInv
  <2>3. i = 1 BY <2>1, <2>2, Facts
  <2>4. ~Arming BY Facts DEF Busy
  <2>5. Timeout = deadline[c] /\ ~(now >= comparator) /\ comparator <= Timeout + 1 + Slack
    BY <2>1, <2>3, <2>4 DEF TimerInv, Awaited, Busy, Used
  <2>6. now \in Nat /\ comparator \in Nat /\ Timeout \in Nat /\ Slack \in Nat
    BY Facts, BoundAssumption DEF TimerInv, TypeInv
  <2> QED BY <2>5, <2>6
<1> QED BY <1>1, TimerInvariant, PTL
=============================================================================
