-------------------------------- MODULE Timer --------------------------------
(***************************************************************************)
(* Timed waits: kernel/src/timer.cpp, event.h, the HPET of x86/timer.cpp   *)
(* and the coroutine f of entry.cpp.                                       *)
(*                                                                         *)
(* A coroutine that waits owns an event in its frame, and the table entry  *)
(* that wait_until or wait_for_us took points at it.  timer_check resumes  *)
(* coroutines from inside its loop over the table; a resumed coroutine     *)
(* runs on, and its next wait runs timer_check again, so calls nest.       *)
(* stack is that nesting, the innermost call last, one loop turn per step. *)
(* Time passes between any two steps.                                      *)
(*                                                                         *)
(* Times are in microseconds since the counter started.  The clock has no  *)
(* overflow here: get_timer_value multiplies by the clock period first and *)
(* so overflows after about five hours.                                    *)
(*                                                                         *)
(* A definition named Mut... is a faulty variant of the one it stands      *)
(* before; PROJECT.json names the property that rejects it.                *)
(***************************************************************************)
EXTENDS Integers, Sequences

CONSTANTS
  NEntries,   \* size of the table, 20
  Periodic,   \* coroutines that loop over wait_until, like f: time points a
              \*   fixed delay apart, whenever they were resumed
  Delayed,    \* coroutines that loop over wait_for_us
  Main,       \* those that first run with interrupts enabled, as f does
  Delays,
  UtcOffset,  \* utc_offset, which f sets before its first wait
  Slack,      \* how long a chain of handlers takes, much less than any delay
  MaxTime,    \* bound: when the model's time stops
  Nobody

Clients == Periodic \cup Delayed

ASSUME BoundAssumption == NEntries \in Nat \ {0} /\ UtcOffset \in Nat /\ Slack \in Nat
\* No time point has passed when it is armed, nor does it before the call ends.
ASSUME DelayAssumption == \A d \in Delays : d \in Nat /\ d > 2 * Slack + 2
ASSUME ClientAssumption == Nobody \notin Clients /\ Main \subseteq Clients

VARIABLES
  now,
  comparator,  \* the HPET interrupts when now reaches it; Never if unarmed
  pending,     \* an interrupt is latched
  entries,     \* the table: [p, expire, utc]
  stack,
  state,       \* client -> "ready", "running", "waiting"
  deadline,    \* client -> the time point its last wait named
  lag,         \* time since the call chain, or its interrupt, began
  broken       \* a coroutine was resumed that was not suspended

vars == <<now, comparator, pending, entries, stack, state, deadline, lag, broken>>

Never == 0

Unused(e) == e.expire = 0

\* timer_entry::isExpired and getTimeout; utc is bit 63 of expire in the code.
IsExpired(e, t) == ~Unused(e) /\ e.expire <= t + (IF e.utc THEN UtcOffset ELSE 0)

\* expire = 0, which clears bit 63 too.
Signalled(e) == [e EXCEPT !.expire = 0, !.utc = FALSE]

MutGetTimeout(e) == e.expire - UtcOffset
GetTimeout(e) == IF e.utc THEN e.expire - UtcOffset ELSE e.expire

-----------------------------------------------------------------------------
(* Calls.                                                                  *)

Top == stack[Len(stack)]
Below == SubSeq(stack, 1, Len(stack) - 1)

TopIs(kind) == stack # <<>> /\ Top.kind = kind

Frame(kind, who, irq) ==
  [kind |-> kind, who |-> who, irq |-> irq, at |-> 1, time |-> now, first |-> 0]

\* timer_check, called by the interrupt or by a wait.
CheckFrame(irq) == Frame("check", Nobody, irq)

InHandler == \E i \in DOMAIN stack : stack[i].irq

\* An interrupt gate keeps interrupts off, so handlers do not nest.
Interrupt ==
  /\ pending /\ ~InHandler /\ ~broken
  /\ pending' = FALSE
  /\ stack' = Append(stack, CheckFrame(TRUE))
  /\ UNCHANGED <<now, comparator, entries, state, deadline, lag, broken>>

\* A coroutine's first run; all but those of Main start in some handler.
Start(c) ==
  /\ stack = <<>> /\ ~pending
  /\ state[c] = "ready"
  /\ state' = [state EXCEPT ![c] = "running"]
  /\ deadline' = [deadline EXCEPT ![c] = now]
  /\ stack' = <<Frame("client", c, c \notin Main)>>
  /\ UNCHANGED <<now, comparator, pending, entries, lag, broken>>

\* A turn of timer_check's loop that finds nothing to signal.
Earliest(first, e) ==
  IF (GetTimeout(e) # 0 /\ GetTimeout(e) < first) \/ first = 0 THEN GetTimeout(e) ELSE first

CheckEntry ==
  /\ TopIs("check") /\ ~broken
  /\ Top.at <= NEntries
  /\ ~IsExpired(entries[Top.at], Top.time)
  /\ stack' = Append(Below, [Top EXCEPT !.at = @ + 1,
                                        !.first = Earliest(@, entries[Top.at])])
  /\ UNCHANGED <<now, comparator, pending, entries, state, deadline, lag, broken>>

\* A turn that does: the coroutine behind the entry's event runs at once.
Signal ==
  /\ TopIs("check") /\ ~broken
  /\ Top.at <= NEntries
  /\ LET e == entries[Top.at] IN
     /\ IsExpired(e, Top.time)
     /\ entries' = [entries EXCEPT ![Top.at] = Signalled(e)]
     /\ IF e.p # Nobody /\ state[e.p] = "waiting"
          THEN /\ state' = [state EXCEPT ![e.p] = "running"]
               /\ stack' = Below \o <<[Top EXCEPT !.at = @ + 1], Frame("client", e.p, FALSE)>>
               /\ UNCHANGED broken
          ELSE broken' = TRUE /\ UNCHANGED <<state, stack>>
  /\ UNCHANGED <<now, comparator, pending, deadline, lag>>

\* timer_set_interrupt reads the clock to learn how far off its time is ...
ReadClock ==
  /\ TopIs("check") /\ ~broken
  /\ Top.at = NEntries + 1 /\ Top.first # 0
  /\ stack' = Append(Below, [Top EXCEPT !.at = @ + 1, !.time = now])
  /\ UNCHANGED <<now, comparator, pending, entries, state, deadline, lag, broken>>

\* ... and set_interrupt reads it again to add the difference.  That to a time
\* that has passed wraps to one that will not come.
MutProgrammed(next, read) == next - read + 1
Programmed(next, read) == IF next < read THEN Never ELSE now + (next - read) + 1

CheckDone ==
  /\ TopIs("check") /\ ~broken
  /\ Top.at = NEntries + (IF Top.first = 0 THEN 1 ELSE 2)
  /\ comparator' = IF Top.first = 0 THEN comparator ELSE Programmed(Top.first, Top.time)
  /\ stack' = Below
  /\ lag' = IF Below = <<>> /\ ~pending THEN 0 ELSE lag
  /\ UNCHANGED <<now, pending, entries, state, deadline, broken>>

\* wait_until and wait_for_us up to their call of timer_check.  The entry's p
\* is still that of the entry's last user.
FirstUnused(i) == Unused(entries[i]) /\ \A j \in 1 .. i - 1 : ~Unused(entries[j])

TableFull == \A i \in 1 .. NEntries : ~Unused(entries[i])

TimePoint(c, d) == d + IF c \in Periodic THEN deadline[c] ELSE now

MutExpire(c, t) == t
Expire(c, t) == IF c \in Periodic THEN t + UtcOffset ELSE t

Wait(c, d) ==
  /\ TopIs("client") /\ ~broken
  /\ Top.who = c
  /\ TimePoint(c, d) <= MaxTime
  /\ deadline' = [deadline EXCEPT ![c] = TimePoint(c, d)]
  /\ \E i \in 1 .. NEntries :
       /\ FirstUnused(i)
       /\ entries' = [entries EXCEPT ![i].expire = Expire(c, TimePoint(c, d)),
                                     ![i].utc = c \in Periodic]
       /\ stack' = stack \o <<[Frame("wait", c, FALSE) EXCEPT !.at = i], CheckFrame(FALSE)>>
  /\ UNCHANGED <<now, comparator, pending, state, lag, broken>>

\* With a full table the wait returns an event that no entry points at.
WaitInVain(c, d) ==
  /\ TopIs("client") /\ ~broken
  /\ Top.who = c
  /\ TableFull
  /\ TimePoint(c, d) <= MaxTime
  /\ deadline' = [deadline EXCEPT ![c] = TimePoint(c, d)]
  /\ state' = [state EXCEPT ![c] = "waiting"]
  /\ stack' = Below
  /\ lag' = IF Below = <<>> /\ ~pending THEN 0 ELSE lag
  /\ UNCHANGED <<now, comparator, pending, entries, broken>>

\* The end of a wait: the event is constructed from e.p, and the coroutine
\* suspends on it, which returns to whoever had started or resumed it.
Suspend ==
  LET rest == SubSeq(stack, 1, Len(stack) - 2) IN
  /\ TopIs("wait") /\ ~broken
  /\ entries' = [entries EXCEPT ![Top.at].p = Top.who]
  /\ state' = [state EXCEPT ![Top.who] = "waiting"]
  /\ stack' = rest
  /\ lag' = IF rest = <<>> /\ ~pending THEN 0 ELSE lag
  /\ UNCHANGED <<now, comparator, pending, deadline, broken>>

Busy == stack # <<>> \/ pending

Tick ==
  /\ now < MaxTime /\ ~broken
  /\ Busy => lag < Slack
  /\ now' = now + 1
  /\ pending' = (pending \/ now' = comparator)
  /\ lag' = IF Busy THEN lag + 1 ELSE 0
  /\ UNCHANGED <<comparator, entries, stack, state, deadline, broken>>

Init ==
  /\ now = 1 /\ comparator = Never /\ pending = FALSE
  /\ entries = [i \in 1 .. NEntries |-> [p |-> Nobody, expire |-> 0, utc |-> FALSE]]
  /\ stack = <<>>
  /\ state = [c \in Clients |-> "ready"]
  /\ deadline = [c \in Clients |-> 0]
  /\ lag = 0 /\ broken = FALSE

Next ==
  \/ Interrupt
  \/ \E c \in Clients : Start(c)
  \/ CheckEntry
  \/ Signal
  \/ ReadClock
  \/ CheckDone
  \/ \E c \in Clients, d \in Delays : Wait(c, d) \/ WaitInVain(c, d)
  \/ Suspend
  \/ Tick

Spec == Init /\ [][Next]_vars

-----------------------------------------------------------------------------
(* Properties.                                                             *)

TypeOK ==
  /\ now \in Nat /\ comparator \in Nat /\ lag \in 0 .. Slack
  /\ pending \in BOOLEAN /\ broken \in BOOLEAN
  /\ entries \in [1 .. NEntries ->
                    [p : Clients \cup {Nobody}, expire : Nat, utc : BOOLEAN]]
  /\ stack \in Seq([kind : {"check", "client", "wait"}, who : Clients \cup {Nobody},
                    irq : BOOLEAN, at : Nat, time : Nat, first : Nat])
  /\ state \in [Clients -> {"ready", "running", "waiting"}]
  /\ deadline \in [Clients -> Nat]

\* timer_check never resumes a coroutine that is running or has not waited
\* yet: an entry is signalled only when its p is the event of the coroutine
\* that took the entry, although p is written after the entry is armed and
\* timer_check has already looked at it once.
ResumesOnlySuspended == ~broken

HasEntry(c) == \E i \in DOMAIN entries : entries[i].p = c /\ ~Unused(entries[i])

\* "Return an awaitable event that triggers at the specified time point": once
\* the machine has nothing left to do, no coroutine with an entry waits for a
\* time point that has passed by more than the microsecond the HPET adds and
\* the time a handler may take between its two looks at the clock.
TriggersInTime ==
  \A c \in Clients :
    state[c] = "waiting" /\ HasEntry(c) /\ ~Busy => now <= deadline[c] + 1 + Slack

\* The same promise at its weakest: while a coroutine with an entry waits and
\* the machine has nothing left to do, the HPET is going to interrupt.
WaitsAreArmed ==
  (\E c \in Clients : state[c] = "waiting" /\ HasEntry(c)) /\ ~Busy => comparator > now
=============================================================================
