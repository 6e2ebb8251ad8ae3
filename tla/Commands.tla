------------------------------ MODULE Commands ------------------------------
(***************************************************************************)
(* What a disk driver promises the coroutines that send it commands: the   *)
(* commands are executed in any order, each of them once, and the one who  *)
(* awaits a command goes on after it was executed.                         *)
(***************************************************************************)
CONSTANT Promises   \* one for every command that can be outstanding

VARIABLES
  sent,      \* commands that the controller has to execute
  executed   \* commands executed whose senders have not gone on

vars == <<sent, executed>>

Send(p) ==
  /\ p \notin sent \cup executed
  /\ sent' = sent \cup {p}
  /\ UNCHANGED executed

Execute(p) ==
  /\ p \in sent
  /\ sent' = sent \ {p}
  /\ executed' = executed \cup {p}

GoOn(p) ==
  /\ p \in executed
  /\ executed' = executed \ {p}
  /\ UNCHANGED sent

Init == sent = {} /\ executed = {}

Next == \E p \in Promises : Send(p) \/ Execute(p) \/ GoOn(p)

Spec == Init /\ [][Next]_vars
=============================================================================
