--------------------------- MODULE RangeAllocator ---------------------------
(***************************************************************************)
(* What an allocator of ranges of [Low, High) promises its clients: a      *)
(* range is granted only inside the arena and apart from every range that  *)
(* is still held, and a client gives back only what it holds.  It says     *)
(* nothing of where a range is taken from.                                 *)
(*                                                                         *)
(* The kernel has three such allocators: the heap (Heap), the list of free *)
(* physical pages and the list of free address space (Mappings).           *)
(***************************************************************************)
EXTENDS Integers

CONSTANTS
  Low,    \* the first address of the arena
  High    \* the first address after it

VARIABLE held   \* start of a held range -> its length

Apart(a, m, b, n) == a + m <= b \/ b + n <= a

FitsBeside(a, n, others) ==
  /\ Low <= a
  /\ a + n <= High
  /\ \A b \in others : Apart(a, n, b, held[b])

Grant(a, n) ==
  /\ a \notin DOMAIN held
  /\ FitsBeside(a, n, DOMAIN held)
  /\ held' = [b \in DOMAIN held \cup {a} |-> IF b = a THEN n ELSE held[b]]

Resize(a, n) ==
  /\ a \in DOMAIN held
  /\ FitsBeside(a, n, DOMAIN held \ {a})
  /\ held' = [held EXCEPT ![a] = n]

Return(a) ==
  /\ a \in DOMAIN held
  /\ held' = [b \in DOMAIN held \ {a} |-> held[b]]

Init == held = [b \in {} |-> 0]

\* The new range, or the new length, is the one the step leaves in held.
Next ==
  \/ \E a \in DOMAIN held' : Grant(a, held'[a]) \/ Resize(a, held'[a])
  \/ \E a \in DOMAIN held : Return(a)

Spec == Init /\ [][Next]_held
=============================================================================
