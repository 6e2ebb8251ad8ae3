-------------------------------- MODULE Heap --------------------------------
(***************************************************************************)
(* The kernel heap, kernel/src/mem.cpp.  One static arena is tiled by      *)
(* blocks, each behind a 32-byte malloc_entry header; the headers form a   *)
(* circular doubly linked list, and malloc searches it from last_used.     *)
(*                                                                         *)
(* Addresses are offsets from &malloc_reserve.ent, so the first header is  *)
(* at 0 and the arena ends at Hdr + Reserve.  mem holds the headers that   *)
(* are on the list; what a client writes into its block is not modelled.   *)
(* A call is not atomic: the search advances one block per step, and       *)
(* realloc frees the old block in a step of its own.  Calls do not         *)
(* interleave: handlers run with interrupts disabled.                      *)
(*                                                                         *)
(* A definition named Mut... is a faulty variant of the one it stands      *)
(* before; PROJECT.json names the property that rejects it.                *)
(***************************************************************************)
EXTENDS Integers

CONSTANTS
  Reserve,   \* bytes of malloc_reserve.reserve
  Sizes      \* the sizes clients ask for

ASSUME ReserveAssumption == Reserve \in Nat /\ Reserve % 16 = 0
ASSUME SizesAssumption == Sizes \subseteq Nat

VARIABLES
  mem,         \* header address -> malloc_entry
  last_used,
  pc,          \* what the current call is doing
  cur,         \* malloc's cur: where the search is; after it, the new block
  size,        \* malloc's argument
  old,         \* realloc's p, NullPtr in a plain malloc
  live         \* payload address a client holds -> the size it asked for

vars == <<mem, last_used, pc, cur, size, old, live>>

Hdr == 32
Top == Hdr + Reserve
NullPtr == 0   \* no payload is at 0: the first one is at Hdr

Entry == [next : Nat, prev : Nat, length : Nat, free : BOOLEAN]

EndOf(m, h) == h + Hdr + m[h].length

\* (size + 15) & 0xFFFFFFF0
RoundUp(n) == ((n + 15) \div 16) * 16

-----------------------------------------------------------------------------
(* Operations on the list of headers.                                      *)

\* The arena's only block, made by the first malloc.
Initialised ==
  IF DOMAIN mem = {}
    THEN [h \in {0} |-> [next |-> 0, prev |-> 0, length |-> Reserve, free |-> TRUE]]
    ELSE mem

MutFits(m, h, n) == m[h].free /\ m[h].length + Hdr >= n
Fits(m, h, n) == m[h].free /\ m[h].length >= n

MutSplits(m, c, n) == m[c].length >= n
Splits(m, c, n) == m[c].length >= n + Hdr

Rest(c, n) == c + RoundUp(n) + Hdr

\* Block c keeps n bytes, rounded up; a free block of the rest follows it.
Split(m, c, n) ==
  LET rest == Rest(c, n) IN
  [h \in DOMAIN m \cup {rest} |->
     IF h = rest
       THEN [next |-> m[c].next, prev |-> c,
             length |-> m[c].length - (rest - c), free |-> TRUE]
       ELSE [next   |-> IF h = c THEN rest ELSE m[h].next,
             prev   |-> IF h = m[c].next THEN rest ELSE m[h].prev,
             length |-> IF h = c THEN rest - c - Hdr ELSE m[h].length,
             free   |-> h # c /\ m[h].free]]

\* Block a takes over its successor b, whose header disappears.
MutAbsorb(m, a, b) ==
  [h \in DOMAIN m \ {b} |->
     [next   |-> IF h = a THEN m[b].next ELSE m[h].next,
      prev   |-> IF h = m[b].next THEN a ELSE m[h].prev,
      length |-> IF h = a THEN m[a].length + m[b].length ELSE m[h].length,
      free   |-> m[h].free]]

Absorb(m, a, b) ==
  [h \in DOMAIN m \ {b} |->
     [next   |-> IF h = a THEN m[b].next ELSE m[h].next,
      prev   |-> IF h = m[b].next THEN a ELSE m[h].prev,
      length |-> IF h = a THEN m[a].length + m[b].length + Hdr ELSE m[h].length,
      free   |-> m[h].free]]

\* Two free neighbours: b starts where a ends.
Joinable(m, a, b) == m[a].free /\ m[b].free /\ EndOf(m, a) = b

MarkFree(m, h) == [m EXCEPT ![h].free = TRUE]

\* The merges of free(), first with the block before, then with the one after.
MutSurvivor(m, h) == h

Survivor(m, h) == IF Joinable(m, m[h].prev, h) THEN m[h].prev ELSE h

JoinBefore(m, h) == IF Survivor(m, h) # h THEN Absorb(m, m[h].prev, h) ELSE m

JoinAfter(m, h) == IF Joinable(m, h, m[h].next) THEN Absorb(m, h, m[h].next) ELSE m

-----------------------------------------------------------------------------
(* The calls.                                                              *)

Init ==
  /\ mem = [h \in {} |-> 0]
  /\ last_used = 0
  /\ pc = "idle"
  /\ cur = 0 /\ size = 0 /\ old = NullPtr
  /\ live = [p \in {} |-> 0]

StartSearch(n, p) ==
  /\ mem' = Initialised
  /\ pc' = "search"
  /\ cur' = last_used
  /\ size' = n
  /\ old' = p
  /\ UNCHANGED <<last_used, live>>

\* The locals of a call are dead once it has returned.
ForgetCall == cur' = 0 /\ size' = 0 /\ old' = NullPtr

Malloc(n) == pc = "idle" /\ StartSearch(n, NullPtr)

\* realloc(p, n): the block is kept when it is larger than n.
MutKeepsBlock(p, n) == mem[p - Hdr].length >= n - 16
KeepsBlock(p, n) == mem[p - Hdr].length > n

Realloc(p, n) ==
  /\ pc = "idle"
  /\ IF KeepsBlock(p, n)
       THEN /\ live' = [live EXCEPT ![p] = n]
            /\ UNCHANGED <<mem, last_used, pc, cur, size, old>>
       ELSE StartSearch(n, p)

MutSearchOn ==
  /\ pc = "search"
  /\ ~Fits(mem, cur, size)
  /\ mem[cur].next # 0
  /\ cur' = mem[cur].next
  /\ UNCHANGED <<mem, last_used, pc, size, old, live>>

\* One turn of the loop that looks for a block; it goes round for ever when
\* no free block is large enough.
SearchOn ==
  /\ pc = "search"
  /\ ~Fits(mem, cur, size)
  /\ cur' = mem[cur].next
  /\ UNCHANGED <<mem, last_used, pc, size, old, live>>

Found ==
  /\ pc = "search"
  /\ Fits(mem, cur, size)
  /\ IF Splits(mem, cur, size)
       THEN mem' = Split(mem, cur, size) /\ last_used' = Rest(cur, size)
       ELSE mem' = [mem EXCEPT ![cur].free = FALSE] /\ UNCHANGED last_used
  /\ live' = [p \in DOMAIN live \cup {cur + Hdr} |->
                IF p = cur + Hdr THEN size ELSE live[p]]
  /\ IF old = NullPtr
       THEN pc' = "idle" /\ ForgetCall
       ELSE pc' = "copied" /\ UNCHANGED <<cur, size, old>>

\* free(): a block that is free already is the DOUBLE FREE hang.
Release(p) ==
  LET h == p - Hdr
      freed == MarkFree(mem, h)
      joined == JoinBefore(freed, h)
      kept == Survivor(freed, h)
  IN IF mem[h].free
       THEN /\ pc' = "hung"
            /\ UNCHANGED <<mem, last_used, cur, size, old, live>>
       ELSE /\ mem' = JoinAfter(joined, kept)
            /\ last_used' = kept
            /\ live' = [q \in DOMAIN live \ {p} |-> live[q]]
            /\ pc' = "idle"
            /\ ForgetCall

Free(p) == pc = "idle" /\ Release(p)

\* The end of realloc, after the memcpy of the old block's length bytes.
FreeOld == pc = "copied" /\ Release(old)

Next ==
  \/ \E n \in Sizes : Malloc(n)
  \/ \E p \in DOMAIN live, n \in Sizes : Realloc(p, n)
  \/ SearchOn
  \/ Found
  \/ \E p \in DOMAIN live : Free(p)
  \/ FreeOld

\* Code that runs keeps running: the search and the rest of a call proceed.
Fairness == WF_vars(SearchOn \/ Found) /\ WF_vars(FreeOld)

Spec == Init /\ [][Next]_vars /\ Fairness

-----------------------------------------------------------------------------
(* Properties.                                                             *)

\* Types and ranges of the allocator's state: header fields are naturals (a
\* split that underflowed the remaining length would leave Nat), and the
\* cursors point at headers that are on the list.
TypeOK ==
  /\ mem \in [DOMAIN mem -> Entry]
  /\ DOMAIN mem \subseteq Nat
  /\ last_used \in DOMAIN mem \cup {0}
  /\ pc \in {"idle", "search", "copied", "hung"}
  /\ cur \in Nat /\ size \in Nat /\ old \in Nat
  /\ pc \in {"search", "copied"} => cur \in DOMAIN mem
  /\ live \in [DOMAIN live -> Nat]
  /\ DOMAIN live \subseteq Nat

\* The blocks tile the arena and the list is in address order: each block's
\* next is the header where it ends, the last one's is the first, prev is the
\* inverse of next, blocks do not overlap, and every block is 16-byte aligned.
\* Every initialisation, split and merge of mem.cpp must preserve it.
Aligned(m, h) == h % 16 = 0 /\ m[h].length % 16 = 0

Linked(m, h) ==
  /\ m[h].next \in DOMAIN m
  /\ m[m[h].next].prev = h
  /\ m[h].prev \in DOMAIN m
  /\ m[m[h].prev].next = h

NextIsWhereItEnds(m, h) ==
  /\ EndOf(m, h) <= Top
  /\ m[h].next = IF EndOf(m, h) = Top THEN 0 ELSE EndOf(m, h)

TilesArena(m) ==
  /\ 0 \in DOMAIN m
  /\ \A h \in DOMAIN m : Aligned(m, h) /\ Linked(m, h) /\ NextIsWhereItEnds(m, h)
  /\ \A g, h \in DOMAIN m : g < h => EndOf(m, g) <= h

Tiled == DOMAIN mem # {} => TilesArena(mem)

\* free() leaves no two free blocks side by side, however frees are ordered:
\* memory given back is always available as one block.
FreeNeighbours(m, g, h) == EndOf(m, g) = h /\ m[g].free /\ m[h].free

Coalesced == \A g, h \in DOMAIN mem : ~FreeNeighbours(mem, g, h)

\* What clients hold is exactly the used blocks, each as long as its client
\* asked for; so no call finds a held block free (the DOUBLE FREE hang).
Used(m) == {h \in DOMAIN m : ~m[h].free}

ClientsOwnTheirBlocks ==
  /\ pc # "hung"
  /\ DOMAIN live = {h + Hdr : h \in Used(mem)}
  /\ \A p \in DOMAIN live : live[p] <= mem[p - Hdr].length

\* realloc copies the old block's length, which may exceed the size the client
\* had asked for; the old block is still held then, and the new one is another
\* block and long enough for the copy.
CopyFits ==
  /\ (pc = "search" /\ old # NullPtr) =>
        old \in DOMAIN live /\ mem[old - Hdr].length <= size
  /\ pc = "copied" =>
        old \in DOMAIN live /\ old # cur + Hdr /\ mem[old - Hdr].length <= mem[cur].length

\* The circular search ends whenever some free block is large enough, wherever
\* last_used stands.
MallocReturns ==
  (pc = "search" /\ \E h \in DOMAIN mem : Fits(mem, h, size)) ~> (pc # "search")

\* The heap keeps what an allocator of ranges promises.
Ranges == INSTANCE RangeAllocator WITH Low <- Hdr, High <- Top, held <- live

ImplementsRanges == Ranges!Spec
=============================================================================
