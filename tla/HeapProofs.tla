----------------------------- MODULE HeapProofs -----------------------------
(***************************************************************************)
(* The heap's invariants for every size of the arena and every set of      *)
(* request sizes, and that it implements RangeAllocator.                   *)
(***************************************************************************)
EXTENDS Heap, TLAPS

\* A well-formed heap: header fields are typed and the blocks tile the arena.
WellFormed(m) ==
  /\ m \in [DOMAIN m -> Entry]
  /\ DOMAIN m \subseteq Nat
  /\ TilesArena(m)

\* Rounding up to 16 bytes adds less than 16 and gives a multiple of 16.
LEMMA RoundUpBounds ==
  ASSUME NEW n \in Nat
  PROVE  /\ RoundUp(n) \in Nat
         /\ n <= RoundUp(n)
         /\ RoundUp(n) < n + 16
         /\ RoundUp(n) % 16 = 0
  BY DEF RoundUp

\* Splitting a block that has room for the request and a header never
\* underflows, although the request is rounded up only after the test.
LEMMA SplitRoom ==
  ASSUME NEW m, WellFormed(m), NEW c \in DOMAIN m, NEW n \in Nat, Splits(m, c, n)
  PROVE  /\ Rest(c, n) \in Nat
         /\ Rest(c, n) % 16 = 0
         /\ c < Rest(c, n)
         /\ c + Hdr + n <= Rest(c, n)
         /\ Rest(c, n) + Hdr <= EndOf(m, c)
         /\ Rest(c, n) \notin DOMAIN m
<1>1. /\ c \in Nat /\ c % 16 = 0
      /\ m[c].length \in Nat /\ m[c].length % 16 = 0
      /\ m[c].length >= n + 32
  BY DEF WellFormed, Entry, TilesArena, Aligned, Splits, Hdr
<1>2. RoundUp(n) \in Nat /\ n <= RoundUp(n) /\ RoundUp(n) < n + 16 /\ RoundUp(n) % 16 = 0
  BY RoundUpBounds
<1>3. RoundUp(n) + 32 <= m[c].length
  BY <1>1, <1>2
<1>4. Rest(c, n) = c + RoundUp(n) + 32 /\ EndOf(m, c) = c + 32 + m[c].length
  BY DEF Rest, EndOf, Hdr
<1>5. /\ Rest(c, n) \in Nat /\ Rest(c, n) % 16 = 0 /\ c < Rest(c, n)
      /\ c + 32 + n <= Rest(c, n) /\ Rest(c, n) + 32 <= EndOf(m, c)
  BY <1>1, <1>2, <1>3, <1>4
<1>6. Rest(c, n) \notin DOMAIN m
  <2>1. ASSUME Rest(c, n) \in DOMAIN m PROVE EndOf(m, c) <= Rest(c, n)
    BY <2>1, <1>5 DEF WellFormed, TilesArena
  <2>2. EndOf(m, c) \in Nat
    BY <1>1, <1>4
  <2> QED BY <1>5, <2>1, <2>2
<1> QED BY <1>5, <1>6 DEF Hdr

\* malloc's split keeps the heap well formed.
LEMMA SplitWellFormed ==
  ASSUME NEW m, WellFormed(m), NEW c \in DOMAIN m, NEW n \in Nat, Splits(m, c, n)
  PROVE  WellFormed(Split(m, c, n))
<1> DEFINE rest == Rest(c, n)
           s == Split(m, c, n)
<1>1. /\ rest \in Nat /\ rest % 16 = 0 /\ c < rest /\ c + Hdr + n <= rest
      /\ rest + Hdr <= EndOf(m, c) /\ rest \notin DOMAIN m
  BY SplitRoom
<1>2. \A h \in DOMAIN m : /\ h \in Nat /\ m[h] \in Entry
                          /\ Aligned(m, h) /\ Linked(m, h) /\ NextIsWhereItEnds(m, h)
  BY DEF WellFormed, TilesArena
<1>3. \A g, h \in DOMAIN m : g < h => EndOf(m, g) <= h
  BY DEF WellFormed, TilesArena
<1> DEFINE at == [next |-> m[c].next, prev |-> c,
                  length |-> m[c].length - (rest - c), free |-> TRUE]
           upd(h) == [next   |-> IF h = c THEN rest ELSE m[h].next,
                      prev   |-> IF h = m[c].next THEN rest ELSE m[h].prev,
                      length |-> IF h = c THEN rest - c - Hdr ELSE m[h].length,
                      free   |-> h # c /\ m[h].free]
<1>4. /\ DOMAIN s = DOMAIN m \cup {rest}
      /\ s[rest] = at
      /\ \A h \in DOMAIN m : s[h] = upd(h)
      /\ s = [h \in DOMAIN s |-> s[h]]
  BY <1>1 DEF Split
<1> HIDE DEF s, rest
<1>5. /\ EndOf(s, rest) = EndOf(m, c)
      /\ EndOf(s, c) = rest
      /\ \A h \in DOMAIN m : h # c => EndOf(s, h) = EndOf(m, h)
      /\ s[rest].length \in Nat /\ s[rest].length % 16 = 0
      /\ s[c].length \in Nat /\ s[c].length % 16 = 0
  BY <1>1, <1>2, <1>4 DEF EndOf, Aligned, Entry, Hdr
<1>6. \A h \in DOMAIN s : s[h] \in Entry
  <2>1. at \in Entry
    BY <1>1, <1>2, <1>4, <1>5 DEF Entry
  <2>2. \A h \in DOMAIN m : upd(h) \in Entry
    BY <1>1, <1>2, <1>4, <1>5 DEF Entry
  <2> HIDE DEF at, upd
  <2>3. s[rest] \in Entry
    BY <1>4, <2>1
  <2>4. ASSUME NEW h \in DOMAIN m PROVE s[h] \in Entry
    BY <1>4, <2>2
  <2> QED BY <1>4, <2>3, <2>4
<1>7. \A h \in DOMAIN s : Aligned(s, h)
  BY <1>1, <1>2, <1>4, <1>5 DEF Aligned
<1>8. \A h \in DOMAIN s : Linked(s, h)
  <2>1. \A h \in DOMAIN m : /\ m[h].next \in DOMAIN m /\ m[m[h].next].prev = h
                            /\ m[h].prev \in DOMAIN m /\ m[m[h].prev].next = h
    BY <1>2 DEF Linked
  <2>2. /\ s[rest].next = m[c].next /\ s[rest].prev = c
        /\ \A h \in DOMAIN m : /\ s[h].next = (IF h = c THEN rest ELSE m[h].next)
                               /\ s[h].prev = (IF h = m[c].next THEN rest ELSE m[h].prev)
    BY <1>4
  <2>3. Linked(s, rest)
    BY <1>4, <2>1, <2>2 DEF Linked
  <2>4. ASSUME NEW h \in DOMAIN m PROVE Linked(s, h)
    <3>1. DOMAIN s = DOMAIN m \cup {rest}
      BY <1>4
    <3>2. CASE h = c
      <4>1. s[c].next = rest /\ s[rest].prev = c /\ s[rest].next = m[c].next
        BY <2>2
      <4>2. CASE m[c].next = c
        BY <2>2, <3>1, <3>2, <4>1, <4>2 DEF Linked
      <4>3. CASE m[c].next # c
        <5>1. m[c].prev # c /\ s[c].prev = m[c].prev
          BY <2>1, <2>2, <4>3
        <5>2. s[m[c].prev].next = c
          <6>1. m[c].prev \in DOMAIN m /\ m[m[c].prev].next = c
            BY <2>1
          <6> QED BY <2>2, <5>1, <6>1
        <5>3. m[c].prev \in DOMAIN s /\ rest \in DOMAIN s
          BY <2>1, <3>1
        <5> QED BY <3>2, <4>1, <5>1, <5>2, <5>3 DEF Linked
      <4> QED BY <4>2, <4>3
    <3>3. CASE h # c /\ h = m[c].next
      <4>1. s[h].prev = rest /\ s[rest].next = h /\ s[h].next = m[h].next
        BY <2>2, <3>3
      <4>2. m[h].next # m[c].next
        BY <2>1, <3>3
      <4>3. s[m[h].next].prev = h
        BY <2>1, <2>2, <4>2
      <4> QED BY <2>1, <3>1, <4>1, <4>3 DEF Linked
    <3>4. CASE h # c /\ h # m[c].next
      <4>1. s[h].next = m[h].next /\ s[h].prev = m[h].prev
        BY <2>2, <3>4
      <4>2. m[h].next # m[c].next /\ m[h].prev # c
        BY <2>1, <3>4
      <4>3. s[m[h].next].prev = h /\ s[m[h].prev].next = h
        BY <2>1, <2>2, <4>2
      <4> QED BY <2>1, <3>1, <4>1, <4>3 DEF Linked
    <3> QED BY <3>2, <3>3, <3>4
  <2> QED BY <1>4, <2>3, <2>4
<1>9. \A h \in DOMAIN s : NextIsWhereItEnds(s, h)
  <2>1. /\ s[rest].next = m[c].next /\ s[c].next = rest
        /\ \A h \in DOMAIN m : h # c => s[h].next = m[h].next
    BY <1>4
  <2>2. \A h \in DOMAIN m : /\ EndOf(m, h) \in Nat /\ EndOf(m, h) <= Top
                            /\ m[h].next = IF EndOf(m, h) = Top THEN 0 ELSE EndOf(m, h)
    BY <1>2 DEF NextIsWhereItEnds, EndOf, Entry, Hdr
  <2>3. NextIsWhereItEnds(s, rest)
    BY <1>5, <2>1, <2>2 DEF NextIsWhereItEnds
  <2>4. NextIsWhereItEnds(s, c)
    BY <1>1, <1>5, <2>1, <2>2, ReserveAssumption DEF NextIsWhereItEnds, Hdr, Top
  <2>5. ASSUME NEW h \in DOMAIN m, h # c PROVE NextIsWhereItEnds(s, h)
    BY <1>5, <2>1, <2>2, <2>5 DEF NextIsWhereItEnds
  <2> QED BY <1>4, <2>3, <2>4, <2>5
<1>10. \A g, h \in DOMAIN s : g < h => EndOf(s, g) <= h
  <2>1. \A h \in DOMAIN m : EndOf(m, h) \in Nat /\ h < EndOf(m, h)
    BY <1>2 DEF EndOf, Entry, Hdr
  <2>2. \A h \in DOMAIN m : c < h => EndOf(m, c) <= h /\ rest < h
    BY <1>1, <1>2, <1>3, <2>1 DEF Hdr
  <2>3. \A h \in DOMAIN m : h < rest /\ h # c => EndOf(m, h) <= c
    BY <1>1, <1>2, <1>3, <2>1, <2>2
  <2> QED BY <1>1, <1>2, <1>3, <1>4, <1>5, <2>1, <2>2, <2>3
<1>11. 0 \in DOMAIN s /\ DOMAIN s \subseteq Nat
  BY <1>1, <1>4 DEF WellFormed, TilesArena
<1> QED BY <1>4, <1>6, <1>7, <1>8, <1>9, <1>10, <1>11 DEF WellFormed, TilesArena, s

\* A block's next is the one that starts where it ends, and prev leads back.
LEMMA NeighbourIsNext ==
  ASSUME NEW m, WellFormed(m), NEW a \in DOMAIN m, NEW b \in DOMAIN m, EndOf(m, a) = b
  PROVE  a < b /\ m[a].next = b /\ m[b].prev = a /\ m[b].next # b
<1>1. \A h \in DOMAIN m : /\ h \in Nat /\ m[h] \in Entry
                          /\ Linked(m, h) /\ NextIsWhereItEnds(m, h)
  BY DEF WellFormed, TilesArena
<1>2. \A h \in DOMAIN m : /\ EndOf(m, h) \in Nat /\ h < EndOf(m, h) /\ EndOf(m, h) <= Top
                          /\ m[h].next = IF EndOf(m, h) = Top THEN 0 ELSE EndOf(m, h)
  BY <1>1 DEF EndOf, Entry, Hdr, NextIsWhereItEnds
<1>3. Top \in Nat
  BY ReserveAssumption DEF Top, Hdr
<1>4. a < b /\ b < EndOf(m, b) /\ b # Top
  BY <1>1, <1>2, <1>3
<1>5. m[a].next = b /\ m[b].next # b
  BY <1>1, <1>2, <1>4
<1>6. m[b].prev = a
  BY <1>1, <1>5 DEF Linked
<1> QED BY <1>4, <1>5, <1>6

\* What a merge changes: the block before now ends where the absorbed one did.
LEMMA AbsorbFacts ==
  ASSUME NEW m, WellFormed(m), NEW a \in DOMAIN m, NEW b \in DOMAIN m, EndOf(m, a) = b
  PROVE  /\ DOMAIN Absorb(m, a, b) = DOMAIN m \ {b}
         /\ EndOf(Absorb(m, a, b), a) = EndOf(m, b)
         /\ \A h \in DOMAIN m \ {b} :
              /\ Absorb(m, a, b)[h].free = m[h].free
              /\ h # a => EndOf(Absorb(m, a, b), h) = EndOf(m, h)
<1>1. \A h \in DOMAIN m : h \in Nat /\ m[h] \in Entry
  BY DEF WellFormed
<1>2. a # b
  BY <1>1, NeighbourIsNext
<1>3. /\ DOMAIN Absorb(m, a, b) = DOMAIN m \ {b}
      /\ \A h \in DOMAIN m \ {b} :
           /\ Absorb(m, a, b)[h].free = m[h].free
           /\ Absorb(m, a, b)[h].length =
                IF h = a THEN m[a].length + m[b].length + Hdr ELSE m[h].length
  BY DEF Absorb
<1>4. /\ EndOf(Absorb(m, a, b), a) = EndOf(m, b)
      /\ \A h \in DOMAIN m \ {b} : h # a => EndOf(Absorb(m, a, b), h) = EndOf(m, h)
  BY <1>1, <1>2, <1>3 DEF EndOf, Hdr, Entry
<1> QED BY <1>3, <1>4

\* Both merges of free() keep the heap well formed.
LEMMA AbsorbWellFormed ==
  ASSUME NEW m, WellFormed(m), NEW a \in DOMAIN m, NEW b \in DOMAIN m, EndOf(m, a) = b
  PROVE  WellFormed(Absorb(m, a, b))
<1> DEFINE r == Absorb(m, a, b)
<1>1. \A h \in DOMAIN m : /\ h \in Nat /\ m[h] \in Entry
                          /\ Aligned(m, h) /\ Linked(m, h) /\ NextIsWhereItEnds(m, h)
  BY DEF WellFormed, TilesArena
<1>2. \A g, h \in DOMAIN m : g < h => EndOf(m, g) <= h
  BY DEF WellFormed, TilesArena
<1>3. \A h \in DOMAIN m : EndOf(m, h) \in Nat /\ h < EndOf(m, h)
  BY <1>1 DEF EndOf, Entry, Hdr
<1>4. /\ a < b /\ m[a].next = b /\ m[b].prev = a /\ m[b].next # b
      /\ DOMAIN r = DOMAIN m \ {b}
      /\ EndOf(r, a) = EndOf(m, b)
      /\ \A h \in DOMAIN r : h # a => EndOf(r, h) = EndOf(m, h)
  BY NeighbourIsNext, AbsorbFacts
<1>5. /\ r = [h \in DOMAIN r |-> r[h]]
      /\ \A h \in DOMAIN r :
           r[h] = [next   |-> IF h = a THEN m[b].next ELSE m[h].next,
                   prev   |-> IF h = m[b].next THEN a ELSE m[h].prev,
                   length |-> IF h = a THEN m[a].length + m[b].length + Hdr ELSE m[h].length,
                   free   |-> m[h].free]
  BY DEF Absorb
<1> HIDE DEF r
<1>6. \A h \in DOMAIN r :
        /\ r[h].next = (IF h = a THEN m[b].next ELSE m[h].next)
        /\ r[h].prev = (IF h = m[b].next THEN a ELSE m[h].prev)
        /\ r[h].length = (IF h = a THEN m[a].length + m[b].length + Hdr ELSE m[h].length)
  BY <1>5
<1>7. \A h \in DOMAIN r : r[h] \in Entry
  BY <1>1, <1>4, <1>5 DEF Entry, Hdr
<1>8. \A h \in DOMAIN r : Aligned(r, h)
  BY <1>1, <1>4, <1>6 DEF Aligned, Entry, Hdr
<1>9. ASSUME NEW h \in DOMAIN r PROVE Linked(r, h)
  <2>1. \A g \in DOMAIN m : /\ m[g].next \in DOMAIN m /\ m[m[g].next].prev = g
                            /\ m[g].prev \in DOMAIN m /\ m[m[g].prev].next = g
    BY <1>1 DEF Linked
  <2>2. r[h].next \in DOMAIN r /\ r[r[h].next].prev = h
    <3>1. CASE h = a
      BY <1>4, <1>6, <2>1, <3>1
    <3>2. CASE h # a
      <4>1. h \in DOMAIN m /\ h # b /\ r[h].next = m[h].next
        BY <1>4, <1>6, <3>2
      <4>2. m[h].next # b
        BY <1>4, <2>1, <3>2, <4>1
      <4>3. m[h].next # m[b].next
        BY <2>1, <4>1
      <4>4. m[h].next \in DOMAIN r
        BY <1>4, <2>1, <4>1, <4>2
      <4>5. r[m[h].next].prev = m[m[h].next].prev
        BY <1>6, <4>3, <4>4
      <4> QED BY <2>1, <4>1, <4>4, <4>5
    <3> QED BY <3>1, <3>2
  <2>3. r[h].prev \in DOMAIN r /\ r[r[h].prev].next = h
    <3>1. CASE h = m[b].next
      BY <1>4, <1>6, <2>1, <3>1
    <3>2. CASE h # m[b].next
      <4>1. h \in DOMAIN m /\ h # b /\ r[h].prev = m[h].prev
        BY <1>4, <1>6, <3>2
      <4>2. m[h].prev # b /\ m[h].prev # a
        BY <1>4, <2>1, <3>2, <4>1
      <4>3. m[h].prev \in DOMAIN r
        BY <1>4, <2>1, <4>1, <4>2
      <4>4. r[m[h].prev].next = m[m[h].prev].next
        BY <1>6, <4>2, <4>3
      <4> QED BY <2>1, <4>1, <4>3, <4>4
    <3> QED BY <3>1, <3>2
  <2> QED BY <2>2, <2>3 DEF Linked
<1>10. \A h \in DOMAIN r : NextIsWhereItEnds(r, h)
  BY <1>1, <1>4, <1>6 DEF NextIsWhereItEnds
<1>11. \A g, h \in DOMAIN r : g < h => EndOf(r, g) <= h
  <2>1. \A h \in DOMAIN r : a < h => EndOf(m, b) <= h
    BY <1>1, <1>2, <1>3, <1>4
  <2> SUFFICES ASSUME NEW g \in DOMAIN r, NEW h \in DOMAIN r, g < h
               PROVE  EndOf(r, g) <= h
    OBVIOUS
  <2>2. CASE g = a
    BY <1>4, <2>1, <2>2
  <2>3. CASE g # a
    BY <1>2, <1>4, <2>3
  <2> QED BY <2>2, <2>3
<1>12. 0 \in DOMAIN r /\ DOMAIN r \subseteq Nat
  BY <1>1, <1>4 DEF WellFormed, TilesArena
<1> QED BY <1>5, <1>7, <1>8, <1>9, <1>10, <1>11, <1>12 DEF WellFormed, TilesArena, r

\* A merge of two free blocks does not touch a used one.
LEMMA AbsorbKeepsUsed ==
  ASSUME NEW m, WellFormed(m), NEW a \in DOMAIN m, NEW b \in DOMAIN m, Joinable(m, a, b)
  PROVE  /\ Used(Absorb(m, a, b)) = Used(m)
         /\ \A h \in Used(m) : Absorb(m, a, b)[h].length = m[h].length
  BY DEF Absorb, Used, Joinable

\* The free flags may change as they like: the tiling does not depend on them.
LEMMA FlagsKeepWellFormed ==
  ASSUME NEW m, WellFormed(m), NEW h \in DOMAIN m, NEW v \in BOOLEAN
  PROVE  /\ WellFormed([m EXCEPT ![h].free = v])
         /\ \A g \in DOMAIN m : /\ EndOf([m EXCEPT ![h].free = v], g) = EndOf(m, g)
                                /\ [m EXCEPT ![h].free = v][g].length = m[g].length
<1> DEFINE f == [m EXCEPT ![h].free = v]
<1>1. /\ m \in [DOMAIN m -> Entry] /\ DOMAIN m \subseteq Nat /\ TilesArena(m)
  BY DEF WellFormed
<1>2. /\ f \in [DOMAIN m -> Entry]
      /\ DOMAIN f = DOMAIN m
      /\ \A g \in DOMAIN m : /\ f[g].next = m[g].next /\ f[g].prev = m[g].prev
                             /\ f[g].length = m[g].length
  BY <1>1 DEF Entry
<1> HIDE DEF f
<1>3. \A g \in DOMAIN m : EndOf(f, g) = EndOf(m, g)
  BY <1>2 DEF EndOf
<1>4. ASSUME NEW g \in DOMAIN f
      PROVE  Aligned(f, g) /\ Linked(f, g) /\ NextIsWhereItEnds(f, g)
  <2>1. Aligned(m, g) /\ Linked(m, g) /\ NextIsWhereItEnds(m, g)
    BY <1>1, <1>2 DEF TilesArena
  <2> QED BY <1>2, <1>3, <2>1 DEF Aligned, Linked, NextIsWhereItEnds
<1>5. TilesArena(f)
  BY <1>1, <1>2, <1>3, <1>4 DEF TilesArena
<1>6. WellFormed(f)
  BY <1>1, <1>2, <1>5 DEF WellFormed
<1> QED BY <1>2, <1>3, <1>6 DEF f

\* The three stages of free(p).  First the block is marked: only it can have a
\* free neighbour now.
LEMMA MarkFreeFacts ==
  ASSUME NEW m, WellFormed(m), NEW h \in DOMAIN m, ~m[h].free,
         \A g, x \in DOMAIN m : ~FreeNeighbours(m, g, x)
  PROVE  /\ WellFormed(MarkFree(m, h))
         /\ DOMAIN MarkFree(m, h) = DOMAIN m
         /\ MarkFree(m, h)[h].free
         /\ Used(MarkFree(m, h)) = Used(m) \ {h}
         /\ \A g \in DOMAIN m : MarkFree(m, h)[g].length = m[g].length
         /\ \A g, x \in DOMAIN m : FreeNeighbours(MarkFree(m, h), g, x) => g = h \/ x = h
<1> DEFINE f == MarkFree(m, h)
<1>1. /\ WellFormed(f)
      /\ \A g \in DOMAIN m : EndOf(f, g) = EndOf(m, g) /\ f[g].length = m[g].length
  BY FlagsKeepWellFormed DEF MarkFree
<1>2. DOMAIN f = DOMAIN m /\ f[h].free
  BY DEF MarkFree, WellFormed, Entry
<1>3. \A g \in DOMAIN m : g # h => f[g].free = m[g].free
  BY DEF MarkFree
<1> HIDE DEF f
<1>4. Used(f) = Used(m) \ {h}
  BY <1>2, <1>3 DEF Used
<1>5. \A g, x \in DOMAIN m : FreeNeighbours(f, g, x) => g = h \/ x = h
  BY <1>1, <1>2, <1>3 DEF FreeNeighbours
<1> QED BY <1>1, <1>2, <1>4, <1>5 DEF f

\* Then it joins the block before: only the survivor can have a free successor.
LEMMA JoinBeforeFacts ==
  ASSUME NEW f, WellFormed(f), NEW h \in DOMAIN f, f[h].free,
         \A g, x \in DOMAIN f : FreeNeighbours(f, g, x) => g = h \/ x = h
  PROVE  /\ WellFormed(JoinBefore(f, h))
         /\ Survivor(f, h) \in DOMAIN JoinBefore(f, h)
         /\ JoinBefore(f, h)[Survivor(f, h)].free
         /\ Used(JoinBefore(f, h)) = Used(f)
         /\ \A g \in Used(f) : JoinBefore(f, h)[g].length = f[g].length
         /\ \A g, x \in DOMAIN JoinBefore(f, h) :
              FreeNeighbours(JoinBefore(f, h), g, x) => g = Survivor(f, h)
<1> DEFINE p == f[h].prev
           j == JoinBefore(f, h)
           k == Survivor(f, h)
<1>1. p \in DOMAIN f
  BY DEF WellFormed, TilesArena, Linked
<1>2. CASE Joinable(f, p, h)
  <2>1. EndOf(f, p) = h /\ f[p].free
    BY <1>2 DEF Joinable
  <2>2. /\ p < h /\ DOMAIN Absorb(f, p, h) = DOMAIN f \ {h}
        /\ \A g \in DOMAIN f \ {h} :
             /\ Absorb(f, p, h)[g].free = f[g].free
             /\ g # p => EndOf(Absorb(f, p, h), g) = EndOf(f, g)
    BY <1>1, <2>1, NeighbourIsNext, AbsorbFacts
  <2>3. h \in Nat /\ p \in Nat
    BY <1>1 DEF WellFormed
  <2>4. k = p /\ j = Absorb(f, p, h)
    BY <1>2, <2>2, <2>3 DEF Survivor, JoinBefore
  <2>5. WellFormed(j)
    BY <1>1, <2>1, <2>4, AbsorbWellFormed
  <2>6. Used(j) = Used(f) /\ \A g \in Used(f) : j[g].length = f[g].length
    BY <1>1, <1>2, <2>4, AbsorbKeepsUsed
  <2>7. k \in DOMAIN j /\ j[k].free
    BY <1>1, <2>1, <2>2, <2>3, <2>4
  <2>8. ASSUME NEW g \in DOMAIN j, NEW x \in DOMAIN j, FreeNeighbours(j, g, x), g # p
        PROVE  FALSE
    BY <2>2, <2>4, <2>8 DEF FreeNeighbours
  <2> QED BY <2>4, <2>5, <2>6, <2>7, <2>8
<1>3. CASE ~Joinable(f, p, h)
  <2>1. k = h /\ j = f
    BY <1>3 DEF Survivor, JoinBefore
  <2>2. ASSUME NEW g \in DOMAIN f, FreeNeighbours(f, g, h) PROVE FALSE
    <3>1. p = g
      BY <2>2, NeighbourIsNext DEF FreeNeighbours
    <3> QED BY <1>3, <2>2, <3>1 DEF FreeNeighbours, Joinable
  <2> QED BY <2>1, <2>2
<1> QED BY <1>2, <1>3

\* Last it takes over the block after: no two free blocks are neighbours.
LEMMA JoinAfterFacts ==
  ASSUME NEW j, WellFormed(j), NEW k \in DOMAIN j, j[k].free,
         \A g, x \in DOMAIN j : FreeNeighbours(j, g, x) => g = k
  PROVE  /\ WellFormed(JoinAfter(j, k))
         /\ k \in DOMAIN JoinAfter(j, k)
         /\ Used(JoinAfter(j, k)) = Used(j)
         /\ \A g \in Used(j) : JoinAfter(j, k)[g].length = j[g].length
         /\ \A g, x \in DOMAIN JoinAfter(j, k) : ~FreeNeighbours(JoinAfter(j, k), g, x)
<1> DEFINE n == j[k].next
           r == JoinAfter(j, k)
<1>1. n \in DOMAIN j
  BY DEF WellFormed, TilesArena, Linked
<1>2. CASE Joinable(j, k, n)
  <2>1. EndOf(j, k) = n /\ j[n].free
    BY <1>2 DEF Joinable
  <2>2. r = Absorb(j, k, n)
    BY <1>2 DEF JoinAfter
  <2> HIDE DEF r, n
  <2>3. /\ k < n /\ DOMAIN r = DOMAIN j \ {n} /\ EndOf(r, k) = EndOf(j, n)
        /\ \A g \in DOMAIN j \ {n} :
             /\ r[g].free = j[g].free
             /\ g # k => EndOf(r, g) = EndOf(j, g)
    <3>1. k < n
      BY <1>1, <2>1, NeighbourIsNext
    <3>2. /\ DOMAIN Absorb(j, k, n) = DOMAIN j \ {n}
          /\ EndOf(Absorb(j, k, n), k) = EndOf(j, n)
          /\ \A g \in DOMAIN j \ {n} :
               /\ Absorb(j, k, n)[g].free = j[g].free
               /\ g # k => EndOf(Absorb(j, k, n), g) = EndOf(j, g)
      BY <1>1, <2>1, AbsorbFacts
    <3> QED BY <2>2, <3>1, <3>2
  <2>4. WellFormed(r)
    BY <1>1, <2>1, <2>2, AbsorbWellFormed
  <2>5. Used(r) = Used(j) /\ \A g \in Used(j) : r[g].length = j[g].length
    BY <1>1, <1>2, <2>2, AbsorbKeepsUsed DEF n
  <2>6. k \in Nat /\ k # n
    BY <2>3 DEF WellFormed
  <2>7. ASSUME NEW g \in DOMAIN r, NEW x \in DOMAIN r, FreeNeighbours(r, g, x)
        PROVE  FALSE
    <3>1. CASE g = k
      BY <1>1, <2>1, <2>3, <2>6, <2>7, <3>1 DEF FreeNeighbours
    <3>2. CASE g # k
      BY <2>3, <2>7, <3>2 DEF FreeNeighbours
    <3> QED BY <3>1, <3>2
  <2> QED BY <2>3, <2>4, <2>5, <2>6, <2>7 DEF r
<1>3. CASE ~Joinable(j, k, n)
  <2>1. r = j
    BY <1>3 DEF JoinAfter
  <2>2. ASSUME NEW x \in DOMAIN j, FreeNeighbours(j, k, x) PROVE FALSE
    <3>1. n = x
      BY <2>2, NeighbourIsNext DEF FreeNeighbours
    <3> QED BY <1>3, <2>2, <3>1 DEF FreeNeighbours, Joinable
  <2> QED BY <2>1, <2>2
<1> QED BY <1>2, <1>3

\* After a split the block is used, long enough for the request, and the rest
\* is free; the block after it was not free, so no free neighbours appear.
LEMMA SplitFacts ==
  ASSUME NEW m, WellFormed(m), NEW c \in DOMAIN m, m[c].free,
         NEW n \in Nat, Splits(m, c, n),
         \A g, x \in DOMAIN m : ~FreeNeighbours(m, g, x)
  PROVE  /\ Rest(c, n) \in DOMAIN Split(m, c, n)
         /\ Used(Split(m, c, n)) = Used(m) \cup {c}
         /\ n <= Split(m, c, n)[c].length
         /\ \A h \in Used(m) : Split(m, c, n)[h].length = m[h].length
         /\ \A g, x \in DOMAIN Split(m, c, n) : ~FreeNeighbours(Split(m, c, n), g, x)
<1> DEFINE rest == Rest(c, n)
           s == Split(m, c, n)
<1>1. /\ rest \in Nat /\ c < rest /\ c + Hdr + n <= rest
      /\ rest + Hdr <= EndOf(m, c) /\ rest \notin DOMAIN m
  BY SplitRoom
<1>2. \A h \in DOMAIN m : h \in Nat /\ m[h] \in Entry
  BY DEF WellFormed
<1>3. \A g, h \in DOMAIN m : g < h => EndOf(m, g) <= h
  BY DEF WellFormed, TilesArena
<1>4. /\ DOMAIN s = DOMAIN m \cup {rest}
      /\ s[rest].free /\ ~s[c].free
      /\ s[rest].length = m[c].length - (rest - c)
      /\ s[c].length = rest - c - Hdr
      /\ \A h \in DOMAIN m : h # c => s[h].free = m[h].free /\ s[h].length = m[h].length
  <2>1. /\ DOMAIN s = DOMAIN m \cup {rest}
        /\ s[rest] = [next |-> m[c].next, prev |-> c,
                      length |-> m[c].length - (rest - c), free |-> TRUE]
        /\ \A h \in DOMAIN m :
             s[h] = [next   |-> IF h = c THEN rest ELSE m[h].next,
                     prev   |-> IF h = m[c].next THEN rest ELSE m[h].prev,
                     length |-> IF h = c THEN rest - c - Hdr ELSE m[h].length,
                     free   |-> h # c /\ m[h].free]
    BY <1>1 DEF Split
  <2> HIDE DEF s, rest
  <2>2. /\ s[rest].free /\ s[rest].length = m[c].length - (rest - c)
        /\ \A h \in DOMAIN m :
             /\ s[h].free = (h # c /\ m[h].free)
             /\ s[h].length = IF h = c THEN rest - c - Hdr ELSE m[h].length
    BY <2>1
  <2>3. \A h \in DOMAIN m : m[h].free \in BOOLEAN
    BY <1>2 DEF Entry
  <2>4. ~s[c].free /\ \A h \in DOMAIN m : h # c => s[h].free = m[h].free
    BY <2>2, <2>3
  <2> QED BY <2>1, <2>2, <2>4
<1> HIDE DEF s, rest
<1>5. /\ EndOf(s, rest) = EndOf(m, c)
      /\ \A h \in DOMAIN m : h # c => EndOf(s, h) = EndOf(m, h)
  BY <1>1, <1>2, <1>4 DEF EndOf, Entry, Hdr
<1>6. Used(s) = Used(m) \cup {c} /\ \A h \in Used(m) : s[h].length = m[h].length
  BY <1>4 DEF Used
<1>7. n <= s[c].length
  BY <1>1, <1>2, <1>4 DEF Hdr
<1>8. ASSUME NEW g \in DOMAIN s, NEW x \in DOMAIN s, FreeNeighbours(s, g, x)
      PROVE  FALSE
  <2>1. EndOf(s, g) = x /\ s[g].free /\ s[x].free /\ g # c /\ x # c
    BY <1>4, <1>8 DEF FreeNeighbours
  <2>2. \A h \in DOMAIN m : EndOf(m, h) \in Nat /\ h < EndOf(m, h)
    BY <1>2 DEF EndOf, Entry, Hdr
  <2>3. CASE g = rest
    <3>1. EndOf(m, c) = x /\ x # rest
      BY <1>1, <1>5, <2>1, <2>2, <2>3 DEF Hdr
    <3>2. x \in DOMAIN m /\ m[x].free
      BY <1>4, <2>1, <3>1
    <3> QED BY <3>1, <3>2 DEF FreeNeighbours
  <2>4. CASE g # rest /\ x = rest
    <3>1. g \in DOMAIN m /\ EndOf(m, g) = rest
      BY <1>4, <1>5, <2>1, <2>4
    <3>2. g < c => EndOf(m, g) <= c
      BY <1>3, <3>1
    <3>3. c < g => rest < g
      BY <1>1, <1>2, <1>3, <2>2, <3>1 DEF Hdr
    <3> QED BY <1>1, <1>2, <2>1, <2>2, <3>1, <3>2, <3>3
  <2>5. CASE g # rest /\ x # rest
    BY <1>4, <1>5, <2>1, <2>5 DEF FreeNeighbours
  <2> QED BY <2>3, <2>4, <2>5
<1> QED BY <1>4, <1>6, <1>7, <1>8 DEF s, rest

-----------------------------------------------------------------------------
(* The inductive invariant: the invariants the model checker evaluates, all *)
(* of them at once.  None is inductive alone: the tiling needs the types,   *)
(* merging needs the tiling, and free() needs that clients hold used blocks.*)

IInv == TypeOK /\ Tiled /\ Coalesced /\ ClientsOwnTheirBlocks /\ CopyFits

\* What IInv says of a heap that has been initialised.
LEMMA IInvFacts ==
  ASSUME IInv
  PROVE  /\ DOMAIN mem # {} => WellFormed(mem) /\ last_used \in DOMAIN mem
         /\ \A g, x \in DOMAIN mem : ~FreeNeighbours(mem, g, x)
         /\ Used(mem) \subseteq Nat
         /\ \A h \in Nat : h + Hdr \in DOMAIN live <=> h \in Used(mem)
         /\ \A p \in DOMAIN live : /\ p \in Nat /\ p - Hdr \in Used(mem)
                                   /\ p - Hdr \in Nat /\ (p - Hdr) + Hdr = p
                                   /\ live[p] \in Nat
                                   /\ live[p] <= mem[p - Hdr].length
<1>1. DOMAIN mem \subseteq Nat /\ Used(mem) \subseteq Nat
  BY DEF IInv, TypeOK, Used
<1>2. DOMAIN mem # {} => WellFormed(mem) /\ last_used \in DOMAIN mem
  BY DEF IInv, TypeOK, Tiled, WellFormed, TilesArena
<1>3. DOMAIN live = {h + Hdr : h \in Used(mem)}
  BY DEF IInv, ClientsOwnTheirBlocks
<1>4. \A h \in Nat : h + Hdr \in DOMAIN live <=> h \in Used(mem)
  BY <1>1, <1>3 DEF Hdr
<1>5. \A p \in DOMAIN live : /\ p \in Nat /\ p - Hdr \in Used(mem)
                             /\ p - Hdr \in Nat /\ (p - Hdr) + Hdr = p
  BY <1>1, <1>3 DEF Hdr
<1> QED BY <1>1, <1>2, <1>4, <1>5 DEF IInv, Coalesced, TypeOK, ClientsOwnTheirBlocks

\* The heap starts uninitialised.
LEMMA InitIInv == Init => IInv
<1> SUFFICES ASSUME Init PROVE IInv
  OBVIOUS
<1>1. DOMAIN mem = {} /\ DOMAIN live = {}
  BY DEF Init
<1>2. Used(mem) = {}
  BY <1>1 DEF Used
<1>3. mem \in [DOMAIN mem -> Entry] /\ live \in [DOMAIN live -> Nat]
  BY <1>1 DEF Init
<1>4. TypeOK
  BY <1>1, <1>3 DEF Init, TypeOK, NullPtr
<1>5. Tiled /\ Coalesced /\ CopyFits
  BY <1>1 DEF Init, Tiled, Coalesced, CopyFits
<1>6. ClientsOwnTheirBlocks
  BY <1>1, <1>2 DEF Init, ClientsOwnTheirBlocks
<1> QED BY <1>4, <1>5, <1>6 DEF IInv

\* The beginning of malloc, also as a part of realloc.
LEMMA StartSearchKeepsIInv ==
  ASSUME IInv, NEW n \in Nat, NEW p \in Nat, StartSearch(n, p),
         p # NullPtr => p \in DOMAIN live /\ mem[p - Hdr].length <= n
  PROVE  IInv'
<1>1. CASE DOMAIN mem = {}
  <2> DEFINE first == [next |-> 0, prev |-> 0, length |-> Reserve, free |-> TRUE]
  <2>1. mem' = [h \in {0} |-> first]
    BY <1>1 DEF StartSearch, Initialised
  <2>2. DOMAIN mem' = {0} /\ mem'[0] = first /\ first \in Entry
    BY <2>1, ReserveAssumption DEF Entry
  <2>3. EndOf(mem', 0) = Top /\ Top \in Nat /\ Top # 0 /\ Top \notin DOMAIN mem'
    BY <2>2, ReserveAssumption DEF EndOf, Top, Hdr
  <2>4. Used(mem') = {} /\ Used(mem) = {}
    BY <1>1, <2>2 DEF Used
  <2>5. last_used = 0 /\ DOMAIN live = {}
    BY <1>1, <2>4, IInvFacts DEF IInv, TypeOK
  <2>6. mem' \in [DOMAIN mem' -> Entry]
    BY <2>1, <2>2
  <2>7. TypeOK'
    BY <2>2, <2>5, <2>6 DEF IInv, TypeOK, StartSearch
  <2>8. Tiled'
    BY <2>2, <2>3, ReserveAssumption
       DEF Tiled, TilesArena, Aligned, Linked, NextIsWhereItEnds
  <2>9. Coalesced'
    BY <2>2, <2>3 DEF Coalesced, FreeNeighbours
  <2>10. ClientsOwnTheirBlocks' /\ CopyFits'
    BY <2>4, <2>5 DEF ClientsOwnTheirBlocks, CopyFits, StartSearch, NullPtr
  <2> QED BY <2>7, <2>8, <2>9, <2>10 DEF IInv
<1>2. CASE DOMAIN mem # {}
  <2>1. mem' = mem /\ live' = live /\ last_used' = last_used
    BY <1>2 DEF StartSearch, Initialised
  <2>2. last_used \in DOMAIN mem
    BY <1>2, IInvFacts
  <2>3. TypeOK'
    BY <2>1, <2>2 DEF IInv, TypeOK, StartSearch
  <2>4. Tiled' /\ Coalesced' /\ ClientsOwnTheirBlocks' /\ CopyFits'
    BY <2>1 DEF IInv, Tiled, Coalesced, ClientsOwnTheirBlocks, CopyFits, StartSearch
  <2> QED BY <2>3, <2>4 DEF IInv
<1> QED BY <1>1, <1>2

\* One turn of the search loop.
LEMMA SearchOnKeepsIInv == IInv /\ SearchOn => IInv'
<1> SUFFICES ASSUME IInv, SearchOn PROVE IInv'
  OBVIOUS
<1>1. cur \in DOMAIN mem
  BY DEF IInv, TypeOK, SearchOn
<1>2. cur' \in DOMAIN mem /\ cur' \in Nat
  BY <1>1, IInvFacts DEF SearchOn, WellFormed, TilesArena, Linked
<1>3. TypeOK'
  BY <1>2 DEF IInv, TypeOK, SearchOn
<1> QED
  BY <1>3 DEF IInv, Tiled, Coalesced, ClientsOwnTheirBlocks, CopyFits, SearchOn

\* The list as Found leaves it, whether or not the block is split.
LEMMA FoundFacts ==
  ASSUME IInv, Found
  PROVE  /\ cur \in DOMAIN mem /\ cur \notin Used(mem)
         /\ WellFormed(mem')
         /\ last_used' \in DOMAIN mem'
         /\ Used(mem') = Used(mem) \cup {cur}
         /\ size <= mem'[cur].length
         /\ \A h \in Used(mem) : mem'[h].length = mem[h].length
         /\ \A g, x \in DOMAIN mem' : ~FreeNeighbours(mem', g, x)
<1>1. cur \in DOMAIN mem /\ size \in Nat /\ mem[cur].free /\ mem[cur].length >= size
  BY DEF IInv, TypeOK, Found, Fits
<1>2. /\ WellFormed(mem) /\ last_used \in DOMAIN mem
      /\ \A g, x \in DOMAIN mem : ~FreeNeighbours(mem, g, x)
  BY <1>1, IInvFacts
<1>3. CASE Splits(mem, cur, size)
  <2>1. mem' = Split(mem, cur, size) /\ last_used' = Rest(cur, size)
    BY <1>3 DEF Found
  <2> QED BY <1>1, <1>2, <1>3, <2>1, SplitWellFormed, SplitFacts DEF Used
<1>4. CASE ~Splits(mem, cur, size)
  <2>1. mem' = [mem EXCEPT ![cur].free = FALSE] /\ last_used' = last_used
    BY <1>4 DEF Found
  <2>2. WellFormed(mem') /\ \A g \in DOMAIN mem : /\ EndOf(mem', g) = EndOf(mem, g)
                                                  /\ mem'[g].length = mem[g].length
    BY <1>1, <1>2, <2>1, FlagsKeepWellFormed
  <2>3. /\ DOMAIN mem' = DOMAIN mem /\ ~mem'[cur].free
        /\ \A g \in DOMAIN mem : g # cur => mem'[g].free = mem[g].free
    BY <1>1, <1>2, <2>1 DEF WellFormed, Entry
  <2>4. Used(mem') = Used(mem) \cup {cur}
    BY <1>1, <2>3 DEF Used
  <2>5. \A g, x \in DOMAIN mem' : ~FreeNeighbours(mem', g, x)
    BY <1>2, <2>2, <2>3 DEF FreeNeighbours
  <2> QED BY <1>1, <1>2, <2>1, <2>2, <2>3, <2>4, <2>5 DEF Used
<1> QED BY <1>3, <1>4

\* The block that was found becomes the client's.
LEMMA FoundKeepsIInv == IInv /\ Found => IInv'
<1> SUFFICES ASSUME IInv, Found PROVE IInv'
  OBVIOUS
<1>1. /\ cur \in DOMAIN mem /\ cur \notin Used(mem)
      /\ WellFormed(mem') /\ last_used' \in DOMAIN mem'
      /\ Used(mem') = Used(mem) \cup {cur} /\ size <= mem'[cur].length
      /\ \A h \in Used(mem) : mem'[h].length = mem[h].length
      /\ \A g, x \in DOMAIN mem' : ~FreeNeighbours(mem', g, x)
  BY FoundFacts
<1>2. /\ Used(mem) \subseteq Nat
      /\ \A h \in Nat : h + Hdr \in DOMAIN live <=> h \in Used(mem)
      /\ \A p \in DOMAIN live : /\ p \in Nat /\ p - Hdr \in Used(mem)
                                /\ p - Hdr \in Nat /\ (p - Hdr) + Hdr = p
                                /\ live[p] \in Nat
                                /\ live[p] <= mem[p - Hdr].length
  BY IInvFacts
<1>3. cur \in Nat /\ size \in Nat /\ old \in Nat /\ pc = "search"
  BY DEF IInv, TypeOK, Found
<1> DEFINE new == cur + Hdr
<1>4. new \in Nat /\ new \notin DOMAIN live /\ new - Hdr = cur
  BY <1>1, <1>2, <1>3 DEF Hdr
<1>5. /\ DOMAIN live' = DOMAIN live \cup {new}
      /\ live'[new] = size
      /\ \A p \in DOMAIN live : live'[p] = live[p]
      /\ live' \in [DOMAIN live' -> Nat]
  BY <1>2, <1>3, <1>4 DEF Found
<1>6. /\ mem' \in [DOMAIN mem' -> Entry] /\ DOMAIN mem' \subseteq Nat /\ TilesArena(mem')
  BY <1>1 DEF WellFormed, TilesArena, Aligned, Linked, NextIsWhereItEnds, EndOf
<1>7. \/ pc' = "idle" /\ cur' = 0 /\ size' = 0 /\ old' = NullPtr
      \/ pc' = "copied" /\ UNCHANGED <<cur, size, old>>
  <2>1. CASE old = NullPtr
    BY <2>1 DEF Found, ForgetCall
  <2>2. CASE old # NullPtr
    BY <2>2 DEF Found
  <2> QED BY <2>1, <2>2
<1>8. cur \in DOMAIN mem'
  BY <1>1 DEF Used
<1>9. TypeOK'
  BY <1>1, <1>2, <1>3, <1>4, <1>5, <1>6, <1>7, <1>8 DEF TypeOK, NullPtr
<1>10. Tiled' /\ Coalesced'
  BY <1>1, <1>6 DEF Tiled, Coalesced
<1>11. ClientsOwnTheirBlocks'
  <2>1. DOMAIN live' = {h + Hdr : h \in Used(mem')}
    BY <1>1, <1>5 DEF IInv, ClientsOwnTheirBlocks
  <2>2. \A p \in DOMAIN live' : live'[p] <= mem'[p - Hdr].length
    BY <1>1, <1>2, <1>4, <1>5
  <2> QED BY <1>7, <2>1, <2>2 DEF ClientsOwnTheirBlocks
<1>12. CopyFits'
  <2>1. CASE pc' = "idle"
    BY <2>1 DEF CopyFits
  <2>2. CASE pc' = "copied"
    <3>1. UNCHANGED <<cur, size, old>> /\ old # NullPtr
      BY <2>2 DEF Found
    <3>2. old \in DOMAIN live /\ mem[old - Hdr].length <= size
      BY <1>3, <3>1 DEF IInv, CopyFits
    <3>3. old # new /\ mem'[old - Hdr].length = mem[old - Hdr].length
      BY <1>1, <1>2, <1>4, <3>2
    <3>4. mem[old - Hdr].length \in Nat /\ mem'[cur].length \in Nat
      BY <1>1, <1>2, <1>6, <1>8, <3>2 DEF IInv, TypeOK, Entry, Used
    <3> QED BY <1>1, <1>3, <1>5, <2>2, <3>1, <3>2, <3>3, <3>4 DEF CopyFits
  <2> QED BY <1>7, <2>1, <2>2
<1> QED BY <1>9, <1>10, <1>11, <1>12 DEF IInv

\* The list as free leaves it.
LEMMA ReleaseFacts ==
  ASSUME IInv, NEW p \in DOMAIN live, Release(p)
  PROVE  /\ WellFormed(mem')
         /\ last_used' \in DOMAIN mem'
         /\ Used(mem') = Used(mem) \ {p - Hdr}
         /\ \A g \in Used(mem') : mem'[g].length = mem[g].length
         /\ \A g, x \in DOMAIN mem' : ~FreeNeighbours(mem', g, x)
         /\ live' = [q \in DOMAIN live \ {p} |-> live[q]]
         /\ pc' = "idle" /\ cur' = 0 /\ size' = 0 /\ old' = NullPtr
<1> DEFINE h == p - Hdr
           f == MarkFree(mem, h)
           j == JoinBefore(f, h)
           k == Survivor(f, h)
<1>1. h \in DOMAIN mem /\ ~mem[h].free
  BY IInvFacts DEF Used
<1>2. /\ mem' = JoinAfter(j, k) /\ last_used' = k
      /\ live' = [q \in DOMAIN live \ {p} |-> live[q]]
      /\ pc' = "idle" /\ cur' = 0 /\ size' = 0 /\ old' = NullPtr
  BY <1>1 DEF Release, ForgetCall
<1>3. WellFormed(mem) /\ \A g, x \in DOMAIN mem : ~FreeNeighbours(mem, g, x)
  BY <1>1, IInvFacts
<1> HIDE DEF h
<1>4. /\ WellFormed(f) /\ DOMAIN f = DOMAIN mem /\ f[h].free
      /\ Used(f) = Used(mem) \ {h}
      /\ \A g \in DOMAIN mem : f[g].length = mem[g].length
      /\ \A g, x \in DOMAIN f : FreeNeighbours(f, g, x) => g = h \/ x = h
  BY <1>1, <1>3, MarkFreeFacts
<1> HIDE DEF f
<1>5. /\ WellFormed(j) /\ k \in DOMAIN j /\ j[k].free
      /\ Used(j) = Used(f) /\ \A g \in Used(f) : j[g].length = f[g].length
      /\ \A g, x \in DOMAIN j : FreeNeighbours(j, g, x) => g = k
  BY <1>1, <1>4, JoinBeforeFacts
<1> HIDE DEF j, k
<1>6. /\ WellFormed(mem') /\ k \in DOMAIN mem' /\ Used(mem') = Used(j)
      /\ \A g \in Used(j) : mem'[g].length = j[g].length
      /\ \A g, x \in DOMAIN mem' : ~FreeNeighbours(mem', g, x)
  BY <1>2, <1>5, JoinAfterFacts
<1>7. \A g \in Used(mem') : mem'[g].length = mem[g].length
  BY <1>4, <1>5, <1>6 DEF Used
<1> QED BY <1>2, <1>4, <1>5, <1>6, <1>7 DEF h

\* free(p) of a block the client holds, alone or at the end of realloc.
LEMMA ReleaseKeepsIInv ==
  ASSUME IInv, NEW p \in DOMAIN live, Release(p)
  PROVE  IInv'
<1>1. /\ WellFormed(mem') /\ last_used' \in DOMAIN mem'
      /\ Used(mem') = Used(mem) \ {p - Hdr}
      /\ \A g \in Used(mem') : mem'[g].length = mem[g].length
      /\ \A g, x \in DOMAIN mem' : ~FreeNeighbours(mem', g, x)
      /\ live' = [q \in DOMAIN live \ {p} |-> live[q]]
      /\ pc' = "idle" /\ cur' = 0 /\ size' = 0 /\ old' = NullPtr
  BY ReleaseFacts
<1>2. /\ Used(mem) \subseteq Nat
      /\ \A h \in Nat : h + Hdr \in DOMAIN live <=> h \in Used(mem)
      /\ \A q \in DOMAIN live : /\ q \in Nat /\ q - Hdr \in Used(mem)
                                /\ q - Hdr \in Nat /\ (q - Hdr) + Hdr = q
                                /\ live[q] \in Nat
                                /\ live[q] <= mem[q - Hdr].length
  BY IInvFacts
<1>3. /\ DOMAIN live' = DOMAIN live \ {p}
      /\ \A q \in DOMAIN live' : live'[q] = live[q]
      /\ live' \in [DOMAIN live' -> Nat]
  BY <1>1, <1>2
<1>4. TypeOK'
  BY <1>1, <1>2, <1>3 DEF TypeOK, WellFormed, NullPtr
<1>5. Tiled' /\ Coalesced' /\ CopyFits'
  BY <1>1 DEF Tiled, Coalesced, CopyFits, WellFormed
<1>6. ClientsOwnTheirBlocks'
  <2>1. DOMAIN live' = {h + Hdr : h \in Used(mem')}
    <3>1. ASSUME NEW q \in DOMAIN live' PROVE q \in {h + Hdr : h \in Used(mem')}
      <4>1. q - Hdr \in Used(mem')
        BY <1>1, <1>2, <1>3 DEF Hdr
      <4>2. q = (q - Hdr) + Hdr
        BY <1>2, <1>3
      <4> QED BY <4>1, <4>2
    <3>2. ASSUME NEW h \in Used(mem') PROVE h + Hdr \in DOMAIN live'
      BY <1>1, <1>2, <1>3 DEF Hdr
    <3> QED BY <3>1, <3>2
  <2>2. ASSUME NEW q \in DOMAIN live' PROVE live'[q] <= mem'[q - Hdr].length
    <3>1. q - Hdr \in Used(mem')
      BY <1>1, <1>2, <1>3 DEF Hdr
    <3> QED BY <1>1, <1>2, <1>3, <3>1
  <2> QED BY <1>1, <2>1, <2>2 DEF ClientsOwnTheirBlocks
<1> QED BY <1>4, <1>5, <1>6 DEF IInv

\* realloc that keeps its block only changes the size the client may use.
LEMMA ReallocKeepsIInv ==
  ASSUME IInv, NEW p \in DOMAIN live, NEW n \in Nat, Realloc(p, n)
  PROVE  IInv'
<1>1. /\ p \in Nat /\ p - Hdr \in Used(mem)
      /\ Used(mem) \subseteq DOMAIN mem /\ mem[p - Hdr].length \in Nat
      /\ \A q \in DOMAIN live : live[q] \in Nat
  BY IInvFacts DEF Used, IInv, TypeOK, Entry
<1>2. CASE KeepsBlock(p, n)
  <2>1. /\ live' = [live EXCEPT ![p] = n]
        /\ UNCHANGED <<mem, last_used, pc, cur, size, old>>
    BY <1>2 DEF Realloc
  <2>2. /\ DOMAIN live' = DOMAIN live /\ live' \in [DOMAIN live' -> Nat]
        /\ \A q \in DOMAIN live : live'[q] = IF q = p THEN n ELSE live[q]
    BY <1>1, <2>1 DEF IInv, TypeOK
  <2>3. n <= mem[p - Hdr].length
    BY <1>1, <1>2 DEF KeepsBlock
  <2>4. TypeOK'
    BY <2>1, <2>2 DEF IInv, TypeOK
  <2>5. Tiled' /\ Coalesced' /\ CopyFits'
    BY <2>1, <2>2 DEF IInv, Tiled, Coalesced, CopyFits
  <2>6. ClientsOwnTheirBlocks'
    BY <2>1, <2>2, <2>3 DEF IInv, ClientsOwnTheirBlocks
  <2> QED BY <2>4, <2>5, <2>6 DEF IInv
<1>3. CASE ~KeepsBlock(p, n)
  <2>1. StartSearch(n, p)
    BY <1>3 DEF Realloc
  <2>2. mem[p - Hdr].length <= n
    BY <1>1, <1>3 DEF KeepsBlock
  <2> QED BY <1>1, <2>1, <2>2, StartSearchKeepsIInv
<1> QED BY <1>2, <1>3

LEMMA NextIInv == IInv /\ [Next]_vars => IInv'
<1> SUFFICES ASSUME IInv, [Next]_vars PROVE IInv'
  OBVIOUS
<1>1. CASE \E n \in Sizes : Malloc(n)
  <2>1. PICK n \in Sizes : StartSearch(n, NullPtr)
    BY <1>1 DEF Malloc
  <2> QED BY <2>1, StartSearchKeepsIInv, SizesAssumption DEF NullPtr
<1>2. CASE \E p \in DOMAIN live, n \in Sizes : Realloc(p, n)
  BY <1>2, ReallocKeepsIInv, SizesAssumption
<1>3. CASE SearchOn
  BY <1>3, SearchOnKeepsIInv
<1>4. CASE Found
  BY <1>4, FoundKeepsIInv
<1>5. CASE \E p \in DOMAIN live : Free(p)
  BY <1>5, ReleaseKeepsIInv DEF Free
<1>6. CASE FreeOld
  <2>1. old \in DOMAIN live
    BY <1>6 DEF FreeOld, IInv, CopyFits
  <2> QED BY <1>6, <2>1, ReleaseKeepsIInv DEF FreeOld
<1>7. CASE UNCHANGED vars
  BY <1>7 DEF vars, IInv, TypeOK, Tiled, Coalesced, ClientsOwnTheirBlocks, CopyFits
<1> QED BY <1>1, <1>2, <1>3, <1>4, <1>5, <1>6, <1>7 DEF Next

\* The heap's invariants hold for every arena size and every request sizes.
THEOREM HeapInvariant == Spec => []IInv
<1>1. Init => IInv
  BY InitIInv
<1>2. IInv /\ [Next]_vars => IInv'
  BY NextIInv
<1> QED BY <1>1, <1>2, PTL DEF Spec

\* The types: in particular no length underflows, in any split.
THEOREM HeapTypes == Spec => []TypeOK
<1>1. IInv => TypeOK
  BY DEF IInv
<1> QED BY <1>1, HeapInvariant, PTL

\* The blocks tile the arena and the list is in address order.
THEOREM HeapTiled == Spec => []Tiled
<1>1. IInv => Tiled
  BY DEF IInv
<1> QED BY <1>1, HeapInvariant, PTL

\* free() always merges: no two neighbouring blocks are free.
THEOREM HeapCoalesced == Spec => []Coalesced
<1>1. IInv => Coalesced
  BY DEF IInv
<1> QED BY <1>1, HeapInvariant, PTL

\* Clients hold exactly the used blocks, and no legal call meets the DOUBLE
\* FREE hang.
THEOREM HeapOwnership == Spec => []ClientsOwnTheirBlocks
<1>1. IInv => ClientsOwnTheirBlocks
  BY DEF IInv
<1> QED BY <1>1, HeapInvariant, PTL

\* realloc's copy of the old block fits in the new one.
THEOREM HeapCopyFits == Spec => []CopyFits
<1>1. IInv => CopyFits
  BY DEF IInv
<1> QED BY <1>1, HeapInvariant, PTL

-----------------------------------------------------------------------------
(* The heap implements RangeAllocator, with held <- live.                  *)

\* Requests no longer than their blocks are inside the arena and apart.
LEMMA BlocksApart ==
  ASSUME NEW m, WellFormed(m), NEW g \in DOMAIN m, NEW i \in Nat, i <= m[g].length
  PROVE  /\ Hdr <= g + Hdr
         /\ (g + Hdr) + i <= Top
         /\ \A h \in DOMAIN m, n \in Nat :
              h # g /\ n <= m[h].length => Ranges!Apart(g + Hdr, i, h + Hdr, n)
<1>1. \A h \in DOMAIN m : /\ h \in Nat /\ m[h].length \in Nat
                          /\ EndOf(m, h) = h + Hdr + m[h].length /\ EndOf(m, h) <= Top
  BY DEF WellFormed, Entry, TilesArena, NextIsWhereItEnds, EndOf
<1>2. \A h \in DOMAIN m : /\ h < g => EndOf(m, h) <= g
                          /\ g < h => EndOf(m, g) <= h
  BY DEF WellFormed, TilesArena
<1>3. Hdr <= g + Hdr /\ (g + Hdr) + i <= Top
  BY <1>1, ReserveAssumption DEF Top, Hdr
<1>4. ASSUME NEW h \in DOMAIN m, NEW n \in Nat, h # g, n <= m[h].length
      PROVE  Ranges!Apart(g + Hdr, i, h + Hdr, n)
  <2>1. h < g \/ g < h
    BY <1>1, <1>4
  <2> QED BY <1>1, <1>2, <1>4, <2>1 DEF Ranges!Apart, Hdr
<1> QED BY <1>3, <1>4

LEMMA InitRanges == Init => Ranges!Init
  BY DEF Init, Ranges!Init

\* malloc's last step grants a range that no client holds.
LEMMA FoundGrants == IInv /\ Found => Ranges!Next
<1> SUFFICES ASSUME IInv, Found PROVE Ranges!Next
  OBVIOUS
<1> DEFINE new == cur + Hdr
<1>1. /\ cur \in DOMAIN mem /\ cur \notin Used(mem) /\ WellFormed(mem')
      /\ Used(mem') = Used(mem) \cup {cur} /\ size <= mem'[cur].length
      /\ \A h \in Used(mem) : mem'[h].length = mem[h].length
  BY FoundFacts
<1>2. /\ \A h \in Nat : h + Hdr \in DOMAIN live <=> h \in Used(mem)
      /\ \A p \in DOMAIN live : /\ p - Hdr \in Used(mem) /\ (p - Hdr) + Hdr = p
                                /\ live[p] \in Nat /\ live[p] <= mem[p - Hdr].length
  BY IInvFacts
<1>3. cur \in Nat /\ size \in Nat
  BY DEF IInv, TypeOK
<1>4. new \notin DOMAIN live
  BY <1>1, <1>2, <1>3
<1>5. Used(mem') \subseteq DOMAIN mem'
  BY DEF Used
<1>6. cur \in DOMAIN mem'
  BY <1>1, <1>5
<1>7. /\ Hdr <= new /\ new + size <= Top
      /\ \A h \in DOMAIN mem', n \in Nat :
           h # cur /\ n <= mem'[h].length => Ranges!Apart(new, size, h + Hdr, n)
  BY <1>1, <1>3, <1>6, BlocksApart
<1>8. ASSUME NEW p \in DOMAIN live PROVE Ranges!Apart(new, size, p, live[p])
  <2> DEFINE h == p - Hdr
  <2>1. h \in Used(mem) /\ h + Hdr = p /\ live[p] \in Nat /\ live[p] <= mem'[h].length
    BY <1>1, <1>2
  <2>2. h \in DOMAIN mem' /\ h # cur
    BY <1>1, <1>5, <2>1
  <2> HIDE DEF h
  <2>3. Ranges!Apart(new, size, h + Hdr, live[p])
    BY <1>7, <2>1, <2>2
  <2> QED BY <2>1, <2>3
<1>9. live' = [p \in DOMAIN live \cup {new} |-> IF p = new THEN size ELSE live[p]]
  BY DEF Found
<1>10. new \in DOMAIN live' /\ live'[new] = size
  BY <1>9
<1>11. Ranges!Grant(new, live'[new])
  BY <1>4, <1>7, <1>8, <1>9, <1>10 DEF Ranges!Grant, Ranges!FitsBeside
<1> QED BY <1>10, <1>11 DEF Ranges!Next

\* realloc in place resizes a range without running into another.
LEMMA ReallocResizes ==
  ASSUME IInv, NEW p \in DOMAIN live, NEW n \in Nat, Realloc(p, n)
  PROVE  [Ranges!Next]_live
<1>1. CASE ~KeepsBlock(p, n)
  BY <1>1 DEF Realloc, StartSearch
<1>2. CASE KeepsBlock(p, n)
  <2> DEFINE g == p - Hdr
  <2>1. /\ DOMAIN mem # {} => WellFormed(mem)
        /\ \A q \in DOMAIN live : /\ q - Hdr \in Used(mem) /\ (q - Hdr) + Hdr = q
                                  /\ live[q] \in Nat /\ live[q] <= mem[q - Hdr].length
    BY IInvFacts
  <2>2. Used(mem) \subseteq DOMAIN mem
    BY DEF Used
  <2>3. g \in DOMAIN mem /\ g + Hdr = p /\ WellFormed(mem)
    BY <2>1, <2>2
  <2>4. n <= mem[g].length
    BY <1>2, <2>3 DEF KeepsBlock, WellFormed, Entry
  <2>5. /\ Hdr <= p /\ p + n <= Top
        /\ \A h \in DOMAIN mem, i \in Nat :
             h # g /\ i <= mem[h].length => Ranges!Apart(p, n, h + Hdr, i)
    <3> HIDE DEF g
    <3>1. /\ Hdr <= g + Hdr /\ (g + Hdr) + n <= Top
          /\ \A h \in DOMAIN mem, i \in Nat :
               h # g /\ i <= mem[h].length => Ranges!Apart(g + Hdr, n, h + Hdr, i)
      BY <2>3, <2>4, BlocksApart
    <3> QED BY <2>3, <3>1
  <2>6. ASSUME NEW q \in DOMAIN live \ {p} PROVE Ranges!Apart(p, n, q, live[q])
    <3> DEFINE h == q - Hdr
    <3>1. /\ h \in DOMAIN mem /\ h + Hdr = q
          /\ live[q] \in Nat /\ live[q] <= mem[h].length
      BY <2>1, <2>2
    <3>2. h # g
      BY <2>3, <3>1
    <3> HIDE DEF h, g
    <3>3. Ranges!Apart(p, n, h + Hdr, live[q])
      BY <2>5, <3>1, <3>2
    <3> QED BY <3>1, <3>3
  <2>7. live' = [live EXCEPT ![p] = n]
    BY <1>2 DEF Realloc
  <2>8. DOMAIN live' = DOMAIN live /\ live'[p] = n
    BY <2>7
  <2>9. Ranges!Resize(p, live'[p])
    BY <2>5, <2>6, <2>7, <2>8 DEF Ranges!Resize, Ranges!FitsBeside
  <2> QED BY <2>8, <2>9 DEF Ranges!Next
<1> QED BY <1>1, <1>2

LEMMA ReleaseReturns ==
  ASSUME IInv, NEW p \in DOMAIN live, Release(p)
  PROVE  Ranges!Next
<1>1. live' = [q \in DOMAIN live \ {p} |-> live[q]]
  BY ReleaseFacts
<1> QED BY <1>1 DEF Ranges!Next, Ranges!Return

LEMMA NextRanges == IInv /\ [Next]_vars => [Ranges!Next]_live
<1> SUFFICES ASSUME IInv, [Next]_vars PROVE [Ranges!Next]_live
  OBVIOUS
<1>1. CASE \E n \in Sizes : Malloc(n)
  BY <1>1 DEF Malloc, StartSearch
<1>2. CASE \E p \in DOMAIN live, n \in Sizes : Realloc(p, n)
  BY <1>2, ReallocResizes, SizesAssumption
<1>3. CASE SearchOn
  BY <1>3 DEF SearchOn
<1>4. CASE Found
  BY <1>4, FoundGrants DEF Found
<1>5. CASE \E p \in DOMAIN live : Free(p)
  BY <1>5, ReleaseReturns DEF Free
<1>6. CASE FreeOld
  <2>1. old \in DOMAIN live
    BY <1>6 DEF FreeOld, IInv, CopyFits
  <2> QED BY <1>6, <2>1, ReleaseReturns DEF FreeOld
<1>7. CASE UNCHANGED vars
  BY <1>7 DEF vars
<1> QED BY <1>1, <1>2, <1>3, <1>4, <1>5, <1>6, <1>7 DEF Next

\* malloc, realloc and free implement an allocator of ranges: whatever a client
\* holds is inside the arena and apart from all that is held.
THEOREM HeapImplementsRanges == Spec => ImplementsRanges
<1>1. Init => Ranges!Init
  BY InitRanges
<1>2. IInv /\ [Next]_vars => [Ranges!Next]_live
  BY NextRanges
<1> QED BY <1>1, <1>2, HeapInvariant, PTL DEF Spec, ImplementsRanges, Ranges!Spec
=============================================================================
