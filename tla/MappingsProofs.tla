--------------------------- MODULE MappingsProofs ---------------------------
(***************************************************************************)
(* What the list of free pages, freepage.cpp, keeps for every memory map   *)
(* that satisfies the assumptions of FreePages; and what mapping objects   *)
(* and the list of free address space, map.cpp and asa.cpp, owe the kernel *)
(* for any arena, any set of objects and requests and any fanout of the    *)
(* page tables.                                                            *)
(*                                                                         *)
(* Of pages, no one is handed out twice and only usable memory is.  The    *)
(* strengthening is that a range on the list or handed out lies in a piece *)
(* of memory that boot has registered already: the pieces are apart, so    *)
(* the region of the next entry is apart from all there is.                *)
(*                                                                         *)
(* Of mappings, address space in use is apart, each object's translations  *)
(* are its own and none is left behind.  The strengthening is that starts  *)
(* are aligned to pages, although the sizes that destructors give back are *)
(* not; that live objects are apart by whole pages, so that no entry of    *)
(* the page tables is shared; and that an object has as many pages as it   *)
(* maps.  When asa_alloc finds no range it returns 0 and the constructor    *)
(* maps its pages there: from then on only typing, pages and the absence   *)
(* of stale translations are claimed.                                      *)
(***************************************************************************)
EXTENDS Mappings, TLAPS, SequenceTheorems

-----------------------------------------------------------------------------
(* The list of free pages.                                                 *)

Regions == Seq([address : Nat, pagecount : Nat \ {0}])

TypesOfPages ==
  /\ regions \in Regions
  /\ handed \in Seq([start : Nat, bytes : Nat])
  /\ boot \in 0 .. Len(MemoryMap) + 1

InRegistered(a, n) == \E k \in 0 .. boot - 1 : InPiece(k, a, n)

AllRegistered ==
  /\ \A i \in DOMAIN regions :
       InRegistered(regions[i].address, RegionBytes(regions[i]))
  /\ \A i \in DOMAIN handed : InRegistered(handed[i].start, handed[i].bytes)

RegionsApart ==
  \A i, j \in DOMAIN regions : i # j =>
    DisjointRanges(regions[i].address, RegionBytes(regions[i]),
                   regions[j].address, RegionBytes(regions[j]))

PagesInv == TypesOfPages /\ AllRegistered /\ RegionsApart /\ NoPageTwice

-----------------------------------------------------------------------------
(* Machine words.                                                          *)

LEMMA WrapSmall ==
  ASSUME NEW n \in Nat, n < Word
  PROVE  Wrap(n) = n
  BY WordAssumption DEF Wrap

LEMMA RoundUpBounds ==
  ASSUME NEW n \in Nat
  PROVE  /\ RoundUpToPage(n) \in Nat
         /\ n <= RoundUpToPage(n)
         /\ RoundUpToPage(n) <= n + Page - 1
         /\ n % Page # 0 => RoundUpToPage(n) = n + Page - (n % Page)
         /\ n % Page = 0 => RoundUpToPage(n) = n
  BY DEF RoundUpToPage, Page

\* freepage_add_region adds a part of the region it is given, not empty.
LEMMA AddedRegion ==
  ASSUME NEW start \in Nat, NEW length \in Nat,
         TwoPages(length), start + length < Word
  PROVE  LET r == [address   |-> Wrap(RoundUpToPage(start)),
                   pagecount |-> Trimmed(start, length) \div Page]
         IN  /\ r \in [address : Nat, pagecount : Nat \ {0}]
             /\ start <= r.address
             /\ r.address + RegionBytes(r) <= start + length
<1> DEFINE left == length - (Page - (start % Page))
           count == Trimmed(start, length) \div Page
<1>1. /\ left \in Nat /\ left < Word /\ Page <= left
  BY WordAssumption DEF TwoPages, Page
<1>2. Trimmed(start, length) = left
  BY <1>1, WrapSmall DEF Trimmed
<1>3. count \in Nat \ {0} /\ Page * count <= left
  BY <1>1, <1>2 DEF Page
<1>4. RoundUpToPage(start) \in Nat /\ RoundUpToPage(start) < Word
  BY RoundUpBounds, WordAssumption DEF TwoPages, Page
<1>5. Wrap(RoundUpToPage(start)) = RoundUpToPage(start)
  BY <1>4, WrapSmall
<1>6. start <= RoundUpToPage(start) /\ RoundUpToPage(start) + left <= start + length
  BY RoundUpBounds DEF Page
<1>. HIDE DEF left, count
<1>. QED
  BY <1>1, <1>3, <1>4, <1>5, <1>6 DEF RegionBytes, Page, count

-----------------------------------------------------------------------------
(* Pieces of memory.                                                       *)

LEMMA EntryOfSeq ==
  ASSUME NEW S, NEW s \in Seq(S), NEW k \in 1 .. Len(s)
  PROVE  k \in DOMAIN s /\ s[k] \in S
  OBVIOUS

LEMMA ElementOfDomain ==
  ASSUME NEW S, NEW s \in Seq(S), NEW i \in DOMAIN s
  PROVE  s[i] \in S
  OBVIOUS

LEMMA MapEntry ==
  ASSUME NEW k \in 1 .. Len(MemoryMap)
  PROVE  /\ k \in DOMAIN MemoryMap
         /\ MemoryMap[k].base \in Nat /\ MemoryMap[k].length \in Nat
         /\ MemoryMap[k].base + MemoryMap[k].length < Word
<1>1. MemoryMap \in Seq([base : Nat, length : Nat])
  BY MemoryMapAssumption, Zenon
<1>2. k \in DOMAIN MemoryMap /\ MemoryMap[k] \in [base : Nat, length : Nat]
  BY <1>1, EntryOfSeq
<1>3. MemoryMap[k].base + MemoryMap[k].length < Word
  BY <1>2, MemoryMapAssumption, Zenon
<1>. QED
  BY <1>2, <1>3

LEMMA PiecesApart ==
  ASSUME NEW j \in 0 .. Len(MemoryMap), NEW k \in 0 .. Len(MemoryMap), j # k,
         NEW a \in Nat, NEW m \in Nat, NEW b \in Nat, NEW n \in Nat,
         InPiece(j, a, m), InPiece(k, b, n)
  PROVE  DisjointRanges(a, m, b, n)
<1>1. CASE j = 0
  BY <1>1, FirstRegionAssumption, WordAssumption DEF InPiece, DisjointRanges
<1>2. CASE k = 0
  BY <1>2, FirstRegionAssumption, WordAssumption DEF InPiece, DisjointRanges
<1>3. CASE j # 0 /\ k # 0
  <2>1. j \in 1 .. Len(MemoryMap) /\ k \in 1 .. Len(MemoryMap)
    BY <1>3
  <2>2. DisjointRanges(MemoryMap[j].base, MemoryMap[j].length,
                       MemoryMap[k].base, MemoryMap[k].length)
    BY <2>1, MapEntry, MemoryMapAssumption, Zenon
  <2>3. /\ MemoryMap[j].base <= a /\ a + m <= MemoryMap[j].base + MemoryMap[j].length
        /\ MemoryMap[k].base <= b /\ b + n <= MemoryMap[k].base + MemoryMap[k].length
    BY <1>3, Zenon DEF InPiece
  <2>. DEFINE A == MemoryMap[j].base
              M == MemoryMap[j].length
              B == MemoryMap[k].base
              N == MemoryMap[k].length
  <2>4. A \in Nat /\ M \in Nat /\ B \in Nat /\ N \in Nat
    BY <2>1, MapEntry, Zenon
  <2>. HIDE DEF A, M, B, N
  <2>5. /\ A <= a /\ a + m <= A + M /\ B <= b /\ b + n <= B + N
        /\ A + M <= B \/ B + N <= A
    BY <2>2, <2>3, Zenon DEF DisjointRanges, A, M, B, N
  <2>. QED
    BY <2>4, <2>5 DEF DisjointRanges
<1>. QED
  BY <1>1, <1>2, <1>3

\* A part of a range lies in the range's piece, and is apart from what the
\* range is apart from.
LEMMA PartOfPiece ==
  ASSUME NEW a \in Nat, NEW m \in Nat, NEW b \in Nat, NEW n \in Nat,
         a <= b, b + n <= a + m, boot \in 0 .. Len(MemoryMap) + 1
  PROVE  InRegistered(a, m) => InRegistered(b, n)
<1>. SUFFICES ASSUME NEW k \in 0 .. boot - 1, InPiece(k, a, m)
              PROVE  InPiece(k, b, n)
  BY DEF InRegistered
<1>1. CASE k = 0
  BY <1>1, FirstRegionAssumption DEF InPiece
<1>2. CASE k # 0
  BY <1>2, MapEntry, WordAssumption DEF InPiece
<1>. QED
  BY <1>1, <1>2

\* What mb1_init registers of an entry lies in that entry's piece.
LEMMA RegisteredPart ==
  ASSUME NEW k \in 1 .. Len(MemoryMap), ~IsSkipped(MemoryMap[k])
  PROVE  LET e == MemoryMap[k]
             start == AlignedStart(e) + ToSkip(e)
             length == AlignedLength(e) - ToSkip(e)
         IN  /\ start \in Nat /\ length \in Nat /\ TwoPages(length)
             /\ start + length < Word
             /\ LowMemory <= start /\ e.base <= start
             /\ start + length <= e.base + e.length
<1> DEFINE e == MemoryMap[k]
           left == e.length - (AlignedStart(e) - e.base)
<1>1. k \in DOMAIN MemoryMap /\ e.base \in Nat /\ e.length \in Nat /\ e.base + e.length < Word
  BY MapEntry
<1>2. /\ AlignedStart(e) - e.base <= e.length
      /\ TwoPages(AlignedLength(e) - ToSkip(e))
  BY <1>1, MemoryMapAssumption, Zenon
<1>3. AlignedStart(e) \in Nat /\ e.base <= AlignedStart(e)
  BY <1>1, RoundUpBounds DEF AlignedStart
<1>4. left \in Nat /\ left < Word
  BY <1>1, <1>2, <1>3, WordAssumption
<1>5. AlignedLength(e) = left - (left % Page)
  BY <1>4, WrapSmall DEF AlignedLength
<1>6. AlignedLength(e) \in Nat /\ AlignedLength(e) <= left
  BY <1>4, <1>5 DEF Page
<1>7. ToSkip(e) \in Nat /\ LowMemory <= AlignedStart(e) + ToSkip(e)
  BY <1>3, WordAssumption DEF ToSkip
<1>8. ToSkip(e) <= AlignedLength(e)
  BY <1>6, <1>7 DEF IsSkipped
<1>9. AlignedStart(e) + AlignedLength(e) <= e.base + e.length
  BY <1>1, <1>3, <1>6
<1>. HIDE DEF e, left
<1>. DEFINE S == AlignedStart(e)
            L == AlignedLength(e)
            T == ToSkip(e)
            B == e.base
            N == e.length
<1>10. /\ B \in Nat /\ N \in Nat /\ B + N < Word
       /\ S \in Nat /\ L \in Nat /\ T \in Nat
       /\ B <= S /\ S + L <= B + N /\ T <= L
  BY <1>1, <1>3, <1>6, <1>7, <1>8, <1>9, Zenon
<1>. HIDE DEF S, L, T, B, N
<1>11. /\ S + T \in Nat /\ L - T \in Nat
       /\ B <= S + T /\ S + T + (L - T) <= B + N /\ S + T + (L - T) < Word
  BY <1>10, WordAssumption
<1>. QED
  BY <1>2, <1>7, <1>11, Zenon DEF e, S, L, T, B, N

-----------------------------------------------------------------------------
(* Ranges and sequences.                                                   *)

LEMMA DisjointParts ==
  ASSUME NEW a \in Nat, NEW m \in Nat, NEW b \in Nat, NEW n \in Nat,
         NEW c \in Nat, NEW k \in Nat, NEW d \in Nat, NEW l \in Nat,
         DisjointRanges(a, m, b, n),
         a <= c, c + k <= a + m, b <= d, d + l <= b + n
  PROVE  DisjointRanges(c, k, d, l) /\ DisjointRanges(d, l, c, k)
  BY DEF DisjointRanges

LEMMA RegionTypes ==
  ASSUME NEW free \in Regions, NEW i \in DOMAIN free
  PROVE  /\ free[i].address \in Nat
         /\ free[i].pagecount \in Nat \ {0}
         /\ RegionBytes(free[i]) \in Nat
         /\ RegionBytes(free[i]) = Page * free[i].pagecount
<1>1. free[i] \in [address : Nat, pagecount : Nat \ {0}]
  BY ElementOfDomain, Zenon DEF Regions
<1>. QED
  BY <1>1 DEF RegionBytes, Page

LEMMA HandedTypes ==
  ASSUME TypesOfPages, NEW i \in DOMAIN handed
  PROVE  handed[i].start \in Nat /\ handed[i].bytes \in Nat
<1>1. handed[i] \in [start : Nat, bytes : Nat]
  BY ElementOfDomain, Zenon DEF TypesOfPages
<1>. QED
  BY <1>1

LEMMA Prepended ==
  ASSUME NEW S, NEW s \in Seq(S), NEW x \in S
  PROVE  /\ <<x>> \o s \in Seq(S)
         /\ \A i \in DOMAIN (<<x>> \o s) :
              \/ i = 1 /\ (<<x>> \o s)[i] = x
              \/ i # 1 /\ i - 1 \in DOMAIN s /\ (<<x>> \o s)[i] = s[i - 1]
  OBVIOUS

LEMMA Appended ==
  ASSUME NEW S, NEW s \in Seq(S), NEW x \in S
  PROVE  /\ Append(s, x) \in Seq(S)
         /\ \A i \in DOMAIN Append(s, x) :
              \/ i = Len(s) + 1 /\ Append(s, x)[i] = x
              \/ i # Len(s) + 1 /\ i \in DOMAIN s /\ Append(s, x)[i] = s[i]
  OBVIOUS

-----------------------------------------------------------------------------
(* Boot registers the next piece.                                          *)

\* A registered range is apart from the piece that comes next.
LEMMA NextPieceApart ==
  ASSUME boot \in 0 .. Len(MemoryMap),
         NEW a \in Nat, NEW m \in Nat, NEW b \in Nat, NEW n \in Nat,
         InRegistered(a, m), InPiece(boot, b, n)
  PROVE  DisjointRanges(a, m, b, n) /\ DisjointRanges(b, n, a, m)
<1>1. PICK k \in 0 .. boot - 1 : InPiece(k, a, m)
  BY DEF InRegistered
<1>2. k \in 0 .. Len(MemoryMap) /\ k # boot
  OBVIOUS
<1>. QED
  BY <1>1, <1>2, PiecesApart

LEMMA RegisterKeeps ==
  ASSUME PagesInv, boot \in 0 .. Len(MemoryMap),
         NEW r \in [address : Nat, pagecount : Nat \ {0}],
         InPiece(boot, r.address, RegionBytes(r)),
         regions' = <<r>> \o regions, boot' = boot + 1, handed' = handed
  PROVE  PagesInv'
<1>0. /\ regions \in Regions /\ TypesOfPages
      /\ r.address \in Nat /\ RegionBytes(r) \in Nat
  BY DEF PagesInv, TypesOfPages, RegionBytes, Page
<1>1. /\ regions' \in Regions
      /\ \A i \in DOMAIN regions' :
           \/ i = 1 /\ regions'[i] = r
           \/ i # 1 /\ i - 1 \in DOMAIN regions /\ regions'[i] = regions[i - 1]
  BY <1>0, Prepended DEF Regions
<1>2. TypesOfPages'
  BY <1>1 DEF PagesInv, TypesOfPages
<1>3. ASSUME NEW a, NEW n, InRegistered(a, n)
      PROVE  \E k \in 0 .. boot' - 1 : InPiece(k, a, n)
  <2>1. PICK k \in 0 .. boot - 1 : InPiece(k, a, n)
    BY <1>3 DEF InRegistered
  <2>2. k \in 0 .. boot' - 1
    OBVIOUS
  <2>. QED
    BY <2>1, <2>2, Zenon
<1>4. AllRegistered'
  <2>1. ASSUME NEW i \in DOMAIN regions'
        PROVE  \E k \in 0 .. boot' - 1 :
                 InPiece(k, regions'[i].address, RegionBytes(regions'[i]))
    <3>1. CASE regions'[i] = r
      <4>1. boot \in 0 .. boot' - 1
        OBVIOUS
      <4>. QED
        BY <3>1, <4>1, Zenon
    <3>2. CASE i - 1 \in DOMAIN regions /\ regions'[i] = regions[i - 1]
      <4>1. InRegistered(regions[i - 1].address, RegionBytes(regions[i - 1]))
        BY <3>2, Zenon DEF PagesInv, AllRegistered
      <4>. QED
        BY <3>2, <4>1, <1>3, Zenon
    <3>. QED
      BY <1>1, <3>1, <3>2, Zenon
  <2>2. \A i \in DOMAIN handed :
          \E k \in 0 .. boot' - 1 : InPiece(k, handed[i].start, handed[i].bytes)
    BY <1>3, Zenon DEF PagesInv, AllRegistered
  <2>. QED
    BY <2>1, <2>2, Zenon DEF AllRegistered, InRegistered, InPiece, RegionBytes
<1>5. \A i \in DOMAIN regions :
        /\ DisjointRanges(regions[i].address, RegionBytes(regions[i]), r.address, RegionBytes(r))
        /\ DisjointRanges(r.address, RegionBytes(r), regions[i].address, RegionBytes(regions[i]))
  BY <1>0, NextPieceApart, RegionTypes DEF PagesInv, AllRegistered
<1>6. \A j \in DOMAIN handed :
        DisjointRanges(r.address, RegionBytes(r), handed[j].start, handed[j].bytes)
  BY <1>0, NextPieceApart, HandedTypes DEF PagesInv, AllRegistered
<1>7. RegionsApart'
  <2>. SUFFICES ASSUME NEW i \in DOMAIN regions', NEW j \in DOMAIN regions', i # j
                PROVE  DisjointRanges(regions'[i].address, RegionBytes(regions'[i]),
                                      regions'[j].address, RegionBytes(regions'[j]))
    BY DEF RegionsApart, RegionBytes, DisjointRanges
  <2>0. i \in Int /\ j \in Int
    BY <1>1 DEF Regions
  <2>1. CASE i = 1
    BY <1>1, <1>5, <2>1
  <2>2. CASE j = 1
    BY <1>1, <1>5, <2>2
  <2>3. CASE i # 1 /\ j # 1
    <3>1. /\ i - 1 \in DOMAIN regions /\ j - 1 \in DOMAIN regions /\ i - 1 # j - 1
          /\ regions'[i] = regions[i - 1] /\ regions'[j] = regions[j - 1]
      BY <1>1, <2>0, <2>3
    <3>. QED
      BY <3>1 DEF PagesInv, RegionsApart
  <2>. QED
    BY <2>1, <2>2, <2>3
<1>8. NoPageTwice'
  <2>1. \A i \in DOMAIN regions', j \in DOMAIN handed :
          DisjointRanges(regions'[i].address, RegionBytes(regions'[i]),
                         handed[j].start, handed[j].bytes)
    BY <1>1, <1>6 DEF PagesInv, NoPageTwice
  <2>. QED
    BY <2>1 DEF PagesInv, NoPageTwice, RegionBytes, DisjointRanges
<1>. QED
  BY <1>2, <1>4, <1>7, <1>8 DEF PagesInv

LEMMA RegisterFirstKeeps ==
  PagesInv /\ RegisterFirst => PagesInv'
<1>. SUFFICES ASSUME PagesInv, RegisterFirst
              PROVE  PagesInv'
  OBVIOUS
<1> DEFINE r == [address   |-> Wrap(RoundUpToPage(FirstStart)),
                 pagecount |-> Trimmed(FirstStart, FirstLength) \div Page]
<1>1. /\ r \in [address : Nat, pagecount : Nat \ {0}]
      /\ FirstStart <= r.address
      /\ r.address + RegionBytes(r) <= FirstStart + FirstLength
  <2>1. FirstStart + FirstLength < Word
    BY FirstRegionAssumption, WordAssumption
  <2>. QED
    BY <2>1, FirstRegionAssumption, AddedRegion, Zenon
<1>2. boot = 0 /\ boot' = boot + 1 /\ handed' = handed /\ regions' = <<r>> \o regions
  BY DEF RegisterFirst, AddRegion
<1>. HIDE DEF r
<1>3. InPiece(boot, r.address, RegionBytes(r))
  BY <1>1, <1>2, Zenon DEF InPiece
<1>4. boot \in 0 .. Len(MemoryMap)
  BY <1>2, MemoryMapAssumption
<1>. QED
  BY <1>1, <1>2, <1>3, <1>4, RegisterKeeps, Zenon

\* A skipped entry leaves its piece out, a registered one adds a part of it.
LEMMA RegisterNextKeeps ==
  PagesInv /\ RegisterNext => PagesInv'
<1>. SUFFICES ASSUME PagesInv, RegisterNext
              PROVE  PagesInv'
  OBVIOUS
<1> DEFINE e == MemoryMap[boot]
           start == AlignedStart(e) + ToSkip(e)
           length == AlignedLength(e) - ToSkip(e)
           r == [address   |-> Wrap(RoundUpToPage(start)),
                 pagecount |-> Trimmed(start, length) \div Page]
<1>0. boot \in 1 .. Len(MemoryMap) /\ boot' = boot + 1 /\ handed' = handed
  BY DEF RegisterNext
<1>1. CASE IsSkipped(e)
  <2>1. regions' = regions
    BY <1>1 DEF RegisterNext, RegisterEntry
  <2>2. TypesOfPages'
    BY <1>0, <2>1 DEF PagesInv, TypesOfPages
  <2>3. ASSUME NEW a, NEW n, InRegistered(a, n)
        PROVE  \E k \in 0 .. boot' - 1 : InPiece(k, a, n)
    <3>1. PICK k \in 0 .. boot - 1 : InPiece(k, a, n)
      BY <2>3 DEF InRegistered
    <3>2. k \in 0 .. boot' - 1
      BY <1>0
    <3>. QED
      BY <3>1, <3>2, Zenon
  <2>4. AllRegistered'
    BY <1>0, <2>1, <2>3, Zenon
    DEF PagesInv, AllRegistered, InRegistered, InPiece, RegionBytes
  <2>5. RegionsApart' /\ NoPageTwice'
    BY <1>0, <2>1 DEF PagesInv, RegionsApart, NoPageTwice, RegionBytes, DisjointRanges
  <2>. QED
    BY <2>2, <2>4, <2>5 DEF PagesInv
<1>2. CASE ~IsSkipped(e)
  <2>1. regions' = <<r>> \o regions
    BY <1>2 DEF RegisterNext, RegisterEntry, AddRegion
  <2>2. /\ start \in Nat /\ length \in Nat /\ TwoPages(length) /\ start + length < Word
        /\ LowMemory <= start /\ e.base <= start
        /\ start + length <= e.base + e.length
    BY <1>0, <1>2, RegisteredPart, Zenon
  <2>. HIDE DEF start, length
  <2>3. /\ r \in [address : Nat, pagecount : Nat \ {0}]
        /\ start <= r.address
        /\ r.address + RegionBytes(r) <= start + length
    BY <2>2, AddedRegion, Zenon
  <2>4. e.base \in Nat /\ e.length \in Nat
    BY <1>0, MapEntry, Zenon
  <2>. HIDE DEF r, e
  <2>5. r.address \in Nat /\ RegionBytes(r) \in Nat
    BY <2>3 DEF RegionBytes, Page
  <2>6. /\ LowMemory <= r.address /\ e.base <= r.address
        /\ r.address + RegionBytes(r) <= e.base + e.length
    BY <2>2, <2>3, <2>4, <2>5, WordAssumption
  <2>7. boot # 0 /\ boot \in 0 .. Len(MemoryMap)
    BY <1>0
  <2>8. InPiece(boot, r.address, RegionBytes(r))
    BY <2>6, <2>7, Zenon DEF InPiece, e
  <2>. QED
    BY <1>0, <2>1, <2>3, <2>7, <2>8, RegisterKeeps, Zenon
<1>. QED
  BY <1>1, <1>2

-----------------------------------------------------------------------------
(* The two allocation functions take the end of a region.                  *)

\* The i-th region keeps its first c pages, the others stay.  When it is the
\* first and nothing is left the list moves up, by d = 1.
Leaves(i, c, d) ==
  \A j \in DOMAIN regions' :
    /\ j + d \in DOMAIN regions
    /\ regions'[j].address = regions[j + d].address
    /\ regions'[j].pagecount <= regions[j + d].pagecount
    /\ j + d = i => regions'[j].pagecount = c

\* The range t is the rest of the i-th region.
LEMMA TakeKeeps ==
  ASSUME PagesInv, boot' = boot,
         NEW t \in [start : Nat, bytes : Nat], handed' = Append(handed, t),
         NEW i \in DOMAIN regions, NEW c \in Nat, c <= regions[i].pagecount,
         t.start = regions[i].address + Page * c,
         t.bytes = Page * (regions[i].pagecount - c),
         regions' \in Regions, NEW d \in {0, 1}, Leaves(i, c, d)
  PROVE  PagesInv'
<1>0. regions \in Regions /\ TypesOfPages /\ handed \in Seq([start : Nat, bytes : Nat])
  BY DEF PagesInv, TypesOfPages
<1>1. /\ handed' \in Seq([start : Nat, bytes : Nat])
      /\ \A k \in DOMAIN handed' :
           \/ k = Len(handed) + 1 /\ handed'[k] = t
           \/ k # Len(handed) + 1 /\ k \in DOMAIN handed /\ handed'[k] = handed[k]
  <2>. DEFINE S == [start : Nat, bytes : Nat]
  <2>1. t \in S /\ handed \in Seq(S)
    BY <1>0
  <2>. HIDE DEF S
  <2>2. /\ Append(handed, t) \in Seq(S)
        /\ \A k \in DOMAIN Append(handed, t) :
             \/ k = Len(handed) + 1 /\ Append(handed, t)[k] = t
             \/ k # Len(handed) + 1 /\ k \in DOMAIN handed /\ Append(handed, t)[k] = handed[k]
    BY <2>1, Appended
  <2>. QED
    BY <2>2 DEF S
<1>2. TypesOfPages'
  BY <1>0, <1>1 DEF TypesOfPages
<1>3. t.start \in Nat /\ t.bytes \in Nat
  OBVIOUS
<1> DEFINE A(j) == regions[j].address
           B(j) == RegionBytes(regions[j])
           P(j) == regions'[j].address
           Q(j) == RegionBytes(regions'[j])
<1>4. \A j \in DOMAIN regions : A(j) \in Nat /\ B(j) \in Nat
  BY <1>0, RegionTypes, Zenon
<1>5. A(i) <= t.start /\ t.start + t.bytes <= A(i) + B(i)
  <2>. DEFINE n == regions[i].pagecount
              a == A(i)
              m == B(i)
              start == t.start
              bytes == t.bytes
  <2>1. a \in Nat /\ m = Page * n /\ n \in Nat /\ c <= n
    BY <1>0, RegionTypes
  <2>2. start = a + Page * c /\ bytes = Page * (n - c)
    OBVIOUS
  <2>. HIDE DEF n, a, m, start, bytes
  <2>3. a <= start /\ start + bytes <= a + m
    BY <2>1, <2>2 DEF Page
  <2>. QED
    BY <2>3, Zenon DEF a, m, start, bytes
<1>6. \A j \in DOMAIN regions' :
        /\ j + d \in DOMAIN regions
        /\ P(j) \in Nat /\ Q(j) \in Nat
        /\ P(j) = A(j + d) /\ P(j) + Q(j) <= A(j + d) + B(j + d)
        /\ j + d = i => P(j) + Q(j) <= t.start
  <2>. SUFFICES ASSUME NEW j \in DOMAIN regions'
                PROVE  /\ j + d \in DOMAIN regions
                       /\ P(j) \in Nat /\ Q(j) \in Nat
                       /\ P(j) = A(j + d) /\ P(j) + Q(j) <= A(j + d) + B(j + d)
                       /\ j + d = i => P(j) + Q(j) <= t.start
    BY Zenon
  <2>1. /\ P(j) \in Nat /\ Q(j) \in Nat /\ Q(j) = Page * regions'[j].pagecount
        /\ regions'[j].pagecount \in Nat
    BY RegionTypes
  <2>2. /\ A(j + d) \in Nat /\ B(j + d) = Page * regions[j + d].pagecount
        /\ regions[j + d].pagecount \in Nat /\ B(j + d) \in Nat
    <3>1. j + d \in DOMAIN regions
      BY Zenon DEF Leaves
    <3>. QED
      BY <1>0, <3>1, RegionTypes
  <2>3. /\ j + d \in DOMAIN regions
        /\ regions'[j].address = regions[j + d].address
        /\ regions'[j].pagecount <= regions[j + d].pagecount
        /\ j + d = i => regions'[j].pagecount = c
    BY Zenon DEF Leaves
  <2>4. /\ P(j) = A(j + d)
        /\ j + d = i => Q(j) = Page * c /\ t.start = P(j) + Page * c
    BY <2>1, <2>3, Zenon
  <2>. HIDE DEF A, B, P, Q
  <2>5. Q(j) <= B(j + d)
    BY <2>1, <2>2, <2>3 DEF Page
  <2>6. j + d = i => P(j) + Q(j) <= t.start
    BY <1>3, <2>1, <2>4 DEF Page
  <2>7. P(j) + Q(j) <= A(j + d) + B(j + d)
    BY <2>1, <2>2, <2>4, <2>5
  <2>. QED
    BY <2>1, <2>3, <2>4, <2>6, <2>7, Zenon
<1>. HIDE DEF A, B, P, Q
<1>7. AllRegistered'
  <2>1. \A j \in DOMAIN regions : InRegistered(A(j), B(j))
    BY Zenon DEF PagesInv, AllRegistered, A, B
  <2>2. \A j \in DOMAIN regions' : InRegistered(P(j), Q(j))
    BY <1>2, <1>4, <1>6, <2>1, PartOfPiece DEF TypesOfPages
  <2>3. InRegistered(t.start, t.bytes)
    BY <1>2, <1>3, <1>4, <1>5, <2>1, PartOfPiece DEF TypesOfPages
  <2>4. \A j \in DOMAIN handed' : InRegistered(handed'[j].start, handed'[j].bytes)
    BY <1>1, <2>3, Zenon DEF PagesInv, AllRegistered
  <2>. QED
    BY <2>2, <2>4, Zenon DEF AllRegistered, InRegistered, InPiece, RegionBytes, P, Q
<1>8. \A j, k \in DOMAIN regions : j # k => DisjointRanges(A(j), B(j), A(k), B(k))
  BY Zenon DEF PagesInv, RegionsApart, A, B
<1>9. RegionsApart'
  <2>. SUFFICES ASSUME NEW j \in DOMAIN regions', NEW k \in DOMAIN regions', j # k
                PROVE  DisjointRanges(P(j), Q(j), P(k), Q(k))
    BY Zenon DEF RegionsApart, RegionBytes, DisjointRanges, P, Q
  <2>1. j + d # k + d
    BY DEF Regions
  <2>2. DisjointRanges(A(j + d), B(j + d), A(k + d), B(k + d))
    BY <1>6, <1>8, <2>1, Zenon
  <2>. QED
    BY <1>4, <1>6, <2>2 DEF DisjointRanges
<1>10. \A k \in DOMAIN handed :
         /\ handed[k].start \in Nat /\ handed[k].bytes \in Nat
         /\ \A j \in DOMAIN regions :
              DisjointRanges(A(j), B(j), handed[k].start, handed[k].bytes)
  BY <1>0, HandedTypes, Zenon DEF PagesInv, NoPageTwice, A, B
<1>11. \A k \in DOMAIN handed :
         /\ DisjointRanges(t.start, t.bytes, handed[k].start, handed[k].bytes)
         /\ DisjointRanges(handed[k].start, handed[k].bytes, t.start, t.bytes)
  BY <1>3, <1>4, <1>5, <1>10 DEF DisjointRanges
<1>12. \A j \in DOMAIN regions' :
         /\ DisjointRanges(P(j), Q(j), t.start, t.bytes)
         /\ \A k \in DOMAIN handed :
              DisjointRanges(P(j), Q(j), handed[k].start, handed[k].bytes)
  <2>. SUFFICES ASSUME NEW j \in DOMAIN regions'
                PROVE  /\ DisjointRanges(P(j), Q(j), t.start, t.bytes)
                       /\ \A k \in DOMAIN handed :
                            DisjointRanges(P(j), Q(j), handed[k].start, handed[k].bytes)
    BY Zenon
  <2>1. DisjointRanges(P(j), Q(j), t.start, t.bytes)
    <3>1. CASE j + d = i
      BY <1>6, <3>1 DEF DisjointRanges
    <3>2. CASE j + d # i
      <4>1. DisjointRanges(A(j + d), B(j + d), A(i), B(i))
        BY <1>6, <1>8, <3>2, Zenon
      <4>. QED
        BY <1>3, <1>4, <1>5, <1>6, <4>1 DEF DisjointRanges
    <3>. QED
      BY <3>1, <3>2
  <2>2. ASSUME NEW k \in DOMAIN handed
        PROVE  DisjointRanges(P(j), Q(j), handed[k].start, handed[k].bytes)
    <3>1. DisjointRanges(A(j + d), B(j + d), handed[k].start, handed[k].bytes)
      BY <1>6, <1>10, Zenon
    <3>. QED
      BY <1>4, <1>6, <1>10, <3>1 DEF DisjointRanges
  <2>. QED
    BY <2>1, <2>2, Zenon
<1>13. NoPageTwice'
  <2>1. ASSUME NEW j \in DOMAIN handed', NEW k \in DOMAIN handed', j # k
        PROVE  DisjointRanges(handed'[j].start, handed'[j].bytes,
                              handed'[k].start, handed'[k].bytes)
    BY <1>1, <1>11, <2>1, Zenon DEF PagesInv, NoPageTwice
  <2>2. ASSUME NEW j \in DOMAIN regions', NEW k \in DOMAIN handed'
        PROVE  DisjointRanges(P(j), Q(j), handed'[k].start, handed'[k].bytes)
    BY <1>1, <1>12, Zenon
  <2>. QED
    BY <2>1, <2>2, Zenon DEF NoPageTwice, RegionBytes, DisjointRanges, P, Q
<1>. QED
  BY <1>2, <1>7, <1>9, <1>13 DEF PagesInv

\* Regions end below Word, so neither the counts nor the addresses wrap.
LEMMA RegionsEndInWord ==
  ASSUME PagesInv, NEW i \in DOMAIN regions, NEW c \in Nat, c <= regions[i].pagecount
  PROVE  /\ Wrap(c) = c
         /\ Wrap(regions[i].address + Page * c) = regions[i].address + Page * c
<1> DEFINE a == regions[i].address
           m == RegionBytes(regions[i])
<1>1. /\ a \in Nat /\ m \in Nat /\ m = Page * regions[i].pagecount
      /\ regions[i].pagecount \in Nat
  BY RegionTypes DEF PagesInv, TypesOfPages
<1>2. PICK k \in 0 .. boot - 1 : InPiece(k, a, m)
  BY Zenon DEF PagesInv, AllRegistered, InRegistered
<1>3. k \in 0 .. Len(MemoryMap)
  BY DEF PagesInv, TypesOfPages
<1>4. a + m < Word
  <2>1. CASE k = 0
    <3>1. a + m <= FirstStart + FirstLength
      BY <1>2, <2>1, Zenon DEF InPiece
    <3>. QED
      BY <1>1, <3>1, FirstRegionAssumption, WordAssumption
  <2>2. CASE k # 0
    <3>1. a + m <= MemoryMap[k].base + MemoryMap[k].length
      BY <1>2, <2>2, Zenon DEF InPiece
    <3>2. k \in 1 .. Len(MemoryMap)
      BY <1>3, <2>2
    <3>3. /\ MemoryMap[k].base + MemoryMap[k].length < Word
          /\ MemoryMap[k].base \in Nat /\ MemoryMap[k].length \in Nat
      BY <3>2, MapEntry, Zenon
    <3>. HIDE DEF a, m
    <3>. QED
      BY <1>1, <3>1, <3>3, WordAssumption
  <2>. QED
    BY <2>1, <2>2
<1>. HIDE DEF a, m
<1>5. c < Word /\ a + Page * c < Word /\ a + Page * c \in Nat
  BY <1>1, <1>4, WordAssumption DEF Page
<1>. QED
  BY <1>5, WrapSmall DEF a

LEMMA Replaced ==
  ASSUME NEW S, NEW s \in Seq(S), NEW i \in DOMAIN s, NEW x \in S
  PROVE  [s EXCEPT ![i] = x] \in Seq(S)
  OBVIOUS

\* The list after a region was shortened, as TakeKeeps wants it.
LEMMA Shortened ==
  ASSUME TypesOfPages,
         NEW i \in DOMAIN regions, NEW c \in Nat \ {0}, c <= regions[i].pagecount,
         regions' = [regions EXCEPT ![i].pagecount = c]
  PROVE  /\ regions' \in Regions
         /\ Leaves(i, c, 0)
<1>1. regions \in Regions
  BY DEF TypesOfPages
<1> DEFINE S == [address : Nat, pagecount : Nat \ {0}]
           x == [regions[i] EXCEPT !.pagecount = c]
<1>2. \A j \in DOMAIN regions :
        regions[j] \in S /\ regions[j].pagecount \in Nat /\ j \in Nat
  <2>1. \A j \in DOMAIN regions : regions[j] \in S
    BY <1>1, ElementOfDomain, Zenon DEF Regions
  <2>2. \A j \in DOMAIN regions : j \in Nat
    BY <1>1 DEF Regions
  <2>. QED
    BY <2>1, <2>2
<1>3. /\ x \in S
      /\ x.address = regions[i].address /\ x.pagecount = c
  BY <1>2
<1>4. regions \in Seq(S) /\ regions' = [regions EXCEPT ![i] = x]
  BY <1>1 DEF Regions
<1>. HIDE DEF S, x
<1>5. regions' \in Seq(S)
  <2>1. [regions EXCEPT ![i] = x] \in Seq(S)
    BY <1>3, <1>4, Replaced
  <2>. QED
    BY <1>4, <2>1, Zenon
<1>6. /\ DOMAIN regions' = DOMAIN regions
      /\ \A j \in DOMAIN regions : regions'[j] = IF j = i THEN x ELSE regions[j]
  BY <1>4
<1>7. \A j \in DOMAIN regions' :
        /\ regions'[j].address = regions[j].address
        /\ regions'[j].pagecount <= regions[j].pagecount
        /\ j = i => regions'[j].pagecount = c
  BY <1>2, <1>3, <1>6
<1>8. \A j \in DOMAIN regions' : j \in DOMAIN regions /\ j + 0 = j
  BY <1>2, <1>6
<1>. QED
  BY <1>5, <1>7, <1>8, Zenon DEF Regions, S, Leaves

LEMMA GetPageKeeps ==
  PagesInv /\ GetPage => PagesInv'
<1>. SUFFICES ASSUME PagesInv, GetPage
              PROVE  PagesInv'
  OBVIOUS
<1> DEFINE count == regions[1].pagecount
           c == count - 1
           t == [start |-> NextPage, bytes |-> Page]
<1>1. regions \in Regions /\ regions # <<>>
  BY DEF PagesInv, TypesOfPages, GetPage, NoPages
<1>2. 1 \in DOMAIN regions /\ Head(regions) = regions[1]
  BY <1>1 DEF Regions
<1>3. regions[1].address \in Nat /\ count \in Nat /\ c \in Nat /\ c <= count
  BY <1>1, <1>2, RegionTypes
<1>4. CountAfterGet = c
  BY <1>2, <1>3, RegionsEndInWord DEF CountAfterGet
<1>5. NextPage = regions[1].address + Page * c
  BY <1>2, <1>3, <1>4, RegionsEndInWord DEF NextPage
<1>6. boot' = boot /\ handed' = Append(handed, t)
  BY DEF GetPage
<1>7. t \in [start : Nat, bytes : Nat] /\ t.start = regions[1].address + Page * c
  BY <1>3, <1>5 DEF Page
<1>8. t.bytes = Page * (count - c)
  BY <1>3 DEF Page
<1>9. CASE c = 0
  <2>1. regions' = Tail(regions)
    BY <1>4, <1>9 DEF GetPage
  <2>2. regions' \in Regions
    BY <1>1, <2>1 DEF Regions
  <2>3. \A j \in DOMAIN regions' :
          j + 1 \in DOMAIN regions /\ regions'[j] = regions[j + 1] /\ j + 1 # 1
    BY <1>1, <2>1 DEF Regions
  <2>. HIDE DEF t, c
  <2>4. Leaves(1, c, 1)
    BY <2>2, <2>3, RegionTypes DEF Leaves
  <2>. QED
    BY <1>2, <1>3, <1>6, <1>7, <1>8, <2>2, <2>4, TakeKeeps
<1>10. CASE c # 0
  <2>1. c \in Nat \ {0} /\ c <= regions[1].pagecount
    BY <1>3, <1>10
  <2>2. regions' = [regions EXCEPT ![1].pagecount = c]
    BY <1>4, <1>10 DEF GetPage
  <2>. HIDE DEF t, c
  <2>3. TypesOfPages
    BY DEF PagesInv
  <2>4. regions' \in Regions /\ Leaves(1, c, 0)
    BY <1>2, <2>1, <2>2, <2>3, Shortened
  <2>. QED
    BY <1>2, <1>3, <1>6, <1>7, <1>8, <2>4, TakeKeeps
<1>. QED
  BY <1>9, <1>10

LEMMA GetRangeKeeps ==
  ASSUME NEW n \in Nat, NEW i \in DOMAIN regions
  PROVE  PagesInv /\ GetRange(i, n) => PagesInv'
<1>. SUFFICES ASSUME PagesInv, GetRange(i, n)
              PROVE  PagesInv'
  OBVIOUS
<1> DEFINE count == regions[i].pagecount
           c == count - n
           t == [start |-> RangeStart(i, n), bytes |-> Page * n]
<1>1. regions \in Regions /\ count > n
  BY DEF PagesInv, TypesOfPages, GetRange, FirstWithRoom, HasRoom
<1>2. regions[i].address \in Nat /\ count \in Nat
  BY <1>1, RegionTypes
<1>3. c \in Nat \ {0} /\ c <= count /\ count - c = n
  BY <1>1, <1>2
<1>4. CountAfter(i, n) = c
  BY <1>3, RegionsEndInWord DEF CountAfter
<1>5. RangeStart(i, n) = regions[i].address + Page * c
  BY <1>3, <1>4, RegionsEndInWord DEF RangeStart
<1>6. boot' = boot /\ handed' = Append(handed, t)
  BY DEF GetRange
<1>7. t \in [start : Nat, bytes : Nat] /\ t.start = regions[i].address + Page * c
  BY <1>2, <1>3, <1>5 DEF Page
<1>8. t.bytes = Page * (count - c)
  BY <1>3
<1>. HIDE DEF t, c
<1>9. regions' = [regions EXCEPT ![i].pagecount = c]
  BY <1>4 DEF GetRange
<1>10. TypesOfPages
  BY DEF PagesInv
<1>11. regions' \in Regions /\ Leaves(i, c, 0)
  BY <1>3, <1>9, <1>10, Shortened
<1>. QED
  BY <1>3, <1>6, <1>7, <1>8, <1>11, TakeKeeps

-----------------------------------------------------------------------------
(* The theorems.                                                           *)

LEMMA PagesInvInductive ==
  SpecPages => []PagesInv
<1>1. InitPages => PagesInv
  BY MemoryMapAssumption
  DEF InitPages, PagesInv, TypesOfPages, AllRegistered, RegionsApart, NoPageTwice, Regions
<1>2. PagesInv /\ [NextPages]_pageVars => PagesInv'
  <2>. SUFFICES ASSUME PagesInv, [NextPages]_pageVars
                PROVE  PagesInv'
    OBVIOUS
  <2>1. CASE RegisterFirst
    BY <2>1, RegisterFirstKeeps
  <2>2. CASE RegisterNext
    BY <2>2, RegisterNextKeeps
  <2>3. CASE GetPage
    BY <2>3, GetPageKeeps
  <2>4. ASSUME NEW n \in Nat, NEW i \in DOMAIN regions, GetRange(i, n)
        PROVE  PagesInv'
    BY <2>4, GetRangeKeeps
  <2>5. CASE UNCHANGED pageVars
    BY <2>5 DEF pageVars, PagesInv, TypesOfPages, AllRegistered, InRegistered, InPiece,
                RegionsApart, NoPageTwice, RegionBytes, DisjointRanges
  <2>. QED
    BY <2>1, <2>2, <2>3, <2>4, <2>5 DEF NextPages
<1>. QED
  BY <1>1, <1>2, PTL DEF SpecPages

\* No page is ever given to two callers of freepage_get and
\* freepage_get_range, nor kept on the list once it is given away, for every
\* memory map and every sequence of calls.
THEOREM PagesHandedOutOnce ==
  SpecPages => []NoPageTwice
<1>1. PagesInv => NoPageTwice
  BY DEF PagesInv
<1>. QED
  BY <1>1, PagesInvInductive, PTL

LEMMA Usable == PagesInv => OnlyUsableMemory
<1>. SUFFICES ASSUME PagesInv
              PROVE  OnlyUsableMemory
  OBVIOUS
<1>1. ASSUME NEW a, NEW n, InRegistered(a, n)
      PROVE  UsableRange(a, n)
  <2>1. PICK k \in 0 .. boot - 1 : InPiece(k, a, n)
    BY <1>1 DEF InRegistered
  <2>2. k \in 0 .. Len(MemoryMap)
    BY MemoryMapAssumption DEF PagesInv, TypesOfPages
  <2>. QED
    BY <2>1, <2>2, Zenon DEF UsableRange
<1>. QED
  BY <1>1, Zenon DEF OnlyUsableMemory, PagesInv, AllRegistered, RegionsApart

\* Whatever is on the list or handed out lies in memory boot found usable.
THEOREM PagesAreUsable ==
  SpecPages => []OnlyUsableMemory
BY Usable, PagesInvInductive, PTL

-----------------------------------------------------------------------------
(* Mappings and address space.                                             *)

Fields == [bytecount : Nat, virtaddr : Nat, offset : Nat, pages : Seq(Nat)]
Ranges == [start : Nat, length : Nat]

TypesOfMaps ==
  /\ asas \in Seq(Ranges)
  /\ pt \in [DOMAIN pt -> Nat] /\ DOMAIN pt \subseteq Nat
  /\ maps \in [Objects -> Fields]
  /\ list \in Seq(Nat)
  /\ pc \in {"idle", "mapping", "unmapping", "fault"}
  /\ owner \in Objects /\ done \in Nat
  /\ outOfSpace \in BOOLEAN

WellFormed ==
  /\ \A i \in DOMAIN asas : asas[i].start % Page = 0
  /\ \A h \in Objects : /\ maps[h].virtaddr % Page = 0
                        /\ Len(maps[h].pages) = PagesIn(maps[h].bytecount)

\* The object that freepage_get_zeroed maps a page with is one at work.
Progress ==
  /\ done <= PagesIn(maps[owner].bytecount)
  /\ pc = "idle" => owner = Scratch
  /\ pc = "idle" \/ owner # Scratch => maps[Scratch] = Empty
  /\ owner = Scratch /\ pc \in {"mapping", "unmapping"} => maps[Scratch].bytecount = Page

LiveApart ==
  \A g, h \in Live : g # h =>
    DisjointRanges(maps[g].virtaddr, LivePages(g), maps[h].virtaddr, LivePages(h))

InArena ==
  /\ \A i \in DOMAIN asas : /\ AsaStart <= asas[i].start
                            /\ asas[i].start + asas[i].length <= AsaStart + AsaLength
  /\ \A h \in Live : /\ AsaStart <= maps[h].virtaddr
                     /\ maps[h].virtaddr + LivePages(h) <= AsaStart + AsaLength

SpaceInv == FreeApart /\ LiveApart /\ InArena

\* What holds whether or not space ran out, and what until then.
AlwaysInv == TypesOfMaps /\ WellFormed /\ Progress /\ NoStaleTranslation

MapsInv == AlwaysInv /\ (outOfSpace \/ (SpaceInv /\ PagesLead))

MappingsInv == PagesInv /\ MapsInv

-----------------------------------------------------------------------------
(* Pages.                                                                  *)

LEMMA WholePages ==
  ASSUME NEW n \in Nat
  PROVE  /\ PagesIn(n) \in Nat /\ RoundUpToPage(n) \in Nat
         /\ Page * PagesIn(n) = RoundUpToPage(n) /\ n <= RoundUpToPage(n)
         /\ RoundUpToPage(n) % Page = 0
         /\ n > 0 <=> PagesIn(n) > 0
         /\ RoundUpToPage(RoundUpToPage(n)) = RoundUpToPage(n)
         /\ \A m \in Nat : m <= n => RoundUpToPage(m) <= RoundUpToPage(n)
         /\ PagesIn(Page * n) = n
  BY DEF PagesIn, RoundUpToPage, Page

LEMMA AlignedSum ==
  ASSUME NEW a \in Nat, NEW b \in Nat, a % Page = 0, b % Page = 0
  PROVE  (a + b) % Page = 0
  BY DEF Page

LEMMA EntryNumber ==
  ASSUME NEW m \in Fields, m.virtaddr % Page = 0, NEW i \in Nat
  PROVE  /\ EntryFor(PageAt(m, i)) = (m.virtaddr \div Page) + i
         /\ m.virtaddr \div Page \in Nat
         /\ Page * (m.virtaddr \div Page) = m.virtaddr
<1>1. m.virtaddr \in Nat BY DEF Fields
<1> QED BY <1>1 DEF EntryFor, PageAt, Page

\* No two pages of live objects have the same entry.
LEMMA OwnEntries ==
  ASSUME TypesOfMaps, WellFormed, LiveApart,
         NEW g \in Live, NEW i \in 0 .. PagesIn(maps[g].bytecount) - 1,
         NEW h \in Live, NEW j \in 0 .. PagesIn(maps[h].bytecount) - 1,
         EntryFor(PageAt(maps[g], i)) = EntryFor(PageAt(maps[h], j))
  PROVE  g = h /\ i = j
<1> DEFINE a == maps[g].virtaddr \div Page
           b == maps[h].virtaddr \div Page
           m == PagesIn(maps[g].bytecount)
           n == PagesIn(maps[h].bytecount)
<1>1. /\ g \in Objects /\ maps[g] \in Fields /\ maps[g].bytecount \in Nat
      /\ h \in Objects /\ maps[h] \in Fields /\ maps[h].bytecount \in Nat
  BY DEF Live, TypesOfMaps, Fields
<1>2. m \in Nat /\ n \in Nat BY <1>1, WholePages
<1>3. i \in Nat /\ j \in Nat /\ i < m /\ j < n BY <1>2
<1>4. /\ a \in Nat /\ b \in Nat /\ a + i = b + j
      /\ maps[g].virtaddr = Page * a /\ maps[h].virtaddr = Page * b
  BY <1>1, <1>3, EntryNumber DEF WellFormed
<1>5. g = h
  <2> SUFFICES ASSUME g # h PROVE FALSE OBVIOUS
  <2>1. DisjointRanges(Page * a, Page * m, Page * b, Page * n)
    BY <1>4 DEF LiveApart, LivePages
  <2> HIDE DEF a, b, m, n
  <2> QED BY <1>2, <1>3, <1>4, <2>1 DEF DisjointRanges, Page
<1> QED BY <1>3, <1>4, <1>5

-----------------------------------------------------------------------------
(* Constructors.                                                           *)

\* While nothing is at work, every page of every live object is mapped.
LEMMA IdleEntered ==
  ASSUME TypesOfMaps, Progress, pc = "idle", NEW h \in Live
  PROVE  h # Scratch /\ Entered(h) = 0 .. PagesIn(maps[h].bytecount) - 1
<1>1. maps[Scratch] = Empty /\ owner = Scratch BY DEF Progress
<1>2. h # Scratch BY <1>1 DEF Live, Empty
<1> QED BY <1>1, <1>2 DEF Entered

\* A constructor before its loop: its object has no page entered yet.
LEMMA ObjectBegun ==
  ASSUME AlwaysInv, NEW h \in Objects, NEW o \in Fields,
         o.virtaddr % Page = 0, Len(o.pages) = PagesIn(o.bytecount),
         h = Scratch => o.bytecount = Page,
         asas' \in Seq(Ranges), \A i \in DOMAIN asas' : asas'[i].start % Page = 0,
         pc = "idle", maps[h] = Empty, maps' = [maps EXCEPT ![h] = o],
         pc' = "mapping", owner' = h, done' = 0, pt' = pt,
         list' \in Seq(Nat), outOfSpace' \in BOOLEAN
  PROVE  AlwaysInv' /\ (PagesLead => PagesLead')
<1>1. TypesOfMaps /\ WellFormed /\ Progress /\ NoStaleTranslation BY DEF AlwaysInv
<1>2. /\ maps' \in [Objects -> Fields] /\ maps'[h] = o
      /\ \A g \in Objects \ {h} : maps'[g] = maps[g]
  BY <1>1 DEF TypesOfMaps
<1>3. TypesOfMaps' BY <1>1, <1>2 DEF TypesOfMaps
<1>4. WellFormed' BY <1>1, <1>2 DEF WellFormed
<1>5. Progress'
  <2>1. PagesIn(o.bytecount) \in Nat BY WholePages DEF Fields
  <2>2. done' <= PagesIn(maps'[owner'].bytecount) BY <1>2, <2>1
  <2>3. owner' # Scratch => maps'[Scratch] = Empty BY <1>1, <1>2 DEF Progress, Objects
  <2>4. owner' = Scratch => maps'[Scratch].bytecount = Page BY <1>2
  <2> QED BY <2>2, <2>3, <2>4 DEF Progress
<1>6. /\ \A g \in Live : g \in Live' /\ g \in Objects /\ g # h /\ maps'[g] = maps[g]
      /\ \A g \in Live' : g \in Live \/ g = h
  BY <1>2 DEF Live, Empty
<1>7. \A g \in Live : Entered(g)' = Entered(g)
  <2> TAKE g \in Live
  <2>1. Entered(g) = 0 .. PagesIn(maps[g].bytecount) - 1 BY <1>1, IdleEntered
  <2> QED BY <1>6, <2>1 DEF Entered
<1>8. Entered(h)' = {} BY DEF Entered
<1>9. ASSUME PagesLead PROVE PagesLead'
  <2> SUFFICES ASSUME NEW g \in Live', NEW j \in Entered(g)'
               PROVE  /\ EntryFor(PageAt(maps'[g], j)) \in DOMAIN pt
                      /\ pt[EntryFor(PageAt(maps'[g], j))] = maps'[g].pages[j + 1]
    BY DEF PagesLead, EntryFor, PageAt
  <2>1. g \in Live BY <1>6, <1>8
  <2> QED BY <1>6, <1>7, <1>9, <2>1 DEF PagesLead
<1>10. NoStaleTranslation'
  <2> SUFFICES ASSUME NEW e \in DOMAIN pt
               PROVE  \E g \in Live' : \E j \in Entered(g)' : e = EntryFor(PageAt(maps'[g], j))
    BY DEF NoStaleTranslation, EntryFor, PageAt
  <2> QED BY <1>1, <1>6, <1>7 DEF NoStaleTranslation
<1> QED BY <1>3, <1>4, <1>5, <1>9, <1>10 DEF AlwaysInv

\* When nothing fits, the object is at 0, and nothing is claimed of space.
LEMMA ConstructAtZero ==
  ASSUME MapsInv, NEW h \in Objects, NEW m \in Fields, NEW space \in Nat,
         m.virtaddr = 0, Len(m.pages) = PagesIn(m.bytecount),
         h = Scratch => m.bytecount = Page,
         Construct(h, m, space), outOfSpace', asas' = asas,
         maps' = [maps EXCEPT ![h] = [m EXCEPT !.virtaddr = 0]], list' \in Seq(Nat)
  PROVE  MapsInv'
<1> DEFINE o == [m EXCEPT !.virtaddr = 0]
<1>1. AlwaysInv /\ TypesOfMaps /\ WellFormed BY DEF MapsInv, AlwaysInv
<1>2. /\ o \in Fields /\ o.virtaddr = 0
      /\ o.bytecount = m.bytecount /\ o.pages = m.pages
  BY DEF Fields
<1>3. o.virtaddr % Page = 0 BY <1>2 DEF Page
<1>4. /\ pc = "idle" /\ maps[h] = Empty
      /\ pc' = "mapping" /\ owner' = h /\ done' = 0 /\ pt' = pt
  BY DEF Construct
<1>5. outOfSpace' \in BOOLEAN BY DEF Construct, MapsInv, TypesOfMaps
<1>6. asas' \in Seq(Ranges) /\ \A i \in DOMAIN asas' : asas'[i].start % Page = 0
  BY <1>1 DEF TypesOfMaps, WellFormed
<1> HIDE DEF o
<1>7. maps' = [maps EXCEPT ![h] = o] BY DEF o
<1>8. AlwaysInv' BY <1>1, <1>2, <1>3, <1>4, <1>5, <1>6, <1>7, ObjectBegun
<1> QED BY <1>8 DEF MapsInv

LEMMA ConstructFits ==
  ASSUME MapsInv, NEW h \in Objects, NEW m \in Fields, NEW space \in Nat,
         m.virtaddr = 0, Len(m.pages) = PagesIn(m.bytecount),
         Page * PagesIn(m.bytecount) <= Rounded(space),
         h = Scratch => m.bytecount = Page,
         Construct(h, m, space), list' \in Seq(Nat),
         \E i \in DOMAIN asas :
           /\ FirstFit(i, space)
           /\ asas' = [asas EXCEPT ![i] = Cut(@, Rounded(space))]
           /\ maps' = [maps EXCEPT ![h] = [m EXCEPT !.virtaddr = asas[i].start]]
           /\ UNCHANGED outOfSpace
  PROVE  MapsInv'
<1> DEFINE R == Rounded(space)
<1>1. PICK i \in DOMAIN asas :
        /\ FirstFit(i, space)
        /\ asas' = [asas EXCEPT ![i] = Cut(@, R)]
        /\ maps' = [maps EXCEPT ![h] = [m EXCEPT !.virtaddr = asas[i].start]]
        /\ outOfSpace' = outOfSpace
  OBVIOUS
<1>2. /\ pc = "idle" /\ maps[h] = Empty
      /\ pc' = "mapping" /\ owner' = h /\ done' = 0 /\ pt' = pt
  BY DEF Construct
<1>3. TypesOfMaps /\ WellFormed /\ Progress /\ NoStaleTranslation BY DEF MapsInv, AlwaysInv
<1> DEFINE a == asas[i].start
           l == asas[i].length
           n == Page * PagesIn(m.bytecount)
           o == [m EXCEPT !.virtaddr = a]
<1>4. /\ DOMAIN asas = 1 .. Len(asas) /\ Len(asas) \in Nat
      /\ \A j \in DOMAIN asas : asas[j] \in Ranges
  BY <1>3, LenProperties, ElementOfSeq DEF TypesOfMaps
<1>5. /\ a \in Nat /\ l \in Nat /\ R \in Nat /\ R <= l /\ a % Page = 0 /\ R % Page = 0
      /\ n \in Nat /\ n <= R /\ m.bytecount \in Nat
      /\ PagesIn(m.bytecount) \in Nat /\ n >= m.bytecount
  <2>1. m.bytecount \in Nat BY DEF Fields
  <2>2. /\ PagesIn(m.bytecount) \in Nat /\ n = RoundUpToPage(m.bytecount) /\ n >= m.bytecount
        /\ n \in Nat
    BY <2>1, WholePages
  <2>3. R \in Nat /\ R % Page = 0 BY WholePages DEF Rounded
  <2>4. l >= R BY <1>1 DEF FirstFit
  <2>5. a \in Nat /\ l \in Nat BY <1>4 DEF Ranges
  <2>6. a % Page = 0 BY <1>3 DEF WellFormed
  <2> QED BY <2>1, <2>2, <2>3, <2>4, <2>5, <2>6
<1>6. o \in Fields /\ o.virtaddr = a /\ o.bytecount = m.bytecount /\ o.pages = m.pages
  BY <1>5 DEF Fields
<1>7. /\ maps' \in [Objects -> Fields] /\ maps'[h] = o
      /\ \A g \in Objects \ {h} : maps'[g] = maps[g]
  BY <1>1, <1>3, <1>6 DEF TypesOfMaps
<1>8. /\ asas' \in Seq(Ranges) /\ DOMAIN asas' = DOMAIN asas
      /\ asas'[i].start = a + R /\ asas'[i].length = l - R
      /\ \A j \in DOMAIN asas \ {i} : asas'[j] = asas[j]
  <2> DEFINE c == Cut(asas[i], R)
  <2>1. c \in Ranges /\ c.start = a + R /\ c.length = l - R
    BY <1>5 DEF Cut, Ranges
  <2>2. asas \in Seq(Ranges) BY <1>3 DEF TypesOfMaps
  <2>3. asas' = [asas EXCEPT ![i] = c] BY <1>1
  <2> HIDE DEF c
  <2>4. /\ asas' \in Seq(Ranges) /\ Len(asas') = Len(asas)
        /\ \A j \in 1 .. Len(asas) : asas'[j] = IF j = i THEN c ELSE asas[j]
    BY <1>4, <2>1, <2>2, <2>3, ExceptSeq
  <2>5. DOMAIN asas' = 1 .. Len(asas') BY <2>4, LenProperties
  <2> QED BY <1>4, <2>1, <2>4, <2>5
<1> HIDE DEF R, a, l, n, o
<1>9. \A j \in DOMAIN asas' : asas'[j].start % Page = 0
  <2>1. (a + R) % Page = 0 BY <1>5, AlignedSum
  <2> QED BY <1>3, <1>8, <2>1 DEF WellFormed
<1>10. maps' = [maps EXCEPT ![h] = o] BY <1>1 DEF a, o
<1>11. AlwaysInv' /\ (PagesLead => PagesLead')
  <2>1. outOfSpace' \in BOOLEAN BY <1>1, <1>3 DEF TypesOfMaps
  <2> QED BY <1>2, <1>3, <1>5, <1>6, <1>8, <1>9, <1>10, <2>1, ObjectBegun DEF AlwaysInv
<1>12. /\ h \notin Live
       /\ \A g \in Live : /\ g \in Live' /\ g \in Objects /\ g # h /\ maps'[g] = maps[g]
                          /\ LivePages(g)' = LivePages(g)
       /\ \A g \in Live' : g \in Live \/ (g = h /\ LivePages(h)' = n)
  BY <1>2, <1>6, <1>7 DEF Live, LivePages, Empty, n
<1>13. \A g \in Live : /\ maps[g].virtaddr \in Nat /\ LivePages(g) \in Nat
  <2> TAKE g \in Live
  <2>1. maps[g] \in Fields BY <1>3 DEF TypesOfMaps, Live
  <2>2. maps[g].virtaddr \in Nat /\ maps[g].bytecount \in Nat BY <2>1 DEF Fields
  <2> QED BY <2>2, WholePages DEF LivePages
<1>14. ASSUME SpaceInv PROVE SpaceInv'
  <2>0. ASSUME NEW b \in Nat, NEW k \in Nat, DisjointRanges(a, l, b, k)
        PROVE  /\ DisjointRanges(a + R, l - R, b, k)
               /\ DisjointRanges(b, k, a + R, l - R)
    BY <1>5, <2>0 DEF DisjointRanges
  <2>1. ASSUME NEW j \in DOMAIN asas, j # i
        PROVE  DisjointRanges(a, l, asas[j].start, asas[j].length)
    BY <1>14, <2>1, <1>3 DEF SpaceInv, FreeApart, a, l
  <2>2. ASSUME NEW g \in Live
        PROVE  DisjointRanges(a, l, maps[g].virtaddr, LivePages(g))
    BY <1>14, <1>3 DEF SpaceInv, FreeApart, a, l
  <2>3. ASSUME NEW j \in DOMAIN asas PROVE asas[j].start \in Nat /\ asas[j].length \in Nat
    BY <1>4 DEF Ranges
  <2>4. ASSUME NEW j \in DOMAIN asas', NEW k \in DOMAIN asas', j # k
        PROVE  DisjointRanges(asas'[j].start, asas'[j].length, asas'[k].start, asas'[k].length)
    <3>1. CASE j = i
      <4>1. /\ k \in DOMAIN asas /\ k # i /\ asas'[k] = asas[k]
            /\ asas[k].start \in Nat /\ asas[k].length \in Nat
        BY <1>8, <2>3, <2>4, <3>1
      <4>2. DisjointRanges(a, l, asas[k].start, asas[k].length) BY <2>1, <4>1
      <4> QED BY <1>8, <2>0, <3>1, <4>1, <4>2
    <3>2. CASE k = i
      <4>1. /\ j \in DOMAIN asas /\ j # i /\ asas'[j] = asas[j]
            /\ asas[j].start \in Nat /\ asas[j].length \in Nat
        BY <1>8, <2>3, <2>4, <3>2
      <4>2. DisjointRanges(a, l, asas[j].start, asas[j].length) BY <2>1, <4>1
      <4> QED BY <1>8, <2>0, <3>2, <4>1, <4>2
    <3>3. CASE j # i /\ k # i
      BY <1>14, <1>3, <1>8, <2>4, <3>3 DEF SpaceInv, FreeApart
    <3> QED BY <3>1, <3>2, <3>3
  <2>5. ASSUME NEW j \in DOMAIN asas', NEW g \in Live
        PROVE  DisjointRanges(asas'[j].start, asas'[j].length, maps[g].virtaddr, LivePages(g))
    <3>1. CASE j = i BY <1>8, <1>13, <2>0, <2>2, <3>1
    <3>2. CASE j # i BY <1>14, <1>3, <1>8, <3>2 DEF SpaceInv, FreeApart
    <3> QED BY <3>1, <3>2
  <2>6. ASSUME NEW j \in DOMAIN asas'
        PROVE  DisjointRanges(asas'[j].start, asas'[j].length, a, n)
    <3>1. CASE j = i BY <1>5, <1>8, <3>1 DEF DisjointRanges
    <3>2. CASE j # i
      <4>1. /\ j \in DOMAIN asas /\ asas'[j] = asas[j]
            /\ asas[j].start \in Nat /\ asas[j].length \in Nat
        BY <1>8, <2>3, <3>2
      <4>2. DisjointRanges(a, l, asas[j].start, asas[j].length) BY <2>1, <3>2, <4>1
      <4> QED BY <1>5, <4>1, <4>2 DEF DisjointRanges
    <3> QED BY <3>1, <3>2
  <2>7. ASSUME NEW g \in Live PROVE DisjointRanges(a, n, maps[g].virtaddr, LivePages(g))
    BY <1>5, <1>13, <2>2 DEF DisjointRanges
  <2>8. FreeApart'
    <3>1. ASSUME NEW j \in DOMAIN asas', NEW g \in Live'
          PROVE  DisjointRanges(asas'[j].start, asas'[j].length,
                                maps'[g].virtaddr, LivePages(g)')
      <4>1. CASE g \in Live BY <1>12, <2>5, <4>1
      <4>2. CASE g = h /\ LivePages(h)' = n BY <1>6, <1>7, <2>6, <4>2
      <4> QED BY <1>12, <4>1, <4>2
    <3>2. \A x, y, z, w : DisjointRanges(x, y, z, w)' <=> DisjointRanges(x, y, z, w)
      BY DEF DisjointRanges
    <3> QED BY <2>4, <3>1, <3>2 DEF FreeApart
  <2>9. LiveApart'
    <3>1. ASSUME NEW f \in Live', NEW g \in Live', f # g
          PROVE  DisjointRanges(maps'[f].virtaddr, LivePages(f)',
                                maps'[g].virtaddr, LivePages(g)')
      <4>1. CASE f \in Live /\ g \in Live
        BY <1>14, <1>3, <1>12, <3>1, <4>1 DEF SpaceInv, LiveApart
      <4>2. CASE f = h /\ g \in Live BY <1>6, <1>7, <1>12, <2>7, <3>1, <4>2
      <4>3. CASE f \in Live /\ g = h
        <5>1. DisjointRanges(a, n, maps[f].virtaddr, LivePages(f)) BY <2>7, <4>3
        <5>2. DisjointRanges(maps[f].virtaddr, LivePages(f), a, n)
          BY <5>1 DEF DisjointRanges
        <5> QED BY <1>6, <1>7, <1>12, <3>1, <4>3, <5>2
      <4> QED BY <1>12, <3>1, <4>1, <4>2, <4>3
    <3> QED BY <3>1 DEF LiveApart
  <2>10. InArena'
    <3>1. /\ AsaStart \in Nat /\ AsaLength \in Nat
          /\ AsaStart <= a /\ a + l <= AsaStart + AsaLength
      BY <1>14, <1>3, MappingsAssumption DEF SpaceInv, InArena, a, l
    <3>2. ASSUME NEW j \in DOMAIN asas'
          PROVE  /\ AsaStart <= asas'[j].start
                 /\ asas'[j].start + asas'[j].length <= AsaStart + AsaLength
      <4>1. CASE j = i BY <1>5, <1>8, <3>1, <4>1, SMTT(30)
      <4>2. CASE j # i BY <1>14, <1>3, <1>8, <4>2 DEF SpaceInv, InArena
      <4> QED BY <4>1, <4>2
    <3>3. ASSUME NEW g \in Live'
          PROVE  /\ AsaStart <= maps'[g].virtaddr
                 /\ maps'[g].virtaddr + LivePages(g)' <= AsaStart + AsaLength
      <4>1. CASE g \in Live BY <1>14, <1>3, <1>12, <4>1 DEF SpaceInv, InArena
      <4>2. CASE g = h /\ LivePages(h)' = n
        <5>1. maps'[g].virtaddr = a /\ LivePages(g)' = n BY <1>6, <1>7, <4>2
        <5>2. AsaStart <= a /\ a + n <= AsaStart + AsaLength BY <1>5, <3>1
        <5> QED BY <5>1, <5>2
      <4> QED BY <1>12, <4>1, <4>2
    <3> QED BY <3>2, <3>3 DEF InArena
  <2> QED BY <2>8, <2>9, <2>10 DEF SpaceInv
<1> QED BY <1>1, <1>11, <1>14 DEF MapsInv

LEMMA ConstructKeeps ==
  ASSUME MapsInv, NEW h \in Objects, NEW m \in Fields, NEW space \in Nat,
         m.virtaddr = 0, Len(m.pages) = PagesIn(m.bytecount),
         Page * PagesIn(m.bytecount) <= Rounded(space),
         h = Scratch => m.bytecount = Page,
         Construct(h, m, space), list' \in Seq(Nat)
  PROVE  MapsInv'
<1>1. CASE \E i \in DOMAIN asas :
             /\ FirstFit(i, space)
             /\ asas' = [asas EXCEPT ![i] = Cut(@, Rounded(space))]
             /\ maps' = [maps EXCEPT ![h] = [m EXCEPT !.virtaddr = asas[i].start]]
             /\ UNCHANGED outOfSpace
  BY <1>1, ConstructFits
<1>2. CASE /\ maps' = [maps EXCEPT ![h] = [m EXCEPT !.virtaddr = 0]]
           /\ outOfSpace' = TRUE /\ UNCHANGED asas
  BY <1>2, ConstructAtZero
<1> QED BY <1>1, <1>2 DEF Construct

LEMMA PagesOfRange ==
  ASSUME NEW a \in Nat, NEW bytes \in Nat
  PROVE  /\ PagesFrom(a, bytes) \in Seq(Nat)
         /\ Len(PagesFrom(a, bytes)) = PagesIn(bytes)
<1> DEFINE n == PagesIn(bytes)
           b == a - (a % Page)
<1>1. n \in Nat BY WholePages
<1>2. b \in Nat BY DEF Page
<1>3. PagesFrom(a, bytes) = [i \in 1 .. n |-> b + Page * (i - 1)] BY DEF PagesFrom
<1> HIDE DEF n, b
<1>4. \A i \in 1 .. n : b + Page * (i - 1) \in Nat BY <1>1, <1>2 DEF Page
<1>5. [i \in 1 .. n |-> b + Page * (i - 1)] \in Seq(Nat) BY <1>1, <1>4
<1>6. Len([i \in 1 .. n |-> b + Page * (i - 1)]) = n BY <1>1
<1> QED BY <1>3, <1>5, <1>6 DEF n

LEMMA ConstructRangeKeeps ==
  ASSUME MapsInv, NEW h \in Objects, NEW a \in Nat, NEW bytes \in Nat,
         h = Scratch => bytes = Page,
         ConstructRange(h, a, bytes), list' \in Seq(Nat)
  PROVE  MapsInv'
<1> DEFINE m == [bytecount |-> bytes, virtaddr |-> 0, offset |-> a % Page,
                 pages |-> PagesFrom(a, bytes)]
           room == IF a % Page > 0 THEN bytes + Page ELSE bytes
           space == RoundUpToPage(room)
<1>1. m \in Fields /\ m.virtaddr = 0 /\ m.bytecount = bytes /\ Len(m.pages) = PagesIn(bytes)
  BY PagesOfRange DEF Fields, Page
<1>2. room \in Nat /\ bytes <= room BY DEF Page
<1>3. Construct(h, m, space) BY DEF ConstructRange
<1> HIDE DEF m, room
<1>4. space \in Nat /\ Page * PagesIn(bytes) <= Rounded(space)
  BY <1>2, WholePages, ZenonT(60) DEF Rounded
<1> HIDE DEF space
<1> QED BY <1>1, <1>3, <1>4, ConstructKeeps

LEMMA MapBarKeeps ==
  ASSUME MapsInv, NEW h \in Handles, NEW b \in Bars, MapBar(h, b)
  PROVE  MapsInv'
<1> DEFINE bytes == IF b.base % Page > 0 THEN b.size + Page ELSE b.size
           m == [bytecount |-> bytes, virtaddr |-> 0, offset |-> b.base % Page,
                 pages |-> PagesFrom(b.base, bytes)]
<1>1. b.base \in Nat /\ b.size \in Nat BY MappingsAssumption
<1>2. bytes \in Nat BY <1>1 DEF Page
<1>3. Construct(h, m, bytes) /\ list' = list BY DEF MapBar
<1> HIDE DEF bytes
<1>4. m \in Fields /\ m.virtaddr = 0 /\ m.bytecount = bytes /\ Len(m.pages) = PagesIn(bytes)
  <2>1. b.base % Page \in Nat BY <1>1 DEF Page
  <2>2. /\ PagesFrom(b.base, bytes) \in Seq(Nat)
        /\ Len(PagesFrom(b.base, bytes)) = PagesIn(bytes)
    BY <1>1, <1>2, PagesOfRange
  <2> QED BY <1>2, <2>1, <2>2 DEF Fields
<1> HIDE DEF m
<1>5. Page * PagesIn(bytes) <= Rounded(bytes) BY <1>2, WholePages DEF Rounded
<1>6. h \in Objects /\ h # Scratch BY MappingsAssumption DEF Objects
<1>7. list' \in Seq(Nat) BY <1>3 DEF MapsInv, AlwaysInv, TypesOfMaps
<1> QED BY <1>2, <1>3, <1>4, <1>5, <1>6, <1>7, ConstructKeeps

LEMMA MapListKeeps ==
  ASSUME MapsInv, NEW h \in Handles, MapList(h)
  PROVE  MapsInv'
<1> DEFINE bytes == Page * Len(list)
           m == [bytecount |-> bytes, virtaddr |-> 0, offset |-> 0, pages |-> list]
<1>1. list \in Seq(Nat) /\ Len(list) \in Nat BY LenProperties DEF MapsInv, AlwaysInv, TypesOfMaps
<1>2. bytes \in Nat /\ PagesIn(bytes) = Len(list) BY <1>1, WholePages DEF Page
<1>3. Construct(h, m, bytes) /\ list' = <<>> BY DEF MapList
<1> HIDE DEF bytes
<1>4. m \in Fields /\ m.virtaddr = 0 /\ m.bytecount = bytes /\ Len(m.pages) = PagesIn(bytes)
  <2>1. m \in Fields BY <1>1, <1>2 DEF Fields
  <2>2. m.virtaddr = 0 /\ m.bytecount = bytes /\ m.pages = list OBVIOUS
  <2> HIDE DEF m
  <2> QED BY <1>2, <2>1, <2>2
<1> HIDE DEF m
<1>5. Page * PagesIn(bytes) <= Rounded(bytes) BY <1>2, WholePages DEF Rounded
<1>6. h \in Objects /\ h # Scratch BY MappingsAssumption DEF Objects
<1>7. list' \in Seq(Nat) BY <1>3, EmptySeq
<1> QED BY <1>2, <1>3, <1>4, <1>5, <1>6, <1>7, ConstructKeeps

-----------------------------------------------------------------------------
(* The loop of a constructor and that of the destructor.                   *)

\* A step that leaves address space, page tables and objects alone.
LEMMA StandStill ==
  ASSUME MapsInv, UNCHANGED <<asas, outOfSpace, pt, maps, owner, done>>, list' \in Seq(Nat),
         pc' = pc \/ (pc # "unmapping" /\ pc' = "fault")
  PROVE  MapsInv'
<1>1. TypesOfMaps /\ WellFormed /\ Progress /\ NoStaleTranslation BY DEF MapsInv, AlwaysInv
<1>2. TypesOfMaps' BY <1>1 DEF TypesOfMaps
<1>3. WellFormed' BY <1>1 DEF WellFormed
<1>4. Progress' BY <1>1 DEF Progress
<1>5. ASSUME SpaceInv PROVE SpaceInv'
  BY <1>5, <1>1 DEF SpaceInv, FreeApart, LiveApart, InArena, Live, LivePages, DisjointRanges
<1>6. \A h \in Objects : Entered(h)' = Entered(h) BY DEF Entered
<1>7. NoStaleTranslation' /\ (SpaceInv /\ PagesLead => PagesLead')
  <2>1. Live' = Live /\ \A h \in Live : h \in Objects BY DEF Live
  <2>2. PagesLead => PagesLead' BY <1>1, <1>6, <2>1 DEF PagesLead, PageAt, EntryFor
  <2>3. NoStaleTranslation'
    BY <1>1, <1>6, <2>1 DEF NoStaleTranslation, PageAt, EntryFor
  <2> QED BY <2>2, <2>3
<1> QED BY <1>2, <1>3, <1>4, <1>5, <1>7 DEF MapsInv, AlwaysInv

LEMMA EnteredWithin ==
  ASSUME TypesOfMaps, Progress, NEW h \in Live
  PROVE  /\ PagesIn(maps[h].bytecount) \in Nat
         /\ Entered(h) \subseteq 0 .. PagesIn(maps[h].bytecount) - 1
<1>1. maps[h] \in Fields BY DEF TypesOfMaps, Live
<1>2. PagesIn(maps[h].bytecount) \in Nat BY <1>1, WholePages DEF Fields
<1> QED BY <1>2 DEF Entered, Progress, TypesOfMaps

LEMMA MapPageKeeps ==
  ASSUME MapsInv, MapPage
  PROVE  MapsInv'
<1> DEFINE n == PagesIn(maps[owner].bytecount)
           e == EntryFor(PageAt(maps[owner], done))
           p == maps[owner].pages[done + 1]
<1>1. /\ pc = "mapping" /\ done < n /\ done' = done + 1
      /\ pt' = [x \in DOMAIN pt \cup {e} |-> IF x = e THEN p ELSE pt[x]]
      /\ UNCHANGED <<asas, outOfSpace, maps, list, pc, owner>>
  BY DEF MapPage, Mapping, Map, NextToMap
<1>2. TypesOfMaps /\ WellFormed /\ Progress /\ NoStaleTranslation BY DEF MapsInv, AlwaysInv
<1>3. /\ owner \in Objects /\ maps[owner] \in Fields /\ done \in Nat
      /\ maps[owner].bytecount \in Nat /\ maps[owner].pages \in Seq(Nat)
  BY <1>2 DEF TypesOfMaps, Fields
<1>4. n \in Nat /\ owner \in Live
  <2>1. n \in Nat /\ (n > 0 => maps[owner].bytecount > 0) BY <1>3, WholePages
  <2> HIDE DEF n
  <2>2. n > 0 BY <1>1, <1>3, <2>1
  <2> QED BY <1>3, <2>1, <2>2 DEF Live
<1>5. p \in Nat
  <2>1. Len(maps[owner].pages) = n BY <1>2, <1>3 DEF WellFormed
  <2>2. done + 1 \in 1 .. n BY <1>1, <1>3, <1>4
  <2> QED BY <1>3, <2>1, <2>2, ElementOfSeq
<1>6. e \in Nat BY <1>2, <1>3, EntryNumber DEF WellFormed
<1> HIDE DEF n, e, p
<1>7. TypesOfMaps'
  <2>1. DOMAIN pt' = DOMAIN pt \cup {e} /\ \A x \in DOMAIN pt' : pt'[x] \in Nat
    BY <1>1, <1>2, <1>5 DEF TypesOfMaps
  <2>2. pt' = [x \in DOMAIN pt' |-> pt'[x]] BY <1>1
  <2>3. pt' \in [DOMAIN pt' -> Nat] BY <2>1, <2>2
  <2> QED BY <1>1, <1>2, <1>3, <1>6, <2>1, <2>3 DEF TypesOfMaps
<1>8. WellFormed' BY <1>1, <1>2 DEF WellFormed
<1>9. Progress' BY <1>1, <1>2, <1>3, <1>4 DEF Progress, n
<1>10. ASSUME SpaceInv PROVE SpaceInv'
  BY <1>1, <1>2, <1>10
  DEF SpaceInv, FreeApart, LiveApart, InArena, Live, LivePages, DisjointRanges
<1>11. NoStaleTranslation' /\ (SpaceInv /\ PagesLead => PagesLead')
  <2>1. Live' = Live /\ \A h \in Live : h \in Objects BY <1>1 DEF Live
  <2>2. \A h \in Live : h # owner => Entered(h)' = Entered(h) BY <1>1 DEF Entered
  <2>3. \A h \in Live : h = owner =>
          Entered(h) = 0 .. done - 1 /\ Entered(h)' = 0 .. done
    <3>1. (done + 1) - 1 = done BY <1>3
    <3> QED BY <1>1, <3>1 DEF Entered
  <2>4. ASSUME SpaceInv, PagesLead PROVE PagesLead'
    <3> SUFFICES ASSUME NEW h \in Live, NEW i \in Entered(h)'
                 PROVE  /\ EntryFor(PageAt(maps[h], i)) \in DOMAIN pt'
                        /\ pt'[EntryFor(PageAt(maps[h], i))] = maps[h].pages[i + 1]
      BY <1>1, <2>1 DEF PagesLead, EntryFor, PageAt
    <3>1. CASE h = owner /\ i = done
      BY <1>1, <3>1 DEF e, p
    <3>2. CASE ~(h = owner /\ i = done)
      <4>1. i \in Entered(h)
        <5>1. CASE h = owner
          <6>1. i \in 0 .. done /\ i # done BY <2>3, <3>2, <5>1
          <6>2. i \in 0 .. done - 1 BY <1>3, <6>1
          <6> QED BY <2>3, <5>1, <6>2
        <5>2. CASE h # owner BY <2>2, <5>2
        <5> QED BY <5>1, <5>2
      <4>2. i \in 0 .. PagesIn(maps[h].bytecount) - 1 BY <1>2, <4>1, EnteredWithin
      <4>3. done \in 0 .. PagesIn(maps[owner].bytecount) - 1 BY <1>1, <1>3, <1>4 DEF n
      <4>4. EntryFor(PageAt(maps[h], i)) # e
        BY <2>4, <1>2, <1>4, <3>2, <4>2, <4>3, OwnEntries DEF e, SpaceInv
      <4>5. /\ EntryFor(PageAt(maps[h], i)) \in DOMAIN pt
            /\ pt[EntryFor(PageAt(maps[h], i))] = maps[h].pages[i + 1]
        BY <2>4, <1>2, <4>1 DEF PagesLead
      <4> QED BY <1>1, <4>4, <4>5
    <3> QED BY <3>1, <3>2
  <2>5. NoStaleTranslation'
    <3> SUFFICES ASSUME NEW x \in DOMAIN pt'
                 PROVE  \E h \in Live : \E i \in Entered(h)' : x = EntryFor(PageAt(maps[h], i))
      BY <1>1, <2>1 DEF NoStaleTranslation, EntryFor, PageAt
    <3>1. CASE x = e
      <4>1. done \in 0 .. done BY <1>3
      <4>2. PICK h \in Live : h = owner BY <1>4
      <4>3. done \in Entered(h)' BY <2>3, <4>1, <4>2
      <4>4. x = EntryFor(PageAt(maps[h], done)) BY <3>1, <4>2 DEF e
      <4> QED BY <4>3, <4>4
    <3>2. CASE x # e
      <4>1. x \in DOMAIN pt BY <1>1, <3>2
      <4>2. PICK h \in Live : \E i \in Entered(h) : x = EntryFor(PageAt(maps[h], i))
        BY <1>2, <4>1 DEF NoStaleTranslation
      <4>3. Entered(h) \subseteq Entered(h)'
        <5>1. 0 .. done - 1 \subseteq 0 .. done BY <1>3
        <5>2. CASE h = owner BY <2>3, <5>1, <5>2
        <5>3. CASE h # owner BY <2>2, <5>3
        <5> QED BY <5>2, <5>3
      <4> QED BY <4>2, <4>3
    <3> QED BY <3>1, <3>2
  <2> QED BY <2>4, <2>5
<1> QED BY <1>1, <1>7, <1>8, <1>9, <1>10, <1>11 DEF MapsInv, AlwaysInv

LEMMA UnmapPageKeeps ==
  ASSUME MapsInv, UnmapPage
  PROVE  MapsInv'
<1> DEFINE n == PagesIn(maps[owner].bytecount)
           e == EntryFor(PageAt(maps[owner], done))
<1>1. /\ pc = "unmapping" /\ done < n /\ done' = done + 1
      /\ pt' = [x \in DOMAIN pt \ {e} |-> pt[x]]
      /\ UNCHANGED <<asas, outOfSpace, maps, list, pc, owner>>
  BY DEF UnmapPage, Unmap, PagesToUnmap
<1>2. TypesOfMaps /\ WellFormed /\ Progress /\ NoStaleTranslation BY DEF MapsInv, AlwaysInv
<1>3. /\ owner \in Objects /\ maps[owner] \in Fields /\ done \in Nat
      /\ maps[owner].bytecount \in Nat
  BY <1>2 DEF TypesOfMaps, Fields
<1>4. n \in Nat /\ owner \in Live
  <2>1. n \in Nat /\ (n > 0 => maps[owner].bytecount > 0) BY <1>3, WholePages
  <2> HIDE DEF n
  <2>2. n > 0 BY <1>1, <1>3, <2>1
  <2> QED BY <1>3, <2>1, <2>2 DEF Live
<1> HIDE DEF n, e
<1>5. TypesOfMaps'
  <2>1. DOMAIN pt' = DOMAIN pt \ {e} /\ \A x \in DOMAIN pt' : pt'[x] \in Nat
    BY <1>1, <1>2 DEF TypesOfMaps
  <2>2. pt' = [x \in DOMAIN pt' |-> pt'[x]] BY <1>1
  <2>3. pt' \in [DOMAIN pt' -> Nat] BY <2>1, <2>2
  <2> QED BY <1>1, <1>2, <1>3, <2>1, <2>3 DEF TypesOfMaps
<1>6. WellFormed' BY <1>1, <1>2 DEF WellFormed
<1>7. Progress' BY <1>1, <1>2, <1>3, <1>4 DEF Progress, n
<1>8. ASSUME SpaceInv PROVE SpaceInv'
  BY <1>1, <1>2, <1>8
  DEF SpaceInv, FreeApart, LiveApart, InArena, Live, LivePages, DisjointRanges
<1>9. NoStaleTranslation' /\ (SpaceInv /\ PagesLead => PagesLead')
  <2>1. Live' = Live /\ \A h \in Live : h \in Objects BY <1>1 DEF Live
  <2>2. \A h \in Live : h # owner => Entered(h)' = Entered(h) BY <1>1 DEF Entered
  <2>3. \A h \in Live : h = owner =>
          Entered(h) = done .. n - 1 /\ Entered(h)' = done + 1 .. n - 1
    BY <1>1 DEF Entered, n
  <2>4. ASSUME SpaceInv, PagesLead PROVE PagesLead'
    <3> SUFFICES ASSUME NEW h \in Live, NEW i \in Entered(h)'
                 PROVE  /\ EntryFor(PageAt(maps[h], i)) \in DOMAIN pt'
                        /\ pt'[EntryFor(PageAt(maps[h], i))] = maps[h].pages[i + 1]
      BY <1>1, <2>1 DEF PagesLead, EntryFor, PageAt
    <3>1. i \in Entered(h) /\ ~(h = owner /\ i = done)
      <4>1. CASE h = owner
        <5>1. i \in done + 1 .. n - 1 BY <2>3, <4>1
        <5>2. i \in done .. n - 1 /\ i # done BY <1>3, <1>4, <5>1
        <5> QED BY <2>3, <4>1, <5>2
      <4>2. CASE h # owner BY <2>2, <4>2
      <4> QED BY <4>1, <4>2
    <3>2. i \in 0 .. PagesIn(maps[h].bytecount) - 1 BY <1>2, <3>1, EnteredWithin
    <3>3. done \in 0 .. PagesIn(maps[owner].bytecount) - 1 BY <1>1, <1>3, <1>4 DEF n
    <3>4. EntryFor(PageAt(maps[h], i)) # e
      BY <2>4, <1>2, <1>4, <3>1, <3>2, <3>3, OwnEntries DEF e, SpaceInv
    <3>5. /\ EntryFor(PageAt(maps[h], i)) \in DOMAIN pt
          /\ pt[EntryFor(PageAt(maps[h], i))] = maps[h].pages[i + 1]
      BY <2>4, <1>2, <3>1 DEF PagesLead
    <3> QED BY <1>1, <3>4, <3>5
  <2>5. NoStaleTranslation'
    <3> SUFFICES ASSUME NEW x \in DOMAIN pt'
                 PROVE  \E h \in Live : \E i \in Entered(h)' : x = EntryFor(PageAt(maps[h], i))
      BY <1>1, <2>1 DEF NoStaleTranslation, EntryFor, PageAt
    <3>1. x \in DOMAIN pt /\ x # e BY <1>1
    <3>2. PICK h \in Live : \E i \in Entered(h) : x = EntryFor(PageAt(maps[h], i))
      BY <1>2, <3>1 DEF NoStaleTranslation
    <3>3. PICK i \in Entered(h) : x = EntryFor(PageAt(maps[h], i)) BY <3>2
    <3>4. ~(h = owner /\ i = done) BY <3>1, <3>3 DEF e
    <3>5. i \in Entered(h)'
      <4>1. CASE h = owner
        <5>1. i \in done .. n - 1 /\ i # done BY <2>3, <3>3, <3>4, <4>1
        <5>2. i \in done + 1 .. n - 1 BY <1>3, <1>4, <5>1
        <5> QED BY <2>3, <4>1, <5>2
      <4>2. CASE h # owner BY <2>2, <3>3, <4>2
      <4> QED BY <4>1, <4>2
    <3> QED BY <3>3, <3>5
  <2> QED BY <2>4, <2>5
<1> QED BY <1>1, <1>5, <1>6, <1>7, <1>8, <1>9 DEF MapsInv, AlwaysInv

-----------------------------------------------------------------------------
(* The ends of constructors and destructors, and moves.                    *)

\* A step that leaves objects and address space alone.
LEMMA SpaceStays ==
  ASSUME SpaceInv, asas' = asas, maps' = maps
  PROVE  SpaceInv'
  BY DEF SpaceInv, FreeApart, LiveApart, InArena, Live, LivePages, DisjointRanges

\* One that leaves objects and translations alone, and which pages are entered.
LEMMA TablesStay ==
  ASSUME NoStaleTranslation, pt' = pt, maps' = maps, \A h \in Live : Entered(h)' = Entered(h)
  PROVE  NoStaleTranslation' /\ (PagesLead => PagesLead')
<1>1. Live' = Live BY DEF Live
<1>2. PagesLead => PagesLead' BY <1>1 DEF PagesLead, PageAt, EntryFor
<1>3. NoStaleTranslation' BY <1>1 DEF NoStaleTranslation, PageAt, EntryFor
<1> QED BY <1>2, <1>3

LEMMA ScratchNotLive ==
  ASSUME maps[Scratch] = Empty, NEW h \in Live
  PROVE  h # Scratch
  BY DEF Live, Empty

LEMMA ConstructedKeeps ==
  ASSUME MapsInv, Constructed
  PROVE  MapsInv'
<1> DEFINE n == PagesIn(maps[owner].bytecount)
<1>1. /\ pc = "mapping" /\ done = n /\ done' = 0 /\ owner' = Scratch
      /\ pc' = IF owner = Scratch THEN "unmapping" ELSE "idle"
      /\ UNCHANGED <<asas, outOfSpace, maps, list, pt>>
  BY DEF Constructed
<1>2. TypesOfMaps /\ WellFormed /\ Progress /\ NoStaleTranslation BY DEF MapsInv, AlwaysInv
<1>3. Scratch \in Objects /\ maps[Scratch] \in Fields /\ maps[Scratch].bytecount \in Nat
  BY <1>2 DEF TypesOfMaps, Objects, Fields
<1>4. PagesIn(maps[Scratch].bytecount) \in Nat BY <1>3, WholePages
<1>5. owner # Scratch => maps[Scratch] = Empty BY <1>1, <1>2 DEF Progress
<1>6. owner = Scratch => maps[Scratch].bytecount = Page BY <1>1, <1>2 DEF Progress
<1>7. TypesOfMaps' BY <1>1, <1>2, <1>3 DEF TypesOfMaps
<1>8. WellFormed' BY <1>1, <1>2 DEF WellFormed
<1>9. Progress' BY <1>1, <1>4, <1>5, <1>6 DEF Progress
<1>10. ASSUME SpaceInv PROVE SpaceInv' BY <1>1, <1>10, SpaceStays
<1>11. ASSUME NEW h \in Live PROVE Entered(h)' = Entered(h)
  <2>1. owner # Scratch => h # Scratch BY <1>5, ScratchNotLive
  <2>2. CASE h = owner BY <1>1, <2>1, <2>2 DEF Entered
  <2>3. CASE h # owner BY <1>1, <2>1, <2>3 DEF Entered
  <2> QED BY <2>2, <2>3
<1>12. NoStaleTranslation' /\ (SpaceInv /\ PagesLead => PagesLead') BY <1>1, <1>2, <1>11, TablesStay
<1> QED BY <1>1, <1>7, <1>8, <1>9, <1>10, <1>12 DEF MapsInv, AlwaysInv

LEMMA DestroyKeeps ==
  ASSUME MapsInv, NEW h \in Handles, Destroy(h)
  PROVE  MapsInv'
<1>1. /\ pc = "idle" /\ pc' = "unmapping" /\ owner' = h /\ done' = 0
      /\ UNCHANGED <<asas, outOfSpace, maps, list, pt>>
  BY DEF Destroy
<1>2. TypesOfMaps /\ WellFormed /\ Progress /\ NoStaleTranslation BY DEF MapsInv, AlwaysInv
<1>3. /\ h \in Objects /\ h # Scratch /\ maps[h] \in Fields
      /\ PagesIn(maps[h].bytecount) \in Nat
  <2>1. h \in Objects /\ h # Scratch BY MappingsAssumption DEF Objects
  <2>2. maps[h] \in Fields /\ maps[h].bytecount \in Nat BY <1>2, <2>1 DEF TypesOfMaps, Fields
  <2> QED BY <2>1, <2>2, WholePages
<1>4. TypesOfMaps' BY <1>1, <1>2, <1>3 DEF TypesOfMaps
<1>5. WellFormed' BY <1>1, <1>2 DEF WellFormed
<1>6. Progress' BY <1>1, <1>2, <1>3 DEF Progress
<1>7. ASSUME SpaceInv PROVE SpaceInv' BY <1>1, <1>7, SpaceStays
<1>8. ASSUME NEW g \in Live PROVE Entered(g)' = Entered(g)
  <2>1. Entered(g) = 0 .. PagesIn(maps[g].bytecount) - 1 BY <1>1, <1>2, IdleEntered
  <2> QED BY <1>1, <2>1 DEF Entered
<1>9. NoStaleTranslation' /\ (SpaceInv /\ PagesLead => PagesLead') BY <1>1, <1>2, <1>8, TablesStay
<1> QED BY <1>1, <1>4, <1>5, <1>6, <1>7, <1>9 DEF MapsInv, AlwaysInv

\* Of the ranges of live objects, each is the range of the object it came
\* from, and no two came from the same one.
LEMMA MoveKeeps ==
  ASSUME MapsInv, NEW h \in Handles, NEW g \in Handles \ {h}, Move(h, g)
  PROVE  MapsInv'
<1> DEFINE From(x) == IF x = h THEN g ELSE x
<1>1. /\ pc = "idle" /\ maps[h] = Empty
      /\ maps' = [maps EXCEPT ![h] = maps[g], ![g] = Empty]
      /\ UNCHANGED <<asas, outOfSpace, pt, list, pc, owner, done>>
  BY DEF Move
<1>2. TypesOfMaps /\ WellFormed /\ Progress /\ NoStaleTranslation BY DEF MapsInv, AlwaysInv
<1>3. /\ h \in Objects /\ g \in Objects /\ h # g /\ h # Scratch /\ g # Scratch
      /\ maps[Scratch] = Empty /\ owner = Scratch
  BY <1>1, <1>2, MappingsAssumption DEF Objects, Progress
<1>4. /\ maps' \in [Objects -> Fields]
      /\ maps'[h] = maps[g] /\ maps'[g] = maps[h]
      /\ \A x \in Objects \ {h, g} : maps'[x] = maps[x]
  BY <1>1, <1>2, <1>3 DEF TypesOfMaps
<1>5. \A x \in Objects : /\ x \in Live' => From(x) \in Live
                         /\ x \in Live' => maps'[x] = maps[From(x)]
                         /\ x \in Live' => x # g
  BY <1>1, <1>3, <1>4 DEF Live, Empty
<1>6. \A x \in Live : \E y \in Live' : From(y) = x
  <2> TAKE x \in Live
  <2>1. x # h BY <1>1 DEF Live, Empty
  <2>2. CASE x = g BY <1>3, <1>4, <2>2 DEF Live
  <2>3. CASE x # g
    <3>1. x \in Live' BY <1>4, <2>1, <2>3 DEF Live
    <3> QED BY <2>1, <3>1
  <2> QED BY <2>2, <2>3
<1>7. \A x, y \in Live' : x # y => From(x) # From(y) BY <1>5 DEF Live
<1>8. \A x \in Live' : /\ x \in Objects /\ From(x) \in Live
                       /\ maps'[x] = maps[From(x)]
                       /\ LivePages(x)' = LivePages(From(x))
  BY <1>5 DEF Live, LivePages
<1>9. \A x \in Live' : Entered(x)' = Entered(From(x))
  <2> TAKE x \in Live'
  <2>1. x # Scratch
    <3>1. maps'[Scratch] = Empty BY <1>3, <1>4 DEF Objects
    <3> QED BY <3>1 DEF Live, Empty
  <2>2. Entered(From(x)) = 0 .. PagesIn(maps[From(x)].bytecount) - 1
    BY <1>1, <1>2, <1>8, IdleEntered
  <2> QED BY <1>1, <1>3, <1>8, <2>1, <2>2 DEF Entered
<1> HIDE DEF From
<1>10. TypesOfMaps' BY <1>1, <1>2, <1>4 DEF TypesOfMaps
<1>11. WellFormed'
  <2>1. \A x \in Objects : \E y \in Objects : maps'[x] = maps[y] BY <1>3, <1>4
  <2>2. \A x \in Objects : /\ maps'[x].virtaddr % Page = 0
                           /\ Len(maps'[x].pages) = PagesIn(maps'[x].bytecount)
    <3> TAKE x \in Objects
    <3>1. PICK y \in Objects : maps'[x] = maps[y] BY <2>1
    <3> QED BY <1>2, <3>1 DEF WellFormed
  <2>3. \A i \in DOMAIN asas' : asas'[i].start % Page = 0 BY <1>1, <1>2 DEF WellFormed
  <2> QED BY <2>2, <2>3 DEF WellFormed
<1>12. Progress'
  <2>1. maps'[Scratch] = maps[Scratch] BY <1>3, <1>4 DEF Objects
  <2> QED BY <1>1, <1>2, <1>3, <2>1 DEF Progress
<1>13. ASSUME SpaceInv PROVE SpaceInv'
  <2>1. FreeApart'
    <3>1. \A i \in DOMAIN asas, x \in Live' :
            DisjointRanges(asas[i].start, asas[i].length, maps'[x].virtaddr, LivePages(x)')
      BY <1>13, <1>2, <1>8 DEF SpaceInv, FreeApart
    <3>2. \A i, j \in DOMAIN asas : i # j =>
            DisjointRanges(asas[i].start, asas[i].length, asas[j].start, asas[j].length)
      BY <1>13, <1>2 DEF SpaceInv, FreeApart
    <3> QED BY <1>1, <3>1, <3>2 DEF FreeApart, DisjointRanges
  <2>2. LiveApart'
    <3>1. \A x, y \in Live' : x # y =>
            DisjointRanges(maps'[x].virtaddr, LivePages(x)', maps'[y].virtaddr, LivePages(y)')
      BY <1>13, <1>2, <1>7, <1>8 DEF SpaceInv, LiveApart
    <3> QED BY <3>1 DEF LiveApart, DisjointRanges
  <2>3. InArena' BY <1>13, <1>1, <1>2, <1>8 DEF SpaceInv, InArena
  <2> QED BY <2>1, <2>2, <2>3 DEF SpaceInv
<1>14. NoStaleTranslation' /\ (SpaceInv /\ PagesLead => PagesLead')
  <2>1. ASSUME SpaceInv, PagesLead PROVE PagesLead'
    <3> SUFFICES ASSUME NEW x \in Live', NEW i \in Entered(x)'
                 PROVE  /\ EntryFor(PageAt(maps'[x], i)) \in DOMAIN pt
                        /\ pt[EntryFor(PageAt(maps'[x], i))] = maps'[x].pages[i + 1]
      BY <1>1 DEF PagesLead, EntryFor, PageAt
    <3>1. From(x) \in Live /\ i \in Entered(From(x)) /\ maps'[x] = maps[From(x)]
      BY <1>8, <1>9
    <3> QED BY <2>1, <1>2, <3>1 DEF PagesLead
  <2>2. NoStaleTranslation'
    <3> SUFFICES ASSUME NEW e \in DOMAIN pt
                 PROVE  \E x \in Live' : \E i \in Entered(x)' : e = EntryFor(PageAt(maps'[x], i))
      BY <1>1 DEF NoStaleTranslation, EntryFor, PageAt
    <3>1. PICK x \in Live : \E i \in Entered(x) : e = EntryFor(PageAt(maps[x], i))
      BY <1>2 DEF NoStaleTranslation
    <3>2. PICK y \in Live' : From(y) = x BY <1>6
    <3>3. Entered(y)' = Entered(x) /\ maps'[y] = maps[x] BY <1>8, <1>9, <3>2
    <3> QED BY <3>1, <3>3
  <2> QED BY <2>1, <2>2
<1> QED BY <1>1, <1>10, <1>11, <1>12, <1>13, <1>14 DEF MapsInv, AlwaysInv

\* A destructor returns less than the pages it unmapped cover, when the size
\* is no multiple of a page; what it returns is apart from all else.
LEMMA DestroyedKeeps ==
  ASSUME MapsInv, Destroyed
  PROVE  MapsInv'
<1> DEFINE m == maps[owner]
           n == PagesIn(m.bytecount)
           r == Returned(m)
<1>1. /\ pc = "unmapping" /\ done = n
      /\ IF m.bytecount > 0 THEN asas' = Append(asas, r) ELSE asas' = asas
      /\ list' = IF owner = Scratch THEN Append(list, m.pages[1]) ELSE list
      /\ maps' = [maps EXCEPT ![owner] = Empty]
      /\ pc' = "idle" /\ owner' = Scratch /\ done' = 0 /\ pt' = pt
      /\ outOfSpace' = outOfSpace
  BY DEF Destroyed, PagesToUnmap, AsaFree
<1>2. TypesOfMaps /\ WellFormed /\ Progress /\ NoStaleTranslation BY DEF MapsInv, AlwaysInv
<1>3. /\ owner \in Objects /\ Scratch \in Objects /\ m \in Fields
      /\ m.bytecount \in Nat /\ m.virtaddr \in Nat /\ m.pages \in Seq(Nat)
      /\ m.virtaddr % Page = 0 /\ Len(m.pages) = n
  BY <1>2 DEF TypesOfMaps, Fields, WellFormed, Objects
<1>4. /\ n \in Nat /\ Page * n = RoundUpToPage(m.bytecount)
      /\ m.bytecount <= Page * n /\ Page * n \in Nat
  BY <1>3, WholePages
<1>5. r \in Ranges /\ r.start = m.virtaddr /\ r.length = m.bytecount
  BY <1>3 DEF Returned, Ranges
<1>6. owner = Scratch => m.pages[1] \in Nat
  <2> SUFFICES ASSUME owner = Scratch PROVE m.pages[1] \in Nat OBVIOUS
  <2>1. m.bytecount = Page BY <1>1, <1>2 DEF Progress
  <2>2. n = 1 BY <2>1 DEF PagesIn, Page
  <2>3. 1 \in 1 .. Len(m.pages) BY <1>3, <2>2
  <2> QED BY <1>3, <2>3, ElementOfSeq
<1>7. owner # Scratch => maps[Scratch] = Empty BY <1>2 DEF Progress
<1>8. Empty \in Fields /\ Empty.bytecount = 0 /\ Empty.virtaddr = 0 /\ Empty.pages = <<>>
  BY EmptySeq DEF Empty, Fields
<1> HIDE DEF m, n, r
<1>9. /\ maps' \in [Objects -> Fields] /\ maps'[owner] = Empty
      /\ \A x \in Objects \ {owner} : maps'[x] = maps[x]
  BY <1>1, <1>2, <1>3, <1>8 DEF TypesOfMaps
<1>10. maps'[Scratch] = Empty BY <1>3, <1>7, <1>9
<1>11. asas \in Seq(Ranges) /\ list \in Seq(Nat) BY <1>2 DEF TypesOfMaps
<1>12. /\ asas' \in Seq(Ranges)
       /\ \A i \in DOMAIN asas' : \/ i \in DOMAIN asas /\ asas'[i] = asas[i]
                                  \/ i = Len(asas) + 1 /\ asas'[i] = r /\ m.bytecount > 0
  <2>1. CASE m.bytecount > 0
    <3>1. asas' = Append(asas, r) BY <1>1, <2>1
    <3> QED BY <1>5, <1>11, <2>1, <3>1, Appended
  <2>2. CASE ~(m.bytecount > 0) BY <1>1, <1>11, <2>2
  <2> QED BY <2>1, <2>2
<1>13. TypesOfMaps'
  <2>1. list' \in Seq(Nat)
    <3>1. CASE owner = Scratch
      <4>1. list' = Append(list, m.pages[1]) BY <1>1, <3>1
      <4> QED BY <1>6, <1>11, <3>1, <4>1, Appended
    <3>2. CASE owner # Scratch BY <1>1, <1>11, <3>2
    <3> QED BY <3>1, <3>2
  <2> QED BY <1>1, <1>2, <1>3, <1>9, <1>12, <2>1 DEF TypesOfMaps
<1>14. WellFormed'
  <2>1. ASSUME NEW i \in DOMAIN asas' PROVE asas'[i].start % Page = 0
    BY <1>2, <1>3, <1>5, <1>12 DEF WellFormed
  <2>2. ASSUME NEW x \in Objects
        PROVE  /\ maps'[x].virtaddr % Page = 0
               /\ Len(maps'[x].pages) = PagesIn(maps'[x].bytecount)
    <3>1. CASE x = owner
      <4>1. Len(<<>>) = 0 /\ PagesIn(0) = 0 /\ 0 % Page = 0 BY DEF PagesIn, Page
      <4>2. maps'[x].virtaddr = 0 /\ maps'[x].bytecount = 0 /\ maps'[x].pages = <<>>
        BY <1>8, <1>9, <3>1
      <4> QED BY <4>1, <4>2
    <3>2. CASE x # owner BY <1>2, <1>9, <3>2 DEF WellFormed
    <3> QED BY <3>1, <3>2
  <2> QED BY <2>1, <2>2 DEF WellFormed
<1>15. Progress'
  <2>1. PagesIn(maps'[Scratch].bytecount) = 0 BY <1>8, <1>10 DEF PagesIn, Page
  <2> QED BY <1>1, <1>10, <2>1 DEF Progress
<1>16. /\ \A x \in Live' : /\ x \in Live /\ x \in Objects /\ x # owner
                           /\ maps'[x] = maps[x] /\ LivePages(x)' = LivePages(x)
       /\ \A x \in Live : x = owner \/ x \in Live'
  BY <1>8, <1>9 DEF Live, LivePages
<1>17. \A x \in Live : maps[x].virtaddr \in Nat /\ LivePages(x) \in Nat
  <2> TAKE x \in Live
  <2>1. maps[x] \in Fields BY <1>2 DEF TypesOfMaps, Live
  <2>2. maps[x].virtaddr \in Nat /\ maps[x].bytecount \in Nat BY <2>1 DEF Fields
  <2> QED BY <2>2, WholePages DEF LivePages
<1>18. m.bytecount > 0 =>
         /\ owner \in Live /\ maps[owner].virtaddr = r.start
         /\ LivePages(owner) = Page * n
  BY <1>3, <1>5 DEF Live, LivePages, m, n
<1>19. r.start \in Nat /\ r.length \in Nat /\ r.length <= Page * n BY <1>3, <1>4, <1>5
<1>20. \A i \in DOMAIN asas : asas[i].start \in Nat /\ asas[i].length \in Nat
  <2> TAKE i \in DOMAIN asas
  <2>1. asas[i] \in Ranges BY <1>11, ElementOfDomain
  <2> QED BY <2>1 DEF Ranges
<1>21. ASSUME SpaceInv PROVE SpaceInv'
  <2>1. ASSUME m.bytecount > 0, NEW i \in DOMAIN asas
        PROVE  /\ DisjointRanges(asas[i].start, asas[i].length, r.start, r.length)
               /\ DisjointRanges(r.start, r.length, asas[i].start, asas[i].length)
    <3>1. DisjointRanges(asas[i].start, asas[i].length, r.start, Page * n)
      BY <1>21, <1>2, <1>18, <2>1 DEF SpaceInv, FreeApart
    <3> QED BY <1>4, <1>19, <1>20, <3>1 DEF DisjointRanges
  <2>2. ASSUME m.bytecount > 0, NEW x \in Live, x # owner
        PROVE  DisjointRanges(r.start, r.length, maps[x].virtaddr, LivePages(x))
    <3>1. DisjointRanges(r.start, Page * n, maps[x].virtaddr, LivePages(x))
      BY <1>21, <1>2, <1>18, <2>2 DEF SpaceInv, LiveApart
    <3> QED BY <1>4, <1>17, <1>19, <3>1 DEF DisjointRanges
  <2>3. ASSUME NEW i \in DOMAIN asas', NEW j \in DOMAIN asas', i # j
        PROVE  DisjointRanges(asas'[i].start, asas'[i].length, asas'[j].start, asas'[j].length)
    <3>1. CASE /\ i \in DOMAIN asas /\ asas'[i] = asas[i]
               /\ j \in DOMAIN asas /\ asas'[j] = asas[j]
      BY <1>21, <1>2, <2>3, <3>1 DEF SpaceInv, FreeApart
    <3>2. CASE /\ i \in DOMAIN asas /\ asas'[i] = asas[i]
               /\ j = Len(asas) + 1 /\ asas'[j] = r /\ m.bytecount > 0
      BY <2>1, <3>2
    <3>3. CASE /\ i = Len(asas) + 1 /\ asas'[i] = r /\ m.bytecount > 0
               /\ j \in DOMAIN asas /\ asas'[j] = asas[j]
      BY <2>1, <3>3
    <3> QED BY <1>12, <2>3, <3>1, <3>2, <3>3
  <2>4. ASSUME NEW i \in DOMAIN asas', NEW x \in Live'
        PROVE  DisjointRanges(asas'[i].start, asas'[i].length, maps'[x].virtaddr, LivePages(x)')
    <3>1. x \in Live /\ x # owner /\ maps'[x] = maps[x] /\ LivePages(x)' = LivePages(x)
      BY <1>16
    <3>2. CASE i \in DOMAIN asas /\ asas'[i] = asas[i]
      BY <1>21, <1>2, <3>1, <3>2 DEF SpaceInv, FreeApart
    <3>3. CASE asas'[i] = r /\ m.bytecount > 0 BY <2>2, <3>1, <3>3
    <3> QED BY <1>12, <3>2, <3>3
  <2>5. FreeApart' BY <2>3, <2>4 DEF FreeApart, DisjointRanges
  <2>6. LiveApart'
    <3>1. \A x, y \in Live' : x # y =>
            DisjointRanges(maps'[x].virtaddr, LivePages(x)', maps'[y].virtaddr, LivePages(y)')
      BY <1>21, <1>2, <1>16 DEF SpaceInv, LiveApart
    <3> QED BY <3>1 DEF LiveApart, DisjointRanges
  <2>7. InArena'
    <3>1. ASSUME NEW i \in DOMAIN asas'
          PROVE  /\ AsaStart <= asas'[i].start
                 /\ asas'[i].start + asas'[i].length <= AsaStart + AsaLength
      <4>1. CASE i \in DOMAIN asas /\ asas'[i] = asas[i]
        BY <1>21, <1>2, <4>1 DEF SpaceInv, InArena
      <4>2. CASE asas'[i] = r /\ m.bytecount > 0
        <5>1. /\ AsaStart <= r.start /\ r.start + Page * n <= AsaStart + AsaLength
          BY <1>21, <1>2, <1>18, <4>2 DEF SpaceInv, InArena
        <5> QED BY <1>4, <1>19, <4>2, <5>1, MappingsAssumption
      <4> QED BY <1>12, <4>1, <4>2
    <3>2. \A x \in Live' : /\ AsaStart <= maps'[x].virtaddr
                           /\ maps'[x].virtaddr + LivePages(x)' <= AsaStart + AsaLength
      BY <1>21, <1>2, <1>16 DEF SpaceInv, InArena
    <3> QED BY <3>1, <3>2 DEF InArena
  <2> QED BY <2>5, <2>6, <2>7 DEF SpaceInv
<1>22. NoStaleTranslation' /\ (SpaceInv /\ PagesLead => PagesLead')
  <2>1. \A x \in Live' : Entered(x)' = Entered(x)
    <3> TAKE x \in Live'
    <3>1. x # Scratch BY <1>8, <1>10 DEF Live
    <3> QED BY <1>1, <1>16, <3>1 DEF Entered
  <2>2. \A x \in Live : x = owner => Entered(x) = {}
    <3>1. n .. n - 1 = {} BY <1>4
    <3> QED BY <1>1, <3>1 DEF Entered, m, n
  <2>3. ASSUME SpaceInv, PagesLead PROVE PagesLead'
    <3> SUFFICES ASSUME NEW x \in Live', NEW i \in Entered(x)'
                 PROVE  /\ EntryFor(PageAt(maps'[x], i)) \in DOMAIN pt
                        /\ pt[EntryFor(PageAt(maps'[x], i))] = maps'[x].pages[i + 1]
      BY <1>1 DEF PagesLead, EntryFor, PageAt
    <3> QED BY <2>3, <1>2, <1>16, <2>1 DEF PagesLead
  <2>4. NoStaleTranslation'
    <3> SUFFICES ASSUME NEW e \in DOMAIN pt
                 PROVE  \E x \in Live' : \E i \in Entered(x)' : e = EntryFor(PageAt(maps'[x], i))
      BY <1>1 DEF NoStaleTranslation, EntryFor, PageAt
    <3>1. PICK x \in Live : \E i \in Entered(x) : e = EntryFor(PageAt(maps[x], i))
      BY <1>2 DEF NoStaleTranslation
    <3>2. x \in Live' BY <1>16, <2>2, <3>1
    <3> QED BY <1>16, <2>1, <3>1, <3>2
  <2> QED BY <2>3, <2>4
<1> QED BY <1>1, <1>13, <1>14, <1>15, <1>21, <1>22 DEF MapsInv, AlwaysInv

-----------------------------------------------------------------------------
(* Physical pages.                                                         *)

LEMMA NextPageNat ==
  ASSUME PagesInv, ~NoPages
  PROVE  NextPage \in Nat
<1> DEFINE c == regions[1].pagecount - 1
<1>1. regions \in Regions /\ regions # <<>> BY DEF PagesInv, TypesOfPages, NoPages
<1>2. 1 \in DOMAIN regions /\ Head(regions) = regions[1] BY <1>1 DEF Regions
<1>3. regions[1].address \in Nat /\ c \in Nat /\ c <= regions[1].pagecount
  BY <1>1, <1>2, RegionTypes
<1>4. CountAfterGet = c BY <1>2, <1>3, RegionsEndInWord DEF CountAfterGet
<1>5. NextPage = regions[1].address + Page * c
  BY <1>2, <1>3, <1>4, RegionsEndInWord DEF NextPage
<1> QED BY <1>3, <1>5 DEF Page

LEMMA RangeStartNat ==
  ASSUME PagesInv, NEW n \in Nat, NEW i \in DOMAIN regions, GetRange(i, n)
  PROVE  RangeStart(i, n) \in Nat
<1> DEFINE c == regions[i].pagecount - n
<1>1. regions \in Regions /\ regions[i].pagecount > n
  BY DEF PagesInv, TypesOfPages, GetRange, FirstWithRoom, HasRoom
<1>2. regions[i].address \in Nat /\ regions[i].pagecount \in Nat BY <1>1, RegionTypes
<1>3. c \in Nat /\ c <= regions[i].pagecount BY <1>1, <1>2
<1>4. CountAfter(i, n) = c BY <1>3, RegionsEndInWord DEF CountAfter
<1>5. RangeStart(i, n) = regions[i].address + Page * c
  BY <1>3, <1>4, RegionsEndInWord DEF RangeStart
<1> QED BY <1>2, <1>3, <1>5 DEF Page

LEMMA PagesStay ==
  ASSUME PagesInv, UNCHANGED pageVars
  PROVE  PagesInv'
  BY DEF pageVars, PagesInv, TypesOfPages, AllRegistered, InRegistered, InPiece,
         RegionsApart, NoPageTwice, RegionBytes, DisjointRanges

-----------------------------------------------------------------------------
(* The invariant.                                                          *)

LEMMA InitKeeps ==
  Init => MappingsInv
<1> SUFFICES ASSUME Init PROVE MappingsInv OBVIOUS
<1> DEFINE r == [start |-> AsaStart, length |-> AsaLength]
<1>1. PagesInv
  BY MemoryMapAssumption
  DEF Init, InitPages, PagesInv, TypesOfPages, AllRegistered, RegionsApart, NoPageTwice, Regions
<1>2. /\ asas = <<r>> /\ pt = [v \in {} |-> 0] /\ list = <<>>
      /\ maps = [h \in Objects |-> Empty] /\ pc = "idle" /\ owner = Scratch /\ done = 0
      /\ outOfSpace = FALSE
  BY DEF Init
<1>3. r \in Ranges /\ r.start = AsaStart /\ r.length = AsaLength
  BY MappingsAssumption DEF Ranges
<1>4. Empty \in Fields /\ Empty.bytecount = 0 /\ Empty.virtaddr = 0 /\ Empty.pages = <<>>
  BY EmptySeq DEF Empty, Fields
<1>5. \A h \in Objects : maps[h] = Empty BY <1>2
<1>6. Scratch \in Objects BY DEF Objects
<1> HIDE DEF r
<1>7. asas \in Seq(Ranges) /\ DOMAIN asas = {1} /\ asas[1] = r BY <1>2, <1>3
<1>8. pt \in [DOMAIN pt -> Nat] /\ DOMAIN pt = {} BY <1>2
<1>9. list \in Seq(Nat) BY <1>2, EmptySeq
<1>10. TypesOfMaps BY <1>2, <1>4, <1>6, <1>7, <1>8, <1>9 DEF TypesOfMaps
<1>11. PagesIn(0) = 0 /\ 0 % Page = 0 /\ Len(<<>>) = 0 BY DEF PagesIn, Page
<1>12. WellFormed BY <1>3, <1>4, <1>5, <1>7, <1>11, MappingsAssumption DEF WellFormed
<1>13. Progress BY <1>2, <1>4, <1>5, <1>6, <1>11 DEF Progress
<1>14. Live = {} BY <1>4, <1>5 DEF Live
<1>15. SpaceInv
  BY <1>3, <1>7, <1>14, MappingsAssumption DEF SpaceInv, FreeApart, LiveApart, InArena
<1>16. NoStaleTranslation /\ PagesLead BY <1>8, <1>14 DEF PagesLead, NoStaleTranslation
<1> QED
  BY <1>1, <1>10, <1>12, <1>13, <1>15, <1>16 DEF MappingsInv, MapsInv, AlwaysInv

LEMMA NextKeeps ==
  ASSUME MappingsInv, [Next]_vars
  PROVE  MappingsInv'
<1>1. PagesInv /\ MapsInv BY DEF MappingsInv
<1>2. list \in Seq(Nat) BY <1>1 DEF MapsInv, AlwaysInv, TypesOfMaps
<1>3. \A h \in Handles : h \in Objects /\ h # Scratch BY MappingsAssumption DEF Objects
<1>4. Scratch \in Objects BY DEF Objects
<1>5. CASE Register
  <2>1. PagesInv' BY <1>1, <1>5, RegisterFirstKeeps, RegisterNextKeeps DEF Register
  <2>2. MapsInv' BY <1>1, <1>2, <1>5, StandStill DEF Register
  <2> QED BY <2>1, <2>2 DEF MappingsInv
<1>6. CASE TakePage
  <2>1. CASE NoPages
    <3>1. Fault /\ pc = "idle" BY <1>6, <2>1 DEF TakePage
    <3>2. PagesInv' BY <1>1, <3>1, PagesStay DEF Fault
    <3>3. MapsInv' BY <1>1, <1>2, <3>1, StandStill DEF Fault
    <3> QED BY <3>2, <3>3 DEF MappingsInv
  <2>2. CASE ~NoPages
    <3>1. /\ GetPage /\ list' = Append(list, NextPage)
          /\ UNCHANGED <<asas, outOfSpace, tables, pt, maps, pc, owner, done>>
      BY <1>6, <2>2 DEF TakePage
    <3>2. NextPage \in Nat BY <1>1, <2>2, NextPageNat
    <3>3. list' \in Seq(Nat) BY <1>2, <3>1, <3>2
    <3>4. PagesInv' BY <1>1, <3>1, GetPageKeeps
    <3>5. MapsInv' BY <1>1, <3>1, <3>3, StandStill
    <3> QED BY <3>4, <3>5 DEF MappingsInv
  <2> QED BY <2>1, <2>2
<1>7. CASE GetZeroed
  <2>1. CASE NoPages
    <3>1. Fault /\ pc = "idle" BY <1>7, <2>1 DEF GetZeroed
    <3>2. PagesInv' BY <1>1, <3>1, PagesStay DEF Fault
    <3>3. MapsInv' BY <1>1, <1>2, <3>1, StandStill DEF Fault
    <3> QED BY <3>2, <3>3 DEF MappingsInv
  <2>2. CASE ~NoPages
    <3>1. GetPage /\ ConstructRange(Scratch, NextPage, Page) /\ list' = list
      BY <1>7, <2>2 DEF GetZeroed
    <3>2. NextPage \in Nat /\ Page \in Nat BY <1>1, <2>2, NextPageNat DEF Page
    <3>3. PagesInv' BY <1>1, <3>1, GetPageKeeps
    <3>4. MapsInv' BY <1>1, <1>2, <1>4, <3>1, <3>2, ConstructRangeKeeps
    <3> QED BY <3>3, <3>4 DEF MappingsInv
  <2> QED BY <2>1, <2>2
<1>8. ASSUME NEW h \in Handles, NEW r \in Requests, MapRange(h, r)
      PROVE  MappingsInv'
  <2>1. r.address \in Nat /\ r.bytes \in Nat BY MappingsAssumption
  <2>2. ConstructRange(h, r.address, r.bytes) /\ UNCHANGED <<pageVars, list>>
    BY <1>8 DEF MapRange
  <2>3. PagesInv' BY <1>1, <2>2, PagesStay
  <2>4. MapsInv' BY <1>1, <1>2, <1>3, <2>1, <2>2, ConstructRangeKeeps
  <2> QED BY <2>3, <2>4 DEF MappingsInv
<1>9. ASSUME NEW h \in Handles, NEW b \in Bars, MapBar(h, b)
      PROVE  MappingsInv'
  <2>1. PagesInv' BY <1>1, <1>9, PagesStay DEF MapBar
  <2>2. MapsInv' BY <1>1, <1>9, MapBarKeeps
  <2> QED BY <2>1, <2>2 DEF MappingsInv
<1>10. ASSUME NEW h \in Handles, MapList(h)
       PROVE  MappingsInv'
  <2>1. PagesInv' BY <1>1, <1>10, PagesStay DEF MapList
  <2>2. MapsInv' BY <1>1, <1>10, MapListKeeps
  <2> QED BY <2>1, <2>2 DEF MappingsInv
<1>11. ASSUME NEW h \in Handles, MapOwnPage(h)
       PROVE  MappingsInv'
  <2>1. /\ list # <<>> /\ ConstructRange(h, Head(list), Page) /\ list' = Tail(list)
        /\ UNCHANGED pageVars
    BY <1>11 DEF MapOwnPage
  <2>2. Head(list) \in Nat /\ list' \in Seq(Nat) BY <1>2, <2>1
  <2>3. Page \in Nat BY DEF Page
  <2>4. PagesInv' BY <1>1, <2>1, PagesStay
  <2>5. MapsInv' BY <1>1, <1>3, <2>1, <2>2, <2>3, ConstructRangeKeeps
  <2> QED BY <2>4, <2>5 DEF MappingsInv
<1>12. ASSUME NEW h \in Handles, NEW n \in RangeCounts, IoMemory(h, n)
       PROVE  MappingsInv'
  <2>1. n \in Nat /\ Page * n \in Nat BY MappingsAssumption DEF Page
  <2>2. list' = list BY <1>12 DEF IoMemory
  <2>3. CASE ConstructRange(h, 0, Page * n) /\ UNCHANGED pageVars
    <3>1. PagesInv' BY <1>1, <2>3, PagesStay
    <3>2. MapsInv' BY <1>1, <1>2, <1>3, <2>1, <2>2, <2>3, ConstructRangeKeeps
    <3> QED BY <3>1, <3>2 DEF MappingsInv
  <2>4. ASSUME NEW i \in DOMAIN regions, GetRange(i, n),
               ConstructRange(h, RangeStart(i, n), Page * n)
        PROVE  MappingsInv'
    <3>1. RangeStart(i, n) \in Nat BY <1>1, <2>1, <2>4, RangeStartNat
    <3>2. PagesInv' BY <1>1, <2>1, <2>4, GetRangeKeeps
    <3>3. MapsInv' BY <1>1, <1>2, <1>3, <2>1, <2>2, <2>4, <3>1, ConstructRangeKeeps
    <3> QED BY <3>2, <3>3 DEF MappingsInv
  <2> QED BY <1>12, <2>3, <2>4 DEF IoMemory
<1>13. ASSUME NEW h \in Handles, Destroy(h)
       PROVE  MappingsInv'
  <2>1. PagesInv' BY <1>1, <1>13, PagesStay DEF Destroy
  <2>2. MapsInv' BY <1>1, <1>13, DestroyKeeps
  <2> QED BY <2>1, <2>2 DEF MappingsInv
<1>14. ASSUME NEW h \in Handles, NEW g \in Handles \ {h}, Move(h, g)
       PROVE  MappingsInv'
  <2>1. PagesInv' BY <1>1, <1>14, PagesStay DEF Move
  <2>2. MapsInv' BY <1>1, <1>14, MoveKeeps
  <2> QED BY <2>1, <2>2 DEF MappingsInv
<1>15. CASE AddTable
  <2>1. pc = "mapping" BY <1>15 DEF AddTable, Mapping
  <2>2. CASE NoPages
    <3>1. Fault BY <1>15, <2>2 DEF AddTable
    <3>2. PagesInv' BY <1>1, <3>1, PagesStay DEF Fault
    <3>3. MapsInv' BY <1>1, <1>2, <2>1, <3>1, StandStill DEF Fault
    <3> QED BY <3>2, <3>3 DEF MappingsInv
  <2>3. CASE ~NoPages
    <3>1. GetPage /\ UNCHANGED <<asas, outOfSpace, pt, maps, list, pc, owner, done>>
      BY <1>15, <2>3 DEF AddTable
    <3>2. PagesInv' BY <1>1, <3>1, GetPageKeeps
    <3>3. MapsInv' BY <1>1, <1>2, <3>1, StandStill
    <3> QED BY <3>2, <3>3 DEF MappingsInv
  <2> QED BY <2>2, <2>3
<1>16. CASE MapPage
  <2>1. PagesInv' BY <1>1, <1>16, PagesStay DEF MapPage
  <2>2. MapsInv' BY <1>1, <1>16, MapPageKeeps
  <2> QED BY <2>1, <2>2 DEF MappingsInv
<1>17. CASE Constructed
  <2>1. PagesInv' BY <1>1, <1>17, PagesStay DEF Constructed
  <2>2. MapsInv' BY <1>1, <1>17, ConstructedKeeps
  <2> QED BY <2>1, <2>2 DEF MappingsInv
<1>18. CASE UnmapPage
  <2>1. PagesInv' BY <1>1, <1>18, PagesStay DEF UnmapPage
  <2>2. MapsInv' BY <1>1, <1>18, UnmapPageKeeps
  <2> QED BY <2>1, <2>2 DEF MappingsInv
<1>19. CASE Destroyed
  <2>1. PagesInv' BY <1>1, <1>19, PagesStay DEF Destroyed
  <2>2. MapsInv' BY <1>1, <1>19, DestroyedKeeps
  <2> QED BY <2>1, <2>2 DEF MappingsInv
<1>20. CASE UNCHANGED vars
  <2>1. UNCHANGED pageVars BY <1>20 DEF vars, pageVars
  <2>2. PagesInv' BY <1>1, <2>1, PagesStay
  <2>3. UNCHANGED <<asas, outOfSpace, pt, maps, owner, done>> /\ list' = list /\ pc' = pc
    BY <1>20 DEF vars
  <2>4. MapsInv' BY <1>1, <1>2, <2>3, StandStill
  <2> QED BY <2>2, <2>4 DEF MappingsInv
<1> QED
  BY <1>5, <1>6, <1>7, <1>8, <1>9, <1>10, <1>11, <1>12, <1>13, <1>14, <1>15, <1>16,
     <1>17, <1>18, <1>19, <1>20
  DEF Next

-----------------------------------------------------------------------------
(* The theorems.                                                           *)

\* The invariant of address space, mapping objects and page tables, for every
\* arena, all requests, moves and destructions, and constructors that fault.
THEOREM MappingsInvariant ==
  Spec => []MappingsInv
<1>1. Init => MappingsInv BY InitKeeps
<1>2. MappingsInv /\ [Next]_vars => MappingsInv' BY NextKeeps
<1> QED BY <1>1, <1>2, PTL DEF Spec

\* No physical page is handed out twice, whatever takes pages: clients, page
\* tables that a constructor adds, IoMemory and freepage_get_zeroed.
THEOREM MappedPagesOnce ==
  Spec => []NoPageTwice
<1>1. MappingsInv => NoPageTwice BY DEF MappingsInv, PagesInv
<1> QED BY <1>1, MappingsInvariant, PTL

\* The page tables that constructors add, and every page a mapping takes, come
\* from memory that boot found usable, and free regions stay disjoint.
THEOREM MappedPagesAreUsable ==
  Spec => []OnlyUsableMemory
<1>1. MappingsInv => OnlyUsableMemory BY Usable DEF MappingsInv
<1> QED BY <1>1, MappingsInvariant, PTL

\* Free address space never overlaps itself nor the pages of a live object,
\* although destructors return sizes that are not whole pages (asa.cpp,
\* map.cpp), until asa_alloc first finds no range that fits.
THEOREM SpaceApart ==
  Spec => []AddressSpaceApart
<1>1. MappingsInv => AddressSpaceApart
  BY DEF MappingsInv, MapsInv, SpaceInv, AddressSpaceApart
<1> QED BY <1>1, MappingsInvariant, PTL

\* Every page a live object has mapped leads to the physical page it was asked
\* to map there, whatever was mapped, moved and destroyed since, until
\* asa_alloc first finds no range that fits.
THEOREM PagesTranslate ==
  Spec => []Translates
<1>1. MappingsInv => Translates BY DEF MappingsInv, MapsInv, Translates
<1> QED BY <1>1, MappingsInvariant, PTL

\* No destructor leaves a translation behind, for any size and alignment, nor
\* that of an object that was mapped at 0 for lack of space.
THEOREM NothingStaysMapped ==
  Spec => []NoStaleTranslation
<1>1. MappingsInv => NoStaleTranslation BY DEF MappingsInv, MapsInv, AlwaysInv
<1> QED BY <1>1, MappingsInvariant, PTL

LEMMA Quotient ==
  ASSUME NEW v \in Nat, NEW k \in Nat \ {0}
  PROVE  v \div k \in Nat
OBVIOUS

LEMMA TableTyped ==
  ASSUME NEW level \in 1..3, NEW v \in Nat
  PROVE  TableFor(level, v) \in (1..3) \X Nat
<1>1. \A m, n \in Nat \ {0} : m * n \in Nat \ {0} OBVIOUS
<1>2. Page \in Nat \ {0} /\ Fanout \in Nat \ {0} BY MappingsAssumption DEF Page
<1>3. /\ Page * Fanout \in Nat \ {0} /\ Page * Fanout * Fanout \in Nat \ {0}
      /\ Page * Fanout * Fanout * Fanout \in Nat \ {0}
  <2>1. Page * Fanout \in Nat \ {0} BY <1>1, <1>2
  <2>2. Page * Fanout * Fanout \in Nat \ {0} BY <1>1, <1>2, <2>1
  <2> QED BY <1>1, <1>2, <2>1, <2>2
<1>4. Span[level] \in Nat \ {0}
  <2>1. level = 1 \/ level = 2 \/ level = 3 OBVIOUS
  <2>2. /\ Span[1] = Page * Fanout /\ Span[2] = Page * Fanout * Fanout
        /\ Span[3] = Page * Fanout * Fanout * Fanout
    BY DEF Span
  <2> QED BY <1>3, <2>1, <2>2
<1>5. v \div Span[level] \in Nat BY <1>4, Quotient
<1> QED BY <1>5 DEF TableFor

\* The state is what the code's types allow, and page tables are added only for
\* addresses there are, whatever was mapped before.
THEOREM MappingsTypeOK ==
  Spec => []TypeOK
<1> DEFINE Typed == tables \subseteq (1..3) \X Nat
<1>1. Init => Typed BY MappingsAssumption DEF Init
<1>2. MappingsInv /\ Typed /\ [Next]_vars => Typed'
  <2> SUFFICES ASSUME MappingsInv, Typed, [Next]_vars PROVE Typed' OBVIOUS
  <2>1. CASE AddTable
    <3>1. maps[owner] \in Fields /\ done \in Nat BY DEF MappingsInv, MapsInv, AlwaysInv, TypesOfMaps
    <3>2. NextToMap \in Nat BY <3>1 DEF NextToMap, PageAt, Fields, Page
    <3>3. tables' = tables \/ \E level \in 1..3 : tables' = tables \cup {TableFor(level, NextToMap)}
      BY <2>1 DEF AddTable, Fault
    <3> QED BY <3>2, <3>3, TableTyped
  <2>2. CASE ~AddTable
    <3>1. \A h, m, space : Construct(h, m, space) => tables' = tables BY DEF Construct
    <3>2. tables' = tables
      BY <2>2, <3>1
      DEF Next, vars, Register, TakePage, MapPage, Constructed, UnmapPage, Fault,
          GetZeroed, MapRange, MapOwnPage, IoMemory, MapBar, MapList, Destroy, Move,
          Destroyed, ConstructRange
    <3> QED BY <3>2
  <2> QED BY <2>1, <2>2
<1>3. MappingsInv /\ Typed => TypeOK
  <2> SUFFICES ASSUME MappingsInv, Typed PROVE TypeOK OBVIOUS
  <2>1. TypesOfPages /\ TypesOfMaps BY DEF MappingsInv, MapsInv, AlwaysInv, PagesInv
  <2>2. regions \in Seq([address : Nat, pagecount : Nat])
    <3> DEFINE S == [address : Nat, pagecount : Nat \ {0}]
               T == [address : Nat, pagecount : Nat]
    <3>1. S \subseteq T OBVIOUS
    <3>2. regions \in Seq(S) BY <2>1 DEF TypesOfPages, Regions
    <3> HIDE DEF S, T
    <3>3. regions \in Seq(T) BY <3>1, <3>2, SeqMonotonic
    <3> QED BY <3>3 DEF T
  <2> QED BY <2>1, <2>2 DEF TypesOfPages, TypesOfMaps, TypeOK, Fields, Ranges
<1> QED BY <1>1, <1>2, <1>3, MappingsInvariant, PTL DEF Spec

-----------------------------------------------------------------------------
(* Address space as an allocator of ranges.                                *)

LiveIn(m) == {h \in Objects : m[h].bytecount > 0}

BytesOf(o) == Page * PagesIn(o.bytecount)

HeldIn(m) == [v \in {m[h].virtaddr : h \in LiveIn(m)} |->
                BytesOf(m[CHOOSE h \in LiveIn(m) : m[h].virtaddr = v])]

ApartIn(m) ==
  \A g, h \in LiveIn(m) : g # h =>
    DisjointRanges(m[g].virtaddr, BytesOf(m[g]), m[h].virtaddr, BytesOf(m[h]))

\* Live objects are known by where they start.
LEMMA HeldByObject ==
  ASSUME NEW m \in [Objects -> Fields], ApartIn(m)
  PROVE  /\ DOMAIN HeldIn(m) = {m[h].virtaddr : h \in LiveIn(m)}
         /\ \A h \in LiveIn(m) : /\ m[h].virtaddr \in Nat
                                 /\ BytesOf(m[h]) \in Nat /\ BytesOf(m[h]) > 0
                                 /\ HeldIn(m)[m[h].virtaddr] = BytesOf(m[h])
         /\ \A g, h \in LiveIn(m) : m[g].virtaddr = m[h].virtaddr => g = h
<1>1. ASSUME NEW h \in LiveIn(m)
      PROVE  m[h].virtaddr \in Nat /\ BytesOf(m[h]) \in Nat /\ BytesOf(m[h]) > 0
  <2>1. m[h] \in Fields /\ m[h].bytecount > 0 BY DEF LiveIn
  <2>2. m[h].virtaddr \in Nat /\ m[h].bytecount \in Nat BY <2>1 DEF Fields
  <2>3. PagesIn(m[h].bytecount) \in Nat /\ PagesIn(m[h].bytecount) > 0
    BY <2>1, <2>2, WholePages
  <2> QED BY <2>2, <2>3 DEF BytesOf, Page
<1>2. ASSUME NEW g \in LiveIn(m), NEW h \in LiveIn(m), m[g].virtaddr = m[h].virtaddr, g # h
      PROVE  FALSE
  <2>1. DisjointRanges(m[g].virtaddr, BytesOf(m[g]), m[h].virtaddr, BytesOf(m[h]))
    BY <1>2 DEF ApartIn
  <2> QED BY <1>1, <1>2, <2>1 DEF DisjointRanges
<1>3. ASSUME NEW h \in LiveIn(m)
      PROVE  HeldIn(m)[m[h].virtaddr] = BytesOf(m[h])
  <2> DEFINE c == CHOOSE g \in LiveIn(m) : m[g].virtaddr = m[h].virtaddr
  <2>1. c \in LiveIn(m) /\ m[c].virtaddr = m[h].virtaddr OBVIOUS
  <2>2. c = h BY <1>2, <2>1
  <2>3. HeldIn(m)[m[h].virtaddr] = BytesOf(m[c]) BY DEF HeldIn
  <2> QED BY <2>2, <2>3
<1> QED BY <1>1, <1>2, <1>3 DEF HeldIn

LEMMA HeldOfMaps ==
  ASSUME MapsInv, ~outOfSpace
  PROVE  /\ HeldRanges = HeldIn(maps) /\ Live = LiveIn(maps)
         /\ maps \in [Objects -> Fields] /\ ApartIn(maps)
         /\ \A h \in LiveIn(maps) : /\ AsaStart <= maps[h].virtaddr
                                    /\ maps[h].virtaddr + BytesOf(maps[h]) <= AsaStart + AsaLength
<1>1. Live = LiveIn(maps) BY DEF Live, LiveIn
<1>2. \A h : LivePages(h) = BytesOf(maps[h]) BY DEF LivePages, BytesOf
<1>3. HeldRanges = HeldIn(maps) BY DEF HeldRanges, HeldIn, Live, LiveIn, BytesOf
<1>4. maps \in [Objects -> Fields] BY DEF MapsInv, AlwaysInv, TypesOfMaps
<1>5. ApartIn(maps) BY <1>1, <1>2 DEF MapsInv, SpaceInv, LiveApart, ApartIn
<1> QED BY <1>1, <1>2, <1>3, <1>4, <1>5 DEF MapsInv, SpaceInv, InArena

LEMMA HeldOfNext ==
  ASSUME MapsInv', ~outOfSpace'
  PROVE  /\ HeldRanges' = HeldIn(maps') /\ Live' = LiveIn(maps')
         /\ maps' \in [Objects -> Fields] /\ ApartIn(maps')
         /\ \A h \in LiveIn(maps') : /\ AsaStart <= maps'[h].virtaddr
                                     /\ maps'[h].virtaddr + BytesOf(maps'[h]) <= AsaStart + AsaLength
<1>1. Live' = LiveIn(maps') BY DEF Live, LiveIn
<1>2. \A h : LivePages(h)' = BytesOf(maps'[h]) BY DEF LivePages, BytesOf
<1>3. HeldRanges' = HeldIn(maps') BY DEF HeldRanges, HeldIn, Live, LiveIn, BytesOf
<1>4. maps' \in [Objects -> Fields] BY DEF MapsInv, AlwaysInv, TypesOfMaps
<1>5. ApartIn(maps')
  <2>1. \A g, h \in LiveIn(maps') : g # h =>
          DisjointRanges(maps'[g].virtaddr, LivePages(g)', maps'[h].virtaddr, LivePages(h)')
    BY <1>1 DEF MapsInv, SpaceInv, LiveApart, DisjointRanges
  <2> QED BY <1>2, <2>1 DEF ApartIn
<1> QED BY <1>1, <1>2, <1>3, <1>4, <1>5 DEF MapsInv, SpaceInv, InArena

\* The same objects, whoever holds them, hold the same ranges.
LEMMA SameRanges ==
  ASSUME MapsInv, MapsInv', ~outOfSpace, ~outOfSpace',
         \A x \in LiveIn(maps') : \E y \in LiveIn(maps) : maps'[x] = maps[y],
         \A y \in LiveIn(maps) : \E x \in LiveIn(maps') : maps'[x] = maps[y]
  PROVE  HeldRanges' = HeldRanges
<1> DEFINE H == HeldIn(maps)
           K == HeldIn(maps')
<1>1. /\ HeldRanges = H /\ HeldRanges' = K
      /\ maps \in [Objects -> Fields] /\ ApartIn(maps)
      /\ maps' \in [Objects -> Fields] /\ ApartIn(maps')
  BY HeldOfMaps, HeldOfNext
<1>2. DOMAIN H = {maps[h].virtaddr : h \in LiveIn(maps)}
  BY <1>1, HeldByObject
<1>3. DOMAIN K = {maps'[h].virtaddr : h \in LiveIn(maps')}
  BY <1>1, HeldByObject
<1>4. H = [v \in DOMAIN H |-> H[v]] /\ K = [v \in DOMAIN K |-> K[v]]
  BY DEF HeldIn
<1>5. \A h \in LiveIn(maps) : H[maps[h].virtaddr] = BytesOf(maps[h]) BY <1>1, HeldByObject
<1>6. \A h \in LiveIn(maps') : K[maps'[h].virtaddr] = BytesOf(maps'[h]) BY <1>1, HeldByObject
<1> HIDE DEF H, K
<1>7. DOMAIN H = DOMAIN K BY <1>2, <1>3
<1>8. ASSUME NEW v \in DOMAIN K PROVE K[v] = H[v]
  <2>1. PICK x \in LiveIn(maps') : v = maps'[x].virtaddr BY <1>3
  <2>2. PICK y \in LiveIn(maps) : maps'[x] = maps[y] OBVIOUS
  <2> QED BY <1>5, <1>6, <2>1, <2>2
<1> QED BY <1>1, <1>4, <1>7, <1>8

\* One object gets a range, or loses it.
LEMMA OneObjectSteps ==
  ASSUME MapsInv, MapsInv', ~outOfSpace, ~outOfSpace', NEW h \in Objects,
         maps[h] = Empty \/ maps'[h] = Empty,
         \A g \in Objects \ {h} : maps'[g] = maps[g]
  PROVE  [AddressSpace!Next]_HeldRanges
<1> DEFINE H == HeldIn(maps)
           K == HeldIn(maps')
<1>1. /\ HeldRanges = H /\ HeldRanges' = K
      /\ maps \in [Objects -> Fields] /\ ApartIn(maps)
      /\ maps' \in [Objects -> Fields] /\ ApartIn(maps')
  BY HeldOfMaps, HeldOfNext
<1>2. DOMAIN H = {maps[g].virtaddr : g \in LiveIn(maps)}
  BY <1>1, HeldByObject
<1>3. DOMAIN K = {maps'[g].virtaddr : g \in LiveIn(maps')}
  BY <1>1, HeldByObject
<1>4. H = [v \in DOMAIN H |-> H[v]] /\ K = [v \in DOMAIN K |-> K[v]]
  BY DEF HeldIn
<1>5. \A g \in LiveIn(maps) : H[maps[g].virtaddr] = BytesOf(maps[g]) BY <1>1, HeldByObject
<1>6. \A g \in LiveIn(maps') : K[maps'[g].virtaddr] = BytesOf(maps'[g]) BY <1>1, HeldByObject
<1>7. \A g \in Objects \ {h} : g \in LiveIn(maps') <=> g \in LiveIn(maps) BY DEF LiveIn
<1>8. h \notin LiveIn(maps) \/ h \notin LiveIn(maps') BY DEF LiveIn, Empty
<1>9. \A f, g \in LiveIn(maps) : maps[f].virtaddr = maps[g].virtaddr => f = g
  BY <1>1, HeldByObject
<1>10. \A f, g \in LiveIn(maps') : maps'[f].virtaddr = maps'[g].virtaddr => f = g
  BY <1>1, HeldByObject
<1>11. LiveIn(maps) \subseteq Objects /\ LiveIn(maps') \subseteq Objects BY DEF LiveIn
<1>12. CASE h \notin LiveIn(maps) /\ h \notin LiveIn(maps')
  BY <1>7, <1>11, <1>12, SameRanges
<1>13. CASE h \in LiveIn(maps')
  <2> DEFINE a == maps'[h].virtaddr
             n == BytesOf(maps'[h])
  <2>1. h \notin LiveIn(maps) BY <1>8, <1>13
  <2>2. \A g \in LiveIn(maps) : g # h /\ g \in LiveIn(maps') /\ maps'[g] = maps[g]
    BY <1>7, <1>11, <2>1
  <2>3. a \in DOMAIN K /\ K[a] = n BY <1>3, <1>6, <1>13
  <2>4. a \notin DOMAIN H BY <1>2, <1>10, <1>13, <2>2
  <2>5. AsaStart <= a /\ a + n <= AsaStart + AsaLength BY <1>13, HeldOfNext
  <2>6. ASSUME NEW b \in DOMAIN H PROVE a + n <= b \/ b + H[b] <= a
    <3>1. PICK g \in LiveIn(maps) : b = maps[g].virtaddr BY <1>2
    <3>2. DisjointRanges(a, n, maps'[g].virtaddr, BytesOf(maps'[g]))
      BY <1>1, <1>13, <2>2 DEF ApartIn
    <3>3. H[b] = BytesOf(maps'[g]) /\ b = maps'[g].virtaddr BY <1>5, <2>2, <3>1
    <3> QED BY <3>2, <3>3 DEF DisjointRanges
  <2>7. DOMAIN K = DOMAIN H \cup {a}
    <3>1. \A g \in LiveIn(maps') : g = h \/ g \in LiveIn(maps) BY <1>7, <1>11
    <3> QED BY <1>2, <1>3, <1>13, <2>2, <3>1
  <2>8. ASSUME NEW b \in DOMAIN H PROVE K[b] = H[b]
    <3>1. PICK g \in LiveIn(maps) : b = maps[g].virtaddr BY <1>2
    <3> QED BY <1>5, <1>6, <2>2, <3>1
  <2> HIDE DEF H, K, a, n
  <2>9. K = [b \in DOMAIN H \cup {a} |-> IF b = a THEN n ELSE H[b]]
    BY <1>4, <2>3, <2>4, <2>7, <2>8
  <2>10. AddressSpace!Grant(a, n)
    BY <1>1, <2>4, <2>5, <2>6, <2>9
    DEF AddressSpace!Grant, AddressSpace!FitsBeside, AddressSpace!Apart
  <2>11. AddressSpace!Grant(a, HeldRanges'[a]) BY <1>1, <2>3, <2>10
  <2> QED BY <1>1, <2>3, <2>11 DEF AddressSpace!Next
<1>14. CASE h \in LiveIn(maps)
  <2> DEFINE a == maps[h].virtaddr
  <2>1. h \notin LiveIn(maps') BY <1>8, <1>14
  <2>2. \A g \in LiveIn(maps') : g # h /\ g \in LiveIn(maps) /\ maps'[g] = maps[g]
    BY <1>7, <1>11, <2>1
  <2>3. a \in DOMAIN H BY <1>2, <1>14
  <2>4. DOMAIN K = DOMAIN H \ {a}
    <3>1. \A g \in LiveIn(maps) : g = h \/ g \in LiveIn(maps') BY <1>7, <1>11
    <3>2. ASSUME NEW b \in DOMAIN K PROVE b \in DOMAIN H /\ b # a
      <4>1. PICK g \in LiveIn(maps') : b = maps'[g].virtaddr BY <1>3
      <4>2. g # h /\ g \in LiveIn(maps) /\ b = maps[g].virtaddr BY <2>2, <4>1
      <4> QED BY <1>2, <1>9, <1>14, <4>2
    <3>3. ASSUME NEW b \in DOMAIN H, b # a PROVE b \in DOMAIN K
      <4>1. PICK g \in LiveIn(maps) : b = maps[g].virtaddr BY <1>2
      <4>2. g \in LiveIn(maps') BY <3>1, <3>3, <4>1
      <4> QED BY <1>3, <2>2, <4>1, <4>2
    <3> QED BY <3>2, <3>3
  <2>5. ASSUME NEW b \in DOMAIN K PROVE K[b] = H[b]
    <3>1. PICK g \in LiveIn(maps') : b = maps'[g].virtaddr BY <1>3
    <3> QED BY <1>5, <1>6, <2>2, <3>1
  <2> HIDE DEF H, K, a
  <2>6. K = [b \in DOMAIN H \ {a} |-> H[b]] BY <1>4, <2>4, <2>5
  <2>7. AddressSpace!Return(a) BY <1>1, <2>3, <2>6 DEF AddressSpace!Return
  <2> QED BY <1>1, <2>3, <2>7 DEF AddressSpace!Next
<1> QED BY <1>12, <1>13, <1>14

LEMMA ConstructGrants ==
  ASSUME MapsInv, MapsInv', ~outOfSpace, ~outOfSpace',
         NEW h \in Objects, NEW m, NEW space, Construct(h, m, space)
  PROVE  [AddressSpace!Next]_HeldRanges
<1>1. maps \in [Objects -> Fields] BY DEF MapsInv, AlwaysInv, TypesOfMaps
<1>2. maps[h] = Empty /\ \A g \in Objects \ {h} : maps'[g] = maps[g] BY <1>1 DEF Construct
<1> QED BY <1>2, OneObjectSteps

\* Once asa_alloc has found nothing, that stays on record.
LEMMA OnRecord ==
  ASSUME TypesOfMaps, [Next]_vars, ~outOfSpace'
  PROVE  ~outOfSpace
<1>1. \A h, m, space : Construct(h, m, space) => outOfSpace' = outOfSpace \/ outOfSpace'
  BY DEF Construct
<1>2. outOfSpace' = outOfSpace
  BY <1>1
  DEF Next, vars, Register, TakePage, AddTable, MapPage, Constructed, UnmapPage, Fault,
      GetZeroed, MapRange, MapOwnPage, IoMemory, MapBar, MapList, Destroy, Move,
      Destroyed, ConstructRange
<1> QED BY <1>2

LEMMA StepsKeepRanges ==
  ASSUME MappingsInv, MappingsInv', [Next]_vars, ~outOfSpace, ~outOfSpace'
  PROVE  [AddressSpace!Next]_HeldRanges
<1>1. MapsInv /\ MapsInv' BY DEF MappingsInv
<1>2. maps \in [Objects -> Fields] /\ owner \in Objects BY <1>1 DEF MapsInv, AlwaysInv, TypesOfMaps
<1>3. Scratch \in Objects /\ \A h \in Handles : h \in Objects BY DEF Objects
<1>4. CASE maps' = maps
  <2>1. HeldRanges' = HeldRanges BY <1>1, <1>4, SameRanges
  <2> QED BY <2>1
<1>5. ASSUME NEW h \in Objects, NEW a, NEW bytes, ConstructRange(h, a, bytes)
      PROVE  [AddressSpace!Next]_HeldRanges
  BY <1>1, <1>5, ConstructGrants DEF ConstructRange
<1>6. CASE Register \/ TakePage \/ AddTable \/ MapPage \/ Constructed \/ UnmapPage \/ UNCHANGED vars
  <2>1. maps' = maps
    BY <1>6 DEF Register, TakePage, AddTable, MapPage, Constructed, UnmapPage, Fault, vars
  <2> QED BY <1>4, <2>1
<1>7. CASE GetZeroed
  <2>1. maps' = maps \/ ConstructRange(Scratch, NextPage, Page) BY <1>7 DEF GetZeroed, Fault
  <2> QED BY <1>3, <1>4, <1>5, <2>1
<1>8. ASSUME NEW h \in Handles,
             \/ \E r \in Requests : MapRange(h, r)
             \/ MapOwnPage(h)
             \/ \E n \in RangeCounts : IoMemory(h, n)
      PROVE  [AddressSpace!Next]_HeldRanges
  <2>1. \E a, bytes : ConstructRange(h, a, bytes) BY <1>8 DEF MapRange, MapOwnPage, IoMemory
  <2> QED BY <1>3, <1>5, <2>1
<1>9. ASSUME NEW h \in Handles, (\E b \in Bars : MapBar(h, b)) \/ MapList(h)
      PROVE  [AddressSpace!Next]_HeldRanges
  <2>1. \E m, space : Construct(h, m, space) BY <1>9 DEF MapBar, MapList
  <2> QED BY <1>1, <1>3, <2>1, ConstructGrants
<1>10. ASSUME NEW h \in Handles, Destroy(h)
       PROVE  [AddressSpace!Next]_HeldRanges
  BY <1>4, <1>10 DEF Destroy
<1>11. ASSUME NEW h \in Handles, NEW g \in Handles \ {h}, Move(h, g)
       PROVE  [AddressSpace!Next]_HeldRanges
  <2>1. /\ maps[h] = Empty /\ maps'[h] = maps[g] /\ maps'[g] = Empty
        /\ \A x \in Objects \ {h, g} : maps'[x] = maps[x]
    BY <1>2, <1>3, <1>11 DEF Move
  <2>2. \A x \in LiveIn(maps') : \E y \in LiveIn(maps) : maps'[x] = maps[y]
    BY <1>3, <2>1 DEF LiveIn, Empty
  <2>3. \A y \in LiveIn(maps) : \E x \in LiveIn(maps') : maps'[x] = maps[y]
    BY <1>3, <2>1 DEF LiveIn, Empty
  <2>4. HeldRanges' = HeldRanges BY <1>1, <2>2, <2>3, SameRanges
  <2> QED BY <2>4
<1>12. CASE Destroyed
  <2>1. maps' = [maps EXCEPT ![owner] = Empty] BY <1>12 DEF Destroyed
  <2>2. maps'[owner] = Empty /\ \A g \in Objects \ {owner} : maps'[g] = maps[g]
    BY <1>2, <2>1
  <2> QED BY <1>1, <1>2, <2>2, OneObjectSteps
<1> QED
  BY <1>6, <1>7, <1>8, <1>9, <1>10, <1>11, <1>12 DEF Next

\* Constructors, moves and destructors keep what an allocator of ranges
\* promises: an object gets its pages inside the arena and apart from those of
\* every other object, and gives back what it has.  This is said of every step
\* before the one at which asa_alloc first returns 0 for lack of space.
THEOREM SpaceIsAllocated ==
  Spec => ImplementsRanges
<1>1. Init => AddressSpace!Init
  <2> SUFFICES ASSUME Init PROVE HeldRanges = [b \in {} |-> 0] BY DEF AddressSpace!Init
  <2>1. Live = {} BY DEF Init, Live, Empty
  <2>2. {maps[h].virtaddr : h \in Live} = {} BY <2>1
  <2> QED BY <2>2 DEF HeldRanges
<1>2. MappingsInv /\ MappingsInv' /\ [Next]_vars
        => [outOfSpace' \/ AddressSpace!Next]_HeldRanges
  <2> SUFFICES ASSUME MappingsInv, MappingsInv', [Next]_vars, ~outOfSpace'
               PROVE  [AddressSpace!Next]_HeldRanges
    OBVIOUS
  <2>1. ~outOfSpace BY OnRecord DEF MappingsInv, MapsInv, AlwaysInv
  <2> QED BY <2>1, StepsKeepRanges
<1> QED BY <1>1, <1>2, MappingsInvariant, PTL DEF Spec, ImplementsRanges
=============================================================================
