----------------------------- MODULE FreePages -----------------------------
(***************************************************************************)
(* The list of free physical pages, kernel/src/freepage.cpp, and how       *)
(* kernel/src/entry.cpp fills it at boot from the multiboot memory map.    *)
(*                                                                         *)
(* Addresses and counts are unsigned machine words, modulo Word.  Pages    *)
(* are never given back.  handed is a history variable: the ranges the two *)
(* allocation functions have returned, in order.                           *)
(*                                                                         *)
(* A definition named Mut... is a faulty variant of the one it stands      *)
(* before; PROJECT.json names the property that rejects it.                *)
(***************************************************************************)
EXTENDS Integers, Sequences

CONSTANTS
  Word,         \* 2^64 in the code
  FirstStart,   \* the region platform_init registers before it reads the
  FirstLength,  \*   memory map: 0x100000 and 0x100000 in the code
  LowMemory,    \* mb1_init registers nothing below this: 0x1000000
  MemoryMap     \* the map's usable entries, a sequence of [base, length]

VARIABLES
  regions,   \* the list from head on: a sequence of [address, pagecount]
  boot,      \* how many regions and map entries have been registered
  handed     \* history of the ranges returned: a sequence of [start, bytes]

pageVars == <<regions, boot, handed>>

Page == 4096

Wrap(n) == n % Word

DisjointRanges(a, m, b, n) == a + m <= b \/ b + n <= a

RoundUpToPage(n) == ((n + (Page - 1)) \div Page) * Page

-----------------------------------------------------------------------------
(* Filling the list.                                                       *)

\* freepage_add_region: the length loses what the rounding of start skips, and
\* a whole page when start is aligned.
Trimmed(start, length) == Wrap(length - (Page - (start % Page)))

AddRegion(start, length) ==
  regions' = <<[address   |-> Wrap(RoundUpToPage(start)),
                pagecount |-> Trimmed(start, length) \div Page]>> \o regions

\* The loop body of mb1_init: align the entry, drop what is below LowMemory.
AlignedStart(e) == RoundUpToPage(e.base)

AlignedLength(e) ==
  LET left == Wrap(e.length - (AlignedStart(e) - e.base))
  IN left - (left % Page)

ToSkip(e) == IF AlignedStart(e) < LowMemory THEN LowMemory - AlignedStart(e) ELSE 0

IsSkipped(e) == AlignedLength(e) < ToSkip(e)

MutRegisterEntry(e) ==
  IF IsSkipped(e)
    THEN UNCHANGED regions
    ELSE AddRegion(AlignedStart(e), AlignedLength(e) - ToSkip(e))

RegisterEntry(e) ==
  IF IsSkipped(e)
    THEN UNCHANGED regions
    ELSE AddRegion(AlignedStart(e) + ToSkip(e), AlignedLength(e) - ToSkip(e))

RegisterFirst ==
  /\ boot = 0
  /\ AddRegion(FirstStart, FirstLength)
  /\ boot' = 1
  /\ UNCHANGED handed

RegisterNext ==
  /\ boot \in 1 .. Len(MemoryMap)
  /\ RegisterEntry(MemoryMap[boot])
  /\ boot' = boot + 1
  /\ UNCHANGED handed

-----------------------------------------------------------------------------
(* Taking pages from it.                                                   *)

\* With an empty list freepage_get dereferences a null head.
NoPages == regions = <<>>

CountAfterGet == Wrap(Head(regions).pagecount - 1)

\* The page freepage_get returns: the last one of the first region.
NextPage == Wrap(Head(regions).address + Page * CountAfterGet)

GetPage ==
  /\ ~NoPages
  /\ regions' = IF CountAfterGet = 0
                  THEN Tail(regions)
                  ELSE [regions EXCEPT ![1].pagecount = CountAfterGet]
  /\ handed' = Append(handed, [start |-> NextPage, bytes |-> Page])
  /\ UNCHANGED boot

\* freepage_get_range passes by the regions with no more than n pages.
MutHasRoom(r, n) == r.pagecount # n
HasRoom(r, n) == r.pagecount > n

NoRange(n) == \A i \in DOMAIN regions : ~HasRoom(regions[i], n)

FirstWithRoom(i, n) ==
  /\ i \in DOMAIN regions
  /\ HasRoom(regions[i], n)
  /\ \A j \in 1 .. i - 1 : ~HasRoom(regions[j], n)

CountAfter(i, n) == Wrap(regions[i].pagecount - n)

RangeStart(i, n) == Wrap(regions[i].address + Page * CountAfter(i, n))

GetRange(i, n) ==
  /\ FirstWithRoom(i, n)
  /\ regions' = [regions EXCEPT ![i].pagecount = CountAfter(i, n)]
  /\ handed' = Append(handed, [start |-> RangeStart(i, n), bytes |-> Page * n])
  /\ UNCHANGED boot

InitPages == regions = <<>> /\ boot = 0 /\ handed = <<>>

NextPages ==
  \/ RegisterFirst
  \/ RegisterNext
  \/ GetPage
  \/ \E n \in Nat : \E i \in DOMAIN regions : GetRange(i, n)

SpecPages == InitPages /\ [][NextPages]_pageVars

-----------------------------------------------------------------------------
(* What the code takes for granted of the machine's memory: entries of the *)
(* map are apart, and one that is not dropped leaves two pages or more.    *)
(* (Of a single page the list keeps none, with a count that then wraps.)   *)

TwoPages(n) == n >= 2 * Page

ASSUME WordAssumption == Word \in Nat /\ LowMemory \in Nat /\ LowMemory < Word

ASSUME FirstRegionAssumption ==
  /\ FirstStart \in Nat /\ FirstLength \in Nat
  /\ FirstStart % Page = 0 /\ TwoPages(FirstLength)
  /\ FirstStart + FirstLength <= LowMemory

ASSUME MemoryMapAssumption ==
  /\ MemoryMap \in Seq([base : Nat, length : Nat])
  /\ \A k \in DOMAIN MemoryMap :
       /\ MemoryMap[k].base + MemoryMap[k].length < Word
       /\ AlignedStart(MemoryMap[k]) - MemoryMap[k].base <= MemoryMap[k].length
       /\ ~IsSkipped(MemoryMap[k]) =>
            TwoPages(AlignedLength(MemoryMap[k]) - ToSkip(MemoryMap[k]))
  /\ \A j, k \in DOMAIN MemoryMap : j # k =>
       DisjointRanges(MemoryMap[j].base, MemoryMap[j].length,
                      MemoryMap[k].base, MemoryMap[k].length)

-----------------------------------------------------------------------------
(* Properties.                                                             *)

\* Memory boot found usable: piece 0 is the first region, piece k what the
\* k-th entry of the map has from LowMemory up.
InPiece(k, a, n) ==
  IF k = 0
    THEN FirstStart <= a /\ a + n <= FirstStart + FirstLength
    ELSE /\ LowMemory <= a
         /\ MemoryMap[k].base <= a
         /\ a + n <= MemoryMap[k].base + MemoryMap[k].length

UsableRange(a, n) == \E k \in 0 .. Len(MemoryMap) : InPiece(k, a, n)

RegionBytes(r) == Page * r.pagecount

\* No physical page is handed out twice, and no page that is still on the free
\* list has been handed out: over all calls of freepage_get and
\* freepage_get_range, before and after regions are registered.
NoPageTwice ==
  /\ \A i, j \in DOMAIN handed : i # j =>
       DisjointRanges(handed[i].start, handed[i].bytes, handed[j].start, handed[j].bytes)
  /\ \A i \in DOMAIN regions, j \in DOMAIN handed :
       DisjointRanges(regions[i].address, RegionBytes(regions[i]),
                      handed[j].start, handed[j].bytes)

\* Free regions are disjoint, and only memory that boot found usable is on the
\* list or was ever handed out.
OnlyUsableMemory ==
  /\ \A i, j \in DOMAIN regions : i # j =>
       DisjointRanges(regions[i].address, RegionBytes(regions[i]),
                      regions[j].address, RegionBytes(regions[j]))
  /\ \A i \in DOMAIN regions : UsableRange(regions[i].address, RegionBytes(regions[i]))
  /\ \A i \in DOMAIN handed : UsableRange(handed[i].start, handed[i].bytes)
=============================================================================
