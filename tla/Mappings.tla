------------------------------ MODULE Mappings ------------------------------
(***************************************************************************)
(* Virtual address space and mappings: kernel/src/asa.cpp, map.cpp and     *)
(* freepage_get_zeroed, on top of the free pages.  An object of class      *)
(* mapping takes a range of address space, enters a translation for each   *)
(* of its pages, and undoes both when it is destroyed.                     *)
(*                                                                         *)
(* A constructor maps one page per step, and a page table that is missing  *)
(* costs it a physical page in a step of its own: it may find none after   *)
(* part of the mapping was entered.  The page tables are known by what     *)
(* they cover: <<level, index>>, as the recursive mapping addresses them,  *)
(* and pt is the content of the lowest level.                              *)
(*                                                                         *)
(* A definition named Mut... is a faulty variant of the one it stands      *)
(* before; PROJECT.json names the property that rejects it.                *)
(***************************************************************************)
EXTENDS FreePages

CONSTANTS
  AsaStart, AsaLength,  \* the arguments of asa_free in asa_init
  Fanout,               \* entries of a page table, 512
  BootTables,           \* the tables boot.S has made
  Handles,              \* the mapping objects of clients
  Scratch,              \* the local object of freepage_get_zeroed
  Requests,             \* [address, bytes] of firmware tables and registers
  Bars,                 \* [base, size] of memory BARs
  RangeCounts,          \* sizes of IoMemory objects, in pages
  MaxList,              \* bound: pages on a list
  MaxRanges             \* bound: entries of asas, which never shrinks

\* asa_init starts at a page, and callers ask for what there is.
ASSUME MappingsAssumption ==
  /\ Fanout \in Nat \ {0} /\ BootTables \subseteq (1..3) \X Nat
  /\ AsaStart \in Nat /\ AsaLength \in Nat /\ AsaStart % Page = 0
  /\ Scratch \notin Handles
  /\ Requests \subseteq [address : Nat, bytes : Nat]
  /\ Bars \subseteq [base : Nat, size : Nat]
  /\ RangeCounts \subseteq Nat

VARIABLES
  asas,     \* free address space: a sequence of [start, length]
  tables,   \* the page tables that are present
  pt,       \* number of a virtual page -> physical address
  maps,     \* object -> its fields, and the pages it was asked to map
  list,     \* pages clients have taken and not mapped yet, a PageSGList
  pc,       \* "idle", "mapping", "unmapping", "fault"
  owner,    \* the object under construction or destruction
  done,     \* how many of its pages have been mapped, or unmapped
  outOfSpace \* history: asa_alloc has found no range that fits, once or more

vars == <<regions, boot, handed, asas, tables, pt, maps, list, pc, owner, done,
          outOfSpace>>

Objects == Handles \cup {Scratch}

\* A default-constructed or moved-from object.
Empty == [bytecount |-> 0, virtaddr |-> 0, offset |-> 0, pages |-> <<>>]

-----------------------------------------------------------------------------
(* Address space.                                                          *)

MutRounded(n) == n
Rounded(n) == RoundUpToPage(n)

MutFirstFit(i, n) ==
  /\ asas[i].length >= n
  /\ \A j \in 1 .. i - 1 : asas[j].length < n

FirstFit(i, n) ==
  /\ asas[i].length >= Rounded(n)
  /\ \A j \in 1 .. i - 1 : asas[j].length < Rounded(n)

NothingFits(n) == \A i \in DOMAIN asas : asas[i].length < Rounded(n)

MutCut(r, n) == [r EXCEPT !.start = @ + n]
Cut(r, n) == [start |-> r.start + n, length |-> r.length - n]

\* What ~mapping gives back is not rounded up to pages.
MutReturned(m) ==
  [start |-> m.virtaddr, length |-> m.bytecount + (IF m.offset > 0 THEN Page ELSE 0)]
Returned(m) == [start |-> m.virtaddr, length |-> m.bytecount]

AsaFree(r) == asas' = Append(asas, r)

-----------------------------------------------------------------------------
(* Page tables.                                                            *)

\* The page table of a level, 1 to 3 from the last one up, on the way to v, and
\* how many bytes one table of the level translates.
Span == <<Page * Fanout, Page * Fanout * Fanout, Page * Fanout * Fanout * Fanout>>
TableFor(level, v) == <<level, v \div Span[level]>>

Present(v) == \A level \in 1..3 : TableFor(level, v) \in tables

\* The highest table that is missing on the way to v's entry.
FirstMissing(level, v) ==
  /\ TableFor(level, v) \notin tables
  /\ \A l \in level + 1 .. 3 : TableFor(l, v) \in tables

EntryFor(v) == v \div Page

\* platform_map, once its tables are present, and platform_unmap.
Map(v, p) ==
  pt' = [e \in DOMAIN pt \cup {EntryFor(v)} |-> IF e = EntryFor(v) THEN p ELSE pt[e]]

Unmap(v) == pt' = [e \in DOMAIN pt \ {EntryFor(v)} |-> pt[e]]

-----------------------------------------------------------------------------
(* Constructors.                                                           *)

PagesIn(bytes) == (bytes + Page - 1) \div Page

PagesFrom(a, bytes) == [i \in 1 .. PagesIn(bytes) |-> a - (a % Page) + Page * (i - 1)]

\* A constructor up to its loop: m has all fields but virtaddr, and space is
\* the argument of asa_alloc.  When nothing fits asa_alloc prints and returns
\* 0, and the constructor goes on to map its pages there.
Construct(h, m, space) ==
  /\ pc = "idle"
  /\ maps[h] = Empty
  /\ \/ \E i \in DOMAIN asas :
          /\ FirstFit(i, space)
          /\ asas' = [asas EXCEPT ![i] = Cut(@, Rounded(space))]
          /\ maps' = [maps EXCEPT ![h] = [m EXCEPT !.virtaddr = asas[i].start]]
          /\ UNCHANGED outOfSpace
     \/ /\ NothingFits(space)
        /\ maps' = [maps EXCEPT ![h] = [m EXCEPT !.virtaddr = 0]]
        /\ outOfSpace' = TRUE
        /\ UNCHANGED asas
  /\ pc' = "mapping" /\ owner' = h /\ done' = 0
  /\ UNCHANGED <<tables, pt>>

\* mapping(address, bytes, use): an unaligned range takes one page of address
\* space more, and the loop still maps only PagesIn(bytes) pages.
ConstructRange(h, a, bytes) ==
  Construct(h, [bytecount |-> bytes, virtaddr |-> 0, offset |-> a % Page,
                pages |-> PagesFrom(a, bytes)],
            RoundUpToPage(IF a % Page > 0 THEN bytes + Page ELSE bytes))

MapRange(h, r) ==
  ConstructRange(h, r.address, r.bytes) /\ UNCHANGED <<pageVars, list>>

\* mapping(conf, barno, use).  For an I/O BAR it leaves an empty object.
MapBar(h, b) ==
  LET bytes == IF b.base % Page > 0 THEN b.size + Page ELSE b.size
  IN /\ Construct(h, [bytecount |-> bytes, virtaddr |-> 0, offset |-> b.base % Page,
                      pages |-> PagesFrom(b.base, bytes)], bytes)
     /\ UNCHANGED <<pageVars, list>>

\* mapping(list)
MapList(h) ==
  /\ Construct(h, [bytecount |-> Page * Len(list), virtaddr |-> 0, offset |-> 0,
                   pages |-> list], Page * Len(list))
  /\ list' = <<>>
  /\ UNCHANGED pageVars

\* mapping(page, 0x1000, use) of a page the client took before.
MapOwnPage(h) ==
  /\ list # <<>>
  /\ ConstructRange(h, Head(list), Page)
  /\ list' = Tail(list)
  /\ UNCHANGED pageVars

\* IoMemory(n) maps physical address 0 when there is no range of n pages.
IoMemory(h, n) ==
  /\ UNCHANGED list
  /\ \/ NoRange(n) /\ ConstructRange(h, 0, Page * n) /\ UNCHANGED pageVars
     \/ \E i \in DOMAIN regions :
          GetRange(i, n) /\ ConstructRange(h, RangeStart(i, n), Page * n)

\* The loop, with the part of platform_map that adds a page table.
PageAt(m, i) == m.virtaddr + Page * i

NextToMap == PageAt(maps[owner], done)

Mapping == pc = "mapping" /\ done < PagesIn(maps[owner].bytecount)

Fault ==
  /\ pc' = "fault"
  /\ UNCHANGED <<pageVars, asas, outOfSpace, tables, pt, maps, list, owner, done>>

AddTable ==
  /\ Mapping
  /\ ~Present(NextToMap)
  /\ IF NoPages
       THEN Fault
       ELSE /\ GetPage
            /\ \E level \in 1..3 :
                 /\ FirstMissing(level, NextToMap)
                 /\ tables' = tables \cup {TableFor(level, NextToMap)}
            /\ UNCHANGED <<asas, outOfSpace, pt, maps, list, pc, owner, done>>

MapPage ==
  /\ Mapping
  /\ Present(NextToMap)
  /\ Map(NextToMap, maps[owner].pages[done + 1])
  /\ done' = done + 1
  /\ UNCHANGED <<pageVars, asas, outOfSpace, tables, maps, list, pc, owner>>

\* The end of a constructor.  freepage_get_zeroed writes zeroes through its
\* local object, which is then destroyed.
Constructed ==
  /\ pc = "mapping"
  /\ done = PagesIn(maps[owner].bytecount)
  /\ pc' = IF owner = Scratch THEN "unmapping" ELSE "idle"
  /\ owner' = Scratch
  /\ done' = 0
  /\ UNCHANGED <<pageVars, asas, outOfSpace, tables, pt, maps, list>>

-----------------------------------------------------------------------------
(* Destructor, move, and the pages clients take.                           *)

Destroy(h) ==
  /\ pc = "idle"
  /\ maps[h] # Empty
  /\ Len(asas) < MaxRanges
  /\ pc' = "unmapping" /\ owner' = h /\ done' = 0
  /\ UNCHANGED <<pageVars, asas, outOfSpace, tables, pt, maps, list>>

MutPagesToUnmap(m) == m.bytecount \div Page
PagesToUnmap(m) == PagesIn(m.bytecount)

UnmapPage ==
  /\ pc = "unmapping"
  /\ done < PagesToUnmap(maps[owner])
  /\ Unmap(PageAt(maps[owner], done))
  /\ done' = done + 1
  /\ UNCHANGED <<pageVars, asas, outOfSpace, tables, maps, list, pc, owner>>

\* The page of freepage_get_zeroed is its client's once Scratch is gone.
Destroyed ==
  /\ pc = "unmapping"
  /\ done = PagesToUnmap(maps[owner])
  /\ IF maps[owner].bytecount > 0
       THEN AsaFree(Returned(maps[owner]))
       ELSE UNCHANGED asas
  /\ list' = IF owner = Scratch THEN Append(list, maps[owner].pages[1]) ELSE list
  /\ maps' = [maps EXCEPT ![owner] = Empty]
  /\ pc' = "idle" /\ owner' = Scratch /\ done' = 0
  /\ UNCHANGED <<pageVars, tables, pt, outOfSpace>>

\* Every assignment in the code is onto an object that maps nothing.
Move(h, g) ==
  /\ pc = "idle"
  /\ maps[h] = Empty
  /\ maps' = [maps EXCEPT ![h] = maps[g], ![g] = Empty]
  /\ UNCHANGED <<pageVars, asas, outOfSpace, tables, pt, list, pc, owner, done>>

TakePage ==
  /\ pc = "idle"
  /\ Len(list) < MaxList
  /\ IF NoPages
       THEN Fault
       ELSE /\ GetPage
            /\ list' = Append(list, NextPage)
            /\ UNCHANGED <<asas, outOfSpace, tables, pt, maps, pc, owner, done>>

GetZeroed ==
  /\ pc = "idle"
  /\ Len(list) < MaxList
  /\ Len(asas) < MaxRanges
  /\ IF NoPages
       THEN Fault
       ELSE /\ GetPage
            /\ ConstructRange(Scratch, NextPage, Page)
            /\ UNCHANGED list

Register ==
  /\ pc = "idle"
  /\ RegisterFirst \/ RegisterNext
  /\ UNCHANGED <<asas, outOfSpace, tables, pt, maps, list, pc, owner, done>>

Init ==
  /\ InitPages
  /\ asas = <<[start |-> AsaStart, length |-> AsaLength]>>
  /\ tables = BootTables
  /\ pt = [v \in {} |-> 0]
  /\ maps = [h \in Objects |-> Empty]
  /\ list = <<>>
  /\ pc = "idle" /\ owner = Scratch /\ done = 0
  /\ outOfSpace = FALSE

Next ==
  \/ Register
  \/ TakePage
  \/ GetZeroed
  \/ \E h \in Handles :
       \/ \E r \in Requests : MapRange(h, r)
       \/ \E b \in Bars : MapBar(h, b)
       \/ MapList(h)
       \/ MapOwnPage(h)
       \/ \E n \in RangeCounts : IoMemory(h, n)
       \/ Destroy(h)
       \/ \E g \in Handles \ {h} : Move(h, g)
  \/ AddTable
  \/ MapPage
  \/ Constructed
  \/ UnmapPage
  \/ Destroyed

Spec == Init /\ [][Next]_vars

-----------------------------------------------------------------------------
(* Properties.                                                             *)

TypeOK ==
  /\ regions \in Seq([address : Nat, pagecount : Nat])
  /\ boot \in 0 .. Len(MemoryMap) + 1
  /\ handed \in Seq([start : Nat, bytes : Nat])
  /\ asas \in Seq([start : Nat, length : Nat])
  /\ tables \subseteq (1..3) \X Nat
  /\ pt \in [DOMAIN pt -> Nat] /\ DOMAIN pt \subseteq Nat
  /\ maps \in [Objects -> [bytecount : Nat, virtaddr : Nat, offset : Nat, pages : Seq(Nat)]]
  /\ list \in Seq(Nat)
  /\ pc \in {"idle", "mapping", "unmapping", "fault"}
  /\ owner \in Objects
  /\ done \in Nat
  /\ outOfSpace \in BOOLEAN

Live == {h \in Objects : maps[h].bytecount > 0}

\* Which pages of an object have a translation now.
Entered(h) ==
  LET n == PagesIn(maps[h].bytecount) IN
  IF h # owner THEN 0 .. n - 1
  ELSE IF pc = "unmapping" THEN done .. n - 1
  ELSE 0 .. done - 1

\* Each page that a live object has mapped leads to the physical page its
\* constructor was asked to map there, whatever other objects were mapped,
\* moved and destroyed since, until asa_alloc first returns 0 for lack of
\* space: from then on objects at 0 may overwrite each other's entries.
PagesLead ==
  \A h \in Live : \A i \in Entered(h) :
    /\ EntryFor(PageAt(maps[h], i)) \in DOMAIN pt
    /\ pt[EntryFor(PageAt(maps[h], i))] = maps[h].pages[i + 1]

Translates == outOfSpace \/ PagesLead

\* A translation exists only for a page of a live object: the destructor
\* leaves none behind, for any size and alignment, nor does a constructor that
\* faulted before it was done.  This holds for objects at 0 too.
NoStaleTranslation ==
  \A e \in DOMAIN pt : \E h \in Live : \E i \in Entered(h) : e = EntryFor(PageAt(maps[h], i))

\* The free ranges of address space are apart from each other and from the
\* pages of every live object, although a destructor returns another size than
\* the constructor took, until asa_alloc first returns 0 for lack of space.
LivePages(h) == Page * PagesIn(maps[h].bytecount)

FreeApart ==
  /\ \A i, j \in DOMAIN asas : i # j =>
       DisjointRanges(asas[i].start, asas[i].length, asas[j].start, asas[j].length)
  /\ \A i \in DOMAIN asas, h \in Live :
       DisjointRanges(asas[i].start, asas[i].length, maps[h].virtaddr, LivePages(h))

AddressSpaceApart == outOfSpace \/ FreeApart

\* Address space keeps what an allocator of ranges promises, at every step up
\* to the one at which asa_alloc first finds nothing that fits: the pages of
\* live objects are apart and inside the arena.
HeldRanges == [v \in {maps[h].virtaddr : h \in Live} |->
                 LET h == CHOOSE g \in Live : maps[g].virtaddr = v
                 IN  Page * PagesIn(maps[h].bytecount)]

AddressSpace == INSTANCE RangeAllocator
                  WITH Low <- AsaStart, High <- AsaStart + AsaLength, held <- HeldRanges

ImplementsRanges ==
  AddressSpace!Init /\ [][outOfSpace' \/ AddressSpace!Next]_HeldRanges
=============================================================================
