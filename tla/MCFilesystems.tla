---------------------------- MODULE MCFilesystems ----------------------------
(* Instances of Filesystems: a drive of 10 blocks with any table of up to    *)
(* two of a few partitions, and drives that are one file system each.        *)
EXTENDS Filesystems

UpTo(S, n) == UNION { [1..k -> S] : k \in 0..n }

MCFat == 0 :> 99 @@ 1 :> 99 @@ 2 :> 4 @@ 3 :> 99 @@ 4 :> 5 @@ 5 :> 99 @@ 6 :> 7 @@ 7 :> 99

MCInodes == <<
  [type |-> "normal", size |-> 2, leaves |-> <<Extent(20, 3)>>],
  [type |-> "normal", size |-> 3, leaves |-> <<Extent(20, 1), Extent(21, 2)>>],
  [type |-> "normal", size |-> 3, leaves |-> <<Extent(20, 1), Extent(30, 3)>>],
  [type |-> "directory", size |-> 1, leaves |-> <<Extent(5, 1)>>],
  [type |-> "normal", size |-> 4, leaves |-> <<Extent(20, 2), Extent(30, 2)>>],
  \* one block, and what indirect blocks have for the eleven that are not there
  [type |-> "normal", size |-> 1, leaves |-> <<Extent(20, 1)>> \o [k \in 1..11 |-> Extent(0, 1)]] >>

(* Roots *)
Lfn1(order, last, part) == [tag |-> "lfn", order |-> order, last |-> last, part |-> part]
Short1(name, cluster, size) ==
  [tag |-> "short", name |-> name, cluster |-> cluster, size |-> size, type |-> "normal"]
End == [tag |-> "end"]

Whole == Lfn1(1, TRUE, "cstddef")
Second == Lfn1(2, TRUE, "b")
First == Lfn1(1, FALSE, "a")
Gone == Lfn1(37, TRUE, "gone")
ShortA == Short1("A", 3, 2)
ShortB == Short1("B", 2, 3)
Nothing == Short1("C", 0, 0)

Fat32Roots == UpTo({Whole, Second, First, Gone, ShortA, ShortB, Nothing, End}, 4)
              \cup UpTo({Whole, Second, First, ShortA, ShortB}, 5)

File1(count) == [tag |-> "file", count |-> count, type |-> "normal"]
Stream1(contiguous, cluster, size) ==
  [tag |-> "stream", contiguous |-> contiguous, cluster |-> cluster, size |-> size]
Name1(part) == [tag |-> "name", part |-> part]
Streams == { Stream1(TRUE, 6, 3), Stream1(FALSE, 2, 3), Stream1(FALSE, 6, 3), Stream1(FALSE, 8, 1) }
Sets == { <<File1(2), s, Name1("cstddef")>> : s \in Streams }
        \cup { <<File1(3), s, Name1("a"), Name1("b")>> : s \in Streams }
        \cup { << [tag |-> "other"] >>, <<End>> }
ExfatRoots == { FlattenSeq(sets) : sets \in UpTo(Sets, 3) }

Inode1(ino, name, broken) == [tag |-> "inode", ino |-> ino, name |-> name, broken |-> broken]
ExtRoots == UpTo({ Inode1(1, "cstddef", FALSE), Inode1(2, "cstddef", FALSE), Inode1(3, "cstddef", FALSE),
                   Inode1(5, "cstddef", FALSE), Inode1(6, "cstddef", FALSE), Inode1(4, "d", FALSE), Inode1(0, "e", FALSE), Inode1(1, "f", TRUE) }, 3)

RootOf(kind, fragments, entries) == [kind |-> kind, fragments |-> fragments, entries |-> entries]
FatRoot(fragments) == RootOf("fat32", fragments, <<Whole, ShortA>>)

(* Drives *)
Bare == [gpt |-> "none", ext |-> FALSE, fat |-> FALSE, mbr |-> "none", loads |-> FALSE,
          table |-> <<>>, root |-> "none"]
FatFs == [Bare EXCEPT !.fat = TRUE, !.loads = TRUE, !.mbr = "both", !.root = FatRoot(1)]
ExtFs == [Bare EXCEPT !.ext = TRUE, !.root = RootOf("ext", 1, <<Inode1(1, "cstddef", FALSE)>>)]

Partition(id, start, length) == [id |-> id, start |-> start, length |-> length]
Partitions == {
  Partition(12, 8, 16), Partition(131, 8, 16), Partition(99, 24, 16), Partition(12, 24, 8),
  Partition(12, 12, 16), Partition(12, 72, 16), Partition(15, 40, 32), Partition(12, 40, 32) }
Inner == { <<>>, <<Partition(12, 8, 16)>> }
GptEntries == { Partition(id, 8, 24) : id \in {"fat", "ext", "other", "nothing"} }
              \cup { Partition("fat", 24, 40) }

Places9(first, second, third, inner) ==
  0 :> first @@ 1 :> second @@ 3 :> third @@ 5 :> [Bare EXCEPT !.mbr = "both", !.table = inner]
  @@ 6 :> FatFs @@ 9 :> FatFs

Tables == { t \in UpTo(Partitions, 2) :
              \A i, j \in DOMAIN t : t[i].start \div 8 = t[j].start \div 8 => i = j }
GptTables == { t \in UpTo(GptEntries, 2) : Len(t) = 2 => t[1].start # t[2].start }

MbrDrives ==
  { Places9([Bare EXCEPT !.mbr = sig, !.table = t], p, q, i) :
      sig \in {"both"}, t \in Tables, p \in {FatFs, ExtFs}, q \in {FatFs, Bare}, i \in Inner }
GptDrives ==
  { Places9([Bare EXCEPT !.gpt = g, !.mbr = "both", !.table = t], FatFs, [FatFs EXCEPT !.loads = FALSE], <<>>) :
      g \in {"good", "bad"}, t \in GptTables }
FatDrive(kind, entries) == 0 :> [FatFs EXCEPT !.root = RootOf(kind, 1, entries)]
ExtDrives == { 0 :> [ExtFs EXCEPT !.root = RootOf("ext", 1, e)] : e \in ExtRoots }
WholeDrives ==
  { FatDrive("fat32", e) : e \in Fat32Roots } \cup { FatDrive("exfat", e) : e \in ExfatRoots }
  \cup ExtDrives \cup { 0 :> Bare, 0 :> [FatFs EXCEPT !.root = FatRoot(2)] }

MCImages == MbrDrives \cup GptDrives \cup WholeDrives
=============================================================================
