----------------------------- MODULE Directories -----------------------------
(***************************************************************************)
(* The listing of a root directory: FatFilesystem::readdir for FAT32 and   *)
(* for exFAT and ExtFilesystem::readdir (kernel/src/fs/fat.cpp, ext.cpp),  *)
(* and the reading of the file that RegisterFilesystem looks for (vfs.cpp).*)
(*                                                                         *)
(* The coroutine of a listing is a record.  The operators say what it does *)
(* at one entry or at one answer of the drive; Filesystems takes the steps.*)
(* Where it stands:                                                        *)
(*   "reading"  for the directory's blocks         "scan"   at an entry    *)
(*   "chain"    for an entry of the FAT            "inode"  for an inode   *)
(*   "listed"   with the files   "file"  for the blocks of the file found  *)
(*   "done"     at its end       "stray" beyond the memory it has mapped   *)
(***************************************************************************)
EXTENDS Integers, Sequences, SequencesExt

CONSTANTS
  Clusters,       \* byteCount / clusterSize
  ClusterBlocks,  \* clusterSize / 4096
  Fat,            \* the next cluster of each; it leads to no circle
  Inodes,         \* a sequence of [type, leaves]; a leaf is an extent
  Beneath,        \* what AddExtent finds before the start of an empty vector
  NoName

ASSUME DirectoriesAssumption ==
  /\ Clusters \in Nat /\ ClusterBlocks \in Nat \ {0} /\ Beneath \in Nat
  /\ \A c \in DOMAIN Fat : Fat[c] \in Nat /\ (Fat[c] < Clusters => Fat[c] \in DOMAIN Fat)

Extent(offset, size) == [offset |-> offset, size |-> size]

\* A file is the parts of its name, its type, its size in blocks and where it is.
File(name, type, size, extents) ==
  [name |-> name, type |-> type, size |-> size, extents |-> extents]

\* A directory: [kind, fragments, entries].  The fragments are the extents that
\* load found for it, as many times what File::read will get.  Entries, by "tag": "lfn" [order, last, part],
\* "short" [name, cluster, type, size], "file" [count, type], "stream"
\* [contiguous, cluster, size], "name" [part], "inode" [ino, name, broken],
\* "other", "end".  Files that were deleted from a FAT32 directory are "lfn"
\* and "short" entries like others; from an exFAT directory they are "other".
Listing(dir) ==
  [at |-> "reading", dir |-> dir, n |-> 1, lastLfn |-> 0, lfncache |-> <<>>,
   fileEntry |-> NoName, seEntry |-> NoName, cluster |-> 0, next |-> 0,
   extents |-> <<>>, files |-> <<>>, list |-> <<>>, left |-> 0]

Entry(s) == s.dir.entries[s.n]
Skipped(s) == [s EXCEPT !.n = @ + 1]
Emptied(s) == [Skipped(s) EXCEPT !.lastLfn = 0, !.lfncache = <<>>]

-----------------------------------------------------------------------------
(* FAT *)

\* readFatChain, up to its first read and after each.  currentCluster stays
\* the first and currentCount 1, however long the run of clusters was.
ChainAt(next) == IF next < Clusters THEN "chain" ELSE "chained"

Follow(s, cluster) ==
  [s EXCEPT !.at = ChainAt(cluster), !.cluster = cluster, !.next = cluster, !.extents = <<>>]

Cluster(c) == Extent(c * ClusterBlocks, ClusterBlocks)

NextCluster(s) ==
  [s EXCEPT !.next = Fat[s.next], !.at = ChainAt(Fat[s.next]),
            !.extents = IF s.next + 1 = Fat[s.next] THEN @ ELSE Append(@, Cluster(s.cluster))]

\* The order byte, with the flag of the entry that comes first.
Raw(e) == e.order + IF e.last THEN 64 ELSE 0

MutContinues(s, e) == s.lastLfn > 1
Continues(s, e) == s.lastLfn # 0 /\ Raw(e) = s.lastLfn - 1

Blank(k) == [j \in 1..k |-> NoName]

Lfn(s, e) ==
  CASE Continues(s, e) ->
         [Skipped(s) EXCEPT !.lastLfn = @ - 1, !.lfncache[s.lastLfn - 1] = e.part]
    [] s.lastLfn = 0 /\ e.last ->
         [Skipped(s) EXCEPT !.lastLfn = e.order,
                            !.lfncache = [Blank(e.order) EXCEPT ![e.order] = e.part]]
    [] OTHER -> Emptied(s)

Short(s, e) == Follow(IF s.lastLfn # 1 THEN [s EXCEPT !.lfncache = <<>>] ELSE s, e.cluster)

Fat32Entry(s) ==
  LET e == Entry(s) IN
  CASE e.tag = "lfn" -> Lfn(s, e)
    [] e.tag = "end" -> [s EXCEPT !.at = "listed"]
    [] e.tag = "short" -> Short(s, e)

\* The file that an entry of FAT32 or the last name of an exFAT set describes
Fat32File(s) ==
  File(IF s.lfncache = <<>> THEN <<Entry(s).name>> ELSE s.lfncache,
       Entry(s).type, Entry(s).size, s.extents)

ExfatFile(s) == File(s.lfncache, s.fileEntry.type, s.seEntry.size, s.extents)

Found(s, f) == [Emptied(s) EXCEPT !.at = "scan", !.files = Append(@, f)]

ChainRead(s) == Found(s, IF s.dir.kind = "exfat" THEN ExfatFile(s) ELSE Fat32File(s))

\* One entry of an exFAT directory
FileName(s, e) ==
  LET named == [s EXCEPT !.lfncache = Append(@, e.part)] IN
  IF Len(named.lfncache) < s.fileEntry.count - 1 THEN Skipped(named)
  ELSE IF s.seEntry.contiguous
    THEN ChainRead([named EXCEPT !.extents =
           << Extent(s.seEntry.cluster * ClusterBlocks, s.seEntry.size) >>])
    ELSE Follow(named, s.seEntry.cluster)

ExfatEntry(s) ==
  LET e == Entry(s) IN
  CASE e.tag = "end" -> [s EXCEPT !.at = "listed"]
    [] e.tag = "file" -> [Skipped(s) EXCEPT !.fileEntry = e]
    [] e.tag = "stream" -> [Skipped(s) EXCEPT !.seEntry = e]
    [] e.tag = "name" -> FileName(s, e)
    [] OTHER -> Skipped(s)

-----------------------------------------------------------------------------
(* ext *)

\* AddExtent.  The last extent of none is whatever lies before the address 0.
AddExtent(extents, e) ==
  IF extents = <<>> THEN IF e.offset = Beneath THEN <<>> ELSE <<e>>
  ELSE LET end == Last(extents) IN
       IF end.offset + end.size = e.offset
         THEN [extents EXCEPT ![Len(extents)].size = @ + e.size]
         ELSE Append(extents, e)

\* readInode: the leaves of a tree without inner nodes, or the direct blocks
InodeExtents == [ino \in DOMAIN Inodes |-> FoldLeft(AddExtent, <<>>, Inodes[ino].leaves)]

InodeFile(s) ==
  LET e == Entry(s) IN
  File(<<e.name>>, Inodes[e.ino].type, Inodes[e.ino].size, InodeExtents[e.ino])

\* A record too short to be one is the last that is looked at.
PastEntry(s) ==
  IF Entry(s).broken THEN [s EXCEPT !.at = "listed"] ELSE [Skipped(s) EXCEPT !.at = "scan"]

ExtEntry(s) == IF Entry(s).ino = 0 THEN PastEntry(s) ELSE [s EXCEPT !.at = "inode"]

InodeRead(s) == PastEntry([s EXCEPT !.files = Append(@, InodeFile(s))])

-----------------------------------------------------------------------------
(* All *)

\* What is dumped byte by byte, before it is looked at, is d.fileSize long.
DirectoryRead(s) == [s EXCEPT !.at = IF s.dir.fragments > 1 THEN "stray" ELSE "scan"]

Scan(s) ==
  IF s.n > Len(s.dir.entries) THEN [s EXCEPT !.at = "listed"]
  ELSE CASE s.dir.kind = "fat32" -> Fat32Entry(s)
         [] s.dir.kind = "exfat" -> ExfatEntry(s)
         [] s.dir.kind = "ext" -> ExtEntry(s)

\* File::read.  The offset should shrink by the extents passed; it grows.
MutReadExtent(r, e) ==
  IF r.left = 0 THEN r
  ELSE [offset |-> r.offset + e.size, left |-> 0,
        list |-> r.list \o [k \in 1..r.left |-> e.offset + r.offset + k - 1]]
ReadExtent(r, e) ==
  LET size == IF e.size < r.left THEN e.size ELSE r.left IN
  IF r.left = 0 THEN r
  ELSE IF r.offset < e.size
    THEN [offset |-> r.offset + e.size, left |-> r.left - size,
          list |-> r.list \o [k \in 1..size |-> e.offset + r.offset + k - 1]]
    ELSE [r EXCEPT !.offset = @ + e.size]

Read(f, offset, size) ==
  FoldLeft(ReadExtent, [offset |-> offset, left |-> size, list |-> <<>>], f.extents)

\* vector::operator=.  Its loop ends only for a vector that is empty when it
\* begins: what is more than the source has is popped before, and one without
\* the room is emptied.  Who has had elements has room for 8 (push_back).
NewVector == [list |-> <<>>, capacity |-> 0, ends |-> TRUE]

Assigned(v, list) ==
  LET kept == IF v.capacity < Len(list) THEN 0 ELSE Min({Len(v.list), Len(list)}) IN
  [list |-> list, ends |-> v.ends /\ kept = 0,
   capacity |-> Max({v.capacity, Len(list), IF list = <<>> THEN 0 ELSE 8})]

\* RegisterFilesystem's search: each file of the name is assigned to the one
\* before.  No file leaves a File whose size nobody has set, and as much of
\* nothing is copied.
Wanted(s, name) == SelectSeq(s.files, LAMBDA f : f.name = name)

ReadFile(s, f) ==
  LET r == Read(f, 0, f.size) IN [s EXCEPT !.at = "file", !.list = r.list, !.left = r.left]

Search(s, name) ==
  LET found == Wanted(s, name)
      extents == FoldLeft(LAMBDA v, f : Assigned(v, f.extents), NewVector, found) IN
  CASE found = <<>> -> { [s EXCEPT !.at = at] : at \in {"done", "stray"} }
    [] ~extents.ends -> { [s EXCEPT !.at = "stray"] }
    [] OTHER -> { ReadFile(s, Last(found)) }

\* All of the file is copied from what was read of it.
FileRead(s) == [s EXCEPT !.at = IF s.left > 0 THEN "stray" ELSE "done"]

=============================================================================
