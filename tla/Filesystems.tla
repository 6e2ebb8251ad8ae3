----------------------------- MODULE Filesystems -----------------------------
(***************************************************************************)
(* From a drive to the text of a file: the probing of disks, and what      *)
(* RegisterFilesystem (kernel/src/vfs.cpp) does with each file system that *)
(* is found: it enters the root into dentrycache, lists it and reads the   *)
(* file cstddef.                                                           *)
(*                                                                         *)
(* Everything runs in interrupt handlers, one at a time, and a coroutine   *)
(* keeps the processor until it waits for the drive.  No two listings are  *)
(* under way: the root of a second file system is assigned to the first's, *)
(* which is not empty and has room for it, so that the copy of its extents *)
(* does not end (cpp/include/vector:60) and the kernel is at an end where  *)
(* a second listing would begin.                                           *)
(***************************************************************************)
EXTENDS Probing, Directories

\* A root has an extent, and no more than a vector has room for from the first.
ASSUME FilesystemsAssumption ==
  \A i \in Images : \A b \in DOMAIN i : i[b].fat \/ i[b].ext => i[b].root.fragments \in 1..8

VARIABLES listings   \* for each file system registered, its listing

vars == <<image, disks, parsing, mounted, listings>>

Stray == \E i \in DOMAIN listings : listings[i].at = "stray"

\* A coroutine that has the processor
HasProcessor(s) == s.at \in {"scan", "chained", "listed"}
Running == \E i \in DOMAIN listings : HasProcessor(listings[i])

-----------------------------------------------------------------------------

Init == ProbingInit /\ listings = <<>>

\* dentrycache["/"] = fs->getroot(), up to the read of the directory.  What is
\* assigned ends with the first root alone.
Root(dir) == [k \in 1..dir.fragments |-> dir]
RootCached == FoldLeft(LAMBDA v, l : Assigned(v, Root(l.dir)), NewVector, listings)

Enter(dir) ==
  IF Assigned(RootCached, Root(dir)).ends THEN Listing(dir) ELSE [Listing(dir) EXCEPT !.at = "stray"]

RegisterFilesystem ==
  listings' = IF mounted' = mounted THEN listings
              ELSE Append(listings, Enter(image[disks'[Last(mounted').disk].base].root))

ProbeDisks == ~Stray /\ ~Running /\ Probe /\ RegisterFilesystem

\* The next states of a coroutine: of the one that runs, or, if none does, of
\* one whose block has come.
Steps(s) ==
  CASE s.at = "reading" -> { DirectoryRead(s) }
    [] s.at = "scan" -> { Scan(s) }
    [] s.at = "chain" -> { NextCluster(s) }
    [] s.at = "chained" -> { ChainRead(s) }
    [] s.at = "inode" -> { InodeRead(s) }
    [] s.at = "listed" -> Search(s, <<"cstddef">>)
    [] s.at = "file" -> { FileRead(s) }
    [] OTHER -> {}

List(i) ==
  /\ ~Stray
  /\ Running => HasProcessor(listings[i])
  /\ \E s \in Steps(listings[i]) : listings' = [listings EXCEPT ![i] = s]
  /\ UNCHANGED probing

Next == ProbeDisks \/ \E i \in DOMAIN listings : List(i)

\* The drive answers every read.
Spec ==
  /\ Init /\ [][Next]_vars
  /\ WF_vars(ProbeDisks) /\ WF_vars(\E i \in DOMAIN listings : List(i))

-----------------------------------------------------------------------------
(* Properties.                                                             *)

\* What a chain of clusters holds, in order, and in how many runs.
Chain[c \in DOMAIN Fat] == IF Fat[c] >= Clusters THEN <<c>> ELSE <<c>> \o Chain[Fat[c]]

Runs(c) ==
  Cardinality({ k \in DOMAIN Chain[c] : k = Len(Chain[c]) \/ Chain[c][k + 1] # Chain[c][k] + 1 })

BlocksOf(e) == [k \in 1..e.size |-> e.offset + k - 1]
AllBlocks(extents) == FlattenSeq([k \in DOMAIN extents |-> BlocksOf(extents[k])])
ChainBlocks(c) == AllBlocks([k \in DOMAIN Chain[c] |-> Cluster(Chain[c][k])])

\* The entries that a listing should find, as places in the directory.
Before(dir, Stops(_)) ==
  LET stops == { k \in DOMAIN dir.entries : Stops(dir.entries[k]) } IN
  IF stops = {} THEN Len(dir.entries) ELSE Min(stops)

Places(dir) ==
  LET e == dir.entries
      end == Before(dir, LAMBDA x : IF dir.kind = "ext" THEN x.broken ELSE x.tag = "end") IN
  SelectSeq([k \in 1..end |-> k],
            LAMBDA k : IF dir.kind = "ext" THEN e[k].ino # 0 ELSE e[k].tag \in {"short", "file"})

\* The complete long name right before a short entry, if there is one.
LongNames(e, i) ==
  { k \in 1..(i - 1) : \A j \in 1..k :
      e[i - j].tag = "lfn" /\ e[i - j].order = j /\ e[i - j].last = (j = k) }
LongName(e, i, k) == [j \in 1..k |-> e[i - j].part]

OfFat32(f, e, i) ==
  /\ \/ f.name = <<e[i].name>>
     \/ \E k \in LongNames(e, i) : f.name = LongName(e, i, k)
  /\ \A k \in LongNames(e, i) :
       (i - k = 1 \/ e[i - k - 1].tag # "lfn") => f.name = LongName(e, i, k)
  /\ Len(f.extents) = Runs(e[i].cluster)
  /\ \A x \in ToSet(f.extents) : ToSet(BlocksOf(x)) \subseteq ToSet(ChainBlocks(e[i].cluster))

OfExfat(f, e, i) ==
  LET stream == e[i + 1] IN
  /\ f.name = [j \in 1..(e[i].count - 1) |-> e[i + 1 + j].part]
  /\ f.type = e[i].type /\ f.size = stream.size
  /\ stream.contiguous \/ stream.cluster >= Clusters \/ Len(f.extents) = Runs(stream.cluster)

OfExt(f, e, i) ==
  LET leaves == Inodes[e[i].ino].leaves IN
  /\ f.name = <<e[i].name>> /\ f.type = Inodes[e[i].ino].type
  /\ leaves # <<>> /\ leaves[1].offset # Beneath => AllBlocks(f.extents) = AllBlocks(leaves)

\* The list of a directory has one file for each entry that describes one, in
\* their order: on FAT32 with its long name if the whole of it, and nothing of
\* an entry that was deleted or lost its own, stands right before; on exFAT
\* with all parts of its name; on ext with the blocks of its inode.  A chain
\* has one extent for each run of clusters, which lies in it (the readdirs).
ListsDirectory ==
  \A l \in DOMAIN listings : listings[l].at \in {"listed", "file", "done"} =>
    LET s == listings[l]
        e == s.dir.entries
        places == Places(s.dir) IN
    /\ Len(s.files) = Len(places)
    /\ \A k \in DOMAIN places :
         CASE s.dir.kind = "fat32" -> OfFat32(s.files[k], e, places[k])
           [] s.dir.kind = "exfat" -> OfExfat(s.files[k], e, places[k])
           [] s.dir.kind = "ext" -> OfExt(s.files[k], e, places[k])

\* The blocks that the file found owns, in order.
Owned(s, k) ==
  LET e == s.dir.entries
      i == Places(s.dir)[k] IN
  CASE s.dir.kind = "fat32" -> ChainBlocks(e[i].cluster)
    [] s.dir.kind = "exfat" ->
         IF e[i + 1].contiguous THEN BlocksOf(Extent(e[i + 1].cluster * ClusterBlocks, e[i + 1].size))
         ELSE IF e[i + 1].cluster \in DOMAIN Fat THEN ChainBlocks(e[i + 1].cluster) ELSE <<>>
    [] s.dir.kind = "ext" -> AllBlocks(Inodes[e[i].ino].leaves)

WantedPlaces(s) == { k \in DOMAIN s.files : s.files[k].name = <<"cstddef">> }

Enough(f) == f.extents # <<>> /\ f.size <= f.extents[1].size

\* What is read of a file are its own blocks from the first on (vfs.cpp:131),
\* as far as it goes: on FAT always, for there no extent but the first is ever
\* used; on ext as long as the first extent has all that is asked for.
ReadsOwnBlocks ==
  \A l \in DOMAIN listings : listings[l].at \in {"file", "done"} =>
    LET s == listings[l] IN
    \A k \in WantedPlaces(s) :
      k = Max(WantedPlaces(s)) /\ (s.dir.kind # "ext" \/ Enough(s.files[k])) =>
        /\ IsPrefix(s.list, Owned(s, k))
        /\ Len(s.list) + s.left = s.files[k].size

\* "Attempted to read beyond the end of the file": that is said only of a read
\* that asks for more blocks than the file has (vfs.cpp:135).
ComplainsOnlyBeyondEnd ==
  \A l \in DOMAIN listings : listings[l].at = "file" /\ listings[l].left > 0 =>
    LET s == listings[l] IN s.files[Max(WantedPlaces(s))].size > Len(Owned(s, Max(WantedPlaces(s))))

\* Every disk is probed to the end and every listing ends, whatever is on the
\* drive, unless the kernel has come to an end.
Settles == <>(Stray \/ (ProbingOver /\ \A i \in DOMAIN listings : listings[i].at = "done"))
=============================================================================
