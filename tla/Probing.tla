------------------------------- MODULE Probing -------------------------------
(***************************************************************************)
(* What becomes of a disk that a driver registers: ProbeDisk, TryUse and   *)
(* SniffFilesystem of kernel/src/vfs.cpp and the partition tables of       *)
(* fs/mbr.cpp and fs/gpt.cpp, whose partitions are disks in their turn.    *)
(*                                                                         *)
(* Each disk has a coroutine, and each partition table another one, which  *)
(* nobody awaits.  They suspend where they read; a step ends there.        *)
(*                                                                         *)
(* A definition named Mut... is a faulty variant of the one it stands      *)
(* before; PROJECT.json names the property that rejects it.                *)
(***************************************************************************)
EXTENDS Integers, Sequences, FiniteSets, SequencesExt

CONSTANTS
  Images,     \* what can be on the drive: a set of functions from the places
              \*   where a disk can begin to what its first blocks hold,
              \*   [gpt, ext, fat, mbr, loads, table, root]
  DriveSize,  \* blocks of 4096 bytes; drivers of drives do not agree on the
              \*   unit, and this is the one that mbr.cpp expects
  MinLength,  \* 262144 sectors
  Words       \* what a 32-bit number can hold

ASSUME ImagesAssumption ==
  /\ \A i \in Images : 0 \in DOMAIN i
  /\ DriveSize \in Nat /\ MinLength \in Nat /\ Words > 8 * DriveSize

VARIABLES
  image,      \* the drive's contents
  disks,      \* a sequence of [base, size, hint, pc, type]; the first is the
              \*   drive, the others are Partitions
  parsing,    \* the coroutines that read partition tables: [disk, kind, hinted]
  mounted     \* file systems registered, in order: [disk, kind]

probing == <<image, disks, parsing, mounted>>

\* Another coroutine can begin at a place: a partition of the whole drive has
\* the drive's own first block.
Content(d) == image[disks[d].base]

-----------------------------------------------------------------------------

\* SniffFilesystem, "in order of reliability".
Sniffed(c) ==
  CASE c.gpt # "none" -> "gpt"
    [] c.gpt = "none" /\ c.ext -> "ext"
    [] c.gpt = "none" /\ ~c.ext /\ c.fat -> "fat"
    [] c.gpt = "none" /\ ~c.ext /\ ~c.fat /\ c.mbr = "both" -> "mbr"
    [] OTHER -> "unknown"

\* load: a cluster must have a block at least; ext takes what it finds.
Loads(d, type) == type = "ext" \/ (type = "fat" /\ Content(d).loads)

Set(d, pc) == [disks EXCEPT ![d].pc = pc]

\* TryUse(type), then the next place of ProbeDisk.  A partition table is read
\* by a coroutine of its own and is no file system.
TryUse(d, type, next) ==
  /\ IF Loads(d, type)
       THEN /\ mounted' = Append(mounted, [disk |-> d, kind |-> type])
            /\ disks' = Set(d, "done")
       ELSE UNCHANGED mounted /\ disks' = Set(d, next)
  /\ parsing' = IF type \in {"mbr", "gpt"}
                  THEN parsing \cup {[disk |-> d, kind |-> type, hinted |-> next = "sniff"]}
                  ELSE parsing

MutTryHint(d) ==
  /\ disks[d].pc = "hint"
  /\ TryUse(d, disks[d].hint, "hint")
  /\ UNCHANGED image
TryHint(d) ==
  /\ disks[d].pc = "hint"
  /\ TryUse(d, disks[d].hint, "sniff")
  /\ UNCHANGED image

Sniff(d) ==
  /\ disks[d].pc = "sniff"
  /\ disks' = [disks EXCEPT ![d].pc = "try", ![d].type = Sniffed(Content(d))]
  /\ UNCHANGED <<image, parsing, mounted>>

Try(d) ==
  /\ disks[d].pc = "try"
  /\ TryUse(d, disks[d].type, "done")
  /\ UNCHANGED image

-----------------------------------------------------------------------------

\* RegisterDisk(new Partition(disk, first, size), hint)
NewDisk(first, size, hint) ==
  [base |-> first, size |-> size, hint |-> hint, type |-> "unknown",
   pc |-> IF hint = "unknown" THEN "sniff" ELSE "hint"]

\* The MBR's types; an entry must be whole blocks and end on the disk.
MbrHint(id) ==
  CASE id \in {1, 4, 6, 7, 11, 12, 14} -> "fat"
    [] id = 131 -> "ext" [] id = 15 -> "mbr" [] OTHER -> "unknown"

MutAccepts(e, size) == e.length > 0
Accepts(e, size) ==
  /\ e.start % 8 = 0 /\ e.length % 8 = 0 /\ e.length >= MinLength
  /\ (e.start + e.length) % Words <= 8 * size

\* The signature is refused only when both of its bytes are wrong.
ParseMbrPartitions(t) ==
  LET d == t.disk
      table == SelectSeq(Content(d).table, LAMBDA e : Accepts(e, disks[d].size)) IN
  /\ t \in parsing /\ t.kind = "mbr"
  /\ parsing' = parsing \ {t}
  /\ disks' = IF Content(d).mbr = "none" THEN disks
              ELSE disks \o [k \in DOMAIN table |->
                     NewDisk(disks[d].base + table[k].start \div 8, table[k].length \div 8,
                             MbrHint(table[k].id))]
  /\ UNCHANGED <<image, mounted>>

\* The GPT's types.  The end is the last sector, and the size a block short.
GptHint(id) == IF id \in {"fat", "ext"} THEN id ELSE "unknown"

ParseGptPartitions(t) ==
  LET d == t.disk
      table == SelectSeq(Content(d).table, LAMBDA e : e.id # "nothing") IN
  /\ t \in parsing /\ t.kind = "gpt"
  /\ parsing' = parsing \ {t}
  /\ disks' = IF Content(d).gpt # "good" THEN disks
              ELSE disks \o [k \in DOMAIN table |->
                     NewDisk(disks[d].base + table[k].start \div 8,
                             (table[k].length - 1) \div 8, GptHint(table[k].id))]
  /\ UNCHANGED <<image, mounted>>

-----------------------------------------------------------------------------

ProbingInit ==
  /\ image \in Images
  /\ disks = << NewDisk(0, DriveSize, "unknown") >>
  /\ parsing = {} /\ mounted = <<>>

Probe ==
  \/ \E d \in DOMAIN disks : TryHint(d) \/ Sniff(d) \/ Try(d)
  \/ \E t \in parsing : ParseMbrPartitions(t) \/ ParseGptPartitions(t)

ProbingOver == parsing = {} /\ \A d \in DOMAIN disks : disks[d].pc = "done"

-----------------------------------------------------------------------------
(* Properties.                                                             *)

\* A file system is registered once for the place where it lies, as the kind
\* its partition's type or its first blocks say, and within the drive, however
\* the partitions' probes overtake one another (vfs.cpp:79).  The exceptions
\* are what lies in an extended partition, whose table is read twice, for
\* TryUse has no answer and the disk is sniffed (vfs.cpp:80); and entries of a
\* GPT, which are taken whatever they say (gpt.cpp:78).
Place(m) == disks[m.disk].base
Extended(m) == \E d \in DOMAIN disks :
  /\ disks[d].hint = "mbr"
  /\ disks[d].base <= Place(m) /\ Place(m) < disks[d].base + disks[d].size

RegisteredOnce ==
  \A i \in DOMAIN mounted :
    LET m == mounted[i]
        c == Content(m.disk) IN
    /\ m.kind \in {disks[m.disk].hint, Sniffed(c)}
    /\ m.kind = "fat" => c.loads
    /\ c.gpt # "none" => m.kind = disks[m.disk].hint
    /\ Extended(m) \/ \A j \in DOMAIN mounted : Place(mounted[j]) = Place(m) => j = i
    /\ image[0].gpt = "none" => Place(m) + disks[m.disk].size <= DriveSize
=============================================================================
