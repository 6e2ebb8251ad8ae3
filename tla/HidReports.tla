----------------------------- MODULE HidReports -----------------------------
(***************************************************************************)
(* How UsbHidDevice (kernel/src/usb/UsbHid.cpp) learns the layout of a     *)
(* device's reports from its report descriptor, and reads reports by it.   *)
(*                                                                         *)
(* A descriptor is a sequence of items [tag, data], the data being bytes.  *)
(* A report is a function from 0 on to bytes.                              *)
(*                                                                         *)
(* A definition named Mut... is a faulty variant of the one it stands      *)
(* before; PROJECT.json names the property that rejects it.                *)
(***************************************************************************)
EXTENDS Integers, Sequences, SequencesExt, TLC

\* ReportIterator: the first byte of a number is taken for its highest.
Value(item) == FoldLeft(LAMBDA v, byte : 256 * v + byte, 0, item.data)

Bit(v, n) == (v \div 2^n) % 2 = 1

\* ReportState, the items local to one main item, and what they have given
Start ==
  [usagePage |-> 0, reportSize |-> 0, reportCount |-> 0, usages |-> <<>>, usageMin |-> 0,
   inputOffset |-> 0, outputOffset |-> 0, input |-> <<>>, output |-> <<>>, deviceType |-> 0]

Usage(s, v) == 65536 * s.usagePage + v

\* The usage of the n-th field of a variable item: the last listed is for all
\* the fields that are left.
CurrentUsage(s, n) ==
  IF s.usages = <<>> THEN s.usageMin + n - 1
  ELSE s.usages[IF n < Len(s.usages) THEN n ELSE Len(s.usages)]

Fields(s, v, offset) ==
  IF Bit(v, 0) THEN <<>>
  ELSE [n \in 1..s.reportCount |->
         [usage |-> IF Bit(v, 1) THEN CurrentUsage(s, n) ELSE s.usageMin,
          bitOffset |-> offset + (n - 1) * s.reportSize, bitLength |-> s.reportSize,
          isIndex |-> ~Bit(v, 1), isRelative |-> Bit(v, 2)]]

\* What a main item leaves: of the local items only the usages are dropped.
Dropped(s, v) ==
  [s EXCEPT !.usages = <<>>,
            !.usageMin = IF ~Bit(v, 0) /\ Bit(v, 1) /\ s.usages = <<>> THEN @ + s.reportCount ELSE @]

\* Input and Output
MainItem(s, tag, v) ==
  LET length == s.reportCount * s.reportSize IN
  IF tag = "Input"
    THEN [Dropped(s, v) EXCEPT !.input = @ \o Fields(s, v, s.inputOffset), !.inputOffset = @ + length]
    ELSE [Dropped(s, v) EXCEPT !.output = @ \o Fields(s, v, s.outputOffset), !.outputOffset = @ + length]

\* A collection takes a usage from the list; there is one.
Collection(s, v) ==
  [s EXCEPT !.usages = Front(@), !.deviceType = IF v = 1 THEN Last(s.usages) ELSE @]

\* One item.  Limits, units, report numbers, Push and Pop are noted at most.
Item(s, item) ==
  LET v == Value(item) IN
  CASE item.tag \in {"Input", "Output"} -> MainItem(s, item.tag, v)
    [] item.tag = "Collection" -> Collection(s, v)
    [] item.tag = "UsagePage" -> [s EXCEPT !.usagePage = v % 256]
    [] item.tag = "ReportSize" -> [s EXCEPT !.reportSize = v % 256]
    [] item.tag = "ReportCount" -> [s EXCEPT !.reportCount = v]
    [] item.tag = "Usage" -> [s EXCEPT !.usages = Append(@, Usage(s, v))]
    [] item.tag = "UsageMinimum" -> [s EXCEPT !.usages = <<>>, !.usageMin = Usage(s, v)]
    [] OTHER -> s

ParseReport(items) == FoldLeft(Item, Start, items)

-----------------------------------------------------------------------------

\* The bits of a field, out of the bytes that it lies in
FieldValue(f, report) ==
  LET first == f.bitOffset \div 8
      last == (f.bitOffset + f.bitLength - 1) \div 8
      bytes == FoldLeft(LAMBDA v, n : 256 * v + report[last - n], 0,
                        [k \in 1..(last - first + 1) |-> k - 1]) IN
  (bytes \div 2^(f.bitOffset % 8)) % 2^f.bitLength

\* status[...] = ... for one field; an index or an absolute value of 0 is none.
MutFieldStatus(f, v) ==
  CASE f.isIndex -> IF v # 0 THEN f.usage + v :> 1 ELSE <<>>
    [] ~f.isIndex /\ f.isRelative -> f.usage :> v
    [] OTHER -> IF v # 0 THEN f.usage :> v ELSE <<>>
FieldStatus(f, v) ==
  CASE f.isIndex -> IF v # 0 THEN f.usage + v :> 1 ELSE <<>>
    [] ~f.isIndex /\ f.isRelative ->
         f.usage :> IF Bit(v, f.bitLength - 1) THEN v - 2^f.bitLength ELSE v
    [] OTHER -> IF v # 0 THEN f.usage :> v ELSE <<>>

Status(fields, report) ==
  FoldLeft(LAMBDA status, f : FieldStatus(f, FieldValue(f, report)) @@ status, <<>>, fields)

=============================================================================
