-------------------------------- MODULE MCUi --------------------------------
(* Instance of Ui: a mouse whose movements have 8 bits, one whose movements  *)
(* have 12 and are not at the border of a byte, and a keyboard with a byte   *)
(* of modifiers and an array of two keys; a screen of 3 by 2.                *)
EXTENDS Ui

I(tag, byte) == [tag |-> tag, data |-> <<byte>>]
N(tag) == [tag |-> tag, data |-> <<>>]
F(usage, offset, length) == [usage |-> usage, bitOffset |-> offset, bitLength |-> length]
Button(n) == 9 * 65536 + n
KeyUsage(n) == 7 * 65536 + n

Head1 == << I("UsagePage", 1), I("Usage", 2), I("Collection", 1), I("Usage", 1), I("Collection", 0),
  I("UsagePage", 9), I("UsageMinimum", 1), I("UsageMaximum", 3), I("LogicalMinimum", 0),
  I("LogicalMaximum", 1), I("ReportCount", 3), I("ReportSize", 1), I("Input", 2) >>
Padding(size) == << I("ReportCount", 1), I("ReportSize", size), I("Input", 1) >>
Motion(size) == << I("UsagePage", 1), I("Usage", 48), I("Usage", 49), [tag |-> "LogicalMaximum", data |-> <<255, 7>>],
  I("ReportSize", size), I("ReportCount", 2), I("Input", 6), N("CollectionEnd"), N("CollectionEnd") >>

Motions(S) == { X :> x @@ Y :> y @@ Button(1) :> b : x \in S, y \in {-1, 2}, b \in {0, 1} }

Mouse8 == [items |-> Head1 \o Padding(5) \o Motion(8), type |-> Mouse, length |-> 3, slots |-> {}, base |-> 0,
  layout |-> { F(Button(1), 0, 1), F(Button(2), 1, 1), F(Button(3), 2, 1), F(X, 8, 8), F(Y, 16, 8) },
  inputs |-> Motions({-128, 0, 3})]
Mouse12 == [items |-> Head1 \o Motion(12), type |-> Mouse, length |-> 4, slots |-> {}, base |-> 0,
  layout |-> { F(Button(1), 0, 1), F(Button(2), 1, 1), F(Button(3), 2, 1), F(X, 3, 12), F(Y, 15, 12) },
  inputs |-> Motions({-2048, 1})]

\* Slots are numbered beyond all usages.
Slot(n) == 16777216 + n
Keyb == [items |-> << I("UsagePage", 1), I("Usage", 6), I("Collection", 1), I("UsagePage", 7),
    I("UsageMinimum", 224), I("UsageMaximum", 231), I("ReportSize", 1), I("ReportCount", 8), I("Input", 2),
    I("ReportCount", 1), I("ReportSize", 8), I("Input", 1),
    I("ReportCount", 5), I("ReportSize", 1), I("UsagePage", 8), I("UsageMinimum", 1), I("UsageMaximum", 5),
    I("Output", 2), I("ReportCount", 1), I("ReportSize", 3), I("Output", 1),
    I("ReportCount", 2), I("ReportSize", 8), I("UsagePage", 7), I("UsageMinimum", 0), I("UsageMaximum", 101),
    I("Input", 0), N("CollectionEnd") >>,
  type |-> Keyboard, length |-> 4, slots |-> {Slot(1), Slot(2)}, base |-> KeyUsage(0),
  layout |-> { F(KeyUsage(223 + n), n - 1, 1) : n \in 1..8 } \cup { F(Slot(n), 8 + 8 * n, 8) : n \in 1..2 },
  inputs |-> { KeyUsage(224) :> c @@ KeyUsage(230) :> a @@ Slot(1) :> j @@ Slot(2) :> k :
                 c \in {0, 1}, a \in {0, 1}, j \in {0, 4}, k \in {0, 101} }]

MCDevices == {Mouse8, Mouse12, Keyb}
\* The table's values for the bytes that occur
MCTable ==
  ( 1 :> 41 @@ 2 :> 30 @@ 8 :> 36 @@ 24 :> 18 @@ 40 :> 52 @@ 56 :> 226 @@ 184 :> 230 @@ 256 :> 72 )
  @@ [c \in 0..256 |-> 0]
MCMoves == { [x |-> 2, y |-> -1], [x |-> -255, y |-> 255] }
=============================================================================
