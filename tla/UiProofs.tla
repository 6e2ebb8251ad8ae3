------------------------------ MODULE UiProofs ------------------------------
(***************************************************************************)
(* The pointer follows the user's mice, ps2.cpp and ui.cpp, for any table  *)
(* of keys, movements, sizes of the screen and order of bytes and          *)
(* interrupts, as long as each PS/2 handler takes its own device's bytes.  *)
(*                                                                         *)
(* A movement of the PS/2 mouse is three bytes, of which some may be in    *)
(* the driver's packet, one with the controller and the others to come.    *)
(* The invariant counts them through these places: the n-th is the part of *)
(* the movement that n, in threes, stands for, and there is none beside.   *)
(***************************************************************************)
EXTENDS Ui, TLAPS, SequenceTheorems

Ps2Devices == {"keyboard", "mouse"}
Bytes == [value : Int, of : {"keyboard", "mouse", "init"}]

SignBit(v) == IF v < 0 THEN 1 ELSE 0
ValueOf(m, k) ==
  CASE k = 1 -> 8 + 16 * SignBit(m.x) + 32 * SignBit(-m.y)
    [] k = 2 -> m.x % 256
    [] k = 3 -> (-m.y) % 256

BytesTyped ==
  /\ pending \in [Ps2Devices -> Seq(Bytes)]
  /\ \A i \in DOMAIN pending["keyboard"] : pending["keyboard"][i].of # "mouse"
  /\ held \in Bytes \cup {NoByte}
  /\ packet \in Seq(Bytes) /\ Len(packet) < 3
  /\ moves \in Seq(Moves)

\* The byte is the n-th of those that tell of all these movements.
Means(byte, n, all) ==
  \A e \in 1 .. Len(all), k \in 1 .. 3 : n = 3 * (e - 1) + k => byte.value = ValueOf(all[e], k)

\* The bytes of movements in the driver and with the controller, and the answer
\* to ps2_init, when it is still to come
Near == Len(packet) + IF held.of = "mouse" THEN 1 ELSE 0
Answers == IF pending["mouse"] # <<>> /\ pending["mouse"][1].of = "init" THEN 1 ELSE 0

InOrder ==
  /\ Answers = 1 => Near = 0
  /\ Near + Len(pending["mouse"]) - Answers = 3 * Len(moves)
  /\ \A i \in 1 .. Len(packet) : Means(packet[i], i, moves)
  /\ held.of = "mouse" => Means(held, Len(packet) + 1, moves)
  /\ \A i \in Answers + 1 .. Len(pending["mouse"]) :
       pending["mouse"][i].of = "mouse" /\ Means(pending["mouse"][i], Near + i - Answers, moves)

UiInv == BytesTyped /\ (~lost => InOrder /\ pointer = cursor)

-----------------------------------------------------------------------------
(* Packets.                                                                *)

LEMMA MoveRange ==
  ASSUME NEW m \in Moves
  PROVE  m.x \in -255 .. 255 /\ m.y \in -255 .. 255
BY UiAssumption

LEMMA SignedNine ==
  ASSUME NEW v \in -255 .. 255
  PROVE  /\ v % 256 \in 0 .. 255
         /\ v % 256 = 0 <=> v = 0
         /\ v # 0 => v = IF v < 0 THEN (v % 256) - 256 ELSE v % 256
OBVIOUS

\* Three bytes of one movement, as the driver reads them.
LEMMA PacketRead ==
  ASSUME NEW m \in Moves, NEW p,
         \A k \in 1 .. 3 : p[k].value = ValueOf(m, k)
  PROVE  Of(PacketReport(p), X) = m.x /\ Of(PacketReport(p), Y) = m.y
<1>1. m.x \in -255 .. 255 /\ m.y \in -255 .. 255 /\ -m.y \in -255 .. 255 BY MoveRange
<1>2. /\ p[1].value = 8 + 16 * SignBit(m.x) + 32 * SignBit(-m.y)
      /\ p[2].value = m.x % 256
      /\ p[3].value = (-m.y) % 256
  BY 1 \in 1 .. 3, 2 \in 1 .. 3, 3 \in 1 .. 3 DEF ValueOf
<1>3. SignBit(m.x) \in {0, 1} /\ SignBit(-m.y) \in {0, 1} BY DEF SignBit
<1>4. Bit(p[1].value, 4) = (m.x < 0)
  <2>1. \A a, b \in {0, 1} : (((8 + 16 * a + 32 * b) \div 2^4) % 2 = 1) <=> a = 1 BY SMT
  <2>2. Bit(p[1].value, 4) <=> SignBit(m.x) = 1 BY <1>2, <1>3, <2>1 DEF Bit
  <2>3. Bit(p[1].value, 4) \in BOOLEAN BY DEF Bit
  <2> QED BY <1>1, <2>2, <2>3 DEF SignBit
<1>5. Bit(p[1].value, 5) = (-m.y < 0)
  <2>1. \A a, b \in {0, 1} : (((8 + 16 * a + 32 * b) \div 2^5) % 2 = 1) <=> b = 1 BY SMT
  <2>2. Bit(p[1].value, 5) <=> SignBit(-m.y) = 1 BY <1>2, <1>3, <2>1 DEF Bit
  <2>3. Bit(p[1].value, 5) \in BOOLEAN BY DEF Bit
  <2> QED BY <1>1, <2>2, <2>3 DEF SignBit
<1>6. m.x # 0 => Nine(p, 2, 4) = m.x BY <1>1, <1>2, <1>4, SignedNine DEF Nine
<1>7. -m.y # 0 => Nine(p, 3, 5) = -m.y BY <1>1, <1>2, <1>5, SignedNine DEF Nine
<1>8. X \in Told(p) <=> m.x # 0 BY <1>1, <1>2, SignedNine DEF Told
<1>9. Y \in Told(p) <=> -m.y # 0 BY <1>1, <1>2, SignedNine DEF Told, X, Y, Compositor
<1>10. Of(PacketReport(p), X) = IF m.x # 0 THEN Nine(p, 2, 4) ELSE 0 BY <1>8 DEF Of, PacketReport
<1>11. Of(PacketReport(p), Y) = IF -m.y # 0 THEN -Nine(p, 3, 5) ELSE 0
  BY <1>9 DEF Of, PacketReport, X, Y, Compositor
<1> QED BY <1>1, <1>6, <1>7, <1>10, <1>11

-----------------------------------------------------------------------------
(* Steps.                                                                  *)

LEMMA InitBytes == Ack \in Bytes /\ Ack.of = "init" /\ NoByte.of = "none" /\ NoByte \notin Bytes
BY DEF Ack, Byte, Bytes, NoByte

LEMMA Lengths ==
  ASSUME BytesTyped
  PROVE  /\ Len(packet) \in 0 .. 2 /\ Len(moves) \in Nat
         /\ \A d \in Ps2Devices : pending[d] \in Seq(Bytes) /\ Len(pending[d]) \in Nat
         /\ Near \in 0 .. 3 /\ Answers \in 0 .. 1
<1>1. packet \in Seq(Bytes) /\ Len(packet) < 3 /\ moves \in Seq(Moves) BY DEF BytesTyped
<1>2. Len(packet) \in Nat /\ Len(moves) \in Nat BY <1>1, LenProperties
<1>3. \A n \in Nat : n < 3 => n \in 0 .. 2 OBVIOUS
<1>4. Len(packet) \in 0 .. 2 BY <1>1, <1>2, <1>3
<1>5. \A d \in Ps2Devices : pending[d] \in Seq(Bytes) BY DEF BytesTyped
<1>6. \A d \in Ps2Devices : Len(pending[d]) \in Nat BY <1>5, LenProperties
<1>7. Near \in 0 .. 3
  <2>1. \A n \in 0 .. 2 : \A c : n + (IF c THEN 1 ELSE 0) \in 0 .. 3 OBVIOUS
  <2> QED BY <1>4, <2>1, Zenon DEF Near
<1>8. Answers \in 0 .. 1 BY DEF Answers
<1> QED BY <1>2, <1>4, <1>5, <1>6, <1>7, <1>8

LEMMA UiInit == Init => UiInv
<1> SUFFICES ASSUME Init PROVE UiInv OBVIOUS
<1>1. pending["keyboard"] = <<>> /\ pending["mouse"] = << Ack >>
      /\ DOMAIN pending = Ps2Devices /\ pending = [of \in Ps2Devices |-> pending[of]]
  BY DEF Init, Ps2Devices
<1>2. << Ack >> \in Seq(Bytes) /\ <<>> \in Seq(Bytes) /\ Len(<< Ack >>) = 1 BY InitBytes
<1>3. pending \in [Ps2Devices -> Seq(Bytes)] BY <1>1, <1>2 DEF Ps2Devices
<1>4. packet = <<>> /\ moves = <<>> /\ held = Ack /\ pointer = cursor BY DEF Init
<1>5. BytesTyped BY <1>1, <1>3, <1>4, InitBytes DEF BytesTyped
<1>6. Answers = 1 /\ Near = 0 BY <1>1, <1>4, InitBytes DEF Answers, Near
<1>7. InOrder BY <1>1, <1>2, <1>4, <1>6, InitBytes DEF InOrder
<1> QED BY <1>4, <1>5, <1>7 DEF UiInv

\* A movement that is appended is no other's.
LEMMA StillMeans ==
  ASSUME BytesTyped, NEW m \in Moves, moves' = Append(moves, m)
  PROVE  /\ moves' \in Seq(Moves) /\ Len(moves') = Len(moves) + 1
         /\ \A b, n : n \in Nat /\ n <= 3 * Len(moves) /\ Means(b, n, moves) => Means(b, n, moves')
         /\ \A b, n : \A k \in 1 .. 3 :
              n = 3 * Len(moves) + k /\ b.value = ValueOf(m, k) => Means(b, n, moves')
<1>1. moves \in Seq(Moves) BY DEF BytesTyped
<1>2. moves' \in Seq(Moves) /\ Len(moves') = Len(moves) + 1 /\ Len(moves) \in Nat
      /\ \A e \in 1 .. Len(moves) : moves'[e] = moves[e]
      /\ moves'[Len(moves) + 1] = m
  BY <1>1, AppendProperties, LenProperties
<1>3. ASSUME NEW b, NEW n \in Nat, n <= 3 * Len(moves), Means(b, n, moves) PROVE Means(b, n, moves')
  <2> SUFFICES ASSUME NEW e \in 1 .. Len(moves'), NEW k \in 1 .. 3, n = 3 * (e - 1) + k
               PROVE  b.value = ValueOf(moves'[e], k)
    BY DEF Means
  <2>1. e \in 1 .. Len(moves) BY <1>2, <1>3
  <2>2. moves'[e] = moves[e] BY <1>2, <2>1
  <2> QED BY <1>3, <2>1, <2>2 DEF Means
<1>4. ASSUME NEW b, NEW n, NEW k \in 1 .. 3, n = 3 * Len(moves) + k, b.value = ValueOf(m, k)
      PROVE  Means(b, n, moves')
  <2> SUFFICES ASSUME NEW e \in 1 .. Len(moves'), NEW j \in 1 .. 3, n = 3 * (e - 1) + j
               PROVE  b.value = ValueOf(moves'[e], j)
    BY DEF Means
  <2>1. e = Len(moves) + 1 /\ j = k BY <1>2, <1>4
  <2> QED BY <1>2, <1>4, <2>1
<1> QED BY <1>2, <1>3, <1>4

\* The first movement has arrived: the bytes of the others are three nearer.
LEMMA NextMeans ==
  ASSUME BytesTyped, moves # <<>>, moves' = Tail(moves)
  PROVE  /\ Head(moves) \in Moves /\ Head(moves) = moves[1]
         /\ moves' \in Seq(Moves) /\ Len(moves') = Len(moves) - 1
         /\ \A b, l : \A n \in Nat : l = n + 3 /\ Means(b, l, moves) => Means(b, n, moves')
<1>1. moves \in Seq(Moves) BY DEF BytesTyped
<1>2. /\ moves' \in Seq(Moves) /\ Len(moves') = Len(moves) - 1 /\ Len(moves) \in Nat
      /\ \A e \in 1 .. Len(moves') : moves'[e] = moves[e + 1]
  BY <1>1, HeadTailProperties, LenProperties
<1>3. Head(moves) \in Moves /\ Head(moves) = moves[1] BY <1>1, HeadTailProperties
<1>4. ASSUME NEW b, NEW n \in Nat, NEW l, l = n + 3, Means(b, l, moves) PROVE Means(b, n, moves')
  <2> SUFFICES ASSUME NEW e \in 1 .. Len(moves'), NEW k \in 1 .. 3, n = 3 * (e - 1) + k
               PROVE  b.value = ValueOf(moves'[e], k)
    BY DEF Means
  <2>1. e + 1 \in 1 .. Len(moves) /\ l = 3 * ((e + 1) - 1) + k BY <1>2, <1>4
  <2>2. b.value = ValueOf(moves[e + 1], k) BY <1>4, <2>1 DEF Means
  <2> QED BY <1>2, <2>2
<1> QED BY <1>2, <1>3, <1>4

\* What touches neither the mouse's bytes nor its movements
LEMMA SameOrder ==
  ASSUME InOrder, pending'["mouse"] = pending["mouse"], packet' = packet, moves' = moves,
         held'.of = "mouse" <=> held.of = "mouse", held.of = "mouse" => held' = held
  PROVE  InOrder'
<1>1. Near' = Near /\ Answers' = Answers BY DEF Near, Answers
<1> QED BY <1>1 DEF InOrder

LEMMA KeyKeeps ==
  ASSUME UiInv, NEW k \in Keys, NEW prefix \in { <<>>, << Byte("keyboard", 224) >> },
         NEW released \in BOOLEAN, Key(k, prefix, released)
  PROVE  UiInv'
<1> DEFINE Coming == { b \in Bytes : b.of # "mouse" }
           code == Byte("keyboard", k + (IF released THEN 128 ELSE 0))
           sent == prefix \o << code >>
<1>1. BytesTyped BY DEF UiInv
<1>2. \A v \in Int : Byte("keyboard", v) \in Coming BY DEF Byte, Bytes
<1>3. k + (IF released THEN 128 ELSE 0) \in Int
  <2>1. k \in 0 .. 127 BY UiAssumption
  <2> QED BY <2>1
<1>4. sent \in Seq(Coming)
  <2> HIDE DEF Coming
  <2>1. code \in Coming /\ Byte("keyboard", 224) \in Coming BY <1>2, <1>3
  <2> HIDE DEF code
  <2>2. << code >> \in Seq(Coming) BY <2>1
  <2>3. prefix \in Seq(Coming)
    <3>1. prefix = <<>> \/ prefix = << Byte("keyboard", 224) >> OBVIOUS
    <3>2. << Byte("keyboard", 224) >> \in Seq(Coming) /\ <<>> \in Seq(Coming) BY <2>1
    <3> QED BY <3>1, <3>2, Zenon
  <2> QED BY <2>2, <2>3, ConcatProperties
<1>5. /\ pending' = [pending EXCEPT !["keyboard"] = @ \o sent]
      /\ held' = held /\ packet' = packet /\ moves' = moves /\ lost' = lost
      /\ pointer' = pointer /\ cursor' = cursor
  BY DEF Key, Send
<1> HIDE DEF sent
<1>6. pending["keyboard"] \in Seq(Coming)
  <2>1. pending["keyboard"] \in Seq(Bytes) BY <1>1 DEF BytesTyped, Ps2Devices
  <2>2. \A i \in 1 .. Len(pending["keyboard"]) : pending["keyboard"][i] \in Coming
    BY <1>1, <2>1, ElementOfSeq DEF BytesTyped
  <2> HIDE DEF Coming
  <2> QED BY <2>1, <2>2, SeqDef
<1>7. pending["keyboard"] \o sent \in Seq(Coming)
  <2> HIDE DEF Coming
  <2> QED BY <1>4, <1>6, ConcatProperties
<1>8. pending' \in [Ps2Devices -> Seq(Bytes)] /\ pending'["keyboard"] \in Seq(Coming)
      /\ pending'["mouse"] = pending["mouse"]
  <2>1. Seq(Coming) \subseteq Seq(Bytes)
    <3>1. Coming \subseteq Bytes OBVIOUS
    <3> HIDE DEF Coming
    <3> QED BY <3>1
  <2> HIDE DEF Coming
  <2> QED BY <1>1, <1>5, <1>7, <2>1 DEF BytesTyped, Ps2Devices
<1>9. \A i \in DOMAIN pending'["keyboard"] : pending'["keyboard"][i].of # "mouse"
  <2>1. \A i \in DOMAIN pending'["keyboard"] : pending'["keyboard"][i] \in Coming
    <3> HIDE DEF Coming
    <3> QED BY <1>8
  <2> QED BY <2>1
<1>10. BytesTyped' BY <1>1, <1>5, <1>8, <1>9 DEF BytesTyped
<1>11. InOrder => InOrder' BY <1>5, <1>8, SameOrder
<1> QED BY <1>5, <1>10, <1>11 DEF UiInv

LEMMA MoveKeeps ==
  ASSUME UiInv, NEW m \in Moves, Move(m)
  PROVE  UiInv'
<1>1. BytesTyped BY DEF UiInv
<1>2. m.x \in -255 .. 255 /\ m.y \in -255 .. 255 /\ -m.y \in -255 .. 255 BY MoveRange
<1>3. \A k \in 1 .. 3 : ValueOf(m, k) \in Int
  <2>1. ValueOf(m, 1) \in Int BY <1>2 DEF ValueOf, SignBit
  <2>2. ValueOf(m, 2) \in Int /\ ValueOf(m, 3) \in Int BY <1>2, SignedNine DEF ValueOf
  <2> QED BY <2>1, <2>2
<1> DEFINE sent == Packet(m)
<1>4. /\ sent \in Seq(Bytes) /\ Len(sent) = 3
      /\ \A k \in 1 .. 3 : sent[k].of = "mouse" /\ sent[k].value = ValueOf(m, k)
  <2> DEFINE values == << 8 + 16 * SignBit(m.x) + 32 * SignBit(-m.y), m.x % 256, (-m.y) % 256 >>
  <2>1. sent = [k \in 1 .. 3 |-> Byte("mouse", values[k])] BY DEF Packet, SignBit
  <2>2. values[1] = ValueOf(m, 1) /\ values[2] = ValueOf(m, 2) /\ values[3] = ValueOf(m, 3) BY DEF ValueOf
  <2> HIDE DEF values, sent
  <2>3. \A k \in 1 .. 3 : values[k] = ValueOf(m, k) BY <2>2
  <2>4. \A v \in Int : Byte("mouse", v) \in Bytes /\ Byte("mouse", v).of = "mouse"
                       /\ Byte("mouse", v).value = v
    BY DEF Byte, Bytes
  <2>5. \A k \in 1 .. 3 : sent[k] \in Bytes /\ sent[k].of = "mouse" /\ sent[k].value = ValueOf(m, k)
    BY <1>3, <2>1, <2>3, <2>4
  <2>6. sent = [k \in 1 .. 3 |-> sent[k]] BY <2>1
  <2> QED BY <2>5, <2>6
<1>5. /\ pending' = [pending EXCEPT !["mouse"] = @ \o sent] /\ moves' = Append(moves, m)
      /\ held' = held /\ packet' = packet /\ lost' = lost /\ pointer' = pointer /\ cursor' = cursor
  BY DEF Move, Send
<1> HIDE DEF sent
<1> DEFINE q == pending["mouse"]
           r == q \o sent
<1>6. q \in Seq(Bytes) /\ Len(q) \in Nat /\ Len(moves) \in Nat /\ Near \in 0 .. 3 /\ Answers \in 0 .. 1
      /\ Len(packet) \in 0 .. 2
  BY <1>1, Lengths DEF Ps2Devices
<1>7. r \in Seq(Bytes) /\ Len(r) = Len(q) + 3
      /\ \A i \in 1 .. Len(q) + 3 : r[i] = IF i <= Len(q) THEN q[i] ELSE sent[i - Len(q)]
  <2> HIDE DEF q
  <2>1. r \in Seq(Bytes) /\ Len(r) = Len(q) + Len(sent) BY <1>4, <1>6, ConcatProperties
  <2>2. \A i \in 1 .. Len(q) + Len(sent) : r[i] = IF i <= Len(q) THEN q[i] ELSE sent[i - Len(q)]
    BY <1>4, <1>6, ConcatProperties
  <2> HIDE DEF r
  <2> QED BY <1>4, <2>1, <2>2
<1>8. pending' \in [Ps2Devices -> Seq(Bytes)] /\ pending'["mouse"] = r
      /\ pending'["keyboard"] = pending["keyboard"]
  BY <1>1, <1>5, <1>7 DEF BytesTyped, Ps2Devices
<1>9. /\ moves' \in Seq(Moves) /\ Len(moves') = Len(moves) + 1
      /\ \A b, n : n \in Nat /\ n <= 3 * Len(moves) /\ Means(b, n, moves) => Means(b, n, moves')
      /\ \A b, n : \A k \in 1 .. 3 :
           n = 3 * Len(moves) + k /\ b.value = ValueOf(m, k) => Means(b, n, moves')
  BY <1>1, <1>5, StillMeans
<1>10. BytesTyped' BY <1>1, <1>5, <1>8, <1>9 DEF BytesTyped
<1>11. ASSUME InOrder PROVE InOrder'
  <2>1. /\ Answers = 1 => Near = 0
        /\ Near + Len(q) - Answers = 3 * Len(moves)
        /\ \A i \in 1 .. Len(packet) : Means(packet[i], i, moves)
        /\ held.of = "mouse" => Means(held, Len(packet) + 1, moves)
        /\ \A i \in Answers + 1 .. Len(q) : q[i].of = "mouse" /\ Means(q[i], Near + i - Answers, moves)
    BY <1>11 DEF InOrder
  <2>2. Near' = Near BY <1>5 DEF Near
  <2>3. Answers = (IF q # <<>> /\ q[1].of = "init" THEN 1 ELSE 0)
        /\ Answers' = (IF r # <<>> /\ r[1].of = "init" THEN 1 ELSE 0)
    BY <1>8 DEF Answers
  <2> HIDE DEF r
  <2>4. Answers' = Answers
    <3>1. CASE Len(q) = 0
      <4>1. r[1] = sent[1] /\ q = <<>> BY <1>6, <1>7, <3>1, EmptySeq
      <4> QED BY <1>4, <2>3, <4>1
    <3>2. CASE Len(q) # 0
      <4>1. r[1] = q[1] /\ q # <<>> /\ r # <<>> BY <1>6, <1>7, <3>2
      <4> QED BY <2>3, <4>1
    <3> QED BY <3>1, <3>2
  <2> HIDE DEF q
  <2>5. Near + Len(r) - Answers = 3 * Len(moves') BY <1>6, <1>7, <1>9, <2>1
  <2>6. Len(packet) <= 3 * Len(moves)
        /\ (held.of = "mouse" => Len(packet) + 1 <= 3 * Len(moves))
    <3>1. Len(packet) <= Near /\ (held.of = "mouse" => Len(packet) + 1 = Near) BY <1>6 DEF Near
    <3>2. Near <= 3 * Len(moves)
      <4>1. CASE Answers = 1 BY <1>6, <2>1, <4>1
      <4>2. CASE Answers = 0 BY <1>6, <2>1, <4>2
      <4> QED BY <1>6, <4>1, <4>2
    <3> QED BY <1>6, <3>1, <3>2
  <2>7. \A i \in 1 .. Len(packet) : Means(packet[i], i, moves') BY <1>6, <1>9, <2>1, <2>6
  <2>8. held.of = "mouse" => Means(held, Len(packet) + 1, moves')
    BY <1>6, <1>9, <2>1, <2>6
  <2>9. ASSUME NEW i \in Answers + 1 .. Len(r), NEW n, n = Near + i - Answers
        PROVE  r[i].of = "mouse" /\ Means(r[i], n, moves')
    <3>1. CASE i <= Len(q)
      <4>1. r[i] = q[i] /\ i \in Answers + 1 .. Len(q) BY <1>6, <1>7, <2>9, <3>1
      <4>2. q[i].of = "mouse" /\ Means(q[i], n, moves) BY <2>1, <2>9, <4>1
      <4>3. n \in Nat /\ n <= 3 * Len(moves) BY <1>6, <2>1, <2>9, <4>1
      <4>4. Means(q[i], n, moves') BY <1>9, <4>2, <4>3
      <4> QED BY <4>1, <4>2, <4>4
    <3>2. CASE ~(i <= Len(q))
      <4>1. i - Len(q) \in 1 .. 3 /\ r[i] = sent[i - Len(q)] BY <1>6, <1>7, <2>9, <3>2
      <4>2. n = 3 * Len(moves) + (i - Len(q))
        <5>1. Near + Len(q) - Answers = 3 * Len(moves) /\ n = Near + i - Answers /\ i \in Int
          BY <1>6, <2>1, <2>9
        <5>2. \A a, c, d, l \in Int : a + d - c = a + l - c + (d - l) OBVIOUS
        <5> QED BY <1>6, <5>1, <5>2
      <4>3. r[i].of = "mouse" /\ r[i].value = ValueOf(m, i - Len(q)) BY <1>4, <4>1
      <4> QED BY <1>9, <4>1, <4>2, <4>3
    <3> QED BY <3>1, <3>2
  <2> QED BY <1>5, <1>8, <2>1, <2>2, <2>4, <2>5, <2>7, <2>8, <2>9 DEF InOrder
<1> QED BY <1>5, <1>10, <1>11 DEF UiInv

LEMMA PresentKeeps ==
  ASSUME UiInv, NEW of \in Ps2Devices, Present(of)
  PROVE  UiInv'
<1>1. BytesTyped BY DEF UiInv
<1>2. /\ held = NoByte /\ pending[of] # <<>> /\ held' = Head(pending[of])
      /\ pending' = [pending EXCEPT ![of] = Tail(@)]
      /\ moves' = moves /\ packet' = packet /\ lost' = lost /\ pointer' = pointer /\ cursor' = cursor
  BY DEF Present
<1> DEFINE q == pending[of]
           r == Tail(q)
<1>3. q \in Seq(Bytes) /\ Len(q) \in Nat /\ Near \in 0 .. 3 /\ Answers \in 0 .. 1 /\ Len(packet) \in 0 .. 2
      /\ Len(moves) \in Nat
  BY <1>1, Lengths
<1>4. /\ r \in Seq(Bytes) /\ Len(r) = Len(q) - 1 /\ \A i \in 1 .. Len(r) : r[i] = q[i + 1]
      /\ Head(q) \in Bytes /\ Head(q) = q[1] /\ Len(q) # 0
  <2> HIDE DEF q
  <2>1. q # <<>> BY <1>2 DEF q
  <2> QED BY <1>3, <2>1, HeadTailProperties, EmptySeq
<1>5. pending' \in [Ps2Devices -> Seq(Bytes)] /\ pending'[of] = r
      /\ \A d \in Ps2Devices : d # of => pending'[d] = pending[d]
  BY <1>1, <1>2, <1>4 DEF BytesTyped
<1>6. \A i \in DOMAIN pending'["keyboard"] : pending'["keyboard"][i].of # "mouse"
  <2>1. CASE of = "mouse" BY <1>1, <1>5, <2>1 DEF BytesTyped, Ps2Devices
  <2>2. CASE of = "keyboard"
    <3>1. \A i \in DOMAIN q : q[i].of # "mouse" BY <1>1, <2>2 DEF BytesTyped
    <3>2. pending'["keyboard"] = r /\ DOMAIN r = 1 .. Len(r) /\ DOMAIN q = 1 .. Len(q) BY <1>3, <1>4, <1>5, <2>2
    <3> HIDE DEF q, r
    <3> QED BY <1>3, <1>4, <3>1, <3>2
  <2> QED BY <2>1, <2>2 DEF Ps2Devices
<1>7. BytesTyped' BY <1>1, <1>2, <1>4, <1>5, <1>6 DEF BytesTyped
<1>8. held.of = "none" BY <1>2, InitBytes
<1>9. ASSUME InOrder, of = "keyboard" PROVE InOrder'
  <2>1. DOMAIN q = 1 .. Len(q) /\ 1 \in 1 .. Len(q) BY <1>3, <1>4
  <2>2. held'.of # "mouse" BY <1>1, <1>2, <1>4, <1>9, <2>1 DEF BytesTyped
  <2>3. pending'["mouse"] = pending["mouse"] BY <1>5, <1>9 DEF Ps2Devices
  <2> QED BY <1>2, <1>8, <1>9, <2>2, <2>3, SameOrder
<1>10. ASSUME InOrder, of = "mouse" PROVE InOrder'
  <2>1. /\ Answers = 1 => Near = 0
        /\ Near + Len(q) - Answers = 3 * Len(moves)
        /\ \A i \in 1 .. Len(packet) : Means(packet[i], i, moves)
        /\ \A i \in Answers + 1 .. Len(q) : q[i].of = "mouse" /\ Means(q[i], Near + i - Answers, moves)
    BY <1>10 DEF InOrder
  <2>2. Near = Len(packet) /\ Near' = Len(packet) + IF held'.of = "mouse" THEN 1 ELSE 0
    BY <1>2, <1>3, <1>8 DEF Near
  <2>3. Answers = (IF q # <<>> /\ q[1].of = "init" THEN 1 ELSE 0)
        /\ Answers' = (IF r # <<>> /\ r[1].of = "init" THEN 1 ELSE 0)
        /\ pending'["mouse"] = r /\ held' = q[1]
    BY <1>2, <1>4, <1>5, <1>10 DEF Answers
  <2>4. q # <<>> BY <1>2
  <2> HIDE DEF q, r
  <2>5. Answers' = 0
    <3>1. CASE r = <<>> BY <2>3, <3>1
    <3>2. CASE r # <<>>
      <4>1. Len(r) # 0 BY <1>4, <3>2, EmptySeq
      <4>2. 2 \in Answers + 1 .. Len(q) /\ r[1] = q[2] BY <1>3, <1>4, <4>1
      <4>3. r[1].of = "mouse" BY <2>1, <4>2
      <4> QED BY <2>3, <4>3
    <3> QED BY <3>1, <3>2
  <2>6. CASE Answers = 1
    <3>1. Near = 0 /\ Near' = 0 BY <1>3, <2>1, <2>2, <2>3, <2>6
    <3>2. held'.of # "mouse" BY <2>3, <2>6
    <3>3. Near' + Len(r) - Answers' = 3 * Len(moves) BY <1>3, <1>4, <2>1, <2>5, <2>6, <3>1
    <3>4. ASSUME NEW i \in 1 .. Len(r) PROVE r[i].of = "mouse" /\ Means(r[i], i, moves)
      <4>1. i + 1 \in Answers + 1 .. Len(q) /\ r[i] = q[i + 1] /\ Near + (i + 1) - Answers = i
        BY <1>3, <1>4, <2>6, <3>1
      <4> QED BY <2>1, <4>1
    <3>5. \A i \in Answers' + 1 .. Len(r) : r[i].of = "mouse" /\ Means(r[i], Near' + i - Answers', moves)
      BY <1>3, <1>4, <2>5, <3>1, <3>4
    <3> QED BY <1>2, <2>1, <2>3, <2>5, <3>1, <3>2, <3>3, <3>5 DEF InOrder
  <2>7. CASE Answers = 0
    <3>1. 1 \in Answers + 1 .. Len(q) BY <1>3, <1>4, <2>7
    <3>2. held'.of = "mouse" /\ Means(held', Len(packet) + 1, moves)
      <4>1. q[1].of = "mouse" /\ Means(q[1], Near + 1 - Answers, moves) BY <2>1, <3>1
      <4>2. Near + 1 - Answers = Len(packet) + 1 BY <1>3, <2>2, <2>7
      <4> QED BY <2>3, <4>1, <4>2
    <3>3. Near' = Near + 1 BY <1>3, <2>2, <3>2
    <3>4. Near' + Len(r) - Answers' = 3 * Len(moves)
      <4>1. Len(r) = Len(q) - 1 /\ Near + Len(q) - 0 = 3 * Len(moves) BY <1>4, <2>1, <2>7
      <4>2. \A a, b \in Int : a + 1 + (b - 1) - 0 = a + b - 0 OBVIOUS
      <4> QED BY <1>3, <2>5, <3>3, <4>1, <4>2
    <3>5. ASSUME NEW i \in Answers' + 1 .. Len(r)
          PROVE  r[i].of = "mouse" /\ Means(r[i], Near' + i - Answers', moves)
      <4>1. i + 1 \in Answers + 1 .. Len(q) /\ r[i] = q[i + 1]
            /\ Near + (i + 1) - Answers = Near' + i - Answers'
        BY <1>3, <1>4, <2>5, <2>7, <3>3
      <4> QED BY <2>1, <4>1
    <3>6. \A i \in 1 .. Len(packet) : Means(packet[i], i, moves) BY <2>1
    <3>7. packet' = packet /\ moves' = moves /\ pending'["mouse"] = r /\ Answers' # 1
      BY <1>2, <2>3, <2>5
    <3>8. Means(held', Len(packet') + 1, moves') BY <3>2, <3>7
    <3> QED BY <3>4, <3>5, <3>6, <3>7, <3>8 DEF InOrder
  <2> QED BY <1>3, <2>6, <2>7
<1>11. InOrder => InOrder' BY <1>9, <1>10 DEF Ps2Devices
<1> QED BY <1>2, <1>7, <1>11 DEF UiInv

\* Handlers come and go, the keyboard's takes a byte, and the USB devices report.
LEMMA OtherKeeps ==
  ASSUME UiInv, UNCHANGED <<packet, pending, moves>>,
         \/ held' = held /\ lost' = lost
         \/ held' = NoByte /\ lost' = (lost \/ held.of = "mouse"),
         pointer = cursor => pointer' = cursor'
  PROVE  UiInv'
<1>1. BytesTyped BY DEF UiInv
<1>2. BytesTyped' BY <1>1 DEF BytesTyped
<1>3. ASSUME InOrder, ~lost' PROVE InOrder'
  <2>1. held'.of = "mouse" <=> held.of = "mouse" BY <1>3, InitBytes
  <2>2. held.of = "mouse" => held' = held BY <1>3
  <2> QED BY <1>3, <2>1, <2>2, SameOrder
<1>4. ~lost' => ~lost OBVIOUS
<1> QED BY <1>2, <1>3, <1>4 DEF UiInv

LEMMA MouseByteKeeps ==
  ASSUME UiInv, MouseByte
  PROVE  UiInv'
<1>1. BytesTyped BY DEF UiInv
<1> DEFINE p == Append(packet, held)
<1>2. held \in Bytes /\ held' = NoByte /\ pending' = pending /\ lost' = (lost \/ held.of # "mouse")
  BY <1>1 DEF MouseByte, BytesTyped
<1>3. /\ p \in Seq(Bytes) /\ Len(p) = Len(packet) + 1
      /\ \A i \in 1 .. Len(packet) : p[i] = packet[i]
      /\ p[Len(packet) + 1] = held
  BY <1>1, <1>2, AppendProperties DEF BytesTyped
<1>4. Len(packet) \in 0 .. 2 /\ Len(moves) \in Nat /\ Len(pending["mouse"]) \in Nat
      /\ Near \in 0 .. 3 /\ Answers \in 0 .. 1
  BY <1>1, Lengths DEF Ps2Devices
<1>5. IF Len(p) < 3 THEN packet' = p /\ UNCHANGED <<pointer, moves, cursor>>
      ELSE /\ packet' = <<>>
           /\ pointer' = Moved(pointer, Of(PacketReport(p), X), Of(PacketReport(p), Y))
           /\ IF lost' THEN UNCHANGED <<moves, cursor>>
              ELSE cursor' = Moved(cursor, Head(moves).x, Head(moves).y) /\ moves' = Tail(moves)
  BY DEF MouseByte, HandleReport, Arrived
<1> HIDE DEF p
<1>6. packet' \in Seq(Bytes) /\ Len(packet') < 3
  <2>1. CASE Len(p) < 3 BY <1>3, <1>5, <2>1
  <2>2. CASE ~(Len(p) < 3)
    <3>1. packet' = <<>> BY <1>5, <2>2
    <3> QED BY <3>1
  <2> QED BY <2>1, <2>2
<1>7. ASSUME lost' PROVE UiInv'
  <2>1. moves' = moves BY <1>5, <1>7
  <2> QED BY <1>1, <1>2, <1>6, <1>7, <2>1 DEF UiInv, BytesTyped
<1>8. ASSUME ~lost' PROVE UiInv'
  <2>1. held.of = "mouse" /\ InOrder /\ pointer = cursor BY <1>2, <1>8 DEF UiInv
  <2>2. Near = Len(packet) + 1 BY <2>1 DEF Near
  <2>3. Answers = 0 /\ Answers' = 0
    <3>1. Answers # 1 BY <1>4, <2>1, <2>2 DEF InOrder
    <3>2. Answers' = Answers BY <1>2 DEF Answers
    <3> QED BY <1>4, <3>1, <3>2
  <2>4. /\ Near + Len(pending["mouse"]) = 3 * Len(moves)
        /\ \A i \in 1 .. Len(packet) : Means(packet[i], i, moves)
        /\ Means(held, Len(packet) + 1, moves)
        /\ \A i \in 1 .. Len(pending["mouse"]) :
             pending["mouse"][i].of = "mouse" /\ Means(pending["mouse"][i], Near + i, moves)
    <3>1. \A i \in Int : Near + i - Answers = Near + i BY <1>4, <2>3
    <3> QED BY <1>4, <2>1, <2>3, <3>1 DEF InOrder
  <2>5. \A i \in 1 .. Len(p) : Means(p[i], i, moves)
    <3>1. \A i \in 1 .. Len(p) : i \in 1 .. Len(packet) \/ i = Len(packet) + 1 BY <1>3, <1>4
    <3> QED BY <1>3, <2>4, <3>1
  <2>6. Near' = Len(packet')
    <3>1. held'.of # "mouse" BY <1>2, InitBytes
    <3>2. Len(packet') \in Nat BY <1>6, LenProperties
    <3> QED BY <3>1, <3>2 DEF Near
  <2>7. CASE Len(p) < 3
    <3>1. packet' = p /\ moves' = moves /\ pointer' = pointer /\ cursor' = cursor BY <1>5, <2>7
    <3>2. BytesTyped' BY <1>1, <1>2, <1>6, <3>1 DEF BytesTyped
    <3>3. Near' = Near BY <1>3, <2>2, <2>6, <3>1
    <3>4. held'.of # "mouse" BY <1>2, InitBytes
    <3>5. InOrder' BY <1>2, <1>4, <2>3, <2>4, <2>5, <3>1, <3>3, <3>4 DEF InOrder
    <3> QED BY <2>1, <3>1, <3>2, <3>5 DEF UiInv
  <2>8. CASE ~(Len(p) < 3)
    <3>1. Len(p) = 3 /\ Near = 3 BY <1>3, <1>4, <2>2, <2>8
    <3>2. moves # <<>> /\ Len(moves) >= 1
      <4>1. Len(moves) >= 1 BY <1>4, <2>4, <3>1
      <4>2. Len(<<>>) = 0 OBVIOUS
      <4> QED BY <4>1, <4>2
    <3>3. /\ packet' = <<>> /\ moves' = Tail(moves)
          /\ pointer' = Moved(pointer, Of(PacketReport(p), X), Of(PacketReport(p), Y))
          /\ cursor' = Moved(cursor, Head(moves).x, Head(moves).y)
      BY <1>5, <1>8, <2>8
    <3>4. /\ Head(moves) \in Moves /\ Head(moves) = moves[1]
          /\ moves' \in Seq(Moves) /\ Len(moves') = Len(moves) - 1
          /\ \A b, l : \A n \in Nat : l = n + 3 /\ Means(b, l, moves) => Means(b, n, moves')
      BY <1>1, <3>2, <3>3, NextMeans
    <3>5. \A k \in 1 .. 3 : p[k].value = ValueOf(Head(moves), k)
      <4> SUFFICES ASSUME NEW k \in 1 .. 3 PROVE p[k].value = ValueOf(moves[1], k) BY <3>4
      <4>1. Means(p[k], k, moves) BY <2>5, <3>1
      <4>2. 1 \in 1 .. Len(moves) /\ k = 3 * (1 - 1) + k BY <1>4, <3>2
      <4> QED BY <4>1, <4>2 DEF Means
    <3>6. Of(PacketReport(p), X) = Head(moves).x /\ Of(PacketReport(p), Y) = Head(moves).y
      BY <3>4, <3>5, PacketRead
    <3>7. pointer' = cursor' BY <2>1, <3>3, <3>6
    <3>8. BytesTyped' BY <1>1, <1>2, <1>6, <3>4 DEF BytesTyped
    <3>9. Near' = 0 /\ Len(packet') = 0 BY <2>6, <3>3
    <3>10. \A i \in 1 .. Len(pending["mouse"]) : Means(pending["mouse"][i], i, moves')
      <4> SUFFICES ASSUME NEW i \in 1 .. Len(pending["mouse"])
                   PROVE  Means(pending["mouse"][i], i, moves')
        OBVIOUS
      <4>1. Means(pending["mouse"][i], Near + i, moves) BY <2>4
      <4>2. i \in Nat /\ Near + i = i + 3 BY <1>4, <3>1
      <4> QED BY <3>4, <4>1, <4>2
    <3>11. Len(pending["mouse"]) = 3 * Len(moves')
      <4>1. 3 + Len(pending["mouse"]) = 3 * Len(moves) /\ Len(moves') = Len(moves) - 1 BY <2>4, <3>1, <3>4
      <4>2. \A a, b \in Nat : 3 + a = 3 * b => a = 3 * (b - 1) OBVIOUS
      <4> QED BY <1>4, <4>1, <4>2
    <3>12. InOrder'
      <4>1. held'.of # "mouse" BY <1>2, InitBytes
      <4>2. \A i \in 1 .. Len(pending["mouse"]) : Near' + i - Answers' = i BY <1>4, <2>3, <3>9
      <4>3. Near' + Len(pending["mouse"]) - Answers' = 3 * Len(moves') BY <1>4, <2>3, <3>9, <3>11
      <4> QED BY <1>2, <1>4, <2>3, <2>4, <3>9, <3>10, <4>1, <4>2, <4>3 DEF InOrder
    <3> QED BY <3>7, <3>8, <3>12 DEF UiInv
  <2> QED BY <2>7, <2>8
<1> QED BY <1>7, <1>8

\* What a listener understands of a mouse's report are its movements.
LEMMA MovementsMeant ==
  ASSUME NEW d \in Devices, d.type = Mouse, NEW input, NEW u \in {X, Y}
  PROVE  Of(Meant(d, input), u) = Of(input, u)
<1> DEFINE usages == {v \in DOMAIN input : input[v] # 0 \/ v \in {X, Y}}
           told(v) == IF v \in d.slots THEN d.base + input[v] ELSE v
<1>1. d.slots = {} BY UiAssumption
<1>2. \A v : told(v) = v BY <1>1
<1>3. Meant(d, input) = [v \in {told(w) : w \in usages} |-> IF v \in DOMAIN input THEN input[v] ELSE 1]
  BY DEF Meant
<1>4. u \in usages <=> u \in DOMAIN input OBVIOUS
<1> HIDE DEF usages, told
<1>5. {told(w) : w \in usages} = usages BY <1>2
<1>6. Meant(d, input) = [v \in usages |-> IF v \in DOMAIN input THEN input[v] ELSE 1] BY <1>3, <1>5
<1> QED BY <1>4, <1>6 DEF Of

LEMMA UsbReportKeeps ==
  ASSUME UiInv, Understood', NEW d \in Devices, NEW input \in d.inputs, UsbReport(d, input)
  PROVE  UiInv'
<1> DEFINE read == Status(Parsed[d].input, Report(d, input))
<1>1. held' = held /\ UNCHANGED <<packet, pending, moves>> /\ lost' = lost
  BY DEF UsbReport, ps2
<1>2. /\ Parsed[d].deviceType = d.type
      /\ d.type = Mouse => \A u \in {X, Y} : Of(read, u) = Of(input, u)
  <2>1. misread' = {} BY DEF Understood
  <2>2. misread' = IF Parsed[d].deviceType = d.type /\ read = Meant(d, input) THEN {}
                   ELSE {[read |-> read, meant |-> Meant(d, input)]}
    BY DEF UsbReport
  <2> HIDE DEF read
  <2>3. Parsed[d].deviceType = d.type /\ read = Meant(d, input) BY <2>1, <2>2
  <2> QED BY <2>3, MovementsMeant
<1>3. pointer' = IF Parsed[d].deviceType = Mouse THEN Moved(pointer, Of(read, X), Of(read, Y)) ELSE pointer
  BY DEF UsbReport, HandleReport
<1>4. cursor' = IF d.type = Mouse THEN Moved(cursor, Of(input, X), Of(input, Y)) ELSE cursor
  BY DEF UsbReport
<1> HIDE DEF read
<1>5. pointer = cursor => pointer' = cursor' BY <1>2, <1>3, <1>4
<1> QED BY <1>1, <1>5, OtherKeeps

LEMMA UiStep == ASSUME UiInv, Understood', [Next]_vars PROVE UiInv'
<1>1. CASE UNCHANGED vars BY <1>1, OtherKeeps DEF vars
<1>2. CASE \E d \in Devices : \E input \in d.inputs : UsbReport(d, input) BY <1>2, UsbReportKeeps
<1>3. CASE \E k \in Keys, prefix \in { <<>>, << Byte("keyboard", 224) >> }, released \in BOOLEAN :
             Key(k, prefix, released)
  BY <1>3, KeyKeeps
<1>4. CASE \E m \in Moves : Move(m) BY <1>4, MoveKeeps
<1>5. CASE \E of \in Ps2Devices : Present(of) BY <1>5, PresentKeeps
<1>6. CASE \E of \in Ps2Devices : Interrupt(of) BY <1>6, OtherKeeps DEF Interrupt
<1>7. CASE KeyboardByte BY <1>7, OtherKeeps DEF KeyboardByte
<1>8. CASE MouseByte BY <1>8, MouseByteKeeps
<1>9. CASE Return BY <1>9, OtherKeeps DEF Return
<1> QED BY <1>1, <1>2, <1>3, <1>4, <1>5, <1>6, <1>7, <1>8, <1>9 DEF Next, Ps2Devices

-----------------------------------------------------------------------------

\* While the reports of USB devices are understood and no PS/2 handler has taken
\* a byte that was not for it, every byte that the mouse has sent is in its place
\* among those of the movements that have not arrived, and no other byte is
\* between, whatever the order of bytes, interrupts and reports.
THEOREM UiInvariant == Spec /\ []Understood => []UiInv
<1>1. UiInv /\ Understood' /\ [Next]_vars => UiInv' BY UiStep
<1> QED BY <1>1, UiInit, PTL DEF Spec

\* While the reports of USB devices are understood, the pointer is where the
\* movements lead, each arrives once and in the order that the user made them,
\* and none is missing when no byte of the mouse is under way, until a PS/2
\* handler takes a byte that was not for it.
THEOREM UiPointerFollows == Spec /\ []Understood => []PointerFollows
<1>1. UiInv => PointerFollows
  <2> SUFFICES ASSUME UiInv, ~lost
               PROVE  /\ pointer = cursor
                      /\ pending["mouse"] = <<>> /\ held.of # "mouse" /\ packet = <<>> => moves = <<>>
    BY DEF PointerFollows
  <2>1. BytesTyped /\ InOrder /\ pointer = cursor BY DEF UiInv
  <2>2. ASSUME pending["mouse"] = <<>>, held.of # "mouse", packet = <<>> PROVE moves = <<>>
    <3>1. Near = 0 /\ Answers = 0 /\ Len(pending["mouse"]) = 0 BY <2>2 DEF Near, Answers
    <3>2. 3 * Len(moves) = 0 /\ Len(moves) \in Nat BY <2>1, <3>1, Lengths DEF InOrder
    <3>3. moves \in Seq(Moves) BY <2>1 DEF BytesTyped
    <3> QED BY <3>2, <3>3, EmptySeq
  <2> QED BY <2>1, <2>2
<1> QED BY <1>1, UiInvariant, PTL
=============================================================================
