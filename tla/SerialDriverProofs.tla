------------------------- MODULE SerialDriverProofs -------------------------
(***************************************************************************)
(* Theorems about the serial driver: how it gets its port, for a list of   *)
(* any length, any kinds of devices and any settings; and what it delivers, *)
(* for frames of any size and any data, any number of them, pieces of any  *)
(* size and any number of lost bytes.                                      *)
(***************************************************************************)
EXTENDS SerialDriver, SequenceTheorems, WellFoundedInduction, TLAPS

-----------------------------------------------------------------------------
(* The port.                                                               *)

\* No device before p works.
NoneBefore(p) == \A q \in 1 .. p - 1 : kind[q] # "good"

\* While the list is gone through, the devices before the next one do not work
\* and none is held; afterwards the port held is the first that does.
Search ==
    /\ stage = "open" => ~ is_open /\ NoneBefore(next)
    /\ is_open => fd # NoPort /\ fd \in opened /\ kind[fd] = "good" /\ NoneBefore(fd)
                      /\ setting[fd] \in Supported
    /\ stage # "open" /\ ~ is_open => NoneBefore(Ports + 1)

\* The inductive invariant of the port.
PortInv == UartTypeOK /\ Search

LEMMA PortInitially == UartInit => PortInv
<1> SUFFICES ASSUME UartInit PROVE PortInv
  OBVIOUS
<1>1. Ports \in Nat
  BY UartAssumption
<1>2. 0 \in 0 .. Ports /\ 1 \in 1 .. Ports + 1
  BY <1>1
<1>3. setting \in [1 .. Ports -> Supported \cup {Factory}]
  BY DEF UartInit
<1>4. UartTypeOK
  BY <1>2, <1>3 DEF UartInit, UartTypeOK, NoPort
<1>5. Search
  BY DEF UartInit, Search, NoneBefore
<1> QED
  BY <1>4, <1>5 DEF PortInv

\* A device that does not work is passed over.
LEMMA FailureKeeps ==
    ASSUME PortInv, NEW p \in 1 .. Ports, OpenFails(p) \/ SetUpFails(p)
    PROVE  PortInv'
<1>1. Ports \in Nat /\ Default \in Supported
  BY UartAssumption
<1>2. kind[p] # "good" /\ stage = "open" /\ next = p /\ next' = p + 1
  BY <1>1 DEF OpenFails, SetUpFails, SetsParam, Try, NoPort
<1>3. UNCHANGED <<kind, asked, is_open, setting, stage>>
  BY DEF OpenFails, SetUpFails, Try
<1>4. \A q \in 1 .. p : kind[q] # "good"
  BY <1>2 DEF PortInv, Search, NoneBefore
<1>5. UartTypeOK'
  <2>1. fd' \in 0 .. Ports /\ opened' \subseteq 1 .. Ports
    <3>1. 0 \in 0 .. Ports /\ p \in 0 .. Ports
      BY <1>1
    <3>2. opened \subseteq 1 .. Ports
      BY DEF PortInv, UartTypeOK
    <3>3. CASE OpenFails(p)
      BY <3>1, <3>2, <3>3 DEF OpenFails, NoPort
    <3>4. CASE SetUpFails(p)
      BY <3>1, <3>2, <3>4 DEF SetUpFails
    <3> QED
      BY <3>3, <3>4
  <2> QED
    BY <1>1, <1>2, <1>3, <2>1 DEF PortInv, UartTypeOK
<1>6. Search'
  BY <1>2, <1>3, <1>4 DEF PortInv, Search, NoneBefore
<1> QED
  BY <1>5, <1>6 DEF PortInv

LEMMA SuccessKeeps ==
    ASSUME PortInv, NEW p \in 1 .. Ports, OpenSucceeds(p)
    PROVE  PortInv'
<1>1. Ports \in Nat /\ Default \in Supported
  BY UartAssumption
<1>2. kind[p] = "good" /\ stage = "open" /\ next = p /\ p # NoPort /\ NoneBefore(p)
  BY DEF OpenSucceeds, SetsParam, Try, PortInv, Search
<1>3. /\ fd' = p /\ is_open' = TRUE /\ opened' = opened \cup {p} /\ stage' = "param"
      /\ setting' = [setting EXCEPT ![p] = Default]
      /\ UNCHANGED <<kind, asked, next>>
  BY DEF OpenSucceeds, Try
<1>4. setting' \in [1 .. Ports -> Supported \cup {Factory}] /\ setting'[p] = Default
  BY <1>1, <1>3 DEF PortInv, UartTypeOK
<1>5. UartTypeOK'
  BY <1>1, <1>3, <1>4 DEF PortInv, UartTypeOK
<1>6. Search'
  BY <1>1, <1>2, <1>3, <1>4 DEF Search, NoneBefore
<1> QED
  BY <1>5, <1>6 DEF PortInv

LEMMA CloseKeeps == ASSUME PortInv, CloseAll PROVE PortInv'
<1>1. Ports \in Nat
  BY UartAssumption
<1>2. stage = "open" /\ next = Ports + 1 /\ ~ is_open /\ NoneBefore(next)
  BY <1>1 DEF CloseAll, PortInv, UartTypeOK, Search
<1> QED
  BY <1>1, <1>2 DEF CloseAll, PortInv, UartTypeOK, Search, NoneBefore

\* A setting that setParam() refuses leaves the one that is in force.
LEMMA SetNodeParamKeeps == ASSUME PortInv, SetNodeParam PROVE PortInv'
<1>1. /\ stage = "param" /\ stage' = "done"
      /\ UNCHANGED <<kind, asked, next, fd, is_open, opened>>
  BY DEF SetNodeParam
<1>2. \/ setting' = [setting EXCEPT ![fd] = asked] /\ asked \in Supported
      \/ setting' = setting
  BY DEF SetNodeParam, SetsParam
<1>3. setting' \in [1 .. Ports -> Supported \cup {Factory}]
  BY <1>2 DEF PortInv, UartTypeOK
<1>4. is_open => setting'[fd] \in Supported
  BY <1>2 DEF PortInv, UartTypeOK, Search
<1>5. UartTypeOK'
  BY <1>1, <1>3 DEF PortInv, UartTypeOK
<1>6. Search'
  BY <1>1, <1>4 DEF PortInv, Search, NoneBefore
<1> QED
  BY <1>5, <1>6 DEF PortInv

LEMMA InitUartKeeps == PortInv /\ [InitUart]_uartVars => PortInv'
<1>1. CASE UNCHANGED uartVars
  BY <1>1 DEF uartVars, PortInv, UartTypeOK, Search, NoneBefore
<1> QED
  BY <1>1, FailureKeeps, SuccessKeeps, CloseKeeps, SetNodeParamKeeps DEF InitUart

LEMMA SearchFinds == PortInv => PortSound
<1> SUFFICES ASSUME PortInv PROVE PortSound
  OBVIOUS
<1>1. Ports \in Nat
  BY UartAssumption
<1>2. OpenIsConfigured
  BY DEF PortInv, Search, OpenIsConfigured
<1>3. CASE is_open
  <2>1. fd \in 1 .. Ports
    BY <1>1, <1>3 DEF PortInv, UartTypeOK, Search, NoPort
  <2> QED
    BY <1>2, <1>3, <2>1 DEF PortInv, Search, NoneBefore, PortSound, FirstWorkingPort
<1>4. CASE ~ is_open
  <2>1. stage = "done" => \A p \in 1 .. Ports : kind[p] # "good"
    BY <1>1, <1>4 DEF PortInv, Search, NoneBefore
  <2> QED
    BY <1>2, <1>4, <2>1 DEF PortSound, FirstWorkingPort
<1> QED
  BY <1>3, <1>4

-----------------------------------------------------------------------------
(* The link: its inductive invariant.                                      *)

Bytes(n) == [frame : 1 .. n, pos : 1 .. FrameSize]

\* Byte b was sent k bytes after a or later; from two frames on, whatever k is.
Apart(a, b, k) ==
    \/ b.frame >= a.frame + 2
    \/ b.frame = a.frame + 1 /\ b.pos + FrameSize >= a.pos + k
    \/ b.frame = a.frame /\ b.pos >= a.pos + k

\* The first byte of a delivery.
StartOf(i) == received[i][1]

\* What is on the wire is in the order it was sent.
InOrder == \A j, k \in 1 .. Len(wire) : j < k => Before(wire[j], wire[k])

\* The receiver has read as far as the byte d: what was sent after d is on the
\* wire or lost, and nothing else is on the wire.
Ahead(d) ==
    /\ \A k \in 1 .. Len(wire) : Before(d, wire[k])
    /\ \A b \in Bytes(sent) :
          Before(d, b) => b \in lost \/ \E k \in 1 .. Len(wire) : wire[k] = b
\* What was delivered is not after d.
Behind(d) == \A j \in 1 .. Len(received) : ~ Before(d, EndOf(j))

\* A byte up to b, after the end of the first n deliveries, was lost or looks like
\* a header.
Excused(n, b) ==
    \E l \in lost \cup alike : ~ Before(b, l) /\ \A j \in 1 .. n : Before(EndOf(j), l)

\* The header that was just read up to d is a whole one, or there is an excuse since
\* the last delivery; and its two bytes and the data of a delivery before it are
\* what lies between the beginning of that one and d, or less.
Synchronized(d) ==
    /\ d.frame \in 1 .. sent
    /\ \A j \in 1 .. Len(received) :
          Before(EndOf(j), d) /\ Apart(StartOf(j), d, DataSize + 1)
    /\ d.pos = HeaderSize \/ Excused(Len(received), d)

Positions(n) == [frame : 0 .. n, pos : 0 .. FrameSize]
Progress == \E d \in Positions(sent) : Ahead(d) /\ Behind(d) /\ (pc = "data" => Synchronized(d))

\* A delivery is as long as the data, and a spoilt one has an excuse of its own.
Delivered ==
    /\ \A i \in 1 .. Len(received) :
          Len(received[i]) = DataSize /\ Apart(StartOf(i), EndOf(i), DataSize - 1)
    /\ \A i, j \in 1 .. Len(received) : i < j => StartOf(i).frame < StartOf(j).frame
    /\ \A i \in Spoilt : Excused(i - 1, EndOf(i))

LinkInv == LinkTypeOK /\ InOrder /\ Progress /\ Delivered

LEMMA Sizes == /\ DataSize \in Nat /\ DataSize >= 1
               /\ HeaderSize = 2 /\ FrameSize = DataSize + 2 /\ FrameSize \in Nat
BY SerialAssumption DEF HeaderSize, FrameSize

LEMMA SentIsNat == ASSUME LinkTypeOK PROVE sent \in Nat
BY SerialAssumption DEF LinkTypeOK

\* The order of bytes.
LEMMA BytesTyped ==
    ASSUME NEW n \in Nat, NEW b \in Bytes(n)
    PROVE  /\ b.frame \in 1 .. n /\ b.pos \in 1 .. FrameSize
           /\ b = Byte(b.frame, b.pos) /\ b \in Positions(n)
BY Sizes DEF Bytes, Positions, Byte

LEMMA PositionsTyped ==
    ASSUME NEW n \in Nat, NEW d \in Positions(n)
    PROVE  d.frame \in Nat /\ d.frame <= n /\ d.pos \in Nat /\ d = Byte(d.frame, d.pos)
BY Sizes DEF Positions, Byte

LEMMA BeforeIsOrder ==
    ASSUME NEW n \in Nat, NEW a \in Positions(n), NEW b \in Positions(n), NEW c \in Positions(n)
    PROVE  /\ ~ Before(a, a)
           /\ Before(a, b) => ~ Before(b, a) /\ a # b
           /\ Before(a, b) \/ Before(b, a) \/ a = b
           /\ Before(a, b) /\ Before(b, c) => Before(a, c)
           /\ ~ Before(b, a) /\ Before(b, c) => Before(a, c)
           /\ Before(a, b) /\ ~ Before(c, b) => Before(a, c)
<1>1. /\ a.frame \in Nat /\ a.pos \in Nat /\ a = Byte(a.frame, a.pos)
      /\ b.frame \in Nat /\ b.pos \in Nat /\ b = Byte(b.frame, b.pos)
      /\ c.frame \in Nat /\ c.pos \in Nat /\ c = Byte(c.frame, c.pos)
  BY PositionsTyped
<1>2. a.frame = b.frame /\ a.pos = b.pos => a = b
  BY <1>1
<1> QED
  BY <1>1, <1>2 DEF Before

\* What is on the wire, and what was delivered.
LEMMA WireTyped ==
    ASSUME LinkTypeOK
    PROVE  /\ wire \in Seq(Bytes(sent)) /\ Len(wire) \in Nat
           /\ \A k \in 1 .. Len(wire) : wire[k] \in Bytes(sent) /\ wire[k] \in Positions(sent)
           /\ avail \in Nat /\ avail <= Len(wire)
<1>1. wire \in Seq(Bytes(sent)) /\ Len(wire) \in Nat /\ avail \in 0 .. Len(wire)
  BY DEF LinkTypeOK, Bytes
<1>2. \A k \in 1 .. Len(wire) : wire[k] \in Bytes(sent)
  BY <1>1
<1> QED
  BY <1>1, <1>2, BytesTyped, SentIsNat

LEMMA ExcusesTyped ==
    ASSUME LinkTypeOK, NEW l \in lost \cup alike
    PROVE  l \in Bytes(sent) /\ l \in Positions(sent)
<1>1. HeaderSize + 1 .. FrameSize \subseteq 1 .. FrameSize
  BY Sizes
<1>2. l \in Bytes(sent)
  BY <1>1 DEF LinkTypeOK, Bytes
<1> QED
  BY <1>2, BytesTyped, SentIsNat

\* The next byte is one byte further on, and a frame further on is another frame.
LEMMA ApartStep ==
    ASSUME NEW n \in Nat, NEW a \in Bytes(n), NEW b \in Positions(n), NEW c \in Bytes(n),
           NEW k \in Nat, Apart(a, b, k), Before(b, c)
    PROVE  Apart(a, c, k + 1)
<1>1. /\ a.frame \in Nat /\ a.pos \in Nat /\ b.frame \in Nat /\ b.pos \in Nat
      /\ c.frame \in Nat /\ c.pos \in Nat /\ 1 <= c.pos
  BY BytesTyped, PositionsTyped, Sizes
<1>2. b.pos <= FrameSize /\ FrameSize \in Nat
  BY Sizes DEF Positions
<1>3. b.frame < c.frame \/ (b.frame = c.frame /\ b.pos < c.pos)
  BY DEF Before
<1>4. CASE b.frame >= a.frame + 2
  BY <1>1, <1>3, <1>4 DEF Apart
<1>5. CASE b.frame = a.frame + 1 /\ b.pos + FrameSize >= a.pos + k
  BY <1>1, <1>2, <1>3, <1>5 DEF Apart
<1>6. CASE b.frame = a.frame /\ b.pos >= a.pos + k
  BY <1>1, <1>2, <1>3, <1>6 DEF Apart
<1> QED
  BY <1>4, <1>5, <1>6 DEF Apart

LEMMA FrameApart ==
    ASSUME NEW n \in Nat, NEW a \in Bytes(n), NEW b \in Bytes(n), Apart(a, b, FrameSize)
    PROVE  a.frame < b.frame
<1>1. /\ a.frame \in Nat /\ a.pos \in Nat /\ b.frame \in Nat /\ b.pos \in Nat
      /\ 1 <= a.pos /\ b.pos <= FrameSize /\ FrameSize \in Nat
  BY BytesTyped, Sizes
<1> QED
  BY <1>1 DEF Apart

LEMMA ReceivedTyped ==
    ASSUME LinkTypeOK, Delivered, NEW j \in 1 .. Len(received)
    PROVE  /\ received[j] \in Seq(Bytes(sent)) /\ Len(received[j]) = DataSize
           /\ StartOf(j) \in Bytes(sent) /\ EndOf(j) \in Bytes(sent)
           /\ StartOf(j) \in Positions(sent) /\ EndOf(j) \in Positions(sent)
<1>1. received[j] \in Seq(Bytes(sent)) /\ Len(received[j]) = DataSize
  BY DEF LinkTypeOK, Bytes, Delivered
<1>2. 1 \in 1 .. Len(received[j]) /\ DataSize \in 1 .. Len(received[j])
  BY <1>1, Sizes
<1>3. StartOf(j) \in Bytes(sent) /\ EndOf(j) \in Bytes(sent)
  BY <1>1, <1>2 DEF StartOf, EndOf
<1> QED
  BY <1>1, <1>3, BytesTyped, SentIsNat

\* The same holds of where the receiver is.
LEMMA ReceiverKept ==
    ASSUME NEW d, UNCHANGED received, 1 .. sent \subseteq 1 .. sent',
           lost \subseteq lost', alike \subseteq alike'
    PROVE  /\ Behind(d) => Behind(d)'
           /\ Synchronized(d) => Synchronized(d)'
<1>1. Behind(d) => Behind(d)'
  BY DEF Behind, EndOf, Before
<1>2. Excused(Len(received), d) => Excused(Len(received), d)'
  BY DEF Excused, EndOf, Before
<1>3. Synchronized(d) => Synchronized(d)'
  BY <1>2 DEF Synchronized, StartOf, EndOf, Before, Apart
<1> QED
  BY <1>1, <1>3

LEMMA StillThere ==
    ASSUME LinkInv, UNCHANGED <<sent, alike, wire, lost, pc, received>>
    PROVE  Progress'
<1>1. PICK d \in Positions(sent) : Ahead(d) /\ Behind(d) /\ (pc = "data" => Synchronized(d))
  BY DEF LinkInv, Progress
<1>2. Ahead(d)'
  BY <1>1 DEF Ahead, Before, Bytes
<1>3. Behind(d)' /\ (pc = "data" => Synchronized(d))'
  BY <1>1, ReceiverKept
<1> QED
  BY <1>1, <1>2, <1>3 DEF Progress, Positions

\* What is delivered stays as good as it was while nothing more is delivered.
LEMMA DeliveredKept ==
    ASSUME Delivered, UNCHANGED received, sent \in Nat, sent' \in Nat, sent <= sent',
           lost \subseteq lost', alike \subseteq alike'
    PROVE  Delivered'
<1>1. Spoilt' \subseteq Spoilt
  <2>1. 1 .. sent \subseteq 1 .. sent'
    OBVIOUS
  <2> QED
    BY <2>1 DEF Spoilt, Payload, Byte
<1>2. \A i \in 1 .. Len(received) : StartOf(i)' = StartOf(i) /\ EndOf(i)' = EndOf(i)
  BY DEF StartOf, EndOf
<1>3. (\A i \in 1 .. Len(received) :
          Len(received[i]) = DataSize /\ Apart(StartOf(i), EndOf(i), DataSize - 1))'
  BY DEF Delivered, StartOf, EndOf, Apart
<1>4. (\A i, j \in 1 .. Len(received) : i < j => StartOf(i).frame < StartOf(j).frame)'
  BY DEF Delivered, StartOf
<1>5. ASSUME NEW i \in Spoilt'
      PROVE  Excused(i - 1, EndOf(i))'
  <2>1. Excused(i - 1, EndOf(i))
    BY <1>1, <1>5 DEF Delivered
  <2> QED
    BY <2>1 DEF Excused, EndOf, Before
<1> QED
  BY <1>3, <1>4, <1>5 DEF Delivered

LEMMA LinkInitially == LinkInit => LinkInv
<1> SUFFICES ASSUME LinkInit PROVE LinkInv
  OBVIOUS
<1> DEFINE origin == Byte(0, 0)
<1>1. LinkTypeOK
  <2>1. 0 \in 0 .. MaxFrames /\ Len(<<>>) = 0 /\ 0 \in 0 .. 0
    BY SerialAssumption
  <2> QED
    BY <2>1 DEF LinkInit, LinkTypeOK
<1>3. Len(wire) = 0 /\ Len(received) = 0
  BY DEF LinkInit
<1>4. origin \in Positions(sent)
  BY Sizes DEF LinkInit, Positions, Byte
<1>5. Ahead(origin) /\ Behind(origin) /\ pc # "data"
  BY <1>3 DEF LinkInit, Ahead, Behind, Bytes
<1>6. Delivered
  BY <1>3 DEF Delivered, Spoilt
<1> QED
  BY <1>1, <1>3, <1>4, <1>5, <1>6 DEF LinkInv, InOrder, Progress

-----------------------------------------------------------------------------
(* The bytes leave the wire at its head.                                   *)

\* The wire without its first g bytes, the last of which is d.
Shortened(g) == wire' = SubSeq(wire, g + 1, Len(wire))

LEMMA ShortenedWire ==
    ASSUME LinkTypeOK, NEW g \in 0 .. Len(wire), Shortened(g)
    PROVE  /\ wire' \in Seq(Bytes(sent)) /\ Len(wire') = Len(wire) - g
           /\ \A k \in 1 .. Len(wire) - g : wire'[k] = wire[k + g]
<1>1. Len(wire) \in Nat /\ wire \in Seq(Bytes(sent))
      /\ \A k \in 1 .. Len(wire) : wire[k] \in Bytes(sent)
  BY WireTyped
<1>2. \A k \in g + 1 .. Len(wire) : wire[k] \in Bytes(sent)
  BY <1>1
<1>3. g + 1 \in Int /\ Len(wire) \in Int
  BY <1>1
<1>4. /\ SubSeq(wire, g + 1, Len(wire)) \in Seq(Bytes(sent))
      /\ Len(SubSeq(wire, g + 1, Len(wire))) = IF g + 1 <= Len(wire) THEN Len(wire) - (g + 1) + 1 ELSE 0
      /\ \A k \in 1 .. Len(wire) - (g + 1) + 1 : SubSeq(wire, g + 1, Len(wire))[k] = wire[g + 1 + k - 1]
  BY <1>2, <1>3, SubSeqProperties
<1>5. /\ Len(wire) - (g + 1) + 1 = Len(wire) - g
      /\ (IF g + 1 <= Len(wire) THEN Len(wire) - (g + 1) + 1 ELSE 0) = Len(wire) - g
  BY <1>1
<1>6. \A k \in 1 .. Len(wire) - g : (g + 1) + k - 1 = k + g
  BY <1>1
<1>7. wire' \in Seq(Bytes(sent)) /\ Len(wire') = Len(wire) - g
  BY <1>4, <1>5 DEF Shortened
<1>8. \A k \in 1 .. Len(wire) - g : wire'[k] = wire[(g + 1) + k - 1]
  BY <1>4, <1>5 DEF Shortened
<1> QED
  BY <1>6, <1>7, <1>8

LEMMA ShortenedOrder ==
    ASSUME LinkTypeOK, InOrder, NEW g \in 0 .. Len(wire), Shortened(g)
    PROVE  InOrder'
<1>1. Len(wire) \in Nat /\ Len(wire') = Len(wire) - g
      /\ \A k \in 1 .. Len(wire) - g : wire'[k] = wire[k + g]
  BY ShortenedWire, WireTyped
<1> SUFFICES ASSUME NEW j \in 1 .. Len(wire'), NEW k \in 1 .. Len(wire'), j < k
             PROVE  Before(wire'[j], wire'[k])
  BY DEF InOrder, Before
<1>2. j + g \in 1 .. Len(wire) /\ k + g \in 1 .. Len(wire) /\ j + g < k + g
  BY <1>1
<1> QED
  BY <1>1, <1>2 DEF InOrder

\* Reading on as far as the g-th byte of the wire.
LEMMA ReadOn ==
    ASSUME LinkTypeOK, InOrder, Delivered, NEW d \in Positions(sent), Ahead(d), Behind(d),
           NEW g \in 1 .. Len(wire), Shortened(g), NEW e, e = wire[g],
           UNCHANGED <<sent, lost>>
    PROVE  Ahead(e)' /\ Before(d, e) /\ Behind(e)
<1>1. /\ Len(wire) \in Nat /\ sent \in Nat
      /\ \A k \in 1 .. Len(wire) : wire[k] \in Positions(sent)
  BY WireTyped, SentIsNat
<1>2. Len(wire') = Len(wire) - g /\ \A k \in 1 .. Len(wire) - g : wire'[k] = wire[k + g]
  BY ShortenedWire
<1>3. e \in Positions(sent) /\ Before(d, e)
  BY <1>1 DEF Ahead
<1>4. ASSUME NEW k \in 1 .. Len(wire')
      PROVE  Before(e, wire'[k])
  <2>1. k + g \in 1 .. Len(wire) /\ g < k + g /\ wire'[k] = wire[k + g]
    BY <1>1, <1>2
  <2> QED
    BY <2>1 DEF InOrder
<1>5. ASSUME NEW b \in Bytes(sent), Before(e, b)
      PROVE  b \in lost \/ \E k \in 1 .. Len(wire') : wire'[k] = b
  <2>1. b \in Positions(sent)
    BY <1>1, BytesTyped
  <2>2. Before(d, b)
    BY <1>1, <1>3, <1>5, <2>1, BeforeIsOrder
  <2>3. CASE b \notin lost
    <3>1. PICK k \in 1 .. Len(wire) : wire[k] = b
      BY <2>2, <2>3 DEF Ahead
    <3>2. k > g
      <4>1. k # g
        BY <1>1, <1>3, <1>5, <3>1, BeforeIsOrder
      <4>2. ASSUME k < g PROVE FALSE
        <5>1. Before(b, e)
          BY <3>1, <4>2 DEF InOrder
        <5> QED
          BY <1>1, <1>3, <1>5, <2>1, <5>1, BeforeIsOrder
      <4> QED
        BY <1>1, <4>1, <4>2
    <3>3. k - g \in 1 .. Len(wire') /\ wire'[k - g] = b
      <4>1. k - g \in 1 .. Len(wire) - g /\ (k - g) + g = k
        BY <1>1, <3>2
      <4> QED
        BY <1>2, <3>1, <4>1
    <3> QED
      BY <3>3
  <2> QED
    BY <2>3
<1>6. Ahead(e)'
  BY <1>4, <1>5 DEF Ahead, Before, Bytes
<1>7. Behind(e)
  <2> SUFFICES ASSUME NEW j \in 1 .. Len(received), Before(e, EndOf(j)) PROVE FALSE
    BY DEF Behind
  <2>1. EndOf(j) \in Positions(sent)
    BY ReceivedTyped
  <2>2. Before(d, EndOf(j))
    BY <1>1, <1>3, <2>1, BeforeIsOrder
  <2> QED
    BY <2>2 DEF Behind
<1> QED
  BY <1>3, <1>6, <1>7

-----------------------------------------------------------------------------
(* The header and the data.                                                *)

\* Two bytes that are taken for a header are one, or one of them is of the data, or
\* the first of them is of an earlier frame whose last byte was lost.
LEMMA HeaderRead ==
    ASSUME LinkTypeOK, InOrder, Delivered, NEW d \in Positions(sent), Ahead(d), Behind(d),
           Len(wire) >= 2, Synced(wire), NEW e, e = wire[2]
    PROVE  Synchronized(e)
<1> DEFINE h == wire[1]
           l == Byte(h.frame, FrameSize)
<1>1. Len(wire) \in Nat /\ sent \in Nat /\ 1 \in 1 .. Len(wire) /\ 2 \in 1 .. Len(wire)
  BY WireTyped, SentIsNat
<1>2. h \in Bytes(sent) /\ e \in Bytes(sent) /\ h \in Positions(sent) /\ e \in Positions(sent)
  BY <1>1, WireTyped
<1>3. /\ h.frame \in 1 .. sent /\ h.pos \in 1 .. FrameSize /\ h = Byte(h.frame, h.pos)
      /\ e.frame \in 1 .. sent /\ e.pos \in 1 .. FrameSize /\ e = Byte(e.frame, e.pos)
  BY <1>1, <1>2, BytesTyped
<1>4. (h.pos <= 2 \/ h \in alike) /\ (e.pos <= 2 \/ e \in alike)
  BY DEF Synced, IsHeader, HeaderSize
<1>5. Before(d, h) /\ Before(h, e)
  BY <1>1 DEF Ahead, InOrder
<1>6. ASSUME NEW j \in 1 .. Len(received)
      PROVE  Before(EndOf(j), h) /\ Apart(StartOf(j), e, DataSize + 1)
  <2>1. EndOf(j) \in Positions(sent) /\ StartOf(j) \in Bytes(sent)
    BY ReceivedTyped
  <2>2. Before(EndOf(j), h)
    BY <1>1, <1>2, <1>5, <2>1, BeforeIsOrder DEF Behind
  <2>3. DataSize - 1 \in Nat /\ (DataSize - 1) + 1 = DataSize /\ DataSize \in Nat
    BY Sizes
  <2>4. Apart(StartOf(j), EndOf(j), DataSize - 1)
    BY DEF Delivered
  <2>5. Apart(StartOf(j), h, (DataSize - 1) + 1)
    BY <1>1, <1>2, <2>1, <2>2, <2>3, <2>4, ApartStep
  <2>6. Apart(StartOf(j), h, DataSize)
    BY <2>3, <2>5
  <2>7. Apart(StartOf(j), e, DataSize + 1)
    BY <1>1, <1>2, <1>5, <2>1, <2>3, <2>6, ApartStep
  <2> QED
    BY <2>2, <2>7
<1>7. ASSUME NEW j \in 1 .. Len(received)
      PROVE  Before(EndOf(j), e)
  <2>1. EndOf(j) \in Positions(sent) /\ Before(EndOf(j), h)
    BY <1>6, ReceivedTyped
  <2> QED
    BY <1>1, <1>2, <1>5, <2>1, BeforeIsOrder
<1>8. ~ Before(e, e) /\ ~ Before(e, h)
  BY <1>1, <1>2, <1>5, BeforeIsOrder
<1>9. CASE h \in alike \/ e \in alike
  <2>1. Excused(Len(received), e)
    BY <1>6, <1>7, <1>8, <1>9 DEF Excused
  <2> QED
    BY <1>3, <1>6, <1>7, <2>1 DEF Synchronized
<1>10. ASSUME e.pos # HeaderSize, h \notin alike, e \notin alike
       PROVE  Excused(Len(received), e)
  <2>1. h.frame < e.frame
    BY <1>1, <1>3, <1>4, <1>5, <1>10, Sizes DEF Before
  <2>2. l \in Bytes(sent) /\ l \in Positions(sent) /\ l.frame = h.frame /\ l.pos = FrameSize
    BY <1>1, <1>3, Sizes DEF Bytes, Positions, Byte
  <2>3. Before(h, l) /\ Before(l, e)
    BY <1>1, <1>3, <1>4, <1>10, <2>1, <2>2, Sizes DEF Before
  <2>4. Before(d, l)
    BY <1>1, <1>2, <1>5, <2>2, <2>3, BeforeIsOrder
  <2>5. ASSUME NEW k \in 1 .. Len(wire), wire[k] = l
        PROVE  FALSE
    <3>1. k = 1 \/ k = 2 \/ 2 < k
      BY <1>1
    <3>2. k # 1 /\ k # 2
      BY <1>1, <1>2, <2>2, <2>3, <2>5, BeforeIsOrder
    <3>3. Before(e, l)
      BY <1>1, <2>5, <3>1, <3>2 DEF InOrder
    <3> QED
      BY <1>1, <1>2, <2>2, <2>3, <3>3, BeforeIsOrder
  <2>6. l \in lost
    BY <2>2, <2>4, <2>5 DEF Ahead
  <2>7. ASSUME NEW j \in 1 .. Len(received)
        PROVE  Before(EndOf(j), l)
    <3>1. EndOf(j) \in Positions(sent) /\ Before(EndOf(j), h)
      BY <1>6, ReceivedTyped
    <3> QED
      BY <1>1, <1>2, <2>2, <2>3, <3>1, BeforeIsOrder
  <2>8. ~ Before(e, l)
    BY <1>1, <1>2, <2>2, <2>3, BeforeIsOrder
  <2> QED
    BY <2>6, <2>7, <2>8 DEF Excused
<1> QED
  BY <1>3, <1>6, <1>7, <1>9, <1>10 DEF Synchronized

\* A nonempty set of positions has a first one.
LEMMA FirstExists ==
    ASSUME NEW n \in Nat, NEW S \in SUBSET (1 .. n), S # {}
    PROVE  \E x \in S : \A y \in S : x <= y
<1> DEFINE Less == OpToRel(<, Nat)
<1>1. IsWellFoundedOn(Less, Nat)
  BY NatLessThanWellFounded
<1>2. \A i, j \in Nat : i < j => <<i, j>> \in Less
  BY DEF OpToRel
<1> HIDE DEF Less
<1>3. S \subseteq Nat
  OBVIOUS
<1>4. PICK x \in S : \A y \in S : <<y, x>> \notin Less
  BY <1>1, <1>3, WFMin
<1>5. ASSUME NEW y \in S
      PROVE  x <= y
  <2>1. x \in Nat /\ y \in Nat /\ <<y, x>> \notin Less
    BY <1>3, <1>4
  <2> QED
    BY <1>2, <2>1
<1> QED
  BY <1>5

\* The first k bytes on the wire are k bytes that were sent, or more.
LEMMA WireApart ==
    ASSUME LinkTypeOK, InOrder, NEW n \in Nat, n <= Len(wire), NEW k \in 1 .. n
    PROVE  Apart(wire[1], wire[k], k - 1)
<1> DEFINE Wrong == {i \in 1 .. n : ~ Apart(wire[1], wire[i], i - 1)}
<1> SUFFICES ASSUME Wrong # {} PROVE FALSE
  OBVIOUS
<1>1. sent \in Nat /\ Len(wire) \in Nat /\ \A i \in 1 .. n : i \in 1 .. Len(wire)
  BY WireTyped, SentIsNat
<1>2. PICK m \in Wrong : \A i \in Wrong : m <= i
  <2>1. Wrong \in SUBSET (1 .. n)
    OBVIOUS
  <2> HIDE DEF Wrong
  <2> QED
    BY <2>1, FirstExists
<1>3. m \in 1 .. n /\ ~ Apart(wire[1], wire[m], m - 1) /\ 1 \in 1 .. n
  BY <1>2
<1>4. wire[1] \in Bytes(sent) /\ wire[m] \in Bytes(sent)
  BY <1>1, <1>3, WireTyped
<1>5. m # 1
  <2>1. wire[1].pos \in Nat /\ wire[1].frame \in Nat
    BY <1>1, <1>4, BytesTyped
  <2>2. Apart(wire[1], wire[1], 0)
    BY <2>1 DEF Apart
  <2> QED
    BY <1>3, <2>2
<1>6. m - 1 \in 1 .. n /\ m - 1 < m /\ (m - 1) - 1 \in Nat /\ ((m - 1) - 1) + 1 = m - 1
  BY <1>3, <1>5
<1>7. Apart(wire[1], wire[m - 1], (m - 1) - 1)
  <2>1. m - 1 \notin Wrong
    BY <1>2, <1>6
  <2> QED
    BY <1>6, <2>1
<1>8. wire[m - 1] \in Positions(sent) /\ Before(wire[m - 1], wire[m])
  BY <1>1, <1>3, <1>6, WireTyped DEF InOrder
<1>9. Apart(wire[1], wire[m], ((m - 1) - 1) + 1)
  BY <1>1, <1>4, <1>6, <1>7, <1>8, ApartStep
<1> QED
  BY <1>3, <1>6, <1>9

\* Data after a whole header that are not those of its frame have a gap.
LEMMA DataHaveGap ==
    ASSUME LinkTypeOK, InOrder, NEW d \in Positions(sent), Ahead(d),
           d.frame \in 1 .. sent, d.pos = HeaderSize, DataSize <= Len(wire),
           NEW i \in 1 .. DataSize, wire[i] # Byte(d.frame, HeaderSize + i)
    PROVE  \E l \in lost : Before(d, l) /\ Before(l, wire[DataSize])
<1> DEFINE Wrong == {k \in 1 .. DataSize : wire[k] # Byte(d.frame, HeaderSize + k)}
<1>1. /\ DataSize \in Nat /\ HeaderSize = 2 /\ sent \in Nat /\ Len(wire) \in Nat
      /\ FrameSize = DataSize + 2
  BY Sizes, WireTyped, SentIsNat
<1>2. PICK m \in Wrong : \A k \in Wrong : m <= k
  <2>1. Wrong \in SUBSET (1 .. DataSize) /\ Wrong # {}
    OBVIOUS
  <2> HIDE DEF Wrong
  <2> QED
    BY <1>1, <2>1, FirstExists
<1> DEFINE l == Byte(d.frame, HeaderSize + m)
<1>3. /\ m \in 1 .. DataSize /\ m \in 1 .. Len(wire) /\ wire[m] # l
      /\ \A k \in 1 .. DataSize : k < m => wire[k] = Byte(d.frame, HeaderSize + k)
  BY <1>1, <1>2
<1>4. /\ l \in Bytes(sent) /\ l \in Positions(sent) /\ l.frame = d.frame /\ l.pos = m + 2
      /\ wire[m] \in Bytes(sent) /\ wire[m] \in Positions(sent)
  <2>1. m + 2 \in 1 .. FrameSize /\ m + 2 \in 0 .. FrameSize /\ d.frame \in 0 .. sent
    BY <1>1, <1>3
  <2>2. wire[m] \in Bytes(sent) /\ wire[m] \in Positions(sent)
    BY <1>3, WireTyped
  <2>3. l = [frame |-> d.frame, pos |-> m + 2]
    BY <1>1 DEF Byte
  <2>4. l \in Bytes(sent) /\ l \in Positions(sent)
    BY <2>1, <2>3 DEF Bytes, Positions
  <2> QED
    BY <2>2, <2>3, <2>4
<1>5. Before(d, l)
  BY <1>1, <1>3, <1>4 DEF Before
<1>6. /\ wire[m].frame \in Nat /\ wire[m].pos \in Nat /\ d.frame \in Nat
      /\ wire[m] = Byte(wire[m].frame, wire[m].pos)
  BY <1>1, <1>4, PositionsTyped
<1>7. Before(l, wire[m])
  <2>1. ~ (wire[m].frame = d.frame /\ wire[m].pos = m + 2)
    BY <1>1, <1>3, <1>6
  <2>2. wire[m].frame > d.frame \/ (wire[m].frame = d.frame /\ wire[m].pos >= m + 2)
    <3>1. CASE m = 1
      <4>1. Before(d, wire[m])
        BY <1>3 DEF Ahead
      <4> QED
        BY <1>1, <1>6, <3>1, <4>1 DEF Before
    <3>2. CASE m # 1
      <4>1. m - 1 \in 1 .. DataSize /\ m - 1 \in 1 .. Len(wire) /\ m - 1 < m
        BY <1>1, <1>3, <3>2
      <4>2. wire[m - 1].frame = d.frame /\ wire[m - 1].pos = m + 1
        <5>1. wire[m - 1] = Byte(d.frame, HeaderSize + (m - 1))
          BY <1>3, <4>1
        <5> QED
          BY <1>1, <1>3, <5>1 DEF Byte
      <4>3. Before(wire[m - 1], wire[m])
        BY <1>3, <4>1 DEF InOrder
      <4>4. \/ d.frame < wire[m].frame
            \/ d.frame = wire[m].frame /\ m + 1 < wire[m].pos
        BY <4>2, <4>3 DEF Before
      <4> QED
        BY <1>3, <1>6, <4>4
    <3> QED
      BY <3>1, <3>2
  <2> QED
    BY <1>3, <1>4, <1>6, <2>1, <2>2 DEF Before
<1>8. ASSUME NEW k \in 1 .. Len(wire), wire[k] = l
      PROVE  FALSE
  <2>1. CASE k < m
    <3>1. k \in 1 .. DataSize /\ k # m
      BY <1>1, <1>3, <2>1
    <3>2. l = Byte(d.frame, HeaderSize + k)
      BY <1>3, <1>8, <2>1, <3>1
    <3>3. l.pos = HeaderSize + k
      BY <3>2 DEF Byte
    <3> QED
      BY <1>1, <1>3, <1>4, <3>1, <3>3
  <2>2. CASE k = m
    BY <1>3, <1>8, <2>2
  <2>3. CASE m < k
    <3>1. Before(wire[m], l)
      BY <1>3, <1>8, <2>3 DEF InOrder
    <3> QED
      BY <1>1, <1>4, <1>7, <3>1, BeforeIsOrder
  <2> QED
    BY <1>1, <1>3, <2>1, <2>2, <2>3
<1>9. l \in lost
  BY <1>4, <1>5, <1>8 DEF Ahead
<1>10. Before(l, wire[DataSize])
  <2>1. CASE m = DataSize
    BY <1>7, <2>1
  <2>2. CASE m # DataSize
    <3>1. DataSize \in 1 .. Len(wire) /\ m < DataSize
      BY <1>1, <1>3, <2>2
    <3>2. Before(wire[m], wire[DataSize]) /\ wire[DataSize] \in Positions(sent)
      BY <1>3, <3>1, WireTyped DEF InOrder
    <3> QED
      BY <1>1, <1>4, <1>7, <3>2, BeforeIsOrder
  <2> QED
    BY <2>1, <2>2
<1> QED
  BY <1>5, <1>9, <1>10

-----------------------------------------------------------------------------
(* The steps of the line and of the receiver.                              *)

\* More bytes sent leave a sequence of sent bytes one.
LEMMA SeqWidens ==
    ASSUME NEW S, NEW T, S \subseteq T, NEW s \in Seq(S)
    PROVE  s \in Seq(T)
OBVIOUS

LEMMA SendKeeps == ASSUME LinkInv, NEW look \in Looks, Send(look) PROVE LinkInv'
<1> DEFINE new == Frame(sent')
<1>1. /\ sent \in Nat /\ sent' = sent + 1 /\ sent' \in 0 .. MaxFrames
      /\ wire' = wire \o new /\ UNCHANGED <<line, avail, lost, pc, received>>
      /\ alike' = alike \cup {Byte(sent', HeaderSize + i) : i \in look}
  <2>1. sent \in Nat /\ MaxFrames \in Nat
    BY SentIsNat, SerialAssumption DEF LinkInv
  <2> QED
    BY <2>1 DEF Send
<1>2. Bytes(sent) \subseteq Bytes(sent') /\ Positions(sent) \subseteq Positions(sent')
  BY <1>1 DEF Bytes, Positions
<1>3. /\ wire \in Seq(Bytes(sent')) /\ Len(wire) \in Nat
      /\ \A k \in 1 .. Len(wire) : wire[k] \in Bytes(sent) /\ wire[k] \in Positions(sent)
      /\ avail \in Nat /\ avail <= Len(wire)
  BY <1>2, WireTyped, SeqWidens DEF LinkInv
<1>4. /\ new \in Seq(Bytes(sent')) /\ Len(new) = FrameSize
      /\ \A k \in 1 .. FrameSize : new[k] = Byte(sent', k)
  <2>1. \A k \in 1 .. FrameSize : Byte(sent', k) \in Bytes(sent')
    BY <1>1 DEF Byte, Bytes
  <2>2. FrameSize \in Nat
    BY Sizes
  <2> QED
    BY <2>1, <2>2 DEF Frame
<1> HIDE DEF new
<1>5. /\ wire' \in Seq(Bytes(sent')) /\ Len(wire') = Len(wire) + FrameSize
      /\ \A k \in 1 .. Len(wire) : wire'[k] = wire[k]
      /\ \A k \in Len(wire) + 1 .. Len(wire) + FrameSize :
            /\ wire'[k] = Byte(sent', k - Len(wire)) /\ k - Len(wire) \in 1 .. FrameSize
            /\ wire'[k].frame = sent + 1 /\ wire'[k].pos = k - Len(wire)
  <2>1. /\ wire \o new \in Seq(Bytes(sent')) /\ Len(wire \o new) = Len(wire) + Len(new)
        /\ \A k \in 1 .. Len(wire) + Len(new) :
              (wire \o new)[k] = IF k <= Len(wire) THEN wire[k] ELSE new[k - Len(wire)]
    BY <1>3, <1>4, ConcatProperties
  <2>2. ASSUME NEW k \in Len(wire) + 1 .. Len(wire) + FrameSize
        PROVE  /\ wire'[k] = Byte(sent', k - Len(wire)) /\ k - Len(wire) \in 1 .. FrameSize
               /\ wire'[k].frame = sent + 1 /\ wire'[k].pos = k - Len(wire)
    <3>1. k \in 1 .. Len(wire) + Len(new) /\ ~ (k <= Len(wire))
          /\ k - Len(wire) \in 1 .. FrameSize
      BY <1>3, <1>4, Sizes
    <3>2. wire'[k] = Byte(sent', k - Len(wire))
      BY <1>1, <1>4, <2>1, <3>1
    <3> QED
      BY <1>1, <3>1, <3>2 DEF Byte
  <2>3. ASSUME NEW k \in 1 .. Len(wire)
        PROVE  wire'[k] = wire[k]
    <3>1. k \in 1 .. Len(wire) + Len(new) /\ k <= Len(wire)
      BY <1>3, <1>4, Sizes
    <3> QED
      BY <1>1, <2>1, <3>1
  <2> QED
    BY <1>1, <1>4, <2>1, <2>2, <2>3
<1>6. LinkTypeOK'
  <2>1. avail' \in 0 .. Len(wire')
    BY <1>1, <1>3, <1>5, Sizes
  <2>2. received' \in Seq(Seq(Bytes(sent')))
    <3>1. Seq(Bytes(sent)) \subseteq Seq(Bytes(sent'))
      BY <1>2, SeqWidens
    <3>2. received \in Seq(Seq(Bytes(sent)))
      BY DEF LinkInv, LinkTypeOK, Bytes
    <3> QED
      BY <1>1, <3>1, <3>2, SeqWidens
  <2>3. lost' \subseteq Bytes(sent')
    BY <1>1, <1>2 DEF LinkInv, LinkTypeOK, Bytes
  <2>5. alike' \subseteq [frame : 1 .. sent', pos : HeaderSize + 1 .. FrameSize]
    <3>1. alike \subseteq [frame : 1 .. sent', pos : HeaderSize + 1 .. FrameSize]
      BY <1>1 DEF LinkInv, LinkTypeOK
    <3>2. ASSUME NEW i \in look
          PROVE  Byte(sent', HeaderSize + i) \in [frame : 1 .. sent', pos : HeaderSize + 1 .. FrameSize]
      <4>1. i \in 1 .. DataSize
        BY SerialAssumption
      <4>2. HeaderSize + i \in HeaderSize + 1 .. FrameSize /\ sent' \in 1 .. sent'
        BY <1>1, <4>1, Sizes
      <4> QED
        BY <4>2 DEF Byte
    <3> QED
      BY <1>1, <3>1, <3>2
  <2>4. line' \in Lines /\ pc' \in {"idle", "header", "data"}
    BY <1>1 DEF LinkInv, LinkTypeOK
  <2> QED
    BY <1>1, <1>5, <2>1, <2>2, <2>3, <2>4, <2>5 DEF LinkTypeOK, Bytes
<1>7. InOrder'
  <2> SUFFICES ASSUME NEW j \in 1 .. Len(wire'), NEW k \in 1 .. Len(wire'), j < k
               PROVE  Before(wire'[j], wire'[k])
    BY DEF InOrder, Before
  <2>1. CASE k <= Len(wire)
    <3>1. j \in 1 .. Len(wire) /\ k \in 1 .. Len(wire)
      BY <1>3, <1>5, <2>1, Sizes
    <3> QED
      BY <1>5, <3>1 DEF LinkInv, InOrder
  <2>2. CASE ~ (k <= Len(wire))
    <3>1. k \in Len(wire) + 1 .. Len(wire) + FrameSize
      BY <1>3, <1>5, <2>2, Sizes
    <3>2. wire'[k].frame = sent + 1 /\ wire'[k].pos = k - Len(wire)
      BY <1>5, <3>1
    <3>3. CASE j <= Len(wire)
      <4>1. j \in 1 .. Len(wire)
        BY <1>3, <3>3, Sizes
      <4>2. wire'[j].frame \in 1 .. sent
        BY <1>1, <1>3, <1>5, <4>1, BytesTyped
      <4> QED
        BY <1>1, <3>2, <4>2 DEF Before
    <3>4. CASE ~ (j <= Len(wire))
      <4>1. j \in Len(wire) + 1 .. Len(wire) + FrameSize
        BY <1>3, <1>5, <3>4, Sizes
      <4>2. wire'[j].frame = sent + 1 /\ wire'[j].pos = j - Len(wire)
        BY <1>5, <4>1
      <4> QED
        BY <1>3, <3>1, <3>2, <4>1, <4>2 DEF Before
    <3> QED
      BY <3>3, <3>4
  <2> QED
    BY <2>1, <2>2
<1>8. PICK d \in Positions(sent) : Ahead(d) /\ Behind(d) /\ (pc = "data" => Synchronized(d))
  BY DEF LinkInv, Progress
<1>9. Ahead(d)'
  <2>1. d.frame \in Nat /\ d.frame <= sent
    BY <1>1, PositionsTyped
  <2>2. ASSUME NEW k \in 1 .. Len(wire')
        PROVE  Before(d, wire'[k])
    <3>1. CASE k <= Len(wire)
      <4>1. k \in 1 .. Len(wire)
        BY <1>3, <3>1, Sizes
      <4> QED
        BY <1>5, <1>8, <4>1 DEF Ahead
    <3>2. CASE ~ (k <= Len(wire))
      <4>1. k \in Len(wire) + 1 .. Len(wire) + FrameSize
        BY <1>3, <1>5, <3>2, Sizes
      <4>2. wire'[k].frame = sent + 1
        BY <1>5, <4>1
      <4> QED
        BY <1>1, <2>1, <4>2 DEF Before
    <3> QED
      BY <3>1, <3>2
  <2>3. ASSUME NEW b \in Bytes(sent'), Before(d, b)
        PROVE  b \in lost' \/ \E k \in 1 .. Len(wire') : wire'[k] = b
    <3>1. b.frame \in 1 .. sent + 1 /\ b.pos \in 1 .. FrameSize /\ b = Byte(b.frame, b.pos)
      <4>1. sent + 1 \in Nat /\ b \in Bytes(sent + 1)
        BY <1>1
      <4> QED
        BY <4>1, BytesTyped
    <3>2. CASE b.frame = sent + 1
      <4>1. /\ b.pos + Len(wire) \in Len(wire) + 1 .. Len(wire) + FrameSize
            /\ b.pos + Len(wire) \in 1 .. Len(wire')
            /\ (b.pos + Len(wire)) - Len(wire) = b.pos
        BY <1>3, <1>5, <3>1, Sizes
      <4>2. wire'[b.pos + Len(wire)] = b
        BY <1>1, <1>5, <3>1, <3>2, <4>1
      <4> QED
        BY <4>1, <4>2
    <3>3. CASE b.frame # sent + 1
      <4>1. b \in Bytes(sent)
        BY <1>1, <3>1, <3>3 DEF Bytes, Byte
      <4>2. CASE b \in lost
        BY <1>1, <4>2
      <4>3. CASE b \notin lost
        <5>1. PICK k \in 1 .. Len(wire) : wire[k] = b
          BY <1>8, <2>3, <4>1, <4>3 DEF Ahead
        <5>2. k \in 1 .. Len(wire') /\ wire'[k] = b
          BY <1>3, <1>5, <5>1, Sizes
        <5> QED
          BY <5>2
      <4> QED
        BY <4>2, <4>3
    <3> QED
      BY <3>2, <3>3
  <2> QED
    BY <2>2, <2>3 DEF Ahead, Before, Bytes
<1>10. Behind(d)'
  BY <1>1, <1>8, ReceiverKept
<1>11. (pc = "data" => Synchronized(d))'
  BY <1>1, <1>8, ReceiverKept
<1>12. Progress'
  BY <1>2, <1>8, <1>9, <1>10, <1>11 DEF Progress
<1>13. Delivered'
  BY <1>1, DeliveredKept DEF LinkInv
<1> QED
  BY <1>6, <1>7, <1>12, <1>13 DEF LinkInv

LEMMA ArriveKeeps == ASSUME LinkInv, NEW n \in Chunks, Arrive(n) PROVE LinkInv'
<1>1. /\ avail' = avail + n /\ avail' <= Len(wire)
      /\ UNCHANGED <<line, sent, alike, wire, lost, pc, received>>
  BY DEF Arrive
<1>2. avail' \in 0 .. Len(wire')
  BY <1>1, WireTyped, SerialAssumption DEF LinkInv
<1>3. LinkTypeOK'
  BY <1>1, <1>2 DEF LinkInv, LinkTypeOK
<1>4. InOrder'
  BY <1>1 DEF LinkInv, InOrder, Before
<1>5. Progress'
  BY <1>1, StillThere
<1>6. Delivered'
  BY <1>1, SentIsNat, DeliveredKept DEF LinkInv
<1> QED
  BY <1>1, <1>3, <1>4, <1>5, <1>6 DEF LinkInv

\* A byte that is lost leaves the others in their order.
LEMMA LoseKeeps == ASSUME LinkInv, Lose PROVE LinkInv'
<1> DEFINE at == avail + 1
           gone == wire[avail + 1]
<1>1. /\ sent \in Nat /\ Len(wire) \in Nat /\ at \in 1 .. Len(wire) /\ avail \in Nat
      /\ wire \in Seq(Bytes(sent)) /\ \A k \in 1 .. Len(wire) : wire[k] \in Bytes(sent)
      /\ gone \in Bytes(sent)
  BY SentIsNat, WireTyped DEF LinkInv, Lose
<1>2. /\ wire' = RemoveAt(wire, at) /\ lost' = lost \cup {gone}
      /\ UNCHANGED <<line, sent, alike, avail, pc, received>>
  BY DEF Lose
<1> HIDE DEF gone
<1>3. /\ wire' \in Seq(Bytes(sent)) /\ Len(wire') = Len(wire) - 1
      /\ \A k \in 1 .. Len(wire) - 1 : wire'[k] = IF k < at THEN wire[k] ELSE wire[k + 1]
  <2> DEFINE before == SubSeq(wire, 1, at - 1)
             after == SubSeq(wire, at + 1, Len(wire))
  <2>1. /\ before \in Seq(Bytes(sent)) /\ Len(before) = at - 1
        /\ \A k \in 1 .. at - 1 : before[k] = wire[k]
    <3>1. \A k \in 1 .. at - 1 : wire[k] \in Bytes(sent)
      BY <1>1
    <3> QED
      BY <1>1, <3>1, SubSeqProperties
  <2>2. /\ after \in Seq(Bytes(sent)) /\ Len(after) = Len(wire) - at
        /\ \A k \in 1 .. Len(wire) - at : after[k] = wire[at + k]
    <3>1. \A k \in at + 1 .. Len(wire) : wire[k] \in Bytes(sent)
      BY <1>1
    <3>2. at + 1 \in Int /\ Len(wire) \in Int
      BY <1>1
    <3>3. /\ after \in Seq(Bytes(sent))
          /\ Len(after) = IF at + 1 <= Len(wire) THEN Len(wire) - (at + 1) + 1 ELSE 0
          /\ \A k \in 1 .. Len(wire) - (at + 1) + 1 : after[k] = wire[(at + 1) + k - 1]
      BY <3>1, <3>2, SubSeqProperties
    <3>4. /\ Len(wire) - (at + 1) + 1 = Len(wire) - at
          /\ (IF at + 1 <= Len(wire) THEN Len(wire) - (at + 1) + 1 ELSE 0) = Len(wire) - at
          /\ \A k \in 1 .. Len(wire) - at : (at + 1) + k - 1 = at + k
      BY <1>1
    <3> QED
      BY <3>3, <3>4
  <2>3. wire' = before \o after
    BY <1>2 DEF RemoveAt
  <2> HIDE DEF before, after
  <2>4. /\ wire' \in Seq(Bytes(sent)) /\ Len(wire') = Len(before) + Len(after)
        /\ \A k \in 1 .. Len(before) + Len(after) :
              wire'[k] = IF k <= Len(before) THEN before[k] ELSE after[k - Len(before)]
    BY <2>1, <2>2, <2>3, ConcatProperties
  <2>5. Len(before) + Len(after) = Len(wire) - 1
    BY <1>1, <2>1, <2>2
  <2>6. ASSUME NEW k \in 1 .. Len(wire) - 1
        PROVE  wire'[k] = IF k < at THEN wire[k] ELSE wire[k + 1]
    <3>1. wire'[k] = IF k <= Len(before) THEN before[k] ELSE after[k - Len(before)]
      BY <2>4, <2>5
    <3>2. CASE k < at
      <4>1. k \in 1 .. at - 1 /\ k <= Len(before)
        BY <1>1, <2>1, <3>2
      <4> QED
        BY <2>1, <3>1, <3>2, <4>1
    <3>3. CASE ~ (k < at)
      <4>1. /\ ~ (k <= Len(before)) /\ k - Len(before) \in 1 .. Len(wire) - at
            /\ at + (k - Len(before)) = k + 1
        BY <1>1, <2>1, <3>3
      <4> QED
        BY <2>2, <3>1, <3>3, <4>1
    <3> QED
      BY <3>2, <3>3
  <2> QED
    BY <2>4, <2>5, <2>6
<1>4. ASSUME NEW k \in 1 .. Len(wire')
      PROVE  \E j \in 1 .. Len(wire) : wire'[k] = wire[j] /\ j = IF k < at THEN k ELSE k + 1
  <2>1. k \in 1 .. Len(wire) - 1
    BY <1>1, <1>3
  <2>2. (IF k < at THEN k ELSE k + 1) \in 1 .. Len(wire)
    BY <1>1, <2>1
  <2> QED
    BY <1>3, <2>1, <2>2
<1>5. LinkTypeOK'
  <2>1. avail' \in 0 .. Len(wire')
    BY <1>1, <1>2, <1>3
  <2>2. lost' \subseteq Bytes(sent)
    BY <1>1, <1>2 DEF LinkInv, LinkTypeOK, Bytes
  <2> QED
    BY <1>2, <1>3, <2>1, <2>2 DEF LinkInv, LinkTypeOK, Bytes
<1>6. InOrder'
  <2> SUFFICES ASSUME NEW j \in 1 .. Len(wire'), NEW k \in 1 .. Len(wire'), j < k
               PROVE  Before(wire'[j], wire'[k])
    BY DEF InOrder, Before
  <2>1. PICK i \in 1 .. Len(wire) : wire'[j] = wire[i] /\ i = IF j < at THEN j ELSE j + 1
    BY <1>4
  <2>2. PICK l \in 1 .. Len(wire) : wire'[k] = wire[l] /\ l = IF k < at THEN k ELSE k + 1
    BY <1>4
  <2>3. i < l
    BY <1>1, <1>3, <2>1, <2>2
  <2> QED
    BY <2>1, <2>2, <2>3 DEF LinkInv, InOrder
<1>7. PICK d \in Positions(sent) : Ahead(d) /\ Behind(d) /\ (pc = "data" => Synchronized(d))
  BY DEF LinkInv, Progress
<1>8. Ahead(d)'
  <2>1. ASSUME NEW k \in 1 .. Len(wire')
        PROVE  Before(d, wire'[k])
    BY <1>4, <1>7 DEF Ahead
  <2>2. ASSUME NEW b \in Bytes(sent), Before(d, b), b \notin lost'
        PROVE  \E k \in 1 .. Len(wire') : wire'[k] = b
    <3>1. PICK j \in 1 .. Len(wire) : wire[j] = b
      BY <1>2, <1>7, <2>2 DEF Ahead
    <3>2. j # at
      BY <1>2, <2>2, <3>1 DEF gone
    <3>3. CASE j < at
      <4>1. j \in 1 .. Len(wire')
        BY <1>1, <1>3, <3>3
      <4> QED
        BY <1>1, <1>3, <3>1, <3>3, <4>1
    <3>4. CASE at < j
      <4>1. j - 1 \in 1 .. Len(wire) - 1 /\ ~ (j - 1 < at) /\ (j - 1) + 1 = j
        BY <1>1, <3>4
      <4> QED
        BY <1>3, <3>1, <4>1
    <3> QED
      BY <1>1, <3>2, <3>3, <3>4
  <2> QED
    BY <1>2, <2>1, <2>2 DEF Ahead, Before, Bytes
<1>9. Behind(d)'
  BY <1>2, <1>7, ReceiverKept
<1>10. (pc = "data" => Synchronized(d))'
  BY <1>2, <1>7, ReceiverKept
<1>11. Progress'
  BY <1>2, <1>7, <1>8, <1>9, <1>10 DEF Progress, Positions
<1>12. Delivered'
  BY <1>1, <1>2, DeliveredKept DEF LinkInv
<1> QED
  BY <1>5, <1>6, <1>11, <1>12 DEF LinkInv

LEMMA ReadSerialDataKeeps == ASSUME LinkInv, ReadSerialData PROVE LinkInv'
<1>1. pc' = "header" /\ UNCHANGED <<line, sent, alike, wire, avail, lost, received>>
  BY DEF ReadSerialData
<1>2. LinkTypeOK'
  BY <1>1 DEF LinkInv, LinkTypeOK
<1>3. InOrder'
  BY <1>1 DEF LinkInv, InOrder
<1>4. Progress'
  <2>1. PICK d \in Positions(sent) : Ahead(d) /\ Behind(d)
    BY DEF LinkInv, Progress
  <2>2. Ahead(d)' /\ Behind(d)'
    BY <1>1, <2>1 DEF Ahead, Behind, EndOf
  <2> QED
    BY <1>1, <2>1, <2>2 DEF Progress
<1>5. Delivered'
  BY <1>1, SentIsNat, DeliveredKept DEF LinkInv
<1> QED
  BY <1>2, <1>3, <1>4, <1>5 DEF LinkInv

\* What a read leaves of the types and the order.
LEMMA ReadTypes ==
    ASSUME LinkInv, NEW len \in Nat, len >= 1, Read(len), UNCHANGED sent
    PROVE  /\ Got(len) \in 1 .. Len(wire) /\ Got(len) <= len /\ Got(len) <= avail
           /\ Shortened(Got(len)) /\ InOrder'
           /\ wire' \in Seq(Bytes(sent')) /\ avail' \in 0 .. Len(wire')
<1>1. Got(len) \in 1 .. Len(wire) /\ Got(len) <= len /\ Got(len) <= avail /\ Got(len) \in 0 .. Len(wire)
  BY WireTyped DEF LinkInv, Read, Got
<1>2. Shortened(Got(len)) /\ avail' = avail - Got(len)
  BY DEF Read, Shortened
<1>3. wire' \in Seq(Bytes(sent)) /\ Len(wire') = Len(wire) - Got(len)
  BY <1>1, <1>2, ShortenedWire DEF LinkInv
<1>4. avail' \in 0 .. Len(wire')
  BY <1>1, <1>2, <1>3, WireTyped DEF LinkInv
<1>5. InOrder'
  BY <1>1, <1>2, ShortenedOrder DEF LinkInv
<1> QED
  BY <1>1, <1>2, <1>3, <1>4, <1>5

LEMMA ReadHeaderKeeps == ASSUME LinkInv, ReadHeader PROVE LinkInv'
<1> DEFINE g == Got(HeaderSize)
<1>1. /\ Read(HeaderSize) /\ UNCHANGED <<line, sent, alike, lost, received>>
      /\ pc' = IF g < HeaderSize THEN "idle" ELSE IF Synced(wire) THEN "data" ELSE "header"
  BY DEF ReadHeader
<1>2. /\ g \in 1 .. Len(wire) /\ g <= HeaderSize /\ Shortened(g) /\ InOrder'
      /\ wire' \in Seq(Bytes(sent')) /\ avail' \in 0 .. Len(wire')
  BY <1>1, ReadTypes, Sizes
<1>3. PICK d \in Positions(sent) : Ahead(d) /\ Behind(d)
  BY DEF LinkInv, Progress
<1>4. PICK e : e = wire[g]
  OBVIOUS
<1>5. e \in Positions(sent)
  BY <1>2, <1>4, WireTyped DEF LinkInv
<1> HIDE DEF g
<1>6. Ahead(e)' /\ Behind(e)
  BY <1>1, <1>2, <1>3, <1>4, ReadOn DEF LinkInv
<1>7. Behind(e)'
  BY <1>1, <1>6 DEF Behind, EndOf, Before
<1>8. pc' = "data" => Synchronized(e)
  <2> SUFFICES ASSUME pc' = "data" PROVE Synchronized(e)
    OBVIOUS
  <2>1. g = 2 /\ Synced(wire) /\ Len(wire) >= 2
    BY <1>1, <1>2, Sizes, WireTyped DEF LinkInv
  <2> QED
    BY <1>3, <1>4, <2>1, HeaderRead DEF LinkInv
<1>9. (pc = "data" => Synchronized(e))'
  BY <1>1, <1>8 DEF Synchronized, Excused, EndOf, StartOf, Before, Apart
<1>10. Progress'
  BY <1>1, <1>5, <1>6, <1>7, <1>9 DEF Progress, Positions
<1>11. LinkTypeOK'
  BY <1>1, <1>2 DEF LinkInv, LinkTypeOK, Bytes
<1>12. Delivered'
  BY <1>1, SentIsNat, DeliveredKept DEF LinkInv
<1> QED
  BY <1>1, <1>2, <1>10, <1>11, <1>12 DEF LinkInv

\* What is delivered is the data of one frame, or there is an excuse since the last
\* delivery.
LEMMA ReadDataKeeps == ASSUME LinkInv, ReadData PROVE LinkInv'
<1> DEFINE g == Got(DataSize)
           data == SubSeq(wire, 1, DataSize)
<1>1. /\ Read(DataSize) /\ UNCHANGED <<line, sent, alike, lost>> /\ pc = "data" /\ pc' = "idle"
      /\ received' = IF g < DataSize THEN received ELSE Append(received, data)
  BY DEF ReadData
<1>2. /\ g \in 1 .. Len(wire) /\ g <= DataSize /\ Shortened(g) /\ InOrder'
      /\ wire' \in Seq(Bytes(sent')) /\ avail' \in 0 .. Len(wire')
  BY <1>1, ReadTypes, Sizes
<1>3. PICK d \in Positions(sent) : Ahead(d) /\ Behind(d) /\ Synchronized(d)
  BY <1>1 DEF LinkInv, Progress
<1>4. PICK e : e = wire[g]
  OBVIOUS
<1> PICK n : n = Len(received)
  OBVIOUS
<1>5. e \in Positions(sent)
  BY <1>2, <1>4, WireTyped DEF LinkInv
<1> HIDE DEF g
<1>6. Ahead(e)' /\ Behind(e) /\ Before(d, e)
  BY <1>1, <1>2, <1>3, <1>4, ReadOn DEF LinkInv
<1>7. CASE g < DataSize
  <2>1. received' = received
    BY <1>1, <1>7
  <2>2. Behind(e)'
    BY <1>6, <2>1 DEF Behind, EndOf, Before
  <2>3. Progress'
    BY <1>1, <1>5, <1>6, <2>2 DEF Progress, Positions
  <2>4. LinkTypeOK'
    BY <1>1, <1>2, <2>1 DEF LinkInv, LinkTypeOK, Bytes
  <2>5. Delivered'
    BY <1>1, <2>1, SentIsNat, DeliveredKept DEF LinkInv
  <2> QED
    BY <1>1, <1>2, <2>3, <2>4, <2>5 DEF LinkInv
<1>8. CASE ~ (g < DataSize)
  <2>1. /\ g = DataSize /\ DataSize \in 1 .. Len(wire) /\ 1 \in 1 .. Len(wire) /\ Len(wire) \in Nat
        /\ received' = Append(received, data) /\ sent \in Nat /\ DataSize \in Nat /\ 1 <= DataSize
    BY <1>1, <1>2, <1>8, Sizes, WireTyped, SentIsNat DEF LinkInv
  <2>2. /\ data \in Seq(Bytes(sent)) /\ Len(data) = DataSize
        /\ \A k \in 1 .. DataSize : data[k] = wire[k]
    <3>1. \A k \in 1 .. DataSize : wire[k] \in Bytes(sent)
      BY <2>1, WireTyped DEF LinkInv
    <3> QED
      BY <2>1, <3>1, SubSeqProperties
  <2> HIDE DEF data
  <2>3. /\ received \in Seq(Seq(Bytes(sent))) /\ n \in Nat
    BY DEF LinkInv, LinkTypeOK, Bytes
  <2>4. /\ received' \in Seq(Seq(Bytes(sent))) /\ Len(received') = n + 1
        /\ \A j \in 1 .. n : received'[j] = received[j]
        /\ received'[n + 1] = data
    BY <2>1, <2>2, <2>3, AppendProperties
  <2>5. n = Len(received)
    OBVIOUS
  <2>6. /\ \A j \in 1 .. n : StartOf(j)' = StartOf(j) /\ EndOf(j)' = EndOf(j)
        /\ StartOf(n + 1)' = wire[1] /\ EndOf(n + 1)' = e
    <3>1. data[1] = wire[1] /\ data[DataSize] = e
      BY <1>4, <2>1, <2>2
    <3> QED
      BY <2>4, <3>1 DEF StartOf, EndOf
  <2>7. \A j \in 1 .. n + 1 : j \in 1 .. n \/ j = n + 1
    BY <2>3
  <2>8. Before(d, wire[1])
    BY <1>3, <2>1 DEF Ahead
  <2>9. Behind(e)'
    <3> SUFFICES ASSUME NEW j \in 1 .. n + 1 PROVE ~ Before(e, EndOf(j)')
      BY <2>4 DEF Behind, Before
    <3>1. CASE j \in 1 .. n
      BY <1>6, <2>5, <2>6, <3>1 DEF Behind
    <3>2. CASE j = n + 1
      BY <1>5, <2>1, <2>6, <3>2, BeforeIsOrder
    <3> QED
      BY <2>7, <3>1, <3>2
  <2>10. Progress'
    BY <1>1, <1>5, <1>6, <2>9 DEF Progress, Positions
  <2>11. LinkTypeOK'
    BY <1>1, <1>2, <2>4 DEF LinkInv, LinkTypeOK, Bytes
  <2>12. \A j \in 1 .. Len(received') :
            Len(received'[j]) = DataSize /\ Apart(StartOf(j)', EndOf(j)', DataSize - 1)
    <3> SUFFICES ASSUME NEW j \in 1 .. n + 1
                 PROVE  Len(received'[j]) = DataSize /\ Apart(StartOf(j)', EndOf(j)', DataSize - 1)
      BY <2>4
    <3>1. CASE j \in 1 .. n
      BY <2>4, <2>5, <2>6, <3>1 DEF LinkInv, Delivered
    <3>2. CASE j = n + 1
      <4>1. Apart(wire[1], wire[DataSize], DataSize - 1)
        BY <2>1, WireApart DEF LinkInv
      <4> QED
        BY <1>4, <2>1, <2>2, <2>4, <2>6, <3>2, <4>1
    <3> QED
      BY <2>7, <3>1, <3>2
  <2>13. \A i, j \in 1 .. Len(received') : i < j => StartOf(i)'.frame < StartOf(j)'.frame
    <3> SUFFICES ASSUME NEW i \in 1 .. n + 1, NEW j \in 1 .. n + 1, i < j
                 PROVE  StartOf(i)'.frame < StartOf(j)'.frame
      BY <2>4
    <3>1. i \in 1 .. n
      BY <2>3
    <3>2. CASE j \in 1 .. n
      BY <2>5, <2>6, <3>1, <3>2 DEF LinkInv, Delivered
    <3>3. CASE j = n + 1
      <4>1. Apart(StartOf(i), d, DataSize + 1)
        BY <1>3, <2>5, <3>1 DEF Synchronized
      <4>2. StartOf(i) \in Bytes(sent) /\ wire[1] \in Bytes(sent)
        BY <2>1, <2>5, <3>1, ReceivedTyped, WireTyped DEF LinkInv
      <4>3. StartOf(i).frame < wire[1].frame
        <5>1. DataSize + 1 \in Nat /\ (DataSize + 1) + 1 = FrameSize
          BY Sizes
        <5>2. Apart(StartOf(i), wire[1], (DataSize + 1) + 1)
          BY <1>3, <2>1, <2>8, <4>1, <4>2, <5>1, ApartStep
        <5> QED
          BY <2>1, <4>2, <5>1, <5>2, FrameApart
      <4> QED
        BY <2>6, <3>1, <3>3, <4>3
    <3> QED
      BY <2>7, <3>2, <3>3
  <2> DEFINE ExcusedNow(i) == \E l \in lost \cup alike :
                 ~ Before(EndOf(i)', l) /\ \A j \in 1 .. i - 1 : Before(EndOf(j)', l)
  <2>14. \A i \in Spoilt' : ExcusedNow(i)
    <3> SUFFICES ASSUME NEW i \in 1 .. n + 1, \A f \in 1 .. sent : received'[i] # Payload(f)
                 PROVE  ExcusedNow(i)
      BY <1>1, <2>4 DEF Spoilt, Payload, Byte
    <3>1. CASE i \in 1 .. n
      <4>1. i \in Spoilt
        BY <2>4, <2>5, <3>1 DEF Spoilt
      <4>2. PICK l \in lost \cup alike :
                     ~ Before(EndOf(i), l) /\ \A j \in 1 .. i - 1 : Before(EndOf(j), l)
        BY <4>1 DEF LinkInv, Delivered, Excused
      <4>3. \A j \in 1 .. i - 1 : j \in 1 .. n
        BY <2>3, <3>1
      <4> QED
        BY <2>6, <3>1, <4>2, <4>3
    <3>2. CASE i = n + 1
      <4>1. \E l \in lost \cup alike : ~ Before(e, l) /\ \A j \in 1 .. n : Before(EndOf(j), l)
        <5>1. CASE Excused(Len(received), d)
          <6>1. PICK l \in lost \cup alike : ~ Before(d, l) /\ \A j \in 1 .. n : Before(EndOf(j), l)
            BY <2>5, <5>1 DEF Excused
          <6>2. l \in Positions(sent)
            BY ExcusesTyped DEF LinkInv
          <6>3. ~ Before(e, l)
            BY <1>5, <1>6, <2>1, <6>1, <6>2, BeforeIsOrder
          <6> QED
            BY <6>1, <6>3
        <5>2. CASE d.pos = HeaderSize
          <6>1. d.frame \in 1 .. sent
            BY <1>3 DEF Synchronized
          <6>2. PICK k \in 1 .. DataSize : wire[k] # Byte(d.frame, HeaderSize + k)
            <7>1. data # Payload(d.frame)
              BY <2>4, <3>2, <6>1
            <7>2. ASSUME \A k \in 1 .. DataSize : wire[k] = Byte(d.frame, HeaderSize + k)
                  PROVE  FALSE
              <8>1. data = [k \in 1 .. DataSize |-> data[k]]
                BY <2>2
              <8>2. data = [k \in 1 .. DataSize |-> Byte(d.frame, HeaderSize + k)]
                BY <2>2, <7>2, <8>1
              <8> QED
                BY <7>1, <8>2 DEF Payload
            <7> QED
              BY <7>2
          <6>3. PICK l \in lost : Before(d, l) /\ Before(l, wire[DataSize])
            BY <1>3, <2>1, <5>2, <6>1, <6>2, DataHaveGap DEF LinkInv
          <6>4. l \in Positions(sent)
            BY <6>3, ExcusesTyped DEF LinkInv
          <6>5. ASSUME NEW j \in 1 .. n
                PROVE  Before(EndOf(j), l)
            <7>1. EndOf(j) \in Positions(sent) /\ Before(EndOf(j), d)
              BY <1>3, <2>5, ReceivedTyped DEF Synchronized, LinkInv
            <7> QED
              BY <2>1, <6>3, <6>4, <7>1, BeforeIsOrder
          <6>6. ~ Before(e, l)
            BY <1>4, <1>5, <2>1, <6>3, <6>4, BeforeIsOrder
          <6> QED
            BY <6>3, <6>5, <6>6
        <5> QED
          BY <1>3, <5>1, <5>2 DEF Synchronized
      <4>2. i - 1 = n
        BY <2>3, <3>2
      <4> QED
        BY <2>6, <3>2, <4>1, <4>2
    <3> QED
      BY <2>7, <3>1, <3>2
  <2>15. Delivered'
    BY <1>1, <2>12, <2>13, <2>14 DEF Delivered, Excused, Before, Apart
  <2> QED
    BY <1>1, <1>2, <2>10, <2>11, <2>15 DEF LinkInv
<1> QED
  BY <1>7, <1>8

-----------------------------------------------------------------------------
(* The node.                                                               *)

\* What a discarded beginning of the wire leaves, while nothing is being read.
LEMMA FlushKeeps == ASSUME LinkInv, pc = "idle", Flush PROVE LinkInv'
<1>1. /\ Shortened(avail) /\ avail' = 0 /\ UNCHANGED <<line, sent, alike, lost, pc, received>>
      /\ avail \in 0 .. Len(wire) /\ Len(wire) \in Nat
  BY WireTyped DEF Flush, Shortened, LinkInv
<1>2. wire' \in Seq(Bytes(sent)) /\ Len(wire') = Len(wire) - avail /\ InOrder'
  BY <1>1, ShortenedWire, ShortenedOrder DEF LinkInv
<1>3. LinkTypeOK'
  <2>1. 0 \in 0 .. Len(wire')
    BY <1>1, <1>2
  <2> QED
    BY <1>1, <1>2, <2>1 DEF LinkInv, LinkTypeOK, Bytes
<1>4. PICK d \in Positions(sent) : Ahead(d) /\ Behind(d)
  BY DEF LinkInv, Progress
<1>5. \E e \in Positions(sent) : Ahead(e)' /\ Behind(e)
  <2>1. CASE avail = 0
    <3>1. wire' = wire
      <4>1. wire \in Seq(Bytes(sent))
        BY WireTyped DEF LinkInv
      <4>2. /\ Len(wire') = Len(wire) /\ \A k \in 1 .. Len(wire) : wire'[k] = wire[k]
        <5>1. \A k \in 1 .. Len(wire) - 0 : wire'[k] = wire[k + 0]
          BY <1>1, <2>1, ShortenedWire DEF LinkInv
        <5> QED
          BY <1>1, <1>2, <2>1, <5>1
      <4> QED
        BY <1>2, <4>1, <4>2, SeqEqual
    <3> QED
      BY <1>1, <1>4, <3>1 DEF Ahead, Before, Bytes
  <2>2. CASE avail # 0
    <3>1. PICK e : e = wire[avail]
      OBVIOUS
    <3>2. PICK g : g = avail
      OBVIOUS
    <3>3. g \in 1 .. Len(wire) /\ e = wire[g] /\ Shortened(g)
      BY <1>1, <2>2, <3>1, <3>2 DEF Shortened
    <3>4. Ahead(e)' /\ Behind(e)
      BY <1>1, <1>4, <3>3, ReadOn DEF LinkInv
    <3>5. e \in Positions(sent)
      BY <3>3, WireTyped DEF LinkInv
    <3> QED
      BY <3>4, <3>5
  <2> QED
    BY <2>1, <2>2
<1>6. PICK e \in Positions(sent) : Ahead(e)' /\ Behind(e)
  BY <1>5
<1>7. Behind(e)'
  BY <1>1, <1>6 DEF Behind, EndOf, Before
<1>8. Progress'
  BY <1>1, <1>6, <1>7 DEF Progress, Positions
<1>9. Delivered'
  BY <1>1, SentIsNat, DeliveredKept DEF LinkInv
<1> QED
  BY <1>1, <1>2, <1>3, <1>8, <1>9 DEF LinkInv

LEMMA LinkUntouched == ASSUME LinkInv, UNCHANGED linkVars PROVE LinkInv'
<1>1. UNCHANGED <<line, sent, alike, wire, avail, lost, pc, received>>
  BY DEF linkVars
<1>2. LinkTypeOK' /\ InOrder'
  BY <1>1 DEF LinkInv, LinkTypeOK, InOrder, Before
<1>3. Progress'
  BY <1>1, StillThere
<1>4. Delivered'
  BY <1>1, SentIsNat, DeliveredKept DEF LinkInv
<1> QED
  BY <1>1, <1>2, <1>3, <1>4 DEF LinkInv

LEMMA PortUntouched == ASSUME PortInv, UNCHANGED uartVars PROVE PortInv'
BY DEF PortInv, UartTypeOK, Search, NoneBefore, uartVars

\* Nothing is read before the port is set up.
Constructed == stage # "done" => pc = "idle"

\* The inductive invariant of the node.
IInv == PortInv /\ LinkInv /\ Constructed

LEMMA InitInvariant == Init => IInv
<1> SUFFICES ASSUME Init PROVE IInv
  OBVIOUS
<1>1. PortInv /\ LinkInv
  BY PortInitially, LinkInitially DEF Init
<1>2. Constructed
  BY DEF Init, LinkInit, Constructed
<1> QED
  BY <1>1, <1>2 DEF IInv

LEMMA ConstructKeeps == ASSUME IInv, Construct PROVE IInv'
<1>1. PortInv'
  BY InitUartKeeps DEF IInv, Construct
<1>2. stage # "done"
  BY DEF Construct, InitUart, OpenFails, SetUpFails, OpenSucceeds, CloseAll, SetNodeParam, Try
<1>3. pc = "idle"
  BY <1>2 DEF IInv, Constructed
<1>4. CASE Flush
  <2>1. LinkInv'
    BY <1>3, <1>4, FlushKeeps DEF IInv
  <2>2. pc' = "idle"
    BY <1>3, <1>4 DEF Flush
  <2> QED
    BY <1>1, <2>1, <2>2 DEF IInv, Constructed
<1>5. CASE UNCHANGED linkVars
  <2>1. LinkInv' /\ pc' = "idle"
    BY <1>3, <1>5, LinkUntouched DEF IInv, linkVars
  <2> QED
    BY <1>1, <2>1 DEF IInv, Constructed
<1> QED
  BY <1>4, <1>5 DEF Construct

LEMMA NextKeeps == IInv /\ [Next]_vars => IInv'
<1> SUFFICES ASSUME IInv, [Next]_vars PROVE IInv'
  OBVIOUS
<1>1. CASE Construct
  BY <1>1, ConstructKeeps
<1>2. CASE \E look \in Looks : SendFrame(look)
  <2>1. PICK look \in Looks : SendFrame(look)
    BY <1>2
  <2>2. PortInv' /\ LinkInv'
    BY <2>1, PortUntouched, SendKeeps DEF SendFrame, IInv
  <2> QED
    BY <2>1, <2>2 DEF IInv, Constructed, SendFrame, Send, uartVars
<1>3. CASE \E n \in Chunks : ArriveHere(n)
  <2>1. PICK n \in Chunks : ArriveHere(n)
    BY <1>3
  <2>2. PortInv' /\ LinkInv'
    BY <2>1, PortUntouched, ArriveKeeps DEF ArriveHere, IInv
  <2> QED
    BY <2>1, <2>2 DEF IInv, Constructed, ArriveHere, Arrive, uartVars
<1>4. CASE LoseByte
  <2>1. PortInv' /\ LinkInv'
    BY <1>4, PortUntouched, LoseKeeps DEF LoseByte, IInv
  <2> QED
    BY <1>4, <2>1 DEF IInv, Constructed, LoseByte, Lose, uartVars
<1>5. CASE ReadTimer
  <2>1. PortInv' /\ stage' = "done"
    BY <1>5, PortUntouched DEF ReadTimer, IInv, uartVars
  <2>2. LinkInv'
    BY <1>5, ReadSerialDataKeeps, ReadHeaderKeeps, ReadDataKeeps DEF ReadTimer, Receive, IInv
  <2> QED
    BY <2>1, <2>2 DEF IInv, Constructed
<1>6. CASE UNCHANGED vars
  <2>1. UNCHANGED uartVars /\ UNCHANGED linkVars
    BY <1>6 DEF vars
  <2>2. PortInv' /\ LinkInv'
    BY <2>1, PortUntouched, LinkUntouched DEF IInv
  <2> QED
    BY <2>1, <2>2 DEF IInv, Constructed, uartVars, linkVars
<1> QED
  BY <1>1, <1>2, <1>3, <1>4, <1>5, <1>6 DEF Next

\* The inductive invariant holds throughout.
THEOREM Invariance == Spec => []IInv
<1> QED
  BY InitInvariant, NextKeeps, PTL DEF Spec

\* The variables of the port and of the link keep their types.
THEOREM TypeCorrect == Spec => []TypeOK
<1>1. IInv => TypeOK
  BY DEF IInv, PortInv, LinkInv, TypeOK
<1> QED
  BY <1>1, Invariance, PTL

\* The driver ends up with the first device of the list that works, however long
\* the list is and whatever the devices before it do half way, and set up even
\* when the node's parameters are refused (uart_transporter.cpp:133-154).
THEOREM PortIsSound == Spec => []PortSound
<1>1. IInv => PortSound
  BY SearchFinds DEF IInv
<1> QED
  BY <1>1, Invariance, PTL

\* Each delivery begins in a later frame than the one before it, and one that is not
\* the data of one frame has a lost byte of its own to blame, or a byte of the data
\* that equals HEADER (DeliveredIsSent), for any size of frame and any data, however
\* the bytes are cut up and whatever the reads return (infantry_protocol.cpp:11-26).
THEOREM DeliveriesAreSent == Spec => []DeliveredIsSent
<1>1. IInv => DeliveredIsSent
  <2> SUFFICES ASSUME LinkInv PROVE DeliveredIsSent
    BY DEF IInv
  <2>1. \A i, j \in 1 .. Len(received) : i < j => received[i][1].frame < received[j][1].frame
    BY DEF LinkInv, Delivered, StartOf
  <2>2. \A i \in Spoilt : Excuses(i - 1, EndOf(i)) # {}
    BY DEF LinkInv, Delivered, Excused, Excuses
  <2> QED
    BY <2>1, <2>2 DEF DeliveredIsSent
<1> QED
  BY <1>1, Invariance, PTL
=============================================================================
