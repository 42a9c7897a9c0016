----------------------------- MODULE SerialLink -----------------------------
(***************************************************************************)
(* The receiving side of the serial driver: the timer callback of          *)
(* SerialDriverNode runs InfantryProtocol::receive(), which scans the line *)
(* for two header bytes, two bytes at a time, and then takes the data.     *)
(*                                                                         *)
(* A byte is named by the frame and position it was sent at; what a byte   *)
(* says matters only as far as it equals HEADER, which a byte of the data  *)
(* may: nothing is escaped.  The port is configured with VMIN 1: read()    *)
(* waits for one byte and then returns what is there, which may be less    *)
(* than was asked for.  The sender and the line are external; MaxFrames    *)
(* bounds what is sent, MaxLost what a bad line loses.                     *)
(*                                                                         *)
(* Operators named Operator_Fault are plausible faults, used to show that  *)
(* the properties can fail; they are not part of the model.                *)
(***************************************************************************)
EXTENDS Integers, SequencesExt

CONSTANTS
    DataSize,   \* UniversalFrame::DATA_SIZE
    Looks,      \* the places of the data that may equal HEADER together
    Chunks,     \* how many bytes may arrive together
    MaxFrames,  \* bound on the frames sent
    MaxLost     \* bound on the bytes lost

HeaderSize == 2
FrameSize == HeaderSize + DataSize

ASSUME SerialAssumption ==
    /\ DataSize \in Nat \ {0}
    /\ Looks \subseteq SUBSET (1 .. DataSize)
    /\ Chunks \subseteq Nat \ {0}
    /\ MaxFrames \in Nat
    /\ MaxLost \in Nat

VARIABLES
    line,      \* what this line does to frames: one of Lines
    sent,      \* frames sent so far
    alike,     \* bytes of their data that equal HEADER
    wire,      \* bytes sent and not yet read
    avail,     \* how many of them have arrived
    lost,      \* bytes the line has lost
    pc,        \* "idle" or the read() the callback is in
    received   \* the data given to parse_data(), in order

linkVars == <<line, sent, alike, wire, avail, lost, pc, received>>

\* It delivers them whole, cuts them up, or loses bytes as well.
Lines == {"whole", "cut", "lossy"}

Byte(f, i) == [frame |-> f, pos |-> i]
Frame(f) == [i \in 1 .. FrameSize |-> Byte(f, i)]
Payload(f) == [i \in 1 .. DataSize |-> Byte(f, HeaderSize + i)]

\* The bytes are compared as they come.
IsHeader(b) == b.pos <= HeaderSize \/ b \in alike

LinkInit ==
    /\ line \in Lines
    /\ sent = 0 /\ alike = {} /\ wire = <<>> /\ avail = 0 /\ lost = {} /\ pc = "idle" /\ received = <<>>

-----------------------------------------------------------------------------
(* The line.                                                               *)

Send(look) ==
    /\ sent < MaxFrames
    /\ sent' = sent + 1
    /\ alike' = alike \cup {Byte(sent', HeaderSize + i) : i \in look}
    /\ wire' = wire \o Frame(sent')
    /\ UNCHANGED <<line, avail, lost, pc, received>>

Arrive(n) ==
    /\ line = "whole" => n = FrameSize
    /\ avail + n <= Len(wire)
    /\ avail' = avail + n
    /\ UNCHANGED <<line, sent, alike, wire, lost, pc, received>>

\* The next byte does not arrive.
Lose ==
    /\ line = "lossy"
    /\ avail < Len(wire) /\ Cardinality(lost) < MaxLost
    /\ wire' = RemoveAt(wire, avail + 1)
    /\ lost' = lost \cup {wire[avail + 1]}
    /\ UNCHANGED <<line, sent, alike, avail, pc, received>>

-----------------------------------------------------------------------------
(* The receiver.                                                           *)

\* The timer starts the callback.
ReadSerialData ==
    /\ pc = "idle"
    /\ pc' = "header"
    /\ UNCHANGED <<line, sent, alike, wire, avail, lost, received>>

\* read(buffer, len): got is what was read.
Got(len) == IF avail < len THEN avail ELSE len

Read(len) ==
    /\ avail > 0
    /\ wire' = SubSeq(wire, Got(len) + 1, Len(wire))
    /\ avail' = avail - Got(len)

\* Fault: the first byte alone is compared.
Synced_FirstByte(h) == IsHeader(h[1])

Synced(h) == \A i \in 1 .. HeaderSize : IsHeader(h[i])

\* Too little for a header throws, and ends the callback; anything but a
\* header is dropped, and the callback stays in its loop.
ReadHeader ==
    /\ pc = "header"
    /\ Read(HeaderSize)
    /\ pc' = IF Got(HeaderSize) < HeaderSize THEN "idle"
             ELSE IF Synced(wire) THEN "data" ELSE "header"
    /\ UNCHANGED <<line, sent, alike, lost, received>>

\* Fault: a byte END is expected after the data, as transmit() sends one.
ReadData_WithEnd ==
    /\ pc = "data"
    /\ Read(DataSize + 1)
    /\ pc' = "idle"
    /\ received' = IF Got(DataSize + 1) < DataSize + 1 THEN received
                   ELSE Append(received, SubSeq(wire, 1, DataSize))
    /\ UNCHANGED <<line, sent, alike, lost>>

\* Too little data throws as well, and what was read of it is lost.
ReadData ==
    /\ pc = "data"
    /\ Read(DataSize)
    /\ pc' = "idle"
    /\ received' = IF Got(DataSize) < DataSize THEN received
                   ELSE Append(received, SubSeq(wire, 1, DataSize))
    /\ UNCHANGED <<line, sent, alike, lost>>

Receive == ReadSerialData \/ ReadHeader \/ ReadData

-----------------------------------------------------------------------------
\* The variables keep their types, and what has arrived has been sent.
LinkTypeOK ==
    /\ line \in Lines
    /\ sent \in 0 .. MaxFrames
    /\ alike \subseteq [frame : 1 .. sent, pos : HeaderSize + 1 .. FrameSize]
    /\ wire \in Seq([frame : 1 .. sent, pos : 1 .. FrameSize])
    /\ avail \in 0 .. Len(wire)
    /\ lost \subseteq [frame : 1 .. sent, pos : 1 .. FrameSize]
    /\ pc \in {"idle", "header", "data"}
    /\ received \in Seq(Seq([frame : 1 .. sent, pos : 1 .. FrameSize]))

\* Deliveries that are not the data of one frame.
Spoilt == {i \in 1 .. Len(received) : \A f \in 1 .. sent : received[i] # Payload(f)}

\* Byte a was sent before byte b.
Before(a, b) == a.frame < b.frame \/ (a.frame = b.frame /\ a.pos < b.pos)

\* The last byte of a delivery.
EndOf(i) == received[i][DataSize]

\* Bytes that were lost, or that look like a header, up to b and after the end of
\* the first n deliveries.
Excuses(n, b) ==
    {l \in lost \cup alike : ~ Before(b, l) /\ \A j \in 1 .. n : Before(EndOf(j), l)}

\* However the bytes of the frames are cut up on their way, each delivery begins
\* in a later frame than the one before it, so that no frame is delivered twice or
\* after a later one.  There is no checksum and nothing is escaped, and yet a
\* delivery that is not the data of one frame has a byte of its own to blame, read
\* or missed since the delivery before it: one that was lost, or one of the data
\* that equals HEADER (infantry_protocol.cpp:11-26).
DeliveredIsSent ==
    /\ \A i \in Spoilt : Excuses(i - 1, EndOf(i)) # {}
    /\ \A i, j \in 1 .. Len(received) :
        i < j => received[i][1].frame < received[j][1].frame
=============================================================================
