---------------------------- MODULE SerialDriver ----------------------------
(***************************************************************************)
(* SerialDriverNode: its constructor runs init_uart() (UartTransporter) and *)
(* then creates the timer whose callback receives from the line that the   *)
(* port it got is the end of (SerialLink).  When no port could be opened   *)
(* init_uart() shuts rclcpp down, and the timer never fires.  A device that *)
(* is not open keeps nothing of what arrives, nor does the one that is     *)
(* set up anew with the parameters of the node.                            *)
(***************************************************************************)
EXTENDS UartTransporter, SerialLink

vars == <<uartVars, linkVars>>

Init == UartInit /\ LinkInit

\* tcflush() in a setParam() that succeeds: what has arrived is discarded.
Flush ==
    /\ wire' = SubSeq(wire, avail + 1, Len(wire)) /\ avail' = 0
    /\ UNCHANGED <<line, sent, alike, lost, pc, received>>

\* The constructor.
Construct ==
    /\ InitUart
    /\ IF stage = "param" /\ SetsParam(fd, asked) THEN Flush ELSE UNCHANGED linkVars

\* What the sender and the line do once the port is open.
SendFrame(look) == is_open /\ Send(look) /\ UNCHANGED uartVars
ArriveHere(n) == is_open /\ Arrive(n) /\ UNCHANGED uartVars
LoseByte == is_open /\ Lose /\ UNCHANGED uartVars

\* The timer of the constructed node.
ReadTimer == stage = "done" /\ is_open /\ Receive /\ UNCHANGED uartVars

Next ==
    \/ Construct
    \/ (\E look \in Looks : SendFrame(look))
    \/ (\E n \in Chunks : ArriveHere(n)) \/ LoseByte
    \/ ReadTimer

Spec == Init /\ [][Next]_vars

\* The constructor comes to its end, the timer keeps firing, reads return when
\* there is something to read, and what was sent and is not lost arrives.
FairSpec ==
    /\ Spec
    /\ WF_vars(Construct)
    /\ WF_vars(ReadTimer)
    /\ \A n \in Chunks : WF_vars(ArriveHere(n))

\* The variables of both parts keep their types.
TypeOK == UartTypeOK /\ LinkTypeOK

\* On a line that delivers frames whole, every one that is on its way when the
\* node is constructed, or is sent later, is delivered, whatever its data hold.  On
\* a line that cuts them up, a read of odd length loses the header for good, or
\* until the next read of odd length (infantry_protocol.cpp:11-26).
EveryFrameArrives ==
    \A n \in 1 .. MaxFrames :
        line = "whole" /\ stage = "done" /\ (\E k \in 1 .. Len(wire) : wire[k] = Byte(n, 1))
            ~> \E i \in 1 .. Len(received) : received[i] = Payload(n)
=============================================================================
