--------------------------- MODULE MCSerialDriver ---------------------------
(***************************************************************************)
(* Small instances of SerialDriver.  A frame keeps its even length, which  *)
(* is what decides whether a scan two bytes at a time finds the next       *)
(* header.                                                                 *)
(***************************************************************************)
EXTENDS SerialDriver

\* The constructor's 115200 8N1 and another baud rate.
MCSupported == {"115200-8N1", "9600-8N1"}
\* What the parameters may ask for: the two, or a parity of 0.
MCAny == {"115200-8N1", "9600-8N1", "115200-parity-0"}
\* A parity of 0 alone, as in the defaults of the node, and what is accepted.
MCEither == {"115200-parity-0", "9600-8N1"}

\* No byte of the data equals HEADER, or all but the first do: a read that fell
\* short leaves two of them to be scanned, or the last one and half a header.
MCLooks == {{}, 2 .. DataSize}
MCNone == {{}}

\* A byte at a time, or a frame at a time.
MCChunks == {1, FrameSize}
=============================================================================
