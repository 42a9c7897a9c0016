--------------------------- MODULE UartTransporter ---------------------------
(***************************************************************************)
(* How the serial driver gets its port: UartTransporter::open(), setParam()*)
(* and openPorts() over the list of devices, and SerialDriverNode::        *)
(* init_uart() around them.  What a device does to the system calls is     *)
(* external and fixed by its kind:                                         *)
(*   "absent"  open() fails            "nofcntl" fcntl() fails             *)
(*   "notty"   tcgetattr() fails       "noset"   tcsetattr() fails         *)
(*   "good"    everything succeeds                                         *)
(* A setting stands for the five parameters; setParam() accepts some.      *)
(*                                                                         *)
(* Operators named Operator_Fault are plausible faults, used to show that  *)
(* the properties can fail; they are not part of the model.                *)
(***************************************************************************)
EXTENDS Integers

CONSTANTS
    Ports,        \* devices in ports_list, numbered in its order
    Supported,    \* settings setParam() accepts
    Default,      \* the setting of the transporter's constructor
    NodeSettings  \* settings the parameters of the node may ask for

Kinds == {"absent", "nofcntl", "notty", "noset", "good"}
NoPort == 0
Factory == "factory"

ASSUME UartAssumption ==
    /\ Ports \in Nat
    /\ Default \in Supported
    /\ Factory \notin Supported

VARIABLES
    kind,      \* kind of each device
    asked,     \* the setting of the node's parameters
    next,      \* the device openPorts() tries next
    fd,        \* the device fd_ refers to
    is_open,   \* is_open_
    opened,    \* devices with a descriptor that was never closed
    setting,   \* the setting of each device
    stage      \* where init_uart() is

uartVars == <<kind, asked, next, fd, is_open, opened, setting, stage>>

UartInit ==
    /\ kind \in [1 .. Ports -> Kinds]
    /\ asked \in NodeSettings
    /\ next = 1 /\ fd = NoPort /\ is_open = FALSE /\ opened = {}
    /\ setting = [p \in 1 .. Ports |-> Factory]
    /\ stage = "open"

-----------------------------------------------------------------------------
(* open() and openPorts().                                                 *)

\* setParam(s) on the device p of fd_ gets to tcsetattr(), and succeeds there.
SetsParam(p, s) == p # NoPort /\ kind[p] = "good" /\ s \in Supported

Try(p) ==
    /\ stage = "open" /\ next = p /\ p \in 1 .. Ports
    /\ UNCHANGED <<kind, asked>>

OpenFails(p) ==
    /\ Try(p) /\ kind[p] = "absent"
    /\ fd' = NoPort
    /\ next' = p + 1
    /\ UNCHANGED <<is_open, opened, setting, stage>>

\* fcntl() or setParam() fails: the descriptor stays open.
SetUpFails(p) ==
    /\ Try(p) /\ kind[p] # "absent" /\ ~SetsParam(p, Default)
    /\ fd' = p
    /\ opened' = opened \cup {p}
    /\ next' = p + 1
    /\ UNCHANGED <<is_open, setting, stage>>

\* Fault: the list is gone through to its end.
OpenSucceeds_GoesOn(p) ==
    /\ Try(p) /\ SetsParam(p, Default)
    /\ fd' = p /\ is_open' = TRUE
    /\ opened' = opened \cup {p}
    /\ setting' = [setting EXCEPT ![p] = Default]
    /\ next' = p + 1
    /\ stage' = IF p = Ports THEN "param" ELSE "open"

OpenSucceeds(p) ==
    /\ Try(p) /\ SetsParam(p, Default)
    /\ fd' = p /\ is_open' = TRUE
    /\ opened' = opened \cup {p}
    /\ setting' = [setting EXCEPT ![p] = Default]
    /\ stage' = "param"
    /\ UNCHANGED next

\* All ports failed: close() returns at once when is_open_ is false.
CloseAll ==
    /\ stage = "open" /\ next > Ports
    /\ IF is_open THEN fd' = NoPort /\ is_open' = FALSE /\ opened' = opened \ {fd}
       ELSE UNCHANGED <<fd, is_open, opened>>
    /\ stage' = "param"
    /\ UNCHANGED <<kind, asked, next, setting>>

-----------------------------------------------------------------------------
(* init_uart() after openPorts(); a failure stops nothing.                 *)

SetNodeParam ==
    /\ stage = "param"
    /\ setting' = IF SetsParam(fd, asked) THEN [setting EXCEPT ![fd] = asked]
                  ELSE setting
    /\ stage' = "done"
    /\ UNCHANGED <<kind, asked, next, fd, is_open, opened>>

InitUart ==
    \/ \E p \in 1 .. Ports : OpenFails(p) \/ SetUpFails(p) \/ OpenSucceeds(p)
    \/ CloseAll
    \/ SetNodeParam

-----------------------------------------------------------------------------
\* The variables keep their types.
UartTypeOK ==
    /\ kind \in [1 .. Ports -> Kinds] /\ asked \in NodeSettings
    /\ next \in 1 .. Ports + 1
    /\ fd \in 0 .. Ports /\ is_open \in BOOLEAN /\ opened \subseteq 1 .. Ports
    /\ setting \in [1 .. Ports -> Supported \cup {Factory}]
    /\ stage \in {"open", "param", "done"}

\* A port that counts as open is one that is, with a setting that setParam()
\* accepts: refused parameters of the node leave the constructor's in force.
OpenIsConfigured ==
    is_open => fd \in opened /\ setting[fd] \in Supported

\* Whatever earlier devices did half way, the driver ends up with the first
\* device of the list that works, if there is one.
FirstWorkingPort ==
    stage = "done" =>
        IF \E p \in 1 .. Ports : kind[p] = "good"
        THEN is_open /\ kind[fd] = "good" /\ \A p \in 1 .. fd - 1 : kind[p] # "good"
        ELSE ~is_open

\* What the read loop and the protocol are built on: the first port that works,
\* set up, or none (uart_transporter.cpp:133-154, serial_driver_node.cpp:42-74).
PortSound == OpenIsConfigured /\ FirstWorkingPort
=============================================================================
