------------------------ MODULE MCParameterInterface ------------------------
(***************************************************************************)
(* A small instance of the parameter interface: two parameters of one      *)
(* node, which may be without the second, one of another, and one of the   *)
(* bridge's own off the whitelist.                                         *)
(***************************************************************************)
EXTENDS ParameterInterface

P(node, name) == [node |-> node, name |-> name]
TrackerRate == P("/tracker", "rate")
TrackerGain == P("/tracker", "gain")
DetectorRate == P("/detector", "rate")
BridgePort == P("/foxglove_bridge", "port")

MCAllowed == {TrackerRate, TrackerGain, DetectorRate}
MCParams == MCAllowed \cup {BridgePort}
MCOptional == {TrackerGain}

\* No name, one, three of two nodes, and a list that is refused half way.
MCNames ==
    {<<>>, <<TrackerGain>>, <<DetectorRate, TrackerGain, TrackerRate>>, <<DetectorRate, BridgePort>>}
=============================================================================
