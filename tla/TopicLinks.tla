----------------------------- MODULE TopicLinks -----------------------------
(***************************************************************************)
(* What the Foxglove bridge promises about topics: some topics are         *)
(* offered, a client may be linked to those that are, and a link lasts     *)
(* until the client gives it up or its topic is withdrawn.                 *)
(***************************************************************************)
CONSTANTS Clients, Topics

VARIABLES offered, links

Init == offered = {} /\ links = {}

Offer ==
    /\ offered' \in SUBSET Topics
    /\ links' = {l \in links : l[2] \in offered'}

Join ==
    /\ \E c \in Clients, t \in offered : links' = links \cup {<<c, t>>}
    /\ UNCHANGED offered

Leave ==
    /\ \E l \in links : links' = links \ {l}
    /\ UNCHANGED offered

Next == Offer \/ Join \/ Leave

Spec == Init /\ [][Next]_<<offered, links>>
=============================================================================
