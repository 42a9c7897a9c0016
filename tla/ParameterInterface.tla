------------------------- MODULE ParameterInterface -------------------------
(***************************************************************************)
(* The parameter side of the Foxglove bridge: the class ParameterInterface *)
(* and the handlers of ros2_foxglove_bridge.cpp that call it.  Clients get *)
(* and set parameters of other nodes and subscribe to their changes.       *)
(*                                                                         *)
(* A mutex serialises what clients ask for; a get or a set holds it until  *)
(* every node it asks has answered or failed, and each node is asked on a  *)
(* thread of its own.  The callback for a parameter event takes no lock.   *)
(* Making a node's parameter client, which happens at its first use, may   *)
(* throw, for a node name that is none say, and ends what the client asked *)
(* for.  The clients that were made are not state that anything depends on *)
(* and are left out, and of values only whether a parameter has one.       *)
(***************************************************************************)
EXTENDS Sequences, FiniteSets, SequencesExt, HashMaps

CONSTANTS
    Clients,     \* websocket connections
    Params,      \* parameters: the node they are of and their name there
    Allowed,     \* those whose full name is on the whitelist
    Optional,    \* those that their node may be without
    OwnNode,     \* the bridge
    Names        \* the lists of names that clients send

ASSUME ParamAssumption ==
    /\ Allowed \subseteq Params
    /\ Optional \subseteq Params
    /\ Names \subseteq Seq(Params)

VARIABLES
    wanted,       \* _subscribedParamsByNode: node to parameters of its
    listening,    \* the nodes in _paramSubscriptionsByNode
    job,          \* what the handler of a client is at
    event,        \* what the callback is at
    crashed,      \* undefined behaviour has ended the process
    declared,     \* the parameters that the nodes have
    halfDone,     \* nodes that a list of names was begun for and not ended (history)
    revived       \* nodes whose entry a late event has made anew (history)

paramVars == <<wanted, listening, job, event, crashed, declared, halfDone, revived>>

Nodes == {p.node : p \in Params}
Of(n, P) == {p \in P : p.node = n}
Requests == {ToSet(names) : names \in Names}

\* asked: the parameters a request is about, all: none was named; unset: those to
\* be deleted; left, failed: the nodes that are being asked and those that did
\* not answer; moved: those whose parameters others have changed meanwhile
\* (history); got: what has come back.
Job(kind, asked, left) ==
    [kind |-> kind, asked |-> asked, all |-> FALSE, unset |-> {}, left |-> left,
     failed |-> {}, moved |-> {}, got |-> {}, echo |-> FALSE]
NoJob == Job("none", {}, {})
ReadBack(asked) == Job("echo", asked, {})
NoEvent == [step |-> "none", node |-> OwnNode, entry |-> FALSE]

Init ==
    /\ wanted = EmptyMap
    /\ listening = {}
    /\ job = [c \in Clients |-> NoJob]
    /\ event = NoEvent
    /\ crashed = FALSE
    /\ declared = Params
    /\ halfDone = {}
    /\ revived = {}

\* A get or a set at work, or one that an exception has ended whose threads are
\* still waited for.
Holding == {"get", "set", "broken"}

Unlocked_Fault == \A c \in Clients : job[c].kind # "set"

\* _mutex is free.
Unlocked == \A c \in Clients : job[c].kind \notin Holding

subscriptionVars == <<wanted, listening, event, crashed, halfDone, revived>>
-----------------------------------------------------------------------------
(* Get and set. *)

\* An exception after the threads of the nodes in started: making the client of
\* another or the thread failed, or it was thrown before the first node.  The
\* threads are waited for under the mutex, as the futures are destroyed.
BreaksOff(started, nodes) == started # nodes \/ nodes = {}

\* getParams() from where the nodes of the parameters are asked.
AskNodes(c, asked, all) ==
    LET nodes == {p.node : p \in asked}
    IN  \/ job' = [job EXCEPT ![c] = [Job("get", asked, nodes) EXCEPT !.all = all]]
        \/ \E started \in SUBSET nodes :
               /\ BreaksOff(started, nodes)
               /\ job' = [job EXCEPT ![c] = Job("broken", {}, started)]

\* getParams(): the parameters named or, without names, those of all nodes that
\* offer their parameters at the moment.
StartGet(c, named) ==
    \E offering \in SUBSET (Nodes \ {OwnNode}) :
        AskNodes(c, IF named = {} THEN {p \in Params : p.node \in offering}
                                  ELSE {p \in named : p.node # OwnNode}, named = {})

GetParameters(c) ==
    /\ Unlocked
    /\ job[c].kind = "none"
    /\ \E named \in Requests : StartGet(c, named)
    /\ UNCHANGED <<declared, subscriptionVars>>

\* setParams() up to there: one name off the whitelist and nothing is set.  A
\* parameter without a value is to be deleted; for one that is not optional the
\* node will refuse.  With a request id the parameters are read back when this
\* is over, which takes the mutex anew, unless an exception has ended it.
SetParameters(c) ==
    /\ Unlocked
    /\ job[c].kind = "none"
    /\ \E named \in Requests, echo \in BOOLEAN :
           LET nodes == {p.node : p \in named}
           IN  \/ /\ named \subseteq Allowed
                  /\ \E unset \in SUBSET (named \cap Optional) :
                         \/ job' = [job EXCEPT ![c] = [Job("set", named, nodes) EXCEPT
                                                         !.unset = unset, !.echo = echo]]
                         \/ \E started \in SUBSET nodes :
                                /\ BreaksOff(started, nodes)
                                /\ job' = [job EXCEPT ![c] = [Job("broken", named, started) EXCEPT
                                                                !.unset = unset]]
               \/ /\ ~ named \subseteq Allowed
                  /\ echo
                  /\ job' = [job EXCEPT ![c] = ReadBack(named)]
    /\ UNCHANGED <<declared, subscriptionVars>>

\* getNodeParameters() reports what is on the whitelist.
Readable(P) == P \cap Allowed

\* What a node answers: all that it has of what it is asked for.  When it has
\* not got one of the names it may refuse all; the names that it lists itself it
\* has, unless others have changed them since.
Given(j, n) ==
    LET had == Of(n, j.asked) \cap declared
    IN  {had} \cup {none \in {{}} : n \in j.moved \/ (~ j.all /\ had # Of(n, j.asked))}

Gain(j, n, given) ==
    [j EXCEPT !.left = @ \ {n}, !.got = @ \cup IF j.kind = "get" THEN Readable(given) ELSE {}]

\* What setNodeParameters() does to the node.  A deletion that is refused or too
\* late is only logged, and so is a value that is refused.
Carry(j, n) ==
    IF j.kind = "get"
    THEN UNCHANGED declared
    ELSE \E deleted \in SUBSET Of(n, j.unset), made \in SUBSET (Of(n, j.asked \cap Optional) \ j.unset) :
             declared' = (declared \ deleted) \cup made

\* getNodeParameters() or setNodeParameters() on its thread ends: the node has
\* answered, ...
NodeAnswers(c) ==
    /\ \E n \in job[c].left :
           /\ Carry(job[c], n)
           /\ \E given \in Given(job[c], n) : job' = [job EXCEPT ![c] = Gain(@, n, given)]
    /\ UNCHANGED subscriptionVars

Lose_Fault(j, n) == [j EXCEPT !.left = {}, !.failed = @ \cup {n}]

\* What an exception of one node's thread costs: this node's parameters.
Lose(j, n) == [j EXCEPT !.left = @ \ {n}, !.failed = @ \cup {n}]

\* ... or it is not there, or silent until the time is over, whatever it has done
\* by then.
NodeFails(c) ==
    /\ \E n \in job[c].left :
           /\ Carry(job[c], n)
           /\ job' = [job EXCEPT ![c] = Lose(@, n)]
    /\ UNCHANGED subscriptionVars

\* A node gets or loses a parameter by itself or through others: the bridge has
\* no part in it, nor in a set that it waits for no more and the node does late.
NodeChanges ==
    /\ \E p \in Optional :
           /\ declared' = IF p \in declared THEN declared \ {p} ELSE declared \cup {p}
           /\ job' = [c \in Clients |->
                          IF job[c].kind = "get" /\ p \in job[c].asked
                          THEN [job[c] EXCEPT !.moved = @ \cup {p.node}]
                          ELSE job[c]]
    /\ UNCHANGED subscriptionVars

Waited_Fault(c) == job[c].left = {} /\ job[c].failed = {}

\* A node that failed is not waited for any more.
Waited(c) == job[c].left = {}

\* All nodes have been waited for: the mutex is given back and the client gets
\* its answer, or the parameters that were set are still to be read.  After an
\* exception it gets none.
Finish(c) ==
    /\ job[c].kind \in Holding
    /\ Waited(c)
    /\ job' = [job EXCEPT ![c] = IF job[c].echo THEN ReadBack(job[c].asked) ELSE NoJob]
    /\ UNCHANGED <<declared, subscriptionVars>>

\* setParameters() goes on to getParameters().
Echo(c) ==
    /\ Unlocked
    /\ job[c].kind = "echo"
    /\ StartGet(c, job[c].asked)
    /\ UNCHANGED <<declared, subscriptionVars>>
-----------------------------------------------------------------------------
(* Subscriptions to changes. *)

\* The names of a list before the first that is off the whitelist.
Accepted(names) ==
    {names[i] : i \in {k \in DOMAIN names : \A h \in 1 .. k : names[h] \in Allowed}}

Enter(P) ==
    [n \in DOMAIN wanted \cup {p.node : p \in P} |->
        Of(n, P) \cup (IF n \in DOMAIN wanted THEN wanted[n] ELSE {})]

\* The nodes whose entry was newly created.
NewNodes(P) == {p.node : p \in P} \ DOMAIN wanted

\* subscribeParams(): names are entered one by one, and at the first that is off
\* the whitelist it returns, with no subscription for the entries it has made.
\* Otherwise the nodes of new entries are subscribed to in no certain order, up
\* to where making a client or the subscription throws, if it does.
SubscribeParams(c) ==
    /\ Unlocked
    /\ job[c].kind = "none"
    /\ \E names \in Names :
           LET P == Accepted(names)
           IN  /\ wanted' = Enter(P)
               /\ \/ /\ ToSet(names) \subseteq Allowed
                     /\ \E subscribed \in SUBSET NewNodes(P) :
                            /\ listening' = listening \cup subscribed
                            /\ halfDone' = halfDone \cup (NewNodes(P) \ subscribed)
                  \/ /\ ~ ToSet(names) \subseteq Allowed
                     /\ halfDone' = halfDone \cup NewNodes(P)
                     /\ UNCHANGED listening
    /\ UNCHANGED <<job, event, crashed, declared, revived>>

\* erase(find(...)) of a key that is not there is undefined.
Crash ==
    /\ crashed' = TRUE
    /\ UNCHANGED <<wanted, listening, event, halfDone, revived>>

Unlisten_Fault(n) == UNCHANGED listening

Unlisten(n) == listening' = listening \ {n}

\* unsubscribeParams(), for one name of its list: a node without an entry is
\* passed over; the last parameter takes entry and subscription with it.
UnsubscribeParam(p) ==
    /\ p.node \in DOMAIN wanted
    /\ LET left == wanted[p.node] \ {p}
       IN  \/ /\ p \notin wanted[p.node] \/ (left = {} /\ p.node \notin listening)
              /\ Crash
           \/ /\ p \in wanted[p.node]
              /\ left # {}
              /\ wanted' = [wanted EXCEPT ![p.node] = left]
              /\ UNCHANGED <<listening, event, crashed, halfDone, revived>>
           \/ /\ p \in wanted[p.node]
              /\ left = {}
              /\ p.node \in listening
              /\ wanted' = Erase(wanted, {p.node})
              /\ Unlisten(p.node)
              /\ event' = [event EXCEPT !.entry = @ /\ event.node # p.node]
              /\ UNCHANGED <<crashed, halfDone, revived>>

UnsubscribeParams(c) ==
    /\ Unlocked
    /\ job[c].kind = "none"
    /\ \E p \in Params : UnsubscribeParam(p)
    /\ UNCHANGED <<job, declared>>

\* The executor calls the callback of a node's subscription.  The subscription
\* is to the events of all nodes and the callback compares names only, so what it
\* will report as the node's may be another node's; values are not state here.
ParameterEvent ==
    /\ event.step = "none"
    /\ \E n \in listening : event' = [step |-> "lookup", node |-> n, entry |-> FALSE]
    /\ UNCHANGED <<wanted, listening, job, crashed, declared, halfDone, revived>>

\* operator[], without the lock: it makes an entry when there is none.
LookUp ==
    /\ event.step = "lookup"
    /\ event' = [event EXCEPT !.step = "read", !.entry = TRUE]
    /\ IF event.node \in DOMAIN wanted
       THEN UNCHANGED <<wanted, revived>>
       ELSE /\ wanted' = Emplace(wanted, event.node, {})
            /\ revived' = revived \cup {event.node}
    /\ UNCHANGED <<listening, job, crashed, declared, halfDone>>

\* The rest of the callback: what is subscribed is sent.  When the entry was
\* erased meanwhile the reference dangles.
Update ==
    /\ event.step = "read"
    /\ \/ /\ event' = NoEvent
          /\ UNCHANGED <<wanted, listening, crashed, halfDone, revived>>
       \/ /\ ~ event.entry
          /\ Crash
    /\ UNCHANGED <<job, declared>>
-----------------------------------------------------------------------------
Next ==
    /\ ~ crashed
    /\ \/ \E c \in Clients : GetParameters(c) \/ SetParameters(c) \/ NodeAnswers(c) \/ NodeFails(c)
                                \/ Finish(c) \/ Echo(c) \/ SubscribeParams(c) \/ UnsubscribeParams(c)
       \/ ParameterEvent \/ LookUp \/ Update \/ NodeChanges

\* A node answers or the time is over, and then the handler goes on.
Fairness ==
    \A c \in Clients :
        /\ WF_paramVars(~ crashed /\ (NodeAnswers(c) \/ NodeFails(c)))
        /\ WF_paramVars(~ crashed /\ Finish(c))

Spec == Init /\ [][Next]_paramVars /\ Fairness
-----------------------------------------------------------------------------
Jobs == [kind: {"none", "echo"} \cup Holding, asked: SUBSET Params, all: BOOLEAN,
         unset: SUBSET Optional, left: SUBSET Nodes, failed: SUBSET Nodes, moved: SUBSET Nodes,
         got: SUBSET Params, echo: BOOLEAN]
Events == {NoEvent} \cup [step: {"lookup", "read"}, node: Nodes, entry: BOOLEAN]

\* What is subscribed is a parameter of its node, and on the whitelist.
TypeOK ==
    /\ DOMAIN wanted \subseteq Nodes
    /\ \A n \in DOMAIN wanted : wanted[n] \subseteq Of(n, Allowed)
    /\ listening \subseteq Nodes
    /\ job \in [Clients -> Jobs]
    /\ event \in Events
    /\ crashed \in BOOLEAN
    /\ declared \subseteq Params
    /\ halfDone \subseteq Nodes
    /\ revived \subseteq Nodes

\* A node with subscribed parameters is listened to, but for three ways in which
\* an entry is made without the subscription: a list that is refused half way
\* (parameter_interface.cpp:274), an exception while the clients and the
\* subscriptions of its nodes are made (parameter_interface.cpp:288-299), and a
\* callback that runs after the last parameter was unsubscribed
\* (parameter_interface.cpp:305).  Such a node is not listened to by any later
\* list, and no node is listened to without an entry.
NodesServed ==
    /\ DOMAIN wanted = listening \cup halfDone \cup revived
    /\ listening \cap (halfDone \cup revived) = {}

\* What a get that no exception has ended may report: of each node that has
\* answered, what it has and the whitelist lets through, or nothing when it was
\* asked for a name that it has not got.
Whole(j) ==
    /\ j.kind = "get" =>
           /\ j.got \subseteq {p \in Readable(j.asked) : p.node \notin j.left \cup j.failed}
           /\ \A n \in Nodes \ (j.left \cup j.failed \cup j.moved) :
                  \/ Of(n, j.got) = Readable(Of(n, j.asked) \cap declared)
                  \/ Of(n, j.got) = {} /\ ~ j.all /\ ~ Of(n, j.asked) \subseteq declared
    /\ j.kind \in {"set", "broken"} => j.asked \subseteq Allowed /\ j.got = {}

\* A node that fails or is silent costs its own parameters only: of all other
\* nodes a get reports what they have at one moment, unset parameters left out and
\* no set of another client in between, nothing off the whitelist is reported,
\* and of a set with a name off the whitelist no node is sent anything.  An
\* exception outside the nodes' threads costs the whole answer
\* (parameter_interface.cpp:203-209, 215-226, 233-237, 388-403).
AnswersWhole == \A c \in Clients : Whole(job[c])

\* The mutex that subscribing and all other requests need is given back, also
\* when nodes do not answer (parameter_interface.cpp:354, 362, 396, 404).
MutexReturned == ~ Unlocked ~> Unlocked \/ crashed
=============================================================================
