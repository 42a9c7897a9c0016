--------------------------- MODULE FoxgloveBridge ---------------------------
(***************************************************************************)
(* The node FoxgloveBridge (ros2_foxglove_bridge.cpp): the thread that     *)
(* follows the ROS graph, the handlers that the websocket server calls on  *)
(* threads of its own, the answers that come in on the executor's threads, *)
(* and the end of the node.  The websocket server and ROS are external.    *)
(***************************************************************************)
EXTENDS BridgeChannels, BridgeServices, ClientPublications

CONSTANTS
    Capabilities,     \* the values the parameter capabilities may have
    MaxAppearances    \* bound on how often something appears in the ROS graph

VARIABLES
    capabilities,     \* _capabilities, which the server is given too
    thread,           \* the next step of rosgraphPollThread()
    registered,       \* it holds a graph event
    graphEvent,       \* the event is set (external: by every later change of the graph)
    foundTopics,      \* get_topic_names_and_types() as the thread last read it
    foundServices,    \* get_service_names_and_types() likewise
    graphWanted,      \* _subscribeGraphUpdates
    ok,               \* rclcpp::ok()
    shuttingDown,     \* _shuttingDown
    serving,          \* the websocket server runs
    appearances       \* what has appeared in the graph (the bound's counter)

threadVars == <<thread, registered, foundTopics, foundServices>>
nodeVars == <<capabilities, graphWanted, ok, shuttingDown, serving>>
graphVars == <<publishers, servers, appearances>>
vars == <<graphVars, channelVars, serviceVars, publicationVars, threadVars, nodeVars,
          graphEvent>>

\* The constructor: the server is started before the thread.
Init ==
    /\ publishers \in SUBSET Publishers
    /\ servers \in {S \in SUBSET Servers : \A s, other \in S : s.name = other.name => s = other}
    /\ appearances = 0
    /\ ChannelsInit
    /\ ServicesInit
    /\ PublicationsInit
    /\ capabilities \in Capabilities
    /\ thread = "topics.read"
    /\ registered = FALSE
    /\ graphEvent = FALSE
    /\ foundTopics = {}
    /\ foundServices = {}
    /\ graphWanted = FALSE
    /\ ok = TRUE
    /\ shuttingDown = FALSE
    /\ serving = TRUE

\* ROS sets the event when an endpoint has come or gone.
Graph == <<publishers, servers, OwnTopics>>
Noticed == graphEvent' = (graphEvent \/ (registered /\ Graph' # Graph))
-----------------------------------------------------------------------------
(* The thread that follows the graph. *)

ReadTopics ==
    /\ thread = "topics.read"
    /\ foundTopics' = RosTopics
    /\ thread' = "topics"
    /\ UNCHANGED <<registered, foundServices>>
    /\ UNCHANGED <<graphVars, channelVars, serviceVars, publicationVars, nodeVars, graphEvent>>

HasCapability(c) == c \in capabilities

AfterServices == IF ~ registered THEN "register"
                 ELSE IF graphWanted THEN "graph" ELSE "loop"

\* Fault: the event is cleared when the graph has been looked at.
UpdateTopics_Fault ==
    /\ thread = "topics"
    /\ \/ ok /\ UpdateAdvertisedTopics(foundTopics)
       \/ ~ ok /\ UNCHANGED channelVars
    /\ foundTopics' = {}
    /\ thread' = IF ok /\ HasCapability("services") THEN "services.read" ELSE AfterServices
    /\ UNCHANGED <<registered, foundServices>>
    /\ UNCHANGED <<graphVars, serviceVars, publicationVars, nodeVars>>
    /\ graphEvent' = FALSE

\* The updates return at once when ROS is going down, the one of services also
\* without the capability.
UpdateTopics ==
    /\ thread = "topics"
    /\ \/ ok /\ UpdateAdvertisedTopics(foundTopics)
       \/ ~ ok /\ UNCHANGED channelVars
    /\ foundTopics' = {}
    /\ thread' = IF ok /\ HasCapability("services") THEN "services.read" ELSE AfterServices
    /\ UNCHANGED <<registered, foundServices>>
    /\ UNCHANGED <<graphVars, serviceVars, publicationVars, nodeVars>>
    /\ Noticed

ReadServices ==
    /\ thread = "services.read"
    /\ foundServices' = servers
    /\ thread' = "services"
    /\ UNCHANGED <<registered, foundTopics>>
    /\ UNCHANGED <<graphVars, channelVars, serviceVars, publicationVars, nodeVars, graphEvent>>

UpdateServices ==
    /\ thread = "services"
    /\ UpdateAdvertisedServices(foundServices)
    /\ foundServices' = {}
    /\ thread' = AfterServices
    /\ UNCHANGED <<registered, foundTopics>>
    /\ UNCHANGED <<graphVars, channelVars, publicationVars, nodeVars, graphEvent>>

\* updateConnectionGraph() on the thread: it ends, or throws because a node it
\* asks about has gone, and the loop goes on.
UpdateConnectionGraph ==
    /\ thread = "graph"
    /\ thread' = "loop"
    /\ UNCHANGED <<registered, foundTopics, foundServices>>
    /\ UNCHANGED <<graphVars, channelVars, serviceVars, publicationVars, nodeVars, graphEvent>>

\* get_graph_event(), after the first updates.
Register ==
    /\ thread = "register"
    /\ registered' = TRUE
    /\ thread' = "loop"
    /\ UNCHANGED <<foundTopics, foundServices>>
    /\ UNCHANGED <<graphVars, channelVars, serviceVars, publicationVars, nodeVars, graphEvent>>

\* Fault: the wait is for the event alone.
WaitForGraphChange_Fault ==
    /\ thread = "loop"
    /\ graphEvent
    /\ graphEvent' = FALSE
    /\ thread' = IF shuttingDown \/ ~ ok THEN "ended" ELSE "topics.read"
    /\ UNCHANGED <<registered, foundTopics, foundServices>>
    /\ UNCHANGED <<graphVars, channelVars, serviceVars, publicationVars, nodeVars>>

\* The loop: it ends, or it waits until the event is set, for 200 ms at a time,
\* and clears it before the graph is read.
WaitForGraphChange ==
    /\ thread = "loop"
    /\ \/ /\ shuttingDown \/ ~ ok
          /\ thread' = "ended"
          /\ UNCHANGED graphEvent
       \/ /\ ~ shuttingDown /\ ok
          /\ graphEvent
          /\ graphEvent' = FALSE
          /\ thread' = "topics.read"
    /\ UNCHANGED <<registered, foundTopics, foundServices>>
    /\ UNCHANGED <<graphVars, channelVars, serviceVars, publicationVars, nodeVars>>

GraphThread == ReadTopics \/ UpdateTopics \/ ReadServices \/ UpdateServices
                  \/ UpdateConnectionGraph \/ Register \/ WaitForGraphChange
-----------------------------------------------------------------------------
(* The handlers on the server's threads, and answers on the executor's. *)

ChannelRequest ==
    /\ serving
    /\ \E c \in Clients, i \in 1 .. channelCount : Subscribe(c, i) \/ Unsubscribe(c, i)
    /\ UNCHANGED <<graphVars, serviceVars, publicationVars, threadVars, nodeVars>>
    /\ Noticed

\* subscribeConnectionGraph().  The server has the capabilities too and passes no
\* request on without the one it needs.
SubscribeConnectionGraph ==
    /\ serving
    /\ HasCapability("connectionGraph")
    /\ graphWanted' \in BOOLEAN
    /\ UNCHANGED <<capabilities, ok, shuttingDown, serving>>
    /\ UNCHANGED <<graphVars, channelVars, serviceVars, publicationVars, threadVars, graphEvent>>

PublicationRequest ==
    /\ serving
    /\ HasCapability("clientPublish")
    /\ \E c \in Senders, id \in ClientIds :
           \/ \E a \in Adverts : ClientAdvertise(c, id, a)
           \/ ClientUnadvertise(c, id)
           \/ ClientMessage(c, id)
    /\ UNCHANGED <<graphVars, channelVars, serviceVars, threadVars, nodeVars, graphEvent>>

FinishMessage ==
    /\ \E c \in Senders : PublishJson(c)
    /\ UNCHANGED <<graphVars, channelVars, serviceVars, threadVars, nodeVars, graphEvent>>

CallService ==
    /\ serving
    /\ HasCapability("services")
    /\ \E call \in Calls, i \in 1 .. serviceCount : ServiceRequest(call, i)
    /\ UNCHANGED <<graphVars, channelVars, publicationVars, threadVars, nodeVars, graphEvent>>

FinishCall ==
    /\ WaitForService \/ SendRequest \/ StoreRequest
    /\ UNCHANGED <<graphVars, channelVars, publicationVars, threadVars, nodeVars, graphEvent>>

Responses ==
    /\ \E m \in network : HandleResponse(m) \/ Answer(m)
    /\ UNCHANGED <<graphVars, channelVars, publicationVars, threadVars, nodeVars, graphEvent>>
-----------------------------------------------------------------------------
(* The ROS graph, and the end. *)

\* A publisher or a service of another node, or a client's own publication,
\* comes or goes.  One service has one server.
GraphChange ==
    /\ ok
    /\ \/ /\ appearances < MaxAppearances
          /\ appearances' = appearances + 1
          /\ \/ /\ \E p \in Publishers \ publishers : publishers' = publishers \cup {p}
                /\ UNCHANGED servers
             \/ /\ \E s \in Servers \ servers :
                       /\ \A other \in servers : other.name # s.name
                       /\ servers' = servers \cup {s}
                /\ UNCHANGED publishers
       \/ /\ UNCHANGED appearances
          /\ \/ /\ \E p \in publishers : publishers' = publishers \ {p}
                /\ UNCHANGED servers
             \/ /\ \E s \in servers : servers' = servers \ {s}
                /\ UNCHANGED publishers
    /\ UNCHANGED <<channelVars, serviceVars, publicationVars, threadVars, nodeVars>>
    /\ Noticed

\* A signal ends ROS: spin() returns and the node is destroyed.
RosShutdown ==
    /\ ok
    /\ ok' = FALSE
    /\ UNCHANGED <<capabilities, graphWanted, shuttingDown, serving>>
    /\ UNCHANGED <<graphVars, channelVars, serviceVars, publicationVars, threadVars, graphEvent>>

Destroy ==
    /\ ~ ok
    /\ ~ shuttingDown
    /\ shuttingDown' = TRUE
    /\ UNCHANGED <<capabilities, graphWanted, ok, serving>>
    /\ UNCHANGED <<graphVars, channelVars, serviceVars, publicationVars, threadVars, graphEvent>>

\* The destructor joins the thread and then stops the server.
StopServer ==
    /\ shuttingDown
    /\ thread = "ended"
    /\ serving
    /\ serving' = FALSE
    /\ UNCHANGED <<capabilities, graphWanted, ok, shuttingDown>>
    /\ UNCHANGED <<graphVars, channelVars, serviceVars, publicationVars, threadVars, graphEvent>>

Next == GraphThread \/ ChannelRequest \/ SubscribeConnectionGraph \/ PublicationRequest
           \/ FinishMessage \/ CallService \/ FinishCall \/ Responses \/ GraphChange
           \/ RosShutdown \/ Destroy \/ StopServer

\* The thread runs, a request that is being served goes on, the destructor goes
\* on when the thread has ended.  A mutex that is free again and again is taken
\* at last.  Clients and the ROS graph may do nothing.
Fairness ==
    /\ WF_vars(GraphThread)
    /\ SF_vars(UpdateServices)
    /\ WF_vars(FinishCall)
    /\ WF_vars(StopServer)

Spec == Init /\ [][Next]_vars /\ Fairness
-----------------------------------------------------------------------------
TypeOK ==
    /\ capabilities \in Capabilities
    /\ publishers \subseteq Publishers
    /\ servers \subseteq Servers
    /\ appearances \in Nat
    /\ channelCount \in Nat
    /\ DOMAIN advertised \subseteq 1 .. channelCount
    /\ \A i \in DOMAIN advertised : advertised[i].topic \in Topics
    /\ \A i \in DOMAIN subscriptions : DOMAIN subscriptions[i] \subseteq Clients
    /\ serviceCount \in Nat
    /\ DOMAIN services \subseteq 1 .. serviceCount
    /\ \A i \in DOMAIN services : services[i] \in Servers
    /\ handler \in {"idle", "waiting", "sending", "storing"}
    /\ made \subseteq Calls
    /\ parsers \subseteq Types
    /\ thread \in {"topics.read", "topics", "services.read", "services", "register",
                   "graph", "loop", "ended"}
    /\ foundTopics \subseteq Topics
    /\ foundServices \subseteq Servers
    /\ {registered, graphEvent, graphWanted, ok, shuttingDown, serving, unknown} \subseteq BOOLEAN

\* While the graph thread replaces channels and clients come and go, a topic has
\* at most one channel, and the bridge holds subscriptions for channels that it
\* advertises only (ros2_foxglove_bridge.cpp:179-283 against :430-592).
ChannelsSound ==
    /\ \A i, j \in DOMAIN advertised : advertised[i].topic = advertised[j].topic => i = j
    /\ DOMAIN subscriptions \subseteq DOMAIN advertised

\* A channel comes with the definitions of all types its messages are made of,
\* each once and in one format, and without any only if no format has them all
\* (message_definition_cache.cpp:342-375).
ChannelsDescribed ==
    \A i \in DOMAIN advertised :
        LET type   == advertised[i].topic.type
            schema == advertised[i].schema
        IN  IF schema.text = <<>> THEN \A f \in Formats : ~ Complete(f, type)
                                  ELSE Describes(schema, type)

\* ROS connects a publisher and a subscription unless the subscription asks for
\* more than the publisher offers.
Connects(p, qos) == (qos.reliable => p.reliable) /\ (qos.transient => p.transient)

\* A new subscription connects to every publisher known at that moment, is
\* reliable when all of them are, and keeps a message of each of them, of those
\* with equal settings too, unless the configured maximum is lower
\* (ros2_foxglove_bridge.cpp:479-488, 505, where several latched publishers of
\* depth 1 are the case in mind).
QosFits ==
    [][\A i \in DOMAIN subscriptions' : \A c \in DOMAIN subscriptions'[i] :
          \/ i \in DOMAIN subscriptions /\ c \in DOMAIN subscriptions[i]
          \/ LET qos   == subscriptions'[i][c]
                 name  == advertised[i].topic.name
                 known == PublishersOf(name)
             IN  /\ \A p \in known : Connects(p, qos)
                 /\ known # {} /\ name \notin BestEffort
                        => qos.reliable = (\A p \in known : p.reliable)
                 /\ qos.depth >= Min({Cardinality(known), MaxQosDepth})
                 /\ qos.depth <= MaxQosDepth]_vars

\* Each call is answered at most once, with an error or with the answer to this
\* very call, however answers overtake each other and services come and go
\* (ros2_foxglove_bridge.cpp:873-922, generic_client.cpp:164-220).
AnswersMatch == \A call \in Calls : replies[call] \in {<<>>, <<call>>}

\* handle_response() never meets an answer to a request that is not in the table:
\* "it is not expected to happen in the first place" (generic_client.cpp:177).
\* The table is written after the request was sent.
NoUnknownAnswer == ~ unknown

\* A listed topic that is there when the event is set gets its channel, or is
\* gone before: no change of the graph is lost between two looks at it
\* (ros2_foxglove_bridge.cpp:151-177).
EveryTopicAdvertised ==
    \A t \in {u \in Topics : u.name \in Listed /\ FullText[u.type].error # "malformed"} :
        (graphEvent /\ t \in RosTopics)
        ~> \/ \E i \in DOMAIN advertised : advertised[i].topic = t
           \/ t \notin RosTopics
           \/ shuttingDown \/ ~ ok

\* The same for services, by name, although the thread has to wait for the mutex
\* that a call holds until its service is found or a second is over
\* (ros2_foxglove_bridge.cpp:285-379, 898).
EveryServiceAdvertised ==
    \A s \in {u \in Servers : u.name \in ListedServices /\ Describable(u)} :
        (graphEvent /\ HasCapability("services") /\ s \in servers)
        ~> \/ \E i \in DOMAIN services : services[i].name = s.name
           \/ s \notin servers
           \/ shuttingDown \/ ~ ok

\* The destructor, which joins the graph thread, comes to its end: the thread
\* looks at the shutdown every 200 ms, and a call in progress gives it the mutex
\* it needs to get there (ros2_foxglove_bridge.cpp:141-149, 154-157, 898).
ShutdownEnds == shuttingDown ~> ~ serving

\* Seen from outside, clients hold links to topics (module TopicLinks).
Offered == {advertised[i].topic : i \in DOMAIN advertised}
Links == {l \in Clients \X Topics :
             \E i \in DOMAIN advertised \cap DOMAIN subscriptions :
                 advertised[i].topic = l[2] /\ l[1] \in DOMAIN subscriptions[i]}

TL == INSTANCE TopicLinks WITH offered <- Offered, links <- Links

\* The channels implement the abstract specification: a subscription that fails
\* half way leaves no trace (ros2_foxglove_bridge.cpp:443, 551), and a change of
\* the graph takes the links to the topics that are gone and no others.
ImplementsTopicLinks == TL!Spec
=============================================================================
