--------------------------- MODULE BridgeChannels ---------------------------
(***************************************************************************)
(* The topic side of the Foxglove bridge (ros2_foxglove_bridge.cpp): the   *)
(* channels it advertises to its clients for the topics of the ROS graph,  *)
(* and the ROS subscriptions it holds for the clients of each channel.     *)
(* Every operation holds _subscriptionsMutex from its first to its last    *)
(* look at the two tables, so each is one action.                          *)
(***************************************************************************)
EXTENDS DefinitionCache, FiniteSetsExt, Functions, HashMaps

CONSTANTS
    Clients,       \* websocket connections
    Topics,        \* records of a topic's name and one of its types
    Listed,        \* names that are on the whitelist and not hidden
    Publishers,    \* endpoints that may publish: gid, topic, reliable, transient, depth
    BestEffort,    \* names that are on the best-effort whitelist
    MinQosDepth, MaxQosDepth

ASSUME TopicAssumption ==
    /\ Topics \subseteq [name: STRING, type: Types]
    /\ IsFiniteSet(Topics)
    /\ Publishers \subseteq [gid: Nat, topic: Topics, reliable: BOOLEAN, transient: BOOLEAN,
                             depth: Nat]
    /\ IsFiniteSet(Publishers)
    /\ MinQosDepth \in Nat /\ MaxQosDepth \in Nat

VARIABLES
    publishers,     \* the publishers of the ROS graph (external)
    advertised,     \* _advertisedTopics: channel id to topic and description
    channelCount,   \* the number of ids addChannels() has handed out (external)
    subscriptions   \* _subscriptions: channel id to (client to QoS)

channelVars == <<advertised, channelCount, subscriptions>>

ChannelsInit ==
    /\ advertised = EmptyMap
    /\ channelCount = 0
    /\ subscriptions = EmptyMap

\* The topics some endpoint exists for, the bridge's own subscriptions included.
OwnTopics == {advertised[i].topic : i \in {j \in DOMAIN subscriptions \cap DOMAIN advertised :
                                             DOMAIN subscriptions[j] # {}}}
RosTopics == {p.topic : p \in publishers} \cup OwnTopics
-----------------------------------------------------------------------------
\* Ids of the channels whose topic is no longer among the latest ones.
Vanished(latest) == {i \in DOMAIN advertised : advertised[i].topic \notin latest}

\* A topic whose definition is not found gets a channel without description;
\* one whose definition cannot be read gets none.
NewTopics(latest) ==
    {t \in latest : /\ \A i \in DOMAIN advertised \ Vanished(latest) : advertised[i].topic # t
                    /\ FullText[t.type].error # "malformed"}

Channel(t) ==
    LET text == FullText[t.type]
    IN  [topic  |-> t,
         schema |-> IF text.error = "none" THEN text ELSE [text EXCEPT !.text = <<>>]]

DropSubscriptions_Fault(gone) == UNCHANGED subscriptions

DropSubscriptions(gone) == subscriptions' = Erase(subscriptions, gone)

\* updateAdvertisedTopics(), on what get_topic_names_and_types() found before
\* the lock was taken.
UpdateAdvertisedTopics(found) ==
    LET latest == {t \in found : t.name \in Listed}
        new    == NewTopics(latest)
        old    == Erase(advertised, Vanished(latest))
    IN  \E topicOf \in Bijection(channelCount + 1 .. channelCount + Cardinality(new), new) :
            /\ advertised' = [i \in DOMAIN old \cup DOMAIN topicOf |->
                                IF i \in DOMAIN old THEN old[i] ELSE Channel(topicOf[i])]
            /\ channelCount' = channelCount + Cardinality(new)
            /\ DropSubscriptions(Vanished(latest))
-----------------------------------------------------------------------------
\* The quality of service of a subscription, chosen from the publishers that
\* the graph knows of at this moment.  Each endpoint is counted, however alike
\* they are.
PublishersOf(name) == {p \in publishers : p.topic.name = name}

\* Fault: the longest history is taken to be enough for all.
HistoryDepth_Fault(known) ==
    LET wanted == Max({MinQosDepth, 1} \cup {p.depth : p \in known})
    IN  Min({wanted, MaxQosDepth})

\* A publisher whose history is not known counts as one message.
HistoryDepth(known) ==
    LET wanted == Max({MinQosDepth, MapThenSumSet(LAMBDA p : Max({1, p.depth}), known)})
    IN  Min({wanted, MaxQosDepth})

\* Fault: one reliable publisher is enough.
Qos_Fault(name) ==
    LET known == PublishersOf(name)
    IN  [reliable  |-> name \notin BestEffort /\ \E p \in known : p.reliable,
         transient |-> known # {} /\ \A p \in known : p.transient,
         depth     |-> HistoryDepth(known)]

Qos(name) ==
    LET known == PublishersOf(name)
    IN  [reliable  |-> name \notin BestEffort /\ known # {} /\ \A p \in known : p.reliable,
         transient |-> known # {} /\ \A p \in known : p.transient,
         depth     |-> HistoryDepth(known)]

\* subscribe().  A channel that is not there and a client that is subscribed
\* are refused without a change.  The channel's entry is made before the
\* subscription, which may fail: the entry then stays without the client.
Subscribe(client, i) ==
    /\ i \in DOMAIN advertised
    /\ LET entered == Emplace(subscriptions, i, EmptyMap)
           qos     == Qos(advertised[i].topic.name)
       IN  /\ client \notin DOMAIN entered[i]
           /\ \/ subscriptions' = [entered EXCEPT ![i] = Emplace(@, client, qos)]
              \/ subscriptions' = entered
    /\ UNCHANGED <<advertised, channelCount>>

Unsubscribe_Fault(client, i) ==
    /\ i \in DOMAIN advertised
    /\ i \in DOMAIN subscriptions
    /\ client \in DOMAIN subscriptions[i]
    /\ subscriptions' = Erase(subscriptions, {i})
    /\ UNCHANGED <<advertised, channelCount>>

\* unsubscribe(): of a channel that is there, by a client that is subscribed.
Unsubscribe(client, i) ==
    /\ i \in DOMAIN advertised
    /\ i \in DOMAIN subscriptions
    /\ client \in DOMAIN subscriptions[i]
    /\ LET left == Erase(subscriptions[i], {client})
       IN  subscriptions' = IF DOMAIN left = {} THEN Erase(subscriptions, {i})
                                               ELSE [subscriptions EXCEPT ![i] = left]
    /\ UNCHANGED <<advertised, channelCount>>
=============================================================================
