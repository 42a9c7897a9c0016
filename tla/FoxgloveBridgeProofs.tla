------------------------- MODULE FoxgloveBridgeProofs -------------------------
(***************************************************************************)
(* Theorems about the Foxglove bridge, for every number of clients,        *)
(* topics, publishers, services and calls.  The channels: the tables       *)
(* agree, and clients see nothing but what TopicLinks allows; a            *)
(* subscription fits its publishers, a channel comes with its definitions. *)
(* The calls: every answer belongs to its call and meets its request.      *)
(* What clients publish: every JSON message meets its parser.              *)
(***************************************************************************)
EXTENDS FoxgloveBridge, FunctionTheorems, FiniteSetTheorems, WellFoundedInduction, TLAPS
-----------------------------------------------------------------------------
(* Channels and subscriptions. *)

\* The inductive invariant.
CInv ==
    /\ publishers \subseteq Publishers
    /\ foundTopics \subseteq Topics
    /\ channelCount \in Nat
    /\ DOMAIN advertised \subseteq 1 .. channelCount
    /\ \A i \in DOMAIN advertised : advertised[i].topic \in Topics
    /\ \A i \in DOMAIN subscriptions : DOMAIN subscriptions[i] \subseteq Clients
    /\ ChannelsSound

LEMMA ChannelsInitially == Init => CInv
<1> SUFFICES ASSUME Init PROVE CInv
  OBVIOUS
<1>1. DOMAIN advertised = {} /\ DOMAIN subscriptions = {}
  BY DEF Init, ChannelsInit, EmptyMap
<1> QED
  BY <1>1 DEF Init, ChannelsInit, CInv, ChannelsSound

\* What get_topic_names_and_types() finds are topics.
LEMMA FoundAreTopics == CInv => RosTopics \subseteq Topics
BY TopicAssumption DEF CInv, RosTopics, OwnTopics

\* The tables after updateAdvertisedTopics(): who stays keeps its channel, and
\* new channels are for topics that had none.
LEMMA UpdateFacts ==
    ASSUME CInv, NEW found \in SUBSET Topics, UpdateAdvertisedTopics(found)
    PROVE  \E latest, new \in SUBSET Topics, n \in Nat :
           \E topicOf \in Bijection(channelCount + 1 .. channelCount + n, new) :
             /\ new = NewTopics(latest)
             /\ channelCount' = channelCount + n
             /\ DOMAIN advertised' = (DOMAIN advertised \ Vanished(latest)) \cup DOMAIN topicOf
             /\ \A i \in DOMAIN advertised \ Vanished(latest) : advertised'[i] = advertised[i]
             /\ \A i \in DOMAIN topicOf : advertised'[i].topic = topicOf[i]
             /\ DOMAIN subscriptions' = DOMAIN subscriptions \ Vanished(latest)
             /\ \A i \in DOMAIN subscriptions' : subscriptions'[i] = subscriptions[i]
<1> DEFINE latest == {t \in found : t.name \in Listed}
           new    == NewTopics(latest)
           old    == Erase(advertised, Vanished(latest))
           n      == Cardinality(new)
<1>1. PICK topicOf \in Bijection(channelCount + 1 .. channelCount + n, new) :
        /\ advertised' = [i \in DOMAIN old \cup DOMAIN topicOf |->
                            IF i \in DOMAIN old THEN old[i] ELSE Channel(topicOf[i])]
        /\ channelCount' = channelCount + n
        /\ DropSubscriptions(Vanished(latest))
  BY DEF UpdateAdvertisedTopics
<1>2. new \in SUBSET Topics /\ latest \in SUBSET Topics
  BY DEF NewTopics
<1>3. n \in Nat
  BY <1>2, TopicAssumption, FS_Subset, FS_CardinalityType
<1>4. DOMAIN old = DOMAIN advertised \ Vanished(latest)
      /\ \A i \in DOMAIN old : old[i] = advertised[i]
  BY DEF Erase
<1>5. DOMAIN topicOf = channelCount + 1 .. channelCount + n
  BY Fun_BijectionProperties
<1>6. \A i \in DOMAIN topicOf : i \notin DOMAIN advertised
  BY <1>3, <1>5 DEF CInv
<1>7. DOMAIN advertised' = (DOMAIN advertised \ Vanished(latest)) \cup DOMAIN topicOf
  BY <1>1, <1>4
<1>8. \A i \in DOMAIN advertised \ Vanished(latest) : advertised'[i] = advertised[i]
  BY <1>1, <1>4
<1>9. \A i \in DOMAIN topicOf : advertised'[i].topic = topicOf[i]
  <2> SUFFICES ASSUME NEW i \in DOMAIN topicOf PROVE advertised'[i].topic = topicOf[i]
    OBVIOUS
  <2>1. advertised'[i] = Channel(topicOf[i])
    BY <1>1, <1>4, <1>6
  <2> QED
    BY <2>1 DEF Channel
<1>10. DOMAIN subscriptions' = DOMAIN subscriptions \ Vanished(latest)
       /\ \A i \in DOMAIN subscriptions' : subscriptions'[i] = subscriptions[i]
  BY <1>1 DEF DropSubscriptions, Erase
<1> HIDE DEF latest, new, n
<1> QED
  BY <1>1, <1>2, <1>3, <1>7, <1>8, <1>9, <1>10 DEF new

\* An update keeps the tables sound, and takes the links to what is no longer
\* offered and no others.
LEMMA UpdateKeeps ==
    ASSUME CInv, NEW found \in SUBSET Topics, UpdateAdvertisedTopics(found),
           publishers' = publishers, foundTopics' \subseteq Topics
    PROVE  CInv' /\ TL!Offer
<1>0. PICK latest, new \in SUBSET Topics, n \in Nat :
        \E topicOf \in Bijection(channelCount + 1 .. channelCount + n, new) :
           /\ new = NewTopics(latest)
           /\ channelCount' = channelCount + n
           /\ DOMAIN advertised' = (DOMAIN advertised \ Vanished(latest)) \cup DOMAIN topicOf
           /\ \A i \in DOMAIN advertised \ Vanished(latest) : advertised'[i] = advertised[i]
           /\ \A i \in DOMAIN topicOf : advertised'[i].topic = topicOf[i]
           /\ DOMAIN subscriptions' = DOMAIN subscriptions \ Vanished(latest)
           /\ \A i \in DOMAIN subscriptions' : subscriptions'[i] = subscriptions[i]
  BY UpdateFacts
<1>1. PICK topicOf \in Bijection(channelCount + 1 .. channelCount + n, new) :
        /\ new = NewTopics(latest)
        /\ channelCount' = channelCount + n
        /\ DOMAIN advertised' = (DOMAIN advertised \ Vanished(latest)) \cup DOMAIN topicOf
        /\ \A i \in DOMAIN advertised \ Vanished(latest) : advertised'[i] = advertised[i]
        /\ \A i \in DOMAIN topicOf : advertised'[i].topic = topicOf[i]
        /\ DOMAIN subscriptions' = DOMAIN subscriptions \ Vanished(latest)
        /\ \A i \in DOMAIN subscriptions' : subscriptions'[i] = subscriptions[i]
  BY <1>0
<1> DEFINE V == Vanished(latest)
           kept == DOMAIN advertised \ V
           ids == channelCount + 1 .. channelCount + n
<1>2. /\ DOMAIN topicOf = ids
      /\ \A i \in ids : topicOf[i] \in new
      /\ \A i, j \in ids : topicOf[i] = topicOf[j] => i = j
      /\ \A t \in new : \E i \in ids : topicOf[i] = t
  <2>1. topicOf \in [ids -> new]
    BY DEF Bijection, Injection
  <2>2. \A i, j \in ids : topicOf[i] = topicOf[j] => i = j
    BY Fun_BijectionProperties
  <2>3. \A t \in new : \E i \in ids : topicOf[i] = t
    BY DEF Bijection, Surjection
  <2> QED
    BY <2>1, <2>2, <2>3
<1>3. V \subseteq DOMAIN advertised /\ \A i \in V : advertised[i].topic \notin latest
  BY DEF Vanished
<1>4. \A t \in new : t \in latest /\ \A i \in kept : advertised[i].topic # t
  BY <1>1 DEF NewTopics
<1>5. \A i \in ids : i \in 1 .. channelCount + n /\ i \notin DOMAIN advertised
  BY DEF CInv
<1>6. channelCount' \in Nat /\ DOMAIN advertised' \subseteq 1 .. channelCount'
  <2>1. channelCount + n \in Nat /\ 1 .. channelCount \subseteq 1 .. channelCount + n
    BY DEF CInv
  <2> QED
    BY <1>1, <1>2, <1>5, <2>1 DEF CInv
<1>7. \A i \in DOMAIN advertised' : advertised'[i].topic \in Topics
  BY <1>1, <1>2 DEF CInv
<1>8. \A i \in DOMAIN subscriptions' : DOMAIN subscriptions'[i] \subseteq Clients
  BY <1>1 DEF CInv
<1>9. \A i, j \in DOMAIN advertised' :
        advertised'[i].topic = advertised'[j].topic => i = j
  <2> SUFFICES ASSUME NEW i \in DOMAIN advertised', NEW j \in DOMAIN advertised',
                      advertised'[i].topic = advertised'[j].topic
               PROVE  i = j
    OBVIOUS
  <2>1. CASE i \in kept /\ j \in kept
    BY <1>1, <2>1 DEF CInv, ChannelsSound
  <2>2. CASE i \in ids /\ j \in ids
    BY <1>1, <1>2, <2>2
  <2>3. CASE i \in kept /\ j \in ids
    BY <1>1, <1>2, <1>4, <2>3
  <2>4. CASE i \in ids /\ j \in kept
    BY <1>1, <1>2, <1>4, <2>4
  <2> QED
    BY <1>1, <1>2, <2>1, <2>2, <2>3, <2>4
<1>10. DOMAIN subscriptions' \subseteq DOMAIN advertised'
  BY <1>1 DEF CInv, ChannelsSound
<1>11. CInv'
  BY <1>6, <1>7, <1>8, <1>9, <1>10 DEF CInv, ChannelsSound
\* The link of a subscription lasts exactly as long as its channel: the topic of
\* a channel that has gone is not offered again by the same update.
<1>12. Offered' \in SUBSET Topics
  BY <1>7 DEF Offered
<1>13. \A t \in Topics : t \in Offered' <=> (\E i \in kept : advertised[i].topic = t) \/ t \in new
  BY <1>1, <1>2 DEF Offered
<1>14. \A i \in V : advertised[i].topic \notin Offered'
  <2> SUFFICES ASSUME NEW i \in V, advertised[i].topic \in Offered' PROVE FALSE
    OBVIOUS
  <2>1. advertised[i].topic \in Topics /\ advertised[i].topic \notin new
    BY <1>3, <1>4 DEF CInv
  <2>2. PICK j \in kept : advertised[j].topic = advertised[i].topic
    BY <1>13, <2>1
  <2> QED
    BY <1>3, <2>2 DEF CInv, ChannelsSound
<1>15. ASSUME NEW l \in Clients \X Topics
       PROVE  l \in Links' <=> l \in Links /\ l[2] \in Offered'
  <2>1. ASSUME l \in Links' PROVE l \in Links /\ l[2] \in Offered'
    <3>1. PICK i \in DOMAIN advertised' \cap DOMAIN subscriptions' :
            advertised'[i].topic = l[2] /\ l[1] \in DOMAIN subscriptions'[i]
      BY <2>1 DEF Links
    <3>2. i \in DOMAIN subscriptions /\ i \in kept
      BY <1>1, <3>1 DEF CInv, ChannelsSound
    <3> QED
      BY <1>1, <3>1, <3>2 DEF Links, Offered
  <2>2. ASSUME l \in Links, l[2] \in Offered' PROVE l \in Links'
    <3>1. PICK i \in DOMAIN advertised \cap DOMAIN subscriptions :
            advertised[i].topic = l[2] /\ l[1] \in DOMAIN subscriptions[i]
      BY <2>2 DEF Links
    <3>2. i \notin V
      BY <1>14, <2>2, <3>1
    <3> QED
      BY <1>1, <3>1, <3>2 DEF Links
  <2> QED
    BY <2>1, <2>2
<1>16. Links' = {l \in Links : l[2] \in Offered'}
  BY <1>15 DEF Links
<1> QED
  BY <1>11, <1>12, <1>16 DEF TL!Offer
-----------------------------------------------------------------------------
\* A subscription adds one link, or none when it fails after the channel's entry
\* was made.
LEMMA SubscribeKeeps ==
    ASSUME CInv, NEW c \in Clients, NEW i, Subscribe(c, i),
           UNCHANGED <<publishers, foundTopics>>
    PROVE  CInv' /\ (TL!Join \/ UNCHANGED <<Offered, Links>>)
<1> DEFINE entered == Emplace(subscriptions, i, EmptyMap)
           qos == Qos(advertised[i].topic.name)
           full == Emplace(entered[i], c, qos)
<1>1. /\ i \in DOMAIN advertised
      /\ subscriptions' = [entered EXCEPT ![i] = full] \/ subscriptions' = entered
      /\ UNCHANGED <<advertised, channelCount>>
  BY DEF Subscribe
<1>2. /\ DOMAIN entered = DOMAIN subscriptions \cup {i}
      /\ \A k \in DOMAIN subscriptions : entered[k] = subscriptions[k]
      /\ i \notin DOMAIN subscriptions => DOMAIN entered[i] = {}
  BY DEF Emplace, EmptyMap
<1>3. DOMAIN full = DOMAIN entered[i] \cup {c}
  BY DEF Emplace
<1> HIDE DEF entered, full
<1>4. DOMAIN subscriptions' = DOMAIN subscriptions \cup {i}
  BY <1>1, <1>2
<1>5. \A k \in DOMAIN subscriptions : k # i => subscriptions'[k] = subscriptions[k]
  BY <1>1, <1>2
<1>6. \/ DOMAIN subscriptions'[i] = DOMAIN entered[i] \cup {c}
      \/ DOMAIN subscriptions'[i] = DOMAIN entered[i]
  BY <1>1, <1>2, <1>3
<1>7. \A k \in DOMAIN subscriptions' : DOMAIN subscriptions'[k] \subseteq Clients
  <2>1. DOMAIN entered[i] \subseteq Clients
    BY <1>2 DEF CInv
  <2> QED
    BY <1>4, <1>5, <1>6, <2>1 DEF CInv
<1>8. CInv'
  BY <1>1, <1>4, <1>7 DEF CInv, ChannelsSound
<1>9. UNCHANGED Offered
  BY <1>1 DEF Offered
<1>10. advertised[i].topic \in Offered
  BY <1>1 DEF Offered
<1> DEFINE link == <<c, advertised[i].topic>>
<1>11. link \in Clients \X Topics
  BY <1>1 DEF CInv
<1>12. \A l \in Clients \X Topics :
         (\E k \in DOMAIN advertised \cap (DOMAIN subscriptions \cup {i}) :
              /\ advertised[k].topic = l[2]
              /\ l[1] \in DOMAIN entered[k])
         <=> l \in Links
  BY <1>2 DEF Links
<1>13. CASE DOMAIN subscriptions'[i] = DOMAIN entered[i]
  <2>1. \A k \in DOMAIN subscriptions' : DOMAIN subscriptions'[k] = DOMAIN entered[k]
    BY <1>2, <1>4, <1>5, <1>13
  <2>2. Links' = Links
    BY <1>1, <1>4, <1>12, <2>1 DEF Links
  <2> QED
    BY <1>8, <1>9, <2>2
<1>14. CASE DOMAIN subscriptions'[i] = DOMAIN entered[i] \cup {c}
  <2>1. ASSUME NEW l \in Clients \X Topics
        PROVE  l \in Links' <=> l \in Links \/ l = link
    <3>1. l \in Links' <=> \E k \in DOMAIN advertised \cap (DOMAIN subscriptions \cup {i}) :
                               advertised[k].topic = l[2] /\ l[1] \in DOMAIN subscriptions'[k]
      BY <1>1, <1>4 DEF Links
    <3>2. \A k \in DOMAIN subscriptions \cup {i} :
            DOMAIN subscriptions'[k] = IF k = i THEN DOMAIN entered[k] \cup {c} ELSE DOMAIN entered[k]
      BY <1>2, <1>5, <1>14
    <3>3. l = link <=> l[1] = c /\ l[2] = advertised[i].topic
      BY <1>11
    <3>4. ASSUME l \in Links' PROVE l \in Links \/ l = link
      <4>1. PICK k \in DOMAIN advertised \cap (DOMAIN subscriptions \cup {i}) :
              advertised[k].topic = l[2] /\ l[1] \in DOMAIN subscriptions'[k]
        BY <3>1, <3>4
      <4>2. CASE l[1] \in DOMAIN entered[k]
        BY <1>12, <4>1, <4>2
      <4>3. CASE k = i /\ l[1] = c
        BY <3>3, <4>1, <4>3
      <4> QED
        BY <3>2, <4>1, <4>2, <4>3
    <3>5. ASSUME l \in Links PROVE l \in Links'
      <4>1. PICK k \in DOMAIN advertised \cap (DOMAIN subscriptions \cup {i}) :
              advertised[k].topic = l[2] /\ l[1] \in DOMAIN entered[k]
        BY <1>12, <3>5
      <4>2. l[1] \in DOMAIN subscriptions'[k]
        BY <3>2, <4>1
      <4> QED
        BY <3>1, <4>1, <4>2
    <3>6. ASSUME l = link PROVE l \in Links'
      BY <1>1, <3>1, <3>2, <3>3, <3>6
    <3> QED
      BY <3>4, <3>5, <3>6
  <2>2. Links' = Links \cup {link}
    BY <1>11, <2>1 DEF Links
  <2> QED
    BY <1>8, <1>9, <1>10, <2>2 DEF TL!Join
<1> QED
  BY <1>6, <1>13, <1>14

\* Giving up a subscription takes one link: no other channel is for its topic.
LEMMA UnsubscribeKeeps ==
    ASSUME CInv, NEW c \in Clients, NEW i, Unsubscribe(c, i),
           UNCHANGED <<publishers, foundTopics>>
    PROVE  CInv' /\ TL!Leave
<1> DEFINE left == Erase(subscriptions[i], {c})
           link == <<c, advertised[i].topic>>
<1>1. /\ i \in DOMAIN advertised /\ i \in DOMAIN subscriptions /\ c \in DOMAIN subscriptions[i]
      /\ subscriptions' = IF DOMAIN left = {} THEN Erase(subscriptions, {i})
                                              ELSE [subscriptions EXCEPT ![i] = left]
      /\ UNCHANGED <<advertised, channelCount>>
  BY DEF Unsubscribe
<1>2. DOMAIN left = DOMAIN subscriptions[i] \ {c}
  BY DEF Erase
<1> HIDE DEF left
<1>3. /\ DOMAIN subscriptions' \subseteq DOMAIN subscriptions
      /\ \A k \in DOMAIN subscriptions : k # i =>
            k \in DOMAIN subscriptions' /\ subscriptions'[k] = subscriptions[k]
      /\ IF i \in DOMAIN subscriptions' THEN DOMAIN subscriptions'[i] = DOMAIN left
                                        ELSE DOMAIN left = {}
  <2>1. CASE DOMAIN left = {}
    BY <1>1, <2>1 DEF Erase
  <2>2. CASE DOMAIN left # {}
    BY <1>1, <2>2
  <2> QED
    BY <2>1, <2>2
<1>4. \A k \in DOMAIN subscriptions' : DOMAIN subscriptions'[k] \subseteq Clients
  BY <1>2, <1>3 DEF CInv
<1>5. CInv'
  BY <1>1, <1>3, <1>4 DEF CInv, ChannelsSound
<1>6. UNCHANGED Offered
  BY <1>1 DEF Offered
<1>7. link \in Links
  BY <1>1 DEF Links, CInv
<1>8. ASSUME NEW l \in Clients \X Topics
      PROVE  l \in Links' <=> l \in Links /\ l # link
  <2>1. l = link <=> l[1] = c /\ l[2] = advertised[i].topic
    BY <1>7
  <2>2. ASSUME l \in Links' PROVE l \in Links /\ l # link
    <3>1. PICK k \in DOMAIN advertised \cap DOMAIN subscriptions' :
            advertised[k].topic = l[2] /\ l[1] \in DOMAIN subscriptions'[k]
      BY <1>1, <2>2 DEF Links
    <3>2. CASE k = i
      BY <1>2, <1>3, <2>1, <3>1, <3>2 DEF Links
    <3>3. CASE k # i
      <4>1. advertised[k].topic # advertised[i].topic
        BY <1>1, <3>3 DEF CInv, ChannelsSound
      <4> QED
        BY <1>3, <2>1, <3>1, <3>3, <4>1 DEF Links
    <3> QED
      BY <3>2, <3>3
  <2>3. ASSUME l \in Links, l # link PROVE l \in Links'
    <3>1. PICK k \in DOMAIN advertised \cap DOMAIN subscriptions :
            advertised[k].topic = l[2] /\ l[1] \in DOMAIN subscriptions[k]
      BY <2>3 DEF Links
    <3>2. CASE k = i
      BY <1>1, <1>2, <1>3, <2>1, <2>3, <3>1, <3>2 DEF Links
    <3>3. CASE k # i
      BY <1>1, <1>3, <3>1, <3>3 DEF Links
    <3> QED
      BY <3>2, <3>3
  <2> QED
    BY <2>2, <2>3
<1>9. Links' = Links \ {link}
  BY <1>8 DEF Links
<1> QED
  BY <1>5, <1>6, <1>7, <1>9 DEF TL!Leave
-----------------------------------------------------------------------------
(* All steps. *)

\* What leaves the tables alone is a stuttering step for the clients.
LEMMA ChannelsUntouched ==
    ASSUME CInv, UNCHANGED channelVars, publishers' \subseteq Publishers,
           foundTopics' \subseteq Topics
    PROVE  CInv' /\ UNCHANGED <<Offered, Links>>
BY DEF CInv, channelVars, ChannelsSound, Offered, Links

LEMMA ThreadKeeps ==
    ASSUME CInv, GraphThread
    PROVE  CInv' /\ (TL!Offer \/ UNCHANGED <<Offered, Links>>)
<1>1. publishers' = publishers
  BY DEF GraphThread, ReadTopics, UpdateTopics, ReadServices, UpdateServices,
         UpdateConnectionGraph, Register, WaitForGraphChange, graphVars
<1>2. publishers' \subseteq Publishers /\ foundTopics \in SUBSET Topics
  BY <1>1 DEF CInv
<1>3. CASE ReadTopics
  BY <1>2, <1>3, FoundAreTopics, ChannelsUntouched DEF ReadTopics
<1>4. CASE UpdateTopics
  <2>1. foundTopics' \subseteq Topics
    BY <1>4 DEF UpdateTopics
  <2> QED
    BY <1>1, <1>2, <1>4, <2>1, ChannelsUntouched, UpdateKeeps DEF UpdateTopics
<1>5. CASE ReadServices \/ UpdateServices \/ UpdateConnectionGraph \/ Register
              \/ WaitForGraphChange
  <2>1. UNCHANGED channelVars /\ foundTopics' = foundTopics
    BY <1>5 DEF ReadServices, UpdateServices, UpdateConnectionGraph, Register,
                WaitForGraphChange
  <2> QED
    BY <1>2, <2>1, ChannelsUntouched
<1> QED
  BY <1>3, <1>4, <1>5 DEF GraphThread

LEMMA ChannelsNextKeeps ==
    CInv /\ [Next]_vars => CInv' /\ [TL!Next]_<<Offered, Links>>
<1> SUFFICES ASSUME CInv, [Next]_vars
             PROVE  CInv' /\ [TL!Next]_<<Offered, Links>>
  OBVIOUS
<1>1. publishers \subseteq Publishers /\ foundTopics \subseteq Topics
  BY DEF CInv
<1>2. CASE UNCHANGED vars
  BY <1>1, <1>2, ChannelsUntouched DEF vars, graphVars, threadVars
<1>3. CASE GraphThread
  BY <1>3, ThreadKeeps DEF TL!Next
<1>4. CASE ChannelRequest
  <2>1. PICK c \in Clients, i \in 1 .. channelCount : Subscribe(c, i) \/ Unsubscribe(c, i)
    BY <1>4 DEF ChannelRequest
  <2>2. UNCHANGED <<publishers, foundTopics>>
    BY <1>4 DEF ChannelRequest, graphVars, threadVars
  <2> QED
    BY <2>1, <2>2, SubscribeKeeps, UnsubscribeKeeps DEF TL!Next
<1>5. CASE GraphChange
  <2>1. publishers' \subseteq Publishers
    BY <1>1, <1>5 DEF GraphChange
  <2>2. UNCHANGED channelVars /\ foundTopics' = foundTopics
    BY <1>5 DEF GraphChange, threadVars
  <2> QED
    BY <1>1, <2>1, <2>2, ChannelsUntouched
<1>6. CASE SubscribeConnectionGraph \/ PublicationRequest \/ FinishMessage \/ CallService
              \/ FinishCall \/ Responses \/ RosShutdown \/ Destroy \/ StopServer
  <2>1. UNCHANGED channelVars /\ publishers' = publishers /\ foundTopics' = foundTopics
    BY <1>6 DEF SubscribeConnectionGraph, PublicationRequest, FinishMessage, CallService,
                FinishCall, Responses, RosShutdown, Destroy, StopServer, graphVars, threadVars
  <2> QED
    BY <1>1, <2>1, ChannelsUntouched
<1> QED
  BY <1>2, <1>3, <1>4, <1>5, <1>6 DEF Next

\* The inductive invariant holds throughout.
THEOREM ChannelsInvariance == Spec => []CInv
<1>1. CInv /\ [Next]_vars => CInv'
  BY ChannelsNextKeeps
<1> QED
  BY <1>1, ChannelsInitially, PTL DEF Spec

\* A topic has one channel, and what is subscribed to is advertised, however many
\* clients come and go while the graph thread works on what it read before
\* (ros2_foxglove_bridge.cpp:179-283, 430-592).
THEOREM ChannelsAreSound == Spec => []ChannelsSound
<1>1. CInv => ChannelsSound
  BY DEF CInv
<1> QED
  BY <1>1, ChannelsInvariance, PTL

\* The channels implement TopicLinks, for every number of clients and topics:
\* each step of the bridge is a step of it or one that clients do not see
\* (ros2_foxglove_bridge.cpp:179-283, 430-592).
THEOREM LinksAreKept == Spec => ImplementsTopicLinks
<1>1. Init => TL!Init
  <2> SUFFICES ASSUME Init PROVE Offered = {} /\ Links = {}
    BY DEF TL!Init
  <2>1. DOMAIN advertised = {}
    BY DEF Init, ChannelsInit, EmptyMap
  <2> QED
    BY <2>1 DEF Offered, Links
<1>2. CInv /\ [Next]_vars => [TL!Next]_<<Offered, Links>>
  BY ChannelsNextKeeps
<1> QED
  BY <1>1, <1>2, ChannelsInvariance, PTL DEF Spec, ImplementsTopicLinks, TL!Spec
-----------------------------------------------------------------------------
(* The quality of service of a subscription. *)

\* Induction, with a set for the predicate.
LEMMA NatSetInduction ==
    ASSUME NEW T \in SUBSET Nat, 0 \in T, \A n \in T : n + 1 \in T
    PROVE  T = Nat
<1> SUFFICES ASSUME Nat \ T # {} PROVE FALSE
  OBVIOUS
<1> DEFINE Less == OpToRel(<, Nat)
<1>1. IsWellFoundedOn(Less, Nat)
  BY NatLessThanWellFounded
<1>2. \A m, n \in Nat : m < n => <<m, n>> \in Less
  BY DEF OpToRel
<1> HIDE DEF Less
<1>3. PICK x \in Nat \ T : \A y \in Nat \ T : <<y, x>> \notin Less
  BY <1>1, WFMin
<1>4. x # 0 /\ x - 1 \in Nat /\ x - 1 < x /\ (x - 1) + 1 = x
  OBVIOUS
<1>5. x - 1 \notin T
  BY <1>4
<1> QED
  BY <1>2, <1>3, <1>4, <1>5

\* What one publisher adds to the history that is kept, and all of them together.
Share(p) == Max({1, p.depth})
Total(known) == MapThenSumSet(LAMBDA p : Max({1, p.depth}), known)
AnyOf(s) == CHOOSE x \in s : TRUE

LEMMA AnyOfFacts ==
    ASSUME NEW S, IsFiniteSet(S), NEW s \in SUBSET S
    PROVE  /\ IsFiniteSet(s) /\ Cardinality(s) \in 0 .. Cardinality(S)
           /\ Cardinality(s) = 0 <=> s = {}
           /\ s # {} => /\ AnyOf(s) \in s
                        /\ s \ {AnyOf(s)} \in SUBSET S
                        /\ Cardinality(s \ {AnyOf(s)}) = Cardinality(s) - 1
<1>1. IsFiniteSet(s) /\ Cardinality(s) \in 0 .. Cardinality(S) /\ (Cardinality(s) = 0 <=> s = {})
  BY FS_Subset, FS_CardinalityType, FS_EmptySet
<1>2. s # {} => AnyOf(s) \in s
  BY DEF AnyOf
<1> QED
  BY <1>1, <1>2, FS_RemoveElement

\* The recursion of the sum over a finite set has a solution: there is one for
\* the sets of at most n elements, for every n.
LEMMA TotalIsRecursive ==
    ASSUME NEW S, IsFiniteSet(S)
    PROVE  \E f : /\ Total(S) = f[S]
                  /\ \A s \in SUBSET S :
                        f[s] = IF s = {} THEN 0 ELSE Share(AnyOf(s)) + f[s \ {AnyOf(s)}]
<1> DEFINE E(g) == [s \in SUBSET S |-> IF s = {} THEN 0 ELSE Share(AnyOf(s)) + g[s \ {AnyOf(s)}]]
           F == CHOOSE g : g = E(g)
           Small(n) == {s \in SUBSET S : Cardinality(s) <= n}
           Done == {n \in Nat : \E g : \A s \in Small(n) :
                       g[s] = IF s = {} THEN 0 ELSE Share(AnyOf(s)) + g[s \ {AnyOf(s)}]}
<1>1. Total(S) = F[S]
  BY Zenon DEF Total, MapThenSumSet, MapThenFoldSet, Share, AnyOf
<1>2. \A s \in SUBSET S : Cardinality(s) \in Nat /\ Cardinality(s) <= Cardinality(S)
                          /\ (Cardinality(s) = 0 <=> s = {})
  <2>1. Cardinality(S) \in Nat
    BY FS_CardinalityType
  <2>2. \A s \in SUBSET S : Cardinality(s) \in 0 .. Cardinality(S) /\ (Cardinality(s) = 0 <=> s = {})
    BY AnyOfFacts
  <2> QED
    BY <2>1, <2>2
<1>3. \A s \in SUBSET S : s # {} => s \ {AnyOf(s)} \in SUBSET S
                                    /\ Cardinality(s \ {AnyOf(s)}) = Cardinality(s) - 1
  BY AnyOfFacts
<1>4. 0 \in Done
  <2>1. \A s \in Small(0) : s = {}
    BY <1>2
  <2>2. \A s \in Small(0) : [t \in SUBSET S |-> 0][s] = 0
    OBVIOUS
  <2> QED
    BY <2>1, <2>2
<1>5. ASSUME NEW n \in Done PROVE n + 1 \in Done
  <2>1. PICK g : \A s \in Small(n) :
                   g[s] = IF s = {} THEN 0 ELSE Share(AnyOf(s)) + g[s \ {AnyOf(s)}]
    BY <1>5
  <2> DEFINE h == [s \in SUBSET S |-> IF s \in Small(n) THEN g[s]
                                      ELSE Share(AnyOf(s)) + g[s \ {AnyOf(s)}]]
  <2>2. ASSUME NEW s \in Small(n + 1)
        PROVE  h[s] = IF s = {} THEN 0 ELSE Share(AnyOf(s)) + h[s \ {AnyOf(s)}]
    <3>1. CASE s = {}
      <4>1. s \in Small(n)
        BY <1>2, <3>1
      <4> QED
        BY <2>1, <3>1, <4>1
    <3>2. CASE s # {}
      <4>1. s \ {AnyOf(s)} \in Small(n)
        BY <1>2, <1>3, <3>2
      <4>2. h[s \ {AnyOf(s)}] = g[s \ {AnyOf(s)}]
        BY <4>1
      <4> QED
        BY <2>1, <3>2, <4>2
    <3> QED
      BY <3>1, <3>2
  <2>3. n + 1 \in Nat
    OBVIOUS
  <2> HIDE DEF h, Small
  <2> QED
    BY <2>2, <2>3
<1>6. Cardinality(S) \in Done
  <2>1. Done \in SUBSET Nat
    OBVIOUS
  <2> HIDE DEF Done
  <2> QED
    BY <1>2, <1>4, <1>5, <2>1, NatSetInduction
<1>7. PICK g : \A s \in SUBSET S :
        g[s] = IF s = {} THEN 0 ELSE Share(AnyOf(s)) + g[s \ {AnyOf(s)}]
  BY <1>2, <1>6
<1>8. [s \in SUBSET S |-> g[s]] = E([s \in SUBSET S |-> g[s]])
  BY <1>3, <1>7
<1>9. F = E(F)
  BY <1>8
<1> QED
  BY <1>1, <1>9

\* Every publisher has its message kept.
LEMMA TotalCountsAll ==
    ASSUME NEW S \in SUBSET Publishers
    PROVE  Total(S) \in Nat /\ Total(S) >= Cardinality(S)
<1>1. IsFiniteSet(S)
  BY TopicAssumption, FS_Subset
<1>2. PICK f : /\ Total(S) = f[S]
               /\ \A s \in SUBSET S :
                     f[s] = IF s = {} THEN 0 ELSE Share(AnyOf(s)) + f[s \ {AnyOf(s)}]
  BY <1>1, TotalIsRecursive
<1>3. \A p \in S : Share(p) \in Nat /\ Share(p) >= 1
  <2> SUFFICES ASSUME NEW p \in S PROVE Share(p) \in Nat /\ Share(p) >= 1
    OBVIOUS
  <2>1. p.depth \in Nat
    BY TopicAssumption
  <2>2. \E x \in {1, p.depth} : \A y \in {1, p.depth} : x >= y
    BY <2>1
  <2> QED
    BY <2>1, <2>2 DEF Share, Max
<1> DEFINE Large == {n \in Nat : \A s \in SUBSET S : Cardinality(s) = n => f[s] \in Nat /\ f[s] >= n}
<1>4. 0 \in Large
  <2>1. \A s \in SUBSET S : Cardinality(s) = 0 => s = {}
    BY <1>1, AnyOfFacts
  <2>2. {} \in SUBSET S /\ f[{}] = 0
    BY <1>2
  <2> QED
    BY <2>1, <2>2
<1>5. ASSUME NEW n \in Large PROVE n + 1 \in Large
  <2> SUFFICES ASSUME NEW s \in SUBSET S, Cardinality(s) = n + 1
               PROVE  f[s] \in Nat /\ f[s] >= n + 1
    OBVIOUS
  <2>1. s # {} /\ AnyOf(s) \in S /\ s \ {AnyOf(s)} \in SUBSET S
        /\ Cardinality(s \ {AnyOf(s)}) = n
    BY <1>1, AnyOfFacts
  <2>2. f[s \ {AnyOf(s)}] \in Nat /\ f[s \ {AnyOf(s)}] >= n
    <3>1. \A r \in SUBSET S : Cardinality(r) = n => f[r] \in Nat /\ f[r] >= n
      OBVIOUS
    <3> QED
      BY ONLY <2>1, <3>1
  <2>3. f[s] = Share(AnyOf(s)) + f[s \ {AnyOf(s)}]
    BY <1>2, <2>1
  <2> QED
    BY <1>3, <2>1, <2>2, <2>3
<1>6. Large = Nat
  <2>1. Large \in SUBSET Nat
    OBVIOUS
  <2> HIDE DEF Large
  <2> QED
    BY <1>4, <1>5, <2>1, NatSetInduction
<1>7. Cardinality(S) \in Nat /\ S \in SUBSET S
  BY <1>1, FS_CardinalityType
<1>8. Cardinality(S) \in Large
  BY <1>6, <1>7
<1> QED
  BY <1>2, <1>7, <1>8

\* The depth lies between the number of publishers and the maximum, or is the
\* maximum.
LEMMA DepthBounds ==
    ASSUME NEW known \in SUBSET Publishers
    PROVE  /\ HistoryDepth(known) >= Min({Cardinality(known), MaxQosDepth})
           /\ HistoryDepth(known) <= MaxQosDepth
<1> DEFINE sum == Total(known)
           wanted == Max({MinQosDepth, sum})
           depth == Min({wanted, MaxQosDepth})
           least == Min({Cardinality(known), MaxQosDepth})
<1>1. HistoryDepth(known) = depth
  BY DEF HistoryDepth, Total
<1>2. sum \in Nat /\ sum >= Cardinality(known)
  BY TotalCountsAll
<1>3. Cardinality(known) \in Nat /\ MinQosDepth \in Nat /\ MaxQosDepth \in Nat
  <2>1. IsFiniteSet(known)
    BY TopicAssumption, FS_Subset
  <2> QED
    BY <2>1, TopicAssumption, FS_CardinalityType
<1> HIDE DEF sum
<1>4. wanted \in Nat /\ wanted >= sum
  <2>1. \E x \in {MinQosDepth, sum} : \A y \in {MinQosDepth, sum} : x >= y
    BY <1>2, <1>3
  <2> QED
    BY <1>2, <1>3, <2>1 DEF Max
<1> HIDE DEF wanted
<1>5. depth \in {wanted, MaxQosDepth} /\ depth <= wanted /\ depth <= MaxQosDepth
  <2>1. \E x \in {wanted, MaxQosDepth} : \A y \in {wanted, MaxQosDepth} : x <= y
    BY <1>3, <1>4
  <2> QED
    BY <2>1 DEF Min
<1> HIDE DEF depth
<1>6. least <= Cardinality(known) /\ least <= MaxQosDepth /\ least \in Nat
  <2>1. \E x \in {Cardinality(known), MaxQosDepth} :
            \A y \in {Cardinality(known), MaxQosDepth} : x <= y
    BY <1>3
  <2> QED
    BY <1>3, <2>1 DEF Min
<1> HIDE DEF least
<1>7. depth >= least
  BY <1>2, <1>3, <1>4, <1>5, <1>6
<1> QED
  BY <1>1, <1>5, <1>7 DEF least

\* What a new subscription asks for.
QosOf(qos, name) ==
    LET known == PublishersOf(name)
    IN  /\ \A p \in known : Connects(p, qos)
        /\ known # {} /\ name \notin BestEffort => qos.reliable = (\A p \in known : p.reliable)
        /\ qos.depth >= Min({Cardinality(known), MaxQosDepth})
        /\ qos.depth <= MaxQosDepth

LEMMA QosIsFit == ASSUME CInv, NEW name PROVE QosOf(Qos(name), name)
<1> DEFINE known == PublishersOf(name)
<1>1. known \in SUBSET Publishers
  BY DEF PublishersOf, CInv
<1>2. Qos(name).depth = HistoryDepth(known)
  BY DEF Qos
<1>3. Qos(name).reliable = (name \notin BestEffort /\ known # {} /\ \A p \in known : p.reliable)
      /\ Qos(name).transient = (known # {} /\ \A p \in known : p.transient)
  BY DEF Qos
<1>4. \A p \in known : Connects(p, Qos(name))
  BY <1>3 DEF Connects
<1>5. known # {} /\ name \notin BestEffort => Qos(name).reliable = (\A p \in known : p.reliable)
  BY <1>3
<1>6. Qos(name).depth >= Min({Cardinality(known), MaxQosDepth}) /\ Qos(name).depth <= MaxQosDepth
  BY <1>1, <1>2, DepthBounds
<1> HIDE DEF known
<1> QED
  BY <1>4, <1>5, <1>6 DEF QosOf, known

\* The QoS of the clients that were not subscribed before.
NewQosFits ==
    \A i \in DOMAIN subscriptions' : \A c \in DOMAIN subscriptions'[i] :
        \/ i \in DOMAIN subscriptions /\ c \in DOMAIN subscriptions[i]
        \/ QosOf(subscriptions'[i][c], advertised[i].topic.name)

LEMMA SubscribeFits ==
    ASSUME CInv, NEW c \in Clients, NEW i, Subscribe(c, i)
    PROVE  NewQosFits
<1> DEFINE entered == Emplace(subscriptions, i, EmptyMap)
           qos == Qos(advertised[i].topic.name)
           full == Emplace(entered[i], c, qos)
<1>1. c \notin DOMAIN entered[i]
      /\ (subscriptions' = [entered EXCEPT ![i] = full] \/ subscriptions' = entered)
  BY DEF Subscribe
<1>2. /\ DOMAIN entered = DOMAIN subscriptions \cup {i}
      /\ \A k \in DOMAIN subscriptions : entered[k] = subscriptions[k]
      /\ i \notin DOMAIN subscriptions => DOMAIN entered[i] = {}
  BY DEF Emplace, EmptyMap
<1>3. DOMAIN full = DOMAIN entered[i] \cup {c} /\ full[c] = qos
  BY <1>1 DEF Emplace
<1>4. QosOf(qos, advertised[i].topic.name)
  BY QosIsFit
<1> HIDE DEF entered, full, qos
<1> SUFFICES ASSUME NEW k \in DOMAIN subscriptions', NEW d \in DOMAIN subscriptions'[k]
             PROVE  \/ k \in DOMAIN subscriptions /\ d \in DOMAIN subscriptions[k]
                    \/ QosOf(subscriptions'[k][d], advertised[k].topic.name)
  BY DEF NewQosFits
<1>5. CASE d \in DOMAIN entered[k] /\ k \in DOMAIN entered
  BY <1>2, <1>5
<1>6. CASE ~ (d \in DOMAIN entered[k] /\ k \in DOMAIN entered)
  <2>1. k = i /\ d = c /\ subscriptions'[k] = full
    BY <1>1, <1>2, <1>3, <1>6
  <2> QED
    BY <1>3, <1>4, <2>1
<1> QED
  BY <1>5, <1>6

\* Nothing else adds a client to a channel.
LEMMA StepFits == CInv /\ [Next]_vars => NewQosFits
<1> SUFFICES ASSUME CInv, [Next]_vars PROVE NewQosFits
  OBVIOUS
<1>1. CASE UNCHANGED subscriptions
  BY <1>1 DEF NewQosFits
<1>2. CASE UpdateTopics
  <2>1. CASE UpdateAdvertisedTopics(foundTopics)
    <3>1. PICK gone : subscriptions' = Erase(subscriptions, gone)
      BY <2>1 DEF UpdateAdvertisedTopics, DropSubscriptions
    <3> QED
      BY <3>1 DEF Erase, NewQosFits
  <2> QED
    BY <1>1, <1>2, <2>1 DEF UpdateTopics, channelVars
<1>3. ASSUME NEW c \in Clients, NEW i, Unsubscribe(c, i) PROVE NewQosFits
  <2> DEFINE left == Erase(subscriptions[i], {c})
  <2>1. DOMAIN left \subseteq DOMAIN subscriptions[i]
    BY DEF Erase
  <2> HIDE DEF left
  <2>2. \/ subscriptions' = Erase(subscriptions, {i})
        \/ subscriptions' = [subscriptions EXCEPT ![i] = left]
    BY <1>3 DEF Unsubscribe, left
  <2>3. CASE subscriptions' = Erase(subscriptions, {i})
    BY <2>3 DEF Erase, NewQosFits
  <2>4. CASE subscriptions' = [subscriptions EXCEPT ![i] = left]
    BY <2>1, <2>4 DEF NewQosFits
  <2> QED
    BY <2>2, <2>3, <2>4
<1>4. CASE ChannelRequest
  <2>1. PICK c \in Clients, i \in 1 .. channelCount : Subscribe(c, i) \/ Unsubscribe(c, i)
    BY <1>4 DEF ChannelRequest
  <2> QED
    BY <1>3, <2>1, SubscribeFits
<1>5. ~ UpdateTopics /\ ~ ChannelRequest => UNCHANGED subscriptions
  BY DEF Next, GraphThread, ReadTopics, ReadServices, UpdateServices, UpdateConnectionGraph,
         Register, WaitForGraphChange, SubscribeConnectionGraph, PublicationRequest, FinishMessage,
         CallService, FinishCall, Responses, GraphChange, RosShutdown, Destroy, StopServer,
         channelVars, vars
<1> QED
  BY <1>1, <1>2, <1>4, <1>5

\* A new subscription connects to every publisher known, is as reliable as all of
\* them are, and keeps a message of each up to the maximum, for every number of
\* publishers and every depth (ros2_foxglove_bridge.cpp:468-523).
THEOREM QosIsSound == Spec => QosFits
<1>1. CInv /\ [Next]_vars =>
        [\A i \in DOMAIN subscriptions' : \A c \in DOMAIN subscriptions'[i] :
          \/ i \in DOMAIN subscriptions /\ c \in DOMAIN subscriptions[i]
          \/ LET qos   == subscriptions'[i][c]
                 name  == advertised[i].topic.name
                 known == PublishersOf(name)
             IN  /\ \A p \in known : Connects(p, qos)
                 /\ known # {} /\ name \notin BestEffort
                        => qos.reliable = (\A p \in known : p.reliable)
                 /\ qos.depth >= Min({Cardinality(known), MaxQosDepth})
                 /\ qos.depth <= MaxQosDepth]_vars
  BY Zenon, StepFits DEF NewQosFits, QosOf
<1> QED
  BY <1>1, ChannelsInvariance, PTL DEF Spec, QosFits
-----------------------------------------------------------------------------
(* The definitions that come with a channel. *)

\* What ToSet() makes of the sequences append_recursive() works on.
LEMMA ToSetFacts ==
    ASSUME NEW S, NEW s \in Seq(S)
    PROVE  /\ ToSet(s) \subseteq S
           /\ \A x : ToSet(Append(s, x)) = ToSet(s) \cup {x}
           /\ \A t \in Seq(S) : ToSet(s \o t) = ToSet(s) \cup ToSet(t)
           /\ s # <<>> => ToSet(s) = {Head(s)} \cup ToSet(Tail(s))
<1>1. ToSet(s) \subseteq S
  BY DEF ToSet
<1>2. ASSUME NEW x PROVE ToSet(Append(s, x)) = ToSet(s) \cup {x}
  <2>1. /\ DOMAIN Append(s, x) = 1 .. Len(s) + 1
        /\ \A i \in 1 .. Len(s) : Append(s, x)[i] = s[i]
        /\ Append(s, x)[Len(s) + 1] = x
        /\ DOMAIN s = 1 .. Len(s) /\ Len(s) \in Nat
    OBVIOUS
  <2>2. 1 .. Len(s) + 1 = (1 .. Len(s)) \cup {Len(s) + 1}
    BY <2>1
  <2> HIDE DEF ToSet
  <2>3. ToSet(Append(s, x)) = {Append(s, x)[i] : i \in (1 .. Len(s)) \cup {Len(s) + 1}}
    BY <2>1, <2>2 DEF ToSet
  <2>4. ToSet(s) = {s[i] : i \in 1 .. Len(s)}
    BY <2>1 DEF ToSet
  <2> QED
    BY <2>1, <2>3, <2>4
<1>3. ASSUME NEW t \in Seq(S) PROVE ToSet(s \o t) = ToSet(s) \cup ToSet(t)
  <2>1. /\ DOMAIN (s \o t) = 1 .. Len(s) + Len(t)
        /\ \A i \in 1 .. Len(s) : (s \o t)[i] = s[i]
        /\ \A i \in Len(s) + 1 .. Len(s) + Len(t) : (s \o t)[i] = t[i - Len(s)]
        /\ DOMAIN s = 1 .. Len(s) /\ DOMAIN t = 1 .. Len(t)
        /\ Len(s) \in Nat /\ Len(t) \in Nat
    OBVIOUS
  <2>2. ASSUME NEW i \in DOMAIN (s \o t) PROVE (s \o t)[i] \in ToSet(s) \cup ToSet(t)
    <3>1. CASE i \in 1 .. Len(s)
      BY <2>1, <3>1 DEF ToSet
    <3>2. CASE i \in Len(s) + 1 .. Len(s) + Len(t)
      <4>1. i - Len(s) \in DOMAIN t
        BY <2>1, <3>2
      <4> QED
        BY <2>1, <3>2, <4>1 DEF ToSet
    <3> QED
      BY <2>1, <3>1, <3>2
  <2>3. ASSUME NEW i \in DOMAIN s PROVE s[i] \in ToSet(s \o t)
    <3>1. i \in DOMAIN (s \o t) /\ (s \o t)[i] = s[i]
      BY <2>1
    <3> QED
      BY <3>1 DEF ToSet
  <2>4. ASSUME NEW i \in DOMAIN t PROVE t[i] \in ToSet(s \o t)
    <3>1. Len(s) + i \in DOMAIN (s \o t) /\ (s \o t)[Len(s) + i] = t[i]
      BY <2>1
    <3> QED
      BY <3>1 DEF ToSet
  <2> QED
    BY <2>2, <2>3, <2>4 DEF ToSet
<1>4. ASSUME s # <<>> PROVE ToSet(s) = {Head(s)} \cup ToSet(Tail(s))
  <2>1. /\ DOMAIN s = 1 .. Len(s) /\ Len(s) \in Nat /\ Len(s) >= 1
        /\ Head(s) = s[1]
        /\ DOMAIN Tail(s) = 1 .. Len(s) - 1
        /\ \A i \in 1 .. Len(s) - 1 : Tail(s)[i] = s[i + 1]
    BY <1>4
  <2>2. ASSUME NEW i \in DOMAIN s PROVE s[i] \in {Head(s)} \cup ToSet(Tail(s))
    <3>1. CASE i = 1
      BY <2>1, <3>1
    <3>2. CASE i - 1 \in DOMAIN Tail(s)
      <4>1. Tail(s)[i - 1] = s[i]
        BY <2>1, <3>2
      <4> QED
        BY <3>2, <4>1 DEF ToSet
    <3> QED
      BY <2>1, <3>1, <3>2
  <2>3. ASSUME NEW i \in DOMAIN Tail(s) PROVE Tail(s)[i] \in ToSet(s)
    <3>1. i + 1 \in DOMAIN s /\ Tail(s)[i] = s[i + 1]
      BY <2>1
    <3> QED
      BY <3>1 DEF ToSet
  <2>4. s[1] \in ToSet(s)
    BY <2>1 DEF ToSet
  <2> QED
    BY <2>1, <2>2, <2>3, <2>4 DEF ToSet
<1> QED
  BY <1>1, <1>2, <1>3, <1>4

\* What a type depends on can be reached where the type can.
LEMMA ReachableIsClosed ==
    ASSUME NEW format \in Formats, NEW root \in Types
    PROVE  /\ Reachable[format][root] \subseteq Types
           /\ root \in Reachable[format][root]
           /\ Closed(format, Reachable[format][root])
<1> DEFINE R == {t \in Types : \A S \in SUBSET Types : root \in S /\ Closed(format, S) => t \in S}
<1>1. Reachable[format][root] = R
  BY DEF Reachable
<1>2. ASSUME NEW t \in R \cap DOMAIN Files[format], NEW d \in ToSet(Files[format][t]) PROVE d \in R
  <2>1. d \in Types
    <3>1. Files[format][t] \in Seq(Types)
      BY DefinitionAssumption
    <3> QED
      BY <3>1, ToSetFacts
  <2>2. ASSUME NEW S \in SUBSET Types, root \in S, Closed(format, S) PROVE d \in S
    BY <2>2 DEF Closed
  <2> QED
    BY <2>1, <2>2
<1>3. Closed(format, R)
  BY <1>2 DEF Closed
<1> HIDE DEF R
<1>4. R \subseteq Types /\ root \in R
  BY DEF R
<1> QED
  BY <1>1, <1>3, <1>4

\* One step of append_recursive() on what is still to be appended.
WalkStep(format, w) ==
    IF Key(format, Head(w.todo)) \in w.seen THEN [w EXCEPT !.todo = Tail(@)]
    ELSE AppendOne(format, [w EXCEPT !.seen = @ \cup {Key(format, Head(w.todo))}])

\* What one step does: the next type was met before, or cannot be loaded, or is
\* appended and what it depends on is to be looked at first.
LEMMA StepFacts ==
    ASSUME NEW format \in Formats, NEW w \in Work, w.todo # <<>>
    PROVE  LET type == Head(w.todo)
               key  == <<format, type>>
               next == WalkStep(format, w)
               error == LoadError(format, type)
           IN  /\ next \in Work
               /\ type \in Types /\ Tail(w.todo) \in Seq(Types)
               /\ key \in w.seen => /\ next.text = w.text /\ next.seen = w.seen
                                    /\ next.error = w.error /\ next.todo = Tail(w.todo)
               /\ key \notin w.seen => next.seen = w.seen \cup {key}
               /\ key \notin w.seen /\ error # "none" =>
                      next.text = w.text /\ next.error = error /\ next.todo = <<>>
               /\ key \notin w.seen /\ error = "none" =>
                      /\ type \in DOMAIN Files[format] \ Malformed
                      /\ Files[format][type] \in Seq(Types)
                      /\ next.text = Append(w.text, type) /\ next.error = w.error
                      /\ next.todo = Files[format][type] \o Tail(w.todo)
<1> DEFINE type == Head(w.todo)
           key  == <<format, type>>
           error == LoadError(format, type)
<1>1. /\ w.text \in Seq(Types) /\ w.seen \in SUBSET (Formats \X Types)
      /\ w.error \in {"none", "missing", "malformed"} /\ w.todo \in Seq(Types)
      /\ w = [text |-> w.text, seen |-> w.seen, error |-> w.error, todo |-> w.todo]
  BY DEF Work
<1>2. type \in Types /\ Tail(w.todo) \in Seq(Types) /\ key \in Formats \X Types
  BY <1>1
<1>3. error \in {"none", "missing", "malformed"}
  BY DEF LoadError
<1>4. error = "none" => /\ type \in DOMAIN Files[format] \ Malformed
                        /\ Files[format][type] \in Seq(Types)
  BY DefinitionAssumption DEF LoadError
<1>5. CASE key \in w.seen
  <2>1. WalkStep(format, w) = [text |-> w.text, seen |-> w.seen, error |-> w.error,
                               todo |-> Tail(w.todo)]
    BY <1>1, <1>5 DEF WalkStep, Key
  <2> HIDE DEF type, error
  <2> QED
    BY <1>1, <1>2, <1>5, <2>1 DEF Work, type
<1>6. CASE key \notin w.seen /\ error # "none"
  <2>1. WalkStep(format, w) = [text |-> w.text, seen |-> w.seen \cup {key}, error |-> error,
                               todo |-> <<>>]
    BY <1>1, <1>6 DEF WalkStep, Key, AppendOne
  <2>2. w.seen \cup {key} \in SUBSET (Formats \X Types) /\ <<>> \in Seq(Types)
    BY <1>1, <1>2
  <2> HIDE DEF type, error, key
  <2>3. WalkStep(format, w) \in Work
    BY <1>1, <1>3, <2>1, <2>2 DEF Work
  <2>4. /\ WalkStep(format, w).text = w.text /\ WalkStep(format, w).seen = w.seen \cup {key}
        /\ WalkStep(format, w).error = error /\ WalkStep(format, w).todo = <<>>
    BY <2>1
  <2> QED
    BY <1>2, <1>6, <2>3, <2>4 DEF type, error, key
<1>7. CASE key \notin w.seen /\ error = "none"
  <2> DEFINE text == Append(w.text, type)
             todo == Files[format][type] \o Tail(w.todo)
  <2>1. WalkStep(format, w) = [text |-> text, seen |-> w.seen \cup {key}, error |-> w.error,
                               todo |-> todo]
    BY <1>1, <1>7 DEF WalkStep, Key, AppendOne
  <2>2. text \in Seq(Types) /\ todo \in Seq(Types)
    BY <1>1, <1>2, <1>4, <1>7
  <2>3. w.seen \cup {key} \in SUBSET (Formats \X Types)
    BY <1>1, <1>2
  <2> HIDE DEF type, error, key, text, todo
  <2>4. WalkStep(format, w) \in Work
    BY <1>1, <2>1, <2>2, <2>3 DEF Work
  <2>5. /\ WalkStep(format, w).text = text
        /\ WalkStep(format, w).seen = w.seen \cup {key}
        /\ WalkStep(format, w).error = w.error
        /\ WalkStep(format, w).todo = todo
    BY <2>1
  <2> QED
    BY <1>2, <1>4, <1>7, <2>4, <2>5 DEF type, error, key, text, todo
<1> QED
  BY <1>5, <1>6, <1>7

\* Walk is what its recursive definition says: every step leads on to the end
\* of the following one.  Its witness takes to each w an end that every relation
\* has which is closed under single steps; the ends of w and of what follows w are
\* the same.
LEMMA WalkIsRecursive ==
    ASSUME NEW format \in Formats
    PROVE  \E walk :
             /\ \A root, seen :
                    AppendRecursive(format, root, seen)
                      = walk[AppendOne(format, [text |-> <<>>, seen |-> seen, error |-> "none",
                                                todo |-> <<root>>])]
             /\ \A w \in Work : w.todo = <<>> => walk[w] = w
             /\ \A w \in Work : w.todo # <<>> => walk[w] = walk[WalkStep(format, w)]
<1> DEFINE E(g) == [w \in Work |->
                       IF w.todo = <<>> THEN w
                       ELSE LET key == Key(format, Head(w.todo))
                            IN  IF key \in w.seen THEN g[[w EXCEPT !.todo = Tail(@)]]
                                ELSE g[AppendOne(format, [w EXCEPT !.seen = @ \cup {key}])]]
           F == CHOOSE g : g = E(g)
           Steps(S) == /\ \A w \in Work : w.todo = <<>> => <<w, w>> \in S
                       /\ \A w, r \in Work : w.todo # <<>> /\ <<WalkStep(format, w), r>> \in S
                                                 => <<w, r>> \in S
           Ends(w) == {r \in Work : \A S \in SUBSET (Work \X Work) : Steps(S) => <<w, r>> \in S}
           witness == [w \in Work |-> CHOOSE r : r \in Ends(w)]
<1>1. ASSUME NEW root, NEW seen
      PROVE  AppendRecursive(format, root, seen)
               = F[AppendOne(format, [text |-> <<>>, seen |-> seen, error |-> "none",
                                      todo |-> <<root>>])]
  BY Zenon DEF AppendRecursive
<1>2. ASSUME NEW w \in Work, w.todo = <<>> PROVE Ends(w) = {w}
  <2>1. w \in Ends(w)
    BY <1>2
  <2>2. ASSUME NEW r \in Ends(w), r # w PROVE FALSE
    <3> DEFINE S == (Work \X Work) \ {<<w, r>>}
    <3>1. Steps(S)
      <4>1. ASSUME NEW v \in Work, v.todo = <<>> PROVE <<v, v>> \in S
        BY <2>2, <4>1
      <4>2. ASSUME NEW v \in Work, NEW q \in Work, v.todo # <<>> PROVE <<v, q>> \in S
        BY <1>2, <4>2
      <4> HIDE DEF S
      <4> QED
        BY <4>1, <4>2
    <3>2. S \in SUBSET (Work \X Work) /\ <<w, r>> \notin S
      OBVIOUS
    <3> HIDE DEF S, Steps
    <3> QED
      BY <2>2, <3>1, <3>2
  <2> HIDE DEF Ends
  <2> QED
    BY <2>1, <2>2
<1>3. ASSUME NEW w \in Work, w.todo # <<>> PROVE Ends(w) = Ends(WalkStep(format, w))
  <2> DEFINE next == WalkStep(format, w)
  <2>1. next \in Work
    BY <1>3, StepFacts
  <2>2. ASSUME NEW r \in Ends(next) PROVE r \in Ends(w)
    <3>1. r \in Work
      OBVIOUS
    <3>2. ASSUME NEW S \in SUBSET (Work \X Work), Steps(S) PROVE <<w, r>> \in S
      <4>1. <<next, r>> \in S
        <5> HIDE DEF Steps
        <5> QED
          BY <2>2, <3>2
      <4> QED
        BY <1>3, <3>1, <3>2, <4>1
    <3> QED
      BY <3>1, <3>2
  <2>3. ASSUME NEW r \in Ends(w) PROVE r \in Ends(next)
    <3>1. r \in Work
      OBVIOUS
    <3>2. ASSUME NEW S \in SUBSET (Work \X Work), Steps(S), <<next, r>> \notin S PROVE FALSE
      <4> DEFINE T == S \ {<<w, r>>}
      <4>1. ASSUME NEW v \in Work, v.todo = <<>> PROVE <<v, v>> \in T
        BY <1>3, <3>2, <4>1
      <4>2. ASSUME NEW v \in Work, NEW q \in Work, v.todo # <<>>, <<WalkStep(format, v), q>> \in T
            PROVE  <<v, q>> \in T
        <5>1. <<v, q>> \in S
          BY <3>2, <4>2
        <5>2. ~ (v = w /\ q = r)
          BY <3>2, <4>2
        <5> QED
          BY <5>1, <5>2
      <4>3. T \in SUBSET (Work \X Work) /\ <<w, r>> \notin T
        OBVIOUS
      <4> HIDE DEF T
      <4>4. Steps(T)
        BY <4>1, <4>2
      <4> HIDE DEF Steps
      <4> QED
        BY <2>3, <4>3, <4>4
    <3> HIDE DEF Steps, next
    <3> QED
      BY <3>1, <3>2
  <2> HIDE DEF Ends, next
  <2>4. Ends(w) = Ends(next)
    BY <2>2, <2>3
  <2> QED
    BY <2>4 DEF next
<1> HIDE DEF Ends
<1>4. ASSUME NEW w \in Work
      PROVE  witness[w] = IF w.todo = <<>> THEN w
                          ELSE LET key == Key(format, Head(w.todo))
                               IN  IF key \in w.seen THEN witness[[w EXCEPT !.todo = Tail(@)]]
                                   ELSE witness[AppendOne(format, [w EXCEPT !.seen = @ \cup {key}])]
  <2>1. CASE w.todo = <<>>
    <3>1. witness[w] = w
      BY <1>2, <2>1
    <3> HIDE DEF witness
    <3> QED
      BY <2>1, <3>1
  <2>2. CASE w.todo # <<>>
    <3>1. WalkStep(format, w) \in Work
      BY <2>2, StepFacts
    <3>2. witness[w] = witness[WalkStep(format, w)]
      BY <1>3, <2>2, <3>1
    <3> HIDE DEF witness
    <3> QED
      BY <2>2, <3>2 DEF WalkStep
  <2> QED
    BY <2>1, <2>2
<1>5. witness = E(witness)
  <2>1. witness = [w \in Work |-> witness[w]]
    OBVIOUS
  <2> HIDE DEF witness
  <2> QED
    BY <1>4, <2>1
<1>6. F = E(F)
  <2> HIDE DEF witness, E
  <2> QED
    BY <1>5
<1> HIDE DEF F
<1>7. ASSUME NEW w \in Work
      PROVE  F[w] = IF w.todo = <<>> THEN w
                    ELSE LET key == Key(format, Head(w.todo))
                         IN  IF key \in w.seen THEN F[[w EXCEPT !.todo = Tail(@)]]
                             ELSE F[AppendOne(format, [w EXCEPT !.seen = @ \cup {key}])]
  BY <1>6
<1>8. \A w \in Work : w.todo = <<>> => F[w] = w
  BY <1>7
<1>9. ASSUME NEW w \in Work, w.todo # <<>> PROVE F[w] = F[WalkStep(format, w)]
  BY <1>7, <1>9 DEF WalkStep
<1> QED
  BY <1>1, <1>8, <1>9

\* What holds of a walk from root in one format at any time: what was appended can
\* be reached from root, root first and nothing twice, and what it depends on
\* is appended or to be appended; or there was an error at a type that can be
\* reached.  old is what was seen in another format.
Describing(format, root, old, w) ==
    /\ w.seen \subseteq old \cup ({format} \X Types)
    /\ w.error # "none" =>
           /\ w.todo = <<>>
           /\ \E t \in Reachable[format][root] : LoadError(format, t) = w.error
    /\ w.error = "none" =>
           /\ ToSet(w.text) \cup ToSet(w.todo) \subseteq Reachable[format][root]
           /\ w.text # <<>> /\ w.text[1] = root
           /\ root \notin ToSet(w.todo)
           /\ \A t \in Types : <<format, t>> \in w.seen => t \in ToSet(w.text)
           /\ \A i \in 2 .. Len(w.text) : <<format, w.text[i]>> \in w.seen
           /\ \A i, j \in 1 .. Len(w.text) : w.text[i] = w.text[j] => i = j
           /\ \A t \in ToSet(w.text) :
                  /\ t \in DOMAIN Files[format] \ Malformed
                  /\ ToSet(Files[format][t]) \subseteq ToSet(w.text) \cup ToSet(w.todo)

\* The first step, on root itself.
LEMMA RootDescribed ==
    ASSUME NEW format \in Formats, NEW root \in Types, NEW old \in SUBSET (Formats \X Types),
           \A t \in Types : <<format, t>> \notin old
    PROVE  LET first == AppendOne(format, [text |-> <<>>, seen |-> old, error |-> "none",
                                           todo |-> <<root>>])
           IN  first \in Work /\ Describing(format, root, old, first)
<1> DEFINE start == [text |-> <<>>, seen |-> old, error |-> "none", todo |-> <<root>>]
           first == AppendOne(format, start)
           error == LoadError(format, root)
<1>0. /\ start.text = <<>> /\ start.seen = old /\ start.error = "none"
      /\ start.todo = <<root>> /\ Head(start.todo) = root
      /\ start = [text |-> start.text, seen |-> start.seen, error |-> start.error,
                  todo |-> start.todo]
  OBVIOUS
<1> HIDE DEF start
<1>1. /\ root \in Reachable[format][root]
      /\ Closed(format, Reachable[format][root])
  BY ReachableIsClosed
<1>2. error \in {"none", "missing", "malformed"}
  BY DEF LoadError
<1>3. CASE error # "none"
  <2>1. first = [text |-> <<>>, seen |-> old, error |-> error, todo |-> <<>>]
    BY <1>0, <1>3 DEF AppendOne
  <2>2. first \in Work
    BY <1>2, <2>1 DEF Work
  <2>3. Describing(format, root, old, first)
    BY <1>1, <1>3, <2>1 DEF Describing
  <2> QED
    BY <2>2, <2>3 DEF start
<1>4. CASE error = "none"
  <2> DEFINE deps == Files[format][root]
  <2>1. root \in DOMAIN Files[format] \ Malformed /\ deps \in Seq(Types)
    BY <1>4, DefinitionAssumption DEF LoadError
  <2>2. deps \o Tail(<<root>>) = deps /\ Append(<<>>, root) = <<root>>
    BY <2>1
  <2>3. first = [text |-> <<root>>, seen |-> old, error |-> "none", todo |-> deps]
    <3>1. first = [text |-> Append(start.text, root), seen |-> start.seen,
                   error |-> start.error, todo |-> deps \o Tail(start.todo)]
      BY <1>0, <1>4 DEF AppendOne
    <3> QED
      BY <1>0, <2>2, <3>1
  <2> HIDE DEF deps, first
  <2>4. first \in Work
    BY <2>1, <2>3 DEF Work
  <2>5. ToSet(<<root>>) = {root}
    BY DEF ToSet
  <2>6. ToSet(deps) \subseteq Reachable[format][root] /\ root \notin ToSet(deps)
    BY <1>1, <2>1, DefinitionAssumption DEF Closed, deps
  <2>7. Describing(format, root, old, first)
    BY <1>1, <2>1, <2>3, <2>5, <2>6 DEF Describing, deps
  <2> QED
    BY <2>4, <2>7 DEF first, start
<1> QED
  BY <1>3, <1>4

LEMMA StepDescribed ==
    ASSUME NEW format \in Formats, NEW root \in Types, NEW old \in SUBSET (Formats \X Types),
           \A t \in Types : <<format, t>> \notin old,
           NEW w \in Work, w.todo # <<>>, Describing(format, root, old, w)
    PROVE  Describing(format, root, old, WalkStep(format, w))
<1> DEFINE type == Head(w.todo)
           key  == <<format, type>>
           next == WalkStep(format, w)
           error == LoadError(format, type)
           R == Reachable[format][root]
<1>1. /\ next \in Work
      /\ type \in Types /\ Tail(w.todo) \in Seq(Types)
      /\ key \in w.seen => /\ next.text = w.text /\ next.seen = w.seen
                           /\ next.error = w.error /\ next.todo = Tail(w.todo)
      /\ key \notin w.seen => next.seen = w.seen \cup {key}
      /\ key \notin w.seen /\ error # "none" =>
             next.text = w.text /\ next.error = error /\ next.todo = <<>>
      /\ key \notin w.seen /\ error = "none" =>
             /\ type \in DOMAIN Files[format] \ Malformed
             /\ Files[format][type] \in Seq(Types)
             /\ next.text = Append(w.text, type) /\ next.error = w.error
             /\ next.todo = Files[format][type] \o Tail(w.todo)
  BY StepFacts
<1>2. w.text \in Seq(Types) /\ w.todo \in Seq(Types)
  BY DEF Work
<1>3. /\ w.error = "none"
      /\ w.seen \subseteq old \cup ({format} \X Types)
      /\ ToSet(w.text) \cup ToSet(w.todo) \subseteq R
      /\ w.text # <<>> /\ w.text[1] = root
      /\ root \notin ToSet(w.todo)
      /\ \A t \in Types : <<format, t>> \in w.seen => t \in ToSet(w.text)
      /\ \A i \in 2 .. Len(w.text) : <<format, w.text[i]>> \in w.seen
      /\ \A i, j \in 1 .. Len(w.text) : w.text[i] = w.text[j] => i = j
      /\ \A t \in ToSet(w.text) :
             /\ t \in DOMAIN Files[format] \ Malformed
             /\ ToSet(Files[format][t]) \subseteq ToSet(w.text) \cup ToSet(w.todo)
  BY DEF Describing
<1>4. ToSet(w.todo) = {type} \cup ToSet(Tail(w.todo))
  BY <1>2, ToSetFacts
<1>5. /\ R \subseteq Types
      /\ Closed(format, R)
  BY ReachableIsClosed
<1> HIDE DEF type, next, error, R
<1>6. CASE key \in w.seen
  <2>1. type \in ToSet(w.text)
    BY <1>1, <1>3, <1>6
  <2> QED
    BY <1>1, <1>3, <1>4, <1>6, <2>1 DEF Describing, next, R
<1>7. CASE key \notin w.seen /\ error # "none"
  <2>1. type \in R
    BY <1>3, <1>4
  <2>2. next.seen \subseteq old \cup ({format} \X Types)
    BY <1>1, <1>3, <1>7
  <2> QED
    BY <1>1, <1>7, <2>1, <2>2 DEF Describing, next, error, R
<1>8. CASE key \notin w.seen /\ error = "none"
  <2> DEFINE deps == Files[format][type]
             n == Len(w.text)
  <2>1. /\ type \in DOMAIN Files[format] \ Malformed /\ deps \in Seq(Types)
        /\ next.text = Append(w.text, type) /\ next.error = "none"
        /\ next.todo = deps \o Tail(w.todo) /\ next.seen = w.seen \cup {key}
    BY <1>1, <1>3, <1>8
  <2>2. ToSet(next.text) = ToSet(w.text) \cup {type}
    BY <1>2, <2>1, ToSetFacts
  <2>3. ToSet(next.todo) = ToSet(deps) \cup ToSet(Tail(w.todo))
    <3> HIDE DEF deps
    <3>1. deps \in Seq(Types) /\ Tail(w.todo) \in Seq(Types)
      BY <1>1, <2>1
    <3>2. \A t \in Seq(Types) : ToSet(deps \o t) = ToSet(deps) \cup ToSet(t)
      BY <3>1, ToSetFacts
    <3> QED
      BY <2>1, <3>1, <3>2
  <2>4. type \in R /\ type # root
    BY <1>3, <1>4
  <2>5. ToSet(deps) \subseteq R /\ root \notin ToSet(deps)
    <3>1. ToSet(deps) \subseteq R
      BY <1>5, <2>1, <2>4 DEF Closed
    <3>2. root \notin ToSet(deps)
      BY <2>1, <2>4, DefinitionAssumption DEF R
    <3> QED
      BY <3>1, <3>2
  <2>6. /\ n \in Nat /\ n >= 1 /\ Len(next.text) = n + 1
        /\ \A i \in 1 .. n : next.text[i] = w.text[i]
        /\ next.text[n + 1] = type
    BY <1>2, <1>3, <2>1
  <2>7. ASSUME NEW i \in 1 .. n PROVE w.text[i] # type
    <3>1. CASE i = 1
      BY <1>3, <2>4, <3>1
    <3>2. CASE i \in 2 .. n
      BY <1>3, <1>8, <3>2
    <3> QED
      BY <2>6, <3>1, <3>2
  <2> HIDE DEF deps, n
  <2>8. next.seen \subseteq old \cup ({format} \X Types)
    BY <1>1, <1>3, <2>1
  <2>9. next.text # <<>> /\ next.text[1] = root
    BY <1>3, <2>6
  <2>10. \A i \in 2 .. Len(next.text) : <<format, next.text[i]>> \in next.seen
    <3> SUFFICES ASSUME NEW i \in 2 .. n + 1 PROVE <<format, next.text[i]>> \in next.seen
      BY <2>6
    <3>1. CASE i = n + 1
      BY <2>1, <2>6, <3>1
    <3>2. CASE i \in 2 .. n
      <4>1. i \in 1 .. n
        BY <3>2, <2>6
      <4> QED
        BY <1>3, <2>1, <2>6, <3>2, <4>1 DEF n
    <3> QED
      BY <2>6, <3>1, <3>2
  <2>11. \A i, j \in 1 .. Len(next.text) : next.text[i] = next.text[j] => i = j
    <3>1. 1 .. n + 1 = (1 .. n) \cup {n + 1}
      BY <2>6
    <3>2. \A i, j \in 1 .. n : w.text[i] = w.text[j] => i = j
      BY <1>3 DEF n
    <3> QED
      BY <2>6, <2>7, <3>1, <3>2
  <2>12. \A t \in ToSet(next.text) :
             /\ t \in DOMAIN Files[format] \ Malformed
             /\ ToSet(Files[format][t]) \subseteq ToSet(next.text) \cup ToSet(next.todo)
    BY <1>3, <1>4, <2>1, <2>2, <2>3 DEF deps
  <2>13. /\ ToSet(next.text) \cup ToSet(next.todo) \subseteq R
         /\ root \notin ToSet(next.todo)
         /\ \A t \in Types : <<format, t>> \in next.seen => t \in ToSet(next.text)
    BY <1>3, <1>4, <2>1, <2>2, <2>3, <2>4, <2>5
  <2> QED
    BY <2>1, <2>8, <2>9, <2>10, <2>11, <2>12, <2>13 DEF Describing, next, R
<1> QED
  BY <1>6, <1>7, <1>8

\* What is not yet seen.
Unseen(w) == (Formats \X Types) \ w.seen

LEMMA UnseenFacts ==
    ASSUME NEW w \in Work
    PROVE  /\ Cardinality(Unseen(w)) \in Nat
           /\ \A v \in Work, x \in Formats \X Types :
                  v.seen = w.seen \cup {x} /\ x \notin w.seen
                    => Cardinality(Unseen(v)) = Cardinality(Unseen(w)) - 1
<1>1. IsFiniteSet(Formats \X Types)
  <2>1. IsFiniteSet(Formats)
    <3>1. IsFiniteSet({} \cup {"msg"})
      BY FS_EmptySet, FS_AddElement
    <3>2. IsFiniteSet(({} \cup {"msg"}) \cup {"idl"})
      BY <3>1, FS_AddElement
    <3>3. Formats = ({} \cup {"msg"}) \cup {"idl"}
      BY DEF Formats
    <3> QED
      BY <3>2, <3>3
  <2> QED
    BY <2>1, FS_Product, DefinitionAssumption
<1>2. IsFiniteSet(Unseen(w))
  BY <1>1, FS_Subset DEF Unseen
<1>3. ASSUME NEW v \in Work, NEW x \in Formats \X Types, v.seen = w.seen \cup {x}, x \notin w.seen
      PROVE  Cardinality(Unseen(v)) = Cardinality(Unseen(w)) - 1
  <2>1. Unseen(v) = Unseen(w) \ {x} /\ x \in Unseen(w)
    BY <1>3 DEF Unseen
  <2> QED
    BY <1>2, <2>1, FS_RemoveElement
<1> QED
  BY <1>2, <1>3, FS_CardinalityType

\* A walk ends, and what holds of its beginning holds of its end: with every step
\* there is less unseen, or as much and less to be looked at.
LEMMA WalkEnds ==
    ASSUME NEW format \in Formats, NEW root \in Types, NEW old \in SUBSET (Formats \X Types),
           \A t \in Types : <<format, t>> \notin old,
           NEW walk,
           \A w \in Work : w.todo = <<>> => walk[w] = w,
           \A w \in Work : w.todo # <<>> => walk[w] = walk[WalkStep(format, w)]
    PROVE  \A w \in Work : Describing(format, root, old, w)
               => walk[w] \in Work /\ walk[w].todo = <<>> /\ Describing(format, root, old, walk[w])
<1> DEFINE Good(w) == Describing(format, root, old, w)
               => walk[w] \in Work /\ walk[w].todo = <<>> /\ Describing(format, root, old, walk[w])
           Outer == {n \in Nat : \A w \in Work : Cardinality(Unseen(w)) < n => Good(w)}
<1>1. 0 \in Outer
  <2>1. \A w \in Work : ~ (Cardinality(Unseen(w)) < 0)
    BY UnseenFacts
  <2> HIDE DEF Good
  <2> QED
    BY <2>1
<1>2. ASSUME NEW n \in Outer PROVE n + 1 \in Outer
  <2> DEFINE Inner == {k \in Nat : \A w \in Work :
                           Cardinality(Unseen(w)) <= n /\ Len(w.todo) <= k => Good(w)}
  <2>1. n \in Nat
    OBVIOUS
  <2>2. ASSUME NEW w \in Work, w.todo = <<>> PROVE Good(w)
    BY <2>2
  <2>3. 0 \in Inner
    <3>1. ASSUME NEW w \in Work, Len(w.todo) <= 0 PROVE Good(w)
      <4>1. w.todo \in Seq(Types)
        BY DEF Work
      <4>2. w.todo = <<>>
        BY <3>1, <4>1
      <4> HIDE DEF Good
      <4> QED
        BY <2>2, <4>2
    <3> HIDE DEF Good
    <3> QED
      BY <3>1
  <2>4. ASSUME NEW k \in Inner PROVE k + 1 \in Inner
    <3>1. k \in Nat
      OBVIOUS
    <3>2. ASSUME NEW w \in Work, Cardinality(Unseen(w)) <= n, Len(w.todo) <= k + 1, w.todo # <<>>,
                 Describing(format, root, old, w)
          PROVE  Good(WalkStep(format, w))
      <4> DEFINE next == WalkStep(format, w)
                 key == <<format, Head(w.todo)>>
      <4>1. /\ next \in Work /\ Head(w.todo) \in Types
            /\ key \in w.seen => next.seen = w.seen /\ next.todo = Tail(w.todo)
            /\ key \notin w.seen => next.seen = w.seen \cup {key}
        BY <3>2, StepFacts
      <4>2. CASE key \in w.seen
        <5>1. w.todo \in Seq(Types)
          BY DEF Work
        <5>2. Len(Tail(w.todo)) <= k
          BY <3>1, <3>2, <5>1
        <5>3. Unseen(next) = Unseen(w)
          BY <4>1, <4>2 DEF Unseen
        <5> HIDE DEF Good, next
        <5>4. Good(next)
          BY <3>1, <3>2, <4>1, <4>2, <5>2, <5>3
        <5> QED
          BY <5>4 DEF next
      <4>3. CASE key \notin w.seen
        <5> HIDE DEF Good, next
        <5>1. /\ Cardinality(Unseen(next)) = Cardinality(Unseen(w)) - 1
              /\ Cardinality(Unseen(w)) \in Nat
          BY <4>1, <4>3, UnseenFacts
        <5>2. Cardinality(Unseen(next)) < n
          BY <2>1, <3>2, <5>1
        <5>3. Good(next)
          BY <4>1, <5>2
        <5> QED
          BY <5>3 DEF next
      <4> QED
        BY <4>2, <4>3
    <3>3. ASSUME NEW w \in Work, Cardinality(Unseen(w)) <= n, Len(w.todo) <= k + 1 PROVE Good(w)
      <4>1. CASE w.todo = <<>>
        <5> HIDE DEF Good
        <5> QED
          BY <2>2, <4>1
      <4>2. CASE w.todo # <<>>
        <5> SUFFICES ASSUME Describing(format, root, old, w)
                     PROVE  /\ walk[w] \in Work /\ walk[w].todo = <<>>
                            /\ Describing(format, root, old, walk[w])
          OBVIOUS
        <5>1. Good(WalkStep(format, w))
          BY <3>2, <3>3, <4>2
        <5>2. Describing(format, root, old, WalkStep(format, w))
          BY <4>2, StepDescribed
        <5>3. walk[w] = walk[WalkStep(format, w)]
          BY <4>2
        <5> QED
          BY <5>1, <5>2, <5>3
      <4> QED
        BY <4>1, <4>2
    <3> HIDE DEF Good
    <3> QED
      BY <3>1, <3>3
  <2>5. Inner = Nat
    <3>1. Inner \in SUBSET Nat
      OBVIOUS
    <3> HIDE DEF Inner
    <3> QED
      BY <2>3, <2>4, <3>1, NatSetInduction
  <2>6. ASSUME NEW w \in Work, Cardinality(Unseen(w)) < n + 1 PROVE Good(w)
    <3>1. Len(w.todo) \in Nat
      BY DEF Work
    <3>2. Cardinality(Unseen(w)) <= n
      BY <2>1, <2>6, UnseenFacts
    <3> HIDE DEF Good
    <3>3. Len(w.todo) \in Inner
      BY <2>5, <3>1
    <3> QED
      BY <3>1, <3>2, <3>3
  <2> HIDE DEF Good
  <2> QED
    BY <2>1, <2>6
<1>3. Outer = Nat
  <2>1. Outer \in SUBSET Nat
    OBVIOUS
  <2> HIDE DEF Outer
  <2> QED
    BY <1>1, <1>2, <2>1, NatSetInduction
<1>4. ASSUME NEW w \in Work PROVE Good(w)
  <2>1. Cardinality(Unseen(w)) \in Nat
    BY UnseenFacts
  <2>2. Cardinality(Unseen(w)) + 1 \in Outer
    BY <1>3, <2>1
  <2> HIDE DEF Good
  <2> QED
    BY <2>1, <2>2
<1> QED
  BY <1>4

LEMMA AppendedIsDescribed ==
    ASSUME NEW format \in Formats, NEW root \in Types, NEW old \in SUBSET (Formats \X Types),
           \A t \in Types : <<format, t>> \notin old
    PROVE  LET w == AppendRecursive(format, root, old)
           IN  w \in Work /\ w.todo = <<>> /\ Describing(format, root, old, w)
<1> DEFINE first == AppendOne(format, [text |-> <<>>, seen |-> old, error |-> "none",
                                       todo |-> <<root>>])
<1>1. PICK walk : /\ AppendRecursive(format, root, old) = walk[first]
                  /\ \A w \in Work : w.todo = <<>> => walk[w] = w
                  /\ \A w \in Work : w.todo # <<>> => walk[w] = walk[WalkStep(format, w)]
  BY WalkIsRecursive
<1>2. first \in Work /\ Describing(format, root, old, first)
  BY RootDescribed
<1> HIDE DEF first
<1>3. walk[first] \in Work /\ walk[first].todo = <<>> /\ Describing(format, root, old, walk[first])
  BY <1>1, <1>2, WalkEnds
<1> QED
  BY <1>1, <1>3

\* At the end of a walk nothing is left to be appended: the text is everything
\* that can be reached from root, or not everything can be loaded.
LEMMA EndDescribes ==
    ASSUME NEW format \in Formats, NEW root \in Types, NEW old, NEW w \in Work, w.todo = <<>>,
           Describing(format, root, old, w)
    PROVE  /\ w.error # "none" => ~ Complete(format, root)
           /\ w.error = "none" => /\ w.text # <<>>
                                  /\ \A e : Describes([format |-> format, text |-> w.text,
                                                       error |-> e], root)
<1>1. CASE w.error # "none"
  <2>1. PICK t \in Reachable[format][root] : LoadError(format, t) # "none"
    BY <1>1 DEF Describing
  <2>2. t \notin DOMAIN Files[format] \ Malformed
    BY <2>1 DEF LoadError
  <2> QED
    BY <1>1, <2>2 DEF Complete
<1>2. CASE w.error = "none"
  <2>1. /\ ToSet(w.text) \cup ToSet(w.todo) \subseteq Reachable[format][root]
        /\ w.text # <<>> /\ w.text[1] = root
        /\ \A i, j \in 1 .. Len(w.text) : w.text[i] = w.text[j] => i = j
        /\ \A t \in ToSet(w.text) :
               /\ t \in DOMAIN Files[format] \ Malformed
               /\ ToSet(Files[format][t]) \subseteq ToSet(w.text) \cup ToSet(w.todo)
    BY <1>2 DEF Describing
  <2>2. w.text \in Seq(Types) /\ ToSet(w.text) \subseteq Types
    BY ToSetFacts DEF Work
  <2>3. ToSet(w.todo) = {}
    BY DEF ToSet
  <2>4. Closed(format, ToSet(w.text))
    BY <2>1, <2>3 DEF Closed
  <2>5. root \in ToSet(w.text)
    BY <2>1, <2>2 DEF ToSet
  <2>6. Reachable[format][root] \subseteq ToSet(w.text)
    <3>1. Reachable[format][root]
            = {t \in Types : \A S \in SUBSET Types : root \in S /\ Closed(format, S) => t \in S}
      BY DEF Reachable
    <3> QED
      BY <2>2, <2>4, <2>5, <3>1
  <2>7. ToSet(w.text) = Reachable[format][root]
    BY <2>1, <2>6
  <2>8. Complete(format, root)
    BY <2>1, <2>7 DEF Complete
  <2>9. Head(w.text) = root /\ IsInjective(w.text)
    BY <2>1, <2>2 DEF IsInjective
  <2> QED
    BY <1>2, <2>1, <2>7, <2>8, <2>9 DEF Describes
<1> QED
  BY <1>1, <1>2

\* What get_full_text() gives for a type: its description, or an error; and
\* when a definition is missing, it is missing in both formats.
LEMMA FullTextDescribes ==
    ASSUME NEW root \in Types
    PROVE  LET full == FullText[root]
           IN  /\ full.error \in {"none", "missing", "malformed"}
               /\ full = [format |-> full.format, text |-> full.text, error |-> full.error]
               /\ full.error = "none" => full.text # <<>> /\ Describes(full, root)
               /\ full.error = "missing" => \A f \in Formats : ~ Complete(f, root)
<1> DEFINE msg == AppendRecursive("msg", root, {})
           idl == AppendRecursive("idl", root, msg.seen)
<1>1. Formats = {"msg", "idl"} /\ "msg" \in Formats /\ "idl" \in Formats
  BY DEF Formats
<1>2. msg \in Work /\ msg.todo = <<>> /\ Describing("msg", root, {}, msg)
  BY <1>1, AppendedIsDescribed
<1> HIDE DEF msg
<1>3. /\ msg.seen \in SUBSET (Formats \X Types)
      /\ \A t \in Types : <<"idl", t>> \notin msg.seen
  <2>1. msg.seen \subseteq {"msg"} \X Types
    BY <1>2 DEF Describing
  <2> QED
    BY <1>1, <2>1
<1>4. idl \in Work /\ idl.todo = <<>> /\ Describing("idl", root, msg.seen, idl)
  BY <1>1, <1>3, AppendedIsDescribed
<1> HIDE DEF idl
<1>5. FullText[root] = IF msg.error # "missing"
                       THEN [format |-> "msg", text |-> msg.text, error |-> msg.error]
                       ELSE [format |-> "idl", text |-> idl.text, error |-> idl.error]
  BY Zenon DEF FullText, GetFullText, msg, idl
<1>6. /\ msg.error # "none" => ~ Complete("msg", root)
      /\ msg.error = "none" => /\ msg.text # <<>>
                               /\ \A e : Describes([format |-> "msg", text |-> msg.text,
                                                    error |-> e], root)
  BY <1>1, <1>2, EndDescribes
<1>7. /\ idl.error # "none" => ~ Complete("idl", root)
      /\ idl.error = "none" => /\ idl.text # <<>>
                               /\ \A e : Describes([format |-> "idl", text |-> idl.text,
                                                    error |-> e], root)
  BY <1>1, <1>4, EndDescribes
<1>8. /\ msg.error \in {"none", "missing", "malformed"}
      /\ idl.error \in {"none", "missing", "malformed"}
  BY <1>2, <1>4 DEF Work
<1>9. CASE msg.error # "missing"
  BY <1>5, <1>6, <1>8, <1>9
<1>10. CASE msg.error = "missing"
  <2>1. \A f \in Formats : idl.error # "none" => ~ Complete(f, root)
    BY <1>1, <1>6, <1>7, <1>10
  <2> QED
    BY <1>5, <1>7, <1>8, <1>10, <2>1
<1> QED
  BY <1>9, <1>10

\* An entry of the table of channels, as ChannelsDescribed wants it.
Described(channel) ==
    LET type   == channel.topic.type
        schema == channel.schema
    IN  IF schema.text = <<>> THEN \A f \in Formats : ~ Complete(f, type)
                              ELSE Describes(schema, type)

LEMMA NewIsDescribed ==
    ASSUME NEW t \in Topics, FullText[t.type].error # "malformed"
    PROVE  Described(Channel(t))
<1> DEFINE full == FullText[t.type]
<1>1. t.type \in Types
  BY TopicAssumption
<1>2. /\ full.error \in {"none", "missing", "malformed"}
      /\ full = [format |-> full.format, text |-> full.text, error |-> full.error]
      /\ full.error = "none" => full.text # <<>> /\ Describes(full, t.type)
      /\ full.error = "missing" => \A f \in Formats : ~ Complete(f, t.type)
  BY <1>1, FullTextDescribes
<1>3. Channel(t) = [topic  |-> t,
                    schema |-> IF full.error = "none" THEN full
                               ELSE [full EXCEPT !.text = <<>>]]
  BY Zenon DEF Channel
<1> HIDE DEF full
<1>4. CASE full.error = "none"
  BY <1>2, <1>3, <1>4 DEF Described
<1>5. CASE full.error = "missing"
  <2>1. [full EXCEPT !.text = <<>>].text = <<>>
    BY <1>2
  <2> QED
    BY <1>2, <1>3, <1>5, <2>1 DEF Described
<1> QED
  BY <1>2, <1>4, <1>5 DEF full

LEMMA DescribedKeeps == CInv /\ ChannelsDescribed /\ [Next]_vars => ChannelsDescribed'
<1> SUFFICES ASSUME CInv, ChannelsDescribed, [Next]_vars PROVE ChannelsDescribed'
  OBVIOUS
<1>1. \A i \in DOMAIN advertised : Described(advertised[i])
  BY DEF ChannelsDescribed, Described
<1>2. CASE UNCHANGED advertised
  BY <1>2 DEF ChannelsDescribed
<1>3. CASE UpdateTopics /\ UpdateAdvertisedTopics(foundTopics)
  <2> DEFINE latest == {t \in foundTopics : t.name \in Listed}
             new    == NewTopics(latest)
             old    == Erase(advertised, Vanished(latest))
             n      == Cardinality(new)
  <2>1. PICK topicOf \in Bijection(channelCount + 1 .. channelCount + n, new) :
          advertised' = [i \in DOMAIN old \cup DOMAIN topicOf |->
                           IF i \in DOMAIN old THEN old[i] ELSE Channel(topicOf[i])]
    BY <1>3 DEF UpdateAdvertisedTopics
  <2>2. \A i \in DOMAIN old : i \in DOMAIN advertised /\ old[i] = advertised[i]
    BY DEF Erase
  <2>3. \A i \in DOMAIN topicOf : topicOf[i] \in new
    BY Fun_BijectionProperties
  <2>4. \A t \in new : t \in Topics /\ FullText[t.type].error # "malformed"
    BY DEF NewTopics, CInv
  <2> HIDE DEF new, old, n
  <2>5. ASSUME NEW i \in DOMAIN advertised' PROVE Described(advertised'[i])
    <3>1. CASE i \in DOMAIN old
      BY <1>1, <2>1, <2>2, <3>1
    <3>2. CASE i \notin DOMAIN old
      <4>1. i \in DOMAIN topicOf /\ advertised'[i] = Channel(topicOf[i])
        BY <2>1, <3>2
      <4> QED
        BY <2>3, <2>4, <4>1, NewIsDescribed
    <3> QED
      BY <3>1, <3>2
  <2> QED
    BY <2>5 DEF ChannelsDescribed, Described
<1>4. CASE ChannelRequest
  BY <1>2, <1>4 DEF ChannelRequest, Subscribe, Unsubscribe
<1>5. CASE UpdateTopics /\ UNCHANGED channelVars
  BY <1>2, <1>5 DEF channelVars
<1>6. ~ UpdateTopics /\ ~ ChannelRequest => UNCHANGED advertised
  BY DEF Next, GraphThread, ReadTopics, ReadServices, UpdateServices, UpdateConnectionGraph,
         Register, WaitForGraphChange, SubscribeConnectionGraph, PublicationRequest, FinishMessage,
         CallService, FinishCall, Responses, GraphChange, RosShutdown, Destroy, StopServer,
         channelVars, vars
<1> QED
  BY <1>2, <1>3, <1>4, <1>5, <1>6 DEF UpdateTopics

\* Every channel comes with the definitions of all types its messages are made
\* of, each once and in one format, or no format has them all, for every set of
\* definition files that do not contain themselves
\* (message_definition_cache.cpp:342-375, ros2_foxglove_bridge.cpp:218-262).
THEOREM DescriptionsAreWhole == Spec => []ChannelsDescribed
<1>1. Init => ChannelsDescribed
  BY DEF Init, ChannelsInit, EmptyMap, ChannelsDescribed
<1> QED
  BY <1>1, DescribedKeeps, ChannelsInvariance, PTL DEF Spec
-----------------------------------------------------------------------------
(* Calls and their answers. *)

Pending(i) == serviceClients[i].pending
Sent(i) == serviceClients[i].sent

ClientRecords ==
    [name : STRING, sent : Nat, pending : UNION {[S -> Calls] : S \in SUBSET Nat}]

ServiceTypes ==
    /\ servers \subseteq Servers
    /\ foundServices \subseteq Servers
    /\ serviceCount \in Nat
    /\ DOMAIN services \subseteq 1 .. serviceCount
    /\ \A i \in DOMAIN services : services[i] \in Servers
    /\ \A i \in DOMAIN serviceClients : i \in Nat /\ serviceClients[i] \in ClientRecords
    /\ handler \in {"idle", "waiting", "sending", "storing"}
    /\ current \in [service : Nat, call : Calls \cup {NoCall}, seq : Nat]
    /\ network \subseteq [service : Nat, seq : Nat, call : Calls, answered : BOOLEAN]
    /\ made \subseteq Calls
    /\ replies \in [Calls -> Seq(Calls)]

\* A call that has no outcome yet is in one place: not made, in the handler, or
\* in one entry of one client's table.
OnePlace ==
    /\ \A call \in Calls \ made : replies[call] = <<>>
    /\ handler # "idle" => current.call \in made /\ replies[current.call] = <<>>
    /\ \A i \in DOMAIN serviceClients : \A s \in DOMAIN Pending(i) :
           /\ Pending(i)[s] \in made /\ replies[Pending(i)[s]] = <<>>
           /\ handler # "idle" => Pending(i)[s] # current.call
    /\ \A i, j \in DOMAIN serviceClients :
           \A s \in DOMAIN Pending(i), t \in DOMAIN Pending(j) :
               Pending(i)[s] = Pending(j)[t] => i = j /\ s = t

\* The request of the handler that has been sent and is not yet noted.
Storing(m) ==
    handler = "storing" /\ m.service = current.service /\ m.seq = current.seq
        /\ m.call = current.call

\* A request on its way is noted under its number, or about to be, with the lock
\* taken that handle_response() needs.
Noted ==
    /\ handler # "idle" => current.service \in DOMAIN serviceClients
    /\ handler = "storing" => /\ current.seq = Sent(current.service)
                              /\ current.seq \notin DOMAIN Pending(current.service)
    /\ \A i \in DOMAIN serviceClients : DOMAIN Pending(i) \subseteq 0 .. Sent(i)
    /\ \A m \in network :
           /\ m.service \in DOMAIN serviceClients
           /\ m.seq \in 0 .. Sent(m.service)
           /\ \/ m.seq \in DOMAIN Pending(m.service) /\ Pending(m.service)[m.seq] = m.call
              \/ Storing(m)
    /\ \A m, n \in network : m.service = n.service /\ m.seq = n.seq => m = n

\* The inductive invariant of calls.
SInv == ServiceTypes /\ OnePlace /\ Noted /\ AnswersMatch /\ NoUnknownAnswer

LEMMA CallsInitially == Init => SInv
<1> SUFFICES ASSUME Init PROVE SInv
  OBVIOUS
<1> USE DEF Init, ServicesInit
<1>1. DOMAIN services = {} /\ DOMAIN serviceClients = {}
  BY DEF EmptyMap
<1>2. NoRequest \in [service : Nat, call : Calls \cup {NoCall}, seq : Nat]
  BY DEF NoRequest
<1>3. replies \in [Calls -> Seq(Calls)] /\ \A call \in Calls : replies[call] = <<>>
  OBVIOUS
<1>4. ServiceTypes
  BY <1>1, <1>2, <1>3 DEF ServiceTypes
<1>5. OnePlace /\ Noted
  BY <1>1, <1>3 DEF OnePlace, Noted
<1>6. AnswersMatch /\ NoUnknownAnswer
  BY <1>3 DEF AnswersMatch, NoUnknownAnswer
<1> QED
  BY <1>4, <1>5, <1>6 DEF SInv
-----------------------------------------------------------------------------
(* The list of services. *)

\* There are ids to number any finite set with.
LEMMA NumberedIsBijection ==
    ASSUME serviceCount \in Nat, NEW new \in SUBSET Servers
    PROVE  /\ Cardinality(new) \in Nat
           /\ Numbered(new) \in [serviceCount + 1 .. serviceCount + Cardinality(new) -> new]
           /\ Numbered(new) \in Bijection(serviceCount + 1 .. serviceCount + Cardinality(new), new)
<1> DEFINE n == Cardinality(new)
           ids == serviceCount + 1 .. serviceCount + n
<1>1. IsFiniteSet(new)
  BY ServiceAssumption, FS_Subset
<1>2. n \in Nat /\ ExistsBijection(1 .. n, new)
  BY <1>1, FS_CardinalityType
<1>3. PICK g : g \in Bijection(1 .. n, new)
  BY <1>2 DEF ExistsBijection
<1>4. /\ g \in [1 .. n -> new]
      /\ \A a, b \in 1 .. n : g[a] = g[b] => a = b
      /\ \A t \in new : \E a \in 1 .. n : g[a] = t
  BY <1>3 DEF Bijection, Injection, Surjection, IsInjective
<1> HIDE DEF n
<1> DEFINE f == [i \in ids |-> g[i - serviceCount]]
<1>5. \A i \in ids : i - serviceCount \in 1 .. n
  BY <1>2
<1>6. \A a \in 1 .. n : a + serviceCount \in ids /\ f[a + serviceCount] = g[a]
  BY <1>2, <1>5
<1>7. f \in [ids -> new]
  BY <1>4, <1>5
<1>8. \A i, j \in ids : f[i] = f[j] => i = j
  BY <1>2, <1>4, <1>5
<1>9. ASSUME NEW t \in new PROVE \E i \in ids : f[i] = t
  <2>1. PICK a \in 1 .. n : g[a] = t
    BY <1>4
  <2>2. a + serviceCount \in ids /\ f[a + serviceCount] = t
    BY <1>6, <2>1
  <2> HIDE DEF f
  <2> QED
    BY <2>2
<1>10. f \in Bijection(ids, new)
  BY <1>7, <1>8, <1>9, Fun_IsBij
<1>11. Numbered(new) \in Bijection(ids, new)
  BY <1>10 DEF Numbered, n
<1>12. Numbered(new) \in [ids -> new]
  BY <1>11 DEF Bijection, Injection
<1> QED
  BY <1>2, <1>11, <1>12 DEF n

LEMMA UpdateServicesKeeps ==
    ASSUME SInv, UpdateServices
    PROVE  SInv'
<1> DEFINE new == NewServices(foundServices)
           old == Erase(services, Withdrawn(foundServices))
           serviceOf == Numbered(new)
<1>1. /\ services' = [i \in DOMAIN old \cup DOMAIN serviceOf |->
                         IF i \in DOMAIN old THEN old[i] ELSE serviceOf[i]]
      /\ serviceCount' = serviceCount + Cardinality(new)
      /\ UNCHANGED <<serviceClients, handler, current, network, made, replies, unknown>>
      /\ foundServices' = {} /\ UNCHANGED servers
  BY DEF UpdateServices, UpdateAdvertisedServices, graphVars
<1>2. new \in SUBSET Servers
  BY DEF NewServices, SInv, ServiceTypes
<1>3. /\ Cardinality(new) \in Nat
      /\ serviceOf \in [serviceCount + 1 .. serviceCount + Cardinality(new) -> new]
  BY <1>2, NumberedIsBijection DEF SInv, ServiceTypes
<1>4. DOMAIN old \subseteq DOMAIN services /\ \A i \in DOMAIN old : old[i] = services[i]
  BY DEF Erase
<1> HIDE DEF new, old, serviceOf
<1>5. \A i \in DOMAIN services' : services'[i] \in Servers
  BY <1>1, <1>2, <1>3, <1>4 DEF SInv, ServiceTypes
<1>6. serviceCount' \in Nat /\ DOMAIN services' \subseteq 1 .. serviceCount'
  <2>1. DOMAIN old \subseteq 1 .. serviceCount /\ serviceCount \in Nat
    BY <1>4 DEF SInv, ServiceTypes
  <2>2. DOMAIN services' = DOMAIN old \cup serviceCount + 1 .. serviceCount + Cardinality(new)
    BY <1>1, <1>3
  <2> QED
    BY <1>1, <1>3, <2>1, <2>2
<1>7. ServiceTypes'
  BY <1>1, <1>5, <1>6 DEF SInv, ServiceTypes
<1>8. OnePlace' /\ Noted' /\ AnswersMatch' /\ NoUnknownAnswer'
  BY <1>1 DEF SInv, OnePlace, Noted, Storing, Pending, Sent, AnswersMatch, NoUnknownAnswer
<1> QED
  BY <1>7, <1>8 DEF SInv
-----------------------------------------------------------------------------
(* A call on its way through the handler. *)

\* What an outcome makes of the replies.
LEMMA ReplyFacts ==
    ASSUME SInv, NEW call \in Calls, replies[call] = <<>>, Reply(call, call)
    PROVE  /\ replies' \in [Calls -> Seq(Calls)]
           /\ replies'[call] = <<call>>
           /\ \A other \in Calls : other # call => replies'[other] = replies[other]
           /\ AnswersMatch'
<1>1. replies \in [Calls -> Seq(Calls)]
  BY DEF SInv, ServiceTypes
<1>2. replies'[call] = Append(replies[call], call) /\ DOMAIN replies' = Calls
      /\ \A other \in Calls : other # call => replies'[other] = replies[other]
  BY <1>1 DEF Reply
<1>3. Append(replies[call], call) = <<call>>
  OBVIOUS
<1>4. <<call>> \in Seq(Calls)
  OBVIOUS
<1>5. replies' \in [Calls -> Seq(Calls)]
  BY <1>1, <1>2, <1>3, <1>4 DEF Reply
<1> QED
  BY <1>2, <1>3, <1>5 DEF SInv, AnswersMatch

\* A call that is given up leaves the handler, with the tables as they are.
LEMMA RefuseKeeps ==
    ASSUME SInv, NEW call \in Calls, Refuse(call), replies[call] = <<>>,
           handler # "storing",
           \A i \in DOMAIN serviceClients : \A s \in DOMAIN Pending(i) : Pending(i)[s] # call,
           made' = made \cup {call},
           UNCHANGED <<services, serviceCount, serviceClients, network, unknown>>,
           UNCHANGED <<servers, foundServices>>
    PROVE  SInv'
<1>1. Reply(call, call) /\ handler' = "idle" /\ current' = NoRequest
  BY DEF Refuse
<1>2. /\ replies' \in [Calls -> Seq(Calls)]
      /\ \A other \in Calls : other # call => replies'[other] = replies[other]
      /\ AnswersMatch'
  BY <1>1, ReplyFacts
<1>3. NoRequest \in [service : Nat, call : Calls \cup {NoCall}, seq : Nat]
  BY DEF NoRequest
<1>4. ServiceTypes'
  BY <1>1, <1>2, <1>3 DEF SInv, ServiceTypes
<1>5. OnePlace'
  BY <1>1, <1>2 DEF SInv, OnePlace, Pending, ServiceTypes
<1>6. Noted'
  BY <1>1 DEF SInv, Noted, Storing, Pending, Sent
<1> QED
  BY <1>2, <1>4, <1>5, <1>6 DEF SInv, NoUnknownAnswer

LEMMA ServiceRequestKeeps ==
    ASSUME SInv, NEW call \in Calls, NEW i \in 1 .. serviceCount, ServiceRequest(call, i),
           UNCHANGED <<servers, foundServices>>
    PROVE  SInv'
<1>1. /\ handler = "idle" /\ call \notin made /\ made' = made \cup {call}
      /\ UNCHANGED <<services, serviceCount, network, unknown>>
  BY DEF ServiceRequest
<1>2. replies[call] = <<>>
      /\ \A k \in DOMAIN serviceClients : \A s \in DOMAIN Pending(k) : Pending(k)[s] # call
  BY <1>1 DEF SInv, OnePlace
<1>3. CASE Refuse(call) /\ UNCHANGED serviceClients
  BY <1>1, <1>2, <1>3, RefuseKeeps
<1>4. CASE /\ i \in DOMAIN services
           /\ serviceClients' = Emplace(serviceClients, i, NewClient(services[i]))
           /\ handler' = "waiting"
           /\ current' = [service |-> i, call |-> call, seq |-> 0]
           /\ UNCHANGED replies
  <2> DEFINE fresh == NewClient(services[i])
  <2>1. fresh \in ClientRecords /\ DOMAIN fresh.pending = {} /\ fresh.sent = 0
    <3>1. services[i].name \in STRING
      BY <1>4, ServiceAssumption DEF SInv, ServiceTypes
    <3>2. EmptyMap \in [{} -> Calls] /\ DOMAIN EmptyMap = {}
      BY DEF EmptyMap
    <3>3. EmptyMap \in UNION {[S -> Calls] : S \in SUBSET Nat}
      BY <3>2
    <3> HIDE DEF EmptyMap
    <3> QED
      BY <3>1, <3>2, <3>3 DEF NewClient, ClientRecords
  <2> HIDE DEF fresh
  <2>2. /\ DOMAIN serviceClients' = DOMAIN serviceClients \cup {i}
        /\ \A k \in DOMAIN serviceClients : serviceClients'[k] = serviceClients[k]
        /\ i \notin DOMAIN serviceClients => serviceClients'[i] = fresh
    BY <1>4 DEF Emplace, fresh
  <2>3. i \in Nat
    BY DEF SInv, ServiceTypes
  <2>4. current' \in [service : Nat, call : Calls \cup {NoCall}, seq : Nat]
    BY <1>4, <2>3
  <2>5. ServiceTypes'
    BY <1>1, <1>4, <2>1, <2>2, <2>3, <2>4 DEF SInv, ServiceTypes
  <2>6. /\ \A k \in DOMAIN serviceClients : Pending(k)' = Pending(k) /\ Sent(k)' = Sent(k)
        /\ i \notin DOMAIN serviceClients => DOMAIN Pending(i)' = {}
    BY <2>1, <2>2 DEF Pending, Sent
  <2>7. current'.call = call /\ current'.service = i
    BY <1>4
  <2>8. OnePlace'
    <3>1. \A other \in Calls \ made' : replies'[other] = <<>>
      BY <1>1, <1>4 DEF SInv, OnePlace
    <3>2. call \in made' /\ replies'[call] = <<>>
      BY <1>1, <1>2, <1>4
    <3>3. \A k \in DOMAIN serviceClients' : \A s \in DOMAIN Pending(k)' :
             k \in DOMAIN serviceClients /\ s \in DOMAIN Pending(k) /\ Pending(k)'[s] = Pending(k)[s]
      BY <2>2, <2>6
    <3>4. \A k \in DOMAIN serviceClients' : \A s \in DOMAIN Pending(k)' :
             /\ Pending(k)'[s] \in made' /\ replies'[Pending(k)'[s]] = <<>>
             /\ Pending(k)'[s] # call
      BY <1>1, <1>2, <1>4, <3>3 DEF SInv, OnePlace
    <3>5. \A k, l \in DOMAIN serviceClients' :
             \A s \in DOMAIN Pending(k)', t \in DOMAIN Pending(l)' :
                 Pending(k)'[s] = Pending(l)'[t] => k = l /\ s = t
      BY <3>3 DEF SInv, OnePlace
    <3> QED
      BY <2>7, <3>1, <3>2, <3>4, <3>5 DEF OnePlace
  <2>9. Noted'
    <3>1. \A k \in DOMAIN serviceClients' : DOMAIN Pending(k)' \subseteq 0 .. Sent(k)'
      BY <2>2, <2>6 DEF SInv, Noted
    <3>2. \A m \in network' :
             /\ m.service \in DOMAIN serviceClients
             /\ m.seq \in 0 .. Sent(m.service)
             /\ m.seq \in DOMAIN Pending(m.service) /\ Pending(m.service)[m.seq] = m.call
      BY <1>1 DEF SInv, Noted, Storing
    <3>3. \A m \in network' :
             /\ m.service \in DOMAIN serviceClients'
             /\ m.seq \in 0 .. Sent(m.service)'
             /\ m.seq \in DOMAIN Pending(m.service)' /\ Pending(m.service)'[m.seq] = m.call
      BY <2>2, <2>6, <3>2
    <3>4. \A m, n \in network' : m.service = n.service /\ m.seq = n.seq => m = n
      BY <1>1 DEF SInv, Noted
    <3> QED
      BY <1>4, <2>2, <2>7, <3>1, <3>3, <3>4 DEF Noted
  <2> QED
    BY <1>1, <1>4, <2>5, <2>8, <2>9 DEF SInv, AnswersMatch, NoUnknownAnswer
<1> QED
  BY <1>3, <1>4 DEF ServiceRequest

\* The call in the handler is one, and has no outcome yet.
LEMMA CurrentCall ==
    ASSUME SInv, handler # "idle"
    PROVE  /\ current.call \in Calls /\ replies[current.call] = <<>>
           /\ current.call \in made
           /\ current.service \in DOMAIN serviceClients
           /\ \A i \in DOMAIN serviceClients : \A s \in DOMAIN Pending(i) :
                  Pending(i)[s] # current.call
BY DEF SInv, ServiceTypes, OnePlace, Noted

LEMMA WaitForServiceKeeps ==
    ASSUME SInv, WaitForService, UNCHANGED <<servers, foundServices>>
    PROVE  SInv'
<1>1. handler = "waiting"
      /\ UNCHANGED <<services, serviceCount, serviceClients, network, made, unknown>>
  BY DEF WaitForService
<1>2. CASE handler' = "sending" /\ UNCHANGED <<current, replies>>
  <2>1. ServiceTypes'
    BY <1>1, <1>2 DEF SInv, ServiceTypes
  <2>2. OnePlace' /\ Noted'
    BY <1>1, <1>2 DEF SInv, OnePlace, Noted, Storing, Pending, Sent
  <2> QED
    BY <1>1, <1>2, <2>1, <2>2 DEF SInv, AnswersMatch, NoUnknownAnswer
<1>3. CASE Refuse(current.call)
  <2>1. made' = made \cup {current.call}
    BY <1>1, CurrentCall
  <2> QED
    BY <1>1, <1>3, <2>1, CurrentCall, RefuseKeeps
<1> QED
  BY <1>2, <1>3 DEF WaitForService

\* The record of a client with one field replaced.
LEMMA SentReplaced ==
    ASSUME NEW r \in ClientRecords, NEW n \in Nat
    PROVE  /\ [r EXCEPT !.sent = n] \in ClientRecords
           /\ [r EXCEPT !.sent = n].sent = n
           /\ [r EXCEPT !.sent = n].pending = r.pending
<1> DEFINE P == UNION {[S -> Calls] : S \in SUBSET Nat}
<1>1. r \in [name : STRING, sent : Nat, pending : P]
  BY DEF ClientRecords
<1> HIDE DEF P
<1> QED
  BY <1>1 DEF ClientRecords, P

LEMMA PendingReplaced ==
    ASSUME NEW r \in ClientRecords, NEW S \in SUBSET Nat, NEW p \in [S -> Calls]
    PROVE  /\ [r EXCEPT !.pending = p] \in ClientRecords
           /\ [r EXCEPT !.pending = p].pending = p
           /\ [r EXCEPT !.pending = p].sent = r.sent
<1> DEFINE P == UNION {[T -> Calls] : T \in SUBSET Nat}
<1>1. r \in [name : STRING, sent : Nat, pending : P] /\ p \in P
  BY DEF ClientRecords
<1> HIDE DEF P
<1>2. /\ [r EXCEPT !.pending = p] \in [name : STRING, sent : Nat, pending : P]
      /\ [r EXCEPT !.pending = p].pending = p
      /\ [r EXCEPT !.pending = p].sent = r.sent
  BY <1>1
<1> QED
  BY <1>2 DEF ClientRecords, P

\* The number of the request is new, so it is on its way alone under it.
LEMMA SendRequestKeeps ==
    ASSUME SInv, SendRequest, UNCHANGED <<servers, foundServices>>
    PROVE  SInv'
<1>1. handler = "sending" /\ UNCHANGED <<services, serviceCount, made, unknown>>
  BY DEF SendRequest
<1>0. PICK i, call, seq : i = current.service /\ call = current.call /\ seq = Sent(i) + 1
  OBVIOUS
<1> DEFINE m == [service |-> i, seq |-> seq, call |-> call, answered |-> FALSE]
<1>2. CASE Refuse(call) /\ UNCHANGED <<serviceClients, network>>
  <2>1. made' = made \cup {call}
    BY <1>0, <1>1, CurrentCall
  <2> QED
    BY <1>0, <1>1, <1>2, <2>1, CurrentCall, RefuseKeeps
<1>3. CASE /\ serviceClients' = [serviceClients EXCEPT ![i].sent = seq]
           /\ network' = network \cup {m}
           /\ handler' = "storing"
           /\ current' = [current EXCEPT !.seq = seq]
           /\ UNCHANGED replies
  <2>1. i \in DOMAIN serviceClients /\ serviceClients[i] \in ClientRecords
        /\ i \in Nat /\ call \in Calls
    BY <1>0, <1>1, CurrentCall DEF SInv, ServiceTypes
  <2>2. Sent(i) \in Nat /\ seq \in Nat
    BY <1>0, <2>1 DEF ClientRecords, Sent
  <2>3. current' \in [service : Nat, call : Calls \cup {NoCall}, seq : Nat]
        /\ current'.service = i /\ current'.call = call /\ current'.seq = seq
    BY <1>0, <1>3, <2>2 DEF SInv, ServiceTypes
  <2>4. m \in [service : Nat, seq : Nat, call : Calls, answered : BOOLEAN]
        /\ m.service = i /\ m.seq = seq /\ m.call = call
    BY <2>1, <2>2
  <2> HIDE DEF m
  <2>5. /\ DOMAIN serviceClients' = DOMAIN serviceClients
        /\ \A k \in DOMAIN serviceClients : k # i => serviceClients'[k] = serviceClients[k]
        /\ serviceClients'[i] = [serviceClients[i] EXCEPT !.sent = seq]
    BY <1>3, <2>1
  <2>6. PICK r \in ClientRecords : r = serviceClients[i]
    BY <2>1
  <2>7. serviceClients'[i] \in ClientRecords /\ serviceClients'[i].sent = seq
        /\ serviceClients'[i].pending = serviceClients[i].pending
    BY <2>2, <2>5, <2>6, SentReplaced
  <2>8. /\ \A k \in DOMAIN serviceClients : Pending(k)' = Pending(k)
        /\ \A k \in DOMAIN serviceClients : k # i => Sent(k)' = Sent(k)
        /\ Sent(i)' = seq
    BY <2>5, <2>7 DEF Pending, Sent
  <2>9. ServiceTypes'
    BY <1>1, <1>3, <2>3, <2>4, <2>5, <2>7 DEF SInv, ServiceTypes
  <2>10. OnePlace'
    BY <1>0, <1>1, <1>3, <2>3, <2>5, <2>8 DEF SInv, OnePlace
  <2>11. \A k \in DOMAIN serviceClients : 0 .. Sent(k) \subseteq 0 .. Sent(k)'
    <3>1. \A k \in DOMAIN serviceClients : Sent(k) \in Nat
      BY DEF SInv, ServiceTypes, ClientRecords, Sent
    <3>2. 0 .. Sent(i) \subseteq 0 .. seq
      BY <1>0, <2>2
    <3> QED
      BY <2>8, <3>1, <3>2
  <2>12. seq \notin 0 .. Sent(i) /\ seq \in 0 .. seq
    BY <1>0, <2>2
  <2>13. Noted'
    <3>1. seq = Sent(i)' /\ seq \notin DOMAIN Pending(i)'
      BY <2>1, <2>3, <2>8, <2>12 DEF SInv, Noted
    <3>2. \A k \in DOMAIN serviceClients' : DOMAIN Pending(k)' \subseteq 0 .. Sent(k)'
      BY <2>5, <2>8, <2>11 DEF SInv, Noted
    <3>3. \A n \in network :
             /\ n.service \in DOMAIN serviceClients /\ n.seq \in 0 .. Sent(n.service)
             /\ n.seq \in DOMAIN Pending(n.service) /\ Pending(n.service)[n.seq] = n.call
      BY <1>1 DEF SInv, Noted, Storing
    <3>4. \A n \in network' :
             /\ n.service \in DOMAIN serviceClients'
             /\ n.seq \in 0 .. Sent(n.service)'
             /\ \/ n.seq \in DOMAIN Pending(n.service)' /\ Pending(n.service)'[n.seq] = n.call
                \/ Storing(n)'
      <4> SUFFICES ASSUME NEW n \in network'
                   PROVE  /\ n.service \in DOMAIN serviceClients'
                          /\ n.seq \in 0 .. Sent(n.service)'
                          /\ \/ n.seq \in DOMAIN Pending(n.service)' /\ Pending(n.service)'[n.seq] = n.call
                             \/ Storing(n)'
        OBVIOUS
      <4>1. CASE n = m
        BY <1>3, <2>1, <2>3, <2>4, <2>5, <2>8, <2>12, <4>1 DEF Storing
      <4>2. CASE n \in network
        BY <2>5, <2>8, <2>11, <3>3, <4>2
      <4> QED
        BY <1>3, <4>1, <4>2
    <3>5. \A n, o \in network' : n.service = o.service /\ n.seq = o.seq => n = o
      <4>1. \A n \in network : n.service = i => n.seq # seq
        BY <2>12, <3>3
      <4> QED
        BY <1>3, <2>4, <4>1 DEF SInv, Noted
    <3>6. current'.service \in DOMAIN serviceClients'
      BY <2>1, <2>3, <2>5
    <3> QED
      BY <2>3, <3>1, <3>2, <3>4, <3>5, <3>6 DEF Noted
  <2> QED
    BY <1>1, <1>3, <2>9, <2>10, <2>13 DEF SInv, AnswersMatch, NoUnknownAnswer
<1> QED
  BY <1>0, <1>2, <1>3 DEF SendRequest, Sent

\* The call moves from the handler into the table.
LEMMA StoreRequestKeeps ==
    ASSUME SInv, StoreRequest, UNCHANGED <<servers, foundServices>>
    PROVE  SInv'
<1>0. PICK i, call, seq : i = current.service /\ call = current.call /\ seq = current.seq
  OBVIOUS
<1>1. /\ handler = "storing" /\ handler' = "idle" /\ current' = NoRequest
      /\ serviceClients' = [serviceClients EXCEPT ![i].pending = Assign(@, seq, call)]
      /\ UNCHANGED <<services, serviceCount, network, made, replies, unknown>>
  BY <1>0 DEF StoreRequest
<1>2. /\ i \in DOMAIN serviceClients /\ call \in Calls /\ call \in made /\ replies[call] = <<>>
      /\ \A k \in DOMAIN serviceClients : \A s \in DOMAIN Pending(k) : Pending(k)[s] # call
  BY <1>0, <1>1, CurrentCall
<1>3. seq \in Nat /\ seq = Sent(i) /\ seq \notin DOMAIN Pending(i)
  BY <1>0, <1>1 DEF SInv, ServiceTypes, Noted
<1>4. PICK r \in ClientRecords : r = serviceClients[i]
  BY <1>2 DEF SInv, ServiceTypes
<1>5. PICK S \in SUBSET Nat : r.pending \in [S -> Calls]
  BY DEF ClientRecords
<1> DEFINE p == Assign(r.pending, seq, call)
<1>6. p \in [S \cup {seq} -> Calls]
  BY <1>2, <1>5 DEF Assign
<1>7. /\ DOMAIN p = DOMAIN Pending(i) \cup {seq} /\ p[seq] = call
      /\ \A s \in DOMAIN Pending(i) : p[s] = Pending(i)[s]
  BY <1>3, <1>4 DEF Assign, Pending
<1> HIDE DEF p
<1>8. /\ DOMAIN serviceClients' = DOMAIN serviceClients
      /\ \A k \in DOMAIN serviceClients : k # i => serviceClients'[k] = serviceClients[k]
      /\ serviceClients'[i] = [r EXCEPT !.pending = p]
  BY <1>1, <1>2, <1>4 DEF p
<1>9. S \cup {seq} \in SUBSET Nat
  BY <1>3
<1>10. /\ serviceClients'[i] \in ClientRecords /\ serviceClients'[i].pending = p
       /\ serviceClients'[i].sent = serviceClients[i].sent
  BY <1>4, <1>6, <1>8, <1>9, PendingReplaced
<1>11. /\ \A k \in DOMAIN serviceClients : k # i => Pending(k)' = Pending(k)
       /\ \A k \in DOMAIN serviceClients : Sent(k)' = Sent(k)
       /\ Pending(i)' = p
  BY <1>8, <1>10 DEF Pending, Sent
<1>12. ServiceTypes'
  <2>1. NoRequest \in [service : Nat, call : Calls \cup {NoCall}, seq : Nat]
    BY DEF NoRequest
  <2> QED
    BY <1>1, <1>8, <1>10, <2>1 DEF SInv, ServiceTypes
<1>13. OnePlace'
  <2>1. \A k \in DOMAIN serviceClients' : \A s \in DOMAIN Pending(k)' :
          \/ k = i /\ s = seq /\ Pending(k)'[s] = call
          \/ s \in DOMAIN Pending(k) /\ Pending(k)'[s] = Pending(k)[s]
    BY <1>7, <1>8, <1>11
  <2>2. \A k \in DOMAIN serviceClients' : \A s \in DOMAIN Pending(k)' :
          Pending(k)'[s] \in made /\ replies[Pending(k)'[s]] = <<>>
    BY <1>2, <1>8, <2>1 DEF SInv, OnePlace
  <2>3. \A k, l \in DOMAIN serviceClients' :
          \A s \in DOMAIN Pending(k)', t \in DOMAIN Pending(l)' :
              Pending(k)'[s] = Pending(l)'[t] => k = l /\ s = t
    BY <1>2, <1>8, <2>1 DEF SInv, OnePlace
  <2> QED
    BY <1>1, <2>2, <2>3 DEF SInv, OnePlace
<1>14. Noted'
  <2>1. \A k \in DOMAIN serviceClients' : DOMAIN Pending(k)' \subseteq 0 .. Sent(k)'
    <3>1. seq \in 0 .. Sent(i)
      BY <1>3
    <3> QED
      BY <1>7, <1>8, <1>11, <3>1 DEF SInv, Noted
  <2>2. \A m \in network' :
          /\ m.service \in DOMAIN serviceClients'
          /\ m.seq \in 0 .. Sent(m.service)'
          /\ m.seq \in DOMAIN Pending(m.service)' /\ Pending(m.service)'[m.seq] = m.call
    <3> SUFFICES ASSUME NEW m \in network
                 PROVE  /\ m.service \in DOMAIN serviceClients'
                        /\ m.seq \in 0 .. Sent(m.service)'
                        /\ m.seq \in DOMAIN Pending(m.service)' /\ Pending(m.service)'[m.seq] = m.call
      BY <1>1
    <3>1. m.service \in DOMAIN serviceClients /\ m.seq \in 0 .. Sent(m.service)
      BY DEF SInv, Noted
    <3>2. CASE Storing(m)
      BY <1>0, <1>7, <1>8, <1>11, <3>1, <3>2 DEF Storing
    <3>3. CASE m.seq \in DOMAIN Pending(m.service) /\ Pending(m.service)[m.seq] = m.call
      <4>1. CASE m.service = i
        BY <1>7, <1>8, <1>11, <3>1, <3>3, <4>1
      <4>2. CASE m.service # i
        BY <1>8, <1>11, <3>1, <3>3, <4>2
      <4> QED
        BY <4>1, <4>2
    <3> QED
      BY <3>2, <3>3 DEF SInv, Noted
  <2>3. \A m, n \in network' : m.service = n.service /\ m.seq = n.seq => m = n
    BY <1>1 DEF SInv, Noted
  <2> QED
    BY <1>1, <2>1, <2>2, <2>3 DEF Noted
<1> QED
  BY <1>1, <1>12, <1>13, <1>14 DEF SInv, AnswersMatch, NoUnknownAnswer
-----------------------------------------------------------------------------
(* Answers. *)

\* An answer meets the entry of its request: the client's lock keeps it from
\* coming between the sending and the noting.
LEMMA AnswerIsNoted ==
    ASSUME SInv, NEW m \in network, PendingUnlocked(m.service)
    PROVE  m.seq \in DOMAIN Pending(m.service) /\ Pending(m.service)[m.seq] = m.call
BY DEF SInv, Noted, Storing, PendingUnlocked

\* A request that leaves the network takes nothing else with it.
LEMMA DropKeeps ==
    ASSUME SInv, NEW m \in network, network' = network \ {m},
           UNCHANGED <<services, serviceCount, serviceClients, handler, current, made, replies,
                       unknown, servers, foundServices>>
    PROVE  SInv'
<1>1. ServiceTypes'
  BY DEF SInv, ServiceTypes
<1>2. OnePlace' /\ Noted'
  BY DEF SInv, OnePlace, Noted, Storing, Pending, Sent
<1> QED
  BY <1>1, <1>2 DEF SInv, AnswersMatch, NoUnknownAnswer

LEMMA HandleResponseKeeps ==
    ASSUME SInv, NEW m, HandleResponse(m), UNCHANGED <<servers, foundServices>>
    PROVE  SInv'
<1>1. /\ m \in network /\ network' = network \ {m} /\ PendingUnlocked(m.service)
      /\ UNCHANGED <<services, serviceCount, handler, current, made>>
  BY DEF HandleResponse
<1>2. m.seq \in DOMAIN Pending(m.service) /\ Pending(m.service)[m.seq] = m.call
  BY <1>1, AnswerIsNoted
<1>3. CASE UNCHANGED <<serviceClients, replies, unknown>>
  BY <1>1, <1>3, DropKeeps
<1>4. PICK i, seq, call : i = m.service /\ seq = m.seq /\ call = m.call
  OBVIOUS
<1>5. CASE /\ serviceClients' = [serviceClients EXCEPT ![i].pending = Erase(Pending(i), {seq})]
           /\ Reply(call, call)
           /\ UNCHANGED unknown
  <2>1. i \in DOMAIN serviceClients /\ call \in Calls /\ call \in made /\ replies[call] = <<>>
        /\ (handler # "idle" => call # current.call)
    BY <1>1, <1>2, <1>4 DEF SInv, ServiceTypes, OnePlace, Noted
  <2>2. PICK r \in ClientRecords : r = serviceClients[i]
    BY <2>1 DEF SInv, ServiceTypes
  <2>3. PICK S \in SUBSET Nat : r.pending \in [S -> Calls]
    BY DEF ClientRecords
  <2> DEFINE p == Erase(r.pending, {seq})
  <2>4. p \in [S \ {seq} -> Calls]
    BY <2>3 DEF Erase
  <2>5. /\ DOMAIN p = DOMAIN Pending(i) \ {seq}
        /\ \A s \in DOMAIN p : p[s] = Pending(i)[s]
    BY <2>2 DEF Erase, Pending
  <2> HIDE DEF p
  <2>6. /\ DOMAIN serviceClients' = DOMAIN serviceClients
        /\ \A k \in DOMAIN serviceClients : k # i => serviceClients'[k] = serviceClients[k]
        /\ serviceClients'[i] = [r EXCEPT !.pending = p]
    BY <1>5, <2>1, <2>2 DEF p, Pending
  <2>7. S \ {seq} \in SUBSET Nat
    OBVIOUS
  <2>8. /\ serviceClients'[i] \in ClientRecords /\ serviceClients'[i].pending = p
        /\ serviceClients'[i].sent = serviceClients[i].sent
    BY <2>2, <2>4, <2>6, <2>7, PendingReplaced
  <2>9. /\ \A k \in DOMAIN serviceClients : k # i => Pending(k)' = Pending(k)
        /\ \A k \in DOMAIN serviceClients : Sent(k)' = Sent(k)
        /\ Pending(i)' = p
    BY <2>6, <2>8 DEF Pending, Sent
  <2>10. /\ replies' \in [Calls -> Seq(Calls)]
         /\ \A other \in Calls : other # call => replies'[other] = replies[other]
         /\ AnswersMatch'
    BY <1>5, <2>1, ReplyFacts
  <2>11. ServiceTypes'
    BY <1>1, <2>6, <2>8, <2>10 DEF SInv, ServiceTypes
  <2>12. \A k \in DOMAIN serviceClients' : \A s \in DOMAIN Pending(k)' :
           /\ k \in DOMAIN serviceClients /\ s \in DOMAIN Pending(k)
           /\ Pending(k)'[s] = Pending(k)[s]
           /\ ~ (k = i /\ s = seq)
    BY <2>5, <2>6, <2>9
  <2>13. \A k \in DOMAIN serviceClients' : \A s \in DOMAIN Pending(k)' : Pending(k)'[s] # call
    BY <1>2, <1>4, <2>1, <2>12 DEF SInv, OnePlace
  <2>14. OnePlace'
    <3>1. \A other \in Calls \ made : replies'[other] = <<>>
      BY <2>1, <2>10 DEF SInv, OnePlace
    <3>2. handler # "idle" => current.call \in made /\ replies'[current.call] = <<>>
      BY <2>1, <2>10 DEF SInv, OnePlace, ServiceTypes
    <3>3. \A k \in DOMAIN serviceClients' : \A s \in DOMAIN Pending(k)' :
            /\ Pending(k)'[s] \in made /\ replies'[Pending(k)'[s]] = <<>>
            /\ handler # "idle" => Pending(k)'[s] # current.call
      BY <2>10, <2>12, <2>13 DEF SInv, OnePlace, ServiceTypes
    <3>4. \A k, l \in DOMAIN serviceClients' :
            \A s \in DOMAIN Pending(k)', t \in DOMAIN Pending(l)' :
                Pending(k)'[s] = Pending(l)'[t] => k = l /\ s = t
      BY <2>12 DEF SInv, OnePlace
    <3> QED
      BY <1>1, <3>1, <3>2, <3>3, <3>4 DEF OnePlace
  <2>15. Noted'
    <3>1. \A k \in DOMAIN serviceClients' : DOMAIN Pending(k)' \subseteq 0 .. Sent(k)'
      BY <2>6, <2>9, <2>12 DEF SInv, Noted
    <3>2. \A n \in network' :
            /\ n.service \in DOMAIN serviceClients'
            /\ n.seq \in 0 .. Sent(n.service)'
            /\ \/ n.seq \in DOMAIN Pending(n.service)' /\ Pending(n.service)'[n.seq] = n.call
               \/ Storing(n)
      <4> SUFFICES ASSUME NEW n \in network, n # m
                   PROVE  /\ n.service \in DOMAIN serviceClients'
                          /\ n.seq \in 0 .. Sent(n.service)'
                          /\ \/ n.seq \in DOMAIN Pending(n.service)' /\ Pending(n.service)'[n.seq] = n.call
                             \/ Storing(n)
        BY <1>1
      <4>1. n.service \in DOMAIN serviceClients /\ n.seq \in 0 .. Sent(n.service)
        BY DEF SInv, Noted
      <4>2. n.service = i => n.seq # seq
        BY <1>1, <1>4 DEF SInv, Noted
      <4>3. CASE n.seq \in DOMAIN Pending(n.service) /\ Pending(n.service)[n.seq] = n.call
        <5>1. CASE n.service = i
          BY <2>5, <2>6, <2>9, <4>1, <4>2, <4>3, <5>1
        <5>2. CASE n.service # i
          BY <2>6, <2>9, <4>1, <4>3, <5>2
        <5> QED
          BY <5>1, <5>2
      <4> QED
        BY <2>6, <2>9, <4>1, <4>3 DEF SInv, Noted
    <3>3. \A n, o \in network' : n.service = o.service /\ n.seq = o.seq => n = o
      BY <1>1 DEF SInv, Noted
    <3>4. ASSUME NEW k, k = current.service, handler = "storing"
          PROVE  current.seq = Sent(k)' /\ current.seq \notin DOMAIN Pending(k)'
      <4>1. k \in DOMAIN serviceClients /\ current.seq = Sent(k)
            /\ current.seq \notin DOMAIN Pending(k)
        BY <3>4 DEF SInv, Noted
      <4> QED
        BY <2>6, <2>9, <2>12, <4>1
    <3>5. handler # "idle" => current.service \in DOMAIN serviceClients'
      BY <2>6 DEF SInv, Noted
    <3>6. \A n : Storing(n)' <=> Storing(n)
      BY <1>1 DEF Storing
    <3>7. (handler = "storing" => /\ current.seq = Sent(current.service)
                                  /\ current.seq \notin DOMAIN Pending(current.service))'
      BY <1>1, <3>4
    <3> QED
      BY <1>1, <3>1, <3>2, <3>3, <3>5, <3>6, <3>7 DEF Noted
  <2> QED
    BY <1>5, <2>10, <2>11, <2>14, <2>15 DEF SInv, NoUnknownAnswer
<1> QED
  BY <1>2, <1>3, <1>4, <1>5 DEF HandleResponse, Pending

LEMMA AnswerKeeps ==
    ASSUME SInv, NEW m, Answer(m), UNCHANGED <<servers, foundServices>>
    PROVE  SInv'
<1>1. m \in network
      /\ UNCHANGED <<services, serviceCount, serviceClients, handler, current, made, replies,
                     unknown>>
  BY DEF Answer
<1> DEFINE a == [m EXCEPT !.answered = TRUE]
<1>2. CASE network' = network \ {m}
  BY <1>1, <1>2, DropKeeps
<1>3. CASE network' = (network \ {m}) \cup {a}
  <2>1. a \in [service : Nat, seq : Nat, call : Calls, answered : BOOLEAN]
        /\ a.service = m.service /\ a.seq = m.seq /\ a.call = m.call
    BY <1>1 DEF SInv, ServiceTypes
  <2> HIDE DEF a
  <2>2. ServiceTypes'
    BY <1>1, <1>3, <2>1 DEF SInv, ServiceTypes
  <2>3. OnePlace'
    BY <1>1 DEF SInv, OnePlace, Pending
  <2>4. \A n \in network' : \E o \in network :
          /\ n.service = o.service /\ n.seq = o.seq /\ n.call = o.call
          /\ n = IF o = m THEN a ELSE o
    BY <1>1, <1>3, <2>1
  <2>5. Noted'
    BY <1>1, <2>4 DEF SInv, Noted, Storing, Pending, Sent
  <2> QED
    BY <1>1, <2>2, <2>3, <2>5 DEF SInv, AnswersMatch, NoUnknownAnswer
<1> QED
  BY <1>2, <1>3 DEF Answer
-----------------------------------------------------------------------------
(* All steps. *)

LEMMA CallsUntouched ==
    ASSUME SInv, UNCHANGED serviceVars, servers' \subseteq Servers,
           foundServices' \subseteq Servers
    PROVE  SInv'
<1>1. UNCHANGED <<services, serviceCount, serviceClients, handler, current, network, made,
                  replies, unknown>>
  BY DEF serviceVars
<1>2. ServiceTypes'
  BY <1>1 DEF SInv, ServiceTypes
<1>3. OnePlace' /\ Noted'
  BY <1>1 DEF SInv, OnePlace, Noted, Storing, Pending, Sent
<1> QED
  BY <1>1, <1>2, <1>3 DEF SInv, AnswersMatch, NoUnknownAnswer

LEMMA CallsNextKeeps == SInv /\ [Next]_vars => SInv'
<1> SUFFICES ASSUME SInv, [Next]_vars PROVE SInv'
  OBVIOUS
<1>1. servers \subseteq Servers /\ foundServices \subseteq Servers
  BY DEF SInv, ServiceTypes
<1>2. CASE UNCHANGED vars
  BY <1>1, <1>2, CallsUntouched DEF vars, graphVars, threadVars
<1>3. CASE UpdateServices
  BY <1>3, UpdateServicesKeeps
<1>4. CASE ReadServices
  BY <1>1, <1>4, CallsUntouched DEF ReadServices, graphVars
<1>5. CASE ReadTopics \/ UpdateTopics \/ UpdateConnectionGraph \/ Register
              \/ WaitForGraphChange
  <2>1. UNCHANGED serviceVars /\ UNCHANGED <<servers, foundServices>>
    BY <1>5 DEF ReadTopics, UpdateTopics, UpdateConnectionGraph, Register,
                WaitForGraphChange, graphVars
  <2> QED
    BY <1>1, <2>1, CallsUntouched
<1>6. CASE CallService
  <2>1. UNCHANGED <<servers, foundServices>>
    BY <1>6 DEF CallService, graphVars, threadVars
  <2> QED
    BY <1>6, <2>1, ServiceRequestKeeps DEF CallService
<1>7. CASE FinishCall
  <2>1. UNCHANGED <<servers, foundServices>>
    BY <1>7 DEF FinishCall, graphVars, threadVars
  <2> QED
    BY <1>7, <2>1, WaitForServiceKeeps, SendRequestKeeps, StoreRequestKeeps DEF FinishCall
<1>8. CASE Responses
  <2>1. UNCHANGED <<servers, foundServices>>
    BY <1>8 DEF Responses, graphVars, threadVars
  <2> QED
    BY <1>8, <2>1, HandleResponseKeeps, AnswerKeeps DEF Responses
<1>9. CASE GraphChange
  <2>1. servers' \subseteq Servers
    BY <1>1, <1>9 DEF GraphChange
  <2>2. UNCHANGED serviceVars /\ foundServices' = foundServices
    BY <1>9 DEF GraphChange, threadVars
  <2> QED
    BY <1>1, <2>1, <2>2, CallsUntouched
<1>10. CASE ChannelRequest \/ SubscribeConnectionGraph \/ PublicationRequest \/ FinishMessage
               \/ RosShutdown \/ Destroy \/ StopServer
  <2>1. UNCHANGED serviceVars /\ UNCHANGED <<servers, foundServices>>
    BY <1>10 DEF ChannelRequest, SubscribeConnectionGraph, PublicationRequest, FinishMessage,
                 RosShutdown, Destroy, StopServer, graphVars, threadVars
  <2> QED
    BY <1>1, <2>1, CallsUntouched
<1> QED
  BY <1>2, <1>3, <1>4, <1>5, <1>6, <1>7, <1>8, <1>9, <1>10 DEF Next, GraphThread

\* The inductive invariant of calls holds throughout.
THEOREM CallsInvariance == Spec => []SInv
<1>1. SInv /\ [Next]_vars => SInv'
  BY CallsNextKeeps
<1> QED
  BY <1>1, CallsInitially, PTL DEF Spec

\* However many calls wait for however many services, and in whatever order the
\* answers come, a call gets its own answer or error, and one at most
\* (ros2_foxglove_bridge.cpp:873-922, generic_client.cpp:164-220).
THEOREM AnswersAreMatched == Spec => []AnswersMatch
<1>1. SInv => AnswersMatch
  BY DEF SInv
<1> QED
  BY <1>1, CallsInvariance, PTL

\* No answer is there before its request is noted, although it is sent first
\* (generic_client.cpp:164-177, 205-220).
THEOREM AnswersAreKnown == Spec => []NoUnknownAnswer
<1>1. SInv => NoUnknownAnswer
  BY DEF SInv
<1> QED
  BY <1>1, CallsInvariance, PTL
-----------------------------------------------------------------------------
(* What clients publish. *)

LEMMA AdvertiseKeeps ==
    ASSUME JsonHasParser, NEW c, NEW id, NEW a, ClientAdvertise(c, id, a)
    PROVE  JsonHasParser'
<1> DEFINE entered == Emplace(publications, c, EmptyMap)
           own     == Emplace(entered[c], id, a)
           opened  == [entered EXCEPT ![c] = own]
<1>1. /\ DOMAIN entered = DOMAIN publications \cup {c}
      /\ \A d \in DOMAIN publications : entered[d] = publications[d]
      /\ c \notin DOMAIN publications => DOMAIN entered[c] = {}
  BY DEF Emplace, EmptyMap
<1>2. DOMAIN own = DOMAIN entered[c] \cup {id}
      /\ \A k \in DOMAIN own : own[k] = IF k \in DOMAIN entered[c] THEN entered[c][k] ELSE a
  BY DEF Emplace
<1>3. UNCHANGED messages
  BY DEF ClientAdvertise
<1>4. \/ publications' = entered /\ parsers' = parsers
      \/ /\ parsers' = parsers \cup (IF NeedsParser(a) THEN {a.schemaName} ELSE {})
         /\ publications' \in {entered, opened}
  BY DEF ClientAdvertise
<1> HIDE DEF entered, own
<1>5. parsers \subseteq parsers'
  BY <1>4
<1>6. ASSUME NEW d \in DOMAIN entered, NEW k \in DOMAIN entered[d]
      PROVE  entered[d][k].encoding = "json" => entered[d][k].schemaName \in parsers'
  BY <1>1, <1>5 DEF JsonHasParser
<1>7. \A d \in DOMAIN messages : messages[d].schemaName \in parsers'
  BY <1>5 DEF JsonHasParser
<1>8. CASE publications' = entered
  BY <1>3, <1>6, <1>7, <1>8 DEF JsonHasParser
<1>9. CASE publications' = opened
           /\ parsers' = parsers \cup (IF NeedsParser(a) THEN {a.schemaName} ELSE {})
  <2>1. a.encoding = "json" => a.schemaName \in parsers'
    BY <1>9 DEF NeedsParser
  <2>2. \A d \in DOMAIN opened : opened[d] = IF d = c THEN own ELSE entered[d]
    OBVIOUS
  <2>3. ASSUME NEW d \in DOMAIN opened, NEW k \in DOMAIN opened[d]
        PROVE  opened[d][k].encoding = "json" => opened[d][k].schemaName \in parsers'
    <3>1. CASE d # c
      BY <1>6, <2>2, <3>1
    <3>2. CASE d = c
      <4>1. opened[d][k] = own[k] /\ k \in DOMAIN own
        BY <2>2, <3>2
      <4>2. c \in DOMAIN entered
        BY <1>1
      <4> QED
        BY <1>2, <1>6, <2>1, <4>1, <4>2
    <3> QED
      BY <3>1, <3>2
  <2> HIDE DEF opened
  <2> QED
    BY <1>3, <1>7, <1>9, <2>3 DEF JsonHasParser
<1> QED
  BY <1>4, <1>8, <1>9

LEMMA PublicationKeeps ==
    ASSUME JsonHasParser, [Next]_vars
    PROVE  JsonHasParser'
<1>1. CASE UNCHANGED publicationVars
  BY <1>1 DEF publicationVars, JsonHasParser
<1>2. CASE PublicationRequest
  <2>1. PICK c \in Senders, id \in ClientIds :
          \/ \E a \in Adverts : ClientAdvertise(c, id, a)
          \/ ClientUnadvertise(c, id)
          \/ ClientMessage(c, id)
    BY <1>2 DEF PublicationRequest
  <2>2. CASE ClientUnadvertise(c, id)
    <3> DEFINE left == Erase(publications[c], {id})
    <3>1. /\ DOMAIN left \subseteq DOMAIN publications[c]
          /\ \A k \in DOMAIN left : left[k] = publications[c][k]
      BY DEF Erase
    <3> HIDE DEF left
    <3>2. \A d \in DOMAIN publications' :
            /\ d \in DOMAIN publications
            /\ publications'[d] = publications[d] \/ (d = c /\ publications'[d] = left)
      BY <2>2 DEF ClientUnadvertise, Erase, left
    <3>3. UNCHANGED <<parsers, messages>>
      BY <2>2 DEF ClientUnadvertise
    <3>4. ASSUME NEW d \in DOMAIN publications', NEW k \in DOMAIN publications'[d]
          PROVE  /\ d \in DOMAIN publications /\ k \in DOMAIN publications[d]
                 /\ publications'[d][k] = publications[d][k]
      <4>1. CASE publications'[d] = publications[d]
        BY <3>2, <4>1
      <4>2. CASE d = c /\ publications'[d] = left
        BY <3>1, <3>2, <4>2
      <4> QED
        BY <3>2, <4>1, <4>2
    <3> QED
      BY <3>3, <3>4 DEF JsonHasParser
  <2>3. CASE ClientMessage(c, id)
    <3> DEFINE a == publications[c][id]
    <3>1. a.schemaName \in parsers /\ UNCHANGED <<publications, parsers>>
      BY <2>3 DEF ClientMessage, JsonHasParser
    <3>2. messages' = Emplace(messages, c, a)
      BY <2>3 DEF ClientMessage
    <3> HIDE DEF a
    <3>3. \A d \in DOMAIN messages' :
            messages'[d] = a \/ (d \in DOMAIN messages /\ messages'[d] = messages[d])
      BY <3>2 DEF Emplace
    <3> QED
      BY <3>1, <3>3 DEF JsonHasParser
  <2> QED
    BY <2>1, <2>2, <2>3, AdvertiseKeeps
<1>3. CASE FinishMessage
  BY <1>3 DEF FinishMessage, PublishJson, Erase, JsonHasParser
<1>4. CASE GraphThread \/ ChannelRequest \/ SubscribeConnectionGraph \/ CallService \/ FinishCall
              \/ Responses \/ GraphChange \/ RosShutdown \/ Destroy \/ StopServer
  BY <1>1, <1>4 DEF GraphThread, ReadTopics, UpdateTopics, ReadServices, UpdateServices,
     UpdateConnectionGraph, Register, WaitForGraphChange, ChannelRequest,
     SubscribeConnectionGraph, CallService, FinishCall, Responses, GraphChange, RosShutdown,
     Destroy, StopServer
<1> QED
  BY <1>1, <1>2, <1>3, <1>4 DEF Next, vars

\* A JSON message finds its parser whoever advertised its schema, however the
\* advertisement then failed and whatever is unadvertised meanwhile
\* (ros2_foxglove_bridge.cpp:594-803).
THEOREM JsonIsParsed == Spec => []JsonHasParser
<1>1. Init => JsonHasParser
  BY DEF Init, PublicationsInit, EmptyMap, JsonHasParser
<1>2. JsonHasParser /\ [Next]_vars => JsonHasParser'
  BY PublicationKeeps
<1> QED
  BY <1>1, <1>2, PTL DEF Spec
-----------------------------------------------------------------------------
(* No change of the graph is lost. *)

\* The channels are those of the topics of the graph, as far as they are listed and
\* can be described.
TopicsInSync ==
    Offered = {t \in RosTopics : t.name \in Listed /\ FullText[t.type].error # "malformed"}

\* Each service of the graph that is listed and can be described is advertised
\* under its name, and no name without a server is.
ServicesInSync ==
    /\ \A s \in servers : s.name \in ListedServices /\ Describable(s)
           => \E i \in DOMAIN services : services[i].name = s.name
    /\ \A i \in DOMAIN services : \E s \in servers : s.name = services[i].name

\* When the graph thread has brought the channels up to date and the event is not
\* set, they are what the graph has, although the graph was read before the lock
\* was taken; and they stay so while the event is not set
\* (ros2_foxglove_bridge.cpp:151-177, 179-283).
NoTopicIsMissed ==
    [][registered /\ ok /\ ~ graphEvent'
          /\ (TopicsInSync \/ (thread = "topics" /\ thread' # "topics"))
       => TopicsInSync']_vars

\* The same for the services, although the thread may have waited for the mutex of
\* a call since it read the graph (ros2_foxglove_bridge.cpp:285-379, 898).
NoServiceIsMissed ==
    [][registered /\ ~ graphEvent'
          /\ (ServicesInSync \/ (thread = "services" /\ thread' # "services"))
       => ServicesInSync']_vars

\* The inductive invariant: what the thread has read and not yet used is still what
\* the graph has, unless the event is set; and what is advertised can be described.
Fresh ==
    /\ \A i \in DOMAIN advertised : FullText[advertised[i].topic.type].error # "malformed"
    /\ thread = "topics" /\ registered /\ ~ graphEvent => foundTopics = RosTopics
    /\ thread = "services" /\ registered /\ ~ graphEvent => foundServices = servers

\* What the graph has depends on publishers, servers and the bridge's subscriptions.
LEMMA GraphUnread ==
    ASSUME UNCHANGED <<publishers, servers, channelVars>>
    PROVE  Graph' = Graph
BY DEF Graph, OwnTopics, channelVars

LEMMA NoticedFacts ==
    ASSUME Noticed, registered, ~ graphEvent'
    PROVE  ~ graphEvent /\ UNCHANGED <<publishers, servers, RosTopics>>
<1>1. ~ graphEvent /\ Graph' = Graph
  BY Zenon DEF Noticed
<1> QED
  BY <1>1 DEF Graph, RosTopics

\* Once the thread has its event, a step that leaves it not set has not changed the
\* graph; and if it was set, the thread is about to read the graph.
LEMMA GraphIsWatched ==
    ASSUME [Next]_vars, registered, ~ graphEvent'
    PROVE  /\ UNCHANGED <<publishers, servers, RosTopics>>
           /\ graphEvent => thread = "loop" /\ thread' = "topics.read"
<1>1. CASE UNCHANGED <<publishers, servers, channelVars, graphEvent>>
  BY <1>1, GraphUnread DEF Graph, RosTopics
<1>2. CASE UNCHANGED vars
  BY <1>1, <1>2 DEF vars, graphVars
<1>3. CASE UpdateTopics \/ ChannelRequest \/ GraphChange
  BY <1>3, NoticedFacts DEF UpdateTopics, ChannelRequest, GraphChange
<1>4. CASE WaitForGraphChange
  <2>1. UNCHANGED <<publishers, servers, channelVars>>
    BY <1>4 DEF WaitForGraphChange, graphVars
  <2>2. graphEvent => thread = "loop" /\ thread' = "topics.read"
    BY <1>4, Zenon DEF WaitForGraphChange
  <2> QED
    BY <2>1, <2>2, GraphUnread DEF Graph, RosTopics
<1>5. CASE ReadTopics \/ ReadServices \/ UpdateServices \/ UpdateConnectionGraph \/ Register
  BY <1>1, <1>5 DEF ReadTopics, ReadServices, UpdateServices, UpdateConnectionGraph, Register,
                    graphVars
<1>6. CASE SubscribeConnectionGraph \/ PublicationRequest \/ FinishMessage \/ CallService
              \/ FinishCall \/ Responses \/ RosShutdown \/ Destroy \/ StopServer
  BY <1>1, <1>6 DEF SubscribeConnectionGraph, PublicationRequest, FinishMessage, CallService,
                    FinishCall, Responses, RosShutdown, Destroy, StopServer, graphVars
<1> QED
  BY <1>2, <1>3, <1>4, <1>5, <1>6 DEF Next, GraphThread

\* updateAdvertisedTopics() leaves the channels of the topics that were found.
LEMMA TopicsAfter ==
    ASSUME CInv, Fresh, NEW found, UpdateAdvertisedTopics(found)
    PROVE  Offered' = {t \in found : t.name \in Listed /\ FullText[t.type].error # "malformed"}
<1> DEFINE latest == {t \in found : t.name \in Listed}
           gone   == Vanished(latest)
           new    == NewTopics(latest)
           ids    == channelCount + 1 .. channelCount + Cardinality(new)
           old    == Erase(advertised, gone)
<1>1. PICK topicOf \in Bijection(ids, new) :
        advertised' = [i \in DOMAIN old \cup DOMAIN topicOf |->
                         IF i \in DOMAIN old THEN old[i] ELSE Channel(topicOf[i])]
  BY DEF UpdateAdvertisedTopics
<1>2. /\ DOMAIN old = DOMAIN advertised \ gone
      /\ \A i \in DOMAIN old : old[i] = advertised[i]
  BY DEF Erase
<1>3. \A i \in DOMAIN old :
        /\ advertised[i].topic \in latest
        /\ FullText[advertised[i].topic.type].error # "malformed"
  BY <1>2 DEF Vanished, Fresh
<1>4. \A t : t \in new <=> /\ t \in latest
                           /\ \A i \in DOMAIN old : advertised[i].topic # t
                           /\ FullText[t.type].error # "malformed"
  BY <1>2 DEF NewTopics
<1> HIDE DEF new, ids, old, latest
<1>5. /\ DOMAIN topicOf = ids
      /\ \A i \in ids : topicOf[i] \in new
      /\ \A t \in new : \E i \in ids : topicOf[i] = t
  BY DEF Bijection, Injection, Surjection
<1>6. \A t : Channel(t).topic = t
  BY DEF Channel
<1>7. ids \cap DOMAIN old = {}
  BY <1>2 DEF CInv, ids
<1>8. \A i \in DOMAIN advertised' :
        advertised'[i].topic = IF i \in DOMAIN old THEN advertised[i].topic ELSE topicOf[i]
  BY <1>1, <1>2, <1>6
<1>9. DOMAIN advertised' = DOMAIN old \cup ids
  BY <1>1, <1>5
<1>10. ASSUME NEW t
       PROVE  (\E i \in DOMAIN advertised' : advertised'[i].topic = t)
              <=> t \in latest /\ FullText[t.type].error # "malformed"
  <2>1. (\E i \in DOMAIN advertised' : advertised'[i].topic = t)
        <=> (\E i \in DOMAIN old : advertised[i].topic = t) \/ (\E i \in ids : topicOf[i] = t)
    BY <1>7, <1>8, <1>9
  <2>2. (\E i \in ids : topicOf[i] = t) <=> t \in new
    BY <1>5
  <2> QED
    BY <1>3, <1>4, <2>1, <2>2
<1> QED
  BY <1>10 DEF Offered, latest

\* updateAdvertisedServices() leaves the names of the services that were found.
LEMMA ServicesAfter ==
    ASSUME SInv, NEW found \in SUBSET Servers, UpdateAdvertisedServices(found)
    PROVE  /\ \A s \in found : s.name \in ListedServices /\ Describable(s)
                  => \E i \in DOMAIN services' : services'[i].name = s.name
           /\ \A i \in DOMAIN services' : \E s \in found : s.name = services'[i].name
<1> DEFINE new == NewServices(found)
           ids == serviceCount + 1 .. serviceCount + Cardinality(new)
           old == Erase(services, Withdrawn(found))
           serviceOf == Numbered(new)
<1>1. services' = [i \in DOMAIN old \cup DOMAIN serviceOf |->
                     IF i \in DOMAIN old THEN old[i] ELSE serviceOf[i]]
  BY DEF UpdateAdvertisedServices
<1>2. serviceOf \in Bijection(ids, new)
  <2>1. new \in SUBSET Servers
    BY DEF NewServices
  <2> QED
    BY <2>1, NumberedIsBijection DEF SInv, ServiceTypes
<1>3. /\ DOMAIN old = DOMAIN services \ Withdrawn(found)
      /\ \A i \in DOMAIN old : old[i] = services[i]
  BY DEF Erase
<1>4. \A i \in DOMAIN old : \E s \in found : s.name = services[i].name
  BY <1>3 DEF Withdrawn
<1>5. \A s \in found : s.name \in ListedServices /\ Describable(s)
          => s \in new \/ \E i \in DOMAIN old : services[i].name = s.name
  BY <1>3 DEF NewServices
<1>6. new \subseteq found
  BY DEF NewServices
<1>7. DOMAIN old \subseteq 1 .. serviceCount /\ serviceCount \in Nat
  BY <1>3 DEF SInv, ServiceTypes
<1> HIDE DEF new, ids, old, serviceOf
<1>8. /\ DOMAIN serviceOf = ids
      /\ \A i \in ids : serviceOf[i] \in new
      /\ \A s \in new : \E i \in ids : serviceOf[i] = s
  BY <1>2 DEF Bijection, Injection, Surjection
<1>9. ids \cap DOMAIN old = {}
  BY <1>7 DEF ids
<1>10. /\ DOMAIN services' = DOMAIN old \cup ids
       /\ \A i \in DOMAIN old : services'[i] = services[i]
       /\ \A i \in ids : services'[i] = serviceOf[i]
  BY <1>1, <1>3, <1>8, <1>9
<1> QED
  BY <1>4, <1>5, <1>6, <1>8, <1>10

LEMMA FreshInitially == Init => Fresh
BY DEF Init, ChannelsInit, EmptyMap, Fresh

\* What gets a channel can be described.
LEMMA DescribableKeeps ==
    ASSUME CInv, Fresh, [Next]_vars
    PROVE  \A i \in DOMAIN advertised' : FullText[advertised'[i].topic.type].error # "malformed"
<1>1. CASE advertised' = advertised
  BY <1>1 DEF Fresh
<1>2. CASE UpdateTopics
  <2>1. CASE UNCHANGED channelVars
    BY <1>1, <2>1 DEF channelVars
  <2>2. CASE UpdateAdvertisedTopics(foundTopics)
    BY <2>2, TopicsAfter DEF Offered
  <2> QED
    BY <1>2, <2>1, <2>2 DEF UpdateTopics
<1>3. CASE ChannelRequest
  BY <1>1, <1>3 DEF ChannelRequest, Subscribe, Unsubscribe
<1>4. CASE UNCHANGED channelVars
  BY <1>1, <1>4 DEF channelVars
<1>5. CASE ReadTopics \/ ReadServices \/ UpdateServices \/ UpdateConnectionGraph \/ Register
              \/ WaitForGraphChange \/ SubscribeConnectionGraph \/ PublicationRequest
              \/ FinishMessage \/ CallService \/ FinishCall \/ Responses \/ GraphChange
              \/ RosShutdown \/ Destroy \/ StopServer \/ UNCHANGED vars
  BY <1>4, <1>5 DEF ReadTopics, ReadServices, UpdateServices, UpdateConnectionGraph, Register,
     WaitForGraphChange, SubscribeConnectionGraph, PublicationRequest, FinishMessage,
     CallService, FinishCall, Responses, GraphChange, RosShutdown, Destroy, StopServer, vars
<1> QED
  BY <1>2, <1>3, <1>5 DEF Next, GraphThread

\* The thread goes from one step to the next on its own, and registers for the event
\* in a step after which it reads the graph again before it uses what it read.
LEMMA ThreadMoves ==
    ASSUME [Next]_vars
    PROVE  /\ thread' = "topics" =>
                  \/ registered' = registered /\ foundTopics' = RosTopics
                  \/ /\ thread = "topics"
                     /\ registered' = registered /\ foundTopics' = foundTopics
           /\ thread' = "services" =>
                  \/ registered' = registered /\ foundServices' = servers
                  \/ /\ thread = "services"
                     /\ registered' = registered /\ foundServices' = foundServices
<1>1. CASE UNCHANGED threadVars
  BY <1>1 DEF threadVars
<1>2. CASE ReadTopics
  BY <1>2 DEF ReadTopics
<1>3. CASE ReadServices
  BY <1>3 DEF ReadServices
<1>4. CASE UpdateTopics \/ UpdateServices \/ UpdateConnectionGraph \/ Register
              \/ WaitForGraphChange
  <2>1. thread' \notin {"topics", "services"}
    BY <1>4 DEF UpdateTopics, UpdateServices, UpdateConnectionGraph, Register,
                WaitForGraphChange, AfterServices
  <2> QED
    BY <2>1
<1>5. CASE ChannelRequest \/ SubscribeConnectionGraph \/ PublicationRequest \/ FinishMessage
              \/ CallService \/ FinishCall \/ Responses \/ GraphChange \/ RosShutdown
              \/ Destroy \/ StopServer \/ UNCHANGED vars
  BY <1>1, <1>5 DEF ChannelRequest, SubscribeConnectionGraph, PublicationRequest,
     FinishMessage, CallService, FinishCall, Responses, GraphChange, RosShutdown, Destroy,
     StopServer, vars
<1> QED
  BY <1>2, <1>3, <1>4, <1>5 DEF Next, GraphThread

LEMMA FreshKeeps == CInv /\ Fresh /\ [Next]_vars => Fresh'
<1> SUFFICES ASSUME CInv, Fresh, [Next]_vars PROVE Fresh'
  OBVIOUS
<1>1. \A i \in DOMAIN advertised' : FullText[advertised'[i].topic.type].error # "malformed"
  BY DescribableKeeps
<1>2. ASSUME thread' = "topics", registered', ~ graphEvent'
      PROVE  foundTopics' = RosTopics'
  <2>1. registered
    BY <1>2, ThreadMoves
  <2>2. RosTopics' = RosTopics /\ ~ graphEvent
    BY <1>2, <2>1, GraphIsWatched
  <2> QED
    BY <1>2, <2>1, <2>2, ThreadMoves DEF Fresh
<1>3. ASSUME thread' = "services", registered', ~ graphEvent'
      PROVE  foundServices' = servers'
  <2>1. registered
    BY <1>3, ThreadMoves
  <2>2. servers' = servers /\ ~ graphEvent
    BY <1>3, <2>1, GraphIsWatched
  <2> QED
    BY <1>3, <2>1, <2>2, ThreadMoves DEF Fresh
<1> QED
  BY <1>1, <1>2, <1>3 DEF Fresh

LEMMA FreshAlways == Spec => []Fresh
<1>1. CInv /\ Fresh /\ [Next]_vars => Fresh'
  BY FreshKeeps
<1> QED
  BY <1>1, FreshInitially, ChannelsInvariance, PTL DEF Spec

\* Only the graph thread changes what is advertised.
LEMMA AdvertisedChanges ==
    ASSUME [Next]_vars
    PROVE  /\ advertised' = advertised
                  \/ (thread = "topics" /\ ok /\ UpdateAdvertisedTopics(foundTopics))
           /\ services' = services
                  \/ (thread = "services" /\ UpdateAdvertisedServices(foundServices))
           /\ thread = "topics" => \/ thread' = thread
                                   \/ ok /\ UpdateAdvertisedTopics(foundTopics)
                                   \/ ~ ok
           /\ thread = "services" => \/ thread' = thread
                                     \/ UpdateAdvertisedServices(foundServices)
<1>1. CASE UNCHANGED <<thread, advertised, services>>
  BY <1>1
<1>2. CASE UpdateTopics
  BY <1>2 DEF UpdateTopics, channelVars, serviceVars
<1>3. CASE UpdateServices
  BY <1>3 DEF UpdateServices, channelVars
<1>4. CASE ReadTopics \/ ReadServices \/ UpdateConnectionGraph \/ Register
              \/ WaitForGraphChange
  BY <1>4 DEF ReadTopics, ReadServices, UpdateConnectionGraph, Register, WaitForGraphChange,
              channelVars, serviceVars
<1>5. CASE ChannelRequest
  BY <1>1, <1>5 DEF ChannelRequest, Subscribe, Unsubscribe, threadVars, serviceVars
<1>6. CASE CallService \/ FinishCall \/ Responses
  <2>1. UNCHANGED <<threadVars, channelVars>>
    BY <1>6 DEF CallService, FinishCall, Responses
  <2>2. services' = services
    BY <1>6 DEF CallService, FinishCall, Responses, ServiceRequest, WaitForService, SendRequest,
                StoreRequest, HandleResponse, Answer
  <2> QED
    BY <1>1, <2>1, <2>2 DEF threadVars, channelVars
<1>7. CASE SubscribeConnectionGraph \/ PublicationRequest \/ FinishMessage \/ GraphChange
              \/ RosShutdown \/ Destroy \/ StopServer \/ UNCHANGED vars
  BY <1>1, <1>7 DEF SubscribeConnectionGraph, PublicationRequest, FinishMessage, GraphChange,
     RosShutdown, Destroy, StopServer, vars, threadVars, channelVars, serviceVars
<1> QED
  BY <1>2, <1>3, <1>4, <1>5, <1>6, <1>7 DEF Next, GraphThread

\* No topic of the graph is missed, whatever comes and goes while the thread works
\* on what it has read (ros2_foxglove_bridge.cpp:151-177, 179-283).
THEOREM TopicsAreFollowed == Spec => NoTopicIsMissed
<1>1. CInv /\ Fresh /\ [Next]_vars =>
        [registered /\ ok /\ ~ graphEvent'
           /\ (TopicsInSync \/ (thread = "topics" /\ thread' # "topics"))
         => TopicsInSync']_vars
  <2> SUFFICES ASSUME CInv, Fresh, [Next]_vars, registered, ok, ~ graphEvent',
                      TopicsInSync \/ (thread = "topics" /\ thread' # "topics")
               PROVE  TopicsInSync'
    OBVIOUS
  <2>1. RosTopics' = RosTopics /\ (graphEvent => thread = "loop")
    BY GraphIsWatched
  <2>2. CASE thread = "topics" /\ UpdateAdvertisedTopics(foundTopics)
    <3>1. foundTopics = RosTopics
      BY <2>1, <2>2 DEF Fresh
    <3>2. Offered' = {t \in foundTopics : t.name \in Listed
                                             /\ FullText[t.type].error # "malformed"}
      BY <2>2, TopicsAfter
    <3> QED
      BY <2>1, <3>1, <3>2 DEF TopicsInSync
  <2>3. CASE advertised' = advertised /\ TopicsInSync
    BY <2>1, <2>3 DEF TopicsInSync, Offered
  <2> QED
    BY <2>2, <2>3, AdvertisedChanges
<1> QED
  BY <1>1, ChannelsInvariance, FreshAlways, PTL DEF Spec, NoTopicIsMissed

\* No service is missed either, however long a call holds the mutex between the
\* look at the graph and the update (ros2_foxglove_bridge.cpp:285-379, 898).
THEOREM ServicesAreFollowed == Spec => NoServiceIsMissed
<1>1. SInv /\ Fresh /\ [Next]_vars =>
        [registered /\ ~ graphEvent'
           /\ (ServicesInSync \/ (thread = "services" /\ thread' # "services"))
         => ServicesInSync']_vars
  <2> SUFFICES ASSUME SInv, Fresh, [Next]_vars, registered, ~ graphEvent',
                      ServicesInSync \/ (thread = "services" /\ thread' # "services")
               PROVE  ServicesInSync'
    OBVIOUS
  <2>1. servers' = servers /\ (graphEvent => thread = "loop")
    BY GraphIsWatched
  <2>2. CASE thread = "services" /\ UpdateAdvertisedServices(foundServices)
    <3>1. foundServices = servers /\ servers \in SUBSET Servers
      BY <2>1, <2>2 DEF Fresh, SInv, ServiceTypes
    <3> QED
      BY <2>1, <2>2, <3>1, ServicesAfter DEF ServicesInSync
  <2>3. CASE services' = services /\ ServicesInSync
    BY <2>1, <2>3 DEF ServicesInSync
  <2> QED
    BY <2>2, <2>3, AdvertisedChanges
<1> QED
  BY <1>1, CallsInvariance, FreshAlways, PTL DEF Spec, NoServiceIsMissed
-----------------------------------------------------------------------------
(* The whole node. *)

\* The inductive invariant: the variables that the invariants above leave out.
NodeInv ==
    /\ capabilities \in Capabilities
    /\ appearances \in Nat
    /\ parsers \subseteq Types
    /\ thread \in {"topics.read", "topics", "services.read", "services", "register",
                   "graph", "loop", "ended"}
    /\ {registered, graphEvent, graphWanted, ok, shuttingDown, serving, unknown} \subseteq BOOLEAN

LEMMA ThreadNodeKeeps ==
    ASSUME NodeInv, GraphThread
    PROVE  NodeInv'
<1>1. UNCHANGED <<capabilities, appearances, parsers, graphWanted, ok, shuttingDown, serving,
                  unknown>>
  BY DEF GraphThread, ReadTopics, UpdateTopics, ReadServices, UpdateServices,
     UpdateConnectionGraph, Register, WaitForGraphChange, UpdateAdvertisedServices, nodeVars,
     graphVars, publicationVars, serviceVars
<1>2. thread' \in {"topics.read", "topics", "services.read", "services", "register",
                   "graph", "loop", "ended"}
  BY DEF GraphThread, ReadTopics, UpdateTopics, ReadServices, UpdateServices,
     UpdateConnectionGraph, Register, WaitForGraphChange, AfterServices
<1>3. registered' \in BOOLEAN /\ graphEvent' \in BOOLEAN
  BY DEF NodeInv, GraphThread, ReadTopics, UpdateTopics, ReadServices, UpdateServices,
     UpdateConnectionGraph, Register, WaitForGraphChange, Noticed
<1> QED
  BY <1>1, <1>2, <1>3 DEF NodeInv

LEMMA ServiceNodeKeeps ==
    ASSUME NodeInv, CallService \/ FinishCall \/ Responses
    PROVE  NodeInv'
<1>1. UNCHANGED <<graphVars, publicationVars, threadVars, nodeVars, graphEvent>>
  BY DEF CallService, FinishCall, Responses
<1>2. unknown' = unknown \/ unknown' = TRUE
  BY DEF CallService, FinishCall, Responses, ServiceRequest, WaitForService, SendRequest,
         StoreRequest, HandleResponse, Answer
<1> QED
  BY <1>1, <1>2 DEF NodeInv, graphVars, publicationVars, threadVars, nodeVars

\* A parser is for a type.
LEMMA PublicationNodeKeeps ==
    ASSUME NodeInv, PublicationRequest \/ FinishMessage
    PROVE  NodeInv'
<1>1. UNCHANGED <<graphVars, serviceVars, threadVars, nodeVars, graphEvent>>
  BY DEF PublicationRequest, FinishMessage
<1>2. parsers' \subseteq Types
  <2>1. CASE UNCHANGED parsers
    BY <2>1 DEF NodeInv
  <2>2. ASSUME NEW c \in Senders, NEW id \in ClientIds, NEW a \in Adverts,
               ClientAdvertise(c, id, a)
        PROVE  parsers' \subseteq Types
    <3>1. a.schemaName \in Types
      BY AdvertAssumption
    <3> QED
      BY <2>2, <3>1 DEF ClientAdvertise, NodeInv
  <2> QED
    BY <2>1, <2>2 DEF PublicationRequest, FinishMessage, ClientUnadvertise, ClientMessage,
                      PublishJson
<1> QED
  BY <1>1, <1>2 DEF NodeInv, graphVars, serviceVars, threadVars, nodeVars

LEMMA NodeNextKeeps == NodeInv /\ [Next]_vars => NodeInv'
<1> SUFFICES ASSUME NodeInv, [Next]_vars PROVE NodeInv'
  OBVIOUS
<1>1. CASE GraphThread
  BY <1>1, ThreadNodeKeeps
<1>2. CASE CallService \/ FinishCall \/ Responses
  BY <1>2, ServiceNodeKeeps
<1>3. CASE PublicationRequest \/ FinishMessage
  BY <1>3, PublicationNodeKeeps
<1>4. CASE ChannelRequest \/ GraphChange
  <2>1. UNCHANGED <<serviceVars, publicationVars, threadVars, nodeVars>>
    BY <1>4 DEF ChannelRequest, GraphChange
  <2>2. appearances' \in Nat
    BY <1>4 DEF ChannelRequest, GraphChange, NodeInv, graphVars
  <2>3. graphEvent' \in BOOLEAN
    BY <1>4 DEF ChannelRequest, GraphChange, Noticed
  <2> QED
    BY <2>1, <2>2, <2>3 DEF NodeInv, serviceVars, publicationVars, threadVars, nodeVars
<1>5. CASE SubscribeConnectionGraph \/ RosShutdown \/ Destroy \/ StopServer \/ UNCHANGED vars
  <2>1. UNCHANGED <<graphVars, serviceVars, publicationVars, threadVars, graphEvent,
                    capabilities>>
    BY <1>5 DEF SubscribeConnectionGraph, RosShutdown, Destroy, StopServer, vars, nodeVars
  <2>2. {graphWanted', ok', shuttingDown', serving'} \subseteq BOOLEAN
    BY <1>5 DEF SubscribeConnectionGraph, RosShutdown, Destroy, StopServer, vars, nodeVars,
                NodeInv
  <2> QED
    BY <2>1, <2>2 DEF NodeInv, graphVars, serviceVars, publicationVars, threadVars
<1> QED
  BY <1>1, <1>2, <1>3, <1>4, <1>5 DEF Next

\* Every variable has its type: what the bridge keeps are topics, services, calls and
\* schemas there can be, under ids that have been handed out.
THEOREM TypeCorrect == Spec => []TypeOK
<1>1. ASSUME Init PROVE NodeInv
  <2>1. capabilities \in Capabilities /\ appearances = 0 /\ parsers = {}
        /\ thread = "topics.read"
    BY <1>1 DEF Init, PublicationsInit
  <2>2. /\ registered = FALSE /\ graphEvent = FALSE /\ graphWanted = FALSE /\ ok = TRUE
        /\ shuttingDown = FALSE /\ serving = TRUE /\ unknown = FALSE
    BY <1>1 DEF Init, ServicesInit
  <2> QED
    BY <2>1, <2>2 DEF NodeInv
<1>2. NodeInv /\ [Next]_vars => NodeInv'
  BY NodeNextKeeps
<1>3. CInv /\ SInv /\ NodeInv => TypeOK
  BY DEF CInv, SInv, ServiceTypes, NodeInv, TypeOK
<1> QED
  BY <1>1, <1>2, <1>3, ChannelsInvariance, CallsInvariance, PTL DEF Spec
=============================================================================
