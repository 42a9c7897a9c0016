------------------------- MODULE ClientPublications -------------------------
(***************************************************************************)
(* What clients of the Foxglove bridge publish: clientAdvertise(),         *)
(* clientUnadvertise() and clientMessage() of ros2_foxglove_bridge.cpp.    *)
(* The first two hold _clientAdvertisementsMutex throughout; clientMessage *)
(* takes it twice, once for the publisher and, for a JSON message, once    *)
(* more for the parser of its schema.                                      *)
(***************************************************************************)
EXTENDS DefinitionCache, HashMaps

CONSTANTS
    Senders,       \* websocket connections
    ClientIds,     \* the numbers a client gives its own channels
    Adverts        \* what may be advertised: schemaName, encoding, and whether a schema comes with it

ASSUME AdvertAssumption ==
    Adverts \subseteq [schemaName: Types, encoding: {"cdr", "json"}, schema: BOOLEAN]

VARIABLES
    publications,   \* _clientAdvertisedTopics: client to (channel to advertisement)
    parsers,        \* the schema names that _jsonParsers has a parser for
    messages        \* client to the message that clientMessage() has in hand

publicationVars == <<publications, parsers, messages>>

PublicationsInit ==
    /\ publications = EmptyMap
    /\ parsers = {}
    /\ messages = EmptyMap
-----------------------------------------------------------------------------
\* A parser needs the definition the client sent or one that is found as .msg.
CanParse(a) ==
    \/ a.schema
    \/ LET text == FullText[a.schemaName]
       IN  text.error = "none" /\ text.format = "msg"

NeedsParser_Fault(a) == a.encoding = "json" /\ a.schema /\ a.schemaName \notin parsers

NeedsParser(a) == a.encoding = "json" /\ a.schemaName \notin parsers

\* clientAdvertise().  The client's entry comes first, then the parser, then the
\* publisher; each of the last two may fail and leaves what was done before.
ClientAdvertise(client, id, a) ==
    LET entered == Emplace(publications, client, EmptyMap)
        opened  == [entered EXCEPT ![client] = Emplace(@, id, a)]
    IN  /\ id \notin DOMAIN entered[client]
        /\ \/ /\ NeedsParser(a)
              /\ publications' = entered
              /\ UNCHANGED parsers
           \/ /\ NeedsParser(a) => CanParse(a)
              /\ parsers' = parsers \cup (IF NeedsParser(a) THEN {a.schemaName} ELSE {})
              /\ publications' \in {entered, opened}
        /\ UNCHANGED messages

\* clientUnadvertise(): of a channel the client has advertised.
ClientUnadvertise(client, id) ==
    /\ client \in DOMAIN publications
    /\ id \in DOMAIN publications[client]
    /\ LET left == Erase(publications[client], {id})
       IN  publications' = IF DOMAIN left = {} THEN Erase(publications, {client})
                                               ELSE [publications EXCEPT ![client] = left]
    /\ UNCHANGED <<parsers, messages>>

\* clientMessage() as far as the publisher, which it keeps.  A binary message is
\* published at once, which changes nothing here.
ClientMessage(client, id) ==
    /\ client \notin DOMAIN messages
    /\ client \in DOMAIN publications
    /\ id \in DOMAIN publications[client]
    /\ publications[client][id].encoding = "json"
    /\ messages' = Emplace(messages, client, publications[client][id])
    /\ UNCHANGED <<publications, parsers>>

\* ... and its end: a JSON message is parsed and published, or dropped.
PublishJson(client) ==
    /\ client \in DOMAIN messages
    /\ messages' = Erase(messages, {client})
    /\ UNCHANGED <<publications, parsers>>
-----------------------------------------------------------------------------
\* A JSON message always finds a parser, also when its channel was unadvertised
\* after the publisher was looked up, and whoever registered the parser
\* (ros2_foxglove_bridge.cpp:768-780).
JsonHasParser ==
    /\ \A c \in DOMAIN messages : messages[c].schemaName \in parsers
    /\ \A c \in DOMAIN publications : \A id \in DOMAIN publications[c] :
           LET a == publications[c][id]
           IN  a.encoding = "json" => a.schemaName \in parsers
=============================================================================
