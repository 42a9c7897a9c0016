--------------------------- MODULE BridgeServices ---------------------------
(***************************************************************************)
(* The service side of the Foxglove bridge: the services it advertises,    *)
(* serviceRequest() in ros2_foxglove_bridge.cpp, and GenericClient, which  *)
(* matches the answers that come back with the requests that were sent.    *)
(*                                                                         *)
(* serviceRequest() holds _servicesMutex to its end, also while it waits   *)
(* up to a second for the service; what it does is therefore cut into      *)
(* steps, and the mutex is free when the handler is idle.  The last two    *)
(* steps hold the client's pending_requests_mutex_ as well.                *)
(***************************************************************************)
EXTENDS DefinitionCache, HashMaps

CONSTANTS
    Servers,           \* services that may exist: name, request and response type
    ListedServices,    \* names that are on the whitelist and not hidden
    Callers,           \* websocket connections
    CallIds,           \* the numbers a client gives its calls
    NoCall

ASSUME ServiceAssumption ==
    /\ Servers \subseteq [name: STRING, request: Types, response: Types]
    /\ IsFiniteSet(Servers)
    /\ NoCall \notin Callers \X CallIds

Calls == Callers \X CallIds

VARIABLES
    servers,          \* the services of the ROS graph (external)
    services,         \* _advertisedServices: service id to name and types
    serviceCount,     \* the number of ids addServices() has handed out (external)
    serviceClients,   \* _serviceClients: service id to its GenericClient
    handler,          \* where serviceRequest() is, "idle" when it is not running
    current,          \* the request it serves
    network,          \* requests on their way to a server and answers on theirs back
    made,             \* the calls that clients have made (history)
    replies,          \* for each call, the calls whose outcome was sent for it (history)
    unknown           \* an answer came for a request nobody has made (history)

serviceVars == <<services, serviceCount, serviceClients, handler, current, network,
                 made, replies, unknown>>

NoRequest == [service |-> 0, call |-> NoCall, seq |-> 0]

ServicesInit ==
    /\ services = EmptyMap
    /\ serviceCount = 0
    /\ serviceClients = EmptyMap
    /\ handler = "idle"
    /\ current = NoRequest
    /\ network = {}
    /\ made = {}
    /\ replies = [call \in Calls |-> <<>>]
    /\ unknown = FALSE
-----------------------------------------------------------------------------
Describable(s) ==
    /\ FullText[s.request].error # "malformed"
    /\ FullText[s.response].error # "malformed"

\* Only names are compared: a service that has come back with another type
\* is still the one that is advertised.
Withdrawn(found) ==
    {i \in DOMAIN services : \A s \in found : s.name # services[i].name}

NewServices(found) ==
    {s \in found : /\ \A i \in DOMAIN services \ Withdrawn(found) : services[i].name # s.name
                   /\ s.name \in ListedServices
                   /\ Describable(s)}

\* The ids of new services, in the order of their names.
Numbered(new) ==
    CHOOSE f \in Bijection(serviceCount + 1 .. serviceCount + Cardinality(new), new) : TRUE

\* Fault: the update is given up when a call has the mutex.
UpdateAdvertisedServices_Fault(found) ==
    /\ LET new == IF handler = "idle" THEN NewServices(found) ELSE {}
           old == IF handler = "idle" THEN Erase(services, Withdrawn(found)) ELSE services
           serviceOf == Numbered(new)
       IN  /\ services' = [i \in DOMAIN old \cup DOMAIN serviceOf |->
                              IF i \in DOMAIN old THEN old[i] ELSE serviceOf[i]]
           /\ serviceCount' = serviceCount + Cardinality(new)
    /\ UNCHANGED <<serviceClients, handler, current, network, made, replies, unknown>>

\* updateAdvertisedServices(), on the services found before the lock was taken.
\* The client of a service that is gone stays.
UpdateAdvertisedServices(found) ==
    /\ handler = "idle"
    /\ LET new == NewServices(found)
           old == Erase(services, Withdrawn(found))
           serviceOf == Numbered(new)
       IN  /\ services' = [i \in DOMAIN old \cup DOMAIN serviceOf |->
                              IF i \in DOMAIN old THEN old[i] ELSE serviceOf[i]]
           /\ serviceCount' = serviceCount + Cardinality(new)
    /\ UNCHANGED <<serviceClients, handler, current, network, made, replies, unknown>>
-----------------------------------------------------------------------------
\* wait_for_service() and the network look for a server by its name.
Available(name) == \E s \in servers : s.name = name

Reply(call, answered) == replies' = [replies EXCEPT ![call] = Append(@, answered)]

Refuse_Fault(call) ==
    /\ Reply(call, call)
    /\ handler' = IF handler = "waiting" THEN "sending" ELSE "idle"
    /\ current' = IF handler = "waiting" THEN current ELSE NoRequest

\* A ServiceError leaves the handler and the lock.
Refuse(call) ==
    /\ Reply(call, call)
    /\ handler' = "idle"
    /\ current' = NoRequest

NewClient(s) == [name |-> s.name, sent |-> 0, pending |-> EmptyMap]

\* serviceRequest() up to wait_for_service().  The client for an id is made at
\* its first request, which may fail, and kept for the next ones.
ServiceRequest(call, i) ==
    /\ handler = "idle"
    /\ call \notin made
    /\ made' = made \cup {call}
    /\ \/ /\ i \notin DOMAIN services
          /\ Refuse(call)
          /\ UNCHANGED serviceClients
       \/ /\ i \in DOMAIN services
          /\ i \notin DOMAIN serviceClients
          /\ Refuse(call)
          /\ UNCHANGED serviceClients
       \/ /\ i \in DOMAIN services
          /\ serviceClients' = Emplace(serviceClients, i, NewClient(services[i]))
          /\ handler' = "waiting"
          /\ current' = [service |-> i, call |-> call, seq |-> 0]
          /\ UNCHANGED replies
    /\ UNCHANGED <<services, serviceCount, network, unknown>>

\* wait_for_service(1s) finds the service or lasts until the time is over.
WaitForService ==
    /\ handler = "waiting"
    /\ \/ /\ Available(serviceClients[current.service].name)
          /\ handler' = "sending"
          /\ UNCHANGED <<current, replies>>
       \/ /\ ~ Available(serviceClients[current.service].name)
          /\ Refuse(current.call)
    /\ UNCHANGED <<services, serviceCount, serviceClients, network, made, unknown>>

\* async_send_request() up to rcl_send_request(), which numbers the request.
SendRequest ==
    /\ handler = "sending"
    /\ \/ LET seq == serviceClients[current.service].sent + 1
          IN  /\ serviceClients' = [serviceClients EXCEPT ![current.service].sent = seq]
              /\ network' = network \cup
                     {[service |-> current.service, seq |-> seq, call |-> current.call,
                       answered |-> FALSE]}
              /\ handler' = "storing"
              /\ current' = [current EXCEPT !.seq = seq]
              /\ UNCHANGED replies
       \/ /\ Refuse(current.call)
          /\ UNCHANGED <<serviceClients, network>>
    /\ UNCHANGED <<services, serviceCount, made, unknown>>

\* ... and the rest: who waits for the answer is noted after the request is out.
StoreRequest ==
    /\ handler = "storing"
    /\ serviceClients' = [serviceClients EXCEPT
           ![current.service].pending = Assign(@, current.seq, current.call)]
    /\ handler' = "idle"
    /\ current' = NoRequest
    /\ UNCHANGED <<services, serviceCount, network, made, replies, unknown>>
-----------------------------------------------------------------------------
\* The client's lock is free.
PendingUnlocked_Fault(i) == TRUE

PendingUnlocked(i) == ~ (handler = "storing" /\ current.service = i)

\* handle_response(): an answer that cannot be serialised, or that nobody waits
\* for, is dropped; otherwise the request is taken from the table and the answer
\* sent to the client that made it.
HandleResponse(m) ==
    /\ m \in network
    /\ m.answered
    /\ PendingUnlocked(m.service)
    /\ network' = network \ {m}
    /\ LET pending == serviceClients[m.service].pending
       IN  \/ UNCHANGED <<serviceClients, replies, unknown>>
           \/ /\ m.seq \notin DOMAIN pending
              /\ unknown' = TRUE
              /\ UNCHANGED <<serviceClients, replies>>
           \/ /\ m.seq \in DOMAIN pending
              /\ serviceClients' = [serviceClients EXCEPT
                     ![m.service].pending = Erase(pending, {m.seq})]
              /\ Reply(pending[m.seq], m.call)
              /\ UNCHANGED unknown
    /\ UNCHANGED <<services, serviceCount, handler, current, made>>

\* The server of the name answers a request, or never will (external).
Answer(m) ==
    /\ m \in network
    /\ ~ m.answered
    /\ \/ /\ Available(serviceClients[m.service].name)
          /\ network' = (network \ {m}) \cup {[m EXCEPT !.answered = TRUE]}
       \/ network' = network \ {m}
    /\ UNCHANGED <<services, serviceCount, serviceClients, handler, current, made, replies, unknown>>
=============================================================================
