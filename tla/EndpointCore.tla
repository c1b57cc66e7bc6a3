---------------------------- MODULE EndpointCore ----------------------------
(***************************************************************************)
(* The Endpoint core of src/src/Endpoint.cpp: the routing tables (topic    *)
(* subscribe/publish info, client-proxy and service-provider info), the    *)
(* outbound service-call ledger, the startup-message log, and every        *)
(* handler that reads or writes them: the host-side registration and       *)
(* runtime calls and the receive_*_ws handlers that Encoding::interpret    *)
(* dispatches to on the I/O worker.                                        *)
(*                                                                         *)
(* Every handler is one atomic step: the worker serialises the callbacks,  *)
(* and a host call is interleaved with them only between calls.  Data is   *)
(* abstracted: type names are model values, an encoded frame is a record   *)
(* of its op and the names and ids the properties tell apart, dynamic      *)
(* values and YAML configuration are left out.                             *)
(*                                                                         *)
(* The transport (websocketpp, not in this repository) is modelled from    *)
(* the spec: wsState is the connection's get_state(), notified records     *)
(* which Endpoint notifications the worker has run for the connection.     *)
(***************************************************************************)
EXTENDS Naturals, SequencesExt, TLC

CONSTANTS
    Conns,          \* connection handles (one per websocketpp connection)
    Topics,         \* topic names
    Services,       \* service names
    Types,          \* type names of registered dynamic types
    RequestTypes,   \* types a peer may name in a subscribe request
    SubIds,         \* subscription ids a peer uses (EmptyId among them)
    EmptyId,        \* the empty id string ""
    PeerCallIds,    \* ids a peer gives its own service requests
    NoType,         \* a subscribe request without a type (nullptr)
    EmptyName,      \* the empty type name "" of a default TopicPublishInfo
    NoConn,         \* the null connection handle of a fresh ServiceProviderInfo
    NoAdvert,       \* ghost: no advertisement seen yet
    MaxCalls,       \* bound on outbound service calls (call ids 1..MaxCalls)
    MaxPublish,     \* bound on host publish() calls
    HostType,       \* the type the host's configuration gives each topic
    RuntimeRegistration  \* may the host register after connecting starts?

ASSUME RequestTypes \subseteq Types \cup {NoType}
ASSUME EmptyId \in SubIds
ASSUME MaxCalls \in Nat /\ MaxPublish \in Nat
ASSUME RuntimeRegistration \in BOOLEAN
ASSUME HostType \in [Topics -> Types]

VARIABLES
    wsState,      \* Conns -> websocketpp session state
    notified,     \* Conns -> Endpoint notifications run for it
    started,      \* the transport has begun connecting
    startup,      \* _startup_messages
    subInfo,      \* _topic_subscribe_info: topic -> [type, blacklist]
    pubInfo,      \* _topic_publish_info: topic -> [type, listeners]
    clientProxy,  \* the services in _client_proxy_info
    provider,     \* _service_provider_info: service -> connection_handle
    ledger,       \* _service_request_info: call id -> service
    nextId,       \* _next_service_call_id
    sent,         \* Conns -> frames written on that connection
    hostCalls,    \* CallHandles handed to the host, not yet replied to
    peerReqs,     \* <<conn, service, id>> of every service request received
    svcProxies,   \* host: services it holds a ServiceProvider for
    pubCount,     \* host: publish() calls made
    lastAdvert,   \* ghost: [Topics \X Conns] -> last advertised type
    deliveries,   \* ghost: publications handed to subscription callbacks
    responded,    \* ghost: call id -> receive_response calls on the client
    replayLen,    \* ghost: Len(startup) when the connection's open handler ran
    hostError,    \* exceptions thrown back into the host
    crashed       \* the process died (undefined behaviour)

transportVars == <<wsState, notified, started>>
hostVars      == <<hostCalls, svcProxies, pubCount, hostError>>
ghostVars     == <<lastAdvert, deliveries, responded, replayLen>>
coreVars == <<transportVars, startup, subInfo, pubInfo, clientProxy, provider,
              ledger, nextId, sent, peerReqs, hostVars, ghostVars, crashed>>

WsStates == {"idle", "connecting", "open", "closing", "closed"}
CallIds == 1..MaxCalls

\* An encoded frame: its op, the topic or service, and an id where it has one.
Frame(op, name, id) == [op |-> op, name |-> name, id |-> id]
SubscribeMsg(t)        == Frame("subscribe", t, EmptyId)
AdvertiseMsg(t)        == Frame("advertise", t, EmptyId)
AdvertiseServiceMsg(s) == Frame("advertise_service", s, EmptyId)
PublicationMsg(t)      == Frame("publish", t, EmptyId)
CallServiceMsg(s, i)   == Frame("call_service", s, i)
ResponseMsg(s, i)      == Frame("service_response", s, i)

\* A connection the worker delivers messages from: open, and its open
\* handler has run.
Live(c) == wsState[c] = "open" /\ notified[c] = "opened"

\* connection->send(payload): written when the connection is open, otherwise
\* the send returns an error code that is logged and the frame is lost.
SendOn(c, f) ==
    sent' = IF wsState[c] = "open"
            THEN [sent EXCEPT ![c] = Append(@, f)]
            ELSE sent

\* Registrations happen before the first connection attempt unless the host
\* registers at runtime (spec section 5 allows both).
RegistrationOpen == RuntimeRegistration \/ ~started

ListenerConns(t) == {l[1] : l \in pubInfo[t].listeners}
Erase(f, k) == Restrict(f, DOMAIN f \ {k})

-----------------------------------------------------------------------------
(* Host-side registration (Endpoint.cpp)                                  *)

\* Endpoint::subscribe: append the subscribe startup message and store the
\* TopicSubscribeInfo (operator[] keeps an existing blacklist).
Subscribe(t, ty) ==
    /\ RegistrationOpen
    /\ t \notin DOMAIN subInfo
    /\ startup' = Append(startup, SubscribeMsg(t))
    /\ subInfo' = subInfo @@ (t :> [type |-> ty, blacklist |-> {}])
    /\ UNCHANGED <<transportVars, pubInfo, clientProxy, provider, ledger, nextId,
                   sent, peerReqs, hostVars, ghostVars, crashed>>

\* Endpoint::startup_advertisement, called by the publisher that
\* Endpoint::advertise returns: find-or-create the TopicPublishInfo, set its
\* type (listeners already recorded are kept), append the advertise message.
StartupAdvertisement(t, ty) ==
    /\ RegistrationOpen
    /\ t \in DOMAIN pubInfo => pubInfo[t].type = EmptyName
    /\ pubInfo' = IF t \in DOMAIN pubInfo
                  THEN [pubInfo EXCEPT ![t].type = ty]
                  ELSE pubInfo @@ (t :> [type |-> ty, listeners |-> {}])
    /\ startup' = Append(startup, AdvertiseMsg(t))
    /\ UNCHANGED <<transportVars, subInfo, clientProxy, provider, ledger, nextId,
                   sent, peerReqs, hostVars, ghostVars, crashed>>

\* Endpoint::create_client_proxy: the overload with a reply type also appends
\* an advertise_service startup message; the single-type overload does not.
CreateClientProxy(s, withReply) ==
    /\ RegistrationOpen
    /\ s \notin clientProxy
    /\ clientProxy' = clientProxy \cup {s}
    /\ startup' = IF withReply THEN Append(startup, AdvertiseServiceMsg(s))
                  ELSE startup
    /\ UNCHANGED <<transportVars, subInfo, pubInfo, provider, ledger, nextId,
                   sent, peerReqs, hostVars, ghostVars, crashed>>

\* Endpoint::create_service_proxy (both overloads): find-or-create the
\* ServiceProviderInfo; a new one has a null connection handle, an existing
\* one keeps the connection a peer advertised.
CreateServiceProxy(s) ==
    /\ RegistrationOpen
    /\ s \notin svcProxies
    /\ provider' = IF s \in DOMAIN provider THEN provider
                   ELSE provider @@ (s :> NoConn)
    /\ svcProxies' = svcProxies \cup {s}
    /\ UNCHANGED <<transportVars, startup, subInfo, pubInfo, clientProxy, ledger,
                   nextId, sent, peerReqs, hostCalls, pubCount, hostError,
                   ghostVars, crashed>>

-----------------------------------------------------------------------------
(* Host-side runtime calls (Endpoint.cpp)                                 *)

\* Endpoint::publish, through a publisher whose advertisement has run:
\* one encode-and-send per listener connection, nothing when there are none.
\* The encoder returns the empty string for a value it cannot represent
\* (the same for every listener), and then nothing is sent.
Publish(t, encodes) ==
    /\ pubCount < MaxPublish
    /\ t \in DOMAIN pubInfo /\ pubInfo[t].type # EmptyName
    /\ sent' = [c \in Conns |->
                  IF encodes /\ c \in ListenerConns(t) /\ wsState[c] = "open"
                  THEN Append(sent[c], PublicationMsg(t)) ELSE sent[c]]
    /\ pubCount' = pubCount + 1
    /\ UNCHANGED <<transportVars, startup, subInfo, pubInfo, clientProxy,
                   provider, ledger, nextId, peerReqs, hostCalls, svcProxies,
                   hostError, ghostVars, crashed>>

\* Endpoint::call_service: allocate the id and insert the ledger entry under
\* the mutex, then _service_provider_info.at(service) (throws out_of_range
\* when the entry is gone), encode (an empty payload returns silently,
\* leaving the entry), get_con_from_hdl on the provider's handle (throws for
\* the null handle of a provider no peer advertised) and send.
CallService(s, encodes) ==
    /\ s \in svcProxies
    /\ nextId <= MaxCalls
    /\ ledger' = ledger @@ (nextId :> s)
    /\ nextId' = nextId + 1
    /\ \/ /\ s \notin DOMAIN provider
          /\ hostError' = hostError \cup {"out_of_range"}
          /\ UNCHANGED sent
       \/ /\ s \in DOMAIN provider /\ ~encodes
          /\ UNCHANGED <<sent, hostError>>
       \/ /\ s \in DOMAIN provider /\ encodes /\ provider[s] = NoConn
          /\ hostError' = hostError \cup {"bad_connection"}
          /\ UNCHANGED sent
       \/ /\ s \in DOMAIN provider /\ encodes /\ provider[s] # NoConn
          /\ SendOn(provider[s], CallServiceMsg(s, nextId))
          /\ UNCHANGED hostError
    /\ UNCHANGED <<transportVars, startup, subInfo, pubInfo, clientProxy,
                   provider, peerReqs, hostCalls, svcProxies, pubCount,
                   ghostVars, crashed>>

\* Endpoint::receive_response: the host's reply to a request it got through
\* a client proxy goes back on the connection pinned in the CallHandle,
\* unless the encoder refuses the response.
ReceiveResponse(h, encodes) ==
    /\ h \in hostCalls
    /\ IF encodes THEN SendOn(h.conn, ResponseMsg(h.service, h.id))
                  ELSE UNCHANGED sent
    /\ hostCalls' = hostCalls \ {h}
    /\ UNCHANGED <<transportVars, startup, subInfo, pubInfo, clientProxy,
                   provider, ledger, nextId, peerReqs, svcProxies, pubCount,
                   hostError, ghostVars, crashed>>

-----------------------------------------------------------------------------
(* Handlers run on the I/O worker for a frame from a live connection      *)

-----------------------------------------------------------------------------
(* Mutants: plausible bugs in the handlers below.  Each property of a     *)
(* passing run is shown to fail when one of these replaces its original.  *)

\* Mutant: a matching advertisement leaves the blacklist as it is.
ReceiveTopicAdvertisementNoErase(c, t, ty) ==
    /\ Live(c)
    /\ \/ /\ t \notin DOMAIN subInfo
          /\ UNCHANGED subInfo
       \/ /\ t \in DOMAIN subInfo /\ ty # subInfo[t].type
          /\ subInfo' = [subInfo EXCEPT ![t].blacklist = @ \cup {c}]
       \/ /\ t \in DOMAIN subInfo /\ ty = subInfo[t].type
          /\ UNCHANGED subInfo
    /\ lastAdvert' = [lastAdvert EXCEPT ![<<t, c>>] = ty]
    /\ UNCHANGED <<transportVars, startup, pubInfo, clientProxy, provider,
                   ledger, nextId, sent, peerReqs, hostVars, deliveries,
                   responded, replayLen, crashed>>

\* Mutant: _topic_subscribe_info[topic] instead of find(), so an
\* advertisement for a topic we never subscribed to creates an entry with
\* the default empty type, which the advertised type then mismatches.
ReceiveTopicAdvertisementOperatorIndex(c, t, ty) ==
    /\ Live(c)
    /\ \/ /\ t \notin DOMAIN subInfo
          /\ subInfo' = subInfo @@ (t :> [type |-> EmptyName, blacklist |-> {c}])
       \/ /\ t \in DOMAIN subInfo /\ ty # subInfo[t].type
          /\ subInfo' = [subInfo EXCEPT ![t].blacklist = @ \cup {c}]
       \/ /\ t \in DOMAIN subInfo /\ ty = subInfo[t].type
          /\ subInfo' = [subInfo EXCEPT ![t].blacklist = @ \ {c}]
    /\ lastAdvert' = [lastAdvert EXCEPT ![<<t, c>>] = ty]
    /\ UNCHANGED <<transportVars, startup, pubInfo, clientProxy, provider,
                   ledger, nextId, sent, peerReqs, hostVars, deliveries,
                   responded, replayLen, crashed>>

\* Mutant: the blacklist is not consulted before delivering.
ReceivePublicationUnfiltered(c, t) ==
    /\ Live(c)
    /\ \/ /\ t \notin DOMAIN subInfo
          /\ UNCHANGED deliveries
       \/ /\ t \in DOMAIN subInfo
          /\ deliveries' = deliveries \cup
                 {[topic |-> t, conn |-> c, advertised |-> lastAdvert[<<t, c>>],
                   expected |-> subInfo[t].type]}
    /\ UNCHANGED <<transportVars, startup, subInfo, pubInfo, clientProxy,
                   provider, ledger, nextId, sent, peerReqs, hostVars,
                   lastAdvert, responded, replayLen, crashed>>

\* Mutant: a response is delivered but its ledger entry is kept.
ReceiveServiceResponseNoErase(c, id) ==
    /\ Live(c)
    /\ \/ /\ id \notin DOMAIN ledger
          /\ UNCHANGED <<ledger, responded>>
       \/ /\ id \in DOMAIN ledger
          /\ responded' = [responded EXCEPT ![id] = @ + 1]
          /\ UNCHANGED ledger
    /\ UNCHANGED <<transportVars, startup, subInfo, pubInfo, clientProxy,
                   provider, nextId, sent, peerReqs, hostVars, lastAdvert,
                   deliveries, replayLen, crashed>>

\* Mutant: the replay loop starts at the second startup message.
NotifyConnectionOpenedSkipFirst(c) ==
    /\ wsState[c] = "open" /\ notified[c] = "none"
    /\ sent' = [sent EXCEPT ![c] = @ \o SubSeq(startup, 2, Len(startup))]
    /\ notified' = [notified EXCEPT ![c] = "opened"]
    /\ replayLen' = [replayLen EXCEPT ![c] = Len(startup)]
    /\ UNCHANGED <<wsState, started, startup, subInfo, pubInfo, clientProxy,
                   provider, ledger, nextId, peerReqs, hostVars, lastAdvert,
                   deliveries, responded, crashed>>

\* Mutant: the close handler forgets the listener maps.
NotifyConnectionClosedKeepListeners(c) ==
    /\ wsState[c] = "closed" /\ notified[c] = "opened"
    /\ subInfo' = [t \in DOMAIN subInfo |->
                     [subInfo[t] EXCEPT !.blacklist = @ \ {c}]]
    /\ provider' = Restrict(provider, {s \in DOMAIN provider : provider[s] # c})
    /\ notified' = [notified EXCEPT ![c] = "closed"]
    /\ UNCHANGED <<wsState, started, startup, pubInfo, clientProxy, ledger,
                   nextId, sent, peerReqs, hostVars, ghostVars, crashed>>

\* Mutant: the close handler forgets the service providers.
NotifyConnectionClosedKeepProviders(c) ==
    /\ wsState[c] = "closed" /\ notified[c] = "opened"
    /\ subInfo' = [t \in DOMAIN subInfo |->
                     [subInfo[t] EXCEPT !.blacklist = @ \ {c}]]
    /\ pubInfo' = [t \in DOMAIN pubInfo |->
                     [pubInfo[t] EXCEPT !.listeners = {l \in @ : l[1] # c}]]
    /\ notified' = [notified EXCEPT ![c] = "closed"]
    /\ UNCHANGED <<wsState, started, startup, clientProxy, provider, ledger,
                   nextId, sent, peerReqs, hostVars, ghostVars, crashed>>

\* receive_topic_advertisement_ws: for a topic we subscribe to, a mismatching
\* type blacklists the connection and a matching one removes it; an unknown
\* topic is only logged.  lastAdvert records what the peer said.
ReceiveTopicAdvertisement(c, t, ty) ==
    /\ Live(c)
    /\ \/ /\ t \notin DOMAIN subInfo
          /\ UNCHANGED subInfo
       \/ /\ t \in DOMAIN subInfo /\ ty # subInfo[t].type
          /\ subInfo' = [subInfo EXCEPT ![t].blacklist = @ \cup {c}]
       \/ /\ t \in DOMAIN subInfo /\ ty = subInfo[t].type
          /\ subInfo' = [subInfo EXCEPT ![t].blacklist = @ \ {c}]
    /\ lastAdvert' = [lastAdvert EXCEPT ![<<t, c>>] = ty]
    /\ UNCHANGED <<transportVars, startup, pubInfo, clientProxy, provider,
                   ledger, nextId, sent, peerReqs, hostVars, deliveries,
                   responded, replayLen, crashed>>

\* receive_topic_unadvertisement_ws does nothing.
ReceiveTopicUnadvertisement(c, t) ==
    /\ Live(c)
    /\ UNCHANGED coreVars

\* receive_publication_ws: hand the message to the subscription callback
\* unless the topic is unknown or the connection is blacklisted for it.
ReceivePublication(c, t) ==
    /\ Live(c)
    /\ \/ /\ t \in DOMAIN subInfo => c \in subInfo[t].blacklist
          /\ UNCHANGED deliveries
       \/ /\ t \in DOMAIN subInfo /\ c \notin subInfo[t].blacklist
          /\ deliveries' = deliveries \cup
                 {[topic |-> t, conn |-> c, advertised |-> lastAdvert[<<t, c>>],
                   expected |-> subInfo[t].type]}
    /\ UNCHANGED <<transportVars, startup, subInfo, pubInfo, clientProxy,
                   provider, ledger, nextId, sent, peerReqs, hostVars,
                   lastAdvert, responded, replayLen, crashed>>

\* receive_subscribe_request_ws: insert-or-find the TopicPublishInfo; a new
\* entry (type "") takes the listener unchecked; for an existing one a given
\* type that differs is refused, and with no type (nullptr) the debug log
\* line dereferences message_type, which kills the process.
ReceiveSubscribeRequest(c, t, ty, id) ==
    /\ Live(c)
    /\ \/ /\ t \notin DOMAIN pubInfo
          /\ pubInfo' = pubInfo @@ (t :> [type |-> EmptyName,
                                          listeners |-> {<<c, id>>}])
          /\ UNCHANGED crashed
       \/ /\ t \in DOMAIN pubInfo /\ ty # NoType /\ ty # pubInfo[t].type
          /\ UNCHANGED <<pubInfo, crashed>>
       \/ /\ t \in DOMAIN pubInfo /\ ty = NoType
          /\ crashed' = TRUE
          /\ UNCHANGED pubInfo
       \/ /\ t \in DOMAIN pubInfo /\ ty = pubInfo[t].type
          /\ pubInfo' = [pubInfo EXCEPT ![t].listeners = @ \cup {<<c, id>>}]
          /\ UNCHANGED crashed
    /\ UNCHANGED <<transportVars, startup, subInfo, clientProxy, provider,
                   ledger, nextId, sent, peerReqs, hostVars, ghostVars>>

\* receive_unsubscribe_request_ws: the empty id drops the connection as a
\* listener, another id drops that id (and the connection with its last id).
ReceiveUnsubscribeRequest(c, t, id) ==
    /\ Live(c)
    /\ \/ /\ t \in DOMAIN pubInfo => c \notin ListenerConns(t)
          /\ UNCHANGED pubInfo
       \/ /\ t \in DOMAIN pubInfo /\ c \in ListenerConns(t) /\ id = EmptyId
          /\ pubInfo' = [pubInfo EXCEPT ![t].listeners =
                             {l \in @ : l[1] # c}]
       \/ /\ t \in DOMAIN pubInfo /\ c \in ListenerConns(t) /\ id # EmptyId
          /\ pubInfo' = [pubInfo EXCEPT ![t].listeners = @ \ {<<c, id>>}]
    /\ UNCHANGED <<transportVars, startup, subInfo, clientProxy, provider,
                   ledger, nextId, sent, peerReqs, hostVars, ghostVars, crashed>>

\* receive_service_request_ws: a request for a service we provide goes to
\* the host's callback with a CallHandle pinning the connection; any other
\* is logged.  A peer never reuses one of its ids on a connection.
ReceiveServiceRequest(c, s, id) ==
    /\ Live(c)
    /\ <<c, s, id>> \notin peerReqs
    /\ peerReqs' = peerReqs \cup {<<c, s, id>>}
    /\ hostCalls' = IF s \in clientProxy
                    THEN hostCalls \cup {[service |-> s, id |-> id, conn |-> c]}
                    ELSE hostCalls
    /\ UNCHANGED <<transportVars, startup, subInfo, pubInfo, clientProxy,
                   provider, ledger, nextId, sent, svcProxies, pubCount,
                   hostError, ghostVars, crashed>>

\* receive_service_advertisement_ws: the advertising connection becomes the
\* provider, overwriting any earlier one.
ReceiveServiceAdvertisement(c, s) ==
    /\ Live(c)
    /\ provider' = (s :> c) @@ provider
    /\ UNCHANGED <<transportVars, startup, subInfo, pubInfo, clientProxy,
                   ledger, nextId, sent, peerReqs, hostVars, ghostVars, crashed>>

\* receive_service_unadvertisement_ws: erase the provider only when it is
\* this connection.
ReceiveServiceUnadvertisement(c, s) ==
    /\ Live(c)
    /\ provider' = IF s \in DOMAIN provider /\ provider[s] = c
                   THEN Erase(provider, s) ELSE provider
    /\ UNCHANGED <<transportVars, startup, subInfo, pubInfo, clientProxy,
                   ledger, nextId, sent, peerReqs, hostVars, ghostVars, crashed>>

\* receive_service_response_ws: a known id is delivered to its client and
\* erased, whichever connection it came from; an unknown id is logged.
ReceiveServiceResponse(c, id) ==
    /\ Live(c)
    /\ \/ /\ id \notin DOMAIN ledger
          /\ UNCHANGED <<ledger, responded>>
       \/ /\ id \in DOMAIN ledger
          /\ responded' = [responded EXCEPT ![id] = @ + 1]
          /\ ledger' = Erase(ledger, id)
    /\ UNCHANGED <<transportVars, startup, subInfo, pubInfo, clientProxy,
                   provider, nextId, sent, peerReqs, hostVars, lastAdvert,
                   deliveries, replayLen, crashed>>

-----------------------------------------------------------------------------
(* Connection notifications (Endpoint.cpp)                                *)

\* notify_connection_opened: replay the startup messages in order.
NotifyConnectionOpened(c) ==
    /\ wsState[c] = "open" /\ notified[c] = "none"
    /\ sent' = [sent EXCEPT ![c] = @ \o startup]
    /\ notified' = [notified EXCEPT ![c] = "opened"]
    /\ replayLen' = [replayLen EXCEPT ![c] = Len(startup)]
    /\ UNCHANGED <<wsState, started, startup, subInfo, pubInfo, clientProxy,
                   provider, ledger, nextId, peerReqs, hostVars, lastAdvert, deliveries,
                   responded, crashed>>

\* notify_connection_closed: drop the connection from every blacklist, every
\* listener map and every provider it held; the ledger is left alone.
NotifyConnectionClosed(c) ==
    /\ wsState[c] = "closed" /\ notified[c] = "opened"
    /\ subInfo' = [t \in DOMAIN subInfo |->
                     [subInfo[t] EXCEPT !.blacklist = @ \ {c}]]
    /\ pubInfo' = [t \in DOMAIN pubInfo |->
                     [pubInfo[t] EXCEPT !.listeners = {l \in @ : l[1] # c}]]
    /\ provider' = Restrict(provider, {s \in DOMAIN provider : provider[s] # c})
    /\ notified' = [notified EXCEPT ![c] = "closed"]
    /\ UNCHANGED <<wsState, started, startup, clientProxy, ledger, nextId, sent,
                   peerReqs, hostVars, ghostVars, crashed>>

-----------------------------------------------------------------------------
(* The transport: websocketpp session states, modelled from the spec       *)

\* A peer connects (the server side accepts; the Client dials in spin_once).
TransportConnect(c) ==
    /\ wsState[c] = "idle"
    /\ wsState' = [wsState EXCEPT ![c] = "connecting"]
    /\ started' = TRUE
    /\ UNCHANGED <<notified, startup, subInfo, pubInfo, clientProxy, provider,
                   ledger, nextId, sent, peerReqs, hostVars, ghostVars, crashed>>

\* The handshake completes: the state is open before the open handler runs.
TransportOpen(c) ==
    /\ wsState[c] = "connecting"
    /\ wsState' = [wsState EXCEPT ![c] = "open"]
    /\ UNCHANGED <<notified, started, startup, subInfo, pubInfo, clientProxy, provider,
                   ledger, nextId, sent, peerReqs, hostVars, ghostVars, crashed>>

\* The handshake fails: the state is closed and the fail handler follows.
TransportFail(c) ==
    /\ wsState[c] = "connecting"
    /\ wsState' = [wsState EXCEPT ![c] = "closed"]
    /\ UNCHANGED <<notified, started, startup, subInfo, pubInfo, clientProxy, provider,
                   ledger, nextId, sent, peerReqs, hostVars, ghostVars, crashed>>

\* An open connection is closed by the peer or lost; the close handler is
\* queued after the open handler.
TransportClose(c) ==
    /\ wsState[c] = "open" /\ notified[c] = "opened"
    /\ wsState' = [wsState EXCEPT ![c] = "closed"]
    /\ UNCHANGED <<notified, started, startup, subInfo, pubInfo, clientProxy, provider,
                   ledger, nextId, sent, peerReqs, hostVars, ghostVars, crashed>>

-----------------------------------------------------------------------------
NoEntries == [x \in {} |-> NoConn]

CoreInit ==
    /\ wsState = [c \in Conns |-> "idle"]
    /\ notified = [c \in Conns |-> "none"]
    /\ started = FALSE
    /\ startup = <<>>
    /\ subInfo = NoEntries
    /\ pubInfo = NoEntries
    /\ clientProxy = {}
    /\ provider = NoEntries
    /\ ledger = NoEntries
    /\ nextId = 1
    /\ sent = [c \in Conns |-> <<>>]
    /\ hostCalls = {}
    /\ peerReqs = {}
    /\ svcProxies = {}
    /\ pubCount = 0
    /\ lastAdvert = [p \in Topics \X Conns |-> NoAdvert]
    /\ deliveries = {}
    /\ responded = [i \in CallIds |-> 0]
    /\ replayLen = [c \in Conns |-> 0]
    /\ hostError = {}
    /\ crashed = FALSE

HostRegistration ==
    \/ \E t \in Topics : Subscribe(t, HostType[t])
    \/ \E t \in Topics : StartupAdvertisement(t, HostType[t])
    \/ \E s \in Services, b \in BOOLEAN : CreateClientProxy(s, b)
    \/ \E s \in Services : CreateServiceProxy(s)

HostRuntime ==
    \/ \E t \in Topics, e \in BOOLEAN : Publish(t, e)
    \/ \E s \in Services, e \in BOOLEAN : CallService(s, e)
    \/ \E h \in hostCalls, e \in BOOLEAN : ReceiveResponse(h, e)

\* Encoding::interpret dispatching one frame from connection c.
Interpret(c) ==
    \/ \E t \in Topics, ty \in Types : ReceiveTopicAdvertisement(c, t, ty)
    \/ \E t \in Topics : ReceiveTopicUnadvertisement(c, t)
    \/ \E t \in Topics : ReceivePublication(c, t)
    \/ \E t \in Topics, ty \in RequestTypes, id \in SubIds :
           ReceiveSubscribeRequest(c, t, ty, id)
    \/ \E t \in Topics, id \in SubIds : ReceiveUnsubscribeRequest(c, t, id)
    \/ \E s \in Services, id \in PeerCallIds : ReceiveServiceRequest(c, s, id)
    \/ \E s \in Services : ReceiveServiceAdvertisement(c, s)
    \/ \E s \in Services : ReceiveServiceUnadvertisement(c, s)
    \/ \E id \in CallIds : ReceiveServiceResponse(c, id)

Transport(c) ==
    \/ TransportConnect(c)
    \/ TransportOpen(c)
    \/ TransportFail(c)
    \/ TransportClose(c)

\* Every connection handle has been used and is closed: the bounded model
\* has nothing left to do.
Exhausted ==
    /\ \A c \in Conns : wsState[c] = "closed"
    /\ UNCHANGED coreVars

\* The process has died (the null dereference of ReceiveSubscribeRequest):
\* nothing happens any more.
Dead ==
    /\ crashed
    /\ UNCHANGED coreVars

CoreNext ==
    \/ /\ ~crashed
       /\ \/ HostRegistration
          \/ HostRuntime
          \/ \E c \in Conns : Transport(c) \/ Interpret(c)
          \/ \E c \in Conns : NotifyConnectionOpened(c) \/ NotifyConnectionClosed(c)
          \/ Exhausted
    \/ Dead

CoreSpec == CoreInit /\ [][CoreNext]_coreVars

-----------------------------------------------------------------------------
(* Properties                                                             *)

Frames == [op : {"subscribe", "advertise", "advertise_service", "publish",
                 "call_service", "service_response"},
           name : Topics \cup Services, id : SubIds \cup CallIds \cup PeerCallIds]

CoreTypeOK ==
    /\ wsState \in [Conns -> WsStates]
    /\ notified \in [Conns -> {"none", "opened", "closed", "failed"}]
    /\ started \in BOOLEAN
    /\ startup \in Seq(Frames)
    /\ DOMAIN subInfo \subseteq Topics
    /\ \A t \in DOMAIN subInfo :
          subInfo[t] \in [type : Types, blacklist : SUBSET Conns]
    /\ DOMAIN pubInfo \subseteq Topics
    /\ \A t \in DOMAIN pubInfo :
          pubInfo[t] \in [type : Types \cup {EmptyName},
                          listeners : SUBSET (Conns \X SubIds)]
    /\ clientProxy \subseteq Services
    /\ DOMAIN provider \subseteq Services
    /\ \A s \in DOMAIN provider : provider[s] \in Conns \cup {NoConn}
    /\ DOMAIN ledger \subseteq CallIds
    /\ \A i \in DOMAIN ledger : ledger[i] \in Services
    /\ nextId \in 1..(MaxCalls + 1)
    /\ sent \in [Conns -> Seq(Frames)]
    /\ responded \in [CallIds -> Nat]
    /\ replayLen \in [Conns -> Nat]
    /\ crashed \in BOOLEAN

\* Spec 8.2 (receive_topic_advertisement_ws): a live connection is in a
\* topic's blacklist exactly when the last advertisement it sent for that
\* topic named a type other than the one we subscribed with.
BlacklistIsLastAdvert ==
    \A t \in DOMAIN subInfo, c \in Conns :
        notified[c] = "opened" =>
            (c \in subInfo[t].blacklist
                <=> lastAdvert[<<t, c>>] \notin {NoAdvert, subInfo[t].type})

\* Scenario B (receive_publication_ws): a subscription callback is never
\* handed a publication from a connection whose last advertisement of the
\* topic named another type.
PublicationFiltered ==
    \A d \in deliveries : d.advertised \in {NoAdvert, d.expected}

\* Spec 8.5 (notify_connection_closed) with the handlers' connection
\* checks: every connection a blacklist, a listener map or the provider
\* table names is one whose open handler has run and whose close handler
\* has not.  A handle that never opened, failed, or was closed (and, in
\* the Client, one whose address is later reused) is named nowhere.
TablesNameOnlyOpenedConns ==
    LET named == UNION {subInfo[t].blacklist : t \in DOMAIN subInfo}
                 \cup UNION {ListenerConns(t) : t \in DOMAIN pubInfo}
                 \cup (Range(provider) \ {NoConn})
    IN  \A c \in named : notified[c] = "opened"

\* Spec 8.3 (notify_connection_opened): nothing is written on a connection
\* before its open handler, which writes the whole startup log of that
\* moment, in order, first.
StartupReplayedFirst ==
    \A c \in Conns :
        /\ notified[c] = "none" => sent[c] = <<>>
        /\ notified[c] # "none" =>
              IsPrefix(SubSeq(startup, 1, replayLen[c]), sent[c])

\* call_service, receive_service_response_ws and notify_connection_closed
\* together implement the abstract call ledger (spec 8.1/8.6): the table's
\* keys are the outstanding calls, _next_service_call_id the next id, and
\* the calls whose client got a response the answered ones.
Ledger == INSTANCE CallLedger WITH
    next <- nextId,
    outstanding <- DOMAIN ledger,
    answered <- {i \in CallIds : responded[i] > 0}

LedgerRefinement == Ledger!Spec

\* Spec 7: runtime errors are recovered locally; none propagates to the host.
NoHostError == hostError = {}

\* The handlers never execute undefined behaviour that ends the process.
NoCrash == ~crashed

=============================================================================
