--------------------------- MODULE EndpointThreads ---------------------------
(***************************************************************************)
(* The Endpoint's tables as shared memory between the threads that touch  *)
(* them.  Host threads (any thread of the integration service that owns a  *)
(* ServiceClient or a publisher) run Endpoint::call_service and            *)
(* Endpoint::publish; the websocketpp I/O thread runs the receive_*_ws     *)
(* handlers and notify_connection_closed.  Only the id counter and the     *)
(* insert into _service_request_info are under                             *)
(* _next_service_call_id_mutex.                                            *)
(*                                                                         *)
(* Each statement that reads or writes a table is split into a begin and  *)
(* an end step, and the threads inside it are recorded in `access`, so     *)
(* that two overlapping accesses are visible as a state.  The unordered    *)
(* maps are data: only the request ids and whether the service has a       *)
(* provider are kept.  `_next_service_call_id++` is a load and a store.    *)
(***************************************************************************)
EXTENDS Naturals, FiniteSets, TLC

CONSTANTS
    HostThreads,  \* threads calling call_service and publish
    Io,           \* the websocketpp I/O thread
    Nobody,       \* no owner of the mutex
    NoId,         \* a host thread holds no call id
    MaxCalls,     \* bound on the ids a host thread may take
    MaxPublish,   \* bound on publish() calls
    MaxRegister   \* bound on subscribe() / advertise() calls made at run time

ASSUME Io \notin HostThreads
ASSUME {MaxCalls, MaxPublish, MaxRegister} \subseteq Nat

Threads == HostThreads \cup {Io}
CallIds == 1..(MaxCalls + 1)
Tables == {"requests", "providers", "publish", "startup", "subscribers"}

VARIABLES
    pc,         \* Threads -> where the thread is
    lockOwner,  \* holder of _next_service_call_id_mutex
    nextId,     \* _next_service_call_id
    myId,       \* HostThreads -> the id call_service loaded
    requests,   \* keys of _service_request_info
    hasProvider,\* _service_provider_info holds the called service
    sentIds,    \* ids of call_service frames sent to the provider
    answering,  \* the id of the response the I/O thread is handling
    answeredIds,\* ghost: ids the provider has responded to
    given,      \* ghost: <<thread, id>> for every id call_service took
    pubCount,   \* publish() calls made
    regCount,   \* subscribe() / advertise() calls made
    access      \* Tables -> [r, w]: threads reading / writing it now

vars == <<pc, lockOwner, nextId, myId, requests, hasProvider, sentIds,
          answering, answeredIds, given, pubCount, regCount, access>>

\* Move thread th from one statement to the next.
Goto(th, from, to) ==
    /\ pc[th] = from
    /\ pc' = [pc EXCEPT ![th] = to]

\* Thread th starts / finishes reading or writing table tb.
StartAccess(th, tb, mode) == access' = [access EXCEPT ![tb][mode] = @ \cup {th}]
EndAccess(th, tb, mode)   == access' = [access EXCEPT ![tb][mode] = @ \ {th}]

-----------------------------------------------------------------------------
(* Endpoint::call_service on a host thread                                *)

\* Mutant: the lock_guard is missing, so the thread never waits.
CallLockNoWait(th) ==
    /\ Goto(th, "idle", "load_id")
    /\ nextId <= MaxCalls
    /\ lockOwner' = th
    /\ UNCHANGED <<nextId, myId, requests, hasProvider, sentIds, answering,
                   answeredIds, given, pubCount, regCount, access>>

\* lock_guard on _next_service_call_id_mutex.
CallLock(th) ==
    /\ Goto(th, "idle", "load_id")
    /\ nextId <= MaxCalls
    /\ lockOwner = Nobody
    /\ lockOwner' = th
    /\ UNCHANGED <<nextId, myId, requests, hasProvider, sentIds, answering,
                   answeredIds, given, pubCount, regCount, access>>

\* id = _next_service_call_id++, the load ...
LoadId(th) ==
    /\ Goto(th, "load_id", "store_id")
    /\ myId' = [myId EXCEPT ![th] = nextId]
    /\ UNCHANGED <<lockOwner, nextId, requests, hasProvider, sentIds,
                   answering, answeredIds, given, pubCount, regCount, access>>

\* ... and the store.
StoreId(th) ==
    /\ Goto(th, "store_id", "insert")
    /\ nextId' = myId[th] + 1
    /\ given' = given \cup {<<th, myId[th]>>}
    /\ UNCHANGED <<lockOwner, myId, requests, hasProvider, sentIds, answering,
                   answeredIds, pubCount, regCount, access>>

\* _service_request_info[id_str] = {...}: the insert may rehash.
BeginInsert(th) ==
    /\ Goto(th, "insert", "inserting")
    /\ StartAccess(th, "requests", "w")
    /\ UNCHANGED <<lockOwner, nextId, myId, requests, hasProvider, sentIds,
                   answering, answeredIds, given, pubCount, regCount>>

EndInsert(th) ==
    /\ Goto(th, "inserting", "unlock")
    /\ requests' = requests \cup {myId[th]}
    /\ EndAccess(th, "requests", "w")
    /\ UNCHANGED <<lockOwner, nextId, myId, hasProvider, sentIds, answering,
                   answeredIds, given, pubCount, regCount>>

\* The lock_guard's scope ends.
CallUnlock(th) ==
    /\ Goto(th, "unlock", "lookup")
    /\ lockOwner' = Nobody
    /\ UNCHANGED <<nextId, myId, requests, hasProvider, sentIds, answering,
                   answeredIds, given, pubCount, regCount, access>>

\* _service_provider_info.at(service), without the lock.
BeginLookup(th) ==
    /\ Goto(th, "lookup", "looking")
    /\ StartAccess(th, "providers", "r")
    /\ UNCHANGED <<lockOwner, nextId, myId, requests, hasProvider, sentIds,
                   answering, answeredIds, given, pubCount, regCount>>

\* at() returns the provider, or throws out_of_range to the host.
EndLookup(th) ==
    /\ pc[th] = "looking"
    /\ pc' = [pc EXCEPT ![th] = IF hasProvider THEN "send" ELSE "idle"]
    /\ EndAccess(th, "providers", "r")
    /\ UNCHANGED <<lockOwner, nextId, myId, requests, hasProvider, sentIds,
                   answering, answeredIds, given, pubCount, regCount>>

\* Encode and send the call on the provider's connection.
CallSend(th) ==
    /\ Goto(th, "send", "idle")
    /\ sentIds' = sentIds \cup {myId[th]}
    /\ UNCHANGED <<lockOwner, nextId, myId, requests, hasProvider, answering,
                   answeredIds, given, pubCount, regCount, access>>

-----------------------------------------------------------------------------
(* Endpoint::publish on a host thread                                     *)

\* _topic_publish_info.at(topic), then the loop over info.listeners.
BeginPublish(th) ==
    /\ Goto(th, "idle", "publishing")
    /\ pubCount < MaxPublish
    /\ pubCount' = pubCount + 1
    /\ StartAccess(th, "publish", "r")
    /\ UNCHANGED <<lockOwner, nextId, myId, requests, hasProvider, sentIds,
                   answering, answeredIds, given, regCount>>

EndPublish(th) ==
    /\ Goto(th, "publishing", "idle")
    /\ EndAccess(th, "publish", "r")
    /\ UNCHANGED <<lockOwner, nextId, myId, requests, hasProvider, sentIds,
                   answering, answeredIds, given, pubCount, regCount>>

-----------------------------------------------------------------------------
(* Endpoint::subscribe and Endpoint::advertise at run time (spec 5 lets   *)
(* registration happen after the I/O thread has started)                  *)

\* Thread th leaves one table and enters the next in one step.
SwitchAccess(th, from, to) ==
    access' = [access EXCEPT ![from].w = @ \ {th}, ![to].w = @ \cup {th}]

Others == <<lockOwner, nextId, myId, requests, hasProvider, sentIds,
            answering, answeredIds, given, pubCount>>

\* subscribe: _startup_messages.emplace_back(encode_subscribe_msg(...)),
\* which may reallocate the vector, ...
BeginSubscribe(th) ==
    /\ Goto(th, "idle", "sub_append")
    /\ regCount < MaxRegister
    /\ regCount' = regCount + 1
    /\ StartAccess(th, "startup", "w")
    /\ UNCHANGED Others

\* ... then _topic_subscribe_info[topic_name] and its type and callback.
SubscribeInfo(th) ==
    /\ Goto(th, "sub_append", "sub_info")
    /\ SwitchAccess(th, "startup", "subscribers")
    /\ UNCHANGED <<regCount, Others>>

EndSubscribe(th) ==
    /\ Goto(th, "sub_info", "idle")
    /\ EndAccess(th, "subscribers", "w")
    /\ UNCHANGED <<regCount, Others>>

\* advertise -> make_topic_publisher -> startup_advertisement:
\* _topic_publish_info[topic] and its type, ...
BeginAdvertise(th) ==
    /\ Goto(th, "idle", "adv_info")
    /\ regCount < MaxRegister
    /\ regCount' = regCount + 1
    /\ StartAccess(th, "publish", "w")
    /\ UNCHANGED Others

\* ... then _startup_messages.emplace_back(encode_advertise_msg(...)).
AdvertiseAppend(th) ==
    /\ Goto(th, "adv_info", "adv_append")
    /\ SwitchAccess(th, "publish", "startup")
    /\ UNCHANGED <<regCount, Others>>

EndAdvertise(th) ==
    /\ Goto(th, "adv_append", "idle")
    /\ EndAccess(th, "startup", "w")
    /\ UNCHANGED <<regCount, Others>>

-----------------------------------------------------------------------------
(* Handlers on the I/O thread                                             *)

\* receive_service_response_ws: _service_request_info.find(id), unlocked,
\* for a response the provider sends to a call it received.
BeginFindResponse(i) ==
    /\ Goto(Io, "idle", "finding")
    /\ i \in sentIds \ answeredIds
    /\ answering' = i
    /\ answeredIds' = answeredIds \cup {i}
    /\ StartAccess(Io, "requests", "r")
    /\ UNCHANGED <<lockOwner, nextId, myId, requests, hasProvider, sentIds,
                   given, pubCount, regCount>>

\* A known id goes on to the erase; an unknown one is logged.
EndFindResponse ==
    /\ pc[Io] = "finding"
    /\ pc' = [pc EXCEPT ![Io] = IF answering \in requests THEN "erase" ELSE "idle"]
    /\ EndAccess(Io, "requests", "r")
    /\ UNCHANGED <<lockOwner, nextId, myId, requests, hasProvider, sentIds,
                   answering, answeredIds, given, pubCount, regCount>>

\* _service_request_info.erase(it) after the client got its response.
BeginErase ==
    /\ Goto(Io, "erase", "erasing")
    /\ StartAccess(Io, "requests", "w")
    /\ UNCHANGED <<lockOwner, nextId, myId, requests, hasProvider, sentIds,
                   answering, answeredIds, given, pubCount, regCount>>

EndErase ==
    /\ Goto(Io, "erasing", "idle")
    /\ requests' = requests \ {answering}
    /\ EndAccess(Io, "requests", "w")
    /\ UNCHANGED <<lockOwner, nextId, myId, hasProvider, sentIds, answering,
                   answeredIds, given, pubCount, regCount>>

\* receive_service_advertisement_ws assigns the provider entry;
\* receive_service_unadvertisement_ws and notify_connection_closed erase it.
BeginProviderWrite ==
    /\ Goto(Io, "idle", "writing_providers")
    /\ StartAccess(Io, "providers", "w")
    /\ UNCHANGED <<lockOwner, nextId, myId, requests, hasProvider, sentIds,
                   answering, answeredIds, given, pubCount, regCount>>

EndProviderWrite(advertised) ==
    /\ Goto(Io, "writing_providers", "idle")
    /\ hasProvider' = advertised
    /\ EndAccess(Io, "providers", "w")
    /\ UNCHANGED <<lockOwner, nextId, myId, requests, sentIds, answering,
                   answeredIds, given, pubCount, regCount>>

\* receive_subscribe_request_ws inserts into _topic_publish_info and a
\* listener set; receive_unsubscribe_request_ws and notify_connection_closed
\* erase listeners.
BeginListenerWrite ==
    /\ Goto(Io, "idle", "writing_listeners")
    /\ StartAccess(Io, "publish", "w")
    /\ UNCHANGED <<lockOwner, nextId, myId, requests, hasProvider, sentIds,
                   answering, answeredIds, given, pubCount, regCount>>

EndListenerWrite ==
    /\ Goto(Io, "writing_listeners", "idle")
    /\ EndAccess(Io, "publish", "w")
    /\ UNCHANGED <<lockOwner, nextId, myId, requests, hasProvider, sentIds,
                   answering, answeredIds, given, pubCount, regCount>>

\* notify_connection_opened: the range-for over _startup_messages that
\* sends each one on the new connection.
BeginReplay ==
    /\ Goto(Io, "idle", "replaying")
    /\ StartAccess(Io, "startup", "r")
    /\ UNCHANGED <<regCount, Others>>

EndReplay ==
    /\ Goto(Io, "replaying", "idle")
    /\ EndAccess(Io, "startup", "r")
    /\ UNCHANGED <<regCount, Others>>

\* receive_publication_ws: _topic_subscribe_info.find(topic_name), the
\* blacklist lookup and the subscriber callback.
BeginDeliver ==
    /\ Goto(Io, "idle", "delivering")
    /\ StartAccess(Io, "subscribers", "r")
    /\ UNCHANGED <<regCount, Others>>

EndDeliver ==
    /\ Goto(Io, "delivering", "idle")
    /\ EndAccess(Io, "subscribers", "r")
    /\ UNCHANGED <<regCount, Others>>

-----------------------------------------------------------------------------
Init ==
    /\ pc = [th \in Threads |-> "idle"]
    /\ lockOwner = Nobody
    /\ nextId = 1
    /\ myId = [th \in HostThreads |-> NoId]
    /\ requests = {}
    /\ hasProvider \in BOOLEAN
    /\ sentIds = {}
    /\ answering = NoId
    /\ answeredIds = {}
    /\ given = {}
    /\ pubCount = 0
    /\ regCount = 0
    /\ access = [tb \in Tables |-> [r |-> {}, w |-> {}]]

HostStep(th) ==
    \/ CallLock(th) \/ LoadId(th) \/ StoreId(th) \/ BeginInsert(th)
    \/ EndInsert(th) \/ CallUnlock(th) \/ BeginLookup(th) \/ EndLookup(th)
    \/ CallSend(th) \/ BeginPublish(th) \/ EndPublish(th)
    \/ BeginSubscribe(th) \/ SubscribeInfo(th) \/ EndSubscribe(th)
    \/ BeginAdvertise(th) \/ AdvertiseAppend(th) \/ EndAdvertise(th)

IoStep ==
    \/ \E i \in CallIds : BeginFindResponse(i)
    \/ EndFindResponse \/ BeginErase \/ EndErase
    \/ BeginProviderWrite \/ \E b \in BOOLEAN : EndProviderWrite(b)
    \/ BeginListenerWrite \/ EndListenerWrite
    \/ BeginReplay \/ EndReplay \/ BeginDeliver \/ EndDeliver

Next == (\E th \in HostThreads : HostStep(th)) \/ IoStep

Spec == Init /\ [][Next]_vars

-----------------------------------------------------------------------------
(* Properties                                                             *)

ThreadsTypeOK ==
    /\ lockOwner \in HostThreads \cup {Nobody}
    /\ nextId \in CallIds
    /\ myId \in [HostThreads -> CallIds \cup {NoId}]
    /\ requests \subseteq CallIds
    /\ hasProvider \in BOOLEAN
    /\ access \in [Tables -> [r : SUBSET Threads, w : SUBSET Threads]]

\* A table is free of data races when nobody touches it while it is being
\* written: at most one writer, and no reader during a write.
RaceFree(tb) ==
    access[tb].w # {} =>
        /\ Cardinality(access[tb].w) = 1
        /\ access[tb].r = {}

\* call_service, publish, subscribe, advertise and the I/O thread's
\* handlers (spec 5): none of the five tables the host threads and the I/O
\* thread share without a lock is ever touched while it is being written:
\* the request table (insert vs find and erase), the provider table (at()
\* vs advertise/unadvertise), the listener map (publish's loop vs a
\* subscribe request, startup_advertisement vs a subscribe request), the
\* startup messages (emplace_back vs the replay loop of
\* notify_connection_opened) and the subscriber table (subscribe vs
\* receive_publication_ws).
NoTableRace == \A tb \in Tables : RaceFree(tb)

\* call_service (_next_service_call_id_mutex): no two calls, of any host
\* threads, ever get the same id, so no response is given to the wrong
\* client.
UniqueCallIds ==
    \A p, q \in given : p[2] = q[2] => p = q

=============================================================================
