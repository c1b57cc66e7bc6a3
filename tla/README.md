# TLA+ models of the WebSocket system handle

These modules model `src/src/Endpoint.cpp` (the Endpoint core) and
`src/src/Client.cpp` (the WebSocket Client built on it). They are checked
with TLC. `PROJECT.json` lists the components, the runs, the mutants, the map
from every definition to the lines it models, the findings and the hazards.

## The system

* **Endpoint core** (`Endpoint.cpp`). It has these tables:
  * `_topic_subscribe_info`: topic -> type, callback and blacklist of peer
    connections.
  * `_topic_publish_info`: topic -> type and listeners (connection -> ids).
  * `_client_proxy_info`: the services this endpoint provides.
  * `_service_provider_info`: service -> the connection that advertised it.
  * `_service_request_info`: the ledger of outbound calls, keyed by
    `_next_service_call_id`.
  * `_startup_messages`: the log of encoded subscribe/advertise frames.

  The host thread calls these:
  * registration: `subscribe`, `advertise`/`startup_advertisement`,
    `create_client_proxy`, `create_service_proxy`;
  * runtime: `publish`, `call_service`, `receive_response`.

  The I/O thread runs:
  * the `receive_*_ws` handlers, which `Encoding::interpret_websocket_msg`
    dispatches to;
  * `notify_connection_opened`, which replays the startup log;
  * `notify_connection_closed`, which erases the handle from every table
    except the ledger.
* **Client** (`Client.cpp`). The host loop calls `spin_once`. It dials a new
  connection on the first call, and later whenever the current one is null or
  closed and 2 s have passed. Client also has:
  * `runtime_advertisement`, which writes straight onto the current connection;
  * websocketpp handlers for open, close, fail and message, which run on the
    `_client_thread` and call into the core;
  * a destructor that closes, waits up to 10 s, then stops and joins.
* **Outside `src/`**, so modelled from `spec.md`:
  * the transport (websocketpp session states);
  * the encoding (frames are abstracted to op, name and id).
* **Configuration** (`Endpoint::configure` and the Client's
  `configure_*_endpoint`, `parse_port`, `parse_hostname`, `_load_auth_config`,
  `configure_client`): choose the encoding, choose TLS or TCP from the
  `security` key, build `_host_uri`, set up the SSL context and start the I/O
  thread. Endpoint and Client each keep their own `_use_security`.
* **Not modelled:** the server.

## Modules

| Module | Models |
|---|---|
| `EndpointCore.tla` | The Endpoint core, with the transport as environment actions. One action per handler and per host call. `CoreSpec` is the server-like composition: any number of peers connect. |
| `WsClient.tla` | Extends `EndpointCore` with the Client's variables (`current` = `_tcp_connection`, `hasSpunOnce`, `connectionFailed`, `closingDown`, `attemptDue` for the 2 s timer, destructor `phase`). It adds the spin loop, the handlers, the destructor and `Recycle` (a freed connection's address can be reused by a later `get_connection`). |
| `CallLedger.tla` | The abstract call ledger: fresh ids in order, each call answered at most once and only while outstanding. `EndpointCore` instantiates it with `INSTANCE ... WITH` (`next <- nextId`, `outstanding <- DOMAIN ledger`, `answered <-` the ids with a response) and checks `LedgerRefinement`. |
| `EndpointThreads.tla` | The tables as memory shared by host threads and the I/O thread. `call_service` is split into lock, id load, id store, insert, unlock, provider lookup and send; `publish` into the start and end of its listener loop; a run-time `subscribe` into its `_startup_messages` append and its `_topic_subscribe_info` write, and `advertise` (through `startup_advertisement`) into its `_topic_publish_info` write and its append; the response, provider and listener handlers, the replay loop of `notify_connection_opened` and the lookup of `receive_publication_ws` into begin/end accesses. `access` records which threads are inside which table. |
| `ClientConfig.tla` | One `Configure` action for `Endpoint::configure` on a new Client, with the YAML keys and the environment's answers (system CAs, one extra CA, verify setup) as an input record chosen in `Init`. Both `_use_security` fields start with either value, because no constructor sets them. `ParsePort` keeps the 32-bit `int` range and `ToUint16` the narrowing cast. |
| `MC_EndpointCore.tla`, `MC_WsClient.tla`, `MC_EndpointThreads.tla`, `MC_ClientConfig.tla` | Model values and small sets for TLC. |

### How the models abstract the code

* **Atomic steps.** Each handler and each host call is one step. The websocketpp
  worker serialises handlers. A host call interleaves with handlers only between
  steps, which is an abstraction of the unlocked races listed as hazards.
* **Ghost variables.** These record what the properties need:
  * `lastAdvert`: the last type a peer advertised per topic;
  * `deliveries`: publications handed to callbacks;
  * `responded`: responses per call id;
  * `replayLen`: the length of the startup log when the open handler ran.
* **Sends.** A send on a connection that is not open is lost; the code only
  logs its error code (`SendOn`).
* **Encoder refusals.** `publish`, `call_service` and `receive_response`
  take a boolean for whether the encoder returned a payload. An empty payload
  sends nothing. In `call_service` the ledger entry stays, and the check comes
  before `get_con_from_hdl`, so a refused call to a provider with a null
  handle returns quietly instead of throwing.
* **Host calls.** Each registration is made at most once. Registration happens
  before the first connection unless `RuntimeRegistration` is TRUE, which
  spec §5 allows.

## Runs

| Run | Result | What it shows |
|---|---|---|
| `core_topics` (`EndpointCore_Topics.cfg`) | pass | Checks `BlacklistIsLastAdvert`, `PublicationFiltered`, `TablesNameOnlyOpenedConns` (every connection a blacklist, listener map or provider entry names has had its open handler and not yet its close handler) and `StartupReplayedFirst`. The setup: two peers, one topic, two types, subscribe requests with or without a type, reconnection. |
| `core_services` (`EndpointCore_Services.cfg`) | pass | Checks `TablesNameOnlyOpenedConns` for providers, and `LedgerRefinement`: the Endpoint's ledger implements `CallLedger`. The setup: two peers advertise, unadvertise, request and respond, with 2 calls. |
| `client_topics` (`WsClient_Topics.cfg`) | pass | Checks three things: `OneConnectionAttempt` (only `current` is ever connecting or open), `ReconnectEventually` (liveness), and `ShutdownCompletes`: once the destructor starts it stops and joins the I/O thread, thanks to the 10 s limit, even if the server never acknowledges the close. |
| `threads_call_ids` (`EndpointThreads_CallIds.cfg`) | pass | `UniqueCallIds`: with two host threads that also publish, subscribe and advertise, the mutex around `_next_service_call_id++` keeps ids unique. |
| `threads_table_race` | violation | `NoTableRace` over the five tables the threads share without a lock. Finding: one host thread's `publish` reads `_topic_publish_info` while another's run-time `advertise` inserts into it (Endpoint.cpp:315 vs 294), the first overlap TLC reports. The I/O thread's subscribe handler writes the same map (594). The request table (738/759 vs 372), the provider table (375 vs 701), `_startup_messages` (the replay loop at 791 vs `emplace_back` at 161/297) and `_topic_subscribe_info` (528 vs 165) are shared the same way. The run reports only the first overlap; the other tables' overlaps are the same begin/end pattern and are not separate runs. |
| `config_security` (`ClientConfig_Pass.cfg`) | pass | `SecurityAgrees`: for all 3840 configurations, a successful configure leaves the two `_use_security` fields, the endpoint made and the URI scheme in agreement. |
| `config_usable` | violation | Finding: `success = _tcp_endpoint != nullptr` is always true after `make_shared`, so configure succeeds with no port (Endpoint.cpp:127). With port 70000 as the only input, the same property fails because the port is narrowed to 4464. |
| `config_throws` | violation | Finding: a non-integer port throws `YAML::TypedBadConversion`, but `parse_port` catches only `YAML::InvalidNode` (Endpoint.cpp:861). |
| `core_untyped_subscribe` | violation | Finding: null dereference at Endpoint.cpp:591. |
| `core_call_throws` | violation | Finding: `call_service` throws into the host (spec §7). |
| `core_runtime_subscribe` | violation | Finding: a runtime subscribe misses earlier advertisements (spec §8.2). |
| `client_runtime_advertise` | violation | Finding: `runtime_advertisement` writes before the startup replay (spec §8). |

Every property of a passing run is broken by a mutant in `PROJECT.json`. Each
mutant is a plausible bug in one handler: a missing erase, a skipped
blacklist test, an off-by-one replay loop, `||` written as `&&` in
`spin_once`, redialling while a handshake is running, a TLS path that leaves
`_use_security` false, or a URI built from the unnarrowed port.

### Bounds

* **Core runs.** They use:
  * 2 connection handles, which is enough for the cross-peer cases: a
    blacklist per peer, the provider overwritten by another peer, a response
    from another connection;
  * 1 topic or 1 service;
  * 2 types (matching and mismatching);
  * a subscription id besides the empty one;
  * `MaxPublish = 1`, and `MaxCalls = 1` or 2.

  Handles are symmetric.
* **Threads runs.** Two host threads (symmetric) and the I/O thread, with
  `MaxCalls` 2 (one call each, so the ids could collide), 1 for the provider
  race, one publish, and `MaxRegister = 2` run-time registrations (spec 5 allows
  `subscribe` and `advertise` after the I/O thread has started), so two
  registrations can overlap each other, a publish, a replay or a delivery.
* **Configuration runs.** Every combination of these inputs:
  * `encoding`: missing, `json`, `JSON` (`::tolower` is a table over these),
    or `xml`;
  * `security`: missing, `none`, or another value;
  * `port`: missing, 9090, -1, 70000, or not an integer;
  * `host`: missing or given;
  * the token: present or absent;
  * one extra CA: none, found, missing, or unloadable;
  * system CAs and verify setup: succeed or fail.

  That covers every branch of the configure functions.
* **Client run.** It uses 2 handles, recycled so that reconnection can go on
  forever, and one type. No symmetry is used, because liveness is checked.
* **Termination.** `Exhausted` (every handle closed) and `Dead` (after the null
  dereference) are the only terminal stutters in the core. The Client stops
  only after its destructor.

### Fairness (client)

* **Host thread.** It calls `spin_once` forever (`WF` on `SpinOnceConnect`),
  and time passes (`WF` on `Tick`). Once called, the destructor runs to its
  end (`WF` on its wait, timeout and join steps); the server's close
  acknowledgement gets no fairness.
* **I/O thread.** It runs every queued handler (`WF` on each handler).
* **Handshakes.** Each one ends, because websocketpp has an open timeout
  (`WF` on open-or-fail). The server is not unreachable forever (`SF` on
  open). Without that last assumption no reconnect can be promised.
* **Host calls and memory.** The host eventually answers requests handed to
  it, and freed handles are eventually reusable.

## Not modelled, and the plan

* **Races on `_tcp_connection`.** The host thread writes it in `spin_once`
  only when it is null or its state is `closed`. The I/O thread reads it only
  in the open and message handlers of that connection, and those cannot run
  once websocketpp has closed the connection on the same thread. So the
  atomic-step client model loses no interleaving here, and
  `OneConnectionAttempt` checks the handle comparisons themselves.
* **Abstract routing.** A `Routing` spec would carry topic delivery,
  filtered by each peer's last advertisement, as an action guard. Its
  refinement check would say no more than `BlacklistIsLastAdvert` and
  `PublicationFiltered` already do, so the only abstract spec is
  `CallLedger`.
* **Handlers dropped at shutdown.** After `StopAndJoin`, queued close
  handlers never run. This is harmless because the Endpoint is destroyed
  with the Client, so no property states it.
* **Configuration details.** `_handle_socket_init` and the token
  subprotocol added in `_handle_opening` change no state a property tells
  apart. The websocketpp calls inside `initialize_*_client` are the
  `ioThread` flag.
* **Out of scope:**
  * YAML parsing beyond the key values listed above;
  * `get_connection` failure: after a configure that set a URI it depends
    only on that fixed URI; a configure that "succeeded" without one is the
    `config_usable` finding, and `WsClient` starts from a configured Client;
