------------------------------ MODULE WsClient ------------------------------
(***************************************************************************)
(* The WebSocket Client of src/src/Client.cpp composed with the Endpoint   *)
(* core: the reconnect loop of spin_once, the websocketpp handlers the     *)
(* Client installs (open, close, fail, message), runtime_advertisement and *)
(* the destructor's shutdown.  The Client holds one connection at a time   *)
(* (_tcp_connection / _tls_connection, the same code for TCP and TLS).     *)
(*                                                                         *)
(* Time is abstracted to attemptDue: whether 2 s have passed since         *)
(* _last_connection_attempt.  A connection handle is the address of a      *)
(* websocketpp connection; once nothing holds it, the allocator may hand   *)
(* the same address to a later connection (Recycle).                       *)
(***************************************************************************)
EXTENDS EndpointCore

VARIABLES
    current,           \* _tcp_connection: the connection being used, or NoConn
    hasSpunOnce,       \* _has_spun_once
    attemptDue,        \* now - _last_connection_attempt > 2s
    connectionFailed,  \* _connection_failed
    closingDown,       \* _closing_down
    phase              \* running, or where the destructor has got to

clientVars == <<current, hasSpunOnce, attemptDue, connectionFailed,
                closingDown, phase>>
vars == <<coreVars, clientVars>>

Phases == {"running", "waiting", "joining", "stopped"}

\* Mutant: a connection that is not open counts as lost, so spin_once
\* redials while the handshake is still running.
DisconnectedNotOpen ==
    IF current = NoConn THEN TRUE ELSE wsState[current] # "open"

\* The state test of spin_once: no connection, or its state is closed.
Disconnected ==
    IF current = NoConn THEN TRUE ELSE wsState[current] = "closed"

\* Mutant: || written as &&, so spin_once dials only on its first call.
ShouldDialFirstOnly == ~hasSpunOnce /\ (Disconnected /\ attemptDue)

\* spin_once dials on the first call, or when disconnected and 2 s have
\* passed since the last attempt.
ShouldDial == ~hasSpunOnce \/ (Disconnected /\ attemptDue)

\* spin_once when it dials: get_connection returns a new connection,
\* connect() starts it, and the attempt time is recorded.
SpinOnceConnect ==
    /\ phase = "running"
    /\ ShouldDial
    /\ \E c \in Conns :
          /\ wsState[c] = "idle"
          /\ current' = c
          /\ wsState' = [wsState EXCEPT ![c] = "connecting"]
    /\ started' = TRUE
    /\ hasSpunOnce' = TRUE
    /\ attemptDue' = FALSE
    /\ UNCHANGED <<notified, startup, subInfo, pubInfo, clientProxy, provider,
                   ledger, nextId, sent, peerReqs, hostVars, ghostVars, crashed,
                   connectionFailed, closingDown, phase>>

\* spin_once when it does not dial: it only sleeps.
SpinOnceWait ==
    /\ phase = "running"
    /\ ~ShouldDial
    /\ UNCHANGED vars

\* Two seconds pass.
Tick ==
    /\ ~attemptDue
    /\ attemptDue' = TRUE
    /\ UNCHANGED <<coreVars, current, hasSpunOnce, connectionFailed,
                   closingDown, phase>>

\* Client::runtime_advertisement (called by a publisher as it is created):
\* send the advertise message on the current connection, if there is one.
RuntimeAdvertisement(t) ==
    /\ phase = "running"
    /\ RegistrationOpen
    /\ t \in DOMAIN pubInfo
    /\ IF current = NoConn THEN UNCHANGED sent
       ELSE SendOn(current, AdvertiseMsg(t))
    /\ UNCHANGED <<transportVars, startup, subInfo, pubInfo, clientProxy,
                   provider, ledger, nextId, peerReqs, hostVars, ghostVars,
                   crashed, clientVars>>

-----------------------------------------------------------------------------
(* websocketpp handlers installed by initialize_tcp_client                *)

\* _handle_opening: the opened connection is the current one (the branch
\* for another connection is unreachable, see OneConnectionAttempt); reset
\* _connection_failed and replay the startup messages.  Adding the token
\* as a subprotocol after the handshake changes nothing.
HandleOpening(c) ==
    /\ c = current
    /\ NotifyConnectionOpened(c)
    /\ connectionFailed' = FALSE
    /\ UNCHANGED <<current, hasSpunOnce, attemptDue, closingDown, phase>>

\* _handle_close: whichever connection closes is cleaned out of the tables.
HandleClose(c) ==
    /\ NotifyConnectionClosed(c)
    /\ UNCHANGED clientVars

\* _handle_failed_connection: set _connection_failed (logged once per run).
HandleFailedConnection(c) ==
    /\ wsState[c] = "closed" /\ notified[c] = "none"
    /\ notified' = [notified EXCEPT ![c] = "failed"]
    /\ connectionFailed' = TRUE
    /\ UNCHANGED <<wsState, started, startup, subInfo, pubInfo, clientProxy,
                   provider, ledger, nextId, sent, peerReqs, hostVars,
                   ghostVars, crashed, current, hasSpunOnce, attemptDue,
                   closingDown, phase>>

\* _handle_tcp_message: a frame from the current connection is interpreted.
HandleMessage(c) ==
    /\ c = current
    /\ Interpret(c)
    /\ UNCHANGED clientVars

\* The websocketpp session moves on its own: the handshake completes or
\* fails, or the peer closes an open connection.
TransportStep(c) ==
    /\ TransportOpen(c) \/ TransportFail(c) \/ TransportClose(c)
    /\ UNCHANGED clientVars

\* The peer acknowledges the close the destructor started.
TransportCloseAck(c) ==
    /\ wsState[c] = "closing"
    /\ wsState' = [wsState EXCEPT ![c] = "closed"]
    /\ UNCHANGED <<notified, started, startup, subInfo, pubInfo, clientProxy,
                   provider, ledger, nextId, sent, peerReqs, hostVars,
                   ghostVars, crashed, clientVars>>

\* A finished connection nobody holds any more is freed; its address may
\* come back from a later get_connection.
Recycle(c) ==
    /\ wsState[c] = "closed" /\ notified[c] \in {"closed", "failed"}
    /\ c # current
    /\ \A h \in hostCalls : h.conn # c
    /\ wsState' = [wsState EXCEPT ![c] = "idle"]
    /\ notified' = [notified EXCEPT ![c] = "none"]
    /\ sent' = [sent EXCEPT ![c] = <<>>]
    /\ peerReqs' = {r \in peerReqs : r[1] # c}
    /\ lastAdvert' = [p \in DOMAIN lastAdvert |->
                        IF p[2] = c THEN NoAdvert ELSE lastAdvert[p]]
    /\ replayLen' = [replayLen EXCEPT ![c] = 0]
    /\ UNCHANGED <<started, startup, subInfo, pubInfo, clientProxy, provider,
                   ledger, nextId, hostVars, deliveries, responded, crashed,
                   clientVars>>

-----------------------------------------------------------------------------
(* Client::~Client                                                        *)

CurrentOpen == IF current = NoConn THEN FALSE ELSE wsState[current] = "open"

\* Set _closing_down; if the current connection is open, close it
\* normally and start waiting, otherwise go straight to stopping the loop.
ShutdownBegin ==
    /\ phase = "running"
    /\ closingDown' = TRUE
    /\ \/ /\ CurrentOpen
          /\ wsState' = [wsState EXCEPT ![current] = "closing"]
          /\ phase' = "waiting"
       \/ /\ ~CurrentOpen
          /\ phase' = "joining"
          /\ UNCHANGED wsState
    /\ UNCHANGED <<notified, started, startup, subInfo, pubInfo, clientProxy,
                   provider, ledger, nextId, sent, peerReqs, hostVars,
                   ghostVars, crashed, current, hasSpunOnce, attemptDue,
                   connectionFailed>>

\* The 200 ms polling loop sees the state closed.
ShutdownClosed ==
    /\ phase = "waiting"
    /\ wsState[current] = "closed"
    /\ phase' = "joining"
    /\ UNCHANGED <<coreVars, current, hasSpunOnce, attemptDue,
                   connectionFailed, closingDown>>

\* Mutant: the polling loop has no 10 s limit and keeps sleeping.
ShutdownWaitForever ==
    /\ phase = "waiting"
    /\ wsState[current] # "closed"
    /\ UNCHANGED vars

\* The polling loop gives up after 10 s without the state reaching closed.
ShutdownTimeout ==
    /\ phase = "waiting"
    /\ wsState[current] # "closed"
    /\ phase' = "joining"
    /\ UNCHANGED <<coreVars, current, hasSpunOnce, attemptDue,
                   connectionFailed, closingDown>>

\* stop_perpetual, stop and join the I/O thread: no handler runs after it.
StopAndJoin ==
    /\ phase = "joining"
    /\ phase' = "stopped"
    /\ UNCHANGED <<coreVars, current, hasSpunOnce, attemptDue,
                   connectionFailed, closingDown>>

\* The Client is destroyed; nothing more happens.
Stopped ==
    /\ phase = "stopped"
    /\ UNCHANGED vars

-----------------------------------------------------------------------------
Init ==
    /\ CoreInit
    /\ current = NoConn
    /\ hasSpunOnce = FALSE
    /\ attemptDue = TRUE
    /\ connectionFailed = FALSE
    /\ closingDown = FALSE
    /\ phase = "running"

\* Calls the host makes: registration, runtime calls and the spin loop.
Host ==
    /\ phase = "running"
    /\ \/ (HostRegistration \/ HostRuntime) /\ UNCHANGED clientVars
       \/ \E t \in Topics : RuntimeAdvertisement(t)
       \/ SpinOnceConnect
       \/ SpinOnceWait

\* What the I/O thread runs, and what the network does, until it is joined.
Worker(c) ==
    /\ phase # "stopped"
    /\ \/ TransportStep(c)
       \/ TransportCloseAck(c)
       \/ HandleOpening(c)
       \/ HandleClose(c)
       \/ HandleFailedConnection(c)
       \/ HandleMessage(c)

Shutdown ==
    ShutdownBegin \/ ShutdownClosed \/ ShutdownTimeout \/ StopAndJoin \/ Stopped

Next ==
    /\ ~crashed
    /\ \/ Host
       \/ Tick
       \/ \E c \in Conns : Worker(c) \/ Recycle(c)
       \/ Shutdown

\* The host loop calls spin_once forever and time passes; the destructor,
\* once called, runs to its end; the I/O thread
\* runs every queued handler; a handshake ends (websocketpp's open timeout)
\* and the server is not unreachable forever; freed memory is reused; the
\* host answers the requests handed to it.
Fairness ==
    /\ WF_vars(SpinOnceConnect)
    /\ WF_vars(ShutdownClosed) /\ WF_vars(ShutdownTimeout) /\ WF_vars(StopAndJoin)
    /\ WF_vars(Tick)
    /\ \A c \in Conns :
          /\ WF_vars(HandleOpening(c))
          /\ WF_vars(HandleClose(c))
          /\ WF_vars(HandleFailedConnection(c))
          /\ WF_vars((TransportOpen(c) \/ TransportFail(c))
                     /\ UNCHANGED clientVars)
          /\ SF_vars(TransportOpen(c) /\ UNCHANGED clientVars)
          /\ WF_vars(Recycle(c))
    /\ WF_vars(\E h \in hostCalls, e \in BOOLEAN :
                  ReceiveResponse(h, e) /\ UNCHANGED clientVars)

Spec == Init /\ [][Next]_vars /\ Fairness

-----------------------------------------------------------------------------
(* Properties                                                             *)

\* spin_once / _handle_opening / _handle_tcp_message: at most one connection
\* is ever being dialled or in use, and it is _tcp_connection, so the
\* "unexpected connection" branches of the open and message handlers never
\* run.
OneConnectionAttempt ==
    \A c \in Conns :
        wsState[c] \in {"connecting", "open", "closing"} => c = current

\* spin_once (spec 4.4, scenario D): while the Client runs, losing the
\* connection is always followed by a connection whose open handler has
\* replayed the startup messages.
ReconnectEventually ==
    (phase = "running" /\ Disconnected)
        ~> (phase # "running" \/ (current # NoConn /\ Live(current)))

\* ~Client (the 10 s limit of its wait loop): once the destructor has
\* started, it stops and joins the I/O thread, even when the server never
\* acknowledges the close.
ShutdownCompletes ==
    closingDown ~> phase = "stopped"

=============================================================================
