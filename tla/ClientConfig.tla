---------------------------- MODULE ClientConfig ----------------------------
(***************************************************************************)
(* Configuring a WebSocket Client: Endpoint::configure (encoding, then the *)
(* security key chooses configure_tls_endpoint or configure_tcp_endpoint), *)
(* parse_port, parse_hostname, _load_auth_config and configure_client,    *)
(* which builds _host_uri, sets up the SSL context and starts the I/O     *)
(* thread (initialize_tls_client / initialize_tcp_client).                 *)
(*                                                                         *)
(* The YAML configuration is an input record: each key is absent or one   *)
(* of a few values.  What the file system and OpenSSL answer (system CAs, *)
(* the extra CA file, the verify settings) is part of the input too.      *)
(* Endpoint and Client each declare their own _use_security; neither      *)
(* constructor initialises it, so before configure it holds either value. *)
(***************************************************************************)
EXTENDS Integers

CONSTANTS
    Absent,         \* a key missing from the YAML node
    NotAnInt,       \* a port scalar that is not an integer, e.g. "abc"
    Encodings,      \* values of the "encoding" key (Absent among them)
    Lower,          \* std::transform(..., ::tolower) on those values
    Securities,     \* values of the "security" key (Absent among them)
    Ports,          \* values of the "port" key: integers, NotAnInt, Absent
    HostNames,      \* values of the "host" key (Absent among them)
    DefaultHostname,\* "localhost"
    Undefined       \* _host_uri as the constructor sets it, "<undefined>"

ASSUME Absent \in Encodings \cap Securities \cap HostNames

\* One extra CA file at most: none listed, found and loaded, not found by
\* the search, or found but rejected by load_verify_file.
CaInputs == {"none", "found", "missing", "unloadable"}

Configs == [encoding : Encodings, security : Securities, port : Ports,
            host : HostNames, token : BOOLEAN, ca : CaInputs,
            systemCa : BOOLEAN, verify : BOOLEAN]

IntMax == 2147483647                 \* int is 32 bits wide
IntMin == -IntMax - 1

VARIABLES
    config,        \* the YAML node and the environment configure meets
    ret,           \* what configure did: none yet, true, false, or threw
    encoding,      \* _encoding: none, or the JSON encoding
    epSecurity,    \* Endpoint::_use_security
    clSecurity,    \* Client::_use_security
    transport,     \* which of _tcp_endpoint / _tls_endpoint is non-null
    hostUri,       \* Client::_host_uri
    jwtToken,      \* Client::_jwt_token is set
    ioThread       \* initialize_*_client ran: handlers set, thread started

vars == <<config, ret, encoding, epSecurity, clSecurity, transport, hostUri,
          jwtToken, ioThread>>

\* parse_hostname: the "host" key, or localhost.
ParseHostname(h) == IF h = Absent THEN DefaultHostname ELSE h

\* parse_port: port_node.as<int>() throws YAML::TypedBadConversion for a
\* scalar that is not an int; the handler catches only YAML::InvalidNode,
\* so the exception leaves parse_port.  A missing key gives -1.
PortThrows(p) == p # Absent /\ (p = NotAnInt \/ p \notin IntMin..IntMax)
ParsePort(p) == IF p = Absent THEN -1 ELSE p

\* _load_auth_config: a "token" entry under "authentication" sets _jwt_token.
AuthToken(cfg) == cfg.token

\* Mutant: _host_uri built from the int port, not the uint16_t one.
ToUint16Wide(p) == p

\* static_cast<uint16_t>(port)
ToUint16(p) == p % 2^16

\* configure_client: _host_uri is set first; then the SSL context (for TCP
\* too): default verify paths, each extra CA (search, then load), verify
\* mode and callback; any error returns false before initialize_*_client.
ConfigureClient(secure, host, port, ca) ==
    LET ok == config.systemCa /\ ca \in {"none", "found"} /\ config.verify
    IN  [uri |-> [scheme |-> IF secure THEN "wss" ELSE "ws",
                  host |-> host, port |-> port],
         thread |-> ok]

\* The body shared by configure_tls_endpoint and configure_tcp_endpoint:
\* set Client::_use_security, parse the port (a negative one returns
\* nullptr), the host and the auth token, and call configure_client with
\* the CA list (empty for TCP).
EndpointSetup(secure, ca) ==
    LET port == ParsePort(config.port)
        cc   == ConfigureClient(secure, ParseHostname(config.host),
                                ToUint16(port), ca)
        reached == ~PortThrows(config.port) /\ port >= 0
    IN  [useSecurity |-> secure,
         throws      |-> PortThrows(config.port),
         reached     |-> reached,
         token       |-> reached /\ AuthToken(config),
         uri         |-> IF reached THEN cc.uri ELSE Undefined,
         thread      |-> reached /\ cc.thread]

\* Mutant: configure_tls_endpoint copied from the TCP one, _use_security
\* left false.
ConfigureTlsEndpointInsecure == EndpointSetup(FALSE, config.ca)

ConfigureTlsEndpoint == EndpointSetup(TRUE, config.ca)
ConfigureTcpEndpoint == EndpointSetup(FALSE, "none")

\* Endpoint::configure on a freshly constructed Client.  An unknown encoding
\* returns false at once.  Otherwise the JSON encoding is made, "none" for
\* security takes the TCP path and anything else (or no key) the TLS path;
\* the raw pointer configure_*_endpoint returns is wrapped by make_shared,
\* so success = (_tcp_endpoint != nullptr) is true whenever it returns.
Configure ==
    /\ ret = "none"
    /\ IF config.encoding # Absent /\ Lower[config.encoding] # "json"
       THEN /\ ret' = "false"
            /\ UNCHANGED <<encoding, epSecurity, clSecurity, transport,
                           hostUri, jwtToken, ioThread>>
       ELSE LET secure == config.security # "none"
                r == IF secure THEN ConfigureTlsEndpoint
                     ELSE ConfigureTcpEndpoint
            IN  /\ encoding' = "json"
                /\ epSecurity' = secure
                /\ clSecurity' = r.useSecurity
                /\ ret' = IF r.throws THEN "throw" ELSE "true"
                /\ transport' = IF r.throws THEN "none"
                                ELSE IF secure THEN "tls" ELSE "tcp"
                /\ hostUri' = r.uri
                /\ jwtToken' = r.token
                /\ ioThread' = r.thread
    /\ UNCHANGED config

\* configure has returned; the host keeps or drops the handle.
Configured ==
    /\ ret # "none"
    /\ UNCHANGED vars

Init ==
    /\ config \in Configs
    /\ ret = "none"
    /\ encoding = "none"
    /\ epSecurity \in BOOLEAN
    /\ clSecurity \in BOOLEAN
    /\ transport = "none"
    /\ hostUri = Undefined
    /\ jwtToken = FALSE
    /\ ioThread = FALSE

Next == Configure \/ Configured

Spec == Init /\ [][Next]_vars

-----------------------------------------------------------------------------
(* Properties                                                             *)

Uris == [scheme : {"ws", "wss"}, host : (HostNames \ {Absent}) \cup {DefaultHostname},
         port : 0..(2^16 - 1)]

\* Every variable keeps its type; in particular _host_uri, once set, names
\* a port a uint16_t can hold (the narrowing of configure_*_endpoint).
ConfigTypeOK ==
    /\ config \in Configs
    /\ ret \in {"none", "true", "false", "throw"}
    /\ encoding \in {"none", "json"}
    /\ epSecurity \in BOOLEAN /\ clSecurity \in BOOLEAN
    /\ transport \in {"none", "tcp", "tls"}
    /\ hostUri \in Uris \cup {Undefined}
    /\ jwtToken \in BOOLEAN /\ ioThread \in BOOLEAN

\* Endpoint::configure and configure_*_endpoint each set their own
\* _use_security: after a successful configure the Endpoint (which picks
\* the TLS or TCP branch in publish, call_service and receive_response)
\* and the Client (which picks it in spin_once and the handlers) agree,
\* the endpoint that was made is of that kind, and so is the URI dialled.
SecurityAgrees ==
    ret = "true" =>
        /\ epSecurity = clSecurity
        /\ transport = IF epSecurity THEN "tls" ELSE "tcp"
        /\ hostUri # Undefined =>
              hostUri.scheme = IF clSecurity THEN "wss" ELSE "ws"

\* Spec 6 (configuration surface): a missing or invalid port makes
\* configure return failure; so a configure that reports success has set
\* the URI, with the port the configuration gives, and started the I/O
\* thread that dials it.
SuccessMeansUsable ==
    ret = "true" =>
        /\ hostUri # Undefined
        /\ hostUri.port = config.port
        /\ ioThread

\* Spec 7: configuration errors surface as a failed configure; parse_port
\* logs "Could not parse an unsigned integer value" and returns -1, so no
\* exception leaves configure.
ConfigureNeverThrows ==
    ret # "throw"

=============================================================================
