--------------------------- MODULE MC_ClientConfig ---------------------------
(* Model-checking instance of ClientConfig: every combination of the keys   *)
(* below, with each environment answer.                                     *)
EXTENDS ClientConfig, TLC

\* "encoding": missing, the supported name in two spellings, and another.
MCEncodings == {Absent, "json", "JSON", "xml"}
MCLower == ("json" :> "json") @@ ("JSON" :> "json") @@ ("xml" :> "xml")
\* "security": missing, disabled, and any other value.
MCSecurities == {Absent, "none", "tls"}
\* "port": missing, valid, negative, above 65535, and not a number.
MCPorts == {Absent, 9090, -1, 70000, NotAnInt}
MCHostNames == {Absent, "example.org"}
=============================================================================
