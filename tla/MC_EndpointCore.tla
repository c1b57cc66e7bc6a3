--------------------------- MODULE MC_EndpointCore ---------------------------
(* Model-checking instance of EndpointCore: the endpoint with several       *)
(* connections open at once, as on the server side.                        *)
EXTENDS EndpointCore

CONSTANTS c1, c2, t1, s1, A, B, i1, p1

MCConns == {c1, c2}
MCTopics == {t1}
MCServices == {s1}
MCNoServices == {}
MCNoTopics == {}
MCTypes == {A, B}
MCSubIds == {EmptyId, i1}
MCPeerCallIds == {p1}
\* The peer always names a type in its subscribe requests.
MCRequestTypes == MCTypes
\* The same, plus requests without a type.
MCRequestTypesUntyped == MCTypes \cup {NoType}

\* The host configures topic t1 with type A.
MCHostType == (t1 :> A)
MCNoHostType == [t \in {} |-> A]

MCSymmetry == Permutations(MCConns)
=============================================================================
