----------------------------- MODULE MC_WsClient -----------------------------
(* Model-checking instance of WsClient.                                    *)
EXTENDS WsClient

CONSTANTS c1, c2, c3, t1, s1, A, B, i1, p1

MCConns == {c1, c2, c3}
MCTwoConns == {c1, c2}
MCTopics == {t1}
MCNoTopics == {}
MCServices == {s1}
MCNoServices == {}
MCTypes == {A, B}
MCOneType == {A}
MCSubIds == {EmptyId, i1}
MCOneSubId == {EmptyId}
MCPeerCallIds == {p1}
MCRequestTypes == MCTypes
\* The host configures topic t1 with type A.
MCHostType == (t1 :> A)
MCNoHostType == [t \in {} |-> A]

MCSymmetry == Permutations(MCConns)
=============================================================================
