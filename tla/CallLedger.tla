----------------------------- MODULE CallLedger -----------------------------
(***************************************************************************)
(* What the Endpoint promises its service clients about outbound calls    *)
(* (spec sections 4.3 and 8.1/8.6), with no tables, connections or frames: *)
(* every call gets a fresh id, issued in increasing order; a call is       *)
(* answered at most once, and only while it is outstanding.  A call may   *)
(* stay outstanding for ever (its provider vanished).                      *)
(***************************************************************************)
EXTENDS Naturals

CONSTANT MaxCalls   \* bound on the ids issued

VARIABLES
    next,         \* the id the next call will get
    outstanding,  \* ids issued and not answered
    answered      \* ids whose client has been given its response

ledgerVars == <<next, outstanding, answered>>

Init ==
    /\ next = 1
    /\ outstanding = {}
    /\ answered = {}

\* A client calls a service: the call is recorded under a fresh id.
Issue ==
    /\ next <= MaxCalls
    /\ outstanding' = outstanding \cup {next}
    /\ next' = next + 1
    /\ UNCHANGED answered

\* The response to an outstanding call reaches its client.
Answer(i) ==
    /\ i \in outstanding
    /\ outstanding' = outstanding \ {i}
    /\ answered' = answered \cup {i}
    /\ UNCHANGED next

Next == Issue \/ \E i \in outstanding : Answer(i)

Spec == Init /\ [][Next]_ledgerVars

=============================================================================
