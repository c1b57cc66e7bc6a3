------------------------- MODULE MC_EndpointThreads -------------------------
(* Model-checking instance of EndpointThreads: two host threads.          *)
EXTENDS EndpointThreads

CONSTANTS h1, h2

MCHostThreads == {h1, h2}
MCSymmetry == Permutations(MCHostThreads)
=============================================================================
