---------------------------- MODULE MCStreamPool ----------------------------
(* Small instances of StreamPool for TLC: a conversation whose run is watched, *)
(* another one on the same channel, and a request that needs a connection.     *)
EXTENDS StreamPool

CONSTANTS r1, r2, s1, s2, a1, c1

MCRuns      == {r1, r2}
MCSessions  == {s1, s2}
MCAgents    == {a1}
MCSessionOf == [r \in MCRuns |-> IF r = r1 THEN s1 ELSE s2]
MCAgentOf   == [s \in MCSessions |-> a1]
MCClaims    == [r \in MCRuns |-> IF r = r1 THEN 2 ELSE 0]
MCStreams   == {c1}
MCWatched   == [c \in MCStreams |-> r1]
=============================================================================
