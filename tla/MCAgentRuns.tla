----------------------------- MODULE MCAgentRuns -----------------------------
(* Small instances of AgentRuns for TLC. *)
EXTENDS AgentRuns, TLC

CONSTANTS s1, a1

MCSessions  == {s1}
MCAgents    == {a1}
MCSessionOf == [r \in Runs |-> s1]
MCAgentOf   == [s \in Sessions |-> a1]

\* The handlers are interchangeable; no constant tells the runs apart either.
MCSymmetry == Permutations(Handlers) \union Permutations(Runs)
=============================================================================
