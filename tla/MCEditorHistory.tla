--------------------------- MODULE MCEditorHistory ---------------------------
(* Small instances of EditorHistory for TLC: two questions in a conversation.*)
EXTENDS EditorHistory, TLC

CONSTANTS r1, r2, s1, a1, h1, h2

MCRuns      == {r1, r2}
MCSessions  == {s1}
MCAgents    == {a1}
MCSessionOf == [r \in MCRuns |-> s1]
MCAgentOf   == [s \in MCSessions |-> a1]
MCTasks     == {h1, h2}
MCClaims    == [r \in MCRuns |-> 2]
MCSymmetry  == Permutations(MCRuns) \union Permutations(MCTasks)
=============================================================================
