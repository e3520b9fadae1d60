--------------------------- MODULE MCPromptVersions ---------------------------
(* One agent, one proposal, and requests that meet on them. *)
EXTENDS PromptVersions

CONSTANTS a1, p1, approve1, discard1, add1, add2, delete1

MCAgents    == {a1}
MCProposals == {p1}
MCAgentOf   == [p \in MCProposals |-> a1]
MCRequests  == {approve1, discard1, add1, add2, delete1}
MCTaskOf ==
    [q \in MCRequests |->
       CASE q = approve1         -> [kind |-> "approve", on |-> p1]
         [] q = discard1         -> [kind |-> "discard", on |-> p1]
         [] q \in {add1, add2}   -> [kind |-> "add", on |-> a1]
         [] q = delete1          -> [kind |-> "delete", on |-> a1]]
=============================================================================
