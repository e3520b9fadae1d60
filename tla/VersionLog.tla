----------------------------- MODULE VersionLog -----------------------------
(***************************************************************************)
(* What prompts and proposals promise, whoever uses them at the same time: *)
(* the versions of an agent form a log that only grows, and a proposal is  *)
(* decided once, its approval and its version being one step.              *)
(***************************************************************************)
EXTENDS Naturals

CONSTANTS
    Agents,
    Proposals,
    AgentOf     \* AgentOf[p]: the agent whose prompt proposal p rewrites

VARIABLES
    count,      \* count[a]: how many versions agent a has
    verdict     \* verdict[p]: "none", "pending", "discarded" or "approved",
                \* and then with the version it became

logVars == <<count, verdict>>

Init ==
    /\ count = [a \in Agents |-> 0]
    /\ verdict = [p \in Proposals |-> [status |-> "none", prompt |-> 0]]

Grow(a) == count' = [count EXCEPT ![a] = @ + 1]

Write(a) == Grow(a) /\ UNCHANGED verdict

Propose(p) ==
    /\ verdict[p].status = "none"
    /\ verdict' = [verdict EXCEPT ![p].status = "pending"]
    /\ UNCHANGED count

Approve(p) ==
    /\ verdict[p].status = "pending"
    /\ Grow(AgentOf[p])
    /\ verdict' = [verdict EXCEPT
                     ![p] = [status |-> "approved", prompt |-> count'[AgentOf[p]]]]

Discard(p) ==
    /\ verdict[p].status = "pending"
    /\ verdict' = [verdict EXCEPT ![p].status = "discarded"]
    /\ UNCHANGED count

Next ==
    \/ \E a \in Agents : Write(a)
    \/ \E p \in Proposals : Propose(p) \/ Approve(p) \/ Discard(p)

Spec == Init /\ [][Next]_logVars
=============================================================================
