-------------------------- MODULE AgentRunConstants --------------------------
(***************************************************************************)
(* What the agent-run modules are parameterised by.                        *)
(***************************************************************************)
EXTENDS Naturals

CONSTANTS
    Runs,           \* the run ids that a POST may create
    Sessions,       \* the conversations
    Agents,         \* the agents the conversations are about
    SessionOf,      \* agent_runs.session_id
    AgentOf,        \* sessions.agent_id
    MaxAttempts,    \* settings.agent_run_max_attempts
    DeliveryLimit   \* x-delivery-limit of the process queue

ASSUME RunAssumption ==
    /\ SessionOf \in [Runs -> Sessions]
    /\ AgentOf \in [Sessions -> Agents]
    /\ MaxAttempts \in Nat \ {0}
    /\ DeliveryLimit \in Nat
=============================================================================
