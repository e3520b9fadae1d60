\* A retry cannot be published after its run was taken over.
SPECIFICATION Spec
CONSTANTS
    Runs = {r1}
    s1 = s1
    a1 = a1
    Sessions <- MCSessions
    Agents <- MCAgents
    SessionOf <- MCSessionOf
    AgentOf <- MCAgentOf
    Handlers = {h1, h2}
    NoMessage = NoMessage
    MaxAttempts = 2
    DeliveryLimit = 1
    Faults = {"connection", "publish"}
    MaxFaults = 2
CHECK_DEADLOCK FALSE
INVARIANTS
    OwnerKeepsRun
