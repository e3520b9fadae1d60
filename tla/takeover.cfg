\* One message, the default number of attempts, any two failures that end in a redelivery.
SPECIFICATION Spec
CONSTANTS
    Runs = {r1}
    s1 = s1
    a1 = a1
    Sessions <- MCSessions
    Agents <- MCAgents
    SessionOf <- MCSessionOf
    AgentOf <- MCAgentOf
    Handlers = {h1, h2}
    NoMessage = NoMessage
    MaxAttempts = 3
    DeliveryLimit = 1
    Faults = {"crash", "connection", "database", "refused"}
    MaxFaults = 2
CHECK_DEADLOCK FALSE
SYMMETRY MCSymmetry
INVARIANTS
    OwnerKeepsRun
    LlmBudget
PROPERTIES
    OnlyOwnerWrites
