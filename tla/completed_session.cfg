\* A message is sent while the conversation is being completed.
SPECIFICATION Spec
CONSTANTS
    Runs = {r1}
    s1 = s1
    a1 = a1
    Sessions <- MCSessions
    Agents <- MCAgents
    SessionOf <- MCSessionOf
    AgentOf <- MCAgentOf
    Handlers = {h1}
    NoMessage = NoMessage
    MaxAttempts = 2
    DeliveryLimit = 1
    Faults = {}
    MaxFaults = 0
CHECK_DEADLOCK FALSE
INVARIANTS
    ActiveOnlyInOpenSession
