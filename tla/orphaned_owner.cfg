\* A delivery is lost, then the handler that went on without it.
SPECIFICATION FairSpec
CONSTANTS
    Runs = {r1}
    s1 = s1
    a1 = a1
    Sessions <- MCSessions
    Agents <- MCAgents
    SessionOf <- MCSessionOf
    AgentOf <- MCAgentOf
    Handlers = {h1, h2}
    NoMessage = NoMessage
    MaxAttempts = 2
    DeliveryLimit = 2
    Faults = {"connection", "crash"}
    MaxFaults = 2
CHECK_DEADLOCK FALSE
PROPERTIES
    RequestNotLost
