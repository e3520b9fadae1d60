\* One message under fair scheduling, any three failures after which the code recovers by itself.
SPECIFICATION FairSpec
CONSTANTS
    Runs = {r1}
    s1 = s1
    a1 = a1
    Sessions <- MCSessions
    Agents <- MCAgents
    SessionOf <- MCSessionOf
    AgentOf <- MCAgentOf
    Handlers = {h1, h2}
    NoMessage = NoMessage
    MaxAttempts = 2
    DeliveryLimit = 3
    Faults = {"crash", "database", "publish"}
    MaxFaults = 3
CHECK_DEADLOCK FALSE
INVARIANTS
    ActiveRunIsDriven
    UnavailableMeansFailed
PROPERTIES
    RequestNotLost
