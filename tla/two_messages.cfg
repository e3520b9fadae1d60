\* One conversation, two messages sent to it, two handlers, any one failure.
SPECIFICATION Spec
CONSTANTS
    Runs = {r1, r2}
    s1 = s1
    a1 = a1
    Sessions <- MCSessions
    Agents <- MCAgents
    SessionOf <- MCSessionOf
    AgentOf <- MCAgentOf
    Handlers = {h1, h2}
    NoMessage = NoMessage
    MaxAttempts = 2
    DeliveryLimit = 1
    Faults = {"crash", "connection", "database", "refused", "publish", "confirm", "api"}
    MaxFaults = 1
SYMMETRY MCSymmetry
CHECK_DEADLOCK FALSE
INVARIANTS
    TypeOK
    SingleReply
    SlotExclusive
    DeletedIsQuiet
    ProcessingInOpenSession
    AttemptInv
PROPERTIES
    TerminalIsFinal
    ContractKept
