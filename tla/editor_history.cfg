\* Two questions in one conversation, two worker tasks.
SPECIFICATION HistorySpec
CONSTANTS
    r1 = r1
    r2 = r2
    s1 = s1
    a1 = a1
    h1 = h1
    h2 = h2
    NoRun = NoRun
    Runs <- MCRuns
    Sessions <- MCSessions
    Agents <- MCAgents
    SessionOf <- MCSessionOf
    AgentOf <- MCAgentOf
    Tasks <- MCTasks
    ClaimBound <- MCClaims
    MaxAttempts = 2
    DeliveryLimit = 1
SYMMETRY MCSymmetry
CHECK_DEADLOCK FALSE
INVARIANTS
    HistoryTypeOK
    NothingSeenIsLeftOut
    ContextIsCurrent
    AnswersInOrder
    AnswersFollow
