\* One stream, its run and another run, and another request: two connections for all.
SPECIFICATION PoolFairSpec
CONSTANTS
    r1 = r1
    r2 = r2
    s1 = s1
    s2 = s2
    a1 = a1
    c1 = c1
    Runs <- MCRuns
    Sessions <- MCSessions
    Agents <- MCAgents
    SessionOf <- MCSessionOf
    AgentOf <- MCAgentOf
    Streams <- MCStreams
    Watched <- MCWatched
    MaxAttempts = 2
    DeliveryLimit = 1
    ClaimBound <- MCClaims
    Others = {o1}
    PoolSize = 2
CHECK_DEADLOCK FALSE
INVARIANTS
    PoolTypeOK
    NoLostWakeup
    LastEventIsTheEnd
    FullPoolMoves
PROPERTIES
    StreamEnds
    RoomReturns
