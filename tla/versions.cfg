\* Every kind of request at once, on one proposal and one agent.
SPECIFICATION VersionFairSpec
CONSTANTS
    a1 = a1
    p1 = p1
    approve1 = approve1
    discard1 = discard1
    add1 = add1
    add2 = add2
    delete1 = delete1
    Agents <- MCAgents
    Proposals <- MCProposals
    AgentOf <- MCAgentOf
    Requests <- MCRequests
    TaskOf <- MCTaskOf
    Nobody = Nobody
CHECK_DEADLOCK FALSE
INVARIANTS
    VersionTypeOK
    GaplessVersions
    NoVersionClash
PROPERTIES
    NothingAfterDeletion
    LogKept
    EveryRequestEnds
