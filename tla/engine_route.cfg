SPECIFICATION Spec
CONSTANTS
    Node <- RouteNode
    Edge <- RouteEdge
    Type <- RouteType
    Agent = {"worker"}
    AgentOf <- RouteAgentOf
    NodeMode <- RouteNodeMode
    MockEnv = {}
    WriteTier = {"write"}
    Creates = {}
    Executes = {"write"}
    Timed = {"gate"}
    InitMode <- RouteMode
    HumanCaller = TRUE
    ApId = {a1, a2}
    HbId = {h1, h2, h3}
    None = None
    MaxCrash = 1
    MaxPublish = 1
    MaxOther = 1
    MaxWrite = 2
INVARIANTS
    TypeOK
    HumanGate
    RowShowsTheGate
    CausallyClosed
    PublishedGateSuffices
PROPERTIES
    StatusIsFinal
