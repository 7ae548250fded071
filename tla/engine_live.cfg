SPECIFICATION LiveSpec
CONSTANTS
    Node <- DeployNode
    Edge <- DeployEdge
    Type <- DeployType
    Agent = {"worker"}
    AgentOf <- DeployAgentOf
    NodeMode <- DeployNodeMode
    MockEnv = {}
    WriteTier = {"tool", "create"}
    Creates = {"create"}
    Executes = {}
    Timed = {"gate"}
    InitMode <- DeployMode
    HumanCaller = TRUE
    ApId = {a1, a2}
    HbId = {h1, h2, h3}
    None = None
    MaxCrash = 1
    MaxPublish = 0
    MaxOther = 0
    MaxWrite = 2
INVARIANTS
    GatesStayOpen
    InboxIsLive
    HeartbeatsTracked
    WriteOnce
    JournalComplete
PROPERTIES
    RunMovesOn
    CancelEnds
