SPECIFICATION FairSpec
CONSTANTS
    u1 = u1  k1 = k1  k2 = k2  p1 = p1  p2 = p2
    y0 = y0  y1 = y1  y2 = y2  None = None
    Agent = {u1}
    Conn = {k1}
    AgentOf <- OneAgent
    Push = {p1, p2}
    PushTo <- OneTarget
    PushYaml <- YamlOf
    Sequential = TRUE
    InitialConfig = y0
    Covers <- Exactly
    Restartable = {}
    MayReject = FALSE
    Scenes <- SeveralScenes
    MaxWire = 2
PROPERTIES
    ImplementsDelivery
    FullStateArrives
    MetadataKept
    SilentGoesOffline
CHECK_DEADLOCK FALSE
