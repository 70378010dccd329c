SPECIFICATION PartsSpec
CONSTANTS
    Parts = {"erouting"}
    Routed = {b1}
    Orders <- MCOrders
    Routers = {"r1", "r2"}
    ChannelSize = 1
    MaxRequests = 3
    Links = {"c1", "c2"}
    LayerNames = {"lora", "ble"}
    Submissions = {"s1"}
    MaxRegisters = 2
    Senders = {"s1", "s2", "s3"}
    Length <- MCLength
    Cuts = {23}
    MaxStreams = 2
    Shared = {"b1", "b2", "b3"}
    Corrupt = {"b2"}
    Rejected = {"b3"}
    MaxFailures = 2
    Names = {n1}
    Configured = {n1}
    Configs <- MCConfigs
    Periods = {0, 1, 2}
    NoPeriod = none
    TooMany = 3
    MaxAge = 4
    MaxSetBack = 2
    Ids = {b1, b2}
    Backends = {"mem", "sled", "sneakers"}
    MaxRestarts = 2
    Policies <- MCPolicies
    MaxRotations = 1
    Clients = {"w1", "w2"}
    Agents = {"inbox"}
    Mail = {"m1", "m2"}
    AgentOf <- MCAgentOf
    Payloadless = {"m2"}
    MailboxSize = 1
    OutboxSize = 1
    Casts <- MCCasts
PROPERTY AnswerFindsRequest
CHECK_DEADLOCK FALSE
