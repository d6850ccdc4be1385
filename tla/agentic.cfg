SPECIFICATION AgenticSpec
CONSTANTS
    Requests = {1}
    MaxBuilds = 2
    MaxCalls = 2
    MaxDepth = 2
    Retries = 2
    Keep = 1
    MaxMessages = 4
    MaxCompactions = 1
    MaxEvents = 1
INVARIANTS
    ConversationKept
    NoOrphans
PROPERTIES
    RequestsFetched
CHECK_DEADLOCK FALSE
