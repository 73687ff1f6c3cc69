SPECIFICATION Spec
CONSTANTS
    Requests = {"r1"}
    Providers = {"anthropic", "openai", "fallback", "none"}
    Tools = {"search"}
    Replies <- MCReplies
    Histories <- MCHistories
    MaxToolCalls = 2
    RingSize = 2
    MaxOthers = 1
INVARIANTS MessagesWellFormed CallsReported RingIsRecent
PROPERTIES RequestEnds
