SPECIFICATION FairSpec
CONSTANTS
    server = server
    mcp = mcp
    Request = {r1, r2}
    Process = {server, mcp}
    Server = server
    Slots = 1
    MaxRedirects = 2
    MaxRequests = 2
    MaxSent = 1
    MaxReceived = 1
    Host = {h1, h2, h3}
    Allowed = {h1, h2}
    Environment <- WholeLines
    Nowhere = Nowhere
INVARIANTS TypeOK AnswerIsAudited WireWithinPolicy
PROPERTIES QuietWhenRevoked RequestEnds
CHECK_DEADLOCK FALSE
