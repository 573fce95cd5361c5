SPECIFICATION Spec
CONSTANTS
    Sessions = {"a", "b"}
    Version <- CommunityVersions
    Uses <- CommunityUses
    Kinds = {"udp", "shared", "stream"}
    Retries = 1
    MaxRequests <- Calls
    Backlog = 3
    MaxDuplicates = 1
    MaxId = 6
INVARIANTS OkIsMine FailureHasCause WaitingHasRoute
PROPERTIES EveryRequestReturns
CHECK_DEADLOCK FALSE
