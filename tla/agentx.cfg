SPECIFICATION Spec
CONSTANTS
    Conns = {"c1", "c2"}
    Restarts <- Restarted
    Forwarders = {"f1", "f2"}
    Calls <- RestartCalls
    Asks <- MCAsks
    Buffer = 2
    MaxPackets = 2
INVARIANTS RegistrationsHaveSessions RepliesMatch PendingIsAwaited RegisterOkMeansRegistered
PROPERTIES EveryForwardCompletes
