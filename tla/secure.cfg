SPECIFICATION Spec
CONSTANTS
    Addresses = {1}
    Texts = {"plain", "control"}
    Configured = {"plain"}
    MaxStarts = 2
    MaxClock = 2
    Window = 1
    Retries = 1
    Clients <- AllClients
    Accounts <- Users
    SetText = "control"
    MaxCalls = 2
    MaxDuplicates = 1
INVARIANTS RestartServesSaved ExecutedInTime UndisturbedCallSucceeds
CHECK_DEADLOCK FALSE
