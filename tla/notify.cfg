SPECIFICATION Spec
CONSTANTS
    Senders = {"s1"}
    Config <- MCConfig
    Extra <- MCExtra
    Traps <- MCTraps
    Hosts = {"h1", "h2"}
    Community = "public"
    Users = {"alice"}
    Forward <- MCForward
    Strays <- MCStrays
    Attempts = 2
    Cap = 2
    IndexSpace = 4
    MaxSends = 1
    MaxClock = 1
INVARIANT FanOutComplete InformOkWasSurfaced LogIsRecent
PROPERTY SendsReturn
CHECK_DEADLOCK FALSE
