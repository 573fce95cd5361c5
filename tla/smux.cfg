SPECIFICATION Spec
CONSTANTS
    Peers = {"p1", "p2"}
    Threads = {"t1", "t2"}
    Password <- Passwords
    Entries <- Lines
    Registers <- Wanted
    Names <- Objects
    Stallers = {"p1"}
    Capacity = 1
    MaxForwards <- Forwards
    MaxSent <- Sent
INVARIANTS AnswerIsMine SubtreesHavePeers
PROPERTIES ForwardsReturn
CHECK_DEADLOCK FALSE
