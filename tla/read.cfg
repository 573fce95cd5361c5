SPECIFICATION Spec
CONSTANTS
    Handlers <- MCHandlers
    Clients = {c1}
    Views <- MCViews
    ForeignOids <- MCForeignOids
    WalkRoots <- MCWalkRoots
    MaxReps = 2
    Polls <- MCPolls
INVARIANTS OnlyReadableNamed AnswersMatchMib
PROPERTIES StableVisited EveryRequestEnds
