SPECIFICATION Spec
CONSTANTS
    Machines <- MCMachines
    Plans <- MCPlans
    Pdus <- MCPdus
    MaxWritten = 2
    SmuxPdus <- MCSmuxPdus
    MaxSmuxPdus = 2
    PassCallers = {c1, c2}
    PassScripts <- MCScripts
    PassCommands <- MCCommands
    MaxPassCalls = 3
    MaxDeaths = 1
    FirstTables <- MCTables
    ExprTexts <- MCTexts
    ExprValues <- MCValues
    MaxChanges = 1
    MibFiles <- MCMibFiles
    Known <- MCKnown
    MaxLoads = 2
    MaxPooled = 2
INVARIANT
    CodecsReadBack
    PassAnswersMine
    CellsDenote
    NamesDenote
PROPERTY
    OnlyNestedSkipped
CHECK_DEADLOCK FALSE
