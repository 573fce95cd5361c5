SPECIFICATION Spec
CONSTANTS
    Scalars <- MCScalars
    ReadOnlyScalars <- MCReadOnlyScalars
    InitScalar <- MCInitScalar
    NoInstance = "noInstance"
    Rows = {"r1"}
    Columns <- MCColumns
    Required <- MCRequired
    ReadOnlyColumns <- MCReadOnlyColumns
    Values <- MCValues
    TypeOf <- MCTypeOf
    Unset = "unset"
    BadStatus = "bad"
    Hidden <- MCHidden
    LocalPuts <- MCLocalPuts
    NoSnapshot = NoSnapshot
    Workers = {w1}
    Requests <- AloneRequests
INVARIANTS AtomicWhenAlone
