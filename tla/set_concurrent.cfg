SPECIFICATION Spec
CONSTANTS
    Scalars <- MCScalars
    ReadOnlyScalars <- MCReadOnlyScalars
    InitScalar <- MCInitScalar
    NoInstance = "noInstance"
    Rows = {"r1"}
    Columns <- MCColumns
    Required <- MCRequired
    ReadOnlyColumns <- MCReadOnlyColumns
    Values <- MCValues
    TypeOf <- MCTypeOf
    Unset = "unset"
    BadStatus = "bad"
    Hidden <- MCHidden
    LocalPuts <- RacingPuts
    NoSnapshot = NoSnapshot
    Workers = {w1, w2}
    Requests <- RacingRequests
INVARIANTS ActiveRowsComplete ScalarsGuarded
PROPERTIES CreationIsExclusive ImplementsLifecycle EverySetAnswered
