SPECIFICATION VacmSpec
CONSTANTS
    Checkers = {t1}
    Admins = {a1, a2}
    Requests <- MCRequests
    Configs <- MCConfigs
    GroupRows <- MCGroupRows
    AccessRows <- MCAccessRows
    ViewRows <- MCViewRows
    Contexts <- MCContexts
INVARIANTS CommunitiesAsConfigured
PROPERTIES OpenOnlyWhenEmpty GrantsAreCurrent
