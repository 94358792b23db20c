SPECIFICATION MCSpec
CONSTANTS
    Rules = {r1, r2, r3}
    DecisionTypes = {"pay", "hold", "reject", "escalate"}
    Priority <- MCPriority
    Default = "pay"
    Escalate = "escalate"
    Required = {iban}
    Tests = {t1, t2, t3}
    MaxAttempts = 4
    MaxReviews = 2
    Local = {small, large}
    Hosted = {flash}
    MaxChain = 3
    MaxRetries = 1
    MaxSpans = 4
    Cases = {"case"}
    MaxDown = 1
    LoggedSpans <- MCSpans
    Processes <- MCProcesses
    UseCaseOf <- MCUseCaseOf
    HourLength = 2
    Limit = 2
    MaxWritten = 3
    None = None
INVARIANTS
    OutageNeverChangesTheOutcome
    FirstRequestIsPriced
    TracesAreWhole
    DrillDownIsWhole
PROPERTIES
    OracleStands
SYMMETRY Symmetry
CHECK_DEADLOCK FALSE
