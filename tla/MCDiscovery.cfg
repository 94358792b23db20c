\* One session, two requests; and one plan of two rules with three acceptance examples.
SPECIFICATION MCSpec
CONSTANTS
    Requests = {r1, r2}
    Sessions = {s1}
    Kinds = {"context"}
    Evidence = {e1, e2}
    MaxRevisions = 4
    MaxVersions = 3
    Symbols = {"order", "account"}
    DecisionTypes = {"pay", "reject", "review"}
    Priority <- MCPriority
    Default = "pay"
    Escalate = "review"
    Contexts <- MCContexts
    Tables = {"x", "y"}
    Proposals <- MCProposals
    Existing <- MCExisting
    Examples <- MCExamples
    MaxChecks = 2
    MaxChanges = 2
    None = None
INVARIANTS
    NothingOverwritten
    PublishedOnItsBase
    ApprovalsHold
    PublishedIsReviewed
SYMMETRY Symmetry
CHECK_DEADLOCK FALSE
