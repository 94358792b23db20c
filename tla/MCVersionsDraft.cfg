SPECIFICATION MCSpec
CONSTANTS
    Managers = {m1, m2}
    Edits = {"bad"}
    Norms = {"norm"}
    Evidence = {"early", "late"}
    Passes <- MCPasses
    MaxVersions = 3
    MaxDrafts = 2
    MaxRevision = 2
    Cases = {"case"}
    Fields = {"iban"}
    Kinds = {"odd", "bare"}
    Decisions = {"pay", "reject", "escalate"}
    Escalate = "escalate"
    Concludes <- MCConcludes
    Lacks <- MCLacks
    MaxRows = 2
    None = None
PROPERTIES
    ActsOnTheDraftItSaw
