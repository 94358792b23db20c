SPECIFICATION MCSpec
CONSTANTS
    Instances = {1}
    Names = {"a.pdf"}
    NameOf <- MCNameOfOne
    Requests = {q1, q2}
    NoRequest = none
    DecisionTypes = {"pay", "review", "hold"}
    Versions = {1, 2}
    First = 1
    TypesOf <- MCTypesOf
    Reviewed = {2}
    Readings = {s1, s2}
    NoReading = NoReading
    MaxRows <- MCMaxRowsOfOne
    HumanTypes <- MCHumanTypes
    NoFilter = NoFilter
    Cases = {1, 2}
    Contents = {"x", "y"}
    Unread = "unread"
    Tables = {"erp", "rates"}
    ReadsOf <- MCReadsOf
    MaxActive = 2
    MaxTables = 3
    MaxExecutions = 2
    None = None
    Escalations = {c1}
    Norms = {n1}
    Changes = {x1, x2}
    MaxAnswers = 3
    MaxProposals = 2
    MaxVersions = 2
    MaxRevisions = 1
    Configs = {saved}
    Pack = pack
    MaxConfigs = 4
    Values = {low, high}
    NoRow = norow
    MaxChanges = 3
    MaxOwn = 2
PROPERTIES
    EvidenceFrozen
