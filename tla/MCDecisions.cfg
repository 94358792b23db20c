SPECIFICATION MCSpec
CONSTANTS
    Instances = {1, 2}
    Names = {"a.pdf"}
    NameOf <- MCNameOf
    Requests = {q1, q2}
    NoRequest = none
    DecisionTypes = {"pay", "review", "hold"}
    Versions = {1, 2}
    First = 1
    TypesOf <- MCTypesOf
    Reviewed = {2}
    Readings = {s1}
    NoReading = NoReading
    MaxRows <- MCMaxRows
    HumanTypes <- MCHumanTypes
    NoFilter = NoFilter
    Cases = {1, 2}
    Contents = {"x", "y"}
    Unread = "unread"
    Tables = {"erp", "rates"}
    ReadsOf <- MCReadsOf
    MaxActive = 2
    MaxTables = 3
    MaxExecutions = 2
    None = None
    Escalations = {c1}
    Norms = {n1}
    Changes = {x1, x2}
    MaxAnswers = 3
    MaxProposals = 2
    MaxVersions = 2
    MaxRevisions = 1
    Configs = {saved}
    Pack = pack
    MaxConfigs = 4
    Values = {low, high}
    NoRow = norow
    MaxChanges = 3
    MaxOwn = 2
INVARIANTS
    PersonStands
    ViewsAgree
    ReplaysAgree
    ExportAwaitsReview
    AnswersTheDecisionItNames
    SettlementsAgree
    OneActive
PROPERTIES
    HistoryIsLog
    ReplacesWhatWasRead
SYMMETRY Symmetry
CHECK_DEADLOCK FALSE
