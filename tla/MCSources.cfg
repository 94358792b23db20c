\* Three requests on the tables, one download, and two detections on two cases.
CONSTANTS
    Http = {"erp", "rates"}
    Live = {"erp"}
    Books = {"orders"}
    None = None
    r1 = r1
    r2 = r2
    r3 = r3
    Requests <- MCRequests
    MaxRemote = 1
    Keys <- MCKeys
    PageSize = 2
    MaxAttempts = 3
    MaxUses = 3
    Margin = 1
    Grants <- MCGrants
    Status = TRUE
    MaxChanges = 3
    Cases = {"ruled", "owing"}
    Outcomes <- MCOutcomes
    Default = "pay"
    Rows <- MCRows
    Verdicts <- MCVerdicts
    q1 = q1
    q2 = q2
    Detectors <- MCDetectors
    MaxVersions = 3
    MaxLoads = 2
    MaxDecisions = 2
    Sheets <- MCSheets
    Workbooks <- MCWorkbooks
    Mappings <- MCMappings
    Legible <- MCLegible
    MaxCells = 14
SPECIFICATION MCSpec
SYMMETRY Symmetry
CHECK_DEADLOCK FALSE
INVARIANTS
    ReadsAreAccountedFor
    ReviewedAsRead
    DownloadIsWhole
    ChangesAreFlagged
    TablesAreUndisputed
