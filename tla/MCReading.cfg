\* Two requests on one document, two versions; one identifier and one field, with
\* three remote readers of two models.
SPECIFICATION MCSpec
CONSTANTS
    Docs = {"d1"}
    r1 = r1
    r2 = r2
    Requests <- MCRequests
    None = None
    Contracts <- MCContracts
    Rows = {"x", "y"}
    MaxLoads = 2
    MaxReadings = 3
    v1 = v1
    v2 = v2
    Readers <- MCReaders
    Nominal <- MCNominal
    Modes = {"local", "hybrid", "api"}
    Values <- MCValues
    Bad = Bad
    Words <- MCWords
    Pages = 2
    Presets = {"fastest", "balanced"}
    Cheap = {"fastest"}
    CacheSize = 1
    MaxEdits = 2
    Models <- MCModels
    Deployments <- MCDeployments
    Callers = {"reader"}
SYMMETRY Symmetry
INVARIANTS
    IdentifierIsCorroborated
    FieldIsCorroborated
    OnlyItsOwnReaders
PROPERTIES
    ReadOnceAsOfNow
