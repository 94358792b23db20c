SPECIFICATION FairSpec
CONSTANTS
    late = late
    narrow = narrow
    Rules = {r1, late}
    Managers = {m1}
    Codes = {a}
    Contexts = {wide, narrow}
    Fits <- MCFits
    MaxRestarts = 2
    MaxBlind = 1
    NormSizes = {1,2}
INVARIANTS
    ActiveIsEnforced
PROPERTIES
    StagedForItsContext
    OutStaysOut
    LeavesCompiling
