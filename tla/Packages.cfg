SPECIFICATION PackagesSpec
\* A host without added packages has no row to toggle.
CHECK_DEADLOCK FALSE
CONSTANTS
    None = None
    Names <- MCNames
    Tool <- MCTool
    Hosts <- MCHosts
    MaxLost = 1
INVARIANTS
    PackagesTypeOK
    OnlyCyclesAreLost
    TreeIsBelow
    ReportMatchesImage
    OrphanUnitsSkipped
