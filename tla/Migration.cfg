SPECIFICATION MigrationSpec
\* A host ends failed or booted.
CHECK_DEADLOCK FALSE
CONSTANTS
    None = None
    Hosts <- MCHosts
    Overrides <- MCOverrides
    MaxEdits = 1
INVARIANTS
    MigrationTypeOK
    BuildFailureExplained
    FilesArrive
    NothingUnasked
    UnitStatesCarried
    JobsKept
    AccountsExist
    ScanAgreesWithRedaction
PROPERTY RerenderSettles
