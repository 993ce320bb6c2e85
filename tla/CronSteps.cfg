SPECIFICATION MigrationSpec
\* A host ends failed or booted.
CHECK_DEADLOCK FALSE
CONSTANTS
    None = None
    Hosts <- MCHosts
    Overrides <- MCOverrides
    MaxEdits = 1
INVARIANT StepsMeanTheSame
