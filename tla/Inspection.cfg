SPECIFICATION InspectionSpec
\* One inspection: it ends.
CHECK_DEADLOCK FALSE
CONSTANTS
    NoImage = NoImage
    Hosts <- MCHosts
    CommandLines <- MCCommandLines
    Sections <- MCSections
    MaxContent = 2
INVARIANTS
    InspectionTypeOK
    NoBaselineOnlyByChoice
    BaselineIsOfFromImage
    SectionsAccounted
PROPERTIES
    InspectionEnds
