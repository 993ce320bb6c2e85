SPECIFICATION FleetSpec
CONSTANTS
    Files = {1, 2, 3, 4}
    Default = 2
    Snapshots <- MCSnapshots
    Thresholds = {50, 51}
    NoFile = NoFile
    Spoilt = Spoilt
    NoRelease = NoRelease
    NoBaseImage = NoBaseImage
    NoMerge = NoMerge
INVARIANTS
    PackagePrevalence
