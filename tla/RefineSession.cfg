SPECIFICATION SessionSpec
CONSTANTS
    c = c
    Repos = {}
    DefaultRepos = {}
    Leaves = {}
    Autos = {}
    Twins = {}
    Others = {c}
    Accounts = {}
    Strategies = {}
    TwinOf <- MCNone
    Provides <- MCNone
    DomOrder <- MCNone
    Deps <- MCNone
    Snapshot <- MCSnapshot
    InitialSnapshots <- MCInspected
    MaxPosts = 2
    TarballFiles = {"report.html", "inspection-snapshot.json", "entitlement"}
    RenderedFiles = {"report.html", "inspection-snapshot.json"}
    Folders = {"entitlement"}
    TarballSnapshot <- MCAll
    Truncated = Truncated
INVARIANTS
    SessionTypeOK
    PageInStep
    OutputCoherent
PROPERTIES
    Output
    QueueDrains
