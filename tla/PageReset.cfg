SPECIFICATION PageSpec
CONSTANTS
    r1 = r1
    a = a
    b = b
    x = x
    u = u
    t = t
    Repos = {r1}
    DefaultRepos = {}
    Leaves = {a, b}
    Autos = {x}
    Twins = {t}
    Others = {}
    Accounts = {u}
    Strategies = {"sysusers", "useradd"}
    TwinOf <- MCTwinOf
    Provides <- MCProvides
    DomOrder <- MCDomOrder
    Deps <- MCDeps
    Snapshot <- MCSnapshot
    InitialSnapshots <- MCInspected
    MaxPosts = 1
PROPERTIES
    ResetRestoresSelections
