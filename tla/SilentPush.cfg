SPECIFICATION PipelineSpec
\* The operator stops running yoinkc at the bound.
CHECK_DEADLOCK FALSE
CONSTANTS
    s1 = s1
    s2 = s2
    Specs = {s1, s2}
    NoSpec = NoSpec
    MaxRuns = 2
    Paths <- MCPaths
    RenderOrder <- MCOrder
    Optional <- MCOptional
    Certs <- MCCerts
    Removable = {"config", "build-errors.log"}
    Reports = {"report.html"}
    BuildLog = "build-errors.log"
    Options <- MCOptions
INVARIANTS
    PushedArrives
