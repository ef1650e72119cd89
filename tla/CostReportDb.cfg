SPECIFICATION Spec
CONSTANTS
    Jobs = {j1, j2}
    f = f
    v1x = v1x
    v11 = v11
    v12 = v12
    v13 = v13
    Latest = latest
    None = None
    VersionBranches = {v1x}
    GithubTags = {v11, v12, v13}
    Version <- MCVersion
    Reports <- MCReports
    Depth = 2
    Runs <- MCRuns
    ComparedBranches = {v1x}
    MaxSignals = 1
SYMMETRY Symmetry
INVARIANTS
    WholeReports
    FailureHasCause
    ComparesItself
PROPERTIES
    OnlyOwnAreReplaced
\* The jobs end.
CHECK_DEADLOCK FALSE
