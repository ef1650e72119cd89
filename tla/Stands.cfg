SPECIFICATION StandsSpec
CONSTANTS
    r1 = r1
    r2 = r2
    r3 = r3
    Runs = {r1, r2, r3}
    Number <- Counted
    Starts <- MCStarts
    VersionLike <- VersionBranches
    Merges = {"7/merge"}
    None = None
INVARIANTS
    StandIsOwn
    NothingLeaks
    FeatureIsUsed
\* The runs end.
CHECK_DEADLOCK FALSE
