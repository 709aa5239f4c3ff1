SPECIFICATION Spec
CONSTANTS
    r1 = r1
    r2 = r2
    r3 = r3
    Runs <- MCRuns
    Url = "configured"
    OldUrl = "former"
    MaxVersion = 2
    MaxQueries = 1
INVARIANTS TypeOK NoOrphan StackGuarded AtMostTwoDeploys
SYMMETRY Symmetry
