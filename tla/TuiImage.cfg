SPECIFICATION Spec
CONSTANTS
    Runs = {1, 2}
    Url = "configured"
    OldUrl = "former"
    MaxVersion = 2
    MaxQueries = 2
INVARIANTS DeployedMatches
