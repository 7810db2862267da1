CONSTANTS
    NULL = NULL
    Registries <- MCRegistries
    Multiple = {"y"}
    MaxDrivers = 3
    MaxCapabilities = 2
    Restart = FALSE
SPECIFICATION FairSpec
INVARIANTS DependenciesUp OrderSound AnswersAreTrue
PROPERTY CallsReturn
