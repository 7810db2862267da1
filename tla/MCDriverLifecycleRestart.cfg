CONSTANTS
    NULL = NULL
    Registries <- Sound
    Multiple = {"y"}
    MaxDrivers = 3
    MaxCapabilities = 2
    Restart = TRUE
SPECIFICATION Spec
INVARIANT DependenciesUp
