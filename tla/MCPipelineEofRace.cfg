SPECIFICATION Spec
CONSTANTS
    n_processes = 2
    Configs <- EofRaceConfigs
    MaxCalls = 0
INVARIANTS
    OutputComplete
