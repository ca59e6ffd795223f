SPECIFICATION Spec
CONSTANTS
    n_processes = 2
    Configs <- OverrunConfigs
    MaxCalls = 8
INVARIANTS
    FixedDelay
