SPECIFICATION Spec
CONSTANTS
    n_processes = 2
    Configs <- MixedEndConfigs
    MaxCalls = 0
INVARIANTS
    CallbackComplete
