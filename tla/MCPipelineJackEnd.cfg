SPECIFICATION Spec
CONSTANTS
    n_processes = 2
    Configs <- JackEndConfigs
    MaxCalls = 0
PROPERTIES
    Terminates
\* That the program hangs is what the run shows, as a violation of Terminates.
CHECK_DEADLOCK FALSE
