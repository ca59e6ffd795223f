SPECIFICATION Spec
CONSTANTS
    n_processes = 2
    Configs <- AllConfigs
    MaxCalls = 8
INVARIANTS
    TypeOK
    InputBufferOwned
    OutputBufferOwned
    FreqBufferOwned
    BlockingOrder
    CallbackOrder
    OutputComplete
    CallbackComplete
PROPERTIES
    Terminates
    AllPlayed
    StreamSpec
\* The program exits, or the calls of the sound server are used up, and threads
\* sleep for ever: that it stops in no other way is Terminates and AllPlayed.
CHECK_DEADLOCK FALSE
