SPECIFICATION Spec
CONSTANTS
    n_processes = 3
    MaxRound = 3
INVARIANTS
    TypeOK
    BarrierSafe
    TokensBounded
    NoLeftover
PROPERTIES
    EveryoneLeaves
    AbstractSpec
\* The rounds are bounded, so the processes do stop; that none stops inside a
\* synchronisation is EveryoneLeaves.
CHECK_DEADLOCK FALSE
