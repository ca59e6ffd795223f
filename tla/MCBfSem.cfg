SPECIFICATION Spec
CONSTANTS
    t1 = t1
    t2 = t2
    t3 = t3
    t4 = t4
    Threads <- AllThreads
    NoThread = NoThread
    Uses <- AllUses
    Capacity = 2
    MaxPosts = 3
    MaxSpurious = 1
INVARIANTS
    TypeOK
    NoLostWakeup
    MessagesInOrder
    MessagesFit
PROPERTIES
    CountingSpec
\* The posts are bounded, so that in the end all waiters sleep, and an overflow of
\* the message buffer ends the program.
CHECK_DEADLOCK FALSE
