\* seven sets of devices that run and seven that fail, up to four periods, one or
\* two changes of the mutes, two callers of one call each
CONSTANTS
    Confs <- MCConfs
    Width <- MCWidth
SPECIFICATION Spec
INVARIANTS TypeOK  AnswersMatch
PROPERTY PlaysToTheEnd
CHECK_DEADLOCK FALSE
