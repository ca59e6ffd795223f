\* networks of up to three filters are allotted; six of them are run for four or
\* five blocks with every silence pattern and two changes of the control
CONSTANTS
    Confs <- MCConfs
    CounterMod = 4
SPECIFICATION Spec
INVARIANTS TypeOK AllotmentSound OutputIsIdeal ZeroFlagsTrue PartialSumsComplete HooksAtomic
CHECK_DEADLOCK FALSE
