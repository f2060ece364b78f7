CONSTANTS
    Stacks <- AllStacks
    Plan <- Plans
    MaxFaults <- FewFaults
SPECIFICATION FairSpec
INVARIANTS TypeOK KnownRaces CanGetFurther
PROPERTIES RepeatCompletes
CHECK_DEADLOCK FALSE
