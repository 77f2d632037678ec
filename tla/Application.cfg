CONSTANT Processes = {p1, p2}
SPECIFICATION FairSpec
INVARIANTS OneCollector IconIsCurrent ReturnIsOrderly InstallTellsTheTruth
PROPERTIES ExistingTaskIsUntouched ExitIsReached
