CONSTANT Processes = {p1}
SPECIFICATION FairSpec
INVARIANT MenuExitIsClean
