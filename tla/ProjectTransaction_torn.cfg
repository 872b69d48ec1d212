\* The power fails during the first publication of a fresh project.
SPECIFICATION Spec
CONSTANTS
    Procs = {p1, p2}
    Free = Free
    NoPair = NoPair
    MaxTx = 1
    FaultModels = {{"power"}}
INVARIANTS EveryOutcomeIsWhole
