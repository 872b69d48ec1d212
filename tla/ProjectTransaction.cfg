\* Processes die or meet failing writes and syncs while the machine stays up; or
\* the machine loses power once .wago is durable, and processes die once their
\* journal is.
SPECIFICATION Spec
CONSTANTS
    Procs = {p1, p2}
    Free = Free
    NoPair = NoPair
    MaxTx = 2
    FaultModels = {{"io", "journalSync", "kill"}, {"io", "lateKill", "latePower"}}
SYMMETRY Interchangeable
INVARIANTS EffectiveIsWhole ReadsAreCurrent EveryOutcomeIsWhole CommittedIsDurable
PROPERTIES NothingIsRolledBack
