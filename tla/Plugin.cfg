SPECIFICATION Spec
CONSTANTS
    Plugins = {p1, p2}
    WorkerIDs = {0, 1}
    ConfWorkerIDs = {0, 1}
    Callers = {c1}
    MaxSequence = 0
    MaxTime = 1
    Prompt = TRUE
    Nobody = Nobody
    Ghost = Ghost
    NoID = NoID
    NoPlugin = NoPlugin
SYMMETRY ProcessSymmetry
INVARIANTS
    TypeOK
    UniqueIDs
    IInv
    StampsLeasedID
    TerminatedHoldsNothing
