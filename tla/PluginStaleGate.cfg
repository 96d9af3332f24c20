SPECIFICATION Spec
CONSTANTS
    Plugins = {p1, p2}
    WorkerIDs = {0}
    ConfWorkerIDs = {0}
    Callers = {c1, c2}
    MaxSequence = 0
    MaxTime = 1
    Prompt = FALSE
    Nobody = Nobody
    Ghost = Ghost
    NoID = NoID
    NoPlugin = NoPlugin
INVARIANTS
    UniqueIDs
