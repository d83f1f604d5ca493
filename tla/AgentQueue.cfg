SPECIFICATION QueueSpec
CONSTANTS
    Msg = {m1, m2, m3}
    Providers = {"codex", "omp", "pi"}
    MaxFlips = 1
    MaxStops = 1
    None = None
SYMMETRY Symmetry
INVARIANTS
    Conserved
    QueueOrder
    NoStranding
CHECK_DEADLOCK FALSE
