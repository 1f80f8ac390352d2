SPECIFICATION RestoreSpec
CONSTANTS
    Procs = {p1, p2}
    TokenUsers = {u1, u2}
    Targets = {A, B}
    Small = {B}
    ImageKinds = {"block", "disk", "stream", "file"}
    ChainLength = 2
    Layout <- MC_Layout
    Ttl = 0
    MaxTime = 1
    MaxTokens = 1
    MaxEvents = 1
INVARIANT TokenWritesOnce
CHECK_DEADLOCK FALSE
SYMMETRY MC_Symmetry
