SPECIFICATION Spec
CONSTANTS
    Keys = {k1, k2}
    Blobs = {b1, b2, b3}
    Workers = {w1, w2}
    Sweepers = {s1}
    Checkpointers = {c1, c2}
    ReclaimBatch = 1
    UnlinkErrors = FALSE
    SlowUploads = FALSE
    None = None
    NoBackup = NoBackup
SYMMETRY Symmetry
INVARIANT
    BackupComplete
