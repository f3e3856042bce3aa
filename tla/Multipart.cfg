SPECIFICATION Spec
CONSTANTS
    Uploads = {u1, u2}
    Parts = {p1, p2}
    Blobs = {b1, b2, b3}
    Workers = {w1, w2}
    Sweeper = sweeper
    SweepBatch = 2
    None = None
SYMMETRY Symmetry
INVARIANTS
    TypeOK
    PayloadsPresent
    LogIsGarbage
