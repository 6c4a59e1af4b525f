\* Three processes, two keys: an update, another that it overlaps, and a third.
CONSTANTS
    Procs = {p1, p2, p3}
    Keys = {k1, k2}
    Values = {v1, v2}
    None = None
    MaxUpdates = 4
SYMMETRY MCSymmetry
\* The callers need not call.
CHECK_DEADLOCK FALSE
SPECIFICATION Spec
INVARIANTS
    LossNeedsOverlap
