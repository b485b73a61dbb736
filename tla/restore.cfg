\* Four operations of any kind, started in any order and on top of each other,
\* over a library that may hold each of the two texts of the backup.
SPECIFICATION Spec
CONSTANTS
    Ops = {o1, o2, o3, o4}
    Texts = {t1, t2}
    Backup = {t1, t2}
    Old = old
    NoOp = none
    MaxFaults = 1
    MaxPresses = 1
SYMMETRY OpSymmetry
INVARIANTS
    TypeOK
    MediaMatchesRows
    CancelledForAReason
CHECK_DEADLOCK FALSE
