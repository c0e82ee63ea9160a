SPECIFICATION Spec
CONSTANTS
    Player = {"p1"}
    Name = {"w1", "b1", "b2"}
    Amount = {1, 2}
    MaxNest = 1
    Request = {r1, r2}
    Command <- Commands
    None = None
SYMMETRY Symmetry
INVARIANTS TypeOK KeyAppliedOnce AckedExactly
PROPERTIES JournalSpec SerialBetsCovered
