SPECIFICATION Spec
CONSTANTS
    Player = {"p1", "p2"}
    Request = {"r1", "r2", "r3", "r4"}
    OwnerOf <- Owners
CHECK_DEADLOCK FALSE
INVARIANTS WellFormed NoOutcomeTwice EveryDrawIsCounted
PROPERTY CommitmentsSpec
