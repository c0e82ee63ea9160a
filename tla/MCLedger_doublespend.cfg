SPECIFICATION Spec
CONSTANTS
    Player = {"p1"}
    Name = {"w1", "b1", "b2"}
    Amount = {2}
    MaxNest = 0
    Request = {r1, r2}
    Command <- RacingBets
    None = None
PROPERTY BetsCovered
