SPECIFICATION Spec
CONSTANTS
    Round = {r1, r2}
    Stakes = {1, 2}
    Outcomes <- Evaluations
    Funds = 2
    Spins = 1
    Claim = {c1, c2}
    Reward = 1
    Cooldown = 2
    MaxTime = 2
CHECK_DEADLOCK FALSE
SYMMETRY Symmetry
INVARIANTS PrizesArePaidFor RewardsKeepTheCooldown HistoryIsSettled
