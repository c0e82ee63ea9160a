SPECIFICATION HalfSpec
CONSTANTS
    Reel = {1, 2, 3}
    MaxSpins = 3
    MaxHides = 2
    Me = "p"
    MaxSeeds = 3
    MaxOthers = 2
    PanelSpins = 2
CHECK_DEADLOCK FALSE
INVARIANTS ResultIsOneRounds SpinningReelsLoop VerifierIsTrue
PROPERTY ResultsAreReached
