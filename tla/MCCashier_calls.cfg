SPECIFICATION Spec
CONSTANTS
    Op = {o1, o2}
    Amounts = {1, 2}
    Spin = {s1}
    Stakes = {1}
    Payouts = {0, 2}
    Funds = 2
    Chips = 2
    FaucetChips = 1
    Polls = 2
    MaxFaults = 1
SYMMETRY Symmetry
CHECK_DEADLOCK FALSE
INVARIANTS ConfirmedCreditIsTrue FlowTellsTheTruth NothingIsLeftBusy
PROPERTY RefusedOnlyIfFallen
