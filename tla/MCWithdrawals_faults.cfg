SPECIFICATION SagaFairSpec
CONSTANTS
    Withdrawal = {"w1", "w2", "w3"}
    Chips <- Amounts
    Funds = 5
    VaultFunds = 3
INVARIANTS AnswersAreTrue LedgerMatchesVault
PROPERTY EveryDebitSettles
CHECK_DEADLOCK FALSE
