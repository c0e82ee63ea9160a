SPECIFICATION Spec
CONSTANTS
    Nonce = {"n1", "n2"}
    Request = {r1, r2}
    MaxTokens = 4
CHECK_DEADLOCK FALSE
SYMMETRY Symmetry
INVARIANTS SessionsAreEarned OneLiveTokenPerLogin TheftEndsFamily
