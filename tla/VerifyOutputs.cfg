SPECIFICATION Spec
CONSTANTS
    payee = payee
    ours = ours
    Script = {payee, ours}
    Owned = {ours}
    Amount = {1, 2}
    MaxOutputs = 3
INVARIANTS
    AcceptsOnlyApproved
    RejectsNoneApproved
CHECK_DEADLOCK FALSE
