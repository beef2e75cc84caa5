SPECIFICATION SessionSpec
CONSTANTS
    Users = {u1, u2}
    Attempts = {p1}
    MaxRequests = 2
    Nobody = Nobody
CHECK_DEADLOCK FALSE
INVARIANTS CompletedGateAdmits
