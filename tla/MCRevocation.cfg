SPECIFICATION SessionsSpec
CONSTANTS
    Wallet = {w1}
    Challenge = {c1}
    Request = {r1, r2}
    MaxSessions = 3
    None = None
PROPERTY RevocationsEndLogins
CHECK_DEADLOCK FALSE
