\* Whether an asset id can be used again once its vault is closed and cleaned up.
SPECIFICATION SetupSpec
CONSTANTS
    Processes = {p1}
    Operator = op
    OtherMakers = {m3}
    WhitelistSize = 2
    MaxOutstanding = 1
INVARIANT CleanedUpReusable
CHECK_DEADLOCK FALSE
