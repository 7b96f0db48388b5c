CONSTANTS
    Transfers <- MCTransfers
    SIZE = 2
    UNITS = 3
    MAX_ROUNDS = 2
    dwSize = 6
    MAX_BYTES = 8
    Ops = {a, b, c}
    NULL = NULL
    Limited = {a}
    USER_LIMIT = 2
    DEVICE_LIMIT = 3
    SPEED = 2
    REQUESTS = 1
SPECIFICATION MCSpec
INVARIANT LinesAsSent
CHECK_DEADLOCK FALSE
