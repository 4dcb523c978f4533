SPECIFICATION Spec
CONSTANTS
    MaxLong = 7
    MaxLines = 4
INVARIANTS
    ValidatesBalance
    OffByWholeLongs
    ReversalAccepted
CHECK_DEADLOCK FALSE
