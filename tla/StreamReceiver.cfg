SPECIFICATION Spec
CONSTANTS
    Block = 2
    Wide = 2
    Widths = {1, 4}
    Copies = {2, 3}
    AadLens = {}
    MaxBytes = 5
    MaxAad = 0
    Messages = 2
INVARIANTS
    StreamsOpen
CHECK_DEADLOCK FALSE
