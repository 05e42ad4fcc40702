SPECIFICATION Spec
CONSTANTS
    Block = 4
    Wide = 2
    Widths = {2, 8}
    Copies = {4, 5}
    AadLens = {1, 4}
    MaxBytes = 12
    MaxAad = 5
    Messages = 1
INVARIANTS
    TypeOK
    StreamIsGcm
    OrderedTailFits
    AcceptedIsIntact
    Delivered
CHECK_DEADLOCK FALSE
