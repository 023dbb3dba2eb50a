CONSTANTS
    Size = 2
    MaxBytes = 4
SPECIFICATION Spec
INVARIANT BytesInOrder
CHECK_DEADLOCK FALSE
