SPECIFICATION Spec
CONSTANTS
    a = a
    b = b
    c = c
    g = g
    h = h
    i1 = i1
    i2 = i2
    Stranger = Stranger
    Foreign = Foreign
    Signer = {a, b, h}
    Software = {h}
    Threshold = 2
    Input = {i1, i2}
    Taproot = FALSE
    MaxCopies = 2
INVARIANTS
    CompleteIsFinalizable
CHECK_DEADLOCK FALSE
