SPECIFICATION Spec
CONSTANTS
    a = a
    b = b
    c = c
    g = g
    h = h
    i1 = i1
    i2 = i2
    Stranger = Stranger
    Foreign = Foreign
    Signer = {a, b, h}
    Software = {h}
    Threshold = 2
    Input = {i1}
    Taproot = TRUE
    MaxCopies = 2
INVARIANTS
    CountedHaveSigned
CHECK_DEADLOCK FALSE
