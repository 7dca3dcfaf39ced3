SPECIFICATION Spec
CONSTANTS
    LastTime = 8
    Order = 3
    DtExp = 1
INVARIANT PolynomialAround
