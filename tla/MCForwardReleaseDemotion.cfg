SPECIFICATION Spec
CONSTANTS
    d1 = d1
    d2 = d2
    Delivery = {d1}
    N = 2
    MaxMoves = 0
    MaxRestarts = 0
    MaxVersion = 4
    PatientOperator = FALSE
PROPERTIES
    NeverDemoted
CHECK_DEADLOCK FALSE
