CONSTANTS
    c1 = c1
    c2 = c2
    n1 = n1
    n2 = n2
    Conns <- MCConns
    Names <- MCNames
    MaxQueue = 2
    None = None

SPECIFICATION Spec

SYMMETRY MCSymmetry

INVARIANTS
    NamesLeadToServices
    HeadersTellTheTruth

CHECK_DEADLOCK FALSE
