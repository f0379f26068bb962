CONSTANTS
    Keys = {k1}
    PeerObjs = {p1}
    Paths = {a1}
    Workers = {w1}
    InCommands = {0, 2}
    PingTime = 1
    ConnectionInvalidate = 2
    ConnectionRemove = 1
    RedundantFactor = 3
    FatalErrors = FALSE
    None = None
SPECIFICATION Spec
SYMMETRY MCSymmetry
VIEW MCView

PROPERTIES NoFreshInvalidation
