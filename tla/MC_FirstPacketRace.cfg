CONSTANTS
    Keys = {k1}
    PeerObjs = {p1, p2}
    Paths = {a1, a2}
    Workers = {w1, w2}
    InCommands = {0}
    PingTime = 1
    ConnectionInvalidate = 1
    ConnectionRemove = 1
    RedundantFactor = 1
    FatalErrors = FALSE
    None = None
SPECIFICATION Spec
SYMMETRY MCSymmetry
VIEW MCView

PROPERTIES PeerPathsRefined
