CONSTANTS
    Keys = {k1}
    PeerObjs = {p1}
    Paths = {a1, a2, a3}
    Workers = {w1}
    InCommands = {0, 2}
    PingTime = 1
    ConnectionInvalidate = 2
    ConnectionRemove = 1
    RedundantFactor = 3
    FatalErrors = TRUE
    None = None
SPECIFICATION Spec
SYMMETRY MCSymmetry
VIEW MCView
INVARIANTS TypeOK PeerHasPath
PROPERTIES PurgeSafe PeerPathsRefined
