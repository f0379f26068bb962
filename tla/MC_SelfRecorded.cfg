CONSTANTS
    Ifaces = {e1}
    IPs = {i1, i2}
    IPv4 = {i2}
    Listeners = {n1, n2}
    BindFailures = TRUE
    MaxChanges = 0
SPECIFICATION Spec
SYMMETRY MCSymmetry
VIEW MCView
INVARIANTS SelfRecorded
