CONSTANTS
    Ifaces = {e1, e2}
    IPs = {i1, i2}
    IPv4 = {}
    Listeners = {n1, n2, n3, n4, n5}
    BindFailures = FALSE
    MaxChanges = 2
SPECIFICATION Spec
SYMMETRY MCSymmetry
VIEW MCView
INVARIANTS Covered
