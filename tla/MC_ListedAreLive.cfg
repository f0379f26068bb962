CONSTANTS
    Ifaces = {e1, e2}
    IPs = {i1, i2, i3}
    IPv4 = {i3}
    Listeners = {n1, n2, n3, n4}
    BindFailures = TRUE
    MaxChanges = 2
SPECIFICATION Spec
SYMMETRY MCSymmetry
VIEW MCView
INVARIANTS ListedAreLive
