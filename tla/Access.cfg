CONSTANTS
    DeviceId = {i1, i2}
    n1 = n1
    n2 = n2
    b1 = b1
    b2 = b2
    Node = {n1, n2}
    Name = {m1, m2}
    None = None
    Browser = {b1, b2}
    NodeOf <- MCNodeOf
    Tagged = {n2}
    Owner <- MCOwner
    Self = "self"
    NoUser = "none"
    CheckInterval = 2
    CloseGrace = 1
SPECIFICATION Spec
INVARIANTS ExposureBounded AdmittedOnly
PROPERTIES PairingOnlyNames KeepsLeases CutOff
