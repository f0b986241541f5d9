CONSTANTS
    DeviceId = {i1, i2}
    Node = {n1}
    Name = {m1}
    None = None
    Proc = {p1, p2}
    Junk = Junk
SPECIFICATION Spec
INVARIANTS TypeOK OneRow
PROPERTIES OnlyAsOrdered AtomicStore LockReleased
