SPECIFICATION Spec
CONSTANTS
    DeviceId = {d1}
    Node = {n1}
    Name = {phone}
    None = None
    Code = {c1, c2}
    Matrix <- MCMatrix
    Outside <- MCOutside
INVARIANTS QrScans FlashHonest
PROPERTIES CatchesUp
