CONSTANTS
    Request = {r1, r2, r3}
    Windows = {w1, w2, w3}
    None = None
SPECIFICATION Spec
SYMMETRY Symmetry
INVARIANTS TypeOK NoViewLeft StaleNeverShown
PROPERTIES ShowsSession
