CONSTANTS
    Session = {a, b}
    Socket = {s1, s2, s3}
    MaxTimers = 2
    None = None
    Defined = {TRUE, FALSE}
SPECIFICATION Spec
INVARIANTS TypeOK OneChain OnlyCurrent StopsTheLoop NeverStranded
PROPERTIES Remembered Redials
