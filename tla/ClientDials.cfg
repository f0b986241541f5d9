CONSTANTS
    Session = {a, b}
    Socket = {s1, s2, s3}
    MaxTimers = 2
    None = None
    Defined = {FALSE}
SPECIFICATION Spec
INVARIANT Dials
