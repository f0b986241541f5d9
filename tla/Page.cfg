CONSTANTS
    Session = {a}
    Load = {l1, l2}
    Defined = {TRUE, FALSE}
    None = None
SPECIFICATION PageSpec
INVARIANTS ListAgrees CodePostedOnce
PROPERTIES PairedIsKnown ResumesListed
