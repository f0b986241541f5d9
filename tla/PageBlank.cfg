CONSTANTS
    Session = {a}
    Load = {l1, l2}
    Defined = {FALSE}
    None = None
SPECIFICATION PageSpec
INVARIANT NeverBlank
