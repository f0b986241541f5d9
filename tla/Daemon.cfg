SPECIFICATION DaemonSpec
CONSTANTS
    Tail = {v4, v6}
    Cli = {x1, x2}
    Lan = Lan
    Unset = Unset
INVARIANTS Steady
PROPERTIES ExitsWhenTold ComesBack
