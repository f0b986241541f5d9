CONSTANTS
    CheckInterval = 2
    KeepaliveInterval = 4
    PongTimeout = 3
    WriteTimeout = 2
    CloseGrace = 1
SPECIFICATION Spec
INVARIANTS TypeOK DetachPrompt NoDropWithoutCause CutOffIsTold
PROPERTIES KeepsLease Finishes
