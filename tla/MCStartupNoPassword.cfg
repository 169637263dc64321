SPECIFICATION Spec
CONSTANTS
    p1 = p1
    p2 = p2
    Nobody = Nobody
    Process <- OneProcess
    MaxCrashes = 1
INVARIANTS AdminCanSignIn
