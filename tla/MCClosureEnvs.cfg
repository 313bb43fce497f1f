CONSTANTS
    Scope = e0
    Env = {e0, e1, e2}
    SweepMin = 2
    MaxHand = 1
    MaxHeld = 1
    MaxFrames = 2
    MaxClosures = 1
SPECIFICATION Spec
SYMMETRY Symmetric
INVARIANTS TypeOK LambdasRegistered SuspectsBounded DisciplinedNeverLeaks
CHECK_DEADLOCK FALSE
