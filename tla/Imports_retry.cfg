SPECIFICATION Spec
CONSTANTS
    Files = {f1, f2}
    MaxScans = 3
    MaxChanges = 3
INVARIANT RefreshIsPossible
CHECK_DEADLOCK FALSE
