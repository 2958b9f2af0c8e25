CONSTANTS
    Assets = {a1}
    SameSchema = TRUE
    MaxRequests = 1
    MaxCrashes = 1
    MaxErrors = 1
SPECIFICATION Spec
INVARIANT RestoreIsUsable
