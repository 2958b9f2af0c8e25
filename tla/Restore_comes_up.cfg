CONSTANTS
    Assets = {a1}
    SameSchema = TRUE
    MaxRequests = 1
    MaxCrashes = 1
    MaxErrors = 0
SPECIFICATION LiveSpec
PROPERTY ComesUp
