SPECIFICATION FairSpec
CONSTANTS
    Assets = {a1}
    MaxEnrollments = 1
    MaxFence = 2
PROPERTY ReconciliationIsNotStuck
