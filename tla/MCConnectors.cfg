SPECIFICATION SpecConnectors
CONSTANTS
    Requests = {r1, r2, r3}
    MaxBoots = 3
    Messages = {m1, m2}
    MaxChanges = 3
    Assets = {a1, a2}
    MaxEnrollments = 2
    MaxFence = 3
    Slots = 2
    Runtime = 1
SYMMETRY ConnectorSymmetry
INVARIANTS ActiveHasSecret NoOrphanSecret TokenAsConnected Synced
           EnrollmentsAreReal SendsAreLeased DeadlocksAreKnown
PROPERTIES StartupSettles RevocationIsHonest NothingStaleIsPublished
