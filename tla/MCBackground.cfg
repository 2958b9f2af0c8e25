SPECIFICATION SpecBackground
CONSTANTS
    Jobs = {j1, j2}
    Handlers = {h1, h2}
    Deps <- NoDeps
    LeaseMs = 1
    BackoffMs = 1
    RetryLimit = 1
    MaxTime = 2
    MaxBoots = 2
    Submissions = {s1, s2}
    Tasks = {t1, t2}
    MaxTicks = 2
    Members = {p1, p2}
    MaxDecisions = 2
    MaxGenerations = 2
    Single = {p3}
    MaxScopeRevision = 1
    MaxSingleRevision = 4
    Items = {1, 2, 3}
    Lines = {1}
    Callers = {c1}
    Images <- SampleImages
    Readings <- SampleReadings
    PoolSize = 2
    Shown = 1
    PageSize = 1
    Filters = {"all", "open_stale"}
    MaxOffers = 5
    MaxListed = 7
    MaxRows = 4
    MaxPage = 2
    MaxWrites = 2
SYMMETRY BackgroundSymmetry
INVARIANTS ResultFromLastClaim WakesAreRetained PeopleWorkAddsUp OwnersCropIsMatched
PROPERTIES CasesAreSound ListingAddsUp
