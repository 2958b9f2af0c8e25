SPECIFICATION SpecProviders
CONSTANTS
    Approvals = {a1, a2}
    MaxRevision = 1
    MaxBoots = 3
    ReceiptRequests = {r1}
    Calls = {c1, c2}
    MaxSource = 2
    Suggestions = {q1, q2}
    Items = {i1, i2, i3}
    Imported = {e1, e2}
    Purchased = {u1}
    MaxEvidence = 2
    MaxCatalogRevision = 4
    Remote = {x1}
    MaxQuantity = 2
    MaxReviews = 3
    Downloads = {d1, d2}
    Workers = {w1}
    Revisions = {0, 1, 2}
    RequestIds = {m1, m2}
    MaxMode = 2
    MaxAttempts = 3
    Putters = {p1}
    Entries = {n1, n2}
    MaxFiles = 3
    MaxCrashes = 1
SYMMETRY ProviderSymmetry
INVARIANTS AtMostOneSend FailureIsHonest
           ConsentIsSpentOnce
           PurchasedOnce NewestImageOnly ModeIsKept StoredAsRecorded
PROPERTIES PublishedAsApproved DecisionsHold
CHECK_DEADLOCK FALSE
