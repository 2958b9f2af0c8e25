CONSTANTS
    s1 = s1
    s2 = s2
    s3 = s3
    b1 = b1
    b2 = b2
    Sources = {s1, s2, s3}
    Photos = {s3}
    Blobs = {b1, b2}
    Content <- SharedContent
    Tokens = {t1, t2}
    Requests = {q1, q2}
    Enrollment = enrollment
    MaxRevision = 2
    FaultPlans <- OneError
SPECIFICATION Spec
INVARIANT EveryRecordHasItsFile
