SPECIFICATION Spec
CONSTANTS
    Items = {i1, i2}
    Imported = {e1, e2}
    Purchased = {u1}
    MaxEvidence = 3
    MaxCatalogRevision = 4
INVARIANT EvidenceIsSomewhere
CHECK_DEADLOCK FALSE
