SPECIFICATION SpecStorage
CONSTANTS
    s1 = s1
    s2 = s2
    b1 = b1
    Sources = {s1, s2}
    Photos = {s1, s2}
    Blobs = {b1}
    Content <- SharedContent
    Tokens = {t1, t2}
    Requests = {q1, q2}
    Enrollment = enrollment
    MaxRevision = 2
    FaultPlans <- OneFault
    Assets = {a1, a2}
    MaxRestores = 2
    SameSchema = TRUE
    RestoreCrashes = 2
    RestoreErrors = 2
    UpgradeFaults <- CrashesAndErrors
    MaxTime = 2
    MaxPackages = 3
    Files = {f1, f2}
    MaxScans = 3
    MaxChanges = 3
    MaxCommands = 5
    Mails = {"m1", "m2"}
    Message <- OneMessage
    Units = {"u1", "u2"}
    MailOf <- OneOrder
    NewItems = {"i1", "i2"}
    Pictures = {"p1", "p2", "p3"}
    PicturesOfRoot = {"p1", "p2"}
    PictureContent <- SharedPicture
    UpdatePackages <- FivePackages
    UpdateKeys <- TwoKeys
    UpdateOperations = {o1, o2}
    MaxRewrites = 3
    MaxOutages = 2
    LogCapacity = 2
    MaxEvents = 4
    MaxExports = 2
    MaxFailures = 2
    MaxMeddling = 2
INVARIANTS RecordsKeepTheirFiles RestoreKeepsACatalog UpgradeSettles
           RetainedAsShown ReconciledAsScanned PlansAreWhole StagedAsAnswered ExportsAreHonest
PROPERTIES OnlyWhatWasShownGoes DeletionsFinish
