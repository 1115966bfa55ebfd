SPECIFICATION Spec
CONSTANTS
    w = w
    r1 = r1
    r2 = r2
    Main = Main
    Slot = {w, r1, r2}
    Purpose <- CodePurpose
    Client = {c1, c2}
    MaxChildren = 3
    MaxConcurrency = 2
    MaxWriters = 1
    MaxAttempts = 2
    MaxTransientAttempts = 2
SYMMETRY Symmetric
INVARIANTS
    TypeOK
    AttemptMatchesAgent
    SucceededOnEvidence
    AdverseEvidenceIsFatal
    ReviewAfterVerification
    StoppedRunIsQuiet
    CurrentCallIsValid
PROPERTIES
    SucceededIsFinal
    ImplementsContract
CHECK_DEADLOCK FALSE
