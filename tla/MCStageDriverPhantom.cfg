SPECIFICATION Spec
CONSTANTS
    w = w
    r1 = r1
    r2 = r2
    a1 = a1
    a2 = a2
    Main = Main
    Slot = {a1, a2}
    Purpose <- ArtifactPurpose
    MaxChildren = 3
    MaxConcurrency = 2
    MaxWriters = 1
    MaxAttempts = 2
    MaxTransientAttempts = 2
INVARIANT NoPhantomAttempts
CHECK_DEADLOCK FALSE
