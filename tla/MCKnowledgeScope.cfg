SPECIFICATION KnowledgeSpec
CONSTANTS
    Source = {specification}
    MaxJobs = 2
    MaxThreads = 2
    MaxSyncAttempts = 2
    MaxRevision = 1
    MaxSyncEvents = 1
    Manifest = {specification, handbook}
    Policy = {smoke, full}
    Admin = {ada, bob}
    MaxPointer = 2
    Required = {architect, backend}
    Optional = {reviewer}
    MaxAttempts = 2
    MaxEpoch = 3
    MaxRestarts = 1
INVARIANTS
    ScopeLeavesSearch
CHECK_DEADLOCK FALSE
