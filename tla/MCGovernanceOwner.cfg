SPECIFICATION GovernanceSpec
CONSTANTS
    Delivery = {d1, d2}
    N = 2
    MaxMoves = 2
    MaxRestarts = 1
    MaxVersion = 4
    PatientOperator = TRUE
    User = {ada, bob}
    Founder = ada
    Caller = {c1, c2}
    Requested = {d1, d2}
    Workcell = {engineering}
    Requester = {c1, c2}
    MaxProjectVersion = 4
    MaxSite = 4
    MaxProjectRestarts = 1
    Artifact = {plan, revised}
    Editor = {ada, bob}
    MaxRevision = 4
    MaxWikiRestarts = 1
    Content = {old, new, broken}
    Sound = {old, new}
    First = old
    Author = {c1, c2}
    MaxChanges = 4
    MaxStartups = 1
    Kinds <- Compared
    Parallel = 2
    MaxTroubles = 1
    BundleSize = 3
    MaxCommits = 2
    MaxFaults = 2
    MaxManagedRestarts = 2
    Main = Main
    a1 = a1
    a2 = a2
    a3 = a3
INVARIANT EffectiveOwnerRemains
CHECK_DEADLOCK FALSE
