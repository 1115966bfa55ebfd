SPECIFICATION ExecutionSpec
CONSTANTS
    Main = Main
    w = w
    r1 = r1
    r2 = r2
    a1 = a1
    a2 = a2
    designer = designer
    api = api
    console = console
    DirectDelivery = {d1, d2}
    Pushed = {"pushed"}
    MaxWorkers = 2
    MaxDeaths = 1
    Graph <- Pipeline
    Definitions <- Loops
    MaxPatches = 1
    Reviewer <- Reviewers
    Capacity = 2
    Iterations = 2
    MaxRevision = 4
    MaxFaults = 2
    MaxTasks = 3
    MaxRestarts = 1
    PatientClients = TRUE
INVARIANTS
    ExecutionTypeOK
    DriverInOrder
    SuccessIsAccepted
    TurnsInOrder
    WorkspacesInOrder
    GatesHold
    ActiveHoldsLease
    DecisionsHold
    
PROPERTIES
    VerificationInOrder
    EverythingReturns
    ImplementsContract
CHECK_DEADLOCK FALSE
