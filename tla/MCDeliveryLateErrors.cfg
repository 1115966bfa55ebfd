SPECIFICATION Spec
CONSTANTS
    designer = designer
    api = api
    console = console
    Graph <- Pipeline
    MaxTasks = 3
    MaxRestarts = 0
    PatientClients = TRUE
PROPERTIES
    LateErrorsYield
CHECK_DEADLOCK FALSE
