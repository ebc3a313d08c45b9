SPECIFICATION TaskSpec
CONSTANTS
    task = task
    operator = operator
    old = old
    new = new
    bad = bad
    json = json
    none = none
    Runs = {task, operator}
    Tasks = {task}
    TaskTypes = {5}
    OperatorOperations = {"rollback"}
    Configs = {old, bad}
    Startable = {old}
    FailingChecks = {}
    Json = json
    NoFile = none
    InitialFile = old
    RestartCommand = TRUE
    StartMayFail = FALSE
INVARIANTS
    RollbackToPrevious
