SPECIFICATION FairTaskSpec
CONSTANTS
    task = task
    operator = operator
    old = old
    new = new
    bad = bad
    json = json
    none = none
    Runs = {task}
    Tasks = {task}
    TaskTypes = {0, 4, 5}
    OperatorOperations = {"rollback"}
    Configs <- MCConfigs
    Startable <- MCStartable
    FailingChecks = {1}
    Json = json
    NoFile = none
    InitialFile = old
    RestartCommand = TRUE
    StartMayFail = FALSE
PROPERTIES
    AutomaticRollback
