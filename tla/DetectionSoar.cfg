SPECIFICATION Spec
CONSTANTS
    Posts <- MCOnePost
    Rule <- MCRule
    Matches <- MCMatches
    NeedsParent <- MCNeedsParent
    Parent <- MCParent
    Process <- MCProcess
    Window <- MCWindow
    Tactics <- MCTwoTactics
    Severity <- MCSeverity
    Playbook <- MCPlaybook
    Steps <- MCSteps
    SeverityGte <- MCSeverityGte
    Notify = TRUE
    Lag = 1
    Settle = 2
    MaxTime = 2
    MaxInserts = 1
    BatchLimit = 2
    DrainCap = 2
    MaxFaults = 2
INVARIANTS
    MailOnce
    RunRecords
    OneLossPerFault
PROPERTIES
    ClosedIsQuiet
    RowsEvaluated
