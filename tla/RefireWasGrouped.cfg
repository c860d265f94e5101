SPECIFICATION Spec
CONSTANTS
    Posts <- MCPosts
    Rule <- MCRule
    Matches <- MCMatches
    NeedsParent <- MCNeedsParent
    Parent <- MCParent
    Process <- MCProcess
    Window <- MCWindow
    Tactics <- MCTactics
    Severity <- MCSeverity
    Playbook <- MCPlaybook
    Steps <- MCSteps
    SeverityGte <- MCSeverityGte
    Notify = TRUE
    Lag = 1
    Settle = 2
    MaxTime = 4
    MaxInserts = 3
    BatchLimit = 2
    DrainCap = 2
    MaxFaults = 1
INVARIANT
    RefireWasGrouped
