SPECIFICATION Spec
CONSTANTS
    Posts <- MCPosts
    Rule <- MCRule
    Matches <- MCMatches
    NeedsParent <- MCNeedsParent
    Parent <- MCParent
    Process <- MCProcess
    Window <- MCWindow
    Tactics <- MCTactics
    Severity <- MCSeverity
    Playbook <- MCNone
    Steps <- MCNothing
    SeverityGte <- MCNothing
    Notify = TRUE
    Lag = 1
    Settle = 2
    MaxTime = 4
    MaxInserts = 3
    BatchLimit = 2
    DrainCap = 2
    MaxFaults = 1
INVARIANTS
    NoRowSkipped
    NoMissedMatch
    IncidentsAgree
