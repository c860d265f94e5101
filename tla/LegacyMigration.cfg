SPECIFICATION Spec
CONSTANTS
    Names = {config, cert, key, temp}
    IdentityFiles = {cert, key}
    Temporary = temp
    Anchor = {a1, a2}
    ConsoleAnchor = a1
    MaxFaults = 2
    MaxSwaps = 1
INVARIANTS
    Resumable
    InstalledAsChecked
    CopiesSafe
PROPERTIES
    ReversalHonoured
    RootReturns
    CopiesGo
