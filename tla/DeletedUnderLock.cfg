SPECIFICATION Spec
CONSTANTS
    Names = {config, key, temp}
    IdentityFiles = {key}
    Temporary = temp
    Anchor = {a1, a2}
    ConsoleAnchor = a1
    MaxFaults = 2
    MaxSwaps = 1
PROPERTY
    DeletedUnderLock
