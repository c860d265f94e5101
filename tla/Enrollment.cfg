SPECIFICATION FairSpec
CONSTANTS
    MaxRetries = 2
    MaxTokens = 2
    MaxInFlight = 2
    MaxUpsets = 3
INVARIANTS
    IdentityRegistered
    OneAgentPerToken
    TokensLostToUpsets
PROPERTY
    StepSettles
