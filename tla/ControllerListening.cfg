SPECIFICATION FairSpec
CONSTANTS
    Switches <- EnableOnly
    MaxResults = 4
INVARIANTS
    FetchFindsResult
    NoResultLeftBehind
PROPERTY ImplementsStream
