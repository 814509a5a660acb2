SPECIFICATION Spec
CONSTANTS
    Switches <- OnAndOff
    MaxResults = 3
INVARIANT NoResultLeftBehind
