SPECIFICATION FairSpec
CONSTANTS
    Switches <- OnAndOff
    MaxResults = 3
INVARIANTS
    NeverWaitsInVain
    AtMostOneLate
PROPERTY ListenTakesEffect
