SPECIFICATION Spec
CONSTANTS
    w1 = w1
    w2 = w2
    None = None
    Threads <- MCThreads
    Run <- Perform
    Byte <- MCByte
    Zero = 0
    Nul = "NUL"
    Sim = "sim"
    Reports <- MCReports
    Loop <- MCLoop
    Requests <- MCRequests
    MaxRequests = 4
INVARIANTS
    TypeOK
    LockHeld
    NoUseAfterDelete
PROPERTIES
    AccessesAtomic
    DeliversEndToEnd
    ShutdownCompletes
