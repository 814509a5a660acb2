SPECIFICATION Spec
CONSTANTS
    Byte <- MCByte
    Zero = 0
    Nul = "NUL"
    Register <- MCRegister
    Targets <- MCTargets
INVARIANT
    ListShowsSupport
