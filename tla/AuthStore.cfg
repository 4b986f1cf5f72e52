SPECIFICATION FairSpec
CONSTANTS
    Users = {u1, u2}
    Passwords = {p1}
    NoAccount = NoAccount
    NoUser = NoUser
    NoAnswer = NoAnswer
    MaxSecrets = 3
    Forgetful = {u1}
    WrongPassword = WrongPassword
    MaxQueue = 1
    MaxMishaps = 1
INVARIANTS
    RevokedSignsNobodyIn
    ResetWorksOnce
    HandedOutIsStored
PROPERTIES
    ImplementsAccess
    EveryCallReturns
CHECK_DEADLOCK FALSE
