SPECIFICATION Spec
CONSTANTS
    Addresses = {ip}
    Accounts = {u1, u2}
    NoRecord = NoRecord
    MaxFailures = 1
    FailureWindow = 3
    MaxLockout = 3
    MaxDoublings = 3
    MaxRegistrations = 1
    RegistrationWindow = 2
    SweepInterval = 2
    MaxTime = 6
SYMMETRY Symmetry
INVARIANTS
    FailuresAreSpaced
    LockoutIsCapped
    RegistrationBudget
PROPERTY
    LockoutStandsInWindow
