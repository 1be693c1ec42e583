\* Two workers on two files, beside one account that becomes an administrator's and may cease to be.
SPECIFICATION Spec
CONSTANTS
    Email = {e1}
    Attempt = {a1, a2}
    AccessLife = 1
    RefreshLife = 2
    MaxClock = 1
    MaxChanges = 2
    None = None
    Worker = {w1, w2}
    Files = 2
    RulesIn = 2
    Field = {"severity"}
    Value = {"old", "bad"}
    Loadable = {"old"}
    Original = "old"
    MaxUpdates = 2
    MaxFaults = 1
SYMMETRY Symmetry
INVARIANTS
    TypeOK
    RightsEnd
    LogAccountsForRules
    EnginesComplete
PROPERTIES
    RegistrationResetsNothing
\* Time and the changes of accounts are bounded.
CHECK_DEADLOCK FALSE
