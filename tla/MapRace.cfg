SPECIFICATION Spec
CONSTANTS
    alice = alice
    cash = cash
    r1 = r1
    r2 = r2
    r3 = r3
    Users = {alice}
    Cash = cash
    Role <- MCRole
    Methods <- MCMethods
    Requests = {r1, r2}
    Workload <- TwoLoginsWorkload
    NoToken = NoToken
    NoSession = NoSession
    Lifetime = 1
    MaxTime = 2
PROPERTY TokensLastAsPromised
