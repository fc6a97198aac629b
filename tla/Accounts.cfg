SPECIFICATION Spec
CONSTANTS
    r1 = r1
    r2 = r2
    r3 = r3
    r4 = r4
    alice = alice
    bob = bob
    s1 = s1
    s2 = s2
    Requests <- MCRequests
    Workload <- MCWorkload
    Names <- MCNames
    Secrets <- MCSecrets
    Cash = Cash
    Admin = Admin
    CashName = CashName
    AdminName = AdminName
    NoName = NoName
    NoData = NoData
    NoSession = NoSession
    MaxFaults = 2
INVARIANTS TypeOK OnlyOwnCredentials LoginsWereEntitled AnswersMatchAccounts
    AdminCanLogIn
PROPERTIES KeepsTheRegistry ComesUpAgain
