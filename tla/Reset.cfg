SPECIFICATION Spec
CONSTANTS
    alice = alice
    cash = cash
    m1 = m1
    m2 = m2
    reset1 = reset1
    reset2 = reset2
    Users = {alice}
    Cash = cash
    NoUser = NoUser
    Mails = {m1, m2}
    NoToken = NoToken
    Resets = {reset1, reset2}
    NoRow = NoRow
    OldPassword = OldPassword
    NoPassword = NoPassword
    Lifetime = 1
    MaxTime = 2
INVARIANTS TypeOK CashHasNoPassword UsedTokensAreGone MailedTokensWork OkMeansReset
PROPERTIES TokensLeaveForAReason PasswordsNeedMailedTokens ExpiredTokensAreSwept EveryResetAnswered
