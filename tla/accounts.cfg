\* Two sessions and three tokens of one user; five addresses of which two are
\* allowed; two links to two mailboxes; a browser that
\* sends four requests; two requests in flight in each, which are alike.
SPECIFICATION AccountsSpec
CONSTANTS
    Sessions = {1, 2}
    Tokens = {1, 2, 3}
    NoSession = NoSession
    Requests = {c1, c2}
    TokenDays = 1
    IdleDays = 2
    MaxPasswords = 2
    MaxDay = 3
    Tabs = {c1, c2}
    NoToken = NoToken
    MaxSent = 4
    AddressIds = {1, 2, 3, 4, 5}
    AddressCalls = {c1, c2}
    MaxAddresses = 2
    Mailboxes = {1, 2}
    GoogleMailboxes = {1}
    LinkCalls = {c1, c2}
    MaxLinks = 2
CONSTRAINT Followed
SYMMETRY EitherRequest
INVARIANTS
    TokensHold
    ReplayEndsSession
    NewPasswordEndsOthers
    BrowserHolds
    OneDefaultAddress
    LinksHold
PROPERTY
    EndedStaysEnded
CHECK_DEADLOCK FALSE
