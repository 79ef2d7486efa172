SPECIFICATION WebSpec
CONSTANTS
    Users = {x1, x2}
    MaxSid = 2
    SessionRequests = {y1, y2}
    AbsoluteMax = 0
    ConfirmWindow = 1
    MaxSessionTime = 1
    MaxVisits = 3
    MaxWork = 2
    MaxPassword = 2
    TokenIds = {x1, x2}
    Owners = {x1, x2}
    Issuers = {y1, y2}
    IssueAttempts = 2
    MaxSecrets = 3
    MaxTokenTime = 2
    Components = {x1, x2}
    PropKeys = {y1, y2}
    PropShapes <- MCShapes
    MaxDeploys = 1
    Hosts <- MCHosts
    Listed <- MCListed
    WidthV4 = 2
    WidthV6 = 3
    MaxForged = 2
    MaxEntries = 4
    Readers = {x1, x2}
    Tags <- MCTags
    Chosen <- MCChosen
    Order <- MCOrder
    Headers <- MCHeaders
    MaxCandidates = 3
SYMMETRY WebSymmetry
INVARIANTS
    NoFixation
    SignedOutStays
    FreshMeansVerified
    PlaintextStands
    PageComplete
    ClientIsReal
    CachedInOwnLocale
CHECK_DEADLOCK FALSE
