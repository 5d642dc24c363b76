CONSTANTS
    c1 = c1
    NoChat = NoChat
    NoWorker = NoWorker
    Updates <- ThreeUpdates
    Chats = {c1}
    ChatOf <- WithNoChat
    Workers = {w1, w2}
    TelegramKeeps = 1
    ClaimsKept = 2
    MaxDay = 0
    MaxCrashes = 1
    MaxClaimErrors = 1
    MaxPanics = 1
    Tokens = {t1, t2, t3}
    NoToken = NoToken
    SessionRequests = {p1, p2}
    NoRequest = NoRequest
    MaxFailures = 1
    Grants = {g1, g2, g3}
    NoGrant = NoGrant
    Calls = {q1, q2}
    NoCall = NoCall
    k1 = k1
    k2 = k2
    k3 = k3
    Tickets = {k1, k2, k3}
    Kind <- TicketKinds
    NoTicket = NoTicket
    Claimers = {q1, q2}
    NoClaimer = NoClaimer
SPECIFICATION TurnsSpec
INVARIANT TurnsTypeOK
PROPERTIES RotationsAreLineages OneEach SessionsEnd ChatsGoOn
CHECK_DEADLOCK FALSE
