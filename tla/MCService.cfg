\* Two calls at once; few seconds, sessions, days and rows.
CONSTANTS
    q1 = q1
    q2 = q2
    Calls = {c1, c2}
    Streams = {c2}
    Skew = 1
    ReplayWindow = 2
    SessionLife = 3
    Margin = 1
    MessageBudget = 2
    Offsets = {1}
    LastTick = 2
    MaxSent = 2
    MaxSessions = 2
    MaxRestarts = 1
    MaxOutcomes = 1
    Callers = {a1}
    LimitedTo <- TwoCalls
    WindowOf <- FewSeconds
    Paths = {"health", "credential", "data"}
    LastSecond = 5
    Turns = {t1, t2}
    Chats = {s1}
    Relayed = {q1, q2}
    Entries = {e1}
    NoTurn = NoTurn
    NoChat = NoChat
    NoEntry = NoEntry
    MaxWrites = 1
    MaxDeletes = 1
    MaxCreated = 1
    MaxEdits = 1
    McpTokens = {m1}
    CallKeys = {k1, k2}
    Pending = {q1, q2}
    NoToken = NoToken
    NoKey = NoKey
    MaxCalls = 3
    MaxMcpWrites = 2
    MaxMcpDeletes = 1
    MaxQuestions = 2
    CalledTools = {"context", "search", "analysis", "summary", "budget", "create", "update", "delete", "items", "wallet", "category", "choices"}
    MaxSlips = 2
    SlipValues = {"null", "blank", "number", "text", "long", "huge", "early", "late", "none", "word", "dear", "many"}
    Spoken = {t1, t2}
    Editors = {e1}
    HistoryWindow = 1
    Sheet <- SmallSheet
    Periods <- SmallPeriods
    MonthLength = 4
    YearLength = 8
    MaxMonths = 3
    TopCategories = 2
    TopRows = 2
    PageSize = 2
    Limits <- SmallLimits
    MaxChanges = 1
    Codes = {eur, idr, usd}
    Base = eur
    LastDay = 1
    AttemptsPerDay = 2
    Lookups = {l1}
SPECIFICATION ServiceSpec
SYMMETRY SameCalls
INVARIANTS ServiceTypeOK CallsCostWhatTheyMay CallersAreTold FiguresAgree
PROPERTY ForgetsOnlyLost
CHECK_DEADLOCK FALSE
