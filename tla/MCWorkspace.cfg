\* Two requests at once on each part.
CONSTANTS
    r1 = r1
    r2 = r2
    usd = usd
    Users = {ann, bob}
    Creator = ann
    Invitations = {i1, i2}
    NoUser = NoUser
    Admins = {r1, r2}
    NoAdmin = NoAdmin
    WalletIds = {1, 2, 3}
    SeededWallets = {1, 3}
    WalletGroups = {g1}
    NoGroup = NoGroup
    WalletRequests = {r1, r2}
    NoRequest = NoRequest
    Categories = {food}
    NoCategory = NoCategory
    BudgetIds = {b1, b2}
    Rows = {row}
    Items = {item}
    CategoryRequests = {r1, r2}
    Files = {f1}
    Chunks = 2
    Contents = {jpeg, junk}
    Disguised = {junk}
    Missing = Missing
    Carriers = {c1}
    VaultRequests = {r1, r2}
    Papers = {11, 12}
    PaperValues <- SmallPaperValues
    Lines = {1, 2}
    LineValues <- SmallLineValues
    NoRow = NoRow
    Key <- SmallKey
    LineRequests = {r1, r2}
    MaxStamps = 3
    Picks = {1, 2}
    Labels = {"none", "food"}
    Homes = {usd, idr}
    Selectors = {r1, r2}
    BulkLimit = 2
    MaxBegun = 3
SPECIFICATION WorkspaceSpec
SYMMETRY SameRequests
INVARIANTS WorkspaceTypeOK OwnersRemainUnlessRaced OneOfEach StoredTruth ReadsAgree
PROPERTY DeletionsLeaveOrder
CHECK_DEADLOCK FALSE
