CONSTANTS
    s1 = s1
    s2 = s2
    b1 = b1
    pa = pa
    pb = pb
    Jobs = {s1, s2, b1}
    Statements = {s1}
    Purses = {1, 2}
    Prints = {pa, pb}
    NoJob = NoJob
    MaxLosses = 1
    File <- ThreeFiles
    ChannelDepth = 2
    MaxEvents = 4
    Movements <- SmallMovements
    Columns = {"signed", "split", "out", "in"}
    Replicas = {r1}
    Files = {f1, f2}
    TelegramFiles = {f1}
    Batch = 1
    Backoff <- OneWait
    GiveUpAfter = 2
    StaleAfter = 1
    ReadTakes = 1
    Answers = {"read", "busy", "refused"}
    People = {"save"}
    MaxFaults = 1
    MaxSaves = 1
SPECIFICATION BackgroundSpec
INVARIANTS LastingTypeOK OnePerPrint RowsAreRead EndsTellTruth
PROPERTIES JobsFinish TurnEndsWhenBegun JobsEnd SenderTold
CHECK_DEADLOCK FALSE
