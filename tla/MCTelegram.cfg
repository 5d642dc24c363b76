\* Two processes reading receipts, two chats, days that pass, taps and links.
CONSTANTS
    c1 = c1
    c2 = c2
    f1 = f1
    f2 = f2
    Backoff <- OneWait
    ReadTakes = 1
    StaleAfter = 1
    MaxFaults = 1
    NoChat = NoChat
    NoWorker = NoWorker
    Updates <- ThreeUpdates
    Chats = {c1, c2}
    Workers = {w1, w2}
    TelegramKeeps = 1
    MaxCrashes = 1
    MaxClaimErrors = 1
    MaxPanics = 1
    Folders = {d1, d2}
    NoFolder = NoFolder
    LinkChats = {c1, c2}
    LinkMembers = {ann, bob}
    Nobody = Nobody
    MaxElsewhere = 2
    MaxChanges = 3
    MaxTaps = 3
    Replicas = {r1, r2}
    Files = {f1, f2}
    TelegramFiles = {f1}
    Batch = 2
    GiveUpAfter = 2
    Answers = {"read", "busy", "refused"}
    People = {"delete", "discard"}
    MaxSaves = 2
    ChatOf <- TwoChats
    ClaimsKept = 1
    MaxDay = 2
    NotStated = NotStated
    Unreadable = Unreadable
    DraftFigures <- SmallFigures
    DraftLines <- SmallLines
    Tolerance = 1
    MaxItems = 2
SPECIFICATION TelegramSpec
SYMMETRY Alike
INVARIANTS TelegramTypeOK OneTakerInTime ToldAsItEnded HandledAtMostOnce ChatsTellTheTruth DraftsAddUp
PROPERTIES SavesOnlyUnsaved EndedJobsStay
CHECK_DEADLOCK FALSE
