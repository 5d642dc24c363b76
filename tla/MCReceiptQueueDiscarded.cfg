CONSTANTS
    f1 = f1
    f2 = f2
    Replicas = {r1}
    Files = {f1}
    TelegramFiles = {}
    Batch = 1
    Backoff <- OneWait
    GiveUpAfter = 2
    StaleAfter = 2
    ReadTakes = 1
    Answers = {"read"}
    People = {"discard"}
    MaxFaults = 0
    MaxSaves = 1
SPECIFICATION QueueFairSpec
PROPERTY JobsEnd
