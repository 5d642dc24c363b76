\* Two processes and a batch whose first job fits the stale limit and whose
\* last does not, as two attempts of four minutes fit ten and three do not.
CONSTANTS
    f1 = f1
    f2 = f2
    Replicas = {r1, r2}
    Files = {f1, f2}
    TelegramFiles = {f1}
    Batch = 2
    Backoff <- OneWait
    GiveUpAfter = 2
    StaleAfter = 1
    ReadTakes = 1
    Answers = {"read", "busy", "refused", "error"}
    People = {"delete", "discard"}
    MaxFaults = 0
    MaxSaves = 1
SPECIFICATION QueueSpec
INVARIANT OneTaker
CHECK_DEADLOCK FALSE
