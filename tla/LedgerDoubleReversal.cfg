CONSTANTS
    Wallets = {1, 2}
    Amounts = {1}
    ToAmounts = {2}
    Sessions = {s1, s2}
    Transactions = {t1}
    Currencies = {eur}
    Ops = {"create", "delete", "bulkDelete"}
    SharedRows = {t1}
    MaxDrift = 2
SPECIFICATION Spec
INVARIANTS
    BalanceMatchesLedger
