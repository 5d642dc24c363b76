CONSTANTS
    eur = eur
    Wallets = {1, 2}
    Amounts = {1}
    ToAmounts = {2}
    Sessions = {s1, s2}
    Transactions = {t1, t2}
    Currencies = {eur, usd}
    Ops = {"create", "update", "delete", "bulkDelete", "walletDelete", "convert"}
    SharedRows = {}
    MaxDrift = 4
SPECIFICATION LedgerSpec
SYMMETRY Symmetry
INVARIANTS
    TypeOK
    BalanceMatchesLedger
    WritesNeverDeadlock
    NoLiveRowOnDeletedWallet
    RowsPricedInWorkspaceCurrency
PROPERTIES
    ImplementsBook
