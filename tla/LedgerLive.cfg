CONSTANTS
    Wallets = {1}
    Amounts = {1}
    ToAmounts = {1}
    Sessions = {s1, s2}
    Transactions = {t1}
    Currencies = {eur, usd}
    Ops = {"create", "update", "delete", "walletCurrency", "workspaceCurrency", "convert"}
    SharedRows = {t1}
    MaxDrift = 1
SPECIFICATION FairSpec
PROPERTIES RequestsEnd WhatIsSettledStays
