\* A bulk action beside another that deletes one of its rows.
CONSTANTS
    Picks = {1, 2}
    Labels = {"none", "food"}
    Homes = {usd}
    Selectors = {r1, r2}
    BulkLimit = 2
    MaxBegun = 2
SPECIFICATION SelectionsSpec
INVARIANT RowsOwnHistory
CHECK_DEADLOCK FALSE
