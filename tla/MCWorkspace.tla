---------------------------- MODULE MCWorkspace ----------------------------
(* What the people of a workspace change together, on small instances:      *)
(* members, wallets, categories and budgets, files, line items and          *)
(* selections of transactions.  A behaviour is about one of them, with the  *)
(* others at their initial state: they are modelled apart, and share none   *)
(* of the variables.                                                        *)
EXTENDS Members, Wallets, Categories, Vault, Items, Selections, TLC

CONSTANTS r1, r2,   \* requests
          usd

VARIABLE part

SmallPaperValues ==
    {[day |-> 1, currency |-> 1], [day |-> 2, currency |-> 1], [day |-> 1, currency |-> 2]}

OneLine(name, amount, quantity, unit) ==
    [name |-> name, amount |-> amount, quantity |-> quantity, unit |-> unit]
SmallLineValues == {OneLine(1, 7, 2, 0), OneLine(2, 5, 0, 0), OneLine(3, -2, 0, 0)}
\* The first two names differ in case alone.
SmallKey(name) == IF name = 2 THEN 1 ELSE name

SameRequests == Permutations({r1, r2})

WorkspaceInit ==
    /\ part \in {"members", "wallets", "categories", "vault", "items", "selections"}
    /\ MembersInit /\ WalletsInit /\ CategoriesInit /\ VaultInit /\ ItemsInit
    /\ SelectionsInit
    /\ part # "selections" =>
          home = usd /\ pick \in [Picks -> {[live |-> TRUE, label |-> "none", base |-> usd, exported |-> FALSE]}]

WorkspaceNext ==
    /\ \/ part = "members" /\ MembersNext
          /\ UNCHANGED <<walletsVars, categoriesVars, vaultVars, itemsVars, selectionsVars>>
       \/ part = "wallets" /\ WalletsNext
          /\ UNCHANGED <<membersVars, categoriesVars, vaultVars, itemsVars, selectionsVars>>
       \/ part = "categories" /\ CategoriesNext
          /\ UNCHANGED <<membersVars, walletsVars, vaultVars, itemsVars, selectionsVars>>
       \/ part = "vault" /\ VaultNext
          /\ UNCHANGED <<membersVars, walletsVars, categoriesVars, itemsVars, selectionsVars>>
       \/ part = "items" /\ ItemsNext
          /\ UNCHANGED <<membersVars, walletsVars, categoriesVars, vaultVars, selectionsVars>>
       \/ part = "selections" /\ SelectionsNext
          /\ UNCHANGED <<membersVars, walletsVars, categoriesVars, vaultVars, itemsVars>>
    /\ UNCHANGED part

workspaceVars ==
    <<part, membersVars, walletsVars, categoriesVars, vaultVars, itemsVars, selectionsVars>>
WorkspaceSpec == WorkspaceInit /\ [][WorkspaceNext]_workspaceVars

\* A fact about one part is looked at in the behaviours about it.
Of(name, fact) == part = name => fact

\* Every variable of the six parts has a value the code can give it.
WorkspaceTypeOK ==
    /\ Of("members", MembersTypeOK) /\ Of("wallets", WalletsTypeOK)
    /\ Of("categories", CategoriesTypeOK) /\ Of("vault", VaultTypeOK)
    /\ Of("items", ItemsTypeOK) /\ Of("selections", SelectionsTypeOK)

\* What there may be one of: a default wallet per workspace, also for the
\* index that would refuse a second, and a budget per category.
OneOfEach ==
    Of("wallets", OneDefault /\ IndexNeverTrips) /\ Of("categories", OneBudgetEach)

\* What is stored tells the truth: the bytes of a file last as long as its
\* row, a preview is there when its row says so, the history of a row ends
\* with what the row says, a bulk action logs a row as another only when one
\* was deleted meanwhile, and a row marked as exported is in a file.
StoredTruth ==
    /\ Of("vault", BytesGoWithFile /\ FlaggedIsStored)
    /\ Of("items", TrailTellsRows)
    /\ Of("selections", SkewOnlyByDeletion /\ MarkedIsInFile)

\* What is read of line items agrees with the rows: a product's figures with
\* its purchases, the pages of a list with each other.
ReadsAgree == Of("items", ItemsMatchPurchases /\ ItemPagesAreStable)

\* What a deletion leaves behind: another default, no live row that names a
\* deleted category or file, and no change of a deleted line item or
\* transaction.
DeletionsLeaveOrder ==
    DefaultHandedOn /\ DeletedLetsGo /\ DeletedFileLetsGo /\ DeletedRowsAreLeft
=============================================================================
