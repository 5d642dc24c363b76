----------------------------- MODULE Categories -----------------------------
(***************************************************************************)
(* Categories, the budgets on them, and the transactions and line items    *)
(* that name them (accounts/service.rs, budgets/service.rs, the category   *)
(* checks of transactions/service.rs).  No read here takes a lock, so      *)
(* what a request has found may be gone when it writes: each statement is  *)
(* a step, and what a transaction has written shows when it commits.       *)
(***************************************************************************)
EXTENDS Integers, FiniteSets

CONSTANTS
    Categories,
    NoCategory,
    BudgetIds,
    Rows,              \* transactions
    Items,             \* line items
    CategoryRequests

ASSUME CategoriesAssumption ==
    /\ NoCategory \notin Categories
    /\ Rows \cap Items = {}

Kinds == {"income", "expense"}

VARIABLES
    category,   \* committed: "none", "income", "expense" or "deleted"
    budget,     \* committed: the category a live budget is on; state
    label,      \* committed: the category a live row or item names
    touched,    \* rows and items an open deletion has already cleared
    ask         \* what each request is doing

categoriesVars == <<category, budget, label, touched, ask>>

Live(c) == category[c] \in Kinds
LiveBudgets == {b \in BudgetIds : budget[b].state = "live"}
BudgetsOn(c) == {b \in LiveBudgets : budget[b].on = c}
Named(S, c) == {l \in S : label[l] = c}

\* what: the category.  which: the budget, row or item.  found: the rows and
\* items a deletion has seen naming the category.  seen: the budgets.
Waiting == [pc |-> "idle", op |-> "label", what |-> NoCategory, which |-> {}, found |-> {}, seen |-> {}]

CategoriesInit ==
    /\ category = [c \in Categories |-> "expense"]
    /\ budget = [b \in BudgetIds |-> [state |-> "none", on |-> NoCategory]]
    /\ label = [l \in Rows \cup Items |-> NoCategory]
    /\ touched = [r \in CategoryRequests |-> {}]
    /\ ask = [r \in CategoryRequests |-> Waiting]

In(r, pc) == ask[r].pc = pc
Held(c) == \E r \in CategoryRequests : ask[r].what = c /\ ask[r].pc \in {"budget", "commit"}
Now(r, changes) == ask' = [ask EXCEPT ![r] = changes]

(* Mutation: the request ends and its rows stay locked. *)
OverLocked(r) ==
    /\ Now(r, Waiting)
    /\ UNCHANGED touched

Over(r) ==
    /\ Now(r, Waiting)
    /\ touched' = [touched EXCEPT ![r] = {}]

\* A refusal, an error or a lost connection: nothing is written.
GiveUp(r) ==
    /\ ~In(r, "idle")
    /\ Over(r)
    /\ UNCHANGED <<category, budget, label>>

(***************************************************************************)
(* A transaction or an item is given a category, or none: create, update,  *)
(* bulk_update, add_item, replace_item.                                    *)
(***************************************************************************)
AskLabel(r, l, c) ==
    /\ In(r, "idle")
    /\ c # NoCategory => category[c] # "none"
    /\ Now(r, [Waiting EXCEPT !.op = "label", !.pc = "check", !.what = c, !.which = {l}])
    /\ UNCHANGED <<category, budget, label, touched>>

\* find_category: the category is there now.
RequireCategory(r) ==
    /\ In(r, "check")
    /\ ask[r].op = "label"
    /\ ask[r].what # NoCategory => Live(ask[r].what)
    /\ Now(r, [ask[r] EXCEPT !.pc = "write"])
    /\ UNCHANGED <<category, budget, label, touched>>

\* A row an open deletion has cleared is locked until it commits.
WriteLabel(r) ==
    /\ In(r, "write")
    /\ ask[r].op = "label"
    /\ \A q \in CategoryRequests : ask[r].which \cap touched[q] = {}
    /\ label' = [l \in Rows \cup Items |-> IF l \in ask[r].which THEN ask[r].what ELSE label[l]]
    /\ Over(r)
    /\ UNCHANGED <<category, budget>>

(***************************************************************************)
(* Budgets.  The id of a new one is its request's own.                     *)
(***************************************************************************)
AskCreateBudget(r, c, b) ==
    /\ In(r, "idle")
    /\ budget[b].state = "none"
    /\ \A q \in CategoryRequests : b \notin ask[q].which
    /\ category[c] # "none"
    /\ Now(r, [Waiting EXCEPT !.op = "create_budget", !.pc = "check", !.what = c, !.which = {b}])
    /\ UNCHANGED <<category, budget, label, touched>>

\* create: an expense category, and no budget on it yet.
FindExpense(r) ==
    /\ In(r, "check")
    /\ ask[r].op = "create_budget"
    /\ category[ask[r].what] = "expense"
    /\ Now(r, [ask[r] EXCEPT !.pc = "look"])
    /\ UNCHANGED <<category, budget, label, touched>>

FindForCategory(r) ==
    /\ In(r, "look")
    /\ BudgetsOn(ask[r].what) = {}
    /\ Now(r, [ask[r] EXCEPT !.pc = "write"])
    /\ UNCHANGED <<category, budget, label, touched>>

(* Mutation: the check before the insert is trusted, and there is no index. *)
InsertUnchecked(r) ==
    /\ In(r, "write")
    /\ ask[r].op = "create_budget"
    /\ budget' = [b \in BudgetIds |->
                    IF b \in ask[r].which THEN [state |-> "live", on |-> ask[r].what] ELSE budget[b]]
    /\ Over(r)
    /\ UNCHANGED <<category, label>>

\* budgets_one_per_category_idx; the key to categories is satisfied by a
\* category that is only marked deleted.
InsertBudget(r) ==
    /\ In(r, "write")
    /\ ask[r].op = "create_budget"
    /\ BudgetsOn(ask[r].what) = {}
    /\ budget' = [b \in BudgetIds |->
                    IF b \in ask[r].which THEN [state |-> "live", on |-> ask[r].what] ELSE budget[b]]
    /\ Over(r)
    /\ UNCHANGED <<category, label>>

\* update: the amount alone moves, so what is modelled is that the row must
\* be there twice; delete: the row goes.
AskBudget(r, op, b) ==
    /\ In(r, "idle")
    /\ budget[b].state = "live"
    /\ Now(r, [Waiting EXCEPT !.op = op, !.pc = "write", !.which = {b}])
    /\ UNCHANGED <<category, budget, label, touched>>

UpdateBudget(r) ==
    /\ In(r, "write")
    /\ ask[r].op = "update_budget"
    /\ ask[r].which \subseteq LiveBudgets
    /\ Over(r)
    /\ UNCHANGED <<category, budget, label>>

RetireBudget(r) ==
    /\ In(r, "write")
    /\ ask[r].op = "delete_budget"
    /\ budget' = [b \in BudgetIds |->
                    IF b \in ask[r].which THEN [budget[b] EXCEPT !.state = "deleted"] ELSE budget[b]]
    /\ Over(r)
    /\ UNCHANGED <<category, label>>

(***************************************************************************)
(* Categories.                                                             *)
(***************************************************************************)
\* update_category may change the type, whatever names the category.
UpdateCategory(c, kind) ==
    /\ Live(c)
    /\ ~Held(c)
    /\ category' = [category EXCEPT ![c] = kind]
    /\ UNCHANGED <<budget, label, touched, ask>>

AskDeleteCategory(r, c) ==
    /\ In(r, "idle")
    /\ Live(c)
    /\ Now(r, [Waiting EXCEPT !.op = "delete_category", !.pc = "rows", !.what = c])
    /\ UNCHANGED <<category, budget, label, touched>>

Unlocked(S) == \A q \in CategoryRequests : S \cap touched[q] = {}

ClearRows(r) ==
    LET S == Named(Rows, ask[r].what)
    IN  /\ In(r, "rows")
        /\ Unlocked(S)
        /\ touched' = [touched EXCEPT ![r] = S]
        /\ Now(r, [ask[r] EXCEPT !.pc = "items", !.found = S])
        /\ UNCHANGED <<category, budget, label>>

(* Mutation: line items keep the category. *)
ClearNoItems(r) ==
    /\ In(r, "items")
    /\ Now(r, [ask[r] EXCEPT !.pc = "category", !.found = @ \cup Named(Items, ask[r].what)])
    /\ UNCHANGED <<category, budget, label, touched>>

ClearItems(r) ==
    LET S == Named(Items, ask[r].what)
    IN  /\ In(r, "items")
        /\ Unlocked(S)
        /\ touched' = [touched EXCEPT ![r] = @ \cup S]
        /\ Now(r, [ask[r] EXCEPT !.pc = "category", !.found = @ \cup S])
        /\ UNCHANGED <<category, budget, label>>

\* soft_delete_category waits for another deletion of the same row; one
\* that finds it gone changes no row and carries on.
MarkDeleted(r) ==
    /\ In(r, "category")
    /\ ~Held(ask[r].what)
    /\ Now(r, [ask[r] EXCEPT !.pc = "budget"])
    /\ UNCHANGED <<category, budget, label, touched>>

(* Mutation: the budget stays behind. *)
LeaveBudget(r) ==
    /\ In(r, "budget")
    /\ Now(r, [ask[r] EXCEPT !.pc = "commit", !.seen = BudgetsOn(ask[r].what)])
    /\ UNCHANGED <<category, budget, label, touched>>

\* delete_for_category: the budget that is on it now.
FindBudget(r) ==
    LET S == BudgetsOn(ask[r].what)
    IN  /\ In(r, "budget")
        /\ Now(r, [ask[r] EXCEPT !.pc = "commit", !.which = S, !.seen = S])
        /\ UNCHANGED <<category, budget, label, touched>>

CommitDelete(r) ==
    /\ In(r, "commit")
    /\ category' = [category EXCEPT ![ask[r].what] = "deleted"]
    /\ label' = [l \in Rows \cup Items |-> IF l \in touched[r] THEN NoCategory ELSE label[l]]
    /\ budget' = [b \in BudgetIds |->
                    IF b \in ask[r].which THEN [budget[b] EXCEPT !.state = "deleted"] ELSE budget[b]]
    /\ Over(r)

CategoriesNext ==
    \/ \E r \in CategoryRequests :
          \/ \E l \in Rows \cup Items, c \in Categories \cup {NoCategory} : AskLabel(r, l, c)
          \/ RequireCategory(r) \/ WriteLabel(r)
          \/ \E c \in Categories, b \in BudgetIds : AskCreateBudget(r, c, b)
          \/ FindExpense(r) \/ FindForCategory(r) \/ InsertBudget(r)
          \/ \E b \in BudgetIds, op \in {"update_budget", "delete_budget"} : AskBudget(r, op, b)
          \/ UpdateBudget(r) \/ RetireBudget(r)
          \/ \E c \in Categories : AskDeleteCategory(r, c)
          \/ ClearRows(r) \/ ClearItems(r) \/ MarkDeleted(r) \/ FindBudget(r) \/ CommitDelete(r)
          \/ GiveUp(r)
    \/ \E c \in Categories, kind \in Kinds : UpdateCategory(c, kind)

CategoriesSpec == CategoriesInit /\ [][CategoriesNext]_categoriesVars

(***************************************************************************)
(* Properties.                                                             *)
(***************************************************************************)
\* The rows and requests hold what their declarations say, and no row is
\* cleared by two open deletions.
CategoriesTypeOK ==
    /\ category \in [Categories -> Kinds \cup {"deleted"}]
    /\ budget \in [BudgetIds -> [state : {"none", "live", "deleted"},
                                 on : Categories \cup {NoCategory}]]
    /\ label \in [Rows \cup Items -> Categories \cup {NoCategory}]
    /\ \A r, q \in CategoryRequests :
          /\ touched[r] \subseteq Rows \cup Items
          /\ r # q => touched[r] \cap touched[q] = {}
          /\ In(r, "idle") => touched[r] = {}

\* Two saves at once leave one live budget on a category.
OneBudgetEach == \A c \in Categories : Cardinality(BudgetsOn(c)) <= 1

\* A deletion lets go of every row and item that named the category when it
\* looked, and of the budget that was on it when it looked: what names a
\* deleted category was written by a request that had found it before.
DeletedLetsGo ==
    [][\A c \in Categories :
          Live(c) /\ category'[c] = "deleted" =>
             \E r \in CategoryRequests :
                /\ In(r, "commit") /\ ask[r].what = c
                /\ BudgetsOn(c)' \cap ask[r].seen = {}
                /\ \A l \in ask[r].found : label'[l] # c]_categoriesVars

\* Not kept.  What budgets/service.rs says of a budget on a category nobody
\* can pick: there is none.
BudgetsCanBeSeen == \A b \in LiveBudgets : Live(budget[b].on)

\* Not kept.  BUD-1: a budget is on an expense category.
BudgetsOnExpenses ==
    \A b \in LiveBudgets : Live(budget[b].on) => category[budget[b].on] = "expense"
=============================================================================
